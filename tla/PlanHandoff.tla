---------------------------- MODULE PlanHandoff ----------------------------
\* Octoplan's handoff of a plan to Octogent (planOps.ts generateHandoff,
\* saveHandoff, applyHandoff): three handlers that read HANDOFF.md, ask Claude
\* or write tentacles for a while, and write HANDOFF.md and then OCTOPUS.md
\* (fsPlanStore.ts writeHandoff).  One queue per repository runs them one at a
\* time, in the order of arrival.  A plan is the number of the request that
\* made it; DeckTentacles models what an apply does to a tentacle.
EXTENDS Naturals, Sequences, FiniteSets

CONSTANTS
  MaxHandoffs,       \* bound: requests
  MaxHandoffFaults   \* bound: tasks that throw and crashes of the server

ASSUME HandoffAssumption == MaxHandoffs \in Nat /\ MaxHandoffFaults \in Nat

VARIABLES
  handoffQueue,    \* the requests that wait, by number and kind
  handoffTask,     \* the task that runs: where it is and the plan it holds
  handoffFile,     \* HANDOFF.md: status and plan; plan 0 is no file
  octopusFile,     \* the plan whose prompt OCTOPUS.md holds
  handoffExported, \* plans some tentacle of which was written into Octogent
  handoffPlans,    \* generates and saves that were asked for and did not fail
  handoffCounts    \* how many requests and faults there were

handoffVars == <<handoffQueue, handoffTask, handoffFile, octopusFile, handoffExported,
                 handoffPlans, handoffCounts>>

Kinds == {"generate", "save", "apply"}
Requests == 1..MaxHandoffs
NoTask == [at |-> "idle", n |-> 0, kind |-> "save", plan |-> 0, prompt |-> 0]

\* A task ends, and with it the promise the next one waits for: then(task, task).
TaskOver == handoffTask' = NoTask

HandoffFault ==
  /\ handoffCounts.faults < MaxHandoffFaults
  /\ handoffCounts' = [handoffCounts EXCEPT !.faults = @ + 1]

-----------------------------------------------------------------------------
\* Slip: an apply overtakes what waits.
Enqueue_ApplyFirst(request) ==
  handoffQueue' = IF request.kind = "apply" THEN <<request>> \o handoffQueue
                  ELSE Append(handoffQueue, request)

\* inHandoffQueue
Enqueue(request) == handoffQueue' = Append(handoffQueue, request)

RequestHandoff(kind) ==
  LET n == handoffCounts.requests + 1
  IN  /\ n <= MaxHandoffs
      /\ handoffCounts' = [handoffCounts EXCEPT !.requests = n]
      /\ Enqueue([n |-> n, kind |-> kind])
      /\ handoffPlans' = IF kind = "apply" THEN handoffPlans ELSE handoffPlans \cup {n}
      /\ UNCHANGED <<handoffTask, handoffFile, octopusFile, handoffExported>>

\* A generate or save makes the plan of its number; an apply reads the files.
TaskStarts ==
  /\ handoffTask.at = "idle"
  /\ handoffQueue # <<>>
  /\ LET next == Head(handoffQueue)
     IN  handoffTask' = [at |-> IF next.kind = "apply" THEN "reading" ELSE "making",
                         n |-> next.n, kind |-> next.kind, plan |-> next.n, prompt |-> next.n]
  /\ handoffQueue' = Tail(handoffQueue)
  /\ UNCHANGED <<handoffFile, octopusFile, handoffExported, handoffPlans, handoffCounts>>

\* generateHandoff without a goal, or any of its reads or Claude's split throws
\* (a proposal that throws falls back to the stages); the same for a save.
NothingMade ==
  /\ handoffTask.at = "making"
  /\ HandoffFault
  /\ handoffPlans' = handoffPlans \ {handoffTask.n}
  /\ TaskOver
  /\ UNCHANGED <<handoffQueue, handoffFile, octopusFile, handoffExported>>

\* writeHandoff: HANDOFF.md, a draft for a generate or a save ...
WritesHandoff ==
  /\ handoffTask.at \in {"making", "applied"}
  /\ handoffFile' = [status |-> IF handoffTask.kind = "apply" THEN "applied" ELSE "draft",
                     plan |-> handoffTask.plan]
  /\ handoffTask' = [handoffTask EXCEPT !.at = "octopus"]
  /\ UNCHANGED <<handoffQueue, octopusFile, handoffExported, handoffPlans, handoffCounts>>

\* ... and OCTOPUS.md, in which the prompt of the plan is kept.
WritesOctopus ==
  /\ handoffTask.at = "octopus"
  /\ octopusFile' = handoffTask.prompt
  /\ TaskOver
  /\ UNCHANGED <<handoffQueue, handoffFile, handoffExported, handoffPlans, handoffCounts>>

\* readHandoff: the plan of HANDOFF.md with the prompt OCTOPUS.md has.
ApplyReadsHandoff ==
  /\ handoffTask.at = "reading"
  /\ handoffTask' = IF handoffFile.plan = 0 THEN NoTask
                    ELSE [handoffTask EXCEPT !.at = "exporting", !.plan = handoffFile.plan,
                                             !.prompt = octopusFile]
  /\ UNCHANGED <<handoffQueue, handoffFile, octopusFile, handoffExported, handoffPlans,
                 handoffCounts>>

\* Some tentacle was written, or none: then the plan stays a draft.
ApplyExports ==
  /\ handoffTask.at = "exporting"
  /\ \/ /\ handoffExported' = handoffExported \cup {handoffTask.plan}
        /\ handoffTask' = [handoffTask EXCEPT !.at = "exported"]
     \/ TaskOver /\ UNCHANGED handoffExported
  /\ UNCHANGED <<handoffQueue, handoffFile, octopusFile, handoffPlans, handoffCounts>>

\* writeOctopusPrompt, and then writeHandoff with the status "applied".
WriteOctopusPrompt ==
  /\ handoffTask.at = "exported"
  /\ octopusFile' = handoffTask.prompt
  /\ handoffTask' = [handoffTask EXCEPT !.at = "applied"]
  /\ UNCHANGED <<handoffQueue, handoffFile, handoffExported, handoffPlans, handoffCounts>>

\* A later write of a task throws; what it wrote stays.
TaskThrows ==
  /\ handoffTask.at \in {"octopus", "reading", "exporting", "exported", "applied"}
  /\ HandoffFault
  /\ TaskOver
  /\ UNCHANGED <<handoffQueue, handoffFile, octopusFile, handoffExported, handoffPlans>>

\* The server dies: what waits is lost, with the plan of a task that wrote nothing.
HandoffServerCrashes ==
  /\ HandoffFault
  /\ handoffPlans' = (handoffPlans \ {handoffQueue[i].n : i \in DOMAIN handoffQueue}) \
                       (IF handoffTask.at = "making" THEN {handoffTask.n} ELSE {})
  /\ handoffQueue' = <<>>
  /\ TaskOver
  /\ UNCHANGED <<handoffFile, octopusFile, handoffExported>>

-----------------------------------------------------------------------------
HandoffInit ==
  /\ handoffQueue = <<>>
  /\ handoffTask = NoTask
  /\ handoffFile = [status |-> "draft", plan |-> 0]
  /\ octopusFile = 0
  /\ handoffExported = {}
  /\ handoffPlans = {}
  /\ handoffCounts = [requests |-> 0, faults |-> 0]

HandoffNext ==
  \/ \E kind \in Kinds : RequestHandoff(kind)
  \/ TaskStarts \/ NothingMade \/ WritesHandoff \/ WritesOctopus
  \/ ApplyReadsHandoff \/ ApplyExports \/ WriteOctopusPrompt
  \/ TaskThrows \/ HandoffServerCrashes

HandoffSpec == HandoffInit /\ [][HandoffNext]_handoffVars

-----------------------------------------------------------------------------
HandoffTypeOK ==
  /\ handoffQueue \in Seq([n : Requests, kind : Kinds])
  /\ handoffTask \in [at : {"idle", "making", "octopus", "reading", "exporting", "exported",
                            "applied"},
                      n : 0..MaxHandoffs, kind : Kinds, plan : 0..MaxHandoffs,
                      prompt : 0..MaxHandoffs]
  /\ handoffFile \in [status : {"draft", "applied"}, plan : 0..MaxHandoffs]
  /\ octopusFile \in 0..MaxHandoffs
  /\ handoffExported \in SUBSET Requests
  /\ handoffPlans \in SUBSET Requests
  /\ handoffCounts \in [requests : 0..MaxHandoffs, faults : Nat]

\* "an apply sent right after a save always sees the saved plan"
\* (planOps.ts:108): the plan an apply writes into Octogent is the one of the
\* last generate or save asked for before it that did not fail.
AppliesTheLastSave ==
  handoffTask.at \in {"exporting", "exported", "applied"} =>
    /\ handoffTask.plan \in handoffPlans
    /\ handoffTask.plan < handoffTask.n
    /\ \A n \in handoffPlans : n < handoffTask.n => n <= handoffTask.plan

\* "applied" is said of a plan that reached Octogent only, and at rest, while
\* nothing failed, OCTOPUS.md holds the prompt of the plan of HANDOFF.md.
FilesInStep ==
  /\ handoffFile.status = "applied" => handoffFile.plan \in handoffExported
  /\ handoffTask.at = "idle" /\ handoffCounts.faults = 0 => octopusFile = handoffFile.plan

\* An apply hands over the last plan saved before it, and the files agree.
HandsOverTheLastSave == AppliesTheLastSave /\ FilesInStep
=============================================================================
