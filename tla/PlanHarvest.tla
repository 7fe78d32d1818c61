---------------------------- MODULE PlanHarvest ----------------------------
\* Octoplan's harvest: runHarvest and resolveHarvest of planOps.ts with
\* addHarvest, resolveHarvest and the harvest mark of store/fsPlanStore.ts and
\* the log integrations/harvest.ts reads.  A pass shows Claude the newest of the
\* commits since the mark and stores what it proposes as pending candidates in
\* HARVEST.md; a person accepts a candidate, which writes a decision, or
\* rejects it.  The writes of one file are atomic (PlanStore); what happens
\* between two of them is modelled here.
EXTENDS Naturals, Sequences, FiniteSets

CONSTANTS
  HarvestTitles,    \* titles Claude may propose, by title key
  MaxCommits,       \* bound: commits made
  BranchOf,         \* the branch of each commit; commits are numbered by date
  FirstRunCommits,  \* commits a log without a mark lists (HARVEST_FIRST_RUN_COMMITS)
  HarvestMaxCommits, \* commits a log after a mark lists (HARVEST_MAX_COMMITS)
  MaxHarvestPerRun, \* proposals kept of one pass (MAX_HARVEST_PER_RUN)
  MaxCandidates,    \* bound: candidates stored
  MaxResolves,      \* bound: accepts and rejects asked for
  MaxHarvestFaults  \* bound: throwing calls, crashes, decisions deleted by hand

ASSUME HarvestAssumption ==
  /\ {MaxCommits, FirstRunCommits, HarvestMaxCommits, MaxHarvestPerRun, MaxCandidates,
      MaxResolves, MaxHarvestFaults} \subseteq Nat
  /\ BranchOf \in [1..MaxCommits -> Nat]

VARIABLES
  commits,        \* how many commits there are
  candidates,     \* the candidates of HARVEST.md; H<n> is the n-th
  harvestMark,    \* the mark in its preamble: a commit, or 0
  planDecisions,  \* the harvested decisions of DECISIONS.md: id and candidate
  harvestPass,    \* the pass in flight: its step, what it read, what was proposed
  resolveQueue,   \* harvestQueue: the accepts and rejects that wait
  resolving,      \* the one that runs
  harvestShown,   \* commits Claude was shown in a pass whose proposals are stored
  harvestCut,     \* commits the mark passed because a log that was full left them out
  harvestCounts   \* how many resolves, deletions and faults there were

harvestVars == <<commits, candidates, harvestMark, planDecisions, harvestPass, resolveQueue,
                 resolving, harvestShown, harvestCut, harvestCounts>>

Candidate == [title : HarvestTitles, status : {"pending", "accepted", "rejected"}, decision : Nat]
Resolve == [candidate : Nat \ {0}, action : {"accept", "reject"}]

NoPass == [at |-> "idle", inputs |-> {}, cut |-> {}, head |-> 0, proposed |-> {}]
NoResolve == [at |-> "idle", candidate |-> 0, action |-> "reject", decision |-> 0]

Titled == {candidates[c].title : c \in DOMAIN candidates}

\* What git log leaves out when it is given ^mark.
Ancestors(mark) == {c \in 1..mark : BranchOf[c] = BranchOf[mark]}
AfterMark(mark) == (1..commits) \ Ancestors(mark)

\* The log lists the newest of them, fewer when it has no mark to begin at.
LogLimit(mark) == IF mark = 0 THEN FirstRunCommits ELSE HarvestMaxCommits
Since(mark) ==
  {c \in AfterMark(mark) : Cardinality({d \in AfterMark(mark) : d > c}) < LogLimit(mark)}
CutOff(mark) == AfterMark(mark) \ Since(mark)
Newest(inputs, mark) == IF inputs = {} THEN mark
                        ELSE CHOOSE c \in inputs : \A d \in inputs : d <= c

\* nextId: one past the greatest id in the file.
NextDecision == 1 + (CHOOSE n \in {d.id : d \in planDecisions} \cup {0} :
                       \A d \in planDecisions : d.id <= n)

HarvestCount(what) == harvestCounts' = [harvestCounts EXCEPT ![what] = @ + 1]

HarvestFault ==
  /\ harvestCounts.faults < MaxHarvestFaults
  /\ HarvestCount("faults")

-----------------------------------------------------------------------------
\* The world outside.

Commit ==
  /\ commits < MaxCommits
  /\ commits' = commits + 1
  /\ UNCHANGED <<candidates, harvestMark, planDecisions, harvestPass, resolveQueue, resolving,
                 harvestShown, harvestCut, harvestCounts>>

\* A person deletes a decision from DECISIONS.md: its id may be given again.
DeleteDecision(d) ==
  /\ harvestCounts.deletions < MaxHarvestFaults
  /\ HarvestCount("deletions")
  /\ planDecisions' = planDecisions \ {d}
  /\ UNCHANGED <<commits, candidates, harvestMark, harvestPass, resolveQueue, resolving,
                 harvestShown, harvestCut>>

-----------------------------------------------------------------------------
\* runHarvest.  `harvesting` holds the repository exactly while a pass is in
\* flight: a second call returns at once.

StartHarvest ==
  /\ harvestPass.at = "idle"
  /\ commits > 0
  /\ harvestPass' = [NoPass EXCEPT !.at = "marked", !.head = harvestMark]
  /\ UNCHANGED <<commits, candidates, harvestMark, planDecisions, resolveQueue, resolving,
                 harvestShown, harvestCut, harvestCounts>>

\* Nothing new ends the pass.  The log of a mark git does not know (a rewritten
\* history, gc) fails, and is read again as that of a first pass.
ReadHarvestInputs ==
  \E mark \in {harvestPass.head, 0} :
    LET inputs == Since(mark)
    IN  /\ harvestPass.at = "marked"
        /\ harvestPass' = IF inputs = {} THEN NoPass
                          ELSE [NoPass EXCEPT !.at = "asking", !.inputs = inputs,
                                              !.cut = CutOff(mark),
                                              !.head = Newest(inputs, mark)]
        /\ UNCHANGED <<commits, candidates, harvestMark, planDecisions, resolveQueue, resolving,
                       harvestShown, harvestCut, harvestCounts>>

\* Claude may propose any title, one it was told is known as well; the first
\* MAX_HARVEST_PER_RUN are kept.
ClaudeProposes ==
  /\ harvestPass.at = "asking"
  /\ \E proposed \in SUBSET HarvestTitles :
       /\ IsFiniteSet(proposed) /\ Cardinality(proposed) <= MaxHarvestPerRun
       /\ harvestPass' = [harvestPass EXCEPT !.at = "adding", !.proposed = proposed]
  /\ UNCHANGED <<commits, candidates, harvestMark, planDecisions, resolveQueue, resolving,
                 harvestShown, harvestCut, harvestCounts>>

\* Slip: only pending candidates block their title.
FreshTitles_NotPending(proposed) ==
  proposed \ {candidates[c].title : c \in {d \in DOMAIN candidates :
                                            candidates[d].status = "pending"}}

\* addHarvest, one proposal of its list after the other and all in one write:
\* a title the file already has is dropped, whatever became of its candidate.
FreshTitles(proposed) == proposed \ Titled
InSomeOrder(titles) ==
  {order \in [1..Cardinality(titles) -> titles] : {order[i] : i \in DOMAIN order} = titles}

AddHarvest ==
  /\ harvestPass.at = "adding"
  /\ \E order \in InSomeOrder(FreshTitles(harvestPass.proposed)) :
       /\ Len(candidates) + Len(order) <= MaxCandidates
       /\ candidates' = candidates \o
            [i \in DOMAIN order |-> [title |-> order[i], status |-> "pending", decision |-> 0]]
  /\ harvestPass' = [harvestPass EXCEPT !.at = "marking"]
  /\ harvestShown' = harvestShown \cup harvestPass.inputs
  /\ UNCHANGED <<commits, harvestMark, planDecisions, resolveQueue, resolving, harvestCut,
                 harvestCounts>>

SetHarvestMark ==
  /\ harvestPass.at = "marking"
  /\ harvestMark' = harvestPass.head
  /\ harvestCut' = harvestCut \cup harvestPass.cut
  /\ harvestPass' = NoPass
  /\ UNCHANGED <<commits, candidates, planDecisions, resolveQueue, resolving, harvestShown,
                 harvestCounts>>

HarvestThrows ==
  /\ harvestPass.at # "idle"
  /\ HarvestFault
  /\ harvestPass' = NoPass
  /\ UNCHANGED <<commits, candidates, harvestMark, planDecisions, resolveQueue, resolving,
                 harvestShown, harvestCut>>

-----------------------------------------------------------------------------
\* resolveHarvest: one at a time, in arrival order.

AskResolve(c, action) ==
  /\ harvestCounts.resolves < MaxResolves
  /\ HarvestCount("resolves")
  /\ resolveQueue' = Append(resolveQueue, [candidate |-> c, action |-> action])
  /\ UNCHANGED <<commits, candidates, harvestMark, planDecisions, harvestPass, resolving,
                 harvestShown, harvestCut>>

\* resolveOne reads the candidate, with the decision it is linked to.
ResolveReads ==
  /\ resolving.at = "idle"
  /\ resolveQueue # <<>>
  /\ LET next == Head(resolveQueue)
     IN  resolving' = [at |-> IF next.action = "accept" THEN "linking" ELSE "writing",
                       candidate |-> next.candidate, action |-> next.action,
                       decision |-> candidates[next.candidate].decision]
  /\ resolveQueue' = Tail(resolveQueue)
  /\ UNCHANGED <<commits, candidates, harvestMark, planDecisions, harvestPass, harvestShown,
                 harvestCut, harvestCounts>>

\* A link to a decision that is there is kept; one to a deleted decision is not.
ResolveLinks ==
  /\ resolving.at = "linking"
  /\ resolving' = [resolving EXCEPT
       !.at = IF \E d \in planDecisions : d.id = resolving.decision THEN "writing" ELSE "deciding"]
  /\ UNCHANGED <<commits, candidates, harvestMark, planDecisions, harvestPass, resolveQueue,
                 harvestShown, harvestCut, harvestCounts>>

UpsertDecision ==
  /\ resolving.at = "deciding"
  /\ planDecisions' = planDecisions \cup {[id |-> NextDecision, from |-> resolving.candidate]}
  /\ resolving' = [resolving EXCEPT !.at = "writing", !.decision = NextDecision]
  /\ UNCHANGED <<commits, candidates, harvestMark, harvestPass, resolveQueue, harvestShown,
                 harvestCut, harvestCounts>>

\* A reject leaves the link, and the decision of an earlier accept, alone.
ResolveWrites ==
  LET c == resolving.candidate
  IN  /\ resolving.at = "writing"
      /\ candidates' =
           IF resolving.action = "accept"
             THEN [candidates EXCEPT ![c].status = "accepted", ![c].decision = resolving.decision]
             ELSE [candidates EXCEPT ![c].status = "rejected"]
      /\ resolving' = NoResolve
      /\ UNCHANGED <<commits, harvestMark, planDecisions, harvestPass, resolveQueue,
                     harvestShown, harvestCut, harvestCounts>>

\* It throws: the decision stays, the link is not written, the queue goes on.
ResolveThrows ==
  /\ resolving.at # "idle"
  /\ HarvestFault
  /\ resolving' = NoResolve
  /\ UNCHANGED <<commits, candidates, harvestMark, planDecisions, harvestPass, resolveQueue,
                 harvestShown, harvestCut>>

HarvestServerCrashes ==
  /\ HarvestFault
  /\ harvestPass' = NoPass
  /\ resolving' = NoResolve
  /\ resolveQueue' = <<>>
  /\ UNCHANGED <<commits, candidates, harvestMark, planDecisions, harvestShown, harvestCut>>

-----------------------------------------------------------------------------
HarvestInit ==
  /\ commits = 0
  /\ candidates = <<>>
  /\ harvestMark = 0
  /\ planDecisions = {}
  /\ harvestPass = NoPass
  /\ resolveQueue = <<>>
  /\ resolving = NoResolve
  /\ harvestShown = {}
  /\ harvestCut = {}
  /\ harvestCounts = [resolves |-> 0, deletions |-> 0, faults |-> 0]

HarvestNext ==
  \/ Commit \/ \E d \in planDecisions : DeleteDecision(d)
  \/ StartHarvest \/ ReadHarvestInputs \/ ClaudeProposes \/ AddHarvest \/ SetHarvestMark
  \/ HarvestThrows
  \/ \E c \in DOMAIN candidates, action \in {"accept", "reject"} : AskResolve(c, action)
  \/ ResolveReads \/ ResolveLinks \/ UpsertDecision \/ ResolveWrites \/ ResolveThrows
  \/ HarvestServerCrashes

HarvestSpec == HarvestInit /\ [][HarvestNext]_harvestVars

-----------------------------------------------------------------------------
\* No title is asked about twice, whatever Claude proposes again of commits of
\* another branch or of a pass that did not reach the mark.
CandidatesOnce ==
  \A c, d \in DOMAIN candidates : candidates[c].title = candidates[d].title => c = d

\* "Accepting twice keeps the first D-record" (fsPlanStore.ts:591): a candidate
\* has one decision, and one more for each call or server that died half-way.
DecidedOnce ==
  \A c \in DOMAIN candidates :
    Cardinality({d \in planDecisions : d.from = c}) <= 1 + harvestCounts.faults

\* The mark passes a commit whose proposals were not stored only when the log that
\* a pass read was full of newer ones: pass, crash, throw or lost mark skip no other.
NothingSkipped ==
  harvestMark # 0 => Ancestors(harvestMark) \subseteq harvestShown \cup harvestCut

\* A harvest neither repeats a candidate or its decision nor skips a commit its logs
\* had room for.
HarvestedOnce == CandidatesOnce /\ DecidedOnce /\ NothingSkipped
=============================================================================
