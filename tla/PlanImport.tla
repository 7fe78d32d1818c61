----------------------------- MODULE PlanImport -----------------------------
\* Octoplan's import of existing material (planOps.ts startImport, saveIngest
\* and applyIngest): one headless pass per repository reads the sources and
\* leaves a draft in INGEST.md, a client reviews it, apply writes the kept
\* items into docs/plan.  The three handlers share INGEST.md and nothing but
\* its status keeps them apart: each reads it, awaits, and writes it whole, and an
\* apply does the same to GOAL.md, which the interview writes too.  They are cut
\* at those awaits here.
EXTENDS Naturals, FiniteSets

CONSTANTS
  Titles,          \* the items the material holds, by title key
  GoalTitles,      \* those that are goals (merged into GOAL.md); the rest become decisions
  ApplyCalls,      \* applyIngest calls at once
  MaxImports,      \* bound: imports started
  MaxSaves,        \* bound: saves started
  MaxGoalWrites,   \* bound: times the interview writes GOAL.md
  MaxImportFaults, \* bound: calls that throw and crashes of the server
  MaxCopies        \* bound: records an item may have in the plan

ASSUME ImportAssumption ==
  /\ GoalTitles \subseteq Titles
  /\ {MaxImports, MaxSaves, MaxGoalWrites, MaxImportFaults, MaxCopies} \subseteq Nat

VARIABLES
  ingestFile,      \* INGEST.md: its status and its items
  planRecords,     \* how many records of the plan carry each title
  importer,        \* the import pass: where it is and what it read
  ingestClient,    \* the items of the draft as the client last saw or edited them
  ingestSave,      \* the save in flight: the items it is about to write, or idle
  ingestApply,     \* per apply call: where it is, its draft, what is left to write,
                   \* the goals it read, and those written since (`missed`)
  goalsReplaced,   \* goals a later GOAL.md took out: one of the interview, or of an
                   \* apply that read the goals before they were written
  importCounts,    \* how many imports, saves, goal writes and faults there were
  importOrphaned   \* a crash or a failed write left INGEST.md behind as "running"

importVars == <<ingestFile, planRecords, importer, ingestClient, ingestSave, ingestApply,
                goalsReplaced, importCounts, importOrphaned>>

ImportItem == [title : Titles, keep : BOOLEAN, inPlan : BOOLEAN]
IngestFile == [status : {"none", "running", "draft", "applied"}, items : SUBSET ImportItem]

NoIngest == [status |-> "none", items |-> {}]
NoImport == [at |-> "idle", previous |-> NoIngest, known |-> {}]
NoSave == [at |-> "idle", items |-> {}]
NoApply == [at |-> "idle", items |-> {}, left |-> {}, goals |-> {}, missed |-> {}]

InPlan == {t \in Titles : planRecords[t] > 0}
ItemTitles(items) == {item.title : item \in items}

\* The items apply writes: kept, and not in the plan when they were reported.
KeptItems(items) == {item.title : item \in {i \in items : i.keep /\ ~i.inPlan}}

\* The draft made of Claude's report (normalizeIngest): earlier items stay as
\* they were, a reported title among them is dropped, and a new one is marked,
\* and not kept, when the plan read before the pass holds its title.
NormalizeIngest(previous, reported, known) ==
  previous \cup {[title |-> t, keep |-> t \notin known, inPlan |-> t \in known] :
                   t \in reported \ ItemTitles(previous)}

Counted(what) == importCounts' = [importCounts EXCEPT ![what] = @ + 1]

-----------------------------------------------------------------------------
\* startImport.  `importing` is taken before the first write and given back in
\* the finally: it is exactly `importer.at # "idle"`.

StartImport ==
  /\ importer.at = "idle"
  /\ importCounts.imports < MaxImports
  /\ importer' = [NoImport EXCEPT !.at = "started"]
  /\ Counted("imports")
  /\ UNCHANGED <<ingestFile, planRecords, ingestClient, ingestSave, ingestApply,
                 goalsReplaced, importOrphaned>>

ReadPrevious ==
  /\ importer.at = "started"
  /\ importer' = [importer EXCEPT !.at = "listing", !.previous = ingestFile]
  /\ UNCHANGED <<ingestFile, planRecords, ingestClient, ingestSave, ingestApply, goalsReplaced,
                 importCounts, importOrphaned>>

\* writeIngest(base): the previous draft with the status "running".
WriteRunning ==
  /\ importer.at = "listing"
  /\ ingestFile' = [status |-> "running", items |-> importer.previous.items]
  /\ importer' = [importer EXCEPT !.at = "running"]
  /\ UNCHANGED <<planRecords, ingestClient, ingestSave, ingestApply, goalsReplaced, importCounts,
                 importOrphaned>>

\* The snapshot the report is compared with is taken before Claude is asked.
AskClaude ==
  /\ importer.at = "running"
  /\ importer' = [importer EXCEPT !.at = "asking", !.known = InPlan]
  /\ UNCHANGED <<ingestFile, planRecords, ingestClient, ingestSave, ingestApply, goalsReplaced,
                 importCounts, importOrphaned>>

ImportReported ==
  /\ importer.at = "asking"
  /\ \E reported \in SUBSET Titles :
       ingestFile' = [status |-> "draft",
                      items |-> NormalizeIngest(importer.previous.items, reported, importer.known)]
  /\ importer' = NoImport
  /\ UNCHANGED <<planRecords, ingestClient, ingestSave, ingestApply, goalsReplaced, importCounts,
                 importOrphaned>>

\* Claude finished without a report: the status is what it was, so one a
\* crashed import left at "running" stays there.
NothingReported ==
  /\ importer.at = "asking"
  /\ ingestFile' = [status |-> IF importer.previous.status = "none" THEN "draft"
                               ELSE importer.previous.status,
                    items |-> importer.previous.items]
  /\ importer' = NoImport
  /\ UNCHANGED <<planRecords, ingestClient, ingestSave, ingestApply, goalsReplaced, importCounts,
                 importOrphaned>>

\* Any of those calls throws: the catch reads the file again and ...
ImportThrows ==
  /\ importer.at \in {"started", "listing", "running", "asking"}
  /\ importCounts.faults < MaxImportFaults
  /\ Counted("faults")
  /\ importer' = [NoImport EXCEPT !.at = "threw"]
  /\ UNCHANGED <<ingestFile, planRecords, ingestClient, ingestSave, ingestApply,
                 goalsReplaced, importOrphaned>>

\* Slip: the catch does not undo "running".
ReadsBack_LeavesRunning ==
  /\ importer.at = "threw"
  /\ importer' = NoImport
  /\ UNCHANGED <<ingestFile, planRecords, ingestClient, ingestSave, ingestApply, goalsReplaced,
                 importCounts, importOrphaned>>

ReadsBack ==
  /\ importer.at = "threw"
  /\ importer' = IF ingestFile.status = "running"
                 THEN [NoImport EXCEPT !.at = "caught", !.previous = ingestFile]
                 ELSE NoImport
  /\ UNCHANGED <<ingestFile, planRecords, ingestClient, ingestSave, ingestApply, goalsReplaced,
                 importCounts, importOrphaned>>

\* ... turns "running" into "draft", whatever the status was before the pass.
BackToDraft ==
  /\ importer.at = "caught"
  /\ ingestFile' = [status |-> "draft", items |-> importer.previous.items]
  /\ importer' = NoImport
  /\ UNCHANGED <<planRecords, ingestClient, ingestSave, ingestApply, goalsReplaced, importCounts,
                 importOrphaned>>

\* That last read or write fails too, and is ignored.
BackToDraftFails ==
  /\ importer.at \in {"threw", "caught"}
  /\ importCounts.faults < MaxImportFaults
  /\ Counted("faults")
  /\ importer' = NoImport
  /\ importOrphaned' = (importOrphaned \/ ingestFile.status = "running")
  /\ UNCHANGED <<ingestFile, planRecords, ingestClient, ingestSave, ingestApply, goalsReplaced>>

-----------------------------------------------------------------------------
\* The review.  What a client sends back may be older than the file.

ClientSeesDraft ==
  /\ ingestClient # ingestFile.items
  /\ ingestClient' = ingestFile.items
  /\ UNCHANGED <<ingestFile, planRecords, importer, ingestSave, ingestApply, goalsReplaced,
                 importCounts, importOrphaned>>

ClientUnticks(item) ==
  /\ item.keep
  /\ ingestClient' = (ingestClient \ {item}) \cup {[item EXCEPT !.keep = FALSE]}
  /\ UNCHANGED <<ingestFile, planRecords, importer, ingestSave, ingestApply, goalsReplaced,
                 importCounts, importOrphaned>>

\* saveIngest: refused unless the file it reads is a draft; the status it
\* writes after the await is the one it read.
SaveReads ==
  /\ ingestSave.at = "idle"
  /\ ingestFile.status = "draft"
  /\ importCounts.saves < MaxSaves
  /\ Counted("saves")
  /\ ingestSave' = [at |-> "saving", items |-> ingestClient]
  /\ UNCHANGED <<ingestFile, planRecords, importer, ingestClient, ingestApply,
                 goalsReplaced, importOrphaned>>

SaveWrites ==
  /\ ingestSave.at = "saving"
  /\ ingestFile' = [status |-> "draft", items |-> ingestSave.items]
  /\ ingestSave' = NoSave
  /\ UNCHANGED <<planRecords, importer, ingestClient, ingestApply, goalsReplaced, importCounts,
                 importOrphaned>>

-----------------------------------------------------------------------------
\* applyIngest: the draft the client sent if the file is a draft, or the file;
\* ingestProblem refuses every other status.
ApplyReads(call) ==
  /\ ingestApply[call].at = "idle"
  /\ ingestFile.status = "draft"
  /\ \E items \in {ingestClient, ingestFile.items} :
       ingestApply' = [ingestApply EXCEPT
         ![call] = [NoApply EXCEPT !.at = "reading", !.items = items, !.left = KeptItems(items)]]
  /\ UNCHANGED <<ingestFile, planRecords, importer, ingestClient, ingestSave, goalsReplaced,
                 importCounts, importOrphaned>>

\* store.snapshot(): the goals GOAL.md has now.
ApplyReadsGoals(call) ==
  /\ ingestApply[call].at = "reading"
  /\ ingestApply' = [ingestApply EXCEPT ![call].at = "merging",
                                        ![call].goals = InPlan \cap GoalTitles]
  /\ UNCHANGED <<ingestFile, planRecords, importer, ingestClient, ingestSave, goalsReplaced,
                 importCounts, importOrphaned>>

\* writeGoal writes GOAL.md whole; an apply that has read the goals misses these.
WriteGoals(goals, calls) ==
  /\ planRecords' = [t \in Titles |-> IF t \in goals THEN 1
                                      ELSE IF t \in GoalTitles THEN 0 ELSE planRecords[t]]
  /\ ingestApply' = [c \in ApplyCalls |-> IF calls[c].at = "merging"
                                          THEN [calls[c] EXCEPT !.missed = @ \cup goals]
                                          ELSE calls[c]]

\* The goals of the draft, merged into those that were read: what was written in
\* between is written over.
ApplyWritesGoals(call) ==
  LET goals == ingestApply[call].goals \cup (ingestApply[call].left \cap GoalTitles)
  IN  /\ ingestApply[call].at = "merging"
      /\ WriteGoals(goals, [ingestApply EXCEPT ![call].at = "writing",
                                               ![call].left = @ \ GoalTitles])
      /\ goalsReplaced' = (goalsReplaced \cup ingestApply[call].missed) \ goals
      /\ UNCHANGED <<ingestFile, importer, ingestClient, ingestSave, importCounts, importOrphaned>>

\* No GOAL.md, no goals to write and a draft without a title: it is not written.
ApplySkipsGoals(call) ==
  /\ ingestApply[call].at = "merging"
  /\ ingestApply[call].goals \cup (ingestApply[call].left \cap GoalTitles) = {}
  /\ ingestApply' = [ingestApply EXCEPT ![call].at = "writing"]
  /\ UNCHANGED <<ingestFile, planRecords, importer, ingestClient, ingestSave, goalsReplaced,
                 importCounts, importOrphaned>>

\* plan_write_goal: the interview writes GOAL.md as Claude gives it.
InterviewWritesGoal(goals) ==
  /\ importCounts.goals < MaxGoalWrites
  /\ Counted("goals")
  /\ WriteGoals(goals, ingestApply)
  /\ goalsReplaced' = (goalsReplaced \cup (InPlan \cap GoalTitles)) \ goals
  /\ UNCHANGED <<ingestFile, importer, ingestClient, ingestSave, importOrphaned>>

\* Then one record per item: upsertDecision without an id always adds one.
ApplyWritesItem(call) ==
  /\ ingestApply[call].at = "writing"
  /\ \E title \in ingestApply[call].left :
       /\ planRecords[title] < MaxCopies
       /\ planRecords' = [planRecords EXCEPT ![title] = @ + 1]
       /\ ingestApply' = [ingestApply EXCEPT ![call].left = @ \ {title}]
  /\ UNCHANGED <<ingestFile, importer, ingestClient, ingestSave, goalsReplaced, importCounts,
                 importOrphaned>>

\* The last write: this call's draft, with the status "applied".  No item is
\* marked as being in the plan now.
ApplyEnds(call) ==
  /\ ingestApply[call].at = "writing"
  /\ ingestApply[call].left = {}
  /\ ingestFile' = [status |-> "applied", items |-> ingestApply[call].items]
  /\ ingestApply' = [ingestApply EXCEPT ![call] = NoApply]
  /\ UNCHANGED <<planRecords, importer, ingestClient, ingestSave, goalsReplaced, importCounts,
                 importOrphaned>>

ApplyFails(call) ==
  /\ ingestApply[call].at # "idle"
  /\ importCounts.faults < MaxImportFaults
  /\ Counted("faults")
  /\ ingestApply' = [ingestApply EXCEPT ![call] = NoApply]
  /\ UNCHANGED <<ingestFile, planRecords, importer, ingestClient, ingestSave, goalsReplaced,
                 importOrphaned>>

\* The server dies and starts again: nothing in flight survives, and nothing
\* looks at an INGEST.md left as "running".
ImportServerCrashes ==
  /\ importCounts.faults < MaxImportFaults
  /\ Counted("faults")
  /\ importer' = NoImport
  /\ ingestSave' = NoSave
  /\ ingestApply' = [c \in ApplyCalls |-> NoApply]
  /\ importOrphaned' = (importOrphaned \/ ingestFile.status = "running")
  /\ UNCHANGED <<ingestFile, planRecords, ingestClient, goalsReplaced>>

-----------------------------------------------------------------------------
ImportInit ==
  /\ ingestFile = NoIngest
  /\ planRecords = [t \in Titles |-> 0]
  /\ importer = NoImport
  /\ ingestClient = {}
  /\ ingestSave = NoSave
  /\ ingestApply = [c \in ApplyCalls |-> NoApply]
  /\ goalsReplaced = {}
  /\ importCounts = [imports |-> 0, saves |-> 0, goals |-> 0, faults |-> 0]
  /\ importOrphaned = FALSE

ImportNext ==
  \/ StartImport \/ ReadPrevious \/ WriteRunning \/ AskClaude
  \/ ImportReported \/ NothingReported
  \/ ImportThrows \/ ReadsBack \/ BackToDraft \/ BackToDraftFails
  \/ ClientSeesDraft \/ \E item \in ingestClient : ClientUnticks(item)
  \/ SaveReads \/ SaveWrites
  \/ \E call \in ApplyCalls : \/ ApplyReads(call)
                              \/ ApplyReadsGoals(call)
                              \/ ApplyWritesGoals(call)
                              \/ ApplySkipsGoals(call)
                              \/ ApplyWritesItem(call)
                              \/ ApplyEnds(call)
                              \/ ApplyFails(call)
  \/ \E goals \in SUBSET GoalTitles : InterviewWritesGoal(goals)
  \/ ImportServerCrashes

ImportSpec == ImportInit /\ [][ImportNext]_importVars

-----------------------------------------------------------------------------
ImportTypeOK ==
  /\ ingestFile \in IngestFile
  /\ planRecords \in [Titles -> Nat]
  /\ importer \in [at : {"idle", "started", "listing", "running", "asking", "threw", "caught"},
                   previous : IngestFile, known : SUBSET Titles]
  /\ ingestClient \in SUBSET ImportItem
  /\ ingestSave \in [at : {"idle", "saving"}, items : SUBSET ImportItem]
  /\ ingestApply \in [ApplyCalls -> [at : {"idle", "reading", "merging", "writing"},
                                     items : SUBSET ImportItem, left : SUBSET Titles,
                                     goals : SUBSET GoalTitles, missed : SUBSET GoalTitles]]
  /\ goalsReplaced \in SUBSET GoalTitles
  /\ importCounts \in [imports : Nat, saves : Nat, goals : Nat, faults : Nat]
  /\ importOrphaned \in BOOLEAN

RunningMeansImporting ==
  ingestFile.status = "running" => importer.at # "idle" \/ importOrphaned

AppliedMeansWritten ==
  ingestFile.status = "applied" => KeptItems(ingestFile.items) \subseteq InPlan \cup goalsReplaced

\* What INGEST.md says is so, whoever wrote it last: "running", which locks
\* every save and apply out, only while a pass is in flight (or after a crash
\* or a failed write, which nothing repairs but a later import that reports),
\* and "applied" only over items that are in the plan, or goals that a later
\* GOAL.md took out: the interview's, or that of an apply which had read the
\* goals before they were written.
StatusIsTrue == RunningMeansImporting /\ AppliedMeansWritten

\* "GOAL.md gets the title, why, goals and non-goals, merged into an existing
\* goal rather than replacing it" (applyIngest.ts:3-4): what applies have
\* written and INGEST.md calls applied is in the plan.
AppliesMergeGoals ==
  ingestFile.status = "applied" => KeptItems(ingestFile.items) \subseteq InPlan

\* "Only kept items that aren't already in the plan are written"
\* (applyIngest.ts:1): no item gets a second record.
ImportedOnce == \A t \in Titles : planRecords[t] <= 1
=============================================================================
