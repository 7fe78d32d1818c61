-------------------------- MODULE PlanBridgeProofs --------------------------
(***************************************************************************)
(* The files through which a plan enters and leaves Octoplan, the records  *)
(* of its answers and the stream of a session, for any number of items,    *)
(* calls, broadcasts and faults: what INGEST.md says of an import is so,   *)
(* an apply hands over the last plan saved before it, a revised answer     *)
(* leaves no decision active, PARKED.md and RISKS.md match the answers of  *)
(* all sessions, a harvest neither repeats a candidate nor skips a commit  *)
(* its log had room for, a page that has caught up shows the session, and  *)
(* a handoff has all the stages' work.                                     *)
(***************************************************************************)
EXTENDS PlanImport, PlanHandoff, PlanPipeline, PlanAnswers, PlanHarvest, SessionStream,
        SequenceLemmas, FiniteSetTheorems, SequenceTheorems, TLAPS

-----------------------------------------------------------------------------
\* Import.  A pass that finds "running" in the file finds what an earlier one was
\* prevented from undoing; what it writes back of the file is no more than it read.
Previous == {"listing", "running", "asking"}
RunningInv ==
  /\ ingestFile.status = "running" /\ importer.at \in {"idle", "started", "listing"}
       => importOrphaned
  /\ importer.at \in Previous /\ importer.previous.status = "running" => importOrphaned

\* An apply has written what is not left.  The plan loses no record but a goal, and a
\* goal only to a GOAL.md of the interview or to an apply that missed it: an apply that
\* is about to write GOAL.md has read, or missed, every goal of the plan.
ReachedPlan == InPlan \cup goalsReplaced

WrittenInv ==
  /\ AppliedMeansWritten
  /\ importer.at \in Previous /\ importer.previous.status = "applied" =>
       KeptItems(importer.previous.items) \subseteq ReachedPlan
  /\ \A call \in ApplyCalls :
       /\ ingestApply[call].at # "idle" =>
            KeptItems(ingestApply[call].items) \subseteq ReachedPlan \cup ingestApply[call].left
       /\ ingestApply[call].at = "merging" =>
            InPlan \cap GoalTitles \subseteq ingestApply[call].goals \cup ingestApply[call].missed
       /\ ingestApply[call].at = "writing" => ingestApply[call].left \cap GoalTitles = {}

ImportInv == ImportTypeOK /\ RunningInv /\ WrittenInv

LEMMA KeptAreTitles ==
  ASSUME NEW items \in SUBSET ImportItem
  PROVE  KeptItems(items) \subseteq Titles
BY DEF KeptItems, ImportItem

LEMMA ImportStart == ImportInit => ImportInv
<1> SUFFICES ASSUME ImportInit PROVE ImportInv
  OBVIOUS
<1>1. NoIngest \in IngestFile
  BY DEF NoIngest, IngestFile
<1>2. ImportTypeOK
  BY <1>1 DEF ImportInit, ImportTypeOK, NoImport, NoSave, NoApply
<1>3. RunningInv /\ WrittenInv
  BY DEF ImportInit, RunningInv, WrittenInv, AppliedMeansWritten, NoIngest, NoImport, NoApply,
         Previous
<1> QED BY <1>2, <1>3 DEF ImportInv

\* The pass writes the file; neither the plan nor an apply changes.
LEMMA ImporterTypes ==
  ASSUME ImportInv, \/ StartImport \/ ReadPrevious \/ WriteRunning \/ AskClaude
                    \/ ImportReported \/ NothingReported
                    \/ ImportThrows \/ ReadsBack \/ BackToDraft \/ BackToDraftFails
  PROVE  ImportTypeOK'
<1> USE DEF ImportInv, ImportTypeOK, Counted
<1>0. NoIngest \in IngestFile
  BY DEF NoIngest, IngestFile
<1>1. CASE StartImport BY <1>0, <1>1 DEF StartImport, NoImport
<1>2. CASE ReadPrevious BY <1>2 DEF ReadPrevious
<1>3. CASE WriteRunning BY <1>3 DEF WriteRunning, IngestFile
<1>4. CASE AskClaude BY <1>4 DEF AskClaude, InPlan
<1>5. CASE ImportReported
  <2>1. PICK reported \in SUBSET Titles :
          ingestFile' = [status |-> "draft", items |->
            NormalizeIngest(importer.previous.items, reported, importer.known)]
    BY <1>5 DEF ImportReported
  <2>2. NormalizeIngest(importer.previous.items, reported, importer.known) \in SUBSET ImportItem
    <3>1. importer.previous.items \in SUBSET ImportItem
      BY DEF IngestFile
    <3>2. \A t \in reported : [title |-> t, keep |-> t \notin importer.known,
                               inPlan |-> t \in importer.known] \in ImportItem
      BY DEF ImportItem
    <3> QED BY <3>1, <3>2 DEF NormalizeIngest
  <2>3. ingestFile' \in IngestFile
    BY <2>1, <2>2 DEF IngestFile
  <2> QED BY <1>0, <1>5, <2>3 DEF ImportReported, NoImport
<1>6. CASE NothingReported
  <2>1. ingestFile' \in IngestFile
    BY <1>6 DEF NothingReported, IngestFile
  <2> QED BY <1>0, <1>6, <2>1 DEF NothingReported, NoImport
<1>7. CASE ImportThrows BY <1>0, <1>7 DEF ImportThrows, NoImport
<1>8. CASE ReadsBack BY <1>0, <1>8 DEF ReadsBack, NoImport
<1>9. CASE BackToDraft
  <2>1. ingestFile' \in IngestFile
    BY <1>9 DEF BackToDraft, IngestFile
  <2> QED BY <1>0, <1>9, <2>1 DEF BackToDraft, NoImport
<1>10. CASE BackToDraftFails BY <1>0, <1>10 DEF BackToDraftFails, NoImport
<1> QED BY <1>1, <1>2, <1>3, <1>4, <1>5, <1>6, <1>7, <1>8, <1>9, <1>10

LEMMA ImporterKeeps ==
  ASSUME ImportInv, \/ StartImport \/ ReadPrevious \/ WriteRunning \/ AskClaude
                    \/ ImportReported \/ NothingReported
                    \/ ImportThrows \/ ReadsBack \/ BackToDraft \/ BackToDraftFails
  PROVE  RunningInv' /\ WrittenInv'
<1>0. /\ InPlan' = InPlan /\ ReachedPlan' = ReachedPlan /\ ingestApply' = ingestApply
      /\ importer.at \in {"idle", "started", "listing", "running", "asking", "threw", "caught"}
      /\ NoIngest.status = "none" /\ NoImport.at = "idle"
      /\ DOMAIN NoImport = {"at", "previous", "known"}
      /\ DOMAIN importer = {"at", "previous", "known"}
  BY DEF StartImport, ReadPrevious, WriteRunning, AskClaude, ImportReported, NothingReported,
         ImportThrows, ReadsBack, BackToDraft, BackToDraftFails, InPlan, ReachedPlan, ImportInv,
         ImportTypeOK, NoIngest, NoImport
<1>00. KeptItems(ingestFile.items) \subseteq ReachedPlan <=>
         KeptItems(ingestFile.items) \subseteq InPlan \cup goalsReplaced
  BY DEF ReachedPlan
<1>000. AppliedMeansWritten' <=>
          (ingestFile'.status = "applied" => KeptItems(ingestFile'.items) \subseteq ReachedPlan')
  BY DEF AppliedMeansWritten, ReachedPlan, KeptItems
<1> USE <1>0, <1>00, <1>000 DEF ImportInv, RunningInv, WrittenInv, Previous
<1>1. CASE StartImport BY <1>1 DEF StartImport, AppliedMeansWritten
<1>2. CASE ReadPrevious BY <1>2 DEF ReadPrevious, AppliedMeansWritten
<1>3. CASE WriteRunning BY <1>3 DEF WriteRunning
<1>4. CASE AskClaude BY <1>4 DEF AskClaude, AppliedMeansWritten
<1>5. CASE ImportReported BY <1>5 DEF ImportReported
<1>6. CASE NothingReported BY <1>6 DEF NothingReported
<1>7. CASE ImportThrows BY <1>7 DEF ImportThrows, AppliedMeansWritten
<1>8. CASE ReadsBack BY <1>8 DEF ReadsBack, AppliedMeansWritten
<1>9. CASE BackToDraft BY <1>9 DEF BackToDraft
<1>10. CASE BackToDraftFails BY <1>10 DEF BackToDraftFails, AppliedMeansWritten
<1> QED BY <1>1, <1>2, <1>3, <1>4, <1>5, <1>6, <1>7, <1>8, <1>9, <1>10

\* The client and its save touch no status but "draft".
LEMMA ReviewKeeps ==
  ASSUME ImportInv, \/ ClientSeesDraft \/ (\E item \in ingestClient : ClientUnticks(item))
                    \/ SaveReads \/ SaveWrites
  PROVE  ImportInv'
<1>1. ImportTypeOK'
  <2> USE DEF ImportInv, ImportTypeOK, Counted
  <2>1. CASE ClientSeesDraft BY <2>1 DEF ClientSeesDraft, IngestFile
  <2>2. ASSUME NEW item \in ingestClient, ClientUnticks(item) PROVE ImportTypeOK'
    <3>1. [item EXCEPT !.keep = FALSE] \in ImportItem
      BY DEF ImportItem
    <3>2. ingestClient' \in SUBSET ImportItem
      BY <2>2, <3>1 DEF ClientUnticks
    <3> QED BY <2>2, <3>2 DEF ClientUnticks
  <2>3. CASE SaveReads BY <2>3 DEF SaveReads
  <2>4. CASE SaveWrites BY <2>4 DEF SaveWrites, IngestFile, NoSave
  <2> QED BY <2>1, <2>2, <2>3, <2>4
<1>2. /\ UNCHANGED <<planRecords, importer, ingestApply, importOrphaned, goalsReplaced>>
      /\ InPlan' = InPlan /\ ReachedPlan' = ReachedPlan
      /\ UNCHANGED ingestFile \/ ingestFile'.status = "draft"
  BY DEF ClientSeesDraft, ClientUnticks, SaveReads, SaveWrites, InPlan, ReachedPlan
<1>3. RunningInv' /\ WrittenInv'
  BY <1>2 DEF ImportInv, RunningInv, WrittenInv, AppliedMeansWritten
<1> QED BY <1>1, <1>3 DEF ImportInv

\* A step that leaves every apply where it is and settles no less keeps what is written.
LEMMA ReachedGrows ==
  ASSUME WrittenInv, UNCHANGED <<ingestFile, importer>>, ReachedPlan \subseteq ReachedPlan',
         \A c \in ApplyCalls :
           /\ ingestApply'[c].at # "idle" =>
                /\ ingestApply[c].at # "idle" /\ ingestApply'[c].items = ingestApply[c].items
                /\ ingestApply[c].left \subseteq ingestApply'[c].left \cup ReachedPlan'
           /\ ingestApply'[c].at = "merging" =>
                InPlan' \cap GoalTitles \subseteq ingestApply'[c].goals \cup ingestApply'[c].missed
           /\ ingestApply'[c].at = "writing" => ingestApply'[c].left \cap GoalTitles = {}
  PROVE  WrittenInv'
<1>1. AppliedMeansWritten'
  <2>1. ingestFile.status = "applied" => KeptItems(ingestFile.items) \subseteq ReachedPlan
    BY DEF WrittenInv, AppliedMeansWritten, ReachedPlan
  <2>2. ingestFile.status = "applied" => KeptItems(ingestFile.items) \subseteq ReachedPlan'
    BY <2>1
  <2> QED BY <2>2 DEF AppliedMeansWritten, ReachedPlan
<1> QED BY <1>1 DEF WrittenInv

ApplyStates ==
  [ApplyCalls -> [at : {"idle", "reading", "merging", "writing"},
                  items : SUBSET ImportItem, left : SUBSET Titles,
                  goals : SUBSET GoalTitles, missed : SUBSET GoalTitles]]

\* Whoever writes GOAL.md: its goals are those of the plan, and every other apply that
\* is about to write it misses what it has not read of them.
LEMMA GoalsWritten ==
  ASSUME ImportTypeOK, NEW goals \in SUBSET GoalTitles, NEW calls, WriteGoals(goals, calls),
         calls \in ApplyStates
  PROVE  /\ planRecords' \in [Titles -> Nat]
         /\ InPlan' = (InPlan \ GoalTitles) \cup goals
         /\ ingestApply' \in ApplyStates
         /\ \A c \in ApplyCalls :
              /\ ingestApply'[c].at = calls[c].at /\ ingestApply'[c].items = calls[c].items
              /\ ingestApply'[c].left = calls[c].left
              /\ calls[c].at = "merging" => goals \subseteq ingestApply'[c].missed
<1>1. /\ planRecords' = [t \in Titles |-> IF t \in goals THEN 1
                                          ELSE IF t \in GoalTitles THEN 0 ELSE planRecords[t]]
      /\ ingestApply' = [c \in ApplyCalls |-> IF calls[c].at = "merging"
                                              THEN [calls[c] EXCEPT !.missed = @ \cup goals]
                                              ELSE calls[c]]
  BY DEF WriteGoals
<1>2. planRecords \in [Titles -> Nat] /\ goals \subseteq GoalTitles /\ GoalTitles \subseteq Titles
  BY ImportAssumption DEF ImportTypeOK
<1>3. /\ planRecords' \in [Titles -> Nat]
      /\ \A t \in Titles :
           planRecords'[t] > 0 <=> t \in goals \/ (planRecords[t] > 0 /\ t \notin GoalTitles)
  BY <1>1, <1>2
<1>4. InPlan' = (InPlan \ GoalTitles) \cup goals
  BY <1>2, <1>3 DEF InPlan
<1>5. ASSUME NEW c \in ApplyCalls
      PROVE  /\ ingestApply'[c] \in [at : {"idle", "reading", "merging", "writing"},
                                     items : SUBSET ImportItem, left : SUBSET Titles,
                                     goals : SUBSET GoalTitles, missed : SUBSET GoalTitles]
             /\ ingestApply'[c].at = calls[c].at /\ ingestApply'[c].items = calls[c].items
             /\ ingestApply'[c].left = calls[c].left
             /\ calls[c].at = "merging" => goals \subseteq ingestApply'[c].missed
  <2>1. calls[c] \in [at : {"idle", "reading", "merging", "writing"},
                      items : SUBSET ImportItem, left : SUBSET Titles,
                      goals : SUBSET GoalTitles, missed : SUBSET GoalTitles]
    BY DEF ApplyStates
  <2>2. ingestApply'[c] = IF calls[c].at = "merging"
                          THEN [calls[c] EXCEPT !.missed = @ \cup goals] ELSE calls[c]
    BY <1>1
  <2> QED BY <2>1, <2>2
<1>6. ingestApply' \in ApplyStates
  BY <1>1, <1>5 DEF ApplyStates
<1> QED BY <1>3, <1>4, <1>5, <1>6

LEMMA GoalWritesKeep ==
  ASSUME ImportInv, NEW goals \in SUBSET GoalTitles,
         \/ InterviewWritesGoal(goals)
         \/ \E call \in ApplyCalls : ApplyWritesGoals(call)
  PROVE  ImportInv'
<1>1. CASE InterviewWritesGoal(goals)
  <2>1. /\ WriteGoals(goals, ingestApply)
        /\ goalsReplaced' = (goalsReplaced \cup (InPlan \cap GoalTitles)) \ goals
        /\ importCounts' = [importCounts EXCEPT !.goals = @ + 1]
        /\ UNCHANGED <<ingestFile, importer, ingestClient, ingestSave, importOrphaned>>
    BY <1>1 DEF InterviewWritesGoal, Counted
  <2>2. /\ planRecords' \in [Titles -> Nat]
        /\ InPlan' = (InPlan \ GoalTitles) \cup goals
        /\ ingestApply' \in ApplyStates
        /\ \A c \in ApplyCalls :
             /\ ingestApply'[c].at = ingestApply[c].at
             /\ ingestApply'[c].items = ingestApply[c].items
             /\ ingestApply'[c].left = ingestApply[c].left
             /\ ingestApply[c].at = "merging" => goals \subseteq ingestApply'[c].missed
    <3> DEFINE calls == ingestApply
    <3>1. ImportTypeOK
      BY DEF ImportInv
    <3>2. calls \in ApplyStates
      BY <3>1 DEF ImportTypeOK, ApplyStates
    <3>3. WriteGoals(goals, calls)
      BY <2>1
    <3>4. \A c \in ApplyCalls : calls[c] = ingestApply[c]
      OBVIOUS
    <3> DEFINE written == goals
    <3>5. WriteGoals(written, calls) /\ written \in SUBSET GoalTitles
      BY <3>3
    <3> HIDE DEF calls, written
    <3>6. /\ planRecords' \in [Titles -> Nat]
          /\ InPlan' = (InPlan \ GoalTitles) \cup written
          /\ ingestApply' \in ApplyStates
          /\ \A c \in ApplyCalls :
               /\ ingestApply'[c].at = calls[c].at /\ ingestApply'[c].items = calls[c].items
               /\ ingestApply'[c].left = calls[c].left
               /\ calls[c].at = "merging" => written \subseteq ingestApply'[c].missed
      BY <3>1, <3>2, <3>5, GoalsWritten
    <3> QED BY <3>4, <3>6 DEF written
  <2>3. ImportTypeOK'
    BY <2>1, <2>2 DEF ImportInv, ImportTypeOK, ApplyStates
  <2>4. ReachedPlan \subseteq ReachedPlan'
    BY <2>1, <2>2 DEF ReachedPlan
  <2>5. WrittenInv'
    BY <2>1, <2>2, <2>4, ReachedGrows DEF ImportInv, WrittenInv
  <2> QED BY <2>1, <2>3, <2>5 DEF ImportInv, RunningInv
<1>2. ASSUME NEW call \in ApplyCalls, ApplyWritesGoals(call) PROVE ImportInv'
  <2> DEFINE merged == ingestApply[call].goals \cup (ingestApply[call].left \cap GoalTitles)
             calls == [ingestApply EXCEPT ![call].at = "writing", ![call].left = @ \ GoalTitles]
  <2>1. /\ WriteGoals(merged, calls) /\ ingestApply[call].at = "merging"
        /\ goalsReplaced' = (goalsReplaced \cup ingestApply[call].missed) \ merged
        /\ UNCHANGED <<ingestFile, importer, ingestClient, ingestSave, importCounts, importOrphaned>>
    BY <1>2 DEF ApplyWritesGoals
  <2>2. /\ merged \in SUBSET GoalTitles
        /\ calls \in ApplyStates
        /\ \A c \in ApplyCalls :
             /\ calls[c].items = ingestApply[c].items
             /\ calls[c].at = IF c = call THEN "writing" ELSE ingestApply[c].at
             /\ calls[c].left = IF c = call THEN ingestApply[c].left \ GoalTitles
                                ELSE ingestApply[c].left
    BY DEF ImportInv, ImportTypeOK, ApplyStates
  <2> HIDE DEF calls
  <2>3. /\ planRecords' \in [Titles -> Nat]
        /\ InPlan' = (InPlan \ GoalTitles) \cup merged
        /\ ingestApply' \in ApplyStates
        /\ \A c \in ApplyCalls :
             /\ ingestApply'[c].at = calls[c].at /\ ingestApply'[c].items = calls[c].items
             /\ ingestApply'[c].left = calls[c].left
             /\ calls[c].at = "merging" => merged \subseteq ingestApply'[c].missed
    <3> HIDE DEF merged
    <3> QED BY <2>1, <2>2, GoalsWritten DEF ImportInv
  <2>4. ImportTypeOK'
    BY <2>1, <2>2, <2>3 DEF ImportInv, ImportTypeOK, ApplyStates
  <2>5. InPlan \cap GoalTitles \subseteq ingestApply[call].goals \cup ingestApply[call].missed
    BY <2>1 DEF ImportInv, WrittenInv
  <2>6. ReachedPlan \subseteq ReachedPlan' /\ ingestApply[call].left \cap GoalTitles \subseteq ReachedPlan'
    BY <2>1, <2>3, <2>5 DEF ReachedPlan
  <2>7. WrittenInv'
    <3>1. ASSUME NEW c \in ApplyCalls
          PROVE  /\ ingestApply'[c].at # "idle" =>
                      /\ ingestApply[c].at # "idle" /\ ingestApply'[c].items = ingestApply[c].items
                      /\ ingestApply[c].left \subseteq ingestApply'[c].left \cup ReachedPlan'
                 /\ ingestApply'[c].at = "merging" =>
                      InPlan' \cap GoalTitles
                        \subseteq ingestApply'[c].goals \cup ingestApply'[c].missed
                 /\ ingestApply'[c].at = "writing" => ingestApply'[c].left \cap GoalTitles = {}
      <4>1. ingestApply[c].at = "writing" => ingestApply[c].left \cap GoalTitles = {}
        BY DEF ImportInv, WrittenInv
      <4>2. InPlan' \cap GoalTitles = merged
        BY <2>2, <2>3
      <4> HIDE DEF merged
      <4>3. CASE c = call
        BY <2>1, <2>2, <2>3, <2>6, <4>3
      <4>4. CASE c # call
        BY <2>2, <2>3, <4>1, <4>2, <4>4
      <4> QED BY <4>3, <4>4
    <3> QED BY <2>1, <2>6, <3>1, ReachedGrows DEF ImportInv
  <2> QED BY <2>1, <2>4, <2>7 DEF ImportInv, RunningInv
<1> QED BY <1>1, <1>2

\* Nothing but where the applies are changes.
LEMMA EachApply ==
  ASSUME WrittenInv, UNCHANGED <<ingestFile, importer, goalsReplaced>>,
         ReachedPlan' = ReachedPlan, InPlan' = InPlan,
         \A c \in ApplyCalls :
           \/ ingestApply'[c] = ingestApply[c]
           \/ /\ ingestApply[c].at # "idle" /\ ingestApply'[c].items = ingestApply[c].items
              /\ ingestApply'[c].left = ingestApply[c].left
              /\ \/ /\ ingestApply'[c].at = "merging"
                    /\ ingestApply'[c].goals = InPlan \cap GoalTitles
                 \/ /\ ingestApply'[c].at = "writing"
                    /\ ingestApply[c].left \cap GoalTitles = {}
  PROVE  WrittenInv'
<1>1. ASSUME NEW c \in ApplyCalls
      PROVE  /\ ingestApply'[c].at # "idle" =>
                  /\ ingestApply[c].at # "idle" /\ ingestApply'[c].items = ingestApply[c].items
                  /\ ingestApply[c].left \subseteq ingestApply'[c].left \cup ReachedPlan'
             /\ ingestApply'[c].at = "merging" =>
                  InPlan' \cap GoalTitles \subseteq ingestApply'[c].goals \cup ingestApply'[c].missed
             /\ ingestApply'[c].at = "writing" => ingestApply'[c].left \cap GoalTitles = {}
  <2>1. /\ ingestApply[c].at = "merging" =>
             InPlan \cap GoalTitles \subseteq ingestApply[c].goals \cup ingestApply[c].missed
        /\ ingestApply[c].at = "writing" => ingestApply[c].left \cap GoalTitles = {}
    BY DEF WrittenInv
  <2> QED BY <2>1
<1> QED BY <1>1, ReachedGrows

LEMMA ApplyKeeps ==
  ASSUME ImportInv, NEW call \in ApplyCalls,
         \/ ApplyReads(call) \/ ApplyReadsGoals(call) \/ ApplySkipsGoals(call)
         \/ ApplyWritesItem(call) \/ ApplyEnds(call) \/ ApplyFails(call)
  PROVE  ImportInv'
<1>0. UNCHANGED <<importer, importOrphaned, goalsReplaced>>
  BY DEF ApplyReads, ApplyReadsGoals, ApplySkipsGoals, ApplyWritesItem, ApplyEnds, ApplyFails
<1>1. CASE ApplyReads(call)
  <2>1. PICK items \in {ingestClient, ingestFile.items} :
          ingestApply' = [ingestApply EXCEPT
            ![call] = [NoApply EXCEPT !.at = "reading", !.items = items, !.left = KeptItems(items)]]
    BY <1>1 DEF ApplyReads
  <2>2. items \in SUBSET ImportItem /\ KeptItems(items) \subseteq Titles
    BY KeptAreTitles DEF ImportInv, ImportTypeOK, IngestFile
  <2>3. ImportTypeOK'
    BY <1>1, <2>1, <2>2 DEF ApplyReads, ImportInv, ImportTypeOK, NoApply
  <2>4. RunningInv'
    BY <1>0, <1>1 DEF ApplyReads, ImportInv, RunningInv
  <2>5. ReachedPlan' = ReachedPlan /\ InPlan' = InPlan /\ ingestFile' = ingestFile
    BY <1>1 DEF ApplyReads, ReachedPlan, InPlan
  <2>6. \A c \in ApplyCalls :
          IF c = call THEN /\ ingestApply'[c].at = "reading" /\ ingestApply'[c].items = items
                           /\ ingestApply'[c].left = KeptItems(items)
          ELSE ingestApply'[c] = ingestApply[c]
    BY <2>1 DEF ImportInv, ImportTypeOK, NoApply
  <2>7. WrittenInv'
    BY <1>0, <2>5, <2>6 DEF ImportInv, WrittenInv, AppliedMeansWritten
  <2> QED BY <2>3, <2>4, <2>7 DEF ImportInv
<1>2. CASE ApplyReadsGoals(call)
  <2>1. /\ ingestApply' = [ingestApply EXCEPT ![call].at = "merging",
                                              ![call].goals = InPlan \cap GoalTitles]
        /\ ingestApply[call].at = "reading"
        /\ UNCHANGED <<ingestFile, planRecords, ingestClient, ingestSave, importCounts>>
    BY <1>2 DEF ApplyReadsGoals
  <2>2. ImportTypeOK'
    BY <1>0, <2>1 DEF ImportInv, ImportTypeOK
  <2>3. ReachedPlan' = ReachedPlan /\ InPlan' = InPlan
    BY <1>0, <2>1 DEF ReachedPlan, InPlan
  <2>4. WrittenInv'
    <3>1. \A c \in ApplyCalls :
            /\ ingestApply'[c].items = ingestApply[c].items
            /\ ingestApply'[c].left = ingestApply[c].left
            /\ IF c = call THEN /\ ingestApply'[c].goals = InPlan \cap GoalTitles
                                /\ ingestApply'[c].at = "merging"
               ELSE ingestApply'[c] = ingestApply[c]
      BY <2>1 DEF ImportInv, ImportTypeOK
    <3> QED BY <1>0, <2>1, <2>3, <3>1, EachApply DEF ImportInv
  <2> QED BY <1>0, <2>1, <2>2, <2>4 DEF ImportInv, RunningInv
<1>3. CASE ApplySkipsGoals(call)
  <2>1. /\ ingestApply' = [ingestApply EXCEPT ![call].at = "writing"]
        /\ ingestApply[call].at = "merging"
        /\ UNCHANGED <<ingestFile, planRecords, ingestClient, ingestSave, importCounts>>
    BY <1>3 DEF ApplySkipsGoals
  <2>2. ImportTypeOK'
    BY <1>0, <2>1 DEF ImportInv, ImportTypeOK
  <2>3. ReachedPlan' = ReachedPlan /\ InPlan' = InPlan
    BY <1>0, <2>1 DEF ReachedPlan, InPlan
  <2>4. WrittenInv'
    <3>1. \A c \in ApplyCalls :
            IF c = call THEN /\ ingestApply'[c].items = ingestApply[c].items
                             /\ ingestApply'[c].left = ingestApply[c].left
                             /\ ingestApply'[c].at = "writing"
            ELSE ingestApply'[c] = ingestApply[c]
      BY <2>1 DEF ImportInv, ImportTypeOK
    <3>2. ingestApply[call].left \cap GoalTitles = {}
      BY <1>3 DEF ApplySkipsGoals
    <3> QED BY <1>0, <2>1, <2>3, <3>1, <3>2, EachApply DEF ImportInv
  <2> QED BY <1>0, <2>1, <2>2, <2>4 DEF ImportInv, RunningInv
<1>4. CASE ApplyWritesItem(call)
  <2>1. PICK title \in ingestApply[call].left :
          /\ planRecords' = [planRecords EXCEPT ![title] = @ + 1]
          /\ ingestApply' = [ingestApply EXCEPT ![call].left = @ \ {title}]
    BY <1>4 DEF ApplyWritesItem
  <2>2. /\ ingestApply[call].at = "writing"
        /\ UNCHANGED <<ingestFile, ingestClient, ingestSave, importCounts>>
    BY <1>4 DEF ApplyWritesItem
  <2>3. title \in Titles
    BY DEF ImportInv, ImportTypeOK
  <2>4. /\ planRecords' \in [Titles -> Nat]
        /\ \A t \in Titles : planRecords'[t] > 0 <=> planRecords[t] > 0 \/ t = title
    BY <2>1, <2>3 DEF ImportInv, ImportTypeOK
  <2>5. InPlan' = InPlan \cup {title} /\ ReachedPlan' = ReachedPlan \cup {title}
    BY <1>0, <2>3, <2>4 DEF InPlan, ReachedPlan
  <2>6. ImportTypeOK'
    BY <1>0, <2>1, <2>2, <2>4 DEF ImportInv, ImportTypeOK
  <2>7. WrittenInv'
    <3>1. title \notin GoalTitles
      BY <2>2 DEF ImportInv, WrittenInv
    <3>2. \A c \in ApplyCalls :
            /\ ingestApply'[c].at = ingestApply[c].at /\ ingestApply'[c].items = ingestApply[c].items
            /\ ingestApply'[c].goals = ingestApply[c].goals
            /\ ingestApply'[c].missed = ingestApply[c].missed
            /\ ingestApply'[c].left \subseteq ingestApply[c].left
            /\ ingestApply[c].left \subseteq ingestApply'[c].left \cup {title}
      BY <2>1 DEF ImportInv, ImportTypeOK
    <3> QED BY <1>0, <2>2, <2>5, <3>1, <3>2, ReachedGrows DEF ImportInv, WrittenInv
  <2> QED BY <1>0, <2>2, <2>6, <2>7 DEF ImportInv, RunningInv
<1>5. CASE ApplyEnds(call)
  <2>1. ImportTypeOK'
    BY <1>5 DEF ApplyEnds, ImportInv, ImportTypeOK, IngestFile, NoApply
  <2>2. ReachedPlan' = ReachedPlan /\ InPlan' = InPlan
    BY <1>5 DEF ApplyEnds, ReachedPlan, InPlan
  <2>3. /\ ingestFile' = [status |-> "applied", items |-> ingestApply[call].items]
        /\ KeptItems(ingestApply[call].items) \subseteq ReachedPlan
        /\ \A c \in ApplyCalls :
             ingestApply'[c].at = "idle" \/ ingestApply'[c] = ingestApply[c]
    BY <1>5 DEF ApplyEnds, ImportInv, ImportTypeOK, WrittenInv, NoApply
  <2>4. AppliedMeansWritten'
    BY <2>2, <2>3 DEF AppliedMeansWritten, ReachedPlan
  <2>5. WrittenInv'
    BY <1>0, <2>2, <2>3, <2>4 DEF ImportInv, WrittenInv
  <2> QED BY <1>0, <2>1, <2>3, <2>5 DEF ImportInv, RunningInv
<1>6. CASE ApplyFails(call)
  <2>1. ImportTypeOK'
    BY <1>6 DEF ApplyFails, Counted, ImportInv, ImportTypeOK, NoApply
  <2>2. ReachedPlan' = ReachedPlan /\ InPlan' = InPlan /\ ingestFile' = ingestFile
    BY <1>6 DEF ApplyFails, ReachedPlan, InPlan
  <2>3. \A c \in ApplyCalls : ingestApply'[c].at = "idle" \/ ingestApply'[c] = ingestApply[c]
    BY <1>6 DEF ApplyFails, ImportInv, ImportTypeOK, NoApply
  <2>4. WrittenInv'
    BY <1>0, <2>2, <2>3, ReachedGrows DEF ImportInv, WrittenInv
  <2> QED BY <1>0, <2>1, <2>2, <2>4 DEF ImportInv, RunningInv
<1> QED BY <1>1, <1>2, <1>3, <1>4, <1>5, <1>6

LEMMA ImportCrashKeeps == ImportInv /\ ImportServerCrashes => ImportInv'
<1> SUFFICES ASSUME ImportInv, ImportServerCrashes PROVE ImportInv'
  OBVIOUS
<1>0. NoIngest \in IngestFile
  BY DEF NoIngest, IngestFile
<1>1. ImportTypeOK'
  BY <1>0 DEF ImportServerCrashes, Counted, ImportInv, ImportTypeOK, NoImport, NoSave, NoApply
<1>2. RunningInv' /\ WrittenInv'
  BY DEF ImportServerCrashes, ImportInv, RunningInv, WrittenInv, AppliedMeansWritten, InPlan,
         ReachedPlan, NoImport, NoApply, Previous
<1> QED BY <1>1, <1>2 DEF ImportInv

LEMMA ImportStep == ImportInv /\ [ImportNext]_importVars => ImportInv'
<1> SUFFICES ASSUME ImportInv, [ImportNext]_importVars PROVE ImportInv'
  OBVIOUS
<1>1. CASE UNCHANGED importVars
  BY <1>1 DEF importVars, ImportInv, ImportTypeOK, RunningInv, WrittenInv, AppliedMeansWritten,
              InPlan, ReachedPlan
<1>2. CASE ImportNext
  <2>1. CASE \/ StartImport \/ ReadPrevious \/ WriteRunning \/ AskClaude
             \/ ImportReported \/ NothingReported
             \/ ImportThrows \/ ReadsBack \/ BackToDraft \/ BackToDraftFails
    BY <2>1, ImporterTypes, ImporterKeeps DEF ImportInv
  <2>2. CASE \/ ClientSeesDraft \/ (\E item \in ingestClient : ClientUnticks(item))
             \/ SaveReads \/ SaveWrites
    BY <2>2, ReviewKeeps
  <2>3. CASE \E call \in ApplyCalls : ApplyWritesGoals(call)
    <3>1. {} \in SUBSET GoalTitles
      OBVIOUS
    <3> QED BY <2>3, <3>1, GoalWritesKeep
  <2>4. CASE \E goals \in SUBSET GoalTitles : InterviewWritesGoal(goals)
    BY <2>4, GoalWritesKeep
  <2>5. CASE \E call \in ApplyCalls :
               \/ ApplyReads(call) \/ ApplyReadsGoals(call) \/ ApplySkipsGoals(call)
               \/ ApplyWritesItem(call) \/ ApplyEnds(call) \/ ApplyFails(call)
    BY <2>5, ApplyKeeps
  <2> QED BY <1>2, <2>1, <2>2, <2>3, <2>4, <2>5, ImportCrashKeeps DEF ImportNext
<1> QED BY <1>1, <1>2

\* INGEST.md says "running" only while a pass is in flight, or after a crash or a
\* failed write, and "applied" only over items that are in the plan, or goals that
\* the interview's GOAL.md, or that of an apply which had read the goals before they
\* were written, took out of it; however many applies are in flight.
THEOREM IngestStatusIsTrue == ImportSpec => []StatusIsTrue
<1>1. ImportInv => StatusIsTrue
  BY DEF ImportInv, RunningInv, WrittenInv, StatusIsTrue, RunningMeansImporting
<1> QED BY <1>1, ImportStart, ImportStep, PTL DEF ImportSpec

-----------------------------------------------------------------------------
\* Handoff.  The numbers of the requests that wait.
Queued == {handoffQueue[i].n : i \in DOMAIN handoffQueue}

\* One request after the other: the task is older than all that wait, which wait in
\* the order of their numbers.
InOrder ==
  /\ \A i \in DOMAIN handoffQueue :
       /\ handoffQueue[i].n <= handoffCounts.requests
       /\ handoffTask.at # "idle" => handoffTask.n < handoffQueue[i].n
       /\ handoffFile.plan < handoffQueue[i].n
  /\ \A i, j \in DOMAIN handoffQueue : i < j => handoffQueue[i].n < handoffQueue[j].n
  /\ handoffTask.at # "idle" => handoffTask.n <= handoffCounts.requests
  /\ handoffFile.plan <= handoffCounts.requests

\* A plan that did not fail is that of the file, an older one, or still to be written.
PlansAccounted ==
  /\ \A n \in handoffPlans :
       n <= handoffFile.plan \/ n \in Queued \/ (handoffTask.at = "making" /\ n = handoffTask.n)
  /\ handoffFile.plan # 0 => handoffFile.plan \in handoffPlans
  /\ \A n \in handoffPlans : n <= handoffCounts.requests
  /\ \A i \in DOMAIN handoffQueue : handoffQueue[i].kind = "apply" <=> handoffQueue[i].n \notin handoffPlans

TaskHolds ==
  /\ handoffTask.at = "making" =>
       /\ handoffTask.kind # "apply" /\ handoffTask.plan = handoffTask.n
       /\ handoffTask.prompt = handoffTask.n /\ handoffFile.plan < handoffTask.n
       /\ handoffTask.n \in handoffPlans
  /\ handoffTask.at = "reading" => handoffTask.kind = "apply" /\ handoffFile.plan < handoffTask.n
  /\ handoffTask.at \in {"exporting", "exported", "applied"} =>
       /\ handoffTask.kind = "apply" /\ handoffFile.plan < handoffTask.n
       /\ handoffTask.plan = handoffFile.plan /\ handoffFile.plan # 0
  /\ handoffTask.at \in {"exported", "applied"} => handoffTask.plan \in handoffExported
  /\ handoffTask.at = "octopus" => handoffTask.plan = handoffFile.plan

PromptsHold ==
  /\ handoffFile.status = "applied" => handoffFile.plan \in handoffExported
  /\ handoffCounts.faults = 0 =>
       /\ handoffTask.at # "octopus" => octopusFile = handoffFile.plan
       /\ handoffTask.at \in {"exporting", "exported", "applied", "octopus"} =>
            handoffTask.prompt = handoffTask.plan

HandoffInv == HandoffTypeOK /\ InOrder /\ PlansAccounted /\ TaskHolds /\ PromptsHold

LEMMA HandoffMeets == HandoffInv => HandsOverTheLastSave
<1> SUFFICES ASSUME HandoffInv PROVE HandsOverTheLastSave
  OBVIOUS
<1>1. AppliesTheLastSave
  <2> SUFFICES ASSUME handoffTask.at \in {"exporting", "exported", "applied"}
               PROVE  /\ handoffTask.plan \in handoffPlans
                      /\ handoffTask.plan < handoffTask.n
                      /\ \A n \in handoffPlans : n < handoffTask.n => n <= handoffTask.plan
    BY DEF AppliesTheLastSave
  <2>1. /\ handoffTask.plan = handoffFile.plan /\ handoffFile.plan < handoffTask.n
        /\ handoffFile.plan # 0
    BY DEF HandoffInv, TaskHolds
  <2>2. handoffTask.plan \in handoffPlans
    BY <2>1 DEF HandoffInv, PlansAccounted
  <2>3. ASSUME NEW n \in handoffPlans, n < handoffTask.n PROVE n <= handoffTask.plan
    <3>1. ASSUME NEW i \in DOMAIN handoffQueue, n = handoffQueue[i].n PROVE FALSE
      <4>1. handoffTask.n < handoffQueue[i].n
        BY DEF HandoffInv, InOrder
      <4>2. n \in Nat /\ handoffTask.n \in Nat
        BY HandoffAssumption DEF HandoffInv, HandoffTypeOK, Requests
      <4> QED BY <2>3, <3>1, <4>1, <4>2
    <3> QED BY <2>1, <3>1 DEF HandoffInv, PlansAccounted, Queued
  <2> QED BY <2>1, <2>2, <2>3
<1>2. FilesInStep
  BY DEF HandoffInv, PromptsHold, FilesInStep
<1> QED BY <1>1, <1>2 DEF HandsOverTheLastSave

LEMMA HandoffStart == HandoffInit => HandoffInv
<1> SUFFICES ASSUME HandoffInit PROVE HandoffInv
  OBVIOUS
<1>1. HandoffTypeOK
  BY HandoffAssumption DEF HandoffInit, HandoffTypeOK, NoTask, Kinds, Requests
<1>2. InOrder /\ PlansAccounted /\ TaskHolds /\ PromptsHold
  BY DEF HandoffInit, NoTask, InOrder, PlansAccounted, TaskHolds, PromptsHold, Queued
<1> QED BY <1>1, <1>2 DEF HandoffInv

-----------------------------------------------------------------------------
\* A request is appended under the next number.
LEMMA RequestKeeps ==
  ASSUME HandoffInv, NEW kind \in Kinds, RequestHandoff(kind)
  PROVE  HandoffInv'
<1> DEFINE n == handoffCounts.requests + 1
           request == [n |-> n, kind |-> kind]
<1>0. /\ n \in Requests /\ n \in Nat /\ request \in [n : Requests, kind : Kinds]
      /\ handoffQueue \in Seq([n : Requests, kind : Kinds])
      /\ handoffFile.plan \in Nat /\ handoffTask.n \in Nat /\ handoffCounts.requests \in Nat
  BY HandoffAssumption DEF RequestHandoff, Requests, HandoffInv, HandoffTypeOK
<1>1. /\ handoffQueue' = Append(handoffQueue, request)
      /\ handoffCounts' = [handoffCounts EXCEPT !.requests = n]
      /\ handoffPlans' = IF kind = "apply" THEN handoffPlans ELSE handoffPlans \cup {n}
      /\ UNCHANGED <<handoffTask, handoffFile, octopusFile, handoffExported>>
  BY DEF RequestHandoff, Enqueue
<1>2. handoffCounts'.requests = n /\ handoffCounts'.faults = handoffCounts.faults
      /\ handoffCounts' \in [requests : 0..MaxHandoffs, faults : Nat]
  <2>1. n \in 0..MaxHandoffs /\ handoffCounts \in [requests : 0..MaxHandoffs, faults : Nat]
    BY <1>0 DEF HandoffInv, HandoffTypeOK, Requests
  <2> HIDE DEF n
  <2> QED BY <1>1, <2>1
<1>3. /\ handoffQueue' \in Seq([n : Requests, kind : Kinds])
      /\ DOMAIN handoffQueue' = DOMAIN handoffQueue \cup {Len(handoffQueue) + 1}
      /\ DOMAIN handoffQueue = 1..Len(handoffQueue) /\ Len(handoffQueue) \in Nat
      /\ \A i \in DOMAIN handoffQueue : handoffQueue'[i] = handoffQueue[i]
      /\ handoffQueue'[Len(handoffQueue) + 1] = request
  <2> HIDE DEF request
  <2> QED BY <1>0, <1>1, AppendProperties
<1>4. \A i \in DOMAIN handoffQueue : handoffQueue[i].n \in Nat
  <2> SUFFICES ASSUME NEW i \in DOMAIN handoffQueue PROVE handoffQueue[i].n \in Nat
    OBVIOUS
  <2>1. handoffQueue[i] \in [n : Requests, kind : Kinds]
    BY <1>0, <1>3, ElementOfSeq
  <2> QED BY <2>1 DEF Requests
<1>5. HandoffTypeOK'
  BY <1>0, <1>1, <1>2, <1>3 DEF HandoffInv, HandoffTypeOK
<1>6. InOrder'
  <2>1. ASSUME NEW i \in DOMAIN handoffQueue'
        PROVE  /\ handoffQueue'[i].n <= n
               /\ handoffTask.at # "idle" => handoffTask.n < handoffQueue'[i].n
               /\ handoffFile.plan < handoffQueue'[i].n
    BY <1>0, <1>3, <1>4 DEF HandoffInv, InOrder
  <2>2. ASSUME NEW i \in DOMAIN handoffQueue', NEW j \in DOMAIN handoffQueue', i < j
        PROVE  handoffQueue'[i].n < handoffQueue'[j].n
    <3>1. i \in DOMAIN handoffQueue
      BY <1>3, <2>2
    <3>2. handoffQueue[i].n < n
      BY <3>1, <1>0, <1>4 DEF HandoffInv, InOrder
    <3> QED BY <3>1, <3>2, <2>2, <1>3 DEF HandoffInv, InOrder
  <2>3. (handoffTask.at # "idle" => handoffTask.n <= n) /\ handoffFile.plan <= n
    BY <1>0 DEF HandoffInv, InOrder
  <2> QED BY <2>1, <2>2, <2>3, <1>1, <1>2 DEF InOrder
<1>7. Queued' = Queued \cup {n}
  BY <1>3 DEF Queued
<1>8. PlansAccounted'
  <2>1. \A p \in handoffPlans' : p <= n
    BY <1>0, <1>1 DEF HandoffInv, HandoffTypeOK, PlansAccounted, Requests
  <2>2. ASSUME NEW i \in DOMAIN handoffQueue'
        PROVE  handoffQueue'[i].kind = "apply" <=> handoffQueue'[i].n \notin handoffPlans'
    <3>1. CASE i \in DOMAIN handoffQueue
      <4>1. /\ handoffQueue[i].kind = "apply" <=> handoffQueue[i].n \notin handoffPlans
            /\ handoffQueue[i].n # n
        BY <1>0, <1>4, <3>1 DEF HandoffInv, InOrder, PlansAccounted
      <4> HIDE DEF n
      <4> QED BY <1>1, <1>3, <3>1, <4>1
    <3>2. CASE i = Len(handoffQueue) + 1
      <4>1. n \notin handoffPlans
        BY <1>0 DEF HandoffInv, HandoffTypeOK, PlansAccounted, Requests
      <4> QED BY <1>1, <1>3, <3>2, <4>1
    <3> QED BY <1>3, <3>1, <3>2
  <2>3. /\ \A p \in handoffPlans' :
             p <= handoffFile.plan \/ p \in Queued' \/ (handoffTask.at = "making" /\ p = handoffTask.n)
        /\ handoffFile.plan # 0 => handoffFile.plan \in handoffPlans'
    BY <1>1, <1>7 DEF HandoffInv, PlansAccounted
  <2> HIDE DEF n
  <2> QED BY <1>1, <1>2, <2>1, <2>2, <2>3 DEF PlansAccounted
<1>9. TaskHolds' /\ PromptsHold'
  BY <1>1, <1>2 DEF HandoffInv, TaskHolds, PromptsHold
<1> QED BY <1>5, <1>6, <1>8, <1>9 DEF HandoffInv

\* The oldest request becomes the task.
LEMMA TaskStartsKeeps == HandoffInv /\ TaskStarts => HandoffInv'
<1> SUFFICES ASSUME HandoffInv, TaskStarts PROVE HandoffInv'
  OBVIOUS
<1> DEFINE next == Head(handoffQueue)
           task == [at |-> IF next.kind = "apply" THEN "reading" ELSE "making",
                    n |-> next.n, kind |-> next.kind, plan |-> next.n, prompt |-> next.n]
           rest == Tail(handoffQueue)
<1>1. /\ handoffTask.at = "idle" /\ handoffQueue # << >>
      /\ handoffTask' = task /\ handoffQueue' = rest
      /\ UNCHANGED <<handoffFile, octopusFile, handoffExported, handoffPlans, handoffCounts>>
  BY DEF TaskStarts
<1>2. handoffQueue \in Seq([n : Requests, kind : Kinds])
  BY DEF HandoffInv, HandoffTypeOK
<1>3. /\ next \in [n : Requests, kind : Kinds] /\ rest \in Seq([n : Requests, kind : Kinds])
      /\ Len(rest) = Len(handoffQueue) - 1 /\ Len(handoffQueue) \in Nat
      /\ DOMAIN handoffQueue = 1..Len(handoffQueue) /\ DOMAIN rest = 1..Len(rest)
      /\ \A i \in DOMAIN rest : i + 1 \in DOMAIN handoffQueue /\ rest[i] = handoffQueue[i + 1]
  <2>1. /\ next \in [n : Requests, kind : Kinds] /\ rest \in Seq([n : Requests, kind : Kinds])
        /\ Len(rest) = Len(handoffQueue) - 1
        /\ \A i \in 1..Len(rest) : rest[i] = handoffQueue[i + 1]
    BY <1>1, <1>2, HeadTailProperties
  <2>2. /\ Len(handoffQueue) \in Nat /\ DOMAIN handoffQueue = 1..Len(handoffQueue)
        /\ Len(rest) \in Nat /\ DOMAIN rest = 1..Len(rest)
    BY <1>2, <2>1
  <2> HIDE DEF next, rest
  <2> QED BY <2>1, <2>2
<1>4. 1 \in DOMAIN handoffQueue /\ next = handoffQueue[1]
  BY <1>1, <1>2
<1> HIDE DEF next, rest
<1>5. HandoffTypeOK'
  <2>1. task \in [at : {"idle", "making", "octopus", "reading", "exporting", "exported", "applied"},
                  n : 0..MaxHandoffs, kind : Kinds, plan : 0..MaxHandoffs, prompt : 0..MaxHandoffs]
    BY <1>3, HandoffAssumption DEF Requests
  <2> HIDE DEF task
  <2> QED BY <1>1, <1>3, <2>1 DEF HandoffInv, HandoffTypeOK
<1>6. /\ handoffFile.plan < next.n /\ next.n <= handoffCounts.requests
      /\ \A i \in DOMAIN rest : next.n < rest[i].n
  BY <1>3, <1>4 DEF HandoffInv, InOrder
<1>7. InOrder'
  <2>1. \A i \in DOMAIN rest : rest[i].n <= handoffCounts.requests /\ handoffFile.plan < rest[i].n
    BY <1>3 DEF HandoffInv, InOrder
  <2>2. ASSUME NEW i \in DOMAIN rest, NEW j \in DOMAIN rest, i < j PROVE rest[i].n < rest[j].n
    <3>1. i + 1 < j + 1
      BY <1>3, <2>2
    <3> QED BY <1>3, <3>1 DEF HandoffInv, InOrder
  <2>3. handoffFile.plan <= handoffCounts.requests
    BY DEF HandoffInv, InOrder
  <2> QED BY <1>1, <1>6, <2>1, <2>2, <2>3 DEF InOrder
<1>8. Queued \subseteq Queued' \cup {next.n}
  <2> SUFFICES ASSUME NEW i \in DOMAIN handoffQueue, handoffQueue[i].n # next.n
               PROVE  handoffQueue[i].n \in Queued'
    BY DEF Queued
  <2>1. i - 1 \in DOMAIN rest /\ rest[i - 1] = handoffQueue[i]
    BY <1>3, <1>4
  <2> QED BY <1>1, <2>1 DEF Queued
<1>9. PlansAccounted'
  <2>1. ASSUME NEW n \in handoffPlans
        PROVE  n <= handoffFile.plan \/ n \in Queued'
               \/ (task.at = "making" /\ n = task.n)
    <3>1. n = next.n => next.kind # "apply"
      BY <1>4 DEF HandoffInv, PlansAccounted
    <3>2. n = next.n => task.at = "making" /\ n = task.n
      BY <3>1
    <3> QED BY <1>1, <1>8, <3>2 DEF HandoffInv, PlansAccounted
  <2>2. \A i \in DOMAIN rest : rest[i].kind = "apply" <=> rest[i].n \notin handoffPlans
    BY <1>3 DEF HandoffInv, PlansAccounted
  <2> HIDE DEF task
  <2> QED BY <1>1, <2>1, <2>2 DEF HandoffInv, PlansAccounted
<1>10. TaskHolds' /\ PromptsHold'
  <2>1. next.kind # "apply" => next.n \in handoffPlans
    BY <1>4 DEF HandoffInv, PlansAccounted
  <2> QED BY <1>1, <1>6, <2>1 DEF HandoffInv, TaskHolds, PromptsHold
<1> QED BY <1>5, <1>7, <1>9, <1>10 DEF HandoffInv

\* The steps of the task leave the queue alone.
LEMMA HandoffFaults == HandoffInv /\ HandoffFault =>
  /\ handoffCounts' \in [requests : 0..MaxHandoffs, faults : Nat]
  /\ handoffCounts'.requests = handoffCounts.requests /\ handoffCounts'.faults # 0
BY DEF HandoffInv, HandoffTypeOK, HandoffFault

LEMMA NothingMadeKeeps == HandoffInv /\ NothingMade => HandoffInv'
<1> SUFFICES ASSUME HandoffInv, NothingMade PROVE HandoffInv'
  OBVIOUS
<1>1. /\ handoffTask.at = "making" /\ handoffTask' = NoTask
      /\ handoffPlans' = handoffPlans \ {handoffTask.n}
      /\ UNCHANGED <<handoffQueue, handoffFile, octopusFile, handoffExported>>
      /\ Queued' = Queued
  BY DEF NothingMade, TaskOver, Queued
<1>2. /\ handoffCounts' \in [requests : 0..MaxHandoffs, faults : Nat]
      /\ handoffCounts'.requests = handoffCounts.requests /\ handoffCounts'.faults # 0
  BY HandoffFaults DEF NothingMade
<1>3. HandoffTypeOK'
  BY <1>1, <1>2, HandoffAssumption DEF HandoffInv, HandoffTypeOK, NoTask, Kinds
<1>4. handoffFile.plan # handoffTask.n
  BY <1>1 DEF HandoffInv, HandoffTypeOK, TaskHolds
<1>5. InOrder'
  BY <1>1, <1>2 DEF HandoffInv, InOrder, NoTask
<1>7. PlansAccounted'
  <2>1. \A i \in DOMAIN handoffQueue : handoffQueue[i].n # handoffTask.n
    <3> SUFFICES ASSUME NEW i \in DOMAIN handoffQueue PROVE handoffQueue[i].n # handoffTask.n
      OBVIOUS
    <3>1. handoffTask.n < handoffQueue[i].n /\ handoffTask.n \in Nat
      BY <1>1, HandoffAssumption DEF HandoffInv, HandoffTypeOK, InOrder
    <3> QED BY <3>1
  <2> QED BY <1>1, <1>2, <1>4, <2>1 DEF HandoffInv, PlansAccounted, NoTask
<1>6. TaskHolds' /\ PromptsHold'
  BY <1>1, <1>2 DEF HandoffInv, TaskHolds, PromptsHold, NoTask
<1> QED BY <1>3, <1>5, <1>6, <1>7 DEF HandoffInv

LEMMA WritesHandoffKeeps == HandoffInv /\ WritesHandoff => HandoffInv'
<1> SUFFICES ASSUME HandoffInv, WritesHandoff PROVE HandoffInv'
  OBVIOUS
<1> DEFINE file == [status |-> IF handoffTask.kind = "apply" THEN "applied" ELSE "draft",
                    plan |-> handoffTask.plan]
<1>1. /\ handoffTask.at \in {"making", "applied"} /\ handoffFile' = file
      /\ handoffTask' = [handoffTask EXCEPT !.at = "octopus"]
      /\ UNCHANGED <<handoffQueue, octopusFile, handoffExported, handoffPlans, handoffCounts>>
      /\ Queued' = Queued
  BY DEF WritesHandoff, Queued
<1>2. /\ file.plan = handoffTask.plan /\ file \in [status : {"draft", "applied"}, plan : 0..MaxHandoffs]
      /\ file.status = "applied" <=> handoffTask.kind = "apply"
  BY DEF HandoffInv, HandoffTypeOK
<1>3. /\ handoffTask'.at = "octopus" /\ handoffTask'.n = handoffTask.n
      /\ handoffTask'.plan = handoffTask.plan /\ handoffTask'.prompt = handoffTask.prompt
      /\ handoffTask'.kind = handoffTask.kind
  BY <1>1 DEF HandoffInv, HandoffTypeOK
<1> HIDE DEF file
<1>4. HandoffTypeOK'
  BY <1>1, <1>2 DEF HandoffInv, HandoffTypeOK
\* What is written is the plan of the task, or the file's own again.
<1>5. /\ handoffFile.plan <= file.plan /\ file.plan <= handoffTask.n
      /\ handoffTask.at = "making" => file.plan = handoffTask.n
      /\ handoffTask.at = "applied" => file.plan = handoffFile.plan /\ file.plan # 0
      /\ file.plan \in Nat /\ handoffFile.plan \in Nat /\ handoffTask.n \in Nat
  BY <1>1, <1>2, HandoffAssumption DEF HandoffInv, HandoffTypeOK, TaskHolds
<1>6. \A i \in DOMAIN handoffQueue : handoffQueue[i].n \in Nat /\ file.plan < handoffQueue[i].n
  <2> SUFFICES ASSUME NEW i \in DOMAIN handoffQueue
               PROVE  handoffQueue[i].n \in Nat /\ file.plan < handoffQueue[i].n
    OBVIOUS
  <2>1. handoffQueue[i] \in [n : Requests, kind : Kinds]
    <3>1. handoffQueue \in Seq([n : Requests, kind : Kinds])
      BY DEF HandoffInv, HandoffTypeOK
    <3>2. DOMAIN handoffQueue = 1..Len(handoffQueue)
      BY <3>1
    <3> QED BY <3>1, <3>2, ElementOfSeq
  <2> QED BY <1>1, <1>5, <2>1, HandoffAssumption DEF HandoffInv, InOrder, Requests
<1>7. InOrder'
  BY <1>1, <1>3, <1>5, <1>6 DEF HandoffInv, HandoffTypeOK, InOrder
<1>8. PlansAccounted'
  <2>1. ASSUME NEW n \in handoffPlans PROVE n <= file.plan \/ n \in Queued
    <3>1. n \in Nat
      BY DEF HandoffInv, HandoffTypeOK, Requests
    <3> QED BY <1>1, <1>5, <3>1 DEF HandoffInv, PlansAccounted
  <2>2. file.plan # 0 => file.plan \in handoffPlans
    BY <1>1, <1>5 DEF HandoffInv, PlansAccounted, TaskHolds
  <2> QED BY <1>1, <1>3, <2>1, <2>2 DEF HandoffInv, PlansAccounted
<1>9. TaskHolds'
  BY <1>1, <1>2, <1>3 DEF TaskHolds
<1>10. PromptsHold'
  BY <1>1, <1>2, <1>3, <1>5 DEF HandoffInv, PromptsHold, TaskHolds
<1> QED BY <1>4, <1>7, <1>8, <1>9, <1>10 DEF HandoffInv

\* The task goes on, or is over, and no file is written but OCTOPUS.md.
LEMMA TaskGoesOn ==
  ASSUME HandoffInv, HandoffTypeOK', TaskHolds', PromptsHold',
         UNCHANGED <<handoffQueue, handoffFile, handoffPlans>>,
         handoffTask.at # "making", handoffTask'.at # "making",
         handoffTask'.at # "idle" => handoffTask.at # "idle" /\ handoffTask'.n = handoffTask.n,
         handoffCounts'.requests = handoffCounts.requests
  PROVE  HandoffInv'
<1>1. Queued' = Queued
  BY DEF Queued
<1>2. InOrder'
  BY DEF HandoffInv, InOrder
<1>3. PlansAccounted'
  BY <1>1 DEF HandoffInv, PlansAccounted
<1> QED BY <1>2, <1>3 DEF HandoffInv

LEMMA WritesOctopusKeeps == HandoffInv /\ WritesOctopus => HandoffInv'
<1> SUFFICES ASSUME HandoffInv, WritesOctopus PROVE HandoffInv'
  OBVIOUS
<1>1. HandoffTypeOK'
  BY HandoffAssumption DEF WritesOctopus, TaskOver, NoTask, Kinds, HandoffInv, HandoffTypeOK
<1>2. TaskHolds' /\ PromptsHold'
  BY DEF WritesOctopus, TaskOver, NoTask, HandoffInv, TaskHolds, PromptsHold
<1> QED BY <1>1, <1>2, TaskGoesOn DEF WritesOctopus, TaskOver, NoTask

LEMMA ApplyReadsHandoffKeeps == HandoffInv /\ ApplyReadsHandoff => HandoffInv'
<1> SUFFICES ASSUME HandoffInv, ApplyReadsHandoff PROVE HandoffInv'
  OBVIOUS
<1> DEFINE task == [handoffTask EXCEPT !.at = "exporting", !.plan = handoffFile.plan,
                                       !.prompt = octopusFile]
<1>0. /\ handoffTask.at = "reading" /\ handoffTask' = IF handoffFile.plan = 0 THEN NoTask ELSE task
      /\ UNCHANGED <<handoffQueue, handoffFile, octopusFile, handoffExported, handoffPlans,
                     handoffCounts>>
  BY DEF ApplyReadsHandoff
<1>1. HandoffTypeOK'
  BY <1>0, HandoffAssumption DEF NoTask, Kinds, HandoffInv, HandoffTypeOK
<1>2. /\ task.at = "exporting" /\ task.n = handoffTask.n /\ task.kind = handoffTask.kind
      /\ task.plan = handoffFile.plan /\ task.prompt = octopusFile
  BY DEF HandoffInv, HandoffTypeOK
<1> HIDE DEF task
<1>3. TaskHolds' /\ PromptsHold'
  BY <1>0, <1>2 DEF NoTask, HandoffInv, TaskHolds, PromptsHold
<1> QED BY <1>0, <1>1, <1>2, <1>3, TaskGoesOn DEF NoTask

LEMMA ApplyExportsKeeps == HandoffInv /\ ApplyExports => HandoffInv'
<1> SUFFICES ASSUME HandoffInv, ApplyExports PROVE HandoffInv'
  OBVIOUS
<1>0. /\ handoffTask.at = "exporting"
      /\ UNCHANGED <<handoffQueue, handoffFile, octopusFile, handoffPlans, handoffCounts>>
  BY DEF ApplyExports
<1>1. CASE handoffTask' = NoTask /\ UNCHANGED handoffExported
  <2>1. HandoffTypeOK'
    BY <1>0, <1>1, HandoffAssumption DEF NoTask, Kinds, HandoffInv, HandoffTypeOK
  <2>2. TaskHolds' /\ PromptsHold'
    BY <1>0, <1>1 DEF NoTask, HandoffInv, TaskHolds, PromptsHold
  <2> QED BY <1>0, <1>1, <2>1, <2>2, TaskGoesOn DEF NoTask
<1>2. CASE /\ handoffExported' = handoffExported \cup {handoffTask.plan}
           /\ handoffTask' = [handoffTask EXCEPT !.at = "exported"]
  <2>0. /\ handoffTask'.at = "exported" /\ handoffTask'.n = handoffTask.n
        /\ handoffTask'.kind = handoffTask.kind /\ handoffTask'.plan = handoffTask.plan
        /\ handoffTask'.prompt = handoffTask.prompt
    BY <1>2 DEF HandoffInv, HandoffTypeOK
  <2>1. handoffTask.plan \in Requests
    BY <1>0 DEF HandoffInv, HandoffTypeOK, TaskHolds, PlansAccounted
  <2>2. HandoffTypeOK'
    BY <1>0, <1>2, <2>1 DEF HandoffInv, HandoffTypeOK
  <2>3. TaskHolds' /\ PromptsHold'
    BY <1>0, <1>2, <2>0 DEF HandoffInv, TaskHolds, PromptsHold
  <2> QED BY <1>0, <2>0, <2>2, <2>3, TaskGoesOn
<1> QED BY <1>1, <1>2 DEF ApplyExports, TaskOver

LEMMA WriteOctopusPromptKeeps == HandoffInv /\ WriteOctopusPrompt => HandoffInv'
<1> SUFFICES ASSUME HandoffInv, WriteOctopusPrompt PROVE HandoffInv'
  OBVIOUS
<1>0. /\ handoffTask.at = "exported" /\ octopusFile' = handoffTask.prompt
      /\ handoffTask' = [handoffTask EXCEPT !.at = "applied"]
      /\ UNCHANGED <<handoffQueue, handoffFile, handoffExported, handoffPlans, handoffCounts>>
  BY DEF WriteOctopusPrompt
<1>1. HandoffTypeOK'
  BY <1>0 DEF HandoffInv, HandoffTypeOK
<1>2. /\ handoffTask'.at = "applied" /\ handoffTask'.n = handoffTask.n
      /\ handoffTask'.kind = handoffTask.kind /\ handoffTask'.plan = handoffTask.plan
      /\ handoffTask'.prompt = handoffTask.prompt
  BY <1>0 DEF HandoffInv, HandoffTypeOK
<1>3. TaskHolds' /\ PromptsHold'
  BY <1>0, <1>2 DEF HandoffInv, TaskHolds, PromptsHold
<1> QED BY <1>0, <1>1, <1>2, <1>3, TaskGoesOn

LEMMA TaskThrowsKeeps == HandoffInv /\ TaskThrows => HandoffInv'
<1> SUFFICES ASSUME HandoffInv, TaskThrows PROVE HandoffInv'
  OBVIOUS
<1>0. /\ handoffTask.at \in {"octopus", "reading", "exporting", "exported", "applied"}
      /\ handoffTask' = NoTask
      /\ UNCHANGED <<handoffQueue, handoffFile, octopusFile, handoffExported, handoffPlans>>
  BY DEF TaskThrows, TaskOver
<1>1. /\ handoffCounts' \in [requests : 0..MaxHandoffs, faults : Nat]
      /\ handoffCounts'.requests = handoffCounts.requests /\ handoffCounts'.faults # 0
  BY HandoffFaults DEF TaskThrows
<1>2. HandoffTypeOK'
  BY <1>0, <1>1, HandoffAssumption DEF NoTask, Kinds, HandoffInv, HandoffTypeOK
<1>3. TaskHolds' /\ PromptsHold'
  BY <1>0, <1>1 DEF NoTask, HandoffInv, TaskHolds, PromptsHold
<1> QED BY <1>0, <1>1, <1>2, <1>3, TaskGoesOn DEF NoTask

\* The server dies: what was asked for and has written no file is gone.
LEMMA HandoffCrashKeeps == HandoffInv /\ HandoffServerCrashes => HandoffInv'
<1> SUFFICES ASSUME HandoffInv, HandoffServerCrashes PROVE HandoffInv'
  OBVIOUS
<1>0. /\ handoffQueue' = << >> /\ handoffTask' = NoTask
      /\ handoffPlans' = (handoffPlans \ Queued) \
                           (IF handoffTask.at = "making" THEN {handoffTask.n} ELSE {})
      /\ UNCHANGED <<handoffFile, octopusFile, handoffExported>>
  BY DEF HandoffServerCrashes, TaskOver, Queued
<1>1. /\ handoffCounts' \in [requests : 0..MaxHandoffs, faults : Nat]
      /\ handoffCounts'.requests = handoffCounts.requests /\ handoffCounts'.faults # 0
  BY HandoffFaults DEF HandoffServerCrashes
<1>2. HandoffTypeOK'
  BY <1>0, <1>1, HandoffAssumption DEF NoTask, Kinds, HandoffInv, HandoffTypeOK
<1>3. InOrder'
  BY <1>0, <1>1 DEF NoTask, HandoffInv, InOrder
<1>4. handoffFile.plan \notin Queued
      /\ (handoffTask.at = "making" => handoffFile.plan # handoffTask.n)
  <2>1. handoffFile.plan \in Nat
    BY HandoffAssumption DEF HandoffInv, HandoffTypeOK
  <2>2. \A i \in DOMAIN handoffQueue : handoffFile.plan # handoffQueue[i].n
    BY <2>1 DEF HandoffInv, InOrder
  <2>3. handoffTask.at = "making" => handoffFile.plan # handoffTask.n
    BY <2>1 DEF HandoffInv, TaskHolds
  <2> QED BY <2>2, <2>3 DEF Queued
<1>5. PlansAccounted'
  BY <1>0, <1>1, <1>4 DEF HandoffInv, PlansAccounted, NoTask
<1>6. TaskHolds' /\ PromptsHold'
  BY <1>0, <1>1 DEF NoTask, HandoffInv, TaskHolds, PromptsHold
<1> QED BY <1>2, <1>3, <1>5, <1>6 DEF HandoffInv

-----------------------------------------------------------------------------
LEMMA HandoffStep == HandoffInv /\ [HandoffNext]_handoffVars => HandoffInv'
<1> SUFFICES ASSUME HandoffInv, [HandoffNext]_handoffVars PROVE HandoffInv'
  OBVIOUS
<1>1. CASE UNCHANGED handoffVars
  BY <1>1 DEF handoffVars, HandoffInv, HandoffTypeOK, InOrder, PlansAccounted, TaskHolds,
              PromptsHold, Queued
<1>2. CASE HandoffNext
  BY <1>2, RequestKeeps, TaskStartsKeeps, NothingMadeKeeps, WritesHandoffKeeps, WritesOctopusKeeps,
     ApplyReadsHandoffKeeps, ApplyExportsKeeps, WriteOctopusPromptKeeps, TaskThrowsKeeps,
     HandoffCrashKeeps DEF HandoffNext
<1> QED BY <1>1, <1>2

\* An apply hands over the plan of the last generate or save asked for before it that
\* did not fail, "applied" is said of no other plan, and while nothing failed
\* OCTOPUS.md holds the prompt of the plan of HANDOFF.md.
THEOREM AppliesWhatWasSaved == HandoffSpec => []HandsOverTheLastSave
<1> QED BY HandoffStart, HandoffStep, HandoffMeets, PTL DEF HandoffSpec
-----------------------------------------------------------------------------
\* Answers.  A revised answer leaves no decision active that rests on its question,
\* but for those recorded after the revision looked for them: for any sessions, questions,
\* decisions, and calls that interleave, throw or die.  The argument: decisions are
\* numbered as they are written; what a call found to be active when it read stays a
\* bound on what is active of that age, for a decision becomes active only by being
\* written anew.

Entries == [question : Questions, modifier : Modifiers, revises : BOOLEAN, readAt : Nat]

\* DECISIONS.md: every decision was written by one of the writes counted.
DecisionsOK ==
  /\ answerCounts.decisions \in Nat
  /\ DOMAIN answerCounts = {"calls", "decisions", "parks", "faults"}
  /\ restingOn = [d \in DecisionIds |-> restingOn[d]]
  /\ \A d \in DecisionIds :
       /\ DOMAIN restingOn[d] = {"status", "questionIds", "dependsOn", "written"}
       /\ restingOn[d].written \in Nat /\ restingOn[d].written <= answerCounts.decisions

\* No decision of a file as old as its n-th write that rests on the q-th question is
\* active, but for the excepted.
StaleUpTo(n, q, excepted, file) ==
  \A d \in DecisionIds \ excepted :
    file[d].written <= n /\ q \in file[d].questionIds \cup file[d].dependsOn
    => file[d].status # "active"

\* A call: what it has read of the decisions, and what of it is still to do.
CallOK(call, file, writes) ==
  /\ DOMAIN call = {"at", "session", "revises", "answers", "found", "followUps", "readAt"}
  /\ call.revises \in BOOLEAN
  /\ call.readAt \in Nat /\ call.readAt <= writes
  /\ call.at \in {"reading", "marking"} => call.revises
  /\ call.at \in {"reading", "marking", "recording"} =>
       /\ call.answers \in Seq([question : Questions, modifier : Modifiers])
       /\ call.revises => Len(call.answers) = 1
  /\ call.at = "marking" => StaleUpTo(call.readAt, NumberOf[call.answers[1].question], call.found, file)
  /\ call.at = "recording" /\ call.revises =>
       StaleUpTo(call.readAt, NumberOf[call.answers[1].question], {}, file)
CallsOK ==
  /\ answerCalls = [c \in AnswerCallers |-> answerCalls[c]]
  /\ \A c \in AnswerCallers : CallOK(answerCalls[c], restingOn, answerCounts.decisions)

LogOK ==
  /\ answerLog \in Seq(Entries)
  /\ \A n \in DOMAIN answerLog :
       /\ answerLog[n].readAt <= answerCounts.decisions
       /\ answerLog[n].revises =>
            StaleUpTo(answerLog[n].readAt, NumberOf[answerLog[n].question], {}, restingOn)

AnswersInv == DecisionsOK /\ CallsOK /\ LogOK

-----------------------------------------------------------------------------
\* What a step may do to the decisions: write one anew, or make it stale.
OnlyAges ==
  /\ answerCounts'.decisions \in Nat /\ answerCounts.decisions <= answerCounts'.decisions
  /\ \A d \in DecisionIds :
       \/ restingOn'[d].written \in Nat /\ restingOn'[d].written > answerCounts.decisions
       \/ /\ restingOn'[d].written = restingOn[d].written
          /\ restingOn'[d].questionIds = restingOn[d].questionIds
          /\ restingOn'[d].dependsOn = restingOn[d].dependsOn
          /\ restingOn'[d].status = "active" => restingOn[d].status = "active"

LEMMA AgingKeepsStale ==
  ASSUME DecisionsOK, OnlyAges, NEW n \in Nat, n <= answerCounts.decisions,
         NEW q, NEW excepted, StaleUpTo(n, q, excepted, restingOn)
  PROVE  StaleUpTo(n, q, excepted, restingOn')
<1> SUFFICES ASSUME NEW d \in DecisionIds \ excepted, restingOn'[d].written <= n,
                    q \in restingOn'[d].questionIds \cup restingOn'[d].dependsOn
             PROVE  restingOn'[d].status # "active"
  BY DEF StaleUpTo
<1>1. ~(restingOn'[d].written \in Nat /\ restingOn'[d].written > answerCounts.decisions)
  BY DEF DecisionsOK
<1> QED BY <1>1 DEF OnlyAges, StaleUpTo

\* So a step that only ages the decisions keeps what a call, and the log, rely on.
LEMMA AgingKeepsCall ==
  ASSUME DecisionsOK, OnlyAges, NEW call, CallOK(call, restingOn, answerCounts.decisions)
  PROVE  CallOK(call, restingOn', answerCounts'.decisions)
<1>1. call.readAt <= answerCounts'.decisions
  BY DEF CallOK, OnlyAges, DecisionsOK
<1>2. call.at = "marking" =>
        StaleUpTo(call.readAt, NumberOf[call.answers[1].question], call.found, restingOn')
  BY AgingKeepsStale DEF CallOK
<1>3. call.at = "recording" /\ call.revises =>
        StaleUpTo(call.readAt, NumberOf[call.answers[1].question], {}, restingOn')
  BY AgingKeepsStale DEF CallOK
<1> QED BY <1>1, <1>2, <1>3 DEF CallOK

LEMMA AgingKeepsLog ==
  ASSUME DecisionsOK, OnlyAges, LogOK, UNCHANGED answerLog
  PROVE  LogOK'
<1>1. \A n \in DOMAIN answerLog : answerLog[n] \in Entries
  BY DEF LogOK
<1>2. ASSUME NEW n \in DOMAIN answerLog PROVE answerLog[n].readAt <= answerCounts'.decisions
  BY <1>1, <1>2 DEF LogOK, OnlyAges, DecisionsOK, Entries
<1>3. ASSUME NEW n \in DOMAIN answerLog, answerLog[n].revises
      PROVE  StaleUpTo(answerLog[n].readAt, NumberOf[answerLog[n].question], {}, restingOn')
  <2>1. answerLog[n].readAt \in Nat /\ answerLog[n].readAt <= answerCounts.decisions
    BY <1>1 DEF LogOK, Entries
  <2>2. StaleUpTo(answerLog[n].readAt, NumberOf[answerLog[n].question], {}, restingOn)
    BY <1>3 DEF LogOK
  <2> QED BY <2>1, <2>2, AgingKeepsStale
<1> QED BY <1>2, <1>3 DEF LogOK

\* Counting a call or a fault, or nothing, with the file as it was.
AnswersCounted(what) == \E max : CountAnswer(what, max)
LEMMA Unaged ==
  ASSUME DecisionsOK, UNCHANGED restingOn,
         UNCHANGED answerCounts \/ AnswersCounted("calls") \/ AnswersCounted("parks")
         \/ AnswersCounted("faults")
  PROVE  DecisionsOK' /\ OnlyAges
<1>1. answerCounts'.decisions = answerCounts.decisions
      /\ DOMAIN answerCounts' = {"calls", "decisions", "parks", "faults"}
  BY DEF AnswersCounted, CountAnswer, DecisionsOK
<1> QED BY <1>1 DEF DecisionsOK, OnlyAges

\* The calls take no step, or one of them does; the others keep what they have read.
LEMMA NoCallSteps ==
  ASSUME CallsOK, DecisionsOK, OnlyAges, UNCHANGED answerCalls
  PROVE  CallsOK'
BY AgingKeepsCall DEF CallsOK

LEMMA OneCallSteps ==
  ASSUME CallsOK, DecisionsOK, OnlyAges, NEW c \in AnswerCallers, NEW call,
         CallOK(call, restingOn', answerCounts'.decisions),
         answerCalls' = [answerCalls EXCEPT ![c] = call]
  PROVE  CallsOK'
<1>1. ASSUME NEW e \in AnswerCallers
      PROVE  CallOK(answerCalls'[e], restingOn', answerCounts'.decisions)
  <2>1. CASE e = c
    BY <2>1 DEF CallsOK
  <2>2. CASE e # c
    BY <2>2, AgingKeepsCall DEF CallsOK
  <2> QED BY <2>1, <2>2
<1> QED BY <1>1 DEF CallsOK

-----------------------------------------------------------------------------
\* A call that is done, or works off its follow-ups, relies on nothing.
LEMMA IdleCallOK ==
  ASSUME NEW file, NEW writes \in Nat
  PROVE  CallOK(NoCall, file, writes)
BY DEF CallOK, NoCall

LEMMA FollowingOK ==
  ASSUME NEW file, NEW writes \in Nat, NEW call, call.revises \in BOOLEAN, NEW followUps
  PROVE  CallOK(Following(call, followUps), file, writes)
<1> DEFINE left == [NoCall EXCEPT !.at = "following", !.session = call.session,
                                  !.revises = call.revises, !.followUps = followUps]
<1>1. CallOK(left, file, writes)
  BY DEF CallOK, NoCall
<1> QED BY <1>1, IdleCallOK DEF Following

\* A round's answers are in the order of some sequence of its questions.
LEMMA QuestionsInOrder ==
  ASSUME NEW session
  PROVE  LET Q == QuestionsOf(session)
         IN /\ SetToSeq(Q) \in [1..Cardinality(Q) -> Questions] /\ Cardinality(Q) \in Nat
            /\ \A i, j \in DOMAIN SetToSeq(Q) : SetToSeq(Q)[i] = SetToSeq(Q)[j] => i = j
<1> DEFINE Q == QuestionsOf(session)
<1>0. Q \subseteq Questions /\ IsFiniteSet(Q)
  BY AnswersAssumption, FS_Subset DEF QuestionsOf
<1> HIDE DEF Q
<1>1. Cardinality(Q) \in Nat /\ ExistsBijection(1..Cardinality(Q), Q)
  BY <1>0, FS_CardinalityType
<1>2. \E f \in [1..Cardinality(Q) -> Q] : IsInjective(f)
  BY <1>1 DEF ExistsBijection, Bijection, Injection
<1>3. SetToSeq(Q) \in [1..Cardinality(Q) -> Q] /\ IsInjective(SetToSeq(Q))
  BY <1>2 DEF SetToSeq
<1>4. \A i, j \in DOMAIN SetToSeq(Q) : SetToSeq(Q)[i] = SetToSeq(Q)[j] => i = j
  BY <1>3 DEF IsInjective
<1> QED BY <1>0, <1>1, <1>3, <1>4 DEF Q

LEMMA AnswerRoundKeeps ==
  ASSUME AnswersInv, NEW c \in AnswerCallers, NEW session \in Sessions, NEW modifier \in RoundAnswers,
         AnswerRound(c, session, modifier)
  PROVE  AnswersInv'
<1> DEFINE order == SetToSeq(QuestionsOf(session))
           answers == [k \in DOMAIN order |-> [question |-> order[k], modifier |-> modifier[order[k]]]]
           call == [NoCall EXCEPT !.at = "recording", !.session = session, !.answers = answers]
<1>1. answers \in Seq([question : Questions, modifier : Modifiers])
  <2>1. modifier \in [Questions -> Modifiers]
    BY AnswersAssumption
  <2>2. answers \in [1..Cardinality(QuestionsOf(session)) -> [question : Questions, modifier : Modifiers]]
    BY <2>1, QuestionsInOrder
  <2> HIDE DEF answers
  <2> QED BY <2>2, QuestionsInOrder, FunctionIsSeq
<1>2. DecisionsOK' /\ OnlyAges
  BY Unaged DEF AnswersInv, AnswerRound, AnswersCounted
<1>3. CallOK(call, restingOn', answerCounts'.decisions)
  <2> HIDE DEF answers
  <2> QED BY <1>1, <1>2 DEF CallOK, NoCall, OnlyAges
<1>4. CallsOK'
  <2>1. answerCalls' = [answerCalls EXCEPT ![c] = call]
    BY DEF AnswerRound
  <2> HIDE DEF call
  <2> QED BY <2>1, <1>2, <1>3, OneCallSteps DEF AnswersInv
<1>5. LogOK'
  BY <1>2, AgingKeepsLog DEF AnswersInv, AnswerRound
<1> QED BY <1>2, <1>4, <1>5 DEF AnswersInv

LEMMA ReviseAnswerKeeps ==
  ASSUME AnswersInv, NEW c \in AnswerCallers, NEW q \in Questions, NEW modifier \in Modifiers,
         ReviseAnswer(c, q, modifier)
  PROVE  AnswersInv'
<1> DEFINE answers == <<[question |-> q, modifier |-> modifier]>>
           call == [NoCall EXCEPT !.at = "reading", !.session = SessionOf[q], !.revises = TRUE,
                                  !.answers = answers]
<1>1. answers \in Seq([question : Questions, modifier : Modifiers]) /\ Len(answers) = 1
  OBVIOUS
<1>2. DecisionsOK' /\ OnlyAges
  BY Unaged DEF AnswersInv, ReviseAnswer, AnswersCounted
<1>3. CallOK(call, restingOn', answerCounts'.decisions)
  <2> HIDE DEF answers
  <2> QED BY <1>1, <1>2 DEF CallOK, NoCall, OnlyAges
<1>4. CallsOK'
  <2>1. answerCalls' = [answerCalls EXCEPT ![c] = call]
    BY DEF ReviseAnswer
  <2> HIDE DEF call
  <2> QED BY <2>1, <1>2, <1>3, OneCallSteps DEF AnswersInv
<1>5. LogOK'
  BY <1>2, AgingKeepsLog DEF AnswersInv, ReviseAnswer
<1> QED BY <1>2, <1>4, <1>5 DEF AnswersInv

\* The read: whatever is active and rests on the question is found.
LEMMA ReadDependentsKeeps ==
  ASSUME AnswersInv, NEW c \in AnswerCallers, ReadDependents(c)
  PROVE  AnswersInv'
<1> DEFINE old == answerCalls[c]
           found == {d \in DecisionIds : /\ restingOn[d].status = "active"
                                         /\ RestsOn(d, old.answers[1].question)}
           call == [old EXCEPT !.at = "marking", !.found = found, !.readAt = answerCounts.decisions]
<1>1. CallOK(old, restingOn, answerCounts.decisions) /\ old.at = "reading"
  BY DEF AnswersInv, CallsOK, ReadDependents
<1>2. DecisionsOK' /\ OnlyAges /\ UNCHANGED <<restingOn, answerCounts>>
  BY Unaged DEF AnswersInv, ReadDependents
<1>3. StaleUpTo(answerCounts.decisions, NumberOf[old.answers[1].question], found, restingOn)
  BY DEF StaleUpTo, RestsOn
<1>4. CallOK(call, restingOn', answerCounts'.decisions)
  <2> HIDE DEF found
  <2> QED BY <1>1, <1>2, <1>3 DEF CallOK, AnswersInv, DecisionsOK
<1>5. CallsOK'
  <2>1. answerCalls' = [answerCalls EXCEPT ![c] = call]
    BY <1>1 DEF ReadDependents, AnswersInv, CallsOK, CallOK
  <2> HIDE DEF call
  <2> QED BY <2>1, <1>2, <1>4, OneCallSteps DEF AnswersInv
<1>6. LogOK'
  BY <1>2, AgingKeepsLog DEF AnswersInv, ReadDependents
<1> QED BY <1>2, <1>5, <1>6 DEF AnswersInv

LEMMA MarkDecisionsStaleKeeps ==
  ASSUME AnswersInv, NEW c \in AnswerCallers, MarkDecisionsStale(c)
  PROVE  AnswersInv'
<1> DEFINE old == answerCalls[c]
           call == [old EXCEPT !.at = "recording", !.found = {}]
<1>1. CallOK(old, restingOn, answerCounts.decisions) /\ old.at = "marking"
  BY DEF AnswersInv, CallsOK, MarkDecisionsStale
<1>2. /\ restingOn' = [d \in DecisionIds |-> restingOn'[d]]
      /\ UNCHANGED answerCounts
  BY DEF MarkDecisionsStale
<1>3. ASSUME NEW d \in DecisionIds
      PROVE  /\ DOMAIN restingOn'[d] = {"status", "questionIds", "dependsOn", "written"}
             /\ restingOn'[d].written = restingOn[d].written
             /\ restingOn'[d].questionIds = restingOn[d].questionIds
             /\ restingOn'[d].dependsOn = restingOn[d].dependsOn
             /\ restingOn'[d].status = "active" =>
                  restingOn[d].status = "active" /\ d \notin old.found
  <2>1. CASE d \in old.found
    BY <2>1 DEF MarkDecisionsStale, AnswersInv, DecisionsOK
  <2>2. CASE d \notin old.found
    BY <2>2 DEF MarkDecisionsStale, AnswersInv, DecisionsOK
  <2> QED BY <2>1, <2>2
<1>4. DecisionsOK' /\ OnlyAges
  BY <1>2, <1>3 DEF AnswersInv, DecisionsOK, OnlyAges
<1>5. StaleUpTo(old.readAt, NumberOf[old.answers[1].question], {}, restingOn')
  BY <1>1, <1>3 DEF CallOK, StaleUpTo
<1>6. CallOK(call, restingOn', answerCounts'.decisions)
  BY <1>1, <1>2, <1>5 DEF CallOK
<1>7. CallsOK'
  <2>1. answerCalls' = [answerCalls EXCEPT ![c] = call]
    BY DEF MarkDecisionsStale, AnswersInv, CallsOK, CallOK
  <2> HIDE DEF call
  <2> QED BY <2>1, <1>4, <1>6, OneCallSteps DEF AnswersInv
<1>8. LogOK'
  BY <1>4, AgingKeepsLog DEF AnswersInv, MarkDecisionsStale
<1> QED BY <1>4, <1>7, <1>8 DEF AnswersInv

\* The write of the log: a revision's entry relies on what its call relied on.
LEMMA RecordAnswersKeeps ==
  ASSUME AnswersInv, NEW c \in AnswerCallers, RecordAnswersOf(c)
  PROVE  AnswersInv'
<1> DEFINE old == answerCalls[c]
           new == [k \in DOMAIN old.answers |->
                     [question |-> old.answers[k].question, modifier |-> old.answers[k].modifier,
                      revises |-> old.revises, readAt |-> old.readAt]]
<1>1. CallOK(old, restingOn, answerCounts.decisions) /\ old.at = "recording"
  BY DEF AnswersInv, CallsOK, RecordAnswersOf
<1>2. answerLog' = answerLog \o new /\ UNCHANGED <<restingOn, answerCounts>>
  BY DEF RecordAnswersOf
<1>3. PICK followUps : answerCalls' = [answerCalls EXCEPT ![c] = Following(old, followUps)]
  BY DEF RecordAnswersOf, WithCall
<1>4. DecisionsOK' /\ OnlyAges
  BY <1>2, Unaged DEF AnswersInv
<1>5. CallsOK'
  <2>1. old.revises \in BOOLEAN /\ answerCounts'.decisions \in Nat
    BY <1>1, <1>4 DEF CallOK, OnlyAges
  <2>2. CallOK(Following(old, followUps), restingOn', answerCounts'.decisions)
    BY <2>1, FollowingOK
  <2> QED BY <1>3, <1>4, <2>2, OneCallSteps DEF AnswersInv
<1>6. new \in Seq(Entries) /\ DOMAIN new = 1..Len(old.answers) /\ Len(new) = Len(old.answers)
  <2>1. old.answers \in Seq([question : Questions, modifier : Modifiers])
        /\ old.revises \in BOOLEAN /\ old.readAt \in Nat
    BY <1>1 DEF CallOK
  <2>2. DOMAIN old.answers = 1..Len(old.answers) /\ Len(old.answers) \in Nat
    BY <2>1
  <2>3. ASSUME NEW k \in DOMAIN old.answers PROVE new[k] \in Entries
    <3>1. old.answers[k] \in [question : Questions, modifier : Modifiers]
      BY <2>1, <2>2, ElementOfSeq
    <3> QED BY <2>1, <3>1 DEF Entries
  <2>4. new \in [1..Len(old.answers) -> Entries]
    BY <2>2, <2>3
  <2> HIDE DEF new
  <2> QED BY <2>2, <2>4, FunctionIsSeq
<1>7. ASSUME NEW n \in DOMAIN answerLog'
      PROVE  /\ answerLog'[n].readAt <= answerCounts.decisions
             /\ answerLog'[n].revises =>
                  StaleUpTo(answerLog'[n].readAt, NumberOf[answerLog'[n].question], {}, restingOn)
  <2> HIDE DEF new
  <2>0. answerLog \in Seq(Entries) /\ DOMAIN answerLog = 1..Len(answerLog)
    BY DEF AnswersInv, LogOK
  <2>1. CASE n \in DOMAIN answerLog
    <3>1. answerLog'[n] = answerLog[n]
      BY <2>0, <2>1, <1>2, <1>6, ConcatProperties
    <3> QED BY <2>1, <3>1 DEF AnswersInv, LogOK
  <2>2. CASE n \notin DOMAIN answerLog
    <3>1. PICK k \in 1..Len(old.answers) : answerLog'[n] = new[k]
      <4>1. n \in 1..(Len(answerLog) + Len(new)) /\ n > Len(answerLog)
        BY <2>0, <2>2, <1>2, <1>6, ConcatProperties
      <4>2. n - Len(answerLog) \in 1..Len(old.answers) /\ answerLog'[n] = new[n - Len(answerLog)]
        BY <4>1, <2>0, <1>2, <1>6, ConcatProperties
      <4> QED BY <4>2
    <3>2. /\ answerLog'[n].readAt = old.readAt /\ answerLog'[n].revises = old.revises
          /\ answerLog'[n].question = old.answers[k].question
      BY <3>1, <1>6 DEF new
    <3>3. old.revises => k = 1
      <4>1. old.revises => Len(old.answers) = 1
        BY <1>1 DEF CallOK
      <4>2. Len(old.answers) = 1 => k = 1
        OBVIOUS
      <4> QED BY <4>1, <4>2
    <3> QED BY <1>1, <3>2, <3>3 DEF CallOK
  <2> QED BY <2>1, <2>2
<1>8. LogOK'
  <2> HIDE DEF new
  <2> QED BY <1>2, <1>6, <1>7, ConcatProperties DEF AnswersInv, LogOK
<1> QED BY <1>4, <1>5, <1>8 DEF AnswersInv

\* A follow-up, a throw, or a crash.
LEMMA FollowUpKeeps ==
  ASSUME AnswersInv, NEW c \in AnswerCallers, FollowUp(c) \/ AnswerCallThrows(c)
  PROVE  AnswersInv'
<1>1. DecisionsOK' /\ OnlyAges /\ UNCHANGED answerLog
  <2>1. UNCHANGED <<restingOn, answerLog>> /\ (UNCHANGED answerCounts \/ AnswersCounted("faults"))
    BY DEF FollowUp, AnswerCallThrows, AnswersCounted
  <2> QED BY <2>1, Unaged DEF AnswersInv
<1>2. PICK call : /\ answerCalls' = [answerCalls EXCEPT ![c] = call]
                  /\ CallOK(call, restingOn', answerCounts'.decisions)
  <2>1. CASE FollowUp(c)
    <3>1. answerCalls' = [answerCalls EXCEPT
                           ![c] = Following(answerCalls[c], Tail(answerCalls[c].followUps))]
      BY <2>1 DEF FollowUp, WithCall
    <3>2. answerCalls[c].revises \in BOOLEAN /\ answerCounts'.decisions \in Nat
      BY <1>1 DEF AnswersInv, CallsOK, CallOK, OnlyAges
    <3>3. CallOK(Following(answerCalls[c], Tail(answerCalls[c].followUps)), restingOn',
                 answerCounts'.decisions)
      BY <3>2, FollowingOK
    <3> QED BY <3>1, <3>3
  <2>2. CASE AnswerCallThrows(c)
    <3>1. answerCalls' = [answerCalls EXCEPT ![c] = NoCall]
      BY <2>2 DEF AnswerCallThrows, WithCall
    <3> QED BY <3>1, <1>1, IdleCallOK DEF OnlyAges
  <2> QED BY <2>1, <2>2
<1>3. CallsOK'
  BY <1>1, <1>2, OneCallSteps DEF AnswersInv
<1>4. LogOK'
  BY <1>1, AgingKeepsLog DEF AnswersInv
<1> QED BY <1>1, <1>3, <1>4 DEF AnswersInv

LEMMA PlanParkKeeps == ASSUME AnswersInv, NEW number, PlanPark(number) PROVE AnswersInv'
<1>1. DecisionsOK' /\ OnlyAges
  BY Unaged DEF AnswersInv, PlanPark, AnswersCounted
<1> QED BY <1>1, NoCallSteps, AgingKeepsLog DEF AnswersInv, PlanPark

LEMMA CrashKeeps == AnswersInv /\ AnswersCrash => AnswersInv'
<1> SUFFICES ASSUME AnswersInv, AnswersCrash PROVE AnswersInv'
  OBVIOUS
<1>1. DecisionsOK' /\ OnlyAges
  BY Unaged DEF AnswersInv, AnswersCrash, AnswersCounted
<1>2. CallsOK'
  <2>1. \A c \in AnswerCallers : CallOK(NoCall, restingOn', answerCounts'.decisions)
    BY <1>1, IdleCallOK DEF OnlyAges
  <2> QED BY <2>1 DEF AnswersCrash, CallsOK
<1>3. LogOK'
  BY <1>1, AgingKeepsLog DEF AnswersInv, AnswersCrash
<1> QED BY <1>1, <1>2, <1>3 DEF AnswersInv

\* A decision written anew is younger than anything a call has read.
LEMMA RecordDecisionKeeps ==
  ASSUME AnswersInv, NEW d \in DecisionIds, NEW questionIds, NEW dependsOn,
         RecordDecision(d, questionIds, dependsOn)
  PROVE  AnswersInv'
<1>1. /\ answerCounts'.decisions = answerCounts.decisions + 1
      /\ DOMAIN answerCounts' = {"calls", "decisions", "parks", "faults"}
  BY DEF RecordDecision, CountAnswer, AnswersInv, DecisionsOK
<1>2. /\ restingOn' = [e \in DecisionIds |-> restingOn'[e]]
      /\ \A e \in DecisionIds \ {d} : restingOn'[e] = restingOn[e]
      /\ restingOn'[d] = [status |-> "active", questionIds |-> questionIds,
                          dependsOn |-> dependsOn, written |-> answerCounts.decisions + 1]
  BY DEF RecordDecision, AnswersInv, DecisionsOK
<1>3. DecisionsOK' /\ OnlyAges
  <2>1. ASSUME NEW e \in DecisionIds
        PROVE  /\ DOMAIN restingOn'[e] = {"status", "questionIds", "dependsOn", "written"}
               /\ restingOn'[e].written \in Nat /\ restingOn'[e].written <= answerCounts'.decisions
               /\ e # d => restingOn'[e] = restingOn[e]
               /\ e = d => restingOn'[e].written > answerCounts.decisions
    BY <1>1, <1>2 DEF AnswersInv, DecisionsOK
  <2> QED BY <1>1, <1>2, <2>1 DEF AnswersInv, DecisionsOK, OnlyAges
<1>4. CallsOK' /\ LogOK'
  BY <1>3, NoCallSteps, AgingKeepsLog DEF AnswersInv, RecordDecision
<1> QED BY <1>3, <1>4 DEF AnswersInv

-----------------------------------------------------------------------------
LEMMA AnswersStart == AnswersInit => AnswersInv
<1> SUFFICES ASSUME AnswersInit PROVE AnswersInv
  OBVIOUS
<1>1. DecisionsOK
  BY DEF AnswersInit, DecisionsOK, NoDecision
<1>2. CallsOK
  BY IdleCallOK DEF AnswersInit, CallsOK
<1>3. LogOK
  BY DEF AnswersInit, LogOK
<1> QED BY <1>1, <1>2, <1>3 DEF AnswersInv

LEMMA AnswersStep == AnswersInv /\ [AnswersNext]_answerVars => AnswersInv'
<1> SUFFICES ASSUME AnswersInv, [AnswersNext]_answerVars PROVE AnswersInv'
  OBVIOUS
<1>1. CASE UNCHANGED answerVars
  <2>1. DecisionsOK' /\ OnlyAges
    BY <1>1, Unaged DEF AnswersInv, answerVars
  <2> QED BY <1>1, <2>1, NoCallSteps, AgingKeepsLog DEF AnswersInv, answerVars
<1>2. CASE AnswersNext
  BY <1>2, RecordDecisionKeeps, AnswerRoundKeeps, ReviseAnswerKeeps, ReadDependentsKeeps,
     MarkDecisionsStaleKeeps, RecordAnswersKeeps, FollowUpKeeps, PlanParkKeeps, CrashKeeps DEF AnswersNext
<1> QED BY <1>1, <1>2

\* When the log holds a revised answer, no decision that rests on its question is
\* active, but for those recorded after reviseAnswer looked for dependents.
THEOREM RevisedIsStale == AnswersSpec => []RevisionsLeaveNoActiveDecision
<1>1. AnswersInv => RevisionsLeaveNoActiveDecision
  BY DEF AnswersInv, LogOK, StaleUpTo, RevisionsLeaveNoActiveDecision
<1> QED BY <1>1, AnswersStart, AnswersStep, PTL DEF AnswersSpec

-----------------------------------------------------------------------------
\* Follow-ups.  A question is not in trouble: then one call at most has still to write
\* for it, what is to be parked or resolved is so by the log's last answer, and a risk is
\* there or still to come for each answer marked tentative.

\* What an answer is followed by is written once, by the one call that recorded it.
ParkedItems == [number : QuestionNumbers \cup {NoQuestion}, open : BOOLEAN,
                question : Questions \cup {NoQuestion}]
FollowSteps == [write : {"park", "resolve", "risk"}, entry : Nat, question : Questions]
AnswersApart(answers) ==
  \A i, j \in DOMAIN answers : answers[i].question = answers[j].question => i = j
StepsApart(steps) ==
  \A i, j \in DOMAIN steps :
    steps[i].question = steps[j].question /\ (steps[i].write = "risk" <=> steps[j].write = "risk")
    => i = j
FollowingOf(call) ==
  /\ call.followUps \in Seq(FollowSteps) /\ StepsApart(call.followUps)
  /\ call.followUps # << >> <=> call.at = "following"
  /\ call.at \in {"reading", "marking", "recording"} => AnswersApart(call.answers)
Recorded(n, q) == n \in DOMAIN answerLog /\ answerLog[n].question = q
FollowTypes ==
  /\ parkedItems \in Seq(ParkedItems) /\ riskItems \in Seq(Nat) /\ troubled \in SUBSET Questions
  /\ \A k \in DOMAIN riskItems : riskItems[k] \in DOMAIN answerLog
  /\ \A c \in AnswerCallers :
       /\ FollowingOf(answerCalls[c])
       /\ \A i \in DOMAIN answerCalls[c].followUps :
            Recorded(answerCalls[c].followUps[i].entry, answerCalls[c].followUps[i].question)

Due(c, w, n, q) ==
  \E i \in DOMAIN answerCalls[c].followUps : answerCalls[c].followUps[i] = Step(w, n, q)
StaysOpen(q) == WasParked(answerLog, q) /\ q \notin namesakeResolved
RiskOnce(n) ==
  \E k \in DOMAIN riskItems : riskItems[k] = n /\ \A j \in DOMAIN riskItems : riskItems[j] = n => j = k
NoRisk(n) == \A k \in DOMAIN riskItems : riskItems[k] # n

OneFollows(q) ==
  \A c, d \in AnswerCallers : \A i \in DOMAIN answerCalls[c].followUps,
                                 j \in DOMAIN answerCalls[d].followUps :
    answerCalls[c].followUps[i].question = q /\ answerCalls[d].followUps[j].question = q => c = d
ParkingFollows(q) ==
  /\ \A c \in AnswerCallers, n \in DOMAIN answerLog :
       /\ Due(c, "park", n, q) => WasParked(answerLog, q)
       /\ Due(c, "resolve", n, q) => ~WasParked(answerLog, q)
  /\ (\A c \in AnswerCallers, n \in DOMAIN answerLog : ~Due(c, "park", n, q) /\ ~Due(c, "resolve", n, q))
     => (IsOpen(q) <=> StaysOpen(q))
RisksFollow(q) ==
  \A n \in DOMAIN answerLog : answerLog[n].question = q =>
    IF \E c \in AnswerCallers : Due(c, "risk", n, q)
    THEN answerLog[n].modifier = "tentative" /\ NoRisk(n)
    ELSE IF answerLog[n].modifier = "tentative" THEN RiskOnce(n) ELSE NoRisk(n)
FollowUpsInv ==
  /\ FollowTypes
  /\ \A q \in Questions \ troubled : OneFollows(q) /\ ParkingFollows(q) /\ RisksFollow(q)

-----------------------------------------------------------------------------
\* The log's last answer of a question.
LEMMA LatestInIs ==
  ASSUME NEW log \in Seq(Entries), NEW q
  PROVE  \/ LatestIn(log, q) = 0 /\ \A i \in DOMAIN log : log[i].question # q
         \/ /\ LatestIn(log, q) \in DOMAIN log /\ LatestIn(log, q) # 0
            /\ log[LatestIn(log, q)].question = q
            /\ \A i \in DOMAIN log : log[i].question = q => i <= LatestIn(log, q)
<1> DEFINE I == {i \in 1..Len(log) : log[i].question = q}
<1>1. Len(log) \in Nat /\ DOMAIN log = 1..Len(log)
  BY LenProperties
<1>2. LatestIn(log, q) = IF I # {} THEN Max(I) ELSE 0
  BY DEF LatestIn, SelectLastInSeq
<1>3. CASE I = {}
  BY <1>1, <1>2, <1>3
<1>4. CASE I # {}
  <2>1. I \subseteq Nat /\ \A n \in I : n <= Len(log)
    BY <1>1
  <2> HIDE DEF I
  <2>2. PICK m \in I : \A n \in I : n <= m
    BY <1>1, <1>4, <2>1, BoundedHasGreatest
  <2>3. Max(I) \in I /\ \A n \in I : Max(I) >= n
    <3>1. \A n \in I : m >= n
      BY <2>1, <2>2
    <3> QED BY <2>2, <3>1 DEF Max
  <2>4. LatestIn(log, q) \in I /\ \A n \in I : n <= LatestIn(log, q)
    <3>1. LatestIn(log, q) = Max(I)
      BY <1>2, <1>4
    <3>2. \A n \in I : n <= Max(I)
      BY <2>1, <2>3
    <3> QED BY <2>3, <3>1, <3>2
  <2> QED BY <1>1, <2>4 DEF I
<1> QED BY <1>3, <1>4

LEMMA WasParkedIs ==
  ASSUME NEW log \in Seq(Entries), NEW q
  PROVE  /\ (\A i \in DOMAIN log : log[i].question # q) => ~WasParked(log, q)
         /\ \A n \in DOMAIN log :
              log[n].question = q /\ (\A i \in DOMAIN log : log[i].question = q => i <= n) =>
                (WasParked(log, q) <=> log[n].modifier = "parked")
<1> DEFINE m == LatestIn(log, q)
<1>1. \/ m = 0 /\ \A i \in DOMAIN log : log[i].question # q
      \/ /\ m \in DOMAIN log /\ m # 0 /\ log[m].question = q
         /\ \A i \in DOMAIN log : log[i].question = q => i <= m
  BY LatestInIs
<1>2. WasParked(log, q) <=> m # 0 /\ log[m].modifier = "parked"
  BY DEF WasParked
<1>3. DOMAIN log \subseteq Nat
  BY LenProperties
<1> HIDE DEF m
<1>4. ASSUME \A i \in DOMAIN log : log[i].question # q PROVE ~WasParked(log, q)
  BY <1>1, <1>2, <1>4
<1>5. ASSUME NEW n \in DOMAIN log, log[n].question = q, \A i \in DOMAIN log : log[i].question = q => i <= n
      PROVE  WasParked(log, q) <=> log[n].modifier = "parked"
  <2>1. m \in DOMAIN log /\ m # 0 /\ log[m].question = q /\ n <= m
    BY <1>1, <1>5
  <2>2. m <= n
    BY <1>5, <2>1
  <2>3. m = n
    BY <1>3, <2>1, <2>2
  <2> QED BY <1>2, <2>1, <2>3
<1> QED BY <1>4, <1>5

-----------------------------------------------------------------------------
\* Steps that record nothing and follow nothing up, and open and resolve no item an
\* answer parked: what a call has still to do stays,
\* or is dropped, and its questions are in trouble.
LEMMA QuietFollows ==
  ASSUME FollowUpsInv, UNCHANGED <<answerLog, riskItems, namesakeResolved>>,
         parkedItems' \in Seq(ParkedItems), \A q \in Questions : IsOpen(q)' <=> IsOpen(q),
         troubled \subseteq troubled', troubled' \subseteq Questions,
         \A c \in AnswerCallers :
           /\ FollowingOf(answerCalls'[c])
           /\ \/ answerCalls'[c].followUps = answerCalls[c].followUps
              \/ /\ answerCalls'[c].followUps = << >>
                 /\ \A i \in DOMAIN answerCalls[c].followUps :
                      answerCalls[c].followUps[i].question \in troubled'
  PROVE  FollowUpsInv'
<1>0. DOMAIN << >> = {}
  OBVIOUS
<1>1. FollowTypes'
  <2>1. ASSUME NEW c \in AnswerCallers, NEW i \in DOMAIN answerCalls'[c].followUps
        PROVE  Recorded(answerCalls[c].followUps[i].entry, answerCalls[c].followUps[i].question)'
    <3>1. answerCalls'[c].followUps = answerCalls[c].followUps
      BY <1>0, <2>1
    <3>2. i \in DOMAIN answerCalls[c].followUps
      BY <3>1
    <3>3. Recorded(answerCalls[c].followUps[i].entry, answerCalls[c].followUps[i].question)
      BY <3>2 DEF FollowUpsInv, FollowTypes
    <3> QED BY <3>1, <3>3 DEF Recorded
  <2> QED BY <2>1 DEF FollowUpsInv, FollowTypes
<1>2. ASSUME NEW q \in Questions \ troubled'
      PROVE  OneFollows(q)' /\ ParkingFollows(q)' /\ RisksFollow(q)'
  <2>1. q \in Questions \ troubled
    OBVIOUS
  <2>2. OneFollows(q) /\ ParkingFollows(q) /\ RisksFollow(q)
    BY <2>1 DEF FollowUpsInv
  <2>3. ASSUME NEW c \in AnswerCallers, NEW w, NEW n PROVE Due(c, w, n, q)' <=> Due(c, w, n, q)
    <3>1. ASSUME answerCalls'[c].followUps # answerCalls[c].followUps, Due(c, w, n, q) PROVE FALSE
      <4>1. PICK i \in DOMAIN answerCalls[c].followUps : answerCalls[c].followUps[i] = Step(w, n, q)
        BY <3>1 DEF Due
      <4>2. answerCalls[c].followUps[i].question = q
        BY <4>1 DEF Step
      <4> QED BY <3>1, <4>2
    <3>2. ASSUME answerCalls'[c].followUps # answerCalls[c].followUps, Due(c, w, n, q)' PROVE FALSE
      <4>1. answerCalls'[c].followUps = << >>
        BY <3>2
      <4> QED BY <1>0, <3>2, <4>1 DEF Due
    <3> QED BY <3>1, <3>2 DEF Due
  <2>4. OneFollows(q)'
    <3> SUFFICES ASSUME NEW c \in AnswerCallers, NEW d \in AnswerCallers,
                        NEW i \in DOMAIN answerCalls'[c].followUps,
                        NEW j \in DOMAIN answerCalls'[d].followUps,
                        answerCalls'[c].followUps[i].question = q,
                        answerCalls'[d].followUps[j].question = q
                 PROVE  c = d
      BY DEF OneFollows
    <3>1. answerCalls'[c].followUps = answerCalls[c].followUps
      BY <1>0
    <3>2. answerCalls'[d].followUps = answerCalls[d].followUps
      BY <1>0
    <3>3. /\ i \in DOMAIN answerCalls[c].followUps /\ answerCalls[c].followUps[i].question = q
          /\ j \in DOMAIN answerCalls[d].followUps /\ answerCalls[d].followUps[j].question = q
      BY <3>1, <3>2
    <3> QED BY <2>2, <3>3 DEF OneFollows
  <2>5. ParkingFollows(q)'
    <3>1. IsOpen(q)' <=> IsOpen(q)
      BY <2>1
    <3> QED BY <2>2, <2>3, <3>1 DEF ParkingFollows, StaysOpen
  <2>6. RisksFollow(q)'
    BY <2>2, <2>3 DEF RisksFollow, NoRisk, RiskOnce
  <2> QED BY <2>4, <2>5, <2>6
<1> QED BY <1>1, <1>2 DEF FollowUpsInv

LEMMA NoCallFollows == FollowingOf(NoCall) /\ NoCall.followUps = << >>
<1>1. << >> \in Seq(FollowSteps) /\ DOMAIN << >> = {}
  OBVIOUS
<1> QED BY <1>1 DEF FollowingOf, NoCall, StepsApart

LEMMA AnswerCallsFollow ==
  ASSUME AnswersInv, FollowUpsInv, NEW c \in AnswerCallers,
         \/ \E session \in Sessions, modifier \in RoundAnswers : AnswerRound(c, session, modifier)
         \/ \E q \in Questions, modifier \in Modifiers : ReviseAnswer(c, q, modifier)
         \/ ReadDependents(c) \/ MarkDecisionsStale(c)
  PROVE  FollowUpsInv'
<1>1. UNCHANGED <<answerLog, parkedItems, riskItems, troubled, namesakeResolved>>
  BY DEF AnswerRound, ReviseAnswer, ReadDependents, MarkDecisionsStale
<1>2. answerCalls = [d \in AnswerCallers |-> answerCalls[d]] /\ troubled \in SUBSET Questions
      /\ CallOK(answerCalls[c], restingOn, answerCounts.decisions) /\ FollowingOf(answerCalls[c])
  BY DEF AnswersInv, CallsOK, FollowUpsInv, FollowTypes
<1>3. /\ \A d \in AnswerCallers : d # c => answerCalls'[d] = answerCalls[d]
      /\ FollowingOf(answerCalls'[c]) /\ answerCalls'[c].followUps = answerCalls[c].followUps
  <2>1. CASE \E session \in Sessions, modifier \in RoundAnswers : AnswerRound(c, session, modifier)
    <3>1. PICK session \in Sessions, modifier \in RoundAnswers : AnswerRound(c, session, modifier)
      BY <2>1
    <3> DEFINE order == SetToSeq(QuestionsOf(session))
               answers == [k \in DOMAIN order |-> [question |-> order[k], modifier |-> modifier[order[k]]]]
    <3>2. AnswersApart(answers)
      BY QuestionsInOrder DEF AnswersApart
    <3>3. answerCalls' = [answerCalls EXCEPT ![c] = [NoCall EXCEPT !.at = "recording", !.session = session,
                                                                   !.answers = answers]]
          /\ answerCalls[c] = NoCall
      BY <3>1 DEF AnswerRound, Free
    <3> HIDE DEF answers
    <3>4. answerCalls'[c] = [NoCall EXCEPT !.at = "recording", !.session = session,
                                                                   !.answers = answers]
          /\ \A d \in AnswerCallers : d # c => answerCalls'[d] = answerCalls[d]
      BY <1>2, <3>3
    <3>5. /\ answerCalls'[c].followUps = NoCall.followUps /\ answerCalls'[c].answers = answers
          /\ answerCalls'[c].at = "recording"
      BY <3>4 DEF NoCall
    <3>6. FollowingOf(answerCalls'[c])
      BY <3>2, <3>5, NoCallFollows DEF FollowingOf
    <3> QED BY <3>3, <3>4, <3>5, <3>6
  <2>2. CASE \E q \in Questions, modifier \in Modifiers : ReviseAnswer(c, q, modifier)
    <3>1. PICK q \in Questions, modifier \in Modifiers : ReviseAnswer(c, q, modifier)
      BY <2>2
    <3> DEFINE answers == <<[question |-> q, modifier |-> modifier]>>
    <3>2. AnswersApart(answers)
      BY DEF AnswersApart
    <3>3. answerCalls' = [answerCalls EXCEPT
             ![c] = [NoCall EXCEPT !.at = "reading", !.session = SessionOf[q], !.revises = TRUE,
                                       !.answers = answers]]
          /\ answerCalls[c] = NoCall
      BY <3>1 DEF ReviseAnswer, Free
    <3> HIDE DEF answers
    <3>4. answerCalls'[c] = [NoCall EXCEPT !.at = "reading", !.session = SessionOf[q], !.revises = TRUE,
                                       !.answers = answers]
          /\ \A d \in AnswerCallers : d # c => answerCalls'[d] = answerCalls[d]
      BY <1>2, <3>3
    <3>5. /\ answerCalls'[c].followUps = NoCall.followUps /\ answerCalls'[c].answers = answers
          /\ answerCalls'[c].at = "reading"
      BY <3>4 DEF NoCall
    <3>6. FollowingOf(answerCalls'[c])
      BY <3>2, <3>5, NoCallFollows DEF FollowingOf
    <3> QED BY <3>3, <3>4, <3>5, <3>6
  <2>3. CASE ReadDependents(c)
    <3>1. /\ \A d \in AnswerCallers : d # c => answerCalls'[d] = answerCalls[d]
          /\ answerCalls'[c].at = "marking" /\ answerCalls'[c].answers = answerCalls[c].answers
          /\ answerCalls'[c].followUps = answerCalls[c].followUps
          /\ answerCalls[c].at = "reading"
      BY <1>2, <2>3 DEF ReadDependents, CallOK
    <3> QED BY <1>2, <3>1 DEF FollowingOf
  <2>4. CASE MarkDecisionsStale(c)
    <3>1. /\ \A d \in AnswerCallers : d # c => answerCalls'[d] = answerCalls[d]
          /\ answerCalls'[c].at = "recording" /\ answerCalls'[c].answers = answerCalls[c].answers
          /\ answerCalls'[c].followUps = answerCalls[c].followUps
          /\ answerCalls[c].at = "marking"
      BY <1>2, <2>4 DEF MarkDecisionsStale, CallOK
    <3> QED BY <1>2, <3>1 DEF FollowingOf
  <2> QED BY <2>1, <2>2, <2>3, <2>4
<1>4. \A d \in AnswerCallers : FollowingOf(answerCalls'[d]) /\ answerCalls'[d].followUps = answerCalls[d].followUps
  BY <1>3 DEF FollowUpsInv, FollowTypes
<1>5. parkedItems' \in Seq(ParkedItems) /\ \A q \in Questions : IsOpen(q)' <=> IsOpen(q)
  BY <1>1 DEF FollowUpsInv, FollowTypes, IsOpen
<1> QED BY <1>1, <1>2, <1>4, <1>5, QuietFollows

\* A call that throws, or dies with the server, puts what it had still to do in trouble.
LEMMA AwaitedAre ==
  ASSUME NEW call, call.followUps \in Seq(FollowSteps)
  PROVE  /\ Awaited(call) \subseteq Questions
         /\ \A i \in DOMAIN call.followUps : call.followUps[i].question \in Awaited(call)
<1>1. ToSet(call.followUps) = {call.followUps[i] : i \in DOMAIN call.followUps}
  BY DEF ToSet
<1>2. \A i \in DOMAIN call.followUps : call.followUps[i] \in FollowSteps
  BY LenProperties, ElementOfSeq
<1>3. \A step \in FollowSteps : step.question \in Questions
  BY DEF FollowSteps
<1> QED BY <1>1, <1>2, <1>3 DEF Awaited

LEMMA FaultsFollow ==
  ASSUME AnswersInv, FollowUpsInv,
         (\E c \in AnswerCallers : AnswerCallThrows(c)) \/ AnswersCrash
  PROVE  FollowUpsInv'
<1>1. UNCHANGED <<answerLog, parkedItems, riskItems, namesakeResolved>> /\ troubled \in SUBSET Questions
  BY DEF AnswerCallThrows, AnswersCrash, FollowUpsInv, FollowTypes
<1>0. parkedItems' \in Seq(ParkedItems) /\ \A q \in Questions : IsOpen(q)' <=> IsOpen(q)
  BY <1>1 DEF FollowUpsInv, FollowTypes, IsOpen
<1>2. answerCalls = [d \in AnswerCallers |-> answerCalls[d]]
      /\ \A d \in AnswerCallers : FollowingOf(answerCalls[d]) /\ answerCalls[d].followUps \in Seq(FollowSteps)
  BY DEF AnswersInv, CallsOK, FollowUpsInv, FollowTypes, FollowingOf
<1>3. CASE \E c \in AnswerCallers : AnswerCallThrows(c)
  <2>1. PICK c \in AnswerCallers : AnswerCallThrows(c)
    BY <1>3
  <2>2. answerCalls' = [answerCalls EXCEPT ![c] = NoCall] /\ troubled' = troubled \cup Awaited(answerCalls[c])
    BY <2>1 DEF AnswerCallThrows, WithCall
  <2>3. \A d \in AnswerCallers : answerCalls'[d] = IF d = c THEN NoCall ELSE answerCalls[d]
    BY <1>2, <2>2
  <2>4. /\ Awaited(answerCalls[c]) \subseteq Questions
        /\ \A i \in DOMAIN answerCalls[c].followUps : answerCalls[c].followUps[i].question \in Awaited(answerCalls[c])
    BY <1>2, AwaitedAre
  <2>5. \A d \in AnswerCallers :
          /\ FollowingOf(answerCalls'[d])
          /\ \/ answerCalls'[d].followUps = answerCalls[d].followUps
             \/ /\ answerCalls'[d].followUps = << >>
                /\ \A i \in DOMAIN answerCalls[d].followUps : answerCalls[d].followUps[i].question \in troubled'
    BY <1>2, <2>2, <2>3, <2>4, NoCallFollows
  <2> QED BY <1>0, <1>1, <2>2, <2>4, <2>5, QuietFollows
<1>4. CASE AnswersCrash
  <2>2. /\ answerCalls' = [d \in AnswerCallers |-> NoCall]
        /\ troubled' = troubled \cup UNION {Awaited(answerCalls[d]) : d \in AnswerCallers}
    BY <1>4 DEF AnswersCrash
  <2>4. ASSUME NEW d \in AnswerCallers
        PROVE  /\ Awaited(answerCalls[d]) \subseteq Questions
               /\ \A i \in DOMAIN answerCalls[d].followUps :
                    answerCalls[d].followUps[i].question \in Awaited(answerCalls[d])
    BY <1>2, AwaitedAre
  <2>5. \A d \in AnswerCallers :
          /\ FollowingOf(answerCalls'[d]) /\ answerCalls'[d].followUps = << >>
          /\ \A i \in DOMAIN answerCalls[d].followUps : answerCalls[d].followUps[i].question \in troubled'
    BY <2>2, <2>4, NoCallFollows
  <2>6. troubled \subseteq troubled' /\ troubled' \subseteq Questions
    BY <1>1, <2>2, <2>4
  <2> QED BY <1>0, <1>1, <2>5, <2>6, QuietFollows
<1> QED BY <1>3, <1>4

-----------------------------------------------------------------------------
\* A call at its follow-ups does the first and is left with the others.
LEMMA TailFollows ==
  ASSUME NEW fu \in Seq(FollowSteps), fu # << >>, StepsApart(fu)
  PROVE  /\ Head(fu) \in FollowSteps /\ Tail(fu) \in Seq(FollowSteps) /\ StepsApart(Tail(fu))
         /\ \A i \in DOMAIN Tail(fu) : /\ i + 1 \in DOMAIN fu /\ Tail(fu)[i] = fu[i + 1]
                                       /\ i + 1 # 1
         /\ \A i \in DOMAIN fu : i # 1 => \E j \in DOMAIN Tail(fu) : Tail(fu)[j] = fu[i]
         /\ 1 \in DOMAIN fu /\ Head(fu) = fu[1]
<1>1. /\ Head(fu) \in FollowSteps /\ Tail(fu) \in Seq(FollowSteps) /\ Head(fu) = fu[1]
      /\ Len(fu) \in Nat /\ Len(fu) >= 1 /\ DOMAIN fu = 1..Len(fu)
      /\ Len(Tail(fu)) = Len(fu) - 1 /\ \A i \in 1..(Len(fu) - 1) : Tail(fu)[i] = fu[i + 1]
  BY EmptySeq, LenProperties, HeadTailProperties
<1>2. DOMAIN Tail(fu) = 1..(Len(fu) - 1)
  BY <1>1, LenProperties
<1>3. \A i \in DOMAIN Tail(fu) : i + 1 \in DOMAIN fu /\ Tail(fu)[i] = fu[i + 1] /\ i + 1 # 1
  BY <1>1, <1>2
<1>4. StepsApart(Tail(fu))
  <2> SUFFICES ASSUME NEW i \in DOMAIN Tail(fu), NEW j \in DOMAIN Tail(fu),
                      Tail(fu)[i].question = Tail(fu)[j].question,
                      Tail(fu)[i].write = "risk" <=> Tail(fu)[j].write = "risk"
               PROVE  i = j
    BY DEF StepsApart
  <2>1. i + 1 = j + 1
    BY <1>3 DEF StepsApart
  <2> QED BY <1>2, <2>1
<1>5. ASSUME NEW i \in DOMAIN fu, i # 1 PROVE \E j \in DOMAIN Tail(fu) : Tail(fu)[j] = fu[i]
  <2>1. i - 1 \in 1..(Len(fu) - 1) /\ (i - 1) + 1 = i
    BY <1>1, <1>5
  <2> QED BY <1>1, <1>2, <2>1
<1> QED BY <1>1, <1>3, <1>4, <1>5

LEMMA FollowingFollows ==
  ASSUME NEW call, NEW fu \in Seq(FollowSteps), StepsApart(fu)
  PROVE  Following(call, fu).followUps = fu /\ FollowingOf(Following(call, fu))
<1>1. CASE fu = << >>
  BY <1>1, NoCallFollows DEF Following
<1>2. CASE fu # << >>
  <2> DEFINE left == [NoCall EXCEPT !.at = "following", !.session = call.session,
                                  !.revises = call.revises, !.followUps = fu]
  <2>1. left.followUps = fu /\ left.at = "following"
    BY DEF NoCall
  <2>2. Following(call, fu) = left
    BY <1>2 DEF Following
  <2> HIDE DEF left
  <2> QED BY <1>2, <2>1, <2>2 DEF FollowingOf
<1> QED BY <1>1, <1>2

\* What one of them does to the two files.
Follows(h) ==
  /\ parkedItems' =
       CASE h.write = "park" -> Append(parkedItems, Parked(NumberOf[h.question], h.question))
         [] h.write = "resolve" -> ResolveParked(h.question)
         [] h.write = "risk" -> parkedItems
  /\ namesakeResolved' =
       CASE h.write = "park" -> namesakeResolved \ {h.question}
         [] h.write = "resolve" -> namesakeResolved \cup Namesakes(h.question)
         [] h.write = "risk" -> namesakeResolved
  /\ riskItems' = IF h.write = "risk" THEN Append(riskItems, h.entry) ELSE riskItems

\* One more item, of a question or of none.
LEMMA ParkingOpens ==
  ASSUME parkedItems \in Seq(ParkedItems), NEW number \in QuestionNumbers \cup {NoQuestion},
         NEW owner \in Questions \cup {NoQuestion},
         owner \in Questions => number = NumberOf[owner],
         parkedItems' = Append(parkedItems, Parked(number, owner))
  PROVE  /\ parkedItems' \in Seq(ParkedItems)
         /\ \A q \in Questions : IsOpen(q)' <=> q = owner \/ IsOpen(q)
<1> DEFINE item == Parked(number, owner)
<1>1. item \in ParkedItems
  BY DEF ParkedItems, Parked
<1>2. \A q \in Questions : Parked(NumberOf[q], q) = item <=> q = owner
  BY DEF Parked
<1>3. DOMAIN parkedItems = 1..Len(parkedItems) /\ Len(parkedItems) \in Nat
  BY LenProperties
<1> HIDE DEF item
<1>4. /\ parkedItems' \in Seq(ParkedItems) /\ DOMAIN parkedItems' = 1..(Len(parkedItems) + 1)
      /\ \A k \in 1..Len(parkedItems) : parkedItems'[k] = parkedItems[k]
      /\ parkedItems'[Len(parkedItems) + 1] = item
  <2>1. parkedItems' = Append(parkedItems, item)
    BY DEF item
  <2> QED BY <1>1, <2>1, AppendProperties, LenProperties
<1>5. ASSUME NEW q \in Questions PROVE IsOpen(q)' <=> q = owner \/ IsOpen(q)
  <2> DEFINE own == Parked(NumberOf[q], q)
  <2>0. /\ IsOpen(q) <=> \E k \in DOMAIN parkedItems : parkedItems[k] = own
        /\ IsOpen(q)' <=> \E k \in DOMAIN parkedItems' : parkedItems'[k] = own
        /\ own = item <=> q = owner
    BY <1>2 DEF IsOpen
  <2> HIDE DEF own
  <2>1. ASSUME NEW k \in DOMAIN parkedItems', parkedItems'[k] = own PROVE q = owner \/ IsOpen(q)
    <3>1. CASE k = Len(parkedItems) + 1
      BY <1>4, <2>0, <2>1, <3>1
    <3>2. CASE k # Len(parkedItems) + 1
      <4>1. k \in 1..Len(parkedItems)
        BY <1>3, <1>4, <3>2
      <4> QED BY <1>3, <1>4, <2>0, <2>1, <4>1
    <3> QED BY <3>1, <3>2
  <2>2. ASSUME q = owner PROVE IsOpen(q)'
    <3>1. Len(parkedItems) + 1 \in DOMAIN parkedItems'
      BY <1>3, <1>4
    <3> QED BY <1>4, <2>0, <2>2, <3>1
  <2>3. ASSUME IsOpen(q) PROVE IsOpen(q)'
    <3>1. PICK k \in DOMAIN parkedItems : parkedItems[k] = own
      BY <2>0, <2>3
    <3>2. k \in DOMAIN parkedItems' /\ parkedItems'[k] = parkedItems[k]
      BY <1>3, <1>4
    <3> QED BY <2>0, <3>1, <3>2
  <2> QED BY <2>0, <2>1, <2>2, <2>3
<1> QED BY <1>4, <1>5

LEMMA FilesFollow ==
  ASSUME parkedItems \in Seq(ParkedItems), NEW h \in FollowSteps, Follows(h)
  PROVE  /\ parkedItems' \in Seq(ParkedItems)
         /\ \A q \in Questions :
              IsOpen(q)' <=> IF h.question = q /\ h.write = "park" THEN TRUE
                             ELSE IF NumberOf[h.question] = NumberOf[q] /\ h.write = "resolve" THEN FALSE
                             ELSE IsOpen(q)
<1>0. /\ DOMAIN parkedItems = 1..Len(parkedItems) /\ Len(parkedItems) \in Nat
      /\ \A k \in DOMAIN parkedItems : parkedItems[k] \in ParkedItems
      /\ h.question \in Questions
  BY LenProperties, ElementOfSeq DEF FollowSteps
<1>1. CASE h.write = "park"
  <2>1. parkedItems' = Append(parkedItems, Parked(NumberOf[h.question], h.question))
    BY <1>1 DEF Follows
  <2>2. NumberOf[h.question] \in QuestionNumbers
    BY <1>0 DEF QuestionNumbers
  <2>3. /\ parkedItems' \in Seq(ParkedItems)
        /\ \A q \in Questions : IsOpen(q)' <=> q = h.question \/ IsOpen(q)
    BY <1>0, <2>1, <2>2, ParkingOpens
  <2> QED BY <1>1, <2>3
<1>2. CASE h.write = "resolve"
  <2> DEFINE kept == ResolveParked(h.question)
  <2>1. parkedItems' = kept
    BY <1>2 DEF Follows
  <2>2. ASSUME NEW k \in DOMAIN parkedItems
        PROVE  /\ kept[k] \in ParkedItems
               /\ \A q \in Questions :
                    kept[k] = Parked(NumberOf[q], q) <=>
                      NumberOf[q] # NumberOf[h.question] /\ parkedItems[k] = Parked(NumberOf[q], q)
    <3>1. parkedItems[k] \in ParkedItems
      BY <1>0
    <3>0. \A q \in Questions : /\ Parked(NumberOf[q], q).open = TRUE
                                /\ Parked(NumberOf[q], q).number = NumberOf[q]
      BY DEF Parked
    <3>2. CASE parkedItems[k].number = NumberOf[h.question]
      <4>1. kept[k] = [parkedItems[k] EXCEPT !.open = FALSE]
        BY <3>2 DEF ResolveParked
      <4>2. kept[k] \in ParkedItems /\ kept[k].open = FALSE
        BY <3>1, <4>1 DEF ParkedItems
      <4> HIDE DEF kept
      <4> QED BY <3>0, <3>2, <4>2
    <3>3. CASE parkedItems[k].number # NumberOf[h.question]
      <4>1. kept[k] = parkedItems[k]
        BY <3>3 DEF ResolveParked
      <4> HIDE DEF kept
      <4> QED BY <3>0, <3>1, <3>3, <4>1
    <3> QED BY <3>2, <3>3
  <2>3. kept \in [1..Len(parkedItems) -> ParkedItems] /\ DOMAIN kept = DOMAIN parkedItems
    BY <1>0, <2>2 DEF ResolveParked
  <2> HIDE DEF kept
  <2>4. kept \in Seq(ParkedItems)
    BY <1>0, <2>3, FunctionIsSeq
  <2>5. ASSUME NEW q \in Questions
        PROVE  IsOpen(q)' <=> NumberOf[q] # NumberOf[h.question] /\ IsOpen(q)
    BY <2>1, <2>2, <2>3 DEF IsOpen
  <2> QED BY <1>2, <2>1, <2>4, <2>5
<1>3. CASE h.write = "risk"
  BY <1>3 DEF Follows, IsOpen
<1>4. h.write \in {"park", "resolve", "risk"}
  BY DEF FollowSteps
<1> QED BY <1>1, <1>2, <1>3, <1>4

LEMMA RiskItemsFollow ==
  ASSUME riskItems \in Seq(Nat), NEW h \in FollowSteps, Follows(h)
  PROVE  /\ riskItems' \in Seq(Nat)
         /\ \A k \in DOMAIN riskItems' : \/ k \in DOMAIN riskItems /\ riskItems'[k] = riskItems[k]
                                         \/ riskItems'[k] = h.entry
         /\ \A n : IF h.write = "risk" /\ h.entry = n THEN NoRisk(n) => RiskOnce(n)'
                   ELSE (NoRisk(n)' <=> NoRisk(n)) /\ (RiskOnce(n)' <=> RiskOnce(n))
<1>1. CASE h.write # "risk"
  BY <1>1 DEF Follows, NoRisk, RiskOnce
<1>2. CASE h.write = "risk"
  <2>0. DOMAIN riskItems = 1..Len(riskItems) /\ Len(riskItems) \in Nat /\ h.entry \in Nat
    BY LenProperties DEF FollowSteps
  <2>1. /\ riskItems' \in Seq(Nat) /\ DOMAIN riskItems' = 1..(Len(riskItems) + 1)
        /\ \A k \in 1..Len(riskItems) : riskItems'[k] = riskItems[k]
        /\ riskItems'[Len(riskItems) + 1] = h.entry
    BY <1>2, <2>0, AppendProperties, LenProperties DEF Follows
  <2>2. \A k \in DOMAIN riskItems' : k \in DOMAIN riskItems \/ k = Len(riskItems) + 1
    BY <2>0, <2>1
  <2>3. DOMAIN riskItems \subseteq DOMAIN riskItems' /\ Len(riskItems) + 1 \in DOMAIN riskItems'
        /\ Len(riskItems) + 1 \notin DOMAIN riskItems
    BY <2>0, <2>1
  <2>4. ASSUME NEW n, h.entry = n, NoRisk(n) PROVE RiskOnce(n)'
    <3>1. \A k \in DOMAIN riskItems' : riskItems'[k] = n => k = Len(riskItems) + 1
      BY <2>0, <2>1, <2>2, <2>4 DEF NoRisk
    <3> QED BY <2>1, <2>3, <2>4, <3>1 DEF RiskOnce
  <2>5. ASSUME NEW n, h.entry # n PROVE (NoRisk(n)' <=> NoRisk(n)) /\ (RiskOnce(n)' <=> RiskOnce(n))
    <3>1. \A k \in DOMAIN riskItems' : riskItems'[k] = n <=> k \in DOMAIN riskItems /\ riskItems[k] = n
      BY <2>0, <2>1, <2>2, <2>3, <2>5
    <3> QED BY <2>3, <3>1 DEF NoRisk, RiskOnce
  <2> QED BY <1>2, <2>0, <2>1, <2>2, <2>4, <2>5
<1> QED BY <1>1, <1>2

LEMMA FollowUpFollows ==
  ASSUME AnswersInv, FollowUpsInv, NEW c \in AnswerCallers, FollowUp(c)
  PROVE  FollowUpsInv'
<1> DEFINE fu == answerCalls[c].followUps
           h == Head(fu)
<1>1. /\ answerCalls = [d \in AnswerCallers |-> answerCalls[d]]
      /\ parkedItems \in Seq(ParkedItems) /\ riskItems \in Seq(Nat)
      /\ answerCalls[c].at = "following" /\ UNCHANGED <<answerLog, troubled>>
  BY DEF AnswersInv, CallsOK, FollowUpsInv, FollowTypes, FollowUp
<1>2. fu \in Seq(FollowSteps) /\ fu # << >> /\ StepsApart(fu)
  BY <1>1 DEF FollowUpsInv, FollowTypes, FollowingOf
<1>3. /\ h \in FollowSteps /\ Tail(fu) \in Seq(FollowSteps) /\ StepsApart(Tail(fu))
      /\ \A i \in DOMAIN Tail(fu) : i + 1 \in DOMAIN fu /\ Tail(fu)[i] = fu[i + 1] /\ i + 1 # 1
      /\ \A i \in DOMAIN fu : i # 1 => \E j \in DOMAIN Tail(fu) : Tail(fu)[j] = fu[i]
      /\ 1 \in DOMAIN fu /\ h = fu[1]
  BY <1>2, TailFollows
<1>4. Follows(h)
  BY DEF FollowUp, Follows
<1>5. answerCalls' = [answerCalls EXCEPT ![c] = Following(answerCalls[c], Tail(fu))]
  BY DEF FollowUp, WithCall
<1>6. /\ answerCalls'[c].followUps = Tail(fu) /\ FollowingOf(answerCalls'[c])
      /\ \A d \in AnswerCallers : d # c => answerCalls'[d] = answerCalls[d]
  <2>1. answerCalls'[c] = Following(answerCalls[c], Tail(fu))
        /\ \A d \in AnswerCallers : d # c => answerCalls'[d] = answerCalls[d]
    BY <1>1, <1>5
  <2>2. Following(answerCalls[c], Tail(fu)).followUps = Tail(fu)
        /\ FollowingOf(Following(answerCalls[c], Tail(fu)))
    BY <1>3, FollowingFollows
  <2> QED BY <2>1, <2>2
<1>7. Recorded(h.entry, h.question) /\ h.question \in Questions /\ h.entry \in Nat
      /\ h.write \in {"park", "resolve", "risk"} /\ h = Step(h.write, h.entry, h.question)
  <2>1. Recorded(h.entry, h.question)
    BY <1>3 DEF FollowUpsInv, FollowTypes
  <2> QED BY <1>3, <2>1 DEF FollowSteps, Step
<1> HIDE DEF h
<1>8. ASSUME NEW d \in AnswerCallers, NEW i \in DOMAIN answerCalls'[d].followUps
      PROVE  \E j \in DOMAIN answerCalls[d].followUps :
               answerCalls[d].followUps[j] = answerCalls'[d].followUps[i] /\ (d = c => j # 1)
  <2>1. CASE d = c
    <3>1. i \in DOMAIN Tail(fu) /\ answerCalls'[d].followUps[i] = Tail(fu)[i]
      BY <1>6, <1>8, <2>1
    <3>2. i + 1 \in DOMAIN fu /\ Tail(fu)[i] = fu[i + 1] /\ i + 1 # 1
      BY <1>3, <3>1
    <3> QED BY <2>1, <3>1, <3>2
  <2>2. CASE d # c
    BY <1>6, <1>8, <2>2
  <2> QED BY <2>1, <2>2
<1>9. FollowTypes'
  <2>1. parkedItems' \in Seq(ParkedItems)
    BY <1>1, <1>3, <1>4, FilesFollow
  <2>2. riskItems' \in Seq(Nat) /\ \A k \in DOMAIN riskItems' : riskItems'[k] \in DOMAIN answerLog'
    BY <1>1, <1>3, <1>4, <1>7, RiskItemsFollow DEF FollowUpsInv, FollowTypes, Recorded
  <2>3. ASSUME NEW d \in AnswerCallers, NEW i \in DOMAIN answerCalls'[d].followUps
        PROVE  Recorded(answerCalls[d].followUps[i].entry, answerCalls[d].followUps[i].question)'
    <3>1. PICK j \in DOMAIN answerCalls[d].followUps : answerCalls[d].followUps[j] = answerCalls'[d].followUps[i]
      BY <1>8
    <3>2. Recorded(answerCalls[d].followUps[j].entry, answerCalls[d].followUps[j].question)
      BY DEF FollowUpsInv, FollowTypes
    <3> QED BY <1>1, <3>1, <3>2 DEF Recorded
  <2>4. \A d \in AnswerCallers : FollowingOf(answerCalls'[d])
    BY <1>6 DEF FollowUpsInv, FollowTypes
  <2> QED BY <1>1, <2>1, <2>2, <2>3, <2>4 DEF FollowUpsInv, FollowTypes
<1>10. ASSUME NEW d \in AnswerCallers, NEW w, NEW n, NEW q
       PROVE  Due(d, w, n, q)' <=> Due(d, w, n, q) /\ ~(d = c /\ Step(w, n, q) = h)
  <2>1. ASSUME d # c PROVE Due(d, w, n, q)' <=> Due(d, w, n, q)
    BY <1>6, <2>1 DEF Due
  <2>2. ASSUME d = c, Due(d, w, n, q)' PROVE Due(d, w, n, q) /\ Step(w, n, q) # h
    <3>1. PICK i \in DOMAIN Tail(fu) : Tail(fu)[i] = Step(w, n, q)
      BY <1>6, <2>2 DEF Due
    <3>2. i + 1 \in DOMAIN fu /\ fu[i + 1] = Step(w, n, q) /\ i + 1 # 1
      BY <1>3, <3>1
    <3>3. Step(w, n, q) # h
      <4> SUFFICES ASSUME fu[i + 1] = fu[1] PROVE FALSE
        BY <1>3, <3>2
      <4>1. i + 1 \in DOMAIN fu /\ 1 \in DOMAIN fu
        BY <1>3, <3>2
      <4>2. i + 1 = 1
        BY <1>2, <4>1 DEF StepsApart
      <4> QED BY <3>2, <4>2
    <3> QED BY <2>2, <3>2, <3>3 DEF Due
  <2>3. ASSUME d = c, Due(d, w, n, q), Step(w, n, q) # h PROVE Due(d, w, n, q)'
    <3>1. PICK i \in DOMAIN fu : fu[i] = Step(w, n, q)
      BY <2>3 DEF Due
    <3>2. i # 1
      BY <1>3, <2>3, <3>1
    <3>3. \E j \in DOMAIN Tail(fu) : Tail(fu)[j] = Step(w, n, q)
      BY <1>3, <3>1, <3>2
    <3> QED BY <1>6, <2>3, <3>3 DEF Due
  <2> QED BY <2>1, <2>2, <2>3
<1>11. ASSUME NEW q \in Questions \ troubled'
       PROVE  OneFollows(q)' /\ ParkingFollows(q)' /\ RisksFollow(q)'
  <2>1. OneFollows(q) /\ ParkingFollows(q) /\ RisksFollow(q)
    BY <1>1 DEF FollowUpsInv
  <2>2. OneFollows(q)'
    <3> SUFFICES ASSUME NEW d \in AnswerCallers, NEW e \in AnswerCallers,
                        NEW i \in DOMAIN answerCalls'[d].followUps,
                        NEW j \in DOMAIN answerCalls'[e].followUps,
                        answerCalls'[d].followUps[i].question = q,
                        answerCalls'[e].followUps[j].question = q
                 PROVE  d = e
      BY DEF OneFollows
    <3>1. PICK k \in DOMAIN answerCalls[d].followUps : answerCalls[d].followUps[k].question = q
      BY <1>8
    <3>2. PICK l \in DOMAIN answerCalls[e].followUps : answerCalls[e].followUps[l].question = q
      BY <1>8
    <3> QED BY <2>1, <3>1, <3>2 DEF OneFollows
  <2>3. /\ IsOpen(q)' <=> IF h.question = q /\ h.write = "park" THEN TRUE
                          ELSE IF NumberOf[h.question] = NumberOf[q] /\ h.write = "resolve" THEN FALSE
                          ELSE IsOpen(q)
        /\ WasParked(answerLog, q)' <=> WasParked(answerLog, q)
    BY <1>1, <1>3, <1>4, FilesFollow
  <2>7. q \in namesakeResolved' <=>
          IF h.question = q /\ h.write = "park" THEN FALSE
          ELSE IF h.question # q /\ NumberOf[h.question] = NumberOf[q] /\ h.write = "resolve" THEN TRUE
          ELSE q \in namesakeResolved
    BY <1>4, <1>7 DEF Follows, Namesakes
  \* The other steps the head's question still has are of its own call, and of the other kind.
  <2>4. ASSUME NEW d \in AnswerCallers, NEW w \in {"park", "resolve", "risk"}, NEW n, Due(d, w, n, q)',
               h.question = q
        PROVE  d = c /\ ~(w = "risk" <=> h.write = "risk")
    <3>1. Due(d, w, n, q) /\ ~(d = c /\ Step(w, n, q) = h)
      BY <1>10, <2>4
    <3>2. PICK i \in DOMAIN answerCalls[d].followUps : answerCalls[d].followUps[i] = Step(w, n, q)
      BY <3>1 DEF Due
    <3>3. Step(w, n, q).question = q /\ Step(w, n, q).write = w
      BY DEF Step
    <3>4. d = c
      BY <1>3, <2>1, <2>4, <3>2, <3>3 DEF OneFollows
    <3>5. i # 1
      BY <1>3, <3>1, <3>2, <3>4
    <3> QED BY <1>2, <1>3, <2>4, <3>2, <3>3, <3>4, <3>5 DEF StepsApart
  <2>5. ParkingFollows(q)'
    <3>1. CASE h.question = q /\ h.write # "risk"
      <4>1. \A d \in AnswerCallers, n \in DOMAIN answerLog' : ~Due(d, "park", n, q)' /\ ~Due(d, "resolve", n, q)'
        BY <2>4, <3>1
      <4>2. Due(c, h.write, h.entry, q) /\ h.entry \in DOMAIN answerLog
        BY <1>3, <1>7, <3>1 DEF Due, Recorded
      <4>3. h.write = "park" => WasParked(answerLog, q)
        BY <2>1, <4>2 DEF ParkingFollows
      <4>4. h.write = "resolve" => ~WasParked(answerLog, q)
        BY <2>1, <4>2 DEF ParkingFollows
      <4>5. IsOpen(q)' <=> StaysOpen(q)'
        BY <1>7, <2>3, <2>7, <3>1, <4>3, <4>4 DEF StaysOpen
      <4> QED BY <4>1, <4>5 DEF ParkingFollows
    <3>2. CASE ~(h.question = q /\ h.write # "risk")
      <4>1. ASSUME NEW d \in AnswerCallers, NEW n
            PROVE  /\ Due(d, "park", n, q)' <=> Due(d, "park", n, q)
                   /\ Due(d, "resolve", n, q)' <=> Due(d, "resolve", n, q)
        <5>1. Step("park", n, q) # h /\ Step("resolve", n, q) # h
          BY <3>2 DEF Step
        <5> QED BY <1>10, <5>1
      <4>2. (IsOpen(q) <=> StaysOpen(q)) => (IsOpen(q)' <=> StaysOpen(q)')
        BY <2>3, <2>7, <3>2 DEF StaysOpen
      <4> QED BY <1>1, <2>1, <2>3, <4>1, <4>2 DEF ParkingFollows
    <3> QED BY <3>1, <3>2
  <2>6. RisksFollow(q)'
    <3> SUFFICES ASSUME NEW n \in DOMAIN answerLog, answerLog[n].question = q
                 PROVE  IF \E d \in AnswerCallers : Due(d, "risk", n, q)'
                        THEN answerLog[n].modifier = "tentative" /\ NoRisk(n)'
                        ELSE IF answerLog[n].modifier = "tentative" THEN RiskOnce(n)' ELSE NoRisk(n)'
      BY <1>1 DEF RisksFollow
    <3>1. IF \E d \in AnswerCallers : Due(d, "risk", n, q)
          THEN answerLog[n].modifier = "tentative" /\ NoRisk(n)
          ELSE IF answerLog[n].modifier = "tentative" THEN RiskOnce(n) ELSE NoRisk(n)
      BY <2>1 DEF RisksFollow
    <3>2. CASE h.write = "risk" /\ h.entry = n
      <4>1. h.question = q
        BY <1>7, <3>2 DEF Recorded
      <4>2. Due(c, "risk", n, q)
        BY <1>3, <1>7, <3>2, <4>1 DEF Due
      <4>3. \A d \in AnswerCallers : ~Due(d, "risk", n, q)'
        BY <2>4, <3>2, <4>1
      <4>4. RiskOnce(n)'
        BY <1>1, <1>3, <1>4, <3>1, <3>2, <4>2, RiskItemsFollow
      <4> QED BY <3>1, <4>2, <4>3, <4>4
    <3>3. CASE ~(h.write = "risk" /\ h.entry = n)
      <4>1. (NoRisk(n)' <=> NoRisk(n)) /\ (RiskOnce(n)' <=> RiskOnce(n))
        BY <1>1, <1>3, <1>4, <3>3, RiskItemsFollow
      <4>2. Step("risk", n, q) # h
        BY <3>3 DEF Step
      <4>3. \A d \in AnswerCallers : Due(d, "risk", n, q)' <=> Due(d, "risk", n, q)
        BY <1>10, <4>2
      <4> QED BY <3>1, <4>1, <4>3
    <3> QED BY <3>2, <3>3
  <2> QED BY <2>2, <2>5, <2>6
<1> QED BY <1>9, <1>11 DEF FollowUpsInv

-----------------------------------------------------------------------------
\* What follows from the answers of a call.
Answers == [question : Questions, modifier : Modifiers]
Wanted(w, answer, log) ==
  \/ w = "park" /\ answer.modifier = "parked"
  \/ w = "resolve" /\ answer.modifier # "parked" /\ WasParked(log, answer.question)
  \/ w = "risk" /\ answer.modifier = "tentative"

UpsOf(entry, answer, log) == FollowUps(entry, answer, WasParked(log, answer.question))
AreWanted(fu, entry, answer, log) ==
  /\ fu \in Seq(FollowSteps) /\ StepsApart(fu)
  /\ \A i \in DOMAIN fu : \E w \in {"park", "resolve", "risk"} :
       Wanted(w, answer, log) /\ fu[i] = Step(w, entry, answer.question)
  /\ \A w : Wanted(w, answer, log) => \E i \in DOMAIN fu : fu[i] = Step(w, entry, answer.question)

LEMMA OneAnswerFollows ==
  ASSUME NEW entry \in Nat, NEW answer \in Answers, NEW log
  PROVE  AreWanted(UpsOf(entry, answer, log), entry, answer, log)
<1> DEFINE fu == UpsOf(entry, answer, log)
           s(w) == Step(w, entry, answer.question)
<1>1. /\ \A w \in {"park", "resolve", "risk"} : s(w) \in FollowSteps
      /\ \A w : s(w).write = w
  BY DEF Step, FollowSteps, Answers
<1>2. answer.modifier \in {"none", "parked", "tentative"}
  BY DEF Answers, Modifiers
<1>3. CASE answer.modifier = "parked"
  <2>1. fu = <<s("park")>> \o << >>
    BY <1>3 DEF FollowUps, UpsOf
  <2> HIDE DEF s, fu
  <2>2. fu = <<s("park")>>
    BY <2>1
  <2>3. \A w : Wanted(w, answer, log) <=> w = "park"
    BY <1>3 DEF Wanted
  <2>4. /\ fu \in Seq(FollowSteps) /\ DOMAIN fu = {1} /\ fu[1] = s("park")
    BY <1>1, <2>2
  <2>5. StepsApart(fu)
    BY <2>4 DEF StepsApart
  <2> QED BY <2>3, <2>4, <2>5 DEF s, fu, AreWanted
<1>4. CASE answer.modifier = "tentative" /\ WasParked(log, answer.question)
  <2>1. fu = <<s("resolve")>> \o <<s("risk")>>
    BY <1>4 DEF FollowUps, UpsOf
  <2> HIDE DEF s, fu
  <2>3. \A w : Wanted(w, answer, log) <=> w \in {"resolve", "risk"}
    BY <1>4 DEF Wanted
  <2>4. fu \in Seq(FollowSteps) /\ DOMAIN fu = {1, 2} /\ fu[1] = s("resolve") /\ fu[2] = s("risk")
    <3>1. <<s("resolve")>> \in Seq(FollowSteps) /\ <<s("risk")>> \in Seq(FollowSteps)
      BY <1>1
    <3>2. fu \in Seq(FollowSteps) /\ Len(fu) = 2 /\ fu[1] = s("resolve") /\ fu[2] = s("risk")
      BY <2>1, <3>1, ConcatProperties
    <3>3. DOMAIN fu = 1..2
      BY <3>2, LenProperties
    <3> QED BY <3>2, <3>3
  <2>5. StepsApart(fu)
    BY <1>1, <2>4 DEF StepsApart
  <2> QED BY <2>3, <2>4, <2>5 DEF s, fu, AreWanted
<1>5. CASE answer.modifier = "tentative" /\ ~WasParked(log, answer.question)
  <2>1. fu = << >> \o <<s("risk")>>
    BY <1>5 DEF FollowUps, UpsOf
  <2> HIDE DEF s, fu
  <2>2. fu = <<s("risk")>>
    BY <2>1
  <2>3. \A w : Wanted(w, answer, log) <=> w = "risk"
    BY <1>5 DEF Wanted
  <2>4. fu \in Seq(FollowSteps) /\ DOMAIN fu = {1} /\ fu[1] = s("risk")
    BY <1>1, <2>2
  <2>5. StepsApart(fu)
    BY <2>4 DEF StepsApart
  <2> QED BY <2>3, <2>4, <2>5 DEF s, fu, AreWanted
<1>6. CASE answer.modifier = "none" /\ WasParked(log, answer.question)
  <2>1. fu = <<s("resolve")>> \o << >>
    BY <1>6 DEF FollowUps, UpsOf
  <2> HIDE DEF s, fu
  <2>2. fu = <<s("resolve")>>
    BY <2>1
  <2>3. \A w : Wanted(w, answer, log) <=> w = "resolve"
    BY <1>6 DEF Wanted
  <2>4. fu \in Seq(FollowSteps) /\ DOMAIN fu = {1} /\ fu[1] = s("resolve")
    BY <1>1, <2>2
  <2>5. StepsApart(fu)
    BY <2>4 DEF StepsApart
  <2> QED BY <2>3, <2>4, <2>5 DEF s, fu, AreWanted
<1>7. CASE answer.modifier = "none" /\ ~WasParked(log, answer.question)
  <2>1. fu = << >> \o << >>
    BY <1>7 DEF FollowUps, UpsOf
  <2> HIDE DEF s, fu
  <2>2. fu \in Seq(FollowSteps) /\ DOMAIN fu = {}
    BY <2>1
  <2>3. \A w : ~Wanted(w, answer, log)
    BY <1>7 DEF Wanted
  <2>5. StepsApart(fu)
    BY <2>2 DEF StepsApart
  <2> QED BY <2>2, <2>3, <2>5 DEF s, fu, AreWanted
<1> QED BY <1>2, <1>3, <1>4, <1>5, <1>6, <1>7

\* The follow-ups of a call are those of its answers, none twice and none lost.
AllWanted(fu, answers, log) ==
  /\ fu \in Seq(FollowSteps) /\ StepsApart(fu)
  /\ \A i \in DOMAIN fu : \E k \in DOMAIN answers, w \in {"park", "resolve", "risk"} :
       Wanted(w, answers[k], log) /\ fu[i] = Step(w, Len(log) + k, answers[k].question)
  /\ \A k \in DOMAIN answers, w \in {"park", "resolve", "risk"} :
       Wanted(w, answers[k], log) =>
         \E i \in DOMAIN fu : fu[i] = Step(w, Len(log) + k, answers[k].question)

LEMMA AnswersFollow ==
  ASSUME NEW log \in Seq(Entries), NEW answers \in Seq(Answers), AnswersApart(answers)
  PROVE  AllWanted(FlattenSeq([k \in DOMAIN answers |->
                     FollowUps(Len(log) + k, answers[k], WasParked(log, answers[k].question))]),
                   answers, log)
<1> DEFINE parts == [k \in DOMAIN answers |-> FollowUps(Len(log) + k, answers[k], WasParked(log, answers[k].question))]
           fu == FlattenSeq(parts)
           M == Len(answers)
<1>1. /\ M \in Nat /\ DOMAIN answers = 1..M /\ Len(log) \in Nat
      /\ \A k \in 1..M : answers[k] \in Answers
  BY LenProperties, ElementOfSeq
<1>2. ASSUME NEW k \in 1..M
      PROVE  /\ parts[k] \in Seq(FollowSteps) /\ StepsApart(parts[k])
             /\ \A i \in DOMAIN parts[k] : \E w \in {"park", "resolve", "risk"} :
                  Wanted(w, answers[k], log) /\ parts[k][i] = Step(w, Len(log) + k, answers[k].question)
             /\ \A w : Wanted(w, answers[k], log) =>
                  \E i \in DOMAIN parts[k] : parts[k][i] = Step(w, Len(log) + k, answers[k].question)
  <2>1. Len(log) + k \in Nat /\ answers[k] \in Answers
    BY <1>1
  <2>2. parts[k] = UpsOf(Len(log) + k, answers[k], log)
    BY <1>1 DEF UpsOf
  <2>3. AreWanted(UpsOf(Len(log) + k, answers[k], log), Len(log) + k, answers[k], log)
    BY <2>1, OneAnswerFollows
  <2>4. AreWanted(parts[k], Len(log) + k, answers[k], log)
    BY <2>2, <2>3, Zenon
  <2> HIDE DEF parts
  <2> QED BY <2>4 DEF AreWanted
<1>3. parts \in Seq(Seq(FollowSteps)) /\ Len(parts) = M
  <2>0. parts = [k \in 1..M |-> parts[k]]
    BY <1>1
  <2> HIDE DEF parts, M
  <2>1. parts \in [1..M -> Seq(FollowSteps)]
    BY <1>2, <2>0
  <2> QED BY <1>1, <2>1, FunctionIsSeq
<1> HIDE DEF parts
<1>4. fu \in Seq(FollowSteps) /\ Comes(fu, parts, M)
  BY <1>3, FlattenComes
<1> HIDE DEF fu, M
<1>5. DOMAIN fu = 1..Len(fu)
  BY <1>4, LenProperties
<1>6. PICK at \in [1..Len(fu) -> Pairs(parts, M)] :
        /\ \A p \in 1..Len(fu) : fu[p] = parts[at[p][1]][at[p][2]]
        /\ \A p, o \in 1..Len(fu) : at[p] = at[o] => p = o
        /\ \A pair \in Pairs(parts, M) : \E p \in 1..Len(fu) : at[p] = pair
  BY <1>4 DEF Comes
<1>7. \A k \in 1..M : DOMAIN parts[k] = 1..Len(parts[k]) /\ Len(parts[k]) \in Nat
  BY <1>2, LenProperties
<1>8. ASSUME NEW p \in DOMAIN fu
      PROVE  /\ at[p] = <<at[p][1], at[p][2]>> /\ at[p][1] \in 1..M
             /\ at[p][2] \in DOMAIN parts[at[p][1]] /\ fu[p] = parts[at[p][1]][at[p][2]]
  <2>1. at[p] \in Pairs(parts, M)
    BY <1>5, <1>6
  <2>2. at[p] \in (1..M) \X Nat /\ at[p][2] \in 1..Len(parts[at[p][1]])
    BY <2>1 DEF Pairs
  <2>3. at[p] = <<at[p][1], at[p][2]>> /\ at[p][1] \in 1..M
    BY <2>2
  <2> QED BY <1>5, <1>6, <1>7, <2>2, <2>3
<1>9. ASSUME NEW i \in DOMAIN fu
      PROVE  \E w \in {"park", "resolve", "risk"} :
               /\ Wanted(w, answers[at[i][1]], log)
               /\ fu[i] = Step(w, Len(log) + at[i][1], answers[at[i][1]].question)
  BY <1>2, <1>8
<1>10. StepsApart(fu)
  <2> SUFFICES ASSUME NEW i \in DOMAIN fu, NEW j \in DOMAIN fu, fu[i].question = fu[j].question,
                      fu[i].write = "risk" <=> fu[j].write = "risk"
               PROVE  i = j
    BY DEF StepsApart
  <2>1. answers[at[i][1]].question = fu[i].question
    BY <1>9 DEF Step
  <2>2. answers[at[j][1]].question = fu[j].question
    BY <1>9 DEF Step
  <2>3. at[i][1] = at[j][1]
    BY <1>1, <1>8, <2>1, <2>2 DEF AnswersApart, M
  <2>4. /\ at[i][2] \in DOMAIN parts[at[i][1]] /\ fu[i] = parts[at[i][1]][at[i][2]]
        /\ at[j][2] \in DOMAIN parts[at[i][1]] /\ fu[j] = parts[at[i][1]][at[j][2]]
    BY <1>8, <2>3
  <2>5. StepsApart(parts[at[i][1]])
    BY <1>2, <1>8
  <2>6. at[i][2] = at[j][2]
    BY <2>4, <2>5 DEF StepsApart
  <2>7. at[i] = at[j]
    BY <1>8, <2>3, <2>6
  <2> QED BY <1>5, <1>6, <2>7
<1>11. ASSUME NEW k \in DOMAIN answers, NEW w \in {"park", "resolve", "risk"},
              Wanted(w, answers[k], log)
       PROVE  \E i \in DOMAIN fu : fu[i] = Step(w, Len(log) + k, answers[k].question)
  <2>0. k \in 1..M
    BY <1>1 DEF M
  <2>1. PICK i \in DOMAIN parts[k] : parts[k][i] = Step(w, Len(log) + k, answers[k].question)
    BY <1>2, <1>11, <2>0
  <2>2. <<k, i>> \in Pairs(parts, M)
    <3>1. i \in Nat /\ i \in 1..Len(parts[k])
      BY <1>7, <2>0
    <3> QED BY <2>0, <3>1 DEF Pairs
  <2>3. PICK p \in 1..Len(fu) : at[p] = <<k, i>>
    BY <1>6, <2>2
  <2> QED BY <1>5, <1>6, <2>1, <2>3
<1>12. \A i \in DOMAIN fu : \E k \in DOMAIN answers, w \in {"park", "resolve", "risk"} :
         Wanted(w, answers[k], log) /\ fu[i] = Step(w, Len(log) + k, answers[k].question)
  <2>1. \A i \in DOMAIN fu : at[i][1] \in DOMAIN answers
    BY <1>1, <1>8 DEF M
  <2> QED BY <1>9, <2>1
<1>13. AllWanted(fu, answers, log)
  BY <1>4, <1>10, <1>11, <1>12 DEF AllWanted
<1> QED BY <1>13 DEF fu, parts

-----------------------------------------------------------------------------
\* Recording the answers of a call: the log ends with them, and each is followed up.
LEMMA LogGrows ==
  ASSUME AnswersInv, NEW c \in AnswerCallers, RecordAnswersOf(c)
  PROVE  LET answers == answerCalls[c].answers
             L == Len(answerLog)
         IN /\ answers \in Seq(Answers) /\ answerLog \in Seq(Entries) /\ answerLog' \in Seq(Entries)
            /\ L \in Nat /\ Len(answers) \in Nat
            /\ DOMAIN answers = 1..Len(answers) /\ DOMAIN answerLog = 1..L
            /\ DOMAIN answerLog' = 1..(L + Len(answers))
            /\ \A n \in 1..L : answerLog'[n] = answerLog[n]
            /\ \A k \in 1..Len(answers) : /\ answerLog'[L + k].question = answers[k].question
                                          /\ answerLog'[L + k].modifier = answers[k].modifier
<1> DEFINE old == answerCalls[c]
           answers == old.answers
           new == [k \in DOMAIN answers |->
                     [question |-> answers[k].question, modifier |-> answers[k].modifier,
                      revises |-> old.revises, readAt |-> old.readAt]]
<1>1. /\ answers \in Seq(Answers) /\ answerLog \in Seq(Entries)
      /\ old.revises \in BOOLEAN /\ old.readAt \in Nat
  BY DEF AnswersInv, CallsOK, CallOK, LogOK, RecordAnswersOf, Answers
<1>2. answerLog' = answerLog \o new
  BY DEF RecordAnswersOf
<1> HIDE DEF answers
<1>3. /\ DOMAIN answers = 1..Len(answers) /\ Len(answers) \in Nat
      /\ \A k \in 1..Len(answers) : answers[k] \in Answers
  BY <1>1, LenProperties, ElementOfSeq
<1>4. new \in [1..Len(answers) -> Entries]
  BY <1>1, <1>3 DEF Entries, Answers
<1>5. \A k \in 1..Len(answers) : new[k].question = answers[k].question /\ new[k].modifier = answers[k].modifier
  BY <1>3
<1> HIDE DEF new
<1>6. new \in Seq(Entries) /\ Len(new) = Len(answers)
  BY <1>3, <1>4, FunctionIsSeq
<1>7. /\ answerLog' \in Seq(Entries) /\ Len(answerLog') = Len(answerLog) + Len(answers)
      /\ \A n \in 1..(Len(answerLog) + Len(answers)) :
           answerLog'[n] = IF n <= Len(answerLog) THEN answerLog[n] ELSE new[n - Len(answerLog)]
  <2>1. /\ answerLog \o new \in Seq(Entries) /\ Len(answerLog \o new) = Len(answerLog) + Len(new)
        /\ \A n \in 1..(Len(answerLog) + Len(new)) :
             (answerLog \o new)[n] = IF n <= Len(answerLog) THEN answerLog[n] ELSE new[n - Len(answerLog)]
    <3>1. answerLog \in Seq(Entries) /\ new \in Seq(Entries)
      BY <1>1, <1>6
    <3> QED BY <3>1, ConcatProperties
  <2> QED BY <1>2, <1>6, <2>1
<1>8. Len(answerLog) \in Nat /\ DOMAIN answerLog = 1..Len(answerLog)
      /\ DOMAIN answerLog' = 1..(Len(answerLog) + Len(answers))
  BY <1>1, <1>7, LenProperties
<1>9. ASSUME NEW n \in 1..Len(answerLog) PROVE answerLog'[n] = answerLog[n]
  BY <1>3, <1>7, <1>8
<1>10. ASSUME NEW k \in 1..Len(answers) PROVE answerLog'[Len(answerLog) + k] = new[k]
  <2>1. Len(answerLog) + k \in 1..(Len(answerLog) + Len(answers))
        /\ ~(Len(answerLog) + k <= Len(answerLog)) /\ (Len(answerLog) + k) - Len(answerLog) = k
    BY <1>3, <1>8
  <2> QED BY <1>7, <2>1
<1>11. \A k \in 1..Len(answers) : /\ answerLog'[Len(answerLog) + k].question = answers[k].question
                                  /\ answerLog'[Len(answerLog) + k].modifier = answers[k].modifier
  BY <1>5, <1>10
<1> QED BY <1>1, <1>3, <1>7, <1>8, <1>9, <1>11 DEF answers

LEMMA RecordAnswersFollow ==
  ASSUME AnswersInv, FollowUpsInv, NEW c \in AnswerCallers, RecordAnswersOf(c)
  PROVE  FollowUpsInv'
<1> DEFINE old == answerCalls[c]
           answers == old.answers
           L == Len(answerLog)
           M == Len(answers)
           fu == FlattenSeq([k \in DOMAIN answers |->
                   FollowUps(L + k, answers[k], WasParked(answerLog, answers[k].question))])
           inRound == {answers[k].question : k \in DOMAIN answers}
<1>1. /\ answers \in Seq(Answers) /\ answerLog \in Seq(Entries) /\ answerLog' \in Seq(Entries)
      /\ L \in Nat /\ M \in Nat /\ DOMAIN answers = 1..M /\ DOMAIN answerLog = 1..L
      /\ DOMAIN answerLog' = 1..(L + M)
      /\ \A n \in 1..L : answerLog'[n] = answerLog[n]
      /\ \A k \in 1..M : /\ answerLog'[L + k].question = answers[k].question
                         /\ answerLog'[L + k].modifier = answers[k].modifier
  BY LogGrows
<1>2. /\ old.at = "recording" /\ answerCalls' = [answerCalls EXCEPT ![c] = Following(old, fu)]
      /\ UNCHANGED <<parkedItems, riskItems, namesakeResolved>>
  BY DEF RecordAnswersOf, WithCall
<1>3. troubled' = troubled \cup {q \in inRound : \E d \in AnswerCallers : q \in Awaited(answerCalls[d])}
  <2>1. ToSet(answers) = {answers[k] : k \in DOMAIN answers}
    BY DEF ToSet
  <2>2. {answer.question : answer \in ToSet(answers)} = inRound
    BY <2>1
  <2> QED BY <2>2 DEF RecordAnswersOf
<1>4. AnswersApart(answers) /\ old.followUps = << >>
  BY <1>2 DEF FollowUpsInv, FollowTypes, FollowingOf
<1>5. AllWanted(fu, answers, answerLog)
  BY <1>1, <1>4, AnswersFollow
<1> HIDE DEF fu
<1>6. fu \in Seq(FollowSteps) /\ StepsApart(fu)
  BY <1>5 DEF AllWanted
<1>7. answerCalls = [d \in AnswerCallers |-> answerCalls[d]]
  BY DEF AnswersInv, CallsOK
<1>8. /\ answerCalls'[c].followUps = fu /\ FollowingOf(answerCalls'[c])
      /\ \A d \in AnswerCallers : d # c => answerCalls'[d] = answerCalls[d]
  <2>1. answerCalls'[c] = Following(old, fu)
        /\ \A d \in AnswerCallers : d # c => answerCalls'[d] = answerCalls[d]
    BY <1>2, <1>7
  <2>2. Following(old, fu).followUps = fu /\ FollowingOf(Following(old, fu))
    BY <1>6, FollowingFollows
  <2> QED BY <2>1, <2>2
<1>9. inRound \subseteq Questions
  <2>1. \A k \in DOMAIN answers : answers[k] \in Answers
    BY <1>1, ElementOfSeq
  <2> QED BY <2>1 DEF Answers
<1> HIDE DEF L, M, answers
<1>10. ASSUME NEW n, NEW q, Recorded(n, q) PROVE Recorded(n, q)'
  BY <1>1, <1>10 DEF Recorded
<1>11. \A k \in 1..M : /\ L + k \in DOMAIN answerLog' /\ L + k \notin DOMAIN answerLog
                        /\ answerLog'[L + k].question = answers[k].question
  BY <1>1
<1>12. FollowTypes'
  <2>1. riskItems' \in Seq(Nat) /\ \A k \in DOMAIN riskItems' : riskItems'[k] \in DOMAIN answerLog'
    BY <1>1, <1>2 DEF FollowUpsInv, FollowTypes
  <2>2. parkedItems' \in Seq(ParkedItems) /\ troubled' \in SUBSET Questions
    BY <1>2, <1>3, <1>9 DEF FollowUpsInv, FollowTypes
  <2>3. ASSUME NEW d \in AnswerCallers, NEW i \in DOMAIN answerCalls'[d].followUps
        PROVE  Recorded(answerCalls[d].followUps[i].entry, answerCalls[d].followUps[i].question)'
    <3>1. CASE d = c
      <4>1. i \in DOMAIN fu
        BY <1>8, <2>3, <3>1
      <4>2. PICK k \in DOMAIN answers, w \in {"park", "resolve", "risk"} :
              fu[i] = Step(w, L + k, answers[k].question)
        BY <1>5, <4>1 DEF AllWanted, L
      <4>3. fu[i].entry = L + k /\ fu[i].question = answers[k].question
        BY <4>2 DEF Step
      <4>4. fu[i].entry \in DOMAIN answerLog' /\ answerLog'[fu[i].entry].question = fu[i].question
        BY <1>1, <1>11, <4>2, <4>3
      <4> QED BY <1>8, <3>1, <4>4 DEF Recorded
    <3>2. CASE d # c
      <4>1. answerCalls'[d] = answerCalls[d] /\ i \in DOMAIN answerCalls[d].followUps
        BY <1>8, <2>3, <3>2
      <4>2. Recorded(answerCalls[d].followUps[i].entry, answerCalls[d].followUps[i].question)
        BY <4>1 DEF FollowUpsInv, FollowTypes
      <4> QED BY <1>10, <4>1, <4>2 DEF Recorded
    <3> QED BY <3>1, <3>2
  <2>4. \A d \in AnswerCallers : FollowingOf(answerCalls'[d])
    BY <1>8 DEF FollowUpsInv, FollowTypes
  <2> QED BY <2>1, <2>2, <2>3, <2>4 DEF FollowTypes
<1>13. ASSUME NEW w \in {"park", "resolve", "risk"}, NEW n, NEW q
       PROVE  Due(c, w, n, q)' <=>
                \E k \in 1..M : n = L + k /\ q = answers[k].question /\ Wanted(w, answers[k], answerLog)
  <2>1. ASSUME Due(c, w, n, q)'
        PROVE  \E k \in 1..M : n = L + k /\ q = answers[k].question /\ Wanted(w, answers[k], answerLog)
    <3>1. PICK i \in DOMAIN fu : fu[i] = Step(w, n, q)
      BY <1>8, <2>1 DEF Due
    <3>2. PICK k \in DOMAIN answers, v \in {"park", "resolve", "risk"} :
            Wanted(v, answers[k], answerLog) /\ fu[i] = Step(v, L + k, answers[k].question)
      BY <1>5 DEF AllWanted, L
    <3>3. v = w /\ n = L + k /\ q = answers[k].question
      BY <3>1, <3>2 DEF Step
    <3> QED BY <1>1, <3>2, <3>3
  <2>2. ASSUME NEW k \in 1..M, n = L + k, q = answers[k].question, Wanted(w, answers[k], answerLog)
        PROVE  Due(c, w, n, q)'
    <3>1. \E i \in DOMAIN fu : fu[i] = Step(w, L + k, answers[k].question)
      BY <1>1, <1>5, <2>2 DEF AllWanted, L
    <3> QED BY <1>8, <2>2, <3>1 DEF Due
  <2> QED BY <2>1, <2>2
<1>14. ASSUME NEW d \in AnswerCallers, d # c, NEW w, NEW n, NEW q PROVE Due(d, w, n, q)' <=> Due(d, w, n, q)
  BY <1>8, <1>14 DEF Due
<1>15. ASSUME NEW q \in Questions \ troubled', q \notin inRound
       PROVE  OneFollows(q)' /\ ParkingFollows(q)' /\ RisksFollow(q)'
  <2>1. OneFollows(q) /\ ParkingFollows(q) /\ RisksFollow(q)
    BY <1>3, <1>15 DEF FollowUpsInv
  <2>2. \A n \in DOMAIN answerLog' : answerLog'[n].question = q => n \in 1..L
    <3> SUFFICES ASSUME NEW n \in DOMAIN answerLog', n \notin 1..L, answerLog'[n].question = q PROVE FALSE
      OBVIOUS
    <3>1. n - L \in 1..M /\ n = L + (n - L)
      BY <1>1
    <3>2. answers[n - L].question = q
      BY <1>1, <3>1
    <3> QED BY <1>1, <1>15, <3>1, <3>2
  <2>3. ASSUME NEW d \in AnswerCallers, NEW w \in {"park", "resolve", "risk"}, NEW n
        PROVE  Due(d, w, n, q)' <=> Due(d, w, n, q)
    <3>1. CASE d = c
      <4>1. ~Due(c, w, n, q)'
        <5>1. \A k \in 1..M : answers[k].question # q
          BY <1>1, <1>15
        <5> QED BY <1>13, <5>1
      <4>2. ~Due(c, w, n, q)
        BY <1>4 DEF Due
      <4> QED BY <3>1, <4>1, <4>2
    <3>2. CASE d # c
      BY <1>14, <3>2
    <3> QED BY <3>1, <3>2
  <2>4. OneFollows(q)'
    <3>1. ASSUME NEW d \in AnswerCallers, NEW i \in DOMAIN answerCalls'[d].followUps,
                 answerCalls'[d].followUps[i].question = q
          PROVE  i \in DOMAIN answerCalls[d].followUps /\ answerCalls[d].followUps[i].question = q
      <4>1. CASE d = c
        <5>1. i \in DOMAIN fu /\ fu[i].question = q
          BY <1>8, <3>1, <4>1
        <5>2. PICK k \in DOMAIN answers, w \in {"park", "resolve", "risk"} :
                fu[i] = Step(w, L + k, answers[k].question)
          BY <1>5, <5>1 DEF AllWanted, L
        <5> QED BY <1>15, <5>1, <5>2 DEF Step
      <4>2. CASE d # c
        BY <1>8, <3>1, <4>2
      <4> QED BY <4>1, <4>2
    <3> QED BY <2>1, <3>1 DEF OneFollows
  <2>5. WasParked(answerLog', q) <=> WasParked(answerLog, q)
    <3>1. CASE \A i \in DOMAIN answerLog : answerLog[i].question # q
      <4>1. \A i \in DOMAIN answerLog' : answerLog'[i].question # q
        BY <1>1, <2>2, <3>1
      <4> QED BY <1>1, <3>1, <4>1, WasParkedIs
    <3>2. CASE ~ \A i \in DOMAIN answerLog : answerLog[i].question # q
      <4> DEFINE n == LatestIn(answerLog, q)
      <4>1. n \in DOMAIN answerLog /\ answerLog[n].question = q
            /\ \A i \in DOMAIN answerLog : answerLog[i].question = q => i <= n
        BY <1>1, <3>2, LatestInIs
      <4> HIDE DEF n
      <4>2. n \in DOMAIN answerLog' /\ answerLog'[n] = answerLog[n]
        BY <1>1, <4>1
      <4>3. \A i \in DOMAIN answerLog' : answerLog'[i].question = q => i <= n
        BY <1>1, <2>2, <4>1
      <4>4. WasParked(answerLog, q) <=> answerLog[n].modifier = "parked"
        BY <1>1, <4>1, WasParkedIs
      <4>5. WasParked(answerLog', q) <=> answerLog'[n].modifier = "parked"
        BY <1>1, <4>1, <4>2, <4>3, WasParkedIs
      <4> QED BY <4>2, <4>4, <4>5
    <3> QED BY <3>1, <3>2
  <2>6. \A d \in AnswerCallers : \A w, n : Due(d, w, n, q) => n \in DOMAIN answerLog
    <3> SUFFICES ASSUME NEW d \in AnswerCallers, NEW w, NEW n, Due(d, w, n, q) PROVE n \in DOMAIN answerLog
      OBVIOUS
    <3>1. PICK i \in DOMAIN answerCalls[d].followUps : answerCalls[d].followUps[i] = Step(w, n, q)
      BY DEF Due
    <3>2. Recorded(answerCalls[d].followUps[i].entry, answerCalls[d].followUps[i].question)
      BY DEF FollowUpsInv, FollowTypes
    <3> QED BY <3>1, <3>2 DEF Recorded, Step
  <2>7. ParkingFollows(q)'
    <3>1. (IsOpen(q)' <=> IsOpen(q)) /\ (StaysOpen(q)' <=> StaysOpen(q))
      BY <1>2, <2>5 DEF IsOpen, StaysOpen
    <3>2. DOMAIN answerLog \subseteq DOMAIN answerLog'
      BY <1>1
    <3> QED BY <2>1, <2>3, <2>5, <2>6, <3>1, <3>2 DEF ParkingFollows
  <2>8. RisksFollow(q)'
    <3> SUFFICES ASSUME NEW n \in DOMAIN answerLog', answerLog'[n].question = q
                 PROVE  IF \E d \in AnswerCallers : Due(d, "risk", n, q)'
                        THEN answerLog'[n].modifier = "tentative" /\ NoRisk(n)'
                        ELSE IF answerLog'[n].modifier = "tentative" THEN RiskOnce(n)' ELSE NoRisk(n)'
      BY DEF RisksFollow
    <3>1. n \in DOMAIN answerLog /\ answerLog'[n] = answerLog[n]
      BY <1>1, <2>2
    <3>2. (NoRisk(n)' <=> NoRisk(n)) /\ (RiskOnce(n)' <=> RiskOnce(n))
      BY <1>2 DEF NoRisk, RiskOnce
    <3> QED BY <2>1, <2>3, <3>1, <3>2 DEF RisksFollow
  <2> QED BY <2>4, <2>7, <2>8
<1>16. ASSUME NEW q \in Questions \ troubled', q \in inRound
       PROVE  OneFollows(q)' /\ ParkingFollows(q)' /\ RisksFollow(q)'
  <2>1. OneFollows(q) /\ ParkingFollows(q) /\ RisksFollow(q)
    BY <1>3, <1>16 DEF FollowUpsInv
  <2>2. PICK k \in 1..M : answers[k].question = q
    BY <1>1, <1>16
  <2>3. \A j \in 1..M : answers[j].question = q => j = k
    BY <1>1, <1>4, <2>2 DEF AnswersApart, answers
  <2>4. ASSUME NEW d \in AnswerCallers, NEW i \in DOMAIN answerCalls[d].followUps,
               answerCalls[d].followUps[i].question = q
        PROVE  FALSE
    <3>1. answerCalls[d].followUps \in Seq(FollowSteps)
      BY DEF FollowUpsInv, FollowTypes, FollowingOf
    <3>2. q \in Awaited(answerCalls[d])
      BY <2>4, <3>1, AwaitedAre
    <3> QED BY <1>3, <1>16, <3>2
  <2>5. \A d \in AnswerCallers : \A w, n : ~Due(d, w, n, q)
    BY <2>4 DEF Due, Step
  <2>6. ASSUME NEW d \in AnswerCallers, NEW w \in {"park", "resolve", "risk"}, NEW n
        PROVE  Due(d, w, n, q)' <=> d = c /\ n = L + k /\ Wanted(w, answers[k], answerLog)
    <3>1. CASE d = c
      BY <1>13, <2>2, <2>3, <3>1
    <3>2. CASE d # c
      BY <1>14, <2>5, <3>2
    <3> QED BY <3>1, <3>2
  <2>7. OneFollows(q)'
    <3>1. \A d \in AnswerCallers : \A i \in DOMAIN answerCalls'[d].followUps :
            answerCalls'[d].followUps[i].question = q => d = c
      BY <1>8, <2>4
    <3> QED BY <3>1 DEF OneFollows
  <2>8. WasParked(answerLog', q) <=> answers[k].modifier = "parked"
    <3>1. L + k \in DOMAIN answerLog' /\ answerLog'[L + k].question = q
      BY <1>11, <2>2
    <3>2. ASSUME NEW i \in DOMAIN answerLog', answerLog'[i].question = q, ~(i <= L + k) PROVE FALSE
      <4>1. i - L \in 1..M /\ i = L + (i - L) /\ i - L # k
        BY <1>1, <3>2
      <4> QED BY <1>1, <2>3, <3>2, <4>1
    <3> QED BY <1>1, <2>2, <3>1, <3>2, WasParkedIs
  <2>9. L + k \in DOMAIN answerLog' /\ L + k \notin DOMAIN answerLog
    BY <1>11
  <2>10. ParkingFollows(q)'
    <3>1. ASSUME NEW d \in AnswerCallers, NEW n \in DOMAIN answerLog'
          PROVE  /\ Due(d, "park", n, q)' => WasParked(answerLog', q)
                 /\ Due(d, "resolve", n, q)' => ~WasParked(answerLog', q)
      <4>1. Due(d, "park", n, q)' => answers[k].modifier = "parked"
        BY <2>6 DEF Wanted
      <4>2. Due(d, "resolve", n, q)' => answers[k].modifier # "parked"
        BY <2>6 DEF Wanted
      <4> QED BY <2>8, <4>1, <4>2
    <3>2. ASSUME \A d \in AnswerCallers, n \in DOMAIN answerLog' :
                   ~Due(d, "park", n, q)' /\ ~Due(d, "resolve", n, q)'
          PROVE  IsOpen(q)' <=> StaysOpen(q)'
      <4>1. ~Wanted("park", answers[k], answerLog) /\ ~Wanted("resolve", answers[k], answerLog)
        BY <2>6, <2>9, <3>2
      <4>2. answers[k].modifier # "parked" /\ ~WasParked(answerLog, q)
        BY <2>2, <4>1 DEF Wanted
      <4>3. IsOpen(q)' <=> IsOpen(q)
        BY <1>2 DEF IsOpen
      <4>4. IsOpen(q) <=> StaysOpen(q)
        BY <2>1, <2>5 DEF ParkingFollows
      <4> QED BY <2>8, <4>2, <4>3, <4>4 DEF StaysOpen
    <3> QED BY <3>1, <3>2 DEF ParkingFollows
  <2>11. RisksFollow(q)'
    <3> SUFFICES ASSUME NEW n \in DOMAIN answerLog', answerLog'[n].question = q
                 PROVE  IF \E d \in AnswerCallers : Due(d, "risk", n, q)'
                        THEN answerLog'[n].modifier = "tentative" /\ NoRisk(n)'
                        ELSE IF answerLog'[n].modifier = "tentative" THEN RiskOnce(n)' ELSE NoRisk(n)'
      BY DEF RisksFollow
    <3>1. (NoRisk(n)' <=> NoRisk(n)) /\ (RiskOnce(n)' <=> RiskOnce(n))
      BY <1>2 DEF NoRisk, RiskOnce
    <3>2. CASE n \in DOMAIN answerLog
      <4>1. answerLog'[n] = answerLog[n]
        BY <1>1, <3>2
      <4>2. IF answerLog[n].modifier = "tentative" THEN RiskOnce(n) ELSE NoRisk(n)
        BY <2>1, <2>5, <3>2, <4>1 DEF RisksFollow
      <4>3. \A d \in AnswerCallers : ~Due(d, "risk", n, q)'
        BY <2>6, <2>9, <3>2
      <4> QED BY <3>1, <4>1, <4>2, <4>3
    <3>3. CASE n \notin DOMAIN answerLog
      <4>1. n - L \in 1..M /\ n = L + (n - L)
        BY <1>1, <3>3
      <4>2. n = L + k
        BY <1>1, <2>3, <4>1
      <4>3. answerLog'[n].modifier = answers[k].modifier
        BY <1>1, <4>2
      <4>4. NoRisk(n)
        BY <3>3 DEF FollowUpsInv, FollowTypes, NoRisk
      <4>5. (\E d \in AnswerCallers : Due(d, "risk", n, q)') <=> answers[k].modifier = "tentative"
        BY <2>6, <4>2 DEF Wanted
      <4> QED BY <3>1, <4>3, <4>4, <4>5
    <3> QED BY <3>2, <3>3
  <2> QED BY <2>7, <2>10, <2>11
<1> QED BY <1>12, <1>15, <1>16 DEF FollowUpsInv

-----------------------------------------------------------------------------
LEMMA NothingFollows ==
  ASSUME FollowUpsInv,
         UNCHANGED <<answerLog, riskItems, answerCalls, troubled, namesakeResolved>>,
         UNCHANGED parkedItems \/ \E number \in QuestionNumbers \cup {NoQuestion} :
           parkedItems' = Append(parkedItems, Parked(number, NoQuestion))
  PROVE  FollowUpsInv'
<1>1. /\ troubled \in SUBSET Questions /\ \A d \in AnswerCallers : FollowingOf(answerCalls[d])
      /\ parkedItems \in Seq(ParkedItems)
  BY DEF FollowUpsInv, FollowTypes
<1>2. parkedItems' \in Seq(ParkedItems) /\ \A q \in Questions : IsOpen(q)' <=> IsOpen(q)
  <2>1. CASE UNCHANGED parkedItems
    BY <1>1, <2>1 DEF IsOpen
  <2>2. CASE \E number \in QuestionNumbers \cup {NoQuestion} :
               parkedItems' = Append(parkedItems, Parked(number, NoQuestion))
    BY <1>1, <2>2, ParkingOpens, AnswersAssumption
  <2> QED BY <2>1, <2>2
<1> QED BY <1>1, <1>2, QuietFollows

LEMMA FollowUpsStart == AnswersInit => FollowUpsInv
<1> SUFFICES ASSUME AnswersInit PROVE FollowUpsInv
  OBVIOUS
<1>1. /\ answerLog = << >> /\ parkedItems = << >> /\ riskItems = << >> /\ troubled = {}
      /\ \A c \in AnswerCallers : answerCalls[c] = NoCall
  BY DEF AnswersInit
<1>2. DOMAIN << >> = {} /\ \A S : << >> \in Seq(S)
  OBVIOUS
<1>3. \A c \in AnswerCallers : FollowingOf(answerCalls[c]) /\ DOMAIN answerCalls[c].followUps = {}
  BY <1>1, <1>2, NoCallFollows
<1>4. FollowTypes
  BY <1>1, <1>2, <1>3 DEF FollowTypes
<1>5. ASSUME NEW q PROVE OneFollows(q) /\ ParkingFollows(q) /\ RisksFollow(q)
  <2>1. ~IsOpen(q)
    BY <1>1, <1>2 DEF IsOpen
  <2>2. ~WasParked(answerLog, q)
    <3>1. answerLog \in Seq(Entries) /\ \A i \in DOMAIN answerLog : answerLog[i].question # q
      BY <1>1, <1>2
    <3> QED BY <3>1, WasParkedIs
  <2>3. ~StaysOpen(q)
    BY <2>2 DEF StaysOpen
  <2> QED BY <1>1, <1>2, <1>3, <2>1, <2>3 DEF OneFollows, ParkingFollows, RisksFollow
<1> QED BY <1>4, <1>5 DEF FollowUpsInv

LEMMA FollowUpsStep == AnswersInv /\ FollowUpsInv /\ [AnswersNext]_answerVars => FollowUpsInv'
<1> SUFFICES ASSUME AnswersInv, FollowUpsInv, [AnswersNext]_answerVars PROVE FollowUpsInv'
  OBVIOUS
<1>1. CASE UNCHANGED answerVars
  BY <1>1, NothingFollows DEF answerVars
<1>2. CASE \E d \in DecisionIds, questionIds, dependsOn \in SUBSET QuestionNumbers :
             RecordDecision(d, questionIds, dependsOn)
  BY <1>2, NothingFollows DEF RecordDecision
<1>5. CASE \E number \in QuestionNumbers \cup {NoQuestion} : PlanPark(number)
  BY <1>5, NothingFollows DEF PlanPark
<1>3. CASE AnswersCrash
  BY <1>3, FaultsFollow
<1>4. ASSUME NEW c \in AnswerCallers,
             \/ \E session \in Sessions, modifier \in RoundAnswers : AnswerRound(c, session, modifier)
             \/ \E q \in Questions, modifier \in Modifiers : ReviseAnswer(c, q, modifier)
             \/ ReadDependents(c) \/ MarkDecisionsStale(c) \/ RecordAnswersOf(c)
             \/ FollowUp(c) \/ AnswerCallThrows(c)
      PROVE  FollowUpsInv'
  BY <1>4, AnswerCallsFollow, RecordAnswersFollow, FollowUpFollows, FaultsFollow
<1> QED BY <1>1, <1>2, <1>3, <1>4, <1>5 DEF AnswersNext

\* Once nothing more follows from the answers of a question, the files match the log.
LEMMA FollowUpsMeet == AnswersInv /\ FollowUpsInv => FollowUpsMatchTheLog
<1> SUFFICES ASSUME AnswersInv, FollowUpsInv, NEW q \in Questions \ troubled,
                    \A c \in AnswerCallers : q \notin Awaited(answerCalls[c])
             PROVE  /\ IsOpen(q) <=> StaysOpen(q)
                    /\ \A n \in DOMAIN answerLog : answerLog[n].question = q =>
                         Cardinality({k \in DOMAIN riskItems : riskItems[k] = n})
                           = IF answerLog[n].modifier = "tentative" THEN 1 ELSE 0
  BY DEF FollowUpsMatchTheLog, FollowedUp, StaysOpen
<1>1. ASSUME NEW c \in AnswerCallers, NEW w, NEW n, Due(c, w, n, q) PROVE FALSE
  <2>1. PICK i \in DOMAIN answerCalls[c].followUps : answerCalls[c].followUps[i] = Step(w, n, q)
    BY <1>1 DEF Due
  <2>2. answerCalls[c].followUps \in Seq(FollowSteps)
    BY DEF FollowUpsInv, FollowTypes, FollowingOf
  <2>3. answerCalls[c].followUps[i].question \in Awaited(answerCalls[c])
    BY <2>2, AwaitedAre
  <2> QED BY <2>1, <2>3 DEF Step
<1>2. ParkingFollows(q) /\ RisksFollow(q)
  BY DEF FollowUpsInv
<1>3. IsOpen(q) <=> StaysOpen(q)
  BY <1>1, <1>2 DEF ParkingFollows
<1>4. ASSUME NEW n \in DOMAIN answerLog, answerLog[n].question = q
      PROVE  Cardinality({k \in DOMAIN riskItems : riskItems[k] = n})
               = IF answerLog[n].modifier = "tentative" THEN 1 ELSE 0
  <2> DEFINE R == {k \in DOMAIN riskItems : riskItems[k] = n}
  <2>1. IF answerLog[n].modifier = "tentative" THEN RiskOnce(n) ELSE NoRisk(n)
    BY <1>1, <1>2, <1>4 DEF RisksFollow
  <2>2. CASE answerLog[n].modifier = "tentative"
    <3>1. PICK k : R = {k}
      BY <2>1, <2>2 DEF RiskOnce
    <3> HIDE DEF R
    <3>2. Cardinality(R) = 1
      BY <3>1, FS_Singleton
    <3> QED BY <2>2, <3>2 DEF R
  <2>3. CASE answerLog[n].modifier # "tentative"
    <3>1. R = {}
      BY <2>1, <2>3 DEF NoRisk
    <3> HIDE DEF R
    <3>2. Cardinality(R) = 0
      BY <3>1, FS_EmptySet
    <3> QED BY <2>3, <3>2 DEF R
  <2> QED BY <2>2, <2>3
<1> QED BY <1>3, <1>4

\* An answer's item of PARKED.md is open exactly while the latest answer of its question
\* parks it and none of another session has resolved it under the same number, and
\* RISKS.md has one risk for every answer marked tentative, once a question's follow-ups
\* are through; whatever other calls of whichever sessions were under way, and whatever
\* Claude parked itself.
THEOREM FollowUpsMatch == AnswersSpec => []FollowUpsMatchTheLog
<1>1. AnswersInit => AnswersInv /\ FollowUpsInv
  BY AnswersStart, FollowUpsStart
<1>2. AnswersInv /\ FollowUpsInv /\ [AnswersNext]_answerVars => AnswersInv' /\ FollowUpsInv'
  BY AnswersStep, FollowUpsStep
<1> QED BY <1>1, <1>2, FollowUpsMeet, PTL DEF AnswersSpec

-----------------------------------------------------------------------------
\* Harvest.  A candidate's decisions are the one its link names and those of calls
\* that died before they wrote the link: a link is written anew only when the decision
\* it names is gone, and ids of decisions that are there do not repeat.  What the head of
\* a pass reaches it shows or its log cut off, but for what the mark it began with reached.

Decided(c) == {d \in planDecisions : d.from = c}
Unlinked(c, link) == {d \in Decided(c) : d.id # link}

\* The decision that a candidate's link names, or is about to name.
AboutToLink(c) ==
  resolving.at = "writing" /\ resolving.action = "accept" /\ resolving.candidate = c
LinkOf(c) == IF AboutToLink(c) THEN resolving.decision ELSE candidates[c].decision

HarvestTypes ==
  /\ commits \in Nat
  /\ candidates \in Seq(Candidate)
  /\ planDecisions \subseteq [id : Nat, from : 1..Len(candidates)]
  /\ IsFiniteSet(planDecisions)
  /\ \E bound \in Nat : \A d \in planDecisions : d.id <= bound
  /\ harvestCounts \in [resolves : Nat, deletions : Nat, faults : Nat]

PassInv ==
  /\ harvestPass.at \in {"idle", "marked", "asking", "adding", "marking"}
  /\ harvestMark \in Nat /\ Ancestors(harvestMark) \subseteq harvestShown \cup harvestCut
  /\ harvestPass.at = "marked" => harvestPass.head = harvestMark
  /\ harvestPass.at \in {"asking", "adding"} =>
       Ancestors(harvestPass.head)
         \subseteq harvestPass.inputs \cup harvestPass.cut \cup Ancestors(harvestMark)
  /\ harvestPass.at = "marking" =>
       Ancestors(harvestPass.head) \subseteq harvestShown \cup harvestCut \cup harvestPass.cut
  /\ harvestPass.at \in {"asking", "adding", "marking"} => harvestPass.head \in Nat
  /\ harvestPass.at = "adding" =>
       harvestPass.proposed \subseteq HarvestTitles /\ IsFiniteSet(harvestPass.proposed)
  /\ DOMAIN harvestPass = {"at", "inputs", "cut", "head", "proposed"}

Asked(n) == [candidate : 1..n, action : {"accept", "reject"}]
Resolvings(n) == [at : {"linking", "deciding", "writing"}, candidate : 1..n,
                  action : {"accept", "reject"}, decision : Nat]

QueueInv ==
  /\ resolveQueue \in Seq(Asked(Len(candidates)))
  /\ resolving = NoResolve \/ resolving \in Resolvings(Len(candidates))

LinksHold ==
  /\ \A d, e \in planDecisions : d.id = e.id => d = e
  /\ resolving.at \in {"linking", "deciding"} =>
       /\ resolving.action = "accept"
       /\ resolving.decision = candidates[resolving.candidate].decision
  /\ resolving.at = "deciding" => \A d \in planDecisions : d.id # resolving.decision
  /\ \A c \in DOMAIN candidates : Cardinality(Unlinked(c, LinkOf(c))) <= harvestCounts.faults

HarvestInv == HarvestTypes /\ PassInv /\ QueueInv /\ CandidatesOnce /\ LinksHold

LEMMA DecidedAreFinite ==
  ASSUME HarvestTypes, LinksHold, NEW c, NEW link
  PROVE  /\ IsFiniteSet(Decided(c)) /\ IsFiniteSet(Unlinked(c, link))
         /\ Cardinality(Decided(c)) \in Nat /\ Cardinality(Unlinked(c, link)) \in Nat
         /\ Cardinality(Unlinked(c, link)) <= Cardinality(Decided(c))
         /\ Cardinality(Decided(c)) <= Cardinality(Unlinked(c, link)) + 1
  <1>1. IsFiniteSet(Decided(c)) /\ Unlinked(c, link) \subseteq Decided(c)
    <2>1. Decided(c) \subseteq planDecisions
      BY DEF Decided
    <2> QED
      BY <2>1, FS_Subset DEF HarvestTypes, Unlinked
  <1>2. /\ IsFiniteSet(Unlinked(c, link))
        /\ Cardinality(Decided(c)) \in Nat /\ Cardinality(Unlinked(c, link)) \in Nat
        /\ Cardinality(Unlinked(c, link)) <= Cardinality(Decided(c))
    BY <1>1, FS_Subset, FS_CardinalityType
  <1>3. CASE \E d \in Decided(c) : d.id = link
    <2>1. PICK d \in Decided(c) : d.id = link
      BY <1>3
    <2>2. Unlinked(c, link) = Decided(c) \ {d}
      BY <2>1 DEF Unlinked, Decided, LinksHold
    <2>3. Cardinality(Decided(c) \ {d}) = Cardinality(Decided(c)) - 1
      BY <1>1, FS_RemoveElement
    <2> QED
      BY <1>1, <1>2, <2>2, <2>3
  <1>4. CASE ~\E d \in Decided(c) : d.id = link
    <2>1. Unlinked(c, link) = Decided(c)
      BY <1>4 DEF Unlinked
    <2> QED
      BY <1>1, <1>2, <2>1
  <1> QED
    BY <1>3, <1>4

LEMMA HarvestHolds == HarvestInv => HarvestedOnce
  <1> SUFFICES ASSUME HarvestInv
               PROVE  HarvestedOnce
    OBVIOUS
  <1>1. DecidedOnce
    <2> SUFFICES ASSUME NEW c \in DOMAIN candidates
                 PROVE  Cardinality(Decided(c)) <= 1 + harvestCounts.faults
      BY DEF DecidedOnce, Decided
    <2>1. Cardinality(Unlinked(c, LinkOf(c))) <= harvestCounts.faults
      BY DEF HarvestInv, LinksHold
    <2>2. /\ Cardinality(Decided(c)) <= Cardinality(Unlinked(c, LinkOf(c))) + 1
          /\ Cardinality(Decided(c)) \in Nat /\ Cardinality(Unlinked(c, LinkOf(c))) \in Nat
      BY DecidedAreFinite DEF HarvestInv
    <2>3. harvestCounts.faults \in Nat
      BY DEF HarvestInv, HarvestTypes
    <2> QED
      BY <2>1, <2>2, <2>3
  <1>2. NothingSkipped
    BY DEF HarvestInv, PassInv, NothingSkipped
  <1> QED
    BY <1>1, <1>2 DEF HarvestInv, HarvestedOnce

\* A step that leaves candidates, decisions, resolves and faults alone.
LEMMA HarvestFrame ==
  ASSUME HarvestInv, PassInv', commits' \in Nat,
         UNCHANGED <<candidates, planDecisions, resolveQueue, resolving>>,
         harvestCounts' \in [resolves : Nat, deletions : Nat, faults : Nat],
         harvestCounts'.faults >= harvestCounts.faults
  PROVE  HarvestInv'
  <1>1. HarvestTypes'
    BY DEF HarvestInv, HarvestTypes
  <1>2. QueueInv' /\ CandidatesOnce'
    BY DEF HarvestInv, QueueInv, CandidatesOnce
  <1>3. LinksHold'
    <2>1. ASSUME NEW c \in DOMAIN candidates
          PROVE  Cardinality(Unlinked(c, LinkOf(c))') <= harvestCounts'.faults
      <3>1. Unlinked(c, LinkOf(c))' = Unlinked(c, LinkOf(c))
        BY DEF Unlinked, LinkOf, AboutToLink, Decided
      <3>2. Cardinality(Unlinked(c, LinkOf(c))) \in Nat
        BY DecidedAreFinite DEF HarvestInv
      <3>3. Cardinality(Unlinked(c, LinkOf(c))) <= harvestCounts.faults
        BY DEF HarvestInv, LinksHold
      <3>4. harvestCounts.faults \in Nat /\ harvestCounts'.faults \in Nat
        BY DEF HarvestInv, HarvestTypes
      <3> QED
        BY <3>1, <3>2, <3>3, <3>4
    <2> QED
      BY <2>1 DEF HarvestInv, LinksHold
  <1> QED
    BY <1>1, <1>2, <1>3 DEF HarvestInv

LEMMA CountsAre ==
  ASSUME HarvestInv, NEW what \in {"resolves", "deletions", "faults"}, HarvestCount(what)
  PROVE  /\ harvestCounts' \in [resolves : Nat, deletions : Nat, faults : Nat]
         /\ harvestCounts'.faults = IF what = "faults" THEN harvestCounts.faults + 1
                                    ELSE harvestCounts.faults
         /\ harvestCounts.faults \in Nat
  BY DEF HarvestInv, HarvestTypes, HarvestCount

LEMMA PassKeeps ==
  ASSUME HarvestInv,
         \/ Commit \/ StartHarvest \/ ReadHarvestInputs \/ ClaudeProposes
         \/ SetHarvestMark \/ HarvestThrows
  PROVE  HarvestInv'
  <1>0. /\ commits \in Nat /\ harvestCounts.faults \in Nat /\ harvestCounts.faults >= harvestCounts.faults
        /\ harvestCounts \in [resolves : Nat, deletions : Nat, faults : Nat]
    BY DEF HarvestInv, HarvestTypes
  <1>1. CASE Commit
    BY <1>0, <1>1, HarvestFrame DEF Commit, HarvestInv, PassInv, Ancestors
  <1>2. CASE StartHarvest
    <2>1. PassInv'
      BY <1>2 DEF StartHarvest, HarvestInv, PassInv, Ancestors, NoPass
    <2> QED
      BY <1>0, <1>2, <2>1, HarvestFrame DEF StartHarvest
  <1>3. CASE ReadHarvestInputs
    <2>1. PICK mark \in {harvestPass.head, 0} :
            harvestPass' = IF Since(mark) = {} THEN NoPass
                           ELSE [NoPass EXCEPT !.at = "asking", !.inputs = Since(mark),
                                               !.cut = CutOff(mark),
                                               !.head = Newest(Since(mark), mark)]
      BY <1>3 DEF ReadHarvestInputs
    <2>2. UNCHANGED <<commits, candidates, harvestMark, planDecisions, resolveQueue, resolving,
                      harvestShown, harvestCut, harvestCounts>>
      BY <1>3 DEF ReadHarvestInputs
    <2>3. harvestPass.head = harvestMark /\ harvestMark \in Nat /\ mark \in Nat
      BY <1>3 DEF ReadHarvestInputs, HarvestInv, PassInv
    <2> DEFINE inputs == Since(mark)
    <2>4. CASE inputs = {}
      <3>1. PassInv'
        BY <2>1, <2>2, <2>4 DEF HarvestInv, PassInv, Ancestors, NoPass
      <3> QED
        BY <1>0, <2>2, <3>1, HarvestFrame
    <2>5. CASE inputs # {}
      <3> DEFINE head == Newest(inputs, mark)
                 cut == CutOff(mark)
      <3>1. inputs \subseteq 1..commits /\ inputs \subseteq Nat /\ \A n \in inputs : n <= commits
        BY <1>0 DEF Since, AfterMark
      <3>2. head \in inputs
        <4> HIDE DEF inputs
        <4>1. \E m \in inputs : \A n \in inputs : n <= m
          BY <1>0, <2>5, <3>1, BoundedHasGreatest
        <4> QED
          BY <2>5, <4>1 DEF Newest
      <3>3. Ancestors(head) \subseteq inputs \cup cut \cup Ancestors(harvestMark)
        <4>1. head \in Nat /\ head <= commits
          BY <3>1, <3>2
        <4>2. Ancestors(head) \subseteq 1..commits
          BY <1>0, <4>1 DEF Ancestors
        <4>3. inputs \cup cut = AfterMark(mark)
          BY DEF Since, CutOff
        <4>4. Ancestors(mark) \subseteq Ancestors(harvestMark)
          BY <2>3 DEF Ancestors
        <4> QED
          BY <4>2, <4>3, <4>4 DEF AfterMark
      <3>4. harvestPass' = [NoPass EXCEPT !.at = "asking", !.inputs = inputs, !.cut = cut,
                                          !.head = head]
        BY <2>1, <2>5
      <3>5. head \in Nat
        BY <3>1, <3>2
      <3> HIDE DEF head, inputs, cut
      <3>6. /\ harvestPass'.at = "asking" /\ harvestPass'.head = head
            /\ harvestPass'.inputs = inputs /\ harvestPass'.cut = cut
            /\ DOMAIN harvestPass' = {"at", "inputs", "cut", "head", "proposed"}
        BY <3>4 DEF NoPass
      <3>7. PassInv'
        BY <2>2, <3>3, <3>5, <3>6 DEF HarvestInv, PassInv, Ancestors
      <3> QED
        BY <1>0, <2>2, <3>7, HarvestFrame
    <2> QED
      BY <2>4, <2>5
  <1>4. CASE ClaudeProposes
    <2>1. PICK proposed \in SUBSET HarvestTitles :
            IsFiniteSet(proposed)
            /\ harvestPass' = [harvestPass EXCEPT !.at = "adding", !.proposed = proposed]
      BY <1>4 DEF ClaudeProposes
    <2>2. PassInv'
      BY <1>4, <2>1 DEF ClaudeProposes, HarvestInv, PassInv, Ancestors
    <2> QED
      BY <1>0, <1>4, <2>2, HarvestFrame DEF ClaudeProposes
  <1>5. CASE SetHarvestMark
    <2>1. PassInv'
      BY <1>5 DEF SetHarvestMark, HarvestInv, PassInv, Ancestors, NoPass
    <2> QED
      BY <1>0, <1>5, <2>1, HarvestFrame DEF SetHarvestMark
  <1>6. CASE HarvestThrows
    <2>1. PassInv'
      BY <1>6 DEF HarvestThrows, HarvestInv, PassInv, Ancestors, NoPass
    <2>2. /\ harvestCounts' \in [resolves : Nat, deletions : Nat, faults : Nat]
          /\ harvestCounts'.faults >= harvestCounts.faults
      BY <1>0, <1>6, CountsAre DEF HarvestThrows, HarvestFault
    <2> QED
      BY <1>0, <1>6, <2>1, <2>2, HarvestFrame DEF HarvestThrows
  <1> QED
    BY <1>1, <1>2, <1>3, <1>4, <1>5, <1>6

LEMMA StillFew ==
  ASSUME HarvestInv, NEW c \in DOMAIN candidates, NEW few
  PROVE  /\ few \subseteq Unlinked(c, LinkOf(c)) => Cardinality(few) <= harvestCounts.faults
         /\ few \subseteq Decided(c) => Cardinality(few) <= harvestCounts.faults + 1
  <1>1. /\ IsFiniteSet(Decided(c)) /\ IsFiniteSet(Unlinked(c, LinkOf(c)))
        /\ Cardinality(Decided(c)) \in Nat /\ Cardinality(Unlinked(c, LinkOf(c))) \in Nat
        /\ Cardinality(Decided(c)) <= Cardinality(Unlinked(c, LinkOf(c))) + 1
    BY DecidedAreFinite DEF HarvestInv
  <1>2. Cardinality(Unlinked(c, LinkOf(c))) <= harvestCounts.faults /\ harvestCounts.faults \in Nat
    BY DEF HarvestInv, LinksHold, HarvestTypes
  <1>3. CASE few \subseteq Unlinked(c, LinkOf(c))
    <2>1. Cardinality(few) <= Cardinality(Unlinked(c, LinkOf(c))) /\ Cardinality(few) \in Nat
      BY <1>1, <1>3, FS_Subset, FS_CardinalityType
    <2>2. few \subseteq Decided(c)
      BY <1>3 DEF Unlinked
    <2> QED
      BY <1>2, <1>1, <2>1
  <1>4. CASE few \subseteq Decided(c)
    <2>1. Cardinality(few) <= Cardinality(Decided(c)) /\ Cardinality(few) \in Nat
      BY <1>1, <1>4, FS_Subset, FS_CardinalityType
    <2>2. Cardinality(few) <= harvestCounts.faults + 1
      BY <1>1, <1>2, <2>1
    <2>3. few \subseteq Unlinked(c, LinkOf(c)) => Cardinality(few) <= harvestCounts.faults
      BY <1>3
    <2> QED
      BY <2>2, <2>3
  <1> QED
    BY <1>3, <1>4

LEMMA LongerQueue ==
  ASSUME NEW n \in Nat, NEW m \in Nat, n <= m
  PROVE  Seq(Asked(n)) \subseteq Seq(Asked(m)) /\ Resolvings(n) \subseteq Resolvings(m)
  <1>1. 1..n \subseteq 1..m
    OBVIOUS
  <1>2. Asked(n) \subseteq Asked(m) /\ Resolvings(n) \subseteq Resolvings(m)
    BY <1>1 DEF Asked, Resolvings
  <1> QED
    BY <1>2

\* What a written order of proposals adds: each title once, none that was there.
LEMMA OrderedOnce ==
  ASSUME NEW titles, IsFiniteSet(titles), NEW order \in InSomeOrder(titles)
  PROVE  /\ order \in Seq(titles)
         /\ \A i, j \in 1..Len(order) : order[i] = order[j] => i = j
  <1> DEFINE n == Cardinality(titles)
  <1>1. n \in Nat /\ order \in [1..n -> titles] /\ {order[i] : i \in 1..n} = titles
    BY FS_CardinalityType DEF InSomeOrder
  <1>2. order \in Surjection(1..n, titles)
    BY <1>1 DEF Surjection
  <1>3. IsFiniteSet(1..n) /\ Cardinality(1..n) = n
    BY <1>1, FS_Interval
  <1>4. order \in Injection(1..n, titles)
    BY <1>2, <1>3, FS_SurjSameCardinalityImpliesInj
  <1>5. order \in Seq(titles) /\ Len(order) = n
    <2> HIDE DEF n
    <2> QED
      BY <1>1
  <1> QED
    BY <1>4, <1>5 DEF Injection, IsInjective

LEMMA AddHarvestKeeps == HarvestInv /\ AddHarvest => HarvestInv'
  <1> SUFFICES ASSUME HarvestInv, AddHarvest
               PROVE  HarvestInv'
    OBVIOUS
  <1> DEFINE titles == FreshTitles(harvestPass.proposed)
             n == Len(candidates)
             Fresh(t) == [title |-> t, status |-> "pending", decision |-> 0]
  <1>1. PICK order \in InSomeOrder(titles) :
          candidates' = candidates \o [i \in DOMAIN order |-> Fresh(order[i])]
    BY DEF AddHarvest
  <1>2. titles \subseteq HarvestTitles /\ IsFiniteSet(titles) /\ titles \cap Titled = {}
    BY FS_Subset DEF AddHarvest, HarvestInv, PassInv, FreshTitles
  <1>3. /\ order \in Seq(titles)
        /\ \A i, j \in 1..Len(order) : order[i] = order[j] => i = j
    BY <1>1, <1>2, OrderedOnce
  <1> DEFINE added == [i \in DOMAIN order |-> Fresh(order[i])]
  <1>4. /\ added \in Seq(Candidate) /\ Len(added) = Len(order)
        /\ \A i \in 1..Len(order) : added[i] = Fresh(order[i]) /\ order[i] \in titles
    <2>1. DOMAIN order = 1..Len(order) /\ \A i \in 1..Len(order) : order[i] \in titles
      BY <1>3
    <2>2. \A t \in titles : Fresh(t) \in Candidate
      BY <1>2 DEF Candidate
    <2> HIDE DEF Fresh
    <2>3. added \in [1..Len(order) -> Candidate] /\ Len(order) \in Nat
      BY <1>3, <2>1, <2>2
    <2> QED
      BY <2>1, <2>3
  <1>40. candidates' = candidates \o added
    BY <1>1
  <1>41. /\ \A i \in 1..Len(order) : added[i].title = order[i] /\ added[i].decision = 0
         /\ Len(order) \in Nat
    BY <1>3, <1>4
  <1> HIDE DEF added, titles, Fresh
  <1>5. candidates \in Seq(Candidate) /\ n \in Nat
    BY DEF HarvestInv, HarvestTypes
  <1>6. /\ candidates' \in Seq(Candidate) /\ Len(candidates') = n + Len(order) /\ Len(order) \in Nat
        /\ DOMAIN candidates = 1..n /\ DOMAIN candidates' = 1..(n + Len(order))
        /\ \A c \in 1..n : candidates'[c] = candidates[c]
        /\ \A c \in DOMAIN candidates' : c > n => c - n \in 1..Len(order)
                                              /\ candidates'[c] = added[c - n]
    <2>1. /\ candidates' \in Seq(Candidate) /\ Len(candidates') = n + Len(added)
          /\ \A c \in 1..(n + Len(added)) : candidates'[c] = IF c <= n THEN candidates[c]
                                                              ELSE added[c - n]
      <3> DEFINE grown == candidates \o added
      <3>1. added \in Seq(Candidate)
        BY <1>4
      <3> HIDE DEF n
      <3>2. /\ grown \in Seq(Candidate) /\ Len(grown) = Len(candidates) + Len(added)
            /\ \A c \in 1..Len(grown) : grown[c] = IF c <= Len(candidates) THEN candidates[c]
                                                    ELSE added[c - Len(candidates)]
        BY <1>5, <3>1, ConcatProperties
      <3> HIDE DEF grown
      <3>3. grown = candidates'
        BY <1>40 DEF grown
      <3> QED
        BY <3>2, <3>3 DEF n
    <2>2. DOMAIN candidates = 1..n /\ DOMAIN candidates' = 1..(n + Len(order)) /\ Len(added) = Len(order)
      BY <1>4, <1>5, <2>1
    <2> HIDE DEF n
    <2>3. \A c \in 1..n : c \in 1..(n + Len(order)) /\ c <= n
      BY <1>41, <1>5
    <2>4. \A c \in 1..(n + Len(order)) : c > n => c - n \in 1..Len(order) /\ ~(c <= n)
      BY <1>41, <1>5
    <2>5. \A c \in 1..n : candidates'[c] = candidates[c]
      BY <2>1, <2>2, <2>3
    <2>6. \A c \in 1..(n + Len(order)) : c > n => c - n \in 1..Len(order)
                                                /\ candidates'[c] = added[c - n]
      BY <2>1, <2>2, <2>4
    <2> QED
      BY <1>41, <2>1, <2>2, <2>5, <2>6
  <1>7. \A c \in DOMAIN candidates' \ (1..n) : candidates'[c].title \in titles
                                             /\ candidates'[c].decision = 0
    <2> SUFFICES ASSUME NEW c \in DOMAIN candidates' \ (1..n)
                 PROVE  candidates'[c].title \in titles /\ candidates'[c].decision = 0
      OBVIOUS
    <2>1. c > n
      BY <1>5, <1>6
    <2>2. c - n \in 1..Len(order) /\ candidates'[c] = added[c - n]
      BY <1>6, <2>1
    <2> QED
      BY <1>4, <1>41, <2>2
  <1>8. CandidatesOnce'
    <2> SUFFICES ASSUME NEW c \in DOMAIN candidates', NEW d \in DOMAIN candidates',
                        candidates'[c].title = candidates'[d].title
                 PROVE  c = d
      BY DEF CandidatesOnce
    <2>1. \A e \in 1..n : candidates'[e].title \notin titles
      BY <1>2, <1>6 DEF Titled
    <2>2. CASE c \in 1..n /\ d \in 1..n
      BY <1>6, <2>2 DEF HarvestInv, CandidatesOnce
    <2>3. CASE c \notin 1..n /\ d \notin 1..n
      <3>1. c > n /\ d > n /\ c \in Nat /\ d \in Nat
        BY <1>5, <1>6, <2>3
      <3>2. order[c - n] = order[d - n]
        BY <1>41, <1>6, <3>1
      <3>3. c - n = d - n
        BY <1>3, <1>6, <3>1, <3>2
      <3> QED
        BY <1>5, <3>1, <3>3
    <2> QED
      BY <1>7, <2>1, <2>2, <2>3
  <1>9. 1..n \subseteq 1..Len(candidates') /\ n <= Len(candidates') /\ Len(candidates') \in Nat
    BY <1>5, <1>6
  <1>10. HarvestTypes'
    <2>1. [id : Nat, from : 1..n] \subseteq [id : Nat, from : 1..Len(candidates')]
      BY <1>9
    <2> QED
      BY <1>6, <2>1 DEF AddHarvest, HarvestInv, HarvestTypes
  <1>11. PassInv'
    BY DEF AddHarvest, HarvestInv, PassInv, Ancestors
  <1>12. QueueInv'
    <2>1. Seq(Asked(n)) \subseteq Seq(Asked(Len(candidates'))) /\ Resolvings(n) \subseteq Resolvings(Len(candidates'))
      BY <1>5, <1>9, LongerQueue
    <2> QED
      BY <2>1 DEF AddHarvest, HarvestInv, QueueInv
  <1>13. LinksHold'
    <2>1. ASSUME NEW c \in DOMAIN candidates'
          PROVE  Cardinality(Unlinked(c, LinkOf(c))') <= harvestCounts'.faults
      <3>1. CASE c \in 1..n
        <4>1. Unlinked(c, LinkOf(c))' = Unlinked(c, LinkOf(c))
          BY <1>6, <3>1 DEF AddHarvest, Unlinked, LinkOf, AboutToLink, Decided
        <4> QED
          BY <1>6, <3>1, <4>1, StillFew DEF AddHarvest
      <3>2. CASE c \notin 1..n
        <4>1. Unlinked(c, LinkOf(c))' = {}
          BY <3>2 DEF AddHarvest, Unlinked, Decided, HarvestInv, HarvestTypes
        <4>2. harvestCounts'.faults \in Nat
          BY DEF AddHarvest, HarvestInv, HarvestTypes
        <4> QED
          BY <4>1, <4>2, FS_EmptySet
      <3> QED
        BY <3>1, <3>2
    <2>2. resolving.at \in {"linking", "deciding"} => resolving.candidate \in 1..n
      BY DEF HarvestInv, QueueInv, Resolvings, NoResolve
    <2> QED
      BY <1>6, <2>1, <2>2 DEF AddHarvest, HarvestInv, LinksHold
  <1> QED
    BY <1>8, <1>10, <1>11, <1>12, <1>13 DEF HarvestInv

\* A step that leaves the candidates and the pass alone and adds no decision.
LEMMA FewerDecisions ==
  ASSUME HarvestInv, UNCHANGED <<commits, candidates, harvestMark, harvestShown, harvestCut>>,
         harvestPass' = harvestPass \/ harvestPass' = NoPass,
         planDecisions' \subseteq planDecisions,
         harvestCounts' \in [resolves : Nat, deletions : Nat, faults : Nat],
         QueueInv',
         resolving'.at \in {"linking", "deciding"} =>
           /\ resolving'.action = "accept"
           /\ resolving'.decision = candidates[resolving'.candidate].decision,
         resolving'.at = "deciding" => \A d \in planDecisions' : d.id # resolving'.decision,
         \/ /\ \A c \in DOMAIN candidates : LinkOf(c)' = LinkOf(c)
            /\ harvestCounts'.faults = harvestCounts.faults
         \/ harvestCounts'.faults = harvestCounts.faults + 1
  PROVE  HarvestInv'
  <1>1. HarvestTypes'
    BY FS_Subset DEF HarvestInv, HarvestTypes
  <1>2. PassInv'
    BY DEF HarvestInv, PassInv, Ancestors, NoPass
  <1>3. CandidatesOnce'
    BY DEF HarvestInv, CandidatesOnce
  <1>4. ASSUME NEW c \in DOMAIN candidates
        PROVE  Cardinality(Unlinked(c, LinkOf(c))') <= harvestCounts'.faults
    <2>1. Unlinked(c, LinkOf(c))' \subseteq Decided(c)
      BY DEF Unlinked, Decided
    <2>2. LinkOf(c)' = LinkOf(c) => Unlinked(c, LinkOf(c))' \subseteq Unlinked(c, LinkOf(c))
      BY DEF Unlinked, Decided
    <2> QED
      BY <2>1, <2>2, StillFew
  <1>5. LinksHold'
    BY <1>4 DEF HarvestInv, LinksHold
  <1> QED
    BY <1>1, <1>2, <1>3, <1>5 DEF HarvestInv

LEMMA FewerDecisionsSteps ==
  ASSUME HarvestInv,
         \/ \E d \in planDecisions : DeleteDecision(d)
         \/ \E c \in DOMAIN candidates, action \in {"accept", "reject"} : AskResolve(c, action)
         \/ ResolveReads \/ ResolveLinks \/ ResolveThrows \/ HarvestServerCrashes
  PROVE  HarvestInv'
  <1>0. harvestCounts \in [resolves : Nat, deletions : Nat, faults : Nat]
    BY DEF HarvestInv, HarvestTypes
  <1>00. /\ QueueInv
         /\ DOMAIN candidates = 1..Len(candidates)
         /\ \A c \in DOMAIN candidates : candidates[c] \in Candidate
    BY DEF HarvestInv, HarvestTypes
  <1>1. ASSUME NEW d \in planDecisions, DeleteDecision(d)
        PROVE  HarvestInv'
    <2>1. /\ harvestCounts' \in [resolves : Nat, deletions : Nat, faults : Nat]
          /\ harvestCounts'.faults = harvestCounts.faults
      BY <1>1, CountsAre DEF DeleteDecision
    <2>2. QueueInv'
      BY <1>00, <1>1 DEF DeleteDecision, QueueInv
    <2>3. \A c \in DOMAIN candidates : LinkOf(c)' = LinkOf(c)
      BY <1>1 DEF DeleteDecision, LinkOf, AboutToLink
    <2>4. /\ UNCHANGED <<commits, candidates, harvestMark, harvestShown, harvestCut, harvestPass, resolving>>
          /\ planDecisions' \subseteq planDecisions
      BY <1>1 DEF DeleteDecision
    <2>5. LinksHold
      BY DEF HarvestInv
    <2> QED
      BY <2>1, <2>2, <2>3, <2>4, <2>5, FewerDecisions DEF LinksHold
  <1>2. ASSUME NEW c \in DOMAIN candidates, NEW action \in {"accept", "reject"}, AskResolve(c, action)
        PROVE  HarvestInv'
    <2>1. /\ harvestCounts' \in [resolves : Nat, deletions : Nat, faults : Nat]
          /\ harvestCounts'.faults = harvestCounts.faults
      BY <1>2, CountsAre DEF AskResolve
    <2>2. QueueInv'
      <3>1. [candidate |-> c, action |-> action] \in Asked(Len(candidates))
        BY <1>00 DEF Asked
      <3> QED
        BY <1>00, <1>2, <3>1 DEF AskResolve, QueueInv
    <2>3. \A e \in DOMAIN candidates : LinkOf(e)' = LinkOf(e)
      BY <1>2 DEF AskResolve, LinkOf, AboutToLink
    <2>4. UNCHANGED <<commits, candidates, harvestMark, harvestShown, harvestCut, harvestPass, planDecisions, resolving>>
      BY <1>2 DEF AskResolve
    <2>5. LinksHold
      BY DEF HarvestInv
    <2> QED
      BY <2>1, <2>2, <2>3, <2>4, <2>5, FewerDecisions DEF LinksHold
  <1>3. CASE ResolveReads
    <2> DEFINE next == Head(resolveQueue)
    <2>1. next \in Asked(Len(candidates)) /\ Tail(resolveQueue) \in Seq(Asked(Len(candidates)))
      BY <1>00, <1>3, HeadTailProperties DEF ResolveReads, QueueInv
    <2>2. next.candidate \in 1..Len(candidates) /\ next.action \in {"accept", "reject"}
      BY <2>1 DEF Asked
    <2>3. candidates[next.candidate].decision \in Nat
      BY <1>00, <2>2 DEF Candidate
    <2>4. /\ resolving' = [at |-> IF next.action = "accept" THEN "linking" ELSE "writing",
                           candidate |-> next.candidate, action |-> next.action,
                           decision |-> candidates[next.candidate].decision]
          /\ resolveQueue' = Tail(resolveQueue)
          /\ UNCHANGED <<commits, candidates, harvestMark, harvestShown, harvestCut, harvestPass, planDecisions,
                         harvestCounts>>
          /\ resolving.at = "idle"
      BY <1>3 DEF ResolveReads
    <2> HIDE DEF next
    <2>5. QueueInv'
      BY <2>1, <2>2, <2>3, <2>4 DEF QueueInv, Resolvings, Asked
    <2>6. \A e \in DOMAIN candidates : LinkOf(e)' = LinkOf(e)
      BY <2>2, <2>4 DEF LinkOf, AboutToLink
    <2>7. /\ resolving'.at # "deciding"
          /\ resolving'.at = "linking" => resolving'.action = "accept"
                                  /\ resolving'.decision = candidates[resolving'.candidate].decision
      BY <2>4
    <2> QED
      BY <1>0, <2>4, <2>5, <2>6, <2>7, FewerDecisions
  <1>4. CASE ResolveLinks
    <2>1. /\ resolving \in Resolvings(Len(candidates)) /\ resolving.at = "linking"
          /\ LinksHold
      BY <1>00, <1>4 DEF ResolveLinks, QueueInv, NoResolve, HarvestInv
    <2> DEFINE next == IF \E d \in planDecisions : d.id = resolving.decision THEN "writing"
                       ELSE "deciding"
    <2>2. /\ resolving' = [resolving EXCEPT !.at = next]
          /\ UNCHANGED <<commits, candidates, harvestMark, harvestShown, harvestCut, harvestPass, planDecisions,
                         resolveQueue, harvestCounts>>
      BY <1>4 DEF ResolveLinks
    <2>3. next \in {"writing", "deciding"}
          /\ (next = "deciding" => \A d \in planDecisions : d.id # resolving.decision)
      OBVIOUS
    <2> HIDE DEF next
    <2>4. /\ resolving' \in Resolvings(Len(candidates))
          /\ resolving'.at = next /\ resolving'.action = resolving.action
          /\ resolving'.candidate = resolving.candidate /\ resolving'.decision = resolving.decision
      BY <2>1, <2>2, <2>3 DEF Resolvings
    <2>5. QueueInv'
      BY <1>00, <2>2, <2>4 DEF QueueInv
    <2>6. \A e \in DOMAIN candidates : LinkOf(e)' = LinkOf(e)
      BY <2>1, <2>2, <2>4 DEF LinkOf, AboutToLink, LinksHold
    <2>7. /\ resolving.action = "accept"
          /\ resolving.decision = candidates[resolving.candidate].decision
      BY <2>1 DEF LinksHold
    <2> QED
      BY <1>0, <2>2, <2>3, <2>4, <2>5, <2>6, <2>7, FewerDecisions
  <1>5. CASE ResolveThrows \/ HarvestServerCrashes
    <2>1. /\ harvestCounts' \in [resolves : Nat, deletions : Nat, faults : Nat]
          /\ harvestCounts'.faults = harvestCounts.faults + 1
      BY <1>5, CountsAre DEF ResolveThrows, HarvestServerCrashes, HarvestFault
    <2>2. /\ UNCHANGED <<commits, candidates, harvestMark, harvestShown, harvestCut, planDecisions>>
          /\ harvestPass' = harvestPass \/ harvestPass' = NoPass
          /\ resolving' = NoResolve
          /\ resolveQueue' = resolveQueue \/ resolveQueue' = <<>>
      BY <1>5 DEF ResolveThrows, HarvestServerCrashes
    <2>3. QueueInv'
      <3> DEFINE Q == Asked(Len(candidates))
      <3>1. resolveQueue \in Seq(Q) /\ <<>> \in Seq(Q)
        BY <1>00 DEF QueueInv
      <3>2. Q' = Q
        BY <2>2
      <3> HIDE DEF Q
      <3>3. resolveQueue' \in Seq(Q)
        BY <2>2, <3>1
      <3> QED
        BY <2>2, <3>2, <3>3 DEF QueueInv, Q
    <2> QED
      BY <2>1, <2>2, <2>3, FewerDecisions DEF NoResolve
  <1> QED
    BY <1>1, <1>2, <1>3, <1>4, <1>5

LEMMA NextIsNew ==
  ASSUME HarvestTypes
  PROVE  NextDecision \in Nat /\ \A d \in planDecisions : d.id < NextDecision
  <1> DEFINE ids == {d.id : d \in planDecisions} \cup {0}
  <1>1. \A d \in planDecisions : d.id \in Nat /\ d.id \in ids
    BY DEF HarvestTypes
  <1>2. ids \subseteq Nat /\ ids # {}
    BY <1>1
  <1>3. PICK bound \in Nat : \A n \in ids : n <= bound
    <2>1. PICK b \in Nat : \A d \in planDecisions : d.id <= b
      BY DEF HarvestTypes
    <2>2. \A n \in ids : n = 0 \/ \E d \in planDecisions : n = d.id
      OBVIOUS
    <2>3. \A n \in ids : n <= b
      BY <2>1, <2>2
    <2> QED
      BY <2>3
  <1>4. \E n \in ids : \A d \in planDecisions : d.id <= n
    <2> HIDE DEF ids
    <2> QED
      BY <1>1, <1>2, <1>3, BoundedHasGreatest
  <1> DEFINE last == CHOOSE n \in ids : \A d \in planDecisions : d.id <= n
  <1>5. last \in ids /\ \A d \in planDecisions : d.id <= last
    BY <1>4
  <1>6. NextDecision = 1 + last
    BY DEF NextDecision
  <1> HIDE DEF last, ids
  <1>7. last \in Nat /\ NextDecision \in Nat /\ NextDecision > last
    BY <1>2, <1>5, <1>6
  <1> QED
    BY <1>1, <1>5, <1>7

LEMMA UpsertDecisionKeeps == HarvestInv /\ UpsertDecision => HarvestInv'
  <1> SUFFICES ASSUME HarvestInv, UpsertDecision
               PROVE  HarvestInv'
    OBVIOUS
  <1> DEFINE c == resolving.candidate
             new == [id |-> NextDecision, from |-> c]
  <1>1. /\ resolving \in Resolvings(Len(candidates)) /\ resolving.at = "deciding"
        /\ LinksHold /\ QueueInv
    BY DEF UpsertDecision, HarvestInv, QueueInv, NoResolve
  <1>2. NextDecision \in Nat /\ \A d \in planDecisions : d.id < NextDecision /\ d.id # NextDecision
    <2>1. \A d \in planDecisions : d.id \in Nat
      BY DEF HarvestInv, HarvestTypes
    <2> QED
      BY <2>1, NextIsNew DEF HarvestInv
  <1>3. /\ planDecisions' = planDecisions \cup {new}
        /\ resolving' = [resolving EXCEPT !.at = "writing", !.decision = NextDecision]
        /\ UNCHANGED <<commits, candidates, harvestMark, harvestPass, resolveQueue, harvestShown,
                       harvestCut, harvestCounts>>
    BY DEF UpsertDecision
  <1> DEFINE next == NextDecision
  <1>4. next \in Nat /\ \A d \in planDecisions : d.id < next /\ d.id # next
    BY <1>2
  <1>5. c \in 1..Len(candidates) /\ DOMAIN candidates = 1..Len(candidates)
    BY <1>1 DEF Resolvings, HarvestInv, HarvestTypes
  <1>6. /\ planDecisions' = planDecisions \cup {[id |-> next, from |-> c]}
        /\ resolving' = [resolving EXCEPT !.at = "writing", !.decision = next]
    BY <1>3
  <1> HIDE DEF next
  <1>7. /\ resolving' \in Resolvings(Len(candidates))
        /\ resolving'.at = "writing" /\ resolving'.action = resolving.action
        /\ resolving'.candidate = c /\ resolving'.decision = next
    BY <1>1, <1>4, <1>6 DEF Resolvings
  <1>8. HarvestTypes'
    <2>1. planDecisions' \subseteq [id : Nat, from : 1..Len(candidates)]
      BY <1>4, <1>5, <1>6 DEF HarvestInv, HarvestTypes
    <2>2. \A d \in planDecisions' : d.id <= next
      BY <1>4, <1>6 DEF HarvestInv, HarvestTypes
    <2>3. IsFiniteSet(planDecisions')
      BY <1>6, FS_AddElement DEF HarvestInv, HarvestTypes
    <2> QED
      BY <1>3, <1>4, <2>1, <2>2, <2>3 DEF HarvestInv, HarvestTypes
  <1>9. PassInv' /\ CandidatesOnce'
    BY <1>3 DEF HarvestInv, PassInv, Ancestors, CandidatesOnce
  <1>10. QueueInv'
    BY <1>1, <1>3, <1>7 DEF QueueInv
  <1>11. LinksHold'
    <2>1. ASSUME NEW e \in DOMAIN candidates
          PROVE  Cardinality(Unlinked(e, LinkOf(e))') <= harvestCounts'.faults
      <3>1. LinkOf(e) = candidates[e].decision
        BY <1>1 DEF LinkOf, AboutToLink
      <3>2. CASE e = c
        <4>1. LinkOf(e)' = next
          BY <1>1, <1>7, <3>2 DEF LinkOf, AboutToLink, LinksHold
        <4>2. Unlinked(e, LinkOf(e))' = Decided(e)
          BY <1>4, <1>6, <4>1 DEF Unlinked, Decided
        <4>3. Unlinked(e, LinkOf(e)) = Decided(e)
          BY <1>1, <3>1, <3>2 DEF Unlinked, Decided, LinksHold
        <4> QED
          BY <1>3, <4>2, <4>3, StillFew
      <3>3. CASE e # c
        <4>1. LinkOf(e)' = LinkOf(e)
          BY <1>3, <1>7, <3>1, <3>3 DEF LinkOf, AboutToLink
        <4>2. Unlinked(e, LinkOf(e))' = Unlinked(e, LinkOf(e))
          BY <1>6, <3>3, <4>1 DEF Unlinked, Decided
        <4> QED
          BY <1>3, <4>2, StillFew
      <3> QED
        BY <3>2, <3>3
    <2>2. \A d, e \in planDecisions' : d.id = e.id => d = e
      BY <1>1, <1>4, <1>6 DEF LinksHold
    <2> QED
      BY <1>3, <1>7, <2>1, <2>2 DEF LinksHold
  <1> QED
    BY <1>8, <1>9, <1>10, <1>11 DEF HarvestInv

LEMMA ResolveWritesKeeps == HarvestInv /\ ResolveWrites => HarvestInv'
  <1> SUFFICES ASSUME HarvestInv, ResolveWrites
               PROVE  HarvestInv'
    OBVIOUS
  <1> DEFINE c == resolving.candidate
             written == IF resolving.action = "accept"
                        THEN [candidates[c] EXCEPT !.status = "accepted", !.decision = resolving.decision]
                        ELSE [candidates[c] EXCEPT !.status = "rejected"]
  <1>1. /\ resolving \in Resolvings(Len(candidates)) /\ resolving.at = "writing"
        /\ LinksHold /\ QueueInv
    BY DEF ResolveWrites, HarvestInv, QueueInv, NoResolve
  <1>2. /\ c \in 1..Len(candidates) /\ resolving.decision \in Nat
        /\ DOMAIN candidates = 1..Len(candidates)
        /\ candidates \in Seq(Candidate) /\ candidates[c] \in Candidate
    BY <1>1, ElementOfSeq DEF Resolvings, HarvestInv, HarvestTypes
  <1>3. /\ resolving' = NoResolve
        /\ UNCHANGED <<commits, harvestMark, planDecisions, harvestPass, resolveQueue, harvestShown,
                       harvestCut, harvestCounts>>
    BY DEF ResolveWrites
  <1>4. candidates' = [candidates EXCEPT ![c] = written]
    BY <1>2 DEF ResolveWrites
  <1>5. /\ written \in Candidate /\ written.title = candidates[c].title
        /\ written.decision = IF resolving.action = "accept" THEN resolving.decision
                              ELSE candidates[c].decision
    BY <1>2 DEF Candidate
  <1> HIDE DEF written
  <1>6. /\ candidates' \in Seq(Candidate) /\ Len(candidates') = Len(candidates)
        /\ DOMAIN candidates' = DOMAIN candidates
        /\ \A e \in DOMAIN candidates : candidates'[e] = IF e = c THEN written ELSE candidates[e]
    BY <1>2, <1>4, <1>5
  <1>7. HarvestTypes' /\ PassInv'
    BY <1>3, <1>6 DEF HarvestInv, HarvestTypes, PassInv, Ancestors
  <1>8. CandidatesOnce'
    <2>1. \A e \in DOMAIN candidates : candidates'[e].title = candidates[e].title
      BY <1>5, <1>6
    <2> QED
      BY <1>6, <2>1 DEF HarvestInv, CandidatesOnce
  <1>9. QueueInv'
    BY <1>1, <1>3, <1>6 DEF QueueInv
  <1>10. LinksHold'
    <2>1. ASSUME NEW e \in DOMAIN candidates
          PROVE  Cardinality(Unlinked(e, LinkOf(e))') <= harvestCounts'.faults
      <3>1. LinkOf(e)' = candidates'[e].decision
        BY <1>3 DEF LinkOf, AboutToLink, NoResolve
      <3>2. candidates'[e].decision = LinkOf(e)
        BY <1>1, <1>5, <1>6 DEF LinkOf, AboutToLink
      <3>3. Unlinked(e, LinkOf(e))' = Unlinked(e, LinkOf(e))
        BY <1>3, <3>1, <3>2 DEF Unlinked, Decided
      <3> QED
        BY <1>3, <3>3, StillFew
    <2> QED
      BY <1>1, <1>3, <1>6, <2>1 DEF LinksHold, NoResolve
  <1> QED
    BY <1>7, <1>8, <1>9, <1>10 DEF HarvestInv

LEMMA HarvestStart == HarvestInit => HarvestInv
  <1> SUFFICES ASSUME HarvestInit
               PROVE  HarvestInv
    OBVIOUS
  <1>1. /\ candidates = <<>> /\ planDecisions = {} /\ DOMAIN candidates = {} /\ Len(candidates) = 0
        /\ candidates \in Seq(Candidate)
    BY DEF HarvestInit
  <1>2. HarvestTypes
    <2>1. \A d \in planDecisions : d.id <= 0
      BY <1>1
    <2> QED
      BY <1>1, <2>1, FS_EmptySet DEF HarvestInit, HarvestTypes
  <1>3. PassInv
    BY DEF HarvestInit, PassInv, Ancestors, NoPass
  <1>4. QueueInv /\ CandidatesOnce /\ LinksHold
    BY <1>1 DEF HarvestInit, QueueInv, CandidatesOnce, LinksHold, NoResolve
  <1> QED
    BY <1>2, <1>3, <1>4 DEF HarvestInv

LEMMA HarvestStep == HarvestInv /\ [HarvestNext]_harvestVars => HarvestInv'
  <1> SUFFICES ASSUME HarvestInv, [HarvestNext]_harvestVars
               PROVE  HarvestInv'
    OBVIOUS
  <1>1. CASE UNCHANGED harvestVars
    <2>1. PassInv'
      BY <1>1 DEF harvestVars, HarvestInv, PassInv, Ancestors
    <2>2. /\ harvestCounts.faults \in Nat /\ harvestCounts'.faults >= harvestCounts.faults
          /\ commits \in Nat
          /\ harvestCounts \in [resolves : Nat, deletions : Nat, faults : Nat]
      BY <1>1 DEF harvestVars, HarvestInv, HarvestTypes
    <2> QED
      BY <1>1, <2>1, <2>2, HarvestFrame DEF harvestVars
  <1>2. CASE HarvestNext
    BY <1>2, PassKeeps, AddHarvestKeeps, FewerDecisionsSteps, UpsertDecisionKeeps,
       ResolveWritesKeeps DEF HarvestNext
  <1> QED
    BY <1>1, <1>2

\* However passes, resolves, deletions by hand, throwing calls and crashes interleave,
\* no title is asked about twice, no candidate has more decisions than one and the calls
\* that died, and the mark skips no commit whose proposals were not stored.
THEOREM HarvestsOnce == HarvestSpec => []HarvestedOnce
  <1>1. HarvestInit => HarvestInv
    BY HarvestStart
  <1>2. HarvestInv /\ [HarvestNext]_harvestVars => HarvestInv'
    BY HarvestStep
  <1>3. HarvestInv => HarvestedOnce
    BY HarvestHolds
  <1> QED
    BY <1>1, <1>2, <1>3, PTL DEF HarvestSpec

-----------------------------------------------------------------------------
\* The broadcasts of one session, and the pages that follow them.  A queue of events is
\* read by what it ends with: the last of its events about a thing, or what was said
\* before it.
Statuses == QuietStatus \cup {"none", "starting", "waiting-for-answer", "running", "ended", "idle"}
StatusTypes == {"sessions", "session-updated"}
KeptEvents == [type : {"session-updated"}, id : {0}, value : Statuses]
                \cup [type : {"block"}, id : Nat, value : {0}]
                \cup [type : {"question-round", "round-answered"}, id : RoundIds, value : Nat \ {0}]
SentEvents == KeptEvents \cup [type : {"sessions"}, id : {0}, value : Statuses]
AskedRounds == [id : RoundIds, ask : Nat \ {0}]
LiveSessions ==
  [known : {TRUE}, status : Statuses, blocks : SUBSET Nat, blockCount : Nat,
   rounds : Seq(AskedRounds), answers : [RoundIds -> Nat], pending : SUBSET RoundIds,
   orphaned : SUBSET RoundIds]
Copies ==
  [status : Statuses, blocks : SUBSET Nat, rounds : [RoundIds -> [ask : Nat, answers : Nat]],
   early : [RoundIds -> Nat]]

StreamTypes ==
  /\ live \in LiveSessions \cup {NoSession} /\ serving \in BOOLEAN
  /\ chain \in Seq(KeptEvents) /\ transcript \in Seq(KeptEvents)
  /\ page \in [Viewers -> {"closed", "open", "greeted"}]
  /\ inFlight \in [Viewers -> Seq(SentEvents)] /\ shown \in [Viewers -> Copies]
  /\ asked \in Nat /\ appendFailed \in BOOLEAN /\ ownerless \in SUBSET RoundIds

\* A server that is down has no session and no socket, and one that knows no
\* session broadcasts nothing.
StreamStops ==
  /\ ~serving => live = NoSession /\ \A c \in Viewers : page[c] = "closed"
  /\ live = NoSession => chain = << >>
  /\ \A c \in Viewers : page[c] = "closed" => inFlight[c] = << >>

\* The numbers that the rounds of the session have; answers without one are known.
Numbers == {live.rounds[k].id : k \in DOMAIN live.rounds}
LiveOK ==
  Known => /\ IsFiniteSet(live.blocks)
           /\ live.pending \cup live.orphaned \subseteq Numbers
           /\ \A r \in RoundIds : live.answers[r] # 0 => r \in Numbers \cup ownerless

\* Rounds are asked as 1, 2, ...
Asks(s) == {i \in DOMAIN s : s[i].type = "question-round"}
Numbered(s) == \A i \in Asks(s) : s[i].id = Cardinality({j \in Asks(s) : j <= i})
NumbersHold ==
  ~appendFailed =>
    /\ Numbered(transcript \o chain)
    /\ Known => /\ Len(live.rounds) = Cardinality(Asks(transcript \o chain))
                /\ \A k \in DOMAIN live.rounds : live.rounds[k].id = k

\* What the events of some types and an id in a queue end with, from what was said before.
About(e, types, id) == e.type \in types /\ e.id = id
Ends(q, types, id, value, before) ==
  \/ /\ \A i \in DOMAIN q : ~About(q[i], types, id)
     /\ value = before
  \/ \E i \in DOMAIN q :
       /\ About(q[i], types, id) /\ q[i].value = value
       /\ \A j \in DOMAIN q : j > i => ~About(q[j], types, id)

\* The answers a page holds of a round, that it was asked included.
Held(copy, r) == IF copy.early[r] # 0 THEN copy.early[r] ELSE copy.rounds[r].answers
NewestAsk(r) == IF NewestRound(r) = 0 THEN 0 ELSE live.rounds[NewestRound(r)].ask

CopyOK(copy) ==
  \A r \in RoundIds : /\ copy.rounds[r].ask = 0 => copy.rounds[r].answers = 0
                      /\ copy.early[r] # 0 => copy.rounds[r].ask = 0
StatusArrives(c) ==
  page[c] = "greeted" =>
    Ends(inFlight[c], StatusTypes, 0, IF Known THEN live.status ELSE "none", shown[c].status)
BlocksIn(q) == {q[i].id : i \in {j \in DOMAIN q : q[j].type = "block"}}
BlocksArrive(c) ==
  Known => /\ shown[c].blocks \cup BlocksIn(inFlight[c]) \subseteq live.blocks
           /\ page[c] = "greeted" => live.blocks \subseteq shown[c].blocks \cup BlocksIn(inFlight[c])
AskArrives(c, r) ==
  \/ Ends(inFlight[c], {"question-round"}, r, NewestAsk(r), shown[c].rounds[r].ask)
  \/ /\ page[c] = "open"
     /\ Ends(inFlight[c], {"question-round"}, r, 0, shown[c].rounds[r].ask)
AnswersArrive(c, r) ==
  \/ Ends(inFlight[c], {"round-answered"}, r, live.answers[r], Held(shown[c], r))
  \/ /\ page[c] = "open" \/ r \in ownerless
     /\ Ends(inFlight[c], {"round-answered"}, r, 0, Held(shown[c], r))
PageOK(c) ==
  page[c] # "closed" =>
    /\ CopyOK(shown[c]) /\ StatusArrives(c) /\ BlocksArrive(c)
    /\ Known => \A r \in RoundIds : AskArrives(c, r) /\ AnswersArrive(c, r)
PagesOK == \A c \in Viewers : PageOK(c)

StreamInv == StreamTypes /\ StreamStops /\ LiveOK /\ NumbersHold /\ PagesOK

-----------------------------------------------------------------------------
\* Appends none of which failed leave the broadcasts as they were.
LEMMA UpToIsAscending ==
  ASSUME NEW n \in Nat
  PROVE  Ascending(1..n) = [k \in 1..n |-> k]
<1> DEFINE A == Ascending(1..n)
<1>1. IsFiniteSet(1..n) /\ Cardinality(1..n) = n /\ 1..n \subseteq Nat
  BY FS_Interval
<1>2. A \in [1..n -> 1..n] /\ \A k \in 1..n : Cardinality({q \in 1..n : q <= A[k]}) = k
  BY <1>1, AscendingIsOrder
<1>3. \A k \in 1..n : A[k] = k
  <2> TAKE k \in 1..n
  <2>1. {q \in 1..n : q <= A[k]} = 1..A[k] /\ A[k] \in Nat
    BY <1>2
  <2>2. Cardinality(1..A[k]) = A[k]
    BY <2>1, FS_Interval
  <2> QED BY <2>1, <2>2, <1>2
<1> QED BY <1>2, <1>3

-----------------------------------------------------------------------------
\* What a queue ends with: of the empty one, of one that grows and of its tail.
LEMMA EndsNil ==
  ASSUME NEW types, NEW id, NEW value, NEW before
  PROVE  Ends(<< >>, types, id, value, before) <=> value = before
BY DEF Ends

LEMMA EndsOne ==
  ASSUME NEW e, NEW types, NEW id, NEW before
  PROVE  Ends(<<e>>, types, id, IF About(e, types, id) THEN e.value ELSE before, before)
<1>1. Len(<<e>>) = 1 /\ DOMAIN <<e>> = {1} /\ <<e>>[1] = e
  OBVIOUS
<1> QED BY <1>1 DEF Ends

LEMMA EndsSilent ==
  ASSUME NEW q, NEW types, NEW id, NEW before, \A i \in DOMAIN q : ~About(q[i], types, id)
  PROVE  Ends(q, types, id, before, before)
BY DEF Ends

LEMMA EndsConcat ==
  ASSUME NEW S, NEW q \in Seq(S), NEW p \in Seq(S), NEW types, NEW id,
         NEW value, NEW between, NEW before,
         Ends(q, types, id, between, before), Ends(p, types, id, value, between)
  PROVE  Ends(q \o p, types, id, value, before)
<1>1. /\ Len(q) \in Nat /\ Len(p) \in Nat /\ DOMAIN q = 1..Len(q) /\ DOMAIN p = 1..Len(p)
      /\ DOMAIN (q \o p) = 1..(Len(q) + Len(p))
      /\ \A i \in 1..Len(q) : (q \o p)[i] = q[i]
      /\ \A i \in 1..Len(p) : Len(q) + i \in DOMAIN (q \o p) /\ (q \o p)[Len(q) + i] = p[i]
      /\ \A i \in DOMAIN (q \o p) : i \in 1..Len(q) \/ \E k \in 1..Len(p) : i = Len(q) + k
  <2>1. q \o p \in Seq(S) /\ Len(q \o p) = Len(q) + Len(p) /\ Len(q) \in Nat /\ Len(p) \in Nat
    BY ConcatProperties, LenProperties
  <2>2. \A i \in 1..Len(q) + Len(p) : (q \o p)[i] = IF i <= Len(q) THEN q[i] ELSE p[i - Len(q)]
    BY ConcatProperties
  <2>3. \A i \in 1..Len(p) : Len(q) + i \in 1..Len(q) + Len(p) /\ ~(Len(q) + i <= Len(q))
                               /\ Len(q) + i - Len(q) = i
    BY <2>1
  <2>4. \A i \in 1..Len(p) : (q \o p)[Len(q) + i] = p[i]
    BY <2>2, <2>3
  <2>5. \A i \in 1..Len(q) + Len(p) : i \in 1..Len(q) \/ (i - Len(q) \in 1..Len(p) /\ i = Len(q) + (i - Len(q)))
    BY <2>1
  <2>6. \A i \in 1..Len(q) : (q \o p)[i] = q[i]
    BY <2>1, <2>2
  <2>7. DOMAIN (q \o p) = 1..(Len(q) + Len(p)) /\ DOMAIN q = 1..Len(q) /\ DOMAIN p = 1..Len(p)
    BY <2>1, LenProperties
  <2> QED BY <2>1, <2>3, <2>4, <2>5, <2>6, <2>7
<1>2. CASE \A k \in DOMAIN p : ~About(p[k], types, id)
  <2>1. value = between
    BY <1>2 DEF Ends
  <2>2. CASE \A i \in DOMAIN q : ~About(q[i], types, id)
    <3>1. between = before
      BY <2>2 DEF Ends
    <3>2. \A i \in DOMAIN (q \o p) : ~About((q \o p)[i], types, id)
      BY <1>1, <1>2, <2>2
    <3> QED BY <2>1, <3>1, <3>2 DEF Ends
  <2>3. CASE \E i \in DOMAIN q : About(q[i], types, id)
    <3>1. PICK i \in DOMAIN q : /\ About(q[i], types, id) /\ q[i].value = between
                                /\ \A j \in DOMAIN q : j > i => ~About(q[j], types, id)
      BY <2>3 DEF Ends
    <3>2. i \in DOMAIN (q \o p) /\ (q \o p)[i] = q[i]
      BY <1>1
    <3>3. \A j \in DOMAIN (q \o p) : j > i => ~About((q \o p)[j], types, id)
      BY <1>1, <1>2, <3>1
    <3> QED BY <2>1, <3>1, <3>2, <3>3 DEF Ends
  <2> QED BY <2>2, <2>3
<1>3. CASE \E k \in DOMAIN p : About(p[k], types, id)
  <2>1. PICK k \in DOMAIN p : /\ About(p[k], types, id) /\ p[k].value = value
                              /\ \A j \in DOMAIN p : j > k => ~About(p[j], types, id)
    BY <1>3 DEF Ends
  <2>2. Len(q) + k \in DOMAIN (q \o p) /\ (q \o p)[Len(q) + k] = p[k]
    BY <1>1
  <2>3. ASSUME NEW j \in DOMAIN (q \o p), j > Len(q) + k PROVE ~About((q \o p)[j], types, id)
    <3>1. PICK m \in 1..Len(p) : j = Len(q) + m
      BY <1>1, <2>3
    <3>2. m > k /\ m \in DOMAIN p
      BY <1>1, <2>3, <3>1
    <3> QED BY <1>1, <2>1, <3>1, <3>2
  <2> QED BY <2>1, <2>2, <2>3 DEF Ends
<1> QED BY <1>2, <1>3

LEMMA EndsTail ==
  ASSUME NEW S, NEW q \in Seq(S), q # << >>, NEW types, NEW id, NEW value, NEW before,
         Ends(q, types, id, value, before)
  PROVE  Ends(Tail(q), types, id, value,
              IF About(Head(q), types, id) THEN Head(q).value ELSE before)
<1>1. /\ Len(q) \in Nat /\ DOMAIN q = 1..Len(q) /\ 1 \in DOMAIN q /\ Head(q) = q[1]
      /\ DOMAIN Tail(q) = 1..(Len(q) - 1)
      /\ \A i \in DOMAIN Tail(q) : Tail(q)[i] = q[i + 1] /\ i + 1 \in DOMAIN q
  <2>1. Len(q) \in Nat \ {0} /\ Tail(q) \in Seq(S) /\ Len(Tail(q)) = Len(q) - 1
    BY EmptySeq, HeadTailProperties
  <2>2. DOMAIN Tail(q) = 1..(Len(q) - 1) /\ DOMAIN q = 1..Len(q) /\ Head(q) = q[1]
    BY <2>1
  <2>3. \A i \in DOMAIN Tail(q) : Tail(q)[i] = q[i + 1]
    BY <2>1, <2>2, HeadTailProperties
  <2> QED BY <2>1, <2>2, <2>3
<1>2. CASE \A i \in DOMAIN q : ~About(q[i], types, id)
  <2>1. \A i \in DOMAIN Tail(q) : ~About(Tail(q)[i], types, id)
    BY <1>1, <1>2
  <2>2. ~About(Head(q), types, id) /\ value = before
    BY <1>1, <1>2 DEF Ends
  <2> QED BY <2>1, <2>2 DEF Ends
<1>3. CASE \E i \in DOMAIN q : About(q[i], types, id)
  <2>1. PICK i \in DOMAIN q : /\ About(q[i], types, id) /\ q[i].value = value
                              /\ \A j \in DOMAIN q : j > i => ~About(q[j], types, id)
    BY <1>3 DEF Ends
  <2>2. CASE i = 1
    <3>1. \A j \in DOMAIN Tail(q) : ~About(Tail(q)[j], types, id)
      BY <1>1, <2>1, <2>2
    <3> QED BY <1>1, <2>1, <2>2, <3>1 DEF Ends
  <2>3. CASE i # 1
    <3>1. i - 1 \in DOMAIN Tail(q) /\ Tail(q)[i - 1] = q[i]
      BY <1>1, <2>3
    <3>2. \A j \in DOMAIN Tail(q) : j > i - 1 => ~About(Tail(q)[j], types, id)
      BY <1>1, <2>1, <2>3
    <3> QED BY <2>1, <3>1, <3>2 DEF Ends
  <2> QED BY <2>2, <2>3
<1> QED BY <1>2, <1>3

\* A queue that grows by one event.
LEMMA EndsAppend ==
  ASSUME NEW S, NEW q \in Seq(S), NEW e \in S, NEW types, NEW id, NEW value, NEW before,
         Ends(q, types, id, value, before)
  PROVE  Ends(q \o <<e>>, types, id, IF About(e, types, id) THEN e.value ELSE value, before)
<1>1. Ends(<<e>>, types, id, IF About(e, types, id) THEN e.value ELSE value, value)
  BY EndsOne
<1>2. <<e>> \in Seq(S)
  OBVIOUS
<1> QED BY <1>1, <1>2, EndsConcat

\* What was said before does not matter to a queue that speaks of it.
LEMMA EndsElsewhere ==
  ASSUME NEW q, NEW types, NEW id, NEW value, NEW before, NEW other,
         Ends(q, types, id, value, before)
  PROVE  Ends(q, types, id, value, other) \/ Ends(q, types, id, other, other)
BY DEF Ends

LEMMA BlocksConcat ==
  ASSUME NEW S, NEW q \in Seq(S), NEW p \in Seq(S)
  PROVE  BlocksIn(q \o p) = BlocksIn(q) \cup BlocksIn(p)
<1>1. /\ Len(q) \in Nat /\ Len(p) \in Nat /\ DOMAIN q = 1..Len(q) /\ DOMAIN p = 1..Len(p)
      /\ DOMAIN (q \o p) = 1..(Len(q) + Len(p))
      /\ \A i \in 1..(Len(q) + Len(p)) : (q \o p)[i] = IF i <= Len(q) THEN q[i] ELSE p[i - Len(q)]
  BY ConcatProperties, LenProperties
<1>2. ASSUME NEW i \in DOMAIN (q \o p), (q \o p)[i].type = "block"
      PROVE  (q \o p)[i].id \in BlocksIn(q) \cup BlocksIn(p)
  <2>1. CASE i <= Len(q)
    BY <1>1, <1>2, <2>1 DEF BlocksIn
  <2>2. CASE ~(i <= Len(q))
    <3>1. i - Len(q) \in 1..Len(p) /\ (q \o p)[i] = p[i - Len(q)]
      BY <1>1, <2>2
    <3> QED BY <1>1, <1>2, <3>1 DEF BlocksIn
  <2> QED BY <2>1, <2>2
<1>3. ASSUME NEW i \in DOMAIN q, q[i].type = "block"
      PROVE  q[i].id \in BlocksIn(q \o p)
  <2>1. i \in DOMAIN (q \o p) /\ (q \o p)[i] = q[i]
    BY <1>1
  <2> QED BY <1>3, <2>1 DEF BlocksIn
<1>4. ASSUME NEW i \in DOMAIN p, p[i].type = "block"
      PROVE  p[i].id \in BlocksIn(q \o p)
  <2>1. Len(q) + i \in DOMAIN (q \o p) /\ ~(Len(q) + i <= Len(q)) /\ Len(q) + i - Len(q) = i
    BY <1>1
  <2>2. (q \o p)[Len(q) + i] = p[i]
    BY <1>1, <2>1
  <2> QED BY <1>4, <2>1, <2>2 DEF BlocksIn
<1> QED BY <1>2, <1>3, <1>4 DEF BlocksIn

LEMMA BlocksTail ==
  ASSUME NEW S, NEW q \in Seq(S), q # << >>
  PROVE  BlocksIn(q) = BlocksIn(Tail(q)) \cup IF Head(q).type = "block" THEN {Head(q).id} ELSE {}
<1>1. Len(q) \in Nat \ {0} /\ Tail(q) \in Seq(S) /\ Len(Tail(q)) = Len(q) - 1
  BY EmptySeq, HeadTailProperties
<1>2. DOMAIN Tail(q) = 1..(Len(q) - 1) /\ DOMAIN q = 1..Len(q) /\ Head(q) = q[1]
  BY <1>1
<1>3. \A i \in DOMAIN Tail(q) : Tail(q)[i] = q[i + 1] /\ i + 1 \in DOMAIN q
  BY <1>1, <1>2, HeadTailProperties
<1>4. \A i \in DOMAIN q : i = 1 \/ (i - 1 \in DOMAIN Tail(q) /\ Tail(q)[i - 1] = q[i])
  BY <1>1, <1>2, <1>3
<1> QED BY <1>1, <1>2, <1>3, <1>4 DEF BlocksIn

-----------------------------------------------------------------------------
\* A broadcast, of whatever events, whose events tell of every change of the session.
LEMMA KnownIsLive ==
  ASSUME StreamTypes
  PROVE  /\ Known <=> live \in LiveSessions
         /\ ~Known <=> live = NoSession
<1>1. \A l \in LiveSessions : l.known = TRUE
  BY DEF LiveSessions
<1>2. NoSession.known = FALSE
  BY DEF NoSession
<1>3. NoSession \notin LiveSessions
  BY <1>1, <1>2
<1>4. CASE live = NoSession
  BY <1>2, <1>3, <1>4 DEF Known
<1>5. CASE live \in LiveSessions
  BY <1>1, <1>3, <1>5 DEF Known
<1> QED BY <1>4, <1>5 DEF StreamTypes

LEMMA BroadcastTypes ==
  ASSUME StreamTypes, StreamStops, Known, NEW events \in Seq(KeptEvents), Broadcast(events),
         live' \in LiveSessions, asked' \in Nat, ownerless' \in SUBSET RoundIds
  PROVE  StreamTypes' /\ StreamStops'
<1>1. live' # NoSession /\ live # NoSession /\ serving = TRUE
  <2>1. live \in LiveSessions /\ live # NoSession
    BY KnownIsLive
  <2>2. \A l \in LiveSessions : l.known = TRUE
    BY DEF LiveSessions
  <2>3. NoSession.known = FALSE
    BY DEF NoSession
  <2> QED BY <2>1, <2>2, <2>3 DEF StreamTypes, StreamStops
<1>2. events \in Seq(SentEvents) /\ chain \o events \in Seq(KeptEvents)
  BY ConcatProperties, SeqMonotonic DEF SentEvents, StreamTypes
<1>3. inFlight' \in [Viewers -> Seq(SentEvents)]
  <2>1. \A c \in Viewers : inFlight[c] \o events \in Seq(SentEvents)
    BY <1>2, ConcatProperties DEF StreamTypes
  <2> QED BY <2>1, EmptySeq DEF Broadcast
<1>4. \A c \in Viewers : page'[c] = "closed" => inFlight'[c] = << >>
  BY DEF Broadcast, StreamTypes
<1>5. StreamTypes'
  BY <1>2, <1>3 DEF StreamTypes, Broadcast
<1>6. StreamStops'
  BY <1>1, <1>4 DEF StreamStops, Broadcast
<1> QED BY <1>5, <1>6

LEMMA BroadcastKeepsPages ==
  ASSUME StreamTypes, PagesOK, Known, NEW events \in Seq(KeptEvents), Broadcast(events),
         live' \in LiveSessions,
         Ends(events, StatusTypes, 0, live'.status, live.status),
         live'.blocks = live.blocks \cup BlocksIn(events),
         \A r \in RoundIds : Ends(events, {"question-round"}, r, NewestAsk(r)', NewestAsk(r)),
         \A r \in RoundIds : Ends(events, {"round-answered"}, r, live'.answers[r], live.answers[r]),
         \A r \in ownerless : \/ r \in ownerless'
                              \/ ~Ends(events, {"round-answered"}, r, 0, 0)
  PROVE  PagesOK'
<1> SUFFICES ASSUME NEW c \in Viewers, page[c] # "closed"
             PROVE  PageOK(c)'
  BY DEF PagesOK, PageOK, Broadcast
<1>1. /\ page' = page /\ shown' = shown /\ inFlight[c] \in Seq(SentEvents)
      /\ inFlight'[c] = inFlight[c] \o events /\ events \in Seq(SentEvents)
      /\ Known' /\ live.known /\ live'.known
  BY SeqMonotonic DEF Broadcast, StreamTypes, SentEvents, LiveSessions, Known
<1>2. PageOK(c)
  BY DEF PagesOK
<1>3. CopyOK(shown[c])'
  BY <1>1, <1>2 DEF PageOK, CopyOK
<1>4. StatusArrives(c)'
  BY <1>1, <1>2, EndsConcat DEF PageOK, StatusArrives
<1>5. BlocksArrive(c)'
  <2>1. BlocksIn(inFlight'[c]) = BlocksIn(inFlight[c]) \cup BlocksIn(events)
    BY <1>1, BlocksConcat
  <2> QED BY <1>1, <1>2, <2>1 DEF PageOK, BlocksArrive
<1>6. ASSUME NEW r \in RoundIds PROVE AskArrives(c, r)'
  <2> DEFINE T == {"question-round"}
             was == shown[c].rounds[r].ask
  <2>1. CASE Ends(inFlight[c], T, r, NewestAsk(r), was)
    BY <1>1, <2>1, EndsConcat DEF AskArrives
  <2>2. CASE page[c] = "open" /\ Ends(inFlight[c], T, r, 0, was)
    <3>1. Ends(events, T, r, NewestAsk(r)', 0) \/ Ends(events, T, r, 0, 0)
      BY EndsElsewhere
    <3>2. Ends(inFlight[c] \o events, T, r, NewestAsk(r)', was) \/ Ends(inFlight[c] \o events, T, r, 0, was)
      BY <1>1, <2>2, <3>1, EndsConcat
    <3> QED BY <1>1, <2>2, <3>2 DEF AskArrives
  <2> QED BY <1>1, <1>2, <2>1, <2>2 DEF PageOK, AskArrives
<1>7. ASSUME NEW r \in RoundIds PROVE AnswersArrive(c, r)'
  <2> DEFINE T == {"round-answered"}
             was == Held(shown[c], r)
  <2>0. was' = was
    BY <1>1 DEF Held
  <2>1. CASE Ends(inFlight[c], T, r, live.answers[r], was)
    BY <1>1, <2>0, <2>1, EndsConcat DEF AnswersArrive
  <2>2. CASE (page[c] = "open" \/ r \in ownerless) /\ Ends(inFlight[c], T, r, 0, was)
    <3>1. Ends(events, T, r, live'.answers[r], 0) \/ Ends(events, T, r, 0, 0)
      BY EndsElsewhere
    <3>2. CASE Ends(events, T, r, live'.answers[r], 0)
      <4>1. Ends(inFlight[c] \o events, T, r, live'.answers[r], was)
        BY <1>1, <2>2, <3>2, EndsConcat
      <4> QED BY <1>1, <2>0, <4>1 DEF AnswersArrive
    <3>3. CASE Ends(events, T, r, 0, 0)
      <4>1. Ends(inFlight[c] \o events, T, r, 0, was)
        BY <1>1, <2>2, <3>3, EndsConcat
      <4>2. page[c] = "open" \/ r \in ownerless'
        BY <2>2, <3>3
      <4> QED BY <1>1, <2>0, <4>1, <4>2 DEF AnswersArrive
    <3> QED BY <3>1, <3>2, <3>3
  <2> QED BY <1>1, <1>2, <2>1, <2>2 DEF PageOK, AnswersArrive
<1> QED BY <1>1, <1>3, <1>4, <1>5, <1>6, <1>7 DEF PageOK

-----------------------------------------------------------------------------
\* The newest round of a number.
LEMMA NewestOf ==
  ASSUME NEW rounds \in Seq(AskedRounds), NEW r, NEW n,
         n = Max({0} \cup {k \in DOMAIN rounds : rounds[k].id = r})
  PROVE  \/ n = 0 /\ \A k \in DOMAIN rounds : rounds[k].id # r
         \/ /\ n \in DOMAIN rounds /\ n # 0 /\ rounds[n].id = r
            /\ \A k \in DOMAIN rounds : rounds[k].id = r => k <= n
<1> DEFINE K == {0} \cup {k \in DOMAIN rounds : rounds[k].id = r}
<1>1. Len(rounds) \in Nat /\ DOMAIN rounds = 1..Len(rounds)
  BY LenProperties
<1>2. K \subseteq Nat /\ K # {} /\ \A k \in K : k <= Len(rounds)
  BY <1>1
<1>3. \E m \in K : \A k \in K : k <= m
  <2> HIDE DEF K
  <2> QED BY <1>1, <1>2, BoundedHasGreatest
<1>4. n \in K /\ \A k \in K : n >= k
  <2>1. \E m \in K : \A k \in K : m >= k
    BY <1>2, <1>3
  <2> QED BY <2>1 DEF Max
<1> QED BY <1>1, <1>2, <1>4

LEMMA NewestAppended ==
  ASSUME live \in LiveSessions, NEW r \in RoundIds, NEW m \in RoundIds, NEW a \in Nat \ {0},
         live'.rounds = Append(live.rounds, [id |-> m, ask |-> a])
  PROVE  NewestAsk(r)' = IF r = m THEN a ELSE NewestAsk(r)
<1> DEFINE was == live.rounds
           is == live'.rounds
           round == [id |-> m, ask |-> a]
<1>1. /\ was \in Seq(AskedRounds) /\ is \in Seq(AskedRounds) /\ Len(was) \in Nat
      /\ DOMAIN was = 1..Len(was) /\ DOMAIN is = 1..(Len(was) + 1)
      /\ is[Len(was) + 1] = round /\ \A k \in DOMAIN was : is[k] = was[k]
  <2>1. was \in Seq(AskedRounds) /\ round \in AskedRounds
    BY DEF LiveSessions, AskedRounds
  <2> QED BY <2>1, AppendProperties, LenProperties
<1> DEFINE n == NewestRound(r)
           p == NewestRound(r)'
<1>2. \/ n = 0 /\ \A k \in DOMAIN was : was[k].id # r
      \/ /\ n \in DOMAIN was /\ n # 0 /\ was[n].id = r
         /\ \A k \in DOMAIN was : was[k].id = r => k <= n
  <2>1. n = Max({0} \cup {k \in DOMAIN was : was[k].id = r})
    BY DEF NewestRound
  <2> HIDE DEF n, was, is, p
  <2>2. was \in Seq(AskedRounds)
    BY <1>1
  <2> QED BY <2>1, <2>2, NewestOf, ZenonT(40)
<1>3. \/ p = 0 /\ \A k \in DOMAIN is : is[k].id # r
      \/ /\ p \in DOMAIN is /\ p # 0 /\ is[p].id = r
         /\ \A k \in DOMAIN is : is[k].id = r => k <= p
  <2>1. p = Max({0} \cup {k \in DOMAIN is : is[k].id = r})
    BY DEF NewestRound
  <2> HIDE DEF n, was, is, p
  <2>2. is \in Seq(AskedRounds)
    BY <1>1
  <2> QED BY <2>1, <2>2, NewestOf, ZenonT(40)
<1>4. NewestAsk(r) = (IF n = 0 THEN 0 ELSE was[n].ask) /\ NewestAsk(r)' = (IF p = 0 THEN 0 ELSE is[p].ask)
  BY DEF NewestAsk
<1> HIDE DEF was, is, n, p
<1>5. CASE r = m
  <2>1. Len(was) + 1 \in DOMAIN is /\ is[Len(was) + 1].id = r
    BY <1>1, <1>5
  <2>2. p = Len(was) + 1
    BY <1>1, <1>3, <2>1
  <2> QED BY <1>1, <1>4, <1>5, <2>2
<1>6. CASE r # m
  <2>1. \A k \in DOMAIN is : is[k].id = r <=> k \in DOMAIN was /\ was[k].id = r
    BY <1>1, <1>6
  <2>2. p = n
    BY <1>1, <1>2, <1>3, <2>1
  <2>3. n # 0 => n \in DOMAIN was
    BY <1>2
  <2> QED BY <1>1, <1>4, <1>6, <2>2, <2>3
<1> QED BY <1>5, <1>6

\* The numbers of what is written, when one event more is.
LEMMA OneMore ==
  ASSUME NEW S, NEW s \in Seq(S), NEW e \in S
  PROVE  /\ Len(s) \in Nat /\ DOMAIN s = 1..Len(s) /\ DOMAIN (s \o <<e>>) = 1..(Len(s) + 1)
         /\ \A i \in DOMAIN s : (s \o <<e>>)[i] = s[i]
         /\ (s \o <<e>>)[Len(s) + 1] = e
<1>1. <<e>> \in Seq(S) /\ Len(<<e>>) = 1 /\ <<e>>[1] = e
  OBVIOUS
<1>2. /\ Len(s) \in Nat /\ DOMAIN s = 1..Len(s) /\ s \o <<e>> \in Seq(S)
      /\ Len(s \o <<e>>) = Len(s) + 1
      /\ \A i \in 1..Len(s) + 1 : (s \o <<e>>)[i] = IF i <= Len(s) THEN s[i] ELSE <<e>>[i - Len(s)]
  BY <1>1, ConcatProperties, LenProperties
<1> QED BY <1>1, <1>2

LEMMA AsksAreFinite ==
  ASSUME NEW S, NEW s \in Seq(S)
  PROVE  /\ IsFiniteSet(Asks(s)) /\ Cardinality(Asks(s)) \in Nat /\ Asks(s) \subseteq 1..Len(s)
         /\ Len(s) \in Nat
<1>1. Len(s) \in Nat /\ Asks(s) \in SUBSET (1..Len(s))
  BY LenProperties DEF Asks
<1>2. IsFiniteSet(1..Len(s))
  BY <1>1, FS_Interval
<1> QED BY <1>1, <1>2, FS_Subset, FS_CardinalityType

LEMMA NumberedQuiet ==
  ASSUME NEW S, NEW s \in Seq(S), NEW e \in S, e.type # "question-round"
  PROVE  Asks(s \o <<e>>) = Asks(s) /\ (Numbered(s) => Numbered(s \o <<e>>))
<1>1. Asks(s \o <<e>>) = Asks(s)
  BY OneMore DEF Asks
<1>2. \A i \in Asks(s) : (s \o <<e>>)[i] = s[i]
  BY OneMore DEF Asks
<1> QED BY <1>1, <1>2 DEF Numbered

LEMMA NumberedAsk ==
  ASSUME NEW S, NEW s \in Seq(S), NEW e \in S, e.type = "question-round",
         e.id = Cardinality(Asks(s)) + 1, Numbered(s)
  PROVE  Numbered(s \o <<e>>) /\ Cardinality(Asks(s \o <<e>>)) = Cardinality(Asks(s)) + 1
<1> DEFINE n == Len(s) + 1
           more == s \o <<e>>
<1>1. /\ Len(s) \in Nat /\ DOMAIN s = 1..Len(s) /\ DOMAIN more = 1..n
      /\ \A i \in DOMAIN s : more[i] = s[i]
      /\ more[n] = e
  BY OneMore
<1>2. IsFiniteSet(Asks(s)) /\ Cardinality(Asks(s)) \in Nat /\ Asks(s) \subseteq 1..Len(s)
  BY AsksAreFinite
<1> HIDE DEF more
<1>3. Asks(more) = Asks(s) \cup {n} /\ n \notin Asks(s)
  BY <1>1, <1>2 DEF Asks
<1>4. Cardinality(Asks(more)) = Cardinality(Asks(s)) + 1
  BY <1>2, <1>3, FS_AddElement
<1>5. ASSUME NEW i \in Asks(more) PROVE more[i].id = Cardinality({j \in Asks(more) : j <= i})
  <2>1. CASE i = n
    <3>1. {j \in Asks(more) : j <= i} = Asks(more)
      BY <1>1, <1>2, <1>3, <2>1
    <3> QED BY <1>1, <1>4, <2>1, <3>1
  <2>2. CASE i # n
    <3>1. i \in Asks(s)
      BY <1>3, <2>2
    <3>2. {j \in Asks(more) : j <= i} = {j \in Asks(s) : j <= i}
      BY <1>1, <1>2, <1>3, <3>1
    <3>3. more[i] = s[i]
      BY <1>1, <1>2, <3>1
    <3> QED BY <3>1, <3>2, <3>3 DEF Numbered
  <2> QED BY <2>1, <2>2
<1> QED BY <1>4, <1>5 DEF Numbered, more

LEMMA NumberedPrefix ==
  ASSUME NEW S, NEW s \in Seq(S), NEW t \in Seq(S), Len(t) <= Len(s),
         \A i \in 1..Len(t) : t[i] = s[i], Numbered(s)
  PROVE  Numbered(t)
<1>1. Len(s) \in Nat /\ DOMAIN s = 1..Len(s) /\ Len(t) \in Nat /\ DOMAIN t = 1..Len(t)
  BY LenProperties
<1>2. SUFFICES ASSUME NEW i \in Asks(t) PROVE t[i].id = Cardinality({j \in Asks(t) : j <= i})
  BY DEF Numbered
<1>3. i \in Asks(s) /\ t[i] = s[i] /\ i \in 1..Len(t)
  BY <1>1 DEF Asks
<1>4. {j \in Asks(t) : j <= i} = {j \in Asks(s) : j <= i}
  BY <1>1, <1>3 DEF Asks
<1> QED BY <1>3, <1>4 DEF Numbered

-----------------------------------------------------------------------------
\* One event that asks no round.
Quietly(e) ==
  /\ e \in KeptEvents /\ e.type # "question-round" /\ Broadcast(<<e>>)
  /\ live' \in LiveSessions /\ live'.rounds = live.rounds
  /\ live'.status = IF e.type = "session-updated" THEN e.value ELSE live.status
  /\ live'.blocks = live.blocks \cup IF e.type = "block" THEN {e.id} ELSE {}
  /\ \A r \in RoundIds :
       live'.answers[r] = IF e.type = "round-answered" /\ e.id = r THEN e.value ELSE live.answers[r]
  /\ live'.pending \subseteq live.pending /\ live'.orphaned \subseteq live.orphaned
  /\ e.type = "round-answered" => e.id \in Numbers
  /\ ownerless' = ownerless \ IF e.type = "round-answered" THEN {e.id} ELSE {}
  /\ asked' = asked

LEMMA QuietlyKeeps ==
  ASSUME StreamInv, Known, NEW e, Quietly(e)
  PROVE  StreamInv'
<1> DEFINE E == <<e>>
<1>1. /\ E \in Seq(KeptEvents) /\ e \in KeptEvents /\ E \in Seq(SentEvents)
      /\ DOMAIN E = {1} /\ E[1] = e
  BY DEF Quietly, SentEvents
<1>2. StreamTypes' /\ StreamStops'
  BY <1>1, BroadcastTypes DEF Quietly, StreamInv, StreamTypes
<1>3. /\ live \in LiveSessions /\ Known'
      /\ Numbers' = Numbers
  <2>1. live \in LiveSessions
    BY KnownIsLive DEF StreamInv
  <2>2. \A l \in LiveSessions : l.known = TRUE
    BY DEF LiveSessions
  <2> QED BY <2>1, <2>2 DEF Quietly, Numbers, Known
<1>4. LiveOK'
  <2>1. IsFiniteSet(live'.blocks)
    <3>1. IsFiniteSet(live.blocks) /\ (live'.blocks = live.blocks \/ live'.blocks = live.blocks \cup {e.id})
      BY DEF StreamInv, LiveOK, Quietly
    <3> QED BY <3>1, FS_AddElement
  <2>2. live'.pending \cup live'.orphaned \subseteq Numbers
    BY DEF StreamInv, LiveOK, Quietly
  <2>3. \A r \in RoundIds : live'.answers[r] # 0 => r \in Numbers \cup ownerless'
    <3> SUFFICES ASSUME NEW r \in RoundIds, live'.answers[r] # 0 PROVE r \in Numbers \cup ownerless'
      OBVIOUS
    <3>1. CASE e.type = "round-answered" /\ e.id = r
      BY <3>1 DEF Quietly
    <3>2. CASE ~(e.type = "round-answered" /\ e.id = r)
      <4>1. r \in Numbers \cup ownerless
        BY <3>2 DEF StreamInv, LiveOK, Quietly
      <4> QED BY <3>2, <4>1 DEF Quietly
    <3> QED BY <3>1, <3>2
  <2> QED BY <1>3, <2>1, <2>2, <2>3 DEF LiveOK
<1>5. NumbersHold'
  <2> DEFINE s == transcript \o chain
  <2>1. transcript' = transcript /\ chain' = chain \o E /\ appendFailed' = appendFailed
    BY DEF Quietly, Broadcast
  <2>2. s \in Seq(KeptEvents) /\ (transcript \o chain)' = s \o <<e>>
    BY <1>1, <2>1, ConcatProperties, ConcatAssociative DEF StreamInv, StreamTypes
  <2>3. Asks(s \o <<e>>) = Asks(s) /\ (Numbered(s) => Numbered(s \o <<e>>))
    BY <1>1, <2>2, NumberedQuiet DEF Quietly
  <2> HIDE DEF s
  <2>4. ~appendFailed => Numbered(s) /\ Len(live.rounds) = Cardinality(Asks(s))
                         /\ \A k \in DOMAIN live.rounds : live.rounds[k].id = k
    BY DEF StreamInv, NumbersHold, s
  <2> QED BY <2>1, <2>2, <2>3, <2>4 DEF NumbersHold, Quietly
<1>6. PagesOK'
  <2>1. ASSUME NEW types, NEW id, NEW before
        PROVE  Ends(E, types, id, IF About(e, types, id) THEN e.value ELSE before, before)
    BY EndsOne
  <2>2. Ends(E, StatusTypes, 0, live'.status, live.status)
    <3>1. live'.status = IF About(e, StatusTypes, 0) THEN e.value ELSE live.status
      BY DEF Quietly, About, StatusTypes, KeptEvents
    <3> QED BY <2>1, <3>1
  <2>3. live'.blocks = live.blocks \cup BlocksIn(E)
    BY <1>1 DEF Quietly, BlocksIn
  <2>4. \A r \in RoundIds : Ends(E, {"question-round"}, r, NewestAsk(r)', NewestAsk(r))
    <3> TAKE r \in RoundIds
    <3>1. NewestAsk(r)' = NewestAsk(r) /\ ~About(e, {"question-round"}, r)
      BY DEF NewestAsk, NewestRound, About, Quietly
    <3> QED BY <2>1, <3>1
  <2>5. \A r \in RoundIds : Ends(E, {"round-answered"}, r, live'.answers[r], live.answers[r])
    <3> TAKE r \in RoundIds
    <3>1. live'.answers[r] = IF About(e, {"round-answered"}, r) THEN e.value ELSE live.answers[r]
      BY DEF Quietly, About
    <3> QED BY <2>1, <3>1
  <2>6. \A r \in ownerless : r \in ownerless' \/ ~Ends(E, {"round-answered"}, r, 0, 0)
    <3> SUFFICES ASSUME NEW r \in ownerless, r \notin ownerless'
                 PROVE  ~Ends(E, {"round-answered"}, r, 0, 0)
      OBVIOUS
    <3>1. e.type = "round-answered" /\ e.id = r /\ e.value \in Nat \ {0}
      BY DEF Quietly, KeptEvents
    <3>2. About(e, {"round-answered"}, r) /\ e.value # 0
      BY <3>1 DEF About
    <3> QED BY <1>1, <3>2 DEF Ends
  <2> QED BY <1>1, <2>2, <2>3, <2>4, <2>5, <2>6, BroadcastKeepsPages DEF StreamInv, Quietly
<1> QED BY <1>2, <1>4, <1>5, <1>6 DEF StreamInv

\* The events are what the types say, and sessions keep their form.
LEMMA EventsAre ==
  /\ \A v \in Statuses : StatusIs(v) \in KeptEvents /\ SessionsAre(v) \in SentEvents
  /\ \A n \in Nat : BlockIs(n) \in KeptEvents
  /\ \A r \in RoundIds, v \in Nat \ {0} : RoundIs(r, v) \in KeptEvents /\ AnswersAre(r, v) \in KeptEvents
BY DEF StatusIs, SessionsAre, BlockIs, RoundIs, AnswersAre, KeptEvents, SentEvents

LEMMA SetStatusKeeps == StreamInv /\ (\E v \in QuietStatus : SetStatus(v)) => StreamInv'
<1> SUFFICES ASSUME StreamInv, NEW v \in QuietStatus, SetStatus(v) PROVE StreamInv'
  OBVIOUS
<1>1. live \in LiveSessions /\ Known
  BY KnownIsLive DEF StreamInv, SetStatus
<1>2. Quietly(StatusIs(v))
  <2>1. StatusIs(v) \in KeptEvents /\ v \in Statuses
    BY EventsAre DEF Statuses
  <2>2. live' \in LiveSessions
    BY <1>1, <2>1 DEF SetStatus, LiveSessions
  <2> QED BY <1>1, <2>1, <2>2 DEF Quietly, SetStatus, StatusIs, LiveSessions
<1> QED BY <1>1, <1>2, QuietlyKeeps

LEMMA AddBlockKeeps == StreamInv /\ AddBlock => StreamInv'
<1> SUFFICES ASSUME StreamInv, AddBlock PROVE StreamInv'
  OBVIOUS
<1> DEFINE n == live.blockCount + 1
<1>0. live \in LiveSessions /\ Known
  BY KnownIsLive DEF StreamInv, AddBlock
<1>4. n \in Nat
  BY <1>0 DEF LiveSessions
<1>1. live \in LiveSessions /\ Known /\ n \in Nat
  BY <1>0, <1>4
<1>2. Quietly(BlockIs(n))
  <2>1. BlockIs(n) \in KeptEvents
    BY <1>1, EventsAre
  <2>2. live' \in LiveSessions
    BY <1>1 DEF AddBlock, LiveSessions
  <2> QED BY <1>1, <2>1, <2>2 DEF Quietly, AddBlock, BlockIs, LiveSessions
<1> QED BY <1>1, <1>2, QuietlyKeeps

LEMMA StreamAnswersKeep == StreamInv /\ (\E r \in RoundIds : RecordAnswers(r)) => StreamInv'
<1> SUFFICES ASSUME StreamInv, NEW r \in RoundIds, RecordAnswers(r) PROVE StreamInv'
  OBVIOUS
<1> DEFINE v == live.answers[r] + 1
<1>0. live \in LiveSessions /\ Known
  BY KnownIsLive DEF StreamInv, RecordAnswers
<1>4. v \in Nat \ {0}
  BY <1>0 DEF LiveSessions
<1>1. live \in LiveSessions /\ Known /\ v \in Nat \ {0}
  BY <1>0, <1>4
<1>2. r \in Numbers
  BY DEF StreamInv, LiveOK, RecordAnswers, Answerable, Numbers
<1>3. Quietly(AnswersAre(r, v))
  <2>1. AnswersAre(r, v) \in KeptEvents
    BY <1>1, EventsAre
  <2>2. live' \in LiveSessions
    BY <1>1 DEF RecordAnswers, LiveSessions
  <2> QED BY <1>1, <1>2, <2>1, <2>2 DEF Quietly, RecordAnswers, AnswersAre, LiveSessions
<1> QED BY <1>1, <1>3, QuietlyKeeps

LEMMA StopStreamKeeps == StreamInv /\ StopStream => StreamInv'
<1> SUFFICES ASSUME StreamInv, StopStream PROVE StreamInv'
  OBVIOUS
<1>1. live \in LiveSessions /\ Known
  BY KnownIsLive DEF StreamInv, StopStream
<1>2. Quietly(StatusIs("ended"))
  <2>1. StatusIs("ended") \in KeptEvents /\ "ended" \in Statuses
    BY EventsAre DEF Statuses
  <2>2. live' \in LiveSessions
    BY <1>1, <2>1 DEF StopStream, LiveSessions
  <2> QED BY <1>1, <2>1, <2>2 DEF Quietly, StopStream, StatusIs, LiveSessions
<1> QED BY <1>1, <1>2, QuietlyKeeps

LEMMA SettleRoundKeeps == StreamInv /\ (\E r \in RoundIds : SettleRound(r)) => StreamInv'
<1> SUFFICES ASSUME StreamInv, NEW r \in RoundIds, SettleRound(r) PROVE StreamInv'
  OBVIOUS
<1>1. live \in LiveSessions /\ Known
  BY KnownIsLive DEF StreamInv, SettleRound
<1>2. "running" \in Statuses /\ StatusIs("running") \in KeptEvents
  BY EventsAre DEF Statuses
<1>3. live' \in LiveSessions
  BY <1>1, <1>2 DEF SettleRound, LiveSessions
<1>4. CASE live.status # "running"
  <2>1. Quietly(StatusIs("running"))
    BY <1>1, <1>2, <1>3, <1>4 DEF Quietly, SettleRound, StatusIs, LiveSessions
  <2> QED BY <1>1, <2>1, QuietlyKeeps
<1>5. CASE live.status = "running"
  <2>1. /\ chain' = chain /\ transcript' = transcript /\ serving' = serving /\ page' = page
        /\ inFlight' = inFlight /\ shown' = shown /\ asked' = asked
        /\ appendFailed' = appendFailed /\ ownerless' = ownerless
        /\ live'.status = live.status /\ live'.blocks = live.blocks /\ live'.rounds = live.rounds
        /\ live'.answers = live.answers /\ live'.orphaned = live.orphaned
        /\ live'.pending \subseteq live.pending
    BY <1>1, <1>5 DEF SettleRound, LiveSessions
  <2>2. Known' /\ live' # NoSession /\ live # NoSession /\ Numbers' = Numbers
    <3>1. \A l \in LiveSessions : l.known = TRUE
      BY DEF LiveSessions
    <3>2. NoSession.known = FALSE
      BY DEF NoSession
    <3> QED BY <1>1, <1>3, <2>1, <3>1, <3>2 DEF Known, Numbers
  <2>3. StreamTypes' /\ StreamStops'
    BY <1>3, <2>1, <2>2 DEF StreamInv, StreamTypes, StreamStops
  <2>4. LiveOK'
    BY <1>1, <2>1, <2>2 DEF StreamInv, LiveOK
  <2>5. NumbersHold'
    BY <1>1, <2>1, <2>2 DEF StreamInv, NumbersHold
  <2>6. PagesOK'
    <3> SUFFICES ASSUME NEW c \in Viewers, PageOK(c) PROVE PageOK(c)'
      BY DEF StreamInv, PagesOK
    <3>1. \A x \in RoundIds : NewestAsk(x)' = NewestAsk(x)
      BY <2>1 DEF NewestAsk, NewestRound
    <3>2. CopyOK(shown[c])' = CopyOK(shown[c]) /\ \A x \in RoundIds : Held(shown[c], x)' = Held(shown[c], x)
      BY <2>1 DEF CopyOK, Held
    <3>3. StatusArrives(c) => StatusArrives(c)'
      BY <1>1, <2>1, <2>2 DEF StatusArrives
    <3>4. BlocksArrive(c) => BlocksArrive(c)'
      BY <1>1, <2>1, <2>2 DEF BlocksArrive
    <3>5. ASSUME NEW x \in RoundIds
          PROVE  (AskArrives(c, x) => AskArrives(c, x)') /\ (AnswersArrive(c, x) => AnswersArrive(c, x)')
      BY <2>1, <3>1, <3>2 DEF AskArrives, AnswersArrive
    <3> QED BY <1>1, <2>1, <3>2, <3>3, <3>4, <3>5 DEF PageOK
  <2> QED BY <2>3, <2>4, <2>5, <2>6 DEF StreamInv
<1> QED BY <1>4, <1>5

LEMMA AskRoundKeeps == StreamInv /\ AskRound => StreamInv'
<1> SUFFICES ASSUME StreamInv, AskRound PROVE StreamInv'
  OBVIOUS
<1> DEFINE n == live.blockCount + 1
           r == Len(live.rounds) + 1
           a == asked + 1
           B == BlockIs(n)
           R == RoundIs(r, a)
           W == StatusIs("waiting-for-answer")
           waits == live.status = "waiting-for-answer"
           X == IF waits THEN << >> ELSE <<W>>
           E == <<B, R>> \o X
           round == [id |-> r, ask |-> a]
<1>0. live \in LiveSessions /\ Known
  BY KnownIsLive DEF StreamInv, AskRound
<1>1. /\ n \in Nat /\ Len(live.rounds) \in Nat /\ r \in RoundIds /\ a \in Nat \ {0}
      /\ live.rounds \in Seq(AskedRounds) /\ round \in AskedRounds
  BY <1>0 DEF LiveSessions, AskRound, StreamInv, StreamTypes, AskedRounds
<1>2. /\ B \in KeptEvents /\ R \in KeptEvents /\ W \in KeptEvents
      /\ "waiting-for-answer" \in Statuses
  BY <1>1, EventsAre DEF Statuses
<1>3. /\ B.type = "block" /\ B.id = n
      /\ R.type = "question-round" /\ R.id = r /\ R.value = a
      /\ W.type = "session-updated" /\ W.id = 0 /\ W.value = "waiting-for-answer"
  BY DEF BlockIs, RoundIs, StatusIs
<1>4. live' = [live EXCEPT !.blocks = @ \cup {n}, !.blockCount = n,
                           !.rounds = Append(@, round),
                           !.pending = @ \cup {r}, !.status = "waiting-for-answer"]
      /\ Broadcast(E) /\ asked' = a /\ ownerless' = ownerless
  BY DEF AskRound
<1> HIDE DEF n, r, a, B, R, W
<1>5. /\ live'.blocks = live.blocks \cup {n} /\ live'.rounds = Append(live.rounds, round)
      /\ live'.pending = live.pending \cup {r} /\ live'.status = "waiting-for-answer"
      /\ live'.answers = live.answers /\ live'.orphaned = live.orphaned
  BY <1>0, <1>4 DEF LiveSessions
<1>6. Append(live.rounds, round) \in Seq(AskedRounds)
  BY <1>1, AppendProperties
<1>7. live' \in LiveSessions
  BY <1>0, <1>1, <1>2, <1>4, <1>6 DEF LiveSessions
<1>8. /\ <<B>> \in Seq(KeptEvents) /\ <<R>> \in Seq(KeptEvents) /\ <<W>> \in Seq(KeptEvents)
      /\ X \in Seq(KeptEvents) /\ <<B, R>> = <<B>> \o <<R>> /\ <<B, R>> \in Seq(KeptEvents)
      /\ E \in Seq(KeptEvents)
  <2>1. /\ <<B>> \in Seq(KeptEvents) /\ <<R>> \in Seq(KeptEvents) /\ <<W>> \in Seq(KeptEvents)
        /\ X \in Seq(KeptEvents)
    BY <1>2
  <2>2. <<B, R>> = <<B>> \o <<R>> /\ <<B, R>> \in Seq(KeptEvents)
    <3>1. <<B, R>> \in Seq(KeptEvents) /\ Len(<<B, R>>) = 2 /\ <<B, R>>[1] = B /\ <<B, R>>[2] = R
      BY <1>2
    <3>2. Len(<<B>>) = 1 /\ Len(<<R>>) = 1 /\ <<B>>[1] = B /\ <<R>>[1] = R
      OBVIOUS
    <3>3. /\ <<B>> \o <<R>> \in Seq(KeptEvents) /\ Len(<<B>> \o <<R>>) = 2
          /\ (<<B>> \o <<R>>)[1] = B /\ (<<B>> \o <<R>>)[2] = R
      BY <2>1, <3>2, ConcatProperties
    <3>4. \A i \in 1..2 : i = 1 \/ i = 2
      OBVIOUS
    <3> QED BY <3>1, <3>3, <3>4, SeqEqual
  <2> QED BY <2>1, <2>2, ConcatProperties
<1>9. StreamTypes' /\ StreamStops'
  BY <1>0, <1>1, <1>4, <1>7, <1>8, BroadcastTypes DEF StreamInv, StreamTypes
<1>10. Known' /\ Numbers' = Numbers \cup {r}
  <2>1. \A l \in LiveSessions : l.known = TRUE
    BY DEF LiveSessions
  <2>2. Known'
    BY <1>7, <2>1 DEF Known
  <2>3. /\ DOMAIN Append(live.rounds, round) = 1..(Len(live.rounds) + 1)
        /\ DOMAIN live.rounds = 1..Len(live.rounds)
        /\ Append(live.rounds, round)[Len(live.rounds) + 1] = round
        /\ \A k \in 1..Len(live.rounds) : Append(live.rounds, round)[k] = live.rounds[k]
    BY <1>1, <1>6, AppendProperties, LenProperties
  <2>4. round.id = r
    OBVIOUS
  <2> QED BY <1>1, <1>5, <2>2, <2>3, <2>4 DEF Numbers
<1>11. LiveOK'
  <2>1. IsFiniteSet(live'.blocks)
    BY <1>0, <1>5, FS_AddElement DEF StreamInv, LiveOK
  <2> QED BY <1>0, <1>4, <1>5, <1>10, <2>1 DEF StreamInv, LiveOK
<1>12. NumbersHold'
  <2> SUFFICES ASSUME ~appendFailed PROVE NumbersHold'
    BY <1>4 DEF NumbersHold, Broadcast
  <2> DEFINE s == transcript \o chain
  <2>1. s \in Seq(KeptEvents)
    BY ConcatProperties DEF StreamInv, StreamTypes
  <2>2. transcript' \o chain' = ((s \o <<B>>) \o <<R>>) \o X
    <3>1. transcript' = transcript /\ chain' = chain \o E
      BY <1>4 DEF Broadcast
    <3>0. chain \in Seq(KeptEvents) /\ transcript \in Seq(KeptEvents)
      BY DEF StreamInv, StreamTypes
    <3>2. transcript \o (chain \o E) = s \o E
      <4> HIDE DEF E
      <4> QED BY <1>8, <3>0, ConcatAssociative, SMTT(30)
    <3>3. s \o E = (s \o <<B, R>>) \o X
      <4> HIDE DEF s, X
      <4> QED BY <1>8, <2>1, ConcatAssociative
    <3>4. s \o <<B, R>> = (s \o <<B>>) \o <<R>>
      BY <1>8, <2>1, ConcatAssociative
    <3> QED BY <3>1, <3>2, <3>3, <3>4
  <2>3. Numbered(s) /\ Len(live.rounds) = Cardinality(Asks(s))
        /\ \A k \in DOMAIN live.rounds : live.rounds[k].id = k
    BY <1>0 DEF StreamInv, NumbersHold
  <2> HIDE DEF s, X, E
  <2>4. s \o <<B>> \in Seq(KeptEvents) /\ Numbered(s \o <<B>>)
        /\ Asks(s \o <<B>>) = Asks(s)
    BY <1>2, <1>3, <1>8, <2>1, <2>3, NumberedQuiet, ConcatProperties
  <2>5. r = Cardinality(Asks(s \o <<B>>)) + 1
    BY <2>3, <2>4 DEF r
  <2>6. (s \o <<B>>) \o <<R>> \in Seq(KeptEvents)
    BY <1>8, <2>4, ConcatProperties
  <2>7. Numbered((s \o <<B>>) \o <<R>>) /\ Cardinality(Asks((s \o <<B>>) \o <<R>>)) = r
    BY <1>2, <1>3, <2>4, <2>5, NumberedAsk
  <2>8. Numbered(((s \o <<B>>) \o <<R>>) \o X) /\ Cardinality(Asks(((s \o <<B>>) \o <<R>>) \o X)) = r
    <3>1. CASE waits
      BY <2>6, <2>7, <3>1, ConcatEmptySeq DEF X
    <3>2. CASE ~waits
      BY <1>2, <1>3, <2>6, <2>7, <3>2, NumberedQuiet DEF X
    <3> QED BY <3>1, <3>2
  <2>9. Len(live'.rounds) = r /\ \A k \in DOMAIN live'.rounds : live'.rounds[k].id = k
    <3>1. /\ DOMAIN Append(live.rounds, round) = 1..(Len(live.rounds) + 1)
          /\ Len(Append(live.rounds, round)) = Len(live.rounds) + 1
          /\ DOMAIN live.rounds = 1..Len(live.rounds)
          /\ Append(live.rounds, round)[Len(live.rounds) + 1] = round
          /\ \A k \in 1..Len(live.rounds) : Append(live.rounds, round)[k] = live.rounds[k]
      BY <1>1, <1>6, AppendProperties, LenProperties
    <3>2. round.id = Len(live.rounds) + 1 /\ r = Len(live.rounds) + 1
      BY DEF r
    <3> QED BY <1>1, <1>5, <2>3, <3>1, <3>2
  <2> QED BY <2>2, <2>8, <2>9 DEF NumbersHold
<1>13. PagesOK'
  <2> HIDE DEF X
  <2>1. ASSUME NEW types, NEW id, NEW before, NEW between, NEW after,
               between = (IF About(R, types, id) THEN R.value ELSE IF About(B, types, id) THEN B.value ELSE before),
               Ends(X, types, id, after, between)
        PROVE  Ends(E, types, id, after, before)
    <3> DEFINE b == IF About(B, types, id) THEN B.value ELSE before
    <3>1. Ends(<<B>>, types, id, b, before) /\ between = IF About(R, types, id) THEN R.value ELSE b
      BY <2>1, EndsOne
    <3> HIDE DEF b
    <3>2. Ends(<<R>>, types, id, between, b)
      BY <3>1, EndsOne
    <3>3. Ends(<<B, R>>, types, id, between, before)
      BY <1>8, <3>1, <3>2, EndsConcat
    <3> QED BY <1>8, <2>1, <3>3, EndsConcat
  <2>2. ASSUME NEW types, NEW id, NEW before, ~About(W, types, id)
        PROVE  Ends(X, types, id, before, before)
    <3>1. CASE waits
      BY <3>1, EndsNil DEF X
    <3>2. CASE ~waits
      <4>1. Ends(<<W>>, types, id, before, before)
        BY <2>2, EndsOne
      <4> QED BY <3>2, <4>1 DEF X
    <3> QED BY <3>1, <3>2
  <2>3. Ends(E, StatusTypes, 0, live'.status, live.status)
    <3>1. ~About(B, StatusTypes, 0) /\ ~About(R, StatusTypes, 0) /\ About(W, StatusTypes, 0)
      BY <1>3 DEF About, StatusTypes
    <3>2. Ends(X, StatusTypes, 0, "waiting-for-answer", live.status)
      <4>1. CASE waits
        BY <4>1, EndsNil DEF X
      <4>2. CASE ~waits
        <5>1. Ends(<<W>>, StatusTypes, 0, "waiting-for-answer", live.status)
          BY <1>3, <3>1, EndsOne
        <5> QED BY <4>2, <5>1 DEF X
      <4> QED BY <4>1, <4>2
    <3> QED BY <1>5, <2>1, <3>1, <3>2
  <2>4. live'.blocks = live.blocks \cup BlocksIn(E)
    <3>1. BlocksIn(<<B, R>>) = {n}
      <4>1. DOMAIN <<B, R>> = {1, 2} /\ <<B, R>>[1] = B /\ <<B, R>>[2] = R
        OBVIOUS
      <4> QED BY <1>3, <4>1 DEF BlocksIn
    <3>2. BlocksIn(X) = {}
      <4>1. CASE waits
        BY <4>1 DEF X, BlocksIn
      <4>2. CASE ~waits
        <5>1. DOMAIN <<W>> = {1} /\ <<W>>[1] = W
          OBVIOUS
        <5>2. BlocksIn(<<W>>) = {}
          BY <1>3, <5>1 DEF BlocksIn
        <5> QED BY <4>2, <5>2 DEF X
      <4> QED BY <4>1, <4>2
    <3>3. BlocksIn(E) = BlocksIn(<<B, R>>) \cup BlocksIn(X)
      <4> DEFINE BR == <<B, R>>
      <4>1. BR \in Seq(KeptEvents) /\ X \in Seq(KeptEvents)
        BY <1>8
      <4> HIDE DEF BR
      <4>2. BlocksIn(BR \o X) = BlocksIn(BR) \cup BlocksIn(X)
        BY <4>1, BlocksConcat
      <4> QED BY <4>2 DEF BR
    <3> QED BY <1>5, <3>1, <3>2, <3>3
  <2>5. \A x \in RoundIds : Ends(E, {"question-round"}, x, NewestAsk(x)', NewestAsk(x))
    <3> TAKE x \in RoundIds
    <3> DEFINE T == {"question-round"}
    <3>1. NewestAsk(x)' = IF x = r THEN a ELSE NewestAsk(x)
      BY <1>0, <1>1, <1>5, NewestAppended
    <3>2. ~About(B, T, x) /\ ~About(W, T, x) /\ (About(R, T, x) <=> x = r) /\ R.value = a
      BY <1>3 DEF About
    <3>3. Ends(X, T, x, NewestAsk(x)', NewestAsk(x)')
      BY <2>2, <3>2
    <3>4. NewestAsk(x)' = IF About(R, T, x) THEN R.value ELSE IF About(B, T, x) THEN B.value ELSE NewestAsk(x)
      BY <3>1, <3>2
    <3> QED BY <2>1, <3>3, <3>4
  <2>6. \A x \in RoundIds : Ends(E, {"round-answered"}, x, live'.answers[x], live.answers[x])
    <3> TAKE x \in RoundIds
    <3> DEFINE T == {"round-answered"}
    <3>1. ~About(B, T, x) /\ ~About(W, T, x) /\ ~About(R, T, x)
      BY <1>3 DEF About
    <3>2. Ends(X, T, x, live.answers[x], live.answers[x])
      BY <2>2, <3>1
    <3> QED BY <1>5, <2>1, <3>1, <3>2
  <2> HIDE DEF E
  <2> QED BY <1>0, <1>4, <1>7, <1>8, <2>3, <2>4, <2>5, <2>6, BroadcastKeepsPages DEF StreamInv
<1> QED BY <1>9, <1>11, <1>12, <1>13 DEF StreamInv

-----------------------------------------------------------------------------
\* The start, the death and the return of the server.
LEMMA StreamStarts == StreamInit => StreamInv
<1> SUFFICES ASSUME StreamInit PROVE StreamInv
  OBVIOUS
<1> DEFINE W == StatusIs("starting")
<1>1. W \in KeptEvents /\ W.type # "question-round" /\ "starting" \in Statuses /\ "none" \in Statuses
  <2>1. "starting" \in Statuses /\ "none" \in Statuses
    BY DEF Statuses
  <2> QED BY <2>1, EventsAre DEF StatusIs
<1>2. NewLive \in LiveSessions /\ NewLive # NoSession
  <2>1. << >> \in Seq(AskedRounds)
    BY EmptySeq
  <2>2. NewLive \in LiveSessions
    BY <1>1, <2>1 DEF NewLive, LiveSessions
  <2>3. NewLive.known = TRUE /\ NoSession.known = FALSE
    BY DEF NewLive, NoSession
  <2> QED BY <2>2, <2>3
<1>3. NothingShown \in Copies
  BY <1>1 DEF NothingShown, Copies, NoRoundShown
<1>4. StreamTypes
  <2>1. <<W>> \in Seq(KeptEvents) /\ << >> \in Seq(KeptEvents) /\ << >> \in Seq(SentEvents)
    BY <1>1, EmptySeq
  <2> QED BY <1>2, <1>3, <2>1 DEF StreamTypes, StreamInit
<1>5. StreamStops
  BY <1>2 DEF StreamStops, StreamInit
<1>6. LiveOK
  BY FS_EmptySet DEF LiveOK, StreamInit, NewLive
<1>7. NumbersHold
  <2>1. transcript \o chain = <<W>>
    BY <1>1 DEF StreamInit
  <2>2. DOMAIN <<W>> = {1} /\ <<W>>[1] = W
    OBVIOUS
  <2>3. Asks(<<W>>) = {}
    BY <1>1, <2>2 DEF Asks
  <2>4. Len(live.rounds) = 0 /\ DOMAIN live.rounds = {}
    BY DEF StreamInit, NewLive
  <2> QED BY <2>1, <2>3, <2>4, FS_EmptySet DEF NumbersHold, Numbered
<1>8. PagesOK
  BY DEF PagesOK, PageOK, StreamInit
<1> QED BY <1>4, <1>5, <1>6, <1>7, <1>8 DEF StreamInv

LEMMA StreamCrashKeeps ==
  StreamInv /\ (\E n \in 0..MaxBroadcasts : \E failed \in SUBSET (1..n) : Crash(n, failed)) => StreamInv'
<1> SUFFICES ASSUME StreamInv, NEW n \in 0..MaxBroadcasts, NEW failed \in SUBSET (1..n), Crash(n, failed)
             PROVE  StreamInv'
  OBVIOUS
<1>1. /\ chain \in Seq(KeptEvents) /\ transcript \in Seq(KeptEvents) /\ Len(chain) \in Nat
      /\ n \in Nat /\ n <= Len(chain)
  BY LenProperties DEF StreamInv, StreamTypes, Crash
<1> DEFINE P == (1..n) \ failed
           N == Cardinality(P)
<1>2. P \subseteq Nat /\ IsFiniteSet(P) /\ P \subseteq 1..n
  <2>1. IsFiniteSet(1..n) /\ P \in SUBSET (1..n)
    BY <1>1, FS_Interval
  <2> QED BY <2>1, FS_Subset
<1>3. N \in Nat /\ Ascending(P) \in [1..N -> P]
  <2> HIDE DEF P
  <2> QED BY <1>2, AscendingIsOrder
<1>4. Written(n, failed) = [k \in 1..N |-> chain[Ascending(P)[k]]]
  <2>1. DOMAIN Ascending(P) = 1..N
    BY <1>3
  <2> QED BY <2>1 DEF Written
<1>5. Written(n, failed) \in Seq(KeptEvents) /\ Len(Written(n, failed)) = N
  <2>1. \A k \in 1..N : chain[Ascending(P)[k]] \in KeptEvents
    <3> TAKE k \in 1..N
    <3>1. Ascending(P)[k] \in 1..Len(chain)
      <4> HIDE DEF P, N
      <4>1. Ascending(P)[k] \in P
        BY <1>3
      <4>2. Ascending(P)[k] \in 1..n
        BY <1>2, <4>1
      <4> QED BY <1>1, <4>2
    <3> QED BY <1>1, <3>1, ElementOfSeq
  <2> HIDE DEF N, P
  <2>2. Written(n, failed) \in [1..N -> KeptEvents]
    BY <1>4, <2>1
  <2> QED BY <1>3, <2>2, FunctionIsSeq
<1>6. /\ live' = NoSession /\ chain' = << >> /\ serving' = FALSE
      /\ transcript' = transcript \o Written(n, failed)
      /\ page' = [c \in Viewers |-> "closed"] /\ inFlight' = [c \in Viewers |-> << >>]
      /\ shown' = shown /\ asked' = asked /\ ownerless' = ownerless
      /\ appendFailed' = (appendFailed \/ failed # {})
  BY DEF Crash
<1>7. transcript' \in Seq(KeptEvents)
  BY <1>1, <1>5, <1>6, ConcatProperties
<1>8. StreamTypes'
  <2>1. appendFailed' \in BOOLEAN
    BY <1>6
  <2>2. << >> \in Seq(KeptEvents) /\ << >> \in Seq(SentEvents)
    BY EmptySeq
  <2> QED BY <1>6, <1>7, <2>1, <2>2 DEF StreamInv, StreamTypes
<1>9. ~Known'
  BY <1>6 DEF Known, NoSession
<1>10. StreamStops' /\ LiveOK' /\ PagesOK'
  BY <1>6, <1>9 DEF StreamStops, LiveOK, PagesOK, PageOK
<1>11. NumbersHold'
  <2> SUFFICES ASSUME ~appendFailed' PROVE Numbered(transcript' \o chain')
    BY <1>9 DEF NumbersHold
  <2>1. ~appendFailed /\ failed = {}
    BY <1>6
  <2>2. Numbered(transcript \o chain)
    BY <2>1 DEF StreamInv, NumbersHold
  <2>3. Written(n, failed) = [k \in 1..n |-> chain[k]] /\ Len(Written(n, failed)) = n
    <3>1. P = 1..n
      BY <2>1
    <3>2. Ascending(P) = [k \in 1..n |-> k]
      BY <1>1, <3>1, UpToIsAscending
    <3>3. N = n
      <4>1. Cardinality(1..n) = n
        BY <1>1, FS_Interval
      <4> QED BY <3>1, <4>1
    <3> QED BY <1>4, <1>5, <3>2, <3>3
  <2>4. transcript' \o chain' = transcript \o Written(n, failed)
    BY <1>6, <1>7, ConcatEmptySeq
  <2> DEFINE s == transcript \o chain
             t == transcript \o Written(n, failed)
             m == Len(transcript)
  <2>5. /\ s \in Seq(KeptEvents) /\ t \in Seq(KeptEvents) /\ m \in Nat
        /\ Len(s) = m + Len(chain) /\ Len(t) = m + n
        /\ \A i \in 1..(m + Len(chain)) : s[i] = IF i <= m THEN transcript[i] ELSE chain[i - m]
        /\ \A i \in 1..(m + n) : t[i] = IF i <= m THEN transcript[i] ELSE Written(n, failed)[i - m]
    <3> HIDE DEF N, P
    <3> QED BY <1>1, <1>5, <2>3, ConcatProperties, LenProperties
  <2> HIDE DEF s, t, m
  <2>6. Len(t) <= Len(s)
    BY <1>1, <2>5
  <2>7. \A i \in 1..Len(t) : t[i] = s[i]
    <3> TAKE i \in 1..Len(t)
    <3>1. i \in 1..(m + Len(chain)) /\ i \in 1..(m + n)
      BY <1>1, <2>5
    <3>2. CASE i <= m
      BY <2>5, <3>1, <3>2
    <3>3. CASE ~(i <= m)
      <4>1. i - m \in 1..n
        BY <2>5, <3>1, <3>3
      <4>2. Written(n, failed)[i - m] = chain[i - m]
        BY <2>3, <4>1
      <4> QED BY <2>5, <3>1, <3>3, <4>2
    <3> QED BY <3>2, <3>3
  <2>8. Numbered(s)
    BY <2>2 DEF s
  <2>9. Numbered(t)
    BY <2>5, <2>6, <2>7, <2>8, NumberedPrefix
  <2> QED BY <2>4, <2>9 DEF t
<1> QED BY <1>8, <1>10, <1>11 DEF StreamInv

\* Of the lines of the file a start makes a session, whose answers have a round
\* or are known to have none.
LEMMA LastSaidIs ==
  ASSUME transcript \in Seq(KeptEvents), NEW type, NEW id, NEW none
  PROVE  \/ LastSaid(type, id, none) = none /\ Lines(type, id) = {}
         \/ \E i \in Lines(type, id) : LastSaid(type, id, none) = transcript[i].value
<1>1. Len(transcript) \in Nat /\ DOMAIN transcript = 1..Len(transcript)
  BY LenProperties
<1>2. CASE Lines(type, id) = {}
  BY <1>2 DEF LastSaid
<1>3. CASE Lines(type, id) # {}
  <2> DEFINE L == Lines(type, id)
  <2>1. L \subseteq Nat /\ \A i \in L : i <= Len(transcript)
    BY <1>1 DEF Lines
  <2> HIDE DEF L
  <2>2. \E m \in L : \A i \in L : i <= m
    BY <1>1, <1>3, <2>1, BoundedHasGreatest DEF L
  <2>3. Max(L) \in L
    <3>1. \E m \in L : \A i \in L : m >= i
      BY <2>1, <2>2
    <3> QED BY <3>1 DEF Max
  <2> QED BY <1>3, <2>3 DEF LastSaid, L
<1> QED BY <1>2, <1>3

\* The lines at which a number is asked first, in their order.
FirstAsked ==
  {i \in DOMAIN transcript :
     /\ transcript[i].type = "question-round"
     /\ \A j \in Lines("question-round", transcript[i].id) : i <= j}

LEMMA RestoredRoundsAre ==
  ASSUME transcript \in Seq(KeptEvents)
  PROVE  /\ RestoredRounds \in Seq(AskedRounds)
         /\ \A i \in Asks(transcript) :
              \E k \in DOMAIN RestoredRounds : RestoredRounds[k].id = transcript[i].id
         /\ Numbered(transcript) =>
              /\ Len(RestoredRounds) = Cardinality(Asks(transcript))
              /\ \A k \in DOMAIN RestoredRounds : RestoredRounds[k].id = k
<1> DEFINE F == FirstAsked
           N == Cardinality(F)
           A == Ascending(F)
           round(i) == [id |-> transcript[i].id, ask |-> LastSaid("question-round", transcript[i].id, 0)]
<1>1. Len(transcript) \in Nat /\ DOMAIN transcript = 1..Len(transcript)
  BY LenProperties
<1>2. F \subseteq Asks(transcript) /\ F \subseteq Nat /\ IsFiniteSet(F)
  <2>1. F \in SUBSET Asks(transcript)
    BY DEF FirstAsked, Asks
  <2>2. IsFiniteSet(Asks(transcript)) /\ Asks(transcript) \subseteq Nat
    BY <1>1, AsksAreFinite
  <2> QED BY <2>1, <2>2, FS_Subset
<1>3. /\ N \in Nat /\ A \in [1..N -> F]
      /\ \A k \in 1..N : Cardinality({q \in F : q <= A[k]}) = k
      /\ \A p, q \in F : p < q => Cardinality({o \in F : o <= p}) < Cardinality({o \in F : o <= q})
      /\ \A p \in F : \E k \in 1..N : A[k] = p
  <2> HIDE DEF F
  <2> QED BY <1>2, AscendingIsOrder
<1>4. RestoredRounds = [k \in 1..N |-> round(A[k])]
  <2>1. DOMAIN A = 1..N
    BY <1>3
  <2> QED BY <2>1 DEF RestoredRounds, FirstAsked
<1>5. \A i \in Asks(transcript) : round(i) \in AskedRounds
  <2> TAKE i \in Asks(transcript)
  <2> DEFINE r == transcript[i].id
  <2>1. /\ i \in Lines("question-round", r)
        /\ \A j \in Lines("question-round", r) : transcript[j] \in KeptEvents /\ transcript[j].type = "question-round"
    BY <1>1, ElementOfSeq DEF Asks, Lines
  <2>2. \A e \in KeptEvents : e.type = "question-round" => e.id \in RoundIds /\ e.value \in Nat \ {0}
    BY DEF KeptEvents
  <2>3. transcript[i] \in KeptEvents /\ transcript[i].type = "question-round"
    BY <2>1
  <2>4. LastSaid("question-round", r, 0) \in Nat \ {0}
    BY <2>1, <2>2, LastSaidIs
  <2> QED BY <2>2, <2>3, <2>4 DEF AskedRounds
<1>6. RestoredRounds \in Seq(AskedRounds) /\ Len(RestoredRounds) = N /\ DOMAIN RestoredRounds = 1..N
  <2> HIDE DEF round, A, N, F
  <2>1. \A k \in 1..N : round(A[k]) \in AskedRounds
    BY <1>2, <1>3, <1>5
  <2>2. RestoredRounds \in [1..N -> AskedRounds]
    BY <1>4, <2>1
  <2> QED BY <1>3, <2>2, FunctionIsSeq
<1>7. ASSUME NEW k \in 1..N
      PROVE  A[k] \in F /\ RestoredRounds[k].id = transcript[A[k]].id
  <2> HIDE DEF A, N, F
  <2>1. RestoredRounds[k] = round(A[k])
    BY <1>4
  <2> QED BY <1>3, <2>1
<1>8. ASSUME NEW i \in Asks(transcript)
      PROVE  \E k \in 1..N : RestoredRounds[k].id = transcript[i].id
  <2> DEFINE L == Lines("question-round", transcript[i].id)
  <2>1. L \subseteq Nat /\ i \in L
    BY <1>1 DEF Lines, Asks
  <2>2. PICK j \in L : \A m \in L : j <= m
    <3> HIDE DEF L
    <3> QED BY <2>1, LeastNumber
  <2>3. j \in F /\ transcript[j].id = transcript[i].id
    BY <2>2 DEF FirstAsked, Lines
  <2> HIDE DEF F, A, N, L
  <2>4. PICK k \in 1..N : A[k] = j
    BY <1>3, <2>3
  <2> QED BY <1>7, <2>3, <2>4
<1>9. ASSUME Numbered(transcript)
      PROVE  N = Cardinality(Asks(transcript)) /\ \A k \in 1..N : RestoredRounds[k].id = k
  <2> DEFINE Q == Asks(transcript)
  <2>1. Q \subseteq Nat /\ IsFiniteSet(Q)
    BY <1>1, AsksAreFinite
  <2>2. \A p, q \in Q : p < q => Cardinality({o \in Q : o <= p}) < Cardinality({o \in Q : o <= q})
    <3> HIDE DEF Q
    <3> QED BY <2>1, AscendingIsOrder
  <2>3. \A p \in Q : /\ transcript[p].id = Cardinality({o \in Q : o <= p})
                     /\ Cardinality({o \in Q : o <= p}) \in Nat
    <3> TAKE p \in Q
    <3>1. {o \in Q : o <= p} \in SUBSET Q
      OBVIOUS
    <3>2. Cardinality({o \in Q : o <= p}) \in Nat
      <4> HIDE DEF Q
      <4> QED BY <2>1, <3>1, FS_Subset, FS_CardinalityType
    <3> QED BY <1>9, <3>2 DEF Numbered
  <2>4. ASSUME NEW i \in Q, NEW j \in Lines("question-round", transcript[i].id)
        PROVE  i <= j
    <3>1. j \in Q /\ transcript[j].id = transcript[i].id
      BY DEF Lines, Asks
    <3> DEFINE rank(p) == Cardinality({o \in Q : o <= p})
    <3>3. /\ \A p, q \in Q : p < q => rank(p) < rank(q)
          /\ \A p \in Q : transcript[p].id = rank(p) /\ rank(p) \in Nat
      BY <2>2, <2>3
    <3> HIDE DEF Q, rank
    <3>2. ~(j < i)
      BY <3>1, <3>3
    <3> QED BY <2>1, <3>1, <3>2
  <2>5. F = Q
    <3>1. \A i \in Q : i \in F
      BY <2>4 DEF FirstAsked, Asks
    <3> QED BY <1>2, <3>1
  <2>6. ASSUME NEW k \in 1..N PROVE RestoredRounds[k].id = k
    <3> HIDE DEF F, N, A, Q
    <3>1. A[k] \in Q /\ Cardinality({q \in Q : q <= A[k]}) = k
      BY <1>3, <2>5
    <3> QED BY <1>7, <2>3, <3>1
  <2> QED BY <2>5, <2>6
<1> QED BY <1>6, <1>8, <1>9

LEMMA FiniteHasGreatest ==
  ASSUME NEW P, P \subseteq Nat, IsFiniteSet(P), P # {}
  PROVE  Max(P) \in P
<1> DEFINE N == Cardinality(P)
           A == Ascending(P)
<1>1. /\ N \in Nat /\ A \in [1..N -> P]
      /\ \A p \in P : \E k \in 1..N : A[k] = p
      /\ \A i, j \in 1..N : i < j => A[i] < A[j]
  BY AscendingIsOrder
<1>2. N # 0
  BY FS_EmptySet
<1> HIDE DEF N, A
<1>3. A[N] \in P
  BY <1>1, <1>2
<1>4. ASSUME NEW p \in P PROVE A[N] >= p
  <2>1. PICK k \in 1..N : A[k] = p
    BY <1>1
  <2>2. CASE k = N
    BY <1>3, <2>1, <2>2
  <2>3. CASE k # N
    <3>1. A[k] < A[N]
      BY <1>1, <1>2, <2>1, <2>3
    <3>2. A[k] \in Nat /\ A[N] \in Nat
      BY <1>3, <2>1
    <3> QED BY <2>1, <3>1, <3>2
  <2> QED BY <2>2, <2>3
<1> QED BY <1>3, <1>4 DEF Max

LEMMA RestoredBlocks ==
  ASSUME transcript \in Seq(KeptEvents), NEW blocks,
         blocks = {e.id : e \in {f \in ToSet(transcript) : f.type = "block"}}
  PROVE  blocks \subseteq Nat /\ IsFiniteSet(blocks)
<1>1. Len(transcript) \in Nat /\ DOMAIN transcript = 1..Len(transcript)
  BY LenProperties
<1> DEFINE D == {i \in DOMAIN transcript : transcript[i].type = "block"}
           f == [i \in D |-> transcript[i].id]
<1>2. IsFiniteSet(D)
  <2>1. D \in SUBSET (1..Len(transcript)) /\ IsFiniteSet(1..Len(transcript))
    BY <1>1, FS_Interval
  <2> QED BY <2>1, FS_Subset
<1>3. \A i \in D : f[i] \in blocks
  BY DEF ToSet
<1>4. \A n \in blocks : \E i \in D : f[i] = n
  BY DEF ToSet
<1>5. f \in Surjection(D, blocks)
  BY <1>3, <1>4 DEF Surjection
<1>6. IsFiniteSet(blocks)
  <2> HIDE DEF D, f
  <2> QED BY <1>2, <1>5, FS_Surjection
<1>7. \A i \in D : transcript[i].id \in Nat
  <2>1. \A e \in KeptEvents : e.type = "block" => e.id \in Nat
    BY DEF KeptEvents
  <2> QED BY <1>1, <2>1, ElementOfSeq
<1> QED BY <1>4, <1>6, <1>7

LEMMA RestoreLiveIs ==
  ASSUME transcript \in Seq(KeptEvents)
  PROVE  /\ RestoreLive \in LiveSessions /\ IsFiniteSet(RestoreLive.blocks)
         /\ RestoreLive.rounds = RestoredRounds /\ RestoreLive.pending = {}
         /\ \A r \in RestoreLive.orphaned : \E k \in DOMAIN RestoredRounds : RestoredRounds[k].id = r
         /\ \A r \in RoundIds : RestoreLive.answers[r] # 0 =>
              \/ \E k \in DOMAIN RestoredRounds : RestoredRounds[k].id = r
              \/ Lines("round-answered", r) # {} /\ Lines("question-round", r) = {}
<1> DEFINE blocks == {e.id : e \in {f \in ToSet(transcript) : f.type = "block"}}
           answers == [r \in RoundIds |-> LastSaid("round-answered", r, 0)]
           status == LastSaid("session-updated", 0, "none")
           open == status \notin {"ended", "error"}
           waits == {r \in RoundIds : /\ open /\ RestoredRounds # << >>
                                      /\ r = Last(RestoredRounds).id /\ answers[r] = 0}
           count == IF blocks = {} THEN 0 ELSE Max(blocks)
           shows == IF ~open THEN status ELSE IF waits # {} THEN "waiting-for-answer" ELSE "idle"
<1>1. RestoreLive =
        [known |-> TRUE, blocks |-> blocks, blockCount |-> count,
         rounds |-> RestoredRounds, answers |-> answers, pending |-> {}, orphaned |-> waits,
         status |-> shows]
  BY DEF RestoreLive
<1>2. blocks \subseteq Nat /\ IsFiniteSet(blocks)
  BY RestoredBlocks
<1>3. count \in Nat
  <2> HIDE DEF blocks
  <2> QED BY <1>2, FiniteHasGreatest
<1>4. /\ RestoredRounds \in Seq(AskedRounds)
      /\ \A i \in Asks(transcript) :
           \E k \in DOMAIN RestoredRounds : RestoredRounds[k].id = transcript[i].id
  BY RestoredRoundsAre
<1>5. ASSUME NEW type, NEW id, NEW i \in Lines(type, id)
      PROVE  transcript[i] \in KeptEvents /\ transcript[i].type = type
  BY ElementOfSeq, LenProperties DEF Lines
<1>6. answers \in [RoundIds -> Nat]
  <2>1. \A e \in KeptEvents : e.type = "round-answered" => e.value \in Nat
    BY DEF KeptEvents
  <2>2. \A r \in RoundIds : LastSaid("round-answered", r, 0) \in Nat
    BY <1>5, <2>1, LastSaidIs
  <2> QED BY <2>2
<1>7. status \in Statuses /\ shows \in Statuses
  <2>1. \A e \in KeptEvents : e.type = "session-updated" => e.value \in Statuses
    BY DEF KeptEvents
  <2>2. {"none", "waiting-for-answer", "idle"} \subseteq Statuses
    BY DEF Statuses
  <2>3. status \in Statuses
    BY <1>5, <2>1, <2>2, LastSaidIs
  <2> QED BY <2>2, <2>3
<1>8. waits \subseteq RoundIds
  OBVIOUS
<1>9. RestoreLive \in LiveSessions
  <2> HIDE DEF blocks, answers, waits, count, shows
  <2> QED BY <1>1, <1>2, <1>3, <1>4, <1>6, <1>7, <1>8 DEF LiveSessions
<1>10. \A r \in waits : \E k \in DOMAIN RestoredRounds : RestoredRounds[k].id = r
  <2> SUFFICES ASSUME NEW r \in waits PROVE \E k \in DOMAIN RestoredRounds : RestoredRounds[k].id = r
    OBVIOUS
  <2>1. RestoredRounds # << >> /\ r = RestoredRounds[Len(RestoredRounds)].id
    BY DEF Last
  <2>2. Len(RestoredRounds) \in DOMAIN RestoredRounds
    BY <1>4, <2>1, EmptySeq, LenProperties
  <2> QED BY <2>1, <2>2
<1>11. ASSUME NEW r \in RoundIds, answers[r] # 0
       PROVE  \/ \E k \in DOMAIN RestoredRounds : RestoredRounds[k].id = r
              \/ Lines("round-answered", r) # {} /\ Lines("question-round", r) = {}
  <2>1. Lines("round-answered", r) # {}
    BY <1>11, LastSaidIs
  <2>2. \A i \in Lines("question-round", r) : i \in Asks(transcript) /\ transcript[i].id = r
    BY DEF Lines, Asks
  <2> QED BY <1>4, <2>1, <2>2
<1>12. /\ RestoreLive.blocks = blocks /\ RestoreLive.rounds = RestoredRounds /\ RestoreLive.pending = {}
       /\ RestoreLive.orphaned = waits /\ RestoreLive.answers = answers
  <2> HIDE DEF blocks, answers, waits, count, shows
  <2> QED BY <1>1
<1> HIDE DEF blocks, answers, waits
<1> QED BY <1>2, <1>9, <1>10, <1>11, <1>12

LEMMA RestartKeeps == StreamInv /\ Restart => StreamInv'
<1> SUFFICES ASSUME StreamInv, Restart PROVE StreamInv'
  OBVIOUS
<1>1. /\ live' = IF Lines("session-updated", 0) = {} THEN NoSession ELSE RestoreLive
      /\ serving' = TRUE /\ chain' = chain /\ transcript' = transcript /\ page' = page
      /\ inFlight' = inFlight /\ shown' = shown /\ asked' = asked /\ appendFailed' = appendFailed
      /\ ownerless' = {r \in RoundIds : Lines("round-answered", r) # {} /\ Lines("question-round", r) = {}}
  BY DEF Restart
<1>2. /\ transcript \in Seq(KeptEvents) /\ chain = << >>
      /\ \A c \in Viewers : page[c] = "closed"
  BY DEF StreamInv, StreamTypes, StreamStops, Restart
<1>3. /\ RestoreLive \in LiveSessions /\ IsFiniteSet(RestoreLive.blocks)
      /\ RestoreLive.rounds = RestoredRounds /\ RestoreLive.pending = {}
      /\ \A r \in RestoreLive.orphaned : \E k \in DOMAIN RestoredRounds : RestoredRounds[k].id = r
      /\ \A r \in RoundIds : RestoreLive.answers[r] # 0 =>
           \/ \E k \in DOMAIN RestoredRounds : RestoredRounds[k].id = r
           \/ Lines("round-answered", r) # {} /\ Lines("question-round", r) = {}
  BY <1>2, RestoreLiveIs
<1>4. NoSession.known = FALSE
  BY DEF NoSession
<1>5. StreamTypes'
  <2>1. live' \in LiveSessions \cup {NoSession} /\ ownerless' \in SUBSET RoundIds
    BY <1>1, <1>3
  <2> QED BY <1>1, <2>1 DEF StreamInv, StreamTypes
<1>6. StreamStops' /\ PagesOK'
  BY <1>1, <1>2 DEF StreamInv, StreamStops, PagesOK, PageOK
<1>7. CASE live' = NoSession
  <2>1. ~Known'
    BY <1>4, <1>7 DEF Known
  <2>2. LiveOK'
    BY <2>1 DEF LiveOK
  <2>3. NumbersHold'
    BY <1>1, <2>1 DEF StreamInv, NumbersHold
  <2> QED BY <1>5, <1>6, <2>2, <2>3 DEF StreamInv
<1>8. CASE live' = RestoreLive
  <2>1. Numbers' = {RestoredRounds[k].id : k \in DOMAIN RestoredRounds}
    BY <1>3, <1>8 DEF Numbers
  <2>2. LiveOK'
    BY <1>1, <1>3, <1>8, <2>1 DEF LiveOK
  <2>3. transcript' \o chain' = transcript /\ transcript \o chain = transcript
    BY <1>1, <1>2, ConcatEmptySeq
  <2>4. NumbersHold'
    <3> SUFFICES ASSUME ~appendFailed PROVE NumbersHold'
      BY <1>1 DEF NumbersHold
    <3>1. Numbered(transcript)
      BY <2>3 DEF StreamInv, NumbersHold
    <3>2. /\ Len(RestoredRounds) = Cardinality(Asks(transcript))
          /\ \A k \in DOMAIN RestoredRounds : RestoredRounds[k].id = k
      BY <1>2, <3>1, RestoredRoundsAre
    <3> QED BY <1>3, <1>8, <2>3, <3>1, <3>2 DEF NumbersHold
  <2> QED BY <1>5, <1>6, <2>2, <2>4 DEF StreamInv
<1> QED BY <1>1, <1>7, <1>8

-----------------------------------------------------------------------------
\* The pages.
LEMMA PageStays ==
  ASSUME NEW c, live' = live, ownerless' = ownerless, page'[c] = page[c],
         inFlight'[c] = inFlight[c], shown'[c] = shown[c], PageOK(c)
  PROVE  PageOK(c)'
<1>1. Known' = Known /\ \A r : NewestAsk(r)' = NewestAsk(r)
  BY DEF Known, NewestAsk, NewestRound
<1> QED BY <1>1 DEF PageOK, CopyOK, StatusArrives, BlocksArrive, AskArrives, AnswersArrive, Held

LEMMA SessionStays ==
  ASSUME StreamInv, live' = live, chain' = chain, transcript' = transcript,
         appendFailed' = appendFailed, ownerless' = ownerless
  PROVE  LiveOK' /\ NumbersHold'
<1>1. Known' = Known /\ Numbers' = Numbers
  BY DEF Known, Numbers
<1> QED BY <1>1 DEF StreamInv, LiveOK, NumbersHold

LEMMA OpenPageKeeps == StreamInv /\ (\E c \in Viewers : OpenPage(c)) => StreamInv'
<1> SUFFICES ASSUME StreamInv, NEW c \in Viewers, OpenPage(c) PROVE StreamInv'
  OBVIOUS
<1>1. /\ page' = [page EXCEPT ![c] = "open"] /\ shown' = [shown EXCEPT ![c] = NothingShown]
      /\ live' = live /\ serving' = serving /\ chain' = chain /\ transcript' = transcript
      /\ inFlight' = inFlight /\ asked' = asked /\ appendFailed' = appendFailed
      /\ ownerless' = ownerless /\ serving /\ page[c] = "closed"
  BY DEF OpenPage
<1>2. NothingShown \in Copies
  BY DEF NothingShown, Copies, NoRoundShown, Statuses
<1>3. StreamTypes'
  BY <1>1, <1>2 DEF StreamInv, StreamTypes
<1>4. StreamStops'
  BY <1>1 DEF StreamInv, StreamTypes, StreamStops
<1>5. LiveOK' /\ NumbersHold'
  BY <1>1, SessionStays
<1>6. ASSUME NEW d \in Viewers PROVE PageOK(d)'
  <2>1. CASE d # c
    <3>1. page'[d] = page[d] /\ inFlight'[d] = inFlight[d] /\ shown'[d] = shown[d] /\ PageOK(d)
      BY <1>1, <2>1 DEF StreamInv, StreamTypes, PagesOK
    <3> QED BY <1>1, <3>1, PageStays
  <2>2. CASE d = c
    <3>1. page'[c] = "open" /\ inFlight'[c] = << >> /\ shown'[c] = NothingShown
      BY <1>1 DEF StreamInv, StreamTypes, StreamStops
    <3>2. CopyOK(NothingShown) /\ NothingShown.blocks = {} /\ BlocksIn(<< >>) = {}
      BY DEF CopyOK, NothingShown, NoRoundShown, BlocksIn
    <3>3. \A r \in RoundIds : NothingShown.rounds[r].ask = 0 /\ Held(NothingShown, r) = 0
      BY DEF NothingShown, NoRoundShown, Held
    <3>4. StatusArrives(c)' /\ BlocksArrive(c)'
      BY <3>1, <3>2 DEF StatusArrives, BlocksArrive
    <3>5. \A r \in RoundIds : AskArrives(c, r)' /\ AnswersArrive(c, r)'
      BY <3>1, <3>3, EndsNil DEF AskArrives, AnswersArrive
    <3> QED BY <2>2, <3>1, <3>2, <3>4, <3>5 DEF PageOK
  <2> QED BY <2>1, <2>2
<1> QED BY <1>3, <1>4, <1>5, <1>6 DEF StreamInv, PagesOK

\* What planClientReducer makes of a copy.
LEMMA ReducedIs ==
  ASSUME NEW copy \in Copies, CopyOK(copy), NEW e \in SentEvents
  PROVE  /\ Reduced(copy, e) \in Copies /\ CopyOK(Reduced(copy, e))
         /\ Reduced(copy, e).status = IF About(e, StatusTypes, 0) THEN e.value ELSE copy.status
         /\ Reduced(copy, e).blocks = copy.blocks \cup IF e.type = "block" THEN {e.id} ELSE {}
         /\ \A r \in RoundIds :
              /\ Reduced(copy, e).rounds[r].ask =
                   IF About(e, {"question-round"}, r) THEN e.value ELSE copy.rounds[r].ask
              /\ Held(Reduced(copy, e), r) =
                   IF About(e, {"round-answered"}, r) THEN e.value ELSE Held(copy, r)
<1> DEFINE s == Reduced(copy, e)
           r == e.id
<1>1. CASE e.type \in StatusTypes
  <2>1. e.id = 0 /\ e.value \in Statuses /\ About(e, StatusTypes, 0)
    BY <1>1 DEF SentEvents, KeptEvents, StatusTypes, About
  <2>2. s = [copy EXCEPT !.status = e.value]
    BY <1>1 DEF Reduced, StatusTypes
  <2>3. /\ s \in Copies /\ s.status = e.value /\ s.blocks = copy.blocks /\ s.rounds = copy.rounds
        /\ s.early = copy.early
    BY <2>1, <2>2 DEF Copies
  <2> HIDE DEF s
  <2>4. CopyOK(s) /\ \A x \in RoundIds : Held(s, x) = Held(copy, x)
    BY <2>3 DEF CopyOK, Held
  <2>5. e.type \notin {"block", "question-round", "round-answered"}
    BY <1>1 DEF StatusTypes
  <2> QED BY <2>1, <2>3, <2>4, <2>5 DEF About, s
<1>2. CASE e.type = "block"
  <2>1. e.id \in Nat
    BY <1>2 DEF SentEvents, KeptEvents
  <2>2. s = [copy EXCEPT !.blocks = @ \cup {e.id}]
    BY <1>2 DEF Reduced
  <2>3. /\ s \in Copies /\ s.status = copy.status /\ s.blocks = copy.blocks \cup {e.id}
        /\ s.rounds = copy.rounds /\ s.early = copy.early
    BY <2>1, <2>2 DEF Copies
  <2> HIDE DEF s
  <2>4. CopyOK(s) /\ \A x \in RoundIds : Held(s, x) = Held(copy, x)
    BY <2>3 DEF CopyOK, Held
  <2>5. e.type \notin StatusTypes
    BY <1>2 DEF StatusTypes
  <2> QED BY <1>2, <2>3, <2>4, <2>5 DEF About, s
<1>3. CASE e.type = "question-round"
  <2>1. r \in RoundIds /\ e.value \in Nat \ {0}
    BY <1>3 DEF SentEvents, KeptEvents
  <2> DEFINE now == [ask |-> e.value,
                     answers |-> IF copy.early[r] > 0 THEN copy.early[r] ELSE copy.rounds[r].answers]
  <2>2. s = [copy EXCEPT !.rounds[e.id] = now, !.early[e.id] = 0]
    BY <1>3 DEF Reduced
  <2>3. /\ copy.rounds \in [RoundIds -> [ask : Nat, answers : Nat]] /\ copy.early \in [RoundIds -> Nat]
    BY DEF Copies
  <2>4. now \in [ask : Nat, answers : Nat]
    BY <2>1, <2>3
  <2>5. now.ask = e.value /\ now.answers = Held(copy, r)
    BY <2>1, <2>3 DEF Held
  <2> HIDE DEF now
  <2>6. /\ s.status = copy.status /\ s.blocks = copy.blocks
        /\ s.rounds = [copy.rounds EXCEPT ![r] = now] /\ s.early = [copy.early EXCEPT ![r] = 0]
        /\ s \in Copies
    <3> DEFINE rounds == [copy.rounds EXCEPT ![r] = now]
               early == [copy.early EXCEPT ![r] = 0]
    <3>1. rounds \in [RoundIds -> [ask : Nat, answers : Nat]] /\ early \in [RoundIds -> Nat]
      BY <2>1, <2>3, <2>4
    <3>2. s = [copy EXCEPT !.rounds = rounds, !.early = early]
      BY <2>2
    <3> HIDE DEF rounds, early, s
    <3>3. /\ s.status = copy.status /\ s.blocks = copy.blocks
          /\ s.rounds = rounds /\ s.early = early /\ s \in Copies
      BY <3>1, <3>2 DEF Copies
    <3> QED BY <3>3 DEF rounds, early
  <2> HIDE DEF s
  <2>7. /\ s.rounds[r] = now /\ s.early[r] = 0
        /\ \A x \in RoundIds : x # r => s.rounds[x] = copy.rounds[x] /\ s.early[x] = copy.early[x]
    BY <2>1, <2>3, <2>6
  <2>8. CopyOK(s)
    BY <2>1, <2>5, <2>7 DEF CopyOK
  <2>9. \A x \in RoundIds : Held(s, x) = Held(copy, x)
    BY <2>5, <2>7 DEF Held
  <2>10. \A x \in RoundIds : s.rounds[x].ask = IF x = r THEN e.value ELSE copy.rounds[x].ask
    BY <2>5, <2>7
  <2> QED BY <1>3, <2>6, <2>8, <2>9, <2>10 DEF About, s, StatusTypes
<1>4. CASE e.type = "round-answered"
  <2>1. r \in RoundIds /\ e.value \in Nat \ {0}
    BY <1>4 DEF SentEvents, KeptEvents
  <2>2. s = IF copy.rounds[r].ask = 0 THEN [copy EXCEPT !.early[r] = e.value]
            ELSE [copy EXCEPT !.rounds[r].answers = e.value]
    BY <1>4 DEF Reduced
  <2>3. /\ copy.rounds \in [RoundIds -> [ask : Nat, answers : Nat]] /\ copy.early \in [RoundIds -> Nat]
    BY DEF Copies
  <2>4. CASE copy.rounds[r].ask = 0
    <3>1. /\ s.status = copy.status /\ s.blocks = copy.blocks /\ s.rounds = copy.rounds
          /\ s.early = [copy.early EXCEPT ![r] = e.value] /\ s \in Copies
      BY <2>1, <2>2, <2>3, <2>4 DEF Copies
    <3> HIDE DEF s
    <3>2. s.early[r] = e.value /\ \A x \in RoundIds : x # r => s.early[x] = copy.early[x]
      BY <2>1, <2>3, <3>1
    <3>3. CopyOK(s)
      BY <2>4, <3>1, <3>2 DEF CopyOK
    <3>4. \A x \in RoundIds : Held(s, x) = IF x = r THEN e.value ELSE Held(copy, x)
      BY <2>1, <3>1, <3>2 DEF Held
    <3> QED BY <1>4, <3>1, <3>3, <3>4 DEF About, s, StatusTypes
  <2>5. CASE copy.rounds[r].ask # 0
    <3>1. /\ s.status = copy.status /\ s.blocks = copy.blocks /\ s.early = copy.early
          /\ s.rounds = [copy.rounds EXCEPT ![r].answers = e.value] /\ s \in Copies
      BY <2>1, <2>2, <2>3, <2>5, SMTT(30) DEF Copies
    <3> HIDE DEF s
    <3>2. /\ s.rounds[r].answers = e.value /\ s.rounds[r].ask = copy.rounds[r].ask
          /\ \A x \in RoundIds : x # r => s.rounds[x] = copy.rounds[x]
      BY <2>1, <2>3, <3>1
    <3>3. CopyOK(s)
      BY <2>5, <3>1, <3>2 DEF CopyOK
    <3>4. \A x \in RoundIds : Held(s, x) = IF x = r THEN e.value ELSE Held(copy, x)
      BY <2>1, <2>5, <3>1, <3>2 DEF Held, CopyOK
    <3> QED BY <1>4, <3>1, <3>2, <3>3, <3>4 DEF About, s, StatusTypes
  <2> QED BY <2>4, <2>5
<1> QED BY <1>1, <1>2, <1>3, <1>4 DEF SentEvents, KeptEvents, StatusTypes

LEMMA ReceiveKeeps == StreamInv /\ (\E c \in Viewers : Receive(c)) => StreamInv'
<1> SUFFICES ASSUME StreamInv, NEW c \in Viewers, Receive(c) PROVE StreamInv'
  OBVIOUS
<1> DEFINE q == inFlight[c]
           e == Head(q)
           copy == shown[c]
<1>1. /\ page' = page /\ shown' = [shown EXCEPT ![c] = Reduced(copy, e)]
      /\ inFlight' = [inFlight EXCEPT ![c] = Tail(q)] /\ q # << >>
      /\ live' = live /\ serving' = serving /\ chain' = chain /\ transcript' = transcript
      /\ asked' = asked /\ appendFailed' = appendFailed /\ ownerless' = ownerless
  BY DEF Receive
<1>2. q \in Seq(SentEvents) /\ copy \in Copies
  BY DEF StreamInv, StreamTypes
<1>3. page[c] # "closed"
  BY <1>1 DEF StreamInv, StreamStops
<1>4. PageOK(c) /\ CopyOK(copy)
  BY <1>3 DEF StreamInv, PagesOK, PageOK
<1>5. e \in SentEvents /\ Tail(q) \in Seq(SentEvents)
  BY <1>1, <1>2, HeadTailProperties
<1>6. /\ Reduced(copy, e) \in Copies /\ CopyOK(Reduced(copy, e))
      /\ Reduced(copy, e).status = IF About(e, StatusTypes, 0) THEN e.value ELSE copy.status
      /\ Reduced(copy, e).blocks = copy.blocks \cup IF e.type = "block" THEN {e.id} ELSE {}
      /\ \A r \in RoundIds :
           /\ Reduced(copy, e).rounds[r].ask =
                IF About(e, {"question-round"}, r) THEN e.value ELSE copy.rounds[r].ask
           /\ Held(Reduced(copy, e), r) =
                IF About(e, {"round-answered"}, r) THEN e.value ELSE Held(copy, r)
  BY <1>2, <1>4, <1>5, ReducedIs
<1>7. inFlight'[c] = Tail(q) /\ shown'[c] = Reduced(copy, e)
  BY <1>1 DEF StreamInv, StreamTypes
<1>8. StreamTypes'
  BY <1>1, <1>5, <1>6 DEF StreamInv, StreamTypes
<1>9. StreamStops'
  <2>1. \A d \in Viewers : page[d] = "closed" => d # c
    BY <1>3
  <2> QED BY <1>1, <2>1 DEF StreamInv, StreamTypes, StreamStops
<1>10. LiveOK' /\ NumbersHold'
  BY <1>1, SessionStays
<1>11. PageOK(c)'
  <2>0. Known' = Known /\ \A r : NewestAsk(r)' = NewestAsk(r)
    BY <1>1 DEF Known, NewestAsk, NewestRound
  <2> HIDE DEF q, e, copy
  <2>1. ASSUME NEW types, NEW id, NEW value, NEW before, Ends(q, types, id, value, before)
        PROVE  Ends(Tail(q), types, id, value, IF About(e, types, id) THEN e.value ELSE before)
    BY <1>1, <1>2, <2>1, EndsTail DEF e
  <2>2. StatusArrives(c)'
    BY <1>1, <1>3, <1>4, <1>6, <1>7, <2>0, <2>1 DEF PageOK, StatusArrives, q, copy
  <2>3. BlocksArrive(c)'
    <3>1. BlocksIn(q) = BlocksIn(Tail(q)) \cup IF e.type = "block" THEN {e.id} ELSE {}
      BY <1>1, <1>2, BlocksTail DEF e
    <3> QED BY <1>1, <1>3, <1>4, <1>6, <1>7, <2>0, <3>1 DEF PageOK, BlocksArrive, q, copy
  <2>4. ASSUME Known, NEW r \in RoundIds PROVE AskArrives(c, r)'
    <3>1. AskArrives(c, r)
      BY <1>3, <1>4, <2>4 DEF PageOK
    <3> QED BY <1>1, <1>6, <1>7, <2>0, <2>1, <3>1 DEF AskArrives, q, copy
  <2>5. ASSUME Known, NEW r \in RoundIds PROVE AnswersArrive(c, r)'
    <3>1. AnswersArrive(c, r)
      BY <1>3, <1>4, <2>5 DEF PageOK
    <3>2. Held(shown[c], r)' = Held(Reduced(copy, e), r)
      BY <1>7 DEF Held
    <3> QED BY <1>1, <1>6, <1>7, <2>0, <2>1, <3>1, <3>2 DEF AnswersArrive, q, copy
  <2> QED BY <1>6, <1>7, <2>0, <2>2, <2>3, <2>4, <2>5 DEF PageOK
<1>12. ASSUME NEW d \in Viewers PROVE PageOK(d)'
  <2>1. CASE d # c
    <3>1. page'[d] = page[d] /\ inFlight'[d] = inFlight[d] /\ shown'[d] = shown[d] /\ PageOK(d)
      BY <1>1, <2>1 DEF StreamInv, StreamTypes, PagesOK
    <3> QED BY <1>1, <3>1, PageStays
  <2> QED BY <1>11, <2>1
<1> QED BY <1>8, <1>9, <1>10, <1>12 DEF StreamInv, PagesOK

-----------------------------------------------------------------------------
\* The replay, which ends with what the session says.
LEMMA SetToSeqIs ==
  ASSUME NEW B, IsFiniteSet(B)
  PROVE  /\ Cardinality(B) \in Nat /\ SetToSeq(B) \in [1..Cardinality(B) -> B]
         /\ \A b \in B : \E k \in 1..Cardinality(B) : SetToSeq(B)[k] = b
<1> DEFINE N == Cardinality(B)
           f == SetToSeq(B)
<1>1. N \in Nat /\ ExistsBijection(1..N, B)
  BY FS_CardinalityType
<1>2. \E g \in [1..N -> B] : IsInjective(g)
  BY <1>1 DEF ExistsBijection, Bijection, Injection
<1>3. f \in [1..N -> B] /\ IsInjective(f)
  BY <1>2 DEF SetToSeq
<1>4. f \in Injection(1..N, B)
  BY <1>3 DEF Injection
<1>5. Cardinality(1..N) = N
  BY <1>1, FS_Interval
<1> HIDE DEF f
<1>6. f \in Surjection(1..N, B)
  BY <1>4, <1>5, FS_Injection
<1>7. \A b \in B : \E k \in 1..N : f[k] = b
  BY <1>6 DEF Surjection
<1> QED BY <1>1, <1>3, <1>7 DEF f

LEMMA BlockReplay ==
  ASSUME NEW blocks, blocks \subseteq Nat, IsFiniteSet(blocks),
         NEW cards, cards = SetToSeq({BlockIs(n) : n \in blocks})
  PROVE  /\ cards \in Seq(KeptEvents) /\ BlocksIn(cards) = blocks
         /\ \A i \in DOMAIN cards : cards[i].type = "block"
<1> DEFINE B == {BlockIs(n) : n \in blocks}
           f == [n \in blocks |-> BlockIs(n)]
<1>1. f \in Surjection(blocks, B)
  BY DEF Surjection
<1>2. IsFiniteSet(B)
  <2> HIDE DEF f, B
  <2> QED BY <1>1, FS_Surjection
<1>3. \A b \in B : b \in KeptEvents /\ b.type = "block" /\ b.id \in blocks
  BY EventsAre DEF BlockIs
<1>4. \A n \in blocks : BlockIs(n) \in B /\ BlockIs(n).id = n
  BY DEF BlockIs
<1>5. cards = SetToSeq(B)
  OBVIOUS
<1> HIDE DEF B
<1>6. /\ Cardinality(B) \in Nat /\ cards \in [1..Cardinality(B) -> B]
      /\ \A b \in B : \E k \in 1..Cardinality(B) : cards[k] = b
  BY <1>2, <1>5, SetToSeqIs
<1>7. cards \in [1..Cardinality(B) -> KeptEvents]
  BY <1>3, <1>6
<1>8. cards \in Seq(KeptEvents) /\ DOMAIN cards = 1..Cardinality(B)
  BY <1>6, <1>7, FunctionIsSeq
<1>9. \A i \in DOMAIN cards : cards[i].type = "block" /\ cards[i].id \in blocks
  BY <1>3, <1>6, <1>8
<1>10. \A n \in blocks : \E i \in DOMAIN cards : cards[i].type = "block" /\ cards[i].id = n
  <2> TAKE n \in blocks
  <2>1. PICK i \in DOMAIN cards : cards[i] = BlockIs(n)
    BY <1>4, <1>6, <1>8
  <2> QED BY <1>4, <1>9, <2>1
<1> QED BY <1>8, <1>9, <1>10 DEF BlocksIn

\* Positions of a round (2k - 1) and of its answers (2k).
LEMMA EvenAndOdd ==
  ASSUME NEW k \in Nat \ {0}
  PROVE  /\ (2 * k - 1) % 2 = 1 /\ (2 * k - 1 + 1) \div 2 = k
         /\ (2 * k) % 2 = 0 /\ (2 * k + 1) \div 2 = k
OBVIOUS

LEMMA RoundReplayIs ==
  ASSUME live \in LiveSessions
  PROVE  /\ RoundReplay \in Seq(KeptEvents)
         /\ \A i \in DOMAIN RoundReplay : RoundReplay[i].type \in {"question-round", "round-answered"}
         /\ \A r \in RoundIds : \A before :
              /\ Ends(RoundReplay, {"question-round"}, r,
                      IF r \in Numbers THEN NewestAsk(r) ELSE before, before)
              /\ Ends(RoundReplay, {"round-answered"}, r,
                      IF r \in Numbers /\ live.answers[r] # 0 THEN live.answers[r] ELSE before, before)
<1> DEFINE rounds == live.rounds
           answered == {k \in DOMAIN rounds : live.answers[rounds[k].id] # 0}
           P == {2 * k - 1 : k \in DOMAIN rounds} \cup {2 * k : k \in answered}
           N == Cardinality(P)
           said == Ascending(P)
           asked_(k) == RoundIs(rounds[k].id, rounds[k].ask)
           answers_(k) == AnswersAre(rounds[k].id, live.answers[rounds[k].id])
<1>1. /\ rounds \in Seq(AskedRounds) /\ Len(rounds) \in Nat /\ DOMAIN rounds = 1..Len(rounds)
      /\ live.answers \in [RoundIds -> Nat]
  BY LenProperties DEF LiveSessions
<1>2. \A k \in DOMAIN rounds : k \in Nat \ {0} /\ rounds[k].id \in RoundIds /\ rounds[k].ask \in Nat \ {0}
  <2> TAKE k \in DOMAIN rounds
  <2>1. rounds[k] \in AskedRounds
    BY <1>1, ElementOfSeq
  <2> QED BY <1>1, <2>1 DEF AskedRounds
<1>3. P \subseteq Nat /\ IsFiniteSet(P)
  <2>1. \A k \in DOMAIN rounds : 2 * k - 1 \in 1..(2 * Len(rounds)) /\ 2 * k \in 1..(2 * Len(rounds))
    BY <1>1
  <2>2. P \in SUBSET (1..(2 * Len(rounds)))
    BY <2>1
  <2>3. IsFiniteSet(1..(2 * Len(rounds)))
    BY <1>1, FS_Interval
  <2> HIDE DEF P
  <2>4. IsFiniteSet(P)
    BY <2>2, <2>3, FS_Subset
  <2>5. P \subseteq Nat
    BY <2>2
  <2> QED BY <2>4, <2>5
<1>4. /\ N \in Nat /\ said \in [1..N -> P]
      /\ \A p \in P : \E i \in 1..N : said[i] = p
      /\ \A i, j \in 1..N : i < j => said[i] < said[j]
  <2> HIDE DEF P
  <2> QED BY <1>3, AscendingIsOrder
<1>5. RoundReplay = [i \in 1..N |->
        IF said[i] % 2 = 1 THEN asked_((said[i] + 1) \div 2) ELSE answers_((said[i] + 1) \div 2)]
  <2>1. DOMAIN said = 1..N
    BY <1>4
  <2>2. RoundReplay = [i \in DOMAIN said |->
          IF said[i] % 2 = 1 THEN asked_((said[i] + 1) \div 2) ELSE answers_((said[i] + 1) \div 2)]
    BY DEF RoundReplay
  <2> QED BY <2>1, <2>2
<1> HIDE DEF N, said, asked_, answers_
<1>6. ASSUME NEW i \in 1..N
      PROVE  \E k \in DOMAIN rounds :
               \/ said[i] = 2 * k - 1 /\ RoundReplay[i] = asked_(k)
               \/ said[i] = 2 * k /\ RoundReplay[i] = answers_(k) /\ k \in answered
  <2>1. said[i] \in P
    BY <1>4
  <2>2. CASE \E k \in DOMAIN rounds : said[i] = 2 * k - 1
    <3>1. PICK k \in DOMAIN rounds : said[i] = 2 * k - 1
      BY <2>2
    <3>2. said[i] % 2 = 1 /\ (said[i] + 1) \div 2 = k
      BY <1>2, <3>1, EvenAndOdd
    <3>3. RoundReplay[i] = asked_(k)
      BY <1>5, <3>2
    <3> QED BY <3>1, <3>3
  <2>3. CASE \E k \in answered : said[i] = 2 * k
    <3>1. PICK k \in answered : said[i] = 2 * k
      BY <2>3
    <3>2. said[i] % 2 = 0 /\ (said[i] + 1) \div 2 = k
      BY <1>2, <3>1, EvenAndOdd
    <3>3. RoundReplay[i] = answers_(k)
      BY <1>5, <3>2
    <3> QED BY <3>1, <3>3
  <2> QED BY <2>1, <2>2, <2>3
<1>7. \A k \in DOMAIN rounds : /\ \E i \in 1..N : said[i] = 2 * k - 1
                               /\ k \in answered => \E i \in 1..N : said[i] = 2 * k
  BY <1>4
<1>8. \A k \in DOMAIN rounds :
        /\ asked_(k) \in KeptEvents /\ asked_(k).type = "question-round"
        /\ asked_(k).id = rounds[k].id /\ asked_(k).value = rounds[k].ask
        /\ answers_(k).type = "round-answered"
        /\ answers_(k).id = rounds[k].id /\ answers_(k).value = live.answers[rounds[k].id]
        /\ k \in answered => answers_(k) \in KeptEvents
  <2> TAKE k \in DOMAIN rounds
  <2>1. k \in answered => live.answers[rounds[k].id] \in Nat \ {0}
    BY <1>1, <1>2
  <2>2. asked_(k) \in KeptEvents /\ (k \in answered => answers_(k) \in KeptEvents)
    BY <1>2, <2>1, EventsAre DEF asked_, answers_
  <2> QED BY <2>2 DEF asked_, answers_, RoundIs, AnswersAre
<1>9. \A k \in DOMAIN rounds : rounds[k].id \in Numbers
  BY DEF Numbers
<1> HIDE DEF P, rounds, answered
<1>10. RoundReplay \in Seq(KeptEvents) /\ DOMAIN RoundReplay = 1..N
  <2>1. \A i \in 1..N : RoundReplay[i] \in KeptEvents
    BY <1>6, <1>8
  <2>2. RoundReplay \in [1..N -> KeptEvents]
    BY <1>5, <2>1
  <2> QED BY <1>4, <2>2, FunctionIsSeq
<1>11. \A i \in DOMAIN RoundReplay : RoundReplay[i].type \in {"question-round", "round-answered"}
  BY <1>6, <1>8, <1>10
<1>12. ASSUME NEW r \in RoundIds, NEW before, r \notin Numbers
       PROVE  /\ Ends(RoundReplay, {"question-round"}, r, before, before)
              /\ Ends(RoundReplay, {"round-answered"}, r, before, before)
  <2>1. \A i \in DOMAIN RoundReplay : RoundReplay[i].id # r
    BY <1>6, <1>8, <1>9, <1>10, <1>12
  <2> QED BY <2>1, EndsSilent DEF About
<1>13. ASSUME NEW r \in RoundIds, NEW before, live.answers[r] = 0
       PROVE  Ends(RoundReplay, {"round-answered"}, r, before, before)
  <2>1. ASSUME NEW i \in DOMAIN RoundReplay, About(RoundReplay[i], {"round-answered"}, r) PROVE FALSE
    <3>1. PICK k \in answered : RoundReplay[i] = answers_(k) /\ k \in DOMAIN rounds
      BY <1>6, <1>8, <1>10, <2>1 DEF About
    <3>2. rounds[k].id = r
      BY <1>8, <2>1, <3>1 DEF About
    <3> QED BY <1>13, <3>1, <3>2 DEF answered
  <2> QED BY <2>1, EndsSilent
<1>14. ASSUME NEW r \in RoundIds, NEW before, r \in Numbers
       PROVE  /\ Ends(RoundReplay, {"question-round"}, r, NewestAsk(r), before)
              /\ live.answers[r] # 0 =>
                   Ends(RoundReplay, {"round-answered"}, r, live.answers[r], before)
  <2> DEFINE n == NewestRound(r)
  <2>1. \/ n = 0 /\ \A k \in DOMAIN rounds : rounds[k].id # r
        \/ /\ n \in DOMAIN rounds /\ n # 0 /\ rounds[n].id = r
           /\ \A k \in DOMAIN rounds : rounds[k].id = r => k <= n
    <3>1. n = Max({0} \cup {k \in DOMAIN rounds : rounds[k].id = r})
      BY DEF NewestRound, rounds
    <3>2. rounds \in Seq(AskedRounds)
      BY <1>1
    <3> HIDE DEF n
    <3> QED BY <3>1, <3>2, NewestOf, Zenon
  <2>2. \E k \in DOMAIN rounds : rounds[k].id = r
    BY <1>14 DEF Numbers, rounds
  <2>3. /\ n \in DOMAIN rounds /\ n # 0 /\ rounds[n].id = r
        /\ \A k \in DOMAIN rounds : rounds[k].id = r => k <= n
    BY <2>1, <2>2
  <2>4. NewestAsk(r) = rounds[n].ask
    BY <2>3 DEF NewestAsk, rounds
  <2> HIDE DEF n
  <2>5. Ends(RoundReplay, {"question-round"}, r, NewestAsk(r), before)
    <3> DEFINE T == {"question-round"}
    <3>1. PICK i \in 1..N : said[i] = 2 * n - 1
      BY <1>7, <2>3
    <3>2. RoundReplay[i] = asked_(n)
      <4>1. PICK k \in DOMAIN rounds :
               \/ said[i] = 2 * k - 1 /\ RoundReplay[i] = asked_(k)
               \/ said[i] = 2 * k /\ RoundReplay[i] = answers_(k)
        BY <1>6
      <4>2. k = n /\ said[i] # 2 * k
        BY <1>2, <2>3, <3>1, <4>1
      <4> QED BY <4>1, <4>2
    <3>3. About(RoundReplay[i], T, r) /\ RoundReplay[i].value = NewestAsk(r)
      BY <1>8, <2>3, <2>4, <3>2 DEF About
    <3>4. ASSUME NEW j \in DOMAIN RoundReplay, j > i, About(RoundReplay[j], T, r) PROVE FALSE
      <4>1. PICK k \in DOMAIN rounds :
               \/ said[j] = 2 * k - 1 /\ RoundReplay[j] = asked_(k)
               \/ said[j] = 2 * k /\ RoundReplay[j] = answers_(k)
        BY <1>6, <1>10
      <4>2. said[j] = 2 * k - 1 /\ rounds[k].id = r
        BY <1>8, <3>4, <4>1 DEF About
      <4>3. k <= n /\ k \in Nat /\ n \in Nat
        BY <1>2, <2>3, <4>2
      <4>4. said[i] < said[j]
        BY <1>4, <1>10, <3>4
      <4> QED BY <3>1, <4>2, <4>3, <4>4
    <3> QED BY <1>10, <3>3, <3>4 DEF Ends
  <2>6. ASSUME live.answers[r] # 0 PROVE Ends(RoundReplay, {"round-answered"}, r, live.answers[r], before)
    <3> DEFINE T == {"round-answered"}
    <3>0. n \in answered
      BY <2>3, <2>6 DEF answered
    <3>1. PICK i \in 1..N : said[i] = 2 * n
      BY <1>7, <2>3, <3>0
    <3>2. RoundReplay[i] = answers_(n)
      <4>1. PICK k \in DOMAIN rounds :
               \/ said[i] = 2 * k - 1 /\ RoundReplay[i] = asked_(k)
               \/ said[i] = 2 * k /\ RoundReplay[i] = answers_(k)
        BY <1>6
      <4>2. k = n /\ said[i] # 2 * k - 1
        BY <1>2, <2>3, <3>1, <4>1
      <4> QED BY <4>1, <4>2
    <3>3. About(RoundReplay[i], T, r) /\ RoundReplay[i].value = live.answers[r]
      BY <1>8, <2>3, <3>2 DEF About
    <3>4. ASSUME NEW j \in DOMAIN RoundReplay, j > i, About(RoundReplay[j], T, r) PROVE FALSE
      <4>1. PICK k \in DOMAIN rounds :
               \/ said[j] = 2 * k - 1 /\ RoundReplay[j] = asked_(k)
               \/ said[j] = 2 * k /\ RoundReplay[j] = answers_(k)
        BY <1>6, <1>10
      <4>2. said[j] = 2 * k /\ rounds[k].id = r
        BY <1>8, <3>4, <4>1 DEF About
      <4>3. k <= n /\ k \in Nat /\ n \in Nat
        BY <1>2, <2>3, <4>2
      <4>4. said[i] < said[j]
        BY <1>4, <1>10, <3>4
      <4> QED BY <3>1, <4>2, <4>3, <4>4
    <3> QED BY <1>10, <3>3, <3>4 DEF Ends
  <2> QED BY <2>5, <2>6
<1>15. ASSUME NEW r \in RoundIds, NEW before
       PROVE  /\ Ends(RoundReplay, {"question-round"}, r,
                      IF r \in Numbers THEN NewestAsk(r) ELSE before, before)
              /\ Ends(RoundReplay, {"round-answered"}, r,
                      IF r \in Numbers /\ live.answers[r] # 0 THEN live.answers[r] ELSE before, before)
  BY <1>12, <1>13, <1>14
<1> QED BY <1>10, <1>11, <1>15

LEMMA HelloKeeps == StreamInv /\ (\E c \in Viewers : Hello(c)) => StreamInv'
<1> SUFFICES ASSUME StreamInv, NEW c \in Viewers, Hello(c) PROVE StreamInv'
  OBVIOUS
<1> DEFINE q == inFlight[c]
           copy == shown[c]
<1>1. /\ page' = [page EXCEPT ![c] = "greeted"] /\ inFlight' = [inFlight EXCEPT ![c] = @ \o Replay]
      /\ live' = live /\ serving' = serving /\ chain' = chain /\ transcript' = transcript
      /\ shown' = shown /\ asked' = asked /\ appendFailed' = appendFailed
      /\ ownerless' = ownerless /\ page[c] = "open"
  BY DEF Hello
<1>2. q \in Seq(SentEvents) /\ PageOK(c) /\ CopyOK(copy)
  BY <1>1 DEF StreamInv, StreamTypes, PagesOK, PageOK
<1>3. page'[c] = "greeted" /\ inFlight'[c] = q \o Replay
  BY <1>1 DEF StreamInv, StreamTypes
<1>4. serving
  BY <1>1 DEF StreamInv, StreamStops
<1>5. ASSUME Replay \in Seq(SentEvents),
             \A before : Ends(Replay, StatusTypes, 0, IF Known THEN live.status ELSE "none", before),
             Known => BlocksIn(Replay) = live.blocks,
             Known => \A r \in RoundIds : \A before :
               /\ Ends(Replay, {"question-round"}, r, IF r \in Numbers THEN NewestAsk(r) ELSE before, before)
               /\ Ends(Replay, {"round-answered"}, r,
                       IF r \in Numbers /\ live.answers[r] # 0 THEN live.answers[r] ELSE before, before)
      PROVE  StreamInv'
  <2>1. StreamTypes'
    <3>1. q \o Replay \in Seq(SentEvents)
      BY <1>2, <1>5, ConcatProperties
    <3> QED BY <1>1, <3>1 DEF StreamInv, StreamTypes
  <2>2. StreamStops'
    <3>1. \A d \in Viewers : page'[d] = "closed" => d # c /\ page[d] = "closed"
      BY <1>1, <1>3 DEF StreamInv, StreamTypes
    <3> QED BY <1>1, <1>4, <3>1 DEF StreamInv, StreamTypes, StreamStops
  <2>3. LiveOK' /\ NumbersHold'
    BY <1>1, SessionStays
  <2>4. PageOK(c)'
    <3>0. Known' = Known /\ \A r : NewestAsk(r)' = NewestAsk(r)
      BY <1>1 DEF Known, NewestAsk, NewestRound
    <3> HIDE DEF q, copy
    <3>1. StatusArrives(c)'
      <4> DEFINE v == IF Known THEN live.status ELSE "none"
      <4>1. Ends(q, StatusTypes, 0, copy.status, copy.status) \/
            \E between : Ends(q, StatusTypes, 0, between, copy.status)
        <5>1. CASE \A i \in DOMAIN q : ~About(q[i], StatusTypes, 0)
          BY <5>1, EndsSilent
        <5>2. CASE \E i \in DOMAIN q : About(q[i], StatusTypes, 0)
          <6> DEFINE K == {i \in DOMAIN q : About(q[i], StatusTypes, 0)}
          <6>1. K \subseteq Nat /\ K # {} /\ Len(q) \in Nat /\ \A i \in K : i <= Len(q)
            BY <1>2, <5>2, LenProperties
          <6>2. PICK m \in K : \A i \in K : i <= m
            <7> HIDE DEF K
            <7> QED BY <6>1, BoundedHasGreatest
          <6>3. Ends(q, StatusTypes, 0, q[m].value, copy.status)
            BY <1>2, <6>1, <6>2, LenProperties DEF Ends
          <6> QED BY <6>3
        <5> QED BY <5>1, <5>2
      <4>2. PICK between : Ends(q, StatusTypes, 0, between, copy.status)
        BY <4>1
      <4>3. Ends(q \o Replay, StatusTypes, 0, v, copy.status)
        BY <1>2, <1>5, <4>2, EndsConcat
      <4> QED BY <1>1, <1>3, <3>0, <4>3 DEF StatusArrives, copy
    <3>2. BlocksArrive(c)'
      <4>1. BlocksIn(q \o Replay) = BlocksIn(q) \cup BlocksIn(Replay)
        BY <1>2, <1>5, BlocksConcat
      <4>2. Known => shown[c].blocks \cup BlocksIn(q) \subseteq live.blocks
        BY <1>1, <1>2 DEF PageOK, BlocksArrive, q
      <4> QED BY <1>1, <1>3, <1>5, <3>0, <4>1, <4>2 DEF BlocksArrive
    <3>3. ASSUME Known, NEW r \in RoundIds PROVE AskArrives(c, r)'
      <4> DEFINE T == {"question-round"}
                 was == copy.rounds[r].ask
      <4>1. Ends(q, T, r, NewestAsk(r), was) \/ Ends(q, T, r, 0, was)
        BY <1>1, <1>2, <3>3 DEF PageOK, AskArrives, q, copy
      <4>2. CASE r \in Numbers
        <5>1. \A before : Ends(Replay, T, r, NewestAsk(r), before)
          BY <1>5, <3>3, <4>2
        <5>2. Ends(q \o Replay, T, r, NewestAsk(r), was)
          BY <1>2, <1>5, <4>1, <5>1, EndsConcat
        <5> QED BY <1>1, <1>3, <3>0, <5>2 DEF AskArrives, copy
      <4>3. CASE r \notin Numbers
        <5>1. NewestAsk(r) = 0
          <6>1. live.rounds \in Seq(AskedRounds)
            BY <3>3, KnownIsLive DEF StreamInv, LiveSessions
          <6>2. \A k \in DOMAIN live.rounds : live.rounds[k].id # r
            BY <4>3 DEF Numbers
          <6> DEFINE n == NewestRound(r)
                     rounds == live.rounds
          <6>3. n = Max({0} \cup {k \in DOMAIN rounds : rounds[k].id = r})
            BY DEF NewestRound
          <6> HIDE DEF n, rounds
          <6>4. \/ n = 0 /\ \A k \in DOMAIN rounds : rounds[k].id # r
                \/ /\ n \in DOMAIN rounds /\ n # 0 /\ rounds[n].id = r
                   /\ \A k \in DOMAIN rounds : rounds[k].id = r => k <= n
            <7>1. rounds \in Seq(AskedRounds)
              BY <6>1 DEF rounds
            <7> QED BY <6>3, <7>1, NewestOf, Zenon
          <6>5. n = 0
            BY <6>2, <6>4 DEF rounds
          <6> QED BY <6>5 DEF NewestAsk, n
        <5>2. Ends(Replay, T, r, 0, 0)
          BY <1>5, <3>3, <4>3
        <5>3. Ends(q \o Replay, T, r, NewestAsk(r), was)
          BY <1>2, <1>5, <4>1, <5>1, <5>2, EndsConcat
        <5> QED BY <1>1, <1>3, <3>0, <5>3 DEF AskArrives, copy
      <4> QED BY <4>2, <4>3
    <3>4. ASSUME Known, NEW r \in RoundIds PROVE AnswersArrive(c, r)'
      <4> DEFINE T == {"round-answered"}
                 was == Held(copy, r)
      <4>0. Held(shown[c], r)' = was
        BY <1>1 DEF Held, copy
      <4>1. Ends(q, T, r, live.answers[r], was) \/ Ends(q, T, r, 0, was)
        BY <1>1, <1>2, <3>4 DEF PageOK, AnswersArrive, q, copy
      <4> HIDE DEF was
      <4>2. CASE r \in Numbers /\ live.answers[r] # 0
        <5>1. \A before : Ends(Replay, T, r, live.answers[r], before)
          BY <1>5, <3>4, <4>2
        <5>2. Ends(q \o Replay, T, r, live.answers[r], was)
          BY <1>2, <1>5, <4>1, <5>1, EndsConcat
        <5> QED BY <1>1, <1>3, <4>0, <5>2 DEF AnswersArrive
      <4>3. CASE ~(r \in Numbers /\ live.answers[r] # 0)
        <5>1. \A before : Ends(Replay, T, r, before, before)
          BY <1>5, <3>4, <4>3
        <5>2. Ends(q \o Replay, T, r, live.answers[r], was) \/ Ends(q \o Replay, T, r, 0, was)
          BY <1>2, <1>5, <4>1, <5>1, EndsConcat
        <5>3. live.answers[r] = 0 \/ r \in ownerless
          BY <3>4, <4>3 DEF StreamInv, LiveOK
        <5> QED BY <1>1, <1>3, <4>0, <5>2, <5>3 DEF AnswersArrive
      <4> QED BY <4>2, <4>3
    <3> QED BY <1>1, <1>2, <3>0, <3>1, <3>2, <3>3, <3>4 DEF PageOK, copy
  <2>5. ASSUME NEW d \in Viewers PROVE PageOK(d)'
    <3>1. CASE d # c
      <4>1. page'[d] = page[d] /\ inFlight'[d] = inFlight[d] /\ shown'[d] = shown[d] /\ PageOK(d)
        BY <1>1, <3>1 DEF StreamInv, StreamTypes, PagesOK
      <4> QED BY <1>1, <4>1, PageStays
    <3> QED BY <2>4, <3>1
  <2> QED BY <2>1, <2>2, <2>3, <2>5 DEF StreamInv, PagesOK
<1>6. CASE ~Known
  <2> DEFINE e == SessionsAre("none")
  <2>1. Replay = <<e>> /\ e \in SentEvents
    BY <1>6, EventsAre DEF Replay, Statuses
  <2>2. <<e>> \in Seq(SentEvents)
    BY <2>1
  <2>3. About(e, StatusTypes, 0) /\ e.value = "none"
    BY DEF About, StatusTypes, SessionsAre
  <2> HIDE DEF e
  <2>4. \A before : Ends(Replay, StatusTypes, 0, "none", before)
    BY <2>1, <2>3, EndsOne
  <2> QED BY <1>5, <1>6, <2>1, <2>2, <2>4
<1>7. CASE Known
  <2> DEFINE e == SessionsAre(live.status)
             cards == SetToSeq({BlockIs(n) : n \in live.blocks})
  <2>1. live \in LiveSessions
    BY <1>7, KnownIsLive DEF StreamInv
  <2>2. live.blocks \subseteq Nat /\ IsFiniteSet(live.blocks) /\ live.status \in Statuses
    BY <1>7, <2>1 DEF StreamInv, LiveOK, LiveSessions
  <2>3. Replay = (<<e>> \o cards) \o RoundReplay
    BY <1>7 DEF Replay
  <2>4. /\ cards \in Seq(KeptEvents) /\ BlocksIn(cards) = live.blocks
        /\ \A i \in DOMAIN cards : cards[i].type = "block"
    BY <2>2, BlockReplay
  <2>5. /\ e \in SentEvents /\ e.value = live.status /\ e.type = "sessions" /\ e.id = 0
    BY <2>2, EventsAre DEF SessionsAre
  <2>6. /\ RoundReplay \in Seq(KeptEvents)
        /\ \A i \in DOMAIN RoundReplay : RoundReplay[i].type \in {"question-round", "round-answered"}
        /\ \A r \in RoundIds : \A before :
             /\ Ends(RoundReplay, {"question-round"}, r,
                     IF r \in Numbers THEN NewestAsk(r) ELSE before, before)
             /\ Ends(RoundReplay, {"round-answered"}, r,
                     IF r \in Numbers /\ live.answers[r] # 0 THEN live.answers[r] ELSE before, before)
    BY <2>1, RoundReplayIs
  <2> HIDE DEF e, cards
  <2>7. cards \in Seq(SentEvents) /\ RoundReplay \in Seq(SentEvents) /\ <<e>> \in Seq(SentEvents)
    BY <2>4, <2>5, <2>6, SeqMonotonic DEF SentEvents
  <2>8. <<e>> \o cards \in Seq(SentEvents)
    BY <2>7, ConcatProperties
  <2>9. Replay \in Seq(SentEvents)
    BY <2>3, <2>7, <2>8, ConcatProperties
  <2>10. ASSUME NEW types, NEW id, NEW before, NEW between, NEW after,
                between = (IF About(e, types, id) THEN e.value ELSE before), "block" \notin types,
                Ends(RoundReplay, types, id, after, between)
         PROVE  Ends(Replay, types, id, after, before)
    <3>1. Ends(<<e>>, types, id, between, before)
      BY <2>10, EndsOne
    <3>2. Ends(cards, types, id, between, between)
      BY <2>4, <2>10, EndsSilent DEF About
    <3>3. Ends(<<e>> \o cards, types, id, between, before)
      BY <2>7, <3>1, <3>2, EndsConcat
    <3> QED BY <2>3, <2>7, <2>8, <2>10, <3>3, EndsConcat
  <2>11. ASSUME NEW before PROVE Ends(Replay, StatusTypes, 0, live.status, before)
    <3>1. About(e, StatusTypes, 0) /\ "block" \notin StatusTypes
      BY <2>5 DEF About, StatusTypes
    <3>2. Ends(RoundReplay, StatusTypes, 0, live.status, live.status)
      BY <2>6, EndsSilent DEF About, StatusTypes
    <3> QED BY <2>5, <2>10, <3>1, <3>2
  <2>12. BlocksIn(Replay) = live.blocks
    <3>1. BlocksIn(<<e>>) = {}
      <4>1. DOMAIN <<e>> = {1} /\ <<e>>[1] = e
        OBVIOUS
      <4> QED BY <2>5, <4>1 DEF BlocksIn
    <3>2. BlocksIn(RoundReplay) = {}
      BY <2>6 DEF BlocksIn
    <3> DEFINE one == <<e>>
               front == one \o cards
               rest == RoundReplay
    <3>3. /\ one \in Seq(SentEvents) /\ front \in Seq(SentEvents) /\ rest \in Seq(SentEvents)
          /\ BlocksIn(one) = {} /\ BlocksIn(rest) = {} /\ Replay = front \o rest
          /\ front = one \o cards
      BY <2>3, <2>7, <2>8, <3>1, <3>2
    <3> HIDE DEF one, front, rest
    <3>4. one \in Seq(SentEvents) /\ cards \in Seq(SentEvents)
      BY <2>7, <3>3
    <3>5. BlocksIn(one \o cards) = BlocksIn(one) \cup BlocksIn(cards)
      BY <3>4, BlocksConcat
    <3>7. front \in Seq(SentEvents) /\ rest \in Seq(SentEvents)
      BY <3>3
    <3>6. BlocksIn(front \o rest) = BlocksIn(front) \cup BlocksIn(rest)
      BY <3>7, BlocksConcat
    <3> QED BY <2>4, <3>3, <3>5, <3>6
  <2>13. ASSUME NEW r \in RoundIds, NEW before
         PROVE  /\ Ends(Replay, {"question-round"}, r, IF r \in Numbers THEN NewestAsk(r) ELSE before, before)
                /\ Ends(Replay, {"round-answered"}, r,
                        IF r \in Numbers /\ live.answers[r] # 0 THEN live.answers[r] ELSE before, before)
    <3>1. ~About(e, {"question-round"}, r) /\ ~About(e, {"round-answered"}, r)
      BY <2>5 DEF About
    <3> QED BY <2>6, <2>10, <3>1
  <2> QED BY <1>5, <1>7, <2>9, <2>11, <2>12, <2>13
<1> QED BY <1>6, <1>7

-----------------------------------------------------------------------------
LEMMA StreamStep == StreamInv /\ [StreamNext]_streamVars => StreamInv'
<1> SUFFICES ASSUME StreamInv, [StreamNext]_streamVars PROVE StreamInv'
  OBVIOUS
<1>1. CASE UNCHANGED streamVars
  <2>1. /\ live' = live /\ serving' = serving /\ chain' = chain /\ transcript' = transcript
        /\ page' = page /\ inFlight' = inFlight /\ shown' = shown /\ asked' = asked
        /\ appendFailed' = appendFailed /\ ownerless' = ownerless
    BY <1>1 DEF streamVars
  <2>2. StreamTypes' /\ StreamStops'
    BY <2>1 DEF StreamInv, StreamTypes, StreamStops
  <2>3. LiveOK' /\ NumbersHold'
    BY <2>1, SessionStays
  <2>4. PagesOK'
    BY <2>1, PageStays DEF StreamInv, PagesOK
  <2> QED BY <2>2, <2>3, <2>4 DEF StreamInv
<1>2. CASE StreamNext
  BY <1>2, SetStatusKeeps, AddBlockKeeps, AskRoundKeeps, StopStreamKeeps, StreamAnswersKeep,
     SettleRoundKeeps, StreamCrashKeeps, RestartKeeps, OpenPageKeeps, HelloKeeps, ReceiveKeeps
     DEF StreamNext
<1> QED BY <1>1, <1>2

LEMMA StreamHolds == StreamInv => RoundsKeepTheirNumbers /\ CaughtUpPagesShowTheSession
<1> SUFFICES ASSUME StreamInv PROVE RoundsKeepTheirNumbers /\ CaughtUpPagesShowTheSession
  OBVIOUS
<1>1. RoundsKeepTheirNumbers
  BY DEF StreamInv, NumbersHold, RoundsKeepTheirNumbers
<1>2. ASSUME NEW c \in Viewers, CaughtUp(c)
      PROVE  IF ~Known THEN shown[c].status = "none"
             ELSE /\ shown[c].status = live.status /\ shown[c].blocks = live.blocks
                  /\ \A r \in RoundIds :
                       IF NewestRound(r) = 0 THEN shown[c].rounds[r] = NoRoundShown
                       ELSE /\ shown[c].rounds[r].ask = live.rounds[NewestRound(r)].ask
                            /\ \/ shown[c].rounds[r].answers = live.answers[r]
                               \/ r \in ownerless /\ shown[c].rounds[r].answers = 0
  <2>1. page[c] = "greeted" /\ inFlight[c] = << >> /\ PageOK(c)
    BY <1>2 DEF CaughtUp, StreamInv, PagesOK
  <2>2. shown[c].status = IF Known THEN live.status ELSE "none"
    BY <2>1, EndsNil DEF PageOK, StatusArrives
  <2>3. Known => shown[c].blocks = live.blocks
    <3>1. BlocksIn(<< >>) = {}
      BY DEF BlocksIn
    <3> QED BY <2>1, <3>1 DEF PageOK, BlocksArrive
  <2>4. ASSUME Known, NEW r \in RoundIds
        PROVE  IF NewestRound(r) = 0 THEN shown[c].rounds[r] = NoRoundShown
               ELSE /\ shown[c].rounds[r].ask = live.rounds[NewestRound(r)].ask
                    /\ \/ shown[c].rounds[r].answers = live.answers[r]
                       \/ r \in ownerless /\ shown[c].rounds[r].answers = 0
    <3> DEFINE s == shown[c]
               n == NewestRound(r)
    <3>1. s.rounds[r].ask = NewestAsk(r)
      BY <2>1, <2>4, EndsNil DEF PageOK, AskArrives
    <3>2. Held(s, r) = live.answers[r] \/ (r \in ownerless /\ Held(s, r) = 0)
      BY <2>1, <2>4, EndsNil DEF PageOK, AnswersArrive
    <3>3. /\ s.rounds[r].ask = 0 => s.rounds[r].answers = 0
          /\ s.early[r] # 0 => s.rounds[r].ask = 0
          /\ s.rounds[r] \in [ask : Nat, answers : Nat]
      BY <2>1 DEF PageOK, CopyOK, StreamInv, StreamTypes, Copies
    <3>4. CASE n = 0
      <4>1. s.rounds[r].ask = 0 /\ s.rounds[r].answers = 0
        BY <3>1, <3>3, <3>4 DEF NewestAsk
      <4> HIDE DEF s
      <4>2. s.rounds[r] = NoRoundShown
        BY <3>3, <4>1 DEF NoRoundShown
      <4> QED BY <3>4, <4>2 DEF s
    <3>5. CASE n # 0
      <4>1. live.rounds \in Seq(AskedRounds)
        BY <2>4, KnownIsLive DEF StreamInv, LiveSessions
      <4> DEFINE rounds == live.rounds
      <4>2. n = Max({0} \cup {k \in DOMAIN rounds : rounds[k].id = r})
        BY DEF NewestRound
      <4>3. n \in DOMAIN rounds
        <5> HIDE DEF n, rounds
        <5>1. rounds \in Seq(AskedRounds)
          BY <4>1 DEF rounds
        <5>2. \/ n = 0 /\ \A k \in DOMAIN rounds : rounds[k].id # r
              \/ /\ n \in DOMAIN rounds /\ n # 0 /\ rounds[n].id = r
                 /\ \A k \in DOMAIN rounds : rounds[k].id = r => k <= n
          BY <4>2, <5>1, NewestOf, Zenon
        <5> QED BY <3>5, <5>2
      <4>4. rounds[n] \in AskedRounds
        BY <4>1, <4>3, ElementOfSeq, LenProperties
      <4>5. NewestAsk(r) = rounds[n].ask /\ rounds[n].ask # 0
        BY <3>5, <4>4 DEF NewestAsk, AskedRounds
      <4>6. s.early[r] = 0 /\ Held(s, r) = s.rounds[r].answers
        BY <3>1, <3>3, <4>5 DEF Held
      <4> QED BY <3>1, <3>2, <3>5, <4>5, <4>6
    <3> QED BY <3>4, <3>5
  <2> QED BY <2>2, <2>3, <2>4
<1> QED BY <1>1, <1>2 DEF CaughtUpPagesShowTheSession

\* A page that was replayed and has reduced what it was sent shows the status, the
\* cards and the rounds of the server's session, and their answers: server.ts sends a
\* hello its replay behind the broadcasts that came before it, planClientReducer keeps
\* answers that come before their round, and what a restart rebuilds from the lines that
\* were appended is what it replays.  For any pages, rounds, broadcasts and faults.
THEOREM PagesCatchUp == StreamSpec => []CaughtUpPagesShowTheSession
<1> QED BY StreamStarts, StreamStep, StreamHolds, PTL DEF StreamSpec

\* Unless an append failed, the k-th round of a session is number k, over any number of
\* restarts: appends wait for one another, so what a crash leaves of the file is a prefix
\* of the broadcasts, and the next round is numbered by the rounds it holds.
THEOREM NumbersAreKept == StreamSpec => []RoundsKeepTheirNumbers
<1> QED BY StreamStarts, StreamStep, StreamHolds, PTL DEF StreamSpec

-----------------------------------------------------------------------------
\* From the goal to the handoff, by the values of the todos: where a list comes
\* from a filter, it is what it holds that matters.
LEMMA ListIsSeq ==
  ASSUME NEW S, NEW s, IsList(s), ToSet(s) \subseteq S
  PROVE  s \in Seq(S)
<1>1. s \in Seq(ToSet(s))
  BY DEF IsList
<1>2. Len(s) \in Nat /\ s \in [1..Len(s) -> S]
  BY <1>1, LenProperties, ElementOfSeq
<1> QED BY <1>2, FunctionIsSeq

LEMMA SeqIsList ==
  ASSUME NEW S, NEW s \in Seq(S)
  PROVE  IsList(s) /\ ToSet(s) \subseteq S /\ Len(s) \in Nat /\ DOMAIN s = 1..Len(s)
<1>1. Len(s) \in Nat /\ DOMAIN s = 1..Len(s) /\ \A k \in DOMAIN s : s[k] \in S
  BY LenProperties, ElementOfSeq
<1>2. s \in [1..Len(s) -> ToSet(s)]
  <2>1. s = [k \in 1..Len(s) |-> s[k]]
    BY LenProperties
  <2> QED BY <2>1, <1>1 DEF ToSet
<1>3. s \in Seq(ToSet(s))
  BY <1>1, <1>2, FunctionIsSeq
<1> QED BY <1>1, <1>3 DEF IsList, ToSet

LEMMA FunctionIsList ==
  ASSUME NEW n \in Nat, NEW f, f = [k \in 1..n |-> f[k]]
  PROVE  IsList(f)
<1>1. f \in [1..n -> ToSet(f)]
  BY DEF ToSet
<1> QED BY <1>1, FunctionIsSeq DEF IsList

-----------------------------------------------------------------------------
\* The handoff, by its todos' values.
Lands(tentacles, t) == \E u \in ToSet(tentacles) : \E x \in ToSet(u.todos) : x.text = t
InOnePlace(tentacles, t) ==
  \A u, v \in ToSet(tentacles) : \A x \in ToSet(u.todos), y \in ToSet(v.todos) :
    x.text = t /\ y.text = t => u.id = v.id /\ x = y
OfLists(tentacles) == IsList(tentacles) /\ \A u \in ToSet(tentacles) : IsList(u.todos)
Settled(tentacles) ==
  OfLists(tentacles) /\ IdsApart(tentacles) /\ \A u \in ToSet(tentacles) : Apart(u.todos)

LEMMA CountedOnce ==
  ASSUME NEW tentacles, NEW t, Settled(tentacles), Lands(tentacles, t), InOnePlace(tentacles, t)
  PROVE  Cardinality({at \in Todos(tentacles) : tentacles[at[1]].todos[at[2]].text = t}) = 1
<1> DEFINE P == {at \in Todos(tentacles) : tentacles[at[1]].todos[at[2]].text = t}
<1>1. \E i \in DOMAIN tentacles : \E k \in DOMAIN tentacles[i].todos : tentacles[i].todos[k].text = t
  BY DEF Lands, ToSet
<1>2. PICK i \in DOMAIN tentacles : \E k \in DOMAIN tentacles[i].todos : tentacles[i].todos[k].text = t
  BY <1>1
<1>3. PICK k \in DOMAIN tentacles[i].todos : tentacles[i].todos[k].text = t
  BY <1>2
<1>4. <<i, k>> \in P
  BY <1>3 DEF Todos
<1>5. \A at \in P : at = <<i, k>>
  <2> SUFFICES ASSUME NEW at \in P PROVE at = <<i, k>>
    OBVIOUS
  <2>1. PICK j \in DOMAIN tentacles : at \in {j} \X DOMAIN tentacles[j].todos
    BY DEF Todos
  <2>2. PICK l \in DOMAIN tentacles[j].todos : at = <<j, l>>
    BY <2>1
  <2>3. tentacles[j].todos[l].text = t
    BY <2>2
  <2> DEFINE u == tentacles[i]
             v == tentacles[j]
  <2>4. u \in ToSet(tentacles) /\ v \in ToSet(tentacles)
    BY DEF ToSet
  <2>5. u.todos[k] \in ToSet(u.todos) /\ v.todos[l] \in ToSet(v.todos)
    BY DEF ToSet
  <2>6. u.id = v.id /\ u.todos[k] = v.todos[l]
    BY <1>3, <2>3, <2>4, <2>5 DEF InOnePlace
  <2>7. i = j
    BY <2>6 DEF Settled, IdsApart
  <2>8. k = l
    <3>1. Apart(u.todos)
      BY <2>4 DEF Settled
    <3> QED BY <2>6, <2>7, <3>1 DEF Apart
  <2> QED BY <2>2, <2>7, <2>8
<1>6. P = {<<i, k>>}
  <2> HIDE DEF P
  <2> QED BY <1>4, <1>5
<1> QED BY <1>6, FS_Singleton

\* normalizeHandoff: each todo goes to the tentacle of its id, once.
MergedTodos(tentacles, id) ==
  FlattenSeq([i \in DOMAIN tentacles |->
                IF tentacles[i].id = id THEN tentacles[i].todos ELSE << >>])

LEMMA MergedHolds ==
  ASSUME NEW tentacles, OfLists(tentacles), NEW id
  PROVE  /\ \E S : MergedTodos(tentacles, id) \in Seq(S)
         /\ \A x : x \in ToSet(MergedTodos(tentacles, id))
                     <=> \E u \in ToSet(tentacles) : u.id = id /\ x \in ToSet(u.todos)
<1> DEFINE S == UNION {ToSet(u.todos) : u \in ToSet(tentacles)}
           ss == [i \in DOMAIN tentacles |->
                    IF tentacles[i].id = id THEN tentacles[i].todos ELSE << >>]
<1>1. Len(tentacles) \in Nat /\ DOMAIN tentacles = 1..Len(tentacles)
  BY SeqIsList DEF OfLists, IsList
<1>2. \A i \in DOMAIN tentacles : tentacles[i].todos \in Seq(S)
  <2> TAKE i \in DOMAIN tentacles
  <2>1. tentacles[i] \in ToSet(tentacles)
    BY DEF ToSet
  <2>2. IsList(tentacles[i].todos) /\ ToSet(tentacles[i].todos) \subseteq S
    BY <2>1 DEF OfLists
  <2> HIDE DEF S
  <2> QED BY <2>2, ListIsSeq
<1>3. ss \in Seq(Seq(S))
  <2> HIDE DEF S
  <2>1. << >> \in Seq(S)
    OBVIOUS
  <2>2. ss \in [1..Len(tentacles) -> Seq(S)]
    BY <1>1, <1>2, <2>1
  <2> HIDE DEF ss
  <2> QED BY <1>1, <2>2, FunctionIsSeq
<1>4. MergedTodos(tentacles, id) = FlattenSeq(ss)
  BY DEF MergedTodos
<1>5. \A i \in DOMAIN tentacles : \A x : x \in ToSet(ss[i]) <=> tentacles[i].id = id /\ x \in ToSet(tentacles[i].todos)
  BY DEF ToSet
<1>6. DOMAIN ss = DOMAIN tentacles
  OBVIOUS
<1> HIDE DEF ss, S
<1>7. FlattenSeq(ss) \in Seq(S) /\ \A x : x \in ToSet(FlattenSeq(ss)) <=> \E i \in DOMAIN ss : x \in ToSet(ss[i])
  BY <1>3, FlattenHolds
<1>8. \A x : (\E i \in DOMAIN ss : x \in ToSet(ss[i]))
               <=> \E u \in ToSet(tentacles) : u.id = id /\ x \in ToSet(u.todos)
  BY <1>5, <1>6 DEF ToSet
<1> QED BY <1>4, <1>7, <1>8

LEMMA NormalizeHolds ==
  ASSUME NEW tentacles, OfLists(tentacles)
  PROVE  /\ Settled(NormalizeHandoff(tentacles))
         /\ \A v \in ToSet(NormalizeHandoff(tentacles)) : \A x \in ToSet(v.todos) :
              \E u \in ToSet(tentacles) : u.id = v.id /\ x \in ToSet(u.todos)
         /\ \A u \in ToSet(tentacles) : \A x \in ToSet(u.todos) :
              \E v \in ToSet(NormalizeHandoff(tentacles)) : v.id = u.id /\ x \in ToSet(v.todos)
<1> DEFINE names == [i \in DOMAIN tentacles |-> tentacles[i].id]
           ids == Dedupe(names)
           owns(id) == UNION {t.owns : t \in {u \in ToSet(tentacles) : u.id = id}}
           found(id) == {t \in ToSet(deckTentacles) : t.id = id}
           merged(id) == Tentacle(id,
                             IF owns(id) = {} THEN UNION {t.owns : t \in found(id)} ELSE owns(id),
                             found(id) # {}, Dedupe(MergedTodos(tentacles, id)))
           all == [k \in DOMAIN ids |-> merged(ids[k])]
           kept == {t \in ToSet(all) : t.todos # << >> \/ t.existing}
           normal == Of(all, kept)
<1>0. NormalizeHandoff(tentacles) = normal
  BY DEF NormalizeHandoff, MergedTodos
<1>1. Len(tentacles) \in Nat /\ DOMAIN tentacles = 1..Len(tentacles)
  BY SeqIsList DEF OfLists, IsList
<1>2. /\ ids \in Seq(ToSet(names)) /\ ToSet(ids) = ToSet(names) /\ Apart(ids)
      /\ Len(ids) \in Nat /\ DOMAIN ids = 1..Len(ids)
  <2>1. names \in [1..Len(tentacles) -> ToSet(names)]
    BY <1>1 DEF ToSet
  <2>2. names \in Seq(ToSet(names))
    <3> HIDE DEF names
    <3> QED BY <1>1, <2>1, FunctionIsSeq
  <2> HIDE DEF names
  <2> QED BY <2>2, DedupeHolds, SeqIsList
<1>3. \A u \in ToSet(tentacles) : \E k \in DOMAIN ids : ids[k] = u.id
  <2>1. \A u \in ToSet(tentacles) : u.id \in ToSet(names)
    BY DEF ToSet
  <2> HIDE DEF names, ids
  <2> QED BY <2>1, <1>2 DEF ToSet
<1>4. \A id : /\ merged(id).id = id
              /\ merged(id).todos = Dedupe(MergedTodos(tentacles, id))
  BY DEF Tentacle
<1>5. \A id : /\ IsList(merged(id).todos) /\ Apart(merged(id).todos)
              /\ \A x : x \in ToSet(merged(id).todos)
                          <=> \E u \in ToSet(tentacles) : u.id = id /\ x \in ToSet(u.todos)
  <2> TAKE id
  <2>1. PICK S : MergedTodos(tentacles, id) \in Seq(S)
    BY MergedHolds
  <2>2. /\ Dedupe(MergedTodos(tentacles, id)) \in Seq(S) /\ Apart(Dedupe(MergedTodos(tentacles, id)))
        /\ ToSet(Dedupe(MergedTodos(tentacles, id))) = ToSet(MergedTodos(tentacles, id))
    BY <2>1, DedupeHolds
  <2>3. IsList(Dedupe(MergedTodos(tentacles, id)))
    BY <2>2, SeqIsList
  <2> HIDE DEF merged
  <2> QED BY <2>2, <2>3, <1>4, MergedHolds
<1> HIDE DEF merged, ids, names
<1>6. /\ all \in Seq(ToSet(all)) /\ DOMAIN all = DOMAIN ids
      /\ \A k \in DOMAIN ids : all[k] = merged(ids[k])
  <2>1. all \in [1..Len(ids) -> ToSet(all)]
    BY <1>2 DEF ToSet
  <2>2. DOMAIN all = DOMAIN ids /\ \A k \in DOMAIN ids : all[k] = merged(ids[k])
    OBVIOUS
  <2> HIDE DEF all
  <2> QED BY <1>2, <2>1, <2>2, FunctionIsSeq
<1> HIDE DEF all
<1>7. IdsApart(all)
  BY <1>2, <1>4, <1>6 DEF IdsApart, Apart
<1>8. normal \in Seq(ToSet(all)) /\ ToSet(normal) = ToSet(all) \cap kept /\ IdsApart(normal)
  <2> HIDE DEF kept
  <2> QED BY <1>6, <1>7, OfHolds, OfApart
<1>9. \A v \in ToSet(normal) : \E k \in DOMAIN ids : v = merged(ids[k])
  BY <1>6, <1>8 DEF ToSet
<1>10. Settled(normal)
  <2>1. IsList(normal)
    BY <1>8, SeqIsList
  <2>2. \A v \in ToSet(normal) : IsList(v.todos) /\ Apart(v.todos)
    BY <1>5, <1>9
  <2> QED BY <1>8, <2>1, <2>2 DEF Settled, OfLists
<1>11. \A v \in ToSet(normal) : \A x \in ToSet(v.todos) :
         \E u \in ToSet(tentacles) : u.id = v.id /\ x \in ToSet(u.todos)
  BY <1>4, <1>5, <1>9
<1>12. ASSUME NEW u \in ToSet(tentacles), NEW x \in ToSet(u.todos)
       PROVE  \E v \in ToSet(normal) : v.id = u.id /\ x \in ToSet(v.todos)
  <2>1. PICK k \in DOMAIN ids : ids[k] = u.id
    BY <1>3
  <2> DEFINE v == merged(ids[k])
  <2>2. x \in ToSet(v.todos) /\ v.id = u.id
    BY <1>4, <1>5, <2>1
  <2>3. v \in ToSet(all)
    BY <1>6 DEF ToSet
  <2> HIDE DEF v
  <2>4. v.todos # << >>
    BY <2>2 DEF ToSet
  <2>5. v \in ToSet(normal)
    BY <1>8, <2>3, <2>4
  <2> QED BY <2>2, <2>5
<1> HIDE DEF normal
<1> QED BY <1>0, <1>10, <1>11, <1>12

LEMMA NormalizeKeeps ==
  ASSUME NEW tentacles, OfLists(tentacles), NEW t, Lands(tentacles, t), InOnePlace(tentacles, t)
  PROVE  Lands(NormalizeHandoff(tentacles), t) /\ InOnePlace(NormalizeHandoff(tentacles), t)
<1> DEFINE normal == NormalizeHandoff(tentacles)
<1>0. /\ \A v \in ToSet(normal) : \A x \in ToSet(v.todos) :
              \E u \in ToSet(tentacles) : u.id = v.id /\ x \in ToSet(u.todos)
      /\ \A u \in ToSet(tentacles) : \A x \in ToSet(u.todos) :
              \E v \in ToSet(normal) : v.id = u.id /\ x \in ToSet(v.todos)
  BY NormalizeHolds
<1> HIDE DEF normal
<1>1. Lands(normal, t)
  BY <1>0 DEF Lands
<1>2. InOnePlace(normal, t)
  <2> SUFFICES ASSUME NEW u \in ToSet(normal), NEW v \in ToSet(normal),
                      NEW x \in ToSet(u.todos), NEW y \in ToSet(v.todos), x.text = t, y.text = t
               PROVE  u.id = v.id /\ x = y
    BY DEF InOnePlace
  <2>1. PICK a \in ToSet(tentacles) : a.id = u.id /\ x \in ToSet(a.todos)
    BY <1>0
  <2>2. PICK b \in ToSet(tentacles) : b.id = v.id /\ y \in ToSet(b.todos)
    BY <1>0
  <2> QED BY <2>1, <2>2 DEF InOnePlace
<1> QED BY <1>1, <1>2 DEF normal

-----------------------------------------------------------------------------
\* The handoff of the stages.
StageList(stages) == IsList(stages) /\ \A stage \in ToSet(stages) : stage.items \in Seq(Texts)

LEMMA DoneItemsHold ==
  ASSUME NEW stage, stage.items \in Seq(Texts)
  PROVE  /\ IsList(StageDoneItems(stage))
         /\ ToSet(stage.items) \ GenericTexts \subseteq ToSet(StageDoneItems(stage))
<1> DEFINE items == Of(stage.items, ToSet(stage.items) \ GenericTexts)
           own == <<(<<"goal of", stage.title>>)>>
<1>1. items \in Seq(Texts) /\ ToSet(items) = ToSet(stage.items) \ GenericTexts
  BY OfHolds
<1>2. IsList(items)
  BY <1>1, SeqIsList
<1>3. IsList(own)
  <2>1. own \in Seq({<<"goal of", stage.title>>})
    OBVIOUS
  <2> HIDE DEF own
  <2> QED BY <2>1, SeqIsList
<1>4. items = << >> => ToSet(items) = {}
  BY DEF ToSet
<1>5. StageDoneItems(stage) = IF items = << >> THEN own ELSE items
  BY DEF StageDoneItems
<1> HIDE DEF items, own
<1> QED BY <1>1, <1>2, <1>3, <1>4, <1>5

InStage(stages, i, t) == t \in ToSet(StageDoneItems(stages[i]))
FirstIn(stages, i, t) == InStage(stages, i, t) /\ \A k \in 1..(i - 1) : ~InStage(stages, k, t)

LEMMA StageTodosHold ==
  ASSUME NEW stages, StageList(stages), NEW i \in DOMAIN stages
  PROVE  /\ IsList(StageTodos(stages, i))
         /\ \A x \in ToSet(StageTodos(stages, i)) :
              FirstIn(stages, i, x.text) /\ x = [text |-> x.text, wave |-> stages[i].title]
         /\ \A t : FirstIn(stages, i, t) => \E x \in ToSet(StageTodos(stages, i)) : x.text = t
<1> DEFINE items == StageDoneItems(stages[i])
           seen == UNION {ToSet(StageDoneItems(stages[k])) : k \in 1..(i - 1)}
           left == Of(items, ToSet(items) \ seen)
           texts == Dedupe(left)
           todos == [k \in DOMAIN texts |-> [text |-> texts[k], wave |-> stages[i].title]]
<1>1. StageTodos(stages, i) = todos
  BY DEF StageTodos
<1>2. IsList(items)
  <2>1. stages[i] \in ToSet(stages)
    BY DEF ToSet
  <2> QED BY <2>1, DoneItemsHold DEF StageList
<1>3. \A t : t \in ToSet(items) \ seen <=> FirstIn(stages, i, t)
  BY DEF FirstIn, InStage
<1> HIDE DEF items, seen
<1>4. left \in Seq(ToSet(items)) /\ ToSet(left) = ToSet(items) \ seen
  <2>1. items \in Seq(ToSet(items))
    BY <1>2 DEF IsList
  <2>2. ToSet(items) \cap (ToSet(items) \ seen) = ToSet(items) \ seen
    OBVIOUS
  <2> QED BY <2>1, <2>2, OfHolds
<1> HIDE DEF left
<1>5. texts \in Seq(ToSet(items)) /\ ToSet(texts) = ToSet(items) \ seen
  BY <1>4, DedupeHolds
<1>6. Len(texts) \in Nat /\ DOMAIN texts = 1..Len(texts)
  BY <1>5, SeqIsList
<1> HIDE DEF texts
<1>7. IsList(todos)
  <2>1. todos = [k \in 1..Len(texts) |-> todos[k]]
    BY <1>6
  <2> HIDE DEF todos
  <2> QED BY <2>1, <1>6, FunctionIsList
<1>8. \A k \in DOMAIN texts : texts[k] \in ToSet(texts)
  BY DEF ToSet
<1>9. \A x \in ToSet(todos) : \E k \in DOMAIN texts : x = [text |-> texts[k], wave |-> stages[i].title]
  BY DEF ToSet
<1>10. \A x \in ToSet(todos) : FirstIn(stages, i, x.text) /\ x = [text |-> x.text, wave |-> stages[i].title]
  BY <1>3, <1>5, <1>8, <1>9
<1>11. \A t : FirstIn(stages, i, t) => \E x \in ToSet(todos) : x.text = t
  <2> SUFFICES ASSUME NEW t, FirstIn(stages, i, t) PROVE \E x \in ToSet(todos) : x.text = t
    OBVIOUS
  <2>1. PICK k \in DOMAIN texts : texts[k] = t
    <3>1. t \in ToSet(texts)
      BY <1>3, <1>5
    <3> QED BY <3>1 DEF ToSet
  <2>2. todos[k] \in ToSet(todos) /\ todos[k].text = t
    BY <2>1 DEF ToSet
  <2> QED BY <2>2
<1> HIDE DEF todos
<1> QED BY <1>1, <1>7, <1>10, <1>11

\* The tentacle each stage's todos go to.
Namers(stage) == {d \in DOMAIN deckTentacles : deckTentacles[d].owns \cap stage.mentions # {}}
Owner(stage) == IF Namers(stage) = {} THEN 0 ELSE Min(Namers(stage))
OwnerId(stage) == IF Owner(stage) = 0 THEN stage.title ELSE deckTentacles[Owner(stage)].id

LEMMA OwnerIs ==
  ASSUME IsList(deckTentacles), NEW stage
  PROVE  Owner(stage) = 0 \/ Owner(stage) \in DOMAIN deckTentacles
<1>1. Namers(stage) \subseteq Nat
  BY SeqIsList DEF IsList, Namers
<1>2. CASE Namers(stage) # {}
  <2>1. \E m \in Namers(stage) : \A n \in Namers(stage) : m <= n
    BY <1>1, <1>2, LeastNumber
  <2>2. Min(Namers(stage)) \in Namers(stage)
    BY <2>1 DEF Min
  <2> QED BY <1>2, <2>2 DEF Owner, Namers
<1> QED BY <1>2 DEF Owner

Share(stages, d) ==
  FlattenSeq([i \in DOMAIN stages |-> IF Owner(stages[i]) = d THEN StageTodos(stages, i) ELSE << >>])
LEMMA ShareHolds ==
  ASSUME NEW stages, StageList(stages), NEW d
  PROVE  /\ IsList(Share(stages, d))
         /\ \A x : x \in ToSet(Share(stages, d))
                     <=> \E i \in DOMAIN stages : Owner(stages[i]) = d /\ x \in ToSet(StageTodos(stages, i))
<1> DEFINE S == UNION {ToSet(StageTodos(stages, i)) : i \in DOMAIN stages}
           ss == [i \in DOMAIN stages |-> IF Owner(stages[i]) = d THEN StageTodos(stages, i) ELSE << >>]
<1>1. Len(stages) \in Nat /\ DOMAIN stages = 1..Len(stages)
  BY SeqIsList DEF StageList, IsList
<1>2. \A i \in DOMAIN stages : StageTodos(stages, i) \in Seq(S)
  <2> TAKE i \in DOMAIN stages
  <2>1. IsList(StageTodos(stages, i)) /\ ToSet(StageTodos(stages, i)) \subseteq S
    BY StageTodosHold
  <2> HIDE DEF S
  <2> QED BY <2>1, ListIsSeq
<1>3. Share(stages, d) = FlattenSeq(ss)
  BY DEF Share
<1> HIDE DEF S
<1>4. ss \in Seq(Seq(S)) /\ DOMAIN ss = DOMAIN stages
  <2>1. << >> \in Seq(S)
    OBVIOUS
  <2>2. ss \in [1..Len(stages) -> Seq(S)] /\ DOMAIN ss = DOMAIN stages
    BY <1>1, <1>2, <2>1
  <2> HIDE DEF ss
  <2> QED BY <1>1, <2>2, FunctionIsSeq
<1>5. \A i \in DOMAIN stages : \A x : x \in ToSet(ss[i]) <=> Owner(stages[i]) = d /\ x \in ToSet(StageTodos(stages, i))
  BY DEF ToSet
<1> HIDE DEF ss
<1>6. FlattenSeq(ss) \in Seq(S) /\ \A x : x \in ToSet(FlattenSeq(ss)) <=> \E i \in DOMAIN ss : x \in ToSet(ss[i])
  BY <1>4, FlattenHolds
<1> QED BY <1>3, <1>4, <1>5, <1>6, SeqIsList

LEMMA FallbackHolds ==
  ASSUME NEW stages, StageList(stages), IsList(deckTentacles)
  PROVE  /\ OfLists(FallbackHandoff(stages))
         /\ \A u \in ToSet(FallbackHandoff(stages)) : \A x \in ToSet(u.todos) :
              \E i \in DOMAIN stages : x \in ToSet(StageTodos(stages, i)) /\ u.id = OwnerId(stages[i])
         /\ \A i \in DOMAIN stages : \A x \in ToSet(StageTodos(stages, i)) :
              \E u \in ToSet(FallbackHandoff(stages)) : x \in ToSet(u.todos)
<1> DEFINE old == [d \in DOMAIN deckTentacles |->
                    Tentacle(deckTentacles[d].id, deckTentacles[d].owns, TRUE, Share(stages, d))]
           mine(i) == IF Owner(stages[i]) = 0 THEN StageTodos(stages, i) ELSE << >>
           new == [i \in DOMAIN stages |-> Tentacle(stages[i].title, {}, FALSE, mine(i))]
           kept == {t \in ToSet(new) : t.todos # << >>}
           all == old \o Of(new, kept)
           S == ToSet(old) \cup ToSet(new)
<1>0. FallbackHandoff(stages) = all
  BY Zenon DEF FallbackHandoff, Share, Owner, Namers
<1>1. Len(stages) \in Nat /\ DOMAIN stages = 1..Len(stages)
  BY SeqIsList DEF StageList, IsList
<1>2. Len(deckTentacles) \in Nat /\ DOMAIN deckTentacles = 1..Len(deckTentacles)
  BY SeqIsList DEF IsList
<1>3. \A i \in DOMAIN stages :
        /\ IsList(mine(i))
        /\ \A x : x \in ToSet(mine(i)) <=> Owner(stages[i]) = 0 /\ x \in ToSet(StageTodos(stages, i))
  <2> TAKE i \in DOMAIN stages
  <2>1. IsList(<< >>)
    BY DEF IsList
  <2> QED BY <2>1, StageTodosHold DEF ToSet
<1> HIDE DEF mine
<1>4. /\ IsList(old) /\ DOMAIN old = DOMAIN deckTentacles
      /\ \A d \in DOMAIN old : old[d].id = deckTentacles[d].id /\ old[d].todos = Share(stages, d)
  <2>1. old = [d \in 1..Len(deckTentacles) |-> old[d]]
    BY <1>2
  <2>2. DOMAIN old = DOMAIN deckTentacles
    OBVIOUS
  <2>3. \A d \in DOMAIN old : old[d].id = deckTentacles[d].id /\ old[d].todos = Share(stages, d)
    BY DEF Tentacle
  <2> HIDE DEF old
  <2> QED BY <1>2, <2>1, <2>2, <2>3, FunctionIsList
<1>5. /\ IsList(new) /\ DOMAIN new = DOMAIN stages
      /\ \A i \in DOMAIN new : new[i].id = stages[i].title /\ new[i].todos = mine(i)
  <2>1. new = [i \in 1..Len(stages) |-> new[i]]
    BY <1>1
  <2>2. DOMAIN new = DOMAIN stages
    OBVIOUS
  <2>3. \A i \in DOMAIN new : new[i].id = stages[i].title /\ new[i].todos = mine(i)
    BY DEF Tentacle
  <2> HIDE DEF new
  <2> QED BY <1>1, <2>1, <2>2, <2>3, FunctionIsList
<1> HIDE DEF old, new
<1>6. all \in Seq(S) /\ ToSet(all) = ToSet(old) \cup (ToSet(new) \cap kept)
  <2>1. old \in Seq(S) /\ new \in Seq(S)
    BY <1>4, <1>5, ListIsSeq
  <2> HIDE DEF S, kept
  <2>2. Of(new, kept) \in Seq(S) /\ ToSet(Of(new, kept)) = ToSet(new) \cap kept
    BY <2>1, OfHolds
  <2> QED BY <2>1, <2>2, ConcatHolds
<1> HIDE DEF all
<1>7. \A u \in ToSet(all) : \/ \E d \in DOMAIN old : u = old[d]
                            \/ \E i \in DOMAIN new : u = new[i]
  BY <1>6 DEF ToSet
<1>8. OfLists(all)
  <2>1. IsList(all)
    BY <1>6, SeqIsList
  <2>2. \A u \in ToSet(all) : IsList(u.todos)
    BY <1>3, <1>4, <1>5, <1>7, ShareHolds
  <2> QED BY <2>1, <2>2 DEF OfLists
<1>9. ASSUME NEW u \in ToSet(all), NEW x \in ToSet(u.todos)
      PROVE  \E i \in DOMAIN stages : x \in ToSet(StageTodos(stages, i)) /\ u.id = OwnerId(stages[i])
  <2>1. CASE \E d \in DOMAIN old : u = old[d]
    <3>1. PICK d \in DOMAIN old : u = old[d]
      BY <2>1
    <3>2. PICK i \in DOMAIN stages : Owner(stages[i]) = d /\ x \in ToSet(StageTodos(stages, i))
      BY <1>4, <3>1, ShareHolds
    <3>3. d # 0 /\ u.id = deckTentacles[d].id
      BY <1>2, <1>4, <3>1
    <3> QED BY <3>2, <3>3 DEF OwnerId
  <2>2. CASE \E i \in DOMAIN new : u = new[i]
    <3>1. PICK i \in DOMAIN new : u = new[i]
      BY <2>2
    <3>2. Owner(stages[i]) = 0 /\ x \in ToSet(StageTodos(stages, i)) /\ u.id = stages[i].title
      BY <1>3, <1>5, <3>1
    <3> QED BY <1>5, <3>2 DEF OwnerId
  <2> QED BY <1>7, <2>1, <2>2
<1>10. ASSUME NEW i \in DOMAIN stages, NEW x \in ToSet(StageTodos(stages, i))
       PROVE  \E u \in ToSet(all) : x \in ToSet(u.todos)
  <2>1. CASE Owner(stages[i]) = 0
    <3>1. x \in ToSet(new[i].todos) /\ new[i] \in ToSet(new)
      BY <1>3, <1>5, <2>1 DEF ToSet
    <3>2. new[i].todos # << >>
      BY <3>1 DEF ToSet
    <3> QED BY <1>6, <3>1, <3>2
  <2>2. CASE Owner(stages[i]) # 0
    <3> DEFINE d == Owner(stages[i])
    <3>1. d \in DOMAIN old
      BY <1>4, <2>2, OwnerIs
    <3>2. x \in ToSet(Share(stages, d))
      BY ShareHolds
    <3> HIDE DEF d
    <3>3. old[d] \in ToSet(all) /\ x \in ToSet(old[d].todos)
      BY <1>4, <1>6, <3>1, <3>2 DEF ToSet
    <3> QED BY <3>3
  <2> QED BY <2>1, <2>2
<1> QED BY <1>0, <1>8, <1>9, <1>10

LEMMA FallbackOnce ==
  ASSUME NEW stages, StageList(stages), IsList(deckTentacles),
         NEW t, \E i \in DOMAIN stages : InStage(stages, i, t)
  PROVE  Lands(FallbackHandoff(stages), t) /\ InOnePlace(FallbackHandoff(stages), t)
<1>1. Len(stages) \in Nat /\ DOMAIN stages = 1..Len(stages)
  BY SeqIsList DEF StageList, IsList
<1> DEFINE T == {i \in DOMAIN stages : InStage(stages, i, t)}
<1>2. PICK m \in T : \A i \in T : m <= i
  <2>1. T \subseteq Nat /\ T # {}
    BY <1>1
  <2> HIDE DEF T
  <2> QED BY <2>1, LeastNumber
<1>3. m \in DOMAIN stages /\ FirstIn(stages, m, t)
  <2>1. \A k \in 1..(m - 1) : k \in DOMAIN stages /\ ~(m <= k)
    BY <1>1, <1>2
  <2> QED BY <1>2, <2>1 DEF FirstIn
<1>4. \A i \in DOMAIN stages : FirstIn(stages, i, t) => i = m
  <2> SUFFICES ASSUME NEW i \in DOMAIN stages, FirstIn(stages, i, t), i # m PROVE FALSE
    OBVIOUS
  <2>1. i \in T
    BY DEF FirstIn
  <2>2. i \in Nat /\ m \in Nat /\ m # 0 /\ m <= i
    BY <1>1, <1>2, <2>1
  <2>3. m \in 1..(i - 1)
    BY <2>2
  <2> QED BY <1>3, <2>3 DEF FirstIn
<1> DEFINE fallback == FallbackHandoff(stages)
<1>5. /\ \A u \in ToSet(fallback) : \A x \in ToSet(u.todos) :
              \E i \in DOMAIN stages : x \in ToSet(StageTodos(stages, i)) /\ u.id = OwnerId(stages[i])
      /\ \A i \in DOMAIN stages : \A x \in ToSet(StageTodos(stages, i)) :
              \E u \in ToSet(fallback) : x \in ToSet(u.todos)
  BY FallbackHolds
<1> HIDE DEF fallback, T
<1>6. Lands(fallback, t)
  <2>1. PICK x \in ToSet(StageTodos(stages, m)) : x.text = t
    BY <1>3, StageTodosHold
  <2> QED BY <1>3, <1>5, <2>1 DEF Lands
<1>7. ASSUME NEW u \in ToSet(fallback), NEW x \in ToSet(u.todos), x.text = t
      PROVE  u.id = OwnerId(stages[m]) /\ x = [text |-> t, wave |-> stages[m].title]
  <2>1. PICK i \in DOMAIN stages : x \in ToSet(StageTodos(stages, i)) /\ u.id = OwnerId(stages[i])
    BY <1>5
  <2>2. FirstIn(stages, i, x.text) /\ x = [text |-> x.text, wave |-> stages[i].title]
    BY <2>1, StageTodosHold
  <2>3. i = m
    BY <1>4, <1>7, <2>2
  <2> QED BY <1>7, <2>1, <2>2, <2>3
<1>8. InOnePlace(fallback, t)
  BY <1>7 DEF InOnePlace
<1> QED BY <1>6, <1>8 DEF fallback

-----------------------------------------------------------------------------
\* The stages of a goal.
GoalDocOK(goal) == goal.goals \in Seq(Texts) /\ goal.done \in Seq(Texts)
Built(stages, t) == \E stage \in ToSet(stages) : t \in ToSet(stage.items)

LEMMA WavesAreList ==
  ASSUME NEW active \in PlanDecisions
  PROVE  IsList(PlanWaves[active])
<1> DEFINE ids == Ascending(Ids(active))
           ordered == [k \in DOMAIN ids |-> CHOOSE d \in active : d.id = ids[k]]
           ss == [k \in DOMAIN ordered |-> ordered[k].waves]
           lines == FlattenSeq(ss)
           found == {w.number : w \in ToSet(lines)}
           numbers == Ascending(found)
           last(number) == Max({k \in DOMAIN lines : lines[k].number = number})
           waves == [i \in DOMAIN numbers |-> lines[last(numbers[i])]]
<1>1. PlanWaves[active] = waves
  BY DEF PlanWaves
<1>2. active \subseteq Decisions /\ IsFiniteSet(active)
  BY PipelineAssumption
<1>3. Ids(active) \subseteq Nat /\ IsFiniteSet(Ids(active))
  <2> DEFINE f == [d \in active |-> d.id]
  <2>1. f \in Surjection(active, Ids(active))
    BY DEF Ids, Surjection
  <2>2. IsFiniteSet(Ids(active))
    BY <1>2, <2>1, FS_Surjection
  <2> QED BY <1>2, <2>2 DEF Ids, Decisions
<1> DEFINE n == Cardinality(Ids(active))
<1>4. n \in Nat /\ ids \in [1..n -> Ids(active)]
  BY <1>3, AscendingIsOrder
<1> HIDE DEF ids, n
<1>5. DOMAIN ordered = 1..n /\ \A k \in 1..n : ordered[k] \in Decisions
  <2> SUFFICES ASSUME NEW k \in 1..n PROVE ordered[k] \in Decisions
    BY <1>4
  <2>1. \E d \in active : d.id = ids[k]
    BY <1>4 DEF Ids
  <2> QED BY <1>2, <1>4, <2>1
<1> HIDE DEF ordered
<1>6. ss \in Seq(Seq(Waves))
  <2>1. ss \in [1..n -> Seq(Waves)]
    BY <1>5 DEF Decisions
  <2> HIDE DEF ss
  <2> QED BY <1>4, <2>1, FunctionIsSeq
<1> HIDE DEF ss
<1>7. lines \in Seq(Waves)
  BY <1>6, FlattenHolds
<1> HIDE DEF lines
<1>8. found \subseteq Nat /\ IsFiniteSet(found)
  <2>1. Len(lines) \in Nat /\ DOMAIN lines = 1..Len(lines) /\ \A k \in DOMAIN lines : lines[k] \in Waves
    BY <1>7, LenProperties, ElementOfSeq
  <2>2. IsFiniteSet(1..Len(lines))
    BY <2>1, FS_Interval
  <2> DEFINE f == [k \in 1..Len(lines) |-> lines[k].number]
  <2>3. f \in Surjection(1..Len(lines), found)
    <3>1. found = {lines[k].number : k \in 1..Len(lines)}
      BY <2>1 DEF ToSet
    <3> HIDE DEF found
    <3> QED BY <3>1 DEF Surjection
  <2>4. IsFiniteSet(found)
    BY <2>2, <2>3, FS_Surjection
  <2>5. \A w \in ToSet(lines) : w.number \in Nat
    BY <2>1 DEF ToSet, Waves
  <2> QED BY <2>4, <2>5
<1> HIDE DEF found
<1>9. Cardinality(found) \in Nat /\ DOMAIN numbers = 1..Cardinality(found)
  BY <1>8, AscendingIsOrder
<1> HIDE DEF numbers, last
<1>10. waves = [i \in 1..Cardinality(found) |-> waves[i]]
  BY <1>9
<1> HIDE DEF waves
<1> QED BY <1>1, <1>9, <1>10, FunctionIsList

LEMMA BestIsWave ==
  ASSUME NEW n \in Nat, NEW scores, DOMAIN scores = 1..n
  PROVE  FirstBest(scores) = 0 \/ FirstBest(scores) \in 1..n
<1> DEFINE best == {i \in DOMAIN scores : scores[i] > 1 /\ \A k \in DOMAIN scores : scores[k] <= scores[i]}
<1>1. best \subseteq Nat /\ best \subseteq 1..n
  OBVIOUS
<1>2. FirstBest(scores) = IF best = {} THEN 0 ELSE Min(best)
  BY DEF FirstBest
<1> HIDE DEF best
<1>3. CASE best # {}
  <2>1. \E m \in best : \A k \in best : m <= k
    BY <1>1, <1>3, LeastNumber
  <2>2. Min(best) \in best
    BY <2>1 DEF Min
  <2> QED BY <1>1, <1>2, <1>3, <2>2
<1> QED BY <1>2, <1>3

LEMMA ChunksAreList ==
  ASSUME NEW goal, GoalDocOK(goal), NEW active
  PROVE  StageList(ChunkStages(goal, active))
<1> DEFINE n == Len(goal.done)
           count == Min({n, MaxBuildStages})
           end(i) == i * (n \div count) + Min({i, n % count})
           items(i) == Only(goal.done, {k \in DOMAIN goal.done : end(i - 1) < k /\ k <= end(i)})
           stage(i) == StageOf(TitleIds[items(i)[1]], items(i),
                                 RelevantIds(ToSet(items(i)), active), ToSet(items(i)), goal)
           stages == [i \in 1..count |-> stage(i)]
<1>1. ChunkStages(goal, active) = stages
  BY DEF ChunkStages
<1>2. count \in Nat
  <2>1. n \in Nat /\ MaxBuildStages = 4
    BY LenProperties DEF GoalDocOK, MaxBuildStages
  <2> HIDE DEF n
  <2>2. \E m \in {n, 4} : \A k \in {n, 4} : m <= k
    BY <2>1
  <2>3. count \in {n, 4}
    BY <2>1, <2>2 DEF Min
  <2> QED BY <2>1, <2>3
<1> HIDE DEF n, count, end
<1>3. \A i : items(i) \in Seq(Texts)
  BY OnlyHolds DEF GoalDocOK
<1> HIDE DEF items
<1>4. \A i : stage(i).items = items(i)
  BY DEF StageOf
<1> HIDE DEF stage
<1>5. \A s \in ToSet(stages) : \E i \in 1..count : s = stage(i)
  BY DEF ToSet
<1>6. IsList(stages)
  <2>1. stages = [i \in 1..count |-> stages[i]]
    OBVIOUS
  <2> HIDE DEF stages
  <2> QED BY <1>2, <2>1, FunctionIsList
<1> HIDE DEF stages
<1> QED BY <1>1, <1>3, <1>4, <1>5, <1>6 DEF StageList

LEMMA WavesTakeAll ==
  ASSUME NEW goal, GoalDocOK(goal), NEW active, NEW waves, IsList(waves), NEW best,
         DOMAIN best = ToSet(goal.goals) \cup ToSet(goal.done),
         \A t \in DOMAIN best : best[t] = 0 \/ best[t] \in DOMAIN waves
  PROVE  /\ StageList(WaveStages(goal, active, waves, best))
         /\ \A t \in ToSet(goal.goals) : Built(WaveStages(goal, active, waves, best), t)
<1> DEFINE in(i) == {t \in DOMAIN best : best[t] = i}
           goals(i) == Of(goal.goals, in(i))
           done(i) == Of(goal.done, in(i) \ GateTexts)
           namedAt(id) == SelectInSeq(waves, LAMBDA w : id \in Named(w, active))
           sentTo(i) == {id \in CitedBy(ToSet(goal.goals)) :
                           \/ i > 0 /\ namedAt(id) = i
                           \/ namedAt(id) = 0 /\ id \in CitedBy(ToSet(goals(i)))}
           ids(i) == sentTo(i) \cup CitedBy(ToSet(done(i)))
           ofWave(i) == StageOf(<<"wave", waves[i].number>>, done(i) \o goals(i),
                                WithDependsOn(ids(i) \cup Named(waves[i], active), active),
                                ToSet(done(i)) \cup ToSet(waves[i].items), goal)
           rest == done(0) \o goals(0)
           leftover == StageOf(<<"remaining", 0>>, rest,
                               IF ids(0) = {} THEN RelevantIds(ToSet(rest), active)
                               ELSE WithDependsOn(ids(0), active), ToSet(rest), goal)
           each == [i \in DOMAIN waves |-> ofWave(i)]
           more == IF rest = << >> THEN << >> ELSE <<leftover>>
           stages == each \o more
<1>1. WaveStages(goal, active, waves, best) = stages
  BY Zenon DEF WaveStages
<1>2. Len(waves) \in Nat /\ DOMAIN waves = 1..Len(waves)
  BY SeqIsList DEF IsList
<1>3. \A i : /\ goals(i) \in Seq(Texts) /\ ToSet(goals(i)) = ToSet(goal.goals) \cap in(i)
             /\ done(i) \in Seq(Texts)
  <2> HIDE DEF in
  <2> QED BY OfHolds DEF GoalDocOK
<1> HIDE DEF goals, done
<1>4. \A i : /\ done(i) \o goals(i) \in Seq(Texts)
             /\ ToSet(done(i) \o goals(i)) = ToSet(done(i)) \cup ToSet(goals(i))
  BY <1>3, ConcatHolds
<1>5. leftover.items = rest /\ \A i : ofWave(i).items = done(i) \o goals(i)
  BY DEF StageOf
<1>6. rest \in Seq(Texts) /\ ToSet(goals(0)) \subseteq ToSet(rest)
  BY <1>4
<1> HIDE DEF ofWave, leftover, rest
<1>7. /\ IsList(each) /\ DOMAIN each = DOMAIN waves
      /\ \A i \in DOMAIN waves : each[i] = ofWave(i) /\ each[i] \in ToSet(each)
      /\ \A s \in ToSet(each) : \E i \in DOMAIN waves : s = ofWave(i)
  <2>1. each = [i \in 1..Len(waves) |-> each[i]] /\ DOMAIN each = DOMAIN waves
    BY <1>2
  <2>2. \A i \in DOMAIN waves : each[i] = ofWave(i)
    OBVIOUS
  <2> HIDE DEF each
  <2> QED BY <1>2, <2>1, <2>2, FunctionIsList DEF ToSet
<1>8. /\ IsList(more)
      /\ \A s \in ToSet(more) : s = leftover
      /\ rest # << >> => leftover \in ToSet(more)
  <2>1. IsList(<< >>) /\ ToSet(<< >>) = {}
    BY DEF IsList, ToSet
  <2>2. IsList(<<leftover>>) /\ ToSet(<<leftover>>) = {leftover}
    BY DEF IsList, ToSet
  <2> QED BY <2>1, <2>2
<1> HIDE DEF each, more
<1>9. stages \in Seq(ToSet(each) \cup ToSet(more)) /\ ToSet(stages) = ToSet(each) \cup ToSet(more)
  <2> DEFINE S == ToSet(each) \cup ToSet(more)
  <2>1. each \in Seq(S) /\ more \in Seq(S)
    BY <1>7, <1>8, ListIsSeq
  <2> HIDE DEF S
  <2>2. each \o more \in Seq(S) /\ ToSet(each \o more) = ToSet(each) \cup ToSet(more)
    BY <2>1, ConcatHolds
  <2> QED BY <2>2 DEF S
<1> HIDE DEF stages
<1>10. StageList(stages)
  <2>1. \A s \in ToSet(stages) : s.items \in Seq(Texts)
    <3>1. ASSUME NEW s \in ToSet(each) PROVE s.items \in Seq(Texts)
      <4>1. PICK i \in DOMAIN waves : s = ofWave(i)
        BY <1>7
      <4>2. s.items = done(i) \o goals(i)
        BY <1>5, <4>1
      <4> QED BY <1>4, <4>2
    <3>2. \A s \in ToSet(more) : s.items \in Seq(Texts)
      BY <1>5, <1>6, <1>8
    <3> QED BY <1>9, <3>1, <3>2
  <2> QED BY <1>9, <2>1, SeqIsList DEF StageList
<1>11. ASSUME NEW t \in ToSet(goal.goals) PROVE Built(stages, t)
  <2>1. t \in DOMAIN best /\ t \in ToSet(goals(best[t]))
    BY <1>3
  <2>2. CASE best[t] = 0
    <3>1. t \in ToSet(rest)
      BY <1>6, <2>1, <2>2
    <3>2. rest # << >>
      BY <3>1 DEF ToSet
    <3> QED BY <1>5, <1>8, <1>9, <3>1, <3>2 DEF Built
  <2>3. CASE best[t] # 0
    <3> DEFINE i == best[t]
    <3>1. i \in DOMAIN waves /\ t \in ToSet(goals(i))
      BY <2>1, <2>3
    <3> HIDE DEF i
    <3>2. t \in ToSet(ofWave(i).items)
      BY <1>4, <1>5, <3>1
    <3>3. ofWave(i) \in ToSet(stages)
      BY <1>7, <1>9, <3>1
    <3> QED BY <3>2, <3>3 DEF Built
  <2> QED BY <2>2, <2>3
<1> QED BY <1>1, <1>10, <1>11

LEMMA StagesTakeAll ==
  ASSUME NEW goal, GoalDocOK(goal), NEW active \in PlanDecisions
  PROVE  /\ StageList(BuildStages(goal, active))
         /\ \A t \in ToSet(goal.done) : Built(BuildStages(goal, active), t)
         /\ PlanWaves[active] # << >> =>
              \A t \in ToSet(goal.goals) : Built(BuildStages(goal, active), t)
<1> DEFINE waves == PlanWaves[active]
           texts == ToSet(goal.goals) \cup ToSet(goal.done)
           best == BestWaves(texts, waves, active)
           inWaves == WaveStages(goal, active, waves, best)
           some == IF waves = << >> THEN ChunkStages(goal, active) ELSE inWaves
           final == FinalStage(goal, active, waves)
           stages == Append(some, final)
<1>1. BuildStages(goal, active) = stages
  BY Zenon DEF BuildStages
<1>2. IsList(waves)
  BY WavesAreList
<1> HIDE DEF waves
<1>3. Len(waves) \in Nat /\ DOMAIN waves = 1..Len(waves)
  BY <1>2, SeqIsList DEF IsList
<1>4. DOMAIN best = texts /\ \A t \in DOMAIN best : best[t] = 0 \/ best[t] \in DOMAIN waves
  <2>1. DOMAIN best = texts
    BY DEF BestWaves
  <2>2. ASSUME NEW t \in texts PROVE best[t] = 0 \/ best[t] \in DOMAIN waves
    <3> DEFINE scores == [i \in DOMAIN waves |-> Score(t, waves[i], active)]
    <3>1. best[t] = FirstBest(scores) /\ DOMAIN scores = 1..Len(waves)
      BY <1>3 DEF BestWaves
    <3> HIDE DEF scores, best
    <3> QED BY <1>3, <3>1, BestIsWave
  <2> QED BY <2>1, <2>2
<1> HIDE DEF best
<1>5. StageList(inWaves) /\ \A t \in ToSet(goal.goals) : Built(inWaves, t)
  BY <1>2, <1>4, WavesTakeAll
<1> HIDE DEF inWaves
<1>6. StageList(some) /\ (waves # << >> => \A t \in ToSet(goal.goals) : Built(some, t))
  BY <1>5, ChunksAreList
<1> HIDE DEF some
<1>7. final.items = goal.done
  BY DEF FinalStage, StageOf
<1> HIDE DEF final
<1>8. stages \in Seq(ToSet(some) \cup {final}) /\ ToSet(stages) = ToSet(some) \cup {final}
  <2> DEFINE S == ToSet(some) \cup {final}
             last == <<final>>
  <2>1. last \in Seq(S) /\ ToSet(last) = {final}
    BY DEF ToSet
  <2>2. some \in Seq(S)
    BY <1>6, ListIsSeq DEF StageList
  <2> HIDE DEF S
  <2>3. stages = some \o last
    BY <2>2, AppendIsConcat
  <2> HIDE DEF last, stages
  <2>4. stages \in Seq(S) /\ ToSet(stages) = ToSet(some) \cup ToSet(last)
    BY <2>1, <2>2, <2>3, ConcatHolds
  <2> QED BY <2>1, <2>4 DEF S
<1> HIDE DEF stages
<1>9. StageList(stages)
  <2>1. \A s \in ToSet(stages) : s.items \in Seq(Texts)
    BY <1>6, <1>7, <1>8 DEF StageList, GoalDocOK
  <2> QED BY <1>8, <2>1, SeqIsList DEF StageList
<1>10. \A t \in ToSet(goal.done) : Built(stages, t)
  BY <1>7, <1>8 DEF Built
<1>11. waves # << >> => \A t \in ToSet(goal.goals) : Built(stages, t)
  BY <1>6, <1>8 DEF Built
<1> QED BY <1>1, <1>9, <1>10, <1>11 DEF waves

-----------------------------------------------------------------------------
\* While the files are written they carry no one plan's work; the writer has all
\* of it, and so have the files once the last is written and the rest removed.
FilesOK == stageFiles = [i \in StageIndexes |-> stageFiles[i]] /\ StageList(stageFiles)
FilesCarry(work) == \A t \in work : t \notin GenericTexts /\ \E i \in StageIndexes : t \in ToSet(stageFiles[i].items)
WriterOK ==
  \/ stageWriter = NoStageWriter
  \/ /\ stageWriter.at = "writing" /\ stagesWork = {}
     /\ StageList(stageWriter.write) /\ DOMAIN stageWriter.write \subseteq StageIndexes
     /\ stageWriter.remove = StageIndexes \ DOMAIN stageWriter.write
     /\ \A t \in stageWriter.work : t \notin GenericTexts /\ Built(stageWriter.write, t)
DraftOK ==
  /\ Settled(handoffDraft.tentacles)
  /\ handoffDraft.source = "fallback" =>
       \A t \in handedWork : Lands(handoffDraft.tentacles, t) /\ InOnePlace(handoffDraft.tentacles, t)

PipelineInv ==
  /\ GoalDocOK(planGoal) /\ activeDecisions \in PlanDecisions /\ deckTentacles \in DeckStates
  /\ FilesOK /\ FilesCarry(stagesWork) /\ WriterOK /\ DraftOK

LEMMA NoStageHolds == NoStage.items \in Seq(Texts)
<1>1. NoStage.items = << >>
  BY DEF NoStage
<1>2. << >> \in Seq(Texts)
  OBVIOUS
<1> QED BY <1>1, <1>2

LEMMA PipelineStarts == PipelineInit => PipelineInv
<1> SUFFICES ASSUME PipelineInit PROVE PipelineInv
  OBVIOUS
<1>1. GoalDocOK(planGoal) /\ activeDecisions \in PlanDecisions /\ deckTentacles \in DeckStates
  BY DEF PipelineInit, GoalDocOK, NoGoalDoc
<1>2. FilesOK
  <2>1. MaxStages \in Nat /\ stageFiles = [i \in 1..MaxStages |-> stageFiles[i]]
    <3>1. stageFiles = [i \in 1..MaxStages |-> NoStage]
      BY DEF PipelineInit, StageIndexes
    <3>2. \A i \in 1..MaxStages : stageFiles[i] = NoStage
      BY <3>1
    <3> QED BY <3>1, <3>2, PipelineAssumption
  <2>2. IsList(stageFiles)
    BY <2>1, FunctionIsList
  <2>3. \A stage \in ToSet(stageFiles) : stage.items \in Seq(Texts)
    <3> SUFFICES ASSUME NEW stage \in ToSet(stageFiles) PROVE stage.items \in Seq(Texts)
      OBVIOUS
    <3>1. stage = NoStage
      BY DEF PipelineInit, ToSet
    <3> QED BY <3>1, NoStageHolds
  <2> QED BY <2>1, <2>2, <2>3 DEF FilesOK, StageList, StageIndexes
<1>3. FilesCarry(stagesWork) /\ WriterOK
  BY DEF PipelineInit, FilesCarry, WriterOK
<1>4. DraftOK
  BY DEF PipelineInit, DraftOK, NoHandoffDraft, Settled, OfLists, IsList, IdsApart, ToSet
<1> QED BY <1>1, <1>2, <1>3, <1>4 DEF PipelineInv

LEMMA GoalWritten ==
  ASSUME NEW input \in GoalInputs
  PROVE  GoalDocOK(BuildGoalDoc(input))
<1>1. input.goals \in Seq(Texts) /\ input.done \in Seq(Texts)
  BY PipelineAssumption
<1> QED BY <1>1, DedupeHolds DEF BuildGoalDoc, GoalDocOK

LEMMA StagesGenerated ==
  ASSUME PipelineInv, GenerateStages
  PROVE  PipelineInv'
<1> DEFINE stages == BuildStages(planGoal, activeDecisions)
<1>1. /\ StageList(stages)
      /\ \A t \in ToSet(planGoal.done) : Built(stages, t)
      /\ PlanWaves[activeDecisions] # << >> => \A t \in ToSet(planGoal.goals) : Built(stages, t)
  BY StagesTakeAll DEF PipelineInv
<1>2. /\ Len(stages) <= MaxStages
      /\ stageWriter' = [at |-> "writing", write |-> stages,
                         remove |-> StageIndexes \ DOMAIN stages, work |-> WorkToDo]
      /\ stagesWork' = {}
  BY DEF GenerateStages
<1> HIDE DEF stages
<1>3. \A t \in WorkToDo : t \notin GenericTexts /\ Built(stages, t)
  BY <1>1 DEF WorkToDo
<1>4. DOMAIN stages \subseteq StageIndexes
  <2>1. Len(stages) \in Nat /\ DOMAIN stages = 1..Len(stages)
    BY <1>1, SeqIsList DEF StageList, IsList
  <2>2. MaxStages \in Nat
    BY PipelineAssumption
  <2> QED BY <1>2, <2>1, <2>2 DEF StageIndexes
<1>5. WriterOK'
  BY <1>1, <1>2, <1>3, <1>4 DEF WriterOK, StageList, Built
<1>6. FilesCarry(stagesWork)'
  BY <1>2 DEF FilesCarry
<1>7. UNCHANGED <<planGoal, activeDecisions, stageFiles, deckTentacles, handoffDraft, handedWork>>
  BY DEF GenerateStages
<1> QED BY <1>5, <1>6, <1>7 DEF PipelineInv, GoalDocOK, FilesOK, StageList, DraftOK, Settled, OfLists, Lands, InOnePlace

LEMMA FileWritten ==
  ASSUME PipelineInv, NEW i \in StageIndexes, StageWritten(i)
  PROVE  PipelineInv'
<1>1. /\ i \in DOMAIN stageWriter.write /\ stageWriter # NoStageWriter
      /\ stageFiles' = [stageFiles EXCEPT ![i] = stageWriter.write[i]]
  BY DEF StageWritten, NoStageWriter
<1>2. stagesWork = {} /\ StageList(stageWriter.write)
  BY <1>1 DEF PipelineInv, WriterOK
<1>3. UNCHANGED <<planGoal, activeDecisions, stageWriter, stagesWork, deckTentacles, handoffDraft, handedWork>>
  BY DEF StageWritten
<1>4. FilesOK'
  <2>1. MaxStages \in Nat /\ FilesOK
    BY PipelineAssumption DEF PipelineInv
  <2>2. stageFiles' = [k \in StageIndexes |-> stageFiles'[k]]
    BY <1>1, <2>1 DEF FilesOK
  <2>3. IsList(stageFiles')
    BY <2>1, <2>2, FunctionIsList DEF StageIndexes
  <2>4. ASSUME NEW k \in StageIndexes PROVE stageFiles'[k].items \in Seq(Texts)
    <3>1. DOMAIN stageFiles = StageIndexes
      BY <2>1 DEF FilesOK
    <3>2. stageFiles'[k] \in ToSet(stageFiles) \/ stageFiles'[k] \in ToSet(stageWriter.write)
      BY <1>1, <3>1 DEF ToSet
    <3> QED BY <1>2, <2>1, <3>2 DEF FilesOK, StageList
  <2>5. DOMAIN stageFiles' = StageIndexes
    BY <2>2
  <2>6. \A stage \in ToSet(stageFiles') : stage.items \in Seq(Texts)
    BY <2>4, <2>5 DEF ToSet
  <2> QED BY <2>2, <2>3, <2>6 DEF FilesOK, StageList
<1>5. FilesCarry(stagesWork)'
  BY <1>2, <1>3 DEF FilesCarry
<1>6. WriterOK' /\ DraftOK' /\ GoalDocOK(planGoal)'
  BY <1>3 DEF PipelineInv, GoalDocOK, WriterOK, StageList, Built, DraftOK, Settled, OfLists, Lands, InOnePlace
<1> QED BY <1>3, <1>4, <1>5, <1>6 DEF PipelineInv

LEMMA StagesComplete ==
  ASSUME PipelineInv, LeftoversRemoved
  PROVE  PipelineInv'
<1>1. /\ stageWriter # NoStageWriter
      /\ \A i \in DOMAIN stageWriter.write : stageFiles[i] = stageWriter.write[i]
      /\ stageFiles' = [i \in StageIndexes |-> IF i \in stageWriter.remove THEN NoStage ELSE stageFiles[i]]
      /\ stagesWork' = stageWriter.work /\ stageWriter' = NoStageWriter
  BY DEF LeftoversRemoved, NoStageWriter
<1>2. /\ DOMAIN stageWriter.write \subseteq StageIndexes
      /\ stageWriter.remove = StageIndexes \ DOMAIN stageWriter.write
      /\ \A t \in stageWriter.work : t \notin GenericTexts /\ Built(stageWriter.write, t)
  BY <1>1 DEF PipelineInv, WriterOK
<1>3. UNCHANGED <<planGoal, activeDecisions, deckTentacles, handoffDraft, handedWork>>
  BY DEF LeftoversRemoved
<1>4. FilesOK'
  <2>1. MaxStages \in Nat /\ FilesOK
    BY PipelineAssumption DEF PipelineInv
  <2>2. stageFiles' = [k \in StageIndexes |-> stageFiles'[k]]
    BY <1>1
  <2>3. IsList(stageFiles')
    BY <2>1, <2>2, FunctionIsList DEF StageIndexes
  <2>4. ASSUME NEW k \in StageIndexes PROVE stageFiles'[k].items \in Seq(Texts)
    <3>1. stageFiles[k] \in ToSet(stageFiles)
      BY <2>1 DEF FilesOK, ToSet
    <3>2. stageFiles[k].items \in Seq(Texts)
      BY <2>1, <3>1 DEF FilesOK, StageList
    <3>3. stageFiles'[k] = NoStage \/ stageFiles'[k] = stageFiles[k]
      BY <1>1
    <3> QED BY <3>2, <3>3, NoStageHolds
  <2>5. DOMAIN stageFiles' = StageIndexes
    BY <2>2
  <2>6. \A stage \in ToSet(stageFiles') : stage.items \in Seq(Texts)
    BY <2>4, <2>5 DEF ToSet
  <2> QED BY <2>2, <2>3, <2>6 DEF FilesOK, StageList
<1>5. FilesCarry(stagesWork)'
  <2> SUFFICES ASSUME NEW t \in stageWriter.work
               PROVE  t \notin GenericTexts /\ \E i \in StageIndexes : t \in ToSet(stageFiles'[i].items)
    BY <1>1 DEF FilesCarry
  <2>1. t \notin GenericTexts /\ Built(stageWriter.write, t)
    BY <1>2
  <2>2. PICK i \in DOMAIN stageWriter.write : t \in ToSet(stageWriter.write[i].items)
    BY <2>1 DEF Built, ToSet
  <2>3. i \in StageIndexes /\ stageFiles'[i] = stageWriter.write[i]
    BY <1>1, <1>2
  <2> QED BY <2>1, <2>2, <2>3
<1>6. WriterOK'
  BY <1>1 DEF WriterOK
<1>7. DraftOK' /\ GoalDocOK(planGoal)'
  BY <1>3 DEF PipelineInv, GoalDocOK, DraftOK, Settled, OfLists, Lands, InOnePlace
<1> QED BY <1>3, <1>4, <1>5, <1>6, <1>7 DEF PipelineInv

LEMMA ReadStagesHold ==
  ASSUME FilesOK
  PROVE  /\ StageList(ReadStages)
         /\ \A i \in StageIndexes : stageFiles[i] # NoStage => stageFiles[i] \in ToSet(ReadStages)
<1> DEFINE P == {i \in StageIndexes : stageFiles[i] # NoStage}
<1>1. DOMAIN stageFiles = StageIndexes /\ stageFiles \in Seq(ToSet(stageFiles))
  BY DEF FilesOK, StageList, IsList
<1>2. P \in SUBSET DOMAIN stageFiles /\ ReadStages = Only(stageFiles, P)
  BY <1>1 DEF ReadStages
<1> HIDE DEF P
<1>3. ReadStages \in Seq(ToSet(stageFiles)) /\ ToSet(ReadStages) = {stageFiles[p] : p \in P}
  BY <1>1, <1>2, OnlyHolds
<1>4. IsList(ReadStages) /\ ToSet(ReadStages) \subseteq ToSet(stageFiles)
  BY <1>3, SeqIsList
<1>5. StageList(ReadStages)
  BY <1>4 DEF StageList, FilesOK
<1>6. \A i \in StageIndexes : stageFiles[i] # NoStage => stageFiles[i] \in ToSet(ReadStages)
  BY <1>3 DEF P
<1> QED BY <1>5, <1>6

LEMMA CarriedOnce ==
  ASSUME PipelineInv, NEW t \in stagesWork
  PROVE  /\ Lands(NormalizeHandoff(FallbackHandoff(ReadStages)), t)
         /\ InOnePlace(NormalizeHandoff(FallbackHandoff(ReadStages)), t)
<1>1. FilesOK /\ StageList(ReadStages)
  BY ReadStagesHold DEF PipelineInv
<1>2. IsList(deckTentacles)
  BY PipelineAssumption DEF PipelineInv
<1>3. t \notin GenericTexts
  BY DEF PipelineInv, FilesCarry
<1>4. PICK i \in StageIndexes : t \in ToSet(stageFiles[i].items)
  BY DEF PipelineInv, FilesCarry
<1>5. stageFiles[i] # NoStage
  <2>1. NoStage.items = << >> /\ ToSet(<< >>) = {}
    BY DEF NoStage, ToSet
  <2> QED BY <1>4, <2>1
<1>6. PICK k \in DOMAIN ReadStages : ReadStages[k] = stageFiles[i]
  <2>1. stageFiles[i] \in ToSet(ReadStages)
    BY <1>1, <1>5, ReadStagesHold
  <2> QED BY <2>1 DEF ToSet
<1> DEFINE stages == ReadStages
<1>7. StageList(stages) /\ k \in DOMAIN stages /\ stages[k] = stageFiles[i]
  BY <1>1, <1>6
<1> HIDE DEF stages
<1>8. InStage(stages, k, t)
  <2>1. stages[k] \in ToSet(stages)
    BY <1>7 DEF ToSet
  <2>2. stages[k].items \in Seq(Texts)
    BY <1>7, <2>1 DEF StageList
  <2>3. t \in ToSet(stages[k].items) \ GenericTexts
    BY <1>3, <1>4, <1>7
  <2> QED BY <2>2, <2>3, DoneItemsHold DEF InStage
<1> DEFINE fallback == FallbackHandoff(stages)
<1>9. OfLists(fallback) /\ Lands(fallback, t) /\ InOnePlace(fallback, t)
  BY <1>2, <1>7, <1>8, FallbackHolds, FallbackOnce
<1> HIDE DEF fallback
<1>10. Lands(NormalizeHandoff(fallback), t) /\ InOnePlace(NormalizeHandoff(fallback), t)
  BY <1>9, NormalizeKeeps
<1> QED BY <1>10 DEF fallback, stages

LEMMA DraftMade ==
  ASSUME PipelineInv, NEW proposed \in Proposals, GenerateHandoff(proposed)
  PROVE  PipelineInv'
<1>0. UNCHANGED <<planGoal, activeDecisions, stageFiles, stageWriter, stagesWork, deckTentacles>>
  BY DEF GenerateHandoff
<1>1. handedWork' = stagesWork
  BY DEF GenerateHandoff
<1> DEFINE usable == NormalizeHandoff(proposed)
           made == NormalizeHandoff(FallbackHandoff(ReadStages))
<1>2. \/ handoffDraft' = [source |-> "claude", tentacles |-> usable]
      \/ handoffDraft' = [source |-> "fallback", tentacles |-> made]
  BY DEF GenerateHandoff
<1>3. Settled(usable)
  BY PipelineAssumption, NormalizeHolds DEF OfLists
<1>4. Settled(made)
  <2>1. StageList(ReadStages) /\ IsList(deckTentacles)
    BY PipelineAssumption, ReadStagesHold DEF PipelineInv
  <2>2. OfLists(FallbackHandoff(ReadStages))
    BY <2>1, FallbackHolds
  <2> QED BY <2>2, NormalizeHolds
<1>5. \A t \in stagesWork : Lands(made, t) /\ InOnePlace(made, t)
  BY CarriedOnce
<1> HIDE DEF usable, made
<1>6. DraftOK'
  <2>1. CASE handoffDraft' = [source |-> "claude", tentacles |-> usable]
    <3>1. handoffDraft'.tentacles = usable /\ handoffDraft'.source # "fallback"
      BY <2>1
    <3>2. Settled(handoffDraft.tentacles)'
      BY <1>3, <3>1 DEF Settled, OfLists
    <3> QED BY <3>1, <3>2 DEF DraftOK
  <2>2. CASE handoffDraft' = [source |-> "fallback", tentacles |-> made]
    <3>1. handoffDraft'.tentacles = made
      BY <2>2
    <3>2. Settled(handoffDraft.tentacles)'
      BY <1>4, <3>1 DEF Settled, OfLists
    <3>3. (\A t \in handedWork : Lands(handoffDraft.tentacles, t) /\ InOnePlace(handoffDraft.tentacles, t))'
      BY <1>1, <1>5, <3>1 DEF Lands, InOnePlace
    <3> QED BY <3>2, <3>3 DEF DraftOK
  <2> QED BY <1>2, <2>1, <2>2
<1>7. GoalDocOK(planGoal)' /\ FilesOK' /\ FilesCarry(stagesWork)' /\ WriterOK'
  BY <1>0 DEF PipelineInv, GoalDocOK, FilesOK, FilesCarry, StageList, WriterOK, Built
<1> QED BY <1>0, <1>6, <1>7 DEF PipelineInv

LEMMA DraftSaved ==
  ASSUME PipelineInv, SaveHandoff
  PROVE  PipelineInv'
<1>0. UNCHANGED <<planGoal, activeDecisions, stageFiles, stageWriter, stagesWork, deckTentacles, handedWork>>
  BY DEF SaveHandoff
<1> DEFINE old == handoffDraft.tentacles
           saved == NormalizeHandoff(old)
<1>1. handoffDraft' = [handoffDraft EXCEPT !.tentacles = saved]
  BY DEF SaveHandoff
<1>2. OfLists(old)
  BY DEF PipelineInv, DraftOK, Settled
<1>3. Settled(saved)
  BY <1>2, NormalizeHolds
<1>4. handoffDraft.source = "fallback" => \A t \in handedWork : Lands(saved, t) /\ InOnePlace(saved, t)
  BY <1>2, NormalizeKeeps DEF PipelineInv, DraftOK
<1> HIDE DEF old, saved
<1>5. DraftOK'
  <2>1. handoffDraft'.tentacles = saved /\ handoffDraft'.source = handoffDraft.source
    BY <1>1
  <2>2. Settled(handoffDraft.tentacles)'
    BY <1>3, <2>1 DEF Settled, OfLists
  <2>3. (handoffDraft.source = "fallback" =>
           \A t \in handedWork : Lands(handoffDraft.tentacles, t) /\ InOnePlace(handoffDraft.tentacles, t))'
    BY <1>0, <1>4, <2>1 DEF Lands, InOnePlace
  <2> QED BY <2>2, <2>3 DEF DraftOK
<1>7. GoalDocOK(planGoal)' /\ FilesOK' /\ FilesCarry(stagesWork)' /\ WriterOK'
  BY <1>0 DEF PipelineInv, GoalDocOK, FilesOK, FilesCarry, StageList, WriterOK, Built
<1> QED BY <1>0, <1>5, <1>7 DEF PipelineInv

LEMMA PipelineSteps == PipelineInv /\ [PipelineNext]_pipelineVars => PipelineInv'
<1> SUFFICES ASSUME PipelineInv, [PipelineNext]_pipelineVars PROVE PipelineInv'
  OBVIOUS
<1>0. ASSUME UNCHANGED <<stageFiles, stageWriter, stagesWork, handoffDraft, handedWork>>,
             GoalDocOK(planGoal'), activeDecisions' \in PlanDecisions, deckTentacles' \in DeckStates
      PROVE  PipelineInv'
  BY <1>0 DEF PipelineInv, GoalDocOK, FilesOK, FilesCarry, StageList, WriterOK, Built, DraftOK, Settled,
              OfLists, Lands, InOnePlace
<1>1. ASSUME NEW input \in GoalInputs, WriteGoal(input) PROVE PipelineInv'
  <2>1. GoalDocOK(planGoal')
    BY <1>1, GoalWritten DEF WriteGoal
  <2> QED BY <1>0, <1>1, <2>1 DEF WriteGoal, PipelineInv
<1>2. ASSUME NEW decisions \in PlanDecisions, DecisionsChange(decisions) PROVE PipelineInv'
  BY <1>0, <1>2 DEF DecisionsChange, PipelineInv, GoalDocOK
<1>3. ASSUME NEW tentacles \in DeckStates, DeckChanges(tentacles) PROVE PipelineInv'
  BY <1>0, <1>3 DEF DeckChanges, PipelineInv, GoalDocOK
<1>4. CASE GenerateStages BY <1>4, StagesGenerated
<1>5. CASE LeftoversRemoved BY <1>5, StagesComplete
<1>6. CASE WriteStagesFails
  <2>1. stagesWork' = {} /\ stageWriter' = NoStageWriter
    <3>1. stageWriter # NoStageWriter
      BY <1>6 DEF WriteStagesFails, NoStageWriter
    <3> QED BY <1>6, <3>1 DEF WriteStagesFails, PipelineInv, WriterOK
  <2>2. UNCHANGED <<planGoal, activeDecisions, stageFiles, deckTentacles, handoffDraft, handedWork>>
    BY <1>6 DEF WriteStagesFails
  <2>3. FilesCarry(stagesWork)' /\ WriterOK'
    BY <2>1 DEF FilesCarry, WriterOK
  <2> QED BY <2>2, <2>3 DEF PipelineInv, GoalDocOK, FilesOK, StageList, DraftOK, Settled, OfLists,
                             Lands, InOnePlace
<1>7. ASSUME NEW i \in StageIndexes, StageWritten(i) PROVE PipelineInv'
  BY <1>7, FileWritten
<1>8. ASSUME NEW proposed \in Proposals, GenerateHandoff(proposed) PROVE PipelineInv'
  BY <1>8, DraftMade
<1>9. CASE SaveHandoff BY <1>9, DraftSaved
<1>10. CASE UNCHANGED pipelineVars
  BY <1>0, <1>10 DEF pipelineVars, PipelineInv, GoalDocOK
<1> QED BY <1>1, <1>2, <1>3, <1>4, <1>5, <1>6, <1>7, <1>8, <1>9, <1>10 DEF PipelineNext

LEMMA PipelineShows == PipelineInv => HandoffCarriesTheWork
<1> SUFFICES ASSUME PipelineInv PROVE HandoffCarriesTheWork
  OBVIOUS
<1> DEFINE tentacles == handoffDraft.tentacles
<1>1. Settled(tentacles)
  BY DEF PipelineInv, DraftOK
<1>2. \A i, j \in DOMAIN tentacles : tentacles[i].id = tentacles[j].id => i = j
  BY <1>1 DEF Settled, IdsApart
<1>3. ASSUME handoffDraft.source = "fallback", NEW t \in handedWork
      PROVE  Cardinality({at \in Todos(tentacles) : tentacles[at[1]].todos[at[2]].text = t}) = 1
  <2>1. Lands(tentacles, t) /\ InOnePlace(tentacles, t)
    BY <1>3 DEF PipelineInv, DraftOK
  <2> HIDE DEF tentacles
  <2> QED BY <1>1, <2>1, CountedOnce
<1> QED BY <1>2, <1>3 DEF HandoffCarriesTheWork

\* A fallback handoff of complete stages has each of their goals and done items
\* that is not a generic check in one todo of one tentacle, through every save
\* and change of the deck, and no two tentacles of a handoff have one id
\* (buildStages, fallbackHandoff and normalizeHandoff).
THEOREM WorkIsHandedOver == PipelineSpec => []HandoffCarriesTheWork
<1>1. PipelineSpec => []PipelineInv
  BY PipelineStarts, PipelineSteps, PTL DEF PipelineSpec
<1> QED BY <1>1, PipelineShows, PTL
=============================================================================
