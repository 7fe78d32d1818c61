-------------------------- MODULE PlanStoreProofs --------------------------
(***************************************************************************)
(* Proofs about PlanStore, for any files, tools, texts and edits: types,   *)
(* that what the store added stays and has an id of its own, that the plan *)
(* never goes back, and that once a file is at rest its text is shown.     *)
(***************************************************************************)
EXTENDS PlanStore, WellFoundedInduction, FiniteSetTheorems, SequenceTheorems, TLAPS

-----------------------------------------------------------------------------
\* Numbers for the ids.

\* Among finite sets of numbers there is one that contains no other: what is needed
\* for induction on a finite set.
LEMMA MinimalFiniteSet ==
  ASSUME NEW T, T \subseteq FiniteSubsetsOf(Nat), T # {}
  PROVE  \E U \in T : \A V \in T : ~(V \subseteq U /\ V # U)
<1> DEFINE R == StrictSubsetOrdering(Nat)
           S == FiniteSubsetsOf(Nat)
<1>1. IsWellFoundedOn(R, S)
  BY FS_StrictSubsetOrderingWellFounded
<1>2. \E x \in T : \A y \in T : ~(<<y, x>> \in R)
  <2> HIDE DEF R, S
  <2> QED BY <1>1, WFMin DEF S
<1>3. \A x, y \in T : y \subseteq x /\ y # x => <<y, x>> \in R
  BY DEF StrictSubsetOrdering, FiniteSubsetsOf
<1> QED BY <1>2, <1>3

\* By taking the smallest finite set without a maximum and one number out of it.
LEMMA FiniteSetsHaveAMaximum ==
  ASSUME NEW S \in SUBSET Nat, IsFiniteSet(S), S # {}
  PROVE  \E m \in S : \A n \in S : m >= n
<1> DEFINE HasMax(U) == \E m \in U : \A n \in U : m >= n
           Bad == {U \in FiniteSubsetsOf(Nat) : U # {} /\ ~HasMax(U)}
<1>1. SUFFICES ASSUME ~HasMax(S) PROVE FALSE
  OBVIOUS
<1>2. S \in Bad
  BY <1>1 DEF FiniteSubsetsOf
<1>3. PICK U \in Bad : \A V \in Bad : ~(V \subseteq U /\ V # U)
  <2>1. Bad \subseteq FiniteSubsetsOf(Nat) /\ Bad # {}
    BY <1>2
  <2> HIDE DEF Bad
  <2> QED BY <2>1, MinimalFiniteSet
<1>4. PICK x \in U : TRUE
  OBVIOUS
<1>5. U \ {x} \in FiniteSubsetsOf(Nat)
  BY FS_RemoveElement DEF FiniteSubsetsOf
<1>6. CASE U \ {x} = {}
  <2>1. U = {x} /\ x \in Nat BY <1>6, <1>4 DEF FiniteSubsetsOf
  <2>2. HasMax(U) BY <2>1
  <2> QED BY <2>2
<1>7. CASE U \ {x} # {}
  <2>1. HasMax(U \ {x})
    <3> HIDE DEF HasMax
    <3> QED BY <1>3, <1>4, <1>5, <1>7
  <2>2. PICK m \in U \ {x} : \A n \in U \ {x} : m >= n
    BY <2>1
  <2>3. x \in Nat /\ m \in Nat /\ \A n \in U : n \in Nat
    BY <1>3 DEF FiniteSubsetsOf
  <2>4. HasMax(U)
    <3>1. CASE x >= m BY <3>1, <2>2, <2>3, <1>4
    <3>2. CASE m >= x BY <3>2, <2>2, <2>3, <1>4
    <3> QED BY <3>1, <3>2, <2>3
  <2> QED BY <2>4
<1> QED BY <1>6, <1>7

\* Max returns the greatest number of a finite set, not just some value.
LEMMA MaxOfFinite ==
  ASSUME NEW S \in SUBSET Nat, IsFiniteSet(S), S # {}
  PROVE  Max(S) \in S /\ \A n \in S : Max(S) >= n
BY FiniteSetsHaveAMaximum DEF Max
\* nextId's number is no other item's, for any finite text.
LEMMA NextIdIsNew ==
  ASSUME NEW text \in Text, IsFiniteSet(Records(text))
  PROVE  NextId(text) \in Nat \ {0} /\ \A r \in Records(text) : r.id # NextId(text)
<1> DEFINE S == Records(text)
           ids == {r.id : r \in S}
<1>1. S \subseteq Record
  BY DEF Text, Records
<1>2. ids \in SUBSET Nat
  BY <1>1 DEF Record
<1>3. IsFiniteSet(ids)
  <2> DEFINE g == [r \in S |-> r.id]
  <2>1. g \in Surjection(S, ids)
    BY DEF Surjection
  <2>2. IsFiniteSet(S)
    OBVIOUS
  <2> HIDE DEF g, S, ids
  <2> QED BY <2>1, <2>2, FS_Surjection
<1>4. IsFiniteSet(ids \cup {0}) /\ ids \cup {0} \in SUBSET Nat /\ ids \cup {0} # {}
  <2> HIDE DEF ids
  <2> QED BY <1>2, <1>3, FS_AddElement
<1>5. /\ Max(ids \cup {0}) \in ids \cup {0}
      /\ \A n \in ids \cup {0} : Max(ids \cup {0}) >= n
  <2> HIDE DEF ids
  <2> QED BY <1>4, MaxOfFinite
<1>6. NextId(text) = Max(ids \cup {0}) + 1
  BY DEF NextId
<1>7. \A r \in S : r.id \in ids
  OBVIOUS
<1>8. Max(ids \cup {0}) \in Nat
  BY <1>2, <1>5
<1>9. ASSUME NEW r \in S PROVE r.id # NextId(text)
  <2>1. r.id \in Nat /\ Max(ids \cup {0}) >= r.id
    BY <1>2, <1>5, <1>7
  <2> QED BY <2>1, <1>6, <1>8
<1> QED BY <1>6, <1>8, <1>9

-----------------------------------------------------------------------------
\* Types.

\* Every text is a finite set of records, or nextId would have no maximum to take.
FiniteTexts ==
  \A f \in Files :
    IsFiniteSet(Records(disk[f].text)) /\ IsFiniteSet(Records(run[f].current))

Typed == TypeOK /\ FiniteTexts

\* What is being written is what was read, with the new record.
Writes ==
  \A f \in Files :
    run[f].stage = "writing" => run[f].next = Records(run[f].current) \cup {Added(f)}

LEMMA NoFileIsText == NoFile \in Text /\ NoFile \notin SUBSET Record
BY ConstantsAssumption DEF NoFile, Text

LEMMA RecordsOfText ==
  ASSUME NEW text \in Text
  PROVE  Records(text) \in SUBSET Record /\ Records(text) \in Text
BY DEF Text, Records

LEMMA RecordsOfRecords ==
  ASSUME NEW text \in SUBSET Record
  PROVE  Records(text) = text /\ text \in Text /\ text # NoFile
BY NoFileIsText DEF Text, Records

LEMMA SeenValues ==
  /\ Never \in Seen
  /\ Unread \in [Files -> Seen]
  /\ \A d \in [text: Text, ver: Nat] : d \in Seen /\ d # Never
BY NoFileIsText DEF Never, Unread, Seen

LEMMA IdleValues == Idle \in [stage: {"idle", "read", "writing"}, current: Text, next: Text]
BY NoFileIsText DEF Idle

LEMMA NoFlushValues == NoFlush \in Flush
BY NoFileIsText DEF NoFlush, Flush

LEMMA NoRecordsAreFinite == IsFiniteSet(Records(NoFile))
BY FS_EmptySet DEF Records

LEMMA InitTyped == Init => Typed
<1> SUFFICES ASSUME Init PROVE Typed
  OBVIOUS
<1>1. PICK start \in Start : disk = [f \in Files |-> [text |-> start[f], ver |-> 0]]
  BY DEF Init
<1>2. start \in [Files -> Text] /\ \A f \in Files : start[f] = NoFile \/ IsFiniteSet(start[f])
  BY ConstantsAssumption DEF Text
<1>3. FilesOK
  <2>1. disk \in [Files -> [text: Text, ver: Nat]]
    BY <1>1, <1>2
  <2>2. hashes \in [Files -> Text] /\ waiting \in [Files -> Seq(Asks)]
    BY NoFileIsText DEF Init
  <2>3. run \in [Files -> [stage: {"idle", "read", "writing"}, current: Text, next: Text]]
    BY IdleValues DEF Init
  <2>4. \A f \in Files : run[f].stage = "idle"
    BY DEF Init, Idle
  <2>5. asked \subseteq Asks /\ kept \subseteq Files \X Record
    BY DEF Init
  <2> QED BY <2>1, <2>2, <2>3, <2>4, <2>5 DEF FilesOK
<1>4. IndexOK
  <2>1. tasks \in Seq(Load)
    BY DEF Init
  <2>2. loaded = FALSE /\ emitTimer = FALSE /\ index = Unread /\ sent = Unread
    BY DEF Init
  <2> QED BY <2>1, <2>2, SeenValues DEF IndexOK
<1>5. WatchOK
  <2>1. fsEvents \subseteq Files /\ pending \subseteq Files /\ timer \in BOOLEAN
    BY DEF Init
  <2>2. flushes \in [Flushers -> Flush]
    BY NoFlushValues DEF Init
  <2>3. blind \in [Files -> BOOLEAN]
    BY DEF Init
  <2>4. turns \in 0..MaxTurns
    BY ConstantsAssumption DEF Init
  <2> QED BY <2>1, <2>2, <2>3, <2>4 DEF WatchOK
<1>6. FiniteTexts
  <2> SUFFICES ASSUME NEW f \in Files
               PROVE  IsFiniteSet(Records(disk[f].text)) /\ IsFiniteSet(Records(run[f].current))
    BY DEF FiniteTexts
  <2>1. disk[f].text = start[f] /\ run[f].current = NoFile
    BY <1>1 DEF Init, Idle
  <2>2. IsFiniteSet(Records(start[f]))
    BY <1>2, NoRecordsAreFinite DEF Records
  <2> QED BY <2>1, <2>2, NoRecordsAreFinite
<1> QED BY <1>3, <1>4, <1>5, <1>6 DEF Typed, TypeOK

\* Operators that several actions use.

LEMMA RefreshTyped ==
  ASSUME IndexOK, NEW then \in {"emit", "peek", "plan"}, NEW files \in SUBSET Files,
         Refresh(then, files)
  PROVE  tasks' \in Seq(Load)
<1>1. [then |-> then, files |-> files, got |-> Unread] \in Load
  BY SeenValues DEF Load
<1> QED BY <1>1 DEF IndexOK, Refresh

LEMMA AddedIsNew ==
  ASSUME Typed, NEW f \in Files, run[f].stage # "idle"
  PROVE  Added(f) \in Record /\ \A r \in Records(run[f].current) : r.id # Added(f).id
<1>1. run[f].current \in Text /\ IsFiniteSet(Records(run[f].current))
  BY DEF Typed, TypeOK, FilesOK, FiniteTexts
<1>2. waiting[f] \in Seq(Asks) /\ waiting[f] # <<>>
  BY DEF Typed, TypeOK, FilesOK
<1>3. Head(waiting[f]).op \in Ops
  BY <1>2, ConstantsAssumption DEF Ask
<1> QED BY <1>1, <1>3, NextIdIsNew DEF Added, Record

LEMMA SettledTyped ==
  ASSUME FilesOK, NEW f \in Files, waiting[f] # <<>>, Settled(f)
  PROVE  /\ waiting' \in [Files -> Seq(Asks)]
         /\ run' \in [Files -> [stage: {"idle", "read", "writing"}, current: Text, next: Text]]
         /\ run'[f] = Idle /\ \A g \in Files \ {f} : run'[g] = run[g] /\ waiting'[g] = waiting[g]
         /\ \A g \in Files : run'[g].stage # "idle" => waiting'[g] # <<>>
<1>1. Tail(waiting[f]) \in Seq(Asks)
  BY DEF FilesOK
<1>2. run' = [run EXCEPT ![f] = Idle] /\ waiting' = [waiting EXCEPT ![f] = Tail(@)]
  BY DEF Settled
<1>3. run'[f] = Idle /\ \A g \in Files \ {f} : run'[g] = run[g] /\ waiting'[g] = waiting[g]
  BY <1>2 DEF FilesOK
<1>4. waiting' \in [Files -> Seq(Asks)]
  BY <1>1, <1>2 DEF FilesOK
<1>5. run' \in [Files -> [stage: {"idle", "read", "writing"}, current: Text, next: Text]]
  BY <1>2, IdleValues DEF FilesOK
<1>6. \A g \in Files : run'[g].stage # "idle" => waiting'[g] # <<>>
  BY <1>3 DEF FilesOK, Idle
<1> QED BY <1>3, <1>4, <1>5, <1>6

LEMMA SaveTyped ==
  ASSUME FilesOK, NEW f \in Files, NEW text \in Text, Save(f, text)
  PROVE  /\ disk' \in [Files -> [text: Text, ver: Nat]]
         /\ disk'[f].text = text /\ disk'[f].ver = disk[f].ver + 1
         /\ \A g \in Files \ {f} : disk'[g] = disk[g]
         /\ fsEvents \subseteq Files => fsEvents' \subseteq Files
<1>1. disk[f].ver + 1 \in Nat
  BY DEF FilesOK
<1> QED BY <1>1 DEF FilesOK, Save

\* The head of a load queue that was taken off leaves the others in their order.
LEMMA HeadTaken ==
  ASSUME NEW S, NEW s \in Seq(S), s # <<>>
  PROVE  /\ RemoveAt(s, 1) \in Seq(S) /\ Len(RemoveAt(s, 1)) = Len(s) - 1
         /\ \A j \in 1..(Len(s) - 1) : RemoveAt(s, 1)[j] = s[j + 1]
<1>1. SubSeq(s, 1, 0) = <<>>
  OBVIOUS
<1>2. Tail(s) = SubSeq(s, 2, Len(s))
  BY TailIsSubSeq
<1>3. /\ Tail(s) \in Seq(S) /\ Len(Tail(s)) = Len(s) - 1
      /\ \A j \in 1..(Len(s) - 1) : Tail(s)[j] = s[j + 1]
  BY HeadTailProperties
<1>4. RemoveAt(s, 1) = Tail(s)
  BY <1>1, <1>2, <1>3 DEF RemoveAt
<1> QED BY <1>3, <1>4

-----------------------------------------------------------------------------
\* What an action leaves alone stays typed.

LEMMA FilesFrame ==
  ASSUME Typed, UNCHANGED diskVars
  PROVE  FilesOK' /\ FiniteTexts'
BY DEF Typed, TypeOK, FilesOK, FiniteTexts, diskVars

LEMMA IndexFrame ==
  ASSUME Typed, UNCHANGED <<indexVars, sendVars>>
  PROVE  IndexOK'
BY DEF Typed, TypeOK, IndexOK, indexVars, sendVars

LEMMA WatchFrame ==
  ASSUME Typed, UNCHANGED <<watchVars, turns, blind>>
  PROVE  WatchOK'
BY DEF Typed, TypeOK, WatchOK, watchVars

\* The index's actions.

LEMMA LoadReadsTyped ==
  ASSUME Typed, NEW i \in DOMAIN tasks, NEW f \in Files, LoadReads(i, f)
  PROVE  Typed'
<1> USE DEF Typed, TypeOK
<1>1. FilesOK' /\ FiniteTexts'
  BY FilesFrame DEF LoadReads
<1>2. IndexOK'
  <2> DEFINE load == [tasks[i] EXCEPT !.got[f] = disk[f]]
  <2>1. tasks[i] \in Load /\ disk[f] \in Seen
    BY SeenValues DEF IndexOK, FilesOK
  <2>2. load \in Load
    BY <2>1 DEF Load
  <2>3. tasks' = [tasks EXCEPT ![i] = load]
    BY DEF LoadReads
  <2>4. tasks' \in Seq(Load)
    <3> HIDE DEF load
    <3> QED BY <2>2, <2>3, ExceptSeq DEF IndexOK
  <2>5. UNCHANGED <<loaded, index, sendVars>>
    BY DEF LoadReads
  <2> HIDE DEF load
  <2> QED BY <2>4, <2>5 DEF IndexOK, sendVars
<1>3. WatchOK'
  <2>1. blind' \in [Files -> BOOLEAN]
    BY DEF WatchOK, LoadReads
  <2> QED BY <2>1 DEF WatchOK, LoadReads, watchVars
<1> QED BY <1>1, <1>2, <1>3

LEMMA LoadEndsTyped ==
  ASSUME Typed, NEW i \in DOMAIN tasks, LoadEnds(i)
  PROVE  Typed'
<1> USE DEF Typed, TypeOK
<1>1. FilesOK' /\ FiniteTexts'
  BY FilesFrame DEF LoadEnds
<1>2. IndexOK'
  <2>1. tasks[i].got \in [Files -> Seen]
    <3>1. tasks[i] \in Load
      BY DEF IndexOK
    <3> QED BY <3>1 DEF Load
  <2>2. index' \in [Files -> Seen]
    BY <2>1 DEF IndexOK, LoadEnds, Applied
  <2>3. sent' \in [Files -> Seen]
    BY <2>2 DEF IndexOK, LoadEnds
  <2>4. tasks' \in Seq(Load)
    BY HeadTaken DEF IndexOK, LoadEnds, Turn
  <2>5. loaded' \in BOOLEAN /\ emitTimer' \in BOOLEAN
    BY DEF IndexOK, LoadEnds
  <2> QED BY <2>2, <2>3, <2>4, <2>5 DEF IndexOK
<1>3. WatchOK'
  BY WatchFrame DEF LoadEnds
<1> QED BY <1>1, <1>2, <1>3

LEMMA SnapshotTyped ==
  ASSUME Typed, NEW then \in {"peek", "plan"}, Snapshot(then)
  PROVE  Typed'
<1> USE DEF Typed, TypeOK
<1>1. FilesOK' /\ FiniteTexts'
  BY FilesFrame DEF Snapshot
<1>2. IndexOK'
  <2>1. tasks' \in Seq(Load)
    BY RefreshTyped DEF Snapshot
  <2> QED BY <2>1 DEF IndexOK, Snapshot, sendVars
<1>3. WatchOK'
  BY ConstantsAssumption DEF WatchOK, Snapshot, watchVars
<1> QED BY <1>1, <1>2, <1>3

LEMMA EmitTyped ==
  ASSUME Typed, Emit
  PROVE  Typed'
<1> USE DEF Typed, TypeOK
<1>1. FilesOK' /\ FiniteTexts'
  BY FilesFrame DEF Emit
<1>2. IndexOK'
  BY DEF IndexOK, Emit, indexVars
<1>3. WatchOK'
  BY WatchFrame DEF Emit
<1> QED BY <1>1, <1>2, <1>3

\* The writer's actions and the editor.

LEMMA RequestTyped ==
  ASSUME Typed, NEW a \in Asks, Request(a)
  PROVE  Typed'
<1> USE DEF Typed, TypeOK
<1>1. FilesOK'
  <2>1. a.file \in Files
    BY ConstantsAssumption DEF Ask
  <2>2. waiting' = [waiting EXCEPT ![a.file] = Append(@, a)]
    BY DEF Request
  <2>3. Append(waiting[a.file], a) \in Seq(Asks) /\ Append(waiting[a.file], a) # <<>>
    <3>1. waiting[a.file] \in Seq(Asks)
      BY <2>1 DEF FilesOK
    <3> QED BY <3>1
  <2>6. waiting' \in [Files -> Seq(Asks)]
    BY <2>1, <2>2, <2>3 DEF FilesOK
  <2>7. \A f \in Files : waiting[f] # <<>> => waiting'[f] # <<>>
    BY <2>1, <2>2, <2>3 DEF FilesOK
  <2>4. asked' \subseteq Asks
    BY DEF FilesOK, Request
  <2>5. UNCHANGED <<disk, hashes, run, kept>>
    BY DEF Request
  <2> QED BY <2>4, <2>5, <2>6, <2>7 DEF FilesOK
<1>2. FiniteTexts'
  BY DEF FiniteTexts, Request
<1>3. IndexOK'
  BY IndexFrame DEF Request
<1>4. WatchOK'
  BY WatchFrame DEF Request
<1> QED BY <1>1, <1>2, <1>3, <1>4

LEMMA MutateReadsTyped ==
  ASSUME Typed, NEW f \in Files, MutateReads(f)
  PROVE  Typed'
<1> USE DEF Typed, TypeOK
<1> DEFINE head == [stage |-> "read", current |-> disk[f].text, next |-> NoFile]
<1>1. run' = [run EXCEPT ![f] = head] /\ UNCHANGED <<disk, hashes, waiting, asked, kept>>
  BY DEF MutateReads
<1>2. head \in [stage: {"idle", "read", "writing"}, current: Text, next: Text]
  BY NoFileIsText DEF FilesOK
<1>3. FilesOK'
  <2>1. waiting[f] # <<>>
    BY DEF MutateReads
  <2>2. run' \in [Files -> [stage: {"idle", "read", "writing"}, current: Text, next: Text]]
    <3> HIDE DEF head
    <3> QED BY <1>1, <1>2 DEF FilesOK
  <2>3. \A g \in Files : run'[g].stage # "idle" => waiting[g] # <<>>
    BY <1>1, <2>1 DEF FilesOK
  <2> QED BY <1>1, <2>2, <2>3 DEF FilesOK
<1>4. FiniteTexts'
  BY <1>1 DEF FiniteTexts, FilesOK
<1>5. IndexOK'
  BY IndexFrame DEF MutateReads
<1>6. WatchOK'
  BY WatchFrame DEF MutateReads
<1> QED BY <1>3, <1>4, <1>5, <1>6

\* A queue that moves on leaves finite texts.
LEMMA SettledFinite ==
  ASSUME Typed, NEW f \in Files, waiting[f] # <<>>, Settled(f)
  PROVE  \A g \in Files : IsFiniteSet(Records(run'[g].current))
BY NoRecordsAreFinite, SMTT(30) DEF Settled, Typed, TypeOK, FilesOK, FiniteTexts, Idle

LEMMA MutateChangesTyped ==
  ASSUME Typed, NEW f \in Files, MutateChanges(f)
  PROVE  Typed'
<1> USE DEF Typed, TypeOK
<1> DEFINE next == Records(run[f].current) \cup {Added(f)}
<1>1. run[f].stage = "read" /\ waiting[f] # <<>>
  BY DEF MutateChanges, FilesOK
<1>2. UNCHANGED <<disk, asked, kept>>
  BY DEF MutateChanges
<1>3. ASSUME Settled(f), Refresh("emit", {f}), UNCHANGED hashes
      PROVE  FilesOK' /\ FiniteTexts' /\ tasks' \in Seq(Load)
  <2>1. tasks' \in Seq(Load)
    BY <1>3, RefreshTyped
  <2>2. FilesOK'
    BY <1>1, <1>2, <1>3, SettledTyped DEF FilesOK
  <2>3. FiniteTexts'
    BY <1>1, <1>2, <1>3, SettledFinite DEF FiniteTexts
  <2> QED BY <2>1, <2>2, <2>3
<1>4. ASSUME hashes' = [hashes EXCEPT ![f] = next],
             run' = [run EXCEPT ![f].stage = "writing", ![f].next = next],
             UNCHANGED <<waiting, tasks>>
      PROVE  FilesOK' /\ FiniteTexts' /\ tasks' \in Seq(Load)
  <2>1. next \in Text
    BY <1>1, AddedIsNew, RecordsOfText, RecordsOfRecords DEF FilesOK
  <2>2. hashes' \in [Files -> Text]
    BY <1>4, <2>1 DEF FilesOK
  <2>3. run' \in [Files -> [stage: {"idle", "read", "writing"}, current: Text, next: Text]]
    <3> HIDE DEF next
    <3> QED BY <1>4, <2>1 DEF FilesOK
  <2>4. \A g \in Files : run'[g].current = run[g].current /\ (run'[g].stage # "idle" => waiting[g] # <<>>)
    <3> HIDE DEF next
    <3> QED BY <1>1, <1>4 DEF FilesOK
  <2>5. FilesOK'
    BY <1>2, <1>4, <2>2, <2>3, <2>4 DEF FilesOK
  <2>6. FiniteTexts'
    BY <1>2, <2>4 DEF FiniteTexts
  <2> QED BY <1>4, <2>5, <2>6 DEF IndexOK
<1>5. FilesOK' /\ FiniteTexts' /\ tasks' \in Seq(Load)
  BY <1>3, <1>4 DEF MutateChanges
<1>6. IndexOK'
  BY <1>5 DEF IndexOK, MutateChanges, sendVars
<1>7. WatchOK'
  BY WatchFrame DEF MutateChanges
<1> QED BY <1>5, <1>6, <1>7

\* The text that is written holds the new record and is finite.
LEMMA WrittenText ==
  ASSUME Typed, Writes, NEW f \in Files, run[f].stage = "writing"
  PROVE  /\ Records(run[f].next) = Records(run[f].current) \cup {Added(f)}
         /\ IsFiniteSet(Records(run[f].next))
<1>1. run[f].current \in Text /\ IsFiniteSet(Records(run[f].current))
  BY DEF Typed, TypeOK, FilesOK, FiniteTexts
<1>2. run[f].next = Records(run[f].current) \cup {Added(f)}
  BY DEF Writes
<1>3. run[f].next \in SUBSET Record
  BY <1>1, <1>2, AddedIsNew, RecordsOfText
<1>4. Records(run[f].next) = run[f].next
  BY <1>3, RecordsOfRecords
<1>5. IsFiniteSet(run[f].next)
  BY <1>1, <1>2, FS_AddElement
<1> QED BY <1>2, <1>4, <1>5

LEMMA RenameLandsTyped ==
  ASSUME Typed, Writes, NEW f \in Files, RenameLands(f)
  PROVE  Typed'
<1> USE DEF Typed, TypeOK
<1>1. /\ run[f].stage = "writing" /\ waiting[f] # <<>> /\ run[f].next \in Text
      /\ Settled(f) /\ Save(f, run[f].next) /\ Refresh("emit", {f})
      /\ UNCHANGED <<hashes, asked>>
  BY DEF RenameLands, FilesOK
<1>2. Added(f) \in Record
  BY <1>1, AddedIsNew
<1>3. FilesOK'
  <2>1. kept' \subseteq Files \X Record
    BY <1>2 DEF RenameLands, FilesOK
  <2> QED BY <1>1, <2>1, SettledTyped, SaveTyped DEF FilesOK
<1>4. FiniteTexts'
  <2>1. IsFiniteSet(Records(run[f].next))
    BY <1>1, WrittenText
  <2>2. \A g \in Files : IsFiniteSet(Records(disk'[g].text))
    BY <1>1, <2>1, SaveTyped DEF FiniteTexts
  <2>3. \A g \in Files : IsFiniteSet(Records(run'[g].current))
    BY <1>1, SettledFinite
  <2> QED BY <2>2, <2>3 DEF FiniteTexts
<1>5. IndexOK'
  <2>1. tasks' \in Seq(Load)
    BY <1>1, RefreshTyped
  <2> QED BY <2>1 DEF IndexOK, RenameLands, sendVars
<1>6. WatchOK'
  <2>1. fsEvents' \subseteq Files
    BY <1>1, SaveTyped DEF WatchOK
  <2> QED BY <2>1 DEF WatchOK, RenameLands
<1> QED BY <1>3, <1>4, <1>5, <1>6

LEMMA WriteFailsTyped ==
  ASSUME Typed, NEW f \in Files, WriteFails(f)
  PROVE  Typed'
<1> USE DEF Typed, TypeOK
<1>1. /\ run[f].stage = "writing" /\ waiting[f] # <<>> /\ run[f].current \in Text
      /\ Settled(f) /\ UNCHANGED <<disk, asked, kept>>
      /\ hashes' = [hashes EXCEPT ![f] = run[f].current]
  BY DEF WriteFails, FilesOK
<1>2. FilesOK'
  <2>1. hashes' \in [Files -> Text]
    BY <1>1 DEF FilesOK
  <2> QED BY <1>1, <2>1, SettledTyped DEF FilesOK
<1>3. FiniteTexts'
  BY <1>1, SettledFinite DEF FiniteTexts
<1>4. IndexOK'
  BY IndexFrame DEF WriteFails
<1>5. WatchOK'
  <2>1. blind' \in [Files -> BOOLEAN]
    BY DEF WatchOK, WriteFails, Agreed
  <2>2. turns' \in 0..MaxTurns
    BY ConstantsAssumption DEF WatchOK, WriteFails
  <2>3. UNCHANGED <<fsEvents, pending, timer, flushes>>
    BY DEF WriteFails
  <2> QED BY <2>1, <2>2, <2>3 DEF WatchOK
<1> QED BY <1>2, <1>3, <1>4, <1>5

LEMMA EditTyped ==
  ASSUME Typed, NEW f \in Files, Edit(f)
  PROVE  Typed' /\ UNCHANGED <<run, waiting>>
<1> USE DEF Typed, TypeOK
<1> DEFINE new == [id |-> NextId(disk[f].text), by |-> Hand]
<1>1. disk[f].text \in Text /\ IsFiniteSet(Records(disk[f].text))
  BY DEF FilesOK, FiniteTexts
<1>2. Records(disk[f].text) \in SUBSET Record
  BY <1>1, RecordsOfText
<1>3. PICK text \in Text : Save(f, text) /\ IsFiniteSet(Records(text))
  <2>1. CASE Save(f, Records(disk[f].text) \cup {new})
    <3>1. new \in Record
      BY <1>1, NextIdIsNew DEF Record
    <3> HIDE DEF new
    <3>2. IsFiniteSet(Records(disk[f].text) \cup {new})
      BY <1>1, FS_AddElement
    <3> QED BY <1>2, <2>1, <3>1, <3>2, RecordsOfRecords
  <2>2. CASE \E r \in Records(disk[f].text) : Save(f, disk[f].text \ {r})
    <3>1. PICK r \in Records(disk[f].text) : Save(f, disk[f].text \ {r})
      BY <2>2
    <3>2. disk[f].text = Records(disk[f].text)
      BY <3>1 DEF Records
    <3>3. IsFiniteSet(disk[f].text \ {r})
      BY <1>1, <3>2, FS_RemoveElement
    <3> QED BY <1>2, <3>1, <3>2, <3>3, RecordsOfRecords
  <2>3. CASE Save(f, NoFile)
    BY <2>3, NoFileIsText, NoRecordsAreFinite
  <2> QED BY <2>1, <2>2, <2>3 DEF Edit
<1>4. UNCHANGED <<hashes, waiting, run, asked>> /\ kept' \subseteq kept
  BY DEF Edit
<1>5. FilesOK'
  BY <1>3, <1>4, SaveTyped DEF FilesOK
<1>6. FiniteTexts'
  BY <1>3, <1>4, SaveTyped DEF FiniteTexts
<1>7. IndexOK'
  BY IndexFrame DEF Edit
<1>8. WatchOK'
  <2>1. fsEvents' \subseteq Files
    BY <1>3, SaveTyped DEF WatchOK
  <2>2. blind' \in [Files -> BOOLEAN]
    BY DEF WatchOK, Edit
  <2>3. turns' \in 0..MaxTurns /\ UNCHANGED <<pending, timer, flushes>>
    BY ConstantsAssumption DEF WatchOK, Edit
  <2> QED BY <2>1, <2>2, <2>3 DEF WatchOK
<1> QED BY <1>4, <1>5, <1>6, <1>7, <1>8

\* The watcher's actions.

LEMMA NoteTyped ==
  ASSUME Typed, NEW f \in Files, Note(f)
  PROVE  Typed'
<1> USE DEF Typed, TypeOK
<1>1. FilesOK' /\ FiniteTexts'
  BY FilesFrame DEF Note
<1>2. IndexOK'
  BY IndexFrame DEF Note
<1>3. WatchOK'
  BY DEF WatchOK, Note
<1> QED BY <1>1, <1>2, <1>3

LEMMA FlushBeginsTyped ==
  ASSUME Typed, NEW w \in Flushers, FlushBegins(w)
  PROVE  Typed'
<1> USE DEF Typed, TypeOK
<1>1. FilesOK' /\ FiniteTexts'
  BY FilesFrame DEF FlushBegins
<1>2. IndexOK'
  BY IndexFrame DEF FlushBegins
<1>3. WatchOK'
  <2> DEFINE flush == [flushes[w] EXCEPT !.todo = pending]
  <2>1. flush \in Flush
    BY DEF WatchOK, Flush
  <2>2. flushes' = [flushes EXCEPT ![w] = flush]
    BY DEF FlushBegins
  <2>3. flushes' \in [Flushers -> Flush]
    <3> HIDE DEF flush
    <3> QED BY <2>1, <2>2 DEF WatchOK
  <2>4. pending' = {} /\ timer' = FALSE /\ UNCHANGED <<fsEvents, turns, blind>>
    BY DEF FlushBegins
  <2> QED BY <2>3, <2>4 DEF WatchOK
<1> QED BY <1>1, <1>2, <1>3

LEMMA FlushReadsTyped ==
  ASSUME Typed, NEW w \in Flushers, NEW f \in Files, FlushReads(w, f)
  PROVE  Typed'
<1> USE DEF Typed, TypeOK
<1>1. FilesOK' /\ FiniteTexts'
  BY FilesFrame DEF FlushReads
<1>2. IndexOK'
  BY IndexFrame DEF FlushReads
<1>3. WatchOK'
  <2> DEFINE flush == [flushes[w] EXCEPT !.todo = @ \ {f}, !.at = f, !.text = disk[f].text]
  <2>1. flush \in Flush
    <3>1. disk[f].text \in Text
      BY DEF FilesOK
    <3> QED BY <3>1 DEF WatchOK, Flush
  <2>2. flushes' = [flushes EXCEPT ![w] = flush]
    BY DEF FlushReads
  <2>3. flushes' \in [Flushers -> Flush]
    <3> HIDE DEF flush
    <3> QED BY <2>1, <2>2 DEF WatchOK
  <2>4. UNCHANGED <<fsEvents, pending, timer, turns, blind>>
    BY DEF FlushReads
  <2> QED BY <2>3, <2>4 DEF WatchOK
<1> QED BY <1>1, <1>2, <1>3

LEMMA FlushComparesTyped ==
  ASSUME Typed, NEW w \in Flushers, FlushCompares(w)
  PROVE  Typed'
<1> USE DEF Typed, TypeOK
<1> DEFINE f == flushes[w].at
<1>1. /\ flushes[w] \in Flush /\ f \in Files /\ flushes[w].text \in Text
      /\ Changed(w) \in SUBSET Files
  <2>1. flushes[w] \in Flush
    BY DEF WatchOK
  <2>2. f \in Files /\ flushes[w].text \in Text /\ flushes[w].changed \in SUBSET Files
    BY <2>1 DEF Flush, FlushCompares
  <2> QED BY <2>1, <2>2 DEF Changed, News
<1>2. FilesOK' /\ FiniteTexts'
  <2>1. hashes' \in [Files -> Text]
    BY <1>1 DEF FilesOK, FlushCompares
  <2>2. UNCHANGED <<disk, waiting, run, asked, kept>>
    BY DEF FlushCompares
  <2> QED BY <2>1, <2>2 DEF FilesOK, FiniteTexts
<1>3. IndexOK'
  <2>1. tasks' \in Seq(Load)
    <3>1. CASE UNCHANGED tasks
      BY <3>1 DEF IndexOK
    <3>2. CASE Refresh("emit", Changed(w))
      BY <1>1, <3>2, RefreshTyped
    <3> QED BY <3>1, <3>2 DEF FlushCompares
  <2> QED BY <2>1 DEF IndexOK, FlushCompares, sendVars
<1>4. WatchOK'
  <2> DEFINE flush == [flushes[w] EXCEPT !.at = None, !.text = NoFile, !.changed = Changed(w)]
  <2>1. flush \in Flush
    BY <1>1, NoFileIsText DEF Flush
  <2>2. flushes' = [flushes EXCEPT ![w] = flush] \/ flushes' = [flushes EXCEPT ![w] = NoFlush]
    BY DEF FlushCompares
  <2>3. flushes' \in [Flushers -> Flush]
    <3> HIDE DEF flush
    <3> QED BY <2>1, <2>2, NoFlushValues DEF WatchOK
  <2>4. UNCHANGED <<fsEvents, pending, timer, turns, blind>>
    BY DEF FlushCompares
  <2> QED BY <2>3, <2>4 DEF WatchOK
<1> QED BY <1>2, <1>3, <1>4

LEMMA NextTyped == Typed /\ Writes /\ [Next]_vars => Typed'
<1> SUFFICES ASSUME Typed, Writes, [Next]_vars PROVE Typed'
  OBVIOUS
<1>1. CASE Emit
  BY <1>1, EmitTyped
<1>2. CASE \E i \in DOMAIN tasks : LoadEnds(i)
  BY <1>2, LoadEndsTyped
<1>3. CASE \E i \in DOMAIN tasks, f \in Files : LoadReads(i, f)
  BY <1>3, LoadReadsTyped
<1>4. CASE \E then \in {"peek", "plan"} : Snapshot(then)
  BY <1>4, SnapshotTyped
<1>5. CASE \E f \in Files : MutateReads(f)
  BY <1>5, MutateReadsTyped
<1>6. CASE \E f \in Files : MutateChanges(f)
  BY <1>6, MutateChangesTyped
<1>7. CASE \E f \in Files : RenameLands(f)
  BY <1>7, RenameLandsTyped
<1>8. CASE \E f \in Files : WriteFails(f)
  BY <1>8, WriteFailsTyped
<1>9. CASE \E f \in Files : Edit(f)
  BY <1>9, EditTyped
<1>10. CASE \E f \in Files : Note(f)
  BY <1>10, NoteTyped
<1>11. CASE \E a \in Asks : Request(a)
  BY <1>11, RequestTyped
<1>12. CASE \E w \in Flushers : FlushBegins(w)
  BY <1>12, FlushBeginsTyped
<1>13. CASE \E w \in Flushers : FlushCompares(w)
  BY <1>13, FlushComparesTyped
<1>14. CASE \E w \in Flushers, f \in Files : FlushReads(w, f)
  BY <1>14, FlushReadsTyped
<1>15. CASE UNCHANGED vars
  <2>1. UNCHANGED diskVars /\ UNCHANGED <<indexVars, sendVars>> /\ UNCHANGED <<watchVars, turns, blind>>
    BY <1>15 DEF vars
  <2> QED BY <2>1, FilesFrame, IndexFrame, WatchFrame DEF Typed, TypeOK
<1> QED BY <1>1, <1>2, <1>3, <1>4, <1>5, <1>6, <1>7, <1>8, <1>9, <1>10, <1>11, <1>12,
           <1>13, <1>14, <1>15 DEF Next

-----------------------------------------------------------------------------
\* What was added stays, with an id of its own.

\* A mutation under way has read every record that is in its file for good: the
\* queue lets nothing else be added after its read.
InHand ==
  \A f \in Files, k \in kept :
    run[f].stage # "idle" /\ k[1] = f => k[2] \in Records(run[f].current)

IInv == Typed /\ Writes /\ InHand /\ AddedItemsStay /\ IdsAreUnique

LEMMA IInvInit == Init => IInv
<1> SUFFICES ASSUME Init PROVE IInv
  OBVIOUS
<1>1. kept = {} /\ \A f \in Files : run[f].stage = "idle"
  BY DEF Init, Idle
<1> QED BY <1>1, InitTyped DEF IInv, Writes, InHand, AddedItemsStay, IdsAreUnique

\* Whatever leaves the files, the queues and the heads alone.
LEMMA IInvFrame ==
  ASSUME IInv, UNCHANGED <<disk, waiting, run, kept>>
  PROVE  Writes' /\ InHand' /\ AddedItemsStay' /\ IdsAreUnique'
BY DEF IInv, Writes, InHand, AddedItemsStay, IdsAreUnique, Added

LEMMA RequestKeeps ==
  ASSUME IInv, NEW a \in Asks, Request(a)
  PROVE  Writes' /\ InHand' /\ AddedItemsStay' /\ IdsAreUnique'
<1>1. a.file \in Files /\ waiting \in [Files -> Seq(Asks)]
  BY ConstantsAssumption DEF Ask, IInv, Typed, TypeOK, FilesOK
<1>2. waiting' = [waiting EXCEPT ![a.file] = Append(@, a)] /\ UNCHANGED <<disk, run, kept>>
  BY DEF Request
<1>3. ASSUME NEW f \in Files, waiting[f] # <<>> PROVE Head(waiting'[f]) = Head(waiting[f])
  <2>1. waiting[f] \in Seq(Asks) /\ waiting'[f] \in {waiting[f], Append(waiting[f], a)}
    BY <1>1, <1>2
  <2> QED BY <1>3, <2>1
<1>4. \A f \in Files : run[f].stage # "idle" => Added(f)' = Added(f)
  BY <1>2, <1>3 DEF Added, IInv, Typed, TypeOK, FilesOK
<1>5. Writes'
  BY <1>2, <1>4 DEF IInv, Writes
<1> QED BY <1>2, <1>5 DEF IInv, InHand, AddedItemsStay, IdsAreUnique

LEMMA MutateReadsKeeps ==
  ASSUME IInv, NEW f \in Files, MutateReads(f)
  PROVE  Writes' /\ InHand' /\ AddedItemsStay' /\ IdsAreUnique'
<1>1. /\ run' = [run EXCEPT ![f] = [stage |-> "read", current |-> disk[f].text, next |-> NoFile]]
      /\ UNCHANGED <<disk, waiting, kept>>
  BY DEF MutateReads
<1>2. /\ run'[f].stage = "read" /\ run'[f].current = disk[f].text
      /\ \A g \in Files \ {f} : run'[g] = run[g]
  BY <1>1 DEF IInv, Typed, TypeOK, FilesOK
<1>3. Writes'
  BY <1>1, <1>2 DEF IInv, Writes, Added
<1>4. InHand'
  BY <1>1, <1>2 DEF IInv, InHand, AddedItemsStay
<1> QED BY <1>1, <1>3, <1>4 DEF IInv, AddedItemsStay, IdsAreUnique

\* A mutation that settles leaves the other files' mutations as they are.
LEMMA SettledKeeps ==
  ASSUME IInv, NEW f \in Files, waiting[f] # <<>>, Settled(f), NEW k, kept' \subseteq kept \cup {<<f, k>>}
  PROVE  Writes' /\ InHand'
<1>1. /\ run'[f].stage = "idle"
      /\ \A g \in Files \ {f} : run'[g] = run[g] /\ waiting'[g] = waiting[g]
  BY SettledTyped DEF IInv, Typed, TypeOK, Idle
<1>2. Writes'
  BY <1>1 DEF IInv, Writes, Added
<1>3. InHand'
  BY <1>1 DEF IInv, InHand
<1> QED BY <1>2, <1>3

LEMMA MutateChangesKeeps ==
  ASSUME IInv, NEW f \in Files, MutateChanges(f)
  PROVE  Writes' /\ InHand' /\ AddedItemsStay' /\ IdsAreUnique'
<1>1. run[f].stage = "read" /\ waiting[f] # <<>> /\ UNCHANGED <<disk, kept>>
  BY DEF MutateChanges, IInv, Typed, TypeOK, FilesOK
<1>2. ASSUME Settled(f) PROVE Writes' /\ InHand'
  <2>1. kept' \subseteq kept \cup {<<f, Added(f)>>}
    BY <1>1
  <2> QED BY <1>1, <1>2, <2>1, SettledKeeps
<1>3. ASSUME NEW next, next = Records(run[f].current) \cup {Added(f)}, UNCHANGED waiting,
             run' = [run EXCEPT ![f].stage = "writing", ![f].next = next]
      PROVE  Writes' /\ InHand'
  <2>1. /\ run'[f].next = next /\ run'[f].current = run[f].current
        /\ \A g \in Files \ {f} : run'[g] = run[g]
    BY <1>3 DEF IInv, Typed, TypeOK, FilesOK
  <2>2. Writes'
    BY <1>3, <2>1 DEF IInv, Writes, Added
  <2>3. InHand'
    BY <1>1, <2>1 DEF IInv, InHand
  <2> QED BY <2>2, <2>3
<1>4. Writes' /\ InHand'
  BY <1>2, <1>3 DEF MutateChanges
<1> QED BY <1>1, <1>4 DEF IInv, AddedItemsStay, IdsAreUnique

LEMMA RenameLandsKeeps ==
  ASSUME IInv, NEW f \in Files, RenameLands(f)
  PROVE  Writes' /\ InHand' /\ AddedItemsStay' /\ IdsAreUnique'
<1>1. /\ run[f].stage = "writing" /\ waiting[f] # <<>>
      /\ Settled(f) /\ Save(f, run[f].next) /\ kept' = kept \cup {<<f, Added(f)>>}
  BY DEF RenameLands, IInv, Typed, TypeOK, FilesOK
<1>2. Writes' /\ InHand'
  BY <1>1, SettledKeeps
<1>3. Records(run[f].next) = Records(run[f].current) \cup {Added(f)}
  BY <1>1, WrittenText DEF IInv
<1>4. /\ disk'[f].text = run[f].next /\ \A g \in Files \ {f} : disk'[g] = disk[g]
  <2>1. run[f].next \in Text
    BY DEF IInv, Typed, TypeOK, FilesOK
  <2> QED BY <1>1, <2>1, SaveTyped DEF IInv, Typed, TypeOK
<1>5. \A k \in kept : k[1] \in Files /\ (k[1] = f => k[2] \in Records(run[f].current))
  BY <1>1 DEF IInv, InHand, Typed, TypeOK, FilesOK
<1>6. AddedItemsStay'
  <2> SUFFICES ASSUME NEW k \in kept' PROVE k[2] \in Records(disk'[k[1]].text)
    BY DEF AddedItemsStay, Records
  <2>1. CASE k[1] = f
    BY <1>1, <1>3, <1>4, <1>5, <2>1
  <2>2. CASE k[1] # f
    <3>1. k \in kept /\ k[1] \in Files
      BY <1>1, <1>5, <2>2
    <3> QED BY <1>4, <2>2, <3>1 DEF IInv, AddedItemsStay
  <2> QED BY <2>1, <2>2
<1>7. IdsAreUnique'
  <2>1. \A k \in kept : k[1] = f => k[2].id # Added(f).id
    BY <1>1, <1>5, AddedIsNew DEF IInv
  <2> DEFINE new == <<f, Added(f)>>
  <2>2. new[1] = f /\ new[2] = Added(f)
    OBVIOUS
  <2> HIDE DEF new
  <2> QED BY <1>1, <2>1, <2>2 DEF IInv, IdsAreUnique, new
<1> QED BY <1>2, <1>6, <1>7

LEMMA WriteFailsKeeps ==
  ASSUME IInv, NEW f \in Files, WriteFails(f)
  PROVE  Writes' /\ InHand' /\ AddedItemsStay' /\ IdsAreUnique'
<1>1. waiting[f] # <<>> /\ Settled(f) /\ UNCHANGED <<disk, kept>>
  BY DEF WriteFails, IInv, Typed, TypeOK, FilesOK
<1>2. Writes' /\ InHand'
  BY <1>1, SettledKeeps
<1> QED BY <1>1, <1>2 DEF IInv, AddedItemsStay, IdsAreUnique

LEMMA EditKeeps ==
  ASSUME IInv, NEW f \in Files, Edit(f)
  PROVE  Writes' /\ InHand' /\ AddedItemsStay' /\ IdsAreUnique'
<1>1. UNCHANGED <<run, waiting>> /\ kept' \subseteq kept
  BY DEF Edit
<1>2. \A k \in kept' : k[1] = f => k[2] \in Records(disk'[f].text)
  BY DEF Edit
<1>3. \A g \in Files \ {f} : disk'[g] = disk[g]
  BY DEF Edit, Save, IInv, Typed, TypeOK, FilesOK
<1>4. Writes' /\ InHand' /\ IdsAreUnique'
  BY <1>1 DEF IInv, Writes, InHand, IdsAreUnique, Added
<1>5. AddedItemsStay'
  <2> SUFFICES ASSUME NEW k \in kept' PROVE k[2] \in Records(disk'[k[1]].text)
    BY DEF AddedItemsStay, Records
  <2>1. k \in kept /\ k[1] \in Files
    BY <1>1 DEF IInv, Typed, TypeOK, FilesOK
  <2> QED BY <1>2, <1>3, <2>1 DEF IInv, AddedItemsStay
<1> QED BY <1>4, <1>5

LEMMA NextKeeps == IInv /\ [Next]_vars => Writes' /\ InHand' /\ AddedItemsStay' /\ IdsAreUnique'
<1> SUFFICES ASSUME IInv, [Next]_vars
             PROVE  Writes' /\ InHand' /\ AddedItemsStay' /\ IdsAreUnique'
  OBVIOUS
<1>1. CASE Emit
  BY <1>1, IInvFrame DEF Emit, diskVars
<1>2. CASE \E i \in DOMAIN tasks : LoadEnds(i)
  BY <1>2, IInvFrame DEF LoadEnds, diskVars
<1>3. CASE \E i \in DOMAIN tasks, f \in Files : LoadReads(i, f)
  BY <1>3, IInvFrame DEF LoadReads, diskVars
<1>4. CASE \E then \in {"peek", "plan"} : Snapshot(then)
  BY <1>4, IInvFrame DEF Snapshot, diskVars
<1>5. CASE \E f \in Files : MutateReads(f)
  BY <1>5, MutateReadsKeeps
<1>6. CASE \E f \in Files : MutateChanges(f)
  BY <1>6, MutateChangesKeeps
<1>7. CASE \E f \in Files : RenameLands(f)
  BY <1>7, RenameLandsKeeps
<1>8. CASE \E f \in Files : WriteFails(f)
  BY <1>8, WriteFailsKeeps
<1>9. CASE \E f \in Files : Edit(f)
  BY <1>9, EditKeeps
<1>10. CASE \E f \in Files : Note(f)
  BY <1>10, IInvFrame DEF Note, diskVars
<1>11. CASE \E a \in Asks : Request(a)
  BY <1>11, RequestKeeps
<1>12. CASE \E w \in Flushers : FlushBegins(w)
  BY <1>12, IInvFrame DEF FlushBegins, diskVars
<1>13. CASE \E w \in Flushers : FlushCompares(w)
  BY <1>13, IInvFrame DEF FlushCompares
<1>14. CASE \E w \in Flushers, f \in Files : FlushReads(w, f)
  BY <1>14, IInvFrame DEF FlushReads, diskVars
<1>15. CASE UNCHANGED vars
  BY <1>15, IInvFrame DEF vars, diskVars
<1> QED BY <1>1, <1>2, <1>3, <1>4, <1>5, <1>6, <1>7, <1>8, <1>9, <1>10, <1>11, <1>12,
           <1>13, <1>14, <1>15 DEF Next

LEMMA IInvAlways == Spec => []IInv
<1>1. IInv /\ [Next]_vars => IInv'
  BY NextTyped, NextKeeps DEF IInv
<1> QED BY <1>1, IInvInit, PTL DEF Spec

\* Every reachable state is well typed.
THEOREM TypeCorrect == Spec => []TypeOK
<1>1. IInv => TypeOK
  BY DEF IInv, Typed
<1> QED BY <1>1, IInvAlways, PTL

\* FileWriter: what the store reported as added stays in its file through all later
\* writes, until the user takes it out.
THEOREM AddedStays == Spec => []AddedItemsStay
<1>1. IInv => AddedItemsStay
  BY DEF IInv
<1> QED BY <1>1, IInvAlways, PTL

\* nextId over FileWriter: items of one file never share an id.
THEOREM IdsDoNotRepeat == Spec => []IdsAreUnique
<1>1. IInv => IdsAreUnique
  BY DEF IInv
<1> QED BY <1>1, IInvAlways, PTL

-----------------------------------------------------------------------------
\* The plan never goes back.

\* What was sent is no newer than the index, nor the index than the file; only the
\* load at the head of the queue has read anything, and nothing older than the index.
Ahead ==
  /\ \A f \in Files : sent[f].ver <= index[f].ver /\ index[f].ver <= disk[f].ver
  /\ \A i \in DOMAIN tasks, f \in Files :
       tasks[i].got[f] # Never =>
         i = 1 /\ index[f].ver <= tasks[i].got[f].ver /\ tasks[i].got[f].ver <= disk[f].ver

\* What the listeners and the index have does not get older in this step.
Onward == \A f \in Files : index'[f].ver >= index[f].ver /\ sent'[f].ver >= sent[f].ver

DiskOnward == \A f \in Files : disk'[f].ver >= disk[f].ver

LEMMA Versions ==
  ASSUME Typed, NEW f \in Files
  PROVE  sent[f].ver \in Int /\ index[f].ver \in Int /\ disk[f].ver \in Nat
BY DEF Typed, TypeOK, FilesOK, IndexOK, Seen

LEMMA TaskVersions ==
  ASSUME Typed, NEW i \in DOMAIN tasks, NEW f \in Files
  PROVE  tasks[i].got \in [Files -> Seen] /\ tasks[i].got[f].ver \in Int
<1>1. tasks[i] \in Load
  BY DEF Typed, TypeOK, IndexOK
<1> QED BY <1>1 DEF Load, Seen

LEMMA AheadInit == Init => Ahead
<1> SUFFICES ASSUME Init PROVE Ahead
  OBVIOUS
<1>1. tasks = <<>> /\ index = Unread /\ sent = Unread
  BY DEF Init
<1>2. \A f \in Files : disk[f].ver = 0 /\ Unread[f].ver = -1
  BY DEF Init, Unread, Never
<1> QED BY <1>1, <1>2 DEF Ahead

\* A step that at most appends a load and writes files.
LEMMA AheadAppends ==
  ASSUME Typed, Typed', Ahead, UNCHANGED <<index, sent>>, DiskOnward,
         UNCHANGED tasks \/ \E then \in {"emit", "peek", "plan"}, files \in SUBSET Files : Refresh(then, files)
  PROVE  Ahead' /\ Onward
<1>1. Onward
  BY Versions DEF Onward
<1>2. \A f \in Files : sent'[f].ver <= index'[f].ver /\ index'[f].ver <= disk'[f].ver
  <2> TAKE f \in Files
  <2>1. disk'[f].ver \in Nat
    BY DEF Typed, TypeOK, FilesOK
  <2> QED BY <2>1, Versions DEF Ahead, DiskOnward
<1>3. ASSUME NEW i \in DOMAIN tasks', NEW f \in Files, tasks'[i].got[f] # Never
      PROVE  i \in DOMAIN tasks /\ tasks'[i] = tasks[i]
  <2>1. CASE UNCHANGED tasks
    BY <2>1
  <2>2. CASE \E then \in {"emit", "peek", "plan"}, files \in SUBSET Files : Refresh(then, files)
    <3>1. PICK task : tasks' = Append(tasks, task) /\ task.got[f] = Never
      BY <2>2 DEF Refresh, Unread
    <3>2. tasks \in Seq(Load)
      BY DEF Typed, TypeOK, IndexOK
    <3>3. i \in 1..(Len(tasks) + 1) /\ (i = Len(tasks) + 1 => tasks'[i] = task)
      BY <3>1, <3>2
    <3>4. i \in 1..Len(tasks)
      BY <1>3, <3>1, <3>2, <3>3
    <3> QED BY <3>1, <3>2, <3>4
  <2> QED BY <2>1, <2>2
<1>4. ASSUME NEW i \in DOMAIN tasks', NEW f \in Files, tasks'[i].got[f] # Never
      PROVE  i = 1 /\ index'[f].ver <= tasks'[i].got[f].ver /\ tasks'[i].got[f].ver <= disk'[f].ver
  <2>1. i \in DOMAIN tasks /\ tasks'[i] = tasks[i]
    BY <1>3, <1>4
  <2>2. i = 1 /\ index[f].ver <= tasks[i].got[f].ver /\ tasks[i].got[f].ver <= disk[f].ver
    BY <1>4, <2>1 DEF Ahead
  <2>3. disk'[f].ver \in Nat
    BY DEF Typed, TypeOK, FilesOK
  <2> QED BY <2>1, <2>2, <2>3, Versions, TaskVersions DEF DiskOnward
<1> QED BY <1>1, <1>2, <1>4 DEF Ahead

LEMMA LoadReadsAhead ==
  ASSUME Typed, Ahead, NEW i \in DOMAIN tasks, NEW f \in Files, LoadReads(i, f)
  PROVE  Ahead' /\ Onward
<1>1. /\ i = 1 /\ tasks' = [tasks EXCEPT ![i].got[f] = disk[f]]
      /\ UNCHANGED <<disk, index, sent>>
  BY DEF LoadReads, Turn, diskVars, sendVars
<1>2. tasks \in Seq(Load) /\ tasks[i].got \in [Files -> Seen]
  BY TaskVersions DEF Typed, TypeOK, IndexOK
<1>3. /\ DOMAIN tasks' = DOMAIN tasks
      /\ \A j \in DOMAIN tasks : j # i => tasks'[j] = tasks[j]
      /\ tasks'[i].got = [tasks[i].got EXCEPT ![f] = disk[f]]
  <2>1. tasks[i] \in Load
    BY <1>2
  <2> QED BY <1>1, <1>2, <2>1 DEF Load
<1>4. tasks'[i].got[f] = disk[f] /\ \A g \in Files \ {f} : tasks'[i].got[g] = tasks[i].got[g]
  BY <1>2, <1>3
<1>5. ASSUME NEW j \in DOMAIN tasks', NEW g \in Files, tasks'[j].got[g] # Never
      PROVE  j = 1 /\ index'[g].ver <= tasks'[j].got[g].ver /\ tasks'[j].got[g].ver <= disk'[g].ver
  <2>1. CASE j = i /\ g = f
    BY <1>1, <1>4, <2>1, Versions DEF Ahead
  <2>2. CASE ~(j = i /\ g = f)
    BY <1>1, <1>3, <1>4, <1>5, <2>2 DEF Ahead
  <2> QED BY <2>1, <2>2
<1>6. Onward
  BY <1>1, Versions DEF Onward
<1> QED BY <1>1, <1>5, <1>6 DEF Ahead

LEMMA LoadEndsAhead ==
  ASSUME Typed, Ahead, NEW i \in DOMAIN tasks, LoadEnds(i)
  PROVE  Ahead' /\ Onward
<1>1. /\ i = 1 /\ tasks # <<>> /\ tasks' = RemoveAt(tasks, 1) /\ UNCHANGED disk
      /\ index' = Applied(tasks[1].got) /\ (sent' = index' \/ sent' = sent)
  BY DEF LoadEnds, Turn, diskVars
<1>2. tasks \in Seq(Load) /\ 1 \in DOMAIN tasks
  BY <1>1 DEF Typed, TypeOK, IndexOK
<1>3. ASSUME NEW f \in Files
      PROVE  /\ index'[f].ver \in Int /\ index'[f].ver >= index[f].ver
             /\ index'[f].ver <= disk[f].ver
             /\ sent'[f].ver \in Int /\ sent'[f].ver >= sent[f].ver
             /\ sent'[f].ver <= index'[f].ver
  <2>1. index'[f] = IF tasks[1].got[f] = Never THEN index[f] ELSE tasks[1].got[f]
    BY <1>1 DEF Applied
  <2>2. /\ index'[f].ver \in Int /\ index'[f].ver >= index[f].ver
        /\ index'[f].ver <= disk[f].ver
    BY <1>2, <2>1, Versions, TaskVersions DEF Ahead
  <2>3. sent'[f] \in {index'[f], sent[f]}
    BY <1>1
  <2> QED BY <2>2, <2>3, Versions DEF Ahead
<1>4. ASSUME NEW j \in DOMAIN tasks', NEW f \in Files PROVE tasks'[j].got[f] = Never
  <2>1. /\ Len(tasks') = Len(tasks) - 1 /\ tasks' \in Seq(Load)
        /\ \A k \in 1..(Len(tasks) - 1) : tasks'[k] = tasks[k + 1]
    BY <1>1, <1>2, HeadTaken
  <2>2. j \in 1..(Len(tasks) - 1) /\ j + 1 \in DOMAIN tasks /\ j + 1 # 1
    BY <1>2, <2>1
  <2> QED BY <2>1, <2>2 DEF Ahead
<1> QED BY <1>1, <1>3, <1>4 DEF Ahead, Onward

LEMMA EmitAhead ==
  ASSUME Typed, Ahead, Emit
  PROVE  Ahead' /\ Onward
<1>1. sent' = index /\ UNCHANGED <<disk, index, tasks>>
  BY DEF Emit, diskVars, indexVars
<1> QED BY <1>1, Versions DEF Ahead, Onward

LEMMA SaveOnward ==
  ASSUME Typed, NEW f \in Files, NEW text, Save(f, text)
  PROVE  DiskOnward
BY DEF Typed, TypeOK, FilesOK, Save, DiskOnward

LEMMA StillOnward ==
  ASSUME Typed, UNCHANGED disk
  PROVE  DiskOnward
BY DEF Typed, TypeOK, FilesOK, DiskOnward

LEMMA NextAhead == IInv /\ IInv' /\ Ahead /\ [Next]_vars => Ahead' /\ Onward
<1> SUFFICES ASSUME Typed, Typed', Ahead, [Next]_vars PROVE Ahead' /\ Onward
  BY DEF IInv
<1> DEFINE Appends == \E then \in {"emit", "peek", "plan"}, files \in SUBSET Files : Refresh(then, files)
<1>1. CASE Emit
  BY <1>1, EmitAhead
<1>2. CASE \E i \in DOMAIN tasks : LoadEnds(i)
  BY <1>2, LoadEndsAhead
<1>3. CASE \E i \in DOMAIN tasks, f \in Files : LoadReads(i, f)
  BY <1>3, LoadReadsAhead
<1>4. CASE \E then \in {"peek", "plan"} : Snapshot(then)
  <2>1. Appends /\ UNCHANGED <<disk, index, sent>>
    BY <1>4 DEF Snapshot, diskVars, sendVars
  <2> QED BY <2>1, StillOnward, AheadAppends
<1>5. CASE \E f \in Files : MutateReads(f)
  <2>1. UNCHANGED <<disk, tasks, index, sent>>
    BY <1>5 DEF MutateReads, indexVars, sendVars
  <2> QED BY <2>1, StillOnward, AheadAppends
<1>6. CASE \E f \in Files : MutateChanges(f)
  <2>1. (UNCHANGED tasks \/ Appends) /\ UNCHANGED <<disk, index, sent>>
    BY <1>6 DEF MutateChanges, sendVars
  <2> QED BY <2>1, StillOnward, AheadAppends
<1>7. CASE \E f \in Files : RenameLands(f)
  <2>1. Appends /\ UNCHANGED <<index, sent>> /\ \E f \in Files : Save(f, run[f].next)
    BY <1>7 DEF RenameLands, sendVars
  <2> QED BY <2>1, SaveOnward, AheadAppends
<1>8. CASE \E f \in Files : WriteFails(f)
  <2>1. UNCHANGED <<disk, tasks, index, sent>>
    BY <1>8 DEF WriteFails, indexVars, sendVars
  <2> QED BY <2>1, StillOnward, AheadAppends
<1>9. CASE \E f \in Files : Edit(f)
  <2>1. UNCHANGED <<tasks, index, sent>>
    BY <1>9 DEF Edit, indexVars, sendVars
  <2>2. DiskOnward
    BY <1>9, SaveOnward DEF Edit
  <2> QED BY <2>1, <2>2, AheadAppends
<1>10. CASE \E f \in Files : Note(f)
  <2>1. UNCHANGED <<disk, tasks, index, sent>>
    BY <1>10 DEF Note, diskVars, indexVars, sendVars
  <2> QED BY <2>1, StillOnward, AheadAppends
<1>11. CASE \E a \in Asks : Request(a)
  <2>1. UNCHANGED <<disk, tasks, index, sent>>
    BY <1>11 DEF Request, indexVars, sendVars
  <2> QED BY <2>1, StillOnward, AheadAppends
<1>12. CASE \E w \in Flushers : FlushBegins(w)
  <2>1. UNCHANGED <<disk, tasks, index, sent>>
    BY <1>12 DEF FlushBegins, diskVars, indexVars, sendVars
  <2> QED BY <2>1, StillOnward, AheadAppends
<1>13. CASE \E w \in Flushers : FlushCompares(w)
  <2>1. PICK w \in Flushers : FlushCompares(w)
    BY <1>13
  <2>2. Changed(w) \in SUBSET Files
    <3>1. flushes[w] \in Flush
      BY DEF Typed, TypeOK, WatchOK
    <3>2. flushes[w].at \in Files /\ flushes[w].changed \in SUBSET Files
      BY <2>1, <3>1 DEF Flush, FlushCompares
    <3> QED BY <3>2 DEF Changed, News
  <2>3. (UNCHANGED tasks \/ Appends) /\ UNCHANGED <<disk, index, sent>>
    BY <2>1, <2>2 DEF FlushCompares, sendVars
  <2> QED BY <2>3, StillOnward, AheadAppends
<1>14. CASE \E w \in Flushers, f \in Files : FlushReads(w, f)
  <2>1. UNCHANGED <<disk, tasks, index, sent>>
    BY <1>14 DEF FlushReads, diskVars, indexVars, sendVars
  <2> QED BY <2>1, StillOnward, AheadAppends
<1>15. CASE UNCHANGED vars
  <2>1. UNCHANGED <<disk, tasks, index, sent>>
    BY <1>15 DEF vars, diskVars, indexVars, sendVars
  <2> QED BY <2>1, StillOnward, AheadAppends
<1> QED BY <1>1, <1>2, <1>3, <1>4, <1>5, <1>6, <1>7, <1>8, <1>9, <1>10, <1>11, <1>12,
           <1>13, <1>14, <1>15 DEF Next

\* PlanIndex.serialized: no slow read of an old text is applied or sent after a
\* newer one.
THEOREM PlanGoesForward == Spec => PlanNeverGoesBack
<1>1. Spec => [](IInv /\ Ahead)
  BY IInvAlways, AheadInit, NextAhead, PTL DEF Spec
<1>2. IInv /\ IInv' /\ Ahead /\ [Next]_vars =>
        [\A f \in Files : index'[f].ver >= index[f].ver /\ sent'[f].ver >= sent[f].ver]_vars
  BY NextAhead DEF Onward
<1> QED BY <1>1, <1>2, PTL DEF Spec, PlanNeverGoesBack

-----------------------------------------------------------------------------
\* Clients show every file as it is, or something under way will tell of it.

\* A text that was read of f is the one the file has.
AsOnDisk(f, seen) == seen = Never \/ seen.text = disk[f].text
ReadsAsOnDisk(f) == \A i \in DOMAIN tasks : AsOnDisk(f, tasks[i].got[f])

\* The index and the clients have the text of f, so far as they have any.
Shown(f) ==
  /\ sent = Unread \/ sent[f].text = disk[f].text
  /\ AsOnDisk(f, index[f]) /\ ReadsAsOnDisk(f)

\* A load that will be sent reads f, or has read it as it is.
WillLoad(f) ==
  \E i \in DOMAIN tasks :
    /\ tasks[i].then # "peek" /\ AsOnDisk(f, tasks[i].got[f])
    /\ f \in tasks[i].files \/ (i = 1 /\ ~loaded)

\* The index has the text of f and the emit timer runs.
WillSend(f) ==
  emitTimer /\ index[f] # Never /\ AsOnDisk(f, index[f]) /\ ReadsAsOnDisk(f)

\* A flush has found f changed; or f is on its way to a flush and its hash is of
\* another text, so that it will be found changed.
WillBeNews(f) ==
  \/ \E w \in Flushers : f \in flushes[w].changed
  \/ /\ hashes[f] # disk[f].text
     /\ \/ f \in fsEvents \cup pending
        \/ \E w \in Flushers : \/ f \in flushes[w].todo
                               \/ flushes[w].at = f /\ flushes[w].text = disk[f].text

Told(f) == blind[f] \/ Shown(f) \/ WillLoad(f) \/ WillSend(f) \/ WillBeNews(f)

\* What came into a file since its mutation read it, the user's editor wrote.
ByHandSince ==
  \A f \in Files : run[f].stage # "idle" =>
    \A r \in Records(disk[f].text) : r \in Records(run[f].current) \/ r.by = Hand

\* Nothing is sent of an index that was never loaded.
LoadedFirst ==
  (emitTimer => loaded) /\ (loaded => \A f \in Files : index[f] # Never)

ToldInv == ByHandSince /\ LoadedFirst /\ \A f \in Files : Told(f)

LEMMA QuietIsKnown == IInv /\ ToldInv => QuietMeansKnown
<1> SUFFICES ASSUME IInv, ToldInv, NEW f \in Files, Quiet(f), ~blind[f], sent # Unread
             PROVE  sent[f].text = disk[f].text
  BY DEF QuietMeansKnown
<1>1. ~WillLoad(f) /\ ~WillSend(f) /\ ~WillBeNews(f)
  <2>1. DOMAIN tasks = {}
    BY DEF Quiet
  <2> QED BY <2>1 DEF Quiet, WillLoad, WillSend, WillBeNews
<1> QED BY <1>1 DEF ToldInv, Told, Shown

LEMMA ToldInit == Init => ToldInv
<1> SUFFICES ASSUME Init PROVE ToldInv
  OBVIOUS
<1>1. /\ \A f \in Files : run[f].stage = "idle" /\ index[f] = Never
      /\ ~loaded /\ ~emitTimer /\ sent = Unread /\ DOMAIN tasks = {}
  BY DEF Init, Idle, Unread
<1> QED BY <1>1 DEF ToldInv, ByHandSince, LoadedFirst, Told, Shown, AsOnDisk, ReadsAsOnDisk

-----------------------------------------------------------------------------
\* What the steps do to the queue of loads.

LEMMA Appended ==
  ASSUME Typed, NEW then \in {"emit", "peek", "plan"}, NEW files \in SUBSET Files,
         Refresh(then, files)
  PROVE  \E last \in DOMAIN tasks' :
           /\ tasks'[last] = [then |-> then, files |-> files, got |-> Unread]
           /\ \A i \in DOMAIN tasks : i \in DOMAIN tasks' /\ tasks'[i] = tasks[i]
           /\ \A i \in DOMAIN tasks' : i \in DOMAIN tasks \/ i = last
<1> DEFINE task == [then |-> then, files |-> files, got |-> Unread]
<1>1. tasks \in Seq(Load) /\ tasks' = Append(tasks, task)
  BY DEF Typed, TypeOK, IndexOK, Refresh
<1> HIDE DEF task
<1>2. /\ Len(tasks) \in Nat /\ DOMAIN tasks = 1..Len(tasks)
      /\ DOMAIN tasks' = 1..(Len(tasks) + 1) /\ tasks'[Len(tasks) + 1] = task
      /\ \A i \in 1..Len(tasks) : tasks'[i] = tasks[i]
  BY <1>1
<1>3. Len(tasks) + 1 \in DOMAIN tasks'
  BY <1>2
<1> QED BY <1>2, <1>3 DEF task

LEMMA LoadReadsChanges ==
  ASSUME Typed, NEW i \in DOMAIN tasks, NEW f \in Files, LoadReads(i, f)
  PROVE  /\ i = 1 /\ DOMAIN tasks' = DOMAIN tasks /\ disk[f] # Never
         /\ \A j \in DOMAIN tasks :
              /\ tasks'[j].then = tasks[j].then /\ tasks'[j].files = tasks[j].files
              /\ \A g \in Files : tasks'[j].got[g] = IF j = i /\ g = f THEN disk[f]
                                                     ELSE tasks[j].got[g]
<1>1. i = 1 /\ tasks' = [tasks EXCEPT ![i].got[f] = disk[f]]
  BY DEF LoadReads, Turn
<1>2. tasks \in Seq(Load) /\ tasks[i].got \in [Files -> Seen]
  BY TaskVersions DEF Typed, TypeOK, IndexOK
<1>3. /\ DOMAIN tasks' = DOMAIN tasks
      /\ \A j \in DOMAIN tasks : j # i => tasks'[j] = tasks[j]
      /\ tasks'[i].got = [tasks[i].got EXCEPT ![f] = disk[f]]
      /\ tasks'[i].then = tasks[i].then /\ tasks'[i].files = tasks[i].files
  <2>1. tasks[i] \in Load
    BY <1>2
  <2> QED BY <1>1, <1>2, <2>1 DEF Load
<1>4. disk[f] # Never
  BY SeenValues DEF Typed, TypeOK, FilesOK
<1> QED BY <1>1, <1>2, <1>3, <1>4

LEMMA LoadEndsChanges ==
  ASSUME Typed, NEW i \in DOMAIN tasks, LoadEnds(i)
  PROVE  /\ i = 1
         /\ \A f \in Files : /\ index'[f] = IF tasks[1].got[f] = Never THEN index[f]
                                            ELSE tasks[1].got[f]
                             /\ f \in tasks[1].files \/ ~loaded => tasks[1].got[f] # Never
         /\ \A j \in DOMAIN tasks' : j + 1 \in DOMAIN tasks /\ tasks'[j] = tasks[j + 1] /\ j + 1 # 1
         /\ \A j \in DOMAIN tasks : j # 1 => j - 1 \in DOMAIN tasks' /\ tasks'[j - 1] = tasks[j]
<1>1. i = 1 /\ tasks # <<>> /\ tasks' = RemoveAt(tasks, 1) /\ index' = Applied(tasks[1].got)
      /\ Todo(1) = {}
  BY DEF LoadEnds, Turn
<1>2. tasks \in Seq(Load)
  BY DEF Typed, TypeOK, IndexOK
<1>3. /\ Len(tasks') = Len(tasks) - 1 /\ tasks' \in Seq(Load)
      /\ \A k \in 1..(Len(tasks) - 1) : tasks'[k] = tasks[k + 1]
  BY <1>1, <1>2, HeadTaken
<1>4. DOMAIN tasks = 1..Len(tasks) /\ DOMAIN tasks' = 1..(Len(tasks) - 1) /\ Len(tasks) \in Nat
  BY <1>2, <1>3
<1>5. \A j \in 1..(Len(tasks) - 1) : j + 1 \in 1..Len(tasks) /\ j + 1 # 1
  BY <1>4
<1>6. \A j \in 1..Len(tasks) : j # 1 => j - 1 \in 1..(Len(tasks) - 1) /\ (j - 1) + 1 = j
  BY <1>4
<1>7. \A f \in Files : /\ index'[f] = IF tasks[1].got[f] = Never THEN index[f]
                                      ELSE tasks[1].got[f]
                       /\ f \in tasks[1].files \/ ~loaded => tasks[1].got[f] # Never
  BY <1>1 DEF Applied, Todo, Scope
<1> QED BY <1>1, <1>3, <1>4, <1>5, <1>6, <1>7

-----------------------------------------------------------------------------
\* A step that leaves alone what the index and the clients have of f, and f itself.
LEMMA ToldFrame ==
  ASSUME Typed, NEW f \in Files, Told(f),
         disk'[f] = disk[f], UNCHANGED <<index, sent, loaded, emitTimer>>,
         blind[f] => blind'[f],
         UNCHANGED tasks \/ \E then \in {"emit", "peek", "plan"}, files \in SUBSET Files : Refresh(then, files),
         WillBeNews(f) => WillBeNews(f)' \/ WillLoad(f)'
  PROVE  Told(f)'
<1>1. /\ \A i \in DOMAIN tasks : i \in DOMAIN tasks' /\ tasks'[i] = tasks[i]
      /\ \A i \in DOMAIN tasks' : i \in DOMAIN tasks \/ tasks'[i].got[f] = Never
  <2>1. CASE UNCHANGED tasks
    BY <2>1
  <2>2. CASE \E then \in {"emit", "peek", "plan"}, files \in SUBSET Files : Refresh(then, files)
    BY <2>2, Appended DEF Unread
  <2> QED BY <2>1, <2>2
<1>2. ReadsAsOnDisk(f) => ReadsAsOnDisk(f)'
  BY <1>1 DEF ReadsAsOnDisk, AsOnDisk
<1>3. Shown(f) => Shown(f)'
  BY <1>2 DEF Shown, AsOnDisk
<1>4. WillSend(f) => WillSend(f)'
  BY <1>2 DEF WillSend, AsOnDisk
<1>5. WillLoad(f) => WillLoad(f)'
  BY <1>1 DEF WillLoad, AsOnDisk
<1> QED BY <1>3, <1>4, <1>5 DEF Told

LEMMA LoadReadsTold ==
  ASSUME Typed, NEW i \in DOMAIN tasks, NEW g \in Files, LoadReads(i, g), NEW f \in Files, Told(f)
  PROVE  Told(f)'
<1>1. /\ i = 1 /\ DOMAIN tasks' = DOMAIN tasks
      /\ \A j \in DOMAIN tasks :
           /\ tasks'[j].then = tasks[j].then /\ tasks'[j].files = tasks[j].files
           /\ tasks'[j].got[f] = IF j = i /\ g = f THEN disk[f] ELSE tasks[j].got[f]
  BY LoadReadsChanges
<1>2. /\ UNCHANGED <<disk, index, sent, loaded, emitTimer, hashes, fsEvents, pending, flushes>>
      /\ blind' = IF tasks[i].then = "peek" THEN blind ELSE [blind EXCEPT ![g] = FALSE]
      /\ g \in Todo(i)
  BY DEF LoadReads, diskVars, sendVars, watchVars
<1>3. \A j \in DOMAIN tasks : AsOnDisk(f, tasks[j].got[f]) => AsOnDisk(f, tasks[j].got[f])'
  BY <1>1, <1>2 DEF AsOnDisk
<1>4. ReadsAsOnDisk(f) => ReadsAsOnDisk(f)'
  BY <1>1, <1>3 DEF ReadsAsOnDisk
<1>5. (Shown(f) => Shown(f)') /\ (WillSend(f) => WillSend(f)') /\ (WillBeNews(f) => WillBeNews(f)')
  BY <1>2, <1>4 DEF Shown, WillSend, WillBeNews, AsOnDisk
<1>6. WillLoad(f) => WillLoad(f)'
  BY <1>1, <1>2, <1>3 DEF WillLoad
<1>7. blind[f] => blind'[f] \/ WillLoad(f)'
  <2>1. CASE tasks[i].then = "peek" \/ f # g
    BY <1>2, <2>1 DEF Typed, TypeOK, WatchOK
  <2>2. CASE tasks[i].then # "peek" /\ f = g
    <3>1. tasks'[i].then # "peek" /\ tasks'[i].got[f] = disk[f]
      BY <1>1, <2>2
    <3>2. f \in tasks'[i].files \/ (i = 1 /\ ~loaded')
      BY <1>1, <1>2, <2>2 DEF Todo, Scope
    <3> QED BY <1>1, <1>2, <3>1, <3>2 DEF WillLoad, AsOnDisk
  <2> QED BY <2>1, <2>2
<1> QED BY <1>5, <1>6, <1>7 DEF Told

LEMMA LoadEndsTold ==
  ASSUME Typed, Ahead, LoadedFirst, NEW i \in DOMAIN tasks, LoadEnds(i), NEW f \in Files, Told(f)
  PROVE  Told(f)'
<1>1. /\ i = 1
      /\ index'[f] = IF tasks[1].got[f] = Never THEN index[f] ELSE tasks[1].got[f]
      /\ f \in tasks[1].files \/ ~loaded => tasks[1].got[f] # Never
      /\ \A j \in DOMAIN tasks' : j + 1 \in DOMAIN tasks /\ tasks'[j] = tasks[j + 1] /\ j + 1 # 1
      /\ \A j \in DOMAIN tasks : j # 1 => j - 1 \in DOMAIN tasks' /\ tasks'[j - 1] = tasks[j]
  BY LoadEndsChanges
<1>2. /\ UNCHANGED <<disk, hashes, fsEvents, pending, flushes, blind>> /\ loaded' = TRUE
      /\ emitTimer' = (emitTimer \/ tasks[1].then = "emit")
      /\ sent' = IF tasks[1].then = "plan" THEN index' ELSE sent
  BY <1>1 DEF LoadEnds, diskVars, watchVars
<1>3. index'[f] # Never
  BY <1>1 DEF LoadedFirst
<1>4. ReadsAsOnDisk(f)'
  <2>1. \A j \in DOMAIN tasks' : tasks'[j].got[f] = Never
    BY <1>1 DEF Ahead
  <2> QED BY <2>1 DEF ReadsAsOnDisk, AsOnDisk
<1>5. Shown(f) => Shown(f)'
  <2>1. Shown(f) => index'[f].text = disk[f].text
    BY <1>1, <1>3 DEF Shown, AsOnDisk, ReadsAsOnDisk
  <2> QED BY <1>2, <1>4, <2>1 DEF Shown, AsOnDisk
<1>6. WillSend(f) => WillSend(f)'
  <2>1. WillSend(f) => index'[f].text = disk[f].text
    BY <1>1, <1>3 DEF WillSend, AsOnDisk, ReadsAsOnDisk
  <2> QED BY <1>2, <1>3, <1>4, <2>1 DEF WillSend, AsOnDisk
<1>7. WillBeNews(f) => WillBeNews(f)'
  BY <1>2 DEF WillBeNews
<1>8. WillLoad(f) => WillLoad(f)' \/ WillSend(f)' \/ Shown(f)'
  <2> SUFFICES ASSUME NEW j \in DOMAIN tasks, tasks[j].then # "peek", AsOnDisk(f, tasks[j].got[f]),
                      f \in tasks[j].files \/ (j = 1 /\ ~loaded)
               PROVE  WillLoad(f)' \/ WillSend(f)' \/ Shown(f)'
    BY DEF WillLoad
  <2>1. CASE j = 1
    <3>1. index'[f].text = disk[f].text
      BY <1>1, <2>1 DEF AsOnDisk
    <3>2. tasks[1].then \in {"emit", "plan"}
      <4>1. tasks[j] \in Load
        BY DEF Typed, TypeOK, IndexOK
      <4> QED BY <2>1, <4>1 DEF Load
    <3> QED BY <1>2, <1>3, <1>4, <3>1, <3>2 DEF WillSend, Shown, AsOnDisk
  <2>2. CASE j # 1
    <3>1. j - 1 \in DOMAIN tasks' /\ tasks'[j - 1] = tasks[j]
      BY <1>1, <2>2
    <3> QED BY <1>2, <2>2, <3>1 DEF WillLoad, AsOnDisk
  <2> QED BY <2>1, <2>2
<1> QED BY <1>2, <1>5, <1>6, <1>7, <1>8 DEF Told

LEMMA EmitTold ==
  ASSUME Typed, LoadedFirst, Emit, NEW f \in Files, Told(f)
  PROVE  Told(f)'
<1>1. /\ sent' = index /\ index[f] # Never
      /\ UNCHANGED <<disk, index, tasks, loaded, hashes, fsEvents, pending, flushes, blind>>
  BY DEF Emit, LoadedFirst, diskVars, indexVars, watchVars
<1>2. Shown(f) \/ WillSend(f) => Shown(f)'
  BY <1>1 DEF Shown, WillSend, AsOnDisk, ReadsAsOnDisk
<1>3. (WillLoad(f) => WillLoad(f)') /\ (WillBeNews(f) => WillBeNews(f)')
  BY <1>1 DEF WillLoad, WillBeNews, AsOnDisk
<1> QED BY <1>1, <1>2, <1>3 DEF Told

\* Whatever leaves the files and what mutations have read alone.
LEMMA ByHandFrame ==
  ASSUME ByHandSince, UNCHANGED <<disk, run>>
  PROVE  ByHandSince'
BY DEF ByHandSince

LEMMA LoadedFrame ==
  ASSUME LoadedFirst, UNCHANGED <<loaded, index>>, emitTimer' => emitTimer
  PROVE  LoadedFirst'
BY DEF LoadedFirst

\* A step in which f and its hash, and its way to a flush, stay as they are.
LEMMA QueuesTold ==
  ASSUME Typed, NEW f \in Files, Told(f),
         disk'[f] = disk[f], hashes'[f] = hashes[f], blind[f] => blind'[f],
         UNCHANGED <<index, sent, loaded, emitTimer, pending, flushes>>, fsEvents \subseteq fsEvents',
         UNCHANGED tasks \/ \E then \in {"emit", "peek", "plan"}, files \in SUBSET Files : Refresh(then, files)
  PROVE  Told(f)'
<1>1. WillBeNews(f) => WillBeNews(f)'
  BY DEF WillBeNews
<1> QED BY <1>1, ToldFrame

\* The new text of a mutation is not the one its file has by now.
LEMMA MutateChangesTold ==
  ASSUME IInv, ToldInv, NEW g \in Files, MutateChanges(g)
  PROVE  ToldInv'
<1>1. /\ run[g].stage = "read" /\ waiting[g] # <<>>
      /\ UNCHANGED <<disk, loaded, index, sent, emitTimer, fsEvents, pending, flushes, blind>>
  BY DEF MutateChanges, IInv, Typed, TypeOK, FilesOK, sendVars, watchVars
<1>2. ByHandSince'
  <2>1. CASE Settled(g)
    <3>1. run'[g].stage = "idle" /\ \A h \in Files \ {g} : run'[h] = run[h]
      BY <1>1, <2>1, SettledTyped DEF IInv, Typed, TypeOK, Idle
    <3> QED BY <1>1, <3>1 DEF ToldInv, ByHandSince
  <2>2. CASE ~Settled(g)
    <3>1. run' = [run EXCEPT ![g].stage = "writing", ![g].next = Records(run[g].current) \cup {Added(g)}]
      BY <2>2 DEF MutateChanges
    <3>2. run'[g].current = run[g].current /\ \A h \in Files \ {g} : run'[h] = run[h]
      BY <3>1 DEF IInv, Typed, TypeOK, FilesOK
    <3> QED BY <1>1, <3>2 DEF ToldInv, ByHandSince
  <2> QED BY <2>1, <2>2
<1>3. LoadedFirst'
  BY <1>1, LoadedFrame DEF ToldInv
<1>4. UNCHANGED tasks \/ \E then \in {"emit", "peek", "plan"}, files \in SUBSET Files : Refresh(then, files)
  BY DEF MutateChanges
<1>5. ASSUME NEW f \in Files PROVE Told(f)'
  <2> DEFINE next == Records(run[g].current) \cup {Added(g)}
  <2>1. next # disk[g].text
    <3>1. /\ Added(g) \in Record /\ \A r \in Records(run[g].current) : r.id # Added(g).id
      BY <1>1, AddedIsNew DEF IInv
    <3>2. Added(g).by # Hand
      <4>1. waiting[g] \in Seq(Asks)
        BY DEF IInv, Typed, TypeOK, FilesOK
      <4>2. Head(waiting[g]).op \in Ops
        BY <1>1, <4>1, ConstantsAssumption DEF Ask
      <4> QED BY <4>2, ConstantsAssumption DEF Added
    <3>3. Added(g) \notin Records(disk[g].text)
      BY <1>1, <3>1, <3>2 DEF ToldInv, ByHandSince
    <3>4. next \in SUBSET Record
      BY <1>1, <3>1, RecordsOfText DEF IInv, Typed, TypeOK, FilesOK
    <3>5. Records(next) = next
      BY <3>4, RecordsOfRecords
    <3> QED BY <3>3, <3>5
  <2> HIDE DEF next
  <2>2. hashes'[f] = hashes[f] \/ hashes'[f] # disk[f].text
    <3>1. UNCHANGED hashes \/ hashes' = [hashes EXCEPT ![g] = next]
      BY DEF MutateChanges, next
    <3> QED BY <2>1, <3>1 DEF IInv, Typed, TypeOK, FilesOK
  <2>3. WillBeNews(f) => WillBeNews(f)'
    BY <1>1, <2>2 DEF WillBeNews
  <2> QED BY <1>1, <1>4, <2>3, ToldFrame DEF IInv, ToldInv
<1> QED BY <1>2, <1>3, <1>5 DEF ToldInv

LEMMA RenameLandsTold ==
  ASSUME IInv, ToldInv, NEW g \in Files, RenameLands(g)
  PROVE  ToldInv'
<1>1. /\ run[g].stage = "writing" /\ waiting[g] # <<>> /\ Settled(g) /\ Refresh("emit", {g})
      /\ Save(g, run[g].next) /\ run[g].next \in Text
      /\ UNCHANGED <<loaded, index, sent, emitTimer, hashes, pending, flushes, blind>>
  BY DEF RenameLands, IInv, Typed, TypeOK, FilesOK, sendVars
<1>2. \A h \in Files \ {g} : disk'[h] = disk[h]
  BY <1>1, SaveTyped DEF IInv, Typed, TypeOK
<1>3. ByHandSince'
  <2>1. run'[g].stage = "idle" /\ \A h \in Files \ {g} : run'[h] = run[h]
    BY <1>1, SettledTyped DEF IInv, Typed, TypeOK, Idle
  <2> QED BY <1>2, <2>1 DEF ToldInv, ByHandSince
<1>4. LoadedFirst'
  BY <1>1, LoadedFrame DEF ToldInv
<1>5. ASSUME NEW f \in Files PROVE Told(f)'
  <2>1. CASE f = g
    <3>1. PICK last \in DOMAIN tasks' : tasks'[last] = [then |-> "emit", files |-> {g}, got |-> Unread]
      BY <1>1, Appended DEF IInv
    <3>2. tasks'[last].then = "emit" /\ tasks'[last].files = {g} /\ tasks'[last].got[f] = Never
      BY <3>1 DEF Unread
    <3>3. WillLoad(f)'
      BY <2>1, <3>2 DEF WillLoad, AsOnDisk
    <3> QED BY <3>3 DEF Told
  <2>2. CASE f # g
    BY <1>1, <1>2, <2>2, QueuesTold DEF IInv, ToldInv, Save
  <2> QED BY <2>1, <2>2
<1> QED BY <1>3, <1>4, <1>5 DEF ToldInv

LEMMA WriteFailsTold ==
  ASSUME IInv, ToldInv, NEW g \in Files, WriteFails(g)
  PROVE  ToldInv'
<1>1. /\ run[g].stage = "writing" /\ waiting[g] # <<>> /\ Settled(g)
      /\ hashes' = [hashes EXCEPT ![g] = run[g].current]
      /\ blind' = [blind EXCEPT ![g] = @ \/ ~Agreed(g, run[g].current)]
      /\ UNCHANGED <<disk, loaded, index, tasks, sent, emitTimer, fsEvents, pending, flushes>>
  BY DEF WriteFails, IInv, Typed, TypeOK, FilesOK, indexVars, sendVars
<1>2. ByHandSince'
  <2>1. run'[g].stage = "idle" /\ \A h \in Files \ {g} : run'[h] = run[h]
    BY <1>1, SettledTyped DEF IInv, Typed, TypeOK, Idle
  <2> QED BY <1>1, <2>1 DEF ToldInv, ByHandSince
<1>3. LoadedFirst'
  BY <1>1, LoadedFrame DEF ToldInv
<1>4. ASSUME NEW f \in Files PROVE Told(f)'
  <2>1. CASE f = g /\ Agreed(g, run[g].current)
    <3>1. DOMAIN tasks = {} /\ sent[g].text = disk[g].text /\ index[g].text = disk[g].text
      <4> DEFINE text == run[g].current
      <4>1. tasks = <<>> /\ {disk[g].text, index[g].text, sent[g].text} = {text}
        BY <2>1 DEF Agreed
      <4>2. \A seen \in {disk[g].text, index[g].text, sent[g].text} : seen = text
        BY <4>1
      <4> QED BY <4>1, <4>2
    <3>2. Shown(g)'
      BY <1>1, <3>1 DEF Shown, AsOnDisk, ReadsAsOnDisk
    <3> QED BY <2>1, <3>2 DEF Told
  <2>2. CASE f = g /\ ~Agreed(g, run[g].current)
    <3>1. blind'[g]
      BY <1>1, <2>2 DEF IInv, Typed, TypeOK, WatchOK
    <3> QED BY <2>2, <3>1 DEF Told
  <2>3. CASE f # g
    <3>1. hashes'[f] = hashes[f] /\ blind'[f] = blind[f]
      BY <1>1, <2>3 DEF IInv, Typed, TypeOK, FilesOK, WatchOK
    <3> QED BY <1>1, <3>1, QueuesTold DEF IInv, ToldInv
  <2> QED BY <2>1, <2>2, <2>3
<1> QED BY <1>2, <1>3, <1>4 DEF ToldInv

LEMMA EditTold ==
  ASSUME IInv, ToldInv, NEW g \in Files, Edit(g)
  PROVE  ToldInv'
<1>1. /\ UNCHANGED <<hashes, run, loaded, index, tasks, sent, emitTimer, pending, flushes>>
      /\ blind' = [blind EXCEPT ![g] = @ \/ disk'[g].text = hashes[g]]
  BY DEF Edit, indexVars, sendVars
<1>2. disk[g].text \in Text /\ Records(disk[g].text) \in SUBSET Record
  BY RecordsOfText DEF IInv, Typed, TypeOK, FilesOK
<1> DEFINE new == [id |-> NextId(disk[g].text), by |-> Hand]
<1>3. PICK text : /\ Save(g, text)
                  /\ \A r \in Records(text) : r \in Records(disk[g].text) \/ r.by = Hand
  <2>1. CASE Save(g, Records(disk[g].text) \cup {new})
    <3>1. new \in Record /\ new.by = Hand
      BY <1>2, NextIdIsNew DEF Record, IInv, Typed, FiniteTexts
    <3> HIDE DEF new
    <3>2. Records(Records(disk[g].text) \cup {new}) = Records(disk[g].text) \cup {new}
      BY <1>2, <3>1, RecordsOfRecords
    <3> QED BY <2>1, <3>1, <3>2
  <2>2. CASE \E r \in Records(disk[g].text) : Save(g, disk[g].text \ {r})
    <3>1. PICK r \in Records(disk[g].text) : Save(g, disk[g].text \ {r})
      BY <2>2
    <3>2. disk[g].text = Records(disk[g].text)
      BY <3>1 DEF Records
    <3>3. Records(disk[g].text \ {r}) = disk[g].text \ {r}
      BY <1>2, <3>2, RecordsOfRecords
    <3> QED BY <3>1, <3>2, <3>3
  <2>3. CASE Save(g, NoFile)
    BY <2>3 DEF Records
  <2> QED BY <2>1, <2>2, <2>3 DEF Edit
<1>4. /\ disk'[g].text = text /\ \A h \in Files \ {g} : disk'[h] = disk[h]
      /\ fsEvents' = fsEvents \cup {g}
  BY <1>3 DEF Save, IInv, Typed, TypeOK, FilesOK
<1>5. ByHandSince'
  <2>1. ASSUME NEW h \in Files, NEW r \in Records(disk'[h].text)
        PROVE  r \in Records(disk[h].text) \/ r.by = Hand
    BY <1>3, <1>4, <2>1
  <2> QED BY <1>1, <2>1 DEF ToldInv, ByHandSince, Records
<1>6. LoadedFirst'
  BY <1>1, LoadedFrame DEF ToldInv
<1>7. ASSUME NEW f \in Files PROVE Told(f)'
  <2>1. CASE f = g
    <3>1. blind'[g] \/ disk'[g].text # hashes'[g]
      BY <1>1 DEF IInv, Typed, TypeOK, WatchOK
    <3>2. disk'[g].text # hashes'[g] => WillBeNews(g)'
      BY <1>4 DEF WillBeNews
    <3> QED BY <2>1, <3>1, <3>2 DEF Told
  <2>2. CASE f # g
    <3>1. blind'[f] = blind[f]
      BY <1>1, <2>2 DEF IInv, Typed, TypeOK, WatchOK
    <3> QED BY <1>1, <1>4, <2>2, <3>1, QueuesTold DEF IInv, ToldInv
  <2> QED BY <2>1, <2>2
<1> QED BY <1>5, <1>6, <1>7 DEF ToldInv

\* A step of the watcher: a file on its way to a flush stays on it.
LEMMA WatcherTold ==
  ASSUME IInv, ToldInv, UNCHANGED <<disk, run, loaded, index, sent, emitTimer, blind>>,
         UNCHANGED tasks \/ \E then \in {"emit", "peek", "plan"}, files \in SUBSET Files : Refresh(then, files),
         \A f \in Files : WillBeNews(f) => WillBeNews(f)' \/ WillLoad(f)'
  PROVE  ToldInv'
BY ToldFrame, ByHandFrame, LoadedFrame DEF IInv, ToldInv

LEMMA FlushBeginsTold ==
  ASSUME IInv, ToldInv, NEW w \in Flushers, FlushBegins(w)
  PROVE  ToldInv'
<1>1. /\ UNCHANGED <<disk, run, hashes, loaded, index, tasks, sent, emitTimer, blind, fsEvents>>
      /\ flushes[w] = NoFlush /\ flushes' = [flushes EXCEPT ![w].todo = pending]
  BY DEF FlushBegins, diskVars, indexVars, sendVars
<1>2. /\ \A v \in Flushers \ {w} : flushes'[v] = flushes[v]
      /\ flushes'[w].todo = pending
      /\ flushes[w].todo = {} /\ flushes[w].changed = {} /\ flushes[w].at = None
  BY <1>1 DEF IInv, Typed, TypeOK, WatchOK, Flush, NoFlush
<1>3. ASSUME NEW f \in Files, WillBeNews(f) PROVE WillBeNews(f)'
  <2>1. f # None
    BY ConstantsAssumption
  <2>2. \A v \in Flushers : /\ f \in flushes[v].changed => v # w
                            /\ f \in flushes[v].todo => v # w
                            /\ flushes[v].at = f => v # w
    BY <1>2, <2>1
  <2>3. (\E v \in Flushers : f \in flushes[v].changed) => \E v \in Flushers : f \in flushes'[v].changed
    BY <1>2, <2>2
  <2>4. (f \in pending \/ \E v \in Flushers : f \in flushes[v].todo) => \E v \in Flushers : f \in flushes'[v].todo
    BY <1>2, <2>2
  <2>5. (\E v \in Flushers : flushes[v].at = f /\ flushes[v].text = disk[f].text)
          => \E v \in Flushers : flushes'[v].at = f /\ flushes'[v].text = disk[f].text
    BY <1>2, <2>2
  <2> QED BY <1>1, <1>3, <2>3, <2>4, <2>5 DEF WillBeNews
<1> QED BY <1>1, <1>3, WatcherTold

LEMMA FlushReadsTold ==
  ASSUME IInv, ToldInv, NEW w \in Flushers, NEW g \in Files, FlushReads(w, g)
  PROVE  ToldInv'
<1>1. /\ UNCHANGED <<disk, run, hashes, loaded, index, tasks, sent, emitTimer, blind, fsEvents, pending>>
      /\ flushes[w].at = None
      /\ flushes' = [flushes EXCEPT ![w].todo = @ \ {g}, ![w].at = g, ![w].text = disk[g].text]
  BY DEF FlushReads, diskVars, indexVars, sendVars
<1>2. /\ \A v \in Flushers \ {w} : flushes'[v] = flushes[v]
      /\ flushes'[w].todo = flushes[w].todo \ {g} /\ flushes'[w].changed = flushes[w].changed
      /\ flushes'[w].at = g /\ flushes'[w].text = disk[g].text
  BY <1>1 DEF IInv, Typed, TypeOK, WatchOK, Flush
<1>3. ASSUME NEW f \in Files, WillBeNews(f) PROVE WillBeNews(f)'
  <2>1. f # None
    BY ConstantsAssumption
  <2>2. (\E v \in Flushers : f \in flushes[v].changed) => \E v \in Flushers : f \in flushes'[v].changed
    BY <1>2
  <2>3. ASSUME NEW v \in Flushers, f \in flushes[v].todo
        PROVE  f \in flushes'[v].todo \/ (flushes'[v].at = f /\ flushes'[v].text = disk[f].text)
    BY <1>2, <2>3
  <2>4. ASSUME NEW v \in Flushers, flushes[v].at = f, flushes[v].text = disk[f].text
        PROVE  flushes'[v].at = f /\ flushes'[v].text = disk[f].text
    BY <1>1, <1>2, <2>1, <2>4
  <2> QED BY <1>1, <1>3, <2>2, <2>3, <2>4 DEF WillBeNews
<1> QED BY <1>1, <1>3, WatcherTold

\* The comparison: what the file has still is found changed; the hash of what it
\* has no longer leaves the change to be found.
LEMMA FlushComparesTold ==
  ASSUME IInv, ToldInv, NEW w \in Flushers, FlushCompares(w)
  PROVE  ToldInv'
<1> DEFINE g == flushes[w].at
           text == flushes[w].text
<1>1. /\ flushes[w] \in Flush /\ g \in Files /\ hashes' = [hashes EXCEPT ![g] = text]
      /\ UNCHANGED <<disk, run, loaded, index, sent, emitTimer, blind, fsEvents, pending>>
  <2>1. flushes[w] \in Flush
    BY DEF IInv, Typed, TypeOK, WatchOK
  <2> QED BY <2>1 DEF FlushCompares, Flush, sendVars
<1>2. Changed(w) \in SUBSET Files
  BY <1>1 DEF Changed, News, Flush
<1>3. UNCHANGED tasks \/ \E then \in {"emit", "peek", "plan"}, files \in SUBSET Files : Refresh(then, files)
  BY <1>2 DEF FlushCompares
<1>4. \A v \in Flushers \ {w} : flushes'[v] = flushes[v]
  BY DEF FlushCompares, IInv, Typed, TypeOK, WatchOK
<1>5. flushes[w].todo # {} => flushes'[w].todo = flushes[w].todo /\ flushes'[w].changed = Changed(w)
  <2>1. flushes[w].todo # {} => flushes' = [flushes EXCEPT ![w].at = None, ![w].text = NoFile, ![w].changed = Changed(w)]
    BY DEF FlushCompares
  <2> QED BY <2>1 DEF IInv, Typed, TypeOK, WatchOK, Flush
<1>6. ASSUME NEW f \in Changed(w) PROVE WillBeNews(f)' \/ WillLoad(f)'
  <2>1. CASE flushes[w].todo # {}
    BY <1>5, <2>1 DEF WillBeNews
  <2>2. CASE flushes[w].todo = {}
    <3>1. Refresh("emit", Changed(w))
      BY <2>2 DEF FlushCompares
    <3>2. PICK last \in DOMAIN tasks' : tasks'[last] = [then |-> "emit", files |-> Changed(w), got |-> Unread]
      BY <1>2, <3>1, Appended DEF IInv
    <3>3. tasks'[last].then = "emit" /\ tasks'[last].files = Changed(w) /\ tasks'[last].got[f] = Never
      BY <1>2, <3>2 DEF Unread
    <3> QED BY <3>3 DEF WillLoad, AsOnDisk
  <2> QED BY <2>1, <2>2
<1>7. ASSUME NEW f \in Files, WillBeNews(f) PROVE WillBeNews(f)' \/ WillLoad(f)'
  <2>1. CASE f \in Changed(w)
    BY <1>6, <2>1
  <2>2. CASE f \notin Changed(w) /\ \E v \in Flushers : f \in flushes[v].changed
    BY <1>4, <2>2 DEF Changed, WillBeNews
  <2>3. CASE f \notin Changed(w) /\ ~\E v \in Flushers : f \in flushes[v].changed
    <3>1. hashes[f] # disk[f].text /\ ~(f = g /\ text = disk[f].text)
      BY <1>7, <2>3 DEF WillBeNews, Changed, News
    <3>2. hashes'[f] # disk'[f].text
      BY <1>1, <3>1 DEF IInv, Typed, TypeOK, FilesOK
    <3>3. ASSUME NEW v \in Flushers, f \in flushes[v].todo PROVE f \in flushes'[v].todo
      BY <1>4, <1>5, <3>3
    <3>4. ASSUME NEW v \in Flushers, flushes[v].at = f, flushes[v].text = disk[f].text
          PROVE  flushes'[v] = flushes[v]
      BY <1>4, <3>1, <3>4
    <3> QED BY <1>1, <1>7, <2>3, <3>2, <3>3, <3>4 DEF WillBeNews
  <2> QED BY <2>1, <2>2, <2>3
<1> QED BY <1>1, <1>3, <1>7, WatcherTold

LEMMA NextTold == IInv /\ Ahead /\ ToldInv /\ [Next]_vars => ToldInv'
<1> SUFFICES ASSUME IInv, Ahead, ToldInv, [Next]_vars PROVE ToldInv'
  OBVIOUS
<1>0. Typed /\ LoadedFirst /\ ByHandSince /\ \A f \in Files : Told(f)
  BY DEF IInv, ToldInv
<1>1. CASE Emit
  <2>1. UNCHANGED <<disk, run, loaded, index>> /\ ~emitTimer'
    BY <1>1 DEF Emit, diskVars, indexVars
  <2> QED BY <1>0, <1>1, <2>1, EmitTold, ByHandFrame, LoadedFrame DEF ToldInv
<1>2. CASE \E i \in DOMAIN tasks : LoadEnds(i)
  <2>1. PICK i \in DOMAIN tasks : LoadEnds(i)
    BY <1>2
  <2>2. UNCHANGED <<disk, run>> /\ loaded' = TRUE
    BY <2>1 DEF LoadEnds, diskVars
  <2>3. \A f \in Files : index'[f] # Never
    BY <1>0, <2>1, LoadEndsChanges DEF LoadedFirst
  <2>4. LoadedFirst'
    BY <2>2, <2>3 DEF LoadedFirst
  <2> QED BY <1>0, <2>1, <2>2, <2>4, LoadEndsTold, ByHandFrame DEF ToldInv
<1>3. CASE \E i \in DOMAIN tasks, f \in Files : LoadReads(i, f)
  <2>1. UNCHANGED <<disk, run, loaded, index, emitTimer>>
    BY <1>3 DEF LoadReads, diskVars, sendVars
  <2> QED BY <1>0, <1>3, <2>1, LoadReadsTold, ByHandFrame, LoadedFrame DEF ToldInv
<1>4. CASE \E then \in {"peek", "plan"} : Snapshot(then)
  <2>1. /\ UNCHANGED <<disk, run, hashes, loaded, index, sent, emitTimer, fsEvents, pending, flushes, blind>>
        /\ \E then \in {"emit", "peek", "plan"}, files \in SUBSET Files : Refresh(then, files)
    BY <1>4 DEF Snapshot, diskVars, sendVars, watchVars
  <2> QED BY <1>0, <2>1, QueuesTold, ByHandFrame, LoadedFrame DEF ToldInv
<1>5. CASE \E g \in Files : MutateReads(g)
  <2>1. PICK g \in Files : MutateReads(g)
    BY <1>5
  <2>2. /\ UNCHANGED <<disk, hashes, loaded, index, tasks, sent, emitTimer, fsEvents, pending, flushes, blind>>
        /\ run' = [run EXCEPT ![g] = [stage |-> "read", current |-> disk[g].text, next |-> NoFile]]
    BY <2>1 DEF MutateReads, indexVars, sendVars, watchVars
  <2>3. run'[g].current = disk[g].text /\ \A h \in Files \ {g} : run'[h] = run[h]
    BY <1>0, <2>2 DEF Typed, TypeOK, FilesOK
  <2>4. ByHandSince'
    BY <1>0, <2>2, <2>3 DEF ByHandSince
  <2> QED BY <1>0, <2>2, <2>4, QueuesTold, LoadedFrame DEF ToldInv
<1>6. CASE \E g \in Files : MutateChanges(g)
  BY <1>6, MutateChangesTold
<1>7. CASE \E g \in Files : RenameLands(g)
  BY <1>7, RenameLandsTold
<1>8. CASE \E g \in Files : WriteFails(g)
  BY <1>8, WriteFailsTold
<1>9. CASE \E g \in Files : Edit(g)
  BY <1>9, EditTold
<1>10. CASE \E g \in Files : Note(g)
  <2>1. /\ UNCHANGED <<disk, run, hashes, loaded, index, tasks, sent, emitTimer, flushes, blind>>
        /\ fsEvents \cup pending \subseteq fsEvents' \cup pending'
    BY <1>10 DEF Note, diskVars, indexVars, sendVars
  <2>2. \A f \in Files : WillBeNews(f) => WillBeNews(f)'
    BY <2>1 DEF WillBeNews
  <2> QED BY <2>1, <2>2, WatcherTold
<1>11. CASE \E a \in Asks : Request(a)
  <2>1. UNCHANGED <<disk, run, hashes, loaded, index, tasks, sent, emitTimer, fsEvents, pending, flushes, blind>>
    BY <1>11 DEF Request, indexVars, sendVars, watchVars
  <2> QED BY <1>0, <2>1, QueuesTold, ByHandFrame, LoadedFrame DEF ToldInv
<1>12. CASE \E w \in Flushers : FlushBegins(w)
  BY <1>12, FlushBeginsTold
<1>13. CASE \E w \in Flushers : FlushCompares(w)
  BY <1>13, FlushComparesTold
<1>14. CASE \E w \in Flushers, g \in Files : FlushReads(w, g)
  BY <1>14, FlushReadsTold
<1>15. CASE UNCHANGED vars
  <2>1. UNCHANGED <<disk, run, hashes, loaded, index, tasks, sent, emitTimer, fsEvents, pending, flushes, blind>>
    BY <1>15 DEF vars, diskVars, indexVars, sendVars, watchVars
  <2> QED BY <1>0, <2>1, QueuesTold, ByHandFrame, LoadedFrame DEF ToldInv
<1> QED BY <1>1, <1>2, <1>3, <1>4, <1>5, <1>6, <1>7, <1>8, <1>9, <1>10, <1>11, <1>12,
           <1>13, <1>14, <1>15 DEF Next

\* However many flushes of the watcher overlap, and however they race the store's own
\* writes and loads: when all is through, clients show each file as it is, but for one
\* whose hash hides its last change.
THEOREM QuietIsTold == Spec => []QuietMeansKnown
<1>1. Spec => [](IInv /\ Ahead)
  BY IInvAlways, AheadInit, NextAhead, PTL DEF Spec
<1>2. Init => ToldInv
  BY ToldInit
<1>3. IInv /\ Ahead /\ ToldInv /\ [Next]_vars => ToldInv'
  BY NextTold
<1>4. IInv /\ ToldInv => QuietMeansKnown
  BY QuietIsKnown
<1> QED BY <1>1, <1>2, <1>3, <1>4, PTL DEF Spec
=============================================================================
