----------------------------- MODULE PlanStore -----------------------------
(***************************************************************************)
(* The plan of a repository: markdown files that Octoplan and the user     *)
(* both edit.  A store serialises its read-change-write cycles per file,   *)
(* keeps an index it re-reads, watches the folder for edits that are not   *)
(* its own, and tells its listeners.  A plan file is a set of records.     *)
(***************************************************************************)
EXTENDS Integers, SequencesExt

CONSTANTS
  Files,       \* the indexed plan files
  Ops,         \* names of mutations
  Asks,        \* the mutations that may be asked of the store
  Edited,      \* the files the user edits
  Start,       \* the texts the files may have at the start
  Hand,        \* the author of a record written in an editor
  None,
  Flushers,    \* flushes of the watcher that may be under way at once
  MaxTurns     \* bound: saves in an editor, failed writes and snapshots in all

Ask == [op: Ops, file: Files]
Record == [id: Nat \ {0}, by: Ops \cup {Hand}]

\* The text of a missing file, which is no set of records; also a hash not known.
NoFile == {None}

ASSUME ConstantsAssumption ==
  /\ Asks \subseteq Ask /\ Edited \subseteq Files
  /\ Start \subseteq [Files -> {NoFile} \cup SUBSET Record]
  /\ \A start \in Start, f \in Files : start[f] = NoFile \/ IsFiniteSet(start[f])
  /\ Hand \notin Ops /\ None \notin Files \cup Record
  /\ MaxTurns \in Nat

VARIABLES
  disk,       \* the files: text, and how often it changed (history)
  hashes,     \* KnownHashes: the text last written or seen, by file
  waiting,    \* FileWriter's queue of each file
  run,        \* its head: what it read, and then what it writes
  asked,      \* the mutations asked for so far
  kept,       \* records the store promised to have written (history)
  loaded,     \* PlanIndex.loaded
  index,      \* PlanIndex.parsed
  tasks,      \* PlanIndex.queue: who waits, files to read, what was read
  emitTimer,  \* the 20 ms timer of scheduleEmit
  sent,       \* what the listeners were last told
  fsEvents,   \* changes the file system has not reported yet
  pending, timer,  \* the watcher's paths and its debounce timer
  flushes,    \* the watcher's flushes
  turns,      \* counted against the bound
  blind       \* a file's hash says that nothing is left to report of it (history)

diskVars == <<disk, hashes, waiting, run, asked, kept>>
indexVars == <<loaded, index, tasks>>
sendVars == <<emitTimer, sent>>
watchVars == <<fsEvents, pending, timer, flushes>>
vars == <<diskVars, indexVars, sendVars, watchVars, turns, blind>>

Records(text) == IF text = NoFile THEN {} ELSE text

\* nextId: one past the greatest id in the text.
NextId(text) == Max({r.id : r \in Records(text)} \cup {0}) + 1

Idle == [stage |-> "idle", current |-> NoFile, next |-> NoFile]
NoFlush == [todo |-> {}, at |-> None, text |-> NoFile, changed |-> {}]
Never == [text |-> NoFile, ver |-> -1]
Unread == [f \in Files |-> Never]

Init ==
  /\ \E start \in Start : disk = [f \in Files |-> [text |-> start[f], ver |-> 0]]
  /\ hashes = [f \in Files |-> NoFile]
  /\ waiting = [f \in Files |-> <<>>] /\ run = [f \in Files |-> Idle]
  /\ asked = {} /\ kept = {}
  /\ loaded = FALSE /\ index = Unread
  /\ tasks = <<>>
  /\ emitTimer = FALSE /\ sent = Unread
  /\ fsEvents = {} /\ pending = {} /\ timer = FALSE
  /\ flushes = [w \in Flushers |-> NoFlush]
  /\ turns = 0
  /\ blind = [f \in Files |-> FALSE]

-----------------------------------------------------------------------------
\* The index's queue.

\* Slip: a partial load leaves the rest unread for ever.
Scope_Partial(files) == files

\* What a load re-reads: every file the first time, then what was asked for.
Scope(files) == IF loaded THEN files ELSE Files

\* PlanIndex.refresh: queued behind the loads before it.
Refresh(then, files) ==
  tasks' = Append(tasks, [then |-> then, files |-> files, got |-> Unread])

\* Slip: loads are not serialised.
Turn_Any(i) == i \in DOMAIN tasks

\* serialized: a load runs when those before it have ended.
Turn(i) == i = 1 /\ tasks # <<>>

\* The files a load has still to read.
Todo(i) == {f \in Scope(tasks[i].files) : tasks[i].got[f] = Never}

\* One of the reads of a load returns; they are under way together.  What is
\* read for a refresh or a plan event will also be sent.
LoadReads(i, f) ==
  /\ Turn(i) /\ f \in Todo(i)
  /\ tasks' = [tasks EXCEPT ![i].got[f] = disk[f]]
  /\ blind' = IF tasks[i].then = "peek" THEN blind ELSE [blind EXCEPT ![f] = FALSE]
  /\ UNCHANGED <<diskVars, loaded, index, sendVars, watchVars, turns>>

\* What a load read replaces what the index had of those files.
Applied(got) == [f \in Files |-> IF got[f] = Never THEN index[f] ELSE got[f]]

\* The last read is in: the load is applied as a whole and its waiter goes on.
\* A refresh schedules an emit, a plan event is sent at once, a peek is an
\* operation's own look at the plan.
LoadEnds(i) ==
  /\ Turn(i) /\ Todo(i) = {}
  /\ index' = Applied(tasks[i].got) /\ loaded' = TRUE
  /\ tasks' = RemoveAt(tasks, i)
  /\ emitTimer' = (emitTimer \/ tasks[i].then = "emit")
  /\ sent' = IF tasks[i].then = "plan" THEN index' ELSE sent
  /\ UNCHANGED <<diskVars, watchVars, turns, blind>>

\* snapshot(), for a plan event or for a look at the plan.
Snapshot(then) ==
  /\ turns < MaxTurns /\ turns' = turns + 1
  /\ Refresh(then, Files)
  /\ UNCHANGED <<diskVars, loaded, index, sendVars, watchVars, blind>>

\* The emit timer fires: listeners get the index as it is now.
Emit ==
  /\ emitTimer /\ emitTimer' = FALSE /\ sent' = index
  /\ UNCHANGED <<diskVars, indexVars, watchVars, turns, blind>>

-----------------------------------------------------------------------------
\* The writer.

\* A file changes and the file system will report it.
Save(f, text) ==
  /\ disk' = [disk EXCEPT ![f] = [text |-> text, ver |-> @.ver + 1]]
  /\ fsEvents' = fsEvents \cup {f}

\* A mutation is asked for and queued.
Request(a) ==
  /\ a \notin asked /\ asked' = asked \cup {a}
  /\ waiting' = [waiting EXCEPT ![a.file] = Append(@, a)]
  /\ UNCHANGED <<disk, hashes, run, kept, indexVars, sendVars, watchVars, turns, blind>>

\* Slip: the file is made again from memory.
MutateReads_FromIndex(f) ==
  /\ waiting[f] # <<>> /\ run[f].stage = "idle"
  /\ run' = [run EXCEPT ![f] = [stage |-> "read", current |-> index[f].text, next |-> NoFile]]
  /\ UNCHANGED <<disk, hashes, waiting, asked, kept, indexVars, sendVars, watchVars, turns, blind>>

\* The head of the queue reads its file, once the write before it has settled.
MutateReads(f) ==
  /\ waiting[f] # <<>> /\ run[f].stage = "idle"
  /\ run' = [run EXCEPT ![f] = [stage |-> "read", current |-> disk[f].text, next |-> NoFile]]
  /\ UNCHANGED <<disk, hashes, waiting, asked, kept, indexVars, sendVars, watchVars, turns, blind>>

\* upsertItem of a new record.
Added(f) == [id |-> NextId(run[f].current), by |-> Head(waiting[f]).op]

\* A mutation settles, whichever way, and the next of its file may start.
Settled(f) ==
  /\ waiting' = [waiting EXCEPT ![f] = Tail(@)]
  /\ run' = [run EXCEPT ![f] = Idle]

\* The change is computed from what was read.  It may turn out empty, as
\* addHarvest's with known titles, and is done; else the hash of the new text
\* is recorded and the text goes to a temporary file.
MutateChanges(f) ==
  /\ run[f].stage = "read"
  /\ \/ /\ Settled(f) /\ Refresh("emit", {f})
        /\ UNCHANGED hashes
     \/ LET next == Records(run[f].current) \cup {Added(f)} IN
          /\ hashes' = [hashes EXCEPT ![f] = next]
          /\ run' = [run EXCEPT ![f].stage = "writing", ![f].next = next]
          /\ UNCHANGED <<waiting, tasks>>
  /\ UNCHANGED <<disk, asked, kept, loaded, index, sendVars, watchVars, turns, blind>>

\* The temporary file is renamed over the file; the caller's afterWrite
\* re-reads it.
RenameLands(f) ==
  /\ run[f].stage = "writing"
  /\ Save(f, run[f].next)
  /\ kept' = kept \cup {<<f, Added(f)>>}
  /\ Settled(f) /\ Refresh("emit", {f})
  /\ UNCHANGED <<hashes, asked, loaded, index, sendVars,
       pending, timer, flushes, turns, blind>>

\* Clients, the index and the file agree on a text and no load is under way.
Agreed(f, text) ==
  /\ tasks = <<>> /\ sent[f] # Never
  /\ {disk[f].text, index[f].text, sent[f].text} = {text}

\* The rename fails for good: the hash goes back to what was read, the caller
\* gets the error and nothing is re-read.  The watcher takes what was read for
\* known, which blinds it if the clients do not know it or the file went on.
WriteFails(f) ==
  /\ turns < MaxTurns /\ turns' = turns + 1
  /\ run[f].stage = "writing"
  /\ hashes' = [hashes EXCEPT ![f] = run[f].current]
  /\ blind' = [blind EXCEPT ![f] = @ \/ ~Agreed(f, run[f].current)]
  /\ Settled(f)
  /\ UNCHANGED <<disk, asked, kept, indexVars, sendVars,
       fsEvents, pending, timer, flushes>>

-----------------------------------------------------------------------------
\* The user's editor adds a record, takes one out or deletes the file.  Nobody
\* hears of it when it takes the file back to what the hash says: the deletion
\* of a file not seen before, and an edit undone before the watcher saw it,
\* which the index may have read meanwhile.
Edit(f) ==
  /\ f \in Edited
  /\ turns < MaxTurns /\ turns' = turns + 1
  /\ \/ Save(f, Records(disk[f].text) \cup {[id |-> NextId(disk[f].text), by |-> Hand]})
     \/ \E r \in Records(disk[f].text) : Save(f, disk[f].text \ {r})
     \/ disk[f].text # NoFile /\ Save(f, NoFile)
  /\ kept' = {k \in kept : k[1] = f => k[2] \in Records(disk'[f].text)}
  /\ blind' = [blind EXCEPT ![f] = @ \/ disk'[f].text = hashes[f]]
  /\ UNCHANGED <<hashes, waiting, run, asked, indexVars, sendVars,
       pending, timer, flushes>>

-----------------------------------------------------------------------------
\* The watcher.

\* note: the path is remembered and the debounce timer set again.
Note(f) ==
  /\ f \in fsEvents /\ fsEvents' = fsEvents \ {f}
  /\ pending' = pending \cup {f} /\ timer' = TRUE
  /\ UNCHANGED <<diskVars, indexVars, sendVars, flushes, turns, blind>>

\* The debounce timer fires and a flush takes the paths, whether or not an
\* earlier flush is still reading.
FlushBegins(w) ==
  /\ timer /\ timer' = FALSE
  /\ flushes[w] = NoFlush
  /\ flushes' = [flushes EXCEPT ![w].todo = pending] /\ pending' = {}
  /\ UNCHANGED <<diskVars, indexVars, sendVars, fsEvents, turns, blind>>

\* A flush reads one path.
FlushReads(w, f) ==
  /\ f \in flushes[w].todo /\ flushes[w].at = None
  /\ flushes' = [flushes EXCEPT ![w].todo = @ \ {f}, ![w].at = f, ![w].text = disk[f].text]
  /\ UNCHANGED <<diskVars, indexVars, sendVars, fsEvents, pending, timer, turns, blind>>

\* Text that the store wrote or the watcher saw is not news.
News(w) == IF flushes[w].text = hashes[flushes[w].at] THEN {} ELSE {flushes[w].at}

\* Slip: only the last path of a flush is looked at.
Changed_LastOnly(w) == News(w)

\* The paths of a flush found changed so far.
Changed(w) == flushes[w].changed \cup News(w)

\* What was read is compared with the hash known by now.  After the last path
\* onExternalChange refreshes the index with the changed ones.
FlushCompares(w) ==
  LET f == flushes[w].at IN
  /\ f # None
  /\ hashes' = [hashes EXCEPT ![f] = flushes[w].text]
  /\ IF flushes[w].todo # {}
       THEN /\ flushes' = [flushes EXCEPT ![w].at = None, ![w].text = NoFile, ![w].changed = Changed(w)]
            /\ UNCHANGED tasks
       ELSE /\ flushes' = [flushes EXCEPT ![w] = NoFlush]
            /\ IF Changed(w) = {} THEN UNCHANGED tasks ELSE Refresh("emit", Changed(w))
  /\ UNCHANGED <<disk, waiting, run, asked, kept, loaded, index, sendVars,
       fsEvents, pending, timer, turns, blind>>

-----------------------------------------------------------------------------
Next ==
  \/ Emit
  \/ \E i \in DOMAIN tasks :
       LoadEnds(i) \/ \E f \in Files : LoadReads(i, f)
  \/ \E then \in {"peek", "plan"} : Snapshot(then)
  \/ \E f \in Files :
       \/ MutateReads(f) \/ MutateChanges(f)
       \/ RenameLands(f) \/ WriteFails(f) \/ Edit(f) \/ Note(f)
  \/ \E a \in Asks : Request(a)
  \/ \E w \in Flushers :
       FlushBegins(w) \/ FlushCompares(w) \/ \E f \in Files : FlushReads(w, f)

Spec == Init /\ [][Next]_vars

\* Reads, timers and file events are eventually served.  Nothing is assumed of
\* the user, of Claude, or of writes being successful.
Fairness ==
  /\ WF_vars(LoadEnds(1)) /\ WF_vars(Emit)
  /\ \A f \in Files :
       /\ WF_vars(LoadReads(1, f)) /\ WF_vars(Note(f)) /\ WF_vars(MutateReads(f))
       /\ WF_vars(MutateChanges(f)) /\ WF_vars(RenameLands(f))
  /\ \A w \in Flushers :
       /\ WF_vars(FlushBegins(w)) /\ WF_vars(FlushCompares(w))
       /\ \A f \in Files : WF_vars(FlushReads(w, f))

FairSpec == Spec /\ Fairness
-----------------------------------------------------------------------------
Text == {NoFile} \cup SUBSET Record
Seen == [text: Text, ver: Nat \cup {-1}]
Load == [then: {"emit", "peek", "plan"}, files: SUBSET Files, got: [Files -> Seen]]
Flush == [todo: SUBSET Files, at: Files \cup {None}, text: Text, changed: SUBSET Files]

FilesOK ==
  /\ disk \in [Files -> [text: Text, ver: Nat]]
  /\ hashes \in [Files -> Text]
  /\ waiting \in [Files -> Seq(Asks)]
  /\ run \in [Files -> [stage: {"idle", "read", "writing"}, current: Text, next: Text]]
  /\ \A f \in Files : run[f].stage # "idle" => waiting[f] # <<>>
  /\ asked \subseteq Asks /\ kept \subseteq Files \X Record

IndexOK ==
  /\ tasks \in Seq(Load)
  /\ index \in [Files -> Seen] /\ sent \in [Files -> Seen]
  /\ loaded \in BOOLEAN /\ emitTimer \in BOOLEAN

WatchOK ==
  /\ fsEvents \subseteq Files /\ pending \subseteq Files /\ timer \in BOOLEAN
  /\ flushes \in [Flushers -> Flush]
  /\ blind \in [Files -> BOOLEAN]
  /\ turns \in 0..MaxTurns

TypeOK == FilesOK /\ IndexOK /\ WatchOK

\* Two plan tools firing together see each other's result: what the store said
\* it wrote stays in its file through every later write, whatever writes fail
\* and whatever the user saves meanwhile, until the user takes it out.
AddedItemsStay == \A k \in kept : k[2] \in Records(disk[k[1]].text)

\* No two items the store added to a file share an id, unless the user took out
\* the one that had it.
IdsAreUnique ==
  \A k, l \in kept : k[1] = l[1] /\ k[2].id = l[2].id => k = l

\* Nothing of the store is under way that could still tell of f.
Quiet(f) ==
  /\ f \notin fsEvents \cup pending /\ tasks = <<>> /\ ~emitTimer
  /\ waiting[f] = <<>>
  /\ \A w \in Flushers : f \notin flushes[w].todo \cup flushes[w].changed \cup {flushes[w].at}

\* Once the timers and reads about a file are through, clients show the file as
\* it is, whether the store or an editor changed it last and however both
\* raced the watcher's hashes; but for a change that blind tells of.
QuietMeansKnown ==
  \A f \in Files :
    Quiet(f) /\ ~blind[f] /\ sent # Unread => sent[f].text = disk[f].text

\* A slow read of old content never lands after a newer one: the index and the
\* plan the clients show only move forwards through the history of a file.
PlanNeverGoesBack ==
  [][\A f \in Files : index'[f].ver >= index[f].ver /\ sent'[f].ver >= sent[f].ver]_vars

\* A hand edit reaches the listeners: the files come to rest and clients show
\* them, but for what blind tells of.
EditsReachListeners ==
  \A f \in Files : <>[](blind[f] \/ sent = Unread \/ sent[f].text = disk[f].text)

\* docs/octoplan/tentacles/store/CONTEXT.md: a hand edit "reaches `onChange`
\* listeners".  Not so: what the watcher takes for known includes the deletion of
\* a file not seen before, an edit undone, and what a failed write had read.
HandEditsAreSeen ==
  \A f \in Files : Quiet(f) /\ sent # Unread => sent[f].text = disk[f].text

\* docs/octoplan/tentacles/store/CONTEXT.md: "Hand edits win."  Not so: an edit
\* saved between the read and the rename of the store's own write is overwritten.
HandEditsWin ==
  [][\A f \in Files : run[f].stage = "writing" /\ disk'[f] # disk[f] /\ disk'[f].text = run[f].next
       => {r \in Records(disk[f].text) : r.by = Hand} \subseteq disk'[f].text]_vars
=============================================================================
