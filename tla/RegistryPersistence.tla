------------------------ MODULE RegistryPersistence ------------------------
(***************************************************************************)
(* The writer of the terminal registry file: every change of the registry  *)
(* is serialised and scheduled, a debounce timer starts a write loop, the  *)
(* loop writes what is pending until nothing is, and a graceful stop       *)
(* flushes.  The state of the registry is one value; its contents are      *)
(* TerminalRuntime's subject.                                              *)
(***************************************************************************)
CONSTANTS
  Value,   \* serialised registry states
  Torn,    \* the contents of a file whose write was cut short
  None     \* null

ASSUME ConstantsAssumption == Torn \notin Value /\ None \notin Value /\ Torn # None

VARIABLES
  phase,    \* "up", "closing" (flush awaited), "exiting" (flush resolved), "down"
  mem,      \* the registry in memory, as it would be serialised
  pending,  \* pendingSerialized
  timer,    \* a debounce timer is set
  loop,     \* the write loop: "idle", "writing", "settling"
  writing,  \* what the loop is writing
  last,     \* lastPersistedSerialized
  file,     \* the contents of the registry file
  failed,   \* a write of this process failed (history)
  late      \* the registry changed after the stop began (history)

vars == <<phase, mem, pending, timer, loop, writing, last, file, failed, late>>

Phase == {"up", "closing", "exiting", "down"}

Init ==
  /\ phase = "up"
  /\ mem \in Value /\ file = mem
  /\ pending = None /\ timer = FALSE
  /\ loop = "idle" /\ writing = None /\ last = None
  /\ failed = FALSE /\ late = FALSE

-----------------------------------------------------------------------------
\* Slip: what waits for the timer is not looked at.
Redundant_NoQueue(v) == loop = "idle" /\ v = last

\* schedulePersist returns early when the state is already queued, or is what
\* the last write put there and nothing is on its way.
Redundant(v) == v = pending \/ (pending = None /\ loop = "idle" /\ v = last)

SchedulePersist(v) ==
  IF Redundant(v) THEN UNCHANGED <<pending, timer>>
                  ELSE pending' = v /\ timer' = TRUE

\* A request, a hook or a session's end changes the registry.  The server takes
\* requests until it exits: stop() closes the runtime before the HTTP server.
Mutate(v) ==
  /\ phase # "down"
  /\ mem' = v
  /\ SchedulePersist(v)
  /\ late' = (late \/ phase # "up")
  /\ UNCHANGED <<phase, loop, writing, last, file, failed>>

\* Slip: it does not matter whether a loop runs.
RunWriteLoop_Parallel(p) ==
  IF p # None
  THEN loop' = "writing" /\ writing' = p /\ pending' = None
  ELSE pending' = p /\ UNCHANGED <<loop, writing>>

\* The loop takes p, when it is not running and there is something to write.
RunWriteLoop(p) ==
  IF loop = "idle" /\ p # None
  THEN loop' = "writing" /\ writing' = p /\ pending' = None
  ELSE pending' = p /\ UNCHANGED <<loop, writing>>

\* Timers and signals are tasks of their own: they never run between the end of
\* the loop and its finally callback, which are microtasks.
DebounceFires ==
  /\ timer /\ loop # "settling" /\ phase # "down"
  /\ timer' = FALSE
  /\ RunWriteLoop(pending)
  /\ UNCHANGED <<phase, mem, last, file, failed, late>>

\* The while of the write loop: another round, or out.
NextWrite ==
  IF pending # None
  THEN loop' = "writing" /\ writing' = pending /\ pending' = None
  ELSE loop' = "settling" /\ writing' = None /\ UNCHANGED pending

WriteSucceeds ==
  /\ loop = "writing" /\ phase # "down"
  /\ file' = writing /\ last' = writing
  /\ NextWrite
  /\ UNCHANGED <<phase, mem, timer, failed, late>>

\* A failed write is logged and not retried; writeFile may have truncated.
WriteFails ==
  /\ loop = "writing" /\ phase # "down"
  /\ file' \in {file, Torn} /\ failed' = TRUE
  /\ NextWrite
  /\ UNCHANGED <<phase, mem, timer, last, late>>

\* The finally callback: the promise flush awaits is this one, and a loop it
\* starts anew is not awaited.
LoopSettles ==
  /\ loop = "settling" /\ phase # "down"
  /\ IF pending # None
     THEN loop' = "writing" /\ writing' = pending /\ pending' = None
     ELSE loop' = "idle" /\ UNCHANGED <<writing, pending>>
  /\ phase' = IF phase = "closing" THEN "exiting" ELSE phase
  /\ UNCHANGED <<mem, timer, last, file, failed, late>>

\* Slip: close drops the timer and does not flush.
Close_NoFlush(v) ==
  /\ phase = "up" /\ loop # "settling"
  /\ mem' = v
  /\ pending' = IF Redundant(v) THEN pending ELSE v
  /\ timer' = FALSE /\ phase' = "exiting"
  /\ UNCHANGED <<loop, writing, last, file, failed, late>>

\* close(): ending the sessions leaves the registry at v, which is scheduled
\* and flushed at once.
Close(v) ==
  /\ phase = "up" /\ loop # "settling"
  /\ mem' = v
  /\ LET p == IF Redundant(v) THEN pending ELSE v
     IN  /\ RunWriteLoop(p)
         /\ phase' = IF loop = "idle" /\ p = None THEN "exiting" ELSE "closing"
  /\ timer' = FALSE
  /\ UNCHANGED <<last, file, failed, late>>

\* The process is gone, with what it had not written; a write under way leaves
\* the old contents, the new, or a torn file.
GoDown ==
  /\ phase' = "down"
  /\ file' \in IF writing # None THEN {file, writing, Torn} ELSE {file}
  /\ pending' = None /\ timer' = FALSE /\ loop' = "idle" /\ writing' = None
  /\ last' = None
  /\ UNCHANGED <<mem, failed, late>>

Exit  == phase = "exiting" /\ GoDown
Crash == phase # "down" /\ GoDown

\* loadTerminalRegistry throws on a torn file.  reconcilePersistedLifecycle may
\* turn what was read into another state v, and schedules it.
Start(v) ==
  /\ phase = "down" /\ file # Torn
  /\ phase' = "up" /\ mem' = v
  /\ IF v = file THEN UNCHANGED <<pending, timer>>
                 ELSE pending' = v /\ timer' = TRUE
  /\ failed' = FALSE /\ late' = FALSE
  /\ UNCHANGED <<loop, writing, last, file>>

-----------------------------------------------------------------------------
Next ==
  \/ \E v \in Value : Mutate(v) \/ Close(v) \/ Start(v)
  \/ DebounceFires \/ WriteSucceeds \/ WriteFails \/ LoopSettles
  \/ Exit \/ Crash

Spec == Init /\ [][Next]_vars

\* Node fires the timer and finishes the writes and callbacks it has begun; a
\* write ends one way or the other.
Fairness ==
  /\ WF_vars(DebounceFires)
  /\ WF_vars(WriteSucceeds \/ WriteFails)
  /\ WF_vars(LoopSettles)

FairSpec == Spec /\ Fairness

-----------------------------------------------------------------------------
TypeOK ==
  /\ phase \in Phase
  /\ mem \in Value
  /\ pending \in Value \cup {None}
  /\ timer \in BOOLEAN
  /\ loop \in {"idle", "writing", "settling"}
  /\ writing \in Value \cup {None}
  /\ last \in Value \cup {None}
  /\ file \in Value \cup {Torn}
  /\ failed \in BOOLEAN /\ late \in BOOLEAN

\* A scheduled state always has somebody who will write it: a timer, or the loop
\* that looks again before it ends.
NothingIsForgotten == pending # None => timer \/ loop # "idle"

\* Without a failed write, the newest of what is queued, being written and on
\* disk is the registry in memory: neither coalescing nor the early returns of
\* schedulePersist ever drop the latest state.
LatestIsOnItsWay ==
  (phase # "down" /\ ~failed) =>
    mem = IF pending # None THEN pending
          ELSE IF writing # None THEN writing
          ELSE file

\* A graceful stop whose writes work leaves on disk what the registry was when
\* the stop began.
GracefulStopIsDurable ==
  [][(Exit /\ phase = "exiting" /\ ~failed /\ ~late) => file' = mem]_vars

\* Once the registry stops changing and the process stays up with no failed
\* write, the file comes to hold it.
EventuallyOnDisk ==
  (<>[][mem' = mem /\ phase' = phase]_vars /\ [](phase = "up" => ~failed))
    => <>[](phase = "up" => file = mem)

\* The writer implements the write-behind register.
WB == INSTANCE WriteBehind WITH
        snap <- IF writing # None THEN writing ELSE file, disk <- file

RefinesWriteBehind == WB!Spec

-----------------------------------------------------------------------------
\* docs/concepts/mental-model.md: "Terminal records survive API restarts."
StopKeepsTheRegistry == [][(Exit /\ ~failed) => file' = mem]_vars

\* docs/concepts/runtime-and-api.md: "file-backed state is the restart boundary
\* for terminal records".
CrashLeavesAReadableFile == (phase = "down" /\ ~failed) => file # Torn
=============================================================================
