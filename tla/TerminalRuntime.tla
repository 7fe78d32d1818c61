-------------------------- MODULE TerminalRuntime --------------------------
(***************************************************************************)
(* The terminal runtime of the Octogent API server: the registry of        *)
(* terminals, the PTY sessions that run them, the WebSocket clients and    *)
(* direct listeners attached to a session, and the timers that close an    *)
(* idle session or type its initial prompt.  Node runs one handler at a    *)
(* time, so an action is one whole handler; what interleaves is requests,  *)
(* socket callbacks, PTY exits, hooks and timers.                          *)
(*                                                                         *)
(* A session is an object on a heap, not a slot of the sessions map: the   *)
(* callbacks of a socket, a listener or a timeout keep the object they     *)
(* closed over, and may run after the map holds a successor.               *)
(***************************************************************************)
EXTENDS Naturals, FiniteSets, Sequences

CONSTANTS
  Terminal,       \* the terminal ids
  Client,         \* WebSocket clients of terminals
  Listener,       \* in-process direct listeners
  SessionId,      \* the session objects one behaviour may create (a bound)
  TimerHandle,    \* what setTimeout returns, unique among one session's timeouts
  None,           \* undefined / no entry
  Starters,       \* what a created terminal starts with: "none", "draft", "prompt"
  WorktreeModes,  \* workspace modes used: TRUE is "worktree", FALSE is "shared"
  Parents,        \* the parentTerminalId values that requests carry
  AskedIds,       \* the worktree or tentacle ids that requests carry, None for neither
  SessionLimit,   \* OCTOGENT_MAX_TERMINAL_SESSIONS
  MaxChildren     \* MAX_CHILDREN_PER_PARENT

ASSUME ConstantsAssumption ==
  /\ Starters \subseteq {"none", "draft", "prompt"}
  /\ WorktreeModes \subseteq BOOLEAN
  /\ Parents \subseteq Terminal \cup {None}
  /\ None \notin Terminal \cup SessionId \cup TimerHandle
  /\ Client \cap Listener = {}
  /\ SessionLimit \in Nat /\ MaxChildren \in Nat
  /\ IsFiniteSet(Terminal)

VARIABLES
  terminals,   \* the registry: one record per id, NoTerminal when unregistered
  sessions,    \* the sessions map: terminal id -> live session object
  session,     \* the session objects, closed ones included
  timeouts,    \* idle-close timeouts that Node still has pending
  attached,    \* the session object a socket or listener callback closed over
  worktrees    \* worktree id -> "absent", "directory" (and branch), or "branch" alone

vars == <<terminals, sessions, session, timeouts, attached, worktrees>>

Lifecycle == {"registered", "running", "stopped", "exited", "stale"}

WorktreeId == (Terminal \cup AskedIds) \ {None}

NoTerminal ==
  [lifecycle |-> "absent", parent |-> None, worktree |-> FALSE, starter |-> "none",
   effective |-> None, ahead |-> {}]

\* effective: worktreeId ?? tentacleId; ahead: the terminals with the same one
\* that come before it in the map, which keeps the order of insertion.
TerminalRecord ==
  [lifecycle : Lifecycle \cup {"absent"}, parent : Terminal \cup {None},
   worktree : BOOLEAN, starter : {"none", "draft", "prompt"},
   effective : WorktreeId \cup {None}, ahead : SUBSET Terminal]

SessionRecord ==
  [terminal : Terminal \cup {None}, state : {"unborn", "open", "closed"},
   cwd : WorktreeId \cup {None},   \* the worktree its shell started in, or the workspace
   clients : SUBSET Client, listeners : SUBSET Listener,
   keepAlive : BOOLEAN, starter : {"none", "draft", "prompt"},
   bootSent : BOOLEAN, starterSent : BOOLEAN,
   idleTimer : TimerHandle \cup {None},
   promptTimers : SUBSET {"paste", "submit", "draft"},
   written : Seq({"boot", "paste", "submit", "draft"})]

Unborn ==
  [terminal |-> None, state |-> "unborn", cwd |-> None, clients |-> {}, listeners |-> {},
   keepAlive |-> FALSE, starter |-> "none", bootSent |-> FALSE,
   starterSent |-> FALSE, idleTimer |-> None, promptTimers |-> {},
   written |-> << >>]

Init ==
  /\ terminals = [t \in Terminal |-> NoTerminal]
  /\ sessions  = [t \in Terminal |-> None]
  /\ session   = [s \in SessionId |-> Unborn]
  /\ timeouts  = {}
  /\ attached  = [c \in Client \cup Listener |-> None]
  /\ worktrees = [e \in WorktreeId |-> "absent"]

-----------------------------------------------------------------------------
(* Reading the maps.                                                       *)

Registered(t) == terminals[t].lifecycle # "absent"

Live == {t \in Terminal : sessions[t] # None}

Children(p) == {t \in Terminal : Registered(t) /\ terminals[t].parent = p}

\* sessions.get(session.terminalId) === session
Current(s) == session[s].terminal \in Terminal /\ sessions[session[s].terminal] = s

-----------------------------------------------------------------------------
(* Opening a session.                                                      *)

\* getTentacleWorkspaceCwd: the first terminal in the map with the record's
\* effective id, itself or one ahead of it, says by its mode where the shell runs.
InWorktree(record) ==
  IF record.ahead = {} THEN record.worktree
  ELSE \E first \in record.ahead : terminals[first].ahead = {} /\ terminals[first].worktree

\* Slip: the working directory is not looked at.
CanSpawn_NoDirectory(record, dirs) == Cardinality(Live) < SessionLimit

\* The checks of ensureSession before it spawns; the spawn itself may still
\* fail, which leaves everything as it was.
CanSpawn(record, dirs) ==
  /\ Cardinality(Live) < SessionLimit
  /\ InWorktree(record) => dirs[record.effective] = "directory"

\* The session object the handler works on: the live one, or a new one.
EnsureSession(t, s, record, dirs) ==
  \/ sessions[t] = s
  \/ sessions[t] = None /\ session[s].state = "unborn" /\ CanSpawn(record, dirs)

Spawned(t, record) ==
  [Unborn EXCEPT !.terminal = t, !.state = "open",
                 !.cwd = IF InWorktree(record) THEN record.effective ELSE None,
                 !.keepAlive = (record.starter = "prompt"),
                 !.starter = record.starter]

Ensured(t, s, record) == IF sessions[t] = s THEN session[s] ELSE Spawned(t, record)

\* Slip: the agent command goes out on every attach.
Bootstrapped_EveryTime(x) ==
  [x EXCEPT !.bootSent = TRUE, !.written = Append(@, "boot"),
            !.promptTimers = @ \cup
              (IF x.starter = "prompt" /\ ~x.starterSent THEN {"paste"} ELSE {})]

\* ensureAgentBootstrapped: type the agent command once, and schedule what
\* the terminal starts with.
Bootstrapped(x) ==
  IF x.bootSent THEN x
  ELSE [x EXCEPT !.bootSent = TRUE,
                 !.written = Append(@, "boot"),
                 !.promptTimers = @ \cup
                   (CASE x.starterSent            -> {}
                      [] x.starter = "prompt"     -> {"paste"}
                      [] x.starter = "draft"      -> {"draft"}
                      [] OTHER                    -> {})]

\* The common tail of handleUpgrade, connectDirect and startSession: x is the
\* ensured session, its new watcher included.
Enter(t, s, x) ==
  /\ session'  = [session EXCEPT ![s] = Bootstrapped([x EXCEPT !.idleTimer = None])]
  /\ timeouts' = timeouts \ {<<s, x.idleTimer>>}
  /\ sessions' = [sessions EXCEPT ![t] = s]

\* Slip: the record is not marked.
MarkRunning_Forgotten(t, record) == terminals' = [terminals EXCEPT ![t] = record]

\* markTerminalRunning, called by ensureSession when it spawned.
MarkRunning(t, record) ==
  terminals' = [terminals EXCEPT ![t] = [record EXCEPT !.lifecycle = "running"]]

Join(t, s, x) ==
  /\ EnsureSession(t, s, terminals[t], worktrees)
  /\ Enter(t, s, x)
  /\ IF sessions[t] = s THEN UNCHANGED terminals ELSE MarkRunning(t, terminals[t])
  /\ UNCHANGED worktrees

\* handleUpgrade: a WebSocket opens on a terminal.
AttachClient(c, t) ==
  /\ Registered(t) /\ attached[c] = None
  /\ \E s \in SessionId :
       /\ Join(t, s, [Ensured(t, s, terminals[t]) EXCEPT !.clients = @ \cup {c}])
       /\ attached' = [attached EXCEPT ![c] = s]

\* connectDirect: an in-process listener subscribes to a terminal.
ConnectDirect(l, t) ==
  /\ Registered(t) /\ attached[l] = None
  /\ \E s \in SessionId :
       /\ Join(t, s, [Ensured(t, s, terminals[t]) EXCEPT !.listeners = @ \cup {l}])
       /\ attached' = [attached EXCEPT ![l] = s]

-----------------------------------------------------------------------------
(* Idle close: a session that nobody watches and no prompt keeps alive.    *)

NeedsIdleClose(s, x) ==
  /\ x.state = "open" /\ Current(s)
  /\ ~x.keepAlive /\ x.clients = {} /\ x.listeners = {}

\* Slip: the previous timeout is not cleared when a new one is set.
ScheduleIdleClose_NoClear(s, x) ==
  IF NeedsIdleClose(s, x)
  THEN \E h \in TimerHandle :
         /\ <<s, h>> \notin timeouts
         /\ session'  = [session EXCEPT ![s] = [x EXCEPT !.idleTimer = h]]
         /\ timeouts' = timeouts \cup {<<s, h>>}
  ELSE /\ session' = [session EXCEPT ![s] = x]
       /\ UNCHANGED timeouts

\* scheduleIdleCloseIfNeeded on session s, whose record the handler made x.
ScheduleIdleClose(s, x) ==
  IF NeedsIdleClose(s, x)
  THEN \E h \in TimerHandle :
         /\ <<s, h>> \notin timeouts
         /\ session'  = [session EXCEPT ![s] = [x EXCEPT !.idleTimer = h]]
         /\ timeouts' = (timeouts \ {<<s, x.idleTimer>>}) \cup {<<s, h>>}
  ELSE /\ session' = [session EXCEPT ![s] = x]
       /\ UNCHANGED timeouts

\* The "close" event of a WebSocket; its session may have ended meanwhile.
SocketClosed(c) ==
  /\ attached[c] # None
  /\ attached' = [attached EXCEPT ![c] = None]
  /\ LET s == attached[c]
     IN  IF session[s].state = "closed"
         THEN UNCHANGED <<session, timeouts>>
         ELSE ScheduleIdleClose(s, [session[s] EXCEPT !.clients = @ \ {c}])
  /\ UNCHANGED <<terminals, sessions, worktrees>>

\* Slip: the disposer only drops the listener.
DisposeDirect_NoSchedule(l) ==
  /\ attached[l] # None
  /\ attached' = [attached EXCEPT ![l] = None]
  /\ session' = [session EXCEPT ![attached[l]].listeners = @ \ {l}]
  /\ UNCHANGED <<terminals, sessions, timeouts, worktrees>>

\* The disposer connectDirect returned.
DisposeDirect(l) ==
  /\ attached[l] # None
  /\ attached' = [attached EXCEPT ![l] = None]
  /\ LET s == attached[l]
     IN  IF session[s].state = "closed"
         THEN UNCHANGED <<session, timeouts>>
         ELSE ScheduleIdleClose(s, [session[s] EXCEPT !.listeners = @ \ {l}])
  /\ UNCHANGED <<terminals, sessions, worktrees>>

\* releaseSessionKeepAlive: a Stop hook found no message to deliver.
ReleaseKeepAlive(t) ==
  /\ sessions[t] # None
  /\ LET s == sessions[t]
     IN  /\ session[s].state # "closed"
         /\ ScheduleIdleClose(s, [session[s] EXCEPT !.keepAlive = FALSE])
  /\ UNCHANGED <<terminals, sessions, attached, worktrees>>

-----------------------------------------------------------------------------
(* Ending sessions.                                                        *)

Closed(x) ==
  [x EXCEPT !.state = "closed", !.clients = {}, !.listeners = {},
            !.idleTimer = None, !.promptTimers = {}]

Ending(T) == {sessions[t] : t \in T} \ {None}

\* Slip: the closed session stays in the sessions map.
Teardown_NotDeleted(T, pending) ==
  /\ session'  = [s \in SessionId |-> IF s \in Ending(T) THEN Closed(session[s])
                                                         ELSE session[s]]
  /\ timeouts' = pending \ {<<s, session[s].idleTimer>> : s \in Ending(T)}
  /\ UNCHANGED sessions

\* teardownSession for the live sessions of the terminals T, their timers too.
Teardown(T, pending) ==
  /\ session'  = [s \in SessionId |-> IF s \in Ending(T) THEN Closed(session[s])
                                                         ELSE session[s]]
  /\ timeouts' = pending \ {<<s, session[s].idleTimer>> : s \in Ending(T)}
  /\ sessions' = [t \in Terminal |-> IF t \in T THEN None ELSE sessions[t]]

\* markTerminalEnded.
Ended(t, lifecycle) == [terminals[t] EXCEPT !.lifecycle = lifecycle]

\* One terminal's session ends, or (stop, kill) it had none and is only marked.
EndTerminal(t, lifecycle) ==
  /\ Teardown({t}, timeouts)
  /\ terminals' = [terminals EXCEPT ![t] = Ended(t, lifecycle)]
  /\ UNCHANGED <<attached, worktrees>>

PtyExit(t) == sessions[t] # None /\ EndTerminal(t, "exited")

\* stopTerminal and killTerminal: they differ in the signal and the reason only.
StopTerminal(t) == Registered(t) /\ EndTerminal(t, "stopped")

\* The idle timeout h of session s fires: closeSession looks the terminal up by
\* id, so it closes whatever session the terminal has now.
IdleExpire(s, h) ==
  /\ <<s, h>> \in timeouts
  /\ LET t == session[s].terminal
     IN  /\ Teardown({t}, timeouts \ {<<s, h>>})
         /\ IF sessions[t] = None THEN UNCHANGED terminals
            ELSE terminals' = [terminals EXCEPT ![t] = Ended(t, "stopped")]
  /\ UNCHANGED <<attached, worktrees>>

-----------------------------------------------------------------------------
(* Typing what the terminal starts with.  A timer callback drops itself     *)
(* from session.promptTimers; teardown clears those that are left.          *)

Typed(s, timer, text, next) ==
  session' = [session EXCEPT ![s].promptTimers = (@ \ {timer}) \cup next,
                             ![s].starterSent = TRUE,
                             ![s].written = Append(@, text)]

\* Slip: the Enter that follows the paste is not scheduled.
PastePrompt_NoSubmit(s) ==
  /\ "paste" \in session[s].promptTimers
  /\ Current(s) /\ ~session[s].starterSent
  /\ Typed(s, "paste", "paste", {})
  /\ UNCHANGED <<terminals, sessions, timeouts, attached, worktrees>>

PastePrompt(s) ==
  /\ "paste" \in session[s].promptTimers
  /\ Current(s) /\ ~session[s].starterSent
  /\ Typed(s, "paste", "paste", {"submit"})
  /\ UNCHANGED <<terminals, sessions, timeouts, attached, worktrees>>

SubmitPrompt(s) ==
  /\ "submit" \in session[s].promptTimers
  /\ Current(s)
  /\ Typed(s, "submit", "submit", {})
  /\ UNCHANGED <<terminals, sessions, timeouts, attached, worktrees>>

PasteDraft(s) ==
  /\ "draft" \in session[s].promptTimers
  /\ Current(s) /\ ~session[s].starterSent
  /\ Typed(s, "draft", "draft", {})
  /\ UNCHANGED <<terminals, sessions, timeouts, attached, worktrees>>

-----------------------------------------------------------------------------
(* The registry's operations.                                              *)

\* worktreeId ?? tentacleId of a new terminal t: the id asked for, or else its own.
EffectiveId(t, asked) == IF asked = None THEN t ELSE asked

NewRecord(p, isWorktree, starter, e) ==
  [lifecycle |-> "registered", parent |-> p, worktree |-> isWorktree, starter |-> starter,
   effective |-> e, ahead |-> {u \in Terminal : Registered(u) /\ terminals[u].effective = e}]

\* createTentacleWorktree makes the directory and its branch.
WorktreesWith(isWorktree, e) ==
  IF isWorktree THEN [worktrees EXCEPT ![e] = "directory"] ELSE worktrees

\* createTerminal.  A requested terminal id that is taken is replaced by a fresh one,
\* so t is any free id.  The request fails if the directory or the branch of a worktree
\* is there.  The result of startSession is not looked at: the shell may fail to
\* start, and the terminal stays without a session.
CreateTerminal(t, p, isWorktree, starter, asked) ==
  LET e == EffectiveId(t, asked)
      record == NewRecord(p, isWorktree, starter, e)
      Register == terminals' = [terminals EXCEPT ![t] = record]
  IN  /\ ~Registered(t)
      /\ p # None => Cardinality(Children(p)) < MaxChildren
      /\ starter = "prompt" => Cardinality(Live) < SessionLimit
      /\ isWorktree => worktrees[e] = "absent"
      /\ worktrees' = WorktreesWith(isWorktree, e)
      /\ UNCHANGED attached
      /\ \/ Register /\ UNCHANGED <<session, sessions, timeouts>>
         \/ /\ starter = "prompt"
            /\ \E s \in SessionId :
                 /\ EnsureSession(t, s, record, worktrees')
                 /\ Enter(t, s, Ensured(t, s, record))
                 /\ IF sessions[t] = s THEN Register ELSE MarkRunning(t, record)

\* The map without the terminals of D, where `records` are the other ones.
Without(D, records) ==
  [t \in Terminal |-> IF t \in D THEN NoTerminal ELSE [records[t] EXCEPT !.ahead = @ \ D]]

Prunable(t) ==
  terminals[t].lifecycle \in {"stale", "exited", "stopped"} /\ sessions[t] = None

\* pruneTerminals: worktrees and the children's parent ids stay as they are.
PruneTerminals ==
  LET gone == {t \in Terminal : Prunable(t)}
  IN  /\ gone # {}
      /\ terminals' = Without(gone, terminals)
      /\ UNCHANGED <<sessions, session, timeouts, attached, worktrees>>

\* collectTerminalCascade visits breadth first: Within(root)[n] is what it has
\* collected when the terminals at distance n from the root are in.
Within(root) ==
  LET w[n \in 0..Cardinality(Terminal)] ==
        IF n = 0 THEN {root}
        ELSE LET near == w[n - 1] IN near \cup UNION {Children(p) : p \in near}
  IN  w

\* Slip: only the children, not their children.
Cascade_OneLevel(root) == Within(root)[1]

Cascade(root) == Terminal \cap Within(root)[Cardinality(Terminal)]

\* The terminals that come before f in the cascade's order; the order among
\* terminals at one distance is the registry's, which is left open.
CascadePrefix(root, f, done) ==
  /\ f \notin done
  /\ \E n \in 0..Cardinality(Terminal) :
       /\ n > 0 => Within(root)[n - 1] \subseteq done
       /\ done \cup {f} \subseteq Within(root)[n]

\* Slip: the records go, the sessions stay.
RemoveTerminals_KeepsSessions(T, D) ==
  /\ UNCHANGED <<session, sessions, timeouts>>
  /\ terminals' = Without(D, terminals)

\* The sessions of T close and the records of D go.
RemoveTerminals(T, D) ==
  /\ Teardown(T, timeouts)
  /\ terminals' = Without(D, [t \in Terminal |->
                     IF t \in T /\ sessions[t] # None THEN Ended(t, "stopped") ELSE terminals[t]])

\* Slip: the worktree of a shared terminal's effective id goes with it too.
WorktreesOf_AnyMode(T) == {terminals[t].effective : t \in T}

\* The worktrees deleteTerminal removes with the terminals of T.
WorktreesOf(T) == {terminals[t].effective : t \in {u \in T : terminals[u].worktree}}

\* removeTentacleWorktree: the directory, then the branch, both forced.
RemoveWorktrees(T) ==
  [e \in WorktreeId |-> IF e \in WorktreesOf(T) THEN "absent" ELSE worktrees[e]]

DeleteTerminal(root) ==
  /\ Registered(root)
  /\ LET all == Cascade(root)
     IN  /\ RemoveTerminals(all, all)
         /\ worktrees' = RemoveWorktrees(all)
  /\ UNCHANGED attached

\* The delete of a cascade throws at terminal f: its session is closed already,
\* its directory may be gone (the branch removal threw), and the terminals done
\* before it stay deleted.
DeleteFails(root, f, done) ==
  LET e == terminals[f].effective
  IN  /\ Registered(root)
      /\ terminals[f].worktree /\ CascadePrefix(root, f, done)
      /\ RemoveTerminals(done \cup {f}, done)
      /\ \E left \in {worktrees[e], "branch"} :
           worktrees' = [RemoveWorktrees(done) EXCEPT ![e] = left]
      /\ UNCHANGED attached

-----------------------------------------------------------------------------
(* The server goes down and comes back with the registry it wrote.  That     *)
(* the file is up to date is this module's assumption.                       *)

Detached == [w \in Client \cup Listener |-> None]

\* close() ends every session before the process exits.
Restart ==
  /\ Live # {}
  /\ RemoveTerminals(Terminal, {})
  /\ attached' = Detached
  /\ UNCHANGED worktrees

\* The process dies; reconcilePersistedLifecycle turns "running" into "stale".
Crash ==
  /\ Live # {}
  /\ Teardown(Terminal, timeouts)
  /\ terminals' = [t \in Terminal |-> IF terminals[t].lifecycle = "running"
                                      THEN Ended(t, "stale") ELSE terminals[t]]
  /\ attached' = Detached
  /\ UNCHANGED worktrees

-----------------------------------------------------------------------------
ClientStep ==
  \/ \E c \in Client : SocketClosed(c) \/ \E t \in Terminal : AttachClient(c, t)
  \/ \E l \in Listener : DisposeDirect(l) \/ \E t \in Terminal : ConnectDirect(l, t)

TimerStep ==
  \/ \E s \in SessionId : PastePrompt(s) \/ SubmitPrompt(s) \/ PasteDraft(s)
  \/ \E s \in SessionId, h \in TimerHandle : IdleExpire(s, h)

OperatorStep ==
  \/ \E t \in Terminal : StopTerminal(t) \/ DeleteTerminal(t)
  \/ \E t \in Terminal, p \in Parents, isWorktree \in WorktreeModes, k \in Starters,
        asked \in AskedIds : CreateTerminal(t, p, isWorktree, k, asked)
  \/ \E t, f \in Terminal, done \in SUBSET Terminal : DeleteFails(t, f, done)
  \/ PruneTerminals

Next ==
  \/ ClientStep \/ TimerStep \/ OperatorStep
  \/ \E t \in Terminal : PtyExit(t) \/ ReleaseKeepAlive(t)
  \/ Restart \/ Crash

Spec == Init /\ [][Next]_vars

\* Node runs every timeout that stays pending.
Fairness ==
  /\ \A s \in SessionId :
       WF_vars(PastePrompt(s)) /\ WF_vars(SubmitPrompt(s)) /\ WF_vars(PasteDraft(s))
  /\ \A s \in SessionId, h \in TimerHandle : WF_vars(IdleExpire(s, h))

FairSpec == Spec /\ Fairness

-----------------------------------------------------------------------------
TypeOK ==
  /\ terminals \in [Terminal -> TerminalRecord]
  /\ sessions \in [Terminal -> SessionId \cup {None}]
  /\ session \in [SessionId -> SessionRecord]
  /\ timeouts \subseteq SessionId \X TimerHandle
  /\ attached \in [Client \cup Listener -> SessionId \cup {None}]
  /\ worktrees \in [WorktreeId -> {"absent", "directory", "branch"}]

\* No PTY is lost: a session object is open exactly when the sessions map holds
\* it under its own terminal, and that terminal is in the registry, whatever was
\* pruned, deleted, half deleted or created under the same id in between.
OpenSessionsAreOwned ==
  /\ \A s \in SessionId : session[s].state = "open" <=> Current(s)
  /\ \A t \in Terminal : sessions[t] # None =>
       /\ Registered(t)
       /\ session[sessions[t]].terminal = t

\* The registry, which is what survives the process, says "running" of exactly
\* the terminals that have a session.
LifecycleMatchesSessions ==
  \A t \in Terminal : terminals[t].lifecycle = "running" <=> sessions[t] # None

\* An idle timeout is pending for exactly the open sessions that nobody watches
\* and no prompt keeps alive, one for each, and clearing the session's handle
\* would cancel it: none is leaked to fire on a watched session or a successor.
IdleTimeoutsAreExact ==
  timeouts = {<<s, session[s].idleTimer>> :
                s \in {q \in SessionId : NeedsIdleClose(q, session[q])}}

\* What Octogent itself typed into a shell is the agent command, once, then the
\* prompt and its Enter, or the draft with no Enter, each once and in that order,
\* however many clients attached and however often.
TypedInOrder ==
  \A s \in SessionId :
    LET x == session[s]
        script == CASE x.starter = "prompt" -> <<"boot", "paste", "submit">>
                    [] x.starter = "draft"  -> <<"boot", "draft">>
                    [] OTHER                -> <<"boot">>
    IN  /\ Len(x.written) <= Len(script)
        /\ x.written = SubSeq(script, 1, Len(x.written))

\* The shell of a worktree terminal does not lose its directory: it runs in the
\* workspace, when an earlier shared terminal has its effective id, or in a worktree
\* that is there, also while deletes of other terminals with that id come and go or
\* fail half way and worktrees are asked for again under ids that were in use.
SessionsHaveTheirWorktree ==
  \A t \in Live :
    LET place == session[sessions[t]].cwd
    IN  terminals[t].worktree /\ place # None => worktrees[place] = "directory"

\* OCTOGENT_MAX_TERMINAL_SESSIONS bounds the shells over every way to start one.
WithinSessionLimit ==
  Cardinality({s \in SessionId : session[s].state = "open"}) <= SessionLimit

\* The idle timer of one session never ends a session that is being watched, of
\* its terminal or of another: the callback closes by terminal id.
IdleExpiryClosesOnlyIdleSessions ==
  [][\A s, q \in SessionId, h \in TimerHandle :
       (IdleExpire(s, h) /\ session[q].clients \cup session[q].listeners # {})
         => session'[q] = session[q]]_vars

\* Nothing reopens or alters an ended session: no late socket event, disposer,
\* hook or timer writes to it or arms a timer on it.
EndedSessionsAreFinal ==
  [][\A s \in SessionId :
       session[s].state = "closed" => session'[s] = session[s]]_vars

\* t descends from root along parentTerminalId links between registered terminals.
Descends(t, root) ==
  \E path \in [1..Cardinality(Terminal) -> Terminal] :
    /\ path[1] = t /\ path[Cardinality(Terminal)] = root
    /\ \A i \in 1..(Cardinality(Terminal) - 1) :
         \/ path[i + 1] = path[i]
         \/ Registered(path[i]) /\ terminals[path[i]].parent = path[i + 1]

\* A record but for its place in the map.
Unplaced(record) == [record EXCEPT !.ahead = {}]

\* A delete that succeeds removes the terminal, all its descendants, cyclic
\* parent links included, and no other terminal, and leaves no session of theirs.
DeleteRemovesTheSubtree ==
  [][\A root \in Terminal :
       (terminals' # terminals /\ DeleteTerminal(root)) =>
         \A t \in Terminal :
           IF Descends(t, root) THEN ~Registered(t)' /\ sessions'[t] = None
                                ELSE Unplaced(terminals'[t]) = Unplaced(terminals[t])]_vars

\* A session that nobody watches and no prompt keeps alive does not stay so: it
\* ends or is watched again, unless Stop hooks re-arm its grace period for ever.
UnwatchedSessionsEnd ==
  \A s \in SessionId :
    \/ []<>(~NeedsIdleClose(s, session[s]))
    \/ []<><<\E t \in Terminal : sessions[t] = s /\ ReleaseKeepAlive(t)>>_vars

\* A prompted session types and submits its prompt, unless it ends first.
PromptIsSubmitted ==
  \A s \in SessionId :
    (session[s].state = "open" /\ session[s].starter = "prompt")
      ~> (session[s].state = "closed" \/ Len(session[s].written) = 3)

-----------------------------------------------------------------------------
\* apps/api/tests/createApiServer.test.ts: a delete answered with 409 "keeps
\* tentacle state".
FailedDeleteKeepsTerminals ==
  [][\A root, f \in Terminal, done \in SUBSET Terminal :
       DeleteFails(root, f, done) => \A t \in Terminal : Registered(t) => Registered(t)']_vars

\* README.md:103: "Shared terminals run in the main workspace" (also
\* docs/concepts/mental-model.md:52).
SharedShellsAreInTheWorkspace ==
  \A t \in Live : ~terminals[t].worktree => session[sessions[t]].cwd = None
=============================================================================
