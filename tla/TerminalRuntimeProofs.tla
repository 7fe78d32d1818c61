----------------------- MODULE TerminalRuntimeProofs -----------------------
(***************************************************************************)
(* Theorems about TerminalRuntime and the events it sends, for any sets of *)
(* terminals, watchers, session objects and timer handles: the invariants  *)
(* of sessions, timers and worktrees, then the order of what is typed, what *)
(* subscribers know and what a delete takes.                               *)
(***************************************************************************)
EXTENDS TerminalEvents, SequenceLemmas, FiniteSetTheorems, TLAPS

-----------------------------------------------------------------------------
(* What the building blocks of the actions return.                         *)

LEMMA UnbornType == Unborn \in SessionRecord
BY DEF Unborn, SessionRecord

\* ensureSession returns a well-formed session.
LEMMA SpawnedType ==
  ASSUME NEW t \in Terminal, NEW r \in TerminalRecord
  PROVE  Spawned(t, r) \in SessionRecord
<1> DEFINE k == r.starter = "prompt"
           cwd == IF InWorktree(r) THEN r.effective ELSE None
<1>1. k \in BOOLEAN /\ cwd \in WorktreeId \cup {None}
  BY DEF TerminalRecord
<1>2. r.starter \in {"none", "draft", "prompt"}
  BY DEF TerminalRecord
<1>3. Spawned(t, r) = [Unborn EXCEPT !.terminal = t, !.state = "open", !.cwd = cwd,
                                     !.keepAlive = k, !.starter = r.starter]
  BY DEF Spawned
<1> HIDE DEF k, cwd
<1>4. QED
  BY <1>1, <1>2, <1>3, UnbornType DEF SessionRecord

LEMMA EnsuredType ==
  ASSUME TypeOK, NEW t \in Terminal, NEW s \in SessionId, NEW r \in TerminalRecord
  PROVE  Ensured(t, s, r) \in SessionRecord
BY SpawnedType DEF TypeOK, Ensured

\* ensureAgentBootstrapped keeps a session well formed.
LEMMA BootstrappedType ==
  ASSUME NEW x \in SessionRecord
  PROVE  Bootstrapped(x) \in SessionRecord
<1> DEFINE added == CASE x.starterSent        -> {}
                      [] x.starter = "prompt" -> {"paste"}
                      [] x.starter = "draft"  -> {"draft"}
                      [] OTHER                -> {}
           log == Append(x.written, "boot")
<1>1. added \subseteq {"paste", "submit", "draft"}
  OBVIOUS
<1>2. log \in Seq({"boot", "paste", "submit", "draft"})
  BY DEF SessionRecord
<1> HIDE DEF added, log
<1>3. [x EXCEPT !.bootSent = TRUE, !.written = log, !.promptTimers = @ \cup added]
        \in SessionRecord
  BY <1>1, <1>2 DEF SessionRecord
<1>4. QED
  BY <1>3 DEF Bootstrapped, added, log

LEMMA IdleTimerType ==
  ASSUME NEW x \in SessionRecord, NEW h \in TimerHandle \cup {None}
  PROVE  [x EXCEPT !.idleTimer = h] \in SessionRecord
BY DEF SessionRecord

LEMMA ClosedType ==
  ASSUME NEW x \in SessionRecord
  PROVE  Closed(x) \in SessionRecord
BY DEF SessionRecord, Closed

LEMMA EndedType ==
  ASSUME TypeOK, NEW t \in Terminal, NEW l \in Lifecycle
  PROVE  Ended(t, l) \in TerminalRecord
<1>1. terminals[t] \in TerminalRecord
  BY DEF TypeOK
<1>2. QED
  BY <1>1 DEF TerminalRecord, Ended

LEMMA EnterType ==
  ASSUME TypeOK, NEW t \in Terminal, NEW s \in SessionId, NEW x \in SessionRecord,
         Enter(t, s, x)
  PROVE  /\ session' \in [SessionId -> SessionRecord]
         /\ timeouts' \subseteq SessionId \X TimerHandle
         /\ sessions' \in [Terminal -> SessionId \cup {None}]
<1>1. Bootstrapped([x EXCEPT !.idleTimer = None]) \in SessionRecord
  BY IdleTimerType, BootstrappedType
<1>2. QED
  BY <1>1 DEF Enter, TypeOK

LEMMA ScheduleType ==
  ASSUME TypeOK, NEW s \in SessionId, NEW x \in SessionRecord, ScheduleIdleClose(s, x)
  PROVE  /\ session' \in [SessionId -> SessionRecord]
         /\ timeouts' \subseteq SessionId \X TimerHandle
<1>1. \A h \in TimerHandle : [x EXCEPT !.idleTimer = h] \in SessionRecord
  BY IdleTimerType
<1>2. CASE NeedsIdleClose(s, x)
  <2>1. PICK h \in TimerHandle :
          /\ session'  = [session EXCEPT ![s] = [x EXCEPT !.idleTimer = h]]
          /\ timeouts' = (timeouts \ {<<s, x.idleTimer>>}) \cup {<<s, h>>}
    BY <1>2 DEF ScheduleIdleClose
  <2> DEFINE y == [x EXCEPT !.idleTimer = h]
  <2>2. y \in SessionRecord
    BY <1>1
  <2>3. session' = [session EXCEPT ![s] = y]
    BY <2>1
  <2> HIDE DEF y
  <2>4. QED
    BY <2>1, <2>2, <2>3 DEF TypeOK
<1>3. CASE ~NeedsIdleClose(s, x)
  BY <1>3 DEF ScheduleIdleClose, TypeOK
<1>4. QED
  BY <1>2, <1>3

LEMMA TeardownType ==
  ASSUME TypeOK, NEW T, NEW pending \in SUBSET (SessionId \X TimerHandle),
         Teardown(T, pending)
  PROVE  /\ session' \in [SessionId -> SessionRecord]
         /\ timeouts' \subseteq SessionId \X TimerHandle
         /\ sessions' \in [Terminal -> SessionId \cup {None}]
<1>1. \A s \in SessionId : Closed(session[s]) \in SessionRecord
  BY ClosedType DEF TypeOK
<1>2. QED
  BY <1>1 DEF TypeOK, Teardown

LEMMA TypedType ==
  ASSUME TypeOK, NEW s \in SessionId, NEW timer, NEW text \in {"paste", "submit", "draft"},
         NEW next \in SUBSET {"paste", "submit", "draft"}, Typed(s, timer, text, next)
  PROVE  session' \in [SessionId -> SessionRecord]
<1> DEFINE log == Append(session[s].written, text)
           y == [session[s] EXCEPT !.promptTimers = (@ \ {timer}) \cup next,
                                   !.starterSent = TRUE, !.written = log]
<1>1. session[s] \in SessionRecord
  BY DEF TypeOK
<1>2. log \in Seq({"boot", "paste", "submit", "draft"})
  BY <1>1 DEF SessionRecord
<1>3. session' = [session EXCEPT ![s] = y]
  BY <1>1 DEF Typed, TypeOK
<1> HIDE DEF log
<1>4. y \in SessionRecord
  BY <1>1, <1>2 DEF SessionRecord
<1> HIDE DEF y
<1>5. QED
  BY <1>3, <1>4 DEF TypeOK

LEMMA MarkRunningType ==
  ASSUME TypeOK, NEW t \in Terminal, NEW r \in TerminalRecord, MarkRunning(t, r)
  PROVE  terminals' \in [Terminal -> TerminalRecord]
<1>1. [r EXCEPT !.lifecycle = "running"] \in TerminalRecord
  BY DEF TerminalRecord, Lifecycle
<1>2. QED
  BY <1>1 DEF MarkRunning, TypeOK

LEMMA JoinType ==
  ASSUME TypeOK, NEW t \in Terminal, NEW s \in SessionId, NEW x \in SessionRecord,
         Join(t, s, x), attached' \in [Client \cup Listener -> SessionId \cup {None}]
  PROVE  TypeOK'
<1>1. /\ session' \in [SessionId -> SessionRecord]
      /\ timeouts' \subseteq SessionId \X TimerHandle
      /\ sessions' \in [Terminal -> SessionId \cup {None}]
  BY EnterType DEF Join
<1>2. terminals' \in [Terminal -> TerminalRecord]
  BY MarkRunningType DEF Join, TypeOK
<1>3. QED
  BY <1>1, <1>2 DEF TypeOK, Join

-----------------------------------------------------------------------------
(* Type correctness.                                                       *)

LEMMA TypeInit == ASSUME ConstantsAssumption, Init PROVE TypeOK
<1>1. NoTerminal \in TerminalRecord
  BY DEF NoTerminal, TerminalRecord
<1>2. QED
  BY <1>1, UnbornType DEF Init, TypeOK

\* The steps of sockets and listeners keep the types.
LEMMA ClientStepType == ASSUME TypeOK, ClientStep PROVE TypeOK'
<1>1. ASSUME NEW c \in Client, NEW t \in Terminal, AttachClient(c, t) PROVE TypeOK'
  <2>1. PICK s \in SessionId :
          /\ Join(t, s, [Ensured(t, s, terminals[t]) EXCEPT !.clients = @ \cup {c}])
          /\ attached' = [attached EXCEPT ![c] = s]
    BY <1>1 DEF AttachClient
  <2>2. Ensured(t, s, terminals[t]) \in SessionRecord
    BY EnsuredType DEF TypeOK
  <2>3. [Ensured(t, s, terminals[t]) EXCEPT !.clients = @ \cup {c}] \in SessionRecord
    BY <2>2 DEF SessionRecord
  <2>4. attached' \in [Client \cup Listener -> SessionId \cup {None}]
    BY <2>1 DEF TypeOK
  <2>5. QED
    BY <2>1, <2>3, <2>4, JoinType
<1>2. ASSUME NEW l \in Listener, NEW t \in Terminal, ConnectDirect(l, t) PROVE TypeOK'
  <2>1. PICK s \in SessionId :
          /\ Join(t, s, [Ensured(t, s, terminals[t]) EXCEPT !.listeners = @ \cup {l}])
          /\ attached' = [attached EXCEPT ![l] = s]
    BY <1>2 DEF ConnectDirect
  <2>2. Ensured(t, s, terminals[t]) \in SessionRecord
    BY EnsuredType DEF TypeOK
  <2>3. [Ensured(t, s, terminals[t]) EXCEPT !.listeners = @ \cup {l}] \in SessionRecord
    BY <2>2 DEF SessionRecord
  <2>4. attached' \in [Client \cup Listener -> SessionId \cup {None}]
    BY <2>1 DEF TypeOK
  <2>5. QED
    BY <2>1, <2>3, <2>4, JoinType
<1>3. ASSUME NEW c \in Client, SocketClosed(c) PROVE TypeOK'
  <2> DEFINE s == attached[c]
             x == [session[s] EXCEPT !.clients = @ \ {c}]
  <2>1. s \in SessionId
    BY <1>3 DEF TypeOK, SocketClosed
  <2>2. x \in SessionRecord
    <3>1. session[s] \in SessionRecord
      BY <2>1 DEF TypeOK
    <3>2. QED
      BY <3>1 DEF SessionRecord
  <2>3. (UNCHANGED <<session, timeouts>>) \/ ScheduleIdleClose(s, x)
    BY <1>3 DEF SocketClosed
  <2>4. /\ session' \in [SessionId -> SessionRecord]
        /\ timeouts' \subseteq SessionId \X TimerHandle
    <3> HIDE DEF s, x
    <3>1. QED
      BY <2>1, <2>2, <2>3, ScheduleType DEF TypeOK
  <2>5. QED
    BY <1>3, <2>4 DEF TypeOK, SocketClosed
<1>4. ASSUME NEW l \in Listener, DisposeDirect(l) PROVE TypeOK'
  <2> DEFINE s == attached[l]
             x == [session[s] EXCEPT !.listeners = @ \ {l}]
  <2>1. s \in SessionId
    BY <1>4 DEF TypeOK, DisposeDirect
  <2>2. x \in SessionRecord
    <3>1. session[s] \in SessionRecord
      BY <2>1 DEF TypeOK
    <3>2. QED
      BY <3>1 DEF SessionRecord
  <2>3. (UNCHANGED <<session, timeouts>>) \/ ScheduleIdleClose(s, x)
    BY <1>4 DEF DisposeDirect
  <2>4. /\ session' \in [SessionId -> SessionRecord]
        /\ timeouts' \subseteq SessionId \X TimerHandle
    <3> HIDE DEF s, x
    <3>1. QED
      BY <2>1, <2>2, <2>3, ScheduleType DEF TypeOK
  <2>5. QED
    BY <1>4, <2>4 DEF TypeOK, DisposeDirect
<1>5. QED
  BY <1>1, <1>2, <1>3, <1>4 DEF ClientStep

\* So do the timers,
LEMMA TimerStepType == ASSUME TypeOK, TimerStep PROVE TypeOK'
<1>1. ASSUME NEW s \in SessionId, PastePrompt(s) \/ SubmitPrompt(s) \/ PasteDraft(s)
      PROVE  TypeOK'
  <2>1. session' \in [SessionId -> SessionRecord]
    BY <1>1, TypedType DEF PastePrompt, SubmitPrompt, PasteDraft
  <2>2. QED
    BY <1>1, <2>1 DEF TypeOK, PastePrompt, SubmitPrompt, PasteDraft
<1>2. ASSUME NEW s \in SessionId, NEW h \in TimerHandle, IdleExpire(s, h) PROVE TypeOK'
  <2> DEFINE t == session[s].terminal
  <2>1. timeouts \ {<<s, h>>} \in SUBSET (SessionId \X TimerHandle)
    BY DEF TypeOK
  <2>2. /\ session' \in [SessionId -> SessionRecord]
        /\ timeouts' \subseteq SessionId \X TimerHandle
        /\ sessions' \in [Terminal -> SessionId \cup {None}]
    BY <1>2, <2>1, TeardownType DEF IdleExpire
  <2>3. terminals' \in [Terminal -> TerminalRecord]
    <3>1. UNCHANGED terminals \/ terminals' = [terminals EXCEPT ![t] = Ended(t, "stopped")]
      BY <1>2 DEF IdleExpire
    <3>2. t \in Terminal => Ended(t, "stopped") \in TerminalRecord
      BY EndedType DEF Lifecycle
    <3>3. QED
      BY <3>1, <3>2 DEF TypeOK
  <2>4. QED
    BY <1>2, <2>2, <2>3 DEF TypeOK, IdleExpire
<1>3. QED
  BY <1>1, <1>2 DEF TimerStep

\* ... one terminal's session ending,
LEMMA EndTerminalType ==
  ASSUME TypeOK, NEW t \in Terminal, NEW l \in Lifecycle, EndTerminal(t, l) PROVE TypeOK'
<1>1. /\ session' \in [SessionId -> SessionRecord]
      /\ timeouts' \subseteq SessionId \X TimerHandle
      /\ sessions' \in [Terminal -> SessionId \cup {None}]
  BY TeardownType DEF EndTerminal, TypeOK
<1>2. terminals' \in [Terminal -> TerminalRecord]
  BY EndedType DEF EndTerminal, TypeOK
<1>3. QED
  BY <1>1, <1>2 DEF TypeOK, EndTerminal

LEMMA WithoutType ==
  ASSUME NEW D, NEW R \in [Terminal -> TerminalRecord]
  PROVE  Without(D, R) \in [Terminal -> TerminalRecord]
<1>1. NoTerminal \in TerminalRecord
  BY DEF NoTerminal, TerminalRecord
<1>2. ASSUME NEW t \in Terminal PROVE [R[t] EXCEPT !.ahead = @ \ D] \in TerminalRecord
  <2>1. R[t] \in TerminalRecord
    OBVIOUS
  <2>2. QED
    BY <2>1 DEF TerminalRecord
<1>3. QED
  BY <1>1, <1>2 DEF Without

\* Of the terminals that stay, only their place in the map changes.
LEMMA WithoutKeeps ==
  ASSUME NEW D, NEW R \in [Terminal -> TerminalRecord], NEW t \in Terminal \ D
  PROVE  /\ Without(D, R)[t].lifecycle = R[t].lifecycle
         /\ Without(D, R)[t].parent = R[t].parent
         /\ Without(D, R)[t].worktree = R[t].worktree
         /\ Without(D, R)[t].starter = R[t].starter
         /\ Without(D, R)[t].effective = R[t].effective
         /\ Unplaced(Without(D, R)[t]) = Unplaced(R[t])
<1>1. R[t] \in TerminalRecord
  OBVIOUS
<1>2. Without(D, R)[t] = [R[t] EXCEPT !.ahead = @ \ D]
  BY DEF Without
<1>3. QED
  BY <1>1, <1>2 DEF TerminalRecord, Unplaced

LEMMA RemoveWorktreesType ==
  ASSUME TypeOK, NEW T
  PROVE  RemoveWorktrees(T) \in [WorktreeId -> {"absent", "directory", "branch"}]
BY DEF RemoveWorktrees, TypeOK

\* The id and the record a request makes.
LEMMA NewTerminalType ==
  ASSUME ConstantsAssumption, NEW t \in Terminal, NEW p \in Parents,
         NEW isWorktree \in WorktreeModes, NEW k \in Starters, NEW asked \in AskedIds
  PROVE  /\ EffectiveId(t, asked) \in WorktreeId
         /\ NewRecord(p, isWorktree, k, EffectiveId(t, asked)) \in TerminalRecord
<1> DEFINE e == EffectiveId(t, asked)
           ahead == {u \in Terminal : Registered(u) /\ terminals[u].effective = e}
<1>1. e \in WorktreeId
  BY DEF EffectiveId, WorktreeId, ConstantsAssumption
<1>2. NewRecord(p, isWorktree, k, e) =
        [lifecycle |-> "registered", parent |-> p, worktree |-> isWorktree,
         starter |-> k, effective |-> e, ahead |-> ahead]
  BY DEF NewRecord
<1>3. ahead \in SUBSET Terminal
  OBVIOUS
<1> HIDE DEF e, ahead
<1>4. NewRecord(p, isWorktree, k, e) \in TerminalRecord
  BY <1>1, <1>2, <1>3 DEF ConstantsAssumption, TerminalRecord, Lifecycle
<1>5. QED
  BY <1>1, <1>4 DEF e

LEMMA WorktreesWithType ==
  ASSUME TypeOK, NEW w \in BOOLEAN, NEW e
  PROVE  WorktreesWith(w, e) \in [WorktreeId -> {"absent", "directory", "branch"}]
BY DEF TypeOK, WorktreesWith

\* ... the removal of terminals,
LEMMA RemoveTerminalsType ==
  ASSUME TypeOK, ConstantsAssumption, NEW T, NEW D, RemoveTerminals(T, D),
         attached' \in [Client \cup Listener -> SessionId \cup {None}],
         worktrees' \in [WorktreeId -> {"absent", "directory", "branch"}]
  PROVE  TypeOK'
<1>1. /\ session' \in [SessionId -> SessionRecord]
      /\ timeouts' \subseteq SessionId \X TimerHandle
      /\ sessions' \in [Terminal -> SessionId \cup {None}]
  BY TeardownType DEF RemoveTerminals, TypeOK
<1>2. terminals' \in [Terminal -> TerminalRecord]
  <2> DEFINE R == [t \in Terminal |->
                     IF t \in T /\ sessions[t] # None THEN Ended(t, "stopped") ELSE terminals[t]]
  <2>1. R \in [Terminal -> TerminalRecord]
    BY EndedType DEF Lifecycle, TypeOK
  <2>2. terminals' = Without(D, R)
    BY DEF RemoveTerminals
  <2> HIDE DEF R
  <2>3. QED
    BY <2>1, <2>2, WithoutType
<1>3. QED
  BY <1>1, <1>2 DEF TypeOK

\* ... the operator's requests,
LEMMA OperatorStepType == ASSUME TypeOK, ConstantsAssumption, OperatorStep PROVE TypeOK'
<1>1. ASSUME NEW t \in Terminal, StopTerminal(t) PROVE TypeOK'
  BY <1>1, EndTerminalType DEF StopTerminal, Lifecycle
<1>2. ASSUME NEW t \in Terminal, DeleteTerminal(t) PROVE TypeOK'
  BY <1>2, RemoveTerminalsType, RemoveWorktreesType DEF DeleteTerminal, TypeOK
<1>3. ASSUME NEW t \in Terminal, NEW p \in Parents, NEW isWorktree \in WorktreeModes,
             NEW k \in Starters, NEW asked \in AskedIds,
             CreateTerminal(t, p, isWorktree, k, asked)
      PROVE  TypeOK'
  <2> DEFINE r == NewRecord(p, isWorktree, k, EffectiveId(t, asked))
  <2>1. r \in TerminalRecord
    BY NewTerminalType
  <2>2. /\ worktrees' \in [WorktreeId -> {"absent", "directory", "branch"}]
        /\ attached' = attached
    BY <1>3, WorktreesWithType DEF CreateTerminal, ConstantsAssumption
  <2> HIDE DEF r
  <2>3. CASE terminals' = [terminals EXCEPT ![t] = r]
             /\ UNCHANGED <<session, sessions, timeouts>>
    BY <2>1, <2>2, <2>3 DEF TypeOK
  <2>4. CASE \E s \in SessionId :
               /\ Enter(t, s, Ensured(t, s, r))
               /\ IF sessions[t] = s THEN terminals' = [terminals EXCEPT ![t] = r]
                                     ELSE MarkRunning(t, r)
    <3>1. PICK s \in SessionId :
               /\ Enter(t, s, Ensured(t, s, r))
               /\ IF sessions[t] = s THEN terminals' = [terminals EXCEPT ![t] = r]
                                     ELSE MarkRunning(t, r)
      BY <2>4
    <3>2. Ensured(t, s, r) \in SessionRecord
      BY <2>1, EnsuredType
    <3>3. terminals' \in [Terminal -> TerminalRecord]
      BY <2>1, <3>1, MarkRunningType DEF TypeOK
    <3>4. QED
      BY <2>2, <3>1, <3>2, <3>3, EnterType DEF TypeOK
  <2>5. QED
    BY <1>3, <2>3, <2>4 DEF CreateTerminal, r
<1>4. ASSUME NEW t \in Terminal, NEW f \in Terminal, NEW done \in SUBSET Terminal,
             DeleteFails(t, f, done)
      PROVE  TypeOK'
  <2>1. RemoveWorktrees(done) \in [WorktreeId -> {"absent", "directory", "branch"}]
    BY RemoveWorktreesType
  <2>2. PICK left \in {worktrees[terminals[f].effective], "branch"} :
          worktrees' = [RemoveWorktrees(done) EXCEPT ![terminals[f].effective] = left]
    BY <1>4 DEF DeleteFails
  <2>3. terminals[f].effective \in WorktreeId => left \in {"absent", "directory", "branch"}
    BY DEF TypeOK
  <2>4. worktrees' \in [WorktreeId -> {"absent", "directory", "branch"}]
    BY <2>1, <2>2, <2>3
  <2>5. QED
    BY <1>4, <2>4, RemoveTerminalsType DEF DeleteFails, TypeOK
<1>5. ASSUME PruneTerminals PROVE TypeOK'
  BY <1>5, WithoutType DEF PruneTerminals, TypeOK
<1>6. QED
  BY <1>1, <1>2, <1>3, <1>4, <1>5 DEF OperatorStep

LEMMA TypeNext == ASSUME TypeOK, ConstantsAssumption, [Next]_vars PROVE TypeOK'
<1>1. ASSUME NEW t \in Terminal, PtyExit(t) PROVE TypeOK'
  BY <1>1, EndTerminalType DEF PtyExit, Lifecycle
<1>2. ASSUME NEW t \in Terminal, ReleaseKeepAlive(t) PROVE TypeOK'
  <2> DEFINE s == sessions[t]
             x == [session[s] EXCEPT !.keepAlive = FALSE]
  <2>1. s \in SessionId
    BY <1>2 DEF TypeOK, ReleaseKeepAlive
  <2>2. x \in SessionRecord
    <3>1. session[s] \in SessionRecord
      BY <2>1 DEF TypeOK
    <3>2. QED
      BY <3>1 DEF SessionRecord
  <2>3. ScheduleIdleClose(s, x)
    BY <1>2 DEF ReleaseKeepAlive
  <2>4. /\ session' \in [SessionId -> SessionRecord]
        /\ timeouts' \subseteq SessionId \X TimerHandle
    <3> HIDE DEF s, x
    <3>1. QED
      BY <2>1, <2>2, <2>3, ScheduleType
  <2>5. QED
    BY <1>2, <2>4 DEF TypeOK, ReleaseKeepAlive
<1>3. Detached \in [Client \cup Listener -> SessionId \cup {None}]
  BY DEF Detached
<1>4. ASSUME Restart PROVE TypeOK'
  BY <1>3, <1>4, RemoveTerminalsType DEF Restart, TypeOK
<1>5. ASSUME Crash PROVE TypeOK'
  <2>1. /\ session' \in [SessionId -> SessionRecord]
        /\ timeouts' \subseteq SessionId \X TimerHandle
        /\ sessions' \in [Terminal -> SessionId \cup {None}]
    BY <1>5, TeardownType DEF Crash, TypeOK
  <2>2. terminals' \in [Terminal -> TerminalRecord]
    BY <1>5, EndedType DEF Crash, TypeOK, Lifecycle
  <2>3. QED
    BY <1>3, <1>5, <2>1, <2>2 DEF Crash, TypeOK
<1>6. CASE UNCHANGED vars
  BY <1>6 DEF vars, TypeOK
<1>7. QED
  BY <1>1, <1>2, <1>4, <1>5, <1>6, ClientStepType, TimerStepType, OperatorStepType
     DEF Next

\* Every reachable state is well typed.
THEOREM TypeCorrect == Spec => []TypeOK
<1>1. Init => TypeOK
  BY TypeInit, ConstantsAssumption
<1>2. TypeOK /\ [Next]_vars => TypeOK'
  BY TypeNext, ConstantsAssumption
<1>3. QED
  BY <1>1, <1>2, PTL DEF Spec

-----------------------------------------------------------------------------
(* The inductive invariant.  Ownership of sessions, the lifecycle in the    *)
(* registry and the pending timeouts are proved together: an idle timeout   *)
(* closes by terminal id, so that it closes its own session follows from    *)
(* ownership, and that a pruned terminal has no session from the lifecycle. *)

\* IdleTimeoutsAreExact, one session and one handle at a time.
TimeoutsOf(s) ==
  /\ \A h \in TimerHandle :
       <<s, h>> \in timeouts <=> NeedsIdleClose(s, session[s]) /\ session[s].idleTimer = h
  /\ NeedsIdleClose(s, session[s]) => session[s].idleTimer \in TimerHandle

Safe ==
  /\ OpenSessionsAreOwned
  /\ LifecycleMatchesSessions
  /\ \A s \in SessionId : TimeoutsOf(s)

IInv == TypeOK /\ Safe

LEMMA TimeoutsExact ==
  ASSUME TypeOK, \A s \in SessionId : TimeoutsOf(s) PROVE IdleTimeoutsAreExact
<1> DEFINE idle == {q \in SessionId : NeedsIdleClose(q, session[q])}
<1>1. ASSUME NEW e \in timeouts PROVE e \in {<<s, session[s].idleTimer>> : s \in idle}
  <2>1. PICK s \in SessionId, h \in TimerHandle : e = <<s, h>>
    BY <1>1 DEF TypeOK
  <2>2. NeedsIdleClose(s, session[s]) /\ session[s].idleTimer = h
    BY <1>1, <2>1 DEF TimeoutsOf
  <2>3. QED
    BY <2>1, <2>2
<1>2. ASSUME NEW s \in idle PROVE <<s, session[s].idleTimer>> \in timeouts
  BY DEF TimeoutsOf
<1>3. QED
  BY <1>1, <1>2 DEF IdleTimeoutsAreExact

\* Bootstrapping changes what is typed and the prompt timers only.
LEMMA BootstrappedKeeps ==
  ASSUME NEW x \in SessionRecord
  PROVE  LET y == Bootstrapped([x EXCEPT !.idleTimer = None])
         IN  /\ y.terminal = x.terminal /\ y.state = x.state
             /\ y.clients = x.clients /\ y.listeners = x.listeners
             /\ y.keepAlive = x.keepAlive /\ y.cwd = x.cwd
             /\ y.idleTimer = None
BY DEF Bootstrapped, SessionRecord

\* Opening or joining a session of terminal t, with a watcher or kept alive.
LEMMA EnterSafe ==
  ASSUME IInv, ConstantsAssumption,
         NEW t \in Terminal, NEW s \in SessionId, NEW x \in SessionRecord,
         x.terminal = t, x.state = "open",
         \/ sessions[t] = s /\ x.idleTimer = session[s].idleTimer
         \/ sessions[t] = None /\ session[s].state = "unborn",
         x.clients # {} \/ x.listeners # {} \/ x.keepAlive,
         Enter(t, s, x),
         \A u \in Terminal : u # t => terminals'[u] = terminals[u],
         terminals'[t].lifecycle = "running"
  PROVE  Safe'
<1> DEFINE y == Bootstrapped([x EXCEPT !.idleTimer = None])
<1>1. /\ y.terminal = t /\ y.state = "open"
      /\ y.clients # {} \/ y.listeners # {} \/ y.keepAlive
  BY BootstrappedKeeps
<1>2. /\ session' = [session EXCEPT ![s] = y]
      /\ sessions' = [sessions EXCEPT ![t] = s]
      /\ timeouts' = timeouts \ {<<s, x.idleTimer>>}
  BY DEF Enter
<1> HIDE DEF y
<1>3. session'[s] = y /\ sessions'[t] = s
  BY <1>2 DEF IInv, TypeOK
<1>4. \A q \in SessionId \ {s} : session'[q] = session[q]
  BY <1>2 DEF IInv, TypeOK
<1>5. \A u \in Terminal \ {t} : sessions'[u] = sessions[u]
  BY <1>2 DEF IInv, TypeOK
<1>6. None \notin SessionId
  BY DEF ConstantsAssumption
<1>7. \A q \in SessionId \ {s} : Current(q)' <=> Current(q)
  BY <1>3, <1>4, <1>5, <1>6 DEF Current, IInv, Safe, OpenSessionsAreOwned
<1>8. Current(s)'
  BY <1>1, <1>3 DEF Current
<1>9. \A u \in Terminal \ {t} : sessions[u] # s
  BY <1>6 DEF IInv, Safe, OpenSessionsAreOwned, Current
<1>10. OpenSessionsAreOwned'
  <2>1. \A q \in SessionId : session'[q].state = "open" <=> Current(q)'
    BY <1>1, <1>3, <1>4, <1>7, <1>8 DEF IInv, Safe, OpenSessionsAreOwned
  <2>2. ASSUME NEW u \in Terminal, sessions'[u] # None
        PROVE  Registered(u)' /\ session'[sessions'[u]].terminal = u
    <3>1. CASE u = t
      BY <1>1, <1>3, <3>1 DEF Registered
    <3>2. CASE u # t
      <4>1. sessions'[u] = sessions[u] /\ sessions[u] \in SessionId /\ sessions[u] # s
        BY <1>5, <1>9, <2>2, <3>2 DEF IInv, TypeOK
      <4>2. QED
        BY <1>4, <2>2, <3>2, <4>1
           DEF IInv, Safe, OpenSessionsAreOwned, Registered
    <3>3. QED
      BY <3>1, <3>2
  <2>3. QED
    BY <2>1, <2>2 DEF OpenSessionsAreOwned
<1>11. LifecycleMatchesSessions'
  BY <1>3, <1>5, <1>6 DEF IInv, Safe, LifecycleMatchesSessions
<1>12. ASSUME NEW q \in SessionId PROVE TimeoutsOf(q)'
  <2>1. TimeoutsOf(q)
    BY DEF IInv, Safe
  <2>2. CASE q = s
    <3>1. ~NeedsIdleClose(s, session[s])'
      BY <1>1, <1>3 DEF NeedsIdleClose
    <3>2. ASSUME NEW h \in TimerHandle PROVE <<s, h>> \notin timeouts'
      <4>1. CASE sessions[t] = s /\ x.idleTimer = session[s].idleTimer
        BY <1>2, <2>1, <2>2, <4>1 DEF TimeoutsOf
      <4>2. CASE session[s].state = "unborn"
        BY <1>2, <2>1, <2>2, <4>2 DEF TimeoutsOf, NeedsIdleClose
      <4>3. QED
        BY <4>1, <4>2
    <3>3. QED
      BY <2>2, <3>1, <3>2 DEF TimeoutsOf
  <2>3. CASE q # s
    <3>1. NeedsIdleClose(q, session[q])' <=> NeedsIdleClose(q, session[q])
      BY <1>4, <1>7, <2>3 DEF NeedsIdleClose
    <3>2. \A h \in TimerHandle : <<q, h>> \in timeouts' <=> <<q, h>> \in timeouts
      BY <1>2, <2>3
    <3>3. QED
      BY <1>4, <2>1, <2>3, <3>1, <3>2 DEF TimeoutsOf
  <2>4. QED
    BY <2>2, <2>3
<1>13. QED
  BY <1>10, <1>11, <1>12 DEF Safe

\* Arming or not arming the idle timeout of a session whose identity is kept.
LEMMA ScheduleSafe ==
  ASSUME IInv, NEW s \in SessionId, NEW x \in SessionRecord,
         x.terminal = session[s].terminal, x.state = session[s].state,
         x.idleTimer = session[s].idleTimer,
         NeedsIdleClose(s, session[s]) => NeedsIdleClose(s, x),
         ScheduleIdleClose(s, x), UNCHANGED <<sessions, terminals>>
  PROVE  Safe'
<1>1. PICK y \in SessionRecord :
        /\ session' = [session EXCEPT ![s] = y]
        /\ y.terminal = x.terminal /\ y.state = x.state /\ y.keepAlive = x.keepAlive
        /\ y.clients = x.clients /\ y.listeners = x.listeners
        /\ \/ /\ NeedsIdleClose(s, x) /\ y.idleTimer \in TimerHandle
              /\ timeouts' = (timeouts \ {<<s, x.idleTimer>>}) \cup {<<s, y.idleTimer>>}
           \/ ~NeedsIdleClose(s, x) /\ y = x /\ timeouts' = timeouts
  <2>1. CASE NeedsIdleClose(s, x)
    <3>1. PICK h \in TimerHandle :
            /\ session'  = [session EXCEPT ![s] = [x EXCEPT !.idleTimer = h]]
            /\ timeouts' = (timeouts \ {<<s, x.idleTimer>>}) \cup {<<s, h>>}
      BY <2>1 DEF ScheduleIdleClose
    <3>2. [x EXCEPT !.idleTimer = h] \in SessionRecord
      BY IdleTimerType
    <3> DEFINE y == [x EXCEPT !.idleTimer = h]
    <3>3. /\ y.terminal = x.terminal /\ y.state = x.state /\ y.keepAlive = x.keepAlive
          /\ y.clients = x.clients /\ y.listeners = x.listeners /\ y.idleTimer = h
      BY DEF SessionRecord
    <3>4. session' = [session EXCEPT ![s] = y] /\ y \in SessionRecord
      BY <3>1, <3>2
    <3> HIDE DEF y
    <3>5. QED
      BY <2>1, <3>1, <3>3, <3>4
  <2>2. CASE ~NeedsIdleClose(s, x)
    BY <2>2 DEF ScheduleIdleClose
  <2>3. QED
    BY <2>1, <2>2
<1>2. session'[s] = y /\ \A q \in SessionId \ {s} : session'[q] = session[q]
  BY <1>1 DEF IInv, TypeOK
<1>3. \A q \in SessionId : session'[q].terminal = session[q].terminal
                           /\ session'[q].state = session[q].state
  BY <1>1, <1>2
<1>4. \A q \in SessionId : Current(q)' <=> Current(q)
  BY <1>3 DEF Current
<1>5. OpenSessionsAreOwned' /\ LifecycleMatchesSessions'
  <2>1. \A u \in Terminal : sessions[u] # None => sessions[u] \in SessionId
    BY DEF IInv, TypeOK
  <2>2. QED
    BY <1>3, <1>4, <2>1 DEF IInv, Safe, OpenSessionsAreOwned, LifecycleMatchesSessions,
                            Registered
<1>6. ASSUME NEW q \in SessionId PROVE TimeoutsOf(q)'
  <2>1. TimeoutsOf(q)
    BY DEF IInv, Safe
  <2>2. CASE q = s
    <3>1. NeedsIdleClose(s, session[s])' <=> NeedsIdleClose(s, x)
      BY <1>1, <1>2, <1>4 DEF NeedsIdleClose
    <3>2. CASE NeedsIdleClose(s, x)
      BY <1>1, <1>2, <2>1, <2>2, <3>1, <3>2 DEF TimeoutsOf
    <3>3. CASE ~NeedsIdleClose(s, x)
      BY <1>1, <1>2, <2>1, <2>2, <3>1, <3>3 DEF TimeoutsOf
    <3>4. QED
      BY <3>2, <3>3
  <2>3. CASE q # s
    <3>1. NeedsIdleClose(q, session[q])' <=> NeedsIdleClose(q, session[q])
      BY <1>2, <1>4, <2>3 DEF NeedsIdleClose
    <3>2. \A h \in TimerHandle : <<q, h>> \in timeouts' <=> <<q, h>> \in timeouts
      BY <1>1, <2>3
    <3>3. QED
      BY <1>2, <2>1, <2>3, <3>1, <3>2 DEF TimeoutsOf
  <2>4. QED
    BY <2>2, <2>3
<1>7. QED
  BY <1>5, <1>6 DEF Safe

\* Typing into a shell.
LEMMA TypedSafe ==
  ASSUME IInv, NEW s \in SessionId, NEW timer, NEW text, NEW next,
         Typed(s, timer, text, next), UNCHANGED <<terminals, sessions, timeouts>>
  PROVE  Safe'
<1> DEFINE same(q) ==
      /\ session'[q].terminal = session[q].terminal
      /\ session'[q].state = session[q].state
      /\ session'[q].keepAlive = session[q].keepAlive
      /\ session'[q].clients = session[q].clients
      /\ session'[q].listeners = session[q].listeners
      /\ session'[q].idleTimer = session[q].idleTimer
<1>1. \A q \in SessionId : same(q)
  <2>1. \A q \in SessionId : session[q] \in SessionRecord
    BY DEF IInv, TypeOK
  <2>2. QED
    BY <2>1 DEF Typed, IInv, TypeOK, SessionRecord
<1>2. \A q \in SessionId : Current(q)' <=> Current(q)
  BY <1>1 DEF Current
<1>3. OpenSessionsAreOwned' /\ LifecycleMatchesSessions'
  <2>1. \A u \in Terminal : sessions[u] # None => sessions[u] \in SessionId
    BY DEF IInv, TypeOK
  <2>2. QED
    BY <1>1, <1>2, <2>1 DEF IInv, Safe, OpenSessionsAreOwned, LifecycleMatchesSessions,
                            Registered
<1>4. \A q \in SessionId : TimeoutsOf(q)'
  <2>1. \A q \in SessionId : NeedsIdleClose(q, session[q])' <=> NeedsIdleClose(q, session[q])
    BY <1>1, <1>2 DEF NeedsIdleClose
  <2>2. QED
    BY <1>1, <2>1 DEF IInv, Safe, TimeoutsOf
<1>5. QED
  BY <1>3, <1>4 DEF Safe

\* Ending the sessions of the terminals T, when no timeout but theirs is touched
\* and no record but theirs changes, and theirs do not say "running".
LEMMA TeardownSafe ==
  ASSUME IInv, ConstantsAssumption,
         NEW T \in SUBSET Terminal, NEW pending \in SUBSET timeouts,
         \A s \in SessionId, h \in TimerHandle :
           <<s, h>> \in timeouts \ pending => s \in Ending(T),
         Teardown(T, pending),
         \A t \in T : terminals'[t].lifecycle # "running",
         \A t \in Terminal \ T : terminals'[t].lifecycle = terminals[t].lifecycle
  PROVE  Safe'
<1>1. None \notin SessionId
  BY DEF ConstantsAssumption
<1>2. \A t \in Terminal : sessions'[t] = IF t \in T THEN None ELSE sessions[t]
  BY DEF Teardown
<1>3. \A s \in SessionId :
        session'[s] = IF s \in Ending(T) THEN Closed(session[s]) ELSE session[s]
  BY DEF Teardown
<1>4. \A s \in SessionId : s \in Ending(T) <=> Current(s) /\ session[s].terminal \in T
  <2>1. ASSUME NEW s \in SessionId, s \in Ending(T)
        PROVE  Current(s) /\ session[s].terminal \in T
    BY <2>1 DEF Ending, IInv, Safe, OpenSessionsAreOwned, Current
  <2>2. ASSUME NEW s \in SessionId, Current(s), session[s].terminal \in T
        PROVE  s \in Ending(T)
    BY <1>1, <2>2 DEF Ending, Current
  <2>3. QED
    BY <2>1, <2>2
<1>5. \A s \in SessionId : s \in Ending(T) =>
        session'[s].state = "closed" /\ session'[s].terminal = session[s].terminal
  <2>1. ASSUME NEW x \in SessionRecord
        PROVE  Closed(x).state = "closed" /\ Closed(x).terminal = x.terminal
    BY DEF Closed, SessionRecord
  <2>2. \A s \in SessionId : session[s] \in SessionRecord
    BY DEF IInv, TypeOK
  <2>3. QED
    BY <1>3, <2>1, <2>2
<1>6. \A s \in SessionId : Current(s)' <=> Current(s) /\ s \notin Ending(T)
  <2> TAKE s \in SessionId
  <2>1. session'[s].terminal = session[s].terminal
    BY <1>3, <1>5
  <2>2. QED
    BY <1>1, <1>2, <1>4, <2>1 DEF Current
<1>7. OpenSessionsAreOwned'
  <2>1. \A s \in SessionId : session'[s].state = "open" <=> Current(s)'
    BY <1>3, <1>5, <1>6 DEF IInv, Safe, OpenSessionsAreOwned
  <2>2. ASSUME NEW u \in Terminal, sessions'[u] # None
        PROVE  Registered(u)' /\ session'[sessions'[u]].terminal = u
    <3>1. u \notin T /\ sessions'[u] = sessions[u] /\ sessions[u] \in SessionId
      BY <1>2, <2>2 DEF IInv, TypeOK
    <3>2. session[sessions[u]].terminal = u /\ Registered(u)
      BY <2>2, <3>1 DEF IInv, Safe, OpenSessionsAreOwned
    <3>3. QED
      BY <1>3, <1>5, <3>1, <3>2 DEF Registered
  <2>3. QED
    BY <2>1, <2>2 DEF OpenSessionsAreOwned
<1>8. LifecycleMatchesSessions'
  BY <1>2 DEF IInv, Safe, LifecycleMatchesSessions
<1>9. ASSUME NEW s \in SessionId PROVE TimeoutsOf(s)'
  <2>1. TimeoutsOf(s)
    BY DEF IInv, Safe
  <2>2. timeouts' = pending \ {<<q, session[q].idleTimer>> : q \in Ending(T)}
    BY DEF Teardown
  <2>3. CASE s \in Ending(T)
    <3>1. ~NeedsIdleClose(s, session[s])'
      BY <1>5, <2>3 DEF NeedsIdleClose
    <3>2. \A h \in TimerHandle : <<s, h>> \notin timeouts'
      BY <2>1, <2>2, <2>3 DEF TimeoutsOf
    <3>3. QED
      BY <3>1, <3>2 DEF TimeoutsOf
  <2>4. CASE s \notin Ending(T)
    <3>1. session'[s] = session[s]
      BY <1>3, <2>4
    <3>2. NeedsIdleClose(s, session[s])' <=> NeedsIdleClose(s, session[s])
      BY <1>6, <2>4, <3>1 DEF NeedsIdleClose
    <3>3. \A h \in TimerHandle : <<s, h>> \in timeouts' <=> <<s, h>> \in timeouts
      BY <2>2, <2>4
    <3>4. QED
      BY <2>1, <3>1, <3>2, <3>3 DEF TimeoutsOf
  <2>5. QED
    BY <2>3, <2>4
<1>10. QED
  BY <1>7, <1>8, <1>9 DEF Safe

LEMMA SafeInit == ASSUME ConstantsAssumption, Init PROVE Safe
BY DEF Init, Safe, OpenSessionsAreOwned, LifecycleMatchesSessions, TimeoutsOf, Current,
       NeedsIdleClose, NoTerminal, Unborn, ConstantsAssumption

\* What ensureSession returns: the terminal's own open session.
LEMMA EnsuredIsOpen ==
  ASSUME IInv, ConstantsAssumption, NEW t \in Terminal, NEW s \in SessionId,
         NEW r \in TerminalRecord, NEW dirs, EnsureSession(t, s, r, dirs)
  PROVE  LET x == Ensured(t, s, r)
         IN  /\ x.terminal = t /\ x.state = "open"
             /\ \/ sessions[t] = s /\ x.idleTimer = session[s].idleTimer
                \/ sessions[t] = None /\ session[s].state = "unborn"
             /\ sessions[t] # s => x.keepAlive = (r.starter = "prompt")
<1>1. CASE sessions[t] = s
  <2>1. Ensured(t, s, r) = session[s]
    BY <1>1 DEF Ensured
  <2>2. s # None
    BY DEF ConstantsAssumption
  <2>3. session[s].terminal = t /\ Current(s)
    BY <1>1, <2>2 DEF IInv, Safe, OpenSessionsAreOwned, Current
  <2>4. session[s].state = "open"
    BY <2>3 DEF IInv, Safe, OpenSessionsAreOwned
  <2>5. QED
    BY <1>1, <2>1, <2>3, <2>4
<1>2. CASE sessions[t] # s
  <2>1. sessions[t] = None /\ session[s].state = "unborn"
    BY <1>2 DEF EnsureSession
  <2>2. Ensured(t, s, r) = Spawned(t, r)
    BY <1>2 DEF Ensured
  <2>3. /\ Spawned(t, r).terminal = t /\ Spawned(t, r).state = "open"
        /\ Spawned(t, r).keepAlive = (r.starter = "prompt")
    BY DEF Spawned, Unborn
  <2>4. QED
    BY <1>2, <2>1, <2>2, <2>3
<1>3. QED
  BY <1>1, <1>2

\* A watcher joins.
LEMMA JoinSafe ==
  ASSUME IInv, ConstantsAssumption, NEW t \in Terminal, NEW s \in SessionId,
         NEW x \in SessionRecord,
         x.terminal = Ensured(t, s, terminals[t]).terminal,
         x.state = Ensured(t, s, terminals[t]).state,
         x.idleTimer = Ensured(t, s, terminals[t]).idleTimer,
         x.clients # {} \/ x.listeners # {},
         Join(t, s, x)
  PROVE  Safe'
<1>1. terminals[t] \in TerminalRecord
  BY DEF IInv, TypeOK
<1>2. EnsureSession(t, s, terminals[t], worktrees) /\ Enter(t, s, x)
  BY DEF Join
<1>3. /\ x.terminal = t /\ x.state = "open"
      /\ \/ sessions[t] = s /\ x.idleTimer = session[s].idleTimer
         \/ sessions[t] = None /\ session[s].state = "unborn"
  BY <1>1, <1>2, EnsuredIsOpen
<1>4. \A u \in Terminal : u # t => terminals'[u] = terminals[u]
  BY DEF Join, MarkRunning, IInv, TypeOK
<1>5. terminals'[t].lifecycle = "running"
  <2>1. CASE sessions[t] = s
    BY <2>1 DEF Join, IInv, Safe, LifecycleMatchesSessions, ConstantsAssumption
  <2>2. CASE sessions[t] # s
    BY <1>1, <2>2 DEF Join, MarkRunning, IInv, TypeOK, TerminalRecord
  <2>3. QED
    BY <2>1, <2>2
<1>6. QED
  BY <1>2, <1>3, <1>4, <1>5, EnterSafe

\* Changing the registry records of terminals that have no session.
LEMMA RegistrySafe ==
  ASSUME IInv, UNCHANGED <<session, sessions, timeouts>>,
         \A t \in Terminal :
           \/ terminals'[t].lifecycle = terminals[t].lifecycle
           \/ sessions[t] = None /\ terminals'[t].lifecycle # "running"
  PROVE  Safe'
<1>1. OpenSessionsAreOwned'
  BY DEF IInv, Safe, OpenSessionsAreOwned, Current, Registered
<1>2. LifecycleMatchesSessions'
  BY DEF IInv, Safe, LifecycleMatchesSessions
<1>3. ASSUME NEW s \in SessionId PROVE TimeoutsOf(s)'
  <2>1. NeedsIdleClose(s, session[s])' <=> NeedsIdleClose(s, session[s])
    BY DEF NeedsIdleClose, Current
  <2>2. QED
    BY <2>1 DEF IInv, Safe, TimeoutsOf
<1>4. QED
  BY <1>1, <1>2, <1>3 DEF Safe

LEMMA EndTerminalSafe ==
  ASSUME IInv, ConstantsAssumption, NEW t \in Terminal, NEW l, l # "running",
         EndTerminal(t, l)
  PROVE  Safe'
<1>1. terminals[t] \in TerminalRecord
  BY DEF IInv, TypeOK
<1>2. Ended(t, l).lifecycle # "running"
  BY <1>1 DEF Ended, TerminalRecord
<1>3. /\ \A u \in {t} : terminals'[u].lifecycle # "running"
      /\ \A u \in Terminal \ {t} : terminals'[u] = terminals[u]
  BY <1>2 DEF EndTerminal, IInv, TypeOK
<1>4. Teardown({t}, timeouts) /\ {t} \in SUBSET Terminal
  BY DEF EndTerminal
<1>5. QED
  BY <1>3, <1>4, TeardownSafe

LEMMA RemoveTerminalsSafe ==
  ASSUME IInv, ConstantsAssumption, NEW T \in SUBSET Terminal, NEW D \in SUBSET T,
         RemoveTerminals(T, D)
  PROVE  Safe'
<1>1. \A t \in Terminal : Ended(t, "stopped").lifecycle # "running"
  <2>1. \A t \in Terminal : terminals[t] \in TerminalRecord
    BY DEF IInv, TypeOK
  <2>2. QED
    BY <2>1 DEF Ended, TerminalRecord
<1>2. NoTerminal.lifecycle # "running"
  BY DEF NoTerminal
<1> DEFINE R == [t \in Terminal |->
                   IF t \in T /\ sessions[t] # None THEN Ended(t, "stopped") ELSE terminals[t]]
<1>r. R \in [Terminal -> TerminalRecord] /\ terminals' = Without(D, R)
  BY EndedType DEF RemoveTerminals, IInv, TypeOK, Lifecycle
<1>k. \A t \in Terminal \ D : terminals'[t].lifecycle = R[t].lifecycle
  <2> HIDE DEF R
  <2>1. QED
    BY <1>r, WithoutKeeps
<1>3. \A t \in T : terminals'[t].lifecycle # "running"
  <2>1. \A t \in D : terminals'[t] = NoTerminal
    BY DEF RemoveTerminals, Without
  <2>2. \A t \in T : R[t].lifecycle # "running"
    BY <1>1 DEF IInv, Safe, LifecycleMatchesSessions
  <2>3. QED
    BY <1>2, <1>k, <2>1, <2>2
<1>4. \A t \in Terminal \ T : terminals'[t].lifecycle = terminals[t].lifecycle
  BY <1>k
<1>5. Teardown(T, timeouts)
  BY DEF RemoveTerminals
<1>6. QED
  BY <1>3, <1>4, <1>5, TeardownSafe

\* What adding a watcher to a session changes, and what it leaves.
LEMMA WatcherJoins ==
  ASSUME NEW y \in SessionRecord
  PROVE  /\ \A c \in Client :
              LET x == [y EXCEPT !.clients = @ \cup {c}]
              IN  /\ x \in SessionRecord /\ x.clients # {}
                  /\ x.terminal = y.terminal /\ x.state = y.state
                  /\ x.idleTimer = y.idleTimer
         /\ \A l \in Listener :
              LET x == [y EXCEPT !.listeners = @ \cup {l}]
              IN  /\ x \in SessionRecord /\ x.listeners # {}
                  /\ x.terminal = y.terminal /\ x.state = y.state
                  /\ x.idleTimer = y.idleTimer
BY DEF SessionRecord

\* Sockets and listeners keep the invariant: joining a session, and leaving it.
LEMMA ClientStepSafe == ASSUME IInv, ConstantsAssumption, ClientStep PROVE Safe'
<1> DEFINE e(t, s) == Ensured(t, s, terminals[t])
<1>1. ASSUME NEW t \in Terminal, NEW s \in SessionId PROVE e(t, s) \in SessionRecord
  BY EnsuredType DEF IInv, TypeOK
<1>2. ASSUME NEW c \in Client, NEW t \in Terminal, AttachClient(c, t) PROVE Safe'
  <2>1. PICK s \in SessionId : Join(t, s, [e(t, s) EXCEPT !.clients = @ \cup {c}])
    BY <1>2 DEF AttachClient
  <2> DEFINE x == [e(t, s) EXCEPT !.clients = @ \cup {c}]
  <2>2. /\ x \in SessionRecord /\ x.clients # {}
        /\ x.terminal = e(t, s).terminal /\ x.state = e(t, s).state
        /\ x.idleTimer = e(t, s).idleTimer
    BY <1>1, WatcherJoins
  <2>3. Join(t, s, x)
    BY <2>1
  <2> HIDE DEF x
  <2>4. QED
    BY <2>2, <2>3, JoinSafe
<1>3. ASSUME NEW l \in Listener, NEW t \in Terminal, ConnectDirect(l, t) PROVE Safe'
  <2>1. PICK s \in SessionId : Join(t, s, [e(t, s) EXCEPT !.listeners = @ \cup {l}])
    BY <1>3 DEF ConnectDirect
  <2> DEFINE x == [e(t, s) EXCEPT !.listeners = @ \cup {l}]
  <2>2. /\ x \in SessionRecord /\ x.listeners # {}
        /\ x.terminal = e(t, s).terminal /\ x.state = e(t, s).state
        /\ x.idleTimer = e(t, s).idleTimer
    BY <1>1, WatcherJoins
  <2>3. Join(t, s, x)
    BY <2>1
  <2> HIDE DEF x
  <2>4. QED
    BY <2>2, <2>3, JoinSafe
<1>4. UNCHANGED <<session, sessions, timeouts, terminals>> => Safe'
  BY RegistrySafe
<1>5. ASSUME NEW c \in Client, SocketClosed(c) PROVE Safe'
  <2> DEFINE s == attached[c]
             x == [session[s] EXCEPT !.clients = @ \ {c}]
  <2>1. s \in SessionId
    BY <1>5 DEF IInv, TypeOK, SocketClosed
  <2>2. session[s] \in SessionRecord
    BY <2>1 DEF IInv, TypeOK
  <2>3. /\ x \in SessionRecord
        /\ x.terminal = session[s].terminal /\ x.state = session[s].state
        /\ x.idleTimer = session[s].idleTimer
        /\ NeedsIdleClose(s, session[s]) => NeedsIdleClose(s, x)
    BY <2>2 DEF SessionRecord, NeedsIdleClose
  <2>4. /\ UNCHANGED <<sessions, terminals>>
        /\ UNCHANGED <<session, timeouts>> \/ ScheduleIdleClose(s, x)
    BY <1>5 DEF SocketClosed
  <2> HIDE DEF s, x
  <2>5. QED
    BY <1>4, <2>1, <2>3, <2>4, ScheduleSafe
<1>6. ASSUME NEW l \in Listener, DisposeDirect(l) PROVE Safe'
  <2> DEFINE s == attached[l]
             x == [session[s] EXCEPT !.listeners = @ \ {l}]
  <2>1. s \in SessionId
    BY <1>6 DEF IInv, TypeOK, DisposeDirect
  <2>2. session[s] \in SessionRecord
    BY <2>1 DEF IInv, TypeOK
  <2>3. /\ x \in SessionRecord
        /\ x.terminal = session[s].terminal /\ x.state = session[s].state
        /\ x.idleTimer = session[s].idleTimer
        /\ NeedsIdleClose(s, session[s]) => NeedsIdleClose(s, x)
    BY <2>2 DEF SessionRecord, NeedsIdleClose
  <2>4. /\ UNCHANGED <<sessions, terminals>>
        /\ UNCHANGED <<session, timeouts>> \/ ScheduleIdleClose(s, x)
    BY <1>6 DEF DisposeDirect
  <2> HIDE DEF s, x
  <2>5. QED
    BY <1>4, <2>1, <2>3, <2>4, ScheduleSafe
<1>7. QED
  BY <1>2, <1>3, <1>5, <1>6 DEF ClientStep

\* A pending idle timeout belongs to its terminal's own session.
LEMMA PendingIsCurrent ==
  ASSUME IInv, NEW s \in SessionId, NEW h \in TimerHandle, <<s, h>> \in timeouts
  PROVE  /\ session[s].terminal \in Terminal /\ sessions[session[s].terminal] = s
         /\ session[s].clients = {} /\ session[s].listeners = {}
BY DEF IInv, Safe, TimeoutsOf, NeedsIdleClose, Current

\* The timers keep the invariant.
LEMMA TimerStepSafe == ASSUME IInv, ConstantsAssumption, TimerStep PROVE Safe'
<1>1. ASSUME NEW s \in SessionId, PastePrompt(s) \/ SubmitPrompt(s) \/ PasteDraft(s)
      PROVE  Safe'
  BY <1>1, TypedSafe DEF PastePrompt, SubmitPrompt, PasteDraft
<1>2. ASSUME NEW s \in SessionId, NEW h \in TimerHandle, IdleExpire(s, h) PROVE Safe'
  <2> DEFINE t == session[s].terminal
             pending == timeouts \ {<<s, h>>}
  <2>1. t \in Terminal /\ sessions[t] = s /\ s # None
    BY <1>2, PendingIsCurrent DEF IdleExpire, ConstantsAssumption
  <2>2. Teardown({t}, pending)
    BY <1>2 DEF IdleExpire
  <2>3. terminals' = [terminals EXCEPT ![t] = Ended(t, "stopped")]
    BY <1>2, <2>1 DEF IdleExpire
  <2>4. \A q \in SessionId, g \in TimerHandle :
          <<q, g>> \in timeouts \ pending => q \in Ending({t})
    BY <2>1 DEF Ending
  <2>5. Ended(t, "stopped").lifecycle # "running"
    <3>1. terminals[t] \in TerminalRecord
      BY <2>1 DEF IInv, TypeOK
    <3>2. QED
      BY <3>1 DEF Ended, TerminalRecord
  <2>6. /\ \A u \in {t} : terminals'[u].lifecycle # "running"
        /\ \A u \in Terminal \ {t} : terminals'[u] = terminals[u]
    BY <2>1, <2>3, <2>5 DEF IInv, TypeOK
  <2>7. {t} \in SUBSET Terminal /\ pending \in SUBSET timeouts
    BY <2>1
  <2> HIDE DEF t, pending
  <2>8. QED
    BY <2>2, <2>4, <2>6, <2>7, TeardownSafe
<1>3. QED
  BY <1>1, <1>2 DEF TimerStep

\* The operator's requests keep the invariant.
LEMMA OperatorStepSafe == ASSUME IInv, ConstantsAssumption, OperatorStep PROVE Safe'
<1>1. ASSUME NEW t \in Terminal, StopTerminal(t) PROVE Safe'
  BY <1>1, EndTerminalSafe DEF StopTerminal
<1>2. ASSUME NEW t \in Terminal, DeleteTerminal(t) PROVE Safe'
  <2>1. Cascade(t) \in SUBSET Terminal
    BY DEF Cascade
  <2>2. RemoveTerminals(Cascade(t), Cascade(t))
    BY <1>2 DEF DeleteTerminal
  <2>3. QED
    BY <2>1, <2>2, RemoveTerminalsSafe
<1>3. ASSUME NEW t \in Terminal, NEW p \in Parents, NEW isWorktree \in WorktreeModes,
             NEW k \in Starters, NEW asked \in AskedIds,
             CreateTerminal(t, p, isWorktree, k, asked)
      PROVE  Safe'
  <2> DEFINE r == NewRecord(p, isWorktree, k, EffectiveId(t, asked))
             dirs == worktrees'
  <2>1. r \in TerminalRecord /\ r.lifecycle = "registered" /\ r.starter = k
    BY NewTerminalType DEF NewRecord
  <2>2. sessions[t] = None
    BY <1>3 DEF CreateTerminal, IInv, Safe, OpenSessionsAreOwned
  <2>3. \/ /\ terminals' = [terminals EXCEPT ![t] = r]
           /\ UNCHANGED <<session, sessions, timeouts>>
        \/ /\ k = "prompt"
           /\ \E s \in SessionId :
                /\ EnsureSession(t, s, r, dirs)
                /\ Enter(t, s, Ensured(t, s, r))
                /\ IF sessions[t] = s THEN terminals' = [terminals EXCEPT ![t] = r]
                                      ELSE MarkRunning(t, r)
    BY <1>3 DEF CreateTerminal
  <2> HIDE DEF r, dirs
  <2>4. CASE terminals' = [terminals EXCEPT ![t] = r]
             /\ UNCHANGED <<session, sessions, timeouts>>
    <3>1. \A u \in Terminal : \/ terminals'[u] = terminals[u]
                              \/ sessions[u] = None /\ terminals'[u].lifecycle # "running"
      BY <2>1, <2>2, <2>4 DEF IInv, TypeOK
    <3>2. QED
      BY <2>4, <3>1, RegistrySafe
  <2>5. ASSUME k = "prompt", NEW s \in SessionId, EnsureSession(t, s, r, dirs),
               Enter(t, s, Ensured(t, s, r)),
               IF sessions[t] = s THEN terminals' = [terminals EXCEPT ![t] = r]
                                  ELSE MarkRunning(t, r)
        PROVE  Safe'
    <3>1. sessions[t] # s
      BY <2>2 DEF ConstantsAssumption
    <3> DEFINE x == Ensured(t, s, r)
    <3>2. /\ x.terminal = t /\ x.state = "open" /\ session[s].state = "unborn"
          /\ x.keepAlive = (r.starter = "prompt")
      BY <2>1, <2>5, <3>1, EnsuredIsOpen
    <3>3. x \in SessionRecord
      BY <2>1, EnsuredType DEF IInv
    <3>4. /\ \A u \in Terminal : u # t => terminals'[u] = terminals[u]
          /\ terminals'[t].lifecycle = "running"
      <4>1. terminals' = [terminals EXCEPT ![t] = [r EXCEPT !.lifecycle = "running"]]
        BY <2>5, <3>1 DEF MarkRunning
      <4>2. [r EXCEPT !.lifecycle = "running"].lifecycle = "running"
        BY <2>1 DEF TerminalRecord
      <4>3. QED
        BY <4>1, <4>2 DEF IInv, TypeOK
    <3>5. x.keepAlive
      BY <2>1, <2>5, <3>2
    <3>6. Enter(t, s, x)
      BY <2>5
    <3> HIDE DEF x
    <3>7. QED
      BY <2>2, <3>2, <3>3, <3>4, <3>5, <3>6, EnterSafe
  <2>6. QED
    BY <2>3, <2>4, <2>5
<1>4. ASSUME NEW t \in Terminal, NEW f \in Terminal, NEW done \in SUBSET Terminal,
             DeleteFails(t, f, done)
      PROVE  Safe'
  <2>1. RemoveTerminals(done \cup {f}, done)
    BY <1>4 DEF DeleteFails
  <2>2. done \cup {f} \in SUBSET Terminal /\ done \in SUBSET (done \cup {f})
    OBVIOUS
  <2>3. QED
    BY <2>1, <2>2, RemoveTerminalsSafe
<1>5. ASSUME PruneTerminals PROVE Safe'
  <2> DEFINE gone == {t \in Terminal : Prunable(t)}
  <2>1. ASSUME NEW t \in Terminal
        PROVE  \/ terminals'[t].lifecycle = terminals[t].lifecycle
               \/ sessions[t] = None /\ terminals'[t].lifecycle # "running"
    <3>1. terminals' = Without(gone, terminals)
      BY <1>5 DEF PruneTerminals
    <3>2. CASE t \in gone
      BY <3>1, <3>2 DEF Without, Prunable, NoTerminal
    <3>3. CASE t \notin gone
      BY <3>1, <3>3, WithoutKeeps DEF IInv, TypeOK
    <3>4. QED
      BY <3>2, <3>3
  <2>2. QED
    BY <1>5, <2>1, RegistrySafe DEF PruneTerminals
<1>6. QED
  BY <1>1, <1>2, <1>3, <1>4, <1>5 DEF OperatorStep

LEMMA SafeNext == ASSUME IInv, ConstantsAssumption, [Next]_vars PROVE Safe'
<1>1. ASSUME NEW t \in Terminal, PtyExit(t) PROVE Safe'
  BY <1>1, EndTerminalSafe DEF PtyExit
<1>2. ASSUME NEW t \in Terminal, ReleaseKeepAlive(t) PROVE Safe'
  <2> DEFINE s == sessions[t]
             x == [session[s] EXCEPT !.keepAlive = FALSE]
  <2>1. s \in SessionId
    BY <1>2 DEF IInv, TypeOK, ReleaseKeepAlive
  <2>2. session[s] \in SessionRecord
    BY <2>1 DEF IInv, TypeOK
  <2>3. /\ x \in SessionRecord
        /\ x.terminal = session[s].terminal /\ x.state = session[s].state
        /\ x.idleTimer = session[s].idleTimer
        /\ NeedsIdleClose(s, session[s]) => NeedsIdleClose(s, x)
    BY <2>2 DEF SessionRecord, NeedsIdleClose
  <2>4. ScheduleIdleClose(s, x) /\ UNCHANGED <<sessions, terminals>>
    BY <1>2 DEF ReleaseKeepAlive
  <2> HIDE DEF s, x
  <2>5. QED
    BY <2>1, <2>3, <2>4, ScheduleSafe
<1>3. ASSUME Restart PROVE Safe'
  <2>1. RemoveTerminals(Terminal, {})
    BY <1>3 DEF Restart
  <2>2. QED
    BY <2>1, RemoveTerminalsSafe
<1>4. ASSUME Crash PROVE Safe'
  <2>1. \A t \in Terminal : Ended(t, "stale").lifecycle # "running"
    <3>1. \A t \in Terminal : terminals[t] \in TerminalRecord
      BY DEF IInv, TypeOK
    <3>2. QED
      BY <3>1 DEF Ended, TerminalRecord
  <2>2. \A t \in Terminal : terminals'[t].lifecycle # "running"
    BY <1>4, <2>1 DEF Crash
  <2>3. Teardown(Terminal, timeouts)
    BY <1>4 DEF Crash
  <2>4. QED
    BY <2>2, <2>3, TeardownSafe
<1>5. CASE UNCHANGED vars
  <2>1. UNCHANGED <<session, sessions, timeouts>> /\ terminals' = terminals
    BY <1>5 DEF vars
  <2>2. QED
    BY <2>1, RegistrySafe
<1>6. QED
  BY <1>1, <1>2, <1>3, <1>4, <1>5, ClientStepSafe, TimerStepSafe, OperatorStepSafe
     DEF Next

LEMMA Invariance == Spec => []IInv
<1>1. Init => IInv
  BY ConstantsAssumption, TypeInit, SafeInit DEF IInv
<1>2. IInv /\ [Next]_vars => IInv'
  BY ConstantsAssumption, TypeNext, SafeNext DEF IInv
<1>3. QED
  BY <1>1, <1>2, PTL DEF Spec

-----------------------------------------------------------------------------
(* The theorems.                                                           *)

\* No PTY is lost: the open session objects are exactly those that the sessions
\* map holds under their own, registered terminal.
THEOREM Ownership == Spec => []OpenSessionsAreOwned
<1>1. IInv => OpenSessionsAreOwned
  BY DEF IInv, Safe
<1>2. QED
  BY <1>1, Invariance, PTL

\* The registry says "running" of exactly the terminals that have a session.
THEOREM LifecycleAgrees == Spec => []LifecycleMatchesSessions
<1>1. IInv => LifecycleMatchesSessions
  BY DEF IInv, Safe
<1>2. QED
  BY <1>1, Invariance, PTL

\* No idle timeout is leaked, and none is missing.
THEOREM TimeoutsAreExact == Spec => []IdleTimeoutsAreExact
<1>1. IInv => IdleTimeoutsAreExact
  BY TimeoutsExact DEF IInv, Safe
<1>2. QED
  BY <1>1, Invariance, PTL

\* The idle timer never ends a watched session.  It closes by terminal id; that
\* the terminal's session is its own, and unwatched, is in the invariant.
THEOREM IdleExpirySparesWatched == Spec => IdleExpiryClosesOnlyIdleSessions
<1>1. ASSUME IInv, NEW s \in SessionId, NEW q \in SessionId, NEW h \in TimerHandle,
             IdleExpire(s, h), session[q].clients \cup session[q].listeners # {}
      PROVE  session'[q] = session[q]
  <2>1. sessions[session[s].terminal] = s /\ q # s
    BY <1>1, PendingIsCurrent DEF IdleExpire
  <2>2. Teardown({session[s].terminal}, timeouts \ {<<s, h>>})
    BY <1>1 DEF IdleExpire
  <2>3. q \notin Ending({session[s].terminal})
    BY <2>1 DEF Ending
  <2>4. QED
    BY <2>2, <2>3 DEF Teardown
<1>2. IInv => \A s, q \in SessionId, h \in TimerHandle :
        (IdleExpire(s, h) /\ session[q].clients \cup session[q].listeners # {})
          => session'[q] = session[q]
  BY <1>1
<1>3. IInv /\ [Next]_vars =>
        [\A s, q \in SessionId, h \in TimerHandle :
           (IdleExpire(s, h) /\ session[q].clients \cup session[q].listeners # {})
             => session'[q] = session[q]]_vars
  BY <1>2
<1>4. QED
  BY <1>3, Invariance, PTL DEF Spec, IdleExpiryClosesOnlyIdleSessions

\* A step leaves the ended sessions as they are.
Final == \A s \in SessionId : session[s].state = "closed" => session'[s] = session[s]

LEMMA EnterFinal ==
  ASSUME IInv, ConstantsAssumption, NEW t \in Terminal, NEW s \in SessionId,
         NEW r \in TerminalRecord, NEW dirs, EnsureSession(t, s, r, dirs),
         NEW x, Enter(t, s, x)
  PROVE  Final
<1>1. session[s].state # "closed"
  <2>1. CASE sessions[t] = s
    BY <2>1 DEF IInv, Safe, OpenSessionsAreOwned, Current, ConstantsAssumption
  <2>2. CASE sessions[t] # s
    BY <2>2 DEF EnsureSession
  <2>3. QED
    BY <2>1, <2>2
<1>2. \A q \in SessionId \ {s} : session'[q] = session[q]
  BY DEF Enter, IInv, TypeOK
<1>3. QED
  BY <1>1, <1>2 DEF Final

LEMMA ScheduleFinal ==
  ASSUME IInv, NEW s, session[s].state # "closed", NEW x, ScheduleIdleClose(s, x)
  PROVE  Final
<1>1. \A q \in SessionId : q # s => session'[q] = session[q]
  BY DEF ScheduleIdleClose, IInv, TypeOK
<1>2. QED
  BY <1>1 DEF Final

LEMMA TeardownFinal ==
  ASSUME IInv, ConstantsAssumption, NEW T \in SUBSET Terminal, NEW pending,
         Teardown(T, pending)
  PROVE  Final
<1>1. ASSUME NEW s \in SessionId, s \in Ending(T) PROVE session[s].state # "closed"
  BY <1>1 DEF Ending, IInv, Safe, OpenSessionsAreOwned, Current
<1>2. QED
  BY <1>1 DEF Final, Teardown

LEMMA FinalNext == ASSUME IInv, ConstantsAssumption, Next PROVE Final
<1>1. \A t \in Terminal : terminals[t] \in TerminalRecord
  BY DEF IInv, TypeOK
<1>2. UNCHANGED session => Final
  BY DEF Final
<1>3. CASE ClientStep
  <2>1. ASSUME NEW t \in Terminal, NEW s \in SessionId, NEW x, Join(t, s, x) PROVE Final
    BY <1>1, <2>1, EnterFinal DEF Join
  <2>2. ASSUME NEW c \in Client, SocketClosed(c) PROVE Final
    BY <1>2, <2>2, ScheduleFinal DEF SocketClosed
  <2>3. ASSUME NEW l \in Listener, DisposeDirect(l) PROVE Final
    BY <1>2, <2>3, ScheduleFinal DEF DisposeDirect
  <2>4. QED
    BY <1>3, <2>1, <2>2, <2>3 DEF ClientStep, AttachClient, ConnectDirect
<1>4. CASE TimerStep
  <2>1. ASSUME NEW s \in SessionId, NEW timer, NEW text, NEW next,
               Current(s), Typed(s, timer, text, next)
        PROVE  Final
    <3>1. session[s].state = "open"
      BY <2>1 DEF IInv, Safe, OpenSessionsAreOwned
    <3>2. \A q \in SessionId \ {s} : session'[q] = session[q]
      BY <2>1 DEF Typed, IInv, TypeOK
    <3>3. QED
      BY <3>1, <3>2 DEF Final
  <2>2. ASSUME NEW s \in SessionId, NEW h \in TimerHandle, IdleExpire(s, h) PROVE Final
    <3>1. {session[s].terminal} \in SUBSET Terminal
      BY <2>2, PendingIsCurrent DEF IdleExpire
    <3>2. QED
      BY <2>2, <3>1, TeardownFinal DEF IdleExpire
  <2>3. QED
    BY <1>4, <2>1, <2>2 DEF TimerStep, PastePrompt, SubmitPrompt, PasteDraft
<1>5. ASSUME NEW t \in Terminal, NEW l, EndTerminal(t, l) PROVE Final
  BY <1>5, TeardownFinal DEF EndTerminal
<1>6. ASSUME NEW T \in SUBSET Terminal, NEW D, RemoveTerminals(T, D) PROVE Final
  BY <1>6, TeardownFinal DEF RemoveTerminals
<1>7. CASE OperatorStep
  <2>1. ASSUME NEW t \in Terminal, StopTerminal(t) PROVE Final
    BY <1>5, <2>1 DEF StopTerminal
  <2>2. ASSUME NEW t \in Terminal, DeleteTerminal(t) PROVE Final
    <3>1. Cascade(t) \in SUBSET Terminal /\ RemoveTerminals(Cascade(t), Cascade(t))
      BY <2>2 DEF DeleteTerminal, Cascade
    <3>2. QED
      BY <1>6, <3>1
  <2>3. ASSUME NEW t \in Terminal, NEW p \in Parents, NEW isWorktree \in WorktreeModes,
               NEW k \in Starters, NEW asked \in AskedIds,
               CreateTerminal(t, p, isWorktree, k, asked)
        PROVE  Final
    <3> DEFINE r == NewRecord(p, isWorktree, k, EffectiveId(t, asked))
               dirs == worktrees'
    <3>1. r \in TerminalRecord
      BY NewTerminalType
    <3>2. \/ UNCHANGED session
          \/ \E s \in SessionId : EnsureSession(t, s, r, dirs)
                                  /\ Enter(t, s, Ensured(t, s, r))
      BY <2>3 DEF CreateTerminal
    <3> HIDE DEF r, dirs
    <3>3. QED
      BY <1>2, <3>1, <3>2, EnterFinal
  <2>4. ASSUME NEW t \in Terminal, NEW f \in Terminal, NEW done \in SUBSET Terminal,
               DeleteFails(t, f, done)
        PROVE  Final
    <3>1. done \cup {f} \in SUBSET Terminal /\ RemoveTerminals(done \cup {f}, done)
      BY <2>4 DEF DeleteFails
    <3>2. QED
      BY <1>6, <3>1
  <2>5. CASE PruneTerminals
    BY <1>2, <2>5 DEF PruneTerminals
  <2>6. QED
    BY <1>7, <2>1, <2>2, <2>3, <2>4, <2>5 DEF OperatorStep
<1>8. ASSUME NEW t \in Terminal, PtyExit(t) PROVE Final
  BY <1>5, <1>8 DEF PtyExit
<1>9. ASSUME NEW t \in Terminal, ReleaseKeepAlive(t) PROVE Final
  BY <1>9, ScheduleFinal DEF ReleaseKeepAlive
<1>10. CASE Restart
  <2>1. Terminal \in SUBSET Terminal /\ RemoveTerminals(Terminal, {})
    BY <1>10 DEF Restart
  <2>2. QED
    BY <1>6, <2>1
<1>11. CASE Crash
  BY <1>11, TeardownFinal DEF Crash
<1>12. QED
  BY <1>3, <1>4, <1>7, <1>8, <1>9, <1>10, <1>11 DEF Next

\* Nothing reopens or alters an ended session.
THEOREM EndedStaysEnded == Spec => EndedSessionsAreFinal
<1>1. IInv /\ [Next]_vars => [Final]_vars
  BY FinalNext, ConstantsAssumption
<1>2. (EndedSessionsAreFinal <=> [][Final]_vars)
  BY DEF EndedSessionsAreFinal, Final
<1>3. QED
  BY <1>1, <1>2, Invariance, PTL DEF Spec

\* What a step may do to the live sessions and the places they run in.  It may end
\* the sessions of T and drop the records of D, with the worktrees of D, or leave
\* those of T half removed;
SameMode(t) ==
  /\ terminals'[t].worktree = terminals[t].worktree
  /\ terminals'[t].effective = terminals[t].effective

Cwd(t) == session[sessions[t]].cwd

Shrinks(T, D) ==
  /\ Live' \subseteq Live /\ \A t \in T : t \notin Live'
  /\ \A t \in Live' : Cwd(t)' = Cwd(t)
  /\ \A t \in Terminal : IF t \in D THEN ~terminals'[t].worktree ELSE SameMode(t)
  /\ \A e \in WorktreeId :
       \/ worktrees'[e] = worktrees[e]
       \/ \E f \in D : terminals[f].worktree /\ terminals[f].effective = e
       \/ \E f \in T : /\ terminals[f].worktree /\ terminals[f].effective = e
                       /\ worktrees[e] # "absent" => worktrees'[e] # "absent"

LiveShrinks == \E T \in SUBSET Terminal : \E D \in SUBSET T : Shrinks(T, D)

\* start one for t below the limit, in the workspace or in the worktree of t's
\* effective id, which is there;
StartsIn(t) ==
  /\ t \notin Live /\ Live' = Live \cup {t} /\ Cardinality(Live) < SessionLimit
  /\ Cwd(t)' \in {None, terminals'[t].effective}
  /\ Cwd(t)' # None => worktrees'[Cwd(t)'] = "directory"

LiveGrows ==
  /\ \E t \in Terminal : StartsIn(t)
  /\ \A u \in Live : Cwd(u)' = Cwd(u)
  /\ \A u \in Terminal : SameMode(u)
  /\ UNCHANGED worktrees

\* or register t under the effective id e, with a worktree of its own or without.
Registers(t, w, e) ==
  /\ t \notin Live /\ (w => worktrees[e] = "absent")
  /\ worktrees' = WorktreesWith(w, e)
  /\ terminals'[t].worktree = w /\ terminals'[t].effective = e
  /\ \A u \in Terminal \ {t} : SameMode(u)
  /\ \A u \in Live : Cwd(u)' = Cwd(u)
  /\ Live' = Live \/ StartsIn(t)

LiveRegisters ==
  \E t \in Terminal, w \in BOOLEAN, e \in WorktreeId : Registers(t, w, e)

LEMMA MarkKeepsMode ==
  ASSUME IInv, NEW t \in Terminal, NEW r \in TerminalRecord, MarkRunning(t, r)
  PROVE  /\ terminals'[t].worktree = r.worktree /\ terminals'[t].effective = r.effective
         /\ \A u \in Terminal \ {t} : terminals'[u] = terminals[u]
<1>1. /\ [r EXCEPT !.lifecycle = "running"].worktree = r.worktree
      /\ [r EXCEPT !.lifecycle = "running"].effective = r.effective
  BY DEF TerminalRecord
<1>2. QED
  BY <1>1 DEF MarkRunning, IInv, TypeOK

LEMMA EndedKeepsMode ==
  ASSUME IInv, NEW t \in Terminal, NEW l
  PROVE  /\ Ended(t, l).worktree = terminals[t].worktree
         /\ Ended(t, l).effective = terminals[t].effective
<1>1. terminals[t] \in TerminalRecord
  BY DEF IInv, TypeOK
<1>2. QED
  BY <1>1 DEF Ended, TerminalRecord

LEMMA EnterLive ==
  ASSUME IInv, ConstantsAssumption, NEW t \in Terminal, NEW s \in SessionId,
         NEW x \in SessionRecord, Enter(t, s, x),
         \/ sessions[t] = s
         \/ sessions[t] = None /\ session[s].state = "unborn"
  PROVE  /\ Live' = Live \cup {t} /\ Cwd(t)' = x.cwd
         /\ \A u \in Live \ {t} : Cwd(u)' = Cwd(u)
<1>1. sessions' = [sessions EXCEPT ![t] = s] /\ s # None
  BY DEF Enter, ConstantsAssumption
<1>2. Live' = Live \cup {t}
  BY <1>1 DEF Live, IInv, TypeOK
<1>3. Bootstrapped([x EXCEPT !.idleTimer = None]).cwd = x.cwd
  BY BootstrappedKeeps
<1>4. /\ session'[s].cwd = x.cwd
      /\ \A q \in SessionId \ {s} : session'[q] = session[q]
  BY <1>3 DEF Enter, IInv, TypeOK
<1>5. ASSUME NEW u \in Live \ {t} PROVE Cwd(u)' = Cwd(u)
  <2>1. sessions'[u] = sessions[u] /\ sessions[u] \in SessionId
    BY <1>1 DEF Live, IInv, TypeOK
  <2>2. session[sessions[u]].terminal = u /\ Current(sessions[u])
    BY DEF IInv, Safe, OpenSessionsAreOwned, Live, Current
  <2>3. session[sessions[u]].state = "open"
    BY <2>1, <2>2 DEF IInv, Safe, OpenSessionsAreOwned
  <2>4. sessions[u] # s
    BY <1>1, <2>2, <2>3 DEF IInv, Safe, OpenSessionsAreOwned
  <2>5. QED
    BY <1>4, <2>1, <2>4 DEF Cwd
<1>6. sessions'[t] = s
  BY <1>1 DEF IInv, TypeOK
<1>7. QED
  BY <1>2, <1>4, <1>5, <1>6 DEF Cwd

\* The shell of a spawned session runs where ensureSession looked.
LEMMA SpawnedCwd ==
  ASSUME NEW t \in Terminal, NEW s \in SessionId, NEW r \in TerminalRecord, NEW dirs,
         sessions[t] # s, EnsureSession(t, s, r, dirs)
  PROVE  /\ sessions[t] = None /\ session[s].state = "unborn"
         /\ Cardinality(Live) < SessionLimit
         /\ Ensured(t, s, r).cwd \in {None, r.effective}
         /\ Ensured(t, s, r).cwd # None => dirs[Ensured(t, s, r).cwd] = "directory"
<1>1. sessions[t] = None /\ session[s].state = "unborn" /\ CanSpawn(r, dirs)
  BY DEF EnsureSession
<1>2. Ensured(t, s, r).cwd = IF InWorktree(r) THEN r.effective ELSE None
  BY DEF Ensured, Spawned, Unborn
<1>3. QED
  BY <1>1, <1>2 DEF CanSpawn

LEMMA JoinLive ==
  ASSUME IInv, ConstantsAssumption, NEW t \in Terminal, NEW s \in SessionId,
         NEW x \in SessionRecord, x.cwd = Ensured(t, s, terminals[t]).cwd, Join(t, s, x)
  PROVE  LiveShrinks \/ LiveGrows
<1>1. terminals[t] \in TerminalRecord
  BY DEF IInv, TypeOK
<1>2. Enter(t, s, x) /\ EnsureSession(t, s, terminals[t], worktrees) /\ UNCHANGED worktrees
  BY DEF Join
<1>3. CASE sessions[t] = s
  <2>1. Live' = Live \cup {t} /\ Cwd(t)' = x.cwd /\ \A u \in Live \ {t} : Cwd(u)' = Cwd(u)
    BY <1>2, <1>3, EnterLive
  <2>2. Live' = Live /\ Cwd(t) = x.cwd
    BY <1>3, <2>1 DEF Live, ConstantsAssumption, Cwd, Ensured
  <2>3. UNCHANGED terminals
    BY <1>3 DEF Join
  <2>4. Shrinks({}, {})
    BY <1>2, <2>1, <2>2, <2>3 DEF Shrinks, SameMode
  <2>5. QED
    BY <2>4 DEF LiveShrinks
<1>4. CASE sessions[t] # s
  <2>1. /\ sessions[t] = None /\ session[s].state = "unborn"
        /\ Cardinality(Live) < SessionLimit
        /\ x.cwd \in {None, terminals[t].effective}
        /\ x.cwd # None => worktrees[x.cwd] = "directory"
    BY <1>1, <1>2, <1>4, SpawnedCwd
  <2>2. Live' = Live \cup {t} /\ Cwd(t)' = x.cwd /\ \A u \in Live \ {t} : Cwd(u)' = Cwd(u)
    BY <1>2, <2>1, EnterLive
  <2>3. MarkRunning(t, terminals[t])
    BY <1>4 DEF Join
  <2>4. \A u \in Terminal : SameMode(u)
    BY <1>1, <2>3, MarkKeepsMode DEF SameMode
  <2>5. t \notin Live
    BY <2>1 DEF Live
  <2>6. StartsIn(t)
    BY <1>2, <2>1, <2>2, <2>4, <2>5 DEF StartsIn, SameMode
  <2>7. QED
    BY <1>2, <2>2, <2>4, <2>5, <2>6 DEF LiveGrows
<1>5. QED
  BY <1>3, <1>4

\* Handlers that start no session leave the directory of every shell alone.
LEMMA ScheduleKeepsCwd ==
  ASSUME IInv, NEW s \in SessionId, NEW x \in SessionRecord, x.cwd = session[s].cwd,
         ScheduleIdleClose(s, x)
  PROVE  \A q \in SessionId : session'[q].cwd = session[q].cwd
<1>1. \A h : [x EXCEPT !.idleTimer = h].cwd = x.cwd
  BY DEF SessionRecord
<1>2. QED
  BY <1>1 DEF ScheduleIdleClose, IInv, TypeOK

LEMMA TypedKeepsCwd ==
  ASSUME IInv, NEW s \in SessionId, NEW timer, NEW text, NEW next, Typed(s, timer, text, next)
  PROVE  \A q \in SessionId : session'[q].cwd = session[q].cwd
<1>1. session[s] \in SessionRecord
  BY DEF IInv, TypeOK
<1>2. session'[s].cwd = session[s].cwd
  BY <1>1 DEF Typed, SessionRecord, IInv, TypeOK
<1>3. \A q \in SessionId \ {s} : session'[q] = session[q]
  BY DEF Typed, IInv, TypeOK
<1>4. QED
  BY <1>2, <1>3

LEMMA QuietLive ==
  ASSUME IInv, UNCHANGED <<sessions, worktrees>>,
         \A q \in SessionId : session'[q].cwd = session[q].cwd,
         \A t \in Terminal : SameMode(t)
  PROVE  LiveShrinks
<1>1. \A t \in Live : sessions[t] \in SessionId
  BY DEF Live, IInv, TypeOK
<1>2. Live' = Live /\ \A t \in Live : Cwd(t)' = Cwd(t)
  BY <1>1 DEF Live, Cwd
<1>3. Shrinks({}, {})
  BY <1>2 DEF Shrinks
<1>4. QED
  BY <1>3 DEF LiveShrinks

\* Ending sessions of T while the records of D go, with the directories of both.
LEMMA TeardownLive ==
  ASSUME IInv, NEW T \in SUBSET Terminal, NEW D \in SUBSET T, NEW pending,
         Teardown(T, pending),
         \A t \in Terminal : IF t \in D THEN ~terminals'[t].worktree ELSE SameMode(t),
         \A e \in WorktreeId :
           \/ worktrees'[e] = worktrees[e]
           \/ \E f \in D : terminals[f].worktree /\ terminals[f].effective = e
           \/ \E f \in T : /\ terminals[f].worktree /\ terminals[f].effective = e
                           /\ worktrees[e] # "absent" => worktrees'[e] # "absent"
  PROVE  LiveShrinks
<1>1. \A t \in Terminal : sessions'[t] = IF t \in T THEN None ELSE sessions[t]
  BY DEF Teardown
<1>2. Live' = Live \ T
  BY <1>1 DEF Live
<1>3. \A s \in SessionId : session'[s].cwd = session[s].cwd
  <2>1. \A s \in SessionId : session[s] \in SessionRecord
    BY DEF IInv, TypeOK
  <2>2. \A s \in SessionId : Closed(session[s]).cwd = session[s].cwd
    BY <2>1 DEF Closed, SessionRecord
  <2>3. QED
    BY <2>2 DEF Teardown
<1>4. ASSUME NEW t \in Live' PROVE Cwd(t)' = Cwd(t)
  <2>1. sessions'[t] = sessions[t] /\ sessions[t] \in SessionId
    BY <1>1, <1>2 DEF Live, IInv, TypeOK
  <2>2. QED
    BY <1>3, <2>1 DEF Cwd
<1>5. Shrinks(T, D)
  BY <1>2, <1>4 DEF Shrinks
<1>6. QED
  BY <1>5 DEF LiveShrinks

\* One terminal ends and stays in the registry.
LEMMA EndLive ==
  ASSUME IInv, NEW t \in Terminal, NEW l, NEW pending, Teardown({t}, pending),
         UNCHANGED terminals \/ terminals' = [terminals EXCEPT ![t] = Ended(t, l)],
         UNCHANGED worktrees
  PROVE  LiveShrinks
<1>1. \A u \in Terminal : SameMode(u)
  BY EndedKeepsMode DEF SameMode, IInv, TypeOK
<1>2. {t} \in SUBSET Terminal /\ {} \in SUBSET {t}
  OBVIOUS
<1>3. QED
  BY <1>1, <1>2, TeardownLive

LEMMA WithoutModes ==
  ASSUME IInv, NEW D, NEW T, RemoveTerminals(T, D), NEW t \in Terminal
  PROVE  IF t \in D THEN ~terminals'[t].worktree ELSE SameMode(t)
<1> DEFINE R == [u \in Terminal |->
                   IF u \in T /\ sessions[u] # None THEN Ended(u, "stopped") ELSE terminals[u]]
<1>1. R \in [Terminal -> TerminalRecord] /\ terminals' = Without(D, R)
  BY EndedType DEF RemoveTerminals, IInv, TypeOK, Lifecycle
<1>2. R[t].worktree = terminals[t].worktree /\ R[t].effective = terminals[t].effective
  BY EndedKeepsMode
<1> HIDE DEF R
<1>3. CASE t \in D
  BY <1>1, <1>3 DEF Without, NoTerminal
<1>4. CASE t \notin D
  BY <1>1, <1>2, <1>4, WithoutKeeps DEF SameMode
<1>5. QED
  BY <1>3, <1>4

\* The directories deletes take.
LEMMA RemovedWorktrees ==
  ASSUME NEW D \in SUBSET Terminal, NEW e \in WorktreeId
  PROVE  \/ RemoveWorktrees(D)[e] = worktrees[e]
         \/ \E f \in D : terminals[f].worktree /\ terminals[f].effective = e
BY DEF RemoveWorktrees, WorktreesOf

LEMMA ClientStepLive ==
  ASSUME IInv, ConstantsAssumption, ClientStep PROVE LiveShrinks \/ LiveGrows
<1>t. \A t \in Terminal : terminals[t] \in TerminalRecord
  BY DEF IInv, TypeOK
<1>1. ASSUME NEW c \in Client, NEW t \in Terminal, AttachClient(c, t)
      PROVE  LiveShrinks \/ LiveGrows
  <2>1. PICK s \in SessionId :
          Join(t, s, [Ensured(t, s, terminals[t]) EXCEPT !.clients = @ \cup {c}])
    BY <1>1 DEF AttachClient
  <2> DEFINE y == Ensured(t, s, terminals[t])
             x == [y EXCEPT !.clients = @ \cup {c}]
  <2>2. y \in SessionRecord
    BY <1>t, EnsuredType DEF IInv
  <2>3. Join(t, s, x)
    BY <2>1
  <2>4. x \in SessionRecord /\ x.cwd = y.cwd
    BY <2>2 DEF SessionRecord
  <2> HIDE DEF x
  <2>5. QED
    BY <2>3, <2>4, JoinLive
<1>2. ASSUME NEW l \in Listener, NEW t \in Terminal, ConnectDirect(l, t)
      PROVE  LiveShrinks \/ LiveGrows
  <2>1. PICK s \in SessionId :
          Join(t, s, [Ensured(t, s, terminals[t]) EXCEPT !.listeners = @ \cup {l}])
    BY <1>2 DEF ConnectDirect
  <2> DEFINE y == Ensured(t, s, terminals[t])
             x == [y EXCEPT !.listeners = @ \cup {l}]
  <2>2. y \in SessionRecord
    BY <1>t, EnsuredType DEF IInv
  <2>3. Join(t, s, x)
    BY <2>1
  <2>4. x \in SessionRecord /\ x.cwd = y.cwd
    BY <2>2 DEF SessionRecord
  <2> HIDE DEF x
  <2>5. QED
    BY <2>3, <2>4, JoinLive
<1>3. ASSUME NEW s \in SessionId, NEW x \in SessionRecord, x.cwd = session[s].cwd,
             UNCHANGED session \/ ScheduleIdleClose(s, x),
             UNCHANGED <<terminals, sessions, worktrees>>
      PROVE  LiveShrinks
  <2>1. \A q \in SessionId : session'[q].cwd = session[q].cwd
    BY <1>3, ScheduleKeepsCwd
  <2>2. \A t \in Terminal : SameMode(t)
    BY <1>3 DEF SameMode
  <2>3. QED
    BY <1>3, <2>1, <2>2, QuietLive
<1>4. ASSUME NEW c \in Client, SocketClosed(c) PROVE LiveShrinks
  <2> DEFINE s == attached[c]
             x == [session[s] EXCEPT !.clients = @ \ {c}]
  <2>1. s \in SessionId /\ session[s] \in SessionRecord
    BY <1>4 DEF IInv, TypeOK, SocketClosed
  <2>2. x \in SessionRecord /\ x.cwd = session[s].cwd
    BY <2>1 DEF SessionRecord
  <2>3. /\ UNCHANGED session \/ ScheduleIdleClose(s, x)
        /\ UNCHANGED <<terminals, sessions, worktrees>>
    BY <1>4 DEF SocketClosed
  <2> HIDE DEF s, x
  <2>4. QED
    BY <1>3, <2>1, <2>2, <2>3
<1>5. ASSUME NEW l \in Listener, DisposeDirect(l) PROVE LiveShrinks
  <2> DEFINE s == attached[l]
             x == [session[s] EXCEPT !.listeners = @ \ {l}]
  <2>1. s \in SessionId /\ session[s] \in SessionRecord
    BY <1>5 DEF IInv, TypeOK, DisposeDirect
  <2>2. x \in SessionRecord /\ x.cwd = session[s].cwd
    BY <2>1 DEF SessionRecord
  <2>3. /\ UNCHANGED session \/ ScheduleIdleClose(s, x)
        /\ UNCHANGED <<terminals, sessions, worktrees>>
    BY <1>5 DEF DisposeDirect
  <2> HIDE DEF s, x
  <2>4. QED
    BY <1>3, <2>1, <2>2, <2>3
<1>6. QED
  BY <1>1, <1>2, <1>4, <1>5 DEF ClientStep

LEMMA TimerStepLive == ASSUME IInv, TimerStep PROVE LiveShrinks
<1>1. ASSUME NEW s \in SessionId, NEW h \in TimerHandle, IdleExpire(s, h) PROVE LiveShrinks
  <2>1. session[s].terminal \in Terminal
    BY <1>1, PendingIsCurrent DEF IdleExpire
  <2>2. QED
    BY <1>1, <2>1, EndLive DEF IdleExpire
<1>2. ASSUME NEW s \in SessionId, PastePrompt(s) \/ SubmitPrompt(s) \/ PasteDraft(s)
      PROVE  LiveShrinks
  <2>1. \A q \in SessionId : session'[q].cwd = session[q].cwd
    BY <1>2, TypedKeepsCwd DEF PastePrompt, SubmitPrompt, PasteDraft
  <2>2. UNCHANGED <<sessions, worktrees>> /\ \A t \in Terminal : SameMode(t)
    BY <1>2 DEF PastePrompt, SubmitPrompt, PasteDraft, SameMode
  <2>3. QED
    BY <2>1, <2>2, QuietLive
<1>3. QED
  BY <1>1, <1>2 DEF TimerStep

LEMMA CreateLive ==
  ASSUME IInv, ConstantsAssumption, NEW t \in Terminal, NEW p \in Parents,
         NEW isWorktree \in WorktreeModes, NEW k \in Starters, NEW asked \in AskedIds,
         CreateTerminal(t, p, isWorktree, k, asked)
  PROVE  LiveRegisters
<1> DEFINE e == EffectiveId(t, asked)
           r == NewRecord(p, isWorktree, k, e)
           dirs == worktrees'
<1>1. /\ r \in TerminalRecord /\ e \in WorktreeId /\ isWorktree \in BOOLEAN
      /\ r.worktree = isWorktree /\ r.effective = e
  BY NewTerminalType DEF NewRecord, ConstantsAssumption
<1>2. t \notin Live /\ sessions[t] = None
  BY DEF CreateTerminal, IInv, Safe, OpenSessionsAreOwned, Live
<1>3. /\ isWorktree => worktrees[e] = "absent"
      /\ worktrees' = WorktreesWith(isWorktree, e)
  BY DEF CreateTerminal
<1>4. \/ terminals' = [terminals EXCEPT ![t] = r] /\ UNCHANGED <<session, sessions>>
      \/ \E s \in SessionId :
           /\ EnsureSession(t, s, r, dirs)
           /\ Enter(t, s, Ensured(t, s, r))
           /\ IF sessions[t] = s THEN terminals' = [terminals EXCEPT ![t] = r]
                                 ELSE MarkRunning(t, r)
  BY DEF CreateTerminal
<1> HIDE DEF e, r, dirs
<1>5. CASE terminals' = [terminals EXCEPT ![t] = r] /\ UNCHANGED <<session, sessions>>
  <2>1. /\ terminals'[t].worktree = isWorktree /\ terminals'[t].effective = e
        /\ \A u \in Terminal \ {t} : SameMode(u)
    BY <1>1, <1>5 DEF SameMode, IInv, TypeOK
  <2>2. Live' = Live /\ \A u \in Live : Cwd(u)' = Cwd(u)
    BY <1>5 DEF Live, Cwd
  <2>3. Registers(t, isWorktree, e)
    BY <1>2, <1>3, <2>1, <2>2 DEF Registers
  <2>4. QED
    BY <1>1, <2>3 DEF LiveRegisters
<1>6. ASSUME NEW s \in SessionId, EnsureSession(t, s, r, dirs), Enter(t, s, Ensured(t, s, r)),
             IF sessions[t] = s THEN terminals' = [terminals EXCEPT ![t] = r]
                                ELSE MarkRunning(t, r)
      PROVE  LiveRegisters
  <2> DEFINE x == Ensured(t, s, r)
  <2>1. sessions[t] # s
    BY <1>2 DEF ConstantsAssumption
  <2>2. x \in SessionRecord
    BY <1>1, EnsuredType DEF IInv
  <2>3. /\ session[s].state = "unborn" /\ Cardinality(Live) < SessionLimit
        /\ x.cwd \in {None, e}
        /\ x.cwd # None => worktrees'[x.cwd] = "directory"
    BY <1>1, <1>6, <2>1, SpawnedCwd DEF dirs
  <2>4. Enter(t, s, x)
    BY <1>6
  <2> HIDE DEF x
  <2>5. Live' = Live \cup {t} /\ Cwd(t)' = x.cwd /\ \A u \in Live : Cwd(u)' = Cwd(u)
    BY <1>2, <2>2, <2>3, <2>4, EnterLive
  <2>6. /\ terminals'[t].worktree = isWorktree /\ terminals'[t].effective = e
        /\ \A u \in Terminal \ {t} : SameMode(u)
    BY <1>1, <1>6, <2>1, MarkKeepsMode DEF SameMode
  <2>7. StartsIn(t)
    BY <1>2, <2>3, <2>5, <2>6 DEF StartsIn
  <2>8. Registers(t, isWorktree, e)
    BY <1>2, <1>3, <2>5, <2>6, <2>7 DEF Registers
  <2>9. QED
    BY <1>1, <2>8 DEF LiveRegisters
<1>7. QED
  BY <1>4, <1>5, <1>6

LEMMA OperatorStepLive ==
  ASSUME IInv, ConstantsAssumption, OperatorStep PROVE LiveShrinks \/ LiveRegisters
<1>1. ASSUME NEW t \in Terminal, StopTerminal(t) PROVE LiveShrinks
  BY <1>1, EndLive DEF StopTerminal, EndTerminal
<1>2. ASSUME NEW t \in Terminal, DeleteTerminal(t) PROVE LiveShrinks
  <2> DEFINE all == Cascade(t)
  <2>1. all \in SUBSET Terminal /\ RemoveTerminals(all, all) /\ worktrees' = RemoveWorktrees(all)
    BY <1>2 DEF DeleteTerminal, Cascade
  <2> HIDE DEF all
  <2>2. \A u \in Terminal : IF u \in all THEN ~terminals'[u].worktree ELSE SameMode(u)
    BY <2>1, WithoutModes
  <2>3. \A e \in WorktreeId :
          \/ worktrees'[e] = worktrees[e]
          \/ \E f \in all : terminals[f].worktree /\ terminals[f].effective = e
    BY <2>1, RemovedWorktrees
  <2>4. Teardown(all, timeouts) /\ all \in SUBSET all
    BY <2>1 DEF RemoveTerminals
  <2>5. QED
    BY <2>1, <2>2, <2>3, <2>4, TeardownLive
<1>3. ASSUME NEW t \in Terminal, NEW f \in Terminal, NEW done \in SUBSET Terminal,
             DeleteFails(t, f, done)
      PROVE  LiveShrinks
  <2> DEFINE all == done \cup {f}
             e == terminals[f].effective
  <2>1. /\ all \in SUBSET Terminal /\ done \in SUBSET all /\ terminals[f].worktree
        /\ RemoveTerminals(all, done) /\ Teardown(all, timeouts)
    BY <1>3 DEF DeleteFails, RemoveTerminals
  <2>2. PICK left \in {worktrees[e], "branch"} :
          worktrees' = [RemoveWorktrees(done) EXCEPT ![e] = left]
    BY <1>3 DEF DeleteFails
  <2>3. \A u \in Terminal : IF u \in done THEN ~terminals'[u].worktree ELSE SameMode(u)
    BY <2>1, WithoutModes
  <2>4. ASSUME NEW x \in WorktreeId
        PROVE  \/ worktrees'[x] = worktrees[x]
               \/ \E g \in done : terminals[g].worktree /\ terminals[g].effective = x
               \/ \E g \in all : /\ terminals[g].worktree /\ terminals[g].effective = x
                                 /\ worktrees[x] # "absent" => worktrees'[x] # "absent"
    <3>1. CASE x = e
      <4>1. worktrees'[x] = left
        BY <2>2, <3>1 DEF RemoveWorktrees
      <4>2. QED
        BY <2>1, <2>2, <3>1, <4>1
    <3>2. CASE x # e
      <4>1. worktrees'[x] = RemoveWorktrees(done)[x]
        BY <2>2, <3>2 DEF RemoveWorktrees
      <4>2. QED
        BY <4>1, RemovedWorktrees
    <3>3. QED
      BY <3>1, <3>2
  <2> HIDE DEF all, e
  <2>5. QED
    BY <2>1, <2>3, <2>4, TeardownLive
<1>4. ASSUME PruneTerminals PROVE LiveShrinks
  <2> DEFINE gone == {t \in Terminal : Prunable(t)}
  <2>1. /\ terminals' = Without(gone, terminals)
        /\ UNCHANGED <<sessions, session, worktrees>>
    BY <1>4 DEF PruneTerminals
  <2>2. \A t \in gone : sessions[t] = None
    BY DEF Prunable
  <2> HIDE DEF gone
  <2>3. ASSUME NEW t \in Terminal
        PROVE  IF t \in gone THEN ~terminals'[t].worktree ELSE SameMode(t)
    <3>1. CASE t \in gone
      BY <2>1, <3>1 DEF Without, NoTerminal
    <3>2. CASE t \notin gone
      BY <2>1, <3>2, WithoutKeeps DEF SameMode, IInv, TypeOK
    <3>3. QED
      BY <3>1, <3>2
  <2>4. Live' = Live /\ \A t \in Live : Cwd(t)' = Cwd(t)
    BY <2>1 DEF Live, Cwd
  <2>5. gone \in SUBSET Terminal /\ \A t \in gone : t \notin Live'
    BY <2>2, <2>4 DEF Live, gone
  <2>6. Shrinks(gone, gone)
    BY <2>1, <2>3, <2>4, <2>5 DEF Shrinks
  <2>7. QED
    BY <2>5, <2>6 DEF LiveShrinks
<1>5. QED
  BY <1>1, <1>2, <1>3, <1>4, CreateLive DEF OperatorStep

LEMMA LiveNext ==
  ASSUME IInv, ConstantsAssumption, [Next]_vars
  PROVE  LiveShrinks \/ LiveGrows \/ LiveRegisters
<1>1. CASE Restart
  <2>1. RemoveTerminals(Terminal, {}) /\ UNCHANGED worktrees
    BY <1>1 DEF Restart
  <2>2. \A t \in Terminal : SameMode(t)
    BY <2>1, WithoutModes
  <2>3. QED
    BY <2>1, <2>2, TeardownLive DEF RemoveTerminals
<1>2. CASE Crash
  <2>1. Teardown(Terminal, timeouts) /\ UNCHANGED worktrees
    BY <1>2 DEF Crash
  <2>2. \A t \in Terminal : SameMode(t)
    BY <1>2, EndedKeepsMode DEF Crash, SameMode
  <2>3. QED
    BY <2>1, <2>2, TeardownLive
<1>3. ASSUME NEW t \in Terminal, PtyExit(t) PROVE LiveShrinks
  BY <1>3, EndLive DEF PtyExit, EndTerminal
<1>4. ASSUME NEW t \in Terminal, ReleaseKeepAlive(t) PROVE LiveShrinks
  <2> DEFINE s == sessions[t]
             x == [session[s] EXCEPT !.keepAlive = FALSE]
  <2>1. s \in SessionId /\ session[s] \in SessionRecord
    BY <1>4 DEF IInv, TypeOK, ReleaseKeepAlive
  <2>2. x \in SessionRecord /\ x.cwd = session[s].cwd
    BY <2>1 DEF SessionRecord
  <2>3. ScheduleIdleClose(s, x) /\ UNCHANGED <<terminals, sessions, worktrees>>
    BY <1>4 DEF ReleaseKeepAlive
  <2> HIDE DEF s, x
  <2>4. \A q \in SessionId : session'[q].cwd = session[q].cwd
    BY <2>1, <2>2, <2>3, ScheduleKeepsCwd
  <2>5. \A u \in Terminal : SameMode(u)
    BY <2>3 DEF SameMode
  <2>6. QED
    BY <2>3, <2>4, <2>5, QuietLive
<1>5. CASE UNCHANGED vars
  BY <1>5, QuietLive DEF vars, SameMode
<1>6. QED
  BY <1>1, <1>2, <1>3, <1>4, <1>5, ClientStepLive, TimerStepLive, OperatorStepLive DEF Next

\* Why no delete takes the directory under a worktree terminal's shell: a worktree
\* terminal has a worktree or what a half-failed delete left of it, no two have the
\* same, and a shell runs in the workspace or in the worktree of its terminal's id.
Placed ==
  /\ \A t \in Terminal : terminals[t].worktree =>
       terminals[t].effective \in WorktreeId /\ worktrees[terminals[t].effective] # "absent"
  /\ \A t, u \in Terminal :
       (/\ terminals[t].worktree /\ terminals[u].worktree
        /\ terminals[t].effective = terminals[u].effective) => t = u
  /\ \A t \in Live : Cwd(t) \in {None, terminals[t].effective}
  /\ \A t \in Live :
       terminals[t].worktree /\ Cwd(t) # None => worktrees[Cwd(t)] = "directory"

LEMMA PlacedShrinks ==
  ASSUME Placed, NEW T \in SUBSET Terminal, NEW D \in SUBSET T, Shrinks(T, D) PROVE Placed'
<1>1. ASSUME NEW t \in Terminal, terminals'[t].worktree
      PROVE  t \notin D /\ SameMode(t) /\ terminals[t].worktree
  BY <1>1 DEF Shrinks, SameMode
<1>2. ASSUME NEW t \in Terminal, terminals'[t].worktree, t \notin T
      PROVE  worktrees'[terminals[t].effective] = worktrees[terminals[t].effective]
  BY <1>1, <1>2 DEF Shrinks, Placed
<1>3. ASSUME NEW t \in Terminal, terminals'[t].worktree
      PROVE  worktrees'[terminals[t].effective] # "absent"
  BY <1>1, <1>3 DEF Shrinks, Placed
<1>4. \A t \in Terminal : terminals'[t].worktree =>
        terminals'[t].effective \in WorktreeId /\ worktrees'[terminals'[t].effective] # "absent"
  BY <1>1, <1>3 DEF SameMode, Placed
<1>5. \A t, u \in Terminal :
        (/\ terminals'[t].worktree /\ terminals'[u].worktree
         /\ terminals'[t].effective = terminals'[u].effective) => t = u
  BY <1>1 DEF SameMode, Placed
<1>6. ASSUME NEW t \in Live'
      PROVE  t \in Live /\ t \in Terminal /\ t \notin T /\ SameMode(t) /\ Cwd(t)' = Cwd(t)
  BY <1>6 DEF Shrinks, Live
<1>7. \A t \in Live' : Cwd(t)' \in {None, terminals'[t].effective}
  BY <1>6 DEF SameMode, Placed
<1>8. ASSUME NEW t \in Live', terminals'[t].worktree, Cwd(t)' # None
      PROVE  worktrees'[Cwd(t)'] = "directory"
  <2>1. Cwd(t) = terminals[t].effective /\ worktrees[Cwd(t)] = "directory"
    BY <1>1, <1>6, <1>8 DEF Placed
  <2>2. QED
    BY <1>2, <1>6, <1>8, <2>1
<1>9. QED
  BY <1>4, <1>5, <1>7, <1>8 DEF Placed

LEMMA PlacedGrows == ASSUME Placed, LiveGrows PROVE Placed'
<1>1. PICK t \in Terminal : StartsIn(t)
  BY DEF LiveGrows
<1>2. \A u \in Live' : u \in Terminal /\ (u \in Live \/ u = t)
  BY <1>1 DEF StartsIn, Live
<1>3. \A u \in Live' : Cwd(u)' \in {None, terminals'[u].effective}
  BY <1>1, <1>2 DEF LiveGrows, StartsIn, SameMode, Placed
<1>4. \A u \in Live' :
        terminals'[u].worktree /\ Cwd(u)' # None => worktrees'[Cwd(u)'] = "directory"
  BY <1>1, <1>2 DEF LiveGrows, StartsIn, SameMode, Placed
<1>5. \A u \in Terminal : SameMode(u) /\ worktrees' = worktrees
  BY DEF LiveGrows
<1>6. QED
  BY <1>3, <1>4, <1>5 DEF Placed, SameMode

LEMMA PlacedRegisters ==
  ASSUME TypeOK, Placed, NEW t \in Terminal, NEW w \in BOOLEAN, NEW e \in WorktreeId,
         Registers(t, w, e)
  PROVE  Placed'
<1>1. /\ terminals'[t].worktree = w /\ terminals'[t].effective = e
      /\ \A u \in Terminal \ {t} : SameMode(u)
      /\ w => worktrees[e] = "absent"
  BY DEF Registers
<1>2. /\ w => worktrees'[e] = "directory"
      /\ \A x \in WorktreeId : worktrees'[x] = worktrees[x] \/ (x = e /\ w)
  BY DEF Registers, WorktreesWith, TypeOK
<1>3. ASSUME NEW u \in Terminal \ {t}, terminals'[u].worktree
      PROVE  /\ terminals[u].worktree /\ terminals'[u].effective = terminals[u].effective
             /\ terminals[u].effective \in WorktreeId
             /\ worktrees[terminals[u].effective] # "absent"
  BY <1>1, <1>3 DEF SameMode, Placed
<1>4. \A u \in Terminal : terminals'[u].worktree =>
        terminals'[u].effective \in WorktreeId /\ worktrees'[terminals'[u].effective] # "absent"
  BY <1>1, <1>2, <1>3
<1>5. \A u, v \in Terminal :
        (/\ terminals'[u].worktree /\ terminals'[v].worktree
         /\ terminals'[u].effective = terminals'[v].effective) => u = v
  BY <1>1, <1>3 DEF Placed
<1>6. ASSUME NEW u \in Live'
      PROVE  /\ u \in Terminal
             /\ \/ u # t /\ u \in Live /\ Cwd(u)' = Cwd(u)
                \/ u = t /\ StartsIn(t)
  BY <1>6 DEF Registers, StartsIn, Live
<1>7. \A u \in Live' : Cwd(u)' \in {None, terminals'[u].effective}
  BY <1>1, <1>6 DEF StartsIn, SameMode, Placed
<1>8. ASSUME NEW u \in Live', terminals'[u].worktree, Cwd(u)' # None
      PROVE  worktrees'[Cwd(u)'] = "directory"
  <2>1. CASE u = t
    BY <1>6, <1>8, <2>1 DEF StartsIn
  <2>2. CASE u # t
    <3>1. Cwd(u) = terminals[u].effective /\ worktrees[Cwd(u)] = "directory"
      BY <1>3, <1>6, <1>8, <2>2 DEF Placed
    <3>2. QED
      BY <1>2, <1>3, <1>6, <1>8, <2>2, <3>1
  <2>3. QED
    BY <2>1, <2>2
<1>9. QED
  BY <1>4, <1>5, <1>7, <1>8 DEF Placed

\* No worktree terminal's shell loses its directory, whatever ids requests carry and
\* whichever deletes of other terminals succeed or fail half way.
THEOREM WorktreesOutliveSessions == Spec => []SessionsHaveTheirWorktree
<1>1. Init => Placed
  BY DEF Init, Placed, Live, NoTerminal
<1>2. IInv /\ Placed /\ [Next]_vars => Placed'
  <2> SUFFICES ASSUME IInv, Placed, [Next]_vars PROVE Placed'
    OBVIOUS
  <2>1. CASE LiveShrinks
    BY <2>1, PlacedShrinks DEF LiveShrinks
  <2>2. CASE LiveGrows
    BY <2>2, PlacedGrows
  <2>3. CASE LiveRegisters
    BY <2>3, PlacedRegisters DEF LiveRegisters, IInv
  <2>4. QED
    BY <2>1, <2>2, <2>3, LiveNext, ConstantsAssumption
<1>3. Placed => SessionsHaveTheirWorktree
  BY DEF Placed, Cwd, SessionsHaveTheirWorktree
<1>4. QED
  BY <1>1, <1>2, <1>3, Invariance, PTL DEF Spec
\* Sessions are counted by the map; ownership carries the bound over to the
\* session objects.
LEMMA OpenSessionsAreCounted ==
  ASSUME IInv, ConstantsAssumption, Cardinality(Live) <= SessionLimit
  PROVE  WithinSessionLimit
<1> DEFINE open == {s \in SessionId : session[s].state = "open"}
           f == [s \in open |-> session[s].terminal]
<1>1. IsFiniteSet(Live)
  BY FS_Subset DEF Live, ConstantsAssumption
<1>2. \A s \in open : session[s].terminal \in Live /\ sessions[session[s].terminal] = s
  BY DEF IInv, Safe, OpenSessionsAreOwned, Current, Live, ConstantsAssumption
<1>3. f \in Injection(open, Live)
  BY <1>2 DEF Injection, IsInjective
<1>4. IsFiniteSet(open) /\ Cardinality(open) <= Cardinality(Live)
  <2> HIDE DEF open, f
  <2>1. QED
    BY <1>1, <1>3, FS_Injection
<1>5. Cardinality(open) \in Nat /\ Cardinality(Live) \in Nat /\ SessionLimit \in Nat
  BY <1>1, <1>4, FS_CardinalityType DEF ConstantsAssumption
<1>6. Cardinality(open) <= SessionLimit
  <2> HIDE DEF open
  <2>1. QED
    BY <1>4, <1>5
<1>7. QED
  BY <1>6 DEF WithinSessionLimit

\* OCTOGENT_MAX_TERMINAL_SESSIONS bounds the open shells.
THEOREM SessionsAreLimited == Spec => []WithinSessionLimit
<1> DEFINE Bound == Cardinality(Live) <= SessionLimit
<1>1. Init => Bound
  <2>1. Init => Live = {}
    BY DEF Init, Live
  <2>2. QED
    BY <2>1, FS_EmptySet, ConstantsAssumption DEF ConstantsAssumption
<1>2. IInv /\ Bound /\ [Next]_vars => Bound'
  <2> SUFFICES ASSUME IInv, Bound, [Next]_vars PROVE Bound'
    OBVIOUS
  <2>1. IsFiniteSet(Live) /\ Cardinality(Live) \in Nat /\ SessionLimit \in Nat
    BY FS_Subset, FS_CardinalityType, ConstantsAssumption DEF Live, ConstantsAssumption
  <2>2. CASE Live' \subseteq Live
    <3>1. Live' \in SUBSET Live
      BY <2>2
    <3>2. IsFiniteSet(Live') /\ Cardinality(Live') <= Cardinality(Live)
      BY <2>1, <3>1, FS_Subset
    <3>3. Cardinality(Live') \in Nat
      BY <3>2, FS_CardinalityType
    <3>4. QED
      BY <2>1, <3>2, <3>3
  <2>3. CASE \E t \in Terminal : StartsIn(t)
    <3>1. PICK t \in Terminal : Live' = Live \cup {t} /\ Cardinality(Live) < SessionLimit
      BY <2>3 DEF StartsIn
    <3>2. Cardinality(Live') \in {Cardinality(Live), Cardinality(Live) + 1}
      BY <2>1, <3>1, FS_AddElement
    <3>3. QED
      BY <2>1, <3>1, <3>2
  <2>4. Live' \subseteq Live \/ \E t \in Terminal : StartsIn(t)
    BY LiveNext, ConstantsAssumption
       DEF LiveShrinks, Shrinks, LiveGrows, LiveRegisters, Registers
  <2>5. QED
    BY <2>2, <2>3, <2>4
<1>3. IInv /\ Bound => WithinSessionLimit
  BY OpenSessionsAreCounted, ConstantsAssumption
<1>4. QED
  BY <1>1, <1>2, <1>3, Invariance, PTL DEF Spec

-----------------------------------------------------------------------------
(* What Octogent types.                                                     *)

\* Where a session is in what it types: nothing yet, the command, the prompt pasted,
\* all of it; and what its timers may still type.
OnScript(x) ==
  \/ x.written = <<>> /\ ~x.bootSent /\ ~x.starterSent /\ x.promptTimers = {}
  \/ /\ x.written = <<"boot">> /\ x.bootSent /\ ~x.starterSent
     /\ x.promptTimers \subseteq (IF x.starter = "prompt" THEN {"paste"}
                                  ELSE IF x.starter = "draft" THEN {"draft"} ELSE {})
  \/ /\ x.written = <<"boot", "paste">> /\ x.bootSent /\ x.starterSent
     /\ x.starter = "prompt" /\ x.promptTimers \subseteq {"submit"}
  \/ /\ x.written = <<"boot", "paste", "submit">> /\ x.bootSent /\ x.starterSent
     /\ x.starter = "prompt" /\ x.promptTimers = {}
  \/ /\ x.written = <<"boot", "draft">> /\ x.bootSent /\ x.starterSent
     /\ x.starter = "draft" /\ x.promptTimers = {}

AllOnScript == \A s \in SessionId : OnScript(session[s])

\* The scripts and their beginnings.
LEMMA PromptScript ==
  ASSUME NEW w, w \in {<<>>, <<"boot">>, <<"boot", "paste">>, <<"boot", "paste", "submit">>}
  PROVE  /\ Len(w) <= Len(<<"boot", "paste", "submit">>)
         /\ w = SubSeq(<<"boot", "paste", "submit">>, 1, Len(w))
<1> DEFINE script == <<"boot", "paste", "submit">>
<1>1. CASE w = <<>>
  <2>1. <<>> = SubSeq(<<"boot", "paste", "submit">>, 1, 0)
    OBVIOUS
  <2> QED BY <1>1, <2>1
<1>2. CASE w = <<"boot">>
  <2>1. <<"boot">> = SubSeq(<<"boot", "paste", "submit">>, 1, 1)
    OBVIOUS
  <2> QED BY <1>2, <2>1
<1>3. CASE w = <<"boot", "paste">>
  <2>1. <<"boot", "paste">> = SubSeq(<<"boot", "paste", "submit">>, 1, 2)
    OBVIOUS
  <2> QED BY <1>3, <2>1
<1>4. CASE w = script
  <2>1. <<"boot", "paste", "submit">> = SubSeq(<<"boot", "paste", "submit">>, 1, 3)
    OBVIOUS
  <2> QED BY <1>4, <2>1
<1> QED BY <1>1, <1>2, <1>3, <1>4

LEMMA DraftScript ==
  ASSUME NEW w, w \in {<<>>, <<"boot">>, <<"boot", "draft">>}
  PROVE  /\ Len(w) <= Len(<<"boot", "draft">>)
         /\ w = SubSeq(<<"boot", "draft">>, 1, Len(w))
<1>1. CASE w = <<>>
  <2>1. <<>> = SubSeq(<<"boot", "draft">>, 1, 0)
    OBVIOUS
  <2> QED BY <1>1, <2>1
<1>2. CASE w = <<"boot">>
  <2>1. <<"boot">> = SubSeq(<<"boot", "draft">>, 1, 1)
    OBVIOUS
  <2> QED BY <1>2, <2>1
<1>3. CASE w = <<"boot", "draft">>
  <2>1. <<"boot", "draft">> = SubSeq(<<"boot", "draft">>, 1, 2)
    OBVIOUS
  <2> QED BY <1>3, <2>1
<1> QED BY <1>1, <1>2, <1>3

LEMMA BareScript ==
  ASSUME NEW w, w \in {<<>>, <<"boot">>}
  PROVE  Len(w) <= Len(<<"boot">>) /\ w = SubSeq(<<"boot">>, 1, Len(w))
<1>1. CASE w = <<>>
  <2>1. <<>> = SubSeq(<<"boot">>, 1, 0)
    OBVIOUS
  <2> QED BY <1>1, <2>1
<1>2. CASE w = <<"boot">>
  <2>1. <<"boot">> = SubSeq(<<"boot">>, 1, 1)
    OBVIOUS
  <2> QED BY <1>2, <2>1
<1> QED BY <1>1, <1>2

LEMMA OnScriptIsInOrder == AllOnScript => TypedInOrder
<1> SUFFICES ASSUME NEW s \in SessionId, OnScript(session[s])
             PROVE  LET x == session[s]
                        script == CASE x.starter = "prompt" -> <<"boot", "paste", "submit">>
                                    [] x.starter = "draft"  -> <<"boot", "draft">>
                                    [] OTHER                -> <<"boot">>
                    IN  /\ Len(x.written) <= Len(script)
                        /\ x.written = SubSeq(script, 1, Len(x.written))
  BY DEF AllOnScript, TypedInOrder
<1> DEFINE x == session[s]
           w == x.written
<1>1. CASE x.starter = "prompt"
  <2>1. w \in {<<>>, <<"boot">>, <<"boot", "paste">>, <<"boot", "paste", "submit">>}
    BY <1>1 DEF OnScript
  <2> QED BY <1>1, <2>1, PromptScript
<1>2. CASE x.starter = "draft"
  <2>1. w \in {<<>>, <<"boot">>, <<"boot", "draft">>}
    BY <1>2 DEF OnScript
  <2> QED BY <1>2, <2>1, DraftScript
<1>3. CASE x.starter # "prompt" /\ x.starter # "draft"
  <2>1. w \in {<<>>, <<"boot">>}
    BY <1>3 DEF OnScript
  <2> QED BY <1>3, <2>1, BareScript
<1> QED BY <1>1, <1>2, <1>3

\* Dropping timers, or anything that typing does not look at.
LEMMA OnScriptFrame ==
  ASSUME NEW x, NEW y, OnScript(x),
         y.starter = x.starter, y.written = x.written, y.bootSent = x.bootSent,
         y.starterSent = x.starterSent, y.promptTimers \subseteq x.promptTimers
  PROVE  OnScript(y)
BY DEF OnScript

LEMMA SpawnedOnScript ==
  ASSUME NEW t, NEW r
  PROVE  OnScript(Spawned(t, r))
BY DEF OnScript, Spawned, Unborn

LEMMA BootstrappedOnScript ==
  ASSUME NEW x \in SessionRecord, OnScript(x)
  PROVE  OnScript(Bootstrapped(x))
<1>1. CASE x.bootSent
  BY <1>1 DEF Bootstrapped
<1>2. CASE ~x.bootSent
  <2> DEFINE added == CASE x.starterSent        -> {}
                        [] x.starter = "prompt" -> {"paste"}
                        [] x.starter = "draft"  -> {"draft"}
                        [] OTHER                -> {}
             log == Append(x.written, "boot")
  <2>1. x.written = <<>> /\ ~x.starterSent /\ x.promptTimers = {}
    BY <1>2 DEF OnScript
  <2>2. log = <<"boot">>
    BY <2>1
  <2>3. added = IF x.starter = "prompt" THEN {"paste"}
                ELSE IF x.starter = "draft" THEN {"draft"} ELSE {}
    BY <2>1
  <2>4. Bootstrapped(x) = [x EXCEPT !.bootSent = TRUE, !.written = log,
                                    !.promptTimers = @ \cup added]
    BY <1>2 DEF Bootstrapped
  <2> HIDE DEF added, log
  <2>5. /\ Bootstrapped(x).written = log /\ Bootstrapped(x).bootSent
        /\ ~Bootstrapped(x).starterSent /\ Bootstrapped(x).starter = x.starter
        /\ Bootstrapped(x).promptTimers = added
    BY <2>1, <2>4 DEF SessionRecord
  <2> QED BY <2>2, <2>3, <2>5 DEF OnScript
<1> QED BY <1>1, <1>2

LEMMA EnterOnScript ==
  ASSUME TypeOK, AllOnScript, NEW t \in Terminal, NEW s \in SessionId, NEW x \in SessionRecord,
         OnScript(x), Enter(t, s, x)
  PROVE  AllOnScript'
<1> DEFINE y == [x EXCEPT !.idleTimer = None]
<1>1. y \in SessionRecord /\ OnScript(y)
  <2>1. /\ y.starter = x.starter /\ y.written = x.written /\ y.bootSent = x.bootSent
        /\ y.starterSent = x.starterSent /\ y.promptTimers = x.promptTimers
    BY DEF SessionRecord
  <2> HIDE DEF y
  <2>2. OnScript(y)
    BY <2>1, OnScriptFrame
  <2> QED BY <2>2, IdleTimerType DEF y
<1>2. session' = [session EXCEPT ![s] = Bootstrapped(y)]
  BY DEF Enter
<1> HIDE DEF y
<1>3. OnScript(Bootstrapped(y))
  BY <1>1, BootstrappedOnScript
<1> QED BY <1>2, <1>3 DEF AllOnScript, TypeOK

LEMMA EnsuredOnScript ==
  ASSUME TypeOK, AllOnScript, NEW t \in Terminal, NEW s \in SessionId, NEW r \in TerminalRecord
  PROVE  /\ Ensured(t, s, r) \in SessionRecord /\ OnScript(Ensured(t, s, r))
         /\ \A c \in Client : LET x == [Ensured(t, s, r) EXCEPT !.clients = @ \cup {c}]
                              IN  x \in SessionRecord /\ OnScript(x)
         /\ \A l \in Listener : LET x == [Ensured(t, s, r) EXCEPT !.listeners = @ \cup {l}]
                                IN  x \in SessionRecord /\ OnScript(x)
<1> DEFINE e == Ensured(t, s, r)
<1>1. e \in SessionRecord /\ OnScript(e)
  BY EnsuredType, SpawnedOnScript DEF AllOnScript, Ensured
<1> HIDE DEF e
<1>2. ASSUME NEW c \in Client
      PROVE  [e EXCEPT !.clients = @ \cup {c}] \in SessionRecord
             /\ OnScript([e EXCEPT !.clients = @ \cup {c}])
  <2> DEFINE x == [e EXCEPT !.clients = @ \cup {c}]
  <2>1. x \in SessionRecord
    BY <1>1 DEF SessionRecord
  <2>2. /\ x.starter = e.starter /\ x.written = e.written /\ x.bootSent = e.bootSent
        /\ x.starterSent = e.starterSent /\ x.promptTimers = e.promptTimers
    BY <1>1 DEF SessionRecord
  <2> HIDE DEF x
  <2>3. OnScript(x)
    BY <1>1, <2>2, OnScriptFrame
  <2> QED BY <2>1, <2>3 DEF x
<1>3. ASSUME NEW l \in Listener
      PROVE  [e EXCEPT !.listeners = @ \cup {l}] \in SessionRecord
             /\ OnScript([e EXCEPT !.listeners = @ \cup {l}])
  <2> DEFINE x == [e EXCEPT !.listeners = @ \cup {l}]
  <2>1. x \in SessionRecord
    BY <1>1 DEF SessionRecord
  <2>2. /\ x.starter = e.starter /\ x.written = e.written /\ x.bootSent = e.bootSent
        /\ x.starterSent = e.starterSent /\ x.promptTimers = e.promptTimers
    BY <1>1 DEF SessionRecord
  <2> HIDE DEF x
  <2>3. OnScript(x)
    BY <1>1, <2>2, OnScriptFrame
  <2> QED BY <2>1, <2>3 DEF x
<1> QED BY <1>1, <1>2, <1>3 DEF e

\* Watchers that leave, timeouts that are set and sessions that end type nothing.
LEMMA ScheduleOnScript ==
  ASSUME TypeOK, AllOnScript, NEW s \in SessionId, NEW x \in SessionRecord,
         x.starter = session[s].starter, x.written = session[s].written,
         x.bootSent = session[s].bootSent, x.starterSent = session[s].starterSent,
         x.promptTimers = session[s].promptTimers, ScheduleIdleClose(s, x)
  PROVE  AllOnScript'
<1>1. PICK h : session' = [session EXCEPT ![s] = [x EXCEPT !.idleTimer = h]]
               \/ session' = [session EXCEPT ![s] = x]
  BY DEF ScheduleIdleClose
<1> DEFINE y == [x EXCEPT !.idleTimer = h]
<1>2. /\ y.starter = x.starter /\ y.written = x.written /\ y.bootSent = x.bootSent
      /\ y.starterSent = x.starterSent /\ y.promptTimers = x.promptTimers
  BY DEF SessionRecord
<1>3. session' = [session EXCEPT ![s] = y] \/ session' = [session EXCEPT ![s] = x]
  BY <1>1
<1> HIDE DEF y
<1>4. OnScript(y) /\ OnScript(x)
  BY <1>2, OnScriptFrame DEF AllOnScript
<1> QED BY <1>3, <1>4 DEF AllOnScript, TypeOK

LEMMA TeardownOnScript ==
  ASSUME TypeOK, AllOnScript, NEW T, NEW pending, Teardown(T, pending)
  PROVE  AllOnScript'
<1>1. ASSUME NEW s \in SessionId PROVE OnScript(Closed(session[s]))
  <2> DEFINE y == Closed(session[s])
  <2>1. /\ y.starter = session[s].starter /\ y.written = session[s].written
        /\ y.bootSent = session[s].bootSent /\ y.starterSent = session[s].starterSent
        /\ y.promptTimers = {}
    BY DEF Closed, TypeOK, SessionRecord
  <2> HIDE DEF y
  <2>2. OnScript(y)
    BY <2>1, OnScriptFrame DEF AllOnScript
  <2> QED BY <2>2 DEF y
<1> QED BY <1>1 DEF Teardown, AllOnScript

LEMMA TypedOnScript ==
  ASSUME TypeOK, AllOnScript, NEW s \in SessionId, PastePrompt(s) \/ SubmitPrompt(s) \/ PasteDraft(s)
  PROVE  AllOnScript'
<1>0. session[s] \in SessionRecord /\ OnScript(session[s])
  BY DEF TypeOK, AllOnScript
<1>1. ASSUME NEW timer, NEW text, NEW next, Typed(s, timer, text, next)
      PROVE  /\ \A q \in SessionId \ {s} : session'[q] = session[q]
             /\ session'[s].starter = session[s].starter /\ session'[s].bootSent = session[s].bootSent
             /\ session'[s].starterSent = TRUE
             /\ session'[s].written = Append(session[s].written, text)
             /\ session'[s].promptTimers = (session[s].promptTimers \ {timer}) \cup next
  <2> DEFINE log == Append(session[s].written, text)
             y == [session[s] EXCEPT !.promptTimers = (@ \ {timer}) \cup next,
                                     !.starterSent = TRUE, !.written = log]
  <2>1. session' = [session EXCEPT ![s] = y]
    BY <1>1, <1>0 DEF Typed, TypeOK
  <2>2. /\ y.starter = session[s].starter /\ y.bootSent = session[s].bootSent /\ y.starterSent = TRUE
        /\ y.written = log /\ y.promptTimers = (session[s].promptTimers \ {timer}) \cup next
    <3> HIDE DEF log
    <3> QED BY <1>0 DEF SessionRecord
  <2> HIDE DEF y
  <2> QED BY <2>1, <2>2 DEF TypeOK
<1>2. /\ <<"boot", "paste">> = Append(<<"boot">>, "paste")
      /\ <<"boot", "draft">> = Append(<<"boot">>, "draft")
      /\ <<"boot", "paste", "submit">> = Append(<<"boot", "paste">>, "submit")
  <2>1. <<"boot", "paste">> = Append(<<"boot">>, "paste")
    OBVIOUS
  <2>2. <<"boot", "draft">> = Append(<<"boot">>, "draft")
    OBVIOUS
  <2>3. <<"boot", "paste", "submit">> = Append(<<"boot", "paste">>, "submit")
    OBVIOUS
  <2> QED BY <2>1, <2>2, <2>3
<1>3. CASE PastePrompt(s)
  <2>1. "paste" \in session[s].promptTimers /\ Typed(s, "paste", "paste", {"submit"})
    BY <1>3 DEF PastePrompt
  <2>2. session[s].written = <<"boot">> /\ session[s].bootSent /\ session[s].starter = "prompt"
        /\ session[s].promptTimers = {"paste"}
    BY <1>0, <2>1 DEF OnScript
  <2>3. session'[s].written = Append(<<"boot">>, "paste")
    BY <1>1, <2>1, <2>2
  <2>4. session'[s].written = <<"boot", "paste">>
    BY <1>2, <2>3, Zenon
  <2>5. session'[s].promptTimers = ({"paste"} \ {"paste"}) \cup {"submit"}
    <3>1. session'[s].promptTimers = (session[s].promptTimers \ {"paste"}) \cup {"submit"}
      BY <1>1, <2>1
    <3> QED BY <2>2, <3>1, Zenon
  <2>6. /\ session'[s].starter = session[s].starter /\ session'[s].bootSent = session[s].bootSent
        /\ session'[s].starterSent = TRUE
    BY <1>1, <2>1
  <2>7. /\ session'[s].bootSent /\ session'[s].starterSent /\ session'[s].promptTimers \subseteq {"submit"}
    BY <2>2, <2>5, <2>6
  <2>8. OnScript(session'[s])
    BY <2>2, <2>4, <2>6, <2>7 DEF OnScript
  <2> QED BY <1>1, <2>1, <2>8 DEF AllOnScript
<1>4. CASE SubmitPrompt(s)
  <2>1. "submit" \in session[s].promptTimers /\ Typed(s, "submit", "submit", {})
    BY <1>4 DEF SubmitPrompt
  <2>2. session[s].written = <<"boot", "paste">> /\ session[s].bootSent
        /\ session[s].starter = "prompt" /\ session[s].promptTimers = {"submit"}
    BY <1>0, <2>1 DEF OnScript
  <2>3. session'[s].written = Append(<<"boot", "paste">>, "submit")
    BY <1>1, <2>1, <2>2
  <2>4. session'[s].written = <<"boot", "paste", "submit">>
    BY <1>2, <2>3, Zenon
  <2>5. session'[s].promptTimers = ({"submit"} \ {"submit"}) \cup {}
    <3> DEFINE none == {}
    <3>1. Typed(s, "submit", "submit", none)
      BY <2>1
    <3> HIDE DEF none
    <3>2. session'[s].promptTimers = (session[s].promptTimers \ {"submit"}) \cup none
      BY <1>1, <3>1
    <3> QED BY <2>2, <3>2, Zenon DEF none
  <2>6. /\ session'[s].starter = session[s].starter /\ session'[s].bootSent = session[s].bootSent
        /\ session'[s].starterSent = TRUE
    BY <1>1, <2>1
  <2>7. /\ session'[s].bootSent /\ session'[s].starterSent /\ session'[s].promptTimers = {}
    BY <2>2, <2>5, <2>6
  <2>8. OnScript(session'[s])
    BY <2>2, <2>4, <2>6, <2>7 DEF OnScript
  <2> QED BY <1>1, <2>1, <2>8 DEF AllOnScript
<1>5. CASE PasteDraft(s)
  <2>1. "draft" \in session[s].promptTimers /\ Typed(s, "draft", "draft", {})
    BY <1>5 DEF PasteDraft
  <2>2. session[s].written = <<"boot">> /\ session[s].bootSent /\ session[s].starter = "draft"
        /\ session[s].promptTimers = {"draft"}
    BY <1>0, <2>1 DEF OnScript
  <2>3. session'[s].written = Append(<<"boot">>, "draft")
    <3>1. session'[s].written = Append(session[s].written, "draft")
      BY <1>1, <2>1
    <3> QED BY <2>2, <3>1
  <2>4. session'[s].written = <<"boot", "draft">>
    BY <1>2, <2>3, Zenon
  <2>5. session'[s].promptTimers = ({"draft"} \ {"draft"}) \cup {}
    <3> DEFINE none == {}
    <3>1. Typed(s, "draft", "draft", none)
      BY <2>1
    <3> HIDE DEF none
    <3>2. session'[s].promptTimers = (session[s].promptTimers \ {"draft"}) \cup none
      BY <1>1, <3>1
    <3> QED BY <2>2, <3>2, Zenon DEF none
  <2>6. /\ session'[s].starter = session[s].starter /\ session'[s].bootSent = session[s].bootSent
        /\ session'[s].starterSent = TRUE
    BY <1>1, <2>1
  <2>7. /\ session'[s].bootSent /\ session'[s].starterSent /\ session'[s].promptTimers = {}
    BY <2>2, <2>5, <2>6
  <2>8. OnScript(session'[s])
    BY <2>2, <2>4, <2>6, <2>7 DEF OnScript
  <2> QED BY <1>1, <2>1, <2>8 DEF AllOnScript
<1> QED BY <1>3, <1>4, <1>5

LEMMA OnScriptNext == ASSUME TypeOK, ConstantsAssumption, AllOnScript, [Next]_vars PROVE AllOnScript'
<1>1. \A t \in Terminal : terminals[t] \in TerminalRecord
  BY DEF TypeOK
<1>2. UNCHANGED session => AllOnScript'
  BY DEF AllOnScript
<1>3. ASSUME NEW s \in SessionId
      PROVE  LET Same(x) == /\ x \in SessionRecord
                            /\ x.starter = session[s].starter /\ x.written = session[s].written
                            /\ x.bootSent = session[s].bootSent
                            /\ x.starterSent = session[s].starterSent
                            /\ x.promptTimers = session[s].promptTimers
             IN  /\ \A c \in Client : Same([session[s] EXCEPT !.clients = @ \ {c}])
                 /\ \A l \in Listener : Same([session[s] EXCEPT !.listeners = @ \ {l}])
                 /\ Same([session[s] EXCEPT !.keepAlive = FALSE])
  <2>1. session[s] \in SessionRecord
    BY DEF TypeOK
  <2> QED BY <2>1 DEF SessionRecord
<1>4. CASE ClientStep
  <2>1. ASSUME NEW c \in Client, NEW t \in Terminal, AttachClient(c, t) PROVE AllOnScript'
    BY <1>1, <2>1, EnsuredOnScript, EnterOnScript DEF AttachClient, Join
  <2>2. ASSUME NEW l \in Listener, NEW t \in Terminal, ConnectDirect(l, t) PROVE AllOnScript'
    BY <1>1, <2>2, EnsuredOnScript, EnterOnScript DEF ConnectDirect, Join
  <2>3. ASSUME NEW c \in Client, SocketClosed(c) PROVE AllOnScript'
    <3>1. attached[c] \in SessionId
      BY <2>3 DEF SocketClosed, TypeOK
    <3> QED BY <1>2, <1>3, <2>3, <3>1, ScheduleOnScript DEF SocketClosed
  <2>4. ASSUME NEW l \in Listener, DisposeDirect(l) PROVE AllOnScript'
    <3>1. attached[l] \in SessionId
      BY <2>4 DEF DisposeDirect, TypeOK
    <3> QED BY <1>2, <1>3, <2>4, <3>1, ScheduleOnScript DEF DisposeDirect
  <2> QED BY <1>4, <2>1, <2>2, <2>3, <2>4 DEF ClientStep
<1>5. CASE TimerStep
  <2>1. ASSUME NEW s \in SessionId, NEW h \in TimerHandle, IdleExpire(s, h) PROVE AllOnScript'
    BY <2>1, TeardownOnScript DEF IdleExpire
  <2> QED BY <1>5, <2>1, TypedOnScript DEF TimerStep
<1>6. ASSUME NEW t, NEW l, EndTerminal(t, l) PROVE AllOnScript'
  BY <1>6, TeardownOnScript DEF EndTerminal
<1>7. ASSUME NEW T, NEW D, RemoveTerminals(T, D) PROVE AllOnScript'
  BY <1>7, TeardownOnScript DEF RemoveTerminals
<1>8. CASE OperatorStep
  <2>1. ASSUME NEW t \in Terminal, StopTerminal(t) \/ DeleteTerminal(t) PROVE AllOnScript'
    BY <1>6, <1>7, <2>1 DEF StopTerminal, DeleteTerminal
  <2>2. ASSUME NEW t \in Terminal, NEW p \in Parents, NEW isWorktree \in WorktreeModes,
               NEW k \in Starters, NEW asked \in AskedIds,
               CreateTerminal(t, p, isWorktree, k, asked)
        PROVE  AllOnScript'
    <3> DEFINE r == NewRecord(p, isWorktree, k, EffectiveId(t, asked))
    <3>1. r \in TerminalRecord
      BY NewTerminalType
    <3>2. UNCHANGED session \/ \E s \in SessionId : Enter(t, s, Ensured(t, s, r))
      BY <2>2 DEF CreateTerminal
    <3> HIDE DEF r
    <3> QED BY <1>2, <3>1, <3>2, EnsuredOnScript, EnterOnScript
  <2>3. ASSUME NEW t \in Terminal, NEW f \in Terminal, NEW done \in SUBSET Terminal,
               DeleteFails(t, f, done)
        PROVE  AllOnScript'
    BY <1>7, <2>3 DEF DeleteFails
  <2>4. CASE PruneTerminals
    BY <1>2, <2>4 DEF PruneTerminals
  <2> QED BY <1>8, <2>1, <2>2, <2>3, <2>4 DEF OperatorStep
<1>9. ASSUME NEW t \in Terminal, PtyExit(t) \/ ReleaseKeepAlive(t) PROVE AllOnScript'
  <2>1. CASE PtyExit(t)
    BY <1>6, <2>1 DEF PtyExit
  <2>2. CASE ReleaseKeepAlive(t)
    <3>1. sessions[t] \in SessionId
      BY <2>2 DEF ReleaseKeepAlive, TypeOK
    <3> QED BY <1>3, <2>2, <3>1, ScheduleOnScript DEF ReleaseKeepAlive
  <2> QED BY <1>9, <2>1, <2>2
<1>10. CASE Restart \/ Crash
  BY <1>7, <1>10, TeardownOnScript DEF Restart, Crash
<1>11. CASE UNCHANGED vars
  BY <1>2, <1>11 DEF vars
<1> QED BY <1>4, <1>5, <1>8, <1>9, <1>10, <1>11 DEF Next

\* Into a shell go the command, once, then the prompt and its Enter or the draft, in
\* that order, whoever attaches, leaves or ends the session between the timers.
THEOREM TypesInOrder == Spec => []TypedInOrder
<1>1. Init => AllOnScript
  BY DEF Init, AllOnScript, OnScript, Unborn
<1>2. TypeOK /\ AllOnScript /\ [Next]_vars => AllOnScript'
  BY OnScriptNext, ConstantsAssumption
<1>3. AllOnScript => TypedInOrder
  BY OnScriptIsInOrder
<1> QED BY <1>1, <1>2, <1>3, TypeCorrect, PTL DEF Spec

-----------------------------------------------------------------------------
(* What the events tell (TerminalEvents).                                   *)

SubscribersKnow == \A t \in Terminal : told[t] # "absent" <=> Registered(t)

\* Whatever is reported as updated is registered by then.
LEMMA UpdatesAreKnown ==
  ASSUME SubscribersKnow, NEW T \in SUBSET Terminal, TellUpdated(T),
         \A t \in T : Registered(t)',
         \A t \in Terminal \ T : Registered(t)' <=> Registered(t)
  PROVE  SubscribersKnow'
BY DEF SubscribersKnow, TellUpdated, SnapshotLifecycle, Registered

LEMMA DeletionsAreKnown ==
  ASSUME SubscribersKnow, NEW T \in SUBSET Terminal, TellDeleted(T),
         \A t \in T : ~Registered(t)',
         \A t \in Terminal \ T : Registered(t)' <=> Registered(t)
  PROVE  SubscribersKnow'
BY DEF SubscribersKnow, TellDeleted, Registered

LEMMA RunningIsRegistered ==
  ASSUME TypeOK, NEW t \in Terminal, NEW r \in TerminalRecord, MarkRunning(t, r)
  PROVE  Registered(t)' /\ \A u \in Terminal \ {t} : Registered(u)' <=> Registered(u)
<1>1. [r EXCEPT !.lifecycle = "running"].lifecycle = "running"
  BY DEF TerminalRecord
<1>2. terminals' = [terminals EXCEPT ![t] = [r EXCEPT !.lifecycle = "running"]]
  BY DEF MarkRunning
<1> QED BY <1>1, <1>2 DEF TypeOK, Registered

LEMMA EndedStaysRegistered ==
  ASSUME TypeOK, NEW t \in Terminal, NEW l, l # "absent"
  PROVE  Ended(t, l).lifecycle # "absent"
BY DEF TypeOK, Ended, TerminalRecord

LEMMA ClientStepRegistered ==
  ASSUME TypeOK, ClientStep
  PROVE  \A t \in Terminal : Registered(t)' <=> Registered(t)
<1>1. ASSUME NEW t \in Terminal, NEW s, NEW x, Registered(t), Join(t, s, x)
      PROVE  \A u \in Terminal : Registered(u)' <=> Registered(u)
  <2>1. CASE UNCHANGED terminals
    BY <2>1 DEF Registered
  <2>2. CASE MarkRunning(t, terminals[t])
    <3>1. terminals[t] \in TerminalRecord
      BY DEF TypeOK
    <3> QED BY <1>1, <2>2, <3>1, RunningIsRegistered
  <2> QED BY <1>1, <2>1, <2>2 DEF Join
<1>2. ASSUME UNCHANGED terminals PROVE \A u \in Terminal : Registered(u)' <=> Registered(u)
  BY <1>2 DEF Registered
<1>3. ASSUME NEW c, NEW t \in Terminal, AttachClient(c, t) \/ ConnectDirect(c, t)
      PROVE  \A u \in Terminal : Registered(u)' <=> Registered(u)
  <2>1. \/ \E s \in SessionId : Join(t, s, [Ensured(t, s, terminals[t]) EXCEPT !.clients = @ \cup {c}])
        \/ \E s \in SessionId : Join(t, s, [Ensured(t, s, terminals[t]) EXCEPT !.listeners = @ \cup {c}])
    BY <1>3 DEF AttachClient, ConnectDirect
  <2>2. Registered(t)
    BY <1>3 DEF AttachClient, ConnectDirect
  <2> QED BY <1>1, <2>1, <2>2
<1>4. ASSUME NEW c, SocketClosed(c) \/ DisposeDirect(c) PROVE UNCHANGED terminals
  BY <1>4 DEF SocketClosed, DisposeDirect
<1> QED BY <1>2, <1>3, <1>4 DEF ClientStep

LEMMA TimerStepRegistered ==
  ASSUME IInv, TimerStep
  PROVE  \A t \in Terminal : Registered(t)' <=> Registered(t)
<1>1. ASSUME UNCHANGED terminals PROVE \A u \in Terminal : Registered(u)' <=> Registered(u)
  BY <1>1 DEF Registered
<1>2. ASSUME NEW s \in SessionId, NEW h \in TimerHandle, IdleExpire(s, h)
      PROVE  \A u \in Terminal : Registered(u)' <=> Registered(u)
  <2> DEFINE t == session[s].terminal
  <2>1. CASE UNCHANGED terminals
    BY <1>1, <2>1
  <2>2. CASE sessions[t] # None /\ terminals' = [terminals EXCEPT ![t] = Ended(t, "stopped")]
    <3>1. CASE t \in Terminal
      <4>1. Registered(t)
        BY <2>2, <3>1 DEF IInv, Safe, OpenSessionsAreOwned
      <4>2. Ended(t, "stopped").lifecycle # "absent"
        BY <3>1, EndedStaysRegistered DEF IInv
      <4> QED BY <2>2, <3>1, <4>1, <4>2 DEF IInv, TypeOK, Registered
    <3>2. CASE t \notin Terminal
      BY <2>2, <3>2 DEF IInv, TypeOK, Registered
    <3> QED BY <3>1, <3>2
  <2> QED BY <1>2, <2>1, <2>2 DEF IdleExpire
<1> QED BY <1>1, <1>2 DEF TimerStep, PastePrompt, SubmitPrompt, PasteDraft

LEMMA EndTerminalRegistered ==
  ASSUME TypeOK, NEW t \in Terminal, NEW l, l # "absent", EndTerminal(t, l)
  PROVE  Registered(t)' /\ \A u \in Terminal \ {t} : Registered(u)' <=> Registered(u)
BY EndedStaysRegistered DEF EndTerminal, TypeOK, Registered

LEMMA CreateRegistered ==
  ASSUME TypeOK, ConstantsAssumption, NEW t \in Terminal, NEW p \in Parents,
         NEW isWorktree \in WorktreeModes, NEW k \in Starters, NEW asked \in AskedIds,
         CreateTerminal(t, p, isWorktree, k, asked)
  PROVE  Registered(t)' /\ \A u \in Terminal \ {t} : Registered(u)' <=> Registered(u)
<1> DEFINE r == NewRecord(p, isWorktree, k, EffectiveId(t, asked))
<1>1. r \in TerminalRecord /\ r.lifecycle = "registered"
  BY NewTerminalType DEF NewRecord
<1>2. terminals' = [terminals EXCEPT ![t] = r] \/ MarkRunning(t, r)
  BY DEF CreateTerminal
<1> HIDE DEF r
<1>3. CASE terminals' = [terminals EXCEPT ![t] = r]
  BY <1>1, <1>3 DEF TypeOK, Registered
<1> QED BY <1>1, <1>2, <1>3, RunningIsRegistered

\* What a delete leaves in the registry keeps its record.
LEMMA OthersStay ==
  ASSUME TypeOK, NEW T, RemoveTerminals(T, T), NEW u \in Terminal \ T
  PROVE  /\ terminals'[u].lifecycle = terminals[u].lifecycle
         /\ Unplaced(terminals'[u]) = Unplaced(terminals[u])
<1> DEFINE R == [t \in Terminal |->
                   IF t \in T /\ sessions[t] # None THEN Ended(t, "stopped") ELSE terminals[t]]
<1>1. /\ R \in [Terminal -> TerminalRecord] /\ R[u] = terminals[u]
      /\ terminals' = Without(T, R)
  BY EndedType DEF RemoveTerminals, TypeOK, Lifecycle
<1> HIDE DEF R
<1> QED BY <1>1, WithoutKeeps

\* A step of the events is one of the runtime, or leaves it alone.
LEMMA EventsFollow == [EventNext]_eventVars => [Next]_vars
<1>1. EventNext => [Next]_vars
  BY DEF EventNext, RenameTerminal, Next, OperatorStep
<1> QED BY <1>1 DEF eventVars

LEMMA EventStepsAreKnown ==
  ASSUME IInv, ConstantsAssumption, SubscribersKnow, EventNext,
         ~\E t, f \in Terminal, done \in SUBSET Terminal : DeleteFails(t, f, done)
  PROVE  SubscribersKnow'
<1>0. TypeOK
  BY DEF IInv
<1>1. CASE ClientStep /\ TellUpdated(StartsOf(Terminal))
  <2>1. \A t \in StartsOf(Terminal) : Registered(t)'
    <3> SUFFICES ASSUME NEW t \in Terminal, sessions'[t] # None PROVE Registered(t)'
      BY DEF StartsOf
    <3>1. IInv'
      BY <1>1, ConstantsAssumption, TypeNext, SafeNext DEF IInv, Next
    <3> QED BY <3>1 DEF IInv, Safe, OpenSessionsAreOwned
  <2>2. StartsOf(Terminal) \in SUBSET Terminal
    BY DEF StartsOf
  <2> QED BY <1>0, <1>1, <2>1, <2>2, ClientStepRegistered, UpdatesAreKnown
<1>2. CASE TimerStep /\ TellUpdated(EndsOf(Terminal))
  <2>1. \A t \in EndsOf(Terminal) : Registered(t)
    BY DEF EndsOf, IInv, Safe, OpenSessionsAreOwned
  <2>2. EndsOf(Terminal) \in SUBSET Terminal
    BY DEF EndsOf
  <2>3. \A t \in Terminal : Registered(t)' <=> Registered(t)
    BY <1>2, TimerStepRegistered
  <2>4. \A t \in EndsOf(Terminal) : Registered(t)'
    BY <2>1, <2>2, <2>3
  <2> QED BY <1>2, <2>2, <2>3, <2>4, UpdatesAreKnown
<1>3. ASSUME NEW t \in Terminal, NEW l, l # "absent", EndTerminal(t, l), TellUpdated({t})
      PROVE  SubscribersKnow'
  BY <1>0, <1>3, EndTerminalRegistered, UpdatesAreKnown
<1>4. ASSUME NEW t \in Terminal, DeleteTerminal(t), TellDeleted(Cascade(t)) PROVE SubscribersKnow'
  <2> DEFINE all == Cascade(t)
  <2>1. all \in SUBSET Terminal
    BY DEF Cascade
  <2>2. RemoveTerminals(all, all)
    BY <1>4 DEF DeleteTerminal
  <2> HIDE DEF all
  <2>3. \A u \in all : terminals'[u] = NoTerminal
    BY <2>1, <2>2 DEF RemoveTerminals, Without
  <2>4. \A u \in Terminal \ all : terminals'[u].lifecycle = terminals[u].lifecycle
    BY <1>0, <2>1, <2>2, OthersStay
  <2>5. \A u \in all : ~Registered(u)'
    BY <2>3 DEF Registered, NoTerminal
  <2>6. \A u \in Terminal \ all : Registered(u)' <=> Registered(u)
    BY <2>4 DEF Registered
  <2> QED BY <1>4, <2>1, <2>5, <2>6, DeletionsAreKnown DEF all
<1>5. ASSUME NEW t \in Terminal, RenameTerminal(t) PROVE SubscribersKnow'
  <2>1. TellUpdated({t}) /\ \A u \in Terminal : Registered(u)' <=> Registered(u)
    BY <1>5 DEF RenameTerminal, vars, Registered
  <2>2. Registered(t)
    BY <1>5 DEF RenameTerminal
  <2> QED BY <2>1, <2>2, UpdatesAreKnown
<1>6. ASSUME NEW t \in Terminal, ReleaseKeepAlive(t), UNCHANGED told PROVE SubscribersKnow'
  BY <1>6 DEF ReleaseKeepAlive, SubscribersKnow, Registered
<1>7. ASSUME NEW t \in Terminal, NEW p \in Parents, NEW isWorktree \in WorktreeModes,
             NEW k \in Starters, NEW asked \in AskedIds,
             CreateTerminal(t, p, isWorktree, k, asked), TellUpdated({t})
      PROVE  SubscribersKnow'
  BY <1>0, <1>7, ConstantsAssumption, CreateRegistered, UpdatesAreKnown
<1>8. CASE PruneTerminals /\ TellDeleted({t \in Terminal : Prunable(t)})
  <2> DEFINE gone == {t \in Terminal : Prunable(t)}
  <2>1. \A t \in gone : ~Registered(t)'
    BY <1>8 DEF PruneTerminals, Registered, NoTerminal, Without
  <2>2. \A t \in Terminal \ gone : Registered(t)' <=> Registered(t)
    BY <1>0, <1>8, WithoutKeeps DEF PruneTerminals, Registered, TypeOK
  <2>3. gone \in SUBSET Terminal
    OBVIOUS
  <2> QED BY <1>8, <2>1, <2>2, <2>3, DeletionsAreKnown
<1>9. CASE told' = [t \in Terminal |-> terminals'[t].lifecycle]
  BY <1>9 DEF SubscribersKnow, Registered
<1> QED
  BY <1>1, <1>2, <1>3, <1>4, <1>5, <1>6, <1>7, <1>8, <1>9 DEF EventNext, StopTerminal, PtyExit

\* The runtime's invariant holds of the runtime that tells of itself.
LEMMA EventInvariance == EventSpec => []IInv
<1>1. EventInit => IInv
  BY ConstantsAssumption, TypeInit, SafeInit DEF IInv, EventInit
<1>2. IInv /\ [EventNext]_eventVars => IInv'
  BY EventsFollow, ConstantsAssumption, TypeNext, SafeNext DEF IInv
<1> QED BY <1>1, <1>2, PTL DEF EventSpec

\* The terminal-events stream: subscribers that know the registry know it after every
\* handler, but for a delete that throws half way.
THEOREM EventsKeepUp == EventSpec => SubscribersKnowTheRegistry
<1> DEFINE Fails == \E t, f \in Terminal, done \in SUBSET Terminal : DeleteFails(t, f, done)
           A == SubscribersKnow => (SubscribersKnow' \/ Fails)
<1>1. IInv /\ [EventNext]_eventVars => [A]_eventVars
  BY EventStepsAreKnown, ConstantsAssumption
<1>2. A => ((\A t \in Terminal : told[t] # "absent" <=> Registered(t))
             => \/ \A t \in Terminal : told'[t] # "absent" <=> Registered(t)'
                \/ \E t, f \in Terminal, done \in SUBSET Terminal : DeleteFails(t, f, done))
  BY DEF SubscribersKnow
<1> QED BY <1>1, <1>2, EventInvariance, PTL DEF EventSpec, SubscribersKnowTheRegistry

-----------------------------------------------------------------------------
(* What a delete collects.  The induction is over the set of numbers a       *)
(* claim holds of.                                                           *)

\* The terminals of S and their children.
Nearer(S) == S \cup UNION {Children(p) : p \in S}

\* Within is what its definition says: each distance adds the children.
LEMMA WithinStep ==
  ASSUME ConstantsAssumption, NEW root
  PROVE  /\ Within(root)[0] = {root}
         /\ \A n \in 0..Cardinality(Terminal) :
              n > 0 => Within(root)[n] = Nearer(Within(root)[n - 1])
<1> DEFINE N == Cardinality(Terminal)
           Eqs(f, m) == f = [n \in 0..m |-> IF n = 0 THEN {root} ELSE Nearer(f[n - 1])]
           S == {m \in 0..N : \E f : Eqs(f, m)}
<1>0. N \in Nat
  BY FS_CardinalityType DEF ConstantsAssumption
<1>1. 0 \in S
  <2> DEFINE first == [n \in 0..0 |-> {root}]
  <2>1. Eqs(first, 0)
    OBVIOUS
  <2> HIDE DEF first, Eqs
  <2> QED BY <1>0, <2>1
<1>2. ASSUME NEW m \in 0..N, m \in S, m < N PROVE m + 1 \in S
  <2>1. PICK f : Eqs(f, m)
    BY <1>2
  <2> DEFINE g == [n \in 0..(m + 1) |-> IF n = m + 1 THEN Nearer(f[m]) ELSE f[n]]
  <2>2. m \in Nat /\ m + 1 \in 0..N
    BY <1>0, <1>2
  <2>3. \A n \in 0..(m + 1) : g[n] = IF n = 0 THEN {root} ELSE Nearer(g[n - 1])
    <3>1. \A n \in 0..m : f[n] = IF n = 0 THEN {root} ELSE Nearer(f[n - 1])
      BY <2>1
    <3>2. g[m + 1] = Nearer(g[m]) /\ \A n \in 0..m : g[n] = f[n]
      BY <2>2
    <3>3. \A n \in 0..m : n # 0 => n - 1 \in 0..m
      BY <2>2
    <3> HIDE DEF g
    <3>4. \A n \in 0..m : g[n] = IF n = 0 THEN {root} ELSE Nearer(g[n - 1])
      BY <3>1, <3>2, <3>3
    <3>5. \A n \in 0..(m + 1) : n \in 0..m \/ n = m + 1
      BY <2>2
    <3>6. m + 1 # 0 /\ (m + 1) - 1 = m
      BY <2>2
    <3> QED BY <3>2, <3>4, <3>5, <3>6
  <2>4. g = [n \in 0..(m + 1) |-> g[n]]
    OBVIOUS
  <2> HIDE DEF g
  <2>5. Eqs(g, m + 1)
    BY <2>3, <2>4
  <2> QED BY <2>2, <2>5
<1>3. N \in S
  <2> HIDE DEF S, N
  <2>1. \A n \in 0..N : n \in S
    BY <1>0, <1>1, <1>2, AllUpTo
  <2> QED BY <1>0, <2>1
<1>4. Within(root) = CHOOSE f : Eqs(f, N)
  BY DEF Within, Nearer
<1>5. Eqs(Within(root), N)
  <2>1. \E f : Eqs(f, N)
    BY <1>3
  <2> HIDE DEF Eqs
  <2> QED BY <1>4, <2>1
<1> HIDE DEF N
<1>6. \A n \in 0..N : Within(root)[n] = IF n = 0 THEN {root} ELSE Nearer(Within(root)[n - 1])
  BY <1>5
<1>7. 0 \in 0..N
  BY <1>0
<1> QED BY <1>6, <1>7 DEF N

\* The terminals at each distance are terminals, and stay in.
LEMMA WithinGrows ==
  ASSUME ConstantsAssumption, NEW root \in Terminal
  PROVE  \A n \in 0..Cardinality(Terminal) :
           /\ Within(root)[n] \in SUBSET Terminal
           /\ n > 0 => Within(root)[n - 1] \subseteq Within(root)[n]
<1> DEFINE N == Cardinality(Terminal)
           w == Within(root)
           S == {n \in 0..N : w[n] \in SUBSET Terminal}
<1>0. N \in Nat
  BY FS_CardinalityType DEF ConstantsAssumption
<1>1. w[0] = {root} /\ \A n \in 0..N : n > 0 => w[n] = Nearer(w[n - 1])
  BY WithinStep
<1> HIDE DEF w, N
<1>2. 0 \in S
  BY <1>0, <1>1
<1>3. ASSUME NEW n \in 0..N, n \in S, n < N PROVE n + 1 \in S
  <2>1. n + 1 \in 0..N /\ n + 1 > 0 /\ (n + 1) - 1 = n
    BY <1>0, <1>3
  <2>2. w[n + 1] = Nearer(w[n])
    BY <1>1, <2>1
  <2>3. w[n] \in SUBSET Terminal
    BY <1>3
  <2> QED BY <2>1, <2>2, <2>3 DEF Nearer, Children
<1> HIDE DEF S
<1>4. \A n \in 0..N : n \in S
  BY <1>0, <1>2, <1>3, AllUpTo
<1>5. \A n \in 0..N : n > 0 => w[n - 1] \subseteq w[n]
  BY <1>1 DEF Nearer
<1> QED BY <1>4, <1>5 DEF S, w, N

\* n links or stays lead from t up to root.
Leads(t, root, n) ==
  \E path \in [1..(n + 1) -> Terminal] :
    /\ path[1] = t /\ path[n + 1] = root
    /\ \A i \in 1..n :
         \/ path[i + 1] = path[i]
         \/ Registered(path[i]) /\ terminals[path[i]].parent = path[i + 1]

LEMMA OneMore ==
  ASSUME NEW root \in Terminal, NEW n \in Nat, NEW t \in Terminal
  PROVE  Leads(t, root, n + 1) <=>
           \E u \in Terminal : /\ Leads(u, root, n)
                               /\ u = t \/ (Registered(t) /\ terminals[t].parent = u)
<1>1. ASSUME Leads(t, root, n + 1)
      PROVE  \E u \in Terminal : /\ Leads(u, root, n)
                                 /\ u = t \/ (Registered(t) /\ terminals[t].parent = u)
  <2>1. PICK path \in [1..(n + 2) -> Terminal] :
          /\ path[1] = t /\ path[n + 2] = root
          /\ \A i \in 1..(n + 1) :
               \/ path[i + 1] = path[i]
               \/ Registered(path[i]) /\ terminals[path[i]].parent = path[i + 1]
    <3>1. (n + 1) + 1 = n + 2
      OBVIOUS
    <3> QED BY <1>1, <3>1 DEF Leads
  <2> DEFINE rest == [i \in 1..(n + 1) |-> path[i + 1]]
  <2>2. \A i \in 1..(n + 1) : i + 1 \in 1..(n + 2)
    OBVIOUS
  <2>3. rest \in [1..(n + 1) -> Terminal] /\ \A i \in 1..(n + 1) : rest[i] = path[i + 1]
    BY <2>2
  <2>4. rest[1] = path[2] /\ rest[n + 1] = root
    BY <2>1, <2>3
  <2> HIDE DEF rest
  <2>5. \A i \in 1..n : \/ rest[i + 1] = rest[i]
                        \/ Registered(rest[i]) /\ terminals[rest[i]].parent = rest[i + 1]
    <3>1. \A i \in 1..n : i + 1 \in 1..(n + 1) /\ i \in 1..(n + 1)
      OBVIOUS
    <3> QED BY <2>1, <2>3, <3>1
  <2>6. Leads(path[2], root, n)
    BY <2>3, <2>4, <2>5 DEF Leads
  <2>7. path[2] = t \/ (Registered(t) /\ terminals[t].parent = path[2])
    <3>1. 1 \in 1..(n + 1)
      OBVIOUS
    <3>2. \/ path[1 + 1] = path[1]
          \/ Registered(path[1]) /\ terminals[path[1]].parent = path[1 + 1]
      BY <2>1, <3>1
    <3>3. 1 + 1 = 2
      OBVIOUS
    <3> QED BY <2>1, <3>2, <3>3
  <2>8. path[2] \in Terminal
    OBVIOUS
  <2> QED BY <2>6, <2>7, <2>8
<1>2. ASSUME NEW u \in Terminal, Leads(u, root, n),
             u = t \/ (Registered(t) /\ terminals[t].parent = u)
      PROVE  Leads(t, root, n + 1)
  <2>1. PICK rest \in [1..(n + 1) -> Terminal] :
          /\ rest[1] = u /\ rest[n + 1] = root
          /\ \A i \in 1..n :
               \/ rest[i + 1] = rest[i]
               \/ Registered(rest[i]) /\ terminals[rest[i]].parent = rest[i + 1]
    BY <1>2 DEF Leads
  <2> DEFINE path == [i \in 1..((n + 1) + 1) |-> IF i = 1 THEN t ELSE rest[i - 1]]
  <2>2. \A i \in 1..((n + 1) + 1) : i # 1 => i - 1 \in 1..(n + 1)
    OBVIOUS
  <2>3. path \in [1..((n + 1) + 1) -> Terminal]
    BY <2>2
  <2>4. path[1] = t /\ \A i \in 1..(n + 1) : path[i + 1] = rest[i]
    OBVIOUS
  <2> HIDE DEF path
  <2>5. path[(n + 1) + 1] = root
    BY <2>1, <2>4
  <2>6. \A i \in 1..(n + 1) :
          \/ path[i + 1] = path[i]
          \/ Registered(path[i]) /\ terminals[path[i]].parent = path[i + 1]
    <3> SUFFICES ASSUME NEW i \in 1..(n + 1)
                 PROVE  \/ path[i + 1] = path[i]
                        \/ Registered(path[i]) /\ terminals[path[i]].parent = path[i + 1]
      OBVIOUS
    <3>1. CASE i = 1
      <4>1. path[1 + 1] = u
        BY <2>1, <2>4
      <4> QED BY <1>2, <2>4, <3>1, <4>1
    <3>2. CASE i # 1
      <4>1. i - 1 \in 1..n /\ i - 1 \in 1..(n + 1) /\ (i - 1) + 1 = i
        BY <3>2
      <4>2. path[i] = rest[i - 1] /\ path[i + 1] = rest[i]
        BY <2>4, <4>1
      <4>3. \/ rest[i] = rest[i - 1]
            \/ Registered(rest[i - 1]) /\ terminals[rest[i - 1]].parent = rest[i]
        BY <2>1, <4>1
      <4> QED BY <4>2, <4>3
    <3> QED BY <3>1, <3>2
  <2> QED BY <2>3, <2>4, <2>5, <2>6 DEF Leads
<1> QED BY <1>1, <1>2

LEMMA WithinIsLedTo ==
  ASSUME ConstantsAssumption, NEW root \in Terminal
  PROVE  \A n \in 0..Cardinality(Terminal) :
           \A t \in Terminal : t \in Within(root)[n] <=> Leads(t, root, n)
<1> DEFINE N == Cardinality(Terminal)
           w == Within(root)
           S == {n \in 0..N : \A t \in Terminal : t \in w[n] <=> Leads(t, root, n)}
<1>0. N \in Nat
  BY FS_CardinalityType DEF ConstantsAssumption
<1>1. w[0] = {root} /\ \A n \in 0..N : n > 0 => w[n] = Nearer(w[n - 1])
  BY WithinStep
<1>2. \A n \in 0..N : w[n] \in SUBSET Terminal
  BY WithinGrows
<1> HIDE DEF w, N
<1>3. 0 \in S
  <2>1. ASSUME NEW t \in Terminal PROVE Leads(t, root, 0) <=> t = root
    <3>1. ASSUME t = root PROVE Leads(t, root, 0)
      <4> DEFINE path == [i \in 1..(0 + 1) |-> t]
      <4>1. path \in [1..(0 + 1) -> Terminal] /\ path[1] = t /\ path[0 + 1] = root
        BY <3>1
      <4> HIDE DEF path
      <4> QED BY <4>1 DEF Leads
    <3> QED BY <3>1 DEF Leads
  <2> QED BY <1>0, <1>1, <2>1
<1>4. ASSUME NEW n \in 0..N, n \in S, n < N PROVE n + 1 \in S
  <2>1. n + 1 \in 0..N /\ n + 1 > 0 /\ (n + 1) - 1 = n /\ n \in Nat
    BY <1>0, <1>4
  <2>2. w[n + 1] = Nearer(w[n]) /\ w[n] \in SUBSET Terminal
    BY <1>1, <1>2, <2>1
  <2>3. \A t \in Terminal : t \in w[n] <=> Leads(t, root, n)
    BY <1>4
  <2>4. ASSUME NEW t \in Terminal PROVE t \in w[n + 1] <=> Leads(t, root, n + 1)
    <3>1. t \in w[n + 1] <=>
            \E u \in w[n] : u = t \/ (Registered(t) /\ terminals[t].parent = u)
      <4>1. t \in UNION {Children(p) : p \in w[n]} <=> \E u \in w[n] : t \in Children(u)
        OBVIOUS
      <4>2. \A u : t \in Children(u) <=> (Registered(t) /\ terminals[t].parent = u)
        BY DEF Children
      <4>3. t \in Nearer(w[n]) <=> (t \in w[n] \/ t \in UNION {Children(p) : p \in w[n]})
        BY DEF Nearer
      <4> QED BY <2>2, <4>1, <4>2, <4>3
    <3>2. Leads(t, root, n + 1) <=>
            \E u \in Terminal : /\ Leads(u, root, n)
                                /\ u = t \/ (Registered(t) /\ terminals[t].parent = u)
      BY <2>1, OneMore
    <3> QED BY <2>2, <2>3, <3>1, <3>2
  <2> QED BY <2>1, <2>4
<1> HIDE DEF S
<1>5. \A n \in 0..N : n \in S
  BY <1>0, <1>3, <1>4, AllUpTo
<1> QED BY <1>5 DEF S, w, N

\* There are no more distances than terminals: the last step adds nothing.
LEMMA WithinSettles ==
  ASSUME ConstantsAssumption, NEW root \in Terminal
  PROVE  /\ Cardinality(Terminal) \in Nat \ {0}
         /\ Within(root)[Cardinality(Terminal)] = Within(root)[Cardinality(Terminal) - 1]
<1> DEFINE N == Cardinality(Terminal)
           w == Within(root)
           S == {n \in 0..N : w[n] = w[N] \/ Cardinality(w[n]) > n}
<1>0. N \in Nat \ {0}
  <2>1. N \in Nat /\ N # 0
    BY FS_CardinalityType, FS_EmptySet DEF ConstantsAssumption
  <2> QED BY <2>1
<1>1. w[0] = {root} /\ \A n \in 0..N : n > 0 => w[n] = Nearer(w[n - 1])
  BY WithinStep
<1>2. /\ \A n \in 0..N : w[n] \in SUBSET Terminal
      /\ \A n \in 0..N : n > 0 => w[n - 1] \subseteq w[n]
  BY WithinGrows
<1>3. \A n \in 0..N : IsFiniteSet(w[n]) /\ Cardinality(w[n]) \in Nat /\ Cardinality(w[n]) <= N
  BY <1>2, FS_Subset, FS_CardinalityType DEF ConstantsAssumption
<1> HIDE DEF w, N
\* Once a distance adds nothing, none does.
<1>4. ASSUME NEW n \in 0..N, n < N, w[n + 1] = w[n] PROVE w[n] = w[N]
  <2> DEFINE Same == {m \in 0..N : n <= m => w[m] = w[n]}
  <2>1. 0 \in Same
    BY <1>0, <1>4
  <2>2. ASSUME NEW m \in 0..N, m \in Same, m < N PROVE m + 1 \in Same
    <3>1. m + 1 \in 0..N /\ n + 1 \in 0..N /\ m + 1 > 0 /\ n + 1 > 0
          /\ (m + 1) - 1 = m /\ (n + 1) - 1 = n
      BY <1>0, <1>4, <2>2
    <3>2. w[m + 1] = Nearer(w[m]) /\ w[n + 1] = Nearer(w[n])
      BY <1>1, <3>1
    <3>3. n <= m => w[m + 1] = w[n]
      BY <1>4, <2>2, <3>2
    <3>4. n <= m + 1 => n <= m \/ n = m + 1
      BY <2>2
    <3> QED BY <3>1, <3>3, <3>4
  <2> HIDE DEF Same
  <2>3. \A m \in 0..N : m \in Same
    BY <1>0, <2>1, <2>2, AllUpTo
  <2>4. N \in 0..N /\ n <= N
    BY <1>0, <1>4
  <2> QED BY <2>3, <2>4 DEF Same
<1>5. 0 \in S
  <2>1. Cardinality(w[0]) = 1
    BY <1>1, FS_Singleton
  <2> QED BY <1>0, <2>1
<1>6. ASSUME NEW n \in 0..N, n \in S, n < N PROVE n + 1 \in S
  <2>1. n + 1 \in 0..N /\ n + 1 > 0 /\ (n + 1) - 1 = n
    BY <1>0, <1>6
  <2>2. w[n] \subseteq w[n + 1]
    BY <1>2, <2>1
  <2>3. CASE w[n + 1] = w[n]
    BY <1>4, <1>6, <2>1, <2>3
  <2>4. CASE w[n + 1] # w[n]
    <3>1. Cardinality(w[n]) < Cardinality(w[n + 1])
      BY <1>3, <2>1, <2>2, <2>4, FS_Subset
    <3>2. CASE w[n] = w[N]
      <4> DEFINE After == {m \in 0..N : n <= m => w[n] \subseteq w[m]}
      <4>1. n + 1 <= N /\ N \in 0..N
        BY <1>0, <2>1
      <4>2. w[n + 1] \subseteq w[N]
        <5> DEFINE Up == {m \in 0..N : n + 1 <= m => w[n + 1] \subseteq w[m]}
        <5>1. 0 \in Up
          BY <1>0, <2>1
        <5>2. ASSUME NEW m \in 0..N, m \in Up, m < N PROVE m + 1 \in Up
          <6>1. m + 1 \in 0..N /\ m + 1 > 0 /\ (m + 1) - 1 = m
            BY <1>0, <5>2
          <6>2. w[m] \subseteq w[m + 1]
            BY <1>2, <6>1
          <6>3. n + 1 <= m + 1 => n + 1 <= m \/ n + 1 = m + 1
            BY <5>2
          <6> QED BY <5>2, <6>1, <6>2, <6>3
        <5> HIDE DEF Up
        <5>3. \A m \in 0..N : m \in Up
          BY <1>0, <5>1, <5>2, AllUpTo
        <5> QED BY <4>1, <5>3 DEF Up
      <4> QED BY <2>2, <2>4, <3>2, <4>2
    <3>3. CASE Cardinality(w[n]) > n
      BY <1>3, <2>1, <3>1, <3>3
    <3> QED BY <1>6, <3>2, <3>3
  <2> QED BY <2>3, <2>4
<1>7. N - 1 \in S
  <2> HIDE DEF S
  <2>1. \A n \in 0..N : n \in S
    BY <1>0, <1>5, <1>6, AllUpTo
  <2> QED BY <1>0, <2>1
<1>8. w[N] = w[N - 1]
  <2>1. N - 1 \in 0..N /\ N \in 0..N /\ N > 0
    BY <1>0
  <2>2. CASE w[N - 1] # w[N]
    <3>1. Cardinality(w[N - 1]) > N - 1
      BY <1>7, <2>2
    <3>2. w[N - 1] \subseteq w[N]
      BY <1>2, <2>1
    <3>3. Cardinality(w[N - 1]) < Cardinality(w[N])
      BY <1>3, <2>1, <2>2, <3>2, FS_Subset
    <3> QED BY <1>0, <1>3, <2>1, <3>1, <3>3
  <2> QED BY <2>2
<1> QED BY <1>0, <1>8 DEF w, N

\* The cascade of a delete is the terminal and its descendants, however the parent
\* links go, in circles too.
LEMMA CascadeIsTheSubtree ==
  ASSUME ConstantsAssumption, NEW root \in Terminal
  PROVE  \A t \in Terminal : t \in Cascade(root) <=> Descends(t, root)
<1> DEFINE N == Cardinality(Terminal)
           w == Within(root)
<1>1. N \in Nat \ {0} /\ w[N] = w[N - 1]
  BY WithinSettles
<1>2. N - 1 \in 0..N /\ (N - 1) + 1 = N
  BY <1>1
<1>3. \A t \in Terminal : t \in w[N - 1] <=> Leads(t, root, N - 1)
  BY <1>2, WithinIsLedTo
<1>4. \A t \in Terminal : Leads(t, root, N - 1) <=> Descends(t, root)
  <2> HIDE DEF w
  <2>1. \A t \in Terminal : Leads(t, root, N - 1) <=>
          \E path \in [1..N -> Terminal] :
            /\ path[1] = t /\ path[N] = root
            /\ \A i \in 1..(N - 1) :
                 \/ path[i + 1] = path[i]
                 \/ Registered(path[i]) /\ terminals[path[i]].parent = path[i + 1]
    BY <1>2 DEF Leads
  <2> QED BY <2>1 DEF Descends
<1>5. Cascade(root) = Terminal \cap w[N]
  BY DEF Cascade
<1> QED BY <1>1, <1>3, <1>4, <1>5

\* deleteTerminal: gone with its session is the terminal and all that descends from it,
\* and nothing else.
THEOREM DeletesTheSubtree == Spec => DeleteRemovesTheSubtree
<1> DEFINE A == \A root \in Terminal :
                  (terminals' # terminals /\ DeleteTerminal(root)) =>
                    \A t \in Terminal :
                      IF Descends(t, root) THEN ~Registered(t)' /\ sessions'[t] = None
                      ELSE Unplaced(terminals'[t]) = Unplaced(terminals[t])
<1>1. IInv => A
  <2> SUFFICES ASSUME IInv, NEW root \in Terminal, DeleteTerminal(root), NEW t \in Terminal
               PROVE  IF Descends(t, root) THEN ~Registered(t)' /\ sessions'[t] = None
                      ELSE Unplaced(terminals'[t]) = Unplaced(terminals[t])
    OBVIOUS
  <2> DEFINE all == Cascade(root)
  <2>1. RemoveTerminals(all, all)
    BY DEF DeleteTerminal
  <2>2. t \in all <=> Descends(t, root)
    BY ConstantsAssumption, CascadeIsTheSubtree
  <2> HIDE DEF all
  <2>3. t \in all => terminals'[t] = NoTerminal /\ sessions'[t] = None
    BY <2>1 DEF RemoveTerminals, Teardown, Without
  <2>4. t \notin all => Unplaced(terminals'[t]) = Unplaced(terminals[t])
    BY <2>1, OthersStay DEF IInv
  <2>5. t \in all => ~Registered(t)'
    BY <2>3 DEF Registered, NoTerminal
  <2> QED BY <2>2, <2>3, <2>4, <2>5
<1> QED BY <1>1, Invariance, PTL DEF DeleteRemovesTheSubtree
=============================================================================
