--------------------------- MODULE TerminalEvents ---------------------------
(***************************************************************************)
(* What the terminal-events stream tells its subscribers: the runtime of   *)
(* TerminalRuntime together with the last lifecycle each terminal was      *)
(* reported with (terminal-created, terminal-updated, terminal-deleted).   *)
(***************************************************************************)
EXTENDS TerminalRuntime

VARIABLE told   \* the lifecycle last reported of a terminal, "absent" if gone

eventVars == <<vars, told>>

EventInit == Init /\ told = [t \in Terminal |-> "absent"]

\* toTerminalSnapshot: a terminal with an entry in the sessions map runs,
\* whatever its record says.
SnapshotLifecycle(record, hasSession) ==
  IF hasSession THEN "running" ELSE record.lifecycle

\* A "terminal-updated" (or "terminal-created") event for each terminal of T.
\* The handlers that start a session send it before sessions.set, and those that
\* end one (onSessionEnd, in teardownSession) before sessions.delete: the
\* snapshot has the new record and the old sessions map.
TellUpdated(T) ==
  told' = [t \in Terminal |->
             IF t \in T THEN SnapshotLifecycle(terminals'[t], sessions[t] # None)
             ELSE told[t]]

\* Slip: nothing is sent.
TellDeleted_Silent(T) == UNCHANGED told

TellDeleted(T) == told' = [t \in Terminal |-> IF t \in T THEN "absent" ELSE told[t]]

\* renameTerminal, and the rename a user-prompt-submit hook makes.
RenameTerminal(t) ==
  /\ Registered(t)
  /\ UNCHANGED vars
  /\ TellUpdated({t})

StartsOf(T) == {t \in T : sessions[t] = None /\ sessions'[t] # None}

EndsOf(T) == {t \in T : sessions[t] # None /\ sessions'[t] = None}

EventNext ==
  \/ ClientStep /\ TellUpdated(StartsOf(Terminal))
  \/ TimerStep /\ TellUpdated(EndsOf(Terminal))
  \/ \E t \in Terminal :
       \/ StopTerminal(t) /\ TellUpdated({t})
       \/ DeleteTerminal(t) /\ TellDeleted(Cascade(t))
       \/ RenameTerminal(t)
       \/ PtyExit(t) /\ TellUpdated({t})
       \/ ReleaseKeepAlive(t) /\ UNCHANGED told
  \/ \E t \in Terminal, p \in Parents, isWorktree \in WorktreeModes, k \in Starters,
        asked \in AskedIds : CreateTerminal(t, p, isWorktree, k, asked) /\ TellUpdated({t})
  \/ \E t, f \in Terminal, done \in SUBSET Terminal :
       DeleteFails(t, f, done) /\ TellUpdated(EndsOf(Terminal))
  \/ PruneTerminals /\ TellDeleted({t \in Terminal : Prunable(t)})
  \* A new process has new subscribers, which read the snapshots first.
  \/ (Restart \/ Crash) /\ told' = [t \in Terminal |-> terminals'[t].lifecycle]

EventSpec == EventInit /\ [][EventNext]_eventVars

\* The stream announces a registered terminal and takes it back when it goes,
\* over every way a terminal comes and goes but the delete that throws half way:
\* until one does, subscribers know exactly the terminals of the registry.
SubscribersKnowTheRegistry ==
  [][(\A t \in Terminal : told[t] # "absent" <=> Registered(t))
       => \/ \A t \in Terminal : told'[t] # "absent" <=> Registered(t)'
          \/ \E t, f \in Terminal, done \in SUBSET Terminal :
               DeleteFails(t, f, done)]_eventVars

\* docs/concepts/runtime-and-api.md: the stream broadcasts the terminal-updated
\* events, and stopping, killing or exiting updates the lifecycle they carry: a
\* terminal that has ended is not left reported as running.
EventsTellTheLifecycle ==
  \A t \in Terminal :
    Registered(t) /\ terminals[t].lifecycle \in {"stopped", "exited"}
      => told[t] # "running"
=============================================================================
