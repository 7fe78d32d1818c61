------------------------- MODULE MCTerminalRuntime -------------------------
(* Small instances of TerminalRuntime for TLC.                             *)
EXTENDS TerminalRuntime, TLC

CONSTANTS t1, t2, c1, l1, s1, s2, h1, h2

NoParent == {None}
AnyParent == Terminal \cup {None}

\* Session objects and timer handles are interchangeable, and so are terminals:
\* no definition compares them but for equality.
Symmetry ==
  Permutations(Terminal) \cup Permutations(SessionId) \cup Permutations(TimerHandle)

\* Sessions: every way to attach and to type, of terminals that have the
\* workspace and no parents.
PlainTerminals ==
  \A t \in Terminal :
    Registered(t) => /\ ~terminals[t].worktree /\ terminals[t].parent = None
                     /\ terminals[t].effective = t

\* Directories: terminals of any mode, parents and ids, with nothing typed into
\* their shells, browsers alone attached, and one idle timeout at a time.
NothingTyped ==
  /\ \A t \in Terminal : terminals[t].starter = "none"
  /\ \A s \in SessionId : session[s].starter = "none"
  /\ \A l \in Listener : attached[l] = None
  /\ \A x, y \in timeouts : x[2] = y[2]

InBounds == PlainTerminals \/ NothingTyped

BoundedSpec == Init /\ [][Next /\ InBounds']_vars
=============================================================================
