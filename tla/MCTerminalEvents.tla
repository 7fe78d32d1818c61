--------------------------- MODULE MCTerminalEvents ---------------------------
(* A small instance of TerminalEvents for TLC.                             *)
EXTENDS TerminalEvents, TLC

CONSTANTS t1, t2, t3, c1, s1, s2, h1, h2

AnyParent == Terminal \cup {None}

Symmetry ==
  Permutations(Terminal) \cup Permutations(SessionId) \cup Permutations(TimerHandle)
=============================================================================
