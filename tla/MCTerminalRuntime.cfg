\* Two terminals, two session objects under a limit of one session; requests with
\* either parent and the id of either terminal.
SPECIFICATION BoundedSpec
CONSTANTS
  t1 = t1
  t2 = t2
  c1 = c1
  l1 = l1
  s1 = s1
  s2 = s2
  h1 = h1
  h2 = h2
  Terminal = {t1, t2}
  Client = {c1}
  Listener = {l1}
  SessionId = {s1, s2}
  TimerHandle = {h1, h2}
  None = None
  Starters = {"none", "draft", "prompt"}
  WorktreeModes = {TRUE, FALSE}
  Parents <- AnyParent
  AskedIds <- AnyParent
  SessionLimit = 1
  MaxChildren = 2
SYMMETRY Symmetry
INVARIANTS OpenSessionsAreOwned IdleTimeoutsAreExact TypedInOrder SessionsHaveTheirWorktree
PROPERTIES EndedSessionsAreFinal
