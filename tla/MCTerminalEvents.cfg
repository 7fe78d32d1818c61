\* Three terminals with any parent links; one session object.
SPECIFICATION EventSpec
CONSTANTS
  t1 = t1
  t2 = t2
  t3 = t3
  c1 = c1
  s1 = s1
  s2 = s2
  h1 = h1
  h2 = h2
  Terminal = {t1, t2, t3}
  Client = {c1}
  Listener = {}
  SessionId = {s1}
  TimerHandle = {h1}
  None = None
  Starters = {"none"}
  WorktreeModes = {TRUE, FALSE}
  Parents <- AnyParent
  AskedIds = {None}
  SessionLimit = 2
  MaxChildren = 2
SYMMETRY Symmetry
INVARIANTS LifecycleMatchesSessions
PROPERTIES DeleteRemovesTheSubtree SubscribersKnowTheRegistry
