\* Bounds: see the comments at the CONSTANTS of each component.
SPECIFICATION HandlersSpec
CONSTANTS
  x1 = x1
  x2 = x2
  HandLines <- Notes
  PlanLines <- Words
  Plans = {x1, x2}
  PlanTasks <- TasksOf
  DeckRequests = {r1, r2}
  Skills = {"none"}
  MaxChildrenPerParent = 2
  MaxTodo = 2
  MaxAgents = 2
  UsageReads = {u1}
  Refreshes = {f1, f2, f3}
  NoRefresh = NoRefresh
  UsageTtl = 1
  MaxUsageTime = 2
  MaxInvalidations = 1
  Terms = {NoTerms, q1, q2}
  NoTerms = NoTerms
  FeedReads = {g1, g2}
  ConfigPatches = {p1}
  MaxCacheAge = 1
  MaxMonitorTime = 2
  Instances = {i1, i2, i3}
  NoInstance = NoInstance
  LaunchRequests = {l1, l2}
  Ports = {1, 2}
  MaxSurprises = 1
  Pieces = {w1}
  OtherPieces = {o1}
  AskedIds = {0, 1}
  MaxTerminals = 2
  SwarmIds <- OneSwarm
  MaxGitSteps = 8
  Settings = {"shown", "hidden"}
  DefaultSetting = "shown"
  UiTerminals = {t1}
  MaxUiChanges = 3
  MaxUiFaults = 1
  Conversations = {v1, v2}
  Nobody = Nobody
  MaxPageRequests = 2
  MaxDetailReads = 2
  MaxTranscriptSteps = 2
  MaxPageFaults = 1
  ScrollbackMax = 2
  ChunkSizes = {1, 3}
  MaxUnits = 5
  MaxDrops = 2
  MaxShells = 2
INVARIANTS PlanTasksOnce RefreshesAreFew SettlesOnTheUsageView CleanFeedIsTrue LiveInstancesAreFew
  WorkStaysInItsWorktree QuietPageIsSaved SelectionIsShown ScreenShowsTheSession
\* The bounds end every behaviour.
CHECK_DEADLOCK FALSE
