\* A write to each of two files, and one save in an editor, failed write or
\* snapshot.
SPECIFICATION FairSpec
CONSTANTS
  f1 = f1
  f2 = f2
  o1 = o1
  o2 = o2
  Files = {f1, f2}
  Ops = {o1, o2}
  Asks <- WriteEach
  Edited = {f1, f2}
  Start <- Files12
  Hand = Hand
  None = None
  Flushers = {w1}
  MaxTurns = 1
PROPERTIES EditsReachListeners
\* The bounds end every behaviour.
CHECK_DEADLOCK FALSE
