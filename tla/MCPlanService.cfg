\* Two writes to one of two files, and two of: a save in an editor, a failed
\* write, a snapshot.  Two queries, for start's and the one that a turn began before
\* or resumed after it.
SPECIFICATION ServiceSpec
CONSTANTS
  f1 = f1
  f2 = f2
  o1 = o1
  o2 = o2
  Files = {f1, f2}
  Ops = {o1, o2}
  Asks <- TwoWrites
  Edited = {f1}
  Start <- Files12
  Hand = Hand
  None = None
  Flushers = {w1}
  MaxTurns = 2
  Query = {q1, q2}
  NoQuery = NoQuery
  Round = {r1}
  MaxAnswers = 2
INVARIANTS AddedItemsStay QuietMeansKnown NoHiddenQuery WaitingHasARound
PROPERTIES PlanNeverGoesBack SettledOnce
SYMMETRY ServiceSymmetry
\* The bounds end every behaviour.
CHECK_DEADLOCK FALSE
