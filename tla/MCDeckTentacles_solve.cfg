\* Two solve requests for one item.
SPECIFICATION DeckSpec
CONSTANTS
  x1 = x1
  x2 = x2
  HandLines <- Notes
  PlanLines <- Words
  Plans = {x1, x2}
  PlanTasks <- TasksOf
  DeckRequests = {r1, r2}
  Skills = {"none"}
  MaxChildrenPerParent = 1
  MaxTodo = 1
  MaxAgents = 2
INVARIANT OneSolveAgentPerItem
CHECK_DEADLOCK FALSE
