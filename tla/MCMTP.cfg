\* A run ends when every request has ended.
SPECIFICATION Spec
CONSTANTS
  Req = {"a", "b", "c"}
  Settings <- Usual
  Block = {1, 2, 3, 4, 5, 6}
  Hash <- NoHash
  None = None
  Null = Null
  Prompt <- Mixed
  MaxOut <- Fours
  Shared <- None0
  H = 2
  A = 4
  CoarseCount = 0
  CoarseGap = 0
  Budgets = {100}  \* never spent
  MaxRunning = 2
  Depth = 2
  Early = FALSE
  Aborts = {"a"}
CHECK_DEADLOCK FALSE
INVARIANTS
  StepsRight
  StateRightOfOne
  Accounted
