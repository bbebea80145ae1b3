\* A run ends when every request has ended.
SPECIFICATION Spec
CONSTANTS
  Req = {"a", "b"}
  Settings <- ThreeDrafts
  Block = {1, 2, 3, 4, 5, 6, 7, 8, 9, 10}
  Hash <- NoHash
  None = None
  Null = Null
  Prompt <- Ones
  MaxOut <- Nines
  Shared <- None0
  H = 4
  A = 8
  CoarseCount = 0
  CoarseGap = 0
  Budgets = {100}  \* never spent
  MaxRunning = 2
  Depth = 2
  Early = FALSE
  Aborts = {}
CHECK_DEADLOCK FALSE
INVARIANT StateRight
