\* The second turn arrives while the first is past its checkpoint but running.
SPECIFICATION Spec
CONSTANTS
  Req = {"c1", "c2", "s1"}
  Prompt <- LongTurns
  Shared <- LongTurnsShared
  MaxOut <- OneToken
  Rank <- OldestLast
  H = 2
  A = 4
  Block = {1, 2, 3, 4, 5, 6}
  Null = 0
  None = None
  Hash <- Hashes
  CoarseCount = 1
  CoarseGap = 2
  Budget = 4
  MaxRunning = 2
  Resubmits = {}
  KernelBlock = 2
  Settings <- PlainOnly
INVARIANT AgreedHit
