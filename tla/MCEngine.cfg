\* Two turns and a stranger over six blocks: preemption under both policies, hits of
\* whole and partial blocks, resumed hits, aborts, resets, two outputs under way, and
\* the older rules all happen.
SPECIFICATION FairSpec
CONSTANTS
  Req = {"c1", "c2", "s1", "d1", "d2"}
  Prompt <- TwoTurns
  Shared <- TwoTurnsShared
  MaxOut <- Answers
  Rank <- OldestLast
  H = 2
  A = 4
  Block = {1, 2, 3, 4, 5, 6}
  Null = 0
  None = None
  Hash <- Hashes
  CoarseCount = 1
  CoarseGap = 2
  Budget = 4
  MaxRunning = 2
  Resubmits = {}
  KernelBlock = 2
  Settings <- AllSettings
INVARIANTS
  Accounted
  ReadsOwnPrefix
  CachedContent
  CopiesIndependent
PROPERTIES
  SampledInPlace
  Answered
