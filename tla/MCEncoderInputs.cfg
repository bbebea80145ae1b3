\* Inputs that are shared and inputs that are not, split or whole, under both
\* policies, with two outputs under way, failed allocations, aborts and resets.
SPECIFICATION FairSpec
CONSTANTS
  Req = {"a", "b", "c"}
  Hash = {"x", "y", "z", "w", "v", "u"}
  Rank <- Ranks
  Settings <- AllSettings
INVARIANTS
  NeverMisses
  CachesAgree
  EncodedOnce
  PinsExact
  WholeOnly
PROPERTY
  Answered
