\* Three prompts, one of them longer than two budgets.  The block sizes relate as
\* in the tests of the patch; while a request waits, running requests share
\* three of the five tokens.
SPECIFICATION FairSpec
CONSTANTS
  Req = {"long", "mid", "short"}
  Prompt <- MixedPrompts
  MaxOut = 2
  Drafts = 1
  Budget = 5
  MaxRunning = 2
  BlockSize = 2
  AttnBlock = 4
  StateBlock = 2
  CoarseCount = 1
  CoarseGap = 2
  Threshold = 4
\* A run ends when every request has been served.
CHECK_DEADLOCK FALSE
INVARIANTS
  CheckpointsKept
  ChunksAligned
  AdmitsOne
PROPERTY
  Served
