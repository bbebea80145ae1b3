\* The asynchronous loads on three blocks, without symmetry.
SPECIFICATION FairSpec
CONSTANTS
  None = None
  Block = {b1, b2, b3}
  Hash <- ThreeBlocks
  Req = {"a", "b"}
  BlockSize = 2
  Budget = 4
  Settings <- LiveSettings
PROPERTY TransfersEnd
