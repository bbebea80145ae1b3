\* Asynchronous loads and loads ahead of the forward pass, under both policies for
\* loads that fail.
SPECIFICATION Spec
CONSTANTS
  None = None
  Block = {b1, b2, b3, b4}
  Hash <- ThreeBlocks
  Req = {"a", "b", "c"}
  BlockSize = 2
  Budget = 4
  Settings <- SafeSettings
SYMMETRY Blocks
INVARIANTS
  Accounted
  LoadsIntoOwn
  SendsRight
  CachedRight
  AnswersRight
