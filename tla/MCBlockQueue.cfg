\* Three blocks and two hashes: a block can leave the middle of the queue, two
\* blocks can share a hash, and a list of several blocks can be freed at once.
SPECIFICATION Spec
CONSTANTS
  Block = {b1, b2, b3}
  Hash = {h1, h2}
  None = None
  MaxHeld = 2
  Valid = {1}
SYMMETRY Symmetry
INVARIANT QueueExact
PROPERTIES
  LookupStable
  FreedInOrder
  ImplementsBlockPool
