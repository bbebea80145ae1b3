\* Three blocks and two hashes: enough for two blocks under one hash, one block
\* under two partial hashes, and the replacement of a partial entry.
SPECIFICATION Spec
CONSTANTS
  Block = {b1, b2, b3}
  Hash = {h1, h2}
  None = None
  MaxHeld = 2
  Valid = {1, 2}
SYMMETRY Symmetry
INVARIANTS
  TypeOK
  FreeIffUnheld
  HashIndexAgrees
  PartialIndexAgrees
  LookupSound
