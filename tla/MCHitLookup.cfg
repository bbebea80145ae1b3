\* Prompts of six tokens in blocks of one and two, eight with eagle; every set of
\* cached blocks.
SPECIFICATION FairSpec
CONSTANTS
  Models <- All
  None = None
INVARIANTS
  HitCovers
  HitExact
PROPERTY
  Answers
