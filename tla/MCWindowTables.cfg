\* Two requests that share four tokens, in models with one group of layers or two.
SPECIFICATION Spec
CONSTANTS
  Req = {"a", "b"}
  Shared = 4
  Settings <- Usual
  Block = {1, 2, 3, 4, 5, 6}
  Hash <- SevenTokens
  None = None
  Null = Null
INVARIANTS
  Accounted
  WindowExact
  CachedContent
