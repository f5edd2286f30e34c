SPECIFICATION Spec
CONSTANTS
  Token = {t1, t2}
  Agent = {a1, a2}
  Host = {h1}
  Replica = {r1, r2}
  None = None
SYMMETRY Symmetry
INVARIANTS
  TokensAccounted
  KeysKnown
  TokenOnceUnlessContended
PROPERTIES
  RevocationSticks
