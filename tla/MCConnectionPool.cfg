SPECIFICATION Spec
CONSTANTS
  Thread = {t1, t2, t3}
  Conn = {c1, c2, c3}
  None = None
  MinSize = 1
  MaxSize = 2
SYMMETRY Symmetry
INVARIANTS
  ConnectionsAccounted
  TimeoutFitsKind
  NothingHalfCommitted
