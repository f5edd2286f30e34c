SPECIFICATION Spec
CONSTANTS
  Alert = {a, b}
  Employee = {"u", "v"}
  Account = {"v", "w"}
  Admin = {"w"}
  Verdict = {tp, fp}
  Note = {n, m}
  AlertUser <- Users
  NoUser = NoUser
  None = None
  Replica = {r1, r2}
  Send = {s1, s2}
  TopK = 1
  MaxMemories = 2
  MaxUses = 1
  MaxConvs = 2
  MaxCreated = 4
CONSTRAINT Small
SYMMETRY Symmetry
INVARIANTS
  TranscriptsSound
  AskedUnderOwnAlert
  StatsAccounted
  RememberedOnce
