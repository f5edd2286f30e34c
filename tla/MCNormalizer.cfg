SPECIFICATION Spec
CONSTANTS
  Source = {"a", "d"}
  Direct = {"d"}
  Replica = {r1, r2}
  User = {"u"}
  Device = {"m"}
  NoUser = NoUser
  NoDevice = NoDevice
  None = None
  KeyOf <- Keys
  UserOf <- Users
  DeviceOf <- Devices
  TimeOf <- Times
  Malformed = {}
  BatchSize = 2
  Since = {0, 1}
  Limit = 1
SYMMETRY Symmetry
INVARIANTS
  MarksRight
  ProcessedByOne
  ScoredOrDue
