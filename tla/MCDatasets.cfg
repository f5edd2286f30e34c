SPECIFICATION Spec
CONSTANTS
  Loader = {l1, l2}
  Kind = {"all", "full", "demo", "seed", "direct", "certapi", "mockapi"}
  User = {1, 2}
  Device = {1, 2}
  NoUser = NoUser
  NoDevice = NoDevice
  Missing = Missing
  LastRow = 5
  UserOf <- RowUsers
  DeviceOf <- RowDevices
  TopUsers = 1
  TopDevices = 1
  Files <- DataFiles
  Bad = {2}
  Profiles = {2}
  BatchSize = 1
  MaxStarts = 2
  LiveRows = {5}
  Assignees = {2, NoUser}
  Watched = {2}
SYMMETRY Loaders
INVARIANTS
  CountedRowsStored
  KeysResolve
  OneAlertPerUser
PROPERTIES
  AssignmentsKept
