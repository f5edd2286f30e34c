SPECIFICATION FairSpec
CONSTANTS
  Source = {"a", "c", "x"}
  Direct = {}
  Replica = {r1}
  User = {"u"}
  Device = {"m"}
  NoUser = NoUser
  NoDevice = NoDevice
  None = None
  KeyOf <- Keys
  UserOf <- Users
  DeviceOf <- Devices
  TimeOf <- Times
  Malformed = {"x"}
  BatchSize = 2
  Since = {0, 1}
  Limit = 1
PROPERTIES
  ConvertedAndScored
