SPECIFICATION Spec
CONSTANTS
  Source = {s1, s2, s3}
  MaxEvents = 2
  MaxId = 3
  BatchMax = 2
SYMMETRY Symmetry
INVARIANTS
  WithinCapacity
  RowsIdentified
  NothingLost
  InFlightOwned
  ClaimedOnce
PROPERTIES
  EvictsOldestFirst
  DeliversAsPromised
