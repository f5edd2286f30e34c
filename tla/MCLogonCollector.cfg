SPECIFICATION Spec
CONSTANTS
  Collector <- Collectors
  Logon = "logon"
  MaxAttempts = 2
  MaxVersion = 2
  Chunk = 2
  MaxFiles = 2
  MaxRecords = 2
INVARIANTS
  TypeOK
  CollectorsObey
  RecordsAccounted
PROPERTIES
  PolicyReaches
  RecordsRead
