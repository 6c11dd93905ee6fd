\* Without any power failure.
CONSTANTS
  Paths = {"a", "b", "d"}
  Contents <- MCSmallContents
  Images <- MCImages
  LbaOffset = 16
  DiskSize = 32
  MaxTables = 5
  MaxWrites = 2
  MaxFailures = 0
SPECIFICATION Spec
INVARIANT NothingOverwritten
CHECK_DEADLOCK FALSE
