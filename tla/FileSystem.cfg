\* Two paths that are written, removed and written again, with a failure.
CONSTANTS
  Paths = {"a", "b", "d"}
  Contents <- MCContents
  Images <- MCImages
  LbaOffset = 16
  DiskSize = 32
  MaxTables = 5
  MaxWrites = 2
  MaxFailures = 1
SPECIFICATION FairSpec
INVARIANTS
  DiskSound
  FilesReadable
PROPERTIES
  TablesKept
  WriteReturns
CHECK_DEADLOCK FALSE
