\* Some callers ask for 0 bytes.
CONSTANTS
  Client = {a, b, c}
  MaxNumberTables = 4
  MallocStart = 2
  AddressLimit = 12
  Sizes = {0, 1, 2}
  ForeignAddrs = {0, 1}
  EntrySize = 1
  MemoryMaps <- MCFlatMaps
  MinBytesRam = 6
SPECIFICATION Spec
CHECK_DEADLOCK FALSE
INVARIANT LiveChunksDisjoint
