\* Three holders, five tables and few addresses: chunks are split, joined to
\* either side and used again, blocked areas lie below, right above and inside
\* the heap, the tables and the memory run out.
CONSTANTS
  Client = {a, b, c}
  MaxNumberTables = 5
  MallocStart = 2
  AddressLimit = 18
  Sizes = {1, 2}
  ForeignAddrs = {0, 1}
  EntrySize = 1
  MemoryMaps <- MCMaps
  MinBytesRam = 6
SPECIFICATION Spec
CHECK_DEADLOCK FALSE
INVARIANTS
  LiveChunksDisjoint
  MemoryAccounted
PROPERTY Refinement
