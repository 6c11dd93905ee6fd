\* Two cores; a parent, its child and a thread that reuses an entry; one
\* Malloc that fails, and few enough blocks for the memory to run out.
SPECIFICATION Spec
CONSTANTS
  NumberCores = 2
  MaxLaunches = 3
  MaxBlocks = 8
  MaxFailures = 1
INVARIANTS
  BlocksKept
  LeaksKnown
  HalfMadeBriefly
  StaleReadGood
PROPERTIES
  HangFreezes
\* A core that finds no memory in InitThread stops all.
CHECK_DEADLOCK FALSE
