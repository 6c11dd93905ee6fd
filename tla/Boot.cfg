\* Twenty-nine PCs, up to three starts of the kernel.  The boot ends.
SPECIFICATION FairSpec
CONSTANTS
  Machines <- MCMachines
  Paths <- MCPaths
  MaxLives = 3
INVARIANTS
  FirmwareRead
  RunsIfGood
  AccidentsKnown
PROPERTIES
  BootEnds
CHECK_DEADLOCK FALSE
