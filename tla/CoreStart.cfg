\* Up to four cores, tables of twelve shapes.  The boot ends, so the system stops.
SPECIFICATION FairSpec
CONSTANTS
  c0 = c0 c1 = c1 c2 = c2 c3 = c3
  Core = {c0, c1, c2, c3}
  BSC = c0
  Processors = {c0, c1, c2, c3}
  X2Apic = {}
  MadtTables <- MCTables
INVARIANTS
  PlacesKept
  NoTimerBeforeReady
  HandsOver
PROPERTIES StatesInOrder AllOnline
CHECK_DEADLOCK FALSE
