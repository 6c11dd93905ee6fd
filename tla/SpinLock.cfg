\* Four cores, as compile.py starts them (-smp 4).
CONSTANTS
  Core = {c0, c1, c2, c3}
  NoCore = NoCore
SPECIFICATION FairSpec
INVARIANTS
  MutualExclusion
PROPERTIES
  Refinement
  SomeoneGetsIn
