\* Programs start programs, wait for them and exit.  Two cores, to keep the liveness
\* check small.  A core in whose handler a tick comes is followed no further: all may stop.
CONSTANTS
  NumberCores = 2
  MaxLaunches = 3
  Calls = {"load", "loadNonBG", "exit"}
  Keyboard = FALSE
SPECIFICATION FairSpec
INVARIANTS
  CoresApart
  FramesKept
  CallerIsCurrent
  FamiliesKept
  OnlyFirstCoreFaults
PROPERTIES
  ClosedForGood
  HandlerReturns
  ReadyRuns
CHECK_DEADLOCK FALSE
