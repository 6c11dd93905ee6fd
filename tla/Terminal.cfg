\* Two lines of text of two cells, two cores, the program of one of which
\* prints by itself.  The bounds end the behaviours' calls, not the timers.
SPECIFICATION FairSpec
CONSTANTS
  c0 = c0 c1 = c1 k = k
  Core = {c0, c1}
  NoCore = NoCore
  Context <- MCContext
  Rows = 3
  Columns = 2
  Char <- MCChar
  Strings <- MCStrings
  Messages <- MCMessages
  Letters = {k}
  Plain <- MCPlain
  Shifted <- MCShifted
  ReadSize <- MCReadSize
  RoomSize = 6
  MaxKeys = 2
  Direct = {c1}
  Numbers = {0, 10}
  MaxCalls = 3
  MaxEvents = 3
  Called = {"print", "clear", "input", "launch"}
INVARIANTS
  OnePrinter
  CursorOnScreen
  PausedCanWake
  LineInBuffer
PROPERTIES
  ScreenIsText
\* Where a handler prints for ever in vain (Stuck), or a tick comes in one, everything
\* stops.
  HandlerReturns
CHECK_DEADLOCK FALSE
