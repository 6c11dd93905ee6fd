\* A launch while a thread waits for a line of the keyboard.
SPECIFICATION Spec
CONSTANTS
  c0 = c0 c1 = c1 k = k
  Core = {c0, c1}
  NoCore = NoCore
  Context <- MCContext
  Rows = 3
  Columns = 2
  Char <- MCChar
  Strings <- MCStrings
  Messages <- MCMessages
  Letters = {k}
  Plain <- MCPlain
  Shifted <- MCShifted
  ReadSize <- MCReadSize
  RoomSize = 6
  MaxKeys = 2
  Direct = {}
  Numbers = {}
  MaxCalls = 2
  MaxEvents = 4
  Called = {"input", "launch"}
INVARIANT
  ReaderIsFound
CHECK_DEADLOCK FALSE
