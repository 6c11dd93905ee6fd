\* Every system call, and somebody at the keyboard.  A call of a number
\* without an entry keeps the lock of the system calls: all cores may end up
\* waiting for it.
CONSTANTS
  NumberCores = 2
  MaxLaunches = 3
  Calls = {"print", "load", "loadNonBG", "input", "exit", "unknown"}
  Keyboard = TRUE
SPECIFICATION Spec
INVARIANTS
  CoresApart
  FramesNotMixed
CHECK_DEADLOCK FALSE
