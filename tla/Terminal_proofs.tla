--------------------------- MODULE Terminal_proofs ---------------------------
(***************************************************************************)
(* Proofs about Terminal, for any cores, strings, letters, buffers of any  *)
(* size and any screen of two lines or more: first what is printed (module *)
(* Console), then the line that a thread reads from the keyboard (module   *)
(* Keyboard), with the locks and the interrupts around them.               *)
(***************************************************************************)
EXTENDS Terminal, FiniteSetTheorems, TLAPS

(* What the cores do, ticks in a handler aside.                            *)
Steps == \E c \in Core : Step(c)

LEMMA KernelSteps ==
  ASSUME [Next]_vars
  PROVE  [Steps]_kernelVars
<1>1. ASSUME NEW c \in Core, Step(c)
      PROVE  Steps
  BY <1>1 DEF Steps
<1>2. ASSUME NEW c \in Core, NestedTick(c)
      PROVE  UNCHANGED kernelVars
  BY <1>2 DEF NestedTick
<1>3. CASE UNCHANGED vars
  BY <1>3 DEF vars
<1> QED BY <1>1, <1>2, <1>3 DEF Next

(* A context that is not mentioned stays where it is.                      *)
PrintInv ==
  /\ at \in [Context -> Places]
  /\ crossed \in BOOLEAN
  /\ OnePrinter

(* The cursor by the place of the one who prints: past the last line only  *)
(* between the character that takes it there and the end of the scroll.    *)
CursorInv ==
  /\ CurrentOffset \in Nat
  /\ ~crossed =>
       /\ (~Somewhere(InPrint)) => CurrentOffset < Limit
       /\ \A x \in Context : at[x] \in {"put", "unlock"} => CurrentOffset < Limit
       /\ \A x \in Context : at[x] = "check" => CurrentOffset <= Limit
       /\ \A x \in Context : at[x] = "scroll" => /\ Limit <= CurrentOffset
                                                 /\ CurrentOffset < Limit + Columns

ConsoleInv == PrintInv /\ CursorInv

-----------------------------------------------------------------------------
(* The screen has a line of text at least, and an offset that one print    *)
(* reaches is no wild one.                                                 *)
LEMMA ScreenSize ==
  /\ Columns \in Nat /\ Columns > 0
  /\ Limit \in Nat /\ Limit >= Columns
  /\ Wild \in Nat /\ Wild >= Limit + Columns
<1>1. Columns \in Nat /\ Columns > 0 /\ Rows \in Nat /\ Rows > 1
  BY ConsoleAssumption
<1>2. Cardinality(Context) \in Nat
  BY ConsoleAssumption, FS_CardinalityType
<1> DEFINE n == Cardinality(Context)
<1>3. Limit \in Nat /\ Limit >= Columns
  <2>1. PICK k \in Nat : Rows = k + 2
    BY <1>1
  <2>2. Limit = k * Columns + Columns
    BY <1>1, <2>1 DEF Limit
  <2>3. k * Columns \in Nat
    BY <1>1
  <2> QED
    BY <1>1, <2>2, <2>3
<1>4. Wild = Limit + Columns + n * Columns
  BY <1>1, <1>2 DEF Wild, Limit
<1>5. n * Columns \in Nat
  BY <1>1, <1>2
<1> QED
  BY <1>1, <1>3, <1>4, <1>5

(* A newline leads to the next line, never past the end of the lines that  *)
(* the cursor is in: the line behind a line of text is one of the screen.  *)
LEMMA NextLine ==
  ASSUME NEW offset \in Nat, NEW lines \in Nat, offset < lines * Columns
  PROVE  NewLine(offset) <= lines * Columns
<1>1. Columns \in Nat /\ Columns > 0
  BY ConsoleAssumption
<1> DEFINE q == offset \div Columns
<1>2. q \in Nat /\ q * Columns <= offset
  BY <1>1
<1>3. q < lines
  <2>1. SUFFICES ASSUME q >= lines
                 PROVE  FALSE
    BY <1>1, <1>2
  <2>2. PICK d \in Nat : q = lines + d
    BY <1>1, <1>2, <2>1
  <2>3. q * Columns = lines * Columns + d * Columns /\ d * Columns \in Nat
    BY <1>1, <2>2
  <2> QED
    BY <1>1, <1>2, <2>3
<1>4. PICK d \in Nat : lines = q + 1 + d
  BY <1>1, <1>2, <1>3
<1>5. lines * Columns = (q + 1) * Columns + d * Columns /\ d * Columns \in Nat
  BY <1>1, <1>2, <1>4
<1> QED
  BY <1>1, <1>2, <1>5 DEF NewLine

LEMMA NewLineBound ==
  ASSUME NEW offset \in Nat
  PROVE  /\ NewLine(offset) \in Nat
         /\ offset < Limit => NewLine(offset) <= Limit
<1>1. Columns \in Nat /\ Columns > 0 /\ Rows \in Nat /\ Rows > 1
  BY ConsoleAssumption
<1>2. NewLine(offset) \in Nat
  BY <1>1 DEF NewLine
<1>3. Rows - 1 \in Nat
  BY <1>1
<1> QED
  BY <1>2, <1>3, NextLine DEF Limit

-----------------------------------------------------------------------------
(* One lemma for each step of the console: it keeps the lock, the places   *)
(* and the cursor in step with each other.                                 *)
LEMMA PrintStringKeeps ==
  ASSUME ConsoleInv, NEW x \in Context, NEW s, PrintString(x, s)
  PROVE  ConsoleInv'
BY DEF PrintString, Go, ConsoleInv, PrintInv, CursorInv, OnePrinter, Somewhere,
       Places, InPrint, InClear

LEMMA TakeVgaKeeps ==
  ASSUME ConsoleInv, NEW x \in Context, TakeVga(x)
  PROVE  ConsoleInv'
<1> USE DEF ConsoleInv, InPrint, InClear, Places
<1>1. crossed' \in BOOLEAN /\ (~crossed' => ~crossed /\ ~Somewhere(InClear))
  BY DEF TakeVga, PrintInv
<1>2. ~crossed => \A y \in Context : at[y] \notin InPrint
  BY DEF TakeVga, PrintInv, OnePrinter, Somewhere
<1>3. /\ at' \in [Context -> Places]
      /\ at'[x] = "put"
      /\ \A y \in Context : y # x => at'[y] = at[y]
  BY DEF TakeVga, Go, PrintInv
<1>4. VgaSpinLock' = 1 /\ UNCHANGED CurrentOffset
  BY DEF TakeVga
<1>5. PrintInv'
  BY <1>1, <1>2, <1>3, <1>4 DEF PrintInv, OnePrinter, Somewhere
<1>6. CursorInv'
  <2>1. ~crossed' => CurrentOffset < Limit
    BY <1>1, <1>2 DEF CursorInv, Somewhere
  <2>2. ~crossed' => \A y \in Context : at'[y] \in InPrint => y = x
    BY <1>1, <1>2, <1>3
  <2> QED
    BY <1>3, <1>4, <2>1, <2>2 DEF CursorInv, Somewhere, Limit
<1> QED
  BY <1>5, <1>6

LEMMA PutCharKeeps ==
  ASSUME ConsoleInv, NEW x \in Context, PutChar(x)
  PROVE  ConsoleInv'
<1> USE DEF ConsoleInv, InPrint, InClear, Places
<1>1. PrintInv'
  BY DEF PutChar, Go, PrintInv, OnePrinter, Somewhere
<1>2. CurrentOffset' \in Nat
  BY ScreenSize, NewLineBound DEF PutChar, CursorInv
<1>3. ~crossed => CurrentOffset' <= Limit
  BY ScreenSize, NewLineBound DEF PutChar, CursorInv
<1>4. \A y \in Context : ~crossed /\ at'[y] \in InPrint => y = x
  BY DEF PutChar, Go, PrintInv, OnePrinter
<1>5. at'[x] = "check" /\ crossed' = crossed /\ Limit' = Limit
  BY DEF PutChar, Go, PrintInv, Limit
<1> QED
  BY <1>1, <1>2, <1>3, <1>4, <1>5 DEF CursorInv, Somewhere

LEMMA CheckLimitKeeps ==
  ASSUME ConsoleInv, NEW x \in Context, CheckLimit(x)
  PROVE  ConsoleInv'
<1> USE DEF ConsoleInv, InPrint, InClear, Places
<1>1. PrintInv'
  BY DEF CheckLimit, AfterChar, Go, PrintInv, OnePrinter, Somewhere
<1>2. \A y \in Context : ~crossed /\ at'[y] \in InPrint => y = x
  BY DEF CheckLimit, Go, PrintInv, OnePrinter
<1>3. /\ UNCHANGED <<crossed, CurrentOffset>>
      /\ IF CurrentOffset >= Limit THEN at'[x] = "scroll" ELSE at'[x] \in {"put", "unlock"}
  BY DEF CheckLimit, AfterChar, Go, PrintInv
<1> QED
  BY <1>1, <1>2, <1>3, ScreenSize DEF CursorInv, Somewhere, PrintInv

LEMMA ScrollScreenKeeps ==
  ASSUME ConsoleInv, NEW x \in Context, ScrollScreen(x)
  PROVE  ConsoleInv'
<1> USE DEF ConsoleInv, InPrint, InClear, Places
<1>1. PrintInv'
  BY DEF ScrollScreen, AfterChar, Go, PrintInv, OnePrinter, Somewhere
<1>2. \A y \in Context : ~crossed /\ at'[y] \in InPrint => y = x
  BY DEF ScrollScreen, Go, PrintInv, OnePrinter
<1>3. CurrentOffset' \in Nat
  BY ScreenSize DEF ScrollScreen, CursorInv
<1>4. ~crossed => CurrentOffset' < Limit
  BY ScreenSize DEF ScrollScreen, CursorInv
<1>5. at'[x] \in {"put", "unlock"} /\ crossed' = crossed
  BY DEF ScrollScreen, AfterChar, Go, PrintInv
<1> QED
  BY <1>1, <1>2, <1>3, <1>4, <1>5 DEF CursorInv, Somewhere

LEMMA EndPrintKeeps ==
  ASSUME ConsoleInv, NEW x \in Context, EndPrint(x)
  PROVE  ConsoleInv'
BY DEF EndPrint, Go, ConsoleInv, PrintInv, CursorInv, OnePrinter, Somewhere,
       Places, InPrint, InClear

LEMMA VGAInitKeeps ==
  ASSUME ConsoleInv, NEW x \in Context, VGAInit(x)
  PROVE  ConsoleInv'
BY DEF VGAInit, Go, ConsoleInv, PrintInv, CursorInv, OnePrinter, Somewhere,
       Places, InPrint, InClear

LEMMA ResetOffsetKeeps ==
  ASSUME ConsoleInv, NEW x \in Context, ResetOffset(x)
  PROVE  ConsoleInv'
<1> USE DEF ConsoleInv, InPrint, InClear, Places
<1>1. crossed' \in BOOLEAN /\ (~crossed' => ~crossed /\ ~Somewhere(InPrint))
  BY DEF ResetOffset, PrintInv
<1>2. /\ at' \in [Context -> Places]
      /\ at'[x] = "lock"
      /\ \A y \in Context : y # x => at'[y] = at[y]
  BY DEF ResetOffset, Go, PrintInv
<1>3. ~crossed' => \A y \in Context : at'[y] \notin InPrint
  BY <1>1, <1>2 DEF Somewhere
<1>4. PrintInv'
  BY <1>1, <1>2, <1>3 DEF PrintInv, OnePrinter, Somewhere
<1>5. CurrentOffset' = 0
  BY DEF ResetOffset
<1> QED
  BY <1>3, <1>4, <1>5, ScreenSize DEF CursorInv, Limit

LEMMA SetLockKeeps ==
  ASSUME ConsoleInv, NEW x \in Context, SetLock(x)
  PROVE  ConsoleInv'
BY DEF SetLock, Go, ConsoleInv, PrintInv, CursorInv, OnePrinter, Somewhere,
       Places, InPrint, InClear

LEMMA ClearCellsKeeps ==
  ASSUME ConsoleInv, NEW x \in Context, ClearCells(x)
  PROVE  ConsoleInv'
BY DEF ClearCells, Go, ConsoleInv, PrintInv, CursorInv, OnePrinter, Somewhere,
       Places, InPrint, InClear

LEMMA ConsoleStepKeeps ==
  ASSUME ConsoleInv, NEW x \in Context, ConsoleStep(x)
  PROVE  ConsoleInv'
BY PutCharKeeps, CheckLimitKeeps, ScrollScreenKeeps, EndPrintKeeps,
   ResetOffsetKeeps, SetLockKeeps, ClearCellsKeeps
   DEF ConsoleStep

LEMMA ConsoleStutters ==
  ASSUME ConsoleInv, UNCHANGED consoleVars
  PROVE  ConsoleInv'
BY DEF consoleVars, ConsoleInv, PrintInv, CursorInv, OnePrinter, Somewhere

-----------------------------------------------------------------------------
(* A step of the machine is one step of the console by the program or the  *)
(* handler of a core, or leaves the console alone.                         *)
LEMMA ConsoleInvStep == ConsoleInv /\ [Steps]_kernelVars => ConsoleInv'
<1> SUFFICES ASSUME ConsoleInv, [Steps]_kernelVars
             PROVE  ConsoleInv'
  OBVIOUS
<1>1. \A c \in Core : Program(c) \in Context /\ Handler(c) \in Context
  BY TerminalAssumption DEF Program, Handler
<1>2. ASSUME NEW c \in Core, PrintInt(c)
      PROVE  ConsoleInv'
  BY <1>1, <1>2, PrintStringKeeps DEF PrintInt
<1>3. ASSUME NEW c \in Core, ProgramStep(c)
      PROVE  ConsoleInv'
  BY <1>1, <1>3, ConsoleStepKeeps DEF ProgramStep
<1>4. ASSUME NEW c \in Core, ProgramTakes(c)
      PROVE  ConsoleInv'
  BY <1>1, <1>4, TakeVgaKeeps DEF ProgramTakes
<1>5. ASSUME NEW c \in Core, Timer(c)
      PROVE  ConsoleInv'
  BY <1>5, ConsoleStutters DEF Timer
<1>6. ASSUME NEW c \in Core, NEW f \in Called, Syscall(c, f)
      PROVE  ConsoleInv'
  BY <1>6, ConsoleStutters DEF Syscall
<1>7. ASSUME NEW c \in Core, Take(c)
      PROVE  ConsoleInv'
  <2>1. ASSUME TakeSyscallLock(c)
        PROVE  ConsoleInv'
    <3>1. Serve(c)
      BY <2>1 DEF TakeSyscallLock
    <3> QED
      BY <1>1, <3>1, PrintStringKeeps, VGAInitKeeps, ConsoleStutters DEF Serve
  <2>2. ASSUME TakePs2Lock(c)
        PROVE  ConsoleInv'
    BY <2>2, ConsoleStutters DEF TakePs2Lock
  <2>3. ASSUME HandlerTakesVga(c)
        PROVE  ConsoleInv'
    BY <1>1, <2>3, TakeVgaKeeps DEF HandlerTakesVga
  <2> QED
    BY <1>7, <2>1, <2>2, <2>3 DEF Take
<1>8. ASSUME NEW c \in Core, Handle(c)
      PROVE  ConsoleInv'
  <2>1. ASSUME InConsole(c)
        PROVE  ConsoleInv'
    BY <1>1, <2>1, ConsoleStepKeeps DEF InConsole
  <2>2. ASSUME InDriver(c)
        PROVE  ConsoleInv'
    BY <2>2, ConsoleStutters DEF InDriver
  <2>3. ASSUME Echo(c)
        PROVE  ConsoleInv'
    BY <1>1, <2>3, PrintStringKeeps DEF Echo
  <2>4. ASSUME EndSyscall(c)
        PROVE  ConsoleInv'
    BY <2>4, ConsoleStutters DEF EndSyscall
  <2>5. ASSUME EndPs2(c)
        PROVE  ConsoleInv'
    BY <2>5, ConsoleStutters DEF EndPs2
  <2> QED
    BY <1>8, <2>1, <2>2, <2>3, <2>4, <2>5 DEF Handle
<1>9. CASE UNCHANGED kernelVars
  BY <1>9, ConsoleStutters DEF kernelVars
<1> QED
  BY <1>2, <1>3, <1>4, <1>5, <1>6, <1>7, <1>8, <1>9 DEF Steps, Step

LEMMA ConsoleInvariant == Spec => []ConsoleInv
<1>1. ASSUME Init
      PROVE  ConsoleInv
  <2>1. /\ at = [x \in Context |-> "out"]
        /\ crossed = FALSE
        /\ CurrentOffset = 0
    BY <1>1 DEF Init, ConsoleInit
  <2>2. PrintInv
    BY <2>1 DEF PrintInv, OnePrinter, Somewhere, Places, InPrint, InClear
  <2>3. CursorInv
    BY <2>1, ScreenSize DEF CursorInv, Somewhere, InPrint
  <2> QED
    BY <2>2, <2>3 DEF ConsoleInv
<1>2. ConsoleInv /\ [Next]_vars => ConsoleInv'
  BY KernelSteps, ConsoleInvStep
<1> QED
  BY <1>1, <1>2, PTL DEF Spec

(* VgaSpinLock keeps every context but one out of the body of PrintString, *)
(* until a VGAInit breaks in (console.cpp:69, which the lock does not      *)
(* stop).                                                                  *)
THEOREM OnePrinterAtATime == Spec => []OnePrinter
<1>1. ConsoleInv => OnePrinter
  BY DEF ConsoleInv, PrintInv
<1> QED
  BY <1>1, ConsoleInvariant, PTL

(* Characters go to the lines of text only, on a screen of any size.       *)
THEOREM CursorStaysOnScreen == Spec => []CursorOnScreen
<1>1. ConsoleInv => CursorOnScreen
  <2> SUFFICES ASSUME ConsoleInv, ~crossed
               PROVE  /\ Somewhere({"put", "unlock"}) => CurrentOffset < Limit
                      /\ CurrentOffset < Limit + Columns
    BY DEF CursorOnScreen
  <2>1. Somewhere({"put", "unlock"}) => CurrentOffset < Limit
    BY DEF ConsoleInv, CursorInv, Somewhere
  <2>2. CurrentOffset < Limit + Columns
    BY ScreenSize DEF ConsoleInv, CursorInv, Somewhere, InPrint
  <2> QED
    BY <2>1, <2>2
<1> QED
  BY <1>1, ConsoleInvariant, PTL

-----------------------------------------------------------------------------
(***************************************************************************)
(* A line read from the keyboard.                                          *)
(***************************************************************************)
(***************************************************************************)
(* Where the cores are, and which locks they have.                         *)
(***************************************************************************)
AtGetInput == {"setBuffer"} \cup InGetInput
AtPoll == {"poll", "echo"} \cup InKey

KeyPlacesFit ==
  /\ \A c \in Core : key[c] \in AtGetInput => pc[c] = "call"
  /\ \A c \in Core : key[c] \in AtPoll => pc[c] = "poll"
  /\ \A c \in Core : pc[c] = "call" => SyscallSpinLock = 1
  /\ \A c \in Core : pc[c] = "poll" => Ps2SpinLock = 1
  /\ \A c, d \in Core : pc[c] = "call" /\ pc[d] = "call" => c = d
  /\ \A c, d \in Core : pc[c] = "poll" /\ pc[d] = "poll" => c = d

(* Whatever crosses, the driver's index stays near the buffer it counts.   *)
IndexNear ==
  /\ BufferSizeBytes + 2 \in Room
  /\ BufferIndex + 2 \in Room
  /\ \A c \in Core : key[c] = "store" => BufferIndex + 3 \in Room

(* A print that goes on has a character left.                              *)
TextLeft == \A x \in Context : at[x] \in {"wantVga", "put"} => text[x] # <<>>

TypeInv == KernelTypes /\ TextLeft /\ KeyPlacesFit /\ IndexNear

(***************************************************************************)
(* A read that nothing has crossed: the reader, from the first store of    *)
(* GetInput on until the end of its line wakes it.                         *)
(***************************************************************************)
Asleep(c) == ThreadState[c] = "paused" /\ ThreadGetingInput = c /\ ~moved

ReaderKept ==
  /\ InKeys(InKey) => ~InKeys(InGetInput)
  /\ \A c \in Core : pc[c] = "wantSyscall" \/ key[c] \in AtGetInput => ThreadState[c] = "normal"
  /\ \A c \in Core : key[c] \in InGetInput => CurrentBuffer = c
  /\ \A c \in Core : key[c] \in {"setGetter", "setPaused"} =>
       BufferSizeBytes = ReadSize[c] /\ BufferIndex = 0
  /\ \A c \in Core : key[c] = "setPaused" => ThreadGetingInput = c /\ ~moved
  /\ \A c \in Core : ThreadState[c] = "paused" =>
       Asleep(c) /\ (CurrentBuffer = c \/ InKeys({"wake"}))
  /\ \A c \in Core : CurrentBuffer = c =>
       key[c] \in InGetInput \/ (Asleep(c) /\ BufferSizeBytes = ReadSize[c])
  /\ InKeys({"store", "endLine", "clearBuffer"}) => CurrentBuffer # NoCore
  /\ InKeys({"wake"}) => /\ CurrentBuffer = NoCore
                         /\ \E c \in Core : Asleep(c)

(***************************************************************************)
(* What the buffer of a thread has of its line.                            *)
(***************************************************************************)
Filled(c) == IF Len(typed[c]) < ReadSize[c] THEN Len(typed[c]) ELSE ReadSize[c]

(* The first n bytes that the driver writes, and all but those.            *)
Holds(c, n) == \A i \in 1..n : buffer[c][i] = typed[c][i]
Clean(c, n) == \A i \in Room : i < First \/ i > n => buffer[c][i] = Untouched
Partial(c) == Holds(c, BufferIndex) /\ Clean(c, BufferIndex)
Delivered(c) == /\ Holds(c, Filled(c))
                /\ buffer[c][Filled(c) + 1] = End

Reading(c) == CurrentBuffer = c /\ key[c] \notin InGetInput

LineKept ==
  /\ \A c \in Core : key[c] \in InGetInput => typed[c] = <<>> /\ Clean(c, 0)
  /\ \A c \in Core : Reading(c) /\ ~InKeys({"store", "clearBuffer"}) =>
       Partial(c) /\ BufferIndex = Filled(c)
  /\ \A c, d \in Core : Reading(c) /\ key[d] = "store" =>
       /\ Partial(c)
       /\ Len(typed[c]) = BufferIndex + 1 /\ BufferIndex < ReadSize[c]
       /\ typed[c][BufferIndex + 1] = AsciiChar(letter[d])
  /\ \A c \in Core : Reading(c) /\ InKeys({"clearBuffer"}) => Delivered(c)
  /\ \A c \in Core : ThreadState[c] = "paused" /\ InKeys({"wake"}) => Delivered(c)
  /\ \A c \in Core : ThreadState[c] = "restarting" => Delivered(c)
  /\ \A c \in Core : Clean(c, ReadSize[c] + 1)

ReadInv == ~disturbed => ReaderKept /\ LineKept
KInv == TypeInv /\ ReadInv /\ tick \in [Core -> {"off", "possible", "nested"}]

-----------------------------------------------------------------------------
(***************************************************************************)
(* Values.                                                                 *)
(***************************************************************************)
LEMMA Contexts ==
  ASSUME NEW c \in Core
  PROVE  Program(c) \in Context /\ Handler(c) \in Context
BY TerminalAssumption DEF Program, Handler

LEMMA LetterChars ==
  ASSUME NEW k \in Letters
  PROVE  AsciiChar(k) \in Characters /\ <<AsciiChar(k)>> \in Strings
<1>1. Plain[k] \in Characters /\ Shifted[k] \in Characters
  BY KeyboardAssumption DEF Characters, Range
<1> QED BY <1>1, TerminalAssumption DEF AsciiChar

LEMMA StringTypes ==
  ASSUME NEW s \in Strings
  PROVE  s \in Seq(Char \cup {Newline}) /\ s # <<>>
BY ConsoleAssumption

LEMMA WildLines ==
  /\ Wild \in Nat
  /\ \A offset \in Nat : offset < Wild => NewLine(offset) \in 0..Wild
<1>1. Rows + Cardinality(Context) \in Nat
  BY ConsoleAssumption, FS_CardinalityType
<1>2. \A offset \in Nat : NewLine(offset) \in Nat
  BY NewLineBound
<1>3. Wild = (Rows + Cardinality(Context)) * Columns
  BY DEF Wild
<1> DEFINE n == Rows + Cardinality(Context)
<1>4. n \in Nat /\ Wild = n * Columns
  BY <1>1, <1>3
<1> HIDE DEF n
<1>5. \A offset \in Nat : offset < Wild => NewLine(offset) <= Wild
  BY <1>4, NextLine
<1>6. Wild \in Nat
  BY ScreenSize
<1> QED BY <1>2, <1>5, <1>6

-----------------------------------------------------------------------------
(***************************************************************************)
(* The console keeps its types, whatever crosses.                          *)
(***************************************************************************)
ConsoleKept == ConsoleTypeOK /\ TextLeft

LEMMA PrintStringTypes ==
  ASSUME ConsoleKept, NEW x \in Context, NEW s \in Strings, PrintString(x, s)
  PROVE  ConsoleKept'
<1>1. s \in Seq(Char \cup {Newline}) /\ s # <<>>
  BY StringTypes
<1> QED BY <1>1 DEF PrintString, Go, ConsoleKept, ConsoleTypeOK, TextLeft, Places

LEMMA PutCharTypes ==
  ASSUME ConsoleKept, NEW x \in Context, PutChar(x)
  PROVE  ConsoleKept'
<1> USE DEF ConsoleKept
<1>1. text[x] \in Seq(Char \cup {Newline}) /\ text[x] # <<>>
  BY DEF PutChar, ConsoleTypeOK, TextLeft
<1>2. Head(text[x]) \in Char \cup {Newline} /\ Tail(text[x]) \in Seq(Char \cup {Newline})
  BY <1>1
<1>3. screen' \in [Cell -> Char \cup {Blank}]
  BY <1>2 DEF PutChar, ConsoleTypeOK
<1>4. CurrentOffset' \in 0..Wild
  <2>1. CurrentOffset \in Nat /\ Wild \in Nat /\ CurrentOffset <= Wild
    BY WildLines DEF ConsoleTypeOK
  <2>2. CurrentOffset # Wild => NewLine(CurrentOffset) \in 0..Wild /\ CurrentOffset + 1 \in 0..Wild
    BY <2>1, WildLines
  <2>3. CurrentOffset' \in {Wild, NewLine(CurrentOffset), CurrentOffset + 1}
        /\ (CurrentOffset = Wild => CurrentOffset' = Wild)
    BY DEF PutChar
  <2> QED BY <2>1, <2>2, <2>3
<1>5. at' \in [Context -> Places] /\ text' \in [Context -> Seq(Char \cup {Newline})]
  BY <1>2 DEF PutChar, Go, ConsoleTypeOK, Places, InPrint
<1>6. TextLeft'
  BY DEF PutChar, Go, ConsoleTypeOK, TextLeft
<1> QED BY <1>3, <1>4, <1>5, <1>6 DEF PutChar, ConsoleTypeOK

LEMMA CheckLimitTypes ==
  ASSUME ConsoleKept, NEW x \in Context, CheckLimit(x)
  PROVE  ConsoleKept'
<1>1. at' \in [Context -> Places]
  BY DEF CheckLimit, Go, AfterChar, ConsoleKept, ConsoleTypeOK, Places, InPrint
<1>2. TextLeft'
  BY DEF CheckLimit, Go, AfterChar, ConsoleKept, ConsoleTypeOK, TextLeft
<1> QED BY <1>1, <1>2 DEF CheckLimit, ConsoleKept, ConsoleTypeOK

LEMMA ScrollScreenTypes ==
  ASSUME ConsoleKept, NEW x \in Context, ScrollScreen(x)
  PROVE  ConsoleKept'
<1>1. at' \in [Context -> Places]
  BY DEF ScrollScreen, Go, AfterChar, ConsoleKept, ConsoleTypeOK, Places, InPrint
<1>2. TextLeft'
  BY DEF ScrollScreen, Go, AfterChar, ConsoleKept, ConsoleTypeOK, TextLeft
<1>3. screen' \in [Cell -> Char \cup {Blank}]
  <2>1. \A i \in Cell : i < Limit => i + Columns \in Cell
    <3>1. Limit + Columns = Rows * Columns
      BY ConsoleAssumption DEF Limit
    <3>2. Rows * Columns \in Nat
      BY ConsoleAssumption
    <3> QED BY <3>1, <3>2, ScreenSize DEF Cell
  <2>2. screen' = [i \in Cell |-> IF i < Limit THEN screen[i + Columns]
                                  ELSE IF i = Limit THEN Blank ELSE screen[i]]
    BY DEF ScrollScreen
  <2>3. screen \in [Cell -> Char \cup {Blank}]
    BY DEF ConsoleKept, ConsoleTypeOK
  <2> QED BY <2>1, <2>2, <2>3
<1>4. CurrentOffset' \in 0..Wild
  BY ScreenSize DEF ScrollScreen, ConsoleKept, ConsoleTypeOK
<1> QED BY <1>1, <1>2, <1>3, <1>4 DEF ScrollScreen, ConsoleKept, ConsoleTypeOK

LEMMA OtherConsoleTypes ==
  ASSUME ConsoleKept, NEW x \in Context,
         TakeVga(x) \/ EndPrint(x) \/ VGAInit(x) \/ ResetOffset(x) \/ SetLock(x) \/ ClearCells(x)
  PROVE  ConsoleKept'
<1>1. at' \in [Context -> Places]
  BY DEF TakeVga, EndPrint, VGAInit, ResetOffset, SetLock, ClearCells, Go, ConsoleKept,
     ConsoleTypeOK, Places, InPrint, InClear
<1>2. TextLeft'
  BY DEF TakeVga, EndPrint, VGAInit, ResetOffset, SetLock, ClearCells, Go, ConsoleKept,
     ConsoleTypeOK, TextLeft
<1>3. screen' \in [Cell -> Char \cup {Blank}]
  BY DEF TakeVga, EndPrint, VGAInit, ResetOffset, SetLock, ClearCells, ConsoleKept, ConsoleTypeOK
<1>4. CurrentOffset' \in 0..Wild /\ VgaSpinLock' \in {0, 1} /\ text' = text
  BY WildLines DEF TakeVga, EndPrint, VGAInit, ResetOffset, SetLock, ClearCells, ConsoleKept,
     ConsoleTypeOK
<1>5. crossed' \in BOOLEAN
  BY Zenon DEF TakeVga, EndPrint, VGAInit, ResetOffset, SetLock, ClearCells, ConsoleKept,
     ConsoleTypeOK
<1> QED BY <1>1, <1>2, <1>3, <1>4, <1>5 DEF ConsoleKept, ConsoleTypeOK

LEMMA ConsoleStepTypes ==
  ASSUME ConsoleKept, NEW x \in Context, ConsoleStep(x)
  PROVE  ConsoleKept'
BY PutCharTypes, CheckLimitTypes, ScrollScreenTypes, OtherConsoleTypes DEF ConsoleStep

-----------------------------------------------------------------------------
(***************************************************************************)
(* The steps that the keyboard sees.                                       *)
(***************************************************************************)
Elsewhere == UNCHANGED <<keyboardVars, SyscallSpinLock, Ps2SpinLock, pc, call>>
Drives(c) == (GetInputStep(c) \/ PollStep(c)) /\ UNCHANGED handlerVars

LEMMA StepKinds ==
  ASSUME [Steps]_kernelVars
  PROVE  \/ Elsewhere
         \/ \E c \in Core :
              \/ Timer(c) \/ TakeSyscallLock(c) \/ TakePs2Lock(c)
              \/ \E f \in Called : Syscall(c, f)
              \/ Drives(c) \/ Echo(c) \/ EndSyscall(c) \/ EndPs2(c)
<1>1. ASSUME NEW c \in Core,
             PrintInt(c) \/ ProgramStep(c) \/ ProgramTakes(c) \/ HandlerTakesVga(c) \/ InConsole(c)
      PROVE  Elsewhere
  BY <1>1 DEF PrintInt, ProgramStep, ProgramTakes, HandlerTakesVga, InConsole, Elsewhere, handlerVars
<1>2. CASE UNCHANGED kernelVars
  BY <1>2 DEF kernelVars, Elsewhere, handlerVars
<1>3. ASSUME NEW c \in Core, InDriver(c)
      PROVE  Drives(c)
  BY <1>3 DEF InDriver, Drives
<1> QED BY <1>1, <1>2, <1>3 DEF Steps, Step, Take, Handle

(* TakeSyscallLock begins a call in the console or in the driver.          *)
LEMMA ServeEffect ==
  ASSUME NEW c \in Core, Serve(c)
  PROVE  /\ key' = key \/ key' = [key EXCEPT ![c] = "setBuffer"]
         /\ UNCHANGED <<CurrentBuffer, BufferSizeBytes, BufferIndex, ThreadGetingInput, ShiftDown,
                        buffer, ThreadState, letter, keys, typed>>
         /\ UNCHANGED <<moved, disturbed>> \/ MoveArray
BY DEF Serve, MoveArray, driverVars, keyboardVars

LEMMA RoomFacts ==
  /\ 0 \in Room /\ 1 \in Room /\ 2 \in Room /\ MaxKeys \in Nat
  /\ \A c \in Core : /\ ReadSize[c] \in Nat /\ ReadSize[c] \in Room
                     /\ ReadSize[c] + 1 \in Room /\ ReadSize[c] + 2 \in Room
BY KeyboardAssumption DEF Room, First

LEMMA KeyboardTypes ==
  ASSUME KeyboardTypeOK, KeyPlacesFit, IndexNear, [Steps]_kernelVars
  PROVE  KeyboardTypeOK'
<1> USE DEF KeyboardTypeOK
<1>1. ASSUME NEW c \in Core, Timer(c)
      PROVE  KeyboardTypeOK'
  BY <1>1 DEF Timer, Goto, driverVars, keyboardVars, handlerVars, KeyPlaces, InGetInput, InKey
<1>2. ASSUME NEW c \in Core, NEW f \in Called, Syscall(c, f)
      PROVE  KeyboardTypeOK'
  BY <1>2 DEF Syscall, Goto, Calls, driverVars, keyboardVars, handlerVars, KeyPlaces, InGetInput, InKey
<1>3. ASSUME NEW c \in Core, TakeSyscallLock(c)
      PROVE  KeyboardTypeOK'
  <2>1. moved' \in BOOLEAN
    BY <1>3, ServeEffect DEF TakeSyscallLock, MoveArray
  <2>2. disturbed' \in BOOLEAN
    <3>1. CASE UNCHANGED disturbed
      BY <3>1
    <3>2. CASE MoveArray
      BY <3>2, Zenon DEF MoveArray
    <3> QED BY <1>3, <3>1, <3>2, ServeEffect DEF TakeSyscallLock
  <2> QED BY <1>3, <2>1, <2>2, ServeEffect DEF TakeSyscallLock, KeyPlaces
<1>4. ASSUME NEW c \in Core, TakePs2Lock(c)
      PROVE  KeyboardTypeOK'
  BY <1>4 DEF TakePs2Lock, Goto, driverVars, keyboardVars, handlerVars, KeyPlaces, InGetInput, InKey
<1>5. ASSUME NEW c \in Core, SetBuffer(c), UNCHANGED handlerVars
      PROVE  KeyboardTypeOK'
  <2>1. buffer' \in [Core -> [Room -> Characters \cup {End, Untouched}]]
    BY <1>5 DEF SetBuffer
  <2>2. disturbed' \in BOOLEAN
    BY <1>5, Zenon DEF SetBuffer
  <2> QED BY <1>5, <2>1, <2>2 DEF SetBuffer, KeyGo, KeyPlaces, InGetInput
<1>6. ASSUME NEW c \in Core, SetSize(c), UNCHANGED handlerVars
      PROVE  KeyboardTypeOK'
  <2>1. BufferSizeBytes' \in Nat /\ BufferIndex' \in Nat /\ First + BufferIndex' \in Room
    BY <1>6, RoomFacts DEF SetSize, First
  <2> QED BY <1>6, <2>1 DEF SetSize, KeyGo, KeyPlaces, InGetInput
<1>7. ASSUME NEW c \in Core, SetGetter(c), UNCHANGED handlerVars
      PROVE  KeyboardTypeOK'
  BY <1>7 DEF SetGetter, KeyGo, driverVars, keyboardVars, handlerVars, KeyPlaces, InGetInput, InKey
<1>8. ASSUME NEW c \in Core, SetPaused(c), UNCHANGED handlerVars
      PROVE  KeyboardTypeOK'
  <2>1. ThreadState' \in [Core -> ThreadStates]
    BY <1>8 DEF SetPaused, StoreState, ThreadStates
  <2> QED BY <1>8, <2>1 DEF SetPaused, KeyGo, driverVars, KeyPlaces
<1>9. ASSUME NEW c \in Core, NoKey(c), UNCHANGED handlerVars
      PROVE  KeyboardTypeOK'
  BY <1>9 DEF NoKey, KeyGo, driverVars, keyboardVars, handlerVars, KeyPlaces, InGetInput, InKey
<1>10. ASSUME NEW c \in Core, ShiftKey(c), UNCHANGED handlerVars
      PROVE  KeyboardTypeOK'
  <2>1. ShiftDown' \in BOOLEAN
    BY <1>10 DEF ShiftKey
  <2> QED BY <1>10, <2>1, RoomFacts DEF ShiftKey, KeyPressed, KeyGo, KeyPlaces
<1>11. ASSUME NEW c \in Core, EnterKey(c), UNCHANGED handlerVars
      PROVE  KeyboardTypeOK'
  <2>1. disturbed' \in BOOLEAN
    BY <1>11, Zenon DEF EnterKey, Meets
  <2> QED BY <1>11, <2>1, RoomFacts DEF EnterKey, KeyPressed, KeyGo, KeyPlaces, InKey, driverVars
<1>12. ASSUME NEW c \in Core, EndLine(c), UNCHANGED handlerVars
      PROVE  KeyboardTypeOK'
  <2>1. buffer' \in [Core -> [Room -> Characters \cup {End, Untouched}]]
    BY <1>12 DEF EndLine, Store
  <2>2. BufferIndex' \in Nat /\ First + BufferIndex' \in Room
    BY <1>12, RoomFacts DEF EndLine, First
  <2> QED BY <1>12, <2>1, <2>2 DEF EndLine, KeyGo, KeyPlaces, InKey
<1>13. ASSUME NEW c \in Core, ClearBuffer(c), UNCHANGED handlerVars
      PROVE  KeyboardTypeOK'
  BY <1>13 DEF ClearBuffer, KeyGo, driverVars, keyboardVars, handlerVars, KeyPlaces, InGetInput, InKey
<1>14. ASSUME NEW c \in Core, Wake(c), UNCHANGED handlerVars
      PROVE  KeyboardTypeOK'
  <2>1. ThreadState' \in [Core -> ThreadStates]
    BY <1>14 DEF Wake, StoreState, ThreadStates
  <2> QED BY <1>14, <2>1 DEF Wake, KeyGo, driverVars, KeyPlaces
<1>15. ASSUME NEW c \in Core, NEW k \in Letters, LetterKey(c, k), UNCHANGED handlerVars
      PROVE  KeyboardTypeOK'
  <2>1. disturbed' \in BOOLEAN
    BY <1>15, Zenon DEF LetterKey, Meets
  <2>2. typed' \in [Core -> Seq(Characters)]
    <3>1. AsciiChar(k) \in Characters
      BY LetterChars
    <3>2. CurrentBuffer \in Core => Append(typed[CurrentBuffer], AsciiChar(k)) \in Seq(Characters)
      BY <3>1
    <3>3. CASE CurrentBuffer = NoCore
      BY <1>15, <3>3 DEF LetterKey
    <3>4. CASE CurrentBuffer \in Core /\ CurrentBuffer # NoCore
      <4>1. typed' = [typed EXCEPT ![CurrentBuffer] = Append(typed[CurrentBuffer], AsciiChar(k))]
        BY <1>15, <3>4 DEF LetterKey
      <4> QED BY <3>2, <3>4, <4>1
    <3> QED BY <3>3, <3>4
  <2> QED BY <1>15, <2>1, <2>2, RoomFacts DEF LetterKey, KeyPressed, KeyGo, KeyPlaces, InKey,
          driverVars
<1>16. ASSUME NEW c \in Core, StoreLetter(c), UNCHANGED handlerVars
      PROVE  KeyboardTypeOK'
  <2>1. AsciiChar(letter[c]) \in Characters
    BY LetterChars
  <2>2. buffer' \in [Core -> [Room -> Characters \cup {End, Untouched}]]
    BY <1>16, <2>1 DEF StoreLetter, Store
  <2>3. BufferIndex' \in Nat /\ First + BufferIndex' \in Room
    BY <1>16 DEF StoreLetter, IndexNear, Room, First
  <2> QED BY <1>16, <2>2, <2>3 DEF StoreLetter, KeyGo, KeyPlaces
<1>17. ASSUME NEW c \in Core, Echo(c)
      PROVE  KeyboardTypeOK'
  BY <1>17 DEF Echo, driverVars, keyboardVars, handlerVars, KeyPlaces, InGetInput, InKey
<1>18. ASSUME NEW c \in Core, EndSyscall(c)
      PROVE  KeyboardTypeOK'
  BY <1>18 DEF EndSyscall, Goto, Returned, driverVars, keyboardVars, handlerVars, KeyPlaces, InGetInput, InKey
<1>19. ASSUME NEW c \in Core, EndPs2(c)
      PROVE  KeyboardTypeOK'
  <2>1. ThreadState' \in [Core -> ThreadStates]
    BY <1>19 DEF EndPs2, ThreadStates
  <2> QED BY <1>19, <2>1 DEF EndPs2, driverVars
<1>20. CASE Elsewhere
  BY <1>20 DEF Elsewhere, driverVars, keyboardVars, handlerVars, KeyPlaces, InGetInput, InKey
<1> QED BY <1>1, <1>2, <1>3, <1>4, <1>5, <1>6, <1>7, <1>8, <1>9, <1>10, <1>11, <1>12, <1>13, <1>14, <1>15, <1>16, <1>17, <1>18, <1>19, <1>20, StepKinds DEF Drives, GetInputStep, PollStep

LEMMA PlacesStep ==
  ASSUME KernelTypes, KeyPlacesFit, [Steps]_kernelVars
  PROVE  KeyPlacesFit'
<1> USE DEF KernelTypes, KeyboardTypeOK, KeyPlacesFit, AtGetInput, AtPoll, InGetInput, InKey
<1>1. ASSUME NEW c \in Core, Timer(c)
      PROVE  KeyPlacesFit'
  BY <1>1 DEF Timer, Goto, driverVars, keyboardVars, handlerVars
<1>2. ASSUME NEW c \in Core, NEW f \in Called, Syscall(c, f)
      PROVE  KeyPlacesFit'
  <2>1. /\ pc[c] = "run" /\ pc' = [pc EXCEPT ![c] = "wantSyscall"]
        /\ UNCHANGED <<SyscallSpinLock, Ps2SpinLock, key>>
    BY <1>2 DEF Syscall, Goto, ProgramRuns, keyboardVars
  <2> QED BY <2>1
<1>3. ASSUME NEW c \in Core, TakeSyscallLock(c)
      PROVE  KeyPlacesFit'
  <2>1. /\ pc[c] = "wantSyscall" /\ SyscallSpinLock = 0 /\ SyscallSpinLock' = 1
        /\ pc' = [pc EXCEPT ![c] = "call"] /\ Ps2SpinLock' = Ps2SpinLock
    BY <1>3 DEF TakeSyscallLock, Goto
  <2>2. key' = key \/ key' = [key EXCEPT ![c] = "setBuffer"]
    BY <1>3, ServeEffect DEF TakeSyscallLock
  <2> QED BY <2>1, <2>2
<1>4. ASSUME NEW c \in Core, TakePs2Lock(c)
      PROVE  KeyPlacesFit'
  BY <1>4 DEF TakePs2Lock, Goto, driverVars, keyboardVars, handlerVars
<1>5. ASSUME NEW c \in Core, SetBuffer(c), UNCHANGED handlerVars
      PROVE  KeyPlacesFit'
  BY <1>5 DEF SetBuffer, KeyGo, driverVars, keyboardVars, handlerVars
<1>6. ASSUME NEW c \in Core, SetSize(c), UNCHANGED handlerVars
      PROVE  KeyPlacesFit'
  BY <1>6 DEF SetSize, KeyGo, driverVars, keyboardVars, handlerVars
<1>7. ASSUME NEW c \in Core, SetGetter(c), UNCHANGED handlerVars
      PROVE  KeyPlacesFit'
  BY <1>7 DEF SetGetter, KeyGo, driverVars, keyboardVars, handlerVars
<1>8. ASSUME NEW c \in Core, SetPaused(c), UNCHANGED handlerVars
      PROVE  KeyPlacesFit'
  BY <1>8 DEF SetPaused, KeyGo, driverVars, keyboardVars, handlerVars
<1>9. ASSUME NEW c \in Core, NoKey(c), UNCHANGED handlerVars
      PROVE  KeyPlacesFit'
  BY <1>9 DEF NoKey, KeyGo, driverVars, keyboardVars, handlerVars
<1>10. ASSUME NEW c \in Core, ShiftKey(c), UNCHANGED handlerVars
      PROVE  KeyPlacesFit'
  BY <1>10 DEF ShiftKey, KeyPressed, KeyGo, driverVars, keyboardVars, handlerVars
<1>11. ASSUME NEW c \in Core, EnterKey(c), UNCHANGED handlerVars
      PROVE  KeyPlacesFit'
  BY <1>11 DEF EnterKey, KeyPressed, KeyGo, Meets, driverVars, keyboardVars, handlerVars
<1>12. ASSUME NEW c \in Core, EndLine(c), UNCHANGED handlerVars
      PROVE  KeyPlacesFit'
  BY <1>12 DEF EndLine, Store, KeyGo, driverVars, keyboardVars, handlerVars
<1>13. ASSUME NEW c \in Core, ClearBuffer(c), UNCHANGED handlerVars
      PROVE  KeyPlacesFit'
  BY <1>13 DEF ClearBuffer, KeyGo, driverVars, keyboardVars, handlerVars
<1>14. ASSUME NEW c \in Core, Wake(c), UNCHANGED handlerVars
      PROVE  KeyPlacesFit'
  BY <1>14 DEF Wake, KeyGo, driverVars, keyboardVars, handlerVars
<1>15. ASSUME NEW c \in Core, NEW k \in Letters, LetterKey(c, k), UNCHANGED handlerVars
      PROVE  KeyPlacesFit'
  BY <1>15 DEF LetterKey, KeyPressed, KeyGo, Meets, driverVars, keyboardVars, handlerVars
<1>16. ASSUME NEW c \in Core, StoreLetter(c), UNCHANGED handlerVars
      PROVE  KeyPlacesFit'
  BY <1>16 DEF StoreLetter, Store, KeyGo, driverVars, keyboardVars, handlerVars
<1>17. ASSUME NEW c \in Core, Echo(c)
      PROVE  KeyPlacesFit'
  BY <1>17 DEF Echo, driverVars, keyboardVars, handlerVars
<1>18. ASSUME NEW c \in Core, EndSyscall(c)
      PROVE  KeyPlacesFit'
  BY <1>18 DEF EndSyscall, Goto, Returned, driverVars, keyboardVars, handlerVars
<1>19. ASSUME NEW c \in Core, EndPs2(c)
      PROVE  KeyPlacesFit'
  BY <1>19 DEF EndPs2, Goto, Returned, driverVars, keyboardVars, handlerVars
<1>20. CASE Elsewhere
  BY <1>20 DEF Elsewhere, driverVars, keyboardVars, handlerVars
<1> QED BY <1>1, <1>2, <1>3, <1>4, <1>5, <1>6, <1>7, <1>8, <1>9, <1>10, <1>11, <1>12, <1>13, <1>14, <1>15, <1>16, <1>17, <1>18, <1>19, <1>20, StepKinds DEF Drives, GetInputStep, PollStep

LEMMA IndexStep ==
  ASSUME KernelTypes, KeyPlacesFit, IndexNear, [Steps]_kernelVars
  PROVE  IndexNear'
<1> USE DEF KernelTypes, KeyboardTypeOK, IndexNear
<1>1. ASSUME NEW c \in Core, Timer(c)
      PROVE  IndexNear'
  BY <1>1, RoomFacts DEF Timer, Goto, driverVars, keyboardVars, handlerVars
<1>2. ASSUME NEW c \in Core, NEW f \in Called, Syscall(c, f)
      PROVE  IndexNear'
  BY <1>2, RoomFacts DEF Syscall, Goto, Calls, driverVars, keyboardVars, handlerVars
<1>3. ASSUME NEW c \in Core, TakeSyscallLock(c)
      PROVE  IndexNear'
  BY <1>3, ServeEffect DEF TakeSyscallLock, Goto, driverVars, keyboardVars, handlerVars
<1>4. ASSUME NEW c \in Core, TakePs2Lock(c)
      PROVE  IndexNear'
  BY <1>4, RoomFacts DEF TakePs2Lock, Goto, driverVars, keyboardVars, handlerVars
<1>5. ASSUME NEW c \in Core, SetBuffer(c), UNCHANGED handlerVars
      PROVE  IndexNear'
  BY <1>5, RoomFacts DEF SetBuffer, KeyGo, driverVars, keyboardVars, handlerVars
<1>6. ASSUME NEW c \in Core, SetSize(c), UNCHANGED handlerVars
      PROVE  IndexNear'
  <2>1. BufferIndex + 3 \in Room => 0 + 3 \in Room
    BY KeyboardAssumption DEF Room
  <2>2. BufferSizeBytes' + 2 \in Room /\ BufferIndex' + 2 \in Room
    BY <1>6, RoomFacts DEF SetSize
  <2>3. BufferIndex' = 0 /\ \A d \in Core : key'[d] = "store" => key[d] = "store"
    BY <1>6 DEF SetSize, KeyGo
  <2> QED BY <2>1, <2>2, <2>3
<1>7. ASSUME NEW c \in Core, SetGetter(c), UNCHANGED handlerVars
      PROVE  IndexNear'
  BY <1>7, RoomFacts DEF SetGetter, KeyGo, driverVars, keyboardVars, handlerVars
<1>8. ASSUME NEW c \in Core, SetPaused(c), UNCHANGED handlerVars
      PROVE  IndexNear'
  BY <1>8, RoomFacts DEF SetPaused, KeyGo, driverVars, keyboardVars, handlerVars
<1>9. ASSUME NEW c \in Core, NoKey(c), UNCHANGED handlerVars
      PROVE  IndexNear'
  BY <1>9, RoomFacts DEF NoKey, KeyGo, driverVars, keyboardVars, handlerVars
<1>10. ASSUME NEW c \in Core, ShiftKey(c), UNCHANGED handlerVars
      PROVE  IndexNear'
  BY <1>10, RoomFacts DEF ShiftKey, KeyPressed, KeyGo, driverVars, keyboardVars, handlerVars
<1>11. ASSUME NEW c \in Core, EnterKey(c), UNCHANGED handlerVars
      PROVE  IndexNear'
  BY <1>11, RoomFacts DEF EnterKey, KeyPressed, KeyGo, Meets, driverVars, keyboardVars, handlerVars
<1>12. ASSUME NEW c \in Core, EndLine(c), UNCHANGED handlerVars
      PROVE  IndexNear'
  <2>1. BufferIndex + 3 \in Room => 0 + 3 \in Room
    BY KeyboardAssumption DEF Room
  <2>2. BufferSizeBytes' + 2 \in Room /\ BufferIndex' + 2 \in Room
    BY <1>12, RoomFacts DEF EndLine
  <2>3. BufferIndex' = 0 /\ \A d \in Core : key'[d] = "store" => key[d] = "store"
    BY <1>12 DEF EndLine, KeyGo
  <2> QED BY <2>1, <2>2, <2>3
<1>13. ASSUME NEW c \in Core, ClearBuffer(c), UNCHANGED handlerVars
      PROVE  IndexNear'
  BY <1>13, RoomFacts DEF ClearBuffer, KeyGo, driverVars, keyboardVars, handlerVars
<1>14. ASSUME NEW c \in Core, Wake(c), UNCHANGED handlerVars
      PROVE  IndexNear'
  BY <1>14, RoomFacts DEF Wake, KeyGo, driverVars, keyboardVars, handlerVars
<1>15. ASSUME NEW c \in Core, NEW k \in Letters, LetterKey(c, k), UNCHANGED handlerVars
      PROVE  IndexNear'
  <2>1. BufferSizeBytes > BufferIndex => BufferIndex + 3 \in Room
    BY RoomFacts, KeyboardAssumption DEF Room
  <2>2. \A d \in Core : key'[d] = "store" => BufferIndex + 3 \in Room
    BY <1>15, <2>1 DEF LetterKey, KeyGo, HasRoom
  <2> QED BY <1>15, <2>2 DEF LetterKey, driverVars
<1>16. ASSUME NEW c \in Core, StoreLetter(c), UNCHANGED handlerVars
      PROVE  IndexNear'
  <2>1. \A d \in Core : key'[d] # "store"
    BY <1>16 DEF StoreLetter, KeyGo, KeyPlacesFit, AtPoll, InKey
  <2>2. BufferIndex' + 2 \in Room /\ BufferSizeBytes' + 2 \in Room
    BY <1>16 DEF StoreLetter, Room
  <2> QED BY <2>1, <2>2
<1>17. ASSUME NEW c \in Core, Echo(c)
      PROVE  IndexNear'
  BY <1>17, RoomFacts DEF Echo, driverVars, keyboardVars, handlerVars
<1>18. ASSUME NEW c \in Core, EndSyscall(c)
      PROVE  IndexNear'
  BY <1>18, RoomFacts DEF EndSyscall, Goto, Returned, driverVars, keyboardVars, handlerVars
<1>19. ASSUME NEW c \in Core, EndPs2(c)
      PROVE  IndexNear'
  BY <1>19, RoomFacts DEF EndPs2, Goto, Returned, driverVars, keyboardVars, handlerVars
<1>20. CASE Elsewhere
  BY <1>20, RoomFacts DEF Elsewhere, driverVars, keyboardVars, handlerVars
<1> QED BY <1>1, <1>2, <1>3, <1>4, <1>5, <1>6, <1>7, <1>8, <1>9, <1>10, <1>11, <1>12, <1>13, <1>14, <1>15, <1>16, <1>17, <1>18, <1>19, <1>20, StepKinds DEF Drives, GetInputStep, PollStep

LEMMA HandlerTypes ==
  ASSUME KernelTypes, [Steps]_kernelVars
  PROVE  /\ SyscallSpinLock' \in {0, 1} /\ Ps2SpinLock' \in {0, 1}
         /\ pc' \in [Core -> PCs] /\ call' \in [Core -> AllCalls] /\ calls' \in 0..MaxCalls
<1>1. calls' = calls \/ Calls
  <2>1. ASSUME NEW c \in Core, PrintInt(c) \/ \E f \in Called : Syscall(c, f)
        PROVE  Calls
    BY <2>1 DEF PrintInt, Syscall
  <2>2. ASSUME NEW c \in Core, ProgramStep(c) \/ ProgramTakes(c) \/ Timer(c) \/ Take(c)
        PROVE  calls' = calls
    BY <2>2 DEF ProgramStep, ProgramTakes, Timer, Take, TakeSyscallLock, TakePs2Lock,
       HandlerTakesVga, handlerVars
  <2>3. ASSUME NEW c \in Core, Handle(c)
        PROVE  calls' = calls
    BY <2>3 DEF Handle, InConsole, InDriver, Echo, EndSyscall, EndPs2, handlerVars
  <2> QED BY <2>1, <2>2, <2>3 DEF Steps, Step, kernelVars, handlerVars
<1>2. /\ SyscallSpinLock' \in {0, 1} /\ Ps2SpinLock' \in {0, 1}
      /\ pc' \in [Core -> PCs] /\ call' \in [Core -> AllCalls]
  <2> USE DEF KernelTypes, PCs, AllCalls
  <2>1. ASSUME NEW c \in Core, Timer(c) \/ TakeSyscallLock(c) \/ TakePs2Lock(c)
        PROVE  <1>2!:
    BY <2>1 DEF Timer, TakeSyscallLock, TakePs2Lock, Goto
  <2>2. ASSUME NEW c \in Core, NEW f \in Called, Syscall(c, f)
        PROVE  <1>2!:
    BY <2>2, TerminalAssumption DEF Syscall, Goto
  <2>3. ASSUME NEW c \in Core, EndSyscall(c) \/ EndPs2(c)
        PROVE  <1>2!:
    BY <2>3 DEF EndSyscall, EndPs2, Goto
  <2>4. ASSUME NEW c \in Core, Drives(c) \/ Echo(c)
        PROVE  <1>2!:
    BY <2>4 DEF Drives, Echo, handlerVars
  <2>5. CASE Elsewhere
    BY <2>5 DEF Elsewhere
  <2> QED BY <2>1, <2>2, <2>3, <2>4, <2>5, StepKinds
<1>3. calls' \in 0..MaxCalls
  BY <1>1, TerminalAssumption DEF Calls, KernelTypes
<1> QED BY <1>2, <1>3

LEMMA TypeInvStep ==
  ASSUME TypeInv, [Steps]_kernelVars
  PROVE  TypeInv'
<1> USE DEF TypeInv
<1>1. ConsoleKept'
  <2>1. ConsoleKept
    BY DEF ConsoleKept, KernelTypes
  <2>2. ASSUME NEW c \in Core, \/ PrintInt(c) \/ ProgramStep(c) \/ ProgramTakes(c)
                               \/ HandlerTakesVga(c) \/ InConsole(c)
        PROVE  ConsoleKept'
    <3>1. \A n \in Numbers : IntText(n) \in Strings
      BY TerminalAssumption
    <3> QED BY <2>1, <2>2, <3>1, Contexts, PrintStringTypes, OtherConsoleTypes, ConsoleStepTypes
            DEF PrintInt, ProgramStep, ProgramTakes, HandlerTakesVga, InConsole
  <2>3. ASSUME NEW c \in Core, TakeSyscallLock(c)
        PROVE  ConsoleKept'
    <3>1. Serve(c) /\ Messages \subseteq Strings
      BY <2>3, TerminalAssumption DEF TakeSyscallLock
    <3>2. CASE UNCHANGED consoleVars
      BY <2>1, <3>2 DEF consoleVars, ConsoleKept, ConsoleTypeOK, TextLeft
    <3> QED BY <2>1, <3>1, <3>2, Contexts, PrintStringTypes, OtherConsoleTypes DEF Serve
  <2>4. ASSUME NEW c \in Core, Echo(c)
        PROVE  ConsoleKept'
    <3>1. letter[c] \in Letters
      BY DEF KernelTypes, KeyboardTypeOK
    <3> QED BY <2>1, <2>4, <3>1, Contexts, LetterChars, PrintStringTypes DEF Echo
  <2>5. ASSUME UNCHANGED consoleVars
        PROVE  ConsoleKept'
    BY <2>1, <2>5 DEF consoleVars, ConsoleKept, ConsoleTypeOK, TextLeft
  <2>6. ASSUME NEW c \in Core, \/ Timer(c) \/ (\E f \in Called : Syscall(c, f))
                               \/ TakePs2Lock(c) \/ InDriver(c) \/ EndSyscall(c) \/ EndPs2(c)
        PROVE  UNCHANGED consoleVars
    BY <2>6 DEF Timer, Syscall, TakePs2Lock, InDriver, EndSyscall, EndPs2
  <2> QED BY <2>2, <2>3, <2>4, <2>5, <2>6 DEF Steps, Step, Take, Handle, kernelVars
<1>2. KeyboardTypeOK'
  BY KeyboardTypes DEF KernelTypes
<1>3. /\ SyscallSpinLock' \in {0, 1} /\ Ps2SpinLock' \in {0, 1}
      /\ pc' \in [Core -> PCs] /\ call' \in [Core -> AllCalls] /\ calls' \in 0..MaxCalls
  BY HandlerTypes DEF KernelTypes
<1>4. KernelTypes' /\ TextLeft'
  BY <1>1, <1>2, <1>3 DEF KernelTypes, ConsoleKept
<1> QED BY <1>4, PlacesStep, IndexStep

-----------------------------------------------------------------------------
(***************************************************************************)
(* The reader.                                                             *)
(***************************************************************************)
LEMMA PollAlone ==
  ASSUME KeyPlacesFit, NEW c \in Core, key[c] \in AtPoll
  PROVE  \A d \in Core : d # c => key[d] \notin AtPoll
BY DEF KeyPlacesFit

LEMMA GetAlone ==
  ASSUME KeyPlacesFit, NEW c \in Core, key[c] \in AtGetInput
  PROVE  \A d \in Core : d # c => key[d] \notin AtGetInput
BY DEF KeyPlacesFit

LEMMA ReaderKeptStep ==
  ASSUME TypeInv, ReaderKept, [Steps]_kernelVars, ~disturbed'
  PROVE  ReaderKept'
<1> USE DEF TypeInv, KernelTypes, KeyboardTypeOK, ReaderKept, Asleep, InKeys, AtGetInput, AtPoll,
         InGetInput, InKey
<1>1. ASSUME NEW c \in Core, Timer(c)
      PROVE  ReaderKept'
  BY <1>1, PollAlone, GetAlone, KeyboardAssumption DEF Timer, Goto, driverVars, keyboardVars, handlerVars
<1>2. ASSUME NEW c \in Core, NEW f \in Called, Syscall(c, f)
      PROVE  ReaderKept'
  <2>1. /\ pc[c] = "run" /\ pc' = [pc EXCEPT ![c] = "wantSyscall"] /\ ThreadState[c] = "normal"
        /\ UNCHANGED <<driverVars, ThreadState, key>>
    BY <1>2 DEF Syscall, Goto, ProgramRuns, keyboardVars
  <2> QED BY <2>1 DEF driverVars
<1>3. ASSUME NEW c \in Core, TakeSyscallLock(c)
      PROVE  ReaderKept'
  <2>1. /\ pc[c] = "wantSyscall" /\ pc' = [pc EXCEPT ![c] = "call"]
        /\ SyscallSpinLock = 0
        /\ UNCHANGED <<CurrentBuffer, BufferSizeBytes, BufferIndex, ThreadGetingInput, ThreadState>>
        /\ key' = key \/ key' = [key EXCEPT ![c] = "setBuffer"]
    BY <1>3, ServeEffect DEF TakeSyscallLock, Goto
  <2>2. key[c] \notin AtPoll /\ \A d \in Core : key[d] \notin AtGetInput
    BY <2>1 DEF KeyPlacesFit
  <2>3. moved' = moved \/ \A d \in Core : ThreadState[d] # "paused"
    <3>1. UNCHANGED <<moved, disturbed>> \/ MoveArray
      BY <1>3, ServeEffect DEF TakeSyscallLock
    <3>2. ASSUME MoveArray, NEW d \in Core, ThreadState[d] = "paused"
          PROVE  FALSE
      <4>1. CurrentBuffer = NoCore /\ \A e \in Core : key[e] \notin InKey
        BY <3>2 DEF MoveArray
      <4> QED BY <3>2, <4>1, KeyboardAssumption
    <3> QED BY <3>1, <3>2
  <2> QED BY <2>1, <2>2, <2>3, KeyboardAssumption
<1>4. ASSUME NEW c \in Core, TakePs2Lock(c)
      PROVE  ReaderKept'
  <2>1. /\ pc[c] = "wantPs2" /\ pc' = [pc EXCEPT ![c] = "poll"]
        /\ UNCHANGED <<driverVars, ThreadState>> /\ key' = [key EXCEPT ![c] = "poll"]
    BY <1>4 DEF TakePs2Lock, Goto
  <2>2. key[c] \notin AtPoll /\ key[c] \notin AtGetInput
    BY <2>1 DEF KeyPlacesFit
  <2> QED BY <2>1, <2>2 DEF driverVars
<1>5. ASSUME NEW c \in Core, SetBuffer(c), UNCHANGED handlerVars
      PROVE  ReaderKept'
  <2>1. /\ CurrentBuffer = NoCore /\ \A d \in Core : key[d] \notin InKey
        /\ CurrentBuffer' = c /\ key[c] = "setBuffer" /\ key' = [key EXCEPT ![c] = "setSize"]
        /\ UNCHANGED <<ThreadState, pc>>
    BY <1>5 DEF SetBuffer, KeyGo, handlerVars
  <2>2. \A d \in Core : ThreadState[d] # "paused" /\ key[d] \notin InGetInput
    BY <2>1, KeyboardAssumption
  <2> QED BY <2>1, <2>2
<1>6. ASSUME NEW c \in Core, SetSize(c), UNCHANGED handlerVars
      PROVE  ReaderKept'
  BY <1>6, PollAlone, GetAlone, KeyboardAssumption DEF SetSize, KeyGo, driverVars, keyboardVars, handlerVars
<1>7. ASSUME NEW c \in Core, SetGetter(c), UNCHANGED handlerVars
      PROVE  ReaderKept'
  BY <1>7, PollAlone, GetAlone, KeyboardAssumption DEF SetGetter, KeyGo, driverVars, keyboardVars, handlerVars
<1>8. ASSUME NEW c \in Core, SetPaused(c), UNCHANGED handlerVars
      PROVE  ReaderKept'
  <2>1. /\ key[c] = "setPaused" /\ key' = [key EXCEPT ![c] = "out"]
        /\ ThreadState' = [ThreadState EXCEPT ![c] = "paused"]
        /\ UNCHANGED <<driverVars, pc>>
    BY <1>8, KeyboardAssumption DEF SetPaused, StoreState, KeyGo, handlerVars
  <2>2. \A d \in Core : d # c => key[d] \notin AtGetInput
    BY <2>1, GetAlone
  <2>3. pc[c] = "call" /\ CurrentBuffer = c /\ ThreadGetingInput = c /\ BufferSizeBytes = ReadSize[c]
    BY <2>1 DEF KeyPlacesFit
  <2>4. \A d \in Core : key[d] \notin InKey
    BY <2>1
  <2> QED BY <2>1, <2>2, <2>3, <2>4 DEF driverVars
<1>9. ASSUME NEW c \in Core, NoKey(c), UNCHANGED handlerVars
      PROVE  ReaderKept'
  BY <1>9, PollAlone, GetAlone, KeyboardAssumption DEF NoKey, KeyGo, driverVars, keyboardVars, handlerVars
<1>10. ASSUME NEW c \in Core, ShiftKey(c), UNCHANGED handlerVars
      PROVE  ReaderKept'
  BY <1>10, PollAlone, GetAlone, KeyboardAssumption DEF ShiftKey, KeyPressed, KeyGo, driverVars, keyboardVars, handlerVars
<1>11. ASSUME NEW c \in Core, EnterKey(c), UNCHANGED handlerVars
      PROVE  ReaderKept'
  <2>1. /\ CurrentBuffer = NoCore \/ \A d \in Core : key[d] \notin InGetInput
        /\ key[c] = "poll" /\ UNCHANGED <<driverVars, ThreadState, pc>>
        /\ key' = [key EXCEPT ![c] = IF CurrentBuffer = NoCore THEN "out" ELSE "endLine"]
    BY <1>11 DEF EnterKey, KeyPressed, KeyGo, Meets, handlerVars
  <2>2. \A d \in Core : d # c => key[d] \notin AtPoll
    BY <2>1, PollAlone
  <2>3. CurrentBuffer = NoCore => \A d \in Core : key[d] \notin InGetInput
    BY KeyboardAssumption
  <2> QED BY <2>1, <2>2, <2>3 DEF driverVars
<1>12. ASSUME NEW c \in Core, EndLine(c), UNCHANGED handlerVars
      PROVE  ReaderKept'
  BY <1>12, PollAlone, GetAlone, KeyboardAssumption DEF EndLine, Store, KeyGo, driverVars, keyboardVars, handlerVars
<1>13. ASSUME NEW c \in Core, ClearBuffer(c), UNCHANGED handlerVars
      PROVE  ReaderKept'
  BY <1>13, PollAlone, GetAlone, KeyboardAssumption DEF ClearBuffer, KeyGo, driverVars, keyboardVars, handlerVars
<1>14. ASSUME NEW c \in Core, Wake(c), UNCHANGED handlerVars
      PROVE  ReaderKept'
  BY <1>14, PollAlone, GetAlone, KeyboardAssumption DEF Wake, StoreState, KeyGo, driverVars, keyboardVars, handlerVars
<1>15. ASSUME NEW c \in Core, NEW k \in Letters, LetterKey(c, k), UNCHANGED handlerVars
      PROVE  ReaderKept'
  <2>1. /\ CurrentBuffer = NoCore \/ \A d \in Core : key[d] \notin InGetInput
        /\ key[c] = "poll" /\ UNCHANGED <<driverVars, ThreadState, pc>>
        /\ key' = [key EXCEPT ![c] = IF HasRoom(c) THEN "store" ELSE "echo"]
    BY <1>15 DEF LetterKey, KeyPressed, KeyGo, Meets, handlerVars
  <2>2. \A d \in Core : d # c => key[d] \notin AtPoll
    BY <2>1, PollAlone
  <2>3. /\ CurrentBuffer = NoCore => \A d \in Core : key[d] \notin InGetInput
        /\ HasRoom(c) => CurrentBuffer # NoCore
    BY KeyboardAssumption DEF HasRoom
  <2> QED BY <2>1, <2>2, <2>3 DEF driverVars
<1>16. ASSUME NEW c \in Core, StoreLetter(c), UNCHANGED handlerVars
      PROVE  ReaderKept'
  BY <1>16, PollAlone, GetAlone, KeyboardAssumption DEF StoreLetter, Store, KeyGo, driverVars, keyboardVars, handlerVars
<1>17. ASSUME NEW c \in Core, Echo(c)
      PROVE  ReaderKept'
  BY <1>17, PollAlone, GetAlone, KeyboardAssumption DEF Echo, driverVars, keyboardVars, handlerVars
<1>18. ASSUME NEW c \in Core, EndSyscall(c)
      PROVE  ReaderKept'
  BY <1>18, PollAlone, GetAlone, KeyboardAssumption DEF EndSyscall, Goto, Returned, driverVars, keyboardVars, handlerVars
<1>19. ASSUME NEW c \in Core, EndPs2(c)
      PROVE  ReaderKept'
  BY <1>19, PollAlone, GetAlone, KeyboardAssumption DEF EndPs2, Goto, Returned, driverVars, keyboardVars, handlerVars
<1>20. CASE Elsewhere
  BY <1>20, PollAlone, GetAlone, KeyboardAssumption DEF Elsewhere, driverVars, keyboardVars, handlerVars
<1> QED BY <1>1, <1>2, <1>3, <1>4, <1>5, <1>6, <1>7, <1>8, <1>9, <1>10, <1>11, <1>12, <1>13, <1>14, <1>15, <1>16, <1>17, <1>18, <1>19, <1>20, StepKinds DEF Drives, GetInputStep, PollStep

-----------------------------------------------------------------------------
(***************************************************************************)
(* The line.                                                               *)
(***************************************************************************)
LEMMA FilledFacts ==
  ASSUME KeyboardTypeOK, NEW c \in Core
  PROVE  /\ Filled(c) \in Nat /\ Filled(c) <= ReadSize[c] /\ Filled(c) <= Len(typed[c])
         /\ Len(typed[c]) \in Nat /\ ReadSize[c] \in Nat
         /\ Filled(c) + 1 \in Room
         /\ \A i \in 1..Filled(c) : i \in Room
<1>1. typed[c] \in Seq(Characters) /\ ReadSize[c] \in Nat /\ ReadSize[c] \in 0..RoomSize
  BY RoomFacts DEF KeyboardTypeOK, Room
<1>2. Len(typed[c]) \in Nat
  BY <1>1
<1>3. Filled(c) \in Nat /\ Filled(c) <= ReadSize[c] /\ Filled(c) <= Len(typed[c])
  BY <1>1, <1>2 DEF Filled
<1>4. ReadSize[c] + 1 \in 0..RoomSize /\ RoomSize \in Nat
  BY RoomFacts, KeyboardAssumption DEF Room
<1> QED BY <1>1, <1>2, <1>3, <1>4 DEF Room

(* What the invariant says of a line is about its letters and its buffer.  *)
SameLine(c) == typed'[c] = typed[c] /\ buffer'[c] = buffer[c]

LEMMA LineSame ==
  ASSUME NEW c \in Core, SameLine(c)
  PROVE  /\ Filled(c)' = Filled(c)
         /\ Delivered(c) => Delivered(c)'
         /\ Clean(c, ReadSize[c] + 1) => Clean(c, ReadSize[c] + 1)'
         /\ Clean(c, 0) => Clean(c, 0)'
         /\ BufferIndex' = BufferIndex /\ Partial(c) => Partial(c)'
BY DEF SameLine, Filled, Delivered, Holds, Clean, Partial

LEMMA StoreEffect ==
  ASSUME KeyboardTypeOK, NEW b \in Core, CurrentBuffer = b, NEW ch, Store(ch)
  PROVE  /\ \A d \in Core : d # b => buffer'[d] = buffer[d]
         /\ \A i \in Room : buffer'[b][i] = IF i = BufferIndex + 1 THEN ch ELSE buffer[b][i]
<1>1. /\ buffer \in [Core -> [Room -> Characters \cup {End, Untouched}]]
      /\ BufferIndex + 1 \in Room /\ First + BufferIndex = BufferIndex + 1
  BY DEF KeyboardTypeOK, First
<1>2. buffer' = [buffer EXCEPT ![b] = [buffer[b] EXCEPT ![BufferIndex + 1] = ch]]
  BY <1>1 DEF Store
<1> QED BY <1>1, <1>2

(* While a key is worked on for a reader, that reader is asleep.           *)
LEMMA KeyForReader ==
  ASSUME KeyPlacesFit, ReaderKept, NEW c \in Core, key[c] \in {"store", "endLine", "clearBuffer"},
         KeyboardTypeOK
  PROVE  /\ CurrentBuffer \in Core /\ Reading(CurrentBuffer) /\ Asleep(CurrentBuffer)
         /\ BufferSizeBytes = ReadSize[CurrentBuffer]
         /\ \A d \in Core : d # c => key[d] \notin AtPoll
         /\ \A d \in Core : key[d] \notin InGetInput
         /\ \A d \in Core : Reading(d) => d = CurrentBuffer
         /\ \A d \in Core : ThreadState[d] = "paused" => d = CurrentBuffer
<1>1. \A d \in Core : d # c => key[d] \notin AtPoll
  BY PollAlone DEF AtPoll, InKey
<1>2. CurrentBuffer \in Core /\ \A d \in Core : key[d] \notin InGetInput
  BY DEF ReaderKept, InKeys, InKey, KeyboardTypeOK
<1>3. Asleep(CurrentBuffer) /\ BufferSizeBytes = ReadSize[CurrentBuffer]
  BY <1>2 DEF ReaderKept
<1>4. \A d \in Core : ThreadState[d] = "paused" => d = CurrentBuffer
  BY <1>3 DEF ReaderKept, Asleep
<1> QED BY <1>1, <1>2, <1>3, <1>4 DEF Reading

LEMMA LineKeptStep ==
  ASSUME TypeInv, ReaderKept, LineKept, [Steps]_kernelVars, ~disturbed'
  PROVE  LineKept'
<1> USE DEF TypeInv, KernelTypes, KeyboardTypeOK, LineKept, InKeys, Reading
<1>1. ASSUME NEW c \in Core, Timer(c)
      PROVE  LineKept'
  <2>1. /\ UNCHANGED <<key, CurrentBuffer, BufferIndex, ThreadState, typed, buffer, letter, ShiftDown>>
    BY <1>1 DEF Timer, driverVars, keyboardVars, handlerVars
  <2>2. /\ \A d \in Core : SameLine(d)
        /\ \A d \in Core : AsciiChar(letter[d])' = AsciiChar(letter[d])
    BY <2>1 DEF SameLine, AsciiChar
  <2> QED BY <2>1, <2>2, LineSame
<1>2. ASSUME NEW c \in Core, NEW f \in Called, Syscall(c, f)
      PROVE  LineKept'
  <2>1. /\ UNCHANGED <<key, CurrentBuffer, BufferIndex, ThreadState, typed, buffer, letter, ShiftDown>>
    BY <1>2 DEF Syscall, driverVars, keyboardVars, handlerVars
  <2>2. /\ \A d \in Core : SameLine(d)
        /\ \A d \in Core : AsciiChar(letter[d])' = AsciiChar(letter[d])
    BY <2>1 DEF SameLine, AsciiChar
  <2> QED BY <2>1, <2>2, LineSame
<1>3. ASSUME NEW c \in Core, TakeSyscallLock(c)
      PROVE  LineKept'
  <2>1. /\ pc[c] = "wantSyscall"
        /\ UNCHANGED <<CurrentBuffer, BufferIndex, ThreadState, typed, buffer, letter, ShiftDown>>
        /\ key' = key \/ key' = [key EXCEPT ![c] = "setBuffer"]
    BY <1>3, ServeEffect DEF TakeSyscallLock, driverVars
  <2>2. key[c] \notin AtPoll /\ key[c] \notin AtGetInput
    BY <2>1 DEF KeyPlacesFit
  <2>3. /\ \A d \in Core : SameLine(d)
        /\ \A d \in Core : AsciiChar(letter[d])' = AsciiChar(letter[d])
    BY <2>1 DEF SameLine, AsciiChar
  <2> QED BY <2>1, <2>2, <2>3, LineSame DEF AtPoll, AtGetInput, InKey, InGetInput
<1>4. ASSUME NEW c \in Core, TakePs2Lock(c)
      PROVE  LineKept'
  <2>1. /\ pc[c] = "wantPs2"
        /\ UNCHANGED <<CurrentBuffer, BufferIndex, ThreadState, typed, buffer, letter, ShiftDown>>
        /\ key' = [key EXCEPT ![c] = "poll"]
    BY <1>4 DEF TakePs2Lock, driverVars
  <2>2. key[c] \notin AtPoll /\ key[c] \notin AtGetInput
    BY <2>1 DEF KeyPlacesFit
  <2>3. /\ \A d \in Core : SameLine(d)
        /\ \A d \in Core : AsciiChar(letter[d])' = AsciiChar(letter[d])
    BY <2>1 DEF SameLine, AsciiChar
  <2> QED BY <2>1, <2>2, <2>3, LineSame DEF AtPoll, AtGetInput, InKey, InGetInput
<1>5. ASSUME NEW c \in Core, SetBuffer(c), UNCHANGED handlerVars
      PROVE  LineKept'
  <2>1. /\ CurrentBuffer = NoCore /\ \A d \in Core : key[d] \notin InKey
        /\ CurrentBuffer' = c /\ key[c] = "setBuffer" /\ key' = [key EXCEPT ![c] = "setSize"]
        /\ buffer' = [buffer EXCEPT ![c] = [i \in Room |-> Untouched]]
        /\ typed' = [typed EXCEPT ![c] = <<>>]
        /\ UNCHANGED <<BufferIndex, ThreadState>>
    BY <1>5 DEF SetBuffer, KeyGo
  <2>2. /\ \A d \in Core : key[d] \notin InGetInput
        /\ ThreadState[c] = "normal"
    BY <2>1, KeyboardAssumption DEF ReaderKept, AtGetInput
  <2>3. \A d \in Core : d # c => SameLine(d)
    BY <2>1 DEF SameLine
  <2>4. typed'[c] = <<>> /\ \A i \in Room : buffer'[c][i] = Untouched
    BY <2>1
  <2>5. Clean(c, 0)' /\ Clean(c, ReadSize[c] + 1)'
    BY <2>4 DEF Clean
  <2>6. \A d \in Core : key'[d] \notin InKey
    BY <2>1 DEF InKey
  <2> QED BY <2>1, <2>2, <2>3, <2>4, <2>5, <2>6, LineSame DEF InKey, InGetInput
<1>6. ASSUME NEW c \in Core, SetSize(c), UNCHANGED handlerVars
      PROVE  LineKept'
  <2>1. /\ key[c] = "setSize" /\ key' = [key EXCEPT ![c] = "setGetter"]
        /\ UNCHANGED <<CurrentBuffer, ThreadState, typed, buffer>>
    BY <1>6 DEF SetSize, KeyGo
  <2>2. CurrentBuffer = c /\ \A d \in Core : key[d] \notin InKey
    BY <2>1 DEF ReaderKept, InGetInput
  <2>3. \A d \in Core : SameLine(d)
    BY <2>1 DEF SameLine
  <2> QED BY <2>1, <2>2, <2>3, LineSame DEF InKey, InGetInput
<1>7. ASSUME NEW c \in Core, SetGetter(c), UNCHANGED handlerVars
      PROVE  LineKept'
  <2>1. /\ key[c] = "setGetter" /\ key' = [key EXCEPT ![c] = "setPaused"]
        /\ UNCHANGED <<CurrentBuffer, BufferIndex, ThreadState, typed, buffer>>
    BY <1>7 DEF SetGetter, KeyGo
  <2>2. CurrentBuffer = c /\ \A d \in Core : key[d] \notin InKey
    BY <2>1 DEF ReaderKept, InGetInput
  <2>3. \A d \in Core : SameLine(d)
    BY <2>1 DEF SameLine
  <2> QED BY <2>1, <2>2, <2>3, LineSame DEF InKey, InGetInput
<1>8. ASSUME NEW c \in Core, SetPaused(c), UNCHANGED handlerVars
      PROVE  LineKept'
  <2>1. /\ key[c] = "setPaused" /\ key' = [key EXCEPT ![c] = "out"]
        /\ UNCHANGED <<CurrentBuffer, BufferIndex, typed, buffer>>
        /\ ThreadState' \in {ThreadState, [ThreadState EXCEPT ![ThreadGetingInput] = "paused"]}
    BY <1>8 DEF SetPaused, StoreState, KeyGo, driverVars
  <2>2. /\ CurrentBuffer = c /\ BufferIndex = 0 /\ \A d \in Core : key[d] \notin InKey
        /\ typed[c] = <<>> /\ Clean(c, 0)
    BY <2>1 DEF ReaderKept, InGetInput
  <2>3. \A d \in Core : SameLine(d)
    BY <2>1 DEF SameLine
  <2>4. Filled(c) = 0 /\ Partial(c)
    BY <2>2, RoomFacts DEF Filled, Partial, Holds
  <2> QED BY <2>1, <2>2, <2>3, <2>4, LineSame DEF InKey, InGetInput
<1>9. ASSUME NEW c \in Core, NoKey(c), UNCHANGED handlerVars
      PROVE  LineKept'
  <2>1. /\ key[c] = "poll" /\ key' = [key EXCEPT ![c] = "out"]
        /\ UNCHANGED <<CurrentBuffer, BufferIndex, ThreadState, typed, buffer>>
    BY <1>9 DEF NoKey, KeyGo, driverVars
  <2>2. \A d \in Core : d # c => key[d] \notin AtPoll
    BY <2>1, PollAlone DEF AtPoll
  <2>3. \A d \in Core : SameLine(d)
    BY <2>1 DEF SameLine
  <2> QED BY <2>1, <2>2, <2>3, LineSame DEF AtPoll, InKey, InGetInput
<1>10. ASSUME NEW c \in Core, ShiftKey(c), UNCHANGED handlerVars
      PROVE  LineKept'
  <2>1. /\ key[c] = "poll" /\ key' = [key EXCEPT ![c] = "out"]
        /\ UNCHANGED <<CurrentBuffer, BufferIndex, ThreadState, typed, buffer>>
    BY <1>10 DEF ShiftKey, KeyPressed, KeyGo
  <2>2. \A d \in Core : d # c => key[d] \notin AtPoll
    BY <2>1, PollAlone DEF AtPoll
  <2>3. \A d \in Core : SameLine(d)
    BY <2>1 DEF SameLine
  <2> QED BY <2>1, <2>2, <2>3, LineSame DEF AtPoll, InKey, InGetInput
<1>11. ASSUME NEW c \in Core, EnterKey(c), UNCHANGED handlerVars
      PROVE  LineKept'
  <2>1. /\ key[c] = "poll" /\ \E l \in {"out", "endLine"} : key' = [key EXCEPT ![c] = l]
        /\ UNCHANGED <<CurrentBuffer, BufferIndex, ThreadState, typed, buffer>>
    BY <1>11 DEF EnterKey, KeyPressed, KeyGo, driverVars
  <2>2. \A d \in Core : d # c => key[d] \notin AtPoll
    BY <2>1, PollAlone DEF AtPoll
  <2>3. \A d \in Core : SameLine(d)
    BY <2>1 DEF SameLine
  <2> QED BY <2>1, <2>2, <2>3, LineSame DEF AtPoll, InKey, InGetInput
<1>12. ASSUME NEW c \in Core, EndLine(c), UNCHANGED handlerVars
      PROVE  LineKept'
  <2> DEFINE b == CurrentBuffer
  <2>1. /\ key[c] = "endLine" /\ key' = [key EXCEPT ![c] = "clearBuffer"]
        /\ UNCHANGED <<CurrentBuffer, ThreadState, typed>> /\ Store(End)
    BY <1>12 DEF EndLine, KeyGo
  <2>2. /\ b \in Core /\ Reading(b) /\ Asleep(b)
        /\ \A d \in Core : d # c => key[d] \notin AtPoll
        /\ \A d \in Core : key[d] \notin InGetInput
    BY <2>1, KeyForReader
  <2>3. Partial(b) /\ BufferIndex = Filled(b)
    BY <2>1, <2>2 DEF AtPoll, InKey
  <2>4. /\ \A d \in Core : d # b => buffer'[d] = buffer[d]
        /\ \A i \in Room : buffer'[b][i] = IF i = BufferIndex + 1 THEN End ELSE buffer[b][i]
    BY <2>1, <2>2, StoreEffect
  <2>5. \A d \in Core : d # b => SameLine(d)
    BY <2>1, <2>4 DEF SameLine
  <2>6. Filled(b)' = Filled(b)
    BY <2>1 DEF Filled
  <2>7. Delivered(b)'
    <3>1. \A i \in 1..Filled(b) : buffer'[b][i] = typed'[b][i]
      BY <2>1, <2>2, <2>3, <2>4, FilledFacts DEF Partial, Holds
    <3>2. buffer'[b][Filled(b) + 1] = End
      BY <2>2, <2>3, <2>4, FilledFacts
    <3> QED BY <2>1, <2>6, <3>1, <3>2 DEF Delivered, Holds
  <2>8. Clean(b, ReadSize[b] + 1)'
    <3>1. \A i \in Room : i < First \/ i > ReadSize[b] + 1 => buffer'[b][i] = Untouched
      <4>1. \A i \in Room : i < First \/ i > ReadSize[b] + 1 => i # BufferIndex + 1
        BY <2>2, <2>3, FilledFacts DEF Room, First
      <4> QED BY <2>2, <2>4, <4>1 DEF Clean
    <3> QED BY <2>1, <3>1 DEF Clean
  <2>9. \A d \in Core : key'[d] \notin InGetInput
    BY <2>1, <2>2 DEF InGetInput
  <2>10. \A d \in Core : key'[d] # "store" /\ key'[d] # "wake"
    BY <2>1, <2>2 DEF AtPoll, InKey
  <2>11. key'[c] = "clearBuffer"
    BY <2>1
  <2> HIDE DEF b
  <2> QED BY <2>1, <2>2, <2>5, <2>7, <2>8, <2>9, <2>10, <2>11, LineSame DEF Asleep, b
<1>13. ASSUME NEW c \in Core, ClearBuffer(c), UNCHANGED handlerVars
      PROVE  LineKept'
  <2>1. /\ key[c] = "clearBuffer" /\ key' = [key EXCEPT ![c] = "wake"] /\ CurrentBuffer' = NoCore
        /\ UNCHANGED <<BufferIndex, ThreadState, typed, buffer>>
    BY <1>13 DEF ClearBuffer, KeyGo
  <2>2. /\ CurrentBuffer \in Core /\ Reading(CurrentBuffer)
        /\ \A d \in Core : d # c => key[d] \notin AtPoll
        /\ \A d \in Core : key[d] \notin InGetInput
        /\ \A d \in Core : ThreadState[d] = "paused" => d = CurrentBuffer
    BY <2>1, KeyForReader
  <2>3. Delivered(CurrentBuffer)
    BY <2>1, <2>2
  <2>4. \A d \in Core : SameLine(d)
    BY <2>1 DEF SameLine
  <2> QED BY <2>1, <2>2, <2>3, <2>4, LineSame, KeyboardAssumption DEF InGetInput
<1>14. ASSUME NEW c \in Core, Wake(c), UNCHANGED handlerVars
      PROVE  LineKept'
  <2>1. /\ key[c] = "wake" /\ key' = [key EXCEPT ![c] = "out"]
        /\ UNCHANGED <<CurrentBuffer, BufferIndex, typed, buffer>>
        /\ ThreadState' = IF ThreadGetingInput = NoCore \/ moved THEN ThreadState
                          ELSE [ThreadState EXCEPT ![ThreadGetingInput] = "restarting"]
    BY <1>14 DEF Wake, StoreState, KeyGo, driverVars
  <2>2. /\ CurrentBuffer = NoCore
        /\ ThreadGetingInput \in Core => Delivered(ThreadGetingInput)
        /\ \A d \in Core : d # c => key[d] \notin AtPoll
        /\ \A d \in Core : key[d] \notin InGetInput
    BY <2>1, PollAlone, KeyboardAssumption DEF ReaderKept, Asleep, AtPoll, InKey
  <2>3. \A d \in Core : SameLine(d)
    BY <2>1 DEF SameLine
  <2>4. \A d \in Core : ThreadState'[d] = "restarting" => Delivered(d)
    BY <2>1, <2>2
  <2> QED BY <2>1, <2>2, <2>3, <2>4, LineSame, KeyboardAssumption DEF InGetInput, AtPoll, InKey
<1>15. ASSUME NEW c \in Core, NEW k \in Letters, LetterKey(c, k), UNCHANGED handlerVars
      PROVE  LineKept'
  <2>1. /\ key[c] = "poll" /\ key' = [key EXCEPT ![c] = IF HasRoom(c) THEN "store" ELSE "echo"]
        /\ UNCHANGED <<CurrentBuffer, BufferSizeBytes, BufferIndex, ShiftDown, ThreadState, buffer>>
        /\ CurrentBuffer = NoCore \/ \A d \in Core : key[d] \notin InGetInput
        /\ letter' = [letter EXCEPT ![c] = k]
        /\ typed' = IF CurrentBuffer = NoCore THEN typed
                    ELSE [typed EXCEPT ![CurrentBuffer] = Append(typed[CurrentBuffer], AsciiChar(k))]
    BY <1>15 DEF LetterKey, KeyPressed, KeyGo, Meets, driverVars
  <2>2. \A d \in Core : d # c => key[d] \notin AtPoll
    BY <2>1, PollAlone DEF AtPoll
  <2>3. CASE CurrentBuffer = NoCore
    <3>1. \A d \in Core : SameLine(d)
      BY <2>1, <2>3 DEF SameLine
    <3>2. key'[c] = "echo"
      BY <2>1, <2>3 DEF HasRoom
    <3> QED BY <2>1, <2>2, <2>3, <3>1, <3>2, LineSame, KeyboardAssumption DEF InGetInput, AtPoll, InKey
  <2>4. CASE CurrentBuffer # NoCore
    <3> DEFINE b == CurrentBuffer
    <3>1. /\ b \in Core /\ \A d \in Core : key[d] \notin InGetInput
          /\ Asleep(b) /\ BufferSizeBytes = ReadSize[b]
      BY <2>1, <2>4 DEF ReaderKept
    <3>2. Partial(b) /\ BufferIndex = Filled(b)
      BY <2>1, <2>2, <3>1 DEF AtPoll, InKey
    <3>3. \A d \in Core : d # b => SameLine(d)
      BY <2>1, <2>4 DEF SameLine
    <3>4. /\ typed[b] \in Seq(Characters) /\ AsciiChar(k) \in Characters
          /\ typed'[b] = Append(typed[b], AsciiChar(k))
      BY <2>1, <2>4, <3>1, LetterChars
    <3>5. /\ Len(typed'[b]) = Len(typed[b]) + 1
          /\ \A i \in 1..Len(typed[b]) : typed'[b][i] = typed[b][i]
          /\ typed'[b][Len(typed[b]) + 1] = AsciiChar(k)
      BY <3>4
    <3>6. /\ Filled(b) \in Nat /\ ReadSize[b] \in Nat /\ Len(typed[b]) \in Nat
          /\ Filled(b) <= Len(typed[b])
      BY <3>1, FilledFacts
    <3>7. Partial(b)'
      <4>1. \A i \in 1..BufferIndex : buffer'[b][i] = typed'[b][i]
        BY <2>1, <3>2, <3>5, <3>6 DEF Partial, Holds
      <4> QED BY <2>1, <3>2, <4>1 DEF Partial, Holds, Clean
    <3>8. CASE HasRoom(c)
      <4>1. Len(typed[b]) = BufferIndex /\ BufferIndex < ReadSize[b]
        BY <3>1, <3>2, <3>6, <3>8 DEF HasRoom, Filled
      <4>2. /\ Len(typed'[b]) = BufferIndex + 1
            /\ typed'[b][BufferIndex + 1] = AsciiChar(letter[c])'
        BY <2>1, <3>5, <4>1 DEF AsciiChar
      <4>3. /\ key'[c] = "store" /\ \A d \in Core : d # c => key'[d] = key[d]
            /\ \A d \in Core : key'[d] \notin InGetInput
        BY <2>1, <3>1, <3>8 DEF InGetInput
      <4> HIDE DEF b
      <4> QED BY <2>1, <2>2, <3>1, <3>3, <3>7, <4>1, <4>2, <4>3, LineSame DEF AtPoll, InKey, Asleep, b, Clean
    <3>9. CASE ~HasRoom(c)
      <4>1. BufferIndex = ReadSize[b] /\ Len(typed[b]) >= ReadSize[b]
        BY <2>4, <3>1, <3>2, <3>6, <3>9 DEF HasRoom, Filled, Room
      <4>2. Filled(b)' = BufferIndex
        BY <2>1, <3>5, <3>6, <4>1 DEF Filled
      <4>3. /\ key'[c] = "echo" /\ \A d \in Core : d # c => key'[d] = key[d]
            /\ \A d \in Core : key'[d] \notin InGetInput
        BY <2>1, <3>1, <3>9 DEF InGetInput
      <4> HIDE DEF b
      <4> QED BY <2>1, <2>2, <3>1, <3>3, <3>7, <4>2, <4>3, LineSame DEF AtPoll, InKey, Asleep, b, Clean
    <3> QED BY <3>8, <3>9
  <2> QED BY <2>3, <2>4
<1>16. ASSUME NEW c \in Core, StoreLetter(c), UNCHANGED handlerVars
      PROVE  LineKept'
  <2> DEFINE b == CurrentBuffer
  <2>1. /\ key[c] = "store" /\ key' = [key EXCEPT ![c] = "echo"]
        /\ UNCHANGED <<CurrentBuffer, ThreadState, typed>> /\ BufferIndex' = BufferIndex + 1
        /\ Store(AsciiChar(letter[c]))
    BY <1>16 DEF StoreLetter, KeyGo
  <2>2. /\ b \in Core /\ Reading(b) /\ Asleep(b)
        /\ \A d \in Core : d # c => key[d] \notin AtPoll
        /\ \A d \in Core : key[d] \notin InGetInput
    BY <2>1, KeyForReader
  <2>3. /\ Partial(b) /\ Len(typed[b]) = BufferIndex + 1 /\ BufferIndex < ReadSize[b]
        /\ typed[b][BufferIndex + 1] = AsciiChar(letter[c])
    BY <2>1, <2>2
  <2>4. /\ \A d \in Core : d # b => buffer'[d] = buffer[d]
        /\ \A i \in Room : buffer'[b][i] = IF i = BufferIndex + 1 THEN AsciiChar(letter[c]) ELSE buffer[b][i]
    BY <2>1, <2>2, StoreEffect
  <2>5. \A d \in Core : d # b => SameLine(d)
    BY <2>1, <2>4 DEF SameLine
  <2>6. Filled(b) = BufferIndex + 1 /\ Filled(b)' = BufferIndex + 1
    BY <2>1, <2>2, <2>3, RoomFacts DEF Filled, Room
  <2>7. Partial(b)'
    <3>1. \A i \in 1..BufferIndex + 1 : buffer'[b][i] = typed'[b][i]
      <4>1. \A i \in 1..BufferIndex : buffer'[b][i] = typed'[b][i]
        <5>1. \A i \in 1..BufferIndex : i \in Room /\ i # BufferIndex + 1
          <6>1. BufferIndex \in Nat /\ 1 + BufferIndex \in Room /\ RoomSize \in Nat
            BY KeyboardAssumption DEF First
          <6> QED BY <6>1 DEF Room
        <5> QED BY <2>1, <2>3, <2>4, <5>1 DEF Partial, Holds
      <4>2. buffer'[b][BufferIndex + 1] = typed'[b][BufferIndex + 1]
        BY <2>1, <2>3, <2>4 DEF First
      <4>3. BufferIndex \in Nat
        OBVIOUS
      <4>4. ASSUME NEW i \in 1..BufferIndex + 1
            PROVE  buffer'[b][i] = typed'[b][i]
        <5>1. CASE i = BufferIndex + 1
          BY <4>2, <5>1
        <5>2. CASE i # BufferIndex + 1
          <6>1. i \in 1..BufferIndex
            BY <4>3, <5>2
          <6> QED BY <4>1, <6>1
        <5> QED BY <5>1, <5>2
      <4> QED BY <4>4
    <3>2. \A i \in Room : i < First \/ i > BufferIndex + 1 => buffer'[b][i] = Untouched
      <4>1. \A i \in Room : i < First \/ i > BufferIndex + 1
                              => (i < First \/ i > BufferIndex) /\ i # BufferIndex + 1
        BY DEF Room, First
      <4> QED BY <2>2, <2>3, <2>4, <4>1 DEF Partial, Clean
    <3> QED BY <2>1, <3>1, <3>2 DEF Partial, Holds, Clean
  <2>8. Clean(b, ReadSize[b] + 1)'
    <3>1. \A i \in Room : i < First \/ i > ReadSize[b] + 1 => buffer'[b][i] = Untouched
      <4>1. \A i \in Room : i < First \/ i > ReadSize[b] + 1 => i # BufferIndex + 1
        BY <2>2, <2>3, RoomFacts DEF Room, First
      <4> QED BY <2>2, <2>4, <4>1 DEF Clean
    <3> QED BY <2>1, <3>1 DEF Clean
  <2>9. \A d \in Core : key'[d] \notin InGetInput
    BY <2>1, <2>2 DEF InGetInput
  <2>10. \A d \in Core : key'[d] \notin InKey
    BY <2>1, <2>2 DEF AtPoll, InKey
  <2> HIDE DEF b
  <2> QED BY <2>1, <2>2, <2>5, <2>6, <2>7, <2>8, <2>9, <2>10, LineSame DEF Asleep, b, InKey
<1>17. ASSUME NEW c \in Core, Echo(c)
      PROVE  LineKept'
  <2>1. /\ key[c] = "echo" /\ key' = [key EXCEPT ![c] = "out"]
        /\ UNCHANGED <<CurrentBuffer, BufferIndex, ThreadState, typed, buffer>>
    BY <1>17 DEF Echo, driverVars
  <2>2. \A d \in Core : d # c => key[d] \notin AtPoll
    BY <2>1, PollAlone DEF AtPoll
  <2>3. \A d \in Core : SameLine(d)
    BY <2>1 DEF SameLine
  <2> QED BY <2>1, <2>2, <2>3, LineSame DEF AtPoll, InKey, InGetInput
<1>18. ASSUME NEW c \in Core, EndSyscall(c)
      PROVE  LineKept'
  <2>1. /\ UNCHANGED <<key, CurrentBuffer, BufferIndex, ThreadState, typed, buffer, letter, ShiftDown>>
    BY <1>18 DEF EndSyscall, driverVars, keyboardVars, handlerVars
  <2>2. /\ \A d \in Core : SameLine(d)
        /\ \A d \in Core : AsciiChar(letter[d])' = AsciiChar(letter[d])
    BY <2>1 DEF SameLine, AsciiChar
  <2> QED BY <2>1, <2>2, LineSame
<1>19. ASSUME NEW c \in Core, EndPs2(c)
      PROVE  LineKept'
  <2>1. /\ UNCHANGED <<key, CurrentBuffer, BufferIndex, typed, buffer, letter, ShiftDown>>
        /\ \A d \in Core : ThreadState'[d] \in {"paused", "restarting"} => ThreadState'[d] = ThreadState[d]
    BY <1>19 DEF EndPs2, driverVars
  <2>2. \A d \in Core : SameLine(d)
    BY <2>1 DEF SameLine
  <2>3. \A d \in Core : AsciiChar(letter[d])' = AsciiChar(letter[d])
    BY <2>1 DEF AsciiChar
  <2> QED BY <2>1, <2>2, <2>3, LineSame
<1>20. CASE Elsewhere
  <2>1. /\ UNCHANGED <<key, CurrentBuffer, BufferIndex, ThreadState, typed, buffer, letter, ShiftDown>>
    BY <1>20 DEF Elsewhere, driverVars, keyboardVars, handlerVars
  <2>2. /\ \A d \in Core : SameLine(d)
        /\ \A d \in Core : AsciiChar(letter[d])' = AsciiChar(letter[d])
    BY <2>1 DEF SameLine, AsciiChar
  <2> QED BY <2>1, <2>2, LineSame
<1> QED BY <1>1, <1>2, <1>3, <1>4, <1>5, <1>6, <1>7, <1>8, <1>9, <1>10, <1>11, <1>12, <1>13, <1>14, <1>15, <1>16, <1>17, <1>18, <1>19, <1>20, StepKinds DEF Drives, GetInputStep, PollStep

-----------------------------------------------------------------------------
LEMMA KInvInit ==
  ASSUME Init
  PROVE  KInv
<1> USE DEF Init, KeyboardInit
<1>1. KeyboardTypeOK
  <2>1. /\ CurrentBuffer \in Core \cup {NoCore} /\ ThreadGetingInput \in Core \cup {NoCore}
        /\ BufferSizeBytes \in Nat /\ First + BufferIndex \in Room /\ BufferIndex \in Nat
        /\ keys \in 0..MaxKeys
    BY RoomFacts DEF First
  <2>2. ShiftDown \in BOOLEAN /\ disturbed \in BOOLEAN /\ moved \in BOOLEAN
    OBVIOUS
  <2>3. /\ buffer \in [Core -> [Room -> Characters \cup {End, Untouched}]]
        /\ ThreadState \in [Core -> ThreadStates]
        /\ key \in [Core -> KeyPlaces]
        /\ typed \in [Core -> Seq(Characters)]
    BY DEF ThreadStates, KeyPlaces
  <2>4. letter \in [Core -> Letters]
    BY KeyboardAssumption
  <2> QED BY <2>1, <2>2, <2>3, <2>4 DEF KeyboardTypeOK
<1>2. ConsoleTypeOK
  <2>1. 0 \in 0..Wild
    BY WildLines
  <2>2. crossed \in BOOLEAN
    BY DEF ConsoleInit
  <2>3. /\ screen \in [Cell -> Char \cup {Blank}] /\ at \in [Context -> Places]
        /\ text \in [Context -> Seq(Char \cup {Newline})]
    BY DEF ConsoleInit, Places
  <2> QED BY <2>1, <2>2, <2>3 DEF ConsoleInit, ConsoleTypeOK
<1>3. KernelTypes
  BY <1>1, <1>2, TerminalAssumption DEF KernelTypes, PCs, AllCalls
<1>4. TextLeft /\ KeyPlacesFit
  BY DEF ConsoleInit, TextLeft, KeyPlacesFit, AtGetInput, AtPoll, InGetInput, InKey
<1>5. IndexNear
  BY RoomFacts DEF IndexNear
<1>6. ReaderKept
  BY KeyboardAssumption DEF ReaderKept, InKeys, AtGetInput, InGetInput, InKey
<1>7. LineKept
  BY KeyboardAssumption DEF LineKept, InKeys, InGetInput, Reading, Clean
<1> QED BY <1>3, <1>4, <1>5, <1>6, <1>7 DEF KInv, TypeInv, ReadInv

LEMMA KInvStep ==
  ASSUME KInv, [Next]_vars
  PROVE  KInv'
<1> [Steps]_kernelVars
  BY KernelSteps
<1>1. disturbed \in BOOLEAN /\ (~disturbed' => ~disturbed)
  <2>1. ASSUME NEW c \in Core, Drives(c)
        PROVE  disturbed' = disturbed \/ (disturbed => disturbed')
    BY <2>1, Zenon DEF Drives, GetInputStep, PollStep, SetBuffer, SetSize, SetGetter, SetPaused, NoKey,
       ShiftKey, EnterKey, EndLine, ClearBuffer, Wake, LetterKey, StoreLetter, Meets
  <2>2. ASSUME NEW c \in Core, TakeSyscallLock(c)
        PROVE  disturbed' = disturbed \/ (disturbed => disturbed')
    BY <2>2, ServeEffect, Zenon DEF TakeSyscallLock, MoveArray
  <2>3. disturbed' = disturbed \/ (disturbed => disturbed')
    BY <2>1, <2>2, StepKinds DEF Elsewhere, Timer, TakePs2Lock, Syscall,
       Echo, EndSyscall, EndPs2, keyboardVars
  <2> QED BY <2>3, Zenon DEF KInv, TypeInv, KernelTypes, KeyboardTypeOK
<1>2. tick' \in [Core -> {"off", "possible", "nested"}]
  BY DEF KInv, Next, Interrupts, NestedTick, vars
<1> QED BY <1>1, <1>2, TypeInvStep, ReaderKeptStep, LineKeptStep DEF KInv, ReadInv

LEMMA FrontOfLine ==
  ASSUME NEW s \in Seq(Characters), NEW n \in 0..Len(s)
  PROVE  /\ Len(SubSeq(s, 1, n)) = n /\ DOMAIN SubSeq(s, 1, n) = 1..n
         /\ \A i \in 1..n : SubSeq(s, 1, n)[i] = s[i]
<1>1. SubSeq(s, 1, n) \in Seq(Characters) /\ Len(SubSeq(s, 1, n)) = n
  OBVIOUS
<1>2. DOMAIN SubSeq(s, 1, n) = 1..n
  BY <1>1
<1> QED BY <1>1, <1>2

(* Whatever the cores do, the driver's index stays in the memory behind    *)
(* the buffers, and while no GetInput crosses another or a key, the reader *)
(* and its line are kept (Ps2.cpp, idt.cpp).                               *)
THEOREM KeyboardInvariant == Spec => []KInv
<1>1. Init => KInv
  BY KInvInit
<1>2. KInv /\ [Next]_vars => KInv'
  BY KInvStep
<1> QED BY <1>1, <1>2, PTL DEF Spec

(* A thread that GetInput has paused is woken by the next Enter (Ps2.cpp's *)
(* "make the thread waits until the Ps2 system unpauses it"), for any      *)
(* cores, keys and sizes, unless a second GetInput or a key crossed its    *)
(* stores or a launch moved the array of the threads under the read, from  *)
(* when on nobody finds the thread (ReaderIsFound).                        *)
THEOREM PausedAreWoken == Spec => []PausedCanWake
<1>1. KInv => PausedCanWake
  BY DEF KInv, ReadInv, ReaderKept, Asleep, PausedCanWake, InKeys
<1> QED BY <1>1, KeyboardInvariant, PTL

(* A reader's buffer holds the line as it was typed, as much as it has     *)
(* room for, and its end, from byte 1 on (Syscall.cpp:129); the driver has *)
(* written nothing before that and at most two bytes behind the size the   *)
(* reader named (Ps2.cpp's "prevents a buffer overrun"), for lines and     *)
(* buffers of any length, unless something crosses the read.               *)
THEOREM LinesArrive == Spec => []LineInBuffer
<1>1. KInv => LineInBuffer
  <2> SUFFICES ASSUME KInv
               PROVE  LineInBuffer
    OBVIOUS
  <2>1. KeyboardTypeOK /\ TypeOK
    BY DEF KInv, TypeInv, TypeOK, KernelTypes
  <2>2. ASSUME NEW c \in Core
        PROVE  /\ Len(Line(c)) = Filled(c)
               /\ DOMAIN Line(c) = 1..Filled(c)
               /\ \A i \in 1..Filled(c) : Line(c)[i] = typed[c][i]
    <3>1. /\ typed[c] \in Seq(Characters)
          /\ Filled(c) \in Nat /\ Filled(c) <= Len(typed[c])
      BY <2>1, FilledFacts DEF KeyboardTypeOK
    <3>2. Line(c) = SubSeq(typed[c], 1, Filled(c))
      BY DEF Line, Filled
    <3>3. Filled(c) \in 0..Len(typed[c])
      BY <3>1
    <3> QED BY <3>1, <3>2, <3>3, FrontOfLine
  <2>3. LineDelivered
    <3>1. ~disturbed => \A c \in Core : ThreadState[c] = "restarting" => Delivered(c)
      BY DEF KInv, ReadInv, LineKept
    <3>2. ASSUME NEW c \in Core, Delivered(c)
          PROVE  /\ \A i \in DOMAIN Line(c) : buffer[c][i] = Line(c)[i]
                 /\ buffer[c][Len(Line(c)) + 1] = End
      BY <2>2, <3>2 DEF Delivered, Holds
    <3> QED BY <3>1, <3>2 DEF LineDelivered
  <2>4. WithinBuffer
    BY DEF WithinBuffer, KInv, ReadInv, LineKept, Clean
  <2> QED BY <2>1, <2>3, <2>4 DEF LineInBuffer
<1> QED BY <1>1, KeyboardInvariant, PTL
=============================================================================
