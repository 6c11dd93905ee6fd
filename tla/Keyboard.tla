------------------------------ MODULE Keyboard ------------------------------
(***************************************************************************)
(* The PS/2 driver (Kernel/Ps2/Ps2.cpp): GetInput hands it a buffer and    *)
(* pauses the thread; a poll of the keyboard puts letters into the buffer, *)
(* and Enter ends the line and wakes the thread.  GetInput runs under      *)
(* SyscallSpinLock and the poll under Ps2SpinLock, so a poll of one core   *)
(* goes on between the stores of another core's GetInput.                  *)
(*                                                                         *)
(* Each core has one thread here, named by its core.  The driver keeps a   *)
(* pointer into the array of the threads, which InitThread replaces and    *)
(* frees (MoveArray): from then on the driver's stores miss the thread.    *)
(* (Module Scheduler has the threads themselves.)                          *)
(***************************************************************************)
EXTENDS Naturals, Sequences, Functions

CONSTANTS Core,
          NoCore,     \* a null pointer
          Letters,    \* keys with a character, without and with Shift
          Plain, Shifted,  \* [Letters -> characters]
          ReadSize,   \* [Core -> Nat]: the size each thread says its buffer has
          RoomSize,   \* bound: the memory behind each buffer's address
          MaxKeys     \* bound: keys pressed

Room == 0..RoomSize
First == 1            \* GetInput hands on Buffer + 1: byte 0 is left out
End == "end"          \* the 0 that ends a line
Untouched == "untouched"

ASSUME KeyboardAssumption ==
  /\ NoCore \notin Core
  /\ Letters # {} /\ DOMAIN Plain = Letters /\ DOMAIN Shifted = Letters
  /\ ReadSize \in [Core -> Nat] /\ RoomSize \in Nat
  /\ First + 1 \in Room /\ \A c \in Core : ReadSize[c] + First + 1 \in Room
  /\ MaxKeys \in Nat

VARIABLES CurrentBuffer, BufferSizeBytes, BufferIndex, ThreadGetingInput, ShiftDown,
          moved,        \* the array has moved since ThreadGetingInput was set
          buffer,       \* buffer[c]: what the buffer of c's thread holds
          ThreadState,
          key,          \* where each core is in GetInput or in the poll
          letter,       \* the letter key that the poll of a core has read
          keys,         \* keys pressed so far
          typed,        \* history: letters typed since the thread's GetInput
          disturbed     \* history: a GetInput met an Enter, a letter or a
                        \* read, or the array moved while a read was on

driverVars == <<CurrentBuffer, BufferSizeBytes, BufferIndex, ThreadGetingInput, ShiftDown,
                moved>>
keyboardVars == <<driverVars, buffer, ThreadState, key, letter, keys, typed, disturbed>>

ThreadStates == {"normal", "paused", "restarting"}

InGetInput == {"setSize", "setGetter", "setPaused"}
InKey == {"store", "endLine", "clearBuffer", "wake"}
KeyPlaces == {"out", "setBuffer", "poll", "echo"} \cup InGetInput \cup InKey

Characters == Range(Plain) \cup Range(Shifted)

KeyboardTypeOK ==
  /\ CurrentBuffer \in Core \cup {NoCore} /\ ThreadGetingInput \in Core \cup {NoCore}
  /\ BufferSizeBytes \in Nat /\ First + BufferIndex \in Room /\ BufferIndex \in Nat
  /\ ShiftDown \in BOOLEAN /\ moved \in BOOLEAN
  /\ buffer \in [Core -> [Room -> Characters \cup {End, Untouched}]]
  /\ ThreadState \in [Core -> ThreadStates]
  /\ key \in [Core -> KeyPlaces]
  /\ letter \in [Core -> Letters]
  /\ keys \in 0..MaxKeys
  /\ typed \in [Core -> Seq(Characters)]
  /\ disturbed \in BOOLEAN

(* Ps2::Init. *)
KeyboardInit ==
  /\ CurrentBuffer = NoCore /\ ThreadGetingInput = NoCore
  /\ BufferSizeBytes = 0 /\ BufferIndex = 0 /\ ShiftDown = FALSE /\ moved = FALSE
  /\ buffer = [c \in Core |-> [i \in Room |-> Untouched]]
  /\ ThreadState = [c \in Core |-> "normal"]
  /\ key = [c \in Core |-> "out"]
  /\ letter = [c \in Core |-> CHOOSE k \in Letters : TRUE]
  /\ keys = 0
  /\ typed = [c \in Core |-> <<>>]
  /\ disturbed = FALSE

KeyGo(c, l) == key' = [key EXCEPT ![c] = l]

InKeys(S) == \E c \in Core : key[c] \in S
-----------------------------------------------------------------------------
(***************************************************************************)
(* GetInput: SetPs2InputBuffer's stores.                                   *)
(***************************************************************************)
SetBuffer(c) ==
  /\ key[c] = "setBuffer"
  /\ CurrentBuffer' = c
  /\ disturbed' = (disturbed \/ CurrentBuffer # NoCore \/ InKeys(InKey))
  /\ buffer' = [buffer EXCEPT ![c] = [i \in Room |-> Untouched]]
  /\ typed' = [typed EXCEPT ![c] = <<>>]
  /\ KeyGo(c, "setSize")
  /\ UNCHANGED <<BufferSizeBytes, BufferIndex, ThreadGetingInput, ShiftDown, moved,
                 ThreadState, letter, keys>>

SetSize(c) ==
  /\ key[c] = "setSize"
  /\ BufferSizeBytes' = ReadSize[c]
  /\ BufferIndex' = 0
  /\ KeyGo(c, "setGetter")
  /\ UNCHANGED <<CurrentBuffer, ThreadGetingInput, ShiftDown, moved, buffer, ThreadState,
                 letter, keys, typed, disturbed>>

SetGetter(c) ==
  /\ key[c] = "setGetter"
  /\ ThreadGetingInput' = c
  /\ moved' = FALSE
  /\ KeyGo(c, "setPaused")
  /\ UNCHANGED <<CurrentBuffer, BufferSizeBytes, BufferIndex, ShiftDown, buffer,
                 ThreadState, letter, keys, typed, disturbed>>

(* A store through ThreadGetingInput: none through a null pointer, and one *)
(* into freed memory once the array has moved.                             *)
StoreState(st) ==
  ThreadState' = IF ThreadGetingInput = NoCore \/ moved THEN ThreadState
                 ELSE [ThreadState EXCEPT ![ThreadGetingInput] = st]

SetPaused(c) ==
  /\ key[c] = "setPaused"
  /\ StoreState("paused")
  /\ KeyGo(c, "out")
  /\ UNCHANGED <<driverVars, buffer, letter, keys, typed, disturbed>>

GetInputStep(c) == SetBuffer(c) \/ SetSize(c) \/ SetGetter(c) \/ SetPaused(c)

(* InitThread without a closed entry copies the threads to a new array and *)
(* frees the old one, to which ThreadGetingInput goes on pointing.         *)
MoveArray ==
  /\ moved' = TRUE
  /\ disturbed' = (disturbed \/ CurrentBuffer # NoCore \/ InKeys(InKey))
  /\ UNCHANGED <<CurrentBuffer, BufferSizeBytes, BufferIndex, ThreadGetingInput, ShiftDown,
                 buffer, ThreadState, key, letter, keys, typed>>
-----------------------------------------------------------------------------
(***************************************************************************)
(* OnPs2CheckCycle: at most one scan code.                                 *)
(***************************************************************************)
NoKey(c) ==
  /\ key[c] = "poll"
  /\ KeyGo(c, "out")
  /\ UNCHANGED <<driverVars, buffer, ThreadState, letter, keys, typed, disturbed>>

KeyPressed(c) == key[c] = "poll" /\ keys < MaxKeys /\ keys' = keys + 1

(* Shift goes down or up. *)
ShiftKey(c) ==
  /\ KeyPressed(c)
  /\ ShiftDown' = ~ShiftDown
  /\ KeyGo(c, "out")
  /\ UNCHANGED <<CurrentBuffer, BufferSizeBytes, BufferIndex, ThreadGetingInput, moved,
                 buffer, ThreadState, letter, typed, disturbed>>

(* A key that is for a reader while a GetInput goes on.                    *)
Meets == disturbed' = (disturbed \/ (CurrentBuffer # NoCore /\ InKeys(InGetInput)))

EnterKey(c) ==
  /\ KeyPressed(c)
  /\ KeyGo(c, IF CurrentBuffer = NoCore THEN "out" ELSE "endLine")
  /\ Meets
  /\ UNCHANGED <<driverVars, buffer, ThreadState, letter, typed>>

Store(ch) == buffer' = [buffer EXCEPT ![CurrentBuffer][First + BufferIndex] = ch]

(* Faulty variant: the 0 is not stored. *)
EndLine_NoTerminator(c) ==
  /\ key[c] = "endLine"
  /\ BufferIndex' = 0
  /\ KeyGo(c, "clearBuffer")
  /\ UNCHANGED <<CurrentBuffer, BufferSizeBytes, ThreadGetingInput, ShiftDown, moved,
                 buffer, ThreadState, letter, keys, typed, disturbed>>

(* The 0 goes to where the next letter would: behind a buffer that is full.*)
EndLine(c) ==
  /\ key[c] = "endLine"
  /\ Store(End)
  /\ BufferIndex' = 0
  /\ KeyGo(c, "clearBuffer")
  /\ UNCHANGED <<CurrentBuffer, BufferSizeBytes, ThreadGetingInput, ShiftDown, moved,
                 ThreadState, letter, keys, typed, disturbed>>

ClearBuffer(c) ==
  /\ key[c] = "clearBuffer"
  /\ CurrentBuffer' = NoCore
  /\ KeyGo(c, "wake")
  /\ UNCHANGED <<BufferSizeBytes, BufferIndex, ThreadGetingInput, ShiftDown, moved, buffer,
                 ThreadState, letter, keys, typed, disturbed>>

(* Faulty variant: nobody is woken. *)
Wake_Nobody(c) ==
  /\ key[c] = "wake"
  /\ KeyGo(c, "out")
  /\ UNCHANGED <<driverVars, buffer, ThreadState, letter, keys, typed, disturbed>>

Wake(c) ==
  /\ key[c] = "wake"
  /\ StoreState("restarting")
  /\ KeyGo(c, "out")
  /\ UNCHANGED <<driverVars, buffer, letter, keys, typed, disturbed>>

AsciiChar(k) == IF ShiftDown THEN Shifted[k] ELSE Plain[k]

(* "prevents a buffer overrun" *)
HasRoom(c) == BufferSizeBytes > BufferIndex /\ CurrentBuffer # NoCore

LetterKey(c, k) ==
  /\ KeyPressed(c)
  /\ letter' = [letter EXCEPT ![c] = k]
  /\ typed' = IF CurrentBuffer = NoCore THEN typed
              ELSE [typed EXCEPT ![CurrentBuffer] = Append(@, AsciiChar(k))]
  /\ KeyGo(c, IF HasRoom(c) THEN "store" ELSE "echo")
  /\ Meets
  /\ UNCHANGED <<driverVars, buffer, ThreadState>>

StoreLetter(c) ==
  /\ key[c] = "store"
  /\ Store(AsciiChar(letter[c]))
  /\ BufferIndex' = BufferIndex + 1
  /\ KeyGo(c, "echo")
  /\ UNCHANGED <<CurrentBuffer, BufferSizeBytes, ThreadGetingInput, ShiftDown, moved,
                 ThreadState, letter, keys, typed, disturbed>>

PollStep(c) == \/ NoKey(c) \/ ShiftKey(c) \/ EnterKey(c) \/ EndLine(c) \/ ClearBuffer(c)
               \/ Wake(c) \/ (\E k \in Letters : LetterKey(c, k)) \/ StoreLetter(c)
-----------------------------------------------------------------------------
(***************************************************************************)
(* Properties, of reads that begin while no other is on and no Enter or    *)
(* letter is being worked on, and are left alone until they have begun,    *)
(* and during which no launch moves the array of the threads.              *)
(***************************************************************************)
(* A thread that was paused is woken by the next Enter (Ps2.cpp:29, "make  *)
(* the thread waits until the Ps2 system unpauses it"): the driver has its *)
(* buffer, or is about to wake it, and its pointer is into the array.      *)
PausedCanWake ==
  ~disturbed => \A c \in Core : ThreadState[c] = "paused" =>
    /\ ThreadGetingInput = c /\ ~moved
    /\ CurrentBuffer = c \/ InKeys({"wake"})

(* What Ps2.cpp:29 says of every read: the Enter that ends the line of a   *)
(* paused thread finds the thread, whatever is launched meanwhile.         *)
ReaderIsFound ==
  \A c \in Core : ThreadState[c] = "paused" /\ CurrentBuffer = c
                   => ThreadGetingInput = c /\ ~moved

Line(c) == SubSeq(typed[c], 1, IF Len(typed[c]) < ReadSize[c] THEN Len(typed[c])
                                                              ELSE ReadSize[c])

(* A thread that is woken finds the letters typed since its GetInput, in   *)
(* order and as Shift had them, as many as it has room for, and the end,   *)
(* from byte 1 of the buffer it named (Syscall.cpp:129).                   *)
LineDelivered ==
  ~disturbed => \A c \in Core : ThreadState[c] = "restarting" =>
    /\ \A i \in DOMAIN Line(c) : buffer[c][i] = Line(c)[i]
    /\ buffer[c][Len(Line(c)) + 1] = End

(* Of a buffer said to have n bytes, 0 to n - 1, the driver writes bytes 1 *)
(* to n + 1 and no other: it goes two bytes over (Syscall.cpp:129 moves    *)
(* the buffer by one, Ps2.cpp:83 puts the end behind n letters).  The      *)
(* command line has 512 bytes and says 500.                                *)
WithinBuffer ==
  ~disturbed => \A c \in Core, i \in Room :
    i < First \/ i > ReadSize[c] + 1 => buffer[c][i] = Untouched
=============================================================================
