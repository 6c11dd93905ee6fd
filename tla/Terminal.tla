------------------------------ MODULE Terminal ------------------------------
(***************************************************************************)
(* The screen and the keyboard on several cores: the parts of IDThandler   *)
(* (Kernel/idt.cpp) that print, clear and read, with the locks they are    *)
(* under, and programs that print without a system call (TaskList::Entry,  *)
(* Kernel/KernelRamDiskApps/NeededTools/tasklist/tasklist.cpp).            *)
(*                                                                         *)
(* A core has a program and a handler, each with its own place in the      *)
(* console.  The handler runs with its core's LAPIC switched off and       *)
(* interrupts the program anywhere, also with the lock of the screen       *)
(* taken.  Which thread a core runs next is module Scheduler's part: here  *)
(* a core has one thread, which goes on unless it is paused; of a launch   *)
(* (LoadApp) there is what it does to the driver and to the screen.        *)
(***************************************************************************)
EXTENDS Console, Keyboard, SequencesExt

CONSTANTS Messages,   \* what PrintSyscall is asked to print
          Direct,     \* cores whose program prints by itself
          Numbers,    \* what it prints
          MaxCalls,   \* bound: calls asked for by programs
          MaxEvents,  \* bound: calls and keys together
          Called      \* the system calls they make

AllCalls == {"timer", "print", "clear", "input", "launch"}

ASSUME TerminalAssumption ==
  /\ Context = Core \X {"program", "handler"}
  /\ Messages \cup {IntText(n) : n \in Numbers} \cup {<<ch>> : ch \in Characters} \subseteq Strings
  /\ Direct \subseteq Core
  /\ Numbers \subseteq Nat
  /\ MaxCalls \in Nat /\ MaxEvents \in Nat
  /\ Called \subseteq AllCalls \ {"timer"}

VARIABLES SyscallSpinLock, Ps2SpinLock,
          pc,       \* where the handler of each core is
          call,     \* the system call it is the handler of, if any
          calls,    \* calls made so far
          tick      \* whether a tick can come in the handler, or has come

handlerVars == <<SyscallSpinLock, Ps2SpinLock, pc, call, calls>>
kernelVars == <<consoleVars, keyboardVars, handlerVars>>
vars == <<kernelVars, tick>>

Program(c) == <<c, "program">>
Handler(c) == <<c, "handler">>

PCs == {"run", "wantSyscall", "call", "wantPs2", "poll"}

KernelTypes ==
  /\ ConsoleTypeOK
  /\ KeyboardTypeOK
  /\ SyscallSpinLock \in {0, 1} /\ Ps2SpinLock \in {0, 1}
  /\ pc \in [Core -> PCs]
  /\ call \in [Core -> AllCalls]
  /\ calls \in 0..MaxCalls

TypeOK == KernelTypes /\ tick \in [Core -> {"off", "possible", "nested"}]

Init ==
  /\ ConsoleInit
  /\ KeyboardInit
  /\ SyscallSpinLock = 0 /\ Ps2SpinLock = 0
  /\ pc = [c \in Core |-> "run"]
  /\ call = [c \in Core |-> "timer"]
  /\ calls = 0
  /\ tick = [c \in Core |-> "off"]
-----------------------------------------------------------------------------
Goto(c, l) == pc' = [pc EXCEPT ![c] = l]

(* The core executes its thread, which is not in the middle of a print.    *)
ProgramRuns(c) == pc[c] = "run" /\ ThreadState[c] = "normal" /\ at[Program(c)] = "out"

Calls == /\ calls < MaxCalls /\ calls + keys < MaxEvents
         /\ calls' = calls + 1

(* TaskList::Entry calls Console::PrintInt, as any code of the kernel.     *)
PrintInt(c) ==
  /\ c \in Direct
  /\ ProgramRuns(c)
  /\ Calls
  /\ \E n \in Numbers : PrintString(Program(c), IntText(n))
  /\ UNCHANGED <<keyboardVars, SyscallSpinLock, Ps2SpinLock, pc, call>>

ProgramStep(c) ==
  /\ pc[c] = "run"
  /\ ConsoleStep(Program(c))
  /\ UNCHANGED <<keyboardVars, handlerVars>>

ProgramTakes(c) ==
  /\ pc[c] = "run"
  /\ TakeVga(Program(c))
  /\ UNCHANGED <<keyboardVars, handlerVars>>

Timer(c) ==
  /\ pc[c] = "run"
  /\ Goto(c, "wantPs2")
  /\ UNCHANGED <<consoleVars, keyboardVars, SyscallSpinLock, Ps2SpinLock, call, calls>>

Syscall(c, f) ==
  /\ ProgramRuns(c)
  /\ Calls
  /\ Goto(c, "wantSyscall")
  /\ call' = [call EXCEPT ![c] = f]
  /\ UNCHANGED <<consoleVars, keyboardVars, SyscallSpinLock, Ps2SpinLock>>
-----------------------------------------------------------------------------
(* PrintSyscall, ClearScreen, GetInput or LoadApp, with the lock.  A       *)
(* launch moves the array of the threads, or takes a closed entry and      *)
(* prints that it does.                                                    *)
Serve(c) ==
  \/ /\ call[c] \in {"print", "launch"}
     /\ \E s \in Messages : PrintString(Handler(c), s)
     /\ UNCHANGED keyboardVars
  \/ /\ call[c] = "clear"
     /\ VGAInit(Handler(c))
     /\ UNCHANGED keyboardVars
  \/ /\ call[c] = "launch"
     /\ MoveArray
     /\ UNCHANGED consoleVars
  \/ /\ call[c] = "input"
     /\ key' = [key EXCEPT ![c] = "setBuffer"]
     /\ UNCHANGED <<consoleVars, driverVars, buffer, ThreadState, letter, keys, typed, disturbed>>

TakeSyscallLock(c) ==
  /\ pc[c] = "wantSyscall"
  /\ SyscallSpinLock = 0
  /\ SyscallSpinLock' = 1
  /\ Serve(c)
  /\ Goto(c, "call")
  /\ UNCHANGED <<Ps2SpinLock, call, calls>>

TakePs2Lock(c) ==
  /\ pc[c] = "wantPs2"
  /\ Ps2SpinLock = 0
  /\ Ps2SpinLock' = 1
  /\ key' = [key EXCEPT ![c] = "poll"]
  /\ Goto(c, "poll")
  /\ UNCHANGED <<consoleVars, driverVars, buffer, ThreadState, letter, keys, typed, disturbed,
                 SyscallSpinLock, call, calls>>

HandlerTakesVga(c) == TakeVga(Handler(c)) /\ UNCHANGED <<keyboardVars, handlerVars>>

(* The call goes on in the console or in the driver.                       *)
InConsole(c) == ConsoleStep(Handler(c)) /\ UNCHANGED <<keyboardVars, handlerVars>>

InDriver(c) ==
  /\ GetInputStep(c) \/ PollStep(c)
  /\ calls + keys' <= MaxEvents
  /\ UNCHANGED <<consoleVars, handlerVars>>

(* The letter just typed is shown: the poll prints it with its own lock    *)
(* taken.                                                                  *)
Echo(c) ==
  /\ key[c] = "echo"
  /\ PrintString(Handler(c), <<AsciiChar(letter[c])>>)
  /\ key' = [key EXCEPT ![c] = "out"]
  /\ UNCHANGED <<driverVars, buffer, ThreadState, letter, keys, typed, disturbed, handlerVars>>

Returned(c) == at[Handler(c)] = "out" /\ key[c] = "out"

(* Faulty variant: the lock is not given back. *)
EndSyscall_Forgotten(c) ==
  /\ pc[c] = "call"
  /\ Returned(c)
  /\ Goto(c, "wantPs2")
  /\ UNCHANGED <<consoleVars, keyboardVars, SyscallSpinLock, Ps2SpinLock, call, calls>>

EndSyscall(c) ==
  /\ pc[c] = "call"
  /\ Returned(c)
  /\ SyscallSpinLock' = 0
  /\ Goto(c, "wantPs2")
  /\ UNCHANGED <<consoleVars, keyboardVars, Ps2SpinLock, call, calls>>

(* And SwitchTask, as far as this thread goes.                             *)
EndPs2(c) ==
  /\ pc[c] = "poll"
  /\ Returned(c)
  /\ Ps2SpinLock' = 0
  /\ Goto(c, "run")
  /\ call' = [call EXCEPT ![c] = "timer"]
  /\ ThreadState' = [ThreadState EXCEPT ![c] = IF @ = "restarting" THEN "normal" ELSE @]
  /\ UNCHANGED <<consoleVars, driverVars, buffer, key, letter, keys, typed, disturbed,
                 SyscallSpinLock, calls>>
-----------------------------------------------------------------------------
(***************************************************************************)
(* A tick in the handler of a system call.  The handler turns the LAPIC of *)
(* its core off and runs with interrupts disabled; but CpuUnderLoad        *)
(* (idt.cpp:499) may have turned the LAPIC on again, and PrintString ends  *)
(* with sti (console.cpp:69).  (Not in the handler of a tick, which is     *)
(* acknowledged behind its last print, and not in that of a launch:        *)
(* InitThread turns the LAPIC off again.)                                  *)
(***************************************************************************)
(* What a step of the core does to that: the end of a print lets a tick    *)
(* come until the end of the handler.                                      *)
Interrupts(c) ==
  /\ tick[c] # "nested"
  /\ tick' = [tick EXCEPT ![c] =
       IF at[Handler(c)] = "unlock" /\ call[c] \notin {"timer", "launch"} THEN "possible"
       ELSE IF pc'[c] = "run" THEN "off" ELSE @]

(* The tick's handler waits for a lock that its own core holds, for ever,  *)
(* or switches away from the handler it came in, with SyscallSpinLock or   *)
(* with none.  The core is followed no further.                            *)
NestedTick(c) ==
  /\ tick[c] = "possible"
  /\ tick' = [tick EXCEPT ![c] = "nested"]
  /\ UNCHANGED kernelVars
-----------------------------------------------------------------------------
Take(c) == TakeSyscallLock(c) \/ TakePs2Lock(c) \/ HandlerTakesVga(c)

Handle(c) == \/ InConsole(c) \/ InDriver(c) \/ Echo(c)
             \/ EndSyscall(c) \/ EndPs2(c)

Step(c) == \/ PrintInt(c) \/ ProgramStep(c) \/ ProgramTakes(c)
           \/ Timer(c) \/ Take(c) \/ Handle(c)
           \/ \E f \in Called : Syscall(c, f)

Next == \E c \in Core : \/ Step(c) /\ Interrupts(c)
                        \/ NestedTick(c)

Spec == Init /\ [][Next]_vars

(* A handler executes its instructions.  A program gets to its own between *)
(* interrupts, again and again.  Nobody who waits for a lock is shut out   *)
(* for ever by others who take it again and again.  No tick has to nest.   *)
Fairness == \A c \in Core : /\ WF_vars(Handle(c) /\ Interrupts(c))
                            /\ SF_vars(Take(c) /\ Interrupts(c))
                            /\ SF_vars(ProgramStep(c) /\ Interrupts(c))

FairSpec == Spec /\ Fairness
-----------------------------------------------------------------------------
(* A program has the screen while its core's handler, or one that has the  *)
(* keyboard for which its core's handler waits, waits for the screen:      *)
(* neither goes on, and nobody else prints until a VGAInit frees the lock  *)
(* by force.                                                               *)
Stuck == \E c, d \in Core : /\ at[Program(c)] \in InPrint
                            /\ at[Handler(d)] = "wantVga"
                            /\ c = d \/ (pc[c] = "wantPs2" /\ pc[d] = "poll")

(* A reader's buffer holds the line that was typed, its end, and nothing   *)
(* where the driver may not write.                                         *)
LineInBuffer == TypeOK /\ LineDelivered /\ WithinBuffer

NoneNested == \A c \in Core : tick[c] # "nested"

(* Every interrupt and every system call that prints, clears, reads or     *)
(* launches comes to an end, unless a program was interrupted in a print   *)
(* of its own and a handler prints as well (tasklist.cpp:23), or a tick    *)
(* has come in the handler of a system call (console.cpp:69).              *)
HandlerReturns ==
  \A c \in Core : pc[c] # "run" ~> pc[c] = "run" \/ Stuck \/ ~NoneNested
=============================================================================
