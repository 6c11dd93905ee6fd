----------------------------- MODULE Scheduler -----------------------------
(***************************************************************************)
(* Threads on several cores: the interrupt handler IDThandler              *)
(* (Kernel/idt.cpp), InitThread and SwitchTask (Kernel/Exec/Thread.cpp),   *)
(* the system calls (Kernel/Syscall/Syscall.cpp) and the keyboard poll     *)
(* (Kernel/Ps2/Ps2.cpp).                                                   *)
(*                                                                         *)
(* A core runs a thread, its idle loop or the handler.  The handler runs   *)
(* with its core's interrupts masked and takes up to three spin locks; a   *)
(* core's pc tells which it waits for and which it holds.  What happens    *)
(* under Thread::SpinLock is one step; the keyboard driver and GetInput    *)
(* write shared variables under different locks (Ps2SpinLock and           *)
(* SyscallSpinLock), so there every shared access is a step of its own.    *)
(*                                                                         *)
(* Each call of InitThread makes a stack.  The stacks, numbered in order,  *)
(* stand for the contexts a core can execute.                              *)
(***************************************************************************)
EXTENDS Naturals, FiniteSets

CONSTANTS NumberCores,  \* cores started
          MaxLaunches,  \* bound: threads created in a behaviour
          Calls,        \* the system calls that programs make
          Keyboard      \* whether somebody presses Enter

AllCalls == {"print", "load", "loadNonBG", "input", "exit", "unknown"}

ASSUME ConstantsAssumption ==
  /\ NumberCores \in Nat \ {0}
  /\ MaxLaunches \in Nat \ {0}
  /\ Calls \subseteq AllCalls
  /\ Keyboard \in BOOLEAN

Core == 0..(NumberCores - 1)
Slot == 0..(MaxLaunches - 1)      \* indices of ThreadArray
Stack == 1..MaxLaunches

(* The other things a core can execute: its idle loop, the boot code (on   *)
(* core 0), and whatever is at a stack pointer that is not a saved frame.  *)
Idle == 0
Boot == MaxLaunches + 1
Lost == MaxLaunches + 2
NoStack == MaxLaunches + 3        \* a null stack pointer
Context == 0..(MaxLaunches + 3)

ThreadStateNormal     == 0
ThreadStatePaused     == 1
ThreadStateClosed     == 2
ThreadStateWaiting    == 3
ThreadStateRestarting == 4

Threads == [CoreUsing : Core, FirstStart : BOOLEAN, ThreadState : 0..4,
            ThreadParentIndex : Slot, StackPTR : Context]

(* An entry past the end of the array. *)
NoThread == [CoreUsing |-> 0, FirstStart |-> FALSE,
             ThreadState |-> ThreadStateClosed, ThreadParentIndex |-> 0,
             StackPTR |-> NoStack]

(* A pointer to an entry is good until the array is moved: array counts    *)
(* the moves.                                                              *)
Pointers == [array : 0..MaxLaunches, slot : Slot]
NullPointer == [array |-> 0, slot |-> 0]

PCs == {"run", "fault",
        "wantSave", "save", "wantSyscall", "dispatch",
        "wantInit", "init", "wantAdopt", "adopt", "wantExit", "exit",
        "setBuffer", "setGetter", "setPaused", "endSyscall",
        "wantPs2", "ps2", "clearBuffer", "wake",
        "wantSwitch", "switch"}

VARIABLES
  ThreadArray,          \* the threads, [Slot -> Threads]
  NumberThreads,
  array,                \* how often ThreadArray has been moved
  CoreCurrentThreadID,  \* [Core -> Slot]
  CoreStateList,        \* 5: idle frame saved, 4: to be saved, 0: never (core 0)
  CoreStackPtrs,        \* whose frame it is: Idle, or Lost when none was saved
  ThreadLock,           \* Thread::SpinLock
  SyscallSpinLock,
  Ps2SpinLock,
  CurrentBuffer,        \* whether a read of the keyboard is on
  ThreadGetingInput,    \* the pointer to the thread that reads
  pc, on,               \* what each core does, and in which context
  call,                 \* the system call of the interrupt, "timer" if none
  ThreadObj,            \* the pointer IDThandler hands to the system call
  child,                \* InitThread's result in LoadAppNonBG
  launches,             \* stacks made so far
  owner,                \* owner[s]: the stack made for the thread in slot s
  fresh,                \* fresh[k]: StackPTR has the last frame of stack k
  nested                \* a tick has come in the handler of the core

threadVars == <<ThreadArray, NumberThreads, array, owner, launches>>
coreVars   == <<CoreCurrentThreadID, CoreStateList, CoreStackPtrs>>
lockVars   == <<ThreadLock, SyscallSpinLock, Ps2SpinLock>>
inputVars  == <<CurrentBuffer, ThreadGetingInput>>
callVars   == <<call, ThreadObj, child>>
kernelVars == <<threadVars, coreVars, lockVars, inputVars, callVars, pc, on, fresh>>
vars == <<kernelVars, nested>>

KernelTypes ==
  /\ ThreadArray \in [Slot -> Threads]
  /\ NumberThreads \in 0..MaxLaunches
  /\ array \in 0..MaxLaunches
  /\ CoreCurrentThreadID \in [Core -> Slot]
  /\ CoreStateList \in [Core -> {0, 4, 5}]
  /\ CoreStackPtrs \in [Core -> Context]
  /\ ThreadLock \in {0, 1} /\ SyscallSpinLock \in {0, 1} /\ Ps2SpinLock \in {0, 1}
  /\ CurrentBuffer \in BOOLEAN
  /\ ThreadGetingInput \in Pointers
  /\ pc \in [Core -> PCs]
  /\ on \in [Core -> Context]
  /\ call \in [Core -> AllCalls \cup {"timer", "boot"}]
  /\ ThreadObj \in [Core -> Pointers]
  /\ child \in [Core -> Slot]
  /\ launches \in 0..MaxLaunches
  /\ owner \in [Slot -> Context]
  /\ fresh \in [Stack -> BOOLEAN]

TypeOK == KernelTypes /\ nested \in [Core -> BOOLEAN]

(* kernel.cpp:73: the boot code on core 0 calls InitThread for the first   *)
(* program; the timers run and the other cores have saved their idle frame *)
(* (StartLApicTimer waits for that), core 0 has not.                       *)
Init ==
  /\ ThreadArray = [s \in Slot |-> NoThread]
  /\ NumberThreads = 0
  /\ array = 0
  /\ CoreCurrentThreadID = [c \in Core |-> 0]
  /\ CoreStateList = [c \in Core |-> IF c = 0 THEN 0 ELSE 5]
  /\ CoreStackPtrs = [c \in Core |-> IF c = 0 THEN Lost ELSE Idle]
  /\ ThreadLock = 0 /\ SyscallSpinLock = 0 /\ Ps2SpinLock = 0
  /\ CurrentBuffer = FALSE
  /\ ThreadGetingInput = NullPointer
  /\ pc = [c \in Core |-> IF c = 0 THEN "wantInit" ELSE "run"]
  /\ on = [c \in Core |-> IF c = 0 THEN Boot ELSE Idle]
  /\ call = [c \in Core |-> IF c = 0 THEN "boot" ELSE "timer"]
  /\ ThreadObj = [c \in Core |-> NullPointer]
  /\ child = [c \in Core |-> 0]
  /\ launches = 0
  /\ owner = [s \in Slot |-> NoStack]
  /\ fresh = [k \in Stack |-> FALSE]
  /\ nested = [c \in Core |-> FALSE]
-----------------------------------------------------------------------------
Goto(c, l) == pc' = [pc EXCEPT ![c] = l]

(* Spinlock::WaitSet, by the exchange that succeeds (module SpinLock).     *)
TakeThreadLock(c) ==
  /\ ThreadLock = 0
  /\ ThreadLock' = 1
  /\ \/ pc[c] = "wantSave"   /\ Goto(c, "save")
     \/ pc[c] = "wantInit"   /\ Goto(c, "init")
     \/ pc[c] = "wantAdopt"  /\ Goto(c, "adopt")
     \/ pc[c] = "wantExit"   /\ Goto(c, "exit")
     \/ pc[c] = "wantSwitch" /\ NumberThreads # 0 /\ Goto(c, "switch")
  /\ UNCHANGED <<threadVars, coreVars, SyscallSpinLock, Ps2SpinLock, inputVars,
                 callVars, on, fresh>>

(* Faulty variant: SyscallSpinLock is not waited for. *)
TakeSyscallLock_NoWait(c) ==
  /\ pc[c] = "wantSyscall"
  /\ SyscallSpinLock' = 1
  /\ ThreadObj' = [ThreadObj EXCEPT ![c] = [array |-> array, slot |-> CoreCurrentThreadID[c]]]
  /\ Goto(c, "dispatch")
  /\ UNCHANGED <<threadVars, coreVars, ThreadLock, Ps2SpinLock, inputVars, call,
                 child, on, fresh>>

(* The pointer &ThreadArray[CoreCurrentThreadID[core]] is formed with the  *)
(* lock held, and given to the system call.                                *)
TakeSyscallLock(c) ==
  /\ pc[c] = "wantSyscall"
  /\ SyscallSpinLock = 0
  /\ SyscallSpinLock' = 1
  /\ ThreadObj' = [ThreadObj EXCEPT ![c] = [array |-> array, slot |-> CoreCurrentThreadID[c]]]
  /\ Goto(c, "dispatch")
  /\ UNCHANGED <<threadVars, coreVars, ThreadLock, Ps2SpinLock, inputVars, call,
                 child, on, fresh>>

TakePs2Lock(c) ==
  /\ pc[c] = "wantPs2"
  /\ Ps2SpinLock = 0
  /\ Ps2SpinLock' = 1
  /\ Goto(c, "ps2")
  /\ UNCHANGED <<threadVars, coreVars, ThreadLock, SyscallSpinLock, inputVars,
                 callVars, on, fresh>>
-----------------------------------------------------------------------------
(***************************************************************************)
(* IDThandler, up to the system call.                                      *)
(***************************************************************************)
(* Where the handler goes once it knows there is nothing to save.          *)
Enter(c, isr) ==
  /\ call' = [call EXCEPT ![c] = isr]
  /\ IF NumberThreads = 0 THEN Goto(c, "wantPs2") ELSE Goto(c, "wantSave")

(* The first interrupt of an idle loop just entered only saves its frame.  *)
SaveIdleFrame(c) ==
  /\ pc[c] = "run"
  /\ CoreStateList[c] = 4
  /\ CoreStateList' = [CoreStateList EXCEPT ![c] = 5]
  /\ CoreStackPtrs' = [CoreStackPtrs EXCEPT ![c] = on[c]]
  /\ UNCHANGED <<threadVars, CoreCurrentThreadID, lockVars, inputVars, callVars,
                 pc, on, fresh>>

Timer(c) ==
  /\ pc[c] = "run"
  /\ CoreStateList[c] # 4
  /\ Enter(c, "timer")
  /\ UNCHANGED <<threadVars, coreVars, lockVars, inputVars, ThreadObj, child, on, fresh>>

(* A program executes int 0x80. *)
Syscall(c, f) ==
  /\ pc[c] = "run"
  /\ on[c] \in Stack
  /\ CoreStateList[c] # 4
  /\ Enter(c, f)
  /\ UNCHANGED <<threadVars, coreVars, lockVars, inputVars, ThreadObj, child, on, fresh>>

AfterSave(c) == IF call[c] = "timer" THEN "wantPs2" ELSE "wantSyscall"

(* Faulty variant: the state of the thread is not looked at. *)
SaveContext_AnyState(c) ==
  /\ pc[c] = "save"
  /\ LET s == CoreCurrentThreadID[c]
         t == ThreadArray[s]
     IN  IF ~t.FirstStart /\ t.CoreUsing = c
           THEN /\ ThreadArray' = [ThreadArray EXCEPT ![s].StackPTR = on[c]]
                /\ fresh' = [k \in Stack |-> fresh[k] \/ k = on[c]]
           ELSE UNCHANGED <<ThreadArray, fresh>>
  /\ ThreadLock' = 0
  /\ Goto(c, AfterSave(c))
  /\ UNCHANGED <<NumberThreads, array, owner, launches, coreVars, SyscallSpinLock,
                 Ps2SpinLock, inputVars, callVars, on>>

(* The frame of what was interrupted becomes the StackPTR of the core's    *)
(* current thread, if that one has started, is this core's and is normal.  *)
SaveContext(c) ==
  /\ pc[c] = "save"
  /\ LET s == CoreCurrentThreadID[c]
         t == ThreadArray[s]
     IN  IF ~t.FirstStart /\ t.CoreUsing = c /\ t.ThreadState = ThreadStateNormal
           THEN /\ ThreadArray' = [ThreadArray EXCEPT ![s].StackPTR = on[c]]
                /\ fresh' = [k \in Stack |-> fresh[k] \/ k = on[c]]
           ELSE UNCHANGED <<ThreadArray, fresh>>
  /\ ThreadLock' = 0
  /\ Goto(c, AfterSave(c))
  /\ UNCHANGED <<NumberThreads, array, owner, launches, coreVars, SyscallSpinLock,
                 Ps2SpinLock, inputVars, callVars, on>>
-----------------------------------------------------------------------------
(***************************************************************************)
(* System calls.  They run one at a time, under SyscallSpinLock.           *)
(***************************************************************************)
(* Calls that leave the threads alone (PrintSyscall, ClearScreen,          *)
(* HasThreadClosed, a program that does not exist: its error message is    *)
(* all there is to it) return at once.                                     *)
CallLeavesThreads(c) == call[c] \in {"print", "load", "loadNonBG"}

(* A number without an entry: the lock is not given back.                  *)
Dispatch(c) ==
  /\ pc[c] = "dispatch"
  /\ \/ /\ CallLeavesThreads(c)
        /\ Goto(c, "endSyscall")
        /\ call' = [call EXCEPT ![c] = "print"]
     \/ /\ \/ /\ call[c] \in {"load", "loadNonBG"}
              /\ launches < MaxLaunches
              /\ Goto(c, "wantInit")
           \/ call[c] = "exit" /\ Goto(c, "wantExit")
           \/ call[c] = "input" /\ Goto(c, "setBuffer")
           \/ call[c] = "unknown" /\ Goto(c, "wantPs2")
        /\ UNCHANGED call
  /\ UNCHANGED <<threadVars, coreVars, lockVars, inputVars, ThreadObj, child, on, fresh>>

(* Faulty variant: the lock is not given back. *)
EndSyscall_Forgotten(c) ==
  /\ pc[c] = "endSyscall"
  /\ Goto(c, "wantPs2")
  /\ UNCHANGED <<threadVars, coreVars, lockVars, inputVars, callVars, on, fresh>>

EndSyscall(c) ==
  /\ pc[c] = "endSyscall"
  /\ SyscallSpinLock' = 0
  /\ Goto(c, "wantPs2")
  /\ UNCHANGED <<threadVars, coreVars, ThreadLock, Ps2SpinLock, inputVars, callVars,
                 on, fresh>>

Used == {s \in Slot : s < NumberThreads}

ThreadsOn(c) == Cardinality({s \in Used : ThreadArray[s].CoreUsing = c})

(* The first of the cores with the fewest entries, closed ones included.   *)
LeastUsed(c) == /\ \A d \in Core : ThreadsOn(c) <= ThreadsOn(d)
                /\ \A d \in Core : d < c => ThreadsOn(c) < ThreadsOn(d)

ClosedSlots == {s \in Used : ThreadArray[s].ThreadState = ThreadStateClosed}

(* The first closed entry, or a new one at the end.                        *)
OpenIndex(s) == IF ClosedSlots = {}
                  THEN s = NumberThreads
                  ELSE s \in ClosedSlots /\ \A r \in ClosedSlots : s <= r

NewThread(c, k) == [CoreUsing |-> c, FirstStart |-> TRUE,
                    ThreadState |-> ThreadStateNormal,
                    ThreadParentIndex |-> 0, StackPTR |-> k]

AfterInit(c) == CASE call[c] = "boot" -> "run"
                  [] call[c] = "load" -> "endSyscall"
                  [] OTHER            -> "wantAdopt"

(* InitThread: a new entry moves the array. *)
InitThread(c) ==
  /\ pc[c] = "init"
  /\ \E s \in Slot, d \in Core :
       /\ OpenIndex(s)
       /\ LeastUsed(d)
       /\ ThreadArray' = [ThreadArray EXCEPT ![s] = NewThread(d, launches + 1)]
       /\ owner' = [owner EXCEPT ![s] = launches + 1]
       /\ child' = [child EXCEPT ![c] = s]
       /\ IF s = NumberThreads
            THEN NumberThreads' = NumberThreads + 1 /\ array' = array + 1
            ELSE UNCHANGED <<NumberThreads, array>>
  /\ launches' = launches + 1
  /\ ThreadLock' = 0
  /\ Goto(c, AfterInit(c))
  /\ UNCHANGED <<coreVars, SyscallSpinLock, Ps2SpinLock, inputVars, call, ThreadObj,
                 on, fresh>>

(* LoadAppNonBG: the caller waits for the program it has started.          *)
Adopt(c) ==
  /\ pc[c] = "adopt"
  /\ LET parent == CoreCurrentThreadID[ThreadArray[ThreadObj[c].slot].CoreUsing]
     IN  ThreadArray' = [ThreadArray EXCEPT
                           ![child[c]].ThreadParentIndex = parent,
                           ![parent].ThreadState = ThreadStateWaiting]
  /\ ThreadLock' = 0
  /\ Goto(c, "endSyscall")
  /\ UNCHANGED <<NumberThreads, array, owner, launches, coreVars, SyscallSpinLock,
                 Ps2SpinLock, inputVars, callVars, on, fresh>>

(* Faulty variant: any parent that is not running is woken. *)
Exit_WakesClosed(c) ==
  /\ pc[c] = "exit"
  /\ LET s == ThreadObj[c].slot
         p == ThreadArray[s].ThreadParentIndex
         closed == [ThreadArray EXCEPT ![s].ThreadState = ThreadStateClosed,
                                       ![s].StackPTR = NoStack]
     IN  ThreadArray' = IF ThreadArray[p].ThreadState # ThreadStateNormal
                          THEN [closed EXCEPT ![p].ThreadState = ThreadStateRestarting]
                          ELSE closed
  /\ ThreadLock' = 0
  /\ Goto(c, "endSyscall")
  /\ UNCHANGED <<NumberThreads, array, owner, launches, coreVars, SyscallSpinLock,
                 Ps2SpinLock, inputVars, callVars, on, fresh>>

(* Faulty variant: any waiting thread of the core is woken. *)
Exit_WakesAny(c) ==
  /\ pc[c] = "exit"
  /\ LET s == ThreadObj[c].slot
         closed == [ThreadArray EXCEPT ![s].ThreadState = ThreadStateClosed,
                                       ![s].StackPTR = NoStack]
     IN  ThreadArray' = [t \in Slot |->
           IF closed[t].ThreadState = ThreadStateWaiting
             THEN [closed[t] EXCEPT !.ThreadState = ThreadStateRestarting]
             ELSE closed[t]]
  /\ ThreadLock' = 0
  /\ Goto(c, "endSyscall")
  /\ UNCHANGED <<NumberThreads, array, owner, launches, coreVars, SyscallSpinLock,
                 Ps2SpinLock, inputVars, callVars, on, fresh>>

(* Exit: the thread is closed, a parent that waits is to be restarted, and *)
(* StackPTR is cleared.  (The address it frees is not that of the stack:   *)
(* StackPTR was overwritten when the frame was saved; the stack is leaked.)*)
Exit(c) ==
  /\ pc[c] = "exit"
  /\ LET s == ThreadObj[c].slot
         p == ThreadArray[s].ThreadParentIndex
         closed == [ThreadArray EXCEPT ![s].ThreadState = ThreadStateClosed,
                                       ![s].StackPTR = NoStack]
     IN  ThreadArray' = IF closed[p].ThreadState = ThreadStateWaiting
                          THEN [closed EXCEPT ![p].ThreadState = ThreadStateRestarting]
                          ELSE closed
  /\ ThreadLock' = 0
  /\ Goto(c, "endSyscall")
  /\ UNCHANGED <<NumberThreads, array, owner, launches, coreVars, SyscallSpinLock,
                 Ps2SpinLock, inputVars, callVars, on, fresh>>
-----------------------------------------------------------------------------
(***************************************************************************)
(* Keyboard input.  GetInput (under SyscallSpinLock) and the poll (under   *)
(* Ps2SpinLock) share CurrentBuffer, ThreadGetingInput and ThreadState.    *)
(***************************************************************************)
Good(p) == p # NullPointer /\ p.array = array

(* A write of ThreadState through a pointer: into the array, or into the   *)
(* freed memory where the array was.                                       *)
SetState(p, st) == ThreadArray' = IF Good(p)
                                    THEN [ThreadArray EXCEPT ![p.slot].ThreadState = st]
                                    ELSE ThreadArray

(* SetPs2InputBuffer, three stores in this order. *)
SetBuffer(c) ==
  /\ pc[c] = "setBuffer"
  /\ CurrentBuffer' = TRUE
  /\ Goto(c, "setGetter")
  /\ UNCHANGED <<threadVars, coreVars, lockVars, ThreadGetingInput, callVars, on, fresh>>

SetGetter(c) ==
  /\ pc[c] = "setGetter"
  /\ ThreadGetingInput' = ThreadObj[c]
  /\ Goto(c, "setPaused")
  /\ UNCHANGED <<threadVars, coreVars, lockVars, CurrentBuffer, callVars, on, fresh>>

SetPaused(c) ==
  /\ pc[c] = "setPaused"
  /\ SetState(ThreadGetingInput, ThreadStatePaused)
  /\ Goto(c, "endSyscall")
  /\ UNCHANGED <<NumberThreads, array, owner, launches, coreVars, lockVars, inputVars,
                 callVars, on, fresh>>

(* OnPs2CheckCycle without an Enter, or with nobody reading.               *)
EndPs2(c) ==
  /\ pc[c] = "ps2"
  /\ Ps2SpinLock' = 0
  /\ Goto(c, "wantSwitch")
  /\ UNCHANGED <<threadVars, coreVars, ThreadLock, SyscallSpinLock, inputVars, callVars,
                 on, fresh>>

(* case 0x1c with CurrentBuffer # 0, then CurrentBuffer = 0, then the wake.*)
EnterKey(c) ==
  /\ pc[c] = "ps2"
  /\ Keyboard
  /\ CurrentBuffer
  /\ Goto(c, "clearBuffer")
  /\ UNCHANGED <<threadVars, coreVars, lockVars, inputVars, callVars, on, fresh>>

ClearBuffer(c) ==
  /\ pc[c] = "clearBuffer"
  /\ CurrentBuffer' = FALSE
  /\ Goto(c, "wake")
  /\ UNCHANGED <<threadVars, coreVars, lockVars, ThreadGetingInput, callVars, on, fresh>>

Wake(c) ==
  /\ pc[c] = "wake"
  /\ SetState(ThreadGetingInput, ThreadStateRestarting)
  /\ Ps2SpinLock' = 0
  /\ Goto(c, "wantSwitch")
  /\ UNCHANGED <<NumberThreads, array, owner, launches, coreVars, ThreadLock,
                 SyscallSpinLock, inputVars, callVars, on, fresh>>
-----------------------------------------------------------------------------
(***************************************************************************)
(* SwitchTask.                                                             *)
(***************************************************************************)
(* Faulty variant: the scan starts with the current thread. *)
Distance_FromCurrent(s, t) == (t + NumberThreads - s) % NumberThreads

(* How far the scan that starts after s goes to t. *)
Distance(s, t) == (t + NumberThreads - s - 1) % NumberThreads

(* The next of the core's threads after the current one, round robin and   *)
(* whatever its state; the current one if the core has none.               *)
NextThread(c, s) ==
  LET mine == {t \in Used : ThreadArray[t].CoreUsing = c}
      cur  == CoreCurrentThreadID[c]
  IN  IF mine = {} THEN s = cur
      ELSE s \in mine /\ \A t \in mine : Distance(cur, s) <= Distance(cur, t)

(* ReStartThread: what runs is the context whose frame is at the pointer.  *)
(* A frame that was resumed before may be overwritten or not: the thread   *)
(* goes on from there, or the core faults on what it finds.                *)
Resume(c, stack) == /\ stack \in Stack
                    /\ on' = [on EXCEPT ![c] = stack]
                    /\ fresh' = [fresh EXCEPT ![stack] = FALSE]
                    /\ Goto(c, "run")

Derail(c, stack) == /\ ~(stack \in Stack /\ fresh[stack])
                    /\ on' = [on EXCEPT ![c] = Lost]
                    /\ Goto(c, "fault")
                    /\ UNCHANGED fresh

Restart(c, stack) == Resume(c, stack) \/ Derail(c, stack)

Switching(c, s) ==
  /\ pc[c] = "switch"
  /\ NextThread(c, s)
  /\ CoreCurrentThreadID' = [CoreCurrentThreadID EXCEPT ![c] = s]
  /\ ThreadLock' = 0
  /\ UNCHANGED <<NumberThreads, array, owner, launches, SyscallSpinLock, Ps2SpinLock,
                 inputVars, callVars>>

SwitchRestarting(c) ==
  \E s \in Slot :
    /\ Switching(c, s)
    /\ ThreadArray[s].CoreUsing = c
    /\ ThreadArray[s].ThreadState = ThreadStateRestarting
    /\ ThreadArray' = [ThreadArray EXCEPT ![s].ThreadState = ThreadStateNormal]
    /\ Restart(c, ThreadArray[s].StackPTR)
    /\ UNCHANGED <<CoreStateList, CoreStackPtrs>>

(* Faulty variant: the thread is not marked as started. *)
SwitchFirst_NotMarked(c) ==
  \E s \in Slot :
    /\ Switching(c, s)
    /\ ThreadArray[s].CoreUsing = c
    /\ ThreadArray[s].ThreadState = ThreadStateNormal
    /\ ThreadArray[s].FirstStart
    /\ on' = [on EXCEPT ![c] = ThreadArray[s].StackPTR]
    /\ Goto(c, "run")
    /\ UNCHANGED <<ThreadArray, CoreStateList, CoreStackPtrs, fresh>>

SwitchFirst(c) ==
  \E s \in Slot :
    /\ Switching(c, s)
    /\ ThreadArray[s].CoreUsing = c
    /\ ThreadArray[s].ThreadState = ThreadStateNormal
    /\ ThreadArray[s].FirstStart
    /\ ThreadArray' = [ThreadArray EXCEPT ![s].FirstStart = FALSE]
    /\ on' = [on EXCEPT ![c] = ThreadArray[s].StackPTR]
    /\ Goto(c, "run")
    /\ UNCHANGED <<CoreStateList, CoreStackPtrs, fresh>>

(* Faulty variant: the core is not compared. *)
SwitchNormal_AnyCore(c) ==
  \E s \in Slot :
    /\ Switching(c, s)
    /\ ThreadArray[s].ThreadState = ThreadStateNormal
    /\ ~ThreadArray[s].FirstStart
    /\ Restart(c, ThreadArray[s].StackPTR)
    /\ UNCHANGED <<ThreadArray, CoreStateList, CoreStackPtrs>>

SwitchNormal(c) ==
  \E s \in Slot :
    /\ Switching(c, s)
    /\ ThreadArray[s].CoreUsing = c
    /\ ThreadArray[s].ThreadState = ThreadStateNormal
    /\ ~ThreadArray[s].FirstStart
    /\ Restart(c, ThreadArray[s].StackPTR)
    /\ UNCHANGED <<ThreadArray, CoreStateList, CoreStackPtrs>>

(* MoveToStartStack: nothing to run, back to the core's idle loop.         *)
SwitchIdle(c) ==
  \E s \in Slot :
    /\ Switching(c, s)
    /\ \/ ThreadArray[s].CoreUsing # c
       \/ ThreadArray[s].ThreadState \notin {ThreadStateNormal, ThreadStateRestarting}
    /\ CoreStateList' = [CoreStateList EXCEPT ![c] = 4]
    /\ on' = [on EXCEPT ![c] = CoreStackPtrs[c]]
    /\ IF CoreStackPtrs[c] = Lost THEN Goto(c, "fault") ELSE Goto(c, "run")
    /\ UNCHANGED <<ThreadArray, CoreStackPtrs, fresh>>

(* No threads yet: the handler returns to what it interrupted.             *)
SwitchNone(c) ==
  /\ pc[c] = "wantSwitch"
  /\ NumberThreads = 0
  /\ Goto(c, "run")
  /\ UNCHANGED <<threadVars, coreVars, lockVars, inputVars, callVars, on, fresh>>
-----------------------------------------------------------------------------
(***************************************************************************)
(* A tick in the handler of a system call.  The handler turns the LAPIC of *)
(* its core off and runs with interrupts disabled; but CpuUnderLoad        *)
(* (idt.cpp:499, when the last second had fewer than 200 interrupts) turns *)
(* the LAPIC on again, and PrintString ends with sti (console.cpp:69).     *)
(* From then to the end of the handler a tick comes through.  (Not in the  *)
(* handler of a tick, which is acknowledged only after its last print, and *)
(* not after InitThread, which turns the LAPIC off again.)                 *)
(***************************************************************************)
AfterCall == {"wantPs2", "ps2", "clearBuffer", "wake", "wantSwitch", "switch"}

ParentIsWaiting(c) ==
  LET p == ThreadArray[ThreadObj[c].slot].ThreadParentIndex
  IN  ThreadArray[p].ThreadState = ThreadStateWaiting

(* A print has ended in this handler and the LAPIC may still be on: the    *)
(* call printed, or the poll echoes the letter it has read.                *)
Interruptible(c) ==
  \/ call[c] \in {"print", "exit"} /\ pc[c] \in {"endSyscall"} \cup AfterCall
  \/ pc[c] = "exit" /\ ParentIsWaiting(c)
  \/ call[c] \in {"load", "loadNonBG"} /\ pc[c] = "dispatch"
  \/ call[c] \in {"input", "unknown"} /\ pc[c] \in {"ps2", "wantSwitch", "switch"}

(* The tick's handler waits for a lock that its own core holds, for ever,  *)
(* or switches away from the handler it came in, with SyscallSpinLock or   *)
(* with none.  The core is followed no further.                            *)
NestedTick(c) ==
  /\ ~nested[c]
  /\ Interruptible(c)
  /\ nested' = [nested EXCEPT ![c] = TRUE]
  /\ UNCHANGED kernelVars
-----------------------------------------------------------------------------
Goes(c) == ~nested[c] /\ UNCHANGED nested

Interrupt(c) == Timer(c) \/ SaveIdleFrame(c)

Take(c) == TakeThreadLock(c) \/ TakeSyscallLock(c) \/ TakePs2Lock(c)

Handle(c) ==
  \/ SaveContext(c) \/ Dispatch(c) \/ EndSyscall(c)
  \/ InitThread(c) \/ Adopt(c) \/ Exit(c)
  \/ SetBuffer(c) \/ SetGetter(c) \/ SetPaused(c)
  \/ EndPs2(c) \/ EnterKey(c) \/ ClearBuffer(c) \/ Wake(c)
  \/ SwitchRestarting(c) \/ SwitchFirst(c) \/ SwitchNormal(c) \/ SwitchIdle(c)
  \/ SwitchNone(c)

Step(c) == \/ Interrupt(c) \/ Take(c) \/ Handle(c)
           \/ \E f \in Calls : Syscall(c, f)

Next == \E c \in Core : \/ Step(c) /\ Goes(c)
                        \/ NestedTick(c)

Spec == Init /\ [][Next]_vars

(* A core executes the instructions it is at, and its timer goes off again *)
(* and again.  A core that spins on a lock is not shut out for ever: as    *)
(* long as no tick nests in a handler, the others hold a lock for a short  *)
(* part of a timer period.  No tick has to nest.                           *)
Fairness == \A c \in Core : /\ WF_vars(Interrupt(c) /\ Goes(c))
                            /\ WF_vars(Handle(c) /\ Goes(c))
                            /\ SF_vars(Take(c) /\ Goes(c))

FairSpec == Spec /\ Fairness
-----------------------------------------------------------------------------
(***************************************************************************)
(* Properties.                                                             *)
(***************************************************************************)
UnderThreadLock == {"save", "init", "adopt", "exit", "switch"}
UnderPs2Lock == {"ps2", "clearBuffer", "wake"}
InSyscall(c) ==
  /\ pc[c] \in {"dispatch", "wantInit", "init", "wantAdopt", "adopt", "wantExit",
                "exit", "setBuffer", "setGetter", "setPaused", "endSyscall"}
  /\ call[c] # "boot"

(* Each lock is taken exactly while one core is in a section it guards,    *)
(* also over system calls that take Thread::SpinLock inside.               *)
LocksHeld ==
  /\ \A c, d \in Core :
       \/ c = d
       \/ /\ ~(pc[c] \in UnderThreadLock /\ pc[d] \in UnderThreadLock)
          /\ ~(pc[c] \in UnderPs2Lock /\ pc[d] \in UnderPs2Lock)
          /\ ~(InSyscall(c) /\ InSyscall(d))
  /\ ThreadLock = 1 <=> \E c \in Core : pc[c] \in UnderThreadLock
  /\ Ps2SpinLock = 1 <=> \E c \in Core : pc[c] \in UnderPs2Lock
  /\ (\E c \in Core : InSyscall(c)) => SyscallSpinLock = 1

(* No thread is executed by two cores, however slots are reused and        *)
(* threads restarted while their old core is still in the handler.         *)
OneCorePerThread ==
  \A c, d \in Core : on[c] = on[d] /\ on[c] \in Stack => c = d

(* The cores do not meet: neither under a lock nor on a thread's stack.    *)
CoresApart == TypeOK /\ LocksHeld /\ OneCorePerThread

Live(s) == s \in Used /\ ThreadArray[s].ThreadState # ThreadStateClosed

OffCore(s) == \A c \in Core : on[c] # owner[s]

(* What SwitchTask will load is right: a thread that has not started has   *)
(* its own unused stack, and one that has been put aside has a frame of    *)
(* its own, saved when it was last interrupted and not resumed since.      *)
FramesKept ==
  \A s \in Used : Live(s) =>
    /\ ThreadArray[s].StackPTR = owner[s]
    /\ ThreadArray[s].FirstStart => OffCore(s)
    /\ ~ThreadArray[s].FirstStart /\ OffCore(s) => fresh[owner[s]]

(* A system call works on the thread that made it: the pointer it got is   *)
(* to this thread's entry, and until it makes a thread itself nobody moves *)
(* the array under it.                                                     *)
CallerIsCurrent ==
  \A c \in Core : InSyscall(c) =>
    /\ ThreadObj[c].slot = CoreCurrentThreadID[c]
    /\ pc[c] \notin {"wantAdopt", "adopt", "endSyscall"} => ThreadObj[c].array = array
    /\ pc[c] \notin {"endSyscall"} => owner[ThreadObj[c].slot] = on[c]

(* A thread that waits for a program is woken by somebody: an open thread  *)
(* has it as its parent, from the start (the child may run on another core *)
(* before LoadAppNonBG has set its parent) to the end.                     *)
WaitingHasChild ==
  \A p \in Used : ThreadArray[p].ThreadState = ThreadStateWaiting =>
    \E s \in Used \ {p} : Live(s) /\ ThreadArray[s].ThreadParentIndex = p

(* A closed thread never runs again: its entry leaves the closed state     *)
(* only for a new thread.                                                  *)
ClosedForGood ==
  [][\A s \in Used : ~Live(s) /\ Live(s)' => owner'[s] # owner[s]]_vars

(* Even with the keyboard about, no thread gets the frame of another       *)
(* thread, of an idle loop or of the boot code: what is saved for a thread *)
(* is its own, or nothing once it has exited.                              *)
FramesNotMixed ==
  \A s \in Used : ThreadArray[s].StackPTR \in {owner[s], NoStack}

(* Whoever started a program in the foreground stays put until that exits: *)
(* while the child is open its parent waits, however many other threads    *)
(* exit meanwhile and although SwitchTask passes the parent again and      *)
(* again.  (Not for slot 0, which background programs have as their parent *)
(* too; the exit of one of those may let it go on too early.)              *)
ParentWaits ==
  \A s \in Used, p \in Used \ {0} :
    s # p /\ Live(s) /\ ThreadArray[s].ThreadParentIndex = p
      => ThreadArray[p].ThreadState = ThreadStateWaiting

(* A program waits exactly while it has an open child in the foreground.   *)
FamiliesKept == WaitingHasChild /\ ParentWaits

(* A core that has nothing to run goes back to the idle loop it was in     *)
(* (idt.cpp:472, Thread.cpp:166), and a frame that is loaded is one that   *)
(* was saved.  (Except on core 0, which never saves its idle frame.)       *)
OnlyFirstCoreFaults == \A c \in Core : pc[c] = "fault" => c = 0

(* Every interrupt and every system call comes to an end, unless a tick    *)
(* comes in the handler of a system call: until that happens on some core, *)
(* no order of the lock's takers keeps a core in the handler (idt.cpp:460  *)
(* to 640).                                                                *)
NoneNested == \A c \in Core : ~nested[c]

HandlerReturns ==
  \A c \in Core : pc[c] # "run" ~> pc[c] \in {"run", "fault"} \/ ~NoneNested

(* A thread that can run gets its core again and again (unless the core    *)
(* has faulted), whatever the states of the other threads of the core, as  *)
(* long as no tick comes in the handler of a system call.                  *)
Ready(s, c) == /\ s \in Used
               /\ ThreadArray[s].CoreUsing = c
               /\ ThreadArray[s].ThreadState \in {ThreadStateNormal, ThreadStateRestarting}

ReadyRuns ==
  \A s \in Slot, c \in Core :
    Ready(s, c) ~> \/ ~Ready(s, c) \/ pc[c] = "fault" \/ ~NoneNested
                   \/ on[c] = owner[s] /\ pc[c] = "run"
=============================================================================
