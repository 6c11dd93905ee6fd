--------------------------- MODULE Scheduler_proofs ---------------------------
(***************************************************************************)
(* What the interrupt handler, the system calls and SwitchTask guarantee   *)
(* for every number of cores and threads, whatever system calls are made   *)
(* and whoever is at the keyboard; and what they guarantee besides when no *)
(* program reads the keyboard.                                             *)
(***************************************************************************)
EXTENDS Scheduler, TLAPS

(* What the cores do, ticks in a handler aside.                            *)
Steps == \E c \in Core : Step(c)

-----------------------------------------------------------------------------
(***************************************************************************)
(* The inductive invariant.                                                *)
(***************************************************************************)
(* The call a core handles fits the place it is at.                        *)
CallFits ==
  \A c \in Core :
    /\ call[c] = "boot" => pc[c] \in {"wantInit", "init", "run"}
    /\ call[c] = "boot" => c = 0
    /\ pc[c] \in {"wantSyscall", "dispatch"} => call[c] \in AllCalls
    /\ pc[c] \in {"wantInit", "init"} => call[c] \in {"load", "loadNonBG", "boot"}
    /\ InSyscall(c) => call[c] \in AllCalls

(* Until the boot code has made the first thread there is nothing to run.  *)
Booting == call[0] = "boot" /\ pc[0] \in {"wantInit", "init"}

BootFirst ==
  /\ Booting => NumberThreads = 0 /\ launches = 0 /\ array = 0
  /\ NumberThreads = 0 => \A c \in Core : on[c] \notin Stack

(* An interrupt that came before the first thread does not get to the part *)
(* of the handler that looks at threads.                                   *)
Threadless == {"run", "wantPs2", "ps2", "clearBuffer", "wake", "wantSwitch"}

ThreadsSeen ==
  \A c \in Core : \/ pc[c] \in Threadless
                  \/ call[c] = "boot"
                  \/ NumberThreads # 0

(* There is room for the thread that a core is about to make.              *)
RoomForOne ==
  /\ NumberThreads <= launches /\ array <= launches
  /\ \A c \in Core : pc[c] \in {"wantInit", "init"} => launches < MaxLaunches

(* Every used entry has a stack of its own.                                *)
StacksApart ==
  /\ \A s \in Slot : IF s \in Used THEN owner[s] \in 1..launches
                                   ELSE owner[s] = NoStack
  /\ \A r, s \in Used : owner[r] = owner[s] => r = s
  /\ \A c \in Core : on[c] \in Stack => on[c] <= launches

(* What a core finds as the frame of its idle loop.                        *)
IdleFrames ==
  \A c \in Core :
    /\ CoreStackPtrs[c] = IF c = 0 THEN Lost ELSE Idle
    /\ CoreStateList[c] = 4 => pc[c] \in {"run", "fault"} /\ on[c] = CoreStackPtrs[c]

(* A thread is executed by the core it was given to.                       *)
OnItsCore ==
  \A s \in Used, c \in Core : on[c] = owner[s] => ThreadArray[s].CoreUsing = c

(* The frame of a thread is its own or nobody's, in every entry.           *)
OwnFrames == \A s \in Slot : ThreadArray[s].StackPTR \in {owner[s], NoStack}

(* A thread without a frame is not run: its core has faulted on it.        *)
NoFrameNoRun ==
  \A s \in Used :
    ThreadArray[s].StackPTR = NoStack /\ ThreadArray[s].ThreadState = ThreadStateNormal
      => pc[ThreadArray[s].CoreUsing] = "fault"

(* A core that executes a thread and has not yet let go of it has it as    *)
(* its current thread, and the thread is open.                             *)
Working == {"run", "wantSave", "save", "wantSyscall", "dispatch", "wantInit", "init",
            "wantAdopt", "adopt", "wantExit", "exit", "setBuffer", "setGetter",
            "setPaused"}

RunsCurrent ==
  \A c \in Core : on[c] \in Stack /\ pc[c] \in Working =>
    /\ Live(CoreCurrentThreadID[c])
    /\ owner[CoreCurrentThreadID[c]] = on[c]

(* A current thread that looks as if it ran does run.                      *)
CurrentRuns ==
  \A c \in Core :
    LET t == ThreadArray[CoreCurrentThreadID[c]]
    IN  /\ t.CoreUsing = c /\ ~t.FirstStart /\ t.ThreadState = ThreadStateNormal
        /\ pc[c] # "fault"
        => on[c] = owner[CoreCurrentThreadID[c]]

(* System calls come from threads.                                         *)
CallsFromThreads ==
  \A c \in Core :
    \/ InSyscall(c)
    \/ pc[c] = "wantSyscall"
    \/ pc[c] \in {"wantSave", "save"} /\ call[c] # "timer"
    => on[c] \in Stack

CallerPointer ==
  \A c \in Core : InSyscall(c) =>
    /\ ThreadObj[c].slot = CoreCurrentThreadID[c]
    /\ pc[c] \notin {"wantAdopt", "adopt", "endSyscall"} => ThreadObj[c].array = array

IInv ==
  /\ TypeOK
  /\ LocksHeld
  /\ CallFits
  /\ BootFirst
  /\ ThreadsSeen
  /\ RoomForOne
  /\ StacksApart
  /\ IdleFrames
  /\ OneCorePerThread
  /\ OnItsCore
  /\ OwnFrames
  /\ NoFrameNoRun
  /\ RunsCurrent
  /\ CurrentRuns
  /\ CallsFromThreads
  /\ CallerPointer
-----------------------------------------------------------------------------
(* While nobody reads the keyboard, no thread is paused.                   *)
NobodyReads ==
  /\ \A c \in Core : /\ call[c] # "input"
                     /\ pc[c] \notin {"setBuffer", "setGetter", "setPaused",
                                      "clearBuffer", "wake"}
  /\ ~CurrentBuffer

(* Open threads have their own frame; until the start nobody has run them. *)
OpenHasFrame ==
  \A s \in Used : Live(s) =>
    /\ ThreadArray[s].StackPTR = owner[s]
    /\ ThreadArray[s].FirstStart => /\ OffCore(s)
                                    /\ ThreadArray[s].ThreadState = ThreadStateNormal

(* A thread at work is in the normal state. *)
WorkingIsNormal ==
  \A c \in Core, s \in Used :
    on[c] = owner[s] /\ Live(s) /\ pc[c] \in Working
      => ThreadArray[s].ThreadState = ThreadStateNormal

(* Past SaveContext the frame of the interrupted thread is there.          *)
Saved == PCs \ {"run", "fault", "wantSave", "save"}

SavedIsFresh ==
  \A s \in Used : Live(s) /\ ~ThreadArray[s].FirstStart =>
    \/ fresh[owner[s]]
    \/ \E c \in Core : on[c] = owner[s] /\ pc[c] \notin Saved

(* Entries that are not in use are closed.                                *)
UnusedClosed == \A s \in Slot \ Used : ThreadArray[s].ThreadState = ThreadStateClosed

NInv ==
  /\ NobodyReads
  /\ UnusedClosed
  /\ OpenHasFrame
  /\ WorkingIsNormal
  /\ SavedIsFresh
  /\ OnlyFirstCoreFaults

(* The child that LoadAppNonBG has made is open, and not the caller.       *)
ChildOpen ==
  \A c \in Core : pc[c] \in {"wantAdopt", "adopt"} =>
    Live(child[c]) /\ child[c] # CoreCurrentThreadID[c]

(* Nobody but the first program has two children in the foreground.        *)
OneChild ==
  \A r, s \in Used, p \in Used \ {0} :
    /\ Live(r) /\ r # p /\ ThreadArray[r].ThreadParentIndex = p
    /\ Live(s) /\ s # p /\ ThreadArray[s].ThreadParentIndex = p
    => r = s

ParentUsed ==
  \A s \in Used : ThreadArray[s].ThreadParentIndex \in Used \cup {0}

(* A thread that waits has a child that LoadAppNonBG is done with: not one *)
(* that has the first thread as its parent until it is adopted.            *)
BeingAdopted(s) == \E c \in Core : pc[c] \in {"wantAdopt", "adopt"} /\ child[c] = s

WaitsForChild ==
  \A p \in Used : ThreadArray[p].ThreadState = ThreadStateWaiting =>
    \E s \in Used \ {p} :
      Live(s) /\ ThreadArray[s].ThreadParentIndex = p /\ ~BeingAdopted(s)

FInv ==
  /\ ChildOpen
  /\ ParentUsed
  /\ OneChild
  /\ ParentWaits
  /\ WaitsForChild
-----------------------------------------------------------------------------
(* A store into a field of an entry keeps the array an array of threads.   *)
LEMMA StoreTypes ==
  ASSUME NEW A \in [Slot -> Threads], NEW s \in Slot
  PROVE  /\ \A x \in Context : [A EXCEPT ![s].StackPTR = x] \in [Slot -> Threads]
         /\ \A x \in 0..4 : [A EXCEPT ![s].ThreadState = x] \in [Slot -> Threads]
         /\ \A x \in Slot : [A EXCEPT ![s].ThreadParentIndex = x] \in [Slot -> Threads]
         /\ \A x \in BOOLEAN : [A EXCEPT ![s].FirstStart = x] \in [Slot -> Threads]
         /\ \A t \in Threads : [A EXCEPT ![s] = t] \in [Slot -> Threads]
  BY DEF Threads

LEMMA FieldTypes ==
  ASSUME KernelTypes, NEW s \in Slot
  PROVE  /\ ThreadArray[s] \in Threads
         /\ ThreadArray[s].CoreUsing \in Core
         /\ ThreadArray[s].FirstStart \in BOOLEAN
         /\ ThreadArray[s].ThreadState \in 0..4
         /\ ThreadArray[s].ThreadParentIndex \in Slot
         /\ ThreadArray[s].StackPTR \in Context
  BY DEF KernelTypes, Threads

(* The kinds of contexts are told apart.                                   *)
LEMMA ContextKinds ==
  /\ \A k \in Stack : k \in Context /\ k \in Nat /\ k <= MaxLaunches
  /\ Idle \in Context /\ Boot \in Context /\ Lost \in Context /\ NoStack \in Context
  /\ Idle \notin Stack /\ Boot \notin Stack /\ Lost \notin Stack /\ NoStack \notin Stack
  /\ Idle # Lost /\ Lost # NoStack /\ Idle # NoStack
  BY ConstantsAssumption DEF Context, Stack, Idle, Boot, Lost, NoStack

LEMMA StateValues ==
  /\ ThreadStateNormal \in 0..4 /\ ThreadStatePaused \in 0..4
  /\ ThreadStateClosed \in 0..4 /\ ThreadStateWaiting \in 0..4
  /\ ThreadStateRestarting \in 0..4
  /\ ThreadStateNormal # ThreadStatePaused /\ ThreadStateNormal # ThreadStateClosed
  /\ ThreadStateNormal # ThreadStateWaiting /\ ThreadStateNormal # ThreadStateRestarting
  /\ ThreadStateClosed # ThreadStatePaused /\ ThreadStateClosed # ThreadStateWaiting
  /\ ThreadStateClosed # ThreadStateRestarting
  /\ ThreadStateWaiting # ThreadStateRestarting /\ ThreadStateWaiting # ThreadStatePaused
  BY DEF ThreadStateNormal, ThreadStatePaused, ThreadStateClosed,
     ThreadStateWaiting,
         ThreadStateRestarting

(* SaveContext stores the frame in the entry of a thread that looks as if  *)
(* it ran on the core, and nowhere otherwise.                              *)
LooksRunning(c) ==
  LET t == ThreadArray[CoreCurrentThreadID[c]]
  IN  ~t.FirstStart /\ t.CoreUsing = c /\ t.ThreadState = ThreadStateNormal

LEMMA SaveStores ==
  ASSUME NEW c \in Core, SaveContext(c)
  PROVE  \/ /\ LooksRunning(c)
            /\ ThreadArray' = [ThreadArray EXCEPT ![CoreCurrentThreadID[c]].StackPTR = on[c]]
            /\ fresh' = [k \in Stack |-> fresh[k] \/ k = on[c]]
         \/ ~LooksRunning(c) /\ UNCHANGED <<ThreadArray, fresh>>
  BY DEF SaveContext, LooksRunning

LEMMA SetStateTypes ==
  ASSUME KernelTypes, NEW q \in Pointers, NEW st \in 0..4, SetState(q, st)
  PROVE  ThreadArray' \in [Slot -> Threads]
<1>1. q.slot \in Slot
  BY DEF Pointers
<1> QED BY <1>1, StoreTypes DEF SetState, KernelTypes

LEMMA KernelTypesKept ==
  ASSUME KernelTypes, RoomForOne, [Steps]_kernelVars
  PROVE  KernelTypes'
<1> USE DEF KernelTypes, Goto
<1>1. ASSUME NEW c \in Core, Timer(c)
      PROVE  KernelTypes'
  BY <1>1 DEF Timer, Enter, PCs, AllCalls, threadVars, coreVars, lockVars,
     inputVars, callVars
<1>2. ASSUME NEW c \in Core, SaveIdleFrame(c)
      PROVE  KernelTypes'
  BY <1>2
     DEF SaveIdleFrame, PCs, threadVars, coreVars, lockVars, inputVars, callVars
<1>3. ASSUME NEW c \in Core, TakeThreadLock(c)
      PROVE  KernelTypes'
  BY <1>3
     DEF TakeThreadLock, PCs, threadVars, coreVars, lockVars, inputVars, callVars
<1>4. ASSUME NEW c \in Core, TakeSyscallLock(c)
      PROVE  KernelTypes'
  BY <1>4 DEF TakeSyscallLock, Pointers, PCs, threadVars, coreVars, lockVars,
     inputVars, callVars
<1>5. ASSUME NEW c \in Core, TakePs2Lock(c)
      PROVE  KernelTypes'
  BY <1>5 DEF TakePs2Lock, PCs, threadVars, coreVars, lockVars, inputVars, callVars
<1>6. ASSUME NEW c \in Core, SaveContext(c)
      PROVE  KernelTypes'
  <2>1. CoreCurrentThreadID[c] \in Slot /\ on[c] \in Context
    OBVIOUS
  <2>2. ThreadArray' \in [Slot -> Threads]
    <3>1. [ThreadArray EXCEPT ![CoreCurrentThreadID[c]].StackPTR = on[c]] \in [Slot -> Threads]
      BY <2>1, StoreTypes
    <3>2. \/ ThreadArray' = [ThreadArray EXCEPT ![CoreCurrentThreadID[c]].StackPTR = on[c]]
          \/ ThreadArray' = ThreadArray
      BY <1>6, SaveStores
    <3> QED BY <3>1, <3>2
  <2>3. \/ fresh' = [k \in Stack |-> fresh[k] \/ k = on[c]]
        \/ fresh' = fresh
    BY <1>6, SaveStores
  <2>4. \A k \in Stack : (fresh[k] \/ k = on[c]) \in BOOLEAN
    BY Zenon
  <2>5. fresh' \in [Stack -> BOOLEAN]
    BY <2>3, <2>4
  <2> QED BY <1>6, <2>2, <2>5 DEF SaveContext, AfterSave, PCs, coreVars,
             inputVars, callVars
<1>7. ASSUME NEW c \in Core, Dispatch(c)
      PROVE  KernelTypes'
  BY <1>7 DEF Dispatch, PCs, AllCalls, threadVars, coreVars, lockVars, inputVars
<1>8. ASSUME NEW c \in Core, EndSyscall(c)
      PROVE  KernelTypes'
  BY <1>8 DEF EndSyscall, PCs, threadVars, coreVars, lockVars, inputVars, callVars
<1>9. ASSUME NEW c \in Core, InitThread(c)
      PROVE  KernelTypes'
  <2>1. pc[c] = "init" /\ launches + 1 \in Stack /\ launches + 1 \in Context
    BY <1>9, ConstantsAssumption DEF InitThread, RoomForOne, Stack, Context
  <2>2. PICK s \in Slot, d \in Core :
          /\ OpenIndex(s)
          /\ ThreadArray' = [ThreadArray EXCEPT ![s] = NewThread(d, launches + 1)]
          /\ owner' = [owner EXCEPT ![s] = launches + 1]
          /\ child' = [child EXCEPT ![c] = s]
          /\ IF s = NumberThreads
               THEN NumberThreads' = NumberThreads + 1 /\ array' = array + 1
               ELSE UNCHANGED <<NumberThreads, array>>
    BY <1>9 DEF InitThread
  <2>3. NewThread(d, launches + 1) \in Threads
    BY <2>1, ConstantsAssumption, StateValues DEF NewThread, Threads, Slot
  <2>4. ThreadArray' \in [Slot -> Threads] /\ owner' \in [Slot -> Context]
        /\ child' \in [Core -> Slot]
    BY <2>1, <2>2, <2>3, StoreTypes
  <2>5. NumberThreads' \in 0..MaxLaunches /\ array' \in 0..MaxLaunches
        /\ launches' \in 0..MaxLaunches
    BY <1>9, <2>1, <2>2, ConstantsAssumption DEF InitThread, RoomForOne, Slot
  <2> QED BY <1>9, <2>4, <2>5 DEF InitThread, AfterInit, PCs, coreVars, inputVars
<1>10. ASSUME NEW c \in Core, Adopt(c)
      PROVE  KernelTypes'
  <2>1. ThreadObj[c].slot \in Slot /\ child[c] \in Slot
    BY DEF Pointers
  <2>2. CoreCurrentThreadID[ThreadArray[ThreadObj[c].slot].CoreUsing] \in Slot
    BY <2>1, FieldTypes
  <2>3. ThreadArray' \in [Slot -> Threads]
    BY <1>10, <2>1, <2>2, StoreTypes, StateValues DEF Adopt
  <2> QED BY <1>10, <2>3 DEF Adopt, PCs, coreVars, inputVars, callVars
<1>11. ASSUME NEW c \in Core, Exit(c)
      PROVE  KernelTypes'
  <2>1. ThreadObj[c].slot \in Slot
    BY DEF Pointers
  <2>2. ThreadArray[ThreadObj[c].slot].ThreadParentIndex \in Slot
    BY <2>1, FieldTypes
  <2>3. ThreadArray' \in [Slot -> Threads]
    BY <1>11, <2>1, <2>2, StoreTypes, StateValues, ContextKinds DEF Exit
  <2> QED BY <1>11, <2>3 DEF Exit, PCs, coreVars, inputVars, callVars
<1>12. ASSUME NEW c \in Core, SetBuffer(c)
      PROVE  KernelTypes'
  BY <1>12 DEF SetBuffer, PCs, threadVars, coreVars, lockVars, inputVars, callVars
<1>13. ASSUME NEW c \in Core, SetGetter(c)
      PROVE  KernelTypes'
  BY <1>13 DEF SetGetter, PCs, threadVars, coreVars, lockVars, inputVars, callVars
<1>14. ASSUME NEW c \in Core, SetPaused(c)
      PROVE  KernelTypes'
  <2>1. ThreadArray' \in [Slot -> Threads]
    BY <1>14, SetStateTypes, StateValues DEF SetPaused
  <2> QED BY <1>14, <2>1 DEF SetPaused, PCs, coreVars, lockVars, inputVars, callVars
<1>15. ASSUME NEW c \in Core, EndPs2(c)
      PROVE  KernelTypes'
  BY <1>15 DEF EndPs2, PCs, threadVars, coreVars, lockVars, inputVars, callVars
<1>16. ASSUME NEW c \in Core, EnterKey(c)
      PROVE  KernelTypes'
  BY <1>16 DEF EnterKey, PCs, threadVars, coreVars, lockVars, inputVars, callVars
<1>17. ASSUME NEW c \in Core, ClearBuffer(c)
      PROVE  KernelTypes'
  BY <1>17 DEF ClearBuffer, PCs, threadVars, coreVars, lockVars, inputVars, callVars
<1>18. ASSUME NEW c \in Core, Wake(c)
      PROVE  KernelTypes'
  <2>1. ThreadArray' \in [Slot -> Threads]
    BY <1>18, SetStateTypes, StateValues DEF Wake
  <2> QED BY <1>18, <2>1 DEF Wake, PCs, coreVars, inputVars, callVars
<1>19. ASSUME NEW c \in Core, SwitchRestarting(c)
      PROVE  KernelTypes'
  <2>1. PICK s \in Slot :
          /\ Switching(c, s)
          /\ ThreadArray' = [ThreadArray EXCEPT ![s].ThreadState = ThreadStateNormal]
          /\ Restart(c, ThreadArray[s].StackPTR)
          /\ UNCHANGED <<CoreStateList, CoreStackPtrs>>
    BY <1>19 DEF SwitchRestarting
  <2>2. ThreadArray' \in [Slot -> Threads]
    BY <2>1, StoreTypes, StateValues
  <2>3. on' \in [Core -> Context] /\ pc' \in [Core -> PCs] /\ fresh' \in [Stack -> BOOLEAN]
    BY <2>1, ContextKinds, ZenonT(30) DEF Restart, Resume, Derail, PCs
  <2> QED BY <2>1, <2>2, <2>3 DEF Switching, inputVars, callVars
<1>20. ASSUME NEW c \in Core, SwitchFirst(c)
      PROVE  KernelTypes'
  <2>1. PICK s \in Slot :
          /\ Switching(c, s)
          /\ ThreadArray' = [ThreadArray EXCEPT ![s].FirstStart = FALSE]
          /\ on' = [on EXCEPT ![c] = ThreadArray[s].StackPTR]
          /\ Goto(c, "run")
          /\ UNCHANGED <<CoreStateList, CoreStackPtrs, fresh>>
    BY <1>20 DEF SwitchFirst
  <2>2. ThreadArray' \in [Slot -> Threads]
    BY <2>1, StoreTypes, StateValues
  <2>3. on' \in [Core -> Context] /\ pc' \in [Core -> PCs] /\ fresh' \in [Stack -> BOOLEAN]
    BY <2>1, FieldTypes DEF PCs
  <2> QED BY <2>1, <2>2, <2>3 DEF Switching, inputVars, callVars
<1>21. ASSUME NEW c \in Core, SwitchNormal(c)
      PROVE  KernelTypes'
  <2>1. PICK s \in Slot :
          /\ Switching(c, s)
          /\ Restart(c, ThreadArray[s].StackPTR)
          /\ UNCHANGED <<ThreadArray, CoreStateList, CoreStackPtrs>>
    BY <1>21 DEF SwitchNormal
  <2>2. ThreadArray' \in [Slot -> Threads]
    BY <2>1
  <2>3. on' \in [Core -> Context] /\ pc' \in [Core -> PCs] /\ fresh' \in [Stack -> BOOLEAN]
    BY <2>1, ContextKinds, ZenonT(30) DEF Restart, Resume, Derail, PCs
  <2> QED BY <2>1, <2>2, <2>3 DEF Switching, inputVars, callVars
<1>22. ASSUME NEW c \in Core, SwitchIdle(c)
      PROVE  KernelTypes'
  <2>1. PICK s \in Slot :
          /\ Switching(c, s)
          /\ CoreStateList' = [CoreStateList EXCEPT ![c] = 4]
          /\ on' = [on EXCEPT ![c] = CoreStackPtrs[c]]
          /\ IF CoreStackPtrs[c] = Lost THEN Goto(c, "fault") ELSE Goto(c, "run")
          /\ UNCHANGED <<ThreadArray, CoreStackPtrs, fresh>>
    BY <1>22 DEF SwitchIdle
  <2>2. ThreadArray' \in [Slot -> Threads]
    BY <2>1
  <2>3. on' \in [Core -> Context] /\ pc' \in [Core -> PCs] /\ fresh' \in [Stack -> BOOLEAN]
    BY <2>1, FieldTypes DEF PCs
  <2> QED BY <2>1, <2>2, <2>3 DEF Switching, inputVars, callVars
<1>23. ASSUME NEW c \in Core, SwitchNone(c)
      PROVE  KernelTypes'
  BY <1>23 DEF SwitchNone, PCs, threadVars, coreVars, lockVars, inputVars, callVars
<1>24. ASSUME NEW c \in Core, NEW f \in Calls, Syscall(c, f)
      PROVE  KernelTypes'
  BY <1>24, ConstantsAssumption
     DEF Syscall, Enter, PCs, threadVars, coreVars, lockVars, inputVars, callVars
<1>25. CASE UNCHANGED kernelVars
  BY <1>25 DEF kernelVars, threadVars, coreVars, lockVars, inputVars, callVars
<1> QED BY <1>1, <1>2, <1>3, <1>4, <1>5, <1>6, <1>7, <1>8, <1>9, <1>10, <1>11,
           <1>12, <1>13, <1>14, <1>15, <1>16, <1>17, <1>18, <1>19, <1>20,
           <1>21, <1>22, <1>23, <1>24, <1>25 DEF Steps, Step, Interrupt, Take, Handle

(* A tick in a handler changes nothing but nested.                         *)
LEMMA KernelSteps ==
  ASSUME [Next]_vars
  PROVE  [Steps]_kernelVars
<1>1. ASSUME NEW c \in Core, Step(c)
      PROVE  Steps
  BY <1>1 DEF Steps
<1>2. ASSUME NEW c \in Core, NestedTick(c)
      PROVE  UNCHANGED kernelVars
  BY <1>2 DEF NestedTick
<1>3. CASE UNCHANGED vars
  BY <1>3 DEF vars
<1> QED BY <1>1, <1>2, <1>3 DEF Next

LEMMA TypesKept ==
  ASSUME TypeOK, RoomForOne, [Next]_vars
  PROVE  TypeOK'
<1>1. nested' \in [Core -> BOOLEAN]
  BY DEF TypeOK, Next, Goes, NestedTick, vars
<1>2. KernelTypes'
  BY KernelSteps, KernelTypesKept DEF TypeOK
<1> QED BY <1>1, <1>2 DEF TypeOK

LEMMA LocksStayHeld ==
  ASSUME TypeOK, LocksHeld, CallFits, [Steps]_kernelVars
  PROVE  LocksHeld'
<1> USE DEF TypeOK, KernelTypes, LocksHeld, CallFits, InSyscall, UnderThreadLock,
           UnderPs2Lock, Goto, AllCalls
<1>1. ASSUME NEW c \in Core, Timer(c)
      PROVE  LocksHeld'
  BY <1>1 DEF Timer, Enter, threadVars, coreVars, lockVars, inputVars, callVars
<1>2. ASSUME NEW c \in Core, NEW f \in Calls, Syscall(c, f)
      PROVE  LocksHeld'
  BY <1>2 DEF Syscall, Enter, threadVars, coreVars, lockVars, inputVars,
     callVars
<1>3. ASSUME NEW c \in Core,
             TakeThreadLock(c) \/ TakeSyscallLock(c) \/ TakePs2Lock(c)
      PROVE  LocksHeld'
  BY <1>3 DEF TakeThreadLock, TakeSyscallLock, TakePs2Lock, threadVars,
     coreVars, lockVars, inputVars, callVars
<1>4. ASSUME NEW c \in Core, SaveIdleFrame(c) \/ SaveContext(c)
      PROVE  LocksHeld'
  BY <1>4 DEF SaveIdleFrame, SaveContext, AfterSave, threadVars, coreVars,
     lockVars, inputVars, callVars
<1>5. ASSUME NEW c \in Core,
             Dispatch(c) \/ EndSyscall(c) \/ SetBuffer(c) \/ SetGetter(c) \/ SetPaused(c)
      PROVE  LocksHeld'
  BY <1>5 DEF Dispatch, EndSyscall, SetBuffer, SetGetter, SetPaused,
     threadVars, coreVars, lockVars, inputVars, callVars
<1>6. ASSUME NEW c \in Core, InitThread(c)
      PROVE  LocksHeld'
  BY <1>6 DEF InitThread, AfterInit, threadVars, coreVars, lockVars,
     inputVars, callVars
<1>7. ASSUME NEW c \in Core, Adopt(c)
      PROVE  LocksHeld'
  BY <1>7, SMTT(30) DEF Adopt, threadVars, coreVars, lockVars, inputVars, callVars
<1>8. ASSUME NEW c \in Core, Exit(c)
      PROVE  LocksHeld'
  BY <1>8, SMTT(30) DEF Exit, threadVars, coreVars, lockVars, inputVars, callVars
<1>9. ASSUME NEW c \in Core,
             EndPs2(c) \/ EnterKey(c) \/ ClearBuffer(c) \/ Wake(c) \/ SwitchNone(c)
      PROVE  LocksHeld'
  BY <1>9 DEF EndPs2, EnterKey, ClearBuffer, Wake, SwitchNone, threadVars,
     coreVars, lockVars, inputVars, callVars
<1>10. ASSUME NEW c \in Core, SwitchRestarting(c) \/ SwitchNormal(c)
      PROVE  LocksHeld'
  BY <1>10 DEF SwitchRestarting, Switching, Restart, Resume, Derail,
     SwitchNormal, threadVars, coreVars, lockVars, inputVars, callVars
<1>11. ASSUME NEW c \in Core, SwitchFirst(c) \/ SwitchIdle(c)
      PROVE  LocksHeld'
  BY <1>11 DEF SwitchFirst, Switching, SwitchIdle, threadVars, coreVars,
     lockVars, inputVars, callVars
<1>12. CASE UNCHANGED kernelVars
  BY <1>12 DEF kernelVars, threadVars, coreVars, lockVars, inputVars, callVars
<1> QED BY <1>1, <1>2, <1>3, <1>4, <1>5, <1>6, <1>7, <1>8, <1>9, <1>10, <1>11,
     <1>12 DEF Steps, Step, Interrupt, Take, Handle

LEMMA ControlKept ==
  ASSUME TypeOK, CallFits, BootFirst, [Steps]_kernelVars
  PROVE  CallFits'
<1> USE DEF TypeOK, KernelTypes, CallFits, InSyscall, Goto, AllCalls
<1>1. ASSUME NEW c \in Core, Timer(c)
      PROVE  CallFits'
  BY <1>1, ConstantsAssumption DEF Timer, Enter, threadVars, coreVars,
     lockVars, inputVars, callVars
<1>2. ASSUME NEW c \in Core, NEW f \in Calls, Syscall(c, f)
      PROVE  CallFits'
  BY <1>2, ConstantsAssumption DEF Syscall, Enter, threadVars, coreVars,
     lockVars, inputVars, callVars
<1>3. ASSUME NEW c \in Core,
             TakeThreadLock(c) \/ TakeSyscallLock(c) \/ TakePs2Lock(c)
      PROVE  CallFits'
  BY <1>3, ConstantsAssumption DEF TakeThreadLock, TakeSyscallLock,
     TakePs2Lock, threadVars, coreVars, lockVars, inputVars, callVars
<1>4. ASSUME NEW c \in Core, SaveIdleFrame(c) \/ SaveContext(c)
      PROVE  CallFits'
  BY <1>4, ConstantsAssumption DEF SaveIdleFrame, SaveContext, AfterSave,
     threadVars, coreVars, lockVars, inputVars, callVars
<1>5. ASSUME NEW c \in Core,
             Dispatch(c) \/ EndSyscall(c) \/ SetBuffer(c) \/ SetGetter(c) \/ SetPaused(c)
      PROVE  CallFits'
  BY <1>5, ConstantsAssumption DEF Dispatch, EndSyscall, SetBuffer, SetGetter,
     SetPaused, threadVars, coreVars, lockVars, inputVars, callVars
<1>6. ASSUME NEW c \in Core, InitThread(c)
      PROVE  CallFits'
  BY <1>6, ConstantsAssumption DEF InitThread, AfterInit, threadVars,
     coreVars, lockVars, inputVars, callVars
<1>7. ASSUME NEW c \in Core, Adopt(c)
      PROVE  CallFits'
  BY <1>7, ConstantsAssumption DEF Adopt, threadVars, coreVars, lockVars,
     inputVars, callVars
<1>8. ASSUME NEW c \in Core, Exit(c)
      PROVE  CallFits'
  BY <1>8, ConstantsAssumption DEF Exit, threadVars, coreVars, lockVars,
     inputVars, callVars
<1>9. ASSUME NEW c \in Core,
             EndPs2(c) \/ EnterKey(c) \/ ClearBuffer(c) \/ Wake(c) \/ SwitchNone(c)
      PROVE  CallFits'
  BY <1>9, ConstantsAssumption DEF EndPs2, EnterKey, ClearBuffer, Wake,
     SwitchNone, threadVars, coreVars, lockVars, inputVars, callVars
<1>10. ASSUME NEW c \in Core, SwitchRestarting(c) \/ SwitchNormal(c)
      PROVE  CallFits'
  BY <1>10, ConstantsAssumption DEF SwitchRestarting, Switching, Restart,
     Resume, Derail, SwitchNormal, threadVars, coreVars, lockVars, inputVars,
     callVars
<1>11. ASSUME NEW c \in Core, SwitchFirst(c) \/ SwitchIdle(c)
      PROVE  CallFits'
  BY <1>11, ConstantsAssumption DEF SwitchFirst, Switching, SwitchIdle,
     threadVars, coreVars, lockVars, inputVars, callVars
<1>12. CASE UNCHANGED kernelVars
  BY <1>12 DEF kernelVars, threadVars, coreVars, lockVars, inputVars, callVars
<1> QED BY <1>1, <1>2, <1>3, <1>4, <1>5, <1>6, <1>7, <1>8, <1>9, <1>10, <1>11,
     <1>12 DEF Steps, Step, Interrupt, Take, Handle

LEMMA SeenKept ==
  ASSUME TypeOK, CallFits, ThreadsSeen, [Steps]_kernelVars
  PROVE  ThreadsSeen'
<1> USE DEF TypeOK, KernelTypes, CallFits, ThreadsSeen, Threadless, Goto
<1>1. ASSUME NEW c \in Core, Timer(c)
      PROVE  ThreadsSeen'
  BY <1>1, ConstantsAssumption DEF Timer, Enter, threadVars, coreVars,
     lockVars, inputVars, callVars
<1>2. ASSUME NEW c \in Core, NEW f \in Calls, Syscall(c, f)
      PROVE  ThreadsSeen'
  BY <1>2, ConstantsAssumption DEF Syscall, Enter, threadVars, coreVars,
     lockVars, inputVars, callVars
<1>3. ASSUME NEW c \in Core,
             TakeThreadLock(c) \/ TakeSyscallLock(c) \/ TakePs2Lock(c)
      PROVE  ThreadsSeen'
  BY <1>3, ConstantsAssumption DEF TakeThreadLock, TakeSyscallLock,
     TakePs2Lock, threadVars, coreVars, lockVars, inputVars, callVars
<1>4. ASSUME NEW c \in Core, SaveIdleFrame(c) \/ SaveContext(c)
      PROVE  ThreadsSeen'
  BY <1>4, ConstantsAssumption DEF SaveIdleFrame, SaveContext, AfterSave,
     threadVars, coreVars, lockVars, inputVars, callVars
<1>5. ASSUME NEW c \in Core,
             Dispatch(c) \/ EndSyscall(c) \/ SetBuffer(c) \/ SetGetter(c) \/ SetPaused(c)
      PROVE  ThreadsSeen'
  BY <1>5, ConstantsAssumption DEF Dispatch, EndSyscall, SetBuffer, SetGetter,
     SetPaused, threadVars, coreVars, lockVars, inputVars, callVars
<1>6. ASSUME NEW c \in Core, InitThread(c)
      PROVE  ThreadsSeen'
  BY <1>6, ConstantsAssumption DEF InitThread, AfterInit, threadVars,
     coreVars, lockVars, inputVars, callVars
<1>7. ASSUME NEW c \in Core, Adopt(c)
      PROVE  ThreadsSeen'
  BY <1>7, ConstantsAssumption DEF Adopt, threadVars, coreVars, lockVars,
     inputVars, callVars
<1>8. ASSUME NEW c \in Core, Exit(c)
      PROVE  ThreadsSeen'
  BY <1>8, ConstantsAssumption DEF Exit, threadVars, coreVars, lockVars,
     inputVars, callVars
<1>9. ASSUME NEW c \in Core,
             EndPs2(c) \/ EnterKey(c) \/ ClearBuffer(c) \/ Wake(c) \/ SwitchNone(c)
      PROVE  ThreadsSeen'
  BY <1>9, ConstantsAssumption DEF EndPs2, EnterKey, ClearBuffer, Wake,
     SwitchNone, threadVars, coreVars, lockVars, inputVars, callVars
<1>10. ASSUME NEW c \in Core, SwitchRestarting(c) \/ SwitchNormal(c)
      PROVE  ThreadsSeen'
  BY <1>10, ConstantsAssumption DEF SwitchRestarting, Switching, Restart,
     Resume, Derail, SwitchNormal, threadVars, coreVars, lockVars, inputVars,
     callVars
<1>11. ASSUME NEW c \in Core, SwitchFirst(c) \/ SwitchIdle(c)
      PROVE  ThreadsSeen'
  BY <1>11, ConstantsAssumption DEF SwitchFirst, Switching, SwitchIdle,
     threadVars, coreVars, lockVars, inputVars, callVars
<1>12. CASE UNCHANGED kernelVars
  BY <1>12 DEF kernelVars, threadVars, coreVars, lockVars, inputVars, callVars
<1> QED BY <1>1, <1>2, <1>3, <1>4, <1>5, <1>6, <1>7, <1>8, <1>9, <1>10, <1>11,
     <1>12 DEF Steps, Step, Interrupt, Take, Handle

(* One core at a time makes a thread, and no other is in a system call.   *)
LEMMA OneMaker ==
  ASSUME LocksHeld, CallFits, BootFirst, CallsFromThreads,
         NEW c \in Core, NEW d \in Core, pc[c] \in {"wantInit", "init"},
         InSyscall(d) \/ pc[d] \in {"wantInit", "init"}
  PROVE  c = d
<1>1. CASE InSyscall(c) /\ InSyscall(d)
  BY <1>1 DEF LocksHeld
<1>2. ASSUME NEW b \in Core, pc[b] \in {"wantInit", "init"}, ~InSyscall(b)
      PROVE  b = 0 /\ \A e \in Core : ~InSyscall(e)
  <2>1. b = 0 /\ Booting
    BY <1>2 DEF InSyscall, CallFits, Booting
  <2>2. \A e \in Core : on[e] \notin Stack
    BY <2>1 DEF BootFirst
  <2> QED BY <2>1, <2>2 DEF CallsFromThreads
<1> QED BY <1>1, <1>2

LEMMA FirstCore == 0 \in Core
  BY ConstantsAssumption DEF Core

LEMMA BootKept ==
  ASSUME TypeOK, LocksHeld, CallFits, BootFirst, RoomForOne, ThreadsSeen, StacksApart, [Steps]_kernelVars
  PROVE  BootFirst'
<1> USE DEF TypeOK, KernelTypes, CallFits, BootFirst, RoomForOne, ThreadsSeen, Threadless,
           Booting, Goto, InSyscall
<1>1. ASSUME NEW c \in Core, Timer(c)
      PROVE  BootFirst'
  BY <1>1, ConstantsAssumption, ContextKinds, FirstCore DEF Timer, Enter,
     threadVars, coreVars, lockVars, inputVars, callVars
<1>2. ASSUME NEW c \in Core, NEW f \in Calls, Syscall(c, f)
      PROVE  BootFirst'
  BY <1>2, ConstantsAssumption, ContextKinds, FirstCore DEF Syscall, Enter,
     threadVars, coreVars, lockVars, inputVars, callVars
<1>3. ASSUME NEW c \in Core,
             TakeThreadLock(c) \/ TakeSyscallLock(c) \/ TakePs2Lock(c)
      PROVE  BootFirst'
  BY <1>3, ConstantsAssumption, ContextKinds, FirstCore DEF TakeThreadLock,
     TakeSyscallLock, TakePs2Lock, threadVars, coreVars, lockVars, inputVars,
     callVars
<1>4. ASSUME NEW c \in Core, SaveIdleFrame(c) \/ SaveContext(c)
      PROVE  BootFirst'
  BY <1>4, ConstantsAssumption, ContextKinds, FirstCore DEF SaveIdleFrame,
     SaveContext, AfterSave, threadVars, coreVars, lockVars, inputVars,
     callVars
<1>5. ASSUME NEW c \in Core,
             Dispatch(c) \/ EndSyscall(c) \/ SetBuffer(c) \/ SetGetter(c) \/ SetPaused(c)
      PROVE  BootFirst'
  BY <1>5, ConstantsAssumption, ContextKinds, FirstCore DEF Dispatch,
     EndSyscall, SetBuffer, SetGetter, SetPaused, threadVars, coreVars,
     lockVars, inputVars, callVars
<1>6. ASSUME NEW c \in Core, InitThread(c)
      PROVE  BootFirst'
  BY <1>6, ConstantsAssumption, ContextKinds, FirstCore DEF InitThread,
     AfterInit, threadVars, coreVars, lockVars, inputVars, callVars
<1>7. ASSUME NEW c \in Core, Adopt(c)
      PROVE  BootFirst'
  BY <1>7, ConstantsAssumption, ContextKinds, FirstCore DEF Adopt, threadVars,
     coreVars, lockVars, inputVars, callVars
<1>8. ASSUME NEW c \in Core, Exit(c)
      PROVE  BootFirst'
  BY <1>8, ConstantsAssumption, ContextKinds, FirstCore DEF Exit, threadVars,
     coreVars, lockVars, inputVars, callVars
<1>9. ASSUME NEW c \in Core,
             EndPs2(c) \/ EnterKey(c) \/ ClearBuffer(c) \/ Wake(c) \/ SwitchNone(c)
      PROVE  BootFirst'
  BY <1>9, ConstantsAssumption, ContextKinds, FirstCore DEF EndPs2, EnterKey,
     ClearBuffer, Wake, SwitchNone, threadVars, coreVars, lockVars, inputVars,
     callVars
<1>10. ASSUME NEW c \in Core, SwitchRestarting(c) \/ SwitchNormal(c)
      PROVE  BootFirst'
  BY <1>10, ConstantsAssumption, ContextKinds, FirstCore DEF SwitchRestarting,
     Switching, Restart, Resume, Derail, SwitchNormal, threadVars, coreVars,
     lockVars, inputVars, callVars
<1>11. ASSUME NEW c \in Core, SwitchFirst(c) \/ SwitchIdle(c)
      PROVE  BootFirst'
  BY <1>11, ConstantsAssumption, ContextKinds, FirstCore DEF SwitchFirst,
     Switching, SwitchIdle, threadVars, coreVars, lockVars, inputVars, callVars
<1>12. CASE UNCHANGED kernelVars
  BY <1>12 DEF kernelVars, threadVars, coreVars, lockVars, inputVars, callVars
<1> QED BY <1>1, <1>2, <1>3, <1>4, <1>5, <1>6, <1>7, <1>8, <1>9, <1>10, <1>11,
     <1>12 DEF Steps, Step, Interrupt, Take, Handle

LEMMA RoomKept ==
  ASSUME TypeOK, LocksHeld, CallFits, BootFirst, CallsFromThreads, RoomForOne, [Steps]_kernelVars
  PROVE  RoomForOne'
<1> USE DEF TypeOK, KernelTypes, CallFits, BootFirst, RoomForOne, Goto
<1>1. ASSUME NEW c \in Core, Timer(c)
      PROVE  RoomForOne'
  BY <1>1, ConstantsAssumption DEF Timer, Enter, threadVars, coreVars,
     lockVars, inputVars, callVars
<1>2. ASSUME NEW c \in Core, NEW f \in Calls, Syscall(c, f)
      PROVE  RoomForOne'
  BY <1>2, ConstantsAssumption DEF Syscall, Enter, threadVars, coreVars,
     lockVars, inputVars, callVars
<1>3. ASSUME NEW c \in Core,
             TakeThreadLock(c) \/ TakeSyscallLock(c) \/ TakePs2Lock(c)
      PROVE  RoomForOne'
  BY <1>3, ConstantsAssumption DEF TakeThreadLock, TakeSyscallLock,
     TakePs2Lock, threadVars, coreVars, lockVars, inputVars, callVars
<1>4. ASSUME NEW c \in Core, SaveIdleFrame(c) \/ SaveContext(c)
      PROVE  RoomForOne'
  BY <1>4, ConstantsAssumption DEF SaveIdleFrame, SaveContext, AfterSave,
     threadVars, coreVars, lockVars, inputVars, callVars
<1>5. ASSUME NEW c \in Core,
             Dispatch(c) \/ EndSyscall(c) \/ SetBuffer(c) \/ SetGetter(c) \/ SetPaused(c)
      PROVE  RoomForOne'
  BY <1>5, ConstantsAssumption DEF Dispatch, EndSyscall, SetBuffer, SetGetter,
     SetPaused, threadVars, coreVars, lockVars, inputVars, callVars
<1>6. ASSUME NEW c \in Core, InitThread(c)
      PROVE  RoomForOne'
  <2>1. \A d \in Core : pc[d] \in {"wantInit", "init"} => c = d
    BY <1>6, OneMaker DEF InitThread
  <2>2. \A d \in Core : pc'[d] \notin {"wantInit", "init"}
    BY <1>6, <2>1 DEF InitThread, AfterInit
  <2>3. NumberThreads' <= launches' /\ array' <= launches'
    BY <1>6, ConstantsAssumption DEF InitThread
  <2> QED BY <2>2, <2>3
<1>7. ASSUME NEW c \in Core, Adopt(c)
      PROVE  RoomForOne'
  BY <1>7, ConstantsAssumption DEF Adopt, threadVars, coreVars, lockVars,
     inputVars, callVars
<1>8. ASSUME NEW c \in Core, Exit(c)
      PROVE  RoomForOne'
  BY <1>8, ConstantsAssumption DEF Exit, threadVars, coreVars, lockVars,
     inputVars, callVars
<1>9. ASSUME NEW c \in Core,
             EndPs2(c) \/ EnterKey(c) \/ ClearBuffer(c) \/ Wake(c) \/ SwitchNone(c)
      PROVE  RoomForOne'
  BY <1>9, ConstantsAssumption DEF EndPs2, EnterKey, ClearBuffer, Wake,
     SwitchNone, threadVars, coreVars, lockVars, inputVars, callVars
<1>10. ASSUME NEW c \in Core, SwitchRestarting(c) \/ SwitchNormal(c)
      PROVE  RoomForOne'
  BY <1>10, ConstantsAssumption DEF SwitchRestarting, Switching, Restart,
     Resume, Derail, SwitchNormal, threadVars, coreVars, lockVars, inputVars,
     callVars
<1>11. ASSUME NEW c \in Core, SwitchFirst(c) \/ SwitchIdle(c)
      PROVE  RoomForOne'
  BY <1>11, ConstantsAssumption DEF SwitchFirst, Switching, SwitchIdle,
     threadVars, coreVars, lockVars, inputVars, callVars
<1>12. CASE UNCHANGED kernelVars
  BY <1>12 DEF kernelVars, threadVars, coreVars, lockVars, inputVars, callVars
<1> QED BY <1>1, <1>2, <1>3, <1>4, <1>5, <1>6, <1>7, <1>8, <1>9, <1>10, <1>11,
     <1>12 DEF Steps, Step, Interrupt, Take, Handle

LEMMA IdleKept ==
  ASSUME TypeOK, IdleFrames, [Steps]_kernelVars
  PROVE  IdleFrames'
<1> USE DEF TypeOK, KernelTypes, IdleFrames, Goto
<1>1. ASSUME NEW c \in Core, Timer(c)
      PROVE  IdleFrames'
  BY <1>1, ConstantsAssumption, ContextKinds DEF Timer, Enter, threadVars,
     coreVars, lockVars, inputVars, callVars
<1>2. ASSUME NEW c \in Core, NEW f \in Calls, Syscall(c, f)
      PROVE  IdleFrames'
  BY <1>2, ConstantsAssumption, ContextKinds DEF Syscall, Enter, threadVars,
     coreVars, lockVars, inputVars, callVars
<1>3. ASSUME NEW c \in Core,
             TakeThreadLock(c) \/ TakeSyscallLock(c) \/ TakePs2Lock(c)
      PROVE  IdleFrames'
  BY <1>3, ConstantsAssumption, ContextKinds DEF TakeThreadLock,
     TakeSyscallLock, TakePs2Lock, threadVars, coreVars, lockVars, inputVars,
     callVars
<1>4. ASSUME NEW c \in Core, SaveIdleFrame(c) \/ SaveContext(c)
      PROVE  IdleFrames'
  BY <1>4, ConstantsAssumption, ContextKinds DEF SaveIdleFrame, SaveContext,
     AfterSave, threadVars, coreVars, lockVars, inputVars, callVars
<1>5. ASSUME NEW c \in Core,
             Dispatch(c) \/ EndSyscall(c) \/ SetBuffer(c) \/ SetGetter(c) \/ SetPaused(c)
      PROVE  IdleFrames'
  BY <1>5, ConstantsAssumption, ContextKinds DEF Dispatch, EndSyscall,
     SetBuffer, SetGetter, SetPaused, threadVars, coreVars, lockVars,
     inputVars, callVars
<1>6. ASSUME NEW c \in Core, InitThread(c)
      PROVE  IdleFrames'
  BY <1>6, ConstantsAssumption, ContextKinds DEF InitThread, AfterInit,
     threadVars, coreVars, lockVars, inputVars, callVars
<1>7. ASSUME NEW c \in Core, Adopt(c)
      PROVE  IdleFrames'
  BY <1>7, ConstantsAssumption, ContextKinds DEF Adopt, threadVars, coreVars,
     lockVars, inputVars, callVars
<1>8. ASSUME NEW c \in Core, Exit(c)
      PROVE  IdleFrames'
  BY <1>8, ConstantsAssumption, ContextKinds DEF Exit, threadVars, coreVars,
     lockVars, inputVars, callVars
<1>9. ASSUME NEW c \in Core,
             EndPs2(c) \/ EnterKey(c) \/ ClearBuffer(c) \/ Wake(c) \/ SwitchNone(c)
      PROVE  IdleFrames'
  BY <1>9, ConstantsAssumption, ContextKinds DEF EndPs2, EnterKey,
     ClearBuffer, Wake, SwitchNone, threadVars, coreVars, lockVars, inputVars,
     callVars
<1>10. ASSUME NEW c \in Core, SwitchRestarting(c) \/ SwitchNormal(c)
      PROVE  IdleFrames'
  BY <1>10, ConstantsAssumption, ContextKinds DEF SwitchRestarting, Switching,
     Restart, Resume, Derail, SwitchNormal, threadVars, coreVars, lockVars,
     inputVars, callVars
<1>11. ASSUME NEW c \in Core, SwitchFirst(c) \/ SwitchIdle(c)
      PROVE  IdleFrames'
  BY <1>11, ConstantsAssumption, ContextKinds DEF SwitchFirst, Switching,
     SwitchIdle, threadVars, coreVars, lockVars, inputVars, callVars
<1>12. CASE UNCHANGED kernelVars
  BY <1>12 DEF kernelVars, threadVars, coreVars, lockVars, inputVars, callVars
<1> QED BY <1>1, <1>2, <1>3, <1>4, <1>5, <1>6, <1>7, <1>8, <1>9, <1>10, <1>11,
     <1>12 DEF Steps, Step, Interrupt, Take, Handle

LEMMA CallsKept ==
  ASSUME TypeOK, LocksHeld, CallFits, CallsFromThreads, [Steps]_kernelVars
  PROVE  CallsFromThreads'
<1> USE DEF TypeOK, KernelTypes, CallFits, CallsFromThreads, InSyscall, Goto, AllCalls
<1>1. ASSUME NEW c \in Core, Timer(c)
      PROVE  CallsFromThreads'
  BY <1>1 DEF Timer, Enter, threadVars, coreVars, lockVars, inputVars, callVars
<1>2. ASSUME NEW c \in Core, NEW f \in Calls, Syscall(c, f)
      PROVE  CallsFromThreads'
  BY <1>2 DEF Syscall, Enter, threadVars, coreVars, lockVars, inputVars,
     callVars
<1>3. ASSUME NEW c \in Core,
             TakeThreadLock(c) \/ TakeSyscallLock(c) \/ TakePs2Lock(c)
      PROVE  CallsFromThreads'
  BY <1>3 DEF TakeThreadLock, TakeSyscallLock, TakePs2Lock, threadVars,
     coreVars, lockVars, inputVars, callVars
<1>4. ASSUME NEW c \in Core, SaveIdleFrame(c) \/ SaveContext(c)
      PROVE  CallsFromThreads'
  BY <1>4 DEF SaveIdleFrame, SaveContext, AfterSave, threadVars, coreVars,
     lockVars, inputVars, callVars
<1>5. ASSUME NEW c \in Core,
             Dispatch(c) \/ EndSyscall(c) \/ SetBuffer(c) \/ SetGetter(c) \/ SetPaused(c)
      PROVE  CallsFromThreads'
  BY <1>5 DEF Dispatch, EndSyscall, SetBuffer, SetGetter, SetPaused,
     threadVars, coreVars, lockVars, inputVars, callVars
<1>6. ASSUME NEW c \in Core, InitThread(c)
      PROVE  CallsFromThreads'
  BY <1>6 DEF InitThread, AfterInit, threadVars, coreVars, lockVars,
     inputVars, callVars
<1>7. ASSUME NEW c \in Core, Adopt(c)
      PROVE  CallsFromThreads'
  BY <1>7 DEF Adopt, threadVars, coreVars, lockVars, inputVars, callVars
<1>8. ASSUME NEW c \in Core, Exit(c)
      PROVE  CallsFromThreads'
  BY <1>8 DEF Exit, threadVars, coreVars, lockVars, inputVars, callVars
<1>9. ASSUME NEW c \in Core,
             EndPs2(c) \/ EnterKey(c) \/ ClearBuffer(c) \/ Wake(c) \/ SwitchNone(c)
      PROVE  CallsFromThreads'
  BY <1>9 DEF EndPs2, EnterKey, ClearBuffer, Wake, SwitchNone, threadVars,
     coreVars, lockVars, inputVars, callVars
<1>10. ASSUME NEW c \in Core, SwitchRestarting(c) \/ SwitchNormal(c)
      PROVE  CallsFromThreads'
  BY <1>10 DEF SwitchRestarting, Switching, Restart, Resume, Derail,
     SwitchNormal, threadVars, coreVars, lockVars, inputVars, callVars
<1>11. ASSUME NEW c \in Core, SwitchFirst(c) \/ SwitchIdle(c)
      PROVE  CallsFromThreads'
  BY <1>11 DEF SwitchFirst, Switching, SwitchIdle, threadVars, coreVars,
     lockVars, inputVars, callVars
<1>12. CASE UNCHANGED kernelVars
  BY <1>12 DEF kernelVars, threadVars, coreVars, lockVars, inputVars, callVars
<1> QED BY <1>1, <1>2, <1>3, <1>4, <1>5, <1>6, <1>7, <1>8, <1>9, <1>10, <1>11,
     <1>12 DEF Steps, Step, Interrupt, Take, Handle

LEMMA PointerKept ==
  ASSUME TypeOK, LocksHeld, CallFits, BootFirst, CallsFromThreads, CallerPointer, [Steps]_kernelVars
  PROVE  CallerPointer'
<1> USE DEF TypeOK, KernelTypes, CallFits, CallsFromThreads, CallerPointer, InSyscall, Goto,
           Pointers
<1>1. ASSUME NEW c \in Core, Timer(c)
      PROVE  CallerPointer'
  BY <1>1 DEF Timer, Enter, threadVars, coreVars, lockVars, inputVars, callVars
<1>2. ASSUME NEW c \in Core, NEW f \in Calls, Syscall(c, f)
      PROVE  CallerPointer'
  BY <1>2 DEF Syscall, Enter, threadVars, coreVars, lockVars, inputVars,
     callVars
<1>3. ASSUME NEW c \in Core,
             TakeThreadLock(c) \/ TakeSyscallLock(c) \/ TakePs2Lock(c)
      PROVE  CallerPointer'
  BY <1>3 DEF TakeThreadLock, TakeSyscallLock, TakePs2Lock, threadVars,
     coreVars, lockVars, inputVars, callVars
<1>4. ASSUME NEW c \in Core, SaveIdleFrame(c) \/ SaveContext(c)
      PROVE  CallerPointer'
  BY <1>4 DEF SaveIdleFrame, SaveContext, AfterSave, threadVars, coreVars,
     lockVars, inputVars, callVars
<1>5. ASSUME NEW c \in Core,
             Dispatch(c) \/ EndSyscall(c) \/ SetBuffer(c) \/ SetGetter(c) \/ SetPaused(c)
      PROVE  CallerPointer'
  BY <1>5 DEF Dispatch, EndSyscall, SetBuffer, SetGetter, SetPaused,
     threadVars, coreVars, lockVars, inputVars, callVars
<1>6. ASSUME NEW c \in Core, InitThread(c)
      PROVE  CallerPointer'
  <2>1. \A d \in Core : InSyscall(d) => c = d
    BY <1>6, OneMaker DEF InitThread
  <2>2. \A d \in Core : InSyscall(d)' => c = d
    BY <1>6, <2>1 DEF InitThread
  <2> QED BY <1>6, <2>2 DEF InitThread, AfterInit, coreVars
<1>7. ASSUME NEW c \in Core, Adopt(c)
      PROVE  CallerPointer'
  BY <1>7 DEF Adopt, threadVars, coreVars, lockVars, inputVars, callVars
<1>8. ASSUME NEW c \in Core, Exit(c)
      PROVE  CallerPointer'
  BY <1>8 DEF Exit, threadVars, coreVars, lockVars, inputVars, callVars
<1>9. ASSUME NEW c \in Core,
             EndPs2(c) \/ EnterKey(c) \/ ClearBuffer(c) \/ Wake(c) \/ SwitchNone(c)
      PROVE  CallerPointer'
  BY <1>9 DEF EndPs2, EnterKey, ClearBuffer, Wake, SwitchNone, threadVars,
     coreVars, lockVars, inputVars, callVars
<1>10. ASSUME NEW c \in Core, SwitchRestarting(c) \/ SwitchNormal(c)
      PROVE  CallerPointer'
  BY <1>10 DEF SwitchRestarting, Switching, Restart, Resume, Derail,
     SwitchNormal, threadVars, coreVars, lockVars, inputVars, callVars
<1>11. ASSUME NEW c \in Core, SwitchFirst(c) \/ SwitchIdle(c)
      PROVE  CallerPointer'
  BY <1>11 DEF SwitchFirst, Switching, SwitchIdle, threadVars, coreVars,
     lockVars, inputVars, callVars
<1>12. CASE UNCHANGED kernelVars
  BY <1>12 DEF kernelVars, threadVars, coreVars, lockVars, inputVars, callVars
<1> QED BY <1>1, <1>2, <1>3, <1>4, <1>5, <1>6, <1>7, <1>8, <1>9, <1>10, <1>11,
     <1>12 DEF Steps, Step, Interrupt, Take, Handle

-----------------------------------------------------------------------------
(***************************************************************************)
(* What a step does to the threads, entry by entry.  The proofs below      *)
(* split over these nine kinds of steps instead of all actions.            *)
(***************************************************************************)
SameCore(s)   == ThreadArray'[s].CoreUsing = ThreadArray[s].CoreUsing
SameFirst(s)  == ThreadArray'[s].FirstStart = ThreadArray[s].FirstStart
SameState(s)  == ThreadArray'[s].ThreadState = ThreadArray[s].ThreadState
SameParent(s) == ThreadArray'[s].ThreadParentIndex = ThreadArray[s].ThreadParentIndex
SameStack(s)  == ThreadArray'[s].StackPTR = ThreadArray[s].StackPTR

OthersStay(c) == \A d \in Core \ {c} : pc'[d] = pc[d]

entryVars == <<NumberThreads, owner, launches>>

(* No entry changes; a core that starts to work on a thread goes through   *)
(* SwitchTask, and one that faults does so there.                          *)
Quiet ==
  /\ UNCHANGED <<ThreadArray, entryVars, CoreCurrentThreadID, on, fresh, child>>
  /\ \A c \in Core :
       /\ pc'[c] = "fault" <=> pc[c] = "fault"
       /\ pc'[c] \in Working => pc[c] \in Working \/ NumberThreads = 0
       /\ pc[c] \notin Saved => pc'[c] \notin Saved \/ NumberThreads = 0
       /\ pc'[c] \in {"wantAdopt", "adopt"} => pc[c] \in {"wantAdopt", "adopt"}

(* SaveContext. *)
Saves(c) ==
  /\ pc[c] = "save" /\ pc'[c] \in {"wantPs2", "wantSyscall"} /\ OthersStay(c)
  /\ UNCHANGED <<entryVars, CoreCurrentThreadID, on, child>>
  /\ \A s \in Slot : SameCore(s) /\ SameFirst(s) /\ SameState(s) /\ SameParent(s)
  /\ \/ /\ LooksRunning(c)
        /\ \A s \in Slot : IF s = CoreCurrentThreadID[c]
                             THEN ThreadArray'[s].StackPTR = on[c]
                             ELSE SameStack(s)
        /\ \A k \in Stack : fresh'[k] <=> fresh[k] \/ k = on[c]
     \/ /\ ~LooksRunning(c)
        /\ \A s \in Slot : SameStack(s)
        /\ fresh' = fresh

(* InitThread, in entry s. *)
Makes(c, s) ==
  /\ pc[c] = "init" /\ pc'[c] \in {"run", "endSyscall", "wantAdopt"} /\ OthersStay(c)
  /\ pc'[c] = "wantAdopt" => call[c] # "boot"
  /\ OpenIndex(s)
  /\ ThreadArray'[s].CoreUsing \in Core
  /\ ThreadArray'[s].FirstStart
  /\ ThreadArray'[s].ThreadState = ThreadStateNormal
  /\ ThreadArray'[s].ThreadParentIndex = 0
  /\ ThreadArray'[s].StackPTR = launches + 1
  /\ \A r \in Slot \ {s} : ThreadArray'[r] = ThreadArray[r]
  /\ \A r \in Slot : owner'[r] = IF r = s THEN launches + 1 ELSE owner[r]
  /\ NumberThreads' = IF s = NumberThreads THEN NumberThreads + 1 ELSE NumberThreads
  /\ launches' = launches + 1
  /\ child'[c] = s /\ \A d \in Core \ {c} : child'[d] = child[d]
  /\ UNCHANGED <<CoreCurrentThreadID, on, fresh>>

(* Adopt: p waits for ch. *)
Adopts(c, p, ch) ==
  /\ pc[c] = "adopt" /\ pc'[c] = "endSyscall" /\ OthersStay(c)
  /\ p = CoreCurrentThreadID[ThreadArray[ThreadObj[c].slot].CoreUsing]
  /\ ch = child[c]
  /\ UNCHANGED <<entryVars, CoreCurrentThreadID, on, fresh, child>>
  /\ \A s \in Slot : SameCore(s) /\ SameFirst(s) /\ SameStack(s)
  /\ \A s \in Slot :
       /\ IF s = p THEN ThreadArray'[s].ThreadState = ThreadStateWaiting ELSE SameState(s)
       /\ IF s = ch THEN ThreadArray'[s].ThreadParentIndex = p ELSE SameParent(s)

(* Exit of the thread in entry s. *)
Exits(c, s) ==
  /\ pc[c] = "exit" /\ pc'[c] = "endSyscall" /\ OthersStay(c)
  /\ s = ThreadObj[c].slot
  /\ UNCHANGED <<entryVars, CoreCurrentThreadID, on, fresh, child>>
  /\ \A r \in Slot : SameCore(r) /\ SameFirst(r) /\ SameParent(r)
  /\ \A r \in Slot :
       IF r = s
         THEN /\ ThreadArray'[r].ThreadState = ThreadStateClosed
              /\ ThreadArray'[r].StackPTR = NoStack
         ELSE /\ SameStack(r)
              /\ IF /\ r = ThreadArray[s].ThreadParentIndex
                    /\ ThreadArray[r].ThreadState = ThreadStateWaiting
                   THEN ThreadArray'[r].ThreadState = ThreadStateRestarting
                   ELSE SameState(r)

(* SetPaused, Wake: a thread is paused or restarts. *)
Pauses(c) ==
  /\ \/ pc[c] = "setPaused" /\ pc'[c] = "endSyscall"
     \/ pc[c] = "wake" /\ pc'[c] = "wantSwitch"
  /\ OthersStay(c)
  /\ UNCHANGED <<entryVars, CoreCurrentThreadID, on, fresh, child>>
  /\ \A s \in Slot : SameCore(s) /\ SameFirst(s) /\ SameParent(s) /\ SameStack(s)
  /\ \A s \in Slot :
       \/ SameState(s)
       \/ ThreadArray'[s].ThreadState \in {ThreadStatePaused, ThreadStateRestarting}

(* SwitchTask: the core comes to the thread in entry s and runs it, or     *)
(* faults on its frame, or goes back to its idle loop.                     *)
SwitchesTo(c, s) ==
  /\ pc[c] = "switch" /\ OthersStay(c)
  /\ UNCHANGED <<entryVars, child>>
  /\ CoreCurrentThreadID'[c] = s
  /\ \A d \in Core \ {c} : CoreCurrentThreadID'[d] = CoreCurrentThreadID[d]
                           /\ on'[d] = on[d]
  /\ \A r \in Slot : SameCore(r) /\ SameParent(r) /\ SameStack(r)
  /\ \A r \in Slot \ {s} : SameState(r) /\ SameFirst(r)

RunsThread(c, s) ==
  /\ SwitchesTo(c, s)
  /\ pc'[c] = "run"
  /\ ThreadArray[s].CoreUsing = c
  /\ on'[c] = ThreadArray[s].StackPTR
  /\ ThreadArray'[s].ThreadState = ThreadStateNormal
  /\ \/ /\ ThreadArray[s].FirstStart /\ ~ThreadArray'[s].FirstStart
        /\ ThreadArray[s].ThreadState = ThreadStateNormal
        /\ fresh' = fresh
     \/ /\ SameFirst(s)
        /\ \/ ThreadArray[s].ThreadState = ThreadStateRestarting
           \/ ThreadArray[s].ThreadState = ThreadStateNormal /\ ~ThreadArray[s].FirstStart
        /\ ThreadArray[s].StackPTR \in Stack
        /\ \A k \in Stack : fresh'[k] <=> fresh[k] /\ k # ThreadArray[s].StackPTR

Faults(c, s) ==
  /\ SwitchesTo(c, s)
  /\ pc'[c] = "fault" /\ on'[c] = Lost
  /\ ThreadArray[s].CoreUsing = c
  /\ SameFirst(s)
  /\ ThreadArray'[s].ThreadState = ThreadStateNormal
  /\ \/ ThreadArray[s].ThreadState = ThreadStateRestarting
     \/ ThreadArray[s].ThreadState = ThreadStateNormal /\ ~ThreadArray[s].FirstStart
  /\ ~(ThreadArray[s].StackPTR \in Stack /\ fresh[ThreadArray[s].StackPTR])
  /\ fresh' = fresh

GoesIdle(c, s) ==
  /\ SwitchesTo(c, s)
  /\ SameState(s) /\ SameFirst(s)
  /\ \/ ThreadArray[s].CoreUsing # c
     \/ ThreadArray[s].ThreadState \notin {ThreadStateNormal, ThreadStateRestarting}
  /\ on'[c] = CoreStackPtrs[c]
  /\ pc'[c] = IF CoreStackPtrs[c] = Lost THEN "fault" ELSE "run"
  /\ fresh' = fresh

Changes(c) ==
  \/ Saves(c) \/ Pauses(c)
  \/ \E s \in Slot : \/ Makes(c, s) \/ Exits(c, s)
                     \/ \E r \in Slot : Adopts(c, r, s)
                     \/ RunsThread(c, s) \/ Faults(c, s) \/ GoesIdle(c, s)

LEMMA SaveIsSaves ==
  ASSUME TypeOK, NEW c \in Core, SaveContext(c)
  PROVE  Saves(c)
<1> USE DEF TypeOK, KernelTypes
<1>1. /\ pc[c] = "save" /\ pc'[c] \in {"wantPs2", "wantSyscall"} /\ OthersStay(c)
      /\ UNCHANGED <<entryVars, CoreCurrentThreadID, on, child>>
  BY DEF SaveContext, Goto, AfterSave, OthersStay, entryVars, coreVars, callVars
<1>2. CoreCurrentThreadID[c] \in Slot
  OBVIOUS
<1>3. CASE LooksRunning(c)
  <2>1. ThreadArray' = [ThreadArray EXCEPT ![CoreCurrentThreadID[c]].StackPTR = on[c]]
    BY <1>3, SaveStores
  <2>2. fresh' = [k \in Stack |-> fresh[k] \/ k = on[c]]
    BY <1>3, SaveStores
  <2>3. \A k \in Stack : fresh'[k] <=> fresh[k] \/ k = on[c]
    BY <2>2, Zenon
  <2>4. \A s \in Slot : ThreadArray[s] \in Threads
    OBVIOUS
  <2>5. \A s \in Slot : SameCore(s) /\ SameFirst(s) /\ SameState(s) /\ SameParent(s)
    BY <1>2, <2>1, <2>4 DEF SameCore, SameFirst, SameState, SameParent, Threads
  <2>6. \A s \in Slot : IF s = CoreCurrentThreadID[c]
                          THEN ThreadArray'[s].StackPTR = on[c] ELSE SameStack(s)
    BY <1>2, <2>1, <2>4 DEF SameStack, Threads
  <2> QED BY <1>1, <1>3, <2>3, <2>5, <2>6, Zenon DEF Saves
<1>4. CASE ~LooksRunning(c)
  <2>1. UNCHANGED <<ThreadArray, fresh>>
    BY <1>4, SaveStores
  <2>2. \A s \in Slot : SameCore(s) /\ SameFirst(s) /\ SameState(s) /\ SameParent(s)
    BY <2>1 DEF SameCore, SameFirst, SameState, SameParent
  <2>3. \A s \in Slot : SameStack(s)
    BY <2>1 DEF SameStack
  <2>4. fresh' = fresh
    BY <2>1
  <2> QED BY <1>1, <1>4, <2>2, <2>3, <2>4, Zenon DEF Saves
<1> QED BY <1>3, <1>4

LEMMA InitMakes ==
  ASSUME TypeOK, NEW c \in Core, InitThread(c)
  PROVE  \E s \in Slot : Makes(c, s)
<1> USE DEF TypeOK, KernelTypes
<1>1. PICK s \in Slot, d \in Core :
        /\ OpenIndex(s)
        /\ ThreadArray' = [ThreadArray EXCEPT ![s] = NewThread(d, launches + 1)]
        /\ owner' = [owner EXCEPT ![s] = launches + 1]
        /\ child' = [child EXCEPT ![c] = s]
        /\ IF s = NumberThreads
             THEN NumberThreads' = NumberThreads + 1 /\ array' = array + 1
             ELSE UNCHANGED <<NumberThreads, array>>
  BY DEF InitThread
<1>2. ThreadArray'[s] = NewThread(d, launches + 1)
      /\ \A r \in Slot \ {s} : ThreadArray'[r] = ThreadArray[r]
  BY <1>1
<1>3. /\ pc[c] = "init" /\ pc'[c] \in {"run", "endSyscall", "wantAdopt"} /\ OthersStay(c)
      /\ pc'[c] = "wantAdopt" => call[c] # "boot"
      /\ launches' = launches + 1
      /\ UNCHANGED <<CoreCurrentThreadID, on, fresh>>
  BY DEF InitThread, AfterInit, Goto, OthersStay, coreVars
<1>4. Makes(c, s)
  BY <1>1, <1>2, <1>3 DEF Makes, NewThread
<1> QED BY <1>4

LEMMA AdoptAdopts ==
  ASSUME TypeOK, NEW c \in Core, Adopt(c)
  PROVE  \E s, p \in Slot : Adopts(c, p, s)
<1> USE DEF TypeOK, KernelTypes
<1> DEFINE p == CoreCurrentThreadID[ThreadArray[ThreadObj[c].slot].CoreUsing]
<1>1. ThreadObj[c].slot \in Slot /\ child[c] \in Slot
  BY DEF Pointers
<1>2. p \in Slot
  BY <1>1, FieldTypes
<1>3. ThreadArray' = [ThreadArray EXCEPT ![child[c]].ThreadParentIndex = p,
                                         ![p].ThreadState = ThreadStateWaiting]
  BY DEF Adopt
<1>4. \A s \in Slot : ThreadArray[s] \in Threads
  OBVIOUS
<1> HIDE DEF p
<1>5. \A s \in Slot :
        /\ SameCore(s) /\ SameFirst(s) /\ SameStack(s)
        /\ IF s = p THEN ThreadArray'[s].ThreadState = ThreadStateWaiting ELSE SameState(s)
        /\ IF s = child[c] THEN ThreadArray'[s].ThreadParentIndex = p ELSE SameParent(s)
  BY <1>1, <1>2, <1>3, <1>4
     DEF SameCore, SameFirst, SameState, SameParent, SameStack, Threads
<1>6. /\ pc[c] = "adopt" /\ pc'[c] = "endSyscall" /\ OthersStay(c)
      /\ UNCHANGED <<entryVars, CoreCurrentThreadID, on, fresh, child>>
  BY DEF Adopt, Goto, OthersStay, entryVars, coreVars, callVars
<1>7. Adopts(c, p, child[c])
  BY <1>5, <1>6 DEF Adopts, p
<1> QED BY <1>1, <1>2, <1>7

LEMMA ExitExits ==
  ASSUME TypeOK, NEW c \in Core, Exit(c)
  PROVE  \E s \in Slot : Exits(c, s)
<1> USE DEF TypeOK, KernelTypes
<1> DEFINE s == ThreadObj[c].slot
           p == ThreadArray[s].ThreadParentIndex
           closed == [ThreadArray EXCEPT ![s].ThreadState = ThreadStateClosed,
                                         ![s].StackPTR = NoStack]
<1>1. s \in Slot
  BY DEF Pointers
<1>2. p \in Slot
  BY <1>1, FieldTypes
<1>3. ThreadArray' = IF closed[p].ThreadState = ThreadStateWaiting
                       THEN [closed EXCEPT ![p].ThreadState = ThreadStateRestarting]
                       ELSE closed
  BY DEF Exit
<1>4. \A r \in Slot : ThreadArray[r] \in Threads
  OBVIOUS
<1>5. /\ pc[c] = "exit" /\ pc'[c] = "endSyscall" /\ OthersStay(c)
      /\ UNCHANGED <<entryVars, CoreCurrentThreadID, on, fresh, child>>
  BY DEF Exit, Goto, OthersStay, entryVars, coreVars, callVars
<1>6. p = ThreadArray[s].ThreadParentIndex /\ s = ThreadObj[c].slot
  OBVIOUS
<1>7. closed \in [Slot -> Threads]
      /\ \A r \in Slot :
           /\ closed[r].CoreUsing = ThreadArray[r].CoreUsing
           /\ closed[r].FirstStart = ThreadArray[r].FirstStart
           /\ closed[r].ThreadParentIndex = ThreadArray[r].ThreadParentIndex
           /\ IF r = s THEN /\ closed[r].ThreadState = ThreadStateClosed
                            /\ closed[r].StackPTR = NoStack
                       ELSE closed[r] = ThreadArray[r]
  <2> HIDE DEF s
  <2>1. closed \in [Slot -> Threads]
    BY <1>1, StoreTypes, StateValues, ContextKinds
  <2> QED BY <1>1, <1>4, <2>1 DEF Threads
<1> HIDE DEF s, p, closed
<1>8. \A r \in Slot :
        /\ SameCore(r) /\ SameFirst(r) /\ SameParent(r)
        /\ ThreadArray'[r].StackPTR = closed[r].StackPTR
        /\ IF r = p /\ closed[r].ThreadState = ThreadStateWaiting
             THEN ThreadArray'[r].ThreadState = ThreadStateRestarting
             ELSE ThreadArray'[r].ThreadState = closed[r].ThreadState
  BY <1>2, <1>3, <1>7, SMTT(30) DEF SameCore, SameFirst, SameParent, Threads
<1>9. \A r \in Slot :
        IF r = s
          THEN /\ ThreadArray'[r].ThreadState = ThreadStateClosed
               /\ ThreadArray'[r].StackPTR = NoStack
          ELSE /\ SameStack(r)
               /\ IF r = p /\ ThreadArray[r].ThreadState = ThreadStateWaiting
                    THEN ThreadArray'[r].ThreadState = ThreadStateRestarting
                    ELSE SameState(r)
  BY <1>7, <1>8, StateValues DEF SameStack, SameState
<1>10. Exits(c, s)
  BY <1>5, <1>6, <1>8, <1>9 DEF Exits
<1> QED BY <1>1, <1>10

LEMMA StatePauses ==
  ASSUME TypeOK, NEW c \in Core, SetPaused(c) \/ Wake(c)
  PROVE  Pauses(c)
<1> USE DEF TypeOK, KernelTypes
<1>1. PICK st \in {ThreadStatePaused, ThreadStateRestarting} : SetState(ThreadGetingInput, st)
  BY DEF SetPaused, Wake
<1>2. ThreadGetingInput.slot \in Slot /\ \A s \in Slot : ThreadArray[s] \in Threads
  BY DEF Pointers
<1>3. \A s \in Slot :
        /\ SameCore(s) /\ SameFirst(s) /\ SameParent(s) /\ SameStack(s)
        /\ SameState(s) \/ ThreadArray'[s].ThreadState = st
  BY <1>1, <1>2
     DEF SetState, SameCore, SameFirst, SameState, SameParent, SameStack, Threads
<1>4. /\ \/ pc[c] = "setPaused" /\ pc'[c] = "endSyscall"
         \/ pc[c] = "wake" /\ pc'[c] = "wantSwitch"
      /\ OthersStay(c)
      /\ UNCHANGED <<entryVars, CoreCurrentThreadID, on, fresh, child>>
  BY DEF SetPaused, Wake, Goto, OthersStay, entryVars, coreVars, callVars
<1> QED BY <1>3, <1>4 DEF Pauses

LEMMA SwitchSwitches ==
  ASSUME TypeOK, NEW c \in Core,
         SwitchRestarting(c) \/ SwitchFirst(c) \/ SwitchNormal(c) \/ SwitchIdle(c)
  PROVE  \E s \in Slot : RunsThread(c, s) \/ Faults(c, s) \/ GoesIdle(c, s)
<1> USE DEF TypeOK, KernelTypes
<1>1. ASSUME NEW s \in Slot, Switching(c, s)
      PROVE  /\ pc[c] = "switch"
             /\ UNCHANGED <<entryVars, child>>
             /\ CoreCurrentThreadID'[c] = s
             /\ \A d \in Core \ {c} : CoreCurrentThreadID'[d] = CoreCurrentThreadID[d]
  BY <1>1 DEF Switching, entryVars, callVars
<1>2. \A s \in Slot : ThreadArray[s] \in Threads
  OBVIOUS
<1>3. ASSUME NEW s \in Slot, Restart(c, ThreadArray[s].StackPTR)
      PROVE  /\ OthersStay(c) /\ \A d \in Core \ {c} : on'[d] = on[d]
             /\ \/ /\ pc'[c] = "run" /\ on'[c] = ThreadArray[s].StackPTR
                   /\ ThreadArray[s].StackPTR \in Stack
                   /\ \A k \in Stack : fresh'[k] <=> fresh[k] /\ k # ThreadArray[s].StackPTR
                \/ /\ pc'[c] = "fault" /\ on'[c] = Lost
                   /\ ~(ThreadArray[s].StackPTR \in Stack /\ fresh[ThreadArray[s].StackPTR])
                   /\ fresh' = fresh
  <2>1. CASE Resume(c, ThreadArray[s].StackPTR)
    BY <2>1 DEF Resume, Goto, OthersStay
  <2>2. CASE Derail(c, ThreadArray[s].StackPTR)
    BY <2>2 DEF Derail, Goto, OthersStay
  <2> QED BY <1>3, <2>1, <2>2 DEF Restart
<1>4. CASE SwitchRestarting(c)
  <2>1. PICK s \in Slot :
          /\ Switching(c, s)
          /\ ThreadArray[s].CoreUsing = c
          /\ ThreadArray[s].ThreadState = ThreadStateRestarting
          /\ ThreadArray' = [ThreadArray EXCEPT ![s].ThreadState = ThreadStateNormal]
          /\ Restart(c, ThreadArray[s].StackPTR)
    BY <1>4 DEF SwitchRestarting
  <2>2. /\ \A r \in Slot : SameCore(r) /\ SameParent(r) /\ SameStack(r) /\ SameFirst(r)
        /\ \A r \in Slot \ {s} : SameState(r)
        /\ ThreadArray'[s].ThreadState = ThreadStateNormal
    BY <1>2, <2>1 DEF SameCore, SameFirst, SameState, SameParent, SameStack, Threads
  <2>3. SwitchesTo(c, s)
    BY <1>1, <1>3, <2>1, <2>2 DEF SwitchesTo
  <2> QED BY <1>3, <2>1, <2>2, <2>3 DEF RunsThread, Faults
<1>5. CASE SwitchFirst(c)
  <2>1. PICK s \in Slot :
          /\ Switching(c, s)
          /\ ThreadArray[s].CoreUsing = c
          /\ ThreadArray[s].ThreadState = ThreadStateNormal
          /\ ThreadArray[s].FirstStart
          /\ ThreadArray' = [ThreadArray EXCEPT ![s].FirstStart = FALSE]
          /\ on' = [on EXCEPT ![c] = ThreadArray[s].StackPTR]
          /\ Goto(c, "run")
          /\ fresh' = fresh
    BY <1>5 DEF SwitchFirst
  <2>2. /\ \A r \in Slot : SameCore(r) /\ SameParent(r) /\ SameStack(r) /\ SameState(r)
        /\ \A r \in Slot \ {s} : SameFirst(r)
        /\ ~ThreadArray'[s].FirstStart
    BY <1>2, <2>1 DEF SameCore, SameFirst, SameState, SameParent, SameStack, Threads
  <2>3. SwitchesTo(c, s)
    BY <1>1, <2>1, <2>2 DEF SwitchesTo, Goto, OthersStay
  <2> QED BY <2>1, <2>2, <2>3 DEF RunsThread, Goto, SameState
<1>6. CASE SwitchNormal(c)
  <2>1. PICK s \in Slot :
          /\ Switching(c, s)
          /\ ThreadArray[s].CoreUsing = c
          /\ ThreadArray[s].ThreadState = ThreadStateNormal
          /\ ~ThreadArray[s].FirstStart
          /\ Restart(c, ThreadArray[s].StackPTR)
          /\ ThreadArray' = ThreadArray
    BY <1>6 DEF SwitchNormal
  <2>2. \A r \in Slot : /\ SameCore(r) /\ SameParent(r) /\ SameStack(r)
                        /\ SameFirst(r) /\ SameState(r)
    BY <2>1 DEF SameCore, SameFirst, SameState, SameParent, SameStack
  <2>3. SwitchesTo(c, s)
    BY <1>1, <1>3, <2>1, <2>2 DEF SwitchesTo
  <2> QED BY <1>3, <2>1, <2>2, <2>3 DEF RunsThread, Faults, SameState
<1>7. CASE SwitchIdle(c)
  <2>1. PICK s \in Slot :
          /\ Switching(c, s)
          /\ \/ ThreadArray[s].CoreUsing # c
             \/ ThreadArray[s].ThreadState \notin {ThreadStateNormal, ThreadStateRestarting}
          /\ on' = [on EXCEPT ![c] = CoreStackPtrs[c]]
          /\ IF CoreStackPtrs[c] = Lost THEN Goto(c, "fault") ELSE Goto(c, "run")
          /\ UNCHANGED <<ThreadArray, fresh>>
    BY <1>7 DEF SwitchIdle
  <2>2. \A r \in Slot : /\ SameCore(r) /\ SameParent(r) /\ SameStack(r)
                        /\ SameFirst(r) /\ SameState(r)
    BY <2>1 DEF SameCore, SameFirst, SameState, SameParent, SameStack
  <2>3. SwitchesTo(c, s)
    BY <1>1, <2>1, <2>2 DEF SwitchesTo, Goto, OthersStay
  <2> QED BY <2>1, <2>2, <2>3 DEF GoesIdle, Goto
<1> QED BY <1>4, <1>5, <1>6, <1>7

LEMMA QuietSteps ==
  ASSUME TypeOK, NEW c \in Core,
         \/ Timer(c) \/ SaveIdleFrame(c) \/ Take(c) \/ Dispatch(c) \/ EndSyscall(c)
         \/ SetBuffer(c) \/ SetGetter(c) \/ EndPs2(c) \/ EnterKey(c) \/ ClearBuffer(c)
         \/ SwitchNone(c) \/ \E f \in Calls : Syscall(c, f)
  PROVE  Quiet
<1> USE DEF TypeOK, KernelTypes, Quiet, Goto, Working, Saved, PCs, entryVars, threadVars,
           coreVars,
            callVars
<1>1. CASE Timer(c) \/ SaveIdleFrame(c) \/ \E f \in Calls : Syscall(c, f)
  BY <1>1 DEF Timer, SaveIdleFrame, Syscall, Enter
<1>2. CASE TakeThreadLock(c)
  BY <1>2 DEF TakeThreadLock
<1>3. CASE TakeSyscallLock(c) \/ TakePs2Lock(c)
  BY <1>3 DEF TakeSyscallLock, TakePs2Lock
<1>4. CASE Dispatch(c) \/ EndSyscall(c) \/ SetBuffer(c) \/ SetGetter(c)
  BY <1>4 DEF Dispatch, EndSyscall, SetBuffer, SetGetter
<1>5. CASE EndPs2(c) \/ EnterKey(c) \/ ClearBuffer(c) \/ SwitchNone(c)
  BY <1>5 DEF EndPs2, EnterKey, ClearBuffer, SwitchNone
<1> QED BY <1>1, <1>2, <1>3, <1>4, <1>5 DEF Take

LEMMA StepKinds ==
  ASSUME TypeOK, [Steps]_kernelVars
  PROVE  Quiet \/ \E c \in Core : Changes(c)
<1>1. CASE UNCHANGED kernelVars
  BY <1>1 DEF kernelVars, Quiet, entryVars, threadVars, coreVars, callVars
<1>2. ASSUME NEW c \in Core, Interrupt(c) \/ Take(c) \/ \E f \in Calls : Syscall(c, f)
      PROVE  Quiet
  BY <1>2, QuietSteps DEF Interrupt
<1>3. ASSUME NEW c \in Core, Handle(c)
      PROVE  Quiet \/ Changes(c)
  <2>1. CASE SaveContext(c) \/ SetPaused(c) \/ Wake(c)
    BY <2>1, SaveIsSaves, StatePauses DEF Changes
  <2>2. CASE InitThread(c) \/ Adopt(c) \/ Exit(c)
    BY <2>2, InitMakes, AdoptAdopts, ExitExits DEF Changes
  <2>3. CASE SwitchRestarting(c) \/ SwitchFirst(c) \/ SwitchNormal(c) \/ SwitchIdle(c)
    BY <2>3, SwitchSwitches DEF Changes
  <2>4. CASE \/ Dispatch(c) \/ EndSyscall(c) \/ SetBuffer(c) \/ SetGetter(c)
             \/ EndPs2(c) \/ EnterKey(c) \/ ClearBuffer(c) \/ SwitchNone(c)
    BY <2>4, QuietSteps
  <2> QED BY <1>3, <2>1, <2>2, <2>3, <2>4 DEF Handle
<1> QED BY <1>1, <1>2, <1>3 DEF Steps, Step

(* What SwitchTask lets a core run is the stack of a used entry.           *)
LEMMA RunsOwnStack ==
  ASSUME StacksApart, OwnFrames, NEW c \in Core, NEW s \in Slot, RunsThread(c, s)
  PROVE  on'[c] = NoStack \/ (s \in Used /\ on'[c] = owner[s])
  BY DEF StacksApart, OwnFrames, RunsThread

(* Where SwitchTask goes when nothing is to be run is nobody's stack.      *)
LEMMA IdleIsNoStack ==
  ASSUME IdleFrames, NEW c \in Core
  PROVE  CoreStackPtrs[c] \in {Idle, Lost} /\ CoreStackPtrs[c] \notin Stack
  BY ContextKinds DEF IdleFrames

(* A new thread gets an entry that was closed, or one more, and a stack    *)
(* that nobody has.                                                        *)
LEMMA MadeEntry ==
  ASSUME TypeOK, StacksApart, RoomForOne, NEW c \in Core, NEW s \in Slot, Makes(c, s)
  PROVE  /\ s \notin Used \/ ThreadArray[s].ThreadState = ThreadStateClosed
         /\ Used' = Used \cup {s}
         /\ launches + 1 \in Stack
         /\ \A r \in Used : owner[r] # launches + 1
         /\ \A d \in Core : on[d] # launches + 1
<1> USE DEF Makes
<1>1. NumberThreads \in Nat /\ \A r \in Slot : r \in Nat
  BY ConstantsAssumption DEF TypeOK, KernelTypes, Slot
<1>2. s \notin Used \/ ThreadArray[s].ThreadState = ThreadStateClosed
  BY <1>1 DEF OpenIndex, ClosedSlots, Used
<1>3. s = NumberThreads \/ s \in Used
  BY DEF OpenIndex, ClosedSlots
<1>4. Used' = Used \cup {s}
  BY <1>1, <1>3 DEF Used
<1>5. launches \in Nat /\ launches + 1 \in Stack
  BY ConstantsAssumption DEF RoomForOne, TypeOK, KernelTypes, Stack
<1>6. \A r \in Used : owner[r] # launches + 1
  BY <1>5 DEF StacksApart, Used
<1>7. \A d \in Core : on[d] # launches + 1
  BY <1>5 DEF StacksApart
<1> QED BY <1>2, <1>4, <1>5, <1>6, <1>7

LEMMA StacksStayApart ==
  ASSUME TypeOK, StacksApart, RoomForOne, OwnFrames, IdleFrames, [Steps]_kernelVars
  PROVE  StacksApart'
<1> USE DEF TypeOK, KernelTypes, StacksApart, Used
<1>1. CASE Quiet
  BY <1>1, ContextKinds DEF Quiet, entryVars
<1>2. ASSUME NEW c \in Core, Saves(c)
      PROVE  StacksApart'
  BY <1>2, ContextKinds DEF Saves, OthersStay, entryVars
<1>3. ASSUME NEW c \in Core, Pauses(c)
      PROVE  StacksApart'
  BY <1>3, ContextKinds DEF Pauses, OthersStay, entryVars
<1>4. ASSUME NEW c \in Core, NEW s \in Slot, Makes(c, s)
      PROVE  StacksApart'
  <2>1. launches \in Nat /\ \A r \in Used : owner[r] \in 1..launches
    BY ConstantsAssumption
  <2>2. owner'[s] = launches + 1 /\ \A r \in Slot \ {s} : owner'[r] = owner[r]
    BY <1>4 DEF Makes
  <2>3. \A r \in Slot : IF r \in Used' THEN owner'[r] \in 1..launches' ELSE owner'[r] = NoStack
    <3>1. Used' = Used \cup {s} /\ launches' = launches + 1
      BY <1>4, MadeEntry DEF Makes
    <3> QED BY <2>1, <2>2, <3>1
  <2>4. \A q, r \in Used' : owner'[q] = owner'[r] => q = r
    BY <1>4, <2>2, MadeEntry
  <2>5. \A d \in Core : on'[d] \in Stack => on'[d] <= launches'
    BY <1>4, <2>1, ContextKinds DEF Makes
  <2> QED BY <2>3, <2>4, <2>5
<1>5. ASSUME NEW c \in Core, NEW p \in Slot, NEW ch \in Slot, Adopts(c, p, ch)
      PROVE  StacksApart'
  BY <1>5, ContextKinds DEF Adopts, OthersStay, entryVars
<1>6. ASSUME NEW c \in Core, NEW s \in Slot, Exits(c, s)
      PROVE  StacksApart'
  BY <1>6, ContextKinds DEF Exits, OthersStay, entryVars
<1>7. ASSUME NEW c \in Core, NEW s \in Slot, RunsThread(c, s)
      PROVE  StacksApart'
  <2>1. on'[c] \in Stack => on'[c] <= launches
    BY <1>7, RunsOwnStack, ContextKinds
  <2> QED BY <1>7, <2>1 DEF RunsThread, SwitchesTo, entryVars
<1>8. ASSUME NEW c \in Core, NEW s \in Slot, Faults(c, s)
      PROVE  StacksApart'
  BY <1>8, ContextKinds DEF Faults, SwitchesTo, OthersStay, entryVars
<1>9. ASSUME NEW c \in Core, NEW s \in Slot, GoesIdle(c, s)
      PROVE  StacksApart'
  BY <1>9, IdleIsNoStack DEF GoesIdle, SwitchesTo, entryVars
<1> QED BY <1>1, <1>2, <1>3, <1>4, <1>5, <1>6, <1>7, <1>8, <1>9,
     StepKinds DEF Changes

LEMMA OneCoreKept ==
  ASSUME TypeOK, StacksApart, OwnFrames, OnItsCore, OneCorePerThread,
     IdleFrames, [Steps]_kernelVars
  PROVE  OneCorePerThread'
<1> USE DEF TypeOK, KernelTypes, OneCorePerThread
<1>1. CASE Quiet
  BY <1>1, ContextKinds DEF Quiet, entryVars
<1>2. ASSUME NEW c \in Core, Saves(c)
      PROVE  OneCorePerThread'
  BY <1>2, ContextKinds DEF Saves, OthersStay, entryVars
<1>3. ASSUME NEW c \in Core, Pauses(c)
      PROVE  OneCorePerThread'
  BY <1>3, ContextKinds DEF Pauses, OthersStay, entryVars
<1>4. ASSUME NEW c \in Core, NEW s \in Slot, Makes(c, s)
      PROVE  OneCorePerThread'
  BY <1>4, ContextKinds DEF Makes, OthersStay
<1>5. ASSUME NEW c \in Core, NEW p \in Slot, NEW ch \in Slot, Adopts(c, p, ch)
      PROVE  OneCorePerThread'
  BY <1>5, ContextKinds DEF Adopts, OthersStay, entryVars
<1>6. ASSUME NEW c \in Core, NEW s \in Slot, Exits(c, s)
      PROVE  OneCorePerThread'
  BY <1>6, ContextKinds DEF Exits, OthersStay, entryVars
<1>7. ASSUME NEW c \in Core, NEW s \in Slot, RunsThread(c, s)
      PROVE  OneCorePerThread'
  <2>1. \A d \in Core : on[d] = on'[c] /\ on'[c] \in Stack => d = c
    BY <1>7, RunsOwnStack, ContextKinds DEF OnItsCore, RunsThread
  <2> QED BY <1>7, <2>1 DEF RunsThread, SwitchesTo
<1>8. ASSUME NEW c \in Core, NEW s \in Slot, Faults(c, s)
      PROVE  OneCorePerThread'
  BY <1>8, ContextKinds DEF Faults, SwitchesTo, OthersStay, entryVars
<1>9. ASSUME NEW c \in Core, NEW s \in Slot, GoesIdle(c, s)
      PROVE  OneCorePerThread'
  BY <1>9, IdleIsNoStack DEF GoesIdle, SwitchesTo
<1> QED BY <1>1, <1>2, <1>3, <1>4, <1>5, <1>6, <1>7, <1>8, <1>9,
     StepKinds DEF Changes

LEMMA UsedStacks ==
  ASSUME TypeOK, StacksApart
  PROVE  /\ \A r \in Used : r \in Slot /\ owner[r] \in Stack
         /\ \A r, s \in Used : owner[r] = owner[s] => r = s
         /\ NoStack \notin Stack
  BY ContextKinds, ConstantsAssumption DEF TypeOK, KernelTypes, StacksApart, Used, Stack

LEMMA OnItsCoreKept ==
  ASSUME TypeOK, StacksApart, RoomForOne, OwnFrames, OnItsCore, IdleFrames,
     [Steps]_kernelVars
  PROVE  OnItsCore'
<1> USE DEF OnItsCore, SameCore
<1>1. CASE Quiet
  BY <1>1, UsedStacks DEF Quiet, entryVars, Used
<1>2. ASSUME NEW c \in Core, Saves(c)
      PROVE  OnItsCore'
  BY <1>2, UsedStacks DEF Saves, OthersStay, entryVars, Used
<1>3. ASSUME NEW c \in Core, Pauses(c)
      PROVE  OnItsCore'
  BY <1>3, UsedStacks DEF Pauses, OthersStay, entryVars, Used
<1>4. ASSUME NEW c \in Core, NEW s \in Slot, Makes(c, s)
      PROVE  OnItsCore'
  <2>1. \A r \in Used', d \in Core : on'[d] = owner'[r] => r # s /\ r \in Used
    BY <1>4, MadeEntry DEF Makes, Used
  <2> QED BY <1>4, <2>1 DEF Makes, Used
<1>5. ASSUME NEW c \in Core, NEW p \in Slot, NEW ch \in Slot, Adopts(c, p, ch)
      PROVE  OnItsCore'
  BY <1>5, UsedStacks DEF Adopts, OthersStay, entryVars, Used
<1>6. ASSUME NEW c \in Core, NEW s \in Slot, Exits(c, s)
      PROVE  OnItsCore'
  BY <1>6, UsedStacks DEF Exits, OthersStay, entryVars, Used
<1>7. ASSUME NEW c \in Core, NEW s \in Slot, RunsThread(c, s)
      PROVE  OnItsCore'
  <2>1. \A r \in Used : on'[c] = owner[r] => r = s
    BY <1>7, RunsOwnStack, UsedStacks
  <2> QED BY <1>7, <2>1 DEF RunsThread, SwitchesTo, entryVars, Used
<1>8. ASSUME NEW c \in Core, NEW s \in Slot, Faults(c, s)
      PROVE  OnItsCore'
  <2>1. \A r \in Used : on'[c] # owner[r]
    BY <1>8, UsedStacks, ContextKinds DEF Faults
  <2> QED BY <1>8, <2>1 DEF Faults, SwitchesTo, entryVars, Used
<1>9. ASSUME NEW c \in Core, NEW s \in Slot, GoesIdle(c, s)
      PROVE  OnItsCore'
  <2>1. \A r \in Used : on'[c] # owner[r]
    BY <1>9, IdleIsNoStack, UsedStacks DEF GoesIdle
  <2> QED BY <1>9, <2>1 DEF GoesIdle, SwitchesTo, entryVars, Used
<1> QED BY <1>1, <1>2, <1>3, <1>4, <1>5, <1>6, <1>7, <1>8, <1>9,
     StepKinds DEF Changes

LEMMA OwnFramesKept ==
  ASSUME TypeOK, StacksApart, OwnFrames, CurrentRuns, [Steps]_kernelVars
  PROVE  OwnFrames'
<1> USE DEF OwnFrames, SameStack
<1>1. CASE Quiet
  BY <1>1 DEF Quiet, entryVars
<1>2. ASSUME NEW c \in Core, Saves(c)
      PROVE  OwnFrames'
  <2>1. CASE LooksRunning(c)
    <3>1. on[c] = owner[CoreCurrentThreadID[c]]
      BY <1>2, <2>1 DEF CurrentRuns, LooksRunning, Saves
    <3> QED BY <1>2, <2>1, <3>1 DEF Saves, entryVars
  <2>2. CASE ~LooksRunning(c)
    BY <1>2, <2>2 DEF Saves, entryVars
  <2> QED BY <2>1, <2>2
<1>3. ASSUME NEW c \in Core, Pauses(c)
      PROVE  OwnFrames'
  BY <1>3 DEF Pauses, OthersStay, entryVars
<1>4. ASSUME NEW c \in Core, NEW s \in Slot, Makes(c, s)
      PROVE  OwnFrames'
  BY <1>4 DEF Makes, OthersStay
<1>5. ASSUME NEW c \in Core, NEW p \in Slot, NEW ch \in Slot, Adopts(c, p, ch)
      PROVE  OwnFrames'
  BY <1>5 DEF Adopts, OthersStay, entryVars
<1>6. ASSUME NEW c \in Core, NEW s \in Slot, Exits(c, s)
      PROVE  OwnFrames'
  BY <1>6 DEF Exits, OthersStay, entryVars
<1>7. ASSUME NEW c \in Core, NEW s \in Slot, RunsThread(c, s)
      PROVE  OwnFrames'
  BY <1>7 DEF RunsThread, SwitchesTo, OthersStay, entryVars
<1>8. ASSUME NEW c \in Core, NEW s \in Slot, Faults(c, s)
      PROVE  OwnFrames'
  BY <1>8 DEF Faults, SwitchesTo, OthersStay, entryVars
<1>9. ASSUME NEW c \in Core, NEW s \in Slot, GoesIdle(c, s)
      PROVE  OwnFrames'
  BY <1>9 DEF GoesIdle, SwitchesTo, OthersStay, entryVars
<1> QED BY <1>1, <1>2, <1>3, <1>4, <1>5, <1>6, <1>7, <1>8, <1>9,
     StepKinds DEF Changes

(* A core that adopts or exits does so for the thread it executes.         *)
LEMMA CallerRuns ==
  ASSUME CallFits, CallsFromThreads, CallerPointer, RunsCurrent,
         NEW c \in Core, pc[c] \in {"wantAdopt", "adopt", "wantExit", "exit"}
  PROVE  /\ on[c] \in Stack
         /\ ThreadObj[c].slot = CoreCurrentThreadID[c]
         /\ Live(CoreCurrentThreadID[c])
         /\ owner[CoreCurrentThreadID[c]] = on[c]
<1>1. InSyscall(c)
  BY DEF CallFits, InSyscall
<1>2. on[c] \in Stack
  BY <1>1 DEF CallsFromThreads
<1> QED BY <1>1, <1>2 DEF CallerPointer, RunsCurrent, Working

LEMMA NoFrameKept ==
  ASSUME TypeOK, StacksApart, RoomForOne, OwnFrames, CurrentRuns,
     NoFrameNoRun, [Steps]_kernelVars
  PROVE  NoFrameNoRun'
<1> USE DEF NoFrameNoRun, SameCore, SameState, SameStack
<1>1. CASE Quiet
  <2>1. \A r \in Used : r \in Slot /\ ThreadArray[r].CoreUsing \in Core
    BY UsedStacks, FieldTypes DEF TypeOK
  <2> QED BY <1>1, <2>1 DEF Quiet, entryVars, Used
<1>2. ASSUME NEW c \in Core, Saves(c)
      PROVE  NoFrameNoRun'
  <2>1. \A r \in Used : r \in Slot /\ ThreadArray[r].CoreUsing \in Core
    BY UsedStacks, FieldTypes DEF TypeOK
  <2>2. \A d \in Core : pc[d] = "fault" => pc'[d] = "fault"
    BY <1>2 DEF Saves, OthersStay
  <2>3. \A r \in Used : ThreadArray'[r].StackPTR = NoStack => SameStack(r)
    <3>1. LooksRunning(c) => on[c] = owner[CoreCurrentThreadID[c]]
      BY <1>2 DEF CurrentRuns, LooksRunning, Saves
    <3> QED BY <1>2, <3>1, <2>1, UsedStacks DEF Saves
  <2> QED BY <1>2, <2>1, <2>2, <2>3 DEF Saves, entryVars, Used
<1>3. ASSUME NEW c \in Core, Pauses(c)
      PROVE  NoFrameNoRun'
  <2>1. \A r \in Used : r \in Slot /\ ThreadArray[r].CoreUsing \in Core
    BY UsedStacks, FieldTypes DEF TypeOK
  <2>2. \A d \in Core : pc[d] = "fault" => pc'[d] = "fault"
    BY <1>3 DEF Pauses, OthersStay
  <2> QED BY <1>3, <2>1, <2>2, StateValues DEF Pauses, entryVars, Used
<1>4. ASSUME NEW c \in Core, NEW s \in Slot, Makes(c, s)
      PROVE  NoFrameNoRun'
  <2>1. \A r \in Used : r \in Slot /\ ThreadArray[r].CoreUsing \in Core
    BY UsedStacks, FieldTypes DEF TypeOK
  <2>2. \A d \in Core : pc[d] = "fault" => pc'[d] = "fault"
    BY <1>4 DEF Makes, OthersStay
  <2>3. ThreadArray'[s].StackPTR # NoStack
    BY <1>4, MadeEntry, UsedStacks DEF Makes
  <2>4. \A r \in Used' : r # s => r \in Used /\ ThreadArray'[r] = ThreadArray[r]
    BY <1>4, <2>1, MadeEntry DEF Makes
  <2> QED BY <2>1, <2>2, <2>3, <2>4
<1>5. ASSUME NEW c \in Core, NEW p \in Slot, NEW ch \in Slot, Adopts(c, p, ch)
      PROVE  NoFrameNoRun'
  <2>1. \A r \in Used : r \in Slot /\ ThreadArray[r].CoreUsing \in Core
    BY UsedStacks, FieldTypes DEF TypeOK
  <2>2. \A d \in Core : pc[d] = "fault" => pc'[d] = "fault"
    BY <1>5 DEF Adopts, OthersStay
  <2> QED BY <1>5, <2>1, <2>2, StateValues DEF Adopts, entryVars, Used
<1>6. ASSUME NEW c \in Core, NEW s \in Slot, Exits(c, s)
      PROVE  NoFrameNoRun'
  <2>1. \A r \in Used : r \in Slot /\ ThreadArray[r].CoreUsing \in Core
    BY UsedStacks, FieldTypes DEF TypeOK
  <2>2. \A d \in Core : pc[d] = "fault" => pc'[d] = "fault"
    BY <1>6 DEF Exits, OthersStay
  <2> QED BY <1>6, <2>1, <2>2, StateValues DEF Exits, entryVars, Used
<1>7. ASSUME NEW c \in Core, NEW s \in Slot, RunsThread(c, s)
      PROVE  NoFrameNoRun'
  <2>1. \A r \in Used : r \in Slot /\ ThreadArray[r].CoreUsing \in Core
    BY UsedStacks, FieldTypes DEF TypeOK
  <2>2. \A d \in Core : pc[d] = "fault" => pc'[d] = "fault"
    BY <1>7 DEF RunsThread, SwitchesTo, OthersStay
  <2>3. s \in Used => ThreadArray[s].StackPTR # NoStack
    BY <1>7, StateValues, UsedStacks DEF RunsThread, SwitchesTo
  <2> QED BY <1>7, <2>1, <2>2, <2>3 DEF RunsThread, SwitchesTo, entryVars, Used
<1>8. ASSUME NEW c \in Core, NEW s \in Slot, Faults(c, s)
      PROVE  NoFrameNoRun'
  <2>1. \A r \in Used : r \in Slot /\ ThreadArray[r].CoreUsing \in Core
    BY UsedStacks, FieldTypes DEF TypeOK
  <2>2. \A d \in Core : pc[d] = "fault" => pc'[d] = "fault"
    BY <1>8 DEF Faults, SwitchesTo, OthersStay
  <2> QED BY <1>8, <2>1, <2>2 DEF Faults, SwitchesTo, entryVars, Used
<1>9. ASSUME NEW c \in Core, NEW s \in Slot, GoesIdle(c, s)
      PROVE  NoFrameNoRun'
  <2>1. \A r \in Used : r \in Slot /\ ThreadArray[r].CoreUsing \in Core
    BY UsedStacks, FieldTypes DEF TypeOK
  <2>2. \A d \in Core : pc[d] = "fault" => pc'[d] = "fault"
    BY <1>9 DEF GoesIdle, SwitchesTo, OthersStay
  <2> QED BY <1>9, <2>1, <2>2 DEF GoesIdle, SwitchesTo, entryVars, Used
<1> QED BY <1>1, <1>2, <1>3, <1>4, <1>5, <1>6, <1>7, <1>8, <1>9,
     StepKinds DEF Changes

LEMMA CurrentKept ==
  ASSUME TypeOK, StacksApart, OwnFrames, CurrentRuns, NoFrameNoRun, [Steps]_kernelVars
  PROVE  CurrentRuns'
<1> USE DEF TypeOK, KernelTypes, CurrentRuns, SameCore, SameFirst, SameState
<1>1. CASE Quiet
  BY <1>1, StateValues DEF Quiet, entryVars
<1>2. ASSUME NEW c \in Core, Saves(c)
      PROVE  CurrentRuns'
  BY <1>2, StateValues DEF Saves, OthersStay, entryVars
<1>3. ASSUME NEW c \in Core, Pauses(c)
      PROVE  CurrentRuns'
  BY <1>3, StateValues DEF Pauses, OthersStay, entryVars
<1>4. ASSUME NEW c \in Core, NEW s \in Slot, Makes(c, s)
      PROVE  CurrentRuns'
  <2>1. \A d \in Core : CoreCurrentThreadID[d] # s =>
          /\ ThreadArray'[CoreCurrentThreadID[d]] = ThreadArray[CoreCurrentThreadID[d]]
          /\ owner'[CoreCurrentThreadID[d]] = owner[CoreCurrentThreadID[d]]
    BY <1>4 DEF Makes
  <2> QED BY <1>4, <2>1 DEF Makes, OthersStay
<1>5. ASSUME NEW c \in Core, NEW p \in Slot, NEW ch \in Slot, Adopts(c, p, ch)
      PROVE  CurrentRuns'
  BY <1>5, StateValues DEF Adopts, OthersStay, entryVars
<1>6. ASSUME NEW c \in Core, NEW s \in Slot, Exits(c, s)
      PROVE  CurrentRuns'
  BY <1>6, StateValues DEF Exits, OthersStay, entryVars
<1>7. ASSUME NEW c \in Core, NEW s \in Slot, RunsThread(c, s)
      PROVE  CurrentRuns'
  <2>1. ThreadArray[s].StackPTR = owner[s]
    BY <1>7, UsedStacks
       DEF OwnFrames, NoFrameNoRun, StacksApart, RunsThread, SwitchesTo
  <2>2. \A d \in Core \ {c} :
          \/ CoreCurrentThreadID[d] # s
          \/ ThreadArray[s].CoreUsing # d
    BY <1>7 DEF RunsThread
  <2> QED BY <1>7, <2>1, <2>2 DEF RunsThread, SwitchesTo, OthersStay, entryVars
<1>8. ASSUME NEW c \in Core, NEW s \in Slot, Faults(c, s)
      PROVE  CurrentRuns'
  BY <1>8, StateValues DEF Faults, SwitchesTo, OthersStay, entryVars
<1>9. ASSUME NEW c \in Core, NEW s \in Slot, GoesIdle(c, s)
      PROVE  CurrentRuns'
  BY <1>9, StateValues DEF GoesIdle, SwitchesTo, OthersStay, entryVars
<1> QED BY <1>1, <1>2, <1>3, <1>4, <1>5, <1>6, <1>7, <1>8, <1>9,
     StepKinds DEF Changes

LEMMA RunsKept ==
  ASSUME TypeOK, CallFits, BootFirst, CallsFromThreads, CallerPointer,
     RoomForOne, StacksApart, OwnFrames, IdleFrames, OneCorePerThread,
     RunsCurrent, [Steps]_kernelVars
  PROVE  RunsCurrent'
<1> USE DEF TypeOK, KernelTypes, RunsCurrent, Live, SameState, Working
<1>1. CASE Quiet
  BY <1>1 DEF Quiet, entryVars, BootFirst, Used, Working
<1>2. ASSUME NEW c \in Core, Saves(c)
      PROVE  RunsCurrent'
  BY <1>2, StateValues DEF Saves, OthersStay, entryVars, Used
<1>3. ASSUME NEW c \in Core, Pauses(c)
      PROVE  RunsCurrent'
  BY <1>3, StateValues DEF Pauses, OthersStay, entryVars, Used
<1>4. ASSUME NEW c \in Core, NEW s \in Slot, Makes(c, s)
      PROVE  RunsCurrent'
  <2>1. \A d \in Core : on[d] \in Stack /\ pc[d] \in Working => CoreCurrentThreadID[d] # s
    BY <1>4, MadeEntry
  <2>2. \A d \in Core : CoreCurrentThreadID[d] # s =>
          /\ ThreadArray'[CoreCurrentThreadID[d]] = ThreadArray[CoreCurrentThreadID[d]]
          /\ owner'[CoreCurrentThreadID[d]] = owner[CoreCurrentThreadID[d]]
    BY <1>4 DEF Makes
  <2>3. \A d \in Core : pc'[d] \in Working => pc[d] \in Working
    BY <1>4 DEF Makes, OthersStay
  <2> QED BY <1>4, <2>1, <2>2, <2>3, MadeEntry DEF Makes
<1>5. ASSUME NEW c \in Core, NEW p \in Slot, NEW ch \in Slot, Adopts(c, p, ch)
      PROVE  RunsCurrent'
  BY <1>5, StateValues DEF Adopts, OthersStay, entryVars, Used
<1>6. ASSUME NEW c \in Core, NEW s \in Slot, Exits(c, s)
      PROVE  RunsCurrent'
  <2>1. on[c] \in Stack /\ s = CoreCurrentThreadID[c] /\ owner[s] = on[c]
    BY <1>6, CallerRuns DEF Exits
  <2>2. \A d \in Core \ {c} : on[d] \in Stack /\ pc[d] \in Working => CoreCurrentThreadID[d] # s
    BY <2>1 DEF OneCorePerThread
  <2> QED BY <1>6, <2>2, StateValues DEF Exits, OthersStay, entryVars, Used
<1>7. ASSUME NEW c \in Core, NEW s \in Slot, RunsThread(c, s)
      PROVE  RunsCurrent'
  <2>1. on'[c] \in Stack => s \in Used /\ on'[c] = owner[s]
    BY <1>7, RunsOwnStack, ContextKinds
  <2> QED BY <1>7, <2>1, StateValues DEF RunsThread, SwitchesTo, OthersStay,
             entryVars, Used
<1>8. ASSUME NEW c \in Core, NEW s \in Slot, Faults(c, s)
      PROVE  RunsCurrent'
  BY <1>8, StateValues DEF Faults, SwitchesTo, OthersStay, entryVars, Used
<1>9. ASSUME NEW c \in Core, NEW s \in Slot, GoesIdle(c, s)
      PROVE  RunsCurrent'
  <2>1. on'[c] \notin Stack
    BY <1>9, IdleIsNoStack DEF GoesIdle
  <2> QED BY <1>9, <2>1, SMTT(30) DEF GoesIdle, SwitchesTo, OthersStay, entryVars,
             Used
<1> QED BY <1>1, <1>2, <1>3, <1>4, <1>5, <1>6, <1>7, <1>8, <1>9,
     StepKinds DEF Changes

-----------------------------------------------------------------------------
LEMMA InitIInv == Init => IInv
<1> SUFFICES ASSUME Init PROVE IInv
  OBVIOUS
<1> USE ConstantsAssumption, ContextKinds, StateValues, FirstCore DEF Init
<1>1. 0 \in Slot /\ 0 \in 0..MaxLaunches /\ MaxLaunches \in Nat
  BY DEF Slot
<1>2. TypeOK
  <2>1. NoThread \in Threads /\ NullPointer \in Pointers
    BY <1>1, FirstCore DEF NoThread, Threads, NullPointer, Pointers
  <2>2. ThreadArray \in [Slot -> Threads]
    BY <2>1
  <2>3. on \in [Core -> Context] /\ CoreStackPtrs \in [Core -> Context]
        /\ owner \in [Slot -> Context]
    OBVIOUS
  <2>4. pc \in [Core -> PCs] /\ call \in [Core -> AllCalls \cup {"timer", "boot"}]
        /\ CoreStateList \in [Core -> {0, 4, 5}]
    BY DEF PCs
  <2> QED BY <1>1, <2>1, <2>2, <2>3, <2>4 DEF TypeOK, KernelTypes
<1>3. LocksHeld /\ CallFits /\ ThreadsSeen /\ CallsFromThreads /\ CallerPointer
  BY DEF LocksHeld, CallFits, ThreadsSeen, CallsFromThreads, CallerPointer,
     InSyscall,
         UnderThreadLock, UnderPs2Lock, Threadless
<1>4. \A c \in Core : on[c] \notin Stack
  OBVIOUS
<1>5. \A s \in Slot : s \notin Used
  BY DEF Used, Slot
<1>6. BootFirst /\ RoomForOne /\ OneCorePerThread
  BY <1>4 DEF BootFirst, RoomForOne, OneCorePerThread
<1>7. StacksApart /\ OnItsCore /\ NoFrameNoRun
  BY <1>4, <1>5 DEF StacksApart, OnItsCore, NoFrameNoRun, Used
<1>8. IdleFrames
  BY DEF IdleFrames
<1>9. OwnFrames /\ RunsCurrent /\ CurrentRuns
  BY <1>1, <1>4 DEF OwnFrames, RunsCurrent, CurrentRuns, NoThread
<1> QED BY <1>2, <1>3, <1>6, <1>7, <1>8, <1>9 DEF IInv

LEMMA IInvKept == IInv /\ [Next]_vars => IInv'
  BY KernelSteps, TypesKept, LocksStayHeld, ControlKept, SeenKept, BootKept, RoomKept, IdleKept,
     CallsKept, PointerKept, StacksStayApart, OneCoreKept, OnItsCoreKept,
     OwnFramesKept, NoFrameKept, CurrentKept, RunsKept DEF IInv

LEMMA IInvHolds == Spec => []IInv
  BY InitIInv, IInvKept, PTL DEF Spec

(* For every number of cores and threads, whatever system calls programs   *)
(* make and whoever is at the keyboard: each lock is held by one core at   *)
(* most, exactly in the sections it guards, and no thread is executed by   *)
(* two cores (idt.cpp IDThandler, Thread.cpp SwitchTask).                  *)
THEOREM CoresStayApart == Spec => []CoresApart
<1>1. IInv => CoresApart
  BY DEF IInv, CoresApart
<1> QED BY <1>1, IInvHolds, PTL

(* The frame kept for a thread is its own, or none (Thread.cpp SwitchTask  *)
(* and the saving of StackPTR in idt.cpp), also when a stale pointer of    *)
(* the keyboard driver has changed states behind SwitchTask's back.        *)
THEOREM FramesNeverMixed == Spec => []FramesNotMixed
<1>1. IInv => FramesNotMixed
  BY DEF IInv, OwnFrames, FramesNotMixed, Used
<1> QED BY <1>1, IInvHolds, PTL

(* A system call works on the thread that made it, and nobody moves the    *)
(* array of the threads under it (idt.cpp: the pointer ThreadObj is formed *)
(* with SyscallSpinLock held, and only system calls make threads).         *)
THEOREM CallerStaysCurrent == Spec => []CallerIsCurrent
<1>1. ASSUME IInv, NEW c \in Core, InSyscall(c)
      PROVE  /\ ThreadObj[c].slot = CoreCurrentThreadID[c]
             /\ pc[c] \notin {"wantAdopt", "adopt", "endSyscall"} => ThreadObj[c].array = array
             /\ pc[c] \notin {"endSyscall"} => owner[ThreadObj[c].slot] = on[c]
  <2>1. on[c] \in Stack
    BY <1>1 DEF IInv, CallsFromThreads
  <2>2. pc[c] # "endSyscall" => pc[c] \in Working
    BY <1>1 DEF InSyscall, Working
  <2> QED BY <1>1, <2>1, <2>2 DEF IInv, CallerPointer, RunsCurrent
<1>2. IInv => CallerIsCurrent
  BY <1>1 DEF CallerIsCurrent
<1> QED BY <1>2, IInvHolds, PTL

-----------------------------------------------------------------------------
(***************************************************************************)
(* While no program reads the keyboard.                                    *)
(***************************************************************************)
LEMMA NobodyStillReads ==
  ASSUME "input" \notin Calls, TypeOK, NobodyReads, [Steps]_kernelVars
  PROVE  NobodyReads'
<1> USE DEF TypeOK, KernelTypes, NobodyReads, Goto
<1>1. ASSUME NEW c \in Core, Timer(c)
      PROVE  NobodyReads'
  BY <1>1 DEF Timer, Enter, threadVars, coreVars, lockVars, inputVars, callVars
<1>2. ASSUME NEW c \in Core, NEW f \in Calls, Syscall(c, f)
      PROVE  NobodyReads'
  BY <1>2 DEF Syscall, Enter, threadVars, coreVars, lockVars, inputVars,
     callVars
<1>3. ASSUME NEW c \in Core,
             TakeThreadLock(c) \/ TakeSyscallLock(c) \/ TakePs2Lock(c)
      PROVE  NobodyReads'
  BY <1>3 DEF TakeThreadLock, TakeSyscallLock, TakePs2Lock, threadVars,
     coreVars, lockVars, inputVars, callVars
<1>4. ASSUME NEW c \in Core, SaveIdleFrame(c) \/ SaveContext(c)
      PROVE  NobodyReads'
  BY <1>4 DEF SaveIdleFrame, SaveContext, AfterSave, threadVars, coreVars,
     lockVars, inputVars, callVars
<1>5. ASSUME NEW c \in Core,
             Dispatch(c) \/ EndSyscall(c) \/ SetBuffer(c) \/ SetGetter(c) \/ SetPaused(c)
      PROVE  NobodyReads'
  BY <1>5 DEF Dispatch, EndSyscall, SetBuffer, SetGetter, SetPaused,
     threadVars, coreVars, lockVars, inputVars, callVars
<1>6. ASSUME NEW c \in Core, InitThread(c)
      PROVE  NobodyReads'
  BY <1>6 DEF InitThread, AfterInit, threadVars, coreVars, lockVars,
     inputVars, callVars
<1>7. ASSUME NEW c \in Core, Adopt(c)
      PROVE  NobodyReads'
  BY <1>7 DEF Adopt, threadVars, coreVars, lockVars, inputVars, callVars
<1>8. ASSUME NEW c \in Core, Exit(c)
      PROVE  NobodyReads'
  BY <1>8 DEF Exit, threadVars, coreVars, lockVars, inputVars, callVars
<1>9. ASSUME NEW c \in Core,
             EndPs2(c) \/ EnterKey(c) \/ ClearBuffer(c) \/ Wake(c) \/ SwitchNone(c)
      PROVE  NobodyReads'
  BY <1>9 DEF EndPs2, EnterKey, ClearBuffer, Wake, SwitchNone, threadVars,
     coreVars, lockVars, inputVars, callVars
<1>10. ASSUME NEW c \in Core, SwitchRestarting(c) \/ SwitchNormal(c)
      PROVE  NobodyReads'
  BY <1>10 DEF SwitchRestarting, Switching, Restart, Resume, Derail,
     SwitchNormal, threadVars, coreVars, lockVars, inputVars, callVars
<1>11. ASSUME NEW c \in Core, SwitchFirst(c) \/ SwitchIdle(c)
      PROVE  NobodyReads'
  BY <1>11 DEF SwitchFirst, Switching, SwitchIdle, threadVars, coreVars,
     lockVars, inputVars, callVars
<1>12. CASE UNCHANGED kernelVars
  BY <1>12 DEF kernelVars, threadVars, coreVars, lockVars, inputVars, callVars
<1> QED BY <1>1, <1>2, <1>3, <1>4, <1>5, <1>6, <1>7, <1>8, <1>9, <1>10, <1>11,
     <1>12 DEF Steps, Step, Interrupt, Take, Handle

(* The parent that Adopt makes wait is the caller, and it executes.        *)
LEMMA AdopterIsCaller ==
  ASSUME TypeOK, CallFits, CallsFromThreads, CallerPointer, RunsCurrent, OnItsCore,
         NEW c \in Core, NEW p \in Slot, NEW ch \in Slot, Adopts(c, p, ch)
  PROVE  Live(p) /\ on[c] \in Stack /\ owner[p] = on[c] /\ p = CoreCurrentThreadID[c]
<1>1. /\ on[c] \in Stack
      /\ ThreadObj[c].slot = CoreCurrentThreadID[c]
      /\ Live(CoreCurrentThreadID[c])
      /\ owner[CoreCurrentThreadID[c]] = on[c]
  BY CallerRuns DEF Adopts
<1>2. ThreadArray[CoreCurrentThreadID[c]].CoreUsing = c
  BY <1>1 DEF OnItsCore, Live
<1> QED BY <1>1, <1>2 DEF Adopts

LEMMA UnusedStayClosed ==
  ASSUME IInv, NobodyReads, UnusedClosed, [Steps]_kernelVars
  PROVE  UnusedClosed'
<1> USE DEF UnusedClosed, SameState
<1>1. CASE Quiet
  BY <1>1, StateValues DEF Quiet, entryVars, Used
<1>2. ASSUME NEW c \in Core, Saves(c)
      PROVE  UnusedClosed'
  BY <1>2, StateValues DEF Saves, OthersStay, entryVars, Used
<1>3. ASSUME NEW c \in Core, Pauses(c)
      PROVE  UnusedClosed'
  BY <1>3 DEF Pauses, NobodyReads
<1>4. ASSUME NEW c \in Core, NEW s \in Slot, Makes(c, s)
      PROVE  UnusedClosed'
  <2>1. Used' = Used \cup {s}
    BY <1>4, MadeEntry DEF IInv
  <2> QED BY <1>4, <2>1 DEF Makes
<1>5. ASSUME NEW c \in Core, NEW p \in Slot, NEW ch \in Slot, Adopts(c, p, ch)
      PROVE  UnusedClosed'
  <2>1. p \in Used
    BY <1>5, AdopterIsCaller DEF IInv, Live
  <2> QED BY <1>5, <2>1 DEF Adopts, entryVars, Used
<1>6. ASSUME NEW c \in Core, NEW s \in Slot, Exits(c, s)
      PROVE  UnusedClosed'
  BY <1>6, StateValues DEF Exits, OthersStay, entryVars, Used
<1>7. ASSUME NEW c \in Core, NEW s \in Slot, RunsThread(c, s)
      PROVE  UnusedClosed'
  BY <1>7, StateValues DEF RunsThread, SwitchesTo, OthersStay, entryVars, Used
<1>8. ASSUME NEW c \in Core, NEW s \in Slot, Faults(c, s)
      PROVE  UnusedClosed'
  BY <1>8, StateValues DEF Faults, SwitchesTo, OthersStay, entryVars, Used
<1>9. ASSUME NEW c \in Core, NEW s \in Slot, GoesIdle(c, s)
      PROVE  UnusedClosed'
  BY <1>9, StateValues DEF GoesIdle, SwitchesTo, OthersStay, entryVars, Used
<1> QED BY <1>1, <1>2, <1>3, <1>4, <1>5, <1>6, <1>7, <1>8, <1>9,
     StepKinds DEF Changes, IInv

LEMMA OpenKeepsFrame ==
  ASSUME IInv, NobodyReads, OpenHasFrame, [Steps]_kernelVars
  PROVE  OpenHasFrame'
<1> USE DEF OpenHasFrame, Live, OffCore, SameState, SameFirst, SameStack
<1>1. CASE Quiet
  BY <1>1 DEF Quiet, entryVars, Used
<1>2. ASSUME NEW c \in Core, Saves(c)
      PROVE  OpenHasFrame'
  <2>1. LooksRunning(c) => on[c] = owner[CoreCurrentThreadID[c]]
    BY <1>2 DEF IInv, CurrentRuns, LooksRunning, Saves
  <2>2. \A r \in Used : r \in Slot
    BY DEF Used
  <2> QED BY <1>2, <2>1, <2>2 DEF Saves, entryVars, Used
<1>3. ASSUME NEW c \in Core, Pauses(c)
      PROVE  OpenHasFrame'
  BY <1>3 DEF Pauses, NobodyReads
<1>4. ASSUME NEW c \in Core, NEW s \in Slot, Makes(c, s)
      PROVE  OpenHasFrame'
  <2>1. /\ Used' = Used \cup {s}
        /\ \A d \in Core : on[d] # launches + 1
    BY <1>4, MadeEntry DEF IInv
  <2>2. \A r \in Used \ {s} : owner'[r] = owner[r] /\ ThreadArray'[r] = ThreadArray[r]
    BY <1>4 DEF Makes, Used
  <2> QED BY <1>4, <2>1, <2>2 DEF Makes
<1>5. ASSUME NEW c \in Core, NEW p \in Slot, NEW ch \in Slot, Adopts(c, p, ch)
      PROVE  OpenHasFrame'
  <2>1. Live(p) /\ owner[p] = on[c]
    BY <1>5, AdopterIsCaller DEF IInv
  <2>2. ~ThreadArray[p].FirstStart
    BY <2>1
  <2>3. \A r \in Used : r \in Slot
    BY DEF Used
  <2> QED BY <1>5, <2>1, <2>2, <2>3, SMTT(30) DEF Adopts, entryVars, Used
<1>6. ASSUME NEW c \in Core, NEW s \in Slot, Exits(c, s)
      PROVE  OpenHasFrame'
  <2>1. \A r \in Used : r \in Slot
    BY DEF Used
  <2> QED BY <1>6, <2>1, StateValues DEF Exits, entryVars, Used
<1>7. ASSUME NEW c \in Core, NEW s \in Slot, RunsThread(c, s)
      PROVE  OpenHasFrame'
  <2>1. \A r \in Used : r \in Slot
    BY DEF Used
  <2>2. \A r \in Used \ {s} : on'[c] # owner[r]
    BY <1>7, RunsOwnStack, UsedStacks DEF IInv
  <2>3. s \in Used => ~ThreadArray'[s].FirstStart /\ ThreadArray[s].StackPTR = owner[s]
    BY <1>7, StateValues DEF RunsThread
  <2> QED BY <1>7, <2>1, <2>2, <2>3 DEF RunsThread, SwitchesTo, entryVars, Used
<1>8. ASSUME NEW c \in Core, NEW s \in Slot, Faults(c, s)
      PROVE  OpenHasFrame'
  <2>1. \A r \in Used : r \in Slot /\ on'[c] # owner[r]
    BY <1>8, UsedStacks, ContextKinds DEF IInv, Faults
  <2> QED BY <1>8, <2>1, StateValues DEF Faults, SwitchesTo, entryVars, Used
<1>9. ASSUME NEW c \in Core, NEW s \in Slot, GoesIdle(c, s)
      PROVE  OpenHasFrame'
  <2>1. \A r \in Used : r \in Slot /\ on'[c] # owner[r]
    BY <1>9, UsedStacks, IdleIsNoStack DEF IInv, GoesIdle
  <2> QED BY <1>9, <2>1 DEF GoesIdle, SwitchesTo, entryVars, Used
<1> QED BY <1>1, <1>2, <1>3, <1>4, <1>5, <1>6, <1>7, <1>8, <1>9,
     StepKinds DEF Changes, IInv

LEMMA WorkStaysNormal ==
  ASSUME IInv, NobodyReads, WorkingIsNormal, [Steps]_kernelVars
  PROVE  WorkingIsNormal'
<1> USE DEF WorkingIsNormal, Live, SameState
<1>1. CASE Quiet
  <2>1. \A s \in Used : NumberThreads # 0
    BY ConstantsAssumption DEF Used, Slot, IInv, TypeOK, KernelTypes
  <2> QED BY <1>1, <2>1 DEF Quiet, entryVars, Used
<1>2. ASSUME NEW c \in Core, Saves(c)
      PROVE  WorkingIsNormal'
  <2>1. \A r \in Used : r \in Slot
    BY DEF Used
  <2> QED BY <1>2, <2>1 DEF Saves, entryVars, Used, OthersStay, Working
<1>3. ASSUME NEW c \in Core, Pauses(c)
      PROVE  WorkingIsNormal'
  BY <1>3 DEF Pauses, NobodyReads
<1>4. ASSUME NEW c \in Core, NEW s \in Slot, Makes(c, s)
      PROVE  WorkingIsNormal'
  <2>1. /\ Used' = Used \cup {s}
        /\ \A d \in Core : on[d] # launches + 1
    BY <1>4, MadeEntry DEF IInv
  <2>2. \A r \in Used \ {s} : owner'[r] = owner[r] /\ ThreadArray'[r] = ThreadArray[r]
    BY <1>4 DEF Makes, Used
  <2> QED BY <1>4, <2>1, <2>2 DEF Makes, OthersStay, Working
<1>5. ASSUME NEW c \in Core, NEW p \in Slot, NEW ch \in Slot, Adopts(c, p, ch)
      PROVE  WorkingIsNormal'
  <2>1. Live(p) /\ owner[p] = on[c] /\ on[c] \in Stack
    BY <1>5, AdopterIsCaller DEF IInv
  <2>2. \A d \in Core : on[d] = owner[p] => d = c
    BY <2>1 DEF IInv, OneCorePerThread
  <2>3. \A r \in Used : r \in Slot
    BY DEF Used
  <2> QED BY <1>5, <2>1, <2>2, <2>3 DEF Adopts, entryVars, Used, OthersStay, Working
<1>6. ASSUME NEW c \in Core, NEW s \in Slot, Exits(c, s)
      PROVE  WorkingIsNormal'
  <2>1. \A r \in Used : r \in Slot
    BY DEF Used
  <2> QED BY <1>6, <2>1, StateValues DEF Exits, entryVars, Used, OthersStay, Working
<1>7. ASSUME NEW c \in Core, NEW s \in Slot, RunsThread(c, s)
      PROVE  WorkingIsNormal'
  <2>1. \A r \in Used : r \in Slot
    BY DEF Used
  <2>2. \A r \in Used \ {s} : on'[c] # owner[r]
    BY <1>7, RunsOwnStack, UsedStacks DEF IInv
  <2> QED BY <1>7, <2>1, <2>2 DEF RunsThread, SwitchesTo, entryVars, Used,
             OthersStay
<1>8. ASSUME NEW c \in Core, NEW s \in Slot, Faults(c, s)
      PROVE  WorkingIsNormal'
  <2>1. \A r \in Used : r \in Slot /\ on'[c] # owner[r]
    BY <1>8, UsedStacks, ContextKinds DEF IInv, Faults
  <2> QED BY <1>8, <2>1, StateValues DEF Faults, SwitchesTo, entryVars, Used,
             OthersStay
<1>9. ASSUME NEW c \in Core, NEW s \in Slot, GoesIdle(c, s)
      PROVE  WorkingIsNormal'
  <2>1. \A r \in Used : r \in Slot /\ on'[c] # owner[r]
    BY <1>9, UsedStacks, IdleIsNoStack DEF IInv, GoesIdle
  <2> QED BY <1>9, <2>1 DEF GoesIdle, SwitchesTo, entryVars, Used, OthersStay
<1> QED BY <1>1, <1>2, <1>3, <1>4, <1>5, <1>6, <1>7, <1>8, <1>9,
     StepKinds DEF Changes, IInv

LEMMA FramesStayFresh ==
  ASSUME IInv, NobodyReads, OpenHasFrame, WorkingIsNormal, SavedIsFresh,
     [Steps]_kernelVars
  PROVE  SavedIsFresh'
<1> USE DEF SavedIsFresh, Live, SameState, SameFirst
<1>1. CASE Quiet
  <2>1. \A s \in Used : NumberThreads # 0
    BY ConstantsAssumption DEF Used, Slot, IInv, TypeOK, KernelTypes
  <2> QED BY <1>1, <2>1 DEF Quiet, entryVars, Used
<1>2. ASSUME NEW c \in Core, Saves(c)
      PROVE  SavedIsFresh'
  <2>1. \A s \in Used : s \in Slot /\ owner[s] \in Stack
    BY UsedStacks DEF IInv
  <2>2. ASSUME NEW s \in Used, Live(s), ~ThreadArray[s].FirstStart, on[c] = owner[s]
        PROVE  LooksRunning(c)
    <3>1. s = CoreCurrentThreadID[c]
      <4>1. pc[c] \in Working
        BY <1>2 DEF Saves, Working
      <4>2. Live(CoreCurrentThreadID[c]) /\ owner[CoreCurrentThreadID[c]] = on[c]
        BY <2>1, <2>2, <4>1 DEF IInv, RunsCurrent
      <4> QED BY <2>2, <4>2, UsedStacks DEF IInv
    <3>2. ThreadArray[s].CoreUsing = c
      BY <2>2 DEF IInv, OnItsCore
    <3>3. ThreadArray[s].ThreadState = ThreadStateNormal
      BY <1>2, <2>2 DEF Saves, Working, WorkingIsNormal
    <3> QED BY <2>2, <3>1, <3>2, <3>3 DEF LooksRunning
  <2>3. \A s \in Used : fresh[owner[s]] => fresh'[owner[s]]
    BY <1>2, <2>1 DEF Saves
  <2>4. \A s \in Used : Live(s) /\ ~ThreadArray[s].FirstStart /\ on[c] = owner[s]
                          => fresh'[owner[s]]
    BY <1>2, <2>1, <2>2 DEF Saves
  <2>5. /\ Used' = Used /\ owner' = owner /\ on' = on
        /\ \A s \in Used : SameFirst(s) /\ SameState(s)
        /\ \A d \in Core \ {c} : pc'[d] = pc[d]
    BY <1>2, <2>1 DEF Saves, entryVars, Used, OthersStay
  <2>6. SUFFICES ASSUME NEW s \in Used, Live(s), ~ThreadArray[s].FirstStart
                 PROVE  \/ fresh'[owner[s]]
                        \/ \E d \in Core : on[d] = owner[s] /\ pc'[d] \notin Saved
    BY <2>5
  <2>7. CASE fresh[owner[s]]
    BY <2>3, <2>7
  <2>8. ASSUME NEW d \in Core, on[d] = owner[s], pc[d] \notin Saved
        PROVE  \/ fresh'[owner[s]]
               \/ pc'[d] \notin Saved
    BY <2>4, <2>5, <2>6, <2>8
  <2> QED BY <2>6, <2>7, <2>8
<1>3. ASSUME NEW c \in Core, Pauses(c)
      PROVE  SavedIsFresh'
  BY <1>3 DEF Pauses, NobodyReads
<1>4. ASSUME NEW c \in Core, NEW s \in Slot, Makes(c, s)
      PROVE  SavedIsFresh'
  <2>1. Used' = Used \cup {s}
    BY <1>4, MadeEntry DEF IInv
  <2>2. \A r \in Used \ {s} : owner'[r] = owner[r] /\ ThreadArray'[r] = ThreadArray[r]
    BY <1>4 DEF Makes, Used
  <2> QED BY <1>4, <2>1, <2>2 DEF Makes, OthersStay, Saved, PCs
<1>5. ASSUME NEW c \in Core, NEW p \in Slot, NEW ch \in Slot, Adopts(c, p, ch)
      PROVE  SavedIsFresh'
  <2>1. Live(p)
    BY <1>5, AdopterIsCaller DEF IInv
  <2>2. \A r \in Used : r \in Slot
    BY DEF Used
  <2> QED BY <1>5, <2>1, <2>2 DEF Adopts, entryVars, Used, OthersStay, Saved, PCs
<1>6. ASSUME NEW c \in Core, NEW s \in Slot, Exits(c, s)
      PROVE  SavedIsFresh'
  <2>1. \A r \in Used : r \in Slot
    BY DEF Used
  <2> QED BY <1>6, <2>1, StateValues DEF Exits, entryVars, Used, OthersStay,
             Saved, PCs
<1>7. ASSUME NEW c \in Core, NEW s \in Slot, RunsThread(c, s)
      PROVE  SavedIsFresh'
  <2>1. \A r \in Used : r \in Slot /\ owner[r] \in Stack
    BY UsedStacks DEF IInv
  <2>2. s \in Used => on'[c] = owner[s]
    BY <1>7, StateValues DEF RunsThread, OpenHasFrame, Live
  <2>3. \A r \in Used \ {s} : fresh'[owner[r]] = fresh[owner[r]]
    <3>1. \A r \in Used \ {s} : owner[r] # ThreadArray[s].StackPTR
      BY <1>7, RunsOwnStack, UsedStacks DEF IInv, RunsThread
    <3>2. fresh \in [Stack -> BOOLEAN] /\ fresh' \in [Stack -> BOOLEAN]
      BY KernelTypesKept DEF IInv, TypeOK, KernelTypes
    <3> QED BY <1>7, <2>1, <3>1, <3>2 DEF RunsThread
  <2>4. \A d \in Core \ {c} : on'[d] = on[d] /\ pc'[d] = pc[d]
    BY <1>7 DEF RunsThread, SwitchesTo, OthersStay
  <2>5. pc[c] \in Saved /\ pc'[c] \notin Saved
    BY <1>7 DEF RunsThread, SwitchesTo, Saved, PCs
  <2>6. Used' = Used /\ owner' = owner
        /\ \A r \in Used \ {s} : SameState(r) /\ SameFirst(r)
    BY <1>7, <2>1 DEF RunsThread, SwitchesTo, entryVars, Used
  <2> QED BY <2>2, <2>3, <2>4, <2>5, <2>6
<1>8. ASSUME NEW c \in Core, NEW s \in Slot, Faults(c, s)
      PROVE  SavedIsFresh'
  <2>1. \A r \in Used : r \in Slot
    BY DEF Used
  <2> QED BY <1>8, <2>1, StateValues DEF Faults, SwitchesTo, entryVars, Used,
             OthersStay, Saved, PCs
<1>9. ASSUME NEW c \in Core, NEW s \in Slot, GoesIdle(c, s)
      PROVE  SavedIsFresh'
  <2>1. \A r \in Used : r \in Slot
    BY DEF Used
  <2> QED BY <1>9, <2>1 DEF GoesIdle, SwitchesTo, entryVars, Used, OthersStay,
             Saved, PCs
<1> QED BY <1>1, <1>2, <1>3, <1>4, <1>5, <1>6, <1>7, <1>8, <1>9,
     StepKinds DEF Changes, IInv

LEMMA FirstCoreOnly ==
  ASSUME IInv, NobodyReads, UnusedClosed, OpenHasFrame, SavedIsFresh,
     OnlyFirstCoreFaults, [Steps]_kernelVars
  PROVE  OnlyFirstCoreFaults'
<1> USE DEF OnlyFirstCoreFaults
<1>1. CASE Quiet
  BY <1>1 DEF Quiet, entryVars
<1>2. ASSUME NEW c \in Core, Saves(c)
      PROVE  OnlyFirstCoreFaults'
  BY <1>2 DEF Saves, OthersStay, entryVars
<1>3. ASSUME NEW c \in Core, Pauses(c)
      PROVE  OnlyFirstCoreFaults'
  BY <1>3 DEF Pauses, OthersStay, entryVars
<1>4. ASSUME NEW c \in Core, NEW s \in Slot, Makes(c, s)
      PROVE  OnlyFirstCoreFaults'
  BY <1>4 DEF Makes, OthersStay
<1>5. ASSUME NEW c \in Core, NEW p \in Slot, NEW ch \in Slot, Adopts(c, p, ch)
      PROVE  OnlyFirstCoreFaults'
  BY <1>5 DEF Adopts, OthersStay, entryVars
<1>6. ASSUME NEW c \in Core, NEW s \in Slot, Exits(c, s)
      PROVE  OnlyFirstCoreFaults'
  BY <1>6 DEF Exits, OthersStay, entryVars
<1>7. ASSUME NEW c \in Core, NEW s \in Slot, RunsThread(c, s)
      PROVE  OnlyFirstCoreFaults'
  BY <1>7 DEF RunsThread, SwitchesTo, OthersStay, entryVars
<1>8. ASSUME NEW c \in Core, NEW s \in Slot, Faults(c, s)
      PROVE  OnlyFirstCoreFaults'
  <2>1. Live(s)
    BY <1>8, StateValues DEF Faults, UnusedClosed, Live
  <2>2. ThreadArray[s].StackPTR = owner[s] /\ owner[s] \in Stack /\ ~ThreadArray[s].FirstStart
    BY <1>8, <2>1, UsedStacks, StateValues DEF IInv, Faults, OpenHasFrame, Live
  <2>3. PICK d \in Core : on[d] = owner[s] /\ pc[d] \notin Saved
    BY <1>8, <2>1, <2>2 DEF SavedIsFresh, Faults, Live
  <2>4. d = c
    BY <1>8, <2>1, <2>3 DEF IInv, OnItsCore, Faults, Live
  <2> QED BY <1>8, <2>3, <2>4 DEF Faults, SwitchesTo, Saved, PCs
<1>9. ASSUME NEW c \in Core, NEW s \in Slot, GoesIdle(c, s)
      PROVE  OnlyFirstCoreFaults'
  <2>1. CoreStackPtrs[c] = Lost => c = 0
    BY ContextKinds DEF IInv, IdleFrames
  <2> QED BY <1>9, <2>1 DEF GoesIdle, SwitchesTo, OthersStay
<1> QED BY <1>1, <1>2, <1>3, <1>4, <1>5, <1>6, <1>7, <1>8, <1>9,
     StepKinds DEF Changes, IInv

LEMMA NInvHolds ==
  ASSUME "input" \notin Calls
  PROVE  Spec => []NInv
<1>1. Init => NInv
  <2> SUFFICES ASSUME Init PROVE NInv
    OBVIOUS
  <2>1. \A s \in Slot : s \notin Used
    BY ConstantsAssumption DEF Init, Used, Slot
  <2>2. NobodyReads /\ OnlyFirstCoreFaults
    BY DEF Init, NobodyReads, OnlyFirstCoreFaults
  <2>3. UnusedClosed
    BY DEF Init, UnusedClosed, NoThread
  <2> QED BY <2>1, <2>2, <2>3 DEF NInv, OpenHasFrame, WorkingIsNormal,
             SavedIsFresh, Used
<1>2. IInv /\ NInv /\ [Next]_vars => NInv'
  <2> SUFFICES ASSUME IInv, NInv, [Steps]_kernelVars PROVE NInv'
    BY KernelSteps
  <2>1. TypeOK
    BY DEF IInv
  <2> QED BY <2>1, NobodyStillReads, UnusedStayClosed, OpenKeepsFrame,
             WorkStaysNormal,
             FramesStayFresh, FirstCoreOnly DEF NInv
<1> QED BY <1>1, <1>2, IInvHolds, PTL DEF Spec

(* What SwitchTask will load is right (Thread.cpp SwitchTask, idt.cpp and  *)
(* the saving of StackPTR): a thread that has not started has its own      *)
(* unused stack, one that has been put aside a frame of its own, saved     *)
(* when it was last interrupted and not resumed since.                     *)
THEOREM FramesAreKept ==
  ASSUME "input" \notin Calls
  PROVE  Spec => []FramesKept
<1>1. IInv /\ NInv => FramesKept
  BY DEF NInv, OpenHasFrame, SavedIsFresh, FramesKept, OffCore
<1> QED BY <1>1, IInvHolds, NInvHolds, PTL

(* No core but the first faults (idt.cpp:472, Thread.cpp:166): the others  *)
(* have saved the frame of their idle loop before they switch.             *)
THEOREM OnlyTheFirstFaults ==
  ASSUME "input" \notin Calls
  PROVE  Spec => []OnlyFirstCoreFaults
<1>1. NInv => OnlyFirstCoreFaults
  BY DEF NInv
<1> QED BY <1>1, NInvHolds, PTL

(* A thread that has exited never runs again (Thread.cpp:193, Exit in      *)
(* Syscall.cpp): its entry opens only for another thread.                  *)
THEOREM ClosedThreadsStayClosed ==
  ASSUME "input" \notin Calls
  PROVE  Spec => ClosedForGood
<1> DEFINE Reopens == \A s \in Used : ~Live(s) /\ Live(s)' => owner'[s] # owner[s]
<1>1. ASSUME IInv, NInv, [Steps]_kernelVars
      PROVE  Reopens
  <2> SUFFICES ASSUME NEW s \in Used, ~Live(s), Live(s)'
               PROVE  owner'[s] # owner[s]
    OBVIOUS
  <2> USE DEF Live
  <2>1. s \in Slot
    BY DEF Used
  <2>2. CASE Quiet
    BY <2>2 DEF Quiet, entryVars, Used
  <2>3. ASSUME NEW c \in Core, NEW t \in Slot, Makes(c, t)
        PROVE  owner'[s] # owner[s]
    <3>1. owner[s] # launches + 1
      BY <1>1, <2>3, MadeEntry DEF IInv
    <3> QED BY <2>1, <2>3, <3>1 DEF Makes
  <2>4. ASSUME NEW c \in Core, NEW p \in Slot, NEW ch \in Slot, Adopts(c, p, ch)
        PROVE  FALSE
    <3>1. Live(p)
      BY <1>1, <2>4, AdopterIsCaller DEF IInv
    <3> QED BY <2>1, <2>4, <3>1 DEF Adopts, SameState
  <2>5. ASSUME NEW c \in Core, Saves(c) \/ Pauses(c)
        PROVE  FALSE
    BY <1>1, <2>1, <2>5 DEF Saves, Pauses, SameState, NInv, NobodyReads
  <2>6. ASSUME NEW c \in Core, NEW t \in Slot,
               Exits(c, t) \/ RunsThread(c, t) \/ Faults(c, t) \/ GoesIdle(c, t)
        PROVE  FALSE
    BY <2>1, <2>6, StateValues
       DEF Exits, RunsThread, Faults, GoesIdle, SwitchesTo, SameState
  <2> QED BY <1>1, <2>2, <2>3, <2>4, <2>5, <2>6, StepKinds DEF Changes, IInv
<1>2. IInv /\ NInv /\ [Next]_vars => [Reopens]_vars
  BY <1>1, KernelSteps
<1>3. Spec => [][Reopens]_vars
  <2> HIDE DEF Reopens
  <2> QED BY <1>2, IInvHolds, NInvHolds, PTL DEF Spec
<1> QED BY <1>3 DEF ClosedForGood

-----------------------------------------------------------------------------
(***************************************************************************)
(* Parents and children, while no program reads the keyboard.              *)
(***************************************************************************)
(* Threads are opened by InitThread and closed by Exit, and by nothing     *)
(* else; the state a thread leaves is a state it had.                      *)
LEMMA OpenSteps ==
  ASSUME IInv, NInv, [Steps]_kernelVars
  PROVE  \/ /\ \A s \in Used : Live(s)' <=> Live(s)
            /\ Used' = Used
         \/ \E c \in Core, s \in Slot : Makes(c, s) \/ Exits(c, s)
<1>1. \A s \in Used : s \in Slot
  BY DEF Used
<1>2. CASE Quiet
  BY <1>2 DEF Quiet, entryVars, Used, Live
<1>3. ASSUME NEW c \in Core, Saves(c) \/ Pauses(c)
      PROVE  /\ \A s \in Used : Live(s)' <=> Live(s)
             /\ Used' = Used
  BY <1>1, <1>3
     DEF Saves, Pauses, NInv, NobodyReads, entryVars, Used, Live, SameState
<1>4. ASSUME NEW c \in Core, NEW p \in Slot, NEW ch \in Slot, Adopts(c, p, ch)
      PROVE  /\ \A s \in Used : Live(s)' <=> Live(s)
             /\ Used' = Used
  <2>1. Live(p)
    BY <1>4, AdopterIsCaller DEF IInv
  <2> QED BY <1>1, <1>4, <2>1, StateValues DEF Adopts, entryVars, Used, Live,
             SameState
<1>5. ASSUME NEW c \in Core, NEW s \in Slot,
             RunsThread(c, s) \/ Faults(c, s) \/ GoesIdle(c, s)
      PROVE  /\ \A r \in Used : Live(r)' <=> Live(r)
             /\ Used' = Used
  BY <1>1, <1>5, StateValues
     DEF RunsThread, Faults, GoesIdle, SwitchesTo, entryVars, Used, Live, SameState
<1>6. TypeOK
  BY DEF IInv
<1> QED BY <1>2, <1>3, <1>4, <1>5, <1>6, StepKinds DEF Changes

(* The caller that adopts or exits is in the normal state.                 *)
LEMMA CallerIsNormal ==
  ASSUME IInv, NInv, NEW c \in Core, pc[c] \in {"wantAdopt", "adopt", "wantExit", "exit"}
  PROVE  /\ ThreadArray[CoreCurrentThreadID[c]].ThreadState = ThreadStateNormal
         /\ Live(CoreCurrentThreadID[c])
         /\ ThreadObj[c].slot = CoreCurrentThreadID[c]
<1>1. Live(CoreCurrentThreadID[c]) /\ owner[CoreCurrentThreadID[c]] = on[c]
      /\ ThreadObj[c].slot = CoreCurrentThreadID[c]
  BY CallerRuns DEF IInv
<1> QED BY <1>1 DEF NInv, WorkingIsNormal, Working, Live

(* One core at a time is between making a child and adopting it, and then  *)
(* no other makes a child or exits.                                        *)
LEMMA OneAdopter ==
  ASSUME IInv, NEW c \in Core, NEW d \in Core, pc[d] \in {"wantAdopt", "adopt"},
         pc[c] \in {"init", "wantAdopt", "adopt", "exit"}
  PROVE  c = d
<1>1. InSyscall(d)
  BY DEF IInv, CallFits, InSyscall
<1>2. CASE pc[c] = "init"
  BY <1>1, <1>2, OneMaker DEF IInv
<1>3. CASE pc[c] # "init"
  <2>1. InSyscall(c)
    BY <1>3 DEF IInv, CallFits, InSyscall
  <2> QED BY <1>1, <2>1 DEF IInv, LocksHeld
<1> QED BY <1>2, <1>3

(* Every other step leaves open what is open. *)
LEMMA OpenKept ==
  ASSUME IInv, NInv, [Steps]_kernelVars, NEW s \in Used, Live(s),
         \A c \in Core : ~Exits(c, s)
  PROVE  s \in Used' /\ Live(s)'
<1>1. CASE Used' = Used /\ \A r \in Used : Live(r)' <=> Live(r)
  BY <1>1
<1>2. ASSUME NEW c \in Core, NEW t \in Slot, Makes(c, t)
      PROVE  s \in Used' /\ Live(s)'
  <2>1. Used' = Used \cup {t} /\ t # s
    BY <1>2, MadeEntry DEF IInv, Live
  <2> QED BY <1>2, <2>1 DEF Makes, Live, Used
<1>3. ASSUME NEW c \in Core, NEW t \in Slot, t # s, Exits(c, t)
      PROVE  s \in Used' /\ Live(s)'
  BY <1>3, StateValues DEF Exits, Live, Used, SameState, entryVars
<1> QED BY <1>1, <1>2, <1>3, OpenSteps

LEMMA ChildStaysOpen ==
  ASSUME IInv, NInv, ChildOpen, [Steps]_kernelVars
  PROVE  ChildOpen'
<1> USE DEF ChildOpen
<1>1. CASE Quiet
  BY <1>1 DEF Quiet, Live, Used, entryVars
<1>2. ASSUME NEW c \in Core, Saves(c)
      PROVE  ChildOpen'
  BY <1>2 DEF Saves, OthersStay, entryVars, Live, Used, SameState, IInv, TypeOK, KernelTypes
<1>3. ASSUME NEW c \in Core, Pauses(c)
      PROVE  ChildOpen'
  BY <1>3 DEF Pauses, NInv, NobodyReads
<1>4. ASSUME NEW c \in Core, NEW s \in Slot, Makes(c, s)
      PROVE  ChildOpen'
  <2>1. \A d \in Core \ {c} : pc'[d] \notin {"wantAdopt", "adopt"}
    BY <1>4, OneAdopter DEF Makes, OthersStay
  <2>2. ASSUME pc'[c] \in {"wantAdopt", "adopt"}
        PROVE  Live(child[c])' /\ child'[c] # CoreCurrentThreadID'[c]
    <3>1. InSyscall(c) /\ pc[c] \in Working
      BY <1>4, <2>2 DEF Makes, InSyscall, Working
    <3>2. Live(CoreCurrentThreadID[c])
      BY <3>1 DEF IInv, CallsFromThreads, RunsCurrent
    <3>3. s \in Used' /\ s # CoreCurrentThreadID[c]
      BY <1>4, <3>2, MadeEntry DEF IInv, Live
    <3> QED BY <1>4, <3>3, StateValues DEF Makes, Live
  <2> QED BY <2>1, <2>2
<1>5. ASSUME NEW c \in Core, NEW p \in Slot, NEW ch \in Slot, Adopts(c, p, ch)
      PROVE  ChildOpen'
  <2>1. \A d \in Core : pc'[d] \notin {"wantAdopt", "adopt"}
    BY <1>5, OneAdopter DEF Adopts, OthersStay
  <2> QED BY <2>1
<1>6. ASSUME NEW c \in Core, NEW s \in Slot, Exits(c, s)
      PROVE  ChildOpen'
  <2>1. \A d \in Core : pc'[d] \notin {"wantAdopt", "adopt"}
    BY <1>6, OneAdopter DEF Exits, OthersStay
  <2> QED BY <2>1
<1>7. ASSUME NEW c \in Core, NEW s \in Slot, RunsThread(c, s)
      PROVE  ChildOpen'
  <2>1. \A d \in Core \ {c} : CoreCurrentThreadID'[d] = CoreCurrentThreadID[d]
                            /\ child'[d] = child[d] /\ pc'[d] = pc[d]
    BY <1>7 DEF RunsThread, SwitchesTo, OthersStay
  <2>2. pc'[c] \notin {"wantAdopt", "adopt"}
    BY <1>7 DEF RunsThread
  <2>3. \A r \in Used : Live(r) => Live(r)'
    BY <1>7, StateValues
       DEF RunsThread, SwitchesTo, SameState, Live, Used, entryVars
  <2> QED BY <2>1, <2>2, <2>3 DEF Live
<1>8. ASSUME NEW c \in Core, NEW s \in Slot, Faults(c, s)
      PROVE  ChildOpen'
  <2>1. \A d \in Core \ {c} : CoreCurrentThreadID'[d] = CoreCurrentThreadID[d]
                            /\ child'[d] = child[d] /\ pc'[d] = pc[d]
    BY <1>8 DEF Faults, SwitchesTo, OthersStay
  <2>2. pc'[c] \notin {"wantAdopt", "adopt"}
    BY <1>8 DEF Faults
  <2>3. \A r \in Used : Live(r) => Live(r)'
    BY <1>8, StateValues DEF Faults, SwitchesTo, SameState, Live, Used, entryVars
  <2> QED BY <2>1, <2>2, <2>3 DEF Live
<1>9. ASSUME NEW c \in Core, NEW s \in Slot, GoesIdle(c, s)
      PROVE  ChildOpen'
  <2>1. \A d \in Core \ {c} : CoreCurrentThreadID'[d] = CoreCurrentThreadID[d]
                            /\ child'[d] = child[d] /\ pc'[d] = pc[d]
    BY <1>9 DEF GoesIdle, SwitchesTo, OthersStay
  <2>2. pc'[c] \notin {"wantAdopt", "adopt"}
    BY <1>9 DEF GoesIdle
  <2>3. \A r \in Used : Live(r) => Live(r)'
    BY <1>9, StateValues DEF GoesIdle, SwitchesTo, SameState, Live, Used, entryVars
  <2> QED BY <2>1, <2>2, <2>3 DEF Live
<1> QED BY <1>1, <1>2, <1>3, <1>4, <1>5, <1>6, <1>7, <1>8, <1>9,
     StepKinds DEF Changes, IInv

(* All other steps leave the families as they are: who is open, who has    *)
(* which parent, and who waits.                                            *)
IsWaiting(s) == ThreadArray[s].ThreadState = ThreadStateWaiting

SameFamilies ==
  /\ Used' = Used
  /\ \A s \in Used : /\ Live(s)' <=> Live(s)
                     /\ SameParent(s)
                     /\ IsWaiting(s)' <=> IsWaiting(s)
                     /\ BeingAdopted(s)' => BeingAdopted(s)

LEMMA FamilySteps ==
  ASSUME IInv, NInv, [Steps]_kernelVars
  PROVE  \/ SameFamilies
         \/ \E c \in Core, s \in Slot : \/ Makes(c, s) \/ Exits(c, s)
                                        \/ \E p \in Slot : Adopts(c, p, s)
<1> USE DEF SameFamilies, IsWaiting, BeingAdopted
<1>1. \A s \in Used : s \in Slot
  BY DEF Used
<1>2. CASE Quiet
  BY <1>2 DEF Quiet, entryVars, Used, Live, SameParent
<1>3. ASSUME NEW c \in Core, Saves(c) \/ Pauses(c)
      PROVE  SameFamilies
  <2>1. Saves(c)
    BY <1>3 DEF Pauses, NInv, NobodyReads
  <2> QED BY <1>1, <2>1 DEF Saves, OthersStay, entryVars, Used, Live,
             SameState, SameParent
<1>4. ASSUME NEW c \in Core, NEW s \in Slot,
             RunsThread(c, s) \/ Faults(c, s) \/ GoesIdle(c, s)
      PROVE  SameFamilies
  <2>1. /\ SwitchesTo(c, s)
        /\ pc'[c] \in {"run", "fault"}
        /\ \/ SameState(s)
           \/ /\ ThreadArray[s].ThreadState = ThreadStateRestarting
              /\ ThreadArray'[s].ThreadState = ThreadStateNormal
    BY <1>4 DEF RunsThread, Faults, GoesIdle, SameState
  <2>2. \A r \in Slot : /\ IsWaiting(r)' <=> IsWaiting(r)
                        /\ ThreadArray'[r].ThreadState = ThreadStateClosed
                             <=> ThreadArray[r].ThreadState = ThreadStateClosed
    BY <2>1, StateValues DEF SwitchesTo, SameState
  <2>3. \A r \in Slot : BeingAdopted(r)' => BeingAdopted(r)
    BY <2>1 DEF SwitchesTo, OthersStay
  <2> QED BY <1>1, <2>1, <2>2, <2>3 DEF SwitchesTo, entryVars, Used, Live
<1>5. TypeOK
  BY DEF IInv
<1> QED BY <1>2, <1>3, <1>4, <1>5, StepKinds DEF Changes

LEMMA ParentStaysUsed ==
  ASSUME IInv, NInv, ParentUsed, [Steps]_kernelVars
  PROVE  ParentUsed'
<1> USE DEF ParentUsed
<1>1. CASE SameFamilies
  BY <1>1 DEF SameFamilies, SameParent
<1>2. ASSUME NEW c \in Core, NEW s \in Slot, Makes(c, s)
      PROVE  ParentUsed'
  <2>1. Used' = Used \cup {s}
    BY <1>2, MadeEntry DEF IInv
  <2> QED BY <1>2, <2>1 DEF Makes, Used
<1>3. ASSUME NEW c \in Core, NEW s \in Slot, Exits(c, s)
      PROVE  ParentUsed'
  BY <1>3 DEF Exits, entryVars, Used, SameParent
<1>4. ASSUME NEW c \in Core, NEW p \in Slot, NEW ch \in Slot, Adopts(c, p, ch)
      PROVE  ParentUsed'
  <2>1. p \in Used
    BY <1>4, AdopterIsCaller DEF IInv, Live
  <2> QED BY <1>4, <2>1 DEF Adopts, entryVars, Used, SameParent
<1> QED BY <1>1, <1>2, <1>3, <1>4, FamilySteps

(* A core makes a thread in an entry that no open thread has as a parent.  *)
LEMMA NewHasNoChild ==
  ASSUME IInv, ParentUsed, ParentWaits, NEW c \in Core, NEW s \in Slot, Makes(c, s), s # 0,
         NEW r \in Used, Live(r)
  PROVE  ThreadArray[r].ThreadParentIndex # s
<1>1. s \notin Used \/ ThreadArray[s].ThreadState = ThreadStateClosed
  BY MadeEntry DEF IInv
<1>2. r # s
  BY <1>1 DEF Live
<1> QED BY <1>1, <1>2, StateValues DEF ParentUsed, ParentWaits

LEMMA ChildStaysOne ==
  ASSUME IInv, NInv, ParentUsed, ParentWaits, OneChild, [Steps]_kernelVars
  PROVE  OneChild'
<1> USE DEF OneChild
<1>1. CASE SameFamilies
  BY <1>1 DEF SameFamilies, SameParent
<1>2. ASSUME NEW c \in Core, NEW s \in Slot, Makes(c, s)
      PROVE  OneChild'
  <2>1. Used' = Used \cup {s} /\ \A r \in Used : r \in Slot
    BY <1>2, MadeEntry DEF IInv, Used
  <2>2. \A r \in Used' \ {s} : r \in Used /\ ThreadArray'[r] = ThreadArray[r]
                               /\ (Live(r)' <=> Live(r))
    BY <1>2, <2>1 DEF Makes, Live
  <2>3. ThreadArray'[s].ThreadParentIndex = 0
    BY <1>2 DEF Makes
  <2>4. \A r \in Used : s # 0 /\ Live(r) => ThreadArray[r].ThreadParentIndex # s
    BY <1>2, NewHasNoChild
  <2> QED BY <2>1, <2>2, <2>3, <2>4
<1>3. ASSUME NEW c \in Core, NEW s \in Slot, Exits(c, s)
      PROVE  OneChild'
  <2>1. Used' = Used /\ \A r \in Used : SameParent(r) /\ (Live(r)' => Live(r))
    BY <1>3, StateValues DEF Exits, entryVars, Used, SameState, Live
  <2> QED BY <2>1 DEF SameParent
<1>4. ASSUME NEW c \in Core, NEW p \in Slot, NEW ch \in Slot, Adopts(c, p, ch)
      PROVE  OneChild'
  <2>1. Live(p) /\ p = CoreCurrentThreadID[c]
    BY <1>4, AdopterIsCaller DEF IInv
  <2>2. ThreadArray[p].ThreadState = ThreadStateNormal
    BY <1>4, <2>1, CallerIsNormal DEF Adopts
  <2>3. Used' = Used /\ \A r \in Used : r \in Slot /\ (Live(r)' => Live(r))
    BY <1>4, <2>1, StateValues DEF Adopts, entryVars, Used, SameState, Live
  <2>4. \A r \in Used : Live(r) /\ r # p /\ p # 0 => ThreadArray[r].ThreadParentIndex # p
    BY <2>1, <2>2, StateValues DEF ParentWaits, Live
  <2> QED BY <1>4, <2>1, <2>3, <2>4 DEF Adopts, SameParent
<1> QED BY <1>1, <1>2, <1>3, <1>4, FamilySteps

LEMMA ParentStillWaits ==
  ASSUME IInv, NInv, ParentUsed, OneChild, ParentWaits, [Steps]_kernelVars
  PROVE  ParentWaits'
<1> USE DEF ParentWaits
<1>1. CASE SameFamilies
  BY <1>1 DEF SameFamilies, SameParent, IsWaiting
<1>2. ASSUME NEW c \in Core, NEW s \in Slot, Makes(c, s)
      PROVE  ParentWaits'
  <2>1. Used' = Used \cup {s} /\ \A r \in Used : r \in Slot
    BY <1>2, MadeEntry DEF IInv, Used
  <2>2. \A r \in Used' \ {s} : r \in Used /\ ThreadArray'[r] = ThreadArray[r]
                               /\ (Live(r)' <=> Live(r))
    BY <1>2, <2>1 DEF Makes, Live
  <2>3. ThreadArray'[s].ThreadParentIndex = 0
    BY <1>2 DEF Makes
  <2>4. \A r \in Used : s # 0 /\ Live(r) => ThreadArray[r].ThreadParentIndex # s
    BY <1>2, NewHasNoChild
  <2> QED BY <2>1, <2>2, <2>3, <2>4
<1>3. ASSUME NEW c \in Core, NEW s \in Slot, Exits(c, s)
      PROVE  ParentWaits'
  <2>1. Used' = Used /\ \A r \in Used : r \in Slot /\ SameParent(r) /\ (Live(r)' => Live(r))
    BY <1>3, StateValues DEF Exits, entryVars, Used, SameState, Live
  <2>2. Live(s) /\ ThreadArray[s].ThreadState = ThreadStateNormal
    BY <1>3, CallerIsNormal DEF Exits
  <2>3. ~Live(s)'
    BY <1>3 DEF Exits, Live
  <2>4. SUFFICES ASSUME NEW r \in Used, NEW p \in Used \ {0}, r # p, Live(r)', Live(r),
                        ThreadArray[r].ThreadParentIndex = p
                 PROVE  ThreadArray'[p].ThreadState = ThreadStateWaiting
    BY <2>1 DEF SameParent
  <2>5. ThreadArray[p].ThreadState = ThreadStateWaiting
    BY <2>4
  <2>6. p # s /\ r # s
    BY <2>2, <2>3, <2>4, <2>5, StateValues
  <2>7. ThreadArray[s].ThreadParentIndex # p
    BY <2>2, <2>4, <2>6 DEF OneChild, Live
  <2> QED BY <1>3, <2>1, <2>5, <2>6, <2>7 DEF Exits, SameState
<1>4. ASSUME NEW c \in Core, NEW p \in Slot, NEW ch \in Slot, Adopts(c, p, ch)
      PROVE  ParentWaits'
  <2>1. Live(p)
    BY <1>4, AdopterIsCaller DEF IInv
  <2>2. Used' = Used /\ \A r \in Used : r \in Slot /\ (Live(r)' => Live(r))
    BY <1>4, <2>1, StateValues DEF Adopts, entryVars, Used, SameState, Live
  <2> QED BY <1>4, <2>1, <2>2 DEF Adopts, SameParent, SameState
<1> QED BY <1>1, <1>2, <1>3, <1>4, FamilySteps

LEMMA WaitsStillForChild ==
  ASSUME IInv, NInv, ChildOpen, WaitsForChild, [Steps]_kernelVars
  PROVE  WaitsForChild'
<1> USE DEF WaitsForChild
<1>1. CASE SameFamilies
  BY <1>1 DEF SameFamilies, SameParent, IsWaiting
<1>2. ASSUME NEW c \in Core, NEW s \in Slot, Makes(c, s)
      PROVE  WaitsForChild'
  <2>1. Used' = Used \cup {s} /\ \A r \in Used : r \in Slot /\ (Live(r) => r # s)
    BY <1>2, MadeEntry DEF IInv, Used, Live
  <2>2. \A r \in Used' \ {s} : r \in Used /\ ThreadArray'[r] = ThreadArray[r]
                               /\ (Live(r)' <=> Live(r))
    BY <1>2, <2>1 DEF Makes, Live
  <2>3. \A r \in Slot \ {s} : BeingAdopted(r)' => BeingAdopted(r)
    BY <1>2 DEF Makes, OthersStay, BeingAdopted
  <2>4. ThreadArray'[s].ThreadState # ThreadStateWaiting
    BY <1>2, StateValues DEF Makes
  <2> QED BY <2>1, <2>2, <2>3, <2>4
<1>3. ASSUME NEW c \in Core, NEW s \in Slot, Exits(c, s)
      PROVE  WaitsForChild'
  <2>1. Used' = Used /\ \A r \in Used : r \in Slot /\ SameParent(r)
    BY <1>3 DEF Exits, entryVars, Used
  <2>2. \A r \in Used \ {s} : Live(r) => Live(r)'
    BY <1>3, <2>1, StateValues DEF Exits, SameState, Live
  <2>3. \A r \in Slot : ~BeingAdopted(r)'
    BY <1>3, OneAdopter DEF Exits, OthersStay, BeingAdopted
  <2>4. \A p \in Used : ThreadArray'[p].ThreadState = ThreadStateWaiting
          => /\ ThreadArray[p].ThreadState = ThreadStateWaiting
             /\ ThreadArray[s].ThreadParentIndex # p
    BY <1>3, <2>1, StateValues, CallerIsNormal DEF Exits, SameState
  <2> QED BY <2>1, <2>2, <2>3, <2>4 DEF SameParent
<1>4. ASSUME NEW c \in Core, NEW p \in Slot, NEW ch \in Slot, Adopts(c, p, ch)
      PROVE  WaitsForChild'
  <2>1. Live(p) /\ p = CoreCurrentThreadID[c]
    BY <1>4, AdopterIsCaller DEF IInv
  <2>2. Live(ch) /\ ch # p /\ BeingAdopted(ch)
    BY <1>4, <2>1 DEF ChildOpen, Adopts, BeingAdopted
  <2>3. Used' = Used /\ \A r \in Used : r \in Slot /\ (Live(r) => Live(r)')
    BY <1>4, <2>1, StateValues DEF Adopts, entryVars, Used, SameState, Live
  <2>4. \A r \in Slot : ~BeingAdopted(r)'
    BY <1>4, OneAdopter DEF Adopts, OthersStay, BeingAdopted
  <2>5. \A r \in Used \ {ch} : SameParent(r)
    BY <1>4, <2>3 DEF Adopts
  <2>6. \A q \in Used \ {p} : ThreadArray'[q].ThreadState = ThreadStateWaiting
          => ThreadArray[q].ThreadState = ThreadStateWaiting
    BY <1>4, <2>3 DEF Adopts, SameState
  <2>7. \A q \in Used \ {p} : ThreadArray'[q].ThreadState = ThreadStateWaiting =>
          \E s \in Used \ {q, ch} : Live(s) /\ ThreadArray[s].ThreadParentIndex = q
    BY <2>2, <2>6
  <2>8. ch \in Used \ {p} /\ ThreadArray'[ch].ThreadParentIndex = p /\ Live(ch)'
    BY <1>4, <2>2, <2>3 DEF Adopts, Live
  <2>9. ASSUME NEW q \in Used, ThreadArray'[q].ThreadState = ThreadStateWaiting
        PROVE  \E s \in Used \ {q} : Live(s)' /\ ThreadArray'[s].ThreadParentIndex = q
    <3>1. CASE q = p
      BY <2>8, <3>1
    <3>2. CASE q # p
      BY <2>3, <2>5, <2>7, <2>9, <3>2 DEF SameParent
    <3> QED BY <3>1, <3>2
  <2> QED BY <2>3, <2>4, <2>9 DEF Used
<1> QED BY <1>1, <1>2, <1>3, <1>4, FamilySteps

(* A program waits exactly while a program it started in the foreground is *)
(* open (Syscall.cpp LoadAppNonBG and Exit); the first thread, the parent  *)
(* of every background program too, may go on too early.                   *)
THEOREM FamiliesAreKept ==
  ASSUME "input" \notin Calls
  PROVE  Spec => []FamiliesKept
<1>1. Init => FInv
  <2> SUFFICES ASSUME Init PROVE FInv
    OBVIOUS
  <2>1. \A s \in Slot : s \notin Used
    BY ConstantsAssumption DEF Init, Used, Slot
  <2>2. ChildOpen
    BY DEF Init, ChildOpen
  <2> QED BY <2>1, <2>2 DEF FInv, ParentUsed, OneChild, ParentWaits,
             WaitsForChild, Used
<1>2. IInv /\ NInv /\ FInv /\ [Next]_vars => FInv'
  BY KernelSteps, ChildStaysOpen, ParentStaysUsed, ChildStaysOne, ParentStillWaits,
     WaitsStillForChild
     DEF FInv
<1>3. FInv => FamiliesKept
  BY DEF FInv, WaitsForChild, FamiliesKept, WaitingHasChild
<1> QED BY <1>1, <1>2, <1>3, IInvHolds, NInvHolds, PTL DEF Spec

=============================================================================
