---------------------------- MODULE ThreadMemory ----------------------------
(***************************************************************************)
(* The memory that the thread code keeps: the array of threads, a stack    *)
(* for each thread and three arrays of interrupt counts.  InitThread       *)
(* (Kernel/Exec/Thread.cpp) makes a new array and frees the old one, Exit  *)
(* (Kernel/Syscall/Syscall.cpp) frees what it takes for the stack, and     *)
(* IDThandler (Kernel/idt.cpp) makes the counts, without a lock, when it   *)
(* finds none.  The other modules take memory for granted; here a call of  *)
(* Malloc may fail, or find the heap used up and never return.             *)
(*                                                                         *)
(* The heap is a set of blocks, as Allocator has it.  A block remembers    *)
(* what was last put into it after it is freed, as memory does.            *)
(***************************************************************************)
EXTENDS Naturals, FiniteSets

CONSTANTS NumberCores,
          MaxLaunches,   \* bound: threads created in a behaviour
          MaxBlocks,     \* blocks that the heap has room for
          MaxFailures    \* bound: calls of Malloc that find no free table

ASSUME ConstantsAssumption ==
  /\ NumberCores \in Nat \ {0}
  /\ MaxLaunches \in Nat \ {0}
  /\ MaxBlocks \in Nat
  /\ MaxFailures \in Nat

Core == 0..(NumberCores - 1)
Slot == 0..(MaxLaunches - 1)
Block == 1..MaxBlocks
Null == 0
Pointer == Block \cup {Null}

(* What a block was made for: the of-th array of threads, the stack of the *)
(* of-th thread, or counts.                                                *)
Statistics == {"AvgCoreSpeed", "NumberIntsPerCore", "CorePrintInfo"}
Data == [what : Statistics \cup {"array", "stack", "nothing"},
         of : 0..MaxLaunches]
Nothing == [what |-> "nothing", of |-> 0]

Normal == 0
Closed == 2
Waiting == 3
Restarting == 4

Threads == [CoreUsing : Core, ThreadState : {Normal, Closed, Waiting, Restarting},
            ThreadParentIndex : Slot, stack : Pointer, launch : 0..MaxLaunches]
NoThread == [CoreUsing |-> 0, ThreadState |-> Closed, ThreadParentIndex |-> 0,
             stack |-> Null, launch |-> 0]

NoPointer == [array |-> Null, of |-> 0, slot |-> 0]

Calls == {"load", "loadNonBG", "exit"}

PCs == {"run", "stopped", "hung", "hungInit", "wantSave", "wantSyscall",
        "wantInit", "init", "initStack", "initFree", "initPublish",
        "adopt", "exit", "endSyscall", "statistics", "AvgCoreSpeed",
        "NumberIntsPerCore", "CorePrintInfo", "countAgain", "wantSwitch"}

VARIABLES
  used,                 \* the blocks that are allocated
  data,                 \* [Block -> Data], freed blocks included
  failures,
  outOfMemory,          \* a core loops in Malloc, with its lock
  ThreadArray,          \* the block of the array
  arrays,               \* arrays made so far
  threads,              \* what the array holds
  NumberThreads,
  launches,
  statistics,           \* the three pointers, [Statistics -> Pointer]
  CoreCurrentThreadID,
  idle,                 \* whether a core is in its idle loop or the boot code
  ThreadLock, SyscallSpinLock,
  pc, call,
  ThreadOBJ,            \* the pointer that the system call has
  TmpArray, TmpStack,   \* blocks of InitThread that the array has not yet
  child,
  damaged               \* memory in use was freed by Exit or stored to by LoadAppNonBG

heapVars   == <<used, data, failures, outOfMemory>>
arrayVars  == <<ThreadArray, arrays, threads, NumberThreads, launches>>
coreVars   == <<CoreCurrentThreadID, idle>>
lockVars   == <<ThreadLock, SyscallSpinLock>>
localVars  == <<call, ThreadOBJ, TmpArray, TmpStack, child>>
vars == <<heapVars, arrayVars, statistics, coreVars, lockVars, localVars, pc, damaged>>

TypeOK ==
  /\ used \subseteq Block
  /\ data \in [Block -> Data]
  /\ failures \in 0..MaxFailures
  /\ outOfMemory \in BOOLEAN
  /\ ThreadArray \in Pointer
  /\ arrays \in 0..MaxLaunches
  /\ threads \in [Slot -> Threads]
  /\ NumberThreads \in 0..MaxLaunches
  /\ launches \in 0..MaxLaunches
  /\ statistics \in [Statistics -> Pointer]
  /\ CoreCurrentThreadID \in [Core -> Slot]
  /\ idle \in [Core -> BOOLEAN]
  /\ ThreadLock \in 0..1 /\ SyscallSpinLock \in 0..1
  /\ pc \in [Core -> PCs]
  /\ call \in [Core -> Calls \cup {"timer", "boot"}]
  /\ ThreadOBJ \in [Core -> [array : Pointer, of : 0..MaxLaunches, slot : Slot]]
  /\ TmpArray \in [Core -> Pointer] /\ TmpStack \in [Core -> Pointer]
  /\ child \in [Core -> Slot]
  /\ damaged \in BOOLEAN

(* The timers run; the boot code on core 0 makes the first thread.         *)
Init ==
  /\ used = {}
  /\ data = [b \in Block |-> Nothing]
  /\ failures = 0
  /\ outOfMemory = FALSE
  /\ ThreadArray = Null
  /\ arrays = 0
  /\ threads = [s \in Slot |-> NoThread]
  /\ NumberThreads = 0
  /\ launches = 0
  /\ statistics = [a \in Statistics |-> Null]
  /\ CoreCurrentThreadID = [c \in Core |-> 0]
  /\ idle = [c \in Core |-> TRUE]
  /\ ThreadLock = 0 /\ SyscallSpinLock = 0
  /\ pc = [c \in Core |-> IF c = 0 THEN "wantInit" ELSE "run"]
  /\ call = [c \in Core |-> IF c = 0 THEN "boot" ELSE "timer"]
  /\ ThreadOBJ = [c \in Core |-> NoPointer]
  /\ TmpArray = [c \in Core |-> Null] /\ TmpStack = [c \in Core |-> Null]
  /\ child = [c \in Core |-> 0]
  /\ damaged = FALSE
-----------------------------------------------------------------------------
Goto(c, l) == pc' = [pc EXCEPT ![c] = l]

(* A freed block, or the next one of the memory never used.                *)
Available == {b \in Block \ used :
                data[b] # Nothing \/ \A a \in Block \ used : data[a] = Nothing => b <= a}

(* Malloc returns a block, or 0 when it has no table left.                 *)
Malloc(b, d) ==
  /\ ~outOfMemory
  /\ \/ /\ b \in Available
        /\ used' = used \cup {b}
        /\ data' = [data EXCEPT ![b] = d]
        /\ UNCHANGED failures
     \/ /\ b = Null
        /\ failures < MaxFailures
        /\ failures' = failures + 1
        /\ UNCHANGED <<used, data>>
  /\ UNCHANGED outOfMemory

Free(b) == /\ used' = used \ {b}
           /\ UNCHANGED <<data, failures, outOfMemory>>

(* ... or, with no memory left, loops where it is.                         *)
MallocOutOfMemory(c) ==
  /\ pc[c] \in {"init", "initStack"} \cup Statistics
  /\ ~outOfMemory
  /\ Available = {}
  /\ outOfMemory' = TRUE
  /\ Goto(c, IF pc[c] \in Statistics THEN "hung" ELSE "hungInit")
  /\ UNCHANGED <<used, data, failures, arrayVars, statistics, coreVars, lockVars,
                 localVars, damaged>>
-----------------------------------------------------------------------------
(* IDThandler counts the interrupt in AvgCoreSpeed and CorePrintInfo if    *)
(* one of them is there, and goes on to save the frame.                    *)
Enter(c, isr) ==
  /\ pc[c] = "run"
  /\ call' = [call EXCEPT ![c] = isr]
  /\ Goto(c, IF NumberThreads = 0 THEN "statistics" ELSE "wantSave")
  /\ UNCHANGED <<heapVars, arrayVars, statistics, coreVars, lockVars, ThreadOBJ,
                 TmpArray, TmpStack, child, damaged>>

Interrupt(c) == Enter(c, "timer")

Syscall(c, f) == ~idle[c] /\ Enter(c, f)

(* The frame is saved under Thread::SpinLock.                              *)
Save(c) ==
  /\ pc[c] = "wantSave"
  /\ ThreadLock = 0
  /\ Goto(c, IF call[c] = "timer" THEN "statistics" ELSE "wantSyscall")
  /\ UNCHANGED <<heapVars, arrayVars, statistics, coreVars, lockVars, localVars, damaged>>

(* A program that does not exist starts no thread. *)
TakeSyscallLock(c) ==
  /\ pc[c] = "wantSyscall"
  /\ SyscallSpinLock = 0
  /\ SyscallSpinLock' = 1
  /\ ThreadOBJ' = [ThreadOBJ EXCEPT ![c] =
       [array |-> ThreadArray, of |-> arrays, slot |-> CoreCurrentThreadID[c]]]
  /\ \/ call[c] = "exit" /\ Goto(c, "exit")
     \/ call[c] # "exit" /\ launches < MaxLaunches /\ Goto(c, "wantInit")
     \/ call[c] # "exit" /\ Goto(c, "endSyscall")
  /\ UNCHANGED <<heapVars, arrayVars, statistics, coreVars, ThreadLock, call,
                 TmpArray, TmpStack, child, damaged>>

EndSyscall(c) ==
  /\ pc[c] = "endSyscall"
  /\ SyscallSpinLock' = 0
  /\ call' = [call EXCEPT ![c] = "timer"]
  /\ ThreadOBJ' = [ThreadOBJ EXCEPT ![c] = NoPointer]
  /\ child' = [child EXCEPT ![c] = 0]
  /\ Goto(c, "statistics")
  /\ UNCHANGED <<heapVars, arrayVars, statistics, coreVars, ThreadLock, TmpArray,
                 TmpStack, damaged>>
-----------------------------------------------------------------------------
(***************************************************************************)
(* InitThread.                                                             *)
(***************************************************************************)
Used == {s \in Slot : s < NumberThreads}
ClosedSlots == {s \in Used : threads[s].ThreadState = Closed}
OpenIndex(s) == s \in ClosedSlots /\ \A r \in ClosedSlots : s <= r

(* The first of the cores with the fewest entries. *)
ThreadsOn(d) == Cardinality({s \in Used : threads[s].CoreUsing = d})
LeastUsed(d) == \A e \in Core : /\ ThreadsOn(d) <= ThreadsOn(e)
                                /\ e < d => ThreadsOn(d) < ThreadsOn(e)

NewThread(d, b) == [CoreUsing |-> d, ThreadState |-> Normal, ThreadParentIndex |-> 0,
                    stack |-> b, launch |-> launches + 1]

AfterInit(c) == CASE call[c] = "boot" -> "run"
                  [] call[c] = "load" -> "endSyscall"
                  [] OTHER            -> "adopt"

(* With the lock, the threads of each core are counted in a block that is  *)
(* freed again at once.  (Without threads the counts are at address 0; that *)
(* Malloc returns 0 here, which puts the thread on core 0, is left out.)   *)
CountLoads(c) ==
  /\ pc[c] = "wantInit"
  /\ ThreadLock = 0
  /\ ThreadLock' = 1
  /\ NumberThreads # 0 => ~outOfMemory
  /\ Goto(c, "init")
  /\ UNCHANGED <<heapVars, arrayVars, statistics, coreVars, SyscallSpinLock, localVars,
                 damaged>>

(* Faulty variant: the lock is given back when there is no stack. *)
ReuseEntry_GivesUp(c) ==
  /\ pc[c] = "init"
  /\ \E s \in ClosedSlots, d \in Core, b \in Pointer :
       /\ OpenIndex(s)
       /\ LeastUsed(d)
       /\ Malloc(b, [what |-> "stack", of |-> launches + 1])
       /\ threads' = [threads EXCEPT ![s] = NewThread(d, b)]
       /\ child' = [child EXCEPT ![c] = s]
       /\ Goto(c, IF b = Null THEN "hungInit" ELSE AfterInit(c))
  /\ ThreadLock' = 0
  /\ launches' = launches + 1
  /\ UNCHANGED <<ThreadArray, arrays, NumberThreads, statistics, coreVars, SyscallSpinLock,
                 call, ThreadOBJ, TmpArray, TmpStack, damaged>>

(* A closed entry gets a new stack.  A call of Malloc that fails is not    *)
(* survived: the core loops with the lock.                                 *)
ReuseEntry(c) ==
  /\ pc[c] = "init"
  /\ \E s \in ClosedSlots, d \in Core, b \in Pointer :
       /\ OpenIndex(s)
       /\ LeastUsed(d)
       /\ Malloc(b, [what |-> "stack", of |-> launches + 1])
       /\ threads' = [threads EXCEPT ![s] = NewThread(d, b)]
       /\ child' = [child EXCEPT ![c] = s]
       /\ IF b = Null THEN Goto(c, "hungInit") /\ UNCHANGED ThreadLock
                      ELSE Goto(c, AfterInit(c)) /\ ThreadLock' = 0
  /\ launches' = launches + 1
  /\ UNCHANGED <<ThreadArray, arrays, NumberThreads, statistics, coreVars, SyscallSpinLock,
                 call, ThreadOBJ, TmpArray, TmpStack, damaged>>

(* Faulty variant: the old array is freed first. *)
NewArray_FreesFirst(c) ==
  /\ pc[c] = "init"
  /\ ClosedSlots = {}
  /\ ~outOfMemory
  /\ \E b \in Available \cup ({ThreadArray} \ {Null}) :
       /\ used' = (used \ {ThreadArray}) \cup {b}
       /\ data' = [data EXCEPT ![b] = [what |-> "array", of |-> arrays + 1]]
       /\ TmpArray' = [TmpArray EXCEPT ![c] = b]
  /\ Goto(c, "initStack")
  /\ UNCHANGED <<failures, outOfMemory, arrayVars, statistics, coreVars, lockVars, call,
                 ThreadOBJ, TmpStack, child, damaged>>

(* Otherwise a longer array is made and a stack, then the old array is     *)
(* freed, then the new one is put in its place.                            *)
NewArray(c) ==
  /\ pc[c] = "init"
  /\ ClosedSlots = {}
  /\ \E b \in Pointer :
       /\ Malloc(b, [what |-> "array", of |-> arrays + 1])
       /\ TmpArray' = [TmpArray EXCEPT ![c] = b]
       /\ Goto(c, IF b = Null THEN "hungInit" ELSE "initStack")
  /\ UNCHANGED <<arrayVars, statistics, coreVars, lockVars, call, ThreadOBJ, TmpStack,
                 child, damaged>>

NewStack(c) ==
  /\ pc[c] = "initStack"
  /\ \E b \in Pointer :
       /\ Malloc(b, [what |-> "stack", of |-> launches + 1])
       /\ TmpStack' = [TmpStack EXCEPT ![c] = b]
       /\ Goto(c, IF b = Null THEN "hungInit" ELSE "initFree")
  /\ UNCHANGED <<arrayVars, statistics, coreVars, lockVars, call, ThreadOBJ, TmpArray,
                 child, damaged>>

(* Faulty variant: the old array is not freed. *)
FreeArray_Forgotten(c) ==
  /\ pc[c] = "initFree"
  /\ Goto(c, "initPublish")
  /\ UNCHANGED <<heapVars, arrayVars, statistics, coreVars, lockVars, localVars, damaged>>

(* Faulty variant: the new array is freed. *)
FreeArray_New(c) ==
  /\ pc[c] = "initFree"
  /\ Free(TmpArray[c])
  /\ Goto(c, "initPublish")
  /\ UNCHANGED <<arrayVars, statistics, coreVars, lockVars, localVars, damaged>>

FreeArray(c) ==
  /\ pc[c] = "initFree"
  /\ Free(ThreadArray)
  /\ Goto(c, "initPublish")
  /\ UNCHANGED <<arrayVars, statistics, coreVars, lockVars, localVars, damaged>>

PublishArray(c) ==
  /\ pc[c] = "initPublish"
  /\ \E d \in Core :
       /\ LeastUsed(d)
       /\ threads' = [threads EXCEPT ![NumberThreads] = NewThread(d, TmpStack[c])]
  /\ child' = [child EXCEPT ![c] = NumberThreads]
  /\ NumberThreads' = NumberThreads + 1
  /\ ThreadArray' = TmpArray[c]
  /\ arrays' = arrays + 1
  /\ launches' = launches + 1
  /\ TmpArray' = [TmpArray EXCEPT ![c] = Null]
  /\ TmpStack' = [TmpStack EXCEPT ![c] = Null]
  /\ ThreadLock' = 0
  /\ Goto(c, AfterInit(c))
  /\ UNCHANGED <<heapVars, statistics, coreVars, SyscallSpinLock, call, ThreadOBJ, damaged>>
-----------------------------------------------------------------------------
(***************************************************************************)
(* The other system calls that touch this memory.                          *)
(***************************************************************************)
(* The entry that the pointer of the system call still finds in memory.    *)
StillThere(p) == p.array # Null /\ data[p.array] = [what |-> "array", of |-> p.of]

(* LoadAppNonBG reads its core's number through the pointer it was given,  *)
(* into an array that InitThread may have freed: the number is right, or   *)
(* anything if the memory has been given out again.  Where a number that   *)
(* is no core's leads it, behind CoreCurrentThreadID and then behind       *)
(* ThreadArray, is not known.                                              *)
Adopt(c) ==
  /\ pc[c] = "adopt"
  /\ ThreadLock = 0
  /\ \E d \in Core :
       /\ StillThere(ThreadOBJ[c]) => d = c
       /\ threads' = [threads EXCEPT
                        ![child[c]].ThreadParentIndex = CoreCurrentThreadID[d],
                        ![CoreCurrentThreadID[d]].ThreadState = Waiting]
  /\ UNCHANGED damaged \/ (~StillThere(ThreadOBJ[c]) /\ damaged' = TRUE)
  /\ Goto(c, "endSyscall")
  /\ UNCHANGED <<heapVars, ThreadArray, arrays, NumberThreads, launches, statistics,
                 coreVars, lockVars, localVars>>

(* Exit frees StackPTR - 0x1000.  StackPTR is the frame saved at this      *)
(* system call, which is inside the stack: the address lies below it.      *)
(* Mostly no block begins there, and Free does nothing.                    *)
Exit(c) ==
  /\ pc[c] = "exit"
  /\ ThreadLock = 0
  /\ LET s == ThreadOBJ[c].slot
         p == threads[s].ThreadParentIndex
         closed == [threads EXCEPT ![s].ThreadState = Closed, ![s].stack = Null]
     IN  /\ threads' = IF closed[p].ThreadState = Waiting
                         THEN [closed EXCEPT ![p].ThreadState = Restarting]
                         ELSE closed
         /\ \/ UNCHANGED <<used, damaged>>
            \/ \E b \in used \ {threads[s].stack} :
                 used' = used \ {b} /\ damaged' = TRUE
  /\ Goto(c, "endSyscall")
  /\ UNCHANGED <<data, failures, outOfMemory, ThreadArray, arrays, NumberThreads, launches,
                 statistics, coreVars, lockVars, localVars>>
-----------------------------------------------------------------------------
(***************************************************************************)
(* The counts.                                                             *)
(***************************************************************************)
(* Only the first of the three pointers is looked at.                      *)
TestStatistics(c) ==
  /\ pc[c] = "statistics"
  /\ Goto(c, IF statistics["AvgCoreSpeed"] = Null THEN "AvgCoreSpeed" ELSE "wantSwitch")
  /\ UNCHANGED <<heapVars, arrayVars, statistics, coreVars, lockVars, localVars, damaged>>

AfterStatistic(a) == CASE a = "AvgCoreSpeed"      -> "NumberIntsPerCore"
                       [] a = "NumberIntsPerCore" -> "CorePrintInfo"
                       [] OTHER                   -> "wantSwitch"

(* Faulty variant: the last two blocks go to one pointer. *)
MakeStatistics_SamePointer(c) ==
  /\ pc[c] \in Statistics
  /\ \E b \in Pointer :
       /\ Malloc(b, [what |-> pc[c], of |-> 0])
       /\ statistics' = IF pc[c] = "CorePrintInfo"
                          THEN [statistics EXCEPT !["NumberIntsPerCore"] = b]
                          ELSE [statistics EXCEPT ![pc[c]] = b]
  /\ Goto(c, AfterStatistic(pc[c]))
  /\ UNCHANGED <<arrayVars, coreVars, lockVars, localVars, damaged>>

(* Malloc three times, each result stored at once.                         *)
MakeStatistics(c) ==
  /\ pc[c] \in Statistics
  /\ \E b \in Pointer : /\ Malloc(b, [what |-> pc[c], of |-> 0])
                        /\ statistics' = [statistics EXCEPT ![pc[c]] = b]
  /\ Goto(c, AfterStatistic(pc[c]))
  /\ UNCHANGED <<arrayVars, coreVars, lockVars, localVars, damaged>>

(* SwitchTask, with the core's threads in any order: one that can run is   *)
(* resumed, else the core goes idle (which core 0 does not survive, see    *)
(* Scheduler).                                                             *)
SwitchTask(c) ==
  /\ pc[c] = "wantSwitch"
  /\ ThreadLock = 0
  /\ \E s \in Used :
       LET mine  == {t \in Used : threads[t].CoreUsing = c}
           ready == s \in mine /\ threads[s].ThreadState \in {Normal, Restarting}
       IN  /\ s \in mine \/ (mine = {} /\ s = CoreCurrentThreadID[c])
           /\ CoreCurrentThreadID' = [CoreCurrentThreadID EXCEPT ![c] = s]
           /\ idle' = [idle EXCEPT ![c] = ~ready]
           /\ threads' = IF ready THEN [threads EXCEPT ![s].ThreadState = Normal]
                                  ELSE threads
           /\ Goto(c, IF ~ready /\ c = 0 THEN "stopped" ELSE "run")
  /\ UNCHANGED <<heapVars, ThreadArray, arrays, NumberThreads, launches, statistics,
                 lockVars, localVars, damaged>>

(* Before the first thread the handler just returns, and takes no lock.    *)
SwitchNone(c) ==
  /\ pc[c] = "wantSwitch"
  /\ NumberThreads = 0
  /\ Goto(c, "run")
  /\ UNCHANGED <<heapVars, arrayVars, statistics, coreVars, lockVars, localVars, damaged>>
-----------------------------------------------------------------------------
Take(c) == \/ Save(c) \/ TakeSyscallLock(c) \/ CountLoads(c)
           \/ Adopt(c) \/ Exit(c) \/ SwitchTask(c)

Handle(c) ==
  \/ Interrupt(c) \/ EndSyscall(c)
  \/ ReuseEntry(c) \/ NewArray(c) \/ NewStack(c) \/ FreeArray(c) \/ PublishArray(c)
  \/ TestStatistics(c) \/ MakeStatistics(c) \/ SwitchNone(c)
  \/ MallocOutOfMemory(c)

(* What becomes of memory that is freed or stored to by mistake is not followed. *)
Next == /\ ~damaged
        /\ \E c \in Core : \/ Take(c) \/ Handle(c)
                           \/ \E f \in Calls : Syscall(c, f)

Spec == Init /\ [][Next]_vars
-----------------------------------------------------------------------------
(***************************************************************************)
(* Properties.  Those about the heap hold until Exit frees a block that    *)
(* happens to begin where it takes the stack to begin, or LoadAppNonBG     *)
(* stores to memory that is not its thread's or its core's.                *)
(***************************************************************************)
Open(s) == s \in Used /\ threads[s].ThreadState # Closed

(* The array of threads and the stack of each thread that is not closed    *)
(* are in blocks that are allocated and hold nothing else, while           *)
(* InitThread replaces the array and reuses entries and while cores make   *)
(* their counts.  (Between the Free of the old array and the store of the  *)
(* new pointer the array in use is a freed block, still untouched unless   *)
(* another core allocates: then only the lock-free readers can see it.)    *)
MemoryKept ==
  ~damaged =>
    /\ \/ ThreadArray = Null
       \/ \E c \in Core : pc[c] = "initPublish"
       \/ ThreadArray \in used /\ data[ThreadArray] = [what |-> "array", of |-> arrays]
    /\ \A c \in Core : pc[c] = "initPublish" => {TmpArray[c], TmpStack[c]} \subseteq used
    /\ \A s \in Slot : Open(s) /\ threads[s].stack # Null =>
         /\ threads[s].stack \in used
         /\ data[threads[s].stack] = [what |-> "stack", of |-> threads[s].launch]

(* Each block is what it is taken for.                                     *)
BlocksKept == TypeOK /\ MemoryKept

Lost(a) == {b \in used : data[b].what = a /\ statistics[a] # b}

(* However the cores race to make the counts, each makes them once for     *)
(* each call of Malloc that failed, and once more.                         *)
FewLost ==
  \A a \in Statistics : Cardinality(Lost(a)) < NumberCores * (failures + 1)

(* What is allocated and no longer reachable is known: the stack of a      *)
(* thread that has exited, which Exit never frees, and counts that another *)
(* core has replaced (FewLost).  The array of threads is never lost.       *)
LeaksKnown ==
  /\ FewLost
  /\ \A b \in used :
       CASE data[b].what = "array" -> b = ThreadArray \/ \E c \in Core : b = TmpArray[c]
         [] data[b].what = "stack" ->
              \/ \E s \in Slot : threads[s].stack = b
              \/ \E c \in Core : b = TmpStack[c]
              \/ data[b].of <= launches
                 /\ \A s \in Slot : Open(s) => threads[s].launch # data[b].of
         [] OTHER -> data[b].what \in Statistics

MakesStatistics(c) == pc[c] \in Statistics

(* Interrupts count in CorePrintInfo as soon as AvgCoreSpeed is there; it  *)
(* is still null, and the counts go to address 4 * core, only while some   *)
(* core is at making it (or Malloc has failed).                            *)
HalfMadeBriefly ==
  statistics["AvgCoreSpeed"] # Null /\ (\E a \in Statistics : statistics[a] = Null)
    => failures > 0 \/ outOfMemory \/ \E c \in Core : MakesStatistics(c)

(* LoadAppNonBG reads its entry after InitThread has freed the array it is *)
(* in (Syscall.cpp:110): no stack and no new array can have taken the      *)
(* place, only the counts of a core that takes its very first interrupts.  *)
StaleReadGood ==
  \A c \in Core : pc[c] = "adopt" /\ ~damaged =>
    \/ StillThere(ThreadOBJ[c])
    \/ data[ThreadOBJ[c].array].what \in Statistics

(* A core that finds no memory in InitThread keeps Thread::SpinLock for    *)
(* ever: no thread is made, closed or switched to any more, and each other *)
(* core stays in its handler from the next interrupt on.                   *)
HangFreezes ==
  [][NumberThreads # 0 /\ (\E c \in Core : pc[c] = "hungInit") =>
       /\ UNCHANGED <<threads, NumberThreads, CoreCurrentThreadID>>
       /\ \A d \in Core : pc[d] \in {"wantSave", "wantSwitch"} => pc'[d] = pc[d]]_vars
=============================================================================
