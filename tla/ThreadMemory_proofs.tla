------------------------- MODULE ThreadMemory_proofs -------------------------
(***************************************************************************)
(* The memory of the thread code, for every number of cores and threads,   *)
(* however much memory there is and however often Malloc fails: blocks     *)
(* hold what they are taken for, what is lost is known, and a core that    *)
(* hangs in InitThread stops the others.                                   *)
(***************************************************************************)
EXTENDS ThreadMemory, FiniteSetTheorems, TLAPS

-----------------------------------------------------------------------------
(***************************************************************************)
(* Where the cores are.                                                    *)
(***************************************************************************)
AtInit == {"init", "initStack", "initFree", "initPublish", "hungInit"}
Launching(c) == pc[c] = "wantInit" \/ pc[c] \in AtInit
InSyscall(c) == call[c] \in Calls /\ pc[c] \notin {"wantSave", "wantSyscall"}

(* The call a core handles fits the place it is at.                        *)
CallFits ==
  \A c \in Core :
    /\ call[c] = "timer" =>
         pc[c] \in {"run", "stopped", "hung", "wantSave", "statistics", "wantSwitch"}
                     \cup Statistics
    /\ call[c] = "boot" => c = 0 /\ (pc[c] = "run" \/ Launching(c))
    /\ call[c] = "exit" => pc[c] \in {"wantSave", "wantSyscall", "exit", "endSyscall"}
    /\ call[c] \in {"load", "loadNonBG"} =>
         \/ Launching(c)
         \/ pc[c] \in {"wantSave", "wantSyscall", "adopt", "endSyscall"}
    /\ pc[c] = "adopt" => call[c] = "loadNonBG"

(* Until the boot code has made the first thread there is nothing to run.  *)
BootFirst ==
  /\ call[0] = "boot" /\ Launching(0) => NumberThreads = 0 /\ launches = 0
  /\ NumberThreads = 0 => \A c \in Core : idle[c]
  /\ \A c \in Core : call[c] \in Calls => ~idle[c]

(* The locks are held, each by one core.                                   *)
LocksHeld ==
  /\ \A c \in Core : pc[c] \in AtInit => ThreadLock = 1
  /\ \A c \in Core : InSyscall(c) => SyscallSpinLock = 1
  /\ \A c, d \in Core : InSyscall(c) /\ InSyscall(d) => c = d
  /\ \A c \in Core : InSyscall(c) => ThreadOBJ[c].slot = CoreCurrentThreadID[c]

(* There is room for the thread that a core is about to make.              *)
RoomForOne ==
  /\ arrays = NumberThreads
  /\ NumberThreads <= launches
  /\ \A c \in Core : Launching(c) /\ pc[c] # "hungInit" => launches < MaxLaunches

CInv == TypeOK /\ CallFits /\ BootFirst /\ LocksHeld /\ RoomForOne

(***************************************************************************)
(* The threads.                                                            *)
(***************************************************************************)
(* A core that executes a thread, until the thread's call has ended.       *)
Running(c) == ~idle[c] /\ (pc[c] = "run" \/ (call[c] \in Calls /\ pc[c] # "endSyscall"))

RunsItsOwn ==
  /\ \A c \in Core : CoreCurrentThreadID[c] \in Used \/ CoreCurrentThreadID[c] = 0
  /\ \A c \in Core : Running(c) =>
       /\ Open(CoreCurrentThreadID[c])
       /\ threads[CoreCurrentThreadID[c]].CoreUsing = c

(* Each thread is known by its launch.                                     *)
LaunchesApart ==
  /\ \A s \in Slot : IF s \in Used THEN threads[s].launch \in 1..launches
                                   ELSE threads[s].stack = Null
  /\ \A r, s \in Used : threads[r].launch = threads[s].launch => r = s

(* A core that makes a longer array has found no entry to reuse.           *)
NoneClosed ==
  \A c \in Core : pc[c] \in {"initStack", "initFree", "initPublish"} => ClosedSlots = {}

TInv == RunsItsOwn /\ LaunchesApart /\ NoneClosed

(***************************************************************************)
(* The blocks.                                                             *)
(***************************************************************************)
ArrayData(b, n) == b \in used /\ data[b] = [what |-> "array", of |-> n]
StackData(b, n) == b \in used /\ data[b] = [what |-> "stack", of |-> n]

(* What InitThread has made so far, and what the array holds.              *)
MadeKept ==
  \A c \in Core :
    /\ pc[c] \in {"initStack", "initFree", "initPublish"} =>
         ArrayData(TmpArray[c], arrays + 1)
    /\ pc[c] \in {"initFree", "initPublish"} => StackData(TmpStack[c], launches + 1)

ArrayKept ==
  \/ NumberThreads = 0 /\ ThreadArray = Null
  \/ \E c \in Core : pc[c] = "initPublish"
  \/ ArrayData(ThreadArray, arrays)

StacksKept ==
  \A s \in Slot : threads[s].stack # Null =>
    StackData(threads[s].stack, threads[s].launch)

(* A pointer into the array of threads: good until the array is replaced,  *)
(* and even then nothing but counts can be in its place.                   *)
Overwritten(p) == p.array # Null /\ data[p.array].what \in Statistics

PointersKept ==
  \A c \in Core :
    /\ InSyscall(c) /\ pc[c] \notin {"initPublish", "adopt", "endSyscall"} =>
         ThreadOBJ[c].array = ThreadArray /\ ThreadOBJ[c].of = arrays
    /\ InSyscall(c) /\ pc[c] \in {"initPublish", "adopt"} =>
         StillThere(ThreadOBJ[c]) \/ Overwritten(ThreadOBJ[c])
    /\ pc[c] = "adopt" =>
         \/ ThreadOBJ[c].array = ThreadArray /\ ThreadOBJ[c].of = arrays
         \/ ClosedSlots = {}

MInv == ~damaged => MadeKept /\ ArrayKept /\ StacksKept /\ PointersKept

(* What is in use is known.                                                *)
NoneLeft ==
  \A c \in Core :
    /\ pc[c] \notin {"initStack", "initFree", "initPublish", "hungInit"} => TmpArray[c] = Null
    /\ pc[c] \notin {"initFree", "initPublish", "hungInit"} => TmpStack[c] = Null
ArraysKnown ==
  \A b \in used : data[b].what = "array" => b = ThreadArray \/ \E c \in Core : b = TmpArray[c]
StacksKnown ==
  \A b \in used : data[b].what = "stack" =>
    \/ \E s \in Slot : threads[s].stack = b
    \/ \E c \in Core : b = TmpStack[c]
    \/ data[b].of \in 1..launches /\ \A s \in Slot : Open(s) => threads[s].launch # data[b].of
NothingUnused == \A b \in used : data[b].what # "nothing"
OldArrayGone ==
  \A c \in Core : pc[c] = "initPublish" /\ ThreadArray \in used =>
    data[ThreadArray].what \in Statistics

UInv == NoneLeft /\ ArraysKnown /\ StacksKnown /\ NothingUnused /\ OldArrayGone

(***************************************************************************)
(* The counts.                                                             *)
(***************************************************************************)
HalfMade ==
  failures = 0 /\ ~outOfMemory /\ statistics["AvgCoreSpeed"] # Null =>
    /\ \/ statistics["NumberIntsPerCore"] # Null
       \/ \E c \in Core : pc[c] = "NumberIntsPerCore"
    /\ \/ statistics["CorePrintInfo"] # Null
       \/ \E c \in Core : pc[c] \in {"NumberIntsPerCore", "CorePrintInfo"}

Made(a) == {b \in used : data[b].what = a}
UpTo(a) == CASE a = "AvgCoreSpeed"      -> {"AvgCoreSpeed"}
             [] a = "NumberIntsPerCore" -> {"AvgCoreSpeed", "NumberIntsPerCore"}
             [] OTHER                   -> Statistics
Makers(a) == {c \in Core : pc[c] \in UpTo(a)}
Past(a) == {c \in Core : pc[c] \in UpTo(a) \ {"AvgCoreSpeed"}}
Bound(n) == NumberCores * (n + 1)

(* A core that is at making the counts makes each block once more; while   *)
(* there is no block of the first kind, it may then start again.           *)
CountsBounded ==
  \A a \in Statistics :
    /\ Cardinality(Made(a)) + Cardinality(Makers(a)) <= Bound(failures)
    /\ statistics["AvgCoreSpeed"] = Null =>
         Cardinality(Made(a)) + Cardinality(Past(a)) + NumberCores <= Bound(failures)
    /\ Cardinality(Lost(a)) < Bound(failures)

SInv == HalfMade /\ CountsBounded

-----------------------------------------------------------------------------
(***************************************************************************)
(* Cores and locks.                                                        *)
(***************************************************************************)
LEMMA ConstantFacts ==
  /\ NumberCores \in Nat \ {0} /\ MaxLaunches \in Nat \ {0}
  /\ MaxBlocks \in Nat /\ MaxFailures \in Nat
  /\ 0 \in Core /\ 0 \in Slot /\ Slot \subseteq Nat /\ Core \subseteq Nat
  /\ Null \in Pointer /\ Null \notin Block
BY ConstantsAssumption DEF Core, Slot, Null, Pointer, Block

(* Cores make threads one at a time, and not while a core is elsewhere in  *)
(* a system call.                                                          *)
LEMMA OneAtInit ==
  ASSUME CInv
  PROVE  /\ \A c, d \in Core : Launching(c) /\ Launching(d) => c = d
         /\ \A c, d \in Core : Launching(c) /\ InSyscall(d) => c = d
<1>1. ASSUME NEW c \in Core, Launching(c)
      PROVE  InSyscall(c) \/ (call[c] = "boot" /\ c = 0 /\ \A d \in Core : idle[d])
  BY <1>1, ConstantFacts DEF CInv, TypeOK, CallFits, BootFirst, InSyscall, Launching, AtInit,
     Calls, Statistics
<1>2. \A c \in Core : InSyscall(c) => ~idle[c]
  BY DEF CInv, BootFirst, InSyscall
<1>3. \A c, d \in Core : InSyscall(c) /\ InSyscall(d) => c = d
  BY DEF CInv, LocksHeld
<1> QED BY <1>1, <1>2, <1>3

(* Values of the records that the steps put together.                      *)
LEMMA Records ==
  /\ NoThread \in Threads
  /\ \A d \in Core, b \in Pointer, n \in 0..MaxLaunches :
       [CoreUsing |-> d, ThreadState |-> Normal, ThreadParentIndex |-> 0,
        stack |-> b, launch |-> n] \in Threads
  /\ \A b \in Pointer, n \in 0..MaxLaunches, s \in Slot :
       [array |-> b, of |-> n, slot |-> s] \in
         [array : Pointer, of : 0..MaxLaunches, slot : Slot]
  /\ \A n \in 0..MaxLaunches, w \in Statistics \cup {"array", "stack", "nothing"} :
       [what |-> w, of |-> n] \in Data
BY ConstantFacts DEF NoThread, Threads, Normal, Closed, Data

LEMMA FieldTypes ==
  ASSUME NEW f \in [Slot -> Threads], NEW s \in Slot
  PROVE  /\ f[s].CoreUsing \in Core /\ f[s].ThreadParentIndex \in Slot
         /\ f[s].stack \in Pointer /\ f[s].launch \in 0..MaxLaunches
         /\ \A x \in {Normal, Closed, Waiting, Restarting} :
              [f EXCEPT ![s].ThreadState = x] \in [Slot -> Threads]
         /\ \A p \in Slot : [f EXCEPT ![s].ThreadParentIndex = p] \in [Slot -> Threads]
         /\ [f EXCEPT ![s].stack = Null] \in [Slot -> Threads]
         /\ \A t \in Threads : [f EXCEPT ![s] = t] \in [Slot -> Threads]
<1>1. f[s] \in Threads
  OBVIOUS
<1> QED BY <1>1, ConstantFacts DEF Threads

LEMMA LaunchRoom ==
  ASSUME CInv, NEW c \in Core, pc[c] \in {"init", "initStack", "initPublish"}
  PROVE  /\ launches + 1 \in 0..MaxLaunches /\ arrays + 1 \in 0..MaxLaunches
         /\ NumberThreads \in Slot /\ NumberThreads + 1 \in 0..MaxLaunches
BY ConstantFacts DEF CInv, RoomForOne, TypeOK, Launching, AtInit, Slot

(* A call of Malloc gives out a block that is not in use, or fails.        *)
LEMMA MallocEffect ==
  ASSUME TypeOK, NEW b \in Pointer, NEW d \in Data, Malloc(b, d)
  PROVE  /\ ~outOfMemory /\ ~outOfMemory' /\ outOfMemory' \in BOOLEAN
         /\ used' \subseteq Block /\ data' \in [Block -> Data]
         /\ failures' \in 0..MaxFailures /\ failures' >= failures
         /\ b # Null => /\ b \in Block /\ b \notin used
                        /\ used' = used \cup {b}
                        /\ data' = [data EXCEPT ![b] = d]
                        /\ failures' = failures
         /\ b = Null => /\ used' = used /\ data' = data
                        /\ failures' = failures + 1
BY ConstantFacts DEF TypeOK, Malloc, Available

LEMMA TypeStep ==
  ASSUME CInv, [Next]_vars
  PROVE  TypeOK'
<1> USE DEF CInv, TypeOK
<1>1. ASSUME NEW c \in Core, ~damaged, Interrupt(c)
      PROVE  TypeOK'
  BY <1>1, ConstantFacts DEF Interrupt, Enter, Goto, PCs, Calls, Statistics,
     heapVars, arrayVars, coreVars, lockVars, localVars
<1>2. ASSUME NEW c \in Core, NEW f \in Calls, ~damaged, Syscall(c, f)
      PROVE  TypeOK'
  BY <1>2, ConstantFacts DEF Syscall, Enter, Goto, PCs, Calls, Statistics,
     heapVars, arrayVars, coreVars, lockVars, localVars
<1>3. ASSUME NEW c \in Core, ~damaged, Save(c)
      PROVE  TypeOK'
  BY <1>3, ConstantFacts DEF Save, Goto, PCs, Calls, Statistics, heapVars,
     arrayVars, coreVars, lockVars, localVars
<1>4. ASSUME NEW c \in Core, ~damaged, TakeSyscallLock(c)
      PROVE  TypeOK'
  BY <1>4, ConstantFacts DEF TakeSyscallLock, Goto, PCs, heapVars, arrayVars,
     coreVars, lockVars, localVars
<1>5. ASSUME NEW c \in Core, ~damaged, EndSyscall(c)
      PROVE  TypeOK'
  BY <1>5, ConstantFacts DEF EndSyscall, Goto, PCs, NoPointer, heapVars,
     arrayVars, coreVars, lockVars, localVars
<1>6. ASSUME NEW c \in Core, ~damaged, CountLoads(c)
      PROVE  TypeOK'
  BY <1>6, ConstantFacts DEF CountLoads, Goto, PCs, Calls, Statistics, heapVars,
     arrayVars, coreVars, lockVars, localVars
<1>7. ASSUME NEW c \in Core, ~damaged, ReuseEntry(c)
      PROVE  TypeOK'
  <2>1. PICK s \in ClosedSlots, d \in Core, b \in Pointer :
          /\ Malloc(b, [what |-> "stack", of |-> launches + 1])
          /\ threads' = [threads EXCEPT ![s] = NewThread(d, b)]
          /\ child' = [child EXCEPT ![c] = s]
          /\ IF b = Null THEN Goto(c, "hungInit") /\ UNCHANGED ThreadLock
                         ELSE Goto(c, AfterInit(c)) /\ ThreadLock' = 0
    BY <1>7 DEF ReuseEntry
  <2>2. [what |-> "stack", of |-> launches + 1] \in Data /\ launches' \in 0..MaxLaunches
    BY <1>7, LaunchRoom, Records DEF ReuseEntry
  <2>3. pc' \in [Core -> PCs]
    BY <2>1 DEF Goto, AfterInit, PCs
  <2>4. threads' \in [Slot -> Threads] /\ child' \in [Core -> Slot] /\ ThreadLock' \in 0..1
    BY <1>7, <2>1, <2>2, Records, FieldTypes DEF NewThread, ReuseEntry, ClosedSlots, Used
  <2> QED BY <1>7, <2>1, <2>2, <2>3, <2>4, MallocEffect DEF ReuseEntry, coreVars
<1>8. ASSUME NEW c \in Core, ~damaged, NewArray(c)
      PROVE  TypeOK'
  <2>1. PICK b \in Pointer : /\ Malloc(b, [what |-> "array", of |-> arrays + 1])
                             /\ TmpArray' = [TmpArray EXCEPT ![c] = b]
    BY <1>8 DEF NewArray
  <2>2. [what |-> "array", of |-> arrays + 1] \in Data
    BY <1>8, LaunchRoom, Records DEF NewArray
  <2>3. pc' \in [Core -> PCs]
    BY <1>8 DEF NewArray, Goto, PCs
  <2> QED BY <1>8, <2>1, <2>2, <2>3, MallocEffect DEF NewArray, arrayVars, coreVars, lockVars
<1>9. ASSUME NEW c \in Core, ~damaged, NewStack(c)
      PROVE  TypeOK'
  <2>1. PICK b \in Pointer : /\ Malloc(b, [what |-> "stack", of |-> launches + 1])
                             /\ TmpStack' = [TmpStack EXCEPT ![c] = b]
    BY <1>9 DEF NewStack
  <2>2. [what |-> "stack", of |-> launches + 1] \in Data
    BY <1>9, LaunchRoom, Records DEF NewStack
  <2>3. pc' \in [Core -> PCs]
    BY <1>9 DEF NewStack, Goto, PCs
  <2> QED BY <1>9, <2>1, <2>2, <2>3, MallocEffect DEF NewStack, arrayVars, coreVars, lockVars
<1>10. ASSUME NEW c \in Core, ~damaged, FreeArray(c)
      PROVE  TypeOK'
  BY <1>10, ConstantFacts DEF FreeArray, Free, Goto, PCs, Pointer, heapVars,
     arrayVars, coreVars, lockVars, localVars
<1>11. ASSUME NEW c \in Core, ~damaged, PublishArray(c)
      PROVE  TypeOK'
  BY <1>11, ConstantFacts, Records, FieldTypes, LaunchRoom DEF PublishArray,
     AfterInit, NewThread, Goto, PCs, Launching, AtInit, heapVars, arrayVars,
     coreVars, lockVars, localVars
<1>12. ASSUME NEW c \in Core, ~damaged, Adopt(c)
      PROVE  TypeOK'
  <2>1. PICK d \in Core :
          threads' = [threads EXCEPT
                        ![child[c]].ThreadParentIndex = CoreCurrentThreadID[d],
                        ![CoreCurrentThreadID[d]].ThreadState = Waiting]
    BY <1>12 DEF Adopt
  <2> DEFINE f == [threads EXCEPT ![child[c]].ThreadParentIndex = CoreCurrentThreadID[d]]
  <2>2. child[c] \in Slot /\ CoreCurrentThreadID[d] \in Slot
    OBVIOUS
  <2>3. f \in [Slot -> Threads]
    BY <2>2, FieldTypes
  <2>4. threads' = [f EXCEPT ![CoreCurrentThreadID[d]].ThreadState = Waiting]
    BY <2>1
  <2> HIDE DEF f
  <2>5. threads' \in [Slot -> Threads]
    BY <2>2, <2>3, <2>4, FieldTypes
  <2>6. pc' \in [Core -> PCs]
    BY <1>12 DEF Adopt, Goto, PCs
  <2> QED BY <1>12, <2>5, <2>6 DEF Adopt, heapVars, coreVars, lockVars, localVars
<1>13. ASSUME NEW c \in Core, ~damaged, Exit(c)
      PROVE  TypeOK'
  <2> DEFINE s == ThreadOBJ[c].slot
             p == threads[s].ThreadParentIndex
             f == [threads EXCEPT ![s].ThreadState = Closed]
             g == [threads EXCEPT ![s].ThreadState = Closed, ![s].stack = Null]
  <2>1. s \in Slot /\ p \in Slot
    <3>1. ThreadOBJ[c] \in [array : Pointer, of : 0..MaxLaunches, slot : Slot]
      OBVIOUS
    <3> QED BY <3>1, FieldTypes
  <2>2. f \in [Slot -> Threads]
    BY <2>1, FieldTypes
  <2>3. g = [f EXCEPT ![s].stack = Null]
    BY DEF Closed
  <2>4. threads' = g \/ threads' = [g EXCEPT ![p].ThreadState = Restarting]
    BY <1>13 DEF Exit
  <2>5. used' \subseteq Block /\ damaged' \in BOOLEAN
    BY <1>13 DEF Exit
  <2>6. pc' \in [Core -> PCs]
    BY <1>13 DEF Exit, Goto, PCs
  <2> HIDE DEF f, g, s, p
  <2>7. g \in [Slot -> Threads]
    BY <2>1, <2>2, <2>3, FieldTypes
  <2>8. threads' \in [Slot -> Threads]
    <3>1. [g EXCEPT ![p].ThreadState = Restarting] \in [Slot -> Threads]
      BY <2>1, <2>7, FieldTypes
    <3> QED BY <2>4, <2>7, <3>1
  <2> QED BY <1>13, <2>5, <2>6, <2>8 DEF Exit, coreVars, lockVars, localVars
<1>14. ASSUME NEW c \in Core, ~damaged, TestStatistics(c)
      PROVE  TypeOK'
  BY <1>14, ConstantFacts DEF TestStatistics, Goto, PCs, Calls, Statistics,
     heapVars, arrayVars, coreVars, lockVars, localVars
<1>15. ASSUME NEW c \in Core, ~damaged, MakeStatistics(c)
      PROVE  TypeOK'
  <2>1. PICK b \in Pointer : /\ Malloc(b, [what |-> pc[c], of |-> 0])
                             /\ statistics' = [statistics EXCEPT ![pc[c]] = b]
    BY <1>15 DEF MakeStatistics
  <2>2. [what |-> pc[c], of |-> 0] \in Data
    BY <1>15, ConstantFacts, Records, SMTT(30) DEF MakeStatistics
  <2>3. pc' \in [Core -> PCs]
    BY <1>15 DEF MakeStatistics, Goto, AfterStatistic, PCs
  <2> QED BY <1>15, <2>1, <2>2, <2>3, MallocEffect DEF MakeStatistics, arrayVars, coreVars,
             lockVars, localVars
<1>16. ASSUME NEW c \in Core, ~damaged, SwitchTask(c)
      PROVE  TypeOK'
  <2>1. PICK s \in Used :
          /\ CoreCurrentThreadID' = [CoreCurrentThreadID EXCEPT ![c] = s]
          /\ threads' \in {threads, [threads EXCEPT ![s].ThreadState = Normal]}
    BY <1>16 DEF SwitchTask
  <2>2. threads' \in [Slot -> Threads]
    <3>1. [threads EXCEPT ![s].ThreadState = Normal] \in [Slot -> Threads]
      BY FieldTypes DEF Used
    <3> QED BY <2>1, <3>1
  <2>3. idle' \in [Core -> BOOLEAN]
    BY <1>16 DEF SwitchTask
  <2>4. pc' \in [Core -> PCs]
    BY <1>16 DEF SwitchTask, Goto, PCs
  <2> QED BY <1>16, <2>1, <2>2, <2>3, <2>4 DEF SwitchTask, heapVars, lockVars, localVars, Used
<1>17. ASSUME NEW c \in Core, ~damaged, SwitchNone(c)
      PROVE  TypeOK'
  BY <1>17, ConstantFacts DEF SwitchNone, Goto, PCs, Calls, Statistics, heapVars,
     arrayVars, coreVars, lockVars, localVars
<1>18. ASSUME NEW c \in Core, ~damaged, MallocOutOfMemory(c)
      PROVE  TypeOK'
  BY <1>18, ConstantFacts DEF MallocOutOfMemory, Goto, PCs, Calls, Statistics,
     heapVars, arrayVars, coreVars, lockVars, localVars
<1>19. CASE UNCHANGED vars
  BY <1>19 DEF vars, heapVars, arrayVars, coreVars, lockVars, localVars
<1> QED BY <1>1, <1>2, <1>3, <1>4, <1>5, <1>6, <1>7, <1>8, <1>9, <1>10, <1>11,
     <1>12, <1>13, <1>14, <1>15, <1>16, <1>17, <1>18, <1>19 DEF Next, Take,
     Handle

(* An entry is reused only when there are entries.                         *)
LEMMA ReuseControl ==
  ASSUME CInv, NEW c \in Core, ReuseEntry(c)
  PROVE  /\ NumberThreads # 0 /\ pc[c] = "init"
         /\ launches' = launches + 1
         /\ UNCHANGED <<NumberThreads, arrays, call, ThreadOBJ, coreVars, SyscallSpinLock>>
         /\ \/ pc' = [pc EXCEPT ![c] = "hungInit"] /\ ThreadLock' = ThreadLock
            \/ pc' = [pc EXCEPT ![c] = AfterInit(c)] /\ ThreadLock' = 0
<1>1. NumberThreads # 0
  BY ConstantFacts DEF ReuseEntry, ClosedSlots, Used
<1> QED BY <1>1 DEF ReuseEntry, Goto

(* A thread makes a system call when there are threads.                    *)
LEMMA SyscallControl ==
  ASSUME CInv, NEW c \in Core, NEW f \in Calls, Syscall(c, f)
  PROVE  /\ NumberThreads # 0 /\ ~idle[c] /\ pc[c] = "run"
         /\ pc' = [pc EXCEPT ![c] = "wantSave"] /\ call' = [call EXCEPT ![c] = f]
         /\ UNCHANGED <<arrays, NumberThreads, launches, coreVars, lockVars, ThreadOBJ>>
BY DEF CInv, BootFirst, Syscall, Enter, Goto, arrayVars

LEMMA CallFitsStep ==
  ASSUME CInv, [Next]_vars
  PROVE  CallFits'
<1> USE ConstantFacts DEF CInv, TypeOK, Launching, InSyscall, AtInit, Calls,
     Statistics, CallFits
<1>1. ASSUME NEW c \in Core, ~damaged, Interrupt(c)
      PROVE  CallFits'
  BY <1>1 DEF Interrupt, Enter, Goto, heapVars, arrayVars, coreVars, lockVars,
     localVars
<1>2. ASSUME NEW c \in Core, NEW f \in Calls, ~damaged, Syscall(c, f)
      PROVE  CallFits'
  BY <1>2, SyscallControl DEF coreVars, lockVars
<1>3. ASSUME NEW c \in Core, ~damaged, Save(c)
      PROVE  CallFits'
  BY <1>3 DEF Save, Goto, heapVars, arrayVars, coreVars, lockVars, localVars
<1>4. ASSUME NEW c \in Core, ~damaged, TakeSyscallLock(c)
      PROVE  CallFits'
  BY <1>4 DEF TakeSyscallLock, Goto, heapVars, arrayVars, coreVars, lockVars,
     localVars
<1>5. ASSUME NEW c \in Core, ~damaged, EndSyscall(c)
      PROVE  CallFits'
  BY <1>5 DEF EndSyscall, Goto, heapVars, arrayVars, coreVars, lockVars,
     localVars
<1>6. ASSUME NEW c \in Core, ~damaged, CountLoads(c)
      PROVE  CallFits'
  BY <1>6 DEF CountLoads, Goto, heapVars, arrayVars, coreVars, lockVars,
     localVars
<1>7. ASSUME NEW c \in Core, ~damaged, ReuseEntry(c)
      PROVE  CallFits'
  BY <1>7 DEF ReuseEntry, AfterInit, NewThread, Goto, heapVars, arrayVars,
     coreVars, lockVars, localVars
<1>8. ASSUME NEW c \in Core, ~damaged, NewArray(c)
      PROVE  CallFits'
  BY <1>8 DEF NewArray, Goto, heapVars, arrayVars, coreVars, lockVars,
     localVars
<1>9. ASSUME NEW c \in Core, ~damaged, NewStack(c)
      PROVE  CallFits'
  BY <1>9 DEF NewStack, Goto, heapVars, arrayVars, coreVars, lockVars,
     localVars
<1>10. ASSUME NEW c \in Core, ~damaged, FreeArray(c)
      PROVE  CallFits'
  BY <1>10 DEF FreeArray, Free, Goto, heapVars, arrayVars, coreVars, lockVars,
     localVars
<1>11. ASSUME NEW c \in Core, ~damaged, PublishArray(c)
      PROVE  CallFits'
  BY <1>11 DEF PublishArray, AfterInit, NewThread, Goto, heapVars, arrayVars,
     coreVars, lockVars, localVars
<1>12. ASSUME NEW c \in Core, ~damaged, Adopt(c)
      PROVE  CallFits'
  BY <1>12 DEF Adopt, Goto, heapVars, arrayVars, coreVars, lockVars, localVars
<1>13. ASSUME NEW c \in Core, ~damaged, Exit(c)
      PROVE  CallFits'
  BY <1>13 DEF Exit, Goto, heapVars, arrayVars, coreVars, lockVars, localVars
<1>14. ASSUME NEW c \in Core, ~damaged, TestStatistics(c)
      PROVE  CallFits'
  BY <1>14 DEF TestStatistics, Goto, heapVars, arrayVars, coreVars, lockVars,
     localVars
<1>15. ASSUME NEW c \in Core, ~damaged, MakeStatistics(c)
      PROVE  CallFits'
  BY <1>15 DEF MakeStatistics, AfterStatistic, Goto, heapVars, arrayVars,
     coreVars, lockVars, localVars
<1>16. ASSUME NEW c \in Core, ~damaged, SwitchTask(c)
      PROVE  CallFits'
  BY <1>16 DEF SwitchTask, Goto, heapVars, arrayVars, coreVars, lockVars,
     localVars
<1>17. ASSUME NEW c \in Core, ~damaged, SwitchNone(c)
      PROVE  CallFits'
  BY <1>17 DEF SwitchNone, Goto, heapVars, arrayVars, coreVars, lockVars,
     localVars
<1>18. ASSUME NEW c \in Core, ~damaged, MallocOutOfMemory(c)
      PROVE  CallFits'
  BY <1>18 DEF MallocOutOfMemory, Goto, heapVars, arrayVars, coreVars,
     lockVars, localVars
<1>19. CASE UNCHANGED vars
  BY <1>19 DEF vars, heapVars, arrayVars, coreVars, lockVars, localVars
<1> QED BY <1>1, <1>2, <1>3, <1>4, <1>5, <1>6, <1>7, <1>8, <1>9, <1>10, <1>11,
     <1>12, <1>13, <1>14, <1>15, <1>16, <1>17, <1>18, <1>19 DEF Next, Take,
     Handle

LEMMA BootFirstStep ==
  ASSUME CInv, [Next]_vars
  PROVE  BootFirst'
<1> USE ConstantFacts, OneAtInit DEF CInv, CallFits, BootFirst, TypeOK,
     Launching, InSyscall, AtInit, Calls, Statistics
<1>1. ASSUME NEW c \in Core, ~damaged, Interrupt(c)
      PROVE  BootFirst'
  BY <1>1 DEF Interrupt, Enter, Goto, heapVars, arrayVars, coreVars, lockVars,
     localVars
<1>2. ASSUME NEW c \in Core, NEW f \in Calls, ~damaged, Syscall(c, f)
      PROVE  BootFirst'
  BY <1>2, SyscallControl DEF coreVars, lockVars
<1>3. ASSUME NEW c \in Core, ~damaged, Save(c)
      PROVE  BootFirst'
  BY <1>3 DEF Save, Goto, heapVars, arrayVars, coreVars, lockVars, localVars
<1>4. ASSUME NEW c \in Core, ~damaged, TakeSyscallLock(c)
      PROVE  BootFirst'
  BY <1>4 DEF TakeSyscallLock, Goto, heapVars, arrayVars, coreVars, lockVars,
     localVars
<1>5. ASSUME NEW c \in Core, ~damaged, EndSyscall(c)
      PROVE  BootFirst'
  BY <1>5 DEF EndSyscall, Goto, heapVars, arrayVars, coreVars, lockVars,
     localVars
<1>6. ASSUME NEW c \in Core, ~damaged, CountLoads(c)
      PROVE  BootFirst'
  BY <1>6 DEF CountLoads, Goto, heapVars, arrayVars, coreVars, lockVars,
     localVars
<1>7. ASSUME NEW c \in Core, ~damaged, ReuseEntry(c)
      PROVE  BootFirst'
  BY <1>7, ReuseControl DEF AfterInit, coreVars
<1>8. ASSUME NEW c \in Core, ~damaged, NewArray(c)
      PROVE  BootFirst'
  BY <1>8 DEF NewArray, Goto, heapVars, arrayVars, coreVars, lockVars,
     localVars
<1>9. ASSUME NEW c \in Core, ~damaged, NewStack(c)
      PROVE  BootFirst'
  BY <1>9 DEF NewStack, Goto, heapVars, arrayVars, coreVars, lockVars,
     localVars
<1>10. ASSUME NEW c \in Core, ~damaged, FreeArray(c)
      PROVE  BootFirst'
  BY <1>10 DEF FreeArray, Free, Goto, heapVars, arrayVars, coreVars, lockVars,
     localVars
<1>11. ASSUME NEW c \in Core, ~damaged, PublishArray(c)
      PROVE  BootFirst'
  BY <1>11 DEF PublishArray, AfterInit, NewThread, Goto, heapVars, arrayVars,
     coreVars, lockVars, localVars
<1>12. ASSUME NEW c \in Core, ~damaged, Adopt(c)
      PROVE  BootFirst'
  BY <1>12 DEF Adopt, Goto, heapVars, arrayVars, coreVars, lockVars, localVars
<1>13. ASSUME NEW c \in Core, ~damaged, Exit(c)
      PROVE  BootFirst'
  BY <1>13 DEF Exit, Goto, heapVars, arrayVars, coreVars, lockVars, localVars
<1>14. ASSUME NEW c \in Core, ~damaged, TestStatistics(c)
      PROVE  BootFirst'
  BY <1>14 DEF TestStatistics, Goto, heapVars, arrayVars, coreVars, lockVars,
     localVars
<1>15. ASSUME NEW c \in Core, ~damaged, MakeStatistics(c)
      PROVE  BootFirst'
  BY <1>15 DEF MakeStatistics, AfterStatistic, Goto, heapVars, arrayVars,
     coreVars, lockVars, localVars
<1>16. ASSUME NEW c \in Core, ~damaged, SwitchTask(c)
      PROVE  BootFirst'
  <2>1. NumberThreads # 0 /\ pc[c] = "wantSwitch" /\ pc' = [pc EXCEPT ![c] = pc'[c]]
    BY <1>16 DEF SwitchTask, Goto, Used
  <2>2. call[c] \notin Calls /\ call[c] # "boot"
    BY <2>1
  <2>3. pc'[c] \in {"run", "stopped"}
    BY <1>16 DEF SwitchTask, Goto
  <2>4. \A d \in Core : d # c => idle'[d] = idle[d]
    BY <1>16 DEF SwitchTask
  <2> QED BY <1>16, <2>1, <2>2, <2>3, <2>4 DEF SwitchTask, localVars
<1>17. ASSUME NEW c \in Core, ~damaged, SwitchNone(c)
      PROVE  BootFirst'
  BY <1>17 DEF SwitchNone, Goto, heapVars, arrayVars, coreVars, lockVars,
     localVars
<1>18. ASSUME NEW c \in Core, ~damaged, MallocOutOfMemory(c)
      PROVE  BootFirst'
  BY <1>18 DEF MallocOutOfMemory, Goto, heapVars, arrayVars, coreVars,
     lockVars, localVars
<1>19. CASE UNCHANGED vars
  BY <1>19 DEF vars, heapVars, arrayVars, coreVars, lockVars, localVars
<1> QED BY <1>1, <1>2, <1>3, <1>4, <1>5, <1>6, <1>7, <1>8, <1>9, <1>10, <1>11,
     <1>12, <1>13, <1>14, <1>15, <1>16, <1>17, <1>18, <1>19 DEF Next, Take,
     Handle

LEMMA LocksHeldStep ==
  ASSUME CInv, [Next]_vars
  PROVE  LocksHeld'
<1> USE ConstantFacts, OneAtInit DEF CInv, CallFits, LocksHeld, TypeOK,
     Launching, InSyscall, AtInit, Calls, Statistics
<1>1. ASSUME NEW c \in Core, ~damaged, Interrupt(c)
      PROVE  LocksHeld'
  BY <1>1 DEF Interrupt, Enter, Goto, heapVars, arrayVars, coreVars, lockVars,
     localVars
<1>2. ASSUME NEW c \in Core, NEW f \in Calls, ~damaged, Syscall(c, f)
      PROVE  LocksHeld'
  BY <1>2, SyscallControl DEF coreVars, lockVars
<1>3. ASSUME NEW c \in Core, ~damaged, Save(c)
      PROVE  LocksHeld'
  BY <1>3 DEF Save, Goto, heapVars, arrayVars, coreVars, lockVars, localVars
<1>4. ASSUME NEW c \in Core, ~damaged, TakeSyscallLock(c)
      PROVE  LocksHeld'
  BY <1>4 DEF TakeSyscallLock, Goto, heapVars, arrayVars, coreVars, lockVars,
     localVars
<1>5. ASSUME NEW c \in Core, ~damaged, EndSyscall(c)
      PROVE  LocksHeld'
  BY <1>5 DEF EndSyscall, Goto, heapVars, arrayVars, coreVars, lockVars,
     localVars
<1>6. ASSUME NEW c \in Core, ~damaged, CountLoads(c)
      PROVE  LocksHeld'
  BY <1>6 DEF CountLoads, Goto, heapVars, arrayVars, coreVars, lockVars,
     localVars
<1>7. ASSUME NEW c \in Core, ~damaged, ReuseEntry(c)
      PROVE  LocksHeld'
  <2>1. \A d \in Core : d # c => pc'[d] = pc[d] /\ pc[d] # "wantInit" /\ pc[d] \notin AtInit
    BY <1>7, ReuseControl
  <2>2. pc'[c] \in {"hungInit", "run", "endSyscall", "adopt"}
    BY <1>7, ReuseControl DEF AfterInit
  <2>3. pc'[c] = "hungInit" => ThreadLock' = ThreadLock
    BY <1>7, ReuseControl DEF AfterInit
  <2>4. call[c] \in Calls => InSyscall(c)
    BY <1>7, ReuseControl
  <2> QED BY <1>7, <2>1, <2>2, <2>3, <2>4, ReuseControl DEF coreVars
<1>8. ASSUME NEW c \in Core, ~damaged, NewArray(c)
      PROVE  LocksHeld'
  BY <1>8 DEF NewArray, Goto, heapVars, arrayVars, coreVars, lockVars,
     localVars
<1>9. ASSUME NEW c \in Core, ~damaged, NewStack(c)
      PROVE  LocksHeld'
  BY <1>9 DEF NewStack, Goto, heapVars, arrayVars, coreVars, lockVars,
     localVars
<1>10. ASSUME NEW c \in Core, ~damaged, FreeArray(c)
      PROVE  LocksHeld'
  BY <1>10 DEF FreeArray, Free, Goto, heapVars, arrayVars, coreVars, lockVars,
     localVars
<1>11. ASSUME NEW c \in Core, ~damaged, PublishArray(c)
      PROVE  LocksHeld'
  BY <1>11 DEF PublishArray, AfterInit, NewThread, Goto, heapVars, arrayVars,
     coreVars, lockVars, localVars
<1>12. ASSUME NEW c \in Core, ~damaged, Adopt(c)
      PROVE  LocksHeld'
  BY <1>12 DEF Adopt, Goto, heapVars, arrayVars, coreVars, lockVars, localVars
<1>13. ASSUME NEW c \in Core, ~damaged, Exit(c)
      PROVE  LocksHeld'
  BY <1>13, SMTT(30) DEF Exit, Goto, heapVars, arrayVars, coreVars, lockVars, localVars
<1>14. ASSUME NEW c \in Core, ~damaged, TestStatistics(c)
      PROVE  LocksHeld'
  BY <1>14 DEF TestStatistics, Goto, heapVars, arrayVars, coreVars, lockVars,
     localVars
<1>15. ASSUME NEW c \in Core, ~damaged, MakeStatistics(c)
      PROVE  LocksHeld'
  BY <1>15 DEF MakeStatistics, AfterStatistic, Goto, heapVars, arrayVars,
     coreVars, lockVars, localVars
<1>16. ASSUME NEW c \in Core, ~damaged, SwitchTask(c)
      PROVE  LocksHeld'
  BY <1>16 DEF SwitchTask, Goto, heapVars, arrayVars, coreVars, lockVars,
     localVars
<1>17. ASSUME NEW c \in Core, ~damaged, SwitchNone(c)
      PROVE  LocksHeld'
  BY <1>17 DEF SwitchNone, Goto, heapVars, arrayVars, coreVars, lockVars,
     localVars
<1>18. ASSUME NEW c \in Core, ~damaged, MallocOutOfMemory(c)
      PROVE  LocksHeld'
  BY <1>18 DEF MallocOutOfMemory, Goto, heapVars, arrayVars, coreVars,
     lockVars, localVars
<1>19. CASE UNCHANGED vars
  BY <1>19 DEF vars, heapVars, arrayVars, coreVars, lockVars, localVars
<1> QED BY <1>1, <1>2, <1>3, <1>4, <1>5, <1>6, <1>7, <1>8, <1>9, <1>10, <1>11,
     <1>12, <1>13, <1>14, <1>15, <1>16, <1>17, <1>18, <1>19 DEF Next, Take,
     Handle

LEMMA RoomForOneStep ==
  ASSUME CInv, [Next]_vars
  PROVE  RoomForOne'
<1> USE ConstantFacts, OneAtInit DEF CInv, CallFits, BootFirst, RoomForOne,
     TypeOK, Launching, InSyscall, AtInit, Calls, Statistics
<1>1. ASSUME NEW c \in Core, ~damaged, Interrupt(c)
      PROVE  RoomForOne'
  BY <1>1 DEF Interrupt, Enter, Goto, heapVars, arrayVars, coreVars, lockVars,
     localVars
<1>2. ASSUME NEW c \in Core, NEW f \in Calls, ~damaged, Syscall(c, f)
      PROVE  RoomForOne'
  BY <1>2 DEF Syscall, Enter, Goto, heapVars, arrayVars, coreVars, lockVars,
     localVars
<1>3. ASSUME NEW c \in Core, ~damaged, Save(c)
      PROVE  RoomForOne'
  BY <1>3 DEF Save, Goto, heapVars, arrayVars, coreVars, lockVars, localVars
<1>4. ASSUME NEW c \in Core, ~damaged, TakeSyscallLock(c)
      PROVE  RoomForOne'
  BY <1>4 DEF TakeSyscallLock, Goto, heapVars, arrayVars, coreVars, lockVars,
     localVars
<1>5. ASSUME NEW c \in Core, ~damaged, EndSyscall(c)
      PROVE  RoomForOne'
  BY <1>5 DEF EndSyscall, Goto, heapVars, arrayVars, coreVars, lockVars,
     localVars
<1>6. ASSUME NEW c \in Core, ~damaged, CountLoads(c)
      PROVE  RoomForOne'
  BY <1>6 DEF CountLoads, Goto, heapVars, arrayVars, coreVars, lockVars,
     localVars
<1>7. ASSUME NEW c \in Core, ~damaged, ReuseEntry(c)
      PROVE  RoomForOne'
  <2>1. \A d \in Core : d # c => pc'[d] = pc[d] /\ pc[d] # "wantInit" /\ pc[d] \notin AtInit
    BY <1>7, ReuseControl
  <2>2. pc'[c] \in {"hungInit", "run", "endSyscall", "adopt"}
    BY <1>7, ReuseControl DEF AfterInit
  <2>3. pc'[c] = "hungInit" => ThreadLock' = ThreadLock
    BY <1>7, ReuseControl DEF AfterInit
  <2>4. call[c] \in Calls => InSyscall(c)
    BY <1>7, ReuseControl
  <2> QED BY <1>7, <2>1, <2>2, <2>3, <2>4, ReuseControl DEF coreVars
<1>8. ASSUME NEW c \in Core, ~damaged, NewArray(c)
      PROVE  RoomForOne'
  BY <1>8 DEF NewArray, Goto, heapVars, arrayVars, coreVars, lockVars,
     localVars
<1>9. ASSUME NEW c \in Core, ~damaged, NewStack(c)
      PROVE  RoomForOne'
  BY <1>9 DEF NewStack, Goto, heapVars, arrayVars, coreVars, lockVars,
     localVars
<1>10. ASSUME NEW c \in Core, ~damaged, FreeArray(c)
      PROVE  RoomForOne'
  BY <1>10 DEF FreeArray, Free, Goto, heapVars, arrayVars, coreVars, lockVars,
     localVars
<1>11. ASSUME NEW c \in Core, ~damaged, PublishArray(c)
      PROVE  RoomForOne'
  BY <1>11 DEF PublishArray, AfterInit, NewThread, Goto, heapVars, arrayVars,
     coreVars, lockVars, localVars
<1>12. ASSUME NEW c \in Core, ~damaged, Adopt(c)
      PROVE  RoomForOne'
  BY <1>12 DEF Adopt, Goto, heapVars, arrayVars, coreVars, lockVars, localVars
<1>13. ASSUME NEW c \in Core, ~damaged, Exit(c)
      PROVE  RoomForOne'
  BY <1>13 DEF Exit, Goto, heapVars, arrayVars, coreVars, lockVars, localVars
<1>14. ASSUME NEW c \in Core, ~damaged, TestStatistics(c)
      PROVE  RoomForOne'
  BY <1>14 DEF TestStatistics, Goto, heapVars, arrayVars, coreVars, lockVars,
     localVars
<1>15. ASSUME NEW c \in Core, ~damaged, MakeStatistics(c)
      PROVE  RoomForOne'
  BY <1>15 DEF MakeStatistics, AfterStatistic, Goto, heapVars, arrayVars,
     coreVars, lockVars, localVars
<1>16. ASSUME NEW c \in Core, ~damaged, SwitchTask(c)
      PROVE  RoomForOne'
  BY <1>16 DEF SwitchTask, Goto, heapVars, arrayVars, coreVars, lockVars,
     localVars
<1>17. ASSUME NEW c \in Core, ~damaged, SwitchNone(c)
      PROVE  RoomForOne'
  BY <1>17 DEF SwitchNone, Goto, heapVars, arrayVars, coreVars, lockVars,
     localVars
<1>18. ASSUME NEW c \in Core, ~damaged, MallocOutOfMemory(c)
      PROVE  RoomForOne'
  BY <1>18 DEF MallocOutOfMemory, Goto, heapVars, arrayVars, coreVars,
     lockVars, localVars
<1>19. CASE UNCHANGED vars
  BY <1>19 DEF vars, heapVars, arrayVars, coreVars, lockVars, localVars
<1> QED BY <1>1, <1>2, <1>3, <1>4, <1>5, <1>6, <1>7, <1>8, <1>9, <1>10, <1>11,
     <1>12, <1>13, <1>14, <1>15, <1>16, <1>17, <1>18, <1>19 DEF Next, Take,
     Handle

-----------------------------------------------------------------------------
(***************************************************************************)
(* What the steps do to the threads.                                       *)
(***************************************************************************)
IsClosed(s) == threads[s].ThreadState = Closed

KeepsThread(s) ==
  /\ threads'[s].CoreUsing = threads[s].CoreUsing
  /\ threads'[s].stack = threads[s].stack
  /\ threads'[s].launch = threads[s].launch
  /\ threads'[s].ThreadState = Closed <=> threads[s].ThreadState = Closed

LEMMA StatesApart ==
  /\ Normal # Closed /\ Waiting # Closed /\ Restarting # Closed
  /\ Normal # Waiting /\ Restarting # Waiting
BY DEF Normal, Closed, Waiting, Restarting

LEMMA ReuseEffect ==
  ASSUME CInv, NEW c \in Core, ReuseEntry(c)
  PROVE  \E s \in ClosedSlots, d \in Core, b \in Pointer :
           /\ s \in Slot
           /\ Malloc(b, [what |-> "stack", of |-> launches + 1])
           /\ threads'[s] = NewThread(d, b)
           /\ \A t \in Slot : t # s => threads'[t] = threads[t]
<1>1. PICK s \in ClosedSlots, d \in Core, b \in Pointer :
        /\ Malloc(b, [what |-> "stack", of |-> launches + 1])
        /\ threads' = [threads EXCEPT ![s] = NewThread(d, b)]
  BY DEF ReuseEntry
<1>2. s \in Slot
  BY DEF ClosedSlots, Used
<1>3. threads'[s] = NewThread(d, b) /\ \A t \in Slot : t # s => threads'[t] = threads[t]
  BY <1>1, <1>2 DEF CInv, TypeOK
<1> QED BY <1>1, <1>2, <1>3

LEMMA PublishEffect ==
  ASSUME CInv, NEW c \in Core, PublishArray(c)
  PROVE  /\ NumberThreads \in Slot
         /\ \E d \in Core : threads'[NumberThreads] = NewThread(d, TmpStack[c])
         /\ \A t \in Slot : t # NumberThreads => threads'[t] = threads[t]
<1>1. NumberThreads \in Slot
  BY LaunchRoom DEF PublishArray
<1> QED BY <1>1 DEF PublishArray, CInv, TypeOK

(* The thread that LoadAppNonBG makes wait is the current one of a core.   *)
LEMMA AdoptEffect ==
  ASSUME CInv, NEW c \in Core, Adopt(c)
  PROVE  \E d \in Core :
           /\ StillThere(ThreadOBJ[c]) => d = c
           /\ threads'[CoreCurrentThreadID[d]].ThreadState = Waiting
           /\ \A t \in Slot :
                /\ threads'[t].CoreUsing = threads[t].CoreUsing
                /\ threads'[t].stack = threads[t].stack
                /\ threads'[t].launch = threads[t].launch
                /\ t # CoreCurrentThreadID[d] =>
                     threads'[t].ThreadState = threads[t].ThreadState
<1>1. PICK d \in Core :
        /\ StillThere(ThreadOBJ[c]) => d = c
        /\ threads' = [threads EXCEPT
                         ![child[c]].ThreadParentIndex = CoreCurrentThreadID[d],
                         ![CoreCurrentThreadID[d]].ThreadState = Waiting]
  BY DEF Adopt
<1> DEFINE k == CoreCurrentThreadID[d]
           f == [threads EXCEPT ![child[c]].ThreadParentIndex = k]
<1>2. threads \in [Slot -> Threads] /\ child[c] \in Slot /\ k \in Slot
  BY DEF CInv, TypeOK
<1>3. f \in [Slot -> Threads] /\ threads' = [f EXCEPT ![k].ThreadState = Waiting]
  BY <1>1, <1>2, FieldTypes
<1>4. \A t \in Slot : /\ f[t].CoreUsing = threads[t].CoreUsing
                      /\ f[t].stack = threads[t].stack
                      /\ f[t].launch = threads[t].launch
                      /\ f[t].ThreadState = threads[t].ThreadState
  <2>1. TAKE t \in Slot
  <2>2. threads[t] \in Threads
    BY <1>2
  <2>3. CASE t = child[c]
    <3>1. f[t] = [threads[t] EXCEPT !.ThreadParentIndex = k]
      BY <1>2, <2>3
    <3> QED BY <2>2, <3>1 DEF Threads
  <2>4. CASE t # child[c]
    BY <1>2, <2>4
  <2> QED BY <2>3, <2>4
<1> HIDE DEF f, k
<1>5. \A t \in Slot : /\ threads'[t].CoreUsing = f[t].CoreUsing
                      /\ threads'[t].stack = f[t].stack
                      /\ threads'[t].launch = f[t].launch
                      /\ t # k => threads'[t].ThreadState = f[t].ThreadState
                      /\ t = k => threads'[t].ThreadState = Waiting
  <2>1. TAKE t \in Slot
  <2>2. f[t] \in Threads
    BY <1>3
  <2>3. CASE t = k
    <3>1. threads'[t] = [f[t] EXCEPT !.ThreadState = Waiting]
      BY <1>2, <1>3, <2>3
    <3> QED BY <2>2, <2>3, <3>1 DEF Threads
  <2>4. CASE t # k
    <3>1. threads'[t] = f[t]
      BY <1>2, <1>3, <2>4
    <3> QED BY <2>4, <3>1
  <2> QED BY <2>3, <2>4
<1>6. \A t \in Slot : /\ threads'[t].CoreUsing = threads[t].CoreUsing
                      /\ threads'[t].stack = threads[t].stack
                      /\ threads'[t].launch = threads[t].launch
                      /\ t # k => threads'[t].ThreadState = threads[t].ThreadState
  <2>1. TAKE t \in Slot
  <2>2. f[t].CoreUsing = threads[t].CoreUsing /\ f[t].stack = threads[t].stack
        /\ f[t].launch = threads[t].launch /\ f[t].ThreadState = threads[t].ThreadState
    BY <1>4
  <2> QED BY <1>5, <2>2
<1>7. threads'[k].ThreadState = Waiting
  BY <1>2, <1>5
<1> QED BY <1>1, <1>6, <1>7 DEF k

(* Exit closes the thread that calls it, and no other.                     *)
LEMMA ExitEffect ==
  ASSUME CInv, NEW c \in Core, Exit(c)
  PROVE  /\ CoreCurrentThreadID[c] \in Slot
         /\ threads'[CoreCurrentThreadID[c]].ThreadState = Closed
         /\ threads'[CoreCurrentThreadID[c]].stack = Null
         /\ threads'[CoreCurrentThreadID[c]].CoreUsing = threads[CoreCurrentThreadID[c]].CoreUsing
         /\ threads'[CoreCurrentThreadID[c]].launch = threads[CoreCurrentThreadID[c]].launch
         /\ \A t \in Slot : t # CoreCurrentThreadID[c] => KeepsThread(t)
<1> DEFINE s == CoreCurrentThreadID[c]
           p == threads[s].ThreadParentIndex
           f == [threads EXCEPT ![s].ThreadState = Closed]
           g == [threads EXCEPT ![s].ThreadState = Closed, ![s].stack = Null]
<1>1. s \in Slot /\ ThreadOBJ[c].slot = s /\ threads \in [Slot -> Threads]
  BY DEF CInv, TypeOK, LocksHeld, InSyscall, CallFits, Exit, Launching, Calls, AtInit, Statistics
<1>2. p \in Slot /\ f \in [Slot -> Threads] /\ g = [f EXCEPT ![s].stack = Null]
  BY <1>1, FieldTypes
<1>3. g \in [Slot -> Threads]
  <2> HIDE DEF f, g, s
  <2> QED BY <1>1, <1>2, FieldTypes
<1>4. \/ threads' = g
      \/ /\ g[p].ThreadState = Waiting
         /\ threads' = [g EXCEPT ![p].ThreadState = Restarting]
  BY <1>1 DEF Exit
<1>5. /\ g[s].ThreadState = Closed /\ g[s].stack = Null
      /\ g[s].CoreUsing = threads[s].CoreUsing /\ g[s].launch = threads[s].launch
  <2>1. g[s] = [threads[s] EXCEPT !.ThreadState = Closed, !.stack = Null]
    BY <1>1
  <2>2. threads[s] \in Threads
    BY <1>1
  <2> QED BY <2>1, <2>2 DEF Threads
<1>6. \A t \in Slot : t # s => g[t] = threads[t]
  BY <1>1
<1>7. CASE threads' = g
  BY <1>1, <1>5, <1>6, <1>7 DEF KeepsThread, IsClosed
<1>8. CASE /\ g[p].ThreadState = Waiting
           /\ threads' = [g EXCEPT ![p].ThreadState = Restarting]
  <2> HIDE DEF g, p, s
  <2>1. p # s
    BY <1>5, <1>8, StatesApart
  <2>2. threads'[p] = [g[p] EXCEPT !.ThreadState = Restarting] /\ g[p] \in Threads
    BY <1>2, <1>3, <1>8
  <2>3. \A t \in Slot : t # p => threads'[t] = g[t]
    BY <1>2, <1>3, <1>8
  <2>4. KeepsThread(p)
    BY <1>2, <1>6, <1>8, <2>1, <2>2, StatesApart DEF KeepsThread, IsClosed, Threads
  <2>5. \A t \in Slot : t # s => KeepsThread(t)
    BY <1>6, <2>3, <2>4 DEF KeepsThread, IsClosed
  <2>6. threads'[s] = g[s]
    BY <1>1, <2>1, <2>3
  <2>7. threads'[s].ThreadState = Closed /\ threads'[s].stack = Null /\ threads'[s].CoreUsing = threads[s].CoreUsing
        /\ threads'[s].launch = threads[s].launch
    BY <1>5, <2>6 DEF IsClosed
  <2> QED BY <1>1, <2>5, <2>7 DEF s
<1> QED BY <1>4, <1>7, <1>8

LEMMA SwitchEffect ==
  ASSUME CInv, NEW c \in Core, SwitchTask(c)
  PROVE  /\ \A t \in Slot : KeepsThread(t)
         /\ CoreCurrentThreadID'[c] \in Used
         /\ ~idle'[c] => /\ ~IsClosed(CoreCurrentThreadID'[c])
                         /\ threads[CoreCurrentThreadID'[c]].CoreUsing = c
         /\ \A d \in Core : d # c => /\ CoreCurrentThreadID'[d] = CoreCurrentThreadID[d]
                                     /\ idle'[d] = idle[d] /\ pc'[d] = pc[d]
<1>1. PICK s \in Used :
        LET mine  == {t \in Used : threads[t].CoreUsing = c}
            ready == s \in mine /\ threads[s].ThreadState \in {Normal, Restarting}
        IN  /\ CoreCurrentThreadID' = [CoreCurrentThreadID EXCEPT ![c] = s]
            /\ idle' = [idle EXCEPT ![c] = ~ready]
            /\ threads' = IF ready THEN [threads EXCEPT ![s].ThreadState = Normal]
                                   ELSE threads
  BY DEF SwitchTask
<1> DEFINE ready == /\ s \in {t \in Used : threads[t].CoreUsing = c}
                    /\ threads[s].ThreadState \in {Normal, Restarting}
<1>2. s \in Slot /\ threads \in [Slot -> Threads]
  BY DEF Used, CInv, TypeOK
<1>3. ~idle'[c] => ready
  BY <1>1 DEF CInv, TypeOK
<1>4. ready => ~IsClosed(s) /\ threads[s].CoreUsing = c
  BY StatesApart DEF IsClosed
<1>5. CASE ready
  <2>1. threads' = [threads EXCEPT ![s].ThreadState = Normal]
    BY <1>1, <1>5
  <2>2. threads'[s] = [threads[s] EXCEPT !.ThreadState = Normal] /\ threads[s] \in Threads
    BY <1>2, <2>1
  <2>3. KeepsThread(s)
    BY <1>4, <1>5, <2>2, StatesApart DEF KeepsThread, IsClosed, Threads
  <2>4. \A t \in Slot : KeepsThread(t)
    BY <1>2, <2>1, <2>3 DEF KeepsThread, IsClosed
  <2> QED BY <1>1, <1>3, <1>4, <2>4 DEF CInv, TypeOK, SwitchTask, Goto
<1>6. CASE ~ready
  <2>1. \A t \in Slot : KeepsThread(t)
    BY <1>1, <1>6 DEF KeepsThread, IsClosed
  <2> QED BY <1>1, <1>3, <1>6, <2>1 DEF CInv, TypeOK, SwitchTask, Goto
<1> QED BY <1>5, <1>6

(* The array is good while a core is in a system call.                     *)
LEMMA ArrayThere ==
  ASSUME CInv, ArrayKept, NEW c \in Core, InSyscall(c), pc[c] # "initPublish"
  PROVE  /\ NumberThreads # 0 /\ ThreadArray \in Block /\ ThreadArray # Null
         /\ ArrayData(ThreadArray, arrays)
<1>1. NumberThreads # 0
  BY DEF CInv, BootFirst, InSyscall
<1>2. \A d \in Core : pc[d] # "initPublish"
  BY OneAtInit DEF Launching, AtInit
<1>3. ArrayData(ThreadArray, arrays)
  BY <1>1, <1>2 DEF ArrayKept
<1> QED BY <1>1, <1>3, ConstantFacts DEF ArrayData, CInv, TypeOK

(* The thread that is made to wait is open.                                *)
LEMMA AdoptKeeps ==
  ASSUME CInv, TInv, MInv, ~damaged, NEW c \in Core, Adopt(c), NEW t \in Slot
  PROVE  KeepsThread(t)
<1>1. PICK d \in Core :
         /\ StillThere(ThreadOBJ[c]) => d = c
         /\ threads'[CoreCurrentThreadID[d]].ThreadState = Waiting
         /\ \A r \in Slot :
              /\ threads'[r].CoreUsing = threads[r].CoreUsing
              /\ threads'[r].stack = threads[r].stack
              /\ threads'[r].launch = threads[r].launch
              /\ r # CoreCurrentThreadID[d] =>
                   threads'[r].ThreadState = threads[r].ThreadState
  BY AdoptEffect
<1>2. pc[c] = "adopt" /\ call[c] = "loadNonBG"
  BY DEF Adopt, CInv, CallFits
<1>3. NumberThreads # 0 /\ ~idle[c]
  BY <1>2 DEF CInv, BootFirst, Calls
<1>4. CoreCurrentThreadID[d] \in Used
  BY <1>3, ConstantFacts DEF TInv, RunsItsOwn, CInv, TypeOK, Used
<1>5. threads[CoreCurrentThreadID[d]].ThreadState # Closed
  <2>1. CASE ThreadOBJ[c].array = ThreadArray /\ ThreadOBJ[c].of = arrays
    <3>1. Running(c)
      BY <1>2, <1>3 DEF Running, Calls
    <3>2. InSyscall(c)
      BY <1>2 DEF InSyscall, Calls
    <3>3. StillThere(ThreadOBJ[c])
      BY <1>2, <2>1, <3>2, ArrayThere DEF MInv, StillThere, ArrayData
    <3> QED BY <1>1, <3>1, <3>3 DEF TInv, RunsItsOwn, Open
  <2>2. CASE ClosedSlots = {}
    BY <1>4, <2>2 DEF ClosedSlots
  <2> QED BY <1>2, <2>1, <2>2 DEF MInv, PointersKept
<1> QED BY <1>1, <1>5, StatesApart DEF KeepsThread

(* Every other step leaves the threads as they are, but the counters.      *)
QuietStep(c) ==
  \/ Interrupt(c) \/ \E f \in Calls : Syscall(c, f)
  \/ Save(c) \/ TakeSyscallLock(c) \/ EndSyscall(c) \/ CountLoads(c)
  \/ NewArray(c) \/ NewStack(c) \/ FreeArray(c)
  \/ TestStatistics(c) \/ MakeStatistics(c) \/ SwitchNone(c) \/ MallocOutOfMemory(c)

LEMMA QuietEffect ==
  ASSUME NEW c \in Core, QuietStep(c)
  PROVE  /\ UNCHANGED <<ThreadArray, arrays, threads, NumberThreads, launches>>
         /\ UNCHANGED <<CoreCurrentThreadID, idle, damaged>>
BY DEF QuietStep, Interrupt, Syscall, Enter, Save, TakeSyscallLock, EndSyscall, CountLoads,
   NewArray, NewStack, FreeArray, TestStatistics, MakeStatistics, SwitchNone,
   MallocOutOfMemory, heapVars, arrayVars, coreVars

LEMMA StepKinds ==
  ASSUME [Next]_vars
  PROVE  \/ UNCHANGED vars
         \/ ~damaged /\ \E c \in Core : QuietStep(c) \/ Adopt(c) \/ SwitchTask(c) \/ Exit(c)
                                         \/ ReuseEntry(c) \/ PublishArray(c)
BY DEF Next, Take, Handle, QuietStep

LEMMA UsedGrows ==
  ASSUME TypeOK, NumberThreads' = NumberThreads + 1, NumberThreads \in Slot
  PROVE  Used' = Used \cup {NumberThreads}
<1>1. NumberThreads \in Nat /\ \A s \in Slot : s \in Nat
  BY ConstantFacts
<1>2. \A s \in Slot : s < NumberThreads + 1 <=> s < NumberThreads \/ s = NumberThreads
  BY <1>1
<1> QED BY <1>2 DEF Used

LEMMA LaunchesApartStep ==
  ASSUME CInv, TInv, MInv, [Next]_vars
  PROVE  LaunchesApart'
<1> USE ConstantFacts DEF LaunchesApart, TInv, CInv, TypeOK
<1>1. ASSUME NEW c \in Core, ~damaged, QuietStep(c)
      PROVE  LaunchesApart'
  BY <1>1, QuietEffect DEF Used
<1>2. ASSUME NEW c \in Core, ~damaged, Adopt(c)
      PROVE  LaunchesApart'
  <2>1. \A t \in Slot : KeepsThread(t)
    BY <1>2, AdoptKeeps
  <2> QED BY <1>2, <2>1 DEF Adopt, KeepsThread, Used
<1>3. ASSUME NEW c \in Core, ~damaged, SwitchTask(c)
      PROVE  LaunchesApart'
  <2>1. \A t \in Slot : KeepsThread(t)
    BY <1>3, SwitchEffect
  <2> QED BY <1>3, <2>1 DEF SwitchTask, KeepsThread, Used
<1>4. ASSUME NEW c \in Core, ~damaged, Exit(c)
      PROVE  LaunchesApart'
  <2>1. \A t \in Slot : /\ threads'[t].launch = threads[t].launch
                        /\ threads'[t].stack \in {Null, threads[t].stack}
    BY <1>4, ExitEffect DEF KeepsThread
  <2>2. Used' = Used /\ launches' = launches
    BY <1>4 DEF Exit, Used
  <2>3. /\ \A t \in Slot : IF t \in Used THEN threads'[t].launch \in 1..launches
                                        ELSE threads'[t].stack = Null
        /\ \A r, t \in Used : threads'[r].launch = threads'[t].launch => r = t
    BY <2>1 DEF Used
  <2> QED BY <2>2, <2>3
<1>5. ASSUME NEW c \in Core, ~damaged, ReuseEntry(c)
      PROVE  LaunchesApart'
  <2>1. PICK s \in ClosedSlots, d \in Core, b \in Pointer :
          /\ s \in Slot
          /\ Malloc(b, [what |-> "stack", of |-> launches + 1])
          /\ threads'[s] = NewThread(d, b)
          /\ \A t \in Slot : t # s => threads'[t] = threads[t]
    BY <1>5, ReuseEffect
  <2>2. threads'[s].launch = launches + 1 /\ s \in Used
    BY <2>1 DEF NewThread, ClosedSlots
  <2>3. launches' = launches + 1 /\ Used' = Used
    BY <1>5 DEF ReuseEntry, Used
  <2>4. \A t \in Slot : t # s => IF t \in Used THEN threads'[t].launch \in 1..launches
                                              ELSE threads'[t].stack = Null
    BY <2>1
  <2>5. \A r, t \in Used : r # s /\ t # s /\ threads'[r].launch = threads'[t].launch => r = t
    BY <2>1 DEF Used
  <2>6. ASSUME NEW t \in Used, t # s
        PROVE  threads'[t].launch # threads'[s].launch
    <3>1. t \in Slot /\ threads'[t].launch \in 1..launches
      BY <2>4, <2>6 DEF Used
    <3>2. launches + 1 \notin 1..launches
      OBVIOUS
    <3> QED BY <2>2, <3>1, <3>2
  <2>7. \A t \in Slot : IF t \in Used THEN threads'[t].launch \in 1..launches'
                                     ELSE threads'[t].stack = Null
    BY <2>2, <2>3, <2>4
  <2> QED BY <2>3, <2>5, <2>6, <2>7
<1>6. ASSUME NEW c \in Core, ~damaged, PublishArray(c)
      PROVE  LaunchesApart'
  <2>1. PICK d \in Core : threads'[NumberThreads] = NewThread(d, TmpStack[c])
    BY <1>6, PublishEffect
  <2>2. NumberThreads \in Slot /\ \A t \in Slot : t # NumberThreads => threads'[t] = threads[t]
    BY <1>6, PublishEffect
  <2>3. threads'[NumberThreads].launch = launches + 1
    BY <2>1 DEF NewThread
  <2>4. launches' = launches + 1 /\ NumberThreads' = NumberThreads + 1
    BY <1>6 DEF PublishArray
  <2>5. Used' = Used \cup {NumberThreads}
    BY <2>2, <2>4, UsedGrows DEF CInv
  <2>6. \A s \in Used : s # NumberThreads /\ s \in Slot
    BY DEF Used, Slot
  <2>7. \A s \in Used : threads'[s].launch \in 1..launches
    BY <2>2, <2>6
  <2>8. \A r, s \in Used' : threads'[r].launch = threads'[s].launch => r = s
    <3>1. \A s \in Used : threads'[s].launch # threads'[NumberThreads].launch
      BY <2>3, <2>7
    <3>2. \A r, s \in Used : threads'[r].launch = threads'[s].launch => r = s
      BY <2>2, <2>6
    <3> QED BY <2>5, <3>1, <3>2
  <2>9. \A s \in Slot : s \in Used' => threads'[s].launch \in 1..launches'
    BY <2>3, <2>4, <2>5, <2>7
  <2>10. \A s \in Slot : s \notin Used' => threads'[s].stack = Null
    BY <2>2, <2>5
  <2> QED BY <2>8, <2>9, <2>10
<1>7. CASE UNCHANGED vars
  BY <1>7 DEF vars, arrayVars, Used
<1> QED BY <1>1, <1>2, <1>3, <1>4, <1>5, <1>6, <1>7, StepKinds

(* A core that executes a thread did so before, except after SwitchTask.   *)
LEMMA RunningBefore ==
  ASSUME CInv, [Next]_vars, NEW d \in Core, Running(d)', ~SwitchTask(d)
  PROVE  Running(d) /\ CoreCurrentThreadID'[d] = CoreCurrentThreadID[d]
<1> USE ConstantFacts DEF CInv, TypeOK, CallFits, BootFirst, Launching,
     AtInit, Calls, Statistics, Running
<1>1. ASSUME NEW c \in Core, ~damaged, Interrupt(c)
      PROVE  Running(d) /\ CoreCurrentThreadID'[d] = CoreCurrentThreadID[d]
  BY <1>1 DEF Interrupt, Enter, Goto, heapVars, arrayVars, coreVars, lockVars,
     localVars
<1>2. ASSUME NEW c \in Core, NEW f \in Calls, ~damaged, Syscall(c, f)
      PROVE  Running(d) /\ CoreCurrentThreadID'[d] = CoreCurrentThreadID[d]
  BY <1>2 DEF Syscall, Enter, Goto, heapVars, arrayVars, coreVars, lockVars,
     localVars
<1>3. ASSUME NEW c \in Core, ~damaged, Save(c)
      PROVE  Running(d) /\ CoreCurrentThreadID'[d] = CoreCurrentThreadID[d]
  BY <1>3 DEF Save, Goto, heapVars, arrayVars, coreVars, lockVars, localVars
<1>4. ASSUME NEW c \in Core, ~damaged, TakeSyscallLock(c)
      PROVE  Running(d) /\ CoreCurrentThreadID'[d] = CoreCurrentThreadID[d]
  BY <1>4 DEF TakeSyscallLock, Goto, heapVars, arrayVars, coreVars, lockVars,
     localVars
<1>5. ASSUME NEW c \in Core, ~damaged, EndSyscall(c)
      PROVE  Running(d) /\ CoreCurrentThreadID'[d] = CoreCurrentThreadID[d]
  BY <1>5 DEF EndSyscall, Goto, heapVars, arrayVars, coreVars, lockVars,
     localVars
<1>6. ASSUME NEW c \in Core, ~damaged, CountLoads(c)
      PROVE  Running(d) /\ CoreCurrentThreadID'[d] = CoreCurrentThreadID[d]
  BY <1>6 DEF CountLoads, Goto, heapVars, arrayVars, coreVars, lockVars,
     localVars
<1>7. ASSUME NEW c \in Core, ~damaged, ReuseEntry(c)
      PROVE  Running(d) /\ CoreCurrentThreadID'[d] = CoreCurrentThreadID[d]
  BY <1>7 DEF ReuseEntry, AfterInit, NewThread, Goto, heapVars, arrayVars,
     coreVars, lockVars, localVars
<1>8. ASSUME NEW c \in Core, ~damaged, NewArray(c)
      PROVE  Running(d) /\ CoreCurrentThreadID'[d] = CoreCurrentThreadID[d]
  BY <1>8 DEF NewArray, Goto, heapVars, arrayVars, coreVars, lockVars,
     localVars
<1>9. ASSUME NEW c \in Core, ~damaged, NewStack(c)
      PROVE  Running(d) /\ CoreCurrentThreadID'[d] = CoreCurrentThreadID[d]
  BY <1>9 DEF NewStack, Goto, heapVars, arrayVars, coreVars, lockVars,
     localVars
<1>10. ASSUME NEW c \in Core, ~damaged, FreeArray(c)
      PROVE  Running(d) /\ CoreCurrentThreadID'[d] = CoreCurrentThreadID[d]
  BY <1>10 DEF FreeArray, Free, Goto, heapVars, arrayVars, coreVars, lockVars,
     localVars
<1>11. ASSUME NEW c \in Core, ~damaged, PublishArray(c)
      PROVE  Running(d) /\ CoreCurrentThreadID'[d] = CoreCurrentThreadID[d]
  BY <1>11 DEF PublishArray, AfterInit, NewThread, Goto, heapVars, arrayVars,
     coreVars, lockVars, localVars
<1>12. ASSUME NEW c \in Core, ~damaged, Adopt(c)
      PROVE  Running(d) /\ CoreCurrentThreadID'[d] = CoreCurrentThreadID[d]
  BY <1>12 DEF Adopt, Goto, heapVars, arrayVars, coreVars, lockVars, localVars
<1>13. ASSUME NEW c \in Core, ~damaged, Exit(c)
      PROVE  Running(d) /\ CoreCurrentThreadID'[d] = CoreCurrentThreadID[d]
  BY <1>13 DEF Exit, Goto, heapVars, arrayVars, coreVars, lockVars, localVars
<1>14. ASSUME NEW c \in Core, ~damaged, TestStatistics(c)
      PROVE  Running(d) /\ CoreCurrentThreadID'[d] = CoreCurrentThreadID[d]
  BY <1>14 DEF TestStatistics, Goto, heapVars, arrayVars, coreVars, lockVars,
     localVars
<1>15. ASSUME NEW c \in Core, ~damaged, MakeStatistics(c)
      PROVE  Running(d) /\ CoreCurrentThreadID'[d] = CoreCurrentThreadID[d]
  BY <1>15 DEF MakeStatistics, AfterStatistic, Goto, heapVars, arrayVars,
     coreVars, lockVars, localVars
<1>16. ASSUME NEW c \in Core, ~damaged, SwitchTask(c)
      PROVE  Running(d) /\ CoreCurrentThreadID'[d] = CoreCurrentThreadID[d]
  <2>1. d # c
    BY <1>16
  <2>2. call' = call
    BY <1>16 DEF SwitchTask, localVars
  <2>3. idle'[d] = idle[d] /\ pc'[d] = pc[d] /\ CoreCurrentThreadID'[d] = CoreCurrentThreadID[d]
    BY <1>16, <2>1, SwitchEffect
  <2> QED BY <2>2, <2>3
<1>17. ASSUME NEW c \in Core, ~damaged, SwitchNone(c)
      PROVE  Running(d) /\ CoreCurrentThreadID'[d] = CoreCurrentThreadID[d]
  BY <1>17 DEF SwitchNone, Goto, heapVars, arrayVars, coreVars, lockVars,
     localVars
<1>18. ASSUME NEW c \in Core, ~damaged, MallocOutOfMemory(c)
      PROVE  Running(d) /\ CoreCurrentThreadID'[d] = CoreCurrentThreadID[d]
  BY <1>18 DEF MallocOutOfMemory, Goto, heapVars, arrayVars, coreVars,
     lockVars, localVars
<1>19. CASE UNCHANGED vars
  BY <1>19 DEF vars, heapVars, arrayVars, coreVars, lockVars, localVars
<1> QED BY <1>1, <1>2, <1>3, <1>4, <1>5, <1>6, <1>7, <1>8, <1>9, <1>10, <1>11,
     <1>12, <1>13, <1>14, <1>15, <1>16, <1>17, <1>18, <1>19 DEF Next, Take,
     Handle

LEMMA AtExit ==
  ASSUME CInv, NEW c \in Core, pc[c] = "exit"
  PROVE  InSyscall(c) /\ call[c] = "exit" /\ ~idle[c]
BY DEF CInv, TypeOK, BootFirst, InSyscall, CallFits, Launching, Calls, AtInit, Statistics

LEMMA RunsItsOwnStep ==
  ASSUME CInv, TInv, MInv, [Next]_vars
  PROVE  RunsItsOwn'
<1> DEFINE Mine(d) == /\ CoreCurrentThreadID'[d] \in Used'
                      /\ threads'[CoreCurrentThreadID'[d]].ThreadState # Closed
                      /\ threads'[CoreCurrentThreadID'[d]].CoreUsing = d
<1> USE ConstantFacts DEF CInv, TypeOK, TInv, RunsItsOwn
<1>1. ASSUME NEW c \in Core
      PROVE  CoreCurrentThreadID'[c] \in Used' \/ CoreCurrentThreadID'[c] = 0
  <2>1. \/ CoreCurrentThreadID'[c] = CoreCurrentThreadID[c] /\ NumberThreads' = NumberThreads
        \/ CoreCurrentThreadID'[c] \in Used /\ NumberThreads' = NumberThreads
        \/ /\ CoreCurrentThreadID'[c] = CoreCurrentThreadID[c]
           /\ NumberThreads' = NumberThreads + 1 /\ NumberThreads \in Slot
    <3>1. ASSUME NEW e \in Core, QuietStep(e)
          PROVE  <2>1!1
      BY <3>1, QuietEffect
    <3>2. ASSUME NEW e \in Core, SwitchTask(e)
          PROVE  <2>1!1 \/ <2>1!2
      BY <3>2, SwitchEffect DEF SwitchTask
    <3>3. ASSUME NEW e \in Core, Adopt(e) \/ Exit(e) \/ ReuseEntry(e)
          PROVE  <2>1!1
      BY <3>3 DEF Adopt, Exit, ReuseEntry, coreVars
    <3>4. ASSUME NEW e \in Core, PublishArray(e)
          PROVE  <2>1!3
      BY <3>4, PublishEffect DEF PublishArray, coreVars
    <3>5. CASE UNCHANGED vars
      BY <3>5 DEF vars, coreVars, arrayVars
    <3> QED BY <3>1, <3>2, <3>3, <3>4, <3>5, StepKinds
  <2>2. \A s \in Used : NumberThreads' \in {NumberThreads, NumberThreads + 1} => s \in Used'
    BY DEF Used, Slot
  <2> QED BY <2>1, <2>2
<1>2. ASSUME NEW d \in Core, Running(d)', SwitchTask(d)
      PROVE  Mine(d)
  <2>1. ~idle'[d]
    BY <1>2 DEF Running
  <2>2. CoreCurrentThreadID'[d] \in Used /\ Used' = Used
    BY <1>2, SwitchEffect DEF SwitchTask, Used
  <2> QED BY <1>2, <2>1, <2>2, SwitchEffect DEF KeepsThread, IsClosed, Used
<1>3. ASSUME NEW d \in Core, Running(d)', ~SwitchTask(d)
      PROVE  Mine(d)
  <2> DEFINE k == CoreCurrentThreadID[d]
  <2>1. /\ Running(d) /\ CoreCurrentThreadID'[d] = k
        /\ k \in Used /\ threads[k].ThreadState # Closed /\ threads[k].CoreUsing = d
    <3>1. Running(d) /\ CoreCurrentThreadID'[d] = k
      BY <1>3, RunningBefore
    <3> QED BY <3>1 DEF Open
  <2>2. NumberThreads # 0 /\ k \in Slot
    BY <2>1 DEF Used, Slot
  <2>3. KeepsThread(k) => threads'[k].ThreadState # Closed /\ threads'[k].CoreUsing = d
    BY <2>1 DEF KeepsThread
  <2>4. threads'[k] = threads[k] => KeepsThread(k)
    BY DEF KeepsThread
  <2>5. KeepsThread(k)
    <3>1. ASSUME NEW c \in Core, ~damaged, QuietStep(c)
          PROVE  KeepsThread(k)
      BY <2>4, <3>1, QuietEffect
    <3>2. ASSUME NEW c \in Core, ~damaged, Adopt(c)
          PROVE  KeepsThread(k)
      BY <2>2, <3>2, AdoptKeeps
    <3>3. ASSUME NEW c \in Core, ~damaged, SwitchTask(c)
          PROVE  KeepsThread(k)
      BY <2>2, <3>3, SwitchEffect
    <3>4. ASSUME NEW c \in Core, ~damaged, Exit(c)
          PROVE  KeepsThread(k)
      <4>1. InSyscall(c) /\ call[c] = "exit" /\ pc[c] = "exit" /\ ~idle[c]
        BY <3>4, AtExit DEF Exit
      <4>2. Running(c)
        BY <4>1 DEF Running, Calls
      <4>3. threads[CoreCurrentThreadID[c]].CoreUsing = c
        BY <4>2
      <4>4. c = d => pc'[c] = "endSyscall" /\ call'[c] = "exit"
        BY <3>4, <4>1 DEF Exit, Goto, localVars
      <4>5. c # d
        BY <1>3, <4>4 DEF Running
      <4>6. k # CoreCurrentThreadID[c]
        BY <2>1, <4>3, <4>5
      <4> QED BY <2>2, <3>4, <4>6, ExitEffect
    <3>5. ASSUME NEW c \in Core, ~damaged, ReuseEntry(c)
          PROVE  KeepsThread(k)
      BY <2>1, <2>2, <2>4, <3>5, ReuseEffect DEF ClosedSlots
    <3>6. ASSUME NEW c \in Core, ~damaged, PublishArray(c)
          PROVE  KeepsThread(k)
      <4>1. k # NumberThreads
        BY <2>1 DEF Used, Slot
      <4> QED BY <2>2, <2>4, <3>6, <4>1, PublishEffect
    <3>7. CASE UNCHANGED vars
      BY <2>4, <3>7 DEF vars, arrayVars
    <3> QED BY <3>1, <3>2, <3>3, <3>4, <3>5, <3>6, <3>7, StepKinds
  <2>6. NumberThreads' # 0
    <3>1. ASSUME NEW c \in Core, QuietStep(c)
          PROVE  NumberThreads' = NumberThreads
      BY <3>1, QuietEffect
    <3>2. ASSUME NEW c \in Core, Adopt(c) \/ SwitchTask(c) \/ Exit(c) \/ ReuseEntry(c)
          PROVE  NumberThreads' = NumberThreads
      BY <3>2 DEF Adopt, SwitchTask, Exit, ReuseEntry
    <3>3. ASSUME NEW c \in Core, PublishArray(c)
          PROVE  NumberThreads' = NumberThreads + 1
      BY <3>3 DEF PublishArray
    <3> QED BY <2>2, <3>1, <3>2, <3>3, StepKinds DEF vars, arrayVars
  <2>7. 0 \in Used'
    BY <2>6, TypeStep DEF Used
  <2> QED BY <1>1, <2>1, <2>3, <2>5, <2>7
<1> QED BY <1>1, <1>2, <1>3 DEF Open

-----------------------------------------------------------------------------
(***************************************************************************)
(* What the steps do to the blocks.                                        *)
(***************************************************************************)
Allocates(b, what, of) ==
  /\ b \in Block /\ b \notin used
  /\ used' = used \cup {b}
  /\ data'[b] = [what |-> what, of |-> of]
  /\ \A a \in Block : a # b => data'[a] = data[a]
  /\ failures' = failures

SameBlocks == used' = used /\ data' = data

LEMMA MallocKinds ==
  ASSUME TypeOK, NEW b \in Pointer, NEW n \in 0..MaxLaunches,
         NEW w \in Statistics \cup {"array", "stack", "nothing"},
         Malloc(b, [what |-> w, of |-> n])
  PROVE  /\ ~outOfMemory /\ ~outOfMemory'
         /\ \/ b # Null /\ Allocates(b, w, n)
            \/ b = Null /\ SameBlocks /\ failures' = failures + 1
<1>1. [what |-> w, of |-> n] \in Data
  BY Records
<1>2. CASE b # Null
  BY <1>1, <1>2, MallocEffect DEF Allocates, TypeOK
<1>3. CASE b = Null
  BY <1>1, <1>3, MallocEffect DEF SameBlocks
<1> QED BY <1>1, <1>2, <1>3, MallocEffect

LEMMA NewArrayEffect ==
  ASSUME CInv, NEW c \in Core, NewArray(c)
  PROVE  /\ pc[c] = "init" /\ ClosedSlots = {}
         /\ UNCHANGED <<arrayVars, call, ThreadOBJ, TmpStack, damaged, statistics>>
         /\ \E b \in Pointer :
              /\ TmpArray' = [TmpArray EXCEPT ![c] = b]
              /\ \/ /\ b # Null /\ Allocates(b, "array", arrays + 1)
                    /\ pc' = [pc EXCEPT ![c] = "initStack"]
                 \/ /\ b = Null /\ SameBlocks /\ failures' = failures + 1
                    /\ pc' = [pc EXCEPT ![c] = "hungInit"]
<1>1. PICK b \in Pointer : /\ Malloc(b, [what |-> "array", of |-> arrays + 1])
                           /\ TmpArray' = [TmpArray EXCEPT ![c] = b]
                           /\ Goto(c, IF b = Null THEN "hungInit" ELSE "initStack")
  BY DEF NewArray
<1>2. arrays + 1 \in 0..MaxLaunches
  BY LaunchRoom DEF NewArray
<1>3. \/ b # Null /\ Allocates(b, "array", arrays + 1)
      \/ b = Null /\ SameBlocks /\ failures' = failures + 1
  BY <1>1, <1>2, MallocKinds DEF CInv
<1>4. pc[c] = "init" /\ ClosedSlots = {}
      /\ UNCHANGED <<arrayVars, call, ThreadOBJ, TmpStack, damaged, statistics>>
  BY DEF NewArray
<1> QED BY <1>1, <1>3, <1>4 DEF Goto

LEMMA NewStackEffect ==
  ASSUME CInv, NEW c \in Core, NewStack(c)
  PROVE  /\ pc[c] = "initStack"
         /\ UNCHANGED <<arrayVars, call, ThreadOBJ, TmpArray, damaged, statistics>>
         /\ \E b \in Pointer :
              /\ TmpStack' = [TmpStack EXCEPT ![c] = b]
              /\ \/ /\ b # Null /\ Allocates(b, "stack", launches + 1)
                    /\ pc' = [pc EXCEPT ![c] = "initFree"]
                 \/ /\ b = Null /\ SameBlocks /\ failures' = failures + 1
                    /\ pc' = [pc EXCEPT ![c] = "hungInit"]
<1>1. PICK b \in Pointer : /\ Malloc(b, [what |-> "stack", of |-> launches + 1])
                           /\ TmpStack' = [TmpStack EXCEPT ![c] = b]
                           /\ Goto(c, IF b = Null THEN "hungInit" ELSE "initFree")
  BY DEF NewStack
<1>2. launches + 1 \in 0..MaxLaunches
  BY LaunchRoom DEF NewStack
<1>3. \/ b # Null /\ Allocates(b, "stack", launches + 1)
      \/ b = Null /\ SameBlocks /\ failures' = failures + 1
  BY <1>1, <1>2, MallocKinds DEF CInv
<1>4. pc[c] = "initStack"
      /\ UNCHANGED <<arrayVars, call, ThreadOBJ, TmpArray, damaged, statistics>>
  BY DEF NewStack
<1> QED BY <1>1, <1>3, <1>4 DEF Goto

LEMMA ReuseBlocks ==
  ASSUME CInv, NEW c \in Core, ReuseEntry(c)
  PROVE  /\ pc[c] = "init"
         /\ UNCHANGED <<ThreadArray, arrays, NumberThreads, statistics, call, ThreadOBJ,
                        TmpArray, TmpStack, damaged>>
         /\ launches' = launches + 1
         /\ \E s \in ClosedSlots, d \in Core, b \in Pointer :
              /\ s \in Slot
              /\ threads'[s] = NewThread(d, b)
              /\ \A t \in Slot : t # s => threads'[t] = threads[t]
              /\ \/ b # Null /\ Allocates(b, "stack", launches + 1)
                 \/ b = Null /\ SameBlocks /\ failures' = failures + 1
<1>1. PICK s \in ClosedSlots, d \in Core, b \in Pointer :
           /\ s \in Slot
           /\ Malloc(b, [what |-> "stack", of |-> launches + 1])
           /\ threads'[s] = NewThread(d, b)
           /\ \A t \in Slot : t # s => threads'[t] = threads[t]
  BY ReuseEffect
<1>2. launches + 1 \in 0..MaxLaunches
  BY LaunchRoom DEF ReuseEntry
<1>3. \/ b # Null /\ Allocates(b, "stack", launches + 1)
      \/ b = Null /\ SameBlocks /\ failures' = failures + 1
  BY <1>1, <1>2, MallocKinds DEF CInv
<1>4. /\ pc[c] = "init"
      /\ UNCHANGED <<ThreadArray, arrays, NumberThreads, statistics, call, ThreadOBJ,
                     TmpArray, TmpStack, damaged>>
      /\ launches' = launches + 1
  BY DEF ReuseEntry
<1> QED BY <1>1, <1>3, <1>4

LEMMA StatisticsEffect ==
  ASSUME CInv, NEW c \in Core, MakeStatistics(c)
  PROVE  /\ pc[c] \in Statistics /\ pc' = [pc EXCEPT ![c] = AfterStatistic(pc[c])]
         /\ UNCHANGED <<arrayVars, call, ThreadOBJ, TmpArray, TmpStack, damaged>>
         /\ ~outOfMemory /\ ~outOfMemory'
         /\ \E b \in Pointer :
              /\ statistics' = [statistics EXCEPT ![pc[c]] = b]
              /\ \/ b # Null /\ Allocates(b, pc[c], 0)
                 \/ b = Null /\ SameBlocks /\ failures' = failures + 1
<1>1. PICK b \in Pointer : /\ Malloc(b, [what |-> pc[c], of |-> 0])
                           /\ statistics' = [statistics EXCEPT ![pc[c]] = b]
  BY DEF MakeStatistics
<1>2. 0 \in 0..MaxLaunches
  BY ConstantFacts
<1>3. pc[c] \in Statistics
  BY DEF MakeStatistics
<1>4. /\ ~outOfMemory /\ ~outOfMemory'
      /\ \/ b # Null /\ Allocates(b, pc[c], 0)
         \/ b = Null /\ SameBlocks /\ failures' = failures + 1
  BY <1>1, <1>2, <1>3, MallocKinds DEF CInv
<1>5. /\ pc' = [pc EXCEPT ![c] = AfterStatistic(pc[c])]
      /\ UNCHANGED <<arrayVars, call, ThreadOBJ, TmpArray, TmpStack, damaged>>
  BY DEF MakeStatistics, Goto, localVars
<1> QED BY <1>1, <1>3, <1>4, <1>5

(* Every other step leaves the blocks as they are, or takes some away.     *)
LEMMA OtherBlocks ==
  ASSUME NEW c \in Core, \/ QuietStep(c) \/ Adopt(c) \/ SwitchTask(c) \/ Exit(c)
                         \/ ReuseEntry(c) \/ PublishArray(c)
  PROVE  \/ SameBlocks /\ failures' = failures
         \/ NewArray(c) \/ NewStack(c) \/ ReuseEntry(c) \/ MakeStatistics(c)
         \/ FreeArray(c) /\ used' = used \ {ThreadArray} /\ data' = data /\ failures' = failures
         \/ Exit(c) /\ damaged' /\ used' \subseteq used /\ data' = data /\ failures' = failures
<1> USE DEF SameBlocks, heapVars
<1>1. ASSUME NEW f \in Calls, Interrupt(c) \/ Syscall(c, f)
      PROVE  SameBlocks /\ failures' = failures
  BY <1>1 DEF Interrupt, Syscall, Enter
<1>2. CASE \/ Save(c) \/ TakeSyscallLock(c) \/ EndSyscall(c) \/ CountLoads(c)
           \/ TestStatistics(c) \/ SwitchNone(c) \/ MallocOutOfMemory(c)
  BY <1>2 DEF Save, TakeSyscallLock, EndSyscall, CountLoads, TestStatistics, SwitchNone,
     MallocOutOfMemory
<1>3. CASE Adopt(c) \/ SwitchTask(c) \/ PublishArray(c)
  BY <1>3 DEF Adopt, SwitchTask, PublishArray
<1>4. CASE FreeArray(c)
  BY <1>4 DEF FreeArray, Free
<1>5. CASE Exit(c)
  BY <1>5 DEF Exit
<1>6. "exit" \in Calls
  BY DEF Calls
<1> QED BY <1>1, <1>2, <1>3, <1>4, <1>5, <1>6 DEF QuietStep

LEMMA BlockKept ==
  ASSUME CInv, [Next]_vars, ~damaged', NEW b \in used
  PROVE  \/ b \in used' /\ data'[b] = data[b]
         \/ b = ThreadArray /\ \E c \in Core : FreeArray(c) /\ data' = data
<1>1. b \in Block
  BY DEF CInv, TypeOK
<1>2. ASSUME NEW c \in Core, NEW d, NEW w, NEW n, Allocates(d, w, n)
      PROVE  b \in used' /\ data'[b] = data[b]
  BY <1>1, <1>2 DEF Allocates
<1>3. CASE UNCHANGED vars
  BY <1>3 DEF vars, heapVars
<1>4. ASSUME NEW c \in Core, \/ QuietStep(c) \/ Adopt(c) \/ SwitchTask(c) \/ Exit(c)
                             \/ ReuseEntry(c) \/ PublishArray(c)
      PROVE  \/ b \in used' /\ data'[b] = data[b]
             \/ b = ThreadArray /\ FreeArray(c) /\ data' = data
  <2>1. CASE SameBlocks
    BY <2>1 DEF SameBlocks
  <2>2. CASE NewArray(c)
    BY <1>2, <2>1, <2>2, NewArrayEffect
  <2>3. CASE NewStack(c)
    BY <1>2, <2>1, <2>3, NewStackEffect
  <2>4. CASE ReuseEntry(c)
    BY <1>2, <2>1, <2>4, ReuseBlocks
  <2>5. CASE MakeStatistics(c)
    BY <1>2, <2>1, <2>5, StatisticsEffect
  <2>6. CASE FreeArray(c) /\ used' = used \ {ThreadArray} /\ data' = data
    BY <2>6
  <2> QED BY <1>4, <2>1, <2>2, <2>3, <2>4, <2>5, <2>6, OtherBlocks
<1> QED BY <1>3, <1>4, StepKinds

(* What changes for a core that is about to make a thread.                 *)
LEMMA AtInitSteps ==
  ASSUME CInv, NEW d \in Core, pc'[d] \in {"initStack", "initFree",
     "initPublish"}, [Next]_vars
  PROVE  \/ pc'[d] = pc[d] \/ NewArray(d) \/ NewStack(d) \/ FreeArray(d)
<1> USE ConstantFacts DEF CInv, TypeOK, Statistics
<1>1. ASSUME NEW c \in Core, ~damaged, Interrupt(c)
      PROVE  \/ pc'[d] = pc[d] \/ NewArray(d) \/ NewStack(d) \/ FreeArray(d)
  BY <1>1 DEF Interrupt, Enter, Goto, heapVars, arrayVars, coreVars, lockVars,
     localVars
<1>2. ASSUME NEW c \in Core, NEW f \in Calls, ~damaged, Syscall(c, f)
      PROVE  \/ pc'[d] = pc[d] \/ NewArray(d) \/ NewStack(d) \/ FreeArray(d)
  BY <1>2, SyscallControl, ZenonT(30) DEF Syscall, Enter, lockVars
<1>3. ASSUME NEW c \in Core, ~damaged, Save(c)
      PROVE  \/ pc'[d] = pc[d] \/ NewArray(d) \/ NewStack(d) \/ FreeArray(d)
  BY <1>3 DEF Save, Goto, heapVars, arrayVars, coreVars, lockVars, localVars
<1>4. ASSUME NEW c \in Core, ~damaged, TakeSyscallLock(c)
      PROVE  \/ pc'[d] = pc[d] \/ NewArray(d) \/ NewStack(d) \/ FreeArray(d)
  BY <1>4 DEF TakeSyscallLock, Goto, heapVars, arrayVars, coreVars, lockVars,
     localVars
<1>5. ASSUME NEW c \in Core, ~damaged, EndSyscall(c)
      PROVE  \/ pc'[d] = pc[d] \/ NewArray(d) \/ NewStack(d) \/ FreeArray(d)
  BY <1>5 DEF EndSyscall, Goto, heapVars, arrayVars, coreVars, lockVars,
     localVars
<1>6. ASSUME NEW c \in Core, ~damaged, CountLoads(c)
      PROVE  \/ pc'[d] = pc[d] \/ NewArray(d) \/ NewStack(d) \/ FreeArray(d)
  BY <1>6 DEF CountLoads, Goto, heapVars, arrayVars, coreVars, lockVars,
     localVars
<1>7. ASSUME NEW c \in Core, ~damaged, ReuseEntry(c)
      PROVE  \/ pc'[d] = pc[d] \/ NewArray(d) \/ NewStack(d) \/ FreeArray(d)
  BY <1>7, ReuseControl, ReuseBlocks DEF AfterInit, coreVars
<1>8. ASSUME NEW c \in Core, ~damaged, NewArray(c)
      PROVE  \/ pc'[d] = pc[d] \/ NewArray(d) \/ NewStack(d) \/ FreeArray(d)
  BY <1>8, NewArrayEffect DEF arrayVars
<1>9. ASSUME NEW c \in Core, ~damaged, NewStack(c)
      PROVE  \/ pc'[d] = pc[d] \/ NewArray(d) \/ NewStack(d) \/ FreeArray(d)
  BY <1>9, NewStackEffect DEF arrayVars
<1>10. ASSUME NEW c \in Core, ~damaged, FreeArray(c)
      PROVE  \/ pc'[d] = pc[d] \/ NewArray(d) \/ NewStack(d) \/ FreeArray(d)
  BY <1>10 DEF FreeArray, Free, Goto, heapVars, arrayVars, coreVars, lockVars,
     localVars
<1>11. ASSUME NEW c \in Core, ~damaged, PublishArray(c)
      PROVE  \/ pc'[d] = pc[d] \/ NewArray(d) \/ NewStack(d) \/ FreeArray(d)
  BY <1>11 DEF PublishArray, AfterInit, NewThread, Goto, heapVars, arrayVars,
     coreVars, lockVars, localVars
<1>12. ASSUME NEW c \in Core, ~damaged, Adopt(c)
      PROVE  \/ pc'[d] = pc[d] \/ NewArray(d) \/ NewStack(d) \/ FreeArray(d)
  BY <1>12 DEF Adopt, Goto, heapVars, arrayVars, coreVars, lockVars, localVars
<1>13. ASSUME NEW c \in Core, ~damaged, Exit(c)
      PROVE  \/ pc'[d] = pc[d] \/ NewArray(d) \/ NewStack(d) \/ FreeArray(d)
  BY <1>13 DEF Exit, Goto, heapVars, arrayVars, coreVars, lockVars, localVars
<1>14. ASSUME NEW c \in Core, ~damaged, TestStatistics(c)
      PROVE  \/ pc'[d] = pc[d] \/ NewArray(d) \/ NewStack(d) \/ FreeArray(d)
  BY <1>14 DEF TestStatistics, Goto, heapVars, arrayVars, coreVars, lockVars,
     localVars
<1>15. ASSUME NEW c \in Core, ~damaged, MakeStatistics(c)
      PROVE  \/ pc'[d] = pc[d] \/ NewArray(d) \/ NewStack(d) \/ FreeArray(d)
  BY <1>15 DEF MakeStatistics, AfterStatistic, Goto, heapVars, arrayVars,
     coreVars, lockVars, localVars
<1>16. ASSUME NEW c \in Core, ~damaged, SwitchTask(c)
      PROVE  \/ pc'[d] = pc[d] \/ NewArray(d) \/ NewStack(d) \/ FreeArray(d)
  BY <1>16 DEF SwitchTask, Goto, heapVars, arrayVars, coreVars, lockVars,
     localVars
<1>17. ASSUME NEW c \in Core, ~damaged, SwitchNone(c)
      PROVE  \/ pc'[d] = pc[d] \/ NewArray(d) \/ NewStack(d) \/ FreeArray(d)
  BY <1>17 DEF SwitchNone, Goto, heapVars, arrayVars, coreVars, lockVars,
     localVars
<1>18. ASSUME NEW c \in Core, ~damaged, MallocOutOfMemory(c)
      PROVE  \/ pc'[d] = pc[d] \/ NewArray(d) \/ NewStack(d) \/ FreeArray(d)
  BY <1>18 DEF MallocOutOfMemory, Goto, heapVars, arrayVars, coreVars,
     lockVars, localVars
<1>19. CASE UNCHANGED vars
  BY <1>19 DEF vars, heapVars, arrayVars, coreVars, lockVars, localVars
<1> QED BY <1>1, <1>2, <1>3, <1>4, <1>5, <1>6, <1>7, <1>8, <1>9, <1>10, <1>11,
     <1>12, <1>13, <1>14, <1>15, <1>16, <1>17, <1>18, <1>19 DEF Next, Take,
     Handle

LEMMA AtInitKept ==
  ASSUME CInv, [Next]_vars, NEW d \in Core,
         pc'[d] \in {"initStack", "initFree", "initPublish"}
  PROVE  /\ UNCHANGED <<ThreadArray, arrays, NumberThreads, launches>>
         /\ NewArray(d) \/ TmpArray'[d] = TmpArray[d]
         /\ NewStack(d) \/ TmpStack'[d] = TmpStack[d]
<1> USE ConstantFacts DEF CInv, TypeOK
<1>1. ASSUME NEW c \in Core, ~damaged, Interrupt(c)
      PROVE  /\ UNCHANGED <<ThreadArray, arrays, NumberThreads, launches>>
             /\ NewArray(d) \/ TmpArray'[d] = TmpArray[d]
             /\ NewStack(d) \/ TmpStack'[d] = TmpStack[d]
  BY <1>1 DEF Interrupt, Enter, Goto, heapVars, arrayVars, coreVars, lockVars,
     localVars
<1>2. ASSUME NEW c \in Core, NEW f \in Calls, ~damaged, Syscall(c, f)
      PROVE  /\ UNCHANGED <<ThreadArray, arrays, NumberThreads, launches>>
             /\ NewArray(d) \/ TmpArray'[d] = TmpArray[d]
             /\ NewStack(d) \/ TmpStack'[d] = TmpStack[d]
  BY <1>2 DEF Syscall, Enter, arrayVars
<1>3. ASSUME NEW c \in Core, ~damaged, Save(c)
      PROVE  /\ UNCHANGED <<ThreadArray, arrays, NumberThreads, launches>>
             /\ NewArray(d) \/ TmpArray'[d] = TmpArray[d]
             /\ NewStack(d) \/ TmpStack'[d] = TmpStack[d]
  BY <1>3 DEF Save, Goto, heapVars, arrayVars, coreVars, lockVars, localVars
<1>4. ASSUME NEW c \in Core, ~damaged, TakeSyscallLock(c)
      PROVE  /\ UNCHANGED <<ThreadArray, arrays, NumberThreads, launches>>
             /\ NewArray(d) \/ TmpArray'[d] = TmpArray[d]
             /\ NewStack(d) \/ TmpStack'[d] = TmpStack[d]
  BY <1>4 DEF TakeSyscallLock, Goto, heapVars, arrayVars, coreVars, lockVars,
     localVars
<1>5. ASSUME NEW c \in Core, ~damaged, EndSyscall(c)
      PROVE  /\ UNCHANGED <<ThreadArray, arrays, NumberThreads, launches>>
             /\ NewArray(d) \/ TmpArray'[d] = TmpArray[d]
             /\ NewStack(d) \/ TmpStack'[d] = TmpStack[d]
  BY <1>5 DEF EndSyscall, Goto, heapVars, arrayVars, coreVars, lockVars,
     localVars
<1>6. ASSUME NEW c \in Core, ~damaged, CountLoads(c)
      PROVE  /\ UNCHANGED <<ThreadArray, arrays, NumberThreads, launches>>
             /\ NewArray(d) \/ TmpArray'[d] = TmpArray[d]
             /\ NewStack(d) \/ TmpStack'[d] = TmpStack[d]
  BY <1>6 DEF CountLoads, Goto, heapVars, arrayVars, coreVars, lockVars,
     localVars
<1>7. ASSUME NEW c \in Core, ~damaged, ReuseEntry(c)
      PROVE  /\ UNCHANGED <<ThreadArray, arrays, NumberThreads, launches>>
             /\ NewArray(d) \/ TmpArray'[d] = TmpArray[d]
             /\ NewStack(d) \/ TmpStack'[d] = TmpStack[d]
  <2>1. pc[c] = "init" /\ pc'[c] \in {"hungInit", "run", "endSyscall", "adopt"}
    BY <1>7, ReuseControl DEF AfterInit
  <2>2. c # d /\ pc'[d] = pc[d]
    BY <1>7, <2>1, ReuseControl
  <2> QED BY <2>1, <2>2, OneAtInit DEF Launching, AtInit
<1>8. ASSUME NEW c \in Core, ~damaged, NewArray(c)
      PROVE  /\ UNCHANGED <<ThreadArray, arrays, NumberThreads, launches>>
             /\ NewArray(d) \/ TmpArray'[d] = TmpArray[d]
             /\ NewStack(d) \/ TmpStack'[d] = TmpStack[d]
  BY <1>8, NewArrayEffect DEF arrayVars
<1>9. ASSUME NEW c \in Core, ~damaged, NewStack(c)
      PROVE  /\ UNCHANGED <<ThreadArray, arrays, NumberThreads, launches>>
             /\ NewArray(d) \/ TmpArray'[d] = TmpArray[d]
             /\ NewStack(d) \/ TmpStack'[d] = TmpStack[d]
  BY <1>9, NewStackEffect DEF arrayVars
<1>10. ASSUME NEW c \in Core, ~damaged, FreeArray(c)
      PROVE  /\ UNCHANGED <<ThreadArray, arrays, NumberThreads, launches>>
             /\ NewArray(d) \/ TmpArray'[d] = TmpArray[d]
             /\ NewStack(d) \/ TmpStack'[d] = TmpStack[d]
  BY <1>10 DEF FreeArray, Free, Goto, heapVars, arrayVars, coreVars, lockVars,
     localVars
<1>11. ASSUME NEW c \in Core, ~damaged, PublishArray(c)
      PROVE  /\ UNCHANGED <<ThreadArray, arrays, NumberThreads, launches>>
             /\ NewArray(d) \/ TmpArray'[d] = TmpArray[d]
             /\ NewStack(d) \/ TmpStack'[d] = TmpStack[d]
  <2>1. pc[c] = "initPublish" /\ pc'[c] \in {"run", "endSyscall", "adopt"}
    BY <1>11 DEF PublishArray, AfterInit, Goto
  <2>2. c # d /\ pc'[d] = pc[d]
    BY <1>11, <2>1 DEF PublishArray, Goto
  <2> QED BY <2>1, <2>2, OneAtInit DEF Launching, AtInit
<1>12. ASSUME NEW c \in Core, ~damaged, Adopt(c)
      PROVE  /\ UNCHANGED <<ThreadArray, arrays, NumberThreads, launches>>
             /\ NewArray(d) \/ TmpArray'[d] = TmpArray[d]
             /\ NewStack(d) \/ TmpStack'[d] = TmpStack[d]
  BY <1>12 DEF Adopt, Goto, heapVars, arrayVars, coreVars, lockVars, localVars
<1>13. ASSUME NEW c \in Core, ~damaged, Exit(c)
      PROVE  /\ UNCHANGED <<ThreadArray, arrays, NumberThreads, launches>>
             /\ NewArray(d) \/ TmpArray'[d] = TmpArray[d]
             /\ NewStack(d) \/ TmpStack'[d] = TmpStack[d]
  BY <1>13 DEF Exit, Goto, heapVars, arrayVars, coreVars, lockVars, localVars
<1>14. ASSUME NEW c \in Core, ~damaged, TestStatistics(c)
      PROVE  /\ UNCHANGED <<ThreadArray, arrays, NumberThreads, launches>>
             /\ NewArray(d) \/ TmpArray'[d] = TmpArray[d]
             /\ NewStack(d) \/ TmpStack'[d] = TmpStack[d]
  BY <1>14 DEF TestStatistics, Goto, heapVars, arrayVars, coreVars, lockVars,
     localVars
<1>15. ASSUME NEW c \in Core, ~damaged, MakeStatistics(c)
      PROVE  /\ UNCHANGED <<ThreadArray, arrays, NumberThreads, launches>>
             /\ NewArray(d) \/ TmpArray'[d] = TmpArray[d]
             /\ NewStack(d) \/ TmpStack'[d] = TmpStack[d]
  BY <1>15 DEF MakeStatistics, AfterStatistic, Goto, heapVars, arrayVars,
     coreVars, lockVars, localVars
<1>16. ASSUME NEW c \in Core, ~damaged, SwitchTask(c)
      PROVE  /\ UNCHANGED <<ThreadArray, arrays, NumberThreads, launches>>
             /\ NewArray(d) \/ TmpArray'[d] = TmpArray[d]
             /\ NewStack(d) \/ TmpStack'[d] = TmpStack[d]
  BY <1>16 DEF SwitchTask, Goto, heapVars, arrayVars, coreVars, lockVars,
     localVars
<1>17. ASSUME NEW c \in Core, ~damaged, SwitchNone(c)
      PROVE  /\ UNCHANGED <<ThreadArray, arrays, NumberThreads, launches>>
             /\ NewArray(d) \/ TmpArray'[d] = TmpArray[d]
             /\ NewStack(d) \/ TmpStack'[d] = TmpStack[d]
  BY <1>17 DEF SwitchNone, Goto, heapVars, arrayVars, coreVars, lockVars,
     localVars
<1>18. ASSUME NEW c \in Core, ~damaged, MallocOutOfMemory(c)
      PROVE  /\ UNCHANGED <<ThreadArray, arrays, NumberThreads, launches>>
             /\ NewArray(d) \/ TmpArray'[d] = TmpArray[d]
             /\ NewStack(d) \/ TmpStack'[d] = TmpStack[d]
  BY <1>18 DEF MallocOutOfMemory, Goto, heapVars, arrayVars, coreVars,
     lockVars, localVars
<1>19. CASE UNCHANGED vars
  BY <1>19 DEF vars, heapVars, arrayVars, coreVars, lockVars, localVars
<1> QED BY <1>1, <1>2, <1>3, <1>4, <1>5, <1>6, <1>7, <1>8, <1>9, <1>10, <1>11,
     <1>12, <1>13, <1>14, <1>15, <1>16, <1>17, <1>18, <1>19 DEF Next, Take,
     Handle

(* No core frees the array while another is about to use its own.          *)
LEMMA FreesOld ==
  ASSUME CInv, ArrayKept, NEW c \in Core, FreeArray(c)
  PROVE  \/ ThreadArray = Null
         \/ ArrayData(ThreadArray, arrays)
<1>1. pc[c] = "initFree"
  BY DEF FreeArray
<1>2. \A e \in Core : pc[e] # "initPublish"
  BY <1>1, OneAtInit DEF Launching, AtInit
<1> QED BY <1>2 DEF ArrayKept

LEMMA DataApart ==
  ASSUME CInv, ArrayKept, [Next]_vars, ~damaged', NEW b, NEW what, NEW of,
         b \in used, data[b] = [what |-> what, of |-> of],
         what # "array" \/ of # arrays
  PROVE  b \in used' /\ data'[b] = [what |-> what, of |-> of]
<1>1. CASE b = ThreadArray /\ \E c \in Core : FreeArray(c) /\ data' = data
  <2>1. b # Null
    BY ConstantFacts DEF CInv, TypeOK
  <2>2. data[b].what = what /\ data[b].of = of
    OBVIOUS
  <2>3. data[b] = [what |-> "array", of |-> arrays]
    BY <1>1, <2>1, FreesOld DEF ArrayData
  <2> QED BY <2>2, <2>3
<1> QED BY <1>1, BlockKept

LEMMA MadeKeptStep ==
  ASSUME CInv, MInv, [Next]_vars, ~damaged, ~damaged'
  PROVE  MadeKept'
<1> USE DEF MInv
<1>1. ASSUME NEW d \in Core, pc'[d] \in {"initStack", "initFree", "initPublish"}
      PROVE  /\ ArrayData(TmpArray[d], arrays + 1)'
             /\ pc'[d] \in {"initFree", "initPublish"} => StackData(TmpStack[d], launches + 1)'
  <2>1. UNCHANGED <<ThreadArray, arrays, NumberThreads, launches>>
    BY <1>1, AtInitKept
  <2>2. CASE NewArray(d)
    <3>1. pc'[d] = "initStack" /\ Allocates(TmpArray'[d], "array", arrays + 1)
      BY <1>1, <2>2, NewArrayEffect DEF CInv, TypeOK
    <3> QED BY <2>1, <3>1 DEF Allocates, ArrayData
  <2>3. CASE ~NewArray(d)
    <3>1. TmpArray'[d] = TmpArray[d]
      BY <1>1, <2>3, AtInitKept
    <3>2. pc[d] \in {"initStack", "initFree", "initPublish"}
      BY <1>1, <2>3, AtInitSteps DEF NewStack, FreeArray
    <3>3. ArrayData(TmpArray[d], arrays + 1)
      BY <3>2 DEF MadeKept
    <3>4. arrays + 1 # arrays
      BY DEF CInv, TypeOK
    <3>5. ArrayData(TmpArray[d], arrays + 1)'
      BY <2>1, <3>1, <3>3, <3>4, DataApart DEF ArrayData
    <3>6. CASE NewStack(d)
      <4>1. \/ pc'[d] = "initFree" /\ Allocates(TmpStack'[d], "stack", launches + 1)
            \/ pc'[d] = "hungInit"
        BY <3>6, NewStackEffect DEF CInv, TypeOK
      <4> QED BY <1>1, <2>1, <3>5, <4>1 DEF Allocates, StackData
    <3>7. CASE ~NewStack(d) /\ pc'[d] \in {"initFree", "initPublish"}
      <4>1. TmpStack'[d] = TmpStack[d]
        BY <1>1, <3>7, AtInitKept
      <4>2. pc[d] \in {"initFree", "initPublish"}
        BY <1>1, <2>3, <3>7, AtInitSteps DEF FreeArray
      <4>3. StackData(TmpStack[d], launches + 1)
        BY <4>2 DEF MadeKept
      <4>4. StackData(TmpStack[d], launches + 1)'
        BY <2>1, <4>1, <4>3, DataApart DEF StackData
      <4> QED BY <3>5, <4>4
    <3> QED BY <1>1, <3>5, <3>6, <3>7
  <2> QED BY <2>2, <2>3
<1> QED BY <1>1 DEF MadeKept

(* The array of threads is replaced by PublishArray alone.                 *)
LEMMA ArrayMoves ==
  ASSUME [Next]_vars
  PROVE  \/ UNCHANGED <<ThreadArray, arrays, NumberThreads>>
         \/ \E c \in Core : PublishArray(c)
<1>1. ASSUME NEW c \in Core, QuietStep(c)
      PROVE  UNCHANGED <<ThreadArray, arrays, NumberThreads>>
  BY <1>1, QuietEffect
<1>2. ASSUME NEW c \in Core, Adopt(c) \/ SwitchTask(c) \/ Exit(c) \/ ReuseEntry(c)
      PROVE  UNCHANGED <<ThreadArray, arrays, NumberThreads>>
  BY <1>2 DEF Adopt, SwitchTask, Exit, ReuseEntry
<1> QED BY <1>1, <1>2, StepKinds DEF vars, arrayVars

LEMMA PublishBlocks ==
  ASSUME CInv, MadeKept, NEW c \in Core, PublishArray(c)
  PROVE  /\ SameBlocks /\ pc[c] = "initPublish" /\ pc' = [pc EXCEPT ![c] = AfterInit(c)]
         /\ ThreadArray' = TmpArray[c] /\ arrays' = arrays + 1 /\ launches' = launches + 1
         /\ NumberThreads' = NumberThreads + 1
         /\ ArrayData(ThreadArray, arrays)' /\ StackData(TmpStack[c], launches + 1)
         /\ UNCHANGED <<call, ThreadOBJ, statistics>>
<1>1. /\ SameBlocks /\ pc[c] = "initPublish" /\ ThreadArray' = TmpArray[c]
      /\ arrays' = arrays + 1 /\ launches' = launches + 1
      /\ pc' = [pc EXCEPT ![c] = AfterInit(c)]
      /\ NumberThreads' = NumberThreads + 1
      /\ UNCHANGED <<call, ThreadOBJ, statistics>>
  BY DEF PublishArray, heapVars, SameBlocks, Goto
<1>2. ArrayData(TmpArray[c], arrays + 1) /\ StackData(TmpStack[c], launches + 1)
  BY <1>1 DEF MadeKept
<1> QED BY <1>1, <1>2 DEF ArrayData, SameBlocks

LEMMA PublishNext ==
  ASSUME CInv, [Next]_vars, NEW c \in Core, pc[c] = "initPublish"
  PROVE  pc'[c] = "initPublish" \/ \E d \in Core : PublishArray(d)
<1> USE ConstantFacts DEF CInv, TypeOK, Statistics
<1>1. ASSUME NEW d \in Core, ~damaged, Interrupt(d)
      PROVE  pc'[c] = "initPublish" \/ PublishArray(d)
  BY <1>1 DEF Interrupt, Enter, Goto, heapVars, arrayVars, coreVars, lockVars,
     localVars
<1>2. ASSUME NEW d \in Core, NEW f \in Calls, ~damaged, Syscall(d, f)
      PROVE  pc'[c] = "initPublish" \/ PublishArray(d)
  BY <1>2, SyscallControl
<1>3. ASSUME NEW d \in Core, ~damaged, Save(d)
      PROVE  pc'[c] = "initPublish" \/ PublishArray(d)
  BY <1>3 DEF Save, Goto, heapVars, arrayVars, coreVars, lockVars, localVars
<1>4. ASSUME NEW d \in Core, ~damaged, TakeSyscallLock(d)
      PROVE  pc'[c] = "initPublish" \/ PublishArray(d)
  BY <1>4 DEF TakeSyscallLock, Goto, heapVars, arrayVars, coreVars, lockVars,
     localVars
<1>5. ASSUME NEW d \in Core, ~damaged, EndSyscall(d)
      PROVE  pc'[c] = "initPublish" \/ PublishArray(d)
  BY <1>5 DEF EndSyscall, Goto, heapVars, arrayVars, coreVars, lockVars,
     localVars
<1>6. ASSUME NEW d \in Core, ~damaged, CountLoads(d)
      PROVE  pc'[c] = "initPublish" \/ PublishArray(d)
  BY <1>6 DEF CountLoads, Goto, heapVars, arrayVars, coreVars, lockVars,
     localVars
<1>7. ASSUME NEW d \in Core, ~damaged, ReuseEntry(d)
      PROVE  pc'[c] = "initPublish" \/ PublishArray(d)
  BY <1>7, ReuseControl
<1>8. ASSUME NEW d \in Core, ~damaged, NewArray(d)
      PROVE  pc'[c] = "initPublish" \/ PublishArray(d)
  BY <1>8, NewArrayEffect DEF arrayVars
<1>9. ASSUME NEW d \in Core, ~damaged, NewStack(d)
      PROVE  pc'[c] = "initPublish" \/ PublishArray(d)
  BY <1>9, NewStackEffect DEF arrayVars
<1>10. ASSUME NEW d \in Core, ~damaged, FreeArray(d)
      PROVE  pc'[c] = "initPublish" \/ PublishArray(d)
  BY <1>10 DEF FreeArray, Free, Goto, heapVars, arrayVars, coreVars, lockVars,
     localVars
<1>11. ASSUME NEW d \in Core, ~damaged, PublishArray(d)
      PROVE  pc'[c] = "initPublish" \/ PublishArray(d)
  BY <1>11
<1>12. ASSUME NEW d \in Core, ~damaged, Adopt(d)
      PROVE  pc'[c] = "initPublish" \/ PublishArray(d)
  BY <1>12 DEF Adopt, Goto, heapVars, arrayVars, coreVars, lockVars, localVars
<1>13. ASSUME NEW d \in Core, ~damaged, Exit(d)
      PROVE  pc'[c] = "initPublish" \/ PublishArray(d)
  BY <1>13 DEF Exit, Goto, heapVars, arrayVars, coreVars, lockVars, localVars
<1>14. ASSUME NEW d \in Core, ~damaged, TestStatistics(d)
      PROVE  pc'[c] = "initPublish" \/ PublishArray(d)
  BY <1>14 DEF TestStatistics, Goto, heapVars, arrayVars, coreVars, lockVars,
     localVars
<1>15. ASSUME NEW d \in Core, ~damaged, MakeStatistics(d)
      PROVE  pc'[c] = "initPublish" \/ PublishArray(d)
  BY <1>15 DEF MakeStatistics, AfterStatistic, Goto, heapVars, arrayVars,
     coreVars, lockVars, localVars
<1>16. ASSUME NEW d \in Core, ~damaged, SwitchTask(d)
      PROVE  pc'[c] = "initPublish" \/ PublishArray(d)
  BY <1>16 DEF SwitchTask, Goto, heapVars, arrayVars, coreVars, lockVars,
     localVars
<1>17. ASSUME NEW d \in Core, ~damaged, SwitchNone(d)
      PROVE  pc'[c] = "initPublish" \/ PublishArray(d)
  BY <1>17 DEF SwitchNone, Goto, heapVars, arrayVars, coreVars, lockVars,
     localVars
<1>18. ASSUME NEW d \in Core, ~damaged, MallocOutOfMemory(d)
      PROVE  pc'[c] = "initPublish" \/ PublishArray(d)
  BY <1>18 DEF MallocOutOfMemory, Goto, heapVars, arrayVars, coreVars,
     lockVars, localVars
<1>19. CASE UNCHANGED vars
  BY <1>19 DEF vars, heapVars, arrayVars, coreVars, lockVars, localVars
<1> QED BY <1>1, <1>2, <1>3, <1>4, <1>5, <1>6, <1>7, <1>8, <1>9, <1>10, <1>11,
     <1>12, <1>13, <1>14, <1>15, <1>16, <1>17, <1>18, <1>19 DEF Next, Take,
     Handle

LEMMA ArrayKeptStep ==
  ASSUME CInv, MInv, [Next]_vars, ~damaged, ~damaged'
  PROVE  ArrayKept'
<1> USE DEF MInv
<1>1. ASSUME NEW c \in Core, PublishArray(c)
      PROVE  ArrayKept'
  BY <1>1, PublishBlocks DEF ArrayKept
<1>2. CASE UNCHANGED <<ThreadArray, arrays, NumberThreads>>
  <2>1. CASE NumberThreads = 0 /\ ThreadArray = Null
    BY <1>2, <2>1 DEF ArrayKept
  <2>2. ASSUME NEW c \in Core, pc[c] = "initPublish"
        PROVE  ArrayKept'
    BY <1>1, <2>2, PublishNext DEF ArrayKept
  <2>3. CASE ArrayData(ThreadArray, arrays)
    <3>1. CASE ThreadArray \in used' /\ data'[ThreadArray] = data[ThreadArray]
      BY <1>2, <2>3, <3>1 DEF ArrayKept, ArrayData
    <3>2. ASSUME NEW c \in Core, FreeArray(c)
          PROVE  ArrayKept'
      <4>1. pc'[c] = "initPublish"
        BY <3>2 DEF FreeArray, Goto, CInv, TypeOK
      <4> QED BY <4>1 DEF ArrayKept
    <3> QED BY <2>3, <3>1, <3>2, BlockKept DEF ArrayData
  <2> QED BY <2>1, <2>2, <2>3 DEF ArrayKept
<1> QED BY <1>1, <1>2, ArrayMoves

LEMMA StacksKeptStep ==
  ASSUME CInv, MInv, [Next]_vars, ~damaged, ~damaged'
  PROVE  StacksKept'
<1> USE DEF MInv
<1> DEFINE Good(s) == /\ threads'[s].stack \in used'
                      /\ data'[threads'[s].stack] = [what |-> "stack", of |-> threads'[s].launch]
<1>1. ASSUME NEW s \in Slot, threads'[s].stack # Null,
             threads'[s].stack = threads[s].stack, threads'[s].launch = threads[s].launch
      PROVE  Good(s)
  <2>1. StackData(threads[s].stack, threads[s].launch)
    BY <1>1 DEF StacksKept
  <2> QED BY <1>1, <2>1, DataApart DEF StackData
<1>2. ASSUME NEW s \in Slot, threads'[s].stack # Null, KeepsThread(s)
      PROVE  Good(s)
  BY <1>1, <1>2 DEF KeepsThread
<1>3. ASSUME NEW c \in Core, QuietStep(c), NEW s \in Slot, threads'[s].stack # Null
      PROVE  Good(s)
  BY <1>1, <1>3, QuietEffect
<1>4. ASSUME NEW c \in Core, Adopt(c), NEW s \in Slot, threads'[s].stack # Null
      PROVE  Good(s)
  <2>1. threads'[s].stack = threads[s].stack /\ threads'[s].launch = threads[s].launch
    BY <1>4, AdoptEffect
  <2> QED BY <1>1, <1>4, <2>1
<1>5. ASSUME NEW c \in Core, SwitchTask(c), NEW s \in Slot, threads'[s].stack # Null
      PROVE  Good(s)
  BY <1>2, <1>5, SwitchEffect
<1>6. ASSUME NEW c \in Core, Exit(c), NEW s \in Slot, threads'[s].stack # Null
      PROVE  Good(s)
  BY <1>2, <1>6, ExitEffect
<1>7. ASSUME NEW c \in Core, ReuseEntry(c), NEW s \in Slot, threads'[s].stack # Null
      PROVE  Good(s)
  <2>1. PICK r \in ClosedSlots, d \in Core, b \in Pointer :
           /\ r \in Slot
           /\ threads'[r] = NewThread(d, b)
           /\ \A t \in Slot : t # r => threads'[t] = threads[t]
           /\ \/ b # Null /\ Allocates(b, "stack", launches + 1)
              \/ b = Null /\ SameBlocks /\ failures' = failures + 1
    BY <1>7, ReuseBlocks
  <2>2. threads'[r].stack = b /\ threads'[r].launch = launches + 1
    BY <2>1 DEF NewThread
  <2>3. CASE s = r
    BY <1>7, <2>1, <2>2, <2>3 DEF Allocates
  <2>4. CASE s # r
    BY <1>1, <1>7, <2>1, <2>4
  <2> QED BY <2>3, <2>4
<1>8. ASSUME NEW c \in Core, PublishArray(c), NEW s \in Slot, threads'[s].stack # Null
      PROVE  Good(s)
  <2>1. CASE s = NumberThreads
    <3>1. threads'[s].stack = TmpStack[c] /\ threads'[s].launch = launches + 1
      <4>1. PICK d \in Core : threads'[NumberThreads] = NewThread(d, TmpStack[c])
        BY <1>8, PublishEffect
      <4> QED BY <2>1, <4>1 DEF NewThread
    <3>2. StackData(TmpStack[c], launches + 1) /\ SameBlocks
      BY <1>8, PublishBlocks
    <3> QED BY <3>1, <3>2 DEF StackData, SameBlocks
  <2>2. CASE s # NumberThreads
    BY <1>1, <1>8, <2>2, PublishEffect
  <2> QED BY <2>1, <2>2
<1>9. ASSUME UNCHANGED vars, NEW s \in Slot, threads'[s].stack # Null
      PROVE  Good(s)
  BY <1>1, <1>9 DEF vars, arrayVars
<1>10. \A s \in Slot : threads'[s].stack # Null => Good(s)
  BY <1>3, <1>4, <1>5, <1>6, <1>7, <1>8, <1>9, StepKinds
<1> QED BY <1>10 DEF StacksKept, StackData

LEMMA ClosedKept ==
  ASSUME UNCHANGED NumberThreads, \A t \in Slot : KeepsThread(t)
  PROVE  ClosedSlots' = ClosedSlots
BY DEF ClosedSlots, Used, KeepsThread

(* While a core is in a system call, other than Exit, no thread is closed. *)
LEMMA NoneClosedKept ==
  ASSUME CInv, TInv, MInv, [Next]_vars, ~damaged, NEW d \in Core,
         Launching(d) \/ InSyscall(d), pc[d] # "exit", ClosedSlots = {}
  PROVE  ClosedSlots' = {}
<1>1. ASSUME NEW c \in Core, QuietStep(c)
      PROVE  ClosedSlots' = {}
  BY <1>1, QuietEffect DEF ClosedSlots, Used
<1>2. ASSUME NEW c \in Core, Adopt(c) \/ SwitchTask(c)
      PROVE  ClosedSlots' = {}
  <2>1. \A t \in Slot : KeepsThread(t)
    BY <1>2, AdoptKeeps, SwitchEffect
  <2>2. UNCHANGED NumberThreads
    BY <1>2 DEF Adopt, SwitchTask
  <2> QED BY <2>1, <2>2, ClosedKept
<1>3. ASSUME NEW c \in Core, Exit(c)
      PROVE  FALSE
  <2>1. pc[c] = "exit" /\ InSyscall(c)
    BY <1>3, AtExit DEF Exit
  <2>2. c = d
    BY <2>1, OneAtInit DEF CInv, LocksHeld
  <2> QED BY <2>1, <2>2
<1>4. ASSUME NEW c \in Core, ReuseEntry(c)
      PROVE  FALSE
  BY <1>4, ReuseEffect
<1>5. ASSUME NEW c \in Core, PublishArray(c)
      PROVE  ClosedSlots' = {}
  <2>1. NumberThreads' = NumberThreads + 1 /\ NumberThreads \in Slot
    BY <1>5, PublishEffect DEF PublishArray
  <2>2. Used' = Used \cup {NumberThreads}
    BY <2>1, UsedGrows DEF CInv
  <2>3. PICK e \in Core : threads'[NumberThreads] = NewThread(e, TmpStack[c])
    BY <1>5, PublishEffect
  <2>4. threads'[NumberThreads].ThreadState # Closed
    BY <2>3, StatesApart DEF NewThread
  <2>5. \A t \in Used : t # NumberThreads /\ t \in Slot => threads'[t] = threads[t]
    BY <1>5, PublishEffect
  <2>6. \A t \in Used : t \in Slot /\ threads[t].ThreadState # Closed
    BY DEF ClosedSlots, Used
  <2> QED BY <2>2, <2>4, <2>5, <2>6 DEF ClosedSlots
<1>6. CASE UNCHANGED vars
  BY <1>6 DEF vars, arrayVars, ClosedSlots, Used
<1> QED BY <1>1, <1>2, <1>3, <1>4, <1>5, <1>6, StepKinds

LEMMA NoneClosedStep ==
  ASSUME CInv, TInv, MInv, [Next]_vars, ~damaged
  PROVE  NoneClosed'
<1>1. ASSUME NEW d \in Core, pc'[d] \in {"initStack", "initFree", "initPublish"}
      PROVE  ClosedSlots' = {}
  <2>1. CASE NewArray(d)
    BY <2>1, NewArrayEffect DEF arrayVars, ClosedSlots, Used
  <2>2. CASE ~NewArray(d)
    <3>1. pc[d] \in {"initStack", "initFree", "initPublish"}
      BY <1>1, <2>2, AtInitSteps DEF NewStack, FreeArray
    <3> QED BY <3>1, NoneClosedKept DEF TInv, NoneClosed, Launching, AtInit
  <2> QED BY <2>1, <2>2
<1> QED BY <1>1 DEF NoneClosed

(* How a core gets further in its system call.                             *)
LEMMA SyscallSteps ==
  ASSUME CInv, [Next]_vars, NEW d \in Core, InSyscall(d)'
  PROVE  \/ TakeSyscallLock(d)
         \/ /\ InSyscall(d) /\ ThreadOBJ'[d] = ThreadOBJ[d]
            /\ \/ pc'[d] = pc[d] \/ pc'[d] \notin {"initPublish", "adopt"}
               \/ FreeArray(d) \/ ReuseEntry(d) \/ PublishArray(d)
            /\ pc[d] \in {"initPublish", "adopt", "endSyscall"} =>
                 pc'[d] \in {"initPublish", "adopt", "endSyscall"}
<1> USE ConstantFacts DEF CInv, TypeOK, CallFits, BootFirst, InSyscall, Calls,
     Statistics, Launching, AtInit
<1>1. ASSUME NEW c \in Core, ~damaged, Interrupt(c)
      PROVE  \/ TakeSyscallLock(d)
             \/ /\ InSyscall(d) /\ ThreadOBJ'[d] = ThreadOBJ[d]
                /\ \/ pc'[d] = pc[d] \/ pc'[d] \notin {"initPublish", "adopt"}
                   \/ FreeArray(d) \/ ReuseEntry(d) \/ PublishArray(d)
                /\ pc[d] \in {"initPublish", "adopt", "endSyscall"} =>
                     pc'[d] \in {"initPublish", "adopt", "endSyscall"}
  BY <1>1 DEF Interrupt, Enter, Goto, heapVars, arrayVars, coreVars, lockVars,
     localVars
<1>2. ASSUME NEW c \in Core, NEW f \in Calls, ~damaged, Syscall(c, f)
      PROVE  \/ TakeSyscallLock(d)
             \/ /\ InSyscall(d) /\ ThreadOBJ'[d] = ThreadOBJ[d]
                /\ \/ pc'[d] = pc[d] \/ pc'[d] \notin {"initPublish", "adopt"}
                   \/ FreeArray(d) \/ ReuseEntry(d) \/ PublishArray(d)
                /\ pc[d] \in {"initPublish", "adopt", "endSyscall"} =>
                     pc'[d] \in {"initPublish", "adopt", "endSyscall"}
  BY <1>2 DEF Syscall, Enter, Goto, heapVars, arrayVars, coreVars, lockVars,
     localVars
<1>3. ASSUME NEW c \in Core, ~damaged, Save(c)
      PROVE  \/ TakeSyscallLock(d)
             \/ /\ InSyscall(d) /\ ThreadOBJ'[d] = ThreadOBJ[d]
                /\ \/ pc'[d] = pc[d] \/ pc'[d] \notin {"initPublish", "adopt"}
                   \/ FreeArray(d) \/ ReuseEntry(d) \/ PublishArray(d)
                /\ pc[d] \in {"initPublish", "adopt", "endSyscall"} =>
                     pc'[d] \in {"initPublish", "adopt", "endSyscall"}
  BY <1>3 DEF Save, Goto, heapVars, arrayVars, coreVars, lockVars, localVars
<1>4. ASSUME NEW c \in Core, ~damaged, TakeSyscallLock(c)
      PROVE  \/ TakeSyscallLock(d)
             \/ /\ InSyscall(d) /\ ThreadOBJ'[d] = ThreadOBJ[d]
                /\ \/ pc'[d] = pc[d] \/ pc'[d] \notin {"initPublish", "adopt"}
                   \/ FreeArray(d) \/ ReuseEntry(d) \/ PublishArray(d)
                /\ pc[d] \in {"initPublish", "adopt", "endSyscall"} =>
                     pc'[d] \in {"initPublish", "adopt", "endSyscall"}
  BY <1>4, ZenonT(30) DEF TakeSyscallLock, Goto, heapVars, arrayVars, coreVars, lockVars,
     localVars
<1>5. ASSUME NEW c \in Core, ~damaged, EndSyscall(c)
      PROVE  \/ TakeSyscallLock(d)
             \/ /\ InSyscall(d) /\ ThreadOBJ'[d] = ThreadOBJ[d]
                /\ \/ pc'[d] = pc[d] \/ pc'[d] \notin {"initPublish", "adopt"}
                   \/ FreeArray(d) \/ ReuseEntry(d) \/ PublishArray(d)
                /\ pc[d] \in {"initPublish", "adopt", "endSyscall"} =>
                     pc'[d] \in {"initPublish", "adopt", "endSyscall"}
  BY <1>5 DEF EndSyscall, Goto, heapVars, arrayVars, coreVars, lockVars,
     localVars
<1>6. ASSUME NEW c \in Core, ~damaged, CountLoads(c)
      PROVE  \/ TakeSyscallLock(d)
             \/ /\ InSyscall(d) /\ ThreadOBJ'[d] = ThreadOBJ[d]
                /\ \/ pc'[d] = pc[d] \/ pc'[d] \notin {"initPublish", "adopt"}
                   \/ FreeArray(d) \/ ReuseEntry(d) \/ PublishArray(d)
                /\ pc[d] \in {"initPublish", "adopt", "endSyscall"} =>
                     pc'[d] \in {"initPublish", "adopt", "endSyscall"}
  BY <1>6 DEF CountLoads, Goto, heapVars, arrayVars, coreVars, lockVars,
     localVars
<1>7. ASSUME NEW c \in Core, ~damaged, ReuseEntry(c)
      PROVE  \/ TakeSyscallLock(d)
             \/ /\ InSyscall(d) /\ ThreadOBJ'[d] = ThreadOBJ[d]
                /\ \/ pc'[d] = pc[d] \/ pc'[d] \notin {"initPublish", "adopt"}
                   \/ FreeArray(d) \/ ReuseEntry(d) \/ PublishArray(d)
                /\ pc[d] \in {"initPublish", "adopt", "endSyscall"} =>
                     pc'[d] \in {"initPublish", "adopt", "endSyscall"}
  <2>1. /\ pc[c] = "init" /\ UNCHANGED <<call, ThreadOBJ>>
        /\ \A e \in Core : e # c => pc'[e] = pc[e]
    BY <1>7, ReuseControl
  <2>2. CASE c = d
    BY <1>7, <2>1, <2>2
  <2>3. CASE c # d
    BY <2>1, <2>3
  <2> QED BY <2>2, <2>3
<1>8. ASSUME NEW c \in Core, ~damaged, NewArray(c)
      PROVE  \/ TakeSyscallLock(d)
             \/ /\ InSyscall(d) /\ ThreadOBJ'[d] = ThreadOBJ[d]
                /\ \/ pc'[d] = pc[d] \/ pc'[d] \notin {"initPublish", "adopt"}
                   \/ FreeArray(d) \/ ReuseEntry(d) \/ PublishArray(d)
                /\ pc[d] \in {"initPublish", "adopt", "endSyscall"} =>
                     pc'[d] \in {"initPublish", "adopt", "endSyscall"}
  BY <1>8 DEF NewArray, Goto, heapVars, arrayVars, coreVars, lockVars,
     localVars
<1>9. ASSUME NEW c \in Core, ~damaged, NewStack(c)
      PROVE  \/ TakeSyscallLock(d)
             \/ /\ InSyscall(d) /\ ThreadOBJ'[d] = ThreadOBJ[d]
                /\ \/ pc'[d] = pc[d] \/ pc'[d] \notin {"initPublish", "adopt"}
                   \/ FreeArray(d) \/ ReuseEntry(d) \/ PublishArray(d)
                /\ pc[d] \in {"initPublish", "adopt", "endSyscall"} =>
                     pc'[d] \in {"initPublish", "adopt", "endSyscall"}
  BY <1>9 DEF NewStack, Goto, heapVars, arrayVars, coreVars, lockVars,
     localVars
<1>10. ASSUME NEW c \in Core, ~damaged, FreeArray(c)
      PROVE  \/ TakeSyscallLock(d)
             \/ /\ InSyscall(d) /\ ThreadOBJ'[d] = ThreadOBJ[d]
                /\ \/ pc'[d] = pc[d] \/ pc'[d] \notin {"initPublish", "adopt"}
                   \/ FreeArray(d) \/ ReuseEntry(d) \/ PublishArray(d)
                /\ pc[d] \in {"initPublish", "adopt", "endSyscall"} =>
                     pc'[d] \in {"initPublish", "adopt", "endSyscall"}
  BY <1>10 DEF FreeArray, Free, Goto, heapVars, arrayVars, coreVars, lockVars,
     localVars
<1>11. ASSUME NEW c \in Core, ~damaged, PublishArray(c)
      PROVE  \/ TakeSyscallLock(d)
             \/ /\ InSyscall(d) /\ ThreadOBJ'[d] = ThreadOBJ[d]
                /\ \/ pc'[d] = pc[d] \/ pc'[d] \notin {"initPublish", "adopt"}
                   \/ FreeArray(d) \/ ReuseEntry(d) \/ PublishArray(d)
                /\ pc[d] \in {"initPublish", "adopt", "endSyscall"} =>
                     pc'[d] \in {"initPublish", "adopt", "endSyscall"}
  BY <1>11 DEF PublishArray, AfterInit, NewThread, Goto, heapVars, arrayVars,
     coreVars, lockVars, localVars
<1>12. ASSUME NEW c \in Core, ~damaged, Adopt(c)
      PROVE  \/ TakeSyscallLock(d)
             \/ /\ InSyscall(d) /\ ThreadOBJ'[d] = ThreadOBJ[d]
                /\ \/ pc'[d] = pc[d] \/ pc'[d] \notin {"initPublish", "adopt"}
                   \/ FreeArray(d) \/ ReuseEntry(d) \/ PublishArray(d)
                /\ pc[d] \in {"initPublish", "adopt", "endSyscall"} =>
                     pc'[d] \in {"initPublish", "adopt", "endSyscall"}
  BY <1>12 DEF Adopt, Goto, heapVars, arrayVars, coreVars, lockVars, localVars
<1>13. ASSUME NEW c \in Core, ~damaged, Exit(c)
      PROVE  \/ TakeSyscallLock(d)
             \/ /\ InSyscall(d) /\ ThreadOBJ'[d] = ThreadOBJ[d]
                /\ \/ pc'[d] = pc[d] \/ pc'[d] \notin {"initPublish", "adopt"}
                   \/ FreeArray(d) \/ ReuseEntry(d) \/ PublishArray(d)
                /\ pc[d] \in {"initPublish", "adopt", "endSyscall"} =>
                     pc'[d] \in {"initPublish", "adopt", "endSyscall"}
  BY <1>13 DEF Exit, Goto, heapVars, arrayVars, coreVars, lockVars, localVars
<1>14. ASSUME NEW c \in Core, ~damaged, TestStatistics(c)
      PROVE  \/ TakeSyscallLock(d)
             \/ /\ InSyscall(d) /\ ThreadOBJ'[d] = ThreadOBJ[d]
                /\ \/ pc'[d] = pc[d] \/ pc'[d] \notin {"initPublish", "adopt"}
                   \/ FreeArray(d) \/ ReuseEntry(d) \/ PublishArray(d)
                /\ pc[d] \in {"initPublish", "adopt", "endSyscall"} =>
                     pc'[d] \in {"initPublish", "adopt", "endSyscall"}
  BY <1>14 DEF TestStatistics, Goto, heapVars, arrayVars, coreVars, lockVars,
     localVars
<1>15. ASSUME NEW c \in Core, ~damaged, MakeStatistics(c)
      PROVE  \/ TakeSyscallLock(d)
             \/ /\ InSyscall(d) /\ ThreadOBJ'[d] = ThreadOBJ[d]
                /\ \/ pc'[d] = pc[d] \/ pc'[d] \notin {"initPublish", "adopt"}
                   \/ FreeArray(d) \/ ReuseEntry(d) \/ PublishArray(d)
                /\ pc[d] \in {"initPublish", "adopt", "endSyscall"} =>
                     pc'[d] \in {"initPublish", "adopt", "endSyscall"}
  BY <1>15 DEF MakeStatistics, AfterStatistic, Goto, heapVars, arrayVars,
     coreVars, lockVars, localVars
<1>16. ASSUME NEW c \in Core, ~damaged, SwitchTask(c)
      PROVE  \/ TakeSyscallLock(d)
             \/ /\ InSyscall(d) /\ ThreadOBJ'[d] = ThreadOBJ[d]
                /\ \/ pc'[d] = pc[d] \/ pc'[d] \notin {"initPublish", "adopt"}
                   \/ FreeArray(d) \/ ReuseEntry(d) \/ PublishArray(d)
                /\ pc[d] \in {"initPublish", "adopt", "endSyscall"} =>
                     pc'[d] \in {"initPublish", "adopt", "endSyscall"}
  BY <1>16 DEF SwitchTask, Goto, heapVars, arrayVars, coreVars, lockVars,
     localVars
<1>17. ASSUME NEW c \in Core, ~damaged, SwitchNone(c)
      PROVE  \/ TakeSyscallLock(d)
             \/ /\ InSyscall(d) /\ ThreadOBJ'[d] = ThreadOBJ[d]
                /\ \/ pc'[d] = pc[d] \/ pc'[d] \notin {"initPublish", "adopt"}
                   \/ FreeArray(d) \/ ReuseEntry(d) \/ PublishArray(d)
                /\ pc[d] \in {"initPublish", "adopt", "endSyscall"} =>
                     pc'[d] \in {"initPublish", "adopt", "endSyscall"}
  BY <1>17 DEF SwitchNone, Goto, heapVars, arrayVars, coreVars, lockVars,
     localVars
<1>18. ASSUME NEW c \in Core, ~damaged, MallocOutOfMemory(c)
      PROVE  \/ TakeSyscallLock(d)
             \/ /\ InSyscall(d) /\ ThreadOBJ'[d] = ThreadOBJ[d]
                /\ \/ pc'[d] = pc[d] \/ pc'[d] \notin {"initPublish", "adopt"}
                   \/ FreeArray(d) \/ ReuseEntry(d) \/ PublishArray(d)
                /\ pc[d] \in {"initPublish", "adopt", "endSyscall"} =>
                     pc'[d] \in {"initPublish", "adopt", "endSyscall"}
  BY <1>18 DEF MallocOutOfMemory, Goto, heapVars, arrayVars, coreVars,
     lockVars, localVars
<1>19. CASE UNCHANGED vars
  BY <1>19 DEF vars, heapVars, arrayVars, coreVars, lockVars, localVars
<1> QED BY <1>1, <1>2, <1>3, <1>4, <1>5, <1>6, <1>7, <1>8, <1>9, <1>10, <1>11,
     <1>12, <1>13, <1>14, <1>15, <1>16, <1>17, <1>18, <1>19 DEF Next, Take,
     Handle

(* While a core is past InitThread, only counts take the place of a freed  *)
(* array.                                                                  *)
Seen(p) == StillThere(p) \/ Overwritten(p)

LEMMA SeenKept ==
  ASSUME CInv, [Next]_vars, NEW d \in Core, InSyscall(d),
         pc[d] \in {"initPublish", "adopt"}, NEW p, p.array \in Pointer, Seen(p)
  PROVE  Seen(p)'
<1>1. p.array \in Block
  BY ConstantFacts DEF Seen, StillThere, Overwritten, Pointer, Null
<1>2. ASSUME data'[p.array] = data[p.array]
      PROVE  Seen(p)'
  BY <1>2 DEF Seen, StillThere, Overwritten
<1>3. ASSUME NEW c \in Core, Launching(c), pc[c] # "initPublish"
      PROVE  FALSE
  BY <1>3, OneAtInit DEF Launching, AtInit
<1>4. ASSUME NEW c \in Core, \/ QuietStep(c) \/ Adopt(c) \/ SwitchTask(c) \/ Exit(c)
                             \/ ReuseEntry(c) \/ PublishArray(c)
      PROVE  Seen(p)'
  <2>1. CASE data' = data
    BY <1>2, <2>1
  <2>2. CASE NewArray(c) \/ NewStack(c) \/ ReuseEntry(c)
    <3>1. Launching(c) /\ pc[c] # "initPublish"
      BY <2>2 DEF NewArray, NewStack, ReuseEntry, Launching, AtInit
    <3> QED BY <1>3, <3>1
  <2>3. CASE MakeStatistics(c)
    <3>1. PICK b \in Pointer :
             /\ statistics' = [statistics EXCEPT ![pc[c]] = b]
             /\ \/ b # Null /\ Allocates(b, pc[c], 0)
                \/ b = Null /\ SameBlocks /\ failures' = failures + 1
      BY <2>3, StatisticsEffect
    <3>2. pc[c] \in Statistics
      BY <2>3, StatisticsEffect
    <3>3. CASE Allocates(b, pc[c], 0) /\ p.array = b
      <4>1. data'[p.array].what = pc[c]
        BY <3>3 DEF Allocates
      <4>2. p.array # Null
        BY <1>1, ConstantFacts
      <4> QED BY <3>2, <4>1, <4>2 DEF Seen, Overwritten
    <3>4. CASE Allocates(b, pc[c], 0) /\ p.array # b
      BY <1>1, <1>2, <3>4 DEF Allocates
    <3> QED BY <2>1, <3>1, <3>3, <3>4 DEF SameBlocks
  <2> QED BY <1>4, <2>1, <2>2, <2>3, OtherBlocks DEF SameBlocks
<1> QED BY <1>2, <1>4, StepKinds DEF vars, heapVars

LEMMA PointersKeptStep ==
  ASSUME CInv, TInv, MInv, [Next]_vars, ~damaged, ~damaged'
  PROVE  PointersKept'
<1> USE DEF MInv
<1>1. ASSUME NEW d \in Core, InSyscall(d)', pc'[d] \notin {"initPublish", "adopt", "endSyscall"}
      PROVE  ThreadOBJ'[d].array = ThreadArray' /\ ThreadOBJ'[d].of = arrays'
  <2>1. CASE TakeSyscallLock(d)
    BY <2>1 DEF TakeSyscallLock, arrayVars, CInv, TypeOK
  <2>2. CASE ~TakeSyscallLock(d)
    <3>1. InSyscall(d) /\ ThreadOBJ'[d] = ThreadOBJ[d]
          /\ pc[d] \notin {"initPublish", "adopt", "endSyscall"}
      BY <1>1, <2>2, SyscallSteps
    <3>2. ASSUME NEW c \in Core, PublishArray(c)
          PROVE  FALSE
      BY <3>1, <3>2, OneAtInit DEF PublishArray, Launching, AtInit
    <3>3. UNCHANGED <<ThreadArray, arrays>>
      BY <3>2, ArrayMoves
    <3> QED BY <3>1, <3>3 DEF PointersKept
  <2> QED BY <2>1, <2>2
<1>2. ASSUME NEW d \in Core, InSyscall(d)', pc'[d] \in {"initPublish", "adopt"}
      PROVE  /\ InSyscall(d) /\ ThreadOBJ'[d] = ThreadOBJ[d]
             /\ \/ pc[d] = pc'[d] \/ FreeArray(d) \/ ReuseEntry(d) \/ PublishArray(d)
  <2>1. ~TakeSyscallLock(d)
    <3>1. ASSUME TakeSyscallLock(d)
          PROVE  pc'[d] \in {"exit", "wantInit", "endSyscall"}
      BY <3>1 DEF TakeSyscallLock, Goto, CInv, TypeOK
    <3> QED BY <1>2, <3>1
  <2> QED BY <1>2, <2>1, SyscallSteps
<1>3. ASSUME NEW d \in Core, InSyscall(d)', pc'[d] \in {"initPublish", "adopt"},
             NEW q, q = ThreadOBJ'[d]
      PROVE  Seen(q)'
  <2>1. q = ThreadOBJ[d] /\ q.array \in Pointer /\ InSyscall(d)
    <3>1. q = ThreadOBJ[d] /\ InSyscall(d)
      BY <1>2, <1>3
    <3>2. ThreadOBJ[d] \in [array : Pointer, of : 0..MaxLaunches, slot : Slot]
      BY DEF CInv, TypeOK
    <3> QED BY <3>1, <3>2
  <2>2. CASE pc[d] \in {"initPublish", "adopt"}
    <3>1. Seen(q)
      BY <2>1, <2>2 DEF PointersKept, Seen
    <3> QED BY <2>1, <2>2, <3>1, SeenKept
  <2>3. CASE pc[d] \notin {"initPublish", "adopt"}
    <3>1. FreeArray(d) \/ ReuseEntry(d)
      BY <1>2, <1>3, <2>3 DEF PublishArray
    <3>2. pc[d] \in {"init", "initFree"}
      BY <3>1 DEF FreeArray, ReuseEntry
    <3>3. q.array = ThreadArray /\ q.of = arrays
      BY <2>1, <3>2 DEF PointersKept
    <3>4. ThreadArray # Null /\ ArrayData(ThreadArray, arrays)
      BY <2>1, <2>3, ArrayThere
    <3>5. data'[q.array] = data[q.array]
      BY <3>3, <3>4, BlockKept DEF ArrayData
    <3>6. StillThere(q)'
      BY <3>3, <3>4, <3>5 DEF StillThere, ArrayData
    <3> QED BY <3>6 DEF Seen
  <2> QED BY <2>2, <2>3
<1>4. ASSUME NEW d \in Core, InSyscall(d)', pc'[d] = "adopt"
      PROVE  \/ ThreadOBJ'[d].array = ThreadArray' /\ ThreadOBJ'[d].of = arrays'
             \/ ClosedSlots' = {}
  <2>1. InSyscall(d) /\ ThreadOBJ'[d] = ThreadOBJ[d]
    BY <1>2, <1>4
  <2>2. CASE PublishArray(d)
    <3>1. pc[d] = "initPublish"
      BY <2>2 DEF PublishArray
    <3>2. ClosedSlots = {}
      BY <3>1 DEF TInv, NoneClosed
    <3> QED BY <2>1, <3>1, <3>2, NoneClosedKept
  <2>3. CASE pc[d] \in {"init", "adopt"}
    <3>1. ASSUME NEW c \in Core, PublishArray(c)
          PROVE  FALSE
      BY <2>1, <2>3, <3>1, OneAtInit DEF PublishArray, Launching, AtInit
    <3>2. UNCHANGED <<ThreadArray, arrays>>
      BY <3>1, ArrayMoves
    <3>3. \/ ThreadOBJ[d].array = ThreadArray /\ ThreadOBJ[d].of = arrays
          \/ pc[d] = "adopt" /\ ClosedSlots = {}
      BY <2>1, <2>3 DEF PointersKept
    <3> QED BY <2>1, <3>2, <3>3, NoneClosedKept
  <2>4. CASE FreeArray(d)
    <3>1. pc'[d] = "initPublish"
      BY <2>4 DEF FreeArray, Goto, CInv, TypeOK
    <3> QED BY <1>4, <3>1
  <2>5. ReuseEntry(d) => pc[d] = "init"
    BY DEF ReuseEntry
  <2> QED BY <1>2, <1>4, <2>2, <2>3, <2>4, <2>5
<1>5. ASSUME NEW d \in Core, InSyscall(d)', pc'[d] \in {"initPublish", "adopt"}
      PROVE  StillThere(ThreadOBJ[d])' \/ Overwritten(ThreadOBJ[d])'
  <2>1. PICK q : q = ThreadOBJ'[d]
    OBVIOUS
  <2>2. Seen(q)'
    BY <1>3, <1>5, <2>1
  <2> QED BY <2>1, <2>2 DEF Seen, StillThere, Overwritten
<1>6. ASSUME NEW d \in Core, pc'[d] = "adopt"
      PROVE  InSyscall(d)'
  BY <1>6, CallFitsStep DEF CallFits, InSyscall, Calls
<1> QED BY <1>1, <1>4, <1>5, <1>6 DEF PointersKept

LEMMA MInvStep ==
  ASSUME CInv, TInv, MInv, [Next]_vars
  PROVE  MInv'
<1>1. ASSUME ~damaged'
      PROVE  ~damaged
  BY <1>1, StepKinds DEF vars
<1> QED BY <1>1, MadeKeptStep, ArrayKeptStep, StacksKeptStep, PointersKeptStep DEF MInv

-----------------------------------------------------------------------------
(***************************************************************************)
(* What is in use.                                                         *)
(***************************************************************************)
LEMMA NoneLeftStep ==
  ASSUME CInv, NoneLeft, [Next]_vars
  PROVE  NoneLeft'
<1> USE ConstantFacts DEF CInv, TypeOK, NoneLeft, AtInit, Statistics
<1>1. ASSUME NEW c \in Core, ~damaged, Interrupt(c)
      PROVE  NoneLeft'
  BY <1>1 DEF Interrupt, Enter, Goto, heapVars, arrayVars, coreVars, lockVars,
     localVars
<1>2. ASSUME NEW c \in Core, NEW f \in Calls, ~damaged, Syscall(c, f)
      PROVE  NoneLeft'
  BY <1>2, SyscallControl DEF Syscall, Enter
<1>3. ASSUME NEW c \in Core, ~damaged, Save(c)
      PROVE  NoneLeft'
  BY <1>3 DEF Save, Goto, heapVars, arrayVars, coreVars, lockVars, localVars
<1>4. ASSUME NEW c \in Core, ~damaged, TakeSyscallLock(c)
      PROVE  NoneLeft'
  BY <1>4 DEF TakeSyscallLock, Goto, heapVars, arrayVars, coreVars, lockVars,
     localVars
<1>5. ASSUME NEW c \in Core, ~damaged, EndSyscall(c)
      PROVE  NoneLeft'
  BY <1>5 DEF EndSyscall, Goto, heapVars, arrayVars, coreVars, lockVars,
     localVars
<1>6. ASSUME NEW c \in Core, ~damaged, CountLoads(c)
      PROVE  NoneLeft'
  BY <1>6 DEF CountLoads, Goto, heapVars, arrayVars, coreVars, lockVars,
     localVars
<1>7. ASSUME NEW c \in Core, ~damaged, ReuseEntry(c)
      PROVE  NoneLeft'
  <2>1. UNCHANGED <<TmpArray, TmpStack>> /\ pc[c] = "init"
        /\ \A d \in Core : d # c => pc'[d] = pc[d]
    BY <1>7, ReuseControl, ReuseBlocks
  <2>2. TmpArray[c] = Null /\ TmpStack[c] = Null
    BY <1>7, <2>1
  <2> QED BY <2>1, <2>2
<1>8. ASSUME NEW c \in Core, ~damaged, NewArray(c)
      PROVE  NoneLeft'
  BY <1>8, NewArrayEffect DEF arrayVars
<1>9. ASSUME NEW c \in Core, ~damaged, NewStack(c)
      PROVE  NoneLeft'
  BY <1>9, NewStackEffect DEF arrayVars
<1>10. ASSUME NEW c \in Core, ~damaged, FreeArray(c)
      PROVE  NoneLeft'
  BY <1>10 DEF FreeArray, Free, Goto, heapVars, arrayVars, coreVars, lockVars,
     localVars
<1>11. ASSUME NEW c \in Core, ~damaged, PublishArray(c)
      PROVE  NoneLeft'
  BY <1>11 DEF PublishArray, AfterInit, NewThread, Goto, heapVars, arrayVars,
     coreVars, lockVars, localVars
<1>12. ASSUME NEW c \in Core, ~damaged, Adopt(c)
      PROVE  NoneLeft'
  BY <1>12 DEF Adopt, Goto, heapVars, arrayVars, coreVars, lockVars, localVars
<1>13. ASSUME NEW c \in Core, ~damaged, Exit(c)
      PROVE  NoneLeft'
  BY <1>13 DEF Exit, Goto, heapVars, arrayVars, coreVars, lockVars, localVars
<1>14. ASSUME NEW c \in Core, ~damaged, TestStatistics(c)
      PROVE  NoneLeft'
  BY <1>14 DEF TestStatistics, Goto, heapVars, arrayVars, coreVars, lockVars,
     localVars
<1>15. ASSUME NEW c \in Core, ~damaged, MakeStatistics(c)
      PROVE  NoneLeft'
  BY <1>15 DEF MakeStatistics, AfterStatistic, Goto, heapVars, arrayVars,
     coreVars, lockVars, localVars
<1>16. ASSUME NEW c \in Core, ~damaged, SwitchTask(c)
      PROVE  NoneLeft'
  BY <1>16 DEF SwitchTask, Goto, heapVars, arrayVars, coreVars, lockVars,
     localVars
<1>17. ASSUME NEW c \in Core, ~damaged, SwitchNone(c)
      PROVE  NoneLeft'
  BY <1>17 DEF SwitchNone, Goto, heapVars, arrayVars, coreVars, lockVars,
     localVars
<1>18. ASSUME NEW c \in Core, ~damaged, MallocOutOfMemory(c)
      PROVE  NoneLeft'
  BY <1>18 DEF MallocOutOfMemory, Goto, heapVars, arrayVars, coreVars,
     lockVars, localVars
<1>19. CASE UNCHANGED vars
  BY <1>19 DEF vars, heapVars, arrayVars, coreVars, lockVars, localVars
<1> QED BY <1>1, <1>2, <1>3, <1>4, <1>5, <1>6, <1>7, <1>8, <1>9, <1>10, <1>11,
     <1>12, <1>13, <1>14, <1>15, <1>16, <1>17, <1>18, <1>19 DEF Next, Take,
     Handle

LEMMA NewBlocks ==
  ASSUME CInv, [Next]_vars, NEW b \in used'
  PROVE  \/ b \in used /\ data'[b] = data[b]
         \/ \E c \in Core : NewArray(c) /\ b = TmpArray'[c] /\ data'[b].what = "array"
         \/ \E c \in Core : NewStack(c) /\ b = TmpStack'[c] /\ data'[b].what = "stack"
         \/ \E c \in Core, s \in Slot :
              ReuseEntry(c) /\ b = threads'[s].stack /\ data'[b].what = "stack"
         \/ \E c \in Core : MakeStatistics(c) /\ data'[b].what \in Statistics
<1> DEFINE Goal(c) == \/ b \in used /\ data'[b] = data[b]
                      \/ NewArray(c) /\ b = TmpArray'[c] /\ data'[b].what = "array"
                      \/ NewStack(c) /\ b = TmpStack'[c] /\ data'[b].what = "stack"
                      \/ \E s \in Slot :
                           ReuseEntry(c) /\ b = threads'[s].stack /\ data'[b].what = "stack"
                      \/ MakeStatistics(c) /\ data'[b].what \in Statistics
<1>1. ASSUME NEW a, NEW w, NEW n, Allocates(a, w, n)
      PROVE  \/ b \in used /\ data'[b] = data[b]
             \/ b = a /\ data'[b].what = w
  BY <1>1 DEF Allocates, CInv, TypeOK
<1>2. ASSUME NEW c \in Core, \/ QuietStep(c) \/ Adopt(c) \/ SwitchTask(c) \/ Exit(c)
                             \/ ReuseEntry(c) \/ PublishArray(c)
      PROVE  Goal(c)
  <2>1. CASE SameBlocks
    BY <2>1 DEF SameBlocks
  <2>2. CASE NewArray(c)
    <3>1. PICK a \in Pointer :
             /\ TmpArray' = [TmpArray EXCEPT ![c] = a]
             /\ \/ /\ a # Null /\ Allocates(a, "array", arrays + 1)
                   /\ pc' = [pc EXCEPT ![c] = "initStack"]
                \/ /\ a = Null /\ SameBlocks /\ failures' = failures + 1
                   /\ pc' = [pc EXCEPT ![c] = "hungInit"]
      BY <2>2, NewArrayEffect
    <3>2. TmpArray'[c] = a
      BY <3>1 DEF CInv, TypeOK
    <3> QED BY <1>1, <2>1, <2>2, <3>1, <3>2
  <2>3. CASE NewStack(c)
    <3>1. PICK a \in Pointer :
             /\ TmpStack' = [TmpStack EXCEPT ![c] = a]
             /\ \/ /\ a # Null /\ Allocates(a, "stack", launches + 1)
                   /\ pc' = [pc EXCEPT ![c] = "initFree"]
                \/ /\ a = Null /\ SameBlocks /\ failures' = failures + 1
                   /\ pc' = [pc EXCEPT ![c] = "hungInit"]
      BY <2>3, NewStackEffect
    <3>2. TmpStack'[c] = a
      BY <3>1 DEF CInv, TypeOK
    <3> QED BY <1>1, <2>1, <2>3, <3>1, <3>2
  <2>4. CASE ReuseEntry(c)
    <3>1. PICK s \in ClosedSlots, d \in Core, a \in Pointer :
             /\ s \in Slot
             /\ threads'[s] = NewThread(d, a)
             /\ \A t \in Slot : t # s => threads'[t] = threads[t]
             /\ \/ a # Null /\ Allocates(a, "stack", launches + 1)
                \/ a = Null /\ SameBlocks /\ failures' = failures + 1
      BY <2>4, ReuseBlocks
    <3>2. threads'[s].stack = a
      BY <3>1 DEF NewThread
    <3> QED BY <1>1, <2>1, <2>4, <3>1, <3>2
  <2>5. CASE MakeStatistics(c)
    <3>1. PICK a \in Pointer :
             /\ statistics' = [statistics EXCEPT ![pc[c]] = a]
             /\ \/ a # Null /\ Allocates(a, pc[c], 0)
                \/ a = Null /\ SameBlocks /\ failures' = failures + 1
      BY <2>5, StatisticsEffect
    <3>2. pc[c] \in Statistics
      BY <2>5, StatisticsEffect
    <3> QED BY <1>1, <2>1, <2>5, <3>1, <3>2
  <2>6. CASE used' \subseteq used /\ data' = data
    BY <2>6
  <2> QED BY <1>2, <2>1, <2>2, <2>3, <2>4, <2>5, <2>6, OtherBlocks
<1>3. CASE UNCHANGED vars
  BY <1>3 DEF vars, heapVars
<1> QED BY <1>2, <1>3, StepKinds

(* The two blocks of InitThread.                                           *)
LEMMA TmpChanges ==
  ASSUME CInv, [Next]_vars, NEW e \in Core
  PROVE  /\ TmpArray'[e] = TmpArray[e] \/ NewArray(e) \/ PublishArray(e)
         /\ TmpStack'[e] = TmpStack[e] \/ NewStack(e) \/ PublishArray(e)
<1> USE DEF CInv, TypeOK
<1>1. ASSUME NEW c \in Core, ~damaged, Interrupt(c)
      PROVE  /\ TmpArray'[e] = TmpArray[e] \/ NewArray(e) \/ PublishArray(e)
             /\ TmpStack'[e] = TmpStack[e] \/ NewStack(e) \/ PublishArray(e)
  BY <1>1 DEF Interrupt, Enter, Goto, heapVars, arrayVars, coreVars, lockVars,
     localVars
<1>2. ASSUME NEW c \in Core, NEW f \in Calls, ~damaged, Syscall(c, f)
      PROVE  /\ TmpArray'[e] = TmpArray[e] \/ NewArray(e) \/ PublishArray(e)
             /\ TmpStack'[e] = TmpStack[e] \/ NewStack(e) \/ PublishArray(e)
  BY <1>2, SyscallControl DEF Syscall, Enter
<1>3. ASSUME NEW c \in Core, ~damaged,
             Save(c) \/ TakeSyscallLock(c) \/ EndSyscall(c) \/ CountLoads(c)
      PROVE  /\ TmpArray'[e] = TmpArray[e] \/ NewArray(e) \/ PublishArray(e)
             /\ TmpStack'[e] = TmpStack[e] \/ NewStack(e) \/ PublishArray(e)
  BY <1>3 DEF Save, TakeSyscallLock, EndSyscall, CountLoads, Goto, heapVars,
     arrayVars, coreVars, lockVars, localVars
<1>4. ASSUME NEW c \in Core, ~damaged, ReuseEntry(c)
      PROVE  /\ TmpArray'[e] = TmpArray[e] \/ NewArray(e) \/ PublishArray(e)
             /\ TmpStack'[e] = TmpStack[e] \/ NewStack(e) \/ PublishArray(e)
  BY <1>4, ReuseBlocks
<1>5. ASSUME NEW c \in Core, ~damaged, NewArray(c)
      PROVE  /\ TmpArray'[e] = TmpArray[e] \/ NewArray(e) \/ PublishArray(e)
             /\ TmpStack'[e] = TmpStack[e] \/ NewStack(e) \/ PublishArray(e)
  BY <1>5, NewArrayEffect DEF arrayVars
<1>6. ASSUME NEW c \in Core, ~damaged, NewStack(c)
      PROVE  /\ TmpArray'[e] = TmpArray[e] \/ NewArray(e) \/ PublishArray(e)
             /\ TmpStack'[e] = TmpStack[e] \/ NewStack(e) \/ PublishArray(e)
  BY <1>6, NewStackEffect DEF arrayVars
<1>7. ASSUME NEW c \in Core, ~damaged,
             FreeArray(c) \/ TestStatistics(c) \/ MakeStatistics(c) \/ SwitchNone(c) \/ MallocOutOfMemory(c)
      PROVE  /\ TmpArray'[e] = TmpArray[e] \/ NewArray(e) \/ PublishArray(e)
             /\ TmpStack'[e] = TmpStack[e] \/ NewStack(e) \/ PublishArray(e)
  BY <1>7 DEF FreeArray, Free, TestStatistics, MakeStatistics, AfterStatistic,
     SwitchNone, MallocOutOfMemory, Goto, heapVars, arrayVars, coreVars,
     lockVars, localVars
<1>8. ASSUME NEW c \in Core, ~damaged, PublishArray(c)
      PROVE  /\ TmpArray'[e] = TmpArray[e] \/ NewArray(e) \/ PublishArray(e)
             /\ TmpStack'[e] = TmpStack[e] \/ NewStack(e) \/ PublishArray(e)
  BY <1>8 DEF PublishArray, AfterInit, NewThread, Goto, heapVars, arrayVars,
     coreVars, lockVars, localVars
<1>9. ASSUME NEW c \in Core, ~damaged, Adopt(c) \/ Exit(c) \/ SwitchTask(c)
      PROVE  /\ TmpArray'[e] = TmpArray[e] \/ NewArray(e) \/ PublishArray(e)
             /\ TmpStack'[e] = TmpStack[e] \/ NewStack(e) \/ PublishArray(e)
  BY <1>9 DEF Adopt, Exit, SwitchTask, Goto, heapVars, arrayVars, coreVars,
     lockVars, localVars
<1>10. CASE UNCHANGED vars
  BY <1>10 DEF vars, heapVars, arrayVars, coreVars, lockVars, localVars
<1> QED BY <1>1, <1>2, <1>3, <1>4, <1>5, <1>6, <1>7, <1>8, <1>9,
     <1>10 DEF Next, Take, Handle

LEMMA ArraysKnownStep ==
  ASSUME CInv, TInv, MInv, UInv, [Next]_vars
  PROVE  ArraysKnown'
<1> SUFFICES ASSUME NEW b \in used', data'[b].what = "array"
             PROVE  b = ThreadArray' \/ \E c \in Core : b = TmpArray'[c]
  BY DEF ArraysKnown
<1>1. CASE b \in used /\ data'[b] = data[b]
  <2>1. b = ThreadArray \/ \E e \in Core : b = TmpArray[e]
    BY <1>1 DEF UInv, ArraysKnown
  <2>2. b # Null
    BY <1>1, ConstantFacts DEF CInv, TypeOK
  <2>3. ASSUME NEW e \in Core, b = TmpArray[e]
        PROVE  b = ThreadArray' \/ b = TmpArray'[e]
    <3>1. ASSUME NewArray(e)
          PROVE  FALSE
      <4>1. pc[e] = "init"
        BY <3>1 DEF NewArray
      <4> QED BY <2>2, <2>3, <4>1 DEF UInv, NoneLeft
    <3>2. PublishArray(e) => ThreadArray' = TmpArray[e]
      BY DEF PublishArray
    <3> QED BY <2>3, <3>1, <3>2, TmpChanges
  <2>4. CASE b = ThreadArray
    <3>1. ASSUME NEW c \in Core, PublishArray(c)
          PROVE  FALSE
      <4>1. pc[c] = "initPublish"
        BY <3>1 DEF PublishArray
      <4>2. data[b].what \in Statistics
        BY <1>1, <2>4, <4>1 DEF UInv, OldArrayGone
      <4> QED BY <1>1, <4>2 DEF Statistics
    <3> QED BY <2>4, <3>1, ArrayMoves
  <2> QED BY <2>1, <2>3, <2>4
<1>2. CASE ~(b \in used /\ data'[b] = data[b])
  BY <1>2, NewBlocks DEF Statistics
<1> QED BY <1>1, <1>2

LEMMA NothingUnusedStep ==
  ASSUME CInv, UInv, [Next]_vars
  PROVE  NothingUnused'
BY NewBlocks DEF UInv, NothingUnused, Statistics

LEMMA OldArrayGoneStep ==
  ASSUME CInv, UInv, [Next]_vars
  PROVE  OldArrayGone'
<1> SUFFICES ASSUME NEW c \in Core, pc'[c] = "initPublish", ThreadArray' \in used'
             PROVE  data'[ThreadArray'].what \in Statistics
  BY DEF OldArrayGone
<1>1. ThreadArray' = ThreadArray
  BY AtInitKept
<1>2. ~FreeArray(c)
  BY <1>1 DEF FreeArray, Free
<1>3. pc[c] = "initPublish"
  BY <1>2, AtInitSteps, NewArrayEffect, NewStackEffect DEF CInv, TypeOK
<1>4. CASE ThreadArray \in used /\ data'[ThreadArray] = data[ThreadArray]
  BY <1>1, <1>3, <1>4 DEF UInv, OldArrayGone
<1>5. ASSUME NEW e \in Core, NewArray(e) \/ NewStack(e) \/ ReuseEntry(e)
      PROVE  FALSE
  BY <1>3, <1>5, OneAtInit DEF NewArray, NewStack, ReuseEntry, Launching, AtInit
<1> QED BY <1>1, <1>4, <1>5, NewBlocks

(* A stack that is lost: of a thread that was, and is not open.            *)
Gone(n) == n \in 1..launches /\ \A s \in Slot : Open(s) => threads[s].launch # n

LEMMA StacksKnownStep ==
  ASSUME CInv, TInv, MInv, UInv, [Next]_vars
  PROVE  StacksKnown'
<1> USE DEF TInv, LaunchesApart
<1> SUFFICES ASSUME NEW b \in used', data'[b].what = "stack", NEW n, n = data'[b].of
             PROVE  \/ \E s \in Slot : threads'[s].stack = b
                    \/ \E c \in Core : b = TmpStack'[c]
                    \/ Gone(n)'
  <2>1. ASSUME \A b \in used' : \A n :
                 data'[b].what = "stack" /\ n = data'[b].of =>
                   \/ \E s \in Slot : threads'[s].stack = b
                   \/ \E c \in Core : b = TmpStack'[c]
                   \/ /\ n \in 1..launches'
                      /\ \A s \in Slot : Open(s)' => threads'[s].launch # n
        PROVE  StacksKnown'
    BY <2>1 DEF StacksKnown
  <2> QED BY <2>1 DEF Gone
<1>1. CASE ~(b \in used /\ data'[b] = data[b])
  BY <1>1, NewBlocks DEF Statistics
<1>2. CASE b \in used /\ data'[b] = data[b]
  <2>1. n = data[b].of
    BY <1>2
  <2>2. b # Null
    BY <1>2, ConstantFacts DEF CInv, TypeOK
  <2>3. launches \in Nat
    BY DEF CInv, TypeOK
  <2>4. ASSUME NEW s \in Slot, threads[s].stack = b, ~damaged
        PROVE  s \in Used /\ n = threads[s].launch /\ n \in 1..launches
    <3>1. s \in Used
      BY <2>2, <2>4
    <3>2. n = threads[s].launch
      <4>1. StackData(b, threads[s].launch)
        BY <2>2, <2>4 DEF MInv, StacksKept
      <4> QED BY <2>1, <4>1 DEF StackData
    <3> QED BY <3>1, <3>2
  <2>5. \/ \E s \in Slot : threads[s].stack = b
        \/ \E c \in Core : b = TmpStack[c]
        \/ Gone(n)
    BY <1>2, <2>1 DEF UInv, StacksKnown, Gone
  <2>6. ASSUME NEW e \in Core, b = TmpStack[e]
        PROVE  \/ b = TmpStack'[e]
               \/ \E s \in Slot : threads'[s].stack = b
    <3>1. ASSUME NewStack(e)
          PROVE  FALSE
      <4>1. pc[e] = "initStack"
        BY <3>1 DEF NewStack
      <4> QED BY <2>2, <2>6, <4>1 DEF UInv, NoneLeft
    <3>2. ASSUME PublishArray(e)
          PROVE  \E s \in Slot : threads'[s].stack = b
      <4>1. PICK d \in Core : threads'[NumberThreads] = NewThread(d, TmpStack[e])
        BY <3>2, PublishEffect
      <4>2. threads'[NumberThreads].stack = TmpStack[e]
        BY <4>1 DEF NewThread
      <4> QED BY <2>6, <3>2, <4>2, PublishEffect
    <3> QED BY <2>6, <3>1, <3>2, TmpChanges
  <2>8. ASSUME NEW c \in Core, QuietStep(c)
        PROVE  /\ \A s \in Slot : threads[s].stack = b => threads'[s].stack = b
               /\ Gone(n) => Gone(n)'
    BY <2>8, QuietEffect DEF Gone, Open, Used
  <2>9. ASSUME NEW c \in Core, ~damaged, Adopt(c) \/ SwitchTask(c)
        PROVE  /\ \A s \in Slot : threads[s].stack = b => threads'[s].stack = b
               /\ Gone(n) => Gone(n)'
    <3>1. \A s \in Slot : KeepsThread(s)
      BY <2>9, AdoptKeeps, SwitchEffect
    <3>2. UNCHANGED <<NumberThreads, launches>>
      BY <2>9 DEF Adopt, SwitchTask
    <3> QED BY <3>1, <3>2 DEF Gone, KeepsThread, Open, Used
  <2>10. ASSUME NEW c \in Core, ~damaged, Exit(c)
         PROVE  /\ \A s \in Slot : threads[s].stack = b => threads'[s].stack = b \/ Gone(n)'
                /\ Gone(n) => Gone(n)'
    <3>1. PICK k \in Slot : k = CoreCurrentThreadID[c]
      BY DEF CInv, TypeOK
    <3>2. /\ \A t \in Slot : t # k => KeepsThread(t)
          /\ threads'[k].ThreadState = Closed /\ threads'[k].launch = threads[k].launch
      BY <2>10, <3>1, ExitEffect
    <3>3. UNCHANGED <<NumberThreads, launches>>
      BY <2>10 DEF Exit
    <3>4. \A t \in Slot : Open(t)' => t # k /\ Open(t) /\ threads'[t].launch = threads[t].launch
      BY <3>2, <3>3 DEF Open, Used, KeepsThread
    <3>5. Gone(n) => Gone(n)'
      BY <3>3, <3>4 DEF Gone
    <3>6. threads[k].stack = b => Gone(n)'
      BY <2>4, <2>10, <3>3, <3>4 DEF Gone, Open
    <3>7. \A s \in Slot : s # k /\ threads[s].stack = b => threads'[s].stack = b
      BY <3>2 DEF KeepsThread
    <3> QED BY <3>5, <3>6, <3>7
  <2>11. ASSUME NEW c \in Core, ~damaged, ReuseEntry(c)
         PROVE  /\ \A s \in Slot : threads[s].stack = b => threads'[s].stack = b \/ Gone(n)'
                /\ Gone(n) => Gone(n)'
    <3>1. PICK k \in ClosedSlots, d \in Core, a \in Pointer :
             /\ k \in Slot
             /\ threads'[k] = NewThread(d, a)
             /\ \A t \in Slot : t # k => threads'[t] = threads[t]
             /\ \/ a # Null /\ Allocates(a, "stack", launches + 1)
                \/ a = Null /\ SameBlocks /\ failures' = failures + 1
      BY <2>11, ReuseBlocks
    <3>2. launches' = launches + 1 /\ NumberThreads' = NumberThreads
      BY <2>11 DEF ReuseEntry
    <3>3. threads'[k].launch = launches + 1
      BY <3>1 DEF NewThread
    <3>4. \A t \in Slot : t # k => (Open(t)' => Open(t)) /\ threads'[t].launch = threads[t].launch
      BY <3>1, <3>2 DEF Open, Used
    <3>5. Gone(n) => Gone(n)'
      BY <2>3, <3>2, <3>3, <3>4 DEF Gone
    <3>6. threads[k].stack = b => Gone(n)'
      <4>1. ASSUME threads[k].stack = b
            PROVE  n \in 1..launches /\ n = threads[k].launch /\ k \in Used
        BY <2>4, <2>11, <3>1, <4>1
      <4>2. ASSUME threads[k].stack = b, NEW t \in Slot, Open(t)', t # k
            PROVE  threads'[t].launch # n
        BY <3>1, <3>4, <4>1, <4>2 DEF Open
      <4> QED BY <2>3, <3>2, <3>3, <4>1, <4>2 DEF Gone
    <3>7. \A s \in Slot : s # k /\ threads[s].stack = b => threads'[s].stack = b
      BY <3>1
    <3> QED BY <3>5, <3>6, <3>7
  <2>12. ASSUME NEW c \in Core, ~damaged, PublishArray(c)
         PROVE  /\ \A s \in Slot : threads[s].stack = b => threads'[s].stack = b
                /\ Gone(n) => Gone(n)'
    <3>1. PICK d \in Core : threads'[NumberThreads] = NewThread(d, TmpStack[c])
      BY <2>12, PublishEffect
    <3>2. NumberThreads \in Slot /\ \A t \in Slot : t # NumberThreads => threads'[t] = threads[t]
      BY <2>12, PublishEffect
    <3>3. launches' = launches + 1 /\ NumberThreads' = NumberThreads + 1
      BY <2>12 DEF PublishArray
    <3>4. Used' = Used \cup {NumberThreads} /\ NumberThreads \notin Used
      BY <3>2, <3>3, UsedGrows DEF CInv, TypeOK, Used
    <3>5. threads'[NumberThreads].launch = launches + 1
      BY <3>1 DEF NewThread
    <3>6. \A t \in Slot : t # NumberThreads =>
            (Open(t)' => Open(t)) /\ threads'[t].launch = threads[t].launch
      BY <3>2, <3>4 DEF Open
    <3>7. Gone(n) => Gone(n)'
      BY <2>3, <3>3, <3>5, <3>6 DEF Gone
    <3>8. \A s \in Slot : threads[s].stack = b => s # NumberThreads
      BY <2>2, <3>4
    <3> QED BY <3>2, <3>7, <3>8
  <2>13. CASE UNCHANGED vars
    <3>1. UNCHANGED <<threads, NumberThreads, launches, TmpStack>>
      BY <2>13 DEF vars, arrayVars, localVars
    <3>2. Gone(n) => Gone(n)'
      BY <3>1 DEF Gone, Open, Used
    <3> QED BY <2>5, <3>1, <3>2
  <2> QED BY <2>1, <2>5, <2>6, <2>8, <2>9, <2>10, <2>11, <2>12, <2>13, StepKinds
<1> QED BY <1>1, <1>2

LEMMA UInvStep ==
  ASSUME CInv, TInv, MInv, UInv, [Next]_vars
  PROVE  UInv'
BY NoneLeftStep, ArraysKnownStep, StacksKnownStep, NothingUnusedStep, OldArrayGoneStep DEF UInv

-----------------------------------------------------------------------------
(***************************************************************************)
(* The counts.                                                             *)
(***************************************************************************)
LEMMA MallocSame ==
  ASSUME NEW b, NEW d, Malloc(b, d)
  PROVE  UNCHANGED outOfMemory
BY DEF Malloc

LEMMA CountsSteps ==
  ASSUME CInv, [Next]_vars
  PROVE  \/ \E c \in Core : MakeStatistics(c) \/ MallocOutOfMemory(c) \/ TestStatistics(c)
         \/ /\ UNCHANGED <<statistics, outOfMemory>>
            /\ \A d \in Core : pc[d] \in Statistics \/ pc'[d] \in Statistics => pc'[d] = pc[d]
<1> USE DEF CInv, TypeOK, Statistics
<1>1. ASSUME NEW c \in Core, ~damaged, Interrupt(c)
      PROVE  /\ UNCHANGED <<statistics, outOfMemory>>
             /\ \A d \in Core : pc[d] \in Statistics \/ pc'[d] \in Statistics => pc'[d] = pc[d]
  <2>1. CASE NumberThreads = 0
    BY <1>1, <2>1 DEF Interrupt, Enter, Goto, heapVars
  <2> QED BY <1>1, <2>1 DEF Interrupt, Enter, Goto, heapVars
<1>2. ASSUME NEW c \in Core, NEW f \in Calls, ~damaged, Syscall(c, f)
      PROVE  /\ UNCHANGED <<statistics, outOfMemory>>
             /\ \A d \in Core : pc[d] \in Statistics \/ pc'[d] \in Statistics => pc'[d] = pc[d]
  BY <1>2, SyscallControl, ZenonT(30) DEF Syscall, Enter, heapVars
<1>3. ASSUME NEW c \in Core, ~damaged, Save(c)
      PROVE  /\ UNCHANGED <<statistics, outOfMemory>>
             /\ \A d \in Core : pc[d] \in Statistics \/ pc'[d] \in Statistics => pc'[d] = pc[d]
  BY <1>3 DEF Save, Goto, heapVars, arrayVars, coreVars, lockVars, localVars
<1>4. ASSUME NEW c \in Core, ~damaged, TakeSyscallLock(c)
      PROVE  /\ UNCHANGED <<statistics, outOfMemory>>
             /\ \A d \in Core : pc[d] \in Statistics \/ pc'[d] \in Statistics => pc'[d] = pc[d]
  BY <1>4 DEF TakeSyscallLock, Goto, heapVars, arrayVars, coreVars, lockVars,
     localVars
<1>5. ASSUME NEW c \in Core, ~damaged, EndSyscall(c)
      PROVE  /\ UNCHANGED <<statistics, outOfMemory>>
             /\ \A d \in Core : pc[d] \in Statistics \/ pc'[d] \in Statistics => pc'[d] = pc[d]
  BY <1>5 DEF EndSyscall, Goto, heapVars, arrayVars, coreVars, lockVars,
     localVars
<1>6. ASSUME NEW c \in Core, ~damaged, CountLoads(c)
      PROVE  /\ UNCHANGED <<statistics, outOfMemory>>
             /\ \A d \in Core : pc[d] \in Statistics \/ pc'[d] \in Statistics => pc'[d] = pc[d]
  BY <1>6 DEF CountLoads, Goto, heapVars, arrayVars, coreVars, lockVars,
     localVars
<1>7. ASSUME NEW c \in Core, ~damaged, ReuseEntry(c)
      PROVE  /\ UNCHANGED <<statistics, outOfMemory>>
             /\ \A d \in Core : pc[d] \in Statistics \/ pc'[d] \in Statistics => pc'[d] = pc[d]
  <2>1. UNCHANGED outOfMemory
    BY <1>7, MallocSame DEF ReuseEntry
  <2>2. UNCHANGED statistics /\ pc[c] = "init"
    BY <1>7, ReuseBlocks
  <2>3. pc'[c] \notin Statistics /\ \A d \in Core : d # c => pc'[d] = pc[d]
    BY <1>7, ReuseControl DEF AfterInit
  <2> QED BY <2>1, <2>2, <2>3
<1>8. ASSUME NEW c \in Core, ~damaged, NewArray(c)
      PROVE  /\ UNCHANGED <<statistics, outOfMemory>>
             /\ \A d \in Core : pc[d] \in Statistics \/ pc'[d] \in Statistics => pc'[d] = pc[d]
  <2>1. UNCHANGED outOfMemory
    BY <1>8, MallocSame DEF NewArray
  <2>2. UNCHANGED statistics /\ pc[c] = "init"
    BY <1>8, NewArrayEffect
  <2>3. pc'[c] \notin Statistics /\ \A d \in Core : d # c => pc'[d] = pc[d]
    BY <1>8, NewArrayEffect
  <2> QED BY <2>1, <2>2, <2>3
<1>9. ASSUME NEW c \in Core, ~damaged, NewStack(c)
      PROVE  /\ UNCHANGED <<statistics, outOfMemory>>
             /\ \A d \in Core : pc[d] \in Statistics \/ pc'[d] \in Statistics => pc'[d] = pc[d]
  <2>1. UNCHANGED outOfMemory
    BY <1>9, MallocSame DEF NewStack
  <2>2. UNCHANGED statistics /\ pc[c] = "initStack"
    BY <1>9, NewStackEffect
  <2>3. pc'[c] \notin Statistics /\ \A d \in Core : d # c => pc'[d] = pc[d]
    BY <1>9, NewStackEffect
  <2> QED BY <2>1, <2>2, <2>3
<1>10. ASSUME NEW c \in Core, ~damaged, FreeArray(c)
      PROVE  /\ UNCHANGED <<statistics, outOfMemory>>
             /\ \A d \in Core : pc[d] \in Statistics \/ pc'[d] \in Statistics => pc'[d] = pc[d]
  BY <1>10 DEF FreeArray, Free, Goto, heapVars, arrayVars, coreVars, lockVars,
     localVars
<1>11. ASSUME NEW c \in Core, ~damaged, PublishArray(c)
      PROVE  /\ UNCHANGED <<statistics, outOfMemory>>
             /\ \A d \in Core : pc[d] \in Statistics \/ pc'[d] \in Statistics => pc'[d] = pc[d]
  BY <1>11 DEF PublishArray, AfterInit, NewThread, Goto, heapVars, arrayVars,
     coreVars, lockVars, localVars
<1>12. ASSUME NEW c \in Core, ~damaged, Adopt(c)
      PROVE  /\ UNCHANGED <<statistics, outOfMemory>>
             /\ \A d \in Core : pc[d] \in Statistics \/ pc'[d] \in Statistics => pc'[d] = pc[d]
  BY <1>12 DEF Adopt, Goto, heapVars, arrayVars, coreVars, lockVars, localVars
<1>13. ASSUME NEW c \in Core, ~damaged, Exit(c)
      PROVE  /\ UNCHANGED <<statistics, outOfMemory>>
             /\ \A d \in Core : pc[d] \in Statistics \/ pc'[d] \in Statistics => pc'[d] = pc[d]
  BY <1>13 DEF Exit, Goto, heapVars, arrayVars, coreVars, lockVars, localVars
<1>14. ASSUME NEW c \in Core, ~damaged, SwitchTask(c)
      PROVE  /\ UNCHANGED <<statistics, outOfMemory>>
             /\ \A d \in Core : pc[d] \in Statistics \/ pc'[d] \in Statistics => pc'[d] = pc[d]
  BY <1>14 DEF SwitchTask, Goto, heapVars, arrayVars, coreVars, lockVars,
     localVars
<1>15. ASSUME NEW c \in Core, ~damaged, SwitchNone(c)
      PROVE  /\ UNCHANGED <<statistics, outOfMemory>>
             /\ \A d \in Core : pc[d] \in Statistics \/ pc'[d] \in Statistics => pc'[d] = pc[d]
  BY <1>15 DEF SwitchNone, Goto, heapVars, arrayVars, coreVars, lockVars,
     localVars
<1>16. CASE UNCHANGED vars
  BY <1>16 DEF vars, heapVars, arrayVars, coreVars, lockVars, localVars
<1> QED BY <1>1, <1>2, <1>3, <1>4, <1>5, <1>6, <1>7, <1>8, <1>9, <1>10, <1>11,
     <1>12, <1>13, <1>14, <1>15, <1>16 DEF Next, Take, Handle

(* Each call of Malloc that fails is counted.                              *)
LEMMA FailuresGrow ==
  ASSUME CInv, [Next]_vars
  PROVE  failures' \in {failures, failures + 1}
<1>1. ASSUME NEW a, NEW w, NEW n, Allocates(a, w, n)
      PROVE  failures' = failures
  BY <1>1 DEF Allocates
<1>2. ASSUME NEW c \in Core, \/ QuietStep(c) \/ Adopt(c) \/ SwitchTask(c) \/ Exit(c)
                             \/ ReuseEntry(c) \/ PublishArray(c)
      PROVE  failures' \in {failures, failures + 1}
  BY <1>1, <1>2, OtherBlocks, NewArrayEffect, NewStackEffect, ReuseBlocks, StatisticsEffect
<1> QED BY <1>2, StepKinds DEF vars, heapVars

LEMMA HalfMadeStep ==
  ASSUME CInv, HalfMade, [Next]_vars
  PROVE  HalfMade'
<1> USE ConstantFacts DEF Statistics
<1>1. failures' = 0 => failures = 0
  BY FailuresGrow DEF CInv, TypeOK
<1>2. ASSUME NEW c \in Core, MakeStatistics(c), failures' = 0
      PROVE  HalfMade'
  <2>1. PICK b \in Pointer :
           /\ statistics' = [statistics EXCEPT ![pc[c]] = b]
           /\ \/ b # Null /\ Allocates(b, pc[c], 0)
              \/ b = Null /\ SameBlocks /\ failures' = failures + 1
    BY <1>2, StatisticsEffect
  <2>2. b # Null
    BY <1>1, <1>2, <2>1
  <2>3. /\ pc[c] \in Statistics /\ pc'[c] = AfterStatistic(pc[c]) /\ ~outOfMemory
        /\ \A d \in Core : d # c => pc'[d] = pc[d]
    BY <1>2, StatisticsEffect DEF CInv, TypeOK
  <2>4. \A a \in Statistics : statistics'[a] = IF a = pc[c] THEN b ELSE statistics[a]
    BY <2>1, <2>3 DEF CInv, TypeOK
  <2>5. CASE pc[c] = "AvgCoreSpeed"
    BY <2>3, <2>5 DEF HalfMade, AfterStatistic
  <2>6. CASE pc[c] = "NumberIntsPerCore"
    BY <1>1, <1>2, <2>2, <2>3, <2>4, <2>6 DEF HalfMade, AfterStatistic
  <2>7. CASE pc[c] = "CorePrintInfo"
    BY <1>1, <1>2, <2>2, <2>3, <2>4, <2>7 DEF HalfMade, AfterStatistic
  <2> QED BY <2>3, <2>5, <2>6, <2>7
<1>3. ASSUME NEW c \in Core, MallocOutOfMemory(c)
      PROVE  HalfMade'
  BY <1>3 DEF MallocOutOfMemory, HalfMade
<1>4. ASSUME NEW c \in Core, TestStatistics(c), failures' = 0
      PROVE  HalfMade'
  BY <1>1, <1>4 DEF TestStatistics, HalfMade, Goto, CInv, TypeOK, heapVars
<1>5. CASE /\ UNCHANGED <<statistics, outOfMemory>>
           /\ \A d \in Core : pc[d] \in Statistics \/ pc'[d] \in Statistics => pc'[d] = pc[d]
  BY <1>1, <1>5 DEF HalfMade
<1>6. failures' # 0 => HalfMade'
  BY DEF HalfMade
<1> QED BY <1>2, <1>3, <1>4, <1>5, <1>6, CountsSteps

LEMMA BoundFacts ==
  /\ Bound(0) = NumberCores
  /\ \A n \in Nat : Bound(n) \in Nat /\ Bound(n + 1) = Bound(n) + NumberCores
<1>1. ASSUME NEW n \in Nat
      PROVE  NumberCores * ((n + 1) + 1) = NumberCores * (n + 1) + NumberCores
  BY ConstantFacts
<1>2. ASSUME NEW n \in Nat
      PROVE  NumberCores * (n + 1) \in Nat
  BY ConstantFacts
<1> QED BY <1>1, <1>2, ConstantFacts DEF Bound

LEMMA FiniteSubsets ==
  /\ \A S \in SUBSET Block : IsFiniteSet(S) /\ Cardinality(S) \in Nat
  /\ \A S \in SUBSET Core : /\ IsFiniteSet(S) /\ Cardinality(S) \in Nat
                            /\ Cardinality(S) <= NumberCores
<1>1. IsFiniteSet(Core) /\ Cardinality(Core) = NumberCores
  BY FS_Interval, ConstantFacts DEF Core
<1>2. IsFiniteSet(Block)
  BY FS_Interval, ConstantFacts DEF Block
<1>3. /\ \A S \in SUBSET Block : IsFiniteSet(S)
      /\ \A S \in SUBSET Core : IsFiniteSet(S) /\ Cardinality(S) <= NumberCores
  BY <1>1, <1>2, FS_Subset
<1> QED BY <1>3, FS_CardinalityType

LEMMA FiniteParts ==
  ASSUME TypeOK
  PROVE  \A a : /\ IsFiniteSet(Made(a)) /\ Cardinality(Made(a)) \in Nat
                /\ IsFiniteSet(Lost(a)) /\ Cardinality(Lost(a)) \in Nat
                /\ IsFiniteSet(Makers(a)) /\ Cardinality(Makers(a)) \in Nat
                /\ IsFiniteSet(Past(a)) /\ Cardinality(Past(a)) \in Nat
                /\ Cardinality(Makers(a)) <= NumberCores
<1>1. \A a : Made(a) \in SUBSET Block /\ Lost(a) \in SUBSET Block
  BY DEF Made, Lost, TypeOK
<1>2. \A a : Makers(a) \in SUBSET Core /\ Past(a) \in SUBSET Core
  BY DEF Makers, Past
<1> QED BY <1>1, <1>2, FiniteSubsets

(* The blocks of counts that a step makes.                                 *)
LEMMA MadeBySteps ==
  ASSUME CInv, [Next]_vars, NEW a \in Statistics
  PROVE  \/ \E c \in Core : MakeStatistics(c)
         \/ /\ Made(a)' \subseteq Made(a)
            /\ statistics' = statistics => Lost(a)' \subseteq Lost(a)
<1>1. ASSUME NEW b \in used', data'[b].what = a, \A c \in Core : ~MakeStatistics(c)
      PROVE  b \in used /\ data[b].what = a
  BY <1>1, NewBlocks DEF Statistics
<1> QED BY <1>1 DEF Made, Lost

LEMMA MadeByMakeStatistics ==
  ASSUME CInv, NEW c \in Core, MakeStatistics(c), NEW a \in Statistics
  PROVE  \/ a = pc[c] /\ statistics'[a] = Null /\ failures' = failures + 1
            /\ Made(a)' = Made(a) /\ Lost(a)' \subseteq Made(a)
         \/ a = pc[c] /\ statistics'[a] # Null /\ failures' = failures
            /\ Lost(a)' \subseteq Made(a)
            /\ \E b : b \notin Made(a) /\ Made(a)' = Made(a) \cup {b}
         \/ a # pc[c] /\ failures' \in {failures, failures + 1} /\ statistics'[a] = statistics[a]
            /\ Made(a)' = Made(a) /\ Lost(a)' = Lost(a)
<1>1. PICK b \in Pointer :
         /\ statistics' = [statistics EXCEPT ![pc[c]] = b]
         /\ \/ b # Null /\ Allocates(b, pc[c], 0)
            \/ b = Null /\ SameBlocks /\ failures' = failures + 1
  BY StatisticsEffect
<1>2. pc[c] \in Statistics /\ used \subseteq Block
  BY StatisticsEffect DEF CInv, TypeOK
<1>3. \A x \in Statistics : statistics'[x] = IF x = pc[c] THEN b ELSE statistics[x]
  BY <1>1, <1>2 DEF CInv, TypeOK
<1>4. CASE b # Null /\ Allocates(b, pc[c], 0)
  <2>1. \A x \in used' : x # b => x \in used /\ data'[x] = data[x]
    BY <1>2, <1>4 DEF Allocates
  <2>2. b \in used' /\ b \notin used /\ data'[b].what = pc[c] /\ used \subseteq used'
    BY <1>4 DEF Allocates
  <2>3. \A x \in used : data'[x] = data[x]
    BY <2>1, <2>2
  <2>4. CASE a = pc[c]
    <3>1. Made(a)' = Made(a) \cup {b} /\ b \notin Made(a)
      BY <2>1, <2>2, <2>3, <2>4 DEF Made
    <3>2. Lost(a)' \subseteq Made(a)
      BY <1>3, <2>1, <2>4 DEF Made, Lost
    <3> QED BY <1>3, <1>4, <2>4, <3>1, <3>2 DEF Allocates
  <2>5. CASE a # pc[c]
    <3>1. Made(a)' = Made(a)
      BY <2>1, <2>2, <2>3, <2>5 DEF Made
    <3>2. Lost(a)' = Lost(a)
      BY <1>3, <2>1, <2>2, <2>3, <2>5 DEF Lost
    <3> QED BY <1>3, <1>4, <2>5, <3>1, <3>2 DEF Allocates
  <2> QED BY <2>4, <2>5
<1>5. CASE b = Null /\ SameBlocks /\ failures' = failures + 1
  <2>1. Made(a)' = Made(a) /\ Lost(a)' \subseteq Made(a)
    BY <1>5 DEF Made, Lost, SameBlocks
  <2>2. a # pc[c] => Lost(a)' = Lost(a)
    BY <1>3, <1>5 DEF Lost, SameBlocks
  <2> QED BY <1>3, <1>5, <2>1, <2>2
<1> QED BY <1>1, <1>4, <1>5

(* A core that has made a block is no longer at it.                        *)
LEMMA MakersByMakeStatistics ==
  ASSUME CInv, NEW c \in Core, MakeStatistics(c), NEW a \in Statistics
  PROVE  /\ IF a = pc[c] THEN Makers(a)' = Makers(a) \ {c} /\ c \in Makers(a)
                         ELSE Makers(a)' = Makers(a)
         /\ a = pc[c] /\ a = "AvgCoreSpeed" => Past(a)' = Past(a)
         /\ a = pc[c] /\ a # "AvgCoreSpeed" => Past(a)' = Past(a) \ {c} /\ c \in Past(a)
         /\ a # pc[c] /\ pc[c] # "AvgCoreSpeed" => Past(a)' = Past(a)
         /\ pc[c] = "AvgCoreSpeed" => Past(a)' \subseteq Makers(a)
<1>1. /\ pc[c] \in Statistics /\ pc'[c] = AfterStatistic(pc[c])
      /\ \A d \in Core : d # c => pc'[d] = pc[d]
  BY StatisticsEffect DEF CInv, TypeOK
<1> USE DEF Makers, Past, UpTo, AfterStatistic, Statistics
<1>2. CASE pc[c] = "AvgCoreSpeed"
  <2>1. pc'[c] = "NumberIntsPerCore"
    BY <1>1, <1>2
  <2>2. CASE a = "AvgCoreSpeed"
    BY <1>1, <1>2, <2>1, <2>2
  <2>3. CASE a = "NumberIntsPerCore"
    BY <1>1, <1>2, <2>1, <2>3
  <2>4. CASE a = "CorePrintInfo"
    BY <1>1, <1>2, <2>1, <2>4
  <2> QED BY <2>2, <2>3, <2>4
<1>3. CASE pc[c] = "NumberIntsPerCore"
  <2>1. pc'[c] = "CorePrintInfo"
    BY <1>1, <1>3
  <2>2. CASE a = "AvgCoreSpeed"
    BY <1>1, <1>3, <2>1, <2>2
  <2>3. CASE a = "NumberIntsPerCore"
    BY <1>1, <1>3, <2>1, <2>3
  <2>4. CASE a = "CorePrintInfo"
    BY <1>1, <1>3, <2>1, <2>4
  <2> QED BY <2>2, <2>3, <2>4
<1>4. CASE pc[c] = "CorePrintInfo"
  <2>1. pc'[c] = "wantSwitch"
    BY <1>1, <1>4
  <2>2. CASE a = "AvgCoreSpeed"
    BY <1>1, <1>4, <2>1, <2>2
  <2>3. CASE a = "NumberIntsPerCore"
    BY <1>1, <1>4, <2>1, <2>3
  <2>4. CASE a = "CorePrintInfo"
    BY <1>1, <1>4, <2>1, <2>4
  <2> QED BY <2>2, <2>3, <2>4
<1> QED BY <1>1, <1>2, <1>3, <1>4

LEMMA CountsBoundedStep ==
  ASSUME CInv, CountsBounded, [Next]_vars, TypeOK'
  PROVE  CountsBounded'
<1> SUFFICES ASSUME NEW a \in Statistics
             PROVE  /\ Cardinality(Made(a)') + Cardinality(Makers(a)') <= Bound(failures')
                    /\ statistics'["AvgCoreSpeed"] = Null =>
                         Cardinality(Made(a)') + Cardinality(Past(a)') + NumberCores
                           <= Bound(failures')
                    /\ Cardinality(Lost(a)') < Bound(failures')
  BY DEF CountsBounded
<1> DEFINE made == Cardinality(Made(a))
           makers == Cardinality(Makers(a))
           past == Cardinality(Past(a))
           lost == Cardinality(Lost(a))
           made1 == Cardinality(Made(a)')
           makers1 == Cardinality(Makers(a)')
           past1 == Cardinality(Past(a)')
           lost1 == Cardinality(Lost(a)')
<1>1. /\ made \in Nat /\ makers \in Nat /\ past \in Nat /\ lost \in Nat
      /\ made1 \in Nat /\ makers1 \in Nat /\ past1 \in Nat /\ lost1 \in Nat
      /\ makers1 <= NumberCores
  <2>1. \A x : /\ Cardinality(Made(x)) \in Nat /\ Cardinality(Lost(x)) \in Nat
               /\ Cardinality(Makers(x)) \in Nat /\ Cardinality(Past(x)) \in Nat
    BY FiniteParts DEF CInv
  <2>2. Made(a)' \in SUBSET Block /\ Lost(a)' \in SUBSET Block
    BY DEF Made, Lost, TypeOK
  <2>3. Makers(a)' \in SUBSET Core /\ Past(a)' \in SUBSET Core
    BY DEF Makers, Past
  <2> QED BY <2>1, <2>2, <2>3, FiniteSubsets
<1>2. /\ made + makers <= Bound(failures)
      /\ statistics["AvgCoreSpeed"] = Null => made + past + NumberCores <= Bound(failures)
      /\ lost < Bound(failures)
  BY DEF CountsBounded
<1>3. /\ failures' \in {failures, failures + 1} /\ failures \in Nat
      /\ Bound(failures) \in Nat /\ Bound(failures + 1) = Bound(failures) + NumberCores
      /\ NumberCores \in Nat \ {0}
  BY FailuresGrow, BoundFacts, ConstantFacts DEF CInv, TypeOK
<1>4. IsFiniteSet(Made(a)) /\ IsFiniteSet(Makers(a)) /\ IsFiniteSet(Past(a)) /\ IsFiniteSet(Lost(a))
  BY FiniteParts DEF CInv
<1>5. ASSUME NEW c \in Core, MakeStatistics(c)
      PROVE  /\ made1 + makers1 <= Bound(failures')
             /\ statistics'["AvgCoreSpeed"] = Null => made1 + past1 + NumberCores <= Bound(failures')
             /\ lost1 < Bound(failures')
  <2>1. CASE a = pc[c]
    <3>1. makers1 = makers - 1
      BY <1>4, <1>5, <2>1, MakersByMakeStatistics, FS_RemoveElement
    <3>2. a # "AvgCoreSpeed" => past1 = past - 1
      BY <1>4, <1>5, <2>1, MakersByMakeStatistics, FS_RemoveElement
    <3>3. a = "AvgCoreSpeed" => past1 <= makers
      BY <1>4, <1>5, <2>1, MakersByMakeStatistics, FS_Subset
    <3>4. lost1 <= made
      <4>1. Lost(a)' \in SUBSET Made(a)
        BY <1>5, <2>1, MadeByMakeStatistics
      <4> QED BY <1>4, <4>1, FS_Subset
    <3>5. \/ /\ statistics'[a] = Null /\ failures' = failures + 1 /\ made1 = made
          \/ /\ statistics'[a] # Null /\ failures' = failures /\ made1 = made + 1
      <4>1. ASSUME NEW b, b \notin Made(a), Made(a)' = Made(a) \cup {b}
            PROVE  made1 = made + 1
        BY <1>4, <4>1, FS_AddElement
      <4> QED BY <1>5, <2>1, <4>1, MadeByMakeStatistics
    <3>6. a # "AvgCoreSpeed" => statistics'["AvgCoreSpeed"] = statistics["AvgCoreSpeed"]
      BY <1>5, <2>1, MadeByMakeStatistics DEF Statistics
    <3> HIDE DEF made, makers, past, lost, made1, makers1, past1, lost1
    <3>7. CASE a = "AvgCoreSpeed"
      BY <1>1, <1>2, <1>3, <3>1, <3>3, <3>4, <3>5, <3>7
    <3>8. CASE a # "AvgCoreSpeed"
      BY <1>1, <1>2, <1>3, <3>1, <3>2, <3>4, <3>5, <3>6, <3>8
    <3> QED BY <3>7, <3>8
  <2>2. CASE a # pc[c]
    <3>1. makers1 = makers /\ made1 = made /\ lost1 = lost
      BY <1>5, <2>2, MakersByMakeStatistics, MadeByMakeStatistics
    <3>2. pc[c] # "AvgCoreSpeed" => /\ past1 = past
                                    /\ statistics'["AvgCoreSpeed"] = statistics["AvgCoreSpeed"]
      BY <1>5, <2>2, MakersByMakeStatistics, MadeByMakeStatistics DEF Statistics
    <3>3. pc[c] = "AvgCoreSpeed" => past1 <= makers
      BY <1>4, <1>5, <2>2, MakersByMakeStatistics, FS_Subset
    <3>4. pc[c] = "AvgCoreSpeed" => \/ statistics'["AvgCoreSpeed"] # Null
                                    \/ failures' = failures + 1
      BY <1>5, MadeByMakeStatistics DEF Statistics
    <3> HIDE DEF made, makers, past, lost, made1, makers1, past1, lost1
    <3>5. CASE pc[c] = "AvgCoreSpeed"
      BY <1>1, <1>2, <1>3, <3>1, <3>3, <3>4, <3>5
    <3>6. CASE pc[c] # "AvgCoreSpeed"
      BY <1>1, <1>2, <1>3, <3>1, <3>2, <3>6
    <3> QED BY <3>5, <3>6
  <2> QED BY <2>1, <2>2
<1>6. ASSUME \A c \in Core : ~MakeStatistics(c)
      PROVE  /\ made1 <= made
             /\ statistics' = statistics => lost1 <= lost
  <2>1. Made(a)' \in SUBSET Made(a) /\ (statistics' = statistics => Lost(a)' \in SUBSET Lost(a))
    BY <1>6, MadeBySteps
  <2> QED BY <1>4, <2>1, FS_Subset
<1>7. ASSUME \A c \in Core : ~MakeStatistics(c), statistics' = statistics,
             makers1 <= makers, past1 <= past
      PROVE  /\ made1 + makers1 <= Bound(failures')
             /\ statistics'["AvgCoreSpeed"] = Null => made1 + past1 + NumberCores <= Bound(failures')
             /\ lost1 < Bound(failures')
  <2> HIDE DEF made, makers, past, lost, made1, makers1, past1, lost1
  <2> QED BY <1>1, <1>2, <1>3, <1>6, <1>7
<1>8. ASSUME \A c \in Core : ~MakeStatistics(c), NEW e \in Core, MallocOutOfMemory(e)
      PROVE  statistics' = statistics /\ makers1 <= makers /\ past1 <= past
  <2>1. pc'[e] \in {"hung", "hungInit"} /\ \A d \in Core : d # e => pc'[d] = pc[d]
    BY <1>8 DEF MallocOutOfMemory, Goto, CInv, TypeOK
  <2>2. pc'[e] \notin UpTo(a)
    BY <2>1 DEF UpTo, Statistics
  <2>3. Makers(a)' \in SUBSET Makers(a) /\ Past(a)' \in SUBSET Past(a)
    BY <2>1, <2>2 DEF Makers, Past
  <2> QED BY <1>4, <1>8, <2>3, FS_Subset DEF MallocOutOfMemory
<1>9. ASSUME \A c \in Core : ~MakeStatistics(c), NEW e \in Core, TestStatistics(e)
      PROVE  /\ statistics' = statistics /\ past1 <= past
             /\ statistics["AvgCoreSpeed"] = Null \/ makers1 <= makers
  <2>1. /\ pc[e] = "statistics" /\ \A d \in Core : d # e => pc'[d] = pc[d]
        /\ pc'[e] = IF statistics["AvgCoreSpeed"] = Null THEN "AvgCoreSpeed" ELSE "wantSwitch"
        /\ statistics' = statistics
    BY <1>9 DEF TestStatistics, Goto, CInv, TypeOK
  <2>2. "wantSwitch" \notin UpTo(a)
    BY DEF UpTo, Statistics
  <2>3. Past(a)' \in SUBSET Past(a)
    BY <2>1, <2>2 DEF Past
  <2>4. statistics["AvgCoreSpeed"] # Null => Makers(a)' \in SUBSET Makers(a)
    BY <2>1, <2>2 DEF Makers
  <2> QED BY <1>4, <2>1, <2>3, <2>4, FS_Subset
<1>10. ASSUME \A c \in Core : ~MakeStatistics(c), NEW e \in Core, TestStatistics(e)
       PROVE  /\ made1 + makers1 <= Bound(failures')
              /\ statistics'["AvgCoreSpeed"] = Null => made1 + past1 + NumberCores <= Bound(failures')
              /\ lost1 < Bound(failures')
  <2>1. /\ statistics' = statistics /\ past1 <= past
        /\ statistics["AvgCoreSpeed"] = Null \/ makers1 <= makers
    BY <1>9, <1>10
  <2>2. CASE makers1 <= makers
    BY <1>7, <1>10, <2>1, <2>2
  <2>3. CASE statistics["AvgCoreSpeed"] = Null
    <3> HIDE DEF made, makers, past, lost, made1, makers1, past1, lost1
    <3> QED BY <1>1, <1>2, <1>3, <1>6, <1>10, <2>1, <2>3
  <2> QED BY <2>1, <2>2, <2>3
<1>11. ASSUME \A c \in Core : ~MakeStatistics(c), UNCHANGED <<statistics, outOfMemory>>,
              \A d \in Core : pc[d] \in Statistics \/ pc'[d] \in Statistics => pc'[d] = pc[d]
       PROVE  statistics' = statistics /\ makers1 <= makers /\ past1 <= past
  <2>1. UpTo(a) \subseteq Statistics
    BY DEF UpTo, Statistics
  <2>2. Makers(a)' = Makers(a) /\ Past(a)' = Past(a)
    BY <1>11, <2>1 DEF Makers, Past
  <2> QED BY <1>1, <1>11, <2>2
<1> HIDE DEF made, makers, past, lost, made1, makers1, past1, lost1
<1>12. /\ made1 + makers1 <= Bound(failures')
       /\ statistics'["AvgCoreSpeed"] = Null => made1 + past1 + NumberCores <= Bound(failures')
       /\ lost1 < Bound(failures')
  BY <1>5, <1>7, <1>8, <1>10, <1>11, CountsSteps
<1> QED BY <1>12 DEF made1, makers1, past1, lost1

-----------------------------------------------------------------------------
(***************************************************************************)
(* The inductive invariant.                                                *)
(***************************************************************************)
IInv == CInv /\ TInv /\ MInv /\ UInv /\ SInv

LEMMA CInvInit == Init => CInv
<1> SUFFICES ASSUME Init PROVE CInv
  OBVIOUS
<1> USE ConstantFacts DEF Init
<1>1. TypeOK
  <2>1. NoThread \in Threads /\ Nothing \in Data
    BY Records DEF Nothing
  <2>2. \A c \in Core : NoPointer \in [array : Pointer, of : 0..MaxLaunches, slot : Slot]
    BY Records DEF NoPointer
  <2>3. \A c \in Core : (IF c = 0 THEN "wantInit" ELSE "run") \in PCs
    BY DEF PCs
  <2>4. 0 \in 0..MaxFailures /\ 0 \in 0..MaxLaunches /\ 0 \in 0..1
    OBVIOUS
  <2>5. /\ threads \in [Slot -> Threads] /\ data \in [Block -> Data]
        /\ ThreadOBJ \in [Core -> [array : Pointer, of : 0..MaxLaunches, slot : Slot]]
    BY <2>1, <2>2
  <2>6. pc \in [Core -> PCs] /\ call \in [Core -> Calls \cup {"timer", "boot"}]
    BY <2>3
  <2> QED BY <2>4, <2>5, <2>6 DEF TypeOK
<1>2. CallFits
  BY DEF CallFits, Launching, AtInit, Calls
<1>3. BootFirst
  BY DEF BootFirst, Calls
<1>4. LocksHeld
  BY DEF LocksHeld, AtInit, InSyscall, Calls
<1>5. RoomForOne
  BY DEF RoomForOne
<1> QED BY <1>1, <1>2, <1>3, <1>4, <1>5 DEF CInv

LEMMA MemoryInit == Init => TInv /\ MInv /\ UInv
<1> SUFFICES ASSUME Init PROVE TInv /\ MInv /\ UInv
  OBVIOUS
<1> USE ConstantFacts DEF Init
<1>1. Used = {}
  <2>1. \A s \in Slot : ~(s < 0)
    BY DEF Slot
  <2> QED BY <2>1 DEF Used
<1>2. TInv
  BY <1>1 DEF TInv, RunsItsOwn, Running, LaunchesApart, NoneClosed, ClosedSlots, NoThread
<1>3. MInv
  BY DEF MInv, MadeKept, ArrayKept, StacksKept, PointersKept, InSyscall, Calls, NoThread
<1>4. UInv
  BY DEF UInv, NoneLeft, ArraysKnown, StacksKnown, NothingUnused, OldArrayGone
<1> QED BY <1>2, <1>3, <1>4

LEMMA SInvInit == Init => SInv
<1> SUFFICES ASSUME Init PROVE SInv
  OBVIOUS
<1>1. HalfMade
  BY DEF Init, HalfMade, Statistics
<1>2. ASSUME NEW a \in Statistics
      PROVE  Made(a) = {} /\ Lost(a) = {} /\ Makers(a) = {} /\ Past(a) = {}
  <2>1. UpTo(a) \subseteq Statistics
    BY DEF UpTo, Statistics
  <2>2. \A c \in Core : pc[c] \notin Statistics
    BY DEF Init, Statistics
  <2> QED BY <2>1, <2>2 DEF Init, Made, Lost, Makers, Past
<1>3. CountsBounded
  <2>1. failures = 0 /\ Cardinality({}) = 0
    BY FS_EmptySet DEF Init
  <2>2. 0 + 0 <= NumberCores /\ 0 + 0 + NumberCores <= NumberCores /\ 0 < NumberCores
    BY ConstantFacts
  <2>3. ASSUME NEW a \in Statistics
        PROVE  /\ Cardinality(Made(a)) = 0 /\ Cardinality(Lost(a)) = 0
               /\ Cardinality(Makers(a)) = 0 /\ Cardinality(Past(a)) = 0
    BY <1>2, <2>1
  <2>4. Bound(failures) = NumberCores
    BY <2>1, BoundFacts
  <2> QED BY <2>2, <2>3, <2>4 DEF CountsBounded
<1> QED BY <1>1, <1>3 DEF SInv

LEMMA TInvStep ==
  ASSUME CInv, TInv, MInv, [Next]_vars
  PROVE  TInv'
<1>1. CASE UNCHANGED vars
  BY <1>1, RunsItsOwnStep, LaunchesApartStep DEF TInv, NoneClosed, ClosedSlots, Used, vars, arrayVars
<1>2. CASE ~damaged
  BY <1>2, RunsItsOwnStep, LaunchesApartStep, NoneClosedStep DEF TInv
<1> QED BY <1>1, <1>2, StepKinds

LEMMA IInvStep ==
  ASSUME IInv, [Next]_vars
  PROVE  IInv'
<1> USE DEF IInv
<1>1. TypeOK'
  BY TypeStep
<1>2. CInv'
  BY <1>1, CallFitsStep, BootFirstStep, LocksHeldStep, RoomForOneStep DEF CInv
<1>3. CountsBounded'
  BY <1>1, CountsBoundedStep DEF SInv
<1>4. SInv'
  BY <1>3, HalfMadeStep DEF SInv
<1> QED BY <1>2, <1>4, TInvStep, MInvStep, UInvStep

(* The inductive invariant holds in every state that the code reaches.     *)
THEOREM MemoryInvariant == Spec => []IInv
<1>1. Init => IInv
  BY CInvInit, MemoryInit, SInvInit DEF IInv
<1>2. IInv /\ [Next]_vars => IInv'
  BY IInvStep
<1> QED BY <1>1, <1>2, PTL DEF Spec

-----------------------------------------------------------------------------
(***************************************************************************)
(* The properties.                                                         *)
(***************************************************************************)
(* The array of threads, and the stack of each thread that is not closed,  *)
(* are in blocks that are allocated and hold nothing else, through every   *)
(* interleaving of InitThread, Exit and the counts of IDThandler and every *)
(* failure of Malloc: until Exit frees a block that is not its stack.      *)
THEOREM BlocksAreKept == Spec => []BlocksKept
<1>1. ASSUME IInv
      PROVE  BlocksKept
  <2>1. TypeOK
    BY <1>1 DEF IInv, CInv
  <2>2. ASSUME ~damaged
        PROVE  MadeKept /\ ArrayKept /\ StacksKept
    BY <1>1, <2>2 DEF IInv, MInv
  <2>3. ASSUME ~damaged, NEW c \in Core, pc[c] = "initPublish"
        PROVE  {TmpArray[c], TmpStack[c]} \subseteq used
    BY <2>2, <2>3 DEF MadeKept, ArrayData, StackData
  <2> QED BY <2>1, <2>2, <2>3 DEF BlocksKept, MemoryKept, ArrayKept, ArrayData,
          StacksKept, StackData
<1>2. IInv => BlocksKept
  BY <1>1
<1> QED BY <1>2, MemoryInvariant, PTL

(* Nothing else is lost than the stacks of threads that have exited and    *)
(* counts that another core has replaced, fewer of each kind than cores,   *)
(* times one more than the calls of Malloc that failed: every other block  *)
(* in use is the array, a stack, or something InitThread still holds.      *)
THEOREM LeaksAreKnown == Spec => []LeaksKnown
<1>1. ASSUME IInv
      PROVE  LeaksKnown
  <2>1. FewLost
    BY <1>1 DEF IInv, SInv, CountsBounded, FewLost, Bound
  <2>2. ASSUME NEW b \in used
        PROVE  data[b].what \in Statistics \cup {"array", "stack"}
    BY <1>1 DEF IInv, CInv, TypeOK, UInv, NothingUnused, Data
  <2>3. ASSUME NEW b \in used, data[b].what = "array"
        PROVE  b = ThreadArray \/ \E c \in Core : b = TmpArray[c]
    BY <1>1, <2>3 DEF IInv, UInv, ArraysKnown
  <2>4. ASSUME NEW b \in used, data[b].what = "stack"
        PROVE  \/ \E s \in Slot : threads[s].stack = b
               \/ \E c \in Core : b = TmpStack[c]
               \/ data[b].of <= launches
                  /\ \A s \in Slot : Open(s) => threads[s].launch # data[b].of
    <3>1. launches \in Nat /\ \A n \in 1..launches : n <= launches
      BY <1>1 DEF IInv, CInv, TypeOK
    <3>2. StacksKnown
      BY <1>1 DEF IInv, UInv
    <3> QED BY <2>4, <3>1, <3>2 DEF StacksKnown
  <2> QED BY <2>1, <2>2, <2>3, <2>4 DEF LeaksKnown, Statistics
<1>2. IInv => LeaksKnown
  BY <1>1
<1> QED BY <1>2, MemoryInvariant, PTL

(* Unless Malloc fails, the pointer that IDThandler tests is set while     *)
(* another is still null only while a core is at making the counts.        *)
THEOREM OnlyHalfMadeBriefly == Spec => []HalfMadeBriefly
<1>1. ASSUME IInv
      PROVE  HalfMadeBriefly
  <2>1. HalfMade /\ failures \in Nat
    BY <1>1 DEF IInv, SInv, CInv, TypeOK
  <2>2. CASE failures = 0 /\ ~outOfMemory
    BY <2>1, <2>2 DEF HalfMade, HalfMadeBriefly, MakesStatistics, Statistics
  <2> QED BY <2>1, <2>2 DEF HalfMadeBriefly
<1>2. IInv => HalfMadeBriefly
  BY <1>1
<1> QED BY <1>2, MemoryInvariant, PTL

(* LoadAppNonBG's read through a pointer that InitThread may have freed    *)
(* finds the array still in its place, or counts: never a stack, never     *)
(* another array.                                                          *)
THEOREM StaleReadsGood == Spec => []StaleReadGood
<1>1. ASSUME IInv
      PROVE  StaleReadGood
  <2>1. \A c \in Core : pc[c] = "adopt" => InSyscall(c)
    BY <1>1 DEF IInv, CInv, CallFits, InSyscall, Calls
  <2> QED BY <1>1, <2>1 DEF IInv, MInv, PointersKept, StaleReadGood, Overwritten
<1>2. IInv => StaleReadGood
  BY <1>1
<1> QED BY <1>2, MemoryInvariant, PTL

(* A core that runs out of memory in InitThread keeps Thread::SpinLock: no *)
(* thread is made, closed or switched to in any later step, and a core     *)
(* that reaches its handler stays in it.                                   *)
THEOREM HangFreezesAll == Spec => HangFreezes
<1> DEFINE A == NumberThreads # 0 /\ (\E c \in Core : pc[c] = "hungInit") =>
                  /\ UNCHANGED <<threads, NumberThreads, CoreCurrentThreadID>>
                  /\ \A d \in Core : pc[d] \in {"wantSave", "wantSwitch"} => pc'[d] = pc[d]
<1>1. ASSUME CInv, Next
      PROVE  A
  <2> SUFFICES ASSUME NumberThreads # 0, NEW h \in Core, pc[h] = "hungInit"
               PROVE  /\ UNCHANGED <<threads, NumberThreads, CoreCurrentThreadID>>
                      /\ \A d \in Core : pc[d] \in {"wantSave", "wantSwitch"} => pc'[d] = pc[d]
    OBVIOUS
  <2>1. ThreadLock = 1
    BY <1>1 DEF CInv, LocksHeld, AtInit
  <2>2. \A c \in Core : pc[c] \notin {"init", "initStack", "initFree", "initPublish"}
    BY <1>1, OneAtInit DEF Launching, AtInit
  <2>3. pc \in [Core -> PCs]
    BY <1>1 DEF CInv, TypeOK
  <2>4. ASSUME NEW c \in Core, Take(c)
        PROVE  TakeSyscallLock(c)
    BY <2>1, <2>4 DEF Take, Save, CountLoads, Adopt, Exit, SwitchTask
  <2>5. ASSUME NEW c \in Core, Handle(c)
        PROVE  \/ Interrupt(c) \/ EndSyscall(c) \/ TestStatistics(c) \/ MakeStatistics(c)
               \/ MallocOutOfMemory(c)
    BY <2>2, <2>5 DEF Handle, ReuseEntry, NewArray, NewStack, FreeArray, PublishArray, SwitchNone
  <2>6. ASSUME NEW c \in Core,
               \/ Interrupt(c) \/ EndSyscall(c) \/ TestStatistics(c) \/ MakeStatistics(c)
               \/ MallocOutOfMemory(c) \/ TakeSyscallLock(c) \/ \E f \in Calls : Syscall(c, f)
        PROVE  /\ UNCHANGED <<threads, NumberThreads, CoreCurrentThreadID>>
               /\ pc[c] \notin {"wantSave", "wantSwitch"}
               /\ \A d \in Core : d # c => pc'[d] = pc[d]
    BY <2>3, <2>6 DEF Interrupt, EndSyscall, TestStatistics, MakeStatistics, MallocOutOfMemory,
       TakeSyscallLock, Syscall, Enter, Goto, arrayVars, coreVars, Statistics
  <2> QED BY <1>1, <2>4, <2>5, <2>6 DEF Next
<1>2. IInv /\ [Next]_vars => [A]_vars
  BY <1>1 DEF IInv
<1> HIDE DEF A
<1>3. Spec => [][A]_vars
  BY <1>2, MemoryInvariant, PTL DEF Spec
<1> QED BY <1>3 DEF A, HangFreezes

=============================================================================
