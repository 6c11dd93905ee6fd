----------------------------- MODULE CoreStart -----------------------------
(***************************************************************************)
(* How the boot core finds, starts and times the other cores:              *)
(* ScanMadt (Kernel/Apic/Madt.cpp), StartLAPICS and StartLApicTimer        *)
(* (Kernel/Apic/LAPIC.cpp), run by CKernelEntry on the boot core (BSC);    *)
(* CoreStart.asm and CoreEntry (Kernel/Apic/CoreMgr.cpp) on the others;    *)
(* and the part of IDThandler (Kernel/idt.cpp) that takes a core's first   *)
(* timer interrupt.  What follows is module Scheduler, whose Init is where *)
(* this module ends.                                                       *)
(*                                                                         *)
(* The cores meet in CoreStateList only: 1 the core runs, 2 it may go on,  *)
(* 3 it waits with interrupts off, 4 it may start its timer, 5 the timer   *)
(* went off.  Each access of a shared variable is a step of its own.       *)
(* Sequences count from 1 where the arrays of the code count from 0.       *)
(***************************************************************************)
EXTENDS Naturals, Sequences

CONSTANTS Core,         \* APIC ids
          BSC,          \* the boot core's: 0, which LAPIC register 0x20 gives unshifted
          Processors,   \* the ids that a processor answers to
          X2Apic,       \* those in x2APIC mode when they set their timer
          MadtTables    \* the MADTs the firmware may hand over

(* Entries of the MADT: of a LAPIC, Flags says if the core is on, may be   *)
(* put on, or is off; of the other devices only their presence counts.     *)
DeviceTypes == {"LAPIC", "other"}
MadtEntries == [type : DeviceTypes, ApicID : Core, Flags : {"on", "capable", "off"}]
Tables == [sound : BOOLEAN, entries : Seq(MadtEntries)]

LapicOf(c, entry) == entry.type = "LAPIC" /\ entry.ApicID = c

(* The firmware lists the core that runs: a table with devices has the     *)
(* boot core's LAPIC, and never as switched off.                           *)
BootCoreListed(entries) ==
  entries # <<>> =>
    /\ \E k \in DOMAIN entries : LapicOf(BSC, entries[k])
    /\ \A k \in DOMAIN entries : LapicOf(BSC, entries[k]) => entries[k].Flags # "off"

ASSUME ConstantsAssumption ==
  /\ BSC \in Processors /\ Processors \subseteq Core
  /\ X2Apic \subseteq Core
  /\ MadtTables \subseteq Tables
  /\ \A m \in MadtTables : BootCoreListed(m.entries)

VARIABLES madt,             \* the entries still to read, and the checksum
          Devices,          \* the device list that ScanMadt makes
          LApicArray,       \* the LAPICs in it
          bsc, i,           \* where the boot core is, and its loop variable
          CurrentCoreStarting,
          CoreStateList,
          CoreStackPtrs,
          NumberCores,
          CoreIDS,
          pc,               \* pc[c]: where core c is
          stack,            \* stack[c]: the stack it took
          CoreIndex,        \* CoreIndex[c]: the number it took
          timer             \* the cores whose timer goes off

bscVars  == <<madt, Devices, LApicArray, bsc, i, CurrentCoreStarting, NumberCores, CoreIDS>>
coreVars == <<pc, stack, CoreIndex, timer>>
vars == <<bscVars, CoreStateList, CoreStackPtrs, coreVars>>

AP == Core \ {BSC}

(* LApicStates: the LAPICs that StartLAPICS starts.                        *)
NumberLAPICs == Len(LApicArray)
Startable(d) == d.Flags # "off"

(* A stack pointer: the stack it points into, and whether an interrupted   *)
(* core's registers are saved there.                                       *)
StackPtrs(n) == [buffer : 1..n, saved : BOOLEAN]

BscPCs == {"scan", "halted", "prepare", "collect", "start", "await1", "store", "timer",
           "await3", "go", "await5", "online"}
CorePCs == {"off", "entry", "index", "report", "await2", "await4", "idle", "unknown"}

TypeOK ==
  /\ madt \in Tables
  /\ Devices \in Seq(MadtEntries) /\ LApicArray \in Seq(MadtEntries)
  /\ bsc \in BscPCs
  /\ i \in 1..(Len(Devices) + 1) /\ CurrentCoreStarting \in 0..NumberLAPICs
  /\ NumberCores \in 0..NumberLAPICs
  /\ CoreStateList \in Seq(0..5)
  /\ CoreStackPtrs \in Seq(StackPtrs(NumberLAPICs))
  /\ CoreIDS \in Seq(Core)
  /\ pc \in [AP -> CorePCs]
  /\ stack \in [AP -> 0..NumberLAPICs] /\ CoreIndex \in [AP -> 0..NumberLAPICs]
  /\ timer \subseteq Core

Init == /\ madt \in MadtTables
        /\ Devices = <<>> /\ LApicArray = <<>>
        /\ bsc = "scan" /\ i = 1
        /\ CurrentCoreStarting = 0 /\ NumberCores = 0
        /\ CoreStateList = <<>> /\ CoreStackPtrs = <<>> /\ CoreIDS = <<>>
        /\ pc = [c \in AP |-> "off"]
        /\ stack = [c \in AP |-> 0]
        /\ CoreIndex = [c \in AP |-> 0]
        /\ timer = {}
-----------------------------------------------------------------------------
(***************************************************************************)
(* The boot core.                                                          *)
(***************************************************************************)
BscGoto(l) == bsc' = l

(* ScanMadt takes in the table entry by entry, AddToDeviceList keeps the   *)
(* order; it halts on a bad checksum.                                      *)
ScanMadt ==
  /\ bsc = "scan"
  /\ \/ /\ ~madt.sound
        /\ BscGoto("halted") /\ UNCHANGED <<madt, Devices>>
     \/ /\ madt.sound /\ madt.entries # <<>>
        /\ Devices' = Append(Devices, Head(madt.entries))
        /\ madt' = [madt EXCEPT !.entries = Tail(@)]
        /\ UNCHANGED bsc
     \/ /\ madt.sound /\ madt.entries = <<>>
        /\ BscGoto("prepare") /\ UNCHANGED <<madt, Devices>>
  /\ UNCHANGED <<LApicArray, i, CurrentCoreStarting, NumberCores, CoreIDS, CoreStateList,
                 CoreStackPtrs, coreVars>>

(* StartLAPICS halts without devices.                                      *)
PrepareCores ==
  /\ bsc = "prepare"
  /\ BscGoto(IF Devices = <<>> THEN "halted" ELSE "collect")
  /\ UNCHANGED <<madt, Devices, LApicArray, i, CurrentCoreStarting, NumberCores, CoreIDS,
                 CoreStateList, CoreStackPtrs, coreVars>>

(* It picks the LAPICs out of the list, and gives each a state and a stack *)
(* of its own.                                                             *)
CollectLAPICs ==
  /\ bsc = "collect"
  /\ \/ /\ i <= Len(Devices)
        /\ LApicArray' = IF Devices[i].type = "LAPIC" THEN Append(LApicArray, Devices[i])
                                                      ELSE LApicArray
        /\ i' = i + 1
        /\ UNCHANGED <<bsc, CoreStateList, CoreStackPtrs, NumberCores>>
     \/ /\ i > Len(Devices)
        /\ CoreStateList' = [n \in 1..NumberLAPICs |-> 0]
        /\ CoreStackPtrs' = [n \in 1..NumberLAPICs |-> [buffer |-> n, saved |-> FALSE]]
        /\ NumberCores' = 0 /\ i' = 1
        /\ BscGoto("start")
        /\ UNCHANGED LApicArray
  /\ UNCHANGED <<madt, Devices, CurrentCoreStarting, CoreIDS, coreVars>>

(* An INIT and two start-up interrupts for core c: INIT resets a processor *)
(* whatever it does, the first start-up one wakes it, the second finds it  *)
(* awake.                                                                  *)
SendStartup(c) == pc' = IF c \in Processors \cap AP THEN [pc EXCEPT ![c] = "entry"] ELSE pc

(* Faulty variant: the next core is started before this one has reported.  *)
StartCore_NoWait ==
  /\ bsc = "start" /\ i <= NumberLAPICs
  /\ UNCHANGED bsc
  /\ i' = i + 1
  /\ IF LApicArray[i].ApicID = BSC
       THEN UNCHANGED <<CurrentCoreStarting, NumberCores, pc>>
       ELSE /\ CurrentCoreStarting' = i
            /\ NumberCores' = NumberCores + 1
            /\ SendStartup(LApicArray[i].ApicID)
  /\ UNCHANGED <<madt, Devices, LApicArray, CoreIDS, CoreStateList, CoreStackPtrs, stack, CoreIndex, timer>>

(* A round of the loop of StartLAPICS: skip the boot core, count the       *)
(* others, start those that are not off.                                   *)
StartCore ==
  /\ bsc = "start" /\ i <= NumberLAPICs
  /\ \/ /\ LApicArray[i].ApicID = BSC
        /\ i' = i + 1
        /\ UNCHANGED <<bsc, CurrentCoreStarting, NumberCores, pc>>
     \/ /\ LApicArray[i].ApicID # BSC /\ ~Startable(LApicArray[i])
        /\ CurrentCoreStarting' = i
        /\ NumberCores' = NumberCores + 1
        /\ i' = i + 1
        /\ UNCHANGED <<bsc, pc>>
     \/ /\ LApicArray[i].ApicID # BSC /\ Startable(LApicArray[i])
        /\ CurrentCoreStarting' = i
        /\ SendStartup(LApicArray[i].ApicID)
        /\ BscGoto("await1")
        /\ UNCHANGED <<i, NumberCores>>
  /\ UNCHANGED <<madt, Devices, LApicArray, CoreIDS, CoreStateList, CoreStackPtrs, stack, CoreIndex, timer>>

(* while(CoreStateList[i] == 0);                                           *)
CoreStarted ==
  /\ bsc = "await1" /\ CoreStateList[i] # 0
  /\ NumberCores' = NumberCores + 1
  /\ i' = i + 1
  /\ BscGoto("start")
  /\ UNCHANGED <<madt, Devices, LApicArray, CurrentCoreStarting, CoreIDS, CoreStateList,
                 CoreStackPtrs, coreVars>>

(* StartLAPICS after its loop: the boot core is counted as well.           *)
CountBsc ==
  /\ bsc = "start" /\ i > NumberLAPICs
  /\ NumberCores' = NumberCores + 1
  /\ i' = 1
  /\ BscGoto("store")
  /\ UNCHANGED <<madt, Devices, LApicArray, CurrentCoreStarting, CoreIDS, CoreStateList,
                 CoreStackPtrs, coreVars>>

(* Faulty variant: the id of the last LAPIC is not stored. *)
StoreIDs_OneShort ==
  /\ bsc = "store"
  /\ \/ /\ i < NumberLAPICs
        /\ CoreIDS' = IF Startable(LApicArray[i]) THEN Append(CoreIDS, LApicArray[i].ApicID)
                                                  ELSE CoreIDS
        /\ i' = i + 1
        /\ UNCHANGED <<bsc, timer>>
     \/ /\ i >= NumberLAPICs
        /\ i' = 2
        /\ BscGoto("timer")
        /\ timer' = timer \cup ({BSC} \ X2Apic)
        /\ UNCHANGED CoreIDS
  /\ UNCHANGED <<madt, Devices, LApicArray, CurrentCoreStarting, NumberCores, CoreStateList,
                 CoreStackPtrs, pc, stack, CoreIndex>>

(* The ids of the cores that are not off are stored side by side; then     *)
(* StartLApicTimer, which first sets the boot core's own timer.            *)
StoreIDs ==
  /\ bsc = "store"
  /\ \/ /\ i <= NumberLAPICs
        /\ CoreIDS' = IF Startable(LApicArray[i]) THEN Append(CoreIDS, LApicArray[i].ApicID)
                                                  ELSE CoreIDS
        /\ i' = i + 1
        /\ UNCHANGED <<bsc, timer>>
     \/ /\ i > NumberLAPICs
        /\ i' = 2
        /\ BscGoto("timer")
        /\ timer' = timer \cup ({BSC} \ X2Apic)
        /\ UNCHANGED CoreIDS
  /\ UNCHANGED <<madt, Devices, LApicArray, CurrentCoreStarting, NumberCores, CoreStateList,
                 CoreStackPtrs, pc, stack, CoreIndex>>

(* StartLApicTimer, first loop: every core after the first goes to 3.      *)
Release ==
  /\ bsc = "timer"
  /\ IF i <= NumberCores
       THEN /\ CoreStateList' = [CoreStateList EXCEPT ![i] = 2]
            /\ BscGoto("await3") /\ UNCHANGED i
       ELSE /\ BscGoto("go") /\ i' = 2 /\ UNCHANGED CoreStateList
  /\ UNCHANGED <<madt, Devices, LApicArray, CurrentCoreStarting, NumberCores, CoreIDS,
                 CoreStackPtrs, coreVars>>

(* Faulty variant: the boot core does not wait for the core to be ready.   *)
CoreReady_NoWait ==
  /\ bsc = "await3"
  /\ i' = i + 1 /\ BscGoto("timer")
  /\ UNCHANGED <<madt, Devices, LApicArray, CurrentCoreStarting, NumberCores, CoreIDS,
                 CoreStateList, CoreStackPtrs, coreVars>>

CoreReady ==
  /\ bsc = "await3" /\ CoreStateList[i] = 3
  /\ i' = i + 1 /\ BscGoto("timer")
  /\ UNCHANGED <<madt, Devices, LApicArray, CurrentCoreStarting, NumberCores, CoreIDS,
                 CoreStateList, CoreStackPtrs, coreVars>>

(* Second loop: each core in turn starts its timer and reports the first   *)
(* interrupt.                                                              *)
Go ==
  /\ bsc = "go"
  /\ IF i <= NumberCores
       THEN /\ CoreStateList' = [CoreStateList EXCEPT ![i] = 4]
            /\ BscGoto("await5")
       ELSE /\ BscGoto("online") /\ UNCHANGED CoreStateList
  /\ UNCHANGED <<madt, Devices, LApicArray, i, CurrentCoreStarting, NumberCores, CoreIDS,
                 CoreStackPtrs, coreVars>>

CoreOnline ==
  /\ bsc = "await5" /\ CoreStateList[i] = 5
  /\ i' = i + 1 /\ BscGoto("go")
  /\ UNCHANGED <<madt, Devices, LApicArray, CurrentCoreStarting, NumberCores, CoreIDS,
                 CoreStateList, CoreStackPtrs, coreVars>>
-----------------------------------------------------------------------------
(***************************************************************************)
(* Another core.                                                           *)
(***************************************************************************)
Goto(c, l) == pc' = [pc EXCEPT ![c] = l]

(* CoreStart.asm: the stack of the core that is being started.             *)
TakeStack(c) ==
  /\ pc[c] = "entry"
  /\ stack' = [stack EXCEPT ![c] = CoreStackPtrs[CurrentCoreStarting].buffer]
  /\ Goto(c, "index")
  /\ UNCHANGED <<bscVars, CoreStateList, CoreStackPtrs, CoreIndex, timer>>

(* CoreCEntry reads CurrentCoreStarting once more.                         *)
TakeIndex(c) ==
  /\ pc[c] = "index"
  /\ CoreIndex' = [CoreIndex EXCEPT ![c] = CurrentCoreStarting]
  /\ Goto(c, "report")
  /\ UNCHANGED <<bscVars, CoreStateList, CoreStackPtrs, stack, timer>>

(* CoreEntry: the core's mode is set, and it says that it runs.            *)
Report(c) ==
  /\ pc[c] = "report"
  /\ CoreStateList' = [CoreStateList EXCEPT ![CoreIndex[c]] = 1]
  /\ Goto(c, "await2")
  /\ UNCHANGED <<bscVars, CoreStackPtrs, stack, CoreIndex, timer>>

(* Released: interrupts off (Paging::Enable does nothing: paging is off).  *)
GetReady(c) ==
  /\ pc[c] = "await2" /\ CoreStateList[CoreIndex[c]] = 2
  /\ CoreStateList' = [CoreStateList EXCEPT ![CoreIndex[c]] = 3]
  /\ Goto(c, "await4")
  /\ UNCHANGED <<bscVars, CoreStackPtrs, stack, CoreIndex, timer>>

(* Faulty variant: the timer is started without waiting for state 4.       *)
StartTimer_Early(c) ==
  /\ pc[c] = "await4"
  /\ timer' = timer \cup ({c} \ X2Apic)
  /\ Goto(c, "idle")
  /\ UNCHANGED <<bscVars, CoreStateList, CoreStackPtrs, stack, CoreIndex>>

(* The timer is set and interrupts are on, then the idle loop.  In x2APIC  *)
(* mode WriteLAPICReg writes 0 whatever it is told: the timer stays off.   *)
StartTimer(c) ==
  /\ pc[c] = "await4" /\ CoreStateList[CoreIndex[c]] = 4
  /\ timer' = timer \cup ({c} \ X2Apic)
  /\ Goto(c, "idle")
  /\ UNCHANGED <<bscVars, CoreStateList, CoreStackPtrs, stack, CoreIndex>>

(* IDThandler looks its core up by id, and is lost when the id is unknown. *)
KnownAs(c, k) == /\ k \in DOMAIN CoreIDS /\ CoreIDS[k] = c
                 /\ \A n \in DOMAIN CoreIDS : CoreIDS[n] = c => k <= n

(* Faulty variant: the interrupted frame is not kept.                      *)
FirstTick_NotSaved(c) ==
  /\ c \in timer /\ pc[c] = "idle"
  /\ \E k \in DOMAIN CoreIDS : /\ KnownAs(c, k) /\ CoreStateList[k] = 4
                              /\ CoreStateList' = [CoreStateList EXCEPT ![k] = 5]
  /\ UNCHANGED <<bscVars, CoreStackPtrs, coreVars>>

(* The first interrupt of the timer: the idle loop's frame is saved for    *)
(* MoveToStartStack.  "Unknown CoreID Error" never ends.                   *)
FirstTick(c) ==
  /\ c \in timer /\ pc[c] = "idle"
  /\ IF \E k \in DOMAIN CoreIDS : KnownAs(c, k)
       THEN \E k \in DOMAIN CoreIDS :
              /\ KnownAs(c, k) /\ CoreStateList[k] = 4
              /\ CoreStateList' = [CoreStateList EXCEPT ![k] = 5]
              /\ CoreStackPtrs' = [CoreStackPtrs EXCEPT
                   ![k] = [buffer |-> stack[c], saved |-> TRUE]]
              /\ UNCHANGED pc
       ELSE Goto(c, "unknown") /\ UNCHANGED <<CoreStateList, CoreStackPtrs>>
  /\ UNCHANGED <<bscVars, stack, CoreIndex, timer>>

BscStep == \/ ScanMadt \/ PrepareCores \/ CollectLAPICs \/ StartCore \/ CoreStarted
           \/ CountBsc \/ StoreIDs \/ Release \/ CoreReady \/ Go \/ CoreOnline

CoreStep(c) == \/ TakeStack(c) \/ TakeIndex(c) \/ Report(c) \/ GetReady(c)
               \/ StartTimer(c) \/ FirstTick(c)

Next == BscStep \/ \E c \in AP : CoreStep(c)

Spec == Init /\ [][Next]_vars

(* The boot core runs with interrupts off, the others have nothing else to *)
(* do, and a periodic timer goes off.                                      *)
FairSpec == Spec /\ WF_vars(BscStep) /\ \A c \in AP : WF_vars(CoreStep(c))
-----------------------------------------------------------------------------
(* A core that has said it runs is on the stack made for it and goes by    *)
(* its own place in the list: it read CurrentCoreStarting twice before the *)
(* boot core moved on ("for now we will just use 0x8000": all cores enter  *)
(* through the same code and the same variable).                           *)
OwnPlace ==
  \A c \in AP : pc[c] \in {"await2", "await4", "idle"} =>
    /\ LApicArray[CoreIndex[c]].ApicID = c
    /\ stack[c] = CoreIndex[c]

(* The tables of the boot core, and the places the cores find in them.     *)
PlacesKept == TypeOK /\ OwnPlace

(* No timer of another core is on before all of them stand ready with      *)
(* interrupts off: the reason why StartLApicTimer has two loops.           *)
NoTimerBeforeReady ==
  timer \cap AP # {} => \A n \in 2..NumberCores : CoreStateList[n] >= 3

(* When StartLApicTimer returns, every other core idles, has its frame     *)
(* saved on its own stack and is known under the number it goes by; the    *)
(* boot core has no frame saved.  It is what Scheduler starts from.        *)
HandsOver ==
  bsc = "online" =>
    /\ \A n \in 2..NumberCores :
         /\ pc[CoreIDS[n]] = "idle" /\ CoreIndex[CoreIDS[n]] = n
         /\ CoreStateList[n] = 5
         /\ CoreStackPtrs[n] = [buffer |-> n, saved |-> TRUE]
    /\ CoreStateList[1] = 0 /\ ~CoreStackPtrs[1].saved

(* The boot core and the core write the same byte by turns: nobody's       *)
(* report is overwritten and no state is skipped.  (The places of a LAPIC  *)
(* that is switched off, and of the boot core where it is not the first,   *)
(* go to 2 without a report.)                                              *)
StatesInOrder ==
  [][\A n \in DOMAIN CoreStateList :
       Startable(LApicArray[n]) /\ LApicArray[n].ApicID # BSC =>
         CoreStateList'[n] \in {CoreStateList[n], CoreStateList[n] + 1}]_CoreStateList

(* A sound table brings all cores online ("tell the BSC that it started up *)
(* without issue", "Core Confermed Online"): no wait is for ever, in any   *)
(* order of the other cores' LAPICs.  (A LAPIC that is switched off is     *)
(* counted as a core all the same, and the boot waits for it,              *)
(* LAPIC.cpp:327; so it does for the second core when the boot core's      *)
(* LAPIC is not the first, LAPIC.cpp:405.)                                 *)
AllUsable(entries) ==
  /\ \E k \in DOMAIN entries :
       /\ LapicOf(BSC, entries[k])
       /\ \A n \in 1..(k - 1) : entries[n].type # "LAPIC"
  /\ \A k \in DOMAIN entries : entries[k].type = "LAPIC" => entries[k].Flags # "off"
  /\ \A k, n \in DOMAIN entries :
       entries[k].type = "LAPIC" /\ LapicOf(entries[k].ApicID, entries[n]) => k = n

AllOnline == madt.sound /\ AllUsable(madt.entries) => <>(bsc = "online")
=============================================================================
