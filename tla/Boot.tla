-------------------------------- MODULE Boot --------------------------------
(***************************************************************************)
(* The start of the kernel on the boot core: CKernelEntry                  *)
(* (Kernel/kernel.cpp) and what it reads of the machine: the ACPI tables   *)
(* (Kernel/Apic/init.cpp, Rsdt.cpp, Madt.cpp), the PCI bus (Kernel/PCI)    *)
(* and the disk.  Interrupts come between the steps: every PrintString     *)
(* ends with sti, so they are on from the first one.  A fault ends a life  *)
(* of the kernel with a reset (Kernel/idt.cpp 508-552), after which it is  *)
(* loaded again over what was in memory.                                   *)
(*                                                                         *)
(* Module CoreStart has the start of the other cores in detail, Scheduler  *)
(* what goes on once the kernel runs, FileSystem how files are found.      *)
(***************************************************************************)
EXTENDS Integers, Sequences, FiniteSets, Functions

CONSTANTS Machines,  \* what the kernel may be started on
          Paths,     \* paths that programs may be loaded from
          MaxLives   \* bound: starts of the kernel

Null == "null"
Byte == 0..255

(* Paths by their text and its length (FS::GetFilePathSize).               *)
Path(text, size) == [text |-> text, size |-> size]

StartUpApp == Path("/TestApp.jexe", 13)

ASSUME BootAssumption ==
  /\ StartUpApp \in Paths
  /\ MaxLives \in Nat \ {0}
  /\ \A m \in Machines :
       /\ m.memory \in BOOLEAN    \* MallocInit finds enough of it
       /\ m.kept \in BOOLEAN      \* a reset leaves the kernel's variables
       /\ m.fpu \in BOOLEAN /\ m.ds \in BOOLEAN /\ m.x2apic \in BOOLEAN
       /\ m.base \in Nat \ {0}   \* the LAPIC's address, in pages
       /\ DOMAIN m.rom \subseteq Nat \ {0} /\ Null \notin DOMAIN m.tables
       /\ \A p \in Range(m.rom) : /\ p.revision \in Nat /\ p.bytes \in Seq(Byte)
                                  /\ {p.rsdt, p.xsdt} \subseteq DOMAIN m.tables
       /\ \A t \in Range(m.tables) : /\ t.sig = "APIC" => t.dual = m.dual
                                     /\ t.bytes \in Seq(Byte) /\ t.cores \in Nat
                                     /\ t.lapic \in Nat
                                     /\ t.words \in Seq(DOMAIN m.tables)
       /\ IsFiniteSet(m.pci) /\ \A b \in m.pci : b.bus \in 0..255
       /\ m.files \subseteq Paths

VARIABLES machine, lives,
          pc, outcome,                \* what CKernelEntry does next; how it ended
          idt, pic, timer, handlers,  \* the interrupts
          msr, LAPICREGAddr, RdspPtr, AcpiVersionNumber, EntryPtrs, MadtTable,
          NumberCores, NumberPCIDevices, BootDiskRead,
          MallocSpinLock, Ps2SpinLock, VgaSpinLock, AvgCoreSpeed,
          asked, loaded               \* the last ReadFile and its result

interruptVars == <<idt, pic, timer, handlers>>
acpiVars == <<msr, LAPICREGAddr, RdspPtr, AcpiVersionNumber, EntryPtrs, MadtTable>>
deviceVars == <<NumberCores, NumberPCIDevices, BootDiskRead>>
lockVars == <<MallocSpinLock, Ps2SpinLock, VgaSpinLock, AvgCoreSpeed>>
fileVars == <<asked, loaded>>
vars == <<machine, lives, pc, outcome, interruptVars, acpiVars, deviceVars, lockVars, fileVars>>

(* What an interrupt, or what an earlier life has left, can do.            *)
Accidents == {"unknown core", "lock", "heap", "screen"}
Halts == {"no memory", "no RSDP", "version", "RSDP sum", "RSDT sum", "no MADT", "MADT sum",
          "no core", "no driver", "disk check", "no file system", "no app", "no timer"}
PCs == {"video", "heap", "idt", "apic", "rsdt", "needed", "madt", "address", "cores", "pci",
        "handlers", "timer", "release", "fsPrint", "fsBuffer", "fs", "app", "ended", "waits"}

TypeOK ==
  /\ machine \in Machines /\ lives \in 1..MaxLives
  /\ pc \in PCs
  /\ outcome \in {"booting", "runs", "calls null"} \cup Halts \cup Accidents
  /\ idt \in {"firmware", "kernel"} /\ pic \in {"absent", "open", "masked"}
  /\ timer \in BOOLEAN /\ handlers \in BOOLEAN
  /\ DOMAIN msr = {"base", "enabled", "x2"} /\ msr.enabled \in BOOLEAN /\ msr.x2 \in BOOLEAN
  /\ NumberCores \in Nat /\ NumberPCIDevices \in Nat
  /\ BootDiskRead \in {Null, "backup"}
  /\ {MallocSpinLock, Ps2SpinLock, VgaSpinLock} \subseteq {0, 1} /\ AvgCoreSpeed \in BOOLEAN

OldPic(m) == IF m.dual THEN "open" ELSE "absent"
PowerOn(m) == [base |-> m.base, enabled |-> TRUE, x2 |-> FALSE]

Init ==
  /\ machine \in Machines
  /\ lives = 1
  /\ pc = "video" /\ outcome = "booting"
  /\ idt = "firmware" /\ pic = OldPic(machine) /\ timer = FALSE /\ handlers = FALSE
  /\ msr = PowerOn(machine) /\ LAPICREGAddr = 0
  /\ RdspPtr = 0 /\ AcpiVersionNumber = 0 /\ EntryPtrs = <<>> /\ MadtTable = Null
  /\ NumberCores = 0 /\ NumberPCIDevices = 0 /\ BootDiskRead = Null
  /\ MallocSpinLock = 0 /\ Ps2SpinLock = 0 /\ VgaSpinLock = 0 /\ AvgCoreSpeed = FALSE
  /\ asked = StartUpApp /\ loaded = Null
-----------------------------------------------------------------------------
(***************************************************************************)
(* What is read.                                                           *)
(***************************************************************************)
(* Faulty variant: a sum that is not cut to a byte. *)
CheckSum_Wide(bytes) ==
  LET sum[n \in 0..Len(bytes)] == IF n = 0 THEN 0 ELSE sum[n - 1] + bytes[n]
  IN  sum[Len(bytes)] = 0

(* The sum is a byte, at each turn of the loop.                            *)
CheckSum(bytes) ==
  LET sum[n \in 0..Len(bytes)] == IF n = 0 THEN 0 ELSE (sum[n - 1] + bytes[n]) % 256
  IN  sum[Len(bytes)] = 0

(* The first place with the signature, 0 without one.                      *)
FindRDSP(rom) == LET hits == {n \in DOMAIN rom : rom[n].signed}
                 IN  IF hits = {} THEN 0 ELSE CHOOSE n \in hits : \A h \in hits : n <= h

(* Faulty variant: every word of an XSDT taken for an address. *)
Entries_ByWord(words, version) == words

(* The addresses a root table lists: of one word each in an RSDT, of two   *)
(* in an XSDT, of which the lower one is taken.                            *)
Entries(words, version) ==
  IF version <= 1 THEN words
  ELSE [n \in 1..(Len(words) \div 2) |-> words[2 * n - 1]]

Table(t) == machine.tables[t]

(* The first match, if it is sound. *)
FindRSDTEntryWithSig(ptrs, sig) ==
  LET hits == {n \in DOMAIN ptrs : Table(ptrs[n]).sig = sig}
  IN  IF hits = {} THEN Null
      ELSE LET t == ptrs[CHOOSE n \in hits : \A h \in hits : n <= h]
           IN  IF CheckSum(Table(t).bytes) THEN t ELSE Null

(* RamDiskMgr::init. *)
OverrideArray == <<Path("/CommandLine.jexe", 17), Path("/WatchDog.jexe", 14),
                   Path("/tl.jexe", 8), Path("/help.jexe", 10), Path("/contri.jexe", 12)>>
OverrideAddr == <<"CommandLineEntry", "WatchDog", "TaskList", "Help", "Contribute">>

(* A path's length is counted from its text.                               *)
ASSUME PathAssumption ==
  \A p \in Paths : /\ p = Path(p.text, p.size)
                   /\ \A q \in Range(OverrideArray) : p.text = q.text => p.size = q.size

(* RamDiskMgr::ReadFile's search: the string moves on past a name of       *)
(* another length only, so behind one of the same length it stays.         *)
FindOverride(path) ==
  LET Same(n) == OverrideArray[n].size = path.size
      stays(n) == {k \in 1..n : Same(k)}
      at(n) == IF stays(n) = {} THEN n ELSE CHOOSE k \in stays(n) : \A j \in stays(n) : k <= j
      hits == {n \in DOMAIN OverrideArray : OverrideArray[at(n)] = path}
  IN  IF hits = {} THEN 0 ELSE CHOOSE n \in hits : \A h \in hits : n <= h

ReadFile(path) ==
  IF FindOverride(path) # 0 THEN OverrideAddr[FindOverride(path)]
  ELSE IF path \in machine.files THEN path.text ELSE Null
-----------------------------------------------------------------------------
(***************************************************************************)
(* CKernelEntry, call by call.                                             *)
(***************************************************************************)
At(l) == pc = l /\ outcome = "booting"

Ends(o) == pc' = "ended" /\ outcome' = o

GoOn(l) == pc' = l /\ UNCHANGED outcome

(* The counters, VGAInit, which frees the lock, and the first PrintString. *)
(* (Of the prints only those are steps that a tick can come in.)           *)
Video ==
  /\ At("video")
  /\ NumberCores' = 0
  /\ VgaSpinLock' = 0
  /\ GoOn("heap")
  /\ UNCHANGED <<machine, lives, interruptVars, acpiVars, NumberPCIDevices, BootDiskRead,
                 MallocSpinLock, Ps2SpinLock, AvgCoreSpeed, fileVars>>

(* MallocInit, which frees the lock, then allocates and frees for a test.  *)
MallocInit ==
  /\ At("heap")
  /\ MallocSpinLock' = 0
  /\ IF machine.memory THEN GoOn("idt") ELSE Ends("no memory")
  /\ UNCHANGED <<machine, lives, interruptVars, acpiVars, deviceVars, Ps2SpinLock, VgaSpinLock,
                 AvgCoreSpeed, fileVars>>

(* The table, and what IDThandler calls and counts with is forgotten. *)
InitIDT ==
  /\ At("idt")
  /\ idt' = "kernel"
  /\ handlers' = FALSE /\ AvgCoreSpeed' = FALSE
  /\ GoOn("apic")
  /\ UNCHANGED <<machine, lives, pic, timer, acpiVars, deviceVars, MallocSpinLock, Ps2SpinLock,
                 VgaSpinLock, fileVars>>

(* Apic::init.  The tests of the CPUID flags are of bit 0 of edx (the      *)
(* FPU's, by the precedence of !=) and of bit 21 (the debug store's): a    *)
(* CPU that has that and no x2APIC faults on the MSR.  The mask leaves 64K *)
(* units of the MSR's address: its bits 12 to 15, the page in the unit,    *)
(* are dropped.                                                            *)
ApicInit ==
  /\ At("apic")
  /\ LET n == FindRDSP(machine.rom)
     IN  /\ RdspPtr' = n
         /\ msr' = [msr EXCEPT !.x2 = machine.ds]
         /\ LAPICREGAddr' = IF machine.fpu THEN msr.base - (msr.base % 16) ELSE LAPICREGAddr
         /\ AcpiVersionNumber' = IF n = 0 THEN AcpiVersionNumber ELSE machine.rom[n].revision
         /\ IF machine.ds /\ ~machine.x2apic THEN Ends("unknown core")
            ELSE IF n = 0 THEN Ends("no RSDP")
            ELSE IF machine.rom[n].revision > 2 THEN Ends("version")
            ELSE IF ~CheckSum(machine.rom[n].bytes) THEN Ends("RSDP sum") ELSE GoOn("rsdt")
  /\ UNCHANGED <<machine, lives, interruptVars, EntryPtrs, MadtTable, deviceVars, lockVars,
                 fileVars>>

RootTable == IF AcpiVersionNumber > 1 THEN machine.rom[RdspPtr].xsdt
                                      ELSE machine.rom[RdspPtr].rsdt

ScanRSDT ==
  /\ At("rsdt")
  /\ EntryPtrs' = Entries(Table(RootTable).words, AcpiVersionNumber)
  /\ IF CheckSum(Table(RootTable).bytes) THEN GoOn("needed") ELSE Ends("RSDT sum")
  /\ UNCHANGED <<machine, lives, interruptVars, msr, LAPICREGAddr, RdspPtr, AcpiVersionNumber,
                 MadtTable, deviceVars, lockVars, fileVars>>

(* Faulty variant: the kernel looks for the MADT until it finds one. *)
NeededDevices_Retry ==
  /\ At("needed")
  /\ MadtTable' = FindRSDTEntryWithSig(EntryPtrs, "APIC")
  /\ IF MadtTable' = Null THEN UNCHANGED <<pc, outcome>> ELSE GoOn("madt")
  /\ UNCHANGED <<machine, lives, interruptVars, msr, LAPICREGAddr, RdspPtr, AcpiVersionNumber,
                 EntryPtrs, deviceVars, lockVars, fileVars>>

(* The kernel halts, but with interrupts on, if there is no MADT.          *)
NeededDevices ==
  /\ At("needed")
  /\ MadtTable' = FindRSDTEntryWithSig(EntryPtrs, "APIC")
  /\ IF MadtTable' = Null THEN Ends("no MADT") ELSE GoOn("madt")
  /\ UNCHANGED <<machine, lives, interruptVars, msr, LAPICREGAddr, RdspPtr, AcpiVersionNumber,
                 EntryPtrs, deviceVars, lockVars, fileVars>>

(* ScanMadt up to the devices (module CoreStart): DisablePIC.              *)
ScanMadt ==
  /\ At("madt")
  /\ pic' = IF Table(MadtTable).dual THEN "masked" ELSE pic
  /\ GoOn("address")
  /\ UNCHANGED <<machine, lives, idt, timer, handlers, acpiVars, deviceVars, lockVars, fileVars>>

(* ScanMadt's end: when the MADT has another address for the LAPIC than    *)
(* the CPU, the whole MSR is written with it, its enable bit cleared.      *)
LapicAddress ==
  /\ At("address")
  /\ LET a == Table(MadtTable).lapic
     IN  IF LAPICREGAddr # a
           THEN /\ msr' = [base |-> a, enabled |-> FALSE, x2 |-> FALSE]
                /\ LAPICREGAddr' = a
           ELSE UNCHANGED <<msr, LAPICREGAddr>>
  /\ GoOn("cores")
  /\ UNCHANGED <<machine, lives, interruptVars, RdspPtr, AcpiVersionNumber, EntryPtrs,
                 MadtTable, deviceVars, lockVars, fileVars>>

(* The registers that the kernel writes and reads are the LAPIC's.         *)
LapicReached == msr.enabled /\ (msr.x2 \/ msr.base = LAPICREGAddr)

(* What WriteLAPICReg writes arrives: in x2APIC mode it writes 0 whatever  *)
(* it is given.                                                            *)
LapicObeys == LapicReached /\ ~msr.x2

(* For ever: for a core that does not answer, at LAPIC.cpp:281, 296, 322   *)
(* or 422.                                                                 *)
Waits == pc' = "waits" /\ UNCHANGED outcome

(* Apic::StartLAPICS, in detail in module CoreStart.  With no LAPIC the    *)
(* boot core's own number is what happens to be read: it starts itself, in *)
(* vain, unless that is its number and there is no other.                  *)
StartLAPICS ==
  /\ At("cores")
  /\ NumberCores' = Table(MadtTable).cores
  /\ \/ NumberCores' = 0 /\ Ends("no core")
     \/ NumberCores' > 0 /\ (LapicReached \/ NumberCores' = 1) /\ GoOn("pci")
     \/ NumberCores' > 0 /\ ~LapicReached /\ Waits
  /\ UNCHANGED <<machine, lives, interruptVars, acpiVars, NumberPCIDevices, BootDiskRead,
                 lockVars, fileVars>>
-----------------------------------------------------------------------------
(* ScanPCI's first pass.  What its second one saves of the devices (the    *)
(* last bus is left out, and all devices go to the first place) makes      *)
(* no difference, for no driver but the BIOS's is ever usable.             *)
ScanPCI == Cardinality(machine.pci)

(* FindKnownDrivers: none of the drivers is usable, so the BIOS's is taken *)
(* and must read the kernel's magic; unless there is no device at all.     *)
FindDevices ==
  /\ At("pci")
  /\ NumberPCIDevices' = ScanPCI
  /\ IF NumberPCIDevices' = 0
       THEN BootDiskRead' = Null /\ GoOn("handlers")
       ELSE /\ BootDiskRead' = "backup"
            /\ IF machine.disk THEN GoOn("handlers") ELSE Ends("disk check")
  /\ UNCHANGED <<machine, lives, interruptVars, acpiVars, NumberCores, lockVars, fileVars>>

(* Faulty variant: the timer goes off before there are handlers. *)
SetHandlers_TimerFirst ==
  /\ At("handlers")
  /\ timer' = TRUE
  /\ GoOn("timer")
  /\ UNCHANGED <<machine, lives, idt, pic, handlers, acpiVars, deviceVars, lockVars, fileVars>>

(* StartLApicTimer: what IDThandler calls, then the timer, then the other  *)
(* cores (module CoreStart), each of which confirms with its own timer     *)
(* that it is online, upon which the boot core prints so.                  *)
SetHandlers ==
  /\ At("handlers")
  /\ handlers' = TRUE
  /\ GoOn("timer")
  /\ UNCHANGED <<machine, lives, idt, pic, timer, acpiVars, deviceVars, lockVars, fileVars>>

StartLApicTimer ==
  /\ At("timer")
  /\ timer' = TRUE
  /\ GoOn("release")
  /\ UNCHANGED <<machine, lives, idt, pic, handlers, acpiVars, deviceVars, lockVars, fileVars>>

ReleaseCores ==
  /\ At("release")
  /\ IF NumberCores > 1 /\ ~LapicObeys
       THEN Waits /\ UNCHANGED VgaSpinLock
       ELSE GoOn("fsPrint") /\ VgaSpinLock' = IF NumberCores > 1 THEN 1 ELSE 0
  /\ UNCHANGED <<machine, lives, interruptVars, acpiVars, deviceVars, MallocSpinLock,
                 Ps2SpinLock, AvgCoreSpeed, fileVars>>

(* FS::init: a print, whose lock is given back before Malloc takes its     *)
(* own and gives it back.                                                  *)
FsPrint ==
  /\ At("fsPrint")
  /\ VgaSpinLock' = 1
  /\ GoOn("fsBuffer")
  /\ UNCHANGED <<machine, lives, interruptVars, acpiVars, deviceVars, MallocSpinLock,
                 Ps2SpinLock, AvgCoreSpeed, fileVars>>

FsBuffer ==
  /\ At("fsBuffer")
  /\ VgaSpinLock' = 0
  /\ MallocSpinLock' = 1
  /\ GoOn("fs")
  /\ UNCHANGED <<machine, lives, interruptVars, acpiVars, deviceVars, Ps2SpinLock, AvgCoreSpeed,
                 fileVars>>

(* The driver's first act is to switch the LAPIC off, which stays so until *)
(* CKernelEntry ends.                                                      *)
FsInit ==
  /\ At("fs")
  /\ MallocSpinLock' = 0
  /\ timer' = FALSE
  /\ IF BootDiskRead = Null THEN Ends("calls null")
     ELSE IF machine.fs THEN GoOn("app") ELSE Ends("no file system")
  /\ UNCHANGED <<machine, lives, idt, pic, handlers, acpiVars, deviceVars, Ps2SpinLock,
                 VgaSpinLock, AvgCoreSpeed, fileVars>>

(* RamDiskMgr::init to the end: the start-up program's thread, which runs  *)
(* from the first tick on.                                                 *)
StartApp ==
  /\ At("app")
  /\ asked' = StartUpApp
  /\ loaded' = ReadFile(StartUpApp)
  /\ timer' = (loaded' # Null)
  /\ IF loaded' = Null THEN Ends("no app")
     ELSE IF LapicObeys THEN Ends("runs") ELSE Ends("no timer")
  /\ UNCHANGED <<machine, lives, idt, pic, handlers, acpiVars, deviceVars, lockVars>>
-----------------------------------------------------------------------------
(***************************************************************************)
(* What comes in between, and after.                                       *)
(***************************************************************************)
InterruptsOn == outcome \in {"booting", "no MADT"} /\ pc # "video"

(* A reset: the kernel is loaded again.  Those of its variables that are   *)
(* not part of the image keep their values in a build that keeps them; the *)
(* keyboard's lock is one that no line of the start sets (idt.cpp:20).     *)
Reset(heap, ps2, vga) ==
  /\ lives < MaxLives
  /\ lives' = lives + 1
  /\ pc' = "video" /\ outcome' = "booting"
  /\ idt' = "firmware" /\ pic' = OldPic(machine) /\ timer' = FALSE
  /\ msr' = PowerOn(machine)
  /\ MallocSpinLock' = IF machine.kept THEN heap ELSE 0
  /\ Ps2SpinLock' = IF machine.kept THEN ps2 ELSE 0
  /\ VgaSpinLock' = IF machine.kept THEN vga ELSE 0
  /\ IF machine.kept
       THEN UNCHANGED <<handlers, AvgCoreSpeed, LAPICREGAddr, RdspPtr, AcpiVersionNumber,
                        EntryPtrs, MadtTable, deviceVars>>
       ELSE /\ handlers' = FALSE /\ AvgCoreSpeed' = FALSE /\ LAPICREGAddr' = 0 /\ RdspPtr' = 0
            /\ AcpiVersionNumber' = 0 /\ EntryPtrs' = <<>> /\ MadtTable' = Null
            /\ NumberCores' = 0 /\ NumberPCIDevices' = 0 /\ BootDiskRead' = Null
  /\ UNCHANGED <<machine, fileVars>>

(* A tick of the old timer: without a table of its own the kernel dies;    *)
(* with it IDThandler does not know the core and loops for ever.           *)
PicTick ==
  /\ InterruptsOn /\ pic = "open"
  /\ \/ idt = "firmware" /\ Reset(MallocSpinLock, Ps2SpinLock, VgaSpinLock)
     \/ /\ idt = "kernel"
        /\ Ends("unknown core")
        /\ UNCHANGED <<machine, lives, interruptVars, acpiVars, deviceVars, lockVars, fileVars>>

(* A tick of the LAPIC's: IDThandler polls the keyboard and, the first     *)
(* time, allocates counters.  A letter that comes with it is shown, with   *)
(* the keyboard's lock taken (by this core's handler or another's, for     *)
(* which this one then waits), and that print waits for the lock of the    *)
(* screen, for ever if the boot core was interrupted in a print.           *)
LapicTick ==
  /\ InterruptsOn /\ timer /\ LapicObeys
  /\ \/ ~handlers /\ Ends("calls null") /\ UNCHANGED <<Ps2SpinLock, AvgCoreSpeed>>
     \/ handlers /\ Ps2SpinLock = 1 /\ Ends("lock") /\ UNCHANGED <<Ps2SpinLock, AvgCoreSpeed>>
     \/ /\ handlers /\ Ps2SpinLock = 0 /\ VgaSpinLock = 1
        /\ Ps2SpinLock' = 1
        /\ Ends("screen")
        /\ UNCHANGED AvgCoreSpeed
     \/ /\ handlers /\ Ps2SpinLock = 0
        /\ IF ~AvgCoreSpeed /\ MallocSpinLock = 1
             THEN Ends("heap") /\ UNCHANGED AvgCoreSpeed
             ELSE AvgCoreSpeed' = TRUE /\ UNCHANGED <<pc, outcome>>
        /\ UNCHANGED Ps2SpinLock
  /\ UNCHANGED <<machine, lives, interruptVars, acpiVars, deviceVars, MallocSpinLock,
                 VgaSpinLock, fileVars>>

(* LoadApp and LoadAppNonBG. *)
LoadApp ==
  /\ outcome = "runs"
  /\ \E p \in Paths : asked' = p /\ loaded' = ReadFile(p)
  /\ UNCHANGED <<machine, lives, pc, outcome, interruptVars, acpiVars, deviceVars, lockVars>>

(* A fault: the core that has it reports it and makes the PC start again,  *)
(* whatever the others do.                                                 *)
Fault ==
  /\ outcome = "runs"
  /\ \E heap, ps2, vga \in {0, 1} : Reset(heap, ps2, vga)

Step == \/ Video \/ MallocInit \/ InitIDT \/ ApicInit \/ ScanRSDT \/ NeededDevices \/ ScanMadt
        \/ LapicAddress \/ StartLAPICS \/ FindDevices \/ SetHandlers \/ StartLApicTimer
        \/ ReleaseCores \/ FsPrint \/ FsBuffer \/ FsInit \/ StartApp

Next == Step \/ PicTick \/ LapicTick \/ LoadApp \/ Fault

Spec == Init /\ [][Next]_vars

(* The boot core goes on. *)
FairSpec == Spec /\ WF_vars(Step)
-----------------------------------------------------------------------------
(* The MADT is read, so are the devices it lists.                          *)
PastAcpi == pc \in {"madt", "address", "cores", "pci", "handlers", "timer", "release",
                   "fsPrint", "fsBuffer", "fs", "app", "waits"}
PastMadt == PastAcpi /\ pc \notin {"madt", "address"}

(* The root table of the firmware's version, and the places in it that     *)
(* hold addresses, of 4 or of 8 bytes.                                     *)
Root(m) == LET p == m.rom[FindRDSP(m.rom)]
           IN  m.tables[IF p.revision > 1 THEN p.xsdt ELSE p.rsdt]

Listed(m) == {n \in DOMAIN Root(m).words :
                m.rom[FindRDSP(m.rom)].revision > 1
                  => n % 2 = 1 /\ n + 1 \in DOMAIN Root(m).words}

Meant(m) == {Root(m).words[n] : n \in Listed(m)}

IsMadt(m, n) == m.tables[Root(m).words[n]].sig = "APIC"

(* The first MADT listed, for others are not looked at.                    *)
FirstMadt(m, n) == /\ n \in Listed(m) /\ IsMadt(m, n)
                   /\ \A k \in Listed(m) : IsMadt(m, k) => n <= k

(* The bytes add up to a multiple of 256.                                  *)
IsSound(bytes) ==
  LET total[n \in 0..Len(bytes)] == IF n = 0 THEN 0 ELSE total[n - 1] + bytes[n]
  IN  total[Len(bytes)] % 256 = 0

(* The MADT that the kernel goes on with is one that the firmware lists,   *)
(* and whole; and the kernel knows all tables listed (Rsdt.cpp:56-95).     *)
TablesFound ==
  PastAcpi => /\ Range(EntryPtrs) = Meant(machine)
              /\ MadtTable \in Meant(machine)
              /\ Table(MadtTable).sig = "APIC" /\ IsSound(Table(MadtTable).bytes)

(* Firmware and CPU agree on the LAPIC's address, it is one that the mask  *)
(* of init.cpp:62 leaves as it is, and the CPUID bit tested is set.        *)
Agree(m, madt) == m.fpu /\ m.base % 16 = 0 /\ madt.lapic = m.base

(* There, and nowhere else, the kernel's address is that of a LAPIC that   *)
(* is on: elsewhere ScanMadt takes firmware and CPU to differ and writes   *)
(* the MSR, which switches the LAPIC off (Madt.cpp:168), or the mask makes *)
(* them look as if they agreed.                                            *)
LapicAnswers ==
  PastMadt => (msr.enabled /\ msr.base = LAPICREGAddr <=> Agree(machine, Table(MadtTable)))

(* What the firmware's tables say is what the kernel goes by.              *)
FirmwareRead == TypeOK /\ TablesFound /\ LapicAnswers

(* What a machine must have for the kernel to come up on it.               *)
RsdpGood(m) == /\ FindRDSP(m.rom) # 0
               /\ m.rom[FindRDSP(m.rom)].revision <= 2
               /\ IsSound(m.rom[FindRDSP(m.rom)].bytes)

MadtGood(m) == \E n \in Listed(m) : LET madt == m.tables[Root(m).words[n]]
                                    IN  /\ FirstMadt(m, n)
                                        /\ IsSound(madt.bytes) /\ madt.cores > 0

(* A LAPIC that obeys the kernel. *)
LapicGood(m) == /\ ~m.ds
                /\ \E n \in Listed(m) : /\ FirstMadt(m, n)
                                         /\ Agree(m, m.tables[Root(m).words[n]])

Good(m) ==
  /\ m.memory
  /\ RsdpGood(m) /\ IsSound(Root(m).bytes) /\ MadtGood(m) /\ LapicGood(m)
  /\ m.pci # {} /\ m.disk /\ m.fs /\ StartUpApp \in m.files

Builtin == [text \in {"/CommandLine.jexe", "/WatchDog.jexe", "/tl.jexe", "/help.jexe",
                      "/contri.jexe"} |->
              CASE text = "/CommandLine.jexe" -> "CommandLineEntry"
                [] text = "/WatchDog.jexe" -> "WatchDog"
                [] text = "/tl.jexe" -> "TaskList"
                [] text = "/help.jexe" -> "Help"
                [] text = "/contri.jexe" -> "Contribute"]

(* A built-in program is found under its path whatever is on the disk, and *)
(* nothing else is: RamDiskMgr::ReadFile's search stops moving at the      *)
(* first name of the path's length, so two built-in names of one length    *)
(* would hide each other (RamDiskMgr.cpp:44).                              *)
BuiltinsLoaded ==
  outcome = "runs" =>
    loaded = IF asked.text \in DOMAIN Builtin THEN Builtin[asked.text]
             ELSE IF asked \in machine.files THEN asked.text ELSE Null

(* The start-up program runs exactly on a machine that has all it needs,   *)
(* but for accidents (an interrupt at a bad moment, a lock left taken),    *)
(* and no boot waits for ever for a core (LAPIC.cpp:281, 296, 322, 422)    *)
(* where the LAPIC obeys; a program that was asked for is the right one.   *)
RunsIfGood ==
  /\ outcome \notin {"booting"} \cup Accidents => (outcome = "runs" <=> Good(machine))
  /\ pc = "waits" => ~LapicGood(machine)
  /\ BuiltinsLoaded

(* The accidents have no other causes than these: an interrupt of the old  *)
(* controller, which is silent once ScanMadt is done (idt.cpp:452 takes it *)
(* for a core that is not known), or a fault on the MSR; the keyboard's    *)
(* lock that a life before a reset has left, in a build that keeps it; a   *)
(* PC without any PCI device, for which there is no disk driver; a letter  *)
(* typed during one of the prints that the timer can interrupt             *)
(* (LAPIC.cpp:423, FileSystem.cpp:166); and, once, a tick within the only  *)
(* Malloc of the boot core while its timer is on (FileSystem.cpp:168).     *)
AccidentsKnown ==
  /\ PastMadt => pic # "open"
  /\ outcome = "unknown core" => pic = "open" \/ (machine.ds /\ ~machine.x2apic)
  /\ outcome = "lock" => machine.kept /\ lives > 1 /\ Ps2SpinLock = 1
  /\ outcome = "heap" => ~AvgCoreSpeed /\ MallocSpinLock = 1 /\ NumberCores > 0
  /\ outcome = "screen" => VgaSpinLock = 1 /\ MallocSpinLock = 0 /\ NumberCores > 0
  /\ outcome = "calls null" => machine.pci = {}

(* Every boot ends, with the start-up program or with a halt, but for one  *)
(* that waits for a core where the LAPIC does not obey.                    *)
BootEnds ==
  outcome = "booting" ~> outcome # "booting" \/ (pc = "waits" /\ ~LapicGood(machine))
=============================================================================
