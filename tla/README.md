# A verification development for JennyOS

JennyOS is a 32-bit x86 kernel for several cores. This directory holds TLA+
models of its core, the TLC configurations that check them on small instances,
and proofs that TLAPS checks for every instance. Paths below are relative to
`Kernel/` unless they say otherwise.

## 1. Inventory

| part | state it keeps | operations | properties that make it correct |
|---|---|---|---|
| spin lock (`SpinLock.*`) | one word per lock | `WaitSet`, the store `lock = 0` | mutual exclusion; some waiting core gets in |
| heap (`malloc/malloc.*`) | `MallocTables`, `NextFreeMalloc`, the blocked areas `MallocOverWrites` | `MallocInit`, `AddOverwrite`, `Malloc`, `Free` | chunks in use never overlap; no memory is lost or stays reserved |
| interrupt handler (`idt.*`) | per core: current thread, state, idle frame, statistics | `IDThandler` for timer and system calls | saves the right frame, comes to an end, gives its locks back |
| threads (`Exec/Thread.*`) | `ThreadArray`: core, state, parent, stack pointer | `InitThread`, `SwitchTask`, `MoveToStartStack`, `ReStartThread` | one core per thread, frames intact, every runnable thread runs |
| system calls (`Syscall/*`) | `SyscallSpinLock` | `LoadApp`, `LoadAppNonBG`, `GetInput`, `Exit`, printing | parents wait and are woken once; closed threads stay closed |
| keyboard (`Ps2/*`) | `CurrentBuffer`, `ThreadGetingInput`, index, shift | `SetPs2InputBuffer`, `OnPs2CheckCycle` | a reader is paused until Enter and woken then |
| core start (`Apic/LAPIC.cpp`, `Madt.cpp`, `CoreMgr.cpp`, `CoreStart.asm`) | device list, `CoreStateList`, `CoreStackPtrs`, `NumberCores`, `CoreIDS` | `ScanMadt`, `StartLAPICS`, `StartLApicTimer`, `CoreEntry` | every core has its own stack and number; the boot comes to an end |
| boot order (`kernel.cpp`), ACPI tables (`Apic/init.cpp`, `Rsdt.cpp`), PCI (`PCI/*`) | the tables found, the devices, the driver, what interrupts are on | `CKernelEntry` and what it calls | the kernel comes up on every machine that has what it needs and halts on others; no interrupt comes that it cannot take |
| file system (`FS/*`, `FileSystem/CreateSystem.py`) | index tables and files on the disk, `NextFreeLBA` | `init`, `ScanDir`, `FindFileLBA`, `ReadFileFromLBA`, `WriteFile`, `RemoveFile` | files do not overlap, are read back as written, survive a power loss |
| disk drivers (`Disk/*`) | - | read and write sectors through the BIOS | the sectors asked for are read and written |
| console (`console/*`) | the screen, the cursor, `VgaSpinLock` | `PrintString`, `PrintInt`, `VGAInit`, scrolling | text of one call is not mixed with another's; nothing is written outside the screen |
| built-in programs (`KernelRamDiskApps/*`) | their names and addresses | look-up; system calls; one prints by itself | found under their paths, and nothing else is |
| paging, IO-APIC | disabled in this version (`src/ISSUES.md`) | - | - |
| boot loader, build scripts | - | straight lines of code | - |

How they interact: every core runs a thread or its idle loop, and
`IDThandler` on each interrupt. The handler takes up to three spin locks one
after the other (`Thread::SpinLock`, `SyscallSpinLock`, `Ps2SpinLock`), inside
a system call also `Thread::SpinLock` within `SyscallSpinLock`, and within any
of them the heap's and the console's. System calls create and end threads
through `InitThread` and `Exit`, which use the heap. The keyboard is polled by
every core in its handler, prints what is typed and changes a thread's state
through a pointer that a system call has left it. The file system is read by
`LoadApp`, under `SyscallSpinLock`. Everything in the kernel may print, and
each print switches interrupts on, also during the boot.

What is hard: up to all cores are in the handler at once, in different
sections and under different locks; slots of `ThreadArray` are reused and the
array moves while others hold indices and pointers into it; `GetInput` and the
poll share variables under different locks; a program can be interrupted with
the console's lock taken; the code that sets the timer's speed switches the LAPIC on
again within a handler, and a print then lets a tick in; the boot is a hand-shake
through one byte per core,
with the old timer ticking at its start; memory may run out under a lock. A
fault restarts the machine, after which the disk and perhaps some memory is as
it was. There are no messages that may be lost. `PROJECT.json` lists the
hazards by line.

## 2. Modules

| module | models | as |
|---|---|---|
| `SpinLock` | `Spinlock::WaitSet`, `SpinLockReset`, the unlocking store | one `pc` per core, the exchange and the test of its result are separate steps |
| `AbstractLock` | - | what a lock promises; `SpinLock` refines it |
| `Kmalloc` | `malloc.cpp` | the table array with address, size and free bit; `Malloc` is one action with a disjunct per outcome; the read after the unlock is a step of its own |
| `Allocator` | - | what a heap promises; `Kmalloc` refines it |
| `Scheduler` | `idt.cpp`, `Thread.cpp`, `Syscall.cpp`, `Ps2.cpp` | a `pc` per core that says which lock it waits for or holds |
| `ThreadMemory` | the calls of the heap in `Thread.cpp`, `Syscall.cpp`, `idt.cpp` | a set of blocks that remember what was put into them; one step per `Malloc`, `Free` and store of a pointer |
| `Console` | `console/console.cpp` | a place per context, one step per character, test and store |
| `TextScreen` | - | what a text screen promises; `Console` refines it |
| `Keyboard` | `Ps2/Ps2.cpp` | a place per core in `GetInput` or in the poll |
| `Terminal` | the parts of `idt.cpp` and `Syscall.cpp` around them, `tasklist.cpp` | composes `Console` and `Keyboard`: two contexts per core, a program and its handler |
| `CoreStart` | `Madt.cpp`, `LAPIC.cpp`, `CoreMgr.cpp`, `CoreStart.asm`, the first tick in `idt.cpp` | a `pc` for the boot core and for each other core; one step per access of `CoreStateList` |
| `Boot` | `kernel.cpp`, `Apic/init.cpp`, `Rsdt.cpp`, `Madt.cpp`, `PCI/*`, `RamDiskMgr.cpp`, `idt.cpp` as far as the boot goes | one step per call of `CKernelEntry`, interrupts in between |
| `FileSystem` | `FS/FileSystem.cpp`, `Disk/BackupDriverMgr.cpp`, the image of `FileSystem/CreateSystem.py` | the disk's sectors, the kernel's copy of the header, and a `pc` that says which disk write of `WriteFile` is next |
| `MCKmalloc`, `MCCoreStart`, `MCFileSystem`, `MCTerminal`, `MCBoot` | - | memory maps, MADTs, disk images, keys and strings, machines for TLC |
| `SpinLock_proofs`, `Kmalloc_proofs`, `Scheduler_proofs`, `ThreadMemory_proofs`, `Terminal_proofs`, `CoreStart_proofs`, `Boot_proofs`, `FileSystem_proofs` | - | the theorems |

Definitions have the names of the code where they can. A definition called
`X_Something` in front of `X` is a faulty variant of `X`: put in its place, it
makes TLC find a named property violated, which shows that the property can
tell the code from a plausible mistake.

**SpinLock.** `WaitSet(c)` is the call, `SpinLockReset(c)` the `xchg`,
`Enter`/`Retry` the two results of the loop's test. The lock word is
initialised to 0; the unlocking store is the caller's.

**Kmalloc.** A holder has at most one piece; the array of blocked areas is a
holder too, since `AddOverwrite` takes it from the heap and moves it. The boot
(`UsableArea`, `GrowOverWrites`, `AddOverwrite`) reads the memory map entry by
entry, then `Client`s use the heap. `returning` is the table that `Malloc` has
chosen when it unlocks: it reads the address from it afterwards. `hung` is the
`while(1)` at the end of memory, with the lock taken. The test pass at the end
of `MallocInit` makes no calls that `Client`s do not make. Not kept: flags that
nothing reads.

**Scheduler.** Each `InitThread` makes a stack; stacks number the contexts a
core can execute (`on`). `fresh[k]` says whether `StackPTR` holds the last
frame of stack `k`; a resume uses it up, and a resume without one either goes
on from what is still there or faults. A pointer into `ThreadArray` carries the
number of the array it points into, since `InitThread` moves the array. What
happens under `Thread::SpinLock` is one step; GetInput and Enter, which share
variables under different locks, take one step per store. The locks are taken
in one step when they are 0, which `SpinLock`'s refinement justifies.
The handler masks its core's LAPIC, but `CpuUnderLoad` (`idt.cpp:499-502`) may
switch it on again (`LAPIC.cpp:379`), and the next print's `sti` (`console.cpp:69`)
lets a tick in. `Interruptible` says where, as far as this model's places go: from a
system call's first print on, until `InitThread` masks the LAPIC again
(`Thread.cpp:19`) or the handler ends. A tick's own handler cannot be interrupted by
another tick, which is acknowledged behind its last print (`idt.cpp:597`).
`NestedTick` marks the core (`nested`), which then makes no step: what the second
handler does (wait for ever for a lock of its own core, or switch away with it) is
not followed, and whatever it held stays taken.

**ThreadMemory.** The thread code again, with what `Scheduler` takes for
granted: where the array of threads, the stacks and the interrupt counts are.
`InitThread` is `CountLoads`, then `ReuseEntry` or `NewArray`, `NewStack`,
`FreeArray`, `PublishArray`, all under `Thread::SpinLock` but with other cores'
interrupts and their `MakeStatistics` in between. A block keeps its contents
when it is freed, so `StillThere` says whether a pointer into a freed array
still finds what it expects. A call of `Malloc` may fail (`MaxFailures`), or find
all blocks taken and loop for ever with the lock it has (`hung`). Exit frees an
address below its stack: mostly nothing happens, but a block that begins there
by chance is freed in use (`damaged`). The same is said of `LoadAppNonBG` when
the number it reads in a freed array is no core's, and its store goes anywhere.
After either nothing is claimed and the model stops. Frames, the keyboard and faults
are left to `Scheduler`.

**Console.** `PrintString` is `TakeVga`, then for each character `PutChar` and
`CheckLimit`, perhaps `ScrollScreen`, and `EndPrint`; `VGAInit` is
`ResetOffset`, `SetLock`, `ClearCells` and takes no lock. `crossed` remembers
that a `VGAInit` and a print have met, after which nothing is claimed. `shown`
is the page when the last call ended, which is what `TextScreen` sees.

**Keyboard.** `SetBuffer` to `SetPaused` are GetInput's stores, `EndLine`,
`ClearBuffer` and `Wake` the Enter's. `disturbed` remembers that a read began
while another was on or a key was being worked on, that a key came between
its stores, or that the array of threads moved while it was on: then a line may be
lost, as section 5 says. `MoveArray` is what `InitThread` does to the driver: its
pointer stays behind (`moved`), and its stores go to freed memory (`StoreState`).
A buffer's places are counted from the address that the program named; `GetInput`
hands on the next one (`First`). One thread per core
stands for all of them; `Scheduler` has what happens to its slot.

**Terminal.** `Program(c)` and `Handler(c)` are two contexts of the console, of
which the second interrupts the first anywhere. `Serve` is what a system call
does, a launch among them (it moves the array, or takes a closed entry and says so);
`Echo` is the print of the letter typed, with `Ps2SpinLock` taken. Where a tick can
nest in a handler is as in `Scheduler` (`Interrupts`, `NestedTick`).

**CoreStart.** The boot core runs `ScanMadt`, `StartLAPICS` and
`StartLApicTimer`, each loop round by round (`CollectLAPICs`, `StartCore`,
`StoreIDs`, `Release`, `Go`); the others `CoreStart.asm`, `CoreEntry` and their
first timer interrupt. A core that is switched off never answers; the INIT
before a start-up interrupt resets a core that runs already, which a table that
lists a LAPIC twice makes happen. `BootCoreListed` is what the firmware is
trusted with: that the core which runs the boot is in the table and not off. In x2APIC mode
`WriteLAPICReg` writes 0 whatever it is told, so the timer of the cores in
`X2Apic` stays off. Its end (`HandsOver`) is `Scheduler`'s `Init`.

**Boot.** A machine says what the firmware's tables hold, what the CPU can do,
what devices, disk and files there are, and whether memory survives a reset.
Each call of `CKernelEntry` is a step that goes on or ends the boot; `outcome`
says how. `PicTick` is a tick of the old interrupt controller, which without a
table kills the kernel and with one is taken for a core that does not exist;
`LapicTick` one of the core's own timer, which polls the keyboard, echoes a letter
that was typed and at its first time allocates. A print after the timer's start is
a step with the screen's lock taken (`ReleaseCores`, `FsPrint`), in which that echo
waits for its own core. The LAPIC's address is the MSR's without its bits 12 to 15
(`ApicInit`); `LapicReached` and `LapicObeys` say whether what the kernel reads and
writes there is the LAPIC's, and `Waits` is one of the loops for a core
(`LAPIC.cpp:281`, 296, 322, 422) that never ends because it is not. `Fault` ends a life of the kernel at any later time.

**FileSystem.** A sector is the header, an index table or a byte sum of data;
paths are names. `Chain(d)` is the walk that `ScanDir`, `GetFreedIndexTables` and
`GetNextConnecterLBA` all make. `WriteNewHome` and `WriteReuse` are the two
branches of `WriteFile` up to their first disk write; then each disk write is a
step (`HomeData`, `HomeIndex`, `Shrink`, `ReuseIndex`, `Link`, `ReuseData`,
`WriteHeader`), the last one with the look for the new file that follows it.
`PowerFailure` may come between any two: the kernel forgets its copy of the
header and starts on the disk as it is. Writing several sectors is one step
(`PutFile`); the driver counts its sector twice in each turn, so that every
second one is written, the rest behind the end of the file.
`versions` remembers what was written to a path: a second file of the same path
does not replace the first one but hides it until it is removed, as the code
has it (`src/ISSUES.md:6` lists it as a known bug). A file of several sectors is
`Unknown`, since half of it was never written, and so is a file with a new home:
its table holds an absolute sector number to which
`ReadFileFromLBA` adds the offset again. The calls of the programs on the RAM disk only
read; `WriteFile` and `RemoveFile` are called one at a time.

## 3. Runs

| run | instance | what it shows |
|---|---|---|
| `SpinLock` | 4 cores, fairness | exclusion, the refinement of `AbstractLock`, and progress |
| `Kmalloc` | 3 clients, 5 tables, 16 addresses, 4 memory maps | chunks are disjoint, nothing is lost, `Allocator` is refined |
| `SchedulerThreads` | 2 cores, 3 launches, fairness | threads without keyboard input keep their frames and their core; a parent stays put while its child runs; only core 0 loads a frame that was never saved; the handler returns and runnable threads run, unless a tick nests |
| `SchedulerInput` | 2 cores, 3 launches, keyboard | with every system call, threads do not mix frames |
| `ThreadMemory` | 2 cores, 3 launches, 8 blocks, 1 failure | memory in use stays allocated and holds what it should; what leaks is known and bounded; a stale read is good but for one case; a hang stops all |
| `Terminal` | 2 cores, 1 of which prints by itself, 3 calls and keys, 2 lines of 2 cells, fairness | strings appear whole and in order (`TextScreen` is refined), the cursor stays on the screen, an undisturbed reader is woken with its line, which the driver writes to bytes 1 to n + 1 and nowhere else; handlers return, unless a program holds the screen or a tick nests |
| `CoreStart` | 4 cores, 12 MADTs, fairness | stacks, numbers and the order of the hand-shake; the boot ends if no LAPIC is off or listed twice and the boot core is the first |
| `Boot` | 29 machines, 3 lives, 11 paths, fairness | the right tables are found, the kernel comes up exactly where it can, accidents have known causes, built-in programs are found, the boot ends or waits for a core of a LAPIC that does not obey |
| `FileSystem` | 3 images, 2 writes of 1 to 3 sectors, 1 power failure, fairness | the chain stays whole, files stay readable, `WriteFile` returns, as long as the end of the disk was free |
| `KmallocZero` | sizes 0 to 2 | *violated*: two callers share an address |
| `TerminalLaunch` | 2 calls, 2 keys, no program that prints | *violated*: a launch moves the threads, the Enter's store misses the reader |
| `FileSystemOverwrite` | no power failure | *violated*: a new table goes where another one is |

Some of the invariants are groups, named for what their parts say together.
`CoresApart`: `TypeOK`, `LocksHeld`, `OneCorePerThread`. `FamiliesKept`:
`WaitingHasChild`, `ParentWaits`. `MemoryAccounted`: `NoMemoryLost`,
`UsedTablesOwned`. `BlocksKept`: `TypeOK`, `MemoryKept`. `LineInBuffer`: `TypeOK`,
`LineDelivered`, `WithinBuffer`. `PlacesKept`: `TypeOK`, `OwnPlace`. `DiskSound`:
`TypeOK`, `ChainSound`. `FirmwareRead`: `TypeOK`, `TablesFound`, `LapicAnswers`.
`LeaksKnown` includes `FewLost`, `RunsIfGood` `BuiltinsLoaded`. The types of
`SpinLock` and `Kmalloc` are proved, not run.

The bounds and why they do. *Spin lock*: a third core is the one that can
come between two; the proof covers any number. *Heap*: five tables and three
clients let the tables run out, a chunk have a free neighbour on both sides,
and an empty table lie below, between and above used ones; the 16 addresses reach
past all blocked areas and to the end of memory. `MaxNumberTables`,
`AddressLimit`, `EntrySize` and `MinBytesRam` stand for 2000-odd tables, 2^32,
the size of the structure and the kernel's minimum. *Scheduler*: two cores are
enough for one to be anywhere in its handler while the other makes, ends or
switches threads; three launches are a parent, its child and a thread that
reuses a slot. `MaxLaunches` bounds the behaviours: afterwards a launch finds
no program, a path the code has. *Thread memory*: the same, and eight blocks are
two arrays, three stacks and one set of counts: with one set lost in a race, or
stacks that are never freed, memory runs out at every place that allocates.
*Core start*: four cores in different orders,
with other devices between them and up to three waiting at once, a core that is
off or listed twice, the boot core first, second, last or twice.

*Terminal*: a page of two lines of two cells is scrolled by two prints; three
calls and keys together (`MaxEvents`) are three prints, or a clear and two prints that
cross, or a read with a letter and Enter, or Shift and a letter, or with a launch, a
second read or a print between its call and Enter. One
reader has room for no letter, the other for one; `RoomSize` is the memory
behind a buffer's address that the model follows, more than any line here takes. The timers are not bounded:
polls go on for ever. *Boot*: each machine but the plain ones has one thing odd, and
each halt of the code is some machine's end. The LAPIC's address is
one that the mask keeps or one that it does not, which MADT and CPU agree on or not; each
of these and x2APIC mode is there with one core, where nobody is waited for, and with
more, where the boot waits for ever. Three lives are a life after a life
after a reset. Two machines list two MADTs of which one is broken: the kernel
looks at the first only, so it comes up on one of them. Built-in names and files of
the same length are among the paths.

*File system*: the images have a file that
can be cut twice, one that is too small to be cut, a directory, or a directory
only (the kernel then halts); with two writes a freed file is cut twice, or a
new home is followed by a cut. `LbaOffset` is larger than what the writes reach,
as 258 is for the shipped image, so an offset added twice lands outside of all
files; `MaxTables` (5) is more than the tables there can be. `ImagesAssumption`, which
TLC evaluates, says what an image is: made of a drive that is not empty, directories
without sectors, no file with the name `RemoveFile` leaves, and room within the bounds
for a table of each file written. Runs with one failure
reach every pair of a half-made file and a later write.

Deadlock is checked where the system runs for ever (`SpinLock`). The scheduler's and
the terminal's runs may stop when a tick has nested on each core, or on one that has
the locks for which the others wait. `Kmalloc` stops when memory has run out or was
never enough, `SchedulerInput` when all cores wait for a lock that an unknown
call kept, `ThreadMemory` when memory has run out under a lock, `Terminal` when a
program holds the screen for which a handler waits, `CoreStart` and `Boot` when
the boot is over, `FileSystem` when its writes and failures are used up.

Fairness. `SpinLock`: a core executes the instructions it is at; nobody is
made to call. `Scheduler`: the same for the handler; the timer goes off again
and again (`WF` of `Interrupt`); taking a lock is strongly fair: the exchange
loop has no queue, so a single waiting core could lose every race, but as long as
no tick nests a lock is held for a few instructions of a timer period and no core
takes it twice in that time. All of it is asked only of cores in whose handler no
tick has come (`Goes`), and no tick has to nest. `HandlerReturns` and `ReadyRuns`
rest on this; both are claimed up to the first nested tick (`NoneNested`), after
which a lock may stay taken for ever. `CoreStart`: the boot
core runs alone with interrupts off, the others have nothing else to do.
`FileSystem`: a call of `WriteFile` goes on until it returns. `Terminal`: a
handler executes its instructions (`WF` of `Handle`); a program executes its own
between interrupts, again and again, though each one may come at once after the
last (`SF` of `ProgramStep`); locks are strongly fair for the reason given.
`HandlerReturns` is claimed there up to `Stuck`, the deadlock of a program that
was interrupted in a print, and up to the first nested tick. `Boot`: the boot core executes `CKernelEntry`
(`WF` of `Step`); no interrupt is made to come.

## 4. Proofs

All proofs are of the modules above with their constants left open; the
assumptions used are the named `ASSUME`s of the module, and where a theorem
needs more it says so (`0 \notin Sizes`, `"input" \notin Calls`). Every
invariant below was checked by TLC on a run's instance before it was proved.
Each proof has the same shape: lemmas about the values (entries, sequences,
counts), one lemma per part of the invariant with one step per action of
`Next`, then the theorem by the invariant.

* `SpinLock_proofs`: `TypeCorrect`, `LockInvariant`, `Mutex`, `Implements`.
  Mutual exclusion alone is not inductive: two cores whose exchange returned 0
  but which have not tested it yet would both enter. `LockInv` therefore makes
  ownership start at the exchange, and says that the word is 1 exactly while
  there is an owner and that a core about to exchange brings a 1.
* `Kmalloc_proofs`: `TypeCorrect`; `HeapInvariant`, `ChunksDisjoint`,
  `MemoryIsAccounted` and `Implements` under `0 \notin Sizes` (the run `KmallocZero` shows why). Chunks
  in use being disjoint is not inductive: a split or a join changes tables
  that nobody holds. `HeapInv` says that all tables with a size are disjoint
  and lie below `NextFreeMalloc`, that a table without a size is empty (so the
  tables that a search finds empty are), that each holder's chunk has a used
  table of the same size, also between unlock and return, and that no used
  table has two holders. It needs that only the spare list is being asked for
  during the boot (`OldListIdle`). The proof has one lemma per outcome of
  `Malloc` and `Free`, and per conjunct below it. `MemoryIsAccounted` needs that
  no step takes an address out of the tables' reach (`LosesNothing`), that an area
  once stepped over stays blocked when the array of areas moves, and that the
  holder of a chunk is the holder of its table (`UsedOwned`).
* `Terminal_proofs`: `OnePrinterAtATime` and `CursorStaysOnScreen`, for any
  cores, strings, letters and screen sizes. `OnePrinter` is inductive beside the
  places' types: whoever takes the lock finds it 0, so nobody is in the guarded
  part, and the history variable `crossed` tells when a `VGAInit` is. The cursor
  needs `CursorInv`: it is below `Limit` while nobody prints, before a
  character and before the unlock, at most at `Limit` after a character (a
  newline included: `NewLineBound`, the one lemma with division), and between
  `Limit` and a line more at a scroll. One lemma per step of `Console`; a step
  of `Terminal` is one of those, by the program or the handler of a core, or
  leaves the console alone.

* `Scheduler_proofs`: `CoresStayApart`, `FramesNeverMixed` and
  `CallerStaysCurrent` for any cores, threads and calls; `FramesAreKept`,
  `OnlyTheFirstFaults`, `ClosedThreadsStayClosed` (an action property) and
  `FamiliesAreKept` if no program reads the keyboard. That one thread is never
  executed by two cores says nothing about why: `IInv` adds that a thread is
  executed by the core it was given to (`OnItsCore`), that a core at work has
  the thread it executes as its current one, and this one is open
  (`RunsCurrent`), that an entry that looks as if it ran does run
  (`CurrentRuns`), so that `SwitchTask` may resume what it resumes, and that an
  entry without a frame is run by nobody (`NoFrameNoRun`). `NInv` says in
  addition whose frames are saved and unused (`OpenHasFrame`, `SavedIsFresh`).
  It is inductive only while nobody reads: the keyboard driver keeps a pointer
  into `ThreadArray`, through which the next Enter may set an entry that was
  closed, or reused, to restarting; the run `SchedulerInput` has such behaviours.
  `FInv`, for `FamiliesKept`, needs that nobody but slot 0 has two open children
  (`OneChild`), or the exit of one would wake the parent of the other.
  A tick in a handler changes nothing that these speak of: they hold of the cores in
  which none has come, however many others have stopped, and say nothing of what those do.
  The many branches of the code come down to nine kinds of step (`Quiet`,
  `Saves`, `Makes`, `Adopts`, `Exits`, `Pauses`, `RunsThread`, `Faults`,
  `GoesIdle`), of which the invariants are proved.
* `ThreadMemory_proofs`: `MemoryInvariant`, and from it `BlocksAreKept`,
  `LeaksAreKnown`, `OnlyHalfMadeBriefly`, `StaleReadsGood` and, for steps,
  `HangFreezesAll`. What a block is taken for does not follow from what is in
  use alone: `MInv` follows the array and the stack that `InitThread` has made
  but not published, and every pointer into an array that was freed
  (`PointersKept`): the block is as it was or has become counts, because no
  thread is made while another core is in a system call. `UInv` knows who has
  each block. The bound on the counts lost needs a count of the cores that are
  still making one (`CountsBounded`): cores that may yet start over are
  reckoned with in advance.
* Of the keyboard, also in `Terminal_proofs`: `KeyboardInvariant`, `PausedAreWoken`,
  `LinesArrive`, of `Terminal`, so with the locks and interrupts around the driver. `ReaderKept`
  follows the reader through `GetInput`'s stores, its sleep and the Enter's
  stores; `LineKept` says what part of the line is in the buffer at each of
  them, for lines and buffers of any length, from the byte that `GetInput` hands on.
  They are claimed while nothing has
  crossed a read (`disturbed`), a launch that moves the array included, the types
  always: then the index may run past a
  buffer that another thread has set, but only as far as `IndexNear` says.
* `CoreStart_proofs`: `StartInvariant`, and from it `CoresFindTheirPlace`,
  `TimersWait`, `StartHandsOver` and, for steps, `StatesFollow`; for any cores
  and any MADT. `Done` gives the states a place of `CoreStateList` may be in
  from where the boot core is with it; `AtPlace` says of a core at each place of
  its own. That all cores are ready, or idle at the end, needs to be known of
  the right ones: the boot core counts other LAPICs and starts timers for
  places 2 to that count. If its own LAPIC is not the first, the place it takes
  never answers, and the boot stops there (`AllAnswered`, by counting, with
  `Counted` and `BscListed`). `Ids` says that while no LAPIC so far was off the
  ids stored are those of the places, which `IDThandler` looks up at the first
  tick. In no table with a core off or listed twice does a timer start before
  the hand-shake is over: the theorems need no table to be sound.

* `Boot_proofs`: `TypeCorrect`, `FirmwareIsRead`, `RunsWhereGood` and
  `NoOtherAccidents`, for any machines, paths and number of resets; and
  `CheckSumIsSound`, of the pure function. `CheckSum` is recursive over bytes;
  `SetInduction` proves by induction over a *set* of numbers, which needs no
  operator as a parameter, that the recursion has a solution
  (`ByteSumExists`, `TotalExists`) and that the sum cut to a byte at each turn is
  the total's remainder. `EntriesAreListed` and `FindsFirst` say what the walk over
  an RSDT or XSDT finds, `OverrideFound` what the look-up of a built-in name does.
  That a boot that runs runs on a good machine needs to be known call by call:
  `BInv` says of each place of `CKernelEntry` what the calls before it have found
  (`MemoryFound`, `RsdpRead`, `RootRead`, `MadtRead`, `CoresCounted`,
  `DriverChosen`, `FilesFound`) and which interrupts can come there
  (`PicSilent`, `TableLoaded`, `TimerSafe`, `LocksKnown`), and of the LAPIC what address
  and mode it has (`LapicPlaced`, `LapicMode`), from which it follows who is waited for
  in vain (`WaitsRight`); each halt is then proved to be of a machine
  that lacks what the call asked for. The proof corrected the property: a machine
  needs its *first* MADT whole, not all of them, for the kernel does not look on.
* `FileSystem_proofs`: `FileSystemInvariant`, and from it `DiskStaysSound`,
  `FilesStayReadable` and, for steps, `TablesAreKept`; for any images, names,
  contents and numbers of writes and failures, from `ConstantsAssumption` and
  `ImagesAssumption`. `DiskInv` holds whatever is written over: the header is in its
  sector, the kernel's copy is ahead of it by what the file being made takes, and
  `job` fits the step. The rest, `ChainInv(w, r)`, is claimed while nothing in use
  was written over, of a sequence `w` of tables and a rank `r` of each. `w` is the
  chain: each table links to the next, the last to none, none comes twice
  (`IsWalk`). `Chain` is a recursive function of `MaxTables` places;
  `ChainIsWalk` shows by induction over a set of numbers that it is `w` and then
  stays at the last table. That the chain is whole is not inductive alone. Linking
  a new table needs to know that it is on the disk and not in the chain yet
  (`NewTableMade`), so that `w` gets longer by one at its end; it is the only step that
  changes `w`, hence `TablesKept`. That files are read back needs the sectors of each
  table to be nobody else's, no tables, and below what the disk's header calls
  free (`Apart`), and the same of those cut out of a free table before their own
  table is linked to (`CutOut`), which is what the order shrink, table, link,
  data, header is for. `Filed` matches files and versions: the files of a path in the order of the chain
  are the versions in theirs, so that a file removed brings the one before
  back (`FreedErased`: a free table has nobody's name). Sectors of a file
  that had a new home do not count as a table's own (`Owns`): its table names them
  counting twice from the header. What is known of a file when its data are written is
  only what the driver wrote into its own sectors (`AsWritten`). TLC checked this invariant
  within the run's bounds before it was proved, with `w` and `r` computed.

Only model-checked. Out of the prover's reach: liveness (`SomeoneGetsIn`,
`HandlerReturns`, `ReadyRuns`, `AllOnline`, `WriteReturns`, `BootEnds`). Not
proved: the refinement of `TextScreen`, whose `Page`, `FoldLeft` and `IntText`
are recursive over data (the text printed so far, in all interleavings, as a
page).

## 5. Where the code and what it says of itself part

Three runs are violated and listed in `PROJECT.json` with their lines: requests
for 0 bytes share an address with the next caller; a launch that moves the array of
threads leaves the keyboard driver with a pointer into freed memory, so that a
paused reader is not woken (`ReaderIsFound`, against `Ps2.cpp:29`, "make the thread
waits until the Ps2 system unpauses it"); a file with a new home leaves
the next free sector at its own table, which the next file cut out of freed
sectors writes over. After the last of these `ChainSound` and `FilesReadable` claim nothing
(`overwritten`): the walk goes round in a circle. The same happens when the
power fails between the link and the header.

Further observations of the models. Where a property had to be told of one, the
condition is named.

* Heap: a chunk that starts below a blocked area can reach into it, since
  `CheckIfOverlap` only looks at its first address.
* Threads: core 0 never saves a frame of its idle loop (`idt.cpp:472` does it
  only in state 4), so a core 0 without a thread to run loads what is no frame
  (`OnlyFirstCoreFaults`). A background program has slot 0 as its parent, so its exit
  lets that thread go on while it waits for another child (`ParentWaits` says so of all
  other slots). An Enter through the keyboard's old pointer lets a closed
  thread run again (`ClosedForGood` fails in `SchedulerInput`'s instance). A
  system call number without an entry keeps `SyscallSpinLock`.
* Thread memory: `Exit` never frees a stack (`LeaksKnown`), and may free what
  begins a page below the frame it saved (`damaged`), the array of threads
  among others. Counts are lost when cores make them at once, and by each
  interrupt while the first `Malloc` of the three fails (`FewLost`). Counting
  threads per core before there is a thread writes to address 0
  (`Thread.cpp:26`). `LoadAppNonBG`'s stale read is wrong only when a core's
  counts have taken the old array's place (`StaleReadGood`); then the number read may
  be no core's, and `Syscall.cpp:110` and 111 index arrays with it (`damaged`).
* Interrupts in a handler: the handler masks its core's LAPIC, but `CpuUnderLoad`
  switches it on again (`idt.cpp:501`, `LAPIC.cpp:379`), and every print ends with
  `sti` (`console.cpp:69`). A tick can then come in the handler of a system call with
  `SyscallSpinLock` or `Ps2SpinLock` taken, wait for that lock on its own core or
  switch away with it: `HandlerReturns` and `ReadyRuns` claim nothing from then on.
* Keyboard: an Enter between `GetInput`'s stores is lost, and a read that begins
  while another one is on takes its place; the first reader is then never woken
  (`disturbed`). `GetInput` hands on the address behind the buffer's with the size
  unchanged (`Syscall.cpp:129`), and the end of a line is put behind as many letters as
  the size says: of a buffer of n bytes the first is never written, and the driver goes
  two bytes over (`WithinBuffer`). The command line has 512 bytes and says 500.
* Console: `ClearScreen` stores into a lock that another core may hold
  (`crossed`), though its comment says "prevent prints from happening while the
  screen is being cleared" (`console.cpp:10`). A program that prints by itself can
  be interrupted with the lock (`Stuck`). Scrolling leaves the first character
  of the line it clears in place of the rest; an empty string prints what is
  behind its end.
* Boot: the old timer ticks until `ScanMadt`, and every print lets it in
  (`AccidentsKnown`); `ISSUES.md:4` tells of boots that hang at that point.
  The FPU's and the debug store's CPUID bits are tested for the MSR's and
  x2APIC's; in x2APIC mode all registers are written with 0, and with a core in
  it `AllOnline` of `CoreStart` fails, as it does for a LAPIC that is switched
  off but counted (`LAPIC.cpp:327`, `AllUsable`). Where MADT and CPU
  disagree on the LAPIC's address it is switched off, and so it is where they agree on
  one with bits that `init.cpp:62` masks off (`LapicAnswers`). With a LAPIC that is
  switched off, or in x2APIC mode, the boot waits for the other cores for ever
  (`LAPIC.cpp:281` to 322, 422), and on a machine of one core no timer ever starts the
  program (`RunsIfGood`, `BootEnds`). A letter typed during a print of the boot core while its
  timer is on stops that core, in its own lock (`AccidentsKnown`). Without
  a PCI device the kernel calls a null pointer. The second pass of the PCI
  scan leaves the last bus out and stores all devices in one place. Without a
  MADT the kernel halts with interrupts on.
* File system: no file with a new home can be read back, and cutting one of
  those writes data where the offset added twice leads, which on a file system
  of more than 258 sectors may be another file; of a file of several sectors the
  driver writes the second one behind its end. The image builder's comment says
  that the checksum is an xorshift (`FileSystem/CreateSystem.py:171`); both sides
  add up bytes.

## 6. Not modelled

* Allocation failures inside `StartLAPICS` and `AddOverwrite`'s callers, which
  halt or hang the kernel, and of `NumberThreadPerCore`, which only changes the
  core a thread is put on.
* What the interrupt counts count, the speed of the timer that is changed by them
  (`LAPIC.cpp:352-381`; that it is switched on there is modelled as something that may
  have happened before any system call), and `NumberSyscallsPerSecond` (`idt.cpp:594`, 633): it
  is written after all locks were given back, through an array another core may
  have freed. `ThreadMemory` says what may be there; a store that lands there is
  not followed.
* What a core does after a tick has come within its handler. The cores go on around
  it; the locks it had stay taken.
* A stale write of the keyboard has no effect on the array in `Scheduler`.
* `SetExitFunc` stores what nothing reads. `tasklist` and `HasThreadClosed` read
  `ThreadArray` without a lock and only print or return what they find.
* The boot core's id is 0: `ReadLAPICReg(0x20)` gives it in the upper byte, and
  the code compares it as it is (`LAPIC.cpp:195`, 263).
* IO-APIC: `StartIOAPICS` is commented out in `kernel.cpp:49` and nothing else
  calls into the driver but its own file. Paging: never set up
  (`kernel.cpp:53`), so `PagingSetup` stays 0.
* The BIOS calls, CPUID and port instructions, the boot loader and the build
  scripts: single instructions or straight lines whose effect is outside of the
  kernel (see `components` in `PROJECT.json`). Wording and layout of output.

## 7. Plan

Still to be done, in this order:

1. An abstract scheduler (each thread: ready, running on one core, waiting,
   closed) that `Scheduler` implements while nobody reads the keyboard.
2. As pure algorithms against a reference: the loop of `CheckIfOverlap`, the
   image builder's walk over the drive directory.
