---------------------------- MODULE Boot_proofs ----------------------------
(***************************************************************************)
(* Proofs about Boot: what the kernel goes by is what the firmware's       *)
(* tables say, it comes up exactly on the machines that have what it needs *)
(* and what may go wrong in between is known, for all machines and paths.  *)
(***************************************************************************)
EXTENDS Boot, FiniteSetTheorems, SequenceTheorems, WellFoundedInduction, TLAPS

(***************************************************************************)
(* Sets of numbers, and sums.                                              *)
(***************************************************************************)
(* A set of natural numbers that is not empty has a least element.         *)
LEMMA Least ==
  ASSUME NEW T, T \subseteq Nat, T # {}
  PROVE  \E x \in T : \A y \in T : x <= y
<1> DEFINE R == OpToRel(<, Nat)
<1>1. IsWellFoundedOn(R, Nat)
  BY NatLessThanWellFounded, Zenon
<1>2. \A x, y \in Nat : x < y => <<x, y>> \in R
  BY DEF OpToRel
<1> HIDE DEF R
<1>3. PICK x \in T : \A y \in T : ~ (<<y, x>> \in R)
  BY <1>1, WFMin
<1>4. ASSUME NEW y \in T PROVE x <= y
  <2>1. x \in Nat /\ y \in Nat
    OBVIOUS
  <2>2. ~(y < x)
    BY <1>2, <1>3, <2>1
  <2> QED BY <2>1, <2>2
<1> QED BY <1>4

(* Induction, over a set: what holds of 0 and goes on holds of all.        *)
LEMMA SetInduction ==
  ASSUME NEW S, 0 \in S, \A n \in Nat : n \in S => n + 1 \in S
  PROVE  Nat \subseteq S
<1> DEFINE T == Nat \ S
<1> SUFFICES ASSUME T # {} PROVE FALSE
  OBVIOUS
<1>1. PICK x \in T : \A y \in T : x <= y
  BY Least
<1>2. x # 0 /\ x \in Nat
  OBVIOUS
<1>3. x - 1 \in Nat /\ x - 1 \notin T
  BY <1>1, <1>2
<1>4. (x - 1) + 1 \in S
  BY <1>3
<1> QED BY <1>2, <1>4

(* The sums of the bytes, cut to a byte or not, up to each of them.        *)
IsByteSum(sum, bytes, m) ==
  sum = [n \in 0..m |-> IF n = 0 THEN 0 ELSE (sum[n - 1] + bytes[n]) % 256]

IsTotal(total, bytes, m) ==
  total = [n \in 0..m |-> IF n = 0 THEN 0 ELSE total[n - 1] + bytes[n]]

(* Both are defined by recursion, that is, there are such functions.       *)
LEMMA ByteSumExists ==
  ASSUME NEW bytes
  PROVE  \A m \in Nat : \E sum : IsByteSum(sum, bytes, m)
<1> DEFINE S == {m \in Nat : \E sum : IsByteSum(sum, bytes, m)}
<1>1. 0 \in S
  <2>1. IsByteSum([n \in 0..0 |-> 0], bytes, 0)
    BY DEF IsByteSum
  <2> QED BY <2>1
<1>2. ASSUME NEW m \in Nat, m \in S PROVE m + 1 \in S
  <2>1. PICK sum : IsByteSum(sum, bytes, m)
    BY <1>2
  <2> DEFINE next == [n \in 0..(m + 1) |-> IF n = m + 1 THEN (sum[m] + bytes[m + 1]) % 256
                                                        ELSE sum[n]]
  <2>2. \A n \in 0..m : sum[n] = IF n = 0 THEN 0 ELSE (sum[n - 1] + bytes[n]) % 256
    BY <2>1 DEF IsByteSum
  <2>3. \A n \in 0..m : next[n] = sum[n]
    BY <1>2
  <2>4. next[m + 1] = (next[m] + bytes[m + 1]) % 256
    BY <1>2, <2>3
  <2>5. ASSUME NEW n \in 0..(m + 1)
        PROVE  next[n] = IF n = 0 THEN 0 ELSE (next[n - 1] + bytes[n]) % 256
    <3> HIDE DEF next
    <3>1. CASE n = m + 1
      BY <2>4, <3>1
    <3>2. CASE n # m + 1
      <4>1. n \in 0..m /\ (n # 0 => n - 1 \in 0..m)
        BY <3>2
      <4> QED BY <2>2, <2>3, <4>1
    <3> QED BY <3>1, <3>2
  <2>6. IsByteSum(next, bytes, m + 1)
    BY <2>5 DEF IsByteSum
  <2> QED BY <2>6
<1> HIDE DEF S
<1>3. Nat \subseteq S
  BY <1>1, <1>2, SetInduction
<1> QED BY <1>3 DEF S

LEMMA TotalExists ==
  ASSUME NEW bytes
  PROVE  \A m \in Nat : \E total : IsTotal(total, bytes, m)
<1> DEFINE S == {m \in Nat : \E total : IsTotal(total, bytes, m)}
<1>1. 0 \in S
  <2>1. IsTotal([n \in 0..0 |-> 0], bytes, 0)
    BY DEF IsTotal
  <2> QED BY <2>1
<1>2. ASSUME NEW m \in Nat, m \in S PROVE m + 1 \in S
  <2>1. PICK total : IsTotal(total, bytes, m)
    BY <1>2
  <2> DEFINE next == [n \in 0..(m + 1) |-> IF n = m + 1 THEN total[m] + bytes[m + 1]
                                                        ELSE total[n]]
  <2>2. \A n \in 0..m : total[n] = IF n = 0 THEN 0 ELSE total[n - 1] + bytes[n]
    BY <2>1 DEF IsTotal
  <2>3. \A n \in 0..m : next[n] = total[n]
    BY <1>2
  <2>4. next[m + 1] = next[m] + bytes[m + 1]
    BY <1>2, <2>3
  <2>5. ASSUME NEW n \in 0..(m + 1)
        PROVE  next[n] = IF n = 0 THEN 0 ELSE next[n - 1] + bytes[n]
    <3> HIDE DEF next
    <3>1. CASE n = m + 1
      BY <2>4, <3>1
    <3>2. CASE n # m + 1
      <4>1. n \in 0..m /\ (n # 0 => n - 1 \in 0..m)
        BY <3>2
      <4> QED BY <2>2, <2>3, <4>1
    <3> QED BY <3>1, <3>2
  <2>6. IsTotal(next, bytes, m + 1)
    BY <2>5 DEF IsTotal
  <2> QED BY <2>6
<1> HIDE DEF S
<1>3. Nat \subseteq S
  BY <1>1, <1>2, SetInduction
<1> QED BY <1>3 DEF S

(* CheckSum (Apic/init.cpp) adds in a byte and so finds out whether the    *)
(* bytes add up to a multiple of 256, however many they are.               *)
THEOREM CheckSumIsSound ==
  ASSUME NEW bytes, bytes \in Seq(Byte)
  PROVE  CheckSum(bytes) <=> IsSound(bytes)
<1> DEFINE m == Len(bytes)
           sum == CHOOSE f : IsByteSum(f, bytes, m)
           total == CHOOSE f : IsTotal(f, bytes, m)
<1>1. m \in Nat /\ \A n \in Nat : n + 1 <= m => bytes[n + 1] \in Nat
  <2>1. Len(bytes) \in Nat /\ \A k \in 1..Len(bytes) : bytes[k] \in Byte
    BY ElementOfSeq, LenProperties
  <2>2. \A k \in 1..Len(bytes) : bytes[k] \in Nat
    <3>1. Byte \subseteq Nat
      BY DEF Byte
    <3> QED BY <2>1, <3>1
  <2>3. ASSUME NEW n \in Nat, n + 1 <= Len(bytes) PROVE n + 1 \in 1..Len(bytes)
    BY <2>1, <2>3
  <2> QED BY <2>1, <2>2, <2>3
<1>2. IsByteSum(sum, bytes, m) /\ IsTotal(total, bytes, m)
  BY <1>1, ByteSumExists, TotalExists
<1>3. CheckSum(bytes) <=> sum[m] = 0
  BY DEF CheckSum, IsByteSum
<1>4. IsSound(bytes) <=> total[m] % 256 = 0
  BY DEF IsSound, IsTotal
<1> HIDE DEF m, sum, total
<1>5. \A n \in 0..m : /\ sum[n] = IF n = 0 THEN 0 ELSE (sum[n - 1] + bytes[n]) % 256
                      /\ total[n] = IF n = 0 THEN 0 ELSE total[n - 1] + bytes[n]
  BY <1>2 DEF IsByteSum, IsTotal
<1> DEFINE S == {n \in Nat : n <= m => total[n] \in Nat /\ sum[n] = total[n] % 256}
<1>6. 0 \in S
  BY <1>1, <1>5
<1>7. ASSUME NEW n \in Nat, n \in S PROVE n + 1 \in S
  <2> SUFFICES ASSUME n + 1 <= m
               PROVE  total[n + 1] \in Nat /\ sum[n + 1] = total[n + 1] % 256
    OBVIOUS
  <2>1. total[n] \in Nat /\ sum[n] = total[n] % 256
    <3>1. n <= m
      BY <1>1
    <3> QED BY <1>7, <3>1
  <2>2. bytes[n + 1] \in Nat
    BY <1>1
  <2>3. n + 1 \in 0..m /\ n + 1 # 0 /\ (n + 1) - 1 = n
    BY <1>1
  <2>4. total[n + 1] = total[n] + bytes[n + 1] /\ sum[n + 1] = (sum[n] + bytes[n + 1]) % 256
    BY <1>5, <2>3
  <2>5. \A a, b \in Nat : ((a % 256) + b) % 256 = (a + b) % 256
    OBVIOUS
  <2>6. sum[n + 1] = ((total[n] % 256) + bytes[n + 1]) % 256
    BY <2>1, <2>4
  <2>7. sum[n + 1] = (total[n] + bytes[n + 1]) % 256
    BY ONLY <2>1, <2>2, <2>5, <2>6
  <2>8. total[n + 1] \in Nat
    BY <2>1, <2>2, <2>4
  <2> QED BY <2>4, <2>7, <2>8
<1> HIDE DEF S
<1>8. Nat \subseteq S
  BY <1>6, <1>7, SetInduction
<1>9. sum[m] = total[m] % 256
  BY <1>1, <1>8 DEF S
<1> QED BY <1>3, <1>4, <1>9
-----------------------------------------------------------------------------
(***************************************************************************)
(* The root table.                                                         *)
(***************************************************************************)
Version(m) == m.rom[FindRDSP(m.rom)].revision

(* Where the address is that FindRSDTEntryWithSig meets as the k-th.       *)
PlaceOf(m, k) == IF Version(m) > 1 THEN 2 * k - 1 ELSE k

(* What the assumptions say of a machine with a place signed "RSD PTR ".   *)
LEMMA MachineFacts ==
  ASSUME NEW m \in Machines, FindRDSP(m.rom) # 0
  PROVE  /\ FindRDSP(m.rom) \in DOMAIN m.rom
         /\ Version(m) \in Nat /\ m.rom[FindRDSP(m.rom)].bytes \in Seq(Byte)
         /\ Root(m) \in Range(m.tables)
         /\ Root(m).bytes \in Seq(Byte) /\ Root(m).words \in Seq(DOMAIN m.tables)
<1> DEFINE rom == m.rom
           hits == {n \in DOMAIN rom : rom[n].signed}
<1>1. hits # {} /\ FindRDSP(rom) = CHOOSE n \in hits : \A h \in hits : n <= h
  BY DEF FindRDSP
<1>2. hits \subseteq Nat
  BY BootAssumption
<1> HIDE DEF hits
<1>3. \E n \in hits : \A h \in hits : n <= h
  BY <1>1, <1>2, Least
<1>4. FindRDSP(rom) \in hits
  BY <1>1, <1>3
<1>5. FindRDSP(rom) \in DOMAIN rom
  BY <1>4 DEF hits
<1> DEFINE p == rom[FindRDSP(rom)]
<1>6. p \in Range(rom)
  BY <1>5 DEF Range
<1>7. p.revision \in Nat /\ p.bytes \in Seq(Byte) /\ {p.rsdt, p.xsdt} \subseteq DOMAIN m.tables
  BY <1>6, BootAssumption
<1>8. Root(m) \in Range(m.tables)
  BY <1>7 DEF Root, Range
<1> QED BY <1>5, <1>7, <1>8, BootAssumption DEF Version

LEMMA TableFacts ==
  ASSUME NEW m \in Machines, NEW t \in DOMAIN m.tables
  PROVE  /\ m.tables[t].sig = "APIC" => m.tables[t].dual = m.dual
         /\ m.tables[t].bytes \in Seq(Byte) /\ m.tables[t].cores \in Nat
         /\ m.tables[t].lapic \in Nat /\ t # Null
<1>1. m.tables[t] \in Range(m.tables)
  BY DEF Range
<1> QED BY <1>1, BootAssumption

(* The entries that are kept are those listed, in their order.             *)
LEMMA EntriesAreListed ==
  ASSUME NEW m \in Machines, FindRDSP(m.rom) # 0
  PROVE  LET ptrs == Entries(Root(m).words, Version(m))
         IN  /\ DOMAIN ptrs \subseteq Nat
             /\ \A k \in DOMAIN ptrs : /\ PlaceOf(m, k) \in Listed(m)
                                       /\ ptrs[k] = Root(m).words[PlaceOf(m, k)]
             /\ \A n \in Listed(m) : \E k \in DOMAIN ptrs : n = PlaceOf(m, k)
             /\ Listed(m) \subseteq Nat
<1> DEFINE words == Root(m).words
           ptrs == Entries(words, Version(m))
           len == Len(words)
<1>1. /\ Version(m) \in Nat /\ len \in Nat
      /\ DOMAIN words = 1..len
  BY MachineFacts, LenProperties
<1>2. Listed(m) = {n \in 1..len : Version(m) > 1 => n % 2 = 1 /\ n + 1 \in 1..len}
  BY <1>1 DEF Listed, Version
<1>3. CASE Version(m) <= 1
  <2>1. ptrs = words
    BY <1>3 DEF Entries
  <2>2. Listed(m) = 1..len /\ \A k : PlaceOf(m, k) = k
    BY <1>1, <1>2, <1>3 DEF PlaceOf
  <2> QED BY <1>1, <2>1, <2>2
<1>4. CASE Version(m) > 1
  <2>1. ptrs = [k \in 1..(len \div 2) |-> words[2 * k - 1]]
    BY <1>1, <1>4 DEF Entries
  <2>2. \A k : PlaceOf(m, k) = 2 * k - 1
    BY <1>4 DEF PlaceOf
  <2> HIDE DEF words, ptrs, len
  <2>3. DOMAIN ptrs = 1..(len \div 2) /\ \A k \in 1..(len \div 2) : ptrs[k] = words[2 * k - 1]
    BY <2>1
  <2>4. ASSUME NEW k \in 1..(len \div 2)
        PROVE  /\ 2 * k - 1 \in 1..len /\ (2 * k - 1) % 2 = 1
               /\ (2 * k - 1) + 1 \in 1..len
    BY <1>1
  <2>5. ASSUME NEW n \in 1..len, n % 2 = 1, n + 1 \in 1..len
        PROVE  \E k \in 1..(len \div 2) : n = 2 * k - 1
    <3>1. (n + 1) \div 2 \in 1..(len \div 2) /\ n = 2 * ((n + 1) \div 2) - 1
      BY <1>1, <2>5
    <3> QED BY <3>1
  <2>6. \A k \in 1..(len \div 2) : 2 * k - 1 \in Listed(m)
    BY <1>2, <2>4
  <2>7. \A n \in Listed(m) : \E k \in 1..(len \div 2) : n = 2 * k - 1
    BY <1>2, <1>4, <2>5
  <2>8. Listed(m) \subseteq Nat /\ 1..(len \div 2) \subseteq Nat
    BY <1>1, <1>2
  <2> QED BY <2>2, <2>3, <2>6, <2>7, <2>8 DEF words, ptrs
<1> QED BY <1>1, <1>3, <1>4

(* PlaceOf keeps the order.                                                *)
LEMMA PlacesInOrder ==
  ASSUME NEW m, Version(m) \in Nat, NEW j \in Nat, NEW k \in Nat
  PROVE  PlaceOf(m, j) <= PlaceOf(m, k) <=> j <= k
  BY DEF PlaceOf

(* Two firsts are one.                                                     *)
LEMMA FirstIsOne ==
  ASSUME NEW m \in Machines, FindRDSP(m.rom) # 0, NEW j, NEW k,
         FirstMadt(m, j), FirstMadt(m, k)
  PROVE  j = k
<1>1. Listed(m) \subseteq Nat
  BY EntriesAreListed
<1> QED BY <1>1 DEF FirstMadt

(* FindRSDTEntryWithSig gives the first MADT listed, or nothing if there   *)
(* is none or its sum is wrong.                                            *)
LEMMA FindsFirst ==
  ASSUME machine \in Machines, FindRDSP(machine.rom) # 0,
         EntryPtrs = Entries(Root(machine).words, Version(machine))
  PROVE  LET t == FindRSDTEntryWithSig(EntryPtrs, "APIC")
         IN  /\ t # Null =>
                  \E n \in Listed(machine) : /\ FirstMadt(machine, n)
                                             /\ t = Root(machine).words[n]
                                             /\ IsSound(Table(t).bytes)
             /\ t = Null => ~MadtGood(machine)
<1> DEFINE m == machine
           words == Root(m).words
           hits == {k \in DOMAIN EntryPtrs : Table(EntryPtrs[k]).sig = "APIC"}
           k == CHOOSE n \in hits : \A h \in hits : n <= h
           t == EntryPtrs[k]
           found == FindRSDTEntryWithSig(EntryPtrs, "APIC")
<1>1. /\ DOMAIN EntryPtrs \subseteq Nat
      /\ \A j \in DOMAIN EntryPtrs : /\ PlaceOf(m, j) \in Listed(m)
                                     /\ EntryPtrs[j] = words[PlaceOf(m, j)]
      /\ \A n \in Listed(m) : \E j \in DOMAIN EntryPtrs : n = PlaceOf(m, j)
      /\ Listed(m) \subseteq Nat
  BY EntriesAreListed
<1>2. found = IF hits = {} THEN Null ELSE IF CheckSum(Table(t).bytes) THEN t ELSE Null
  BY DEF FindRSDTEntryWithSig
<1>3. \A j \in DOMAIN EntryPtrs : j \in hits <=> IsMadt(m, PlaceOf(m, j))
  BY <1>1 DEF IsMadt, Table
<1>4. hits \subseteq DOMAIN EntryPtrs
  OBVIOUS
<1>5. Version(m) \in Nat
  BY MachineFacts
<1>6. CASE hits = {}
  <2>1. ASSUME NEW n \in Listed(m), FirstMadt(m, n) PROVE FALSE
    BY <1>1, <1>3, <1>6, <2>1 DEF FirstMadt
  <2> QED BY <1>2, <1>6, <2>1 DEF MadtGood
<1>7. CASE hits # {}
  <2>1. \E n \in hits : \A h \in hits : n <= h
    BY <1>1, <1>4, <1>7, Least
  <2>2. k \in hits /\ \A h \in hits : k <= h
    BY <2>1
  <2> HIDE DEF hits, k
  <2>3. FirstMadt(m, PlaceOf(m, k)) /\ PlaceOf(m, k) \in Listed(m) /\ t = words[PlaceOf(m, k)]
    <3>1. k \in DOMAIN EntryPtrs /\ k \in Nat
      BY <1>1, <1>4, <2>2
    <3>2. ASSUME NEW n \in Listed(m), IsMadt(m, n) PROVE PlaceOf(m, k) <= n
      <4>1. PICK j \in DOMAIN EntryPtrs : n = PlaceOf(m, j)
        BY <1>1
      <4>2. j \in hits /\ j \in Nat
        BY <1>1, <1>3, <3>2, <4>1
      <4> QED BY <1>5, <2>2, <3>1, <4>1, <4>2, PlacesInOrder
    <3> QED BY <1>1, <1>3, <2>2, <3>1, <3>2 DEF FirstMadt
  <2>4. t \in DOMAIN m.tables
    <3>1. words \in Seq(DOMAIN m.tables)
      BY MachineFacts
    <3>2. PlaceOf(m, k) \in 1..Len(words)
      BY <2>3, <3>1, LenProperties DEF Listed
    <3> QED BY <2>3, <3>1, <3>2, ElementOfSeq
  <2>5. t # Null /\ Table(t).bytes \in Seq(Byte)
    BY <2>4, TableFacts DEF Table
  <2>6. CheckSum(Table(t).bytes) <=> IsSound(Table(t).bytes)
    BY <2>5, CheckSumIsSound
  <2>7. CASE IsSound(Table(t).bytes)
    <3>1. found = t
      BY <1>2, <1>7, <2>6, <2>7
    <3> QED BY <2>3, <2>5, <2>7, <3>1
  <2>8. CASE ~IsSound(Table(t).bytes)
    <3>1. found = Null
      BY <1>2, <1>7, <2>6, <2>8
    <3>2. ASSUME NEW n \in Listed(m), FirstMadt(m, n), IsSound(m.tables[words[n]].bytes)
          PROVE  FALSE
      <4>1. n = PlaceOf(m, k)
        BY <2>3, <3>2, FirstIsOne
      <4> QED BY <2>3, <2>8, <3>2, <4>1 DEF Table
    <3> QED BY <3>1, <3>2 DEF MadtGood
  <2> QED BY <2>7, <2>8
<1> QED BY <1>6, <1>7
-----------------------------------------------------------------------------
(***************************************************************************)
(* The inductive invariant: what each call of CKernelEntry has found, and  *)
(* in which state of the interrupts it is made.                            *)
(***************************************************************************)
FromHandlers == {"handlers", "timer", "release", "fsPrint", "fsBuffer", "fs", "app"}
FromPci    == {"pci"} \cup FromHandlers
FromCores  == {"cores", "waits"} \cup FromPci
FromMadt   == {"madt", "address"} \cup FromCores
FromNeeded == {"needed"} \cup FromMadt
FromRsdt   == {"rsdt"} \cup FromNeeded
FromIdt    == {"idt", "apic"} \cup FromRsdt

(* The boot goes on exactly until it has ended.                            *)
EndIsEnd == outcome = "booting" <=> pc # "ended"

MemoryFound == pc \in FromIdt => machine.memory

RsdpRead ==
  pc \in FromRsdt => /\ machine.ds => machine.x2apic
                     /\ RsdpGood(machine)
                     /\ RdspPtr = FindRDSP(machine.rom)
                     /\ AcpiVersionNumber = Version(machine)

RootRead == pc \in FromNeeded => /\ EntryPtrs = Entries(Root(machine).words, Version(machine))
                                 /\ IsSound(Root(machine).bytes)

(* The first MADT listed, and whole.                                       *)
IsChosen(m, t) == /\ \E n \in Listed(m) : FirstMadt(m, n) /\ t = Root(m).words[n]
                  /\ IsSound(m.tables[t].bytes)

MadtRead == pc \in FromMadt => IsChosen(machine, MadtTable)

CoresCounted == pc \in FromPci => /\ NumberCores = machine.tables[MadtTable].cores
                                  /\ NumberCores > 0

DriverChosen == pc \in FromHandlers => /\ BootDiskRead = Null <=> machine.pci = {}
                                       /\ machine.pci # {} => machine.disk

FilesFound == pc = "app" => machine.pci # {} /\ machine.fs

(* The old controller is silent once ScanMadt is done.                     *)
PicSilent == /\ pic \in {OldPic(machine), "masked"}
             /\ pc \in {"address"} \cup FromCores => pic # "open"

(* The kernel has its own table before it asks where the LAPIC is.         *)
TableLoaded == idt = "firmware" => pc \in {"video", "heap", "idt"} \/ outcome = "no memory"

(* The LAPIC is where the CPU has it, and on, unless ScanMadt puts it      *)
(* elsewhere; the kernel's address is the masked one, or none without the  *)
(* CPUID bit (in each life: after a reset too).                            *)
LapicPlaced ==
  /\ pc \notin {"ended"} \cup FromCores =>
       /\ msr.base = machine.base /\ msr.enabled
       /\ ~machine.fpu => LAPICREGAddr = 0
  /\ pc \in {"rsdt", "needed", "madt", "address"} /\ machine.fpu =>
       LAPICREGAddr = machine.base - (machine.base % 16)

(* A LAPIC that is on is in the mode that Apic::init has put it in.        *)
LapicMode == pc \in FromRsdt /\ msr.enabled => msr.x2 = machine.ds

WaitsRight == pc = "waits" => ~LapicGood(machine)

(* The timer goes off only when it is safe, but for the locks.             *)
TimerSafe ==
  /\ timer => /\ outcome # "no MADT"
              /\ outcome = "booting" => pc \in {"release", "fsPrint", "fsBuffer", "fs", "waits"}
  /\ pc \in {"timer", "release", "fsPrint", "fsBuffer", "fs"} => handlers

(* No lock is taken but by a print, by the one Malloc or by an earlier     *)
(* life, and never the screen's and the heap's at a time.                  *)
LocksKnown ==
  /\ Ps2SpinLock = 1 /\ outcome # "screen" => machine.kept /\ lives > 1
  /\ pc \in FromIdt \ {"fs"} => MallocSpinLock = 0
  /\ pc = "fs" => VgaSpinLock = 0

(* How it has ended is what the machine is good for.                       *)
EndIsRight == outcome \notin {"booting"} \cup Accidents => (outcome = "runs" <=> Good(machine))

BInv == /\ EndIsEnd /\ MemoryFound /\ RsdpRead /\ RootRead /\ MadtRead /\ CoresCounted
        /\ DriverChosen /\ FilesFound
        /\ PicSilent /\ TableLoaded /\ LapicPlaced /\ LapicMode /\ TimerSafe /\ LocksKnown
        /\ LapicAnswers /\ WaitsRight /\ AccidentsKnown /\ EndIsRight /\ BuiltinsLoaded
-----------------------------------------------------------------------------
(***************************************************************************)
(* The files.                                                              *)
(***************************************************************************)
(* The names of the built-in programs have five lengths, so the search     *)
(* finds each under its own, and nothing else.                             *)
LEMMA OverrideFound ==
  ASSUME NEW p \in Paths
  PROVE  /\ p.text \in DOMAIN Builtin => /\ FindOverride(p) # 0
                                         /\ OverrideAddr[FindOverride(p)] = Builtin[p.text]
         /\ p.text \notin DOMAIN Builtin => FindOverride(p) = 0
<1> DEFINE Same(n) == OverrideArray[n].size = p.size
           stays(n) == {k \in 1..n : Same(k)}
           at(n) == IF stays(n) = {} THEN n
                    ELSE CHOOSE k \in stays(n) : \A j \in stays(n) : k <= j
           hits == {n \in DOMAIN OverrideArray : OverrideArray[at(n)] = p}
<1>1. FindOverride(p) = IF hits = {} THEN 0 ELSE CHOOSE n \in hits : \A h \in hits : n <= h
  BY DEF FindOverride
<1>2. /\ DOMAIN OverrideArray = 1..5
      /\ OverrideArray[1] = Path("/CommandLine.jexe", 17)
      /\ OverrideArray[2] = Path("/WatchDog.jexe", 14)
      /\ OverrideArray[3] = Path("/tl.jexe", 8)
      /\ OverrideArray[4] = Path("/help.jexe", 10)
      /\ OverrideArray[5] = Path("/contri.jexe", 12)
  BY DEF OverrideArray
<1>3. \A i, j \in 1..5 : OverrideArray[i].size = OverrideArray[j].size => i = j
  BY <1>2 DEF Path
<1>4. p = Path(p.text, p.size)
  BY PathAssumption
<1>5. ASSUME NEW i \in 1..5, p = OverrideArray[i]
      PROVE  FindOverride(p) = i
  <2>1. \A k \in 1..5 : Same(k) <=> k = i
    BY <1>3, <1>5
  <2>2. \A n \in 1..5 : stays(n) = IF i <= n THEN {i} ELSE {}
    BY <2>1
  <2> HIDE DEF stays
  <2>3. \A n \in 1..5 : at(n) = IF i <= n THEN i ELSE n
    BY <2>2
  <2> HIDE DEF at
  <2>4. \A n \in 1..5 : OverrideArray[at(n)] = p <=> i <= n
    <3>1. \A n \in 1..5 : OverrideArray[n] = OverrideArray[i] => n = i
      BY <1>3
    <3> QED BY <1>5, <2>3, <3>1
  <2>5. hits = {n \in 1..5 : i <= n}
    BY <1>2, <2>4
  <2>6. i \in hits /\ \A h \in hits : i <= h
    BY <2>5
  <2>7. \A n \in hits : (\A h \in hits : n <= h) => n = i
    BY <2>5
  <2> HIDE DEF hits
  <2> QED BY <1>1, <2>6, <2>7
<1>6. ASSUME \A i \in 1..5 : p # OverrideArray[i]
      PROVE  FindOverride(p) = 0
  <2>1. ASSUME NEW n \in 1..5 PROVE at(n) \in 1..5
    <3>1. CASE stays(n) = {}
      BY <3>1
    <3>2. CASE stays(n) # {}
      <4>1. stays(n) \subseteq Nat /\ stays(n) \subseteq 1..5
        OBVIOUS
      <4> HIDE DEF stays
      <4>2. \E k \in stays(n) : \A j \in stays(n) : k <= j
        BY <3>2, <4>1, Least
      <4> QED BY <3>2, <4>1, <4>2
    <3> QED BY <3>1, <3>2
  <2> HIDE DEF at
  <2>2. hits = {}
    BY <1>2, <1>6, <2>1
  <2> QED BY <1>1, <2>2
<1> HIDE DEF hits, at, stays, Same
<1>7. \A i \in 1..5 : p.text = OverrideArray[i].text => p = OverrideArray[i]
  <2>1. \A i \in 1..5 : OverrideArray[i] \in Range(OverrideArray)
    BY <1>2 DEF Range
  <2>2. \A i \in 1..5 : OverrideArray[i] = Path(OverrideArray[i].text, OverrideArray[i].size)
    BY <1>2 DEF Path
  <2> QED BY <1>4, <2>1, <2>2, PathAssumption
<1>8. p.text \in DOMAIN Builtin <=> \E i \in 1..5 : p.text = OverrideArray[i].text
  BY <1>2 DEF Builtin, Path
<1>9. \A i \in 1..5 : OverrideAddr[i] = Builtin[OverrideArray[i].text]
  BY <1>2 DEF Builtin, OverrideAddr, Path
<1>10. CASE p.text \in DOMAIN Builtin
  <2>1. PICK i \in 1..5 : p.text = OverrideArray[i].text
    BY <1>8, <1>10
  <2>2. FindOverride(p) = i
    BY <1>5, <1>7, <2>1
  <2> QED BY <1>9, <1>10, <2>1, <2>2
<1>11. CASE p.text \notin DOMAIN Builtin
  <2>1. \A i \in 1..5 : p # OverrideArray[i]
    BY <1>8, <1>11
  <2> QED BY <1>6, <1>11, <2>1
<1> QED BY <1>10, <1>11

LEMMA FileRead ==
  ASSUME NEW p \in Paths
  PROVE  ReadFile(p) = IF p.text \in DOMAIN Builtin THEN Builtin[p.text]
                       ELSE IF p \in machine.files THEN p.text ELSE Null
  BY OverrideFound DEF ReadFile

(* The start-up program is a file of its own name.                         *)
LEMMA StartUpRead ==
  /\ ReadFile(StartUpApp) = IF StartUpApp \in machine.files THEN StartUpApp.text ELSE Null
  /\ StartUpApp.text # Null
<1>1. StartUpApp \in Paths /\ StartUpApp.text = "/TestApp.jexe"
  BY BootAssumption DEF StartUpApp, Path
<1>2. StartUpApp.text \notin DOMAIN Builtin
  BY <1>1 DEF Builtin
<1> QED BY <1>1, <1>2, FileRead DEF Null
-----------------------------------------------------------------------------
(***************************************************************************)
(* The types.                                                              *)
(***************************************************************************)
LEMMA Lives == MaxLives \in Nat \ {0}
  BY BootAssumption

LEMMA TypeInit == Init => TypeOK
<1> SUFFICES ASSUME Init PROVE TypeOK
  OBVIOUS
<1>1. lives \in 1..MaxLives
  BY Lives DEF Init
<1>2. /\ DOMAIN msr = {"base", "enabled", "x2"}
      /\ msr.enabled \in BOOLEAN /\ msr.x2 \in BOOLEAN
  BY DEF Init, PowerOn
<1>3. timer \in BOOLEAN /\ handlers \in BOOLEAN /\ AvgCoreSpeed \in BOOLEAN
  BY DEF Init
<1>4. /\ NumberCores \in Nat /\ NumberPCIDevices \in Nat /\ BootDiskRead \in {Null, "backup"}
      /\ {MallocSpinLock, Ps2SpinLock, VgaSpinLock} \subseteq {0, 1}
  BY DEF Init
<1> QED BY <1>1, <1>2, <1>3, <1>4 DEF Init, TypeOK, PCs, OldPic

LEMMA ResetTypes ==
  ASSUME TypeOK, NEW heap \in {0, 1}, NEW ps2 \in {0, 1}, NEW vga \in {0, 1},
         Reset(heap, ps2, vga)
  PROVE  TypeOK'
<1>1. lives' \in 1..MaxLives
  <2>1. lives \in 1..MaxLives
    BY DEF TypeOK
  <2>2. lives < MaxLives /\ lives' = lives + 1
    BY DEF Reset
  <2> QED BY <2>1, <2>2, Lives
<1>2. /\ DOMAIN msr' = {"base", "enabled", "x2"}
      /\ msr'.enabled \in BOOLEAN /\ msr'.x2 \in BOOLEAN
  BY DEF Reset, PowerOn
<1>3. timer' \in BOOLEAN /\ handlers' \in BOOLEAN /\ AvgCoreSpeed' \in BOOLEAN
  BY DEF Reset, TypeOK
<1>4. /\ NumberCores' \in Nat /\ NumberPCIDevices' \in Nat
      /\ BootDiskRead' \in {Null, "backup"}
  <2>1. CASE machine.kept
    BY <2>1 DEF Reset, TypeOK, deviceVars
  <2>2. CASE ~machine.kept
    BY <2>2 DEF Reset
  <2> QED BY <2>1, <2>2
<1> QED BY <1>1, <1>2, <1>3, <1>4 DEF Reset, TypeOK, PCs, OldPic

(* The MADT that was chosen is one of the machine's tables.                *)
LEMMA MadtFacts ==
  ASSUME TypeOK, BInv, pc \in FromMadt
  PROVE  /\ MadtTable \in DOMAIN machine.tables /\ MadtTable \in Meant(machine)
         /\ Table(MadtTable).sig = "APIC" /\ Table(MadtTable).dual = machine.dual
         /\ Table(MadtTable).cores \in Nat /\ Table(MadtTable).lapic \in Nat
         /\ FindRDSP(machine.rom) # 0 /\ machine \in Machines
<1>1. machine \in Machines /\ FindRDSP(machine.rom) # 0
  BY DEF TypeOK, BInv, RsdpRead, RsdpGood, FromMadt, FromRsdt, FromNeeded
<1>2. PICK n \in Listed(machine) : /\ FirstMadt(machine, n)
                                   /\ MadtTable = Root(machine).words[n]
  BY DEF BInv, MadtRead, IsChosen
<1>3. Root(machine).words \in Seq(DOMAIN machine.tables)
  BY <1>1, MachineFacts
<1>4. n \in 1..Len(Root(machine).words)
  BY <1>3, LenProperties DEF Listed
<1>5. MadtTable \in DOMAIN machine.tables
  BY <1>2, <1>3, <1>4, ElementOfSeq
<1>6. MadtTable \in Meant(machine)
  BY <1>2 DEF Meant
<1>7. Table(MadtTable).sig = "APIC"
  BY <1>2 DEF FirstMadt, IsMadt, Table
<1> QED BY <1>1, <1>5, <1>6, <1>7, TableFacts DEF Table

LEMMA TypeStutter ==
  ASSUME TypeOK, UNCHANGED vars
  PROVE  TypeOK'
<1>1. /\ machine' = machine /\ lives' = lives /\ pc' = pc /\ outcome' = outcome
      /\ idt' = idt /\ pic' = pic /\ timer' = timer /\ handlers' = handlers /\ msr' = msr
      /\ NumberCores' = NumberCores /\ NumberPCIDevices' = NumberPCIDevices
      /\ BootDiskRead' = BootDiskRead /\ MallocSpinLock' = MallocSpinLock
      /\ Ps2SpinLock' = Ps2SpinLock /\ VgaSpinLock' = VgaSpinLock
      /\ AvgCoreSpeed' = AvgCoreSpeed
  BY DEF vars, interruptVars, acpiVars, deviceVars, lockVars
<1>2. machine' \in Machines /\ lives' \in 1..MaxLives /\ pc' \in PCs
  BY <1>1 DEF TypeOK
<1>3. /\ outcome' \in {"booting", "runs", "calls null"} \cup Halts \cup Accidents
      /\ idt' \in {"firmware", "kernel"} /\ pic' \in {"absent", "open", "masked"}
  BY <1>1 DEF TypeOK
<1>4. timer' \in BOOLEAN /\ handlers' \in BOOLEAN /\ AvgCoreSpeed' \in BOOLEAN
  BY <1>1, Zenon DEF TypeOK
<1>5. DOMAIN msr' = {"base", "enabled", "x2"} /\ msr'.enabled \in BOOLEAN /\ msr'.x2 \in BOOLEAN
  BY <1>1, Zenon DEF TypeOK
<1>6. /\ NumberCores' \in Nat /\ NumberPCIDevices' \in Nat /\ BootDiskRead' \in {Null, "backup"}
      /\ {MallocSpinLock', Ps2SpinLock', VgaSpinLock'} \subseteq {0, 1}
  BY <1>1 DEF TypeOK
<1> QED BY <1>2, <1>3, <1>4, <1>5, <1>6 DEF TypeOK

(* The two parts of TypeOK, for the provers.                               *)
MsrType == /\ DOMAIN msr = {"base", "enabled", "x2"}
           /\ msr.enabled \in BOOLEAN /\ msr.x2 \in BOOLEAN

OtherTypes ==
  /\ machine \in Machines /\ lives \in 1..MaxLives
  /\ pc \in PCs
  /\ outcome \in {"booting", "runs", "calls null"} \cup Halts \cup Accidents
  /\ idt \in {"firmware", "kernel"} /\ pic \in {"absent", "open", "masked"}
  /\ timer \in BOOLEAN /\ handlers \in BOOLEAN
  /\ NumberCores \in Nat /\ NumberPCIDevices \in Nat
  /\ BootDiskRead \in {Null, "backup"}
  /\ {MallocSpinLock, Ps2SpinLock, VgaSpinLock} \subseteq {0, 1} /\ AvgCoreSpeed \in BOOLEAN

(* Each step keeps the types.                                              *)
LEMMA TypeStep ==
  ASSUME TypeOK, BInv, [Next]_vars
  PROVE  TypeOK'
<1> USE DEF interruptVars, acpiVars, deviceVars, lockVars, GoOn, Ends, At, PCs, Halts, Accidents
<1>0. /\ MsrType /\ OtherTypes
      /\ MsrType' /\ OtherTypes' => TypeOK'
      /\ UNCHANGED msr => MsrType'
  BY DEF TypeOK, MsrType, OtherTypes
<1>1. ASSUME Video PROVE TypeOK'
  <2>1. UNCHANGED msr /\ OtherTypes'
    BY <1>0, <1>1 DEF Video, OtherTypes
  <2> QED BY <1>0, <2>1
<1>2. ASSUME MallocInit PROVE TypeOK'
  <2>1. UNCHANGED msr /\ OtherTypes'
    BY <1>0, <1>2 DEF MallocInit, OtherTypes
  <2> QED BY <1>0, <2>1
<1>3. ASSUME InitIDT PROVE TypeOK'
  <2>1. UNCHANGED msr /\ OtherTypes'
    BY <1>0, <1>3 DEF InitIDT, OtherTypes
  <2> QED BY <1>0, <2>1
<1>4. ASSUME ApicInit PROVE TypeOK'
  <2>1. MsrType'
    <3>1. machine \in Machines
      BY DEF TypeOK
    <3>2. machine.ds \in BOOLEAN
      BY <3>1, BootAssumption
    <3>3. msr' = [msr EXCEPT !.x2 = machine.ds]
      BY <1>4 DEF ApicInit
    <3> QED BY <1>0, <3>2, <3>3 DEF MsrType
  <2>2. OtherTypes'
    BY <1>0, <1>4 DEF ApicInit, OtherTypes
  <2> QED BY <1>0, <2>1, <2>2
<1>5. ASSUME ScanRSDT PROVE TypeOK'
  <2>1. UNCHANGED msr /\ OtherTypes'
    BY <1>0, <1>5 DEF ScanRSDT, OtherTypes
  <2> QED BY <1>0, <2>1
<1>6. ASSUME NeededDevices PROVE TypeOK'
  <2>1. UNCHANGED msr /\ OtherTypes'
    BY <1>0, <1>6 DEF NeededDevices, OtherTypes
  <2> QED BY <1>0, <2>1
<1>7. ASSUME ScanMadt PROVE TypeOK'
  <2>1. UNCHANGED msr /\ OtherTypes'
    BY <1>0, <1>7 DEF ScanMadt, OtherTypes
  <2> QED BY <1>0, <2>1
<1>8. ASSUME LapicAddress PROVE TypeOK'
  <2>1. MsrType'
    <3>1. CASE UNCHANGED msr
      BY <1>0, <3>1
    <3>2. CASE \E a : msr' = [base |-> a, enabled |-> FALSE, x2 |-> FALSE]
      BY <3>2 DEF MsrType
    <3> QED BY <1>8, <3>1, <3>2 DEF LapicAddress
  <2>2. OtherTypes'
    BY <1>0, <1>8 DEF LapicAddress, OtherTypes
  <2> QED BY <1>0, <2>1, <2>2
<1>9. ASSUME StartLAPICS PROVE TypeOK'
  <2>1. NumberCores' \in Nat
    <3>1. pc \in FromMadt
      BY <1>9 DEF StartLAPICS, FromMadt, FromCores
    <3> QED BY <1>9, <3>1, MadtFacts DEF StartLAPICS
  <2>2. UNCHANGED msr /\ OtherTypes'
    BY <1>0, <1>9, <2>1 DEF StartLAPICS, Waits, OtherTypes
  <2> QED BY <1>0, <2>2
<1>10. ASSUME FindDevices PROVE TypeOK'
  <2>1. NumberPCIDevices' \in Nat
    <3>1. IsFiniteSet(machine.pci)
      <4>1. machine \in Machines
        BY DEF TypeOK
      <4> QED BY <4>1, BootAssumption
    <3> QED BY <1>10, <3>1, FS_CardinalityType DEF FindDevices, ScanPCI
  <2>2. UNCHANGED msr /\ OtherTypes'
    BY <1>0, <1>10, <2>1 DEF FindDevices, OtherTypes
  <2> QED BY <1>0, <2>2
<1>11. ASSUME SetHandlers PROVE TypeOK'
  <2>1. UNCHANGED msr /\ OtherTypes'
    BY <1>0, <1>11 DEF SetHandlers, OtherTypes
  <2> QED BY <1>0, <2>1
<1>12. ASSUME StartLApicTimer PROVE TypeOK'
  <2>1. UNCHANGED msr /\ OtherTypes'
    BY <1>0, <1>12 DEF StartLApicTimer, OtherTypes
  <2> QED BY <1>0, <2>1
<1>13. ASSUME ReleaseCores PROVE TypeOK'
  <2>1. UNCHANGED msr /\ OtherTypes'
    BY <1>0, <1>13 DEF ReleaseCores, Waits, OtherTypes
  <2> QED BY <1>0, <2>1
<1>14. ASSUME FsPrint PROVE TypeOK'
  <2>1. UNCHANGED msr /\ OtherTypes'
    BY <1>0, <1>14 DEF FsPrint, OtherTypes
  <2> QED BY <1>0, <2>1
<1>15. ASSUME FsBuffer PROVE TypeOK'
  <2>1. UNCHANGED msr /\ OtherTypes'
    BY <1>0, <1>15 DEF FsBuffer, OtherTypes
  <2> QED BY <1>0, <2>1
<1>16. ASSUME FsInit PROVE TypeOK'
  <2>1. UNCHANGED msr /\ OtherTypes'
    BY <1>0, <1>16 DEF FsInit, OtherTypes
  <2> QED BY <1>0, <2>1
<1>17. ASSUME StartApp PROVE TypeOK'
  <2>1. timer' \in BOOLEAN
    BY <1>17 DEF StartApp
  <2>2. UNCHANGED msr /\ OtherTypes'
    BY <1>0, <1>17, <2>1 DEF StartApp, OtherTypes
  <2> QED BY <1>0, <2>2
<1>18. ASSUME PicTick PROVE TypeOK'
  <2>1. ASSUME Reset(MallocSpinLock, Ps2SpinLock, VgaSpinLock) PROVE TypeOK'
    <3>1. MallocSpinLock \in {0, 1} /\ Ps2SpinLock \in {0, 1} /\ VgaSpinLock \in {0, 1}
      BY DEF TypeOK
    <3> QED BY <2>1, <3>1, ResetTypes
  <2>2. ASSUME Ends("unknown core"),
               UNCHANGED <<machine, lives, interruptVars, acpiVars, deviceVars, lockVars>>
        PROVE  TypeOK'
    <3>1. UNCHANGED msr /\ OtherTypes'
      BY <1>0, <2>2 DEF OtherTypes
    <3> QED BY <1>0, <3>1
  <2> QED BY <1>18, <2>1, <2>2 DEF PicTick
<1>19. ASSUME LapicTick PROVE TypeOK'
  <2>1. UNCHANGED msr /\ OtherTypes'
    BY <1>0, <1>19 DEF LapicTick, OtherTypes
  <2> QED BY <1>0, <2>1
<1>20. ASSUME LoadApp PROVE TypeOK'
  <2>1. UNCHANGED msr /\ OtherTypes'
    BY <1>0, <1>20 DEF LoadApp, OtherTypes
  <2> QED BY <1>0, <2>1
<1>21. ASSUME Fault PROVE TypeOK'
  BY <1>21, ResetTypes DEF Fault
<1>22. ASSUME UNCHANGED vars PROVE TypeOK'
  BY <1>22, TypeStutter
<1> QED BY <1>1, <1>2, <1>3, <1>4, <1>5, <1>6, <1>7, <1>8, <1>9, <1>10, <1>11, <1>12, <1>13,
           <1>14, <1>15, <1>16, <1>17, <1>18, <1>19, <1>20, <1>21, <1>22 DEF Next, Step
-----------------------------------------------------------------------------
(***************************************************************************)
(* The invariant.                                                          *)
(***************************************************************************)
LEMMA BInit == Init => BInv
<1> SUFFICES ASSUME Init PROVE BInv
  OBVIOUS
<1>1. pc = "video" /\ outcome = "booting"
  BY DEF Init
<1>2. /\ EndIsEnd /\ MemoryFound /\ RsdpRead /\ RootRead /\ MadtRead /\ CoresCounted
      /\ DriverChosen /\ FilesFound
  BY <1>1 DEF EndIsEnd, MemoryFound, RsdpRead, RootRead, MadtRead, CoresCounted, DriverChosen,
              FilesFound, FromHandlers, FromPci, FromCores, FromMadt, FromNeeded, FromRsdt, FromIdt
<1>3. PicSilent /\ TableLoaded /\ LapicPlaced /\ LapicMode /\ TimerSafe /\ LocksKnown
  BY <1>1 DEF Init, PicSilent, TableLoaded, LapicPlaced, LapicMode, TimerSafe, LocksKnown,
              PowerOn, FromIdt, FromRsdt, FromNeeded, FromMadt, FromCores, FromPci, FromHandlers
<1>4. LapicAnswers /\ WaitsRight /\ AccidentsKnown /\ EndIsRight /\ BuiltinsLoaded
  BY <1>1 DEF LapicAnswers, WaitsRight, AccidentsKnown, EndIsRight, BuiltinsLoaded, PastMadt, PastAcpi
<1> QED BY <1>2, <1>3, <1>4 DEF BInv

(* On a machine whose LAPIC obeys, the tested CPUID bit is set.            *)
LEMMA GoodHasBit ==
  ASSUME Good(machine)
  PROVE  machine.fpu
  BY DEF Good, LapicGood, Agree

(* After a reset nothing is known, but for what it has left.               *)
LEMMA BReset ==
  ASSUME TypeOK, BInv, NEW heap, NEW ps2, NEW vga, Reset(heap, ps2, vga),
         machine.fpu \/ LAPICREGAddr = 0
  PROVE  BInv'
<1>1. pc' = "video" /\ outcome' = "booting"
  BY DEF Reset
<1>2. /\ EndIsEnd' /\ MemoryFound' /\ RsdpRead' /\ RootRead' /\ MadtRead' /\ CoresCounted'
      /\ DriverChosen' /\ FilesFound'
  BY <1>1 DEF EndIsEnd, MemoryFound, RsdpRead, RootRead, MadtRead, CoresCounted, DriverChosen,
              FilesFound, FromHandlers, FromPci, FromCores, FromMadt, FromNeeded, FromRsdt, FromIdt
<1>3. PicSilent' /\ TableLoaded' /\ LapicPlaced' /\ LapicMode' /\ TimerSafe'
  <2>1. msr' = PowerOn(machine) /\ pic' = OldPic(machine) /\ ~timer' /\ UNCHANGED machine
    BY DEF Reset
  <2>2. ~machine.fpu => LAPICREGAddr' = 0
    BY DEF Reset
  <2> QED BY <1>1, <2>1, <2>2 DEF PicSilent, TableLoaded, LapicPlaced, LapicMode, TimerSafe,
                                  PowerOn, FromRsdt, FromNeeded, FromMadt, FromCores, FromPci,
                                  FromHandlers
<1>4. LapicAnswers' /\ WaitsRight' /\ AccidentsKnown' /\ EndIsRight' /\ BuiltinsLoaded'
  BY <1>1 DEF LapicAnswers, WaitsRight, AccidentsKnown, EndIsRight, BuiltinsLoaded, PastMadt, PastAcpi
<1>5. LocksKnown'
  <2>1. lives' > 1
    <3>1. lives \in 1..MaxLives /\ lives' = lives + 1
      BY DEF Reset, TypeOK
    <3> QED BY <3>1, Lives
  <2>2. Ps2SpinLock' = 1 => machine.kept
    BY DEF Reset
  <2>3. UNCHANGED machine
    BY DEF Reset
  <2> QED BY <1>1, <2>1, <2>2, <2>3 DEF LocksKnown, FromIdt, FromRsdt, FromNeeded, FromMadt,
                                        FromCores, FromPci, FromHandlers
<1> QED BY <1>2, <1>3, <1>4, <1>5 DEF BInv

(* The parts of BInv: what has been read, what may interrupt, and how it   *)
(* ends.                                                                   *)
Reading == /\ EndIsEnd /\ MemoryFound /\ RsdpRead /\ RootRead /\ MadtRead /\ CoresCounted
           /\ DriverChosen /\ FilesFound

Interrupts ==
  PicSilent /\ TableLoaded /\ LapicPlaced /\ LapicMode /\ TimerSafe /\ LocksKnown

Ending == LapicAnswers /\ WaitsRight /\ AccidentsKnown /\ EndIsRight /\ BuiltinsLoaded

(* Once ScanMadt is done, the LAPIC obeys on the machines where it can.    *)
LEMMA LapicKnown ==
  ASSUME TypeOK, BInv, pc \in FromCores
  PROVE  /\ LapicObeys <=> LapicGood(machine)
         /\ LapicGood(machine) => LapicReached
<1> DEFINE m == machine
<1>1. pc \in FromMadt /\ pc \in FromRsdt /\ PastMadt
  BY DEF FromMadt, FromRsdt, FromNeeded, FromCores, FromPci, FromHandlers, PastMadt, PastAcpi
<1>2. FindRDSP(m.rom) # 0 /\ m \in Machines
  BY <1>1, MadtFacts
<1>3. PICK n \in Listed(m) : FirstMadt(m, n) /\ MadtTable = Root(m).words[n]
  BY <1>1 DEF BInv, MadtRead, IsChosen
<1>4. LapicGood(m) <=> ~m.ds /\ Agree(m, Table(MadtTable))
  BY <1>2, <1>3, FirstIsOne DEF LapicGood, Table
<1>5. msr.enabled /\ msr.base = LAPICREGAddr <=> Agree(m, Table(MadtTable))
  BY <1>1 DEF BInv, LapicAnswers
<1>6. msr.enabled => msr.x2 = m.ds
  BY <1>1 DEF BInv, LapicMode
<1> HIDE DEF m
<1>7. LapicObeys <=> LapicGood(m)
  BY <1>4, <1>5, <1>6 DEF LapicObeys, LapicReached
<1> QED BY <1>7 DEF LapicObeys, m

(* Each step keeps the invariant.                                          *)
LEMMA BStep ==
  ASSUME TypeOK, TypeOK', BInv, [Next]_vars
  PROVE  BInv'
<1> USE DEF interruptVars, acpiVars, deviceVars, lockVars, fileVars, GoOn, Ends, At, PCs, Halts,
            Accidents, FromHandlers, FromPci, FromCores, FromMadt, FromNeeded, FromRsdt, FromIdt,
            PastMadt, PastAcpi, Table
<1>0. Reading /\ Interrupts /\ Ending
  BY DEF BInv, Reading, Interrupts, Ending
<1>a. ASSUME UNCHANGED machine, outcome' \in Halts \cup {"calls null"}, ~Good(machine)
      PROVE  EndIsRight' /\ BuiltinsLoaded'
  BY <1>a DEF EndIsRight, BuiltinsLoaded
<1>b. ASSUME outcome' \in {"booting"} \cup Accidents PROVE EndIsRight' /\ BuiltinsLoaded'
  BY <1>b DEF EndIsRight, BuiltinsLoaded
<1>c. machine \in Machines
  BY DEF TypeOK
<1>1. ASSUME Video PROVE BInv'
  <2>1. EndIsEnd' /\ MemoryFound' /\ RsdpRead' /\ RootRead' /\ MadtRead'
    BY <1>0, <1>1 DEF Video, Reading, EndIsEnd, MemoryFound, RsdpRead, RootRead, MadtRead
  <2>2. CoresCounted' /\ DriverChosen' /\ FilesFound'
    BY <1>0, <1>1 DEF Video, Reading, CoresCounted, DriverChosen, FilesFound
  <2>3. Interrupts'
    BY <1>0, <1>1 DEF Video, Interrupts, PicSilent, TableLoaded, LapicPlaced, LapicMode,
                      TimerSafe, LocksKnown
  <2>4. LapicAnswers' /\ WaitsRight'
    BY <1>0, <1>1 DEF Video, Ending, Interrupts, PicSilent, TableLoaded, LapicPlaced,
                      LapicMode, TimerSafe, LocksKnown, LapicAnswers, WaitsRight
  <2>5. AccidentsKnown'
    BY <1>0, <1>1 DEF Video, Ending, Interrupts, Reading, PicSilent, AccidentsKnown,
                      CoresCounted, DriverChosen
  <2>6. EndIsRight' /\ BuiltinsLoaded'
    BY <1>b, <1>1 DEF Video
  <2> QED BY <2>1, <2>2, <2>3, <2>4, <2>5, <2>6 DEF BInv, Reading, Interrupts, Ending
<1>2. ASSUME MallocInit PROVE BInv'
  <2>1. EndIsEnd' /\ MemoryFound' /\ RsdpRead' /\ RootRead' /\ MadtRead'
    BY <1>0, <1>2 DEF MallocInit, Reading, EndIsEnd, MemoryFound, RsdpRead, RootRead, MadtRead
  <2>2. CoresCounted' /\ DriverChosen' /\ FilesFound'
    BY <1>0, <1>2 DEF MallocInit, Reading, CoresCounted, DriverChosen, FilesFound
  <2>3. Interrupts'
    BY <1>0, <1>2 DEF MallocInit, Interrupts, PicSilent, TableLoaded, LapicPlaced, LapicMode,
                      TimerSafe, LocksKnown
  <2>4. LapicAnswers' /\ WaitsRight'
    BY <1>0, <1>2 DEF MallocInit, Ending, Interrupts, PicSilent, TableLoaded, LapicPlaced,
                      LapicMode, TimerSafe, LocksKnown, LapicAnswers, WaitsRight
  <2>5. AccidentsKnown'
    BY <1>0, <1>2 DEF MallocInit, Ending, Interrupts, Reading, PicSilent, AccidentsKnown,
                      CoresCounted, DriverChosen
  <2>6. EndIsRight' /\ BuiltinsLoaded'
    <3>1. CASE machine.memory
      BY <1>b, <1>2, <3>1 DEF MallocInit
    <3>2. CASE ~machine.memory
      <4>1. ~Good(machine)
        BY <3>2 DEF Good
      <4>2. UNCHANGED machine /\ outcome' = "no memory"
        BY <1>2, <3>2 DEF MallocInit
      <4> QED BY <1>a, <4>1, <4>2
    <3> QED BY <3>1, <3>2
  <2> QED BY <2>1, <2>2, <2>3, <2>4, <2>5, <2>6 DEF BInv, Reading, Interrupts, Ending
<1>3. ASSUME InitIDT PROVE BInv'
  <2>1. EndIsEnd' /\ MemoryFound' /\ RsdpRead' /\ RootRead' /\ MadtRead'
    BY <1>0, <1>3 DEF InitIDT, Reading, EndIsEnd, MemoryFound, RsdpRead, RootRead, MadtRead
  <2>2. CoresCounted' /\ DriverChosen' /\ FilesFound'
    BY <1>0, <1>3 DEF InitIDT, Reading, CoresCounted, DriverChosen, FilesFound
  <2>3. Interrupts'
    BY <1>0, <1>3 DEF InitIDT, Interrupts, PicSilent, TableLoaded, LapicPlaced, LapicMode,
                      TimerSafe, LocksKnown
  <2>4. LapicAnswers' /\ WaitsRight'
    BY <1>0, <1>3 DEF InitIDT, Ending, Interrupts, PicSilent, TableLoaded, LapicPlaced,
                      LapicMode, TimerSafe, LocksKnown, LapicAnswers, WaitsRight
  <2>5. AccidentsKnown'
    BY <1>0, <1>3 DEF InitIDT, Ending, Interrupts, Reading, PicSilent, AccidentsKnown,
                      CoresCounted, DriverChosen
  <2>6. EndIsRight' /\ BuiltinsLoaded'
    BY <1>b, <1>3 DEF InitIDT
  <2> QED BY <2>1, <2>2, <2>3, <2>4, <2>5, <2>6 DEF BInv, Reading, Interrupts, Ending
<1>4. ASSUME ApicInit PROVE BInv'
  <2> DEFINE n == FindRDSP(machine.rom)
             unknown == machine.ds /\ ~machine.x2apic
             sound == n # 0 /\ CheckSum(machine.rom[n].bytes)
  <2>a. /\ pc = "apic" /\ outcome = "booting" /\ RdspPtr' = n
        /\ UNCHANGED <<machine, pic, timer, handlers>>
        /\ n # 0 => AcpiVersionNumber' = Version(machine)
        /\ IF unknown THEN pc' = "ended" /\ outcome' = "unknown core"
           ELSE IF n # 0 /\ Version(machine) <= 2 /\ sound THEN pc' = "rsdt" /\ outcome' = "booting"
           ELSE pc' = "ended" /\ outcome' \in Halts
    <3>1. n # 0 => Version(machine) \in Nat
      BY <1>c, MachineFacts
    <3>2. n # 0 => (Version(machine) > 2 <=> ~(Version(machine) <= 2))
      BY <3>1
    <3>3. UNCHANGED <<machine, pic, timer, handlers>> /\ pc = "apic" /\ outcome = "booting"
      BY <1>4 DEF ApicInit
    <3>4. RdspPtr' = n /\ (n # 0 => AcpiVersionNumber' = Version(machine))
      BY <1>4 DEF ApicInit, Version
    <3>5. IF unknown THEN Ends("unknown core")
          ELSE IF n = 0 THEN Ends("no RSDP")
          ELSE IF Version(machine) > 2 THEN Ends("version")
          ELSE IF ~CheckSum(machine.rom[n].bytes) THEN Ends("RSDP sum") ELSE GoOn("rsdt")
      BY <1>4 DEF ApicInit, Version
    <3> HIDE DEF unknown, n
    <3> QED BY <3>2, <3>3, <3>4, <3>5
  <2>b. n # 0 => (sound <=> IsSound(machine.rom[n].bytes))
    BY <1>c, MachineFacts, CheckSumIsSound
  <2>c. n # 0 /\ Version(machine) <= 2 /\ sound <=> RsdpGood(machine)
    BY <2>b DEF RsdpGood, Version
  <2>d. /\ msr'.base = msr.base /\ msr'.enabled = msr.enabled
        /\ msr'.x2 = machine.ds
        /\ machine.fpu => LAPICREGAddr' = machine.base - (machine.base % 16)
        /\ ~machine.fpu => LAPICREGAddr' = 0
    <3>1. msr' = [msr EXCEPT !.x2 = machine.ds]
      BY <1>4 DEF ApicInit
    <3>2. LAPICREGAddr' = IF machine.fpu THEN msr.base - (msr.base % 16) ELSE LAPICREGAddr
      BY <1>4 DEF ApicInit
    <3>3. msr.base = machine.base /\ (~machine.fpu => LAPICREGAddr = 0)
      BY <1>0, <2>a DEF Interrupts, LapicPlaced
    <3> QED BY <3>1, <3>2, <3>3 DEF TypeOK
  <2> HIDE DEF n, sound
  <2>1. EndIsEnd' /\ MemoryFound' /\ RsdpRead' /\ RootRead' /\ MadtRead'
    <3>1. machine.memory
      BY <1>0, <2>a DEF Reading, MemoryFound
    <3>2. pc' = "rsdt" => RsdpGood(machine) /\ (machine.ds => machine.x2apic)
      BY <2>a, <2>c
    <3>3. pc' = "rsdt" => /\ RdspPtr' = FindRDSP(machine.rom)
                          /\ AcpiVersionNumber' = Version(machine)
      BY <2>a DEF n
    <3>4. /\ UNCHANGED machine /\ pc' \in {"rsdt", "ended"}
          /\ pc' = "rsdt" <=> outcome' = "booting"
      BY <2>a
    <3> HIDE DEF unknown
    <3> QED BY <3>1, <3>2, <3>3, <3>4 DEF EndIsEnd, MemoryFound, RsdpRead, RootRead, MadtRead
  <2>2. CoresCounted' /\ DriverChosen' /\ FilesFound'
    BY <1>0, <1>4 DEF ApicInit, Reading, CoresCounted, DriverChosen, FilesFound
  <2>3. Interrupts'
    <3>1. PicSilent'
      BY <1>0, <2>a DEF Interrupts, PicSilent
    <3>2. LapicPlaced' /\ LapicMode' /\ TableLoaded'
      <4>1. idt' = idt
        BY <1>4 DEF ApicInit
      <4>2. pc' \in {"rsdt", "ended"}
        BY <2>a
      <4>3. msr.base = machine.base /\ msr.enabled /\ idt # "firmware"
        BY <1>0, <2>a DEF Interrupts, LapicPlaced, TableLoaded
      <4> HIDE DEF unknown
      <4> QED BY <2>a, <2>d, <4>1, <4>2, <4>3 DEF LapicPlaced, LapicMode, TableLoaded
    <3>3. TimerSafe'
      BY <1>0, <2>a DEF Interrupts, TimerSafe
    <3>4. LocksKnown'
      BY <1>0, <1>4 DEF ApicInit, Interrupts, LocksKnown
    <3> QED BY <3>1, <3>2, <3>3, <3>4 DEF Interrupts
  <2>4. LapicAnswers' /\ WaitsRight'
    BY <1>0, <1>4 DEF ApicInit, Ending, Interrupts, PicSilent, TableLoaded, LapicPlaced,
                      LapicMode, TimerSafe, LocksKnown, LapicAnswers, WaitsRight
  <2>5. AccidentsKnown'
    BY <1>0, <1>4 DEF ApicInit, Ending, Interrupts, Reading, PicSilent, AccidentsKnown,
                      CoresCounted, DriverChosen
  <2>6. EndIsRight' /\ BuiltinsLoaded'
    <3>1. outcome' \in Halts => ~Good(machine)
      BY <2>a, <2>c DEF Good
    <3>2. UNCHANGED machine /\ outcome' \in {"booting"} \cup Accidents \cup Halts
      BY <2>a
    <3> QED BY <1>a, <1>b, <3>1, <3>2
  <2> QED BY <2>1, <2>2, <2>3, <2>4, <2>5, <2>6 DEF BInv, Reading, Interrupts, Ending
<1>5. ASSUME ScanRSDT PROVE BInv'
  <2>a. /\ RsdpGood(machine) /\ machine.tables[RootTable] = Root(machine)
        /\ AcpiVersionNumber = Version(machine)
    BY <1>0, <1>5 DEF ScanRSDT, Reading, RsdpRead, RootTable, Root, Version
  <2>b. CheckSum(Root(machine).bytes) <=> IsSound(Root(machine).bytes)
    <3>1. FindRDSP(machine.rom) # 0
      BY <2>a DEF RsdpGood
    <3> QED BY <1>c, <3>1, MachineFacts, CheckSumIsSound
  <2>c. /\ pc = "rsdt" /\ UNCHANGED <<machine, RdspPtr, AcpiVersionNumber>>
        /\ EntryPtrs' = Entries(Root(machine).words, Version(machine))
        /\ IF IsSound(Root(machine).bytes) THEN pc' = "needed" /\ outcome' = "booting"
           ELSE pc' = "ended" /\ outcome' = "RSDT sum"
    BY <1>5, <2>a, <2>b DEF ScanRSDT
  <2>1. EndIsEnd' /\ MemoryFound' /\ RsdpRead' /\ RootRead' /\ MadtRead'
    BY <1>0, <2>c DEF Reading, EndIsEnd, MemoryFound, RsdpRead, RootRead, MadtRead
  <2>2. CoresCounted' /\ DriverChosen' /\ FilesFound'
    BY <1>0, <1>5 DEF ScanRSDT, Reading, CoresCounted, DriverChosen, FilesFound
  <2>3. Interrupts'
    BY <1>0, <1>5 DEF ScanRSDT, Interrupts, PicSilent, TableLoaded, LapicPlaced, LapicMode,
                      TimerSafe, LocksKnown
  <2>4. LapicAnswers' /\ WaitsRight'
    BY <1>0, <1>5 DEF ScanRSDT, Ending, Interrupts, PicSilent, TableLoaded, LapicPlaced,
                      LapicMode, TimerSafe, LocksKnown, LapicAnswers, WaitsRight
  <2>5. AccidentsKnown'
    BY <1>0, <1>5 DEF ScanRSDT, Ending, Interrupts, Reading, PicSilent, AccidentsKnown,
                      CoresCounted, DriverChosen
  <2>6. EndIsRight' /\ BuiltinsLoaded'
    <3>1. outcome' = "RSDT sum" => ~Good(machine)
      BY <2>c DEF Good
    <3> QED BY <1>a, <1>b, <2>c, <3>1
  <2> QED BY <2>1, <2>2, <2>3, <2>4, <2>5, <2>6 DEF BInv, Reading, Interrupts, Ending
<1>6. ASSUME NeededDevices PROVE BInv'
  <2> DEFINE t == FindRSDTEntryWithSig(EntryPtrs, "APIC")
  <2>a. FindRDSP(machine.rom) # 0 /\ EntryPtrs = Entries(Root(machine).words, Version(machine))
    BY <1>0, <1>6 DEF NeededDevices, Reading, RsdpRead, RsdpGood, RootRead
  <2>b. /\ t # Null => IsChosen(machine, t)
        /\ t = Null => ~MadtGood(machine)
    BY <1>c, <2>a, FindsFirst DEF IsChosen
  <2>c. /\ pc = "needed" /\ UNCHANGED <<machine, RdspPtr, AcpiVersionNumber, EntryPtrs>>
        /\ MadtTable' = t
        /\ IF t = Null THEN pc' = "ended" /\ outcome' = "no MADT"
           ELSE pc' = "madt" /\ outcome' = "booting"
    BY <1>6 DEF NeededDevices
  <2> HIDE DEF t
  <2>1. EndIsEnd' /\ MemoryFound' /\ RsdpRead' /\ RootRead' /\ MadtRead'
    BY <1>0, <2>b, <2>c DEF Reading, EndIsEnd, MemoryFound, RsdpRead, RootRead, MadtRead
  <2>2. CoresCounted' /\ DriverChosen' /\ FilesFound'
    BY <1>0, <1>6 DEF NeededDevices, Reading, CoresCounted, DriverChosen, FilesFound
  <2>3. Interrupts'
    BY <1>0, <1>6 DEF NeededDevices, Interrupts, PicSilent, TableLoaded, LapicPlaced,
                      LapicMode, TimerSafe, LocksKnown
  <2>4. LapicAnswers' /\ WaitsRight'
    BY <1>0, <1>6 DEF NeededDevices, Ending, Interrupts, PicSilent, TableLoaded, LapicPlaced,
                      LapicMode, TimerSafe, LocksKnown, LapicAnswers, WaitsRight
  <2>5. AccidentsKnown'
    BY <1>0, <1>6 DEF NeededDevices, Ending, Interrupts, Reading, PicSilent, AccidentsKnown,
                      CoresCounted, DriverChosen
  <2>6. EndIsRight' /\ BuiltinsLoaded'
    <3>1. outcome' = "no MADT" => ~Good(machine)
      BY <2>b, <2>c DEF Good
    <3> QED BY <1>a, <1>b, <2>c, <3>1
  <2> QED BY <2>1, <2>2, <2>3, <2>4, <2>5, <2>6 DEF BInv, Reading, Interrupts, Ending
<1>7. ASSUME ScanMadt PROVE BInv'
  <2>1. EndIsEnd' /\ MemoryFound' /\ RsdpRead' /\ RootRead' /\ MadtRead'
    BY <1>0, <1>7 DEF ScanMadt, Reading, EndIsEnd, MemoryFound, RsdpRead, RootRead, MadtRead
  <2>2. CoresCounted' /\ DriverChosen' /\ FilesFound'
    BY <1>0, <1>7 DEF ScanMadt, Reading, CoresCounted, DriverChosen, FilesFound
  <2>3. Interrupts'
    <3>1. PicSilent'
      <4>1. pc \in FromMadt
        BY <1>7 DEF ScanMadt
      <4>2. Table(MadtTable).dual = machine.dual
        BY <4>1, MadtFacts
      <4>3. pic' = IF machine.dual THEN "masked" ELSE pic
        BY <1>7, <4>2 DEF ScanMadt
      <4>4. pic \in {OldPic(machine), "masked"} /\ UNCHANGED machine
        BY <1>0, <1>7 DEF ScanMadt, Interrupts, PicSilent
      <4> QED BY <4>3, <4>4 DEF PicSilent, OldPic
    <3>2. TableLoaded' /\ LapicPlaced' /\ LapicMode' /\ TimerSafe' /\ LocksKnown'
      BY <1>0, <1>7 DEF ScanMadt, Interrupts, TableLoaded, LapicPlaced, LapicMode, TimerSafe,
                        LocksKnown
    <3> QED BY <3>1, <3>2 DEF Interrupts
  <2>4. LapicAnswers' /\ WaitsRight'
    BY <1>0, <1>7 DEF ScanMadt, Ending, Interrupts, PicSilent, TableLoaded, LapicPlaced,
                      LapicMode, TimerSafe, LocksKnown, LapicAnswers, WaitsRight
  <2>5. AccidentsKnown'
    BY <1>0, <1>7 DEF ScanMadt, Ending, Interrupts, Reading, PicSilent, AccidentsKnown,
                      CoresCounted, DriverChosen
  <2>6. EndIsRight' /\ BuiltinsLoaded'
    BY <1>b, <1>7 DEF ScanMadt
  <2> QED BY <2>1, <2>2, <2>3, <2>4, <2>5, <2>6 DEF BInv, Reading, Interrupts, Ending
<1>8. ASSUME LapicAddress PROVE BInv'
  <2>1. EndIsEnd' /\ MemoryFound' /\ RsdpRead' /\ RootRead' /\ MadtRead'
    BY <1>0, <1>8 DEF LapicAddress, Reading, EndIsEnd, MemoryFound, RsdpRead, RootRead, MadtRead
  <2>2. CoresCounted' /\ DriverChosen' /\ FilesFound'
    BY <1>0, <1>8 DEF LapicAddress, Reading, CoresCounted, DriverChosen, FilesFound
  <2>3. Interrupts'
    <3>1. PicSilent' /\ TableLoaded' /\ LapicPlaced' /\ TimerSafe' /\ LocksKnown'
      BY <1>0, <1>8 DEF LapicAddress, Interrupts, PicSilent, TableLoaded, LapicPlaced, TimerSafe,
                        LocksKnown
    <3>2. LapicMode'
      <4>1. UNCHANGED msr \/ ~msr'.enabled
        BY <1>8 DEF LapicAddress
      <4>2. pc = "address" /\ UNCHANGED machine
        BY <1>8 DEF LapicAddress
      <4> QED BY <1>0, <4>1, <4>2 DEF Interrupts, LapicMode
    <3> QED BY <3>1, <3>2 DEF Interrupts
  <2>4. LapicAnswers' /\ WaitsRight'
    <3> DEFINE a == Table(MadtTable).lapic
               base == machine.base
    <3>1. pc = "address" /\ pc' = "cores" /\ UNCHANGED <<machine, MadtTable>>
      BY <1>8 DEF LapicAddress
    <3>2. a \in Nat
      <4>1. pc \in FromMadt
        BY <3>1
      <4> QED BY <4>1, MadtFacts
    <3>3. base \in Nat /\ base # 0
      BY <1>c, BootAssumption
    <3>4. /\ msr.base = base /\ msr.enabled
          /\ LAPICREGAddr = IF machine.fpu THEN base - (base % 16) ELSE 0
      BY <1>0, <3>1 DEF Interrupts, LapicPlaced
    <3>5. IF LAPICREGAddr # a THEN msr' = [base |-> a, enabled |-> FALSE, x2 |-> FALSE]
                              ELSE UNCHANGED <<msr, LAPICREGAddr>>
      BY <1>8 DEF LapicAddress
    <3>6. Agree(machine, Table(MadtTable)) <=> machine.fpu /\ base % 16 = 0 /\ a = base
      BY DEF Agree
    <3>7. Table(MadtTable)' = Table(MadtTable)
      BY <3>1
    <3> HIDE DEF a, base
    <3>8. base - (base % 16) = base <=> base % 16 = 0
      BY <3>3
    <3>9. CASE LAPICREGAddr # a
      <4>1. ~Agree(machine, Table(MadtTable))
        BY <3>4, <3>6, <3>8, <3>9
      <4>2. ~msr'.enabled
        BY <3>5, <3>9
      <4> QED BY <3>1, <3>7, <4>1, <4>2 DEF LapicAnswers, WaitsRight
    <3>10. CASE LAPICREGAddr = a
      <4>1. msr.base = LAPICREGAddr <=> Agree(machine, Table(MadtTable))
        BY <3>3, <3>4, <3>6, <3>8, <3>10
      <4>2. msr' = msr /\ LAPICREGAddr' = LAPICREGAddr
        BY <3>5, <3>10
      <4> QED BY <3>1, <3>4, <3>7, <4>1, <4>2 DEF LapicAnswers, WaitsRight
    <3> QED BY <3>9, <3>10
  <2>5. AccidentsKnown'
    BY <1>0, <1>8 DEF LapicAddress, Ending, Interrupts, Reading, PicSilent, AccidentsKnown,
                      CoresCounted, DriverChosen
  <2>6. EndIsRight' /\ BuiltinsLoaded'
    BY <1>b, <1>8 DEF LapicAddress
  <2> QED BY <2>1, <2>2, <2>3, <2>4, <2>5, <2>6 DEF BInv, Reading, Interrupts, Ending
<1>9. ASSUME StartLAPICS PROVE BInv'
  <2>a. /\ Table(MadtTable).cores \in Nat /\ FindRDSP(machine.rom) # 0
        /\ IsChosen(machine, MadtTable)
    <3>1. pc \in FromMadt
      BY <1>9 DEF StartLAPICS
    <3> QED BY <1>0, <3>1, MadtFacts DEF Reading, MadtRead
  <2>b. /\ pc = "cores" /\ outcome = "booting"
        /\ NumberCores' = machine.tables[MadtTable].cores
        /\ UNCHANGED <<machine, lives, interruptVars, acpiVars, lockVars>>
        /\ \/ NumberCores' = 0 /\ pc' = "ended" /\ outcome' = "no core"
           \/ NumberCores' > 0 /\ pc' = "pci" /\ outcome' = "booting"
           \/ NumberCores' > 0 /\ ~LapicReached /\ pc' = "waits" /\ outcome' = "booting"
    BY <1>9 DEF StartLAPICS, Waits
  <2>1. EndIsEnd' /\ MemoryFound' /\ RsdpRead' /\ RootRead' /\ MadtRead'
    BY <1>0, <2>b DEF Reading, EndIsEnd, MemoryFound, RsdpRead, RootRead, MadtRead
  <2>2. CoresCounted' /\ DriverChosen' /\ FilesFound'
    BY <2>b DEF CoresCounted, DriverChosen, FilesFound
  <2>3. Interrupts'
    BY <1>0, <2>b DEF Interrupts, PicSilent, TableLoaded, LapicPlaced, LapicMode, TimerSafe,
                      LocksKnown
  <2>4. LapicAnswers' /\ WaitsRight'
    <3>1. ~LapicReached => ~LapicGood(machine)
      BY <2>b, LapicKnown
    <3>2. LapicAnswers'
      BY <1>0, <2>b DEF Ending, LapicAnswers
    <3> QED BY <2>b, <3>1, <3>2 DEF WaitsRight
  <2>5. AccidentsKnown'
    BY <1>0, <2>b DEF Interrupts, PicSilent, AccidentsKnown
  <2>6. EndIsRight' /\ BuiltinsLoaded'
    <3>1. CASE Table(MadtTable).cores = 0
      <4>1. ~MadtGood(machine)
        BY <1>c, <2>a, <3>1, FirstIsOne DEF MadtGood, IsChosen
      <4>2. ~Good(machine)
        BY <4>1 DEF Good
      <4>3. UNCHANGED machine /\ outcome' = "no core"
        <5>1. NumberCores' = 0
          BY <2>b, <3>1
        <5>2. ~(NumberCores' > 0)
          BY <5>1
        <5> QED BY <2>b, <5>2
      <4> QED BY <1>a, <4>2, <4>3
    <3>2. CASE Table(MadtTable).cores # 0
      BY <1>b, <2>b, <3>2
    <3> QED BY <3>1, <3>2
  <2> QED BY <2>1, <2>2, <2>3, <2>4, <2>5, <2>6 DEF BInv, Reading, Interrupts, Ending
<1>10. ASSUME FindDevices PROVE BInv'
  <2>a. /\ pc = "pci" /\ UNCHANGED <<machine, NumberCores, MadtTable>>
        /\ machine.pci = {} => BootDiskRead' = Null /\ pc' = "handlers"
        /\ machine.pci # {} => BootDiskRead' = "backup" /\ pc' \in {"handlers", "ended"}
        /\ machine.pci # {} /\ pc' = "handlers" => machine.disk
        /\ pc' = "ended" => outcome' = "disk check" /\ ~machine.disk
        /\ pc' = "handlers" => outcome' = "booting"
    <3>1. IsFiniteSet(machine.pci)
      BY <1>c, BootAssumption
    <3>2. NumberPCIDevices' = 0 <=> machine.pci = {}
      BY <1>10, <3>1, FS_EmptySet DEF FindDevices, ScanPCI
    <3>3. CASE machine.disk
      BY <1>10, <3>2, <3>3 DEF FindDevices
    <3>4. CASE ~machine.disk
      BY <1>10, <3>2, <3>4 DEF FindDevices
    <3> QED BY <3>3, <3>4
  <2>1. EndIsEnd' /\ MemoryFound' /\ RsdpRead' /\ RootRead' /\ MadtRead'
    BY <1>0, <1>10 DEF FindDevices, Reading, EndIsEnd, MemoryFound, RsdpRead, RootRead, MadtRead
  <2>2. CoresCounted' /\ DriverChosen' /\ FilesFound'
    BY <1>0, <2>a DEF Reading, CoresCounted, DriverChosen, FilesFound, Null
  <2>3. Interrupts'
    BY <1>0, <1>10 DEF FindDevices, Interrupts, PicSilent, TableLoaded, LapicPlaced, LapicMode,
                       TimerSafe, LocksKnown
  <2>4. LapicAnswers' /\ WaitsRight'
    BY <1>0, <1>10 DEF FindDevices, Ending, Interrupts, PicSilent, TableLoaded, LapicPlaced,
                       LapicMode, TimerSafe, LocksKnown, LapicAnswers, WaitsRight
  <2>5. AccidentsKnown'
    BY <1>0, <1>10 DEF FindDevices, Ending, Interrupts, Reading, PicSilent, AccidentsKnown,
                       CoresCounted, DriverChosen
  <2>6. EndIsRight' /\ BuiltinsLoaded'
    <3>1. pc' = "ended" => ~Good(machine)
      BY <2>a DEF Good
    <3>2. pc' \in {"handlers", "ended"}
      BY <2>a
    <3> QED BY <1>a, <1>b, <2>a, <3>1, <3>2
  <2> QED BY <2>1, <2>2, <2>3, <2>4, <2>5, <2>6 DEF BInv, Reading, Interrupts, Ending
<1>11. ASSUME SetHandlers PROVE BInv'
  <2>1. EndIsEnd' /\ MemoryFound' /\ RsdpRead' /\ RootRead' /\ MadtRead'
    BY <1>0, <1>11 DEF SetHandlers, Reading, EndIsEnd, MemoryFound, RsdpRead, RootRead, MadtRead
  <2>2. CoresCounted' /\ DriverChosen' /\ FilesFound'
    BY <1>0, <1>11 DEF SetHandlers, Reading, CoresCounted, DriverChosen, FilesFound
  <2>3. Interrupts'
    BY <1>0, <1>11 DEF SetHandlers, Interrupts, PicSilent, TableLoaded, LapicPlaced, LapicMode,
                       TimerSafe, LocksKnown
  <2>4. LapicAnswers' /\ WaitsRight'
    BY <1>0, <1>11 DEF SetHandlers, Ending, Interrupts, PicSilent, TableLoaded, LapicPlaced,
                       LapicMode, TimerSafe, LocksKnown, LapicAnswers, WaitsRight
  <2>5. AccidentsKnown'
    BY <1>0, <1>11 DEF SetHandlers, Ending, Interrupts, Reading, PicSilent, AccidentsKnown,
                       CoresCounted, DriverChosen
  <2>6. EndIsRight' /\ BuiltinsLoaded'
    BY <1>b, <1>11 DEF SetHandlers
  <2> QED BY <2>1, <2>2, <2>3, <2>4, <2>5, <2>6 DEF BInv, Reading, Interrupts, Ending
<1>12. ASSUME StartLApicTimer PROVE BInv'
  <2>1. EndIsEnd' /\ MemoryFound' /\ RsdpRead' /\ RootRead' /\ MadtRead'
    BY <1>0, <1>12 DEF StartLApicTimer, Reading, EndIsEnd, MemoryFound, RsdpRead, RootRead,
                       MadtRead
  <2>2. CoresCounted' /\ DriverChosen' /\ FilesFound'
    BY <1>0, <1>12 DEF StartLApicTimer, Reading, CoresCounted, DriverChosen, FilesFound
  <2>3. Interrupts'
    BY <1>0, <1>12 DEF StartLApicTimer, Interrupts, PicSilent, TableLoaded, LapicPlaced,
                       LapicMode, TimerSafe, LocksKnown
  <2>4. LapicAnswers' /\ WaitsRight'
    BY <1>0, <1>12 DEF StartLApicTimer, Ending, Interrupts, PicSilent, TableLoaded,
                       LapicPlaced, LapicMode, TimerSafe, LocksKnown, LapicAnswers, WaitsRight
  <2>5. AccidentsKnown'
    BY <1>0, <1>12 DEF StartLApicTimer, Ending, Interrupts, Reading, PicSilent, AccidentsKnown,
                       CoresCounted, DriverChosen
  <2>6. EndIsRight' /\ BuiltinsLoaded'
    BY <1>b, <1>12 DEF StartLApicTimer
  <2> QED BY <2>1, <2>2, <2>3, <2>4, <2>5, <2>6 DEF BInv, Reading, Interrupts, Ending
<1>13. ASSUME ReleaseCores PROVE BInv'
  <2>a. /\ pc = "release" /\ outcome = "booting"
        /\ UNCHANGED <<machine, lives, interruptVars, acpiVars, deviceVars, MallocSpinLock,
                       Ps2SpinLock, AvgCoreSpeed, fileVars>>
        /\ outcome' = "booting"
        /\ \/ pc' = "waits" /\ ~LapicObeys
           \/ pc' = "fsPrint"
    BY <1>13 DEF ReleaseCores, Waits
  <2>1. EndIsEnd' /\ MemoryFound' /\ RsdpRead' /\ RootRead' /\ MadtRead'
    BY <1>0, <2>a DEF Reading, EndIsEnd, MemoryFound, RsdpRead, RootRead, MadtRead
  <2>2. CoresCounted' /\ DriverChosen' /\ FilesFound'
    BY <1>0, <2>a DEF Reading, CoresCounted, DriverChosen, FilesFound
  <2>3. Interrupts'
    BY <1>0, <2>a DEF Interrupts, PicSilent, TableLoaded, LapicPlaced, LapicMode, TimerSafe,
                      LocksKnown
  <2>4. LapicAnswers' /\ WaitsRight'
    <3>1. ~LapicObeys => ~LapicGood(machine)
      BY <2>a, LapicKnown
    <3>2. LapicAnswers'
      BY <1>0, <2>a DEF Ending, LapicAnswers
    <3> QED BY <2>a, <3>1, <3>2 DEF WaitsRight
  <2>5. AccidentsKnown'
    BY <1>0, <2>a DEF Interrupts, PicSilent, AccidentsKnown
  <2>6. EndIsRight' /\ BuiltinsLoaded'
    BY <1>b, <2>a
  <2> QED BY <2>1, <2>2, <2>3, <2>4, <2>5, <2>6 DEF BInv, Reading, Interrupts, Ending
<1>14. ASSUME FsPrint PROVE BInv'
  <2>1. EndIsEnd' /\ MemoryFound' /\ RsdpRead' /\ RootRead' /\ MadtRead'
    BY <1>0, <1>14 DEF FsPrint, Reading, EndIsEnd, MemoryFound, RsdpRead, RootRead, MadtRead
  <2>2. CoresCounted' /\ DriverChosen' /\ FilesFound'
    BY <1>0, <1>14 DEF FsPrint, Reading, CoresCounted, DriverChosen, FilesFound
  <2>3. Interrupts'
    BY <1>0, <1>14 DEF FsPrint, Interrupts, PicSilent, TableLoaded, LapicPlaced, LapicMode,
                       TimerSafe, LocksKnown
  <2>4. LapicAnswers' /\ WaitsRight'
    BY <1>0, <1>14 DEF FsPrint, Ending, LapicAnswers, WaitsRight
  <2>5. AccidentsKnown'
    BY <1>0, <1>14 DEF FsPrint, Ending, Interrupts, Reading, PicSilent, AccidentsKnown,
                       CoresCounted, DriverChosen
  <2>6. EndIsRight' /\ BuiltinsLoaded'
    BY <1>b, <1>14 DEF FsPrint
  <2> QED BY <2>1, <2>2, <2>3, <2>4, <2>5, <2>6 DEF BInv, Reading, Interrupts, Ending
<1>15. ASSUME FsBuffer PROVE BInv'
  <2>1. EndIsEnd' /\ MemoryFound' /\ RsdpRead' /\ RootRead' /\ MadtRead'
    BY <1>0, <1>15 DEF FsBuffer, Reading, EndIsEnd, MemoryFound, RsdpRead, RootRead, MadtRead
  <2>2. CoresCounted' /\ DriverChosen' /\ FilesFound'
    BY <1>0, <1>15 DEF FsBuffer, Reading, CoresCounted, DriverChosen, FilesFound
  <2>3. Interrupts'
    BY <1>0, <1>15 DEF FsBuffer, Interrupts, PicSilent, TableLoaded, LapicPlaced, LapicMode,
                       TimerSafe, LocksKnown
  <2>4. LapicAnswers' /\ WaitsRight'
    BY <1>0, <1>15 DEF FsBuffer, Ending, Interrupts, PicSilent, TableLoaded, LapicPlaced,
                       LapicMode, TimerSafe, LocksKnown, LapicAnswers, WaitsRight
  <2>5. AccidentsKnown'
    BY <1>0, <1>15 DEF FsBuffer, Ending, Interrupts, Reading, PicSilent, AccidentsKnown,
                       CoresCounted, DriverChosen
  <2>6. EndIsRight' /\ BuiltinsLoaded'
    BY <1>b, <1>15 DEF FsBuffer
  <2> QED BY <2>1, <2>2, <2>3, <2>4, <2>5, <2>6 DEF BInv, Reading, Interrupts, Ending
<1>16. ASSUME FsInit PROVE BInv'
  <2>1. EndIsEnd' /\ MemoryFound' /\ RsdpRead' /\ RootRead' /\ MadtRead'
    BY <1>0, <1>16 DEF FsInit, Reading, EndIsEnd, MemoryFound, RsdpRead, RootRead, MadtRead
  <2>2. CoresCounted' /\ DriverChosen' /\ FilesFound'
    BY <1>0, <1>16 DEF FsInit, Reading, CoresCounted, DriverChosen, FilesFound
  <2>3. Interrupts'
    BY <1>0, <1>16 DEF FsInit, Interrupts, PicSilent, TableLoaded, LapicPlaced, LapicMode,
                       TimerSafe, LocksKnown
  <2>4. LapicAnswers' /\ WaitsRight'
    BY <1>0, <1>16 DEF FsInit, Ending, Interrupts, PicSilent, TableLoaded, LapicPlaced,
                       LapicMode, TimerSafe, LocksKnown, LapicAnswers, WaitsRight
  <2>5. AccidentsKnown'
    BY <1>0, <1>16 DEF FsInit, Ending, Interrupts, Reading, PicSilent, AccidentsKnown,
                       CoresCounted, DriverChosen
  <2>6. EndIsRight' /\ BuiltinsLoaded'
    <3>1. CASE BootDiskRead = Null
      <4>1. ~Good(machine)
        BY <1>0, <1>16, <3>1 DEF FsInit, Reading, DriverChosen, Good
      <4> QED BY <1>16, <1>a, <3>1, <4>1 DEF FsInit
    <3>2. CASE BootDiskRead # Null /\ machine.fs
      BY <1>16, <1>b, <3>2 DEF FsInit
    <3>3. CASE BootDiskRead # Null /\ ~machine.fs
      <4>1. ~Good(machine)
        BY <3>3 DEF Good
      <4>2. UNCHANGED machine /\ outcome' = "no file system"
        BY <1>16, <3>3 DEF FsInit
      <4> QED BY <1>a, <4>1, <4>2
    <3> QED BY <3>1, <3>2, <3>3
  <2> QED BY <2>1, <2>2, <2>3, <2>4, <2>5, <2>6 DEF BInv, Reading, Interrupts, Ending
<1>17. ASSUME StartApp PROVE BInv'
  <2>1. EndIsEnd' /\ MemoryFound' /\ RsdpRead' /\ RootRead' /\ MadtRead'
    BY <1>0, <1>17 DEF StartApp, Reading, EndIsEnd, MemoryFound, RsdpRead, RootRead, MadtRead
  <2>2. CoresCounted' /\ DriverChosen' /\ FilesFound'
    BY <1>0, <1>17 DEF StartApp, Reading, CoresCounted, DriverChosen, FilesFound
  <2>3. Interrupts'
    BY <1>0, <1>17 DEF StartApp, Interrupts, PicSilent, TableLoaded, LapicPlaced, LapicMode,
                       TimerSafe, LocksKnown
  <2>4. LapicAnswers' /\ WaitsRight'
    BY <1>0, <1>17 DEF StartApp, Ending, Interrupts, PicSilent, TableLoaded, LapicPlaced,
                       LapicMode, TimerSafe, LocksKnown, LapicAnswers, WaitsRight
  <2>5. AccidentsKnown'
    BY <1>0, <1>17 DEF StartApp, Ending, Interrupts, Reading, PicSilent, AccidentsKnown,
                       CoresCounted, DriverChosen
  <2>6. EndIsRight' /\ BuiltinsLoaded'
    <3>1. /\ pc = "app" /\ UNCHANGED machine /\ asked' = StartUpApp
          /\ loaded' = ReadFile(StartUpApp)
          /\ loaded' = Null => outcome' = "no app"
          /\ loaded' # Null => outcome' = IF LapicObeys THEN "runs" ELSE "no timer"
      BY <1>17 DEF StartApp
    <3>2. loaded' = Null <=> StartUpApp \notin machine.files
      BY <3>1, StartUpRead
    <3>3. CASE StartUpApp \notin machine.files
      <4>1. ~Good(machine)
        BY <3>3 DEF Good
      <4> QED BY <1>a, <3>1, <3>2, <3>3, <4>1
    <3>4. LapicObeys <=> LapicGood(machine)
      BY <3>1, LapicKnown
    <3>5. CASE StartUpApp \in machine.files /\ ~LapicObeys
      <4>1. ~Good(machine)
        BY <3>4, <3>5 DEF Good
      <4> QED BY <1>a, <3>1, <3>2, <3>5, <4>1
    <3>6. CASE StartUpApp \in machine.files /\ LapicObeys
      <4>1. MadtGood(machine)
        <5>1. IsChosen(machine, MadtTable) /\ machine.tables[MadtTable].cores > 0
          BY <1>0, <3>1 DEF Reading, MadtRead, CoresCounted
        <5> QED BY <5>1 DEF IsChosen, MadtGood
      <4>2. /\ machine.memory /\ RsdpGood(machine) /\ IsSound(Root(machine).bytes)
            /\ machine.pci # {} /\ machine.disk /\ machine.fs
        BY <1>0, <3>1 DEF Reading, MemoryFound, RsdpRead, RootRead, DriverChosen, FilesFound
      <4>3. Good(machine)
        BY <3>4, <3>6, <4>1, <4>2 DEF Good
      <4>4. EndIsRight'
        BY <3>1, <3>2, <3>6, <4>3 DEF EndIsRight
      <4>5. BuiltinsLoaded'
        <5>1. StartUpApp \in Paths
          BY BootAssumption
        <5> QED BY <3>1, <5>1, FileRead DEF BuiltinsLoaded
      <4> QED BY <4>4, <4>5
    <3> QED BY <3>3, <3>5, <3>6
  <2> QED BY <2>1, <2>2, <2>3, <2>4, <2>5, <2>6 DEF BInv, Reading, Interrupts, Ending
<1>18. ASSUME PicTick PROVE BInv'
  <2>1. ASSUME idt = "firmware", Reset(MallocSpinLock, Ps2SpinLock, VgaSpinLock) PROVE BInv'
    <3>1. pc \notin {"ended"} \cup FromCores
      BY <1>0, <1>18, <2>1 DEF PicTick, InterruptsOn, Interrupts, TableLoaded, Reading, EndIsEnd
    <3>2. machine.fpu \/ LAPICREGAddr = 0
      BY <1>0, <3>1 DEF Interrupts, LapicPlaced
    <3> QED BY <2>1, <3>2, BReset
  <2>2. ASSUME idt = "kernel", Ends("unknown core"),
               UNCHANGED <<machine, lives, interruptVars, acpiVars, deviceVars, lockVars, fileVars>>
        PROVE  BInv'
    <3>1. /\ EndIsEnd' /\ MemoryFound' /\ RsdpRead' /\ RootRead' /\ MadtRead' /\ CoresCounted'
          /\ DriverChosen' /\ FilesFound'
      BY <2>2 DEF EndIsEnd, MemoryFound, RsdpRead, RootRead, MadtRead, CoresCounted,
                  DriverChosen, FilesFound
    <3>2. Interrupts'
      <4>1. PicSilent' /\ TableLoaded' /\ LapicPlaced' /\ LapicMode' /\ TimerSafe'
        BY <1>0, <2>2 DEF Interrupts, PicSilent, TableLoaded, LapicPlaced, LapicMode, TimerSafe
      <4>2. outcome # "screen"
        BY <1>18 DEF PicTick, InterruptsOn
      <4>3. LocksKnown'
        BY <1>0, <2>2, <4>2 DEF Interrupts, LocksKnown
      <4> QED BY <4>1, <4>3 DEF Interrupts
    <3>3. LapicAnswers' /\ WaitsRight' /\ AccidentsKnown'
      BY <1>18, <2>2 DEF PicTick, LapicAnswers, WaitsRight, AccidentsKnown
    <3> QED BY <1>b, <2>2, <3>1, <3>2, <3>3 DEF BInv, Interrupts
  <2> QED BY <1>18, <2>1, <2>2 DEF PicTick
<1>19. ASSUME LapicTick PROVE BInv'
  <2>1. outcome = "booting" /\ pc \in {"release", "fsPrint", "fsBuffer", "fs"} /\ handlers
    <3>1. outcome = "booting" /\ pc \in {"release", "fsPrint", "fsBuffer", "fs", "waits"}
      BY <1>0, <1>19 DEF LapicTick, InterruptsOn, Interrupts, TimerSafe
    <3>2. pc # "waits"
      <4>1. SUFFICES ASSUME pc = "waits" PROVE FALSE
        OBVIOUS
      <4>2. LapicGood(machine)
        BY <1>19, <4>1, LapicKnown DEF LapicTick
      <4> QED BY <1>0, <4>1, <4>2 DEF Ending, WaitsRight
    <3> QED BY <1>0, <3>1, <3>2 DEF Interrupts, TimerSafe
  <2>2. NumberCores > 0 /\ (VgaSpinLock = 1 => MallocSpinLock = 0)
    <3>1. NumberCores > 0
      BY <1>0, <2>1 DEF Reading, CoresCounted
    <3>2. pc = "fs" => VgaSpinLock # 1
      BY <1>0 DEF Interrupts, LocksKnown
    <3>3. pc # "fs" => MallocSpinLock = 0
      BY <1>0, <2>1 DEF Interrupts, LocksKnown
    <3> QED BY <3>1, <3>2, <3>3
  <2>3. /\ UNCHANGED <<machine, lives, interruptVars, acpiVars, deviceVars, MallocSpinLock,
                       VgaSpinLock, fileVars>>
        /\ \/ /\ pc' = "ended" /\ outcome' = "lock"
              /\ Ps2SpinLock = 1 /\ UNCHANGED <<Ps2SpinLock, AvgCoreSpeed>>
           \/ pc' = "ended" /\ outcome' = "screen" /\ VgaSpinLock = 1
           \/ /\ pc' = "ended" /\ outcome' = "heap"
              /\ ~AvgCoreSpeed /\ MallocSpinLock = 1 /\ UNCHANGED <<Ps2SpinLock, AvgCoreSpeed>>
           \/ UNCHANGED <<pc, outcome, Ps2SpinLock>>
    BY <1>19, <2>1 DEF LapicTick
  <2>4. Reading'
    BY <1>0, <2>1, <2>3 DEF Reading, EndIsEnd, MemoryFound, RsdpRead, RootRead, MadtRead,
                            CoresCounted, DriverChosen, FilesFound
  <2>5. Interrupts'
    <3>1. PicSilent' /\ TableLoaded' /\ LapicPlaced' /\ LapicMode' /\ TimerSafe'
      BY <1>0, <2>1, <2>3 DEF Interrupts, PicSilent, TableLoaded, LapicPlaced, LapicMode,
                              TimerSafe
    <3>2. LocksKnown'
      BY <1>0, <2>1, <2>3 DEF Interrupts, LocksKnown
    <3> QED BY <3>1, <3>2 DEF Interrupts
  <2>6. LapicAnswers' /\ WaitsRight'
    BY <1>0, <2>1, <2>3 DEF Ending, LapicAnswers, WaitsRight
  <2>7. AccidentsKnown'
    <3>1. Ps2SpinLock = 1 => machine.kept /\ lives > 1
      BY <1>0, <2>1 DEF Interrupts, LocksKnown
    <3>2. PastMadt' => pic' # "open"
      BY <1>0, <2>1, <2>3 DEF Interrupts, PicSilent
    <3>3. CASE outcome' = "lock"
      BY <2>1, <2>3, <3>1, <3>2, <3>3 DEF AccidentsKnown
    <3>4. CASE outcome' = "screen"
      BY <2>1, <2>2, <2>3, <3>2, <3>4 DEF AccidentsKnown
    <3>5. CASE outcome' = "heap"
      BY <2>1, <2>2, <2>3, <3>2, <3>5 DEF AccidentsKnown
    <3>6. CASE outcome' = "booting"
      BY <3>2, <3>6 DEF AccidentsKnown
    <3> QED BY <2>1, <2>3, <3>3, <3>4, <3>5, <3>6
  <2> QED BY <1>b, <2>1, <2>3, <2>4, <2>5, <2>6, <2>7 DEF BInv, Reading, Interrupts
<1>20. ASSUME LoadApp PROVE BInv'
  <2>1. outcome = "runs" /\ UNCHANGED <<machine, lives, pc, outcome, interruptVars, acpiVars,
                                        deviceVars, lockVars>>
    BY <1>20 DEF LoadApp
  <2>2. Reading'
    BY <1>0, <2>1 DEF Reading, EndIsEnd, MemoryFound, RsdpRead, RootRead, MadtRead,
                      CoresCounted, DriverChosen, FilesFound
  <2>3. Interrupts'
    BY <1>0, <2>1 DEF Interrupts, PicSilent, TableLoaded, LapicPlaced, LapicMode, TimerSafe,
                      LocksKnown
  <2>4. LapicAnswers' /\ WaitsRight' /\ AccidentsKnown' /\ EndIsRight'
    BY <1>0, <2>1 DEF Ending, LapicAnswers, WaitsRight, AccidentsKnown, EndIsRight
  <2>5. BuiltinsLoaded'
    BY <1>20, <2>1, FileRead DEF LoadApp, BuiltinsLoaded
  <2> QED BY <2>2, <2>3, <2>4, <2>5 DEF BInv, Reading, Interrupts
<1>21. ASSUME Fault PROVE BInv'
  <2>1. PICK heap, ps2, vga \in {0, 1} : Reset(heap, ps2, vga)
    BY <1>21 DEF Fault
  <2>2. outcome = "runs"
    BY <1>21 DEF Fault
  <2>3. machine.fpu
    BY <1>0, <2>2, GoodHasBit DEF Ending, EndIsRight
  <2> QED BY <2>1, <2>3, BReset
<1>22. ASSUME UNCHANGED vars PROVE BInv'
  <2>1. UNCHANGED <<machine, lives, pc, outcome, interruptVars, acpiVars, deviceVars, lockVars,
                    fileVars>>
    BY <1>22 DEF vars
  <2>2. Reading'
    BY <1>0, <2>1 DEF Reading, EndIsEnd, MemoryFound, RsdpRead, RootRead, MadtRead,
                      CoresCounted, DriverChosen, FilesFound
  <2>3. Interrupts'
    <3>1. PicSilent' /\ TableLoaded' /\ LapicPlaced' /\ LapicMode'
      BY <1>0, <2>1 DEF Interrupts, PicSilent, TableLoaded, LapicPlaced, LapicMode
    <3>2. TimerSafe' /\ LocksKnown'
      BY <1>0, <2>1 DEF Interrupts, TimerSafe, LocksKnown
    <3> QED BY <3>1, <3>2 DEF Interrupts
  <2>4. LapicAnswers' /\ WaitsRight' /\ AccidentsKnown'
    BY <1>0, <2>1 DEF Ending, LapicAnswers, WaitsRight, AccidentsKnown
  <2>5. EndIsRight' /\ BuiltinsLoaded'
    BY <1>0, <2>1 DEF Ending, EndIsRight, BuiltinsLoaded
  <2> QED BY <2>2, <2>3, <2>4, <2>5 DEF BInv, Reading, Interrupts
<1> QED BY <1>1, <1>2, <1>3, <1>4, <1>5, <1>6, <1>7, <1>8, <1>9, <1>10, <1>11, <1>12, <1>13,
           <1>14, <1>15, <1>16, <1>17, <1>18, <1>19, <1>20, <1>21, <1>22 DEF Next, Step
-----------------------------------------------------------------------------
(***************************************************************************)
(* The theorems.                                                           *)
(***************************************************************************)
LEMMA Invariant == Spec => [](TypeOK /\ BInv)
<1>1. Init => TypeOK /\ BInv
  BY TypeInit, BInit
<1>2. TypeOK /\ BInv /\ [Next]_vars => (TypeOK /\ BInv)'
  <2> SUFFICES ASSUME TypeOK, BInv, [Next]_vars PROVE TypeOK' /\ BInv'
    OBVIOUS
  <2>1. TypeOK'
    BY TypeStep
  <2> QED BY <2>1, BStep
<1> QED BY <1>1, <1>2, PTL DEF Spec

(* The variables of the start keep to their types: the kernel is at one of *)
(* CKernelEntry's calls or has ended in one of the ways named.             *)
THEOREM TypeCorrect == Spec => []TypeOK
  BY Invariant, PTL

(* From NeededDevices on the kernel knows the tables that the firmware's   *)
(* root table lists and no other, goes by the first MADT among them, which *)
(* is whole; and once ScanMadt is done, a LAPIC that is on is at the       *)
(* kernel's address exactly where firmware and CPU agree on an address     *)
(* that the mask of Apic::init (init.cpp:62) leaves as it is.              *)
THEOREM FirmwareIsRead == Spec => []FirmwareRead
<1>1. TypeOK /\ BInv => FirmwareRead
  <2> SUFFICES ASSUME TypeOK, BInv PROVE FirmwareRead
    OBVIOUS
  <2>1. ASSUME PastAcpi PROVE Range(EntryPtrs) = Meant(machine)
    <3> DEFINE m == machine
    <3>1. pc \in FromMadt /\ pc \in FromNeeded /\ pc \in FromRsdt
      BY <2>1 DEF PastAcpi, FromRsdt, FromNeeded, FromMadt, FromCores, FromPci, FromHandlers
    <3>2. m \in Machines /\ FindRDSP(m.rom) # 0
      BY <3>1, MadtFacts
    <3>3. EntryPtrs = Entries(Root(m).words, Version(m))
      BY <3>1 DEF BInv, RootRead
    <3>4. /\ \A k \in DOMAIN EntryPtrs : /\ PlaceOf(m, k) \in Listed(m)
                                         /\ EntryPtrs[k] = Root(m).words[PlaceOf(m, k)]
          /\ \A n \in Listed(m) : \E k \in DOMAIN EntryPtrs : n = PlaceOf(m, k)
      BY <3>2, <3>3, EntriesAreListed
    <3>5. Range(EntryPtrs) = {EntryPtrs[k] : k \in DOMAIN EntryPtrs}
      BY DEF Range
    <3> HIDE DEF m
    <3>6. Range(EntryPtrs) \subseteq Meant(m)
      BY <3>4, <3>5 DEF Meant
    <3>7. ASSUME NEW n \in Listed(m) PROVE Root(m).words[n] \in Range(EntryPtrs)
      BY <3>4, <3>5
    <3>8. Meant(m) \subseteq Range(EntryPtrs)
      BY <3>7 DEF Meant
    <3> QED BY <3>6, <3>8 DEF m
  <2>2. ASSUME PastAcpi
        PROVE  /\ MadtTable \in Meant(machine)
               /\ Table(MadtTable).sig = "APIC" /\ IsSound(Table(MadtTable).bytes)
    <3>1. pc \in FromMadt
      BY <2>2 DEF PastAcpi, FromMadt, FromCores, FromPci, FromHandlers
    <3> QED BY <3>1, MadtFacts DEF BInv, MadtRead, IsChosen, Table
  <2> QED BY <2>1, <2>2 DEF FirmwareRead, TablesFound, BInv
<1> QED BY <1>1, Invariant, PTL

(* CKernelEntry comes to its end on the machines that have what it needs,  *)
(* a LAPIC that obeys included, and on no others; it waits for ever for a  *)
(* core (LAPIC.cpp:281, 296, 322, 422) only where the LAPIC does not obey; *)
(* and a path of a built-in program gives that program, every other path   *)
(* the disk's file or nothing.                                             *)
THEOREM RunsWhereGood == Spec => []RunsIfGood
<1>1. BInv => RunsIfGood
  BY DEF BInv, EndIsRight, WaitsRight, RunsIfGood
<1> QED BY <1>1, Invariant, PTL

(* What an interrupt or an earlier life can do to the start has no other   *)
(* causes than those AccidentsKnown names: among them a letter that is     *)
(* echoed while the boot core is in a print.                               *)
THEOREM NoOtherAccidents == Spec => []AccidentsKnown
<1>1. BInv => AccidentsKnown
  BY DEF BInv
<1> QED BY <1>1, Invariant, PTL
=============================================================================
