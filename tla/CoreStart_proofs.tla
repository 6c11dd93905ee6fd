-------------------------- MODULE CoreStart_proofs --------------------------
(***************************************************************************)
(* Proofs about CoreStart, for any cores and any MADT.                     *)
(***************************************************************************)
EXTENDS CoreStart, SequenceTheorems, FiniteSetTheorems, TLAPS

Early == {"scan", "halted", "prepare", "collect"}
Starting == {"start", "await1"}
Timing == {"store", "timer", "await3", "go", "await5", "online"}

IsBsc(n) == LApicArray[n].ApicID = BSC
Usable(n) == Startable(LApicArray[n]) /\ ~IsBsc(n)
Place == 1..NumberLAPICs

(***************************************************************************)
(* The lists, and the boot core in them.                                   *)
(***************************************************************************)
NothingYet ==
  /\ CoreStateList = <<>> /\ CoreStackPtrs = <<>> /\ CoreIDS = <<>>
  /\ CurrentCoreStarting = 0 /\ NumberCores = 0
  /\ \A c \in AP : pc[c] = "off" /\ stack[c] = 0 /\ CoreIndex[c] = 0
  /\ timer = {}

StackPtr == [buffer : Nat, saved : BOOLEAN]

Lists ==
  /\ madt \in Tables
  /\ Devices \in Seq(MadtEntries) /\ LApicArray \in Seq(MadtEntries)
  /\ bsc \in BscPCs
  /\ i \in Nat \ {0}
  /\ bsc \in {"scan", "halted", "prepare"} => LApicArray = <<>> /\ i = 1
  /\ bsc = "collect" => NumberLAPICs < i /\ i <= Len(Devices) + 1
  /\ NumberLAPICs <= Len(Devices)
  /\ bsc \in Early => NothingYet
  /\ CoreStateList \in Seq(0..5) /\ CoreStackPtrs \in Seq(StackPtr)
  /\ bsc \notin Early => Len(CoreStateList) = NumberLAPICs /\ Len(CoreStackPtrs) = NumberLAPICs

Listed(s, from) == \E k \in DOMAIN s : k >= from /\ LapicOf(BSC, s[k])
On(s) == \A k \in DOMAIN s : LapicOf(BSC, s[k]) => s[k].Flags # "off"

BscListed ==
  /\ On(Devices) /\ (madt.sound => On(madt.entries)) 
  /\ \A n \in Place : LApicArray[n].type = "LAPIC" /\ (IsBsc(n) => Startable(LApicArray[n]))
  /\ bsc = "scan" /\ madt.sound => \/ madt.entries = <<>> /\ Devices = <<>>
                                   \/ Listed(madt.entries, 1) \/ Listed(Devices, 1)
  /\ bsc = "prepare" => Devices = <<>> \/ Listed(Devices, 1)
  /\ bsc = "collect" => Listed(Devices, i) \/ \E n \in Place : IsBsc(n)
  /\ bsc \notin Early => \E n \in Place : IsBsc(n)

(***************************************************************************)
(* The cores counted.                                                      *)
(***************************************************************************)
Others(s, m) == {n \in 1..m : s[n].ApicID # BSC}

Counted ==
  /\ bsc \in Starting => i <= NumberLAPICs + 1 /\ NumberCores = Cardinality(Others(LApicArray, i - 1))
  /\ bsc \in Timing => NumberCores = Cardinality(Others(LApicArray, NumberLAPICs)) + 1
  /\ bsc = "await1" => i <= NumberLAPICs
  /\ bsc = "store" => i <= NumberLAPICs + 1
  /\ bsc \in {"timer", "go", "online"} => 2 <= i /\ i <= NumberCores + 1
  /\ bsc \in {"await3", "await5"} => 2 <= i /\ i <= NumberCores
  /\ bsc = "online" => i > NumberCores

(***************************************************************************)
(* The cores and their places.                                             *)
(***************************************************************************)
Joining(c) == pc[c] \in {"entry", "index", "report"}
Placed(c) == pc[c] \in {"report", "await2", "await4", "idle"}

AtPlace(c) ==
  /\ Joining(c) => bsc = "await1" /\ LApicArray[i].ApicID = c /\ CoreStateList[i] = 0
  /\ pc[c] = "index" => stack[c] = i
  /\ pc[c] = "report" => CoreIndex[c] = i
  /\ Placed(c) => /\ CoreIndex[c] \in Place /\ LApicArray[CoreIndex[c]].ApicID = c
                  /\ Usable(CoreIndex[c])
                  /\ stack[c] = CoreIndex[c]
  /\ pc[c] = "await2" => CoreStateList[CoreIndex[c]] \in {1, 2}
  /\ pc[c] = "await4" => CoreStateList[CoreIndex[c]] \in {3, 4}
  /\ pc[c] = "idle" => CoreStateList[CoreIndex[c]] \in {4, 5}
  /\ c \in timer => bsc \in {"go", "await5", "online"}

Places ==
  /\ CurrentCoreStarting \in 0..NumberLAPICs
  /\ bsc = "await1" => CurrentCoreStarting = i /\ Usable(i)
  /\ pc \in [AP -> CorePCs \ {"unknown"}]
  /\ stack \in [AP -> 0..NumberLAPICs] /\ CoreIndex \in [AP -> 0..NumberLAPICs]
  /\ timer \subseteq Core
  /\ \A c \in AP : AtPlace(c)

(***************************************************************************)
(* The states of the places.                                               *)
(***************************************************************************)
Owner(n) == LApicArray[n].ApicID

Owned(n) ==
  /\ Owner(n) \in AP /\ CoreIndex[Owner(n)] = n
  /\ pc[Owner(n)] \in {"await4", "idle"}
  /\ CoreStateList[n] = 3 => pc[Owner(n)] = "await4"
  /\ CoreStateList[n] = 5 => pc[Owner(n)] = "idle"

Done(n) == \* where the boot core is with place n
  IF bsc \in Starting \cup {"store"}
    THEN IF bsc \in Starting /\ n >= i 
           THEN IF bsc = "await1" /\ n = i THEN {0, 1} ELSE {0}
           ELSE IF Usable(n) THEN {1} ELSE {0}
  ELSE IF n = 1 \/ n > NumberCores 
    THEN IF Usable(n) THEN {1} ELSE {0}
  ELSE IF bsc \in {"timer", "await3"}
    THEN IF n < i THEN {3} ELSE IF n = i /\ bsc = "await3" THEN {2, 3} 
         ELSE IF Usable(n) THEN {1} ELSE {0}
  ELSE IF n < i THEN {5} ELSE IF n = i /\ bsc = "await5" THEN {4, 5} ELSE {3}

InOrder(n) ==
  /\ CoreStateList[n] \in Done(n)
  /\ CoreStateList[n] >= 3 => Owned(n)
  /\ CoreStateList[n] = 5 => CoreStackPtrs[n] = [buffer |-> n, saved |-> TRUE]
  /\ CoreStateList[n] # 5 => CoreStackPtrs[n] = [buffer |-> n, saved |-> FALSE]

States == bsc \notin Early => \A n \in Place : InOrder(n)

(***************************************************************************)
(* The ids.                                                                *)
(***************************************************************************)
IdsOf(m) ==
  (\A n \in 1..m : Startable(LApicArray[n])) =>
    /\ m <= Len(CoreIDS)
    /\ \A n \in 1..m : CoreIDS[n] = LApicArray[n].ApicID

Ids ==
  /\ CoreIDS \in Seq(Core)
  /\ bsc \in Early \cup Starting => CoreIDS = <<>>
  /\ bsc = "store" => Len(CoreIDS) < i /\ \A m \in 0..(i - 1) : IdsOf(m)
  /\ bsc \in Timing \ {"store"} => \A m \in 0..NumberLAPICs : IdsOf(m)

IInv == Lists /\ BscListed /\ Counted /\ Places /\ States /\ Ids
-----------------------------------------------------------------------------
(***************************************************************************)
(* Sequences and counts.                                                   *)
(***************************************************************************)
LEMMA SetState ==
  ASSUME NEW S, NEW s \in Seq(S), NEW k \in 1..Len(s), NEW v \in S
  PROVE  /\ [s EXCEPT ![k] = v] \in Seq(S)
         /\ Len([s EXCEPT ![k] = v]) = Len(s)
         /\ \A n \in 1..Len(s) : [s EXCEPT ![k] = v][n] = IF n = k THEN v ELSE s[n]
BY ExceptSeq

LEMMA TableStep ==
  ASSUME NEW s \in Seq(MadtEntries), s # <<>>
  PROVE  /\ Head(s) \in MadtEntries /\ Tail(s) \in Seq(MadtEntries)
         /\ Len(s) \in Nat \ {0} /\ Len(Tail(s)) = Len(s) - 1
         /\ Head(s) = s[1] /\ \A k \in 1..Len(Tail(s)) : Tail(s)[k] = s[k + 1]
OBVIOUS

LEMMA AddEntry ==
  ASSUME NEW S, NEW s \in Seq(S), NEW e \in S
  PROVE  /\ Append(s, e) \in Seq(S) /\ Len(Append(s, e)) = Len(s) + 1
         /\ Append(s, e)[Len(s) + 1] = e /\ \A k \in 1..Len(s) : Append(s, e)[k] = s[k]
OBVIOUS

LEMMA OthersCount ==
  ASSUME NEW s, NEW m \in Nat
  PROVE  /\ Cardinality(Others(s, 0)) = 0
         /\ IsFiniteSet(Others(s, m)) /\ Cardinality(Others(s, m)) \in Nat
         /\ Cardinality(Others(s, m)) <= m
         /\ Cardinality(Others(s, m + 1)) = Cardinality(Others(s, m)) + (IF s[m + 1].ApicID = BSC THEN 0 ELSE 1)
<1>1. IsFiniteSet(1..m) /\ Cardinality(1..m) = m
  BY FS_Interval
<1>2. Others(s, m) \subseteq 1..m /\ Others(s, 0) = {}
  BY DEF Others
<1>3. IsFiniteSet(Others(s, m)) /\ Cardinality(Others(s, m)) \in Nat /\ Cardinality(Others(s, m)) <= m
  BY <1>1, <1>2, FS_Subset, FS_CardinalityType
<1>4. Cardinality(Others(s, 0)) = 0
  BY <1>2, FS_EmptySet
<1>5. CASE s[m + 1].ApicID = BSC
  <2>1. Others(s, m + 1) = Others(s, m)
    BY <1>5 DEF Others
  <2> QED BY <1>3, <1>4, <1>5, <2>1
<1>6. CASE s[m + 1].ApicID # BSC
  <2>1. Others(s, m + 1) = Others(s, m) \cup {m + 1} /\ m + 1 \notin Others(s, m)
    BY <1>6 DEF Others
  <2>2. Cardinality(Others(s, m + 1)) = Cardinality(Others(s, m)) + 1
    BY <1>3, <2>1, FS_AddElement
  <2> QED BY <1>3, <1>4, <1>6, <2>2
<1> QED BY <1>5, <1>6

LEMMA NumberOfCores ==
  ASSUME Lists, BscListed, Counted, bsc \in Timing
  PROVE  NumberCores \in 1..NumberLAPICs /\ NumberLAPICs \in Nat
<1>1. NumberLAPICs \in Nat
  BY DEF Lists, NumberLAPICs
<1>2. PICK b \in 1..NumberLAPICs : IsBsc(b)
  BY DEF BscListed, Place, Timing, Early
<1>3. IsFiniteSet(1..NumberLAPICs) /\ Cardinality(1..NumberLAPICs) = NumberLAPICs
  BY <1>1, FS_Interval
<1>4. /\ IsFiniteSet((1..NumberLAPICs) \ {b})
      /\ Cardinality((1..NumberLAPICs) \ {b}) = NumberLAPICs - 1
  BY <1>2, <1>3, FS_RemoveElement
<1>5. Others(LApicArray, NumberLAPICs) \subseteq (1..NumberLAPICs) \ {b}
  BY <1>2 DEF Others, IsBsc
<1>6. Cardinality(Others(LApicArray, NumberLAPICs)) <= NumberLAPICs - 1
  BY <1>4, <1>5, FS_Subset
<1> QED BY <1>1, <1>6, OthersCount DEF Counted

-----------------------------------------------------------------------------
(***************************************************************************)
(* When every core has answered, the boot core's LAPIC is the first, the   *)
(* places of the others follow, and the ids are those of the places.       *)
(***************************************************************************)
Answered == bsc \in {"go", "await5", "online"}

LEMMA AllAnswered ==
  ASSUME IInv, Answered
  PROVE  /\ IsBsc(1)
         /\ \A n \in 2..NumberCores : Owned(n) /\ CoreStateList[n] >= 3
         /\ \A n \in Place : ~IsBsc(n) => n \in 2..NumberCores
         /\ \A n \in 1..NumberCores : n \in DOMAIN CoreIDS /\ CoreIDS[n] = Owner(n)
<1> USE DEF IInv
<1>1. NumberCores \in 1..NumberLAPICs /\ NumberLAPICs \in Nat
  BY NumberOfCores DEF Answered, Timing
<1>2. ASSUME NEW n \in 2..NumberCores
      PROVE  Owned(n) /\ n \in Place /\ CoreStateList[n] >= 3
  <2>1. n \in Place /\ n # 1 /\ ~(n > NumberCores)
    BY <1>1, <1>2 DEF Place
  <2>2. CoreStateList[n] \in Done(n) /\ (CoreStateList[n] >= 3 => Owned(n))
    BY <2>1 DEF States, InOrder, Answered, Early
  <2>3. CoreStateList[n] \in {3, 4, 5}
    BY <2>1, <2>2 DEF Done, Answered, Starting
  <2> QED BY <2>1, <2>2, <2>3
<1>3. \A n \in 2..NumberCores : Usable(n)
  BY <1>2 DEF Places, AtPlace, Owned, Placed
<1>4. Others(LApicArray, NumberLAPICs) = 2..NumberCores
  <2>1. 2..NumberCores \subseteq Others(LApicArray, NumberLAPICs)
    BY <1>1, <1>3 DEF Others, Usable, IsBsc
  <2>2. Cardinality(2..NumberCores) = NumberCores - 1 /\ IsFiniteSet(2..NumberCores)
    BY <1>1, FS_Interval
  <2>3. Cardinality(Others(LApicArray, NumberLAPICs)) = NumberCores - 1
    BY <1>1, OthersCount DEF Counted, Answered, Timing
  <2> QED BY <1>1, <2>1, <2>2, <2>3, OthersCount, FS_Subset
<1>5. IsBsc(1) /\ \A n \in Place : ~IsBsc(n) => n \in 2..NumberCores
  BY <1>1, <1>4 DEF Others, Place, IsBsc
<1>6. \A n \in 1..NumberCores : Startable(LApicArray[n])
  BY <1>1, <1>3, <1>5 DEF BscListed, Place, Usable
<1>7. IdsOf(NumberCores)
  BY <1>1 DEF Ids, Answered, Timing
<1>8. NumberCores <= Len(CoreIDS) /\ \A n \in 1..NumberCores : CoreIDS[n] = Owner(n)
  BY <1>6, <1>7 DEF IdsOf, Owner
<1>9. \A n \in 1..NumberCores : n \in DOMAIN CoreIDS
  BY <1>1, <1>8 DEF Ids
<1> QED BY <1>2, <1>5, <1>8, <1>9

(* A core that ticks finds its own place.                                  *)
LEMMA TickEffect ==
  ASSUME IInv, NEW c \in AP, FirstTick(c)
  PROVE  /\ Answered /\ CoreIndex[c] \in Place /\ CoreStateList[CoreIndex[c]] = 4
         /\ CoreStateList' = [CoreStateList EXCEPT ![CoreIndex[c]] = 5]
         /\ CoreStackPtrs' = [CoreStackPtrs EXCEPT
              ![CoreIndex[c]] = [buffer |-> CoreIndex[c], saved |-> TRUE]]
         /\ UNCHANGED <<bscVars, coreVars>>
<1> USE DEF IInv
<1> DEFINE m == CoreIndex[c]
<1>1. /\ m \in Place /\ Owner(m) = c /\ stack[c] = m /\ Usable(m) /\ c \in timer
  BY DEF FirstTick, Places, AtPlace, Placed, Owner
<1>2. Answered
  BY <1>1 DEF Places, AtPlace, Answered
<1>3. m \in 2..NumberCores /\ NumberCores \in Nat /\ m \in Nat
  <2>1. NumberCores \in Nat
    BY <1>2, NumberOfCores DEF Answered, Timing
  <2>2. m \in 2..NumberCores
    BY <1>1, <1>2, AllAnswered DEF Usable
  <2> QED BY <2>1, <2>2
<1>4. m \in DOMAIN CoreIDS /\ CoreIDS[m] = c
  BY <1>1, <1>2, <1>3, AllAnswered
<1>5. ASSUME NEW k \in DOMAIN CoreIDS, KnownAs(c, k)
      PROVE  k = m
  <2>1. k \in Nat /\ k >= 1 /\ k <= m /\ CoreIDS[k] = c
    BY <1>4, <1>5 DEF KnownAs, Ids
  <2>2. k \in 1..NumberCores
    BY <1>3, <2>1
  <2>3. Owner(k) = c /\ k # 1
    BY <1>2, <2>1, <2>2, AllAnswered DEF Owner, IsBsc, AP
  <2>4. Owned(k)
    BY <1>2, <2>2, <2>3, AllAnswered
  <2> QED BY <2>3, <2>4 DEF Owned
<1>6. KnownAs(c, m)
  <2> SUFFICES ASSUME NEW n \in DOMAIN CoreIDS, CoreIDS[n] = c
               PROVE  m <= n
    BY <1>4 DEF KnownAs
  <2> SUFFICES ASSUME n < m
               PROVE  FALSE
    BY <1>3 DEF Ids
  <2>1. n \in 1..NumberCores
    BY <1>3 DEF Ids
  <2>2. Owner(n) = c /\ n # 1
    BY <1>2, <2>1, AllAnswered DEF Owner, IsBsc, AP
  <2>3. Owned(n)
    BY <1>2, <2>1, <2>2, AllAnswered
  <2> QED BY <1>3, <2>1, <2>2, <2>3 DEF Owned
<1>7. /\ CoreStateList[m] = 4
      /\ CoreStateList' = [CoreStateList EXCEPT ![m] = 5]
      /\ CoreStackPtrs' = [CoreStackPtrs EXCEPT ![m] = [buffer |-> stack[c], saved |-> TRUE]]
      /\ UNCHANGED <<bscVars, coreVars>>
  BY <1>4, <1>5, <1>6 DEF FirstTick, coreVars
<1> QED BY <1>1, <1>2, <1>7

-----------------------------------------------------------------------------
(***************************************************************************)
(* The steps keep the lists.                                               *)
(***************************************************************************)
LEMMA CoresWait ==
  ASSUME IInv, NEW c \in AP, CoreStep(c)
  PROVE  bsc \notin Early
BY DEF IInv, Lists, NothingYet, CoreStep, TakeStack, TakeIndex, Report, GetReady, StartTimer, FirstTick

LEMMA PlaceSet ==
  ASSUME IInv, bsc \notin Early, NEW k \in Place, NEW v \in 0..5
  PROVE  /\ [CoreStateList EXCEPT ![k] = v] \in Seq(0..5)
         /\ Len([CoreStateList EXCEPT ![k] = v]) = Len(CoreStateList)
         /\ \A n \in Place : [CoreStateList EXCEPT ![k] = v][n] = IF n = k THEN v
                                                                   ELSE CoreStateList[n]
<1>1. CoreStateList \in Seq(0..5) /\ Len(CoreStateList) = NumberLAPICs
  BY DEF IInv, Lists
<1> QED BY <1>1, SetState DEF Place

LEMMA TickSet ==
  ASSUME IInv, NEW c \in AP, FirstTick(c)
  PROVE  /\ CoreStackPtrs' \in Seq(StackPtr)
         /\ Len(CoreStackPtrs') = Len(CoreStackPtrs)
         /\ \A n \in Place : CoreStackPtrs'[n] = IF n = CoreIndex[c]
              THEN [buffer |-> n, saved |-> TRUE] ELSE CoreStackPtrs[n]
<1> DEFINE k == CoreIndex[c]
           v == [buffer |-> k, saved |-> TRUE]
           S == StackPtr
<1>1. k \in Place /\ CoreStackPtrs' = [CoreStackPtrs EXCEPT ![k] = v] /\ Answered
  BY TickEffect
<1>2. CoreStackPtrs \in Seq(S) /\ Len(CoreStackPtrs) = NumberLAPICs
  BY <1>1 DEF IInv, Lists, Answered, Early
<1>3. k \in Nat /\ k \in 1..Len(CoreStackPtrs)
  BY <1>1, <1>2 DEF Place
<1>4. v \in S
  BY <1>3 DEF StackPtr
<1> HIDE DEF k, v, S
<1>5. /\ CoreStackPtrs' \in Seq(S) /\ Len(CoreStackPtrs') = Len(CoreStackPtrs)
      /\ \A n \in 1..Len(CoreStackPtrs) : CoreStackPtrs'[n] = IF n = k THEN v ELSE CoreStackPtrs[n]
  BY <1>1, <1>2, <1>3, <1>4, SetState
<1> QED BY <1>2, <1>5 DEF k, v, S, Place

(* The loops of the boot core stay in the list.                            *)
LEMMA LoopPlace ==
  ASSUME IInv
  PROVE  /\ bsc \in {"timer", "go"} /\ i <= NumberCores => i \in Place
         /\ bsc \in {"await3", "await5"} => i \in Place
         /\ bsc \in {"start", "store"} /\ i <= NumberLAPICs => i \in Place
         /\ bsc = "await1" => i \in Place
         /\ bsc \in Timing => NumberCores \in 1..NumberLAPICs
         /\ NumberLAPICs \in Nat /\ i \in Nat
<1>1. NumberLAPICs \in Nat /\ i \in Nat /\ i >= 1
  BY DEF IInv, Lists, NumberLAPICs
<1>2. bsc \in Timing => NumberCores \in 1..NumberLAPICs
  BY NumberOfCores DEF IInv
<1> QED BY <1>1, <1>2 DEF IInv, Counted, Place, Timing, Starting

LEMMA ListsStep ==
  ASSUME IInv, [Next]_vars
  PROVE  Lists'
<1>0. Lists /\ BscListed /\ Counted /\ Places /\ States /\ Ids
  BY DEF IInv
<1> USE <1>0 DEF Lists, BscPCs, Early, NumberLAPICs
<1>1. ASSUME ScanMadt
      PROVE  Lists'
  <2>1. /\ bsc = "scan" /\ bsc' \in {"scan", "halted", "prepare"}
        /\ UNCHANGED <<LApicArray, i, CurrentCoreStarting, NumberCores, CoreIDS, CoreStateList,
                       CoreStackPtrs, coreVars>>
    BY <1>1 DEF ScanMadt, BscGoto
  <2>2. madt' \in Tables /\ Devices' \in Seq(MadtEntries)
    <3>1. CASE UNCHANGED <<madt, Devices>>
      BY <3>1
    <3>2. CASE /\ madt.entries # <<>> /\ Devices' = Append(Devices, Head(madt.entries))
               /\ madt' = [madt EXCEPT !.entries = Tail(madt.entries)]
      <4>1. Head(madt.entries) \in MadtEntries /\ Tail(madt.entries) \in Seq(MadtEntries)
        BY <3>2, TableStep DEF Tables
      <4>2. Devices' \in Seq(MadtEntries)
        BY <3>2, <4>1, AddEntry
      <4>3. madt' \in Tables
        BY <3>2, <4>1 DEF Tables
      <4> QED BY <4>2, <4>3
    <3> QED BY <1>1, <3>1, <3>2 DEF ScanMadt
  <2>3. Len(Devices') \in Nat
    BY <2>2
  <2> QED BY <2>1, <2>2, <2>3 DEF NothingYet, coreVars
<1>2. ASSUME PrepareCores
      PROVE  Lists'
  <2>1. /\ bsc = "prepare" /\ bsc' \in {"halted", "collect"}
        /\ UNCHANGED <<madt, Devices, LApicArray, i, CurrentCoreStarting, NumberCores, CoreIDS,
                       CoreStateList, CoreStackPtrs, coreVars>>
    BY <1>2 DEF PrepareCores, BscGoto
  <2> QED BY <2>1 DEF NothingYet, coreVars
<1>3. ASSUME CollectLAPICs
      PROVE  Lists'
  <2>1. CASE i <= Len(Devices)
    <3>1. /\ bsc = "collect" /\ bsc' = "collect" /\ i' = i + 1
          /\ LApicArray' = LApicArray \/ LApicArray' = Append(LApicArray, Devices[i])
          /\ UNCHANGED <<madt, Devices, CurrentCoreStarting, NumberCores, CoreIDS, CoreStateList,
                         CoreStackPtrs, coreVars>>
      BY <1>3, <2>1 DEF CollectLAPICs
    <3>2. Devices[i] \in MadtEntries
      BY <2>1
    <3>3. LApicArray' \in Seq(MadtEntries) /\ Len(LApicArray') <= Len(LApicArray) + 1
      <4>1. CASE LApicArray' = LApicArray
        BY <4>1
      <4>2. CASE LApicArray' = Append(LApicArray, Devices[i])
        BY <3>2, <4>2, AddEntry
      <4> QED BY <3>1, <4>1, <4>2
    <3>4. Len(LApicArray') < i' /\ Len(LApicArray') <= Len(Devices) /\ i' <= Len(Devices) + 1
      BY <2>1, <3>1, <3>3
    <3> QED BY <3>1, <3>3, <3>4 DEF NothingYet, coreVars
  <2>2. CASE i > Len(Devices)
    <3>1. /\ bsc' = "start" /\ i' = 1
          /\ CoreStateList' = [n \in 1..NumberLAPICs |-> 0]
          /\ CoreStackPtrs' = [n \in 1..NumberLAPICs |-> [buffer |-> n, saved |-> FALSE]]
          /\ UNCHANGED <<madt, Devices, LApicArray>>
      BY <1>3, <2>2 DEF CollectLAPICs, BscGoto
    <3>2. NumberLAPICs \in Nat
      OBVIOUS
    <3>3. CoreStateList' \in Seq(0..5) /\ Len(CoreStateList') = NumberLAPICs
      BY <3>1, <3>2
    <3>4. /\ CoreStackPtrs' \in Seq(StackPtr)
          /\ Len(CoreStackPtrs') = NumberLAPICs
      BY <3>1, <3>2 DEF StackPtr
    <3> QED BY <3>1, <3>3, <3>4
  <2> QED BY <1>3, <2>1, <2>2
<1>4. ASSUME StartCore
      PROVE  Lists'
  BY <1>4 DEF StartCore, BscGoto, SendStartup, bscVars, coreVars
<1>5. ASSUME CoreStarted
      PROVE  Lists'
  BY <1>5 DEF CoreStarted, BscGoto, bscVars, coreVars
<1>6. ASSUME CountBsc
      PROVE  Lists'
  BY <1>6 DEF CountBsc, BscGoto, bscVars, coreVars
<1>7. ASSUME StoreIDs
      PROVE  Lists'
  BY <1>7 DEF StoreIDs, BscGoto, bscVars, coreVars
<1>8. ASSUME Release
      PROVE  Lists'
  <2>1. /\ bsc \notin Early /\ bsc' \notin Early /\ bsc' \in BscPCs
        /\ UNCHANGED <<madt, Devices, LApicArray, CoreStackPtrs>> /\ i' \in Nat \ {0}
    BY <1>8 DEF Release, BscGoto, bscVars, coreVars
  <2>2. CASE CoreStateList' = CoreStateList
    BY <2>1, <2>2
  <2>3. CASE CoreStateList' # CoreStateList
    <3>1. PICK k \in Place : CoreStateList' = [CoreStateList EXCEPT ![k] = 2]
      BY <1>8, <2>3, LoopPlace DEF Release, BscGoto, bscVars, coreVars
    <3>2. CoreStateList' \in Seq(0..5) /\ Len(CoreStateList') = Len(CoreStateList)
      BY <2>1, <3>1, PlaceSet
    <3> QED BY <2>1, <3>2
  <2> QED BY <2>2, <2>3
<1>9. ASSUME CoreReady
      PROVE  Lists'
  BY <1>9 DEF CoreReady, BscGoto, bscVars, coreVars
<1>10. ASSUME Go
      PROVE  Lists'
  <2>1. /\ bsc \notin Early /\ bsc' \notin Early /\ bsc' \in BscPCs
        /\ UNCHANGED <<madt, Devices, LApicArray, CoreStackPtrs>> /\ i' \in Nat \ {0}
    BY <1>10 DEF Go, BscGoto, bscVars, coreVars
  <2>2. CASE CoreStateList' = CoreStateList
    BY <2>1, <2>2
  <2>3. CASE CoreStateList' # CoreStateList
    <3>1. PICK k \in Place : CoreStateList' = [CoreStateList EXCEPT ![k] = 4]
      BY <1>10, <2>3, LoopPlace DEF Go, BscGoto, bscVars, coreVars
    <3>2. CoreStateList' \in Seq(0..5) /\ Len(CoreStateList') = Len(CoreStateList)
      BY <2>1, <3>1, PlaceSet
    <3> QED BY <2>1, <3>2
  <2> QED BY <2>2, <2>3
<1>11. ASSUME CoreOnline
      PROVE  Lists'
  BY <1>11 DEF CoreOnline, BscGoto, bscVars, coreVars
<1>12. ASSUME NEW c \in AP, TakeStack(c)
      PROVE  Lists'
  <2>1. bsc \notin Early
    BY <1>12, CoresWait DEF CoreStep
  <2> QED BY <1>12, <2>1 DEF TakeStack, Goto, bscVars, coreVars
<1>13. ASSUME NEW c \in AP, TakeIndex(c)
      PROVE  Lists'
  <2>1. bsc \notin Early
    BY <1>13, CoresWait DEF CoreStep
  <2> QED BY <1>13, <2>1 DEF TakeIndex, Goto, bscVars, coreVars
<1>14. ASSUME NEW c \in AP, Report(c)
      PROVE  Lists'
  <2>1. bsc \notin Early /\ CoreIndex[c] \in Place /\ UNCHANGED <<bscVars, CoreStackPtrs>>
    BY <1>14, CoresWait DEF CoreStep, Places, AtPlace, Placed, Report, Goto, bscVars, coreVars
  <2>2. PICK k \in Place : CoreStateList' = [CoreStateList EXCEPT ![k] = 1]
    BY <1>14, <2>1 DEF Report, Goto, bscVars, coreVars
  <2>3. CoreStateList' \in Seq(0..5) /\ Len(CoreStateList') = Len(CoreStateList)
    BY <2>1, <2>2, PlaceSet
  <2> QED BY <2>1, <2>3 DEF bscVars
<1>15. ASSUME NEW c \in AP, GetReady(c)
      PROVE  Lists'
  <2>1. bsc \notin Early /\ CoreIndex[c] \in Place /\ UNCHANGED <<bscVars, CoreStackPtrs>>
    BY <1>15, CoresWait DEF CoreStep, Places, AtPlace, Placed, GetReady, Goto, bscVars, coreVars
  <2>2. PICK k \in Place : CoreStateList' = [CoreStateList EXCEPT ![k] = 3]
    BY <1>15, <2>1 DEF GetReady, Goto, bscVars, coreVars
  <2>3. CoreStateList' \in Seq(0..5) /\ Len(CoreStateList') = Len(CoreStateList)
    BY <2>1, <2>2, PlaceSet
  <2> QED BY <2>1, <2>3 DEF bscVars
<1>16. ASSUME NEW c \in AP, StartTimer(c)
      PROVE  Lists'
  <2>1. bsc \notin Early
    BY <1>16, CoresWait DEF CoreStep
  <2> QED BY <1>16, <2>1 DEF StartTimer, Goto, bscVars, coreVars
<1>17. ASSUME NEW c \in AP, FirstTick(c)
      PROVE  Lists'
  <2>1. /\ Answered /\ UNCHANGED bscVars /\ CoreIndex[c] \in Place
        /\ CoreStateList' = [CoreStateList EXCEPT ![CoreIndex[c]] = 5]
    BY <1>17, TickEffect
  <2>2. PICK k \in Place : CoreStateList' = [CoreStateList EXCEPT ![k] = 5]
    BY <2>1
  <2>3. bsc \notin Early
    BY <2>1 DEF Answered
  <2>4. CoreStateList' \in Seq(0..5) /\ Len(CoreStateList') = Len(CoreStateList)
    BY <2>2, <2>3, PlaceSet
  <2>5. CoreStackPtrs' \in Seq(StackPtr) /\ Len(CoreStackPtrs') = Len(CoreStackPtrs)
    BY <1>17, TickSet
  <2>6. UNCHANGED <<madt, Devices, LApicArray, bsc, i>>
    BY <2>1 DEF bscVars
  <2> QED BY <2>3, <2>4, <2>5, <2>6
<1>18. CASE UNCHANGED vars
  BY <1>18 DEF vars, bscVars, coreVars, NothingYet
<1> QED BY <1>1, <1>2, <1>3, <1>4, <1>5, <1>6, <1>7, <1>8, <1>9, <1>10, <1>11, <1>12, <1>13, <1>14, <1>15, <1>16, <1>17, <1>18 DEF Next, BscStep, CoreStep

-----------------------------------------------------------------------------
(***************************************************************************)
(* The boot core stays listed, and the cores are counted.                  *)
(***************************************************************************)
LEMMA BscListedStep ==
  ASSUME IInv, [Next]_vars
  PROVE  BscListed'
<1>0. Lists /\ BscListed
  BY DEF IInv
<1> USE <1>0
<1>1. ASSUME ScanMadt
      PROVE  BscListed'
  <2>1. bsc = "scan" /\ UNCHANGED LApicArray
    BY <1>1 DEF ScanMadt
  <2>2. CASE ~madt.sound
    <3>1. bsc' = "halted" /\ UNCHANGED <<madt, Devices>>
      BY <1>1, <2>2 DEF ScanMadt, BscGoto
    <3> QED BY <2>1, <2>2, <3>1 DEF BscListed, On, Place, NumberLAPICs, IsBsc, Early
  <2>3. CASE madt.sound /\ madt.entries # <<>>
    <3> DEFINE s == madt.entries
               l == Len(Devices)
    <3>1. /\ bsc' = "scan" /\ Devices' = Append(Devices, Head(s))
          /\ madt'.entries = Tail(s) /\ madt'.sound
      <4>1. /\ bsc' = "scan" /\ Devices' = Append(Devices, Head(s))
            /\ madt' = [madt EXCEPT !.entries = Tail(s)]
        BY <1>1, <2>1, <2>3 DEF ScanMadt
      <4> HIDE DEF s
      <4>2. madt \in [sound : BOOLEAN, entries : Seq(MadtEntries)]
        BY DEF Lists, Tables
      <4> QED BY <2>3, <4>1, <4>2
    <3>2. /\ Head(s) \in MadtEntries /\ Head(s) = s[1] /\ Len(s) \in Nat \ {0}
          /\ DOMAIN s = 1..Len(s) /\ DOMAIN Tail(s) = 1..(Len(s) - 1)
          /\ \A k \in DOMAIN Tail(s) : Tail(s)[k] = s[k + 1]
      BY <2>3, TableStep DEF Lists, Tables
    <3>3. /\ l \in Nat /\ DOMAIN Devices = 1..l /\ DOMAIN Devices' = 1..(l + 1)
          /\ Devices'[l + 1] = s[1] /\ \A k \in 1..l : Devices'[k] = Devices[k]
      BY <3>1, <3>2, AddEntry DEF Lists
    <3>4. /\ On(s) /\ On(Devices)
          /\ Listed(s, 1) \/ Listed(Devices, 1)
      BY <2>1, <2>3 DEF BscListed
    <3> HIDE DEF s, l
    <3>5. \A k \in DOMAIN Tail(s) : k + 1 \in DOMAIN s
      BY <3>2
    <3>6. On(Tail(s))
      BY <3>2, <3>4, <3>5 DEF On
    <3>7. On(Devices)'
      <4>1. 1 \in DOMAIN s
        BY <3>2
      <4>2. \A k \in DOMAIN Devices' : k = l + 1 \/ k \in DOMAIN Devices
        BY <3>3
      <4> QED BY <3>3, <3>4, <4>1, <4>2 DEF On, LapicOf
    <3>8. Listed(Tail(s), 1) \/ Listed(Devices, 1)'
      <4>1. CASE Listed(Devices, 1)
        BY <3>3, <4>1 DEF Listed
      <4>2. CASE Listed(s, 1)
        <5>1. PICK k \in DOMAIN s : LapicOf(BSC, s[k])
          BY <4>2 DEF Listed
        <5>2. CASE k = 1
          <6>1. l + 1 \in DOMAIN Devices' /\ l + 1 >= 1
            BY <3>3
          <6> QED BY <3>3, <5>1, <5>2, <6>1 DEF Listed, LapicOf
        <5>3. CASE k # 1
          <6>1. k - 1 \in DOMAIN Tail(s) /\ k - 1 >= 1 /\ (k - 1) + 1 = k
            BY <3>2, <5>3
          <6> QED BY <3>2, <5>1, <6>1 DEF Listed
        <5> QED BY <5>2, <5>3
      <4> QED BY <3>4, <4>1, <4>2
    <3>9. On(madt.entries)' /\ (Listed(madt.entries, 1)' \/ Listed(Devices, 1)')
      BY <3>1, <3>6, <3>8 DEF On, Listed, s
    <3> QED BY <2>1, <3>1, <3>7, <3>9 DEF BscListed, Place, NumberLAPICs, IsBsc, Early
  <2>4. CASE madt.sound /\ madt.entries = <<>>
    <3>1. bsc' = "prepare" /\ UNCHANGED <<madt, Devices>>
      BY <1>1, <2>4 DEF ScanMadt, BscGoto
    <3>2. ~Listed(madt.entries, 1)
      BY <2>4 DEF Listed
    <3>3. Devices = <<>> \/ Listed(Devices, 1)
      BY <2>1, <2>4, <3>2 DEF BscListed
    <3> QED BY <2>1, <2>4, <3>1, <3>3 DEF BscListed, Listed, On, Place, NumberLAPICs, IsBsc, Early
  <2> QED BY <2>2, <2>3, <2>4
<1>2. ASSUME PrepareCores
      PROVE  BscListed'
  <2>1. /\ bsc = "prepare" /\ bsc' = IF Devices = <<>> THEN "halted" ELSE "collect"
        /\ UNCHANGED <<madt, Devices, LApicArray, i>> /\ i = 1
    BY <1>2 DEF PrepareCores, BscGoto, Lists
  <2> QED BY <2>1 DEF BscListed, Listed, On, Place, NumberLAPICs, IsBsc, Early
<1>3. ASSUME CollectLAPICs
      PROVE  BscListed'
  <2>1. bsc = "collect" /\ UNCHANGED <<madt, Devices>>
    BY <1>3 DEF CollectLAPICs
  <2>2. CASE i <= Len(Devices)
    <3> DEFINE l == Len(LApicArray)
               d == Devices[i]
    <3>1. /\ bsc' = "collect" /\ i' = i + 1 /\ i \in Nat /\ Len(Devices) \in Nat
          /\ LApicArray' = IF d.type = "LAPIC" THEN Append(LApicArray, d) ELSE LApicArray
      BY <1>3, <2>1, <2>2 DEF CollectLAPICs, Lists
    <3>2. i \in Nat /\ i \in DOMAIN Devices /\ d \in MadtEntries /\ l \in Nat
      BY <2>2 DEF Lists
    <3>3. LapicOf(BSC, d) => Startable(d)
      BY <3>2 DEF BscListed, On, Startable
    <3>4. CASE d.type # "LAPIC"
      <4>1. Listed(Devices, i) => Listed(Devices, i + 1)
        <5>1. ~LapicOf(BSC, d)
          BY <3>4 DEF LapicOf
        <5>2. \A k \in DOMAIN Devices : k >= i /\ k # i => k >= i + 1
          BY <3>2 DEF Lists
        <5> QED BY <5>1, <5>2 DEF Listed
      <4> QED BY <2>1, <3>1, <3>4, <4>1 DEF BscListed, Listed, On, Place, NumberLAPICs, IsBsc, Early
    <3>5. CASE d.type = "LAPIC"
      <4>1. /\ LApicArray' = Append(LApicArray, d) /\ Len(LApicArray') = l + 1
            /\ LApicArray'[l + 1] = d /\ \A n \in 1..l : LApicArray'[n] = LApicArray[n]
        BY <3>1, <3>2, <3>5, AddEntry DEF Lists
      <4> HIDE DEF d
      <4>2. Place' = Place \cup {l + 1}
        BY <3>2, <4>1 DEF Place, NumberLAPICs
      <4>3. \A n \in Place' : /\ LApicArray'[n].type = "LAPIC"
                              /\ LApicArray'[n].ApicID = BSC => Startable(LApicArray'[n])
        BY <3>3, <3>5, <4>1, <4>2 DEF BscListed, Place, NumberLAPICs, IsBsc, LapicOf
      <4>4. Listed(Devices, i + 1) \/ \E n \in Place' : LApicArray'[n].ApicID = BSC
        <5>1. CASE \E n \in Place : IsBsc(n)
          BY <4>1, <4>2, <5>1 DEF Place, NumberLAPICs, IsBsc
        <5>2. CASE d.ApicID = BSC
          BY <4>1, <4>2, <5>2
        <5>3. CASE Listed(Devices, i) /\ d.ApicID # BSC
          <6>1. ~LapicOf(BSC, d)
            BY <5>3 DEF LapicOf
          <6>2. \A k \in DOMAIN Devices : k >= i /\ k # i => k >= i + 1
            BY <3>2 DEF Lists
          <6> QED BY <5>3, <6>1, <6>2 DEF Listed, d
        <5> QED BY <2>1, <5>1, <5>2, <5>3 DEF BscListed
      <4>5. On(Devices)' /\ (madt.sound => On(madt.entries))'
        BY <2>1 DEF BscListed, On
      <4>6. (Listed(Devices, i) \/ \E n \in Place : IsBsc(n))'
        BY <2>1, <3>1, <4>4 DEF Listed, IsBsc
      <4>7. (\A n \in Place : LApicArray[n].type = "LAPIC" /\ (IsBsc(n) => Startable(LApicArray[n])))'
        BY <4>3 DEF IsBsc, Startable
      <4> QED BY <3>1, <4>5, <4>6, <4>7 DEF BscListed, Early
    <3> QED BY <3>4, <3>5
  <2>3. CASE i > Len(Devices)
    <3>1. bsc' = "start" /\ UNCHANGED LApicArray
      BY <1>3, <2>3 DEF CollectLAPICs, BscGoto, Lists
    <3>2. ~Listed(Devices, i)
      BY <2>3 DEF Listed, Lists
    <3> QED BY <2>1, <3>1, <3>2 DEF BscListed, On, Place, NumberLAPICs, IsBsc, Early
  <2>4. i \in Nat /\ Len(Devices) \in Nat
    BY DEF Lists
  <2> QED BY <2>2, <2>3, <2>4
<1>4. ASSUME StartCore
      PROVE  BscListed'
  <2>1. /\ bsc \notin Early /\ bsc' \notin Early
        /\ UNCHANGED <<madt, Devices, LApicArray>>
    BY <1>4 DEF StartCore, BscGoto, SendStartup, bscVars, coreVars, Early
  <2> QED BY <2>1 DEF BscListed, Listed, On, Place, NumberLAPICs, IsBsc, Early
<1>5. ASSUME CoreStarted
      PROVE  BscListed'
  <2>1. /\ bsc \notin Early /\ bsc' \notin Early
        /\ UNCHANGED <<madt, Devices, LApicArray>>
    BY <1>5 DEF CoreStarted, BscGoto, bscVars, coreVars, Early
  <2> QED BY <2>1 DEF BscListed, Listed, On, Place, NumberLAPICs, IsBsc, Early
<1>6. ASSUME CountBsc
      PROVE  BscListed'
  <2>1. /\ bsc \notin Early /\ bsc' \notin Early
        /\ UNCHANGED <<madt, Devices, LApicArray>>
    BY <1>6 DEF CountBsc, BscGoto, bscVars, coreVars, Early
  <2> QED BY <2>1 DEF BscListed, Listed, On, Place, NumberLAPICs, IsBsc, Early
<1>7. ASSUME StoreIDs
      PROVE  BscListed'
  <2>1. /\ bsc \notin Early /\ bsc' \notin Early
        /\ UNCHANGED <<madt, Devices, LApicArray>>
    BY <1>7 DEF StoreIDs, BscGoto, bscVars, coreVars, Early
  <2> QED BY <2>1 DEF BscListed, Listed, On, Place, NumberLAPICs, IsBsc, Early
<1>8. ASSUME Release
      PROVE  BscListed'
  <2>1. /\ bsc \notin Early /\ bsc' \notin Early
        /\ UNCHANGED <<madt, Devices, LApicArray>>
    BY <1>8 DEF Release, BscGoto, bscVars, coreVars, Early
  <2> QED BY <2>1 DEF BscListed, Listed, On, Place, NumberLAPICs, IsBsc, Early
<1>9. ASSUME CoreReady
      PROVE  BscListed'
  <2>1. /\ bsc \notin Early /\ bsc' \notin Early
        /\ UNCHANGED <<madt, Devices, LApicArray>>
    BY <1>9 DEF CoreReady, BscGoto, bscVars, coreVars, Early
  <2> QED BY <2>1 DEF BscListed, Listed, On, Place, NumberLAPICs, IsBsc, Early
<1>10. ASSUME Go
      PROVE  BscListed'
  <2>1. /\ bsc \notin Early /\ bsc' \notin Early
        /\ UNCHANGED <<madt, Devices, LApicArray>>
    BY <1>10 DEF Go, BscGoto, bscVars, coreVars, Early
  <2> QED BY <2>1 DEF BscListed, Listed, On, Place, NumberLAPICs, IsBsc, Early
<1>11. ASSUME CoreOnline
      PROVE  BscListed'
  <2>1. /\ bsc \notin Early /\ bsc' \notin Early
        /\ UNCHANGED <<madt, Devices, LApicArray>>
    BY <1>11 DEF CoreOnline, BscGoto, bscVars, coreVars, Early
  <2> QED BY <2>1 DEF BscListed, Listed, On, Place, NumberLAPICs, IsBsc, Early
<1>12. ASSUME NEW c \in AP, TakeStack(c)
      PROVE  BscListed'
  <2>1. /\ bsc \notin Early /\ UNCHANGED <<madt, Devices, LApicArray, bsc>>
    BY <1>12, CoresWait DEF CoreStep, TakeStack, Goto, bscVars, coreVars
  <2> QED BY <2>1 DEF BscListed, Listed, On, Place, NumberLAPICs, IsBsc, Early
<1>13. ASSUME NEW c \in AP, TakeIndex(c)
      PROVE  BscListed'
  <2>1. /\ bsc \notin Early /\ UNCHANGED <<madt, Devices, LApicArray, bsc>>
    BY <1>13, CoresWait DEF CoreStep, TakeIndex, Goto, bscVars, coreVars
  <2> QED BY <2>1 DEF BscListed, Listed, On, Place, NumberLAPICs, IsBsc, Early
<1>14. ASSUME NEW c \in AP, Report(c)
      PROVE  BscListed'
  <2>1. /\ bsc \notin Early /\ UNCHANGED <<madt, Devices, LApicArray, bsc>>
    BY <1>14, CoresWait DEF CoreStep, Report, Goto, bscVars, coreVars
  <2> QED BY <2>1 DEF BscListed, Listed, On, Place, NumberLAPICs, IsBsc, Early
<1>15. ASSUME NEW c \in AP, GetReady(c)
      PROVE  BscListed'
  <2>1. /\ bsc \notin Early /\ UNCHANGED <<madt, Devices, LApicArray, bsc>>
    BY <1>15, CoresWait DEF CoreStep, GetReady, Goto, bscVars, coreVars
  <2> QED BY <2>1 DEF BscListed, Listed, On, Place, NumberLAPICs, IsBsc, Early
<1>16. ASSUME NEW c \in AP, StartTimer(c)
      PROVE  BscListed'
  <2>1. /\ bsc \notin Early /\ UNCHANGED <<madt, Devices, LApicArray, bsc>>
    BY <1>16, CoresWait DEF CoreStep, StartTimer, Goto, bscVars, coreVars
  <2> QED BY <2>1 DEF BscListed, Listed, On, Place, NumberLAPICs, IsBsc, Early
<1>17. ASSUME NEW c \in AP, FirstTick(c)
      PROVE  BscListed'
  <2>1. /\ bsc \notin Early /\ UNCHANGED <<madt, Devices, LApicArray, bsc>>
    BY <1>17, CoresWait DEF CoreStep, FirstTick, Goto, bscVars, coreVars
  <2> QED BY <2>1 DEF BscListed, Listed, On, Place, NumberLAPICs, IsBsc, Early
<1>18. CASE UNCHANGED vars
  BY <1>18 DEF vars, bscVars, BscListed, Listed, On, Place, NumberLAPICs, IsBsc, Early
<1> QED BY <1>1, <1>2, <1>3, <1>4, <1>5, <1>6, <1>7, <1>8, <1>9, <1>10, <1>11, <1>12, <1>13, <1>14, <1>15, <1>16, <1>17, <1>18 DEF Next, BscStep, CoreStep

LEMMA CountedStep ==
  ASSUME IInv, [Next]_vars
  PROVE  Counted'
<1>0. /\ Lists /\ Counted /\ Places
      /\ NumberLAPICs \in Nat /\ i \in Nat
      /\ bsc \in Timing => NumberCores \in 1..NumberLAPICs
  BY LoopPlace DEF IInv
<1> USE <1>0 DEF Counted
<1>1. ASSUME ScanMadt
      PROVE  Counted'
  <2>1. bsc' \in Early
    BY <1>1 DEF ScanMadt, BscGoto, bscVars, coreVars, Early
  <2> QED BY <2>1 DEF Early, Starting, Timing
<1>2. ASSUME PrepareCores
      PROVE  Counted'
  <2>1. bsc' \in Early
    BY <1>2 DEF PrepareCores, BscGoto, bscVars, coreVars, Early
  <2> QED BY <2>1 DEF Early, Starting, Timing
<1>3. ASSUME CollectLAPICs
      PROVE  Counted'
  <2>1. CASE bsc' = "collect"
    BY <2>1 DEF Starting, Timing
  <2>2. CASE bsc' # "collect"
    <3>1. bsc' = "start" /\ i' = 1 /\ NumberCores' = 0 /\ UNCHANGED LApicArray
      BY <1>3, <2>2 DEF CollectLAPICs, BscGoto
    <3>2. Cardinality(Others(LApicArray', i' - 1)) = 0
      BY <3>1, OthersCount
    <3> QED BY <3>1, <3>2 DEF NumberLAPICs, Starting, Timing
  <2> QED BY <2>1, <2>2
<1>4. ASSUME StartCore
      PROVE  Counted'
  <2>1. UNCHANGED LApicArray /\ NumberLAPICs' = NumberLAPICs /\ bsc \in Starting
    BY <1>4 DEF StartCore, BscGoto, SendStartup, bscVars, coreVars, NumberLAPICs, Starting
  <2>2. PICK k \in Nat : k = i - 1
    BY DEF Lists
  <2>3. k + 1 = i
    BY <2>2
  <2>4. /\ Cardinality(Others(LApicArray, i)) = Cardinality(Others(LApicArray, k))
                                               + (IF IsBsc(i) THEN 0 ELSE 1)
        /\ Cardinality(Others(LApicArray, k)) \in Nat
    BY <2>3, OthersCount DEF IsBsc
  <2> QED BY <1>4, <2>1, <2>2, <2>3, <2>4 DEF StartCore, BscGoto, SendStartup, bscVars, coreVars, Starting, Timing, IsBsc, Places, AtPlace, Usable
<1>5. ASSUME CoreStarted
      PROVE  Counted'
  <2>1. UNCHANGED LApicArray /\ NumberLAPICs' = NumberLAPICs /\ bsc \in Starting
    BY <1>5 DEF CoreStarted, BscGoto, bscVars, coreVars, NumberLAPICs, Starting
  <2>2. PICK k \in Nat : k = i - 1
    BY DEF Lists
  <2>3. k + 1 = i
    BY <2>2
  <2>4. /\ Cardinality(Others(LApicArray, i)) = Cardinality(Others(LApicArray, k))
                                               + (IF IsBsc(i) THEN 0 ELSE 1)
        /\ Cardinality(Others(LApicArray, k)) \in Nat
    BY <2>3, OthersCount DEF IsBsc
  <2> QED BY <1>5, <2>1, <2>2, <2>3, <2>4 DEF CoreStarted, BscGoto, bscVars, coreVars, Starting, Timing, IsBsc, Places, AtPlace, Usable
<1>6. ASSUME CountBsc
      PROVE  Counted'
  <2>1. /\ bsc = "start" /\ bsc' = "store" /\ i = NumberLAPICs + 1 /\ i' = 1
        /\ NumberCores' = NumberCores + 1 /\ UNCHANGED LApicArray /\ NumberLAPICs' = NumberLAPICs
    BY <1>6 DEF CountBsc, BscGoto, NumberLAPICs, Starting
  <2>2. i - 1 = NumberLAPICs
    BY <2>1
  <2> QED BY <2>1, <2>2 DEF Starting, Timing
<1>7. ASSUME StoreIDs
      PROVE  Counted'
  <2>1. UNCHANGED <<LApicArray, NumberCores>> /\ NumberLAPICs' = NumberLAPICs
    BY <1>7 DEF StoreIDs, BscGoto, bscVars, coreVars, NumberLAPICs
  <2> QED BY <1>7, <2>1 DEF StoreIDs, BscGoto, bscVars, coreVars, Starting, Timing
<1>8. ASSUME Release
      PROVE  Counted'
  <2>1. UNCHANGED <<LApicArray, NumberCores>> /\ NumberLAPICs' = NumberLAPICs
    BY <1>8 DEF Release, BscGoto, bscVars, coreVars, NumberLAPICs
  <2> QED BY <1>8, <2>1 DEF Release, BscGoto, bscVars, coreVars, Starting, Timing
<1>9. ASSUME CoreReady
      PROVE  Counted'
  <2>1. UNCHANGED <<LApicArray, NumberCores>> /\ NumberLAPICs' = NumberLAPICs
    BY <1>9 DEF CoreReady, BscGoto, bscVars, coreVars, NumberLAPICs
  <2> QED BY <1>9, <2>1 DEF CoreReady, BscGoto, bscVars, coreVars, Starting, Timing
<1>10. ASSUME Go
      PROVE  Counted'
  <2>1. UNCHANGED <<LApicArray, NumberCores>> /\ NumberLAPICs' = NumberLAPICs
    BY <1>10 DEF Go, BscGoto, bscVars, coreVars, NumberLAPICs
  <2> QED BY <1>10, <2>1 DEF Go, BscGoto, bscVars, coreVars, Starting, Timing
<1>11. ASSUME CoreOnline
      PROVE  Counted'
  <2>1. UNCHANGED <<LApicArray, NumberCores>> /\ NumberLAPICs' = NumberLAPICs
    BY <1>11 DEF CoreOnline, BscGoto, bscVars, coreVars, NumberLAPICs
  <2> QED BY <1>11, <2>1 DEF CoreOnline, BscGoto, bscVars, coreVars, Starting, Timing
<1>12. ASSUME NEW c \in AP, TakeStack(c)
      PROVE  Counted'
  <2>1. UNCHANGED <<LApicArray, bsc, i, NumberCores>>
    BY <1>12 DEF TakeStack, Goto, bscVars, coreVars
  <2> QED BY <2>1 DEF NumberLAPICs, Starting, Timing
<1>13. ASSUME NEW c \in AP, TakeIndex(c)
      PROVE  Counted'
  <2>1. UNCHANGED <<LApicArray, bsc, i, NumberCores>>
    BY <1>13 DEF TakeIndex, Goto, bscVars, coreVars
  <2> QED BY <2>1 DEF NumberLAPICs, Starting, Timing
<1>14. ASSUME NEW c \in AP, Report(c)
      PROVE  Counted'
  <2>1. UNCHANGED <<LApicArray, bsc, i, NumberCores>>
    BY <1>14 DEF Report, Goto, bscVars, coreVars
  <2> QED BY <2>1 DEF NumberLAPICs, Starting, Timing
<1>15. ASSUME NEW c \in AP, GetReady(c)
      PROVE  Counted'
  <2>1. UNCHANGED <<LApicArray, bsc, i, NumberCores>>
    BY <1>15 DEF GetReady, Goto, bscVars, coreVars
  <2> QED BY <2>1 DEF NumberLAPICs, Starting, Timing
<1>16. ASSUME NEW c \in AP, StartTimer(c)
      PROVE  Counted'
  <2>1. UNCHANGED <<LApicArray, bsc, i, NumberCores>>
    BY <1>16 DEF StartTimer, Goto, bscVars, coreVars
  <2> QED BY <2>1 DEF NumberLAPICs, Starting, Timing
<1>17. ASSUME NEW c \in AP, FirstTick(c)
      PROVE  Counted'
  <2>1. UNCHANGED <<LApicArray, bsc, i, NumberCores>>
    BY <1>17 DEF FirstTick, Goto, bscVars, coreVars
  <2> QED BY <2>1 DEF NumberLAPICs, Starting, Timing
<1>18. CASE UNCHANGED vars
  <2>1. UNCHANGED <<LApicArray, bsc, i, NumberCores>>
    BY <1>18 DEF vars, bscVars
  <2> QED BY <2>1 DEF NumberLAPICs, Starting, Timing
<1> QED BY <1>1, <1>2, <1>3, <1>4, <1>5, <1>6, <1>7, <1>8, <1>9, <1>10, <1>11, <1>12, <1>13, <1>14, <1>15, <1>16, <1>17, <1>18 DEF Next, BscStep, CoreStep

-----------------------------------------------------------------------------
(***************************************************************************)
(* The cores keep to their places.                                         *)
(***************************************************************************)
LEMMA StateOf ==
  ASSUME IInv, NEW n \in Place, bsc \notin Early
  PROVE  /\ CoreStateList[n] \in Done(n)
         /\ bsc = "await1" /\ n = i => CoreStateList[n] \in {0, 1}
         /\ bsc \in Starting /\ n >= i /\ ~(bsc = "await1" /\ n = i) => CoreStateList[n] = 0
         /\ bsc \in Starting \cup {"store"} => CoreStateList[n] \in {0, 1}
         /\ bsc \in {"timer", "await3"} => CoreStateList[n] \in {0, 1, 2, 3}
         /\ bsc = "timer" /\ n >= i => CoreStateList[n] \in {0, 1}
         /\ bsc = "go" /\ n = i /\ i <= NumberCores => CoreStateList[n] = 3
         /\ CoreStackPtrs[n].buffer = n
<1>1. CoreStateList[n] \in Done(n) /\ CoreStackPtrs[n].buffer = n
  <2>1. /\ CoreStateList[n] \in Done(n)
        /\ \/ CoreStackPtrs[n] = [buffer |-> n, saved |-> TRUE]
           \/ CoreStackPtrs[n] = [buffer |-> n, saved |-> FALSE]
    BY ZenonT(30) DEF IInv, States, InOrder
  <2> QED BY <2>1
<1>2. /\ n \in Nat /\ i \in Nat /\ (bsc \in Timing => NumberCores \in Nat)
      /\ bsc \in {"timer", "go"} => 2 <= i
  BY LoopPlace DEF IInv, Counted, Place
<1> QED BY <1>1, <1>2, SMTT(30) DEF Done, Starting, Timing

LEMMA OwnPlaceOnly ==
  ASSUME IInv, NEW c \in AP, NEW d \in AP, Placed(c), Placed(d), CoreIndex[c] = CoreIndex[d]
  PROVE  c = d
BY DEF IInv, Places, AtPlace

LEMMA PlacesStep ==
  ASSUME IInv, [Next]_vars
  PROVE  Places'
<1>0. /\ Places /\ Lists
      /\ NumberLAPICs \in Nat /\ i \in Nat
  BY LoopPlace DEF IInv
<1> USE <1>0
<1>1. ASSUME ScanMadt
      PROVE  Places'
  <2>1. /\ bsc \in Early /\ bsc' \in Early
        /\ UNCHANGED <<CurrentCoreStarting, coreVars>>
    BY <1>1 DEF ScanMadt, BscGoto, bscVars, coreVars, Early
  <2>2. CurrentCoreStarting = 0 /\ timer = {} /\ \A c \in AP : pc[c] = "off" /\ stack[c] = 0 /\ CoreIndex[c] = 0
    BY <2>1 DEF Lists, NothingYet
  <2>3. \A c \in AP : AtPlace(c)'
    BY <2>1, <2>2 DEF AtPlace, Joining, Placed, coreVars
  <2>4. NumberLAPICs' \in Nat
    BY ListsStep DEF Lists, NumberLAPICs
  <2> QED BY <2>1, <2>2, <2>3, <2>4 DEF Places, Early, coreVars
<1>2. ASSUME PrepareCores
      PROVE  Places'
  <2>1. /\ bsc \in Early /\ bsc' \in Early
        /\ UNCHANGED <<CurrentCoreStarting, coreVars>>
    BY <1>2 DEF PrepareCores, BscGoto, bscVars, coreVars, Early
  <2>2. CurrentCoreStarting = 0 /\ timer = {} /\ \A c \in AP : pc[c] = "off" /\ stack[c] = 0 /\ CoreIndex[c] = 0
    BY <2>1 DEF Lists, NothingYet
  <2>3. \A c \in AP : AtPlace(c)'
    BY <2>1, <2>2 DEF AtPlace, Joining, Placed, coreVars
  <2>4. NumberLAPICs' \in Nat
    BY ListsStep DEF Lists, NumberLAPICs
  <2> QED BY <2>1, <2>2, <2>3, <2>4 DEF Places, Early, coreVars
<1>3. ASSUME CollectLAPICs
      PROVE  Places'
  <2>1. /\ bsc \in Early /\ bsc' # "await1"
        /\ UNCHANGED <<CurrentCoreStarting, coreVars>>
    BY <1>3 DEF CollectLAPICs, BscGoto, bscVars, coreVars, Early
  <2>2. CurrentCoreStarting = 0 /\ timer = {} /\ \A c \in AP : pc[c] = "off" /\ stack[c] = 0 /\ CoreIndex[c] = 0
    BY <2>1 DEF Lists, NothingYet
  <2>3. \A c \in AP : AtPlace(c)'
    BY <2>1, <2>2 DEF AtPlace, Joining, Placed, coreVars
  <2>4. NumberLAPICs' \in Nat
    BY ListsStep DEF Lists, NumberLAPICs
  <2> QED BY <2>1, <2>2, <2>3, <2>4 DEF Places, coreVars
<1>4. ASSUME StartCore
      PROVE  Places'
  <2>1. /\ bsc = "start" /\ bsc' \in {"start", "await1"} /\ i \in Place
        /\ UNCHANGED <<LApicArray, CoreStateList, stack, CoreIndex, timer>> /\ NumberLAPICs' = NumberLAPICs
    BY <1>4, LoopPlace DEF StartCore, BscGoto, NumberLAPICs
  <2>2. CASE bsc' = "start"
    <3>1. UNCHANGED pc /\ CurrentCoreStarting' \in 0..NumberLAPICs
      BY <1>4, <2>1, <2>2 DEF StartCore, BscGoto, Places, Place
    <3>2. \A c \in AP : AtPlace(c)'
      BY <2>1, <2>2, <3>1 DEF Places, AtPlace, Joining, Placed, Place, Usable, IsBsc
    <3> QED BY <2>1, <2>2, <3>1, <3>2 DEF Places
  <2>3. CASE bsc' = "await1"
    <3> DEFINE a == LApicArray[i].ApicID
    <3>1. /\ i' = i /\ CurrentCoreStarting' = i /\ Usable(i) /\ SendStartup(a)
      BY <1>4, <2>1, <2>3 DEF StartCore, BscGoto, Usable, IsBsc
    <3>2. CoreStateList[i] = 0
      BY <2>1, StateOf DEF Early, Starting
    <3>3. ASSUME NEW c \in AP
          PROVE  pc'[c] = pc[c] \/ (pc'[c] = "entry" /\ c = a)
      BY <3>1 DEF SendStartup, Places
    <3>4. \A c \in AP : AtPlace(c)'
      BY <2>1, <2>3, <3>1, <3>2, <3>3 DEF Places, AtPlace, Joining, Placed, Place, Usable, IsBsc
    <3>5. pc' \in [AP -> CorePCs \ {"unknown"}]
      BY <3>1 DEF SendStartup, Places, CorePCs
    <3>6. Usable(i)'
      BY <2>1, <3>1 DEF Usable, IsBsc
    <3> QED BY <2>1, <2>3, <3>1, <3>4, <3>5, <3>6 DEF Places, Place
  <2> QED BY <2>1, <2>2, <2>3
<1>5. ASSUME CoreStarted
      PROVE  Places'
  <2>1. /\ bsc = "await1" /\ bsc' = "start" /\ CoreStateList[i] # 0
        /\ UNCHANGED <<LApicArray, CurrentCoreStarting, CoreStateList, pc, stack, CoreIndex, timer>>
        /\ NumberLAPICs' = NumberLAPICs
    BY <1>5 DEF CoreStarted, BscGoto, bscVars, coreVars, NumberLAPICs
  <2>2. \A c \in AP : AtPlace(c)'
    BY <2>1 DEF Places, AtPlace, Joining, Placed, Place, Usable, IsBsc
  <2> QED BY <2>1, <2>2 DEF Places
<1>6. ASSUME CountBsc
      PROVE  Places'
  <2>1. /\ bsc # "await1" /\ bsc' # "await1"
        /\ bsc \in {"go", "await5", "online"} => bsc' \in {"go", "await5", "online"}
        /\ UNCHANGED <<LApicArray, CurrentCoreStarting, CoreStateList, pc, stack, CoreIndex>>
        /\ NumberLAPICs' = NumberLAPICs
        /\ timer' = timer \/ timer' = timer \cup ({BSC} \ X2Apic)
    BY <1>6 DEF CountBsc, BscGoto, bscVars, coreVars, NumberLAPICs
  <2>2. \A c \in AP : AtPlace(c)'
    BY <2>1 DEF Places, AtPlace, Joining, Placed, Place, Usable, IsBsc, AP
  <2>3. timer' \subseteq Core
    BY <2>1, ConstantsAssumption DEF Places
  <2> QED BY <2>1, <2>2, <2>3 DEF Places
<1>7. ASSUME StoreIDs
      PROVE  Places'
  <2>1. /\ bsc # "await1" /\ bsc' # "await1"
        /\ bsc \in {"go", "await5", "online"} => bsc' \in {"go", "await5", "online"}
        /\ UNCHANGED <<LApicArray, CurrentCoreStarting, CoreStateList, pc, stack, CoreIndex>>
        /\ NumberLAPICs' = NumberLAPICs
        /\ timer' = timer \/ timer' = timer \cup ({BSC} \ X2Apic)
    BY <1>7 DEF StoreIDs, BscGoto, bscVars, coreVars, NumberLAPICs
  <2>2. \A c \in AP : AtPlace(c)'
    BY <2>1 DEF Places, AtPlace, Joining, Placed, Place, Usable, IsBsc, AP
  <2>3. timer' \subseteq Core
    BY <2>1, ConstantsAssumption DEF Places
  <2> QED BY <2>1, <2>2, <2>3 DEF Places
<1>8. ASSUME Release
      PROVE  Places'
  <2>1. CASE CoreStateList' = CoreStateList
    <3>1. /\ bsc # "await1" /\ bsc' # "await1"
          /\ bsc \in {"go", "await5", "online"} => bsc' \in {"go", "await5", "online"}
          /\ UNCHANGED <<LApicArray, CurrentCoreStarting, CoreStateList, pc, stack, CoreIndex, timer>>
          /\ NumberLAPICs' = NumberLAPICs
      BY <1>8, <2>1 DEF Release, BscGoto, bscVars, coreVars, NumberLAPICs
    <3>2. \A c \in AP : AtPlace(c)'
      BY <3>1 DEF Places, AtPlace, Joining, Placed, Place, Usable, IsBsc
    <3> QED BY <3>1, <3>2 DEF Places
  <2>2. CASE CoreStateList' # CoreStateList
    <3>1. /\ bsc = "timer" /\ bsc' = "await3" /\ i \in Place /\ i <= NumberCores
          /\ CoreStateList' = [CoreStateList EXCEPT ![i] = 2]
          /\ UNCHANGED <<LApicArray, CurrentCoreStarting, i, pc, stack, CoreIndex, timer>>
          /\ NumberLAPICs' = NumberLAPICs
      BY <1>8, <2>2, LoopPlace DEF Release, BscGoto, bscVars, coreVars, NumberLAPICs
    <3>2. PICK k \in Place : CoreStateList' = [CoreStateList EXCEPT ![k] = 2] /\ k = i
      BY <3>1
    <3>3. \A n \in Place : CoreStateList'[n] = IF n = i THEN 2 ELSE CoreStateList[n]
      BY <3>1, <3>2, PlaceSet DEF Early
    <3>4. CoreStateList[i] \in {0, 1}
      BY <3>1, StateOf DEF Early
    <3>5. \A c \in AP : AtPlace(c)'
      BY <3>1, <3>3, <3>4 DEF Places, AtPlace, Joining, Placed, Place, Usable, IsBsc
    <3> QED BY <3>1, <3>5 DEF Places
  <2> QED BY <2>1, <2>2
<1>9. ASSUME CoreReady
      PROVE  Places'
  <2>1. /\ bsc # "await1" /\ bsc' # "await1"
        /\ bsc \in {"go", "await5", "online"} => bsc' \in {"go", "await5", "online"}
        /\ UNCHANGED <<LApicArray, CurrentCoreStarting, CoreStateList, pc, stack, CoreIndex>>
        /\ NumberLAPICs' = NumberLAPICs
        /\ timer' = timer \/ timer' = timer \cup ({BSC} \ X2Apic)
    BY <1>9 DEF CoreReady, BscGoto, bscVars, coreVars, NumberLAPICs
  <2>2. \A c \in AP : AtPlace(c)'
    BY <2>1 DEF Places, AtPlace, Joining, Placed, Place, Usable, IsBsc, AP
  <2>3. timer' \subseteq Core
    BY <2>1, ConstantsAssumption DEF Places
  <2> QED BY <2>1, <2>2, <2>3 DEF Places
<1>10. ASSUME Go
      PROVE  Places'
  <2>1. CASE CoreStateList' = CoreStateList
    <3>1. /\ bsc # "await1" /\ bsc' # "await1"
          /\ bsc \in {"go", "await5", "online"} => bsc' \in {"go", "await5", "online"}
          /\ UNCHANGED <<LApicArray, CurrentCoreStarting, CoreStateList, pc, stack, CoreIndex, timer>>
          /\ NumberLAPICs' = NumberLAPICs
      BY <1>10, <2>1 DEF Go, BscGoto, bscVars, coreVars, NumberLAPICs
    <3>2. \A c \in AP : AtPlace(c)'
      BY <3>1 DEF Places, AtPlace, Joining, Placed, Place, Usable, IsBsc
    <3> QED BY <3>1, <3>2 DEF Places
  <2>2. CASE CoreStateList' # CoreStateList
    <3>1. /\ bsc = "go" /\ bsc' = "await5" /\ i \in Place /\ i <= NumberCores
          /\ CoreStateList' = [CoreStateList EXCEPT ![i] = 4]
          /\ UNCHANGED <<LApicArray, CurrentCoreStarting, i, pc, stack, CoreIndex, timer>>
          /\ NumberLAPICs' = NumberLAPICs
      BY <1>10, <2>2, LoopPlace DEF Go, BscGoto, bscVars, coreVars, NumberLAPICs
    <3>2. PICK k \in Place : CoreStateList' = [CoreStateList EXCEPT ![k] = 4] /\ k = i
      BY <3>1
    <3>3. \A n \in Place : CoreStateList'[n] = IF n = i THEN 4 ELSE CoreStateList[n]
      BY <3>1, <3>2, PlaceSet DEF Early
    <3>4. CoreStateList[i] \in {3}
      BY <3>1, StateOf DEF Early
    <3>5. \A c \in AP : AtPlace(c)'
      BY <3>1, <3>3, <3>4 DEF Places, AtPlace, Joining, Placed, Place, Usable, IsBsc
    <3> QED BY <3>1, <3>5 DEF Places
  <2> QED BY <2>1, <2>2
<1>11. ASSUME CoreOnline
      PROVE  Places'
  <2>1. /\ bsc # "await1" /\ bsc' # "await1"
        /\ bsc \in {"go", "await5", "online"} => bsc' \in {"go", "await5", "online"}
        /\ UNCHANGED <<LApicArray, CurrentCoreStarting, CoreStateList, pc, stack, CoreIndex>>
        /\ NumberLAPICs' = NumberLAPICs
        /\ timer' = timer \/ timer' = timer \cup ({BSC} \ X2Apic)
    BY <1>11 DEF CoreOnline, BscGoto, bscVars, coreVars, NumberLAPICs
  <2>2. \A c \in AP : AtPlace(c)'
    BY <2>1 DEF Places, AtPlace, Joining, Placed, Place, Usable, IsBsc, AP
  <2>3. timer' \subseteq Core
    BY <2>1, ConstantsAssumption DEF Places
  <2> QED BY <2>1, <2>2, <2>3 DEF Places
<1>12. ASSUME NEW c \in AP, TakeStack(c)
      PROVE  Places'
  <2>1. /\ UNCHANGED <<bscVars, CoreStackPtrs>> /\ NumberLAPICs' = NumberLAPICs /\ bsc \notin Early
    BY <1>12, CoresWait DEF TakeStack, Goto, bscVars, coreVars, NumberLAPICs, CoreStep
  <2>2. /\ pc[c] = "entry" /\ bsc = "await1" /\ Joining(c) /\ AtPlace(c) /\ i \in Place
        /\ CurrentCoreStarting = i /\ CoreStackPtrs[i].buffer = i
    BY <1>12, <2>1, LoopPlace, StateOf DEF TakeStack, Places, AtPlace, Joining
  <2>3. pc' = [pc EXCEPT ![c] = "index"] /\ stack' = [stack EXCEPT ![c] = i]
        /\ UNCHANGED <<CoreStateList, CoreIndex, timer, LApicArray, i, bsc, CurrentCoreStarting>>
    BY <1>12, <2>2 DEF TakeStack, Goto, bscVars
  <2>4. \A d \in AP : AtPlace(d)'
    <3> SUFFICES ASSUME NEW d \in AP
                 PROVE  AtPlace(d)'
      OBVIOUS
    <3>1. AtPlace(d)
      BY DEF Places
    <3>2. /\ pc'[c] = "index" /\ (d # c => pc'[d] = pc[d])
          /\ stack'[c] = i /\ (d # c => stack'[d] = stack[d])
      BY <2>3 DEF Places
    <3>3. CASE d = c
      BY <2>1, <2>2, <2>3, <3>1, <3>2, <3>3 DEF Places, AtPlace, Joining, Placed, Place, Usable, IsBsc
    <3>4. CASE d # c
      BY <2>1, <2>2, <2>3, <3>1, <3>2, <3>4 DEF AtPlace, Joining, Placed, Place, Usable, IsBsc
    <3> QED BY <3>3, <3>4
  <2> QED BY <2>1, <2>2, <2>3, <2>4 DEF Places, CorePCs, Place, Usable, IsBsc
<1>13. ASSUME NEW c \in AP, TakeIndex(c)
      PROVE  Places'
  <2>1. /\ UNCHANGED <<bscVars, CoreStackPtrs>> /\ NumberLAPICs' = NumberLAPICs /\ bsc \notin Early
    BY <1>13, CoresWait DEF TakeIndex, Goto, bscVars, coreVars, NumberLAPICs, CoreStep
  <2>2. /\ pc[c] = "index" /\ bsc = "await1" /\ Joining(c) /\ AtPlace(c) /\ i \in Place
        /\ CurrentCoreStarting = i
    BY <1>13, <2>1, LoopPlace DEF TakeIndex, Places, AtPlace, Joining
  <2>3. pc' = [pc EXCEPT ![c] = "report"] /\ CoreIndex' = [CoreIndex EXCEPT ![c] = i]
        /\ UNCHANGED <<CoreStateList, stack, timer, LApicArray, i, bsc, CurrentCoreStarting>>
    BY <1>13, <2>2 DEF TakeIndex, Goto, bscVars
  <2>4. \A d \in AP : AtPlace(d)'
    <3> SUFFICES ASSUME NEW d \in AP
                 PROVE  AtPlace(d)'
      OBVIOUS
    <3>1. AtPlace(d)
      BY DEF Places
    <3>2. /\ pc'[c] = "report" /\ (d # c => pc'[d] = pc[d])
          /\ CoreIndex'[c] = i /\ (d # c => CoreIndex'[d] = CoreIndex[d])
      BY <2>3 DEF Places
    <3>3. CASE d = c
      BY <2>1, <2>2, <2>3, <3>1, <3>2, <3>3 DEF Places, AtPlace, Joining, Placed, Place, Usable, IsBsc
    <3>4. CASE d # c
      BY <2>1, <2>2, <2>3, <3>1, <3>2, <3>4 DEF AtPlace, Joining, Placed, Place, Usable, IsBsc
    <3> QED BY <3>3, <3>4
  <2> QED BY <2>1, <2>2, <2>3, <2>4 DEF Places, CorePCs, Place, Usable, IsBsc
<1>14. ASSUME NEW c \in AP, Report(c)
      PROVE  Places'
  <2>1. /\ UNCHANGED <<bscVars, CoreStackPtrs>> /\ NumberLAPICs' = NumberLAPICs /\ bsc \notin Early
    BY <1>14, CoresWait DEF Report, Goto, bscVars, coreVars, NumberLAPICs, CoreStep
  <2>2. /\ pc[c] = "report" /\ AtPlace(c) /\ Placed(c) /\ CoreIndex[c] \in Place
        /\ bsc = "await1" /\ LApicArray[i].ApicID = c /\ CoreIndex[c] = i
    BY <1>14, <2>1 DEF Report, Goto, bscVars, coreVars, Places, AtPlace, Placed, Joining
  <2>3. /\ pc' = [pc EXCEPT ![c] = "await2"] /\ CoreStateList' = [CoreStateList EXCEPT ![CoreIndex[c]] = 1]
        /\ UNCHANGED <<stack, CoreIndex, timer, LApicArray, i, bsc, CurrentCoreStarting>>
    BY <1>14, <2>2 DEF Report, Goto, bscVars, coreVars
  <2>4. PICK k \in Place : CoreStateList' = [CoreStateList EXCEPT ![k] = 1] /\ k = CoreIndex[c]
    BY <2>2, <2>3
  <2>5. \A n \in Place : CoreStateList'[n] = IF n = CoreIndex[c] THEN 1 ELSE CoreStateList[n]
    BY <2>1, <2>4, PlaceSet DEF Early
  <2>6. \A d \in AP \ {c} : Placed(d) => CoreIndex[d] # CoreIndex[c]
    BY <2>2, OwnPlaceOnly
  <2>7. \A d \in AP : AtPlace(d)'
    <3> SUFFICES ASSUME NEW d \in AP
                 PROVE  AtPlace(d)'
      OBVIOUS
    <3>1. AtPlace(d)
      BY DEF Places
    <3>2. /\ pc'[c] = "await2" /\ (d # c => pc'[d] = pc[d])
          /\ TRUE
      BY <2>3 DEF Places
    <3>3. CASE d = c
      BY <2>1, <2>2, <2>3, <2>5, <2>6, <3>1, <3>2, <3>3 DEF Places, AtPlace, Joining, Placed, Place, Usable, IsBsc
    <3>4. CASE d # c
      BY <2>1, <2>2, <2>3, <2>5, <2>6, <3>1, <3>2, <3>4 DEF AtPlace, Joining, Placed, Place, Usable, IsBsc
    <3> QED BY <3>3, <3>4
  <2> QED BY <2>1, <2>2, <2>3, <2>7 DEF Places, CorePCs, Place, Usable, IsBsc
<1>15. ASSUME NEW c \in AP, GetReady(c)
      PROVE  Places'
  <2>1. /\ UNCHANGED <<bscVars, CoreStackPtrs>> /\ NumberLAPICs' = NumberLAPICs /\ bsc \notin Early
    BY <1>15, CoresWait DEF GetReady, Goto, bscVars, coreVars, NumberLAPICs, CoreStep
  <2>2. /\ pc[c] = "await2" /\ AtPlace(c) /\ Placed(c) /\ CoreIndex[c] \in Place
        /\ CoreStateList[CoreIndex[c]] = 2
    BY <1>15, <2>1 DEF GetReady, Goto, bscVars, coreVars, Places, AtPlace, Placed, Joining
  <2>3. /\ pc' = [pc EXCEPT ![c] = "await4"] /\ CoreStateList' = [CoreStateList EXCEPT ![CoreIndex[c]] = 3]
        /\ UNCHANGED <<stack, CoreIndex, timer, LApicArray, i, bsc, CurrentCoreStarting>>
    BY <1>15, <2>2 DEF GetReady, Goto, bscVars, coreVars
  <2>4. PICK k \in Place : CoreStateList' = [CoreStateList EXCEPT ![k] = 3] /\ k = CoreIndex[c]
    BY <2>2, <2>3
  <2>5. \A n \in Place : CoreStateList'[n] = IF n = CoreIndex[c] THEN 3 ELSE CoreStateList[n]
    BY <2>1, <2>4, PlaceSet DEF Early
  <2>6. \A d \in AP \ {c} : Placed(d) => CoreIndex[d] # CoreIndex[c]
    BY <2>2, OwnPlaceOnly
  <2>7. \A d \in AP : AtPlace(d)'
    <3> SUFFICES ASSUME NEW d \in AP
                 PROVE  AtPlace(d)'
      OBVIOUS
    <3>1. AtPlace(d)
      BY DEF Places
    <3>2. /\ pc'[c] = "await4" /\ (d # c => pc'[d] = pc[d])
          /\ TRUE
      BY <2>3 DEF Places
    <3>5. Joining(d) => bsc = "await1" /\ i \in Place /\ CoreIndex[c] # i
      BY <2>2, <3>1, LoopPlace DEF AtPlace
    <3>3. CASE d = c
      BY <2>1, <2>2, <2>3, <2>5, <2>6, <3>1, <3>2, <3>3 DEF Places, AtPlace, Joining, Placed, Place, Usable, IsBsc
    <3>4. CASE d # c
      BY <2>1, <2>2, <2>3, <2>5, <2>6, <3>1, <3>2, <3>4, <3>5 DEF AtPlace, Joining, Placed, Place, Usable, IsBsc
    <3> QED BY <3>3, <3>4
  <2> QED BY <2>1, <2>2, <2>3, <2>7 DEF Places, CorePCs, Place, Usable, IsBsc
<1>16. ASSUME NEW c \in AP, StartTimer(c)
      PROVE  Places'
  <2>1. /\ UNCHANGED <<bscVars, CoreStackPtrs>> /\ NumberLAPICs' = NumberLAPICs /\ bsc \notin Early
    BY <1>16, CoresWait DEF StartTimer, Goto, bscVars, coreVars, NumberLAPICs, CoreStep
  <2>2. /\ pc[c] = "await4" /\ AtPlace(c) /\ Placed(c) /\ CoreIndex[c] \in Place
        /\ CoreStateList[CoreIndex[c]] = 4
    BY <1>16, <2>1 DEF StartTimer, Places, AtPlace, Placed
  <2>3. /\ pc' = [pc EXCEPT ![c] = "idle"] /\ timer' = timer \cup ({c} \ X2Apic)
        /\ UNCHANGED <<CoreStateList, stack, CoreIndex, LApicArray, i, bsc, CurrentCoreStarting>>
    BY <1>16, <2>2 DEF StartTimer, Goto, bscVars
  <2>4. bsc \in {"go", "await5", "online"}
    <3> DEFINE n == CoreIndex[c]
    <3>1. n \in Place /\ CoreStateList[n] = 4
      BY <2>2
    <3> HIDE DEF n
    <3>2. /\ bsc \in Starting \cup {"store"} => CoreStateList[n] \in {0, 1}
          /\ bsc \in {"timer", "await3"} => CoreStateList[n] \in {0, 1, 2, 3}
      BY <2>1, <3>1, StateOf
    <3> QED BY <2>1, <3>1, <3>2 DEF Lists, BscPCs, Early, Starting
  <2>5. \A d \in AP : AtPlace(d)'
    <3> SUFFICES ASSUME NEW d \in AP
                 PROVE  AtPlace(d)'
      OBVIOUS
    <3>1. AtPlace(d)
      BY DEF Places
    <3>2. /\ pc'[c] = "idle" /\ (d # c => pc'[d] = pc[d])
          /\ (d # c => (d \in timer' <=> d \in timer))
      BY <2>3 DEF Places
    <3>3. CASE d = c
      BY <2>1, <2>2, <2>3, <2>4, <3>1, <3>2, <3>3 DEF Places, AtPlace, Joining, Placed, Place, Usable, IsBsc
    <3>4. CASE d # c
      BY <2>1, <2>2, <2>3, <2>4, <3>1, <3>2, <3>4 DEF AtPlace, Joining, Placed, Place, Usable, IsBsc
    <3> QED BY <3>3, <3>4
  <2> QED BY <2>1, <2>2, <2>3, <2>5, <2>4, ConstantsAssumption DEF Places, AP, CorePCs, Place, Usable, IsBsc
<1>17. ASSUME NEW c \in AP, FirstTick(c)
      PROVE  Places'
  <2>1. /\ UNCHANGED bscVars /\ NumberLAPICs' = NumberLAPICs /\ bsc \notin Early
    BY <1>17, CoresWait DEF FirstTick, Goto, bscVars, coreVars, NumberLAPICs, CoreStep
  <2>2. /\ Answered /\ CoreIndex[c] \in Place /\ CoreStateList[CoreIndex[c]] = 4
        /\ UNCHANGED <<pc, stack, CoreIndex, timer, LApicArray, i, bsc, CurrentCoreStarting>>
        /\ CoreStateList' = [CoreStateList EXCEPT ![CoreIndex[c]] = 5]
    BY <1>17, TickEffect DEF bscVars, coreVars
  <2>3. PICK k \in Place : CoreStateList' = [CoreStateList EXCEPT ![k] = 5] /\ k = CoreIndex[c]
    BY <2>2
  <2>4. \A n \in Place : CoreStateList'[n] = IF n = CoreIndex[c] THEN 5 ELSE CoreStateList[n]
    BY <2>1, <2>3, PlaceSet
  <2>5. pc[c] = "idle" /\ Placed(c)
    BY <1>17 DEF FirstTick, Placed
  <2>6. \A d \in AP \ {c} : Placed(d) => CoreIndex[d] # CoreIndex[c]
    BY <2>5, OwnPlaceOnly
  <2>7. \A d \in AP : AtPlace(d)'
    <3> SUFFICES ASSUME NEW d \in AP
                 PROVE  AtPlace(d)'
      OBVIOUS
    <3>1. AtPlace(d)
      BY DEF Places
    <3>2. CASE d = c
      BY <2>1, <2>2, <2>4, <2>5, <3>1, <3>2 DEF AtPlace, Joining, Placed, Place, Usable, IsBsc
    <3>3. CASE d # c
      BY <2>1, <2>2, <2>4, <2>6, <3>1, <3>3 DEF AtPlace, Joining, Placed, Place, Usable, IsBsc, Answered
    <3> QED BY <3>2, <3>3
  <2> QED BY <2>1, <2>2, <2>7 DEF Places, Place, Usable, IsBsc
<1>18. CASE UNCHANGED vars
  <2>1. NumberLAPICs' = NumberLAPICs
    BY <1>18 DEF vars, bscVars, NumberLAPICs
  <2>2. \A c \in AP : AtPlace(c)'
    BY <1>18, <2>1 DEF vars, bscVars, coreVars, Places, AtPlace, Joining, Placed, Place, Usable, IsBsc
  <2> QED BY <1>18, <2>1, <2>2 DEF vars, bscVars, coreVars, Places, Usable, IsBsc
<1> QED BY <1>1, <1>2, <1>3, <1>4, <1>5, <1>6, <1>7, <1>8, <1>9, <1>10, <1>11, <1>12, <1>13, <1>14, <1>15, <1>16, <1>17, <1>18 DEF Next, BscStep, CoreStep

-----------------------------------------------------------------------------
(***************************************************************************)
(* The states stay in order.                                               *)
(***************************************************************************)
LEMMA StatesStep ==
  ASSUME IInv, [Next]_vars
  PROVE  States'
<1>0. /\ States /\ Lists
      /\ NumberLAPICs \in Nat /\ i \in Nat
      /\ bsc \in Timing => NumberCores \in Nat
  BY LoopPlace DEF IInv
<1> USE <1>0
<1>1. ASSUME ScanMadt
      PROVE  States'
  <2>1. bsc' \in Early
    BY <1>1 DEF ScanMadt, BscGoto, bscVars, coreVars, Early
  <2> QED BY <2>1 DEF States
<1>2. ASSUME PrepareCores
      PROVE  States'
  <2>1. bsc' \in Early
    BY <1>2 DEF PrepareCores, BscGoto, bscVars, coreVars, Early
  <2> QED BY <2>1 DEF States
<1>3. ASSUME CollectLAPICs
      PROVE  States'
  <2>1. CASE bsc' \in Early
    BY <2>1 DEF States
  <2>2. CASE bsc' \notin Early
    <3>1. /\ bsc' = "start" /\ i' = 1 /\ Place' = Place
          /\ CoreStateList' = [n \in Place |-> 0]
          /\ CoreStackPtrs' = [n \in Place |-> [buffer |-> n, saved |-> FALSE]]
      BY <1>3, <2>2 DEF CollectLAPICs, BscGoto, bscVars, coreVars, Place, NumberLAPICs, Early
    <3>2. \A n \in Place : n \in Nat /\ n >= 1
      BY DEF Place
    <3>3. \A n \in Place : CoreStateList'[n] = 0 /\ CoreStackPtrs'[n] = [buffer |-> n, saved |-> FALSE]
      BY <3>1
    <3> QED BY <3>1, <3>2, <3>3 DEF States, InOrder, Done, Starting
  <2> QED BY <2>1, <2>2
<1>4. ASSUME StartCore
      PROVE  States'
  <2>1. /\ bsc = "start" /\ UNCHANGED <<LApicArray, CoreStateList, CoreStackPtrs, CoreIndex>>
        /\ Place' = Place
    BY <1>4 DEF StartCore, Place, NumberLAPICs
  <2> SUFFICES ASSUME NEW n \in Place
               PROVE  InOrder(n)'
    BY <2>1 DEF States
  <2>2. InOrder(n) /\ n \in Nat /\ n >= 1
    BY <2>1 DEF States, Place, Early
  <2>3. CoreStateList[n] \in {0, 1} /\ Usable(n)' = Usable(n)
    BY <2>1, StateOf DEF Early, Starting, Usable, IsBsc
  <2>4. CoreStateList[n] \in Done(n)'
    <3>1. CASE bsc' = "start"
      <4>1. i' = i + 1 /\ ~Usable(i)
        BY <1>4, <3>1 DEF StartCore, BscGoto, Usable, IsBsc
      <4> QED BY <2>1, <2>2, <2>3, <3>1, <4>1 DEF InOrder, Done, Starting
    <3>2. CASE bsc' # "start"
      <4>1. i' = i /\ bsc' = "await1"
        BY <1>4, <3>2 DEF StartCore, BscGoto
      <4> QED BY <2>1, <2>2, <2>3, <4>1 DEF InOrder, Done, Starting
    <3> QED BY <3>1, <3>2
  <2> QED BY <2>1, <2>2, <2>3, <2>4 DEF InOrder
<1>5. ASSUME CoreStarted
      PROVE  States'
  <2>1. /\ bsc \notin Early /\ UNCHANGED <<LApicArray, CoreStateList, CoreStackPtrs, pc, CoreIndex>>
        /\ Place' = Place
    BY <1>5 DEF CoreStarted, BscGoto, bscVars, coreVars, Place, NumberLAPICs, Early
  <2> SUFFICES ASSUME NEW n \in Place
               PROVE  InOrder(n)'
    BY <2>1 DEF States
  <2>2. InOrder(n) /\ n \in Nat /\ n >= 1 /\ n <= NumberLAPICs
    BY <2>1 DEF States, Place
  <2>3. Owned(n)' = Owned(n) /\ Usable(n)' = Usable(n)
    BY <2>1 DEF Owned, Owner, Usable, IsBsc
  <2>5. IInv /\ Usable(i) /\ bsc = "await1"
    BY <1>5 DEF CoreStarted, BscGoto, bscVars, coreVars, IInv, Places
  <2>4. CoreStateList[n] \in Done(n)'
    BY <1>5, <2>1, <2>2, <2>3, <2>5, SMTT(30) DEF CoreStarted, BscGoto, bscVars, coreVars, InOrder, Done, Starting, Timing, Places
  <2> QED BY <2>1, <2>2, <2>3, <2>4 DEF InOrder
<1>6. ASSUME CountBsc
      PROVE  States'
  <2>1. /\ bsc \notin Early /\ UNCHANGED <<LApicArray, CoreStateList, CoreStackPtrs, pc, CoreIndex>>
        /\ Place' = Place
    BY <1>6 DEF CountBsc, BscGoto, bscVars, coreVars, Place, NumberLAPICs, Early
  <2> SUFFICES ASSUME NEW n \in Place
               PROVE  InOrder(n)'
    BY <2>1 DEF States
  <2>2. InOrder(n) /\ n \in Nat /\ n >= 1 /\ n <= NumberLAPICs
    BY <2>1 DEF States, Place
  <2>3. Owned(n)' = Owned(n) /\ Usable(n)' = Usable(n)
    BY <2>1 DEF Owned, Owner, Usable, IsBsc
  <2>4. CoreStateList[n] \in Done(n)'
    BY <1>6, <2>1, <2>2, <2>3, SMTT(30) DEF CountBsc, BscGoto, bscVars, coreVars, InOrder, Done, Starting, Timing
  <2> QED BY <2>1, <2>2, <2>3, <2>4 DEF InOrder
<1>7. ASSUME StoreIDs
      PROVE  States'
  <2>1. /\ bsc \notin Early /\ UNCHANGED <<LApicArray, CoreStateList, CoreStackPtrs, pc, CoreIndex>>
        /\ Place' = Place
    BY <1>7 DEF StoreIDs, BscGoto, bscVars, coreVars, Place, NumberLAPICs, Early
  <2> SUFFICES ASSUME NEW n \in Place
               PROVE  InOrder(n)'
    BY <2>1 DEF States
  <2>2. InOrder(n) /\ n \in Nat /\ n >= 1 /\ n <= NumberLAPICs
    BY <2>1 DEF States, Place
  <2>3. Owned(n)' = Owned(n) /\ Usable(n)' = Usable(n)
    BY <2>1 DEF Owned, Owner, Usable, IsBsc
  <2>4. CoreStateList[n] \in Done(n)'
    BY <1>7, <2>1, <2>2, <2>3, SMTT(30) DEF StoreIDs, BscGoto, bscVars, coreVars, InOrder, Done, Starting, Timing, Counted
  <2> QED BY <2>1, <2>2, <2>3, <2>4 DEF InOrder
<1>8. ASSUME Release
      PROVE  States'
  <2>1. /\ bsc = "timer" /\ UNCHANGED <<LApicArray, CoreStackPtrs, pc, CoreIndex, NumberCores>>
        /\ Place' = Place /\ NumberCores \in Nat
    BY <1>8 DEF Release, BscGoto, bscVars, coreVars, Place, NumberLAPICs, Timing
  <2> SUFFICES ASSUME NEW n \in Place
               PROVE  InOrder(n)'
    BY <2>1 DEF States
  <2>2. InOrder(n) /\ n \in Nat /\ n >= 1
    BY <2>1 DEF States, Place, Early
  <2>3. /\ Owned(n)' <=> /\ Owner(n) \in AP /\ CoreIndex[Owner(n)] = n
                         /\ pc[Owner(n)] \in {"await4", "idle"}
                         /\ CoreStateList'[n] = 3 => pc[Owner(n)] = "await4"
                         /\ CoreStateList'[n] = 5 => pc[Owner(n)] = "idle"
        /\ Usable(n)' = Usable(n)
    BY <2>1 DEF Owned, Owner, Usable, IsBsc
  <2>4. CASE i > NumberCores
    <3>1. CoreStateList' = CoreStateList /\ bsc' = "go" /\ i' = 2
      BY <1>8, <2>1, <2>4 DEF Release, BscGoto, bscVars, coreVars
    <3>2. CoreStateList[n] \in Done(n)'
      BY <2>1, <2>2, <2>3, <2>4, <3>1, SMTT(30) DEF InOrder, Done, Starting
    <3> QED BY <2>1, <2>2, <2>3, <3>1, <3>2 DEF InOrder, Owned, Owner
  <2>5. CASE i <= NumberCores
    <3>1. /\ bsc' = "await3" /\ i' = i /\ i \in Place
          /\ CoreStateList' = [CoreStateList EXCEPT ![i] = 2]
      BY <1>8, <2>1, <2>5, LoopPlace DEF Release, BscGoto, bscVars, coreVars
    <3>2. PICK k \in Place : CoreStateList' = [CoreStateList EXCEPT ![k] = 2] /\ k = i
      BY <3>1
    <3>3. CoreStateList'[n] = IF n = i THEN 2 ELSE CoreStateList[n]
      BY <2>1, <3>1, <3>2, PlaceSet DEF Early
    <3>4. CoreStateList[i] \in {0, 1}
      BY <2>1, <2>5, <3>1, StateOf DEF Early
    <3>5. CoreStateList'[n] \in Done(n)'
      <4>1. 2 <= i
        BY <2>1 DEF IInv, Counted
      <4> QED BY <2>1, <2>2, <2>3, <2>5, <3>1, <3>3, <4>1, SMTT(30) DEF InOrder, Done, Starting
    <3>6. CoreStateList'[n] >= 3 => Owned(n)'
      <4>1. CASE n = i
        BY <2>2, <2>3, <3>3, <3>4, <4>1 DEF InOrder, Owned
      <4>2. CASE n # i
        <5>1. CoreStateList'[n] = CoreStateList[n] /\ (CoreStateList[n] >= 3 => Owned(n))
          BY <2>2, <3>3, <4>2 DEF InOrder
        <5>2. Owned(n) => Owned(n)'
          BY <2>3, <5>1 DEF Owned
        <5> QED BY <5>1, <5>2
      <4> QED BY <4>1, <4>2
    <3> QED BY <2>1, <2>2, <3>3, <3>4, <3>5, <3>6 DEF InOrder
  <2>6. i \in Nat /\ NumberCores \in Nat
    BY <2>1
  <2> QED BY <2>4, <2>5, <2>6
<1>9. ASSUME CoreReady
      PROVE  States'
  <2>1. /\ bsc \notin Early /\ UNCHANGED <<LApicArray, CoreStateList, CoreStackPtrs, pc, CoreIndex>>
        /\ Place' = Place
    BY <1>9 DEF CoreReady, BscGoto, bscVars, coreVars, Place, NumberLAPICs, Early
  <2> SUFFICES ASSUME NEW n \in Place
               PROVE  InOrder(n)'
    BY <2>1 DEF States
  <2>2. InOrder(n) /\ n \in Nat /\ n >= 1 /\ n <= NumberLAPICs
    BY <2>1 DEF States, Place
  <2>3. Owned(n)' = Owned(n) /\ Usable(n)' = Usable(n)
    BY <2>1 DEF Owned, Owner, Usable, IsBsc
  <2>4. CoreStateList[n] \in Done(n)'
    BY <1>9, <2>1, <2>2, <2>3, SMTT(30) DEF CoreReady, BscGoto, bscVars, coreVars, InOrder, Done, Starting, Timing
  <2> QED BY <2>1, <2>2, <2>3, <2>4 DEF InOrder
<1>10. ASSUME Go
      PROVE  States'
  <2>1. /\ bsc = "go" /\ UNCHANGED <<LApicArray, CoreStackPtrs, pc, CoreIndex, NumberCores>>
        /\ Place' = Place /\ NumberCores \in Nat
    BY <1>10 DEF Go, BscGoto, bscVars, coreVars, Place, NumberLAPICs, Timing
  <2> SUFFICES ASSUME NEW n \in Place
               PROVE  InOrder(n)'
    BY <2>1 DEF States
  <2>2. InOrder(n) /\ n \in Nat /\ n >= 1
    BY <2>1 DEF States, Place, Early
  <2>3. /\ Owned(n)' <=> /\ Owner(n) \in AP /\ CoreIndex[Owner(n)] = n
                         /\ pc[Owner(n)] \in {"await4", "idle"}
                         /\ CoreStateList'[n] = 3 => pc[Owner(n)] = "await4"
                         /\ CoreStateList'[n] = 5 => pc[Owner(n)] = "idle"
        /\ Usable(n)' = Usable(n)
    BY <2>1 DEF Owned, Owner, Usable, IsBsc
  <2>4. CASE i > NumberCores
    <3>1. CoreStateList' = CoreStateList /\ bsc' = "online" /\ i' = i
      BY <1>10, <2>1, <2>4 DEF Go, BscGoto, bscVars, coreVars
    <3>2. CoreStateList[n] \in Done(n)'
      BY <2>1, <2>2, <2>3, <2>4, <3>1, SMTT(30) DEF InOrder, Done, Starting
    <3> QED BY <2>1, <2>2, <2>3, <3>1, <3>2 DEF InOrder, Owned, Owner
  <2>5. CASE i <= NumberCores
    <3>1. /\ bsc' = "await5" /\ i' = i /\ i \in Place
          /\ CoreStateList' = [CoreStateList EXCEPT ![i] = 4]
      BY <1>10, <2>1, <2>5, LoopPlace DEF Go, BscGoto, bscVars, coreVars
    <3>2. PICK k \in Place : CoreStateList' = [CoreStateList EXCEPT ![k] = 4] /\ k = i
      BY <3>1
    <3>3. CoreStateList'[n] = IF n = i THEN 4 ELSE CoreStateList[n]
      BY <2>1, <3>1, <3>2, PlaceSet DEF Early
    <3>4. CoreStateList[i] \in {3}
      BY <2>1, <2>5, <3>1, StateOf DEF Early
    <3>5. CoreStateList'[n] \in Done(n)'
      <4>1. 2 <= i
        BY <2>1 DEF IInv, Counted
      <4> QED BY <2>1, <2>2, <2>3, <2>5, <3>1, <3>3, <4>1, SMTT(30) DEF InOrder, Done, Starting
    <3>6. CoreStateList'[n] >= 3 => Owned(n)'
      <4>1. CASE n = i
        BY <2>2, <2>3, <3>3, <3>4, <4>1 DEF InOrder, Owned
      <4>2. CASE n # i
        <5>1. CoreStateList'[n] = CoreStateList[n] /\ (CoreStateList[n] >= 3 => Owned(n))
          BY <2>2, <3>3, <4>2 DEF InOrder
        <5>2. Owned(n) => Owned(n)'
          BY <2>3, <5>1 DEF Owned
        <5> QED BY <5>1, <5>2
      <4> QED BY <4>1, <4>2
    <3> QED BY <2>1, <2>2, <3>3, <3>4, <3>5, <3>6 DEF InOrder
  <2>6. i \in Nat /\ NumberCores \in Nat
    BY <2>1
  <2> QED BY <2>4, <2>5, <2>6
<1>11. ASSUME CoreOnline
      PROVE  States'
  <2>1. /\ bsc \notin Early /\ UNCHANGED <<LApicArray, CoreStateList, CoreStackPtrs, pc, CoreIndex>>
        /\ Place' = Place
    BY <1>11 DEF CoreOnline, BscGoto, bscVars, coreVars, Place, NumberLAPICs, Early
  <2> SUFFICES ASSUME NEW n \in Place
               PROVE  InOrder(n)'
    BY <2>1 DEF States
  <2>2. InOrder(n) /\ n \in Nat /\ n >= 1 /\ n <= NumberLAPICs
    BY <2>1 DEF States, Place
  <2>3. Owned(n)' = Owned(n) /\ Usable(n)' = Usable(n)
    BY <2>1 DEF Owned, Owner, Usable, IsBsc
  <2>4. CoreStateList[n] \in Done(n)'
    BY <1>11, <2>1, <2>2, <2>3, SMTT(30) DEF CoreOnline, BscGoto, bscVars, coreVars, InOrder, Done, Starting, Timing
  <2> QED BY <2>1, <2>2, <2>3, <2>4 DEF InOrder
<1>12. ASSUME NEW c \in AP, TakeStack(c)
      PROVE  States'
  <2>1. /\ UNCHANGED <<bscVars, CoreStateList, CoreStackPtrs>> /\ Place' = Place /\ bsc \notin Early
    BY <1>12, CoresWait DEF TakeStack, Goto, bscVars, coreVars, Place, NumberLAPICs, CoreStep
  <2> SUFFICES ASSUME NEW n \in Place
               PROVE  InOrder(n)'
    BY <2>1 DEF States
  <2>2. InOrder(n)
    BY <2>1 DEF States
  <2>3. Done(n)' = Done(n)
    BY <2>1 DEF Done, Usable, IsBsc, bscVars
  <2>4. Owned(n) /\ CoreStateList[n] >= 3 => Owned(n)'
    <3>1. Owner(n)' = Owner(n)
      BY <2>1 DEF Owner, bscVars
    <3>2. CASE Owner(n) # c
      BY <1>12, <2>1, <3>1, <3>2 DEF TakeStack, Goto, bscVars, coreVars, Owned, IInv, Places
    <3>3. CASE Owner(n) = c
      BY <1>12, <3>3 DEF TakeStack, Goto, bscVars, coreVars, Owned
    <3> QED BY <3>2, <3>3
  <2> QED BY <2>1, <2>2, <2>3, <2>4 DEF InOrder
<1>13. ASSUME NEW c \in AP, TakeIndex(c)
      PROVE  States'
  <2>1. /\ UNCHANGED <<bscVars, CoreStateList, CoreStackPtrs>> /\ Place' = Place /\ bsc \notin Early
    BY <1>13, CoresWait DEF TakeIndex, Goto, bscVars, coreVars, Place, NumberLAPICs, CoreStep
  <2> SUFFICES ASSUME NEW n \in Place
               PROVE  InOrder(n)'
    BY <2>1 DEF States
  <2>2. InOrder(n)
    BY <2>1 DEF States
  <2>3. Done(n)' = Done(n)
    BY <2>1 DEF Done, Usable, IsBsc, bscVars
  <2>4. Owned(n) /\ CoreStateList[n] >= 3 => Owned(n)'
    <3>1. Owner(n)' = Owner(n)
      BY <2>1 DEF Owner, bscVars
    <3>2. CASE Owner(n) # c
      BY <1>13, <2>1, <3>1, <3>2 DEF TakeIndex, Goto, bscVars, coreVars, Owned, IInv, Places
    <3>3. CASE Owner(n) = c
      BY <1>13, <3>3 DEF TakeIndex, Goto, bscVars, coreVars, Owned
    <3> QED BY <3>2, <3>3
  <2> QED BY <2>1, <2>2, <2>3, <2>4 DEF InOrder
<1>14. ASSUME NEW c \in AP, Report(c)
      PROVE  States'
  <2>1. /\ UNCHANGED <<bscVars, CoreIndex, CoreStackPtrs>> /\ Place' = Place /\ bsc \notin Early
        /\ pc[c] = "report" /\ pc'[c] = "await2" /\ \A d \in AP \ {c} : pc'[d] = pc[d]
    BY <1>14, CoresWait DEF Report, Goto, bscVars, coreVars, Place, NumberLAPICs, CoreStep, IInv, Places
  <2>2. /\ CoreIndex[c] \in Place /\ Owner(CoreIndex[c]) = c /\ Usable(CoreIndex[c])
        /\ CoreStateList[CoreIndex[c]] = 0
        /\ CoreStateList' = [CoreStateList EXCEPT ![CoreIndex[c]] = 1]
    BY <1>14, <2>1 DEF Report, Goto, bscVars, coreVars, IInv, Places, AtPlace, Placed, Joining, Owner
  <2>3. PICK k \in Place : CoreStateList' = [CoreStateList EXCEPT ![k] = 1] /\ k = CoreIndex[c]
    BY <2>2
  <2>4. \A n \in Place : CoreStateList'[n] = IF n = CoreIndex[c] THEN 1 ELSE CoreStateList[n]
    BY <2>1, <2>3, PlaceSet
  <2> SUFFICES ASSUME NEW n \in Place
               PROVE  InOrder(n)'
    BY <2>1 DEF States
  <2>5. InOrder(n)
    BY <2>1 DEF States
  <2>6. CoreStateList'[n] \in Done(n)'
    <3>1. Done(n)' = Done(n)
      BY <2>1 DEF Done, Usable, IsBsc, bscVars
    <3>2. CASE n # CoreIndex[c]
      BY <2>4, <2>5, <3>1, <3>2 DEF InOrder
    <3>3. CASE n = CoreIndex[c]
      <4>1. bsc = "await1" /\ n = i
        BY <2>1, <3>3 DEF IInv, Places, AtPlace, Joining
      <4> QED BY <2>1, <2>4, <3>1, <3>3, <4>1 DEF Done, Starting
    <3> QED BY <3>2, <3>3
  <2>7. CoreStateList'[n] >= 3 => Owned(n)'
    <3>1. Owner(n)' = Owner(n) /\ UNCHANGED CoreIndex
      BY <2>1 DEF Owner, bscVars
    <3>2. CASE n # CoreIndex[c]
      BY <2>1, <2>4, <2>5, <3>1, <3>2 DEF InOrder, Owned
    <3>3. CASE n = CoreIndex[c]
      BY <2>1, <2>2, <2>4, <3>1, <3>3 DEF Owned
    <3> QED BY <3>2, <3>3
  <2> QED BY <2>1, <2>2, <2>4, <2>5, <2>6, <2>7 DEF InOrder
<1>15. ASSUME NEW c \in AP, GetReady(c)
      PROVE  States'
  <2>1. /\ UNCHANGED <<bscVars, CoreIndex, CoreStackPtrs>> /\ Place' = Place /\ bsc \notin Early
        /\ pc[c] = "await2" /\ pc'[c] = "await4" /\ \A d \in AP \ {c} : pc'[d] = pc[d]
    BY <1>15, CoresWait DEF GetReady, Goto, bscVars, coreVars, Place, NumberLAPICs, CoreStep, IInv, Places
  <2>2. /\ CoreIndex[c] \in Place /\ Owner(CoreIndex[c]) = c /\ Usable(CoreIndex[c])
        /\ CoreStateList[CoreIndex[c]] = 2
        /\ CoreStateList' = [CoreStateList EXCEPT ![CoreIndex[c]] = 3]
    BY <1>15, <2>1 DEF GetReady, Goto, bscVars, coreVars, IInv, Places, AtPlace, Placed, Joining, Owner
  <2>3. PICK k \in Place : CoreStateList' = [CoreStateList EXCEPT ![k] = 3] /\ k = CoreIndex[c]
    BY <2>2
  <2>4. \A n \in Place : CoreStateList'[n] = IF n = CoreIndex[c] THEN 3 ELSE CoreStateList[n]
    BY <2>1, <2>3, PlaceSet
  <2> SUFFICES ASSUME NEW n \in Place
               PROVE  InOrder(n)'
    BY <2>1 DEF States
  <2>5. InOrder(n)
    BY <2>1 DEF States
  <2>6. CoreStateList'[n] \in Done(n)'
    <3>1. Done(n)' = Done(n)
      BY <2>1 DEF Done, Usable, IsBsc, bscVars
    <3>2. CASE n # CoreIndex[c]
      BY <2>4, <2>5, <3>1, <3>2 DEF InOrder
    <3>3. CASE n = CoreIndex[c]
      <4>1. CoreStateList[n] \in Done(n) /\ CoreStateList[n] = 2
        BY <2>2, <2>5, <3>3 DEF InOrder
      <4>2. n \in Nat /\ i \in Nat /\ (bsc \in Timing => NumberCores \in Nat) /\ n >= 1
        BY DEF Place
      <4>3. 3 \in Done(n)
        BY <2>1, <2>2, <3>3, <4>1, <4>2, SMTT(30) DEF Done, Starting, Timing
      <4> QED BY <2>4, <3>1, <3>3, <4>3
    <3> QED BY <3>2, <3>3
  <2>7. CoreStateList'[n] >= 3 => Owned(n)'
    <3>1. Owner(n)' = Owner(n) /\ UNCHANGED CoreIndex
      BY <2>1 DEF Owner, bscVars
    <3>2. CASE n # CoreIndex[c]
      BY <2>1, <2>4, <2>5, <3>1, <3>2 DEF InOrder, Owned
    <3>3. CASE n = CoreIndex[c]
      BY <2>1, <2>2, <2>4, <3>1, <3>3 DEF Owned
    <3> QED BY <3>2, <3>3
  <2> QED BY <2>1, <2>2, <2>4, <2>5, <2>6, <2>7 DEF InOrder
<1>16. ASSUME NEW c \in AP, StartTimer(c)
      PROVE  States'
  <2>1. /\ UNCHANGED <<bscVars, CoreStateList, CoreStackPtrs>> /\ Place' = Place /\ bsc \notin Early
    BY <1>16, CoresWait DEF StartTimer, Goto, bscVars, coreVars, Place, NumberLAPICs, CoreStep
  <2> SUFFICES ASSUME NEW n \in Place
               PROVE  InOrder(n)'
    BY <2>1 DEF States
  <2>2. InOrder(n)
    BY <2>1 DEF States
  <2>3. Done(n)' = Done(n)
    BY <2>1 DEF Done, Usable, IsBsc, bscVars
  <2>4. Owned(n) /\ CoreStateList[n] >= 3 => Owned(n)'
    <3>1. Owner(n)' = Owner(n)
      BY <2>1 DEF Owner, bscVars
    <3>2. CASE Owner(n) # c
      BY <1>16, <2>1, <3>1, <3>2 DEF StartTimer, Goto, bscVars, coreVars, Owned, IInv, Places
    <3>3. CASE Owner(n) = c
      <4>1. pc'[c] = "idle" /\ CoreStateList[CoreIndex[c]] = 4 /\ UNCHANGED <<CoreIndex, CoreStateList>>
        BY <1>16 DEF StartTimer, Goto, bscVars, coreVars, IInv, Places
      <4> QED BY <3>1, <3>3, <4>1 DEF Owned
    <3> QED BY <3>2, <3>3
  <2> QED BY <2>1, <2>2, <2>3, <2>4 DEF InOrder
<1>17. ASSUME NEW c \in AP, FirstTick(c)
      PROVE  States'
  <2>1. /\ UNCHANGED <<bscVars, CoreIndex>> /\ Place' = Place /\ bsc \notin Early
        /\ pc[c] = "idle" /\ pc'[c] = "idle" /\ \A d \in AP \ {c} : pc'[d] = pc[d]
    BY <1>17, TickEffect, CoresWait DEF FirstTick, Goto, bscVars, coreVars, Place, NumberLAPICs, CoreStep, IInv, Places, coreVars
  <2>2. /\ CoreIndex[c] \in Place /\ Owner(CoreIndex[c]) = c /\ Usable(CoreIndex[c])
        /\ CoreStateList[CoreIndex[c]] = 4
        /\ CoreStateList' = [CoreStateList EXCEPT ![CoreIndex[c]] = 5]
    BY <1>17, TickEffect, <2>1 DEF FirstTick, Goto, bscVars, coreVars, IInv, Places, AtPlace, Placed, Joining, Owner
  <2>3. PICK k \in Place : CoreStateList' = [CoreStateList EXCEPT ![k] = 5] /\ k = CoreIndex[c]
    BY <2>2
  <2>4. \A n \in Place : CoreStateList'[n] = IF n = CoreIndex[c] THEN 5 ELSE CoreStateList[n]
    BY <2>1, <2>3, PlaceSet
  <2> SUFFICES ASSUME NEW n \in Place
               PROVE  InOrder(n)'
    BY <2>1 DEF States
  <2>5. InOrder(n)
    BY <2>1 DEF States
  <2>6. CoreStateList'[n] \in Done(n)'
    <3>1. Done(n)' = Done(n)
      BY <2>1 DEF Done, Usable, IsBsc, bscVars
    <3>2. CASE n # CoreIndex[c]
      BY <2>4, <2>5, <3>1, <3>2 DEF InOrder
    <3>3. CASE n = CoreIndex[c]
      <4>1. CoreStateList[n] \in Done(n) /\ CoreStateList[n] = 4
        BY <2>2, <2>5, <3>3 DEF InOrder
      <4>2. n \in Nat /\ i \in Nat /\ (bsc \in Timing => NumberCores \in Nat) /\ n >= 1
        BY DEF Place
      <4>3. 5 \in Done(n)
        BY <2>1, <2>2, <3>3, <4>1, <4>2, SMTT(30) DEF Done, Starting, Timing
      <4> QED BY <2>4, <3>1, <3>3, <4>3
    <3> QED BY <3>2, <3>3
  <2>7. CoreStateList'[n] >= 3 => Owned(n)'
    <3>1. Owner(n)' = Owner(n) /\ UNCHANGED CoreIndex
      BY <2>1 DEF Owner, bscVars
    <3>2. CASE n # CoreIndex[c]
      BY <2>1, <2>4, <2>5, <3>1, <3>2 DEF InOrder, Owned
    <3>3. CASE n = CoreIndex[c]
      BY <2>1, <2>2, <2>4, <3>1, <3>3 DEF Owned
    <3> QED BY <3>2, <3>3
  <2>8. CoreStackPtrs'[n] = IF n = CoreIndex[c] THEN [buffer |-> n, saved |-> TRUE] ELSE CoreStackPtrs[n]
    BY <1>17, TickSet
  <2> QED BY <2>4, <2>5, <2>6, <2>7, <2>8 DEF InOrder
<1>18. CASE UNCHANGED vars
  <2>1. UNCHANGED <<bscVars, CoreStateList, CoreStackPtrs, pc, CoreIndex>>
    BY <1>18 DEF vars, coreVars
  <2>2. UNCHANGED <<LApicArray, bsc, i, NumberCores>> /\ Place' = Place
    BY <2>1 DEF bscVars, Place, NumberLAPICs
  <2>3. ASSUME NEW n
        PROVE  InOrder(n)' = InOrder(n)
    BY <2>1, <2>2 DEF InOrder, Done, Owned, Owner, Usable, IsBsc
  <2> QED BY <2>2, <2>3 DEF States
<1> QED BY <1>1, <1>2, <1>3, <1>4, <1>5, <1>6, <1>7, <1>8, <1>9, <1>10, <1>11, <1>12, <1>13, <1>14, <1>15, <1>16, <1>17, <1>18 DEF Next, BscStep, CoreStep

-----------------------------------------------------------------------------
(***************************************************************************)
(* The ids are those of the places.                                        *)
(***************************************************************************)
LEMMA IdsStep ==
  ASSUME IInv, [Next]_vars
  PROVE  Ids'
<1>0. /\ Ids /\ Lists
      /\ NumberLAPICs \in Nat /\ i \in Nat /\ i >= 1
  BY LoopPlace DEF IInv, Lists
<1> USE <1>0
<1>1. ASSUME ScanMadt
      PROVE  Ids'
  <2>1. /\ UNCHANGED <<LApicArray, CoreIDS>> /\ NumberLAPICs' = NumberLAPICs
        /\ bsc' \in Early \cup Starting => bsc \in Early \cup Starting
        /\ bsc' # "store"
        /\ bsc' \in Timing \ {"store"} => bsc \in Timing \ {"store"}
    BY <1>1 DEF ScanMadt, BscGoto, bscVars, coreVars, NumberLAPICs, Early, Starting, Timing
  <2> QED BY <2>1 DEF Ids, IdsOf
<1>2. ASSUME PrepareCores
      PROVE  Ids'
  <2>1. /\ UNCHANGED <<LApicArray, CoreIDS>> /\ NumberLAPICs' = NumberLAPICs
        /\ bsc' \in Early \cup Starting => bsc \in Early \cup Starting
        /\ bsc' # "store"
        /\ bsc' \in Timing \ {"store"} => bsc \in Timing \ {"store"}
    BY <1>2 DEF PrepareCores, BscGoto, bscVars, coreVars, NumberLAPICs, Early, Starting, Timing
  <2> QED BY <2>1 DEF Ids, IdsOf
<1>3. ASSUME CollectLAPICs
      PROVE  Ids'
  <2>1. CoreIDS' = CoreIDS /\ bsc \in Early /\ bsc' \in Early \cup Starting
    BY <1>3 DEF CollectLAPICs, BscGoto, bscVars, coreVars, Early, Starting
  <2> QED BY <2>1 DEF Ids, Early, Starting, Timing
<1>4. ASSUME StartCore
      PROVE  Ids'
  <2>1. /\ UNCHANGED <<LApicArray, CoreIDS>> /\ NumberLAPICs' = NumberLAPICs
        /\ bsc' \in Early \cup Starting => bsc \in Early \cup Starting
        /\ bsc' # "store"
        /\ bsc' \in Timing \ {"store"} => bsc \in Timing \ {"store"}
    BY <1>4 DEF StartCore, BscGoto, SendStartup, bscVars, coreVars, NumberLAPICs, Early, Starting, Timing
  <2> QED BY <2>1 DEF Ids, IdsOf
<1>5. ASSUME CoreStarted
      PROVE  Ids'
  <2>1. /\ UNCHANGED <<LApicArray, CoreIDS>> /\ NumberLAPICs' = NumberLAPICs
        /\ bsc' \in Early \cup Starting => bsc \in Early \cup Starting
        /\ bsc' # "store"
        /\ bsc' \in Timing \ {"store"} => bsc \in Timing \ {"store"}
    BY <1>5 DEF CoreStarted, BscGoto, bscVars, coreVars, NumberLAPICs, Early, Starting, Timing
  <2> QED BY <2>1 DEF Ids, IdsOf
<1>6. ASSUME CountBsc
      PROVE  Ids'
  <2>1. /\ bsc = "start" /\ bsc' = "store" /\ i' = 1 /\ UNCHANGED <<LApicArray, CoreIDS>>
        /\ CoreIDS = <<>>
    BY <1>6 DEF CountBsc, BscGoto, bscVars, coreVars, Ids, Starting
  <2>2. \A m \in 0..(i' - 1) : IdsOf(m)'
    BY <2>1 DEF IdsOf
  <2> QED BY <2>1, <2>2 DEF Ids, Early, Starting, Timing
<1>7. ASSUME StoreIDs
      PROVE  Ids'
  <2>1. /\ bsc = "store" /\ UNCHANGED LApicArray /\ NumberLAPICs' = NumberLAPICs
        /\ CoreIDS \in Seq(Core) /\ Len(CoreIDS) \in Nat /\ Len(CoreIDS) < i
        /\ \A m \in 0..(i - 1) : IdsOf(m)
    BY <1>7 DEF StoreIDs, NumberLAPICs, Ids
  <2>2. CASE i <= NumberLAPICs
    <3>1. /\ bsc' = "store" /\ i' = i + 1
          /\ CoreIDS' = IF Startable(LApicArray[i]) THEN Append(CoreIDS, LApicArray[i].ApicID) ELSE CoreIDS
      BY <1>7, <2>1, <2>2 DEF StoreIDs
    <3>2. LApicArray[i] \in MadtEntries /\ LApicArray[i].ApicID \in Core
      <4>1. LApicArray[i] \in MadtEntries
        BY <2>2 DEF Lists, NumberLAPICs
      <4> QED BY <4>1 DEF MadtEntries
    <3>3. /\ CoreIDS' \in Seq(Core) /\ Len(CoreIDS') <= Len(CoreIDS) + 1 /\ Len(CoreIDS') >= Len(CoreIDS)
          /\ \A n \in 1..Len(CoreIDS) : CoreIDS'[n] = CoreIDS[n]
          /\ Startable(LApicArray[i]) => Len(CoreIDS') = Len(CoreIDS) + 1
                                        /\ CoreIDS'[Len(CoreIDS) + 1] = LApicArray[i].ApicID
      <4>1. CASE Startable(LApicArray[i])
        BY <2>1, <3>1, <3>2, <4>1, AddEntry
      <4>2. CASE ~Startable(LApicArray[i])
        BY <2>1, <3>1, <4>2
      <4> QED BY <4>1, <4>2
    <3>4. Len(CoreIDS') \in Nat /\ Len(CoreIDS') < i'
      BY <2>1, <3>1, <3>3
    <3>5. ASSUME NEW m \in 0..(i' - 1)
          PROVE  IdsOf(m)'
      <4> SUFFICES ASSUME \A n \in 1..m : Startable(LApicArray[n])
                   PROVE  m <= Len(CoreIDS') /\ \A n \in 1..m : CoreIDS'[n] = LApicArray[n].ApicID
        BY <2>1 DEF IdsOf, Startable
      <4>1. CASE m <= i - 1
        <5>1. IdsOf(m)
          BY <2>1, <4>1
        <5>2. m <= Len(CoreIDS) /\ \A n \in 1..m : CoreIDS[n] = LApicArray[n].ApicID
          BY <5>1 DEF IdsOf
        <5> QED BY <2>1, <3>3, <3>4, <5>2
      <4>2. CASE m = i
        <5>1. IdsOf(i - 1) /\ Startable(LApicArray[i])
          BY <2>1, <4>2
        <5>2. i - 1 <= Len(CoreIDS) /\ \A n \in 1..(i - 1) : CoreIDS[n] = LApicArray[n].ApicID
          BY <4>2, <5>1 DEF IdsOf
        <5>3. Len(CoreIDS) + 1 = i
          BY <2>1, <5>2
        <5> QED BY <2>1, <3>3, <4>2, <5>1, <5>2, <5>3
      <4> QED BY <3>1, <4>1, <4>2
    <3> QED BY <3>1, <3>3, <3>4, <3>5 DEF Ids, Early, Starting, Timing
  <2>3. CASE i > NumberLAPICs
    <3>1. bsc' = "timer" /\ UNCHANGED CoreIDS /\ i - 1 = NumberLAPICs
      <4>1. i <= NumberLAPICs + 1
        BY <2>1 DEF IInv, Counted
      <4> QED BY <1>7, <2>1, <2>3, <4>1 DEF StoreIDs, BscGoto
    <3>2. \A m \in 0..NumberLAPICs : IdsOf(m)'
      BY <2>1, <3>1 DEF IdsOf
    <3> QED BY <2>1, <3>1, <3>2 DEF Ids, Early, Starting, Timing
  <2> QED BY <2>2, <2>3
<1>8. ASSUME Release
      PROVE  Ids'
  <2>1. /\ UNCHANGED <<LApicArray, CoreIDS>> /\ NumberLAPICs' = NumberLAPICs
        /\ bsc' \in Early \cup Starting => bsc \in Early \cup Starting
        /\ bsc' # "store"
        /\ bsc' \in Timing \ {"store"} => bsc \in Timing \ {"store"}
    BY <1>8 DEF Release, BscGoto, bscVars, coreVars, NumberLAPICs, Early, Starting, Timing
  <2> QED BY <2>1 DEF Ids, IdsOf
<1>9. ASSUME CoreReady
      PROVE  Ids'
  <2>1. /\ UNCHANGED <<LApicArray, CoreIDS>> /\ NumberLAPICs' = NumberLAPICs
        /\ bsc' \in Early \cup Starting => bsc \in Early \cup Starting
        /\ bsc' # "store"
        /\ bsc' \in Timing \ {"store"} => bsc \in Timing \ {"store"}
    BY <1>9 DEF CoreReady, BscGoto, bscVars, coreVars, NumberLAPICs, Early, Starting, Timing
  <2> QED BY <2>1 DEF Ids, IdsOf
<1>10. ASSUME Go
      PROVE  Ids'
  <2>1. /\ UNCHANGED <<LApicArray, CoreIDS>> /\ NumberLAPICs' = NumberLAPICs
        /\ bsc' \in Early \cup Starting => bsc \in Early \cup Starting
        /\ bsc' # "store"
        /\ bsc' \in Timing \ {"store"} => bsc \in Timing \ {"store"}
    BY <1>10 DEF Go, BscGoto, bscVars, coreVars, NumberLAPICs, Early, Starting, Timing
  <2> QED BY <2>1 DEF Ids, IdsOf
<1>11. ASSUME CoreOnline
      PROVE  Ids'
  <2>1. /\ UNCHANGED <<LApicArray, CoreIDS>> /\ NumberLAPICs' = NumberLAPICs
        /\ bsc' \in Early \cup Starting => bsc \in Early \cup Starting
        /\ bsc' # "store"
        /\ bsc' \in Timing \ {"store"} => bsc \in Timing \ {"store"}
    BY <1>11 DEF CoreOnline, BscGoto, bscVars, coreVars, NumberLAPICs, Early, Starting, Timing
  <2> QED BY <2>1 DEF Ids, IdsOf
<1>12. ASSUME NEW c \in AP, TakeStack(c)
      PROVE  Ids'
  <2>1. /\ UNCHANGED <<LApicArray, CoreIDS, bsc, i>> /\ NumberLAPICs' = NumberLAPICs
    BY <1>12 DEF TakeStack, Goto, bscVars, coreVars, NumberLAPICs
  <2> QED BY <2>1 DEF Ids, IdsOf
<1>13. ASSUME NEW c \in AP, TakeIndex(c)
      PROVE  Ids'
  <2>1. /\ UNCHANGED <<LApicArray, CoreIDS, bsc, i>> /\ NumberLAPICs' = NumberLAPICs
    BY <1>13 DEF TakeIndex, Goto, bscVars, coreVars, NumberLAPICs
  <2> QED BY <2>1 DEF Ids, IdsOf
<1>14. ASSUME NEW c \in AP, Report(c)
      PROVE  Ids'
  <2>1. /\ UNCHANGED <<LApicArray, CoreIDS, bsc, i>> /\ NumberLAPICs' = NumberLAPICs
    BY <1>14 DEF Report, Goto, bscVars, coreVars, NumberLAPICs
  <2> QED BY <2>1 DEF Ids, IdsOf
<1>15. ASSUME NEW c \in AP, GetReady(c)
      PROVE  Ids'
  <2>1. /\ UNCHANGED <<LApicArray, CoreIDS, bsc, i>> /\ NumberLAPICs' = NumberLAPICs
    BY <1>15 DEF GetReady, Goto, bscVars, coreVars, NumberLAPICs
  <2> QED BY <2>1 DEF Ids, IdsOf
<1>16. ASSUME NEW c \in AP, StartTimer(c)
      PROVE  Ids'
  <2>1. /\ UNCHANGED <<LApicArray, CoreIDS, bsc, i>> /\ NumberLAPICs' = NumberLAPICs
    BY <1>16 DEF StartTimer, Goto, bscVars, coreVars, NumberLAPICs
  <2> QED BY <2>1 DEF Ids, IdsOf
<1>17. ASSUME NEW c \in AP, FirstTick(c)
      PROVE  Ids'
  <2>1. /\ UNCHANGED <<LApicArray, CoreIDS, bsc, i>> /\ NumberLAPICs' = NumberLAPICs
    BY <1>17 DEF FirstTick, Goto, bscVars, coreVars, NumberLAPICs
  <2> QED BY <2>1 DEF Ids, IdsOf
<1>18. CASE UNCHANGED vars
  <2>1. /\ UNCHANGED <<LApicArray, CoreIDS, bsc, i>> /\ NumberLAPICs' = NumberLAPICs
    BY <1>18 DEF vars, bscVars, NumberLAPICs
  <2> QED BY <2>1 DEF Ids, IdsOf
<1> QED BY <1>1, <1>2, <1>3, <1>4, <1>5, <1>6, <1>7, <1>8, <1>9, <1>10, <1>11, <1>12, <1>13, <1>14, <1>15, <1>16, <1>17, <1>18 DEF Next, BscStep, CoreStep

-----------------------------------------------------------------------------
LEMMA InitIInv == Init => IInv
<1> SUFFICES ASSUME Init
             PROVE  IInv
  OBVIOUS
<1>1. /\ madt \in Tables /\ BootCoreListed(madt.entries)
      /\ Devices = <<>> /\ LApicArray = <<>> /\ NumberLAPICs = 0 /\ bsc = "scan" /\ i = 1
  BY ConstantsAssumption DEF Init, NumberLAPICs
<1>2. Lists
  BY <1>1 DEF Init, Lists, NothingYet, BscPCs, Early
<1>3. BscListed
  <2>1. On(Devices) /\ On(madt.entries)
    BY <1>1 DEF On, BootCoreListed
  <2>2. madt.entries = <<>> \/ Listed(madt.entries, 1)
    BY <1>1 DEF Listed, BootCoreListed, Tables
  <2> QED BY <1>1, <2>1, <2>2 DEF BscListed, Place, Early
<1>4. Counted /\ States
  BY <1>1 DEF Counted, States, Early, Starting, Timing
<1>5. Places
  <2>1. \A c \in AP : AtPlace(c)
    BY DEF Init, AtPlace, Joining, Placed
  <2> QED BY <1>1, <2>1 DEF Init, Places, CorePCs
<1>6. Ids
  BY <1>1 DEF Init, Ids, Early, Starting, Timing
<1> QED BY <1>2, <1>3, <1>4, <1>5, <1>6 DEF IInv

(* For any MADT that lists the boot core, and any order in which the cores *)
(* step: the lists, counts, places and states of the start-up.             *)
THEOREM StartInvariant == Spec => []IInv
<1>1. Init => IInv
  BY InitIInv
<1>2. ASSUME IInv, [Next]_vars
      PROVE  IInv'
  BY <1>2, ListsStep, BscListedStep, CountedStep, PlacesStep, StatesStep, IdsStep DEF IInv
<1> QED BY <1>1, <1>2, PTL DEF Spec
-----------------------------------------------------------------------------
LEMMA TurnOf ==
  ASSUME IInv, bsc = "timer", i <= NumberCores, Usable(i)
  PROVE  CoreStateList[i] = 1
<1>1. i \in Place /\ 2 <= i /\ i \in Nat /\ NumberCores \in Nat
  BY LoopPlace DEF IInv, Counted, Timing
<1>2. CoreStateList[i] \in Done(i)
  BY <1>1, StateOf DEF Early
<1> QED BY <1>1, <1>2 DEF Done, Starting

LEMMA TypesFollow == IInv => TypeOK
<1> SUFFICES ASSUME IInv
             PROVE  TypeOK
  OBVIOUS
<1> DEFINE N == NumberLAPICs
<1>1. /\ Lists /\ Counted /\ Places /\ States /\ Ids
      /\ N \in Nat /\ i \in Nat /\ i >= 1 /\ (bsc \in Timing => NumberCores \in 1..N)
      /\ N <= Len(Devices) /\ Len(Devices) \in Nat
      /\ bsc \in Early \cup Starting \cup Timing
  BY LoopPlace DEF IInv, Lists, BscPCs, Early, Starting, Timing
<1>2. CASE bsc \in Early
  <2>1. /\ NumberCores = 0 /\ i <= Len(Devices) + 1
        /\ CoreStackPtrs = <<>>
    BY <1>1, <1>2 DEF Lists, NothingYet, Early
  <2> QED BY <1>1, <2>1 DEF TypeOK, Lists, Places, Ids, CorePCs
<1>3. CASE bsc \notin Early
  <2>1. i <= N + 1
    BY <1>1, <1>3 DEF Counted, Starting, Timing
  <2>2. NumberCores \in 0..N
    <3>1. CASE bsc \in Timing
      BY <1>1, <3>1
    <3>2. CASE bsc \in Starting
      <4>1. PICK m \in Nat : m = i - 1
        BY <1>1
      <4>2. NumberCores = Cardinality(Others(LApicArray, m))
        BY <1>1, <3>2, <4>1 DEF Counted
      <4>3. NumberCores \in Nat /\ NumberCores <= m
        BY <4>2, OthersCount
      <4> QED BY <1>1, <2>1, <4>1, <4>3
    <3> QED BY <1>1, <1>3, <3>1, <3>2
  <2>3. CoreStackPtrs \in Seq(StackPtrs(N))
    <3>1. CoreStackPtrs \in Seq(StackPtr) /\ Len(CoreStackPtrs) = N
      BY <1>1, <1>3 DEF Lists
    <3>2. \A n \in 1..N : CoreStackPtrs[n] \in StackPtrs(N)
      <4> SUFFICES ASSUME NEW n \in 1..N
                   PROVE  CoreStackPtrs[n] \in StackPtrs(N)
        OBVIOUS
      <4>1. \/ CoreStackPtrs[n] = [buffer |-> n, saved |-> TRUE]
            \/ CoreStackPtrs[n] = [buffer |-> n, saved |-> FALSE]
        BY <1>1, <1>3, ZenonT(30) DEF States, InOrder, Place
      <4>2. CASE CoreStackPtrs[n] = [buffer |-> n, saved |-> TRUE]
        BY <4>2 DEF StackPtrs
      <4>3. CASE CoreStackPtrs[n] = [buffer |-> n, saved |-> FALSE]
        BY <4>3 DEF StackPtrs
      <4> QED BY <4>1, <4>2, <4>3
    <3> HIDE DEF N
    <3> QED BY <1>1, <3>1, <3>2
  <2> QED BY <1>1, <2>1, <2>2, <2>3 DEF TypeOK, Lists, Places, Ids, CorePCs
<1> QED BY <1>2, <1>3

(* The tables keep their shape, and every core that has said it runs is on *)
(* its own stack and at its own place in the list, whatever the MADT: also *)
(* with cores that are off or listed twice.                                *)
THEOREM CoresFindTheirPlace == Spec => []PlacesKept
<1>1. IInv => PlacesKept
  BY TypesFollow DEF PlacesKept, OwnPlace, IInv, Places, AtPlace, Placed
<1> QED BY <1>1, StartInvariant, PTL

(* No core's timer runs before all stand ready with interrupts off.        *)
THEOREM TimersWait == Spec => []NoTimerBeforeReady
<1>1. ASSUME IInv
      PROVE  NoTimerBeforeReady
  <2>1. timer \cap AP # {} => Answered
    BY <1>1 DEF IInv, Places, AtPlace, Answered
  <2> QED BY <1>1, <2>1, AllAnswered DEF NoTimerBeforeReady
<1> QED BY <1>1, StartInvariant, PTL

(* The other cores are handed over idle, each on its own stack and under   *)
(* its own number: what the scheduler starts from.                         *)
THEOREM StartHandsOver == Spec => []HandsOver
<1>1. ASSUME IInv, bsc = "online"
      PROVE  /\ \A n \in 2..NumberCores :
                  /\ pc[CoreIDS[n]] = "idle" /\ CoreIndex[CoreIDS[n]] = n
                  /\ CoreStateList[n] = 5
                  /\ CoreStackPtrs[n] = [buffer |-> n, saved |-> TRUE]
             /\ CoreStateList[1] = 0 /\ ~CoreStackPtrs[1].saved
  <2>1. /\ NumberCores \in 1..NumberLAPICs /\ NumberLAPICs \in Nat /\ i \in Nat
        /\ bsc \notin Early /\ NumberCores \in Nat /\ Answered /\ States
    BY <1>1, LoopPlace DEF Timing, Early, Answered, IInv
  <2>2. i = NumberCores + 1
    <3>1. i > NumberCores /\ i <= NumberCores + 1
      BY <1>1 DEF IInv, Counted
    <3> QED BY <2>1, <3>1
  <2>3. ASSUME NEW n \in 2..NumberCores
        PROVE  /\ pc[CoreIDS[n]] = "idle" /\ CoreIndex[CoreIDS[n]] = n
               /\ CoreStateList[n] = 5
               /\ CoreStackPtrs[n] = [buffer |-> n, saved |-> TRUE]
    <3>1. InOrder(n) /\ n \in Nat /\ n # 1 /\ n < i
      BY <2>1, <2>2 DEF States, Place
    <3>2. CoreStateList[n] = 5
      BY <1>1, <2>1, <2>2, <3>1 DEF InOrder, Done, Starting
    <3>3. Owned(n) /\ CoreStackPtrs[n] = [buffer |-> n, saved |-> TRUE]
      BY <3>1, <3>2 DEF InOrder
    <3>4. CoreIDS[n] = Owner(n)
      BY <1>1, <2>1, AllAnswered
    <3> QED BY <3>2, <3>3, <3>4 DEF Owned
  <2>4. InOrder(1) /\ ~Usable(1)
    BY <1>1, <2>1, AllAnswered DEF States, Place, Usable
  <2>5. CoreStateList[1] = 0
    BY <1>1, <2>4 DEF InOrder, Done, Starting
  <2> QED BY <2>3, <2>4, <2>5 DEF InOrder
<1> QED BY <1>1, StartInvariant, PTL DEF HandsOver

(* No report is overwritten and no state is skipped.                       *)
THEOREM StatesFollow == Spec => StatesInOrder
<1>1. ASSUME IInv, [Next]_vars
      PROVE  [\A n \in DOMAIN CoreStateList :
                Startable(LApicArray[n]) /\ LApicArray[n].ApicID # BSC =>
                  CoreStateList'[n] \in {CoreStateList[n], CoreStateList[n] + 1}]_CoreStateList
  <2> DEFINE P == \A n \in DOMAIN CoreStateList :
                    Startable(LApicArray[n]) /\ LApicArray[n].ApicID # BSC =>
                      CoreStateList'[n] \in {CoreStateList[n], CoreStateList[n] + 1}
  <2> SUFFICES CoreStateList' = CoreStateList \/ P
    OBVIOUS
  <2>1. ASSUME bsc \notin Early, NEW k \in Place, NEW v \in 0..5,
               CoreStateList' = [CoreStateList EXCEPT ![k] = v],
               Usable(k) => v = CoreStateList[k] + 1
        PROVE  P
    <3>1. DOMAIN CoreStateList = Place
      BY <1>1, <2>1 DEF IInv, Lists, Place
    <3>2. \A n \in Place : CoreStateList'[n] = IF n = k THEN v ELSE CoreStateList[n]
      BY <1>1, <2>1, PlaceSet
    <3> QED BY <2>1, <3>1, <3>2 DEF Usable, IsBsc
  <2>2. ASSUME BscStep
        PROVE  CoreStateList' = CoreStateList \/ P
    <3>1. CASE CollectLAPICs
      <4>1. CoreStateList = <<>>
        BY <1>1, <3>1 DEF IInv, Lists, NothingYet, CollectLAPICs, Early
      <4> QED BY <4>1
    <3>2. CASE Release
      <4>1. CASE i <= NumberCores
        <5>1. bsc = "timer" /\ i \in Place /\ CoreStateList' = [CoreStateList EXCEPT ![i] = 2]
          BY <1>1, <3>2, <4>1, LoopPlace DEF Release
        <5>2. Usable(i) => CoreStateList[i] = 1
          BY <1>1, <4>1, <5>1, TurnOf
        <5>3. /\ bsc \notin Early /\ 2 \in 0..5
              /\ Usable(i) => 2 = CoreStateList[i] + 1
          BY <5>1, <5>2 DEF Early
        <5> HIDE DEF P
        <5> QED BY <2>1, <5>1, <5>3
      <4>2. CASE ~(i <= NumberCores)
        BY <3>2, <4>2 DEF Release
      <4> QED BY <4>1, <4>2
    <3>3. CASE Go
      <4>1. CASE i <= NumberCores
        <5>1. bsc = "go" /\ i \in Place /\ CoreStateList' = [CoreStateList EXCEPT ![i] = 4]
          BY <1>1, <3>3, <4>1, LoopPlace DEF Go
        <5>2. CoreStateList[i] = 3
          BY <1>1, <4>1, <5>1, StateOf DEF Early
        <5> QED BY <2>1, <5>1, <5>2 DEF Early
      <4>2. CASE ~(i <= NumberCores)
        BY <3>3, <4>2 DEF Go
      <4> QED BY <4>1, <4>2
    <3>4. CASE ~(CollectLAPICs \/ Release \/ Go)
      BY <2>2, <3>4 DEF BscStep, ScanMadt, PrepareCores, StartCore, CoreStarted, CountBsc, StoreIDs, CoreReady,
                  CoreOnline
    <3> QED BY <3>1, <3>2, <3>3, <3>4
  <2>3. ASSUME NEW c \in AP, CoreStep(c)
        PROVE  CoreStateList' = CoreStateList \/ P
    <3>1. bsc \notin Early
      BY <1>1, <2>3, CoresWait
    <3>2. CASE Report(c)
      <4>1. CoreIndex[c] \in Place /\ CoreStateList[CoreIndex[c]] = 0
        BY <1>1, <3>2 DEF Report, IInv, Places, AtPlace, Joining, Placed
      <4> QED BY <2>1, <3>1, <3>2, <4>1 DEF Report
    <3>3. CASE GetReady(c)
      <4>1. CoreIndex[c] \in Place
        BY <1>1, <3>3 DEF GetReady, IInv, Places, AtPlace, Placed
      <4> QED BY <2>1, <3>1, <3>3, <4>1 DEF GetReady
    <3>4. CASE FirstTick(c)
      <4>1. /\ CoreIndex[c] \in Place /\ CoreStateList[CoreIndex[c]] = 4
            /\ CoreStateList' = [CoreStateList EXCEPT ![CoreIndex[c]] = 5]
        BY <1>1, <3>4, TickEffect
      <4>2. 5 \in 0..5 /\ (Usable(CoreIndex[c]) => 5 = CoreStateList[CoreIndex[c]] + 1)
        BY <4>1
      <4> HIDE DEF P
      <4> QED BY <2>1, <3>1, <4>1, <4>2
    <3>5. CASE TakeStack(c) \/ TakeIndex(c) \/ StartTimer(c)
      BY <3>5 DEF TakeStack, TakeIndex, StartTimer
    <3> QED BY <2>3, <3>2, <3>3, <3>4, <3>5 DEF CoreStep
  <2> QED BY <1>1, <2>2, <2>3 DEF Next, vars
<1> QED BY <1>1, StartInvariant, PTL DEF Spec, StatesInOrder
=============================================================================
