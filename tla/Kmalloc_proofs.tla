--------------------------- MODULE Kmalloc_proofs ---------------------------
(***************************************************************************)
(* What the kernel heap guarantees for every number of tables and callers, *)
(* every memory map and all sizes.                                         *)
(***************************************************************************)
EXTENDS Kmalloc, TLAPS

(* The sizes the heap is asked for: those of the clients, and those of the *)
(* growing array of blocked areas.                                         *)
LEMMA ListSizes ==
  ASSUME TypeOK
  PROVE  /\ EntrySize * (Len(MallocOverWrites) + 1) \in Nat
         /\ EntrySize * (Len(MallocOverWrites) + 1) # 0
<1>1. Len(MallocOverWrites) + 1 \in Nat /\ Len(MallocOverWrites) + 1 # 0
  BY DEF TypeOK
<1>2. EntrySize \in Nat /\ EntrySize # 0
  BY ConstantsAssumption
<1>3. \A a, b \in Nat : a # 0 /\ b # 0 => a * b \in Nat /\ a * b # 0
  OBVIOUS
<1> QED BY <1>1, <1>2, <1>3

LEMMA ListsAreHolders == SpareList \in Holder /\ OldList \in Holder
  BY DEF SpareList, OldList, Holder, Lists

LEMMA MallocTypes ==
  ASSUME TypeOK, NEW h \in Holder, NEW n \in Nat, Malloc(h, n)
  PROVE  /\ MallocTables' \in [Table -> Tables]
         /\ NextFreeMalloc' \in Nat
         /\ chunk' \in [Holder -> Chunk]
         /\ returning' \in [Holder -> Table \cup {NoTable}]
         /\ hung' \in BOOLEAN
<1> USE DEF TypeOK
<1>1. ASSUME NEW i \in Table, Ask(h, n, i)
      PROVE  chunk' \in [Holder -> Chunk] /\ returning' \in [Holder -> Table \cup {NoTable}]
  BY <1>1 DEF Ask, Chunk
<1>2. \A x \in NextFreeMalloc..AddressLimit : x \in Nat /\ x + n \in Nat
  BY ConstantsAssumption
<1>3. CASE MallocNew(h, n)
  <2>1. PICK i \in Table, x \in NextFreeMalloc..AddressLimit :
          /\ MallocTables' = [MallocTables EXCEPT ![i].addr = x, ![i].size = n]
          /\ NextFreeMalloc' = x + n
          /\ Ask(h, n, i)
    BY <1>3 DEF MallocNew
  <2>2. MallocTables' \in [Table -> Tables]
    BY <1>2, <2>1 DEF Tables
  <2> QED BY <1>1, <1>2, <1>3, <2>1, <2>2 DEF MallocNew
<1>4. CASE MallocOutOfMemory(h, n)
  BY <1>2, <1>4 DEF MallocOutOfMemory, Tables
<1>5. CASE MallocSplit(h, n)
  <2>1. PICK i \in Table, k \in Table :
          /\ IsFirst(i, TablesOfSize(n))
          /\ MallocTables' = [MallocTables EXCEPT
               ![k] = [addr |-> MallocTables[i].addr + n,
                       size |-> MallocTables[i].size - n, free |-> TRUE],
               ![i].size = n, ![i].free = FALSE]
          /\ Ask(h, n, i)
    BY <1>5 DEF MallocSplit
  <2>2. MallocTables[i].size - n \in Nat /\ MallocTables[i].addr + n \in Nat
    BY <2>1 DEF IsFirst, TablesOfSize, Tables
  <2>3. MallocTables' \in [Table -> Tables]
    BY <2>1, <2>2 DEF Tables
  <2> QED BY <1>1, <1>5, <2>1, <2>3 DEF MallocSplit
<1>6. CASE MallocReuse(h, n)
  BY <1>1, <1>6 DEF MallocReuse, Tables
<1>7. CASE MallocTablesFull(h, n)
  BY <1>7 DEF MallocTablesFull, tableVars
<1> QED BY <1>3, <1>4, <1>5, <1>6, <1>7 DEF Malloc

LEMMA MallocReturnTypes ==
  ASSUME TypeOK, NEW h \in Holder, MallocReturn(h)
  PROVE  /\ chunk' \in [Holder -> Chunk]
         /\ returning' \in [Holder -> Table \cup {NoTable}]
  BY DEF TypeOK, MallocReturn, Chunk, NoChunk, Tables

LEMMA FreeTypes ==
  ASSUME TypeOK, NEW a, Free(a)
  PROVE  MallocTables' \in [Table -> Tables]
<1> USE DEF TypeOK
<1>1. ASSUME NEW T \in [Table -> Tables], NEW i \in Table, NEW j \in Table
      PROVE  Merge(T, i, j) \in [Table -> Tables]
  <2> DEFINE low  == IF T[i].addr < T[j].addr THEN i ELSE j
             high == IF T[i].addr < T[j].addr THEN j ELSE i
  <2>1. low \in Table /\ high \in Table
    OBVIOUS
  <2>2. T[low].size + T[high].size \in Nat
    BY <2>1 DEF Tables
  <2>3. Merge(T, i, j) = [T EXCEPT ![low].size = T[low].size + T[high].size,
                                   ![high] = EmptyTable]
    BY DEF Merge
  <2> HIDE DEF low, high
  <2>4. [T EXCEPT ![low].size = T[low].size + T[high].size] \in [Table -> Tables]
    BY <2>1, <2>2 DEF Tables
  <2>5. EmptyTable \in Tables
    BY DEF Tables, EmptyTable
  <2> QED BY <2>1, <2>3, <2>4, <2>5
<1>2. CASE FreeUnknown(a)
  BY <1>2 DEF FreeUnknown
<1>3. CASE FreeKnown(a)
  <2> DEFINE T(i) == [MallocTables EXCEPT ![i].free = TRUE]
  <2>1. PICK i \in Table :
          \/ MallocTables' = T(i)
          \/ \E j \in Table : MallocTables' = Merge(T(i), i, j)
    BY <1>3 DEF FreeKnown
  <2>2. T(i) \in [Table -> Tables]
    BY DEF Tables
  <2> HIDE DEF T
  <2> QED BY <1>1, <2>1, <2>2
<1> QED BY <1>2, <1>3 DEF Free

LEMMA TypeStep == TypeOK /\ [Next]_vars => TypeOK'
<1> SUFFICES ASSUME TypeOK, [Next]_vars PROVE TypeOK'
  OBVIOUS
<1> USE DEF TypeOK
<1>1. CASE UsableArea
  <2>1. Head(map) \in MapEntries /\ Tail(map) \in Seq(MapEntries)
    BY <1>1 DEF UsableArea, Booting
  <2>2. Head(map).MemoryAddress + Head(map).NumberBytes \in Nat
    BY <2>1, ConstantsAssumption DEF MapEntries
  <2> QED BY <1>1, <2>1, <2>2 DEF UsableArea, tableVars
<1>2. CASE GrowOverWrites
  BY <1>2, ListSizes, ListsAreHolders, MallocTypes, MallocReturnTypes
  DEF GrowOverWrites, bootVars, tableVars, MallocReturn
<1>3. CASE AddOverwrite
  <2>1. Head(map) \in MapEntries /\ Tail(map) \in Seq(MapEntries)
    BY <1>3 DEF AddOverwrite, Booting
  <2>2. chunk' \in [Holder -> Chunk]
    BY <1>3 DEF AddOverwrite, NoChunk, Chunk
  <2> QED BY <1>3, <2>1, <2>2, FreeTypes DEF AddOverwrite, Free
<1>4. ASSUME UNCHANGED bootVars, NEW h \in Client, NEW n \in Sizes, Malloc(h, n)
      PROVE  TypeOK'
  BY <1>4, MallocTypes, ConstantsAssumption DEF bootVars, Holder
<1>5. ASSUME UNCHANGED bootVars, NEW h \in Client, MallocReturn(h)
      PROVE  TypeOK'
  BY <1>5, MallocReturnTypes DEF bootVars, Holder, MallocReturn, tableVars
<1>6. ASSUME UNCHANGED bootVars, NEW h \in Client, FreeHeld(h)
      PROVE  TypeOK'
  BY <1>6, FreeTypes DEF bootVars, FreeHeld, Free, Chunk, NoChunk
<1>7. ASSUME UNCHANGED bootVars, NEW a \in ForeignAddrs, FreeForeign(a)
      PROVE  TypeOK'
  BY <1>7, FreeTypes DEF bootVars, FreeForeign, Free
<1>8. CASE UNCHANGED vars
  BY <1>8 DEF vars, tableVars, bootVars
<1> QED BY <1>1, <1>2, <1>3, <1>4, <1>5, <1>6, <1>7, <1>8 DEF Next

LEMMA TypeInit == Init => TypeOK
<1> SUFFICES ASSUME Init PROVE TypeOK
  OBVIOUS
<1>1. MallocTables \in [Table -> Tables] /\ chunk \in [Holder -> Chunk]
  BY DEF Init, EmptyTable, Tables, NoChunk, Chunk
<1>2. map \in Seq(MapEntries) /\ MallocOverWrites \in Seq(MapEntries)
  BY MemoryMapsAssumption DEF Init
<1>3. NextFreeMalloc \in Nat /\ NumberBytesRam \in Nat /\ hung \in BOOLEAN
  BY ConstantsAssumption DEF Init
<1> QED BY <1>1, <1>2, <1>3 DEF Init, TypeOK

(* The tables, the chunks of the callers and the list of blocked areas     *)
(* keep their types, however the heap is used (malloc.cpp).                *)
THEOREM TypeCorrect == Spec => []TypeOK
  BY TypeInit, TypeStep, PTL DEF Spec
-----------------------------------------------------------------------------
(***************************************************************************)
(* The invariant of the tables.                                            *)
(***************************************************************************)
(* Table i describes what g holds or is about to be handed.                *)
Owns(i, g) == InUse(i) /\ TableOf(i, g)

(* A table that is not free is somebody's.                                 *)
UsedOwned == ~hung => \A i \in Table : InUse(i) /\ ~MallocTables[i].free
                                        => \E g \in Holder : Owns(i, g)

(* A step takes no table into use but i.                                   *)
NoOtherTaken(i) ==
  \A t \in Table \ {i} : (InUse(t))' /\ ~MallocTables'[t].free
                          => InUse(t) /\ ~MallocTables[t].free

(* After a step, every address passed so far is in a table or blocked.     *)
LosesNothing ==
  ~hung' => \A x \in MallocStart..(NextFreeMalloc' - 1) :
              \/ Blocked(x)
              \/ \E i \in Table : /\ MallocTables'[i].addr <= x
                                  /\ x < MallocTables'[i].addr + MallocTables'[i].size

(* A table is empty exactly when its address is 0, and no two tables       *)
(* describe the same address.                                              *)
LEMMA TableFacts ==
  ASSUME TypeOK, HeapInv
  PROVE  /\ \A i \in Table : InUse(i) => MallocTables[i].addr # 0
         /\ \A i, j \in Table : /\ InUse(i) /\ InUse(j)
                               /\ MallocTables[i].addr = MallocTables[j].addr
                               => i = j
<1>1. \A i \in Table : InUse(i) => MallocTables[i].addr # 0
  BY ConstantsAssumption DEF HeapInv, TablesInside, TypeOK, Tables
<1>2. ASSUME NEW i \in Table, NEW j \in Table, InUse(i), InUse(j), i # j,
             MallocTables[i].addr = MallocTables[j].addr
      PROVE  FALSE
  <2>1. Apart(MallocTables[i], MallocTables[j])
    BY <1>2 DEF HeapInv, TablesApart
  <2>2. MallocTables[i] \in Tables /\ MallocTables[j] \in Tables
    BY DEF TypeOK
  <2> QED BY <1>2, <2>1, <2>2 DEF Apart, Tables, InUse
<1> QED BY <1>1, <1>2

(* What Malloc is handing out is a table in use.                           *)
LEMMA ReturningOwned ==
  ASSUME TypeOK, HeapInv, NEW g \in Holder, returning[g] # NoTable
  PROVE  returning[g] \in Table /\ Owns(returning[g], g)
<1>1. chunk[g].size # 0
  BY DEF HeapInv, HoldersHaveTables
<1>2. PICK i \in Table : InUse(i) /\ TableOf(i, g)
  BY <1>1 DEF HeapInv, HoldersHaveTables
<1> QED BY <1>2 DEF TableOf, Owns

(* A free chunk is nobody's, by either way of having one.                  *)
LEMMA FreeIsNobodys ==
  ASSUME TypeOK, HeapInv, NEW i \in Table, InUse(i), MallocTables[i].free,
         NEW g \in Holder
  PROVE  /\ returning[g] # i
         /\ chunk[g].size # 0 /\ returning[g] = NoTable
              => chunk[g].addr # MallocTables[i].addr
<1>1. returning[g] # i
  <2> SUFFICES ASSUME returning[g] = i PROVE FALSE
    OBVIOUS
  <2>1. i # NoTable
    BY ConstantsAssumption DEF Table, NoTable
  <2> QED BY <2>1, ReturningOwned DEF Owns, TableOf
<1>2. ASSUME chunk[g].size # 0, returning[g] = NoTable,
             chunk[g].addr = MallocTables[i].addr
      PROVE  FALSE
  <2>1. PICK j \in Table : InUse(j) /\ TableOf(j, g)
    BY <1>2 DEF HeapInv, HoldersHaveTables
  <2>2. j # NoTable
    BY ConstantsAssumption DEF Table, NoTable
  <2>3. MallocTables[j].addr = MallocTables[i].addr
    BY <1>2, <2>1, <2>2 DEF TableOf
  <2>4. i = j
    BY <2>1, <2>3, TableFacts
  <2> QED BY <2>1, <2>4 DEF TableOf
<1> QED BY <1>1, <1>2

(* What Ask writes down, for a holder that has nothing.                    *)
LEMMA AskResult ==
  ASSUME TypeOK, NEW h \in Holder, NEW n \in Nat, NEW i \in Table,
         CanAsk(h), Ask(h, n, i)
  PROVE  /\ chunk'[h] = [addr |-> 0, size |-> n] /\ returning'[h] = i /\ i # NoTable
         /\ \A g \in Holder \ {h} : chunk'[g] = chunk[g] /\ returning'[g] = returning[g]
<1>1. [NoChunk EXCEPT !.size = n] = [addr |-> 0, size |-> n]
  BY DEF NoChunk
<1>2. chunk' = [chunk EXCEPT ![h] = [chunk[h] EXCEPT !.size = n]]
  BY DEF Ask
<1>3. i # NoTable
  BY ConstantsAssumption DEF Table, NoTable
<1> QED BY <1>1, <1>2, <1>3 DEF Ask, CanAsk, TypeOK

(* When h has been given table i, which was nobody's, and the tables of    *)
(* the others are what they were, everybody has a table of his own.        *)
LEMMA AskKeepsHolders ==
  ASSUME TypeOK, HeapInv, NEW h \in Holder, NEW n \in Nat, n # 0, NEW i \in Table,
         CanAsk(h), Ask(h, n, i),
         \A g \in Holder : ~Owns(i, g),
         \A g \in Holder, t \in Table :
           Owns(t, g)' <=> (g = h /\ t = i) \/ (g # h /\ Owns(t, g)),
         NoOtherTaken(i)
  PROVE  HoldersHaveTables' /\ TablesHaveOneHolder' /\ (UsedOwned => UsedOwned')
<1>1. /\ chunk'[h] = [addr |-> 0, size |-> n] /\ returning'[h] = i /\ i # NoTable
      /\ \A g \in Holder \ {h} : chunk'[g] = chunk[g] /\ returning'[g] = returning[g]
  BY AskResult
<1>2. ASSUME NEW g \in Holder
      PROVE  /\ (chunk[g].size # 0)' => \E t \in Table : Owns(t, g)'
             /\ (chunk[g].size = 0)' => (chunk[g].addr = 0)' /\ (returning[g] = NoTable)'
             /\ (returning[g] # NoTable)' => (chunk[g].addr = 0)'
  <2>1. CASE g = h
    BY <1>1, <2>1
  <2>2. CASE g # h
    <3>1. chunk'[g] = chunk[g] /\ returning'[g] = returning[g]
      BY <1>1, <2>2
    <3>2. chunk[g].size # 0 => \E t \in Table : Owns(t, g)
      BY DEF HeapInv, HoldersHaveTables, Owns
    <3> QED BY <2>2, <3>1, <3>2 DEF HeapInv, HoldersHaveTables
  <2> QED BY <2>1, <2>2
<1>3. HoldersHaveTables'
  BY <1>2 DEF HoldersHaveTables, Owns
<1>4. ASSUME NEW f \in Holder, NEW g \in Holder, NEW t \in Table, f # g, Owns(t, f)'
      PROVE  ~Owns(t, g)'
  <2>1. ASSUME Owns(t, f), Owns(t, g) PROVE FALSE
    <3>1. chunk[f].size # 0
      BY <2>1 DEF Owns, InUse, TableOf
    <3> QED BY <1>4, <2>1, <3>1 DEF HeapInv, TablesHaveOneHolder, Owns
  <2> QED BY <1>4, <2>1
<1>5. TablesHaveOneHolder'
  BY <1>4 DEF TablesHaveOneHolder, Owns
<1>6. \A t \in Table : ~Owns(t, h)
  BY DEF CanAsk, NoChunk, Owns, InUse, TableOf
<1>7. ASSUME UsedOwned, NEW t \in Table, (InUse(t))', ~MallocTables'[t].free
      PROVE  \E g \in Holder : Owns(t, g)'
  <2>1. CASE t = i
    BY <2>1
  <2>2. CASE t # i
    <3>1. InUse(t) /\ ~MallocTables[t].free /\ ~hung
      BY <1>7, <2>2 DEF CanAsk, NoOtherTaken
    <3>2. PICK g \in Holder : Owns(t, g)
      BY <1>7, <3>1 DEF UsedOwned
    <3>3. g # h
      BY <1>6, <3>2
    <3> QED BY <3>2, <3>3
  <2> QED BY <2>1, <2>2
<1>8. UsedOwned => UsedOwned'
  BY <1>7 DEF UsedOwned
<1> QED BY <1>3, <1>5, <1>8

(* The four ways in which Malloc succeeds or fails keep the invariant.     *)
LEMMA MallocNewStep ==
  ASSUME TypeOK, HeapInv, NEW h \in Holder, NEW n \in Nat, n # 0,
         CanAsk(h), MallocNew(h, n)
  PROVE  /\ TablesApart' /\ TablesInside' /\ UnusedTablesEmpty'
         /\ HoldersHaveTables' /\ TablesHaveOneHolder'
         /\ UsedOwned => UsedOwned'
         /\ NoMemoryLost => LosesNothing
<1>1. PICK i \in Table, x \in NextFreeMalloc..AddressLimit :
        /\ IsFirst(i, EmptyTables)
        /\ CheckIfOverlap(x)
        /\ MallocTables' = [MallocTables EXCEPT ![i].addr = x, ![i].size = n]
        /\ NextFreeMalloc' = x + n
        /\ Ask(h, n, i)
  BY DEF MallocNew
<1>2. ~hung /\ hung' = hung
  BY DEF CanAsk, MallocNew
<1>3. x \in Nat /\ NextFreeMalloc \in Nat /\ NextFreeMalloc <= x /\ MallocStart \in Nat
      /\ MallocStart <= NextFreeMalloc /\ MallocStart # 0
  BY ConstantsAssumption DEF TypeOK, HeapInv, TablesInside
<1>4. ~InUse(i) /\ MallocTables[i] = EmptyTable
  BY <1>1, <1>2, TableFacts DEF IsFirst, EmptyTables, HeapInv, UnusedTablesEmpty
<1>5. /\ MallocTables'[i].addr = x /\ MallocTables'[i].size = n
      /\ ~MallocTables'[i].free
      /\ \A t \in Table \ {i} : MallocTables'[t] = MallocTables[t]
  BY <1>1, <1>4 DEF TypeOK, Tables, EmptyTable
<1>6. \A t \in Table : MallocTables[t] \in Tables
  BY DEF TypeOK
<1>7. TablesApart'
  BY <1>3, <1>5, <1>6 DEF TablesApart, HeapInv, TablesInside, InUse, Apart, Tables
<1>8. TablesInside'
  <2>1. MallocStart <= NextFreeMalloc'
    BY <1>1, <1>3
  <2>2. ASSUME NEW t \in Table, (InUse(t))'
        PROVE  /\ MallocStart <= MallocTables'[t].addr
               /\ MallocTables'[t].addr + MallocTables'[t].size <= NextFreeMalloc'
    <3>1. CASE t = i
      BY <1>1, <1>3, <1>5, <3>1
    <3>2. CASE t # i
      <4>1. MallocTables'[t] = MallocTables[t] /\ InUse(t)
        BY <1>5, <2>2, <3>2 DEF InUse
      <4>2. /\ MallocStart <= MallocTables[t].addr
            /\ MallocTables[t].addr + MallocTables[t].size <= NextFreeMalloc
        BY <4>1 DEF HeapInv, TablesInside
      <4>3. MallocTables[t].addr + MallocTables[t].size \in Nat
        BY <1>6 DEF Tables
      <4> QED BY <1>1, <1>3, <4>1, <4>2, <4>3
    <3> QED BY <3>1, <3>2
  <2> QED BY <2>1, <2>2 DEF TablesInside
<1>9. UnusedTablesEmpty'
  BY <1>2, <1>5 DEF HeapInv, UnusedTablesEmpty, InUse
<1>10. \A g \in Holder : ~Owns(i, g)
  BY <1>4 DEF Owns
<1>11. /\ chunk'[h] = [addr |-> 0, size |-> n] /\ returning'[h] = i /\ i # NoTable
       /\ \A g \in Holder \ {h} : chunk'[g] = chunk[g] /\ returning'[g] = returning[g]
  BY <1>1, AskResult
<1>12. ASSUME NEW g \in Holder, NEW t \in Table
       PROVE  Owns(t, g)' <=> (g = h /\ t = i) \/ (g # h /\ Owns(t, g))
  <2>1. CASE g = h
    BY <1>5, <1>11, <2>1 DEF Owns, InUse, TableOf
  <2>2. CASE g # h /\ t # i
    BY <1>5, <1>11, <2>2 DEF Owns, InUse, TableOf
  <2>3. CASE g # h /\ t = i
    <3>1. returning[g] # i
      BY <1>4, <1>11, ReturningOwned DEF Owns
    <3>2. ASSUME chunk[g].size = n, returning[g] = NoTable, chunk[g].addr = x
          PROVE  FALSE
      <4>1. PICK j \in Table : InUse(j) /\ TableOf(j, g)
        BY <3>2 DEF HeapInv, HoldersHaveTables
      <4>2. j # NoTable
        BY ConstantsAssumption DEF Table, NoTable
      <4>3. MallocTables[j].addr = x /\ MallocTables[j].size = n
        BY <3>2, <4>1, <4>2 DEF TableOf
      <4> QED BY <1>3, <4>1, <4>3 DEF HeapInv, TablesInside
    <3> QED BY <1>5, <1>11, <2>3, <3>1, <3>2, <1>10 DEF Owns, InUse, TableOf
  <2> QED BY <2>1, <2>2, <2>3
<1>13. NoOtherTaken(i)
  BY <1>5 DEF NoOtherTaken, InUse
<1>14. HoldersHaveTables' /\ TablesHaveOneHolder' /\ (UsedOwned => UsedOwned')
  BY <1>1, <1>10, <1>12, <1>13, AskKeepsHolders
<1>15. ASSUME NoMemoryLost, NEW y \in MallocStart..(x + n - 1), ~Blocked(y)
       PROVE  \E t \in Table : /\ MallocTables'[t].addr <= y
                               /\ y < MallocTables'[t].addr + MallocTables'[t].size
  <2>1. CASE y < NextFreeMalloc
    <3>1. y \in MallocStart..(NextFreeMalloc - 1)
      BY <1>3, <2>1
    <3>2. PICK t \in Table : /\ MallocTables[t].addr <= y
                             /\ y < MallocTables[t].addr + MallocTables[t].size
      BY <1>2, <1>15, <3>1 DEF NoMemoryLost
    <3>3. t # i
      BY <1>3, <1>4, <3>1, <3>2 DEF EmptyTable
    <3> QED BY <1>5, <3>2, <3>3
  <2>2. CASE NextFreeMalloc <= y /\ y < x
    <3>1. y \in NextFreeMalloc..AddressLimit
      BY <1>3, <2>2, ConstantsAssumption
    <3> QED BY <1>1, <1>3, <1>15, <2>2, <3>1 DEF CheckIfOverlap, IsFirst
  <2>3. CASE x <= y
    BY <1>3, <1>5, <2>3
  <2> QED BY <1>3, <2>1, <2>2, <2>3
<1>16. NoMemoryLost => LosesNothing
  <2>1. NextFreeMalloc' = x + n
    BY <1>1
  <2> QED BY <1>15, <2>1 DEF LosesNothing
<1> QED BY <1>7, <1>8, <1>9, <1>14, <1>16

LEMMA MallocSplitStep ==
  ASSUME TypeOK, HeapInv, NEW h \in Holder, NEW n \in Nat, n # 0,
         CanAsk(h), MallocSplit(h, n)
  PROVE  /\ TablesApart' /\ TablesInside' /\ UnusedTablesEmpty'
         /\ HoldersHaveTables' /\ TablesHaveOneHolder'
         /\ UsedOwned => UsedOwned'
         /\ NoMemoryLost => LosesNothing
<1>1. PICK i \in Table, k \in Table :
        /\ IsFirst(i, TablesOfSize(n))
        /\ MallocTables[i].size # n
        /\ IsFirst(k, EmptyTables)
        /\ MallocTables' = [MallocTables EXCEPT
             ![k] = [addr |-> MallocTables[i].addr + n,
                     size |-> MallocTables[i].size - n, free |-> TRUE],
             ![i].size = n, ![i].free = FALSE]
        /\ Ask(h, n, i)
  BY DEF MallocSplit
<1>2. ~hung /\ hung' = hung /\ NextFreeMalloc' = NextFreeMalloc
  BY DEF CanAsk, MallocSplit
<1>3. NextFreeMalloc \in Nat /\ MallocStart \in Nat
  BY ConstantsAssumption DEF TypeOK
<1>4. \A t \in Table : MallocTables[t] \in Tables
  BY DEF TypeOK
<1>5. /\ MallocTables[i].free /\ InUse(i) /\ MallocTables[i].size > n
      /\ MallocTables[i].addr \in Nat /\ MallocTables[i].size \in Nat
  BY <1>1, <1>4 DEF IsFirst, TablesOfSize, Tables, InUse
<1>6. ~InUse(k) /\ k # i
  BY <1>1, <1>5, TableFacts DEF IsFirst, EmptyTables
<1>7. /\ MallocTables'[i].addr = MallocTables[i].addr /\ MallocTables'[i].size = n
      /\ ~MallocTables'[i].free
      /\ MallocTables'[k].addr = MallocTables[i].addr + n
      /\ MallocTables'[k].size = MallocTables[i].size - n /\ MallocTables'[k].free
      /\ \A t \in Table \ {i, k} : MallocTables'[t] = MallocTables[t]
  BY <1>1, <1>6 DEF TypeOK, Tables
<1>8. TablesApart'
  <2>1. ASSUME NEW t \in Table \ {i, k}, InUse(t)
        PROVE  Apart(MallocTables[t], MallocTables[i])
    BY <1>5, <2>1 DEF HeapInv, TablesApart
  <2>2. ASSUME NEW t \in Table, NEW u \in Table, t # u, (InUse(t))', (InUse(u))'
        PROVE  Apart(MallocTables'[t], MallocTables'[u])
    <3>1. CASE t \notin {i, k} /\ u \notin {i, k}
      BY <1>7, <2>2, <3>1 DEF HeapInv, TablesApart, InUse
    <3>2. CASE t \notin {i, k} /\ u \in {i, k}
      BY <1>4, <1>5, <1>7, <2>1, <2>2, <3>2 DEF Apart, InUse, Tables
    <3>3. CASE t \in {i, k} /\ u \notin {i, k}
      BY <1>4, <1>5, <1>7, <2>1, <2>2, <3>3 DEF Apart, InUse, Tables
    <3>4. CASE t \in {i, k} /\ u \in {i, k}
      BY <1>5, <1>7, <2>2, <3>4 DEF Apart
    <3> QED BY <3>1, <3>2, <3>3, <3>4
  <2> QED BY <2>2 DEF TablesApart
<1>9. TablesInside'
  <2>1. /\ MallocStart <= NextFreeMalloc /\ MallocStart <= MallocTables[i].addr
        /\ MallocTables[i].addr + MallocTables[i].size <= NextFreeMalloc
    BY <1>5 DEF HeapInv, TablesInside
  <2>2. ASSUME NEW t \in Table, (InUse(t))'
        PROVE  /\ MallocStart <= MallocTables'[t].addr
               /\ MallocTables'[t].addr + MallocTables'[t].size <= NextFreeMalloc
    <3>1. CASE t \in {i, k}
      BY <1>3, <1>5, <1>7, <2>1, <3>1
    <3>2. CASE t \notin {i, k}
      BY <1>7, <2>2, <3>2 DEF HeapInv, TablesInside, InUse
    <3> QED BY <3>1, <3>2
  <2> QED BY <1>2, <2>1, <2>2 DEF TablesInside
<1>10. UnusedTablesEmpty'
  <2>1. ASSUME NEW t \in Table, ~(InUse(t))'
        PROVE  MallocTables'[t] = EmptyTable
    <3>1. t \notin {i, k}
      BY <1>5, <1>7, <2>1 DEF InUse
    <3> QED BY <1>2, <1>7, <2>1, <3>1 DEF HeapInv, UnusedTablesEmpty, InUse
  <2> QED BY <2>1 DEF UnusedTablesEmpty
<1>11. \A g \in Holder : ~Owns(i, g) /\ ~Owns(k, g)
  BY <1>5, <1>6 DEF Owns, TableOf
<1>12. /\ chunk'[h] = [addr |-> 0, size |-> n] /\ returning'[h] = i /\ i # NoTable
       /\ \A g \in Holder \ {h} : chunk'[g] = chunk[g] /\ returning'[g] = returning[g]
  BY <1>1, AskResult
<1>13. ASSUME NEW g \in Holder, NEW t \in Table
       PROVE  Owns(t, g)' <=> (g = h /\ t = i) \/ (g # h /\ Owns(t, g))
  <2>1. CASE t = k
    BY <1>6, <1>7, <1>11, <2>1 DEF Owns, TableOf
  <2>2. CASE g = h /\ t # k
    BY <1>5, <1>7, <1>12, <2>2 DEF Owns, InUse, TableOf
  <2>3. CASE g # h /\ t \notin {i, k}
    BY <1>7, <1>12, <2>3 DEF Owns, InUse, TableOf
  <2>4. CASE g # h /\ t = i
    <3>1. /\ returning[g] # i
          /\ chunk[g].size # 0 /\ returning[g] = NoTable
               => chunk[g].addr # MallocTables[i].addr
      BY <1>5, FreeIsNobodys
    <3> QED BY <1>7, <1>11, <1>12, <2>4, <3>1 DEF Owns, InUse, TableOf
  <2> QED BY <2>1, <2>2, <2>3, <2>4
<1>14. NoOtherTaken(i)
  BY <1>7 DEF NoOtherTaken, InUse
<1>15. HoldersHaveTables' /\ TablesHaveOneHolder' /\ (UsedOwned => UsedOwned')
  BY <1>1, <1>11, <1>13, <1>14, AskKeepsHolders
<1>16. ASSUME NoMemoryLost, NEW y \in MallocStart..(NextFreeMalloc - 1), ~Blocked(y)
       PROVE  \E t \in Table : /\ MallocTables'[t].addr <= y
                               /\ y < MallocTables'[t].addr + MallocTables'[t].size
  <2>1. PICK t \in Table : /\ MallocTables[t].addr <= y
                           /\ y < MallocTables[t].addr + MallocTables[t].size
    BY <1>2, <1>16 DEF NoMemoryLost
  <2>2. CASE t = i
    <3>1. CASE y < MallocTables[i].addr + n
      BY <1>7, <2>1, <2>2, <3>1
    <3>2. CASE ~(y < MallocTables[i].addr + n)
      <4>1. MallocTables[i].addr + n <= y
        BY <1>3, <1>5, <3>2
      <4>2. y < MallocTables'[k].addr + MallocTables'[k].size
        BY <1>3, <1>5, <1>7, <2>1, <2>2
      <4> QED BY <1>7, <4>1, <4>2
    <3> QED BY <3>1, <3>2
  <2>3. CASE t # i
    <3>1. t # k
      BY <1>3, <1>4, <1>6, <2>1 DEF InUse, Tables
    <3> QED BY <1>7, <2>1, <2>3, <3>1
  <2> QED BY <2>2, <2>3
<1>17. NoMemoryLost => LosesNothing
  BY <1>2, <1>16 DEF LosesNothing
<1> QED BY <1>8, <1>9, <1>10, <1>15, <1>17

LEMMA MallocReuseStep ==
  ASSUME TypeOK, HeapInv, NEW h \in Holder, NEW n \in Nat, n # 0,
         CanAsk(h), MallocReuse(h, n)
  PROVE  /\ TablesApart' /\ TablesInside' /\ UnusedTablesEmpty'
         /\ HoldersHaveTables' /\ TablesHaveOneHolder'
         /\ UsedOwned => UsedOwned'
         /\ NoMemoryLost => LosesNothing
<1>1. PICK i \in Table :
        /\ IsFirst(i, TablesOfSize(n))
        /\ MallocTables[i].size = n
        /\ MallocTables' = [MallocTables EXCEPT ![i].free = FALSE]
        /\ Ask(h, n, i)
  BY DEF MallocReuse
<1>2. hung' = hung /\ NextFreeMalloc' = NextFreeMalloc
  BY DEF MallocReuse
<1>3. MallocTables[i].free /\ InUse(i)
  BY <1>1 DEF IsFirst, TablesOfSize, InUse
<1>4. /\ MallocTables'[i].addr = MallocTables[i].addr /\ MallocTables'[i].size = n
      /\ ~MallocTables'[i].free
      /\ \A t \in Table \ {i} : MallocTables'[t] = MallocTables[t]
  BY <1>1 DEF TypeOK, Tables
<1>5. \A t \in Table : /\ MallocTables'[t].addr = MallocTables[t].addr
                       /\ MallocTables'[t].size = MallocTables[t].size
  BY <1>1, <1>4
<1>6. TablesApart' /\ TablesInside'
  BY <1>2, <1>5 DEF HeapInv, TablesApart, TablesInside, InUse, Apart
<1>7. UnusedTablesEmpty'
  BY <1>1, <1>2, <1>3, <1>4 DEF HeapInv, UnusedTablesEmpty, InUse
<1>8. \A g \in Holder : ~Owns(i, g)
  BY <1>3 DEF Owns, TableOf
<1>9. /\ chunk'[h] = [addr |-> 0, size |-> n] /\ returning'[h] = i /\ i # NoTable
      /\ \A g \in Holder \ {h} : chunk'[g] = chunk[g] /\ returning'[g] = returning[g]
  BY <1>1, AskResult
<1>10. ASSUME NEW g \in Holder, NEW t \in Table
       PROVE  Owns(t, g)' <=> (g = h /\ t = i) \/ (g # h /\ Owns(t, g))
  <2>1. CASE g = h
    BY <1>4, <1>9, <2>1 DEF Owns, InUse, TableOf
  <2>2. CASE g # h /\ t # i
    BY <1>4, <1>9, <2>2 DEF Owns, InUse, TableOf
  <2>3. CASE g # h /\ t = i
    <3>1. /\ returning[g] # i
          /\ chunk[g].size # 0 /\ returning[g] = NoTable
               => chunk[g].addr # MallocTables[i].addr
      BY <1>3, FreeIsNobodys
    <3> QED BY <1>4, <1>8, <1>9, <2>3, <3>1 DEF Owns, InUse, TableOf
  <2> QED BY <2>1, <2>2, <2>3
<1>11. NoOtherTaken(i)
  BY <1>4 DEF NoOtherTaken, InUse
<1>12. HoldersHaveTables' /\ TablesHaveOneHolder' /\ (UsedOwned => UsedOwned')
  BY <1>1, <1>8, <1>10, <1>11, AskKeepsHolders
<1>13. NoMemoryLost => LosesNothing
  BY <1>2, <1>5 DEF NoMemoryLost, LosesNothing
<1> QED BY <1>6, <1>7, <1>12, <1>13

(* Out of memory: the table that was chosen never gets a size.             *)
LEMMA MallocOutOfMemoryStep ==
  ASSUME TypeOK, HeapInv, NEW h \in Holder, NEW n \in Nat, CanAsk(h),
         MallocOutOfMemory(h, n)
  PROVE  /\ TablesApart' /\ TablesInside' /\ UnusedTablesEmpty'
         /\ HoldersHaveTables' /\ TablesHaveOneHolder'
         /\ UsedOwned => UsedOwned'
         /\ NoMemoryLost => LosesNothing
<1>1. PICK i \in Table, x \in NextFreeMalloc..AddressLimit :
        /\ IsFirst(i, EmptyTables)
        /\ MallocTables' = [MallocTables EXCEPT ![i].addr = x]
        /\ NextFreeMalloc' = x + n
  BY DEF MallocOutOfMemory
<1>2. hung' /\ chunk' = chunk /\ returning' = returning
  BY DEF MallocOutOfMemory
<1>3. x \in Nat /\ NextFreeMalloc \in Nat /\ NextFreeMalloc <= x
      /\ MallocStart \in Nat /\ MallocStart <= NextFreeMalloc
  BY ConstantsAssumption DEF TypeOK, HeapInv, TablesInside
<1>4. ~InUse(i)
  BY <1>1, TableFacts DEF IsFirst, EmptyTables
<1>5. /\ MallocTables'[i].size = MallocTables[i].size
      /\ \A t \in Table \ {i} : MallocTables'[t] = MallocTables[t]
  BY <1>1 DEF TypeOK, Tables
<1>6. \A t \in Table : (InUse(t))' <=> InUse(t)
  BY <1>5 DEF InUse
<1>7. \A t \in Table, g \in Holder : Owns(t, g)' <=> Owns(t, g)
  BY <1>2, <1>4, <1>5, <1>6 DEF Owns, TableOf
<1>8. TablesApart'
  BY <1>4, <1>5, <1>6 DEF HeapInv, TablesApart
<1>9. TablesInside'
  <2>1. ASSUME NEW t \in Table, InUse(t)
        PROVE  /\ MallocStart <= MallocTables[t].addr
               /\ MallocTables[t].addr + MallocTables[t].size <= x + n
    <3>1. MallocTables[t].addr + MallocTables[t].size \in Nat
      BY DEF TypeOK, Tables
    <3> QED BY <1>3, <2>1, <3>1 DEF HeapInv, TablesInside
  <2> QED BY <1>1, <1>3, <1>4, <1>5, <1>6, <2>1 DEF TablesInside
<1>10. UnusedTablesEmpty'
  BY <1>2 DEF UnusedTablesEmpty
<1>11. HoldersHaveTables'
  BY <1>2, <1>7 DEF HeapInv, HoldersHaveTables, Owns
<1>12. TablesHaveOneHolder'
  BY <1>2, <1>7 DEF HeapInv, TablesHaveOneHolder, Owns
<1>13. UsedOwned' /\ LosesNothing
  BY <1>2 DEF UsedOwned, LosesNothing
<1> QED BY <1>8, <1>9, <1>10, <1>11, <1>12, <1>13

LEMMA MallocStep ==
  ASSUME TypeOK, HeapInv, NEW h \in Holder, NEW n \in Nat, n # 0, Malloc(h, n)
  PROVE  /\ TablesApart' /\ TablesInside' /\ UnusedTablesEmpty'
         /\ HoldersHaveTables' /\ TablesHaveOneHolder'
         /\ UsedOwned => UsedOwned'
         /\ NoMemoryLost => LosesNothing
<1>1. CASE MallocTablesFull(h, n)
  BY <1>1 DEF MallocTablesFull, tableVars, HeapInv, TablesApart, TablesInside,
              UnusedTablesEmpty, HoldersHaveTables, TablesHaveOneHolder, InUse, TableOf,
              UsedOwned, Owns, NoMemoryLost, LosesNothing
<1> QED BY <1>1, MallocNewStep, MallocSplitStep, MallocReuseStep, MallocOutOfMemoryStep
        DEF Malloc

(* Reading the address after the unlock finds the chunk that was chosen:   *)
(* nobody can have touched its table in between.                           *)
LEMMA MallocReturnStep ==
  ASSUME TypeOK, HeapInv, NEW h \in Holder, MallocReturn(h)
  PROVE  /\ TablesApart' /\ TablesInside' /\ UnusedTablesEmpty'
         /\ HoldersHaveTables' /\ TablesHaveOneHolder'
         /\ UsedOwned => UsedOwned'
         /\ NoMemoryLost => LosesNothing
<1> DEFINE i == returning[h]
           a == MallocTables[i].addr
<1>1. i # NoTable /\ UNCHANGED <<tableVars, hung>>
  BY DEF MallocReturn
<1>2. i \in Table /\ Owns(i, h)
  BY <1>1, ReturningOwned
<1>3. a # 0 /\ chunk[h].size = MallocTables[i].size
  BY <1>2, TableFacts DEF Owns, TableOf
<1>4. /\ returning' = [returning EXCEPT ![h] = NoTable]
      /\ chunk' = [chunk EXCEPT ![h] = [chunk[h] EXCEPT !.addr = a]]
  BY <1>3 DEF MallocReturn
<1>5. /\ chunk'[h].addr = a /\ chunk'[h].size = chunk[h].size /\ returning'[h] = NoTable
      /\ \A g \in Holder \ {h} : chunk'[g] = chunk[g] /\ returning'[g] = returning[g]
  BY <1>4 DEF TypeOK, Chunk
<1>6. MallocTables' = MallocTables /\ NextFreeMalloc' = NextFreeMalloc /\ hung' = hung
  BY <1>1 DEF tableVars
<1> HIDE DEF i, a
<1>7. ASSUME NEW t \in Table, NEW g \in Holder
      PROVE  Owns(t, g)' <=> Owns(t, g)
  <2>1. CASE g # h
    BY <1>5, <1>6, <2>1 DEF Owns, InUse, TableOf
  <2>2. CASE g = h /\ t = i
    BY <1>2, <1>5, <1>6, <2>2 DEF Owns, InUse, TableOf, a
  <2>3. CASE g = h /\ t # i
    <3>1. ~Owns(t, h)
      BY <1>1, <2>3 DEF Owns, TableOf, i
    <3>2. InUse(t) => MallocTables[t].addr # a
      BY <1>2, <2>3, TableFacts DEF Owns, a
    <3>3. t # NoTable
      BY ConstantsAssumption DEF Table, NoTable
    <3> QED BY <1>5, <1>6, <2>3, <3>1, <3>2, <3>3 DEF Owns, InUse, TableOf
  <2> QED BY <2>1, <2>2, <2>3
<1>8. TablesApart' /\ TablesInside' /\ UnusedTablesEmpty'
  BY <1>6 DEF HeapInv, TablesApart, TablesInside, UnusedTablesEmpty, InUse
<1>9. chunk[h].size # 0
  BY <1>2, <1>3 DEF Owns, InUse
<1>10. HoldersHaveTables'
  BY <1>5, <1>7, <1>9 DEF HeapInv, HoldersHaveTables, Owns
<1>11. TablesHaveOneHolder'
  BY <1>5, <1>7 DEF HeapInv, TablesHaveOneHolder, Owns
<1>12. UsedOwned => UsedOwned'
  BY <1>6, <1>7 DEF UsedOwned, InUse
<1>13. NoMemoryLost => LosesNothing
  BY <1>6 DEF NoMemoryLost, LosesNothing
<1> QED BY <1>8, <1>10, <1>11, <1>12, <1>13
-----------------------------------------------------------------------------
(* Free of an address below the heap (0, a built-in program) leaves all    *)
(* tables as they are: an empty table marked free is joined with itself.   *)
LEMMA FreeOutside ==
  ASSUME TypeOK, HeapInv, ~hung, NEW a \in Nat, a < MallocStart, Free(a)
  PROVE  MallocTables' = MallocTables
<1>1. CASE FreeUnknown(a)
  BY <1>1 DEF FreeUnknown
<1>2. CASE FreeKnown(a)
  <2> DEFINE T(i) == [MallocTables EXCEPT ![i].free = TRUE]
  <2>1. PICK i \in Table :
          /\ IsFirst(i, TablesOfAddr(a))
          /\ \/ Closeist(T(i), i) = {} /\ MallocTables' = T(i)
             \/ \E j \in Table : /\ IsFirst(j, Closeist(T(i), i))
                                 /\ MallocTables' = Merge(T(i), i, j)
    BY <1>2 DEF FreeKnown
  <2>2. MallocTables[i].addr = a
    BY <2>1 DEF IsFirst, TablesOfAddr
  <2>3. ~InUse(i)
    BY <2>2, ConstantsAssumption DEF HeapInv, TablesInside, TypeOK, Tables
  <2>4. MallocTables[i] = EmptyTable
    BY <2>3 DEF HeapInv, UnusedTablesEmpty
  <2>5. /\ T(i)[i].addr = 0 /\ T(i)[i].size = 0 /\ T(i)[i].free
        /\ \A t \in Table \ {i} : T(i)[t] = MallocTables[t]
    BY <2>4 DEF TypeOK, Tables, EmptyTable
  <2>6. T(i) = [MallocTables EXCEPT ![i] = T(i)[i]] /\ T(i) \in [Table -> Tables]
    BY DEF TypeOK, Tables
  <2> HIDE DEF T
  <2>7. i \in Closeist(T(i), i)
    BY <2>5 DEF Closeist
  <2>8. ASSUME NEW j \in Table, j # i PROVE j \notin Closeist(T(i), i)
    <3>1. CASE InUse(j)
      BY <2>5, <2>8, <3>1, TableFacts DEF Closeist, TypeOK, Tables
    <3>2. CASE ~InUse(j)
      BY <2>5, <2>8, <3>2 DEF Closeist, HeapInv, UnusedTablesEmpty, EmptyTable
    <3> QED BY <3>1, <3>2
  <2>9. MallocTables' = Merge(T(i), i, i)
    BY <2>1, <2>7, <2>8 DEF IsFirst
  <2>10. Merge(T(i), i, i) = [T(i) EXCEPT ![i].size = T(i)[i].size + T(i)[i].size,
                                          ![i] = EmptyTable]
    BY DEF Merge
  <2>11. Merge(T(i), i, i) = [T(i) EXCEPT ![i] = EmptyTable]
    BY <2>6, <2>10
  <2> QED BY <2>4, <2>6, <2>9, <2>11 DEF TypeOK
<1> QED BY <1>1, <1>2 DEF Free

(* Free of the address of a table in use: the table becomes free, alone or *)
(* joined with a free neighbour, and no other table in use changes.        *)
LEMMA FreeTable ==
  ASSUME TypeOK, HeapInv, ~hung, NEW i \in Table, InUse(i), ~MallocTables[i].free,
         Free(MallocTables[i].addr)
  PROVE  /\ TablesApart' /\ TablesInside' /\ UnusedTablesEmpty'
         /\ \A t \in Table : (InUse(t))' /\ ~MallocTables'[t].free
                               <=> t # i /\ InUse(t) /\ ~MallocTables[t].free
         /\ \A t \in Table : t # i /\ InUse(t) /\ ~MallocTables[t].free
                               => MallocTables'[t] = MallocTables[t]
         /\ NoMemoryLost => LosesNothing
<1> DEFINE a == MallocTables[i].addr
           T == [MallocTables EXCEPT ![i].free = TRUE]
<1>1. \A t \in Table : MallocTables[t] \in Tables
  BY DEF TypeOK
<1>2. \A t \in Table : ~InUse(t) => MallocTables[t] = EmptyTable
  BY DEF HeapInv, UnusedTablesEmpty
<1>3. \A t \in Table : MallocTables[t].addr = a <=> t = i
  BY <1>2, TableFacts DEF EmptyTable
<1>4. IsFirst(i, TablesOfAddr(a)) /\ \A t \in Table : IsFirst(t, TablesOfAddr(a)) => t = i
  BY <1>3 DEF IsFirst, TablesOfAddr, Table
<1>5. \/ MallocTables' = T
      \/ \E j \in Table : j \in Closeist(T, i) /\ MallocTables' = Merge(T, i, j)
  BY <1>4 DEF Free, FreeUnknown, FreeKnown, IsFirst
<1>6. NextFreeMalloc' = NextFreeMalloc /\ hung' = hung
  BY DEF Free
<1>7. /\ T[i].addr = MallocTables[i].addr /\ T[i].size = MallocTables[i].size /\ T[i].free
      /\ \A t \in Table \ {i} : T[t] = MallocTables[t]
      /\ T \in [Table -> Tables]
  BY DEF TypeOK, Tables
<1> HIDE DEF T
<1>8. CASE MallocTables' = T
  <2>1. TablesApart' /\ TablesInside'
    BY <1>6, <1>7, <1>8 DEF HeapInv, TablesApart, TablesInside, InUse, Apart
  <2>2. UnusedTablesEmpty'
    BY <1>2, <1>6, <1>7, <1>8 DEF UnusedTablesEmpty, InUse
  <2>3. NoMemoryLost => LosesNothing
    BY <1>6, <1>7, <1>8 DEF NoMemoryLost, LosesNothing
  <2> QED BY <1>7, <1>8, <2>1, <2>2, <2>3 DEF InUse
<1>9. ASSUME NEW j \in Table, j \in Closeist(T, i), MallocTables' = Merge(T, i, j)
      PROVE  /\ TablesApart' /\ TablesInside' /\ UnusedTablesEmpty'
             /\ \A t \in Table : (InUse(t))' /\ ~MallocTables'[t].free
                               <=> t # i /\ InUse(t) /\ ~MallocTables[t].free
             /\ \A t \in Table : t # i /\ InUse(t) /\ ~MallocTables[t].free
                               => MallocTables'[t] = MallocTables[t]
             /\ NoMemoryLost => LosesNothing
  <2>1. j # i
    BY <1>1, <1>7, <1>9 DEF Closeist, InUse, Tables
  <2>2. InUse(j) /\ MallocTables[j].free
    BY <1>2, <1>7, <1>9, <2>1 DEF Closeist, EmptyTable
  <2>3. T[i].addr \in Nat /\ T[j].addr \in Nat /\ T[i].addr # T[j].addr
    BY <1>1, <1>3, <1>7, <2>1 DEF Tables
  <2>4. PICK low \in Table, high \in Table :
          /\ {low, high} = {i, j} /\ low # high
          /\ T[low].addr + T[low].size = T[high].addr
          /\ MallocTables' = [T EXCEPT ![low].size = T[low].size + T[high].size,
                                      ![high] = EmptyTable]
    <3>1. CASE T[i].addr < T[j].addr
      <4>1. T[i].addr + T[i].size = T[j].addr
        BY <1>9, <2>3, <3>1 DEF Closeist
      <4>2. MallocTables' = [T EXCEPT ![i].size = T[i].size + T[j].size, ![j] = EmptyTable]
        BY <1>9, <3>1 DEF Merge
      <4> QED BY <2>1, <4>1, <4>2
    <3>2. CASE ~(T[i].addr < T[j].addr)
      <4>1. T[j].addr + T[j].size = T[i].addr
        BY <1>9, <2>3, <3>2 DEF Closeist
      <4>2. MallocTables' = [T EXCEPT ![j].size = T[j].size + T[i].size, ![i] = EmptyTable]
        BY <1>9, <3>2 DEF Merge
      <4> QED BY <2>1, <4>1, <4>2
    <3> QED BY <3>1, <3>2
  <2>7. /\ MallocTables'[low].addr = T[low].addr
        /\ MallocTables'[low].size = T[low].size + T[high].size
        /\ MallocTables'[low].free = T[low].free
        /\ MallocTables'[high] = EmptyTable
        /\ \A t \in Table \ {low, high} : MallocTables'[t] = T[t]
    BY <1>7, <2>4 DEF Tables
  <2>8. /\ T[low].addr = MallocTables[low].addr /\ T[low].size = MallocTables[low].size
        /\ T[high].addr = MallocTables[high].addr /\ T[high].size = MallocTables[high].size
        /\ T[low].free /\ InUse(low) /\ InUse(high)
    BY <1>7, <2>1, <2>2, <2>4
  <2>9. /\ MallocTables[low].addr \in Nat /\ MallocTables[low].size \in Nat \ {0}
        /\ MallocTables[high].addr \in Nat /\ MallocTables[high].size \in Nat \ {0}
    BY <1>1, <2>4, <2>8 DEF Tables, InUse
  <2>10. \A t \in Table : (InUse(t))' <=> t # high /\ InUse(t)
    <3>1. ASSUME NEW t \in Table, t \notin {low, high} PROVE MallocTables'[t] = MallocTables[t]
      BY <1>7, <2>4, <2>7, <3>1
    <3>2. (InUse(low))' /\ ~(InUse(high))'
      BY <2>7, <2>8, <2>9 DEF InUse, EmptyTable
    <3> QED BY <2>4, <2>8, <3>1, <3>2 DEF InUse
  <2>11. \A t \in Table : t \notin {low, high} => MallocTables'[t] = MallocTables[t]
    BY <1>7, <2>4, <2>7
  <2>12. TablesApart'
    <3>1. ASSUME NEW t \in Table, t \notin {low, high}, InUse(t)
          PROVE  Apart(MallocTables[t], MallocTables'[low]) /\ Apart(MallocTables'[low], MallocTables[t])
      <4>1. Apart(MallocTables[t], MallocTables[low]) /\ Apart(MallocTables[t], MallocTables[high])
        BY <2>4, <2>8, <3>1 DEF HeapInv, TablesApart
      <4>2. MallocTables[t].addr \in Nat /\ MallocTables[t].size \in Nat \ {0}
        BY <1>1, <3>1 DEF Tables, InUse
      <4> QED BY <2>4, <2>7, <2>8, <2>9, <4>1, <4>2 DEF Apart
    <3>2. ASSUME NEW t \in Table, NEW u \in Table, t # u, (InUse(t))', (InUse(u))'
          PROVE  Apart(MallocTables'[t], MallocTables'[u])
      <4>1. t # high /\ u # high /\ InUse(t) /\ InUse(u)
        BY <2>10, <3>2
      <4>2. CASE t = low
        BY <2>11, <3>1, <3>2, <4>1, <4>2
      <4>3. CASE u = low
        BY <2>11, <3>1, <3>2, <4>1, <4>3
      <4>4. CASE t # low /\ u # low
        BY <2>11, <3>2, <4>1, <4>4 DEF HeapInv, TablesApart
      <4> QED BY <4>2, <4>3, <4>4
    <3> QED BY <3>2 DEF TablesApart
  <2>13. TablesInside'
    <3>1. \A t \in Table : InUse(t) =>
            /\ MallocStart <= MallocTables[t].addr
            /\ MallocTables[t].addr + MallocTables[t].size <= NextFreeMalloc
      BY DEF HeapInv, TablesInside
    <3>2. /\ MallocStart <= MallocTables'[low].addr
          /\ MallocTables'[low].addr + MallocTables'[low].size <= NextFreeMalloc
      BY <2>4, <2>7, <2>8, <2>9, <3>1
    <3>3. MallocStart <= NextFreeMalloc
      BY DEF HeapInv, TablesInside
    <3>4. ASSUME NEW t \in Table, (InUse(t))'
          PROVE  /\ MallocStart <= MallocTables'[t].addr
                 /\ MallocTables'[t].addr + MallocTables'[t].size <= NextFreeMalloc
      <4>1. t # high /\ InUse(t)
        BY <2>10, <3>4
      <4> QED BY <2>11, <3>1, <3>2, <4>1
    <3> QED BY <1>6, <3>3, <3>4 DEF TablesInside
  <2>14. UnusedTablesEmpty'
    <3>1. ASSUME NEW t \in Table, ~(InUse(t))' PROVE MallocTables'[t] = EmptyTable
      BY <1>2, <2>7, <2>8, <2>10, <2>11, <3>1
    <3> QED BY <3>1 DEF UnusedTablesEmpty
  <2>15. ASSUME NEW t \in Table
         PROVE  /\ (InUse(t))' /\ ~MallocTables'[t].free
                     <=> t # i /\ InUse(t) /\ ~MallocTables[t].free
                /\ t # i /\ InUse(t) /\ ~MallocTables[t].free
                     => MallocTables'[t] = MallocTables[t]
    <3>1. CASE t = low
      BY <2>2, <2>4, <2>7, <2>8, <3>1
    <3>2. CASE t = high
      BY <2>2, <2>4, <2>10, <3>2
    <3>3. CASE t \notin {low, high}
      BY <2>4, <2>10, <2>11, <3>3
    <3> QED BY <3>1, <3>2, <3>3
  <2>16. ASSUME NoMemoryLost, NEW y \in MallocStart..(NextFreeMalloc - 1), ~Blocked(y)
         PROVE  \E t \in Table : /\ MallocTables'[t].addr <= y
                                 /\ y < MallocTables'[t].addr + MallocTables'[t].size
    <3>1. PICK t \in Table : /\ MallocTables[t].addr <= y
                             /\ y < MallocTables[t].addr + MallocTables[t].size
      BY <2>16 DEF NoMemoryLost
    <3>2. MallocStart \in Nat /\ NextFreeMalloc \in Nat
      BY ConstantsAssumption DEF TypeOK
    <3>3. CASE t \in {low, high}
      <4>1. /\ MallocTables'[low].addr <= y
            /\ y < MallocTables'[low].addr + MallocTables'[low].size
        BY <2>4, <2>7, <2>8, <2>9, <3>1, <3>2, <3>3
      <4> QED BY <4>1
    <3>4. CASE t \notin {low, high}
      BY <2>11, <3>1, <3>4
    <3> QED BY <3>3, <3>4
  <2>17. NoMemoryLost => LosesNothing
    BY <1>6, <2>16 DEF LosesNothing
  <2> QED BY <2>12, <2>13, <2>14, <2>15, <2>17
<1> QED BY <1>5, <1>8, <1>9

(* Whoever gives back a chunk is left with nothing, and everybody else     *)
(* with the table he had.                                                  *)
LEMMA GiveBackStep ==
  ASSUME TypeOK, HeapInv, ~hung, NEW h \in Holder, chunk[h].addr # 0,
         Free(chunk[h].addr), chunk' = [chunk EXCEPT ![h] = NoChunk],
         UNCHANGED returning
  PROVE  /\ TablesApart' /\ TablesInside' /\ UnusedTablesEmpty'
         /\ HoldersHaveTables' /\ TablesHaveOneHolder'
         /\ UsedOwned => UsedOwned'
         /\ NoMemoryLost => LosesNothing
<1>1. chunk[h].size # 0 /\ returning[h] = NoTable
  BY DEF HeapInv, HoldersHaveTables
<1>2. PICK i \in Table : Owns(i, h)
  BY <1>1 DEF HeapInv, HoldersHaveTables, Owns
<1>3. MallocTables[i].addr = chunk[h].addr /\ InUse(i) /\ ~MallocTables[i].free
  <2>1. i # NoTable
    BY ConstantsAssumption DEF Table, NoTable
  <2> QED BY <1>1, <1>2, <2>1 DEF Owns, TableOf
<1>4. /\ TablesApart' /\ TablesInside' /\ UnusedTablesEmpty'
      /\ \A t \in Table : (InUse(t))' /\ ~MallocTables'[t].free
                            <=> t # i /\ InUse(t) /\ ~MallocTables[t].free
      /\ \A t \in Table : t # i /\ InUse(t) /\ ~MallocTables[t].free
                            => MallocTables'[t] = MallocTables[t]
      /\ NoMemoryLost => LosesNothing
  BY <1>3, FreeTable
<1>5. chunk'[h] = NoChunk /\ \A g \in Holder \ {h} : chunk'[g] = chunk[g]
  BY DEF TypeOK
<1>6. ASSUME NEW t \in Table, NEW g \in Holder
      PROVE  Owns(t, g)' <=> g # h /\ Owns(t, g)
  <2>1. CASE g = h
    BY <1>5, <2>1 DEF Owns, TableOf, InUse, NoChunk
  <2>2. CASE g # h /\ t = i
    <3>1. ~Owns(i, g)
      BY <1>1, <1>2, <2>2 DEF HeapInv, TablesHaveOneHolder, Owns
    <3> QED BY <1>4, <2>2, <3>1 DEF Owns, TableOf
  <2>3. CASE g # h /\ t # i
    BY <1>4, <1>5, <2>3 DEF Owns, TableOf
  <2> QED BY <2>1, <2>2, <2>3
<1>7. HoldersHaveTables'
  <2>1. ASSUME NEW g \in Holder
        PROVE  /\ (chunk[g].size # 0)' => \E t \in Table : Owns(t, g)'
               /\ (chunk[g].size = 0)' => (chunk[g].addr = 0)' /\ (returning[g] = NoTable)'
               /\ (returning[g] # NoTable)' => (chunk[g].addr = 0)'
    <3>1. CASE g = h
      BY <1>1, <1>5, <3>1 DEF NoChunk
    <3>2. CASE g # h
      BY <1>5, <1>6, <3>2 DEF HeapInv, HoldersHaveTables, Owns
    <3> QED BY <3>1, <3>2
  <2> QED BY <2>1 DEF HoldersHaveTables, Owns
<1>8. TablesHaveOneHolder'
  BY <1>5, <1>6 DEF HeapInv, TablesHaveOneHolder, Owns
<1>9. ASSUME UsedOwned, NEW t \in Table, (InUse(t))', ~MallocTables'[t].free
      PROVE  \E g \in Holder : Owns(t, g)'
  <2>1. t # i /\ InUse(t) /\ ~MallocTables[t].free
    BY <1>4, <1>9
  <2>2. PICK g \in Holder : Owns(t, g)
    BY <1>9, <2>1 DEF UsedOwned
  <2>3. g # h
    <3> SUFFICES ASSUME g = h PROVE FALSE
      OBVIOUS
    <3>1. t # NoTable
      BY ConstantsAssumption DEF Table, NoTable
    <3>2. MallocTables[t].addr = chunk[h].addr
      BY <1>1, <2>2, <3>1 DEF Owns, TableOf
    <3> QED BY <1>3, <2>1, <3>2, TableFacts
  <2> QED BY <1>6, <2>2, <2>3
<1>10. UsedOwned => UsedOwned'
  BY <1>9 DEF UsedOwned
<1> QED BY <1>4, <1>7, <1>8, <1>10
-----------------------------------------------------------------------------
(* While the list of blocked areas grows, the heap is only asked for the   *)
(* array that is not in use yet.                                           *)
LEMMA OldListStep ==
  ASSUME TypeOK, HeapInv, [Next]_vars
  PROVE  OldListIdle'
<1> DEFINE n == EntrySize * (Len(MallocOverWrites) + 1)
<1>1. SpareList # OldList /\ SpareList \in Lists /\ OldList \in Lists
  BY DEF SpareList, OldList, Lists
<1>2. ASSUME MallocOverWrites' = MallocOverWrites, returning'[OldList] = returning[OldList]
      PROVE  OldListIdle'
  <2>1. OldList' = OldList
    BY <1>2 DEF OldList
  <2> QED BY <1>2, <2>1 DEF OldListIdle, HeapInv
<1>3. ASSUME NEW h \in Holder, h # OldList, NEW m \in Nat, Malloc(h, m)
      PROVE  returning'[OldList] = returning[OldList]
  BY <1>3, <1>1 DEF Malloc, MallocNew, MallocOutOfMemory, MallocSplit, MallocReuse,
                    MallocTablesFull, Ask, TypeOK, Holder
<1>4. ASSUME NEW h \in Holder, h # OldList, MallocReturn(h)
      PROVE  returning'[OldList] = returning[OldList]
  BY <1>4, <1>1 DEF MallocReturn, TypeOK, Holder
<1>5. \A h \in Client : h # OldList /\ h \in Holder
  BY <1>1, ConstantsAssumption DEF Lists, Holder
<1>6. CASE UsableArea
  BY <1>2, <1>6 DEF UsableArea
<1>7. CASE GrowOverWrites
  <2>1. SpareList \in Holder /\ n \in Nat
    BY ListsAreHolders, ListSizes
  <2>2. MallocOverWrites' = MallocOverWrites /\ (Malloc(SpareList, n) \/ MallocReturn(SpareList))
    BY <1>7 DEF GrowOverWrites, bootVars
  <2> HIDE DEF n
  <2> QED BY <1>1, <1>2, <1>3, <1>4, <2>1, <2>2
<1>8. CASE AddOverwrite
  <2>1. /\ MallocOverWrites' = Append(MallocOverWrites, Head(map))
        /\ chunk[SpareList].addr # 0 /\ returning' = returning
    BY <1>8 DEF AddOverwrite
  <2>2. Len(MallocOverWrites') = Len(MallocOverWrites) + 1 /\ Len(MallocOverWrites) \in Nat
    <3>1. Head(map) \in MapEntries
      BY <1>8 DEF AddOverwrite, Booting, TypeOK
    <3> QED BY <2>1, <3>1 DEF TypeOK
  <2>3. \A k \in Nat : (k + 1) % 2 = 0 <=> k % 2 # 0
    OBVIOUS
  <2>4. OldList' = SpareList
    BY <2>2, <2>3 DEF OldList, SpareList
  <2>5. returning[SpareList] = NoTable
    BY <2>1, ListsAreHolders DEF HeapInv, HoldersHaveTables
  <2> QED BY <2>1, <2>4, <2>5 DEF OldListIdle
<1>9. CASE UNCHANGED bootVars /\ \E h \in Client : \/ \E m \in Sizes : Malloc(h, m)
                                                   \/ MallocReturn(h)
                                                   \/ FreeHeld(h)
  <2>1. MallocOverWrites' = MallocOverWrites
    BY <1>9 DEF bootVars
  <2>2. ASSUME NEW h \in Client, NEW m \in Sizes, Malloc(h, m)
        PROVE  returning'[OldList] = returning[OldList]
    BY <1>3, <1>5, <2>2, ConstantsAssumption
  <2>3. ASSUME NEW h \in Client, MallocReturn(h)
        PROVE  returning'[OldList] = returning[OldList]
    BY <1>4, <1>5, <2>3
  <2>4. ASSUME NEW h \in Client, FreeHeld(h)
        PROVE  returning'[OldList] = returning[OldList]
    BY <2>4 DEF FreeHeld
  <2> QED BY <1>2, <1>9, <2>1, <2>2, <2>3, <2>4
<1>10. CASE UNCHANGED bootVars /\ \E a \in ForeignAddrs : FreeForeign(a)
  BY <1>2, <1>10 DEF bootVars, FreeForeign
<1>11. CASE UNCHANGED vars
  BY <1>2, <1>11 DEF vars, bootVars
<1> QED BY <1>6, <1>7, <1>8, <1>9, <1>10, <1>11 DEF Next, Running

(* The array that AddOverwrite frees: either nothing, which address 0      *)
(* stands for, or a chunk of the heap.                                     *)
LEMMA AddOverwriteStep ==
  ASSUME TypeOK, HeapInv, AddOverwrite
  PROVE  /\ TablesApart' /\ TablesInside' /\ UnusedTablesEmpty'
         /\ HoldersHaveTables' /\ TablesHaveOneHolder'
         /\ UsedOwned => UsedOwned'
         /\ NoMemoryLost => LosesNothing
<1>1. OldList \in Holder
  BY ListsAreHolders
<1>2. /\ ~hung /\ Free(chunk[OldList].addr) /\ returning' = returning
      /\ chunk' = [chunk EXCEPT ![OldList] = NoChunk]
  BY DEF AddOverwrite
<1>3. CASE chunk[OldList].addr # 0
  BY <1>1, <1>2, <1>3, GiveBackStep
<1>4. CASE chunk[OldList].addr = 0
  <2>1. returning[OldList] = NoTable
    BY DEF HeapInv, OldListIdle
  <2>2. chunk[OldList].size = 0
    <3> SUFFICES ASSUME chunk[OldList].size # 0 PROVE FALSE
      OBVIOUS
    <3>1. PICK i \in Table : InUse(i) /\ TableOf(i, OldList)
      BY <1>1 DEF HeapInv, HoldersHaveTables
    <3>2. i # NoTable
      BY ConstantsAssumption DEF Table, NoTable
    <3>3. MallocTables[i].addr = 0
      BY <1>4, <2>1, <3>1, <3>2 DEF TableOf
    <3> QED BY <3>1, <3>3, TableFacts
  <2>3. chunk[OldList] = NoChunk
    BY <1>1, <1>4, <2>2 DEF TypeOK, Chunk, NoChunk
  <2>4. chunk' = chunk
    BY <1>1, <1>2, <2>3 DEF TypeOK
  <2>5. MallocTables' = MallocTables
    <3>1. 0 \in Nat /\ 0 < MallocStart
      BY ConstantsAssumption
    <3> QED BY <1>2, <1>4, <3>1, FreeOutside
  <2>6. NextFreeMalloc' = NextFreeMalloc /\ hung' = hung
    BY <1>2 DEF Free
  <2> QED BY <1>2, <2>4, <2>5, <2>6
          DEF HeapInv, TablesApart, TablesInside, UnusedTablesEmpty, HoldersHaveTables,
              TablesHaveOneHolder, InUse, TableOf, UsedOwned, Owns, NoMemoryLost, LosesNothing
<1> QED BY <1>3, <1>4

LEMMA HeapStep ==
  ASSUME 0 \notin Sizes, TypeOK, HeapInv, [Next]_vars
  PROVE  HeapInv' /\ (UsedOwned => UsedOwned') /\ (NoMemoryLost => LosesNothing)
<1> SUFFICES /\ TablesApart' /\ TablesInside' /\ UnusedTablesEmpty'
             /\ HoldersHaveTables' /\ TablesHaveOneHolder'
             /\ UsedOwned => UsedOwned'
             /\ NoMemoryLost => LosesNothing
  BY OldListStep DEF HeapInv
<1> DEFINE n == EntrySize * (Len(MallocOverWrites) + 1)
<1>1. ASSUME UNCHANGED <<tableVars, chunk, returning, hung>>
      PROVE  /\ TablesApart' /\ TablesInside' /\ UnusedTablesEmpty'
             /\ HoldersHaveTables' /\ TablesHaveOneHolder'
             /\ UsedOwned => UsedOwned'
             /\ NoMemoryLost => LosesNothing
  BY <1>1 DEF HeapInv, TablesApart, TablesInside, UnusedTablesEmpty, HoldersHaveTables,
              TablesHaveOneHolder, InUse, TableOf, tableVars, UsedOwned, Owns,
              NoMemoryLost, LosesNothing
<1>2. CASE UsableArea
  BY <1>1, <1>2 DEF UsableArea
<1>3. CASE GrowOverWrites
  <2>1. SpareList \in Holder /\ n \in Nat /\ n # 0
    BY ListsAreHolders, ListSizes
  <2>2. Malloc(SpareList, n) \/ MallocReturn(SpareList)
    BY <1>3 DEF GrowOverWrites
  <2> HIDE DEF n
  <2> QED BY <2>1, <2>2, MallocStep, MallocReturnStep
<1>4. CASE AddOverwrite
  BY <1>4, AddOverwriteStep
<1>5. ASSUME NEW h \in Client, NEW m \in Sizes, Malloc(h, m)
      PROVE  /\ TablesApart' /\ TablesInside' /\ UnusedTablesEmpty'
             /\ HoldersHaveTables' /\ TablesHaveOneHolder'
             /\ UsedOwned => UsedOwned'
             /\ NoMemoryLost => LosesNothing
  <2>1. h \in Holder /\ m \in Nat /\ m # 0
    BY ConstantsAssumption DEF Holder
  <2> QED BY <1>5, <2>1, MallocStep
<1>6. ASSUME NEW h \in Client, MallocReturn(h)
      PROVE  /\ TablesApart' /\ TablesInside' /\ UnusedTablesEmpty'
             /\ HoldersHaveTables' /\ TablesHaveOneHolder'
             /\ UsedOwned => UsedOwned'
             /\ NoMemoryLost => LosesNothing
  BY <1>6, MallocReturnStep DEF Holder
<1>7. ASSUME NEW h \in Client, FreeHeld(h)
      PROVE  /\ TablesApart' /\ TablesInside' /\ UnusedTablesEmpty'
             /\ HoldersHaveTables' /\ TablesHaveOneHolder'
             /\ UsedOwned => UsedOwned'
             /\ NoMemoryLost => LosesNothing
  BY <1>7, GiveBackStep DEF FreeHeld, Holder
<1>8. ASSUME NEW a \in ForeignAddrs, FreeForeign(a)
      PROVE  /\ TablesApart' /\ TablesInside' /\ UnusedTablesEmpty'
             /\ HoldersHaveTables' /\ TablesHaveOneHolder'
             /\ UsedOwned => UsedOwned'
             /\ NoMemoryLost => LosesNothing
  <2>1. a \in Nat /\ a < MallocStart
    BY ConstantsAssumption
  <2>2. MallocTables' = MallocTables
    BY <1>8, <2>1, FreeOutside DEF FreeForeign
  <2> QED BY <1>1, <1>8, <2>2 DEF FreeForeign, Free, tableVars
<1>9. CASE UNCHANGED vars
  BY <1>1, <1>9 DEF vars
<1> QED BY <1>2, <1>3, <1>4, <1>5, <1>6, <1>7, <1>8, <1>9 DEF Next

LEMMA HeapInit == Init => HeapInv
<1> SUFFICES ASSUME Init PROVE HeapInv
  OBVIOUS
<1>1. \A i \in Table : MallocTables[i] = EmptyTable /\ ~InUse(i)
  BY DEF Init, InUse, EmptyTable
<1>2. \A h \in Holder : chunk[h] = NoChunk /\ returning[h] = NoTable
  BY DEF Init
<1>3. TablesApart /\ UnusedTablesEmpty /\ TablesHaveOneHolder
  BY <1>1 DEF TablesApart, UnusedTablesEmpty, TablesHaveOneHolder
<1>4. TablesInside
  BY <1>1, ConstantsAssumption DEF TablesInside, Init
<1>5. HoldersHaveTables
  BY <1>2 DEF HoldersHaveTables, NoChunk
<1>6. OldListIdle
  BY <1>2, ListsAreHolders DEF OldListIdle
<1> QED BY <1>3, <1>4, <1>5, <1>6 DEF HeapInv

(* When nobody asks for 0 bytes, the tables in use never overlap and lie   *)
(* inside the heap, tables out of use are blank, and every holder has a    *)
(* table that is not free and nobody else's: Malloc and Free (malloc.cpp)  *)
(* keep the whole invariant, through splitting, joining and reuse.         *)
THEOREM HeapInvariant == ASSUME 0 \notin Sizes PROVE Spec => []HeapInv
<1>1. TypeOK /\ HeapInv /\ [Next]_vars => HeapInv'
  BY HeapStep
<1>2. Spec => []TypeOK
  BY TypeCorrect
<1> QED BY <1>1, <1>2, HeapInit, PTL DEF Spec
-----------------------------------------------------------------------------
(* The table of a chunk that is held says the same as its holder.          *)
LEMMA LiveTable ==
  ASSUME TypeOK, HeapInv, NEW g \in Holder, Live(g)
  PROVE  \E i \in Table : /\ InUse(i) /\ TableOf(i, g)
                          /\ MallocTables[i].addr = chunk[g].addr
                          /\ MallocTables[i].size = chunk[g].size
<1>1. chunk[g].size # 0 /\ returning[g] = NoTable
  BY DEF Live, HeapInv, HoldersHaveTables
<1>2. PICK i \in Table : InUse(i) /\ TableOf(i, g)
  BY <1>1 DEF HeapInv, HoldersHaveTables
<1>3. i # NoTable
  BY ConstantsAssumption DEF Table, NoTable
<1> QED BY <1>1, <1>2, <1>3 DEF TableOf

LEMMA HeldDisjoint == TypeOK /\ HeapInv => LiveChunksDisjoint
<1> SUFFICES ASSUME TypeOK, HeapInv, NEW g \in Holder, NEW h \in Holder,
                    g # h, Live(g), Live(h)
             PROVE  Apart(chunk[g], chunk[h])
  BY DEF LiveChunksDisjoint
<1>1. PICK i \in Table : /\ InUse(i) /\ TableOf(i, g)
                         /\ MallocTables[i].addr = chunk[g].addr
                         /\ MallocTables[i].size = chunk[g].size
  BY LiveTable
<1>2. PICK j \in Table : /\ InUse(j) /\ TableOf(j, h)
                         /\ MallocTables[j].addr = chunk[h].addr
                         /\ MallocTables[j].size = chunk[h].size
  BY LiveTable
<1>3. i # j
  BY <1>1, <1>2 DEF HeapInv, TablesHaveOneHolder, InUse
<1>4. Apart(MallocTables[i], MallocTables[j])
  BY <1>1, <1>2, <1>3 DEF HeapInv, TablesApart
<1> QED BY <1>1, <1>2, <1>4 DEF Apart

(* Malloc (malloc.cpp) gives no byte to two callers at a time, as long as  *)
(* nobody asks for 0 bytes.                                                *)
THEOREM ChunksDisjoint == ASSUME 0 \notin Sizes PROVE Spec => []LiveChunksDisjoint
  BY TypeCorrect, HeapInvariant, HeldDisjoint, PTL
-----------------------------------------------------------------------------
(***************************************************************************)
(* The account of the memory.                                              *)
(***************************************************************************)
(* What was blocked stays blocked: the list only grows.                    *)
LEMMA BlockedStays ==
  ASSUME TypeOK, [Next]_vars, NEW x \in Nat, Blocked(x)
  PROVE  Blocked(x)'
<1>1. PICK k \in DOMAIN MallocOverWrites :
        /\ MallocOverWrites[k].MemoryAddress <= x
        /\ x <= MallocOverWrites[k].MemoryAddress + MallocOverWrites[k].NumberBytes
  BY DEF Blocked
<1>2. k \in DOMAIN MallocOverWrites' /\ MallocOverWrites'[k] = MallocOverWrites[k]
  <2>1. CASE AddOverwrite
    <3>1. Head(map) \in MapEntries
      BY <2>1 DEF AddOverwrite, Booting, TypeOK
    <3> QED BY <2>1, <3>1 DEF AddOverwrite, TypeOK
  <2>2. CASE MallocOverWrites' = MallocOverWrites
    BY <2>2
  <2> QED BY <2>1, <2>2 DEF Next, vars, bootVars, UsableArea, GrowOverWrites
<1> QED BY <1>1, <1>2 DEF Blocked

LEMMA AccountStep ==
  ASSUME 0 \notin Sizes, TypeOK, TypeOK', HeapInv, UsedOwned, NoMemoryLost, [Next]_vars
  PROVE  UsedOwned' /\ NoMemoryLost'
<1>1. UsedOwned' /\ LosesNothing
  BY HeapStep
<1>2. MallocStart \in Nat /\ NextFreeMalloc' \in Nat
  BY ConstantsAssumption DEF TypeOK
<1>3. ASSUME ~hung', NEW x \in MallocStart..(NextFreeMalloc' - 1)
      PROVE  \/ Blocked(x)'
             \/ \E i \in Table : /\ MallocTables'[i].addr <= x
                                 /\ x < MallocTables'[i].addr + MallocTables'[i].size
  <2>1. x \in Nat
    BY <1>2
  <2> QED BY <1>1, <1>3, <2>1, BlockedStays DEF LosesNothing
<1> QED BY <1>1, <1>3 DEF NoMemoryLost

LEMMA AccountInit == Init => UsedOwned /\ NoMemoryLost
<1> SUFFICES ASSUME Init PROVE UsedOwned /\ NoMemoryLost
  OBVIOUS
<1>1. UsedOwned
  BY DEF Init, UsedOwned, InUse, EmptyTable
<1>2. NoMemoryLost
  BY ConstantsAssumption DEF Init, NoMemoryLost
<1> QED BY <1>1, <1>2

LEMMA OwnedIsAccounted == TypeOK /\ HeapInv /\ UsedOwned => UsedTablesOwned
<1> SUFFICES ASSUME TypeOK, HeapInv, UsedOwned, ~hung, NEW i \in Table,
                    MallocTables[i].addr # 0, ~MallocTables[i].free
             PROVE  \E h \in Holder : \/ returning[h] = i
                                      \/ chunk[h].addr = MallocTables[i].addr
  BY DEF UsedTablesOwned
<1>1. InUse(i)
  BY DEF HeapInv, UnusedTablesEmpty, EmptyTable
<1>2. PICK h \in Holder : Owns(i, h)
  BY <1>1 DEF UsedOwned
<1> QED BY <1>2 DEF Owns, TableOf

(* As long as nobody asks for 0 bytes, Malloc and Free (malloc.cpp) lose   *)
(* nothing: every address the heap has grown past is in a table or was     *)
(* blocked by the memory map, through all splitting and joining, and every *)
(* table that is not free has a caller that can still free it.             *)
THEOREM MemoryIsAccounted == ASSUME 0 \notin Sizes PROVE Spec => []MemoryAccounted
<1>1. TypeOK /\ TypeOK' /\ HeapInv /\ (UsedOwned /\ NoMemoryLost) /\ [Next]_vars
        => (UsedOwned /\ NoMemoryLost)'
  BY AccountStep
<1>2. TypeOK /\ HeapInv /\ (UsedOwned /\ NoMemoryLost) => MemoryAccounted
  BY OwnedIsAccounted DEF MemoryAccounted
<1> QED BY <1>1, <1>2, AccountInit, TypeCorrect, HeapInvariant, PTL DEF Spec
-----------------------------------------------------------------------------
(***************************************************************************)
(* The heap implements the allocator: only the step that returns an        *)
(* address and the ones that give a chunk back are visible to its callers. *)
(***************************************************************************)
LEMMA HeldIs ==
  ASSUME TypeOK
  PROVE  /\ held \in [Holder -> Chunk]
         /\ \A h \in Holder : held[h] = IF Live(h) THEN chunk[h] ELSE NoChunk
  BY DEF held, TypeOK, Chunk, NoChunk

(* What h asks for is not held yet.                                        *)
LEMMA MallocHidden ==
  ASSUME TypeOK, TypeOK', NEW h \in Holder, NEW n \in Nat, Malloc(h, n)
  PROVE  held' = held
<1>1. CASE chunk' = chunk
  BY <1>1 DEF held, Live
<1>2. ASSUME NEW i \in Table, Ask(h, n, i) PROVE held' = held
  <2>1. /\ chunk'[h] = [addr |-> 0, size |-> n] /\ chunk[h] = NoChunk
        /\ \A g \in Holder \ {h} : chunk'[g] = chunk[g]
    BY <1>2, AskResult DEF Malloc, CanAsk
  <2>2. ASSUME NEW g \in Holder
        PROVE  (IF (Live(g))' THEN chunk'[g] ELSE NoChunk)
                 = (IF Live(g) THEN chunk[g] ELSE NoChunk)
    BY <2>1 DEF Live, NoChunk
  <2> QED BY <2>2 DEF held
<1> QED BY <1>1, <1>2 DEF Malloc, MallocNew, MallocOutOfMemory, MallocSplit, MallocReuse,
                          MallocTablesFull

LEMMA MallocReturnTakes ==
  ASSUME TypeOK, TypeOK', HeapInv, NEW h \in Holder, MallocReturn(h)
  PROVE  Abstract!Take(h)
<1> DEFINE i == returning[h]
           a == MallocTables[i].addr
<1>1. i # NoTable /\ i \in Table /\ Owns(i, h)
  BY ReturningOwned DEF MallocReturn
<1>2. a # 0 /\ chunk[h].size = MallocTables[i].size /\ chunk[h].addr = 0 /\ InUse(i)
  BY <1>1, TableFacts DEF Owns, TableOf, HeapInv, HoldersHaveTables
<1>3. chunk' = [chunk EXCEPT ![h] = [chunk[h] EXCEPT !.addr = a]]
  BY <1>2 DEF MallocReturn
<1>4. /\ chunk'[h].addr = a /\ chunk'[h].size = MallocTables[i].size
      /\ \A g \in Holder \ {h} : chunk'[g] = chunk[g]
  BY <1>2, <1>3 DEF TypeOK, Chunk
<1>5. held[h] = NoChunk /\ held'[h] = chunk'[h] /\ (Live(h))'
  BY <1>2, <1>4 DEF held, Live
<1>6. \A g \in Holder \ {h} : held'[g] = held[g]
  BY <1>4 DEF held, Live
<1>7. held' = [held EXCEPT ![h] = held'[h]]
  BY <1>6 DEF held
<1>8. held'[h] \in Chunk /\ held'[h].addr # 0
  BY <1>2, <1>4, <1>5 DEF TypeOK
<1>9. ASSUME NEW g \in Holder, held[g].addr # 0
      PROVE  Abstract!Apart(held'[h], held[g])
  <2>1. g # h /\ Live(g) /\ held[g] = chunk[g]
    BY <1>5, <1>9 DEF held, Live, NoChunk
  <2>2. PICK k \in Table : /\ InUse(k) /\ TableOf(k, g)
                           /\ MallocTables[k].addr = chunk[g].addr
                           /\ MallocTables[k].size = chunk[g].size
    BY <2>1, LiveTable
  <2>3. k # i
    BY <1>1, <1>2, <2>1, <2>2 DEF HeapInv, TablesHaveOneHolder, Owns, InUse
  <2>4. Apart(MallocTables[i], MallocTables[k])
    BY <1>1, <1>2, <2>2, <2>3 DEF HeapInv, TablesApart
  <2> QED BY <1>4, <1>5, <2>1, <2>2, <2>4 DEF Apart, Abstract!Apart
<1> QED BY <1>5, <1>7, <1>8, <1>9 DEF Abstract!Take, Abstract!Chunk, Abstract!NoChunk,
                                      Chunk, NoChunk

LEMMA GiveBackGives ==
  ASSUME TypeOK, NEW h \in Holder, chunk' = [chunk EXCEPT ![h] = NoChunk]
  PROVE  \/ chunk[h].addr # 0 /\ Abstract!Give(h)
         \/ chunk[h].addr = 0 /\ held' = held
<1>1. chunk'[h] = NoChunk /\ \A g \in Holder \ {h} : chunk'[g] = chunk[g]
  BY DEF TypeOK
<1>2. \A g \in Holder : held'[g] = IF g = h THEN NoChunk ELSE held[g]
  BY <1>1 DEF held, Live, NoChunk
<1>3. held' = [held EXCEPT ![h] = NoChunk]
  BY <1>2 DEF held
<1>4. CASE chunk[h].addr # 0
  BY <1>3, <1>4 DEF Abstract!Give, Abstract!NoChunk, NoChunk, held, Live
<1>5. CASE chunk[h].addr = 0
  <2>1. held[h] = NoChunk
    BY <1>5 DEF held, Live
  <2> QED BY <1>3, <1>5, <2>1 DEF held
<1> QED BY <1>4, <1>5

LEMMA RefinementStep ==
  ASSUME TypeOK, TypeOK', HeapInv, [Next]_vars
  PROVE  [Abstract!Next]_held
<1>1. ASSUME UNCHANGED chunk PROVE held' = held
  BY <1>1 DEF held, Live
<1>2. CASE UsableArea
  BY <1>1, <1>2 DEF UsableArea
<1>3. CASE GrowOverWrites
  <2>1. /\ SpareList \in Holder
        /\ EntrySize * (Len(MallocOverWrites) + 1) \in Nat
    BY ListsAreHolders, ListSizes
  <2>2. \/ Malloc(SpareList, EntrySize * (Len(MallocOverWrites) + 1))
        \/ MallocReturn(SpareList)
    BY <1>3 DEF GrowOverWrites
  <2> QED BY <2>1, <2>2, MallocHidden, MallocReturnTakes DEF Abstract!Next
<1>4. CASE AddOverwrite
  BY <1>4, ListsAreHolders, GiveBackGives DEF AddOverwrite, Abstract!Next
<1>5. ASSUME NEW h \in Client, NEW m \in Sizes, Malloc(h, m)
      PROVE  [Abstract!Next]_held
  BY <1>5, ConstantsAssumption, MallocHidden DEF Holder
<1>6. ASSUME NEW h \in Client, MallocReturn(h)
      PROVE  [Abstract!Next]_held
  BY <1>6, MallocReturnTakes DEF Holder, Abstract!Next
<1>7. ASSUME NEW h \in Client, FreeHeld(h)
      PROVE  [Abstract!Next]_held
  BY <1>7, GiveBackGives DEF Holder, FreeHeld, Abstract!Next
<1>8. ASSUME NEW a \in ForeignAddrs, FreeForeign(a)
      PROVE  [Abstract!Next]_held
  BY <1>1, <1>8 DEF FreeForeign
<1>9. CASE UNCHANGED vars
  BY <1>1, <1>9 DEF vars
<1> QED BY <1>2, <1>3, <1>4, <1>5, <1>6, <1>7, <1>8, <1>9 DEF Next

(* The heap does what Allocator promises, as long as nobody asks for 0     *)
(* bytes: what a caller sees of Malloc and Free (malloc.cpp) is a piece    *)
(* nobody else has, taken and given back, whatever the tables look like.   *)
THEOREM Implements == ASSUME 0 \notin Sizes PROVE Spec => Refinement
<1>1. Init => Abstract!Init
  <2> SUFFICES ASSUME Init PROVE Abstract!Init
    OBVIOUS
  <2>1. \A h \in Holder : chunk[h] = NoChunk
    BY DEF Init
  <2> QED BY <2>1 DEF held, Live, Abstract!Init, Abstract!NoChunk, NoChunk
<1>2. TypeOK /\ TypeOK' /\ HeapInv /\ [Next]_vars => [Abstract!Next]_held
  BY RefinementStep
<1>3. Spec => []TypeOK /\ []HeapInv
  BY TypeCorrect, HeapInvariant, PTL
<1> QED BY <1>1, <1>2, <1>3, PTL DEF Spec, Refinement, Abstract!Spec
=============================================================================
