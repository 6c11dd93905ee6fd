------------------------------ MODULE Kmalloc ------------------------------
(***************************************************************************)
(* The kernel heap (Kernel/malloc/malloc.cpp): a fixed array of tables     *)
(* that describe chunks of memory, and a pointer NextFreeMalloc above      *)
(* which nothing has been handed out yet.                                  *)
(*                                                                         *)
(* Malloc and Free run under MallocSpinLock from their first to their last *)
(* access to the tables, so each is one step here (module SpinLock is the  *)
(* argument that the lock does that), with one exception the code makes:   *)
(* Malloc gives the lock back and only then reads the address it returns   *)
(* from the table it chose, which is the separate step MallocReturn.       *)
(*                                                                         *)
(* Of a table's fields the model keeps the address, the size and the free  *)
(* bit.  InUse and StartingSize are never read on a path the code can      *)
(* take, flag bit 1 is never read and bits 2 and 3 are never set.          *)
(***************************************************************************)
EXTENDS Naturals, Sequences

CONSTANTS Client,           \* pieces of the kernel that hold memory
          MaxNumberTables,  \* entries of the table array
          MallocStart,      \* the first address after the table array
          AddressLimit,     \* a bound on addresses (2^32 in the kernel)
          Sizes,            \* sizes that callers ask for
          ForeignAddrs,     \* addresses below the heap that callers free
          EntrySize,        \* sizeof(struct MallocOverWrite)
          MemoryMaps,       \* memory maps the firmware may report
          MinBytesRam       \* the memory the kernel insists on

(* An entry of the firmware's memory map; usable: Type 1 or 3.             *)
MapEntries == [MemoryAddress : 1..AddressLimit, NumberBytes : 1..AddressLimit,
               usable : BOOLEAN]

ASSUME ConstantsAssumption ==
  /\ MaxNumberTables \in Nat \ {0}
  /\ MallocStart \in Nat \ {0}
  /\ AddressLimit \in Nat
  /\ MallocStart <= AddressLimit
  /\ Sizes \subseteq Nat
  /\ ForeignAddrs \subseteq 0..(MallocStart - 1)
  /\ EntrySize \in Nat \ {0}
  /\ MinBytesRam \in Nat \ {0}
  /\ Client \cap {"even", "odd"} = {}

ASSUME MemoryMapsAssumption ==
  \A m \in MemoryMaps :
    /\ m \in Seq(MapEntries)
    /\ \A k \in DOMAIN m : m[k].MemoryAddress + m[k].NumberBytes < AddressLimit

VARIABLES MallocTables,     \* the table array
          NextFreeMalloc,   \* the first address never handed out
          NumberBytesRam,   \* the end of usable memory, 0 while unknown
          MallocOverWrites, \* the blocked areas found so far
          map,              \* the entries of the memory map still to read
          chunk,            \* chunk[h]: what h holds, or has asked for
          returning,        \* returning[h]: the table Malloc chose for h
          hung              \* out of memory: the lock is never given back

tableVars == <<MallocTables, NextFreeMalloc>>
bootVars  == <<NumberBytesRam, MallocOverWrites, map>>
vars == <<tableVars, bootVars, chunk, returning, hung>>

Table == 1..MaxNumberTables
NoTable == 0

(* The array MallocOverWrites lives in the heap too: AddOverwrite moves it *)
(* between two chunks, named here for the parity of its length.            *)
Lists == {"even", "odd"}
Holder == Client \cup Lists

Tables == [addr : Nat, size : Nat, free : BOOLEAN]
EmptyTable == [addr |-> 0, size |-> 0, free |-> FALSE]

Chunk == [addr : Nat, size : Nat]
NoChunk == [addr |-> 0, size |-> 0]

TypeOK == /\ MallocTables \in [Table -> Tables]
          /\ NextFreeMalloc \in Nat
          /\ NumberBytesRam \in Nat
          /\ MallocOverWrites \in Seq(MapEntries)
          /\ map \in Seq(MapEntries)
          /\ chunk \in [Holder -> Chunk]
          /\ returning \in [Holder -> Table \cup {NoTable}]
          /\ hung \in BOOLEAN

(* MallocInit up to the reading of the memory map.                         *)
Init == /\ MallocTables = [i \in Table |-> EmptyTable]
        /\ NextFreeMalloc = MallocStart
        /\ NumberBytesRam = 0
        /\ MallocOverWrites = <<>>
        /\ map \in MemoryMaps
        /\ chunk = [h \in Holder |-> NoChunk]
        /\ returning = [h \in Holder |-> NoTable]
        /\ hung = FALSE
-----------------------------------------------------------------------------
(***************************************************************************)
(* The searches of the table array all return the first match.             *)
(***************************************************************************)
IsFirst(i, S) == i \in S /\ \A j \in S : i <= j

EmptyTables == {i \in Table : MallocTables[i].addr = 0}

TablesOfSize(n) == {i \in Table : MallocTables[i].size >= n /\ MallocTables[i].free}

TablesOfAddr(a) == {i \in Table : MallocTables[i].addr = a}

(* Faulty variant: the neighbour need not be free. *)
Closeist_AnyFlag(T, i) ==
  {j \in Table : IF T[i].addr > T[j].addr
                   THEN T[j].addr + T[j].size = T[i].addr
                   ELSE T[i].addr + T[i].size = T[j].addr}

(* The free tables next to table i (i itself when it describes 0 bytes).   *)
Closeist(T, i) ==
  {j \in Table : /\ T[j].free
                 /\ IF T[i].addr > T[j].addr
                      THEN T[j].addr + T[j].size = T[i].addr
                      ELSE T[i].addr + T[i].size = T[j].addr}

Blocked(x) == \E k \in DOMAIN MallocOverWrites :
                /\ MallocOverWrites[k].MemoryAddress <= x
                /\ x <= MallocOverWrites[k].MemoryAddress + MallocOverWrites[k].NumberBytes

(* Faulty variant: one address too many is stepped over. *)
CheckIfOverlap_SkipOne(x) ==
  IsFirst(x, {y \in NextFreeMalloc..AddressLimit :
                ~Blocked(y) /\ (y > NextFreeMalloc => ~Blocked(y - 1))})

(* Where CheckIfOverlap leaves NextFreeMalloc: it steps over a blocked     *)
(* area and starts again until none contains the pointer.                  *)
CheckIfOverlap(x) == IsFirst(x, {y \in NextFreeMalloc..AddressLimit : ~Blocked(y)})
-----------------------------------------------------------------------------
(***************************************************************************)
(* Malloc(n) for h, by the table it ends up using.                         *)
(***************************************************************************)
Ask(h, n, i) == /\ chunk' = [chunk EXCEPT ![h].size = n]
                /\ returning' = [returning EXCEPT ![h] = i]

CanAsk(h) == ~hung /\ chunk[h] = NoChunk /\ returning[h] = NoTable

(* The end of the memory.  (A sum that passes 2^32 is beyond it as well:   *)
(* the code tests for the wrap.)                                           *)
TooHigh(x) == x >= NumberBytesRam /\ NumberBytesRam # 0

(* No free chunk is big enough: new memory from NextFreeMalloc on.         *)
MallocNew(h, n) ==
  /\ TablesOfSize(n) = {}
  /\ \E i \in Table, x \in NextFreeMalloc..AddressLimit :
       /\ IsFirst(i, EmptyTables)
       /\ CheckIfOverlap(x)
       /\ ~TooHigh(x + n)
       /\ MallocTables' = [MallocTables EXCEPT ![i].addr = x, ![i].size = n]
       /\ NextFreeMalloc' = x + n
       /\ Ask(h, n, i)
  /\ UNCHANGED hung

(* The same at the end of memory: "Out Of Memory Error", while(1), with    *)
(* the table's address set, its size not, and the lock held for ever.      *)
MallocOutOfMemory(h, n) ==
  /\ TablesOfSize(n) = {}
  /\ \E i \in Table, x \in NextFreeMalloc..AddressLimit :
       /\ IsFirst(i, EmptyTables)
       /\ CheckIfOverlap(x)
       /\ TooHigh(x + n)
       /\ MallocTables' = [MallocTables EXCEPT ![i].addr = x]
       /\ NextFreeMalloc' = x + n
  /\ hung' = TRUE
  /\ UNCHANGED <<chunk, returning>>

(* The first free chunk is too big: its tail becomes a free chunk of its   *)
(* own, in the first empty table.                                          *)
MallocSplit(h, n) ==
  /\ \E i, k \in Table :
       /\ IsFirst(i, TablesOfSize(n))
       /\ MallocTables[i].size # n
       /\ IsFirst(k, EmptyTables)
       /\ MallocTables' = [MallocTables EXCEPT
            ![k] = [addr |-> MallocTables[i].addr + n,
                    size |-> MallocTables[i].size - n, free |-> TRUE],
            ![i].size = n, ![i].free = FALSE]
       /\ Ask(h, n, i)
  /\ UNCHANGED <<NextFreeMalloc, hung>>

(* Faulty variant: the free bit stays set. *)
MallocReuse_StillFree(h, n) ==
  /\ \E i \in Table :
       /\ IsFirst(i, TablesOfSize(n))
       /\ MallocTables[i].size = n
       /\ Ask(h, n, i)
  /\ UNCHANGED <<tableVars, hung>>

(* The first free chunk fits exactly.                                      *)
MallocReuse(h, n) ==
  /\ \E i \in Table :
       /\ IsFirst(i, TablesOfSize(n))
       /\ MallocTables[i].size = n
       /\ MallocTables' = [MallocTables EXCEPT ![i].free = FALSE]
       /\ Ask(h, n, i)
  /\ UNCHANGED <<NextFreeMalloc, hung>>

(* No empty table where one is needed: Malloc returns 0.                   *)
MallocTablesFull(h, n) ==
  /\ EmptyTables = {}
  /\ \A i \in Table : IsFirst(i, TablesOfSize(n)) => MallocTables[i].size # n
  /\ UNCHANGED <<tableVars, chunk, returning, hung>>

Malloc(h, n) == /\ CanAsk(h)
                /\ \/ MallocNew(h, n)
                   \/ MallocOutOfMemory(h, n)
                   \/ MallocSplit(h, n)
                   \/ MallocReuse(h, n)
                   \/ MallocTablesFull(h, n)

(* After the unlock: return TableUsing->MemoryAddr (0 is a failure).       *)
MallocReturn(h) ==
  /\ returning[h] # NoTable
  /\ LET a == MallocTables[returning[h]].addr
     IN  chunk' = [chunk EXCEPT ![h] = IF a = 0 THEN NoChunk ELSE [@ EXCEPT !.addr = a]]
  /\ returning' = [returning EXCEPT ![h] = NoTable]
  /\ UNCHANGED <<tableVars, hung>>
-----------------------------------------------------------------------------
(* Free joins chunk i and its free neighbour j in the lower one's table.   *)
Merge(T, i, j) ==
  LET low  == IF T[i].addr < T[j].addr THEN i ELSE j
      high == IF T[i].addr < T[j].addr THEN j ELSE i
  IN  [T EXCEPT ![low].size = @ + T[high].size, ![high] = EmptyTable]

(* Free(a): nothing happens unless a is the address of a chunk in use.     *)
FreeUnknown(a) == /\ \A i \in Table : IsFirst(i, TablesOfAddr(a)) => MallocTables[i].free
                  /\ UNCHANGED MallocTables

FreeKnown(a) ==
  \E i \in Table :
    /\ IsFirst(i, TablesOfAddr(a))
    /\ ~MallocTables[i].free
    /\ LET T == [MallocTables EXCEPT ![i].free = TRUE]
       IN  \/ Closeist(T, i) = {} /\ MallocTables' = T
           \/ \E j \in Table : IsFirst(j, Closeist(T, i)) /\ MallocTables' = Merge(T, i, j)

Free(a) == (FreeUnknown(a) \/ FreeKnown(a)) /\ UNCHANGED <<NextFreeMalloc, hung>>

(* h gives back what it holds.                                             *)
FreeHeld(h) == /\ ~hung /\ chunk[h].addr # 0
               /\ Free(chunk[h].addr)
               /\ chunk' = [chunk EXCEPT ![h] = NoChunk]
               /\ UNCHANGED returning

(* Free of an address the heap never gave: InitThread frees 0, Exit frees  *)
(* the address of a built-in program.                                      *)
FreeForeign(a) == /\ ~hung
                  /\ Free(a)
                  /\ UNCHANGED <<chunk, returning>>
-----------------------------------------------------------------------------
(***************************************************************************)
(* MallocInit reads the memory map, one entry at a time, before anything   *)
(* else uses the heap.                                                     *)
(***************************************************************************)
Booting == map # <<>>

SpareList == IF Len(MallocOverWrites) % 2 = 0 THEN "even" ELSE "odd"
OldList   == IF Len(MallocOverWrites) % 2 = 0 THEN "odd" ELSE "even"

(* A usable area: memory ends where the highest of them ends.              *)
UsableArea ==
  /\ Booting /\ Head(map).usable
  /\ LET end == Head(map).MemoryAddress + Head(map).NumberBytes
     IN  NumberBytesRam' = IF NumberBytesRam < end THEN end ELSE NumberBytesRam
  /\ map' = Tail(map)
  /\ UNCHANGED <<tableVars, MallocOverWrites, chunk, returning, hung>>

(* AddOverwrite, first half: a bigger array from the heap.                 *)
GrowOverWrites ==
  /\ Booting /\ ~Head(map).usable
  /\ \/ Malloc(SpareList, EntrySize * (Len(MallocOverWrites) + 1))
     \/ MallocReturn(SpareList)
  /\ UNCHANGED bootVars

(* AddOverwrite, second half: the old array is copied, extended and freed. *)
AddOverwrite ==
  /\ ~hung
  /\ Booting /\ ~Head(map).usable
  /\ chunk[SpareList].addr # 0
  /\ MallocOverWrites' = Append(MallocOverWrites, Head(map))
  /\ map' = Tail(map)
  /\ Free(chunk[OldList].addr)
  /\ chunk' = [chunk EXCEPT ![OldList] = NoChunk]
  /\ UNCHANGED <<NumberBytesRam, returning>>

(* "you do not have enough memory to run jenny os": the kernel stops.      *)
EnoughMemory == NumberBytesRam >= MinBytesRam

Running == ~Booting /\ EnoughMemory

Next == \/ UsableArea \/ GrowOverWrites \/ AddOverwrite
        \/ /\ Running
           /\ \/ \E h \in Client : \/ \E n \in Sizes : Malloc(h, n)
                                   \/ MallocReturn(h)
                                   \/ FreeHeld(h)
              \/ \E a \in ForeignAddrs : FreeForeign(a)
           /\ UNCHANGED bootVars

Spec == Init /\ [][Next]_vars
-----------------------------------------------------------------------------
Live(h) == chunk[h].addr # 0

Apart(c, d) == c.addr + c.size <= d.addr \/ d.addr + d.size <= c.addr

(* No byte belongs to two callers: what the self test of MallocInit looks  *)
(* for ("Malloc OverLap Error"), of any two pieces at any time.            *)
LiveChunksDisjoint ==
  \A g, h \in Holder : g # h /\ Live(g) /\ Live(h) => Apart(chunk[g], chunk[h])

(* Every address the heap has grown past is described by some table or     *)
(* was stepped over as blocked: splitting, joining and freeing lose none.  *)
NoMemoryLost ==
  ~hung => \A x \in MallocStart..(NextFreeMalloc - 1) :
             \/ Blocked(x)
             \/ \E i \in Table : /\ MallocTables[i].addr <= x
                                 /\ x < MallocTables[i].addr + MallocTables[i].size

(* Every table that is not free belongs to one caller, which holds it or   *)
(* is about to be handed it: nothing stays reserved after it was freed.    *)
UsedTablesOwned ==
  ~hung => \A i \in Table :
             MallocTables[i].addr # 0 /\ ~MallocTables[i].free
               => \E h \in Holder : \/ returning[h] = i
                                    \/ chunk[h].addr = MallocTables[i].addr

(* Each address and each table is accounted for, the free and the used.    *)
MemoryAccounted == NoMemoryLost /\ UsedTablesOwned

-----------------------------------------------------------------------------
(***************************************************************************)
(* The inductive invariant behind LiveChunksDisjoint, when nobody asks for *)
(* 0 bytes.  A table with a size describes memory.                         *)
(***************************************************************************)
InUse(i) == MallocTables[i].size # 0

TablesApart == \A i, j \in Table :
  i # j /\ InUse(i) /\ InUse(j) => Apart(MallocTables[i], MallocTables[j])

TablesInside ==
  /\ MallocStart <= NextFreeMalloc
  /\ \A i \in Table : InUse(i) =>
       /\ MallocStart <= MallocTables[i].addr
       /\ MallocTables[i].addr + MallocTables[i].size <= NextFreeMalloc

UnusedTablesEmpty ==
  ~hung => \A i \in Table : ~InUse(i) => MallocTables[i] = EmptyTable

(* The table of what h holds or is about to be handed.                     *)
TableOf(i, h) == /\ MallocTables[i].size = chunk[h].size
                 /\ ~MallocTables[i].free
                 /\ \/ returning[h] = i
                    \/ /\ returning[h] = NoTable
                       /\ MallocTables[i].addr = chunk[h].addr

HoldersHaveTables ==
  \A h \in Holder :
    /\ chunk[h].size # 0 => \E i \in Table : InUse(i) /\ TableOf(i, h)
    /\ chunk[h].size = 0 => chunk[h].addr = 0 /\ returning[h] = NoTable
    /\ returning[h] # NoTable => chunk[h].addr = 0

TablesHaveOneHolder ==
  \A g, h \in Holder, i \in Table :
    g # h /\ InUse(i) /\ TableOf(i, g) /\ chunk[g].size # 0 => ~TableOf(i, h)

(* Only the next array of blocked areas is ever being asked for.           *)
OldListIdle == returning[OldList] = NoTable

HeapInv == /\ TablesApart /\ TablesInside /\ UnusedTablesEmpty
           /\ HoldersHaveTables /\ TablesHaveOneHolder /\ OldListIdle
-----------------------------------------------------------------------------
(* The heap implements Allocator; a piece is held once Malloc returned it. *)
held == [h \in Holder |-> IF Live(h) THEN chunk[h] ELSE NoChunk]

Abstract == INSTANCE Allocator WITH Holder <- Holder, held <- held

Refinement == Abstract!Spec
=============================================================================
