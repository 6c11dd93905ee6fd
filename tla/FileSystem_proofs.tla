------------------------- MODULE FileSystem_proofs -------------------------
(***************************************************************************)
(* Proofs about FileSystem: whatever images, names and contents there are, *)
(* however often files are written and removed and the power fails, the    *)
(* chain of tables stays whole and every file is found and read back, as   *)
(* long as the end of the disk was really free.                            *)
(***************************************************************************)
EXTENDS FileSystem, FiniteSetTheorems, SequenceTheorems, WellFoundedInduction, TLAPS

(***************************************************************************)
(* What is true of the disk whatever has been written over.                *)
(***************************************************************************)
NextFreeLBA == disk[LbaOffset].NextFreeLBA

SectorsGood ==
  /\ disk[LbaOffset].kind = "header" /\ NextFreeLBA >= 1
  /\ \A a \in LBA : disk[a].kind = "table" /\ disk[a].table.NumberSectors > 0
                      => disk[a].table.lba >= 1

(* The kernel's header is ahead of the disk's while a new table is made.   *)
HeaderGood ==
  /\ pc \in {"idle", "halted", "shrink"} => FileSystemHeader = NextFreeLBA
  /\ pc \notin {"idle", "halted", "shrink"} => FileSystemHeader > NextFreeLBA
  /\ pc \notin {"idle", "halted"} => FileSystemHeader < DiskSize
  /\ pc = "shrink" => FileSystemHeader + 1 < DiskSize

(* What WriteFile has found out when it goes on.                           *)
JobGood ==
  /\ pc \in {"homeData", "homeIndex"} => ~job.reuse
  /\ pc \in {"shrink", "reuseIndex", "reuseData"} => job.reuse
  /\ pc \in {"homeData", "homeIndex", "link"} /\ ~job.reuse =>
       /\ job.lba > LbaOffset
       /\ job.lba + Len(job.contents) = LbaOffset + FileSystemHeader
  /\ pc \in {"shrink", "reuseIndex", "link", "reuseData"} /\ job.reuse => job.lba >= 1
  /\ pc = "shrink" =>
       /\ IsTable(disk, job.old) /\ disk[job.old].table.freed
       /\ disk[job.old].table.NumberSectors > Len(job.contents)
       /\ disk[job.old].table.lba = job.lba

DiskInv == TypeOK /\ SectorsGood /\ HeaderGood /\ JobGood

(***************************************************************************)
(* What is true while no sector in use has been written over: w is the     *)
(* chain of tables, r[i] says which version of its path the i-th one is.   *)
(***************************************************************************)
IsWalk(d, w) ==
  /\ w \in Seq(LBA) /\ w # <<>> /\ w[1] = LbaOffset + 1
  /\ \A i \in DOMAIN w : d[w[i]].kind = "table"
  /\ \A i \in DOMAIN w :
       d[w[i]].table.NextLBA = IF i = Len(w) THEN 0 ELSE w[i + 1] - LbaOffset - 1
  /\ \A i, j \in DOMAIN w : w[i] = w[j] => i = j

(* A walk will be short enough.                                            *)
HasRoom(w) ==
  LET pending == IF pc \in {"homeData", "homeIndex", "shrink", "reuseIndex", "link"}
                   THEN 1 ELSE 0
  IN  Len(w) + pending + MaxWrites - writes <= MaxTables

FreedErased(d, w) == \A i \in DOMAIN w : d[w[i]].table.freed => d[w[i]].table.path \notin Paths

(* A table's own sectors.  A file with a new home names others: its table  *)
(* counts from the header twice.                                           *)
Owns(t, x) == /\ LbaOffset + t.lba <= x /\ x < LbaOffset + t.lba + t.NumberSectors
              /\ x < 2 * LbaOffset

(* They are below what the disk's header calls free, nobody else's, and no *)
(* tables.                                                                 *)
Apart(d, w) ==
  \A i \in DOMAIN w, x \in Nat : Owns(d[w[i]].table, x) =>
    /\ x < LbaOffset + d[LbaOffset].NextFreeLBA
    /\ \A j \in DOMAIN w : w[j] # x /\ (Owns(d[w[j]].table, x) => i = j)

(* The free table that gives sectors away is one of the chain.             *)
OldKnown(w) == pc = "shrink" => \E i \in DOMAIN w : w[i] = job.old

(* The sectors cut out of it for a new file are nobody's ...               *)
CutOut(w) ==
  pc \in {"reuseIndex", "link"} => \A x \in Nat : Owns(NewIndex(job.lba, 0), x) =>
    /\ x < LbaOffset + NextFreeLBA
    /\ \A j \in DOMAIN w : w[j] # x /\ ~Owns(disk[w[j]].table, x)

(* ... whose table is on the disk before it is linked to.                  *)
NewTableAt == LbaOffset + 1 + NewLink

NewTableMade(w) ==
  pc = "link" => /\ NewTableAt \in LBA /\ disk[NewTableAt] = Table(NewIndex(job.lba, 0))
                 /\ \A i \in DOMAIN w : w[i] # NewTableAt

IsFile(d, w, i, p) == ~d[w[i]].table.folder /\ d[w[i]].table.path = p

Holds(d, t, v) ==
  v.known => /\ t.NumberSectors = Len(v.contents)
             /\ t.sum = Checksum(v.contents)
             /\ \A k \in DOMAIN v.contents :
                  /\ LbaOffset + t.lba + k - 1 \in LBA
                  /\ d[LbaOffset + t.lba + k - 1] = Data(v.contents[k])

(* The files of a path are its versions, in the order of the chain.        *)
Filed(d, vs, w, r) ==
  /\ r \in [DOMAIN w -> Nat]
  /\ \A p \in Paths, i \in DOMAIN w : IsFile(d, w, i, p) =>
       r[i] \in 1..Len(vs[p]) /\ Holds(d, d[w[i]].table, vs[p][r[i]])
  /\ \A p \in Paths : \A k \in 1..Len(vs[p]) :
       \E i \in DOMAIN w : IsFile(d, w, i, p) /\ r[i] = k
  /\ \A p \in Paths, i, j \in DOMAIN w :
       IsFile(d, w, i, p) /\ IsFile(d, w, j, p) /\ i < j => r[i] < r[j]

(* While its sectors are written the new file is the last of the chain.    *)
NewFileLast(w, r) ==
  pc = "reuseData" => /\ w[Len(w)] = NewTableAt
                      /\ disk[NewTableAt] = Table(NewIndex(job.lba, 0))
                      /\ r[Len(w)] = Len(versions[job.path])

ChainInv(w, r) ==
  /\ IsWalk(disk, w) /\ HasRoom(w) /\ FreedErased(disk, w) /\ Apart(disk, w)
  /\ OldKnown(w) /\ CutOut(w) /\ NewTableMade(w) /\ NewFileLast(w, r)
  /\ Filed(disk, versions, w, r)

ChainKept == ~overwritten => \E w, r : ChainInv(w, r)

FileSystemInv == DiskInv /\ ChainKept

-----------------------------------------------------------------------------
(***************************************************************************)
(* Recursive functions.                                                    *)
(***************************************************************************)
(* The least of a set of natural numbers that is not empty.                *)
LEMMA Least ==
  ASSUME NEW T, T \subseteq Nat, T # {}
  PROVE  \E x \in T : \A y \in T : x <= y
<1> DEFINE R == OpToRel(<, Nat)
<1>1. IsWellFoundedOn(R, Nat)
  BY NatLessThanWellFounded, Zenon
<1>2. \A x, y \in Nat : x < y => <<x, y>> \in R
  BY DEF OpToRel
<1> HIDE DEF R
<1>3. PICK x \in T : \A y \in T : ~ (<<y, x>> \in R)
  BY <1>1, WFMin
<1>4. ASSUME NEW y \in T PROVE x <= y
  <2>1. x \in Nat /\ y \in Nat
    OBVIOUS
  <2>2. ~(y < x)
    BY <1>2, <1>3, <2>1
  <2> QED BY <2>1, <2>2
<1> QED BY <1>4

(* Induction, over a set: what holds of 0 and goes on holds of all.        *)
LEMMA SetInduction ==
  ASSUME NEW S, 0 \in S, \A n \in Nat : n \in S => n + 1 \in S
  PROVE  Nat \subseteq S
<1> DEFINE T == Nat \ S
<1> SUFFICES ASSUME T # {} PROVE FALSE
  OBVIOUS
<1>1. PICK x \in T : \A y \in T : x <= y
  BY Least
<1>2. x # 0 /\ x \in Nat
  OBVIOUS
<1>3. x - 1 \in Nat /\ x - 1 \notin T
  BY <1>1, <1>2
<1>4. (x - 1) + 1 \in S
  BY <1>3
<1> QED BY <1>2, <1>4

(* What is defined step by step from 0 is a function.                      *)
Steps(f, m, V, z, step) ==
  f \in [0..m -> V] /\ f[0] = z /\ \A k \in 1..m : f[k] = step[<<k, f[k - 1]>>]

LEMMA RecursionExists ==
  ASSUME NEW V, NEW z \in V, NEW step \in [Nat \X V -> V]
  PROVE  \A m \in Nat : \E f : Steps(f, m, V, z, step)
<1> DEFINE S == {m \in Nat : \E f : Steps(f, m, V, z, step)}
<1>1. 0 \in S
  <2>1. Steps([k \in 0..0 |-> z], 0, V, z, step)
    BY DEF Steps
  <2> QED BY <2>1
<1>2. ASSUME NEW m \in Nat, m \in S PROVE m + 1 \in S
  <2>1. PICK f : Steps(f, m, V, z, step)
    BY <1>2
  <2> DEFINE next == [k \in 0..(m + 1) |-> IF k = m + 1 THEN step[<<m + 1, f[m]>>] ELSE f[k]]
  <2>2. f[m] \in V /\ step[<<m + 1, f[m]>>] \in V
    BY <2>1 DEF Steps
  <2>3. \A k \in 0..m : next[k] = f[k] /\ f[k] \in V
    BY <2>1 DEF Steps
  <2>4. next[m + 1] = step[<<m + 1, next[m]>>]
    <3>1. next[m] = f[m] /\ m + 1 \in 0..(m + 1)
      BY <2>3
    <3> QED BY <3>1
  <2>5. next \in [0..(m + 1) -> V]
    <3>1. \A k \in 0..(m + 1) : k = m + 1 \/ k \in 0..m
      OBVIOUS
    <3>2. ASSUME NEW k \in 0..(m + 1) PROVE next[k] \in V
      BY <2>2, <2>3, <3>1
    <3> QED BY <3>2
  <2>6. next[0] = z
    BY <2>1, <2>3 DEF Steps
  <2>7. ASSUME NEW k \in 1..(m + 1) PROVE next[k] = step[<<k, next[k - 1]>>]
    <3> HIDE DEF next
    <3>1. CASE k = m + 1
      BY <2>4, <3>1
    <3>2. CASE k # m + 1
      <4>1. k \in 1..m /\ k \in 0..m /\ k - 1 \in 0..m
        BY <3>2
      <4> QED BY <2>1, <2>3, <4>1 DEF Steps
    <3> QED BY <3>1, <3>2
  <2>8. Steps(next, m + 1, V, z, step)
    <3> HIDE DEF next
    <3> QED BY <2>5, <2>6, <2>7 DEF Steps
  <2> QED BY <2>8
<1> HIDE DEF S
<1>3. Nat \subseteq S
  BY <1>1, <1>2, SetInduction
<1> QED BY <1>3 DEF S

(* Two functions that go on in the same way are one.                       *)
GoOnAlike(f, g, m) ==
  /\ f = [k \in 0..m |-> f[k]] /\ g = [k \in 0..m |-> g[k]]
  /\ f[0] = g[0]
  /\ \A k \in 1..m : f[k - 1] = g[k - 1] => f[k] = g[k]

LEMMA RecursionUnique ==
  ASSUME NEW m \in Nat, NEW f, NEW g, GoOnAlike(f, g, m)
  PROVE  f = g
<1> DEFINE S == {n \in Nat : n <= m => f[n] = g[n]}
<1>1. 0 \in S
  BY DEF GoOnAlike
<1>2. ASSUME NEW n \in Nat, n \in S PROVE n + 1 \in S
  <2> SUFFICES ASSUME n + 1 <= m PROVE f[n + 1] = g[n + 1]
    OBVIOUS
  <2>1. n + 1 \in 1..m /\ (n + 1) - 1 = n /\ n <= m
    OBVIOUS
  <2> QED BY <1>2, <2>1 DEF GoOnAlike
<1> HIDE DEF S
<1>3. Nat \subseteq S
  BY <1>1, <1>2, SetInduction
<1>4. ASSUME NEW n \in 0..m PROVE f[n] = g[n]
  <2>1. n \in Nat /\ n <= m
    OBVIOUS
  <2> QED BY <1>3, <2>1 DEF S
<1>5. f = [k \in 0..m |-> f[k]] /\ g = [k \in 0..m |-> g[k]]
  BY DEF GoOnAlike
<1>6. [k \in 0..m |-> f[k]] = [k \in 0..m |-> g[k]]
  BY <1>4
<1> QED BY <1>5, <1>6

(* The sum of a file's bytes.                                              *)
IsSum(f, s) == f = [i \in 0..Len(s) |-> IF i = 0 THEN 0 ELSE f[i - 1] + s[i]]

LEMMA ChecksumType ==
  ASSUME NEW s \in Seq(Nat)
  PROVE  Checksum(s) \in Nat
<1> DEFINE m == Len(s)
           step == [x \in Nat \X Nat |-> IF x[1] \in 1..m THEN x[2] + s[x[1]] ELSE 0]
           sum == CHOOSE g : IsSum(g, s)
<1>1. m \in Nat /\ \A i \in 1..m : s[i] \in Nat
  OBVIOUS
<1>2. step \in [Nat \X Nat -> Nat]
  BY <1>1
<1>3. \A k \in 1..m, v \in Nat : step[<<k, v>>] = v + s[k]
  BY <1>1
<1>4. PICK f : Steps(f, m, Nat, 0, step)
  <2> HIDE DEF step, m
  <2> QED BY <1>1, <1>2, RecursionExists
<1>5. \A k \in 1..m : f[k] = f[k - 1] + s[k]
  <2> HIDE DEF step
  <2>1. \A k \in 1..m : f[k - 1] \in Nat
    <3>1. \A k \in 1..m : k - 1 \in 0..m
      BY <1>1
    <3>2. f \in [0..m -> Nat]
      BY <1>4 DEF Steps
    <3> QED BY <3>1, <3>2
  <2> QED BY <1>3, <1>4, <2>1 DEF Steps
<1>6. IsSum(f, s)
  <2>1. \A i \in 0..m : i = 0 \/ i \in 1..m
    BY <1>1
  <2>2. \A i \in 0..m : f[i] = IF i = 0 THEN 0 ELSE f[i - 1] + s[i]
    BY <1>4, <1>5, <2>1 DEF Steps
  <2>3. f = [i \in 0..m |-> f[i]]
    BY <1>4 DEF Steps
  <2> QED BY <2>2, <2>3 DEF IsSum
<1>7. IsSum(sum, s)
  BY <1>6
<1>8. Checksum(s) = sum[m]
  BY DEF Checksum, IsSum
<1> HIDE DEF step, sum, m
<1>9. sum[m] = f[m]
  <2>1. \A i \in 0..m : sum[i] = IF i = 0 THEN 0 ELSE sum[i - 1] + s[i]
    BY <1>7 DEF IsSum, m
  <2>2. sum = [i \in 0..m |-> sum[i]]
    BY <1>7 DEF IsSum, m
  <2>3. \A k \in 1..m : sum[k - 1] = f[k - 1] => sum[k] = f[k]
    BY <1>1, <1>5, <2>1
  <2>4. sum[0] = f[0]
    BY <1>1, <1>4, <2>1 DEF Steps
  <2>5. f = [k \in 0..m |-> f[k]]
    BY <1>4 DEF Steps
  <2>6. GoOnAlike(sum, f, m)
    BY <2>2, <2>3, <2>4, <2>5 DEF GoOnAlike
  <2> QED BY <1>1, <2>6, RecursionUnique
<1> QED BY <1>1, <1>4, <1>8, <1>9 DEF Steps

(***************************************************************************)
(* The image.                                                              *)
(***************************************************************************)
LEMMA EntryType ==
  ASSUME NEW F, F \in Seq(Entries), NEW i \in DOMAIN F
  PROVE  /\ F[i].path \in Paths /\ F[i].folder \in BOOLEAN
         /\ F[i].contents \in Seq(Nat) /\ Len(F[i].contents) \in Nat
<1>1. F[i] \in Entries
  BY ElementOfSeq, LenProperties
<1>2. F[i].contents \in Seq(Nat)
  BY <1>1 DEF Entries
<1> QED BY <1>1, <1>2 DEF Entries

(* Where the files are.                                                    *)
IsOffset(f, F) ==
  f = [i \in 0..Len(F) |-> IF i = 0 THEN Len(F) + 1 ELSE f[i - 1] + Len(F[i].contents)]

LEMMA OffsetsType ==
  ASSUME NEW F, F \in Seq(Entries)
  PROVE  /\ CurrentLBAOffset(F) \in [0..Len(F) -> Nat]
         /\ CurrentLBAOffset(F)[0] = Len(F) + 1
         /\ \A i \in 1..Len(F) : CurrentLBAOffset(F)[i]
                                    = CurrentLBAOffset(F)[i - 1] + Len(F[i].contents)
<1> DEFINE m == Len(F)
           step == [x \in Nat \X Nat |-> IF x[1] \in 1..m THEN x[2] + Len(F[x[1]].contents) ELSE 0]
           offset == CHOOSE g : IsOffset(g, F)
<1>1. m \in Nat /\ m + 1 \in Nat /\ \A i \in 1..m : Len(F[i].contents) \in Nat
  BY EntryType
<1>2. step \in [Nat \X Nat -> Nat]
  BY <1>1
<1>3. \A k \in 1..m, v \in Nat : step[<<k, v>>] = v + Len(F[k].contents)
  BY <1>1
<1>4. PICK f : Steps(f, m, Nat, m + 1, step)
  <2> HIDE DEF step, m
  <2> QED BY <1>1, <1>2, RecursionExists
<1>5. f \in [0..m -> Nat] /\ f[0] = m + 1
  BY <1>4 DEF Steps
<1>6. \A k \in 1..m : f[k] = f[k - 1] + Len(F[k].contents)
  <2> HIDE DEF step, m
  <2>1. \A k \in 1..m : k - 1 \in 0..m
    BY <1>1
  <2>2. \A k \in 1..m : f[k - 1] \in Nat
    BY <1>5, <2>1
  <2> QED BY <1>3, <1>4, <2>2 DEF Steps
<1>7. IsOffset(f, F)
  <2>1. \A i \in 0..m : i = 0 \/ i \in 1..m
    BY <1>1
  <2>2. \A i \in 0..m : f[i] = IF i = 0 THEN m + 1 ELSE f[i - 1] + Len(F[i].contents)
    BY <1>5, <1>6, <2>1
  <2>3. f = [i \in 0..m |-> f[i]]
    BY <1>5
  <2> QED BY <2>2, <2>3 DEF IsOffset
<1>8. IsOffset(offset, F)
  BY <1>7
<1>9. CurrentLBAOffset(F) = offset
  BY DEF CurrentLBAOffset, IsOffset
<1> HIDE DEF step, offset, m
<1>10. offset = f
  <2>1. \A i \in 0..m : offset[i] = IF i = 0 THEN m + 1 ELSE offset[i - 1] + Len(F[i].contents)
    BY <1>8 DEF IsOffset, m
  <2>2. offset = [i \in 0..m |-> offset[i]]
    BY <1>8 DEF IsOffset, m
  <2>3. \A k \in 1..m : offset[k - 1] = f[k - 1] => offset[k] = f[k]
    BY <1>1, <1>6, <2>1
  <2>4. offset[0] = f[0]
    BY <1>1, <1>5, <2>1
  <2>5. f = [k \in 0..m |-> f[k]]
    BY <1>5
  <2>6. GoOnAlike(offset, f, m)
    BY <2>2, <2>3, <2>4, <2>5 DEF GoOnAlike
  <2> QED BY <1>1, <2>6, RecursionUnique
<1> QED BY <1>5, <1>6, <1>9, <1>10 DEF m

LEMMA OffsetsGrow ==
  ASSUME NEW F, F \in Seq(Entries), NEW i \in 0..Len(F), NEW j \in 0..Len(F), i <= j
  PROVE  CurrentLBAOffset(F)[i] <= CurrentLBAOffset(F)[j]
<1> DEFINE m == Len(F)
           offset == CurrentLBAOffset(F)
           S == {n \in Nat : i + n <= m => offset[i] <= offset[i + n]}
<1>1. m \in Nat
  OBVIOUS
<1>2. offset \in [0..m -> Nat]
  BY OffsetsType
<1>3. \A k \in 1..m : offset[k] = offset[k - 1] + Len(F[k].contents)
  BY OffsetsType
<1>4. \A k \in 1..m : Len(F[k].contents) \in Nat
  BY EntryType
<1> HIDE DEF offset, m
<1>5. 0 \in S
  <2>1. i \in 0..m /\ i + 0 = i
    BY <1>1 DEF m
  <2> QED BY <1>2, <2>1
<1>6. ASSUME NEW n \in Nat, n \in S PROVE n + 1 \in S
  <2> SUFFICES ASSUME i + (n + 1) <= m PROVE offset[i] <= offset[i + (n + 1)]
    OBVIOUS
  <2>1. i \in 0..m
    BY DEF m
  <2>2. /\ i + (n + 1) \in 1..m /\ i + (n + 1) \in 0..m /\ i + n \in 0..m
        /\ i + (n + 1) - 1 = i + n /\ i + n <= m
    BY <1>1, <2>1
  <2>3. offset[i] <= offset[i + n]
    BY <1>6, <2>2
  <2>4. offset[i + (n + 1)] = offset[i + n] + Len(F[i + (n + 1)].contents)
    BY <1>3, <2>2
  <2>5. offset[i] \in Nat /\ offset[i + n] \in Nat /\ Len(F[i + (n + 1)].contents) \in Nat
    BY <1>2, <1>4, <2>1, <2>2
  <2> QED BY <2>3, <2>4, <2>5
<1> HIDE DEF S
<1>7. Nat \subseteq S
  BY <1>5, <1>6, SetInduction
<1>8. j - i \in S /\ i + (j - i) = j /\ j <= m
  BY <1>1, <1>7 DEF m
<1> QED BY <1>8 DEF S, offset

(* What is under each path once the first entries are made.                *)
AllVersions == [Paths -> Seq(Versions)]

AddEntry(vs, e) == IF e.folder THEN vs
                   ELSE [vs EXCEPT ![e.path] = Append(@, Known(e.contents))]

IsMade(f, F) ==
  f = [i \in 0..Len(F) |->
        IF i = 0 THEN [p \in Paths |-> <<>>]
        ELSE IF F[i].folder THEN f[i - 1]
        ELSE [f[i - 1] EXCEPT ![F[i].path] = Append(@, Known(F[i].contents))]]

LEMMA AddEntryType ==
  ASSUME NEW vs \in AllVersions, NEW F, F \in Seq(Entries), NEW i \in DOMAIN F
  PROVE  AddEntry(vs, F[i]) \in AllVersions
<1>1. Known(F[i].contents) \in Versions
  BY EntryType DEF Known, Versions
<1>2. F[i].path \in Paths /\ vs[F[i].path] \in Seq(Versions)
  BY EntryType DEF AllVersions
<1>3. Append(vs[F[i].path], Known(F[i].contents)) \in Seq(Versions)
  BY <1>1, <1>2
<1> QED BY <1>3 DEF AllVersions, AddEntry

LEMMA VersionsMade ==
  ASSUME NEW F, F \in Seq(Entries)
  PROVE  \E f : /\ f \in [0..Len(F) -> AllVersions]
                /\ f[0] = [p \in Paths |-> <<>>]
                /\ \A i \in 1..Len(F) : f[i] = AddEntry(f[i - 1], F[i])
                /\ FirstVersions(F) = f[Len(F)]
<1> DEFINE m == Len(F)
           none == [p \in Paths |-> <<>>]
           step == [x \in Nat \X AllVersions |->
                     IF x[1] \in 1..m THEN AddEntry(x[2], F[x[1]]) ELSE none]
           made == CHOOSE g : IsMade(g, F)
<1>1. m \in Nat /\ none \in AllVersions
  BY DEF AllVersions
<1>2. \A k \in 1..m, v \in AllVersions : AddEntry(v, F[k]) \in AllVersions
  BY AddEntryType
<1>3. step \in [Nat \X AllVersions -> AllVersions]
  <2> HIDE DEF none, m
  <2> QED BY <1>1, <1>2
<1>4. \A k \in 1..m, v \in AllVersions : step[<<k, v>>] = AddEntry(v, F[k])
  <2> HIDE DEF none, m
  <2>1. \A k \in 1..m : k \in Nat
    BY <1>1
  <2> QED BY <2>1
<1>5. PICK f : Steps(f, m, AllVersions, none, step)
  <2> HIDE DEF step, m, none
  <2> QED BY <1>1, <1>3, RecursionExists
<1>6. f \in [0..m -> AllVersions] /\ f[0] = none
  <2> HIDE DEF step, m, none
  <2> QED BY <1>5 DEF Steps
<1>7. \A k \in 1..m : f[k] = AddEntry(f[k - 1], F[k])
  <2> HIDE DEF step, m, none
  <2>1. \A k \in 1..m : k - 1 \in 0..m
    BY <1>1
  <2>2. \A k \in 1..m : f[k - 1] \in AllVersions
    BY <1>6, <2>1
  <2> QED BY <1>4, <1>5, <2>2 DEF Steps
<1>8. IsMade(f, F)
  <2>1. \A i \in 0..m : i = 0 \/ i \in 1..m
    BY <1>1
  <2> HIDE DEF step, none
  <2>2. \A i \in 0..m :
          f[i] = IF i = 0 THEN none
                 ELSE IF F[i].folder THEN f[i - 1]
                 ELSE [f[i - 1] EXCEPT ![F[i].path] = Append(@, Known(F[i].contents))]
    BY <1>6, <1>7, <2>1 DEF AddEntry
  <2>3. f = [i \in 0..m |-> f[i]]
    BY <1>6
  <2> QED BY <2>2, <2>3 DEF IsMade, none
<1>9. IsMade(made, F)
  <2> HIDE DEF step, none, m
  <2> QED BY <1>8
<1>10. FirstVersions(F) = made[m]
  BY DEF FirstVersions, IsMade
<1> HIDE DEF step, made, m, none
<1>11. made = f
  <2>1. \A i \in 0..m :
          made[i] = IF i = 0 THEN none
                    ELSE IF F[i].folder THEN made[i - 1]
                    ELSE [made[i - 1] EXCEPT ![F[i].path] = Append(@, Known(F[i].contents))]
    BY <1>9 DEF IsMade, m, none
  <2>2. made = [i \in 0..m |-> made[i]]
    BY <1>9 DEF IsMade, m
  <2>3. \A k \in 1..m : made[k] = AddEntry(made[k - 1], F[k])
    <3>1. \A k \in 1..m : k \in 0..m /\ k # 0
      BY <1>1
    <3> QED BY <2>1, <3>1 DEF AddEntry
  <2>4. \A k \in 1..m : made[k - 1] = f[k - 1] => made[k] = f[k]
    BY <1>7, <2>3
  <2>5. made[0] = f[0]
    <3>1. 0 \in 0..m
      BY <1>1
    <3> QED BY <1>6, <2>1, <3>1
  <2>6. f = [k \in 0..m |-> f[k]]
    BY <1>6
  <2>7. GoOnAlike(made, f, m)
    BY <2>2, <2>4, <2>5, <2>6 DEF GoOnAlike
  <2> QED BY <1>1, <2>7, RecursionUnique
<1>12. /\ f \in [0..Len(F) -> AllVersions]
       /\ f[0] = [p \in Paths |-> <<>>]
       /\ \A i \in 1..Len(F) : f[i] = AddEntry(f[i - 1], F[i])
       /\ FirstVersions(F) = f[Len(F)]
  BY <1>6, <1>7, <1>10, <1>11 DEF m, none
<1> QED BY <1>12

-----------------------------------------------------------------------------
(***************************************************************************)
(* Walks along the chain of tables.                                        *)
(***************************************************************************)
LEMMA Numbers ==
  /\ LbaOffset \in Nat /\ DiskSize \in Nat /\ DiskSize > 0
  /\ MaxTables \in Nat /\ MaxTables > 0 /\ MaxWrites \in Nat /\ MaxFailures \in Nat
  /\ \A x : x \in LBA <=> x \in Nat /\ LbaOffset <= x /\ x < LbaOffset + DiskSize
BY ConstantsAssumption DEF LBA

LEMMA SectorType ==
  ASSUME NEW s \in Sectors
  PROVE  /\ s.kind = "table" => s = Table(s.table) /\ s.table \in FileIndex
         /\ s.kind = "header" => s = Header(s.NextFreeLBA) /\ s.NextFreeLBA \in Nat
         /\ s.kind = "data" => s = Data(s.sum) /\ s.sum \in Nat
BY DEF Sectors, Table, Header, Data

LEMMA TableType ==
  ASSUME NEW d \in [LBA -> Sectors], NEW a \in LBA, d[a].kind = "table"
  PROVE  /\ d[a] = Table(d[a].table) /\ d[a].table \in FileIndex
         /\ d[a].table.lba \in Nat /\ d[a].table.NumberSectors \in Nat
         /\ d[a].table.NextLBA \in Nat
<1>1. d[a] \in Sectors
  OBVIOUS
<1>2. d[a] = Table(d[a].table) /\ d[a].table \in FileIndex
  BY <1>1, SectorType
<1> QED BY <1>2 DEF FileIndex

(* The greatest of some numbers up to m.                                   *)
LEMMA Greatest ==
  ASSUME NEW m \in Nat, NEW T, T \subseteq 1..m, T # {}
  PROVE  \E x \in T : \A y \in T : y <= x
<1> DEFINE U == {n \in Nat : m - n \in T}
<1>1. U # {}
  <2>1. PICK y \in T : TRUE
    OBVIOUS
  <2>2. y \in 1..m
    OBVIOUS
  <2>3. m - y \in Nat /\ m - (m - y) = y
    BY <2>2
  <2> QED BY <2>1, <2>3
<1>2. PICK n \in U : \A k \in U : n <= k
  BY <1>1, Least
<1>3. n \in Nat /\ m - n \in T
  BY <1>2
<1>4. ASSUME NEW y \in T PROVE y <= m - n
  <2>1. y \in 1..m
    OBVIOUS
  <2>2. m - y \in Nat /\ m - (m - y) = y
    BY <2>1
  <2>3. m - y \in U
    BY <2>2
  <2>4. n <= m - y
    BY <1>2, <2>3
  <2> QED BY <1>3, <2>1, <2>4
<1> QED BY <1>3, <1>4

IsChain(c, d) ==
  c = [n \in 1..MaxTables |-> IF n = 1 THEN LbaOffset + 1 ELSE NextTable(d, c[n - 1])]

LEMMA ChainExists ==
  ASSUME NEW d \in [LBA -> Sectors]
  PROVE  IsChain(Chain(d), d)
<1> DEFINE step == [x \in Nat \X Nat |-> NextTable(d, x[2])]
<1>1. \A v \in Nat : NextTable(d, v) \in Nat
  <2> SUFFICES ASSUME NEW v \in Nat PROVE NextTable(d, v) \in Nat
    OBVIOUS
  <2>1. CASE IsTable(d, v)
    <3>1. v \in LBA /\ d[v].kind = "table"
      BY <2>1 DEF IsTable
    <3>2. d[v].table.NextLBA \in Nat
      BY <3>1, TableType
    <3> QED BY <3>2, Numbers DEF NextTable
  <2>2. CASE ~IsTable(d, v)
    BY <2>2 DEF NextTable
  <2> QED BY <2>1, <2>2
<1>2. step \in [Nat \X Nat -> Nat]
  BY <1>1
<1>3. \A k, v \in Nat : step[<<k, v>>] = NextTable(d, v)
  OBVIOUS
<1> HIDE DEF step
<1>4. MaxTables - 1 \in Nat /\ LbaOffset + 1 \in Nat
  BY Numbers
<1>5. PICK f : Steps(f, MaxTables - 1, Nat, LbaOffset + 1, step)
  BY <1>2, <1>4, RecursionExists
<1> DEFINE c == [n \in 1..MaxTables |-> f[n - 1]]
<1>6. ASSUME NEW n \in 1..MaxTables
      PROVE  c[n] = IF n = 1 THEN LbaOffset + 1 ELSE NextTable(d, c[n - 1])
  <2>1. CASE n = 1
    BY <2>1, <1>5, Numbers DEF Steps
  <2>2. CASE n # 1
    <3>1. /\ n - 1 \in 1..(MaxTables - 1) /\ n - 1 \in 1..MaxTables
          /\ n - 1 - 1 \in 0..(MaxTables - 1) /\ n - 1 \in Nat
      BY <2>2, Numbers
    <3>2. f[n - 1 - 1] \in Nat
      BY <1>5, <3>1 DEF Steps
    <3>3. f[n - 1] = NextTable(d, f[n - 1 - 1])
      BY <1>3, <1>5, <3>1, <3>2 DEF Steps
    <3>4. c[n] = f[n - 1] /\ c[n - 1] = f[n - 1 - 1]
      BY <3>1
    <3> HIDE DEF c
    <3> QED BY <2>2, <3>3, <3>4
  <2> QED BY <2>1, <2>2
<1>7. IsChain(c, d)
  <2> HIDE DEF IsTable
  <2>1. c = [n \in 1..MaxTables |-> c[n]]
    OBVIOUS
  <2> HIDE DEF c
  <2>2. c = [n \in 1..MaxTables |-> IF n = 1 THEN LbaOffset + 1 ELSE NextTable(d, c[n - 1])]
    BY <1>6, <2>1
  <2> QED BY <2>2 DEF IsChain
<1> HIDE DEF c
<1>8. IsChain(CHOOSE g : IsChain(g, d), d)
  BY <1>7
<1>9. Chain(d) = CHOOSE g : IsChain(g, d)
  BY DEF Chain, IsChain
<1> QED BY <1>8, <1>9

LEMMA ChainDomain ==
  ASSUME NEW d \in [LBA -> Sectors]
  PROVE  /\ DOMAIN Chain(d) = 1..MaxTables
         /\ Chain(d)[1] = LbaOffset + 1
         /\ \A n \in 1..MaxTables : n # 1 => Chain(d)[n] = NextTable(d, Chain(d)[n - 1])
<1> DEFINE c == Chain(d)
<1>1. c = [n \in 1..MaxTables |-> IF n = 1 THEN LbaOffset + 1 ELSE NextTable(d, c[n - 1])]
  BY ChainExists DEF IsChain
<1> HIDE DEF c
<1>2. 1 \in 1..MaxTables
  BY Numbers
<1>3. /\ DOMAIN c = 1..MaxTables /\ c[1] = LbaOffset + 1
      /\ \A n \in 1..MaxTables : n # 1 => c[n] = NextTable(d, c[n - 1])
  BY <1>1, <1>2
<1> QED BY <1>3 DEF c

(* The place in the chain a walk of n steps is at.                         *)
Stop(w, n) == IF n <= Len(w) THEN n ELSE Len(w)

LEMMA WalkPlaces ==
  ASSUME NEW d, NEW w, IsWalk(d, w)
  PROVE  /\ Len(w) \in Nat /\ Len(w) >= 1 /\ DOMAIN w = 1..Len(w)
         /\ 1 \in DOMAIN w /\ Len(w) \in DOMAIN w
         /\ \A i \in DOMAIN w : /\ w[i] \in LBA /\ w[i] \in Nat /\ (w[i] # LbaOffset + 1 \/ i = 1)
                                /\ IsTable(d, w[i])
                                /\ i # Len(w) => i + 1 \in DOMAIN w
<1>1. w \in Seq(LBA) /\ w # <<>>
  BY DEF IsWalk
<1>2. Len(w) \in Nat /\ Len(w) >= 1 /\ DOMAIN w = 1..Len(w)
  BY <1>1, EmptySeq, LenProperties
<1>3. 1 \in DOMAIN w /\ Len(w) \in DOMAIN w
  BY <1>2
<1>4. ASSUME NEW i \in DOMAIN w
      PROVE  /\ w[i] \in LBA /\ w[i] \in Nat /\ (w[i] # LbaOffset + 1 \/ i = 1)
             /\ IsTable(d, w[i])
             /\ i # Len(w) => i + 1 \in DOMAIN w
  <2>1. w[i] \in LBA
    BY <1>1, <1>2, ElementOfSeq
  <2>2. w[i] \in Nat
    BY <2>1, Numbers
  <2>3. w[i] # LbaOffset + 1 \/ i = 1
    BY <1>3 DEF IsWalk
  <2>4. IsTable(d, w[i])
    BY <2>1 DEF IsWalk, IsTable
  <2>5. i # Len(w) => i + 1 \in DOMAIN w
    BY <1>2
  <2> QED BY <2>1, <2>2, <2>3, <2>4, <2>5
<1> QED BY <1>2, <1>3, <1>4

LEMMA ChainIsWalk ==
  ASSUME NEW d \in [LBA -> Sectors], NEW w, IsWalk(d, w)
  PROVE  \A n \in 1..MaxTables : Stop(w, n) \in DOMAIN w /\ Chain(d)[n] = w[Stop(w, n)]
<1> DEFINE c == Chain(d)
           m == Len(w)
           S == {n \in Nat : n + 1 <= MaxTables => c[n + 1] = w[Stop(w, n + 1)]}
<1>1. m \in Nat /\ m >= 1 /\ DOMAIN w = 1..m
  BY WalkPlaces
<1>2. \A n \in Nat : n >= 1 => Stop(w, n) \in DOMAIN w
  BY <1>1 DEF Stop
<1>3. /\ c[1] = LbaOffset + 1
      /\ \A n \in 1..MaxTables : n # 1 => c[n] = NextTable(d, c[n - 1])
  BY ChainDomain
<1>4. \A i \in DOMAIN w : NextTable(d, w[i]) = IF i = m THEN w[m] ELSE w[i + 1]
  <2> SUFFICES ASSUME NEW i \in DOMAIN w
               PROVE  NextTable(d, w[i]) = IF i = m THEN w[m] ELSE w[i + 1]
    OBVIOUS
  <2>1. IsTable(d, w[i])
    BY WalkPlaces
  <2>2. d[w[i]].table.NextLBA = IF i = m THEN 0 ELSE w[i + 1] - LbaOffset - 1
    BY DEF IsWalk
  <2>3. CASE i = m
    BY <2>1, <2>2, <2>3 DEF NextTable
  <2>4. CASE i # m
    <3>1. i + 1 \in DOMAIN w /\ i + 1 # 1
      BY <1>1, <2>4
    <3>2. w[i + 1] \in Nat /\ w[i + 1] # LbaOffset + 1
      BY <3>1, WalkPlaces
    <3> QED BY <2>1, <2>2, <2>4, <3>2, Numbers DEF NextTable
  <2> QED BY <2>3, <2>4
<1> HIDE DEF c, m
<1>5. 0 \in S
  <2>1. Stop(w, 1) = 1
    BY <1>1 DEF Stop, m
  <2>2. w[1] = LbaOffset + 1
    BY DEF IsWalk
  <2> QED BY <1>3, <2>1, <2>2
<1>6. ASSUME NEW n \in Nat, n \in S PROVE n + 1 \in S
  <2> SUFFICES ASSUME n + 1 + 1 <= MaxTables PROVE c[n + 1 + 1] = w[Stop(w, n + 1 + 1)]
    OBVIOUS
  <2>1. /\ n + 1 + 1 \in 1..MaxTables /\ n + 1 + 1 # 1 /\ n + 1 + 1 - 1 = n + 1
        /\ n + 1 <= MaxTables /\ n + 1 \in Nat /\ n + 1 >= 1
    BY Numbers
  <2>2. c[n + 1] = w[Stop(w, n + 1)] /\ Stop(w, n + 1) \in DOMAIN w
    BY <1>2, <1>6, <2>1
  <2>3. c[n + 1 + 1] = NextTable(d, c[n + 1])
    BY <1>3, <2>1
  <2>4. c[n + 1 + 1] = IF Stop(w, n + 1) = m THEN w[m] ELSE w[Stop(w, n + 1) + 1]
    BY <1>4, <2>2, <2>3
  <2>5. Stop(w, n + 1 + 1) = IF Stop(w, n + 1) = m THEN m ELSE Stop(w, n + 1) + 1
    <3>1. m \in Nat /\ m >= 1 /\ n + 1 \in Nat
      BY <1>1, <2>1
    <3>2. \A k, l \in Nat : k >= 1 => (IF k + 1 <= l THEN k + 1 ELSE l)
                                    = IF (IF k <= l THEN k ELSE l) = l THEN l
                                      ELSE (IF k <= l THEN k ELSE l) + 1
      OBVIOUS
    <3> QED BY <2>1, <3>1, <3>2 DEF Stop, m
  <2> QED BY <2>4, <2>5
<1> HIDE DEF S
<1>7. Nat \subseteq S
  BY <1>5, <1>6, SetInduction
<1>8. ASSUME NEW n \in 1..MaxTables
      PROVE  Stop(w, n) \in DOMAIN w /\ Chain(d)[n] = w[Stop(w, n)]
  <2>1. n - 1 \in Nat /\ n - 1 + 1 = n /\ n <= MaxTables /\ n \in Nat /\ n >= 1
    BY Numbers
  <2>2. n - 1 \in S
    BY <1>7, <2>1
  <2> QED BY <1>2, <2>1, <2>2 DEF S, c
<1> QED BY <1>8

(* A walk that ends meets the tables of the chain, and no others.          *)
LEMMA WalkIsChain ==
  ASSUME NEW d \in [LBA -> Sectors], NEW w, IsWalk(d, w), Len(w) <= MaxTables
  PROVE  /\ TablesOf(d) = {w[i] : i \in DOMAIN w}
         /\ \A i \in DOMAIN w : i \in DOMAIN Chain(d) /\ Chain(d)[i] = w[i]
         /\ Sound(d)
         /\ GetNextConnecterLBA(d) = w[Len(w)]
<1>1. /\ Len(w) \in Nat /\ DOMAIN w = 1..Len(w) /\ Len(w) \in DOMAIN w
      /\ \A i \in DOMAIN w : IsTable(d, w[i])
  BY WalkPlaces
<1>2. /\ DOMAIN Chain(d) = 1..MaxTables
      /\ \A n \in 1..MaxTables : Stop(w, n) \in DOMAIN w /\ Chain(d)[n] = w[Stop(w, n)]
  BY ChainDomain, ChainIsWalk
<1>3. \A i \in DOMAIN w : i \in DOMAIN Chain(d) /\ Chain(d)[i] = w[i]
  <2> SUFFICES ASSUME NEW i \in DOMAIN w
               PROVE  i \in DOMAIN Chain(d) /\ Chain(d)[i] = w[i]
    OBVIOUS
  <2>1. i \in 1..MaxTables /\ Stop(w, i) = i
    BY <1>1, Numbers DEF Stop
  <2> QED BY <1>2, <2>1
<1>4. TablesOf(d) = {Chain(d)[n] : n \in DOMAIN Chain(d)}
  BY DEF TablesOf, Range
<1>5. TablesOf(d) = {w[i] : i \in DOMAIN w}
  BY <1>2, <1>3, <1>4
<1>6. \A i \in DOMAIN w : d[w[i]].table.NextLBA = 0 <=> i = Len(w)
  <2> SUFFICES ASSUME NEW i \in DOMAIN w
               PROVE  d[w[i]].table.NextLBA = 0 <=> i = Len(w)
    OBVIOUS
  <2>1. d[w[i]].table.NextLBA = IF i = Len(w) THEN 0 ELSE w[i + 1] - LbaOffset - 1
    BY DEF IsWalk
  <2>2. ASSUME i # Len(w) PROVE d[w[i]].table.NextLBA # 0
    <3>1. i + 1 \in DOMAIN w /\ i + 1 # 1
      BY <1>1, <2>2
    <3>2. w[i + 1] \in Nat /\ w[i + 1] # LbaOffset + 1
      BY <3>1, WalkPlaces
    <3> QED BY <2>1, <2>2, <3>2, Numbers
  <2> QED BY <2>1, <2>2
<1>7. Sound(d)
  BY <1>1, <1>5, <1>6 DEF Sound
<1>8. GetNextConnecterLBA(d) = w[Len(w)]
  <2>1. \A a \in TablesOf(d) : d[a].table.NextLBA = 0 <=> a = w[Len(w)]
    BY <1>1, <1>5, <1>6 DEF IsWalk
  <2>2. w[Len(w)] \in TablesOf(d)
    BY <1>1, <1>5
  <2> QED BY <2>1, <2>2 DEF GetNextConnecterLBA
<1> QED BY <1>3, <1>5, <1>7, <1>8

(* FindFileLBA finds the last file of the path, if there is one.           *)
LEMMA FindIsLast ==
  ASSUME NEW d \in [LBA -> Sectors], NEW w, IsWalk(d, w), Len(w) <= MaxTables, NEW p
  PROVE  \/ /\ \A i \in DOMAIN w : ~IsFile(d, w, i, p)
            /\ FindFileLBA(d, p) = 0
         \/ \E i \in DOMAIN w : /\ IsFile(d, w, i, p)
                                /\ \A j \in DOMAIN w : IsFile(d, w, j, p) => j <= i
                                /\ FindFileLBA(d, p) = w[i]
<1> DEFINE found == {n \in ScanDir(d) : d[Chain(d)[n]].table.path = p}
           last == CHOOSE n \in found : \A m \in found : m <= n
<1>1. /\ DOMAIN Chain(d) = 1..MaxTables
      /\ \A n \in 1..MaxTables : Stop(w, n) \in DOMAIN w /\ Chain(d)[n] = w[Stop(w, n)]
      /\ \A i \in DOMAIN w : i \in DOMAIN Chain(d) /\ Chain(d)[i] = w[i]
  BY ChainDomain, ChainIsWalk, WalkIsChain
<1>2. FindFileLBA(d, p) = IF found = {} THEN 0 ELSE Chain(d)[last]
  BY DEF FindFileLBA
<1>3. \A i \in DOMAIN w : IsFile(d, w, i, p) <=> i \in found
  BY <1>1 DEF ScanDir, IsFile
<1>4. found \subseteq 1..MaxTables /\ \A n \in found : IsFile(d, w, Stop(w, n), p)
  BY <1>1 DEF ScanDir, IsFile
<1> HIDE DEF found
<1>5. CASE found = {}
  BY <1>2, <1>3, <1>5
<1>6. CASE found # {}
  <2>1. \E x \in found : \A y \in found : y <= x
    BY <1>4, <1>6, Greatest, Numbers
  <2>2. last \in found /\ \A m \in found : m <= last
    BY <2>1
  <2> HIDE DEF last
  <2>3. /\ Stop(w, last) \in DOMAIN w /\ FindFileLBA(d, p) = w[Stop(w, last)]
        /\ IsFile(d, w, Stop(w, last), p)
    BY <1>1, <1>2, <1>4, <1>6, <2>2
  <2>4. ASSUME NEW j \in DOMAIN w, IsFile(d, w, j, p) PROVE j <= Stop(w, last)
    <3>1. j <= last
      BY <1>3, <2>2, <2>4
    <3>2. Len(w) \in Nat /\ DOMAIN w = 1..Len(w)
      BY WalkPlaces
    <3> QED BY <3>1, <3>2 DEF Stop
  <2> QED BY <2>3, <2>4
<1> QED BY <1>5, <1>6

(* The free table that is used again is a table of the chain.              *)
LEMMA OldIndexIsFree ==
  ASSUME NEW d \in [LBA -> Sectors], NEW s, GetFreedIndexTables(d, s) # {}
  PROVE  /\ NewFileOldIndex(d, s) \in TablesOf(d)
         /\ d[NewFileOldIndex(d, s)].table.freed
         /\ d[NewFileOldIndex(d, s)].table.NumberSectors > Len(s)
<1> DEFINE G == GetFreedIndexTables(d, s)
           first == CHOOSE n \in G : \A m \in G : n <= m
<1>1. G \subseteq Nat
  BY ChainDomain, Numbers DEF GetFreedIndexTables
<1>2. \E x \in G : \A y \in G : x <= y
  <2> HIDE DEF G
  <2>1. G # {}
    BY DEF G
  <2> QED BY <1>1, <2>1, Least
<1>3. first \in G
  BY <1>2
<1>4. NewFileOldIndex(d, s) = Chain(d)[first]
  BY DEF NewFileOldIndex
<1> HIDE DEF first
<1> QED BY <1>3, <1>4 DEF GetFreedIndexTables, TablesOf, Range

-----------------------------------------------------------------------------
(***************************************************************************)
(* Files on the disk.                                                      *)
(***************************************************************************)
LEMMA ExtentHas ==
  ASSUME NEW t, t.lba \in Nat, t.NumberSectors \in Nat
  PROVE  \A x : x \in Extent(t) <=> /\ x \in Nat /\ LbaOffset + t.lba <= x
                                    /\ x < LbaOffset + t.lba + t.NumberSectors
<1> SUFFICES ASSUME NEW x
             PROVE  x \in Extent(t) <=> /\ x \in Nat /\ LbaOffset + t.lba <= x
                                        /\ x < LbaOffset + t.lba + t.NumberSectors
  OBVIOUS
<1>1. LbaOffset \in Nat
  BY Numbers
<1>2. ASSUME x \in Extent(t)
      PROVE  /\ x \in Nat /\ LbaOffset + t.lba <= x
             /\ x < LbaOffset + t.lba + t.NumberSectors
  <2>1. PICK k \in 0..(t.NumberSectors - 1) : x = LbaOffset + t.lba + k
    BY <1>2 DEF Extent
  <2> QED BY <1>1, <2>1
<1>3. ASSUME x \in Nat, LbaOffset + t.lba <= x, x < LbaOffset + t.lba + t.NumberSectors
      PROVE  x \in Extent(t)
  <2>1. /\ x - LbaOffset - t.lba \in 0..(t.NumberSectors - 1)
        /\ x = LbaOffset + t.lba + (x - LbaOffset - t.lba)
    BY <1>1, <1>3
  <2> QED BY <2>1 DEF Extent
<1> QED BY <1>2, <1>3

(* A version that can be told is what is read back.                        *)
LEMMA ReadIsVersion ==
  ASSUME NEW d, NEW a, NEW v \in Versions, v.known,
         d[a].table.lba \in Nat, d[a].table.NumberSectors \in Nat,
         Holds(d, d[a].table, v)
  PROVE  ReadFileFromLBA(d, a) = v.contents
<1> DEFINE t == d[a].table
           got == [k \in 1..t.NumberSectors |-> d[LbaOffset + t.lba + k - 1]]
           sums == [k \in DOMAIN got |-> got[k].sum]
<1>1. v.contents \in Seq(Nat) /\ Len(v.contents) \in Nat /\ DOMAIN v.contents = 1..Len(v.contents)
  BY LenProperties DEF Versions
<1>2. /\ t.NumberSectors = Len(v.contents) /\ t.sum = Checksum(v.contents)
      /\ \A k \in DOMAIN v.contents : /\ LbaOffset + t.lba + k - 1 \in LBA
                                      /\ d[LbaOffset + t.lba + k - 1] = Data(v.contents[k])
  BY DEF Holds
<1>3. DOMAIN got = DOMAIN v.contents
  BY <1>1, <1>2
<1>4. \A k \in DOMAIN got : got[k] = Data(v.contents[k])
  BY <1>2, <1>3
<1>5. \A k \in DOMAIN got : got[k].kind = "data" /\ got[k].sum = v.contents[k]
  <2> HIDE DEF got
  <2> QED BY <1>4 DEF Data
<1>6. sums = v.contents
  <2>1. v.contents = [k \in 1..Len(v.contents) |-> v.contents[k]]
    BY <1>1, IsASeq
  <2> HIDE DEF got
  <2> QED BY <1>1, <1>3, <1>5, <2>1
<1>7. Extent(t) \subseteq LBA
  <2> SUFFICES ASSUME NEW x \in Extent(t) PROVE x \in LBA
    OBVIOUS
  <2> HIDE DEF t
  <2>1. t.lba \in Nat /\ t.NumberSectors \in Nat
    BY DEF t
  <2>2. x \in Nat /\ LbaOffset + t.lba <= x /\ x < LbaOffset + t.lba + t.NumberSectors
    BY <2>1, ExtentHas
  <2>3. /\ x - LbaOffset - t.lba + 1 \in DOMAIN v.contents
        /\ x = LbaOffset + t.lba + (x - LbaOffset - t.lba + 1) - 1
    <3>1. x - LbaOffset - t.lba + 1 \in 1..t.NumberSectors
      BY <2>1, <2>2, Numbers
    <3>2. x = LbaOffset + t.lba + (x - LbaOffset - t.lba + 1) - 1
      BY <2>1, <2>2, Numbers
    <3> QED BY <1>1, <1>2, <3>1, <3>2
  <2> QED BY <1>2, <2>3
<1>8. ReadFileFromLBA(d, a) = IF Extent(t) \subseteq LBA /\ \A k \in DOMAIN got : got[k].kind = "data"
                                THEN IF Checksum(sums) = t.sum THEN sums ELSE NoFile
                                ELSE NoFile
  BY DEF ReadFileFromLBA
<1> HIDE DEF got, sums, t
<1> QED BY <1>2, <1>5, <1>6, <1>7, <1>8

(* What the kernel may not write over without overwritten becoming true.   *)
LEMMA InUseHas ==
  ASSUME NEW d \in [LBA -> Sectors], NEW w, IsWalk(d, w), Len(w) <= MaxTables, NEW own
  PROVE  /\ LbaOffset \in InUse(d, own)
         /\ \A i \in DOMAIN w : w[i] \in InUse(d, own)
         /\ \A i \in DOMAIN w :
              /\ ~d[w[i]].table.folder /\ ~d[w[i]].table.freed
              /\ w[i] # own /\ ReadFileFromLBA(d, w[i]) # NoFile
              => Extent(d[w[i]].table) \subseteq InUse(d, own)
<1> DEFINE files == {Chain(d)[n] : n \in {n \in ScanDir(d) : ~d[Chain(d)[n]].table.freed}}
           read == {b \in files \ {own} : ReadFileFromLBA(d, b) # NoFile}
<1>1. InUse(d, own) = {LbaOffset} \cup TablesOf(d) \cup UNION {Extent(d[b].table) : b \in read}
  BY DEF InUse
<1>2. \A i \in DOMAIN w : i \in DOMAIN Chain(d) /\ Chain(d)[i] = w[i]
  BY WalkIsChain
<1>3. \A i \in DOMAIN w : w[i] \in TablesOf(d)
  BY <1>2 DEF TablesOf, Range
<1>4. \A i \in DOMAIN w : ~d[w[i]].table.folder /\ ~d[w[i]].table.freed => w[i] \in files
  BY <1>2 DEF ScanDir
<1> HIDE DEF files
<1>5. ASSUME NEW i \in DOMAIN w, ~d[w[i]].table.folder, ~d[w[i]].table.freed,
             w[i] # own, ReadFileFromLBA(d, w[i]) # NoFile
      PROVE  Extent(d[w[i]].table) \subseteq InUse(d, own)
  <2>1. w[i] \in read
    BY <1>4, <1>5
  <2> HIDE DEF read
  <2> QED BY <1>1, <2>1
<1> QED BY <1>1, <1>3, <1>5

-----------------------------------------------------------------------------
(***************************************************************************)
(* The image has what it should have.                                      *)
(***************************************************************************)
LEMMA ImageSize ==
  ASSUME NEW F \in Images
  PROVE  /\ F \in Seq(Entries) /\ Len(F) \in Nat /\ Len(F) >= 1 /\ DOMAIN F = 1..Len(F)
         /\ NextFileLBA(F) \in Nat /\ NextFileLBA(F) > Len(F) /\ NextFileLBA(F) <= DiskSize
         /\ \A i \in DOMAIN F :
              /\ FileLBAs(F)[i] \in Nat /\ FileLBAs(F)[i] > Len(F)
              /\ FileLBAs(F)[i] + Len(F[i].contents) <= NextFileLBA(F)
         /\ \A i, j \in DOMAIN F :
              i < j => FileLBAs(F)[i] + Len(F[i].contents) <= FileLBAs(F)[j]
<1> DEFINE m == Len(F)
           offset == CurrentLBAOffset(F)
<1>1. F \in Seq(Entries) /\ F # <<>> /\ NextFileLBA(F) <= DiskSize
  BY ImagesAssumption
<1>2. m \in Nat /\ m >= 1 /\ DOMAIN F = 1..m
  BY <1>1, EmptySeq, LenProperties
<1>3. /\ offset \in [0..m -> Nat] /\ offset[0] = m + 1
      /\ \A i \in 1..m : offset[i] = offset[i - 1] + Len(F[i].contents)
  BY <1>1, OffsetsType
<1>4. \A i, j \in 0..m : i <= j => offset[i] <= offset[j]
  BY <1>1, OffsetsGrow
<1>5. NextFileLBA(F) = offset[m] /\ \A i \in DOMAIN F : FileLBAs(F)[i] = offset[i - 1]
  BY DEF NextFileLBA, FileLBAs
<1> HIDE DEF offset, m
<1>6. \A i \in 0..m : offset[i] \in Nat /\ offset[i] > m
  <2> SUFFICES ASSUME NEW i \in 0..m PROVE offset[i] \in Nat /\ offset[i] > m
    OBVIOUS
  <2>1. 0 \in 0..m /\ 0 <= i
    BY <1>2
  <2>2. offset[0] <= offset[i] /\ offset[i] \in Nat
    BY <1>3, <1>4, <2>1
  <2> QED BY <1>2, <1>3, <2>2
<1>7. \A i \in DOMAIN F : /\ FileLBAs(F)[i] = offset[i - 1]
                          /\ FileLBAs(F)[i] + Len(F[i].contents) = offset[i]
                          /\ i - 1 \in 0..m /\ i \in 0..m /\ i <= m
  <2>1. \A i \in 1..m : i - 1 \in 0..m /\ i \in 0..m /\ i <= m
    BY <1>2
  <2> QED BY <1>2, <1>3, <1>5, <2>1
<1>8. m \in 0..m
  BY <1>2
<1>9. ASSUME NEW i \in DOMAIN F
      PROVE  /\ FileLBAs(F)[i] \in Nat /\ FileLBAs(F)[i] > m
             /\ FileLBAs(F)[i] + Len(F[i].contents) <= NextFileLBA(F)
  <2>1. FileLBAs(F)[i] \in Nat /\ FileLBAs(F)[i] > m
    BY <1>6, <1>7
  <2>2. offset[i] <= offset[m]
    BY <1>4, <1>7, <1>8
  <2> QED BY <1>5, <1>7, <2>1, <2>2
<1>10. ASSUME NEW i \in DOMAIN F, NEW j \in DOMAIN F, i < j
       PROVE  FileLBAs(F)[i] + Len(F[i].contents) <= FileLBAs(F)[j]
  <2>1. i <= j - 1
    BY <1>2, <1>10
  <2>2. offset[i] <= offset[j - 1]
    BY <1>4, <1>7, <2>1
  <2> QED BY <1>7, <2>2
<1>11. NextFileLBA(F) \in Nat /\ NextFileLBA(F) > m
  BY <1>5, <1>6, <1>8
<1> QED BY <1>1, <1>2, <1>9, <1>10, <1>11 DEF m

LEMMA IndexTableType ==
  ASSUME NEW F \in Images, NEW i \in DOMAIN F
  PROVE  /\ IndexTable(F, i) \in FileIndex
         /\ IndexTable(F, i).NumberSectors > 0
              => ~F[i].folder /\ IndexTable(F, i).lba = FileLBAs(F)[i]
<1>1. F \in Seq(Entries)
  BY ImageSize
<1>2. /\ F[i].path \in Paths /\ F[i].folder \in BOOLEAN
      /\ F[i].contents \in Seq(Nat) /\ Len(F[i].contents) \in Nat
  BY <1>1, EntryType
<1>3. Checksum(F[i].contents) \in Nat
  BY <1>2, ChecksumType
<1>4. FileLBAs(F)[i] \in Nat /\ i \in Nat
  BY ImageSize
<1>5. F[i].folder => Len(F[i].contents) = 0
  BY ImagesAssumption, EmptySeq DEF NoFile
<1> QED BY <1>2, <1>3, <1>4, <1>5 DEF IndexTable, FileIndex

(* The header, a table per entry, the sectors of the files.                *)
LEMMA ImageHas ==
  ASSUME NEW F \in Images
  PROVE  /\ Image(F) \in [LBA -> Sectors]
         /\ LbaOffset \in LBA /\ Image(F)[LbaOffset] = Header(NextFileLBA(F))
         /\ \A i \in DOMAIN F : /\ LbaOffset + i \in LBA
                                /\ Image(F)[LbaOffset + i] = Table(IndexTable(F, i))
         /\ \A i \in DOMAIN F : \A k \in DOMAIN F[i].contents :
              /\ LbaOffset + FileLBAs(F)[i] + k - 1 \in LBA
              /\ Image(F)[LbaOffset + FileLBAs(F)[i] + k - 1] = Data(F[i].contents[k])
         /\ \A a \in LBA : Image(F)[a].kind = "table"
                            => a - LbaOffset \in DOMAIN F
<1> DEFINE Q(a, i) == a - LbaOffset - FileLBAs(F)[i] + 1 \in DOMAIN F[i].contents
           which(a) == CHOOSE i \in DOMAIN F : Q(a, i)
<1>1. /\ F \in Seq(Entries) /\ Len(F) \in Nat /\ Len(F) >= 1 /\ DOMAIN F = 1..Len(F)
      /\ NextFileLBA(F) \in Nat /\ NextFileLBA(F) > Len(F) /\ NextFileLBA(F) <= DiskSize
      /\ \A i \in DOMAIN F :
           /\ FileLBAs(F)[i] \in Nat /\ FileLBAs(F)[i] > Len(F)
           /\ FileLBAs(F)[i] + Len(F[i].contents) <= NextFileLBA(F)
      /\ \A i, j \in DOMAIN F :
           i < j => FileLBAs(F)[i] + Len(F[i].contents) <= FileLBAs(F)[j]
  BY ImageSize
<1>2. \A i \in DOMAIN F : /\ F[i].contents \in Seq(Nat) /\ Len(F[i].contents) \in Nat
                          /\ DOMAIN F[i].contents = 1..Len(F[i].contents)
                          /\ \A k \in DOMAIN F[i].contents : F[i].contents[k] \in Nat
  BY <1>1, EntryType, LenProperties, ElementOfSeq
<1>3. ASSUME NEW a \in LBA
      PROVE  /\ a = LbaOffset => Image(F)[a] = Header(NextFileLBA(F))
             /\ a # LbaOffset /\ a - LbaOffset \in DOMAIN F
                => Image(F)[a] = Table(IndexTable(F, a - LbaOffset))
             /\ a # LbaOffset /\ a - LbaOffset \notin DOMAIN F /\ (\E i \in DOMAIN F : Q(a, i))
                => Image(F)[a] = Data(F[which(a)].contents[a - LbaOffset - FileLBAs(F)[which(a)] + 1])
             /\ a # LbaOffset /\ a - LbaOffset \notin DOMAIN F /\ ~(\E i \in DOMAIN F : Q(a, i))
                => Image(F)[a] = Data(0)
  <2>1. a # LbaOffset \/ a - LbaOffset \notin DOMAIN F
    BY <1>1, Numbers
  <2>2. (\E i \in DOMAIN F : Q(a, i)) => a # LbaOffset /\ a - LbaOffset \notin DOMAIN F
    <3> SUFFICES ASSUME NEW i \in DOMAIN F, Q(a, i)
                 PROVE  a # LbaOffset /\ a - LbaOffset \notin DOMAIN F
      OBVIOUS
    <3>1. /\ FileLBAs(F)[i] \in Nat /\ FileLBAs(F)[i] > Len(F) /\ Len(F[i].contents) \in Nat
          /\ a - LbaOffset - FileLBAs(F)[i] + 1 \in 1..Len(F[i].contents)
      BY <1>1, <1>2
    <3>2. a \in Nat /\ LbaOffset \in Nat /\ Len(F) \in Nat /\ DOMAIN F = 1..Len(F)
      BY <1>1, Numbers
    <3> QED BY <3>1, <3>2
  <2> QED BY <2>1, <2>2 DEF Image
<1>4. ASSUME NEW a \in LBA, \E i \in DOMAIN F : Q(a, i)
      PROVE  which(a) \in DOMAIN F /\ Q(a, which(a))
  BY <1>4
<1>5. ASSUME NEW a \in LBA, NEW i \in DOMAIN F, NEW j \in DOMAIN F, Q(a, i), Q(a, j)
      PROVE  i = j
  <2>1. a \in Nat /\ LbaOffset \in Nat
    BY Numbers
  <2>2. \A l \in DOMAIN F : Q(a, l) => /\ FileLBAs(F)[l] <= a - LbaOffset
                                       /\ a - LbaOffset < FileLBAs(F)[l] + Len(F[l].contents)
    <3> SUFFICES ASSUME NEW l \in DOMAIN F, Q(a, l)
                 PROVE  /\ FileLBAs(F)[l] <= a - LbaOffset
                        /\ a - LbaOffset < FileLBAs(F)[l] + Len(F[l].contents)
      OBVIOUS
    <3>1. /\ FileLBAs(F)[l] \in Nat /\ Len(F[l].contents) \in Nat
          /\ a - LbaOffset - FileLBAs(F)[l] + 1 \in 1..Len(F[l].contents)
      BY <1>1, <1>2
    <3> QED BY <2>1, <3>1
  <2>3. i \in Nat /\ j \in Nat /\ (i < j \/ j < i \/ i = j)
    BY <1>1
  <2> HIDE DEF Q
  <2>4. /\ FileLBAs(F)[i] \in Nat /\ FileLBAs(F)[j] \in Nat
        /\ Len(F[i].contents) \in Nat /\ Len(F[j].contents) \in Nat
    BY <1>1, <1>2
  <2>5. ~(i < j)
    BY <1>1, <1>5, <2>1, <2>2, <2>4
  <2>6. ~(j < i)
    BY <1>1, <1>5, <2>1, <2>2, <2>4
  <2> QED BY <2>3, <2>5, <2>6
<1>6. LbaOffset \in LBA /\ Image(F)[LbaOffset] = Header(NextFileLBA(F))
  BY <1>3, Numbers
<1>7. ASSUME NEW i \in DOMAIN F
      PROVE  LbaOffset + i \in LBA /\ Image(F)[LbaOffset + i] = Table(IndexTable(F, i))
  <2> DEFINE a == LbaOffset + i
  <2>1. i \in Nat /\ 1 <= i /\ i <= Len(F) /\ i < DiskSize
    BY <1>1, Numbers
  <2>2. a \in Nat /\ a # LbaOffset /\ a - LbaOffset = i /\ a < LbaOffset + DiskSize /\ LbaOffset <= a
    BY <2>1, Numbers
  <2> HIDE DEF a
  <2>3. a \in LBA
    BY <2>2, Numbers
  <2>4. Image(F)[a] = Table(IndexTable(F, i))
    BY <1>3, <2>2, <2>3
  <2> QED BY <2>3, <2>4 DEF a
<1>8. ASSUME NEW i \in DOMAIN F, NEW k \in DOMAIN F[i].contents
      PROVE  /\ LbaOffset + FileLBAs(F)[i] + k - 1 \in LBA
             /\ Image(F)[LbaOffset + FileLBAs(F)[i] + k - 1] = Data(F[i].contents[k])
  <2> DEFINE a == LbaOffset + FileLBAs(F)[i] + k - 1
  <2>1. /\ k \in Nat /\ 1 <= k /\ k <= Len(F[i].contents) /\ FileLBAs(F)[i] \in Nat
        /\ FileLBAs(F)[i] > Len(F) /\ Len(F[i].contents) \in Nat
        /\ FileLBAs(F)[i] + Len(F[i].contents) <= NextFileLBA(F)
    BY <1>1, <1>2
  <2>2. a \in LBA /\ a # LbaOffset /\ a - LbaOffset \notin DOMAIN F
    <3>1. FileLBAs(F)[i] + k - 1 < DiskSize /\ FileLBAs(F)[i] + k - 1 > Len(F)
      BY <1>1, <2>1, Numbers
    <3>2. /\ a \in Nat /\ LbaOffset <= a /\ a < LbaOffset + DiskSize
          /\ a # LbaOffset /\ a - LbaOffset > Len(F)
      <4>1. LbaOffset \in Nat /\ DiskSize \in Nat /\ Len(F) \in Nat
        BY <1>1, Numbers
      <4>2. FileLBAs(F)[i] \in Nat /\ k \in Nat /\ k >= 1 /\ FileLBAs(F)[i] > Len(F)
        BY <2>1
      <4> QED BY <3>1, <4>1, <4>2
    <3> HIDE DEF a
    <3>3. a \in LBA
      BY <3>2, Numbers
    <3>4. LbaOffset \in Nat /\ Len(F) \in Nat /\ DOMAIN F = 1..Len(F)
      BY <1>1, Numbers
    <3> QED BY <3>2, <3>3, <3>4
  <2>3. a - LbaOffset - FileLBAs(F)[i] + 1 = k
    BY <2>1, Numbers
  <2> HIDE DEF a
  <2>4. Q(a, i)
    BY <2>3
  <2>5. which(a) = i
    <3>1. which(a) \in DOMAIN F /\ Q(a, which(a))
      BY <1>4, <2>2, <2>4
    <3> HIDE DEF which, Q
    <3> QED BY <1>5, <2>2, <2>4, <3>1
  <2>6. Image(F)[a] = Data(F[which(a)].contents[a - LbaOffset - FileLBAs(F)[which(a)] + 1])
    BY <1>3, <2>2, <2>4
  <2> HIDE DEF which
  <2>7. Image(F)[a] = Data(F[i].contents[k])
    BY <2>3, <2>5, <2>6
  <2> QED BY <2>2, <2>7 DEF a
<1>9. ASSUME NEW a \in LBA
      PROVE  /\ Image(F)[a] \in Sectors
             /\ Image(F)[a].kind = "table" => a - LbaOffset \in DOMAIN F
  <2>1. CASE a = LbaOffset
    <3>1. Image(F)[a] = Header(NextFileLBA(F))
      BY <1>3, <2>1
    <3> QED BY <1>1, <3>1 DEF Header, Sectors
  <2>2. CASE a # LbaOffset /\ a - LbaOffset \in DOMAIN F
    <3>1. Image(F)[a] = Table(IndexTable(F, a - LbaOffset))
      BY <1>3, <2>2
    <3>2. IndexTable(F, a - LbaOffset) \in FileIndex
      BY <2>2, IndexTableType
    <3> QED BY <2>2, <3>1, <3>2 DEF Table, Sectors
  <2>3. CASE a # LbaOffset /\ a - LbaOffset \notin DOMAIN F /\ \E i \in DOMAIN F : Q(a, i)
    <3>1. Image(F)[a] = Data(F[which(a)].contents[a - LbaOffset - FileLBAs(F)[which(a)] + 1])
      BY <1>3, <2>3
    <3>2. which(a) \in DOMAIN F /\ Q(a, which(a))
      BY <1>4, <2>3
    <3> HIDE DEF which
    <3>3. F[which(a)].contents[a - LbaOffset - FileLBAs(F)[which(a)] + 1] \in Nat
      BY <1>2, <3>2
    <3> HIDE DEF Q
    <3> QED BY <3>1, <3>3 DEF Data, Sectors
  <2>4. CASE a # LbaOffset /\ a - LbaOffset \notin DOMAIN F /\ ~(\E i \in DOMAIN F : Q(a, i))
    <3>1. Image(F)[a] = Data(0)
      BY <1>3, <2>4
    <3> HIDE DEF Q, which
    <3> QED BY <3>1 DEF Data, Sectors
  <2> QED BY <2>1, <2>2, <2>3, <2>4
<1>10. Image(F) \in [LBA -> Sectors]
  <2>1. Image(F) = [a \in LBA |-> Image(F)[a]]
    BY DEF Image
  <2> QED BY <1>9, <2>1
<1> HIDE DEF Q, which
<1> QED BY <1>6, <1>7, <1>8, <1>9, <1>10

-----------------------------------------------------------------------------
(***************************************************************************)
(* The invariant of the disk, whatever has been written over.              *)
(***************************************************************************)
LEMMA JobType ==
  ASSUME TypeOK
  PROVE  /\ job.path \in Paths /\ job.contents \in Seq(Nat) /\ Len(job.contents) \in Nat
         /\ job.reuse \in BOOLEAN /\ job.old \in LBA \cup {0} /\ job.lba \in Nat
         /\ disk \in [LBA -> Sectors] /\ FileSystemHeader \in Nat /\ pc \in PCs
<1>1. job.contents \in Seq(Nat)
  BY DEF TypeOK
<1> QED BY <1>1 DEF TypeOK

LEMMA HeaderType ==
  ASSUME TypeOK, SectorsGood
  PROVE  LbaOffset \in LBA /\ NextFreeLBA \in Nat /\ NextFreeLBA >= 1
<1>1. LbaOffset \in LBA
  BY Numbers
<1>2. disk[LbaOffset] \in Sectors
  BY <1>1 DEF TypeOK
<1>3. NextFreeLBA \in Nat
  BY <1>2, SectorType DEF SectorsGood, NextFreeLBA
<1> QED BY <1>1, <1>3 DEF SectorsGood

LEMMA NewIndexType ==
  ASSUME TypeOK, NEW a \in Nat
  PROVE  /\ NewIndex(a, 0) \in FileIndex
         /\ NewIndex(a, 0).lba = a /\ NewIndex(a, 0).NumberSectors = Len(job.contents)
         /\ NewIndex(a, 0).path = job.path /\ NewIndex(a, 0).NextLBA = 0
         /\ ~NewIndex(a, 0).folder /\ ~NewIndex(a, 0).freed
         /\ NewIndex(a, 0).sum = Checksum(job.contents)
<1>1. /\ job.path \in Paths /\ Len(job.contents) \in Nat /\ Checksum(job.contents) \in Nat
  BY JobType, ChecksumType
<1> QED BY <1>1 DEF NewIndex, FileIndex

(* A table is written where the header is not.                             *)
LEMMA PutTable ==
  ASSUME TypeOK, SectorsGood, NEW a \in LBA, a # LbaOffset, NEW t \in FileIndex,
         t.NumberSectors > 0 => t.lba >= 1, Put(a, Table(t))
  PROVE  /\ disk' \in [LBA -> Sectors] /\ SectorsGood'
         /\ NextFreeLBA' = NextFreeLBA
<1>1. disk \in [LBA -> Sectors]
  BY DEF TypeOK
<1>2. Table(t) \in Sectors /\ Table(t).kind = "table" /\ Table(t).table = t
  BY DEF Table, Sectors
<1>3. disk' = [disk EXCEPT ![a] = Table(t)]
  BY DEF Put
<1>4. disk' \in [LBA -> Sectors]
  BY <1>1, <1>2, <1>3
<1>5. LbaOffset \in LBA
  BY HeaderType
<1>6. disk'[LbaOffset] = disk[LbaOffset]
  BY <1>1, <1>3, <1>5
<1>7. \A b \in LBA : disk'[b].kind = "table" /\ disk'[b].table.NumberSectors > 0
                       => disk'[b].table.lba >= 1
  BY <1>1, <1>2, <1>3 DEF SectorsGood
<1>8. NextFreeLBA' = NextFreeLBA
  BY <1>6 DEF NextFreeLBA
<1> QED BY <1>4, <1>6, <1>7, <1>8 DEF SectorsGood

(* The sectors of a file are written behind the header.                    *)
LEMMA PutSectors ==
  ASSUME TypeOK, SectorsGood, NEW a \in Nat, a > LbaOffset, NEW s \in Seq(Nat), PutFile(a, s)
  PROVE  /\ disk' \in [LBA -> Sectors] /\ SectorsGood'
         /\ NextFreeLBA' = NextFreeLBA
         /\ \A x \in LBA : x \notin SectorsWritten(a, s) => disk'[x] = disk[x]
<1> DEFINE which(x) == CHOOSE k \in DOMAIN s : SectorWritten(a, k) = x
<1>1. disk \in [LBA -> Sectors]
  BY DEF TypeOK
<1>2. DOMAIN s = 1..Len(s) /\ Len(s) \in Nat /\ \A k \in DOMAIN s : s[k] \in Nat
  BY LenProperties, ElementOfSeq
<1>3. \A x \in SectorsWritten(a, s) : which(x) \in DOMAIN s
  BY DEF SectorsWritten
<1>4. disk' = [x \in LBA |-> IF x \in SectorsWritten(a, s) THEN Data(s[which(x)]) ELSE disk[x]]
  BY DEF PutFile
<1> HIDE DEF which
<1>5. \A x \in LBA : disk'[x] = IF x \in SectorsWritten(a, s) THEN Data(s[which(x)]) ELSE disk[x]
  BY <1>4
<1>6. \A x \in SectorsWritten(a, s) : Data(s[which(x)]) \in Sectors /\ Data(s[which(x)]).kind = "data"
  <2>1. \A x \in SectorsWritten(a, s) : s[which(x)] \in Nat
    BY <1>2, <1>3
  <2> QED BY <2>1 DEF Data, Sectors
<1>7. disk' \in [LBA -> Sectors]
  BY <1>1, <1>4, <1>6
<1>8. LbaOffset \in LBA /\ LbaOffset \notin SectorsWritten(a, s)
  <2>1. LbaOffset \in LBA
    BY HeaderType
  <2>2. ASSUME NEW k \in DOMAIN s PROVE a + 2 * (k - 1) # LbaOffset
    <3>1. k \in Nat /\ k >= 1
      BY <1>2
    <3> QED BY <3>1, Numbers
  <2> QED BY <2>1, <2>2 DEF SectorsWritten, SectorWritten
<1>9. disk'[LbaOffset] = disk[LbaOffset]
  BY <1>5, <1>8
<1>10. \A b \in LBA : disk'[b].kind = "table" => disk'[b] = disk[b]
  BY <1>5, <1>6
<1>11. SectorsGood'
  BY <1>9, <1>10 DEF SectorsGood, NextFreeLBA
<1>12. NextFreeLBA' = NextFreeLBA
  BY <1>9 DEF NextFreeLBA
<1> QED BY <1>5, <1>7, <1>11, <1>12

LEMMA InitDisk ==
  ASSUME Init
  PROVE  DiskInv
<1>1. PICK F \in Images :
        /\ disk = Image(F)
        /\ FileSystemHeader = NextFileLBA(F)
        /\ pc = InitFS(Image(F))
        /\ job = NoJob
        /\ writes = 0 /\ failures = 0
        /\ versions = FirstVersions(F)
        /\ overwritten = FALSE
  BY DEF Init
<1>2. /\ disk \in [LBA -> Sectors]
      /\ LbaOffset \in LBA /\ disk[LbaOffset] = Header(NextFileLBA(F))
      /\ \A i \in DOMAIN F : /\ LbaOffset + i \in LBA
                             /\ disk[LbaOffset + i] = Table(IndexTable(F, i))
      /\ \A a \in LBA : disk[a].kind = "table" => a - LbaOffset \in DOMAIN F
  BY <1>1, ImageHas
<1>3. /\ F \in Seq(Entries) /\ Len(F) \in Nat /\ NextFileLBA(F) \in Nat /\ NextFileLBA(F) > Len(F)
      /\ \A i \in DOMAIN F : FileLBAs(F)[i] \in Nat /\ FileLBAs(F)[i] > Len(F)
  BY ImageSize
<1>4. versions \in [Paths -> Seq(Versions)]
  <2>1. PICK f : f \in [0..Len(F) -> AllVersions] /\ FirstVersions(F) = f[Len(F)]
    BY <1>3, VersionsMade
  <2>2. Len(F) \in 0..Len(F)
    BY <1>3
  <2> QED BY <1>1, <2>1, <2>2 DEF AllVersions
<1>5. job \in [path : Paths, contents : Seq(Nat), reuse : BOOLEAN, old : LBA \cup {0}, lba : Nat]
  <2>1. (CHOOSE p \in Paths : TRUE) \in Paths
    BY ConstantsAssumption
  <2>2. <<>> \in Seq(Nat)
    OBVIOUS
  <2> QED BY <1>1, <2>1, <2>2 DEF NoJob, NoFile
<1>6. pc \in {"idle", "halted"}
  BY <1>1 DEF InitFS
<1>7. TypeOK
  <2>1. writes \in 0..MaxWrites /\ failures \in 0..MaxFailures
    BY <1>1, Numbers
  <2>2. pc \in PCs
    BY <1>6 DEF PCs
  <2>3. overwritten \in BOOLEAN /\ FileSystemHeader \in Nat
    BY <1>1, <1>3
  <2> QED BY <1>2, <1>4, <1>5, <2>1, <2>2, <2>3 DEF TypeOK
<1>8. NextFreeLBA = NextFileLBA(F) /\ disk[LbaOffset].kind = "header"
  BY <1>2 DEF NextFreeLBA, Header
<1>9. ASSUME NEW a \in LBA, disk[a].kind = "table", disk[a].table.NumberSectors > 0
      PROVE  disk[a].table.lba >= 1
  <2> DEFINE i == a - LbaOffset
  <2>1. i \in DOMAIN F /\ LbaOffset + i = a
    BY <1>2, <1>9, Numbers
  <2> HIDE DEF i
  <2>2. disk[a] = Table(IndexTable(F, i))
    BY <1>2, <2>1
  <2>3. disk[a].table = IndexTable(F, i)
    BY <2>2 DEF Table
  <2>4. IndexTable(F, i).lba = FileLBAs(F)[i]
    BY <1>9, <2>1, <2>3, IndexTableType
  <2> QED BY <1>3, <2>1, <2>3, <2>4
<1>10. SectorsGood
  BY <1>3, <1>8, <1>9 DEF SectorsGood
<1>11. HeaderGood /\ JobGood
  BY <1>1, <1>6, <1>8 DEF HeaderGood, JobGood
<1> QED BY <1>7, <1>10, <1>11 DEF DiskInv

LEMMA ExceptAnywhere ==
  ASSUME NEW V, NEW v \in Seq(V), NEW n, NEW e \in V
  PROVE  [v EXCEPT ![n] = e] \in Seq(V)
<1>1. CASE n \in 1..Len(v)
  BY <1>1, ExceptSeq
<1>2. CASE n \notin 1..Len(v)
  <2>1. DOMAIN v = 1..Len(v) /\ v = [i \in 1..Len(v) |-> v[i]]
    BY LenProperties
  <2>2. [v EXCEPT ![n] = e] = v
    BY <1>2, <2>1
  <2> QED BY <2>2
<1> QED BY <1>1, <1>2

LEMMA DiskWriteNewHome ==
  ASSUME DiskInv, NEW p \in Paths, NEW s \in Contents, WriteNewHome(p, s)
  PROVE  DiskInv'
<1>1. TypeOK /\ SectorsGood /\ HeaderGood
  BY DEF DiskInv
<1>2. s \in Seq(Nat) /\ Len(s) \in Nat
  BY ConstantsAssumption, LenProperties
<1>3. /\ pc = "idle" /\ writes < MaxWrites /\ FileSystemHeader + 2 * Len(s) + 1 < DiskSize
      /\ FileSystemHeader' = FileSystemHeader + Len(s) + 1
      /\ job' = [path |-> p, contents |-> s, reuse |-> FALSE, old |-> 0,
                 lba |-> LbaOffset + FileSystemHeader + 1]
      /\ writes' = writes + 1 /\ pc' = "homeData"
      /\ UNCHANGED <<disk, failures, versions, overwritten>>
  BY DEF WriteNewHome, CanWrite
<1>4. FileSystemHeader \in Nat /\ FileSystemHeader = NextFreeLBA /\ writes \in 0..MaxWrites
  BY <1>1, <1>3 DEF TypeOK, HeaderGood
<1>5. LbaOffset + FileSystemHeader + 1 \in Nat /\ LbaOffset + FileSystemHeader + 1 > LbaOffset
  BY <1>4, Numbers
<1>6. TypeOK'
  <2>1. job' \in [path : Paths, contents : Seq(Nat), reuse : BOOLEAN, old : LBA \cup {0}, lba : Nat]
    BY <1>2, <1>3, <1>5
  <2>2. FileSystemHeader' \in Nat /\ writes' \in 0..MaxWrites
    BY <1>2, <1>3, <1>4, Numbers
  <2>3. pc' \in PCs
    BY <1>3 DEF PCs
  <2> QED BY <1>1, <1>3, <2>1, <2>2, <2>3 DEF TypeOK
<1>7. NextFreeLBA' = NextFreeLBA /\ SectorsGood'
  BY <1>1, <1>3 DEF SectorsGood, NextFreeLBA
<1>8. HeaderGood'
  <2>1. FileSystemHeader' > NextFreeLBA /\ FileSystemHeader' < DiskSize
    BY <1>2, <1>3, <1>4, Numbers
  <2> QED BY <1>3, <1>7, <2>1 DEF HeaderGood
<1>9. JobGood'
  <2>1. job'.lba + Len(job'.contents) = LbaOffset + FileSystemHeader'
    BY <1>2, <1>3, <1>4, Numbers
  <2>2. job'.lba > LbaOffset /\ ~job'.reuse
    BY <1>3, <1>5
  <2> QED BY <1>3, <2>1, <2>2 DEF JobGood
<1> QED BY <1>6, <1>7, <1>8, <1>9 DEF DiskInv

LEMMA DiskHomeData ==
  ASSUME DiskInv, HomeData
  PROVE  DiskInv' /\ NextFreeLBA' = NextFreeLBA
<1>1. TypeOK /\ SectorsGood /\ HeaderGood /\ JobGood
  BY DEF DiskInv
<1>2. /\ pc = "homeData" /\ PutFile(job.lba, job.contents) /\ pc' = "homeIndex"
      /\ overwritten' \in BOOLEAN
      /\ UNCHANGED <<FileSystemHeader, job, writes, failures, versions>>
  BY DEF HomeData, Takes
<1>3. job.lba \in Nat /\ job.lba > LbaOffset /\ job.contents \in Seq(Nat)
  <2>1. job.lba > LbaOffset
    BY <1>1, <1>2 DEF JobGood
  <2> QED BY <1>1, <2>1, JobType
<1>4. disk' \in [LBA -> Sectors] /\ SectorsGood' /\ NextFreeLBA' = NextFreeLBA
  BY <1>1, <1>2, <1>3, PutSectors
<1>5. TypeOK'
  <2>1. pc' \in PCs
    BY <1>2 DEF PCs
  <2> QED BY <1>1, <1>2, <1>4, <2>1 DEF TypeOK
<1>6. HeaderGood'
  BY <1>1, <1>2, <1>4 DEF HeaderGood
<1>7. JobGood'
  BY <1>1, <1>2 DEF JobGood
<1> QED BY <1>4, <1>5, <1>6, <1>7 DEF DiskInv

LEMMA DiskHomeIndex ==
  ASSUME DiskInv, HomeIndex
  PROVE  DiskInv' /\ NextFreeLBA' = NextFreeLBA
<1> DEFINE a == job.lba + Len(job.contents)
<1>1. TypeOK /\ SectorsGood /\ HeaderGood /\ JobGood
  BY DEF DiskInv
<1>2. /\ pc = "homeIndex" /\ Put(a, Table(NewIndex(job.lba, 0))) /\ pc' = "link"
      /\ overwritten' \in BOOLEAN
      /\ UNCHANGED <<FileSystemHeader, job, writes, failures, versions>>
  BY DEF HomeIndex, Takes
<1>3. ~job.reuse /\ job.lba > LbaOffset /\ a = LbaOffset + FileSystemHeader
  BY <1>1, <1>2 DEF JobGood
<1>4. a \in LBA /\ a # LbaOffset
  <2>1. FileSystemHeader \in Nat /\ FileSystemHeader > NextFreeLBA /\ FileSystemHeader < DiskSize
    BY <1>1, <1>2, JobType DEF HeaderGood
  <2>2. NextFreeLBA \in Nat
    BY <1>1, HeaderType
  <2> HIDE DEF a
  <2> QED BY <1>3, <2>1, <2>2, Numbers
<1>5. /\ NewIndex(job.lba, 0) \in FileIndex
      /\ NewIndex(job.lba, 0).lba >= 1
  <2>1. job.lba \in Nat
    BY <1>1, JobType
  <2>2. job.lba >= 1
    BY <1>3, <2>1, Numbers
  <2> QED BY <1>1, <2>1, <2>2, NewIndexType
<1> HIDE DEF a
<1>6. disk' \in [LBA -> Sectors] /\ SectorsGood' /\ NextFreeLBA' = NextFreeLBA
  BY <1>1, <1>2, <1>4, <1>5, PutTable
<1>7. TypeOK'
  <2>1. pc' \in PCs
    BY <1>2 DEF PCs
  <2> QED BY <1>1, <1>2, <1>6, <2>1 DEF TypeOK
<1>8. HeaderGood'
  BY <1>1, <1>2, <1>6 DEF HeaderGood
<1>9. JobGood'
  BY <1>1, <1>2, <1>3 DEF JobGood
<1> QED BY <1>6, <1>7, <1>8, <1>9 DEF DiskInv

LEMMA DiskWriteReuse ==
  ASSUME DiskInv, NEW p \in Paths, NEW s \in Contents, WriteReuse(p, s)
  PROVE  DiskInv'
<1> DEFINE a == NewFileOldIndex(disk, s)
<1>1. TypeOK /\ SectorsGood /\ HeaderGood
  BY DEF DiskInv
<1>2. s \in Seq(Nat) /\ Len(s) \in Nat
  BY ConstantsAssumption, LenProperties
<1>3. /\ pc = "idle" /\ writes < MaxWrites /\ FileSystemHeader + 2 * Len(s) + 1 < DiskSize
      /\ Sound(disk) /\ GetFreedIndexTables(disk, s) # {}
      /\ job' = [path |-> p, contents |-> s, reuse |-> TRUE, old |-> a, lba |-> disk[a].table.lba]
      /\ writes' = writes + 1 /\ pc' = "shrink"
      /\ UNCHANGED <<disk, FileSystemHeader, failures, versions, overwritten>>
  BY DEF WriteReuse, CanWrite
<1>4. disk \in [LBA -> Sectors]
  BY <1>1, JobType
<1>5. /\ a \in TablesOf(disk) /\ disk[a].table.freed
      /\ disk[a].table.NumberSectors > Len(s)
  BY <1>3, <1>4, OldIndexIsFree
<1> HIDE DEF a
<1>6. IsTable(disk, a) /\ a \in LBA /\ disk[a].kind = "table"
  BY <1>3, <1>5 DEF Sound, IsTable
<1>7. disk[a].table.lba \in Nat /\ disk[a].table.NumberSectors \in Nat /\ disk[a].table.lba >= 1
  <2>1. disk[a].table.lba \in Nat /\ disk[a].table.NumberSectors \in Nat
    BY <1>4, <1>6, TableType
  <2>2. disk[a].table.NumberSectors > 0
    BY <1>2, <1>5, <2>1
  <2> QED BY <1>1, <1>6, <2>1, <2>2 DEF SectorsGood
<1>8. TypeOK'
  <2>1. job' \in [path : Paths, contents : Seq(Nat), reuse : BOOLEAN, old : LBA \cup {0}, lba : Nat]
    BY <1>2, <1>3, <1>6, <1>7
  <2>2. writes \in 0..MaxWrites
    BY <1>1 DEF TypeOK
  <2>3. writes' \in 0..MaxWrites
    BY <1>3, <2>2, Numbers
  <2>4. pc' \in PCs
    BY <1>3 DEF PCs
  <2> QED BY <1>1, <1>3, <2>1, <2>3, <2>4 DEF TypeOK
<1>9. NextFreeLBA' = NextFreeLBA /\ SectorsGood'
  BY <1>1, <1>3 DEF SectorsGood, NextFreeLBA
<1>10. HeaderGood'
  <2>1. FileSystemHeader \in Nat
    BY <1>1, JobType
  <2>2. FileSystemHeader + 1 < DiskSize /\ FileSystemHeader < DiskSize
    BY <1>2, <1>3, <2>1, Numbers
  <2> QED BY <1>1, <1>3, <1>9, <2>2 DEF HeaderGood
<1>11. JobGood'
  BY <1>3, <1>5, <1>6, <1>7 DEF JobGood, IsTable
<1> QED BY <1>8, <1>9, <1>10, <1>11 DEF DiskInv

(* What is written to the tables: the free one gives its first sectors     *)
(* away, the last one is linked, a removed one is marked.                  *)
ShrunkOld == [disk[job.old].table EXCEPT !.lba = @ + Len(job.contents),
                                         !.NumberSectors = @ - Len(job.contents)]
Linked(a) == [disk[a].table EXCEPT !.NextLBA = NewLink]
Removed(a) == [disk[a].table EXCEPT !.freed = TRUE, !.path = Erased]

LEMMA DiskShrink ==
  ASSUME DiskInv, Shrink
  PROVE  /\ DiskInv' /\ NextFreeLBA' = NextFreeLBA
         /\ job.old \in LBA /\ disk' = [disk EXCEPT ![job.old] = Table(ShrunkOld)]
         /\ ShrunkOld \in FileIndex
<1> DEFINE t == disk[job.old].table
           new == ShrunkOld
<1>1. TypeOK /\ SectorsGood /\ HeaderGood /\ JobGood
  BY DEF DiskInv
<1>2. /\ pc = "shrink" /\ Put(job.old, Table(new)) /\ pc' = "reuseIndex"
      /\ FileSystemHeader' = FileSystemHeader + 1
      /\ UNCHANGED <<job, writes, failures, versions, overwritten>>
  BY DEF Shrink, ShrunkOld
<1>3. /\ job.old \in LBA /\ disk[job.old].kind = "table" /\ t.NumberSectors > Len(job.contents)
      /\ job.reuse /\ job.lba >= 1 /\ t.lba = job.lba
  BY <1>1, <1>2 DEF JobGood, IsTable
<1>4. /\ disk \in [LBA -> Sectors] /\ Len(job.contents) \in Nat /\ FileSystemHeader \in Nat
      /\ job.lba \in Nat
  BY <1>1, JobType
<1>5. t \in FileIndex /\ t.lba \in Nat /\ t.NumberSectors \in Nat
  BY <1>3, <1>4, TableType
<1>6. /\ t.lba + Len(job.contents) \in Nat /\ t.lba + Len(job.contents) >= 1
      /\ t.NumberSectors - Len(job.contents) \in Nat
  <2> HIDE DEF t
  <2> QED BY <1>3, <1>4, <1>5
<1>7. new \in FileIndex /\ new.lba >= 1
  BY <1>5, <1>6 DEF ShrunkOld, FileIndex
<1>8. job.old # LbaOffset
  BY <1>1, <1>3 DEF SectorsGood
<1>9. disk' = [disk EXCEPT ![job.old] = Table(new)]
  BY <1>2 DEF Put
<1> HIDE DEF new, t
<1>10. disk' \in [LBA -> Sectors] /\ SectorsGood' /\ NextFreeLBA' = NextFreeLBA
  BY <1>1, <1>2, <1>3, <1>7, <1>8, PutTable
<1>11. TypeOK'
  <2>1. pc' \in PCs /\ FileSystemHeader' \in Nat
    BY <1>2, <1>4 DEF PCs
  <2> QED BY <1>1, <1>2, <1>10, <2>1 DEF TypeOK
<1>12. HeaderGood'
  <2>1. NextFreeLBA \in Nat /\ FileSystemHeader = NextFreeLBA /\ FileSystemHeader + 1 < DiskSize
    BY <1>1, <1>2, HeaderType DEF HeaderGood
  <2>2. FileSystemHeader' > NextFreeLBA'
    BY <1>2, <1>10, <2>1
  <2> QED BY <1>2, <2>1, <2>2 DEF HeaderGood
<1>13. JobGood'
  BY <1>2, <1>3 DEF JobGood
<1>14. DiskInv'
  BY <1>10, <1>11, <1>12, <1>13 DEF DiskInv
<1> QED BY <1>3, <1>7, <1>9, <1>10, <1>14 DEF new

LEMMA DiskReuseIndex ==
  ASSUME DiskInv, ReuseIndex
  PROVE  DiskInv' /\ NextFreeLBA' = NextFreeLBA
<1> DEFINE a == LbaOffset + FileSystemHeader - 1
<1>1. TypeOK /\ SectorsGood /\ HeaderGood /\ JobGood
  BY DEF DiskInv
<1>2. /\ pc = "reuseIndex" /\ Put(a, Table(NewIndex(job.lba, 0))) /\ pc' = "link"
      /\ overwritten' \in BOOLEAN
      /\ UNCHANGED <<FileSystemHeader, job, writes, failures, versions>>
  BY DEF ReuseIndex, Takes
<1>3. job.reuse /\ job.lba >= 1
  BY <1>1, <1>2 DEF JobGood
<1>4. a \in LBA /\ a # LbaOffset
  <2>1. FileSystemHeader \in Nat /\ FileSystemHeader > NextFreeLBA /\ FileSystemHeader < DiskSize
    BY <1>1, <1>2, JobType DEF HeaderGood
  <2>2. NextFreeLBA \in Nat /\ NextFreeLBA >= 1
    BY <1>1, HeaderType
  <2>3. a \in Nat /\ a > LbaOffset /\ a < LbaOffset + DiskSize
    BY <2>1, <2>2, Numbers
  <2> HIDE DEF a
  <2> QED BY <2>3, Numbers
<1>5. NewIndex(job.lba, 0) \in FileIndex /\ NewIndex(job.lba, 0).lba >= 1
  BY <1>1, <1>3, JobType, NewIndexType
<1> HIDE DEF a
<1>6. disk' \in [LBA -> Sectors] /\ SectorsGood' /\ NextFreeLBA' = NextFreeLBA
  BY <1>1, <1>2, <1>4, <1>5, PutTable
<1>7. TypeOK'
  <2>1. pc' \in PCs
    BY <1>2 DEF PCs
  <2> QED BY <1>1, <1>2, <1>6, <2>1 DEF TypeOK
<1>8. HeaderGood'
  BY <1>1, <1>2, <1>6 DEF HeaderGood
<1>9. JobGood'
  BY <1>1, <1>2, <1>3 DEF JobGood
<1> QED BY <1>6, <1>7, <1>8, <1>9 DEF DiskInv

(* The new table's place, as both branches compute the link.               *)
LEMMA NewLinkType ==
  ASSUME DiskInv, pc \in {"link", "reuseData"}
  PROVE  /\ pc = "link" \/ job.reuse => NewLink \in Nat
         /\ pc = "link" \/ job.reuse =>
              NewTableAt = IF job.reuse THEN LbaOffset + FileSystemHeader - 1
                                        ELSE LbaOffset + FileSystemHeader
<1>1. TypeOK /\ SectorsGood /\ HeaderGood /\ JobGood
  BY DEF DiskInv
<1>2. FileSystemHeader \in Nat /\ FileSystemHeader >= 2
  <2>1. NextFreeLBA \in Nat /\ NextFreeLBA >= 1 /\ FileSystemHeader \in Nat
    BY <1>1, HeaderType, JobType
  <2>2. FileSystemHeader > NextFreeLBA
    BY <1>1 DEF HeaderGood
  <2> QED BY <2>1, <2>2
<1>3. CASE job.reuse
  BY <1>2, <1>3, Numbers DEF NewLink, NewTableAt
<1>4. CASE ~job.reuse /\ pc = "link"
  <2>1. job.lba + Len(job.contents) = LbaOffset + FileSystemHeader
    BY <1>1, <1>4 DEF JobGood
  <2>2. job.lba \in Nat /\ Len(job.contents) \in Nat
    BY <1>1, JobType
  <2> QED BY <1>2, <1>4, <2>1, <2>2, Numbers DEF NewLink, NewTableAt
<1> QED BY <1>3, <1>4

LEMMA DiskLink ==
  ASSUME DiskInv, Link
  PROVE  DiskInv' /\ NextFreeLBA' = NextFreeLBA
<1> DEFINE a == GetNextConnecterLBA(disk)
           new == Linked(a)
<1>1. TypeOK /\ SectorsGood /\ HeaderGood /\ JobGood
  BY DEF DiskInv
<1>2. /\ pc = "link" /\ Sound(disk) /\ Put(a, Table(new))
      /\ versions' = [versions EXCEPT ![job.path] = Append(@, Unknown)]
      /\ pc' = IF job.reuse THEN "reuseData" ELSE "header"
      /\ UNCHANGED <<FileSystemHeader, job, writes, failures, overwritten>>
  BY DEF Link, Linked
<1>3. a \in TablesOf(disk) /\ a \in LBA /\ disk[a].kind = "table"
  <2>1. a \in TablesOf(disk)
    BY <1>2 DEF Sound, GetNextConnecterLBA
  <2> HIDE DEF a
  <2> QED BY <1>2, <2>1 DEF Sound, IsTable
<1> HIDE DEF a
<1>4. disk[a].table \in FileIndex /\ NewLink \in Nat
  <2>1. disk[a].table \in FileIndex
    BY <1>1, <1>3, JobType, TableType
  <2> QED BY <1>2, <2>1, NewLinkType
<1>5. /\ new \in FileIndex /\ new.lba = disk[a].table.lba
      /\ new.NumberSectors = disk[a].table.NumberSectors
  BY <1>4 DEF Linked, FileIndex
<1>6. new.NumberSectors > 0 => new.lba >= 1
  BY <1>1, <1>3, <1>5 DEF SectorsGood
<1>7. a # LbaOffset
  BY <1>1, <1>3 DEF SectorsGood
<1> HIDE DEF new
<1>8. disk' \in [LBA -> Sectors] /\ SectorsGood' /\ NextFreeLBA' = NextFreeLBA
  BY <1>1, <1>2, <1>3, <1>5, <1>6, <1>7, PutTable
<1>9. TypeOK'
  <2>1. pc' \in PCs
    BY <1>2 DEF PCs
  <2>2. versions \in [Paths -> Seq(Versions)] /\ job.path \in Paths
    BY <1>1, JobType DEF TypeOK
  <2>3. Unknown \in Versions
    BY DEF Unknown, Versions, NoFile
  <2>4. Append(versions[job.path], Unknown) \in Seq(Versions)
    BY <2>2, <2>3, AppendProperties
  <2>5. versions' \in [Paths -> Seq(Versions)]
    BY <1>2, <2>2, <2>4
  <2> QED BY <1>1, <1>2, <1>8, <2>1, <2>5 DEF TypeOK
<1>10. HeaderGood'
  <2>1. FileSystemHeader > NextFreeLBA /\ FileSystemHeader < DiskSize
    BY <1>1, <1>2 DEF HeaderGood
  <2> QED BY <1>2, <1>8, <2>1 DEF HeaderGood
<1>11. JobGood'
  <2>1. job.reuse => job.lba >= 1
    BY <1>1, <1>2 DEF JobGood
  <2> QED BY <1>2, <2>1 DEF JobGood
<1> QED BY <1>8, <1>9, <1>10, <1>11 DEF DiskInv

LEMMA DiskReuseData ==
  ASSUME DiskInv, ReuseData
  PROVE  DiskInv' /\ NextFreeLBA' = NextFreeLBA
<1> DEFINE a == LbaOffset + job.lba
           new == AsWritten(a, job.contents)
<1>1. TypeOK /\ SectorsGood /\ HeaderGood /\ JobGood
  BY DEF DiskInv
<1>2. /\ pc = "reuseData" /\ PutFile(a, job.contents) /\ pc' = "header"
      /\ versions' = [versions EXCEPT ![job.path][Len(versions[job.path])] = new]
      /\ overwritten' \in BOOLEAN
      /\ UNCHANGED <<FileSystemHeader, job, writes, failures>>
  BY DEF ReuseData, Takes
<1>3. a \in Nat /\ a > LbaOffset /\ job.contents \in Seq(Nat)
  <2>1. job.lba >= 1
    BY <1>1, <1>2 DEF JobGood
  <2>2. job.lba \in Nat /\ job.contents \in Seq(Nat)
    BY <1>1, JobType
  <2> QED BY <2>1, <2>2, Numbers
<1>4. new \in Versions
  BY <1>3 DEF AsWritten, Known, Unknown, Versions, NoFile
<1> HIDE DEF a, new
<1>5. disk' \in [LBA -> Sectors] /\ SectorsGood' /\ NextFreeLBA' = NextFreeLBA
  BY <1>1, <1>2, <1>3, PutSectors
<1>6. TypeOK'
  <2>1. pc' \in PCs
    BY <1>2 DEF PCs
  <2>2. versions \in [Paths -> Seq(Versions)] /\ job.path \in Paths
    BY <1>1, JobType DEF TypeOK
  <2>3. [versions[job.path] EXCEPT ![Len(versions[job.path])] = new] \in Seq(Versions)
    BY <1>4, <2>2, ExceptAnywhere
  <2>4. versions' \in [Paths -> Seq(Versions)]
    BY <1>2, <2>2, <2>3
  <2> QED BY <1>1, <1>2, <1>5, <2>1, <2>4 DEF TypeOK
<1>7. HeaderGood'
  <2>1. FileSystemHeader > NextFreeLBA /\ FileSystemHeader < DiskSize
    BY <1>1, <1>2 DEF HeaderGood
  <2> QED BY <1>2, <1>5, <2>1 DEF HeaderGood
<1>8. JobGood'
  BY <1>2 DEF JobGood
<1> QED BY <1>5, <1>6, <1>7, <1>8 DEF DiskInv

LEMMA DiskWriteHeader ==
  ASSUME DiskInv, WriteHeader
  PROVE  /\ DiskInv' /\ NextFreeLBA' = FileSystemHeader
         /\ \A x \in LBA : x # LbaOffset => disk'[x] = disk[x]
<1>1. TypeOK /\ SectorsGood /\ HeaderGood
  BY DEF DiskInv
<1>2. /\ pc = "header" /\ disk' = [disk EXCEPT ![LbaOffset] = Header(FileSystemHeader)]
      /\ pc' \in {"idle", "halted"} /\ job' = NoJob
      /\ UNCHANGED <<FileSystemHeader, writes, failures, versions, overwritten>>
  BY DEF WriteHeader, Put
<1>3. /\ disk \in [LBA -> Sectors] /\ LbaOffset \in LBA
      /\ FileSystemHeader \in Nat /\ FileSystemHeader >= 1
  <2>1. NextFreeLBA \in Nat /\ NextFreeLBA >= 1 /\ LbaOffset \in LBA
    BY <1>1, HeaderType
  <2>2. FileSystemHeader > NextFreeLBA /\ FileSystemHeader \in Nat
    BY <1>1, <1>2, JobType DEF HeaderGood
  <2> QED BY <1>1, <2>1, <2>2, JobType
<1>4. Header(FileSystemHeader) \in Sectors
  BY <1>3 DEF Header, Sectors
<1>5. /\ disk' \in [LBA -> Sectors] /\ disk'[LbaOffset] = Header(FileSystemHeader)
      /\ \A x \in LBA : x # LbaOffset => disk'[x] = disk[x]
  BY <1>2, <1>3, <1>4
<1>6. disk'[LbaOffset].kind = "header" /\ NextFreeLBA' = FileSystemHeader
  BY <1>5 DEF Header, NextFreeLBA
<1>7. SectorsGood'
  <2>1. \A x \in LBA : disk'[x].kind = "table" => disk'[x] = disk[x]
    BY <1>5, <1>6
  <2> QED BY <1>1, <1>3, <1>6, <2>1 DEF SectorsGood
<1>8. TypeOK'
  <2>1. pc' \in PCs
    BY <1>2 DEF PCs
  <2>2. job' \in [path : Paths, contents : Seq(Nat), reuse : BOOLEAN, old : LBA \cup {0}, lba : Nat]
    <3>1. (CHOOSE p \in Paths : TRUE) \in Paths /\ <<>> \in Seq(Nat)
      BY ConstantsAssumption
    <3> QED BY <1>2, <3>1 DEF NoJob, NoFile
  <2> QED BY <1>1, <1>2, <1>5, <2>1, <2>2 DEF TypeOK
<1>9. HeaderGood' /\ JobGood'
  BY <1>2, <1>6 DEF HeaderGood, JobGood
<1> QED BY <1>5, <1>6, <1>7, <1>8, <1>9 DEF DiskInv

LEMMA DiskRemoveFile ==
  ASSUME DiskInv, NEW p \in Paths, RemoveFile(p)
  PROVE  DiskInv' /\ NextFreeLBA' = NextFreeLBA
<1> DEFINE a == FindFileLBA(disk, p)
           new == Removed(a)
<1>1. TypeOK /\ SectorsGood /\ HeaderGood
  BY DEF DiskInv
<1>2. /\ pc = "idle" /\ Sound(disk) /\ a # 0 /\ Put(a, Table(new))
      /\ versions' = [versions EXCEPT ![p] = SubSeq(@, 1, Len(@) - 1)]
      /\ UNCHANGED <<FileSystemHeader, pc, job, writes, failures, overwritten>>
  BY DEF RemoveFile, Removed
<1>3. a \in TablesOf(disk)
  <2> DEFINE found == {n \in ScanDir(disk) : disk[Chain(disk)[n]].table.path = p}
  <2>1. a = IF found = {} THEN 0 ELSE Chain(disk)[CHOOSE n \in found : \A m \in found : m <= n]
    BY DEF FindFileLBA
  <2>2. found \subseteq 1..MaxTables
    BY <1>1, JobType, ChainDomain DEF ScanDir
  <2> HIDE DEF found
  <2>3. \E n \in found : \A m \in found : m <= n
    BY <1>2, <2>1, <2>2, Greatest, Numbers
  <2>4. PICK n \in found : a = Chain(disk)[n]
    BY <1>2, <2>1, <2>3
  <2>5. n \in DOMAIN Chain(disk)
    BY <1>1, <2>2, <2>4, JobType, ChainDomain
  <2> QED BY <2>4, <2>5 DEF TablesOf, Range
<1> HIDE DEF a
<1>4. a \in LBA /\ disk[a].kind = "table"
  BY <1>2, <1>3 DEF Sound, IsTable
<1>5. disk[a].table \in FileIndex
  BY <1>1, <1>4, JobType, TableType
<1>6. /\ new \in FileIndex /\ new.lba = disk[a].table.lba
      /\ new.NumberSectors = disk[a].table.NumberSectors
  BY <1>5 DEF Removed, FileIndex
<1>7. new.NumberSectors > 0 => new.lba >= 1
  BY <1>1, <1>4, <1>6 DEF SectorsGood
<1>8. a # LbaOffset
  BY <1>1, <1>4 DEF SectorsGood
<1> HIDE DEF new
<1>9. disk' \in [LBA -> Sectors] /\ SectorsGood' /\ NextFreeLBA' = NextFreeLBA
  BY <1>1, <1>2, <1>4, <1>6, <1>7, <1>8, PutTable
<1>10. TypeOK'
  <2>1. versions \in [Paths -> Seq(Versions)] /\ versions[p] \in Seq(Versions)
    BY <1>1 DEF TypeOK
  <2>2. SubSeq(versions[p], 1, Len(versions[p]) - 1) \in Seq(Versions)
    <3>1. Len(versions[p]) \in Nat /\ \A i \in 1..Len(versions[p]) : versions[p][i] \in Versions
      BY <2>1, LenProperties, ElementOfSeq
    <3>2. \A i \in 1..(Len(versions[p]) - 1) : versions[p][i] \in Versions
      BY <3>1
    <3>3. 1 \in Int /\ Len(versions[p]) - 1 \in Int
      BY <3>1
    <3> QED BY <3>2, <3>3, SubSeqProperties
  <2>3. versions' \in [Paths -> Seq(Versions)]
    BY <1>2, <2>1, <2>2
  <2> QED BY <1>1, <1>2, <1>9, <2>3 DEF TypeOK
<1>11. HeaderGood' /\ JobGood'
  BY <1>1, <1>2, <1>9 DEF HeaderGood, JobGood
<1> QED BY <1>9, <1>10, <1>11 DEF DiskInv

LEMMA DiskPowerFailure ==
  ASSUME DiskInv, PowerFailure
  PROVE  DiskInv'
<1>1. TypeOK /\ SectorsGood /\ HeaderGood
  BY DEF DiskInv
<1>2. /\ failures < MaxFailures /\ failures' = failures + 1
      /\ FileSystemHeader' = NextFreeLBA
      /\ pc' \in {"idle", "halted"} /\ job' = NoJob
      /\ UNCHANGED <<disk, writes, versions, overwritten>>
  BY DEF PowerFailure, InitFS, NextFreeLBA
<1>3. SectorsGood' /\ NextFreeLBA' = NextFreeLBA
  BY <1>1, <1>2 DEF SectorsGood, NextFreeLBA
<1>4. TypeOK'
  <2>1. pc' \in PCs
    BY <1>2 DEF PCs
  <2>2. job' \in [path : Paths, contents : Seq(Nat), reuse : BOOLEAN, old : LBA \cup {0}, lba : Nat]
    <3>1. (CHOOSE p \in Paths : TRUE) \in Paths /\ <<>> \in Seq(Nat)
      BY ConstantsAssumption
    <3> QED BY <1>2, <3>1 DEF NoJob, NoFile
  <2>3. failures \in 0..MaxFailures
    BY <1>1 DEF TypeOK
  <2>4. failures' \in 0..MaxFailures
    BY <1>2, <2>3, Numbers
  <2>5. FileSystemHeader' \in Nat
    BY <1>1, <1>2, HeaderType
  <2> QED BY <1>1, <1>2, <2>1, <2>2, <2>4, <2>5 DEF TypeOK
<1>5. HeaderGood' /\ JobGood'
  BY <1>2, <1>3 DEF HeaderGood, JobGood
<1> QED BY <1>3, <1>4, <1>5 DEF DiskInv

LEMMA DiskStutter ==
  ASSUME DiskInv, UNCHANGED vars
  PROVE  DiskInv'
BY DEF DiskInv, TypeOK, SectorsGood, HeaderGood, JobGood, NextFreeLBA, IsTable, vars

LEMMA DiskStep ==
  ASSUME DiskInv, [Next]_vars
  PROVE  DiskInv'
<1>1. CASE Next
  BY <1>1, DiskWriteNewHome, DiskHomeData, DiskHomeIndex, DiskWriteReuse, DiskShrink, DiskReuseIndex,
     DiskLink, DiskReuseData, DiskWriteHeader, DiskRemoveFile, DiskPowerFailure DEF Next, WriteStep
<1> QED BY <1>1, DiskStutter

-----------------------------------------------------------------------------
(***************************************************************************)
(* The chain and the files, as long as nothing in use is written over:     *)
(* what is kept when a step leaves the tables and the known files alone.   *)
(***************************************************************************)
LEMMA ChainFacts ==
  ASSUME DiskInv, NEW w, NEW r, ChainInv(w, r)
  PROVE  /\ disk \in [LBA -> Sectors] /\ LbaOffset \in LBA
         /\ Len(w) \in Nat /\ Len(w) >= 1 /\ Len(w) <= MaxTables /\ DOMAIN w = 1..Len(w)
         /\ \A i \in DOMAIN w : /\ w[i] \in LBA /\ w[i] # LbaOffset /\ w[i] # 0
                                /\ disk[w[i]] = Table(disk[w[i]].table)
                                /\ disk[w[i]].table \in FileIndex
                                /\ disk[w[i]].table.lba \in Nat
                                /\ disk[w[i]].table.NumberSectors \in Nat
<1>1. TypeOK /\ SectorsGood /\ IsWalk(disk, w) /\ HasRoom(w)
  BY DEF DiskInv, ChainInv
<1>2. disk \in [LBA -> Sectors] /\ LbaOffset \in LBA
  BY <1>1, JobType, HeaderType
<1>3. Len(w) \in Nat /\ Len(w) >= 1 /\ DOMAIN w = 1..Len(w)
  BY <1>1, WalkPlaces
<1>4. Len(w) <= MaxTables
  <2>1. writes \in Nat /\ writes <= MaxWrites
    BY <1>1, Numbers DEF TypeOK
  <2> QED BY <1>1, <1>3, <2>1, Numbers DEF HasRoom
<1>5. ASSUME NEW i \in DOMAIN w
      PROVE  /\ w[i] \in LBA /\ w[i] # LbaOffset /\ w[i] # 0
             /\ disk[w[i]] = Table(disk[w[i]].table)
             /\ disk[w[i]].table \in FileIndex
             /\ disk[w[i]].table.lba \in Nat
             /\ disk[w[i]].table.NumberSectors \in Nat
  <2>1. w[i] \in LBA /\ disk[w[i]].kind = "table"
    BY <1>1, WalkPlaces DEF IsTable
  <2>2. w[i] # LbaOffset
    BY <1>1, <2>1 DEF SectorsGood
  <2>3. w[i] # 0
    BY <2>1, <2>2, Numbers
  <2> QED BY <1>2, <2>1, <2>2, <2>3, TableType
<1> QED BY <1>2, <1>3, <1>4, <1>5

TablesSame(d, e, w) == \A i \in DOMAIN w : e[w[i]] = d[w[i]]

LEMMA KeepWalk ==
  ASSUME NEW d, NEW e, NEW w, TablesSame(d, e, w), IsWalk(d, w), FreedErased(d, w)
  PROVE  IsWalk(e, w) /\ FreedErased(e, w)
<1>1. \A i \in DOMAIN w : e[w[i]] = d[w[i]]
  BY DEF TablesSame
<1>2. IsWalk(e, w)
  BY <1>1 DEF IsWalk
<1>3. FreedErased(e, w)
  BY <1>1 DEF FreedErased
<1> QED BY <1>2, <1>3

LEMMA KeepApart ==
  ASSUME NEW d, NEW e, NEW w, TablesSame(d, e, w), Apart(d, w),
         d[LbaOffset].NextFreeLBA \in Nat, e[LbaOffset].NextFreeLBA \in Nat,
         d[LbaOffset].NextFreeLBA <= e[LbaOffset].NextFreeLBA
  PROVE  Apart(e, w)
<1>1. \A i \in DOMAIN w : e[w[i]] = d[w[i]]
  BY DEF TablesSame
<1> SUFFICES ASSUME NEW i \in DOMAIN w, NEW x \in Nat, Owns(e[w[i]].table, x)
             PROVE  /\ x < LbaOffset + e[LbaOffset].NextFreeLBA
                    /\ \A j \in DOMAIN w : w[j] # x /\ (Owns(e[w[j]].table, x) => i = j)
  BY DEF Apart
<1>2. Owns(d[w[i]].table, x)
  BY <1>1
<1>3. /\ x < LbaOffset + d[LbaOffset].NextFreeLBA
      /\ \A j \in DOMAIN w : w[j] # x /\ (Owns(d[w[j]].table, x) => i = j)
  BY <1>2 DEF Apart
<1>4. x < LbaOffset + e[LbaOffset].NextFreeLBA
  BY <1>3, Numbers
<1> QED BY <1>1, <1>3, <1>4

(* The same files, at the same sectors.                                    *)
FilesSame(d, e, w) ==
  \A i \in DOMAIN w, p \in Paths :
    /\ IsFile(e, w, i, p) <=> IsFile(d, w, i, p)
    /\ IsFile(d, w, i, p) => /\ e[w[i]].table.lba = d[w[i]].table.lba
                             /\ e[w[i]].table.NumberSectors = d[w[i]].table.NumberSectors
                             /\ e[w[i]].table.sum = d[w[i]].table.sum

LEMMA TablesSameFiles ==
  ASSUME NEW d, NEW e, NEW w, TablesSame(d, e, w)
  PROVE  FilesSame(d, e, w)
BY DEF TablesSame, FilesSame, IsFile

(* The sector of the k-th part of the file that the i-th table names.      *)
PartAt(d, w, i, k) == LbaOffset + d[w[i]].table.lba + k - 1

PartsSame(d, e, vs, w, r, p, i) ==
  IsFile(d, w, i, p) /\ vs[p][r[i]].known =>
    \A k \in DOMAIN vs[p][r[i]].contents : e[PartAt(d, w, i, k)] = d[PartAt(d, w, i, k)]

KnownSame(d, e, vs, w, r) ==
  \A p \in Paths, i \in DOMAIN w : PartsSame(d, e, vs, w, r, p, i)

SameExtent(t, u) == t.lba = u.lba /\ t.NumberSectors = u.NumberSectors /\ t.sum = u.sum

LEMMA KeepHolds ==
  ASSUME NEW d, NEW e, NEW w, NEW r, NEW vs, Filed(d, vs, w, r),
         NEW p \in Paths, NEW i \in DOMAIN w, IsFile(d, w, i, p), PartsSame(d, e, vs, w, r, p, i),
         SameExtent(e[w[i]].table, d[w[i]].table)
  PROVE  r[i] \in 1..Len(vs[p]) /\ Holds(e, e[w[i]].table, vs[p][r[i]])
<1> DEFINE v == vs[p][r[i]]
<1>1. r[i] \in 1..Len(vs[p]) /\ Holds(d, d[w[i]].table, v)
  BY DEF Filed
<1>2. v.known => \A k \in DOMAIN v.contents :
        e[LbaOffset + d[w[i]].table.lba + k - 1] = d[LbaOffset + d[w[i]].table.lba + k - 1]
  BY DEF PartsSame, PartAt
<1> HIDE DEF v
<1>3. Holds(e, e[w[i]].table, v)
  BY <1>1, <1>2 DEF Holds, SameExtent
<1> QED BY <1>1, <1>3 DEF v

LEMMA KeepFiled ==
  ASSUME NEW d, NEW e, NEW w, NEW r, NEW vs, FilesSame(d, e, w), KnownSame(d, e, vs, w, r),
         Filed(d, vs, w, r)
  PROVE  Filed(e, vs, w, r)
<1>1. \A i \in DOMAIN w, p \in Paths :
        /\ IsFile(e, w, i, p) <=> IsFile(d, w, i, p)
        /\ IsFile(d, w, i, p) => SameExtent(e[w[i]].table, d[w[i]].table)
  BY DEF FilesSame, SameExtent
<1>2. ASSUME NEW p \in Paths, NEW i \in DOMAIN w, IsFile(e, w, i, p)
      PROVE  r[i] \in 1..Len(vs[p]) /\ Holds(e, e[w[i]].table, vs[p][r[i]])
  BY <1>1, <1>2, KeepHolds DEF KnownSame
<1>3. r \in [DOMAIN w -> Nat]
  BY DEF Filed
<1>4. ASSUME NEW p \in Paths, NEW k \in 1..Len(vs[p])
      PROVE  \E i \in DOMAIN w : IsFile(e, w, i, p) /\ r[i] = k
  <2>1. PICK i \in DOMAIN w : IsFile(d, w, i, p) /\ r[i] = k
    BY DEF Filed
  <2> QED BY <1>1, <2>1
<1>5. ASSUME NEW p \in Paths, NEW i \in DOMAIN w, NEW j \in DOMAIN w,
             IsFile(e, w, i, p), IsFile(e, w, j, p), i < j
      PROVE  r[i] < r[j]
  <2>1. IsFile(d, w, i, p) /\ IsFile(d, w, j, p)
    BY <1>1, <1>5
  <2> QED BY <1>5, <2>1 DEF Filed
<1> QED BY <1>2, <1>3, <1>4, <1>5 DEF Filed

(* Where a known file is there is data, and it is in use.                  *)
LEMMA KnownSector ==
  ASSUME DiskInv, NEW w, NEW r, ChainInv(w, r),
         NEW p \in Paths, NEW i \in DOMAIN w, IsFile(disk, w, i, p),
         versions[p][r[i]].known, NEW k \in DOMAIN versions[p][r[i]].contents,
         NEW own, own # w[i]
  PROVE  /\ PartAt(disk, w, i, k) \in LBA
         /\ disk[PartAt(disk, w, i, k)].kind = "data"
         /\ PartAt(disk, w, i, k) \in InUse(disk, own)
         /\ LbaOffset + disk[w[i]].table.lba <= PartAt(disk, w, i, k)
         /\ PartAt(disk, w, i, k)
              < LbaOffset + disk[w[i]].table.lba + disk[w[i]].table.NumberSectors
<1> DEFINE v == versions[p][r[i]]
           t == disk[w[i]].table
           x == PartAt(disk, w, i, k)
<1>1. /\ disk \in [LBA -> Sectors] /\ Len(w) <= MaxTables
      /\ w[i] \in LBA /\ t.lba \in Nat /\ t.NumberSectors \in Nat
  BY ChainFacts
<1>2. r[i] \in 1..Len(versions[p]) /\ Holds(disk, t, v)
  BY DEF ChainInv, Filed
<1>3. v \in Versions
  <2>1. versions[p] \in Seq(Versions)
    BY DEF DiskInv, TypeOK
  <2> QED BY <1>2, <2>1, ElementOfSeq
<1>4. v.contents \in Seq(Nat) /\ DOMAIN v.contents = 1..Len(v.contents) /\ Len(v.contents) \in Nat
  BY <1>3, LenProperties DEF Versions
<1>5. x \in LBA /\ disk[x] = Data(v.contents[k]) /\ t.NumberSectors = Len(v.contents)
  BY <1>2 DEF Holds, PartAt
<1>6. LbaOffset + t.lba <= x /\ x < LbaOffset + t.lba + t.NumberSectors
  <2>1. k \in Nat /\ 1 <= k /\ k <= t.NumberSectors
    BY <1>4, <1>5
  <2> HIDE DEF v, t
  <2>2. x = LbaOffset + t.lba + k - 1
    BY DEF PartAt, t
  <2> HIDE DEF x
  <2> QED BY <1>1, <2>1, <2>2, Numbers
<1>7. ReadFileFromLBA(disk, w[i]) = v.contents /\ v.contents # NoFile
  <2>1. ReadFileFromLBA(disk, w[i]) = v.contents
    BY <1>1, <1>2, <1>3, ReadIsVersion
  <2>2. v.contents # <<>>
    BY <1>4
  <2> QED BY <2>1, <2>2 DEF NoFile
<1>8. ~t.folder /\ ~t.freed
  BY DEF ChainInv, FreedErased, IsFile
<1>9. x \in Extent(t)
  <2>1. x \in Nat
    BY <1>5, Numbers
  <2> HIDE DEF x, t
  <2> QED BY <1>1, <1>6, <2>1, ExtentHas
<1>10. Extent(t) \subseteq InUse(disk, own)
  <2>1. IsWalk(disk, w)
    BY DEF ChainInv
  <2> HIDE DEF v
  <2> QED BY <1>1, <1>7, <1>8, <2>1, InUseHas
<1>11. disk[x].kind = "data"
  BY <1>5 DEF Data
<1> HIDE DEF v, x, t
<1>12. x \in LBA /\ disk[x].kind = "data" /\ x \in InUse(disk, own)
  BY <1>5, <1>9, <1>10, <1>11
<1> QED BY <1>6, <1>12 DEF x, t

(* A step that writes where there is no data, or where nothing is in use,  *)
(* leaves the known files alone.                                           *)
LEMMA KeepKnown ==
  ASSUME DiskInv, NEW w, NEW r, ChainInv(w, r),
         \A x \in LBA : disk[x].kind = "data" /\ x \in InUse(disk, 0) => disk'[x] = disk[x]
  PROVE  KnownSame(disk, disk', versions, w, r)
<1> SUFFICES ASSUME NEW p \in Paths, NEW i \in DOMAIN w, IsFile(disk, w, i, p),
                    versions[p][r[i]].known, NEW k \in DOMAIN versions[p][r[i]].contents
             PROVE  disk'[PartAt(disk, w, i, k)] = disk[PartAt(disk, w, i, k)]
  BY DEF KnownSame, PartsSame
<1>1. 0 # w[i]
  BY ChainFacts
<1> QED BY <1>1, KnownSector

LEMMA KeepChain ==
  ASSUME DiskInv, NEW w, NEW r, ChainInv(w, r), DiskInv', NextFreeLBA' >= NextFreeLBA,
         TablesSame(disk, disk', w), KnownSame(disk, disk', versions, w, r), versions' = versions
  PROVE  /\ IsWalk(disk', w) /\ FreedErased(disk', w) /\ Apart(disk', w)
         /\ Filed(disk', versions', w, r)
<1>1. NextFreeLBA \in Nat /\ NextFreeLBA' \in Nat
  <2>1. NextFreeLBA \in Nat
    BY HeaderType DEF DiskInv
  <2>2. \A n : disk'[LbaOffset] = Header(n) => disk'[LbaOffset].NextFreeLBA = n
    BY DEF Header
  <2>3. disk'[LbaOffset] \in Sectors /\ disk'[LbaOffset].kind = "header"
    BY ChainFacts DEF DiskInv, TypeOK, SectorsGood
  <2>4. disk'[LbaOffset].NextFreeLBA \in Nat
    BY <2>3, SectorType
  <2> QED BY <2>1, <2>4 DEF NextFreeLBA
<1>2. /\ disk[LbaOffset].NextFreeLBA \in Nat /\ disk'[LbaOffset].NextFreeLBA \in Nat
      /\ disk[LbaOffset].NextFreeLBA <= disk'[LbaOffset].NextFreeLBA
  BY <1>1 DEF NextFreeLBA
<1>3. IsWalk(disk, w) /\ FreedErased(disk, w) /\ Apart(disk, w) /\ Filed(disk, versions, w, r)
  BY DEF ChainInv
<1>4. IsWalk(disk', w) /\ FreedErased(disk', w)
  BY <1>3, KeepWalk
<1>5. Apart(disk', w)
  BY <1>2, <1>3, KeepApart
<1>6. FilesSame(disk, disk', w)
  BY TablesSameFiles
<1>7. Filed(disk', versions', w, r)
  BY <1>3, <1>6, KeepFiled
<1> QED BY <1>4, <1>5, <1>7

(* A step that writes only where nothing is in use.                        *)
LEMMA KeepFree ==
  ASSUME DiskInv, NEW w, NEW r, ChainInv(w, r), NEW S, S \cap InUse(disk, 0) = {},
         \A x \in LBA : x \notin S => disk'[x] = disk[x]
  PROVE  /\ TablesSame(disk, disk', w) /\ KnownSame(disk, disk', versions, w, r)
         /\ \A i \in DOMAIN w : w[i] \notin S
<1>1. \A i \in DOMAIN w : w[i] \in InUse(disk, 0) /\ w[i] \in LBA
  <2>1. /\ disk \in [LBA -> Sectors] /\ IsWalk(disk, w) /\ Len(w) <= MaxTables
        /\ \A i \in DOMAIN w : w[i] \in LBA
    BY ChainFacts DEF ChainInv
  <2> QED BY <2>1, InUseHas
<1>2. \A i \in DOMAIN w : w[i] \notin S
  BY <1>1
<1>3. TablesSame(disk, disk', w)
  BY <1>1, <1>2 DEF TablesSame
<1>4. \A x \in LBA : disk[x].kind = "data" /\ x \in InUse(disk, 0) => disk'[x] = disk[x]
  OBVIOUS
<1>5. KnownSame(disk, disk', versions, w, r)
  BY <1>4, KeepKnown
<1> QED BY <1>2, <1>3, <1>5

(* A step that leaves the disk alone.                                      *)
LEMMA KeepDisk ==
  ASSUME DiskInv, NEW w, NEW r, ChainInv(w, r), DiskInv', UNCHANGED <<disk, versions>>
  PROVE  /\ IsWalk(disk', w) /\ FreedErased(disk', w) /\ Apart(disk', w)
         /\ Filed(disk', versions', w, r)
BY DEF ChainInv

LEMMA ChainWriteNewHome ==
  ASSUME DiskInv, NEW w, NEW r, ChainInv(w, r), DiskInv',
         NEW p \in Paths, NEW s \in Contents, WriteNewHome(p, s)
  PROVE  ChainInv(w, r)'
<1>1. /\ pc = "idle" /\ writes' = writes + 1 /\ pc' = "homeData"
      /\ UNCHANGED <<disk, versions>>
  BY DEF WriteNewHome, CanWrite
<1>2. /\ IsWalk(disk', w) /\ FreedErased(disk', w) /\ Apart(disk', w)
      /\ Filed(disk', versions', w, r)
  BY <1>1, KeepDisk
<1>3. HasRoom(w)'
  <2>1. writes \in 0..MaxWrites /\ Len(w) \in Nat /\ HasRoom(w)
    BY ChainFacts DEF DiskInv, TypeOK, ChainInv
  <2> QED BY <1>1, <2>1, Numbers DEF HasRoom
<1>4. OldKnown(w)' /\ CutOut(w)' /\ NewTableMade(w)' /\ NewFileLast(w, r)'
  BY <1>1 DEF OldKnown, CutOut, NewTableMade, NewFileLast
<1> QED BY <1>2, <1>3, <1>4 DEF ChainInv

LEMMA ChainHomeData ==
  ASSUME DiskInv, NEW w, NEW r, ChainInv(w, r), DiskInv', HomeData, ~overwritten'
  PROVE  ChainInv(w, r)'
<1> DEFINE S == SectorsWritten(job.lba, job.contents)
<1>1. /\ pc = "homeData" /\ PutFile(job.lba, job.contents) /\ pc' = "homeIndex"
      /\ UNCHANGED <<FileSystemHeader, job, writes, failures, versions>>
      /\ S \cap InUse(disk, 0) = {}
  BY DEF HomeData, Takes
<1>2. \A x \in LBA : x \notin S => disk'[x] = disk[x]
  <2>1. job.lba \in Nat /\ job.contents \in Seq(Nat) /\ job.lba > LbaOffset
    BY <1>1, JobType DEF DiskInv, JobGood
  <2> QED BY <1>1, <2>1, PutSectors DEF DiskInv
<1>3. NextFreeLBA' = NextFreeLBA /\ NextFreeLBA \in Nat
  BY DiskHomeData, HeaderType DEF DiskInv
<1> HIDE DEF S
<1>4. TablesSame(disk, disk', w) /\ KnownSame(disk, disk', versions, w, r)
  BY <1>1, <1>2, KeepFree
<1>5. NextFreeLBA' >= NextFreeLBA
  BY <1>3
<1>6. /\ IsWalk(disk', w) /\ FreedErased(disk', w) /\ Apart(disk', w)
      /\ Filed(disk', versions', w, r)
  BY <1>1, <1>4, <1>5, KeepChain
<1>7. HasRoom(w)'
  BY <1>1 DEF ChainInv, HasRoom
<1>8. OldKnown(w)' /\ CutOut(w)' /\ NewTableMade(w)' /\ NewFileLast(w, r)'
  BY <1>1 DEF OldKnown, CutOut, NewTableMade, NewFileLast
<1> QED BY <1>6, <1>7, <1>8 DEF ChainInv

LEMMA ChainHomeIndex ==
  ASSUME DiskInv, NEW w, NEW r, ChainInv(w, r), DiskInv', HomeIndex, ~overwritten'
  PROVE  ChainInv(w, r)'
<1> DEFINE a == job.lba + Len(job.contents)
<1>1. /\ pc = "homeIndex" /\ pc' = "link"
      /\ disk' = [disk EXCEPT ![a] = Table(NewIndex(job.lba, 0))]
      /\ UNCHANGED <<FileSystemHeader, job, writes, failures, versions>>
      /\ {a} \cap InUse(disk, 0) = {}
  BY DEF HomeIndex, Put, Takes
<1>2. /\ ~job.reuse /\ job.lba \in Nat /\ job.lba > LbaOffset /\ Len(job.contents) \in Nat
      /\ a = LbaOffset + FileSystemHeader
  BY <1>1, JobType DEF DiskInv, JobGood
<1>3. NextFreeLBA' = NextFreeLBA /\ NextFreeLBA \in Nat
  BY DiskHomeIndex, HeaderType DEF DiskInv
<1>4. a = NewTableAt' /\ NewIndex(job.lba, 0)' = NewIndex(job.lba, 0)
  <2>1. job' = job /\ FileSystemHeader' = FileSystemHeader
    BY <1>1
  <2>2. NewIndex(job.lba, 0)' = NewIndex(job.lba, 0)
    BY <2>1 DEF NewIndex
  <2>3. NewTableAt' = LbaOffset + 1 + (job.lba + Len(job.contents) - LbaOffset - 1)
    BY <1>2, <2>1 DEF NewTableAt, NewLink
  <2>4. a = NewTableAt'
    BY <1>2, <2>3, Numbers
  <2> QED BY <2>2, <2>4
<1>5. a \in LBA
  <2>1. FileSystemHeader \in Nat /\ FileSystemHeader < DiskSize
    BY <1>1, JobType DEF DiskInv, HeaderGood
  <2> HIDE DEF a
  <2> QED BY <1>2, <2>1, Numbers
<1> HIDE DEF a
<1>6. disk' [a] = Table(NewIndex(job.lba, 0)) /\ \A x \in LBA : x \notin {a} => disk'[x] = disk[x]
  BY <1>1, <1>5, ChainFacts
<1>7. /\ TablesSame(disk, disk', w) /\ KnownSame(disk, disk', versions, w, r)
      /\ \A i \in DOMAIN w : w[i] \notin {a}
  BY <1>1, <1>6, KeepFree
<1>8. NextFreeLBA' >= NextFreeLBA
  BY <1>3
<1>9. /\ IsWalk(disk', w) /\ FreedErased(disk', w) /\ Apart(disk', w)
      /\ Filed(disk', versions', w, r)
  BY <1>1, <1>7, <1>8, KeepChain
<1>10. HasRoom(w)'
  BY <1>1 DEF ChainInv, HasRoom
<1>11. NewTableMade(w)'
  BY <1>1, <1>4, <1>5, <1>6, <1>7 DEF NewTableMade
<1>12. CutOut(w)'
  <2>1. NewIndex(job.lba, 0)'.lba > LbaOffset /\ NewIndex(job.lba, 0)'.lba \in Nat
    BY <1>2, <1>4 DEF NewIndex
  <2>2. \A x \in Nat : ~Owns(NewIndex(job.lba, 0)', x)
    BY <2>1, Numbers DEF Owns
  <2> QED BY <2>2 DEF CutOut
<1>13. OldKnown(w)' /\ NewFileLast(w, r)'
  BY <1>1 DEF OldKnown, NewFileLast
<1> QED BY <1>9, <1>10, <1>11, <1>12, <1>13 DEF ChainInv

LEMMA ChainWriteReuse ==
  ASSUME DiskInv, NEW w, NEW r, ChainInv(w, r), DiskInv',
         NEW p \in Paths, NEW s \in Contents, WriteReuse(p, s)
  PROVE  ChainInv(w, r)'
<1> DEFINE a == NewFileOldIndex(disk, s)
<1>1. /\ pc = "idle" /\ writes' = writes + 1 /\ pc' = "shrink" /\ job'.old = a
      /\ GetFreedIndexTables(disk, s) # {}
      /\ UNCHANGED <<disk, versions>>
  BY DEF WriteReuse, CanWrite
<1>2. /\ IsWalk(disk', w) /\ FreedErased(disk', w) /\ Apart(disk', w)
      /\ Filed(disk', versions', w, r)
  BY <1>1, KeepDisk
<1>3. HasRoom(w)'
  <2>1. writes \in 0..MaxWrites /\ Len(w) \in Nat /\ HasRoom(w)
    BY ChainFacts DEF DiskInv, TypeOK, ChainInv
  <2> QED BY <1>1, <2>1, Numbers DEF HasRoom
<1>4. a \in TablesOf(disk)
  BY <1>1, ChainFacts, OldIndexIsFree
<1>5. TablesOf(disk) = {w[i] : i \in DOMAIN w}
  BY ChainFacts, WalkIsChain DEF ChainInv
<1> HIDE DEF a
<1>6. OldKnown(w)'
  BY <1>1, <1>4, <1>5 DEF OldKnown
<1>7. CutOut(w)' /\ NewTableMade(w)' /\ NewFileLast(w, r)'
  BY <1>1 DEF CutOut, NewTableMade, NewFileLast
<1> QED BY <1>2, <1>3, <1>6, <1>7 DEF ChainInv

(* Below 2 * LbaOffset, the sectors a table has lost nobody else has.      *)
LEMMA ChainShrink ==
  ASSUME DiskInv, NEW w, NEW r, ChainInv(w, r), Shrink
  PROVE  ChainInv(w, r)'
<1> DEFINE n == Len(job.contents)
           old == disk[job.old].table
           own == NewIndex(job.lba, 0)
<1>1. /\ pc = "shrink" /\ pc' = "reuseIndex"
      /\ UNCHANGED <<job, writes, failures, versions, overwritten>>
  BY DEF Shrink
<1>2. /\ DiskInv' /\ NextFreeLBA' = NextFreeLBA
      /\ job.old \in LBA /\ disk' = [disk EXCEPT ![job.old] = Table(ShrunkOld)]
      /\ ShrunkOld \in FileIndex
  BY DiskShrink
<1>3. PICK i \in DOMAIN w : w[i] = job.old
  BY <1>1 DEF ChainInv, OldKnown
<1>4. /\ disk \in [LBA -> Sectors]
      /\ \A j \in DOMAIN w : w[j] \in LBA /\ disk[w[j]].table \in FileIndex
  BY ChainFacts
<1>5. /\ old \in FileIndex /\ old.lba \in Nat /\ old.NumberSectors \in Nat
      /\ n \in Nat /\ old.freed /\ old.NumberSectors > n /\ old.lba = job.lba
  <2>1. old \in FileIndex
    BY <1>3, <1>4
  <2>2. n \in Nat /\ old.freed /\ old.NumberSectors > n /\ old.lba = job.lba
    BY <1>1, JobType DEF DiskInv, JobGood
  <2> HIDE DEF old, n
  <2> QED BY <2>1, <2>2 DEF FileIndex
<1>6. /\ ShrunkOld.lba = old.lba + n /\ ShrunkOld.NumberSectors = old.NumberSectors - n
      /\ ShrunkOld.freed = old.freed /\ ShrunkOld.path = old.path
      /\ ShrunkOld.folder = old.folder /\ ShrunkOld.NextLBA = old.NextLBA
  BY <1>5 DEF ShrunkOld, FileIndex
<1>7. own' = own /\ own.lba = job.lba /\ own.NumberSectors = n
  BY <1>1 DEF NewIndex
<1>8. disk'[w[i]] = Table(ShrunkOld) /\ disk'[w[i]].kind = "table" /\ disk'[w[i]].table = ShrunkOld
  BY <1>2, <1>3, <1>4 DEF Table
<1>9. \A j \in DOMAIN w : j # i => disk'[w[j]] = disk[w[j]]
  <2>1. \A j \in DOMAIN w : j # i => w[j] # job.old
    BY <1>3 DEF ChainInv, IsWalk
  <2> QED BY <1>2, <1>4, <2>1
<1>10. disk[w[i]].table = old
  BY <1>3
<1> HIDE DEF old, n, own
<1>11. IsWalk(disk', w)
  <2>1. \A j \in DOMAIN w : /\ disk'[w[j]].kind = "table"
                            /\ disk'[w[j]].table.NextLBA = disk[w[j]].table.NextLBA
    BY <1>6, <1>8, <1>9, <1>10 DEF ChainInv, IsWalk
  <2> QED BY <2>1 DEF ChainInv, IsWalk
<1>12. FreedErased(disk', w)
  BY <1>6, <1>8, <1>9, <1>10 DEF ChainInv, FreedErased
<1>13. \A x \in Nat :
         /\ Owns(ShrunkOld, x) => Owns(old, x) /\ ~Owns(own, x)
         /\ Owns(own, x) => Owns(old, x)
  <2> SUFFICES ASSUME NEW x \in Nat
               PROVE  /\ Owns(ShrunkOld, x) => Owns(old, x) /\ ~Owns(own, x)
                      /\ Owns(own, x) => Owns(old, x)
    OBVIOUS
  <2>1. LbaOffset \in Nat
    BY Numbers
  <2> QED BY <1>5, <1>6, <1>7, <2>1 DEF Owns
<1>14. \A j \in DOMAIN w, x \in Nat : Owns(disk'[w[j]].table, x) => Owns(disk[w[j]].table, x)
  BY <1>8, <1>9, <1>10, <1>13
<1>15. Apart(disk, w) /\ disk'[LbaOffset].NextFreeLBA = disk[LbaOffset].NextFreeLBA
  BY <1>2 DEF ChainInv, NextFreeLBA
<1>16. Apart(disk', w)
  <2> SUFFICES ASSUME NEW j \in DOMAIN w, NEW x \in Nat, Owns(disk'[w[j]].table, x)
               PROVE  /\ x < LbaOffset + disk'[LbaOffset].NextFreeLBA
                      /\ \A l \in DOMAIN w : w[l] # x /\ (Owns(disk'[w[l]].table, x) => j = l)
    BY DEF Apart
  <2>1. Owns(disk[w[j]].table, x)
    BY <1>14
  <2>2. /\ x < LbaOffset + disk[LbaOffset].NextFreeLBA
        /\ \A l \in DOMAIN w : w[l] # x /\ (Owns(disk[w[l]].table, x) => j = l)
    BY <1>15, <2>1 DEF Apart
  <2> QED BY <1>14, <1>15, <2>2
<1>17. CutOut(w)'
  <2> SUFFICES ASSUME NEW x \in Nat, Owns(own, x)
               PROVE  /\ x < LbaOffset + NextFreeLBA
                      /\ \A j \in DOMAIN w : w[j] # x /\ ~Owns(disk'[w[j]].table, x)
    BY <1>2, <1>7 DEF CutOut, own
  <2>1. Owns(disk[w[i]].table, x)
    BY <1>10, <1>13
  <2>2. /\ x < LbaOffset + disk[LbaOffset].NextFreeLBA
        /\ \A j \in DOMAIN w : w[j] # x /\ (Owns(disk[w[j]].table, x) => i = j)
    BY <1>15, <2>1 DEF Apart
  <2>3. ASSUME NEW j \in DOMAIN w PROVE ~Owns(disk'[w[j]].table, x)
    <3>1. CASE j = i
      BY <1>8, <1>13, <3>1
    <3>2. CASE j # i
      BY <1>9, <2>2, <3>2
    <3> QED BY <3>1, <3>2
  <2> QED BY <2>2, <2>3 DEF NextFreeLBA
<1>18. FilesSame(disk, disk', w)
  <2> SUFFICES ASSUME NEW j \in DOMAIN w, NEW p \in Paths
               PROVE  /\ IsFile(disk', w, j, p) <=> IsFile(disk, w, j, p)
                      /\ IsFile(disk, w, j, p) => disk'[w[j]].table = disk[w[j]].table
    BY DEF FilesSame
  <2>1. CASE j = i
    <3>1. old.path \notin Paths
      BY <1>5, <1>10 DEF ChainInv, FreedErased
    <3> QED BY <1>6, <1>8, <1>10, <2>1, <3>1 DEF IsFile
  <2>2. CASE j # i
    BY <1>9, <2>2 DEF IsFile
  <2> QED BY <2>1, <2>2
<1>19. KnownSame(disk, disk', versions, w, r)
  <2>1. disk[job.old].kind = "table"
    BY <1>3 DEF ChainInv, IsWalk
  <2>2. \A x \in LBA : disk[x].kind = "data" => disk'[x] = disk[x]
    BY <1>2, <1>4, <2>1
  <2> QED BY <2>2, KeepKnown
<1>20. Filed(disk', versions', w, r)
  BY <1>1, <1>18, <1>19, KeepFiled DEF ChainInv
<1>21. HasRoom(w)'
  BY <1>1 DEF ChainInv, HasRoom
<1>22. OldKnown(w)' /\ NewTableMade(w)' /\ NewFileLast(w, r)'
  BY <1>1 DEF OldKnown, NewTableMade, NewFileLast
<1> QED BY <1>11, <1>12, <1>16, <1>17, <1>20, <1>21, <1>22 DEF ChainInv

LEMMA ChainReuseIndex ==
  ASSUME DiskInv, NEW w, NEW r, ChainInv(w, r), DiskInv', ReuseIndex, ~overwritten'
  PROVE  ChainInv(w, r)'
<1> DEFINE a == LbaOffset + FileSystemHeader - 1
<1>1. /\ pc = "reuseIndex" /\ pc' = "link"
      /\ disk' = [disk EXCEPT ![a] = Table(NewIndex(job.lba, 0))]
      /\ UNCHANGED <<FileSystemHeader, job, writes, failures, versions>>
      /\ {a} \cap InUse(disk, 0) = {}
  BY DEF ReuseIndex, Put, Takes
<1>2. job.reuse
  BY <1>1 DEF DiskInv, JobGood
<1>3. NextFreeLBA' = NextFreeLBA /\ NextFreeLBA \in Nat
  BY DiskReuseIndex, HeaderType DEF DiskInv
<1>4. NewTableAt' = a /\ NewIndex(job.lba, 0)' = NewIndex(job.lba, 0)
  <2>1. NewIndex(job.lba, 0)' = NewIndex(job.lba, 0)
    BY <1>1 DEF NewIndex
  <2>2. NewTableAt' = LbaOffset + 1 + (FileSystemHeader - 2)
    BY <1>1, <1>2 DEF NewTableAt, NewLink
  <2>3. FileSystemHeader \in Nat
    BY JobType DEF DiskInv
  <2>4. LbaOffset + 1 + (FileSystemHeader - 2) = a
    BY <2>3, Numbers
  <2> QED BY <2>1, <2>2, <2>4
<1>5. a \in LBA
  <2>1. FileSystemHeader \in Nat /\ FileSystemHeader < DiskSize /\ FileSystemHeader > NextFreeLBA
    BY <1>1, JobType DEF DiskInv, HeaderGood
  <2>2. a \in Nat /\ LbaOffset <= a /\ a < LbaOffset + DiskSize
    BY <1>3, <2>1, Numbers
  <2> HIDE DEF a
  <2> QED BY <2>2, Numbers
<1> HIDE DEF a
<1>6. disk'[a] = Table(NewIndex(job.lba, 0)) /\ \A x \in LBA : x \notin {a} => disk'[x] = disk[x]
  BY <1>1, <1>5, ChainFacts
<1>7. /\ TablesSame(disk, disk', w) /\ KnownSame(disk, disk', versions, w, r)
      /\ \A i \in DOMAIN w : w[i] \notin {a}
  BY <1>1, <1>6, KeepFree
<1>8. NextFreeLBA' >= NextFreeLBA
  BY <1>3
<1>9. /\ IsWalk(disk', w) /\ FreedErased(disk', w) /\ Apart(disk', w)
      /\ Filed(disk', versions', w, r)
  BY <1>1, <1>7, <1>8, KeepChain
<1>10. HasRoom(w)'
  BY <1>1 DEF ChainInv, HasRoom
<1>11. NewTableMade(w)'
  BY <1>1, <1>4, <1>5, <1>6, <1>7 DEF NewTableMade
<1>12. CutOut(w)'
  <2>1. \A i \in DOMAIN w : disk'[w[i]] = disk[w[i]]
    BY <1>7 DEF TablesSame
  <2>2. \A x \in Nat : Owns(NewIndex(job.lba, 0), x) =>
          /\ x < LbaOffset + NextFreeLBA
          /\ \A j \in DOMAIN w : w[j] # x /\ ~Owns(disk[w[j]].table, x)
    BY <1>1 DEF ChainInv, CutOut
  <2> QED BY <1>3, <1>4, <2>1, <2>2 DEF CutOut
<1>13. OldKnown(w)' /\ NewFileLast(w, r)'
  BY <1>1 DEF OldKnown, NewFileLast
<1> QED BY <1>9, <1>10, <1>11, <1>12, <1>13 DEF ChainInv

LEMMA ChainWriteHeader ==
  ASSUME DiskInv, NEW w, NEW r, ChainInv(w, r), WriteHeader
  PROVE  ChainInv(w, r)'
<1>1. /\ pc = "header" /\ pc' \in {"idle", "halted"}
      /\ UNCHANGED <<FileSystemHeader, writes, failures, versions, overwritten>>
  BY DEF WriteHeader
<1>2. /\ DiskInv' /\ NextFreeLBA' = FileSystemHeader
      /\ \A x \in LBA : x # LbaOffset => disk'[x] = disk[x]
  BY DiskWriteHeader
<1>3. NextFreeLBA' >= NextFreeLBA
  <2>1. FileSystemHeader > NextFreeLBA /\ FileSystemHeader \in Nat /\ NextFreeLBA \in Nat
    BY <1>1, JobType, HeaderType DEF DiskInv, HeaderGood
  <2> QED BY <1>2, <2>1
<1>4. TablesSame(disk, disk', w)
  BY <1>2, ChainFacts DEF TablesSame
<1>5. KnownSame(disk, disk', versions, w, r)
  <2>1. disk[LbaOffset].kind = "header"
    BY DEF DiskInv, SectorsGood
  <2>2. \A x \in LBA : disk[x].kind = "data" => disk'[x] = disk[x]
    BY <1>2, <2>1
  <2> QED BY <2>2, KeepKnown
<1>6. /\ IsWalk(disk', w) /\ FreedErased(disk', w) /\ Apart(disk', w)
      /\ Filed(disk', versions', w, r)
  BY <1>1, <1>2, <1>3, <1>4, <1>5, KeepChain
<1>7. HasRoom(w)'
  BY <1>1 DEF ChainInv, HasRoom
<1>8. OldKnown(w)' /\ CutOut(w)' /\ NewTableMade(w)' /\ NewFileLast(w, r)'
  BY <1>1 DEF OldKnown, CutOut, NewTableMade, NewFileLast
<1> QED BY <1>6, <1>7, <1>8 DEF ChainInv

LEMMA ChainPowerFailure ==
  ASSUME DiskInv, NEW w, NEW r, ChainInv(w, r), DiskInv', PowerFailure
  PROVE  ChainInv(w, r)'
<1>1. pc' \in {"idle", "halted"} /\ UNCHANGED <<disk, writes, versions>>
  BY DEF PowerFailure, InitFS
<1>2. /\ IsWalk(disk', w) /\ FreedErased(disk', w) /\ Apart(disk', w)
      /\ Filed(disk', versions', w, r)
  BY <1>1, KeepDisk
<1>3. HasRoom(w)'
  <2>1. Len(w) \in Nat /\ writes \in 0..MaxWrites /\ HasRoom(w)
    BY ChainFacts DEF DiskInv, TypeOK, ChainInv
  <2> QED BY <1>1, <2>1, Numbers DEF HasRoom
<1>4. OldKnown(w)' /\ CutOut(w)' /\ NewTableMade(w)' /\ NewFileLast(w, r)'
  BY <1>1 DEF OldKnown, CutOut, NewTableMade, NewFileLast
<1> QED BY <1>2, <1>3, <1>4 DEF ChainInv

LEMMA ChainStutter ==
  ASSUME NEW w, NEW r, ChainInv(w, r), UNCHANGED vars
  PROVE  ChainInv(w, r)'
BY DEF ChainInv, HasRoom, OldKnown, CutOut, NewTableMade, NewFileLast, NewTableAt, NewLink,
       NewIndex, NextFreeLBA, vars

(* The last file of a path is its last version.                            *)
LEMMA LastIsLast ==
  ASSUME NEW d, NEW vs, NEW w, NEW r, Filed(d, vs, w, r), NEW p \in Paths,
         vs[p] \in Seq(Versions), DOMAIN w \subseteq Nat,
         NEW i \in DOMAIN w, IsFile(d, w, i, p),
         \A j \in DOMAIN w : IsFile(d, w, j, p) => j <= i
  PROVE  r[i] = Len(vs[p]) /\ Len(vs[p]) \in Nat /\ Len(vs[p]) >= 1
<1>1. Len(vs[p]) \in Nat /\ r[i] \in 1..Len(vs[p])
  BY LenProperties DEF Filed
<1>2. Len(vs[p]) \in 1..Len(vs[p]) /\ Len(vs[p]) >= 1
  BY <1>1
<1>3. PICK j \in DOMAIN w : IsFile(d, w, j, p) /\ r[j] = Len(vs[p])
  BY <1>2 DEF Filed
<1>4. i \in Nat /\ j \in Nat /\ j <= i
  BY <1>3
<1>5. ASSUME j < i PROVE FALSE
  <2>1. r[j] < r[i]
    BY <1>3, <1>5 DEF Filed
  <2> QED BY <1>1, <1>3, <2>1
<1>6. j = i
  BY <1>4, <1>5
<1> QED BY <1>1, <1>2, <1>3, <1>6

LEMMA ChainRemoveFile ==
  ASSUME DiskInv, NEW w, NEW r, ChainInv(w, r), NEW p \in Paths, RemoveFile(p)
  PROVE  ChainInv(w, r)'
<1> DEFINE v == versions[p]
<1>1. /\ pc = "idle" /\ FindFileLBA(disk, p) # 0
      /\ disk' = [disk EXCEPT ![FindFileLBA(disk, p)] = Table(Removed(FindFileLBA(disk, p)))]
      /\ versions' = [versions EXCEPT ![p] = SubSeq(v, 1, Len(v) - 1)]
      /\ UNCHANGED <<FileSystemHeader, pc, job, writes, failures, overwritten>>
  BY DEF RemoveFile, Removed, Put
<1>2. DiskInv' /\ NextFreeLBA' = NextFreeLBA
  BY DiskRemoveFile
<1>3. /\ disk \in [LBA -> Sectors] /\ Len(w) <= MaxTables /\ DOMAIN w \subseteq Nat
      /\ \A j \in DOMAIN w : w[j] \in LBA /\ disk[w[j]].table \in FileIndex
  BY ChainFacts
<1>4. PICK i \in DOMAIN w : /\ IsFile(disk, w, i, p)
                            /\ \A j \in DOMAIN w : IsFile(disk, w, j, p) => j <= i
                            /\ FindFileLBA(disk, p) = w[i]
  <2>1. IsWalk(disk, w)
    BY DEF ChainInv
  <2> QED BY <1>1, <1>3, <2>1, FindIsLast
<1>5. versions \in [Paths -> Seq(Versions)] /\ v \in Seq(Versions)
  BY DEF DiskInv, TypeOK
<1>6. r[i] = Len(v) /\ Len(v) \in Nat /\ Len(v) >= 1
  BY <1>3, <1>4, <1>5, LastIsLast DEF ChainInv
<1>7. /\ versions'[p] = SubSeq(v, 1, Len(v) - 1)
      /\ \A q \in Paths : q # p => versions'[q] = versions[q]
  BY <1>1, <1>5
<1>8. Len(versions'[p]) = Len(v) - 1 /\ \A k \in 1..(Len(v) - 1) : versions'[p][k] = v[k]
  <2>1. \A k \in 1..(Len(v) - 1) : v[k] \in Versions
    <3>1. \A k \in 1..(Len(v) - 1) : k \in 1..Len(v)
      BY <1>6
    <3> QED BY <1>5, <3>1, ElementOfSeq
  <2>2. 1 \in Int /\ Len(v) - 1 \in Int
    BY <1>6
  <2> HIDE DEF v
  <2>3. /\ Len(SubSeq(v, 1, Len(v) - 1)) = IF 1 <= Len(v) - 1 THEN Len(v) - 1 - 1 + 1 ELSE 0
        /\ \A k \in 1..(Len(v) - 1 - 1 + 1) : SubSeq(v, 1, Len(v) - 1)[k] = v[1 + k - 1]
    BY <2>1, <2>2, SubSeqProperties
  <2>4. Len(SubSeq(v, 1, Len(v) - 1)) = Len(v) - 1
    <3>1. \A m \in Nat : m >= 1 => (IF 1 <= m - 1 THEN m - 1 - 1 + 1 ELSE 0) = m - 1
      OBVIOUS
    <3> QED BY <1>6, <2>3, <3>1
  <2>5. \A k \in 1..(Len(v) - 1) : k \in 1..(Len(v) - 1 - 1 + 1) /\ 1 + k - 1 = k
    BY <1>6
  <2> QED BY <1>7, <2>3, <2>4, <2>5
<1>9. disk[w[i]].table \in FileIndex
  BY <1>3
<1>10. /\ disk'[w[i]] = Table(Removed(w[i])) /\ disk'[w[i]].kind = "table"
       /\ disk'[w[i]].table = Removed(w[i])
  BY <1>1, <1>3, <1>4 DEF Table
<1>11. /\ Removed(w[i]).lba = disk[w[i]].table.lba
       /\ Removed(w[i]).NumberSectors = disk[w[i]].table.NumberSectors
       /\ Removed(w[i]).NextLBA = disk[w[i]].table.NextLBA
       /\ Removed(w[i]).path = Erased
  BY <1>9 DEF Removed, FileIndex
<1>12. \A j \in DOMAIN w : j # i => disk'[w[j]] = disk[w[j]]
  <2>1. \A j \in DOMAIN w : j # i => w[j] # w[i]
    BY DEF ChainInv, IsWalk
  <2> QED BY <1>1, <1>3, <1>4, <2>1
<1>13. \A j \in DOMAIN w : /\ disk'[w[j]].kind = "table"
                           /\ disk'[w[j]].table.NextLBA = disk[w[j]].table.NextLBA
                           /\ disk'[w[j]].table.lba = disk[w[j]].table.lba
                           /\ disk'[w[j]].table.NumberSectors = disk[w[j]].table.NumberSectors
  BY <1>10, <1>11, <1>12 DEF ChainInv, IsWalk
<1>14. IsWalk(disk', w)
  BY <1>13 DEF ChainInv, IsWalk
<1>15. Erased \notin Paths
  BY ImagesAssumption
<1>16. FreedErased(disk', w)
  BY <1>10, <1>11, <1>12, <1>15 DEF ChainInv, FreedErased
<1>17. Apart(disk', w)
  <2>1. disk'[LbaOffset].NextFreeLBA = disk[LbaOffset].NextFreeLBA
    BY <1>2 DEF NextFreeLBA
  <2>2. \A j \in DOMAIN w, x \in Nat : Owns(disk'[w[j]].table, x) <=> Owns(disk[w[j]].table, x)
    BY <1>13 DEF Owns
  <2> QED BY <2>1, <2>2 DEF ChainInv, Apart
<1>18. \A q \in Paths, j \in DOMAIN w :
         IsFile(disk', w, j, q) <=> IsFile(disk, w, j, q) /\ j # i
  BY <1>10, <1>11, <1>12, <1>15 DEF IsFile
<1>19. KnownSame(disk, disk', versions, w, r)
  <2>1. disk[w[i]].kind = "table"
    BY DEF ChainInv, IsWalk
  <2>2. \A x \in LBA : disk[x].kind = "data" => disk'[x] = disk[x]
    BY <1>1, <1>3, <1>4, <2>1
  <2> QED BY <2>2, KeepKnown
<1> HIDE DEF v
<1>20. Filed(disk, versions, w, r)
  BY DEF ChainInv
<1>21. r \in [DOMAIN w -> Nat]
  BY <1>20 DEF Filed
<1>22. ASSUME NEW j \in DOMAIN w, IsFile(disk, w, j, p), j # i PROVE r[j] \in 1..(Len(v) - 1)
  <2>1. j < i
    <3>1. j \in Nat /\ i \in Nat /\ j <= i
      BY <1>3, <1>4, <1>22
    <3> QED BY <1>22, <3>1
  <2>2. r[j] < r[i] /\ r[j] \in 1..Len(v)
    BY <1>4, <1>20, <1>22, <2>1 DEF Filed, v
  <2> QED BY <1>6, <2>2
<1>23. ASSUME NEW q \in Paths, NEW j \in DOMAIN w, IsFile(disk', w, j, q)
       PROVE  /\ r[j] \in 1..Len(versions'[q])
              /\ Holds(disk', disk'[w[j]].table, versions'[q][r[j]])
  <2>1. IsFile(disk, w, j, q) /\ j # i
    BY <1>18, <1>23
  <2>2. SameExtent(disk'[w[j]].table, disk[w[j]].table)
    BY <1>12, <2>1 DEF SameExtent
  <2>3. r[j] \in 1..Len(versions[q]) /\ Holds(disk', disk'[w[j]].table, versions[q][r[j]])
    BY <1>19, <1>20, <2>1, <2>2, KeepHolds DEF KnownSame
  <2>4. CASE q = p
    BY <1>8, <1>22, <2>1, <2>3, <2>4 DEF v
  <2>5. CASE q # p
    BY <1>7, <2>3, <2>5
  <2> QED BY <2>4, <2>5
<1>24. ASSUME NEW q \in Paths, NEW k \in 1..Len(versions'[q])
       PROVE  \E j \in DOMAIN w : IsFile(disk', w, j, q) /\ r[j] = k
  <2>1. CASE q = p
    <3>1. k \in 1..Len(v) /\ k # Len(v)
      BY <1>6, <1>8, <2>1
    <3>2. PICK j \in DOMAIN w : IsFile(disk, w, j, p) /\ r[j] = k
      BY <1>20, <3>1 DEF Filed, v
    <3>3. j # i
      BY <1>6, <3>1, <3>2
    <3> QED BY <1>18, <2>1, <3>2, <3>3
  <2>2. CASE q # p
    <3>1. k \in 1..Len(versions[q])
      BY <1>7, <2>2
    <3>2. PICK j \in DOMAIN w : IsFile(disk, w, j, q) /\ r[j] = k
      BY <1>20, <3>1 DEF Filed
    <3>3. j # i
      BY <1>4, <2>2, <3>2 DEF IsFile
    <3> QED BY <1>18, <3>2, <3>3
  <2> QED BY <2>1, <2>2
<1>25. ASSUME NEW q \in Paths, NEW j \in DOMAIN w, NEW l \in DOMAIN w,
              IsFile(disk', w, j, q), IsFile(disk', w, l, q), j < l
       PROVE  r[j] < r[l]
  <2>1. IsFile(disk, w, j, q) /\ IsFile(disk, w, l, q)
    BY <1>18, <1>25
  <2> QED BY <1>20, <1>25, <2>1 DEF Filed
<1>26. Filed(disk', versions', w, r)
  BY <1>21, <1>23, <1>24, <1>25 DEF Filed
<1>27. HasRoom(w)'
  BY <1>1 DEF ChainInv, HasRoom
<1>28. OldKnown(w)' /\ CutOut(w)' /\ NewTableMade(w)' /\ NewFileLast(w, r)'
  BY <1>1 DEF OldKnown, CutOut, NewTableMade, NewFileLast
<1> QED BY <1>14, <1>16, <1>17, <1>26, <1>27, <1>28 DEF ChainInv

(* No table of w is missing from W.                                        *)
NoneLost(w, W) == \A i \in DOMAIN w : \E j \in DOMAIN W : W[j] = w[i]

(* The file a link makes is the last of the chain, and of its path.        *)
LEMMA ChainLink ==
  ASSUME DiskInv, NEW w, NEW r, ChainInv(w, r), Link
  PROVE  \E W, R : ChainInv(W, R)' /\ NoneLost(w, W)
<1> DEFINE m == Len(w)
           N == NewTableAt
           t == NewIndex(job.lba, 0)
           q == job.path
           L == Len(versions[q])
<1> PICK W, R : /\ W = Append(w, N)
                /\ R = [i \in 1..(m + 1) |-> IF i = m + 1 THEN L + 1 ELSE r[i]]
  OBVIOUS
<1>1. /\ pc = "link" /\ pc' \in {"reuseData", "header"}
      /\ disk' = [disk EXCEPT ![GetNextConnecterLBA(disk)]
                                = Table(Linked(GetNextConnecterLBA(disk)))]
      /\ versions' = [versions EXCEPT ![q] = Append(versions[q], Unknown)]
      /\ UNCHANGED <<FileSystemHeader, job, writes, failures, overwritten>>
  BY DEF Link, Put, Linked
<1>2. DiskInv' /\ NextFreeLBA' = NextFreeLBA /\ NextFreeLBA \in Nat
  BY DiskLink, HeaderType DEF DiskInv
<1>3. /\ disk \in [LBA -> Sectors] /\ m \in Nat /\ m >= 1 /\ m <= MaxTables /\ DOMAIN w = 1..m
      /\ \A i \in DOMAIN w : w[i] \in LBA /\ disk[w[i]].table \in FileIndex
  BY ChainFacts
<1>4. IsWalk(disk, w) /\ HasRoom(w) /\ FreedErased(disk, w) /\ Apart(disk, w)
  BY DEF ChainInv
<1>5. m \in DOMAIN w
  BY <1>3
<1>6. disk' = [disk EXCEPT ![w[m]] = Table(Linked(w[m]))]
  BY <1>1, <1>3, <1>4, WalkIsChain
<1>7. /\ N \in LBA /\ disk[N] = Table(t) /\ \A i \in DOMAIN w : w[i] # N
  BY <1>1 DEF ChainInv, NewTableMade
<1>8. /\ t \in FileIndex /\ t.path = q /\ t.NextLBA = 0 /\ ~t.folder /\ ~t.freed
  <2>1. TypeOK /\ job.lba \in Nat
    BY JobType DEF DiskInv
  <2> QED BY <2>1, NewIndexType
<1>9. NewLink \in Nat /\ N = LbaOffset + 1 + NewLink
  BY <1>1, NewLinkType DEF NewTableAt
<1>10. N' = N /\ t' = t /\ q' = q
  BY <1>1 DEF NewTableAt, NewLink, NewIndex
<1>11. /\ Linked(w[m]).NextLBA = NewLink
       /\ Linked(w[m]).path = disk[w[m]].table.path
       /\ Linked(w[m]).folder = disk[w[m]].table.folder
       /\ Linked(w[m]).freed = disk[w[m]].table.freed
       /\ Linked(w[m]).lba = disk[w[m]].table.lba
       /\ Linked(w[m]).NumberSectors = disk[w[m]].table.NumberSectors
       /\ Linked(w[m]).sum = disk[w[m]].table.sum
  <2>1. disk[w[m]].table \in FileIndex
    BY <1>3, <1>5
  <2> QED BY <2>1 DEF Linked, FileIndex
<1>12. /\ disk'[w[m]].kind = "table" /\ disk'[w[m]].table = Linked(w[m])
       /\ disk'[N] = Table(t) /\ disk'[N].kind = "table" /\ disk'[N].table = t
       /\ \A i \in DOMAIN w : i # m => disk'[w[i]] = disk[w[i]]
  <2>1. disk'[w[m]] = Table(Linked(w[m]))
    BY <1>3, <1>5, <1>6
  <2>2. \A i \in DOMAIN w : i # m => w[i] # w[m]
    BY <1>4, <1>5 DEF IsWalk
  <2>3. disk'[N] = disk[N] /\ \A i \in DOMAIN w : i # m => disk'[w[i]] = disk[w[i]]
    BY <1>3, <1>5, <1>6, <1>7, <2>2
  <2> QED BY <1>7, <2>1, <2>3 DEF Table
<1>13. /\ W \in Seq(LBA) /\ W # <<>> /\ Len(W) = m + 1 /\ DOMAIN W = 1..(m + 1) /\ W[m + 1] = N
       /\ \A i \in DOMAIN w : i \in DOMAIN W /\ i # m + 1 /\ W[i] = w[i]
       /\ \A i \in DOMAIN W : i = m + 1 \/ i \in DOMAIN w
  <2>1. w \in Seq(LBA)
    BY <1>4 DEF IsWalk
  <2>2. /\ W \in Seq(LBA) /\ W # <<>> /\ Len(W) = m + 1 /\ W[m + 1] = N
        /\ \A i \in 1..m : W[i] = w[i]
    BY <1>7, <2>1, AppendProperties
  <2>3. DOMAIN W = 1..(m + 1)
    BY <2>2, LenProperties
  <2>4. /\ \A i \in 1..m : i \in 1..(m + 1) /\ i # m + 1
        /\ \A i \in 1..(m + 1) : i = m + 1 \/ i \in 1..m
    BY <1>3
  <2> QED BY <1>3, <2>2, <2>3, <2>4
<1>14. /\ m + 1 \in DOMAIN W /\ R[m + 1] = L + 1
       /\ \A i \in DOMAIN w : R[i] = r[i]
       /\ R = [i \in DOMAIN W |-> R[i]]
  BY <1>3, <1>13
<1> HIDE DEF N, t, q, m
<1>15. \A i \in DOMAIN w : /\ disk'[w[i]].kind = "table"
                           /\ disk'[w[i]].table.path = disk[w[i]].table.path
                           /\ disk'[w[i]].table.folder = disk[w[i]].table.folder
                           /\ disk'[w[i]].table.freed = disk[w[i]].table.freed
                           /\ SameExtent(disk'[w[i]].table, disk[w[i]].table)
  BY <1>4, <1>11, <1>12 DEF SameExtent, IsWalk
<1>16. IsWalk(disk', W)
  <2>1. W[1] = LbaOffset + 1
    <3>1. 1 \in DOMAIN w
      BY <1>3
    <3> QED BY <1>4, <1>13, <3>1 DEF IsWalk
  <2>2. \A i \in DOMAIN W : disk'[W[i]].kind = "table"
    BY <1>12, <1>13, <1>15
  <2>3. ASSUME NEW i \in DOMAIN W
        PROVE  disk'[W[i]].table.NextLBA = IF i = Len(W) THEN 0 ELSE W[i + 1] - LbaOffset - 1
    <3>1. CASE i = m + 1
      BY <1>8, <1>12, <1>13, <3>1
    <3>2. CASE i = m
      <4>1. i # Len(W) /\ W[i + 1] = N /\ W[i] = w[m]
        BY <1>3, <1>5, <1>13, <3>2
      <4>2. NewLink = N - LbaOffset - 1
        BY <1>9, Numbers
      <4> QED BY <1>11, <1>12, <4>1, <4>2
    <3>3. CASE i # m + 1 /\ i # m
      <4>1. i \in DOMAIN w /\ i + 1 \in DOMAIN w /\ i # Len(W)
        BY <1>3, <1>13, <3>3
      <4>2. W[i] = w[i] /\ W[i + 1] = w[i + 1]
        BY <1>13, <4>1
      <4>3. disk[w[i]].table.NextLBA = w[i + 1] - LbaOffset - 1
        BY <1>4, <3>3, <4>1 DEF IsWalk, m
      <4> QED BY <1>12, <3>3, <4>1, <4>2, <4>3
    <3> QED BY <3>1, <3>2, <3>3
  <2>4. \A i, j \in DOMAIN W : W[i] = W[j] => i = j
    <3>1. \A i, j \in DOMAIN w : w[i] = w[j] => i = j
      BY <1>4 DEF IsWalk
    <3> QED BY <1>7, <1>13, <3>1
  <2> QED BY <1>13, <2>1, <2>2, <2>3, <2>4 DEF IsWalk
<1>17. HasRoom(W)'
  <2>1. m + 1 + MaxWrites - writes <= MaxTables
    BY <1>1, <1>4 DEF HasRoom, m
  <2>2. writes \in Nat
    BY Numbers DEF DiskInv, TypeOK
  <2> QED BY <1>1, <1>3, <1>13, <2>1, <2>2, Numbers DEF HasRoom
<1>18. FreedErased(disk', W)
  <2>1. \A i \in DOMAIN w : disk'[w[i]].table.freed => disk'[w[i]].table.path \notin Paths
    BY <1>4, <1>15 DEF FreedErased
  <2>2. \A i \in DOMAIN W : disk'[W[i]].table.freed => disk'[W[i]].table.path \notin Paths
    BY <1>8, <1>12, <1>13, <2>1
  <2> QED BY <2>2 DEF FreedErased
<1>19. Apart(disk', W)
  <2>1. \A x \in Nat : Owns(t, x) =>
          /\ x < LbaOffset + NextFreeLBA
          /\ \A j \in DOMAIN w : w[j] # x /\ ~Owns(disk[w[j]].table, x)
    BY <1>1 DEF ChainInv, CutOut, t
  <2>2. \A i \in DOMAIN w, x \in Nat : Owns(disk[w[i]].table, x) =>
          /\ x < LbaOffset + NextFreeLBA
          /\ \A j \in DOMAIN w : w[j] # x /\ (Owns(disk[w[j]].table, x) => i = j)
    BY <1>4 DEF Apart, NextFreeLBA
  <2>3. \A i \in DOMAIN w, x \in Nat : Owns(disk'[w[i]].table, x) <=> Owns(disk[w[i]].table, x)
    BY <1>15 DEF Owns, SameExtent
  <2>4. N \in Nat /\ N >= LbaOffset + NextFreeLBA
    <3>1. FileSystemHeader > NextFreeLBA /\ FileSystemHeader \in Nat
      BY <1>1, JobType DEF DiskInv, HeaderGood
    <3>2. N = IF job.reuse THEN LbaOffset + FileSystemHeader - 1 ELSE LbaOffset + FileSystemHeader
      BY <1>1, NewLinkType DEF N
    <3> QED BY <1>2, <3>1, <3>2, Numbers
  <2>5. \A x \in Nat : x < LbaOffset + NextFreeLBA => x # N
    BY <1>2, <2>4, Numbers
  <2>6. ASSUME NEW i \in DOMAIN W, NEW x \in Nat, Owns(disk'[W[i]].table, x)
        PROVE  /\ x < LbaOffset + NextFreeLBA
               /\ \A j \in DOMAIN W : W[j] # x /\ (Owns(disk'[W[j]].table, x) => i = j)
    <3>1. CASE i = m + 1
      <4>1. Owns(t, x)
        BY <1>12, <1>13, <2>6, <3>1
      <4>2. /\ x < LbaOffset + NextFreeLBA /\ x # N
            /\ \A j \in DOMAIN w : w[j] # x /\ ~Owns(disk'[w[j]].table, x)
        BY <2>1, <2>3, <2>5, <4>1
      <4> QED BY <1>13, <3>1, <4>2
    <3>2. CASE i \in DOMAIN w
      <4>1. Owns(disk[w[i]].table, x)
        BY <1>13, <2>3, <2>6, <3>2
      <4>2. /\ x < LbaOffset + NextFreeLBA /\ x # N /\ ~Owns(t, x)
            /\ \A j \in DOMAIN w : w[j] # x /\ (Owns(disk'[w[j]].table, x) => i = j)
        BY <2>1, <2>2, <2>3, <2>5, <3>2, <4>1
      <4> QED BY <1>12, <1>13, <4>2
    <3> QED BY <1>13, <3>1, <3>2
  <2>7. disk'[LbaOffset].NextFreeLBA = NextFreeLBA
    BY <1>2 DEF NextFreeLBA
  <2> QED BY <2>6, <2>7 DEF Apart
<1>20. /\ versions \in [Paths -> Seq(Versions)] /\ q \in Paths
       /\ versions[q] \in Seq(Versions) /\ Unknown \in Versions /\ L \in Nat
  <2>1. versions \in [Paths -> Seq(Versions)] /\ q \in Paths
    BY JobType DEF DiskInv, TypeOK, q
  <2>2. versions[q] \in Seq(Versions)
    BY <2>1
  <2>3. L \in Nat
    BY <2>2, LenProperties
  <2> QED BY <2>1, <2>2, <2>3 DEF Unknown, Versions, NoFile
<1>21. /\ Len(versions'[q]) = L + 1 /\ versions'[q][L + 1] = Unknown
       /\ \A k \in 1..L : versions'[q][k] = versions[q][k]
       /\ \A p \in Paths : p # q => versions'[p] = versions[p]
  <2>1. versions'[q] = Append(versions[q], Unknown)
    BY <1>1, <1>20
  <2>2. \A p \in Paths : p # q => versions'[p] = versions[p]
    BY <1>1, <1>20
  <2> QED BY <1>20, <2>1, <2>2, AppendProperties
<1>22. Filed(disk, versions, w, r)
  BY DEF ChainInv
<1>23. KnownSame(disk, disk', versions, w, r)
  <2>1. disk[w[m]].kind = "table"
    BY <1>4, <1>5 DEF IsWalk
  <2>2. \A x \in LBA : disk[x].kind = "data" => disk'[x] = disk[x]
    BY <1>3, <1>6, <2>1
  <2> QED BY <2>2, KeepKnown
<1>24. /\ \A i \in DOMAIN w, p \in Paths : IsFile(disk', W, i, p) <=> IsFile(disk, w, i, p)
       /\ \A p \in Paths : IsFile(disk', W, m + 1, p) <=> p = q
  BY <1>8, <1>12, <1>13, <1>15 DEF IsFile
<1>25. ASSUME NEW p \in Paths, NEW i \in DOMAIN w, IsFile(disk, w, i, p)
       PROVE  /\ r[i] \in 1..Len(versions[p])
              /\ Holds(disk', disk'[w[i]].table, versions[p][r[i]])
  BY <1>15, <1>22, <1>23, <1>25, KeepHolds DEF KnownSame
<1>26. ASSUME NEW p \in Paths, NEW i \in DOMAIN W, IsFile(disk', W, i, p)
       PROVE  /\ R[i] \in 1..Len(versions'[p])
              /\ Holds(disk', disk'[W[i]].table, versions'[p][R[i]])
  <2>1. CASE i = m + 1
    <3>1. p = q /\ R[i] = L + 1 /\ L + 1 \in 1..(L + 1)
      BY <1>14, <1>20, <1>24, <1>26, <2>1
    <3>2. versions'[p][R[i]] = Unknown
      BY <1>21, <3>1
    <3>3. ~versions'[p][R[i]].known
      BY <3>2 DEF Unknown
    <3> QED BY <1>21, <3>1, <3>3 DEF Holds
  <2>2. CASE i \in DOMAIN w
    <3>1. /\ r[i] \in 1..Len(versions[p])
          /\ Holds(disk', disk'[w[i]].table, versions[p][r[i]])
      BY <1>24, <1>25, <1>26, <2>2
    <3>2. R[i] = r[i] /\ W[i] = w[i]
      BY <1>13, <1>14, <2>2
    <3>3. CASE p = q
      <4>1. r[i] \in 1..(L + 1) /\ versions'[p][r[i]] = versions[p][r[i]]
        BY <1>20, <1>21, <3>1, <3>3
      <4> QED BY <1>21, <3>1, <3>2, <3>3, <4>1
    <3>4. CASE p # q
      BY <1>21, <3>1, <3>2, <3>4
    <3> QED BY <3>3, <3>4
  <2> QED BY <1>13, <2>1, <2>2
<1>27. ASSUME NEW p \in Paths, NEW k \in 1..Len(versions'[p])
       PROVE  \E i \in DOMAIN W : IsFile(disk', W, i, p) /\ R[i] = k
  <2>1. CASE k \in 1..Len(versions[p])
    <3>1. PICK i \in DOMAIN w : IsFile(disk, w, i, p) /\ r[i] = k
      BY <1>22, <2>1 DEF Filed
    <3> QED BY <1>13, <1>14, <1>24, <3>1
  <2>2. CASE k \notin 1..Len(versions[p])
    <3>1. p = q
      BY <1>21, <2>2
    <3>2. k = L + 1
      BY <1>20, <1>21, <2>2, <3>1
    <3> QED BY <1>14, <1>24, <3>1, <3>2
  <2> QED BY <2>1, <2>2
<1>28. ASSUME NEW p \in Paths, NEW i \in DOMAIN W, NEW j \in DOMAIN W,
              IsFile(disk', W, i, p), IsFile(disk', W, j, p), i < j
       PROVE  R[i] < R[j]
  <2>1. i \in DOMAIN w
    BY <1>3, <1>13, <1>28
  <2>2. IsFile(disk, w, i, p) /\ R[i] = r[i] /\ r[i] \in 1..Len(versions[p])
    BY <1>14, <1>24, <1>25, <1>28, <2>1
  <2>3. CASE j = m + 1
    <3>1. p = q /\ R[j] = L + 1
      BY <1>14, <1>24, <1>28, <2>3
    <3> QED BY <1>20, <2>2, <3>1
  <2>4. CASE j \in DOMAIN w
    <3>1. IsFile(disk, w, j, p) /\ R[j] = r[j]
      BY <1>14, <1>24, <1>28, <2>4
    <3> QED BY <1>22, <1>28, <2>1, <2>2, <2>4, <3>1 DEF Filed
  <2> QED BY <1>13, <2>3, <2>4
<1>29. R \in [DOMAIN W -> Nat]
  <2>1. \A i \in DOMAIN w : r[i] \in Nat
    BY <1>22 DEF Filed
  <2>2. \A i \in DOMAIN W : R[i] \in Nat
    BY <1>13, <1>14, <1>20, <2>1
  <2> QED BY <1>14, <2>2
<1>30. Filed(disk', versions', W, R)
  BY <1>26, <1>27, <1>28, <1>29 DEF Filed
<1>31. NewFileLast(W, R)'
  BY <1>10, <1>12, <1>13, <1>14, <1>21 DEF NewFileLast, N, t, q
<1>32. OldKnown(W)' /\ CutOut(W)' /\ NewTableMade(W)'
  BY <1>1 DEF OldKnown, CutOut, NewTableMade
<1>33. ChainInv(W, R)'
  BY <1>16, <1>17, <1>18, <1>19, <1>30, <1>31, <1>32 DEF ChainInv
<1>34. NoneLost(w, W)
  BY <1>13 DEF NoneLost
<1> QED BY <1>33, <1>34

(* A file is known to be written only if it has one sector at most.        *)
LEMMA WrittenHolds ==
  ASSUME disk \in [LBA -> Sectors], NEW a \in Nat, NEW s \in Seq(Nat), PutFile(a, s),
         NEW t, t.NumberSectors = Len(s), t.sum = Checksum(s), LbaOffset + t.lba = a
  PROVE  Holds(disk', t, AsWritten(a, s))
<1> DEFINE which(x) == CHOOSE k \in DOMAIN s : SectorWritten(a, k) = x
<1> SUFFICES ASSUME AsWritten(a, s).known
             PROVE  Holds(disk', t, AsWritten(a, s))
  BY DEF Holds
<1>1. /\ AsWritten(a, s) = Known(s)
      /\ {a + k - 1 : k \in DOMAIN s} \subseteq SectorsWritten(a, s) \cap LBA
  BY DEF AsWritten, Unknown
<1>2. DOMAIN s = 1..Len(s) /\ Len(s) \in Nat
  BY LenProperties
<1>3. \A x \in LBA : disk'[x] = IF x \in SectorsWritten(a, s) THEN Data(s[which(x)]) ELSE disk[x]
  BY DEF PutFile
<1>4. \A x \in SectorsWritten(a, s) : which(x) \in DOMAIN s /\ SectorWritten(a, which(x)) = x
  BY DEF SectorsWritten
<1> HIDE DEF which
<1>5. ASSUME NEW k \in DOMAIN s
      PROVE  a + k - 1 \in LBA /\ disk'[a + k - 1] = Data(s[k])
  <2>1. a + k - 1 \in SectorsWritten(a, s) /\ a + k - 1 \in LBA
    BY <1>1
  <2>2. k = 1
    <3>1. ASSUME k >= 2 PROVE FALSE
      <4>1. 2 \in DOMAIN s
        BY <1>2, <3>1
      <4>2. a + 2 - 1 \in SectorsWritten(a, s)
        BY <1>1, <4>1
      <4>3. PICK l \in DOMAIN s : a + 2 * (l - 1) = a + 2 - 1
        BY <4>2 DEF SectorsWritten, SectorWritten
      <4>4. l \in Nat
        BY <1>2
      <4> QED BY <4>3, <4>4
    <3> QED BY <1>2, <3>1
  <2>3. which(a + k - 1) \in DOMAIN s /\ a + 2 * (which(a + k - 1) - 1) = a + k - 1
    BY <1>4, <2>1 DEF SectorWritten
  <2> DEFINE l == which(a + k - 1)
  <2>4. l \in Nat
    BY <1>2, <2>3
  <2>5. a + 2 * (l - 1) = a + k - 1
    BY <2>3
  <2> HIDE DEF l
  <2>6. l = k
    BY <2>2, <2>4, <2>5
  <2> QED BY <1>3, <2>1, <2>6 DEF l
<1>6. AsWritten(a, s).contents = s
  BY <1>1 DEF Known
<1>7. \A k \in DOMAIN s : /\ LbaOffset + t.lba + k - 1 \in LBA
                          /\ disk'[LbaOffset + t.lba + k - 1] = Data(s[k])
  <2>1. \A k \in DOMAIN s : LbaOffset + t.lba + k - 1 = a + k - 1
    OBVIOUS
  <2> QED BY <1>5, <2>1
<1> QED BY <1>6, <1>7 DEF Holds

LEMMA ChainReuseData ==
  ASSUME DiskInv, NEW w, NEW r, ChainInv(w, r), ReuseData, ~overwritten'
  PROVE  ChainInv(w, r)'
<1> DEFINE a == LbaOffset + job.lba
           s == job.contents
           q == job.path
           m == Len(w)
           N == NewTableAt
           S == SectorsWritten(a, s)
           L == Len(versions[q])
           new == AsWritten(a, s)
<1>1. /\ pc = "reuseData" /\ pc' = "header" /\ PutFile(a, s)
      /\ versions' = [versions EXCEPT ![q][L] = new]
      /\ UNCHANGED <<FileSystemHeader, job, writes, failures>>
      /\ {x \in S : x >= a + Len(s) \/ x >= 2 * LbaOffset} \cap InUse(disk, N) = {}
  BY DEF ReuseData, Takes, NewTableAt
<1>2. DiskInv' /\ NextFreeLBA' = NextFreeLBA /\ NextFreeLBA \in Nat
  BY DiskReuseData, HeaderType DEF DiskInv
<1>3. /\ job.lba \in Nat /\ s \in Seq(Nat) /\ Len(s) \in Nat /\ q \in Paths
      /\ a \in Nat /\ a > LbaOffset
  <2>1. /\ job.lba \in Nat /\ s \in Seq(Nat) /\ Len(s) \in Nat /\ q \in Paths /\ job.lba >= 1
    BY <1>1, JobType DEF DiskInv, JobGood
  <2> QED BY <2>1, Numbers
<1>4. /\ disk \in [LBA -> Sectors] /\ m \in Nat /\ m >= 1 /\ m <= MaxTables /\ DOMAIN w = 1..m
      /\ \A i \in DOMAIN w : /\ w[i] \in LBA /\ disk[w[i]].table.lba \in Nat
                             /\ disk[w[i]].table.NumberSectors \in Nat
  BY ChainFacts
<1>5. /\ IsWalk(disk, w) /\ Apart(disk, w) /\ Filed(disk, versions, w, r)
      /\ \A i, j \in DOMAIN w : w[i] = w[j] => i = j
  BY DEF ChainInv, IsWalk
<1>6. m \in DOMAIN w
  BY <1>4
<1>7. /\ w[m] = N /\ disk[N] = Table(NewIndex(job.lba, 0)) /\ r[m] = L
      /\ disk[w[m]].table = NewIndex(job.lba, 0)
  BY <1>1 DEF ChainInv, NewFileLast, Table
<1>8. /\ NewIndex(job.lba, 0).lba = job.lba /\ NewIndex(job.lba, 0).NumberSectors = Len(s)
      /\ NewIndex(job.lba, 0).path = q /\ ~NewIndex(job.lba, 0).folder
      /\ NewIndex(job.lba, 0).sum = Checksum(s)
  BY <1>3, NewIndexType DEF DiskInv
<1>9. \A x \in LBA : x \notin S => disk'[x] = disk[x]
  BY <1>1, <1>3, PutSectors DEF DiskInv
<1>10. ASSUME NEW x \in S, x < a + Len(s), x < 2 * LbaOffset
       PROVE  x \in Nat /\ Owns(disk[w[m]].table, x)
  <2>1. PICK k \in DOMAIN s : x = a + 2 * (k - 1)
    BY DEF SectorsWritten, SectorWritten
  <2>2. k \in Nat /\ k >= 1
    BY <1>3, LenProperties
  <2> HIDE DEF s, S
  <2>3. x \in Nat /\ a <= x
    <3> HIDE DEF a
    <3> QED BY <1>3, <2>1, <2>2
  <2> QED BY <1>7, <1>8, <1>10, <2>3 DEF Owns
<1>11. \A x \in S : x \in InUse(disk, N) => x \in Nat /\ Owns(disk[w[m]].table, x)
  <2> SUFFICES ASSUME NEW x \in S, x \in InUse(disk, N)
               PROVE  x \in Nat /\ Owns(disk[w[m]].table, x)
    OBVIOUS
  <2>1. ~(x >= a + Len(s) \/ x >= 2 * LbaOffset)
    BY <1>1
  <2>2. x \in Nat
    <3>1. PICK k \in DOMAIN s : x = a + 2 * (k - 1)
      BY DEF SectorsWritten, SectorWritten
    <3>2. k \in Nat /\ k >= 1
      BY <1>3, LenProperties
    <3> HIDE DEF a, s, S
    <3> QED BY <1>3, <3>1, <3>2
  <2>3. x < a + Len(s) /\ x < 2 * LbaOffset
    <3>1. a + Len(s) \in Nat /\ 2 * LbaOffset \in Nat
      BY <1>3, Numbers
    <3> HIDE DEF a, s, S
    <3> QED BY <2>1, <2>2, <3>1
  <2> QED BY <1>10, <2>3
<1> HIDE DEF S, N, a, s, L, new, m
<1>12. \A i \in DOMAIN w : w[i] \in InUse(disk, N)
  BY <1>4, <1>5, InUseHas DEF m
<1>13. \A i \in DOMAIN w : w[i] \notin S
  BY <1>5, <1>6, <1>11, <1>12 DEF Apart
<1>14. TablesSame(disk, disk', w)
  BY <1>4, <1>9, <1>13 DEF TablesSame
<1>15. IsWalk(disk', w) /\ FreedErased(disk', w)
  BY <1>5, <1>14, KeepWalk DEF ChainInv
<1>16. Apart(disk', w)
  <2>1. /\ disk[LbaOffset].NextFreeLBA \in Nat
        /\ disk'[LbaOffset].NextFreeLBA = disk[LbaOffset].NextFreeLBA
    BY <1>2 DEF NextFreeLBA
  <2> QED BY <1>5, <1>14, <2>1, KeepApart
<1>17. ASSUME NEW p \in Paths, NEW i \in DOMAIN w, i # m
       PROVE  PartsSame(disk, disk', versions, w, r, p, i)
  <2> SUFFICES ASSUME IsFile(disk, w, i, p), versions[p][r[i]].known,
                      NEW k \in DOMAIN versions[p][r[i]].contents
               PROVE  disk'[PartAt(disk, w, i, k)] = disk[PartAt(disk, w, i, k)]
    BY DEF PartsSame
  <2> DEFINE x == PartAt(disk, w, i, k)
  <2>1. N # w[i]
    BY <1>5, <1>6, <1>7, <1>17
  <2>2. /\ x \in LBA /\ x \in InUse(disk, N)
        /\ LbaOffset + disk[w[i]].table.lba <= x
        /\ x < LbaOffset + disk[w[i]].table.lba + disk[w[i]].table.NumberSectors
    BY <2>1, KnownSector
  <2> HIDE DEF x
  <2>3. ASSUME x \in S PROVE FALSE
    <3>1. x \in Nat /\ Owns(disk[w[m]].table, x)
      BY <1>11, <2>2, <2>3
    <3>2. x < 2 * LbaOffset
      BY <3>1 DEF Owns
    <3>3. Owns(disk[w[i]].table, x)
      BY <2>2, <3>2 DEF Owns
    <3> QED BY <1>5, <1>6, <1>17, <3>1, <3>3 DEF Apart
  <2>4. disk'[x] = disk[x]
    BY <1>9, <2>2, <2>3
  <2> QED BY <2>4 DEF x
<1>18. \A i \in DOMAIN w, p \in Paths : IsFile(disk', w, i, p) <=> IsFile(disk, w, i, p)
  BY <1>14 DEF TablesSame, IsFile
<1>19. \A p \in Paths : IsFile(disk, w, m, p) <=> p = q
  BY <1>7, <1>8 DEF IsFile
<1>20. /\ versions \in [Paths -> Seq(Versions)] /\ versions[q] \in Seq(Versions)
       /\ L \in Nat /\ L \in 1..L
  <2>1. versions \in [Paths -> Seq(Versions)] /\ versions[q] \in Seq(Versions)
    BY <1>3 DEF DiskInv, TypeOK
  <2>2. L \in Nat
    BY <2>1, LenProperties DEF L
  <2>3. r[m] \in 1..Len(versions[q])
    BY <1>3, <1>5, <1>6, <1>19 DEF Filed
  <2> QED BY <1>7, <2>1, <2>2, <2>3 DEF L
<1>21. /\ Len(versions'[q]) = L /\ versions'[q][L] = new
       /\ \A k \in 1..L : k # L => versions'[q][k] = versions[q][k]
       /\ \A p \in Paths : p # q => versions'[p] = versions[p]
  <2>1. new \in Versions
    BY <1>3 DEF new, AsWritten, Known, Unknown, Versions, NoFile
  <2>2. /\ versions'[q] = [versions[q] EXCEPT ![L] = new]
        /\ \A p \in Paths : p # q => versions'[p] = versions[p]
    BY <1>1, <1>3, <1>20
  <2>3. L \in 1..Len(versions[q]) /\ L = Len(versions[q])
    BY <1>20 DEF L
  <2>4. /\ Len([versions[q] EXCEPT ![L] = new]) = Len(versions[q])
        /\ \A j \in 1..Len(versions[q]) :
             [versions[q] EXCEPT ![L] = new][j] = IF j = L THEN new ELSE versions[q][j]
    BY <1>20, <2>1, <2>3, ExceptSeq
  <2> QED BY <1>20, <2>2, <2>3, <2>4
<1>22. Holds(disk', NewIndex(job.lba, 0), new)
  BY <1>1, <1>3, <1>4, <1>8, WrittenHolds DEF new, a
<1>23. ASSUME NEW p \in Paths, NEW i \in DOMAIN w, IsFile(disk', w, i, p)
       PROVE  /\ r[i] \in 1..Len(versions'[p])
              /\ Holds(disk', disk'[w[i]].table, versions'[p][r[i]])
  <2>1. IsFile(disk, w, i, p) /\ disk'[w[i]].table = disk[w[i]].table
    BY <1>14, <1>18, <1>23 DEF TablesSame
  <2>2. CASE i = m
    <3>1. p = q
      BY <1>19, <2>1, <2>2
    <3> QED BY <1>7, <1>20, <1>21, <1>22, <2>1, <2>2, <3>1
  <2>3. CASE i # m
    <3>1. SameExtent(disk'[w[i]].table, disk[w[i]].table)
      BY <2>1 DEF SameExtent
    <3>2. PartsSame(disk, disk', versions, w, r, p, i)
      BY <1>17, <2>3
    <3>3. r[i] \in 1..Len(versions[p]) /\ Holds(disk', disk'[w[i]].table, versions[p][r[i]])
      BY <1>5, <2>1, <3>1, <3>2, KeepHolds
    <3>4. CASE p = q
      <4>1. i < m
        BY <1>4, <2>3
      <4>2. r[i] < r[m]
        BY <1>5, <1>6, <1>19, <2>1, <3>4, <4>1 DEF Filed
      <4>3. r[i] \in 1..L /\ r[i] # L
        BY <1>7, <1>20, <3>3, <3>4, <4>2 DEF L
      <4> QED BY <1>21, <3>3, <3>4, <4>3
    <3>5. CASE p # q
      BY <1>21, <3>3, <3>5
    <3> QED BY <3>4, <3>5
  <2> QED BY <2>2, <2>3
<1>24. \A p \in Paths : Len(versions'[p]) = Len(versions[p])
  BY <1>21 DEF L
<1>25. Filed(disk', versions', w, r)
  <2>1. r \in [DOMAIN w -> Nat]
    BY <1>5 DEF Filed
  <2>2. ASSUME NEW p \in Paths, NEW k \in 1..Len(versions'[p])
        PROVE  \E i \in DOMAIN w : IsFile(disk', w, i, p) /\ r[i] = k
    <3>1. k \in 1..Len(versions[p])
      BY <1>24
    <3> QED BY <1>5, <1>18, <3>1 DEF Filed
  <2>3. ASSUME NEW p \in Paths, NEW i \in DOMAIN w, NEW j \in DOMAIN w,
               IsFile(disk', w, i, p), IsFile(disk', w, j, p), i < j
        PROVE  r[i] < r[j]
    BY <1>5, <1>18, <2>3 DEF Filed
  <2> QED BY <1>23, <2>1, <2>2, <2>3 DEF Filed
<1>26. HasRoom(w)'
  BY <1>1 DEF ChainInv, HasRoom
<1>27. OldKnown(w)' /\ CutOut(w)' /\ NewTableMade(w)' /\ NewFileLast(w, r)'
  BY <1>1 DEF OldKnown, CutOut, NewTableMade, NewFileLast
<1> QED BY <1>15, <1>16, <1>25, <1>26, <1>27 DEF ChainInv

-----------------------------------------------------------------------------
(***************************************************************************)
(* The image: its tables are a chain, its files the first versions.        *)
(***************************************************************************)
IsEntry(F, i, p) == ~F[i].folder /\ F[i].path = p

(* vs is what the first n entries make of the files, r says which is which.*)
FirstFiled(F, vs, n, r) ==
  /\ r \in [1..n -> Nat]
  /\ \A p \in Paths, i \in 1..n : IsEntry(F, i, p) =>
       r[i] \in 1..Len(vs[p]) /\ vs[p][r[i]] = Known(F[i].contents)
  /\ \A p \in Paths : \A k \in 1..Len(vs[p]) : \E i \in 1..n : IsEntry(F, i, p) /\ r[i] = k
  /\ \A p \in Paths, i, j \in 1..n :
       IsEntry(F, i, p) /\ IsEntry(F, j, p) /\ i < j => r[i] < r[j]

LEMMA FirstFiledStep ==
  ASSUME NEW F, F \in Seq(Entries), NEW n \in Nat, n + 1 \in DOMAIN F,
         NEW vs \in AllVersions, NEW r, FirstFiled(F, vs, n, r)
  PROVE  \E R : FirstFiled(F, AddEntry(vs, F[n + 1]), n + 1, R)
<1> DEFINE q == F[n + 1].path
           L == Len(vs[q])
           us == AddEntry(vs, F[n + 1])
           e == Known(F[n + 1].contents)
<1> PICK R : R = [i \in 1..(n + 1) |-> IF i = n + 1 THEN L + 1 ELSE r[i]]
  OBVIOUS
<1>1. q \in Paths /\ F[n + 1].folder \in BOOLEAN /\ e \in Versions
  BY EntryType DEF Known, Versions
<1>2. vs[q] \in Seq(Versions) /\ L \in Nat
  BY <1>1, LenProperties DEF AllVersions
<1>3. /\ n + 1 \in 1..(n + 1) /\ n + 1 \notin 1..n
      /\ \A i \in 1..n : i \in 1..(n + 1) /\ i # n + 1 /\ i < n + 1
      /\ \A i \in 1..(n + 1) : i = n + 1 \/ i \in 1..n
  OBVIOUS
<1>4. R[n + 1] = L + 1 /\ \A i \in 1..n : R[i] = r[i]
  BY <1>3
<1>5. R \in [1..(n + 1) -> Nat]
  <2>1. \A i \in 1..n : r[i] \in Nat
    BY DEF FirstFiled
  <2>2. \A i \in 1..(n + 1) : R[i] \in Nat
    BY <1>2, <1>3, <1>4, <2>1
  <2>3. R = [i \in 1..(n + 1) |-> R[i]]
    OBVIOUS
  <2> QED BY <2>2, <2>3
<1>6. /\ F[n + 1].folder => us = vs
      /\ ~F[n + 1].folder => us = [vs EXCEPT ![q] = Append(vs[q], e)]
  BY DEF AddEntry
<1> HIDE DEF us, e, q, L
<1>7. /\ \A p \in Paths : ~IsEntry(F, n + 1, p) => us[p] = vs[p]
      /\ \A p \in Paths : IsEntry(F, n + 1, p) => /\ p = q /\ Len(us[p]) = L + 1
                                                  /\ us[p][L + 1] = e
                                                  /\ \A k \in 1..L : us[p][k] = vs[p][k]
  <2>1. \A p \in Paths : IsEntry(F, n + 1, p) <=> ~F[n + 1].folder /\ p = q
    BY DEF IsEntry, q
  <2>2. CASE F[n + 1].folder
    BY <1>6, <2>1, <2>2
  <2>3. CASE ~F[n + 1].folder
    <3>1. us[q] = Append(vs[q], e) /\ \A p \in Paths : p # q => us[p] = vs[p]
      BY <1>1, <1>6, <2>3 DEF AllVersions
    <3>2. /\ Len(Append(vs[q], e)) = L + 1 /\ Append(vs[q], e)[L + 1] = e
          /\ \A k \in 1..L : Append(vs[q], e)[k] = vs[q][k]
      BY <1>1, <1>2, AppendProperties DEF L
    <3> QED BY <2>1, <2>3, <3>1, <3>2
  <2> QED BY <2>2, <2>3
<1>8. ASSUME NEW p \in Paths, NEW i \in 1..(n + 1), IsEntry(F, i, p)
      PROVE  R[i] \in 1..Len(us[p]) /\ us[p][R[i]] = Known(F[i].contents)
  <2>1. CASE i = n + 1
    <3>1. L + 1 \in 1..(L + 1)
      BY <1>2
    <3> QED BY <1>4, <1>7, <1>8, <2>1, <3>1 DEF e
  <2>2. CASE i \in 1..n
    <3>1. /\ R[i] = r[i] /\ r[i] \in 1..Len(vs[p]) /\ vs[p][r[i]] = Known(F[i].contents)
      BY <1>4, <1>8, <2>2 DEF FirstFiled
    <3>2. CASE IsEntry(F, n + 1, p)
      <4>1. p = q /\ Len(us[p]) = L + 1 /\ r[i] \in 1..L /\ r[i] \in 1..(L + 1)
        BY <1>2, <1>7, <3>1, <3>2 DEF L
      <4> QED BY <1>7, <3>1, <3>2, <4>1
    <3>3. CASE ~IsEntry(F, n + 1, p)
      BY <1>7, <3>1, <3>3
    <3> QED BY <3>2, <3>3
  <2> QED BY <1>3, <2>1, <2>2
<1>9. ASSUME NEW p \in Paths, NEW k \in 1..Len(us[p])
      PROVE  \E i \in 1..(n + 1) : IsEntry(F, i, p) /\ R[i] = k
  <2>1. CASE k \in 1..Len(vs[p])
    <3>1. PICK i \in 1..n : IsEntry(F, i, p) /\ r[i] = k
      BY <2>1 DEF FirstFiled
    <3> QED BY <1>3, <1>4, <3>1
  <2>2. CASE k \notin 1..Len(vs[p])
    <3>1. IsEntry(F, n + 1, p)
      BY <1>7, <2>2
    <3>2. k \in 1..(L + 1) /\ k \notin 1..L
      BY <1>7, <2>2, <3>1 DEF L
    <3>3. k = L + 1
      BY <1>2, <3>2
    <3> QED BY <1>3, <1>4, <3>1, <3>3
  <2> QED BY <2>1, <2>2
<1>10. ASSUME NEW p \in Paths, NEW i \in 1..(n + 1), NEW j \in 1..(n + 1),
              IsEntry(F, i, p), IsEntry(F, j, p), i < j
       PROVE  R[i] < R[j]
  <2>1. i \in 1..n
    BY <1>10
  <2>2. CASE j = n + 1
    <3>1. p = q /\ R[j] = L + 1
      BY <1>4, <1>7, <1>10, <2>2
    <3>2. R[i] = r[i] /\ r[i] \in 1..L
      BY <1>4, <1>10, <2>1, <3>1 DEF FirstFiled, L
    <3> QED BY <1>2, <3>1, <3>2
  <2>3. CASE j \in 1..n
    BY <1>4, <1>10, <2>1, <2>3 DEF FirstFiled
  <2> QED BY <1>3, <2>2, <2>3
<1>11. FirstFiled(F, us, n + 1, R)
  BY <1>5, <1>8, <1>9, <1>10 DEF FirstFiled
<1> QED BY <1>11 DEF us

LEMMA AllFiled ==
  ASSUME NEW F, F \in Seq(Entries)
  PROVE  \E r : FirstFiled(F, FirstVersions(F), Len(F), r)
<1>1. PICK f : /\ f \in [0..Len(F) -> AllVersions]
               /\ f[0] = [p \in Paths |-> <<>>]
               /\ \A i \in 1..Len(F) : f[i] = AddEntry(f[i - 1], F[i])
               /\ FirstVersions(F) = f[Len(F)]
  BY VersionsMade
<1> DEFINE S == {n \in Nat : n <= Len(F) => \E r : FirstFiled(F, f[n], n, r)}
<1>2. Len(F) \in Nat /\ DOMAIN F = 1..Len(F)
  BY LenProperties
<1>3. 0 \in S
  <2> PICK r : r = [i \in 1..0 |-> 0]
    OBVIOUS
  <2>1. r \in [1..0 -> Nat] /\ \A i \in 1..0 : FALSE
    OBVIOUS
  <2>2. \A p \in Paths : \A k \in 1..Len(f[0][p]) : FALSE
    BY <1>1, EmptySeq
  <2>3. FirstFiled(F, f[0], 0, r)
    BY <2>1, <2>2 DEF FirstFiled
  <2> QED BY <2>3
<1>4. ASSUME NEW n \in Nat, n \in S PROVE n + 1 \in S
  <2> SUFFICES ASSUME n + 1 <= Len(F) PROVE \E r : FirstFiled(F, f[n + 1], n + 1, r)
    OBVIOUS
  <2>1. n <= Len(F) /\ n \in 0..Len(F) /\ n + 1 \in 1..Len(F) /\ (n + 1) - 1 = n
    BY <1>2
  <2>2. PICK r : FirstFiled(F, f[n], n, r)
    BY <1>4, <2>1
  <2>3. f[n] \in AllVersions /\ f[n + 1] = AddEntry(f[n], F[n + 1])
    BY <1>1, <2>1
  <2> QED BY <1>2, <2>1, <2>2, <2>3, FirstFiledStep
<1> HIDE DEF S
<1>5. Nat \subseteq S
  BY <1>3, <1>4, SetInduction
<1>6. \E r : FirstFiled(F, f[Len(F)], Len(F), r)
  <2>1. Len(F) \in S /\ Len(F) <= Len(F)
    BY <1>2, <1>5
  <2> QED BY <2>1 DEF S
<1> QED BY <1>1, <1>6

LEMMA InitChain ==
  ASSUME Init
  PROVE  \E w, r : ChainInv(w, r)
<1>1. PICK F \in Images :
        /\ disk = Image(F)
        /\ FileSystemHeader = NextFileLBA(F)
        /\ pc = InitFS(Image(F))
        /\ job = NoJob
        /\ writes = 0 /\ failures = 0
        /\ versions = FirstVersions(F)
        /\ overwritten = FALSE
  BY DEF Init
<1> DEFINE m == Len(F)
<1>2. /\ F \in Seq(Entries) /\ m \in Nat /\ m >= 1 /\ DOMAIN F = 1..m
      /\ NextFileLBA(F) \in Nat /\ NextFileLBA(F) > m
      /\ \A i \in DOMAIN F :
           /\ FileLBAs(F)[i] \in Nat /\ FileLBAs(F)[i] > m
           /\ FileLBAs(F)[i] + Len(F[i].contents) <= NextFileLBA(F)
      /\ \A i, j \in DOMAIN F :
           i < j => FileLBAs(F)[i] + Len(F[i].contents) <= FileLBAs(F)[j]
  BY ImageSize
<1>3. /\ disk[LbaOffset] = Header(NextFileLBA(F))
      /\ \A i \in DOMAIN F : /\ LbaOffset + i \in LBA
                             /\ disk[LbaOffset + i] = Table(IndexTable(F, i))
      /\ \A i \in DOMAIN F : \A k \in DOMAIN F[i].contents :
           /\ LbaOffset + FileLBAs(F)[i] + k - 1 \in LBA
           /\ disk[LbaOffset + FileLBAs(F)[i] + k - 1] = Data(F[i].contents[k])
  BY <1>1, ImageHas
<1>4. PICK r : FirstFiled(F, versions, m, r)
  BY <1>1, <1>2, AllFiled
<1> PICK w : w = [i \in 1..m |-> LbaOffset + i]
  OBVIOUS
<1> HIDE DEF m
<1>5. /\ w \in Seq(LBA) /\ w # <<>> /\ Len(w) = m /\ DOMAIN w = DOMAIN F
      /\ \A i \in DOMAIN F : w[i] = LbaOffset + i
  <2>1. \A i \in 1..m : LbaOffset + i \in LBA
    BY <1>2, <1>3
  <2>2. w \in Seq(LBA)
    BY <1>2, <2>1, IsASeq
  <2>3. DOMAIN w = 1..m /\ Len(w) = m
    BY <1>2, <2>2, LenProperties
  <2>4. w # <<>>
    BY <1>2, <2>3, EmptySeq
  <2> QED BY <1>2, <2>2, <2>3, <2>4
<1>6. ASSUME NEW i \in DOMAIN F
      PROVE  disk[w[i]].kind = "table" /\ disk[w[i]].table = IndexTable(F, i)
  <2>1. disk[w[i]] = Table(IndexTable(F, i))
    BY <1>3, <1>5
  <2> QED BY <2>1 DEF Table
<1>7. IsWalk(disk, w)
  <2>1. w[1] = LbaOffset + 1
    <3>1. 1 \in DOMAIN F
      BY <1>2
    <3> QED BY <1>5, <3>1
  <2>2. ASSUME NEW i \in DOMAIN F
        PROVE  disk[w[i]].table.NextLBA = IF i = Len(w) THEN 0 ELSE w[i + 1] - LbaOffset - 1
    <3>1. IndexTable(F, i).NextLBA = IF i = m THEN 0 ELSE i
      BY DEF IndexTable, m
    <3>2. ASSUME i # m PROVE w[i + 1] - LbaOffset - 1 = i
      <4>1. i + 1 \in DOMAIN F /\ i \in Nat
        BY <1>2, <3>2
      <4>2. w[i + 1] = LbaOffset + (i + 1)
        BY <1>5, <4>1
      <4>3. LbaOffset \in Nat
        BY Numbers
      <4>4. \A x : x = LbaOffset + (i + 1) => x - LbaOffset - 1 = i
        BY <4>1, <4>3
      <4> QED BY <4>2, <4>4
    <3> QED BY <1>5, <1>6, <3>1, <3>2
  <2>3. \A i, j \in DOMAIN F : w[i] = w[j] => i = j
    <3>1. \A i \in DOMAIN F : i \in Nat
      BY <1>2
    <3> QED BY <1>5, <3>1, Numbers
  <2> QED BY <1>5, <1>6, <2>1, <2>2, <2>3 DEF IsWalk
<1>8. pc \in {"idle", "halted"}
  BY <1>1 DEF InitFS
<1>9. HasRoom(w)
  <2>1. m + MaxWrites <= MaxTables
    BY ImagesAssumption DEF m
  <2> QED BY <1>1, <1>2, <1>5, <1>8, <2>1, Numbers DEF HasRoom
<1>10. FreedErased(disk, w)
  <2>1. \A i \in DOMAIN F : ~IndexTable(F, i).freed
    BY DEF IndexTable
  <2>2. \A i \in DOMAIN F : ~disk[w[i]].table.freed
    BY <1>6, <2>1
  <2> QED BY <1>5, <2>2 DEF FreedErased
<1>11. ASSUME NEW i \in DOMAIN F, NEW x \in Nat, Owns(disk[w[i]].table, x)
       PROVE  /\ LbaOffset + FileLBAs(F)[i] <= x
              /\ x < LbaOffset + FileLBAs(F)[i] + Len(F[i].contents)
  <2> DEFINE t == IndexTable(F, i)
  <2>1. t.NumberSectors = Len(F[i].contents) /\ t.lba \in Nat /\ t.NumberSectors \in Nat
    BY IndexTableType DEF IndexTable, FileIndex
  <2>2. t.NumberSectors > 0 => t.lba = FileLBAs(F)[i]
    BY IndexTableType
  <2>3. Owns(t, x)
    BY <1>6, <1>11
  <2> HIDE DEF t
  <2>4. t.NumberSectors > 0
    BY <2>1, <2>3, Numbers DEF Owns
  <2> QED BY <2>1, <2>2, <2>3, <2>4 DEF Owns
<1>12. Apart(disk, w)
  <2> SUFFICES ASSUME NEW i \in DOMAIN F, NEW x \in Nat, Owns(disk[w[i]].table, x)
               PROVE  /\ x < LbaOffset + disk[LbaOffset].NextFreeLBA
                      /\ \A j \in DOMAIN F : w[j] # x /\ (Owns(disk[w[j]].table, x) => i = j)
    BY <1>5 DEF Apart
  <2>1. /\ LbaOffset + FileLBAs(F)[i] <= x
        /\ x < LbaOffset + FileLBAs(F)[i] + Len(F[i].contents)
    BY <1>11
  <2>2. /\ FileLBAs(F)[i] \in Nat /\ FileLBAs(F)[i] > m /\ Len(F[i].contents) \in Nat
        /\ FileLBAs(F)[i] + Len(F[i].contents) <= NextFileLBA(F)
    BY <1>2, EntryType
  <2>3. x < LbaOffset + NextFileLBA(F)
    BY <1>2, <2>1, <2>2, Numbers
  <2>4. disk[LbaOffset].NextFreeLBA = NextFileLBA(F)
    BY <1>3 DEF Header
  <2>5. ASSUME NEW j \in DOMAIN F PROVE w[j] # x
    <3>1. j \in Nat /\ j <= m /\ w[j] = LbaOffset + j
      BY <1>2, <1>5
    <3> QED BY <1>2, <2>1, <2>2, <3>1, Numbers
  <2>6. ASSUME NEW j \in DOMAIN F, Owns(disk[w[j]].table, x) PROVE i = j
    <3>1. /\ LbaOffset + FileLBAs(F)[j] <= x
          /\ x < LbaOffset + FileLBAs(F)[j] + Len(F[j].contents)
      BY <1>11, <2>6
    <3>2. FileLBAs(F)[j] \in Nat /\ Len(F[j].contents) \in Nat
      BY <1>2, EntryType
    <3>3. i < j => FileLBAs(F)[i] + Len(F[i].contents) <= FileLBAs(F)[j]
      BY <1>2
    <3>4. j < i => FileLBAs(F)[j] + Len(F[j].contents) <= FileLBAs(F)[i]
      BY <1>2
    <3>5. i \in Nat /\ j \in Nat
      BY <1>2
    <3>6. LbaOffset \in Nat
      BY Numbers
    <3>7. ~(i < j)
      BY <2>1, <2>2, <3>1, <3>2, <3>3, <3>6
    <3>8. ~(j < i)
      BY <2>1, <2>2, <3>1, <3>2, <3>4, <3>6
    <3> QED BY <3>5, <3>7, <3>8
  <2> QED BY <2>3, <2>4, <2>5, <2>6
<1>13. /\ \A i \in DOMAIN F, p \in Paths : IsFile(disk, w, i, p) <=> IsEntry(F, i, p)
       /\ \A i \in DOMAIN F : ~F[i].folder => IndexTable(F, i).lba = FileLBAs(F)[i]
       /\ \A i \in DOMAIN F : /\ IndexTable(F, i).NumberSectors = Len(F[i].contents)
                              /\ IndexTable(F, i).sum = Checksum(F[i].contents)
  <2>1. \A i \in DOMAIN F : /\ IndexTable(F, i).folder = F[i].folder
                            /\ IndexTable(F, i).path = F[i].path
    BY DEF IndexTable
  <2>2. \A i \in DOMAIN F, p \in Paths : IsFile(disk, w, i, p) <=> IsEntry(F, i, p)
    BY <1>6, <2>1 DEF IsFile, IsEntry
  <2> QED BY <2>2 DEF IndexTable
<1>14. ASSUME NEW p \in Paths, NEW i \in DOMAIN F, IsFile(disk, w, i, p)
       PROVE  r[i] \in 1..Len(versions[p]) /\ Holds(disk, disk[w[i]].table, versions[p][r[i]])
  <2>1. IsEntry(F, i, p)
    BY <1>13, <1>14
  <2>2. r[i] \in 1..Len(versions[p]) /\ versions[p][r[i]] = Known(F[i].contents)
    BY <1>2, <1>4, <2>1 DEF FirstFiled
  <2>3. /\ IndexTable(F, i).lba = FileLBAs(F)[i]
        /\ IndexTable(F, i).NumberSectors = Len(F[i].contents)
        /\ IndexTable(F, i).sum = Checksum(F[i].contents)
    BY <1>13, <2>1 DEF IsEntry
  <2>4. Holds(disk, IndexTable(F, i), Known(F[i].contents))
    BY <1>3, <2>3 DEF Holds, Known
  <2> QED BY <1>6, <2>2, <2>4
<1>15. Filed(disk, versions, w, r)
  <2>1. r \in [DOMAIN w -> Nat]
    BY <1>2, <1>4, <1>5 DEF FirstFiled
  <2>2. ASSUME NEW p \in Paths, NEW k \in 1..Len(versions[p])
        PROVE  \E i \in DOMAIN w : IsFile(disk, w, i, p) /\ r[i] = k
    BY <1>2, <1>4, <1>5, <1>13 DEF FirstFiled
  <2>3. ASSUME NEW p \in Paths, NEW i \in DOMAIN w, NEW j \in DOMAIN w,
               IsFile(disk, w, i, p), IsFile(disk, w, j, p), i < j
        PROVE  r[i] < r[j]
    BY <1>2, <1>4, <1>5, <1>13, <2>3 DEF FirstFiled
  <2> QED BY <1>5, <1>14, <2>1, <2>2, <2>3 DEF Filed
<1>16. OldKnown(w) /\ CutOut(w) /\ NewTableMade(w) /\ NewFileLast(w, r)
  BY <1>8 DEF OldKnown, CutOut, NewTableMade, NewFileLast
<1>17. ChainInv(w, r)
  BY <1>7, <1>9, <1>10, <1>12, <1>15, <1>16 DEF ChainInv
<1> QED BY <1>17

-----------------------------------------------------------------------------
(***************************************************************************)
(* The theorems.                                                           *)
(***************************************************************************)
(* A step adds tables to the chain at most, as long as nothing in use is   *)
(* written over.                                                           *)
LEMMA ChainStep ==
  ASSUME DiskInv, NEW w, NEW r, ChainInv(w, r), [Next]_vars, ~overwritten'
  PROVE  \E W, R : ChainInv(W, R)' /\ NoneLost(w, W)
<1>1. DiskInv'
  BY DiskStep
<1>2. NoneLost(w, w)
  BY DEF NoneLost
<1>3. SUFFICES ASSUME ~Link PROVE ChainInv(w, r)'
  <2>1. CASE Link
    BY <2>1, ChainLink
  <2> QED BY <1>2, <2>1
<1>4. CASE UNCHANGED vars
  BY <1>4, ChainStutter
<1>5. ASSUME NEW p \in Paths, NEW s \in Contents, WriteNewHome(p, s) PROVE ChainInv(w, r)'
  BY <1>1, <1>5, ChainWriteNewHome
<1>6. ASSUME NEW p \in Paths, NEW s \in Contents, WriteReuse(p, s) PROVE ChainInv(w, r)'
  BY <1>1, <1>6, ChainWriteReuse
<1>7. CASE HomeData
  BY <1>1, <1>7, ChainHomeData
<1>8. CASE HomeIndex
  BY <1>1, <1>8, ChainHomeIndex
<1>9. CASE Shrink
  BY <1>9, ChainShrink
<1>10. CASE ReuseIndex
  BY <1>1, <1>10, ChainReuseIndex
<1>11. CASE ReuseData
  BY <1>11, ChainReuseData
<1>12. CASE WriteHeader
  BY <1>12, ChainWriteHeader
<1>13. ASSUME NEW p \in Paths, RemoveFile(p) PROVE ChainInv(w, r)'
  BY <1>13, ChainRemoveFile
<1>14. CASE PowerFailure
  BY <1>1, <1>14, ChainPowerFailure
<1> QED BY <1>3, <1>4, <1>5, <1>6, <1>7, <1>8, <1>9, <1>10, <1>11, <1>12, <1>13, <1>14
        DEF Next, WriteStep

(* What is known to be written over stays so.                              *)
LEMMA OverwrittenStays ==
  ASSUME [Next]_vars, ~overwritten'
  PROVE  ~overwritten
BY DEF Next, WriteStep, WriteNewHome, HomeData, HomeIndex, WriteReuse, Shrink, ReuseIndex, Link,
       ReuseData, WriteHeader, RemoveFile, PowerFailure, Takes, vars

LEMMA InvStep ==
  ASSUME FileSystemInv, [Next]_vars
  PROVE  FileSystemInv'
<1>1. DiskInv /\ ChainKept
  BY DEF FileSystemInv
<1>2. DiskInv'
  BY <1>1, DiskStep
<1>3. ASSUME ~overwritten' PROVE \E w, r : ChainInv(w, r)'
  <2>1. ~overwritten
    BY <1>3, OverwrittenStays
  <2>2. PICK w, r : ChainInv(w, r)
    BY <1>1, <2>1 DEF ChainKept
  <2> QED BY <1>1, <1>3, <2>2, ChainStep
<1>4. ChainKept'
  BY <1>3 DEF ChainKept
<1> QED BY <1>2, <1>4 DEF FileSystemInv

(* The disk is well formed at every moment, also after a power failure,    *)
(* and while no sector in use is written over there is a chain of tables,  *)
(* each with sectors of its own, whose files are what has been written.    *)
THEOREM FileSystemInvariant == Spec => []FileSystemInv
<1>1. Init => FileSystemInv
  BY InitDisk, InitChain DEF FileSystemInv, ChainKept
<1>2. FileSystemInv /\ [Next]_vars => FileSystemInv'
  BY InvStep
<1> QED BY <1>1, <1>2, PTL DEF Spec

LEMMA InvSound ==
  ASSUME FileSystemInv
  PROVE  DiskSound
<1>1. DiskInv /\ ChainKept
  BY DEF FileSystemInv
<1>2. ASSUME ~overwritten PROVE Sound(disk)
  <2>1. PICK w, r : ChainInv(w, r)
    BY <1>1, <1>2 DEF ChainKept
  <2>2. disk \in [LBA -> Sectors] /\ IsWalk(disk, w) /\ Len(w) <= MaxTables
    BY <1>1, <2>1, ChainFacts DEF ChainInv
  <2> QED BY <2>2, WalkIsChain
<1> QED BY <1>1, <1>2 DEF DiskSound, ChainSound, DiskInv

(* The chain of tables is never broken, at no moment of WriteFile at which *)
(* the power may fail: every walk ends, and meets only tables.             *)
THEOREM DiskStaysSound == Spec => []DiskSound
<1>1. FileSystemInv => DiskSound
  BY InvSound
<1> QED BY <1>1, FileSystemInvariant, PTL

LEMMA InvReadable ==
  ASSUME FileSystemInv
  PROVE  FilesReadable
<1>1. DiskInv /\ ChainKept
  BY DEF FileSystemInv
<1> SUFFICES ASSUME ~overwritten, NEW p \in Paths
             PROVE  LET a == FindFileLBA(disk, p)
                        v == versions[p]
                    IN  /\ a = 0 <=> v = <<>>
                        /\ v # <<>> /\ v[Len(v)].known
                             => ReadFileFromLBA(disk, a) = v[Len(v)].contents
  BY DEF FilesReadable
<1> DEFINE a == FindFileLBA(disk, p)
           v == versions[p]
<1>2. PICK w, r : ChainInv(w, r)
  BY <1>1 DEF ChainKept
<1>3. /\ disk \in [LBA -> Sectors] /\ Len(w) <= MaxTables /\ DOMAIN w \subseteq Nat
      /\ \A i \in DOMAIN w : /\ w[i] # 0 /\ disk[w[i]].table.lba \in Nat
                             /\ disk[w[i]].table.NumberSectors \in Nat
  BY <1>1, <1>2, ChainFacts
<1>4. IsWalk(disk, w) /\ Filed(disk, versions, w, r)
  BY <1>2 DEF ChainInv
<1>5. v \in Seq(Versions) /\ Len(v) \in Nat /\ (v = <<>> <=> Len(v) = 0)
  <2>1. v \in Seq(Versions)
    BY <1>1 DEF DiskInv, TypeOK
  <2> QED BY <2>1, EmptySeq, LenProperties
<1>6. CASE \A i \in DOMAIN w : ~IsFile(disk, w, i, p)
  <2>1. a = 0
    BY <1>3, <1>4, <1>6, FindIsLast
  <2>2. Len(v) = 0
    <3>1. ASSUME Len(v) # 0 PROVE FALSE
      <4>1. 1 \in 1..Len(v)
        BY <1>5, <3>1
      <4> QED BY <1>4, <1>6, <4>1 DEF Filed
    <3> QED BY <3>1
  <2> QED BY <1>5, <2>1, <2>2
<1>7. CASE \E i \in DOMAIN w : IsFile(disk, w, i, p)
  <2>1. PICK i \in DOMAIN w : /\ IsFile(disk, w, i, p)
                              /\ \A j \in DOMAIN w : IsFile(disk, w, j, p) => j <= i
                              /\ FindFileLBA(disk, p) = w[i]
    BY <1>3, <1>4, <1>7, FindIsLast
  <2>2. r[i] = Len(v) /\ Len(v) >= 1
    BY <1>3, <1>4, <1>5, <2>1, LastIsLast
  <2>3. a # 0 /\ v # <<>>
    BY <1>3, <1>5, <2>1, <2>2
  <2>4. v[Len(v)] \in Versions
    <3>1. Len(v) \in 1..Len(v)
      BY <1>5, <2>2
    <3> QED BY <1>5, <3>1, ElementOfSeq
  <2>5. Holds(disk, disk[w[i]].table, v[Len(v)])
    BY <1>4, <2>1, <2>2 DEF Filed
  <2>6. v[Len(v)].known => ReadFileFromLBA(disk, w[i]) = v[Len(v)].contents
    <3> HIDE DEF v
    <3> QED BY <1>3, <2>4, <2>5, ReadIsVersion
  <2> QED BY <2>1, <2>3, <2>6
<1> QED BY <1>6, <1>7

(* Every file is found and read back as it was last written, or as the one *)
(* before once that is removed, whatever else is written, cut out of freed *)
(* sectors or half made when the power fails.                              *)
THEOREM FilesStayReadable == Spec => []FilesReadable
<1>1. FileSystemInv => FilesReadable
  BY InvReadable
<1> QED BY <1>1, FileSystemInvariant, PTL

LEMMA InvTables ==
  ASSUME FileSystemInv, [Next]_vars
  PROVE  overwritten' \/ TablesOf(disk) \subseteq TablesOf(disk')
<1>1. DiskInv /\ ChainKept /\ DiskInv'
  BY DiskStep DEF FileSystemInv
<1> SUFFICES ASSUME ~overwritten' PROVE TablesOf(disk) \subseteq TablesOf(disk')
  OBVIOUS
<1>2. PICK w, r : ChainInv(w, r)
  BY <1>1, OverwrittenStays DEF ChainKept
<1>3. PICK W, R : ChainInv(W, R)' /\ NoneLost(w, W)
  BY <1>1, <1>2, ChainStep
<1>4. TablesOf(disk) = {w[i] : i \in DOMAIN w}
  BY <1>1, <1>2, ChainFacts, WalkIsChain DEF ChainInv
<1>5. TablesOf(disk') = {W[i] : i \in DOMAIN W}
  <2>1. HasRoom(W)' /\ IsWalk(disk', W) /\ disk' \in [LBA -> Sectors]
    BY <1>1, <1>3 DEF ChainInv, DiskInv, TypeOK
  <2>2. Len(W) <= MaxTables
    <3>1. Len(W) \in Nat
      BY <2>1, WalkPlaces
    <3>2. writes' \in Nat /\ writes' <= MaxWrites
      BY <1>1, Numbers DEF DiskInv, TypeOK
    <3> QED BY <2>1, <3>1, <3>2, Numbers DEF HasRoom
  <2> QED BY <2>1, <2>2, WalkIsChain
<1> QED BY <1>3, <1>4, <1>5 DEF NoneLost

(* No table leaves the chain, so that no sector is lost for good.          *)
THEOREM TablesAreKept == Spec => TablesKept
<1>1. FileSystemInv /\ [Next]_vars
        => [overwritten' \/ TablesOf(disk) \subseteq TablesOf(disk')]_vars
  BY InvTables
<1> QED BY <1>1, FileSystemInvariant, PTL DEF Spec, TablesKept

=============================================================================
