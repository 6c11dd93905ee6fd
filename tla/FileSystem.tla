---------------------------- MODULE FileSystem ----------------------------
(***************************************************************************)
(* The file system (Kernel/FS/FileSystem.cpp) on the image that            *)
(* FileSystem/CreateSystem.py makes: a header sector with the number of    *)
(* the next free sector, index tables chained from the first sector after  *)
(* the header, and the sectors of the files.  RemoveFile marks a table as  *)
(* free; WriteFile cuts the new file out of a free table's sectors or, if  *)
(* none has enough, gives it a new home at the end.                        *)
(*                                                                         *)
(* The disk keeps what was written when the power fails, the kernel's copy *)
(* of the header does not.  Each write of the disk is one step.  Sector    *)
(* numbers in tables count from the header's.  A sector of a file is its   *)
(* byte sum, a path a name; both checks of a name's start in ScanDir and   *)
(* of its length in FindFileLBA together compare the whole name.           *)
(*                                                                         *)
(* The disk is written by the driver that calls the BIOS                   *)
(* (Kernel/Disk/BackupDriverMgr.cpp), the only one the kernel chooses.     *)
(***************************************************************************)
EXTENDS Integers, Sequences, FiniteSets, Functions

CONSTANTS Paths,      \* names of files
          Contents,   \* what WriteFile is asked to write
          Images,     \* what the drive directory may hold when the image is made
          LbaOffset,  \* the header's sector (258)
          DiskSize,   \* bound: sectors from the header on
          MaxTables,  \* bound: tables of a walk, more than there can be
          MaxWrites,  \* bound: calls of WriteFile
          MaxFailures \* bound: power failures

(* Entries of an image: files first, then directories.                     *)
Entries == [path : Paths, folder : BOOLEAN, contents : Seq(Nat)]

ASSUME ConstantsAssumption ==
  /\ Paths # {} /\ Contents \subseteq Seq(Nat)
  /\ LbaOffset \in Nat /\ DiskSize \in Nat \ {0} /\ MaxTables \in Nat \ {0}
  /\ MaxWrites \in Nat /\ MaxFailures \in Nat

VARIABLES disk,             \* the sectors
          FileSystemHeader, \* the kernel's copy: NextFreeLBA
          pc,               \* where WriteFile is
          job,              \* its arguments and what it has found
          writes, failures, \* counted for the bounds
          versions,         \* history: what has been written to each path
          overwritten       \* history: a sector in use was written over

vars == <<disk, FileSystemHeader, pc, job, writes, failures, versions, overwritten>>

LBA == LbaOffset..(LbaOffset + DiskSize - 1)
Erased == "erased"      \* the name RemoveFile leaves
NoFile == <<>>          \* no contents

FileIndex == [path : Paths \cup {Erased}, folder : BOOLEAN, freed : BOOLEAN,
              lba : Nat, NumberSectors : Nat, sum : Nat, NextLBA : Nat]

Table(t)  == [kind |-> "table", table |-> t]
Data(v)   == [kind |-> "data", sum |-> v]
Header(n) == [kind |-> "header", NextFreeLBA |-> n]
Sectors == [kind : {"table"}, table : FileIndex] \cup [kind : {"data"}, sum : Nat]
             \cup [kind : {"header"}, NextFreeLBA : Nat]

PCs == {"idle", "halted", "homeData", "homeIndex", "shrink", "reuseIndex", "link",
        "reuseData", "header"}

(* A version of a file: what it holds, or that nobody can tell.            *)
Unknown == [known |-> FALSE, contents |-> NoFile]
Known(s) == [known |-> TRUE, contents |-> s]
Versions == [known : BOOLEAN, contents : Seq(Nat)]

TypeOK ==
  /\ disk \in [LBA -> Sectors]
  /\ FileSystemHeader \in Nat
  /\ pc \in PCs
  /\ job \in [path : Paths, contents : Seq(Nat), reuse : BOOLEAN, old : LBA \cup {0}, lba : Nat]
  /\ writes \in 0..MaxWrites /\ failures \in 0..MaxFailures
  /\ versions \in [Paths -> Seq(Versions)]
  /\ overwritten \in BOOLEAN

Checksum(s) ==
  LET Sum[i \in 0..Len(s)] == IF i = 0 THEN 0 ELSE Sum[i - 1] + s[i]
  IN  Sum[Len(s)]
-----------------------------------------------------------------------------
(***************************************************************************)
(* The image: the header, a table per entry, the sectors of the files.     *)
(***************************************************************************)
CurrentLBAOffset(F) ==
  LET offset[i \in 0..Len(F)] == IF i = 0 THEN Len(F) + 1
                                 ELSE offset[i - 1] + Len(F[i].contents)
  IN  offset

FileLBAs(F) == [i \in DOMAIN F |-> CurrentLBAOffset(F)[i - 1]]

NextFileLBA(F) == CurrentLBAOffset(F)[Len(F)]

(* A drive has two programs at least, which CreateSystem.py puts there, a  *)
(* directory no sectors, no name is that of a removed file; the bounds     *)
(* have room for the image and for a table of every file written.          *)
ASSUME ImagesAssumption ==
  /\ Erased \notin Paths
  /\ \A F \in Images :
       /\ F \in Seq(Entries) /\ F # <<>>
       /\ \A i \in DOMAIN F : F[i].folder => F[i].contents = NoFile
       /\ NextFileLBA(F) <= DiskSize
       /\ Len(F) + MaxWrites <= MaxTables

IndexTable(F, i) ==
  [path |-> F[i].path, folder |-> F[i].folder, freed |-> FALSE,
   lba |-> IF F[i].folder THEN 0 ELSE FileLBAs(F)[i],
   NumberSectors |-> Len(F[i].contents),
   sum |-> Checksum(F[i].contents),
   NextLBA |-> IF i = Len(F) THEN 0 ELSE i]

Image(F) == [a \in LBA |->
  CASE a = LbaOffset -> Header(NextFileLBA(F))
    [] a - LbaOffset \in DOMAIN F -> Table(IndexTable(F, a - LbaOffset))
    [] \E i \in DOMAIN F : a - LbaOffset - FileLBAs(F)[i] + 1 \in DOMAIN F[i].contents ->
         LET i == CHOOSE i \in DOMAIN F :
                    a - LbaOffset - FileLBAs(F)[i] + 1 \in DOMAIN F[i].contents
         IN  Data(F[i].contents[a - LbaOffset - FileLBAs(F)[i] + 1])
    [] OTHER -> Data(0)]
-----------------------------------------------------------------------------
(***************************************************************************)
(* Walks along the chain of tables of a disk d.                            *)
(***************************************************************************)
IsTable(d, a) == a \in LBA /\ d[a].kind = "table"

(* The sectors a walk reads.  It stays at a table that links to no other   *)
(* and at a sector that is no table; round a circle it goes on.            *)
NextTable(d, a) == IF IsTable(d, a) /\ d[a].table.NextLBA # 0
                     THEN LbaOffset + 1 + d[a].table.NextLBA
                     ELSE a

Chain(d) ==
  LET c[n \in 1..MaxTables] == IF n = 1 THEN LbaOffset + 1 ELSE NextTable(d, c[n - 1])
  IN  c

TablesOf(d) == Range(Chain(d))

(* A walk comes to an end and meets nothing but tables on its way.         *)
Sound(d) == /\ \A a \in TablesOf(d) : IsTable(d, a)
            /\ \E a \in TablesOf(d) : d[a].table.NextLBA = 0

(* The last table.                                                         *)
GetNextConnecterLBA(d) ==
  CHOOSE a \in TablesOf(d) : d[a].table.NextLBA = 0

(* The free tables with more sectors than the file needs, by their places  *)
(* in the chain, and the first of them.                                    *)
GetFreedIndexTables(d, s) ==
  {n \in DOMAIN Chain(d) : /\ d[Chain(d)[n]].table.freed
                           /\ d[Chain(d)[n]].table.NumberSectors > Len(s)}

NewFileOldIndex(d, s) ==
  Chain(d)[CHOOSE n \in GetFreedIndexTables(d, s) :
             \A m \in GetFreedIndexTables(d, s) : n <= m]

(* The directory is listed without its folders.                            *)
ScanDir(d) == {n \in DOMAIN Chain(d) : ~d[Chain(d)[n]].table.folder}

(* The last file of that path, or 0.                                       *)
FindFileLBA(d, p) ==
  LET found == {n \in ScanDir(d) : d[Chain(d)[n]].table.path = p}
  IN  IF found = {} THEN 0 ELSE Chain(d)[CHOOSE n \in found : \A m \in found : m <= n]

(* The sectors a table names.                                              *)
Extent(t) == {LbaOffset + t.lba + k : k \in 0..(t.NumberSectors - 1)}

(* The file of the table at a, or NoFile when its checksum is another.  (A *)
(* table or the header has a byte sum too; it is taken not to add up.)     *)
ReadFileFromLBA(d, a) ==
  LET t == d[a].table
      got == [k \in 1..t.NumberSectors |-> d[LbaOffset + t.lba + k - 1]]
  IN  IF Extent(t) \subseteq LBA /\ \A k \in DOMAIN got : got[k].kind = "data"
        THEN LET s == [k \in DOMAIN got |-> got[k].sum]
             IN  IF Checksum(s) = t.sum THEN s ELSE NoFile
        ELSE NoFile

(* FS::init: without a file the kernel halts.                              *)
InitFS(d) == IF ScanDir(d) = {} THEN "halted" ELSE "idle"

NoJob == [path |-> CHOOSE p \in Paths : TRUE, contents |-> NoFile, reuse |-> FALSE,
          old |-> 0, lba |-> 0]

(* Entry by entry: what the image has under each path.                     *)
FirstVersions(F) ==
  LET made[i \in 0..Len(F)] ==
        IF i = 0 THEN [p \in Paths |-> <<>>]
        ELSE IF F[i].folder THEN made[i - 1]
        ELSE [made[i - 1] EXCEPT ![F[i].path] = Append(@, Known(F[i].contents))]
  IN  made[Len(F)]

Init ==
  \E F \in Images :
    /\ disk = Image(F)
    /\ FileSystemHeader = NextFileLBA(F)
    /\ pc = InitFS(Image(F))
    /\ job = NoJob
    /\ writes = 0 /\ failures = 0
    /\ versions = FirstVersions(F)
    /\ overwritten = FALSE
-----------------------------------------------------------------------------
(***************************************************************************)
(* WriteFile.                                                              *)
(***************************************************************************)
(* The header, the tables, and the sectors of the files that can be read,  *)
(* but for those of the table at own.                                      *)
InUse(d, own) ==
  LET files == {Chain(d)[n] : n \in {n \in ScanDir(d) : ~d[Chain(d)[n]].table.freed}}
  IN  {LbaOffset} \cup TablesOf(d)
        \cup UNION {Extent(d[b].table) : b \in {b \in files \ {own} :
                                                 ReadFileFromLBA(d, b) # NoFile}}

NewIndex(a, n) ==
  [path |-> job.path, folder |-> FALSE, freed |-> FALSE, lba |-> a,
   NumberSectors |-> Len(job.contents), sum |-> Checksum(job.contents), NextLBA |-> n]

Put(a, sector) == disk' = [disk EXCEPT ![a] = sector]

(* DiskWriteFuncWrapper adds the number of the turn to a sector that it    *)
(* also counts up each turn: only every second sector is written.          *)
SectorWritten(a, k) == a + 2 * (k - 1)

SectorsWritten(a, s) == {SectorWritten(a, k) : k \in DOMAIN s}

PutFile(a, s) ==
  disk' = [x \in LBA |-> IF x \in SectorsWritten(a, s)
                           THEN Data(s[CHOOSE k \in DOMAIN s : SectorWritten(a, k) = x])
                           ELSE disk[x]]

(* What can be known of a file once it is written: with a sector left out  *)
(* it is read back only if that happened to hold the right bytes.          *)
AsWritten(a, s) ==
  IF {a + k - 1 : k \in DOMAIN s} \subseteq SectorsWritten(a, s) \cap LBA
    THEN Known(s) ELSE Unknown

(* S is taken to be free, but for the file of the table at own. *)
Takes(S, own) == overwritten' = (overwritten \/ S \cap InUse(disk, own) # {})

(* Room for one more file; a walk along a broken chain does not return.    *)
CanWrite(s) == /\ pc = "idle" /\ writes < MaxWrites
               /\ Sound(disk)
               /\ FileSystemHeader + 2 * Len(s) + 1 < DiskSize

(* No free table is big enough.                                            *)
WriteNewHome(p, s) ==
  /\ CanWrite(s)
  /\ GetFreedIndexTables(disk, s) = {}
  /\ FileSystemHeader' = FileSystemHeader + Len(s) + 1
  /\ job' = [path |-> p, contents |-> s, reuse |-> FALSE, old |-> 0,
             lba |-> LbaOffset + FileSystemHeader + 1]
  /\ writes' = writes + 1
  /\ pc' = "homeData"
  /\ UNCHANGED <<disk, failures, versions, overwritten>>

(* The file, then its table, then the link to it, then the header.  The    *)
(* table names the sector of the disk, not of the file system.             *)
HomeData ==
  /\ pc = "homeData"
  /\ PutFile(job.lba, job.contents)
  /\ Takes(SectorsWritten(job.lba, job.contents), 0)
  /\ pc' = "homeIndex"
  /\ UNCHANGED <<FileSystemHeader, job, writes, failures, versions>>

HomeIndex ==
  /\ pc = "homeIndex"
  /\ LET a == job.lba + Len(job.contents)
     IN  Put(a, Table(NewIndex(job.lba, 0))) /\ Takes({a}, 0)
  /\ pc' = "link"
  /\ UNCHANGED <<FileSystemHeader, job, writes, failures, versions>>

(* The first free table that is big enough.                                *)
WriteReuse(p, s) ==
  /\ CanWrite(s)
  /\ GetFreedIndexTables(disk, s) # {}
  /\ LET a == NewFileOldIndex(disk, s)
     IN  job' = [path |-> p, contents |-> s, reuse |-> TRUE, old |-> a,
                 lba |-> disk[a].table.lba]
  /\ writes' = writes + 1
  /\ pc' = "shrink"
  /\ UNCHANGED <<disk, FileSystemHeader, failures, versions, overwritten>>

(* Faulty variant: the free table keeps its first sector. *)
Shrink_KeepStart ==
  /\ pc = "shrink"
  /\ LET t == disk[job.old].table
     IN  Put(job.old, Table([t EXCEPT !.NumberSectors = @ - Len(job.contents)]))
  /\ FileSystemHeader' = FileSystemHeader + 1
  /\ pc' = "reuseIndex"
  /\ UNCHANGED <<job, writes, failures, versions, overwritten>>

(* The free table gives its first sectors away, "to prevent overwrites".   *)
Shrink ==
  /\ pc = "shrink"
  /\ LET t == disk[job.old].table
     IN  Put(job.old, Table([t EXCEPT !.lba = @ + Len(job.contents),
                                      !.NumberSectors = @ - Len(job.contents)]))
  /\ FileSystemHeader' = FileSystemHeader + 1
  /\ pc' = "reuseIndex"
  /\ UNCHANGED <<job, writes, failures, versions, overwritten>>

(* The new table goes where the header says that the next sector is free.  *)
ReuseIndex ==
  /\ pc = "reuseIndex"
  /\ LET a == LbaOffset + FileSystemHeader - 1
     IN  Put(a, Table(NewIndex(job.lba, 0))) /\ Takes({a}, 0)
  /\ pc' = "link"
  /\ UNCHANGED <<FileSystemHeader, job, writes, failures, versions>>

(* Faulty variant: counted from the header, not from the first table. *)
NewLink_OneFurther == IF job.reuse THEN FileSystemHeader - 1
                                   ELSE job.lba + Len(job.contents) - LbaOffset

(* The new table's place in the chain, as the two branches compute it.     *)
NewLink == IF job.reuse THEN FileSystemHeader - 2
                        ELSE job.lba + Len(job.contents) - LbaOffset - 1

(* Faulty variant: the free table is linked to, not the last one. *)
Link_AfterOld ==
  /\ pc = "link"
  /\ Sound(disk)
  /\ LET a == IF job.reuse THEN job.old ELSE GetNextConnecterLBA(disk)
     IN  Put(a, Table([disk[a].table EXCEPT !.NextLBA = NewLink]))
  /\ versions' = [versions EXCEPT ![job.path] = Append(@, Unknown)]
  /\ pc' = IF job.reuse THEN "reuseData" ELSE "header"
  /\ UNCHANGED <<FileSystemHeader, job, writes, failures, overwritten>>

(* The last table of the chain is read again and linked to the new one.    *)
Link ==
  /\ pc = "link"
  /\ Sound(disk)
  /\ LET a == GetNextConnecterLBA(disk)
     IN  Put(a, Table([disk[a].table EXCEPT !.NextLBA = NewLink]))
  /\ versions' = [versions EXCEPT ![job.path] = Append(@, Unknown)]
  /\ pc' = IF job.reuse THEN "reuseData" ELSE "header"
  /\ UNCHANGED <<FileSystemHeader, job, writes, failures, overwritten>>

(* What the driver leaves out of the file's own sectors it writes behind   *)
(* them.  Sectors once freed with a file that had a new home were never    *)
(* its own: its table named them counting twice from the header.           *)
ReuseData ==
  /\ pc = "reuseData"
  /\ LET a == LbaOffset + job.lba
     IN  /\ PutFile(a, job.contents)
         /\ Takes({x \in SectorsWritten(a, job.contents) :
                     x >= a + Len(job.contents) \/ x >= 2 * LbaOffset},
                  LbaOffset + 1 + NewLink)
         /\ versions' = [versions EXCEPT ![job.path][Len(versions[job.path])] =
                                           AsWritten(a, job.contents)]
  /\ pc' = "header"
  /\ UNCHANGED <<FileSystemHeader, job, writes, failures>>

(* Faulty variant: both branches look for the name left from a test. *)
WriteHeader_TestName ==
  /\ pc = "header"
  /\ Put(LbaOffset, Header(FileSystemHeader))
  /\ pc' = IF Sound(disk) /\ FindFileLBA(disk, "NewFile.txt") # 0
             THEN "idle" ELSE "halted"
  /\ job' = NoJob
  /\ UNCHANGED <<FileSystemHeader, writes, failures, versions, overwritten>>

(* Then the file is looked for; a walk along a broken chain or a file that *)
(* is not found ("Error File Broken Cant Find") is the end.                *)
WriteHeader ==
  /\ pc = "header"
  /\ Put(LbaOffset, Header(FileSystemHeader))
  /\ pc' = IF Sound(disk) /\ (job.reuse => FindFileLBA(disk, job.path) # 0)
             THEN "idle" ELSE "halted"
  /\ job' = NoJob
  /\ UNCHANGED <<FileSystemHeader, writes, failures, versions, overwritten>>
-----------------------------------------------------------------------------
(* RemoveFile of the table FindFileLBA has found: an earlier file of the   *)
(* same path comes to light again.                                         *)
RemoveFile(p) ==
  /\ pc = "idle"
  /\ Sound(disk)
  /\ FindFileLBA(disk, p) # 0
  /\ LET a == FindFileLBA(disk, p)
     IN  Put(a, Table([disk[a].table EXCEPT !.freed = TRUE, !.path = Erased]))
  /\ versions' = [versions EXCEPT ![p] = SubSeq(@, 1, Len(@) - 1)]
  /\ UNCHANGED <<FileSystemHeader, pc, job, writes, failures, overwritten>>

(* The power fails and the kernel starts again.                            *)
PowerFailure ==
  /\ pc # "halted" /\ failures < MaxFailures
  /\ Sound(disk)
  /\ failures' = failures + 1
  /\ FileSystemHeader' = disk[LbaOffset].NextFreeLBA
  /\ pc' = InitFS(disk)
  /\ job' = NoJob
  /\ UNCHANGED <<disk, writes, versions, overwritten>>

WriteStep == HomeData \/ HomeIndex \/ Shrink \/ ReuseIndex \/ Link \/ ReuseData \/ WriteHeader

Next == \/ \E p \in Paths, s \in Contents : WriteNewHome(p, s) \/ WriteReuse(p, s)
        \/ WriteStep
        \/ \E p \in Paths : RemoveFile(p)
        \/ PowerFailure

Spec == Init /\ [][Next]_vars

(* A call goes on until it returns.                                        *)
FairSpec == Spec /\ WF_vars(WriteStep)
-----------------------------------------------------------------------------
(* At no moment, also after a power failure, is the chain broken: as long  *)
(* as no sector in use has been written over, every walk ends and meets    *)
(* only tables.                                                            *)
ChainSound == ~overwritten => Sound(disk)

(* The disk's sectors are what they should be, and so is what links them.  *)
DiskSound == TypeOK /\ ChainSound

(* ... and every file is found and read back as it was last written, or as *)
(* the one before once that is removed: whatever other files are made,     *)
(* cut out of the free sectors or half made when the power failed.         *)
FilesReadable ==
  ~overwritten => \A p \in Paths :
    LET a == FindFileLBA(disk, p)
        v == versions[p]
    IN  /\ a = 0 <=> v = <<>>
        /\ v # <<>> /\ v[Len(v)].known => ReadFileFromLBA(disk, a) = v[Len(v)].contents

(* No table leaves the chain: its sectors would never be used again.       *)
TablesKept ==
  [][overwritten' \/ TablesOf(disk) \subseteq TablesOf(disk')]_vars

(* WriteFile returns, and finds what it wrote.                             *)
WriteReturns == pc \in PCs \ {"idle", "halted"} ~> pc = "idle" \/ overwritten

(* Space for a new table or file is never in use already (FileSystem.cpp:  *)
(* "update the index to prevent overwrites", "alloc new room for the new   *)
(* header!").                                                              *)
NothingOverwritten == ~overwritten
=============================================================================
