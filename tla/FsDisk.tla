-------------------------------- MODULE FsDisk --------------------------------
(***************************************************************************)
(* Drive A:, fs/fs_disk.c: a table of entries, a bitmap of data sectors    *)
(* and a current directory in memory, and their image on the disk (one     *)
(* superblock sector with the bitmap, the table over several sectors, the  *)
(* data sectors).  An operation changes the memory first and then writes   *)
(* sector after sector; every sector write is a step of its own that may   *)
(* fail, and the machine may lose power between any two of them.           *)
(*                                                                         *)
(* Names are compared without case (strcmpi), so a name stands for all its *)
(* spellings; valid_name refuses the others before anything changes.       *)
(***************************************************************************)
EXTENDS Integers, Sequences, FirstFit

CONSTANTS MaxEnt,        \* FSD_MAX
          PerSector,     \* table entries per sector (16)
          DataSectors,   \* FSD_DATA_SECTORS
          DirNames,      \* names given to mkdir
          FileKeys,      \* <<name, ext>> of the files written
          Contents,      \* what is written: <<text, sectors it takes>>
          NoName,        \* name of the root and of unused entries
          MaxFaults      \* bound: sector accesses that fail, power losses

ASSUME FsDiskAssumption ==
  /\ MaxEnt \in Nat \ {0} /\ PerSector \in Nat \ {0}
  /\ DataSectors \in Nat \ {0}
  /\ NoName \notin DirNames
  /\ \A key \in FileKeys : key = <<key[1], key[2]>> /\ key[1] # NoName
  /\ \A c \in Contents : c[2] \in Nat
  /\ MaxFaults \in Nat

VARIABLES table, bitmap, cwd,        \* memory
          dsuper, dtable, ddata,     \* disk
          pc,      \* what the file system is doing
          todo,    \* the metadata sectors still to be written or read
          op,      \* the operation in progress, or the last one
          ret,     \* its result
          iofail,  \* some sector access of it failed
          faults   \* failures so far, up to MaxFaults

mem  == <<table, bitmap, cwd>>
disk == <<dsuper, dtable, ddata>>
vars == <<table, bitmap, cwd, dsuper, dtable, ddata,
          pc, todo, op, ret, iofail, faults>>

Root        == 0
Slots       == 0 .. (MaxEnt - 1)
Sectors     == 0 .. (DataSectors - 1)

(* Metadata sectors, as the offsets from fsd_base_lba that fs_disk.h gives
   them: the superblock and after it the table. *)
Super        == 0
SectorOf(i)  == 1 + (i \div PerSector)
NumTableSecs == SectorOf(MaxEnt - 1)
TableSecs    == 1 .. NumTableSecs

Names == DirNames \cup {k[1] : k \in FileKeys} \cup {NoName}
Exts  == {k[2] : k \in FileKeys} \cup {NoName}

(* size is kept as the number of sectors it takes: it is 0 exactly when
   num_secs is. *)
Entry == [type: {"free", "file", "dir"}, parent: Slots, name: Names, ext: Exts,
          start: Sectors, num: 0 .. DataSectors]
Unused  == [type |-> "free", parent |-> Root, name |-> NoName, ext |-> NoName,
            start |-> 0, num |-> 0]
RootDir == [Unused EXCEPT !.type = "dir"]

(* Only the type of a freed entry changes.  Its parent may still be read,
   through a cwd that points to it; no code reads the other fields again
   before it sets them, and the model clears them. *)
Freed(e) == [Unused EXCEPT !.parent = e.parent]

Operations == {"none", "mkdir", "write", "delete", "deldir", "rename", "format"}
OpType == [kind: Operations, idx: Slots, key: Names \X Exts, dir: Slots,
           c: Contents \cup {<<NoName, 0>>}, start: Sectors, k: Nat,
           fresh: BOOLEAN]
NoOp == [kind |-> "none", idx |-> Root, key |-> <<NoName, NoName>>, dir |-> Root,
         c |-> <<NoName, 0>>, start |-> 0, k |-> 0, fresh |-> FALSE]

(* Mistakes the properties have to catch: the last sector of the table is
   left out; the superblock is saved after the table. *)
SaveTable_LacksLast == [s \in 1 .. (NumTableSecs - 1) |-> s]
SaveAll_TableFirst  == [s \in 1 .. (NumTableSecs + 1) |->
                          IF s = NumTableSecs + 1 THEN Super ELSE s]

(* save_super; save_table *)
SaveTable == [s \in TableSecs |-> s]
SaveAll   == <<Super>> \o SaveTable

-------------------------------------------------------------------------------
(* find_entry: the first entry of that parent and name; the extension only
   matters for files. *)
Matches(name, ext, dir) ==
  {i \in Slots : /\ table[i].type # "free"
                 /\ table[i].parent = dir
                 /\ table[i].name = name
                 /\ table[i].type = "file" => table[i].ext = ext}
Found(name, ext, dir) ==
  {i \in Matches(name, ext, dir) : \A j \in Matches(name, ext, dir) : i <= j}

FreeSlots == {i \in Slots \ {Root} : table[i].type = "free"}
FreeSlot  == {i \in FreeSlots : \A j \in FreeSlots : i <= j}

Owned(e) == IF e.type # "free" THEN Extent(e.start, e.num) ELSE {}

(* What a read of the entry returns from the sectors d. *)
Holds(e, d, c) ==
  e.num = c[2] /\ \A k \in 0 .. (c[2] - 1) : d[e.start + k] = <<c, k>>

-------------------------------------------------------------------------------
Blank == <<<<NoName, 0>>, 0>>

(* The image the build makes: no magic, everything zero.  Power is on and
   fsd_init is about to run. *)
Init ==
  /\ table = [i \in Slots |-> Unused] /\ bitmap = {} /\ cwd = Root
  /\ dsuper = [magic |-> FALSE, bits |-> {}]
  /\ dtable = [i \in Slots |-> Unused]
  /\ ddata = [s \in Sectors |-> Blank]
  /\ pc = "loadsuper" /\ todo = <<>>
  /\ op = NoOp /\ ret = "none" /\ iofail = FALSE /\ faults = 0

(* An access to a sector succeeds, or fails while the bound allows. *)
Access(ok) ==
  /\ ok \/ faults < MaxFaults
  /\ faults' = IF ok THEN faults ELSE faults + 1

(* A mistake the properties have to catch: the bitmap is not loaded. *)
LoadSuper_NoBitmap(ok) ==
  /\ pc = "loadsuper"
  /\ IF ok /\ dsuper.magic
       THEN pc' = "loadtable" /\ todo' = SaveTable /\ UNCHANGED table
       ELSE /\ table' = [table EXCEPT ![Root] = RootDir]
            /\ pc' = "save" /\ todo' = SaveAll
  /\ Access(ok) /\ iofail' = ~ok
  /\ UNCHANGED <<bitmap, cwd, disk, op, ret>>

(* fsd_init: without a readable superblock with the magic the root is made
   anew and saved over whatever the disk holds. *)
LoadSuper(ok) ==
  /\ pc = "loadsuper"
  /\ IF ok /\ dsuper.magic
       THEN /\ bitmap' = dsuper.bits
            /\ pc' = "loadtable" /\ todo' = SaveTable
            /\ UNCHANGED table
       ELSE /\ table' = [table EXCEPT ![Root] = RootDir]
            /\ pc' = "save" /\ todo' = SaveAll
            /\ UNCHANGED bitmap
  /\ Access(ok) /\ iofail' = ~ok
  /\ UNCHANGED <<cwd, disk, op, ret>>

(* load_table skips a sector it cannot read: its entries stay free. *)
LoadTable(ok) ==
  /\ pc = "loadtable"
  /\ table' = [i \in Slots |-> IF ok /\ SectorOf(i) = Head(todo)
                                 THEN dtable[i] ELSE table[i]]
  /\ todo' = Tail(todo)
  /\ pc' = IF Tail(todo) = <<>> THEN "idle" ELSE pc
  /\ Access(ok) /\ iofail' = (iofail \/ ~ok)
  /\ UNCHANGED <<bitmap, cwd, disk, op, ret>>

(* The machine loses power: memory is gone, the disk stays as it is.  The
   operation is kept as history: the code forgets it too. *)
PowerLoss ==
  /\ pc # "loadsuper"
  /\ table' = [i \in Slots |-> Unused] /\ bitmap' = {} /\ cwd' = Root
  /\ pc' = "loadsuper" /\ todo' = <<>>
  /\ op' = IF pc \in {"data", "save"} THEN op ELSE NoOp
  /\ ret' = "none" /\ iofail' = FALSE
  /\ Access(FALSE)
  /\ UNCHANGED disk

-------------------------------------------------------------------------------
(* An operation that starts saving, or ends at once with an error. *)
Begin(o)  == pc = "idle" /\ op' = o /\ iofail' = FALSE /\ UNCHANGED <<disk, faults>>
Save(sec) == pc' = "save" /\ todo' = sec /\ ret' = "none"
Fail      == ret' = "error" /\ UNCHANGED <<pc, todo>>

Cd(name) ==
  /\ pc = "idle"
  /\ \E i \in Found(name, NoName, cwd) : table[i].type = "dir" /\ cwd' = i
  /\ UNCHANGED <<table, bitmap, disk, pc, todo, op, ret, iofail, faults>>

CdUp ==
  /\ pc = "idle"
  /\ cwd' = table[cwd].parent
  /\ UNCHANGED <<table, bitmap, disk, pc, todo, op, ret, iofail, faults>>

Mkdir(name) ==
  /\ Found(name, NoName, cwd) = {}
  /\ \E i \in FreeSlot :
       /\ Begin([NoOp EXCEPT !.kind = "mkdir", !.idx = i])
       /\ table' = [table EXCEPT ![i] = [RootDir EXCEPT !.parent = cwd, !.name = name]]
       /\ Save(SaveTable)
  /\ UNCHANGED <<bitmap, cwd>>

(* A mistake the properties have to catch: sectors are found but not
   marked. *)
WriteEntry_MarksNothing(i, tab, bits, dir, key, c, fresh) ==
  LET o == [NoOp EXCEPT !.kind = "write", !.idx = i, !.key = key, !.dir = dir,
                        !.c = c, !.fresh = fresh]
  IN
  /\ table' = tab /\ bitmap' = bits /\ UNCHANGED cwd
  /\ \/ c[2] = 0 /\ Begin(o) /\ Save(SaveAll)
     \/ /\ c[2] > 0
        /\ \E s \in FirstFits(bits, DataSectors, c[2]) : Begin([o EXCEPT !.start = s])
        /\ pc' = "data" /\ ret' = "none" /\ UNCHANGED todo
     \/ c[2] > 0 /\ Fits(bits, DataSectors, c[2]) = {} /\ Begin(o) /\ Fail

(* fsd_write_in up to the first sector it writes, once the entry is chosen:
   `bits' is the bitmap and `tab' the table with the entry emptied. *)
WriteEntry(i, tab, bits, dir, key, c, fresh) ==
  LET o == [NoOp EXCEPT !.kind = "write", !.idx = i, !.key = key, !.dir = dir,
                        !.c = c, !.fresh = fresh]
  IN
  /\ table' = tab
  /\ UNCHANGED cwd
  /\ \/ /\ c[2] = 0
        /\ Begin(o) /\ Save(SaveAll)
        /\ bitmap' = bits
     \/ /\ c[2] > 0
        /\ \E s \in FirstFits(bits, DataSectors, c[2]) :
             /\ Begin([o EXCEPT !.start = s])
             /\ bitmap' = bits \cup Extent(s, c[2])
        /\ pc' = "data" /\ ret' = "none" /\ UNCHANGED todo
     \/ /\ c[2] > 0 /\ Fits(bits, DataSectors, c[2]) = {}
        /\ Begin(o) /\ Fail
        /\ bitmap' = bits

(* A mistake the properties have to catch: the entry keeps its extent. *)
Overwrite_KeepsExtent(dir, key, c) ==
  \E i \in Found(key[1], key[2], dir) :
    WriteEntry(i, table, bitmap \ Extent(table[i].start, table[i].num),
               dir, key, c, FALSE)

(* An entry of that name exists: it loses its sectors before anything
   else, whatever its type. *)
Overwrite(dir, key, c) ==
  \E i \in Found(key[1], key[2], dir) :
    WriteEntry(i, [table EXCEPT ![i].num = 0, ![i].start = 0],
               bitmap \ Extent(table[i].start, table[i].num), dir, key, c, FALSE)

Create(dir, key, c) ==
  /\ Found(key[1], key[2], dir) = {}
  /\ \E i \in FreeSlot :
       WriteEntry(i, [table EXCEPT ![i] =
                        [Unused EXCEPT !.type = "file", !.parent = dir,
                                       !.name = key[1], !.ext = key[2]]],
                  bitmap, dir, key, c, TRUE)

(* Mistakes the properties have to catch: every sector is written to the
   first place; the entry counts a sector too many. *)
WriteData_SamePlace ==
  /\ pc = "data"
  /\ ddata' = [ddata EXCEPT ![op.start] = <<op.c, op.k>>]
  /\ IF op.k + 1 = op.c[2]
       THEN /\ table' = [table EXCEPT ![op.idx].num = op.c[2],
                                      ![op.idx].start = op.start]
            /\ op' = [op EXCEPT !.start = 0, !.k = 0]
            /\ pc' = "save" /\ todo' = SaveAll
       ELSE /\ op' = [op EXCEPT !.k = @ + 1]
            /\ UNCHANGED <<table, pc, todo>>
  /\ UNCHANGED <<bitmap, cwd, dsuper, dtable, ret, iofail, faults>>

(* One data sector.  The entry gets its extent after the last one. *)
WriteData ==
  /\ pc = "data"
  /\ ddata' = [ddata EXCEPT ![op.start + op.k] = <<op.c, op.k>>]
  /\ IF op.k + 1 = op.c[2]
       THEN /\ table' = [table EXCEPT ![op.idx].num = op.c[2],
                                      ![op.idx].start = op.start]
            /\ op' = [op EXCEPT !.start = 0, !.k = 0]
            /\ pc' = "save" /\ todo' = SaveAll
       ELSE /\ op' = [op EXCEPT !.k = @ + 1]
            /\ UNCHANGED <<table, pc, todo>>
  /\ UNCHANGED <<bitmap, cwd, dsuper, dtable, ret, iofail, faults>>

(* A mistake the properties have to catch: the sectors are not given back. *)
WriteDataFails_KeepsSectors ==
  /\ pc = "data"
  /\ pc' = "idle" /\ ret' = "error" /\ iofail' = TRUE /\ Access(FALSE)
  /\ op' = NoOp
  /\ UNCHANGED <<mem, disk, todo>>

(* disk_write fails: the sectors are given back and nothing is saved. *)
WriteDataFails ==
  /\ pc = "data"
  /\ bitmap' = bitmap \ Extent(op.start, op.c[2])
  /\ pc' = "idle" /\ ret' = "error" /\ iofail' = TRUE /\ Access(FALSE)
  /\ op' = NoOp
  /\ UNCHANGED <<table, cwd, disk, todo>>

(* A mistake the properties have to catch: the superblock is saved without
   its magic. *)
SaveSector_NoMagic(ok) ==
  /\ pc = "save"
  /\ IF ok /\ Head(todo) = Super
       THEN dsuper' = [magic |-> FALSE, bits |-> bitmap] ELSE UNCHANGED dsuper
  /\ dtable' = [i \in Slots |-> IF ok /\ SectorOf(i) = Head(todo)
                                  THEN table[i] ELSE dtable[i]]
  /\ todo' = Tail(todo)
  /\ IF Tail(todo) = <<>> THEN pc' = "idle" /\ ret' = "ok" ELSE UNCHANGED <<pc, ret>>
  /\ Access(ok) /\ iofail' = (iofail \/ ~ok)
  /\ UNCHANGED <<mem, ddata, op>>

(* One sector of save_super or save_table, from memory as it is now; the
   result of disk_write is ignored. *)
SaveSector(ok) ==
  /\ pc = "save"
  /\ IF ok /\ Head(todo) = Super
       THEN dsuper' = [magic |-> TRUE, bits |-> bitmap] ELSE UNCHANGED dsuper
  /\ dtable' = [i \in Slots |-> IF ok /\ SectorOf(i) = Head(todo)
                                  THEN table[i] ELSE dtable[i]]
  /\ todo' = Tail(todo)
  /\ IF Tail(todo) = <<>> THEN pc' = "idle" /\ ret' = "ok" ELSE UNCHANGED <<pc, ret>>
  /\ Access(ok) /\ iofail' = (iofail \/ ~ok)
  /\ UNCHANGED <<mem, ddata, op>>

(* fsd_delete of a directory frees its direct children only. *)
DeleteDir(name) ==
  /\ \E i \in Found(name, NoName, cwd) :
       LET kids == {j \in Slots \ {Root} : table[j].type # "free" /\ table[j].parent = i}
       IN
       /\ table[i].type = "dir" /\ i # Root
       /\ Begin([NoOp EXCEPT !.kind = "deldir", !.idx = i])
       /\ bitmap' = bitmap \ UNION {Owned(table[j]) : j \in kids}
       /\ table' = [j \in Slots |-> IF j \in kids \cup {i}
                                      THEN Freed(table[j])
                                      ELSE table[j]]
       /\ cwd' = IF cwd = i THEN Root ELSE cwd
  /\ Save(SaveAll)

DeleteFile(key) ==
  /\ \E i \in Found(key[1], key[2], cwd) :
       /\ table[i].type = "file"
       /\ Begin([NoOp EXCEPT !.kind = "delete", !.idx = i])
       /\ bitmap' = bitmap \ Owned(table[i])
       /\ table' = [table EXCEPT ![i] = Freed(@)]
  /\ Save(SaveAll)
  /\ UNCHANGED cwd

Rename(key, new) ==
  /\ Found(new[1], new[2], cwd) = {}
  /\ \E i \in Found(key[1], key[2], cwd) :
       /\ table[i].type = "file"
       /\ Begin([NoOp EXCEPT !.kind = "rename", !.idx = i])
       /\ table' = [table EXCEPT ![i].name = new[1], ![i].ext = new[2]]
  /\ Save(SaveTable)
  /\ UNCHANGED <<bitmap, cwd>>

Format ==
  /\ Begin([NoOp EXCEPT !.kind = "format"])
  /\ table' = [i \in Slots |-> IF i = Root THEN table[i]
                                 ELSE Freed(table[i])]
  /\ bitmap' = {}
  /\ cwd' = Root
  /\ Save(SaveAll)

-------------------------------------------------------------------------------
LiveDirs == {i \in Slots : table[i].type = "dir"}

(* fsd_write writes into cwd; copy and move into any directory. *)
Operation ==
  \/ \E name \in DirNames : Cd(name) \/ Mkdir(name) \/ DeleteDir(name)
  \/ CdUp
  \/ \E key \in FileKeys, c \in Contents, dir \in LiveDirs \cup {cwd} :
       Overwrite(dir, key, c) \/ Create(dir, key, c)
  \/ \E key \in FileKeys : DeleteFile(key)
  \/ \E key, new \in FileKeys : Rename(key, new)
  \/ Format

DiskWorks == LoadSuper(TRUE) \/ LoadTable(TRUE) \/ WriteData \/ SaveSector(TRUE)

WriteErrors == WriteDataFails \/ SaveSector(FALSE)
ReadErrors  == LoadSuper(FALSE) \/ LoadTable(FALSE)

(* The machine stays on; sector writes may fail. *)
Next == Operation \/ DiskWorks \/ WriteErrors
Spec == Init /\ [][Next]_vars

(* Power may fail at any moment, and a sector may be unreadable at boot. *)
CrashNext == Operation \/ DiskWorks \/ ReadErrors \/ PowerLoss
CrashSpec == Init /\ [][CrashNext]_vars
-------------------------------------------------------------------------------
TypeOK ==
  /\ table \in [Slots -> Entry] /\ dtable \in [Slots -> Entry]
  /\ bitmap \in SUBSET Sectors
  /\ cwd \in Slots
  /\ dsuper \in [magic: BOOLEAN, bits: SUBSET Sectors]
  /\ ddata \in [Sectors -> (Contents \X Nat) \cup {Blank}]
  /\ pc \in {"loadsuper", "loadtable", "idle", "data", "save"}
  /\ todo \in Seq({Super} \cup TableSecs)
  /\ op \in OpType
  /\ ret \in {"none", "ok", "error"} /\ iofail \in BOOLEAN

(* The sectors the write in progress has taken and no entry owns yet. *)
Pending == IF pc = "data" THEN Extent(op.start, op.c[2]) ELSE {}

(* No sector belongs to two entries of a table. *)
NoSharedSectors(tab) ==
  \A i, j \in Slots : i # j => Owned(tab[i]) \cap Owned(tab[j]) = {}

(* Two files never share a data sector, and a sector in use is never free
   for sec_alloc to hand out again (fs_disk.c:303-350, 401-424). *)
SectorsSafe ==
  /\ NoSharedSectors(table)
  /\ \A i \in Slots : Owned(table[i]) \subseteq bitmap \ Pending
  /\ Pending \subseteq bitmap

(* The root is no file and has no name that an operation could be given. *)
RootKept(tab) == tab[Root].num = 0 /\ tab[Root].name = NoName

(* What the steps of an operation rely on: a write in progress has its
   sectors, and its entry owns none yet; a save has sectors left to write;
   and the disk carries no magic until the first save. *)
StepsReady ==
  /\ RootKept(table)
  /\ pc # "loadtable"
  /\ pc = "loadsuper" =>
       /\ ~dsuper.magic /\ bitmap = {}
       /\ \A i \in Slots : table[i] = Unused
  /\ pc = "save" => todo # <<>>
  /\ pc = "data" => /\ op.c \in Contents /\ op.k < op.c[2]
                    /\ Pending \subseteq Sectors
                    /\ op.idx # Root /\ table[op.idx].num = 0

(* The inductive invariant of drive A: while the machine stays on. *)
DriveInv == TypeOK /\ SectorsSafe /\ StepsReady

(* Every sector marked used belongs to an entry or to the write in
   progress: the error paths and the deletions give all of them back
   (fs_disk.c:311, :338, :408, :418). *)
NoLostSectors ==
  pc \in {"idle", "data", "save"} =>
    bitmap = (UNION {Owned(table[i]) : i \in Slots}) \cup Pending

(* What the disk holds of an entry. *)
OnDisk(i) ==
  <<dtable[i], [k \in 0 .. (dtable[i].num - 1) |-> ddata[dtable[i].start + k]]>>

(* A sector write of an operation never changes, on the disk, an entry
   that memory and disk agree on: neither its place in the table nor the
   contents of its sectors.  A write that fails half way and the saves that
   follow it included. *)
BystandersIntact ==
  [][\A i \in Slots : table[i].type # "free" /\ table[i] = dtable[i]
       => OnDisk(i)' = OnDisk(i)]_vars

(* When fsd_write_in returns 0 the name it was given finds a file with the
   contents it was given ("cria ou edita arquivo", README.md:220). *)
WrittenIsRead ==
  pc = "idle" /\ op.kind = "write" /\ ret = "ok" =>
    \E i \in Found(op.key[1], op.key[2], op.dir) :
      table[i].type = "file" /\ Holds(table[i], ddata, op.c)

(* When an operation returns 0 and no sector write failed, a reboot would
   find the table as it is in memory, and the bitmap too unless the
   operation saves the table only; whatever failed before it. *)
SuccessIsDurable ==
  pc = "idle" /\ ret = "ok" /\ ~iofail =>
    /\ dtable = table
    /\ op.kind \notin {"mkdir", "rename"} => dsuper.bits = bitmap

(* The disk can be mounted and written to without harm to its files. *)
DiskSafe ==
  /\ NoSharedSectors(dtable)
  /\ \A i \in Slots : Owned(dtable[i]) \subseteq dsuper.bits

Creating == op.kind \in {"mkdir", "rename"} \/ (op.kind = "write" /\ op.fresh)

(* Power may fail between any two sector writes of an operation that
   creates or renames an entry: the disk is mountable after each of them,
   if it was before, no access failed and nothing else waits to be saved.  This is what the
   order "superblock first" of fs_disk.c:347-348 achieves. *)
CreatingIsCrashSafe ==
  [][/\ Creating /\ ~iofail /\ DiskSafe /\ SectorsSafe
     /\ \A i \in Slots \ {op.idx} : table[i] = dtable[i]
     => DiskSafe']_vars

(* What a boot loads from such a disk is safe to go on with, whichever
   sectors it could not read (fs_disk.c:186-221). *)
BootIsSafe ==
  [][(pc \in {"loadsuper", "loadtable"} /\ DiskSafe) => SectorsSafe']_vars

FilesStay ==
  \A i \in Slots : dtable[i].type = "file" => OnDisk(i)' = OnDisk(i)

(* A boot that could read what it tried to read changes no file on the
   disk. *)
BootPreservesFiles == [][op.kind = "none" /\ ~iofail => FilesStay]_vars

(* Until the user asks for something no file on the disk changes: drive A:
   is "persistente" (README.md:87). *)
DriveIsPersistent == [][op.kind = "none" => FilesStay]_vars
===============================================================================
