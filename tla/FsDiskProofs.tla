----------------------------- MODULE FsDiskProofs -----------------------------
(***************************************************************************)
(* Drive A:, for every size of the table and of the disk and any number of *)
(* failed sector accesses.  While the machine stays on, files never share  *)
(* sectors, an operation never damages a file it was not asked to change,  *)
(* a success is on the disk, and, if no directory has the name of a file,  *)
(* no sector is lost and what is written is what is read.  When power may  *)
(* fail between any two sector writes, creating and renaming leave a disk  *)
(* that a boot can go on with, a boot from such a disk is safe, and a boot *)
(* that reads what it tries to read changes no file.                       *)
(***************************************************************************)
EXTENDS FsDisk, TLAPS, WellFoundedInduction

(* The constants that types are made of are not empty. *)
LEMMA Shapes ==
  /\ Root \in Slots /\ 0 \in Sectors /\ NumTableSecs \in Nat /\ NumTableSecs > 0
  /\ NoName \in Names /\ NoName \in Exts
  BY FsDiskAssumption, Z3
  DEF Slots, Sectors, Root, NumTableSecs, SectorOf, Names, Exts

(* The lists of sectors to save, and the entries and operations written. *)
LEMMA ShapesTyped ==
  /\ Unused \in Entry /\ RootDir \in Entry /\ NoOp \in OpType
  /\ SaveTable \in Seq({Super} \cup TableSecs) /\ SaveTable # <<>>
  /\ SaveAll \in Seq({Super} \cup TableSecs) /\ SaveAll # <<>>
<1>1. Unused \in Entry /\ RootDir \in Entry
  BY Shapes, FsDiskAssumption DEF Unused, RootDir, Entry
<1>2. NoOp \in OpType
  BY Shapes DEF NoOp, OpType, Operations
<1>3. SaveTable \in Seq({Super} \cup TableSecs) /\ Len(SaveTable) = NumTableSecs
  BY Shapes DEF SaveTable, TableSecs
<1>4. SaveAll \in Seq({Super} \cup TableSecs) /\ Len(SaveAll) = 1 + NumTableSecs
  BY <1>3, Shapes DEF SaveAll
<1> QED
  BY <1>1, <1>2, <1>3, <1>4, Shapes

(* A freed entry is an entry and owns nothing. *)
LEMMA FreedOwnsNothing ==
  ASSUME NEW e \in Entry
  PROVE  Freed(e) \in Entry /\ Owned(Freed(e)) = {} /\ Freed(e).type = "free"
  BY ShapesTyped DEF Freed, Unused, Entry, Owned

(* An entry without sectors owns nothing. *)
LEMMA EmptyOwnsNothing ==
  ASSUME NEW e \in Entry, e.num = 0
  PROVE  Owned(e) = {}
  BY FsDiskAssumption DEF Entry, Owned, Extent, Sectors

(* sec_alloc returns sectors of the disk that nobody uses. *)
LEMMA AllocIsFree ==
  ASSUME NEW used, NEW n \in Nat, n > 0,
         NEW s \in FirstFits(used, DataSectors, n)
  PROVE  /\ s \in Sectors /\ n \in 0 .. DataSectors
         /\ Extent(s, n) \subseteq Sectors
         /\ Extent(s, n) \cap used = {}
  BY FsDiskAssumption DEF FirstFits, Fits, Extent, Sectors

(* The entries an operation looks up exist. *)
LEMMA FoundIsLive ==
  ASSUME NEW name, NEW ext, NEW dir, NEW i \in Found(name, ext, dir)
  PROVE  i \in Slots /\ table[i].type # "free"
  BY DEF Found, Matches

LEMMA FreeSlotIsFree ==
  ASSUME NEW i \in FreeSlot
  PROVE  i \in Slots /\ i # Root /\ table[i].type = "free"
  BY DEF FreeSlot, FreeSlots

(* Power is on, nothing is on the disk. *)
LEMMA InitDriveInv == Init => DriveInv
<1> SUFFICES ASSUME Init PROVE DriveInv
  OBVIOUS
<1>1. table \in [Slots -> Entry] /\ dtable \in [Slots -> Entry] /\ op \in OpType
  BY ShapesTyped DEF Init
<1>2. /\ dsuper \in [magic: BOOLEAN, bits: SUBSET Sectors]
      /\ ddata \in [Sectors -> (Contents \X Nat) \cup {Blank}]
      /\ todo \in Seq({Super} \cup TableSecs)
  BY DEF Init
<1>3. TypeOK
  BY <1>1, <1>2, Shapes DEF Init, TypeOK
<1>4. \A i \in Slots : Owned(table[i]) = {}
  BY DEF Init, Unused, Owned
<1> QED
  BY <1>3, <1>4, Shapes
  DEF Init, DriveInv, SectorsSafe, NoSharedSectors, Pending, StepsReady, RootKept, Unused

-------------------------------------------------------------------------------
(* Replacing the entry at i by one that owns nothing keeps files apart. *)
LEMMA EmptyOneEntry ==
  ASSUME TypeOK, SectorsSafe, NEW i \in Slots, NEW e \in Entry, Owned(e) = {},
         NEW tab, tab = [table EXCEPT ![i] = e]
  PROVE  /\ tab \in [Slots -> Entry] /\ tab[i] = e
         /\ NoSharedSectors(tab)
         /\ \A j \in Slots : Owned(tab[j]) \subseteq Owned(table[j])
         /\ \A j \in Slots : Owned(tab[j]) \cap Owned(table[i]) = {}
  BY DEF TypeOK, SectorsSafe, NoSharedSectors

(* Boot of a disk without the magic: a root and nothing else. *)
LEMMA LoadSuperKeeps ==
  ASSUME DriveInv, LoadSuper(TRUE)
  PROVE  DriveInv'
<1>1. /\ table' = [table EXCEPT ![Root] = RootDir] /\ pc' = "save" /\ todo' = SaveAll
      /\ bitmap' = {} /\ UNCHANGED <<cwd, disk, op, ret>> /\ iofail' = FALSE
      /\ \A i \in Slots : table[i] = Unused
  BY DEF LoadSuper, DriveInv, StepsReady
<1>2. Owned(RootDir) = {} /\ RootDir \in Entry
  BY ShapesTyped, EmptyOwnsNothing DEF RootDir, Unused
<1>3. TypeOK'
  BY <1>1, <1>2, ShapesTyped DEF DriveInv, TypeOK, disk
<1>4. \A i \in Slots : Owned(table'[i]) = {}
  BY <1>1, <1>2 DEF DriveInv, TypeOK, Owned, Unused
<1>5. SectorsSafe'
  BY <1>1, <1>4 DEF SectorsSafe, NoSharedSectors, Pending
<1>6. RootKept(table')
  BY <1>1, Shapes DEF DriveInv, TypeOK, RootKept, RootDir, Unused
<1>7. StepsReady'
  BY <1>1, <1>6, ShapesTyped DEF StepsReady, RootKept
<1> QED
  BY <1>3, <1>5, <1>7 DEF DriveInv

(* Changing directory touches neither table nor disk. *)
LEMMA CwdKeeps ==
  ASSUME DriveInv, cwd' \in Slots,
         UNCHANGED <<table, bitmap, disk, pc, todo, op, ret, iofail>>
  PROVE  DriveInv'
<1>1. TypeOK'
  BY DEF DriveInv, TypeOK, disk
<1>2. SectorsSafe'
  BY DEF DriveInv, SectorsSafe, NoSharedSectors, Pending
<1>3. StepsReady'
  BY DEF DriveInv, StepsReady, RootKept, Pending, disk
<1> QED
  BY <1>1, <1>2, <1>3 DEF DriveInv

(* An operation that changes only memory and then saves keeps the
   invariant if its new table keeps files apart and its new bitmap still
   covers them. *)
LEMMA SavingKeeps ==
  ASSUME DriveInv, pc = "idle", UNCHANGED disk,
         table' \in [Slots -> Entry], NoSharedSectors(table'),
         RootKept(table'),
         bitmap' \in SUBSET Sectors, cwd' \in Slots, op' \in OpType,
         iofail' \in BOOLEAN, ret' \in {"none", "ok", "error"},
         \A i \in Slots : Owned(table'[i]) \subseteq bitmap',
         \/ pc' = "save" /\ todo' \in {SaveAll, SaveTable}
         \/ pc' = "idle" /\ todo' = todo
  PROVE  DriveInv'
<1>1. TypeOK'
  BY ShapesTyped DEF DriveInv, TypeOK, disk
<1>2. SectorsSafe'
  BY DEF SectorsSafe, Pending, NoSharedSectors
<1>3. StepsReady'
  BY ShapesTyped DEF StepsReady, RootKept
<1> QED
  BY <1>1, <1>2, <1>3 DEF DriveInv

(* The entry that find_entry gives for a name is not the root. *)
LEMMA FoundIsNotRoot ==
  ASSUME DriveInv, NEW name, name # NoName, NEW ext, NEW dir,
         NEW i \in Found(name, ext, dir)
  PROVE  i \in Slots /\ i # Root
  BY DEF Found, Matches, DriveInv, StepsReady, RootKept

(* A new directory owns no sector. *)
LEMMA MkdirKeeps ==
  ASSUME DriveInv, NEW name \in DirNames, Mkdir(name)
  PROVE  DriveInv'
<1>1. PICK i \in FreeSlot :
        /\ Begin([NoOp EXCEPT !.kind = "mkdir", !.idx = i])
        /\ table' = [table EXCEPT ![i] = [RootDir EXCEPT !.parent = cwd, !.name = name]]
        /\ Save(SaveTable)
  BY DEF Mkdir
<1> DEFINE e == [RootDir EXCEPT !.parent = cwd, !.name = name]
<1>2. e \in Entry /\ Owned(e) = {}
  <2>1. e \in Entry /\ e.num = 0
    BY ShapesTyped DEF DriveInv, TypeOK, RootDir, Unused, Entry, Names
  <2> QED
    BY <2>1, EmptyOwnsNothing
<1> HIDE DEF e
<1>3. op' \in OpType
  BY <1>1, ShapesTyped, FreeSlotIsFree DEF Begin, NoOp, OpType, Operations
<1>4. /\ table' \in [Slots -> Entry] /\ NoSharedSectors(table')
      /\ \A j \in Slots : Owned(table'[j]) \subseteq Owned(table[j])
  <2>1. i \in Slots /\ table' = [table EXCEPT ![i] = e]
    BY <1>1, FreeSlotIsFree DEF e
  <2> QED
    BY <1>2, <2>1, EmptyOneEntry DEF DriveInv
<1>5. \A j \in Slots : Owned(table'[j]) \subseteq bitmap'
  BY <1>4 DEF Mkdir, DriveInv, SectorsSafe
<1>6. /\ pc = "idle" /\ UNCHANGED disk /\ iofail' \in BOOLEAN
      /\ bitmap' \in SUBSET Sectors /\ cwd' \in Slots
      /\ ret' \in {"none", "ok", "error"} /\ pc' = "save" /\ todo' = SaveTable
  BY <1>1 DEF Mkdir, Begin, Save, DriveInv, TypeOK
<1>7. RootKept(table')
  BY <1>1, FreeSlotIsFree, Shapes DEF DriveInv, TypeOK, StepsReady, RootKept
<1> QED
  BY <1>3, <1>4, <1>5, <1>6, <1>7, SavingKeeps

(* Renaming moves no sector. *)
LEMMA RenameKeeps ==
  ASSUME DriveInv, NEW key \in FileKeys, NEW new \in FileKeys, Rename(key, new)
  PROVE  DriveInv'
<1>1. PICK i \in Found(key[1], key[2], cwd) :
        /\ Begin([NoOp EXCEPT !.kind = "rename", !.idx = i])
        /\ table' = [table EXCEPT ![i].name = new[1], ![i].ext = new[2]]
  BY DEF Rename
<1>2. i \in Slots
  BY FoundIsLive
<1>3. op' \in OpType
  BY <1>1, <1>2, ShapesTyped DEF Begin, NoOp, OpType, Operations
<1> DEFINE e == [table[i] EXCEPT !.name = new[1], !.ext = new[2]]
<1>4. e \in Entry /\ Owned(e) = Owned(table[i])
  <2>1. table[i] \in Entry /\ new[1] \in Names /\ new[2] \in Exts
    BY <1>2 DEF DriveInv, TypeOK, Names, Exts
  <2> QED
    BY <2>1 DEF Entry, Owned
<1>5. table' = [table EXCEPT ![i] = e]
  BY <1>1, <1>2 DEF DriveInv, TypeOK, Entry
<1> HIDE DEF e
<1>6. table' \in [Slots -> Entry] /\ \A j \in Slots : Owned(table'[j]) = Owned(table[j])
  BY <1>2, <1>4, <1>5 DEF DriveInv, TypeOK
<1>7. NoSharedSectors(table') /\ \A j \in Slots : Owned(table'[j]) \subseteq bitmap'
  BY <1>6 DEF Rename, DriveInv, SectorsSafe, NoSharedSectors
<1>8. /\ pc = "idle" /\ UNCHANGED disk /\ iofail' \in BOOLEAN
      /\ bitmap' \in SUBSET Sectors /\ cwd' \in Slots
      /\ ret' \in {"none", "ok", "error"} /\ pc' = "save" /\ todo' = SaveTable
  BY <1>1 DEF Rename, Begin, Save, DriveInv, TypeOK
<1>9. RootKept(table')
  <2>1. i # Root
    BY FoundIsNotRoot, FsDiskAssumption
  <2> QED
    BY <1>2, <1>5, <2>1, Shapes DEF DriveInv, TypeOK, StepsReady, RootKept
<1> QED
  BY <1>3, <1>6, <1>7, <1>8, <1>9, SavingKeeps

(* A deleted file gives back its sectors, which nobody else had. *)
LEMMA DeleteFileKeeps ==
  ASSUME DriveInv, NEW key \in FileKeys, DeleteFile(key)
  PROVE  DriveInv'
<1>1. PICK i \in Found(key[1], key[2], cwd) :
        /\ Begin([NoOp EXCEPT !.kind = "delete", !.idx = i])
        /\ bitmap' = bitmap \ Owned(table[i])
        /\ table' = [table EXCEPT ![i] = Freed(@)]
  BY DEF DeleteFile
<1>2. i \in Slots
  BY FoundIsLive
<1>3. op' \in OpType
  BY <1>1, <1>2, ShapesTyped DEF Begin, NoOp, OpType, Operations
<1>4. /\ table' \in [Slots -> Entry] /\ NoSharedSectors(table')
      /\ \A j \in Slots : Owned(table'[j]) \subseteq Owned(table[j])
      /\ \A j \in Slots : Owned(table'[j]) \cap Owned(table[i]) = {}
  <2> DEFINE e == Freed(table[i])
  <2>1. table[i] \in Entry
    BY <1>2 DEF DriveInv, TypeOK
  <2>2. table' = [table EXCEPT ![i] = e]
    BY <1>1
  <2>3. e \in Entry /\ Owned(e) = {}
    BY <2>1, FreedOwnsNothing
  <2> HIDE DEF e
  <2> QED
    BY <1>2, <2>2, <2>3, EmptyOneEntry DEF DriveInv
<1>5. \A j \in Slots : Owned(table'[j]) \subseteq bitmap'
  BY <1>1, <1>4 DEF DriveInv, SectorsSafe
<1>6. /\ pc = "idle" /\ UNCHANGED disk /\ iofail' \in BOOLEAN
      /\ bitmap' \in SUBSET Sectors /\ cwd' \in Slots
      /\ ret' \in {"none", "ok", "error"} /\ pc' = "save" /\ todo' = SaveAll
  BY <1>1 DEF DeleteFile, Begin, Save, DriveInv, TypeOK
<1>7. RootKept(table')
  <2>1. i # Root
    BY FoundIsNotRoot, FsDiskAssumption
  <2> QED
    BY <1>1, <1>2, <2>1, Shapes DEF DriveInv, TypeOK, StepsReady, RootKept
<1> QED
  BY <1>3, <1>4, <1>5, <1>6, <1>7, SavingKeeps

(* The children of a removed directory give their sectors back; nobody
   else had them. *)
LEMMA DeleteDirKeeps ==
  ASSUME DriveInv, NEW name \in DirNames, DeleteDir(name)
  PROVE  DriveInv'
<1> DEFINE Kids(i) == {j \in Slots \ {Root} : table[j].type # "free" /\ table[j].parent = i}
<1>1. PICK i \in Found(name, NoName, cwd) :
        /\ table[i].type = "dir" /\ i # Root
        /\ Begin([NoOp EXCEPT !.kind = "deldir", !.idx = i])
        /\ bitmap' = bitmap \ UNION {Owned(table[j]) : j \in Kids(i)}
        /\ table' = [j \in Slots |-> IF j \in Kids(i) \cup {i}
                                       THEN Freed(table[j]) ELSE table[j]]
        /\ cwd' = IF cwd = i THEN Root ELSE cwd
  BY DEF DeleteDir
<1>2. i \in Slots
  BY FoundIsLive
<1>3. op' \in OpType
  BY <1>1, <1>2, ShapesTyped DEF Begin, NoOp, OpType, Operations
<1>4. \A j \in Slots : table[j] \in Entry
  BY DEF DriveInv, TypeOK
<1>5. \A j \in Slots :
        /\ table'[j] \in Entry
        /\ Owned(table'[j]) = IF j \in Kids(i) \cup {i} THEN {} ELSE Owned(table[j])
  BY <1>1, <1>4, FreedOwnsNothing
<1> HIDE DEF Kids
<1>6. table' \in [Slots -> Entry]
  BY <1>1, <1>5
<1>7. NoSharedSectors(table')
  BY <1>5 DEF DriveInv, SectorsSafe, NoSharedSectors
<1>8. \A j \in Slots : Owned(table'[j]) \subseteq bitmap'
  <2> SUFFICES ASSUME NEW j \in Slots, j \notin Kids(i) PROVE Owned(table'[j]) \subseteq bitmap'
    BY <1>5
  <2>1. Kids(i) \subseteq Slots
    BY DEF Kids
  <2>2. \A k \in Kids(i) : Owned(table[j]) \cap Owned(table[k]) = {}
    BY <2>1 DEF DriveInv, SectorsSafe, NoSharedSectors
  <2>3. Owned(table'[j]) \subseteq Owned(table[j])
    BY <1>5
  <2> QED
    BY <1>1, <2>2, <2>3 DEF DriveInv, SectorsSafe
<1>9. /\ pc = "idle" /\ UNCHANGED disk /\ iofail' \in BOOLEAN
      /\ bitmap' \in SUBSET Sectors /\ cwd' \in Slots
      /\ ret' \in {"none", "ok", "error"} /\ pc' = "save" /\ todo' = SaveAll
  BY <1>1, Shapes DEF DeleteDir, Begin, Save, DriveInv, TypeOK
<1>10. RootKept(table')
  BY <1>1, Shapes DEF Kids, DriveInv, StepsReady, RootKept
<1> QED
  BY <1>3, <1>6, <1>7, <1>8, <1>9, <1>10, SavingKeeps

(* Formatting frees every sector: the root, which stays, has none. *)
LEMMA FormatKeeps ==
  ASSUME DriveInv, Format
  PROVE  DriveInv'
<1>1. op' \in OpType
  BY ShapesTyped DEF Format, Begin, NoOp, OpType, Operations
<1>2. \A j \in Slots : table[j] \in Entry
  BY DEF DriveInv, TypeOK
<1>3. table' \in [Slots -> Entry] /\ RootKept(table')
  BY <1>2, FreedOwnsNothing, Shapes DEF Format, DriveInv, StepsReady, RootKept
<1>4. \A j \in Slots : Owned(table'[j]) = {}
  <2>1. Owned(table[Root]) = {}
    BY <1>2, Shapes, EmptyOwnsNothing DEF DriveInv, StepsReady, RootKept
  <2>2. \A j \in Slots : table'[j] = IF j = Root THEN table[j] ELSE Freed(table[j])
    BY DEF Format
  <2> QED
    BY <1>2, <2>1, <2>2, FreedOwnsNothing
<1>5. NoSharedSectors(table') /\ \A j \in Slots : Owned(table'[j]) \subseteq bitmap'
  BY <1>4 DEF NoSharedSectors
<1>6. /\ pc = "idle" /\ UNCHANGED disk /\ iofail' \in BOOLEAN
      /\ bitmap' \in SUBSET Sectors /\ cwd' \in Slots
      /\ ret' \in {"none", "ok", "error"} /\ pc' = "save" /\ todo' = SaveAll
  BY Shapes DEF Format, Begin, Save
<1> QED
  BY <1>1, <1>3, <1>5, <1>6, SavingKeeps

-------------------------------------------------------------------------------
(* fsd_write_in up to its first sector: the sectors it takes were free
   once the entry had lost its own. *)
LEMMA WriteEntryKeeps ==
  ASSUME DriveInv, NEW i \in Slots, i # Root,
         NEW tab \in [Slots -> Entry], tab[i].num = 0, NoSharedSectors(tab),
         RootKept(tab),
         NEW bits \in SUBSET Sectors, \A j \in Slots : Owned(tab[j]) \subseteq bits,
         NEW dir \in Slots, NEW key \in FileKeys, NEW c \in Contents,
         NEW fresh \in BOOLEAN, WriteEntry(i, tab, bits, dir, key, c, fresh)
  PROVE  DriveInv'
<1> DEFINE o == [NoOp EXCEPT !.kind = "write", !.idx = i, !.key = key, !.dir = dir,
                             !.c = c, !.fresh = fresh]
<1>1. /\ table' = tab /\ cwd' = cwd /\ cwd \in Slots
      /\ \/ c[2] = 0 /\ Begin(o) /\ Save(SaveAll) /\ bitmap' = bits
         \/ /\ c[2] > 0
            /\ \E s \in FirstFits(bits, DataSectors, c[2]) :
                 /\ Begin([o EXCEPT !.start = s])
                 /\ bitmap' = bits \cup Extent(s, c[2])
            /\ pc' = "data" /\ ret' = "none" /\ UNCHANGED todo
         \/ Begin(o) /\ Fail /\ bitmap' = bits
  BY DEF WriteEntry, DriveInv, TypeOK
<1>2. o \in OpType /\ o.c = c /\ o.k = 0 /\ o.idx = i
  <2>1. key \in Names \X Exts
    <3>1. key[1] \in Names /\ key[2] \in Exts
      BY DEF Names, Exts
    <3> QED
      BY <3>1, FsDiskAssumption
  <2> QED
    BY <2>1, Shapes DEF NoOp, OpType, Operations
<1>3. \A s \in Sectors : [o EXCEPT !.start = s] \in OpType
  BY <1>2 DEF OpType
<1> HIDE DEF o
<1>4. CASE c[2] = 0 /\ Begin(o) /\ Save(SaveAll) /\ bitmap' = bits
  BY <1>1, <1>2, <1>4, SavingKeeps DEF Begin, Save
<1>5. CASE Begin(o) /\ Fail /\ bitmap' = bits
  BY <1>1, <1>2, <1>5, SavingKeeps DEF Begin, Fail
<1>6. ASSUME c[2] > 0, NEW s \in FirstFits(bits, DataSectors, c[2]),
             Begin([o EXCEPT !.start = s]), bitmap' = bits \cup Extent(s, c[2]),
             pc' = "data", ret' = "none", UNCHANGED todo
      PROVE  DriveInv'
  <2>1. c[2] \in Nat
    BY FsDiskAssumption
  <2>2. /\ s \in Sectors /\ Extent(s, c[2]) \subseteq Sectors
        /\ Extent(s, c[2]) \cap bits = {}
    BY <1>6, <2>1, AllocIsFree
  <2>3. op' = [o EXCEPT !.start = s] /\ op' \in OpType /\ iofail' = FALSE /\ UNCHANGED disk
    BY <1>3, <1>6, <2>2 DEF Begin
  <2>4. op'.start = s /\ op'.c = c /\ op'.k = 0 /\ op'.idx = i
    BY <1>2, <2>3 DEF OpType
  <2>5. Pending' = Extent(s, c[2])
    BY <1>6, <2>4 DEF Pending
  <2>6. TypeOK'
    BY <1>1, <1>6, <2>2, <2>3 DEF DriveInv, TypeOK, disk
  <2>7. SectorsSafe'
    BY <1>1, <1>6, <2>2, <2>5 DEF SectorsSafe, NoSharedSectors
  <2>8. StepsReady'
    BY <1>1, <1>6, <2>1, <2>2, <2>4, <2>5 DEF StepsReady, RootKept
  <2> QED
    BY <2>6, <2>7, <2>8 DEF DriveInv
<1> QED
  BY <1>1, <1>4, <1>5, <1>6

(* The entry overwritten loses its sectors before new ones are sought. *)
LEMMA OverwriteKeeps ==
  ASSUME DriveInv, NEW dir \in Slots, NEW key \in FileKeys, NEW c \in Contents,
         Overwrite(dir, key, c)
  PROVE  DriveInv'
<1>1. PICK i \in Found(key[1], key[2], dir) :
        WriteEntry(i, [table EXCEPT ![i].num = 0, ![i].start = 0],
                   bitmap \ Extent(table[i].start, table[i].num), dir, key, c, FALSE)
  BY DEF Overwrite
<1>2. i \in Slots /\ i # Root /\ table[i].type # "free" /\ table[i] \in Entry
  BY FoundIsLive, FoundIsNotRoot, FsDiskAssumption DEF DriveInv, TypeOK
<1> DEFINE e    == [table[i] EXCEPT !.num = 0, !.start = 0]
           tab  == [table EXCEPT ![i] = e]
           bits == bitmap \ Owned(table[i])
<1>3. e \in Entry /\ e.num = 0
  <2>1. 0 \in 0 .. DataSectors
    BY FsDiskAssumption
  <2> QED
    BY <1>2, <2>1, Shapes DEF Entry
<1>4. Owned(e) = {}
  BY <1>3, EmptyOwnsNothing
<1>5. [table EXCEPT ![i].num = 0, ![i].start = 0] = tab
  BY <1>2 DEF DriveInv, TypeOK, Entry
<1>6. bits = bitmap \ Extent(table[i].start, table[i].num)
  BY <1>2 DEF Owned
<1> HIDE DEF e
<1>7. /\ tab \in [Slots -> Entry] /\ tab[i] = e /\ NoSharedSectors(tab)
      /\ \A j \in Slots : Owned(tab[j]) \subseteq Owned(table[j])
      /\ \A j \in Slots : Owned(tab[j]) \cap Owned(table[i]) = {}
  BY <1>2, <1>3, <1>4, EmptyOneEntry DEF DriveInv
<1>8. bits \in SUBSET Sectors /\ \A j \in Slots : Owned(tab[j]) \subseteq bits
  BY <1>7 DEF DriveInv, TypeOK, SectorsSafe
<1>9. RootKept(tab)
  BY <1>2, Shapes DEF DriveInv, TypeOK, StepsReady, RootKept
<1>10. WriteEntry(i, tab, bits, dir, key, c, FALSE)
  BY <1>1, <1>5, <1>6
<1> HIDE DEF tab, bits
<1> QED
  BY <1>2, <1>3, <1>7, <1>8, <1>9, <1>10, WriteEntryKeeps

(* A new file starts without sectors. *)
LEMMA CreateKeeps ==
  ASSUME DriveInv, NEW dir \in Slots, NEW key \in FileKeys, NEW c \in Contents,
         Create(dir, key, c)
  PROVE  DriveInv'
<1> DEFINE e == [Unused EXCEPT !.type = "file", !.parent = dir,
                               !.name = key[1], !.ext = key[2]]
           tab(i) == [table EXCEPT ![i] = e]
<1>1. PICK i \in FreeSlot : WriteEntry(i, tab(i), bitmap, dir, key, c, TRUE)
  BY DEF Create
<1>2. i \in Slots /\ i # Root
  BY FreeSlotIsFree
<1>3. e \in Entry /\ e.num = 0
  <2>1. key[1] \in Names /\ key[2] \in Exts
    BY DEF Names, Exts
  <2>2. Unused \in Entry /\ Unused.num = 0
    BY ShapesTyped DEF Unused
  <2> QED
    BY <2>1, <2>2 DEF Entry
<1>4. Owned(e) = {}
  BY <1>3, EmptyOwnsNothing
<1> HIDE DEF e
<1>5. /\ tab(i) \in [Slots -> Entry] /\ tab(i)[i] = e /\ NoSharedSectors(tab(i))
      /\ \A j \in Slots : Owned(tab(i)[j]) \subseteq Owned(table[j])
  BY <1>2, <1>3, <1>4, EmptyOneEntry DEF DriveInv
<1>6. bitmap \in SUBSET Sectors /\ \A j \in Slots : Owned(tab(i)[j]) \subseteq bitmap
  BY <1>5 DEF DriveInv, TypeOK, SectorsSafe
<1>7. RootKept(tab(i))
  BY <1>2, Shapes DEF DriveInv, TypeOK, StepsReady, RootKept
<1> HIDE DEF tab
<1> QED
  BY <1>1, <1>2, <1>3, <1>5, <1>6, <1>7, WriteEntryKeeps

-------------------------------------------------------------------------------
(* A data sector is written; after the last one the entry takes over the
   sectors of the write. *)
LEMMA WriteDataKeeps ==
  ASSUME DriveInv, WriteData
  PROVE  DriveInv'
<1>1. /\ pc = "data" /\ op \in OpType /\ op.c \in Contents /\ op.k \in Nat
      /\ op.k < op.c[2] /\ op.c[2] \in Nat /\ op.start \in Sectors
      /\ op.idx \in Slots /\ op.idx # Root /\ table[op.idx] \in Entry
      /\ table[op.idx].num = 0
      /\ Pending = Extent(op.start, op.c[2]) /\ Pending \subseteq Sectors
  BY FsDiskAssumption DEF WriteData, DriveInv, TypeOK, StepsReady, OpType, Pending
<1>2. ddata' \in [Sectors -> (Contents \X Nat) \cup {Blank}]
  BY <1>1 DEF WriteData, DriveInv, TypeOK
<1>3. UNCHANGED <<bitmap, cwd, dsuper, dtable, ret, iofail>>
  BY DEF WriteData
<1>4. ASSUME op.k + 1 # op.c[2] PROVE DriveInv'
  <2>1. op' = [op EXCEPT !.k = @ + 1] /\ UNCHANGED <<table, pc, todo>>
    BY <1>4 DEF WriteData
  <2>2. op' \in OpType /\ op'.c = op.c /\ op'.start = op.start
        /\ op'.idx = op.idx /\ op'.k = op.k + 1
    BY <1>1, <2>1 DEF OpType
  <2>3. Pending' = Pending
    BY <2>1, <2>2 DEF Pending
  <2>4. TypeOK'
    BY <1>2, <1>3, <2>1, <2>2 DEF DriveInv, TypeOK
  <2>5. SectorsSafe'
    BY <1>3, <2>1, <2>3 DEF DriveInv, SectorsSafe, NoSharedSectors
  <2>6. op'.k < op'.c[2]
    BY <1>1, <1>4, <2>2
  <2>7. StepsReady'
    BY <1>1, <1>3, <2>1, <2>2, <2>3, <2>6 DEF DriveInv, StepsReady, RootKept
  <2> QED
    BY <2>4, <2>5, <2>7 DEF DriveInv
<1>5. ASSUME op.k + 1 = op.c[2] PROVE DriveInv'
  <2> DEFINE e == [table[op.idx] EXCEPT !.num = op.c[2], !.start = op.start]
  <2>1. /\ table' = [table EXCEPT ![op.idx].num = op.c[2], ![op.idx].start = op.start]
        /\ op' = [op EXCEPT !.start = 0, !.k = 0] /\ pc' = "save" /\ todo' = SaveAll
    BY <1>5 DEF WriteData
  <2>2. table' = [table EXCEPT ![op.idx] = e]
    BY <1>1, <2>1 DEF DriveInv, TypeOK, Entry
  <2>3. op' \in OpType
    BY <2>1, <1>1, Shapes DEF OpType
  <2>4. e \in Entry /\ Owned(e) \subseteq Pending
    <3>1. op.c[2] \in 0 .. DataSectors
      <4>1. op.start + (op.c[2] - 1) \in Extent(op.start, op.c[2])
        BY <1>1 DEF Extent, Sectors
      <4> QED
        BY <1>1, <4>1, FsDiskAssumption DEF Sectors
    <3> QED
      BY <1>1, <3>1 DEF Entry, Owned
  <2> HIDE DEF e
  <2>5. Pending' = {}
    BY <2>1 DEF Pending
  <2>6. TypeOK'
    BY <1>1, <1>2, <1>3, <2>1, <2>2, <2>3, <2>4, ShapesTyped DEF DriveInv, TypeOK
  <2>7. \A j \in Slots : /\ j # op.idx => table'[j] = table[j]
                         /\ table'[op.idx] = e
    BY <1>1, <2>2 DEF DriveInv, TypeOK
  <2>8. NoSharedSectors(table')
    BY <1>1, <2>4, <2>7 DEF DriveInv, SectorsSafe, NoSharedSectors
  <2>9. \A j \in Slots : Owned(table'[j]) \subseteq bitmap
    BY <1>1, <2>4, <2>7 DEF DriveInv, SectorsSafe
  <2>10. SectorsSafe'
    BY <1>3, <2>5, <2>8, <2>9 DEF SectorsSafe, NoSharedSectors
  <2>11. StepsReady'
    BY <1>1, <2>1, <2>7, Shapes, ShapesTyped DEF DriveInv, StepsReady, RootKept
  <2> QED
    BY <2>6, <2>10, <2>11 DEF DriveInv
<1> QED
  BY <1>4, <1>5

(* A failed sector write gives the sectors of the write back. *)
LEMMA WriteDataFailsKeeps ==
  ASSUME DriveInv, WriteDataFails
  PROVE  DriveInv'
<1>1. /\ bitmap' = bitmap \ Pending /\ pc' = "idle" /\ ret' = "error"
      /\ iofail' = TRUE /\ op' = NoOp /\ UNCHANGED <<table, cwd, disk, todo>>
  BY DEF WriteDataFails, Pending
<1>2. TypeOK'
  BY <1>1, ShapesTyped DEF DriveInv, TypeOK, disk
<1>3. SectorsSafe'
  BY <1>1 DEF DriveInv, SectorsSafe, NoSharedSectors, Pending
<1>4. StepsReady'
  BY <1>1 DEF DriveInv, StepsReady, RootKept
<1> QED
  BY <1>2, <1>3, <1>4 DEF DriveInv

(* A sector of the superblock or of the table, written or not. *)
LEMMA SaveSectorKeeps ==
  ASSUME DriveInv, NEW ok \in BOOLEAN, SaveSector(ok)
  PROVE  DriveInv'
<1>1. /\ pc = "save" /\ todo # <<>> /\ todo \in Seq({Super} \cup TableSecs)
      /\ todo' = Tail(todo) /\ UNCHANGED <<table, bitmap, cwd, ddata, op>>
  BY DEF SaveSector, DriveInv, StepsReady, TypeOK, mem
<1>2. todo' \in Seq({Super} \cup TableSecs)
  BY <1>1
<1>3. dsuper' \in [magic: BOOLEAN, bits: SUBSET Sectors] /\ iofail' \in BOOLEAN
  <2>1. dsuper' = dsuper \/ dsuper' = [magic |-> TRUE, bits |-> bitmap]
    BY DEF SaveSector
  <2>2. iofail' \in BOOLEAN
    BY DEF SaveSector
  <2>3. bitmap \in SUBSET Sectors
    BY DEF DriveInv, TypeOK
  <2>4. [magic |-> TRUE, bits |-> bitmap] \in [magic: BOOLEAN, bits: SUBSET Sectors]
    BY <2>3
  <2> QED
    BY <2>1, <2>2, <2>4 DEF DriveInv, TypeOK
<1>4. dtable' \in [Slots -> Entry]
  BY DEF SaveSector, DriveInv, TypeOK
<1>5. \/ pc' = "idle" /\ ret' = "ok"
      \/ todo' # <<>> /\ UNCHANGED <<pc, ret>>
  BY <1>1 DEF SaveSector
<1>6. TypeOK'
  BY <1>1, <1>2, <1>3, <1>4, <1>5 DEF DriveInv, TypeOK
<1>7. SectorsSafe'
  BY <1>1, <1>5 DEF DriveInv, SectorsSafe, NoSharedSectors, Pending
<1>8. StepsReady'
  BY <1>1, <1>5 DEF DriveInv, StepsReady, RootKept
<1> QED
  BY <1>6, <1>7, <1>8 DEF DriveInv

-------------------------------------------------------------------------------
(* Every step keeps the invariant. *)
LEMMA StepKeeps ==
  ASSUME DriveInv, [Next]_vars
  PROVE  DriveInv'
<1>1. CASE UNCHANGED vars
  BY <1>1 DEF vars, DriveInv, TypeOK, SectorsSafe, NoSharedSectors, Pending,
              StepsReady, RootKept
<1>2. ASSUME NEW name \in DirNames, Cd(name) PROVE DriveInv'
  BY <1>2, CwdKeeps, FoundIsLive DEF Cd
<1>3. ASSUME CdUp PROVE DriveInv'
  <2>1. cwd' \in Slots
    BY <1>3 DEF CdUp, DriveInv, TypeOK, Entry
  <2> QED
    BY <1>3, <2>1, CwdKeeps DEF CdUp
<1>4. ASSUME NEW key \in FileKeys, NEW c \in Contents, NEW dir \in LiveDirs \cup {cwd},
             Overwrite(dir, key, c) \/ Create(dir, key, c)
      PROVE  DriveInv'
  <2>1. dir \in Slots
    BY DEF LiveDirs, DriveInv, TypeOK
  <2> QED
    BY <1>4, <2>1, OverwriteKeeps, CreateKeeps
<1>5. ASSUME Operation PROVE DriveInv'
  BY <1>2, <1>3, <1>4, <1>5, MkdirKeeps, DeleteDirKeeps, DeleteFileKeeps,
     RenameKeeps, FormatKeeps DEF Operation
<1>6. ASSUME DiskWorks \/ WriteErrors PROVE DriveInv'
  <2>1. ~LoadTable(TRUE)
    BY DEF LoadTable, DriveInv, StepsReady
  <2> QED
    BY <1>6, <2>1, LoadSuperKeeps, WriteDataKeeps, WriteDataFailsKeeps, SaveSectorKeeps
    DEF DiskWorks, WriteErrors
<1> QED
  BY <1>1, <1>5, <1>6 DEF Next

(* While the machine stays on the invariant of drive A: holds, however
   many sector writes fail. *)
THEOREM DriveInvariant == Spec => []DriveInv
<1>1. Init => DriveInv
  BY InitDriveInv
<1>2. DriveInv /\ [Next]_vars => DriveInv'
  BY StepKeeps
<1> QED
  BY <1>1, <1>2, PTL DEF Spec

(* Two files of drive A: never share a sector, and no sector in use is
   free to be handed out again. *)
THEOREM SectorsStaySafe == Spec => []SectorsSafe
<1>1. DriveInv => SectorsSafe
  BY DEF DriveInv
<1> QED
  BY <1>1, DriveInvariant, PTL

-------------------------------------------------------------------------------
(* What a step that leaves the disk alone, a data sector and a metadata
   sector each do to an entry memory and disk agree on. *)
LEMMA StepSparesBystanders ==
  ASSUME DriveInv, Next, NEW i \in Slots, table[i].type # "free", table[i] = dtable[i]
  PROVE  OnDisk(i)' = OnDisk(i)
<1>1. ASSUME UNCHANGED <<dtable, ddata>> PROVE OnDisk(i)' = OnDisk(i)
  BY <1>1 DEF OnDisk
<1>2. ASSUME WriteData PROVE OnDisk(i)' = OnDisk(i)
  <2>1. /\ op.start + op.k \in Pending /\ Owned(table[i]) \cap Pending = {}
        /\ dtable' = dtable /\ ddata' = [ddata EXCEPT ![op.start + op.k] = <<op.c, op.k>>]
    <3>1. op.start + op.k \in Pending
      BY <1>2, FsDiskAssumption
      DEF WriteData, DriveInv, TypeOK, StepsReady, OpType, Pending, Extent, Sectors
    <3> QED
      BY <1>2, <3>1 DEF WriteData, DriveInv, SectorsSafe
  <2>2. ASSUME NEW k \in 0 .. (dtable[i].num - 1)
        PROVE  ddata'[dtable[i].start + k] = ddata[dtable[i].start + k]
    <3>1. dtable[i].start + k \in Owned(table[i])
      BY <2>2 DEF DriveInv, TypeOK, Entry, Owned, Extent, Sectors
    <3>2. dtable[i].start + k \in Sectors
      BY <3>1 DEF DriveInv, TypeOK, SectorsSafe
    <3> QED
      BY <2>1, <3>1, <3>2 DEF DriveInv, TypeOK
  <2> QED
    BY <2>1, <2>2 DEF OnDisk
<1>3. ASSUME NEW ok \in BOOLEAN, SaveSector(ok) PROVE OnDisk(i)' = OnDisk(i)
  <2>1. dtable'[i] = dtable[i] /\ ddata' = ddata
    BY <1>3 DEF SaveSector
  <2> QED
    BY <2>1 DEF OnDisk
<1>4. ASSUME Operation PROVE UNCHANGED <<dtable, ddata>>
  <2>1. \A name \in DirNames : Cd(name) \/ Mkdir(name) \/ DeleteDir(name)
          => UNCHANGED <<dtable, ddata>>
    BY DEF Cd, Mkdir, DeleteDir, Begin, disk
  <2>2. \A key \in FileKeys, c \in Contents, dir \in LiveDirs \cup {cwd} :
          Overwrite(dir, key, c) \/ Create(dir, key, c) => UNCHANGED <<dtable, ddata>>
    <3>1. ASSUME NEW j, NEW tab, NEW bits, NEW dir, NEW key, NEW c, NEW fresh,
                 WriteEntry(j, tab, bits, dir, key, c, fresh)
          PROVE  UNCHANGED <<dtable, ddata>>
      BY <3>1 DEF WriteEntry, Begin, disk
    <3> QED
      BY <3>1 DEF Overwrite, Create
  <2>3. \A key, new \in FileKeys : DeleteFile(key) \/ Rename(key, new)
          => UNCHANGED <<dtable, ddata>>
    BY DEF DeleteFile, Rename, Begin, disk
  <2>4. Format \/ CdUp => UNCHANGED <<dtable, ddata>>
    BY DEF Format, CdUp, Begin, disk
  <2> QED
    BY <1>4, <2>1, <2>2, <2>3, <2>4 DEF Operation
<1>5. ~LoadTable(TRUE)
  BY DEF LoadTable, DriveInv, StepsReady
<1> QED
  BY <1>1, <1>2, <1>3, <1>4, <1>5
  DEF Next, DiskWorks, WriteErrors, LoadSuper, WriteDataFails, disk

(* No operation, whether it succeeds or fails half way, damages on the
   disk an entry that was safely there. *)
THEOREM BystandersStayIntact == Spec => BystandersIntact
<1> DEFINE Spared == \A i \in Slots : table[i].type # "free" /\ table[i] = dtable[i]
                                        => OnDisk(i)' = OnDisk(i)
<1>1. DriveInv /\ [Next]_vars => [Spared]_vars
  BY StepSparesBystanders
<1> QED
  BY <1>1, DriveInvariant, PTL DEF Spec, BystandersIntact
-------------------------------------------------------------------------------
(* No directory shares its name with a file. *)
NamesApart == \A name \in DirNames : \A key \in FileKeys : key[1] # name

FileNames == {key[1] : key \in FileKeys}

(* Directories have no sectors, and no name a file could be given. *)
DirsOwnNothing ==
  /\ \A i \in Slots : table[i].type = "dir" =>
       table[i].num = 0 /\ table[i].name \notin FileNames
  /\ pc = "data" => table[op.idx].type = "file"

NothingLost ==
  \A s \in bitmap : s \in Pending \/ \E j \in Slots : s \in Owned(table[j])

(* The entry i is the first one of that key in dir. *)
Named(e, key, dir) ==
  /\ e.type # "free" /\ e.parent = dir /\ e.name = key[1]
  /\ e.type = "file" => e.ext = key[2]
FirstNamed(tab, i, key, dir) ==
  /\ i \in Slots /\ Named(tab[i], key, dir)
  /\ \A j \in Slots : Named(tab[j], key, dir) => i <= j

(* A write between its choice of the entry and its return: the entry is
   the one its name finds; the sectors written so far hold the contents. *)
WriteOnCourse ==
  /\ pc = "loadsuper" => op.kind = "none"
  /\ pc = "data" => op.kind = "write"
  /\ op.kind = "write" /\ (pc \in {"data", "save"} \/ ret = "ok") =>
       /\ FirstNamed(table, op.idx, op.key, op.dir)
       /\ table[op.idx].type = "file"
       /\ IF pc = "data"
            THEN \A k \in 0 .. (op.k - 1) : ddata[op.start + k] = <<op.c, k>>
            ELSE Holds(table[op.idx], ddata, op.c)

(* While sectors are saved and none has failed, what is not yet as in
   memory is still to be saved. *)
ToBeSaved(sec) == \E n \in 1 .. Len(todo) : todo[n] = sec
SavesOnCourse ==
  pc = "save" /\ ~iofail =>
    /\ \A i \in Slots : dtable[i] = table[i] \/ ToBeSaved(SectorOf(i))
    /\ op.kind \notin {"mkdir", "rename"} => dsuper.bits = bitmap \/ ToBeSaved(Super)

WriteInv == DirsOwnNothing /\ NothingLost /\ WriteOnCourse
SaveInv == SavesOnCourse /\ SuccessIsDurable

-------------------------------------------------------------------------------
(* A non-empty set of naturals has a least element. *)
LEMMA LeastNat ==
  ASSUME NEW T, T \subseteq Nat, T # {}
  PROVE  \E x \in T : \A y \in T : x <= y
<1> DEFINE R == {ss \in Nat \X Nat : ss[1] < ss[2]}
<1>1. IsWellFoundedOn(R, Nat)
  BY NatLessThanWellFounded, Zenon DEF OpToRel
<1>2. \A x, y \in Nat : <<y, x>> \in R <=> y < x
  OBVIOUS
<1> HIDE DEF R
<1>3. \E x \in T : \A y \in T : ~ (<<y, x>> \in R)
  BY <1>1, WFMin
<1>4. PICK x \in T : \A y \in T : ~ (<<y, x>> \in R)
  BY <1>3
<1>5. \A y \in T : ~ (y < x)
  BY <1>2, <1>4
<1> QED
  BY <1>4, <1>5

(* find_entry fails only when nothing matches. *)
LEMMA NotFoundMatchesNothing ==
  ASSUME NEW name, NEW ext, NEW dir, Found(name, ext, dir) = {}
  PROVE  Matches(name, ext, dir) = {}
<1>1. Matches(name, ext, dir) \subseteq Nat
  BY FsDiskAssumption DEF Matches, Slots
<1> QED
  BY <1>1, LeastNat DEF Found

LEMMA FoundIsFirstNamed ==
  ASSUME NEW key, NEW dir, NEW i
  PROVE  i \in Found(key[1], key[2], dir) <=> FirstNamed(table, i, key, dir)
  BY DEF Found, Matches, FirstNamed, Named

(* Every entry has its sector in the table, and both lists save it. *)
LEMMA SectorsListed ==
  /\ \A i \in Slots : SectorOf(i) \in TableSecs
  /\ \A sec \in TableSecs : /\ \E n \in 1 .. Len(SaveTable) : SaveTable[n] = sec
                            /\ \E n \in 1 .. Len(SaveAll) : SaveAll[n] = sec
  /\ \E n \in 1 .. Len(SaveAll) : SaveAll[n] = Super
<1>1. ASSUME NEW i \in Slots PROVE SectorOf(i) \in TableSecs
  <2>1. i \in Nat /\ MaxEnt - 1 \in Nat /\ i <= MaxEnt - 1
    BY FsDiskAssumption DEF Slots
  <2>2. i \div PerSector \in Nat /\ i \div PerSector <= (MaxEnt - 1) \div PerSector
    BY <2>1, FsDiskAssumption, Z3
  <2>3. (MaxEnt - 1) \div PerSector \in Nat
    BY <2>1, FsDiskAssumption, Z3
  <2> QED
    BY <2>2, <2>3 DEF TableSecs, SectorOf, NumTableSecs
<1>2. SaveTable \in Seq(TableSecs) /\ Len(SaveTable) = NumTableSecs
      /\ \A n \in TableSecs : SaveTable[n] = n
  BY Shapes DEF SaveTable, TableSecs
<1>3. Len(SaveAll) = 1 + NumTableSecs /\ SaveAll[1] = Super
      /\ \A n \in TableSecs : SaveAll[1 + n] = n
  BY <1>2, Shapes DEF SaveAll, TableSecs
<1>4. ASSUME NEW sec \in TableSecs
      PROVE  /\ \E n \in 1 .. Len(SaveTable) : SaveTable[n] = sec
             /\ \E n \in 1 .. Len(SaveAll) : SaveAll[n] = sec
  <2>1. sec \in 1 .. Len(SaveTable) /\ 1 + sec \in 1 .. Len(SaveAll)
    BY <1>2, <1>3, Shapes DEF TableSecs
  <2> QED
    BY <1>2, <1>3, <2>1
<1>5. 1 \in 1 .. Len(SaveAll)
  BY <1>3, Shapes
<1> QED
  BY <1>1, <1>3, <1>4, <1>5
-------------------------------------------------------------------------------
(* What fsd_write_in leaves behind when it starts to write, starts to save
   or gives up. *)
LEMMA WriteEntrySteps ==
  ASSUME NEW i \in Slots, NEW tab, NEW bits, NEW dir \in Slots,
         NEW key \in FileKeys, NEW c \in Contents, NEW fresh,
         WriteEntry(i, tab, bits, dir, key, c, fresh)
  PROVE  /\ pc = "idle" /\ table' = tab /\ iofail' = FALSE /\ UNCHANGED <<cwd, disk>>
         /\ op'.kind = "write" /\ op'.idx = i /\ op'.key = key /\ op'.dir = dir
         /\ op'.c = c /\ op'.k = 0
         /\ \/ c[2] = 0 /\ pc' = "save" /\ todo' = SaveAll /\ ret' = "none" /\ bitmap' = bits
            \/ c[2] > 0 /\ pc' = "data" /\ ret' = "none"
               /\ bitmap' = bits \cup Extent(op'.start, c[2])
            \/ pc' = "idle" /\ ret' = "error" /\ bitmap' = bits
<1> DEFINE o == [NoOp EXCEPT !.kind = "write", !.idx = i, !.key = key, !.dir = dir,
                             !.c = c, !.fresh = fresh]
           Asked(p) == /\ p.kind = "write" /\ p.idx = i /\ p.key = key /\ p.dir = dir
                       /\ p.c = c /\ p.k = 0
<1>1. Asked(o) /\ \A s : LET p == [o EXCEPT !.start = s] IN Asked(p) /\ p.start = s
  BY DEF NoOp
<1>2. /\ table' = tab /\ cwd' = cwd
      /\ \/ c[2] = 0 /\ Begin(o) /\ Save(SaveAll) /\ bitmap' = bits
         \/ /\ c[2] > 0
            /\ \E s \in FirstFits(bits, DataSectors, c[2]) :
                 /\ Begin([o EXCEPT !.start = s])
                 /\ bitmap' = bits \cup Extent(s, c[2])
            /\ pc' = "data" /\ ret' = "none"
         \/ pc = "idle" /\ Begin(o) /\ Fail /\ bitmap' = bits
  BY DEF WriteEntry, Begin
<1> HIDE DEF o
<1>3. CASE c[2] = 0 /\ Begin(o) /\ Save(SaveAll) /\ bitmap' = bits
  BY <1>1, <1>2, <1>3 DEF Begin, Save
<1>4. CASE pc = "idle" /\ Begin(o) /\ Fail /\ bitmap' = bits
  BY <1>1, <1>2, <1>4 DEF Begin, Fail
<1>5. ASSUME c[2] > 0, NEW s, Begin([o EXCEPT !.start = s]),
             bitmap' = bits \cup Extent(s, c[2]), pc' = "data", ret' = "none"
      PROVE  /\ pc = "idle" /\ iofail' = FALSE /\ UNCHANGED disk
             /\ Asked(op') /\ bitmap' = bits \cup Extent(op'.start, c[2])
  BY <1>1, <1>5 DEF Begin
<1> QED
  BY <1>2, <1>3, <1>4, <1>5

(* A new directory changes no bitmap, owns nothing and takes a free slot. *)
LEMMA MkdirLosesNothing ==
  ASSUME NamesApart, DriveInv, DirsOwnNothing, NothingLost,
         NEW name \in DirNames, Mkdir(name)
  PROVE  DirsOwnNothing' /\ NothingLost'
<1> DEFINE e == [RootDir EXCEPT !.parent = cwd, !.name = name]
<1>1. PICK i \in FreeSlot : table' = [table EXCEPT ![i] = e]
  BY DEF Mkdir
<1>2. i \in Slots /\ table[i].type = "free" /\ pc = "idle" /\ pc' = "save" /\ bitmap' = bitmap
  BY FreeSlotIsFree DEF Mkdir, Begin, Save
<1>3. e.type = "dir" /\ e.num = 0 /\ e.name = name /\ name \notin FileNames
  BY DEF RootDir, Unused, NamesApart, FileNames
<1> HIDE DEF e
<1>4. \A j \in Slots : table'[j] = IF j = i THEN e ELSE table[j]
  BY <1>1, <1>2 DEF DriveInv, TypeOK
<1>5. DirsOwnNothing'
  BY <1>2, <1>3, <1>4 DEF DirsOwnNothing, FileNames
<1>6. \A j \in Slots : Owned(table[j]) # {} => table'[j] = table[j]
  BY <1>2, <1>4 DEF Owned
<1>7. NothingLost'
  BY <1>2, <1>6 DEF NothingLost, Pending
<1> QED
  BY <1>5, <1>7

(* A renamed file keeps its sectors. *)
LEMMA RenameLosesNothing ==
  ASSUME DriveInv, DirsOwnNothing, NothingLost,
         NEW key \in FileKeys, NEW new \in FileKeys, Rename(key, new)
  PROVE  DirsOwnNothing' /\ NothingLost'
<1>1. PICK i \in Found(key[1], key[2], cwd) :
        /\ table[i].type = "file"
        /\ table' = [table EXCEPT ![i].name = new[1], ![i].ext = new[2]]
  BY DEF Rename
<1>2. i \in Slots /\ pc = "idle" /\ pc' = "save" /\ bitmap' = bitmap
  BY FoundIsLive DEF Rename, Begin, Save
<1>3. \A j \in Slots : /\ j # i => table'[j] = table[j]
                       /\ table'[j].type = table[j].type
                       /\ Owned(table'[j]) = Owned(table[j])
  BY <1>1, <1>2 DEF DriveInv, TypeOK, Entry, Owned
<1>4. DirsOwnNothing'
  BY <1>1, <1>2, <1>3 DEF DirsOwnNothing, FileNames
<1>5. NothingLost'
  BY <1>2, <1>3 DEF NothingLost, Pending
<1> QED
  BY <1>4, <1>5

(* What a deleted file owned is free again. *)
LEMMA DeleteFileLosesNothing ==
  ASSUME DriveInv, DirsOwnNothing, NothingLost,
         NEW key \in FileKeys, DeleteFile(key)
  PROVE  DirsOwnNothing' /\ NothingLost'
<1>1. PICK i \in Found(key[1], key[2], cwd) :
        /\ bitmap' = bitmap \ Owned(table[i])
        /\ table' = [table EXCEPT ![i] = Freed(@)]
  BY DEF DeleteFile
<1>2. i \in Slots /\ pc = "idle" /\ pc' = "save"
  BY FoundIsLive DEF DeleteFile, Begin, Save
<1>3. /\ \A j \in Slots : j # i => table'[j] = table[j]
      /\ table'[i].type = "free"
  BY <1>1, <1>2, FreedOwnsNothing DEF DriveInv, TypeOK
<1>4. DirsOwnNothing'
  BY <1>2, <1>3 DEF DirsOwnNothing, FileNames
<1>5. NothingLost'
  BY <1>1, <1>2, <1>3 DEF NothingLost, Pending
<1> QED
  BY <1>4, <1>5

(* What the children of a removed directory owned is free again; the
   directory itself, which no file write could name, owned nothing. *)
LEMMA DeleteDirLosesNothing ==
  ASSUME DriveInv, DirsOwnNothing, NothingLost,
         NEW name \in DirNames, DeleteDir(name)
  PROVE  DirsOwnNothing' /\ NothingLost'
<1> DEFINE Kids(i) == {j \in Slots \ {Root} : table[j].type # "free" /\ table[j].parent = i}
<1>1. PICK i \in Found(name, NoName, cwd) :
        /\ table[i].type = "dir"
        /\ bitmap' = bitmap \ UNION {Owned(table[j]) : j \in Kids(i)}
        /\ table' = [j \in Slots |-> IF j \in Kids(i) \cup {i}
                                       THEN Freed(table[j]) ELSE table[j]]
  BY DEF DeleteDir
<1>2. i \in Slots /\ pc = "idle" /\ pc' = "save"
  BY FoundIsLive DEF DeleteDir, Begin, Save
<1> HIDE DEF Kids
<1>3. \A j \in Slots : IF j \in Kids(i) \cup {i} THEN table'[j].type = "free"
                                                 ELSE table'[j] = table[j]
  BY <1>1, FreedOwnsNothing DEF DriveInv, TypeOK
<1>4. DirsOwnNothing'
  BY <1>2, <1>3 DEF DirsOwnNothing, FileNames
<1>5. Owned(table[i]) = {}
  BY <1>1, <1>2, EmptyOwnsNothing DEF DirsOwnNothing, DriveInv, TypeOK
<1>6. NothingLost'
  <2> SUFFICES ASSUME NEW s \in bitmap' PROVE \E j \in Slots : s \in Owned(table'[j])
    BY DEF NothingLost
  <2>1. PICK j \in Slots : s \in Owned(table[j])
    BY <1>1, <1>2 DEF NothingLost, Pending
  <2>2. j \notin Kids(i) \cup {i}
    BY <1>1, <1>5, <2>1
  <2> QED
    BY <1>3, <2>1, <2>2
<1> QED
  BY <1>4, <1>6

(* Formatting empties the bitmap. *)
LEMMA FormatLosesNothing ==
  ASSUME DriveInv, DirsOwnNothing, Format
  PROVE  DirsOwnNothing' /\ NothingLost'
<1>1. bitmap' = {} /\ pc' = "save"
      /\ \A j \in Slots : table'[j] = IF j = Root THEN table[j] ELSE Freed(table[j])
  BY DEF Format, Save
<1>2. \A j \in Slots : table'[j] = table[j] \/ table'[j].type = "free"
  BY <1>1, FreedOwnsNothing DEF DriveInv, TypeOK
<1> QED
  BY <1>1, <1>2 DEF DirsOwnNothing, NothingLost, FileNames
-------------------------------------------------------------------------------
(* fsd_write_in with the entry that its name finds, emptied. *)
LEMMA WriteEntryOnCourse ==
  ASSUME NEW i \in Slots, NEW tab, NEW bits, NEW dir \in Slots,
         NEW key \in FileKeys, NEW c \in Contents, NEW fresh,
         WriteEntry(i, tab, bits, dir, key, c, fresh),
         \A j \in Slots : tab[j].type = "dir" =>
           tab[j].num = 0 /\ tab[j].name \notin FileNames,
         tab[i].type = "file", tab[i].num = 0, FirstNamed(tab, i, key, dir),
         \A s \in bits : \E j \in Slots : s \in Owned(tab[j])
  PROVE  WriteInv'
<1>1. /\ table' = tab
      /\ op'.kind = "write" /\ op'.idx = i /\ op'.key = key /\ op'.dir = dir
      /\ op'.c = c /\ op'.k = 0
      /\ \/ c[2] = 0 /\ pc' = "save" /\ todo' = SaveAll /\ ret' = "none" /\ bitmap' = bits
         \/ c[2] > 0 /\ pc' = "data" /\ ret' = "none"
            /\ bitmap' = bits \cup Extent(op'.start, c[2])
         \/ pc' = "idle" /\ ret' = "error" /\ bitmap' = bits
  BY WriteEntrySteps, Zenon
<1>2. DirsOwnNothing'
  BY <1>1 DEF DirsOwnNothing, FileNames
<1>3. NothingLost'
  BY <1>1 DEF NothingLost, Pending
<1>4. WriteOnCourse'
  <2>1. CASE pc' = "save" /\ c[2] = 0
    BY <1>1, <2>1 DEF WriteOnCourse, Holds
  <2>2. CASE pc' = "data"
    BY <1>1, <2>2 DEF WriteOnCourse
  <2>3. CASE pc' = "idle" /\ ret' = "error"
    BY <2>3 DEF WriteOnCourse
  <2> QED
    BY <1>1, <2>1, <2>2, <2>3
<1> QED
  BY <1>2, <1>3, <1>4 DEF WriteInv

(* The entry found by a file's name is a file; it gives its sectors back
   and keeps its name. *)
LEMMA OverwriteOnCourse ==
  ASSUME DriveInv, DirsOwnNothing, NothingLost, pc = "idle",
         NEW dir \in Slots, NEW key \in FileKeys, NEW c \in Contents,
         Overwrite(dir, key, c)
  PROVE  WriteInv'
<1> DEFINE tab(i)  == [table EXCEPT ![i].num = 0, ![i].start = 0]
           bits(i) == bitmap \ Extent(table[i].start, table[i].num)
<1>1. PICK i \in Found(key[1], key[2], dir) :
        WriteEntry(i, tab(i), bits(i), dir, key, c, FALSE)
  BY DEF Overwrite
<1>2. i \in Slots /\ table[i].type = "file" /\ table[i] \in Entry
  <2>1. i \in Slots /\ table[i].type # "free" /\ table[i].name = key[1]
    BY DEF Found, Matches
  <2>2. table[i] \in Entry /\ table[i].type # "dir"
    BY <2>1 DEF DriveInv, TypeOK, DirsOwnNothing, FileNames
  <2> QED
    BY <2>1, <2>2 DEF Entry
<1>3. \A j \in Slots : /\ j # i => tab(i)[j] = table[j]
                       /\ tab(i)[j].type = table[j].type /\ tab(i)[j].name = table[j].name
                       /\ tab(i)[j].ext = table[j].ext /\ tab(i)[j].parent = table[j].parent
                       /\ tab(i)[i].num = 0
  BY <1>2 DEF DriveInv, TypeOK, Entry
<1> HIDE DEF tab
<1>5. FirstNamed(tab(i), i, key, dir)
  <2>1. FirstNamed(table, i, key, dir)
    BY FoundIsFirstNamed
  <2> QED
    BY <1>3, <2>1 DEF FirstNamed, Named
<1>6. \A s \in bits(i) : \E j \in Slots : s \in Owned(tab(i)[j])
  <2> SUFFICES ASSUME NEW s \in bits(i) PROVE \E j \in Slots : s \in Owned(tab(i)[j])
    OBVIOUS
  <2>1. PICK j \in Slots : s \in Owned(table[j])
    BY DEF NothingLost, Pending
  <2>2. j # i
    BY <1>2, <2>1 DEF Owned
  <2> QED
    BY <1>3, <2>1, <2>2
<1>7. \A j \in Slots : tab(i)[j].type = "dir" =>
        tab(i)[j].num = 0 /\ tab(i)[j].name \notin FileNames
  BY <1>2, <1>3 DEF DirsOwnNothing
<1> HIDE DEF bits
<1> QED
  BY <1>1, <1>2, <1>3, <1>5, <1>6, <1>7, WriteEntryOnCourse

(* A new file is the only entry its name finds. *)
LEMMA CreateOnCourse ==
  ASSUME DriveInv, DirsOwnNothing, NothingLost, pc = "idle",
         NEW dir \in Slots, NEW key \in FileKeys, NEW c \in Contents,
         Create(dir, key, c)
  PROVE  WriteInv'
<1> DEFINE e == [Unused EXCEPT !.type = "file", !.parent = dir,
                               !.name = key[1], !.ext = key[2]]
           tab(i) == [table EXCEPT ![i] = e]
<1>1. PICK i \in FreeSlot : WriteEntry(i, tab(i), bitmap, dir, key, c, TRUE)
  BY DEF Create
<1>2. i \in Slots /\ table[i].type = "free"
  BY FreeSlotIsFree
<1>3. e.type = "file" /\ e.parent = dir /\ e.name = key[1] /\ e.ext = key[2] /\ e.num = 0
  BY DEF Unused
<1> HIDE DEF e
<1>4. \A j \in Slots : tab(i)[j] = IF j = i THEN e ELSE table[j]
  BY <1>2 DEF DriveInv, TypeOK
<1> HIDE DEF tab
<1>6. FirstNamed(tab(i), i, key, dir)
  <2>1. \A j \in Slots : ~Named(table[j], key, dir)
    BY NotFoundMatchesNothing DEF Create, Matches, Named
  <2>2. i <= i
    BY <1>2 DEF Slots
  <2> QED
    BY <1>2, <1>3, <1>4, <2>1, <2>2 DEF FirstNamed, Named
<1>7. \A s \in bitmap : \E j \in Slots : s \in Owned(tab(i)[j])
  <2> SUFFICES ASSUME NEW s \in bitmap PROVE \E j \in Slots : s \in Owned(tab(i)[j])
    OBVIOUS
  <2>1. PICK j \in Slots : s \in Owned(table[j])
    BY DEF NothingLost, Pending
  <2>2. j # i
    BY <1>2, <2>1 DEF Owned
  <2> QED
    BY <1>4, <2>1, <2>2
<1>8. \A j \in Slots : tab(i)[j].type = "dir" =>
        tab(i)[j].num = 0 /\ tab(i)[j].name \notin FileNames
  BY <1>3, <1>4 DEF DirsOwnNothing
<1>9. tab(i)[i] = e
  BY <1>2, <1>4
<1> QED
  BY <1>1, <1>2, <1>3, <1>6, <1>7, <1>8, <1>9, WriteEntryOnCourse

(* One more sector holds its part of the contents; with the last one the
   entry takes the sectors over and holds them all. *)
LEMMA WriteDataOnCourse ==
  ASSUME DriveInv, WriteInv, WriteData
  PROVE  WriteInv'
<1>1. /\ pc = "data" /\ op \in OpType /\ op.c \in Contents /\ op.k \in Nat
      /\ op.k < op.c[2] /\ op.c[2] \in Nat /\ op.start \in Sectors
      /\ op.idx \in Slots /\ table[op.idx] \in Entry
      /\ Pending = Extent(op.start, op.c[2]) /\ Pending \subseteq Sectors
      /\ op.kind = "write" /\ FirstNamed(table, op.idx, op.key, op.dir)
      /\ table[op.idx].type = "file" /\ table[op.idx].num = 0
      /\ \A k \in 0 .. (op.k - 1) : ddata[op.start + k] = <<op.c, k>>
  BY FsDiskAssumption
  DEF WriteData, DriveInv, TypeOK, StepsReady, OpType, Pending, WriteInv, WriteOnCourse,
      DirsOwnNothing
<1>2. \A k \in 0 .. op.k : ddata'[op.start + k] = <<op.c, k>>
  <2> SUFFICES ASSUME NEW k \in 0 .. op.k PROVE ddata'[op.start + k] = <<op.c, k>>
    OBVIOUS
  <2>1. op.start + k \in Sectors
    BY <1>1 DEF Extent, Sectors
  <2>2. ddata' = [ddata EXCEPT ![op.start + op.k] = <<op.c, op.k>>]
    BY DEF WriteData
  <2>3. CASE k = op.k
    BY <2>1, <2>2, <2>3 DEF DriveInv, TypeOK
  <2>4. CASE k # op.k
    <3>1. k \in 0 .. (op.k - 1) /\ op.start + k # op.start + op.k
      BY <1>1, <2>4 DEF Sectors
    <3> QED
      BY <1>1, <2>1, <2>2, <3>1 DEF DriveInv, TypeOK
  <2> QED
    BY <2>3, <2>4
<1>3. ASSUME op.k + 1 # op.c[2] PROVE WriteInv'
  <2>1. op' = [op EXCEPT !.k = @ + 1] /\ UNCHANGED <<table, pc, bitmap>>
    BY <1>3 DEF WriteData
  <2>2. /\ op'.kind = op.kind /\ op'.c = op.c /\ op'.start = op.start /\ op'.dir = op.dir
        /\ op'.idx = op.idx /\ op'.key = op.key /\ op'.k = op.k + 1
    BY <1>1, <2>1 DEF OpType
  <2>3. DirsOwnNothing' /\ NothingLost'
    BY <2>1, <2>2 DEF WriteInv, DirsOwnNothing, NothingLost, Pending
  <2>5. op'.k - 1 = op.k
    BY <1>1, <2>2
  <2>6. WriteOnCourse'
    BY <1>1, <1>2, <2>1, <2>2, <2>5 DEF WriteOnCourse
  <2> QED
    BY <2>3, <2>6 DEF WriteInv
<1>4. ASSUME op.k + 1 = op.c[2] PROVE WriteInv'
  <2>1. /\ table' = [table EXCEPT ![op.idx].num = op.c[2], ![op.idx].start = op.start]
        /\ op' = [op EXCEPT !.start = 0, !.k = 0] /\ pc' = "save" /\ UNCHANGED bitmap
    BY <1>4 DEF WriteData
  <2>2. /\ op'.kind = op.kind /\ op'.c = op.c /\ op'.dir = op.dir
        /\ op'.idx = op.idx /\ op'.key = op.key
    BY <1>1, <2>1 DEF OpType
  <2>3. \A j \in Slots : /\ j # op.idx => table'[j] = table[j]
                         /\ table'[j].type = table[j].type /\ table'[j].name = table[j].name
                         /\ table'[j].ext = table[j].ext /\ table'[j].parent = table[j].parent
                         /\ table'[op.idx].num = op.c[2] /\ table'[op.idx].start = op.start
    BY <1>1, <2>1 DEF DriveInv, TypeOK, Entry
  <2>4. DirsOwnNothing'
    BY <1>1, <2>1, <2>3 DEF WriteInv, DirsOwnNothing
  <2>5. Owned(table'[op.idx]) = Pending /\ Owned(table[op.idx]) = {}
    BY <1>1, <2>3, EmptyOwnsNothing DEF Owned
  <2>6. NothingLost'
    <3> SUFFICES ASSUME NEW s \in bitmap PROVE \E j \in Slots : s \in Owned(table'[j])
      BY <2>1 DEF NothingLost
    <3> QED
      BY <1>1, <2>3, <2>5 DEF WriteInv, NothingLost
  <2>7. FirstNamed(table', op.idx, op.key, op.dir)
    BY <1>1, <2>3 DEF FirstNamed, Named
  <2>8. Holds(table'[op.idx], ddata', op.c)
    <3>1. op.k = op.c[2] - 1
      BY <1>1, <1>4
    <3>2. op.c[2] - 1 = op.k /\ \A k \in 0 .. op.k : ddata'[table'[op.idx].start + k] = <<op.c, k>>
      BY <1>1, <1>2, <2>3, <3>1
    <3> QED
      BY <1>1, <2>3, <3>2 DEF Holds
  <2>9. WriteOnCourse'
    BY <1>1, <2>1, <2>2, <2>3, <2>7, <2>8 DEF WriteOnCourse
  <2> QED
    BY <2>4, <2>6, <2>9 DEF WriteInv
<1> QED
  BY <1>3, <1>4
-------------------------------------------------------------------------------
(* Steps that leave memory, data sectors and the operation alone. *)
LEMMA OtherStepsOnCourse ==
  ASSUME WriteInv, UNCHANGED <<table, bitmap, ddata, op>>,
         \/ UNCHANGED <<pc, ret>>
         \/ pc = "save" /\ pc' = "idle"
  PROVE  WriteInv'
<1>1. DirsOwnNothing'
  BY DEF WriteInv, DirsOwnNothing
<1>2. NothingLost'
  BY DEF WriteInv, NothingLost, Pending
<1>3. WriteOnCourse'
  BY DEF WriteInv, WriteOnCourse
<1> QED
  BY <1>1, <1>2, <1>3 DEF WriteInv

(* The operations that write no contents. *)
LEMMA OtherOperationsOnCourse ==
  ASSUME DirsOwnNothing', NothingLost', pc' # "loadsuper", pc' # "data", op'.kind # "write"
  PROVE  WriteInv'
  BY DEF WriteInv, WriteOnCourse

(* Which operation is under way, after the steps that start one. *)
LEMMA OtherOperationsNamed ==
  ASSUME \/ \E name \in DirNames : Mkdir(name) \/ DeleteDir(name)
         \/ \E key \in FileKeys : DeleteFile(key)
         \/ \E key, new \in FileKeys : Rename(key, new)
         \/ Format
  PROVE  /\ pc = "idle" /\ UNCHANGED disk
         /\ pc' = "save" /\ ret' = "none" /\ iofail' = FALSE
         /\ \/ todo' = SaveAll /\ op'.kind \in {"delete", "deldir", "format"}
            \/ todo' = SaveTable /\ op'.kind \in {"mkdir", "rename"} /\ bitmap' = bitmap
<1>1. ASSUME NEW name \in DirNames, Mkdir(name)
      PROVE  /\ pc = "idle" /\ UNCHANGED disk /\ pc' = "save" /\ ret' = "none" /\ todo' = SaveTable /\ bitmap' = bitmap
             /\ iofail' = FALSE /\ op'.kind = "mkdir"
  BY <1>1 DEF Mkdir, Begin, Save, NoOp
<1>2. ASSUME NEW name \in DirNames, DeleteDir(name)
      PROVE  /\ pc = "idle" /\ UNCHANGED disk /\ pc' = "save" /\ ret' = "none" /\ todo' = SaveAll /\ iofail' = FALSE
             /\ op'.kind = "deldir"
  BY <1>2 DEF DeleteDir, Begin, Save, NoOp
<1>3. ASSUME NEW key \in FileKeys, DeleteFile(key)
      PROVE  /\ pc = "idle" /\ UNCHANGED disk /\ pc' = "save" /\ ret' = "none" /\ todo' = SaveAll /\ iofail' = FALSE
             /\ op'.kind = "delete"
  BY <1>3 DEF DeleteFile, Begin, Save, NoOp
<1>4. ASSUME NEW key \in FileKeys, NEW new \in FileKeys, Rename(key, new)
      PROVE  /\ pc = "idle" /\ UNCHANGED disk /\ pc' = "save" /\ ret' = "none" /\ todo' = SaveTable /\ bitmap' = bitmap
             /\ iofail' = FALSE /\ op'.kind = "rename"
  BY <1>4 DEF Rename, Begin, Save, NoOp
<1>5. ASSUME Format
      PROVE  /\ pc = "idle" /\ UNCHANGED disk /\ pc' = "save" /\ ret' = "none" /\ todo' = SaveAll /\ iofail' = FALSE
             /\ op'.kind = "format"
  BY <1>5 DEF Format, Begin, Save, NoOp
<1> QED
  BY <1>1, <1>2, <1>3, <1>4, <1>5

(* Boot of a disk without the magic. *)
LEMMA LoadSuperOnCourse ==
  ASSUME DriveInv, WriteInv, LoadSuper(TRUE)
  PROVE  WriteInv'
<1>1. /\ table' = [table EXCEPT ![Root] = RootDir] /\ pc' = "save" /\ bitmap' = {}
      /\ op' = op /\ op.kind = "none" /\ \A i \in Slots : table[i] = Unused
  BY DEF LoadSuper, DriveInv, StepsReady, WriteInv, WriteOnCourse
<1>2. \A j \in Slots : table'[j] = Unused \/ table'[j] = RootDir
  BY <1>1 DEF DriveInv, TypeOK
<1>3. NoName \notin FileNames
  BY FsDiskAssumption DEF FileNames
<1>4. DirsOwnNothing'
  BY <1>1, <1>2, <1>3 DEF DirsOwnNothing, RootDir, Unused, FileNames
<1> QED
  BY <1>1, <1>4 DEF WriteInv, NothingLost, WriteOnCourse

(* The sectors of a write that failed are free again. *)
LEMMA WriteDataFailsOnCourse ==
  ASSUME DriveInv, WriteInv, WriteDataFails
  PROVE  WriteInv'
<1>1. /\ bitmap' = bitmap \ Pending /\ pc' = "idle" /\ ret' = "error" /\ table' = table
  BY DEF WriteDataFails, Pending
<1> QED
  BY <1>1 DEF WriteInv, DirsOwnNothing, NothingLost, WriteOnCourse

LEMMA WriteInvKept ==
  ASSUME NamesApart, DriveInv, WriteInv, [Next]_vars
  PROVE  WriteInv'
<1>1. CASE UNCHANGED vars
  BY <1>1, OtherStepsOnCourse DEF vars
<1>2. ASSUME CdUp \/ \E name \in DirNames : Cd(name) PROVE WriteInv'
  BY <1>2, OtherStepsOnCourse DEF CdUp, Cd, disk
<1>3. ASSUME NEW key \in FileKeys, NEW c \in Contents, NEW dir \in LiveDirs \cup {cwd},
             Overwrite(dir, key, c) \/ Create(dir, key, c)
      PROVE  WriteInv'
  <2>1. dir \in Slots
    BY DEF LiveDirs, DriveInv, TypeOK
  <2>2. pc = "idle"
    BY <1>3 DEF Overwrite, Create, WriteEntry, Begin
  <2> QED
    BY <1>3, <2>1, <2>2, OverwriteOnCourse, CreateOnCourse DEF WriteInv
<1>4. ASSUME \/ \E name \in DirNames : Mkdir(name) \/ DeleteDir(name)
             \/ \E key \in FileKeys : DeleteFile(key)
             \/ \E key, new \in FileKeys : Rename(key, new)
             \/ Format
      PROVE  WriteInv'
  <2>1. DirsOwnNothing' /\ NothingLost'
    BY <1>4, MkdirLosesNothing, DeleteDirLosesNothing, DeleteFileLosesNothing,
       RenameLosesNothing, FormatLosesNothing DEF WriteInv
  <2> QED
    BY <1>4, <2>1, OtherOperationsNamed, OtherOperationsOnCourse
<1>5. ASSUME NEW ok \in BOOLEAN, SaveSector(ok) PROVE WriteInv'
  BY <1>5, OtherStepsOnCourse DEF SaveSector, mem
<1>6. ~LoadTable(TRUE)
  BY DEF LoadTable, DriveInv, StepsReady
<1>7. CASE Operation
  BY <1>2, <1>3, <1>4, <1>7 DEF Operation
<1>8. CASE DiskWorks \/ WriteErrors
  BY <1>5, <1>6, <1>8, LoadSuperOnCourse, WriteDataOnCourse, WriteDataFailsOnCourse
  DEF DiskWorks, WriteErrors
<1> QED
  BY <1>1, <1>7, <1>8 DEF Next

LEMMA InitWriteInv == Init => WriteInv
  BY DEF Init, WriteInv, DirsOwnNothing, NothingLost, WriteOnCourse, Unused, NoOp, FileNames

LEMMA WriteInvariant ==
  ASSUME NamesApart
  PROVE  Spec => [](DriveInv /\ WriteInv)
<1>1. Init => DriveInv /\ WriteInv
  BY InitDriveInv, InitWriteInv
<1>2. (DriveInv /\ WriteInv) /\ [Next]_vars => (DriveInv /\ WriteInv)'
  BY StepKeeps, WriteInvKept
<1> QED
  BY <1>1, <1>2, PTL DEF Spec

(* As long as no directory has the name of a file: every sector marked
   used belongs to a file or to the write in progress. *)
THEOREM NoSectorIsLost ==
  ASSUME NamesApart
  PROVE  Spec => []NoLostSectors
<1>1. ASSUME DriveInv, WriteInv PROVE NoLostSectors
  <2>1. \A s \in bitmap : s \in Pending \/ \E j \in Slots : s \in Owned(table[j])
    BY <1>1 DEF WriteInv, NothingLost
  <2>2. Pending \subseteq bitmap /\ \A j \in Slots : Owned(table[j]) \subseteq bitmap
    BY <1>1 DEF DriveInv, SectorsSafe
  <2>3. bitmap = (UNION {Owned(table[i]) : i \in Slots}) \cup Pending
    BY <2>1, <2>2
  <2> QED
    BY <2>3 DEF NoLostSectors
<1> QED
  BY <1>1, WriteInvariant, PTL

(* ... and a write that reports success has stored what it was given under
   the name it was given. *)
THEOREM WhatIsWrittenIsRead ==
  ASSUME NamesApart
  PROVE  Spec => []WrittenIsRead
<1>1. WriteInv => WrittenIsRead
  BY FoundIsFirstNamed DEF WriteInv, WriteOnCourse, WrittenIsRead
<1> QED
  BY <1>1, WriteInvariant, PTL
-------------------------------------------------------------------------------
(* What is still to be saved when a save begins. *)
LEMMA AllToBeSaved ==
  ASSUME todo' \in {SaveTable, SaveAll}
  PROVE  /\ \A i \in Slots : ToBeSaved(SectorOf(i))'
         /\ todo' = SaveAll => ToBeSaved(Super)'
  BY SectorsListed DEF ToBeSaved

(* An operation that begins to save, as it does after any step before. *)
LEMMA BeginSaving ==
  ASSUME pc' = "save", ret' = "none",
         \/ todo' = SaveAll
         \/ todo' = SaveTable /\ op'.kind \in {"mkdir", "rename"}
  PROVE  SaveInv'
  BY AllToBeSaved DEF SaveInv, SavesOnCourse, SuccessIsDurable

(* A sector that is saved is as in memory; the others are still to be
   saved. *)
LEMMA SaveSectorOnCourse ==
  ASSUME DriveInv, SaveInv, NEW ok \in BOOLEAN, SaveSector(ok)
  PROVE  SaveInv'
<1>1. /\ pc = "save" /\ todo # <<>> /\ todo \in Seq({Super} \cup TableSecs)
      /\ todo' = Tail(todo) /\ UNCHANGED <<table, bitmap, op>>
      /\ iofail' = (iofail \/ ~ok)
      /\ IF Tail(todo) = <<>> THEN pc' = "idle" /\ ret' = "ok" ELSE pc' = "save"
  BY DEF SaveSector, DriveInv, StepsReady, TypeOK, mem
<1>2. ASSUME iofail' PROVE SaveInv'
  BY <1>1, <1>2 DEF SaveInv, SavesOnCourse, SuccessIsDurable
<1>3. ASSUME ~iofail' PROVE SaveInv'
  <2>1. ok /\ ~iofail
    BY <1>1, <1>3
  <2>2. /\ Head(todo) = Super => dsuper'.bits = bitmap
        /\ Head(todo) # Super => dsuper' = dsuper
        /\ \A i \in Slots : dtable'[i] = IF SectorOf(i) = Head(todo) THEN table[i]
                                                                     ELSE dtable[i]
    BY <2>1 DEF SaveSector
  <2>3. ASSUME NEW sec, ToBeSaved(sec), sec # Head(todo) PROVE ToBeSaved(sec)'
    <3>1. PICK n \in 1 .. Len(todo) : todo[n] = sec
      BY <2>3 DEF ToBeSaved
    <3>2. n # 1
      BY <1>1, <2>3, <3>1
    <3>3. n - 1 \in 1 .. Len(Tail(todo)) /\ Tail(todo)[n - 1] = todo[n]
      BY <1>1, <3>1, <3>2
    <3> QED
      BY <1>1, <3>1, <3>3 DEF ToBeSaved
  <2>4. /\ \A i \in Slots : dtable'[i] = table[i] \/ ToBeSaved(SectorOf(i))'
        /\ op.kind \notin {"mkdir", "rename"} =>
             dsuper'.bits = bitmap \/ ToBeSaved(Super)'
    BY <1>1, <2>1, <2>2, <2>3 DEF SaveInv, SavesOnCourse
  <2>5. SavesOnCourse'
    BY <1>1, <2>4 DEF SavesOnCourse
  <2>6. SuccessIsDurable'
    <3> SUFFICES ASSUME pc' = "idle"
                 PROVE  dtable' = table /\ (op.kind \notin {"mkdir", "rename"} =>
                                              dsuper'.bits = bitmap)
      BY <1>1 DEF SuccessIsDurable
    <3>1. todo' = <<>>
      BY <1>1
    <3>2. \A sec : ~ToBeSaved(sec)'
      BY <3>1 DEF ToBeSaved
    <3>3. dtable' \in [Slots -> Entry]
      BY SaveSectorKeeps DEF DriveInv, TypeOK
    <3> QED
      BY <2>4, <3>2, <3>3 DEF DriveInv, TypeOK
  <2> QED
    BY <2>5, <2>6 DEF SaveInv
<1> QED
  BY <1>2, <1>3

LEMMA SaveInvKept ==
  ASSUME DriveInv, SaveInv, [Next]_vars
  PROVE  SaveInv'
<1>1. ASSUME UNCHANGED <<table, bitmap, dtable, dsuper, pc, todo, op, ret, iofail>>
      PROVE  SaveInv'
  BY <1>1 DEF SaveInv, SavesOnCourse, SuccessIsDurable, ToBeSaved
<1>2. CASE UNCHANGED vars
  BY <1>1, <1>2 DEF vars
<1>3. ASSUME CdUp \/ \E name \in DirNames : Cd(name) PROVE SaveInv'
  BY <1>1, <1>3 DEF CdUp, Cd, disk
<1>4. ASSUME NEW key \in FileKeys, NEW c \in Contents, NEW dir \in LiveDirs \cup {cwd},
             Overwrite(dir, key, c) \/ Create(dir, key, c)
      PROVE  SaveInv'
  <2>1. ASSUME NEW i, NEW tab, NEW bits, NEW fresh,
               WriteEntry(i, tab, bits, dir, key, c, fresh)
        PROVE  \/ pc' = "save" /\ todo' = SaveAll /\ ret' = "none"
               \/ pc' = "data"
               \/ pc' = "idle" /\ ret' = "error"
    BY <2>1 DEF WriteEntry, Begin, Save, Fail
  <2>2. \/ pc' = "save" /\ todo' = SaveAll /\ ret' = "none"
        \/ pc' = "data"
        \/ pc' = "idle" /\ ret' = "error"
    BY <1>4, <2>1 DEF Overwrite, Create
  <2>3. CASE pc' = "save" /\ todo' = SaveAll /\ ret' = "none"
    BY <2>3, BeginSaving
  <2>4. CASE pc' = "data" \/ (pc' = "idle" /\ ret' = "error")
    BY <2>4 DEF SaveInv, SavesOnCourse, SuccessIsDurable
  <2> QED
    BY <2>2, <2>3, <2>4
<1>5. ASSUME \/ \E name \in DirNames : Mkdir(name) \/ DeleteDir(name)
             \/ \E key \in FileKeys : DeleteFile(key)
             \/ \E key, new \in FileKeys : Rename(key, new)
             \/ Format
      PROVE  SaveInv'
  BY <1>5, OtherOperationsNamed, BeginSaving
<1>6. ASSUME LoadSuper(TRUE) PROVE SaveInv'
  <2>1. pc' = "save" /\ todo' = SaveAll /\ ret' = ret
    BY <1>6 DEF LoadSuper, DriveInv, StepsReady
  <2> QED
    BY <2>1, AllToBeSaved DEF SaveInv, SavesOnCourse, SuccessIsDurable
<1>7. ASSUME WriteData PROVE SaveInv'
  <2>1. \/ pc' = "save" /\ todo' = SaveAll
        \/ pc' = "data"
    BY <1>7 DEF WriteData
  <2> QED
    BY <2>1, AllToBeSaved DEF SaveInv, SavesOnCourse, SuccessIsDurable
<1>8. ASSUME WriteDataFails PROVE SaveInv'
  BY <1>8 DEF WriteDataFails, SaveInv, SavesOnCourse, SuccessIsDurable
<1>9. ~LoadTable(TRUE)
  BY DEF LoadTable, DriveInv, StepsReady
<1>10. CASE Operation
  BY <1>3, <1>4, <1>5, <1>10 DEF Operation
<1>11. CASE DiskWorks \/ WriteErrors
  BY <1>6, <1>7, <1>8, <1>9, <1>11, SaveSectorOnCourse DEF DiskWorks, WriteErrors
<1> QED
  BY <1>2, <1>10, <1>11 DEF Next

(* An operation that reports success, no write of it having failed, has
   left on the disk what a reboot needs to find it done. *)
THEOREM SuccessStaysDurable == Spec => []SuccessIsDurable
<1>1. Init => SaveInv
  BY DEF Init, SaveInv, SavesOnCourse, SuccessIsDurable
<1>2. DriveInv /\ SaveInv /\ [Next]_vars => SaveInv'
  BY SaveInvKept
<1>3. SaveInv => SuccessIsDurable
  BY DEF SaveInv
<1> QED
  BY <1>1, <1>2, <1>3, DriveInvariant, PTL DEF Spec

--------------------------------------------------------------------------------
(* Power may fail between any two sector writes. *)

(* What the steps rely on, with power losses: a write in progress has its
   sectors, and lists of sectors to read or save are not exhausted. *)
StepsTyped ==
  /\ TypeOK
  /\ pc \in {"save", "loadtable"} => todo # <<>>
  /\ pc = "data" => /\ op.kind = "write" /\ op.c \in Contents /\ op.k < op.c[2]
                    /\ Extent(op.start, op.c[2]) \subseteq Sectors

(* A boot: memory starts empty and gets from the disk what can be read; a
   disk without the magic has never been written. *)
BootReady ==
  /\ ~dsuper.magic => dsuper.bits = {} /\ \A i \in Slots : dtable[i] = Unused
  /\ pc = "loadsuper" => bitmap = {} /\ \A i \in Slots : table[i] = Unused
  /\ pc = "loadtable" => /\ dsuper.magic /\ bitmap = dsuper.bits
                         /\ \A i \in Slots : table[i] \in {Unused, dtable[i]}
  /\ pc = "save" /\ op.kind = "none" /\ ~iofail =>
       \A i \in Slots : table[i].type # "file" /\ dtable[i].type # "file"

(* The superblock is saved first or not at all; what is not yet saved
   is still to be saved. *)
SavesInOrder ==
  pc = "save" =>
    /\ \A n \in 2 .. Len(todo) : todo[n] # Super
    /\ Head(todo) = Super \/ (dsuper.magic /\ bitmap \subseteq dsuper.bits)
    /\ \A i \in Slots : dtable[i] = table[i] \/ ToBeSaved(SectorOf(i))

(* Between operations memory claims no more than the disk, and an entry
   that memory could not read has its sectors left alone. *)
IdleWithinDisk ==
  pc = "idle" =>
    /\ dsuper.magic /\ bitmap \subseteq dsuper.bits
    /\ \A i \in Slots : Owned(table[i]) \subseteq Owned(dtable[i])
    /\ DiskSafe => \A i \in Slots : table[i].type = "free" => Owned(dtable[i]) \subseteq bitmap

(* Until the superblock is saved a new entry takes no sector from what its
   slot holds on the disk. *)
NewEntryWithinDisk ==
  Creating /\ ~iofail /\ DiskSafe =>
    /\ pc = "data" => Owned(dtable[op.idx]) \subseteq bitmap
    /\ pc = "save" /\ Head(todo) = Super => Owned(dtable[op.idx]) \subseteq bitmap

CrashInv == StepsTyped /\ BootReady /\ SavesInOrder /\ IdleWithinDisk /\ NewEntryWithinDisk
-------------------------------------------------------------------------------
(* An operation that changes only memory and then saves or stops. *)
LEMMA SavingTyped ==
  ASSUME StepsTyped, UNCHANGED disk,
         table' \in [Slots -> Entry], bitmap' \in SUBSET Sectors, cwd' \in Slots,
         op' \in OpType, iofail' \in BOOLEAN, ret' \in {"none", "ok", "error"},
         \/ pc' = "save" /\ todo' \in {SaveAll, SaveTable}
         \/ pc' = "idle" /\ todo' = todo
  PROVE  StepsTyped'
  BY ShapesTyped DEF StepsTyped, TypeOK, disk

LEMMA BootTyped ==
  ASSUME StepsTyped, NEW ok \in BOOLEAN, LoadSuper(ok) \/ LoadTable(ok) \/ PowerLoss
  PROVE  StepsTyped'
<1>1. CASE LoadSuper(ok)
  <2>1. table' \in [Slots -> Entry]
    BY <1>1, ShapesTyped DEF LoadSuper, StepsTyped, TypeOK
  <2>2. bitmap' \in SUBSET Sectors
    BY <1>1 DEF LoadSuper, StepsTyped, TypeOK
  <2>3. /\ UNCHANGED <<cwd, dsuper, dtable, ddata, op, ret>> /\ iofail' \in BOOLEAN
        /\ \/ pc' = "save" /\ todo' = SaveAll
           \/ pc' = "loadtable" /\ todo' = SaveTable
    BY <1>1 DEF LoadSuper, disk
  <2> QED
    BY <2>1, <2>2, <2>3, ShapesTyped DEF StepsTyped, TypeOK, disk
<1>2. CASE LoadTable(ok)
  <2>1. table' \in [Slots -> Entry]
    BY <1>2 DEF LoadTable, StepsTyped, TypeOK
  <2>2. todo # <<>> /\ todo \in Seq({Super} \cup TableSecs) /\ todo' = Tail(todo)
    BY <1>2 DEF LoadTable, StepsTyped, TypeOK
  <2>3. todo' \in Seq({Super} \cup TableSecs)
    BY <2>2
  <2>4. /\ UNCHANGED <<bitmap, cwd, dsuper, dtable, ddata, op, ret>> /\ iofail' \in BOOLEAN
        /\ pc' = "idle" \/ (pc' = "loadtable" /\ todo' # <<>>)
    BY <1>2, <2>2 DEF LoadTable, disk
  <2> QED
    BY <2>1, <2>3, <2>4 DEF StepsTyped, TypeOK
<1>3. CASE PowerLoss
  <2>1. table' \in [Slots -> Entry] /\ op' \in OpType /\ cwd' \in Slots
    BY <1>3, ShapesTyped, Shapes DEF PowerLoss, StepsTyped, TypeOK
  <2>2. /\ UNCHANGED <<dsuper, dtable, ddata>> /\ iofail' = FALSE /\ ret' = "none"
        /\ pc' = "loadsuper" /\ todo' = <<>> /\ bitmap' = {}
    BY <1>3 DEF PowerLoss, disk
  <2>3. <<>> \in Seq({Super} \cup TableSecs)
    OBVIOUS
  <2>4. TypeOK'
    BY <2>1, <2>2, <2>3 DEF StepsTyped, TypeOK
  <2> QED
    BY <2>2, <2>4 DEF StepsTyped
<1> QED
  BY <1>1, <1>2, <1>3

LEMMA MkdirTyped ==
  ASSUME StepsTyped, NEW name \in DirNames, Mkdir(name)
  PROVE  StepsTyped'
<1> DEFINE e == [RootDir EXCEPT !.parent = cwd, !.name = name]
<1>1. PICK i \in FreeSlot : /\ Begin([NoOp EXCEPT !.kind = "mkdir", !.idx = i])
                            /\ table' = [table EXCEPT ![i] = e]
                            /\ Save(SaveTable)
  BY DEF Mkdir
<1>2. e \in Entry
  BY ShapesTyped DEF StepsTyped, TypeOK, RootDir, Unused, Entry, Names
<1>3. op' \in OpType
  BY <1>1, ShapesTyped, FreeSlotIsFree DEF Begin, NoOp, OpType, Operations
<1> HIDE DEF e
<1>4. table' \in [Slots -> Entry]
  BY <1>1, <1>2 DEF StepsTyped, TypeOK
<1> QED
  BY <1>1, <1>3, <1>4, SavingTyped DEF Mkdir, Begin, Save, StepsTyped, TypeOK

LEMMA RenameTyped ==
  ASSUME StepsTyped, NEW key \in FileKeys, NEW new \in FileKeys, Rename(key, new)
  PROVE  StepsTyped'
<1>1. PICK i \in Found(key[1], key[2], cwd) :
        /\ Begin([NoOp EXCEPT !.kind = "rename", !.idx = i])
        /\ table' = [table EXCEPT ![i].name = new[1], ![i].ext = new[2]]
  BY DEF Rename
<1>2. i \in Slots
  BY FoundIsLive
<1>3. op' \in OpType
  BY <1>1, <1>2, ShapesTyped DEF Begin, NoOp, OpType, Operations
<1>4. table' \in [Slots -> Entry]
  <2> DEFINE e == [table[i] EXCEPT !.name = new[1], !.ext = new[2]]
  <2>1. table[i] \in Entry /\ new[1] \in Names /\ new[2] \in Exts
    BY <1>2 DEF StepsTyped, TypeOK, Names, Exts
  <2>2. e \in Entry
    BY <2>1 DEF Entry
  <2>3. table' = [table EXCEPT ![i] = e]
    BY <1>1, <1>2 DEF StepsTyped, TypeOK, Entry
  <2> QED
    BY <1>2, <2>2, <2>3 DEF StepsTyped, TypeOK
<1> QED
  BY <1>1, <1>3, <1>4, SavingTyped DEF Rename, Begin, Save, StepsTyped, TypeOK

LEMMA DeleteTyped ==
  ASSUME StepsTyped,
         \/ \E name \in DirNames : DeleteDir(name)
         \/ \E key \in FileKeys : DeleteFile(key)
         \/ Format
  PROVE  StepsTyped'
<1>1. ASSUME NEW name \in DirNames, DeleteDir(name) PROVE StepsTyped'
  <2>1. PICK i \in Found(name, NoName, cwd) :
          /\ Begin([NoOp EXCEPT !.kind = "deldir", !.idx = i])
          /\ bitmap' \subseteq bitmap
          /\ \E kids : table' = [j \in Slots |-> IF j \in kids THEN Freed(table[j]) ELSE table[j]]
          /\ cwd' \in {Root, cwd}
    BY <1>1 DEF DeleteDir
  <2>2. op' \in OpType
    BY <2>1, FoundIsLive, ShapesTyped DEF Begin, NoOp, OpType, Operations
  <2>3. table' \in [Slots -> Entry]
    BY <2>1, FreedOwnsNothing DEF StepsTyped, TypeOK
  <2>4. /\ UNCHANGED disk /\ bitmap' \in SUBSET Sectors /\ cwd' \in Slots
        /\ iofail' = FALSE /\ ret' = "none" /\ pc' = "save" /\ todo' = SaveAll
    BY <1>1, <2>1, Shapes DEF DeleteDir, Begin, Save, StepsTyped, TypeOK
  <2> QED
    BY <2>2, <2>3, <2>4, SavingTyped
<1>2. ASSUME NEW key \in FileKeys, DeleteFile(key) PROVE StepsTyped'
  <2>1. PICK i \in Found(key[1], key[2], cwd) :
          /\ Begin([NoOp EXCEPT !.kind = "delete", !.idx = i])
          /\ bitmap' = bitmap \ Owned(table[i])
          /\ table' = [table EXCEPT ![i] = Freed(@)]
    BY <1>2 DEF DeleteFile
  <2>2. op' \in OpType
    BY <2>1, FoundIsLive, ShapesTyped DEF Begin, NoOp, OpType, Operations
  <2>3. table' \in [Slots -> Entry]
    BY <2>1, FoundIsLive, FreedOwnsNothing DEF StepsTyped, TypeOK
  <2>4. /\ UNCHANGED disk /\ bitmap' \in SUBSET Sectors /\ cwd' \in Slots
        /\ iofail' = FALSE /\ ret' = "none" /\ pc' = "save" /\ todo' = SaveAll
    BY <1>2, <2>1 DEF DeleteFile, Begin, Save, StepsTyped, TypeOK
  <2> QED
    BY <2>2, <2>3, <2>4, SavingTyped
<1>3. ASSUME Format PROVE StepsTyped'
  <2>1. op' \in OpType
    BY <1>3, ShapesTyped DEF Format, Begin, NoOp, OpType, Operations
  <2>2. table' \in [Slots -> Entry]
    BY <1>3, FreedOwnsNothing DEF Format, StepsTyped, TypeOK
  <2>3. /\ UNCHANGED disk /\ bitmap' = {} /\ cwd' \in Slots
        /\ iofail' = FALSE /\ ret' = "none" /\ pc' = "save" /\ todo' = SaveAll
    BY <1>3, Shapes DEF Format, Begin, Save
  <2> QED
    BY <2>1, <2>2, <2>3, SavingTyped
<1> QED
  BY <1>1, <1>2, <1>3

LEMMA WriteEntryTyped ==
  ASSUME StepsTyped, NEW i \in Slots, NEW tab \in [Slots -> Entry],
         NEW bits \in SUBSET Sectors, NEW dir \in Slots, NEW key \in FileKeys,
         NEW c \in Contents, NEW fresh \in BOOLEAN,
         WriteEntry(i, tab, bits, dir, key, c, fresh)
  PROVE  StepsTyped' /\ bits \subseteq bitmap' /\ op'.fresh = fresh
<1> DEFINE o == [NoOp EXCEPT !.kind = "write", !.idx = i, !.key = key, !.dir = dir,
                             !.c = c, !.fresh = fresh]
<1>1. /\ table' = tab /\ cwd' = cwd /\ cwd \in Slots
      /\ \/ c[2] = 0 /\ Begin(o) /\ Save(SaveAll) /\ bitmap' = bits
         \/ /\ c[2] > 0
            /\ \E s \in FirstFits(bits, DataSectors, c[2]) :
                 /\ Begin([o EXCEPT !.start = s])
                 /\ bitmap' = bits \cup Extent(s, c[2])
            /\ pc' = "data" /\ ret' = "none" /\ UNCHANGED todo
         \/ Begin(o) /\ Fail /\ bitmap' = bits
  BY DEF WriteEntry, StepsTyped, TypeOK
<1>2. o \in OpType /\ o.c = c /\ o.k = 0 /\ o.kind = "write"
  <2>1. key \in Names \X Exts
    <3>1. key[1] \in Names /\ key[2] \in Exts
      BY DEF Names, Exts
    <3> QED
      BY <3>1, FsDiskAssumption
  <2> QED
    BY <2>1, Shapes DEF NoOp, OpType, Operations
<1>3. \A s \in Sectors : [o EXCEPT !.start = s] \in OpType
  BY <1>2 DEF OpType
<1>4. o.fresh = fresh
  BY Zenon DEF NoOp
<1>5. \A s : [o EXCEPT !.start = s].fresh = fresh
  BY <1>4, Zenon DEF NoOp
<1> HIDE DEF o
<1>6. CASE c[2] = 0 /\ Begin(o) /\ Save(SaveAll) /\ bitmap' = bits
  BY <1>1, <1>2, <1>4, <1>6, SavingTyped DEF Begin, Save
<1>7. CASE Begin(o) /\ Fail /\ bitmap' = bits
  BY <1>1, <1>2, <1>4, <1>7, SavingTyped DEF Begin, Fail
<1>8. ASSUME c[2] > 0, NEW s \in FirstFits(bits, DataSectors, c[2]),
             Begin([o EXCEPT !.start = s]), bitmap' = bits \cup Extent(s, c[2]),
             pc' = "data", ret' = "none", UNCHANGED todo
      PROVE  StepsTyped' /\ bits \subseteq bitmap' /\ op'.fresh = fresh
  <2>1. c[2] \in Nat
    BY FsDiskAssumption
  <2>2. s \in Sectors /\ Extent(s, c[2]) \subseteq Sectors
    BY <1>8, <2>1, AllocIsFree
  <2>3. op' = [o EXCEPT !.start = s] /\ op' \in OpType /\ iofail' = FALSE /\ UNCHANGED disk
    BY <1>3, <1>8, <2>2 DEF Begin
  <2>4. op'.start = s /\ op'.c = c /\ op'.k = 0 /\ op'.kind = "write"
    BY <1>2, <2>3 DEF OpType
  <2>5. TypeOK'
    BY <1>1, <1>8, <2>2, <2>3 DEF StepsTyped, TypeOK, disk
  <2>6. op'.fresh = fresh
    BY <1>5, <2>3, Zenon
  <2> QED
    BY <1>8, <2>1, <2>2, <2>4, <2>5, <2>6 DEF StepsTyped
<1> QED
  BY <1>1, <1>6, <1>7, <1>8

(* The two ways into fsd_write_in: an entry found and emptied, or a new
   one. *)
LEMMA OverwriteEnters ==
  ASSUME StepsTyped, NEW dir \in Slots, NEW key \in FileKeys, NEW c \in Contents,
         Overwrite(dir, key, c)
  PROVE  \E i \in Slots : \E tab \in [Slots -> Entry] :
           /\ table[i].type # "free"
           /\ \A j \in Slots : j # i => tab[j] = table[j]
           /\ tab[i].type = table[i].type /\ Owned(tab[i]) = {}
           /\ WriteEntry(i, tab, bitmap \ Owned(table[i]), dir, key, c, FALSE)
<1>1. PICK i \in Found(key[1], key[2], dir) :
        WriteEntry(i, [table EXCEPT ![i].num = 0, ![i].start = 0],
                   bitmap \ Extent(table[i].start, table[i].num), dir, key, c, FALSE)
  BY DEF Overwrite
<1>2. i \in Slots /\ table[i].type # "free" /\ table[i] \in Entry
  BY FoundIsLive DEF StepsTyped, TypeOK
<1> DEFINE e   == [table[i] EXCEPT !.num = 0, !.start = 0]
           tab == [table EXCEPT ![i] = e]
<1>3. e \in Entry /\ e.num = 0 /\ e.type = table[i].type
  <2>1. 0 \in 0 .. DataSectors
    BY FsDiskAssumption
  <2> QED
    BY <1>2, <2>1, Shapes DEF Entry
<1>4. [table EXCEPT ![i].num = 0, ![i].start = 0] = tab
  BY <1>2 DEF StepsTyped, TypeOK, Entry
<1>5. Owned(table[i]) = Extent(table[i].start, table[i].num)
  BY <1>2 DEF Owned
<1> HIDE DEF e
<1>6. /\ tab \in [Slots -> Entry] /\ tab[i] = e
      /\ \A j \in Slots : j # i => tab[j] = table[j]
  BY <1>2, <1>3 DEF StepsTyped, TypeOK
<1>7. Owned(tab[i]) = {}
  BY <1>3, <1>6, EmptyOwnsNothing
<1>8. WriteEntry(i, tab, bitmap \ Owned(table[i]), dir, key, c, FALSE)
  BY <1>1, <1>4, <1>5
<1> HIDE DEF tab
<1> QED
  BY <1>2, <1>3, <1>6, <1>7, <1>8

LEMMA CreateEnters ==
  ASSUME StepsTyped, NEW dir \in Slots, NEW key \in FileKeys, NEW c \in Contents,
         Create(dir, key, c)
  PROVE  \E i \in Slots : \E tab \in [Slots -> Entry] :
           /\ table[i].type = "free"
           /\ \A j \in Slots : j # i => tab[j] = table[j]
           /\ tab[i].type = "file" /\ Owned(tab[i]) = {}
           /\ WriteEntry(i, tab, bitmap, dir, key, c, TRUE)
<1> DEFINE e == [Unused EXCEPT !.type = "file", !.parent = dir,
                               !.name = key[1], !.ext = key[2]]
           tab(i) == [table EXCEPT ![i] = e]
<1>1. PICK i \in FreeSlot : WriteEntry(i, tab(i), bitmap, dir, key, c, TRUE)
  BY DEF Create
<1>2. i \in Slots /\ table[i].type = "free"
  BY FreeSlotIsFree
<1>3. e \in Entry /\ e.num = 0 /\ e.type = "file"
  <2>1. key[1] \in Names /\ key[2] \in Exts
    BY DEF Names, Exts
  <2>2. Unused \in Entry /\ Unused.num = 0
    BY ShapesTyped DEF Unused
  <2> QED
    BY <2>1, <2>2 DEF Entry
<1> HIDE DEF e
<1>4. /\ tab(i) \in [Slots -> Entry] /\ tab(i)[i] = e
      /\ \A j \in Slots : j # i => tab(i)[j] = table[j]
  BY <1>2, <1>3 DEF StepsTyped, TypeOK
<1>5. Owned(tab(i)[i]) = {}
  BY <1>3, <1>4, EmptyOwnsNothing
<1> HIDE DEF tab
<1> QED
  BY <1>1, <1>2, <1>3, <1>4, <1>5

LEMMA WriteDataTyped ==
  ASSUME StepsTyped, WriteData
  PROVE  StepsTyped'
<1>1. /\ pc = "data" /\ op \in OpType /\ op.c \in Contents /\ op.k \in Nat
      /\ op.k < op.c[2] /\ op.c[2] \in Nat /\ op.start \in Sectors
      /\ op.idx \in Slots /\ table[op.idx] \in Entry /\ op.kind = "write"
      /\ Extent(op.start, op.c[2]) \subseteq Sectors
  BY FsDiskAssumption DEF WriteData, StepsTyped, TypeOK, OpType
<1>2. ddata' \in [Sectors -> (Contents \X Nat) \cup {Blank}]
  BY <1>1 DEF WriteData, StepsTyped, TypeOK
<1>3. UNCHANGED <<bitmap, cwd, dsuper, dtable, ret, iofail>>
  BY DEF WriteData
<1>4. ASSUME op.k + 1 # op.c[2] PROVE StepsTyped'
  <2>1. op' = [op EXCEPT !.k = @ + 1] /\ UNCHANGED <<table, pc, todo>>
    BY <1>4 DEF WriteData
  <2>2. op' \in OpType /\ op'.c = op.c /\ op'.start = op.start
        /\ op'.kind = op.kind /\ op'.k = op.k + 1
    BY <1>1, <2>1 DEF OpType
  <2>3. TypeOK'
    BY <1>2, <1>3, <2>1, <2>2 DEF StepsTyped, TypeOK
  <2> QED
    BY <1>1, <1>4, <2>1, <2>2, <2>3 DEF StepsTyped
<1>5. ASSUME op.k + 1 = op.c[2] PROVE StepsTyped'
  <2> DEFINE e == [table[op.idx] EXCEPT !.num = op.c[2], !.start = op.start]
  <2>1. /\ table' = [table EXCEPT ![op.idx].num = op.c[2], ![op.idx].start = op.start]
        /\ op' = [op EXCEPT !.start = 0, !.k = 0] /\ pc' = "save" /\ todo' = SaveAll
    BY <1>5 DEF WriteData
  <2>2. table' = [table EXCEPT ![op.idx] = e]
    BY <1>1, <2>1 DEF StepsTyped, TypeOK, Entry
  <2>3. op' \in OpType
    BY <2>1, <1>1, Shapes DEF OpType
  <2>4. e \in Entry
    <3>1. op.c[2] \in 0 .. DataSectors
      <4>1. op.start + (op.c[2] - 1) \in Extent(op.start, op.c[2])
        BY <1>1 DEF Extent, Sectors
      <4> QED
        BY <1>1, <4>1, FsDiskAssumption DEF Sectors
    <3> QED
      BY <1>1, <3>1 DEF Entry
  <2> HIDE DEF e
  <2> QED
    BY <1>1, <1>2, <1>3, <2>1, <2>2, <2>3, <2>4, ShapesTyped DEF StepsTyped, TypeOK
<1> QED
  BY <1>4, <1>5

LEMMA SaveSectorTyped ==
  ASSUME StepsTyped, SaveSector(TRUE)
  PROVE  StepsTyped'
<1>1. /\ pc = "save" /\ todo # <<>> /\ todo \in Seq({Super} \cup TableSecs)
      /\ todo' = Tail(todo) /\ UNCHANGED <<table, bitmap, cwd, ddata, op, iofail>>
  BY DEF SaveSector, StepsTyped, TypeOK, mem
<1>2. todo' \in Seq({Super} \cup TableSecs)
  BY <1>1
<1>3. dsuper' \in [magic: BOOLEAN, bits: SUBSET Sectors]
  <2>1. dsuper' = dsuper \/ dsuper' = [magic |-> TRUE, bits |-> bitmap]
    BY DEF SaveSector
  <2>2. bitmap \in SUBSET Sectors
    BY DEF StepsTyped, TypeOK
  <2>3. [magic |-> TRUE, bits |-> bitmap] \in [magic: BOOLEAN, bits: SUBSET Sectors]
    BY <2>2
  <2> QED
    BY <2>1, <2>3 DEF StepsTyped, TypeOK
<1>4. dtable' \in [Slots -> Entry]
  BY DEF SaveSector, StepsTyped, TypeOK
<1>5. \/ pc' = "idle" /\ ret' = "ok"
      \/ todo' # <<>> /\ UNCHANGED <<pc, ret>>
  BY <1>1 DEF SaveSector
<1>6. TypeOK'
  BY <1>1, <1>2, <1>3, <1>4, <1>5 DEF StepsTyped, TypeOK
<1> QED
  BY <1>1, <1>5, <1>6 DEF StepsTyped

LEMMA StepsStayTyped ==
  ASSUME StepsTyped, [CrashNext]_vars
  PROVE  StepsTyped'
<1>1. CASE UNCHANGED vars
  BY <1>1 DEF vars, StepsTyped, TypeOK
<1>2. ASSUME CdUp \/ \E name \in DirNames : Cd(name) PROVE StepsTyped'
  <2>1. cwd' \in Slots
    BY <1>2, FoundIsLive DEF CdUp, Cd, StepsTyped, TypeOK, Entry
  <2> QED
    BY <1>2, <2>1 DEF CdUp, Cd, disk, StepsTyped, TypeOK
<1>3. ASSUME NEW key \in FileKeys, NEW c \in Contents, NEW dir \in LiveDirs \cup {cwd},
             Overwrite(dir, key, c) \/ Create(dir, key, c)
      PROVE  StepsTyped'
  <2>1. dir \in Slots /\ bitmap \in SUBSET Sectors /\ \A s : bitmap \ s \in SUBSET Sectors
    BY DEF LiveDirs, StepsTyped, TypeOK
  <2>2. CASE Overwrite(dir, key, c)
    <3>1. PICK i \in Slots, tab \in [Slots -> Entry] :
            WriteEntry(i, tab, bitmap \ Owned(table[i]), dir, key, c, FALSE)
      BY <2>1, <2>2, OverwriteEnters
    <3> QED
      BY <2>1, <3>1, WriteEntryTyped
  <2>3. CASE Create(dir, key, c)
    <3>1. PICK i \in Slots, tab \in [Slots -> Entry] :
            WriteEntry(i, tab, bitmap, dir, key, c, TRUE)
      BY <2>1, <2>3, CreateEnters
    <3> QED
      BY <2>1, <3>1, WriteEntryTyped
  <2> QED
    BY <1>3, <2>2, <2>3
<1>4. CASE Operation
  BY <1>2, <1>3, <1>4, MkdirTyped, RenameTyped, DeleteTyped DEF Operation
<1>5. CASE DiskWorks \/ ReadErrors \/ PowerLoss
  BY <1>5, BootTyped, WriteDataTyped, SaveSectorTyped DEF DiskWorks, ReadErrors
<1> QED
  BY <1>1, <1>4, <1>5 DEF CrashNext

-------------------------------------------------------------------------------
CrashParts == BootReady /\ SavesInOrder /\ IdleWithinDisk /\ NewEntryWithinDisk

(* What DiskSafe says is unchanged while the disk is. *)
LEMMA DiskSafeStable ==
  ASSUME UNCHANGED <<dsuper, dtable>>
  PROVE  DiskSafe' <=> DiskSafe
  BY DEF DiskSafe, NoSharedSectors

LEMMA FirstInLists ==
  /\ Head(SaveAll) = Super /\ Head(SaveTable) # Super
  /\ \A n \in 2 .. Len(SaveAll) : SaveAll[n] # Super
  /\ \A n \in 2 .. Len(SaveTable) : SaveTable[n] # Super
<1>1. SaveTable \in Seq(TableSecs) /\ Len(SaveTable) = NumTableSecs
      /\ \A n \in TableSecs : SaveTable[n] = n
  BY Shapes DEF SaveTable, TableSecs
<1>2. /\ Len(SaveAll) = 1 + NumTableSecs /\ SaveAll[1] = Super
      /\ \A n \in TableSecs : SaveAll[1 + n] = n
  BY <1>1, Shapes DEF SaveAll, TableSecs
<1>3. \A n \in TableSecs : n # Super
  BY Shapes DEF TableSecs, Super
<1>4. 1 \in TableSecs /\ Len(SaveTable) > 0
  BY <1>1, Shapes DEF TableSecs
<1>5. ASSUME NEW n \in 2 .. Len(SaveAll) PROVE SaveAll[n] # Super
  <2>1. n - 1 \in TableSecs /\ n = 1 + (n - 1)
    BY <1>2, Shapes DEF TableSecs
  <2> QED
    BY <1>2, <1>3, <2>1
<1>6. ASSUME NEW n \in 2 .. Len(SaveTable) PROVE SaveTable[n] # Super
  <2>1. n \in TableSecs
    BY <1>1, Shapes DEF TableSecs
  <2> QED
    BY <1>1, <1>3, <2>1
<1>7. Head(SaveAll) = SaveAll[1] /\ Head(SaveTable) = SaveTable[1]
  BY <1>1, <1>2, <1>4 DEF SaveAll
<1> QED
  BY <1>1, <1>2, <1>3, <1>4, <1>5, <1>6, <1>7

(* A save that has just begun has everything still before it. *)
LEMMA SaveBegins ==
  ASSUME \/ todo' = SaveAll
         \/ todo' = SaveTable /\ dsuper'.magic /\ bitmap' \subseteq dsuper'.bits
  PROVE  SavesInOrder'
  BY FirstInLists, AllToBeSaved DEF SavesInOrder

(* Changing directory. *)
LEMMA CwdKeepsCrashParts ==
  ASSUME CrashParts, UNCHANGED <<table, bitmap, dsuper, dtable, pc, todo, op, iofail>>
  PROVE  CrashParts'
<1>1. DiskSafe' <=> DiskSafe
  BY DiskSafeStable
<1>2. BootReady'
  BY DEF CrashParts, BootReady
<1>3. SavesInOrder'
  BY DEF CrashParts, SavesInOrder, ToBeSaved
<1>4. IdleWithinDisk'
  BY <1>1 DEF CrashParts, IdleWithinDisk
<1>5. NewEntryWithinDisk'
  BY <1>1 DEF CrashParts, NewEntryWithinDisk, Creating
<1> QED
  BY <1>2, <1>3, <1>4, <1>5 DEF CrashParts

(* Operations that write no contents. *)
LEMMA OtherOperationsKeepCrashParts ==
  ASSUME CrashParts,
         \/ \E name \in DirNames : Mkdir(name) \/ DeleteDir(name)
         \/ \E key \in FileKeys : DeleteFile(key)
         \/ \E key, new \in FileKeys : Rename(key, new)
         \/ Format
  PROVE  CrashParts'
<1>1. /\ pc = "idle" /\ UNCHANGED <<dsuper, dtable>> /\ pc' = "save"
      /\ \/ todo' = SaveAll /\ op'.kind \in {"delete", "deldir", "format"}
         \/ todo' = SaveTable /\ op'.kind \in {"mkdir", "rename"} /\ bitmap' = bitmap
  BY OtherOperationsNamed DEF disk
<1>2. BootReady'
  BY <1>1 DEF CrashParts, BootReady
<1>3. dsuper.magic /\ bitmap \subseteq dsuper.bits
  BY <1>1 DEF CrashParts, IdleWithinDisk
<1>4. SavesInOrder'
  BY <1>1, <1>3, SaveBegins
<1>5. IdleWithinDisk'
  BY <1>1 DEF IdleWithinDisk
<1>6. NewEntryWithinDisk'
  BY <1>1, FirstInLists DEF NewEntryWithinDisk, Creating
<1> QED
  BY <1>2, <1>4, <1>5, <1>6 DEF CrashParts

(* fsd_write_in on an entry that exists: while memory has not been saved
   its sectors are free in memory only. *)
LEMMA OverwriteKeepsCrashParts ==
  ASSUME StepsTyped, CrashParts, NEW dir \in Slots, NEW key \in FileKeys,
         NEW c \in Contents, Overwrite(dir, key, c)
  PROVE  CrashParts'
<1>1. PICK i \in Slots, tab \in [Slots -> Entry] :
        /\ table[i].type # "free"
        /\ \A j \in Slots : j # i => tab[j] = table[j]
        /\ tab[i].type = table[i].type /\ Owned(tab[i]) = {}
        /\ WriteEntry(i, tab, bitmap \ Owned(table[i]), dir, key, c, FALSE)
  BY OverwriteEnters
<1> DEFINE bits == bitmap \ Owned(table[i])
<1>2. /\ pc = "idle" /\ table' = tab /\ iofail' = FALSE /\ UNCHANGED <<cwd, disk>>
      /\ op'.kind = "write" /\ op'.idx = i /\ op'.key = key /\ op'.dir = dir
      /\ op'.c = c /\ op'.k = 0
      /\ \/ c[2] = 0 /\ pc' = "save" /\ todo' = SaveAll /\ ret' = "none" /\ bitmap' = bits
         \/ c[2] > 0 /\ pc' = "data" /\ ret' = "none"
            /\ bitmap' = bits \cup Extent(op'.start, c[2])
         \/ pc' = "idle" /\ ret' = "error" /\ bitmap' = bits
  BY <1>1, WriteEntrySteps, Zenon
<1>3. ~op'.fresh
  <2>1. bits \in SUBSET Sectors
    BY DEF StepsTyped, TypeOK
  <2>2. op'.fresh = FALSE
    BY <1>1, <2>1, WriteEntryTyped
  <2> QED
    BY <2>2
<1>4. UNCHANGED <<dsuper, dtable>>
  BY <1>2 DEF disk
<1>5. DiskSafe' <=> DiskSafe
  BY <1>4, DiskSafeStable
<1>6. BootReady'
  BY <1>2, <1>4 DEF CrashParts, BootReady
<1>7. SavesInOrder'
  <2>1. pc' = "save" => todo' = SaveAll
    BY <1>2
  <2> QED
    BY <2>1, SaveBegins DEF SavesInOrder
<1>8. NewEntryWithinDisk'
  BY <1>2, <1>3 DEF NewEntryWithinDisk, Creating
<1>9. IdleWithinDisk'
  <2> SUFFICES ASSUME pc' = "idle" PROVE IdleWithinDisk'
    BY DEF IdleWithinDisk
  <2>1. bitmap' = bitmap \ Owned(table[i])
    BY <1>2
  <2>2. /\ dsuper.magic /\ bitmap \subseteq dsuper.bits
        /\ \A j \in Slots : Owned(table[j]) \subseteq Owned(dtable[j])
        /\ DiskSafe => \A j \in Slots : table[j].type = "free" => Owned(dtable[j]) \subseteq bitmap
    BY <1>2 DEF CrashParts, IdleWithinDisk
  <2>3. \A j \in Slots : Owned(table'[j]) \subseteq Owned(dtable[j])
    BY <1>1, <1>2, <2>2
  <2>4. ASSUME DiskSafe, NEW j \in Slots, table'[j].type = "free"
        PROVE  Owned(dtable[j]) \subseteq bitmap'
    <3>1. j # i /\ table[j].type = "free"
      BY <1>1, <1>2, <2>4
    <3>2. Owned(dtable[j]) \cap Owned(table[i]) = {}
      BY <1>1, <2>2, <2>4, <3>1 DEF DiskSafe, NoSharedSectors
    <3> QED
      BY <2>1, <2>2, <2>4, <3>1, <3>2
  <2> QED
    BY <1>4, <1>5, <2>1, <2>2, <2>3, <2>4 DEF IdleWithinDisk
<1> QED
  BY <1>6, <1>7, <1>8, <1>9 DEF CrashParts

(* fsd_write_in with a new entry: what its slot holds on the disk is left
   alone. *)
LEMMA CreateKeepsCrashParts ==
  ASSUME StepsTyped, CrashParts, NEW dir \in Slots, NEW key \in FileKeys,
         NEW c \in Contents, Create(dir, key, c)
  PROVE  CrashParts'
<1>1. PICK i \in Slots, tab \in [Slots -> Entry] :
        /\ table[i].type = "free"
        /\ \A j \in Slots : j # i => tab[j] = table[j]
        /\ tab[i].type = "file" /\ Owned(tab[i]) = {}
        /\ WriteEntry(i, tab, bitmap, dir, key, c, TRUE)
  BY CreateEnters
<1>2. /\ pc = "idle" /\ table' = tab /\ iofail' = FALSE /\ UNCHANGED <<cwd, disk>>
      /\ op'.kind = "write" /\ op'.idx = i /\ op'.key = key /\ op'.dir = dir
      /\ op'.c = c /\ op'.k = 0
      /\ \/ c[2] = 0 /\ pc' = "save" /\ todo' = SaveAll /\ ret' = "none" /\ bitmap' = bitmap
         \/ c[2] > 0 /\ pc' = "data" /\ ret' = "none"
            /\ bitmap' = bitmap \cup Extent(op'.start, c[2])
         \/ pc' = "idle" /\ ret' = "error" /\ bitmap' = bitmap
  BY <1>1, WriteEntrySteps, Zenon
<1>3. bitmap \subseteq bitmap'
  BY <1>2
<1>4. UNCHANGED <<dsuper, dtable>>
  BY <1>2 DEF disk
<1>5. DiskSafe' <=> DiskSafe
  BY <1>4, DiskSafeStable
<1>6. BootReady'
  BY <1>2, <1>4 DEF CrashParts, BootReady
<1>7. SavesInOrder'
  <2>1. pc' = "save" => todo' = SaveAll
    BY <1>2
  <2> QED
    BY <2>1, SaveBegins DEF SavesInOrder
<1>8. /\ dsuper.magic /\ bitmap \subseteq dsuper.bits
      /\ \A j \in Slots : Owned(table[j]) \subseteq Owned(dtable[j])
      /\ DiskSafe => \A j \in Slots : table[j].type = "free" => Owned(dtable[j]) \subseteq bitmap
  BY <1>2 DEF CrashParts, IdleWithinDisk
<1>9. NewEntryWithinDisk'
  <2>1. DiskSafe => Owned(dtable[i]) \subseteq bitmap'
    BY <1>1, <1>3, <1>8
  <2> QED
    BY <1>2, <1>4, <1>5, <2>1 DEF NewEntryWithinDisk
<1>10. IdleWithinDisk'
  <2> SUFFICES ASSUME pc' = "idle" PROVE IdleWithinDisk'
    BY DEF IdleWithinDisk
  <2>1. bitmap' = bitmap
    BY <1>2
  <2>2. \A j \in Slots : Owned(table'[j]) \subseteq Owned(dtable[j])
    BY <1>1, <1>2, <1>8
  <2>3. \A j \in Slots : table'[j].type = "free" => table[j].type = "free"
    BY <1>1, <1>2
  <2> QED
    BY <1>4, <1>5, <1>8, <2>1, <2>2, <2>3 DEF IdleWithinDisk
<1> QED
  BY <1>6, <1>7, <1>9, <1>10 DEF CrashParts

(* A data sector belongs to no entry the superblock or the table name. *)
LEMMA WriteDataKeepsCrashParts ==
  ASSUME StepsTyped, CrashParts, WriteData
  PROVE  CrashParts'
<1>1. /\ pc = "data" /\ op \in OpType /\ op.kind = "write"
      /\ UNCHANGED <<bitmap, dsuper, dtable, iofail>>
      /\ \/ op' = [op EXCEPT !.start = 0, !.k = 0] /\ pc' = "save" /\ todo' = SaveAll
         \/ op' = [op EXCEPT !.k = @ + 1] /\ pc' = "data"
  BY DEF WriteData, StepsTyped, TypeOK
<1>2. op'.kind = "write" /\ op'.idx = op.idx
  BY <1>1 DEF OpType
<1>3. Creating' => Creating
  <2>1. op'.fresh = op.fresh
    BY <1>1, Zenon DEF OpType
  <2> QED
    BY <1>1, <1>2, <2>1 DEF Creating
<1>4. DiskSafe' <=> DiskSafe
  BY <1>1, DiskSafeStable
<1>5. BootReady'
  BY <1>1, <1>2 DEF CrashParts, BootReady
<1>6. SavesInOrder'
  BY <1>1, SaveBegins DEF SavesInOrder
<1>7. IdleWithinDisk'
  BY <1>1 DEF IdleWithinDisk
<1>8. NewEntryWithinDisk'
  <2>1. Creating' /\ ~iofail' /\ DiskSafe' => Owned(dtable[op.idx]) \subseteq bitmap
    BY <1>1, <1>3, <1>4 DEF CrashParts, NewEntryWithinDisk
  <2> QED
    BY <1>1, <1>2, <2>1 DEF NewEntryWithinDisk
<1> QED
  BY <1>5, <1>6, <1>7, <1>8 DEF CrashParts

(* What a metadata sector changes on the disk. *)
LEMMA SaveSectorSteps ==
  ASSUME StepsTyped, SaveSector(TRUE)
  PROVE  /\ pc = "save" /\ todo # <<>> /\ todo \in Seq({Super} \cup TableSecs)
         /\ todo' = Tail(todo) /\ UNCHANGED <<table, bitmap, ddata, op, iofail>>
         /\ IF Head(todo) = Super THEN dsuper'.magic /\ dsuper'.bits = bitmap
                                       /\ dtable' = dtable
                                  ELSE dsuper' = dsuper
         /\ \A i \in Slots : dtable'[i] = IF SectorOf(i) = Head(todo) THEN table[i]
                                                                      ELSE dtable[i]
         /\ IF Tail(todo) = <<>> THEN pc' = "idle" ELSE pc' = "save"
<1>1. /\ pc = "save" /\ todo # <<>> /\ todo \in Seq({Super} \cup TableSecs)
      /\ todo' = Tail(todo) /\ UNCHANGED <<table, bitmap, ddata, op, iofail>>
      /\ IF Head(todo) = Super THEN dsuper' = [magic |-> TRUE, bits |-> bitmap]
                               ELSE dsuper' = dsuper
      /\ dtable' = [i \in Slots |-> IF SectorOf(i) = Head(todo) THEN table[i]
                                                                ELSE dtable[i]]
      /\ IF Tail(todo) = <<>> THEN pc' = "idle" ELSE pc' = "save"
  BY DEF SaveSector, StepsTyped, TypeOK, mem
<1>2. \A i \in Slots : SectorOf(i) # Super
  BY SectorsListed, Shapes DEF TableSecs, Super
<1>3. Head(todo) = Super => dtable' = dtable
  BY <1>1, <1>2 DEF StepsTyped, TypeOK
<1>4. ASSUME Head(todo) = Super PROVE dsuper'.magic /\ dsuper'.bits = bitmap
  <2>1. dsuper' = [magic |-> TRUE, bits |-> bitmap]
    BY <1>1, <1>4
  <2> QED
    BY <2>1, Zenon
<1>5. IF Head(todo) = Super THEN dsuper'.magic /\ dsuper'.bits = bitmap
                                 /\ dtable' = dtable
                            ELSE dsuper' = dsuper
  BY <1>1, <1>3, <1>4, Zenon
<1>6. \A i \in Slots : dtable'[i] = IF SectorOf(i) = Head(todo) THEN table[i]
                                                               ELSE dtable[i]
  BY <1>1
<1> QED
  BY <1>1, <1>5, <1>6

LEMMA SaveSectorKeepsCrashParts ==
  ASSUME StepsTyped, CrashParts, SaveSector(TRUE)
  PROVE  CrashParts'
<1>1. /\ pc = "save" /\ todo # <<>> /\ todo \in Seq({Super} \cup TableSecs)
      /\ todo' = Tail(todo) /\ UNCHANGED <<table, bitmap, ddata, op, iofail>>
      /\ IF Head(todo) = Super THEN dsuper'.magic /\ dsuper'.bits = bitmap
                                    /\ dtable' = dtable
                               ELSE dsuper' = dsuper
      /\ \A i \in Slots : dtable'[i] = IF SectorOf(i) = Head(todo) THEN table[i]
                                                                   ELSE dtable[i]
      /\ IF Tail(todo) = <<>> THEN pc' = "idle" ELSE pc' = "save"
  BY SaveSectorSteps
<1>2. /\ \A n \in 2 .. Len(todo) : todo[n] # Super
      /\ Head(todo) = Super \/ (dsuper.magic /\ bitmap \subseteq dsuper.bits)
      /\ \A i \in Slots : dtable[i] = table[i] \/ ToBeSaved(SectorOf(i))
  BY <1>1 DEF CrashParts, SavesInOrder
<1>3. dsuper'.magic /\ bitmap \subseteq dsuper'.bits
  BY <1>1, <1>2
<1>4. ASSUME NEW sec, ToBeSaved(sec), sec # Head(todo) PROVE ToBeSaved(sec)'
  <2>1. PICK n \in 1 .. Len(todo) : todo[n] = sec
    BY <1>4 DEF ToBeSaved
  <2>2. n # 1
    BY <1>1, <1>4, <2>1
  <2>3. n - 1 \in 1 .. Len(Tail(todo)) /\ Tail(todo)[n - 1] = todo[n]
    BY <1>1, <2>1, <2>2
  <2> QED
    BY <1>1, <2>1, <2>3 DEF ToBeSaved
<1>5. \A i \in Slots : dtable'[i] = table[i] \/ ToBeSaved(SectorOf(i))'
  BY <1>1, <1>2, <1>4
<1>6. \A n \in 1 .. Len(Tail(todo)) : Tail(todo)[n] # Super
  <2> SUFFICES ASSUME NEW n \in 1 .. Len(Tail(todo)) PROVE Tail(todo)[n] # Super
    OBVIOUS
  <2>1. n + 1 \in 2 .. Len(todo) /\ Tail(todo)[n] = todo[n + 1]
    BY <1>1
  <2> QED
    BY <1>2, <2>1
<1>7. BootReady'
  <2>1. pc' # "loadsuper" /\ pc' # "loadtable"
    BY <1>1
  <2>2. op.kind = "none" /\ ~iofail => \A i \in Slots : /\ table[i].type # "file"
                                                         /\ dtable'[i].type # "file"
    BY <1>1 DEF CrashParts, BootReady
  <2> QED
    BY <1>1, <1>3, <2>1, <2>2 DEF BootReady
<1>8. SavesInOrder'
  <2>1. \A n \in 2 .. Len(todo') : todo'[n] # Super
    BY <1>1, <1>6
  <2> QED
    BY <1>1, <1>3, <1>5, <2>1 DEF SavesInOrder
<1>9. IdleWithinDisk'
  <2> SUFFICES ASSUME pc' = "idle" PROVE IdleWithinDisk'
    BY DEF IdleWithinDisk
  <2>1. \A sec : ~ToBeSaved(sec)'
    BY <1>1 DEF ToBeSaved
  <2>2. \A i \in Slots : dtable'[i] = table[i]
    BY <1>5, <2>1
  <2>3. \A i \in Slots : table[i].type = "free" => Owned(table[i]) = {}
    BY DEF Owned
  <2>4. /\ \A i \in Slots : Owned(table'[i]) \subseteq Owned(dtable'[i])
        /\ \A i \in Slots : table'[i].type = "free" => Owned(dtable'[i]) \subseteq bitmap'
    BY <1>1, <2>2, <2>3
  <2> QED
    BY <1>1, <1>3, <2>4 DEF IdleWithinDisk
<1>10. NewEntryWithinDisk'
  <2>1. pc' = "save" => Head(todo') # Super
    <3> SUFFICES ASSUME pc' = "save" PROVE Head(todo') # Super
      OBVIOUS
    <3>1. Tail(todo) # <<>> /\ Tail(todo) \in Seq({Super} \cup TableSecs)
      BY <1>1
    <3>2. 1 \in 1 .. Len(Tail(todo)) /\ Head(Tail(todo)) = Tail(todo)[1]
      BY <3>1
    <3> QED
      BY <1>1, <1>6, <3>2
  <2> QED
    BY <1>1, <2>1 DEF NewEntryWithinDisk
<1> QED
  BY <1>7, <1>8, <1>9, <1>10 DEF CrashParts

(* A boot starts from nothing; without the magic there is nothing on the
   disk that a new table could harm. *)
LEMMA LoadSuperKeepsCrashParts ==
  ASSUME StepsTyped, CrashParts, NEW ok \in BOOLEAN, LoadSuper(ok)
  PROVE  CrashParts'
<1>1. /\ pc = "loadsuper" /\ bitmap = {} /\ \A i \in Slots : table[i] = Unused
      /\ UNCHANGED <<dsuper, dtable, op>> /\ (iofail' <=> ~ok)
      /\ ~dsuper.magic => dsuper.bits = {} /\ \A i \in Slots : dtable[i] = Unused
  BY DEF LoadSuper, CrashParts, BootReady, disk
<1>2. CASE ok /\ dsuper.magic
  <2>1. pc' = "loadtable" /\ bitmap' = dsuper.bits /\ table' = table
    BY <1>2 DEF LoadSuper
  <2> QED
    BY <1>1, <1>2, <2>1
    DEF CrashParts, BootReady, SavesInOrder, IdleWithinDisk, NewEntryWithinDisk
<1>3. CASE ~(ok /\ dsuper.magic)
  <2>1. /\ table' = [table EXCEPT ![Root] = RootDir] /\ bitmap' = {}
        /\ pc' = "save" /\ todo' = SaveAll
    BY <1>1, <1>3 DEF LoadSuper
  <2>2. \A i \in Slots : table'[i].type # "file"
    BY <1>1, <2>1 DEF StepsTyped, TypeOK, RootDir, Unused
  <2>3. ~iofail' => \A i \in Slots : dtable[i] = Unused
    BY <1>1, <1>3
  <2>4. BootReady'
    BY <1>1, <2>1, <2>2, <2>3 DEF BootReady, Unused
  <2>5. SavesInOrder'
    BY <2>1, SaveBegins
  <2>6. op.idx \in Slots /\ Owned(Unused) = {}
    BY DEF StepsTyped, TypeOK, OpType, Owned, Unused
  <2>7. NewEntryWithinDisk'
    BY <1>1, <2>1, <2>3, <2>6 DEF NewEntryWithinDisk
  <2> QED
    BY <2>1, <2>4, <2>5, <2>7 DEF CrashParts, IdleWithinDisk
<1> QED
  BY <1>2, <1>3

LEMMA LoadTableKeepsCrashParts ==
  ASSUME StepsTyped, CrashParts, NEW ok \in BOOLEAN, LoadTable(ok)
  PROVE  CrashParts'
<1>1. /\ dsuper.magic /\ bitmap = dsuper.bits
      /\ \A i \in Slots : table[i] = Unused \/ table[i] = dtable[i]
      /\ UNCHANGED <<bitmap, dsuper, dtable, op>>
      /\ pc' \in {"loadtable", "idle"}
  BY DEF LoadTable, CrashParts, BootReady, disk
<1>2. \A i \in Slots : table'[i] = Unused \/ table'[i] = dtable[i]
  BY <1>1 DEF LoadTable
<1>3. BootReady'
  BY <1>1, <1>2 DEF CrashParts, BootReady
<1>4. Owned(Unused) = {}
  BY DEF Owned, Unused
<1>5. \A i \in Slots : Owned(table'[i]) \subseteq Owned(dtable[i])
  BY <1>2, <1>4
<1>6. DiskSafe' => \A i \in Slots : Owned(dtable[i]) \subseteq bitmap
  BY <1>1, DiskSafeStable DEF DiskSafe
<1>7. IdleWithinDisk'
  BY <1>1, <1>5, <1>6 DEF IdleWithinDisk
<1>8. SavesInOrder' /\ NewEntryWithinDisk'
  BY <1>1 DEF SavesInOrder, NewEntryWithinDisk
<1> QED
  BY <1>3, <1>7, <1>8 DEF CrashParts

LEMMA PowerLossKeepsCrashParts ==
  ASSUME CrashParts, PowerLoss
  PROVE  CrashParts'
<1>1. /\ pc' = "loadsuper" /\ bitmap' = {} /\ UNCHANGED <<dsuper, dtable>>
      /\ \A i \in Slots : table'[i] = Unused
  BY DEF PowerLoss, disk
<1> QED
  BY <1>1 DEF CrashParts, BootReady, SavesInOrder, IdleWithinDisk, NewEntryWithinDisk

LEMMA CrashInvKept ==
  ASSUME CrashInv, [CrashNext]_vars
  PROVE  CrashInv'
<1>1. StepsTyped /\ CrashParts
  BY DEF CrashInv, CrashParts
<1>2. StepsTyped'
  BY <1>1, StepsStayTyped
<1>3. ASSUME UNCHANGED vars PROVE CrashParts'
  BY <1>1, <1>3, CwdKeepsCrashParts DEF vars, disk
<1>4. ASSUME CdUp \/ \E name \in DirNames : Cd(name) PROVE CrashParts'
  BY <1>1, <1>4, CwdKeepsCrashParts DEF CdUp, Cd, disk
<1>5. ASSUME NEW key \in FileKeys, NEW c \in Contents, NEW dir \in LiveDirs \cup {cwd},
             Overwrite(dir, key, c) \/ Create(dir, key, c)
      PROVE  CrashParts'
  <2>1. dir \in Slots
    BY <1>1 DEF LiveDirs, StepsTyped, TypeOK
  <2> QED
    BY <1>1, <1>5, <2>1, OverwriteKeepsCrashParts, CreateKeepsCrashParts
<1>6. ASSUME Operation PROVE CrashParts'
  BY <1>1, <1>4, <1>5, <1>6, OtherOperationsKeepCrashParts DEF Operation
<1>7. ASSUME DiskWorks \/ ReadErrors \/ PowerLoss PROVE CrashParts'
  BY <1>1, <1>7, LoadSuperKeepsCrashParts, LoadTableKeepsCrashParts, PowerLossKeepsCrashParts,
     WriteDataKeepsCrashParts, SaveSectorKeepsCrashParts DEF DiskWorks, ReadErrors
<1>8. CrashParts'
  BY <1>3, <1>6, <1>7 DEF CrashNext
<1> QED
  BY <1>2, <1>8 DEF CrashInv, CrashParts

LEMMA InitCrashInv == Init => CrashInv
<1> SUFFICES ASSUME Init PROVE CrashInv
  OBVIOUS
<1>1. StepsTyped
  BY InitDriveInv DEF DriveInv, StepsTyped, Init
<1>2. dsuper.bits = {} /\ ~dsuper.magic
  BY Zenon DEF Init
<1> QED
  BY <1>1, <1>2 DEF Init, CrashInv, BootReady, SavesInOrder, IdleWithinDisk, NewEntryWithinDisk

(* The invariant of drive A: when power may fail at any moment and sectors
   may be unreadable at boot. *)
THEOREM CrashInvariant == CrashSpec => []CrashInv
<1>1. Init => CrashInv
  BY InitCrashInv
<1>2. CrashInv /\ [CrashNext]_vars => CrashInv'
  BY CrashInvKept
<1> QED
  BY <1>1, <1>2, PTL DEF CrashSpec
-------------------------------------------------------------------------------
(* An operation starts when no other is in progress and leaves the disk to
   the steps after it. *)
LEMMA OperationsStartIdle ==
  ASSUME Operation
  PROVE  pc = "idle" /\ UNCHANGED disk
<1>1. ASSUME NEW i, NEW tab, NEW bits, NEW dir, NEW key, NEW c, NEW fresh,
             WriteEntry(i, tab, bits, dir, key, c, fresh)
      PROVE  pc = "idle" /\ UNCHANGED disk
  BY <1>1 DEF WriteEntry, Begin
<1>2. ASSUME NEW name \in DirNames, Cd(name) \/ Mkdir(name) \/ DeleteDir(name)
      PROVE  pc = "idle" /\ UNCHANGED disk
  BY <1>2 DEF Cd, Mkdir, DeleteDir, Begin
<1>3. ASSUME CdUp \/ Format PROVE pc = "idle" /\ UNCHANGED disk
  BY <1>3 DEF CdUp, Format, Begin
<1>4. ASSUME NEW key, NEW c, NEW dir, Overwrite(dir, key, c) \/ Create(dir, key, c)
      PROVE  pc = "idle" /\ UNCHANGED disk
  BY <1>1, <1>4 DEF Overwrite, Create
<1>5. ASSUME NEW key, DeleteFile(key) PROVE pc = "idle" /\ UNCHANGED disk
  BY <1>5 DEF DeleteFile, Begin
<1>6. ASSUME NEW key, NEW new, Rename(key, new) PROVE pc = "idle" /\ UNCHANGED disk
  BY <1>6 DEF Rename, Begin
<1> QED
  BY <1>2, <1>3, <1>4, <1>5, <1>6 DEF Operation

(* Only a metadata sector that is written changes what the disk says of its
   entries. *)
LEMMA OnlySavingChangesTheDisk ==
  ASSUME CrashInv, [CrashNext]_vars, ~SaveSector(TRUE)
  PROVE  UNCHANGED <<dsuper, dtable>>
<1>1. ASSUME Operation PROVE UNCHANGED <<dsuper, dtable>>
  BY <1>1, OperationsStartIdle DEF disk
<1>2. ASSUME DiskWorks PROVE UNCHANGED <<dsuper, dtable>>
  BY <1>2 DEF DiskWorks, LoadSuper, LoadTable, WriteData, disk
<1>3. ASSUME ReadErrors \/ PowerLoss PROVE UNCHANGED <<dsuper, dtable>>
  BY <1>3 DEF ReadErrors, LoadSuper, LoadTable, PowerLoss, disk
<1>4. ASSUME UNCHANGED vars PROVE UNCHANGED <<dsuper, dtable>>
  BY <1>4 DEF vars
<1> QED
  BY <1>1, <1>2, <1>3, <1>4 DEF CrashNext

(* A metadata sector of an operation that creates or renames an entry. *)
LEMMA SavingANewEntryIsSafe ==
  ASSUME CrashInv, SaveSector(TRUE), Creating, ~iofail, DiskSafe, SectorsSafe,
         \A i \in Slots \ {op.idx} : table[i] = dtable[i]
  PROVE  DiskSafe'
<1> USE DEF NoSharedSectors
<1>1. /\ pc = "save"
      /\ UNCHANGED <<table, bitmap, ddata, op, iofail>>
      /\ IF Head(todo) = Super THEN dsuper'.magic /\ dsuper'.bits = bitmap
                                    /\ dtable' = dtable
                               ELSE dsuper' = dsuper
      /\ \A i \in Slots : dtable'[i] = IF SectorOf(i) = Head(todo) THEN table[i]
                                                                   ELSE dtable[i]
  BY SaveSectorSteps DEF CrashInv
<1>2. /\ \A i, j \in Slots : i # j => Owned(table[i]) \cap Owned(table[j]) = {}
      /\ \A i \in Slots : Owned(table[i]) \subseteq bitmap
  BY DEF SectorsSafe
<1>3. /\ \A i, j \in Slots : i # j => Owned(dtable[i]) \cap Owned(dtable[j]) = {}
      /\ \A i \in Slots : Owned(dtable[i]) \subseteq dsuper.bits
  BY DEF DiskSafe
<1>4. CASE Head(todo) = Super
  <2>1. Owned(dtable[op.idx]) \subseteq bitmap
    BY <1>1, <1>4 DEF CrashInv, NewEntryWithinDisk
  <2>2. \A i \in Slots : Owned(dtable[i]) \subseteq bitmap
    BY <1>2, <2>1
  <2> QED
    BY <1>1, <1>3, <1>4, <2>2 DEF DiskSafe
<1>5. CASE Head(todo) # Super
  <2>1. bitmap \subseteq dsuper.bits
    BY <1>1, <1>5 DEF CrashInv, SavesInOrder
  <2>2. /\ \A i \in Slots \ {op.idx} : dtable'[i] = table[i] /\ dtable'[i] = dtable[i]
        /\ op.idx \in Slots => dtable'[op.idx] \in {table[op.idx], dtable[op.idx]}
    BY <1>1
  <2>3. \A i, j \in Slots : i # j => Owned(dtable'[i]) \cap Owned(dtable'[j]) = {}
    BY <1>2, <1>3, <2>2
  <2>4. \A i \in Slots : Owned(dtable'[i]) \subseteq dsuper.bits
    BY <1>2, <1>3, <2>1, <2>2
  <2> QED
    BY <1>1, <1>5, <2>3, <2>4 DEF DiskSafe
<1> QED
  BY <1>4, <1>5

(* fs_disk.c:347-348: power may fail between any two sector writes of an
   operation that creates or renames an entry, and the disk it leaves is
   one that a boot can go on with. *)
THEOREM CreatingStaysCrashSafe == CrashSpec => CreatingIsCrashSafe
<1>1. CrashInv /\ [CrashNext]_vars =>
        [/\ Creating /\ ~iofail /\ DiskSafe /\ SectorsSafe
         /\ \A i \in Slots \ {op.idx} : table[i] = dtable[i]
         => DiskSafe']_vars
  BY OnlySavingChangesTheDisk, SavingANewEntryIsSafe, DiskSafeStable
<1> QED
  BY <1>1, CrashInvariant, PTL DEF CrashSpec, CreatingIsCrashSafe

-------------------------------------------------------------------------------
(* Memory that holds nothing but what the disk holds shares nothing, if the
   disk does not. *)
LEMMA PartOfASafeDisk ==
  ASSUME DiskSafe, bitmap' = dsuper.bits, pc' # "data",
         \A i \in Slots : Owned(table'[i]) \in {{}, Owned(dtable[i])}
  PROVE  SectorsSafe'
<1>1. Pending' = {}
  BY DEF Pending
<1>2. \A i, j \in Slots : i # j => Owned(table'[i]) \cap Owned(table'[j]) = {}
  BY DEF DiskSafe, NoSharedSectors
<1>3. \A i \in Slots : Owned(table'[i]) \subseteq bitmap'
  BY DEF DiskSafe
<1> QED
  BY <1>1, <1>2, <1>3 DEF SectorsSafe, NoSharedSectors

(* A table that owns nothing shares nothing. *)
LEMMA EmptyIsSafe ==
  ASSUME pc' # "data", \A i \in Slots : Owned(table'[i]) = {}
  PROVE  SectorsSafe'
  BY DEF SectorsSafe, NoSharedSectors, Pending

LEMMA BootStepIsSafe ==
  ASSUME CrashInv, [CrashNext]_vars, pc \in {"loadsuper", "loadtable"}, DiskSafe
  PROVE  SectorsSafe'
<1>1. Owned(Unused) = {} /\ Owned(RootDir) = {}
  BY DEF Owned, Unused, RootDir, Extent
<1>2. /\ pc = "loadsuper" => bitmap = {} /\ \A i \in Slots : table[i] = Unused
      /\ pc = "loadtable" => /\ bitmap = dsuper.bits
                             /\ \A i \in Slots : table[i] \in {Unused, dtable[i]}
  BY DEF CrashInv, BootReady
<1>3. ASSUME NEW ok \in BOOLEAN, LoadSuper(ok) PROVE SectorsSafe'
  <2>1. pc' # "data" /\ \A i \in Slots : table'[i] \in {Unused, RootDir}
    BY <1>2, <1>3 DEF LoadSuper, CrashInv, StepsTyped, TypeOK
  <2> QED
    BY <1>1, <2>1, EmptyIsSafe
<1>4. ASSUME NEW ok \in BOOLEAN, LoadTable(ok) PROVE SectorsSafe'
  <2>1. pc' # "data" /\ bitmap' = dsuper.bits
        /\ \A i \in Slots : table'[i] \in {Unused, dtable[i]}
    BY <1>2, <1>4 DEF LoadTable
  <2> QED
    BY <1>1, <2>1, PartOfASafeDisk
<1>5. ASSUME PowerLoss PROVE SectorsSafe'
  <2>1. pc' # "data" /\ \A i \in Slots : table'[i] = Unused
    BY <1>5 DEF PowerLoss
  <2> QED
    BY <1>1, <2>1, EmptyIsSafe
<1>6. ASSUME UNCHANGED <<pc, table, bitmap>> PROVE SectorsSafe'
  BY <1>1, <1>2, <1>6, EmptyIsSafe, PartOfASafeDisk
<1>7. ASSUME Operation PROVE FALSE
  BY <1>7, OperationsStartIdle
<1>8. ASSUME WriteData \/ SaveSector(TRUE) PROVE FALSE
  BY <1>8 DEF WriteData, SaveSector
<1> QED
  BY <1>3, <1>4, <1>5, <1>6, <1>7, <1>8 DEF CrashNext, DiskWorks, ReadErrors, vars

(* fs_disk.c:186-221: whatever sectors a boot can or cannot read, what it
   loads from a safe disk is safe to go on with, and so is every state on
   the way. *)
THEOREM BootStaysSafe == CrashSpec => BootIsSafe
<1>1. CrashInv /\ [CrashNext]_vars =>
        [(pc \in {"loadsuper", "loadtable"} /\ DiskSafe) => SectorsSafe']_vars
  BY BootStepIsSafe
<1> QED
  BY <1>1, CrashInvariant, PTL DEF CrashSpec, BootIsSafe

-------------------------------------------------------------------------------
(* As long as nothing was asked of the drive no file on the disk changes,
   unless a sector could not be read. *)
LEMMA UnaskedStepKeepsFiles ==
  ASSUME CrashInv, [CrashNext]_vars, op.kind = "none", ~iofail
  PROVE  FilesStay
<1>1. ASSUME SaveSector(TRUE) PROVE FilesStay
  BY <1>1, SaveSectorSteps DEF CrashInv, BootReady, FilesStay
<1>2. ASSUME ~SaveSector(TRUE) PROVE FilesStay
  <2>1. dtable' = dtable
    BY <1>2, OnlySavingChangesTheDisk
  <2>2. ddata' = ddata
    <3>1. ~WriteData
      BY DEF WriteData, CrashInv, StepsTyped
    <3>2. ASSUME Operation PROVE ddata' = ddata
      BY <3>2, OperationsStartIdle DEF disk
    <3> QED
      BY <1>2, <3>1, <3>2 DEF CrashNext, DiskWorks, ReadErrors, LoadSuper, LoadTable,
                              PowerLoss, disk, vars
  <2> QED
    BY <2>1, <2>2 DEF FilesStay, OnDisk
<1> QED
  BY <1>1, <1>2

(* fs_disk.c:186-221: a boot whose reads succeed saves no table over the
   files of the disk. *)
THEOREM BootsPreserveFiles == CrashSpec => BootPreservesFiles
<1>1. CrashInv /\ [CrashNext]_vars => [op.kind = "none" /\ ~iofail => FilesStay]_vars
  BY UnaskedStepKeepsFiles
<1> QED
  BY <1>1, CrashInvariant, PTL DEF CrashSpec, BootPreservesFiles
===============================================================================
