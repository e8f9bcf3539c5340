-------------------------------- MODULE FsHeap --------------------------------
(***************************************************************************)
(* Drive H:, fs/fs.c, and the shell's file commands on it, over the kernel *)
(* heap of Kmalloc.  An entry points to a region of the heap; fs_read      *)
(* hands that pointer out, not a copy, and fs_write_in frees the old       *)
(* region before it allocates the new one.  Every kmalloc, kfree and byte  *)
(* stored is a step, unguarded: that they are legal is a property.         *)
(*                                                                         *)
(* A block holds one byte (BlockSize = 1), so mem[p + k] is the byte at    *)
(* p + k.  Indices are kept in a uint8_t: Low.                             *)
(***************************************************************************)
EXTENDS Kmalloc, Sequences, SequencesExt, FiniteSets

CONSTANTS MaxEnt,    \* FS_MAX
          IdxMod,    \* values of uint8_t
          DirNames, FileKeys,   \* as in FsDisk
          Texts,     \* what users type: sequences of non-zero bytes
          NewLine, NoName,
          MaxText    \* bound: users append to no longer texts than this

(* fs_valid refuses the empty name, which only the root has. *)
ASSUME FsHeapAssumption ==
  /\ MaxEnt \in Nat \ {0} /\ IdxMod \in Nat \ {0} /\ BlockSize = 1
  /\ {0, NewLine} \in SUBSET Words /\ NewLine # 0
  /\ NoName \notin DirNames /\ \A key \in FileKeys : key[1] # NoName
  /\ \A typed \in Texts : typed \in Seq(Words \ {0}) /\ Len(typed) + 1 \in Sizes
  /\ MaxText \in Nat /\ \A n \in 1 .. MaxText : n + 1 \in Sizes

VARIABLES table,
          cwd,    \* of the terminal on the screen
          away,   \* of the other terminal, as tty_save_shell_state left it
          fpc,    \* where the command is
          cmd,    \* the command in progress
          text,   \* history: what each entry should read as
          stale   \* history: the directory the other terminal is in was deleted

nav      == <<cwd, away, stale>>
fileVars == <<table, nav, fpc, cmd, text>>
allVars  == <<vars, fileVars>>

Root   == 0
Slots  == 0 .. (MaxEnt - 1)
(* An index as cwd and parent keep it. *)
Low(i) == i % IdxMod

Unused  == [type |-> "free", parent |-> Root, name |-> NoName, ext |-> NoName,
            data |-> 0, size |-> 0]
RootDir == [Unused EXCEPT !.type = "dir"]

(* A command in progress.  `key' in `dir' is the file to write, `idx' its
   entry; `text' the bytes, of which `k' are stored, typed (from = 0) or read
   from the heap at `from'; `new' and `buf' the regions allocated on the way;
   `path' the directories fs_delete_recursive is in. *)
NoCmd == [key |-> NoName, dir |-> Root, idx |-> Root, text |-> <<>>, from |-> 0,
          new |-> 0, buf |-> 0, k |-> 0, path |-> <<>>]

-------------------------------------------------------------------------------
(* fs_find, fs_slot: the lowest index, as a set that may be empty. *)
Lowest(S) == {i \in S : \A j \in S : i <= j}
Used(i)   == table[i].type # "free"
(* What is left of an entry that is freed; nobody reads its name. *)
Freed(entry) == [entry EXCEPT !.type = "free", !.name = NoName, !.ext = NoName, !.size = 0]
Found(key, dir) ==
  Lowest({i \in Slots : /\ Used(i)
                        /\ table[i].parent = dir
                        /\ table[i].name = key[1]
                        /\ table[i].type = "file" => table[i].ext = key[2]})
FoundDir(name, dir) == {i \in Found(<<name, NoName>>, dir) : table[i].type = "dir"}
FreeSlot    == Lowest({i \in Slots \ {Root} : ~Used(i)})
Children(d) == {i \in Slots \ {Root} : Used(i) /\ table[i].parent = d}

(* What a reader finds at p: the bytes up to the first zero. *)
TextAt(p) ==
  LET end == CHOOSE b \in p .. NumBlocks :
               /\ b = NumBlocks \/ mem[b] = 0
               /\ \A c \in p .. (b - 1) : mem[c] # 0
  IN  IF p = 0 THEN <<>> ELSE [k \in 1 .. (end - p) |-> mem[p + k - 1]]

(* fs_read: the address itself, 0 when there is no such file. *)
DataOf(key) ==
  LET hit == {table[i].data : i \in {j \in Found(key, cwd) : table[j].type = "file"}}
  IN  IF hit = {} THEN 0 ELSE CHOOSE p \in hit : TRUE

(* fs_init.  Nobody reads what the heap holds at first: zeros. *)
RamInit ==
  /\ Init /\ \A b \in Blocks : mem[b] = 0
  /\ table = [i \in Slots |-> IF i = Root THEN RootDir ELSE Unused]
  /\ cwd = Root /\ away = Root /\ stale = FALSE
  /\ fpc = "prompt" /\ cmd = NoCmd
  /\ text = [i \in Slots |-> <<>>]

-------------------------------------------------------------------------------
(* The heap as a caller sees it: nothing stops it from freeing a region
   twice or from storing anywhere. *)
Free(p) ==
  /\ bitmap' = bitmap \ Extent(p - 1, mem[p - 1])
  /\ live' = [live EXCEPT ![p] = 0]
  /\ UNCHANGED <<mem, ret>>
FreeIfAny(p) == IF p = 0 THEN UNCHANGED vars ELSE Free(p)
Put(b, byte) == mem' = [mem EXCEPT ![b] = byte] /\ UNCHANGED <<bitmap, live, ret>>

Prompt == fpc = "prompt"
Start(where, command) == Prompt /\ fpc' = where /\ cmd' = command
Done == fpc' = "prompt" /\ cmd' = NoCmd
(* fs_write_in returns; append still has its buffer to free. *)
Return == IF cmd.buf = 0 THEN Done ELSE fpc' = "tidy" /\ UNCHANGED cmd

Cd(name) ==
  /\ Prompt
  /\ \E i \in FoundDir(name, cwd) : cwd' = Low(i)
  /\ UNCHANGED <<vars, table, away, stale, fpc, cmd, text>>

CdUp ==
  /\ Prompt /\ cwd # Root
  /\ cwd' = table[cwd].parent
  /\ UNCHANGED <<vars, table, away, stale, fpc, cmd, text>>

(* Alt+Fn: tty_save_shell_state, then tty_restore_shell_state of the other. *)
SwitchTty ==
  /\ Prompt
  /\ cwd' = away /\ away' = cwd
  /\ UNCHANGED <<vars, table, stale, fpc, cmd, text>>

Mkdir(name) ==
  /\ Prompt /\ Found(<<name, NoName>>, cwd) = {}
  /\ \E i \in FreeSlot :
       table' = [table EXCEPT ![i] = [RootDir EXCEPT !.parent = cwd, !.name = name]]
  /\ UNCHANGED <<vars, nav, fpc, cmd, text>>

Rename(key, new) ==
  /\ Prompt /\ Found(new, cwd) = {}
  /\ \E i \in Found(key, cwd) :
       /\ table[i].type = "file"
       /\ table' = [table EXCEPT ![i].name = new[1], ![i].ext = new[2]]
  /\ UNCHANGED <<vars, nav, fpc, cmd, text>>

-------------------------------------------------------------------------------
(* The commands that write: each ends in fs_write_in. *)
Write(key, typed) ==
  /\ Start("open", [NoCmd EXCEPT !.key = key, !.dir = cwd, !.text = typed])
  /\ UNCHANGED <<vars, table, nav, text>>

(* copy, and move: its fs_delete of the source has no code for a file.  The
   bytes are read where the source lies, while the copy is written.  Without
   a destination the copy goes to the root. *)
Copy(key, dest) ==
  /\ Start("open", [NoCmd EXCEPT !.key = key, !.dir = Low(dest),
                                 !.from = DataOf(key), !.text = TextAt(DataOf(key))])
  /\ dest = Root \/ dest \in Lowest({i \in Slots \ {Root} :
                        table[i].type = "dir" /\ table[i].name = table[dest].name})
  /\ UNCHANGED <<vars, table, nav, text>>

(* append: the old text, a line feed unless it is empty, and what was typed
   go to a buffer of the shell's, and from there to the file. *)
AppendTo(key, typed) ==
  /\ typed # <<>>
  /\ LET old == TextAt(DataOf(key))
         all == IF old = <<>> THEN typed ELSE old \o <<NewLine>> \o typed
     IN  /\ Len(all) <= MaxText
         /\ \/ /\ KmallocFound(Len(all) + 1)
               /\ Start("fill", [NoCmd EXCEPT !.key = key, !.dir = cwd, !.text = all,
                                              !.from = ret', !.buf = ret'])
            \/ Prompt /\ KmallocNull(Len(all) + 1) /\ UNCHANGED <<fpc, cmd>>
  /\ UNCHANGED <<table, nav, text>>

Byte(k) == IF k = Len(cmd.text) THEN 0 ELSE cmd.text[k + 1]
Fill ==
  /\ fpc = "fill"
  /\ Put(cmd.buf + cmd.k, Byte(cmd.k))
  /\ IF cmd.k < Len(cmd.text)
       THEN cmd' = [cmd EXCEPT !.k = @ + 1] /\ UNCHANGED fpc
       ELSE cmd' = [cmd EXCEPT !.k = 0] /\ fpc' = "open"
  /\ UNCHANGED <<table, nav, text>>

(* A mistake the properties have to catch: the entry keeps the pointer. *)
Made_KeepsPointer(old) == IF old.type = "free"
               THEN [Unused EXCEPT !.type = "file", !.parent = cmd.dir,
                                   !.name = cmd.key[1], !.ext = cmd.key[2]]
               ELSE [old EXCEPT !.size = 0]

(* fs_write_in up to the kmalloc: find or make the entry, give the old
   contents back. *)
Made(old) == IF old.type = "free"
               THEN [Unused EXCEPT !.type = "file", !.parent = cmd.dir,
                                   !.name = cmd.key[1], !.ext = cmd.key[2]]
               ELSE [old EXCEPT !.data = 0, !.size = 0]

Open ==
  /\ fpc = "open"
  /\ LET hit == Found(cmd.key, cmd.dir)
     IN  \E i \in IF hit = {} THEN FreeSlot ELSE hit :
           /\ FreeIfAny(IF Used(i) THEN table[i].data ELSE 0)
           /\ table' = [table EXCEPT ![i] = Made(@)]
           /\ text' = [text EXCEPT ![i] = <<>>]
           /\ IF cmd.text = <<>> THEN Return
                ELSE cmd' = [cmd EXCEPT !.idx = i] /\ fpc' = "alloc"
  /\ UNCHANGED nav

OpenFails ==
  /\ fpc = "open" /\ Found(cmd.key, cmd.dir) = {} /\ FreeSlot = {}
  /\ Return
  /\ UNCHANGED <<vars, table, nav, text>>

Alloc ==
  /\ fpc = "alloc"
  /\ \/ KmallocFound(Len(cmd.text) + 1) /\ cmd' = [cmd EXCEPT !.new = ret'] /\ fpc' = "bytes"
     \/ KmallocNull(Len(cmd.text) + 1) /\ Return
  /\ UNCHANGED <<table, nav, text>>

(* A mistake the properties have to catch: the loop runs down. *)
PutByte_Downwards ==
  /\ fpc = "bytes" /\ cmd.k < Len(cmd.text)
  /\ LET at == Len(cmd.text) - cmd.k - 1
     IN  Put(cmd.new + at, IF cmd.from = 0 THEN cmd.text[at + 1] ELSE mem[cmd.from + at])
  /\ cmd' = [cmd EXCEPT !.k = @ + 1]
  /\ UNCHANGED <<table, nav, fpc, text>>

(* The copy loop. *)
PutByte ==
  /\ fpc = "bytes" /\ cmd.k < Len(cmd.text)
  /\ Put(cmd.new + cmd.k, IF cmd.from = 0 THEN cmd.text[cmd.k + 1]
                                          ELSE mem[cmd.from + cmd.k])
  /\ cmd' = [cmd EXCEPT !.k = @ + 1]
  /\ UNCHANGED <<table, nav, fpc, text>>

PutEnd ==
  /\ fpc = "bytes" /\ cmd.k = Len(cmd.text)
  /\ Put(cmd.new + cmd.k, 0)
  /\ table' = [table EXCEPT ![cmd.idx].data = cmd.new, ![cmd.idx].size = Len(cmd.text)]
  /\ text' = [text EXCEPT ![cmd.idx] = cmd.text]
  /\ Return
  /\ UNCHANGED nav

(* A mistake the properties have to catch: the buffer is not given back. *)
Tidy_KeepsBuffer ==
  /\ fpc = "tidy"
  /\ Done
  /\ UNCHANGED <<vars, table, nav, text>>

Tidy ==
  /\ fpc = "tidy"
  /\ Free(cmd.buf)
  /\ Done
  /\ UNCHANGED <<table, nav, text>>

-------------------------------------------------------------------------------
(* del of a directory: fs_delete, fs_delete_recursive.  The loop over the
   table always has the lowest entry left in the innermost directory of
   `path' in hand. *)
Del(name) ==
  /\ \E i \in FoundDir(name, cwd) :
       Start("delete", [NoCmd EXCEPT !.idx = i, !.path = <<Low(i)>>])
  /\ UNCHANGED <<vars, table, nav, text>>

Hand == Lowest(Children(Last(cmd.path)))

(* A mistake the properties have to catch: sub-directories are not entered. *)
Enters_Never(i) == FALSE

Enters(i) == table[i].type = "dir" /\ Children(Low(i)) # {}

Enter ==
  /\ fpc = "delete" /\ cmd.path # <<>>
  /\ \E i \in Hand : Enters(i) /\ cmd' = [cmd EXCEPT !.path = @ \o <<Low(i)>>]
  /\ UNCHANGED <<vars, table, nav, fpc, text>>

RemoveEntry ==
  /\ fpc = "delete" /\ cmd.path # <<>>
  /\ \E i \in Hand :
       /\ ~Enters(i)
       /\ FreeIfAny(table[i].data)
       /\ table' = [table EXCEPT ![i] = [Freed(@) EXCEPT !.data = 0]]
       /\ stale' = (stale \/ i = away)
  /\ UNCHANGED <<cwd, away, fpc, cmd, text>>
Leave ==
  /\ fpc = "delete" /\ cmd.path # <<>> /\ Hand = {}
  /\ cmd' = [cmd EXCEPT !.path = Front(@)]
  /\ UNCHANGED <<vars, table, nav, fpc, text>>

RemoveDir ==
  /\ fpc = "delete" /\ cmd.path = <<>>
  /\ cwd' = IF cwd = Low(cmd.idx) THEN table[cmd.idx].parent ELSE cwd
  /\ table' = [table EXCEPT ![cmd.idx] = Freed(@)]
  /\ stale' = (stale \/ cmd.idx = away)
  /\ Done
  /\ UNCHANGED <<vars, away, text>>

(* fs_format: whatever an entry points to is given back, one at a time. *)
Pointing == Lowest({i \in Slots \ {Root} : table[i].data # 0})
Format ==
  /\ Start("format", NoCmd)
  /\ UNCHANGED <<vars, table, nav, text>>
FormatEntry ==
  /\ fpc = "format"
  /\ \E i \in Pointing :
       /\ Free(table[i].data)
       /\ table' = [table EXCEPT ![i] = [Freed(@) EXCEPT !.data = 0]]
  /\ UNCHANGED <<nav, fpc, cmd, text>>
FormatEnd ==
  /\ fpc = "format" /\ Pointing = {}
  /\ table' = [i \in Slots |-> IF i = Root THEN table[i] ELSE Freed(table[i])]
  /\ cwd' = Root /\ stale' = (stale \/ away # Root)
  /\ Done
  /\ UNCHANGED <<vars, away, text>>

-------------------------------------------------------------------------------
Command ==
  \/ \E name \in DirNames : Cd(name) \/ Mkdir(name) \/ Del(name)
  \/ CdUp \/ SwitchTty \/ Format
  \/ \E key \in FileKeys :
       \/ \E typed \in Texts : Write(key, typed) \/ AppendTo(key, typed)
       \/ \E dest \in Slots : Copy(key, dest)
       \/ \E new \in FileKeys : Rename(key, new)

Step ==
  \/ Fill \/ Open \/ OpenFails \/ Alloc \/ PutByte \/ PutEnd \/ Tidy
  \/ Enter \/ RemoveEntry \/ Leave \/ RemoveDir
  \/ FormatEntry \/ FormatEnd

RamNext == Command \/ Step
RamSpec == RamInit /\ [][RamNext]_allVars
-------------------------------------------------------------------------------
RamTypeOK ==
  /\ TypeOK
  /\ table \in [Slots -> [type : {"free", "file", "dir"}, parent : 0 .. (IdxMod - 1),
                          name : DirNames \cup {k[1] : k \in FileKeys} \cup {NoName},
                          ext : {k[2] : k \in FileKeys} \cup {NoName},
                          data : {0} \cup Ptrs, size : Nat]]
  /\ {cwd, away} \in SUBSET (0 .. (IdxMod - 1)) /\ stale \in BOOLEAN
  /\ fpc \in {"prompt", "fill", "open", "alloc", "bytes", "tidy", "delete", "format"}

(* fs.c and the shell use the heap as kmalloc.c needs it used: no region is
   freed twice, nothing is freed or written that is not theirs, although a
   command holds addresses that fs_write_in frees under it (fs/fs.c:197,
   shell/shell.c:745, 701). *)
CallersKeepContract == Spec

(* Between two commands the regions in use are those the table points to,
   each by one entry: no command loses a region or leaves a pointer to a
   freed one (fs/fs.c:197, 229, 259; shell/shell.c:713). *)
NoLeakNoDangling ==
  Prompt => /\ Live = {table[i].data : i \in Slots} \ {0}
            /\ \A i, j \in Slots : i # j /\ table[i].data # 0
                                     => table[i].data # table[j].data

(* Between two commands every file reads as what was last written to it, also
   when it was copied onto itself, from a region fs_write_in had freed, or
   appended to (fs/fs.c:197-205, shell/shell.c:771). *)
FilesKeepText ==
  Prompt => \A i \in Slots : table[i].type = "file" =>
              TextAt(table[i].data) = text[i] /\ table[i].size = Len(text[i])

(* Between two commands every entry hangs in the tree and the shell is in a
   directory of it: deleting one takes all that is below it along
   (fs/fs.c:223).  Unless the other terminal was in it. *)
TreeIntact ==
  /\ RamTypeOK
  /\ Prompt /\ ~stale =>
       /\ \A i \in Slots : Used(i) => table[table[i].parent].type = "dir"
       /\ \A d \in {cwd, away} : table[d].type = "dir"
===============================================================================
