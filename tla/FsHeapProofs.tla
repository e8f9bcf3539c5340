----------------------------- MODULE FsHeapProofs -----------------------------
(***************************************************************************)
(* Drive H:, for every size of the heap and of the table and every set of  *)
(* names and texts: its commands use the heap as kmalloc.c needs it used,  *)
(* every file reads as it was last written, no command loses a region if   *)
(* no directory has the name of a file, and every entry hangs in the tree  *)
(* as long as no entry is used whose index does not fit in a uint8_t.      *)
(***************************************************************************)
EXTENDS FsHeap, KmallocProofs, WellFoundedInduction

LEMMA LeastNat ==
  ASSUME NEW T, T \subseteq Nat, T # {}
  PROVE  \E x \in T : \A y \in T : x <= y
<1> DEFINE R == {ss \in Nat \X Nat : ss[1] < ss[2]}
<1>1. IsWellFoundedOn(R, Nat)
  BY NatLessThanWellFounded, Zenon DEF OpToRel
<1>2. \A x, y \in Nat : <<y, x>> \in R <=> y < x
  OBVIOUS
<1> HIDE DEF R
<1>3. \E x \in T : \A y \in T : ~ (<<y, x>> \in R)
  BY <1>1, WFMin
<1>4. PICK x \in T : \A y \in T : ~ (<<y, x>> \in R)
  BY <1>3
<1>5. \A y \in T : ~ (y < x)
  BY <1>2, <1>4
<1>6. \A y \in T : x <= y
  <2> TAKE y \in T
  <2>1. x \in Nat /\ y \in Nat /\ ~ (y < x)
    BY <1>5
  <2> QED
    BY <2>1
<1> QED
  BY <1>6

-------------------------------------------------------------------------------
(* The heap with blocks of a byte. *)

LEMMA ByteBlocks ==
  ASSUME NEW size \in Nat
  PROVE  DataBlocks(size) = size /\ Total(size) = size + 1
<1>1. BlockSize = 1
  BY FsHeapAssumption
<1>2. (size + 1 - 1) \div 1 = size
  BY SMT
<1> QED
  BY <1>1, <1>2 DEF DataBlocks, Total

(* Where a live region and its header lie. *)
LEMMA RegionIs ==
  ASSUME HeapInv, NEW p \in Live
  PROVE  /\ p \in Ptrs /\ p \in Nat /\ p > 0 /\ p < NumBlocks /\ NumBlocks \in Nat
         /\ live[p] \in Nat /\ live[p] > 0
         /\ Extent(p - 1, live[p] + 1) \subseteq bitmap
         /\ Extent(p, live[p]) \subseteq Extent(p - 1, live[p] + 1)
         /\ Extent(p, live[p]) \subseteq Blocks /\ p + live[p] <= NumBlocks
         /\ Whole(p) = Extent(p - 1, live[p] + 1)
<1>1. p \in Ptrs /\ p \in Nat /\ p > 0 /\ p < NumBlocks /\ NumBlocks \in Nat
      /\ live[p] \in Nat /\ live[p] > 0
  BY KmallocAssumption DEF HeapInv, TypeOK, Live, Ptrs
<1>2. Whole(p) = Extent(p - 1, live[p] + 1)
  BY <1>1, ByteBlocks DEF Whole
<1>3. Whole(p) \subseteq bitmap /\ Whole(p) \subseteq Blocks
  BY <1>1 DEF HeapInv, BitmapIsLiveRegions, WholesDisjoint
<1>4. Extent(p, live[p]) \subseteq Extent(p - 1, live[p] + 1)
  BY <1>1 DEF Extent
<1>5. p + live[p] - 1 \in Extent(p, live[p])
  BY <1>1 DEF Extent
<1>6. p + live[p] - 1 \in Blocks
  BY <1>2, <1>3, <1>4, <1>5
<1>7. p + live[p] <= NumBlocks
  BY <1>1, <1>6 DEF Blocks
<1> QED
  BY <1>1, <1>2, <1>3, <1>4, <1>7

LEMMA RegionsApart ==
  ASSUME HeapInv, NEW p \in Live, NEW q \in Live, p # q
  PROVE  /\ Extent(p, live[p]) \cap Extent(q, live[q]) = {}
         /\ Extent(p - 1, live[p] + 1) \cap Extent(q - 1, live[q] + 1) = {}
<1>1. Whole(p) \cap Whole(q) = {}
  BY DEF HeapInv, WholesDisjoint
<1> QED
  BY <1>1, RegionIs

(* The same of the next state. *)
LEMMA RegionsApartNext ==
  ASSUME HeapInv', NEW p \in Live', NEW q \in Live', p # q
  PROVE  Extent(p, live'[p]) \cap Extent(q, live'[q]) = {}
<1>1. /\ p \in Ptrs /\ q \in Ptrs /\ Ptrs \subseteq Nat
      /\ live'[p] \in Nat /\ live'[p] > 0 /\ live'[q] \in Nat /\ live'[q] > 0
  BY KmallocAssumption DEF HeapInv, TypeOK, Live, Ptrs
<1>2. Whole(p)' \cap Whole(q)' = {}
  BY DEF HeapInv, WholesDisjoint
<1>3. /\ Whole(p)' = Extent(p - 1, live'[p] + 1) /\ Whole(q)' = Extent(q - 1, live'[q] + 1)
  BY <1>1, ByteBlocks DEF Whole
<1>4. ASSUME NEW x \in Nat, NEW n \in Nat, x > 0
      PROVE  Extent(x, n) \subseteq Extent(x - 1, n + 1)
  BY <1>4 DEF Extent
<1>5. p \in Nat /\ q \in Nat /\ p > 0 /\ q > 0
  BY <1>1, KmallocAssumption DEF Ptrs
<1>6. /\ Extent(p, live'[p]) \subseteq Extent(p - 1, live'[p] + 1)
      /\ Extent(q, live'[q]) \subseteq Extent(q - 1, live'[q] + 1)
  BY <1>1, <1>4, <1>5
<1> QED
  BY <1>2, <1>3, <1>6

(* The region at p and what is in it stay as they are. *)
Kept(p) ==
  /\ p \in Live' /\ live'[p] = live[p]
  /\ \A b \in Extent(p, live[p]) : mem'[b] = mem[b]

(* What kmalloc does to the heap of its caller. *)
LEMMA AllocIs ==
  ASSUME HeapInv, NEW size \in Sizes, KmallocFound(size)
  PROVE  /\ HeapInv' /\ ret' \in Ptrs /\ ret' \in Nat /\ ret' \notin Live
         /\ Live' = Live \cup {ret'} /\ live'[ret'] = size
         /\ \A p \in Live : Kept(p)
         /\ ret' - 1 \in FirstFits(bitmap, NumBlocks, size + 1)
         /\ \A b \in Blocks : b # ret' - 1 => mem'[b] = mem[b]
<1>0. HeapInv'
  BY KmallocFoundKeeps
<1>1. size \in Nat /\ size > 0 /\ size + 1 > 1 /\ Total(size) = size + 1
  BY KmallocAssumption, ByteBlocks DEF KmallocFound
<1>2. PICK first \in FirstFits(bitmap, NumBlocks, size + 1) :
        /\ mem' = [mem EXCEPT ![first] = size + 1]
        /\ live' = [live EXCEPT ![first + 1] = size]
        /\ ret' = first + 1
  BY <1>1 DEF KmallocFound
<1>3. /\ first \in 0 .. (NumBlocks - 2)
      /\ Extent(first, size + 1) \cap bitmap = {} /\ first \in Extent(first, size + 1)
  BY <1>1, <1>2, FirstFitIsFree DEF Extent
<1>4. first \in Nat /\ first \in Blocks /\ first + 1 \in Ptrs /\ first \notin bitmap
      /\ ret' - 1 = first
  BY <1>2, <1>3, KmallocAssumption DEF Blocks, Ptrs
<1>5. first + 1 \notin Live
  <2> SUFFICES ASSUME first + 1 \in Live PROVE FALSE
    OBVIOUS
  <2>1. (first + 1) - 1 \in Extent((first + 1) - 1, live[first + 1] + 1)
        /\ (first + 1) - 1 = first
    BY <1>4, RegionIs DEF Extent
  <2> QED
    BY <1>4, <2>1, RegionIs
<1>6. live \in [Ptrs -> Nat] /\ mem \in [Blocks -> Nat]
  BY DEF HeapInv, TypeOK
<1>7. live'[first + 1] = size /\ \A p \in Ptrs \ {first + 1} : live'[p] = live[p]
  BY <1>2, <1>4, <1>6
<1>8. Live' = Live \cup {first + 1}
  BY <1>1, <1>4, <1>7 DEF Live
<1>9. \A b \in Blocks : b # first => mem'[b] = mem[b]
  BY <1>2, <1>6
<1>10. ASSUME NEW p \in Live PROVE Kept(p)
  <2>1. p \in Ptrs /\ Extent(p, live[p]) \subseteq Blocks /\ Extent(p, live[p]) \subseteq bitmap
    BY RegionIs
  <2>2. live'[p] = live[p] /\ p \in Live'
    BY <1>5, <1>7, <1>8, <2>1
  <2> QED
    BY <1>4, <1>9, <2>1, <2>2 DEF Kept
<1> QED
  BY <1>0, <1>2, <1>4, <1>5, <1>7, <1>8, <1>9, <1>10

(* What giving a region back does; that it is one is a step of the allocator. *)
LEMMA FreeIs ==
  ASSUME HeapInv, NEW p \in Live, Free(p)
  PROVE  /\ Next /\ HeapInv' /\ mem' = mem
         /\ Live' = Live \ {p}
         /\ \A q \in Live \ {p} : Kept(q)
         /\ Extent(p - 1, live[p] + 1) \cap bitmap' = {}
<1>1. p \in Ptrs /\ live[p] > 0 /\ live \in [Ptrs -> Nat]
  BY DEF Live, HeapInv, TypeOK
<1>2. Kfree(p)
  BY <1>1 DEF Free, Kfree
<1>3. HeapInv' /\ Next
  BY <1>1, <1>2, KfreeKeeps DEF Next
<1>4. mem' = mem /\ live' = [live EXCEPT ![p] = 0] /\ bitmap' = bitmap \ Extent(p - 1, mem[p - 1])
  BY DEF Free
<1>5. mem[p - 1] = live[p] + 1
  BY <1>1, ByteBlocks DEF HeapInv, HeadersIntact
<1>6. Live' = Live \ {p}
  BY <1>1, <1>4 DEF Live
<1>7. \A q \in Live \ {p} : Kept(q)
  BY <1>1, <1>4, <1>6 DEF Kept, Live
<1> QED
  BY <1>3, <1>4, <1>5, <1>6, <1>7

(* A byte stored in a region disturbs no other. *)
LEMMA PutIs ==
  ASSUME HeapInv, NEW p \in Live, NEW k \in Nat, k < live[p], NEW w \in Words, Put(p + k, w)
  PROVE  /\ Next /\ HeapInv' /\ Live' = Live /\ live' = live /\ mem'[p + k] = w
         /\ \A q \in Live \ {p} : Kept(q)
         /\ \A b \in Blocks \ {p + k} : mem'[b] = mem[b]
<1>1. p \in Ptrs /\ p \in Nat /\ live[p] \in Nat /\ live[p] > 0 /\ Extent(p, live[p]) \subseteq Blocks
  BY RegionIs
<1>2. p + k \in Extent(p, live[p]) /\ p + k \in Blocks
  BY <1>1 DEF Extent
<1>3. Store(p, p + k, w)
  BY <1>1, <1>2, ByteBlocks DEF Put, Store
<1>4. HeapInv' /\ Next
  BY <1>1, <1>2, <1>3, StoreKeeps DEF Next
<1>5. mem' = [mem EXCEPT ![p + k] = w] /\ live' = live /\ mem \in [Blocks -> Nat]
  BY DEF Put, HeapInv, TypeOK
<1>6. Live' = Live
  BY <1>5 DEF Live
<1>7. ASSUME NEW q \in Live \ {p} PROVE Kept(q)
  <2>1. Extent(q, live[q]) \subseteq Blocks /\ Extent(p, live[p]) \cap Extent(q, live[q]) = {}
    BY RegionIs, RegionsApart
  <2> QED
    BY <1>2, <1>5, <1>6, <2>1 DEF Kept
<1> QED
  BY <1>2, <1>4, <1>5, <1>6, <1>7

(* A kmalloc that fails. *)
LEMMA NullIs ==
  ASSUME HeapInv, NEW size \in Sizes, KmallocNull(size)
  PROVE  Next /\ HeapInv' /\ Live' = Live /\ \A p \in Live : Kept(p)
<1>1. HeapInv'
  BY UnchangedKeeps DEF KmallocNull
<1>2. UNCHANGED <<mem, live>> /\ Next
  BY DEF KmallocNull, Next
<1> QED
  BY <1>1, <1>2 DEF Kept, Live

LEMMA HeapStays ==
  ASSUME HeapInv, UNCHANGED vars
  PROVE  HeapInv' /\ Live' = Live /\ \A p \in Live : Kept(p)
BY NextKeepsHeapInv DEF vars, Kept, Live

-------------------------------------------------------------------------------
(* What stands in the heap. *)

TextSet == {t \in Seq(Words \ {0}) : t # <<>> => Len(t) + 1 \in Sizes}

(* The text t stands at p, with the zero that ends it. *)
Holds(p, t) ==
  /\ p \in Ptrs /\ p + Len(t) \in Blocks
  /\ \A m \in 1 .. Len(t) : mem[p + m - 1] = t[m]
  /\ mem[p + Len(t)] = 0

(* The region at p was asked for t. *)
Sized(p, t) == p \in Live /\ live[p] = Len(t) + 1

(* What an index can be where it is kept. *)
Indices == {d \in Slots : d < IdxMod}

Entries == [type : {"free", "file", "dir"}, parent : Indices,
            name : DirNames \cup {k[1] : k \in FileKeys} \cup {NoName},
            ext : {k[2] : k \in FileKeys} \cup {NoName},
            data : {0} \cup Ptrs, size : Nat]

Commands == [key : FileKeys \cup {NoName}, dir : Indices, idx : Slots, text : TextSet,
             from : {0} \cup Ptrs, new : {0} \cup Ptrs, buf : {0} \cup Ptrs,
             k : Nat, path : Seq(Slots)]

Places == {"prompt", "fill", "open", "alloc", "bytes", "tidy", "delete", "format"}

Shape ==
  /\ table \in [Slots -> Entries] /\ text \in [Slots -> TextSet]
  /\ cwd \in Indices /\ away \in Indices /\ stale \in BOOLEAN
  /\ fpc \in Places /\ cmd \in Commands

EntryOK(j) ==
  /\ table[j].data # 0 => Sized(table[j].data, text[j]) /\ Holds(table[j].data, text[j])
  /\ table[j].type = "file" =>
       table[j].size = Len(text[j]) /\ (table[j].data = 0 => text[j] = <<>>)

(* No entry points to p. *)
Unshared(p) == \A j \in Slots : table[j].data # p

EntriesOK ==
  /\ \A j \in Slots : EntryOK(j)
  /\ \A j, h \in Slots : j # h /\ table[j].data # 0 => table[j].data # table[h].data

(* append's buffer. *)
BufferOK ==
  /\ cmd.buf # 0 => Sized(cmd.buf, cmd.text) /\ Unshared(cmd.buf)
  /\ fpc \in {"prompt", "delete", "format"} => cmd.buf = 0
  /\ fpc \in {"fill", "tidy"} => cmd.buf # 0

(* The first k bytes from p on are those of t. *)
Begun(p, t, k) == \A m \in 1 .. k : mem[p + m - 1] = t[m]
Rest(p, t, k)  == \A m \in k + 1 .. Len(t) : mem[p + m - 1] = t[m]

FillOK ==
  fpc = "fill" => cmd.k <= Len(cmd.text) /\ cmd.from = cmd.buf /\ cmd.key \in FileKeys
                  /\ Begun(cmd.buf, cmd.text, cmd.k)

(* What is to be written lies in append's buffer or is an entry's text. *)
OpenOK ==
  fpc = "open" =>
    /\ cmd.k = 0 /\ cmd.key \in FileKeys
    /\ cmd.from # 0 => \/ cmd.from = cmd.buf /\ Holds(cmd.from, cmd.text)
                       \/ \E j \in Slots : table[j].data = cmd.from /\ text[j] = cmd.text

(* The entry waits for its text. *)
Waits == cmd.text # <<>> /\ table[cmd.idx].data = 0 /\ text[cmd.idx] = <<>>

(* The region the bytes come from, with its header, was given back. *)
Gap == Extent(cmd.from - 1, Len(cmd.text) + 2) \cap bitmap = {}

AllocOK ==
  fpc = "alloc" =>
    /\ Waits /\ cmd.k = 0
    /\ cmd.from # 0 => Holds(cmd.from, cmd.text) /\ (Sized(cmd.from, cmd.text) \/ Gap)

(* The bytes not yet copied are where they were: what is written lies below
   them, or elsewhere. *)
Ahead ==
  /\ cmd.from + Len(cmd.text) \in Blocks
  /\ \/ cmd.new <= cmd.from
     \/ Extent(cmd.new, Len(cmd.text) + 1) \cap Extent(cmd.from, Len(cmd.text) + 1) = {}
  /\ Rest(cmd.from, cmd.text, cmd.k)

BytesOK ==
  fpc = "bytes" =>
    /\ Waits /\ cmd.k <= Len(cmd.text)
    /\ Sized(cmd.new, cmd.text) /\ Unshared(cmd.new) /\ cmd.new # cmd.buf
    /\ Begun(cmd.new, cmd.text, cmd.k)
    /\ cmd.from # 0 => Ahead

RamInv ==
  /\ HeapInv /\ Shape /\ EntriesOK
  /\ BufferOK /\ FillOK /\ OpenOK /\ AllocOK /\ BytesOK

(* No directory shares its name with a file. *)
NamesApart == \A name \in DirNames : \A key \in FileKeys : key[1] # name

(* What is in use, and by whom. *)
Owned == ({table[j].data : j \in Slots} \cup {cmd.buf}
           \cup (IF fpc = "bytes" THEN {cmd.new} ELSE {})) \ {0}

(* Only files have a region. *)
KindsOK ==
  /\ \A j \in Slots : table[j].type # "file" => table[j].data = 0
  /\ \A j \in Slots : table[j].type = "dir" => table[j].name \in DirNames \cup {NoName}
  /\ fpc \in {"alloc", "bytes"} => table[cmd.idx].type = "file"
  /\ fpc = "delete" => table[cmd.idx].type # "file"

OwnersInv == Live = Owned /\ KindsOK

(* No entry is used whose index is cut. *)
IndicesFit == \A j \in Slots : Used(j) => j < IdxMod

IsDir(d) == table[d].type = "dir"

(* Each directory that fs_delete_recursive is in lies in the one before. *)
Chain ==
  LET path == cmd.path IN
  /\ IsDir(cmd.idx) /\ table[cmd.idx].parent = cwd
  /\ path = <<>> => Children(cmd.idx) = {}
  /\ path # <<>> => path[1] = cmd.idx
  /\ \A m \in 1 .. Len(path) : IsDir(path[m])
  /\ \A m \in 2 .. Len(path) : path[m] \in Children(path[m - 1])

TreeInv ==
  /\ table[Root].type = "dir" /\ table[Root].parent = Root /\ table[Root].name = NoName
  /\ fpc = "delete" => cmd.idx # Root
  /\ ~stale =>
       /\ fpc # "format" => \A j \in Slots : Used(j) => IsDir(table[j].parent)
       /\ fpc # "format" => IsDir(cwd) /\ IsDir(away)
       /\ fpc = "delete" => Chain
       /\ fpc \in {"fill", "open"} => IsDir(cmd.dir)

-------------------------------------------------------------------------------
(* Shapes. *)

LEMMA Sizes0 ==
  /\ MaxEnt \in Nat /\ MaxEnt > 0 /\ IdxMod \in Nat /\ IdxMod > 0
  /\ Root = 0 /\ Root \in Slots /\ Slots = 0 .. MaxEnt - 1 /\ Slots \subseteq Nat
  /\ Root \in Indices /\ Indices \subseteq Slots
BY FsHeapAssumption DEF Slots, Root, Indices

LEMMA LowIs ==
  ASSUME NEW j \in Nat
  PROVE  /\ Low(j) \in Nat /\ Low(j) < IdxMod /\ Low(j) <= j
         /\ j < IdxMod => Low(j) = j
<1>1. ASSUME NEW m \in Nat, m > 0
      PROVE  /\ j % m \in 0 .. m - 1 /\ j % m <= j
             /\ j < m => j % m = j
  BY <1>1, Z3
<1> QED
  BY <1>1, Sizes0 DEF Low

LEMMA LowSlot ==
  ASSUME NEW j \in Slots
  PROVE  Low(j) \in Indices
BY LowIs, Sizes0 DEF Indices

LEMMA NothingTyped == <<>> \in TextSet /\ Len(<<>>) = 0
BY DEF TextSet

LEMMA TextIs ==
  ASSUME NEW t \in TextSet
  PROVE  /\ t \in Seq(Words \ {0}) /\ Len(t) \in Nat
         /\ \A m \in 1 .. Len(t) : t[m] \in Words /\ t[m] # 0 /\ t[m] \in Nat
         /\ t # <<>> => Len(t) > 0 /\ Len(t) + 1 \in Sizes
<1>1. t \in Seq(Words \ {0}) /\ (t # <<>> => Len(t) + 1 \in Sizes)
  BY DEF TextSet
<1>2. Words \subseteq Nat
  BY KmallocAssumption
<1>3. PICK S : S = Words \ {0}
  OBVIOUS
<1>4. t \in Seq(S)
  BY <1>1, <1>3
<1>5. Len(t) \in Nat /\ (t # <<>> => Len(t) > 0) /\ \A m \in 1 .. Len(t) : t[m] \in S
  BY <1>4
<1> QED
  BY <1>1, <1>2, <1>3, <1>5

LEMMA NoCmdIs ==
  /\ NoCmd \in Commands
  /\ NoCmd.buf = 0 /\ NoCmd.from = 0 /\ NoCmd.k = 0 /\ NoCmd.new = 0 /\ NoCmd.text = <<>>
  /\ NoCmd.path = <<>>
BY NothingTyped, Sizes0 DEF NoCmd, Commands

LEMMA FreedTyped ==
  ASSUME NEW e \in Entries
  PROVE  /\ Freed(e) \in Entries /\ Freed(e).type = "free" /\ Freed(e).data = e.data
         /\ [Freed(e) EXCEPT !.data = 0] \in Entries
         /\ [Freed(e) EXCEPT !.data = 0].type = "free" /\ [Freed(e) EXCEPT !.data = 0].data = 0
         /\ Freed(e).parent = e.parent
BY DEF Freed, Entries

(* A reader finds the text that stands at p. *)
LEMMA HoldsReads ==
  ASSUME HeapInv, NEW t \in TextSet, NEW p, Holds(p, t)
  PROVE  TextAt(p) = t
<1>1. /\ t \in Seq(Words \ {0}) /\ Len(t) \in Nat
      /\ \A m \in 1 .. Len(t) : t[m] # 0
  BY TextIs
<1>2. p \in Nat /\ p # 0 /\ NumBlocks \in Nat /\ p + Len(t) < NumBlocks
      /\ mem[p + Len(t)] = 0 /\ \A m \in 1 .. Len(t) : mem[p + m - 1] = t[m]
  BY <1>1, KmallocAssumption DEF Holds, Ptrs, Blocks
<1> DEFINE Ends(b) == /\ b = NumBlocks \/ mem[b] = 0
                      /\ \A c \in p .. (b - 1) : mem[c] # 0
           end == CHOOSE b \in p .. NumBlocks : Ends(b)
<1>3. ASSUME NEW c \in p .. (p + Len(t) - 1) PROVE mem[c] # 0
  <2>1. c - p + 1 \in 1 .. Len(t) /\ p + (c - p + 1) - 1 = c
    BY <1>1, <1>2
  <2> QED
    BY <1>1, <1>2, <2>1
<1>4. p + Len(t) \in p .. NumBlocks /\ Ends(p + Len(t))
  BY <1>1, <1>2, <1>3
<1>5. ASSUME NEW b \in p .. NumBlocks, Ends(b) PROVE b = p + Len(t)
  <2>1. CASE b < p + Len(t)
    <3>1. b \in p .. (p + Len(t) - 1) /\ b # NumBlocks
      BY <1>1, <1>2, <2>1
    <3> QED
      BY <1>3, <1>5, <3>1
  <2>2. CASE b > p + Len(t)
    <3>1. p + Len(t) \in p .. (b - 1)
      BY <1>1, <1>2, <2>2
    <3> QED
      BY <1>2, <1>5, <3>1
  <2> QED
    BY <1>1, <1>2, <2>1, <2>2
<1> HIDE DEF Ends
<1>6. end = p + Len(t)
  BY <1>4, <1>5
<1> HIDE DEF end
<1>7. TextAt(p) = [k \in 1 .. (end - p) |-> mem[p + k - 1]]
  BY <1>2 DEF TextAt, Ends, end
<1>8. end - p = Len(t)
  BY <1>1, <1>2, <1>6
<1>9. t = [k \in 1 .. Len(t) |-> t[k]]
  BY <1>1
<1> QED
  BY <1>2, <1>7, <1>8, <1>9

LEMMA NothingReads == TextAt(0) = <<>>
BY DEF TextAt

-------------------------------------------------------------------------------
(* The entries under a step. *)

(* Entry j goes on with its region and its text; at most it is freed. *)
Carries(j) ==
  /\ table'[j].data = table[j].data /\ text'[j] = text[j]
  /\ table'[j].type = "file" => table[j].type = "file" /\ table'[j].size = table[j].size
  /\ table[j].data # 0 => Kept(table[j].data)

LEMMA KeptHolds ==
  ASSUME HeapInv, NEW t \in TextSet, NEW p, Sized(p, t), Kept(p)
  PROVE  /\ Sized(p, t)'
         /\ Holds(p, t) => Holds(p, t)'
         /\ \A k \in 0 .. Len(t) : Begun(p, t, k) => Begun(p, t, k)'
<1>1. p \in Nat /\ Len(t) \in Nat /\ p \in Live /\ live[p] = Len(t) + 1
  BY RegionIs, TextIs DEF Sized
<1>2. Sized(p, t)'
  BY <1>1 DEF Sized, Kept
<1>3. \A m \in 1 .. Len(t) + 1 : mem'[p + m - 1] = mem[p + m - 1]
  <2> TAKE m \in 1 .. Len(t) + 1
  <2>1. p + m - 1 \in Extent(p, live[p])
    BY <1>1 DEF Extent
  <2> QED
    BY <2>1 DEF Kept
<1>4. p + (Len(t) + 1) - 1 = p + Len(t) /\ Len(t) + 1 \in 1 .. Len(t) + 1
  BY <1>1
<1>5. mem'[p + Len(t)] = mem[p + Len(t)]
  BY <1>3, <1>4
<1> QED
  BY <1>1, <1>2, <1>3, <1>5 DEF Holds, Begun

LEMMA EntryStays ==
  ASSUME HeapInv, Shape, NEW j \in Slots, EntryOK(j), Carries(j)
  PROVE  EntryOK(j)'
<1>1. text[j] \in TextSet
  BY DEF Shape
<1>2. CASE table[j].data = 0
  BY <1>2 DEF EntryOK, Carries
<1>3. CASE table[j].data # 0
  <2>1. PICK p : p = table[j].data
    OBVIOUS
  <2>2. Sized(p, text[j]) /\ Holds(p, text[j]) /\ Kept(p)
    BY <1>3, <2>1 DEF EntryOK, Carries
  <2>3. PICK t : t = text[j]
    OBVIOUS
  <2>4. Sized(p, t)' /\ Holds(p, t)'
    BY <1>1, <2>2, <2>3, KeptHolds
  <2>5. table'[j].data = p /\ text'[j] = t
    BY <2>1, <2>3 DEF Carries
  <2>6. Sized(p, text[j])' /\ Holds(p, text[j])'
    BY <2>4, <2>5 DEF Sized, Holds
  <2> QED
    BY <1>3, <2>1, <2>3, <2>5, <2>6 DEF EntryOK, Carries
<1> QED
  BY <1>2, <1>3

LEMMA EntriesStay ==
  ASSUME HeapInv, Shape, EntriesOK, \A j \in Slots : Carries(j)
  PROVE  EntriesOK'
<1>1. \A j \in Slots : EntryOK(j)'
  BY EntryStays DEF EntriesOK
<1>2. \A j, h \in Slots : j # h /\ table'[j].data # 0 => table'[j].data # table'[h].data
  BY DEF EntriesOK, Carries
<1> QED
  BY <1>1, <1>2 DEF EntriesOK

(* One entry changes. *)
LEMMA EntriesChange ==
  ASSUME HeapInv, Shape, EntriesOK, NEW e \in Slots, \A j \in Slots \ {e} : Carries(j),
         EntryOK(e)', table'[e].data # 0 => \A j \in Slots \ {e} : table[j].data # table'[e].data
  PROVE  EntriesOK'
<1>1. \A j \in Slots : EntryOK(j)'
  BY EntryStays DEF EntriesOK
<1>2. \A j, h \in Slots : j # h /\ table'[j].data # 0 => table'[j].data # table'[h].data
  BY DEF EntriesOK, Carries
<1> QED
  BY <1>1, <1>2 DEF EntriesOK

-------------------------------------------------------------------------------
(* Steps that leave heap and entries alone. *)

WritingOK == BufferOK /\ FillOK /\ OpenOK /\ AllocOK /\ BytesOK

(* No write is in progress. *)
LEMMA AtRest ==
  ASSUME fpc' \in {"prompt", "delete", "format"}, cmd'.buf = 0
  PROVE  WritingOK'
BY DEF WritingOK, BufferOK, FillOK, OpenOK, AllocOK, BytesOK

LEMMA Quiet ==
  ASSUME RamInv, UNCHANGED <<vars, table, text>>
  PROVE  HeapInv' /\ EntriesOK' /\ [Next]_vars /\ \A p \in Live : Kept(p)
<1>1. HeapInv /\ Shape /\ EntriesOK
  BY DEF RamInv
<1>2. HeapInv' /\ \A p \in Live : Kept(p)
  BY <1>1, HeapStays
<1>3. \A j \in Slots : Carries(j)
  BY <1>1, <1>2 DEF Carries, EntriesOK, EntryOK, Sized
<1> QED
  BY <1>1, <1>2, <1>3, EntriesStay

LEMMA NavigationKeeps ==
  ASSUME RamInv, CdUp \/ SwitchTty \/ \E name \in DirNames : Cd(name)
  PROVE  RamInv' /\ [Next]_vars
<1>1. /\ UNCHANGED <<vars, table, fpc, cmd, text, stale>> /\ fpc = "prompt"
      /\ (cwd' = cwd \/ cwd' = table[cwd].parent \/ cwd' = away \/ \E j \in Slots : cwd' = Low(j))
      /\ (away' = away \/ away' = cwd)
  BY DEF CdUp, SwitchTty, Cd, Prompt, FoundDir, Found, Lowest
<1>2. HeapInv' /\ EntriesOK' /\ [Next]_vars
  BY <1>1, Quiet
<1>3. Shape /\ BufferOK
  BY DEF RamInv
<1>4. table[cwd].parent \in Indices
  BY <1>3, Sizes0 DEF Shape, Entries
<1>5. Shape'
  BY <1>1, <1>3, <1>4, LowSlot, Sizes0 DEF Shape
<1>6. WritingOK'
  BY <1>1, <1>3, AtRest DEF BufferOK
<1> QED
  BY <1>2, <1>5, <1>6 DEF RamInv, WritingOK

(* What fs_read hands out is the text of an entry. *)
LEMMA DataOfIs ==
  ASSUME HeapInv, Shape, EntriesOK, NEW key
  PROVE  /\ DataOf(key) \in {0} \cup Ptrs /\ TextAt(DataOf(key)) \in TextSet
         /\ DataOf(key) # 0 => \E j \in Slots : /\ table[j].data = DataOf(key)
                                                /\ text[j] = TextAt(DataOf(key))
<1> DEFINE hit == {table[j].data : j \in {h \in Found(key, cwd) : table[h].type = "file"}}
<1>1. hit \subseteq {table[j].data : j \in Slots}
  BY DEF Found, Lowest
<1>2. DataOf(key) = IF hit = {} THEN 0 ELSE CHOOSE p \in hit : TRUE
  BY DEF DataOf
<1> HIDE DEF hit
<1>3. DataOf(key) = 0 \/ \E j \in Slots : table[j].data = DataOf(key)
  BY <1>1, <1>2
<1>4. CASE DataOf(key) = 0
  BY <1>4, NothingReads, NothingTyped
<1>5. CASE DataOf(key) # 0
  <2>1. PICK j \in Slots : table[j].data = DataOf(key)
    BY <1>3, <1>5
  <2>2. PICK q : q = DataOf(key)
    OBVIOUS
  <2>3. Holds(q, text[j]) /\ q \in Ptrs /\ text[j] \in TextSet
    BY <1>5, <2>1, <2>2 DEF EntriesOK, EntryOK, Holds, Shape
  <2>4. TextAt(q) = text[j]
    BY <2>3, HoldsReads
  <2> QED
    BY <2>1, <2>2, <2>3, <2>4
<1> QED
  BY <1>4, <1>5

(* A command that writes begins: without a buffer, from what was typed or
   from an entry. *)
LEMMA WriteBegins ==
  ASSUME RamInv, UNCHANGED <<vars, table, nav, text>>, fpc' = "open",
         NEW c \in Commands, cmd' = c, c.buf = 0, c.k = 0, c.key \in FileKeys,
         c.from # 0 => \E j \in Slots : table[j].data = c.from /\ text[j] = c.text
  PROVE  RamInv' /\ [Next]_vars
<1>1. HeapInv' /\ EntriesOK' /\ [Next]_vars
  BY Quiet
<1>2. Shape'
  BY DEF RamInv, Shape, nav, Places
<1>3. BufferOK' /\ FillOK' /\ AllocOK' /\ BytesOK'
  BY DEF BufferOK, FillOK, AllocOK, BytesOK
<1>4. OpenOK'
  BY DEF OpenOK
<1> QED
  BY <1>1, <1>2, <1>3, <1>4 DEF RamInv

LEMMA WriteKeeps ==
  ASSUME RamInv, NEW key \in FileKeys, NEW typed \in Texts, Write(key, typed)
  PROVE  RamInv' /\ [Next]_vars
<1> DEFINE c == [key |-> key, dir |-> cwd, idx |-> Root, text |-> typed, from |-> 0,
                 new |-> 0, buf |-> 0, k |-> 0, path |-> <<>>]
<1>1. typed \in TextSet /\ cwd \in Indices
  BY FsHeapAssumption DEF TextSet, RamInv, Shape
<1>2. c \in Commands /\ c.buf = 0 /\ c.k = 0 /\ c.key = key /\ c.from = 0
  BY <1>1, Sizes0 DEF Commands
<1>3. fpc' = "open" /\ cmd' = c /\ UNCHANGED <<vars, table, nav, text>>
  BY DEF Write, Start, NoCmd
<1> HIDE DEF c
<1> QED
  BY <1>2, <1>3, WriteBegins

LEMMA CopyKeeps ==
  ASSUME RamInv, NEW key \in FileKeys, NEW dest \in Slots, Copy(key, dest)
  PROVE  RamInv' /\ [Next]_vars
<1>0. HeapInv /\ Shape /\ EntriesOK
  BY DEF RamInv
<1>1. PICK q, t : q = DataOf(key) /\ t = TextAt(DataOf(key))
  OBVIOUS
<1>2. /\ q \in {0} \cup Ptrs /\ t \in TextSet
      /\ q # 0 => \E j \in Slots : table[j].data = q /\ text[j] = t
  BY <1>0, <1>1, DataOfIs
<1> DEFINE c == [key |-> key, dir |-> Low(dest), idx |-> Root, text |-> t, from |-> q,
                 new |-> 0, buf |-> 0, k |-> 0, path |-> <<>>]
<1>3. c \in Commands /\ c.buf = 0 /\ c.k = 0 /\ c.key = key /\ c.from = q /\ c.text = t
  BY <1>2, LowSlot, Sizes0 DEF Commands
<1>4. fpc' = "open" /\ cmd' = c /\ UNCHANGED <<vars, table, nav, text>>
  BY <1>1 DEF Copy, Start, NoCmd
<1> HIDE DEF c
<1> QED
  BY <1>2, <1>3, <1>4, WriteBegins

(* A command that removes begins, or goes on to another directory. *)
LEMMA RemovalKeeps ==
  ASSUME RamInv, Format \/ Enter \/ Leave \/ \E name \in DirNames : Del(name)
  PROVE  RamInv' /\ [Next]_vars
<1>0. Shape /\ BufferOK
  BY DEF RamInv
<1>1. UNCHANGED <<vars, table, nav, text>> /\ fpc' \in {"delete", "format"}
  BY DEF Format, Enter, Leave, Del, Start
<1>2. HeapInv' /\ EntriesOK' /\ [Next]_vars
  BY <1>1, Quiet
<1>3. cmd' \in Commands /\ cmd'.buf = 0
  <2>1. CASE Format
    BY <2>1, NoCmdIs DEF Format, Start
  <2>2. CASE Enter
    <3>1. PICK j \in Slots : fpc = "delete" /\ cmd' = [cmd EXCEPT !.path = @ \o <<Low(j)>>]
      BY <2>2 DEF Enter, Hand, Lowest, Children
    <3>2. Low(j) \in Slots /\ cmd.path \in Seq(Slots)
      BY <1>0, LowSlot, Sizes0 DEF Shape, Commands
    <3>3. cmd.path \o <<Low(j)>> \in Seq(Slots)
      BY <3>2
    <3> QED
      BY <1>0, <3>1, <3>3 DEF Shape, Commands, BufferOK
  <2>3. CASE Leave
    <3>1. fpc = "delete" /\ cmd' = [cmd EXCEPT !.path = Front(@)] /\ cmd.path \in Seq(Slots)
          /\ cmd.path # <<>>
      BY <1>0, <2>3 DEF Leave, Shape, Commands
    <3>2. Front(cmd.path) \in Seq(Slots)
      BY <3>1 DEF Front
    <3> QED
      BY <1>0, <3>1, <3>2 DEF Shape, Commands, BufferOK
  <2>4. CASE \E name \in DirNames : Del(name)
    <3>1. PICK j \in Slots : cmd' = [NoCmd EXCEPT !.idx = j, !.path = <<Low(j)>>]
      BY <2>4 DEF Del, Start, FoundDir, Found, Lowest
    <3>2. Low(j) \in Slots
      BY LowSlot, Sizes0
    <3>3. <<Low(j)>> \in Seq(Slots)
      BY <3>2
    <3> QED
      BY <3>1, <3>3, NoCmdIs, NothingTyped, Sizes0 DEF NoCmd, Commands
  <2> QED
    BY <2>1, <2>2, <2>3, <2>4
<1>4. Shape'
  BY <1>0, <1>1, <1>3 DEF Shape, nav, Places
<1>5. WritingOK'
  BY <1>1, <1>3, AtRest
<1> QED
  BY <1>2, <1>4, <1>5 DEF RamInv, WritingOK

(* fs_write_in returns: append's buffer, if there is one, is still there. *)
LEMMA Returns ==
  ASSUME HeapInv, Shape, BufferOK, Return, cmd.buf # 0 => Kept(cmd.buf),
         \A j \in Slots : table'[j].data # 0 => table'[j].data # cmd.buf
  PROVE  /\ WritingOK' /\ cmd' \in Commands /\ fpc' \in Places
         /\ fpc' \in {"prompt", "tidy"} /\ cmd'.buf = cmd.buf
<1>1. CASE cmd.buf = 0
  <2>1. fpc' = "prompt" /\ cmd' = NoCmd
    BY <1>1 DEF Return, Done
  <2> QED
    BY <1>1, <2>1, AtRest, NoCmdIs DEF Places
<1>2. CASE cmd.buf # 0
  <2>1. fpc' = "tidy" /\ cmd' = cmd
    BY <1>2 DEF Return
  <2>2. Sized(cmd.buf, cmd.text) /\ cmd.text \in TextSet
    BY <1>2 DEF BufferOK, Shape, Commands
  <2>3. PICK b, t : b = cmd.buf /\ t = cmd.text
    OBVIOUS
  <2>4. Sized(b, t)'
    BY <1>2, <2>2, <2>3, KeptHolds
  <2>5. Sized(cmd.buf, cmd.text)'
    BY <2>1, <2>3, <2>4 DEF Sized
  <2>6. BufferOK'
    BY <1>2, <2>1, <2>5 DEF BufferOK, Unshared
  <2>7. FillOK' /\ OpenOK' /\ AllocOK' /\ BytesOK'
    BY <2>1 DEF FillOK, OpenOK, AllocOK, BytesOK
  <2> QED
    BY <1>2, <2>1, <2>6, <2>7 DEF WritingOK, Shape, Places
<1> QED
  BY <1>1, <1>2

LEMMA OpenFailsKeeps ==
  ASSUME RamInv, OpenFails
  PROVE  RamInv' /\ [Next]_vars
<1>0. HeapInv /\ Shape /\ BufferOK
  BY DEF RamInv
<1>1. UNCHANGED <<vars, table, nav, text>> /\ Return
  BY DEF OpenFails
<1>2. HeapInv' /\ EntriesOK' /\ [Next]_vars /\ \A p \in Live : Kept(p)
  BY <1>1, Quiet
<1>3. cmd.buf # 0 => Kept(cmd.buf)
  BY <1>0, <1>2 DEF BufferOK, Sized
<1>4. \A j \in Slots : table'[j].data # 0 => table'[j].data # cmd.buf
  BY <1>0, <1>1 DEF BufferOK, Unshared
<1>5. WritingOK' /\ cmd' \in Commands /\ fpc' \in Places
  BY <1>0, <1>1, <1>3, <1>4, Returns
<1>6. Shape'
  BY <1>0, <1>1, <1>5 DEF Shape, nav
<1> QED
  BY <1>2, <1>5, <1>6 DEF RamInv, WritingOK

-------------------------------------------------------------------------------
(* Steps that change the table alone. *)

LEMMA MkdirKeeps ==
  ASSUME RamInv, NEW name \in DirNames, Mkdir(name)
  PROVE  RamInv' /\ [Next]_vars
<1>0. HeapInv /\ Shape /\ EntriesOK /\ BufferOK
  BY DEF RamInv
<1>1. PICK e \in Slots :
        table' = [table EXCEPT ![e] = [RootDir EXCEPT !.parent = cwd, !.name = name]]
  BY DEF Mkdir, FreeSlot, Lowest
<1>2. UNCHANGED <<vars, nav, fpc, cmd, text>> /\ fpc = "prompt"
  BY DEF Mkdir, Prompt
<1>3. RootDir \in Entries /\ RootDir.type = "dir" /\ RootDir.data = 0
  BY Sizes0 DEF RootDir, Unused, Entries
<1>4. PICK d : d = [RootDir EXCEPT !.parent = cwd, !.name = name]
  OBVIOUS
<1>5. d \in Entries /\ d.data = 0 /\ d.type = "dir"
  BY <1>0, <1>3, <1>4 DEF Entries, Shape
<1>6. table' \in [Slots -> Entries] /\ table'[e] = d /\ \A j \in Slots \ {e} : table'[j] = table[j]
  BY <1>0, <1>1, <1>4, <1>5 DEF Shape
<1>7. HeapInv' /\ \A p \in Live : Kept(p)
  BY <1>0, <1>2, HeapStays
<1>8. \A j \in Slots \ {e} : Carries(j)
  BY <1>0, <1>2, <1>6, <1>7 DEF Carries, EntriesOK, EntryOK, Sized
<1>9. EntryOK(e)'
  BY <1>6, <1>5 DEF EntryOK
<1>10. EntriesOK'
  BY <1>0, <1>6, <1>5, <1>8, <1>9, EntriesChange
<1>11. Shape'
  BY <1>0, <1>2, <1>6 DEF Shape, nav
<1>12. WritingOK'
  BY <1>0, <1>2, AtRest DEF BufferOK
<1> QED
  BY <1>2, <1>7, <1>10, <1>11, <1>12 DEF RamInv, WritingOK

(* No entry gets or loses a region. *)
LEMMA TableKeeps ==
  ASSUME RamInv, UNCHANGED <<vars, text>>, Shape', fpc' = "prompt", cmd'.buf = 0,
         \A j \in Slots : /\ table'[j].data = table[j].data
                          /\ table'[j].type = "file" => table[j].type = "file" /\ table'[j].size = table[j].size
  PROVE  RamInv' /\ [Next]_vars
<1>0. HeapInv /\ Shape /\ EntriesOK
  BY DEF RamInv
<1>1. HeapInv' /\ \A p \in Live : Kept(p)
  BY <1>0, HeapStays
<1>2. \A j \in Slots : Carries(j)
  BY <1>0, <1>1 DEF Carries, EntriesOK, EntryOK, Sized
<1> QED
  BY <1>0, <1>1, <1>2, EntriesStay, AtRest DEF RamInv, WritingOK

LEMMA RenameKeeps ==
  ASSUME RamInv, NEW key \in FileKeys, NEW new \in FileKeys, Rename(key, new)
  PROVE  RamInv' /\ [Next]_vars
<1>0. Shape /\ BufferOK
  BY DEF RamInv
<1>1. PICK e \in Slots : table[e].type = "file"
                        /\ table' = [table EXCEPT ![e].name = new[1], ![e].ext = new[2]]
  BY DEF Rename, Found, Lowest
<1>2. UNCHANGED <<vars, nav, fpc, cmd, text>> /\ fpc = "prompt"
  BY DEF Rename, Prompt
<1>3. PICK d : d = [table[e] EXCEPT !.name = new[1], !.ext = new[2]]
  OBVIOUS
<1>4. d \in Entries /\ d.data = table[e].data /\ d.type = table[e].type /\ d.size = table[e].size
  BY <1>0, <1>3 DEF Shape, Entries
<1>5. table' = [table EXCEPT ![e] = d]
  BY <1>0, <1>1, <1>3 DEF Shape
<1>6. table' \in [Slots -> Entries]
      /\ \A j \in Slots : table'[j].data = table[j].data /\ table'[j].type = table[j].type
                         /\ table'[j].size = table[j].size
  BY <1>0, <1>4, <1>5 DEF Shape
<1>7. Shape'
  BY <1>0, <1>2, <1>6 DEF Shape, nav
<1> QED
  BY <1>0, <1>2, <1>6, <1>7, TableKeeps DEF BufferOK

LEMMA RemoveDirKeeps ==
  ASSUME RamInv, RemoveDir
  PROVE  RamInv' /\ [Next]_vars
<1>0. Shape
  BY DEF RamInv
<1>1. /\ table' = [table EXCEPT ![cmd.idx] = Freed(@)] /\ cmd.idx \in Slots
      /\ UNCHANGED <<vars, away, text>> /\ fpc' = "prompt" /\ cmd' = NoCmd
      /\ (cwd' = cwd \/ cwd' = table[cmd.idx].parent) /\ stale' \in BOOLEAN
  BY <1>0 DEF RemoveDir, Done, Shape, Commands
<1>2. PICK e : e = cmd.idx
  OBVIOUS
<1>3. Freed(table[e]) \in Entries /\ Freed(table[e]).type = "free"
      /\ Freed(table[e]).data = table[e].data /\ table[e].parent \in Indices
  BY <1>0, <1>1, <1>2, FreedTyped DEF Shape, Entries
<1>4. table' \in [Slots -> Entries]
      /\ \A j \in Slots : table'[j].data = table[j].data
                         /\ (table'[j].type = "file" => table[j].type = "file" /\ table'[j].size = table[j].size)
  BY <1>0, <1>1, <1>2, <1>3 DEF Shape
<1>5. Shape'
  BY <1>0, <1>1, <1>2, <1>3, <1>4, NoCmdIs DEF Shape, Places
<1> QED
  BY <1>1, <1>4, <1>5, NoCmdIs, TableKeeps

LEMMA FormatEndKeeps ==
  ASSUME RamInv, FormatEnd
  PROVE  RamInv' /\ [Next]_vars
<1>0. Shape
  BY DEF RamInv
<1>1. /\ table' = [j \in Slots |-> IF j = Root THEN table[j] ELSE Freed(table[j])]
      /\ UNCHANGED <<vars, away, text>> /\ fpc' = "prompt" /\ cmd' = NoCmd
      /\ cwd' = Root /\ stale' \in BOOLEAN
  BY <1>0 DEF FormatEnd, Done, Shape
<1>2. \A j \in Slots : /\ Freed(table[j]) \in Entries /\ Freed(table[j]).type = "free"
                       /\ Freed(table[j]).data = table[j].data
  BY <1>0, FreedTyped DEF Shape
<1>3. table' \in [Slots -> Entries]
      /\ \A j \in Slots : table'[j].data = table[j].data
                         /\ (table'[j].type = "file" => table[j].type = "file" /\ table'[j].size = table[j].size)
  BY <1>0, <1>1, <1>2 DEF Shape
<1>4. Shape'
  BY <1>0, <1>1, <1>3, NoCmdIs, Sizes0 DEF Shape, Places
<1> QED
  BY <1>1, <1>3, <1>4, NoCmdIs, TableKeeps

-------------------------------------------------------------------------------
(* Steps that give a region back. *)

LEMMA TidyKeeps ==
  ASSUME RamInv, Tidy
  PROVE  RamInv' /\ [Next]_vars
<1>0. HeapInv /\ Shape /\ EntriesOK /\ BufferOK
  BY DEF RamInv
<1>1. Free(cmd.buf) /\ fpc' = "prompt" /\ cmd' = NoCmd /\ UNCHANGED <<table, nav, text>> /\ fpc = "tidy"
  BY DEF Tidy, Done
<1>2. cmd.buf \in Live /\ Unshared(cmd.buf)
  BY <1>0, <1>1 DEF BufferOK, Sized
<1>3. Next /\ HeapInv' /\ \A q \in Live \ {cmd.buf} : Kept(q)
  BY <1>0, <1>1, <1>2, FreeIs
<1>4. \A j \in Slots : Carries(j)
  BY <1>0, <1>1, <1>2, <1>3 DEF Carries, EntriesOK, EntryOK, Sized, Unshared
<1>5. Shape'
  BY <1>0, <1>1, NoCmdIs DEF Shape, nav, Places
<1> QED
  BY <1>0, <1>1, <1>3, <1>4, <1>5, EntriesStay, AtRest, NoCmdIs DEF RamInv, WritingOK

(* An entry is freed with what it points to. *)
LEMMA EntryFreed ==
  ASSUME RamInv, fpc \in {"delete", "format"}, UNCHANGED <<fpc, cmd, text, cwd, away>>,
         stale' \in BOOLEAN, NEW e \in Slots, FreeIfAny(table[e].data),
         table' = [table EXCEPT ![e] = [Freed(@) EXCEPT !.data = 0]]
  PROVE  RamInv' /\ [Next]_vars
<1>0. HeapInv /\ Shape /\ EntriesOK /\ BufferOK
  BY DEF RamInv
<1>1. PICK d : d = [Freed(table[e]) EXCEPT !.data = 0]
  OBVIOUS
<1>2. d \in Entries /\ d.type = "free" /\ d.data = 0
  BY <1>0, <1>1, FreedTyped DEF Shape
<1>3. table' \in [Slots -> Entries] /\ table'[e] = d /\ \A j \in Slots \ {e} : table'[j] = table[j]
  BY <1>0, <1>1, <1>2 DEF Shape
<1>4. HeapInv' /\ [Next]_vars /\ \A q \in Live : q # table[e].data => Kept(q)
  <2>1. CASE table[e].data = 0
    BY <1>0, <2>1, HeapStays DEF FreeIfAny
  <2>2. CASE table[e].data # 0
    <3>1. table[e].data \in Live /\ Free(table[e].data)
      BY <1>0, <2>2 DEF FreeIfAny, EntriesOK, EntryOK, Sized
    <3> QED
      BY <1>0, <3>1, FreeIs
  <2> QED
    BY <2>1, <2>2
<1>5. \A j \in Slots \ {e} : Carries(j)
  BY <1>0, <1>3, <1>4 DEF Carries, EntriesOK, EntryOK, Sized
<1>6. EntryOK(e)'
  BY <1>2, <1>3 DEF EntryOK
<1>7. EntriesOK'
  BY <1>0, <1>2, <1>3, <1>5, <1>6, EntriesChange
<1>8. Shape'
  BY <1>0, <1>3 DEF Shape
<1> QED
  BY <1>0, <1>4, <1>7, <1>8, AtRest DEF RamInv, WritingOK, BufferOK

LEMMA RemoveKeeps ==
  ASSUME RamInv, RemoveEntry \/ FormatEntry
  PROVE  RamInv' /\ [Next]_vars
<1>0. Shape
  BY DEF RamInv
<1>1. /\ fpc \in {"delete", "format"} /\ UNCHANGED <<fpc, cmd, text, cwd, away>> /\ stale' \in BOOLEAN
      /\ \E e \in Slots : /\ FreeIfAny(table[e].data)
                          /\ table' = [table EXCEPT ![e] = [Freed(@) EXCEPT !.data = 0]]
  <2>1. CASE RemoveEntry
    BY <1>0, <2>1 DEF RemoveEntry, Hand, Lowest, Children, Shape
  <2>2. CASE FormatEntry
    BY <1>0, <2>2 DEF FormatEntry, Pointing, Lowest, FreeIfAny, nav, Shape
  <2> QED
    BY <2>1, <2>2
<1> QED
  BY <1>1, EntryFreed

-------------------------------------------------------------------------------
(* append gets its buffer and fills it. *)

LEMMA NewIsUnshared ==
  ASSUME HeapInv, EntriesOK, NEW p, p \notin Live, p # 0
  PROVE  Unshared(p)
BY DEF Unshared, EntriesOK, EntryOK, Sized

LEMMA AppendTyped ==
  ASSUME NEW old \in TextSet, NEW typed \in Texts, typed # <<>>,
         NEW all, all = IF old = <<>> THEN typed ELSE old \o <<NewLine>> \o typed,
         Len(all) <= MaxText
  PROVE  all \in TextSet /\ all # <<>>
<1>1. PICK S : S = Words \ {0}
  OBVIOUS
<1>2. old \in Seq(S) /\ typed \in Seq(S) /\ <<NewLine>> \in Seq(S) /\ Len(<<NewLine>>) = 1
  BY <1>1, FsHeapAssumption, TextIs
<1>3. PICK q : q = old \o <<NewLine>>
  OBVIOUS
<1>4. q \in Seq(S)
  BY <1>2, <1>3
<1>5. q \o typed \in Seq(S) /\ Len(q \o typed) = Len(q) + Len(typed)
      /\ Len(q) \in Nat /\ Len(typed) \in Nat /\ Len(typed) > 0
  BY <1>2, <1>4
<1>6. all \in Seq(S) /\ Len(all) > 0 /\ Len(all) \in Nat
  <2>1. CASE old = <<>>
    <3>1. all = typed
      BY <2>1
    <3> QED
      BY <1>2, <1>5, <3>1
  <2>2. CASE old # <<>>
    <3>1. all = q \o typed
      BY <1>3, <2>2
    <3>2. Len(all) = Len(q) + Len(typed) /\ all \in Seq(S)
      BY <1>5, <3>1
    <3> QED
      BY <1>5, <3>2
  <2> QED
    BY <2>1, <2>2
<1>7. Len(all) + 1 \in Sizes
  BY <1>6, FsHeapAssumption
<1>8. all # <<>>
  BY <1>6
<1> QED
  BY <1>1, <1>6, <1>7, <1>8 DEF TextSet

LEMMA AppendKeeps ==
  ASSUME RamInv, NEW key \in FileKeys, NEW typed \in Texts, AppendTo(key, typed)
  PROVE  RamInv' /\ [Next]_vars
<1>0. HeapInv /\ Shape /\ EntriesOK /\ BufferOK
  BY DEF RamInv
<1>1. PICK all : /\ all = IF TextAt(DataOf(key)) = <<>> THEN typed
                          ELSE TextAt(DataOf(key)) \o <<NewLine>> \o typed
                 /\ Len(all) <= MaxText
                 /\ \/ /\ KmallocFound(Len(all) + 1)
                       /\ Start("fill", [NoCmd EXCEPT !.key = key, !.dir = cwd, !.text = all,
                                                      !.from = ret', !.buf = ret'])
                    \/ Prompt /\ KmallocNull(Len(all) + 1) /\ UNCHANGED <<fpc, cmd>>
  BY DEF AppendTo
<1>2. typed # <<>> /\ UNCHANGED <<table, nav, text>>
  BY DEF AppendTo
<1>3. all \in TextSet /\ all # <<>>
  <2>1. TextAt(DataOf(key)) \in TextSet
    BY <1>0, DataOfIs
  <2> QED
    BY <1>1, <1>2, <2>1, AppendTyped
<1>4. Len(all) \in Nat /\ Len(all) + 1 \in Sizes
  BY <1>3, TextIs
<1>5. CASE Prompt /\ KmallocNull(Len(all) + 1) /\ UNCHANGED <<fpc, cmd>>
  <2>1. Next /\ HeapInv' /\ \A p \in Live : Kept(p)
    BY <1>0, <1>4, <1>5, NullIs
  <2>2. \A j \in Slots : Carries(j)
    BY <1>0, <1>2, <2>1 DEF Carries, EntriesOK, EntryOK, Sized
  <2>3. Shape'
    BY <1>0, <1>2, <1>5 DEF Shape, nav
  <2> QED
    BY <1>0, <1>5, <2>1, <2>2, <2>3, EntriesStay, AtRest DEF RamInv, WritingOK, BufferOK, Prompt
<1>6. CASE KmallocFound(Len(all) + 1) /\ fpc' = "fill"
           /\ cmd' = [NoCmd EXCEPT !.key = key, !.dir = cwd, !.text = all, !.from = ret', !.buf = ret']
  <2>1. PICK p : p = ret'
    OBVIOUS
  <2>2. /\ HeapInv' /\ p \in Ptrs /\ p \in Nat /\ p \notin Live /\ p \in Live'
        /\ live'[p] = Len(all) + 1 /\ \A q \in Live : Kept(q)
    BY <1>0, <1>4, <1>6, <2>1, AllocIs
  <2>3. \A j \in Slots : Carries(j)
    BY <1>0, <1>2, <2>2 DEF Carries, EntriesOK, EntryOK, Sized
  <2> DEFINE c == [key |-> key, dir |-> cwd, idx |-> Root, text |-> all, from |-> p,
                   new |-> 0, buf |-> p, k |-> 0, path |-> <<>>]
  <2>4. c \in Commands /\ c.buf = p /\ c.k = 0 /\ c.key = key /\ c.from = p /\ c.text = all
    BY <1>0, <1>3, <2>2, Sizes0 DEF Commands, Shape
  <2>5. cmd' = c
    BY <1>6, <2>1 DEF NoCmd
  <2> HIDE DEF c
  <2>6. Shape'
    BY <1>0, <1>2, <1>6, <2>4, <2>5 DEF Shape, nav, Places
  <2>7. p # 0 /\ Unshared(p)'
    <3>1. p # 0
      BY <2>2 DEF Ptrs
    <3> QED
      BY <1>0, <1>2, <2>2, <3>1, NewIsUnshared DEF Unshared
  <2>8. BufferOK'
    BY <1>6, <2>2, <2>4, <2>5, <2>7 DEF BufferOK, Sized, Unshared
  <2>9. FillOK'
    BY <1>4, <2>4, <2>5 DEF FillOK, Begun
  <2>10. OpenOK' /\ AllocOK' /\ BytesOK'
    BY <1>6 DEF OpenOK, AllocOK, BytesOK
  <2>11. Next
    BY <1>4, <1>6 DEF Next
  <2> QED
    BY <1>0, <2>2, <2>3, <2>6, <2>8, <2>9, <2>10, <2>11, EntriesStay DEF RamInv
<1> QED
  BY <1>1, <1>5, <1>6 DEF Start

LEMMA FillKeeps ==
  ASSUME RamInv, Fill
  PROVE  RamInv' /\ [Next]_vars
<1>0. HeapInv /\ Shape /\ EntriesOK /\ BufferOK /\ FillOK
  BY DEF RamInv
<1>1. PICK p, t, k : p = cmd.buf /\ t = cmd.text /\ k = cmd.k
  OBVIOUS
<1>2. /\ fpc = "fill" /\ Put(p + k, IF k = Len(t) THEN 0 ELSE t[k + 1])
      /\ UNCHANGED <<table, nav, text>>
  BY <1>1 DEF Fill, Byte
<1>3. /\ Sized(p, t) /\ Unshared(p) /\ k \in Nat /\ k <= Len(t) /\ cmd.from = p /\ cmd.key \in FileKeys
      /\ Begun(p, t, k) /\ t \in TextSet /\ cmd \in Commands
  BY <1>0, <1>1, <1>2 DEF BufferOK, FillOK, Shape, Commands
<1>4. /\ p \in Live /\ live[p] = Len(t) + 1 /\ Len(t) \in Nat /\ p \in Nat /\ p # 0 /\ p \in Ptrs
      /\ Extent(p, live[p]) \subseteq Blocks
      /\ \A m \in 1 .. Len(t) : t[m] \in Words
  BY <1>0, <1>3, RegionIs, TextIs DEF Sized
<1>5. (IF k = Len(t) THEN 0 ELSE t[k + 1]) \in Words
  <2>1. 0 \in Words
    BY FsHeapAssumption
  <2>2. k # Len(t) => k + 1 \in 1 .. Len(t)
    BY <1>3, <1>4
  <2> QED
    BY <1>4, <2>1, <2>2
<1>6. /\ Next /\ HeapInv' /\ Live' = Live /\ live' = live
      /\ mem'[p + k] = IF k = Len(t) THEN 0 ELSE t[k + 1]
      /\ \A q \in Live \ {p} : Kept(q)
      /\ \A b \in Blocks \ {p + k} : mem'[b] = mem[b]
  <2>1. PICK w : w = IF k = Len(t) THEN 0 ELSE t[k + 1]
    OBVIOUS
  <2>2. k < live[p] /\ k \in Nat /\ p \in Live /\ w \in Words /\ Put(p + k, w)
    BY <1>2, <1>3, <1>4, <1>5, <2>1
  <2>3. /\ Next /\ HeapInv' /\ Live' = Live /\ live' = live /\ mem'[p + k] = w
        /\ \A q \in Live \ {p} : Kept(q)
        /\ \A b \in Blocks \ {p + k} : mem'[b] = mem[b]
    BY <1>0, <2>2, PutIs
  <2> QED
    BY <2>1, <2>3
<1>7. \A j \in Slots : Carries(j)
  BY <1>0, <1>2, <1>3, <1>6 DEF Carries, EntriesOK, EntryOK, Sized, Unshared
<1>8. \A m \in 1 .. Len(t) + 1 : p + m - 1 \in Blocks /\ (m # k + 1 => mem'[p + m - 1] = mem[p + m - 1])
  <2> TAKE m \in 1 .. Len(t) + 1
  <2>1. p + m - 1 \in Extent(p, live[p]) /\ (m # k + 1 => p + m - 1 # p + k)
    BY <1>3, <1>4 DEF Extent
  <2> QED
    BY <1>4, <1>6, <2>1
<1>9. Begun(p, t, k)'
  BY <1>3, <1>4, <1>8 DEF Begun
<1>10. Sized(p, t)' /\ Unshared(p)'
  BY <1>2, <1>3, <1>6 DEF Sized, Unshared
<1>11. CASE k < Len(t)
  <2>1. cmd' = [cmd EXCEPT !.k = k + 1] /\ fpc' = "fill"
    BY <1>1, <1>2, <1>11 DEF Fill
  <2>2. /\ cmd' \in Commands /\ cmd'.buf = p /\ cmd'.text = t /\ cmd'.k = k + 1 /\ cmd'.from = p
        /\ cmd'.key = cmd.key
    BY <1>1, <1>3, <2>1 DEF Commands
  <2>3. Begun(p, t, k + 1)'
    <3>1. p + (k + 1) - 1 = p + k /\ \A m \in 1 .. k + 1 : m \in 1 .. k \/ m = k + 1
      BY <1>3, <1>4
    <3>2. mem'[p + (k + 1) - 1] = t[k + 1]
      BY <1>6, <1>11, <3>1
    <3> QED
      BY <1>9, <3>1, <3>2 DEF Begun
  <2>4. Shape'
    BY <1>0, <1>2, <2>1, <2>2 DEF Shape, nav, Places
  <2>5. BufferOK' /\ FillOK'
    <3>1. BufferOK'
      BY <1>4, <1>10, <2>1, <2>2 DEF BufferOK, Sized, Unshared
    <3>2. k + 1 <= Len(t)
      BY <1>3, <1>4, <1>11
    <3> QED
      BY <1>3, <2>2, <2>3, <3>1, <3>2 DEF FillOK, Begun
  <2>6. OpenOK' /\ AllocOK' /\ BytesOK'
    BY <2>1 DEF OpenOK, AllocOK, BytesOK
  <2> QED
    BY <1>0, <1>6, <1>7, <2>4, <2>5, <2>6, EntriesStay DEF RamInv
<1>12. CASE k = Len(t)
  <2>1. cmd' = [cmd EXCEPT !.k = 0] /\ fpc' = "open"
    BY <1>1, <1>2, <1>4, <1>12 DEF Fill
  <2>2. /\ cmd' \in Commands /\ cmd'.buf = p /\ cmd'.text = t /\ cmd'.k = 0 /\ cmd'.from = p
        /\ cmd'.key = cmd.key
    BY <1>1, <1>3, <2>1 DEF Commands
  <2>3. Holds(p, t)'
    <3>1. Len(t) + 1 \in 1 .. Len(t) + 1 /\ p + (Len(t) + 1) - 1 = p + Len(t)
      BY <1>4
    <3>2. p + Len(t) \in Blocks
      BY <1>8, <3>1
    <3> QED
      BY <1>4, <1>6, <1>9, <1>12, <3>2 DEF Holds, Begun
  <2>4. Shape'
    BY <1>0, <1>2, <2>1, <2>2 DEF Shape, nav, Places
  <2>5. BufferOK'
    BY <1>4, <1>10, <2>1, <2>2 DEF BufferOK, Sized, Unshared
  <2>6. OpenOK'
    BY <1>3, <2>2, <2>3 DEF OpenOK, Holds
  <2>7. FillOK' /\ AllocOK' /\ BytesOK'
    BY <2>1 DEF FillOK, AllocOK, BytesOK
  <2> QED
    BY <1>0, <1>6, <1>7, <2>4, <2>5, <2>6, <2>7, EntriesStay DEF RamInv
<1> QED
  BY <1>3, <1>4, <1>11, <1>12

-------------------------------------------------------------------------------
(* fs_write_in. *)

LEMMA MadeIs ==
  ASSUME Shape, cmd.key \in FileKeys, NEW e \in Entries
  PROVE  /\ Made(e) \in Entries /\ Made(e).data = 0 /\ Made(e).size = 0
         /\ Made(e).type = IF e.type = "free" THEN "file" ELSE e.type
         /\ Made(e).parent = IF e.type = "free" THEN cmd.dir ELSE e.parent
         /\ Made(e).name = IF e.type = "free" THEN cmd.key[1] ELSE e.name
<1>1. cmd.dir \in Indices
  BY DEF Shape, Commands
<1>2. CASE e.type = "free"
  <2>1. PICK x, y, z : x = cmd.dir /\ y = cmd.key[1] /\ z = cmd.key[2]
    OBVIOUS
  <2>2. /\ x \in Indices /\ y \in {key[1] : key \in FileKeys} /\ z \in {key[2] : key \in FileKeys}
    BY <1>1, <2>1
  <2>3. PICK c : c = [Unused EXCEPT !.type = "file", !.parent = x]
    OBVIOUS
  <2>4. c \in Entries /\ c.type = "file" /\ c.parent = x /\ c.data = 0 /\ c.size = 0
    BY <2>2, <2>3, Sizes0 DEF Unused, Entries
  <2>5. PICK d : d = [c EXCEPT !.name = y, !.ext = z]
    OBVIOUS
  <2>6. /\ d \in Entries /\ d.type = "file" /\ d.parent = x /\ d.data = 0 /\ d.size = 0
        /\ d.name = y
    BY <2>2, <2>4, <2>5 DEF Entries
  <2>7. d = [Unused EXCEPT !.type = "file", !.parent = x, !.name = y, !.ext = z]
    BY <2>3, <2>5
  <2>8. Made(e) = d
    BY <1>2, <2>1, <2>7 DEF Made
  <2> QED
    BY <1>2, <2>1, <2>6, <2>8
<1>3. CASE e.type # "free"
  <2>1. PICK d : d = [e EXCEPT !.data = 0, !.size = 0]
    OBVIOUS
  <2>2. Made(e) = d
    BY <1>3, <2>1 DEF Made
  <2>3. /\ d \in Entries /\ d.type = e.type /\ d.parent = e.parent /\ d.name = e.name
        /\ d.data = 0 /\ d.size = 0
    BY <2>1 DEF Entries
  <2> QED
    BY <1>3, <2>2, <2>3
<1> QED
  BY <1>2, <1>3

LEMMA OpenKeeps ==
  ASSUME RamInv, Open
  PROVE  RamInv' /\ [Next]_vars
<1>0. HeapInv /\ Shape /\ EntriesOK /\ BufferOK /\ OpenOK /\ fpc = "open" /\ cmd.key \in FileKeys
  BY DEF RamInv, Open, OpenOK
<1>1. PICK e \in Slots :
        /\ FreeIfAny(IF Used(e) THEN table[e].data ELSE 0)
        /\ table' = [table EXCEPT ![e] = Made(@)]
        /\ text' = [text EXCEPT ![e] = <<>>]
        /\ IF cmd.text = <<>> THEN Return
             ELSE cmd' = [cmd EXCEPT !.idx = e] /\ fpc' = "alloc"
  BY DEF Open, Found, FreeSlot, Lowest
<1>2. UNCHANGED nav
  BY DEF Open
<1>3. PICK d, p : d = Made(table[e]) /\ p = IF Used(e) THEN table[e].data ELSE 0
  OBVIOUS
<1>4. d \in Entries /\ d.data = 0 /\ d.size = 0
  BY <1>0, <1>3, MadeIs DEF Shape
<1>5. table' \in [Slots -> Entries] /\ table'[e] = d /\ \A j \in Slots \ {e} : table'[j] = table[j]
  BY <1>0, <1>1, <1>3, <1>4 DEF Shape
<1>6. text' \in [Slots -> TextSet] /\ text'[e] = <<>> /\ \A j \in Slots \ {e} : text'[j] = text[j]
  BY <1>0, <1>1, NothingTyped DEF Shape
<1>7. p # 0 => p = table[e].data /\ p \in Live /\ Sized(p, text[e])
  BY <1>0, <1>3 DEF EntriesOK, EntryOK, Sized
<1>8. /\ HeapInv' /\ [Next]_vars /\ \A q \in Live : q # p => Kept(q)
      /\ p # 0 => mem' = mem /\ Extent(p - 1, live[p] + 1) \cap bitmap' = {}
  <2>1. CASE p = 0
    BY <1>0, <1>1, <1>3, <2>1, HeapStays DEF FreeIfAny
  <2>2. CASE p # 0
    <3>1. p \in Live /\ Free(p)
      BY <1>1, <1>3, <1>7, <2>2 DEF FreeIfAny
    <3> QED
      BY <1>0, <3>1, FreeIs
  <2> QED
    BY <2>1, <2>2
<1>9. \A j \in Slots \ {e} : Carries(j)
  BY <1>0, <1>5, <1>6, <1>7, <1>8 DEF Carries, EntriesOK, EntryOK, Sized
<1>10. EntryOK(e)'
  BY <1>4, <1>5, <1>6, NothingTyped DEF EntryOK
<1>11. EntriesOK'
  BY <1>0, <1>4, <1>5, <1>9, <1>10, EntriesChange
<1>12. cmd.buf # 0 => Kept(cmd.buf)
  BY <1>0, <1>7, <1>8 DEF BufferOK, Sized, Unshared
<1>13. \A j \in Slots : table'[j].data # 0 => table'[j].data # cmd.buf
  BY <1>0, <1>4, <1>5 DEF BufferOK, Unshared
<1>14. CASE cmd.text = <<>>
  <2>1. WritingOK' /\ cmd' \in Commands /\ fpc' \in Places
    BY <1>0, <1>1, <1>12, <1>13, <1>14, Returns
  <2>2. Shape'
    BY <1>0, <1>2, <1>5, <1>6, <2>1 DEF Shape, nav
  <2> QED
    BY <1>8, <1>11, <2>1, <2>2 DEF RamInv, WritingOK
<1>15. CASE cmd.text # <<>>
  <2>1. PICK t, q, b : t = cmd.text /\ q = cmd.from /\ b = cmd.buf
    OBVIOUS
  <2>2. /\ fpc' = "alloc" /\ cmd' \in Commands /\ cmd'.idx = e /\ cmd'.text = t /\ cmd'.from = q
        /\ cmd'.buf = b /\ cmd'.k = 0 /\ t \in TextSet /\ t # <<>>
    BY <1>0, <1>1, <1>15, <2>1 DEF Shape, Commands, OpenOK
  <2>3. Shape'
    BY <1>0, <1>2, <1>5, <1>6, <2>2 DEF Shape, nav, Places
  <2>4. BufferOK'
    <3>1. b # 0 => Sized(b, t)'
      BY <1>0, <1>12, <2>1, <2>2, KeptHolds DEF BufferOK
    <3> QED
      BY <1>13, <2>1, <2>2, <3>1 DEF BufferOK, Unshared, Sized
  <2>5. ASSUME q # 0
        PROVE  Holds(q, t)' /\ (Sized(q, t)' \/ Extent(q - 1, Len(t) + 2) \cap bitmap' = {})
    <3>1. CASE q = b /\ Holds(q, t)
      BY <1>0, <1>12, <2>1, <2>2, <2>5, <3>1, KeptHolds DEF BufferOK
    <3>2. CASE \E j \in Slots : table[j].data = q /\ text[j] = t
      <4>1. Sized(q, t) /\ Holds(q, t)
        BY <1>0, <2>5, <3>2 DEF EntriesOK, EntryOK
      <4>2. CASE q # p
        BY <1>0, <1>8, <2>2, <4>1, <4>2, KeptHolds DEF Sized
      <4>3. CASE q = p
        <5>1. Holds(q, t)'
          BY <1>8, <2>5, <4>1, <4>3 DEF Holds
        <5>2. live[p] + 1 = Len(t) + 2
          BY <2>2, <4>1, <4>3, TextIs DEF Sized
        <5> QED
          BY <1>8, <2>5, <4>3, <5>1, <5>2
      <4> QED
        BY <4>2, <4>3
    <3> QED
      BY <1>0, <2>1, <2>5, <3>1, <3>2 DEF OpenOK
  <2>6. AllocOK'
    BY <1>4, <1>5, <1>6, <2>2, <2>5 DEF AllocOK, Waits, Gap, Holds, Sized
  <2>7. FillOK' /\ OpenOK' /\ BytesOK'
    BY <2>2 DEF FillOK, OpenOK, BytesOK
  <2> QED
    BY <1>8, <1>11, <2>3, <2>4, <2>6, <2>7 DEF RamInv
<1> QED
  BY <1>14, <1>15

(* A region given back is found again, or one below it: the copy is written
   from its start on and never overtakes what it reads. *)
LEMMA NotBehind ==
  ASSUME HeapInv, NEW t \in TextSet, NEW q, Holds(q, t),
         Extent(q - 1, Len(t) + 2) \cap bitmap = {},
         NEW first \in FirstFits(bitmap, NumBlocks, Len(t) + 2)
  PROVE  first <= q - 1
<1>1. Len(t) \in Nat /\ q \in Nat /\ q > 0 /\ NumBlocks \in Nat /\ q + Len(t) <= NumBlocks - 1
  BY TextIs, KmallocAssumption DEF Holds, Ptrs, Blocks
<1>2. q - 1 \in 0 .. (NumBlocks - 1) /\ (q - 1) + (Len(t) + 2) <= NumBlocks
  BY <1>1
<1>3. q - 1 \in Fits(bitmap, NumBlocks, Len(t) + 2)
  BY <1>2 DEF Fits
<1> QED
  BY <1>3 DEF FirstFits

LEMMA AllocKeeps ==
  ASSUME RamInv, Alloc
  PROVE  RamInv' /\ [Next]_vars
<1>0. HeapInv /\ Shape /\ EntriesOK /\ BufferOK /\ AllocOK /\ fpc = "alloc"
  BY DEF RamInv, Alloc
<1>1. PICK t, q, b : t = cmd.text /\ q = cmd.from /\ b = cmd.buf
  OBVIOUS
<1>2. /\ t \in TextSet /\ t # <<>> /\ cmd \in Commands /\ cmd.k = 0 /\ Waits
      /\ q # 0 => /\ Holds(q, t)
                  /\ Sized(q, t) \/ Extent(q - 1, Len(t) + 2) \cap bitmap = {}
  BY <1>0, <1>1 DEF AllocOK, Waits, Gap, Shape, Commands
<1>3. Len(t) \in Nat /\ Len(t) + 1 \in Sizes
  BY <1>2, TextIs
<1>4. UNCHANGED <<table, nav, text>>
  BY DEF Alloc
<1>5. CASE KmallocNull(Len(t) + 1) /\ Return
  <2>1. Next /\ HeapInv' /\ \A p \in Live : Kept(p)
    BY <1>0, <1>3, <1>5, NullIs
  <2>2. \A j \in Slots : Carries(j)
    BY <1>0, <1>4, <2>1 DEF Carries, EntriesOK, EntryOK, Sized
  <2>3. b # 0 => Kept(b)
    BY <1>0, <1>1, <2>1 DEF BufferOK, Sized
  <2>4. WritingOK' /\ cmd' \in Commands /\ fpc' \in Places
    BY <1>0, <1>1, <1>4, <1>5, <2>3, Returns DEF BufferOK, Unshared
  <2>5. Shape'
    BY <1>0, <1>4, <2>4 DEF Shape, nav
  <2> QED
    BY <1>0, <2>1, <2>2, <2>4, <2>5, EntriesStay DEF RamInv, WritingOK
<1>6. CASE KmallocFound(Len(t) + 1) /\ cmd' = [cmd EXCEPT !.new = ret'] /\ fpc' = "bytes"
  <2>1. PICK p : p = ret'
    OBVIOUS
  <2>2. /\ HeapInv' /\ p \in Ptrs /\ p \in Nat /\ p \notin Live /\ p \in Live'
        /\ live'[p] = Len(t) + 1 /\ \A h \in Live : Kept(h)
        /\ p - 1 \in FirstFits(bitmap, NumBlocks, (Len(t) + 1) + 1)
        /\ \A x \in Blocks : x # p - 1 => mem'[x] = mem[x]
    BY <1>0, <1>3, <1>6, <2>1, AllocIs
  <2>3. (Len(t) + 1) + 1 = Len(t) + 2
    BY <1>3
  <2>4. \A j \in Slots : Carries(j)
    BY <1>0, <1>4, <2>2 DEF Carries, EntriesOK, EntryOK, Sized
  <2>5. /\ cmd' \in Commands /\ cmd'.new = p /\ cmd'.text = t /\ cmd'.from = q /\ cmd'.buf = b
        /\ cmd'.k = 0 /\ cmd'.idx = cmd.idx
    BY <1>1, <1>2, <1>6, <2>1, <2>2 DEF Commands
  <2>6. Shape'
    BY <1>0, <1>4, <1>6, <2>5 DEF Shape, nav, Places
  <2>7. BufferOK'
    <3>1. b # 0 => Sized(b, t)' /\ Unshared(b)
      BY <1>0, <1>1, <1>2, <2>2, KeptHolds DEF BufferOK, Sized
    <3> QED
      BY <1>4, <1>6, <2>5, <3>1 DEF BufferOK, Sized, Unshared
  <2>8. p # 0 /\ Unshared(p)' /\ p # b
    <3>1. p # 0
      BY <2>2 DEF Ptrs
    <3> QED
      BY <1>0, <1>1, <1>4, <2>2, <3>1, NewIsUnshared DEF Unshared, BufferOK, Sized
  <2>9. ASSUME q # 0
        PROVE  /\ q + Len(t) \in Blocks
               /\ p <= q \/ Extent(p, Len(t) + 1) \cap Extent(q, Len(t) + 1) = {}
               /\ Rest(q, t, 0)'
    <3>1. Holds(q, t) /\ q \in Nat /\ q + Len(t) \in Blocks
      BY <1>2, <2>9 DEF Holds, Ptrs
    <3>2. CASE Sized(q, t)
      <4>1. Sized(q, t)' /\ Holds(q, t)' /\ q # p
        BY <1>0, <1>2, <2>2, <3>1, <3>2, KeptHolds DEF Sized
      <4>2. Extent(p, live'[p]) \cap Extent(q, live'[q]) = {}
        BY <2>2, <4>1, RegionsApartNext DEF Sized
      <4> QED
        BY <2>2, <3>1, <4>1, <4>2 DEF Sized, Holds, Rest
    <3>3. CASE Extent(q - 1, Len(t) + 2) \cap bitmap = {}
      <4>1. p - 1 <= q - 1
        BY <1>0, <1>2, <2>2, <2>3, <3>1, <3>3, NotBehind
      <4>2. p <= q
        BY <2>2, <3>1, <4>1
      <4>3. ASSUME NEW m \in 1 .. Len(t) PROVE mem'[q + m - 1] = t[m]
        <5>1. q + m - 1 \in Blocks /\ q + m - 1 # p - 1
          BY <1>3, <2>2, <3>1, <4>2, KmallocAssumption DEF Blocks
        <5> QED
          BY <2>2, <3>1, <5>1 DEF Holds
      <4> QED
        BY <3>1, <4>2, <4>3 DEF Rest
    <3> QED
      BY <1>2, <2>9, <3>2, <3>3
  <2>10. BytesOK'
    <3>1. Waits'
      BY <1>2, <1>4, <2>5 DEF Waits
    <3>2. q # 0 => Ahead'
      BY <2>5, <2>9 DEF Ahead, Rest
    <3>3. Sized(p, t)' /\ Begun(p, t, 0)'
      BY <2>2 DEF Sized, Begun
    <3> QED
      BY <1>3, <2>5, <2>8, <3>1, <3>2, <3>3 DEF BytesOK, Sized, Begun, Unshared
  <2>11. FillOK' /\ OpenOK' /\ AllocOK'
    BY <1>6 DEF FillOK, OpenOK, AllocOK
  <2>12. Next
    BY <1>3, <1>6 DEF Next
  <2> QED
    BY <1>0, <2>2, <2>4, <2>6, <2>7, <2>10, <2>11, <2>12, EntriesStay DEF RamInv
<1> QED
  BY <1>1, <1>5, <1>6 DEF Alloc

LEMMA PutByteKeeps ==
  ASSUME RamInv, PutByte
  PROVE  RamInv' /\ [Next]_vars
<1>0. /\ HeapInv /\ Shape /\ EntriesOK /\ BufferOK /\ BytesOK
      /\ fpc = "bytes" /\ cmd.k < Len(cmd.text)
  BY DEF RamInv, PutByte
<1>1. PICK p, t, q, k, b : p = cmd.new /\ t = cmd.text /\ q = cmd.from /\ k = cmd.k /\ b = cmd.buf
  OBVIOUS
<1>2. PICK w : w = IF q = 0 THEN t[k + 1] ELSE mem[q + k]
  OBVIOUS
<1>3. /\ Put(p + k, w) /\ cmd' = [cmd EXCEPT !.k = k + 1]
      /\ UNCHANGED <<table, nav, fpc, text>>
  BY <1>1, <1>2 DEF PutByte
<1>4. /\ Waits /\ Sized(p, t) /\ Unshared(p) /\ p # b /\ Begun(p, t, k)
      /\ q # 0 => Ahead
      /\ t \in TextSet /\ cmd \in Commands /\ k \in Nat /\ q \in {0} \cup Ptrs
  BY <1>0, <1>1 DEF BytesOK, Shape, Commands
<1>5. /\ p \in Live /\ live[p] = Len(t) + 1 /\ Len(t) \in Nat /\ p \in Nat /\ k < Len(t)
      /\ Extent(p, live[p]) \subseteq Blocks
      /\ \A m \in 1 .. Len(t) : t[m] \in Words
  BY <1>0, <1>1, <1>4, RegionIs, TextIs DEF Sized
<1>6. w = t[k + 1] /\ w \in Words
  <2>1. k + 1 \in k + 1 .. Len(t) /\ k + 1 \in 1 .. Len(t)
    BY <1>4, <1>5
  <2>2. ASSUME q # 0 PROVE mem[q + k] = t[k + 1]
    <3>1. mem[q + (k + 1) - 1] = t[k + 1] /\ q \in Nat
      BY <1>1, <1>4, <2>1, <2>2, KmallocAssumption DEF Ahead, Rest, Ptrs
    <3>2. q + (k + 1) - 1 = q + k
      BY <1>4, <3>1
    <3> QED
      BY <3>1, <3>2
  <2> QED
    BY <1>2, <1>5, <2>1, <2>2
<1>7. /\ Next /\ HeapInv' /\ Live' = Live /\ live' = live /\ mem'[p + k] = w
      /\ \A h \in Live \ {p} : Kept(h)
      /\ \A x \in Blocks \ {p + k} : mem'[x] = mem[x]
  <2>1. k < live[p]
    BY <1>4, <1>5
  <2> QED
    BY <1>0, <1>3, <1>4, <1>5, <1>6, <2>1, PutIs
<1>8. \A j \in Slots : Carries(j)
  BY <1>0, <1>3, <1>4, <1>7 DEF Carries, EntriesOK, EntryOK, Sized, Unshared
<1>9. /\ cmd' \in Commands /\ cmd'.new = p /\ cmd'.text = t /\ cmd'.from = q /\ cmd'.buf = b
      /\ cmd'.k = k + 1 /\ cmd'.idx = cmd.idx
  BY <1>1, <1>3, <1>4 DEF Commands
<1>10. Shape'
  BY <1>0, <1>3, <1>9 DEF Shape, nav
<1>11. BufferOK'
  BY <1>0, <1>1, <1>3, <1>7, <1>9 DEF BufferOK, Sized, Unshared
<1>12. Begun(p, t, k + 1)'
  <2> SUFFICES ASSUME NEW m \in 1 .. k + 1 PROVE mem'[p + m - 1] = t[m]
    BY DEF Begun
  <2>1. p + (k + 1) - 1 = p + k /\ (m \in 1 .. k \/ m = k + 1)
    BY <1>4, <1>5
  <2>2. CASE m = k + 1
    BY <1>6, <1>7, <2>1, <2>2
  <2>3. CASE m \in 1 .. k
    <3>1. p + m - 1 \in Extent(p, live[p]) /\ p + m - 1 # p + k
      BY <1>4, <1>5, <2>3 DEF Extent
    <3> QED
      BY <1>4, <1>5, <1>7, <2>3, <3>1 DEF Begun
  <2> QED
    BY <2>1, <2>2, <2>3
<1>13. ASSUME q # 0 PROVE Ahead'
  <2>1. /\ q \in Nat /\ q + Len(t) \in Blocks
        /\ p <= q \/ Extent(p, Len(t) + 1) \cap Extent(q, Len(t) + 1) = {}
        /\ Rest(q, t, k)
    BY <1>1, <1>4, <1>13, KmallocAssumption DEF Ahead, Ptrs
  <2>2. ASSUME NEW m \in (k + 1) + 1 .. Len(t) PROVE mem'[q + m - 1] = t[m]
    <3>1. /\ m \in k + 1 .. Len(t) /\ q + m - 1 \in Blocks
          /\ q + m - 1 \in Extent(q, Len(t) + 1) /\ p + k \in Extent(p, Len(t) + 1)
          /\ p <= q => q + m - 1 # p + k
      BY <1>4, <1>5, <2>1, KmallocAssumption DEF Blocks, Extent
    <3>2. q + m - 1 # p + k
      BY <2>1, <3>1
    <3> QED
      BY <1>7, <2>1, <3>1, <3>2 DEF Rest
  <2> QED
    BY <1>9, <2>1, <2>2 DEF Ahead, Rest
<1>14. BytesOK'
  <2>1. Waits'
    BY <1>3, <1>4, <1>1, <1>9 DEF Waits
  <2>2. Sized(p, t)' /\ Unshared(p)' /\ k + 1 <= Len(t)
    BY <1>3, <1>4, <1>5, <1>7 DEF Sized, Unshared
  <2> QED
    BY <1>4, <1>9, <1>12, <1>13, <2>1, <2>2 DEF BytesOK, Sized, Unshared, Begun
<1>15. FillOK' /\ OpenOK' /\ AllocOK'
  BY <1>0, <1>3 DEF FillOK, OpenOK, AllocOK
<1> QED
  BY <1>0, <1>7, <1>8, <1>10, <1>11, <1>14, <1>15, EntriesStay DEF RamInv

LEMMA PutEndKeeps ==
  ASSUME RamInv, PutEnd
  PROVE  RamInv' /\ [Next]_vars
<1>0. /\ HeapInv /\ Shape /\ EntriesOK /\ BufferOK /\ BytesOK
      /\ fpc = "bytes" /\ cmd.k = Len(cmd.text)
  BY DEF RamInv, PutEnd
<1>1. PICK p, t, e, b : p = cmd.new /\ t = cmd.text /\ e = cmd.idx /\ b = cmd.buf
  OBVIOUS
<1>2. /\ Put(p + Len(t), 0) /\ text' = [text EXCEPT ![e] = t] /\ Return /\ UNCHANGED nav
      /\ table' = [table EXCEPT ![e].data = p, ![e].size = Len(t)]
  BY <1>0, <1>1 DEF PutEnd
<1>3. /\ Sized(p, t) /\ Unshared(p) /\ p # b /\ Begun(p, t, Len(t))
      /\ t \in TextSet /\ e \in Slots /\ cmd \in Commands
  BY <1>0, <1>1 DEF BytesOK, Shape, Commands
<1>4. /\ p \in Live /\ live[p] = Len(t) + 1 /\ Len(t) \in Nat /\ p \in Nat /\ p > 0 /\ p \in Ptrs
      /\ Extent(p, live[p]) \subseteq Blocks
  BY <1>0, <1>3, RegionIs, TextIs DEF Sized
<1>5. /\ Next /\ HeapInv' /\ Live' = Live /\ live' = live /\ mem'[p + Len(t)] = 0
      /\ \A h \in Live \ {p} : Kept(h)
      /\ \A x \in Blocks \ {p + Len(t)} : mem'[x] = mem[x]
  <2>1. Len(t) < live[p] /\ 0 \in Words
    BY <1>4, FsHeapAssumption
  <2> QED
    BY <1>0, <1>2, <1>4, <2>1, PutIs
<1>6. PICK d : d = [table[e] EXCEPT !.data = p, !.size = Len(t)]
  OBVIOUS
<1>7. d \in Entries /\ d.data = p /\ d.size = Len(t)
  BY <1>0, <1>3, <1>4, <1>6 DEF Shape, Entries
<1>8. table' = [table EXCEPT ![e] = d]
  BY <1>0, <1>2, <1>3, <1>6 DEF Shape
<1>9. table' \in [Slots -> Entries] /\ table'[e] = d /\ \A j \in Slots \ {e} : table'[j] = table[j]
  BY <1>0, <1>3, <1>7, <1>8 DEF Shape
<1>10. text' \in [Slots -> TextSet] /\ text'[e] = t /\ \A j \in Slots \ {e} : text'[j] = text[j]
  BY <1>0, <1>2, <1>3 DEF Shape
<1>11. \A j \in Slots \ {e} : Carries(j)
  BY <1>0, <1>3, <1>5, <1>9, <1>10 DEF Carries, EntriesOK, EntryOK, Sized, Unshared
<1>12. Holds(p, t)'
  <2>1. p + Len(t) \in Extent(p, live[p])
    BY <1>4 DEF Extent
  <2>2. ASSUME NEW m \in 1 .. Len(t) PROVE mem'[p + m - 1] = t[m]
    <3>1. p + m - 1 \in Extent(p, live[p]) /\ p + m - 1 # p + Len(t)
      BY <1>4 DEF Extent
    <3> QED
      BY <1>3, <1>4, <1>5, <3>1 DEF Begun
  <2> QED
    BY <1>4, <1>5, <2>1, <2>2 DEF Holds
<1>13. EntryOK(e)'
  <2>1. Sized(p, t)'
    BY <1>3, <1>5 DEF Sized
  <2>2. table'[e].data = p /\ table'[e].size = Len(t) /\ text'[e] = t /\ p # 0
    BY <1>4, <1>7, <1>9, <1>10
  <2>3. Sized(table[e].data, text[e])' /\ Holds(table[e].data, text[e])'
    BY <1>12, <2>1, <2>2 DEF Sized, Holds
  <2> QED
    BY <2>2, <2>3 DEF EntryOK
<1>14. EntriesOK'
  BY <1>0, <1>3, <1>7, <1>9, <1>11, <1>13, EntriesChange DEF Unshared
<1>15. cmd.buf # 0 => Kept(cmd.buf)
  BY <1>0, <1>1, <1>3, <1>5 DEF BufferOK, Sized
<1>16. \A j \in Slots : table'[j].data # 0 => table'[j].data # cmd.buf
  BY <1>0, <1>1, <1>3, <1>4, <1>7, <1>9 DEF BufferOK, Unshared
<1>17. WritingOK' /\ cmd' \in Commands /\ fpc' \in Places
  BY <1>0, <1>2, <1>15, <1>16, Returns
<1>18. Shape'
  BY <1>0, <1>2, <1>9, <1>10, <1>17 DEF Shape, nav
<1> QED
  BY <1>5, <1>14, <1>17, <1>18 DEF RamInv, WritingOK

-------------------------------------------------------------------------------
LEMMA RamStarts ==
  ASSUME RamInit
  PROVE  RamInv
<1>1. HeapInv
  BY InitHeapInv DEF RamInit
<1>2. RootDir \in Entries /\ RootDir.data = 0 /\ RootDir.type = "dir"
      /\ Unused \in Entries /\ Unused.data = 0 /\ Unused.type = "free"
  BY Sizes0 DEF RootDir, Unused, Entries
<1>3. /\ table \in [Slots -> Entries] /\ text \in [Slots -> TextSet]
      /\ \A j \in Slots : table[j].data = 0 /\ table[j].type # "file"
  BY <1>2, NothingTyped DEF RamInit
<1>4. Shape
  BY <1>3, NoCmdIs, Sizes0 DEF RamInit, Shape, Places
<1>5. EntriesOK
  BY <1>3 DEF EntriesOK, EntryOK
<1>6. BufferOK /\ FillOK /\ OpenOK /\ AllocOK /\ BytesOK
  BY NoCmdIs DEF RamInit, BufferOK, FillOK, OpenOK, AllocOK, BytesOK
<1> QED
  BY <1>1, <1>4, <1>5, <1>6 DEF RamInv

LEMMA RamStutters ==
  ASSUME RamInv, UNCHANGED allVars
  PROVE  RamInv' /\ [Next]_vars
<1>1. UNCHANGED <<vars, table, nav, fpc, cmd, text>>
  BY DEF allVars, fileVars
<1>2. HeapInv' /\ EntriesOK' /\ [Next]_vars
  BY <1>1, Quiet
<1>3. UNCHANGED <<bitmap, mem, live, ret>> /\ Live' = Live
  BY <1>1 DEF vars, Live
<1>4. Shape' /\ BufferOK' /\ FillOK' /\ OpenOK'
  BY <1>1, <1>3 DEF RamInv, Shape, nav, BufferOK, FillOK, OpenOK, Sized, Unshared, Begun, Holds
<1>5. AllocOK' /\ BytesOK'
  BY <1>1, <1>3 DEF RamInv, AllocOK, BytesOK, Sized, Unshared, Begun, Holds, Waits, Gap, Ahead, Rest
<1> QED
  BY <1>2, <1>4, <1>5 DEF RamInv

LEMMA RamKeeps ==
  ASSUME RamInv, [RamNext]_allVars
  PROVE  RamInv' /\ [Next]_vars
<1>1. CASE Command
  <2>1. CASE CdUp \/ SwitchTty \/ \E name \in DirNames : Cd(name)
    BY <2>1, NavigationKeeps
  <2>2. CASE \E name \in DirNames : Mkdir(name)
    BY <2>2, MkdirKeeps
  <2>3. CASE Format \/ \E name \in DirNames : Del(name)
    BY <2>3, RemovalKeeps
  <2>4. CASE \E key \in FileKeys : \E typed \in Texts : Write(key, typed) \/ AppendTo(key, typed)
    BY <2>4, WriteKeeps, AppendKeeps
  <2>5. CASE \E key \in FileKeys : \E dest \in Slots : Copy(key, dest)
    BY <2>5, CopyKeeps
  <2>6. CASE \E key \in FileKeys : \E new \in FileKeys : Rename(key, new)
    BY <2>6, RenameKeeps
  <2> QED
    BY <1>1, <2>1, <2>2, <2>3, <2>4, <2>5, <2>6 DEF Command
<1>2. CASE Step
  <2>1. CASE Enter \/ Leave
    BY <2>1, RemovalKeeps
  <2>2. CASE RemoveEntry \/ FormatEntry
    BY <2>2, RemoveKeeps
  <2> QED
    BY <1>2, <2>1, <2>2, FillKeeps, OpenKeeps, OpenFailsKeeps, AllocKeeps, PutByteKeeps,
       PutEndKeeps, TidyKeeps, RemoveDirKeeps, FormatEndKeeps DEF Step
<1>3. CASE UNCHANGED allVars
  BY <1>3, RamStutters
<1> QED
  BY <1>1, <1>2, <1>3 DEF RamNext

(* What every command on drive H: relies on holds at each of its steps. *)
THEOREM RamInvariant == RamSpec => []RamInv
<1>1. RamInit => RamInv
  BY RamStarts
<1>2. RamInv /\ [RamNext]_allVars => RamInv'
  BY RamKeeps
<1> QED
  BY <1>1, <1>2, PTL DEF RamSpec

(* Whatever commands users give, the file system and the shell use the heap
   as kmalloc.c needs it used. *)
THEOREM CallersKeepTheContract == RamSpec => CallersKeepContract
<1>1. RamInit => Init
  BY DEF RamInit
<1>2. RamInv /\ [RamNext]_allVars => [Next]_vars
  BY RamKeeps
<1> QED
  BY <1>1, <1>2, RamInvariant, PTL DEF RamSpec, CallersKeepContract, Spec

LEMMA FilesRead ==
  ASSUME RamInv
  PROVE  FilesKeepText
<1> SUFFICES ASSUME NEW j \in Slots, table[j].type = "file"
             PROVE  TextAt(table[j].data) = text[j] /\ table[j].size = Len(text[j])
  BY DEF FilesKeepText
<1>1. HeapInv /\ EntryOK(j) /\ text[j] \in TextSet
  BY DEF RamInv, EntriesOK, Shape
<1>2. PICK p, t : p = table[j].data /\ t = text[j]
  OBVIOUS
<1>3. table[j].size = Len(t) /\ (p = 0 => t = <<>>) /\ (p # 0 => Holds(p, t)) /\ t \in TextSet
  BY <1>1, <1>2 DEF EntryOK
<1>4. CASE p = 0
  BY <1>2, <1>3, <1>4, NothingReads
<1>5. CASE p # 0
  BY <1>1, <1>2, <1>3, <1>5, HoldsReads
<1> QED
  BY <1>4, <1>5

(* Between two commands every file reads as it was last written, whatever was
   copied onto itself or appended to on the way. *)
THEOREM FilesReadAsWritten == RamSpec => []FilesKeepText
BY RamInvariant, FilesRead, PTL

-------------------------------------------------------------------------------
(* Who has what is in use. *)

LEMMA OwnedIs ==
  ASSUME NEW x
  PROVE  x \in Owned <=> /\ x # 0
                         /\ \/ \E j \in Slots : table[j].data = x
                            \/ cmd.buf = x
                            \/ fpc = "bytes" /\ cmd.new = x
BY DEF Owned

LEMMA OwnedIsNext ==
  ASSUME NEW x
  PROVE  x \in Owned' <=> /\ x # 0
                          /\ \/ \E j \in Slots : table'[j].data = x
                             \/ cmd'.buf = x
                             \/ fpc' = "bytes" /\ cmd'.new = x
BY DEF Owned

(* Nothing changes hands. *)
LEMMA OwnersStay ==
  ASSUME Live = Owned, Live' = Live, \A j \in Slots : table'[j].data = table[j].data,
         cmd'.buf = cmd.buf, fpc' = "bytes" <=> fpc = "bytes", fpc = "bytes" => cmd'.new = cmd.new
  PROVE  (Live = Owned)'
<1>1. \A x : x \in Owned <=> x \in Owned'
  BY OwnedIs, OwnedIsNext, Zenon
<1> QED
  BY <1>1

(* A command at the prompt has no buffer; none of these allocates. *)
LEMMA OwnersOfBegun ==
  ASSUME RamInv, OwnersInv,
         \/ CdUp \/ SwitchTty \/ Format
         \/ \E name \in DirNames : Cd(name) \/ Del(name)
         \/ \E key \in FileKeys : \/ \E typed \in Texts : Write(key, typed)
                                  \/ \E dest \in Slots : Copy(key, dest)
  PROVE  OwnersInv'
<1>0. fpc = "prompt" /\ cmd.buf = 0 /\ Live = Owned /\ KindsOK
  BY DEF RamInv, BufferOK, OwnersInv, CdUp, SwitchTty, Format, Cd, Del, Write, Copy, Start, Prompt
<1>1. UNCHANGED <<vars, table>> /\ Live' = Live
  BY DEF CdUp, SwitchTty, Format, Cd, Del, Write, Copy, vars, Live
<1>2. /\ fpc' \in {"prompt", "format", "open", "delete"} /\ cmd'.buf = 0
      /\ fpc' = "delete" => \E name \in DirNames : Del(name)
  <2>1. CASE CdUp \/ SwitchTty \/ \E name \in DirNames : Cd(name)
    BY <1>0, <2>1 DEF CdUp, SwitchTty, Cd
  <2>2. CASE Format
    BY <2>2, NoCmdIs DEF Format, Start
  <2>3. CASE \E name \in DirNames : Del(name)
    BY <2>3 DEF Del, Start, NoCmd
  <2>4. CASE \E key \in FileKeys : \/ \E typed \in Texts : Write(key, typed)
                                   \/ \E dest \in Slots : Copy(key, dest)
    BY <2>4 DEF Write, Copy, Start, NoCmd
  <2> QED
    BY <2>1, <2>2, <2>3, <2>4
<1>3. (Live = Owned)'
  BY <1>0, <1>1, <1>2, OwnersStay
<1>4. ASSUME fpc' = "delete" PROVE table'[cmd'.idx].type # "file"
  <2>1. PICK e : /\ table[e].type = "dir"
                 /\ cmd' = [NoCmd EXCEPT !.idx = e, !.path = <<Low(e)>>]
    BY <1>2, <1>4 DEF Del, Start, FoundDir
  <2>2. cmd'.idx = e
    BY <2>1 DEF NoCmd
  <2> QED
    BY <1>1, <2>1, <2>2
<1> QED
  BY <1>0, <1>1, <1>2, <1>3, <1>4 DEF OwnersInv, KindsOK

LEMMA OwnersOfMkdir ==
  ASSUME RamInv, OwnersInv, NEW name \in DirNames, Mkdir(name)
  PROVE  OwnersInv'
<1>0. Shape /\ Live = Owned /\ KindsOK
  BY DEF RamInv, OwnersInv
<1>1. PICK e \in Slots : ~Used(e) /\
        table' = [table EXCEPT ![e] = [RootDir EXCEPT !.parent = cwd, !.name = name]]
  BY DEF Mkdir, FreeSlot, Lowest
<1>2. UNCHANGED <<vars, nav, fpc, cmd, text>> /\ fpc = "prompt" /\ Live' = Live
  BY DEF Mkdir, Prompt, vars, Live
<1>3. RootDir.data = 0 /\ RootDir.type = "dir" /\ RootDir \in Entries
  BY Sizes0 DEF RootDir, Unused, Entries
<1>4. PICK d : d = [RootDir EXCEPT !.parent = cwd, !.name = name]
  OBVIOUS
<1>5. d.data = 0 /\ d.type = "dir" /\ d.name = name
  BY <1>3, <1>4 DEF Entries
<1>6. table'[e] = d /\ \A j \in Slots \ {e} : table'[j] = table[j]
  BY <1>0, <1>1, <1>4 DEF Shape
<1>7. table[e].data = 0
  BY <1>0, <1>1 DEF KindsOK, Used
<1>8. (Live = Owned)'
  BY <1>0, <1>2, <1>5, <1>6, <1>7, OwnersStay
<1> QED
  BY <1>0, <1>2, <1>5, <1>6, <1>8 DEF OwnersInv, KindsOK

LEMMA OwnersOfRename ==
  ASSUME RamInv, OwnersInv, NEW key \in FileKeys, NEW new \in FileKeys, Rename(key, new)
  PROVE  OwnersInv'
<1>0. Shape /\ Live = Owned /\ KindsOK
  BY DEF RamInv, OwnersInv
<1>1. PICK e \in Slots : table[e].type = "file"
                        /\ table' = [table EXCEPT ![e].name = new[1], ![e].ext = new[2]]
  BY DEF Rename, Found, Lowest
<1>2. UNCHANGED <<vars, nav, fpc, cmd, text>> /\ fpc = "prompt" /\ Live' = Live
  BY DEF Rename, Prompt, vars, Live
<1>3. PICK d : d = [table[e] EXCEPT !.name = new[1], !.ext = new[2]]
  OBVIOUS
<1>4. d.data = table[e].data /\ d.type = "file"
  BY <1>0, <1>1, <1>3 DEF Shape, Entries
<1>5. table' = [table EXCEPT ![e] = d]
  BY <1>0, <1>1, <1>3 DEF Shape
<1>6. table'[e] = d /\ \A j \in Slots \ {e} : table'[j] = table[j]
  BY <1>0, <1>5 DEF Shape
<1>7. (Live = Owned)'
  BY <1>0, <1>2, <1>4, <1>6, OwnersStay
<1> QED
  BY <1>0, <1>2, <1>4, <1>6, <1>7 DEF OwnersInv, KindsOK

LEMMA OwnersOfAppend ==
  ASSUME RamInv, OwnersInv, NEW key \in FileKeys, NEW typed \in Texts, AppendTo(key, typed), RamInv'
  PROVE  OwnersInv'
<1>0. HeapInv /\ Shape /\ EntriesOK /\ Live = Owned /\ KindsOK /\ fpc = "prompt" /\ cmd.buf = 0
  BY DEF RamInv, OwnersInv, BufferOK, AppendTo, Start, Prompt
<1>1. PICK all : /\ all = IF TextAt(DataOf(key)) = <<>> THEN typed
                          ELSE TextAt(DataOf(key)) \o <<NewLine>> \o typed
                 /\ Len(all) <= MaxText
                 /\ \/ /\ KmallocFound(Len(all) + 1)
                       /\ Start("fill", [NoCmd EXCEPT !.key = key, !.dir = cwd, !.text = all,
                                                      !.from = ret', !.buf = ret'])
                    \/ Prompt /\ KmallocNull(Len(all) + 1) /\ UNCHANGED <<fpc, cmd>>
  BY DEF AppendTo
<1>2. typed # <<>> /\ UNCHANGED <<table, nav, text>>
  BY DEF AppendTo
<1>3. Len(all) + 1 \in Sizes
  <2>1. TextAt(DataOf(key)) \in TextSet
    BY <1>0, DataOfIs
  <2>2. all \in TextSet /\ all # <<>>
    BY <1>1, <1>2, <2>1, AppendTyped
  <2> QED
    BY <2>2, TextIs
<1>4. CASE Prompt /\ KmallocNull(Len(all) + 1) /\ UNCHANGED <<fpc, cmd>>
  <2>1. Live' = Live
    BY <1>0, <1>3, <1>4, NullIs
  <2>2. (Live = Owned)'
    BY <1>0, <1>2, <1>4, <2>1, OwnersStay
  <2> QED
    BY <1>0, <1>2, <1>4, <2>2 DEF OwnersInv, KindsOK
<1>5. CASE KmallocFound(Len(all) + 1) /\ fpc' = "fill"
           /\ cmd' = [NoCmd EXCEPT !.key = key, !.dir = cwd, !.text = all, !.from = ret', !.buf = ret']
  <2>1. Live' = Live \cup {ret'} /\ ret' \in Ptrs /\ ret' # 0
    BY <1>0, <1>3, <1>5, AllocIs, KmallocAssumption DEF Ptrs
  <2>2. cmd'.buf = ret'
    BY <1>5 DEF NoCmd
  <2>3. \A x : x \in Owned' <=> x \in Owned \/ x = ret'
    BY <1>0, <1>2, <1>5, <2>1, <2>2, OwnedIs, OwnedIsNext
  <2>4. (Live = Owned)'
    BY <1>0, <2>1, <2>3
  <2> QED
    BY <1>0, <1>2, <1>5, <2>4 DEF OwnersInv, KindsOK
<1> QED
  BY <1>1, <1>4, <1>5 DEF Start

(* fs_write_in. *)

LEMMA Returned ==
  ASSUME Return
  PROVE  cmd'.buf = cmd.buf /\ fpc' \in {"prompt", "tidy"}
BY NoCmdIs DEF Return, Done

LEMMA OwnersOfWrite ==
  ASSUME RamInv, OwnersInv, Fill \/ OpenFails \/ PutByte \/ Enter \/ Leave, RamInv'
  PROVE  OwnersInv'
<1>0. Shape /\ Live = Owned /\ KindsOK /\ cmd \in Commands
  BY DEF RamInv, OwnersInv, Shape
<1>1. UNCHANGED <<live, table>>
  BY DEF Fill, OpenFails, PutByte, Enter, Leave, Put, vars
<1>2. Live' = Live
  BY <1>1 DEF Live
<1>3. /\ cmd'.buf = cmd.buf /\ (fpc' = "bytes" <=> fpc = "bytes")
      /\ fpc = "bytes" => cmd'.new = cmd.new /\ cmd'.idx = cmd.idx
      /\ fpc' = "delete" => fpc = "delete" /\ cmd'.idx = cmd.idx
      /\ fpc' # "alloc"
  <2>1. CASE Fill
    BY <1>0, <2>1 DEF Fill, Commands
  <2>2. CASE OpenFails
    BY <2>2, Returned DEF OpenFails
  <2>3. CASE PutByte
    BY <1>0, <2>3 DEF PutByte, Commands
  <2>4. CASE Enter \/ Leave
    BY <1>0, <2>4 DEF Enter, Leave, Commands
  <2> QED
    BY <2>1, <2>2, <2>3, <2>4
<1>4. (Live = Owned)'
  BY <1>0, <1>1, <1>2, <1>3, OwnersStay
<1> QED
  BY <1>0, <1>1, <1>3, <1>4 DEF OwnersInv, KindsOK

(* A file is found by its own name only. *)
LEMMA FoundIsFile ==
  ASSUME NamesApart, KindsOK, Shape, NEW key \in FileKeys, NEW d, NEW e \in Found(key, d)
  PROVE  table[e].type = "file"
<1>1. e \in Slots /\ table[e].type # "free" /\ table[e].name = key[1]
  BY DEF Found, Lowest, Used
<1>2. key[1] \notin DirNames /\ key[1] # NoName
  BY FsHeapAssumption DEF NamesApart
<1>3. table[e].type # "dir"
  BY <1>1, <1>2 DEF KindsOK
<1> QED
  BY <1>1, <1>3 DEF Shape, Entries

LEMMA OwnersOfOpen ==
  ASSUME NamesApart, RamInv, OwnersInv, Open
  PROVE  OwnersInv'
<1>0. /\ HeapInv /\ Shape /\ EntriesOK /\ BufferOK /\ Live = Owned /\ KindsOK
      /\ fpc = "open" /\ cmd.key \in FileKeys /\ cmd \in Commands
  BY DEF RamInv, OwnersInv, OpenOK, Open, Shape
<1>1. PICK e \in IF Found(cmd.key, cmd.dir) = {} THEN FreeSlot ELSE Found(cmd.key, cmd.dir) :
        /\ FreeIfAny(IF Used(e) THEN table[e].data ELSE 0)
        /\ table' = [table EXCEPT ![e] = Made(@)]
        /\ IF cmd.text = <<>> THEN Return
             ELSE cmd' = [cmd EXCEPT !.idx = e] /\ fpc' = "alloc"
  BY DEF Open
<1>2. e \in Slots /\ table[e].type \in {"free", "file"}
  <2>1. CASE e \in FreeSlot
    BY <2>1 DEF FreeSlot, Lowest, Used
  <2>2. CASE e \in Found(cmd.key, cmd.dir)
    BY <1>0, <2>2, FoundIsFile DEF Found, Lowest
  <2> QED
    BY <1>1, <2>1, <2>2
<1>3. PICK d, p : d = Made(table[e]) /\ p = table[e].data
  OBVIOUS
<1>4. d.data = 0 /\ d.type = "file"
  BY <1>0, <1>2, <1>3, MadeIs DEF Shape
<1>5. table'[e] = d /\ \A j \in Slots \ {e} : table'[j] = table[j]
  BY <1>0, <1>1, <1>2, <1>3 DEF Shape
<1>6. FreeIfAny(p)
  BY <1>0, <1>1, <1>2, <1>3 DEF KindsOK, Used
<1>7. Live' = Live \ {p}
  <2>1. CASE p = 0
    <3>1. Live' = Live
      BY <1>0, <1>6, <2>1, HeapStays DEF FreeIfAny
    <3>2. 0 \notin Live
      BY <1>0, OwnedIs
    <3> QED
      BY <2>1, <3>1, <3>2
  <2>2. CASE p # 0
    <3>1. p \in Live /\ Free(p)
      BY <1>0, <1>2, <1>3, <1>6, <2>2 DEF FreeIfAny, EntriesOK, EntryOK, Sized
    <3> QED
      BY <1>0, <3>1, FreeIs
  <2> QED
    BY <2>1, <2>2
<1>8. cmd'.buf = cmd.buf /\ fpc' \notin {"bytes", "delete"} /\ (fpc' = "alloc" => cmd'.idx = e)
  <2>1. CASE cmd.text = <<>>
    BY <1>1, <2>1, Returned
  <2>2. CASE cmd.text # <<>>
    BY <1>0, <1>1, <2>2 DEF Commands
  <2> QED
    BY <2>1, <2>2
<1>9. \A x : x \in Owned' <=> x \in Owned /\ x # p
  <2>1. p # 0 => cmd.buf # p /\ \A j \in Slots \ {e} : table[j].data # p
    BY <1>0, <1>2, <1>3 DEF BufferOK, Unshared, EntriesOK
  <2> QED
    BY <1>0, <1>2, <1>3, <1>4, <1>5, <1>8, <2>1, OwnedIs, OwnedIsNext
<1>10. (Live = Owned)'
  <2>1. Owned' = Owned \ {p}
    BY <1>9
  <2> QED
    BY <1>0, <1>7, <2>1
<1>11. KindsOK'
  <2>1. \A j \in Slots : table'[j].type = "file" \/ table'[j] = table[j]
    BY <1>4, <1>5
  <2>2. fpc' = "alloc" => table'[cmd'.idx].type = "file"
    BY <1>4, <1>5, <1>8
  <2>3. \A j \in Slots : table[j].type # "file" => table[j].data = 0
    BY <1>0 DEF KindsOK
  <2>4. \A j \in Slots : table[j].type = "dir" => table[j].name \in DirNames \cup {NoName}
    BY <1>0 DEF KindsOK
  <2>5. \A j \in Slots : table'[j].type # "file" => table'[j].data = 0
    BY <2>1, <2>3
  <2>6. \A j \in Slots : table'[j].type = "dir" => table'[j].name \in DirNames \cup {NoName}
    <3> TAKE j \in Slots
    <3> HAVE table'[j].type = "dir"
    <3>1. table'[j] = table[j]
      BY <2>1
    <3> QED
      BY <2>4, <3>1
  <2> QED
    BY <1>8, <2>2, <2>5, <2>6 DEF KindsOK
<1> QED
  BY <1>10, <1>11 DEF OwnersInv

LEMMA OwnersOfAlloc ==
  ASSUME RamInv, OwnersInv, Alloc
  PROVE  OwnersInv'
<1>0. /\ HeapInv /\ Shape /\ Live = Owned /\ KindsOK /\ AllocOK
      /\ fpc = "alloc" /\ cmd \in Commands /\ UNCHANGED table
  BY DEF RamInv, OwnersInv, Alloc, Shape
<1>1. cmd.text \in TextSet /\ cmd.text # <<>>
  BY <1>0 DEF AllocOK, Waits, Commands
<1>2. Len(cmd.text) + 1 \in Sizes
  BY <1>1, TextIs
<1>3. CASE KmallocNull(Len(cmd.text) + 1) /\ Return
  <2>1. Live' = Live
    BY <1>0, <1>2, <1>3, NullIs
  <2>2. cmd'.buf = cmd.buf /\ fpc' \in {"prompt", "tidy"}
    BY <1>3, Returned
  <2>3. (Live = Owned)'
    BY <1>0, <2>1, <2>2, OwnersStay
  <2> QED
    BY <1>0, <2>2, <2>3 DEF OwnersInv, KindsOK
<1>4. CASE KmallocFound(Len(cmd.text) + 1) /\ cmd' = [cmd EXCEPT !.new = ret'] /\ fpc' = "bytes"
  <2>1. Live' = Live \cup {ret'} /\ ret' # 0
    BY <1>0, <1>2, <1>4, AllocIs, KmallocAssumption DEF Ptrs
  <2>2. cmd'.new = ret' /\ cmd'.buf = cmd.buf /\ cmd'.idx = cmd.idx
    BY <1>0, <1>4 DEF Commands
  <2>3. \A x : x \in Owned' <=> x \in Owned \/ x = ret'
    BY <1>0, <1>4, <2>1, <2>2, OwnedIs, OwnedIsNext
  <2>4. Owned' = Owned \cup {ret'}
    BY <2>3
  <2>5. (Live = Owned)'
    BY <1>0, <2>1, <2>4
  <2> QED
    BY <1>0, <1>4, <2>2, <2>5 DEF OwnersInv, KindsOK
<1> QED
  BY <1>3, <1>4 DEF Alloc

LEMMA OwnersOfPutEnd ==
  ASSUME RamInv, OwnersInv, PutEnd
  PROVE  OwnersInv'
<1>0. /\ Shape /\ Live = Owned /\ KindsOK /\ BytesOK /\ fpc = "bytes" /\ cmd.idx \in Slots
      /\ cmd.k = Len(cmd.text)
  BY DEF RamInv, OwnersInv, PutEnd, Shape, Commands
<1>1. PICK p, e, n : p = cmd.new /\ e = cmd.idx /\ n = Len(cmd.text)
  OBVIOUS
<1>2. /\ table' = [table EXCEPT ![e].data = p, ![e].size = n]
      /\ UNCHANGED live /\ cmd'.buf = cmd.buf /\ fpc' \in {"prompt", "tidy"}
  BY <1>0, <1>1, Returned DEF PutEnd, Put
<1>3. PICK d : d = [table[e] EXCEPT !.data = p, !.size = n]
  OBVIOUS
<1>4. d.data = p /\ d.type = "file" /\ e \in Slots
  BY <1>0, <1>1, <1>3 DEF Shape, Entries, KindsOK
<1>5. table' = [table EXCEPT ![e] = d]
  BY <1>0, <1>2, <1>3, <1>4 DEF Shape
<1>6. table'[e] = d /\ \A j \in Slots \ {e} : table'[j] = table[j]
  BY <1>0, <1>4, <1>5 DEF Shape
<1>7. Live' = Live /\ table[e].data = 0
  BY <1>0, <1>1, <1>2 DEF Live, BytesOK, Waits
<1>8. \A x : x \in Owned' <=> x \in Owned
  <2> TAKE x
  <2>1. x \in Owned <=> x # 0 /\ ((\E j \in Slots : table[j].data = x) \/ cmd.buf = x \/ p = x)
    BY <1>0, <1>1, OwnedIs
  <2>2. x \in Owned' <=> x # 0 /\ ((\E j \in Slots : table'[j].data = x) \/ cmd.buf = x)
    BY <1>2, OwnedIsNext
  <2>3. table'[e].data = p /\ table[e].data = 0
    BY <1>4, <1>6, <1>7
  <2> QED
    BY <1>4, <1>6, <2>1, <2>2, <2>3
<1>9. (Live = Owned)'
  <2>1. Owned' = Owned
    BY <1>8
  <2> QED
    BY <1>0, <1>7, <2>1
<1>10. KindsOK'
  <2>1. \A j \in Slots : table'[j].type = "file" \/ table'[j] = table[j]
    BY <1>4, <1>6
  <2> QED
    BY <1>0, <1>2, <2>1 DEF KindsOK
<1> QED
  BY <1>9, <1>10 DEF OwnersInv

LEMMA OwnersOfTidy ==
  ASSUME RamInv, OwnersInv, Tidy
  PROVE  OwnersInv'
<1>0. HeapInv /\ Live = Owned /\ KindsOK /\ BufferOK
  BY DEF RamInv, OwnersInv
<1>1. Free(cmd.buf) /\ fpc' = "prompt" /\ cmd' = NoCmd /\ UNCHANGED table /\ fpc = "tidy"
  BY DEF Tidy, Done
<1>2. cmd.buf \in Live /\ Unshared(cmd.buf)
  BY <1>0, <1>1 DEF BufferOK, Sized
<1>3. Live' = Live \ {cmd.buf}
  BY <1>0, <1>1, <1>2, FreeIs
<1>4. cmd'.buf = 0
  BY <1>1, NoCmdIs
<1>5. \A x : x \in Owned' <=> x \in Owned /\ x # cmd.buf
  BY <1>0, <1>1, <1>2, <1>4, OwnedIs, OwnedIsNext DEF Unshared
<1>6. Owned' = Owned \ {cmd.buf}
  BY <1>5
<1>7. (Live = Owned)'
  BY <1>0, <1>3, <1>6
<1> QED
  BY <1>0, <1>1, <1>7 DEF OwnersInv, KindsOK

-------------------------------------------------------------------------------
(* The commands that remove. *)

LEMMA OwnersOfRemoval ==
  ASSUME RamInv, OwnersInv, RemoveEntry \/ FormatEntry
  PROVE  OwnersInv'
<1>0. HeapInv /\ Shape /\ EntriesOK /\ Live = Owned /\ KindsOK
  BY DEF RamInv, OwnersInv
<1>1. fpc \in {"delete", "format"} /\ UNCHANGED <<fpc, cmd>> /\ cmd.buf = 0
  BY DEF RemoveEntry, FormatEntry, RamInv, BufferOK
<1>2. PICK e \in Slots : /\ FreeIfAny(table[e].data)
                         /\ table' = [table EXCEPT ![e] = [Freed(@) EXCEPT !.data = 0]]
  <2>1. CASE RemoveEntry
    BY <2>1 DEF RemoveEntry, Hand, Lowest, Children
  <2>2. CASE FormatEntry
    BY <2>2 DEF FormatEntry, Pointing, Lowest, FreeIfAny
  <2> QED
    BY <2>1, <2>2
<1>3. PICK d, p : d = [Freed(table[e]) EXCEPT !.data = 0] /\ p = table[e].data
  OBVIOUS
<1>4. d.type = "free" /\ d.data = 0
  BY <1>0, <1>3, FreedTyped DEF Shape
<1>5. table'[e] = d /\ \A j \in Slots \ {e} : table'[j] = table[j]
  BY <1>0, <1>2, <1>3 DEF Shape
<1>6. Live' = Live \ {p}
  <2>1. CASE p = 0
    <3>1. Live' = Live
      BY <1>0, <1>2, <1>3, <2>1, HeapStays DEF FreeIfAny
    <3>2. 0 \notin Live
      BY <1>0, OwnedIs
    <3> QED
      BY <2>1, <3>1, <3>2
  <2>2. CASE p # 0
    <3>1. p \in Live /\ Free(p)
      BY <1>0, <1>2, <1>3, <2>2 DEF FreeIfAny, EntriesOK, EntryOK, Sized
    <3> QED
      BY <1>0, <3>1, FreeIs
  <2> QED
    BY <2>1, <2>2
<1>7. \A x : x \in Owned' <=> x \in Owned /\ x # p
  <2>1. p # 0 => \A j \in Slots \ {e} : table[j].data # p
    BY <1>0, <1>3 DEF EntriesOK
  <2>2. table[e].data = p /\ table'[e].data = 0
    BY <1>3, <1>4, <1>5
  <2> TAKE x
  <2>3. x \in Owned <=> x # 0 /\ \E j \in Slots : table[j].data = x
    BY <1>1, OwnedIs
  <2>4. x \in Owned' <=> x # 0 /\ \E j \in Slots : table'[j].data = x
    BY <1>1, OwnedIsNext
  <2> QED
    BY <1>5, <2>1, <2>2, <2>3, <2>4
<1>8. (Live = Owned)'
  <2>1. Owned' = Owned \ {p}
    BY <1>7
  <2> QED
    BY <1>0, <1>6, <2>1
<1>9. KindsOK'
  <2>1. \A j \in Slots : (table'[j].type = "free" /\ table'[j].data = 0) \/ table'[j] = table[j]
    BY <1>4, <1>5
  <2>2. fpc = "delete" => table'[cmd.idx].type # "file"
    BY <1>0, <2>1 DEF KindsOK, Shape, Commands
  <2> QED
    BY <1>0, <1>1, <2>1, <2>2 DEF KindsOK
<1> QED
  BY <1>8, <1>9 DEF OwnersInv

LEMMA NothingPoints ==
  ASSUME Pointing = {}
  PROVE  \A j \in Slots \ {Root} : table[j].data = 0
<1> SUFFICES ASSUME NEW j \in Slots \ {Root}, table[j].data # 0 PROVE FALSE
  OBVIOUS
<1> DEFINE rest == {h \in Slots \ {Root} : table[h].data # 0}
<1>1. rest \subseteq Nat /\ rest # {}
  BY Sizes0
<1>2. \E x \in rest : \A y \in rest : x <= y
  BY <1>1, LeastNat
<1> QED
  BY <1>2 DEF Pointing, Lowest

LEMMA OwnersOfRemoved ==
  ASSUME RamInv, OwnersInv, RemoveDir \/ FormatEnd
  PROVE  OwnersInv'
<1>0. Shape /\ Live = Owned /\ KindsOK
  BY DEF RamInv, OwnersInv
<1>1. /\ UNCHANGED vars /\ fpc' = "prompt" /\ cmd' = NoCmd /\ fpc # "bytes" /\ cmd.buf = 0
      /\ \A j \in Slots : table'[j] = table[j] \/ (table'[j] = Freed(table[j]) /\ table[j].data = 0)
  <2>1. CASE RemoveDir
    <3>1. /\ table' = [table EXCEPT ![cmd.idx] = Freed(@)] /\ table[cmd.idx].data = 0
          /\ cmd.idx \in Slots
      BY <1>0, <2>1 DEF RemoveDir, KindsOK, Shape, Commands
    <3>2. \A j \in Slots : table'[j] = table[j] \/ (table'[j] = Freed(table[j]) /\ table[j].data = 0)
      BY <1>0, <3>1 DEF Shape
    <3> QED
      BY <2>1, <3>2 DEF RemoveDir, Done, RamInv, BufferOK
  <2>2. CASE FormatEnd
    <3>1. \A j \in Slots \ {Root} : table[j].data = 0
      BY <2>2, NothingPoints DEF FormatEnd
    <3>2. \A j \in Slots : table'[j] = table[j] \/ (table'[j] = Freed(table[j]) /\ table[j].data = 0)
      BY <2>2, <3>1 DEF FormatEnd
    <3> QED
      BY <2>2, <3>2 DEF FormatEnd, Done, RamInv, BufferOK
  <2> QED
    BY <2>1, <2>2
<1>2. \A j \in Slots : /\ table'[j].data = table[j].data
                       /\ table'[j] = table[j] \/ (table'[j].type = "free" /\ table'[j].data = 0)
  <2> TAKE j \in Slots
  <2>1. Freed(table[j]).type = "free" /\ Freed(table[j]).data = table[j].data
    BY <1>0, FreedTyped DEF Shape
  <2> QED
    BY <1>1, <2>1
<1>3. Live' = Live /\ cmd'.buf = 0
  BY <1>1, NoCmdIs DEF vars, Live
<1>4. (Live = Owned)'
  BY <1>0, <1>1, <1>2, <1>3, OwnersStay
<1>5. KindsOK'
  BY <1>0, <1>1, <1>2 DEF KindsOK
<1> QED
  BY <1>4, <1>5 DEF OwnersInv

-------------------------------------------------------------------------------
LEMMA OwnersStart ==
  ASSUME RamInit
  PROVE  OwnersInv
<1>1. RootDir.data = 0 /\ RootDir.type = "dir" /\ RootDir.name = NoName
      /\ Unused.data = 0 /\ Unused.type = "free"
  BY DEF RootDir, Unused
<1>2. \A j \in Slots : /\ table[j].data = 0 /\ table[j].type # "file"
                       /\ table[j].type = "dir" => table[j].name = NoName
  BY <1>1 DEF RamInit
<1>3. cmd.buf = 0 /\ fpc = "prompt"
  BY NoCmdIs DEF RamInit
<1>4. Live = {}
  BY DEF RamInit, Init, Live
<1>5. \A x : x \notin Owned
  BY <1>2, <1>3, OwnedIs
<1>6. Live = Owned
  BY <1>4, <1>5
<1> QED
  BY <1>2, <1>3, <1>6 DEF OwnersInv, KindsOK

LEMMA OwnersKeep ==
  ASSUME NamesApart, RamInv, RamInv', OwnersInv, [RamNext]_allVars
  PROVE  OwnersInv'
<1>1. CASE Command
  BY <1>1, OwnersOfBegun, OwnersOfMkdir, OwnersOfRename, OwnersOfAppend DEF Command
<1>2. CASE Step
  BY <1>2, OwnersOfWrite, OwnersOfOpen, OwnersOfAlloc, OwnersOfPutEnd, OwnersOfTidy,
     OwnersOfRemoval, OwnersOfRemoved DEF Step
<1>3. CASE UNCHANGED allVars
  BY <1>3 DEF allVars, fileVars, vars, nav, OwnersInv, KindsOK, Owned, Live
<1> QED
  BY <1>1, <1>2, <1>3 DEF RamNext

LEMMA OwnedAtPrompt ==
  ASSUME RamInv, OwnersInv
  PROVE  NoLeakNoDangling
<1> SUFFICES ASSUME Prompt
             PROVE  /\ Live = {table[j].data : j \in Slots} \ {0}
                    /\ \A j, h \in Slots : j # h /\ table[j].data # 0
                                             => table[j].data # table[h].data
  BY DEF NoLeakNoDangling
<1>1. fpc = "prompt" /\ cmd.buf = 0 /\ Live = Owned /\ EntriesOK
  BY DEF Prompt, RamInv, OwnersInv, BufferOK
<1>2. Owned = {table[j].data : j \in Slots} \ {0}
  BY <1>1 DEF Owned
<1> QED
  BY <1>1, <1>2 DEF EntriesOK

(* If no directory has the name of a file, no command loses a region of the
   heap or leaves a pointer to one that was given back. *)
THEOREM NothingLeaks ==
  ASSUME NamesApart
  PROVE  RamSpec => []NoLeakNoDangling
<1>1. RamInit => OwnersInv
  BY OwnersStart
<1>2. RamInv /\ RamInv' /\ OwnersInv /\ [RamNext]_allVars => OwnersInv'
  BY OwnersKeep
<1>3. RamInv /\ OwnersInv => NoLeakNoDangling
  BY OwnedAtPrompt
<1> QED
  BY <1>1, <1>2, <1>3, RamInvariant, PTL DEF RamSpec

-------------------------------------------------------------------------------
(* The tree. *)

LEMMA UsedFits ==
  ASSUME IndicesFit, NEW j \in Slots, Used(j)
  PROVE  Low(j) = j /\ j \in Indices
BY LowIs, Sizes0 DEF IndicesFit, Indices

LEMMA NoneLeft ==
  ASSUME NEW T, T \subseteq Slots, Lowest(T) = {}
  PROVE  T = {}
<1> SUFFICES ASSUME T # {} PROVE FALSE
  OBVIOUS
<1>1. \E x \in T : \A y \in T : x <= y
  BY Sizes0, LeastNat
<1> QED
  BY <1>1 DEF Lowest

(* Used entries keep their place, and a new one hangs in a directory. *)
LEMMA TreeGrows ==
  ASSUME Shape, Shape', TreeInv, UNCHANGED nav,
         fpc \notin {"format", "delete"}, fpc' \notin {"format", "delete"},
         table'[Root].name = NoName,
         \A j \in Slots : Used(j) => /\ table'[j].type = table[j].type
                                     /\ table'[j].parent = table[j].parent,
         \A j \in Slots : ~ Used(j) /\ Used(j)' => stale \/ IsDir(table'[j].parent),
         fpc' \in {"fill", "open"} => stale \/ IsDir(cmd'.dir)
  PROVE  TreeInv'
<1>1. /\ table[Root].type = "dir" /\ table[Root].parent = Root
      /\ ~ stale => /\ \A j \in Slots : Used(j) => IsDir(table[j].parent)
                    /\ IsDir(cwd) /\ IsDir(away)
  BY DEF TreeInv
<1>2. /\ UNCHANGED <<cwd, away, stale>> /\ cwd \in Slots /\ away \in Slots /\ cmd'.dir \in Slots
      /\ \A j \in Slots : table[j].parent \in Slots /\ table'[j].parent \in Slots
  BY Sizes0 DEF nav, Shape, Commands, Entries
<1>3. \A d \in Slots : IsDir(d) => IsDir(d)'
  BY DEF IsDir, Used
<1>4. ASSUME ~ stale, NEW j \in Slots, Used(j)' PROVE IsDir(table[j].parent)'
  <2>1. CASE Used(j)
    <3>1. table'[j].parent = table[j].parent /\ IsDir(table[j].parent)
      BY <1>1, <1>4, <2>1
    <3> QED
      BY <1>2, <1>3, <3>1 DEF IsDir
  <2>2. CASE ~ Used(j)
    <3>1. IsDir(table'[j].parent)
      BY <1>4, <2>2
    <3> QED
      BY <1>2, <1>3, <3>1 DEF IsDir
  <2> QED
    BY <2>1, <2>2
<1>5. ~ stale => IsDir(cwd)' /\ IsDir(away)'
  BY <1>1, <1>2, <1>3 DEF IsDir
<1>6. ~ stale /\ fpc' \in {"fill", "open"} => IsDir(cmd.dir)'
  BY <1>2, <1>3 DEF IsDir
<1>7. table'[Root].type = "dir" /\ table'[Root].parent = Root
  BY <1>1, Sizes0 DEF Used
<1> QED
  BY <1>1, <1>2, <1>4, <1>5, <1>6, <1>7 DEF TreeInv

LEMMA TreeOfMkdir ==
  ASSUME RamInv, RamInv', TreeInv, NEW name \in DirNames, Mkdir(name)
  PROVE  TreeInv'
<1>0. Shape /\ Shape' /\ fpc = "prompt" /\ UNCHANGED <<nav, fpc>>
  BY DEF RamInv, Mkdir, Prompt
<1>1. PICK e \in Slots \ {Root} : ~Used(e) /\
        table' = [table EXCEPT ![e] = [RootDir EXCEPT !.parent = cwd, !.name = name]]
  BY DEF Mkdir, FreeSlot, Lowest
<1>2. RootDir \in Entries
  BY Sizes0 DEF RootDir, Unused, Entries
<1>3. PICK d : d = [RootDir EXCEPT !.parent = cwd, !.name = name]
  OBVIOUS
<1>4. d.parent = cwd
  BY <1>2, <1>3 DEF Entries
<1>5. table'[e] = d /\ \A j \in Slots \ {e} : table'[j] = table[j]
  BY <1>0, <1>1, <1>3 DEF Shape
<1>6. stale \/ IsDir(cwd)
  BY <1>0 DEF TreeInv
<1>7. table'[Root].name = NoName
  BY <1>1, <1>5, Sizes0 DEF TreeInv
<1>8. \A j \in Slots : Used(j) => table'[j].type = table[j].type /\ table'[j].parent = table[j].parent
  BY <1>1, <1>5
<1>9. \A j \in Slots : ~ Used(j) /\ Used(j)' => stale \/ IsDir(table'[j].parent)
  BY <1>4, <1>5, <1>6 DEF Used
<1> QED
  BY <1>0, <1>7, <1>8, <1>9, TreeGrows

LEMMA TreeOfRename ==
  ASSUME RamInv, RamInv', TreeInv, NEW key \in FileKeys, NEW new \in FileKeys, Rename(key, new)
  PROVE  TreeInv'
<1>0. Shape /\ Shape' /\ fpc = "prompt" /\ UNCHANGED <<nav, fpc>>
  BY DEF RamInv, Rename, Prompt
<1>1. PICK e \in Slots : table[e].type = "file"
                        /\ table' = [table EXCEPT ![e].name = new[1], ![e].ext = new[2]]
  BY DEF Rename, Found, Lowest
<1>2. PICK d : d = [table[e] EXCEPT !.name = new[1], !.ext = new[2]]
  OBVIOUS
<1>3. d.parent = table[e].parent /\ d.type = "file"
  BY <1>0, <1>1, <1>2 DEF Shape, Entries
<1>4. table' = [table EXCEPT ![e] = d]
  BY <1>0, <1>1, <1>2 DEF Shape
<1>5. table'[e] = d /\ \A j \in Slots \ {e} : table'[j] = table[j]
  BY <1>0, <1>4 DEF Shape
<1>6. e # Root
  BY <1>1 DEF TreeInv
<1>7. table'[Root].name = NoName
  BY <1>5, <1>6, Sizes0 DEF TreeInv
<1>8. \A j \in Slots : table'[j].type = table[j].type /\ table'[j].parent = table[j].parent
  BY <1>1, <1>3, <1>5
<1>9. \A j \in Slots : ~ Used(j) => ~ Used(j)'
  BY <1>8 DEF Used
<1> QED
  BY <1>0, <1>7, <1>8, <1>9, TreeGrows

(* Where the command begins that writes. *)
LEMMA TreeOfBegun ==
  ASSUME RamInv, RamInv', TreeInv, IndicesFit, NEW key \in FileKeys,
         \/ \E typed \in Texts : Write(key, typed) \/ AppendTo(key, typed)
         \/ \E dest \in Slots : Copy(key, dest)
  PROVE  TreeInv'
<1>0. Shape /\ Shape' /\ fpc = "prompt" /\ UNCHANGED <<nav, table>>
  BY DEF RamInv, Write, AppendTo, Copy, Start, Prompt
<1>1. (stale \/ IsDir(cwd)) /\ IsDir(Root) /\ table[Root].name = NoName
  BY <1>0 DEF TreeInv, IsDir
<1>2. fpc' \notin {"format", "delete"} /\ (fpc' \in {"fill", "open"} => stale \/ IsDir(cmd'.dir))
  <2>1. CASE \E typed \in Texts : Write(key, typed) \/ AppendTo(key, typed)
    <3>1. fpc' = "prompt" \/ (fpc' \in {"fill", "open"} /\ cmd'.dir = cwd)
      <4>1. CASE \E typed \in Texts : Write(key, typed)
        BY <4>1 DEF Write, Start, NoCmd
      <4>2. CASE \E typed \in Texts : AppendTo(key, typed)
        BY <1>0, <4>2 DEF AppendTo, Start, NoCmd
      <4> QED
        BY <2>1, <4>1, <4>2
    <3> QED
      BY <1>1, <3>1
  <2>2. CASE \E dest \in Slots : Copy(key, dest)
    <3>1. PICK dest \in Slots : /\ fpc' = "open" /\ cmd'.dir = Low(dest)
                                /\ dest = Root \/ table[dest].type = "dir"
      BY <2>2 DEF Copy, Start, NoCmd, Lowest
    <3>2. IsDir(dest) /\ Used(dest)
      BY <1>1, <3>1 DEF IsDir, Used
    <3> QED
      BY <3>1, <3>2, UsedFits
  <2> QED
    BY <2>1, <2>2
<1>3. \A j \in Slots : Used(j) <=> Used(j)'
  BY <1>0 DEF Used
<1> QED
  BY <1>0, <1>1, <1>2, <1>3, TreeGrows

LEMMA TreeOfOpen ==
  ASSUME RamInv, RamInv', TreeInv, Open
  PROVE  TreeInv'
<1>0. /\ Shape /\ Shape' /\ fpc = "open" /\ UNCHANGED nav /\ cmd.key \in FileKeys
  BY DEF RamInv, Open, OpenOK
<1>1. PICK e \in IF Found(cmd.key, cmd.dir) = {} THEN FreeSlot ELSE Found(cmd.key, cmd.dir) :
        /\ table' = [table EXCEPT ![e] = Made(@)]
        /\ IF cmd.text = <<>> THEN Return ELSE fpc' = "alloc"
  BY DEF Open
<1>2. e \in Slots /\ e # Root
  <2>1. CASE e \in FreeSlot
    BY <2>1 DEF FreeSlot, Lowest
  <2>2. CASE e \in Found(cmd.key, cmd.dir)
    <3>1. e \in Slots /\ table[e].name = cmd.key[1]
      BY <2>2 DEF Found, Lowest
    <3>2. cmd.key[1] # NoName /\ table[Root].name = NoName
      BY <1>0, FsHeapAssumption DEF TreeInv
    <3> QED
      BY <3>1, <3>2
  <2> QED
    BY <1>1, <2>1, <2>2
<1>3. PICK d : d = Made(table[e])
  OBVIOUS
<1>4. /\ Used(e) => d.type = table[e].type /\ d.parent = table[e].parent
      /\ ~ Used(e) => d.parent = cmd.dir
  BY <1>0, <1>2, <1>3, MadeIs DEF Shape, Used
<1>5. table'[e] = d /\ \A j \in Slots \ {e} : table'[j] = table[j]
  BY <1>0, <1>1, <1>2, <1>3 DEF Shape
<1>6. fpc' \in {"prompt", "tidy", "alloc"}
  BY <1>1, Returned
<1>7. table'[Root].name = NoName
  BY <1>2, <1>5, Sizes0 DEF TreeInv
<1>8. \A j \in Slots : Used(j) => table'[j].type = table[j].type /\ table'[j].parent = table[j].parent
  BY <1>4, <1>5
<1>9. \A j \in Slots : ~ Used(j) /\ Used(j)' => stale \/ IsDir(table'[j].parent)
  <2>1. stale \/ IsDir(cmd.dir)
    BY <1>0 DEF TreeInv
  <2>2. \A j \in Slots : ~ Used(j) /\ Used(j)' => j = e
    BY <1>5 DEF Used
  <2> QED
    BY <1>4, <1>5, <2>1, <2>2
<1> QED
  BY <1>0, <1>6, <1>7, <1>8, <1>9, TreeGrows

LEMMA TreeOfWrite ==
  ASSUME RamInv, RamInv', TreeInv, Fill \/ OpenFails \/ Alloc \/ PutByte \/ PutEnd \/ Tidy
  PROVE  TreeInv'
<1>0. /\ Shape /\ Shape' /\ UNCHANGED nav /\ TreeInv /\ cmd \in Commands
  BY DEF RamInv, Fill, OpenFails, Alloc, PutByte, PutEnd, Tidy, Shape
<1>1. /\ fpc \notin {"format", "delete"} /\ fpc' \notin {"format", "delete"}
      /\ fpc' \in {"fill", "open"} => fpc = "fill" /\ cmd'.dir = cmd.dir
  <2>1. CASE Fill
    BY <1>0, <2>1 DEF Fill, Commands
  <2>2. CASE OpenFails \/ Alloc \/ PutEnd
    BY <2>2, Returned DEF OpenFails, Alloc, PutEnd
  <2>3. CASE PutByte \/ Tidy
    BY <2>3 DEF PutByte, Tidy, Done
  <2> QED
    BY <2>1, <2>2, <2>3
<1>2. \A j \in Slots : /\ table'[j].type = table[j].type /\ table'[j].parent = table[j].parent
                       /\ table'[j].name = table[j].name
  <2>1. CASE PutEnd
    <3>1. PICK e, p, n : /\ e = cmd.idx /\ p = cmd.new /\ n = Len(cmd.text)
      OBVIOUS
    <3>2. e \in Slots /\ table' = [table EXCEPT ![e].data = p, ![e].size = n]
      BY <1>0, <2>1, <3>1 DEF PutEnd, Commands
    <3>3. PICK d : d = [table[e] EXCEPT !.data = p, !.size = n]
      OBVIOUS
    <3>4. d.type = table[e].type /\ d.parent = table[e].parent /\ d.name = table[e].name
      BY <1>0, <3>2, <3>3 DEF Shape, Entries
    <3>5. table' = [table EXCEPT ![e] = d]
      BY <1>0, <3>2, <3>3 DEF Shape
    <3> QED
      BY <1>0, <3>2, <3>4, <3>5 DEF Shape
  <2>2. CASE UNCHANGED table
    BY <2>2
  <2> QED
    BY <2>1, <2>2 DEF Fill, OpenFails, Alloc, PutByte, Tidy
<1>3. table'[Root].name = NoName
  BY <1>2, Sizes0 DEF TreeInv
<1>4. \A j \in Slots : Used(j) <=> Used(j)'
  BY <1>2 DEF Used
<1>5. fpc' \in {"fill", "open"} => stale \/ IsDir(cmd'.dir)
  BY <1>1 DEF TreeInv
<1> QED
  BY <1>0, <1>1, <1>2, <1>3, <1>4, <1>5, TreeGrows

(* The shell goes to another directory, or the other terminal comes. *)
LEMMA TreeOfNavigation ==
  ASSUME RamInv, TreeInv, IndicesFit, CdUp \/ SwitchTty \/ \E name \in DirNames : Cd(name)
  PROVE  TreeInv'
<1>0. Shape /\ fpc = "prompt" /\ UNCHANGED <<table, fpc, stale>>
  BY DEF RamInv, CdUp, SwitchTty, Cd, Prompt
<1>1. ~ stale => IsDir(cwd) /\ IsDir(away) /\ \A j \in Slots : Used(j) => IsDir(table[j].parent)
  BY <1>0 DEF TreeInv
<1>2. ~ stale => IsDir(cwd') /\ IsDir(away')
  <2>1. CASE CdUp
    <3>1. cwd' = table[cwd].parent /\ away' = away /\ cwd \in Slots
      BY <1>0, <2>1, Sizes0 DEF CdUp, Shape
    <3>2. IsDir(cwd) => Used(cwd)
      BY DEF IsDir, Used
    <3> QED
      BY <1>1, <3>1, <3>2
  <2>2. CASE SwitchTty
    BY <1>1, <2>2 DEF SwitchTty
  <2>3. CASE \E name \in DirNames : Cd(name)
    <3>1. PICK e \in Slots : cwd' = Low(e) /\ away' = away /\ table[e].type = "dir"
      BY <2>3 DEF Cd, FoundDir, Found, Lowest
    <3>2. Low(e) = e
      BY <3>1, UsedFits DEF Used
    <3> QED
      BY <1>1, <3>1, <3>2 DEF IsDir
  <2> QED
    BY <2>1, <2>2, <2>3
<1>3. table[Root].type = "dir" /\ table[Root].parent = Root /\ table[Root].name = NoName
  BY DEF TreeInv
<1> QED
  BY <1>0, <1>1, <1>2, <1>3 DEF TreeInv, IsDir, Used

-------------------------------------------------------------------------------
(* del of a directory. *)

(* What holds while fs_delete_recursive runs. *)
LEMMA Deleting ==
  ASSUME RamInv, TreeInv, fpc = "delete", ~ stale
  PROVE  /\ Shape /\ cmd \in Commands /\ cmd.idx \in Slots /\ cmd.idx # Root
         /\ cmd.path \in Seq(Slots) /\ Len(cmd.path) \in Nat
         /\ \A m \in 1 .. Len(cmd.path) : cmd.path[m] \in Slots
         /\ Chain /\ IsDir(cwd) /\ IsDir(away)
         /\ \A j \in Slots : Used(j) => IsDir(table[j].parent)
         /\ cwd \in Slots /\ away \in Slots /\ \A j \in Slots : table[j].parent \in Slots
         /\ table \in [Slots -> Entries]
         /\ cmd.idx \in Children(cwd)
<1>1. Shape /\ cmd \in Commands /\ cmd.idx \in Slots /\ cmd.path \in Seq(Slots)
      /\ cwd \in Slots /\ away \in Slots /\ table \in [Slots -> Entries]
      /\ \A j \in Slots : table[j].parent \in Slots
  BY Sizes0 DEF RamInv, Shape, Commands, Entries
<1>2. Len(cmd.path) \in Nat /\ \A m \in 1 .. Len(cmd.path) : cmd.path[m] \in Slots
  BY <1>1
<1>3. /\ cmd.idx # Root /\ Chain /\ IsDir(cwd) /\ IsDir(away)
      /\ \A j \in Slots : Used(j) => IsDir(table[j].parent)
  BY DEF TreeInv
<1>4. cmd.idx \in Children(cwd)
  BY <1>1, <1>3 DEF Chain, Children, IsDir, Used
<1> QED
  BY <1>1, <1>2, <1>3, <1>4

LEMMA TreeOfDel ==
  ASSUME RamInv, TreeInv, IndicesFit, NEW name \in DirNames, Del(name)
  PROVE  TreeInv'
<1>0. /\ fpc = "prompt" /\ fpc' = "delete" /\ UNCHANGED <<table, nav>>
  BY DEF Del, Start, Prompt
<1>1. PICK e \in FoundDir(name, cwd) : cmd' = [NoCmd EXCEPT !.idx = e, !.path = <<Low(e)>>]
  BY DEF Del, Start
<1>2. e \in Slots /\ IsDir(e) /\ Used(e) /\ table[e].parent = cwd /\ table[e].name = name
  <2>1. <<name, NoName>>[1] = name
    OBVIOUS
  <2> QED
    BY <2>1 DEF FoundDir, Found, Lowest, IsDir
<1>3. e # Root
  <2>1. name # NoName
    BY FsHeapAssumption
  <2> QED
    BY <1>2, <2>1 DEF TreeInv
<1>4. Low(e) = e
  BY <1>2, UsedFits
<1>5. cmd'.idx = e /\ cmd'.path = <<e>>
  BY <1>1, <1>4 DEF NoCmd
<1>6. Len(<<e>>) = 1 /\ <<e>>[1] = e /\ <<e>> # <<>>
  OBVIOUS
<1>7. Chain'
  <2>1. \A m \in 1 .. Len(cmd'.path) : m = 1
    BY <1>5, <1>6
  <2>2. \A m \in 2 .. Len(cmd'.path) : FALSE
    BY <1>5, <1>6
  <2>3. IsDir(e)' /\ table'[e].parent = cwd'
    BY <1>0, <1>2 DEF IsDir, nav
  <2> QED
    BY <1>5, <1>6, <2>1, <2>2, <2>3 DEF Chain, IsDir
<1> QED
  BY <1>0, <1>3, <1>5, <1>7 DEF TreeInv, nav, IsDir, Used

LEMMA TreeOfEnter ==
  ASSUME RamInv, TreeInv, IndicesFit, Enter
  PROVE  TreeInv'
<1>0. fpc = "delete" /\ cmd.path # <<>> /\ UNCHANGED <<table, nav, fpc>>
  BY DEF Enter
<1>1. PICK h \in Hand : Enters(h) /\ cmd' = [cmd EXCEPT !.path = @ \o <<Low(h)>>]
  BY DEF Enter
<1>2. h \in Children(Last(cmd.path)) /\ h \in Slots /\ Used(h) /\ IsDir(h)
  BY <1>1 DEF Hand, Lowest, Children, Enters, IsDir
<1>3. Low(h) = h
  BY <1>2, UsedFits
<1>4. cmd \in Commands
  BY DEF RamInv, Shape
<1>5. cmd'.idx = cmd.idx /\ cmd'.path = cmd.path \o <<h>>
  BY <1>1, <1>3, <1>4 DEF Commands
<1>6. ASSUME ~ stale PROVE Chain'
  <2>1. PICK s, n : s = cmd.path /\ n = Len(s)
    OBVIOUS
  <2>2. /\ s \in Seq(Slots) /\ n \in Nat /\ s # <<>> /\ Chain /\ h \in Slots
    BY <1>0, <1>2, <1>6, <2>1, Deleting
  <2>3. n > 0 /\ Last(s) = s[n]
    BY <2>1, <2>2 DEF Last
  <2>4. PICK r : r = s \o <<h>>
    OBVIOUS
  <2>5. /\ Len(r) = n + 1 /\ r[n + 1] = h /\ \A m \in 1 .. n : r[m] = s[m]
    BY <2>1, <2>2, <2>4
  <2>6. r # <<>> /\ r[1] = cmd.idx
    BY <2>1, <2>2, <2>3, <2>5 DEF Chain
  <2>7. \A m \in 1 .. Len(r) : IsDir(r[m])
    <3> TAKE m \in 1 .. Len(r)
    <3>1. m \in 1 .. n \/ m = n + 1
      BY <2>2, <2>5
    <3> QED
      BY <1>2, <2>1, <2>2, <2>5, <3>1 DEF Chain
  <2>8. \A m \in 2 .. Len(r) : r[m] \in Children(r[m - 1])
    <3> TAKE m \in 2 .. Len(r)
    <3>1. (m \in 2 .. n \/ m = n + 1) /\ m - 1 \in 1 .. n /\ (n + 1) - 1 = n
      BY <2>2, <2>3, <2>5
    <3>2. CASE m \in 2 .. n
      <4>1. s[m] \in Children(s[m - 1])
        BY <2>1, <2>2, <3>2 DEF Chain
      <4>2. m \in 1 .. n
        BY <2>2, <3>2
      <4>3. r[m] = s[m] /\ r[m - 1] = s[m - 1]
        BY <2>5, <3>1, <4>2
      <4> QED
        BY <4>1, <4>3
    <3>3. CASE m = n + 1
      <4>1. r[m] = h /\ r[m - 1] = s[n] /\ h \in Children(s[n])
        BY <1>2, <2>1, <2>3, <2>5, <3>1, <3>3
      <4> QED
        BY <4>1
    <3> QED
      BY <3>1, <3>2, <3>3
  <2>9. cmd'.path = r /\ IsDir(cmd.idx) /\ table[cmd.idx].parent = cwd
    BY <1>5, <2>1, <2>2, <2>4 DEF Chain
  <2> QED
    BY <1>0, <1>5, <2>6, <2>7, <2>8, <2>9 DEF Chain, Children, IsDir, Used, nav
<1> QED
  BY <1>0, <1>5, <1>6 DEF TreeInv, nav, IsDir, Used

LEMMA TreeOfLeave ==
  ASSUME RamInv, TreeInv, Leave
  PROVE  TreeInv'
<1>0. fpc = "delete" /\ cmd.path # <<>> /\ Hand = {} /\ UNCHANGED <<table, nav, fpc>>
      /\ cmd' = [cmd EXCEPT !.path = Front(@)]
  BY DEF Leave
<1>1. cmd \in Commands
  BY DEF RamInv, Shape
<1>2. cmd'.idx = cmd.idx /\ cmd'.path = Front(cmd.path)
  BY <1>0, <1>1 DEF Commands
<1>3. ASSUME ~ stale PROVE Chain'
  <2>1. PICK s, n : s = cmd.path /\ n = Len(s)
    OBVIOUS
  <2>2. /\ s \in Seq(Slots) /\ n \in Nat /\ s # <<>> /\ Chain
    BY <1>0, <1>3, <2>1, Deleting
  <2>3. n > 0 /\ Last(s) = s[n]
    BY <2>1, <2>2 DEF Last
  <2>4. PICK r : r = Front(s)
    OBVIOUS
  <2>5. Len(r) = n - 1 /\ (r = <<>> <=> n = 1) /\ \A m \in 1 .. n - 1 : r[m] = s[m]
    <3>1. r = SubSeq(s, 1, n - 1) /\ n - 1 \in Nat
      BY <2>1, <2>2, <2>3, <2>4 DEF Front
    <3>2. r \in Seq(Slots) /\ Len(r) = n - 1
      BY <2>1, <2>2, <3>1
    <3>3. \A m \in 1 .. n - 1 : r[m] = s[m]
      BY <2>1, <2>2, <3>1
    <3>4. (r # <<>> => Len(r) > 0) /\ (r = <<>> => Len(r) = 0)
      <4>1. r # <<>> => Len(r) > 0
        BY <3>2
      <4>2. Len(<<>>) = 0
        OBVIOUS
      <4> QED
        BY <4>1, <4>2, Zenon
    <3> QED
      BY <2>2, <3>1, <3>2, <3>3, <3>4
  <2>6. r = <<>> => Children(cmd.idx) = {}
    <3>1. Children(Last(s)) \subseteq Slots
      BY DEF Children
    <3>2. Children(Last(s)) = {}
      BY <1>0, <2>1, <3>1, NoneLeft DEF Hand
    <3>3. s[1] = cmd.idx
      BY <2>1, <2>2 DEF Chain
    <3> QED
      BY <2>3, <2>5, <3>2, <3>3
  <2>7. r # <<>> => r[1] = cmd.idx
    <3>1. r # <<>> => 1 \in 1 .. n - 1
      BY <2>2, <2>3, <2>5
    <3> QED
      BY <2>1, <2>2, <2>5, <3>1 DEF Chain
  <2>8. \A m \in 1 .. Len(r) : IsDir(r[m])
    <3>1. \A m \in 1 .. Len(r) : m \in 1 .. n /\ m \in 1 .. n - 1
      BY <2>2, <2>5
    <3> QED
      BY <2>1, <2>2, <2>5, <3>1 DEF Chain
  <2>9. \A m \in 2 .. Len(r) : r[m] \in Children(r[m - 1])
    <3> TAKE m \in 2 .. Len(r)
    <3>1. m \in 2 .. n /\ m \in 1 .. n - 1 /\ m - 1 \in 1 .. n - 1
      BY <2>2, <2>5
    <3>2. s[m] \in Children(s[m - 1])
      BY <2>1, <2>2, <3>1 DEF Chain
    <3>3. r[m] = s[m] /\ r[m - 1] = s[m - 1]
      BY <2>5, <3>1
    <3> QED
      BY <3>2, <3>3
  <2>10. cmd'.path = r /\ IsDir(cmd.idx) /\ table[cmd.idx].parent = cwd
    BY <1>2, <2>1, <2>2, <2>4 DEF Chain
  <2> QED
    BY <1>0, <1>2, <2>6, <2>7, <2>8, <2>9, <2>10 DEF Chain, Children, IsDir, Used, nav
<1> QED
  BY <1>0, <1>2, <1>3 DEF TreeInv, nav, IsDir, Used

(* A directory something hangs in is not the one in hand. *)
LEMMA TreeOfRemoveEntry ==
  ASSUME RamInv, TreeInv, IndicesFit, RemoveEntry
  PROVE  TreeInv'
<1>0. fpc = "delete" /\ cmd.path # <<>> /\ UNCHANGED <<cwd, away, fpc, cmd>>
  BY DEF RemoveEntry
<1>1. PICK h \in Hand : /\ ~ Enters(h) /\ stale' = (stale \/ h = away)
                        /\ table' = [table EXCEPT ![h] = [Freed(@) EXCEPT !.data = 0]]
  BY DEF RemoveEntry
<1>2. h \in Children(Last(cmd.path)) /\ h \in Slots \ {Root} /\ Used(h)
  BY <1>1 DEF Hand, Lowest, Children
<1>3. table \in [Slots -> Entries] /\ stale \in BOOLEAN
  BY DEF RamInv, Shape
<1>4. /\ table'[h].type = "free" /\ \A j \in Slots \ {h} : table'[j] = table[j]
  BY <1>1, <1>2, <1>3, FreedTyped
<1>5. \A d \in Slots : IsDir(d) /\ Children(d) # {} => d # h
  BY <1>1, <1>2, UsedFits DEF Enters, IsDir
<1>6. \A d \in Slots : IsDir(d) /\ d # h => IsDir(d)'
  BY <1>4 DEF IsDir
<1>7. table'[Root] = table[Root] /\ cmd'.idx = cmd.idx
  BY <1>0, <1>2, <1>4, Sizes0
<1>8. ASSUME ~ stale'
      PROVE  /\ \A j \in Slots : Used(j)' => IsDir(table[j].parent)'
             /\ IsDir(cwd)' /\ IsDir(away)' /\ Chain'
  <2>1. ~ stale /\ h # away
    BY <1>1, <1>8
  <2>2. /\ Chain /\ IsDir(cwd) /\ IsDir(away) /\ cwd \in Slots /\ away \in Slots
        /\ cmd.idx \in Slots /\ cmd.idx \in Children(cwd) /\ cmd.path \in Seq(Slots)
        /\ Len(cmd.path) \in Nat /\ \A m \in 1 .. Len(cmd.path) : cmd.path[m] \in Slots
        /\ \A j \in Slots : Used(j) => IsDir(table[j].parent)
        /\ \A j \in Slots : table[j].parent \in Slots
    BY <1>0, <2>1, Deleting
  <2>3. IsDir(cwd)' /\ IsDir(away)'
    <3>1. cwd # h
      BY <1>5, <2>2
    <3> QED
      BY <1>0, <1>6, <2>1, <2>2, <3>1 DEF IsDir
  <2>4. ASSUME NEW j \in Slots, Used(j)' PROVE IsDir(table[j].parent)'
    <3>1. j # h /\ Used(j) /\ table'[j] = table[j]
      BY <1>4, <2>4 DEF Used
    <3>2. IsDir(table[j].parent) /\ table[j].parent \in Slots
      BY <2>2, <3>1
    <3>3. table[j].parent # h
      <4>1. CASE j = Root
        BY <1>2, <4>1 DEF TreeInv
      <4>2. CASE j # Root
        <5>1. j \in Children(table[j].parent)
          BY <3>1, <4>2 DEF Children
        <5> QED
          BY <1>5, <3>2, <5>1
      <4> QED
        BY <4>1, <4>2
    <3> QED
      BY <1>6, <3>1, <3>2, <3>3 DEF IsDir
  <2>5. PICK s, n : s = cmd.path /\ n = Len(s)
    OBVIOUS
  <2>6. /\ n \in Nat /\ n > 0 /\ Last(s) = s[n] /\ s # <<>>
    BY <1>0, <2>2, <2>5 DEF Last
  <2>7. ASSUME NEW m \in 1 .. n PROVE s[m] # h /\ IsDir(s[m])' /\ s[m] \in Slots
    <3>1. IsDir(s[m]) /\ s[m] \in Slots
      BY <2>2, <2>5, <2>7 DEF Chain
    <3>2. Children(s[m]) # {}
      <4>1. CASE m = n
        BY <1>2, <2>5, <2>6, <4>1
      <4>2. CASE m # n
        <5>1. m + 1 \in 2 .. Len(s) /\ (m + 1) - 1 = m
          BY <2>5, <2>6, <2>7, <4>2
        <5> QED
          BY <2>2, <2>5, <5>1 DEF Chain
      <4> QED
        BY <4>1, <4>2
    <3> QED
      BY <1>5, <1>6, <3>1, <3>2
  <2>8. cmd.idx = s[1] /\ 1 \in 1 .. n
    BY <2>2, <2>5, <2>6 DEF Chain
  <2>9. IsDir(cmd.idx)' /\ table'[cmd.idx].parent = cwd'
    <3>1. cmd.idx # h /\ IsDir(s[1])'
      BY <2>7, <2>8
    <3> QED
      BY <1>0, <1>4, <2>2, <2>8, <3>1 DEF Chain, IsDir
  <2>10. ASSUME NEW m \in 2 .. n PROVE s[m] \in Children(s[m - 1])'
    <3>1. m \in 1 .. n
      BY <2>6, <2>10
    <3>2. s[m] \in Children(s[m - 1]) /\ s[m] # h /\ s[m] \in Slots
      BY <2>2, <2>5, <2>7, <2>10, <3>1 DEF Chain
    <3>3. table'[s[m]] = table[s[m]]
      BY <1>4, <3>2
    <3> QED
      BY <3>2, <3>3 DEF Children, Used
  <2>11. cmd'.path = s
    BY <1>0, <2>5
  <2>12. Chain'
    BY <1>7, <2>5, <2>6, <2>7, <2>8, <2>9, <2>10, <2>11 DEF Chain, IsDir, Children, Used
  <2> QED
    BY <2>3, <2>4, <2>12
<1> QED
  BY <1>0, <1>7, <1>8 DEF TreeInv

LEMMA TreeOfRemoveDir ==
  ASSUME RamInv, TreeInv, IndicesFit, RemoveDir
  PROVE  TreeInv'
<1>0. /\ fpc = "delete" /\ cmd.path = <<>> /\ fpc' = "prompt"
      /\ cwd' = (IF cwd = Low(cmd.idx) THEN table[cmd.idx].parent ELSE cwd)
      /\ table' = [table EXCEPT ![cmd.idx] = Freed(@)]
      /\ stale' = (stale \/ cmd.idx = away) /\ UNCHANGED away
  BY DEF RemoveDir, Done
<1>1. PICK e : e = cmd.idx
  OBVIOUS
<1>2. table \in [Slots -> Entries] /\ stale \in BOOLEAN /\ e \in Slots /\ e # Root
  BY <1>0, <1>1 DEF RamInv, Shape, Commands, TreeInv
<1>3. table'[e].type = "free" /\ \A j \in Slots \ {e} : table'[j] = table[j]
  BY <1>0, <1>1, <1>2, FreedTyped
<1>4. \A d \in Slots : IsDir(d) /\ d # e => IsDir(d)'
  BY <1>3 DEF IsDir
<1>5. table'[Root] = table[Root]
  BY <1>2, <1>3, Sizes0
<1>6. ASSUME ~ stale'
      PROVE  /\ \A j \in Slots : Used(j)' => IsDir(table[j].parent)'
             /\ IsDir(cwd)' /\ IsDir(away)'
  <2>1. ~ stale /\ e # away
    BY <1>0, <1>1, <1>6
  <2>2. /\ Chain /\ IsDir(cwd) /\ IsDir(away) /\ cwd \in Slots /\ away \in Slots
        /\ e \in Children(cwd)
        /\ \A j \in Slots : Used(j) => IsDir(table[j].parent)
        /\ \A j \in Slots : table[j].parent \in Slots
    BY <1>0, <1>1, <2>1, Deleting
  <2>3. Children(e) = {} /\ Used(e)
    BY <1>0, <1>1, <2>2 DEF Chain, IsDir, Used
  <2>4. cwd # e /\ Low(e) = e
    BY <1>2, <2>2, <2>3, UsedFits
  <2>5. cwd' = cwd
    BY <1>0, <1>1, <2>4
  <2>6. IsDir(cwd)' /\ IsDir(away)'
    BY <1>0, <1>4, <2>1, <2>2, <2>4, <2>5 DEF IsDir
  <2>7. ASSUME NEW j \in Slots, Used(j)' PROVE IsDir(table[j].parent)'
    <3>1. j # e /\ Used(j) /\ table'[j] = table[j]
      BY <1>3, <2>7 DEF Used
    <3>2. IsDir(table[j].parent) /\ table[j].parent \in Slots
      BY <2>2, <3>1
    <3>3. table[j].parent # e
      <4>1. CASE j = Root
        BY <1>2, <4>1 DEF TreeInv
      <4>2. CASE j # Root
        BY <2>3, <3>1, <4>2 DEF Children
      <4> QED
        BY <4>1, <4>2
    <3> QED
      BY <1>4, <3>1, <3>2, <3>3 DEF IsDir
  <2> QED
    BY <2>6, <2>7
<1> QED
  BY <1>0, <1>5, <1>6 DEF TreeInv

LEMMA TreeOfFormat ==
  ASSUME RamInv, TreeInv, Format \/ FormatEntry \/ FormatEnd
  PROVE  TreeInv'
<1>0. Shape /\ table[Root].type = "dir" /\ table[Root].parent = Root /\ table[Root].name = NoName
  BY DEF RamInv, TreeInv
<1>1. CASE Format
  BY <1>0, <1>1 DEF Format, Start, TreeInv
<1>2. CASE FormatEntry
  <2>1. PICK e \in Slots \ {Root} : table' = [table EXCEPT ![e] = [Freed(@) EXCEPT !.data = 0]]
    BY <1>2 DEF FormatEntry, Pointing, Lowest
  <2>2. table'[Root] = table[Root]
    BY <1>0, <2>1, Sizes0 DEF Shape
  <2> QED
    BY <1>0, <1>2, <2>2 DEF FormatEntry, TreeInv
<1>3. CASE FormatEnd
  <2>1. /\ table' = [j \in Slots |-> IF j = Root THEN table[j] ELSE Freed(table[j])]
        /\ cwd' = Root /\ stale' = (stale \/ away # Root) /\ away' = away /\ fpc' = "prompt"
    BY <1>3 DEF FormatEnd, Done
  <2>2. table'[Root] = table[Root] /\ \A j \in Slots \ {Root} : table'[j].type = "free"
    BY <1>0, <2>1, Sizes0, FreedTyped DEF Shape
  <2>3. \A j \in Slots : Used(j)' => j = Root
    BY <2>2 DEF Used
  <2>4. ~ stale' => away' = Root
    BY <1>0, <2>1 DEF Shape
  <2> QED
    BY <1>0, <2>1, <2>2, <2>3, <2>4 DEF TreeInv, IsDir
<1> QED
  BY <1>1, <1>2, <1>3

-------------------------------------------------------------------------------
LEMMA TreeStarts ==
  ASSUME RamInit
  PROVE  TreeInv
<1>1. /\ RootDir.type = "dir" /\ RootDir.parent = Root /\ RootDir.name = NoName
      /\ Unused.type = "free"
  BY DEF RootDir, Unused
<1>2. table[Root] = RootDir /\ \A j \in Slots : Used(j) => j = Root
  BY <1>1, Sizes0 DEF RamInit, Used
<1> QED
  BY <1>1, <1>2 DEF RamInit, TreeInv, IsDir

LEMMA TreeKeeps ==
  ASSUME IndicesFit, RamInv, RamInv', TreeInv, [RamNext]_allVars
  PROVE  TreeInv'
<1>1. CASE Command
  BY <1>1, TreeOfNavigation, TreeOfMkdir, TreeOfDel, TreeOfFormat, TreeOfBegun, TreeOfRename
     DEF Command
<1>2. CASE Step
  BY <1>2, TreeOfWrite, TreeOfOpen, TreeOfEnter, TreeOfLeave, TreeOfRemoveEntry, TreeOfRemoveDir,
     TreeOfFormat DEF Step
<1>3. CASE UNCHANGED allVars
  BY <1>3 DEF allVars, fileVars, nav, TreeInv, Chain, Children, IsDir, Used
<1> QED
  BY <1>1, <1>2, <1>3 DEF RamNext

LEMMA RamTypes ==
  ASSUME RamInv
  PROVE  RamTypeOK
<1>1. TypeOK /\ Shape
  BY DEF RamInv, HeapInv
<1>2. Indices \subseteq 0 .. (IdxMod - 1)
  BY Sizes0 DEF Indices
<1>3. table \in [Slots -> [type : {"free", "file", "dir"}, parent : 0 .. (IdxMod - 1),
                           name : DirNames \cup {k[1] : k \in FileKeys} \cup {NoName},
                           ext : {k[2] : k \in FileKeys} \cup {NoName},
                           data : {0} \cup Ptrs, size : Nat]]
  BY <1>1, <1>2 DEF Shape, Entries
<1> QED
  BY <1>1, <1>2, <1>3 DEF RamTypeOK, Shape, Places

(* As long as no entry is used whose index a uint8_t cannot hold, every entry
   hangs in the tree between two commands and the shell is in a directory. *)
THEOREM TreeStaysIntact == RamSpec /\ []IndicesFit => []TreeIntact
<1>1. RamInit => TreeInv
  BY TreeStarts
<1>2. IndicesFit /\ RamInv /\ RamInv' /\ TreeInv /\ [RamNext]_allVars => TreeInv'
  BY TreeKeeps
<1>3. RamInv /\ TreeInv => TreeIntact
  BY RamTypes DEF TreeInv, TreeIntact, IsDir, Prompt
<1> QED
  BY <1>1, <1>2, <1>3, RamInvariant, PTL DEF RamSpec
===============================================================================
