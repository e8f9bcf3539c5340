-------------------------------- MODULE Kmalloc --------------------------------
(***************************************************************************)
(* The kernel heap, kernel/kmalloc.c: a bitmap of used blocks and, in the  *)
(* heap itself, one header block before every region with the number of    *)
(* blocks to give back.  The callers are modelled by what they may do:     *)
(* write anything into the blocks they were handed, and free each region   *)
(* at most once.                                                           *)
(***************************************************************************)
EXTENDS Integers, FirstFit

CONSTANTS NumBlocks,   \* NUM_BLOCKS
          BlockSize,   \* BLOCK_SIZE
          Sizes,       \* the sizes in bytes callers ask for
          Words        \* the words callers store at the start of a block

ASSUME KmallocAssumption ==
  /\ NumBlocks \in Nat \ {0}
  /\ BlockSize \in Nat \ {0}
  /\ Sizes \in SUBSET Nat
  /\ Words \in SUBSET Nat

VARIABLES bitmap,   \* the blocks whose bit is set
          mem,      \* mem[b] = the first word of block b
          live,     \* live[p] = bytes asked for at p and not yet freed, or 0
          ret       \* what the last kmalloc returned

vars == <<bitmap, mem, live, ret>>

Blocks == 0 .. (NumBlocks - 1)
Ptrs   == 1 .. (NumBlocks - 1)
Live   == {p \in Ptrs : live[p] > 0}

DataBlocks(size) == (size + BlockSize - 1) \div BlockSize
(* A mistake the properties have to catch: no room for the header. *)
Total_NoHeader(size) == DataBlocks(size)

Total(size)      == DataBlocks(size) + 1

(* kmalloc_init clears the bitmap; the heap holds whatever was there. *)
Init ==
  /\ bitmap = {}
  /\ mem \in [Blocks -> Words]
  /\ live = [p \in Ptrs |-> 0]
  /\ ret = 0

-------------------------------------------------------------------------------
(* A successful kmalloc: first fit, mark, write the header, return the
   block after it. *)
KmallocFound(size) ==
  /\ size > 0
  /\ \E start \in FirstFits(bitmap, NumBlocks, Total(size)) :
       /\ bitmap' = bitmap \cup Extent(start, Total(size))
       /\ mem' = [mem EXCEPT ![start] = Total(size)]
       /\ live' = [live EXCEPT ![start + 1] = size]
       /\ ret' = start + 1

(* kmalloc returns 0: nothing asked for, or no run long enough. *)
KmallocNull(size) ==
  /\ size = 0 \/ Fits(bitmap, NumBlocks, Total(size)) = {}
  /\ ret' = 0
  /\ UNCHANGED <<bitmap, mem, live>>

(* A mistake the properties have to catch: the header block stays marked. *)
Kfree_KeepsHeader(p) ==
  /\ live[p] > 0
  /\ bitmap' = bitmap \ Extent(p, mem[p - 1] - 1)
  /\ live' = [live EXCEPT ![p] = 0]
  /\ UNCHANGED <<mem, ret>>

(* kfree believes the header it finds one block before the pointer. *)
Kfree(p) ==
  /\ live[p] > 0
  /\ bitmap' = bitmap \ Extent(p - 1, mem[p - 1])
  /\ live' = [live EXCEPT ![p] = 0]
  /\ UNCHANGED <<mem, ret>>

(* A caller stores a word inside its region. *)
Store(p, b, w) ==
  /\ live[p] > 0
  /\ b \in Extent(p, DataBlocks(live[p]))
  /\ mem' = [mem EXCEPT ![b] = w]
  /\ UNCHANGED <<bitmap, live, ret>>

Next ==
  \/ \E size \in Sizes : KmallocFound(size) \/ KmallocNull(size)
  \/ \E p \in Ptrs : Kfree(p)
  \/ \E p \in Ptrs, b \in Blocks, w \in Words : Store(p, b, w)

Spec == Init /\ [][Next]_vars

-------------------------------------------------------------------------------
TypeOK ==
  /\ bitmap \in SUBSET Blocks
  /\ mem \in [Blocks -> Nat]
  /\ live \in [Ptrs -> Nat]
  /\ ret \in {0} \cup Ptrs

(* Header block and data blocks of the region at p. *)
Whole(p) == Extent(p - 1, Total(live[p]))

(* The bitmap is exactly the union of the regions handed out and their
   headers: kfree leaks nothing and frees nothing of another caller
   (kernel/kmalloc.c:75). *)
BitmapIsLiveRegions == bitmap = UNION {Whole(p) : p \in Live}

(* A header keeps the length kmalloc wrote in it for as long as the region
   is live, whatever the callers store in theirs (kernel/kmalloc.c:69). *)
HeadersIntact == \A p \in Live : mem[p - 1] = Total(live[p])

(* Regions lie inside the heap and neither they nor their headers overlap. *)
WholesDisjoint ==
  /\ \A p \in Live : Whole(p) \in SUBSET Blocks
  /\ \A p, q \in Live : p # q => Whole(p) \cap Whole(q) = {}

(* The inductive invariant. *)
HeapInv == TypeOK /\ BitmapIsLiveRegions /\ HeadersIntact /\ WholesDisjoint

(* The heap implements what kmalloc.h promises. *)
Promise == INSTANCE Heap

ImplementsHeap == Promise!Spec
===============================================================================
