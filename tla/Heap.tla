--------------------------------- MODULE Heap ---------------------------------
(***************************************************************************)
(* What kernel/kmalloc.h promises its callers: kmalloc hands out regions   *)
(* that do not overlap one another, kfree takes one of them back and       *)
(* leaves the others alone, and 0 comes back only for an empty request or  *)
(* when no place is left.  Nothing is said of bitmaps and headers.         *)
(***************************************************************************)
EXTENDS Integers, FirstFit

CONSTANTS NumBlocks, BlockSize, Sizes

VARIABLES live,   \* live[p] = size of the region handed out at p, 0 if none
          ret     \* what the last kmalloc returned; 0 is the null pointer

vars == <<live, ret>>

(* Pointers are block numbers; block 0 can only hold a header, so 0 stands
   for the null pointer as it does in the code. *)
Ptrs == 1 .. (NumBlocks - 1)

DataBlocks(size) == (size + BlockSize - 1) \div BlockSize

(* The blocks a caller may touch through p. *)
Region(p, size) == Extent(p, DataBlocks(size))

TakenBlocks == UNION {Region(p, live[p]) : p \in {q \in Ptrs : live[q] > 0}}

Init == live = [p \in Ptrs |-> 0] /\ ret = 0

Alloc(size) ==
  /\ size > 0
  /\ \E p \in Ptrs :
       /\ live[p] = 0
       /\ p + DataBlocks(size) <= NumBlocks
       /\ Region(p, size) \cap TakenBlocks = {}
       /\ live' = [live EXCEPT ![p] = size]
       /\ ret' = p

(* Failing is allowed only when the request and one block of bookkeeping
   ("Overhead por alocacao: 1 bloco", kmalloc.c:16) fit in no gap between
   the regions and their bookkeeping blocks. *)
Refuse(size) ==
  /\ \/ size = 0
     \/ Fits(TakenBlocks \cup {p - 1 : p \in {q \in Ptrs : live[q] > 0}},
             NumBlocks, DataBlocks(size) + 1) = {}
  /\ ret' = 0
  /\ UNCHANGED live

Free(p) ==
  /\ live[p] > 0
  /\ live' = [live EXCEPT ![p] = 0]
  /\ UNCHANGED ret

Next ==
  \/ \E size \in Sizes : Alloc(size) \/ Refuse(size)
  \/ \E p \in Ptrs : Free(p)

Spec == Init /\ [][Next]_vars

===============================================================================
