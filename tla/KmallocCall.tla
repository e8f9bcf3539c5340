------------------------------ MODULE KmallocCall ------------------------------
(***************************************************************************)
(* kmalloc with the loop that Kmalloc takes in one step: the search of     *)
(* FirstFitScan runs over the bitmap, and where it ends up is the region   *)
(* that is marked and returned.  Interrupt handlers do not allocate, so    *)
(* nothing happens to the heap while the loop runs.                        *)
(***************************************************************************)
EXTENDS Kmalloc, FirstFitScan

ASSUME SameHeap == Size = NumBlocks

VARIABLE asked   \* the argument of the kmalloc in progress, or 0

callVars == <<bitmap, mem, live, ret, used, request, i, start, count, scan, asked>>

CallInit ==
  /\ Init
  /\ scan = "idle" /\ asked = 0
  /\ used = {} /\ request = 1 /\ i = 0 /\ start = 0 /\ count = 0

(* The locals of the call are gone. *)
CallEnds ==
  /\ scan' = "idle" /\ asked' = 0
  /\ used' = {} /\ request' = 1 /\ i' = 0 /\ start' = 0 /\ count' = 0

Begin(size) ==
  /\ scan = "idle" /\ scan' = "scan"
  /\ size > 0
  /\ asked' = size /\ request' = Total(size)
  /\ used' = bitmap
  /\ i' = 0 /\ start' = 0 /\ count' = 0
  /\ UNCHANGED vars

(* A mistake the properties have to catch: the header block is not
   marked. *)
ReturnFound_MarksData ==
  /\ scan = "found" /\ CallEnds
  /\ bitmap' = bitmap \cup Extent(start + 1, request - 1)
  /\ mem' = [mem EXCEPT ![start] = request]
  /\ live' = [live EXCEPT ![start + 1] = asked]
  /\ ret' = start + 1

(* `found' marks the blocks from `start' on. *)
ReturnFound ==
  /\ scan = "found" /\ CallEnds
  /\ bitmap' = bitmap \cup Extent(start, request)
  /\ mem' = [mem EXCEPT ![start] = request]
  /\ live' = [live EXCEPT ![start + 1] = asked]
  /\ ret' = start + 1

(* size is 0, or the loop found nothing. *)
ReturnNull ==
  /\ scan = "none" /\ CallEnds
  /\ ret' = 0
  /\ UNCHANGED <<bitmap, mem, live>>

ReturnAtOnce ==
  /\ scan = "idle" /\ 0 \in Sizes
  /\ ret' = 0
  /\ UNCHANGED <<bitmap, mem, live, scanVars, asked>>

(* Frees and stores of the callers. *)
Caller ==
  /\ scan = "idle"
  /\ \/ \E p \in Ptrs : Kfree(p)
     \/ \E p \in Ptrs, b \in Blocks, w \in Words : Store(p, b, w)
  /\ UNCHANGED <<scanVars, asked>>

CallNext ==
  \/ \E size \in Sizes : Begin(size)
  \/ ScanNext /\ UNCHANGED <<vars, asked>>
  \/ ReturnFound \/ ReturnNull \/ ReturnAtOnce \/ Caller

CallSpec == CallInit /\ [][CallNext]_callVars
-------------------------------------------------------------------------------
(* While the loop runs the bitmap is the one it started with, and it looks
   for the blocks of the call in progress. *)
Linked ==
  scan # "idle" => /\ used = bitmap
                   /\ asked \in Sizes /\ asked > 0 /\ request = Total(asked)

CallInv == HeapInv /\ ScanInv /\ Linked

(* The loop and what follows it do what Kmalloc says in one step: mark the
   first fit, or return 0 because there is none (kmalloc.c:43-73). *)
ImplementsKmalloc == Spec
===============================================================================
