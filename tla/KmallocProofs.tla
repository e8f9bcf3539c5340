----------------------------- MODULE KmallocProofs -----------------------------
(***************************************************************************)
(* The kernel heap, for every heap size, block size and set of requests.   *)
(* The first-fit loop finds the first fit and fails only when there is     *)
(* none; the bitmap is exactly the union of the live regions; the          *)
(* allocator implements the promise of module Heap, and kmalloc with its   *)
(* loop implements the one-step allocator.                                 *)
(***************************************************************************)
EXTENDS KmallocCall, TLAPS

(* The loop starts in its invariant. *)
LEMMA ScanInvInit == ScanInit => ScanInv
  BY SizeAssumption
  DEF ScanInit, ScanInv, ScanTypeOK, Units, Extent, FoundIsFirstFit

(* A free unit extends the run; when the run is complete it is the lowest
   one, because the unit before it is taken and no run ends before i. *)
LEMMA FreeUnitKeeps == ScanInv /\ FreeUnit => ScanInv'
<1> SUFFICES ASSUME ScanInv, FreeUnit PROVE ScanInv'
  OBVIOUS
<1> USE SizeAssumption DEF ScanInv, ScanTypeOK, Units
<1>1. /\ i \in 0 .. (Size - 1) /\ i \notin used /\ count < request /\ count <= i
      /\ used' = used /\ request' = request /\ request \in Nat \ {0}
      /\ count' = count + 1 /\ count' <= request
      /\ start' = i - count /\ start' \in Units
  BY DEF FreeUnit
<1>2. Extent(i - count, count + 1) \cap used = {}
  BY <1>1 DEF FreeUnit, Extent
<1>3. CASE count + 1 = request
  <2>1. scan' = "found" /\ i' = i
    BY <1>3 DEF FreeUnit
  <2>2. start' \in Fits(used, Size, request)
    BY <1>1, <1>2, <1>3 DEF Fits
  <2>3. ASSUME NEW t \in Fits(used, Size, request), t < start'
        PROVE  FALSE
    <3>1. t + request > i
      BY <2>3, <1>1 DEF Fits, FreeUnit
    <3>2. start' - 1 \in used
      BY <2>3, <1>1 DEF Fits, FreeUnit
    <3>3. start' - 1 \in Extent(t, request)
      BY <2>3, <3>1, <1>1, <1>3 DEF Fits, Extent
    <3> QED
      BY <3>2, <3>3, <2>3 DEF Fits
  <2>4. start' \in FirstFits(used, Size, request)
    <3>1. \A t \in Fits(used, Size, request) : t \in Int
      BY DEF Fits
    <3> QED
      BY <2>2, <2>3, <3>1, <1>1 DEF FirstFits
  <2> QED
    BY <1>1, <2>1, <2>4 DEF FoundIsFirstFit
<1>4. CASE count + 1 # request
  <2>1. scan' = scan /\ scan = "scan" /\ i' = i + 1
    BY <1>4 DEF FreeUnit
  <2>2. \A s \in Units : s + request <= i' => Extent(s, request) \cap used # {}
    <3> SUFFICES ASSUME NEW s \in Units, s + request = i + 1
                 PROVE  Extent(s, request) \cap used # {}
      BY <2>1 DEF FreeUnit
    <3>1. (i - count - 1) \in used /\ (i - count - 1) \in Extent(s, request)
      BY <1>1, <1>4, <2>1 DEF Extent
    <3> QED
      BY <3>1
  <2> QED
    BY <1>1, <1>2, <1>4, <2>1, <2>2 DEF FoundIsFirstFit
<1> QED
  BY <1>3, <1>4

(* A taken unit empties the run; every run that ends at it contains it. *)
LEMMA UsedUnitKeeps == ScanInv /\ UsedUnit => ScanInv'
<1> SUFFICES ASSUME ScanInv, UsedUnit PROVE ScanInv'
  OBVIOUS
<1> USE SizeAssumption DEF ScanInv, ScanTypeOK, Units, UsedUnit
<1>1. \A s \in Units : s + request <= i' => Extent(s, request) \cap used' # {}
  <2> SUFFICES ASSUME NEW s \in Units, s + request = i + 1
               PROVE  Extent(s, request) \cap used # {}
    OBVIOUS
  <2> QED
    BY DEF Extent
<1>2. Extent(i' - count', count') \cap used' = {}
  BY DEF Extent
<1> QED
  BY <1>1, <1>2 DEF FoundIsFirstFit

(* Every step of the loop keeps the invariant. *)
LEMMA ScanNextKeeps == ScanInv /\ [ScanNext]_scanVars => ScanInv'
<1>1. ScanInv /\ NoRoom => ScanInv'
  BY DEF NoRoom, ScanInv, ScanTypeOK, FoundIsFirstFit, Units
<1>2. ScanInv /\ UNCHANGED scanVars => ScanInv'
  BY DEF scanVars, ScanInv, ScanTypeOK, FoundIsFirstFit, Units
<1> QED
  BY <1>1, <1>2, FreeUnitKeeps, UsedUnitKeeps DEF ScanNext

(* ScanInv is an inductive invariant of the loop. *)
THEOREM ScanCorrect == ScanSpec => []ScanInv
  BY ScanInvInit, ScanNextKeeps, PTL DEF ScanSpec

(* Whatever the size, the request and the bitmap, a search that succeeds
   returns the lowest place where the request fits. *)
THEOREM ScanFindsFirstFit == ScanSpec => []FoundIsFirstFit
<1>1. ScanInv => FoundIsFirstFit
  BY DEF ScanInv
<1> QED
  BY <1>1, ScanCorrect, PTL

(* ... and one that fails had no place to find. *)
THEOREM ScanFailsOnlyWhenFull == ScanSpec => []NoneIsFull
<1>1. ScanInv => NoneIsFull
  BY SizeAssumption
  DEF ScanInv, NoneIsFull, Fits, ScanTypeOK, Units
<1> QED
  BY <1>1, ScanCorrect, PTL

-------------------------------------------------------------------------------
(* A request of at least one byte takes at least one data block. *)
LEMMA DataBlocksPositive ==
  ASSUME NEW size \in Nat
  PROVE  DataBlocks(size) \in Nat /\ (size > 0 => DataBlocks(size) > 0)
  BY KmallocAssumption, Z3 DEF DataBlocks

(* So the region and its header are at least two blocks. *)
LEMMA TotalPositive ==
  ASSUME NEW size \in Nat, size > 0
  PROVE  Total(size) \in Nat /\ Total(size) > 1
  BY DataBlocksPositive DEF Total

(* The place first fit chooses is free and inside the heap. *)
LEMMA FirstFitIsFree ==
  ASSUME NEW taken, NEW n \in Nat, n > 1,
         NEW s \in FirstFits(taken, NumBlocks, n)
  PROVE  /\ s \in 0 .. (NumBlocks - 2) /\ s + n <= NumBlocks
         /\ Extent(s, n) \in SUBSET Blocks
         /\ Extent(s, n) \cap taken = {}
  BY KmallocAssumption DEF FirstFits, Fits, Extent, Blocks

(* An empty heap satisfies the invariant. *)
LEMMA InitHeapInv == Init => HeapInv
<1> SUFFICES ASSUME Init PROVE HeapInv
  OBVIOUS
<1>1. TypeOK
  BY KmallocAssumption DEF Init, TypeOK, Blocks, Ptrs
<1>2. Live = {}
  BY DEF Init, Live
<1> QED
  BY <1>1, <1>2
  DEF Init, HeapInv, BitmapIsLiveRegions, HeadersIntact, WholesDisjoint

(* kmalloc adds one region, disjoint from the others because first fit only
   takes free blocks and every block of a live region is marked. *)
LEMMA KmallocFoundKeeps ==
  ASSUME HeapInv, NEW size \in Sizes, KmallocFound(size)
  PROVE  HeapInv'
<1> DEFINE n == Total(size)
<1>1. size \in Nat /\ size > 0 /\ n \in Nat /\ n > 1
  BY KmallocAssumption, TotalPositive DEF KmallocFound
<1>2. PICK first \in FirstFits(bitmap, NumBlocks, n) :
        /\ bitmap' = bitmap \cup Extent(first, n)
        /\ mem' = [mem EXCEPT ![first] = n]
        /\ live' = [live EXCEPT ![first + 1] = size]
        /\ ret' = first + 1
  BY DEF KmallocFound
<1> HIDE DEF n
<1>3. /\ first \in Blocks /\ first + 1 \in Ptrs
      /\ Extent(first, n) \in SUBSET Blocks
      /\ Extent(first, n) \cap bitmap = {}
      /\ first \in Extent(first, n)
  BY <1>1, <1>2, FirstFitIsFree, KmallocAssumption DEF Blocks, Ptrs, Extent
<1>4. TypeOK'
  BY <1>1, <1>2, <1>3 DEF HeapInv, TypeOK
<1>5. first + 1 \notin Live
  <2>1. SUFFICES ASSUME first + 1 \in Live PROVE FALSE
    OBVIOUS
  <2>2. first \in Whole(first + 1)
    BY <2>1, <1>3, TotalPositive DEF Whole, Extent, Live, HeapInv, TypeOK, Blocks
  <2> QED
    BY <2>1, <2>2, <1>3 DEF HeapInv, BitmapIsLiveRegions
<1>6. Live' = Live \cup {first + 1}
  BY <1>1, <1>2, <1>3 DEF Live, HeapInv, TypeOK
<1>7. /\ Whole(first + 1)' = Extent(first, n)
      /\ \A p \in Live : Whole(p)' = Whole(p) /\ live'[p] = live[p]
  BY <1>1, <1>2, <1>3, <1>5 DEF Whole, Live, HeapInv, TypeOK, n, Blocks
<1>8. BitmapIsLiveRegions'
  BY <1>2, <1>6, <1>7 DEF HeapInv, BitmapIsLiveRegions
<1>9. \A p \in Live : Whole(p) \cap Extent(first, n) = {}
  BY <1>3 DEF HeapInv, BitmapIsLiveRegions
<1>10. WholesDisjoint'
  BY <1>3, <1>6, <1>7, <1>9 DEF HeapInv, WholesDisjoint
<1>11. HeadersIntact'
  <2>1. \A p \in Live : p - 1 # first /\ p - 1 \in Blocks
    BY <1>3, <1>5, KmallocAssumption DEF Live, Ptrs, Blocks
  <2>2. mem'[first] = n /\ \A p \in Live : mem'[p - 1] = mem[p - 1]
    BY <1>2, <1>3, <2>1 DEF HeapInv, TypeOK
  <2>3. live'[first + 1] = size
    BY <1>2, <1>3 DEF HeapInv, TypeOK
  <2>4. (first + 1) - 1 = first
    BY <1>3 DEF Blocks
  <2> QED
    BY <1>6, <1>7, <2>2, <2>3, <2>4 DEF HeapInv, HeadersIntact, n
<1> QED
  BY <1>4, <1>8, <1>10, <1>11 DEF HeapInv

(* kfree clears exactly the blocks of the region it is given: the header
   still holds the region's length, and no other region has a block there. *)
LEMMA KfreeKeeps ==
  ASSUME HeapInv, NEW p \in Ptrs, Kfree(p)
  PROVE  HeapInv'
<1>1. p \in Live /\ mem[p - 1] = Total(live[p])
  BY DEF Kfree, Live, HeapInv, HeadersIntact
<1>2. bitmap' = bitmap \ Whole(p) /\ live' = [live EXCEPT ![p] = 0] /\ mem' = mem
  BY <1>1 DEF Kfree, Whole
<1>3. TypeOK'
  BY <1>2 DEF HeapInv, TypeOK, Kfree
<1>4. Live' = Live \ {p}
  BY <1>2 DEF Live, HeapInv, TypeOK
<1>5. \A q \in Live' : Whole(q)' = Whole(q) /\ live'[q] = live[q]
  BY <1>2, <1>4 DEF Whole, Live, HeapInv, TypeOK
<1>6. BitmapIsLiveRegions'
  BY <1>1, <1>2, <1>4, <1>5 DEF HeapInv, BitmapIsLiveRegions, WholesDisjoint
<1>7. WholesDisjoint'
  BY <1>4, <1>5 DEF HeapInv, WholesDisjoint
<1>8. HeadersIntact'
  BY <1>2, <1>4, <1>5 DEF HeapInv, HeadersIntact
<1> QED
  BY <1>3, <1>6, <1>7, <1>8 DEF HeapInv

(* A store inside a region reaches no header: headers lie outside every
   region's data blocks. *)
LEMMA StoreKeeps ==
  ASSUME HeapInv, NEW p \in Ptrs, NEW b \in Blocks, NEW w \in Words,
         Store(p, b, w)
  PROVE  HeapInv'
<1>1. p \in Live /\ live[p] \in Nat /\ live[p] > 0
  BY DEF Store, Live, HeapInv, TypeOK
<1>2. TypeOK'
  BY KmallocAssumption DEF Store, HeapInv, TypeOK
<1>3. ASSUME NEW q \in Live PROVE b # q - 1
  <2>1. live[q] \in Nat /\ live[q] > 0 /\ q \in Nat
    BY DEF Live, HeapInv, TypeOK, Ptrs
  <2>2. q - 1 \in Whole(q)
    BY <2>1, TotalPositive DEF Whole, Extent
  <2>3. b \in Whole(p) /\ b # p - 1
    BY <1>1, DataBlocksPositive DEF Store, Whole, Total, Extent, Ptrs
  <2>4. CASE p = q
    BY <2>3, <2>4
  <2>5. CASE p # q
    BY <2>2, <2>3, <2>5, <1>1 DEF HeapInv, WholesDisjoint
  <2> QED
    BY <2>4, <2>5
<1>4. HeadersIntact'
  <2>1. \A q \in Live : mem'[q - 1] = mem[q - 1]
    BY <1>3 DEF Store, HeapInv, TypeOK, Live, Ptrs, Blocks
  <2> QED
    BY <2>1 DEF HeapInv, HeadersIntact, Live, Store
<1>5. Live' = Live /\ \A q \in Live : Whole(q)' = Whole(q)
  BY DEF Store, Live, Whole
<1>6. BitmapIsLiveRegions' /\ WholesDisjoint'
  BY <1>5 DEF HeapInv, BitmapIsLiveRegions, WholesDisjoint, Store
<1> QED
  BY <1>2, <1>4, <1>6 DEF HeapInv

(* A kmalloc that returns 0, and stuttering, leave the heap alone. *)
LEMMA UnchangedKeeps ==
  ASSUME HeapInv, UNCHANGED <<bitmap, mem, live>>, ret' \in {0} \cup Ptrs
  PROVE  HeapInv'
<1>1. TypeOK'
  BY DEF HeapInv, TypeOK
<1>2. Live' = Live /\ \A q \in Live : Whole(q)' = Whole(q)
  BY DEF Live, Whole
<1> QED
  BY <1>1, <1>2
  DEF HeapInv, BitmapIsLiveRegions, WholesDisjoint, HeadersIntact

(* Every step keeps the invariant. *)
LEMMA NextKeepsHeapInv == HeapInv /\ [Next]_vars => HeapInv'
<1> SUFFICES ASSUME HeapInv, [Next]_vars PROVE HeapInv'
  OBVIOUS
<1>1. ASSUME NEW size \in Sizes, KmallocFound(size) PROVE HeapInv'
  BY <1>1, KmallocFoundKeeps
<1>2. ASSUME NEW size \in Sizes, KmallocNull(size) PROVE HeapInv'
  BY <1>2, UnchangedKeeps DEF KmallocNull
<1>3. ASSUME NEW p \in Ptrs, Kfree(p) PROVE HeapInv'
  BY <1>3, KfreeKeeps
<1>4. ASSUME NEW p \in Ptrs, NEW b \in Blocks, NEW w \in Words, Store(p, b, w)
      PROVE  HeapInv'
  BY <1>4, StoreKeeps
<1>5. CASE UNCHANGED vars
  BY <1>5, UnchangedKeeps DEF vars, HeapInv, TypeOK
<1> QED
  BY <1>1, <1>2, <1>3, <1>4, <1>5 DEF Next

(* HeapInv is an inductive invariant of the allocator: in particular the
   bitmap is always exactly the live regions with their headers. *)
THEOREM HeapInvariant == Spec => []HeapInv
  BY InitHeapInv, NextKeepsHeapInv, PTL DEF Spec

(* The blocks a caller may touch are those of the region without its
   header; what the promise calls taken are the live regions, and adding
   the block before each gives the whole regions. *)
LEMMA TakenIsLive ==
  ASSUME HeapInv
  PROVE  /\ Promise!TakenBlocks \subseteq bitmap
         /\ bitmap = Promise!TakenBlocks \cup {p - 1 : p \in Live}
<1>1. \A p \in Live : Whole(p) = Promise!Region(p, live[p]) \cup {p - 1}
  <2> TAKE p \in Live
  <2>1. p \in Nat /\ DataBlocks(live[p]) \in Nat /\ DataBlocks(live[p]) > 0
    BY DataBlocksPositive DEF Live, Ptrs, HeapInv, TypeOK
  <2> QED
    BY <2>1 DEF Whole, Total, Extent, Promise!Region, Promise!Extent,
                Promise!DataBlocks, DataBlocks
<1>2. Promise!TakenBlocks = UNION {Promise!Region(p, live[p]) : p \in Live}
  BY DEF Promise!TakenBlocks, Live, Promise!Ptrs, Ptrs
<1> QED
  BY <1>1, <1>2 DEF HeapInv, BitmapIsLiveRegions

(* A successful kmalloc is an allocation the promise allows. *)
LEMMA FoundIsAlloc ==
  ASSUME HeapInv, NEW size \in Sizes, KmallocFound(size)
  PROVE  Promise!Alloc(size)
<1>1. size \in Nat /\ size > 0 /\ Total(size) \in Nat /\ Total(size) > 1
  BY KmallocAssumption, TotalPositive DEF KmallocFound
<1>2. PICK first \in FirstFits(bitmap, NumBlocks, Total(size)) :
        /\ live' = [live EXCEPT ![first + 1] = size]
        /\ ret' = first + 1
  BY DEF KmallocFound
<1>3. /\ first \in Blocks /\ first + 1 \in Ptrs
      /\ first + Total(size) <= NumBlocks
      /\ Extent(first, Total(size)) \cap bitmap = {}
  BY <1>1, FirstFitIsFree, KmallocAssumption DEF Blocks, Ptrs
<1>4. /\ Promise!Region(first + 1, size) \subseteq Extent(first, Total(size))
      /\ first + 1 + Promise!DataBlocks(size) <= NumBlocks
  BY <1>1, <1>3, DataBlocksPositive
  DEF Promise!Region, Promise!Extent, Extent, Promise!DataBlocks, DataBlocks,
      Total, Blocks
<1>5. live[first + 1] = 0
  <2>1. CASE first + 1 \in Live
    <3>1. (first + 1) - 1 = first
      BY <1>3 DEF Blocks
    <3>2. first \in bitmap
      BY <2>1, <3>1, TakenIsLive
    <3> QED
      BY <3>2, <1>1, <1>3 DEF Extent, Blocks
  <2>2. CASE first + 1 \notin Live
    BY <2>2, <1>3 DEF Live, HeapInv, TypeOK
  <2> QED
    BY <2>1, <2>2
<1> QED
  BY <1>1, <1>2, <1>3, <1>4, <1>5, TakenIsLive DEF Promise!Alloc, Promise!Ptrs, Ptrs

(* kmalloc returns 0 only when the promise allows it. *)
LEMMA NullIsRefuse ==
  ASSUME HeapInv, NEW size \in Sizes, KmallocNull(size)
  PROVE  Promise!Refuse(size)
<1>1. bitmap = Promise!TakenBlocks
                 \cup {p - 1 : p \in {q \in Promise!Ptrs : live[q] > 0}}
  BY TakenIsLive DEF Live, Promise!Ptrs, Ptrs
<1> QED
  BY <1>1
  DEF KmallocNull, Promise!Refuse, Promise!Fits, Fits, Promise!Extent, Extent,
      Total, Promise!DataBlocks, DataBlocks

(* Every block in use belongs to a live region or is its header. *)
THEOREM BitmapStaysExact == Spec => []BitmapIsLiveRegions
<1>1. HeapInv => BitmapIsLiveRegions
  BY DEF HeapInv
<1> QED
  BY <1>1, HeapInvariant, PTL

(* kfree always finds the header that kmalloc wrote. *)
THEOREM HeadersStayIntact == Spec => []HeadersIntact
<1>1. HeapInv => HeadersIntact
  BY DEF HeapInv
<1> QED
  BY <1>1, HeapInvariant, PTL

(* The bitmap allocator implements the promise of kmalloc.h: regions that do
   not overlap, frees that touch one region only, 0 only without room. *)
THEOREM KmallocImplementsHeap == Spec => ImplementsHeap
<1>1. Init => Promise!Init
  BY DEF Init, Promise!Init, Ptrs, Promise!Ptrs
<1>2. HeapInv /\ [Next]_vars => [Promise!Next]_(Promise!vars)
  <2> SUFFICES ASSUME HeapInv, [Next]_vars
               PROVE  [Promise!Next]_(Promise!vars)
    OBVIOUS
  <2>1. ASSUME NEW size \in Sizes, KmallocFound(size) PROVE Promise!Next
    BY <2>1, FoundIsAlloc DEF Promise!Next
  <2>2. ASSUME NEW size \in Sizes, KmallocNull(size) PROVE Promise!Next
    BY <2>2, NullIsRefuse DEF Promise!Next
  <2>3. ASSUME NEW p \in Ptrs, Kfree(p) PROVE Promise!Next
    BY <2>3 DEF Kfree, Promise!Next, Promise!Free, Promise!Ptrs, Ptrs
  <2>4. ASSUME NEW p \in Ptrs, NEW b \in Blocks, NEW w \in Words, Store(p, b, w)
        PROVE  UNCHANGED Promise!vars
    BY <2>4 DEF Store, Promise!vars
  <2>5. CASE UNCHANGED vars
    BY <2>5 DEF vars, Promise!vars
  <2> QED
    BY <2>1, <2>2, <2>3, <2>4, <2>5 DEF Next
<1> QED
  BY <1>1, <1>2, HeapInvariant, PTL DEF Spec, Promise!Spec, ImplementsHeap

-------------------------------------------------------------------------------
(* The invariant holds before the first call. *)
LEMMA CallInvInit == CallInit => CallInv
<1> SUFFICES ASSUME CallInit PROVE CallInv
  OBVIOUS
<1>1. ScanInv
  BY SizeAssumption DEF CallInit, ScanInv, ScanTypeOK, Units, FoundIsFirstFit
<1> QED
  BY <1>1, InitHeapInv DEF CallInit, CallInv, Linked

(* A search that ended has found what KmallocFound or KmallocNull asks
   for. *)
LEMMA ReturnIsKmalloc ==
  ASSUME CallInv, ReturnFound \/ ReturnNull
  PROVE  \E size \in Sizes : KmallocFound(size) \/ KmallocNull(size)
<1>1. used = bitmap /\ asked \in Sizes /\ asked > 0 /\ request = Total(asked)
  BY DEF CallInv, Linked, ReturnFound, ReturnNull
<1>2. CASE ReturnFound
  <2>1. start \in FirstFits(bitmap, NumBlocks, Total(asked))
    BY <1>1, <1>2, SameHeap DEF CallInv, ScanInv, FoundIsFirstFit, ReturnFound
  <2> QED
    BY <1>1, <1>2, <2>1 DEF ReturnFound, KmallocFound
<1>3. CASE ReturnNull
  <2>1. Fits(bitmap, NumBlocks, Total(asked)) = {}
    BY <1>1, <1>3, SizeAssumption, SameHeap
    DEF CallInv, ScanInv, Fits, ScanTypeOK, Units, ReturnNull
  <2> QED
    BY <1>1, <1>3, <2>1 DEF ReturnNull, KmallocNull
<1> QED
  BY <1>2, <1>3

(* Every step is a step of Kmalloc or leaves the heap alone. *)
LEMMA CallStepIsKmalloc ==
  CallInv /\ [CallNext]_callVars => [Next]_vars
<1> SUFFICES ASSUME CallInv, [CallNext]_callVars PROVE [Next]_vars
  OBVIOUS
<1>1. CASE ReturnFound \/ ReturnNull
  BY <1>1, ReturnIsKmalloc DEF Next
<1>2. CASE ReturnAtOnce
  BY <1>2 DEF ReturnAtOnce, KmallocNull, Next
<1>3. CASE Caller
  BY <1>3 DEF Caller, Next
<1>4. CASE (\E size \in Sizes : Begin(size)) \/ (ScanNext /\ UNCHANGED <<vars, asked>>)
  BY <1>4 DEF Begin
<1>5. CASE UNCHANGED callVars
  BY <1>5 DEF callVars, vars
<1> QED
  BY <1>1, <1>2, <1>3, <1>4, <1>5 DEF CallNext

(* The search keeps its own invariant: it starts afresh, its steps keep it,
   and nothing else touches it before the call returns. *)
LEMMA CallKeepsScanInv ==
  ASSUME CallInv, [CallNext]_callVars
  PROVE  ScanInv'
<1>1. ASSUME NEW size \in Sizes, Begin(size) PROVE ScanInv'
  <2>1. size \in Nat /\ size > 0 /\ Total(size) \in Nat /\ Total(size) > 1
    BY <1>1, KmallocAssumption, TotalPositive DEF Begin
  <2> QED
    BY <1>1, <2>1, SizeAssumption, SameHeap
    DEF Begin, CallInv, HeapInv, TypeOK, Blocks, ScanInv, ScanTypeOK, Units,
        FoundIsFirstFit, Extent
<1>2. CASE ScanNext
  BY <1>2, ScanNextKeeps DEF CallInv
<1>3. CASE ReturnFound \/ ReturnNull
  BY <1>3, SizeAssumption
  DEF ReturnFound, ReturnNull, CallEnds, ScanInv, ScanTypeOK, Units, FoundIsFirstFit
<1>4. CASE UNCHANGED scanVars
  BY <1>4, ScanNextKeeps DEF CallInv
<1> QED
  BY <1>1, <1>2, <1>3, <1>4 DEF CallNext, ReturnAtOnce, Caller, callVars, scanVars

(* The loop goes on looking for what was asked, in the same bitmap. *)
LEMMA CallKeepsLinked ==
  ASSUME CallInv, [CallNext]_callVars
  PROVE  Linked'
<1>1. ASSUME NEW size \in Sizes, Begin(size) PROVE Linked'
  BY <1>1 DEF Begin, Linked, vars
<1>2. CASE ScanNext /\ UNCHANGED <<vars, asked>>
  BY <1>2 DEF ScanNext, FreeUnit, UsedUnit, NoRoom, CallInv, Linked, vars
<1>3. CASE ReturnFound \/ ReturnNull \/ ReturnAtOnce \/ Caller
  BY <1>3 DEF ReturnFound, ReturnNull, ReturnAtOnce, Caller, CallEnds, Linked, scanVars
<1>4. CASE UNCHANGED callVars
  BY <1>4 DEF callVars, CallInv, Linked
<1> QED
  BY <1>1, <1>2, <1>3, <1>4 DEF CallNext

(* The bitmap is exact and the loop right, between any two iterations. *)
THEOREM CallInvariant == CallSpec => []CallInv
<1>1. CallInv /\ [CallNext]_callVars => CallInv'
  BY CallStepIsKmalloc, NextKeepsHeapInv, CallKeepsScanInv, CallKeepsLinked
  DEF CallInv
<1> QED
  BY CallInvInit, <1>1, PTL DEF CallSpec

(* The loop at kmalloc.c:50-61 and the marking at kmalloc.c:63-72 do what
   Kmalloc says in one step. *)
THEOREM CallImplementsKmalloc == CallSpec => ImplementsKmalloc
<1>1. CallInit => Init
  BY DEF CallInit
<1> QED
  BY <1>1, CallStepIsKmalloc, CallInvariant, PTL
  DEF CallSpec, ImplementsKmalloc, Spec

(* ... and so kmalloc, loop and all, is the heap its callers rely on. *)
THEOREM CallImplementsHeap == CallSpec => ImplementsHeap
  BY CallImplementsKmalloc, KmallocImplementsHeap, PTL DEF ImplementsKmalloc
===============================================================================
