----------------------------- MODULE FirstFitScan -----------------------------
(***************************************************************************)
(* The allocation loop shared by kmalloc and sec_alloc, one iteration per  *)
(* step: `count' is the length of the free run that ends just before i,    *)
(* `start' the unit at which that run began.                               *)
(***************************************************************************)
EXTENDS Integers, FirstFit

CONSTANT Size       \* NUM_BLOCKS, FSD_DATA_SECTORS

ASSUME SizeAssumption == Size \in Nat \ {0}

VARIABLES used,     \* the units whose bit is set; the loop only reads it
          request,  \* total, n: the number of units asked for
          i, start, count,
          scan      \* "idle", "scan", "found" (goto found), "none" (return 0)

scanVars == <<used, request, i, start, count, scan>>

Units == 0 .. (Size - 1)

ScanTypeOK ==
  /\ used \in SUBSET Units
  /\ request \in Nat \ {0}
  /\ i \in 0 .. Size
  /\ start \in Units
  /\ count \in 0 .. request
  /\ scan \in {"idle", "scan", "found", "none"}

ScanInit ==
  /\ used \in SUBSET Units
  /\ request \in Nat \ {0}
  /\ i = 0 /\ start = 0 /\ count = 0
  /\ scan = "scan"

(* The unit is free: the run grows, and the search ends when it is long
   enough. *)
FreeUnit ==
  /\ scan = "scan" /\ i < Size
  /\ i \notin used
  /\ start' = IF count = 0 THEN i ELSE start
  /\ count' = count + 1
  /\ IF count + 1 = request
       THEN scan' = "found" /\ UNCHANGED i
       ELSE scan' = scan /\ i' = i + 1
  /\ UNCHANGED <<used, request>>

(* A mistake the properties have to catch: the run does not start
   over. *)
UsedUnit_KeepsCount ==
  /\ scan = "scan" /\ i < Size
  /\ i \in used
  /\ i' = i + 1
  /\ UNCHANGED <<used, request, start, count, scan>>

(* The unit is taken: the run starts over. *)
UsedUnit ==
  /\ scan = "scan" /\ i < Size
  /\ i \in used
  /\ count' = 0
  /\ i' = i + 1
  /\ UNCHANGED <<used, request, start, scan>>

(* The loop ran off the end. *)
NoRoom ==
  /\ scan = "scan" /\ i = Size
  /\ scan' = "none"
  /\ UNCHANGED <<used, request, i, start, count>>

ScanNext == FreeUnit \/ UsedUnit \/ NoRoom

ScanSpec == ScanInit /\ [][ScanNext]_scanVars

-------------------------------------------------------------------------------
(* A search that succeeds returns the lowest place where the request fits:
   the loops at kernel/kmalloc.c:50 and fs/fs_disk.c:120 do compute
   FirstFits. *)
FoundIsFirstFit == scan = "found" => start \in FirstFits(used, Size, request)

(* A search that fails had no place to find: the allocators report "no
   space" only when no contiguous run is long enough. *)
NoneIsFull == scan = "none" => Fits(used, Size, request) = {}

(* The inductive invariant: the run that ends at i is entirely free, is
   maximal to the left, and no request-sized run ends before i. *)
ScanInv ==
  /\ ScanTypeOK
  /\ scan \in {"scan", "none"} =>
       /\ count <= i
       /\ count < request
       /\ count > 0 => start = i - count
       /\ Extent(i - count, count) \cap used = {}
       /\ i - count > 0 => (i - count - 1) \in used
       /\ \A s \in Units : s + request <= i => Extent(s, request) \cap used # {}
  /\ FoundIsFirstFit
  /\ scan = "none" => i = Size
===============================================================================
