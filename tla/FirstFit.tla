------------------------------- MODULE FirstFit -------------------------------
(***************************************************************************)
(* First-fit search for a run of n free units among the units 0 .. size-1. *)
(* The heap (kernel/kmalloc.c) and the sector allocator of drive A:        *)
(* (fs/fs_disk.c) contain the same loop; this module says what that loop   *)
(* returns.  FirstFitScan models the loop itself and relates the two.      *)
(*                                                                         *)
(* The result is given as a set, empty when there is no room, because both *)
(* callers test for failure before they use the start.                     *)
(***************************************************************************)
LOCAL INSTANCE Integers

(* The n units from unit s on. *)
Extent(s, n) == s .. (s + n - 1)

(* The starts of the runs of n units, none of them in `used'. *)
Fits(used, size, n) ==
  {s \in 0 .. (size - 1) : s + n <= size /\ Extent(s, n) \cap used = {}}

(* The least of them: at most one element. *)
FirstFits(used, size, n) ==
  {s \in Fits(used, size, n) : \A t \in Fits(used, size, n) : s <= t}
===============================================================================
