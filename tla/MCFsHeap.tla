------------------------------- MODULE MCFsHeap -------------------------------
(* What the users of drive H: type in the runs: two files, a directory. *)
EXTENDS FsHeap

FG   == {<<"f", "t">>, <<"g", "t">>}
Lines == {<<8>>, <<9, 8, 9, 8>>}
Line  == {<<8>>}

(* Bound: a behaviour ends when the other terminal is left in a directory that
   is gone. *)
NotStale == ~stale
===============================================================================
