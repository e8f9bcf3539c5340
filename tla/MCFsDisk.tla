------------------------------- MODULE MCFsDisk -------------------------------
(***************************************************************************)
(* Instances of FsDisk for TLC: keys and contents are tuples, which a      *)
(* configuration file cannot write.                                        *)
(***************************************************************************)
EXTENDS FsDisk

TwoFiles == {<<"f", "t">>, <<"g", "t">>}
OneFile  == {<<"f", "t">>}

OneSector == {<<"x", 1>>}
(* One sector, two sectors. *)
Short == {<<"x", 1>>, <<"y", 2>>}
===============================================================================
