------------------------------- MODULE MCNetwork -------------------------------
(***************************************************************************)
(* An instance of Network for TLC: three hosts on the subnet and one       *)
(* beyond the gateway, two names that are equal in their first 63          *)
(* characters, frames of one to three units.                               *)
(***************************************************************************)
EXTENDS Network

CutTo63(n)    == IF n = "longer" THEN "long" ELSE n
AddressOf(n)  == CASE n = "short" -> {"gw", "far"} [] n = "long" -> {"pc"} [] OTHER -> {"far"}
UnitsOf       == "a" :> 1 @@ "b" :> 2 @@ "c" :> 3
===============================================================================
