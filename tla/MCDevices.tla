------------------------------- MODULE MCDevices -------------------------------
(***************************************************************************)
(* An instance of Devices for TLC.  A byte 1 of the mouse lacks bit 3, a   *)
(* byte -1 (0xFF) has it.                                                  *)
(***************************************************************************)
EXTENDS Devices

LeftAndRight == {-1, 1}
===============================================================================
