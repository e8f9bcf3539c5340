-------------------------------- MODULE Devices --------------------------------
(***************************************************************************)
(* The three devices whose interrupts the kernel takes.  Their handlers    *)
(* share no variable, so a step of one neither enables nor disables a step *)
(* of another, nor changes what a property of another sees: a behaviour in *)
(* which one device acts shows all that the properties of that device can  *)
(* see in a behaviour of all three.  `device' is the one that acts.        *)
(***************************************************************************)
EXTENDS Keyboard, Mouse, Timer

VARIABLE device

vars == <<kbdVars, mouseVars, timerVars, device>>

Acts(name, A, others) == device = name /\ A /\ UNCHANGED <<others, device>>

Init ==
  /\ KbdInit /\ MouseInit /\ TimerInit
  /\ device \in {"keyboard", "mouse", "timer"}
  /\ device # "timer" => ticks = 0

Ticks == Acts("timer", TimerIrq, <<kbdVars, mouseVars>>)
Waits == Acts("timer", Program, <<kbdVars, mouseVars>>)

Next ==
  \/ Acts("keyboard", KbdNext, <<mouseVars, timerVars>>)
  \/ Acts("mouse", MouseNext, <<kbdVars, timerVars>>)
  \/ Ticks \/ Waits
  \/ \E n \in Times : Acts("timer", Start(n), <<kbdVars, mouseVars>>)

Spec == Init /\ [][Next]_vars

(* The PIT ticks, and the program that waits runs between its ticks. *)
FairSpec == Spec /\ WF_vars(Ticks) /\ WF_vars(Waits)
-------------------------------------------------------------------------------
TypeOK == KbdTypeOK /\ MouseTypeOK /\ TimerTypeOK
===============================================================================
