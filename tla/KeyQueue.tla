------------------------------- MODULE KeyQueue -------------------------------
(***************************************************************************)
(* What the keyboard promises the programs: keys come out in the order of  *)
(* the interrupts that put them in, each once, and a key is dropped only   *)
(* when Capacity keys are waiting.                                         *)
(***************************************************************************)
EXTENDS Naturals, Sequences

CONSTANTS Keys, Capacity, NoKey

VARIABLES queue,    \* keys waiting, oldest first
          offered,  \* changes with every key the interrupt handler offers
          got       \* the last key a program was given

Init == queue = <<>> /\ offered = FALSE /\ got = NoKey

Offer(key) ==
  /\ offered' = ~offered
  /\ queue' = IF Len(queue) < Capacity THEN Append(queue, key) ELSE queue
  /\ UNCHANGED got

Take ==
  /\ queue # <<>>
  /\ got' = Head(queue)
  /\ queue' = Tail(queue)
  /\ UNCHANGED offered

Next == (\E key \in Keys : Offer(key)) \/ Take
Spec == Init /\ [][Next]_<<queue, offered, got>>
===============================================================================
