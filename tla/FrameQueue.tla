------------------------------ MODULE FrameQueue ------------------------------
(***************************************************************************)
(* What a network card and its driver promise together, in either          *)
(* direction: frames come out in the order in which they went in, each     *)
(* once and unaltered, and one is refused only for want of room.           *)
(***************************************************************************)
EXTENDS Naturals, Sequences

CONSTANTS Frames, NoFrame

VARIABLES queue,    \* frames on their way, oldest first
          offered,  \* changes with every frame that is accepted or refused
          out,      \* the last frame that came out
          room,     \* what the card has room for
          size      \* Frames -> Nat: the room each takes

Used(q) == LET sum[n \in 0 .. Len(q)] == IF n = 0 THEN 0 ELSE sum[n - 1] + size[q[n]]
           IN  sum[Len(q)]

Init == queue = <<>> /\ offered = FALSE /\ out = NoFrame

Accept(f) ==
  /\ Used(queue) + size[f] <= room
  /\ queue' = Append(queue, f) /\ offered' = ~offered
  /\ UNCHANGED out

Refuse(f) ==
  /\ Used(queue) + size[f] > room
  /\ offered' = ~offered
  /\ UNCHANGED <<queue, out>>

Deliver ==
  /\ queue # <<>>
  /\ out' = Head(queue) /\ queue' = Tail(queue)
  /\ UNCHANGED offered

Next == (\E f \in Frames : Accept(f) \/ Refuse(f)) \/ Deliver
Spec == Init /\ [][Next /\ UNCHANGED <<room, size>>]_<<queue, offered, out>>
===============================================================================
