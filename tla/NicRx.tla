--------------------------------- MODULE NicRx ---------------------------------
(***************************************************************************)
(* How the four network drivers (drivers/net) receive.  The card stores    *)
(* frames at any time, the program polls; they share a ring in memory and  *)
(* a register.  Who may touch which part of the ring, the drivers settle   *)
(* in four ways:                                                           *)
(*                                                                         *)
(*   e1000    a DD flag in each descriptor, and RDT: the card stays before *)
(*            it                                                           *)
(*   pcnet    an OWN flag in each descriptor                               *)
(*   rtl8139  frames of any length one after the other, and CAPR           *)
(*   ne2000   pages, each frame's header pointing to the next, and BNRY    *)
(*                                                                         *)
(* A position is a descriptor, a unit of 4 bytes, or a page.               *)
(***************************************************************************)
EXTENDS Integers, Sequences

CONSTANTS Positions,       \* RX_COUNT, RX_BUF_SIZE in units, RX_STOP_PG - RX_START_PG
          Frames, NoFrame,
          Units            \* [Frames -> Nat]: units or pages of a frame and its header

Blank == "blank"   \* a descriptor whose length is 0

ASSUME RxAssumption ==
  /\ Positions \in Nat /\ Positions > 1
  /\ NoFrame \notin Frames /\ Blank \notin Frames \cup {NoFrame}
  /\ Units \in [Frames -> 1 .. Positions - 1]

VARIABLES card,     \* which driver found its card
          ring,     \* what lies at each position
          rdh,      \* the card's next position (RDH, CURR)
          limit,    \* the register: RDT, CAPR + 16, BNRY
          rx_head,  \* the driver's next position (rx_head, rx_pos, next_pkt)
          hand,     \* the frame given to rx_cb and not yet given back
          step,     \* where the driver is in its loop
          stored,   \* history: frames stored and not given back
          offered,  \* history: changes with every frame that arrives
          given     \* history: the last frame given back

rxVars == <<card, ring, rdh, limit, rx_head, hand, step, stored, offered, given>>

Size(f)   == IF card \in {"e1000", "pcnet"} THEN 1 ELSE Units[f]
On(p, n)  == (p + n) % Positions

(* What the four init functions leave: an empty ring, and where the card and
   the driver begin.  e1000 keeps one descriptor from the card. *)
E1000Starts   == card = "e1000" /\ rdh = 0 /\ rx_head = 0 /\ limit = Positions - 1
PcnetStarts   == card = "pcnet" /\ rdh = 0 /\ rx_head = 0 /\ limit = 0
Rtl8139Starts == card = "rtl8139" /\ rdh = 0 /\ rx_head = 0 /\ limit = 0
Ne2000Starts  == card = "ne2000" /\ rdh = 1 /\ rx_head = 1 /\ limit = 0

(* netdev_init takes the first driver that finds its card. *)
RxInit ==
  /\ E1000Starts \/ PcnetStarts \/ Rtl8139Starts \/ Ne2000Starts
  /\ ring = [p \in 0 .. Positions - 1 |-> NoFrame]
  /\ hand = NoFrame /\ step = "look"
  /\ stored = <<>> /\ offered = FALSE /\ given = NoFrame

-------------------------------------------------------------------------------
(* The card.  A frame it has no room for is lost. *)
HasRoom(f) ==
  LET free == (limit - rdh) % Positions
  IN  CASE card = "e1000"   -> free # 0
        [] card = "pcnet"   -> ring[rdh] = NoFrame
        [] card = "rtl8139" -> free = 0 \/ Size(f) < free
        [] card = "ne2000"  -> Size(f) <= free

Arrives(f) ==
  /\ IF HasRoom(f)
       THEN /\ ring' = [ring EXCEPT ![rdh] = f]
            /\ rdh' = On(rdh, Size(f))
            /\ stored' = Append(stored, f)
       ELSE UNCHANGED <<ring, rdh, stored>>
  /\ offered' = ~offered
  /\ UNCHANGED <<card, limit, rx_head, hand, step, given>>

-------------------------------------------------------------------------------
(* The driver's loop.  It tells a new frame by the flag of the descriptor, or
   by the card's position (BUFE, CURR). *)
SeesFrame == IF card \in {"e1000", "pcnet"} THEN ring[rx_head] # NoFrame ELSE rx_head # rdh

(* rx_cb: eth_dispatch handles the frame before the loop goes on.  What is no
   header makes rtl8139_poll start again at 0, ne2000_poll at CURR. *)
Look ==
  /\ step = "look" /\ SeesFrame
  /\ IF ring[rx_head] \in Frames
       THEN /\ hand' = ring[rx_head] /\ step' = "release"
            /\ UNCHANGED <<rx_head, limit>>
       ELSE /\ rx_head' = IF card = "ne2000" THEN rdh ELSE 0
            /\ limit' = IF card = "rtl8139" THEN 0 ELSE limit
            /\ UNCHANGED <<hand, step>>
  /\ UNCHANGED <<card, ring, rdh, stored, offered, given>>

(* Giving the room back, in two halves: e1000 clears DD and moves RDT; pcnet
   clears msg_len and sets OWN; the others go past the frame and move CAPR or
   BNRY, which is the page before. *)
E1000Release == card = "e1000" /\ ring' = [ring EXCEPT ![rx_head] = NoFrame]
E1000Return  == card = "e1000" /\ limit' = rx_head /\ UNCHANGED ring

(* A mistake the properties have to catch: OWN is set before msg_len is cleared. *)
PcnetRelease_Own == card = "pcnet" /\ ring' = [ring EXCEPT ![rx_head] = NoFrame]

PcnetRelease == card = "pcnet" /\ ring' = [ring EXCEPT ![rx_head] = Blank]
PcnetReturn  == card = "pcnet" /\ ring' = [ring EXCEPT ![rx_head] = NoFrame] /\ UNCHANGED limit

Advance       == card \in {"rtl8139", "ne2000"} /\ rx_head' = On(rx_head, Size(hand))
Rtl8139Return == card = "rtl8139" /\ limit' = rx_head
Ne2000Return  == card = "ne2000" /\ limit' = On(rx_head, -1)

Release ==
  /\ step = "release" /\ step' = "return"
  /\ \/ (E1000Release \/ PcnetRelease) /\ UNCHANGED rx_head
     \/ Advance /\ UNCHANGED ring
  /\ UNCHANGED <<card, rdh, limit, hand, stored, offered, given>>

Return ==
  /\ step = "return" /\ step' = "look"
  /\ \/ (E1000Return \/ PcnetReturn) /\ rx_head' = On(rx_head, 1)
     \/ (Rtl8139Return \/ Ne2000Return) /\ UNCHANGED <<ring, rx_head>>
  /\ given' = hand /\ hand' = NoFrame
  /\ stored' = Tail(stored)
  /\ UNCHANGED <<card, rdh, offered>>

RxNext == (\E f \in Frames : Arrives(f)) \/ Look \/ Release \/ Return
RxSpec == RxInit /\ [][RxNext]_rxVars

-------------------------------------------------------------------------------
RxRing == INSTANCE FrameQueue WITH
  queue <- stored, out <- given,
  room <- IF card = "pcnet" THEN Positions ELSE Positions - 1,
  size <- [f \in Frames |-> Size(f)]

(* Whenever the card stores and the driver gives back, frames reach
   eth_dispatch in the order in which they came, each once, and one is lost
   only when the ring has no room for it: all but one position, or all of
   them with pcnet (rtl8139.c:115, e1000.c:301, pcnet.c:287, ne2000.c:244). *)
FramesComeInOrder == RxRing!Spec
===============================================================================
