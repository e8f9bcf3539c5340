--------------------------------- MODULE NicTx ---------------------------------
(***************************************************************************)
(* How the four network drivers (drivers/net) transmit.  A send copies the *)
(* frame to a buffer, hands it to the card and waits until the card says   *)
(* that it is on the wire.  The waits count iterations, so a slow card     *)
(* (half-duplex traffic, no link yet) outlasts them, except that           *)
(* rtl8139_send waits for ever.                                            *)
(***************************************************************************)
EXTENDS Integers, Sequences, FiniteSets

CONSTANTS Buffers,   \* TX_COUNT, TX_BUFS; ne2000 has one
          TxFrames, NoTxFrame,
          TxCards,   \* the drivers of this instance
          Slow       \* those whose card may outlast a wait

ASSUME TxAssumption ==
  /\ Buffers \in Nat \ {0} /\ NoTxFrame \notin TxFrames
  /\ TxCards \subseteq {"e1000", "pcnet", "rtl8139", "ne2000"} /\ Slow \subseteq TxCards

VARIABLES txCard,   \* which driver found its card
          tx_buf,   \* what lies in each buffer
          done,     \* buffers the card is done with: DD, not OWN, TOK; ISR_PTX
          tdh, tdt, \* the card's next buffer; e1000's TDT
          tx_head,  \* the driver's next buffer
          sendAt,   \* where the send in progress is, or "no"
          txFrame,  \* its frame
          handed,   \* history: frames handed over and not yet on the wire
          tries,    \* history: changes with every send that hands over or fails
          wire      \* history: the last frame on the wire

txVars == <<txCard, tx_buf, done, tdh, tdt, tx_head, sendAt, txFrame, handed, tries, wire>>

Slots        == IF txCard = "ne2000" THEN 1 ELSE Buffers
Following(i) == (i + 1) % Slots

TxInit ==
  /\ txCard \in TxCards
  /\ tx_buf = [i \in 0 .. Buffers - 1 |-> NoTxFrame]
  /\ done = IF txCard = "ne2000" THEN {} ELSE 0 .. Buffers - 1
  /\ tdh = 0 /\ tdt = 0 /\ tx_head = 0
  /\ sendAt = "no" /\ txFrame = NoTxFrame
  /\ handed = <<>> /\ tries = FALSE /\ wire = NoTxFrame

-------------------------------------------------------------------------------
Send(f) ==
  /\ sendAt = "no" /\ txFrame' = f
  /\ sendAt' = IF txCard \in {"e1000", "pcnet"} THEN "free?" ELSE "copy"
  /\ UNCHANGED <<txCard, tx_buf, done, tdh, tdt, tx_head, handed, tries, wire>>

(* A mistake the properties have to catch: nobody waits for a free buffer. *)
Free_Any == sendAt = "free?" /\ sendAt' = "copy"

(* e1000 and pcnet wait until the card is done with the buffer. *)
Free == sendAt = "free?" /\ tx_head \in done /\ sendAt' = "copy"

IsFree ==
  /\ Free
  /\ UNCHANGED <<txCard, tx_buf, done, tdh, tdt, tx_head, txFrame, handed, tries, wire>>

NotFree ==
  /\ sendAt = "free?" /\ tx_head \notin done /\ txCard \in Slow
  /\ sendAt' = "no" /\ tries' = ~tries
  /\ UNCHANGED <<txCard, tx_buf, done, tdh, tdt, tx_head, txFrame, handed, wire>>

Copy ==
  /\ sendAt = "copy" /\ sendAt' = "hand"
  /\ tx_buf' = [tx_buf EXCEPT ![tx_head] = txFrame]
  /\ UNCHANGED <<txCard, done, tdh, tdt, tx_head, txFrame, handed, tries, wire>>

(* The frame is the card's: DD is cleared and TDT moves; OWN is set; TSD is
   written; CR.TXP is, and ISR_PTX is left as it was. *)
E1000Hand   == txCard = "e1000" /\ done' = done \ {tx_head} /\ tdt' = Following(tx_head)
PcnetHand   == txCard = "pcnet" /\ done' = done \ {tx_head} /\ UNCHANGED tdt
Rtl8139Hand == txCard = "rtl8139" /\ done' = done \ {tx_head} /\ UNCHANGED tdt
Ne2000Hand  == txCard = "ne2000" /\ UNCHANGED <<done, tdt>>

Hand ==
  /\ sendAt = "hand" /\ sendAt' = "done?"
  /\ E1000Hand \/ PcnetHand \/ Rtl8139Hand \/ Ne2000Hand
  /\ handed' = Append(handed, txFrame) /\ tries' = ~tries
  /\ UNCHANGED <<txCard, tx_buf, tdh, tx_head, txFrame, wire>>

(* The wait ends because the card is done, or else in vain, which e1000 and
   pcnet do not notice. *)
E1000Ends   == txCard = "e1000" /\ tx_head' = Following(tx_head) /\ UNCHANGED done
PcnetEnds   == txCard = "pcnet" /\ tx_head' = Following(tx_head) /\ UNCHANGED done
Rtl8139Ends == txCard = "rtl8139" /\ tx_head' = Following(tx_head) /\ UNCHANGED done
Ne2000Ends  == txCard = "ne2000" /\ done' = {} /\ UNCHANGED tx_head

Ends ==
  /\ sendAt = "done?" /\ (tx_head \in done \/ txCard \in Slow)
  /\ sendAt' = "no"
  /\ E1000Ends \/ PcnetEnds \/ Rtl8139Ends \/ Ne2000Ends
  /\ UNCHANGED <<txCard, tx_buf, tdh, tdt, txFrame, handed, tries, wire>>

-------------------------------------------------------------------------------
(* The card transmits from TDH until TDT, which are equal when there is
   nothing to do; or as long as it owns the next buffer; or when told to. *)
CardSees ==
  CASE txCard = "e1000" -> tdh # tdt
    [] txCard = "ne2000" -> handed # <<>>
    [] OTHER -> tdh \notin done

Transmit ==
  /\ CardSees
  /\ wire' = tx_buf[tdh] /\ done' = done \cup {tdh} /\ tdh' = Following(tdh)
  /\ handed' = Tail(handed)
  /\ UNCHANGED <<txCard, tx_buf, tdt, tx_head, sendAt, txFrame, tries>>

TxNext ==
  \/ \E f \in TxFrames : Send(f)
  \/ IsFree \/ NotFree \/ Copy \/ Hand \/ Ends \/ Transmit
TxSpec == TxInit /\ [][TxNext]_txVars

-------------------------------------------------------------------------------
TxRing == INSTANCE FrameQueue WITH
  Frames <- TxFrames, NoFrame <- NoTxFrame,
  queue <- handed, out <- wire, offered <- tries,
  room <- Slots, size <- [f \in TxFrames |-> 1]

(* What the programs send leaves on the wire in that order, each frame once
   and unaltered, though a send may end before its frame has left; a send
   fails only when all buffers are taken (e1000.c:250-277, pcnet.c:229-258,
   rtl8139.c:84-93, ne2000.c:150-187).  This needs NE2000 cards that are
   quick enough. *)
FramesGoInOrder == TxRing!Spec
===============================================================================
