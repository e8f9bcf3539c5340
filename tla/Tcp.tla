--------------------------------- MODULE Tcp ---------------------------------
(***************************************************************************)
(* One TCP connection, net/tcp.c, used as wget and the browser use it,     *)
(* against a peer that sends the bytes 1 .. NumBytes and its FIN, over a        *)
(* network that loses, repeats and reorders segments: what the peer has     *)
(* sent may arrive at any time, any number of times, or never.             *)
(*                                                                         *)
(* Sequence numbers are modulo NumMod.  tcp_handle looks at no             *)
(* acknowledgement number, so the peer's segments carry none.              *)
(***************************************************************************)
EXTENDS Integers, Sequences, SequencesExt, FiniteSetsExt

CONSTANTS NumMod,    \* 2^32
          RxBuf,     \* TCP_RX_BUF
          MaxLen,    \* what the caller of tcp_recv has room for
          NumBytes,  \* bytes the peer sends
          Isns,      \* the peer's initial sequence numbers
          MaxSends   \* bound: calls of tcp_send

ASSUME TcpAssumption ==
  /\ NumMod \in Nat \ {0} /\ RxBuf \in Nat \ {0} /\ MaxLen \in Nat \ {0}
  /\ NumBytes \in Nat /\ MaxSends \in Nat
  /\ Isns \in SUBSET (0 .. (NumMod - 1))

VARIABLES conn,     \* the TcpConn, and whether g_conn points to it
          call,     \* the call of tcp.c in progress, or where the caller is
          got,      \* history: the bytes tcp_recv has returned
          ended,    \* history: tcp_recv has returned 0
          hole,     \* history: something was acknowledged and not kept
          toPeer,   \* history: every segment sent to the peer
          peer      \* initial number; bytes and FIN sent so far

tcpVars == <<conn, call, got, ended, hole, toPeer, peer>>

Plus(a, b) == (a + b) % NumMod
Bytes(a, b) == [k \in 1 .. (b - a + 1) |-> a + k - 1]   \* a, a + 1, .. b

NumOf(n) == Plus(peer.isn, n)         \* byte n's sequence number

(* A connection nobody has opened. *)
TcpInit ==
  /\ conn = [state |-> "closed", snd |-> 0, rcv |-> 0, fin |-> FALSE, rx |-> <<>>,
             on |-> FALSE]
  /\ call = "start" /\ got = <<>> /\ ended = FALSE /\ hole = FALSE
  /\ toPeer = {}
  /\ \E isn \in Isns : peer = [isn |-> isn, sent |-> 0, fin |-> FALSE]

-------------------------------------------------------------------------------
(* The peer opens when it is asked to, never sends beyond the window, which
   the code always announces as RxBuf, and closes after its last byte.  What
   it has sent it may send again, in any pieces; it may give up with a RST. *)
Sent(flag) == {s \in toPeer : flag \in s.flags}
AckedBytes == {(s.ack - peer.isn - 1) % NumMod : s \in Sent("ACK")}

PeerSends ==
  /\ AckedBytes # {} /\ peer.sent < NumBytes
  /\ peer.sent + 1 - Max(AckedBytes) <= RxBuf
  /\ peer' = [peer EXCEPT !.sent = @ + 1]
PeerCloses ==
  /\ AckedBytes # {} /\ peer.sent = NumBytes /\ ~peer.fin
  /\ peer' = [peer EXCEPT !.fin = TRUE]
Peer ==
  /\ PeerSends \/ PeerCloses
  /\ UNCHANGED <<conn, call, got, ended, hole, toPeer>>

(* What may come from the peer now. *)
Seg(flags, n, data) == [flags |-> flags, seq |-> NumOf(n), data |-> data]
Pieces == {ab \in (1 .. (peer.sent + 1)) \X (0 .. peer.sent) : ab[1] <= ab[2] + 1}
ToUs ==
  {Seg({"RST"}, 0, <<>>)}
  \cup {Seg({"SYN", "ACK"}, 0, <<>>) : s \in Sent("SYN")}
  \cup (IF AckedBytes = {} THEN {}
        ELSE {Seg({"ACK"}, ab[1], Bytes(ab[1], ab[2])) : ab \in Pieces}
             \cup {Seg({"FIN", "ACK"}, ab[1], Bytes(ab[1], ab[2])) :
                     ab \in {p \in Pieces : peer.fin /\ p[2] = NumBytes}})

-------------------------------------------------------------------------------
(* tcp_send_seg.  What it sends may be lost, so it need not fail as well. *)
Out(flags, c, len) ==
  {[flags |-> flags, seq |-> c.snd, ack |-> IF "ACK" \in flags THEN c.rcv ELSE 0,
    len |-> len]}

Polling == call \in {"connect", "recv", "close"}

Rst(seg) ==
  /\ "RST" \in seg.flags
  /\ conn' = [conn EXCEPT !.state = "closed"]
  /\ UNCHANGED <<hole, toPeer>>

(* A mistake the properties have to catch: the SYN counts twice. *)
SynAck_Two(seg) ==
  /\ conn.state = "syn_sent" /\ {"SYN", "ACK"} \subseteq seg.flags
  /\ conn' = [conn EXCEPT !.rcv = Plus(seg.seq, 2), !.state = "established"]
  /\ toPeer' = toPeer \cup Out({"ACK"}, conn', 0)
  /\ UNCHANGED hole

SynAck(seg) ==
  /\ conn.state = "syn_sent" /\ {"SYN", "ACK"} \subseteq seg.flags
  /\ conn' = [conn EXCEPT !.rcv = Plus(seg.seq, 1), !.state = "established"]
  /\ toPeer' = toPeer \cup Out({"ACK"}, conn', 0)
  /\ UNCHANGED hole

(* A mistake the properties have to catch: any data is taken for the next. *)
Wanted_Any(c, seg) == seg.data # <<>>

(* The middle of tcp_handle: data, the acknowledgement of our FIN, the
   peer's FIN, one after the other. *)
Wanted(c, seg) == seg.data # <<>> /\ seg.seq = c.rcv

(* A mistake the properties have to catch: the buffer has no end. *)
TakeData_NoLimit(c, seg) ==
  IF Wanted(c, seg)
    THEN [c EXCEPT !.rx = @ \o seg.data, !.rcv = Plus(@, Len(seg.data))]
    ELSE c

TakeData(c, seg) ==
  IF Wanted(c, seg)
    THEN [c EXCEPT !.rx = @ \o SubSeq(seg.data, 1, Min({Len(seg.data), RxBuf - Len(@)})),
                   !.rcv = Plus(@, Len(seg.data))]
    ELSE c
TakeAck(c, seg) ==
  IF "ACK" \in seg.flags /\ c.state = "fin_wait_1"
    THEN [c EXCEPT !.state = "fin_wait_2"] ELSE c
TakeFin(c, seg) ==
  IF "FIN" \in seg.flags
    THEN [c EXCEPT !.rcv = Plus(@, 1), !.fin = TRUE,
                   !.state = IF @ \in {"fin_wait_1", "fin_wait_2"} THEN "closed"
                             ELSE "close_wait"]
    ELSE c

Exchange(seg) ==
  /\ conn.state \in {"established", "fin_wait_1", "fin_wait_2", "close_wait"}
  /\ "RST" \notin seg.flags
  /\ LET c1 == TakeData(conn, seg)
         c2 == TakeAck(c1, seg)
         c3 == TakeFin(c2, seg)
     IN  /\ conn' = c3
         /\ toPeer' = toPeer \cup (IF c1 # conn THEN Out({"ACK"}, c1, 0) ELSE {})
                             \cup (IF c3 # c2 THEN Out({"ACK"}, c3, 0) ELSE {})
         /\ hole' = (\/ hole
                     \/ c1.rcv # Plus(conn.rcv, Len(c1.rx) - Len(conn.rx))
                     \/ "FIN" \in seg.flags /\ c1.rcv # NumOf(NumBytes + 1))

LastAck(seg) ==
  /\ conn.state = "last_ack" /\ "ACK" \in seg.flags /\ "RST" \notin seg.flags
  /\ conn' = [conn EXCEPT !.state = "closed"]
  /\ UNCHANGED <<hole, toPeer>>

(* net_poll finds a segment: tcp_handle. *)
Arrive(seg) ==
  /\ Polling /\ conn.on
  /\ Rst(seg) \/ SynAck(seg) \/ Exchange(seg) \/ LastAck(seg)
  /\ UNCHANGED <<call, got, ended, peer>>

-------------------------------------------------------------------------------
Connect ==
  /\ call = "start" /\ call' = "connect"
  /\ conn' = [conn EXCEPT !.state = "syn_sent", !.on = TRUE, !.snd = Plus(@, 1)]
  /\ toPeer' = toPeer \cup Out({"SYN"}, conn, 0)
  /\ UNCHANGED <<got, ended, hole, peer>>

(* It returns 1; 0 when a RST came; 0 after the time given, unless it is
   already known what it returns. *)
Connected ==
  /\ call = "connect" /\ conn.state = "established"
  /\ call' = "open"
  /\ UNCHANGED <<conn, got, ended, hole, toPeer, peer>>
Refused ==
  /\ call = "connect" /\ conn.state = "closed"
  /\ call' = "done"
  /\ UNCHANGED <<conn, got, ended, hole, toPeer, peer>>
ConnectTimeout ==
  /\ call = "connect" /\ conn.state \notin {"established", "closed"}
  /\ conn' = [conn EXCEPT !.state = "closed", !.on = FALSE]
  /\ call' = "done"
  /\ UNCHANGED <<got, ended, hole, toPeer, peer>>

(* tcp_send of one byte. *)
SendByte ==
  /\ call = "open" /\ conn.state = "established"
  /\ Cardinality(Sent("PSH")) < MaxSends
  /\ toPeer' = toPeer \cup Out({"PSH", "ACK"}, conn, 1)
  /\ conn' = [conn EXCEPT !.snd = Plus(@, 1)]
  /\ UNCHANGED <<call, got, ended, hole, peer>>

Recv ==
  /\ call = "open" /\ call' = "recv"
  /\ UNCHANGED <<conn, got, ended, hole, toPeer, peer>>

RecvData ==
  /\ call = "recv" /\ conn.rx # <<>>
  /\ LET n == Min({Len(conn.rx), MaxLen})
     IN  /\ got' = got \o SubSeq(conn.rx, 1, n)
         /\ conn' = [conn EXCEPT !.rx = SubSeq(@, n + 1, Len(@))]
  /\ call' = "open"
  /\ UNCHANGED <<ended, hole, toPeer, peer>>

RecvEnd ==
  /\ call = "recv" /\ conn.fin /\ conn.rx = <<>>
  /\ ended' = TRUE /\ call' = "eof"
  /\ UNCHANGED <<conn, got, hole, toPeer, peer>>
RecvTimeout ==
  /\ call = "recv" /\ ~conn.fin /\ conn.rx = <<>>
  /\ call' = "eof"
  /\ UNCHANGED <<conn, got, ended, hole, toPeer, peer>>

(* The caller has enough, or its tcp_recv was no success. *)
Close ==
  /\ call \in {"open", "eof"} /\ call' = "close"
  /\ IF conn.state \in {"established", "close_wait"}
       THEN /\ toPeer' = toPeer \cup Out({"FIN", "ACK"}, conn, 0)
            /\ conn' = [conn EXCEPT !.snd = Plus(@, 1),
                          !.state = IF @ = "close_wait" THEN "last_ack" ELSE "fin_wait_1"]
       ELSE UNCHANGED <<conn, toPeer>>
  /\ UNCHANGED <<got, ended, hole, peer>>
(* Closed by the peer, or two seconds later. *)
Closed ==
  /\ call = "close" /\ call' = "done"
  /\ conn' = [conn EXCEPT !.state = "closed", !.on = FALSE]
  /\ UNCHANGED <<got, ended, hole, toPeer, peer>>

Calls ==
  \/ Connect \/ Connected \/ Refused \/ ConnectTimeout
  \/ SendByte \/ Recv \/ RecvData \/ RecvEnd \/ RecvTimeout \/ Close \/ Closed

TcpNext == Calls \/ Peer \/ \E seg \in ToUs : Arrive(seg)
TcpSpec == TcpInit /\ [][TcpNext]_tcpVars

(* Bound of the run: what comes after a hole is not followed. *)
NotHoled == ~hole

-------------------------------------------------------------------------------
TcpTypeOK ==
  /\ conn \in [state : {"closed", "syn_sent", "established", "fin_wait_1",
                        "fin_wait_2", "close_wait", "last_ack"},
               snd : 0 .. (NumMod - 1), rcv : 0 .. (NumMod - 1), fin : BOOLEAN,
               rx : Seq(1 .. NumBytes), on : BOOLEAN]
  /\ Len(conn.rx) <= RxBuf

(* Whatever the network loses, repeats or reorders, the caller reads the
   peer's bytes in order and each once, rcv_ack says how many have come, and
   tcp_recv tells of the end only when all have been read, as long as no
   segment was acknowledged beyond what was kept (net/tcp.c:128, 202). *)
StreamInOrder ==
  ~hole => LET all == got \o conn.rx
           IN  /\ all = Bytes(1, Len(all))
               /\ AckedBytes # {}
                    => conn.rcv = NumOf(Len(all) + 1 + (IF conn.fin THEN 1 ELSE 0))
               /\ ended => got = Bytes(1, NumBytes)

(* No segment acknowledges what the peer has not sent; the bytes of the
   segments sent do not overlap, and the FIN comes after all of them
   (net/tcp.c:109, 138, 189, 208, 218). *)
NumbersAreTrue ==
  /\ ~hole => \A n \in AckedBytes : n <= peer.sent + (IF peer.fin THEN 1 ELSE 0)
  /\ \A s, t \in Sent("PSH") : s.seq = t.seq => s = t
  /\ \A s \in Sent("PSH"), f \in Sent("FIN") : s.seq + s.len <= f.seq
===============================================================================
