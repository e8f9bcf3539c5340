----------------------------- MODULE KeyRingProofs -----------------------------
(***************************************************************************)
(* The key buffer keeps the keyboard's promise for every size of the       *)
(* buffer and every set of keys.                                           *)
(***************************************************************************)
EXTENDS KeyRing, SequenceTheorems, TLAPS

(* The index after i, as the code computes it. *)
LEMMA NextCell ==
  ASSUME NEW i \in Cells
  PROVE  (i + 1) % Size = IF i + 1 = Size THEN 0 ELSE i + 1
<1>1. CASE i + 1 = Size
  BY <1>1, KeyRingAssumption DEF Cells
<1>2. CASE i + 1 # Size
  BY <1>2, KeyRingAssumption DEF Cells
<1> QED
  BY <1>1, <1>2

(* kbuf_put never fills the cell the tail points to. *)
LEMMA PutSparesTail ==
  ASSUME RingInv, NEW key \in Keys, KbufPut(key)
  PROVE  /\ kbuf' \in [Cells -> Keys \cup {NoKey}] /\ head' \in Cells
         /\ tail' = tail /\ offered' = ~offered
         /\ head # tail => head' # tail /\ kbuf'[tail] = kbuf[tail]
  BY NextCell, KeyRingAssumption DEF RingInv, RingTypeOK, KbufPut, Cells

LEMMA RingInvInit == Init => RingInv
<1> SUFFICES ASSUME Init PROVE RingInv
  OBVIOUS
<1>1. 0 \in Cells
  BY KeyRingAssumption DEF Cells
<1> QED
  BY <1>1 DEF Init, RingInit, RingInv, RingTypeOK, ReadIsOldest

(* Each step of the handler and of the program keeps the invariant. *)
LEMMA RingInvStep ==
  ASSUME RingInv, [Next]_ringvars
  PROVE  RingInv'
<1>1. CASE UNCHANGED ringvars
  BY <1>1 DEF RingInv, RingTypeOK, ReadIsOldest, ringvars
<1>2. ASSUME NEW key \in Keys, KeyIrq(key) PROVE RingInv'
  <2>1. /\ kbuf' \in [Cells -> Keys \cup {NoKey}] /\ head' \in Cells
        /\ tail' = tail /\ offered' = ~offered
        /\ head # tail => head' # tail /\ kbuf'[tail] = kbuf[tail]
    BY <1>2, PutSparesTail DEF KeyIrq
  <2>2. RingTypeOK'
    BY <1>2, <2>1 DEF KeyIrq, Wake, RingInv, RingTypeOK
  <2>3. ReadIsOldest'
    BY <1>2, <2>1 DEF KeyIrq, Wake, RingInv, ReadIsOldest
  <2> QED
    BY <2>2, <2>3 DEF RingInv
<1>3. CASE TimerIrq
  BY <1>3 DEF TimerIrq, Wake, ring, RingInv, RingTypeOK, ReadIsOldest
<1>4. CASE Call \/ Poll \/ Empty \/ NotEmpty \/ Hlt
  BY <1>4 DEF Call, Poll, Empty, NotEmpty, Hlt, Goto, ring, RingInv, RingTypeOK, ReadIsOldest
<1>5. CASE ReadKey
  BY <1>5 DEF ReadKey, ring, RingInv, RingTypeOK, ReadIsOldest
<1>6. CASE Advance
  <2>1. tail' \in Cells
    BY <1>6, NextCell, KeyRingAssumption DEF Advance, RingInv, RingTypeOK, Cells
  <2> QED
    BY <1>6, <2>1 DEF Advance, RingInv, RingTypeOK, ReadIsOldest
<1> QED
  BY <1>1, <1>2, <1>3, <1>4, <1>5, <1>6 DEF Next, Program

(* The invariant holds, whatever the keys and the size. *)
THEOREM RingInvariant == Spec => []RingInv
  BY RingInvInit, RingInvStep, PTL DEF Spec

(* What a program reads stays the oldest key until it moves the tail. *)
THEOREM ReadStaysOldest == Spec => []ReadIsOldest
<1>1. RingInv => ReadIsOldest
  BY DEF RingInv
<1> QED
  BY <1>1, RingInvariant, PTL

-------------------------------------------------------------------------------
(* The sequence of waiting keys, by its length and elements. *)
LEMMA QueueShape ==
  ASSUME RingTypeOK
  PROVE  /\ Waiting \in 0 .. (Size - 1)
         /\ Queue \in Seq(Keys \cup {NoKey}) /\ Len(Queue) = Waiting
         /\ \A i \in 1 .. Waiting : Queue[i] = kbuf[CellAt(i - 1)]
         /\ \A i \in 0 .. (Size - 1) : CellAt(i) \in Cells
         /\ Waiting = 0 <=> head = tail
<1>1. /\ Waiting \in 0 .. (Size - 1)
      /\ \A i \in 0 .. (Size - 1) : CellAt(i) \in Cells
      /\ Waiting = 0 <=> head = tail
  BY KeyRingAssumption DEF RingTypeOK, Waiting, CellAt, Cells
<1>2. \A i \in 1 .. Waiting : kbuf[CellAt(i - 1)] \in Keys \cup {NoKey}
  <2> SUFFICES ASSUME NEW i \in 1 .. Waiting PROVE kbuf[CellAt(i - 1)] \in Keys \cup {NoKey}
    OBVIOUS
  <2>1. i - 1 \in 0 .. (Size - 1)
    BY <1>1, KeyRingAssumption
  <2> QED
    BY <1>1, <2>1 DEF RingTypeOK
<1> QED
  BY <1>1, <1>2 DEF Queue

(* A sequence is determined by its length and its elements. *)
LEMMA SeqByElements ==
  ASSUME NEW S, NEW s \in Seq(S), NEW n \in Nat, Len(s) = n,
         NEW f \in [1 .. n -> S], \A i \in 1 .. n : s[i] = f[i]
  PROVE  s = f
<1>1. s \in [1 .. n -> S]
  <2>1. s = [i \in DOMAIN s |-> s[i]] /\ DOMAIN s = 1 .. Len(s)
    OBVIOUS
  <2> QED
    BY <2>1
<1> QED
  BY <1>1

(* Putting a key appends it, or changes nothing when Size - 1 wait. *)
LEMMA PutAppends ==
  ASSUME RingInv, NEW key \in Keys, KbufPut(key)
  PROVE  Queue' = IF Len(Queue) < Size - 1 THEN Append(Queue, key) ELSE Queue
<1> USE KeyRingAssumption DEF RingInv
<1>1. (head + 1) % Size = IF head + 1 = Size THEN 0 ELSE head + 1
  BY NextCell DEF RingTypeOK
<1>2. Len(Queue) = Waiting /\ Queue \in Seq(Keys \cup {NoKey})
  BY QueueShape
<1>3. CASE (head + 1) % Size = tail
  <2>1. Waiting = Size - 1
    BY <1>1, <1>3 DEF Waiting, RingTypeOK, Cells
  <2>2. UNCHANGED <<kbuf, head, tail>>
    BY <1>3 DEF KbufPut
  <2>3. Queue' = Queue
    BY <2>2 DEF Queue, Waiting, CellAt
  <2> QED
    BY <1>2, <2>1, <2>3
<1>4. CASE (head + 1) % Size # tail
  <2>1. /\ kbuf' = [kbuf EXCEPT ![head] = key] /\ head' = (head + 1) % Size
        /\ tail' = tail
    BY <1>4 DEF KbufPut
  <2>2. Waiting < Size - 1 /\ Waiting' = Waiting + 1
    BY <1>1, <1>4, <2>1 DEF Waiting, RingTypeOK, Cells
  <2>3. CellAt(Waiting) = head
    BY DEF CellAt, Waiting, RingTypeOK, Cells
  <2>4. \A i \in 1 .. Waiting : CellAt(i - 1) # head /\ CellAt(i - 1) \in Cells
    BY <2>2 DEF CellAt, Waiting, RingTypeOK, Cells
  <2>5. Queue' = [i \in 1 .. Waiting + 1 |-> kbuf'[CellAt(i - 1)]]
    BY <2>1, <2>2 DEF Queue, CellAt
  <2>6. \A i \in 1 .. Waiting : kbuf'[CellAt(i - 1)] = Queue[i]
    BY <2>1, <2>4 DEF RingTypeOK, Queue
  <2>7. kbuf'[CellAt(Waiting)] = key
    BY <2>1, <2>3 DEF RingTypeOK
  <2>8. Waiting \in Nat
    BY QueueShape
  <2>9. Append(Queue, key) = [i \in 1 .. Waiting + 1 |-> IF i = Waiting + 1 THEN key ELSE Queue[i]]
    <3>1. /\ Append(Queue, key) \in Seq(Keys \cup {NoKey})
          /\ Len(Append(Queue, key)) = Waiting + 1
          /\ \A i \in 1 .. Waiting : Append(Queue, key)[i] = Queue[i]
          /\ Append(Queue, key)[Waiting + 1] = key
      BY <1>2, AppendProperties
    <3>2. \A i \in 1 .. Waiting + 1 :
            Append(Queue, key)[i] = IF i = Waiting + 1 THEN key ELSE Queue[i]
      BY <3>1, <2>8
    <3> DEFINE f == [i \in 1 .. Waiting + 1 |-> IF i = Waiting + 1 THEN key ELSE Queue[i]]
    <3>3. f \in [1 .. Waiting + 1 -> Keys \cup {NoKey}] /\ Waiting + 1 \in Nat
      <4>1. \A i \in 1 .. Waiting : Queue[i] \in Keys \cup {NoKey}
        BY <1>2
      <4> QED
        BY <4>1, <2>8
    <3>4. \A i \in 1 .. Waiting + 1 : Append(Queue, key)[i] = f[i]
      BY <3>2
    <3> HIDE DEF f
    <3>5. Append(Queue, key) = f
      BY <3>1, <3>3, <3>4, SeqByElements
    <3> QED
      BY <3>5 DEF f
  <2>10. \A i \in 1 .. Waiting + 1 :
           kbuf'[CellAt(i - 1)] = IF i = Waiting + 1 THEN key ELSE Queue[i]
    <3> SUFFICES ASSUME NEW i \in 1 .. Waiting + 1
                 PROVE  kbuf'[CellAt(i - 1)] = IF i = Waiting + 1 THEN key ELSE Queue[i]
      OBVIOUS
    <3>1. CASE i = Waiting + 1
      <4>1. i - 1 = Waiting
        BY <3>1, <2>8
      <4> QED
        BY <3>1, <4>1, <2>7
    <3>2. CASE i # Waiting + 1
      BY <3>2, <2>6, <2>8
    <3> QED
      BY <3>1, <3>2
  <2> QED
    BY <1>2, <2>2, <2>5, <2>9, <2>10
<1> QED
  BY <1>3, <1>4

(* Moving the tail removes the oldest key. *)
LEMMA AdvanceTakes ==
  ASSUME RingInv, Advance
  PROVE  Queue # <<>> /\ got' = Head(Queue) /\ Queue' = Tail(Queue)
<1> USE KeyRingAssumption DEF RingInv
<1>1. (tail + 1) % Size = IF tail + 1 = Size THEN 0 ELSE tail + 1
  BY NextCell DEF RingTypeOK
<1>2. /\ head # tail /\ val = kbuf[tail] /\ got' = val
      /\ tail' = (tail + 1) % Size /\ UNCHANGED <<kbuf, head>>
  BY DEF Advance, ReadIsOldest
<1>3. /\ Waiting \in 1 .. (Size - 1) /\ Len(Queue) = Waiting
      /\ Queue \in Seq(Keys \cup {NoKey})
  BY <1>2, QueueShape
<1>4. Queue[1] = kbuf[tail]
  <2>1. CellAt(0) = tail
    BY DEF CellAt, RingTypeOK, Cells
  <2> QED
    BY <1>3, <2>1, QueueShape
<1>5. Queue # <<>> /\ Head(Queue) = kbuf[tail]
  BY <1>3, <1>4
<1>6. Waiting' = Waiting - 1
  BY <1>1, <1>2 DEF Waiting, RingTypeOK, Cells
<1>7. \A i \in 1 .. (Waiting - 1) : CellAt(i - 1)' = CellAt(i)
  <2> SUFFICES ASSUME NEW i \in 1 .. (Waiting - 1) PROVE CellAt(i - 1)' = CellAt(i)
    OBVIOUS
  <2>1. i \in Nat /\ i > 0 /\ i < Size /\ tail \in Nat /\ tail < Size /\ Size \in Nat
    BY <1>3 DEF RingTypeOK, Cells
  <2>2. tail' = IF tail + 1 = Size THEN 0 ELSE tail + 1
    BY <1>1, <1>2
  <2> QED
    BY <2>1, <2>2 DEF CellAt
<1>8. Queue' = [i \in 1 .. (Waiting - 1) |-> kbuf[CellAt(i)]]
  BY <1>2, <1>6, <1>7 DEF Queue
<1>9. \A i \in 1 .. (Waiting - 1) : kbuf[CellAt(i)] = Queue[i + 1]
  BY <1>3, QueueShape
<1>10. Tail(Queue) = [i \in 1 .. (Waiting - 1) |-> Queue[i + 1]]
  <2>1. /\ Tail(Queue) \in Seq(Keys \cup {NoKey})
        /\ Len(Tail(Queue)) = Waiting - 1
        /\ \A i \in 1 .. (Waiting - 1) : Tail(Queue)[i] = Queue[i + 1]
    BY <1>3, <1>5, HeadTailProperties
  <2> DEFINE f == [i \in 1 .. (Waiting - 1) |-> Queue[i + 1]]
  <2>2. f \in [1 .. (Waiting - 1) -> Keys \cup {NoKey}] /\ Waiting - 1 \in Nat
    BY <1>3
  <2>3. \A i \in 1 .. (Waiting - 1) : Tail(Queue)[i] = f[i]
    BY <2>1
  <2> HIDE DEF f
  <2>4. Tail(Queue) = f
    BY <2>1, <2>2, <2>3, SeqByElements
  <2> QED
    BY <2>4 DEF f
<1> QED
  BY <1>2, <1>5, <1>8, <1>9, <1>10

(* First in, first out, each key once, and none dropped while fewer than
   Size - 1 keys wait. *)
THEOREM RingImplementsKeyQueue == Spec => ImplementsKeyQueue
<1>1. Init => Promise!Init
  <2> SUFFICES ASSUME Init PROVE Promise!Init
    OBVIOUS
  <2>1. Waiting = 0 /\ Queue = <<>>
    BY DEF Init, RingInit, Waiting, Queue
  <2> QED
    BY <2>1 DEF Init, RingInit, Promise!Init
<1>2. ASSUME RingInv, [Next]_ringvars
      PROVE  [Promise!Next]_<<Queue, offered, got>>
  <2>1. ASSUME NEW key \in Keys, KeyIrq(key) PROVE Promise!Next
    <3>1. Promise!Offer(key)
      BY <1>2, <2>1, PutAppends DEF KeyIrq, KbufPut, Promise!Offer
    <3> QED
      BY <3>1 DEF Promise!Next
  <2>2. ASSUME UNCHANGED <<ring, offered, got>>
        PROVE  UNCHANGED <<Queue, offered, got>>
    BY <2>2 DEF ring, Queue, Waiting, CellAt
  <2>3. ASSUME Advance PROVE Promise!Next
    BY <1>2, <2>3, AdvanceTakes DEF Advance, Promise!Next, Promise!Take
  <2>4. ASSUME \/ UNCHANGED ringvars \/ TimerIrq \/ Call \/ Poll \/ Empty \/ NotEmpty
               \/ Hlt \/ ReadKey
        PROVE  UNCHANGED <<ring, offered, got>>
    BY <2>4 DEF ringvars, ring, TimerIrq, Call, Poll, Empty, NotEmpty, Hlt, Goto, ReadKey
  <2> QED
    BY <1>2, <2>1, <2>2, <2>3, <2>4 DEF Next, Program
<1> QED
  BY <1>1, <1>2, RingInvariant, PTL DEF Spec, ImplementsKeyQueue, Promise!Spec
===============================================================================
