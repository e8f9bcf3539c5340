-------------------------------- MODULE KeyRing --------------------------------
(***************************************************************************)
(* The key buffer of keyboard.c, shared by the interrupt handler, which    *)
(* puts keys in, and the one program that runs, which takes them out.  The *)
(* handler runs with interrupts off, to its end, between any two steps of  *)
(* the program; the program's reads and writes of the buffer are steps of  *)
(* their own.                                                              *)
(***************************************************************************)
EXTENDS Integers, Sequences

CONSTANTS Size,   \* KBUF_SIZE
          Keys,   \* what the handler puts
          NoKey   \* the buffer before the first key

ASSUME KeyRingAssumption == Size \in Nat \ {0, 1}

VARIABLES kbuf, head, tail,
          pc,       \* where the program is
          val,      \* getchar's local variable
          offered,  \* history: changes with every key put or dropped
          got       \* history: the last key returned to a program

ring == <<kbuf, head, tail>>
ringvars == <<kbuf, head, tail, pc, val, offered, got>>

Cells == 0 .. (Size - 1)

RingInit ==
  /\ kbuf = [i \in Cells |-> NoKey] /\ head = 0 /\ tail = 0
  /\ pc = "program" /\ val = NoKey
  /\ offered = FALSE /\ got = NoKey

(* A mistake the properties have to catch: no test for a full buffer. *)
KbufPut_NeverFull(key) ==
  /\ kbuf' = [kbuf EXCEPT ![head] = key] /\ head' = (head + 1) % Size
  /\ offered' = ~offered
  /\ UNCHANGED tail

(* kbuf_put: one cell always stays empty, so that a full buffer is not
   taken for an empty one. *)
KbufPut(key) ==
  LET next == (head + 1) % Size
  IN
  /\ IF next # tail
       THEN kbuf' = [kbuf EXCEPT ![head] = key] /\ head' = next
       ELSE UNCHANGED <<kbuf, head>>
  /\ offered' = ~offered
  /\ UNCHANGED tail

(* Any interrupt ends a hlt. *)
Wake == pc' = IF pc = "halted" THEN "getchar" ELSE pc

KeyIrq(key) ==
  /\ KbufPut(key)
  /\ Wake
  /\ UNCHANGED <<val, got>>

(* A mistake the properties have to catch: IRQ0 is masked. *)
TimerIrq_Masked == FALSE

(* The PIT interrupts a thousand times a second. *)
TimerIrq ==
  /\ pc = "halted" /\ Wake
  /\ UNCHANGED <<ring, val, offered, got>>

-------------------------------------------------------------------------------
Goto(from, to) ==
  pc = from /\ pc' = to /\ UNCHANGED <<ring, offered, val, got>>

Call == Goto("program", "getchar") \/ Goto("program", "getchar_nonblock")

(* keyboard_available, and getchar_nonblock if there is a key, as the
   desktop does. *)
Poll == head # tail /\ Goto("program", "getchar_nonblock")

Empty ==
  /\ head = tail
  /\ Goto("getchar", "sleep") \/ Goto("getchar_nonblock", "program")

NotEmpty ==
  /\ head # tail
  /\ Goto("getchar", "read") \/ Goto("getchar_nonblock", "read")

(* The test and the hlt are two instructions: a key may come between. *)
Hlt == Goto("sleep", "halted")

(* A mistake the properties have to catch: the last key typed is read. *)
ReadKey_Newest ==
  /\ pc = "read" /\ pc' = "advance"
  /\ val' = kbuf[(head + Size - 1) % Size]
  /\ UNCHANGED <<ring, offered, got>>

ReadKey ==
  /\ pc = "read" /\ pc' = "advance"
  /\ val' = kbuf[tail]
  /\ UNCHANGED <<ring, offered, got>>

Advance ==
  /\ pc = "advance" /\ pc' = "program"
  /\ tail' = (tail + 1) % Size
  /\ got' = val
  /\ UNCHANGED <<kbuf, head, val, offered>>

Program == Call \/ Poll \/ Empty \/ NotEmpty \/ Hlt \/ ReadKey \/ Advance

-------------------------------------------------------------------------------
Init == RingInit
Next == (\E key \in Keys : KeyIrq(key)) \/ TimerIrq \/ Program
Spec == Init /\ [][Next]_ringvars

(* The program keeps running, and keeps asking for keys as the shell and
   the desktop do; the timer keeps ticking.  Nobody needs to type. *)
FairSpec == Spec /\ WF_ringvars(Program) /\ WF_ringvars(TimerIrq)
-------------------------------------------------------------------------------
RingTypeOK ==
  /\ kbuf \in [Cells -> Keys \cup {NoKey}]
  /\ head \in Cells /\ tail \in Cells
  /\ pc \in {"program", "getchar", "getchar_nonblock", "sleep", "halted",
             "read", "advance"}
  /\ val \in Keys \cup {NoKey} /\ got \in Keys \cup {NoKey}
  /\ offered \in BOOLEAN

Waiting == IF head >= tail THEN head - tail ELSE head - tail + Size
CellAt(i) == IF tail + i < Size THEN tail + i ELSE tail + i - Size
Queue == [i \in 1 .. Waiting |-> kbuf[CellAt(i - 1)]]

(* What a program read stays the oldest key until it moves the tail: the
   handler never fills the cell it reads from, and nobody empties the
   buffer between the test and the read (keyboard.c:14-20, 195-211). *)
ReadIsOldest ==
  /\ pc \in {"read", "advance"} => head # tail
  /\ pc = "advance" => val = kbuf[tail]

RingInv == RingTypeOK /\ ReadIsOldest

(* The buffer keeps the keyboard's promise: first in, first out, each key
   once, none dropped while fewer than Size - 1 wait. *)
Promise == INSTANCE KeyQueue WITH queue <- Queue, Capacity <- Size - 1
ImplementsKeyQueue == Promise!Spec

(* Every key in the buffer is taken some day, also when its interrupt came
   between the test for an empty buffer and the hlt, and no other key is
   ever typed (keyboard.c:196-197): the timer wakes the program. *)
EveryKeyTaken == \A i \in Cells : (tail = i /\ head # i) ~> (tail # i)
===============================================================================
