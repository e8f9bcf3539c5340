--------------------------------- MODULE Mouse ---------------------------------
(***************************************************************************)
(* The PS/2 mouse: mouse_init, which enables the interrupt before it sends *)
(* the commands whose answers it polls for; mouse_irq, which gathers three *)
(* bytes into a movement; and the desktop's loop, which asks mouse_moved   *)
(* whether to draw the pointer again.                                      *)
(*                                                                         *)
(* One axis stands for both.  A byte is what the tests of the code see of  *)
(* it (bit 3) and, as history, what the mouse meant by it.                 *)
(***************************************************************************)
EXTENDS Integers, Sequences

CONSTANTS Width,     \* the pointer stays in 0 .. Width - 1
          Moves,     \* movements of the mouse
          MaxBytes   \* bound: bytes the mouse sends ahead of the handler

ASSUME MouseAssumption ==
  Width \in Nat \ {0} /\ Moves \subseteq Int /\ MaxBytes \in Nat

VARIABLES port,       \* bytes from the mouse, not yet read
          pkt,        \* pkt[0 .. pkt_state - 1]
          mx, mdirty, \* position, and whether the desktop has to draw it
          mpc,         \* mouse_init, then the desktop's loop
          d,          \* mouse_moved's local variable
          drawn,      \* where the pointer was last drawn
          real        \* history: where the mouse's movements lead

mouseVars == <<port, pkt, mx, mdirty, mpc, d, drawn, real>>

Clamp(x) == IF x < 0 THEN 0 ELSE IF x > Width - 1 THEN Width - 1 ELSE x

(* 0xFA answers a command; it has bit 3 set, as the first byte of every
   movement has.  The byte of a movement to the left has it too (0xFF). *)
Ack   == [what |-> "ack", by |-> -6]
First == [what |-> "first", by |-> 8]
Dx(v) == [what |-> "dx", by |-> v]
Dy    == [what |-> "dy", by |-> 0]
Bit3(byte) == byte.what \in {"ack", "first"} \/ byte.by < 0

MouseInit ==
  /\ port = <<>> /\ pkt = <<>> /\ mx = Width \div 2 /\ mdirty = FALSE
  /\ mpc = "sendF6" /\ d = FALSE /\ drawn = mx /\ real = mx

-------------------------------------------------------------------------------
(* mouse_send and mouse_recv, twice: 0xF6 sets the defaults, 0xF4 lets the
   mouse report movements.  The mouse answers each command. *)
Send(cmd, next) ==
  /\ mpc = cmd /\ mpc' = next
  /\ port' = Append(port, Ack)
  /\ UNCHANGED <<pkt, mx, mdirty, d, drawn, real>>

(* mouse_recv reads the port when a byte is there, or gives up and reads
   what the port last held.  Nothing looks at the byte. *)
Recv(from, next) ==
  /\ mpc = from /\ mpc' = next
  /\ port' = IF port = <<>> THEN port ELSE Tail(port)
  /\ UNCHANGED <<pkt, mx, mdirty, d, drawn, real>>

Initialise ==
  \/ Send("sendF6", "recvF6") \/ Recv("recvF6", "sendF4")
  \/ Send("sendF4", "recvF4") \/ Recv("recvF4", "loop")

(* The mouse reports a movement, once it is enabled. *)
Move(v) ==
  /\ mpc \notin {"sendF6", "recvF6", "sendF4"}
  /\ Len(port) + 3 <= MaxBytes
  /\ port' = port \o <<First, Dx(v), Dy>>
  /\ real' = Clamp(real + v)
  /\ UNCHANGED <<pkt, mx, mdirty, mpc, d, drawn>>

-------------------------------------------------------------------------------
(* Mistakes the properties have to catch: a fourth byte is stored; pkt_state
   is not reset. *)
Gather_NoLimit ==
  /\ port # <<>> /\ Len(pkt) < 3
  /\ pkt = <<>> => Bit3(Head(port))
  /\ port' = Tail(port) /\ pkt' = Append(pkt, Head(port))
  /\ UNCHANGED <<mx, mdirty, mpc, d, drawn, real>>

Complete_NoReset ==
  /\ port # <<>> /\ Len(pkt) = 2
  /\ port' = Tail(port) /\ pkt' = Append(pkt, Head(port))
  /\ mx' = Clamp(mx + pkt[2].by)
  /\ mdirty' = TRUE
  /\ UNCHANGED <<mpc, d, drawn, real>>

(* mouse_irq. *)
Skip ==
  /\ port # <<>> /\ pkt = <<>> /\ ~Bit3(Head(port))
  /\ port' = Tail(port)
  /\ UNCHANGED <<pkt, mx, mdirty, mpc, d, drawn, real>>

Gather ==
  /\ port # <<>> /\ Len(pkt) < 2
  /\ pkt = <<>> => Bit3(Head(port))
  /\ port' = Tail(port) /\ pkt' = Append(pkt, Head(port))
  /\ UNCHANGED <<mx, mdirty, mpc, d, drawn, real>>

Complete ==
  /\ port # <<>> /\ Len(pkt) = 2
  /\ port' = Tail(port) /\ pkt' = <<>>
  /\ mx' = Clamp(mx + pkt[2].by)
  /\ mdirty' = TRUE
  /\ UNCHANGED <<mpc, d, drawn, real>>

MouseIrq == Skip \/ Gather \/ Complete

-------------------------------------------------------------------------------
(* The desktop.  mouse_moved reads the flag and then clears it; when it
   was set the pointer is drawn, else the loop comes round again after the
   next interrupt. *)
Loop(from, next) == mpc = from /\ mpc' = next /\ UNCHANGED <<port, pkt, mx, real>>

ReadFlag  == Loop("loop", "clear") /\ d' = mdirty /\ UNCHANGED <<mdirty, drawn>>
ClearFlag == Loop("clear", IF d THEN "draw" ELSE "loop") /\ mdirty' = FALSE
             /\ UNCHANGED <<d, drawn>>
Draw      == Loop("draw", "loop") /\ drawn' = mx /\ UNCHANGED <<mdirty, d>>

Desktop == ReadFlag \/ ClearFlag \/ Draw

MouseNext == Initialise \/ (\E v \in Moves : Move(v)) \/ MouseIrq \/ Desktop
MouseSpec == MouseInit /\ [][MouseNext]_mouseVars
-------------------------------------------------------------------------------
PortByte == {Ack, First, Dy} \cup {Dx(v) : v \in Moves}

MouseTypeOK ==
  /\ port \in Seq(PortByte) /\ pkt \in Seq(PortByte) /\ Len(pkt) < 3
  /\ mx \in 0 .. (Width - 1) /\ real \in 0 .. (Width - 1)
  /\ drawn \in 0 .. (Width - 1)
  /\ mdirty \in BOOLEAN /\ d \in BOOLEAN
  /\ mpc \in {"sendF6", "recvF6", "sendF4", "recvF4", "loop", "clear", "draw"}

(* Where the pointer is after bytes that find it at x. *)
Led(x, bytes) ==
  LET at[n \in 0 .. Len(bytes)] ==
        IF n = 0 THEN x
        ELSE IF bytes[n].what = "dx" THEN Clamp(at[n - 1] + bytes[n].by)
        ELSE at[n - 1]
  IN  at[Len(bytes)]

(* The bytes that wait, gathered or not, are whole movements, and bring
   the pointer where the mouse itself went. *)
InStep ==
  LET bytes == pkt \o port
      Role(i) == <<"first", "dx", "dy">>[1 + ((i - 1) % 3)]
  IN
  /\ Len(bytes) % 3 = 0
  /\ \A i \in DOMAIN bytes : bytes[i].what = Role(i)
  /\ Led(mx, bytes) = real

(* Once the driver is in step with the mouse it stays so: no byte is taken
   twice, left out or read out of place (mouse.c:58-89).  It may not be in
   step to begin with: an answer to mouse_init that the handler gets hold
   of, or one that comes late, passes for a first byte, since 0xFA has bit
   3 set too (mouse.c:50-51, 61-62). *)
StaysInStep ==
  [][(mpc \in {"loop", "clear", "draw"} /\ InStep) => InStep']_mouseVars
===============================================================================
