-------------------------------- MODULE Keyboard -------------------------------
(***************************************************************************)
(* keyboard_irq: from the bytes of the PS/2 keyboard (scan code set 1) to  *)
(* the keys it offers to the key buffer (KeyRing).  The handler remembers  *)
(* modifiers and a pending 0xE0 prefix between interrupts; the properties  *)
(* relate that memory to the keys that are really held down.               *)
(*                                                                         *)
(* One keycap stands for each kind of key that the handler treats alike.   *)
(***************************************************************************)
EXTENDS Naturals, Sequences, FiniteSets

CONSTANTS Keycaps,  \* the keys this keyboard has
          MaxDown,  \* bound: keys held down together
          NoKey

Shifts == {"LShift", "RShift"}

(* Code and prefix of each keycap.  Left and 4 of the keypad share a code,
   so do the two Ctrl and the two Alt. *)
CodeOf == [LShift |-> "2A", RShift |-> "36", LCtrl |-> "1D", RCtrl |-> "1D",
           LAlt |-> "38", AltGr |-> "38", CapsLock |-> "3A", A |-> "letter",
           One |-> "digit", F1 |-> "fn", Left |-> "4B", Pad4 |-> "4B"]
Extended == {"RCtrl", "AltGr", "Left"}

(* The keys that the handler can offer. *)
KeysPut == {"KEY_LEFT", "KEY_ALT_F1", "KEY_CTRL_ALT_F1", "^A", "A", "a", "!", "1"}

ASSUME KeyboardAssumption ==
  Keycaps \subseteq DOMAIN CodeOf /\ MaxDown \in Nat /\ NoKey \notin KeysPut

VARIABLES down,         \* keyboard: the keys held down
          wire,         \* keyboard: bytes of the last event, not yet read
          ext_pending, shift_held, ctrl_held, alt_held, caps_lock,
          put           \* what the last interrupt offered to kbuf_put, or NoKey

mods == <<shift_held, ctrl_held, alt_held, caps_lock>>
kbdVars == <<down, wire, ext_pending, shift_held, ctrl_held, alt_held, caps_lock, put>>

Make(code)  == [code |-> code, up |-> FALSE]
Break(code) == [code |-> code, up |-> TRUE]
E0          == Make("E0")

KbdInit ==
  /\ down = {} /\ wire = <<>> /\ put = NoKey
  /\ ext_pending = FALSE /\ shift_held = FALSE /\ ctrl_held = FALSE
  /\ alt_held = FALSE /\ caps_lock = FALSE

-------------------------------------------------------------------------------
(* The keyboard.  The bytes of an event stay together, and the handler is
   a function of the bytes alone: it loses nothing that they are read
   before the next event.  With a Shift down some keyboards hide it from
   the cursor keys: E0 AA before the press, E0 2A after the release. *)
Bytes(cap, byte) == IF cap \in Extended THEN <<E0, byte>> ELSE <<byte>>
Hidden(cap) == cap = "Left" /\ down \cap Shifts # {}

Press(cap) ==
  /\ wire = <<>>
  /\ cap \notin down /\ Cardinality(down) < MaxDown
  /\ down' = down \cup {cap}
  /\ LET make == Bytes(cap, Make(CodeOf[cap]))
     IN  wire' = make \/ (Hidden(cap) /\ wire' = <<E0, Break("2A")>> \o make)
  /\ UNCHANGED <<mods, ext_pending, put>>

(* A key held down repeats its make code. *)
Repeat(cap) ==
  /\ wire = <<>>
  /\ cap \in down
  /\ wire' = Bytes(cap, Make(CodeOf[cap]))
  /\ UNCHANGED <<down, mods, ext_pending, put>>

Release(cap) ==
  /\ wire = <<>>
  /\ cap \in down /\ down' = down \ {cap}
  /\ LET break == Bytes(cap, Break(CodeOf[cap]))
     IN  wire' = break \/ (Hidden(cap) /\ wire' = break \o <<E0, Make("2A")>>)
  /\ UNCHANGED <<mods, ext_pending, put>>

-------------------------------------------------------------------------------
(* The handler: one interrupt for each byte. *)
Byte == Head(wire)
Read == wire # <<>> /\ wire' = Tail(wire) /\ UNCHANGED down

Prefix ==
  /\ Read /\ Byte = E0
  /\ ext_pending' = TRUE /\ put' = NoKey
  /\ UNCHANGED mods

(* Mistakes the properties have to catch: only the left Shift can be
   released; Alt cannot. *)
KeyUp_LeftShiftOnly ==
  /\ Read /\ Byte.up
  /\ shift_held' = (shift_held /\ Byte.code # "2A")
  /\ ctrl_held' = (ctrl_held /\ Byte.code # "1D")
  /\ alt_held' = (alt_held /\ Byte.code # "38")
  /\ ext_pending' = FALSE /\ put' = NoKey
  /\ UNCHANGED caps_lock

KeyUp_AltSticks ==
  /\ Read /\ Byte.up
  /\ shift_held' = (shift_held /\ Byte.code \notin {"2A", "36"})
  /\ ctrl_held' = (ctrl_held /\ Byte.code # "1D")
  /\ ext_pending' = FALSE /\ put' = NoKey
  /\ UNCHANGED <<alt_held, caps_lock>>

(* A release is taken for the plain key's, prefix or not. *)
KeyUp ==
  /\ Read /\ Byte.up
  /\ shift_held' = (shift_held /\ Byte.code \notin {"2A", "36"})
  /\ ctrl_held' = (ctrl_held /\ Byte.code # "1D")
  /\ alt_held' = (alt_held /\ Byte.code # "38")
  /\ ext_pending' = FALSE /\ put' = NoKey
  /\ UNCHANGED caps_lock

(* After a prefix only the cursor keys mean something. *)
ExtendedDown ==
  /\ Read /\ ext_pending /\ ~Byte.up /\ Byte # E0
  /\ put' = IF Byte.code = "4B" THEN "KEY_LEFT" ELSE NoKey
  /\ ext_pending' = FALSE
  /\ UNCHANGED mods

PlainDown == Read /\ ~ext_pending /\ ~Byte.up /\ Byte # E0

ModifierDown ==
  /\ PlainDown /\ Byte.code \in {"38", "1D", "2A", "36", "3A"}
  /\ alt_held' = (alt_held \/ Byte.code = "38")
  /\ ctrl_held' = (ctrl_held \/ Byte.code = "1D")
  /\ shift_held' = (shift_held \/ Byte.code \in {"2A", "36"})
  /\ caps_lock' = (caps_lock # (Byte.code = "3A"))
  /\ put' = NoKey
  /\ UNCHANGED ext_pending

(* Alt makes a function key switch terminals; Ctrl makes a control code
   of a letter; Caps Lock turns Shift round, for letters. *)
Key(code) ==
  CASE code = "fn"     -> IF ~alt_held THEN NoKey
                          ELSE IF ctrl_held THEN "KEY_CTRL_ALT_F1" ELSE "KEY_ALT_F1"
    [] code = "letter" -> IF ctrl_held THEN "^A"
                          ELSE IF shift_held # caps_lock THEN "A" ELSE "a"
    [] code = "digit"  -> IF shift_held THEN "!" ELSE "1"
    [] OTHER           -> NoKey

KeyDown ==
  /\ PlainDown /\ Byte.code \notin {"38", "1D", "2A", "36", "3A"}
  /\ put' = Key(Byte.code)
  /\ UNCHANGED <<mods, ext_pending>>

KbdIrq == Prefix \/ KeyUp \/ ExtendedDown \/ ModifierDown \/ KeyDown

KbdNext == (\E cap \in Keycaps : Press(cap) \/ Repeat(cap) \/ Release(cap)) \/ KbdIrq
KbdSpec == KbdInit /\ [][KbdNext]_kbdVars
-------------------------------------------------------------------------------
KbdTypeOK ==
  /\ down \subseteq Keycaps
  /\ wire \in Seq([code: {CodeOf[cap] : cap \in DOMAIN CodeOf} \cup {"E0"}, up: BOOLEAN])
  /\ ext_pending \in BOOLEAN /\ mods \in [1 .. 4 -> BOOLEAN]
  /\ put \in KeysPut \cup {NoKey}

(* Once the bytes of an event are read no modifier is stuck: the handler
   takes one for held only while a key of that kind is down, whatever was
   pressed, repeated and released in between, hidden Shifts included
   (keyboard.c:103-110, 133-142).  A prefix does not outlive its event
   either, where it would turn the next key into another (97-101, 113-127). *)
NoStuckModifiers ==
  wire = <<>> =>
    /\ ~ext_pending
    /\ shift_held => down \cap Shifts # {}
    /\ ctrl_held => "LCtrl" \in down
    /\ alt_held => "LAlt" \in down

(* A terminal is switched only by a function key pressed with Alt down,
   and Ctrl decides between the two sets (keyboard.c:148-154). *)
SwitchIsMeant ==
  [][put' \in {"KEY_ALT_F1", "KEY_CTRL_ALT_F1"} /\ wire' # wire =>
       /\ {"F1", "LAlt"} \subseteq down
       /\ put' = "KEY_CTRL_ALT_F1" => "LCtrl" \in down]_kbdVars
===============================================================================
