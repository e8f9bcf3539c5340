-------------------------------- MODULE Hexdump --------------------------------
(***************************************************************************)
(* The hexadecimal editor of shell/programs.c: how its cursor and the part *)
(* of the file on the screen follow the keys.  What the bytes are is left  *)
(* out; `changed' says whether any differs from the file.                  *)
(***************************************************************************)
EXTENDS Integers

CONSTANTS HxWidth,   \* bytes in a line, 16
          HxRows,    \* lines on the screen, 20
          HxSizes,   \* of the files opened
          HxMaxSize  \* bound: the buffer has a place for 4097 more than the file

ASSUME HexAssumption == HxWidth \in Nat \ {0} /\ HxRows \in Nat \ {0, 1} /\ HxSizes \subseteq Nat

VARIABLES hx,       \* hx_state_t: size, pos, top_line, dirty
          high,     \* hex_pending
          changed,  \* history: the buffer is not what the file holds
          hxOpen    \* "open", or how it was left: "saved", "dropped", "same"

hxVars == <<hx, high, changed, hxOpen>>

LineOf(pos) == pos \div HxWidth

HexInit ==
  /\ \E size \in HxSizes : hx = [size |-> size, pos |-> 0, top |-> 0, dirty |-> FALSE]
  /\ high = FALSE /\ changed = FALSE /\ hxOpen = "open"

-------------------------------------------------------------------------------
(* top_line after the cursor went up to pos, and after it went down to it. *)
ScrolledUp(top, pos)   == IF top > LineOf(pos) THEN LineOf(pos) ELSE top
ScrolledDown(top, pos) == IF LineOf(pos) >= top + HxRows THEN LineOf(pos) - (HxRows - 1) ELSE top

Placed(pos, top) == hx' = [hx EXCEPT !.pos = pos, !.top = top]

HexKey == hxOpen = "open" /\ UNCHANGED hxOpen

HexLeft  == LET p == IF hx.pos > 0 THEN hx.pos - 1 ELSE hx.pos IN Placed(p, ScrolledUp(hx.top, p))
HexRight == LET p == IF hx.pos < hx.size THEN hx.pos + 1 ELSE hx.pos IN Placed(p, ScrolledDown(hx.top, p))
HexUp    == LET p == IF hx.pos >= HxWidth THEN hx.pos - HxWidth ELSE hx.pos
            IN  Placed(p, ScrolledUp(hx.top, p))
HexDown  == LET p == IF hx.pos + HxWidth < hx.size THEN hx.pos + HxWidth
                     ELSE IF hx.size > 0 THEN hx.size - 1 ELSE hx.pos
            IN  Placed(p, ScrolledDown(hx.top, p))
HexHome  == Placed(0, 0)
HexEnd   == LET p == IF hx.size > 0 THEN hx.size - 1 ELSE hx.pos
            IN  Placed(p, IF p >= HxRows * HxWidth THEN LineOf(p) - (HxRows - 1) ELSE 0)

HexMove ==
  /\ HexKey
  /\ HexLeft \/ HexRight \/ HexUp \/ HexDown \/ HexHome \/ HexEnd
  /\ UNCHANGED <<high, changed>>

(* 'n': a zero byte; the test for room in the buffer never holds. *)
HexInsert ==
  /\ HexKey /\ hx.size < HxMaxSize
  /\ hx' = [hx EXCEPT !.size = @ + 1, !.dirty = TRUE, !.top = ScrolledUp(@, hx.pos)]
  /\ changed' = TRUE
  /\ UNCHANGED high

(* A hexadecimal digit: the byte changes with the second, wherever the cursor
   was at the first. *)
HexDigit ==
  /\ HexKey
  /\ high' = ~high
  /\ IF high /\ hx.pos < hx.size
     THEN /\ hx' = [hx EXCEPT !.dirty = TRUE]
          /\ changed' \in {changed, TRUE}
     ELSE UNCHANGED <<hx, changed>>

(* A mistake the properties have to catch: the screen does not follow the
   cursor when the last byte goes. *)
HexDelete_Still ==
  /\ HexKey /\ hx.pos < hx.size
  /\ LET size == hx.size - 1
         pos  == IF hx.pos >= size /\ size > 0 THEN size - 1 ELSE hx.pos
     IN  hx' = [hx EXCEPT !.size = size, !.pos = pos, !.dirty = TRUE]
  /\ changed' = TRUE
  /\ UNCHANGED high

HexDelete ==
  /\ HexKey /\ hx.pos < hx.size
  /\ LET size == hx.size - 1
         pos  == IF hx.pos >= size /\ size > 0 THEN size - 1 ELSE hx.pos
     IN  hx' = [size |-> size, pos |-> pos, dirty |-> TRUE, top |-> ScrolledUp(hx.top, pos)]
  /\ changed' = TRUE
  /\ UNCHANGED high

(* ESC and '!'. *)
HexLeave ==
  /\ hxOpen = "open"
  /\ \/ hxOpen' = (IF hx.dirty THEN "saved" ELSE "same") /\ UNCHANGED hx
     \/ hxOpen' = "dropped" /\ hx' = [hx EXCEPT !.dirty = FALSE]
  /\ UNCHANGED <<high, changed>>

HexNext == HexMove \/ HexInsert \/ HexDigit \/ HexDelete \/ HexLeave

HexSpec == HexInit /\ [][HexNext]_hxVars

-------------------------------------------------------------------------------
(* The byte the next key changes is in the file or just after it, and on the
   screen, though Down never scrolls up; and only '!' leaves without saving
   what was changed (shell/programs.c:359). *)
HexCursorInView ==
  /\ hx.pos \in 0 .. hx.size
  /\ LineOf(hx.pos) \in hx.top .. hx.top + HxRows - 1
  /\ changed /\ hxOpen # "dropped" => hx.dirty
  /\ hxOpen = "same" => ~changed
===============================================================================
