-------------------------------- MODULE Terminal --------------------------------
(***************************************************************************)
(* The text screen, shell/terminal.c, as operators on a screen             *)
(*   [cells |-> what each position shows, pos |-> the cursor's position,   *)
(*    base  |-> where the line being edited begins].                       *)
(* Position y * Cols + x is column x of row y.  What lies before base is   *)
(* not followed.                                                           *)
(***************************************************************************)
EXTENDS Integers, SequencesExt

CONSTANTS Cols, Rows   \* VGA_WIDTH, VGA_HEIGHT

ASSUME TerminalAssumption == Cols \in Nat \ {0} /\ Rows \in Nat /\ Rows > 1

Positions == 0 .. Cols * Rows - 1
Space     == " "

Cleared == [cells |-> [p \in Positions |-> Space], pos |-> 0, base |-> 0]

(* Past the last position everything moves up by a row. *)
Scroll(s) ==
  IF s.pos < Cols * Rows THEN s
  ELSE [cells |-> [p \in Positions |-> IF p + Cols \in Positions THEN s.cells[p + Cols] ELSE Space],
        pos |-> Cols * (Rows - 1), base |-> s.base - Cols]

PutChar(s, c) ==
  Scroll([cells |-> [s.cells EXCEPT ![s.pos] = c], pos |-> s.pos + 1, base |-> s.base])

NewLine(s)    == Scroll([s EXCEPT !.pos = Cols * (@ \div Cols + 1)])
Write(s, text) == FoldLeft(PutChar, s, text)
Spaces(s, n)   == Write(s, [i \in 1 .. n |-> Space])
CursorLeft(s, n)  == [s EXCEPT !.pos = IF @ > n THEN @ - n ELSE 0]
CursorRight(s, n) == [s EXCEPT !.pos = @ + n]
===============================================================================
