---------------------------------- MODULE Edit ----------------------------------
(***************************************************************************)
(* The editor of the shell, `edit' of shell/programs.c: an array of lines  *)
(* of bounded number and length, shifted by hand when lines are split,     *)
(* joined and deleted, and one file.                                       *)
(***************************************************************************)
EXTENDS TextLines

CONSTANTS EdChars, EdNL,
          EdMaxLines, EdMaxCols,  \* ED_MAX_LINES, ED_MAX_COLS
          EdFiles,   \* what the file may hold when it is first opened
          EdMaxText  \* bound: characters in the text

(* A file of EdMaxLines or more newlines is left out: ed_load then writes past
   ed_buf. *)
ASSUME EditAssumption ==
  /\ EdMaxLines \in Nat \ {0} /\ EdMaxCols \in Nat \ {0} /\ EdNL \notin EdChars
  /\ \A f \in EdFiles : Len(Split(f, EdNL)) <= EdMaxLines

VARIABLES ed, row, col,  \* ed_buf up to ed_nlines, the cursor; row counts from 1
          edFile         \* what the file holds

editVars == <<ed, row, col, edFile>>

Line   == ed[row]
Before == SubSeq(Line, 1, col)
After  == SubSeq(Line, col + 1, Len(Line))

SetLine(l)  == ed' = ReplaceAt(ed, row, l)
Goto(r, c)  == row' = r /\ col' = c
InLine(r)   == Goto(r, IF col > Len(ed[r]) THEN Len(ed[r]) ELSE col)

(* ed_load: what is too long for a line is dropped. *)
Load(file) == LET ls == Split(file, EdNL)
              IN  [i \in 1 .. Len(ls) |-> UpTo(ls[i], EdMaxCols)]

EditInit == edFile \in EdFiles /\ ed = Load(edFile) /\ row = 1 /\ col = 0

(* The editor is left, with or without saving, and called again. *)
EdOpen ==
  /\ ed' = Load(edFile) /\ Goto(1, 0)
  /\ UNCHANGED edFile

(* ed_save; without memory nothing is saved. *)
EdSave ==
  /\ edFile' = Joined(ed, EdNL)
  /\ UNCHANGED <<ed, row, col>>

EdType ==
  /\ Len(Line) < EdMaxCols /\ Len(Joined(ed, EdNL)) < EdMaxText
  /\ \E c \in EdChars : SetLine(Before \o <<c>> \o After)
  /\ Goto(row, col + 1)
  /\ UNCHANGED edFile

EdNewline ==
  /\ Len(ed) < EdMaxLines
  /\ ed' = ReplaceAt(InsertAt(ed, row + 1, After), row, Before)
  /\ Goto(row + 1, 0)
  /\ UNCHANGED edFile

(* The last line is only emptied. *)
EdDeleteLine ==
  /\ ed' = IF Len(ed) = 1 THEN << <<>> >> ELSE RemoveAt(ed, row)
  /\ row' = IF row > Len(ed') THEN Len(ed') ELSE row
  /\ col' = IF col > Len(ed'[row']) THEN Len(ed'[row']) ELSE col
  /\ UNCHANGED edFile

(* A mistake the properties have to catch: the lines below are not moved up. *)
JoinAt_Stays(r) ==
  /\ Len(ed[r]) + Len(ed[r + 1]) <= EdMaxCols
  /\ ed' = Front(ReplaceAt(ed, r, ed[r] \o ed[r + 1]))
  /\ Goto(r, Len(ed[r]))

(* Line r gets the one below it, if both fit in a line. *)
JoinAt(r) ==
  /\ Len(ed[r]) + Len(ed[r + 1]) <= EdMaxCols
  /\ ed' = RemoveAt(ReplaceAt(ed, r, ed[r] \o ed[r + 1]), r + 1)
  /\ Goto(r, Len(ed[r]))

EdBackspace ==
  /\ \/ col > 0 /\ SetLine(SubSeq(Line, 1, col - 1) \o After) /\ Goto(row, col - 1)
     \/ col = 0 /\ row > 1 /\ JoinAt(row - 1)
  /\ UNCHANGED edFile

EdDel ==
  /\ \/ col < Len(Line) /\ SetLine(Before \o Tail(After)) /\ Goto(row, col)
     \/ col = Len(Line) /\ row < Len(ed) /\ JoinAt(row)
  /\ UNCHANGED edFile

EdMove ==
  /\ \/ row > 1 /\ InLine(row - 1)
     \/ row < Len(ed) /\ InLine(row + 1)
     \/ col > 0 /\ Goto(row, col - 1)
     \/ col = 0 /\ row > 1 /\ Goto(row - 1, Len(ed[row - 1]))
     \/ col < Len(Line) /\ Goto(row, col + 1)
     \/ col = Len(Line) /\ row < Len(ed) /\ Goto(row + 1, 0)
     \/ Goto(row, 0)
     \/ Goto(row, Len(Line))
  /\ UNCHANGED <<ed, edFile>>

EditNext ==
  \/ EdOpen \/ EdSave \/ EdType \/ EdNewline \/ EdDeleteLine
  \/ EdBackspace \/ EdDel \/ EdMove

EditSpec == EditInit /\ [][EditNext]_editVars

-------------------------------------------------------------------------------
EdFits(t) == \A i \in 1 .. Len(Split(t, EdNL)) : Len(Split(t, EdNL)[i]) <= EdMaxCols

Flat == INSTANCE FlatText WITH
          Chars <- EdChars, NL <- EdNL, Fits <- EdFits, Ending <- <<>>,
          text <- Joined(ed, EdNL), at <- Offset(ed, row, col), stored <- edFile

(* Every key changes the text where the cursor is and nowhere else, across
   splits, joins and deleted lines, and a file that was opened and saved is as
   it was but for the edits (shell/programs.c:104, 147, 210, 231). *)
EditKeepsText == Flat!FlatSpec
===============================================================================
