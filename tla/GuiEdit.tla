-------------------------------- MODULE GuiEdit --------------------------------
(***************************************************************************)
(* The editor of the desktop, gui/balloon.c: its keys, its view of the     *)
(* text, the question for a name, and what it reads and writes.  The lines *)
(* are an array that keeps, above ed_nlines, whatever was there before.    *)
(***************************************************************************)
EXTENDS TextLines

CONSTANTS GuiChars, GuiNL, GuiCR,
          GuiMaxLines, GuiMaxCols,  \* ED_MAX_LINES, ED_LINE_LEN
          GuiFiles,  \* what the file may hold before it is first written
          GuiViews,  \* numbers of lines that a size of the window shows
          GuiMaxText \* bound: characters in the array

ASSUME GuiEditAssumption ==
  /\ GuiMaxLines \in Nat \ {0} /\ GuiMaxCols \in Nat \ {0}
  /\ GuiNL \notin GuiChars /\ GuiCR \notin GuiChars \cup {GuiNL} /\ GuiViews \subseteq Nat \ {0}

VARIABLES arr, n,      \* ed_lines, ed_nlines
          gRow, gCol, top,  \* ed_row, ed_col, ed_scroll; rows count from 1
          vis,
          named, asks, \* ed_name is not empty, ed_ask_save
          gFile

guiEditVars == <<arr, n, gRow, gCol, top, vis, named, asks, gFile>>

GLine   == arr[gRow]
GBefore == SubSeq(GLine, 1, gCol)
GAfter  == SubSeq(GLine, gCol + 1, Len(GLine))
Text    == SubSeq(arr, 1, n)

Empty == [i \in 1 .. GuiMaxLines |-> <<>>]

GuiEditInit ==
  /\ arr = Empty /\ n = 1 /\ gRow = 1 /\ gCol = 0 /\ top = 1
  /\ vis \in GuiViews /\ named = FALSE /\ asks = FALSE /\ gFile \in GuiFiles

-------------------------------------------------------------------------------
(* ed_ensure_vis, called with the new row. *)
EnsureVis(r) ==
  top' = IF r < top THEN r ELSE IF r >= top + vis THEN r - vis + 1 ELSE top

(* A mistake the properties have to catch: the view stays where it was. *)
GGoto_Blind(r, c) == gRow' = r /\ gCol' = c /\ UNCHANGED top

GGoto(r, c) == gRow' = r /\ gCol' = c /\ EnsureVis(r)
GStay(c)    == gRow' = gRow /\ gCol' = c /\ UNCHANGED top
GInLine(r)  == GGoto(r, IF gCol > Len(arr[r]) THEN Len(arr[r]) ELSE gCol)
GPut(r, l)  == arr' = [arr EXCEPT ![r] = l]

Editing     == ~asks
Apart       == UNCHANGED <<vis, named, asks, gFile>>

(* ed_ins_line and ed_del_line on the array a; the last line of a full array
   falls out, and the last line stays where it was above the rest. *)
Inserted(a, i) == [k \in 1 .. GuiMaxLines |->
                     IF k < i \/ k > n + 1 THEN a[k] ELSE IF k = i THEN <<>> ELSE a[k - 1]]
Removed(a, i)  == [k \in 1 .. GuiMaxLines |->
                     IF i <= k /\ k < n THEN a[k + 1] ELSE a[k]]

GuiType ==
  /\ Editing /\ Len(GLine) < GuiMaxCols
  /\ Len(FlattenSeq(arr)) < GuiMaxText
  /\ \E c \in GuiChars : GPut(gRow, GBefore \o <<c>> \o GAfter)
  /\ GStay(gCol + 1) /\ Apart /\ UNCHANGED n

(* With GuiMaxLines lines nothing is inserted, and the next line is
   overwritten; below the last one that would be past the array, which is
   left out. *)
GuiEnter ==
  /\ Editing /\ gRow < GuiMaxLines
  /\ LET a == [arr EXCEPT ![gRow] = GBefore]
     IN  IF n < GuiMaxLines
         THEN arr' = [Inserted(a, gRow + 1) EXCEPT ![gRow + 1] = GAfter] /\ n' = n + 1
         ELSE arr' = [a EXCEPT ![gRow + 1] = GAfter] /\ n' = n
  /\ GGoto(gRow + 1, 0) /\ Apart

(* Line r gets the one below it. *)
GuiJoin(r) ==
  /\ Len(arr[r]) + Len(arr[r + 1]) <= GuiMaxCols
  /\ arr' = Removed([arr EXCEPT ![r] = @ \o arr[r + 1]], r + 1)
  /\ n' = n - 1

GuiBackspace ==
  /\ Editing /\ Apart
  /\ \/ gCol > 0 /\ GPut(gRow, SubSeq(GLine, 1, gCol - 1) \o GAfter) /\ GStay(gCol - 1)
        /\ UNCHANGED n
     \/ gCol = 0 /\ gRow > 1 /\ GuiJoin(gRow - 1) /\ GGoto(gRow - 1, Len(arr[gRow - 1]))

GuiDel ==
  /\ Editing /\ Apart /\ GStay(gCol)
  /\ \/ gCol < Len(GLine) /\ GPut(gRow, GBefore \o Tail(GAfter)) /\ UNCHANGED n
     \/ gCol = Len(GLine) /\ gRow < n /\ GuiJoin(gRow)

(* Arrows, Page Up and Page Down follow the cursor with the view, also where
   an arrow cannot move it; Home and End do not. *)
GuiMove ==
  /\ Editing /\ Apart /\ UNCHANGED <<arr, n>>
  /\ \/ gRow > 1 /\ GInLine(gRow - 1)
     \/ gRow < n /\ GInLine(gRow + 1)
     \/ gCol > 0 /\ GGoto(gRow, gCol - 1)
     \/ gCol = 0 /\ gRow > 1 /\ GGoto(gRow - 1, Len(arr[gRow - 1]))
     \/ gCol < Len(GLine) /\ GGoto(gRow, gCol + 1)
     \/ gCol = Len(GLine) /\ gRow < n /\ GGoto(gRow + 1, 0)
     \/ gRow \in {1, n} /\ GGoto(gRow, gCol)
     \/ GStay(0) \/ GStay(Len(GLine))
     \/ GGoto(IF gRow > vis THEN gRow - vis ELSE 1, 0)
     \/ GGoto(IF gRow + vis < n THEN gRow + vis ELSE n, 0)

-------------------------------------------------------------------------------
(* Every line gets a newline, the last one too. *)
Stored == Joined(Text, GuiNL) \o <<GuiNL>>

(* ed_do_save: without a name it asks for one; the write may fail. *)
GuiSave ==
  /\ Editing
  /\ \/ named /\ gFile' \in {Stored, gFile} /\ UNCHANGED asks
     \/ ~named /\ asks' = TRUE /\ UNCHANGED gFile
  /\ UNCHANGED <<arr, n, gRow, gCol, top, vis, named>>

(* The question is answered with a name, with nothing, or with Esc. *)
GuiAnswer ==
  /\ asks
  /\ \/ asks' = FALSE /\ named' = TRUE /\ gFile' \in {Stored, gFile}
     \/ asks' \in BOOLEAN /\ UNCHANGED <<named, gFile>>
  /\ UNCHANGED <<arr, n, gRow, gCol, top, vis>>

(* A window opens on no file: what the array holds below the first line stays. *)
GuiNew ==
  /\ GPut(1, <<>>) /\ n' = 1 /\ gRow' = 1 /\ gCol' = 0 /\ top' = 1
  /\ named' = FALSE /\ asks' = FALSE /\ vis' \in GuiViews
  /\ UNCHANGED gFile

(* ed_load, character by character into line l of the array a; cr: the last
   one was a carriage return, and a newline after it is skipped. *)
LoadChar(s, c) ==
  IF s.cr /\ c = GuiNL THEN [s EXCEPT !.cr = FALSE]
  ELSE IF c \in {GuiNL, GuiCR}
  THEN LET m == IF s.n < GuiMaxLines THEN s.n + 1 ELSE s.n
       IN  [a |-> [s.a EXCEPT ![s.l] = <<>>], n |-> m, l |-> m, cr |-> c = GuiCR]
  ELSE IF Len(s.a[s.l]) < GuiMaxCols THEN [s EXCEPT !.a[s.l] = Append(@, c), !.cr = FALSE]
  ELSE [s EXCEPT !.cr = FALSE]

Loaded == FoldLeft(LoadChar, [a |-> arr, n |-> 0, l |-> 1, cr |-> FALSE], gFile)

GuiRead ==
  /\ arr' = Loaded.a /\ n' = IF Loaded.n = 0 THEN 1 ELSE Loaded.n

(* vfs_read has no data. *)
GuiReadFails == GPut(1, <<>>) /\ n' = 1

(* "Abrir no Editor"; an open window is reused, unsaved text or not. *)
GuiOpen ==
  /\ GuiRead \/ GuiReadFails
  /\ gRow' = 1 /\ gCol' = 0 /\ top' = 1
  /\ named' = TRUE /\ asks' = FALSE
  /\ UNCHANGED <<vis, gFile>>

(* The window gets another size. *)
GuiResize ==
  /\ vis' \in GuiViews
  /\ UNCHANGED <<arr, n, gRow, gCol, top, named, asks, gFile>>

GuiEditNext ==
  \/ GuiType \/ GuiEnter \/ GuiBackspace \/ GuiDel \/ GuiMove
  \/ GuiSave \/ GuiAnswer \/ GuiNew \/ GuiOpen \/ GuiResize

GuiEditSpec == GuiEditInit /\ [][GuiEditNext]_guiEditVars

-------------------------------------------------------------------------------
GuiFits(t) == \A i \in 1 .. Len(Split(t, GuiNL)) : Len(Split(t, GuiNL)[i]) <= GuiMaxCols

GuiFlat == INSTANCE FlatText WITH
             Chars <- GuiChars, NL <- GuiNL, Fits <- GuiFits, Ending <- <<GuiNL>>,
             text <- Joined(Text, GuiNL), at <- Offset(arr, gRow, gCol), stored <- gFile

(* Every key changes the text where the cursor is and nowhere else, and a save
   stores all of it, unless the text has as many lines as the array; the view
   follows the cursor to the line it goes to (gui/balloon.c:1172, 1384, 1401). *)
GuiKeysEdit ==
  [][/\ \/ UNCHANGED <<arr, n, gRow, gCol, gFile>>
        \/ GuiFlat!Editing \/ GuiOpen \/ GuiNew \/ (GuiEnter /\ n = GuiMaxLines)
     /\ gRow' # gRow => top' <= gRow' /\ gRow' < top' + vis']_guiEditVars

(* What is read is what the file holds, if that has no carriage returns, its
   last newline shown as an empty line or not: at a newline the line is
   "already terminated", and nothing is to be taken from it
   (gui/balloon.c:1309). *)
OpenShowsTheFile ==
  [][GuiOpen /\ GuiRead /\ GuiFits(gFile) /\ (\A i \in DOMAIN gFile : gFile[i] # GuiCR) =>
       gFile \in {Joined(Text', GuiNL), Joined(Text', GuiNL) \o <<GuiNL>>}]_guiEditVars
===============================================================================
