-------------------------------- MODULE Readline --------------------------------
(***************************************************************************)
(* Line editing in the shell: readline, tab_complete and the history of    *)
(* shell/shell.c over the text screen of Terminal.  The line and the       *)
(* cursor exist twice, in buf, len and cur and on the screen, and every    *)
(* key changes both, the screen only relative to where its cursor is,      *)
(* across the rows of a long line and the scrolling of the screen.         *)
(***************************************************************************)
EXTENDS Terminal, FiniteSets

CONSTANTS Chars,    \* what is typed; " " ends a word
          MaxLine,  \* maxlen - 1
          HistMax,  \* HIST_MAX
          Cmds, Files,  \* names for Tab: cmds, where one is twice; the current directory
          Prompt,   \* what the shell writes before it reads a line
          Refusal   \* "Terminal nao disponivel."

ASSUME ReadlineAssumption ==
  /\ MaxLine \in Nat /\ HistMax \in Nat \ {0} /\ {Prompt, Refusal} \subseteq Seq(STRING)
  /\ Chars \subseteq STRING /\ Cmds \in Seq(Seq(STRING))
  /\ Files \subseteq Seq(STRING) /\ IsFiniteSet(Files)
  /\ MaxLine <= Cols * (Rows - 1)   \* 255 characters, 24 rows of 80

VARIABLES buf, cur,   \* the line, and how many of its characters lie left of the cursor
          hist,       \* the history, latest first
          histIdx,
          saved,      \* while histIdx is not -1
          screen,
          clean       \* history: nothing lay behind the line when it was begun

readlineVars == <<buf, cur, hist, histIdx, saved, screen, clean>>

Left      == SubSeq(buf, 1, cur)
RightPart == SubSeq(buf, cur + 1, Len(buf))

(* The prompt is written, and the line begins. *)
Begin(s) ==
  LET t == Write(s, Prompt)
  IN  [cells |-> [p \in Positions |-> IF p < t.pos THEN Space ELSE t.cells[p]],
       pos |-> t.pos, base |-> t.pos]

ReadlineInit ==
  /\ buf = <<>> /\ cur = 0 /\ hist = <<>> /\ histIdx = -1 /\ saved = <<>>
  /\ screen = Begin(NewLine(Cleared)) /\ clean = TRUE

-------------------------------------------------------------------------------
Insert(c) ==
  /\ Len(buf) < MaxLine
  /\ buf' = Left \o <<c>> \o RightPart /\ cur' = cur + 1
  /\ screen' = CursorLeft(Write(screen, <<c>> \o RightPart), Len(RightPart))
  /\ UNCHANGED <<hist, histIdx, saved, clean>>

(* A mistake the properties have to catch: the last character stays. *)
Redraw_Short(s, text) == CursorLeft(Write(s, text), Len(text))

(* redraw_from: what follows the cursor, and a space over the character that
   is gone. *)
Redraw(s, text) == CursorLeft(Write(s, text \o <<Space>>), Len(text) + 1)

Backspace ==
  /\ cur > 0
  /\ buf' = SubSeq(buf, 1, cur - 1) \o RightPart /\ cur' = cur - 1
  /\ screen' = Redraw(CursorLeft(screen, 1), RightPart)
  /\ UNCHANGED <<hist, histIdx, saved, clean>>

Delete ==
  /\ cur < Len(buf)
  /\ buf' = Left \o Tail(RightPart)
  /\ screen' = Redraw(screen, Tail(RightPart))
  /\ UNCHANGED <<cur, hist, histIdx, saved, clean>>

(* KEY_LEFT, KEY_RIGHT, KEY_HOME, KEY_END. *)
Move ==
  /\ \E to \in {cur - 1, cur + 1, 0, Len(buf)} \cap 0 .. Len(buf) :
       /\ cur' = to
       /\ screen' = IF to < cur THEN CursorLeft(screen, cur - to)
                    ELSE CursorRight(screen, to - cur)
  /\ UNCHANGED <<buf, hist, histIdx, saved, clean>>

-------------------------------------------------------------------------------
(* The line is overwritten with spaces, and the cursor returns to its start. *)
Erase(s) == CursorLeft(Spaces(CursorLeft(s, cur), Len(buf)), Len(buf))

Recall(idx) ==
  /\ histIdx' = idx
  /\ saved' = IF idx = -1 THEN <<>> ELSE IF histIdx = -1 THEN buf ELSE saved
  /\ buf' = IF idx = -1 THEN saved ELSE hist[idx + 1]
  /\ cur' = Len(buf')
  /\ screen' = Write(Erase(screen), buf')
  /\ UNCHANGED <<hist, clean>>

Up   == histIdx + 1 < Len(hist) /\ Recall(histIdx + 1)
Down == histIdx # -1 /\ Recall(histIdx - 1)

(* hist_push: neither an empty line nor the last one again. *)
Push(line) ==
  IF line = <<>> \/ (hist # <<>> /\ line = Head(hist)) THEN hist
  ELSE LET h == <<line>> \o hist IN SubSeq(h, 1, IF Len(h) > HistMax THEN HistMax ELSE Len(h))

(* readline returns and is called again.  `clean' tells whether the new line
   begins where nothing lies: Enter does not go to the end of the line, and a
   short output leaves what is on the rows below. *)
Again(s, line) ==
  /\ hist' = Push(line) /\ screen' = Begin(NewLine(s))
  /\ clean' = \A p \in Positions : p >= screen'.base => screen'.cells[p] = Space
  /\ buf' = <<>> /\ cur' = 0 /\ histIdx' = -1 /\ saved' = <<>>

(* The command writes nothing, or a line, or clears the screen. *)
Enter == \E s \in {NewLine(screen), NewLine(NewLine(screen)), Cleared} : Again(s, buf)

(* Alt+F1 to F8 of this terminal, or of one that there is not, which is said. *)
SwitchTerminal ==
  \E s \in {Erase(screen), NewLine(Write(Erase(screen), Refusal))} : Again(s, <<>>)

-------------------------------------------------------------------------------
WordStart  == CHOOSE w \in 0 .. cur :
                /\ w = 0 \/ buf[w] = Space
                /\ \A k \in w + 1 .. cur : buf[k] # Space
Typed      == SubSeq(buf, WordStart + 1, cur)
Matching(names) == {n \in names : IsPrefix(Typed, n)}

(* matches: each place of cmds that has what is typed, and each file. *)
Found ==
  (IF WordStart = 0 THEN {<<i, Cmds[i]>> : i \in {j \in DOMAIN Cmds : IsPrefix(Typed, Cmds[j])}}
                    ELSE {})
  \cup {<<0, n>> : n \in Matching(Files)}

(* What Tab adds where one name is found. *)
Completion ==
  LET name == (CHOOSE f \in Found : TRUE)[2]
  IN  SubSeq(name, Len(Typed) + 1, Len(name)) \o (IF WordStart = 0 THEN <<Space>> ELSE <<>>)

Completes == Cardinality(Found) = 1 /\ Len(buf) + Len(Completion) <= MaxLine

(* After Tab, whatever came of it, Up begins at the latest line again. *)
HistoryLeft == histIdx' = -1 /\ saved' = <<>> /\ UNCHANGED <<hist, clean>>

Complete ==
  /\ Completes
  /\ buf' = Left \o Completion \o RightPart /\ cur' = cur + Len(Completion)
  /\ screen' = CursorLeft(Write(screen, Completion \o RightPart), Len(RightPart))
  /\ HistoryLeft

(* Nothing is found, or what is found does not fit. *)
TabInVain ==
  /\ Cardinality(Found) < 2 /\ ~Completes
  /\ HistoryLeft /\ UNCHANGED <<buf, cur, screen>>

Listed == FlattenSeq([i \in 1 .. Cardinality(Found) |-> SetToSeq(Found)[i][2] \o <<Space>>])

(* The names go below the cursor's row, then a new prompt and the line. *)
List ==
  /\ Cardinality(Found) > 1
  /\ LET s == Begin(NewLine(Write(NewLine(screen), Listed)))
     IN  screen' = CursorLeft(Write(s, buf), Len(RightPart))
  /\ HistoryLeft /\ UNCHANGED <<buf, cur>>

ReadlineNext ==
  \/ \E c \in Chars : Insert(c)
  \/ Backspace \/ Delete \/ Move \/ Up \/ Down
  \/ Enter \/ SwitchTerminal \/ Complete \/ TabInVain \/ List

ReadlineSpec == ReadlineInit /\ [][ReadlineNext]_readlineVars

-------------------------------------------------------------------------------
(* The screen shows the line that Enter will run, the cursor where the next
   character goes, and nothing behind the line that was not there before,
   however many rows the line has and wherever the screen scrolled
   (shell/shell.c:234, 331, 347, 418). *)
LineIsShown ==
  /\ screen.pos = screen.base + cur
  /\ \A p \in Positions : p >= screen.base =>
       LET i == p - screen.base + 1
       IN  IF i <= Len(buf) THEN screen.cells[p] = buf[i]
           ELSE clean => screen.cells[p] = Space
===============================================================================
