------------------------------ MODULE Minesweeper ------------------------------
(***************************************************************************)
(* The game of gui/minesweeper.c.  Cells are numbered row by row, which is *)
(* the order in which the code's loops visit them.  The random numbers are *)
(* a choice: the mines may be any cells but the one clicked first.         *)
(***************************************************************************)
EXTENDS Integers, Sequences, SequencesExt, FiniteSetsExt

CONSTANTS MsRows, MsCols, MsMines,
          MsMaxFlags  \* bound: flags on the board at a time

ASSUME MinesAssumption == MsRows > 0 /\ MsCols > 0 /\ MsMines \in 1 .. MsRows * MsCols - 1

NumCells == MsRows * MsCols
Cells    == 0 .. NumCells - 1

VARIABLES mines,     \* bit 7 of ms_cell
          cellVis,       \* ms_vis
          game,      \* ms_game
          first,     \* ms_first
          flags,     \* ms_flags
          revealed   \* ms_revealed

msVars == <<mines, cellVis, game, first, flags, revealed>>

Near(c) == {d \in Cells \ {c} : /\ (d \div MsCols) - (c \div MsCols) \in -1 .. 1
                                /\ (d % MsCols) - (c % MsCols) \in -1 .. 1}

(* The digit of a cell that holds no mine. *)
Count(m, c) == Cardinality(Near(c) \cap m)
Blank(m, c) == c \notin m /\ Count(m, c) = 0

MsFresh ==
  [mines |-> {}, cellVis |-> [c \in Cells |-> "hidden"], game |-> "playing",
   first |-> TRUE, flags |-> 0, revealed |-> 0]

MsInit ==
  /\ mines = MsFresh.mines /\ cellVis = MsFresh.cellVis /\ game = MsFresh.game
  /\ first = MsFresh.first /\ flags = MsFresh.flags /\ revealed = MsFresh.revealed

-------------------------------------------------------------------------------
(* A mistake the properties have to catch: a mine may be put under the click. *)
Layouts_Anywhere(c) == kSubset(MsMines, Cells)

(* ms_place_mines *)
Layouts(c) == kSubset(MsMines, Cells \ {c})

(* What fits on the stack, which has a place for every cell of the board and
   takes a cell once for every blank neighbour. *)
Pushed(stack, new) ==
  LET room == NumCells - 1 - Len(stack)
  IN  stack \o SubSeq(new, 1, IF room < Len(new) THEN room ELSE Len(new))

InOrder(set) == SelectSeq([i \in 1 .. NumCells |-> i - 1], LAMBDA c : c \in set)

(* ms_reveal: what is visible when the stack is empty. *)
RECURSIVE Reveal(_, _, _)
Reveal(m, v, stack) ==
  IF stack = <<>> THEN v
  ELSE LET c    == Last(stack)
           rest == Front(stack)
           w    == [v EXCEPT ![c] = "revealed"]
       IN  IF v[c] # "hidden" THEN Reveal(m, v, rest)
           ELSE Reveal(m, w, IF Blank(m, c)
                             THEN Pushed(rest, InOrder({d \in Near(c) : w[d] = "hidden"}))
                             ELSE rest)

NumRevealed(v) == Cardinality({c \in Cells : v[c] = "revealed"})

-------------------------------------------------------------------------------
(* The right button of ms_click. *)
MsFlag(c) ==
  /\ game = "playing"
  /\ \/ cellVis[c] = "hidden" /\ flags < MsMaxFlags
        /\ cellVis' = [cellVis EXCEPT ![c] = "flagged"] /\ flags' = flags + 1
     \/ cellVis[c] = "flagged" /\ cellVis' = [cellVis EXCEPT ![c] = "hidden"] /\ flags' = flags - 1
  /\ UNCHANGED <<mines, game, first, revealed>>

(* The left button. *)
MsClick(c) ==
  /\ game = "playing" /\ cellVis[c] = "hidden"
  /\ mines' \in (IF first THEN Layouts(c) ELSE {mines})
  /\ first' = FALSE
  /\ IF c \in mines'
     THEN /\ game' = "lost"
          /\ cellVis' = [d \in Cells |-> IF d \in mines' /\ cellVis[d] # "flagged" THEN "revealed"
                                     ELSE cellVis[d]]
          /\ UNCHANGED revealed
     ELSE /\ cellVis' = Reveal(mines', cellVis, <<c>>)
          /\ revealed' = revealed + NumRevealed(cellVis') - NumRevealed(cellVis)
          /\ game' = IF revealed' = NumCells - MsMines THEN "won" ELSE game
  /\ UNCHANGED flags

(* ms_init again: the smile, or the window opened anew. *)
MsNewGame ==
  /\ mines' = MsFresh.mines /\ cellVis' = MsFresh.cellVis /\ game' = MsFresh.game
  /\ first' = MsFresh.first /\ flags' = MsFresh.flags /\ revealed' = MsFresh.revealed

MsNext == MsNewGame \/ \E c \in Cells : MsFlag(c) \/ MsClick(c)

MsSpec == MsInit /\ [][MsNext]_msVars

-------------------------------------------------------------------------------
(* The game is decided by what lies on the board: it is won exactly when all
   that is hidden or flagged are the mines, lost only by a click on one, never
   by the first click; a click opens no mine, and nothing but the cell clicked
   and ground around blanks that are open (gui/minesweeper.c:53, :79, :234). *)
MinesAreFair ==
  /\ [](game = "won" <=> /\ ~first /\ game # "lost"
                         /\ \A c \in Cells : c \in mines <=> cellVis[c] # "revealed")
  /\ [](game # "lost" => \A c \in mines : cellVis[c] # "revealed")
  /\ [][/\ first => game' # "lost"
        /\ \A c \in Cells : cellVis[c] = "flagged" => cellVis'[c] # "revealed"
        /\ cellVis' # cellVis /\ game' # "lost" =>
             LET open == {c \in Cells : cellVis[c] # "revealed" /\ cellVis'[c] = "revealed"}
             IN  Cardinality({c \in open : ~\E d \in Near(c) : Blank(mines', d)
                                                             /\ cellVis'[d] = "revealed"}) <= 1
       ]_msVars
===============================================================================
