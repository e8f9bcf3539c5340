--------------------------- MODULE MCDesktopPrograms ---------------------------
(***************************************************************************)
(* An instance of DesktopPrograms for TLC: texts of two columns, a board   *)
(* of twelve cells, three windows, a screen four wide and four high.       *)
(***************************************************************************)
EXTENDS DesktopPrograms

GuiTexts   == {<<"a", "r", "n", "b", "n">>}
PlainTexts == {<<"a", "n", "b", "n">>}
At(x, y, w, h) == [x |-> x, y |-> y, w |-> w, h |-> h]
Windows  == {At(1, 1, 2, 2), At(2, 2, 3, 2)}
===============================================================================
