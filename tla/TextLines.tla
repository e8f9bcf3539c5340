------------------------------- MODULE TextLines -------------------------------
(* A text as the editors hold it: lines, and a row and column of the cursor. *)
EXTENDS Integers, SequencesExt

Joined(ls, nl)        == FoldLeft(LAMBDA t, l : t \o <<nl>> \o l, ls[1], Tail(ls))
Offset(ls, row, col)  == FoldLeft(LAMBDA n, l : n + Len(l) + 1, col, SubSeq(ls, 1, row - 1))
Split(t, nl) ==
  FoldLeft(LAMBDA ls, c : IF c = nl THEN Append(ls, <<>>)
                          ELSE [ls EXCEPT ![Len(ls)] = Append(@, c)], << <<>> >>, t)
UpTo(s, n) == SubSeq(s, 1, IF Len(s) > n THEN n ELSE Len(s))
===============================================================================
