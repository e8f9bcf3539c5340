-------------------------------- MODULE FlatText --------------------------------
(***************************************************************************)
(* What a text editor promises: a text and a place in it, changed where    *)
(* the place is and nowhere else, and a file that gets the text when it is *)
(* saved and gives it back when it is opened.                              *)
(***************************************************************************)
EXTENDS Integers, Sequences

CONSTANTS Chars, NL,  \* what a text consists of: characters and newlines
          Fits(_),    \* the texts that the editor can hold
          Ending      \* what the editor adds to a text when it saves it

VARIABLES text, at, stored

Cut(i, j, with) == SubSeq(text, 1, i) \o with \o SubSeq(text, j + 1, Len(text))
Replace(i, j, with, place) ==
  at' = place /\ text' = Cut(i, j, with) /\ UNCHANGED stored

Typed         == \E c \in Chars \cup {NL} : Replace(at, at, <<c>>, at + 1)
RemovedBefore == at > 0 /\ Replace(at - 1, at, <<>>, at - 1)
RemovedAfter  == at < Len(text) /\ Replace(at, at + 1, <<>>, at)

(* The line that holds the place, and one of the newlines around it. *)
LineRemoved ==
  \E i \in 0 .. at, j \in at .. Len(text) :
    /\ \A k \in i + 1 .. j : text[k] # NL
    /\ i = 0 \/ text[i] = NL
    /\ j = Len(text) \/ text[j + 1] = NL
    /\ \E to \in 0 .. Len(text) :
         \/ j < Len(text) /\ Replace(i, j + 1, <<>>, to)
         \/ j = Len(text) /\ Replace(IF i > 0 THEN i - 1 ELSE 0, j, <<>>, to)
    /\ at' <= Len(text')

Moved == at' \in 0 .. Len(text) /\ UNCHANGED <<text, stored>>
Saved == stored' = text \o Ending /\ UNCHANGED <<text, at>>

Reopened ==
  /\ at' = 0 /\ UNCHANGED stored
  /\ Fits(stored) => text' = stored

Editing == Moved \/ Saved \/ Typed \/ RemovedBefore \/ RemovedAfter \/ LineRemoved

FlatSpec == at = 0 /\ [][Editing \/ Reopened]_<<text, at, stored>>
===============================================================================
