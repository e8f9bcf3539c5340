----------------------------- MODULE DesktopProofs -----------------------------
(***************************************************************************)
(* What Desktop promises of the handles of windows, and WinPlace of the    *)
(* place of one window, for every number of windows, every size of the     *)
(* screen, of the smallest window and of the windows opened.               *)
(***************************************************************************)
EXTENDS Desktop, WinPlace, TLAPS

Kinds == {"none", "welcome", "term", "files", "net", "browser", "mines", "editor", "about"}

DeskType ==
  [kind: [Slots -> Kinds], num: 0 .. MaxWindows,
   gt: Int, fexp: Int, br: Int, ed: Int, ms: Int,
   ctx: {"no", "desktop", "window", "file", "dir"}, ctxWin: Int,
   drop: BOOLEAN, left: BOOLEAN, right: BOOLEAN]

Denotes(s, h, kind) == h = NoHandle \/ (h \in Slots /\ s.kind[h] = kind)

(* The windows fill the slots from the first, and the handles that the
   promise is about denote windows of their programs; n tells that `balloon'
   was typed within the desktop. *)
Kept(s, n) ==
  /\ s \in DeskType
  /\ \A i \in Slots : s.kind[i] # "none" <=> i < s.num
  /\ Denotes(s, s.gt, "term") /\ Denotes(s, s.fexp, "files")
  /\ ~n => Denotes(s, s.br, "browser") /\ Denotes(s, s.ed, "editor")

LEMMA Numbers == MaxWindows \in Nat /\ MaxWindows > 0
  BY DesktopAssumption

(* Nothing but the menus and buttons changes. *)
LEMMA SameWindows ==
  ASSUME NEW s, NEW n, Kept(s, n), NEW t \in DeskType,
         t.kind = s.kind, t.num = s.num, t.gt = s.gt, t.fexp = s.fexp, t.br = s.br, t.ed = s.ed
  PROVE  Kept(t, n)
  BY DEF Kept, Denotes

LEMMA FieldsTyped ==
  ASSUME NEW s \in DeskType
  PROVE  /\ s.kind \in [Slots -> Kinds] /\ s.num \in 0 .. MaxWindows
         /\ s.gt \in Int /\ s.fexp \in Int /\ s.br \in Int /\ s.ed \in Int /\ s.ms \in Int
         /\ \A b \in BOOLEAN : [s EXCEPT !.drop = b] \in DeskType
         /\ \A l, r \in BOOLEAN : [s EXCEPT !.left = l, !.right = r] \in DeskType
         /\ \A c \in {"no", "desktop", "window", "file", "dir"}, w \in Int :
              [s EXCEPT !.ctx = c, !.ctxWin = w] \in DeskType
  BY DEF DeskType

LEMMA OpenKeeps ==
  ASSUME NEW s, NEW n, Kept(s, n), NEW kind \in Kinds \ {"none"}
  PROVE  /\ Kept(Open(s, kind), n)
         /\ Open(s, kind).num > s.num => s.num \in Slots /\ Open(s, kind).kind[s.num] = kind
<1>1. /\ s \in DeskType /\ s.kind \in [Slots -> Kinds] /\ s.num \in 0 .. MaxWindows
      /\ \A i \in Slots : s.kind[i] # "none" <=> i < s.num
  BY FieldsTyped DEF Kept
<1>2. CASE s.num >= MaxWindows
  BY <1>1, <1>2, Numbers DEF Open
<1>3. CASE ~(s.num >= MaxWindows)
  <2> DEFINE t == [s EXCEPT !.kind[s.num] = kind, !.num = @ + 1]
  <2>1. Open(s, kind) = t
    BY <1>3 DEF Open
  <2>2. s.num \in Slots /\ s.num + 1 \in 0 .. MaxWindows
    BY <1>1, <1>3, Numbers DEF Slots
  <2>3. /\ t \in DeskType
        /\ t.kind = [s.kind EXCEPT ![s.num] = kind] /\ t.num = s.num + 1
        /\ t.gt = s.gt /\ t.fexp = s.fexp /\ t.br = s.br /\ t.ed = s.ed
    BY <1>1, <2>2 DEF DeskType
  <2> HIDE DEF t
  <2>4. \A i \in Slots : t.kind[i] # "none" <=> i < t.num
    <3> SUFFICES ASSUME NEW i \in Slots PROVE t.kind[i] # "none" <=> i < t.num
      OBVIOUS
    <3>1. i \in Int /\ t.kind[i] = IF i = s.num THEN kind ELSE s.kind[i]
      BY <1>1, <2>2, <2>3, Numbers DEF Slots
    <3>2. i = s.num \/ (i # s.num /\ (i < s.num + 1 <=> i < s.num))
      BY <1>1, <3>1
    <3> QED
      BY <1>1, <2>3, <3>1, <3>2
  <2>5. \A h, k : Denotes(s, h, k) /\ k # "none" => Denotes(t, h, k)
    BY <1>1, <2>2, <2>3 DEF Denotes
  <2>6. Kept(t, n)
    BY <2>3, <2>4, <2>5 DEF Kept
  <2> QED
    BY <1>1, <2>1, <2>2, <2>3, <2>6
<1> QED
  BY <1>2, <1>3

LEMMA GivenKeeps ==
  ASSUME NEW s, NEW n, Kept(s, n), NEW t, Kept(t, n), NEW h, NEW kind \in Kinds \ {"none"},
         <<h, kind>> \in {<<"gt", "term">>, <<"fexp", "files">>, <<"br", "browser">>,
                         <<"ed", "editor">>, <<"ms", "mines">>},
         t.num > s.num => s.num \in Slots /\ t.kind[s.num] = kind
  PROVE  Kept(Given(s, t, h), n)
<1>1. CASE ~(t.num > s.num)
  BY <1>1 DEF Given
<1>2. CASE t.num > s.num
  <2> DEFINE u == [t EXCEPT ![h] = s.num]
  <2>1. Given(s, t, h) = u /\ s.num \in Int /\ Denotes(t, s.num, kind) /\ t \in DeskType
    BY <1>2 DEF Given, Denotes, Kept, DeskType
  <2>2. CASE h = "gt" /\ kind = "term"
    <3>1. u \in DeskType /\ u.kind = t.kind /\ u.num = t.num /\ u.gt = s.num
          /\ u.fexp = t.fexp /\ u.br = t.br /\ u.ed = t.ed
      BY <2>1, <2>2 DEF DeskType
    <3> QED
      BY <2>1, <2>2, <3>1 DEF Kept, Denotes
  <2>3. CASE h = "fexp" /\ kind = "files"
    <3>1. u \in DeskType /\ u.kind = t.kind /\ u.num = t.num /\ u.gt = t.gt
          /\ u.fexp = s.num /\ u.br = t.br /\ u.ed = t.ed
      BY <2>1, <2>3 DEF DeskType
    <3> QED
      BY <2>1, <2>3, <3>1 DEF Kept, Denotes
  <2>4. CASE h = "br" /\ kind = "browser"
    <3>1. u \in DeskType /\ u.kind = t.kind /\ u.num = t.num /\ u.gt = t.gt
          /\ u.fexp = t.fexp /\ u.br = s.num /\ u.ed = t.ed
      BY <2>1, <2>4 DEF DeskType
    <3> QED
      BY <2>1, <2>4, <3>1 DEF Kept, Denotes
  <2>5. CASE h = "ed" /\ kind = "editor"
    <3>1. u \in DeskType /\ u.kind = t.kind /\ u.num = t.num /\ u.gt = t.gt
          /\ u.fexp = t.fexp /\ u.br = t.br /\ u.ed = s.num
      BY <2>1, <2>5 DEF DeskType
    <3> QED
      BY <2>1, <2>5, <3>1 DEF Kept, Denotes
  <2>6. CASE h = "ms"
    <3>1. u \in DeskType /\ u.kind = t.kind /\ u.num = t.num /\ u.gt = t.gt
          /\ u.fexp = t.fexp /\ u.br = t.br /\ u.ed = t.ed
      BY <2>1, <2>6 DEF DeskType
    <3> QED
      BY <2>1, <3>1, SameWindows
  <2> QED
    BY <2>2, <2>3, <2>4, <2>5, <2>6
<1> QED
  BY <1>1, <1>2

LEMMA OpenGivenKeeps ==
  ASSUME NEW s, NEW n, Kept(s, n), NEW h, NEW kind \in Kinds \ {"none"},
         <<h, kind>> \in {<<"gt", "term">>, <<"fexp", "files">>, <<"br", "browser">>,
                         <<"ed", "editor">>, <<"ms", "mines">>}
  PROVE  Kept(Given(s, Open(s, kind), h), n)
<1>1. Kept(Open(s, kind), n)
      /\ (Open(s, kind).num > s.num => s.num \in Slots /\ Open(s, kind).kind[s.num] = kind)
  BY OpenKeeps
<1> QED
  BY <1>1, GivenKeeps

LEMMA OpenIconKeeps ==
  ASSUME NEW s, NEW n, Kept(s, n),
         NEW kind \in {"term", "files", "net", "browser", "mines", "editor", "about"}
  PROVE  Kept(OpenIcon(s, kind), n)
<1>1. CASE kind \in {"net", "about"}
  BY <1>1, OpenKeeps DEF OpenIcon, HandleOf, Kinds
<1>2. CASE kind \notin {"net", "about"}
  <2>1. kind \in DOMAIN HandleOf /\ kind \in Kinds \ {"none"}
        /\ <<HandleOf[kind], kind>> \in {<<"gt", "term">>, <<"fexp", "files">>,
                  <<"br", "browser">>, <<"ed", "editor">>, <<"ms", "mines">>}
    BY <1>2 DEF HandleOf, Kinds
  <2>2. Kept(Given(s, Open(s, kind), HandleOf[kind]), n)
    BY <2>1, OpenGivenKeeps
  <2> QED
    BY <2>1, <2>2 DEF OpenIcon
<1> QED
  BY <1>1, <1>2

(* The handles and the order of the windows change, and nothing else. *)
With(s, num, kinds, gt, fexp, br, ed, ms) ==
  [s EXCEPT !.num = num, !.kind = kinds, !.gt = gt, !.fexp = fexp, !.br = br, !.ed = ed, !.ms = ms]

LEMMA HandlesTyped ==
  ASSUME NEW s \in DeskType, NEW num \in 0 .. MaxWindows, NEW kinds \in [Slots -> Kinds],
         NEW gt \in Int, NEW fexp \in Int, NEW br \in Int, NEW ed \in Int, NEW ms \in Int
  PROVE  LET t == With(s, num, kinds, gt, fexp, br, ed, ms)
         IN  /\ t \in DeskType
             /\ t.kind = kinds /\ t.num = num /\ t.gt = gt /\ t.fexp = fexp
             /\ t.br = br /\ t.ed = ed
<1> DEFINE t == With(s, num, kinds, gt, fexp, br, ed, ms)
<1> USE DEF With
<1>1. t.kind = kinds /\ t.num = num /\ t.gt = gt /\ t.fexp = fexp
      /\ t.br = br /\ t.ed = ed
  BY DEF DeskType
<1>2. t \in DeskType
  BY DEF DeskType
<1> QED
  BY <1>1, <1>2

WithNum(s, kinds, gt, fexp, br, ed, ms) ==
  [s EXCEPT !.kind = kinds, !.gt = gt, !.fexp = fexp, !.br = br, !.ed = ed, !.ms = ms]

LEMMA WithSame ==
  ASSUME NEW s \in DeskType, NEW kinds, NEW gt, NEW fexp, NEW br, NEW ed, NEW ms
  PROVE  WithNum(s, kinds, gt, fexp, br, ed, ms) = With(s, s.num, kinds, gt, fexp, br, ed, ms)
  BY DEF With, WithNum, DeskType

LEMMA CloseKeeps ==
  ASSUME NEW s, NEW n, Kept(s, n), NEW i
  PROVE  Kept(Close(s, i), n)
<1>1. CASE ~Active(s, i) \/ i >= s.num
  BY <1>1 DEF Close
<1>2. CASE ~(~Active(s, i) \/ i >= s.num)
  <2>1. /\ s \in DeskType /\ s.kind \in [Slots -> Kinds] /\ s.num \in 0 .. MaxWindows
        /\ s.gt \in Int /\ s.fexp \in Int /\ s.br \in Int /\ s.ed \in Int /\ s.ms \in Int
        /\ \A j \in Slots : s.kind[j] # "none" <=> j < s.num
        /\ i \in Slots /\ i < s.num
    BY <1>2, FieldsTyped, Numbers DEF Kept, Active, Slots
  <2> DEFINE last == s.num - 1
             move(h) == IF h = i THEN NoHandle ELSE IF h = last THEN i ELSE h
             kinds == [s.kind EXCEPT ![i] = s.kind[last], ![last] = "none"]
             t == [s EXCEPT !.num = last,
                     !.kind = [@ EXCEPT ![i] = s.kind[last], ![last] = "none"],
                     !.gt = move(@), !.fexp = move(@), !.br = move(@), !.ed = move(@),
                     !.ms = IF i < last /\ @ = last THEN i ELSE @]
  <2>2. Close(s, i) = t
    BY <1>2 DEF Close
  <2>3. /\ last \in Slots /\ last \in 0 .. MaxWindows /\ last \in Int /\ i \in Int /\ i <= last
        /\ NoHandle \in Int
    BY <2>1, Numbers DEF Slots, NoHandle
  <2>4. kinds \in [Slots -> Kinds]
        /\ \A j \in Slots : kinds[j] = IF j = last THEN "none"
                                       ELSE IF j = i THEN s.kind[last] ELSE s.kind[j]
    BY <2>1, <2>3 DEF Kinds
  <2>5. \A h \in Int : move(h) \in Int
    BY <2>3
  <2>6. /\ t \in DeskType
        /\ t.kind = kinds /\ t.num = last
        /\ t.gt = move(s.gt) /\ t.fexp = move(s.fexp) /\ t.br = move(s.br) /\ t.ed = move(s.ed)
    <3> DEFINE ms == IF i < last /\ s.ms = last THEN i ELSE s.ms
    <3>1. t = With(s, last, kinds, move(s.gt), move(s.fexp), move(s.br), move(s.ed), ms)
      BY DEF With
    <3>2. /\ ms \in Int /\ move(s.gt) \in Int /\ move(s.fexp) \in Int
          /\ move(s.br) \in Int /\ move(s.ed) \in Int /\ s \in DeskType
          /\ last \in 0 .. MaxWindows /\ kinds \in [Slots -> Kinds]
      BY <2>1, <2>3, <2>4, <2>5
    <3> HIDE DEF t, move, ms, kinds, last
    <3> QED
      BY <2>1, <3>1, <3>2, HandlesTyped
  <2> HIDE DEF t, kinds
  <2>7. \A h \in Int : \A k : Denotes(s, h, k) /\ k # "none" => Denotes(t, move(h), k)
    <3> SUFFICES ASSUME NEW h \in Int, NEW k, k # "none", h \in Slots, s.kind[h] = k, h # i
                 PROVE  move(h) \in Slots /\ kinds[move(h)] = k
      BY <2>3, <2>6 DEF Denotes, NoHandle, Slots
    <3>1. CASE h = last
      BY <2>1, <2>3, <2>4, <3>1
    <3>2. CASE h # last
      BY <2>1, <2>4, <3>2
    <3> QED
      BY <3>1, <3>2
  <2>8. \A j \in Slots : t.kind[j] # "none" <=> j < t.num
    <3> SUFFICES ASSUME NEW j \in Slots PROVE kinds[j] # "none" <=> j < last
      BY <2>6
    <3>1. j \in Int /\ s.num = last + 1 /\ last < s.num
      BY <2>1, Numbers DEF Slots
    <3>2. CASE j = last
      BY <2>3, <2>4, <3>2
    <3>3. CASE j # last
      <4>1. j < last <=> j < s.num
        BY <2>3, <3>1, <3>3
      <4>2. i < last \/ i = last
        BY <2>3
      <4> QED
        BY <2>1, <2>3, <2>4, <3>1, <3>3, <4>1, <4>2
    <3> QED
      BY <3>2, <3>3
  <2> HIDE DEF move, last
  <2>9. Kept(t, n)
    BY <2>1, <2>6, <2>7, <2>8 DEF Kept
  <2> QED
    BY <2>2, <2>9
<1> QED
  BY <1>1, <1>2

LEMMA BringToFrontKeeps ==
  ASSUME NEW s, NEW n, Kept(s, n), NEW i
  PROVE  Kept(BringToFront(s, i), n)
<1>1. CASE i \notin 0 .. (s.num - 1) - 1
  BY <1>1 DEF BringToFront
<1>2. CASE i \in 0 .. (s.num - 1) - 1
  <2>1. /\ s \in DeskType /\ s.kind \in [Slots -> Kinds] /\ s.num \in 0 .. MaxWindows
        /\ s.gt \in Int /\ s.fexp \in Int /\ s.br \in Int /\ s.ed \in Int /\ s.ms \in Int
        /\ \A j \in Slots : s.kind[j] # "none" <=> j < s.num
    BY FieldsTyped DEF Kept
  <2> DEFINE last == s.num - 1
             from(j) == IF j \in i .. last - 1 THEN j + 1 ELSE IF j = last THEN i ELSE j
             move(h) == IF h = i THEN last ELSE IF h > i THEN h - 1 ELSE h
             kinds == [j \in Slots |-> s.kind[from(j)]]
             t == [s EXCEPT !.kind = [j \in Slots |-> s.kind[from(j)]],
                     !.gt = move(@), !.fexp = move(@), !.br = move(@),
                     !.ed = move(@), !.ms = move(@)]
  <2>2. BringToFront(s, i) = t
    BY <1>2 DEF BringToFront
  <2>3. /\ last \in Slots /\ last \in Int /\ i \in Int /\ 0 <= i /\ i < last
        /\ s.num = last + 1 /\ \A j \in Slots : j \in Int /\ 0 <= j /\ j < MaxWindows
    <3>1. s.num \in Int /\ 0 <= s.num /\ s.num <= MaxWindows /\ MaxWindows \in Int
      BY <2>1, Numbers
    <3>2. i \in Int /\ 0 <= i /\ i < s.num - 1
      BY <1>2, <3>1
    <3> QED
      BY <3>1, <3>2 DEF Slots
  <2>4. \A j \in Slots : from(j) \in Slots /\ (from(j) < s.num <=> j < s.num)
    BY <2>1, <2>3, Numbers DEF Slots
  <2>5. kinds \in [Slots -> Kinds] /\ \A j \in Slots : kinds[j] = s.kind[from(j)]
    BY <2>1, <2>4
  <2>6. \A h \in Int : move(h) \in Int
    BY <2>3
  <2>7. /\ t \in DeskType
        /\ t.kind = kinds /\ t.num = s.num
        /\ t.gt = move(s.gt) /\ t.fexp = move(s.fexp) /\ t.br = move(s.br) /\ t.ed = move(s.ed)
    <3>1. t = With(s, s.num, kinds, move(s.gt), move(s.fexp), move(s.br), move(s.ed), move(s.ms))
      <4>1. t = WithNum(s, kinds, move(s.gt), move(s.fexp), move(s.br), move(s.ed), move(s.ms))
        BY DEF WithNum
      <4> HIDE DEF t, kinds, move
      <4> QED
        BY <2>1, <4>1, WithSame
    <3>2. /\ move(s.ms) \in Int /\ move(s.gt) \in Int /\ move(s.fexp) \in Int
          /\ move(s.br) \in Int /\ move(s.ed) \in Int /\ s \in DeskType
          /\ s.num \in 0 .. MaxWindows /\ kinds \in [Slots -> Kinds]
      BY <2>1, <2>5, <2>6
    <3> HIDE DEF t, move, kinds, last, from
    <3> QED
      BY <2>1, <3>1, <3>2, HandlesTyped
  <2> HIDE DEF t, kinds
  <2>8. \A h \in Int : \A k : Denotes(s, h, k) /\ k # "none" => Denotes(t, move(h), k)
    <3> SUFFICES ASSUME NEW h \in Int, NEW k, k # "none", h \in Slots, s.kind[h] = k
                 PROVE  move(h) \in Slots /\ kinds[move(h)] = k
      BY <2>3, <2>7 DEF Denotes, NoHandle
    <3>1. h <= last /\ 0 <= h
      BY <2>1, <2>3
    <3>2. move(h) \in Slots /\ from(move(h)) = h
      <4>1. CASE h = i
        BY <2>3, <4>1
      <4>2. CASE h > i
        <5>1. h - 1 \in Slots /\ h - 1 \in i .. last - 1 /\ move(h) = h - 1 /\ (h - 1) + 1 = h
          BY <2>3, <3>1, <4>2, Numbers DEF Slots
        <5> QED
          BY <5>1
      <4>3. CASE h < i
        BY <2>3, <3>1, <4>3
      <4> QED
        BY <2>3, <4>1, <4>2, <4>3
    <3> QED
      BY <2>5, <3>2
  <2>9. \A j \in Slots : t.kind[j] # "none" <=> j < t.num
    BY <2>1, <2>4, <2>5, <2>7
  <2> HIDE DEF move, last, from
  <2>10. Kept(t, n)
    BY <2>1, <2>7, <2>8, <2>9 DEF Kept
  <2> QED
    BY <2>2, <2>10
<1> QED
  BY <1>1, <1>2

(* What shows which menu is open is no part of what is kept. *)
LEMMA MarksKept ==
  ASSUME NEW s, NEW n, Kept(s, n)
  PROVE  /\ \A b \in BOOLEAN : Kept([s EXCEPT !.drop = b], n)
         /\ \A l, r \in BOOLEAN : Kept([s EXCEPT !.left = l, !.right = r], n)
         /\ \A c \in {"no", "desktop", "window", "file", "dir"}, w \in Int :
              Kept([s EXCEPT !.ctx = c, !.ctxWin = w], n)
<1>1. s \in DeskType
  BY DEF Kept
<1>2. ASSUME NEW b \in BOOLEAN PROVE Kept([s EXCEPT !.drop = b], n)
  <2> DEFINE t == [s EXCEPT !.drop = b]
  <2>1. t \in DeskType /\ t.kind = s.kind /\ t.num = s.num /\ t.gt = s.gt /\ t.fexp = s.fexp
        /\ t.br = s.br /\ t.ed = s.ed
    BY <1>1 DEF DeskType
  <2> HIDE DEF t
  <2>2. Kept(t, n)
    BY <2>1, SameWindows
  <2> QED
    BY <2>2 DEF t
<1>3. ASSUME NEW l \in BOOLEAN, NEW r \in BOOLEAN
      PROVE  Kept([s EXCEPT !.left = l, !.right = r], n)
  <2> DEFINE t == [s EXCEPT !.left = l, !.right = r]
  <2>1. t \in DeskType /\ t.kind = s.kind /\ t.num = s.num /\ t.gt = s.gt /\ t.fexp = s.fexp
        /\ t.br = s.br /\ t.ed = s.ed
    BY <1>1 DEF DeskType
  <2> HIDE DEF t
  <2>2. Kept(t, n)
    BY <2>1, SameWindows
  <2> QED
    BY <2>2 DEF t
<1>5. ASSUME NEW c \in {"no", "desktop", "window", "file", "dir"}, NEW w \in Int
      PROVE  Kept([s EXCEPT !.ctx = c, !.ctxWin = w], n)
  <2> DEFINE t == [s EXCEPT !.ctx = c, !.ctxWin = w]
  <2>1. t \in DeskType /\ t.kind = s.kind /\ t.num = s.num /\ t.gt = s.gt /\ t.fexp = s.fexp
        /\ t.br = s.br /\ t.ed = s.ed
    BY <1>1 DEF DeskType
  <2> HIDE DEF t
  <2>2. Kept(t, n)
    BY <2>1, SameWindows
  <2> QED
    BY <2>2 DEF t
<1> QED
  BY <1>2, <1>3, <1>5

(* What the pointer is on: a window that is open, an icon, or neither. *)
LEMMA TargetsTyped ==
  ASSUME NEW s, NEW t \in Targets(s)
  PROVE  /\ t[1] \notin {"dock", "icon"} => t[2] \in Int
         /\ t[1] \in {"dock", "icon"} =>
              t[2] \in {"term", "files", "net", "browser", "mines", "editor", "about"}
<1>1. NoHandle \in Int /\ \A i \in Slots : i \in Int
  BY Numbers DEF NoHandle, Slots
<1>2. CASE t \in {"menu", "quit", "about", "dropdown", "desktop"} \X {NoHandle}
  BY <1>1, <1>2
<1>3. CASE t \in {"close", "corner", "title", "content", "entry"} \X {i \in Slots : Active(s, i)}
  BY <1>1, <1>3
<1>4. CASE t \in {"dock", "icon"} \X Programs
  BY <1>4, DesktopAssumption
<1> QED
  BY <1>2, <1>3, <1>4 DEF Targets

LEMMA RightPressKeeps ==
  ASSUME NEW s, NEW n, Kept(s, n), NEW t \in Targets(s), NEW x \in RightPress(s, t)
  PROVE  Kept(x, n)
<1>1. s \in DeskType
  BY DEF Kept
<1>2. s.fexp \in Int /\ NoHandle \in Int
  BY <1>1 DEF DeskType, NoHandle
<1>3. CASE x \in Menus(s, t)
  <2>1. PICK c \in {"no", "desktop", "window", "file", "dir"}, w \in Int :
          x = [s EXCEPT !.ctx = c, !.ctxWin = w]
    <3>1. CASE x \in {[s EXCEPT !.ctx = "desktop", !.ctxWin = NoHandle]}
      BY <1>2, <3>1
    <3>2. CASE x \in {[s EXCEPT !.ctx = on, !.ctxWin = s.fexp] : on \in {"file", "dir"}}
      BY <1>2, <3>2
    <3>3. CASE t[1] \notin {"dock", "icon"} /\ x \in {[s EXCEPT !.ctx = "window", !.ctxWin = t[2]]}
      BY <3>3, TargetsTyped
    <3> QED
      BY <1>3, <3>1, <3>2, <3>3 DEF Menus
  <2> QED
    BY <2>1, MarksKept
<1>4. CASE x = s
  BY <1>4
<1> QED
  BY <1>3, <1>4 DEF RightPress

LEMMA ExecutedKeeps ==
  ASSUME NEW s, NEW n, Kept(s, n), NEW x \in Executed(s)
  PROVE  Kept(x, n)
<1>1. Kept(Given(s, Open(s, "editor"), "ed"), n)
  BY OpenGivenKeeps DEF Kinds
<1>2. x \in {s, Close(s, s.ctxWin), Given(s, Open(s, "editor"), "ed")}
  BY DEF Executed
<1> QED
  BY <1>1, <1>2, CloseKeeps

LEMMA LeftPressKeeps ==
  ASSUME NEW s, NEW n, Kept(s, n), NEW t,
         t[1] \in {"dock", "icon"} =>
           t[2] \in {"term", "files", "net", "browser", "mines", "editor", "about"},
         NEW x \in LeftPress(s, t)
  PROVE  Kept(x, n)
<1>1. Kept([s EXCEPT !.drop = FALSE], n) /\ Kept([s EXCEPT !.drop = ~s.drop], n)
  <2>1. FALSE \in BOOLEAN /\ (~s.drop) \in BOOLEAN
    OBVIOUS
  <2> QED
    BY <2>1, MarksKept, Zenon
<1>2. Kept([s EXCEPT !.drop = FALSE], n) /\ Kept([s EXCEPT !.drop = ~@], n)
  BY <1>1
<1>3. Kept(OpenIcon([s EXCEPT !.drop = FALSE], "net"), n)
  BY <1>2, OpenIconKeeps
<1>4. t[1] \in {"dock", "icon"} => Kept(OpenIcon(s, t[2]), n)
  BY OpenIconKeeps
<1>5. x \in {s, [s EXCEPT !.drop = ~@], [s EXCEPT !.drop = FALSE],
            OpenIcon([s EXCEPT !.drop = FALSE], "net"), Close(s, t[2]),
            BringToFront(s, t[2])}
      \/ (t[1] \in {"dock", "icon"} /\ x = OpenIcon(s, t[2]))
      \/ \E i : x = BringToFront(s, i)
  BY DEF LeftPress
<1>6. Kept(Close(s, t[2]), n) /\ \A i : Kept(BringToFront(s, i), n)
  BY CloseKeeps, BringToFrontKeeps
<1> QED
  BY <1>2, <1>3, <1>4, <1>5, <1>6

-------------------------------------------------------------------------------
LEMMA MouseKeeps ==
  ASSUME Kept(desk, nested), NEW l \in BOOLEAN, NEW r \in BOOLEAN, Mouse(l, r)
  PROVE  Kept(desk', nested)
<1> DEFINE s == desk
           seen(x) == [x EXCEPT !.left = l, !.right = r]
           shut(x) == [x EXCEPT !.ctx = "no", !.ctxWin = NoHandle]
<1>1. ASSUME NEW x, Kept(x, nested) PROVE Kept(seen(x), nested) /\ Kept(shut(x), nested)
  <2>1. NoHandle \in Int
    BY DEF NoHandle
  <2> QED
    BY <1>1, <2>1, MarksKept
<1>2. CASE \E x \in Executed(s) : desk' = seen(shut(x))
  BY <1>1, <1>2, ExecutedKeeps
<1>3. CASE desk' = seen(shut(s))
  BY <1>1, <1>3
<1>4. CASE \E t \in Targets(s) : \E x \in (IF r /\ ~s.right THEN RightPress(s, t) ELSE {s}) :
              \/ Quit(x, t)
              \/ \E y \in (IF l /\ ~s.left THEN LeftPress(x, t) ELSE {x}) : desk' = seen(y)
  <2>1. PICK t \in Targets(s) : \E x \in (IF r /\ ~s.right THEN RightPress(s, t) ELSE {s}) :
              \/ Quit(x, t)
              \/ \E y \in (IF l /\ ~s.left THEN LeftPress(x, t) ELSE {x}) : desk' = seen(y)
    BY <1>4
  <2>2. PICK x \in (IF r /\ ~s.right THEN RightPress(s, t) ELSE {s}) :
              \/ Quit(x, t)
              \/ \E y \in (IF l /\ ~s.left THEN LeftPress(x, t) ELSE {x}) : desk' = seen(y)
    BY <2>1
  <2>3. Kept(x, nested)
    BY <2>2, RightPressKeeps
  <2>4. CASE Quit(x, t)
    <3>1. Kept([x EXCEPT !.drop = FALSE], nested)
      BY <2>3, MarksKept
    <3> QED
      BY <2>4, <3>1 DEF Quit
  <2>5. CASE \E y \in (IF l /\ ~s.left THEN LeftPress(x, t) ELSE {x}) : desk' = seen(y)
    <3>1. PICK y \in (IF l /\ ~s.left THEN LeftPress(x, t) ELSE {x}) : desk' = seen(y)
      BY <2>5
    <3>2. Kept(y, nested)
      BY <2>3, <3>1, TargetsTyped, LeftPressKeeps
    <3> QED
      BY <1>1, <3>1, <3>2
  <2> QED
    BY <2>2, <2>4, <2>5
<1>5. \/ \E x \in Executed(s) : desk' = seen(shut(x))
      \/ desk' = seen(shut(s))
      \/ \E t \in Targets(s) : \E x \in (IF r /\ ~s.right THEN RightPress(s, t) ELSE {s}) :
              \/ Quit(x, t)
              \/ \E y \in (IF l /\ ~s.left THEN LeftPress(x, t) ELSE {x}) : desk' = seen(y)
  BY Zenon DEF Mouse
<1> QED
  BY <1>2, <1>3, <1>4, <1>5

LEMMA StartedKeeps ==
  ASSUME NEW s \in DeskType, NEW n, n \/ (s.br = NoHandle /\ s.ed = NoHandle)
  PROVE  Kept(Started(s), n)
<1> DEFINE t == [s EXCEPT !.kind = [i \in Slots |-> "none"], !.num = 0, !.drop = FALSE,
                 !.gt = NoHandle, !.fexp = NoHandle, !.left = FALSE, !.right = FALSE]
<1>1. [i \in Slots |-> "none"] \in [Slots -> Kinds] /\ 0 \in 0 .. MaxWindows /\ NoHandle \in Int
  BY Numbers DEF Kinds, NoHandle
<1>2. t.kind = [i \in Slots |-> "none"] /\ t.num = 0 /\ t.gt = NoHandle /\ t.fexp = NoHandle
      /\ t.br = s.br /\ t.ed = s.ed
  BY DEF DeskType
<1>3. t \in DeskType
  BY <1>1 DEF DeskType
<1> HIDE DEF t
<1>4. \A i \in Slots : ~(i < 0)
  BY Numbers DEF Slots
<1>5. Kept(t, n)
  BY <1>2, <1>3, <1>4 DEF Kept, Denotes
<1>6. Kept(Open(t, "welcome"), n)
  BY <1>5, OpenKeeps DEF Kinds
<1> QED
  BY <1>6 DEF Started, t

LEMMA KeyKeeps ==
  ASSUME Kept(desk, nested), Key
  PROVE  Kept(desk', nested')
<1>1. desk \in DeskType
  BY DEF Kept
<1>2. CASE desk' = EscKey(desk) /\ nested' = nested
  <2>1. Kept([desk EXCEPT !.drop = FALSE], nested)
    BY MarksKept
  <2>2. Kept([desk EXCEPT !.gt = NoHandle], nested)
    <3> DEFINE t == [desk EXCEPT !.gt = NoHandle]
    <3>1. t \in DeskType /\ t.kind = desk.kind /\ t.num = desk.num /\ t.gt = NoHandle
          /\ t.fexp = desk.fexp /\ t.br = desk.br /\ t.ed = desk.ed
      BY <1>1 DEF DeskType, NoHandle
    <3> HIDE DEF t
    <3>2. Kept(t, nested)
      BY <3>1 DEF Kept, Denotes
    <3> QED
      BY <3>2 DEF t
  <2> QED
    BY <1>2, <2>1, <2>2, CloseKeeps DEF EscKey
<1>3. CASE desk' = CtrlQ(desk) /\ nested' = nested
  BY <1>3, CloseKeeps DEF CtrlQ
<1>4. CASE desk' = Started(desk) /\ nested' = TRUE
  BY <1>1, <1>4, StartedKeeps
<1> QED
  BY <1>2, <1>3, <1>4 DEF Key

LEMMA KeptStep == Kept(desk, nested) /\ [DeskNext]_deskVars => Kept(desk', nested')
<1> SUFFICES ASSUME Kept(desk, nested), [DeskNext]_deskVars PROVE Kept(desk', nested')
  OBVIOUS
<1>1. CASE Key
  BY <1>1, KeyKeeps
<1>2. ASSUME NEW l \in BOOLEAN, NEW r \in BOOLEAN, Mouse(l, r), UNCHANGED nested
      PROVE  Kept(desk', nested')
  BY <1>2, MouseKeeps
<1>3. CASE UNCHANGED deskVars
  BY <1>3 DEF deskVars
<1> QED
  BY <1>1, <1>2, <1>3 DEF DeskNext

LEMMA KeptFirst == DeskInit => Kept(desk, nested)
<1> SUFFICES ASSUME DeskInit PROVE Kept(desk, nested)
  OBVIOUS
<1> DEFINE s == [kind |-> [i \in Slots |-> "none"], num |-> 0, gt |-> NoHandle,
                 fexp |-> NoHandle, br |-> NoHandle, ed |-> NoHandle, ms |-> NoHandle,
                 ctx |-> "no", ctxWin |-> NoHandle, drop |-> FALSE,
                 left |-> FALSE, right |-> FALSE]
<1>1. [i \in Slots |-> "none"] \in [Slots -> Kinds] /\ 0 \in 0 .. MaxWindows /\ NoHandle \in Int
  BY Numbers DEF Kinds, NoHandle
<1>2. s \in DeskType /\ s.br = NoHandle /\ s.ed = NoHandle
  BY <1>1 DEF DeskType
<1> HIDE DEF s
<1>3. Kept(Started(s), FALSE)
  BY <1>2, StartedKeeps
<1>4. desk = Started(s) /\ nested = FALSE
  BY DEF DeskInit, s
<1> QED
  BY <1>3, <1>4

(* However many windows there may be and whatever is clicked, opened, raised
   and closed, the handles of the terminal and the explorer denote windows of
   theirs or none, and those of the browser and the editor do until `balloon'
   is typed within the desktop. *)
THEOREM WindowsAreKept == DeskSpec => []ProgramsKeepTheirWindows
<1>1. DeskInit => Kept(desk, nested)
  BY KeptFirst
<1>2. Kept(desk, nested) /\ [DeskNext]_deskVars => Kept(desk, nested)'
  BY KeptStep
<1>3. Kept(desk, nested) => ProgramsKeepTheirWindows
  BY DEF Kept, Denotes, ProgramsKeepTheirWindows, Active
<1> QED
  BY <1>1, <1>2, <1>3, PTL DEF DeskSpec

-------------------------------------------------------------------------------
(* The place of one window. *)
PlaceTypeOK ==
  /\ place \in Box /\ saved \in Box
  /\ minimized \in BOOLEAN /\ maximized \in BOOLEAN /\ active \in BOOLEAN
  /\ held \in [by : {"nothing", "title", "left", "right"}, ox : Int, oy : Int]

(* The constants are numbers. *)
LEMMA Sizes ==
  /\ ScreenW \in Nat /\ ScreenH \in Nat /\ MenuH \in Nat /\ TitleH \in Nat
  /\ MinW \in Nat /\ MinH \in Nat
  /\ MinW <= ScreenW /\ MenuH + MinH <= ScreenH /\ Opened \subseteq Box
BY PlaceAssumption

LEMMA PointerIsInt == ASSUME NEW m \in Pointer PROVE m[1] \in Int /\ m[2] \in Int
BY Sizes DEF Pointer

(* A drag keeps a box a box, and one that fits fitting: what is clamped last is
   the right and the bottom edge, and the width and height leave room (:2516). *)
LEMMA DraggedFits ==
  ASSUME NEW p \in Box, NEW ox \in Int, NEW oy \in Int, NEW m \in Pointer
  PROVE  /\ Dragged(p, ox, oy, m) \in Box
         /\ Fits(p) => Fits(Dragged(p, ox, oy, m))
<1>1. m[1] \in Int /\ m[2] \in Int
  BY PointerIsInt
<1>2. /\ AtMost(AtLeast(m[1] - ox, 0), ScreenW - p.w) \in Int
      /\ AtMost(AtLeast(m[2] - oy, MenuH), ScreenH - p.h) \in Int
  BY <1>1, Sizes DEF AtMost, AtLeast, Box
<1>3. Dragged(p, ox, oy, m) \in Box
  BY <1>2 DEF Dragged, Box
<1>4. Fits(p) => Fits(Dragged(p, ox, oy, m))
  BY <1>1, <1>2, Sizes DEF Dragged, Fits, AtMost, AtLeast, Box
<1> QED
  BY <1>3, <1>4

(* The new height leaves the bottom edge on the screen. *)
LEMMA TallerFits ==
  ASSUME NEW p \in Box, NEW oy \in Int, NEW m \in Pointer
  PROVE  /\ Taller(p, oy, m) \in Int
         /\ Fits(p) => /\ Taller(p, oy, m) >= MinH
                       /\ p.y + Taller(p, oy, m) <= ScreenH
<1>1. m[1] \in Int /\ m[2] \in Int
  BY PointerIsInt
<1> QED
  BY <1>1, Sizes DEF Taller, Fits, AtMost, AtLeast, Box

LEMMA StretchedRightFits ==
  ASSUME NEW p \in Box, NEW ox \in Int, NEW oy \in Int, NEW m \in Pointer
  PROVE  /\ StretchedRight(p, ox, oy, m) \in Box
         /\ Fits(p) => Fits(StretchedRight(p, ox, oy, m))
<1>1. m[1] \in Int /\ m[2] \in Int
  BY PointerIsInt
<1> DEFINE w == AtMost(AtLeast(m[1] + ox - p.x, MinW), ScreenW - p.x)
<1>2. w \in Int /\ (Fits(p) => w >= MinW /\ p.x + w <= ScreenW)
  BY <1>1, Sizes DEF Fits, AtMost, AtLeast, Box
<1>3. StretchedRight(p, ox, oy, m) = [p EXCEPT !.w = w, !.h = Taller(p, oy, m)]
  BY DEF StretchedRight
<1> HIDE DEF w
<1> QED
  BY <1>2, <1>3, TallerFits DEF Fits, Box

LEMMA StretchedLeftFits ==
  ASSUME NEW p \in Box, NEW oy \in Int, NEW m \in Pointer
  PROVE  /\ StretchedLeft(p, oy, m) \in Box
         /\ Fits(p) => Fits(StretchedLeft(p, oy, m))
<1>1. m[1] \in Int /\ m[2] \in Int
  BY PointerIsInt
<1> DEFINE x == AtMost(AtLeast(m[1], 0), p.x + p.w - MinW)
<1>2. x \in Int /\ (Fits(p) => x >= 0 /\ x <= p.x + p.w - MinW)
  BY <1>1, Sizes DEF Fits, AtMost, AtLeast, Box
<1> DEFINE w == p.x + p.w - x
           h == Taller(p, oy, m)
<1>3. StretchedLeft(p, oy, m) = [p EXCEPT !.x = x, !.w = w, !.h = h]
  BY DEF StretchedLeft
<1>4. w \in Int /\ (Fits(p) => w >= MinW /\ x + w <= ScreenW)
  BY <1>2, Sizes DEF Fits, Box
<1>5. h \in Int /\ (Fits(p) => h >= MinH /\ p.y + h <= ScreenH)
  BY TallerFits
<1> HIDE DEF x, w, h
<1>6. StretchedLeft(p, oy, m) \in Box
  BY <1>2, <1>3, <1>4, <1>5 DEF Box
<1>7. Fits(p) => Fits(StretchedLeft(p, oy, m))
  BY <1>2, <1>3, <1>4, <1>5 DEF Fits, Box
<1> QED
  BY <1>6, <1>7

(* What is held follows the pointer on the screen. *)
LEMMA FollowFits ==
  ASSUME PlaceTypeOK, NEW m \in Pointer,
         NEW h \in [by : {"nothing", "title", "left", "right"}, ox : Int, oy : Int]
  PROVE  Follow(h, m) \in Box /\ (Fits(place) => Fits(Follow(h, m)))
<1>1. place \in Box /\ h.ox \in Int /\ h.oy \in Int
  BY DEF PlaceTypeOK
<1>2. CASE maximized
  BY <1>1, <1>2 DEF Follow
<1>3. CASE ~maximized /\ h.by = "title"
  BY <1>1, <1>3, DraggedFits DEF Follow
<1>4. CASE ~maximized /\ h.by = "right"
  BY <1>1, <1>4, StretchedRightFits DEF Follow
<1>5. CASE ~maximized /\ h.by = "left"
  BY <1>1, <1>5, StretchedLeftFits DEF Follow
<1>6. CASE ~maximized /\ h.by = "nothing"
  BY <1>1, <1>6 DEF Follow
<1> QED
  BY <1>2, <1>3, <1>4, <1>5, <1>6

-------------------------------------------------------------------------------
(* The place of a grab is what the pointer then holds. *)
LEMMA GrabHolds ==
  ASSUME PlaceTypeOK, NEW m \in Pointer, Grab(m)
  PROVE  /\ held' \in [by : {"nothing", "title", "left", "right"}, ox : Int, oy : Int]
         /\ place' = Follow(held', m)
<1>1. m[1] \in Int /\ m[2] \in Int /\ place \in Box
  BY PointerIsInt DEF PlaceTypeOK
<1>2. PICK by \in {"title", "left", "right"} :
        LET o == IF by = "title" THEN <<m[1] - place.x, m[2] - place.y>>
                 ELSE <<place.x + place.w - m[1], place.y + place.h - m[2]>>
        IN  held' = [by |-> by, ox |-> o[1], oy |-> o[2]] /\ place' = Follow(held', m)
  BY DEF Grab
<1> DEFINE o == IF by = "title" THEN <<m[1] - place.x, m[2] - place.y>>
                ELSE <<place.x + place.w - m[1], place.y + place.h - m[2]>>
<1>3. o[1] \in Int /\ o[2] \in Int
  BY <1>1 DEF Box
<1>4. held' = [by |-> by, ox |-> o[1], oy |-> o[2]] /\ place' = Follow(held', m)
  BY <1>2
<1> HIDE DEF o
<1> QED
  BY <1>3, <1>4

LEMMA PlaceTypeStep == PlaceTypeOK /\ [PlaceNext]_placeVars => PlaceTypeOK'
<1> SUFFICES ASSUME PlaceTypeOK, [PlaceNext]_placeVars PROVE PlaceTypeOK'
  OBVIOUS
<1>1. CASE Release
  BY <1>1 DEF Release, PlaceTypeOK, Free
<1>2. CASE Minimize
  BY <1>2 DEF Minimize, PlaceTypeOK
<1>3. CASE Maximize
  <2>1. [x |-> 0, y |-> MenuH, w |-> ScreenW, h |-> ScreenH - MenuH] \in Box
    BY Sizes DEF Box
  <2> QED
    BY <1>3, <2>1 DEF Maximize, PlaceTypeOK
<1>4. CASE CloseSlot
  BY <1>4 DEF CloseSlot, PlaceTypeOK
<1>5. CASE OpenSlot
  BY <1>5, Sizes DEF OpenSlot, PlaceTypeOK
<1>6. ASSUME NEW m \in Pointer, Grab(m) PROVE PlaceTypeOK'
  <2>1. place' \in Box /\ held' \in [by : {"nothing", "title", "left", "right"}, ox : Int, oy : Int]
    BY <1>6, GrabHolds, FollowFits
  <2> QED
    BY <1>6, <2>1 DEF Grab, PlaceTypeOK
<1>7. ASSUME NEW m \in Pointer, MoveHeld(m) PROVE PlaceTypeOK'
  <2>1. place' \in Box
    BY <1>7, FollowFits DEF MoveHeld, PlaceTypeOK
  <2> QED
    BY <1>7, <2>1 DEF MoveHeld, PlaceTypeOK
<1>8. CASE UNCHANGED placeVars
  BY <1>8 DEF placeVars, PlaceTypeOK
<1> QED
  BY <1>1, <1>2, <1>3, <1>4, <1>5, <1>6, <1>7, <1>8 DEF PlaceNext

(* The variables keep their types. *)
THEOREM PlaceTypeIsKept == PlaceSpec => []PlaceTypeOK
<1>1. PlaceInit => PlaceTypeOK
  <2>1. [x |-> 0, y |-> 0, w |-> 0, h |-> 0] \in Box
    BY DEF Box
  <2>2. Free \in [by : {"nothing", "title", "left", "right"}, ox : Int, oy : Int]
    BY DEF Free
  <2> QED
    BY Sizes, <2>1, <2>2 DEF PlaceInit, PlaceTypeOK
<1> QED
  BY <1>1, PlaceTypeStep, PTL DEF PlaceSpec

LEMMA OnScreenStep ==
  ASSUME PlaceTypeOK, PlaceNext, active, active', OnScreen
  PROVE  OnScreen'
<1> USE DEF OnScreen
<1>1. CASE Release
  BY <1>1 DEF Release, Fits
<1>2. CASE Minimize
  BY <1>2 DEF Minimize, Fits
<1>3. CASE Maximize
  <2>1. Fits([x |-> 0, y |-> MenuH, w |-> ScreenW, h |-> ScreenH - MenuH])
    BY Sizes DEF Fits
  <2>2. CASE ~maximized
    BY <1>3, <2>1, <2>2 DEF Maximize, Fits
  <2>3. CASE maximized
    BY <1>3, <2>3 DEF Maximize, Fits
  <2> QED
    BY <2>2, <2>3
<1>4. CASE CloseSlot \/ OpenSlot
  BY <1>4 DEF CloseSlot, OpenSlot
<1>5. ASSUME NEW m \in Pointer, Grab(m) PROVE OnScreen'
  <2>1. Fits(Follow(held', m)) /\ place' = Follow(held', m)
    BY <1>5, GrabHolds, FollowFits
  <2> QED
    BY <1>5, <2>1 DEF Grab, Fits
<1>6. ASSUME NEW m \in Pointer, MoveHeld(m) PROVE OnScreen'
  <2>1. Fits(Follow(held, m)) /\ place' = Follow(held, m)
    BY <1>6, FollowFits DEF MoveHeld, PlaceTypeOK
  <2> QED
    BY <1>6, <2>1 DEF MoveHeld, Fits
<1> QED
  BY <1>1, <1>2, <1>3, <1>4, <1>5, <1>6 DEF PlaceNext

(* On a screen of any size, a window that lies on it stays there, with what it
   will be restored to. *)
THEOREM WindowsStay == PlaceSpec => WindowsStayOnScreen
<1>1. PlaceTypeOK /\ [PlaceNext]_placeVars
        => [active /\ active' /\ OnScreen => OnScreen']_placeVars
  <2> SUFFICES ASSUME PlaceTypeOK, PlaceNext, active, active', OnScreen PROVE OnScreen'
    OBVIOUS
  <2> QED
    BY OnScreenStep
<1> QED
  BY <1>1, PlaceTypeIsKept, PTL DEF PlaceSpec, WindowsStayOnScreen
===============================================================================
