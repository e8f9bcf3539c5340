-------------------------------- MODULE Desktop --------------------------------
(***************************************************************************)
(* The windows of gui/balloon.c and the loop that gives them the mouse and *)
(* the keyboard.  windows[] is in the order in which the windows are drawn *)
(* and closing or raising one moves others to other places, so each        *)
(* program's handle has to move along.  Where the pointer is, is one of    *)
(* the things a hit test may find there; what a window's own place, drag,  *)
(* minimized and maximized do is in WinPlace.                              *)
(* An icon's first click only selects it: a click opens its window or not. *)
(***************************************************************************)
EXTENDS Integers, Sequences, FiniteSets

CONSTANTS MaxWindows,  \* BALLOON_MAX_WINDOWS
          Programs     \* bound: the icons in use, of those below; "net" is "Painel de Rede"

ASSUME DesktopAssumption ==
  /\ MaxWindows \in Nat \ {0}
  /\ Programs \subseteq {"term", "files", "net", "browser", "mines", "editor", "about"}

Slots == 0 .. MaxWindows - 1

(* kind is the title; "none" where active is 0. *)
VARIABLES desk,  \* [kind |-> of each slot, num |-> num_windows,
                 \*  gt, fexp, br, ed, ms |-> the programs' win_id,
                 \*  ctx |-> "no" or what the menu was opened on, ctxWin |-> ctx_win_id,
                 \*  drop |-> dropdown_open, left, right |-> btn_prev]
          state, \* "up", or "returned" from balloon_run: the machine restarts
          nested \* history: `balloon' was typed in the graphical terminal

deskVars == <<desk, state, nested>>

NoHandle == -1
Active(s, i) == i \in Slots /\ s.kind[i] # "none"

HandleOf == [term |-> "gt", files |-> "fexp", browser |-> "br", editor |-> "ed", mines |-> "ms"]

-------------------------------------------------------------------------------
(* balloon_open *)
Open(s, kind) ==
  IF s.num >= MaxWindows THEN s
  ELSE [s EXCEPT !.kind[s.num] = kind, !.num = @ + 1]

(* The handle h is the window just opened, if there was room. *)
Given(s, opened, h) == IF opened.num > s.num THEN [opened EXCEPT ![h] = s.num] ELSE opened

(* find_window_for_icon *)
WindowsOf(s, kind) == {i \in Slots : s.kind[i] = kind}

(* icon_open_window *)
OpenIcon(s, kind) ==
  IF WindowsOf(s, kind) # {} THEN s
  ELSE IF kind \in DOMAIN HandleOf THEN Given(s, Open(s, kind), HandleOf[kind])
  ELSE Open(s, kind)

(* A mistake the properties have to catch: the browser's and the editor's
   handles do not follow the window that fills the hole. *)
Close_Unfollowed(s, i) ==
  IF ~Active(s, i) \/ i >= s.num THEN s
  ELSE LET last == s.num - 1
           move(h, follows) == IF h = i THEN NoHandle ELSE IF h = last /\ follows THEN i ELSE h
       IN  [s EXCEPT !.num = last,
              !.kind = [@ EXCEPT ![i] = s.kind[last], ![last] = "none"],
              !.gt = move(@, TRUE), !.fexp = move(@, TRUE),
              !.br = move(@, FALSE), !.ed = move(@, FALSE)]

(* balloon_close: the last window fills the hole.  ms_win_id moves with its
   window and is never taken back. *)
Close(s, i) ==
  IF ~Active(s, i) \/ i >= s.num THEN s
  ELSE LET last == s.num - 1
           move(h) == IF h = i THEN NoHandle ELSE IF h = last THEN i ELSE h
       IN  [s EXCEPT !.num = last,
              !.kind = [@ EXCEPT ![i] = s.kind[last], ![last] = "none"],
              !.gt = move(@), !.fexp = move(@), !.br = move(@), !.ed = move(@),
              !.ms = IF i < last /\ @ = last THEN i ELSE @]

(* bring_to_front *)
BringToFront(s, i) ==
  LET last == s.num - 1
      from(j) == IF j \in i .. last - 1 THEN j + 1 ELSE IF j = last THEN i ELSE j
      move(h) == IF h = i THEN last ELSE IF h > i THEN h - 1 ELSE h
  IN  IF i \notin 0 .. last - 1 THEN s
      ELSE [s EXCEPT !.kind = [j \in Slots |-> s.kind[from(j)]],
                     !.gt = move(@), !.fexp = move(@), !.br = move(@),
                     !.ed = move(@), !.ms = move(@)]

-------------------------------------------------------------------------------
(* What the pointer may be on. *)
Targets(s) ==
  ({"menu", "quit", "about", "dropdown", "desktop"} \X {NoHandle})
  \cup ({"close", "corner", "title", "content", "entry"}
        \X {i \in Slots : Active(s, i)})
  \cup ({"dock", "icon"} \X Programs)

(* ctx_build: an entry of the explorer, a window, or the desktop. *)
Menus(s, t) ==
  IF t[1] \in {"dock", "icon"} THEN {[s EXCEPT !.ctx = "desktop", !.ctxWin = NoHandle]}
  ELSE IF t[1] = "entry" /\ t[2] = s.fexp
  THEN {[s EXCEPT !.ctx = on, !.ctxWin = s.fexp] : on \in {"file", "dir"}}
  ELSE IF Active(s, t[2]) THEN {[s EXCEPT !.ctx = "window", !.ctxWin = t[2]]}
  ELSE {[s EXCEPT !.ctx = "desktop", !.ctxWin = NoHandle]}

(* A right press: the mines' window has priority, unless it is minimized. *)
RightPress(s, t) ==
  Menus(s, t) \cup (IF t[1] = "content" /\ t[2] = s.ms THEN {s} ELSE {})

(* ctx_execute, or no item. *)
Executed(s) ==
  {s} \cup
  CASE s.ctx = "file"   -> {Close(s, s.ctxWin),
                            IF Active(s, s.ed) THEN s ELSE Given(s, Open(s, "editor"), "ed")}
    [] s.ctx \in {"dir", "window"} -> {Close(s, s.ctxWin)}
    [] OTHER            -> {Given(s, Open(s, "editor"), "ed")}

(* The chain of tests of a left press, down to done_click.  The menu's first
   item is hit_dd_about, but the icon it opens, 2, is that of the network. *)
LeftPress(s, t) ==
  CASE t[1] = "menu"  -> {[s EXCEPT !.drop = ~@]}
    [] s.drop /\ t[1] = "about"    -> {OpenIcon([s EXCEPT !.drop = FALSE], "net")}
    [] s.drop /\ t[1] = "dropdown" -> {s}
    [] s.drop /\ t[1] \notin {"menu", "about", "dropdown"} -> {[s EXCEPT !.drop = FALSE]}
    [] ~s.drop /\ t[1] = "close"   -> {Close(s, t[2])}
    [] ~s.drop /\ t[1] \in {"corner", "title"} -> {BringToFront(s, t[2])}
    [] ~s.drop /\ t[1] = "dock"    ->
         (IF WindowsOf(s, t[2]) = {} THEN {OpenIcon(s, t[2])}
          ELSE LET i == CHOOSE i \in WindowsOf(s, t[2]) : \A j \in WindowsOf(s, t[2]) : i <= j
               IN  {BringToFront(s, i)})
    [] ~s.drop /\ t[1] = "icon"    -> {s, OpenIcon(s, t[2])}
    [] OTHER -> {s}

(* "Quit": balloon_run returns to prog_balloon, which restarts the machine,
   also when `balloon' was typed in the graphical terminal. *)
Quit(s, t) ==
  /\ s.drop /\ t[1] = "quit"
  /\ state' = "returned" /\ desk' = [s EXCEPT !.drop = FALSE]

(* One turn of the loop with the mouse moved or a button changed. *)
Mouse(l, r) ==
  LET s     == desk
      pl    == l /\ ~s.left
      pr    == r /\ ~s.right
      seen(x) == [x EXCEPT !.left = l, !.right = r]
      shut(x) == [x EXCEPT !.ctx = "no", !.ctxWin = NoHandle]
  IN
  \/ /\ s.ctx # "no" /\ pl
     /\ \E x \in Executed(s) : desk' = seen(shut(x))
     /\ UNCHANGED state
  \/ s.ctx # "no" /\ ~pl /\ pr /\ desk' = seen(shut(s)) /\ UNCHANGED state
  \/ /\ s.ctx = "no" \/ (~pl /\ ~pr)
     /\ \E t \in Targets(s) :
          /\ pl \/ pr \/ t = <<"desktop", NoHandle>>
          /\ \E x \in (IF pr THEN RightPress(s, t) ELSE {s}) :
               \/ pl /\ Quit(x, t)
               \/ /\ ~(pl /\ x.drop /\ t[1] = "quit")
                  /\ \E y \in (IF pl THEN LeftPress(x, t) ELSE {x}) : desk' = seen(y)
                  /\ UNCHANGED state

-------------------------------------------------------------------------------
(* The keyboard: the terminal has the keys, then the browser, then the editor. *)
EscKey(s) ==
  IF Active(s, s.gt) THEN Close([s EXCEPT !.gt = NoHandle], s.gt)
  ELSE IF Active(s, s.br) \/ Active(s, s.ed) THEN s
  ELSE IF s.drop THEN [s EXCEPT !.drop = FALSE]
  ELSE Close(s, s.num - 1)

CtrlQ(s) ==
  IF ~Active(s, s.gt) /\ ~Active(s, s.br) /\ Active(s, s.ed) THEN Close(s, s.ed) ELSE s

(* balloon_init and the window of welcome: the browser, the editor and the
   mines are not told. *)
Started(s) ==
  Open([s EXCEPT !.kind = [i \in Slots |-> "none"], !.num = 0, !.drop = FALSE,
                 !.gt = NoHandle, !.fexp = NoHandle, !.left = FALSE, !.right = FALSE], "welcome")

Key ==
  /\ UNCHANGED state
  /\ \/ desk' \in {EscKey(desk), CtrlQ(desk)} /\ UNCHANGED nested
     \/ Active(desk, desk.gt) /\ desk' = Started(desk) /\ nested' = TRUE

DeskInit ==
  /\ desk = Started([kind |-> [i \in Slots |-> "none"], num |-> 0, gt |-> NoHandle,
                     fexp |-> NoHandle, br |-> NoHandle, ed |-> NoHandle, ms |-> NoHandle,
                     ctx |-> "no", ctxWin |-> NoHandle, drop |-> FALSE,
                     left |-> FALSE, right |-> FALSE])
  /\ state = "up" /\ nested = FALSE

DeskNext ==
  /\ state = "up"
  /\ \/ Key
     \/ \E l, r \in BOOLEAN : Mouse(l, r) /\ UNCHANGED nested

DeskSpec == DeskInit /\ [][DeskNext]_deskVars

-------------------------------------------------------------------------------
(* However windows are opened, closed and raised, a program's keys and clicks
   go to its own window: its handle denotes an active window of its kind or
   none.  The windows fill the slots from the first.  The mines' handle, and
   after `balloon' within the desktop the browser's and the editor's, are no
   part of the promise (gui/balloon.c:2044, :2181). *)
ProgramsKeepTheirWindows ==
  /\ \A i \in Slots : Active(desk, i) <=> i < desk.num
  /\ desk.gt   # NoHandle => Active(desk, desk.gt) /\ desk.kind[desk.gt] = "term"
  /\ desk.fexp # NoHandle => Active(desk, desk.fexp) /\ desk.kind[desk.fexp] = "files"
  /\ ~nested /\ desk.br # NoHandle => Active(desk, desk.br) /\ desk.kind[desk.br] = "browser"
  /\ ~nested /\ desk.ed # NoHandle => Active(desk, desk.ed) /\ desk.kind[desk.ed] = "editor"
===============================================================================
