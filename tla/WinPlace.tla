------------------------------- MODULE WinPlace -------------------------------
(***************************************************************************)
(* One slot of windows[] of gui/balloon.c: the place of the window in it,  *)
(* as it is dragged, resized, minimized and maximized, closed, and its     *)
(* slot used again.                                                        *)
(***************************************************************************)
EXTENDS Integers

CONSTANTS ScreenW, ScreenH,  \* VGA12_W, VGA12_H
          MenuH, TitleH,     \* MENUBAR_H, TITLEBAR_H
          MinW, MinH,        \* WIN_MIN_W, WIN_MIN_H
          Opened             \* the places balloon_open is called with

Box == [x : Int, y : Int, w : Int, h : Int]

ASSUME PlaceAssumption ==
  /\ {ScreenW, ScreenH, MenuH, TitleH, MinW, MinH} \subseteq Nat
  /\ MinW <= ScreenW /\ MenuH + MinH <= ScreenH
  /\ Opened \subseteq Box

VARIABLES place,      \* x, y, w, h
          saved,      \* saved_x, saved_y, saved_w, saved_h
          minimized, maximized,
          held,       \* [by |-> "nothing", "title", "left" or "right", ox, oy]
          active

placeVars == <<place, saved, minimized, maximized, held, active>>

Free    == [by |-> "nothing", ox |-> 0, oy |-> 0]
Pointer == (0 .. ScreenW - 1) \X (0 .. ScreenH - 1)

PlaceInit ==
  /\ place \in Opened /\ saved = [x |-> 0, y |-> 0, w |-> 0, h |-> 0]
  /\ minimized = FALSE /\ maximized = FALSE /\ held = Free /\ active = TRUE

-------------------------------------------------------------------------------
AtLeast(a, low)  == IF a < low THEN low ELSE a
AtMost(a, high)  == IF a > high THEN high ELSE a

(* A mistake the properties have to catch: the place is kept off the left and
   the top before it is kept off the right and the bottom, and not after. *)
Dragged_Loose(p, ox, oy, m) ==
  [p EXCEPT !.x = AtLeast(m[1] - ox, 0), !.y = AtLeast(m[2] - oy, MenuH)]

Dragged(p, ox, oy, m) ==
  [p EXCEPT !.x = AtMost(AtLeast(m[1] - ox, 0), ScreenW - p.w),
            !.y = AtMost(AtLeast(m[2] - oy, MenuH), ScreenH - p.h)]

Taller(p, oy, m) == AtMost(AtLeast(m[2] + oy - p.y, MinH), ScreenH - p.y)

StretchedRight(p, ox, oy, m) ==
  [p EXCEPT !.w = AtMost(AtLeast(m[1] + ox - p.x, MinW), ScreenW - p.x), !.h = Taller(p, oy, m)]

StretchedLeft(p, oy, m) ==
  LET x == AtMost(AtLeast(m[1], 0), p.x + p.w - MinW)
  IN  [p EXCEPT !.x = x, !.w = p.x + p.w - x, !.h = Taller(p, oy, m)]

(* What a turn of the loop with the button down does to what is held. *)
Follow(h, m) ==
  IF maximized THEN place
  ELSE CASE h.by = "title" -> Dragged(place, h.ox, h.oy, m)
         [] h.by = "right" -> StretchedRight(place, h.ox, h.oy, m)
         [] h.by = "left"  -> StretchedLeft(place, h.oy, m)
         [] OTHER          -> place

-------------------------------------------------------------------------------
(* A press on the title bar or a corner, and the rest of that turn. *)
Grab(m) ==
  /\ active
  /\ \E by \in {"title", "left", "right"} :
       LET o == IF by = "title" THEN <<m[1] - place.x, m[2] - place.y>>
                ELSE <<place.x + place.w - m[1], place.y + place.h - m[2]>>
       IN  /\ by = "title" => m[1] \in place.x .. place.x + place.w - 1
                              /\ m[2] \in place.y .. place.y + TitleH - 1
           /\ by # "title" => ~minimized /\ m[1] \in place.x .. place.x + place.w - 1
                              /\ m[2] \in place.y .. place.y + place.h - 1
           /\ held' = [by |-> by, ox |-> o[1], oy |-> o[2]]
           /\ place' = Follow(held', m)
  /\ UNCHANGED <<saved, minimized, maximized, active>>

MoveHeld(m) ==
  /\ held # Free /\ place' = Follow(held, m)
  /\ UNCHANGED <<saved, minimized, maximized, held, active>>

Release == held' = Free /\ UNCHANGED <<place, saved, minimized, maximized, active>>

Minimize ==
  /\ active /\ minimized' = ~minimized
  /\ UNCHANGED <<place, saved, maximized, held, active>>

Maximize ==
  /\ active
  /\ IF ~maximized
     THEN saved' = place /\ place' = [x |-> 0, y |-> MenuH, w |-> ScreenW, h |-> ScreenH - MenuH]
     ELSE place' = saved /\ UNCHANGED saved
  /\ maximized' = ~maximized /\ minimized' = FALSE
  /\ UNCHANGED <<held, active>>

(* balloon_close and balloon_open: the next window in the slot is as minimized
   or maximized as the last. *)
CloseSlot ==
  /\ active /\ active' = FALSE
  /\ UNCHANGED <<place, saved, minimized, maximized, held>>

OpenSlot ==
  /\ ~active /\ active' = TRUE /\ place' \in Opened
  /\ UNCHANGED <<saved, minimized, maximized, held>>

PlaceNext ==
  \/ Release \/ Minimize \/ Maximize \/ CloseSlot \/ OpenSlot
  \/ \E m \in Pointer : Grab(m) \/ MoveHeld(m)

PlaceSpec == PlaceInit /\ [][PlaceNext]_placeVars

-------------------------------------------------------------------------------
(* The window lies on the desktop and is no smaller than it may be. *)
Fits(p) ==
  /\ p.x >= 0 /\ p.x + p.w <= ScreenW /\ p.w >= MinW
  /\ p.y >= MenuH /\ p.y + p.h <= ScreenH /\ p.h >= MinH

(* Where it is, and where it will be when it is restored. *)
OnScreen == Fits(place) /\ (maximized => Fits(saved))

(* No drag, resize, minimizing or maximizing takes a window, or what it will be
   restored to, off the desktop, whatever was pressed and wherever the pointer
   went since; only opening another does (gui/balloon.c:2513, :2568, :2360). *)
WindowsStayOnScreen == [][active /\ active' /\ OnScreen => OnScreen']_placeVars
===============================================================================
