---------------------------- MODULE DesktopPrograms ----------------------------
(***************************************************************************)
(* The desktop: its windows, the place of one of them, and the programs    *)
(* with state of their own.  They share no variable that their properties  *)
(* are about; `part' is the one that the user is busy with.                *)
(***************************************************************************)
EXTENDS GuiEdit, Minesweeper, Desktop, WinPlace

VARIABLE part

desktopVars == <<guiEditVars, msVars, deskVars, placeVars, part>>

Busy(name, A, others) == part = name /\ A /\ UNCHANGED <<others, part>>

(* Of a part that rests, one initial state is enough. *)
DesktopInit ==
  /\ part \in {"editor", "mines", "windows", "place"}
  /\ GuiEditInit /\ MsInit /\ DeskInit /\ PlaceInit
  /\ part # "editor" => gFile = (CHOOSE f \in GuiFiles : TRUE) /\ vis = CHOOSE v \in GuiViews : TRUE
  /\ part # "place" => place = CHOOSE p \in Opened : TRUE

DesktopNext ==
  \/ Busy("editor", GuiEditNext, <<msVars, deskVars, placeVars>>)
  \/ Busy("mines", MsNext, <<guiEditVars, deskVars, placeVars>>)
  \/ Busy("windows", DeskNext, <<guiEditVars, msVars, placeVars>>)
  \/ Busy("place", PlaceNext, <<guiEditVars, msVars, deskVars>>)

DesktopSpec == DesktopInit /\ [][DesktopNext]_desktopVars
===============================================================================
