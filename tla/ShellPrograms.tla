----------------------------- MODULE ShellPrograms -----------------------------
(***************************************************************************)
(* The programs that have the text screen and the keyboard to themselves:  *)
(* the shell's line, the switch of terminals, the editor and the           *)
(* hexadecimal editor.  They share no variable that their properties are   *)
(* about; `program' is the one that runs.                                  *)
(***************************************************************************)
EXTENDS Readline, Tty, Edit, Hexdump

VARIABLE program

shellVars == <<readlineVars, ttyVars, editVars, hxVars, program>>

Runs(name, A, others) == program = name /\ A /\ UNCHANGED <<others, program>>

(* Of a program that does not run, one initial state is enough. *)
ShellInit ==
  /\ program \in {"readline", "tty", "edit", "hexdump"}
  /\ ReadlineInit /\ TtyInit /\ EditInit /\ HexInit
  /\ program # "tty" => current = 0 /\ active = {0} /\ killed = {} /\ runCmd = {}
  /\ program # "edit" => edFile = CHOOSE f \in EdFiles : TRUE
  /\ program # "hexdump" => hx.size = CHOOSE k \in HxSizes : TRUE

ShellNext ==
  \/ Runs("readline", ReadlineNext, <<ttyVars, editVars, hxVars>>)
  \/ Runs("tty", TtyNext, <<readlineVars, editVars, hxVars>>)
  \/ Runs("edit", EditNext, <<readlineVars, ttyVars, hxVars>>)
  \/ Runs("hexdump", HexNext, <<readlineVars, ttyVars, editVars>>)

ShellSpec == ShellInit /\ [][ShellNext]_shellVars
===============================================================================
