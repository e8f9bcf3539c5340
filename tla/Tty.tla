---------------------------------- MODULE Tty ----------------------------------
(***************************************************************************)
(* The virtual terminals of shell/tty.c and their switch in shell/shell.c. *)
(* What a user has in a terminal is spread over the shell's globals, the   *)
(* variables of terminal.c, the video memory and the video card, none of   *)
(* which knows of terminals; a switch copies it piece by piece.            *)
(***************************************************************************)
EXTENDS Integers, Sequences, SequencesExt

CONSTANTS TtyMax,    \* TTY_MAX
          Values,    \* of each piece of what a terminal has
          MaxScript  \* bound: lines in A:.VAR/tty.var

ASSUME TtyAssumption == TtyMax \in Nat \ {0} /\ 0 \in Values /\ MaxScript \in Nat

Ttys == 0 .. TtyMax - 1

VARIABLES now,      \* [shell |-> drive, directories, prompt, history: the shell's globals,
                    \*  colour, pos |-> terminal.c's colours and cursor,
                    \*  picture, hw |-> video memory and the card's cursor]
          kept,     \* ttys[n]: shell, colour, picture, hw
          current, active, killed, started,
          runCmd,   \* the terminals with a command to run when they are first entered
          seen,     \* history: what was there when the user was last in a terminal
          ran       \* history: how often each start-up command ran

ttyVars == <<now, kept, current, active, killed, started, runCmd, seen, ran>>

Saved(s)       == [shell |-> s.shell, colour |-> s.colour, picture |-> s.picture, hw |-> s.hw]
Restored(k, s) == [shell |-> k.shell, colour |-> k.colour, picture |-> k.picture,
                   hw |-> k.hw, pos |-> s.pos]

-------------------------------------------------------------------------------
(* The lines of tty.var; goto looks at the lines above it only. *)
Lines ==
  ({"start", "kill"} \X (Ttys \ {0})) \cup ({"run", "goto"} \X Ttys)

ParseLine(t, line) ==
  LET n == line[2] IN
  CASE line[1] = "start" -> [t EXCEPT !.active = @ \cup {n}]
    [] line[1] = "kill"  -> [t EXCEPT !.killed = @ \cup {n}, !.active = @ \ {n}]
    [] line[1] = "run"   -> [t EXCEPT !.runCmd = @ \cup {n}]
    [] OTHER -> IF n \in t.active \ t.killed THEN [t EXCEPT !.current = n] ELSE t

Parse(script) ==
  FoldLeft(ParseLine, [active |-> {0}, killed |-> {}, runCmd |-> {}, current |-> 0], script)

(* What a command may change: the shell's state, the colours, the screen.  All
   output moves the card's cursor to terminal.c's. *)
Changed(s) ==
  {[s EXCEPT !.shell = v] : v \in Values} \cup {[s EXCEPT !.colour = v] : v \in Values}
  \cup {[s EXCEPT !.picture = v, !.pos = w, !.hw = w] : v \in Values, w \in Values}

(* tty_run_init, and the command if this is the first time. *)
RunInit(n, s) ==
  LET runs == n \notin started /\ n \in runCmd
  IN  /\ started' = started \cup {n}
      /\ ran' = IF runs THEN [ran EXCEPT ![n] = @ + 1] ELSE ran
      /\ now' \in (IF runs THEN Changed(s) ELSE {s})
      /\ seen' = IF runs THEN [seen EXCEPT ![n] = Saved(now')] ELSE seen

Fresh == [shell |-> 0, colour |-> 0, picture |-> 0, hw |-> 0]

TtyInit ==
  \E script \in UNION {[1 .. k -> Lines] : k \in 0 .. MaxScript} :
    LET t == Parse(script) IN
    /\ current = t.current /\ active = t.active /\ killed = t.killed /\ runCmd = t.runCmd
    /\ kept = [n \in Ttys |-> Fresh] /\ seen = [n \in Ttys |-> Fresh]
    /\ now = Restored(Fresh, [pos |-> 0])
    /\ started = {} /\ ran = [n \in Ttys |-> 0]

(* shell_run begins, in the terminal that tty.var chose. *)
Boot ==
  /\ started = {}
  /\ RunInit(current, now)
  /\ UNCHANGED <<kept, current, active, killed, runCmd>>

Command ==
  /\ started # {}
  /\ now' \in Changed(now) /\ seen' = [seen EXCEPT ![current] = Saved(now')]
  /\ UNCHANGED <<kept, current, active, killed, started, runCmd, ran>>

(* A mistake the properties have to catch: the state is saved after the switch. *)
SaveCurrent_Late(n) == kept' = [kept EXCEPT ![n] = Saved(now)]

(* tty_save_shell_state and tty_save. *)
SaveCurrent(n) == kept' = [kept EXCEPT ![current] = Saved(now)]

Switch(n) ==
  /\ started # {} /\ n # current /\ n \in active \ killed
  /\ SaveCurrent(n)
  /\ current' = n
  /\ RunInit(n, Restored(kept[n], now))
  /\ UNCHANGED <<active, killed, runCmd>>

(* The screen is restored and a message follows. *)
SwitchRefused(n) ==
  /\ started # {} /\ n # current /\ n \notin active \ killed
  /\ SaveCurrent(n)
  /\ \E v \in Values, w \in Values :
       now' = [now EXCEPT !.picture = v, !.pos = w, !.hw = w]
  /\ seen' = [seen EXCEPT ![current] = Saved(now')]
  /\ UNCHANGED <<current, active, killed, started, runCmd, ran>>

TtyNext ==
  \/ Boot \/ Command
  \/ \E n \in Ttys : Switch(n) \/ SwitchRefused(n)

TtySpec == TtyInit /\ [][TtyNext]_ttyVars

-------------------------------------------------------------------------------
(* Whatever is switched to and in what order, a terminal has what its user
   left in it: drive, directories, prompt, history, colours and screen; and
   its start-up command runs once (shell/shell.c:1389, shell/tty.c:205). *)
TerminalsAreKept ==
  /\ Saved(now) = seen[current]
  /\ \A n \in Ttys \ {current} : kept[n] = seen[n]
  /\ \A n \in Ttys : ran[n] = (IF n \in started \cap runCmd THEN 1 ELSE 0)
===============================================================================
