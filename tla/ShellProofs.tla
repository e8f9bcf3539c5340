------------------------------ MODULE ShellProofs ------------------------------
(***************************************************************************)
(* The programs that have the text screen to themselves keep what they     *)
(* promise for every size of the screen and every length of a line: the    *)
(* shell's line is shown as it is, a terminal is left and found again as   *)
(* it was, the cursor of the hexadecimal editor stays in view.             *)
(***************************************************************************)
EXTENDS ShellPrograms, TLAPS, WellFoundedInduction, SequenceTheorems, FiniteSetTheorems

LEMMA Division ==
  ASSUME NEW a \in Nat, NEW k \in Nat, k > 0
  PROVE  a \div k \in Nat /\ k * (a \div k) <= a /\ a < k * (a \div k) + k
BY SMT

LEMMA LeastNat ==
  ASSUME NEW T, T \subseteq Nat, T # {}
  PROVE  \E x \in T : \A y \in T : x <= y
<1> DEFINE R == {ss \in Nat \X Nat : ss[1] < ss[2]}
<1>1. IsWellFoundedOn(R, Nat)
  BY NatLessThanWellFounded, Zenon DEF OpToRel
<1>2. \A x, y \in Nat : <<y, x>> \in R <=> y < x
  OBVIOUS
<1> HIDE DEF R
<1>3. \E x \in T : \A y \in T : ~ (<<y, x>> \in R)
  BY <1>1, WFMin
<1>4. PICK x \in T : \A y \in T : ~ (<<y, x>> \in R)
  BY <1>3
<1>5. \A y \in T : ~ (y < x)
  BY <1>2, <1>4
<1>6. \A y \in T : x <= y
  <2> TAKE y \in T
  <2>1. x \in Nat /\ y \in Nat /\ ~ (y < x)
    BY <1>5
  <2> QED
    BY <2>1
<1> QED
  BY <1>6

(* A set with 0 and with every successor, up to N, has all numbers up to N. *)
LEMMA Stepwise ==
  ASSUME NEW N \in Nat, NEW G, 0 \in G, \A n \in 1 .. N : n - 1 \in G => n \in G
  PROVE  0 .. N \subseteq G
<1> DEFINE T == {n \in 0 .. N : n \notin G}
<1> SUFFICES ASSUME T # {} PROVE FALSE
  OBVIOUS
<1>1. T \subseteq Nat
  OBVIOUS
<1>2. PICK n \in T : \A m \in T : n <= m
  <2> HIDE DEF T
  <2> QED
    BY <1>1, LeastNat
<1>3. n \in 1 .. N /\ n - 1 \in 0 .. N
  BY <1>2
<1>4. n - 1 \in G
  BY <1>2, <1>3
<1> QED
  BY <1>2, <1>3, <1>4

LEMMA MaxIs ==
  ASSUME NEW n \in Nat, NEW s \in SUBSET (1 .. n), n \in s
  PROVE  Max(s) = n
<1>1. \A y \in s : n >= y
  OBVIOUS
<1>2. \A x \in s : (\A y \in s : x >= y) => x = n
  OBVIOUS
<1> QED
  BY <1>1, <1>2 DEF Max

(* What tty_init begins with, before tty.var is read. *)
Quiet == [active |-> {0}, killed |-> {}, runCmd |-> {}, current |-> 0]

(* A fold goes through the sequence from the left. *)
LEMMA ParseFold ==
  ASSUME NEW S, NEW q \in Seq(S)
  PROVE  \E W : /\ W[0] = Quiet /\ Parse(q) = W[Len(q)]
                /\ \A n \in 1 .. Len(q) : W[n] = ParseLine(W[n - 1], q[n])
<1>1. PICK N \in Nat : N = Len(q) /\ DOMAIN q = 1 .. N
  OBVIOUS
<1>0. PICK b : b = Quiet
  OBVIOUS
<1> DEFINE Step(g, s) == IF s = {} THEN b ELSE ParseLine(g[s \ {Max(s)}], q[Max(s)])
           Good(g, n) == g = [s \in SUBSET (1 .. n) |-> Step(g, s)]
           G == {n \in Nat : \E g : Good(g, n)}
<1>2. 0 \in G
  <2> DEFINE g == [s \in SUBSET (1 .. 0) |-> b]
  <2>1. \A s \in SUBSET (1 .. 0) : s = {}
    OBVIOUS
  <2>2. Good(g, 0)
    BY <2>1
  <2> HIDE DEF Good
  <2> QED
    BY <2>2
<1>3. ASSUME NEW n \in 1 .. N, n - 1 \in G PROVE n \in G
  <2>1. PICK g : Good(g, n - 1)
    <3> HIDE DEF Good
    <3> QED
      BY <1>3
  <2> DEFINE h == [s \in SUBSET (1 .. n) |-> IF n \in s THEN ParseLine(g[s \ {n}], q[n]) ELSE g[s]]
  <2>2. ASSUME NEW s \in SUBSET (1 .. n) PROVE h[s] = Step(h, s)
    <3>1. CASE n \in s
      <4>1. Max(s) = n
        BY <3>1, MaxIs
      <4>2. s \ {n} \in SUBSET (1 .. n) /\ n \notin s \ {n} /\ s # {}
        BY <3>1
      <4>3. h[s \ {n}] = g[s \ {n}] /\ h[s] = ParseLine(g[s \ {n}], q[n])
        BY <3>1, <4>2
      <4> HIDE DEF h
      <4> QED
        BY <4>1, <4>2, <4>3
    <3>2. CASE n \notin s
      <4>1. s \in SUBSET (1 .. (n - 1))
        BY <3>2
      <4>2. h[s] = g[s]
        BY <3>2
      <4>3. g[s] = Step(g, s)
        BY <2>1, <4>1
      <4>4. s \ {Max(s)} \in SUBSET (1 .. n) /\ n \notin s \ {Max(s)}
        BY <3>2
      <4>5. h[s \ {Max(s)}] = g[s \ {Max(s)}]
        BY <4>4
      <4> HIDE DEF h
      <4> QED
        BY <4>2, <4>3, <4>5
    <3> QED
      BY <3>1, <3>2
  <2>3. Good(h, n)
    BY <2>2
  <2> HIDE DEF h, Good
  <2> QED
    BY <2>3
<1>4. \E g : Good(g, N)
  <2> HIDE DEF G
  <2>1. 0 .. N \subseteq G
    BY <1>1, <1>2, <1>3, Stepwise
  <2>2. N \in G
    BY <1>1, <2>1
  <2> USE DEF G
  <2> HIDE DEF Good
  <2> QED
    BY <2>2
<1> DEFINE it == CHOOSE g : Good(g, N)
<1>5. Parse(q) = it[1 .. N]
  BY <1>0, <1>1 DEF Parse, Quiet, FoldLeft, MapThenFoldSet
<1>6. Good(it, N)
  <2> HIDE DEF Good
  <2> QED
    BY <1>4, Zenon
<1> DEFINE W == [n \in 0 .. N |-> it[1 .. n]]
<1> HIDE DEF it
<1>7. W[0] = b
  BY <1>1, <1>6
<1>8. ASSUME NEW n \in 1 .. N PROVE W[n] = ParseLine(W[n - 1], q[n])
  <2>1. 1 .. n \in SUBSET (1 .. N) /\ 1 .. n # {} /\ (1 .. n) \ {n} = 1 .. (n - 1)
    <3>1. N \in Nat
      BY <1>1
    <3> HIDE DEF Good, Step, G
    <3> QED
      BY <3>1
  <2>2. Max(1 .. n) = n
    BY <1>1, MaxIs
  <2>3. it[1 .. n] = ParseLine(it[1 .. (n - 1)], q[n])
    BY <1>6, <2>1, <2>2
  <2> QED
    BY <1>1, <2>3
<1> HIDE DEF W
<1> QED
  <2>1. W[0] = b /\ it[1 .. N] = W[Len(q)]
    BY <1>1, <1>7 DEF W
  <2> QED
    BY <1>0, <1>1, <1>5, <1>8, <2>1

-------------------------------------------------------------------------------
(* The virtual terminals. *)

Startup == [active : SUBSET Ttys, killed : SUBSET Ttys, runCmd : SUBSET Ttys, current : Ttys]

(* Whatever tty.var says, it leaves the user in one of the terminals. *)
LEMMA ParseTyped ==
  ASSUME NEW script \in Seq(Lines)
  PROVE  Parse(script) \in Startup
<1>1. Quiet \in Startup /\ Len(script) \in Nat
  BY TtyAssumption DEF Quiet, Startup, Ttys
<1>2. ASSUME NEW t \in Startup, NEW line \in Lines PROVE ParseLine(t, line) \in Startup
  <2>1. line[1] \in {"start", "kill", "run", "goto"} /\ line[2] \in Ttys
    BY DEF Lines
  <2>2. PICK n \in Ttys : n = line[2]
    BY <2>1
  <2>3. /\ [t EXCEPT !.active = @ \cup {n}] \in Startup
        /\ [t EXCEPT !.killed = @ \cup {n}, !.active = @ \ {n}] \in Startup
        /\ [t EXCEPT !.runCmd = @ \cup {n}] \in Startup
        /\ [t EXCEPT !.current = n] \in Startup
    BY <2>2 DEF Startup
  <2> QED
    BY <2>1, <2>2, <2>3 DEF ParseLine
<1>3. PICK W : /\ W[0] = Quiet /\ Parse(script) = W[Len(script)]
               /\ \A n \in 1 .. Len(script) : W[n] = ParseLine(W[n - 1], script[n])
  BY ParseFold
<1> DEFINE G == {n \in Nat : W[n] \in Startup}
<1>4. 0 \in G
  BY <1>1, <1>3
<1>5. ASSUME NEW n \in 1 .. Len(script), n - 1 \in G PROVE n \in G
  <2>1. script[n] \in Lines /\ W[n - 1] \in Startup /\ n \in Nat
    BY <1>5
  <2> QED
    BY <1>2, <1>3, <2>1
<1>6. Len(script) \in G
  <2> HIDE DEF G
  <2>1. 0 .. Len(script) \subseteq G
    BY <1>1, <1>4, <1>5, Stepwise
  <2> QED
    BY <1>1, <2>1
<1>7. W[Len(script)] \in Startup
  BY <1>6
<1> QED
  BY <1>3, <1>7

(* What is kept of a terminal is all of it. *)
TtyInv ==
  /\ current \in Ttys
  /\ kept = [n \in Ttys |-> Saved(kept[n])]
  /\ seen = [n \in Ttys |-> seen[n]]
  /\ ran = [n \in Ttys |-> ran[n]]
  /\ TerminalsAreKept

LEMMA TtyBegins == TtyInit => TtyInv
<1> SUFFICES ASSUME TtyInit PROVE TtyInv
  OBVIOUS
<1>1. PICK script \in UNION {[1 .. k -> Lines] : k \in 0 .. MaxScript} :
        LET t == Parse(script) IN
        /\ current = t.current
        /\ kept = [n \in Ttys |-> Fresh] /\ seen = [n \in Ttys |-> Fresh]
        /\ now = Restored(Fresh, [pos |-> 0])
        /\ started = {} /\ ran = [n \in Ttys |-> 0]
  BY DEF TtyInit
<1>2. script \in Seq(Lines)
  <2>1. PICK k \in 0 .. MaxScript : script \in [1 .. k -> Lines]
    BY <1>1
  <2>2. k \in Nat
    BY <2>1, TtyAssumption
  <2> QED
    BY <2>1, <2>2
<1>3. current \in Ttys
  BY <1>1, <1>2, ParseTyped DEF Startup
<1>4. Saved(Fresh) = Fresh /\ Saved(now) = Fresh
  BY <1>1 DEF Saved, Fresh, Restored
<1> QED
  BY <1>1, <1>3, <1>4 DEF TtyInv, TerminalsAreKept

LEMMA SavedRestored == ASSUME NEW k, NEW s PROVE Saved(Restored(Saved(k), s)) = Saved(k)
BY DEF Saved, Restored

(* The first time in a terminal its command runs, then no more. *)
LEMMA RunInitKeeps ==
  ASSUME TtyInv, NEW n \in Ttys, NEW s, RunInit(n, s), Saved(s) = seen[n], runCmd' = runCmd
  PROVE  /\ Saved(now') = seen'[n]
         /\ seen' = [m \in Ttys |-> seen'[m]] /\ ran' = [m \in Ttys |-> ran'[m]]
         /\ \A m \in Ttys \ {n} : seen'[m] = seen[m]
         /\ \A m \in Ttys : ran'[m] = IF m \in started' \cap runCmd' THEN 1 ELSE 0
<1>1. /\ seen = [m \in Ttys |-> seen[m]] /\ ran = [m \in Ttys |-> ran[m]]
      /\ \A m \in Ttys : ran[m] = IF m \in started \cap runCmd THEN 1 ELSE 0
  BY DEF TtyInv, TerminalsAreKept
<1>2. CASE n \notin started /\ n \in runCmd
  <2>1. started' = started \cup {n} /\ ran' = [ran EXCEPT ![n] = @ + 1]
        /\ seen' = [seen EXCEPT ![n] = Saved(now')]
    BY <1>2 DEF RunInit
  <2>2. ran'[n] = 1 /\ \A m \in Ttys \ {n} : ran'[m] = ran[m]
    <3>1. ran[n] = 0
      BY <1>1, <1>2
    <3> QED
      BY <1>1, <2>1, <3>1
  <2>3. seen'[n] = Saved(now') /\ \A m \in Ttys \ {n} : seen'[m] = seen[m]
    BY <1>1, <2>1
  <2>4. seen' = [m \in Ttys |-> seen'[m]] /\ ran' = [m \in Ttys |-> ran'[m]]
    BY <1>1, <2>1
  <2> QED
    BY <1>1, <1>2, <2>1, <2>2, <2>3, <2>4
<1>3. CASE ~(n \notin started /\ n \in runCmd)
  <2>1. started' = started \cup {n} /\ ran' = ran /\ seen' = seen /\ now' = s
    BY <1>3 DEF RunInit
  <2> QED
    BY <1>1, <1>3, <2>1
<1> QED
  BY <1>2, <1>3

LEMMA SaveCurrentKeeps ==
  ASSUME TtyInv, NEW n, SaveCurrent(n)
  PROVE  /\ kept' = [m \in Ttys |-> Saved(kept'[m])]
         /\ \A m \in Ttys : kept'[m] = seen[m]
<1>1. /\ kept' = [kept EXCEPT ![current] = Saved(now)] /\ current \in Ttys
      /\ kept = [m \in Ttys |-> Saved(kept[m])]
      /\ Saved(now) = seen[current] /\ \A m \in Ttys \ {current} : kept[m] = seen[m]
  BY DEF SaveCurrent, TtyInv, TerminalsAreKept
<1>2. Saved(Saved(now)) = Saved(now)
  BY DEF Saved
<1>3. kept'[current] = Saved(now) /\ \A m \in Ttys \ {current} : kept'[m] = kept[m]
  BY <1>1
<1>4. \A m \in Ttys : kept'[m] = Saved(kept'[m])
  BY <1>1, <1>2, <1>3
<1>5. kept' = [m \in Ttys |-> kept'[m]]
  BY <1>1
<1> QED
  BY <1>1, <1>3, <1>4, <1>5

LEMMA TtyStep == TtyInv /\ [TtyNext]_ttyVars => TtyInv'
<1> SUFFICES ASSUME TtyInv, [TtyNext]_ttyVars PROVE TtyInv'
  OBVIOUS
<1>0. /\ current \in Ttys /\ kept = [n \in Ttys |-> Saved(kept[n])]
      /\ seen = [n \in Ttys |-> seen[n]] /\ ran = [n \in Ttys |-> ran[n]]
      /\ Saved(now) = seen[current] /\ (\A n \in Ttys \ {current} : kept[n] = seen[n])
      /\ \A n \in Ttys : ran[n] = (IF n \in started \cap runCmd THEN 1 ELSE 0)
  BY DEF TtyInv, TerminalsAreKept
<1>1. CASE Boot
  <2>1. RunInit(current, now) /\ UNCHANGED <<kept, current, runCmd>>
    BY <1>1 DEF Boot
  <2>2. /\ Saved(now') = seen'[current]
        /\ seen' = [m \in Ttys |-> seen'[m]] /\ ran' = [m \in Ttys |-> ran'[m]]
        /\ \A m \in Ttys \ {current} : seen'[m] = seen[m]
        /\ \A m \in Ttys : ran'[m] = IF m \in started' \cap runCmd' THEN 1 ELSE 0
    BY <1>0, <2>1, RunInitKeeps
  <2> QED
    BY <1>0, <2>1, <2>2 DEF TtyInv, TerminalsAreKept, Saved
<1>2. CASE Command
  <2>1. seen' = [seen EXCEPT ![current] = Saved(now')]
        /\ UNCHANGED <<kept, current, started, runCmd, ran>>
    BY <1>2 DEF Command
  <2>2. seen'[current] = Saved(now') /\ seen' = [m \in Ttys |-> seen'[m]]
        /\ \A m \in Ttys \ {current} : seen'[m] = seen[m]
    BY <1>0, <2>1
  <2> QED
    BY <1>0, <2>1, <2>2 DEF TtyInv, TerminalsAreKept, Saved
<1>3. ASSUME NEW n \in Ttys, Switch(n) PROVE TtyInv'
  <2>1. n # current /\ SaveCurrent(n) /\ current' = n /\ RunInit(n, Restored(kept[n], now)) /\ runCmd' = runCmd
    BY <1>3 DEF Switch
  <2>2. kept' = [m \in Ttys |-> Saved(kept'[m])] /\ \A m \in Ttys : kept'[m] = seen[m]
    BY <2>1, SaveCurrentKeeps
  <2>3. Saved(Restored(kept[n], now)) = seen[n]
    <3>1. kept[n] = Saved(kept[n]) /\ kept[n] = seen[n]
      BY <1>0, <2>1
    <3> QED
      BY <3>1, SavedRestored
  <2>4. PICK s : s = Restored(kept[n], now)
    OBVIOUS
  <2>5. /\ Saved(now') = seen'[n]
        /\ seen' = [m \in Ttys |-> seen'[m]] /\ ran' = [m \in Ttys |-> ran'[m]]
        /\ \A m \in Ttys \ {n} : seen'[m] = seen[m]
        /\ \A m \in Ttys : ran'[m] = IF m \in started' \cap runCmd' THEN 1 ELSE 0
    BY <2>1, <2>3, RunInitKeeps
  <2> QED
    BY <2>1, <2>2, <2>5 DEF TtyInv, TerminalsAreKept, Saved
<1>4. ASSUME NEW n \in Ttys, SwitchRefused(n) PROVE TtyInv'
  <2>1. SaveCurrent(n) /\ seen' = [seen EXCEPT ![current] = Saved(now')]
        /\ UNCHANGED <<current, started, runCmd, ran>>
    BY <1>4 DEF SwitchRefused
  <2>2. kept' = [m \in Ttys |-> Saved(kept'[m])] /\ \A m \in Ttys : kept'[m] = seen[m]
    BY <2>1, SaveCurrentKeeps
  <2>3. seen'[current] = Saved(now') /\ seen' = [m \in Ttys |-> seen'[m]]
        /\ \A m \in Ttys \ {current} : seen'[m] = seen[m]
    BY <1>0, <2>1
  <2> QED
    BY <1>0, <2>1, <2>2, <2>3 DEF TtyInv, TerminalsAreKept, Saved
<1>5. CASE UNCHANGED ttyVars
  BY <1>0, <1>5 DEF ttyVars, TtyInv, TerminalsAreKept, Saved
<1> QED
  BY <1>1, <1>2, <1>3, <1>4, <1>5 DEF TtyNext

(* Whoever comes back to a terminal finds the shell, the colours and the
   picture he left there, and no two terminals are mixed up (shell/shell.c:1389,
   1403, shell/tty.c:137). *)
THEOREM TerminalsStayKept == TtySpec => []TerminalsAreKept
<1>1. TtyInv => TerminalsAreKept
  BY DEF TtyInv
<1> QED
  BY <1>1, TtyBegins, TtyStep, PTL DEF TtySpec

-------------------------------------------------------------------------------
(* The text screen. *)

Glyphs  == {Space} \cup STRING
Screen  == [cells : [Positions -> Glyphs], pos : Positions, base : Int]
Raw     == [cells : [Positions -> Glyphs], pos : Nat, base : Int]
Cells   == Cols * Rows
LastRow == Cols * (Rows - 1)

LEMMA Geometry ==
  /\ Cells \in Nat /\ LastRow \in Nat /\ Cols \in Nat /\ Cols > 0
  /\ LastRow = Cells - Cols /\ LastRow >= Cols /\ Positions = 0 .. Cells - 1
  /\ MaxLine \in Nat /\ MaxLine <= LastRow
<1>1. PICK w \in Nat, c \in Nat, r \in Nat : c = Cols /\ r = Rows /\ w = c * r /\ c > 0 /\ r > 1
  BY TerminalAssumption
<1>2. c * (r - 1) = w - c
  BY <1>1
<1>3. c * (r - 1) >= c
  BY <1>1
<1> QED
  BY <1>1, <1>2, <1>3, ReadlineAssumption DEF Cells, LastRow, Positions

LEMMA LargerRange ==
  ASSUME NEW S, NEW T, NEW q \in Seq(S), S \subseteq T
  PROVE  q \in Seq(T)
OBVIOUS

LEMMA Glyphic ==
  /\ Space \in Glyphs /\ Chars \subseteq Glyphs /\ Prompt \in Seq(Glyphs)
  /\ Refusal \in Seq(Glyphs)
  /\ \A i \in DOMAIN Cmds : Cmds[i] \in Seq(Glyphs)
  /\ \A n \in Files : n \in Seq(Glyphs)
<1>1. STRING \subseteq Glyphs
  BY DEF Glyphs
<1>2. ASSUME NEW n \in Seq(STRING) PROVE n \in Seq(Glyphs)
  BY <1>1, LargerRange
<1>3. Space \in Glyphs
  BY DEF Glyphs
<1>4. Chars \subseteq Glyphs
  BY <1>1, ReadlineAssumption
<1>5. ASSUME NEW n \in Files PROVE n \in Seq(Glyphs)
  <2>1. n \in Seq(STRING)
    BY ReadlineAssumption
  <2> QED
    BY <1>2, <2>1
<1>6. ASSUME NEW i \in DOMAIN Cmds PROVE Cmds[i] \in Seq(Glyphs)
  <2>1. PICK S : S = Seq(STRING)
    OBVIOUS
  <2>2. Cmds \in Seq(S)
    BY <2>1, ReadlineAssumption
  <2>3. Cmds[i] \in S
    BY <2>2
  <2> QED
    BY <1>2, <2>1, <2>3
<1>7. Prompt \in Seq(Glyphs) /\ Refusal \in Seq(Glyphs)
  <2>1. Prompt \in Seq(STRING) /\ Refusal \in Seq(STRING)
    BY ReadlineAssumption
  <2> QED
    BY <1>2, <2>1
<1> QED
  BY <1>3, <1>4, <1>5, <1>6, <1>7

(* What a screen becomes when the cursor goes n forward, past the last
   position or not: d is by how much everything moved up. *)
Advanced(s, t, n, d) ==
  /\ t \in Screen /\ d \in Nat
  /\ t.pos = s.pos + n - d /\ t.base = s.base - d
  /\ d > 0 => t.pos >= LastRow

LEMMA ScrollIs ==
  ASSUME NEW s \in Raw, s.pos <= Cells
  PROVE  \E d \in {0, Cols} :
           /\ Scroll(s) \in Screen
           /\ Scroll(s).pos = s.pos - d /\ Scroll(s).base = s.base - d
           /\ d > 0 => s.pos - d >= LastRow
           /\ \A p \in Positions :
                Scroll(s).cells[p] = IF p + d \in Positions THEN s.cells[p + d] ELSE Space
<1>0. Cells = Cols * Rows /\ LastRow = Cols * (Rows - 1)
  BY DEF Cells, LastRow
<1>00. s.pos \in Nat /\ s.base \in Int /\ s.cells \in [Positions -> Glyphs]
  BY DEF Raw
<1>1. CASE s.pos < Cells
  <2>1. Scroll(s) = s
    BY <1>0, <1>1 DEF Scroll
  <2>2. s.pos \in Positions
    BY <1>00, <1>1, Geometry
  <2>3. s \in Screen
    BY <2>2 DEF Raw, Screen
  <2>4. s.pos - 0 = s.pos /\ s.base - 0 = s.base /\ \A p \in Positions : p + 0 = p
    BY <1>00, Geometry
  <2>5. \A p \in Positions : s.cells[p] = IF p + 0 \in Positions THEN s.cells[p + 0] ELSE Space
    BY <2>4
  <2> QED
    BY <2>1, <2>3, <2>4, <2>5
<1>2. CASE s.pos = Cells
  <2> DEFINE g == [q \in Positions |-> IF q + Cols \in Positions THEN s.cells[q + Cols] ELSE Space]
  <2>0. ~ (s.pos < Cols * Rows)
    BY <1>0, <1>2, Geometry
  <2>1. Scroll(s) = [cells |-> g, pos |-> LastRow, base |-> s.base - Cols]
    BY <1>0, <2>0, Zenon DEF Scroll
  <2>2. s.pos - Cols = LastRow /\ LastRow \in Positions /\ s.base - Cols \in Int
    BY <1>00, <1>2, Geometry
  <2>3. g \in [Positions -> Glyphs]
    BY <1>00, Glyphic
  <2>4. \A p \in Positions : g[p] = IF p + Cols \in Positions THEN s.cells[p + Cols] ELSE Space
    OBVIOUS
  <2> HIDE DEF g
  <2>5. Scroll(s) \in Screen
    BY <2>1, <2>2, <2>3 DEF Screen
  <2>6. Scroll(s).cells = g /\ Scroll(s).pos = LastRow /\ Scroll(s).base = s.base - Cols
    BY <2>1
  <2> QED
    BY <2>2, <2>4, <2>5, <2>6, Geometry
<1> QED
  BY <1>00, <1>1, <1>2, Geometry

(* A character goes to the cursor's position. *)
LEMMA PutCharIs ==
  ASSUME NEW s \in Screen, NEW c \in Glyphs
  PROVE  \E d \in Nat :
           /\ Advanced(s, PutChar(s, c), 1, d)
           /\ \A p \in Positions :
                PutChar(s, c).cells[p] = IF p + d = s.pos THEN c
                                         ELSE IF p + d \in Positions THEN s.cells[p + d] ELSE Space
<1>1. s.pos \in Positions /\ s.base \in Int /\ s.cells \in [Positions -> Glyphs] /\ s.pos \in Nat /\ s.pos + 1 <= Cells
  BY Geometry DEF Screen
<1>2. PICK f : f = [s.cells EXCEPT ![s.pos] = c]
  OBVIOUS
<1>3. f \in [Positions -> Glyphs]
  BY <1>1, <1>2
<1> DEFINE u == [cells |-> f, pos |-> s.pos + 1, base |-> s.base]
           t == PutChar(s, c)
<1>4. t = Scroll(u)
  BY <1>2 DEF PutChar
<1>5. u \in Raw
  BY <1>1, <1>3 DEF Raw
<1>6. u.pos = s.pos + 1 /\ u.base = s.base /\ u.cells = f
  OBVIOUS
<1> HIDE DEF u, t
<1>7. PICK d \in {0, Cols} :
        /\ t \in Screen
        /\ t.pos = u.pos - d /\ t.base = u.base - d
        /\ d > 0 => u.pos - d >= LastRow
        /\ \A p \in Positions : t.cells[p] = IF p + d \in Positions THEN u.cells[p + d] ELSE Space
  BY <1>1, <1>4, <1>5, <1>6, ScrollIs
<1>8. d \in Nat
  BY <1>7, Geometry
<1>9. \A p \in Positions :
         t.cells[p] = IF p + d = s.pos THEN c ELSE IF p + d \in Positions THEN s.cells[p + d] ELSE Space
  BY <1>1, <1>2, <1>6, <1>7
<1>10. Advanced(s, t, 1, d)
  BY <1>1, <1>6, <1>7, <1>8 DEF Advanced
<1> QED
  BY <1>8, <1>9, <1>10 DEF t

(* A new line begins with a row of its own. *)
LEMMA NewLineIs ==
  ASSUME NEW s \in Screen
  PROVE  \E d \in Nat, n \in 1 .. Cols :
           /\ Advanced(s, NewLine(s), n, d)
           /\ \A p \in Positions :
                NewLine(s).cells[p] = IF p + d \in Positions THEN s.cells[p + d] ELSE Space
<1>1. s.pos \in Positions /\ s.pos \in Nat /\ s.base \in Int /\ s.cells \in [Positions -> Glyphs] /\ s.pos < Cells
  BY Geometry DEF Screen
<1>2. PICK q \in Nat : q = Cols * ((s.pos \div Cols) + 1) /\ q > s.pos /\ q <= s.pos + Cols /\ q <= Cells
  <2>0. Cols \in Nat /\ Cols > 0 /\ Rows \in Nat
    BY TerminalAssumption
  <2>1. PICK k \in Nat, c \in Nat, r \in Nat, p \in Nat :
          /\ c = Cols /\ r = Rows /\ p = s.pos /\ k = p \div c /\ c > 0
          /\ c * k <= p /\ p < c * k + c
    BY <1>1, <2>0, Division
  <2>2. c * (k + 1) = c * k + c
    BY <2>1
  <2>3. p < c * r
    BY <1>1, <2>1 DEF Cells
  <2>4. k < r
    <3> SUFFICES ASSUME k >= r PROVE FALSE
      BY <2>1
    <3>1. c * k >= c * r
      BY <2>1
    <3> QED
      BY <2>1, <2>3, <3>1
  <2>5. c * (k + 1) <= c * r
    BY <2>1, <2>4
  <2>6. c * (k + 1) \in Nat
    BY <2>1
  <2> QED
    BY <2>1, <2>2, <2>5, <2>6 DEF Cells
<1> DEFINE u == [s EXCEPT !.pos = Cols * ((@ \div Cols) + 1)]
           t == NewLine(s)
<1>3. u \in Raw /\ u.pos = q /\ u.base = s.base /\ u.cells = s.cells
  BY <1>2 DEF Screen, Raw
<1>4. t = Scroll(u)
  BY DEF NewLine
<1> HIDE DEF u, t
<1>5. PICK d \in {0, Cols} :
        /\ t \in Screen
        /\ t.pos = u.pos - d /\ t.base = u.base - d
        /\ d > 0 => u.pos - d >= LastRow
        /\ \A p \in Positions : t.cells[p] = IF p + d \in Positions THEN u.cells[p + d] ELSE Space
  BY <1>2, <1>3, <1>4, ScrollIs
<1>6. d \in Nat
  BY <1>5, Geometry
<1>7. PICK n \in 1 .. Cols : n = q - s.pos
  BY <1>1, <1>2, Geometry
<1>8. Advanced(s, t, n, d)
  BY <1>1, <1>2, <1>3, <1>5, <1>6, <1>7 DEF Advanced
<1>9. \A p \in Positions : t.cells[p] = IF p + d \in Positions THEN s.cells[p + d] ELSE Space
  BY <1>3, <1>5
<1> QED
  BY <1>6, <1>7, <1>8, <1>9 DEF t

(* Writing is putting one character after the other. *)
LEMMA WriteFold ==
  ASSUME NEW S, NEW q \in Seq(S), NEW b
  PROVE  \E W : /\ W[0] = b /\ Write(b, q) = W[Len(q)]
                /\ \A n \in 1 .. Len(q) : W[n] = PutChar(W[n - 1], q[n])
<1>1. PICK N \in Nat : N = Len(q) /\ DOMAIN q = 1 .. N
  OBVIOUS
<1> DEFINE Step(g, s) == IF s = {} THEN b ELSE PutChar(g[s \ {Max(s)}], q[Max(s)])
           Good(g, n) == g = [s \in SUBSET (1 .. n) |-> Step(g, s)]
           G == {n \in Nat : \E g : Good(g, n)}
<1>2. 0 \in G
  <2> DEFINE g == [s \in SUBSET (1 .. 0) |-> b]
  <2>1. \A s \in SUBSET (1 .. 0) : s = {}
    OBVIOUS
  <2>2. Good(g, 0)
    BY <2>1
  <2> HIDE DEF Good
  <2> QED
    BY <2>2
<1>3. ASSUME NEW n \in 1 .. N, n - 1 \in G PROVE n \in G
  <2>1. PICK g : Good(g, n - 1)
    <3> HIDE DEF Good
    <3> QED
      BY <1>3
  <2> DEFINE h == [s \in SUBSET (1 .. n) |-> IF n \in s THEN PutChar(g[s \ {n}], q[n]) ELSE g[s]]
  <2>2. ASSUME NEW s \in SUBSET (1 .. n) PROVE h[s] = Step(h, s)
    <3>1. CASE n \in s
      <4>1. Max(s) = n
        BY <3>1, MaxIs
      <4>2. s \ {n} \in SUBSET (1 .. n) /\ n \notin s \ {n} /\ s # {}
        BY <3>1
      <4>3. h[s \ {n}] = g[s \ {n}] /\ h[s] = PutChar(g[s \ {n}], q[n])
        BY <3>1, <4>2
      <4> HIDE DEF h
      <4> QED
        BY <4>1, <4>2, <4>3
    <3>2. CASE n \notin s
      <4>1. s \in SUBSET (1 .. (n - 1))
        BY <3>2
      <4>2. h[s] = g[s]
        BY <3>2
      <4>3. g[s] = Step(g, s)
        BY <2>1, <4>1
      <4>4. s \ {Max(s)} \in SUBSET (1 .. n) /\ n \notin s \ {Max(s)}
        BY <3>2
      <4>5. h[s \ {Max(s)}] = g[s \ {Max(s)}]
        BY <4>4
      <4> HIDE DEF h
      <4> QED
        BY <4>2, <4>3, <4>5
    <3> QED
      BY <3>1, <3>2
  <2>3. Good(h, n)
    BY <2>2
  <2> HIDE DEF h, Good
  <2> QED
    BY <2>3
<1>4. \E g : Good(g, N)
  <2> HIDE DEF G
  <2>1. 0 .. N \subseteq G
    BY <1>1, <1>2, <1>3, Stepwise
  <2>2. N \in G
    BY <1>1, <2>1
  <2> USE DEF G
  <2> HIDE DEF Good
  <2> QED
    BY <2>2
<1> DEFINE it == CHOOSE g : Good(g, N)
<1>5. Write(b, q) = it[1 .. N]
  BY <1>1 DEF Write, FoldLeft, MapThenFoldSet
<1>6. Good(it, N)
  <2> HIDE DEF Good
  <2> QED
    BY <1>4, Zenon
<1> DEFINE W == [n \in 0 .. N |-> it[1 .. n]]
<1> HIDE DEF it
<1>7. W[0] = b
  BY <1>1, <1>6
<1>8. ASSUME NEW n \in 1 .. N PROVE W[n] = PutChar(W[n - 1], q[n])
  <2>1. 1 .. n \in SUBSET (1 .. N) /\ 1 .. n # {} /\ (1 .. n) \ {n} = 1 .. (n - 1)
    <3>1. N \in Nat
      BY <1>1
    <3> HIDE DEF Good, Step, G
    <3> QED
      BY <3>1
  <2>2. Max(1 .. n) = n
    BY <1>1, MaxIs
  <2>3. it[1 .. n] = PutChar(it[1 .. (n - 1)], q[n])
    BY <1>6, <2>1, <2>2
  <2> QED
    BY <1>1, <2>3
<1> HIDE DEF W
<1> QED
  <2>1. W[0] = b /\ it[1 .. N] = W[Len(q)]
    BY <1>1, <1>7 DEF W
  <2> QED
    BY <1>1, <1>5, <1>8, <2>1

(* What has been written of a text: the characters are on the screen, and
   what lay there before lies where it lay or has moved up. *)
Under(s, q, n, a) ==
  IF a \in s.pos .. s.pos + n - 1 THEN q[a - s.pos + 1]
  ELSE IF a \in Positions THEN s.cells[a] ELSE Space

Laid(s, t, q, n, d) ==
  /\ Advanced(s, t, n, d)
  /\ \A p \in Positions : t.cells[p] = Under(s, q, n, p + d)

LEMMA WriteIs ==
  ASSUME NEW s \in Screen, NEW q \in Seq(Glyphs)
  PROVE  \E d : Laid(s, Write(s, q), q, Len(q), d)
<1>1. PICK W : /\ W[0] = s /\ Write(s, q) = W[Len(q)]
               /\ \A n \in 1 .. Len(q) : W[n] = PutChar(W[n - 1], q[n])
  BY WriteFold
<1>2. PICK N \in Nat : N = Len(q) /\ \A n \in 1 .. N : q[n] \in Glyphs
  OBVIOUS
<1>3. s.pos \in Positions /\ s.pos \in Nat /\ s.base \in Int /\ s.pos < Cells
  BY Geometry DEF Screen
<1> DEFINE G == {n \in Nat : \E d : Laid(s, W[n], q, n, d)}
<1>4. 0 \in G
  <2>1. Laid(s, s, q, 0, 0)
    <3>1. \A p \in Positions : p + 0 = p /\ p + 0 \notin s.pos .. s.pos + 0 - 1
      BY <1>3, Geometry
    <3>2. Advanced(s, s, 0, 0)
      BY <1>3 DEF Advanced
    <3> QED
      BY <3>1, <3>2 DEF Laid, Under
  <2> QED
    BY <1>1, <2>1
<1>5. ASSUME NEW n \in 1 .. N, n - 1 \in G PROVE n \in G
  <2>0. n \in Nat /\ n > 0
    BY <1>2, <1>5
  <2>1. PICK d : Laid(s, W[n - 1], q, n - 1, d)
    BY <1>5
  <2>2. PICK u : u = W[n - 1] /\ u \in Screen /\ d \in Nat /\ u.pos = s.pos + (n - 1) - d /\ u.base = s.base - d
                 /\ (d > 0 => u.pos >= LastRow)
                 /\ \A p \in Positions : u.cells[p] = Under(s, q, n - 1, p + d)
    BY <2>1 DEF Laid, Advanced
  <2>3. PICK t : t = W[n] /\ t = PutChar(u, q[n])
    BY <1>1, <1>2, <2>2
  <2>4. PICK e \in Nat :
          /\ Advanced(u, t, 1, e)
          /\ \A p \in Positions : t.cells[p] = IF p + e = u.pos THEN q[n]
                                              ELSE IF p + e \in Positions THEN u.cells[p + e] ELSE Space
    <3>1. q[n] \in Glyphs
      BY <1>2
    <3>2. PICK c \in Glyphs : c = q[n]
      BY <3>1
    <3>3. \E e \in Nat :
            /\ Advanced(u, PutChar(u, c), 1, e)
            /\ \A p \in Positions : PutChar(u, c).cells[p] = IF p + e = u.pos THEN c
                                                  ELSE IF p + e \in Positions THEN u.cells[p + e] ELSE Space
      BY <2>2, PutCharIs
    <3> QED
      BY <2>3, <3>2, <3>3, Zenon
  <2>5. /\ t \in Screen /\ t.pos = u.pos + 1 - e /\ t.base = u.base - e
        /\ e > 0 => t.pos >= LastRow
    BY <2>4 DEF Advanced
  <2>6. PICK m \in Nat : m = d + e
    BY <2>2, <2>4
  <2>7. /\ d \in Nat /\ e \in Nat /\ m \in Nat /\ m = d + e /\ n \in Nat /\ n > 0
        /\ s.pos \in Nat /\ u.pos \in Nat /\ u.pos = s.pos + (n - 1) - d
    <3>1. u.pos \in Positions
      BY <2>2 DEF Screen
    <3>2. u.pos \in Nat
      BY <3>1, Geometry
    <3>3. m = d + e
      BY <2>6
    <3>4. d \in Nat /\ u.pos = s.pos + (n - 1) - d
      BY <2>2
    <3>5. e \in Nat /\ m \in Nat
      BY <2>4, <2>6
    <3> QED
      BY <1>3, <2>0, <3>2, <3>3, <3>4, <3>5
  <2>8. Advanced(s, t, n, m)
    <3>1. t.pos = s.pos + n - m
      BY <2>5, <2>7
    <3>2. t.base = s.base - m
      <4>1. u.base = s.base - d /\ t.base = u.base - e
        BY <2>2, <2>5
      <4> QED
        BY <1>3, <2>7, <4>1
    <3>3. m > 0 => t.pos >= LastRow
      <4>1. d > 0 => u.pos >= LastRow
        BY <2>2
      <4>2. e > 0 => t.pos >= LastRow
        BY <2>5
      <4>3. e = 0 => t.pos = u.pos + 1
        BY <2>5, <2>7
      <4> QED
        BY <2>7, <4>1, <4>2, <4>3, Geometry
    <3> QED
      BY <2>5, <2>7, <3>1, <3>2, <3>3 DEF Advanced
  <2>9. ASSUME NEW p \in Positions PROVE t.cells[p] = Under(s, q, n, p + m)
    <3>1. p \in Nat /\ p < Cells
      BY <2>9, Geometry
    <3>0. PICK a \in Nat : a = p + m
      BY <2>7, <3>1
    <3>2. CASE p + e = u.pos
      <4>1. a = s.pos + n - 1 /\ a - s.pos + 1 = n
        BY <2>7, <3>0, <3>1, <3>2
      <4>2. a \in s.pos .. s.pos + n - 1
        BY <2>7, <4>1
      <4>3. Under(s, q, n, a) = q[n]
        BY <4>1, <4>2 DEF Under
      <4> QED
        BY <2>4, <3>0, <3>2, <4>3
    <3>3. CASE p + e # u.pos /\ p + e \in Positions
      <4>1. t.cells[p] = u.cells[p + e]
        BY <2>4, <3>3
      <4>2. PICK r \in Positions : r = p + e /\ r + d = a
        BY <2>7, <3>0, <3>1, <3>3
      <4>6. a # s.pos + n - 1
        BY <2>7, <3>0, <3>1, <3>3
      <4>3. a \in s.pos .. s.pos + n - 1 <=> a \in s.pos .. s.pos + (n - 1) - 1
        <5>1. PICK x \in Nat, y \in Int : x = s.pos /\ y = s.pos + n - 1
          BY <2>7
        <5>2. s.pos + (n - 1) - 1 = y - 1
          BY <2>7, <5>1
        <5>3. a # y
          BY <4>6, <5>1
        <5>4. a \in x .. y <=> a \in x .. (y - 1)
          BY <3>0, <5>1, <5>3
        <5> QED
          BY <5>1, <5>2, <5>4
      <4>4. Under(s, q, n, a) = Under(s, q, n - 1, a)
        BY <4>3 DEF Under
      <4>5. u.cells[r] = Under(s, q, n - 1, r + d)
        BY <2>2, <4>2
      <4> QED
        BY <3>0, <4>1, <4>2, <4>4, <4>5
    <3>4. CASE p + e # u.pos /\ p + e \notin Positions
      <4>1. t.cells[p] = Space
        BY <2>4, <3>4
      <4>2. a >= Cells /\ p + e >= Cells
        BY <2>7, <3>0, <3>1, <3>4, Geometry
      <4>3. a \notin Positions
        BY <4>2, Geometry
      <4>4. u.pos < Cells
        BY <2>2, Geometry DEF Screen
      <4>5. a \notin s.pos .. s.pos + n - 1
        BY <2>7, <3>0, <3>1, <4>2, <4>4, Geometry
      <4> QED
        BY <3>0, <4>1, <4>3, <4>5 DEF Under
    <3> QED
      BY <3>2, <3>3, <3>4
  <2>10. Laid(s, W[n], q, n, m)
    BY <2>3, <2>8, <2>9 DEF Laid
  <2> QED
    BY <2>10
<1>6. N \in G
  <2> HIDE DEF G
  <2>1. 0 .. N \subseteq G
    BY <1>4, <1>5, Stepwise
  <2> QED
    BY <2>1
<1> QED
  BY <1>1, <1>2, <1>6

(* The screen shows the first m characters of a line where the line begins. *)
Shows(s, line, m) ==
  \A i \in 1 .. m : s.base + i - 1 \in Positions /\ s.cells[s.base + i - 1] = line[i]

(* Nothing lies on the screen from e characters behind the line's beginning,
   or behind the cursor, on. *)
BlankFrom(s, e)   == \A p \in Positions : p >= s.base + e => s.cells[p] = Space
BlankBehind(s, e) == \A p \in Positions : p >= s.pos + e => s.cells[p] = Space

LEMMA SameCells ==
  ASSUME NEW s, NEW t, t.cells = s.cells, t.base = s.base
  PROVE  /\ \A line, m : Shows(s, line, m) => Shows(t, line, m)
         /\ \A e : BlankFrom(s, e) => BlankFrom(t, e)
BY DEF Shows, BlankFrom

LEMMA ScreenIs ==
  ASSUME NEW s \in Screen
  PROVE  /\ s.pos \in Positions /\ s.pos \in Nat /\ s.pos < Cells /\ s.base \in Int
         /\ s.cells \in [Positions -> Glyphs]
BY Geometry DEF Screen

LEMMA OnScreen ==
  ASSUME NEW p \in Int
  PROVE  p \in Positions <=> p >= 0 /\ p < Cells
BY Geometry

LEMMA CursorLeftIs ==
  ASSUME NEW s \in Screen, NEW n \in Nat, s.pos >= n
  PROVE  /\ CursorLeft(s, n) \in Screen
         /\ CursorLeft(s, n).pos = s.pos - n /\ CursorLeft(s, n).base = s.base
         /\ CursorLeft(s, n).cells = s.cells
<1>1. s.pos \in Positions /\ s.pos \in Nat /\ s.pos < Cells /\ 0 \in Positions
  BY Geometry DEF Screen
<1>2. PICK p \in Positions : p = s.pos - n /\ (p = IF s.pos > n THEN s.pos - n ELSE 0)
  BY <1>1, Geometry
<1>3. CursorLeft(s, n) = [s EXCEPT !.pos = p]
  BY <1>2 DEF CursorLeft
<1> QED
  BY <1>2, <1>3 DEF Screen

LEMMA CursorRightIs ==
  ASSUME NEW s \in Screen, NEW n \in Nat, s.pos + n \in Positions
  PROVE  /\ CursorRight(s, n) \in Screen
         /\ CursorRight(s, n).pos = s.pos + n /\ CursorRight(s, n).base = s.base
         /\ CursorRight(s, n).cells = s.cells
BY DEF CursorRight, Screen

LEMMA WriteNumbers ==
  ASSUME NEW sb \in Nat, NEW c \in Nat, NEW n \in Nat, NEW d \in Nat, NEW x \in Nat, NEW y \in Nat,
         NEW b \in Int, NEW m \in Nat, NEW w \in Nat, NEW r \in Nat,
         m = c + n, x = sb + c, y = x + n - d, b = sb - d, y < w, d > 0 => y >= r, m <= r
  PROVE  /\ y = b + m /\ b \in Nat
         /\ \A i \in 1 .. m :
              /\ b + i - 1 \in Nat /\ b + i - 1 < w
              /\ (b + i - 1) + d = sb + i - 1 /\ sb + i - 1 \in Nat
              /\ i <= c => i \in 1 .. c /\ sb + i - 1 \notin x .. x + n - 1
              /\ i > c => /\ i - c \in 1 .. n /\ c + (i - c) = i
                          /\ sb + i - 1 \in x .. x + n - 1 /\ (sb + i - 1) - x + 1 = i - c
         /\ \A p \in Nat : p >= b + m => p + d >= sb + m /\ p + d \notin x .. x + n - 1
<1>1. y = b + m
  OBVIOUS
<1>2. b \in Nat
  BY <1>1
<1> QED
  BY <1>1, <1>2

(* A line of which the first c characters are shown is shown whole when the
   others are written. *)
Unwritten(s, c, q, line, m) ==
  /\ s \in Screen /\ s.base \in Nat /\ c \in Nat /\ s.pos = s.base + c
  /\ q \in Seq(Glyphs) /\ m \in Nat /\ m = c + Len(q) /\ m <= MaxLine
  /\ Shows(s, line, c) /\ \A j \in 1 .. Len(q) : q[j] = line[c + j]

LEMMA WriteLine ==
  ASSUME NEW s, NEW c, NEW q, NEW line, NEW m, Unwritten(s, c, q, line, m)
  PROVE  /\ Write(s, q) \in Screen /\ Write(s, q).base \in Nat
         /\ Write(s, q).pos = Write(s, q).base + m
         /\ Shows(Write(s, q), line, m)
         /\ \A e \in 0 .. m : BlankFrom(s, e) => BlankFrom(Write(s, q), m)
<1>0. /\ s \in Screen /\ s.base \in Nat /\ c \in Nat /\ s.pos = s.base + c
      /\ q \in Seq(Glyphs) /\ m \in Nat /\ m = c + Len(q) /\ m <= MaxLine
      /\ Shows(s, line, c) /\ \A j \in 1 .. Len(q) : q[j] = line[c + j]
  BY DEF Unwritten
<1>1. PICK t, d : t = Write(s, q) /\ Laid(s, t, q, Len(q), d)
  BY <1>0, WriteIs
<1>2. PICK n \in Nat : n = Len(q)
  BY <1>0
<1>3. /\ t \in Screen /\ d \in Nat /\ t.pos = s.pos + n - d /\ t.base = s.base - d
      /\ d > 0 => t.pos >= LastRow
  BY <1>1, <1>2 DEF Laid, Advanced
<1>4. \A p \in Positions : t.cells[p] = Under(s, q, n, p + d)
  BY <1>1, <1>2 DEF Laid
<1>5. s.pos \in Nat /\ s.pos < Cells /\ t.pos \in Nat /\ t.pos < Cells /\ t.base \in Int
  BY <1>0, <1>3, ScreenIs
<1>51. PICK b \in Int, sb \in Nat, x \in Nat, y \in Nat :
         /\ b = t.base /\ sb = s.base /\ x = s.pos /\ y = t.pos
         /\ m = c + n /\ x = sb + c /\ y = x + n - d /\ b = sb - d /\ x < Cells /\ y < Cells
         /\ d > 0 => y >= LastRow
  BY <1>0, <1>2, <1>3, <1>5
<1>7. /\ sb \in Nat /\ c \in Nat /\ n \in Nat /\ d \in Nat /\ x \in Nat /\ y \in Nat
      /\ b \in Int /\ m \in Nat /\ Cells \in Nat /\ LastRow \in Nat
      /\ m = c + n /\ x = sb + c /\ y = x + n - d /\ b = sb - d /\ y < Cells
      /\ d > 0 => y >= LastRow
      /\ m <= LastRow
  <2>1. d \in Nat /\ n \in Nat /\ c \in Nat /\ m \in Nat
    BY <1>0, <1>2, <1>3
  <2>2. Cells \in Nat /\ LastRow \in Nat /\ m <= LastRow
    BY <1>0, Geometry
  <2> QED
    BY <1>51, <2>1, <2>2
<1>6. /\ y = b + m /\ b \in Nat
      /\ \A i \in 1 .. m :
           /\ b + i - 1 \in Nat /\ b + i - 1 < Cells
           /\ (b + i - 1) + d = sb + i - 1 /\ sb + i - 1 \in Nat
           /\ i <= c => i \in 1 .. c /\ sb + i - 1 \notin x .. x + n - 1
           /\ i > c => /\ i - c \in 1 .. n /\ c + (i - c) = i
                       /\ sb + i - 1 \in x .. x + n - 1 /\ (sb + i - 1) - x + 1 = i - c
      /\ \A p \in Nat : p >= b + m => p + d >= sb + m /\ p + d \notin x .. x + n - 1
  BY <1>7, WriteNumbers
<1>8. ASSUME NEW i \in 1 .. m
      PROVE  t.base + i - 1 \in Positions /\ t.cells[t.base + i - 1] = line[i]
  <2>1. PICK p \in Positions : p = b + i - 1
    <3>1. b + i - 1 \in Int /\ b + i - 1 >= 0 /\ b + i - 1 < Cells
      BY <1>6
    <3> QED
      BY <3>1, OnScreen
  <2>2. PICK a \in Nat : a = p + d /\ a = sb + i - 1
    BY <1>6, <2>1
  <2>3. t.cells[p] = Under(s, q, n, a)
    BY <1>4, <2>1, <2>2
  <2>4. CASE i <= c
    <3>1. i \in 1 .. c /\ a \notin x .. x + n - 1
      BY <1>6, <2>2, <2>4
    <3>2. a \in Positions /\ s.cells[a] = line[i]
      BY <1>0, <1>51, <2>2, <3>1 DEF Shows
    <3> QED
      BY <1>51, <2>1, <2>3, <3>1, <3>2 DEF Under
  <2>5. CASE i > c
    <3>1. PICK j \in 1 .. n : i = c + j /\ a \in x .. x + n - 1 /\ a - x + 1 = j
      BY <1>6, <2>2, <2>5
    <3>2. q[j] = line[i]
      BY <1>0, <1>2, <3>1
    <3>3. Under(s, q, n, a) = q[j]
      BY <1>51, <3>1 DEF Under
    <3> QED
      BY <1>51, <2>1, <2>3, <3>2, <3>3
  <2>6. i \in Nat
    BY <1>0
  <2> QED
    BY <1>0, <2>4, <2>5, <2>6
<1>9. ASSUME NEW e \in 0 .. m, BlankFrom(s, e) PROVE BlankFrom(t, m)
  <2>1. SUFFICES ASSUME NEW p \in Positions, p >= b + m PROVE t.cells[p] = Space
    BY <1>51 DEF BlankFrom
  <2>2. PICK a \in Nat : a = p + d /\ a >= sb + m /\ a \notin x .. x + n - 1
    <3>1. p \in Nat
      BY Geometry
    <3>2. p + d \in Nat
      BY <1>3, <3>1
    <3> QED
      BY <1>6, <2>1, <3>1, <3>2
  <2>4. t.cells[p] = IF a \in Positions THEN s.cells[a] ELSE Space
    BY <1>4, <1>51, <2>2 DEF Under
  <2>5. a >= s.base + e
    <3>1. e \in Nat /\ e <= m
      BY <1>7, <1>9
    <3>2. a >= sb + m
      BY <2>2
    <3>3. a >= sb + e
      BY <1>7, <3>1, <3>2
    <3> QED
      BY <1>51, <3>3
  <2> QED
    BY <1>9, <2>4, <2>5 DEF BlankFrom
<1>10. Shows(t, line, m)
  BY <1>8 DEF Shows
<1> QED
  BY <1>1, <1>3, <1>51, <1>6, <1>9, <1>10

(* The same, and the cursor goes back by k. *)
LEMMA Rewritten ==
  ASSUME NEW s, NEW c, NEW q, NEW line, NEW m, Unwritten(s, c, q, line, m),
         NEW k \in 0 .. m,
         NEW t, t = CursorLeft(Write(s, q), k)
  PROVE  /\ t \in Screen /\ t.base \in Nat /\ t.pos = t.base + (m - k) /\ t.base + m \in Positions
         /\ Shows(t, line, m)
         /\ \A e \in 0 .. m : BlankFrom(s, e) => BlankFrom(t, m)
<1>1. PICK w : w = Write(s, q)
  OBVIOUS
<1>2. /\ w \in Screen /\ w.base \in Nat /\ w.pos = w.base + m /\ Shows(w, line, m)
      /\ \A e \in 0 .. m : BlankFrom(s, e) => BlankFrom(w, m)
  <2>1. /\ Write(s, q) \in Screen /\ Write(s, q).base \in Nat
        /\ Write(s, q).pos = Write(s, q).base + m
        /\ Shows(Write(s, q), line, m)
        /\ \A e \in 0 .. m : BlankFrom(s, e) => BlankFrom(Write(s, q), m)
    BY WriteLine
  <2> QED
    BY <1>1, <2>1, Zenon
<1>0. c \in Nat /\ m \in Nat
  BY DEF Unwritten
<1>3. w.pos \in Positions /\ k \in Nat /\ w.pos >= k
  BY <1>0, <1>2 DEF Screen
<1>4. t \in Screen /\ t.pos = w.pos - k /\ t.base = w.base /\ t.cells = w.cells
  BY <1>1, <1>2, <1>3, CursorLeftIs
<1>5. Shows(t, line, m) /\ (BlankFrom(w, m) => BlankFrom(t, m))
  BY <1>2, <1>4, SameCells
<1>6. t.pos = t.base + (m - k) /\ t.base + m \in Positions
  BY <1>0, <1>2, <1>3, <1>4
<1> QED
  BY <1>2, <1>4, <1>5, <1>6

(* Neither a new line nor a text leaves anything behind the cursor. *)
LEMMA NewLineBehind ==
  ASSUME NEW s \in Screen, NEW e \in Nat, BlankBehind(s, e)
  PROVE  NewLine(s) \in Screen /\ BlankBehind(NewLine(s), e)
<1>0. PICK t : t = NewLine(s)
  OBVIOUS
<1>1. PICK d \in Nat, n \in 1 .. Cols :
        /\ Advanced(s, t, n, d)
        /\ \A p \in Positions : t.cells[p] = IF p + d \in Positions THEN s.cells[p + d] ELSE Space
  BY <1>0, NewLineIs, Zenon
<1>2. t \in Screen /\ t.pos = s.pos + n - d /\ n \in Nat
  BY <1>1, Geometry DEF Advanced
<1>3. s.pos \in Nat
  BY Geometry DEF Screen
<1>4. ASSUME NEW p \in Positions, p >= t.pos + e PROVE t.cells[p] = Space
  <2>1. PICK a \in Nat : a = p + d /\ a >= s.pos + e
    BY <1>1, <1>2, <1>3, <1>4, Geometry
  <2>2. t.cells[p] = IF a \in Positions THEN s.cells[a] ELSE Space
    BY <1>1, <2>1
  <2> QED
    BY <2>1, <2>2 DEF BlankBehind
<1> QED
  BY <1>0, <1>2, <1>4 DEF BlankBehind

LEMMA WriteBehind ==
  ASSUME NEW s \in Screen, NEW e \in Nat, BlankBehind(s, e), NEW q \in Seq(Glyphs)
  PROVE  Write(s, q) \in Screen /\ BlankBehind(Write(s, q), e)
<1>1. PICK t, d : t = Write(s, q) /\ Laid(s, t, q, Len(q), d)
  BY WriteIs
<1>2. PICK n \in Nat : n = Len(q)
  OBVIOUS
<1>3. t \in Screen /\ t.pos = s.pos + n - d /\ d \in Nat
  BY <1>1, <1>2 DEF Laid, Advanced
<1>4. s.pos \in Nat
  BY Geometry DEF Screen
<1>5. ASSUME NEW p \in Positions, p >= t.pos + e PROVE t.cells[p] = Space
  <2>1. PICK a \in Nat : a = p + d /\ a >= s.pos + n + e
    BY <1>2, <1>3, <1>4, <1>5, Geometry
  <2>2. a \notin s.pos .. s.pos + n - 1 /\ a >= s.pos + e
    BY <1>2, <1>4, <2>1
  <2>3. t.cells[p] = IF a \in Positions THEN s.cells[a] ELSE Space
    BY <1>1, <1>2, <2>1, <2>2 DEF Laid, Under
  <2> QED
    BY <2>2, <2>3 DEF BlankBehind
<1> QED
  BY <1>1, <1>3, <1>5 DEF BlankBehind

(* A line begins where the cursor is, with nothing on it. *)
LEMMA BeginIs ==
  ASSUME NEW s \in Screen
  PROVE  /\ Begin(s) \in Screen /\ Begin(s).base \in Nat /\ Begin(s).pos = Begin(s).base
         /\ Begin(s).base \in Positions
         /\ \A e \in Nat : BlankBehind(s, e) => BlankFrom(Begin(s), e)
<1>1. PICK t : t = Write(s, Prompt)
  OBVIOUS
<1>2. t \in Screen
  <2>1. PICK d : Laid(s, t, Prompt, Len(Prompt), d)
    BY <1>1, Glyphic, WriteIs
  <2> QED
    BY <2>1 DEF Laid, Advanced
<1>3. t.pos \in Positions /\ t.pos \in Nat /\ t.cells \in [Positions -> Glyphs]
  BY <1>2, Geometry DEF Screen
<1> DEFINE c == [p \in Positions |-> IF p < t.pos THEN Space ELSE t.cells[p]]
           u == [cells |-> c, pos |-> t.pos, base |-> t.pos]
<1>4. Begin(s) = u
  BY <1>1 DEF Begin
<1>5. c \in [Positions -> Glyphs]
  BY <1>3, Glyphic
<1>6. \A p \in Positions : p >= t.pos => c[p] = t.cells[p]
  BY <1>3, Geometry
<1> HIDE DEF c
<1>7. u \in Screen /\ u.base = t.pos /\ u.pos = t.pos /\ u.cells = c
  BY <1>2, <1>3, <1>5, Geometry DEF Screen
<1> HIDE DEF u
<1>8. ASSUME NEW e \in Nat, BlankBehind(s, e) PROVE BlankFrom(u, e)
  <2>1. BlankBehind(t, e)
    BY <1>1, <1>8, Glyphic, WriteBehind
  <2>2. ASSUME NEW p \in Positions, p >= u.base + e PROVE u.cells[p] = Space
    <3>1. p >= t.pos + e /\ p >= t.pos
      BY <1>3, <1>7, <2>2, Geometry
    <3> QED
      BY <1>6, <1>7, <2>1, <3>1 DEF BlankBehind
  <2> QED
    BY <2>2 DEF BlankFrom
<1> QED
  BY <1>3, <1>4, <1>7, <1>8

-------------------------------------------------------------------------------
(* The line. *)

Typeable == {l \in Seq(Glyphs) : Len(l) <= MaxLine}

(* The line and the screen agree. *)
LineOn(s, line, c) ==
  /\ s \in Screen /\ s.base \in Nat /\ s.pos = s.base + c
  /\ s.base + Len(line) \in Positions
  /\ Shows(s, line, Len(line))

LineOK(s, line, c, blank) ==
  /\ line \in Typeable /\ c \in 0 .. Len(line)
  /\ LineOn(s, line, c)
  /\ blank => BlankFrom(s, Len(line))

(* What Up and Down bring back is a line that can be typed. *)
HistOK ==
  hist \in Seq(Typeable) /\ histIdx \in -1 .. Len(hist) - 1 /\ saved \in Typeable

ReadInv == LineOK(screen, buf, cur, clean) /\ HistOK

LEMMA ReadInvShows == ReadInv => LineIsShown
<1> SUFFICES ASSUME ReadInv PROVE LineIsShown
  OBVIOUS
<1>1. PICK n \in Nat : n = Len(buf)
  BY DEF ReadInv, LineOK, Typeable
<1>2. /\ screen \in Screen /\ screen.base \in Nat /\ screen.pos = screen.base + cur
      /\ Shows(screen, buf, n) /\ (clean => BlankFrom(screen, n))
  BY <1>1 DEF ReadInv, LineOK, LineOn
<1>3. ASSUME NEW p \in Positions, p >= screen.base
      PROVE  LET i == p - screen.base + 1
             IN  IF i <= Len(buf) THEN screen.cells[p] = buf[i]
                 ELSE clean => screen.cells[p] = Space
  <2>1. PICK i \in Nat : i = p - screen.base + 1 /\ i >= 1 /\ p = screen.base + i - 1
    <3>1. p \in Nat
      BY Geometry
    <3> QED
      BY <1>2, <1>3, <3>1
  <2>2. CASE i <= n
    <3>1. i \in 1 .. n
      BY <1>1, <2>1, <2>2
    <3>2. screen.cells[p] = buf[i]
      BY <1>2, <2>1, <3>1 DEF Shows
    <3> QED
      BY <1>1, <2>1, <2>2, <3>2
  <2>3. CASE ~ (i <= n)
    <3>1. p >= screen.base + n
      BY <1>1, <1>2, <2>1, <2>3
    <3>2. clean => screen.cells[p] = Space
      BY <1>2, <3>1 DEF BlankFrom
    <3> QED
      BY <1>1, <2>1, <2>3, <3>2
  <2> QED
    BY <2>2, <2>3
<1> QED
  BY <1>2, <1>3 DEF LineIsShown

(* A new line on a screen. *)
LEMMA BeginShows ==
  ASSUME NEW s \in Screen
  PROVE  LineOn(Begin(s), <<>>, 0) /\ (BlankBehind(s, 0) => BlankFrom(Begin(s), 0))
<1>1. /\ Begin(s) \in Screen /\ Begin(s).base \in Nat /\ Begin(s).pos = Begin(s).base
      /\ Begin(s).base \in Positions
      /\ \A e \in Nat : BlankBehind(s, e) => BlankFrom(Begin(s), e)
  BY BeginIs
<1>2. Len(<<>>) = 0 /\ Begin(s).base + 0 = Begin(s).base
  BY <1>1
<1>3. Shows(Begin(s), <<>>, 0)
  BY DEF Shows
<1> QED
  BY <1>1, <1>2, <1>3 DEF LineOn

LEMMA NewLineScreen ==
  ASSUME NEW s \in Screen
  PROVE  NewLine(s) \in Screen
<1>0. PICK t : t = NewLine(s)
  OBVIOUS
<1>1. PICK d \in Nat, n \in 1 .. Cols :
        /\ Advanced(s, t, n, d)
        /\ \A p \in Positions : t.cells[p] = IF p + d \in Positions THEN s.cells[p + d] ELSE Space
  BY <1>0, NewLineIs, Zenon
<1> QED
  BY <1>0, <1>1 DEF Advanced

LEMMA ClearedScreen == Cleared \in Screen /\ BlankBehind(Cleared, 0)
<1>1. [p \in Positions |-> Space] \in [Positions -> Glyphs] /\ 0 \in Positions
  BY Glyphic, Geometry
<1>2. Cleared \in Screen
  BY <1>1 DEF Cleared, Screen
<1>3. BlankBehind(Cleared, 0)
  BY DEF BlankBehind, Cleared
<1> QED
  BY <1>2, <1>3

LEMMA EmptyLine == <<>> \in Typeable /\ Len(<<>>) = 0
BY Geometry DEF Typeable

LEMMA ReadBegins == ReadlineInit => ReadInv
<1> SUFFICES ASSUME ReadlineInit PROVE ReadInv
  OBVIOUS
<1>1. PICK s : s = NewLine(Cleared)
  OBVIOUS
<1>2. s \in Screen /\ BlankBehind(s, 0)
  BY <1>1, ClearedScreen, NewLineBehind
<1>3. screen = Begin(s) /\ buf = <<>> /\ cur = 0 /\ hist = <<>> /\ histIdx = -1 /\ saved = <<>>
  BY <1>1 DEF ReadlineInit
<1>4. LineOn(screen, <<>>, 0) /\ BlankFrom(screen, 0)
  BY <1>2, <1>3, BeginShows
<1>5. HistOK
  BY <1>3, EmptyLine DEF HistOK
<1> QED
  BY <1>3, <1>4, <1>5, EmptyLine DEF ReadInv, LineOK

(* Where the line was shown up to the cursor, and what follows is written. *)
KeepsBlank(s, old, t, line) == BlankFrom(s, Len(old)) => BlankFrom(t, Len(line))

Rewrites(s, old, c, q, line, a, k, t) ==
  /\ old \in Typeable /\ c \in 0 .. Len(old) /\ LineOn(s, old, c)
  /\ q \in Seq(Glyphs) /\ line \in Typeable /\ a \in 0 .. c /\ a + Len(q) = Len(line)
  /\ \A i \in 1 .. a : line[i] = old[i]
  /\ \A j \in 1 .. Len(q) : q[j] = line[a + j]
  /\ k \in 0 .. Len(line) /\ Len(old) <= Len(line)
  /\ t = CursorLeft(Write(CursorLeft(s, c - a), q), k)

LEMMA WritesOn ==
  ASSUME NEW s, NEW old, NEW c, NEW q, NEW line, NEW a, NEW k, NEW t,
         Rewrites(s, old, c, q, line, a, k, t)
  PROVE  /\ LineOn(t, line, Len(line) - k)
         /\ KeepsBlank(s, old, t, line)
<1>0. /\ old \in Typeable /\ c \in 0 .. Len(old) /\ LineOn(s, old, c)
      /\ q \in Seq(Glyphs) /\ line \in Typeable /\ a \in 0 .. c /\ a + Len(q) = Len(line)
      /\ k \in 0 .. Len(line) /\ Len(old) <= Len(line)
  BY DEF Rewrites
<1>00. /\ \A i \in 1 .. a : line[i] = old[i]
       /\ \A j \in 1 .. Len(q) : q[j] = line[a + j]
       /\ t = CursorLeft(Write(CursorLeft(s, c - a), q), k)
  BY DEF Rewrites
<1>1. PICK m \in Nat, n \in Nat, l \in Nat : m = Len(line) /\ n = Len(q) /\ l = Len(old) /\ m <= MaxLine
  <2>1. Len(line) \in Nat /\ Len(line) <= MaxLine
    BY <1>0 DEF Typeable
  <2>2. Len(old) \in Nat
    BY <1>0 DEF Typeable
  <2>3. Len(q) \in Nat
    BY <1>0
  <2> QED
    BY <2>1, <2>2, <2>3
<1>2. /\ s \in Screen /\ s.base \in Nat /\ s.pos = s.base + c /\ Shows(s, old, l)
      /\ s.base + l \in Positions
  BY <1>0, <1>1 DEF LineOn
<1>3. /\ a \in Nat /\ c \in Nat /\ a <= c /\ c <= l /\ a + n = m /\ c - a \in Nat /\ l <= m
      /\ k \in 0 .. m /\ k \in Nat /\ k <= m
  BY <1>0, <1>1
<1>4. PICK u : u = CursorLeft(s, c - a)
  OBVIOUS
<1>5. u \in Screen /\ u.pos = s.pos - (c - a) /\ u.base = s.base /\ u.cells = s.cells
  <2>1. s.pos >= c - a
    BY <1>2, <1>3
  <2> QED
    BY <1>2, <1>3, <1>4, <2>1, CursorLeftIs
<1>6. u.pos = u.base + a
  BY <1>2, <1>3, <1>5
<1>7. Shows(u, line, a)
  <2>1. ASSUME NEW i \in 1 .. a
        PROVE  u.base + i - 1 \in Positions /\ u.cells[u.base + i - 1] = line[i]
    <3>1. i \in 1 .. l
      BY <1>3
    <3>2. s.base + i - 1 \in Positions /\ s.cells[s.base + i - 1] = old[i]
      BY <1>2, <3>1 DEF Shows
    <3> QED
      BY <1>00, <1>5, <3>2
  <2> QED
    BY <2>1 DEF Shows
<1>8. Unwritten(u, a, q, line, m)
  BY <1>0, <1>00, <1>1, <1>2, <1>3, <1>5, <1>6, <1>7 DEF Unwritten
<1>9. t = CursorLeft(Write(u, q), k)
  BY <1>00, <1>4
<1>10. /\ t \in Screen /\ t.base \in Nat /\ t.pos = t.base + (m - k) /\ t.base + m \in Positions
       /\ Shows(t, line, m)
       /\ \A e \in 0 .. m : BlankFrom(u, e) => BlankFrom(t, m)
  BY <1>3, <1>8, <1>9, Rewritten
<1>11. BlankFrom(s, l) => BlankFrom(t, m)
  <2>1. BlankFrom(s, l) => BlankFrom(u, l)
    BY <1>5, SameCells
  <2>2. l \in 0 .. m
    BY <1>1, <1>3
  <2> QED
    BY <1>10, <2>1, <2>2
<1> QED
  BY <1>1, <1>10, <1>11 DEF LineOn, KeepsBlank

LEMMA Piece ==
  ASSUME NEW S, NEW b \in Seq(S), NEW i \in Nat, NEW j \in Nat, i >= 1, j <= Len(b), i <= j + 1
  PROVE  /\ SubSeq(b, i, j) \in Seq(S) /\ Len(SubSeq(b, i, j)) = j - i + 1
         /\ \A k \in 1 .. j - i + 1 : SubSeq(b, i, j)[k] = b[i + k - 1]
OBVIOUS

LEMMA Joint ==
  ASSUME NEW S, NEW p \in Seq(S), NEW q \in Seq(S)
  PROVE  /\ p \o q \in Seq(S) /\ Len(p \o q) = Len(p) + Len(q)
         /\ \A i \in 1 .. Len(p) : (p \o q)[i] = p[i]
         /\ \A j \in 1 .. Len(q) : (p \o q)[Len(p) + j] = q[j]
OBVIOUS

(* The first a characters of a line, and others behind them. *)
LEMMA Spliced ==
  ASSUME NEW S, NEW b \in Seq(S), NEW a \in 0 .. Len(b), NEW q \in Seq(S),
         NEW line, line = SubSeq(b, 1, a) \o q
  PROVE  /\ line \in Seq(S) /\ Len(line) = a + Len(q)
         /\ \A i \in 1 .. a : line[i] = b[i]
         /\ \A j \in 1 .. Len(q) : q[j] = line[a + j]
<1>1. PICK p : p = SubSeq(b, 1, a) /\ p \in Seq(S) /\ Len(p) = a /\ \A k \in 1 .. a : p[k] = b[k]
  <2>1. a \in Nat /\ a <= Len(b) /\ 1 <= a + 1 /\ a - 1 + 1 = a
    OBVIOUS
  <2>2. /\ SubSeq(b, 1, a) \in Seq(S) /\ Len(SubSeq(b, 1, a)) = a - 1 + 1
        /\ \A k \in 1 .. a - 1 + 1 : SubSeq(b, 1, a)[k] = b[1 + k - 1]
    BY <2>1, Piece
  <2>3. \A k \in 1 .. a : 1 + k - 1 = k
    OBVIOUS
  <2> QED
    BY <2>1, <2>2, <2>3
<1> QED
  BY <1>1, Joint

LEMMA Glued ==
  ASSUME NEW S, NEW p \in Seq(S), NEW q \in Seq(S), NEW r \in Seq(S)
  PROVE  (p \o q) \o r = p \o (q \o r)
OBVIOUS

LEMMA CursorStays ==
  ASSUME NEW s \in Screen
  PROVE  CursorLeft(s, 0) = s
BY Geometry DEF CursorLeft, Screen

(* A line that ends in spaces is shown: so is the line without them, and
   nothing behind it. *)
LEMMA TrailingSpaces ==
  ASSUME NEW t, NEW ext \in Seq(Glyphs), NEW c, LineOn(t, ext, c),
         NEW line \in Seq(Glyphs), Len(line) <= Len(ext),
         \A i \in 1 .. Len(line) : ext[i] = line[i],
         \A i \in Len(line) + 1 .. Len(ext) : ext[i] = Space
  PROVE  /\ LineOn(t, line, c)
         /\ BlankFrom(t, Len(ext)) => BlankFrom(t, Len(line))
<1>1. PICK m \in Nat, l \in Nat : m = Len(ext) /\ l = Len(line) /\ l <= m
  OBVIOUS
<1>2. t \in Screen /\ t.base \in Nat /\ t.pos = t.base + c /\ t.base + m \in Positions /\ Shows(t, ext, m)
  BY <1>1 DEF LineOn
<1>3. t.base + l \in Positions
  <2>1. t.base + m < Cells
    BY <1>2, Geometry
  <2>2. t.base + l \in Int /\ t.base + l >= 0 /\ t.base + l < Cells
    BY <1>1, <1>2, <2>1, Geometry
  <2> QED
    BY <2>2, OnScreen
<1>4. ASSUME NEW i \in 1 .. l
      PROVE  t.base + i - 1 \in Positions /\ t.cells[t.base + i - 1] = line[i]
  <2>1. i \in 1 .. m
    BY <1>1
  <2>2. ext[i] = line[i]
    BY <1>1
  <2> QED
    BY <1>2, <2>1, <2>2 DEF Shows
<1>5. ASSUME BlankFrom(t, m), NEW p \in Positions, p >= t.base + l PROVE t.cells[p] = Space
  <2>1. CASE p >= t.base + m
    BY <1>5, <2>1 DEF BlankFrom
  <2>2. CASE ~ (p >= t.base + m)
    <3>1. p \in Nat
      BY Geometry
    <3>2. PICK i \in Nat : i = p - t.base + 1 /\ i \in 1 .. m /\ i \in l + 1 .. m /\ p = t.base + i - 1
      <4>1. p - t.base + 1 \in Nat /\ p - t.base + 1 <= m /\ p - t.base + 1 >= l + 1
        BY <1>1, <1>2, <1>5, <2>2, <3>1
      <4>2. p = t.base + (p - t.base + 1) - 1
        BY <1>2, <3>1
      <4> QED
        BY <1>1, <4>1, <4>2
    <3>3. t.cells[p] = ext[i]
      BY <1>2, <3>2 DEF Shows
    <3>4. ext[i] = Space
      BY <1>1, <3>2
    <3> QED
      BY <3>3, <3>4
  <2> QED
    BY <2>1, <2>2
<1> QED
  BY <1>1, <1>2, <1>3, <1>4, <1>5 DEF LineOn, Shows, BlankFrom

LEMMA LineParts ==
  ASSUME LineOK(screen, buf, cur, clean)
  PROVE  /\ buf \in Seq(Glyphs) /\ Len(buf) \in Nat /\ Len(buf) <= MaxLine /\ MaxLine \in Nat
         /\ cur \in Nat /\ cur <= Len(buf) /\ screen \in Screen
         /\ Left = SubSeq(buf, 1, cur) /\ Left \in Seq(Glyphs)
         /\ RightPart \in Seq(Glyphs) /\ Len(RightPart) = Len(buf) - cur
         /\ \A k \in 1 .. Len(buf) - cur : RightPart[k] = buf[cur + k]
<1>1. buf \in Seq(Glyphs) /\ Len(buf) \in Nat /\ Len(buf) <= MaxLine
  BY DEF LineOK, Typeable
<1>2. PICK n \in Nat, c \in Nat : n = Len(buf) /\ c = cur /\ c <= n
  BY <1>1 DEF LineOK
<1>3. /\ SubSeq(buf, c + 1, n) \in Seq(Glyphs) /\ Len(SubSeq(buf, c + 1, n)) = n - (c + 1) + 1
      /\ \A k \in 1 .. n - (c + 1) + 1 : SubSeq(buf, c + 1, n)[k] = buf[c + 1 + k - 1]
  BY <1>1, <1>2, Piece
<1>4. n - (c + 1) + 1 = n - c /\ \A k \in 1 .. n - c : c + 1 + k - 1 = c + k
  BY <1>2
<1>5. SubSeq(buf, 1, c) \in Seq(Glyphs)
  BY <1>1, <1>2, Piece
<1>6. screen \in Screen /\ MaxLine \in Nat
  BY Geometry DEF LineOK, LineOn
<1> QED
  BY <1>1, <1>2, <1>3, <1>4, <1>5, <1>6 DEF Left, RightPart

(* The line gets other characters from its a-th on, and they are written
   where the cursor went back to. *)
LEMMA WritesLine ==
  ASSUME LineOK(screen, buf, cur, clean), NEW a \in 0 .. cur, NEW q \in Seq(Glyphs),
         NEW line, line = SubSeq(buf, 1, a) \o q, Len(line) <= MaxLine, Len(buf) <= Len(line),
         NEW k \in 0 .. Len(line), NEW t, t = CursorLeft(Write(CursorLeft(screen, cur - a), q), k)
  PROVE  /\ line \in Typeable /\ LineOn(t, line, Len(line) - k)
         /\ clean => BlankFrom(t, Len(line))
<1>1. /\ buf \in Seq(Glyphs) /\ Len(buf) \in Nat /\ cur \in Nat /\ cur <= Len(buf)
  BY LineParts
<1>2. a \in 0 .. Len(buf)
  BY <1>1
<1>3. /\ line \in Seq(Glyphs) /\ Len(line) = a + Len(q)
      /\ \A i \in 1 .. a : line[i] = buf[i]
      /\ \A j \in 1 .. Len(q) : q[j] = line[a + j]
  BY <1>1, <1>2, Spliced
<1>4. line \in Typeable
  BY <1>3 DEF Typeable
<1>5. /\ buf \in Typeable /\ cur \in 0 .. Len(buf) /\ LineOn(screen, buf, cur)
      /\ clean => BlankFrom(screen, Len(buf))
  BY DEF LineOK
<1>6. a + Len(q) = Len(line)
  BY <1>3
<1>7. Rewrites(screen, buf, cur, q, line, a, k, t)
  BY <1>3, <1>4, <1>5, <1>6 DEF Rewrites
<1>8. LineOn(t, line, Len(line) - k)
  BY <1>7, WritesOn
<1>9. KeepsBlank(screen, buf, t, line)
  BY <1>7, WritesOn
<1> QED
  BY <1>4, <1>5, <1>8, <1>9 DEF KeepsBlank

LEMMA InsertShows ==
  ASSUME LineOK(screen, buf, cur, clean), NEW ch \in Glyphs, Insert(ch)
  PROVE  LineOK(screen', buf', cur', clean')
<1>1. /\ buf \in Seq(Glyphs) /\ Len(buf) \in Nat /\ Len(buf) <= MaxLine /\ MaxLine \in Nat
      /\ cur \in Nat /\ cur <= Len(buf) /\ screen \in Screen
      /\ Left = SubSeq(buf, 1, cur) /\ Left \in Seq(Glyphs)
      /\ RightPart \in Seq(Glyphs) /\ Len(RightPart) = Len(buf) - cur
  BY LineParts
<1>2. PICK q : q = <<ch>> \o RightPart
  OBVIOUS
<1>3. q \in Seq(Glyphs) /\ Len(q) = Len(buf) - cur + 1
  BY <1>1, <1>2
<1>4. buf' = SubSeq(buf, 1, cur) \o q
  <2>1. buf' = (Left \o <<ch>>) \o RightPart
    BY DEF Insert
  <2>2. (Left \o <<ch>>) \o RightPart = Left \o (<<ch>> \o RightPart)
    <3>1. Left \in Seq(Glyphs) /\ RightPart \in Seq(Glyphs)
      BY <1>1
    <3> QED
      BY <3>1
  <2> QED
    BY <1>1, <1>2, <2>1, <2>2, Zenon
<1>5. cur \in 0 .. Len(buf)
  BY <1>1
<1>6. Len(buf') = Len(buf) + 1
  <2>1. Len(buf') = cur + Len(q)
    BY <1>1, <1>3, <1>4, <1>5, Spliced
  <2> QED
    BY <1>1, <1>3, <2>1
<1>7. Len(buf) < MaxLine /\ cur' = cur + 1 /\ clean' = clean
  BY DEF Insert
<1>8. PICK k \in 0 .. Len(buf') : k = Len(RightPart) /\ Len(buf') - k = cur'
  BY <1>1, <1>6, <1>7
<1>9. screen' = CursorLeft(Write(CursorLeft(screen, cur - cur), q), k)
  <2>1. CursorLeft(screen, cur - cur) = screen
    BY <1>1, CursorStays
  <2> QED
    BY <1>2, <1>8, <2>1 DEF Insert
<1>10. Len(buf') <= MaxLine /\ Len(buf) <= Len(buf') /\ cur \in 0 .. cur /\ cur' \in 0 .. Len(buf')
  BY <1>1, <1>6, <1>7
<1>11. /\ buf' \in Typeable /\ LineOn(screen', buf', Len(buf') - k)
       /\ clean => BlankFrom(screen', Len(buf'))
  BY <1>3, <1>4, <1>9, <1>10, WritesLine
<1> QED
  BY <1>7, <1>8, <1>10, <1>11 DEF LineOK

(* Backspace and Delete: what follows the character that is gone, and a space. *)
LEMMA RedrawShows ==
  ASSUME LineOK(screen, buf, cur, clean), NEW a \in 0 .. cur, NEW r \in Seq(Glyphs),
         a + Len(r) + 1 = Len(buf),
         NEW line, line = SubSeq(buf, 1, a) \o r,
         NEW t, t = Redraw(CursorLeft(screen, cur - a), r)
  PROVE  LineOK(t, line, a, clean)
<1>1. PICK n \in Nat, m \in Nat : /\ n = Len(buf) /\ m = Len(r) /\ n <= MaxLine
                                  /\ buf \in Seq(Glyphs) /\ cur \in Nat /\ cur <= n
  BY LineParts
<1>2. a \in Nat /\ a \in 0 .. n /\ a + m + 1 = n /\ a \in 0 .. Len(buf)
  BY <1>1
<1>3. PICK q : q = r \o <<Space>> /\ q \in Seq(Glyphs) /\ Len(q) = m + 1
               /\ (\A i \in 1 .. m : q[i] = r[i]) /\ q[m + 1] = Space
  <2>1. <<Space>> \in Seq(Glyphs) /\ Len(<<Space>>) = 1 /\ <<Space>>[1] = Space
    BY Glyphic
  <2>2. PICK z \in Seq(Glyphs) : z = <<Space>>
    BY <2>1
  <2>3. /\ r \o z \in Seq(Glyphs) /\ Len(r \o z) = Len(r) + Len(z)
        /\ \A i \in 1 .. Len(r) : (r \o z)[i] = r[i]
        /\ \A j \in 1 .. Len(z) : (r \o z)[Len(r) + j] = z[j]
    BY Joint
  <2>4. Len(z) = 1 /\ z[1] = Space /\ 1 \in 1 .. Len(z)
    BY <2>1, <2>2
  <2> QED
    BY <1>1, <2>2, <2>3, <2>4
<1>4. PICK ext : ext = SubSeq(buf, 1, a) \o q
  OBVIOUS
<1>5. /\ ext \in Seq(Glyphs) /\ Len(ext) = n
      /\ \A i \in 1 .. a : ext[i] = buf[i]
      /\ \A j \in 1 .. m + 1 : q[j] = ext[a + j]
  <2>1. /\ ext \in Seq(Glyphs) /\ Len(ext) = a + Len(q)
        /\ \A i \in 1 .. a : ext[i] = buf[i]
        /\ \A j \in 1 .. Len(q) : q[j] = ext[a + j]
    <3>1. buf \in Seq(Glyphs) /\ q \in Seq(Glyphs) /\ a \in 0 .. Len(buf)
      BY <1>1, <1>2, <1>3
    <3> QED
      BY <1>4, <3>1, Spliced
  <2>2. m \in Nat /\ a \in Nat /\ a + m + 1 = n /\ Len(q) = m + 1
    BY <1>1, <1>2, <1>3
  <2>3. a + (m + 1) = n
    BY <2>2
  <2> QED
    BY <2>1, <2>2, <2>3, Zenon
<1>6. /\ line \in Seq(Glyphs) /\ Len(line) = a + m
      /\ \A i \in 1 .. a : line[i] = buf[i]
      /\ \A j \in 1 .. m : r[j] = line[a + j]
  <2>1. buf \in Seq(Glyphs) /\ a \in 0 .. Len(buf)
    BY <1>1, <1>2
  <2>2. /\ line \in Seq(Glyphs) /\ Len(line) = a + Len(r)
        /\ \A i \in 1 .. a : line[i] = buf[i]
        /\ \A j \in 1 .. Len(r) : r[j] = line[a + j]
    BY <2>1, Spliced
  <2> QED
    BY <1>1, <2>2
<1>7. t = CursorLeft(Write(CursorLeft(screen, cur - a), q), m + 1)
  BY <1>1, <1>3 DEF Redraw
<1>8. /\ LineOn(t, ext, n - (m + 1)) /\ (clean => BlankFrom(t, n))
  <2>1. m + 1 \in 0 .. Len(ext) /\ Len(ext) <= MaxLine /\ Len(buf) <= Len(ext)
    BY <1>1, <1>2, <1>5
  <2>2. /\ LineOn(t, ext, Len(ext) - (m + 1))
        /\ clean => BlankFrom(t, Len(ext))
    BY <1>3, <1>4, <1>7, <2>1, WritesLine
  <2> QED
    BY <1>5, <2>2
<1>9. n - (m + 1) = a
  BY <1>1, <1>2
<1>10. LineOn(t, line, a) /\ (BlankFrom(t, n) => BlankFrom(t, Len(line)))
  <2>1. Len(line) <= Len(ext)
    BY <1>1, <1>2, <1>5, <1>6
  <2>2. ASSUME NEW i \in 1 .. Len(line) PROVE ext[i] = line[i]
    <3>1. CASE i <= a
      BY <1>2, <1>5, <1>6, <3>1
    <3>2. CASE i > a
      <4>1. PICK j \in 1 .. m : i = a + j /\ j \in 1 .. m + 1
        <5>1. i - a \in 1 .. m /\ i = a + (i - a)
          BY <1>1, <1>2, <1>6, <3>2
        <5> QED
          BY <1>1, <5>1
      <4> QED
        BY <1>3, <1>5, <1>6, <4>1
    <3> QED
      BY <1>1, <1>2, <1>6, <3>1, <3>2
  <2>3. ASSUME NEW i \in Len(line) + 1 .. Len(ext) PROVE ext[i] = Space
    <3>1. i = a + (m + 1) /\ m + 1 \in 1 .. m + 1
      <4>1. m \in Nat /\ a \in Nat /\ a + m + 1 = n /\ Len(line) = a + m /\ Len(ext) = n
        BY <1>1, <1>2, <1>5, <1>6
      <4>2. a + m + 1 = n /\ n \in Nat /\ i \in n .. n
        BY <1>1, <4>1
      <4> QED
        BY <4>1, <4>2
    <3> QED
      BY <1>3, <1>5, <3>1
  <2>4. LineOn(t, ext, a)
    BY <1>8, <1>9
  <2>5. LineOn(t, line, a) /\ (BlankFrom(t, Len(ext)) => BlankFrom(t, Len(line)))
    BY <1>5, <1>6, <2>1, <2>2, <2>3, <2>4, TrailingSpaces
  <2> QED
    BY <1>5, <2>5
<1>11. line \in Typeable /\ a \in 0 .. Len(line)
  <2>1. m \in Nat /\ a \in Nat /\ Len(line) = a + m /\ a + m <= MaxLine
    <3>1. m \in Nat /\ a \in Nat /\ n \in Nat /\ a + m + 1 = n /\ n <= MaxLine /\ MaxLine \in Nat
      BY <1>1, <1>2, Geometry
    <3> QED
      BY <1>6, <3>1
  <2>2. a \in 0 .. Len(line)
    BY <2>1
  <2> QED
    BY <1>6, <2>1, <2>2 DEF Typeable
<1> QED
  BY <1>8, <1>10, <1>11 DEF LineOK

LEMMA BackspaceShows ==
  ASSUME LineOK(screen, buf, cur, clean), Backspace
  PROVE  LineOK(screen', buf', cur', clean')
<1>1. /\ Len(buf) \in Nat /\ cur \in Nat /\ cur <= Len(buf)
      /\ RightPart \in Seq(Glyphs) /\ Len(RightPart) = Len(buf) - cur
  BY LineParts
<1>2. /\ cur > 0 /\ buf' = SubSeq(buf, 1, cur - 1) \o RightPart /\ cur' = cur - 1
      /\ screen' = Redraw(CursorLeft(screen, 1), RightPart) /\ clean' = clean
  BY DEF Backspace
<1>3. cur - 1 \in 0 .. cur /\ (cur - 1) + Len(RightPart) + 1 = Len(buf) /\ cur - (cur - 1) = 1
  BY <1>1, <1>2
<1>4. LineOK(screen', buf', cur - 1, clean)
  BY <1>1, <1>2, <1>3, RedrawShows
<1> QED
  BY <1>2, <1>4

LEMMA DeleteShows ==
  ASSUME LineOK(screen, buf, cur, clean), Delete
  PROVE  LineOK(screen', buf', cur', clean')
<1>1. /\ Len(buf) \in Nat /\ cur \in Nat /\ cur <= Len(buf) /\ screen \in Screen
      /\ RightPart \in Seq(Glyphs) /\ Len(RightPart) = Len(buf) - cur
  BY LineParts
<1>2. /\ cur < Len(buf) /\ buf' = SubSeq(buf, 1, cur) \o Tail(RightPart) /\ cur' = cur
      /\ screen' = Redraw(screen, Tail(RightPart)) /\ clean' = clean
  BY DEF Delete, Left
<1>3. Tail(RightPart) \in Seq(Glyphs) /\ Len(Tail(RightPart)) = Len(RightPart) - 1
  BY <1>1, <1>2
<1>4. cur \in 0 .. cur /\ cur + Len(Tail(RightPart)) + 1 = Len(buf) /\ cur - cur = 0
  BY <1>1, <1>2, <1>3
<1>5. CursorLeft(screen, cur - cur) = screen
  BY <1>1, <1>4, CursorStays
<1>6. LineOK(screen', buf', cur, clean)
  BY <1>2, <1>3, <1>4, <1>5, RedrawShows
<1> QED
  BY <1>2, <1>6

LEMMA MoveShows ==
  ASSUME LineOK(screen, buf, cur, clean), Move
  PROVE  LineOK(screen', buf', cur', clean')
<1>1. /\ Len(buf) \in Nat /\ cur \in Nat /\ cur <= Len(buf) /\ screen \in Screen
  BY LineParts
<1>2. PICK to \in 0 .. Len(buf) :
        /\ cur' = to
        /\ screen' = IF to < cur THEN CursorLeft(screen, cur - to) ELSE CursorRight(screen, to - cur)
  BY DEF Move
<1>3. buf' = buf /\ clean' = clean
  BY DEF Move
<1>4. /\ screen.base \in Nat /\ screen.pos = screen.base + cur /\ Shows(screen, buf, Len(buf))
      /\ screen.base + Len(buf) \in Positions
  BY DEF LineOK, LineOn
<1>5. /\ screen' \in Screen /\ screen'.pos = screen.base + to /\ screen'.base = screen.base
      /\ screen'.cells = screen.cells
  <2>1. CASE to < cur
    <3>1. cur - to \in Nat /\ screen.pos >= cur - to /\ screen.pos - (cur - to) = screen.base + to
      BY <1>1, <1>4, <2>1
    <3> QED
      BY <1>1, <1>2, <2>1, <3>1, CursorLeftIs
  <2>2. CASE ~ (to < cur)
    <3>1. to - cur \in Nat /\ screen.pos + (to - cur) = screen.base + to
      BY <1>1, <1>4, <2>2
    <3>2. screen.base + to \in Positions
      <4>1. screen.base + Len(buf) < Cells
        BY <1>4, Geometry
      <4>2. screen.base + to \in Int /\ screen.base + to >= 0 /\ screen.base + to < Cells
        BY <1>1, <1>4, <4>1, Geometry
      <4> QED
        BY <4>2, OnScreen
    <3> QED
      BY <1>1, <1>2, <2>2, <3>1, <3>2, CursorRightIs
  <2> QED
    BY <2>1, <2>2
<1>6. Shows(screen', buf, Len(buf)) /\ (BlankFrom(screen, Len(buf)) => BlankFrom(screen', Len(buf)))
  BY <1>4, <1>5, SameCells
<1>7. LineOn(screen', buf, to)
  BY <1>4, <1>5, <1>6 DEF LineOn
<1> QED
  BY <1>2, <1>3, <1>6, <1>7 DEF LineOK

LEMMA EraseShows ==
  ASSUME LineOK(screen, buf, cur, clean)
  PROVE  LineOK(Erase(screen), <<>>, 0, clean)
<1>1. PICK n \in Nat : n = Len(buf) /\ n <= MaxLine /\ cur \in Nat /\ cur <= n
  BY LineParts
<1>2. PICK sp : sp = [i \in 1 .. n |-> Space]
  OBVIOUS
<1>3. sp \in Seq(Glyphs) /\ Len(sp) = n /\ \A i \in 1 .. n : sp[i] = Space
  BY <1>2, Glyphic
<1>4. PICK t : t = Erase(screen)
  OBVIOUS
<1>5. t = CursorLeft(Write(CursorLeft(screen, cur - 0), sp), n)
  <2>1. cur - 0 = cur
    BY <1>1
  <2> QED
    BY <1>1, <1>2, <1>4, <2>1 DEF Erase, Spaces
<1>6. /\ buf \in Typeable /\ cur \in 0 .. Len(buf) /\ LineOn(screen, buf, cur)
      /\ clean => BlankFrom(screen, Len(buf))
  BY DEF LineOK
<1>7. sp \in Typeable
  BY <1>1, <1>3 DEF Typeable
<1>8. Rewrites(screen, buf, cur, sp, sp, 0, n, t)
  BY <1>1, <1>3, <1>5, <1>6, <1>7 DEF Rewrites
<1>9. LineOn(t, sp, Len(sp) - n)
  BY <1>8, WritesOn
<1>10. KeepsBlank(screen, buf, t, sp)
  BY <1>8, WritesOn
<1>11. LineOn(t, sp, 0)
  BY <1>1, <1>3, <1>9
<1>12. <<>> \in Seq(Glyphs) /\ Len(<<>>) = 0 /\ Len(<<>>) <= Len(sp)
       /\ (\A i \in 1 .. Len(<<>>) : sp[i] = <<>>[i])
       /\ (\A i \in Len(<<>>) + 1 .. Len(sp) : sp[i] = Space)
  BY <1>3
<1>13. LineOn(t, <<>>, 0) /\ (BlankFrom(t, Len(sp)) => BlankFrom(t, Len(<<>>)))
  BY <1>3, <1>11, <1>12, TrailingSpaces
<1> QED
  BY <1>4, <1>6, <1>10, <1>13, EmptyLine DEF KeepsBlank, LineOK

(* A line is written where nothing lies, or nothing but what it covers. *)
LEMMA WriteFresh ==
  ASSUME NEW s, LineOn(s, <<>>, 0), NEW line \in Typeable, NEW k \in 0 .. Len(line),
         NEW t, t = CursorLeft(Write(s, line), k)
  PROVE  /\ LineOn(t, line, Len(line) - k)
         /\ \A e \in 0 .. Len(line) : BlankFrom(s, e) => BlankFrom(t, Len(line))
<1>1. PICK m \in Nat : m = Len(line) /\ m <= MaxLine /\ line \in Seq(Glyphs) /\ k \in 0 .. m
  BY DEF Typeable
<1>2. s \in Screen /\ s.base \in Nat /\ s.pos = s.base + 0
  BY DEF LineOn
<1>3. Shows(s, line, 0)
  BY DEF Shows
<1>4. 0 \in Nat /\ m = 0 + Len(line) /\ \A j \in 1 .. Len(line) : line[j] = line[0 + j]
  BY <1>1
<1>5. Unwritten(s, 0, line, line, m)
  BY <1>1, <1>2, <1>3, <1>4 DEF Unwritten
<1>6. /\ t \in Screen /\ t.base \in Nat /\ t.pos = t.base + (m - k) /\ t.base + m \in Positions
      /\ Shows(t, line, m)
      /\ \A e \in 0 .. m : BlankFrom(s, e) => BlankFrom(t, m)
  BY <1>1, <1>5, Rewritten
<1> QED
  BY <1>1, <1>6 DEF LineOn

LEMMA WriteScreen ==
  ASSUME NEW s \in Screen, NEW q \in Seq(Glyphs)
  PROVE  Write(s, q) \in Screen
<1>1. PICK d : Laid(s, Write(s, q), q, Len(q), d)
  BY WriteIs
<1> QED
  BY <1>1 DEF Laid, Advanced

LEMMA RecallShows ==
  ASSUME ReadInv, NEW idx \in -1 .. Len(hist) - 1, Recall(idx)
  PROVE  ReadInv'
<1>1. LineOK(screen, buf, cur, clean) /\ HistOK
  BY DEF ReadInv
<1>2. hist \in Seq(Typeable) /\ saved \in Typeable /\ buf \in Typeable /\ Len(hist) \in Nat
  BY <1>1 DEF HistOK, LineOK
<1>3. /\ histIdx' = idx /\ hist' = hist /\ clean' = clean
      /\ saved' = IF idx = -1 THEN <<>> ELSE IF histIdx = -1 THEN buf ELSE saved
      /\ buf' = IF idx = -1 THEN saved ELSE hist[idx + 1]
      /\ cur' = Len(buf') /\ screen' = Write(Erase(screen), buf')
  BY DEF Recall
<1>4. buf' \in Typeable
  <2>1. idx # -1 => idx + 1 \in 1 .. Len(hist)
    BY <1>2
  <2>2. idx # -1 => hist[idx + 1] \in Typeable
    BY <1>2, <2>1
  <2> QED
    BY <1>2, <1>3, <2>2
<1>5. HistOK'
  <2>1. saved' \in Typeable
    BY <1>2, <1>3, EmptyLine
  <2> QED
    BY <1>2, <1>3, <2>1 DEF HistOK
<1>6. LineOK(Erase(screen), <<>>, 0, clean)
  BY <1>1, EraseShows
<1>7. LineOn(Erase(screen), <<>>, 0) /\ (clean => BlankFrom(Erase(screen), 0)) /\ Erase(screen) \in Screen
  BY <1>6, EmptyLine DEF LineOK, LineOn
<1>8. PICK line \in Typeable : line = buf' /\ line \in Seq(Glyphs) /\ Len(line) \in Nat
  BY <1>4 DEF Typeable
<1>9. screen' = CursorLeft(Write(Erase(screen), line), 0)
  <2>1. Write(Erase(screen), line) \in Screen
    BY <1>7, <1>8, WriteScreen
  <2> QED
    BY <1>3, <1>8, <2>1, CursorStays
<1>10. 0 \in 0 .. Len(line) /\ Len(line) - 0 = Len(line) /\ Len(line) \in 0 .. Len(line)
  BY <1>8
<1>11. /\ LineOn(screen', line, Len(line) - 0)
       /\ \A e \in 0 .. Len(line) : BlankFrom(Erase(screen), e) => BlankFrom(screen', Len(line))
  BY <1>7, <1>8, <1>9, <1>10, WriteFresh
<1>12. LineOK(screen', buf', cur', clean')
  BY <1>3, <1>7, <1>8, <1>10, <1>11 DEF LineOK
<1> QED
  BY <1>5, <1>12 DEF ReadInv

LEMMA UpDownShow ==
  ASSUME ReadInv, Up \/ Down
  PROVE  ReadInv'
<1>1. Len(hist) \in Nat /\ histIdx \in -1 .. Len(hist) - 1
  BY DEF ReadInv, HistOK
<1>2. CASE Up
  <2>1. PICK idx \in -1 .. Len(hist) - 1 : idx = histIdx + 1
    BY <1>1, <1>2 DEF Up
  <2>2. Recall(idx)
    BY <1>2, <2>1 DEF Up
  <2> QED
    BY <2>2, RecallShows
<1>3. CASE Down
  <2>1. PICK idx \in -1 .. Len(hist) - 1 : idx = histIdx - 1
    BY <1>1, <1>3 DEF Down
  <2>2. Recall(idx)
    BY <1>3, <2>1 DEF Down
  <2> QED
    BY <2>2, RecallShows
<1> QED
  BY <1>2, <1>3

LEMMA PushKeeps ==
  ASSUME hist \in Seq(Typeable), NEW line \in Typeable
  PROVE  Push(line) \in Seq(Typeable)
<1>1. CASE line = <<>> \/ (hist # <<>> /\ line = Head(hist))
  BY <1>1 DEF Push
<1>2. CASE ~ (line = <<>> \/ (hist # <<>> /\ line = Head(hist)))
  <2>1. PICK h \in Seq(Typeable) : h = <<line>> \o hist
    <3>1. <<line>> \in Seq(Typeable)
      OBVIOUS
    <3>2. <<line>> \o hist \in Seq(Typeable)
      BY <3>1, Joint
    <3> QED
      BY <3>2
  <2>2. PICK n \in Nat : n = (IF Len(h) > HistMax THEN HistMax ELSE Len(h)) /\ n <= Len(h) /\ 1 <= n + 1
    BY <2>1, ReadlineAssumption
  <2>3. SubSeq(h, 1, n) \in Seq(Typeable)
    BY <2>1, <2>2, Piece
  <2> QED
    BY <1>2, <2>1, <2>2, <2>3 DEF Push
<1> QED
  BY <1>1, <1>2

LEMMA AgainShows ==
  ASSUME ReadInv, NEW s \in Screen, NEW line \in Typeable, Again(s, line)
  PROVE  ReadInv'
<1>1. hist' = Push(line) /\ buf' = <<>> /\ cur' = 0 /\ histIdx' = -1 /\ saved' = <<>>
  BY DEF Again
<1>2. screen' = Begin(NewLine(s)) /\ (clean' => \A p \in Positions : p >= screen'.base => screen'.cells[p] = Space)
  BY DEF Again
<1>3. NewLine(s) \in Screen
  BY NewLineScreen
<1>4. LineOn(screen', <<>>, 0)
  BY <1>2, <1>3, BeginShows
<1>5. clean' => BlankFrom(screen', 0)
  <2>1. screen'.base + 0 = screen'.base
    BY <1>4 DEF LineOn
  <2> QED
    BY <1>2, <2>1 DEF BlankFrom
<1>6. HistOK'
  <2>1. hist' \in Seq(Typeable)
    BY <1>1, PushKeeps DEF ReadInv, HistOK
  <2>2. Len(hist') \in Nat
    BY <2>1
  <2> QED
    BY <1>1, <2>1, <2>2, EmptyLine DEF HistOK
<1> QED
  BY <1>1, <1>4, <1>5, <1>6, EmptyLine DEF ReadInv, LineOK

LEMMA EnterShows ==
  ASSUME ReadInv, Enter \/ SwitchTerminal
  PROVE  ReadInv'
<1>1. LineOK(screen, buf, cur, clean)
  BY DEF ReadInv
<1>2. screen \in Screen /\ buf \in Typeable
  BY <1>1 DEF LineOK, LineOn
<1>3. CASE Enter
  <2>1. PICK s \in {NewLine(screen), NewLine(NewLine(screen)), Cleared} : Again(s, buf)
    BY <1>3 DEF Enter
  <2>2. s \in Screen
    BY <1>2, <2>1, NewLineScreen, ClearedScreen
  <2> QED
    BY <1>2, <2>1, <2>2, AgainShows
<1>4. CASE SwitchTerminal
  <2>1. Erase(screen) \in Screen
    BY <1>1, EraseShows DEF LineOK, LineOn
  <2>2. NewLine(Write(Erase(screen), Refusal)) \in Screen
    BY <2>1, Glyphic, WriteScreen, NewLineScreen
  <2>3. PICK s \in {Erase(screen), NewLine(Write(Erase(screen), Refusal))} : Again(s, <<>>)
    BY <1>4 DEF SwitchTerminal
  <2> QED
    BY <2>1, <2>2, <2>3, EmptyLine, AgainShows
<1> QED
  BY <1>3, <1>4

(* The word that Tab completes begins where the last space ends. *)
LEMMA WordStartIs ==
  ASSUME cur \in Nat
  PROVE  WordStart \in 0 .. cur
<1> DEFINE P(w) == /\ w = 0 \/ buf[w] = Space
                   /\ \A k \in w + 1 .. cur : buf[k] # Space
           T == {w \in 0 .. cur : \A k \in w + 1 .. cur : buf[k] # Space}
<1>1. cur \in T
  OBVIOUS
<1>2. PICK w \in T : \A y \in T : w <= y
  <2>1. T \subseteq Nat /\ T # {}
    BY <1>1
  <2> HIDE DEF T
  <2> QED
    BY <2>1, LeastNat
<1>3. w \in 0 .. cur /\ w \in Nat
  BY <1>2
<1>4. w = 0 \/ buf[w] = Space
  <2> SUFFICES ASSUME w # 0, buf[w] # Space PROVE FALSE
    OBVIOUS
  <2>1. w - 1 \in 0 .. cur /\ (w - 1) + 1 = w
    BY <1>3
  <2>2. \A k \in w .. cur : k = w \/ k \in w + 1 .. cur
    BY <1>3
  <2>3. \A k \in (w - 1) + 1 .. cur : buf[k] # Space
    BY <1>2, <2>1, <2>2
  <2>4. w - 1 \in T
    BY <2>1, <2>3
  <2>5. w <= w - 1
    BY <1>2, <2>4
  <2> QED
    BY <1>3, <2>5
<1>5. P(w)
  BY <1>2, <1>4
<1>6. WordStart = CHOOSE v \in 0 .. cur : P(v)
  BY DEF WordStart
<1> HIDE DEF P, T
<1> QED
  BY <1>3, <1>5, <1>6, Zenon

LEMMA TypedIs ==
  ASSUME LineOK(screen, buf, cur, clean)
  PROVE  Typed \in Seq(Glyphs) /\ Len(Typed) \in Nat
<1>1. buf \in Seq(Glyphs) /\ cur \in Nat /\ Len(buf) \in Nat /\ cur <= Len(buf)
  BY LineParts
<1>2. PICK w \in Nat : w = WordStart /\ w <= cur
  BY <1>1, WordStartIs
<1>3. w + 1 \in Nat /\ w + 1 >= 1 /\ w + 1 <= cur + 1
  BY <1>1, <1>2
<1>4. SubSeq(buf, w + 1, cur) \in Seq(Glyphs)
  BY <1>1, <1>3, Piece
<1> QED
  BY <1>2, <1>4 DEF Typed

LEMMA FoundIs ==
  /\ IsFiniteSet(Found)
  /\ \A f \in Found : f[2] \in Seq(Glyphs) /\ IsPrefix(Typed, f[2])
<1> DEFINE C == {<<i, Cmds[i]>> : i \in DOMAIN Cmds}
           F == {<<0, n>> : n \in Files}
<1>1. IsFiniteSet(C)
  <2>1. PICK k \in Nat : DOMAIN Cmds = 1 .. k
    BY ReadlineAssumption
  <2>2. IsFiniteSet(DOMAIN Cmds)
    BY <2>1, FS_Interval
  <2> DEFINE g == [i \in DOMAIN Cmds |-> <<i, Cmds[i]>>]
  <2>3. g \in Surjection(DOMAIN Cmds, C)
    BY DEF Surjection
  <2> HIDE DEF g, C
  <2> QED
    BY <2>2, <2>3, FS_Surjection
<1>2. IsFiniteSet(F)
  <2>1. IsFiniteSet({0} \X Files)
    BY ReadlineAssumption, FS_Singleton, FS_Product
  <2>2. F = {0} \X Files
    OBVIOUS
  <2> QED
    BY <2>1, <2>2
<1>3. Found \subseteq C \cup F
  BY DEF Found, Matching
<1>4. IsFiniteSet(C \cup F)
  <2> HIDE DEF C, F
  <2> QED
    BY <1>1, <1>2, FS_Union
<1>5. IsFiniteSet(Found)
  <2> HIDE DEF C, F
  <2> QED
    BY <1>3, <1>4, FS_Subset
<1>6. ASSUME NEW f \in Found PROVE f[2] \in Seq(Glyphs) /\ IsPrefix(Typed, f[2])
  <2>1. CASE \E i \in DOMAIN Cmds : f = <<i, Cmds[i]>> /\ IsPrefix(Typed, Cmds[i])
    BY <2>1, Glyphic
  <2>2. CASE \E n \in Files : f = <<0, n>> /\ IsPrefix(Typed, n)
    BY <2>2, Glyphic
  <2> QED
    BY <1>6, <2>1, <2>2 DEF Found, Matching
<1> QED
  BY <1>5, <1>6

LEMMA CompleteShows ==
  ASSUME ReadInv, Complete
  PROVE  ReadInv'
<1>0. LineOK(screen, buf, cur, clean) /\ HistOK
  BY DEF ReadInv
<1>1. /\ buf \in Seq(Glyphs) /\ Len(buf) \in Nat /\ Len(buf) <= MaxLine /\ MaxLine \in Nat
      /\ cur \in Nat /\ cur <= Len(buf) /\ screen \in Screen
      /\ Left = SubSeq(buf, 1, cur) /\ Left \in Seq(Glyphs)
      /\ RightPart \in Seq(Glyphs) /\ Len(RightPart) = Len(buf) - cur
  BY <1>0, LineParts
<1>2. Typed \in Seq(Glyphs) /\ Len(Typed) \in Nat
  BY <1>0, TypedIs
<1>3. PICK f \in Found : f = CHOOSE x \in Found : TRUE
  <2>1. Cardinality(Found) = 1 /\ IsFiniteSet(Found)
    BY FoundIs DEF Complete, Completes
  <2>2. PICK x : Found = {x}
    BY <2>1, FS_Singleton
  <2> QED
    BY <2>2
<1>4. PICK name : name = f[2] /\ name \in Seq(Glyphs) /\ Len(Typed) <= Len(name)
  <2>1. f[2] \in Seq(Glyphs) /\ IsPrefix(Typed, f[2])
    BY <1>3, FoundIs
  <2> QED
    BY <2>1 DEF IsPrefix
<1>5. PICK rest \in Seq(Glyphs) :
        rest = SubSeq(name, Len(Typed) + 1, Len(name)) \o (IF WordStart = 0 THEN <<Space>> ELSE <<>>)
  <2>1. PICK i \in Nat, j \in Nat : i = Len(Typed) + 1 /\ j = Len(name) /\ i >= 1 /\ i <= j + 1
    BY <1>2, <1>4
  <2>2. SubSeq(name, i, j) \in Seq(Glyphs)
    BY <1>4, <2>1, Piece
  <2>3. (IF WordStart = 0 THEN <<Space>> ELSE <<>>) \in Seq(Glyphs)
    <3>1. <<Space>> \in Seq(Glyphs) /\ <<>> \in Seq(Glyphs)
      BY Glyphic
    <3> QED
      BY <3>1
  <2> QED
    BY <2>1, <2>2, <2>3, Joint
<1>49. rest = Completion
  BY <1>3, <1>4, <1>5 DEF Completion
<1>50. rest \in Seq(Glyphs)
  BY <1>5
<1>51. Len(rest) \in Nat
  BY <1>50
<1>6. /\ Len(buf) + Len(rest) <= MaxLine
      /\ buf' = (Left \o rest) \o RightPart /\ cur' = cur + Len(rest)
      /\ screen' = CursorLeft(Write(screen, rest \o RightPart), Len(RightPart))
      /\ histIdx' = -1 /\ saved' = <<>> /\ hist' = hist /\ clean' = clean
  BY <1>49 DEF Complete, Completes, HistoryLeft
<1>7. PICK q : q = rest \o RightPart /\ q \in Seq(Glyphs) /\ Len(q) = Len(rest) + Len(RightPart)
  BY <1>1, <1>50, Joint
<1>8. buf' = SubSeq(buf, 1, cur) \o q
  <2>1. (Left \o rest) \o RightPart = Left \o (rest \o RightPart)
    <3>1. Left \in Seq(Glyphs) /\ RightPart \in Seq(Glyphs)
      BY <1>1
    <3> QED
      BY <1>50, <3>1, Glued
  <2> QED
    BY <1>1, <1>6, <1>7, <2>1, Zenon
<1>9. PICK m \in Nat, r \in Nat : m = Len(buf') /\ r = Len(rest) /\ m = Len(buf) + r /\ m <= MaxLine
  <2>1. cur \in 0 .. Len(buf)
    BY <1>1
  <2>2. Len(buf') = cur + Len(q)
    <3>1. buf \in Seq(Glyphs) /\ q \in Seq(Glyphs)
      BY <1>1, <1>7
    <3> QED
      BY <1>8, <2>1, <3>1, Spliced
  <2>3. Len(rest) \in Nat
    BY <1>51
  <2>4. Len(buf') = Len(buf) + Len(rest)
    BY <1>1, <1>7, <2>2, <2>3
  <2> QED
    BY <1>1, <1>6, <2>3, <2>4
<1>10. PICK k \in 0 .. Len(buf') : k = Len(RightPart) /\ Len(buf') - k = cur'
  <2>1. cur' = cur + r
    BY <1>6, <1>9
  <2>2. /\ Len(buf) \in Nat /\ cur \in Nat /\ cur <= Len(buf) /\ Len(RightPart) = Len(buf) - cur
        /\ r \in Nat /\ Len(buf') = Len(buf) + r
    BY <1>1, <1>9
  <2>3. Len(RightPart) \in 0 .. Len(buf') /\ Len(buf') - Len(RightPart) = cur'
    BY <2>1, <2>2
  <2> QED
    BY <2>3
<1>11. screen' = CursorLeft(Write(CursorLeft(screen, cur - cur), q), k)
  <2>1. cur - cur = 0
    BY <1>1
  <2>2. CursorLeft(screen, cur - cur) = screen
    BY <1>1, <2>1, CursorStays
  <2> QED
    BY <1>6, <1>7, <1>10, <2>2
<1>12. Len(buf') <= MaxLine /\ Len(buf) <= Len(buf') /\ cur \in 0 .. cur /\ cur' \in 0 .. Len(buf')
  <2>1. cur' = cur + r
    BY <1>6, <1>9
  <2> QED
    BY <1>1, <1>9, <2>1
<1>13. /\ buf' \in Typeable /\ LineOn(screen', buf', Len(buf') - k)
       /\ clean => BlankFrom(screen', Len(buf'))
  BY <1>0, <1>7, <1>8, <1>11, <1>12, WritesLine
<1>14. LineOK(screen', buf', cur', clean')
  BY <1>6, <1>10, <1>12, <1>13 DEF LineOK
<1>15. HistOK'
  <2>1. hist \in Seq(Typeable) /\ Len(hist) \in Nat
    BY <1>0 DEF HistOK
  <2> QED
    BY <1>6, <2>1, EmptyLine DEF HistOK
<1> QED
  BY <1>14, <1>15 DEF ReadInv

(* Texts put together are a text. *)
LEMMA FlattenTyped ==
  ASSUME NEW S, NEW N \in Nat, NEW q, Len(q) = N, N > 0, \A i \in 1 .. N : q[i] \in Seq(S)
  PROVE  FlattenSeq(q) \in Seq(S)
<1> DEFINE Step(g, i) == IF i = 1 THEN q[i] ELSE g[i - 1] \o q[i]
           Good(g, n) == g = [i \in 1 .. n |-> Step(g, i)]
           G == {n \in Nat : \E g : Good(g, n)}
<1>1. 0 \in G
  <2> DEFINE g == [i \in 1 .. 0 |-> 0]
  <2>1. Good(g, 0)
    OBVIOUS
  <2> HIDE DEF Good
  <2> QED
    BY <2>1
<1>2. ASSUME NEW n \in 1 .. N, n - 1 \in G PROVE n \in G
  <2>1. PICK g : Good(g, n - 1)
    <3> HIDE DEF Good
    <3> QED
      BY <1>2
  <2> DEFINE h == [i \in 1 .. n |-> IF i = n THEN Step(g, n) ELSE g[i]]
  <2>2. ASSUME NEW i \in 1 .. n PROVE h[i] = Step(h, i)
    <3>1. CASE i = n
      <4>1. n # 1 => n - 1 \in 1 .. n /\ n - 1 # n
        OBVIOUS
      <4>2. n # 1 => h[n - 1] = g[n - 1]
        BY <4>1
      <4> QED
        BY <3>1, <4>2
    <3>2. CASE i # n
      <4>1. i \in 1 .. n - 1
        BY <3>2
      <4>2. g[i] = Step(g, i)
        BY <2>1, <4>1
      <4>3. i # 1 => i - 1 \in 1 .. n /\ i - 1 # n
        OBVIOUS
      <4>4. i # 1 => h[i - 1] = g[i - 1]
        BY <4>3
      <4> QED
        BY <3>2, <4>2, <4>4
    <3> QED
      BY <3>1, <3>2
  <2>3. Good(h, n)
    BY <2>2
  <2> HIDE DEF h, Good
  <2> QED
    BY <2>3
<1>3. \E g : Good(g, N)
  <2> HIDE DEF G
  <2>1. 0 .. N \subseteq G
    BY <1>1, <1>2, Stepwise
  <2>2. N \in G
    BY <2>1
  <2> USE DEF G
  <2> HIDE DEF Good
  <2> QED
    BY <2>2
<1> DEFINE it == CHOOSE g : Good(g, N)
<1>4. FlattenSeq(q) = it[N]
  BY DEF FlattenSeq
<1>5. Good(it, N)
  <2> HIDE DEF Good
  <2> QED
    BY <1>3, Zenon
<1> HIDE DEF it
<1> DEFINE H == {n \in Nat : n = 0 \/ it[n] \in Seq(S)}
<1>6. 0 \in H
  OBVIOUS
<1>7. ASSUME NEW n \in 1 .. N, n - 1 \in H PROVE n \in H
  <2>1. it[n] = IF n = 1 THEN q[n] ELSE it[n - 1] \o q[n]
    BY <1>5
  <2>2. q[n] \in Seq(S)
    OBVIOUS
  <2>3. n # 1 => it[n - 1] \in Seq(S)
    BY <1>7
  <2>4. n # 1 => it[n - 1] \o q[n] \in Seq(S)
    BY <2>2, <2>3, Joint
  <2>5. it[n] \in Seq(S)
    BY <2>1, <2>2, <2>4, Zenon
  <2> QED
    BY <2>5
<1>8. N \in H
  <2> HIDE DEF H
  <2>1. 0 .. N \subseteq H
    BY <1>6, <1>7, Stepwise
  <2> QED
    BY <2>1
<1> QED
  BY <1>4, <1>8

LEMMA ListedIs ==
  ASSUME Cardinality(Found) > 1
  PROVE  Listed \in Seq(Glyphs)
<1>1. PICK n \in Nat : n = Cardinality(Found) /\ ExistsBijection(1 .. n, Found)
  BY FoundIs, FS_CardinalityType
<1>2. \E b \in [1 .. n -> Found] : IsInjective(b)
  BY <1>1 DEF ExistsBijection, Bijection, Injection
<1>3. PICK b : b = SetToSeq(Found) /\ b \in [1 .. n -> Found]
  <2>1. SetToSeq(Found) = CHOOSE g \in [1 .. n -> Found] : IsInjective(g)
    BY <1>1 DEF SetToSeq
  <2>2. SetToSeq(Found) \in [1 .. n -> Found]
    BY <1>2, <2>1, Zenon
  <2> QED
    BY <2>2
<1> DEFINE q == [i \in 1 .. n |-> b[i][2] \o <<Space>>]
<1>4. Listed = FlattenSeq(q)
  BY <1>1, <1>3 DEF Listed
<1>5. ASSUME NEW i \in 1 .. n PROVE q[i] \in Seq(Glyphs)
  <2>1. b[i] \in Found
    BY <1>3
  <2>2. b[i][2] \in Seq(Glyphs)
    BY <2>1, FoundIs
  <2>3. <<Space>> \in Seq(Glyphs)
    BY Glyphic
  <2>4. b[i][2] \o <<Space>> \in Seq(Glyphs)
    BY <2>2, <2>3, Joint
  <2> QED
    BY <2>4
<1>6. Len(q) = n
  OBVIOUS
<1>7. n > 0
  BY <1>1
<1> HIDE DEF q
<1> QED
  BY <1>4, <1>5, <1>6, <1>7, FlattenTyped

LEMMA ListShows ==
  ASSUME ReadInv, List
  PROVE  ReadInv'
<1>0. LineOK(screen, buf, cur, clean) /\ HistOK
  BY DEF ReadInv
<1>1. PICK n \in Nat : /\ n = Len(buf) /\ buf \in Seq(Glyphs) /\ cur \in Nat /\ cur <= n
                       /\ screen \in Screen /\ Len(RightPart) = n - cur
  BY <1>0, LineParts
<1>2. PICK e \in Nat : e = n - cur /\ e <= n
  BY <1>1
<1>3. clean => BlankBehind(screen, e)
  <2>1. clean => BlankFrom(screen, n)
    BY <1>0, <1>1 DEF LineOK
  <2>2. screen.base \in Nat /\ screen.pos = screen.base + cur
    BY <1>0 DEF LineOK, LineOn
  <2>3. screen.base + n = screen.pos + e
    BY <1>1, <1>2, <2>2
  <2> QED
    BY <2>1, <2>3 DEF BlankFrom, BlankBehind
<1>4. Cardinality(Found) > 1 /\ histIdx' = -1 /\ saved' = <<>>
      /\ buf' = buf /\ cur' = cur /\ hist' = hist /\ clean' = clean
  BY DEF List, HistoryLeft
<1>5. PICK s1 : s1 = NewLine(screen)
  OBVIOUS
<1>6. PICK s2 : s2 = Write(s1, Listed)
  OBVIOUS
<1>7. PICK s3 : s3 = NewLine(s2)
  OBVIOUS
<1>8. PICK s : s = Begin(s3)
  OBVIOUS
<1>9. s1 \in Screen /\ (clean => BlankBehind(s1, e))
  BY <1>1, <1>3, <1>5, NewLineScreen, NewLineBehind
<1>10. Listed \in Seq(Glyphs)
  BY <1>4, ListedIs
<1>11. s2 \in Screen /\ (clean => BlankBehind(s2, e))
  BY <1>6, <1>9, <1>10, WriteScreen, WriteBehind
<1>12. s3 \in Screen /\ (clean => BlankBehind(s3, e))
  BY <1>7, <1>11, NewLineScreen, NewLineBehind
<1>13. LineOn(s, <<>>, 0)
  BY <1>8, <1>12, BeginShows
<1>14. clean => BlankFrom(s, e)
  BY <1>8, <1>12, BeginIs
<1>15. screen' = CursorLeft(Write(s, buf), Len(RightPart))
  BY <1>5, <1>6, <1>7, <1>8 DEF List
<1>16. Len(RightPart) \in 0 .. Len(buf) /\ Len(buf) - Len(RightPart) = cur /\ e \in 0 .. Len(buf)
  BY <1>1, <1>2
<1>17. buf \in Typeable
  BY <1>0 DEF LineOK
<1>18. /\ LineOn(screen', buf, Len(buf) - Len(RightPart))
       /\ \A x \in 0 .. Len(buf) : BlankFrom(s, x) => BlankFrom(screen', Len(buf))
  BY <1>13, <1>15, <1>16, <1>17, WriteFresh
<1>19. LineOK(screen', buf', cur', clean')
  BY <1>0, <1>4, <1>14, <1>16, <1>18 DEF LineOK
<1>20. HistOK'
  <2>1. hist \in Seq(Typeable) /\ Len(hist) \in Nat
    BY <1>0 DEF HistOK
  <2> QED
    BY <1>4, <2>1, EmptyLine DEF HistOK
<1> QED
  BY <1>19, <1>20 DEF ReadInv

LEMMA InVainShows ==
  ASSUME ReadInv, TabInVain
  PROVE  ReadInv'
<1>1. LineOK(screen, buf, cur, clean) /\ hist \in Seq(Typeable) /\ Len(hist) \in Nat
  BY DEF ReadInv, HistOK
<1>2. /\ histIdx' = -1 /\ saved' = <<>> /\ hist' = hist /\ clean' = clean
      /\ buf' = buf /\ cur' = cur /\ screen' = screen
  BY DEF TabInVain, HistoryLeft
<1> QED
  BY <1>1, <1>2, EmptyLine DEF ReadInv, HistOK

LEMMA ReadStep == ReadInv /\ [ReadlineNext]_readlineVars => ReadInv'
<1> SUFFICES ASSUME ReadInv, [ReadlineNext]_readlineVars PROVE ReadInv'
  OBVIOUS
<1>0. LineOK(screen, buf, cur, clean) /\ HistOK
  BY DEF ReadInv
<1>1. ASSUME UNCHANGED <<hist, histIdx, saved>>, LineOK(screen', buf', cur', clean') PROVE ReadInv'
  BY <1>0, <1>1 DEF ReadInv, HistOK
<1>2. ASSUME NEW c \in Chars, Insert(c) PROVE ReadInv'
  <2>1. c \in Glyphs
    BY Glyphic
  <2>2. UNCHANGED <<hist, histIdx, saved>>
    BY <1>2 DEF Insert
  <2> QED
    BY <1>0, <1>1, <1>2, <2>1, <2>2, InsertShows
<1>3. CASE Backspace
  <2>1. UNCHANGED <<hist, histIdx, saved>>
    BY <1>3 DEF Backspace
  <2> QED
    BY <1>0, <1>1, <1>3, <2>1, BackspaceShows
<1>4. CASE Delete
  <2>1. UNCHANGED <<hist, histIdx, saved>>
    BY <1>4 DEF Delete
  <2> QED
    BY <1>0, <1>1, <1>4, <2>1, DeleteShows
<1>5. CASE Move
  <2>1. UNCHANGED <<hist, histIdx, saved>>
    BY <1>5 DEF Move
  <2> QED
    BY <1>0, <1>1, <1>5, <2>1, MoveShows
<1>6. CASE Up \/ Down
  BY <1>6, UpDownShow
<1>7. CASE Enter \/ SwitchTerminal
  BY <1>7, EnterShows
<1>8. CASE Complete
  BY <1>8, CompleteShows
<1>9. CASE List
  BY <1>9, ListShows
<1>10. CASE TabInVain
  BY <1>10, InVainShows
<1>11. CASE UNCHANGED readlineVars
  BY <1>0, <1>1, <1>11 DEF readlineVars
<1> QED
  BY <1>2, <1>3, <1>4, <1>5, <1>6, <1>7, <1>8, <1>9, <1>10, <1>11 DEF ReadlineNext

(* The screen shows the line that Enter will run, the cursor where the next
   character goes and nothing behind the line, for every size of the screen
   that has room for the longest line in all rows but one
   (shell/shell.c:234, 331, 347, 418). *)
THEOREM LineStaysShown == ReadlineSpec => []LineIsShown
<1>1. ReadlineSpec => []ReadInv
  BY ReadBegins, ReadStep, PTL DEF ReadlineSpec
<1> QED
  BY <1>1, ReadInvShows, PTL

-------------------------------------------------------------------------------
(* The hexadecimal editor. *)

(* The last byte, where End and Down stop. *)
LastByte(size) == IF size > 0 THEN size - 1 ELSE 0

HexTypeOK ==
  /\ hx \in [size : Nat, pos : Nat, top : Nat, dirty : BOOLEAN]
  /\ high \in BOOLEAN /\ changed \in BOOLEAN

(* Down goes to the last byte from behind it and never scrolls up, so the
   screen may not begin below the last byte. *)
HexInv ==
  /\ HexTypeOK
  /\ HexCursorInView
  /\ hx.top <= LineOf(LastByte(hx.size))

-------------------------------------------------------------------------------
LEMMA DivisionIsMonotone ==
  ASSUME NEW a \in Nat, NEW b \in Nat, NEW k \in Nat, k > 0, a <= b
  PROVE  a \div k <= b \div k
BY SMT

LEMMA DivisionOfNext ==
  ASSUME NEW a \in Nat, NEW k \in Nat, k > 0
  PROVE  (a + 1) \div k <= (a \div k) + 1
BY SMT

LEMMA DivisionOfLarge ==
  ASSUME NEW a \in Nat, NEW r \in Nat, NEW k \in Nat, k > 0
  PROVE  /\ a >= r * k => a \div k >= r
         /\ a < r * k => a \div k < r
<1> DEFINE q == a \div k
<1>1. q \in Nat /\ k * q <= a /\ a < k * q + k
  BY Division
<1> HIDE DEF q
<1>2. ASSUME a >= r * k, q < r PROVE FALSE
  <2>1. q + 1 <= r
    BY <1>1, <1>2
  <2>2. k * (q + 1) <= r * k
    BY <1>1, <2>1
  <2> QED
    BY <1>1, <1>2, <2>2
<1>3. ASSUME a < r * k, q >= r PROVE FALSE
  <2>1. k * q >= r * k
    BY <1>1, <1>3
  <2> QED
    BY <1>1, <1>3, <2>1
<1> QED
  BY <1>1, <1>2, <1>3 DEF q

(* Lines are numbers, in the order of the bytes. *)
LEMMA LineIsNat == \A p \in Nat : LineOf(p) \in Nat
BY HexAssumption, Division DEF LineOf

LEMMA LinesAreOrdered ==
  ASSUME NEW p \in Nat, NEW q \in Nat, p <= q
  PROVE  LineOf(p) \in Nat /\ LineOf(q) \in Nat /\ LineOf(p) <= LineOf(q)
BY HexAssumption, Division, DivisionIsMonotone DEF LineOf

LEMMA LineOfNext ==
  ASSUME NEW p \in Nat
  PROVE  LineOf(p) \in Nat /\ LineOf(p + 1) \in Nat /\ LineOf(p + 1) <= LineOf(p) + 1
BY HexAssumption, Division, DivisionOfNext DEF LineOf

(* The lines of the first screen. *)
LEMMA LinesOfFirstScreen ==
  ASSUME NEW p \in Nat
  PROVE  /\ p >= HxRows * HxWidth => LineOf(p) >= HxRows
         /\ p < HxRows * HxWidth => LineOf(p) < HxRows
BY HexAssumption, DivisionOfLarge DEF LineOf

LEMMA SizesOfScreen == HxRows \in Nat /\ HxRows >= 2 /\ HxWidth \in Nat /\ HxWidth > 0
BY HexAssumption

(* What a key has to establish when the file keeps its size. *)
LEMMA PlacedInView ==
  ASSUME HexInv, hxOpen = "open", NEW p \in 0 .. hx.size, NEW top \in Nat,
         LineOf(p) \in top .. top + HxRows - 1, top <= LineOf(LastByte(hx.size)),
         Placed(p, top), UNCHANGED <<high, changed, hxOpen>>
  PROVE  HexInv'
<1>1. hx' = [size |-> hx.size, pos |-> p, top |-> top, dirty |-> hx.dirty]
  BY DEF Placed, HexInv, HexTypeOK
<1>2. hx.size \in Nat
  BY DEF HexInv, HexTypeOK
<1>3. HexTypeOK'
  BY <1>1, <1>2 DEF HexInv, HexTypeOK
<1>4. HexCursorInView'
  BY <1>1 DEF HexInv, HexCursorInView, LineOf
<1> QED
  BY <1>1, <1>3, <1>4 DEF HexInv, LineOf, LastByte

LEMMA LastByteIsAByte ==
  ASSUME HexInv
  PROVE  /\ LastByte(hx.size) \in 0 .. hx.size
         /\ hx.size <= LastByte(hx.size) + 1
         /\ LineOf(hx.size) <= LineOf(LastByte(hx.size)) + 1
         /\ HxRows \in Nat /\ HxRows >= 2 /\ HxWidth \in Nat /\ HxWidth > 0
         /\ hx.size \in Nat /\ hx.pos \in 0 .. hx.size /\ hx.top \in Nat
         /\ LineOf(hx.pos) \in hx.top .. hx.top + HxRows - 1
         /\ hx.top <= LineOf(LastByte(hx.size))
<1>1. hx.size \in Nat /\ hx.top \in Nat /\ hx.pos \in 0 .. hx.size
  BY DEF HexInv, HexTypeOK, HexCursorInView
<1>2. LastByte(hx.size) \in 0 .. hx.size /\ hx.size <= LastByte(hx.size) + 1
  BY <1>1 DEF LastByte
<1>3. LineOf(hx.size) <= LineOf(LastByte(hx.size) + 1) /\ LineOf(hx.size) \in Nat
  BY <1>1, <1>2, LinesAreOrdered
<1>4. /\ LineOf(LastByte(hx.size)) \in Nat /\ LineOf(LastByte(hx.size) + 1) \in Nat
      /\ LineOf(LastByte(hx.size) + 1) <= LineOf(LastByte(hx.size)) + 1
  BY <1>1, <1>2, LineOfNext
<1>5. LineOf(hx.pos) \in hx.top .. hx.top + HxRows - 1 /\ hx.top <= LineOf(LastByte(hx.size))
  BY DEF HexInv, HexCursorInView
<1>6. LineOf(hx.size) <= LineOf(LastByte(hx.size)) + 1
  BY <1>3, <1>4
<1> QED
  BY <1>1, <1>2, <1>5, <1>6, SizesOfScreen

(* The screen after the cursor went up, or not at all. *)
LEMMA UpInView ==
  ASSUME HexInv, hxOpen = "open", NEW p \in 0 .. hx.size, p <= hx.pos,
         Placed(p, ScrolledUp(hx.top, p)), UNCHANGED <<high, changed, hxOpen>>
  PROVE  HexInv'
<1>1. LineOf(p) \in Nat /\ LineOf(p) <= LineOf(hx.pos) /\ LineOf(hx.pos) \in Nat
  BY LinesAreOrdered, LastByteIsAByte
<1>2. hx.top \in Nat /\ LineOf(hx.pos) <= hx.top + HxRows - 1 /\ HxRows \in Nat /\ HxRows >= 2
  BY LastByteIsAByte
<1>3. /\ ScrolledUp(hx.top, p) \in Nat /\ ScrolledUp(hx.top, p) <= hx.top
      /\ LineOf(p) \in ScrolledUp(hx.top, p) .. ScrolledUp(hx.top, p) + HxRows - 1
  BY <1>1, <1>2 DEF ScrolledUp
<1>4. ScrolledUp(hx.top, p) <= LineOf(LastByte(hx.size))
  BY <1>2, <1>3, LastByteIsAByte, LineIsNat
<1> QED
  BY <1>3, <1>4, PlacedInView

(* The screen after the cursor went down, or to the last byte. *)
LEMMA DownInView ==
  ASSUME HexInv, hxOpen = "open", NEW p \in 0 .. hx.size, hx.top <= LineOf(p),
         Placed(p, ScrolledDown(hx.top, p)), UNCHANGED <<high, changed, hxOpen>>
  PROVE  HexInv'
<1>1. LineOf(p) \in Nat /\ LineOf(p) <= LineOf(hx.size) /\ LineOf(hx.size) \in Nat
  BY LinesAreOrdered, LastByteIsAByte
<1>2. /\ LineOf(LastByte(hx.size)) \in Nat /\ LineOf(hx.size) <= LineOf(LastByte(hx.size)) + 1
      /\ hx.top \in Nat /\ hx.top <= LineOf(LastByte(hx.size)) /\ HxRows \in Nat /\ HxRows >= 2
  BY LineIsNat, LastByteIsAByte
<1>3. /\ ScrolledDown(hx.top, p) \in Nat
      /\ LineOf(p) \in ScrolledDown(hx.top, p) .. ScrolledDown(hx.top, p) + HxRows - 1
      /\ ScrolledDown(hx.top, p) <= LineOf(LastByte(hx.size))
  BY <1>1, <1>2 DEF ScrolledDown
<1> QED
  BY <1>3, PlacedInView

-------------------------------------------------------------------------------
LEMMA MoveInView ==
  ASSUME HexInv, HexMove
  PROVE  HexInv'
<1>1. hxOpen = "open" /\ UNCHANGED <<high, changed, hxOpen>>
  BY DEF HexMove, HexKey
<1>2. CASE HexLeft
  BY <1>1, <1>2, UpInView, LastByteIsAByte DEF HexLeft
<1>3. CASE HexRight
  <2> DEFINE p == IF hx.pos < hx.size THEN hx.pos + 1 ELSE hx.pos
  <2>1. p \in 0 .. hx.size /\ hx.pos <= p
    BY LastByteIsAByte
  <2>2. hx.top <= LineOf(p)
    <3>1. hx.pos <= p => LineOf(hx.pos) \in Nat /\ LineOf(p) \in Nat /\ LineOf(hx.pos) <= LineOf(p)
      BY <2>1, LastByteIsAByte, LinesAreOrdered
    <3>2. hx.top \in Nat /\ hx.top <= LineOf(hx.pos) /\ hx.top <= LineOf(LastByte(hx.size))
      BY LastByteIsAByte
    <3> HIDE DEF p
    <3> QED
      BY <2>1, <3>1, <3>2
  <2> QED
    BY <1>1, <1>3, <2>1, <2>2, DownInView DEF HexRight
<1>4. CASE HexUp
  BY <1>1, <1>4, UpInView, LastByteIsAByte DEF HexUp
<1>5. CASE HexDown
  <2> DEFINE p == IF hx.pos + HxWidth < hx.size THEN hx.pos + HxWidth
                  ELSE IF hx.size > 0 THEN hx.size - 1 ELSE hx.pos
  <2>1. p \in 0 .. hx.size /\ (hx.pos <= p \/ p = LastByte(hx.size))
    BY LastByteIsAByte DEF LastByte
  <2>2. hx.top <= LineOf(p)
    <3>1. hx.pos <= p => LineOf(hx.pos) \in Nat /\ LineOf(p) \in Nat /\ LineOf(hx.pos) <= LineOf(p)
      BY <2>1, LastByteIsAByte, LinesAreOrdered
    <3>2. hx.top \in Nat /\ hx.top <= LineOf(hx.pos) /\ hx.top <= LineOf(LastByte(hx.size))
      BY LastByteIsAByte
    <3> HIDE DEF p
    <3> QED
      BY <2>1, <3>1, <3>2
  <2> QED
    BY <1>1, <1>5, <2>1, <2>2, DownInView DEF HexDown
<1>6. CASE HexHome
  <2>1. LineOf(0) = 0
    BY HexAssumption DEF LineOf
  <2> QED
    BY <1>1, <1>6, <2>1, PlacedInView, LastByteIsAByte, LineIsNat DEF HexHome
<1>7. CASE HexEnd
  <2> DEFINE p   == IF hx.size > 0 THEN hx.size - 1 ELSE hx.pos
             top == IF p >= HxRows * HxWidth THEN LineOf(p) - (HxRows - 1) ELSE 0
  <2>1. p \in 0 .. hx.size /\ p = LastByte(hx.size)
    BY LastByteIsAByte DEF LastByte
  <2>2. /\ LineOf(p) \in Nat
        /\ p >= HxRows * HxWidth => LineOf(p) >= HxRows
        /\ p < HxRows * HxWidth => LineOf(p) < HxRows
    BY <2>1, LineIsNat, LinesOfFirstScreen
  <2>3. top \in Nat /\ LineOf(p) \in top .. top + HxRows - 1 /\ top <= LineOf(p)
    <3>1. p \in Nat /\ HxRows \in Nat /\ HxRows >= 2 /\ HxRows * HxWidth \in Nat
      BY <2>1, SizesOfScreen
    <3> HIDE DEF p
    <3>2. CASE p >= HxRows * HxWidth
      BY <2>2, <3>1, <3>2
    <3>3. CASE p < HxRows * HxWidth
      BY <2>2, <3>1, <3>3
    <3> QED
      BY <3>1, <3>2, <3>3
  <2> QED
    BY <1>1, <1>7, <2>1, <2>3, PlacedInView DEF HexEnd
<1> QED
  BY <1>2, <1>3, <1>4, <1>5, <1>6, <1>7 DEF HexMove

LEMMA InsertInView ==
  ASSUME HexInv, HexInsert
  PROVE  HexInv'
<1>1. hx.size \in Nat /\ hx.pos \in 0 .. hx.size /\ hx.top \in Nat /\ hx.top <= LineOf(hx.pos)
  BY LastByteIsAByte
<1>2. LastByte(hx.size) \in Nat /\ LastByte(hx.size) <= hx.size /\ LastByte(hx.size + 1) = hx.size
  BY <1>1 DEF LastByte
<1>3. hx.top <= LineOf(LastByte(hx.size + 1))
  BY <1>1, <1>2, LinesAreOrdered
<1>4. ScrolledUp(hx.top, hx.pos) = hx.top
  BY <1>1, LineIsNat DEF ScrolledUp
<1>5. hx' = [size |-> hx.size + 1, pos |-> hx.pos, top |-> hx.top, dirty |-> TRUE]
  BY <1>4 DEF HexInsert, HexInv, HexTypeOK
<1>6. LineOf(hx.pos) \in hx.top .. hx.top + HxRows - 1
  BY LastByteIsAByte
<1>7. changed' = TRUE /\ high' = high /\ high \in BOOLEAN /\ hxOpen = "open" /\ hxOpen' = hxOpen
  BY DEF HexInsert, HexKey, HexInv, HexTypeOK
<1>8. HexTypeOK' /\ HexCursorInView'
  <2>1. hx'.size = hx.size + 1 /\ hx'.pos = hx.pos /\ hx'.top = hx.top /\ hx'.dirty = TRUE
    BY <1>5
  <2>2. HexTypeOK'
    BY <1>1, <1>5, <1>7 DEF HexTypeOK
  <2>3. HexCursorInView'
    BY <1>1, <1>6, <1>7, <2>1 DEF HexCursorInView, LineOf
  <2> QED
    BY <2>2, <2>3
<1>9. (hx.top <= LineOf(LastByte(hx.size)))'
  BY <1>3, <1>5 DEF LineOf, LastByte
<1> QED
  BY <1>8, <1>9 DEF HexInv

LEMMA DeleteInView ==
  ASSUME HexInv, HexDelete
  PROVE  HexInv'
<1> DEFINE size == hx.size - 1
           pos  == IF hx.pos >= size /\ size > 0 THEN size - 1 ELSE hx.pos
           top  == ScrolledUp(hx.top, pos)
<1>1. hx' = [size |-> size, pos |-> pos, dirty |-> TRUE, top |-> top] /\ hx.pos < hx.size
  BY DEF HexDelete
<1>2. /\ size \in Nat /\ pos \in 0 .. size /\ pos <= hx.pos
      /\ pos <= LastByte(size) /\ LastByte(size) \in Nat
  BY <1>1, LastByteIsAByte DEF LastByte
<1>3. /\ LineOf(pos) \in Nat /\ LineOf(pos) <= LineOf(hx.pos) /\ LineOf(hx.pos) \in Nat
      /\ LineOf(pos) <= LineOf(LastByte(size)) /\ LineOf(LastByte(size)) \in Nat
  <2>1. pos \in Nat /\ hx.pos \in Nat
    BY <1>2, LastByteIsAByte
  <2> HIDE DEF size, pos
  <2> QED
    BY <1>2, <2>1, LinesAreOrdered
<1>4. hx.top \in Nat /\ LineOf(hx.pos) <= hx.top + HxRows - 1 /\ HxRows \in Nat /\ HxRows >= 2
  BY LastByteIsAByte
<1>5. top \in Nat /\ LineOf(pos) \in top .. top + HxRows - 1 /\ top <= LineOf(pos)
  <2> HIDE DEF size, pos
  <2> QED
    BY <1>3, <1>4 DEF ScrolledUp
<1> HIDE DEF size, pos, top
<1>6. changed' = TRUE /\ high' = high /\ high \in BOOLEAN /\ hxOpen = "open" /\ hxOpen' = hxOpen
  BY DEF HexDelete, HexKey, HexInv, HexTypeOK
<1>7. HexTypeOK' /\ HexCursorInView'
  <2>1. hx'.size = size /\ hx'.pos = pos /\ hx'.top = top /\ hx'.dirty = TRUE
    BY <1>1
  <2>2. HexTypeOK'
    BY <1>1, <1>2, <1>5, <1>6 DEF HexTypeOK
  <2>3. HexCursorInView'
    BY <1>2, <1>5, <1>6, <2>1 DEF HexCursorInView, LineOf
  <2> QED
    BY <2>2, <2>3
<1>8. top <= LineOf(LastByte(size))
  BY <1>3, <1>5
<1>9. (hx.top <= LineOf(LastByte(hx.size)))'
  BY <1>1, <1>8 DEF LineOf, LastByte
<1> QED
  BY <1>7, <1>9 DEF HexInv

LEMMA DigitInView ==
  ASSUME HexInv, HexDigit
  PROVE  HexInv'
<1>1. CASE high /\ hx.pos < hx.size
  BY <1>1 DEF HexDigit, HexKey, HexInv, HexTypeOK, HexCursorInView, LineOf, LastByte
<1>2. CASE ~(high /\ hx.pos < hx.size)
  BY <1>2 DEF HexDigit, HexKey, HexInv, HexTypeOK, HexCursorInView, LineOf, LastByte
<1> QED
  BY <1>1, <1>2

LEMMA LeaveInView ==
  ASSUME HexInv, HexLeave
  PROVE  HexInv'
<1>1. CASE hxOpen' = "dropped" /\ hx' = [hx EXCEPT !.dirty = FALSE]
  BY <1>1 DEF HexLeave, HexInv, HexTypeOK, HexCursorInView, LineOf, LastByte
<1>2. CASE hxOpen' = (IF hx.dirty THEN "saved" ELSE "same") /\ UNCHANGED hx
  BY <1>2 DEF HexLeave, HexInv, HexTypeOK, HexCursorInView, LineOf, LastByte
<1> QED
  BY <1>1, <1>2 DEF HexLeave

(* The byte the next key changes is in the file or just after it, and on the
   screen; only '!' leaves without saving what was changed
   (shell/programs.c:359). *)
THEOREM CursorStaysInView == HexSpec => []HexCursorInView
<1>1. HexInit => HexInv
  <2> SUFFICES ASSUME HexInit PROVE HexInv
    OBVIOUS
  <2>1. PICK size \in HxSizes : hx = [size |-> size, pos |-> 0, top |-> 0, dirty |-> FALSE]
    BY DEF HexInit
  <2>2. size \in Nat /\ LineOf(0) = 0
    BY HexAssumption DEF LineOf
  <2>3. LineOf(LastByte(size)) \in Nat
    BY <2>2, LineIsNat DEF LastByte
  <2>4. HexTypeOK
    BY <2>1, <2>2 DEF HexInit, HexTypeOK
  <2>5. HexCursorInView
    BY <2>1, <2>2, SizesOfScreen DEF HexInit, HexCursorInView
  <2>6. hx.top <= LineOf(LastByte(hx.size))
    BY <2>1, <2>3
  <2> QED
    BY <2>4, <2>5, <2>6 DEF HexInv
<1>2. HexInv /\ [HexNext]_hxVars => HexInv'
  <2> SUFFICES ASSUME HexInv, [HexNext]_hxVars PROVE HexInv'
    OBVIOUS
  <2>1. CASE UNCHANGED hxVars
    BY <2>1 DEF hxVars, HexInv, HexTypeOK, HexCursorInView, LineOf, LastByte
  <2> QED
    BY <2>1, MoveInView, InsertInView, DigitInView, DeleteInView, LeaveInView DEF HexNext
<1>3. HexInv => HexCursorInView
  BY DEF HexInv
<1> QED
  BY <1>1, <1>2, <1>3, PTL DEF HexSpec

-------------------------------------------------------------------------------
(* The programs do not disturb each other: a step of one is none of the others. *)
LEMMA ProgramsStandAlone == ShellSpec => ReadlineSpec /\ TtySpec /\ HexSpec
<1>1. ShellInit => ReadlineInit /\ TtyInit /\ HexInit
  BY DEF ShellInit
<1>2. [ShellNext]_shellVars => [ReadlineNext]_readlineVars /\ [TtyNext]_ttyVars /\ [HexNext]_hxVars
  BY Zenon DEF ShellNext, Runs, shellVars
<1> QED
  BY <1>1, <1>2, PTL DEF ShellSpec, ReadlineSpec, TtySpec, HexSpec

(* Whichever of the programs runs: the line is shown, the terminals are kept,
   the cursor of the hexadecimal editor is in view. *)
THEOREM ScreenIsTrue == ShellSpec => [](LineIsShown /\ TerminalsAreKept /\ HexCursorInView)
BY ProgramsStandAlone, LineStaysShown, TerminalsStayKept, CursorStaysInView, PTL
===============================================================================
