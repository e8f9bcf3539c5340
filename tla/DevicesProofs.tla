---------------------------- MODULE DevicesProofs ----------------------------
(***************************************************************************)
(* The three interrupt sources, for every keyboard, every width of the     *)
(* screen, every width of the counter, all timeouts and any number of      *)
(* bytes and keys in flight: a wait is neither short nor long, no modifier *)
(* sticks, only the keys pressed switch a terminal, and a mouse driver in  *)
(* step stays in step.                                                     *)
(***************************************************************************)
EXTENDS Devices, TLAPS, WellFoundedInduction, SequenceTheorems

(* The counter wraps at most once in a wait. *)
LEMMA Wrapped ==
  ASSUME NEW x \in Nat, x < 2 * Wrap
  PROVE  x % Wrap = IF x < Wrap THEN x ELSE x - Wrap
  BY TimerAssumption, Z3

(* While a program waits, the counter is where the interrupts since the
   wait began have brought it. *)
Counted == elapsed < Wrap => ticks = (t0 + elapsed) % Wrap

(* How late each place of the polling loop is: at a test that failed the
   timeout was not reached; one poll and one test later it may be exceeded by
   the interrupts of the two. *)
TimerInv ==
  /\ TimerTypeOK
  /\ tpc # "program" => ms \in Times /\ Counted
  /\ tpc = "poll" => elapsed < ms + late
  /\ tpc = "wait" => elapsed <= ms + MaxLate + late
  /\ tpc = "waited" => elapsed >= ms /\ elapsed <= ms + 2 * MaxLate + late
  /\ tpc = "slept" => (t0 + ms < Wrap => elapsed >= ms)

LEMMA TimerTyped ==
  ASSUME TimerInv
  PROVE  /\ Wrap \in Nat /\ Wrap > 0 /\ MaxLate \in Nat
         /\ ticks \in Nat /\ ticks < Wrap /\ t0 \in Nat /\ t0 < Wrap
         /\ ms \in Nat /\ elapsed \in Nat /\ elapsed <= Wrap
         /\ late \in Nat /\ late <= MaxLate
         /\ tpc # "program" => ms \in Times /\ ms + 3 * MaxLate < Wrap
  BY TimerAssumption DEF TimerInv, TimerTypeOK

LEMMA IrqKeepsTimerInv ==
  ASSUME TimerInv, TimerIrq
  PROVE  TimerInv'
<1>1. /\ late < MaxLate /\ UNCHANGED <<t0, ms>>
      /\ ticks' = IF ticks + 1 < Wrap THEN ticks + 1 ELSE 0
      /\ elapsed' = IF tpc = "program" \/ elapsed = Wrap THEN elapsed ELSE elapsed + 1
      /\ IF tpc = "halted" THEN tpc' = "sleep" /\ late' = 0
                           ELSE tpc' = tpc /\ late' = late + 1
  BY TimerTyped, Wrapped DEF TimerIrq
<1>2. TimerTypeOK'
  BY <1>1, TimerTyped DEF TimerInv, TimerTypeOK
<1>3. tpc # "program" => Counted'
  <2> SUFFICES ASSUME tpc # "program", elapsed' < Wrap PROVE ticks' = (t0' + elapsed') % Wrap
    BY DEF Counted
  <2>1. elapsed' = elapsed + 1 /\ elapsed < Wrap
    BY <1>1, TimerTyped
  <2>2. ticks = IF t0 + elapsed < Wrap THEN t0 + elapsed ELSE t0 + elapsed - Wrap
    BY <2>1, TimerTyped, Wrapped DEF TimerInv, Counted
  <2>3. (t0 + elapsed + 1) % Wrap =
          IF t0 + elapsed + 1 < Wrap THEN t0 + elapsed + 1 ELSE t0 + elapsed + 1 - Wrap
    BY <1>1, <2>1, TimerTyped, Wrapped
  <2> QED
    BY <1>1, <2>1, <2>2, <2>3, TimerTyped
<1> QED
  BY <1>1, <1>2, <1>3, TimerTyped DEF TimerInv

LEMMA ProgramKeepsTimerInv ==
  ASSUME TimerInv, Program \/ \E n \in Times : Start(n)
  PROVE  TimerInv'
<1>1. ASSUME NEW n \in Times, Start(n) PROVE TimerInv'
  <2>1. /\ tpc = "program" /\ tpc' \in {"sleep", "wait"} /\ late' = 0 /\ ticks' = ticks
        /\ t0' = ticks /\ ms' = n /\ elapsed' = 0 /\ n \in Nat
    BY <1>1, TimerAssumption DEF Start, Goto
  <2>2. (ticks + 0) % Wrap = ticks
    BY TimerTyped, Wrapped
  <2> QED
    BY <2>1, <2>2, TimerTyped DEF TimerInv, TimerTypeOK, Counted
<1>2. ASSUME Sleep PROVE TimerInv'
  <2>1. /\ UNCHANGED <<ticks, t0, ms, elapsed>> /\ late' = 0
        /\ tpc \in {"sleep", "hlt"} /\ tpc' \in {"hlt", "slept", "halted"}
        /\ tpc' = "slept" => ticks >= End
    BY <1>2 DEF Sleep, Goto
  <2>2. ASSUME tpc' = "slept", t0 + ms < Wrap, elapsed < ms PROVE FALSE
    <3>1. End = t0 + ms
      BY <2>2, TimerTyped, Wrapped DEF End
    <3>2. ticks = t0 + elapsed
      BY <2>1, <2>2, TimerTyped, Wrapped DEF TimerInv, Counted
    <3> QED
      BY <2>1, <2>2, <3>1, <3>2, TimerTyped
  <2>3. tpc' = "slept" => (t0 + ms < Wrap => elapsed >= ms)
    BY <2>2, TimerTyped
  <2> QED
    BY <2>1, <2>3, TimerTyped DEF TimerInv, TimerTypeOK, Counted
<1>3. ASSUME Wait PROVE TimerInv'
  <2>1. /\ UNCHANGED <<ticks, t0, ms, elapsed>> /\ late' = 0
        /\ \/ tpc = "wait" /\ tpc' = "poll" /\ (ticks + Wrap - t0) % Wrap < ms
           \/ tpc = "wait" /\ tpc' = "waited" /\ (ticks + Wrap - t0) % Wrap >= ms
           \/ tpc = "poll" /\ tpc' = "wait"
    BY <1>3 DEF Wait, Goto
  <2>2. tpc = "wait" => (ticks + Wrap - t0) % Wrap = elapsed
    <3> SUFFICES ASSUME tpc = "wait" PROVE (ticks + Wrap - t0) % Wrap = elapsed
      OBVIOUS
    <3>1. elapsed < Wrap
      BY TimerTyped DEF TimerInv
    <3>2. ticks = IF t0 + elapsed < Wrap THEN t0 + elapsed ELSE t0 + elapsed - Wrap
      BY <3>1, TimerTyped, Wrapped DEF TimerInv, Counted
    <3>3. ticks + Wrap - t0 \in Nat /\ ticks + Wrap - t0 < 2 * Wrap
      BY TimerTyped
    <3>4. PICK x \in Nat : x = ticks + Wrap - t0
      BY <3>3
    <3>5. x % Wrap = elapsed
      BY <3>1, <3>2, <3>3, <3>4, TimerTyped, Wrapped
    <3> QED
      BY <3>4, <3>5
  <2> QED
    BY <2>1, <2>2, TimerTyped DEF TimerInv, TimerTypeOK, Counted
<1>4. ASSUME Return PROVE TimerInv'
  <2>1. /\ tpc' = "program" /\ ticks' = ticks /\ late' = 0
        /\ t0' = 0 /\ ms' = 0 /\ elapsed' = 0
    BY <1>4 DEF Return, Goto
  <2> QED
    BY <2>1, TimerTyped DEF TimerInv, TimerTypeOK
<1> QED
  BY <1>1, <1>2, <1>3, <1>4 DEF Program

LEMMA InitTimerInv == TimerInit => TimerInv
  BY TimerAssumption DEF TimerInit, TimerInv, TimerTypeOK

LEMMA TimerInvKept ==
  ASSUME TimerInv, [Next]_vars
  PROVE  TimerInv'
<1>1. ASSUME UNCHANGED timerVars PROVE TimerInv'
  BY <1>1 DEF timerVars, TimerInv, TimerTypeOK, Counted
<1> QED
  BY <1>1, IrqKeepsTimerInv, ProgramKeepsTimerInv DEF Next, Ticks, Waits, Acts, vars

(* A wait ends neither early nor late, wherever the counter wraps, for every
   width of the counter, every timeout and any bound on how far the program
   falls behind the interrupts (idt.c:76-80 and the polling loops of net). *)
THEOREM TimeStaysKept == Spec => []TimeIsKept
<1>1. Init => TimerInv
  BY InitTimerInv DEF Init
<1>2. TimerInv /\ [Next]_vars => TimerInv'
  BY TimerInvKept
<1>3. TimerInv => TimeIsKept
  BY TimerTyped DEF TimerInv, TimeIsKept
<1> QED
  BY <1>1, <1>2, <1>3, PTL DEF Spec

-------------------------------------------------------------------------------
Codes == {CodeOf[cap] : cap \in DOMAIN CodeOf} \cup {"E0"}
KbdBytes == [code: Codes, up: BOOLEAN]

(* The handler takes the byte at n for a plain key's: no prefix is before it. *)
PlainAt(n) == IF n = 1 THEN ~ext_pending ELSE wire[n - 1] # E0

(* The key that a byte tells of is down: only while a key is down does the
   handler read its code without a prefix. *)
Reported(code, cap) == \A n \in 1 .. Len(wire) :
                         PlainAt(n) /\ wire[n] = Make(code) => cap \in down

ReleasedSoon(codes) == \E n \in 1 .. Len(wire) : wire[n].up /\ wire[n].code \in codes

(* What the handler holds of the modifiers is right or about to be
   corrected by a byte that waits. *)
KbdInv ==
  /\ down \subseteq Keycaps
  /\ wire \in Seq(KbdBytes)
  /\ ext_pending \in BOOLEAN /\ shift_held \in BOOLEAN /\ ctrl_held \in BOOLEAN
  /\ alt_held \in BOOLEAN /\ caps_lock \in BOOLEAN
  /\ put \in KeysPut \cup {NoKey}
  /\ ext_pending => wire # <<>> /\ Head(wire) # E0
  /\ \A n \in 1 .. Len(wire) : /\ wire[n] = E0 => n < Len(wire) /\ wire[n + 1] # E0
                               /\ wire[n].code = "fn" => Len(wire) = 1
  /\ Reported("2A", "LShift") /\ Reported("36", "RShift")
  /\ Reported("1D", "LCtrl") /\ Reported("38", "LAlt") /\ Reported("fn", "F1")
  /\ shift_held => down \cap Shifts # {} \/ ReleasedSoon({"2A", "36"})
  /\ ctrl_held => "LCtrl" \in down \/ ReleasedSoon({"1D"})
  /\ alt_held => "LAlt" \in down \/ ReleasedSoon({"38"})

(* Which keys share a code. *)
LEMMA KeyCodes ==
  ASSUME NEW cap \in DOMAIN CodeOf
  PROVE  /\ CodeOf[cap] \in Codes /\ CodeOf[cap] # "E0"
         /\ CodeOf[cap] = "2A" => cap = "LShift"
         /\ CodeOf[cap] = "36" => cap = "RShift"
         /\ CodeOf[cap] = "1D" => cap \in {"LCtrl", "RCtrl"}
         /\ CodeOf[cap] = "38" => cap \in {"LAlt", "AltGr"}
         /\ CodeOf[cap] = "fn" => cap = "F1"
         /\ cap = "LShift" => CodeOf[cap] = "2A"
         /\ cap = "RShift" => CodeOf[cap] = "36"
         /\ cap = "LCtrl" => CodeOf[cap] = "1D"
         /\ cap = "LAlt" => CodeOf[cap] = "38"
         /\ cap = "Left" => CodeOf[cap] = "4B"
         /\ cap \in Extended => cap \in {"RCtrl", "AltGr", "Left"}
  BY DEF CodeOf, Codes, Extended

(* Make and break of a code are different bytes, and none is the prefix. *)
LEMMA BytesTyped ==
  /\ E0 \in KbdBytes /\ E0 = [code |-> "E0", up |-> FALSE]
  /\ \A code \in Codes : /\ Make(code) \in KbdBytes /\ Break(code) \in KbdBytes
                          /\ Make(code).code = code /\ Break(code).code = code
  /\ \A code : Break(code) # E0 /\ (code # "E0" => Make(code) # E0)
  /\ \A c1, c2 : /\ Make(c1) # Break(c2)
                  /\ Make(c1) = Make(c2) => c1 = c2
  /\ "2A" \in Codes
<1>1. E0 \in KbdBytes /\ E0 = [code |-> "E0", up |-> FALSE]
  BY DEF E0, Make, KbdBytes, Codes
<1>2. \A code \in Codes : /\ Make(code) \in KbdBytes /\ Break(code) \in KbdBytes
                          /\ Make(code).code = code /\ Break(code).code = code
  BY DEF Make, Break, KbdBytes
<1>3. ASSUME NEW c1, NEW c2 PROVE Make(c1) # Break(c2) /\ (Make(c1) = Make(c2) => c1 = c2)
  <2>1. Make(c1).up = FALSE /\ Break(c2).up = TRUE
    BY Zenon DEF Make, Break
  <2>2. Make(c1).code = c1 /\ Make(c2).code = c2
    BY DEF Make
  <2> QED
    BY <2>1, <2>2, Zenon
<1>4. "2A" \in Codes
  BY DEF Codes, CodeOf
<1>5. \A code : Break(code) # E0 /\ (code # "E0" => Make(code) # E0)
  BY <1>3, Zenon DEF E0
<1> QED
  BY <1>1, <1>2, <1>3, <1>4, <1>5, Zenon

(* An event with a hidden Shift, and one without. *)
LEMMA FourBytes ==
  ASSUME NEW a \in KbdBytes, NEW b \in KbdBytes, NEW c \in KbdBytes, NEW e \in KbdBytes,
         NEW s, s = <<a, b>> \o <<c, e>>
  PROVE  /\ s \in Seq(KbdBytes) /\ Len(s) = 4
         /\ s[1] = a /\ s[2] = b /\ s[3] = c /\ s[4] = e
<1>1. <<a, b>> \in Seq(KbdBytes) /\ <<c, e>> \in Seq(KbdBytes)
  OBVIOUS
<1> QED
  BY <1>1

LEMMA TwoBytes ==
  ASSUME NEW b \in KbdBytes, NEW ext \in BOOLEAN, NEW s, s = IF ext THEN <<E0, b>> ELSE <<b>>
  PROVE  /\ s \in Seq(KbdBytes)
         /\ ext => Len(s) = 2 /\ s[1] = E0 /\ s[2] = b
         /\ ~ext => Len(s) = 1 /\ s[1] = b
  BY BytesTyped

(* What an event sends, byte by byte. *)
Event(b) ==
  \/ Len(wire') = 1 /\ wire'[1] = b
  \/ Len(wire') = 2 /\ wire'[1] = E0 /\ wire'[2] = b
  \/ /\ Len(wire') = 4 /\ wire'[1] = E0 /\ wire'[3] = E0
     /\ b.code = "4B"
     /\ \/ wire'[2] = Break("2A") /\ wire'[4] = b
        \/ wire'[2] = b /\ wire'[4] = Make("2A")

LEMMA EventBytes ==
  ASSUME KbdInv, NEW cap \in Keycaps, Press(cap) \/ Repeat(cap) \/ Release(cap)
  PROVE  /\ wire = <<>> /\ wire' \in Seq(KbdBytes) /\ wire' # <<>>
         /\ UNCHANGED <<ext_pending, shift_held, ctrl_held, alt_held, caps_lock, put>>
         /\ \/ /\ cap \in down' /\ down \subseteq down' /\ down' \subseteq Keycaps
               /\ Event(Make(CodeOf[cap]))
            \/ down' = down \ {cap} /\ Event(Break(CodeOf[cap]))
         /\ cap \notin Extended => Len(wire') = 1
         /\ cap \in Extended => wire'[1] = E0 /\ Len(wire') # 1
<1>1. cap \in DOMAIN CodeOf
  BY KeyboardAssumption
<1>2. /\ CodeOf[cap] \in Codes /\ CodeOf[cap] # "E0" /\ (cap = "Left" => CodeOf[cap] = "4B")
  BY <1>1, KeyCodes
<1> DEFINE m == Make(CodeOf[cap])
           b == Break(CodeOf[cap])
<1>3. /\ m \in KbdBytes /\ b \in KbdBytes /\ E0 \in KbdBytes
      /\ Make("2A") \in KbdBytes /\ Break("2A") \in KbdBytes
      /\ m.code = CodeOf[cap] /\ b.code = CodeOf[cap]
  BY <1>2, BytesTyped
<1>4. mods' = mods => UNCHANGED <<shift_held, ctrl_held, alt_held, caps_lock>>
  BY DEF mods
<1>5. "Left" \in Extended
  BY DEF Extended
<1> HIDE DEF m, b
<1>6. CASE Press(cap)
  <2>1. /\ wire = <<>> /\ cap \notin down /\ down' = down \cup {cap}
        /\ mods' = mods /\ UNCHANGED <<ext_pending, put>>
        /\ \/ wire' = IF cap \in Extended THEN <<E0, m>> ELSE <<m>>
           \/ cap = "Left" /\ wire' = <<E0, Break("2A")>> \o
                                       IF cap \in Extended THEN <<E0, m>> ELSE <<m>>
    BY <1>6 DEF Press, Bytes, Hidden, m
  <2>2. Event(m) /\ wire' \in Seq(KbdBytes) /\ wire' # <<>>
        /\ (cap \notin Extended => Len(wire') = 1)
        /\ (cap \in Extended => wire'[1] = E0 /\ Len(wire') # 1)
    <3>1. CASE wire' = IF cap \in Extended THEN <<E0, m>> ELSE <<m>>
      BY <1>3, <3>1, TwoBytes DEF Event
    <3>2. CASE cap = "Left" /\ wire' = <<E0, Break("2A")>> \o <<E0, m>>
      BY <1>2, <1>3, <1>5, <3>2, FourBytes DEF Event
    <3> QED
      BY <1>5, <2>1, <3>1, <3>2
  <2> QED
    BY <1>4, <2>1, <2>2 DEF m, KbdInv
<1>7. CASE Repeat(cap)
  <2>1. /\ wire = <<>> /\ cap \in down /\ down' = down
        /\ mods' = mods /\ UNCHANGED <<ext_pending, put>>
        /\ wire' = IF cap \in Extended THEN <<E0, m>> ELSE <<m>>
    BY <1>7 DEF Repeat, Bytes, m
  <2>2. Event(m) /\ wire' \in Seq(KbdBytes) /\ wire' # <<>>
        /\ (cap \notin Extended => Len(wire') = 1)
        /\ (cap \in Extended => wire'[1] = E0 /\ Len(wire') # 1)
    BY <1>2, <1>3, <2>1 DEF Event
  <2> QED
    BY <1>4, <2>1, <2>2 DEF m, KbdInv
<1>8. CASE Release(cap)
  <2>1. /\ wire = <<>> /\ cap \in down /\ down' = down \ {cap}
        /\ mods' = mods /\ UNCHANGED <<ext_pending, put>>
        /\ \/ wire' = IF cap \in Extended THEN <<E0, b>> ELSE <<b>>
           \/ /\ cap = "Left"
              /\ wire' = (IF cap \in Extended THEN <<E0, b>> ELSE <<b>>) \o <<E0, Make("2A")>>
    BY <1>8 DEF Release, Bytes, Hidden, b
  <2>2. Event(b) /\ wire' \in Seq(KbdBytes) /\ wire' # <<>>
        /\ (cap \notin Extended => Len(wire') = 1)
        /\ (cap \in Extended => wire'[1] = E0 /\ Len(wire') # 1)
    <3>1. CASE wire' = IF cap \in Extended THEN <<E0, b>> ELSE <<b>>
      BY <1>3, <3>1, TwoBytes DEF Event
    <3>2. CASE cap = "Left" /\ wire' = <<E0, b>> \o <<E0, Make("2A")>>
      BY <1>2, <1>3, <1>5, <3>2, FourBytes DEF Event
    <3> QED
      BY <1>5, <2>1, <3>1, <3>2
  <2> QED
    BY <1>4, <2>1, <2>2 DEF b, KbdInv
<1> QED
  BY <1>6, <1>7, <1>8

LEMMA EventKeepsKbdInv ==
  ASSUME KbdInv, NEW cap \in Keycaps, Press(cap) \/ Repeat(cap) \/ Release(cap)
  PROVE  KbdInv'
<1>1. cap \in DOMAIN CodeOf
  BY KeyboardAssumption
<1> DEFINE code == CodeOf[cap]
           b == wire'[Len(wire')]
<1>2. /\ code \in Codes /\ code # "E0"
      /\ code = "2A" => cap = "LShift"
      /\ code = "36" => cap = "RShift"
      /\ code = "1D" => cap \in {"LCtrl", "RCtrl"}
      /\ code = "38" => cap \in {"LAlt", "AltGr"}
      /\ code = "fn" => cap = "F1"
      /\ cap = "LShift" => code = "2A"
      /\ cap = "RShift" => code = "36"
      /\ cap = "LCtrl" => code = "1D"
      /\ cap = "LAlt" => code = "38"
      /\ cap = "Left" => code = "4B"
      /\ cap \in Extended <=> cap \in {"RCtrl", "AltGr", "Left"}
  BY <1>1, KeyCodes DEF Extended
<1>3. /\ wire = <<>> /\ wire' \in Seq(KbdBytes) /\ wire' # <<>>
      /\ UNCHANGED <<ext_pending, shift_held, ctrl_held, alt_held, caps_lock, put>>
      /\ \/ /\ cap \in down' /\ down \subseteq down' /\ down' \subseteq Keycaps
            /\ Event(Make(code))
         \/ down' = down \ {cap} /\ Event(Break(code))
      /\ cap \notin Extended => Len(wire') = 1
      /\ cap \in Extended => wire'[1] = E0 /\ Len(wire') # 1
  BY EventBytes
<1> HIDE DEF code
<1>4. /\ ~ext_pending
      /\ shift_held => down \cap Shifts # {}
      /\ ctrl_held => "LCtrl" \in down
      /\ alt_held => "LAlt" \in down
  BY <1>3 DEF KbdInv, ReleasedSoon
<1>5. /\ E0.code = "E0" /\ ~E0.up
      /\ Make(code).code = code /\ Break(code).code = code /\ Break(code).up
      /\ Break("2A").code = "2A" /\ Make("2A").code = "2A"
      /\ Make(code) # E0 /\ Break(code) # E0 /\ Make("2A") # E0 /\ Break("2A") # E0
      /\ \A c : Break(code) # Make(c)
      /\ \A c : Make(code) = Make(c) => code = c
      /\ \A c : c # "E0" => Make(c) # E0
  <2>1. Break(code).up
    BY Zenon DEF Break
  <2>2. ~E0.up
    BY Zenon DEF E0, Make
  <2> QED
    BY <1>2, <2>1, <2>2, BytesTyped, Zenon DEF E0, Make, Break
<1>6. PICK e \in {Make(code), Break(code)} :
        /\ Event(e)
        /\ e = Make(code) => cap \in down' /\ down \subseteq down' /\ down' \subseteq Keycaps
        /\ e = Break(code) => down' = down \ {cap}
  BY <1>3, <1>5
<1>7. /\ \A n \in 1 .. Len(wire') : n = 1 \/ n = 2 \/ n = 3 \/ n = 4
      /\ Len(wire') \in {1, 2, 4}
      /\ Len(wire') = 1 => wire'[1] = e
      /\ Len(wire') = 2 => wire'[1] = E0 /\ wire'[2] = e
      /\ Len(wire') = 4 => /\ wire'[1] = E0 /\ wire'[3] = E0 /\ e.code = "4B"
                           /\ \/ wire'[2] = Break("2A") /\ wire'[4] = e
                              \/ wire'[2] = e /\ wire'[4] = Make("2A")
      /\ e.code = code /\ e # E0
  <2>1. e.code = code /\ e # E0
    BY <1>5, <1>6
  <2>2. \/ Len(wire') = 1 /\ wire'[1] = e
        \/ Len(wire') = 2 /\ wire'[1] = E0 /\ wire'[2] = e
        \/ /\ Len(wire') = 4 /\ wire'[1] = E0 /\ wire'[3] = E0
           /\ e.code = "4B"
           /\ \/ wire'[2] = Break("2A") /\ wire'[4] = e
              \/ wire'[2] = e /\ wire'[4] = Make("2A")
    BY <1>6, Zenon DEF Event
  <2>4. Len(wire') = 1 \/ Len(wire') = 2 \/ Len(wire') = 4
    BY <2>2
  <2>5. \A k \in {1, 2, 4} : \A n \in 1 .. k : n = 1 \/ n = 2 \/ n = 3 \/ n = 4
    OBVIOUS
  <2>6. \A n \in 1 .. Len(wire') : n = 1 \/ n = 2 \/ n = 3 \/ n = 4
    BY <2>4, <2>5, Zenon
  <2>7. /\ Len(wire') = 1 => wire'[1] = e
        /\ Len(wire') = 2 => wire'[1] = E0 /\ wire'[2] = e
        /\ Len(wire') = 4 => /\ wire'[1] = E0 /\ wire'[3] = E0 /\ e.code = "4B"
                             /\ \/ wire'[2] = Break("2A") /\ wire'[4] = e
                                \/ wire'[2] = e /\ wire'[4] = Make("2A")
    BY <2>2
  <2> QED
    BY <2>1, <2>4, <2>6, <2>7, Zenon
<1>8. \A n \in 1 .. Len(wire') : /\ wire'[n] = E0 => n < Len(wire') /\ wire'[n + 1] # E0
                                 /\ wire'[n].code = "fn" => Len(wire') = 1
  BY <1>2, <1>3, <1>5, <1>7
<1>9. ASSUME NEW c, c # "E0", NEW k, code = c /\ cap \notin Extended => k = cap
      PROVE  Reported(c, k)'
  <2> SUFFICES ASSUME NEW n \in 1 .. Len(wire'), PlainAt(n)', wire'[n] = Make(c)
               PROVE  k \in down'
    BY DEF Reported
  <2>1. wire'[n] # E0
    BY <1>5, <1>9
  <2>2. Len(wire') = 1 /\ n = 1
    BY <1>3, <1>7, <2>1 DEF PlainAt
  <2>3. Make(c) = e
    BY <1>7, <2>2
  <2>4. e = Make(code) /\ code = c
    BY <1>5, <1>6, <2>3
  <2> QED
    BY <1>3, <1>6, <1>9, <2>2, <2>4
<1>10. /\ Reported("2A", "LShift")' /\ Reported("36", "RShift")'
       /\ Reported("1D", "LCtrl")' /\ Reported("38", "LAlt")' /\ Reported("fn", "F1")'
  BY <1>2, <1>9
<1>11. ASSUME NEW k, k \in down, k \notin down' PROVE /\ k = cap /\ e = Break(code)
  BY <1>6, <1>11
<1>12. ASSUME NEW codes, code \in codes, e = Break(code) PROVE ReleasedSoon(codes)'
  <2>1. \E n \in 1 .. Len(wire') : wire'[n] = e
    BY <1>7
  <2> QED
    BY <1>5, <1>7, <1>12, <2>1 DEF ReleasedSoon
<1>13. /\ shift_held' => down' \cap Shifts # {} \/ ReleasedSoon({"2A", "36"})'
       /\ ctrl_held' => "LCtrl" \in down' \/ ReleasedSoon({"1D"})'
       /\ alt_held' => "LAlt" \in down' \/ ReleasedSoon({"38"})'
  BY <1>2, <1>3, <1>4, <1>11, <1>12 DEF Shifts
<1> QED
  BY <1>3, <1>4, <1>6, <1>8, <1>10, <1>13 DEF KbdInv

(* What the handler does with any byte. *)
LEMMA ByteRead ==
  ASSUME KbdInv, KbdIrq
  PROVE  /\ wire # <<>> /\ wire \in Seq(KbdBytes) /\ wire' = Tail(wire) /\ down' = down
         /\ ext_pending' \in BOOLEAN /\ (ext_pending' <=> wire[1] = E0)
         /\ wire' \in Seq(KbdBytes) /\ Len(wire') = Len(wire) - 1
         /\ \A n \in 1 .. Len(wire') : n + 1 \in 1 .. Len(wire) /\ wire'[n] = wire[n + 1]
<1>1. wire # <<>> /\ wire \in Seq(KbdBytes) /\ wire' = Tail(wire) /\ down' = down
  BY DEF KbdIrq, Prefix, KeyUp, ExtendedDown, ModifierDown, PlainDown, KeyDown, Read, KbdInv
<1>2. ~E0.up
  BY Zenon DEF E0, Make
<1>3. Byte = wire[1]
  BY <1>1 DEF Byte
<1>4. ext_pending' \in BOOLEAN /\ (ext_pending' <=> wire[1] = E0)
  <2>1. CASE Prefix
    BY <1>3, <2>1 DEF Prefix
  <2>2. CASE KeyUp
    BY <1>2, <1>3, <2>2 DEF KeyUp
  <2>3. CASE ExtendedDown
    BY <1>3, <2>3 DEF ExtendedDown
  <2>4. CASE ModifierDown \/ KeyDown
    BY <1>3, <2>4 DEF ModifierDown, KeyDown, PlainDown, KbdInv
  <2> QED
    BY <2>1, <2>2, <2>3, <2>4 DEF KbdIrq
<1> QED
  BY <1>1, <1>4

LEMMA IrqKeepsWire ==
  ASSUME KbdInv, KbdIrq
  PROVE  /\ ext_pending' => wire' # <<>> /\ Head(wire') # E0
         /\ \A n \in 1 .. Len(wire') : /\ wire'[n] = E0 => n < Len(wire') /\ wire'[n + 1] # E0
                                       /\ wire'[n].code = "fn" => Len(wire') = 1
         /\ Reported("2A", "LShift")' /\ Reported("36", "RShift")'
         /\ Reported("1D", "LCtrl")' /\ Reported("38", "LAlt")' /\ Reported("fn", "F1")'
<1>1. /\ wire # <<>> /\ wire \in Seq(KbdBytes) /\ wire' = Tail(wire) /\ down' = down
      /\ ext_pending' \in BOOLEAN /\ (ext_pending' <=> wire[1] = E0)
      /\ wire' \in Seq(KbdBytes) /\ Len(wire') = Len(wire) - 1
      /\ \A n \in 1 .. Len(wire') : n + 1 \in 1 .. Len(wire) /\ wire'[n] = wire[n + 1]
  BY ByteRead
<1>2. \A n \in 1 .. Len(wire) : /\ wire[n] = E0 => n < Len(wire) /\ wire[n + 1] # E0
                                /\ wire[n].code = "fn" => Len(wire) = 1
  BY DEF KbdInv
<1>3. ext_pending' => wire' # <<>> /\ Head(wire') # E0
  <2> SUFFICES ASSUME ext_pending' PROVE wire' # <<>> /\ Head(wire') # E0
    OBVIOUS
  <2>1. wire[1] = E0 /\ 1 \in 1 .. Len(wire)
    BY <1>1
  <2>2. 1 < Len(wire) /\ wire[1 + 1] # E0
    BY <1>2, <2>1
  <2>3. 1 \in 1 .. Len(wire') /\ wire'[1] = wire[1 + 1]
    BY <1>1, <2>2
  <2>4. Len(wire') >= 1 /\ Head(wire') = wire'[1]
    BY <1>1, <2>2, <2>3
  <2> QED
    BY <1>1, <2>2, <2>3, <2>4
<1>4. \A n \in 1 .. Len(wire') : /\ wire'[n] = E0 => n < Len(wire') /\ wire'[n + 1] # E0
                                 /\ wire'[n].code = "fn" => Len(wire') = 1
  <2> SUFFICES ASSUME NEW n \in 1 .. Len(wire')
               PROVE  /\ wire'[n] = E0 => n < Len(wire') /\ wire'[n + 1] # E0
                      /\ wire'[n].code = "fn" => Len(wire') = 1
    OBVIOUS
  <2>1. n + 1 \in 1 .. Len(wire) /\ wire'[n] = wire[n + 1] /\ n \in Nat /\ n >= 1
    BY <1>1
  <2>2. wire[n + 1].code # "fn"
    BY <1>1, <1>2, <2>1
  <2>3. wire[n + 1] = E0 => n + 1 < Len(wire) /\ wire[(n + 1) + 1] # E0
    BY <1>2, <2>1
  <2> QED
    BY <1>1, <2>1, <2>2, <2>3
<1>5. ASSUME NEW c, NEW k, Reported(c, k) PROVE Reported(c, k)'
  <2> SUFFICES ASSUME NEW n \in 1 .. Len(wire'), PlainAt(n)', wire'[n] = Make(c)
               PROVE  k \in down'
    BY DEF Reported
  <2>1. n + 1 \in 1 .. Len(wire) /\ wire[n + 1] = Make(c) /\ n + 1 # 1
    BY <1>1
  <2>2. PlainAt(n + 1)
    BY <1>1 DEF PlainAt
  <2> QED
    BY <1>1, <1>5, <2>1, <2>2 DEF Reported
<1> QED
  BY <1>3, <1>4, <1>5 DEF KbdInv

LEMMA IrqKeepsKbdInv ==
  ASSUME KbdInv, KbdIrq
  PROVE  KbdInv'
<1>1. /\ wire # <<>> /\ wire \in Seq(KbdBytes) /\ wire' = Tail(wire) /\ down' = down
      /\ ext_pending' \in BOOLEAN /\ (ext_pending' <=> wire[1] = E0)
      /\ wire' \in Seq(KbdBytes) /\ Len(wire') = Len(wire) - 1
      /\ \A n \in 1 .. Len(wire') : n + 1 \in 1 .. Len(wire) /\ wire'[n] = wire[n + 1]
  BY ByteRead
<1>2. Byte = wire[1] /\ 1 \in 1 .. Len(wire)
  BY <1>1 DEF Byte
<1>3. ASSUME NEW codes, ReleasedSoon(codes), ~(Byte.up /\ Byte.code \in codes)
      PROVE  ReleasedSoon(codes)'
  <2>1. PICK n \in 1 .. Len(wire) : wire[n].up /\ wire[n].code \in codes
    BY <1>3 DEF ReleasedSoon
  <2>2. n # 1
    BY <1>2, <1>3, <2>1
  <2>3. n - 1 \in 1 .. Len(wire') /\ wire'[n - 1] = wire[n]
    BY <1>1, <2>2
  <2> QED
    BY <2>1, <2>3 DEF ReleasedSoon
<1> DEFINE Held(shift, ctrl, alt, caps) ==
             /\ shift \in BOOLEAN /\ ctrl \in BOOLEAN /\ alt \in BOOLEAN /\ caps \in BOOLEAN
             /\ shift => down \cap Shifts # {} \/ ReleasedSoon({"2A", "36"})'
             /\ ctrl => "LCtrl" \in down \/ ReleasedSoon({"1D"})'
             /\ alt => "LAlt" \in down \/ ReleasedSoon({"38"})'
<1>4. /\ shift_held \in BOOLEAN /\ ctrl_held \in BOOLEAN /\ alt_held \in BOOLEAN
      /\ caps_lock \in BOOLEAN
      /\ shift_held => down \cap Shifts # {} \/ ReleasedSoon({"2A", "36"})
      /\ ctrl_held => "LCtrl" \in down \/ ReleasedSoon({"1D"})
      /\ alt_held => "LAlt" \in down \/ ReleasedSoon({"38"})
  BY DEF KbdInv
<1>5. ~Byte.up => Held(shift_held, ctrl_held, alt_held, caps_lock)
  BY <1>3, <1>4
<1>6. mods' = mods <=> UNCHANGED <<shift_held, ctrl_held, alt_held, caps_lock>>
  BY DEF mods
<1>7. ~E0.up
  BY Zenon DEF E0, Make
<1>8. Held(shift_held', ctrl_held', alt_held', caps_lock') /\ put' \in KeysPut \cup {NoKey}
  <2>1. CASE Prefix
    BY <1>5, <1>6, <1>7, <2>1 DEF Prefix
  <2>2. CASE KeyUp
    <3>1. /\ shift_held' = (shift_held /\ Byte.code \notin {"2A", "36"})
          /\ ctrl_held' = (ctrl_held /\ Byte.code # "1D")
          /\ alt_held' = (alt_held /\ Byte.code # "38")
          /\ put' = NoKey /\ caps_lock' = caps_lock
      BY <2>2 DEF KeyUp
    <3>2. /\ shift_held' \in BOOLEAN /\ ctrl_held' \in BOOLEAN /\ alt_held' \in BOOLEAN
          /\ shift_held' => shift_held /\ Byte.code \notin {"2A", "36"}
          /\ ctrl_held' => ctrl_held /\ Byte.code \notin {"1D"}
          /\ alt_held' => alt_held /\ Byte.code \notin {"38"}
      BY <3>1, Zenon
    <3> QED
      BY <1>3, <1>4, <3>1, <3>2
  <2>3. CASE ExtendedDown
    <3>1. put' \in KeysPut \cup {NoKey}
      BY <2>3 DEF ExtendedDown, KeysPut
    <3> QED
      BY <1>5, <1>6, <2>3, <3>1 DEF ExtendedDown
  <2>4. CASE ModifierDown
    <3>1. /\ ~ext_pending /\ ~Byte.up /\ put' = NoKey
          /\ alt_held' = (alt_held \/ Byte.code = "38")
          /\ ctrl_held' = (ctrl_held \/ Byte.code = "1D")
          /\ shift_held' = (shift_held \/ Byte.code \in {"2A", "36"})
          /\ caps_lock' = (caps_lock # (Byte.code = "3A"))
      BY <2>4 DEF ModifierDown, PlainDown
    <3>2. /\ shift_held' \in BOOLEAN /\ ctrl_held' \in BOOLEAN /\ alt_held' \in BOOLEAN
          /\ caps_lock' \in BOOLEAN
          /\ shift_held' => shift_held \/ Byte.code \in {"2A", "36"}
          /\ ctrl_held' => ctrl_held \/ Byte.code = "1D"
          /\ alt_held' => alt_held \/ Byte.code = "38"
      BY <3>1, Zenon
    <3>3. Byte = Make(Byte.code)
      <4>1. Byte \in KbdBytes
        BY <1>1, <1>2
      <4>2. Byte = [code |-> Byte.code, up |-> Byte.up] /\ Byte.up \in BOOLEAN
        BY <4>1 DEF KbdBytes
      <4>3. Byte.up = FALSE
        BY <3>1, <4>2
      <4> QED
        BY <4>2, <4>3 DEF Make
    <3>4. \A c, k : Reported(c, k) /\ Byte.code = c => k \in down
      BY <1>2, <3>1, <3>3 DEF Reported, PlainAt
    <3>5. /\ Byte.code \in {"2A", "36"} => down \cap Shifts # {}
          /\ Byte.code = "1D" => "LCtrl" \in down
          /\ Byte.code = "38" => "LAlt" \in down
      BY <3>4 DEF KbdInv, Shifts
    <3> QED
      BY <1>5, <3>1, <3>2, <3>5
  <2>5. CASE KeyDown
    <3>1. ~Byte.up /\ mods' = mods /\ put' = Key(Byte.code)
      BY <2>5 DEF KeyDown, PlainDown
    <3>2. Key(Byte.code) \in KeysPut \cup {NoKey}
      BY Zenon DEF Key, KeysPut
    <3> QED
      BY <1>5, <1>6, <3>1, <3>2
  <2> QED
    BY <2>1, <2>2, <2>3, <2>4, <2>5 DEF KbdIrq
<1> QED
  BY <1>1, <1>8, IrqKeepsWire DEF KbdInv

(* The key that switched a terminal is still down when its byte is read. *)
Switches(key) == key \in {"KEY_ALT_F1", "KEY_CTRL_ALT_F1"} =>
                   /\ {"F1", "LAlt"} \subseteq down
                   /\ key = "KEY_CTRL_ALT_F1" => "LCtrl" \in down
SwitchInv == wire = <<>> => Switches(put)

LEMMA IrqSwitches ==
  ASSUME KbdInv, KbdIrq
  PROVE  Switches(put')
<1>1. /\ wire # <<>> /\ wire \in Seq(KbdBytes)
  BY ByteRead
<1>2. Byte = wire[1] /\ 1 \in 1 .. Len(wire)
  BY <1>1 DEF Byte
<1>3. CASE put' \notin {"KEY_ALT_F1", "KEY_CTRL_ALT_F1"}
  BY <1>3 DEF Switches
<1>4. CASE put' \in {"KEY_ALT_F1", "KEY_CTRL_ALT_F1"}
  <2>1. KeyDown
    BY <1>4, KeyboardAssumption
    DEF KbdIrq, Prefix, KeyUp, ExtendedDown, ModifierDown, KeysPut
  <2>2. ~ext_pending /\ ~Byte.up /\ put' = Key(Byte.code)
    BY <2>1 DEF KeyDown, PlainDown
  <2>3. Byte.code = "fn" /\ alt_held /\ (put' = "KEY_CTRL_ALT_F1" => ctrl_held)
    BY <1>4, <2>2, KeyboardAssumption, Zenon DEF Key, KeysPut
  <2>4. Byte = Make("fn")
    <3>1. Byte \in KbdBytes
      BY <1>1, <1>2
    <3>2. Byte = [code |-> Byte.code, up |-> Byte.up] /\ Byte.up \in BOOLEAN
      BY <3>1 DEF KbdBytes
    <3>3. Byte.up = FALSE
      BY <2>2, <3>2
    <3> QED
      BY <2>3, <3>2, <3>3 DEF Make
  <2>5. "F1" \in down
    BY <1>2, <2>2, <2>4 DEF KbdInv, Reported, PlainAt
  <2>6. Len(wire) = 1
    BY <1>2, <2>3 DEF KbdInv
  <2>7. \A codes : ~ReleasedSoon(codes)
    BY <1>2, <2>2, <2>6 DEF ReleasedSoon
  <2> QED
    BY <2>3, <2>5, <2>7 DEF KbdInv, Switches
<1> QED
  BY <1>3, <1>4

KbdFullInv == KbdInv /\ SwitchInv

LEMMA KbdInvKept ==
  ASSUME KbdFullInv, [Next]_vars
  PROVE  KbdFullInv'
<1>1. ASSUME UNCHANGED kbdVars PROVE KbdFullInv'
  BY <1>1 DEF kbdVars, KbdFullInv, KbdInv, Reported, PlainAt, ReleasedSoon, SwitchInv, Switches
<1>2. ASSUME KbdIrq PROVE KbdFullInv'
  <2>1. down' = down
    BY <1>2, ByteRead DEF KbdFullInv
  <2> QED
    BY <1>2, <2>1, IrqKeepsKbdInv, IrqSwitches DEF KbdFullInv, SwitchInv, Switches
<1>3. ASSUME NEW cap \in Keycaps, Press(cap) \/ Repeat(cap) \/ Release(cap)
      PROVE  KbdFullInv'
  BY <1>3, EventKeepsKbdInv, EventBytes DEF KbdFullInv, SwitchInv
<1> QED
  BY <1>1, <1>2, <1>3 DEF Next, Acts, Ticks, Waits, KbdNext, vars

LEMMA InitKbdInv == KbdInit => KbdFullInv
<1> SUFFICES ASSUME KbdInit PROVE KbdFullInv
  OBVIOUS
<1>1. wire = <<>> /\ wire \in Seq(KbdBytes) /\ Len(wire) = 0
  BY DEF KbdInit
<1>2. \A n \in 1 .. Len(wire) : FALSE
  BY <1>1
<1>3. SwitchInv
  BY KeyboardAssumption DEF KbdInit, SwitchInv, Switches, KeysPut
<1> QED
  BY <1>1, <1>2, <1>3 DEF KbdInit, KbdFullInv, KbdInv, Reported

(* The invariant of the keyboard. *)
THEOREM KbdInvariant == Spec => []KbdFullInv
<1>1. Init => KbdFullInv
  BY InitKbdInv DEF Init
<1>2. KbdFullInv /\ [Next]_vars => KbdFullInv'
  BY KbdInvKept
<1> QED
  BY <1>1, <1>2, PTL DEF Spec

(* keyboard.c:103-110, 133-142: once the bytes of an event are read the
   handler holds no modifier that is not down, whatever keys there are. *)
THEOREM NoModifierSticks == Spec => []NoStuckModifiers
<1>1. KbdFullInv => NoStuckModifiers
  BY DEF KbdFullInv, KbdInv, ReleasedSoon, NoStuckModifiers
<1> QED
  BY <1>1, KbdInvariant, PTL

(* keyboard.c:148-154: a terminal is switched only by a function key with
   Alt down, and Ctrl tells the two kinds apart. *)
THEOREM SwitchesAreMeant == Spec => SwitchIsMeant
<1>1. KbdFullInv /\ [Next]_vars =>
        [put' \in {"KEY_ALT_F1", "KEY_CTRL_ALT_F1"} /\ wire' # wire =>
           /\ {"F1", "LAlt"} \subseteq down
           /\ put' = "KEY_CTRL_ALT_F1" => "LCtrl" \in down]_kbdVars
  <2> SUFFICES ASSUME KbdFullInv, [Next]_vars, wire' # wire
               PROVE  Switches(put')
    BY DEF Switches
  <2>1. KbdIrq \/ \E cap \in Keycaps : Press(cap) \/ Repeat(cap) \/ Release(cap)
    BY DEF Next, Acts, Ticks, Waits, KbdNext, vars, kbdVars
  <2>2. ASSUME NEW cap \in Keycaps, Press(cap) \/ Repeat(cap) \/ Release(cap)
        PROVE  Switches(put')
    BY <2>2, EventBytes DEF KbdFullInv, SwitchInv
  <2> QED
    BY <2>1, <2>2, IrqSwitches DEF KbdFullInv
<1> QED
  BY <1>1, KbdInvariant, PTL DEF Spec, SwitchIsMeant

-------------------------------------------------------------------------------
(* A non-empty set of naturals has a least element. *)
LEMMA LeastNat ==
  ASSUME NEW T, T \subseteq Nat, T # {}
  PROVE  \E x \in T : \A y \in T : x <= y
<1> DEFINE R == {ss \in Nat \X Nat : ss[1] < ss[2]}
<1>1. IsWellFoundedOn(R, Nat)
  BY NatLessThanWellFounded, Zenon DEF OpToRel
<1>2. \A x, y \in Nat : <<y, x>> \in R <=> y < x
  OBVIOUS
<1> HIDE DEF R
<1>3. \E x \in T : \A y \in T : ~ (<<y, x>> \in R)
  BY <1>1, WFMin
<1>4. PICK x \in T : \A y \in T : ~ (<<y, x>> \in R)
  BY <1>3
<1>5. \A y \in T : ~ (y < x)
  BY <1>2, <1>4
<1> QED
  BY <1>4, <1>5

(* at is where the pointer goes, byte by byte. *)
IsPath(at, x, bytes) ==
  /\ DOMAIN at = 0 .. Len(bytes)
  /\ at[0] = x
  /\ \A n \in 1 .. Len(bytes) :
       at[n] = IF bytes[n].what = "dx" THEN Clamp(at[n - 1] + bytes[n].by) ELSE at[n - 1]

Walk(at, x, bytes, len) ==
  at = [n \in 0 .. len |->
          IF n = 0 THEN x
          ELSE IF bytes[n].what = "dx" THEN Clamp(at[n - 1] + bytes[n].by)
          ELSE at[n - 1]]

LEMMA WalkExists ==
  ASSUME NEW x, NEW bytes, NEW len \in Nat
  PROVE  \E at : Walk(at, x, bytes, len)
<1> DEFINE Bad == {k \in Nat : ~ \E at : Walk(at, x, bytes, k)}
<1>1. SUFFICES ASSUME Bad # {} PROVE FALSE
  BY DEF Bad
<1>2. PICK m \in Bad : \A k \in Bad : m <= k
  BY <1>1, LeastNat
<1>3. CASE m = 0
  <2> DEFINE at == [n \in 0 .. 0 |-> x]
  <2>1. at = [n \in 0 .. 0 |->
          IF n = 0 THEN x
          ELSE IF bytes[n].what = "dx" THEN Clamp(at[n - 1] + bytes[n].by)
          ELSE at[n - 1]]
    OBVIOUS
  <2> QED
    BY <1>2, <1>3, <2>1 DEF Walk
<1>4. CASE m # 0
  <2>1. m - 1 \in Nat /\ m - 1 \notin Bad /\ m \in Nat
    BY <1>2, <1>4
  <2>2. PICK at : Walk(at, x, bytes, m - 1)
    BY <2>1
  <2> DEFINE step(n) == IF n = 0 THEN x
                        ELSE IF bytes[n].what = "dx" THEN Clamp(at[n - 1] + bytes[n].by)
                        ELSE at[n - 1]
             more == [n \in 0 .. m |-> step(n)]
  <2>3. at = [n \in 0 .. (m - 1) |-> step(n)]
    BY <2>2 DEF Walk
  <2> HIDE DEF step
  <2>4. \A n \in 0 .. (m - 1) : more[n] = at[n]
    BY <2>1, <2>3
  <2>5. \A n \in 0 .. m : n # 0 => n - 1 \in 0 .. (m - 1)
    BY <2>1
  <2>6. \A n \in 0 .. m : n # 0 => more[n - 1] = at[n - 1]
    BY <2>4, <2>5
  <2> HIDE DEF more
  <2>7. \A n \in 0 .. m : step(n) = IF n = 0 THEN x
                        ELSE IF bytes[n].what = "dx" THEN Clamp(more[n - 1] + bytes[n].by)
                        ELSE more[n - 1]
    BY <2>6, Zenon DEF step
  <2>8. Walk(more, x, bytes, m)
    BY <2>7 DEF Walk, more
  <2> QED
    BY <1>2, <2>8
<1> QED
  BY <1>3, <1>4

LEMMA LedIsPath ==
  ASSUME NEW x, NEW bytes \in Seq(PortByte)
  PROVE  \E at : IsPath(at, x, bytes) /\ Led(x, bytes) = at[Len(bytes)]
<1> DEFINE at == CHOOSE f : Walk(f, x, bytes, Len(bytes))
<1>1. Walk(at, x, bytes, Len(bytes))
  <2>1. Len(bytes) \in Nat
    OBVIOUS
  <2> QED
    BY <2>1, WalkExists, Zenon
<1>2. Led(x, bytes) = at[Len(bytes)]
  BY Zenon DEF Led, Walk
<1> HIDE DEF at
<1>3. IsPath(at, x, bytes)
  <2>1. Len(bytes) \in Nat
    OBVIOUS
  <2>2. /\ \A n \in 1 .. Len(bytes) : n \in 0 .. Len(bytes) /\ n # 0
        /\ 0 \in 0 .. Len(bytes)
    BY <2>1
  <2>3. /\ DOMAIN at = 0 .. Len(bytes)
        /\ \A n \in 0 .. Len(bytes) :
             at[n] = IF n = 0 THEN x
                     ELSE IF bytes[n].what = "dx" THEN Clamp(at[n - 1] + bytes[n].by)
                     ELSE at[n - 1]
    BY <1>1, Zenon DEF Walk
  <2> QED
    BY <2>2, <2>3 DEF IsPath
<1> QED
  BY <1>2, <1>3

(* g reads the bytes that f reads after its first k, from the same place. *)
Alongside(f, b, g, c, k, len) ==
  /\ b \in Seq(PortByte) /\ c \in Seq(PortByte)
  /\ k \in Nat /\ len \in Nat /\ len <= Len(c) /\ k + len <= Len(b)
  /\ IsPath(f, f[0], b) /\ IsPath(g, f[k], c)
  /\ \A n \in 1 .. len : c[n] = b[k + n]

LEMMA WalksAgree ==
  ASSUME NEW f, NEW b, NEW g, NEW c, NEW k, NEW len, Alongside(f, b, g, c, k, len)
  PROVE  g[len] = f[k + len]
<1> USE DEF Alongside
<1> DEFINE Bad == {n \in Nat : n <= len /\ g[n] # f[k + n]}
<1>1. SUFFICES ASSUME Bad # {} PROVE FALSE
  BY DEF Bad
<1>2. PICK m \in Bad : \A n \in Bad : m <= n
  BY <1>1, LeastNat
<1>3. m # 0
  BY <1>2 DEF IsPath
<1>4. m - 1 \in Nat /\ m - 1 <= len /\ m - 1 \notin Bad /\ m \in 1 .. len
  BY <1>2, <1>3
<1>5. g[m - 1] = f[k + (m - 1)]
  BY <1>4
<1>6. m \in 1 .. Len(c) /\ k + m \in 1 .. Len(b) /\ c[m] = b[k + m] /\ (k + m) - 1 = k + (m - 1)
  BY <1>4
<1>7. g[m] = f[k + m]
  BY <1>5, <1>6 DEF IsPath
<1> QED
  BY <1>2, <1>7

LEMMA PortBytesTyped ==
  /\ Ack \in PortByte /\ First \in PortByte /\ Dy \in PortByte
  /\ \A v \in Moves : Dx(v) \in PortByte
  /\ \A byte \in PortByte : byte.by \in Int
  /\ \A byte \in PortByte : byte.what = "first" => Bit3(byte)
  /\ First.what = "first" /\ Dy.what = "dy" /\ \A v : Dx(v).what = "dx" /\ Dx(v).by = v
<1>1. /\ Ack.by = -6 /\ First.by = 8 /\ Dy.by = 0
      /\ First.what = "first" /\ Dy.what = "dy" /\ \A v : Dx(v).what = "dx" /\ Dx(v).by = v
  BY DEF Ack, First, Dy, Dx
<1>2. \A byte \in PortByte : byte.by \in Int
  BY <1>1, MouseAssumption DEF PortByte
<1> QED
  BY <1>1, <1>2 DEF PortByte, Bit3

LEMMA ClampTyped ==
  ASSUME NEW x \in Int
  PROVE  Clamp(x) \in 0 .. (Width - 1)
  BY MouseAssumption DEF Clamp

LEMMA MouseTypeKept ==
  ASSUME MouseTypeOK, [MouseNext]_mouseVars
  PROVE  MouseTypeOK'
<1> USE DEF MouseTypeOK
<1>1. ASSUME Initialise PROVE MouseTypeOK'
  <2>1. /\ port' = Append(port, Ack) \/ port' = port \/ (port # <<>> /\ port' = Tail(port))
        /\ UNCHANGED <<pkt, mx, mdirty, d, drawn, real>>
        /\ mpc' \in {"recvF6", "sendF4", "recvF4", "loop"}
    BY <1>1 DEF Initialise, Send, Recv
  <2>2. Append(port, Ack) \in Seq(PortByte)
    BY PortBytesTyped
  <2>3. port # <<>> => Tail(port) \in Seq(PortByte)
    OBVIOUS
  <2>4. port' \in Seq(PortByte)
    BY <2>1, <2>2, <2>3
  <2> QED
    BY <2>1, <2>4
<1>2. ASSUME NEW v \in Moves, Move(v) PROVE MouseTypeOK'
  <2>1. <<First, Dx(v), Dy>> \in Seq(PortByte)
    BY PortBytesTyped
  <2>2. Clamp(real + v) \in 0 .. (Width - 1)
    <3>1. real + v \in Int
      BY MouseAssumption
    <3> QED
      BY <3>1, ClampTyped
  <2> QED
    BY <1>2, <2>1, <2>2 DEF Move
<1>3. ASSUME Skip \/ Gather PROVE MouseTypeOK'
  <2>1. port # <<>> /\ Head(port) \in PortByte /\ Tail(port) \in Seq(PortByte)
    BY <1>3 DEF Skip, Gather
  <2>2. /\ port' = Tail(port) /\ UNCHANGED <<mx, mdirty, mpc, d, drawn, real>>
        /\ pkt' = pkt \/ (pkt' = Append(pkt, Head(port)) /\ Len(pkt) < 2)
    BY <1>3 DEF Skip, Gather
  <2>3. Len(pkt) < 2 => /\ Append(pkt, Head(port)) \in Seq(PortByte)
                        /\ Len(Append(pkt, Head(port))) < 3
    BY <2>1
  <2>4. pkt' \in Seq(PortByte) /\ Len(pkt') < 3
    BY <2>2, <2>3
  <2> QED
    BY <2>1, <2>2, <2>4
<1>4. ASSUME Complete PROVE MouseTypeOK'
  <2>1. port # <<>> /\ Tail(port) \in Seq(PortByte) /\ Len(pkt) = 2
    BY <1>4 DEF Complete
  <2>2. Clamp(mx + pkt[2].by) \in 0 .. (Width - 1)
    <3>1. pkt[2] \in PortByte
      BY <2>1
    <3>2. mx + pkt[2].by \in Int
      BY <3>1, PortBytesTyped, MouseAssumption
    <3> QED
      BY <3>2, ClampTyped
  <2> QED
    BY <1>4, <2>1, <2>2 DEF Complete
<1>5. ASSUME ReadFlag \/ ClearFlag \/ Draw PROVE MouseTypeOK'
  BY <1>5 DEF ReadFlag, ClearFlag, Draw, Loop
<1>6. ASSUME UNCHANGED mouseVars PROVE MouseTypeOK'
  BY <1>6 DEF mouseVars
<1> QED
  BY <1>1, <1>2, <1>3, <1>4, <1>5, <1>6
  DEF MouseNext, MouseIrq, Desktop

(* InStep without its sequences: the roles repeat every three bytes. *)
Role(n) == <<"first", "dx", "dy">>[1 + ((n - 1) % 3)]

LEMMA Roles ==
  /\ \A n \in Nat \ {0} : Role(n + 3) = Role(n)
  /\ Role(1) = "first" /\ Role(2) = "dx" /\ Role(3) = "dy"
<1>1. \A n \in Nat \ {0} : ((n + 3) - 1) % 3 = (n - 1) % 3
  OBVIOUS
<1>2. (1 - 1) % 3 = 0 /\ (2 - 1) % 3 = 1 /\ (3 - 1) % 3 = 2
  OBVIOUS
<1> QED
  BY <1>1, <1>2 DEF Role

(* Whole movements wait, and lead from x to r. *)
Whole(x, w, r) ==
  /\ Len(w) % 3 = 0
  /\ \A n \in DOMAIN w : w[n].what = Role(n)
  /\ Led(x, w) = r

LEMMA InStepMeans == /\ InStep <=> Whole(mx, pkt \o port, real)
                     /\ InStep' <=> Whole(mx', pkt' \o port', real')
  BY DEF InStep, Whole, Role

(* A movement after the bytes that wait. *)
LEMMA LedFurther ==
  ASSUME NEW x, NEW b \in Seq(PortByte), NEW c \in Seq(PortByte),
         Len(c) = Len(b) + 3, \A n \in 1 .. Len(b) : c[n] = b[n],
         c[Len(b) + 1].what # "dx", c[Len(b) + 2].what = "dx", c[Len(b) + 3].what # "dx"
  PROVE  Led(x, c) = Clamp(Led(x, b) + c[Len(b) + 2].by)
<1>1. PICK f : IsPath(f, x, b) /\ Led(x, b) = f[Len(b)]
  BY LedIsPath
<1>2. PICK g : IsPath(g, x, c) /\ Led(x, c) = g[Len(c)]
  BY LedIsPath
<1>3. g[Len(b)] = f[Len(b)]
  <2>1. 0 \in Nat /\ Len(b) \in Nat /\ Len(b) <= Len(c) /\ 0 + Len(b) <= Len(b)
    OBVIOUS
  <2>2. \A n \in 1 .. Len(b) : c[n] = b[0 + n]
    OBVIOUS
  <2>3. x = f[0]
    BY <1>1 DEF IsPath
  <2>4. Alongside(f, b, g, c, 0, Len(b))
    BY <1>1, <1>2, <2>1, <2>2, <2>3 DEF Alongside
  <2>5. g[Len(b)] = f[0 + Len(b)]
    BY <2>4, WalksAgree
  <2> QED
    BY <2>5
<1>4. PICK k \in Nat : k = Len(b)
  OBVIOUS
<1>5. \A n \in 1 .. (k + 3) :
        g[n] = IF c[n].what = "dx" THEN Clamp(g[n - 1] + c[n].by) ELSE g[n - 1]
  BY <1>2, <1>4 DEF IsPath
<1>6. g[k + 1] = g[k]
  BY <1>4, <1>5
<1>7. g[k + 2] = Clamp(g[k + 1] + c[k + 2].by)
  BY <1>4, <1>5
<1>8. g[k + 3] = g[k + 2]
  BY <1>4, <1>5
<1> QED
  BY <1>1, <1>2, <1>3, <1>4, <1>6, <1>7, <1>8

(* The first movement of the bytes that wait is made. *)
LEMMA LedOn ==
  ASSUME NEW x, NEW b \in Seq(PortByte), NEW c \in Seq(PortByte),
         Len(b) = Len(c) + 3, \A n \in 1 .. Len(c) : c[n] = b[3 + n],
         b[1].what # "dx", b[2].what = "dx", b[3].what # "dx"
  PROVE  Led(x, b) = Led(Clamp(x + b[2].by), c)
<1> DEFINE y == Clamp(x + b[2].by)
<1>1. PICK f : IsPath(f, x, b) /\ Led(x, b) = f[Len(b)]
  BY LedIsPath
<1>2. PICK g : IsPath(g, y, c) /\ Led(y, c) = g[Len(c)]
  BY LedIsPath
<1>3. y = f[3]
  <2>1. 1 \in 1 .. Len(b) /\ 2 \in 1 .. Len(b) /\ 3 \in 1 .. Len(b)
    OBVIOUS
  <2>2. f[1] = x
    BY <1>1, <2>1 DEF IsPath
  <2>3. f[2] = y
    BY <1>1, <2>1, <2>2 DEF IsPath
  <2> QED
    BY <1>1, <2>1, <2>3 DEF IsPath
<1> HIDE DEF y
<1>4. 3 \in Nat /\ Len(c) \in Nat /\ Len(c) <= Len(c) /\ 3 + Len(c) <= Len(b)
  OBVIOUS
<1>5. g[Len(c)] = f[3 + Len(c)]
  <2>1. x = f[0]
    BY <1>1 DEF IsPath
  <2>2. Alongside(f, b, g, c, 3, Len(c))
    BY <1>1, <1>2, <1>3, <1>4, <2>1 DEF Alongside
  <2> QED
    BY <2>2, WalksAgree
<1>6. 3 + Len(c) = Len(b)
  OBVIOUS
<1> QED
  BY <1>1, <1>2, <1>5, <1>6 DEF y

(* A movement more waits. *)
LEMMA WholeFurther ==
  ASSUME NEW x, NEW w \in Seq(PortByte), NEW r, NEW v \in Moves, Whole(x, w, r)
  PROVE  Whole(x, w \o <<First, Dx(v), Dy>>, Clamp(r + v))
<1>1. <<First, Dx(v), Dy>> \in Seq(PortByte)
  BY PortBytesTyped
<1>2. PICK c \in Seq(PortByte) : c = w \o <<First, Dx(v), Dy>>
  <2>1. w \o <<First, Dx(v), Dy>> \in Seq(PortByte)
    BY <1>1
  <2> QED
    BY <2>1, Zenon
<1>3. PICK k \in Nat : k = Len(w)
  OBVIOUS
<1>4. /\ Len(c) = k + 3
      /\ \A n \in 1 .. k : c[n] = w[n]
      /\ c[k + 1] = First /\ c[k + 2] = Dx(v) /\ c[k + 3] = Dy
  BY <1>1, <1>2, <1>3
<1>5. k % 3 = 0 /\ (\A n \in 1 .. k : w[n].what = Role(n)) /\ Led(x, w) = r
  BY <1>3 DEF Whole
<1>6. /\ First.what = "first" /\ Dy.what = "dy" /\ Dx(v).what = "dx" /\ Dx(v).by = v
  BY PortBytesTyped
<1>7. Led(x, c) = Clamp(r + v)
  <2>1. /\ c[Len(w) + 1].what # "dx" /\ c[Len(w) + 2].what = "dx" /\ c[Len(w) + 3].what # "dx"
        /\ Len(c) = Len(w) + 3 /\ \A n \in 1 .. Len(w) : c[n] = w[n]
    BY <1>3, <1>4, <1>6
  <2>2. Led(x, c) = Clamp(Led(x, w) + c[Len(w) + 2].by)
    BY <2>1, LedFurther, Zenon
  <2> QED
    BY <1>3, <1>4, <1>5, <1>6, <2>2
<1>8. (k + 3) % 3 = 0
  BY <1>5
<1>9. Role(k + 1) = "first" /\ Role(k + 2) = "dx" /\ Role(k + 3) = "dy"
  <2>1. ((k + 1) - 1) % 3 = 0 /\ ((k + 2) - 1) % 3 = 1 /\ ((k + 3) - 1) % 3 = 2
    BY <1>5
  <2> QED
    BY <2>1 DEF Role
<1>10. ASSUME NEW n \in 1 .. (k + 3) PROVE c[n].what = Role(n)
  <2>1. n \in 1 .. k \/ n = k + 1 \/ n = k + 2 \/ n = k + 3
    OBVIOUS
  <2> QED
    BY <1>4, <1>5, <1>6, <1>9, <2>1
<1>11. Whole(x, c, Clamp(r + v))
  BY <1>4, <1>7, <1>8, <1>10 DEF Whole
<1> QED
  BY <1>2, <1>11

(* The first of the movements that wait is made. *)
LEMMA WholeOn ==
  ASSUME NEW x, NEW b \in Seq(PortByte), NEW c \in Seq(PortByte), NEW r,
         Len(b) = Len(c) + 3, \A n \in 1 .. Len(c) : c[n] = b[3 + n],
         Whole(x, b, r)
  PROVE  Whole(Clamp(x + b[2].by), c, r)
<1>1. PICK k \in Nat : k = Len(c)
  OBVIOUS
<1>2. /\ (k + 3) % 3 = 0 /\ (\A n \in 1 .. (k + 3) : b[n].what = Role(n))
      /\ Led(x, b) = r
  BY <1>1 DEF Whole
<1>3. b[1].what = "first" /\ b[2].what = "dx" /\ b[3].what = "dy"
  <2>1. 1 \in 1 .. (k + 3) /\ 2 \in 1 .. (k + 3) /\ 3 \in 1 .. (k + 3)
    OBVIOUS
  <2> QED
    BY <1>2, <2>1, Roles
<1>4. b[1].what # "dx" /\ b[3].what # "dx"
  BY <1>3
<1>5. Led(x, b) = Led(Clamp(x + b[2].by), c)
  BY <1>3, <1>4, LedOn, Zenon
<1>6. k % 3 = 0
  BY <1>2
<1>7. \A n \in 1 .. k : c[n].what = Role(n)
  <2> SUFFICES ASSUME NEW n \in 1 .. k PROVE c[n].what = Role(n)
    OBVIOUS
  <2>1. 3 + n \in 1 .. (k + 3) /\ n \in Nat \ {0} /\ 3 + n = n + 3
    OBVIOUS
  <2>2. c[n] = b[n + 3]
    BY <1>1, <2>1
  <2> QED
    BY <1>2, <2>1, <2>2, Roles
<1> QED
  BY <1>1, <1>2, <1>5, <1>6, <1>7 DEF Whole

LEMMA MoveStaysInStep ==
  ASSUME MouseTypeOK, InStep, NEW v \in Moves, Move(v)
  PROVE  InStep'
<1>1. /\ pkt' = pkt /\ mx' = mx /\ real' = Clamp(real + v)
      /\ port' = port \o <<First, Dx(v), Dy>>
  BY DEF Move
<1>2. pkt \in Seq(PortByte) /\ port \in Seq(PortByte) /\ <<First, Dx(v), Dy>> \in Seq(PortByte)
  BY PortBytesTyped DEF MouseTypeOK
<1>3. pkt \o (port \o <<First, Dx(v), Dy>>) = (pkt \o port) \o <<First, Dx(v), Dy>>
  BY <1>2, ConcatAssociative
<1>4. pkt \o port \in Seq(PortByte)
  BY <1>2
<1>5. Whole(mx, (pkt \o port) \o <<First, Dx(v), Dy>>, Clamp(real + v))
  BY <1>4, WholeFurther, InStepMeans
<1> QED
  BY <1>1, <1>3, <1>5, InStepMeans

(* The handler gathers a byte that waits, and the third makes the movement
   of the three. *)
LEMMA GatherStaysInStep ==
  ASSUME MouseTypeOK, InStep, Gather
  PROVE  InStep'
<1>1. /\ pkt \in Seq(PortByte) /\ port \in Seq(PortByte) /\ port # <<>>
      /\ port' = Tail(port) /\ pkt' = Append(pkt, Head(port)) /\ mx' = mx /\ real' = real
  BY DEF Gather, MouseTypeOK
<1>2. Append(pkt, Head(port)) \o Tail(port) = pkt \o port
  BY <1>1
<1> QED
  BY <1>1, <1>2, InStepMeans

LEMMA CompleteStaysInStep ==
  ASSUME MouseTypeOK, InStep, Complete
  PROVE  InStep'
<1>1. /\ pkt \in Seq(PortByte) /\ port \in Seq(PortByte) /\ port # <<>>
      /\ port' = Tail(port) /\ pkt' = <<>> /\ real' = real /\ Len(pkt) = 2
      /\ mx' = Clamp(mx + pkt[2].by)
  BY DEF Complete, MouseTypeOK
<1>2. PICK b \in Seq(PortByte) : b = pkt \o port
  <2>1. pkt \o port \in Seq(PortByte)
    BY <1>1
  <2> QED
    BY <2>1, Zenon
<1>3. PICK c \in Seq(PortByte) : c = Tail(port)
  <2>1. Tail(port) \in Seq(PortByte)
    BY <1>1
  <2> QED
    BY <2>1, Zenon
<1>4. /\ Len(b) = Len(c) + 3 /\ \A n \in 1 .. Len(c) : c[n] = b[3 + n]
      /\ b[2] = pkt[2]
  <2>1. /\ Len(b) = 2 + Len(port)
        /\ \A n \in 1 .. Len(port) : b[2 + n] = port[n]
        /\ b[2] = pkt[2]
    <3>1. /\ Len(b) = Len(pkt) + Len(port)
          /\ \A n \in 1 .. Len(pkt) + Len(port) :
               b[n] = IF n <= Len(pkt) THEN pkt[n] ELSE port[n - Len(pkt)]
      BY <1>1, <1>2, ConcatProperties
    <3>2. \A n \in 1 .. Len(port) : /\ 2 + n \in 1 .. 2 + Len(port) /\ ~(2 + n <= 2)
                                    /\ (2 + n) - 2 = n
      BY <1>1
    <3>3. 2 \in 1 .. 2 + Len(port)
      BY <1>1
    <3> QED
      BY <1>1, <3>1, <3>2, <3>3
  <2>2. /\ Len(port) = Len(c) + 1
        /\ \A n \in 1 .. Len(c) : n + 1 \in 1 .. Len(port) /\ c[n] = port[n + 1]
    BY <1>1, <1>3
  <2>3. \A n \in 1 .. Len(c) : 2 + (n + 1) = 3 + n
    OBVIOUS
  <2> QED
    BY <2>1, <2>2, <2>3
<1>5. Whole(Clamp(mx + b[2].by), c, real)
  BY <1>2, <1>4, WholeOn, InStepMeans
<1>6. <<>> \o Tail(port) = c
  BY <1>1, <1>3
<1> QED
  BY <1>1, <1>4, <1>5, <1>6, InStepMeans

(* In step, no byte is skipped. *)
LEMMA SkipsNothing ==
  ASSUME MouseTypeOK, InStep
  PROVE  ~Skip
<1> SUFFICES ASSUME Skip PROVE FALSE
  OBVIOUS
<1>1. /\ port \in Seq(PortByte) /\ port # <<>> /\ pkt = <<>> /\ ~Bit3(Head(port))
  BY DEF Skip, MouseTypeOK
<1>2. /\ pkt \o port = port /\ 1 \in DOMAIN port /\ Head(port) = port[1] /\ port[1] \in PortByte
  BY <1>1
<1>3. port[1].what = "first"
  BY <1>2, InStepMeans, Roles DEF Whole
<1> QED
  BY <1>1, <1>2, <1>3, PortBytesTyped

LEMMA InitMouseType == Init => MouseTypeOK
<1>1. Width \div 2 \in 0 .. (Width - 1)
  BY MouseAssumption, Z3
<1>2. <<>> \in Seq(PortByte)
  OBVIOUS
<1>3. MouseInit => MouseTypeOK
  <2> SUFFICES ASSUME MouseInit PROVE MouseTypeOK
    OBVIOUS
  <2>1. port = <<>> /\ pkt = <<>> /\ Len(pkt) = 0
    BY DEF MouseInit
  <2>2. mx \in 0 .. (Width - 1) /\ real = mx /\ drawn = mx
    BY <1>1, Zenon DEF MouseInit
  <2>3. mdirty = FALSE /\ d = FALSE /\ mpc = "sendF6"
    BY DEF MouseInit
  <2>4. port \in Seq(PortByte) /\ pkt \in Seq(PortByte) /\ Len(pkt) < 3
    BY <1>2, <2>1
  <2>5. real \in 0 .. (Width - 1) /\ drawn \in 0 .. (Width - 1)
    BY <2>2, Zenon
  <2>6. mdirty \in BOOLEAN /\ d \in BOOLEAN
    BY <2>3
  <2> QED
    BY <2>2, <2>3, <2>4, <2>5, <2>6 DEF MouseTypeOK
<1> QED
  BY <1>3 DEF Init

(* mouse.c:58-89: once the driver is in step with the mouse it stays so,
   whatever the movements and however many bytes wait. *)
THEOREM MouseStaysInStep == Spec => StaysInStep
<1>1. Init => MouseTypeOK
  BY InitMouseType
<1>2. MouseTypeOK /\ [Next]_vars => MouseTypeOK'
  BY MouseTypeKept DEF Next, Ticks, Waits, Acts, vars
<1>3. MouseTypeOK /\ [Next]_vars =>
        [(mpc \in {"loop", "clear", "draw"} /\ InStep) => InStep']_mouseVars
  <2> SUFFICES ASSUME MouseTypeOK, MouseNext, mpc \in {"loop", "clear", "draw"}, InStep
               PROVE  InStep'
    BY DEF Next, Ticks, Waits, Acts, vars, mouseVars
  <2>1. ~Initialise
    BY DEF Initialise, Send, Recv
  <2>2. ASSUME ReadFlag \/ ClearFlag \/ Draw PROVE InStep'
    BY <2>2 DEF ReadFlag, ClearFlag, Draw, Loop, InStep
  <2> QED
    BY <2>1, <2>2, MoveStaysInStep, GatherStaysInStep, CompleteStaysInStep, SkipsNothing
    DEF MouseNext, MouseIrq, Desktop
<1> QED
  BY <1>1, <1>2, <1>3, PTL DEF Spec, StaysInStep

-------------------------------------------------------------------------------

(* The variables of the three drivers keep their types. *)
THEOREM DevicesTyped == Spec => []TypeOK
<1>1. Init => TimerInv /\ KbdFullInv /\ MouseTypeOK
  BY InitTimerInv, InitKbdInv, InitMouseType DEF Init
<1>2. TimerInv /\ KbdFullInv /\ MouseTypeOK /\ [Next]_vars =>
        TimerInv' /\ KbdFullInv' /\ MouseTypeOK'
  BY TimerInvKept, KbdInvKept, MouseTypeKept DEF Next, Ticks, Waits, Acts, vars
<1>3. KbdFullInv => KbdTypeOK
  <2> SUFFICES ASSUME KbdFullInv PROVE KbdTypeOK
    OBVIOUS
  <2>1. mods \in [1 .. 4 -> BOOLEAN]
    BY DEF mods, KbdFullInv, KbdInv
  <2> QED
    BY <2>1, Zenon DEF KbdTypeOK, KbdFullInv, KbdInv, KbdBytes, Codes
<1>4. TimerInv /\ KbdFullInv /\ MouseTypeOK => TypeOK
  BY <1>3 DEF TypeOK, TimerInv
<1> QED
  BY <1>1, <1>2, <1>4, PTL DEF Spec
===============================================================================
