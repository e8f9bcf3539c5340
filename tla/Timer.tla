--------------------------------- MODULE Timer ---------------------------------
(***************************************************************************)
(* The millisecond counter of idt.c and the two ways the kernel waits with *)
(* it: timer_sleep, which halts until the counter reaches an end computed  *)
(* beforehand, and the loops of net/ and floppy.c, which poll a device     *)
(* until timer_get_ticks() - t0 reaches a timeout.  The counter is an      *)
(* unsigned word and wraps.                                                *)
(***************************************************************************)
EXTENDS Naturals

CONSTANTS Wrap,    \* 2^32: values of the counter
          Times,   \* milliseconds asked for
          MaxLate  \* bound: interrupts between two steps of the program

ASSUME TimerAssumption ==
  /\ Wrap \in Nat \ {0} /\ MaxLate \in Nat
  /\ \A ms \in Times : ms \in Nat /\ ms + 3 * MaxLate < Wrap

VARIABLES ticks,
          tpc,       \* where the program is in its wait
          t0, ms,   \* when the wait began, and what was asked for
          elapsed,  \* history: interrupts since the wait began
          late      \* interrupts since the program's last step

timerVars == <<ticks, tpc, t0, ms, elapsed, late>>

TimerInit ==
  /\ ticks \in 0 .. (Wrap - 1)
  /\ tpc = "program" /\ t0 = 0 /\ ms = 0 /\ elapsed = 0 /\ late = 0

(* IRQ0.  Any interrupt ends a hlt; the history stops at the counter's
   range. *)
TimerIrq ==
  /\ late < MaxLate
  /\ ticks' = (ticks + 1) % Wrap
  /\ elapsed' = IF tpc = "program" \/ elapsed = Wrap THEN elapsed ELSE elapsed + 1
  /\ IF tpc = "halted" THEN tpc' = "sleep" /\ late' = 0
                      ELSE tpc' = tpc /\ late' = late + 1
  /\ UNCHANGED <<t0, ms>>

Goto(from, to) == tpc = from /\ tpc' = to /\ late' = 0 /\ UNCHANGED ticks

Start(n) ==
  /\ Goto("program", "sleep") \/ Goto("program", "wait")
  /\ t0' = ticks /\ ms' = n /\ elapsed' = 0

(* while (ticks < end) hlt; with end = ticks + ms at the start. *)
End == (t0 + ms) % Wrap
Sleep ==
  /\ \/ ticks < End /\ Goto("sleep", "hlt")
     \/ ticks >= End /\ Goto("sleep", "slept")
     \/ Goto("hlt", "halted")
  /\ UNCHANGED <<t0, ms, elapsed>>

(* Mistakes the properties have to catch: a timeout compared as timer_sleep
   compares its end; a timeout that must be hit exactly. *)
Wait_Absolute ==
  /\ \/ ticks < End /\ Goto("wait", "poll")
     \/ ticks >= End /\ Goto("wait", "waited")
     \/ Goto("poll", "wait")
  /\ UNCHANGED <<t0, ms, elapsed>>

Wait_Exact ==
  /\ \/ ticks # End /\ Goto("wait", "poll")
     \/ ticks = End /\ Goto("wait", "waited")
     \/ Goto("poll", "wait")
  /\ UNCHANGED <<t0, ms, elapsed>>

(* while (timer_get_ticks() - t0 < ms) poll the device. *)
Wait ==
  /\ LET passed == (ticks + Wrap - t0) % Wrap
     IN  \/ passed < ms /\ Goto("wait", "poll")
         \/ passed >= ms /\ Goto("wait", "waited")
         \/ Goto("poll", "wait")
  /\ UNCHANGED <<t0, ms, elapsed>>

Return ==
  /\ Goto("slept", "program") \/ Goto("waited", "program")
  /\ t0' = 0 /\ ms' = 0 /\ elapsed' = 0

Program == Sleep \/ Wait \/ Return
TimerNext == TimerIrq \/ (\E n \in Times : Start(n)) \/ Program
TimerSpec == TimerInit /\ [][TimerNext]_timerVars

(* The PIT ticks, and the program runs between its ticks. *)
FairTimerSpec == TimerSpec /\ WF_timerVars(TimerIrq) /\ WF_timerVars(Program)
-------------------------------------------------------------------------------
TimerTypeOK ==
  /\ ticks \in 0 .. (Wrap - 1) /\ t0 \in 0 .. (Wrap - 1)
  /\ tpc \in {"program", "sleep", "hlt", "halted", "slept", "wait", "poll", "waited"}
  /\ ms \in Times \cup {0}
  /\ elapsed \in 0 .. Wrap /\ late \in 0 .. MaxLate

(* A timeout expires neither early nor more than a poll and a test late,
   at whatever count it began; and a sleep lasts its time unless its end
   wraps, when it returns at once (idt.c:76-80, tcp.c:95-96, arp.c:104-105, dns.c:154-155,
   icmp.c:74-77, floppy.c:69-70). *)
TimeIsKept ==
  /\ tpc = "waited" => elapsed >= ms /\ elapsed <= ms + 3 * MaxLate
  /\ tpc = "slept" /\ t0 + ms < Wrap => elapsed >= ms

(* Every polling loop ends, also when the counter wraps in it. *)
WaitEnds == tpc = "wait" ~> tpc = "waited"
===============================================================================
