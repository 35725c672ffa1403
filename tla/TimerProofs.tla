----------------------------- MODULE TimerProofs -----------------------------
(***************************************************************************)
(* For every width of the counter, every interval and every latency below  *)
(* it: ticks come in time, and apart.                                      *)
(***************************************************************************)
EXTENDS Timer, TLAPS

\* Cycles from b to the next time the counter reads a.
Gap(a, b) == IF a >= b THEN a - b ELSE a - b + CLOCK

Starting == {"boot", "read", "armed", "routed"}

\* What lies between two ticks that are not disturbed.
Period == IF old = 0 THEN interval ELSE 2 * interval

Regular(n) == Period - Latency <= n /\ n <= Period

\* What goes with each place.
Places ==
    /\ enabled = IF at \in {"boot", "read", "armed"} THEN {} ELSE {1}
    /\ at # "unknown"
    /\ at \in {"handler", "set"} => 1 \in cs
    /\ at = "acked" => 1 \notin cs
    /\ at = "boot" => late = 0
    /\ at \in {"boot", "read"} => old = 0
    /\ at \notin {"boot", "read"} => curVal = c1
    /\ at \in Starting => quiet = late
    /\ old = 2 => quiet = late

\* How far ahead the compare value is.
Ahead ==
    /\ at = "read" => Gap(curVal, clo) = interval - late
    /\ at \in {"armed", "routed"} =>
         /\ Gap(c1, clo) = interval - late
         /\ old = IF 1 \in cs THEN 2 ELSE 0
    /\ at = "run" /\ 1 \notin cs =>
         /\ Gap(c1, clo) > 0
         /\ old < 2
         /\ Regular(Gap(c1, clo) + quiet)
    /\ at \in {"run", "handler"} /\ 1 \in cs =>
         IF old = 2 THEN Gap(c1, clo) = interval - late
         ELSE Gap(clo, c1) = late /\ Regular(quiet - late)
    /\ at \in {"set", "acked"} =>
         IF old = 2 THEN Gap(c1, clo) = 2 * interval - late
         ELSE Gap(c1, clo) = interval - late /\ Regular(quiet - late)

TimerInv == TypeOK /\ Places /\ Ahead

-----------------------------------------------------------------------------
\* What the 32-bit addition of timer.c gives, without a remainder.
LEMMA SumMod ==
    ASSUME NEW a \in Time, NEW n \in Time
    PROVE  /\ (a + n) % CLOCK = IF a + n < CLOCK THEN a + n ELSE a + n - CLOCK
           /\ (a + n) % CLOCK \in Time
<1>1. a + n < CLOCK => (a + n) % CLOCK = a + n
  BY ClockAssumption DEF Time
<1>2. a + n >= CLOCK => (a + n) % CLOCK = a + n - CLOCK
  BY ClockAssumption DEF Time
<1> QED
  BY <1>1, <1>2, ClockAssumption DEF Time

\* A compare value comes one cycle nearer at each step of the counter, and
\* is met when it was one cycle ahead.
LEMMA GapStep ==
    ASSUME NEW a \in Time, NEW b \in Time
    PROVE  LET next == (b + 1) % CLOCK
           IN  /\ next \in Time
               /\ Gap(a, b) \in 0 .. CLOCK - 1
               /\ next = a <=> Gap(a, b) = 1
               /\ Gap(a, b) > 0 => Gap(a, next) = Gap(a, b) - 1
               /\ Gap(b, a) + 1 < CLOCK => Gap(next, a) = Gap(b, a) + 1
<1> DEFINE next == (b + 1) % CLOCK
<1>1. 1 \in Time
  BY ClockAssumption DEF Time
<1>2. next = IF b + 1 < CLOCK THEN b + 1 ELSE b + 1 - CLOCK
  BY <1>1, SumMod
<1> HIDE DEF next
<1>3. next \in Time
  BY <1>1, <1>2, ClockAssumption DEF Time
<1> QED
  BY <1>1, <1>2, <1>3, ClockAssumption DEF Time, Gap

\* Adding the interval to a compare value puts it that much further ahead.
LEMMA GapSum ==
    ASSUME NEW a \in Time, NEW b \in Time
    PROVE  LET next == (a + interval) % CLOCK
           IN  /\ next \in Time
               /\ Gap(a, b) <= interval => Gap(next, b) = Gap(a, b) + interval
               /\ Gap(b, a) <= interval => Gap(next, b) = interval - Gap(b, a)
<1> DEFINE next == (a + interval) % CLOCK
<1>1. interval \in Time
  BY ClockAssumption DEF Time
<1>2. next = IF a + interval < CLOCK THEN a + interval ELSE a + interval - CLOCK
  BY <1>1, SumMod
<1> HIDE DEF next
<1>3. next \in Time
  BY <1>1, <1>2, ClockAssumption DEF Time
<1> QED
  BY <1>1, <1>2, <1>3, ClockAssumption DEF Time, Gap

-----------------------------------------------------------------------------
LEMMA TimerInit == Init => TimerInv
<1> SUFFICES ASSUME Init PROVE TimerInv
  OBVIOUS
<1>1. 0 \in Time
  BY ClockAssumption DEF Time
<1>2. /\ cs \subseteq {1} \cup Others
      /\ enabled \subseteq {1} \cup Others
  BY DEF Init
<1>4. late \in 0 .. Latency /\ quiet \in 0 .. Longest + 1 /\ old \in 0 .. 2
  BY ClockAssumption DEF Init, Longest
<1>5. TypeOK
  BY <1>1, <1>2, <1>4 DEF Init, TypeOK
<1>3. Places /\ Ahead
  BY DEF Init, Places, Ahead, Starting
<1> QED
  BY <1>3, <1>5 DEF TimerInv

\* The steps of kernel_main up to its enable_irq.
LEMMA StartStep ==
    ASSUME TimerInv,
           \/ timer_init_read \/ timer_init_put \/ enable_interrupt_controller
    PROVE  TimerInv'
<1> USE ClockAssumption DEF TimerInv, Goto
<1>1. CASE timer_init_read
  <2>1. curVal' \in Time /\ Gap(curVal', clo) = interval
    BY <1>1, GapSum DEF timer_init_read, TypeOK, Gap, Time
  <2> QED
    BY <1>1, <2>1 DEF timer_init_read, TypeOK, Places, Ahead, Starting
<1>2. CASE timer_init_put
  BY <1>2 DEF timer_init_put, TypeOK, Places, Ahead, Starting
<1>3. CASE enable_interrupt_controller
  BY <1>3 DEF enable_interrupt_controller, TypeOK, Places, Ahead, Starting
<1> QED
  BY <1>1, <1>2, <1>3

\* Those of the interrupt, and of the mask.
LEMMA HandlerStep ==
    ASSUME TimerInv,
           \/ enable_irq \/ disable_irq \/ handle_irq
           \/ handle_timer_irq_put \/ handle_timer_irq_ack \/ timer_tick
    PROVE  TimerInv'
<1> USE ClockAssumption DEF TimerInv, Goto
<1>1. CASE enable_irq \/ disable_irq
  <2>1. /\ at \in {"routed", "run"} /\ at' = "run"
        /\ UNCHANGED <<clo, c1, cs, enabled, curVal, late, quiet, old>>
        /\ irq' \in BOOLEAN
    BY <1>1 DEF enable_irq, disable_irq
  <2>2. TypeOK' /\ Places'
    BY <2>1 DEF TypeOK, Places, Starting
  <2>3. CASE at = "run"
    BY <2>1, <2>2, <2>3 DEF Ahead, Regular, Period, Gap
  <2>4. CASE at = "routed"
    BY <2>1, <2>2, <2>4 DEF TypeOK, Places, Ahead, Starting, Regular, Period, Gap
  <2> QED
    BY <2>1, <2>3, <2>4
<1>2. CASE handle_irq
  <2>1. IRQ_PENDING_1 = {1} /\ 1 \in cs
    BY <1>2 DEF handle_irq, IRQ_PENDING_1, Places
  <2> QED
    BY <1>2, <2>1 DEF handle_irq, TypeOK, Places, Ahead, Starting, Regular,
                      Period, Gap
<1>3. CASE handle_timer_irq_put
  <2>1. /\ c1' \in Time
        /\ IF old = 2 THEN Gap(c1', clo) = 2 * interval - late
                      ELSE Gap(c1', clo) = interval - late
    BY <1>3, GapSum DEF handle_timer_irq_put, TypeOK, Places, Ahead
  <2> QED
    BY <1>3, <2>1 DEF handle_timer_irq_put, TypeOK, Places, Ahead, Starting,
                      Regular, Period, Gap
<1>4. CASE handle_timer_irq_ack
  BY <1>4 DEF handle_timer_irq_ack, TypeOK, Places, Ahead, Starting, Regular,
              Period, Gap
<1>5. CASE timer_tick
  BY <1>5 DEF timer_tick, TypeOK, Places, Ahead, Starting, Regular, Period, Gap,
              Longest
<1> QED
  BY <1>1, <1>2, <1>3, <1>4, <1>5

\* The counter moves on: what is ahead comes nearer, and a compare value it
\* meets becomes a match.
LEMMA ClockStep ==
    ASSUME TimerInv, Clock
    PROVE  TimerInv'
<1> USE ClockAssumption DEF TimerInv
<1>1. /\ clo' \in Time /\ c1' = c1 /\ at' = at /\ old' = old /\ curVal' = curVal
      /\ clo' = c1 <=> Gap(c1, clo) = 1
      /\ Gap(c1, clo) > 0 => Gap(c1, clo') = Gap(c1, clo) - 1
      /\ Gap(curVal, clo) > 0 => Gap(curVal, clo') = Gap(curVal, clo) - 1
      /\ Gap(clo, c1) + 1 < CLOCK => Gap(clo', c1) = Gap(clo, c1) + 1
      /\ Gap(c1, clo) \in 0 .. CLOCK - 1
      /\ Gap(clo, c1) \in 0 .. CLOCK - 1
      /\ Gap(curVal, clo) \in 0 .. CLOCK - 1
  BY GapStep DEF Clock, TypeOK
<1>6. clo' = c1 => Gap(clo', c1) = 0
  BY <1>1 DEF Gap, TypeOK, Time
<1>2. quiet < Longest \/ at = "boot"
  BY DEF TypeOK, Places, Ahead, Starting, Regular, Period, Longest, Due, Clock, Gap, Time
<1>3. TypeOK'
  BY <1>1, <1>2 DEF Clock, TypeOK, Due, Longest
<1>4. Places'
  BY <1>1, <1>2 DEF Clock, TypeOK, Places, Due, Longest, Starting, Ahead
<1>5. Ahead'
  <2>1. CASE at \in {"boot", "read", "armed", "routed"}
    BY <1>1, <1>2, <2>1 DEF Clock, TypeOK, Places, Due, Starting, Ahead
  <2>2. CASE at = "run" /\ 1 \notin cs /\ clo' # c1
    BY <1>1, <1>2, <2>2 DEF Clock, TypeOK, Due, Longest, Ahead, Regular, Period
  <2>3. CASE at = "run" /\ 1 \notin cs /\ clo' = c1
    BY <1>1, <1>2, <1>6, <2>3 DEF Clock, TypeOK, Due, Longest, Ahead, Regular, Period
  <2>4. CASE at \in {"run", "handler"} /\ 1 \in cs
    BY <1>1, <1>2, <2>4 DEF Clock, TypeOK, Due, Longest, Ahead, Regular, Period
  <2>5. CASE at \in {"set", "acked"}
    BY <1>1, <1>2, <2>5 DEF Clock, TypeOK, Due, Longest, Ahead, Regular, Period
  <2> QED
    BY <2>1, <2>2, <2>3, <2>4, <2>5 DEF TypeOK, Places
<1> QED
  BY <1>3, <1>4, <1>5

LEMMA TimerStep == TimerInv /\ [Next]_vars => TimerInv'
<1> SUFFICES ASSUME TimerInv, [Next]_vars PROVE TimerInv'
  OBVIOUS
<1>1. CASE OtherChannels
  BY <1>1, ClockAssumption
  DEF OtherChannels, TimerInv, TypeOK, Places, Ahead, Starting, Regular, Period, Gap
<1>2. CASE UNCHANGED vars
  BY <1>2
  DEF vars, TimerInv, TypeOK, Places, Ahead, Starting, Regular, Period, Gap
<1> QED
  BY <1>1, <1>2, StartStep, HandlerStep, ClockStep DEF Next

LEMMA TimerInvariant == Spec => []TimerInv
<1> QED
  BY TimerInit, TimerStep, PTL DEF Spec

-----------------------------------------------------------------------------
\* Registers and counters keep their widths, at any point of the counter.
THEOREM TimerTypes == Spec => []TypeOK
<1>1. TimerInv => TypeOK
  BY DEF TimerInv
<1> QED
  BY <1>1, TimerInvariant, PTL

\* No tick is lost, whatever the width and the interval, as long as an
\* interrupt is served within less than an interval.
THEOREM TicksComeInTime == Spec => []TickInTime
<1>1. TimerInv => TickInTime
  BY ClockAssumption
  DEF TimerInv, TypeOK, Places, Ahead, Starting, Regular, Period, TickInTime, Gap, Time
<1> QED
  BY <1>1, TimerInvariant, PTL

\* No tick is made twice.
THEOREM TicksComeApart == Spec => TicksApart
<1>1. TimerInv /\ [Next]_vars =>
        [timer_tick => old = 2 \/ quiet >= interval - Latency]_vars
  BY ClockAssumption
  DEF TimerInv, TypeOK, Places, Ahead, Regular, Period, timer_tick, Goto
<1> QED
  BY <1>1, TimerInvariant, PTL DEF Spec, TicksApart

\* The default branch of handle_irq is never taken.
THEOREM NoUnknownInterrupt == Spec => []OnlyOwnChannel
<1>1. TimerInv => OnlyOwnChannel
  BY DEF TimerInv, Places, OnlyOwnChannel
<1> QED
  BY <1>1, TimerInvariant, PTL
=============================================================================
