-------------------------------- MODULE Timer --------------------------------
(***************************************************************************)
(* The system timer and its interrupt (timer.c, irq.c, irq.S, the start of *)
(* kernel.c): a free-running counter of a few bits, a compare register     *)
(* that the handler moves on, and a match that stays until it is           *)
(* acknowledged.                                                           *)
(*                                                                         *)
(* `at' is where the kernel stands:                                        *)
(*   boot, read, armed, routed   kernel_main up to its enable_irq          *)
(*   run                         anything else, with interrupts enabled or *)
(*                               masked                                    *)
(*   handler, set, acked         handle_irq, around each register it       *)
(*                               writes                                    *)
(*   unknown                     its default branch, where the model stops *)
(* The clock may advance between any two steps.                            *)
(***************************************************************************)
EXTENDS Integers

CONSTANTS
    CLOCK,       \* values of the counter: 2^32
    interval,    \* of timer.c
    Latency,     \* cycles an interrupt waits and is served in, at most
    Others       \* channels of the timer that are not the kernel's

ASSUME ClockAssumption ==
    /\ CLOCK \in Nat
    /\ interval \in Nat
    /\ Latency \in Nat
    /\ Latency < interval
    /\ 2 * interval + Latency < CLOCK
    /\ 1 \notin Others

VARIABLES
    clo,         \* TIMER_CLO
    c1,          \* TIMER_C1
    cs,          \* TIMER_CS: the channels with a match
    enabled,     \* ENABLE_IRQS_1
    curVal,
    irq,         \* interrupts are not masked
    at,
    late,        \* cycles what has to be done by now has waited
    quiet,       \* cycles since the last tick
    old          \* ticks until one answers a match after timer_init

vars == <<clo, c1, cs, enabled, curVal, irq, at, late, quiet, old>>

Time == 0 .. CLOCK - 1

\* A tick that is missed is missed for longer than this.
Longest == 2 * interval + Latency

TypeOK ==
    /\ clo \in Time /\ c1 \in Time /\ curVal \in Time
    /\ cs \subseteq {1} \cup Others
    /\ enabled \subseteq {1} \cup Others
    /\ irq \in BOOLEAN
    /\ at \in {"boot", "read", "armed", "routed", "run", "handler", "set",
               "acked", "unknown"}
    /\ late \in 0 .. Latency
    /\ quiet \in 0 .. Longest + 1
    /\ old \in 0 .. 2

\* The firmware leaves the counter running, and a compare register and a
\* match of which nothing is known.
Init ==
    /\ clo \in Time /\ c1 \in Time /\ curVal = 0
    /\ cs \in SUBSET {1}
    /\ enabled = {}
    /\ irq = FALSE
    /\ at = "boot"
    /\ late = 0 /\ quiet = 0 /\ old = 0

-----------------------------------------------------------------------------
(* Starting it.                                                            *)

Goto(from, to) == at = from /\ at' = to

\* Slip: the sum is kept wider than the counter.
timer_init_read_Wide ==
    /\ Goto("boot", "read")
    /\ curVal' = clo + interval
    /\ UNCHANGED <<clo, c1, cs, enabled, irq, late, quiet, old>>

\* timer_init, in its two accesses.
timer_init_read ==
    /\ Goto("boot", "read")
    /\ curVal' = (clo + interval) % CLOCK
    /\ UNCHANGED <<clo, c1, cs, enabled, irq, late, quiet, old>>

\* It does not acknowledge a match that is there already.
timer_init_put ==
    /\ Goto("read", "armed")
    /\ c1' = curVal
    /\ old' = IF 1 \in cs THEN 2 ELSE 0
    /\ UNCHANGED <<clo, cs, enabled, curVal, irq, late, quiet>>

\* Slip: all the channels are let through.
enable_interrupt_controller_All ==
    /\ Goto("armed", "routed")
    /\ enabled' = {1} \cup Others
    /\ UNCHANGED <<clo, c1, cs, curVal, irq, late, quiet, old>>

enable_interrupt_controller ==
    /\ Goto("armed", "routed")
    /\ enabled' = {1}
    /\ UNCHANGED <<clo, c1, cs, curVal, irq, late, quiet, old>>

-----------------------------------------------------------------------------
(* The interrupt.                                                          *)

\* The controller shows the matches of the channels that are enabled.
IRQ_PENDING_1 == cs \cap enabled

\* By kernel_main, an exception that is served, or a return from one.
enable_irq ==
    /\ ~irq
    /\ Goto("routed", "run") \/ Goto("run", "run")
    /\ irq' = TRUE
    /\ UNCHANGED <<clo, c1, cs, enabled, curVal, late, quiet, old>>

\* Also by the CPU, when it takes another exception.  An interrupt that can
\* be taken is taken before this.
disable_irq ==
    /\ irq /\ IRQ_PENDING_1 = {}
    /\ Goto("run", "run")
    /\ irq' = FALSE
    /\ UNCHANGED <<clo, c1, cs, enabled, curVal, late, quiet, old>>

\* el0_irq and el1_irq, and the switch of handle_irq, which knows no value
\* but that of its own channel alone.
handle_irq ==
    /\ irq /\ IRQ_PENDING_1 # {}
    /\ Goto("run", IF IRQ_PENDING_1 = {1} THEN "handler" ELSE "unknown")
    /\ irq' = FALSE
    /\ UNCHANGED <<clo, c1, cs, enabled, curVal, late, quiet, old>>

\* Slip: the next match is set from what is left of this one.
handle_timer_irq_put_Same ==
    /\ Goto("handler", "set")
    /\ c1' = curVal
    /\ UNCHANGED <<clo, cs, enabled, curVal, irq, late, quiet, old>>

\* handle_timer_irq: the next match is one interval after the last one,
\* whatever the clock says.
handle_timer_irq_put ==
    /\ Goto("handler", "set")
    /\ curVal' = (curVal + interval) % CLOCK
    /\ c1' = curVal'
    /\ UNCHANGED <<clo, cs, enabled, irq, late, quiet, old>>

\* Slip: the match is not acknowledged.
handle_timer_irq_ack_Not ==
    /\ Goto("set", "acked")
    /\ UNCHANGED <<clo, c1, cs, enabled, curVal, irq, late, quiet, old>>

\* A one written to TIMER_CS clears that channel's match.
handle_timer_irq_ack ==
    /\ Goto("set", "acked")
    /\ cs' = cs \ {1}
    /\ UNCHANGED <<clo, c1, enabled, curVal, irq, late, quiet, old>>

\* timer_tick, as far as it goes with interrupts masked.
timer_tick ==
    /\ Goto("acked", "run")
    /\ late' = 0 /\ quiet' = 0
    /\ old' = IF old = 0 THEN 0 ELSE old - 1
    /\ UNCHANGED <<clo, c1, cs, enabled, curVal, irq>>

-----------------------------------------------------------------------------
(* Time.                                                                   *)

\* There is something to be done: from the read of timer_init on until
\* interrupts are enabled, and from a match on until its tick.
Due ==
    IF at = "run" THEN 1 \in cs ELSE at # "boot"

\* The counter moves on by one, and a channel that it meets has a match.
Clock ==
    /\ Due => late < Latency
    /\ clo' = (clo + 1) % CLOCK
    /\ cs' = IF clo' = c1 THEN cs \cup {1} ELSE cs
    /\ late' = IF Due THEN late + 1 ELSE 0
    /\ quiet' = IF at = "boot" THEN 0
                ELSE IF quiet <= Longest THEN quiet + 1 ELSE quiet
    /\ UNCHANGED <<c1, enabled, curVal, irq, at, old>>

\* What the GPU does with the other channels.
OtherChannels ==
    /\ \E matches \in SUBSET Others : cs' = (cs \cap {1}) \cup matches
    /\ UNCHANGED <<clo, c1, enabled, curVal, irq, at, late, quiet, old>>

Next ==
    \/ timer_init_read \/ timer_init_put \/ enable_interrupt_controller
    \/ enable_irq \/ disable_irq
    \/ handle_irq
    \/ handle_timer_irq_put \/ handle_timer_irq_ack \/ timer_tick
    \/ Clock \/ OtherChannels

Spec == Init /\ [][Next]_vars

-----------------------------------------------------------------------------
\* No tick is lost: the next one comes an interval after the last, give or
\* take the time an interrupt waits, also when the 32-bit counter wraps in
\* between, when the handler sets the compare register before it acknowledges
\* the match, and when the match of an earlier compare value is waiting at
\* boot (timer.c:18-31).  A compare value that is past when it is written
\* would make the next tick wait for the counter to come round.
TickInTime ==
    quiet <= Latency + (IF old > 0 THEN 2 * interval ELSE interval)

\* No match is answered twice: two ticks are an interval apart, less the time
\* an interrupt waits.  Only a match from before timer_init makes one early
\* tick (timer.c:25-31).
TicksApart ==
    [][timer_tick => old = 2 \/ quiet >= interval - Latency]_vars

\* The comparison of handle_irq with one value is enough: although the timer
\* has three more channels, their matches never show, and no interrupt ends
\* unacknowledged in the default branch (irq.c:29-35 and 56-66).
OnlyOwnChannel == at # "unknown"
=============================================================================
