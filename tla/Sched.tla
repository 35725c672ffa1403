-------------------------------- MODULE Sched --------------------------------
(***************************************************************************)
(* The scheduler of the kernel: the task table, the time slices, the       *)
(* switch from one kernel stack to another, and the timer interrupt that   *)
(* may come between any two steps of all this (sched.c, sched.S, entry.S,  *)
(* fork.c, kernel.c).                                                      *)
(*                                                                         *)
(* at[t] is where task t stands, as the code it executes next or will      *)
(* execute when the CPU is back on its stack; below[t] are the places at   *)
(* which interrupts that are not finished found it.  A stretch of code     *)
(* that runs with interrupts masked is one step.                           *)
(*                                                                         *)
(*   boot, copy, copied   kernel_main starting a thread with copy_process  *)
(*   loop                 kernel_main's loop                               *)
(*   new, thread          ret_from_fork, and the function of the thread    *)
(*   user, syscall        the user program, and a call it makes            *)
(*   exit, dying, dead    exit_process                                     *)
(*   schedule, scan, recharge, chosen, switch, resumed    _schedule        *)
(*   tick, ticked, eret   timer_tick around _schedule                      *)
(***************************************************************************)
EXTENDS Integers, Sequences

CONSTANTS
    NR_TASKS,    \* slots of the task table
    Threads,     \* kernel threads kernel_main starts: one, in kernel.c
    Priority,    \* ticks a task is given at a time
    Interval,    \* steps of the kernel between two ticks, at least
    Late,        \* bound: ticks a counter may fall below zero
    MaxNest      \* bound: interrupts of one task that wait in timer_tick

ASSUME TasksAssumption ==
    /\ NR_TASKS \in Nat \ {0}
    /\ Threads \in 0 .. NR_TASKS - 1
    /\ Priority \in Nat \ {0}
    /\ Interval \in Nat
    /\ Late \in Nat
    /\ MaxNest \in Nat

Task == 0 .. NR_TASKS - 1

INIT_TASK == 0

\* Where preemption is disabled, from the preempt_disable before it to the
\* preempt_enable after it.
Held == {"copy", "copied", "new", "exit", "dying", "scan", "recharge",
         "chosen", "switch", "resumed"}

\* Where it is not.
Free == {"boot", "loop", "thread", "user", "syscall", "dead", "schedule",
         "ticked"}

\* Where interrupts are masked.
Masked == {"tick", "eret"}

VARIABLES
    nr_tasks,       \* slots taken
    state,          \* of each task
    counter,        \* ticks left to it
    preempt_count,
    current,        \* the task the kernel takes for the one that runs
    next,           \* the task _schedule has chosen
    cpu,            \* the task whose stack the CPU is on
    at, below,
    irq,            \* interrupts are enabled
    elapsed         \* steps since the last tick, as far as they matter

vars == <<nr_tasks, state, counter, preempt_count, current, next, cpu, at,
          below, irq, elapsed>>

TypeOK ==
    /\ nr_tasks \in 1 .. NR_TASKS
    /\ state \in [Task -> {"RUNNING", "ZOMBIE"}]
    /\ counter \in [Task -> Int]
    /\ preempt_count \in [Task -> Int]
    /\ current \in Task
    /\ next \in Task
    /\ cpu \in Task
    /\ at \in [Task -> Held \cup Free \cup Masked]
    /\ below \in [Task -> Seq(Free)]
    /\ irq \in BOOLEAN
    /\ elapsed \in 0 .. Interval

-----------------------------------------------------------------------------
Exists(t) == t < nr_tasks

At(place)        == at[cpu] = place
Goto(place)      == at' = [at EXCEPT ![cpu] = place]
preempt_disable  == preempt_count' = [preempt_count EXCEPT ![current] = @ + 1]
preempt_enable   == preempt_count' = [preempt_count EXCEPT ![current] = @ - 1]

\* kernel_main, with interrupts just enabled, on the stack of init_task.  The
\* slots not taken are null pointers; their fields have no meaning yet.
Init ==
    /\ nr_tasks = 1
    /\ state = [t \in Task |-> "RUNNING"]
    /\ counter = [t \in Task |-> 0]
    /\ preempt_count = [t \in Task |-> IF t = INIT_TASK THEN 0 ELSE 1]
    /\ current = INIT_TASK
    /\ next = INIT_TASK
    /\ cpu = INIT_TASK
    /\ at = [t \in Task |-> IF t # INIT_TASK THEN "new"
                            ELSE IF Threads > 0 THEN "boot" ELSE "loop"]
    /\ below = [t \in Task |-> <<>>]
    /\ irq = TRUE
    /\ elapsed = Interval

-----------------------------------------------------------------------------
(* Starting and ending tasks.                                              *)

copy_process_enter ==
    /\ At("boot")
    /\ preempt_disable
    /\ Goto("copy")
    /\ UNCHANGED <<nr_tasks, state, counter, current, next, cpu, below, irq>>

\* Slip: preemption is not disabled for the new task.
copy_process_NotHeld ==
    /\ At("copy")
    /\ LET pid == nr_tasks
       IN  /\ state' = [state EXCEPT ![pid] = "RUNNING"]
           /\ counter' = [counter EXCEPT ![pid] = Priority]
           /\ preempt_count' = [preempt_count EXCEPT ![pid] = 0]
           /\ at' = [at EXCEPT ![cpu] = "copied", ![pid] = "new"]
           /\ nr_tasks' = pid + 1
    /\ UNCHANGED <<current, next, cpu, below, irq>>

\* The new task starts in ret_from_fork, and preemption stays disabled for it
\* until it is there.  The page for it is at hand this early.
copy_process ==
    /\ At("copy")
    /\ LET pid == nr_tasks
       IN  /\ state' = [state EXCEPT ![pid] = "RUNNING"]
           /\ counter' = [counter EXCEPT ![pid] = Priority]
           /\ preempt_count' = [preempt_count EXCEPT ![pid] = 1]
           /\ at' = [at EXCEPT ![cpu] = "copied", ![pid] = "new"]
           /\ nr_tasks' = pid + 1
    /\ UNCHANGED <<current, next, cpu, below, irq>>

\* Slip: one thread too many is started.
copy_process_leave_OneMore ==
    /\ At("copied")
    /\ preempt_enable
    /\ Goto(IF nr_tasks <= Threads + 1 THEN "boot" ELSE "loop")
    /\ UNCHANGED <<nr_tasks, state, counter, current, next, cpu, below, irq>>

copy_process_leave ==
    /\ At("copied")
    /\ preempt_enable
    /\ Goto(IF nr_tasks <= Threads THEN "boot" ELSE "loop")
    /\ UNCHANGED <<nr_tasks, state, counter, current, next, cpu, below, irq>>

\* ret_from_fork, first half.
schedule_tail ==
    /\ At("new")
    /\ preempt_enable
    /\ Goto("thread")
    /\ UNCHANGED <<nr_tasks, state, counter, current, next, cpu, below, irq>>

\* ret_from_fork, second half: kernel_process has moved to user mode.
ret_to_user ==
    /\ At("thread")
    /\ Goto("user")
    /\ UNCHANGED <<nr_tasks, state, counter, preempt_count, current, next, cpu,
                   below, irq>>

el0_svc ==
    /\ At("user")
    /\ Goto("syscall")
    /\ UNCHANGED <<nr_tasks, state, counter, preempt_count, current, next, cpu,
                   below, irq>>

ret_from_syscall ==
    /\ At("syscall")
    /\ Goto("user")
    /\ UNCHANGED <<nr_tasks, state, counter, preempt_count, current, next, cpu,
                   below, irq>>

\* sys_exit.
exit_process ==
    /\ At("syscall")
    /\ preempt_disable
    /\ Goto("exit")
    /\ UNCHANGED <<nr_tasks, state, counter, current, next, cpu, below, irq>>

exit_zombie ==
    /\ At("exit")
    /\ state' = [state EXCEPT ![current] = "ZOMBIE"]
    /\ Goto("dying")
    /\ UNCHANGED <<nr_tasks, counter, preempt_count, current, next, cpu, below,
                   irq>>

exit_leave ==
    /\ At("dying")
    /\ preempt_enable
    /\ Goto("dead")
    /\ UNCHANGED <<nr_tasks, state, counter, current, next, cpu, below, irq>>

-----------------------------------------------------------------------------
(* Switching.                                                              *)

\* Called by kernel_main's loop and by exit_process.
schedule ==
    /\ At("loop") \/ At("dead")
    /\ counter' = [counter EXCEPT ![current] = 0]
    /\ Goto("schedule")
    /\ UNCHANGED <<nr_tasks, state, preempt_count, current, next, cpu, below,
                   irq>>

_schedule_enter ==
    /\ At("schedule")
    /\ preempt_disable
    /\ Goto("scan")
    /\ UNCHANGED <<nr_tasks, state, counter, current, next, cpu, below, irq>>

\* Slip: the state is not looked at.
Ready_ZombiesToo == {t \in Task : Exists(t) /\ counter[t] > -1}

\* Tasks the scan may choose: a counter of -1 and below does not count.
Ready == {t \in Task : Exists(t) /\ state[t] = "RUNNING" /\ counter[t] > -1}

\* The first of the tasks with the most ticks left, or task[0] if none counts.
IsChoice(t) ==
    IF Ready = {} THEN t = INIT_TASK
    ELSE /\ t \in Ready
         /\ \A u \in Ready : counter[u] <= counter[t]
         /\ \A u \in Ready : u < t => counter[u] < counter[t]

\* Slip: one task at zero is enough.
Spent_Any == \E t \in Ready : counter[t] = 0

\* With the best of them at zero, `c' is 0 and all are given more ticks.
Spent == Ready # {} /\ \A t \in Ready : counter[t] = 0

\* The tasks do not change under the scan, but for the counter of current.
scan ==
    /\ At("scan")
    /\ IF Spent
       THEN /\ Goto("recharge")
            /\ UNCHANGED next
       ELSE /\ Goto("chosen")
            /\ \E t \in Task : IsChoice(t) /\ next' = t
    /\ UNCHANGED <<nr_tasks, state, counter, preempt_count, current, cpu,
                   below, irq>>

\* Slip: only the caller is given more.
recharge_CurrentOnly ==
    /\ At("recharge")
    /\ counter' = [counter EXCEPT ![current] = (@ \div 2) + Priority]
    /\ Goto("scan")
    /\ UNCHANGED <<nr_tasks, state, preempt_count, current, next, cpu, below,
                   irq>>

\* Slip: a slice is added to what is left, not to half of it.
recharge_Whole ==
    /\ At("recharge")
    /\ counter' = [t \in Task |->
                     IF Exists(t) THEN counter[t] + Priority ELSE counter[t]]
    /\ Goto("scan")
    /\ UNCHANGED <<nr_tasks, state, preempt_count, current, next, cpu, below,
                   irq>>

recharge ==
    /\ At("recharge")
    /\ counter' = [t \in Task |->
                     IF Exists(t) THEN (counter[t] \div 2) + Priority
                     ELSE counter[t]]
    /\ Goto("scan")
    /\ UNCHANGED <<nr_tasks, state, preempt_count, current, next, cpu, below,
                   irq>>

\* Up to here `current' and the stack agree; cpu_switch_to makes them agree
\* again.
switch_to ==
    /\ At("chosen")
    /\ current' = next
    /\ Goto(IF current = next THEN "resumed" ELSE "switch")
    /\ UNCHANGED <<nr_tasks, state, counter, preempt_count, next, cpu, below,
                   irq>>

\* What runs next is what the new task has at hand: its own "resumed" or
\* "new".  The mask of interrupts is not part of the context.
cpu_switch_to ==
    /\ At("switch")
    /\ Goto("resumed")
    /\ cpu' = current
    /\ UNCHANGED <<nr_tasks, state, counter, preempt_count, current, next,
                   below, irq>>

\* Returns to timer_tick if an interrupt brought the task here, otherwise to
\* the caller of schedule.
_schedule_leave ==
    /\ At("resumed")
    /\ preempt_enable
    /\ Goto(IF below[cpu] # <<>> THEN "ticked"
            ELSE IF cpu = INIT_TASK THEN "loop" ELSE "syscall")
    /\ UNCHANGED <<nr_tasks, state, counter, current, next, cpu, below, irq>>

-----------------------------------------------------------------------------
(* The timer.                                                              *)

\* An interrupt taken from any place, up to the enable_irq of timer_tick; if
\* it returns before that, up to the eret.
timer_tick ==
    /\ irq
    /\ preempt_count[current] > 0 => counter[current] > -Late
    /\ LET left == counter[current] - 1
       IN  IF left > 0 \/ preempt_count[current] > 0
           THEN /\ counter' = [counter EXCEPT ![current] = left]
                /\ UNCHANGED <<at, below, irq>>
           ELSE /\ Len(below[cpu]) < MaxNest
                /\ counter' = [counter EXCEPT ![current] = 0]
                /\ below' = [below EXCEPT ![cpu] = Append(@, at[cpu])]
                /\ Goto("tick")
                /\ irq' = FALSE
    /\ UNCHANGED <<nr_tasks, state, preempt_count, current, next, cpu>>

\* Slip: _schedule runs with interrupts masked.
timer_tick_open_StaysMasked ==
    /\ At("tick")
    /\ Goto("schedule")
    /\ UNCHANGED <<irq, nr_tasks, state, counter, preempt_count, current, next,
                   cpu, below>>

timer_tick_open ==
    /\ At("tick")
    /\ irq' = TRUE
    /\ Goto("schedule")
    /\ UNCHANGED <<nr_tasks, state, counter, preempt_count, current, next, cpu,
                   below>>

timer_tick_close ==
    /\ At("ticked")
    /\ irq' = FALSE
    /\ Goto("eret")
    /\ UNCHANGED <<nr_tasks, state, counter, preempt_count, current, next, cpu,
                   below>>

\* kernel_exit: back where the interrupt came, with interrupts enabled as
\* they were.
kernel_exit ==
    /\ At("eret")
    /\ Goto(below[cpu][Len(below[cpu])])
    /\ below' = [below EXCEPT ![cpu] = SubSeq(@, 1, Len(@) - 1)]
    /\ irq' = TRUE
    /\ UNCHANGED <<nr_tasks, state, counter, preempt_count, current, next, cpu>>

-----------------------------------------------------------------------------
\* The code of the kernel; user code takes as long as it likes.
Kernel ==
    \/ copy_process_enter \/ copy_process \/ copy_process_leave
    \/ schedule_tail \/ ret_to_user \/ ret_from_syscall
    \/ exit_zombie \/ exit_leave
    \/ schedule \/ _schedule_enter \/ scan \/ recharge \/ switch_to
    \/ cpu_switch_to \/ _schedule_leave
    \/ timer_tick_open \/ timer_tick_close \/ kernel_exit

Step ==
    /\ Kernel
    /\ elapsed' = IF elapsed < Interval THEN elapsed + 1 ELSE elapsed

Ask == (el0_svc \/ exit_process) /\ UNCHANGED elapsed

Tick ==
    /\ elapsed = Interval \/ At("user")
    /\ timer_tick
    /\ elapsed' = 0

Next == Step \/ Ask \/ Tick

\* The CPU executes its instructions, and the timer is set again at each of
\* its interrupts.
Fairness == WF_vars(Step) /\ WF_vars(Tick)

Spec == Init /\ [][Next]_vars

FairSpec == Spec /\ Fairness

-----------------------------------------------------------------------------
(* Safety.                                                                 *)

\* A preempt_count is raised exactly between a preempt_disable and the
\* preempt_enable that answers it, although the first is often done by one
\* task and the second by another (sched.c:25 and 49, 70; fork.c:32).
Balanced ==
    \A t \in Task : preempt_count[t] = IF at[t] \in Held THEN 1 ELSE 0

\* A task that is not on the CPU stands where a switch to it makes it go on.
Parked == \A t \in Task : t # cpu => at[t] \in {"new", "resumed"}

\* Between the assignment of `current' and cpu_switch_to, the kernel is on a
\* stack that is not current's; no other place has that.
OneWindow == current # cpu => at[cpu] = "switch"

\* An interrupt in that window finds preemption disabled for the task it
\* takes for the running one, so that it never schedules on a foreign stack
\* (sched.c:64-66 and 77).
SwitchSafe ==
    /\ Balanced
    /\ Parked
    /\ OneWindow
    /\ current # cpu => preempt_count[current] > 0

\* Interrupts are masked at the two ends of timer_tick and nowhere else,
\* although the mask is not saved with a context: whatever task a switch
\* resumes goes on with them enabled (sched.c:81-83, entry.S:108-116, 202-209).
MaskedBriefly == irq <=> at[cpu] \notin Masked

\* The counter of a task stays below two slices, for ever recharged as a
\* zombie's is (sched.c:44).
SliceBound == \A t \in Task : counter[t] < 2 * Priority

\* A zombie whose stack the CPU has left never runs again, although
\* interrupts may take the CPU from it anywhere in exit_process
\* (sched.c:33, 86-96).
ZombieStays ==
    [][\A t \in Task : state[t] = "ZOMBIE" /\ cpu # t => cpu' # t]_vars

\* Slices are handed out only once every running task has used its own, also
\* when ticks come between the scan and the handing out (sched.c:31-46).
RechargeWhenSpent ==
    [][recharge => \A t \in Task :
         Exists(t) /\ state[t] = "RUNNING" => counter[t] <= 0]_vars

-----------------------------------------------------------------------------
(* Liveness.                                                               *)

\* Every task that has not exited gets the CPU again and again and with it
\* comes back to its own code, whether the others give the CPU up or are
\* interrupted, and whoever exits in between (sched.c:23-84).
Served ==
    \A t \in Task : Exists(t) /\ state[t] = "RUNNING" ~>
        \/ cpu = t /\ at[t] \in {"loop", "user"}
        \/ state[t] = "ZOMBIE"
=============================================================================
