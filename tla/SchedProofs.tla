----------------------------- MODULE SchedProofs -----------------------------
(***************************************************************************)
(* Theorems of Sched, for every number of tasks, slice and bound.          *)
(***************************************************************************)
EXTENDS Sched, TLAPS

LEMMA Numbers ==
    /\ NR_TASKS \in Nat /\ NR_TASKS > 0
    /\ Threads \in Nat /\ Threads < NR_TASKS
    /\ Priority \in Nat /\ Priority > 0
    /\ Interval \in Nat /\ Late \in Nat /\ MaxNest \in Nat
    /\ INIT_TASK \in Task
BY TasksAssumption DEF Task, INIT_TASK

\* The places of the code are all different.
USE DEF Held, Free, Masked

-----------------------------------------------------------------------------
(* The inductive invariant.                                                *)

\* The tasks the kernel handles are in the table.
Known == Exists(current) /\ Exists(next) /\ Exists(cpu)

\* timer_tick has something to return to, also one that was itself
\* interrupted.
Interrupted ==
    /\ \A t \in Task : at[t] \in {"tick", "ticked", "eret"} => below[t] # <<>>
    /\ \A t \in Task : \A k \in 1 .. Len(below[t]) :
           below[t][k] = "ticked" => k > 1

\* Only kernel_main starts threads, at its own level and while there is one
\* left to start.
Starting ==
    /\ \A t \in Task : at[t] \in {"boot", "copy", "copied"} =>
           t = INIT_TASK /\ below[t] = <<>>
    /\ \A t \in Task : at[t] \in {"boot", "copy"} => nr_tasks <= Threads
    /\ \A t \in Task : \A k \in 1 .. Len(below[t]) : below[t][k] = "boot" =>
           t = INIT_TASK /\ nr_tasks <= Threads /\ k = 1

SchedInv ==
    TypeOK /\ SwitchSafe /\ MaskedBriefly /\ Known /\ Interrupted /\ Starting

LEMMA BootBelow ==
    ASSUME Starting, NEW t \in Task, NEW k \in 1 .. Len(below[t]),
           below[t][k] = "boot"
    PROVE  t = INIT_TASK /\ nr_tasks <= Threads /\ k = 1
BY Zenon DEF Starting

LEMMA SchedInit == Init => SchedInv
<1> SUFFICES ASSUME Init PROVE SchedInv
  OBVIOUS
<1>1. TypeOK
  BY Numbers DEF Init, TypeOK, Task, INIT_TASK
<1>2. SwitchSafe /\ MaskedBriefly
  BY Numbers DEF Init, SwitchSafe, MaskedBriefly, Balanced, Parked, OneWindow
<1>3. Known /\ Interrupted /\ Starting
  BY Numbers DEF Init, Known, Exists, Interrupted, Starting, INIT_TASK
<1> QED
  BY <1>1, <1>2, <1>3 DEF SchedInv

-----------------------------------------------------------------------------
(* Steps of one task on its own stack.                                     *)

\* What a step that stays on its stack, with interrupts enabled before and
\* after, has to keep.
Own(place, count) ==
    /\ current = cpu
    /\ place \in Held \cup Free
    /\ count = IF place \in Held THEN 1 ELSE 0
    /\ at' = [at EXCEPT ![cpu] = place]
    /\ preempt_count' = [preempt_count EXCEPT ![cpu] = count]
    /\ counter' \in [Task -> Int]
    /\ state' \in [Task -> {"RUNNING", "ZOMBIE"}]
    /\ next' \in Task /\ Exists(next)'
    /\ place # "switch"
    /\ place = "ticked" => below[cpu] # <<>>
    /\ place \in {"boot", "copy", "copied"} =>
         cpu = INIT_TASK /\ below[cpu] = <<>>
    /\ place \in {"boot", "copy"} => nr_tasks <= Threads
    /\ irq /\ UNCHANGED irq
    /\ UNCHANGED <<nr_tasks, current, cpu, below>>

LEMMA OwnStep ==
    ASSUME SchedInv, NEW place, NEW count, Own(place, count),
           elapsed' \in 0 .. Interval
    PROVE  SchedInv'
<1> USE DEF SchedInv, Own
<1>1. TypeOK'
  BY SMTT(30) DEF TypeOK
<1>2. at'[cpu] = place /\ \A t \in Task : t # cpu => at'[t] = at[t]
  BY DEF TypeOK
<1>3. /\ preempt_count'[cpu] = count
      /\ \A t \in Task : t # cpu => preempt_count'[t] = preempt_count[t]
  BY DEF TypeOK
<1> HIDE DEF Own
<1>4. (Balanced /\ Parked /\ OneWindow)'
  <2>1. Balanced'
    BY <1>2, <1>3, SMTT(30) DEF Own, SwitchSafe, Balanced, TypeOK
  <2>2. Parked'
    BY <1>2, <1>3 DEF Own, SwitchSafe, Parked, TypeOK
  <2>3. OneWindow'
    BY <1>2, <1>3 DEF Own, SwitchSafe, OneWindow, TypeOK
  <2> QED
    BY <2>1, <2>2, <2>3
<1>5. SwitchSafe'
  BY <1>4 DEF SwitchSafe, Own
<1>6. MaskedBriefly'
  BY <1>2 DEF MaskedBriefly, Own
<1>7. Known'
  BY DEF Known, Exists, Own
<1>8. Interrupted'
  BY <1>2 DEF Interrupted, Own
<1>9. Starting'
  BY <1>2 DEF Starting, Own
<1> QED
  BY <1>1, <1>5, <1>6, <1>7, <1>8, <1>9

\* What a task that is about to make such a step knows.
LEMMA Here ==
    ASSUME SchedInv, at[cpu] \notin Masked, at[cpu] # "switch"
    PROVE  /\ current = cpu /\ cpu \in Task /\ irq
           /\ at[cpu] \in Held => preempt_count[cpu] = 1
           /\ at[cpu] \in Free => preempt_count[cpu] = 0
BY DEF SchedInv, SwitchSafe, Balanced, OneWindow, MaskedBriefly, TypeOK

\* Steps that change no preempt_count.
LEMMA PlainStep ==
    ASSUME SchedInv, elapsed' \in 0 .. Interval,
           \/ ret_to_user \/ el0_svc \/ ret_from_syscall \/ exit_zombie
           \/ schedule \/ recharge
    PROVE  SchedInv'
<1>1. ASSUME NEW place \in {"user", "syscall", "dying", "schedule", "scan"},
             At("thread") \/ At("user") \/ At("syscall") \/ At("exit")
               \/ At("loop") \/ At("dead") \/ At("recharge"),
             place \in {"dying", "scan"} <=> At("exit") \/ At("recharge"),
             Goto(place),
             counter' \in [Task -> Int], state' \in [Task -> {"RUNNING", "ZOMBIE"}],
             UNCHANGED <<nr_tasks, preempt_count, current, next, cpu, below, irq>>
      PROVE  SchedInv'
  <2>1. Own(place, preempt_count[cpu])
    BY <1>1, Here DEF Own, At, Goto, SchedInv, TypeOK, Known, Exists
  <2> QED
    BY <2>1, OwnStep
<1>2. CASE ret_to_user \/ el0_svc \/ ret_from_syscall
  BY <1>1, <1>2 DEF ret_to_user, el0_svc, ret_from_syscall, At, SchedInv, TypeOK
<1>3. CASE exit_zombie
  <2>1. state' \in [Task -> {"RUNNING", "ZOMBIE"}]
    BY <1>3 DEF exit_zombie, SchedInv, TypeOK
  <2> QED
    BY <1>1, <1>3, <2>1 DEF exit_zombie, At, SchedInv, TypeOK
<1>4. CASE schedule
  <2>1. counter' \in [Task -> Int]
    BY <1>4 DEF schedule, SchedInv, TypeOK
  <2> QED
    BY <1>1, <1>4, <2>1 DEF schedule, At, SchedInv, TypeOK
<1>5. CASE recharge
  <2>1. \A t \in Task : (counter[t] \div 2) + Priority \in Int
    <3>1. \A c \in Int : (c \div 2) + Priority \in Int
      BY Numbers
    <3>2. \A t \in Task : counter[t] \in Int
      BY DEF SchedInv, TypeOK
    <3> QED
      BY <3>1, <3>2
  <2>2. counter' \in [Task -> Int]
    BY <1>5, <2>1 DEF recharge, SchedInv, TypeOK
  <2> QED
    BY <1>1, <1>5, <2>2 DEF recharge, At, SchedInv, TypeOK
<1> QED
  BY <1>2, <1>3, <1>4, <1>5

\* Steps that disable preemption or enable it.
LEMMA HoldStep ==
    ASSUME SchedInv, elapsed' \in 0 .. Interval,
           \/ copy_process_enter \/ copy_process_leave \/ schedule_tail
           \/ exit_process \/ exit_leave \/ _schedule_enter \/ _schedule_leave
    PROVE  SchedInv'
<1>1. ASSUME at[cpu] \in Free, preempt_disable
      PROVE  preempt_count' = [preempt_count EXCEPT ![cpu] = 1]
  <2>1. current = cpu /\ preempt_count[cpu] = 0
    BY <1>1, Here
  <2>2. preempt_count[cpu] + 1 = 1
    BY <2>1
  <2> QED
    BY <1>1, <2>1, <2>2 DEF preempt_disable
<1>2. ASSUME at[cpu] \in Held, at[cpu] # "switch", preempt_enable
      PROVE  preempt_count' = [preempt_count EXCEPT ![cpu] = 0]
  <2>1. current = cpu /\ preempt_count[cpu] = 1
    BY <1>2, Here
  <2>2. preempt_count[cpu] - 1 = 0
    BY <2>1
  <2> QED
    BY <1>2, <2>1, <2>2 DEF preempt_enable
<1>3. ASSUME NEW place, NEW count,
             At("boot") \/ At("copied") \/ At("new") \/ At("syscall")
               \/ At("dying") \/ At("schedule") \/ At("resumed"),
             place \in Held \cup Free, place # "switch",
             count = IF place \in Held THEN 1 ELSE 0,
             preempt_count' = [preempt_count EXCEPT ![cpu] = count],
             place = "ticked" => below[cpu] # <<>>,
             place \in {"boot", "copy", "copied"} =>
               (At("boot") \/ At("copied")) /\ place # "copied" /\ nr_tasks <= Threads,
             Goto(place),
             UNCHANGED <<nr_tasks, state, counter, current, next, cpu, below, irq>>
      PROVE  SchedInv'
  <2>1. current = cpu /\ cpu \in Task /\ irq
    BY <1>3, Here DEF At
  <2>2. place \in {"boot", "copy", "copied"} =>
          cpu = INIT_TASK /\ below[cpu] = <<>>
    BY <1>3, <2>1 DEF At, SchedInv, Starting
  <2>3. counter' \in [Task -> Int] /\ state' \in [Task -> {"RUNNING", "ZOMBIE"}]
    BY <1>3 DEF SchedInv, TypeOK
  <2>4. next' \in Task /\ Exists(next)'
    BY <1>3 DEF SchedInv, TypeOK, Known, Exists
  <2>5. irq /\ UNCHANGED irq
    BY <1>3, <2>1
  <2>6. place \in {"boot", "copy"} => nr_tasks <= Threads
    BY <1>3
  <2>7. UNCHANGED <<nr_tasks, current, cpu, below>>
    BY <1>3
  <2>8. Own(place, count)
    BY <1>3, <2>1, <2>2, <2>3, <2>4, <2>5, <2>6, <2>7, Zenon DEF Own, Goto
  <2> QED
    BY <2>8, OwnStep
<1>4. CASE copy_process_enter
  <2>1. nr_tasks <= Threads
    BY <1>4, Here DEF copy_process_enter, At, SchedInv, Starting
  <2> QED
    BY <1>1, <1>3, <1>4, <2>1 DEF copy_process_enter, At
<1>5. CASE copy_process_leave
  BY <1>2, <1>3, <1>5 DEF copy_process_leave, At
<1>6. CASE schedule_tail
  BY <1>2, <1>3, <1>6 DEF schedule_tail, At
<1>7. CASE exit_process
  BY <1>1, <1>3, <1>7 DEF exit_process, At
<1>8. CASE exit_leave
  BY <1>2, <1>3, <1>8 DEF exit_leave, At
<1>9. CASE _schedule_enter
  BY <1>1, <1>3, <1>9 DEF _schedule_enter, At
<1>10. CASE _schedule_leave
  BY <1>2, <1>3, <1>10 DEF _schedule_leave, At
<1> QED
  BY <1>4, <1>5, <1>6, <1>7, <1>8, <1>9, <1>10

LEMMA ScanStep ==
    ASSUME SchedInv, elapsed' \in 0 .. Interval, scan
    PROVE  SchedInv'
<1>1. At("scan") /\ current = cpu /\ cpu \in Task /\ irq /\ preempt_count[cpu] = 1
  BY Here DEF scan, At
<1>2. PICK place \in {"recharge", "chosen"} : Goto(place)
  BY DEF scan
<1>3. next' \in Task /\ Exists(next)'
  <2>1. \A t \in Task : IsChoice(t) => Exists(t)
    BY Numbers DEF IsChoice, Ready, Exists, INIT_TASK, SchedInv, TypeOK
  <2> QED
    BY <2>1 DEF scan, Exists, SchedInv, TypeOK, Known
<1>4. preempt_count' = [preempt_count EXCEPT ![cpu] = 1]
  BY <1>1 DEF scan, SchedInv, TypeOK
<1>5. UNCHANGED <<counter, state>> /\ UNCHANGED <<nr_tasks, current, cpu, below>>
  BY DEF scan
<1>6. UNCHANGED irq
  BY DEF scan
<1>7. counter' \in [Task -> Int] /\ state' \in [Task -> {"RUNNING", "ZOMBIE"}]
  BY <1>5 DEF SchedInv, TypeOK
<1>8. Own(place, 1)
  BY <1>1, <1>2, <1>3, <1>4, <1>5, <1>6, <1>7, Zenon DEF Own, Goto
<1> QED
  BY <1>8, OwnStep

-----------------------------------------------------------------------------
(* Steps that involve two tasks.                                           *)

LEMMA CopyStep ==
    ASSUME SchedInv, elapsed' \in 0 .. Interval, copy_process
    PROVE  SchedInv'
<1> DEFINE pid == nr_tasks
<1>1. /\ At("copy") /\ current = cpu /\ cpu \in Task /\ irq
      /\ preempt_count[cpu] = 1
  BY Here DEF copy_process, At
<1>2. nr_tasks <= Threads /\ cpu = INIT_TASK /\ below[cpu] = <<>>
  BY <1>1 DEF At, SchedInv, Starting
<1>3. pid \in Task /\ pid # cpu /\ nr_tasks' \in 1 .. NR_TASKS
  BY <1>2, Numbers DEF copy_process, Task, INIT_TASK, SchedInv, TypeOK
<1>4. /\ at'[cpu] = "copied" /\ at'[pid] = "new"
      /\ \A t \in Task : t # cpu /\ t # pid => at'[t] = at[t]
  BY <1>1, <1>3 DEF copy_process, SchedInv, TypeOK
<1>5. /\ preempt_count'[cpu] = 1 /\ preempt_count'[pid] = 1
      /\ \A t \in Task : t # cpu /\ t # pid => preempt_count'[t] = preempt_count[t]
  BY <1>1, <1>3 DEF copy_process, SchedInv, TypeOK
<1>6. UNCHANGED <<current, next, cpu, below>>
  BY DEF copy_process
<1>7. irq' = irq
  BY DEF copy_process
<1>8. TypeOK'
  <2>1. state' \in [Task -> {"RUNNING", "ZOMBIE"}]
    BY DEF copy_process, SchedInv, TypeOK
  <2>2. preempt_count' \in [Task -> Int]
    <3>1. preempt_count' = [preempt_count EXCEPT ![nr_tasks] = 1]
      BY DEF copy_process
    <3>2. preempt_count \in [Task -> Int] /\ 1 \in Int
      BY DEF SchedInv, TypeOK
    <3> QED
      BY <3>1, <3>2
  <2>3. counter' \in [Task -> Int]
    <3>1. counter' = [counter EXCEPT ![nr_tasks] = Priority]
      BY DEF copy_process
    <3>2. counter \in [Task -> Int] /\ Priority \in Int
      BY Numbers DEF SchedInv, TypeOK
    <3> QED
      BY <3>1, <3>2
  <2>4. at' \in [Task -> Held \cup Free \cup Masked]
    BY <1>3 DEF copy_process, SchedInv, TypeOK
  <2> QED
    BY <1>3, <1>6, <1>7, <2>1, <2>2, <2>3, <2>4 DEF SchedInv, TypeOK
<1>9. SwitchSafe'
  BY <1>1, <1>4, <1>5, <1>6 DEF SchedInv, SwitchSafe, Balanced, Parked, OneWindow
<1>10. MaskedBriefly'
  BY <1>1, <1>4, <1>6, <1>7 DEF MaskedBriefly
<1>11. Known' /\ nr_tasks' = nr_tasks + 1
  BY <1>6 DEF copy_process, SchedInv, Known, Exists, TypeOK, Task
<1>12. Interrupted'
  BY <1>1, <1>2, <1>4, <1>6 DEF SchedInv, Interrupted
<1>13. Starting'
  <2>1. \A t \in Task : at'[t] \in {"boot", "copy"} => FALSE
    BY <1>1, <1>2, <1>4 DEF SchedInv, Starting
  <2>2. \A t \in Task : at'[t] = "copied" => t = INIT_TASK /\ below'[t] = <<>>
    BY <1>1, <1>2, <1>4, <1>6 DEF SchedInv, Starting
  <2>3. \A t \in Task : \A k \in 1 .. Len(below[t]) : below[t][k] # "boot"
    BY <1>2 DEF SchedInv, Starting
  <2> QED
    BY <1>6, <2>1, <2>2, <2>3 DEF Starting
<1> QED
  BY <1>8, <1>9, <1>10, <1>11, <1>12, <1>13 DEF SchedInv

LEMMA SwitchStep ==
    ASSUME SchedInv, elapsed' \in 0 .. Interval, switch_to
    PROVE  SchedInv'
<1>1. At("chosen") /\ current = cpu /\ cpu \in Task /\ irq /\ preempt_count[cpu] = 1
  BY Here DEF switch_to, At
<1>2. PICK place \in {"resumed", "switch"} :
        /\ at' = [at EXCEPT ![cpu] = place]
        /\ place = "switch" <=> current # next
  BY DEF switch_to, Goto
<1>3. /\ at'[cpu] = place
      /\ \A t \in Task : t # cpu => at'[t] = at[t]
  BY <1>1, <1>2 DEF SchedInv, TypeOK
<1>4. current' = next /\ UNCHANGED <<nr_tasks, state, counter, preempt_count, next,
                                     cpu, below>>
  BY DEF switch_to
<1>5. irq' = irq
  BY DEF switch_to
<1>6. TypeOK'
  BY <1>1, <1>2, <1>4, <1>5 DEF SchedInv, TypeOK
<1>7. Balanced' /\ Parked' /\ OneWindow'
  BY <1>1, <1>2, <1>3, <1>4 DEF SchedInv, SwitchSafe, Balanced, Parked, OneWindow
<1>8. (current # cpu => preempt_count[current] > 0)'
  <2>1. next # cpu => at[next] \in {"new", "resumed"}
    BY DEF SchedInv, TypeOK, SwitchSafe, Parked
  <2>2. next # cpu => preempt_count[next] = 1
    BY <2>1 DEF SchedInv, TypeOK, SwitchSafe, Balanced
  <2> QED
    BY <1>4, <2>2
<1>9. MaskedBriefly'
  BY <1>1, <1>3, <1>4, <1>5 DEF MaskedBriefly
<1>10. Known' /\ Interrupted' /\ Starting'
  BY <1>3, <1>4 DEF SchedInv, Known, Exists, Interrupted, Starting
<1> QED
  BY <1>6, <1>7, <1>8, <1>9, <1>10 DEF SchedInv, SwitchSafe

\* The task the CPU goes to is parked, or is the one it is on already.
LEMMA CpuStep ==
    ASSUME SchedInv, elapsed' \in 0 .. Interval, cpu_switch_to
    PROVE  SchedInv'
<1>1. /\ at[cpu] = "switch" /\ cpu \in Task /\ current \in Task /\ irq
      /\ cpu' = current
  BY DEF cpu_switch_to, At, SchedInv, TypeOK, MaskedBriefly
<1>2. /\ at'[cpu] = "resumed"
      /\ \A t \in Task : t # cpu => at'[t] = at[t]
  BY <1>1 DEF cpu_switch_to, Goto, SchedInv, TypeOK
<1>3. UNCHANGED <<nr_tasks, state, counter, preempt_count, current, next, below>>
  BY DEF cpu_switch_to
<1>4. UNCHANGED irq
  BY DEF cpu_switch_to
<1>5. TypeOK'
  BY <1>1, <1>3, <1>4 DEF cpu_switch_to, Goto, SchedInv, TypeOK
<1>6. SwitchSafe'
  BY <1>1, <1>2, <1>3 DEF SchedInv, SwitchSafe, Balanced, Parked, OneWindow
<1>7. at'[cpu'] \in {"new", "resumed"}
  BY <1>1, <1>2 DEF SchedInv, SwitchSafe, Parked
<1>8. MaskedBriefly'
  BY <1>1, <1>4, <1>7 DEF MaskedBriefly
<1>9. Known'
  BY <1>1, <1>3 DEF SchedInv, Known, Exists
<1>10. Interrupted'
  BY <1>2, <1>3 DEF SchedInv, Interrupted
<1>11. Starting'
  BY <1>2, <1>3 DEF SchedInv, Starting
<1> QED
  BY <1>5, <1>6, <1>8, <1>9, <1>10, <1>11 DEF SchedInv

-----------------------------------------------------------------------------
(* The timer.                                                              *)

\* Where an interrupt finds preemption enabled.
LEMMA Preemptible ==
    ASSUME SchedInv, irq, ~(preempt_count[current] > 0)
    PROVE  at[cpu] \in Free /\ current = cpu
<1>1. current = cpu
  BY DEF SchedInv, SwitchSafe
<1>2. at[cpu] \in Held => preempt_count[cpu] = 1
  BY DEF SchedInv, TypeOK, SwitchSafe, Balanced
<1>3. at[cpu] \in (Held \cup Free \cup Masked) \ Masked
  BY DEF SchedInv, TypeOK, MaskedBriefly
<1>4. at[cpu] \notin Held
  BY <1>1, <1>2
<1> QED
  BY <1>1, <1>3, <1>4

\* The tick schedules only where preemption is not disabled; in the window of
\* switch_to it is.
LEMMA TickStep ==
    ASSUME SchedInv, elapsed' \in 0 .. Interval, timer_tick
    PROVE  SchedInv'
<1> DEFINE left == counter[current] - 1
<1>1. irq /\ cpu \in Task /\ current \in Task /\ at[cpu] \notin Masked
  BY DEF timer_tick, SchedInv, TypeOK, MaskedBriefly
<1>2. UNCHANGED <<nr_tasks, state, preempt_count, current, next, cpu>>
  BY DEF timer_tick
<1>3. counter' \in [Task -> Int]
  <2>1. counter \in [Task -> Int] /\ left \in Int /\ 0 \in Int
    BY <1>1 DEF SchedInv, TypeOK
  <2>2. \/ counter' = [counter EXCEPT ![current] = left]
        \/ counter' = [counter EXCEPT ![current] = 0]
    BY Zenon DEF timer_tick
  <2> HIDE DEF left
  <2> QED
    BY <2>1, <2>2
<1>4. CASE left > 0 \/ preempt_count[current] > 0
  <2>1. UNCHANGED <<at, below>>
    BY <1>4 DEF timer_tick
  <2>2. UNCHANGED irq
    BY <1>4 DEF timer_tick
  <2>3. TypeOK' /\ SwitchSafe'
    BY <1>2, <1>3, <2>1, <2>2
    DEF SchedInv, TypeOK, SwitchSafe, Balanced, Parked, OneWindow
  <2>4. MaskedBriefly'
    BY <1>2, <2>1, <2>2 DEF SchedInv, MaskedBriefly
  <2>5. Known' /\ Interrupted' /\ Starting'
    BY <1>2, <2>1 DEF SchedInv, Known, Exists, Interrupted, Starting
  <2> QED
    BY <2>3, <2>4, <2>5 DEF SchedInv
<1>5. CASE ~(left > 0 \/ preempt_count[current] > 0)
  <2>1. /\ below' = [below EXCEPT ![cpu] = Append(@, at[cpu])]
        /\ Goto("tick")
    BY <1>5 DEF timer_tick
  <2>2. irq' = FALSE
    BY <1>5 DEF timer_tick
  <2>3. at[cpu] \in Free /\ current = cpu
    BY <1>5, Preemptible DEF timer_tick
  <2>4. /\ at'[cpu] = "tick"
        /\ \A t \in Task : t # cpu => at'[t] = at[t]
    BY <1>1, <2>1 DEF Goto, SchedInv, TypeOK
  <2>5. /\ below'[cpu] = Append(below[cpu], at[cpu])
        /\ \A t \in Task : t # cpu => below'[t] = below[t]
        /\ below[cpu] \in Seq(Free)
    BY <1>1, <2>1 DEF SchedInv, TypeOK
  <2>6. /\ below'[cpu] \in Seq(Free)
        /\ Len(below'[cpu]) = Len(below[cpu]) + 1 /\ Len(below[cpu]) \in Nat
        /\ \A k \in 1 .. Len(below[cpu]) : below'[cpu][k] = below[cpu][k]
        /\ below'[cpu][Len(below[cpu]) + 1] = at[cpu]
    BY <2>3, <2>5
  <2>7. TypeOK'
    <3>1. at' \in [Task -> Held \cup Free \cup Masked]
      BY <2>1 DEF Goto, SchedInv, TypeOK
    <3>2. below' \in [Task -> Seq(Free)]
      BY <1>1, <2>1, <2>5, <2>6 DEF SchedInv, TypeOK
    <3> QED
      BY <1>2, <1>3, <2>2, <3>1, <3>2 DEF SchedInv, TypeOK
  <2>8. SwitchSafe'
    BY <1>1, <1>2, <2>3, <2>4 DEF SchedInv, SwitchSafe, Balanced, Parked, OneWindow
  <2>9. MaskedBriefly'
    BY <1>2, <2>2, <2>4 DEF MaskedBriefly
  <2>10. Known'
    BY <1>2 DEF SchedInv, Known, Exists
  <2>11. Interrupted'
    <3>1. ASSUME NEW t \in Task PROVE at'[t] \in {"tick", "ticked", "eret"} => below'[t] # <<>>
      BY <2>4, <2>5, <2>6 DEF SchedInv, Interrupted
    <3>2. at[cpu] = "ticked" => Len(below[cpu]) > 0
      BY <1>1, <2>5 DEF SchedInv, Interrupted
    <3>3. ASSUME NEW t \in Task, NEW k \in 1 .. Len(below'[t]),
                 below'[t][k] = "ticked"
          PROVE  k > 1
      BY <2>5, <2>6, <3>2, <3>3 DEF SchedInv, Interrupted
    <3> QED
      BY <3>1, <3>3 DEF Interrupted
  <2>12. Starting'
    <3>1. at[cpu] = "boot" => Len(below[cpu]) = 0 /\ cpu = INIT_TASK /\ nr_tasks <= Threads
      BY <1>1 DEF SchedInv, Starting
    <3>2. ASSUME NEW t \in Task, NEW k \in 1 .. Len(below'[t]),
                 below'[t][k] = "boot"
          PROVE  t = INIT_TASK /\ nr_tasks <= Threads /\ k = 1
      <4>1. CASE t # cpu \/ k <= Len(below[cpu])
        <5>1. k \in 1 .. Len(below[t]) /\ below[t][k] = "boot"
          BY <2>5, <2>6, <3>2, <4>1
        <5> QED
          BY <5>1, BootBelow DEF SchedInv
      <4>2. CASE t = cpu /\ ~(k <= Len(below[cpu]))
        <5>1. k = Len(below[cpu]) + 1
          BY <2>6, <4>2
        <5>2. at[cpu] = "boot"
          BY <2>6, <3>2, <4>2, <5>1
        <5> QED
          BY <3>1, <4>2, <5>1, <5>2
      <4> QED
        BY <4>1, <4>2
    <3>3. ASSUME NEW t \in Task
          PROVE  /\ at'[t] \in {"boot", "copy", "copied"} =>
                      t = INIT_TASK /\ below'[t] = <<>>
                 /\ at'[t] \in {"boot", "copy"} => nr_tasks <= Threads
      BY <2>4, <2>5 DEF SchedInv, Starting
    <3> QED
      BY <1>2, <3>2, <3>3 DEF Starting
  <2> QED
    BY <2>7, <2>8, <2>9, <2>10, <2>11, <2>12 DEF SchedInv
<1> QED
  BY <1>4, <1>5

\* The ends of timer_tick.
LEMMA MaskStep ==
    ASSUME SchedInv, elapsed' \in 0 .. Interval,
           timer_tick_open \/ timer_tick_close
    PROVE  SchedInv'
<1>1. PICK place \in {"schedule", "eret"} :
        /\ Goto(place)
        /\ at[cpu] = IF place = "schedule" THEN "tick" ELSE "ticked"
        /\ irq' = (place = "schedule")
  <2>1. CASE timer_tick_open
    <3>1. irq' = ("schedule" = "schedule")
      BY <2>1 DEF timer_tick_open
    <3> QED
      BY <2>1, <3>1, Zenon DEF timer_tick_open, At
  <2>2. CASE timer_tick_close
    <3>1. irq' = ("eret" = "schedule")
      BY <2>2 DEF timer_tick_close
    <3> QED
      BY <2>2, <3>1 DEF timer_tick_close, At
  <2> QED
    BY <2>1, <2>2
<1>2. UNCHANGED <<nr_tasks, state, counter, preempt_count, current, next, cpu, below>>
  BY DEF timer_tick_open, timer_tick_close
<1>3. cpu \in Task /\ current = cpu /\ preempt_count[cpu] = 0 /\ below[cpu] # <<>>
  BY <1>1 DEF SchedInv, TypeOK, SwitchSafe, Balanced, OneWindow, Interrupted
<1>4. /\ at'[cpu] = place
      /\ \A t \in Task : t # cpu => at'[t] = at[t]
  BY <1>1, <1>3 DEF Goto, SchedInv, TypeOK
<1>5. irq' \in BOOLEAN
  BY <1>1
<1>6. TypeOK'
  BY <1>1, <1>2, <1>5 DEF Goto, SchedInv, TypeOK
<1>7. SwitchSafe'
  BY <1>2, <1>3, <1>4 DEF SchedInv, SwitchSafe, Balanced, Parked, OneWindow
<1>8. MaskedBriefly'
  BY <1>1, <1>2, <1>4 DEF MaskedBriefly
<1>9. Known' /\ Interrupted' /\ Starting'
  BY <1>2, <1>3, <1>4 DEF SchedInv, Known, Exists, Interrupted, Starting
<1> QED
  BY <1>6, <1>7, <1>8, <1>9 DEF SchedInv

\* kernel_exit goes back to a place of the stack it is on.
LEMMA ExitStep ==
    ASSUME SchedInv, elapsed' \in 0 .. Interval, kernel_exit
    PROVE  SchedInv'
<1> DEFINE last == Len(below[cpu])
           place == below[cpu][last]
<1>1. at[cpu] = "eret" /\ cpu \in Task /\ current = cpu /\ preempt_count[cpu] = 0
  BY DEF kernel_exit, At, SchedInv, TypeOK, SwitchSafe, Balanced, OneWindow
<1>2. below[cpu] \in Seq(Free) /\ below[cpu] # <<>>
  BY <1>1 DEF SchedInv, TypeOK, Interrupted
<1>3. last \in Nat /\ last > 0 /\ place \in Free
  BY <1>2
<1>4. UNCHANGED <<nr_tasks, state, counter, preempt_count, current, next, cpu>>
  BY DEF kernel_exit
<1>5. irq' = TRUE
  BY DEF kernel_exit
<1>6. /\ at'[cpu] = place
      /\ \A t \in Task : t # cpu => at'[t] = at[t]
      /\ at' \in [Task -> Held \cup Free \cup Masked]
  BY <1>1, <1>3 DEF kernel_exit, Goto, SchedInv, TypeOK
<1>7. /\ below'[cpu] = SubSeq(below[cpu], 1, last - 1)
      /\ \A t \in Task : t # cpu => below'[t] = below[t]
  BY <1>1 DEF kernel_exit, SchedInv, TypeOK
<1>8. /\ below'[cpu] \in Seq(Free) /\ Len(below'[cpu]) = last - 1
      /\ \A k \in 1 .. last - 1 : below'[cpu][k] = below[cpu][k]
  BY <1>2, <1>3, <1>7
<1>9. TypeOK'
  <2>1. below' \in [Task -> Seq(Free)]
    BY <1>1, <1>7, <1>8 DEF kernel_exit, SchedInv, TypeOK
  <2> QED
    BY <1>4, <1>5, <1>6, <2>1 DEF SchedInv, TypeOK
<1>10. SwitchSafe'
  BY <1>1, <1>3, <1>4, <1>6 DEF SchedInv, SwitchSafe, Balanced, Parked, OneWindow
<1>11. MaskedBriefly'
  BY <1>3, <1>4, <1>5, <1>6 DEF MaskedBriefly
<1>12. Known'
  BY <1>4 DEF SchedInv, Known, Exists
<1>13. Interrupted'
  <2>1. place = "ticked" => last > 1
    BY <1>1, <1>3 DEF SchedInv, Interrupted
  <2>2. place = "ticked" => below'[cpu] # <<>>
    BY <1>3, <1>8, <2>1
  <2>3. ASSUME NEW t \in Task PROVE at'[t] \in {"tick", "ticked", "eret"} => below'[t] # <<>>
    BY <1>3, <1>6, <1>7, <2>2 DEF SchedInv, Interrupted
  <2>4. ASSUME NEW t \in Task, NEW k \in 1 .. Len(below'[t]),
               below'[t][k] = "ticked"
        PROVE  k > 1
    BY <1>1, <1>3, <1>7, <1>8, <2>4 DEF SchedInv, Interrupted
  <2> QED
    BY <2>3, <2>4 DEF Interrupted
<1>14. Starting'
  <2>1. place = "boot" => cpu = INIT_TASK /\ nr_tasks <= Threads /\ last = 1
    <3>1. last \in 1 .. Len(below[cpu])
      BY <1>3
    <3> QED
      BY <1>1, <3>1, BootBelow DEF SchedInv
  <2>2. place = "boot" => below'[cpu] = <<>>
    BY <1>8, <2>1
  <2>3. ASSUME NEW t \in Task
        PROVE  /\ at'[t] \in {"boot", "copy", "copied"} =>
                    t = INIT_TASK /\ below'[t] = <<>>
               /\ at'[t] \in {"boot", "copy"} => nr_tasks <= Threads
    BY <1>3, <1>6, <1>7, <2>1, <2>2 DEF SchedInv, Starting
  <2>4. ASSUME NEW t \in Task, NEW k \in 1 .. Len(below'[t]),
               below'[t][k] = "boot"
        PROVE  t = INIT_TASK /\ nr_tasks <= Threads /\ k = 1
    <3>1. k \in 1 .. Len(below[t]) /\ below[t][k] = "boot"
      BY <1>1, <1>3, <1>7, <1>8, <2>4, SMTT(30)
    <3> QED
      BY <3>1, BootBelow DEF SchedInv
  <2> QED
    BY <1>4, <2>3, <2>4 DEF Starting
<1> QED
  BY <1>9, <1>10, <1>11, <1>12, <1>13, <1>14 DEF SchedInv

-----------------------------------------------------------------------------
LEMMA SchedStep ==
    ASSUME SchedInv, [Next]_vars
    PROVE  SchedInv'
<1>1. CASE UNCHANGED vars
  <2>1. UNCHANGED <<nr_tasks, state, counter, preempt_count, current, next, cpu,
                    at, below, elapsed>>
    BY <1>1 DEF vars
  <2>2. UNCHANGED irq
    BY <1>1 DEF vars
  <2>3. TypeOK' /\ SwitchSafe'
    BY <2>1, <2>2 DEF SchedInv, TypeOK, SwitchSafe, Balanced, Parked, OneWindow
  <2>4. MaskedBriefly'
    BY <2>1, <2>2 DEF SchedInv, MaskedBriefly
  <2>5. Known' /\ Interrupted' /\ Starting'
    BY <2>1 DEF SchedInv, Known, Exists, Interrupted, Starting
  <2> QED
    BY <2>3, <2>4, <2>5 DEF SchedInv
<1>2. CASE Next
  <2>1. elapsed' \in 0 .. Interval
    BY <1>2, Numbers DEF Next, Step, Ask, Tick, SchedInv, TypeOK
  <2>2. CASE Step
    BY <2>1, <2>2, PlainStep, HoldStep, ScanStep, CopyStep, SwitchStep, CpuStep,
       MaskStep, ExitStep DEF Step, Kernel
  <2>3. CASE Ask
    BY <2>1, <2>3, PlainStep, HoldStep DEF Ask
  <2>4. CASE Tick
    BY <2>1, <2>4, TickStep DEF Tick
  <2> QED
    BY <1>2, <2>2, <2>3, <2>4 DEF Next
<1> QED
  BY <1>1, <1>2

\* The invariant of the scheduler, with any number of tasks, any slice and
\* ticks as close together as one likes (sched.c, fork.c, entry.S).
THEOREM SchedInvariant == Spec => []SchedInv
<1>1. Init => SchedInv
  BY SchedInit
<1>2. SchedInv /\ [Next]_vars => SchedInv'
  BY SchedStep
<1> QED
  BY <1>1, <1>2, PTL DEF Spec

\* The tables of the scheduler keep their types; a thread always finds a free
\* slot (sched.c, fork.c:36-39).
THEOREM SchedTypes == Spec => []TypeOK
<1>1. SchedInv => TypeOK
  BY DEF SchedInv
<1> QED
  BY <1>1, SchedInvariant, PTL

\* An interrupt never schedules on a stack that is not current's, and every
\* raised preempt_count is on its way down (sched.c:23-67 and 77).
THEOREM SwitchesAreSafe == Spec => []SwitchSafe
<1>1. SchedInv => SwitchSafe
  BY DEF SchedInv
<1> QED
  BY <1>1, SchedInvariant, PTL

\* Interrupts are masked only at the two ends of timer_tick, whatever task a
\* switch resumes (sched.c:81-83, entry.S:201-209).
THEOREM InterruptsReopen == Spec => []MaskedBriefly
<1>1. SchedInv => MaskedBriefly
  BY DEF SchedInv
<1> QED
  BY <1>1, SchedInvariant, PTL

-----------------------------------------------------------------------------
(* Slices, and tasks that have exited.                                      *)

\* Where only a thread stands, never the task that boots.
ThreadOnly == {"new", "thread", "user", "syscall", "exit", "dying", "dead"}

\* init_task cannot exit.
Main ==
    /\ at[INIT_TASK] \notin ThreadOnly
    /\ \A k \in 1 .. Len(below[INIT_TASK]) :
           below[INIT_TASK][k] \notin ThreadOnly
    /\ state[INIT_TASK] = "RUNNING"

\* From the choice of a task to the switch to it, it can run.
ChosenRuns ==
    /\ at[cpu] = "chosen" => state[next] = "RUNNING"
    /\ at[cpu] = "switch" => state[current] = "RUNNING"

\* Between the scan and the handing out, ticks can only lower a counter.
SpentStays ==
    at[cpu] = "recharge" =>
        \A t \in Task : Exists(t) /\ state[t] = "RUNNING" => counter[t] <= 0

SliceInv == SliceBound /\ Main /\ ChosenRuns /\ SpentStays

\* The places of the code are all different.
USE DEF ThreadOnly

-----------------------------------------------------------------------------
LEMMA SliceInit == Init => SliceInv
<1> SUFFICES ASSUME Init PROVE SliceInv
  OBVIOUS
<1>1. SliceBound
  BY Numbers DEF Init, SliceBound
<1>2. Main /\ ChosenRuns /\ SpentStays
  BY Numbers DEF Init, Main, ChosenRuns, SpentStays, INIT_TASK
<1> QED
  BY <1>1, <1>2 DEF SliceInv

\* Half of less than two slices, and one more, is less than two slices.
LEMMA SliceStep ==
    ASSUME SchedInv, SliceBound, Next
    PROVE  SliceBound'
<1>1. \A t \in Task : counter[t] \in Int /\ counter[t] < 2 * Priority
  BY DEF SchedInv, TypeOK, SliceBound
<1>2. Priority \in Nat /\ Priority > 0
  BY Numbers
<1>3. CASE recharge
  <2>1. \A t \in Task : (counter[t] \div 2) + Priority < 2 * Priority
    <3> TAKE t \in Task
    <3>1. counter[t] \div 2 <= Priority - 1
      BY <1>1, <1>2
    <3> QED
      BY <1>1, <1>2, <3>1
  <2>2. \A t \in Task : counter'[t] \in {counter[t], (counter[t] \div 2) + Priority}
    BY <1>3 DEF recharge
  <2> QED
    BY <1>1, <2>1, <2>2 DEF SliceBound
<1>4. CASE copy_process
  <2>1. counter' = [counter EXCEPT ![nr_tasks] = Priority]
    BY <1>4 DEF copy_process
  <2>2. \A t \in Task : counter'[t] \in {counter[t], Priority}
    BY <2>1 DEF SchedInv, TypeOK
  <2> QED
    BY <1>1, <1>2, <2>2 DEF SliceBound
<1>5. CASE schedule
  <2>1. \A t \in Task : counter'[t] \in {counter[t], 0}
    BY <1>5 DEF schedule, SchedInv, TypeOK
  <2> QED
    BY <1>1, <1>2, <2>1 DEF SliceBound
<1>6. CASE Tick
  <2>1. \A t \in Task : counter'[t] \in {counter[t], counter[t] - 1, 0}
    BY <1>6 DEF Tick, timer_tick, SchedInv, TypeOK
  <2> QED
    BY <1>1, <1>2, <2>1 DEF SliceBound
<1>7. CASE UNCHANGED counter
  BY <1>7 DEF SliceBound
<1> QED
  BY <1>3, <1>4, <1>5, <1>6, <1>7
  DEF Next, Step, Ask, Kernel, copy_process_enter, copy_process_leave,
      schedule_tail, ret_to_user, el0_svc, ret_from_syscall, exit_process,
      exit_zombie, exit_leave, _schedule_enter, scan, switch_to, cpu_switch_to,
      _schedule_leave, timer_tick_open, timer_tick_close, kernel_exit

LEMMA MainStep ==
    ASSUME SchedInv, Main, Next
    PROVE  Main'
<1>1. INIT_TASK \in Task /\ cpu \in Task /\ at \in [Task -> Held \cup Free \cup Masked]
      /\ below \in [Task -> Seq(Free)]
  BY Numbers DEF SchedInv, TypeOK
<1>2. state'[INIT_TASK] = "RUNNING"
  <2>1. CASE exit_zombie
    <3>1. at[cpu] = "exit"
      BY <2>1 DEF exit_zombie, At
    <3>2. current = cpu /\ cpu # INIT_TASK
      BY <3>1, Here DEF Main
    <3> QED
      BY <1>1, <2>1, <3>2 DEF exit_zombie, Main, SchedInv, TypeOK
  <2>2. CASE copy_process
    BY <1>1, <2>2 DEF copy_process, Main, SchedInv, TypeOK
  <2>3. CASE UNCHANGED state
    BY <2>3 DEF Main
  <2> QED
    BY <2>1, <2>2, <2>3
    DEF Next, Step, Ask, Tick, Kernel, copy_process_enter, copy_process_leave,
        schedule_tail, ret_to_user, el0_svc, ret_from_syscall, exit_process,
        exit_leave, schedule, _schedule_enter, scan, recharge, switch_to,
        cpu_switch_to, _schedule_leave, timer_tick, timer_tick_open,
        timer_tick_close, kernel_exit
<1>3. CASE copy_process
  <2>1. nr_tasks # INIT_TASK
    BY <1>3 DEF SchedInv, TypeOK, INIT_TASK
  <2>2. at'[INIT_TASK] \in {"copied", at[INIT_TASK]} /\ below' = below
    BY <1>1, <1>3, <2>1 DEF copy_process
  <2> QED
    BY <1>2, <2>2 DEF Main
<1>4. CASE kernel_exit
  <2>1. /\ \A t \in Task : t # cpu => at'[t] = at[t] /\ below'[t] = below[t]
        /\ at'[cpu] = below[cpu][Len(below[cpu])]
        /\ below'[cpu] = SubSeq(below[cpu], 1, Len(below[cpu]) - 1)
    BY <1>1, <1>4 DEF kernel_exit, Goto
  <2>2. CASE cpu = INIT_TASK
    <3>1. below[cpu] \in Seq(Free) /\ below[cpu] # <<>>
      BY <1>1, <1>4 DEF kernel_exit, At, SchedInv, Interrupted
    <3>2. Len(below[cpu]) \in 1 .. Len(below[cpu])
      BY <3>1
    <3>3. at'[INIT_TASK] \notin ThreadOnly
      BY <2>1, <2>2, <3>2 DEF Main
    <3>4. \A k \in 1 .. Len(below'[cpu]) :
            k \in 1 .. Len(below[cpu]) /\ below'[cpu][k] = below[cpu][k]
      BY <2>1, <3>1
    <3> QED
      BY <1>2, <2>2, <3>3, <3>4 DEF Main
  <2>3. CASE cpu # INIT_TASK
    BY <1>1, <1>2, <2>1, <2>3 DEF Main
  <2> QED
    BY <2>2, <2>3
<1>5. CASE timer_tick
  <2>1. CASE UNCHANGED <<at, below>>
    BY <1>2, <2>1 DEF Main
  <2>2. CASE ~UNCHANGED <<at, below>>
    <3>1. /\ at' = [at EXCEPT ![cpu] = "tick"]
          /\ below' = [below EXCEPT ![cpu] = Append(@, at[cpu])]
          /\ below[cpu] \in Seq(Free)
      BY <1>1, <1>5, <2>2 DEF timer_tick, Goto
    <3>2. at[cpu] \in Free
      BY <1>5, <2>2, Preemptible DEF timer_tick
    <3>3. \A k \in 1 .. Len(below'[cpu]) :
            \/ k \in 1 .. Len(below[cpu]) /\ below'[cpu][k] = below[cpu][k]
            \/ below'[cpu][k] = at[cpu]
      BY <1>1, <3>1, <3>2
    <3>4. CASE cpu = INIT_TASK
      BY <1>1, <1>2, <3>1, <3>3, <3>4 DEF Main
    <3>5. CASE cpu # INIT_TASK
      BY <1>1, <1>2, <3>1, <3>5 DEF Main
    <3> QED
      BY <3>4, <3>5
  <2> QED
    BY <2>1, <2>2
<1>6. ASSUME NEW place, Goto(place), UNCHANGED below,
             place \in ThreadOnly => cpu # INIT_TASK \/ at[cpu] \in ThreadOnly
      PROVE  Main'
  BY <1>1, <1>2, <1>6 DEF Goto, Main
<1> QED
  BY <1>3, <1>4, <1>5, <1>6
  DEF Next, Step, Ask, Tick, Kernel, At, copy_process_enter, copy_process_leave,
      schedule_tail, ret_to_user, el0_svc, ret_from_syscall, exit_process,
      exit_zombie, exit_leave, schedule, _schedule_enter, scan, recharge,
      switch_to, cpu_switch_to, _schedule_leave, timer_tick_open,
      timer_tick_close

LEMMA ChosenStep ==
    ASSUME SchedInv, Main, ChosenRuns, Next
    PROVE  ChosenRuns'
<1>1. /\ cpu \in Task /\ current \in Task /\ next \in Task
      /\ at \in [Task -> Held \cup Free \cup Masked]
      /\ state \in [Task -> {"RUNNING", "ZOMBIE"}]
  BY DEF SchedInv, TypeOK
<1>2. CASE scan
  <2>1. cpu' = cpu /\ state' = state /\ at'[cpu] \in {"recharge", "chosen"}
    BY <1>1, <1>2 DEF scan, Goto
  <2>2. at'[cpu] = "chosen" => IsChoice(next')
    BY <1>1, <1>2, Zenon DEF scan, Goto
  <2>3. \A t \in Task : IsChoice(t) => state[t] = "RUNNING"
    BY DEF IsChoice, Ready, Main
  <2>4. next' \in Task
    BY <1>1, <1>2 DEF scan
  <2> QED
    BY <2>1, <2>2, <2>3, <2>4 DEF ChosenRuns
<1>3. CASE switch_to
  BY <1>1, <1>3 DEF switch_to, At, Goto, ChosenRuns
<1>4. CASE cpu_switch_to
  <2>1. at'[cpu'] \in {"new", "resumed"}
    BY <1>1, <1>4 DEF cpu_switch_to, Goto, SchedInv, SwitchSafe, Parked
  <2> QED
    BY <2>1 DEF ChosenRuns
<1>5. CASE timer_tick
  BY <1>1, <1>5 DEF timer_tick, Goto, ChosenRuns
<1>6. CASE kernel_exit
  <2>1. below[cpu] \in Seq(Free) /\ below[cpu] # <<>>
    BY <1>1, <1>6 DEF kernel_exit, At, SchedInv, TypeOK, Interrupted
  <2>2. at'[cpu'] \in Free
    BY <1>1, <1>6, <2>1 DEF kernel_exit, Goto
  <2> QED
    BY <2>2 DEF ChosenRuns
<1>7. CASE copy_process
  BY <1>1, <1>7 DEF copy_process, At, ChosenRuns
<1>8. ASSUME NEW place, Goto(place), place \notin {"chosen", "switch"},
             UNCHANGED cpu
      PROVE  ChosenRuns'
  BY <1>1, <1>8 DEF Goto, ChosenRuns
<1> QED
  BY <1>2, <1>3, <1>4, <1>5, <1>6, <1>7, <1>8
  DEF Next, Step, Ask, Tick, Kernel, copy_process_enter, copy_process_leave,
      schedule_tail, ret_to_user, el0_svc, ret_from_syscall, exit_process,
      exit_zombie, exit_leave, schedule, _schedule_enter, recharge,
      _schedule_leave, timer_tick_open, timer_tick_close

LEMMA SpentStep ==
    ASSUME SchedInv, SpentStays, Next
    PROVE  SpentStays'
<1>1. /\ cpu \in Task /\ current \in Task
      /\ at \in [Task -> Held \cup Free \cup Masked]
      /\ counter \in [Task -> Int]
  BY DEF SchedInv, TypeOK
<1>2. CASE scan
  <2>1. cpu' = cpu /\ UNCHANGED <<state, counter, nr_tasks>>
    BY <1>2 DEF scan
  <2>2. at'[cpu] = "recharge" => Spent
    BY <1>1, <1>2, Zenon DEF scan, Goto
  <2>3. Spent => \A t \in Task : Exists(t) /\ state[t] = "RUNNING" => counter[t] <= 0
    BY <1>1 DEF Spent, Ready
  <2> QED
    BY <2>1, <2>2, <2>3 DEF SpentStays, Exists
<1>3. CASE cpu_switch_to
  <2>1. at'[cpu'] \in {"new", "resumed"}
    BY <1>1, <1>3 DEF cpu_switch_to, Goto, SchedInv, SwitchSafe, Parked
  <2> QED
    BY <2>1 DEF SpentStays
<1>4. CASE timer_tick
  <2>1. UNCHANGED <<cpu, state, nr_tasks>>
    BY <1>4 DEF timer_tick
  <2>2. at'[cpu] \in {at[cpu], "tick"}
    BY <1>1, <1>4 DEF timer_tick, Goto
  <2>3. \A t \in Task : counter'[t] \in {counter[t], counter[t] - 1, 0}
    BY <1>1, <1>4 DEF timer_tick
  <2> QED
    BY <1>1, <2>1, <2>2, <2>3 DEF SpentStays, Exists
<1>5. CASE kernel_exit
  <2>1. below[cpu] \in Seq(Free) /\ below[cpu] # <<>>
    BY <1>1, <1>5 DEF kernel_exit, At, SchedInv, TypeOK, Interrupted
  <2>2. at'[cpu'] \in Free
    BY <1>1, <1>5, <2>1 DEF kernel_exit, Goto
  <2> QED
    BY <2>2 DEF SpentStays
<1>6. CASE copy_process
  BY <1>1, <1>6 DEF copy_process, At, SpentStays
<1>7. ASSUME NEW place, Goto(place), place # "recharge", UNCHANGED cpu
      PROVE  SpentStays'
  BY <1>1, <1>7 DEF Goto, SpentStays
<1> QED
  BY <1>2, <1>3, <1>4, <1>5, <1>6, <1>7
  DEF Next, Step, Ask, Tick, Kernel, copy_process_enter, copy_process_leave,
      schedule_tail, ret_to_user, el0_svc, ret_from_syscall, exit_process,
      exit_zombie, exit_leave, schedule, _schedule_enter, recharge, switch_to,
      _schedule_leave, timer_tick_open, timer_tick_close

-----------------------------------------------------------------------------
THEOREM SliceInvariant == Spec => [](SchedInv /\ SliceInv)
<1>1. Init => SchedInv /\ SliceInv
  BY SchedInit, SliceInit
<1>2. SchedInv /\ SliceInv /\ [Next]_vars => (SchedInv /\ SliceInv)'
  <2> SUFFICES ASSUME SchedInv, SliceInv, [Next]_vars PROVE (SchedInv /\ SliceInv)'
    OBVIOUS
  <2>1. CASE Next
    BY <2>1, SchedStep, SliceStep, MainStep, ChosenStep, SpentStep DEF SliceInv
  <2>2. CASE UNCHANGED vars
    BY <2>2, SchedStep
    DEF vars, SliceInv, SliceBound, Main, ChosenRuns, SpentStays, Exists
  <2> QED
    BY <2>1, <2>2
<1> QED
  BY <1>1, <1>2, PTL DEF Spec

\* No counter reaches two slices, however long the system runs and although a
\* zombie's is recharged for ever (sched.c:43-46).
THEOREM SlicesAreBounded == Spec => []SliceBound
<1>1. SliceInv => SliceBound
  BY DEF SliceInv
<1> QED
  BY <1>1, SliceInvariant, PTL

\* A task that has exited never gets the CPU back (sched.c:33, 86-96).
THEOREM ZombiesStay == Spec => ZombieStays
<1>1. ASSUME SchedInv, SliceInv, [Next]_vars
      PROVE  [\A t \in Task : state[t] = "ZOMBIE" /\ cpu # t => cpu' # t]_vars
  <2>1. CASE cpu_switch_to
    BY <1>1, <2>1 DEF cpu_switch_to, At, SliceInv, ChosenRuns
  <2>2. CASE UNCHANGED cpu
    BY <2>2
  <2> QED
    BY <1>1, <2>1, <2>2
    DEF vars, Next, Step, Ask, Tick, Kernel, copy_process_enter, copy_process,
        copy_process_leave, schedule_tail, ret_to_user, el0_svc,
        ret_from_syscall, exit_process, exit_zombie, exit_leave, schedule,
        _schedule_enter, scan, recharge, switch_to, _schedule_leave,
        timer_tick, timer_tick_open, timer_tick_close, kernel_exit
<1> QED
  BY <1>1, SliceInvariant, PTL DEF Spec, ZombieStays

\* Slices are handed out only when no running task has any of its own left
\* (sched.c:31-46).
THEOREM RechargesWhenSpent == Spec => RechargeWhenSpent
<1>1. ASSUME SchedInv, SliceInv
      PROVE  [recharge => \A t \in Task :
                Exists(t) /\ state[t] = "RUNNING" => counter[t] <= 0]_vars
  BY <1>1 DEF recharge, At, SliceInv, SpentStays
<1> QED
  BY <1>1, SliceInvariant, PTL DEF Spec, RechargeWhenSpent
=============================================================================
