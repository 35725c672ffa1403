-------------------------------- MODULE Entry --------------------------------
(***************************************************************************)
(* How a user program enters the kernel and comes back (entry.S, irq.S):   *)
(* the registers of the CPU, the frames kernel_entry saves on the task's   *)
(* kernel stack, and interrupts wherever they are not masked.              *)
(*                                                                         *)
(* `pc' is where the CPU stands while the task has it:                     *)
(*   start, call, back         the program, before its first store to its  *)
(*                             stack, before an svc and after it           *)
(*   el0_sync, el_irq          a vector, before kernel_entry               *)
(*   el0_svc, sys, sys_done, store                   a system call         *)
(*   el0_da, mem_abort, mem_done                     a data abort          *)
(*   handle_irq, schedule, scheduled                 an interrupt          *)
(*   ret_to_user               the end of ret_from_fork                    *)
(*   kernel_exit, eret         the way out of all of them                  *)
(***************************************************************************)
EXTENDS Integers, Sequences

User   == {"start", "call", "back"}
Open   == {"sys", "sys_done", "mem_abort", "mem_done", "schedule", "scheduled",
           "ret_to_user"}
Closed == {"el0_sync", "el_irq", "el0_svc", "store", "el0_da", "handle_irq",
           "kernel_exit", "eret"}
Place  == User \cup Open \cup Closed

\* What a register holds: what the program passes to a call, what the call
\* gives back, or something else.
Value == {"arguments", "result", "other"}

VARIABLES
    pc,
    x0,            \* for all the registers of a call
    elr, spsr,     \* where an eret goes, and with interrupts enabled or not
    irq,           \* interrupts are enabled
    frames,        \* the pt_regs on the kernel stack, the last one on top
    mapped,        \* the page of the program's stack is there
    from           \* for the properties: where each exception was taken

cpu == <<pc, x0, elr, spsr, irq, frames, mapped, from>>

Top(s) == s[Len(s)]
Pop(s) == SubSeq(s, 1, Len(s) - 1)

Frame == [x0 : Value, elr : Place, spsr : BOOLEAN]

CpuTypeOK ==
    /\ pc \in Place
    /\ x0 \in Value
    /\ elr \in Place \cup {"elsewhere"}
    /\ spsr \in BOOLEAN
    /\ irq \in BOOLEAN
    /\ frames \in Seq(Frame)
    /\ mapped \in BOOLEAN
    /\ from \in Seq(Place)

\* A thread that has moved to user mode: move_to_user_mode has filled the
\* frame that is left at the bottom of its stack.
CpuInit ==
    /\ pc = "ret_to_user" /\ x0 = "other"
    /\ elr = "elsewhere" /\ spsr = TRUE /\ irq = TRUE
    /\ frames = <<[x0 |-> "other", elr |-> "start", spsr |-> TRUE]>>
    /\ mapped = FALSE
    /\ from = <<"start">>

-----------------------------------------------------------------------------
(* Exceptions.                                                             *)

Goto(source, target) == pc = source /\ pc' = target

\* What the CPU does.
Exception(vector, return) ==
    /\ pc' = vector
    /\ elr' = return /\ spsr' = irq /\ irq' = FALSE
    /\ from' = Append(from, return)
    /\ UNCHANGED <<x0, frames, mapped>>

data_abort == pc = "start" /\ ~mapped /\ Exception("el0_sync", "start")
svc        == pc = "call" /\ Exception("el0_sync", "back")
interrupt  == irq /\ Exception("el_irq", pc)

\* Slip: x0 is not saved.
kernel_entry_NoX0 ==
    /\ pc \in {"el0_sync", "el_irq"}
    /\ frames' = Append(frames, [x0 |-> "other", elr |-> elr, spsr |-> spsr])
    /\ pc' = IF pc = "el_irq" THEN "handle_irq"
             ELSE IF elr = "start" THEN "el0_da" ELSE "el0_svc"
    /\ UNCHANGED <<x0, elr, spsr, irq, mapped, from>>

\* Saves the registers; the exception class then tells an svc from an abort.
kernel_entry ==
    /\ pc \in {"el0_sync", "el_irq"}
    /\ frames' = Append(frames, [x0 |-> x0, elr |-> elr, spsr |-> spsr])
    /\ pc' = IF pc = "el_irq" THEN "handle_irq"
             ELSE IF elr = "start" THEN "el0_da" ELSE "el0_svc"
    /\ UNCHANGED <<x0, elr, spsr, irq, mapped, from>>

enable_irq ==
    /\ Goto("el0_svc", "sys") \/ Goto("el0_da", "mem_abort")
    /\ irq' = TRUE
    /\ UNCHANGED <<x0, elr, spsr, frames, mapped, from>>

\* A routine of the system call table.
sys ==
    /\ Goto("sys", "sys_done")
    /\ x0' = IF x0 = "arguments" THEN "result" ELSE "other"
    /\ UNCHANGED <<elr, spsr, irq, frames, mapped, from>>

\* Slip: the page is taken and never mapped.
do_mem_abort_NotMapped ==
    /\ Goto("mem_abort", "mem_done")
    /\ x0' = "other"
    /\ UNCHANGED <<elr, spsr, irq, frames, mapped, from>>

do_mem_abort ==
    /\ Goto("mem_abort", "mem_done")
    /\ mapped' = TRUE
    /\ x0' = "other"
    /\ UNCHANGED <<elr, spsr, irq, frames, from>>

\* The handler, which may find the time slice used up: timer_tick enables
\* interrupts and calls _schedule.
handle_irq ==
    /\ \/ Goto("handle_irq", "kernel_exit") /\ UNCHANGED irq
       \/ Goto("handle_irq", "schedule") /\ irq' = TRUE
    /\ x0' = "other"
    /\ UNCHANGED <<elr, spsr, frames, mapped, from>>

\* Other tasks have had the CPU, and have entered and left the kernel.
schedule ==
    /\ Goto("schedule", "scheduled")
    /\ elr' = "elsewhere"
    /\ UNCHANGED <<x0, spsr, irq, frames, mapped, from>>

\* Slip: a system call leaves with interrupts enabled.
disable_irq_NotAfterCall ==
    /\ \/ Goto("sys_done", "store") /\ UNCHANGED irq
       \/ Goto("mem_done", "kernel_exit") /\ irq' = FALSE
       \/ Goto("scheduled", "kernel_exit") /\ irq' = FALSE
       \/ Goto("ret_to_user", "kernel_exit") /\ irq' = FALSE
    /\ UNCHANGED <<x0, elr, spsr, frames, mapped, from>>

\* Each way out masks interrupts before it goes on.
disable_irq ==
    /\ \/ Goto("sys_done", "store")
       \/ Goto("mem_done", "kernel_exit")
       \/ Goto("scheduled", "kernel_exit")
       \/ Goto("ret_to_user", "kernel_exit")
    /\ irq' = FALSE
    /\ UNCHANGED <<x0, elr, spsr, frames, mapped, from>>

\* The result goes into the frame, from where kernel_exit loads x0.
store ==
    /\ Goto("store", "kernel_exit")
    /\ frames' = [frames EXCEPT ![Len(frames)].x0 = x0]
    /\ UNCHANGED <<x0, elr, spsr, irq, mapped, from>>

kernel_exit ==
    /\ Goto("kernel_exit", "eret")
    /\ x0' = Top(frames).x0
    /\ elr' = Top(frames).elr
    /\ spsr' = Top(frames).spsr
    /\ frames' = Pop(frames)
    /\ UNCHANGED <<irq, mapped, from>>

eret ==
    /\ pc = "eret"
    /\ pc' = elr
    /\ irq' = spsr
    /\ from' = Pop(from)
    /\ UNCHANGED <<x0, elr, spsr, frames, mapped>>

-----------------------------------------------------------------------------
\* The program goes on: it prepares its next call.
proceed ==
    /\ \/ pc = "start" /\ mapped
       \/ pc = "back"
    /\ pc' = "call"
    /\ x0' = "arguments"
    /\ UNCHANGED <<elr, spsr, irq, frames, mapped, from>>

\* The steps in which only the CPU takes part, and all of them.
Machine ==
    \/ data_abort \/ svc \/ kernel_entry \/ enable_irq
    \/ do_mem_abort \/ handle_irq \/ schedule \/ disable_irq
    \/ store \/ kernel_exit \/ eret

CpuNext == Machine \/ interrupt \/ sys \/ proceed

CpuSpec == CpuInit /\ [][CpuNext]_cpu

-----------------------------------------------------------------------------
\* Every eret goes back to where its exception was taken, with interrupts
\* enabled: no interrupt can come between the load of elr_el1 and the eret
\* that uses it, and none that is nested or switches to other tasks leaves
\* elr_el1 or the mask to an outer one (entry.S:51-78, 108-160, 207-209).
ReturnsHome ==
    [][eret => pc' = Top(from) /\ irq']_cpu

\* A call finds what its caller passed, and its caller what the call gave
\* back, whatever comes in between (entry.S:20-35, 62-76, 147).
RegistersKept ==
    /\ pc = "sys" => x0 = "arguments"
    /\ pc \in {"sys_done", "back"} => x0 = "result"
=============================================================================
