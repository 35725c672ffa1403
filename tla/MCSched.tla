------------------------------- MODULE MCSched -------------------------------
(***************************************************************************)
(* A small instance of Sched: the two kernel threads of kernel.c beside    *)
(* kernel_main; slices of up to three ticks; Interval steps or more        *)
(* between two ticks, which may come up to Late times while a task has     *)
(* preemption disabled.                                                    *)
(***************************************************************************)
EXTENDS Sched
=============================================================================
