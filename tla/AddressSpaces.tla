----------------------------- MODULE AddressSpaces -----------------------------
(***************************************************************************)
(* What the memory management promises the tasks: each has an address      *)
(* space of its own, which only its own calls and stores change, until the *)
(* kernel loses track of its pages.                                        *)
(***************************************************************************)
CONSTANTS Task, Va, ZERO, PROGRAM, WRITTEN, Unmapped

VARIABLES
    running,  \* the task that has the CPU
    mem,      \* what each task finds at each of its pages
    full,     \* no page of memory is left
    lost      \* the kernel has lost track

vars == <<running, mem, full, lost>>

Mapped(t) == {va \in Va : mem[t][va] # Unmapped}

Init ==
    /\ mem = [t \in Task |-> [va \in Va |-> Unmapped]]
    /\ lost = FALSE
    /\ full \in BOOLEAN
    /\ running \in Task

\* A thread becomes a process with the user program at 0.
Load(t) ==
    /\ Mapped(t) = {}
    /\ mem' = [mem EXCEPT ![t][0] = PROGRAM]

\* A page that was touched for the first time is there, and empty.
Fault(t, va) ==
    /\ va \notin Mapped(t)
    /\ mem' = [mem EXCEPT ![t][va] = ZERO]

Store(t, va) ==
    /\ va \in Mapped(t)
    /\ mem' = [mem EXCEPT ![t][va] = WRITTEN]

\* The child gets a copy of its parent's pages: of all of them, unless memory
\* is short.
Fork(parent, child) ==
    /\ Mapped(child) = {}
    /\ \E copied \in SUBSET Mapped(parent) :
          /\ full \/ copied = Mapped(parent)
          /\ mem' = [mem EXCEPT ![child] =
                    [va \in Va |-> IF va \in copied THEN mem[parent][va]
                                   ELSE Unmapped]]

Next ==
    \/ lost'
    \/ /\ ~lost /\ ~lost'
       /\ full => full'
       /\ \/ UNCHANGED mem
          \/ /\ UNCHANGED running
             /\ \/ Load(running)
                \/ \E va \in Va : Fault(running, va) \/ Store(running, va)
                \/ \E child \in Task : Fork(running, child)

Spec == Init /\ [][Next]_vars
=============================================================================
