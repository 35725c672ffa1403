---------------------------------- MODULE Mm ----------------------------------
(***************************************************************************)
(* The memory of the tasks: the map of free pages, the page tables of each *)
(* task, the copy fork makes, the page faults of user programs (mm.c,      *)
(* fork.c), and the switch from one address space to another (sched.c).    *)
(*                                                                         *)
(* Physical pages are numbered from 1 in the order of mem_map, and 0 is    *)
(* the null address.  A virtual page counts the pages below it.  The words *)
(* of a page that is not a table are abstracted to one, and the user       *)
(* program, which fits in a page, to the word PROGRAM.                     *)
(*                                                                         *)
(* The task `current' takes all the steps; call[t] is what task t is doing *)
(* in the kernel, and a switch may come between any two steps unless       *)
(* copy_process holds the CPU.                                             *)
(***************************************************************************)
EXTENDS Integers, Sequences, FiniteSets

CONSTANTS
    NR_TASKS,           \* slots of the task table
    PAGING_PAGES,       \* pages of memory
    FS_NPAGES,          \* pages init_fs takes of them
    PTRS_PER_TABLE,     \* entries of a page table
    Touched             \* virtual pages the user programs use

\* The pages that an entry of each level leads to, from the PGD down.
Span == LET P == PTRS_PER_TABLE IN <<P * P * P, P * P, P, 1>>

Va == 0 .. PTRS_PER_TABLE * Span[1] - 1

ASSUME MemoryAssumption ==
    /\ NR_TASKS \in Nat \ {0}
    /\ PAGING_PAGES \in Nat
    /\ FS_NPAGES \in 0 .. PAGING_PAGES
    /\ PTRS_PER_TABLE \in Nat \ {0}
    /\ Touched \subseteq Va

Task    == 0 .. NR_TASKS - 1
Slot    == 0 .. NR_TASKS        \* and the task copy_process is filling
Page    == 1 .. PAGING_PAGES
Address == 0 .. PAGING_PAGES
Index   == 0 .. PTRS_PER_TABLE - 1

INIT_TASK == 0
ZERO      == 0       \* what memzero leaves in a word
PROGRAM   == 1
WRITTEN   == 2       \* what a user program stores
Word      == {ZERO, PROGRAM, WRITTEN}

\* What a page is taken for: a task_struct, a page of the user, or the table
\* of one of the four levels, from the PGD down.
Level == 1 .. 4
Want  == {-1, 0} \cup Level
STRUCT == -1
USER   == 0

VARIABLES
    mem_map,        \* the pages that are taken
    table,          \* the entries of a page, as a table
    word,           \* its word, as anything else
    nr_tasks, current,
    struct,         \* the page of each task_struct
    pgd, kernel_pages, user_pages,     \* its mm
    ttbr0,          \* the PGD the MMU walks for user addresses
    ind,            \* what do_mem_abort counts
    at,             \* where each task stands
    call,           \* the call it makes there
    held,           \* and whether that call has disabled preemption
    wild            \* the kernel overwrites memory that is not its own

memory == <<mem_map, table, word>>
mm     == <<pgd, kernel_pages, user_pages>>
vars   == <<memory, mm, nr_tasks, current, struct, ttbr0, ind, at, call, held,
            wild>>

\* The variables of a call: what it is, what page it needs next, the page
\* get_free_page has found, the page that waits to be mapped and where, the
\* pages of the parent already copied, and the value read from ind.
Call == [op : {"none", "kthread", "fork", "load", "fault"}, want : Want,
         found : Address, page : Address, va : Va,
         copied : Nat, seen : Nat]

NoCall == [op |-> "none", want |-> USER, found |-> 0, page |-> 0, va |-> 0,
           copied |-> 0, seen |-> 0]

TypeOK ==
    /\ mem_map \subseteq Page
    /\ table \in [Page -> [Index -> Address]]
    /\ word \in [Page -> Word]
    /\ nr_tasks \in 1 .. NR_TASKS
    /\ current \in Task
    /\ struct \in [Slot -> Address]
    /\ pgd \in [Slot -> Address]
    /\ kernel_pages \in [Slot -> Seq(Page)]
    /\ user_pages \in [Slot -> Seq([phys : Page, virt : Va])]
    /\ ttbr0 \in Address
    /\ ind \in Nat
    /\ at \in [Task -> {"boot", "loop", "thread", "user", "find", "claim",
                        "map", "next", "seen", "count", "check", "hung"}]
    /\ call \in [Task -> Call]
    /\ held \in [Task -> BOOLEAN]
    /\ wild \in BOOLEAN

\* kernel_main before it starts its thread.
Init ==
    /\ mem_map = 1 .. FS_NPAGES
    /\ table = [p \in Page |-> [i \in Index |-> 0]]
    /\ word = [p \in Page |-> ZERO]
    /\ nr_tasks = 1 /\ current = INIT_TASK
    /\ struct = [t \in Slot |-> 0]
    /\ pgd = [t \in Slot |-> 0]
    /\ kernel_pages = [t \in Slot |-> <<>>]
    /\ user_pages = [t \in Slot |-> <<>>]
    /\ ttbr0 = 0 /\ ind = 1
    /\ at = [t \in Task |-> IF t = INIT_TASK THEN "boot" ELSE "thread"]
    /\ call = [t \in Task |-> NoCall]
    /\ held = [t \in Task |-> FALSE]
    /\ wild = FALSE

-----------------------------------------------------------------------------
(* Page tables.                                                            *)

IndexOf(va, level) == (va \div Span[level]) % PTRS_PER_TABLE

\* What the table of a level has for va; 0 if there is no table.
Entry(dir, va, level) ==
    IF dir = 0 THEN 0 ELSE table[dir][IndexOf(va, level)]

\* The table of each level on the way to va, and the page it leads to as a
\* fifth; 0 from where the way ends.
Walk(dir, va) ==
    LET pud == Entry(dir, va, 1)
        pmd == Entry(pud, va, 2)
        pte == Entry(pmd, va, 3)
    IN  <<dir, pud, pmd, pte, Entry(pte, va, 4)>>

Translate(dir, va) == Walk(dir, va)[5]

\* The levels at which map_page still has to allocate a table.
Absent(dir, va) == {k \in Level : Walk(dir, va)[k] = 0}

-----------------------------------------------------------------------------
(* A call in the kernel.                                                   *)

me   == call[current]
At(place)   == at[current] = place /\ ~wild
Goto(place) == at' = [at EXCEPT ![current] = place]
Set(c)      == call' = [call EXCEPT ![current] = c]

\* Where a call that ends leaves its task.
Return(place) == Goto(place) /\ Set(NoCall)

\* The task whose memory the call works on: fork fills the next task_struct.
dst == IF me.op = "fork" THEN nr_tasks ELSE current

GoWild == wild' = TRUE /\ UNCHANGED <<at, call>>

copy_process(op) ==
    /\ Set([NoCall EXCEPT !.op = op, !.want = STRUCT])
    /\ held' = [held EXCEPT ![current] = TRUE]
    /\ Goto("find")
    /\ UNCHANGED <<memory, mm, nr_tasks, current, struct, ttbr0, ind, wild>>

\* kernel_main starts kernel_process.
kernel_main == At("boot") /\ copy_process("kthread")

sys_fork == At("user") /\ copy_process("fork")

\* kernel_process, with the page of the program to be mapped at 0.
move_to_user_mode ==
    /\ At("thread")
    /\ Set([NoCall EXCEPT !.op = "load"])
    /\ Goto("find")
    /\ UNCHANGED <<memory, mm, nr_tasks, current, struct, ttbr0, ind, held, wild>>

\* The user program touches a page that is not mapped.
do_mem_abort(va) ==
    /\ At("user")
    /\ Translate(ttbr0, va) = 0
    /\ Set([NoCall EXCEPT !.op = "fault", !.va = va])
    /\ Goto("find")
    /\ UNCHANGED <<memory, mm, nr_tasks, current, struct, ttbr0, ind, held, wild>>

\* Any other data abort of a user program.
do_mem_abort_other ==
    /\ At("user")
    /\ Return("hung")
    /\ UNCHANGED <<memory, mm, nr_tasks, current, struct, ttbr0, ind, held, wild>>

-----------------------------------------------------------------------------
(* get_free_page, which may lose the CPU between the test of an entry of   *)
(* mem_map and its assignment, and what each caller does with the page.    *)

get_free_page_find ==
    /\ At("find")
    /\ \E p \in Page \ mem_map :
          /\ \A q \in Page \ mem_map : p <= q
          /\ Set([me EXCEPT !.found = p])
    /\ Goto("claim")
    /\ UNCHANGED <<memory, mm, nr_tasks, current, struct, ttbr0, ind, held, wild>>

\* No page is left.  A task that cannot be started leaves preemption disabled;
\* kernel_main then returns, to nowhere.  A fork goes on with the pages it has
\* copied.  Nobody looks at what map_page gets for a table, and the thread
\* whose program cannot be mapped goes to user mode all the same.
get_free_page_none ==
    /\ At("find") /\ mem_map = Page
    /\ \/ /\ me.want = STRUCT /\ me.op = "fork"
          /\ Return("user") /\ UNCHANGED wild
       \/ /\ me.want = USER /\ me.op = "fork"
          /\ Goto("next") /\ Set([me EXCEPT !.copied = Len(user_pages[current])])
          /\ UNCHANGED wild
       \/ /\ me.want \in Level \/ me.op \in {"kthread", "load"}
          /\ GoWild
    /\ UNCHANGED <<memory, mm, nr_tasks, current, struct, ttbr0, ind, held>>

\* Slip: a fault goes on with the page it did not get.
do_mem_abort_none_Unchecked ==
    /\ At("find") /\ mem_map = Page
    /\ me.want = USER /\ me.op = "fault"
    /\ Goto("map")
    /\ UNCHANGED <<memory, mm, nr_tasks, current, struct, ttbr0, ind, call, held,
                   wild>>

\* A fault looks whether it has got a page, and is not served.
do_mem_abort_none ==
    /\ At("find") /\ mem_map = Page
    /\ me.want = USER /\ me.op = "fault"
    /\ Return("hung")
    /\ UNCHANGED <<memory, mm, nr_tasks, current, struct, ttbr0, ind, held, wild>>

\* The page is marked and cleared, and goes where it was wanted.
ClearedTable(p) == [table EXCEPT ![p] = [i \in Index |-> 0]]

take_struct(p) ==
    /\ me.want = STRUCT
    /\ table' = ClearedTable(p)
    /\ struct' = [struct EXCEPT ![nr_tasks] = p]
    /\ Goto("next") /\ Set([me EXCEPT !.found = 0])
    /\ UNCHANGED mm

take_user(p) ==
    /\ me.want = USER
    /\ table' = ClearedTable(p)
    /\ Goto("map") /\ Set([me EXCEPT !.found = 0, !.page = p])
    /\ UNCHANGED <<mm, struct>>

\* Slip: the tables below the PGD are not listed.
take_table_PgdOnly(p) ==
    /\ me.want \in Level
    /\ IF me.want = 1
       THEN /\ pgd' = [pgd EXCEPT ![dst] = p]
            /\ kernel_pages' = [kernel_pages EXCEPT ![dst] = Append(@, p)]
            /\ table' = ClearedTable(p)
       ELSE LET parent == Walk(pgd[dst], me.va)[me.want - 1]
            IN  /\ table' = [ClearedTable(p) EXCEPT
                                ![parent][IndexOf(me.va, me.want - 1)] = p]
                /\ UNCHANGED <<pgd, kernel_pages>>
    /\ Goto("map") /\ Set([me EXCEPT !.found = 0])
    /\ UNCHANGED <<user_pages, struct>>

\* map_page and map_table.
take_table(p) ==
    /\ me.want \in Level
    /\ IF me.want = 1
       THEN /\ pgd' = [pgd EXCEPT ![dst] = p]
            /\ table' = ClearedTable(p)
       ELSE LET parent == Walk(pgd[dst], me.va)[me.want - 1]
            IN  /\ table' = [ClearedTable(p) EXCEPT
                                ![parent][IndexOf(me.va, me.want - 1)] = p]
                /\ UNCHANGED pgd
    /\ kernel_pages' = [kernel_pages EXCEPT ![dst] = Append(@, p)]
    /\ Goto("map") /\ Set([me EXCEPT !.found = 0])
    /\ UNCHANGED <<user_pages, struct>>

\* An entry that another task has set since it was found is set again, and
\* the page has two users: what becomes of it is left open.
get_free_page_claim ==
    /\ At("claim")
    /\ mem_map' = mem_map \cup {me.found}
    /\ word' = [word EXCEPT ![me.found] = ZERO]
    /\ take_struct(me.found) \/ take_user(me.found) \/ take_table(me.found)
    /\ wild' = (me.found \in mem_map)
    /\ UNCHANGED <<nr_tasks, current, ttbr0, ind, held>>

-----------------------------------------------------------------------------
(* map_page, and what its callers do next.                                 *)

\* The next table that is missing.
map_page_table ==
    /\ At("map")
    /\ \E k \in Absent(pgd[dst], me.va) :
          /\ \A l \in Absent(pgd[dst], me.va) : k <= l
          /\ Set([me EXCEPT !.want = k])
    /\ Goto("find")
    /\ UNCHANGED <<memory, mm, nr_tasks, current, struct, ttbr0, ind, held, wild>>

\* map_table_entry, when no table is.
map_page_entry(op) ==
    /\ At("map") /\ me.op = op
    /\ Absent(pgd[dst], me.va) = {}
    /\ table' = [table EXCEPT
          ![Walk(pgd[dst], me.va)[4]][IndexOf(me.va, 4)] = me.page]
    /\ user_pages' = [user_pages EXCEPT
          ![dst] = Append(@, [phys |-> me.page, virt |-> me.va])]
    /\ UNCHANGED <<mem_map, pgd, kernel_pages, nr_tasks, current, struct, ind,
                   held, wild>>

\* move_to_user_mode copies the program and switches to its tables.
map_page_load ==
    /\ map_page_entry("load")
    /\ word' = [word EXCEPT ![me.page] = PROGRAM]
    /\ ttbr0' = pgd[current]
    /\ Return("user")

\* copy_virt_memory copies a page, which it reads where the parent has it.
map_page_copy ==
    /\ map_page_entry("fork")
    /\ word' = [word EXCEPT ![me.page] = word[Translate(ttbr0, me.va)]]
    /\ Goto("next")
    /\ Set([me EXCEPT !.copied = @ + 1, !.page = 0])
    /\ UNCHANGED ttbr0

map_page_fault ==
    /\ map_page_entry("fault")
    /\ Goto("seen")
    /\ Set([me EXCEPT !.page = 0])
    /\ UNCHANGED <<word, ttbr0>>

copy_virt_memory ==
    /\ At("next") /\ me.op = "fork" /\ me.copied < Len(user_pages[current])
    /\ Set([me EXCEPT !.want = USER, !.va = user_pages[current][me.copied + 1].virt])
    /\ Goto("find")
    /\ UNCHANGED <<memory, mm, nr_tasks, current, struct, ttbr0, ind, held, wild>>

\* The end of copy_process, which does not compare nr_tasks with NR_TASKS.
copy_process_end ==
    /\ At("next")
    /\ me.op = "kthread" \/ me.copied >= Len(user_pages[current])
    /\ IF nr_tasks = NR_TASKS
       THEN GoWild /\ UNCHANGED <<nr_tasks, held>>
       ELSE /\ nr_tasks' = nr_tasks + 1
            /\ at' = IF me.op = "fork"
                     THEN [at EXCEPT ![nr_tasks] = "user", ![current] = "user"]
                     ELSE [at EXCEPT ![nr_tasks] = "thread", ![current] = "loop"]
            /\ Set(NoCall)
            /\ held' = [held EXCEPT ![current] = FALSE]
            /\ UNCHANGED wild
    /\ UNCHANGED <<memory, mm, current, struct, ttbr0, ind>>

\* ind++, which is a load and a store, and the comparison after it.
do_mem_abort_load ==
    /\ At("seen")
    /\ Set([me EXCEPT !.seen = ind])
    /\ Goto("count")
    /\ UNCHANGED <<memory, mm, nr_tasks, current, struct, ttbr0, ind, held, wild>>

do_mem_abort_store ==
    /\ At("count")
    /\ ind' = me.seen + 1
    /\ Goto("check")
    /\ UNCHANGED <<memory, mm, nr_tasks, current, struct, ttbr0, call, held, wild>>

\* Slip: any number of faults is served.
do_mem_abort_end_NoLimit ==
    /\ At("check")
    /\ Return("user")
    /\ UNCHANGED <<memory, mm, nr_tasks, current, struct, ttbr0, ind, held, wild>>

do_mem_abort_end ==
    /\ At("check")
    /\ IF ind > 2 THEN Return("hung") ELSE Return("user")
    /\ UNCHANGED <<memory, mm, nr_tasks, current, struct, ttbr0, ind, held, wild>>

-----------------------------------------------------------------------------
(* The tasks.                                                              *)

\* Slip: the address space stays that of the task before.
switch_to_KeepsPgd(t) ==
    /\ ~wild /\ ~held[current]
    /\ t < nr_tasks /\ t # current
    /\ current' = t
    /\ UNCHANGED <<memory, mm, nr_tasks, struct, ttbr0, ind, at, call, held, wild>>

\* Whenever the scheduler likes, for any task it may choose.
switch_to(t) ==
    /\ ~wild /\ ~held[current]
    /\ t < nr_tasks /\ t # current
    /\ current' = t
    /\ ttbr0' = pgd[t]
    /\ UNCHANGED <<memory, mm, nr_tasks, struct, ind, at, call, held, wild>>

\* The user program writes to a page that is mapped.
store(va) ==
    /\ At("user")
    /\ Translate(ttbr0, va) # 0
    /\ word' = [word EXCEPT ![Translate(ttbr0, va)] = WRITTEN]
    /\ UNCHANGED <<mem_map, table, mm, nr_tasks, current, struct, ttbr0, ind, at,
                   call, held, wild>>

\* The kernel is lost, or no other task can get the CPU from one in err_hang.
err_hang ==
    /\ wild \/ (at[current] = "hung" /\ held[current])
    /\ UNCHANGED vars

Next ==
    \/ kernel_main \/ sys_fork \/ copy_virt_memory \/ copy_process_end
    \/ move_to_user_mode
    \/ \E va \in Touched : do_mem_abort(va) \/ store(va)
    \/ do_mem_abort_other \/ do_mem_abort_none
    \/ do_mem_abort_load \/ do_mem_abort_store \/ do_mem_abort_end
    \/ get_free_page_find \/ get_free_page_none \/ get_free_page_claim
    \/ map_page_table \/ map_page_load \/ map_page_copy \/ map_page_fault
    \/ \E t \in Task : switch_to(t)
    \/ err_hang

Spec == Init /\ [][Next]_vars
=============================================================================
