------------------------------- MODULE MmSpaces -------------------------------
(***************************************************************************)
(* What Mm has to get right: every page has one user and every user its    *)
(* page, and each task its own address space, as AddressSpaces has it.     *)
(***************************************************************************)
EXTENDS Mm

\* All that takes page p for its own: the inodes, a task_struct, an entry of
\* kernel_pages or user_pages, or a call that has yet to map it.
Inodes(p)  == {<<"inode", 0, 0>> : q \in {p} \cap 1 .. FS_NPAGES}
Structs(p) == {<<"struct", t, 0>> : t \in {t \in Slot : struct[t] = p}}
Calls(p)   == {<<"call", t, 0>> : t \in {t \in Task : call[t].page = p}}

Tables(p) ==
    UNION {{<<"table", t, k>> : k \in {k \in 1 .. Len(kernel_pages[t]) :
                                         kernel_pages[t][k] = p}} : t \in Slot}

UserPages(p) ==
    UNION {{<<"user", t, k>> : k \in {k \in 1 .. Len(user_pages[t]) :
                                        user_pages[t][k].phys = p}} : t \in Slot}

Users(p) == Inodes(p) \cup Structs(p) \cup Calls(p) \cup Tables(p) \cup UserPages(p)

\* No page is lost and none is used twice: one that get_free_page has handed
\* out is listed once, by the task it was taken for, wherever the allocation
\* stopped, and the others nowhere.  It is the race of get_free_page, or a
\* table at a null address, that ends this (mm.c:26-37, 87-127, sched.h:53-54).
PagesAccounted ==
    wild \/ \A p \in Page :
              Cardinality(Users(p)) = IF p \in mem_map THEN 1 ELSE 0

\* How far the lists of a task go, which nothing compares with the arrays of
\* MAX_PROCESS_PAGES they are kept in: ind, which is to end the faults after
\* the first, is counted by all tasks at once, and each store of a count that
\* is out of date lets every task have one fault more.  The arrays of 16, of
\* which kernel_pages does not use the first, are enough for three tasks
\* (sched.h:51-54, mm.c:91-108, 113, 139-142).
ListsBounded ==
    \A t \in Slot : /\ Len(user_pages[t]) <= nr_tasks + 1
                    /\ Len(kernel_pages[t]) <= 3 * nr_tasks + 4

\* mm.c:71: "next level pgtable absent", so map_table is to allocate "a new
\* page & install" it; mm.c:97: "we've allocated a new kernel page. take it
\* into account for future reclaim".  A page two tasks have in kernel_pages was
\* not new to one of them, and would be reclaimed twice.
TablesAreNew ==
    \A t, u \in Slot : t # u =>
        \A k \in 1 .. Len(kernel_pages[t]), l \in 1 .. Len(kernel_pages[u]) :
            kernel_pages[t][k] # kernel_pages[u][l]

-----------------------------------------------------------------------------
Spaces == INSTANCE AddressSpaces WITH
    Va      <- Touched,
    running <- current,
    full    <- mem_map = Page,
    lost    <- wild,
    mem     <- [t \in Task |-> [va \in Touched |->
                   IF t < nr_tasks /\ Translate(pgd[t], va) # 0
                   THEN word[Translate(pgd[t], va)]
                   ELSE -1]],
    Unmapped <- -1

\* Each task finds in its memory what it left there, a first touch finds
\* zeroes, a child what its parent had at the fork, all of it if memory lasts,
\* and no step of one task shows in another's memory (fork.c:23-27, 49-62,
\* mm.c:117-146, sched.c:65).
SpacesSpec == Spaces!Spec
=============================================================================
