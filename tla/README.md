# Verification of the RAM file system kernel

The repository is a bare-metal kernel for the Raspberry Pi 3 (`src/src/filesystem`, C and AArch64
assembly, run on QEMU) to which its authors have added a RAM file system and a virtual file system
(VFS) with twelve system calls. This directory holds TLA+ models of the kernel, the TLC runs that
check them, and TLAPS proofs. Paths below are relative to `src/src/filesystem/`.

## 1. The system

| part | state | operations | talks to |
|---|---|---|---|
| **VFS** (`src/vfs.c`) | `open_inodes`: per descriptor the inode, an offset `next`, a cursor `next_son` | create, delete, open and close of files and folders; read, write, append; list | RAM FS by direct calls; called from the system call table |
| **RAM FS** (`src/filesystem.c`) | `RAM_inodes_table`: type, name, the links `father`, `brother`, `first_son`, `size`, `ref`, and one page of data per inode | `init_fs`, `alloc_inode`, `free_inode`, `reset_inode`, `write_inode`, `read_inode` | page allocator, at boot only |
| **Scheduler** (`src/sched.c`, `src/sched.S`) | `task[]`, `nr_tasks`, `current`; per task `state`, `counter`, `priority`, `preempt_count`, saved context | `_schedule`, `switch_to`, `schedule_tail`, `timer_tick`, `exit_process` | timer interrupt, `fork.c`, address spaces |
| **Memory** (`src/mm.c`) | `mem_map`; per task `pgd`, `kernel_pages`, `user_pages`; the page tables; `ttbr0` | `get_free_page`, `map_page`, `copy_virt_memory`, `do_mem_abort` | `fork.c`, `switch_to`, data aborts |
| **Processes** (`src/fork.c`, `src/kernel.c`) | the `task_struct` pages | `copy_process`, `move_to_user_mode`, `kernel_main` | scheduler and memory |
| **Entry** (`src/entry.S`, `src/irq.S`, `src/irq.c`) | registers, interrupt mask, the `pt_regs` frames on the kernel stack | `kernel_entry`, `kernel_exit`, `el0_svc`, `el0_da`, `el0_irq`, `el1_irq`, `ret_from_fork`, `err_hang` | everything above |
| **Timer** (`src/timer.c`, `src/irq.c`) | counter, compare register and match of the system timer, `curVal`, the enabled channels | `timer_init`, `enable_interrupt_controller`, `handle_irq`, `handle_timer_irq` | `timer_tick` |
| **Boot** (`src/boot.S`) | the tables `idmap_dir` and `pg_dir` | `__create_idmap`, `__create_page_tables` | the MMU |
| **System calls** (`src/user_sys.S`, `src/sys.c`) | numbers, `sys_call_table` | stubs and wrappers | VFS, `copy_process`, `exit_process` |
| **User program** (`src/user.c`) | its stack, `fd` | a script of VFS calls | system calls |
| **Console** (`src/printf.c`, `src/mini_uart.c`, `src/string.c`) | device registers | output | |

What is hard here:

* The inode table is threaded by three kinds of links that no operation re-initialises as a whole.
  `alloc_inode` resets neither `brother` nor `first_son`, `delete_inode` unhooks sons before it
  frees them, and inodes are used again. An error shows many calls later.
* Descriptors and listing cursors are raw pointers into that table, and deleting looks at neither.
* Lengths are `unsigned` in the calls and `int` below them; `read_inode` compares with the number of
  pages where it means the size of one; `memcpy` moves eight bytes at a time.
* `_schedule` can be interrupted nearly anywhere. `preempt_count` is raised by one task and lowered by
  another; `current` changes before the stack does; `timer_tick` opens interrupts in its handler.
* Page faults run preemptible, with `mem_map` shared by all tasks and no lock.
* The system timer is set again from the last compare value, not from the clock, which wraps at 32 bits;
  the match it raises is acknowledged after that, and one may be waiting from before boot.
* `elr_el1`, `spsr_el1` and the registers of a call are shared by everything that enters the kernel; what
  belongs to whom is a matter of the order of the frames and of the mask. Numbers, table and wrappers of the
  system calls are kept alike by hand.
* Tables are full of limits (`NR_TASKS`, `MAX_PROCESS_PAGES`, `FS_NPAGES`, `MAX_OPEN_FILES`), some of
  which nobody compares with.

What makes each part correct:

* *VFS and RAM FS*: the links form one tree of disjoint lists; nothing in use is unreachable; each call
  does to tree, files and descriptors what its header says; no byte reaches another file; a listing is
  complete.
* *Scheduler*: no switch on a foreign stack, preemption balanced, interrupts never left masked, slices
  bounded, zombies gone for good, everyone served.
* *Memory*: each page has one user, lists stay in their arrays, address spaces are separate.
* *Entry*: each `eret` goes back to where its exception was taken; a call gets what was passed and gives back
  its result.
* *Timer*: no tick is lost, none comes twice, no other channel is mistaken for it.
* *User program*: it gets the answers its author means it to show, leaves nothing open, and ends.
* *Boot*: once the MMU is on, every address leads where it should and nothing else leads anywhere.

## 2. Modules

| module | what it is |
|---|---|
| `Vfs` | VFS and RAM FS: one action per call, whole call at a time |
| `FileStore` | the abstract specification: a tree with *sequences* of sons, files with *sequences* of bytes |
| `VfsStore` | `Vfs` implements `FileStore` (refinement mapping) |
| `VfsHistory` | `Vfs` with history variables of each listing |
| `MCVfs`, `MCVfsHistory` | instances for TLC: paths, strings, symmetry, views |
| `VfsProofs` | types, reads, reference counts and the tree of inodes, for every size |
| `VfsListProofs` | what the lists are to a caller: complete listings, and the refinement of `FileStore`, for every size |
| `Sched` | scheduler, thread start, exit and the timer interrupt, an interrupt possible between any two steps |
| `MCSched` | an instance for TLC |
| `SchedProofs` | types, safe switches, interrupt mask; slices, zombies, recharging |
| `Mm` | pages, page tables, fork, page faults, address space switch, a task switch possible between any two steps |
| `AddressSpaces` | the abstract specification: a private memory per task |
| `MmSpaces` | `Mm` implements `AddressSpaces`; ownership of pages |
| `MmProofs` | types, ownership and the refinement, for every number of pages, tasks and entries |
| `Timer` | the system timer, its match and its handler, the clock advancing between any two steps |
| `TimerProofs` | ticks in time and apart, for every width of the clock |
| `Entry` | registers and frames from the vector to the `eret`, an interrupt wherever none is masked |
| `EntryProofs` | registers and returns, for interrupts nested to any depth |
| `UserProgram` | `Entry` and `Vfs` composed: the script of `user.c` through the system calls |
| `MCUserProgram` | an instance for TLC |
| `UserProofs` | the program's types, that it runs on the CPU of `Entry`, what it prints and what it leaves, for every size of the tables |
| `Boot` | the page tables of `boot.S`, entry by entry |
| `BootProofs` | the tables, for every number of entries and sections |

### Vfs

A pointer to an inode is its number and a null pointer `NULL`. Each field of `struct inode` is a
function on `Inode`; `data` is what lies behind `data_block`. `fd_inode`, `fd_next` and `fd_next_son`
are the fields of `open_inodes`. `reply` is what the caller gets: the code, the descriptor or the name
written through its pointers, the count and the bytes stored in its buffer.

An action is a call: `create_file(path, nm)` and so on, with the error paths of the code in the
code's order (`Refuse`, `RefuseFd`, `RefuseData`, `NoFdLeft`, `NullPointer`). `alloc_inode`,
`Unhook`, `free_inode`, `Subtree`, `write_inode` and `SizeToRead` are the functions of
`filesystem.c`. `delete_inode` is a recursion in C; the model frees the whole `Subtree` in one step
and leaves in each freed inode what `free_inode` leaves there, the reset `ref` included. A path is the
sequence of what stands between its slashes: that is what `get_path_first_token` and `parse_path` tell
apart, the empty token, the token over 16 bytes and the missing leading slash included.

Behaviours the model keeps although they look like slips: twins of one name are allowed and the elder
is found; a data block is not cleared when its inode is used again; `FS_NPAGES` stands where a size is
meant in `read_inode`, so that a request for that many bytes or more is answered with `FS_NPAGES` bytes
whatever the file's size; deleting a folder or a file leaves descriptors and cursors on its inode, which
lead to the next file created in it, and a listing whose current son is deleted gives a name that is no
longer there; deleting `"/"` empties the tree and then faults, and the kernel stays in `err_hang`
(`halted`). `FileStore` states them too, so that a reader sees what the store does not promise: `List`
gives the label of the cursor, `Delete` of the root stops the system, and a read of `Limit` bytes or
more promises nothing about its bytes. A step of `FileStore` does not carry the name of the call, so it tells a
write from an append only by what becomes of the bytes.

What is left out of the calls: descriptors outside `-1 .. MAX_OPEN_FILES - 1` (the code does not compare
the upper bound, so they are not passed), names that contain a slash (they can be created and never be
reached again), the NUL that a name of exactly 16 bytes writes into the zero low byte of `data_block`,
and the text of messages.

### Sched

`at[t]` is where task `t` stands and `below[t]` the places at which unfinished interrupts found it. A
stretch that runs with interrupts masked is one step; otherwise each step is a piece of code of which a
tick can only see the beginning and the end. `current` is the kernel's variable and `cpu` the stack it
is really on: the two differ between `sched.c:64` and `cpu_switch_to`. `Step` is the kernel's code,
`Ask` a system call of the user program and `Tick` an interrupt. The scan of `_schedule` is one step
(a tick within it lowers one counter by one, which only changes who wins a tie). `sys_fork` is not a step
of `Sched`; what it does to memory is in `Mm`.

### Mm

`call[t]` holds the local variables of the call task `t` makes; a page is needed first as a
`task_struct`, for the user, or as a table (`want`). `get_free_page_find` and `get_free_page_claim` are
the test and the assignment of `mm.c:29-30`, between which a page fault may lose the CPU; `take_*` is
what each caller does with its page. `map_page` takes the tables that are missing one at a time
(`map_page_table`), then sets the entry (`map_page_entry`), after which move-to-user-mode, fork and
page fault go on in their own way. `held` is set while `copy_process` has preemption disabled, and stays
set when a fork finds no page (`fork.c:16-17`). `ind`, the counter of `do_mem_abort`, is loaded and
stored in two steps, as the `-O0` build does. `switch_to(t)` may come at any time for any task: which one
the scheduler prefers is the business of `Sched`.

`wild` says that the kernel writes to memory that is not its own: a table at physical address 0 because
nobody looked at the 0 of `get_free_page`, `task[NR_TASKS]`, or a page that two tasks have claimed. The
model stops there; the step that leads there is in it. User programs are arbitrary: they store to
mapped pages, touch others, and fork. The word of a page stands for all of its bytes. The user section is
assumed to fit in the page it is copied to.

### Timer

`clo`, `c1` and `cs` are the registers `TIMER_CLO`, `TIMER_C1` and `TIMER_CS`; `enabled` is
`ENABLE_IRQS_1`. `at` names the places between two accesses to a register, and `Clock` advances the counter
by one between any of them, wrapping at `CLOCK`. The only bound on when things happen is `Latency`: from a
match to the end of the part of `timer_tick` that runs masked, and from the read in `timer_init` to
`enable_irq`. `handle_irq` is the comparison of the pending bits with its one known value: any other pending
channel, alone or with it, leads to `unknown`, where the interrupt would come again for ever.
`quiet`, `late` and `old` only observe. `timer_init` does not acknowledge a match the firmware has left, so
that the first tick may come at once.

### Entry and UserProgram

In `Entry`, `x0` stands for all the registers of a call: they hold what the program passed, what the routine
gave back or something else, and any C function leaves something else. `frames` are the `pt_regs` on the
kernel stack, `from` records where each exception was taken. `elr` becomes `"elsewhere"` when `timer_tick`
has let other tasks run, since the register is not part of what `cpu_switch_to` saves. `CpuInit` is
`ret_from_fork` after `move_to_user_mode`: the frame that it fills is at the bottom of the stack.
The first store of the program to its stack faults, and `el0_da` returns to it.

`UserProgram` adds the program: `user_process` is its script, each test with the text that a reader of the
script expects to be shown, `Number`, `sys_call_table` and `Serve` are the stubs, the table and the wrappers,
and `sys_vfs` is the action of `Vfs` that the call comes to. A test is one call of the file system and
then one `sys_write` of its line. `Answer` is what the `test_*` function makes of the result. `fd` is
not initialised in C, so any value is its first. The registers that describe a fault (`far_el1`,
`esr_el1`) are not part of `Entry`.

### Boot

Addresses are counted in sections of 2 MB. `create_block_map` is one step per entry, with the two ends
cut down to 9-bit indices; the memory behind the tables holds anything at first. The model is at the real
sizes (512 entries, devices at section 504). `MmuSafe` asks of the identity map that the code that turns the
MMU on is in it and that its addresses lead to themselves or nowhere; how much of memory it has is not part of
the property (section 5).

## 3. Runs

| run | instance | what it shows |
|---|---|---|
| `tree` | 5 inodes, 2 names, paths to depth 3, no descriptors | lists linked, nothing lost, refinement of `FileStore` |
| `listing` | 4 inodes, 1 descriptor, 1 name, paths to depth 2 | listings complete |
| `descriptors` | 3 inodes, 2 descriptors, 2 names, all kinds of paths | `ref` bound, refinement |
| `data` | 3 inodes, 1 descriptor, page of 3 bytes, copy unit 3, `INT_MAX` 7 | types and sizes, short reads exact, refinement |
| `sched` | `init_task` and 2 threads, slices of up to 3, 5 steps or more between ticks | safety of the scheduler; everyone is served |
| `memory` | 3 tasks, 16 pages, tables of 2 entries, 5 user pages | until `wild`: one user per page, refinement of `AddressSpaces`; always: lists no longer than the tasks let them be (`ListsBounded`) |
| `clock` | a counter of 13 values, an interval of 4, a latency of up to 3, two foreign channels | ticks in time and apart, no foreign interrupt |
| `user` | the whole script, 5 inodes, 1 descriptor, strings of 2 bytes, 2 interrupts per call | right lines, nothing left open, registers kept, right returns, the end is reached |
| `boot` | real sizes | the MMU finds what it should, and the identity map leads to itself |
| `offset`, `buffer`, `race` | small | a comment or document the code does not keep, section 5 |

**Why the bounds are enough.** Five inodes are the root and four more: folders with lists of up to four
sons, deletes of the first, a middle and the last of them, recursive deletes four deep, an inode used again
anywhere and a full table. Two names tell twins from others. In `listing` the folder has up to three sons,
one given, one current and one ahead. Two descriptors share an inode, and one outlives the other. In `data`
two files share three inodes with `FS_NPAGES = 3`, so that the requests of 1 and 2 bytes are those the code
answers exactly and may be longer than the file; a page and a copy unit of 3 bytes make every shorter copy
round up; 4 is beyond the page, and 15 is above `INT_MAX` and becomes -1. Three tasks give
a switch to someone else than the one before. With five steps between ticks no interrupt comes within a handler that has opened interrupts; a tick at any time and any depth of
nesting is what `SchedProofs` is about. In `clock` the counter wraps every third
interval and the latency is nearly the interval; matches from before boot come at each value of the counter.
In `user` the program's table has exactly the inodes and descriptors it needs at a time, two bytes tell an
append from a write, and two interrupts are one within another or one after the other. The constraint
`2 * TVFS_STRING_SIZE < FS_NPAGES` is kept (12 and 128 in the build), since reads compare with
`FS_NPAGES`. In `memory` a process, its fault, its child and the child's fault use up 16 pages at every possible point, and the pages 0, 1, 4, 8, 12 share four, two
or one table with each other. Two tasks meet the bound on `user_pages`
there, three from 17 pages on with tables of four entries. What is beyond the bounds is what the proofs are for.

`VIEW NoReply` leaves `reply` out of the fingerprint: no action reads it, and TLC evaluates an action
property on every step, so that replies are still checked. `SYMMETRY` on names is used with safety
properties only.

Bounds named in the modules: `Late` (ticks a counter may fall below zero), `MaxNest` (interrupts of one
task below another), `MaxTicks` (interrupts of one call of the program), `Longest` (where `quiet` stops),
`Paths`, `Strings`, `Lens`, `Touched` (inputs). `Latency < interval` is an assumption about the machine:
interrupts stay masked for some milliseconds at most (the longest stretch is the boot's output on the
UART before `enable_irq`), and an interval is 200.

**Fairness.** In `sched`, weak fairness of `Step`: the CPU executes instructions. Weak fairness of `Tick`:
the timer is set again in each of its handlers (`timer.c:25-31`; `clock` and `TimerProofs` show that it then
ticks). User code has none: a program that never calls and never exits is preempted by ticks alone.
`Interval` keeps five steps between two ticks, about one pass of `_schedule`; the timer's period is 200 ms
(`timer.c:6`). It is needed: with four TLC finds a task that is interrupted again each time before it is
back at its own code, and with three ticks drive every counter below zero, the scan then finds no maximum
above -1, takes `task[0]` without a recharge, and the others starve. No safety property depends on it: the
theorems hold for every `Interval`. In `user`, weak fairness of `Run`, the program and the kernel that serves
it; interrupts need not come, and `MaxTicks` bounds how often they come in a call. A comment in
`timer.c` notes that QEMU's system timer cannot interrupt, so ticks are those of the hardware.

## 4. Proofs

TLAPS checks these for every value of the constants that satisfies the named assumptions
(`SizesAssumption`, `ArgumentsAssumption`, `TasksAssumption`, `ClockAssumption`,
`BootAssumption`, `MemoryAssumption`, `ProgramAssumption`, `ScriptAssumption`), which TLC evaluates in the runs.
`Entry` has no constants. `ScriptAssumption` is what `user.c` takes for granted: five inodes and one descriptor
(`FS_NPAGES` and `MAX_OPEN_FILES` are 128, `include/filesystem.h:7`, `include/vfs.h:17`), names that are not empty,
and no two alike in one folder (`user.c:9-12`). With fewer inodes, or a folder
called like the first file, the script does not do what its author means. Of `ProgramAssumption` the same theorems need `2 * TVFS_STRING_SIZE < FS_NPAGES`: the longest read asks
for 12 bytes (`user.c:18-19`, `user.c:259`), and from 128 on a read is not of the file's bytes any more.

* **`VfsProofs`** proves `TypeCorrect` (`Spec => []TypeOK`), `ShortReadsAreExact`
  (`Spec => ReadIsPrefix`) and `RefIsBounded` (`Spec => []RefBound`). The invariant is `TypeInv == TypeOK /\ NextIsZero`: that no offset ever
  moves is what keeps a read inside the data block, since `read_inode` adds the offset before it
  compares. Assumed are a page that is a multiple of the copy unit and `FS_NPAGES <= FILE_MAX_SIZE <=
  INT_MAX`; for lengths above `INT_MAX` the conversion to `int` is part of the model.
  For `RefIsBounded`, that `ref` never exceeds the number of open descriptors of an inode, `TypeInv /\ RefBound`
  is inductive: the count of the descriptors of one inode changes by one in `open` and `close` (`OpenRef`,
  `CloseRef`), and all other calls leave it or reset `ref` to 0.
* On the tree, `VfsProofs` proves `TreeStaysLinked` and `NoInodeLost` from
  `TreeInv == TypeInv /\ WellLinked /\ NothingLost`. `WellLinked` alone is not inductive: a delete keeps
  the lists only if the folder it unhooks is not inside the subtree it frees, which is what `NothingLost`
  says. Lists and subtrees are written as least sets (the members of every set closed under the links),
  so that the induction the provers lack becomes the choice of a set: `SonsInduction`,
  `SubtreeInduction`. One lemma per kind of call (`AllocTree`, `DeleteTree`, `DeleteRootTree`,
  `QuietCalls`).
* **`VfsListProofs`** proves `ListingsAreComplete` (`HSpec => []ListingComplete`) from the same `TreeInv`. Of a listing
  whose folder and current son have stayed (`Sound`), `ListingInv` says that the folder is in use, so that no
  new inode can have taken its number, that what was given are sons of it still, and that what is ahead of the
  cursor is disjoint from that and holds all that is due. Each kind of call has its effect on what is ahead: a new
  son is behind the last one, a deleted one leaves the list.
  It also proves `VfsImplementsFileStore` (`Spec => StoreSpec`). The mapping makes a *sequence* of each list by a
  recursion along `brother`, and `get_son_inode` and `parse_path` are recursions too. What they give is not
  found by induction on data but from lists that end (`Ends`: each set of inodes has one whose brother is
  outside it, which `LinksEnd` derives from `WellLinked`) and from the least number at which something fails
  (`NatLeast`): a list is described by what it has at each place (`IsList`), there is one such sequence from each
  inode (`ListExists`, `ListUnique`), and it is what the recursion gives (`ListIs`). Then `get_son_inode` is `Find`,
  `parse_path` is `Resolve` although it gives up on a file one token earlier (`Agree`), `Subtree` is `Below`, and
  the pointer a listing advances by is `After`. `AllocSons` and `DeleteSons` say what a create and a delete do to
  all sequences at once: one gets an inode at its end, one loses one in its midst, those below it become empty and
  every other stays. One lemma per call (`CreateStore` to `WriteStore`) then gives the action of `FileStore`, `Fail` and
  `Nothing` for the refusals.
* **`SchedProofs`** proves `SchedTypes`, `SwitchesAreSafe`, `InterruptsReopen` for any number of tasks and of
  nested interrupts, with ticks arbitrarily close. `SchedInv` adds to the properties what each stack
  looks like: the places in `below[t]` are ones an interrupt can find preemption enabled at, and a handler
  is on top of the place it interrupted. One lemma per shape of step.
  From `SchedInv` and `SliceInv` it proves `SlicesAreBounded`, `ZombiesStay` and `RechargesWhenSpent`:
  `init_task` never exits, the task chosen runs until it is switched to, and between scan and recharge counters
  only fall.
* **`MmProofs`** proves `MmTypes`, `EveryPageHasOneUser` (`Spec => []PagesAccounted`),
  `TasksHaveTheirOwnMemory` (`Spec => SpacesSpec`, the refinement) and `FaultsAreLimited` (`Spec => []ListsBounded`), each for any number of tasks, pages and
  entries of a table. The second and the third say what holds until `wild`, as the run does; the race that leads
  there is the run `race`. That a page has one user (`Accounted`) depends on nearly everything else, and `MmInv` has
  a part for each reason, all of them up to `wild`:
  - `TreeInv`: the tables are a forest, no two entries leading to one page, so that setting an entry changes
    one way from one PGD and no other (`IndicesTell`: two virtual pages differ in one of their four indices);
  - `ListInv`: `user_pages` lists just what the tables lead to, which is what lets a page be accounted by its
    list and read by the MMU, and fork find the parent's pages by the list;
  - `TaskInv` and `SlotInv`: what a task at each place may hold (`Shape`), that only the one task with
    preemption disabled copies, and that the slots from `nr_tasks` on are empty but for what that copy has put
    into the next one. `ttbr0` is the PGD of the process that runs;
  - `WorkInv`: what a call found before it lost the CPU is still so when it goes on: the entry it is about
    to set is empty, and the page it brings is clear;
  - `ForkInv`: the child has the pages of the parent that are copied so far, with the words they had, all of
    them unless memory has run out.

  A step of `Mm` that maps, stores, or ends a fork is then a step of `AddressSpaces`, and every other one a
  stutter.

  `FaultsAreLimited` adds `BoundInv`. Only a fault that loaded `ind = 1` can store a 2, and all that will ever do so
  have loaded it before the first of them stores (`Early`); a task does it once, since the check that follows
  sees no 1 any more. Each such store (`Spent` counts them) may undo the counts made since, and lets every task
  through `do_mem_abort` once more: a task lists no more than `Most` pages. A page brings three tables at most and the
  first one the PGD (`Rest`); those of a page on its way are counted by the level the walk has reached (`Room`,
  `Reached`).
* **`TimerProofs`** proves `TimerTypes`, `TicksComeInTime`, `TicksComeApart` and `NoUnknownInterrupt`. The invariant
  relates the distance from the counter to the compare register (`Gap`, modulo `CLOCK`) to the time since the
  last tick: as long as no match is waiting their sum lies between `Period - Latency` and `Period`.
  `Latency < interval` is what keeps the next compare value ahead of the counter, `2 * interval + Latency <
  CLOCK` what tells ahead from behind.
* **`EntryProofs`** proves `CpuTypes`, `RegistersAreKept` and `EretReturns` for interrupts nested to any depth.
  `EntryInv` says of each frame what its owner needs: it leads to the place of its exception with
  interrupts enabled (`FrameRight`), except for the topmost exception while it is in the registers alone
  (`Bare`), and the code below it stands where it was interrupted (`Inside`), at a place where interrupts are
  open.
* **`UserProofs`** proves `ProgramTypes` (`UserSpec => []UserTypeOK`) and `ProgramRunsOnTheCpu`
  (`UserSpec => CpuSpec`: the composition implements `Entry` alone), from which `CallsFindTheirRegisters` and
  `ProgramIsResumed` follow by the theorems of `EntryProofs`. Each test of the script is one of the calls of
  the table, with a length that is an unsigned where it has one (`TheScript`); the invariant adds to the types and to
  `EntryInv` that a program that has finished only writes, so that there is always a test to take the call from.
  It also proves `ScriptSaysOk` (`UserSpec => []PrintsIntended`) and `ScriptLeavesClean` (`UserSpec => []LeavesClean`),
  for all names, strings and tables that `ProgramAssumption` and `ScriptAssumption` allow, and interrupts anywhere. What the
  file system answers to a test depends on all the tests before it, so the invariant `ScriptInv` has to say what the
  whole file system looks like after each of them. `Stage(k)` does, after `k` tests, in four terms: the inodes in use
  (`Created`), the bytes in the first file (`Written`), the inode the one descriptor is on (`OpenedOn`) and where its listing
  stands (`ListedAt`). `Tree` fixes all links from the first. `Pending` says that a call is on its way and not served yet,
  so that `made` counts the tests served; `Pleases(t)` says that an answer is the one `t` waits for, and from it
  follow the line written and `PrintsIntended`. The argument is in three layers: `PathsLead` says what inode `parse_path`
  finds for each path of the script in each tree; one lemma per kind of call (`CreateStage`, `DeleteStage`, `OpenStage`,
  `CloseStage`, `ListStage`, `WriteStage`, `ReadStage`) says what a call does to a `State` of that form; and
  `Plan` lists the 27 tests of `user_process`, from which `TestStage` takes each `Stage(k)` to `Stage(k + 1)`. An
  interrupt or a step of `Entry` touches neither (`ScriptStays`).
* **`BootProofs`** proves `BootTypes`, `TheMmuIsSafe` and `SectionsMappedOnce` for every `PTRS_PER_TABLE`,
  `DEVICE_BASE < PHYS_MEMORY_SIZE <= PTRS_PER_TABLE`, with and without the identity map. `BootInv` says what is
  `Built` at each place and that the loop has mapped exactly the sections below `start` (`Mapped`), the tree that is
  not begun yet being untouched. From this follows also that what the identity map has leads to itself.

Only model-checked, and why:

* `Served` and `Finishes`, liveness under fairness, which is out of the provers' reach.

Every invariant and every action property of the passing runs is a theorem.

## 5. Where the code and its documents part

| run | what | where |
|---|---|---|
| `offset` | two reads in a row begin at the same byte, and together give more than the file has: a read does not advance the offset the document says it advances | `src/vfs.c:267` against `docs/filesystem/vfs.md:209` |
| `buffer` | `memcpy` stores up to 7 bytes behind the `len + 1` characters promised | `src/filesystem.c:133` against `include/vfs.h:82` |
| `race` | a table that is new to two tasks: their page faults find one free page, and both list it in `kernel_pages` | `src/mm.c:29-30` against `src/mm.c:71` and `src/mm.c:97` |

In `offset` no read reaches `FS_NPAGES` bytes, so that it is the offset and not the limit of `read_inode` that is
shown. `race` ends with the second claim, where the model sets `wild`; the page is then in the tables of both tasks
as well as in their lists. It needs a user program that forks; the one in `user.c` does not. A fork moreover copies the
registers from the child to the parent (`fork.c:24`), so both processes go on at address 0.

The arrays of 16 entries in `include/sched.h:53-54` are not large enough for the 64 tasks of `NR_TASKS`: what `ListsBounded` allows
fits them up to three tasks, and with four (`kernel_main`'s and three processes with pages far apart, updates of `ind`
lost between them) `map_page` writes a 16th table behind `kernel_pages[15]`; its entry 0 is never used. The build's one process
does not fork.

Three more remarks no run is about. A comment (`boot.S:75-77`) says that the identity map covers all of DRAM.
`__create_idmap` passes `PHYS_MEMORY_SIZE` as its last section (`boot.S:173`), where an inclusive end is expected;
its index wraps to `512 & 511 = 0`, the loop stores entry 0, and ends: the map has the first section only. `MmuSafe`
holds all the same, since it does not say how much is mapped, and the kernel boots, since the code that
runs on the identity map is in that section. Deleting an open file resets `ref` (`filesystem.c:167`); closing it then
takes 1 from the next file's count or makes it negative, so that `ref` is not the "Reference count" of
`include/filesystem.h:40` but a lower bound, which is what `RefBound` says. `entry_error_messages` (`irq.c:7-27`) has
entries for `IRQ_INVALID_EL1h`, `SYNC_INVALID_EL0_64` and `IRQ_INVALID_EL0_64`, which have no numbers in
`include/entry.h:12-22`: from number 5 on the message printed is that of another exception.

## 6. Not modelled

* The console, strings and `printf`: device registers and formatting, no state a property is about.
* Caches and the TLB.
* The depth of the kernel stack. `delete_inode` is a C recursion (`vfs.c:162`) on a stack of less than `THREAD_SIZE`, 4096
  bytes (`include/sched.h:8`), that the `task_struct` and the frames share; nothing limits how deep folders may be
  nested. In `Vfs` a delete is one step of any depth.
* A fault of the user program at an unmapped address of the kernel's half. `map_table` masks each index, so `do_mem_abort`
  takes and lists a page and maps it at the address with the same low bits; the access then faults again, until
  the limit on faults ends it in `err_hang`. `Mm` sends such a task to `"hung"` at once (`do_mem_abort_other`): the
  task never runs again to see the page, but that page is not counted.
* Exception levels, secondary cores and system registers at boot.
* The registers a fork copies; `copy_process` from a user process is in `Mm` for its memory only.
* A fork that finds no page returns with preemption disabled (`fork.c:17`): `Mm` has it (`held`), no
  property does, since the build's program does not fork.
* `free_page`, which nothing calls: pages of a zombie are never given back.
* A user section of more than a page: `move_to_user_mode` would copy it over the next pages (`fork.c:59`). The
  models assume that it fits, as the code does; nothing compares `size` with `PAGE_SIZE`.
* `far_el1` and `esr_el1`, which `el0_da` reads after it has enabled interrupts (`entry.S:152`): another task's
  fault could come in between, which needs a second user process.
* The second read of `p->counter` in the scan of `_schedule` (`sched.c:33`): it changes who wins a tie.
* System calls of two processes interleaved. They run preemptible and without a lock, so two of them
  could find one free inode; this build starts one process.

## 7. Plan

Done: all modules of section 2 and the proofs of section 4. What would come next:

1. `VfsSteps`: the calls in steps, for several processes, with `Vfs` as the specification of one caller
   alone; the stepwise `delete_inode` shown to do what `Vfs` does in one step.
2. `Kernel`: `Sched` and `Mm` composed, so that `switch_to` in `Mm` is the scheduler's, with fork and exit
   in both, and `nr_tasks` against `NR_TASKS`.
3. Proofs of these two modules.
