----------------------------- MODULE UserProgram -----------------------------
(***************************************************************************)
(* The user program of the kernel (user.c) on its way through the system   *)
(* calls (user_sys.S, entry.S, sys.c) into the virtual file system of Vfs, *)
(* interrupted anywhere.                                                   *)
(*                                                                         *)
(* Each test_* function makes one call of the file system and then writes  *)
(* a line that says what came of it; the pieces of a line are written by   *)
(* one sys_write here.                                                     *)
(***************************************************************************)
EXTENDS Entry, Vfs

CONSTANTS
    file1, file2, file3, src,       \* TVFS_FILE1_NAME and so on
    TVFS_STRING, TVFS_STRING_SIZE,
    MaxTicks                        \* bound: interrupts in one call

ASSUME ProgramAssumption ==
    /\ {file1, file2, file3, src} \subseteq Names
    /\ TVFS_STRING \in [Offset -> Byte]
    /\ TVFS_STRING_SIZE \in Nat
    /\ 2 * TVFS_STRING_SIZE < FS_NPAGES
    /\ MaxTicks \in Nat

\* What the program takes for granted of its kernel, and its author of the
\* names: the root, a folder and three files fit the table, a descriptor is
\* free, and no two names in one folder are the same (filesystem.h:7,
\* vfs.h:17, user.c:9-12).
ASSUME ScriptAssumption ==
    /\ FS_NPAGES >= 5 /\ MAX_OPEN_FILES >= 1
    /\ "" \notin {file1, file2, file3, src}
    /\ file1 # src /\ file2 # file3

VARIABLES
    done,      \* tests that are finished
    telling,   \* the test has its answer and writes its line
    fd,        \* of user_process
    line,      \* the line it writes
    printed,   \* the lines written so far
    ticks      \* interrupts since the program last had the CPU

program == <<done, telling, fd, line, printed, ticks>>
system  == <<cpu, vars, program>>

-----------------------------------------------------------------------------
(* The script, each test with what its author must mean it to show.        *)

ROOT     == <<"">>
TVFS_SRC == <<src, "">>

Twice(bytes) == bytes \o bytes
Text         == [k \in 1 .. TVFS_STRING_SIZE |-> TVFS_STRING[k - 1]]

Shows(call, args, text) == <<[call |-> call, args |-> args, shows |-> text]>>
Test(call, args)        == Shows(call, args, <<>>)

Listing(path, sons) ==
    Test("open_dir", <<path>>)
    \o [k \in 1 .. Len(sons) |-> Shows("get_dir_son", <<>>, <<sons[k]>>)[1]]
    \o Test("close_dir", <<>>)

user_process ==
    Test("create_file", <<ROOT, file1>>)
    \o Test("open_file", <<<<file1>>>>)
    \o Test("write_file", <<TVFS_STRING_SIZE>>)
    \o Shows("read_file", <<TVFS_STRING_SIZE>>, Text)
    \o Test("close_file", <<>>)
    \o Test("open_file", <<<<file1>>>>)
    \o Test("append_file", <<TVFS_STRING_SIZE>>)
    \o Shows("read_file", <<2 * TVFS_STRING_SIZE>>, Twice(Text))
    \o Test("close_file", <<>>)
    \o Test("create_dir", <<ROOT, src>>)
    \o Test("create_file", <<TVFS_SRC, file2>>)
    \o Test("create_file", <<TVFS_SRC, file3>>)
    \o Listing(TVFS_SRC, <<file2, file3, "">>)
    \o Test("delete_file", <<<<src, file2>>>>)
    \o Listing(TVFS_SRC, <<file3, "">>)
    \o Test("delete_file", <<TVFS_SRC>>)
    \o Listing(ROOT, <<file1, "">>)

Finished == done = Len(user_process)
test     == user_process[done + 1]

-----------------------------------------------------------------------------
(* System calls.                                                           *)

\* What a stub puts into w8.
Number ==
    [sys_write |-> 0, sys_fork |-> 1, sys_exit |-> 2,
     create_file |-> 3, delete_file |-> 4, open_file |-> 5, close_file |-> 6,
     read_file |-> 7, write_file |-> 8, append_file |-> 9, create_dir |-> 10,
     delete_dir |-> 11, open_dir |-> 12, close_dir |-> 13, get_dir_son |-> 14]

\* Slip: write and append are in each other's place.
sys_call_table_Swapped ==
    <<"sys_write", "sys_fork", "sys_exit", "create_file", "delete_file",
      "open_file", "close_file", "read_file", "append_file", "write_file",
      "create_dir", "delete_dir", "open_dir", "close_dir", "get_dir_son">>

\* The routine each number leads to, named after what it calls in turn.
sys_call_table ==
    <<"sys_write", "sys_fork", "sys_exit", "create_file", "delete_file",
      "open_file", "close_file", "read_file", "write_file", "append_file",
      "create_dir", "delete_dir", "open_dir", "close_dir", "get_dir_son">>

Routine(stub) == sys_call_table[Number[stub] + 1]

\* The wrappers of sys.c, with the arguments they find in x0 to x2.
Serve(routine, args) ==
    \/ routine = "create_file" /\ create_file(args[1], args[2])
    \/ routine = "delete_file" /\ delete_file(args[1])
    \/ routine = "open_file" /\ open_file(args[1])
    \/ routine = "close_file" /\ close_file(fd)
    \/ routine = "read_file" /\ read_file(fd, args[1])
    \/ routine = "write_file" /\ write_file(fd, TVFS_STRING, args[1])
    \/ routine = "append_file" /\ append_file(fd, TVFS_STRING, args[1])
    \/ routine = "create_dir" /\ create_dir(args[1], args[2])
    \/ routine = "open_dir" /\ open_dir(args[1])
    \/ routine = "close_dir" /\ close_dir(fd)
    \/ routine = "get_dir_son" /\ get_next_dir_son(fd)

\* Slip: descriptors are counted from one.
Kept_FromOne(answer) == IF "fd" \in DOMAIN answer THEN answer.fd + 1 ELSE fd

\* What the call leaves in the `fd_t' of the caller.
Kept(answer) == IF "fd" \in DOMAIN answer THEN answer.fd ELSE fd

sys_vfs ==
    /\ sys /\ ~telling /\ ~halted
    /\ Serve(Routine(test.call), test.args)
    /\ fd' = Kept(reply')
    /\ UNCHANGED <<done, telling, line, printed, ticks>>

\* The dots of the end are not kept.
sys_write ==
    /\ sys /\ telling
    /\ Routine("sys_write") = "sys_write"
    /\ printed' = IF Finished THEN printed ELSE Append(printed, line)
    /\ UNCHANGED <<vars, done, telling, fd, line, ticks>>

-----------------------------------------------------------------------------
(* The program, and the rest of the machine.                               *)

begin ==
    /\ pc = "start" /\ proceed
    /\ ticks' = 0
    /\ UNCHANGED <<vars, done, telling, fd, line, printed>>

\* What a test_* function makes of the answer: a data call must have moved
\* all it was asked to.
Answer ==
    LET ok == /\ x0 = "result"
              /\ IF "n" \in DOMAIN reply THEN reply.n = test.args[1]
                 ELSE reply.ret = "VFS_OK"
    IN  [ok |-> ok,
         text |-> IF ok /\ test.call = "read_file"
                  THEN SubSeq(reply.out, 1, test.args[1])
                  ELSE IF ok /\ test.call = "get_dir_son" THEN <<reply.son>>
                  ELSE <<>>]

answered ==
    /\ pc = "back" /\ proceed /\ ~telling
    /\ telling' = TRUE
    /\ line' = Answer
    /\ ticks' = 0
    /\ UNCHANGED <<vars, done, fd, printed>>

\* After the last line the program writes dots for ever.
told ==
    /\ pc = "back" /\ proceed /\ telling
    /\ done' = IF Finished THEN done ELSE done + 1
    /\ telling' = (done' = Len(user_process))
    /\ ticks' = 0
    /\ UNCHANGED <<vars, fd, line, printed>>

Run ==
    \/ Machine /\ UNCHANGED <<vars, program>>
    \/ sys_vfs \/ sys_write
    \/ begin \/ answered \/ told

Tick ==
    /\ interrupt
    /\ ticks < MaxTicks
    /\ ticks' = ticks + 1
    /\ UNCHANGED <<vars, done, telling, fd, line, printed>>

UserInit ==
    /\ CpuInit /\ Init
    /\ done = 0 /\ telling = FALSE
    /\ fd \in FdArg                 \* not initialised
    /\ line = [ok |-> TRUE, text |-> <<>>]
    /\ printed = <<>> /\ ticks = 0

UserNext == Run \/ Tick

\* The CPU executes its instructions; interrupts need not come.
UserSpec == UserInit /\ [][UserNext]_system /\ WF_system(Run)

-----------------------------------------------------------------------------
UserTypeOK ==
    /\ CpuTypeOK /\ TypeOK
    /\ done \in 0 .. Len(user_process)
    /\ telling \in BOOLEAN
    /\ fd \in FdArg
    /\ ticks \in 0 .. MaxTicks

\* Each test of the program says OK, a read shows the bytes the program has
\* written so far and a listing the names it has created and not deleted in
\* their order, and a delete_file of a folder deletes it, however calls are
\* interrupted: numbers of the stubs, order of the table, registers, answers
\* and the file system agree (user.c:58-287, user_sys.S:13-43, sys.c:69-87).
PrintsIntended ==
    \A k \in 1 .. Len(printed) :
        printed[k] = [ok |-> TRUE, text |-> user_process[k].shows]

\* The program leaves no descriptor open and no inode but that of its first
\* file, so that nothing of the tables is used up (user.c:251-286).
LeavesClean ==
    Finished =>
        /\ \A slot \in Fd : fd_inode[slot] = NULL
        /\ \A i \in Inode : ref[i] = 0
        /\ {name[i] : i \in {j \in Inode : Used(j)}} = {"/", file1}
        /\ size[get_son_inode(ROOT_INODE, file1)] = 2 * TVFS_STRING_SIZE

\* The program comes to its end and goes on to write (user.c:287-293), as
\* long as each of its calls meets a bounded number of interrupts.
Finishes == <>[]Finished /\ []<>(pc = "back")
=============================================================================
