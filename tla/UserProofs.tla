------------------------------ MODULE UserProofs ------------------------------
(***************************************************************************)
(* Theorems of UserProgram, for strings, inodes and descriptors of any     *)
(* number and interrupts of any number in a call: the program runs on the  *)
(* CPU of Entry, everything stays in its type, each test says what its     *)
(* author means it to say, and the program leaves nothing behind it.       *)
(***************************************************************************)
EXTENDS UserProgram, VfsProofs, EntryProofs

-----------------------------------------------------------------------------
(* The script is a sequence.                                               *)

Sequence(s) == \E S : s \in Seq(S)

\* The calls the program makes, with lengths that are those of an unsigned.
Calls == {"create_file", "delete_file", "open_file", "close_file", "read_file",
          "write_file", "append_file", "create_dir", "open_dir", "close_dir",
          "get_dir_son"}

Counted == {"read_file", "write_file", "append_file"}

Sound(e) ==
    /\ e.call \in Calls
    /\ e.call \in Counted => e.args[1] \in 0 .. 2 * INT_MAX + 1

Tests(s)  == \E S : s \in Seq(S) /\ \A e \in S : Sound(e)
Script(s) == Tests(s) /\ s # <<>>

LEMMA ConcatIsScript ==
    ASSUME NEW s, NEW t, Script(s), Tests(t)
    PROVE  Script(s \o t)
<1>1. PICK S : s \in Seq(S) /\ \A e \in S : Sound(e)
  BY DEF Script, Tests
<1>2. PICK T : t \in Seq(T) /\ \A e \in T : Sound(e)
  BY DEF Tests
<1>3. s \in Seq(S \cup T) /\ t \in Seq(S \cup T)
  BY <1>1, <1>2
<1>4. s \o t \in Seq(S \cup T) /\ s \o t # <<>>
  BY <1>3 DEF Script
<1> QED
  BY <1>1, <1>2, <1>4 DEF Script, Tests

LEMMA TestsOf ==
    ASSUME NEW s, NEW S, s \in Seq(S), \A e \in S : Sound(e)
    PROVE  Tests(s)
BY DEF Tests

LEMMA OneTest ==
    ASSUME NEW t, Sound(t)
    PROVE  Script(<<t>>)
<1> DEFINE s == <<t>>
           S == {t}
<1>1. s \in Seq(S) /\ s # <<>>
  OBVIOUS
<1>2. \A e \in S : Sound(e)
  <2>1. \A e \in S : e = t
    OBVIOUS
  <2> HIDE DEF S
  <2> QED
    BY <2>1
<1> HIDE DEF s, S
<1>3. Tests(s)
  BY <1>1, <1>2, TestsOf
<1>4. Script(s)
  BY <1>1, <1>3 DEF Script
<1> QED
  BY <1>4 DEF s

LEMMA TestsAreScripts ==
    ASSUME NEW call \in Calls, NEW args, NEW text,
           call \in Counted => args[1] \in 0 .. 2 * INT_MAX + 1
    PROVE  Script(Shows(call, args, text)) /\ Script(Test(call, args))
<1>1. ASSUME NEW x PROVE Script(Shows(call, args, x))
  <2> DEFINE e == [call |-> call, args |-> args, shows |-> x]
  <2>1. Sound(e) /\ Shows(call, args, x) = <<e>>
    BY DEF Sound, Shows
  <2> QED
    BY <2>1, OneTest
<1> QED
  BY <1>1 DEF Test

LEMMA ListingIsScript ==
    ASSUME NEW path, NEW sons, Sequence(sons)
    PROVE  Script(Listing(path, sons))
<1> DEFINE f(k) == Shows("get_dir_son", <<>>, <<sons[k]>>)[1]
           middle == [k \in 1 .. Len(sons) |-> f(k)]
<1>1. Len(sons) \in Nat
  BY DEF Sequence
<1>2. Tests(middle)
  <2>1. ASSUME NEW k \in 1 .. Len(sons) PROVE Sound(f(k))
    <3>1. f(k) = [call |-> "get_dir_son", args |-> <<>>, shows |-> <<sons[k]>>]
      BY DEF Shows
    <3>2. f(k).call = "get_dir_son"
      BY <3>1
    <3> HIDE DEF f
    <3> QED
      BY <3>2 DEF Sound, Calls, Counted
  <2> HIDE DEF f
  <2>2. middle \in Seq({f(k) : k \in 1 .. Len(sons)})
    BY <1>1
  <2>3. \A e \in {f(k) : k \in 1 .. Len(sons)} : Sound(e)
    BY <2>1
  <2> HIDE DEF middle
  <2> QED
    BY <2>2, <2>3, TestsOf
<1>3. Script(Test("open_dir", <<path>>)) /\ Script(Test("close_dir", <<>>))
  BY TestsAreScripts DEF Calls, Counted
<1>4. Listing(path, sons) = Test("open_dir", <<path>>) \o middle \o Test("close_dir", <<>>)
  BY DEF Listing
<1> HIDE DEF middle
<1>5. Script(Test("open_dir", <<path>>) \o middle)
  BY <1>2, <1>3, ConcatIsScript
<1> QED
  BY <1>3, <1>4, <1>5, ConcatIsScript DEF Script

LEMMA Lengths ==
    /\ TVFS_STRING_SIZE \in 0 .. 2 * INT_MAX + 1
    /\ 2 * TVFS_STRING_SIZE \in 0 .. 2 * INT_MAX + 1
    /\ TVFS_STRING \in [Offset -> Byte]
BY Sizes, ProgramAssumption

LEMMA TheScript == Script(user_process)
<1>1. ASSUME NEW s, NEW call \in Calls, NEW args, NEW text, Script(s),
             call \in Counted => args[1] \in 0 .. 2 * INT_MAX + 1
      PROVE  Script(s \o Shows(call, args, text)) /\ Script(s \o Test(call, args))
  BY <1>1, TestsAreScripts, ConcatIsScript DEF Script
<1>2. ASSUME NEW s, NEW path, NEW sons, Script(s), Sequence(sons)
      PROVE  Script(s \o Listing(path, sons))
  BY <1>2, ListingIsScript, ConcatIsScript DEF Script
<1>3. /\ Sequence(<<file2, file3, "">>) /\ Sequence(<<file3, "">>) /\ Sequence(<<file1, "">>)
  <2>1. ASSUME NEW a, NEW b PROVE Sequence(<<a, b>>)
    <3>1. <<a, b>> \in Seq({a, b})
      OBVIOUS
    <3> QED
      BY <3>1 DEF Sequence
  <2>2. ASSUME NEW a, NEW b, NEW c PROVE Sequence(<<a, b, c>>)
    <3>1. <<a, b, c>> \in Seq({a, b, c})
      OBVIOUS
    <3> QED
      BY <3>1 DEF Sequence
  <2> QED
    BY <2>1, <2>2
<1> DEFINE a == Test("create_file", <<ROOT, file1>>)
           b == a
                \o Test("open_file", <<<<file1>>>>)
                \o Test("write_file", <<TVFS_STRING_SIZE>>)
                \o Shows("read_file", <<TVFS_STRING_SIZE>>, Text)
                \o Test("close_file", <<>>)
           c == b
                \o Test("open_file", <<<<file1>>>>)
                \o Test("append_file", <<TVFS_STRING_SIZE>>)
                \o Shows("read_file", <<2 * TVFS_STRING_SIZE>>, Twice(Text))
                \o Test("close_file", <<>>)
           d == c
                \o Test("create_dir", <<ROOT, src>>)
                \o Test("create_file", <<TVFS_SRC, file2>>)
                \o Test("create_file", <<TVFS_SRC, file3>>)
           e == d
                \o Listing(TVFS_SRC, <<file2, file3, "">>)
                \o Test("delete_file", <<<<src, file2>>>>)
                \o Listing(TVFS_SRC, <<file3, "">>)
                \o Test("delete_file", <<TVFS_SRC>>)
                \o Listing(ROOT, <<file1, "">>)
<1>4. user_process = e
  BY DEF user_process
<1>5. Script(a)
  BY TestsAreScripts DEF Calls, Counted
<1> HIDE DEF a
<1>6. Script(b)
  BY <1>1, <1>2, <1>3, <1>5, Lengths DEF Calls, Counted
<1> HIDE DEF b
<1>7. Script(c)
  BY <1>1, <1>2, <1>3, <1>6, Lengths DEF Calls, Counted
<1> HIDE DEF c
<1>8. Script(d)
  BY <1>1, <1>2, <1>3, <1>7, Lengths DEF Calls, Counted
<1> HIDE DEF d
<1>9. Script(e)
  BY <1>1, <1>2, <1>3, <1>8, Lengths DEF Calls, Counted
<1> HIDE DEF e
<1> QED
  BY <1>4, <1>9

LEMMA TestIs ==
    ASSUME NEW k \in 1 .. Len(user_process)
    PROVE  Sound(user_process[k])
<1>1. PICK S : user_process \in Seq(S) /\ \A e \in S : Sound(e)
  BY TheScript DEF Script, Tests
<1>2. user_process[k] \in S
  BY <1>1
<1> QED
  BY <1>1, <1>2

LEMMA ScriptLength == Len(user_process) \in Nat \ {0}
BY TheScript DEF Script, Tests

\* A stub reaches the routine of its name.
LEMMA StubsReach == \A call \in Calls : Routine(call) = call
BY DEF Calls, Routine, sys_call_table, Number

-----------------------------------------------------------------------------
(* Every variable stays in its type.                                       *)

UserInv ==
    /\ EntryInv /\ TypeInv
    /\ done \in 0 .. Len(user_process)
    /\ telling \in BOOLEAN
    /\ fd \in FdArg
    /\ ticks \in 0 .. MaxTicks
    /\ Finished => telling

LEMMA UserInitial == UserInit => UserInv
<1> SUFFICES ASSUME UserInit PROVE UserInv
  OBVIOUS
<1>1. EntryInv /\ TypeInv
  BY EntryInit, InitType DEF UserInit
<1>2. 0 \in 0 .. Len(user_process) /\ 0 # Len(user_process)
  BY ScriptLength
<1>3. 0 \in 0 .. MaxTicks
  BY ProgramAssumption
<1> QED
  BY <1>1, <1>2, <1>3 DEF UserInit, UserInv, Finished

\* A step of the CPU that leaves the file system and the program alone.
LEMMA CpuOnly ==
    ASSUME UserInv, [CpuNext]_cpu, UNCHANGED <<vars, done, telling, fd>>,
           ticks' \in 0 .. MaxTicks
    PROVE  UserInv'
<1>1. EntryInv'
  BY EntryStep DEF UserInv
<1>2. TypeInv'
  BY StepType DEF UserInv
<1> QED
  BY <1>1, <1>2 DEF UserInv, Finished

\* Whatever a call gives back, the descriptor the program keeps is one.
LEMMA KeptIsFd ==
    ASSUME NEW answer \in Reply, fd \in FdArg
    PROVE  Kept(answer) \in FdArg
BY DEF Reply, Kept

\* The system call of a test is one of those of the program, with the
\* arguments of the test, and keeps the file system in its type.
LEMMA ServeType ==
    ASSUME UserInv, ~telling, Serve(Routine(test.call), test.args)
    PROVE  TypeInv'
<1> DEFINE call == test.call
           args == test.args
<1>1. done + 1 \in 1 .. Len(user_process)
  BY ScriptLength DEF UserInv, Finished
<1>2. Sound(test)
  BY <1>1, TestIs DEF test
<1>3. call \in Calls /\ Routine(call) = call
  BY <1>2, StubsReach DEF Sound
<1>4. call \in Counted => args[1] \in 0 .. 2 * INT_MAX + 1
  BY <1>2 DEF Sound
<1>5. TypeInv /\ fd \in FdArg
  BY DEF UserInv
<1> HIDE DEF call, args
<1>6. Serve(call, args)
  BY <1>3 DEF call, args
<1>7. CASE \/ call = "create_file" /\ create_file(args[1], args[2])
           \/ call = "create_dir" /\ create_dir(args[1], args[2])
  BY <1>5, <1>7, CreateType DEF create_file, create_dir
<1>8. CASE call = "delete_file" /\ delete_file(args[1])
  BY <1>5, <1>8, DeleteType DEF delete_file
<1>9. CASE \/ call = "open_file" /\ open_file(args[1])
           \/ call = "open_dir" /\ open_dir(args[1])
  BY <1>5, <1>9, OpenType, RefuseType DEF open_file, open_dir, VfsError, FdArg
<1>10. CASE \/ call = "close_file" /\ close_file(fd)
            \/ call = "close_dir" /\ close_dir(fd)
  BY <1>5, <1>10, CloseType DEF close_file, close_dir
<1>11. CASE call = "get_dir_son" /\ get_next_dir_son(fd)
  BY <1>5, <1>11, ListType
<1>12. CASE call = "read_file" /\ read_file(fd, args[1])
  BY <1>4, <1>5, <1>12, ReadType DEF Counted
<1>13. CASE \/ call = "write_file" /\ write_file(fd, TVFS_STRING, args[1])
            \/ call = "append_file" /\ append_file(fd, TVFS_STRING, args[1])
  BY <1>4, <1>5, <1>13, WriteFileType, Lengths DEF Counted
<1> QED
  BY <1>6, <1>7, <1>8, <1>9, <1>10, <1>11, <1>12, <1>13 DEF Serve

LEMMA UserCpu == [UserNext]_system => [CpuNext]_cpu
BY DEF UserNext, Run, Tick, sys_vfs, sys_write, begin, answered, told,
       CpuNext, system

LEMMA UserStep == UserInv /\ [UserNext]_system => UserInv'
<1> SUFFICES ASSUME UserInv, [UserNext]_system PROVE UserInv'
  OBVIOUS
<1>1. [CpuNext]_cpu
  BY UserCpu
<1>2. ticks \in 0 .. MaxTicks /\ 0 \in 0 .. MaxTicks
  BY ProgramAssumption DEF UserInv
<1>3. CASE \/ UNCHANGED system
           \/ Machine /\ UNCHANGED <<vars, program>>
           \/ sys_write \/ begin
  BY <1>1, <1>2, <1>3, CpuOnly DEF system, program, sys_write, begin
<1>4. CASE Tick
  <2>1. ticks' \in 0 .. MaxTicks
    BY <1>2, <1>4, ProgramAssumption DEF Tick
  <2> QED
    BY <1>1, <1>4, <2>1, CpuOnly DEF Tick
<1>5. CASE sys_vfs
  <2>1. TypeInv'
    BY <1>5, ServeType DEF sys_vfs
  <2>2. EntryInv'
    BY <1>1, EntryStep DEF UserInv
  <2>3. fd' \in FdArg
    BY <1>5, <2>1, KeptIsFd DEF sys_vfs, TypeInv, TypeOK, UserInv
  <2> QED
    BY <1>2, <1>5, <2>1, <2>2, <2>3 DEF sys_vfs, UserInv, Finished
<1>6. CASE answered
  <2>1. EntryInv' /\ TypeInv'
    BY <1>1, <1>6, EntryStep, StepType DEF UserInv, answered
  <2> QED
    BY <1>2, <1>6, <2>1 DEF answered, UserInv
<1>7. CASE told
  <2>1. EntryInv' /\ TypeInv'
    BY <1>1, <1>7, EntryStep, StepType DEF UserInv, told
  <2>2. done' \in 0 .. Len(user_process)
    BY <1>7, ScriptLength DEF told, UserInv, Finished
  <2> QED
    BY <1>2, <1>7, <2>1, <2>2 DEF told, UserInv, Finished
<1> QED
  BY <1>3, <1>4, <1>5, <1>6, <1>7 DEF UserNext, Run

LEMMA UserInvariant == UserSpec => []UserInv
BY UserInitial, UserStep, PTL DEF UserSpec

\* Wherever the interrupts fall, each call of the program finds its
\* arguments and every answer is a descriptor, a count or a name of its
\* type (user.c:251-286, user_sys.S:13-43, sys.c:69-87).
THEOREM ProgramTypes == UserSpec => []UserTypeOK
<1>1. UserInv => UserTypeOK
  BY DEF UserInv, EntryInv, TypeInv, UserTypeOK
<1> QED
  BY <1>1, UserInvariant, PTL

\* The program, the calls it makes and the file system they reach do nothing
\* to the CPU that the code of the exceptions does not expect: it is the CPU
\* of Entry (entry.S:108-209, user_sys.S:13-43).
THEOREM ProgramRunsOnTheCpu == UserSpec => CpuSpec
<1>1. UserInit => CpuInit
  BY DEF UserInit
<1> QED
  BY <1>1, UserCpu, PTL DEF UserSpec, CpuSpec

\* So what the program passes reaches the call, and what the call gives back
\* reaches the program (entry.S:20-35, 62-76, 147).
THEOREM CallsFindTheirRegisters == UserSpec => []RegistersKept
BY ProgramRunsOnTheCpu, RegistersAreKept, PTL

\* And the program goes on where a call or an interrupt stopped it
\* (entry.S:51-78, 108-160, 207-209).
THEOREM ProgramIsResumed == UserSpec => ReturnsHome
BY ProgramRunsOnTheCpu, EretReturns, PTL
-----------------------------------------------------------------------------
(* Where the program stands between its calls.                             *)

\* The call of a test, or the write of its line, is yet to be made: the
\* program is before it, or in the kernel on the way to its routine.
Pending ==
    LET base == IF from = <<>> THEN pc ELSE from[1]
    IN  \/ base \in {"start", "call"}
        \/ /\ from # <<>> /\ base = "back"
           /\ Inside(1) \in {"el0_sync", "el0_svc", "sys"}

\* What the invariant of the CPU says of the exceptions that are taken.
LEMMA Stack ==
    ASSUME EntryInv
    PROVE  /\ from \in Seq(Place) /\ Len(from) \in Nat /\ pc \in Place
           /\ from = <<>> <=> pc \in User
           /\ from = <<>> <=> Len(from) = 0
           /\ from # <<>> => from[1] \in User
           /\ \A k \in 2 .. Len(from) : from[k] \in Open
           /\ pc \in {"el0_sync", "el_irq", "eret"} => elr = from[Len(from)]
           /\ pc = "el0_sync" => elr \in {"start", "back"}
           /\ pc \in InCall => Len(from) = 1 /\ from[1] = "back"
<1>1. from \in Seq(Place) /\ Len(from) \in Nat /\ pc \in Place
  BY DEF EntryInv, CpuTypeOK
<1>2. from = <<>> <=> Len(from) = 0
  BY <1>1
<1>3. /\ from = <<>> <=> pc \in User
      /\ from # <<>> => from[1] \in User
      /\ \A k \in 2 .. Len(from) : from[k] \in Open
  BY <1>1, <1>2 DEF EntryInv, Nested
<1>4. /\ pc \in {"el0_sync", "el_irq", "eret"} => elr = from[Len(from)]
      /\ pc = "el0_sync" => elr \in {"start", "back"}
  BY DEF EntryInv, Live, Bare, Top
<1>5. ASSUME pc \in InCall PROVE Len(from) = 1 /\ from[1] = "back"
  <2>1. from # <<>> /\ Len(from) = Len(frames) /\ Len(from) \in 1 .. Len(frames)
    BY <1>1, <1>2, <1>3, <1>5 DEF InCall, EntryInv, Nested, Bare, User
  <2>2. Inside(Len(from)) = pc
    BY <1>1 DEF Inside
  <2>3. from[Len(from)] = "back"
    BY <1>5, <2>1, <2>2 DEF EntryInv, Saved, FrameRight
  <2>4. Len(from) \notin 2 .. Len(from)
    BY <1>3, <2>3 DEF Open
  <2>5. Len(from) = 1
    BY <2>1, <2>4
  <2> QED
    BY <2>3, <2>5
<1> QED
  BY <1>1, <1>2, <1>3, <1>4, <1>5

\* An exception, and the way back from it, leave the program where it is.
LEMMA PendingStays ==
    ASSUME EntryInv, Machine \/ interrupt
    PROVE  Pending' <=> Pending
<1> USE DEF Goto, User, Open, Closed, Place
<1>1. CASE data_abort
  BY <1>1, Stack DEF data_abort, Exception, Pending, Inside
<1>2. CASE svc
  BY <1>2, Stack DEF svc, Exception, Pending, Inside
<1>3. CASE interrupt
  BY <1>3, Stack DEF interrupt, Exception, Pending, Inside
<1>4. CASE eret
  BY <1>4, Stack, PopFacts DEF eret, Pending, Inside
<1>5. CASE kernel_entry
  BY <1>5, Stack DEF kernel_entry, Pending, Inside
<1>6. CASE enable_irq \/ do_mem_abort \/ handle_irq \/ schedule
  BY <1>6, Stack DEF enable_irq, do_mem_abort, handle_irq, schedule, Pending, Inside
<1>7. CASE disable_irq \/ store \/ kernel_exit
  BY <1>7, Stack DEF disable_irq, store, kernel_exit, Pending, Inside
<1> QED
  BY <1>1, <1>2, <1>3, <1>4, <1>5, <1>6, <1>7 DEF Machine

LEMMA PendingEnds ==
    ASSUME EntryInv, sys
    PROVE  Pending /\ ~Pending'
<1>1. pc = "sys" /\ pc' = "sys_done" /\ from' = from
  BY DEF sys, Goto
<1>2. Len(from) = 1 /\ from[1] = "back" /\ from # <<>>
  BY <1>1, Stack DEF InCall, User
<1>3. Inside(1) = "sys" /\ Inside(1)' = "sys_done"
  BY <1>1, <1>2 DEF Inside
<1> QED
  BY <1>1, <1>2, <1>3 DEF Pending

LEMMA PendingAgain ==
    ASSUME EntryInv, proceed
    PROVE  Pending' /\ (Pending <=> pc = "start")
BY Stack DEF proceed, Pending, Inside, User

-----------------------------------------------------------------------------
(* The script, test by test.                                               *)

\* One sequence behind another.
LEMMA Joined ==
    ASSUME NEW s, NEW t, NEW u, Sequence(s), Sequence(t), u = s \o t
    PROVE  /\ Sequence(u) /\ Len(u) = Len(s) + Len(t)
           /\ Len(s) \in Nat /\ Len(t) \in Nat
           /\ \A k \in 1 .. Len(s) : u[k] = s[k]
           /\ \A k \in 1 .. Len(t) : u[Len(s) + k] = t[k]
<1>1. PICK S : s \in Seq(S)
  BY DEF Sequence
<1>2. PICK T : t \in Seq(T)
  BY DEF Sequence
<1>3. s \in Seq(S \cup T) /\ t \in Seq(S \cup T)
  BY <1>1, <1>2
<1>4. u \in Seq(S \cup T)
  BY <1>3
<1> QED
  BY <1>3, <1>4 DEF Sequence

TestOf(call, args, text) == [call |-> call, args |-> args, shows |-> text]

\* The tests in their order.
Plan ==
    <<TestOf("create_file", <<ROOT, file1>>, <<>>),
      TestOf("open_file", <<<<file1>>>>, <<>>),
      TestOf("write_file", <<TVFS_STRING_SIZE>>, <<>>),
      TestOf("read_file", <<TVFS_STRING_SIZE>>, Text),
      TestOf("close_file", <<>>, <<>>),
      TestOf("open_file", <<<<file1>>>>, <<>>),
      TestOf("append_file", <<TVFS_STRING_SIZE>>, <<>>),
      TestOf("read_file", <<2 * TVFS_STRING_SIZE>>, Twice(Text)),
      TestOf("close_file", <<>>, <<>>),
      TestOf("create_dir", <<ROOT, src>>, <<>>),
      TestOf("create_file", <<TVFS_SRC, file2>>, <<>>),
      TestOf("create_file", <<TVFS_SRC, file3>>, <<>>),
      TestOf("open_dir", <<TVFS_SRC>>, <<>>),
      TestOf("get_dir_son", <<>>, <<file2>>),
      TestOf("get_dir_son", <<>>, <<file3>>),
      TestOf("get_dir_son", <<>>, <<"">>),
      TestOf("close_dir", <<>>, <<>>),
      TestOf("delete_file", <<<<src, file2>>>>, <<>>),
      TestOf("open_dir", <<TVFS_SRC>>, <<>>),
      TestOf("get_dir_son", <<>>, <<file3>>),
      TestOf("get_dir_son", <<>>, <<"">>),
      TestOf("close_dir", <<>>, <<>>),
      TestOf("delete_file", <<TVFS_SRC>>, <<>>),
      TestOf("open_dir", <<ROOT>>, <<>>),
      TestOf("get_dir_son", <<>>, <<file1>>),
      TestOf("get_dir_son", <<>>, <<"">>),
      TestOf("close_dir", <<>>, <<>>)>>

\* A sequence is the part of the plan behind its n-th test up to the m-th.
Covers(s, n, m) ==
    /\ n \in Nat /\ m \in Nat /\ n <= m
    /\ Sequence(s) /\ Len(s) = m - n
    /\ \A k \in 1 .. m - n : s[k] = Plan[n + k]

LEMMA PartsJoin ==
    ASSUME NEW s, NEW t, NEW n, NEW m, NEW o, Covers(s, n, m), Covers(t, m, o)
    PROVE  Covers(s \o t, n, o)
<1>1. PICK u : u = s \o t
  OBVIOUS
<1>2. /\ Sequence(u) /\ Len(u) = Len(s) + Len(t)
      /\ \A k \in 1 .. Len(s) : u[k] = s[k]
      /\ \A k \in 1 .. Len(t) : u[Len(s) + k] = t[k]
  <2>1. Sequence(s) /\ Sequence(t)
    BY DEF Covers
  <2>2. Sequence(u) /\ Len(u) = Len(s) + Len(t)
    BY <1>1, <2>1, Joined
  <2>3. \A k \in 1 .. Len(s) : u[k] = s[k]
    BY <1>1, <2>1, Joined
  <2>4. \A k \in 1 .. Len(t) : u[Len(s) + k] = t[k]
    BY <1>1, <2>1, Joined
  <2> QED
    BY <2>2, <2>3, <2>4
<1>3. n \in Nat /\ m \in Nat /\ o \in Nat /\ n <= m /\ m <= o
  BY DEF Covers
<1>4. ASSUME NEW k \in 1 .. o - n PROVE u[k] = Plan[n + k]
  <2>1. CASE k \in 1 .. m - n
    BY <1>2, <2>1 DEF Covers
  <2>2. CASE k \notin 1 .. m - n
    <3>1. PICK j : j = k - (m - n)
      OBVIOUS
    <3>2. j \in 1 .. o - m /\ k = (m - n) + j /\ n + k = m + j
      BY <1>3, <2>2, <3>1
    <3>3. t[j] = Plan[m + j]
      BY <3>2 DEF Covers
    <3>4. u[k] = t[j]
      BY <1>2, <3>2 DEF Covers
    <3> QED
      BY <3>2, <3>3, <3>4
  <2> QED
    BY <2>1, <2>2
<1> QED
  BY <1>1, <1>2, <1>3, <1>4 DEF Covers

LEMMA OnePart ==
    ASSUME NEW n \in Nat, NEW call, NEW args, NEW text,
           Plan[n + 1] = TestOf(call, args, text)
    PROVE  Covers(Shows(call, args, text), n, n + 1)
<1>1. PICK e : e = TestOf(call, args, text)
  OBVIOUS
<1>2. PICK t : t = <<e>>
  OBVIOUS
<1>3. t = Shows(call, args, text)
  BY <1>1, <1>2 DEF Shows, TestOf
<1>4. t \in Seq({e}) /\ Len(t) = 1 /\ t[1] = e
  BY <1>2
<1>5. Sequence(t)
  BY <1>4 DEF Sequence
<1>6. \A k \in 1 .. 1 : t[k] = Plan[n + k]
  BY <1>1, <1>4
<1>7. n + 1 \in Nat /\ n <= n + 1 /\ n + 1 - n = 1
  OBVIOUS
<1> QED
  BY <1>3, <1>4, <1>5, <1>6, <1>7 DEF Covers

LEMMA PlainPart ==
    ASSUME NEW n \in Nat, NEW call, NEW args, Plan[n + 1] = TestOf(call, args, <<>>)
    PROVE  Covers(Test(call, args), n, n + 1)
BY OnePart DEF Test

\* A listing is an open_dir, a test for each name and a close_dir.
LEMMA ListingPart ==
    ASSUME NEW n \in Nat, NEW path, NEW list, Sequence(list),
           Plan[n + 1] = TestOf("open_dir", <<path>>, <<>>),
           \A k \in 1 .. Len(list) :
              Plan[n + 1 + k] = TestOf("get_dir_son", <<>>, <<list[k]>>),
           Plan[n + 1 + Len(list) + 1] = TestOf("close_dir", <<>>, <<>>)
    PROVE  Covers(Listing(path, list), n, n + 1 + Len(list) + 1)
<1> DEFINE f(k) == Shows("get_dir_son", <<>>, <<list[k]>>)[1]
<1>1. Len(list) \in Nat
  BY DEF Sequence
<1>2. \A k : f(k) = TestOf("get_dir_son", <<>>, <<list[k]>>)
  BY DEF Shows, TestOf
<1>3. Listing(path, list) = Test("open_dir", <<path>>)
                            \o [k \in 1 .. Len(list) |-> f(k)]
                            \o Test("close_dir", <<>>)
  BY DEF Listing
<1> HIDE DEF f
<1>4. PICK m : m = [k \in 1 .. Len(list) |-> f(k)]
  OBVIOUS
<1>5. m \in Seq({f(k) : k \in 1 .. Len(list)}) /\ Len(m) = Len(list)
  BY <1>1, <1>4
<1>6. Sequence(m)
  BY <1>5 DEF Sequence
<1>7. \A k \in 1 .. Len(list) : m[k] = Plan[n + 1 + k]
  BY <1>2, <1>4
<1>8. n + 1 \in Nat /\ n + 1 + Len(list) \in Nat /\ n + 1 <= n + 1 + Len(list)
      /\ n + 1 + Len(list) - (n + 1) = Len(list)
  BY <1>1
<1>9. Covers(m, n + 1, n + 1 + Len(list))
  BY <1>5, <1>6, <1>7, <1>8 DEF Covers
<1>10. Covers(Test("open_dir", <<path>>), n, n + 1)
  BY PlainPart
<1>11. Covers(Test("close_dir", <<>>), n + 1 + Len(list), n + 1 + Len(list) + 1)
  BY <1>8, PlainPart
<1>12. Covers(Test("open_dir", <<path>>) \o m, n, n + 1 + Len(list))
  BY <1>9, <1>10, PartsJoin
<1> QED
  BY <1>3, <1>4, <1>11, <1>12, PartsJoin

LEMMA TheTests == Covers(user_process, 0, 27)
<1>1. ASSUME NEW s, NEW n \in Nat, NEW m, m = n + 1, Covers(s, 0, n),
             NEW call, NEW args, NEW text, Plan[m] = TestOf(call, args, text)
      PROVE  Covers(s \o Shows(call, args, text), 0, m)
  BY <1>1, OnePart, PartsJoin
<1>2. ASSUME NEW s, NEW n \in Nat, NEW m, m = n + 1, Covers(s, 0, n),
             NEW call, NEW args, Plan[m] = TestOf(call, args, <<>>)
      PROVE  Covers(s \o Test(call, args), 0, m)
  BY <1>1, <1>2 DEF Test
<1>3. /\ Covers(Listing(TVFS_SRC, <<file2, file3, "">>), 12, 17)
      /\ Covers(Listing(TVFS_SRC, <<file3, "">>), 18, 22)
      /\ Covers(Listing(ROOT, <<file1, "">>), 23, 27)
  <2>1. ASSUME NEW n \in Nat, NEW path, NEW list, NEW l \in Nat, NEW m, NEW o,
               Sequence(list), Len(list) = l, o = n + 1 + l, m = o + 1,
               Plan[n + 1] = TestOf("open_dir", <<path>>, <<>>),
               \A k \in 1 .. l : Plan[n + 1 + k] = TestOf("get_dir_son", <<>>, <<list[k]>>),
               Plan[m] = TestOf("close_dir", <<>>, <<>>)
        PROVE  Covers(Listing(path, list), n, m)
    BY <2>1, ListingPart
  <2>2. ASSUME NEW n \in Nat, NEW path, NEW a, NEW b,
               Plan[n + 1] = TestOf("open_dir", <<path>>, <<>>),
               Plan[n + 2] = TestOf("get_dir_son", <<>>, <<a>>),
               Plan[n + 3] = TestOf("get_dir_son", <<>>, <<b>>),
               Plan[n + 4] = TestOf("close_dir", <<>>, <<>>)
        PROVE  Covers(Listing(path, <<a, b>>), n, n + 4)
    <3>1. PICK list : list = <<a, b>>
      OBVIOUS
    <3>2. list \in Seq({a, b}) /\ Len(list) = 2 /\ list[1] = a /\ list[2] = b
      BY <3>1
    <3>3. Sequence(list)
      BY <3>2 DEF Sequence
    <3>4. \A k \in 1 .. 2 : Plan[n + 1 + k] = TestOf("get_dir_son", <<>>, <<list[k]>>)
      <4>1. n + 1 + 1 = n + 2 /\ n + 1 + 2 = n + 3
        OBVIOUS
      <4>2. /\ Plan[n + 1 + 1] = TestOf("get_dir_son", <<>>, <<list[1]>>)
            /\ Plan[n + 1 + 2] = TestOf("get_dir_son", <<>>, <<list[2]>>)
        BY <2>2, <3>2, <4>1
      <4>3. \A k \in 1 .. 2 : k = 1 \/ k = 2
        OBVIOUS
      <4> QED
        BY <4>2, <4>3
    <3>5. n + 4 = n + 1 + 2 + 1 /\ 2 \in Nat
      OBVIOUS
    <3> QED
      BY <2>1, <2>2, <3>1, <3>2, <3>3, <3>4, <3>5
  <2>3. ASSUME NEW n \in Nat, NEW path, NEW a, NEW b, NEW c,
               Plan[n + 1] = TestOf("open_dir", <<path>>, <<>>),
               Plan[n + 2] = TestOf("get_dir_son", <<>>, <<a>>),
               Plan[n + 3] = TestOf("get_dir_son", <<>>, <<b>>),
               Plan[n + 4] = TestOf("get_dir_son", <<>>, <<c>>),
               Plan[n + 5] = TestOf("close_dir", <<>>, <<>>)
        PROVE  Covers(Listing(path, <<a, b, c>>), n, n + 5)
    <3>1. PICK list : list = <<a, b, c>>
      OBVIOUS
    <3>2. list \in Seq({a, b, c}) /\ Len(list) = 3 /\ list[1] = a /\ list[2] = b /\ list[3] = c
      BY <3>1
    <3>3. Sequence(list)
      BY <3>2 DEF Sequence
    <3>4. \A k \in 1 .. 3 : Plan[n + 1 + k] = TestOf("get_dir_son", <<>>, <<list[k]>>)
      <4>1. n + 1 + 1 = n + 2 /\ n + 1 + 2 = n + 3 /\ n + 1 + 3 = n + 4
        OBVIOUS
      <4>2. /\ Plan[n + 1 + 1] = TestOf("get_dir_son", <<>>, <<list[1]>>)
            /\ Plan[n + 1 + 2] = TestOf("get_dir_son", <<>>, <<list[2]>>)
            /\ Plan[n + 1 + 3] = TestOf("get_dir_son", <<>>, <<list[3]>>)
        BY <2>3, <3>2, <4>1
      <4>3. \A k \in 1 .. 3 : k = 1 \/ k = 2 \/ k = 3
        OBVIOUS
      <4> QED
        BY <4>2, <4>3
    <3>5. n + 5 = n + 1 + 3 + 1 /\ 3 \in Nat
      OBVIOUS
    <3> QED
      BY <2>1, <2>3, <3>1, <3>2, <3>3, <3>4, <3>5
  <2>4. /\ Plan[12 + 1] = TestOf("open_dir", <<TVFS_SRC>>, <<>>)
        /\ Plan[12 + 2] = TestOf("get_dir_son", <<>>, <<file2>>)
        /\ Plan[12 + 3] = TestOf("get_dir_son", <<>>, <<file3>>)
        /\ Plan[12 + 4] = TestOf("get_dir_son", <<>>, <<"">>)
        /\ Plan[12 + 5] = TestOf("close_dir", <<>>, <<>>)
    BY DEF Plan
  <2>5. /\ Plan[18 + 1] = TestOf("open_dir", <<TVFS_SRC>>, <<>>)
        /\ Plan[18 + 2] = TestOf("get_dir_son", <<>>, <<file3>>)
        /\ Plan[18 + 3] = TestOf("get_dir_son", <<>>, <<"">>)
        /\ Plan[18 + 4] = TestOf("close_dir", <<>>, <<>>)
    BY DEF Plan
  <2>6. /\ Plan[23 + 1] = TestOf("open_dir", <<ROOT>>, <<>>)
        /\ Plan[23 + 2] = TestOf("get_dir_son", <<>>, <<file1>>)
        /\ Plan[23 + 3] = TestOf("get_dir_son", <<>>, <<"">>)
        /\ Plan[23 + 4] = TestOf("close_dir", <<>>, <<>>)
    BY DEF Plan
  <2>7. 12 \in Nat /\ 18 \in Nat /\ 23 \in Nat
    OBVIOUS
  <2>8. Covers(Listing(TVFS_SRC, <<file2, file3, "">>), 12, 12 + 5)
    BY <2>3, <2>4, <2>7
  <2>9. Covers(Listing(TVFS_SRC, <<file3, "">>), 18, 18 + 4)
    BY <2>2, <2>5, <2>7
  <2>10. Covers(Listing(ROOT, <<file1, "">>), 23, 23 + 4)
    BY <2>2, <2>6, <2>7
  <2>11. 12 + 5 = 17 /\ 18 + 4 = 22 /\ 23 + 4 = 27
    OBVIOUS
  <2> QED
    BY <2>8, <2>9, <2>10, <2>11
<1> DEFINE a == Test("create_file", <<ROOT, file1>>)
           b == a
                \o Test("open_file", <<<<file1>>>>)
                \o Test("write_file", <<TVFS_STRING_SIZE>>)
                \o Shows("read_file", <<TVFS_STRING_SIZE>>, Text)
                \o Test("close_file", <<>>)
           c == b
                \o Test("open_file", <<<<file1>>>>)
                \o Test("append_file", <<TVFS_STRING_SIZE>>)
                \o Shows("read_file", <<2 * TVFS_STRING_SIZE>>, Twice(Text))
                \o Test("close_file", <<>>)
           d == c
                \o Test("create_dir", <<ROOT, src>>)
                \o Test("create_file", <<TVFS_SRC, file2>>)
                \o Test("create_file", <<TVFS_SRC, file3>>)
           e == d
                \o Listing(TVFS_SRC, <<file2, file3, "">>)
                \o Test("delete_file", <<<<src, file2>>>>)
                \o Listing(TVFS_SRC, <<file3, "">>)
                \o Test("delete_file", <<TVFS_SRC>>)
                \o Listing(ROOT, <<file1, "">>)
<1>4. user_process = e
  BY DEF user_process
<1>5. Covers(a, 0, 1)
  <2>1. Plan[0 + 1] = TestOf("create_file", <<ROOT, file1>>, <<>>)
    BY DEF Plan
  <2> HIDE DEF Plan
  <2> QED
    BY <2>1, PlainPart
<1> HIDE DEF a
<1>6. Covers(b, 0, 5)
  <2>1. /\ Plan[2] = TestOf("open_file", <<<<file1>>>>, <<>>)
        /\ Plan[3] = TestOf("write_file", <<TVFS_STRING_SIZE>>, <<>>)
        /\ Plan[4] = TestOf("read_file", <<TVFS_STRING_SIZE>>, Text)
        /\ Plan[5] = TestOf("close_file", <<>>, <<>>)
    BY DEF Plan
  <2> QED
    BY <1>1, <1>2, <1>5, <2>1
<1> HIDE DEF b
<1>7. Covers(c, 0, 9)
  <2>1. /\ Plan[6] = TestOf("open_file", <<<<file1>>>>, <<>>)
        /\ Plan[7] = TestOf("append_file", <<TVFS_STRING_SIZE>>, <<>>)
        /\ Plan[8] = TestOf("read_file", <<2 * TVFS_STRING_SIZE>>, Twice(Text))
        /\ Plan[9] = TestOf("close_file", <<>>, <<>>)
    BY DEF Plan
  <2> QED
    BY <1>1, <1>2, <1>6, <2>1
<1> HIDE DEF c
<1>8. Covers(d, 0, 12)
  <2>1. /\ Plan[10] = TestOf("create_dir", <<ROOT, src>>, <<>>)
        /\ Plan[11] = TestOf("create_file", <<TVFS_SRC, file2>>, <<>>)
        /\ Plan[12] = TestOf("create_file", <<TVFS_SRC, file3>>, <<>>)
    BY DEF Plan
  <2> QED
    BY <1>1, <1>2, <1>7, <2>1
<1> HIDE DEF d
<1>9. Covers(e, 0, 27)
  <2>1. /\ Plan[18] = TestOf("delete_file", <<<<src, file2>>>>, <<>>)
        /\ Plan[23] = TestOf("delete_file", <<TVFS_SRC>>, <<>>)
    BY DEF Plan
  <2> DEFINE f == d \o Listing(TVFS_SRC, <<file2, file3, "">>)
             g == f \o Test("delete_file", <<<<src, file2>>>>)
             h == g \o Listing(TVFS_SRC, <<file3, "">>)
             i == h \o Test("delete_file", <<TVFS_SRC>>)
  <2>2. Covers(f, 0, 17)
    BY <1>3, <1>8, PartsJoin
  <2> HIDE DEF f
  <2>3. Covers(g, 0, 18)
    <3>1. 18 = 17 + 1 /\ 17 \in Nat
      OBVIOUS
    <3> QED
      BY <1>2, <2>1, <2>2, <3>1
  <2> HIDE DEF g
  <2>4. Covers(h, 0, 22)
    BY <1>3, <2>3, PartsJoin
  <2> HIDE DEF h
  <2>5. Covers(i, 0, 23)
    BY <1>2, <2>1, <2>4
  <2> HIDE DEF i
  <2>6. Covers(i \o Listing(ROOT, <<file1, "">>), 0, 27)
    BY <1>3, <2>5, PartsJoin
  <2> QED
    BY <2>6 DEF f, g, h, i
<1> QED
  BY <1>4, <1>9

-----------------------------------------------------------------------------
(* What the file system holds after each test of the script.               *)

\* The inodes the script gets.
FILE1 == 1
SRC   == 2
FILE2 == 3
FILE3 == 4

Called(i) == CASE i = ROOT_INODE -> "/"
               [] i = FILE1 -> file1
               [] i = SRC -> src
               [] i = FILE2 -> file2
               [] OTHER -> file3

Kind(i)   == IF i \in {ROOT_INODE, SRC} THEN "FOLDER" ELSE "FILE"
Father(i) == IF i = ROOT_INODE THEN NULL
             ELSE IF i \in {FILE1, SRC} THEN ROOT_INODE ELSE SRC

\* The tree, when those of `used' are there.
Links(used) ==
    /\ first_son = [i \in Inode |->
          IF i = ROOT_INODE /\ FILE1 \in used THEN FILE1
          ELSE IF i = SRC /\ FILE2 \in used THEN FILE2
          ELSE IF i = SRC /\ FILE3 \in used THEN FILE3 ELSE NULL]
    /\ brother = [i \in Inode |->
          IF i = FILE1 /\ SRC \in used THEN SRC
          ELSE IF i = FILE2 /\ {FILE2, FILE3} \subseteq used THEN FILE3 ELSE NULL]

Tree(used) ==
    /\ type = [i \in Inode |-> IF i \in used THEN Kind(i) ELSE "EMPTY"]
    /\ father = [i \in Inode |-> IF i \in used THEN Father(i) ELSE NULL]
    /\ Links(used)
    /\ \A i \in used : name[i] = Called(i)

\* The first file holds the n first bytes of what the program writes.
Holds(n) ==
    /\ size = [i \in Inode |-> IF i = FILE1 THEN n ELSE 0]
    /\ \A k \in 0 .. n - 1 : data[FILE1][k] = Twice(Text)[k + 1]

\* One descriptor at most is open; of a folder, its listing is at `son'.
Descriptor(i, son) ==
    /\ fd_inode = [g \in Fd |-> IF g = 0 THEN i ELSE NULL]
    /\ ref = [j \in Inode |-> IF j = i THEN 1 ELSE 0]
    /\ i # NULL => fd = 0
    /\ i \in {ROOT_INODE, SRC} => fd_next_son[0] = son

State(used, n, i, son) == Tree(used) /\ Holds(n) /\ Descriptor(i, son) /\ ~halted

\* After k tests.
Created(k) ==
    {ROOT_INODE}
    \cup (IF k >= 1 THEN {FILE1} ELSE {})
    \cup (IF k >= 10 /\ k < 23 THEN {SRC} ELSE {})
    \cup (IF k >= 11 /\ k < 18 THEN {FILE2} ELSE {})
    \cup (IF k >= 12 /\ k < 23 THEN {FILE3} ELSE {})

Written(k) == IF k < 3 THEN 0 ELSE IF k < 7 THEN TVFS_STRING_SIZE ELSE 2 * TVFS_STRING_SIZE

OpenedOn(k) == IF k \in {2, 3, 4, 6, 7, 8} THEN FILE1
               ELSE IF k \in (13 .. 16) \cup (19 .. 21) THEN SRC
               ELSE IF k \in 24 .. 26 THEN ROOT_INODE ELSE NULL

ListedAt(k) == CASE k = 13 -> FILE2
                 [] k \in {14, 19} -> FILE3
                 [] k = 24 -> FILE1
                 [] OTHER -> NULL

Stage(k) == State(Created(k), Written(k), OpenedOn(k), ListedAt(k))

\* The test finds what it should.
Pleases(t) ==
    /\ IF "n" \in DOMAIN reply THEN reply.n = t.args[1] ELSE reply.ret = "VFS_OK"
    /\ t.shows = IF t.call = "read_file" THEN SubSeq(reply.out, 1, t.args[1])
                 ELSE IF t.call = "get_dir_son" THEN <<reply.son>> ELSE <<>>

\* The tests whose call has been made.
made == IF ~Finished /\ (telling \/ ~Pending) THEN done + 1 ELSE done

ScriptInv ==
    /\ UserInv
    /\ Stage(made)
    /\ ~telling /\ ~Pending => Pleases(test)
    /\ telling /\ ~Finished => line = [ok |-> TRUE, text |-> test.shows]
    /\ Sequence(printed)
    /\ Len(printed) = IF ~Finished /\ telling /\ ~Pending THEN done + 1 ELSE done
    /\ PrintsIntended

-----------------------------------------------------------------------------
(* Lists and paths of the script.                                          *)

LEMMA Numbers ==
    /\ {ROOT_INODE, FILE1, SRC, FILE2, FILE3} \subseteq Inode
    /\ NULL \notin Inode /\ NULL = -1
    /\ ROOT_INODE = 0 /\ FILE1 = 1 /\ SRC = 2 /\ FILE2 = 3 /\ FILE3 = 4
    /\ 0 \in Fd
    /\ file1 \in Names /\ file2 \in Names /\ file3 \in Names /\ src \in Names
    /\ TooLong \notin {file1, file2, file3, src, ""}
    /\ "" \notin {file1, file2, file3, src}
    /\ file1 # src /\ file2 # file3
<1>1. FS_NPAGES \in Nat /\ FS_NPAGES >= 5 /\ MAX_OPEN_FILES \in Nat /\ MAX_OPEN_FILES >= 1
  BY Sizes, ScriptAssumption
<1>2. /\ ROOT_INODE = 0 /\ FILE1 = 1 /\ SRC = 2 /\ FILE2 = 3 /\ FILE3 = 4 /\ NULL = -1
  BY DEF NULL, ROOT_INODE, FILE1, SRC, FILE2, FILE3
<1>3. {0, 1, 2, 3, 4} \subseteq Inode /\ -1 \notin Inode /\ 0 \in Fd
  BY <1>1 DEF Inode, Fd
<1>4. file1 \in Names /\ file2 \in Names /\ file3 \in Names /\ src \in Names
  BY ProgramAssumption
<1>5. TooLong \notin {file1, file2, file3, src, ""}
  BY <1>4, ArgumentsAssumption DEF Name
<1> QED
  BY <1>2, <1>3, <1>4, <1>5, ScriptAssumption

\* The inodes are five, and NULL is none.
LEMMA Five ==
    /\ ROOT_INODE \in Inode /\ FILE1 \in Inode /\ SRC \in Inode
    /\ FILE2 \in Inode /\ FILE3 \in Inode /\ NULL \notin Inode
    /\ ROOT_INODE # FILE1 /\ ROOT_INODE # SRC /\ ROOT_INODE # FILE2 /\ ROOT_INODE # FILE3
    /\ FILE1 # SRC /\ FILE1 # FILE2 /\ FILE1 # FILE3
    /\ SRC # FILE2 /\ SRC # FILE3 /\ FILE2 # FILE3
<1>1. /\ ROOT_INODE \in Inode /\ FILE1 \in Inode /\ SRC \in Inode
      /\ FILE2 \in Inode /\ FILE3 \in Inode /\ NULL \notin Inode
  BY Numbers
<1>2. ROOT_INODE = 0 /\ FILE1 = 1 /\ SRC = 2 /\ FILE2 = 3 /\ FILE3 = 4
  BY Numbers
<1> QED
  BY <1>1, <1>2

LEMMA Namings ==
    /\ file1 \in Names /\ file2 \in Names /\ file3 \in Names /\ src \in Names
    /\ TooLong # file1 /\ TooLong # file2 /\ TooLong # file3 /\ TooLong # src /\ TooLong # ""
    /\ file1 # "" /\ file2 # "" /\ file3 # "" /\ src # ""
    /\ file1 # src /\ file2 # file3
BY Numbers

\* Of a list of one or two sons, get_son_inode finds the one of that name.
LEMMA SonFound ==
    ASSUME brother \in [Inode -> Pointer], NEW dir, NEW token,
           \A i \in Inode : brother[i] # NULL => brother[brother[i]] = NULL,
           NEW a \in Inode, first_son[dir] = a, NEW b, brother[a] = b
    PROVE  get_son_inode(dir, token) =
              IF name[a] = token THEN a
              ELSE IF b # NULL /\ name[b] = token THEN b ELSE NULL
<1> DEFINE F(f) == [s \in Pointer |-> IF s = NULL THEN NULL
                                      ELSE IF name[s] = token THEN s ELSE f[brother[s]]]
           g == [s \in Pointer |-> IF s = NULL THEN NULL
                                   ELSE IF name[s] = token THEN s
                                   ELSE IF brother[s] # NULL /\ name[brother[s]] = token
                                   THEN brother[s] ELSE NULL]
           h == CHOOSE f : f = F(f)
<1>1. NULL \in Pointer /\ \A s \in Pointer : s = NULL \/ s \in Inode
  BY DEF Pointer
<1>2. \A s \in Pointer : s # NULL => brother[s] \in Pointer
  BY <1>1
<1>3. g = F(g)
  <2> SUFFICES ASSUME NEW s \in Pointer PROVE g[s] = F(g)[s]
    OBVIOUS
  <2>1. CASE s = NULL
    BY <2>1
  <2>2. CASE s # NULL
    <3>1. brother[s] \in Pointer /\ (brother[s] # NULL => brother[brother[s]] = NULL)
      BY <1>1, <2>2
    <3> QED
      BY <2>2, <3>1
  <2> QED
    BY <2>1, <2>2
<1>4. h = F(h)
  BY <1>3
<1>5. get_son_inode(dir, token) = h[a]
  BY DEF get_son_inode
<1> HIDE DEF h
<1>6. h[NULL] = NULL /\ \A s \in Inode : h[s] = IF name[s] = token THEN s ELSE h[brother[s]]
  <2>1. NULL \notin Inode
    BY Numbers
  <2> QED
    BY <1>1, <1>4, <2>1 DEF Pointer
<1>7. b \in Pointer /\ (b # NULL => brother[b] = NULL)
  BY <1>2
<1>8. b = NULL \/ b \in Inode
  BY <1>1, <1>7
<1> QED
  BY <1>5, <1>6, <1>7, <1>8

\* One token of a path.
Way(path, k, here) ==
    LET next == IF here = NULL \/ path[k] = TooLong THEN NULL
                ELSE IF path[k] = "" THEN here
                ELSE get_son_inode(here, path[k])
    IN  IF next = NULL THEN NULL
        ELSE IF type[next] = "EMPTY" \/ (type[next] = "FILE" /\ k < Len(path))
        THEN NULL ELSE next

\* Paths of one and of two tokens.
LEMMA Tokens ==
    ASSUME NEW path, path # <<>>, Len(path) \in 1 .. 2
    PROVE  parse_path(path) = IF Len(path) = 1 THEN Way(path, 1, ROOT_INODE)
                              ELSE Way(path, 2, Way(path, 1, ROOT_INODE))
<1> DEFINE W(k, x) == Way(path, k, x)
           n == Len(path)
           F(f) == [k \in 0 .. n |-> IF k = 0 THEN ROOT_INODE ELSE W(k, f[k - 1])]
           g == [k \in 0 .. n |-> IF k = 0 THEN ROOT_INODE
                                  ELSE IF k = 1 THEN W(1, ROOT_INODE)
                                  ELSE W(2, W(1, ROOT_INODE))]
           h == CHOOSE f : f = F(f)
<1>1. parse_path(path) = h[n]
  BY DEF parse_path, Way
<1>2. n \in 1 .. 2
  OBVIOUS
<1> HIDE DEF W, n
<1>3. g = F(g)
  <2> SUFFICES ASSUME NEW k \in 0 .. n PROVE g[k] = F(g)[k]
    OBVIOUS
  <2>1. k = 0 \/ k = 1 \/ (k = 2 /\ n = 2)
    BY <1>2
  <2>2. 0 \in 0 .. n /\ 1 \in 0 .. n
    BY <1>2
  <2>3. CASE k = 0
    BY <2>3
  <2>4. CASE k = 1
    BY <2>2, <2>4
  <2>5. CASE k = 2 /\ n = 2
    BY <2>2, <2>5
  <2> QED
    BY <2>1, <2>3, <2>4, <2>5
<1>4. h = F(h)
  BY <1>3
<1> HIDE DEF h
<1>5. h[0] = ROOT_INODE /\ h[1] = W(1, h[0]) /\ (n = 2 => h[2] = W(2, h[1]))
  <2>1. 0 \in 0 .. n /\ 1 \in 0 .. n /\ (n = 2 => 2 \in 0 .. n)
    BY <1>2
  <2>2. 1 - 1 = 0 /\ 2 - 1 = 1 /\ 1 # 0 /\ 2 # 0
    OBVIOUS
  <2>3. h[0] = ROOT_INODE
    BY <1>4, <2>1
  <2>4. h[1] = W(1, h[0])
    BY <1>4, <2>1
  <2>5. n = 2 => h[2] = W(2, h[1])
    BY <1>4, <2>1
  <2> QED
    BY <2>3, <2>4, <2>5
<1>6. n = 1 \/ n = 2
  BY <1>2
<1>7. h[n] = IF n = 1 THEN W(1, ROOT_INODE) ELSE W(2, W(1, ROOT_INODE))
  BY <1>5, <1>6
<1> QED
  BY <1>1, <1>7 DEF W, n

LEMMA OneToken ==
    ASSUME NEW a, NEW path, path = <<a>>
    PROVE  /\ Len(path) = 1 /\ path[1] = a
           /\ parse_path(path) = Way(path, 1, ROOT_INODE)
<1>1. Len(path) = 1 /\ path[1] = a /\ path # <<>>
  OBVIOUS
<1> QED
  BY <1>1, Tokens

LEMMA TwoTokens ==
    ASSUME NEW a, NEW b, NEW path, path = <<a, b>>
    PROVE  /\ Len(path) = 2 /\ path[1] = a /\ path[2] = b
           /\ parse_path(path) = Way(path, 2, Way(path, 1, ROOT_INODE))
<1>1. Len(path) = 2 /\ path[1] = a /\ path[2] = b /\ path # <<>>
  OBVIOUS
<1> QED
  BY <1>1, Tokens

\* No list of the script's tree is longer than two.
Shallow ==
    /\ brother \in [Inode -> Pointer]
    /\ \A i \in Inode : brother[i] # NULL => brother[brother[i]] = NULL

LEMMA ShortLists ==
    ASSUME TypeInv, NEW used, Tree(used)
    PROVE  Shallow
<1>1. brother \in [Inode -> Pointer]
  BY DEF TypeInv, TypeOK
<1>2. \A i \in Inode : brother[i] = IF i = FILE1 /\ SRC \in used THEN SRC
                                    ELSE IF i = FILE2 /\ {FILE2, FILE3} \subseteq used
                                    THEN FILE3 ELSE NULL
  BY DEF Tree, Links
<1> QED
  BY <1>1, <1>2, Five DEF Shallow

LEMMA PathsLead ==
    ASSUME TypeInv, NEW used, Tree(used), ROOT_INODE \in used
    PROVE  /\ parse_path(ROOT) = ROOT_INODE
           /\ FILE1 \in used => parse_path(<<file1>>) = FILE1
           /\ {FILE1, SRC} \subseteq used => parse_path(TVFS_SRC) = SRC
           /\ {FILE1, SRC, FILE2} \subseteq used => parse_path(<<src, file2>>) = FILE2
<1>1. /\ \A i \in Inode : type[i] = IF i \in used THEN Kind(i) ELSE "EMPTY"
      /\ \A i \in used : name[i] = Called(i)
      /\ FILE1 \in used => first_son[ROOT_INODE] = FILE1
      /\ FILE2 \in used => first_son[SRC] = FILE2
      /\ brother[FILE1] = IF SRC \in used THEN SRC ELSE NULL
      /\ brother[FILE2] = IF {FILE2, FILE3} \subseteq used THEN FILE3 ELSE NULL
  BY Five DEF Tree, Links
<1>2. Shallow
  BY ShortLists
<1>3. /\ Kind(ROOT_INODE) = "FOLDER" /\ Kind(SRC) = "FOLDER"
      /\ Kind(FILE1) = "FILE" /\ Kind(FILE2) = "FILE"
      /\ Called(FILE1) = file1 /\ Called(SRC) = src /\ Called(FILE2) = file2
  BY Five DEF Kind, Called
<1>4. /\ type[ROOT_INODE] = "FOLDER"
      /\ FILE1 \in used => type[FILE1] = "FILE"
      /\ SRC \in used => type[SRC] = "FOLDER"
      /\ FILE2 \in used => type[FILE2] = "FILE"
  BY <1>1, <1>3, Five
<1>5. ASSUME FILE1 \in used PROVE get_son_inode(ROOT_INODE, file1) = FILE1
  <2>1. PICK b : brother[FILE1] = b
    OBVIOUS
  <2>2. first_son[ROOT_INODE] = FILE1 /\ name[FILE1] = file1
    BY <1>1, <1>3, <1>5
  <2> QED
    BY <1>2, <2>1, <2>2, Five, SonFound DEF Shallow
<1>6. ASSUME {FILE1, SRC} \subseteq used PROVE get_son_inode(ROOT_INODE, src) = SRC
  <2>1. first_son[ROOT_INODE] = FILE1 /\ brother[FILE1] = SRC
    BY <1>1, <1>6
  <2>2. name[FILE1] # src /\ name[SRC] = src /\ SRC # NULL
    BY <1>1, <1>3, <1>6, Five, Namings
  <2> QED
    BY <1>2, <2>1, <2>2, Five, SonFound DEF Shallow
<1>7. ASSUME FILE2 \in used PROVE get_son_inode(SRC, file2) = FILE2
  <2>1. PICK b : brother[FILE2] = b
    OBVIOUS
  <2>2. first_son[SRC] = FILE2 /\ name[FILE2] = file2
    BY <1>1, <1>3, <1>7
  <2> QED
    BY <1>2, <2>1, <2>2, Five, SonFound DEF Shallow
<1>8. parse_path(ROOT) = ROOT_INODE
  <2>1. PICK path : path = ROOT
    OBVIOUS
  <2>2. Len(path) = 1 /\ path[1] = "" /\ parse_path(path) = Way(path, 1, ROOT_INODE)
    BY <2>1, OneToken DEF ROOT
  <2>3. Way(path, 1, ROOT_INODE) = ROOT_INODE
    BY <1>4, <2>2, Five, Namings DEF Way
  <2> QED
    BY <2>1, <2>2, <2>3
<1>9. ASSUME FILE1 \in used PROVE parse_path(<<file1>>) = FILE1
  <2>1. PICK path : path = <<file1>>
    OBVIOUS
  <2>2. Len(path) = 1 /\ path[1] = file1 /\ parse_path(path) = Way(path, 1, ROOT_INODE)
    BY <2>1, OneToken
  <2>3. Way(path, 1, ROOT_INODE) = FILE1
    <3>1. type[FILE1] = "FILE" /\ ~(1 < Len(path))
      BY <1>4, <1>9, <2>2
    <3>2. path[1] # TooLong /\ path[1] # "" /\ get_son_inode(ROOT_INODE, path[1]) = FILE1
      BY <1>5, <1>9, <2>2, Namings
    <3> QED
      BY <3>1, <3>2, Five DEF Way
  <2> QED
    BY <2>1, <2>2, <2>3
<1>10. ASSUME {FILE1, SRC} \subseteq used PROVE parse_path(TVFS_SRC) = SRC
  <2>1. PICK path : path = TVFS_SRC
    OBVIOUS
  <2>2. /\ Len(path) = 2 /\ path[1] = src /\ path[2] = ""
        /\ parse_path(path) = Way(path, 2, Way(path, 1, ROOT_INODE))
    BY <2>1, TwoTokens DEF TVFS_SRC
  <2>3. Way(path, 1, ROOT_INODE) = SRC
    BY <1>4, <1>6, <1>10, <2>2, Five, Namings DEF Way
  <2>4. Way(path, 2, SRC) = SRC
    BY <1>4, <1>10, <2>2, Five, Namings DEF Way
  <2> QED
    BY <2>1, <2>2, <2>3, <2>4
<1>11. ASSUME {FILE1, SRC, FILE2} \subseteq used PROVE parse_path(<<src, file2>>) = FILE2
  <2>1. PICK path : path = <<src, file2>>
    OBVIOUS
  <2>2. /\ Len(path) = 2 /\ path[1] = src /\ path[2] = file2
        /\ parse_path(path) = Way(path, 2, Way(path, 1, ROOT_INODE))
    BY <2>1, TwoTokens
  <2>3. Way(path, 1, ROOT_INODE) = SRC
    BY <1>4, <1>6, <1>11, <2>2, Five, Namings DEF Way
  <2>4. Way(path, 2, SRC) = FILE2
    <3>1. type[FILE2] = "FILE" /\ ~(2 < Len(path))
      BY <1>4, <1>11, <2>2
    <3>2. path[2] # TooLong /\ path[2] # "" /\ get_son_inode(SRC, path[2]) = FILE2
      BY <1>7, <1>11, <2>2, Namings
    <3> QED
      BY <3>1, <3>2, Five DEF Way
  <2> QED
    BY <2>1, <2>2, <2>3, <2>4
<1> QED
  BY <1>8, <1>9, <1>10, <1>11

-----------------------------------------------------------------------------
(* What the calls of the script do to the file system.                     *)

\* alloc_inode, when the folder has one son or none and `new' is the first
\* free inode.
LEMMA Hooked ==
    ASSUME TypeInv, NEW dir \in Inode, NEW new \in Inode, NEW got \in Inode, NEW nm, NEW kind,
           alloc_inode(got, nm, dir, kind),
           ~Used(new), \A i \in Inode : i < new => Used(i),
           NEW first, first = first_son[dir], first # NULL => brother[first] = NULL
    PROVE  /\ got = new
           /\ type' = [type EXCEPT ![new] = kind]
           /\ name' = [name EXCEPT ![new] = nm]
           /\ father' = [father EXCEPT ![new] = dir]
           /\ first_son' = IF first = NULL THEN [first_son EXCEPT ![dir] = new] ELSE first_son
           /\ brother' = IF first = NULL THEN brother ELSE [brother EXCEPT ![first] = new]
           /\ UNCHANGED <<size, ref, data>>
<1>1. got = new
  <2>1. new \in 0 .. FS_NPAGES - 1 /\ got \in 0 .. FS_NPAGES - 1
    BY DEF Inode
  <2>2. ~(got < new)
    BY DEF alloc_inode, Used
  <2>3. ~(new < got)
    <3> SUFFICES ASSUME new < got PROVE FALSE
      OBVIOUS
    <3>1. new \in 0 .. got - 1
      BY <2>1, Sizes
    <3> QED
      BY <3>1 DEF alloc_inode
  <2> QED
    BY <2>1, <2>2, <2>3, Sizes
<1>2. first = NULL \/ first \in Inode
  BY DEF TypeInv, TypeOK, Pointer
<1>3. CASE first = NULL
  BY <1>1, <1>3 DEF alloc_inode
<1>4. CASE first # NULL
  <2>1. Ahead(first) = {first}
    <3>1. Ahead(first) = {first} \cup Ahead(NULL)
      BY <1>2, <1>4, LinkTypesHold, AheadStep DEF Pointer
    <3> QED
      BY <3>1, AheadNull
  <2>2. \A last \in Inode : IsLastChild(dir, last) => last = first
    BY <2>1 DEF IsLastChild, Sons
  <2>3. brother' = [brother EXCEPT ![first] = new] /\ UNCHANGED first_son
    BY <1>1, <1>4, <2>2 DEF alloc_inode
  <2> QED
    BY <1>1, <1>4, <2>3 DEF alloc_inode
<1> QED
  BY <1>3, <1>4

\* One inode more.
LEMMA Planted ==
    ASSUME TypeInv, NEW used, NEW n, State(used, n, NULL, NULL), NEW path, NEW nm, NEW kind,
           NEW dir \in used \cap Inode, parse_path(path) = dir, Kind(dir) = "FOLDER",
           NEW new \in Inode \ used, \A i \in Inode : i < new => i \in used,
           nm = Called(new), nm \in Names, kind = Kind(new),
           NEW first, first = first_son[dir], first # NULL => brother[first] = NULL,
           create(kind, path, nm)
    PROVE  /\ reply' = [ret |-> "VFS_OK"]
           /\ type' = [type EXCEPT ![new] = kind]
           /\ name' = [name EXCEPT ![new] = nm]
           /\ father' = [father EXCEPT ![new] = dir]
           /\ first_son' = IF first = NULL THEN [first_son EXCEPT ![dir] = new] ELSE first_son
           /\ brother' = IF first = NULL THEN brother ELSE [brother EXCEPT ![first] = new]
           /\ Holds(n)' /\ Descriptor(NULL, NULL)' /\ ~halted'
<1>1. \A i \in Inode : Used(i) <=> i \in used
  BY DEF State, Tree, Links, Used, Kind
<1>2. type[dir] = "FOLDER" /\ dir \in Pointer /\ dir # NULL
  BY Five DEF State, Tree, Pointer
<1>3. IsFolder(dir) /\ ~Used(new)
  BY <1>1, <1>2 DEF IsFolder
<1>4. PICK got \in Inode : alloc_inode(got, nm, dir, kind)
  BY <1>2, <1>3 DEF create
<1>5. reply' = [ret |-> "VFS_OK"] /\ UNCHANGED <<fds, halted>>
  BY <1>2, <1>3 DEF create
<1>6. /\ type' = [type EXCEPT ![new] = kind]
      /\ name' = [name EXCEPT ![new] = nm]
      /\ father' = [father EXCEPT ![new] = dir]
      /\ first_son' = IF first = NULL THEN [first_son EXCEPT ![dir] = new] ELSE first_son
      /\ brother' = IF first = NULL THEN brother ELSE [brother EXCEPT ![first] = new]
      /\ UNCHANGED <<size, ref, data>>
  BY <1>1, <1>3, <1>4, Hooked
<1>7. Holds(n)' /\ Descriptor(NULL, NULL)' /\ ~halted'
  BY <1>5, <1>6, Five DEF State, Holds, Descriptor, fds
<1> QED
  BY <1>5, <1>6, <1>7

LEMMA Grown ==
    ASSUME TypeInv, NEW used, Tree(used), NEW new \in Inode \ used, NEW dir, dir = Father(new),
           new # ROOT_INODE,
           type' = [type EXCEPT ![new] = Kind(new)],
           name' = [name EXCEPT ![new] = Called(new)],
           father' = [father EXCEPT ![new] = dir],
           Links(used \cup {new})'
    PROVE  Tree(used \cup {new})'
<1> DEFINE more == used \cup {new}
<1>1. type' = [i \in Inode |-> IF i \in more THEN Kind(i) ELSE "EMPTY"]
  BY DEF Tree, Links
<1>2. father' = [i \in Inode |-> IF i \in more THEN Father(i) ELSE NULL]
  BY DEF Tree, Links
<1>3. \A i \in more : name'[i] = Called(i)
  BY DEF Tree, TypeInv, TypeOK
<1> QED
  BY <1>1, <1>2, <1>3 DEF Tree, Links

LEMMA CreateStage ==
    ASSUME TypeInv, NEW n, NEW used, State(used, n, NULL, NULL)
    PROVE  /\ used = {ROOT_INODE} /\ create_file(ROOT, file1)
              => State(used \cup {FILE1}, n, NULL, NULL)' /\ reply' = [ret |-> "VFS_OK"]
           /\ used = {ROOT_INODE, FILE1} /\ create_dir(ROOT, src)
              => State(used \cup {SRC}, n, NULL, NULL)' /\ reply' = [ret |-> "VFS_OK"]
           /\ used = {ROOT_INODE, FILE1, SRC} /\ create_file(TVFS_SRC, file2)
              => State(used \cup {FILE2}, n, NULL, NULL)' /\ reply' = [ret |-> "VFS_OK"]
           /\ used = {ROOT_INODE, FILE1, SRC, FILE2} /\ create_file(TVFS_SRC, file3)
              => State(used \cup {FILE3}, n, NULL, NULL)' /\ reply' = [ret |-> "VFS_OK"]
<1>1. Tree(used)
  BY DEF State
<1>2. /\ Kind(ROOT_INODE) = "FOLDER" /\ Kind(SRC) = "FOLDER"
      /\ Kind(FILE1) = "FILE" /\ Kind(FILE2) = "FILE" /\ Kind(FILE3) = "FILE"
  BY Five DEF Kind
<1>3. /\ Called(FILE1) = file1 /\ Called(SRC) = src
      /\ Called(FILE2) = file2 /\ Called(FILE3) = file3
  BY Five DEF Called
<1>4. /\ Father(FILE1) = ROOT_INODE /\ Father(SRC) = ROOT_INODE
      /\ Father(FILE2) = SRC /\ Father(FILE3) = SRC
  BY Five DEF Father
<1>5. \A i \in Inode : i \in Int /\ i >= 0
  BY DEF Inode
<1>6. /\ \A i \in Inode : i < FILE1 => i = ROOT_INODE
      /\ \A i \in Inode : i < SRC => i \in {ROOT_INODE, FILE1}
      /\ \A i \in Inode : i < FILE2 => i \in {ROOT_INODE, FILE1, SRC}
      /\ \A i \in Inode : i < FILE3 => i \in {ROOT_INODE, FILE1, SRC, FILE2}
  BY <1>5 DEF ROOT_INODE, FILE1, SRC, FILE2, FILE3
<1>7. file1 \in Names /\ file2 \in Names /\ file3 \in Names /\ src \in Names
  BY Namings
<1>8. ASSUME used = {ROOT_INODE}, create_file(ROOT, file1)
      PROVE  State(used \cup {FILE1}, n, NULL, NULL)' /\ reply' = [ret |-> "VFS_OK"]
  <2>1. first_son[ROOT_INODE] = NULL
    BY <1>1, <1>8, Five DEF Tree, Links
  <2>2. parse_path(ROOT) = ROOT_INODE
    BY <1>1, <1>8, PathsLead
  <2>3. /\ reply' = [ret |-> "VFS_OK"]
        /\ type' = [type EXCEPT ![FILE1] = Kind(FILE1)]
        /\ name' = [name EXCEPT ![FILE1] = Called(FILE1)]
        /\ father' = [father EXCEPT ![FILE1] = ROOT_INODE]
        /\ first_son' = [first_son EXCEPT ![ROOT_INODE] = FILE1]
        /\ brother' = brother
        /\ Holds(n)' /\ Descriptor(NULL, NULL)' /\ ~halted'
    BY <1>2, <1>3, <1>6, <1>7, <1>8, <2>1, <2>2, Five, Planted DEF create_file
  <2>4. Links(used \cup {FILE1})'
    BY <1>1, <1>8, <2>3, Five DEF Tree, Links
  <2>5. Tree(used \cup {FILE1})'
    BY <1>1, <1>4, <1>8, <2>3, <2>4, Five, Grown
  <2> QED
    BY <2>3, <2>5 DEF State
<1>9. ASSUME used = {ROOT_INODE, FILE1}, create_dir(ROOT, src)
      PROVE  State(used \cup {SRC}, n, NULL, NULL)' /\ reply' = [ret |-> "VFS_OK"]
  <2>1. first_son[ROOT_INODE] = FILE1 /\ brother[FILE1] = NULL
    BY <1>1, <1>9, Five DEF Tree, Links
  <2>2. parse_path(ROOT) = ROOT_INODE
    BY <1>1, <1>9, PathsLead
  <2>3. /\ reply' = [ret |-> "VFS_OK"]
        /\ type' = [type EXCEPT ![SRC] = Kind(SRC)]
        /\ name' = [name EXCEPT ![SRC] = Called(SRC)]
        /\ father' = [father EXCEPT ![SRC] = ROOT_INODE]
        /\ first_son' = first_son
        /\ brother' = [brother EXCEPT ![FILE1] = SRC]
        /\ Holds(n)' /\ Descriptor(NULL, NULL)' /\ ~halted'
    BY <1>2, <1>3, <1>6, <1>7, <1>9, <2>1, <2>2, Five, Planted DEF create_dir
  <2>4. Links(used \cup {SRC})'
    BY <1>1, <1>9, <2>3, Five DEF Tree, Links
  <2>5. Tree(used \cup {SRC})'
    BY <1>1, <1>4, <1>9, <2>3, <2>4, Five, Grown
  <2> QED
    BY <2>3, <2>5 DEF State
<1>10. ASSUME used = {ROOT_INODE, FILE1, SRC}, create_file(TVFS_SRC, file2)
      PROVE  State(used \cup {FILE2}, n, NULL, NULL)' /\ reply' = [ret |-> "VFS_OK"]
  <2>1. first_son[SRC] = NULL
    BY <1>1, <1>10, Five DEF Tree, Links
  <2>2. parse_path(TVFS_SRC) = SRC
    BY <1>1, <1>10, PathsLead
  <2>3. /\ reply' = [ret |-> "VFS_OK"]
        /\ type' = [type EXCEPT ![FILE2] = Kind(FILE2)]
        /\ name' = [name EXCEPT ![FILE2] = Called(FILE2)]
        /\ father' = [father EXCEPT ![FILE2] = SRC]
        /\ first_son' = [first_son EXCEPT ![SRC] = FILE2]
        /\ brother' = brother
        /\ Holds(n)' /\ Descriptor(NULL, NULL)' /\ ~halted'
    BY <1>2, <1>3, <1>6, <1>7, <1>10, <2>1, <2>2, Five, Planted DEF create_file
  <2>4. Links(used \cup {FILE2})'
    BY <1>1, <1>10, <2>3, Five DEF Tree, Links
  <2>5. Tree(used \cup {FILE2})'
    BY <1>1, <1>4, <1>10, <2>3, <2>4, Five, Grown
  <2> QED
    BY <2>3, <2>5 DEF State
<1>11. ASSUME used = {ROOT_INODE, FILE1, SRC, FILE2}, create_file(TVFS_SRC, file3)
      PROVE  State(used \cup {FILE3}, n, NULL, NULL)' /\ reply' = [ret |-> "VFS_OK"]
  <2>1. first_son[SRC] = FILE2 /\ brother[FILE2] = NULL
    BY <1>1, <1>11, Five DEF Tree, Links
  <2>2. parse_path(TVFS_SRC) = SRC
    BY <1>1, <1>11, PathsLead
  <2>3. /\ reply' = [ret |-> "VFS_OK"]
        /\ type' = [type EXCEPT ![FILE3] = Kind(FILE3)]
        /\ name' = [name EXCEPT ![FILE3] = Called(FILE3)]
        /\ father' = [father EXCEPT ![FILE3] = SRC]
        /\ first_son' = first_son
        /\ brother' = [brother EXCEPT ![FILE2] = FILE3]
        /\ Holds(n)' /\ Descriptor(NULL, NULL)' /\ ~halted'
    BY <1>2, <1>3, <1>6, <1>7, <1>11, <2>1, <2>2, Five, Planted DEF create_file
  <2>4. Links(used \cup {FILE3})'
    BY <1>1, <1>11, <2>3, Five DEF Tree, Links
  <2>5. Tree(used \cup {FILE3})'
    BY <1>1, <1>4, <1>11, <2>3, <2>4, Five, Grown
  <2> QED
    BY <2>3, <2>5 DEF State
<1> QED
  BY <1>8, <1>9, <1>10, <1>11

\* With no descriptor open, the first is taken.
LEMMA OpenStage ==
    ASSUME TypeInv, NEW n, NEW used, State(used, n, NULL, NULL),
           NEW path, NEW i \in used \cap Inode, parse_path(path) = i,
           NEW kind, kind = Kind(i), NEW badPath,
           NEW slot \in Fd, open(kind, badPath, path, slot), fd' = Kept(reply')
    PROVE  /\ \A son : (kind = "FOLDER" => son = first_son[i]) => State(used, n, i, son)'
           /\ reply'.ret = "VFS_OK" /\ "n" \notin DOMAIN reply'
<1>1. slot = 0
  <2>1. 0 \in Fd /\ slot \in Nat
    <3>1. slot \in Nat
      BY Sizes DEF Fd
    <3> QED
      BY <3>1, Numbers
  <2>2. fd_inode[0] = NULL
    BY <2>1 DEF State, Descriptor
  <2>3. \A g \in 0 .. slot - 1 : fd_inode[g] # NULL
    BY DEF open, IsNextFd
  <2>4. slot > 0 => 0 \in 0 .. slot - 1
    BY <2>1
  <2> QED
    BY <2>1, <2>2, <2>3, <2>4
<1>2. type[i] = kind /\ i \in Pointer /\ i # NULL
  BY Five DEF State, Tree, Pointer
<1>3. /\ fd_inode' = [fd_inode EXCEPT ![0] = i]
      /\ Rewind(kind, 0, i)
      /\ ref' = [ref EXCEPT ![i] = @ + 1]
      /\ reply' = [ret |-> "VFS_OK", fd |-> 0]
      /\ UNCHANGED <<type, name, father, brother, first_son, size, data, halted>>
  BY <1>1, <1>2 DEF open
<1>4. fd' = 0
  BY <1>3 DEF Kept
<1>5. kind = IF i \in {ROOT_INODE, SRC} THEN "FOLDER" ELSE "FILE"
  BY DEF Kind
<1>6. kind = "FOLDER" => fd_next_son'[0] = first_son[i]
  BY <1>3, Numbers DEF Rewind, TypeInv, TypeOK
<1>7. Tree(used)' /\ Holds(n)' /\ ~halted'
  BY <1>3 DEF State, Tree, Links, Holds
<1>8. fd_inode' = [g \in Fd |-> IF g = 0 THEN i ELSE NULL]
  BY <1>3 DEF State, Descriptor
<1>9. ref' = [j \in Inode |-> IF j = i THEN 1 ELSE 0]
  BY <1>3, Five DEF State, Descriptor
<1>10. ASSUME NEW son, kind = "FOLDER" => son = first_son[i]
       PROVE  State(used, n, i, son)'
  BY <1>4, <1>5, <1>6, <1>7, <1>8, <1>9, <1>10 DEF State, Descriptor
<1>11. reply'.ret = "VFS_OK" /\ "n" \notin DOMAIN reply'
  BY <1>3
<1> QED
  BY <1>10, <1>11

\* The call closes it again.
LEMMA CloseStage ==
    ASSUME TypeInv, NEW n, NEW used, NEW i \in Inode, NEW son, State(used, n, i, son),
           NEW call, close(call, fd)
    PROVE  /\ State(used, n, NULL, NULL)'
           /\ reply'.ret = "VFS_OK" /\ "n" \notin DOMAIN reply'
<1>1. fd = 0 /\ fd_inode[0] = i /\ 0 \in Fd /\ i # NULL
  BY Numbers, Five DEF State, Descriptor
<1>2. Opened(0)
  BY <1>1 DEF Opened
<1>3. /\ ref' = [ref EXCEPT ![i] = @ - 1]
      /\ fd_inode' = [fd_inode EXCEPT ![0] = NULL]
      /\ reply' = [ret |-> "VFS_OK", fd |-> -1]
      /\ UNCHANGED <<type, name, father, brother, first_son, size, data, halted>>
  BY <1>1, <1>2 DEF close
<1>4. Tree(used)' /\ Holds(n)' /\ ~halted'
  BY <1>3 DEF State, Tree, Links, Holds
<1>5. fd_inode' = [g \in Fd |-> IF g = 0 THEN NULL ELSE NULL]
  BY <1>3 DEF State, Descriptor
<1>6. ref' = [j \in Inode |-> IF j = NULL THEN 1 ELSE 0]
  BY <1>3, Five DEF State, Descriptor
<1>7. Descriptor(NULL, NULL)'
  BY <1>5, <1>6, Five DEF Descriptor
<1>8. reply'.ret = "VFS_OK" /\ "n" \notin DOMAIN reply'
  BY <1>3
<1> QED
  BY <1>4, <1>7, <1>8 DEF State

\* A listing goes from son to son.
LEMMA ListStage ==
    ASSUME TypeInv, NEW n, NEW used, NEW i \in used \cap Inode, Kind(i) = "FOLDER",
           NEW son, State(used, n, i, son), son = NULL \/ son \in used \cap Inode,
           get_next_dir_son(fd), fd' = Kept(reply'),
           NEW next, next = IF son = NULL THEN NULL ELSE brother[son]
    PROVE  /\ State(used, n, i, next)'
           /\ reply'.ret = "VFS_OK" /\ "n" \notin DOMAIN reply'
           /\ reply'.son = IF son = NULL THEN "" ELSE Called(son)
<1>1. fd = 0 /\ fd_inode[0] = i /\ 0 \in Fd /\ i # NULL
  BY Numbers, Five DEF State, Descriptor
<1>2. i \in {ROOT_INODE, SRC} /\ fd_next_son[0] = son
  BY <1>1 DEF State, Descriptor, Kind
<1>3. Opened(0) /\ type[fd_inode[0]] = "FOLDER"
  BY <1>1 DEF Opened, State, Tree
<1>4. /\ reply' = [ret |-> "VFS_OK", son |-> IF son = NULL THEN "" ELSE name[son]]
      /\ fd_next_son' = IF son = NULL THEN fd_next_son
                        ELSE [fd_next_son EXCEPT ![0] = brother[son]]
      /\ UNCHANGED <<inodes, fd_inode, fd_next, halted>>
  BY <1>1, <1>2, <1>3 DEF get_next_dir_son
<1>5. fd' = 0
  BY <1>1, <1>4 DEF Kept
<1>6. fd_next_son'[0] = next
  BY <1>1, <1>2, <1>4 DEF TypeInv, TypeOK
<1>7. Tree(used)' /\ Holds(n)' /\ ~halted'
  BY <1>4 DEF State, Tree, Links, Holds, inodes
<1>8. UNCHANGED <<fd_inode, ref>>
  BY <1>4 DEF inodes
<1>9. State(used, n, i, next)'
  BY <1>5, <1>6, <1>7, <1>8 DEF State, Descriptor
<1>10. son # NULL => name[son] = Called(son)
  BY DEF State, Tree
<1>11. reply'.ret = "VFS_OK" /\ "n" \notin DOMAIN reply'
       /\ reply'.son = IF son = NULL THEN "" ELSE name[son]
  BY <1>4
<1> QED
  BY <1>9, <1>10, <1>11

\* The bytes the program writes, once and twice.
LEMMA Bytes ==
    /\ TVFS_STRING_SIZE \in Nat /\ 2 * TVFS_STRING_SIZE < FS_NPAGES
    /\ Text \in Seq(Byte) /\ Len(Text) = TVFS_STRING_SIZE
    /\ Twice(Text) \in Seq(Byte) /\ Len(Twice(Text)) = 2 * TVFS_STRING_SIZE
    /\ \A k \in 0 .. TVFS_STRING_SIZE - 1 :
          /\ Text[k + 1] = TVFS_STRING[k]
          /\ Twice(Text)[k + 1] = TVFS_STRING[k]
          /\ Twice(Text)[TVFS_STRING_SIZE + k + 1] = TVFS_STRING[k]
<1>1. TVFS_STRING_SIZE \in Nat /\ 2 * TVFS_STRING_SIZE < FS_NPAGES
  BY ProgramAssumption
<1>2. \A k \in 1 .. TVFS_STRING_SIZE : TVFS_STRING[k - 1] \in Byte
  <2>1. \A k \in 1 .. TVFS_STRING_SIZE : k - 1 \in Offset
    BY <1>1, Sizes DEF Offset
  <2> QED
    BY <2>1, ProgramAssumption
<1>3. PICK t : t = Text
  OBVIOUS
<1>4. t \in Seq(Byte) /\ Len(t) = TVFS_STRING_SIZE
      /\ \A k \in 1 .. TVFS_STRING_SIZE : t[k] = TVFS_STRING[k - 1]
  BY <1>1, <1>2, <1>3 DEF Text
<1>5. PICK u : u = t \o t
  OBVIOUS
<1>6. u \in Seq(Byte) /\ Len(u) = 2 * TVFS_STRING_SIZE
  <2>1. \A s \in Seq(Byte) : s \o s \in Seq(Byte) /\ Len(s \o s) = Len(s) + Len(s)
    OBVIOUS
  <2>2. u \in Seq(Byte) /\ Len(u) = Len(t) + Len(t)
    BY <1>4, <1>5, <2>1
  <2> QED
    BY <1>1, <1>4, <2>2
<1>7. \A k \in 1 .. TVFS_STRING_SIZE : u[k] = t[k] /\ u[TVFS_STRING_SIZE + k] = t[k]
  <2>1. Sequence(t)
    BY <1>4 DEF Sequence
  <2>2. \A k \in 1 .. Len(t) : u[k] = t[k]
    BY <1>5, <2>1, Joined
  <2>3. \A k \in 1 .. Len(t) : u[Len(t) + k] = t[k]
    BY <1>5, <2>1, Joined
  <2> QED
    BY <1>4, <2>2, <2>3
<1>8. ASSUME NEW k \in 0 .. TVFS_STRING_SIZE - 1
      PROVE  /\ t[k + 1] = TVFS_STRING[k] /\ u[k + 1] = TVFS_STRING[k]
             /\ u[TVFS_STRING_SIZE + k + 1] = TVFS_STRING[k]
  <2>1. PICK j : j = k + 1
    OBVIOUS
  <2>2. j \in 1 .. TVFS_STRING_SIZE /\ j - 1 = k
        /\ TVFS_STRING_SIZE + k + 1 = TVFS_STRING_SIZE + j
    BY <1>1, <2>1
  <2>3. t[j] = TVFS_STRING[k] /\ u[j] = t[j] /\ u[TVFS_STRING_SIZE + j] = t[j]
    BY <1>4, <1>7, <2>2
  <2> QED
    BY <2>1, <2>2, <2>3
<1> QED
  BY <1>1, <1>3, <1>4, <1>5, <1>6, <1>8 DEF Twice

\* FILE1 is open in the first descriptor.
LEMMA FileOpen ==
    ASSUME TypeInv, NEW n, NEW used, FILE1 \in used, NEW son, State(used, n, FILE1, son)
    PROVE  /\ fd = 0 /\ 0 \in Fd /\ fd_inode[0] = FILE1 /\ fd_next[0] = 0
           /\ IsFileFd(0) /\ size[FILE1] = n
<1>1. fd = 0 /\ fd_inode[0] = FILE1 /\ 0 \in Fd /\ FILE1 # NULL
  <2>1. 0 \in Fd
    BY Numbers
  <2> QED
    BY <2>1, Five DEF State, Descriptor
<1>2. type[FILE1] = "FILE" /\ size[FILE1] = n
  BY Five DEF State, Tree, Holds, Kind
<1>3. fd_next[0] = 0
  BY <1>1 DEF TypeInv, NextIsZero
<1> QED
  BY <1>1, <1>2, <1>3 DEF IsFileFd, Opened

LEMMA WriteStage ==
    ASSUME TypeInv, NEW used, FILE1 \in used, NEW son, NEW n, State(used, n, FILE1, son),
           NEW start, \/ start = 0 /\ write_file(fd, TVFS_STRING, TVFS_STRING_SIZE)
                      \/ /\ start = TVFS_STRING_SIZE /\ n = start
                         /\ append_file(fd, TVFS_STRING, TVFS_STRING_SIZE),
           fd' = Kept(reply')
    PROVE  /\ State(used, start + TVFS_STRING_SIZE, FILE1, son)'
           /\ reply' = [n |-> TVFS_STRING_SIZE]
<1>1. /\ fd = 0 /\ 0 \in Fd /\ fd_inode[0] = FILE1 /\ IsFileFd(0) /\ size[FILE1] = n
  BY FileOpen
<1>2. write_inode(FILE1, start, TVFS_STRING, TVFS_STRING_SIZE)
  BY <1>1 DEF write_file, append_file
<1>3. /\ TVFS_STRING_SIZE \in Nat /\ 2 * TVFS_STRING_SIZE < FS_NPAGES
      /\ start \in {0, TVFS_STRING_SIZE}
  BY Bytes
<1>4. SizeToWrite(start, TVFS_STRING_SIZE) = TVFS_STRING_SIZE
  BY <1>3, Sizes DEF SizeToWrite, ToInt
<1>5. /\ data' = [data EXCEPT ![FILE1] =
                    [k \in Offset |->
                       IF start <= k /\ k < start + TVFS_STRING_SIZE THEN TVFS_STRING[k - start]
                       ELSE data[FILE1][k]]]
      /\ size' = [size EXCEPT ![FILE1] = start + TVFS_STRING_SIZE]
      /\ reply' = [n |-> TVFS_STRING_SIZE]
      /\ UNCHANGED <<type, name, father, brother, first_son, ref, fds, halted>>
  BY <1>2, <1>4 DEF write_inode
<1>6. size' = [i \in Inode |-> IF i = FILE1 THEN start + TVFS_STRING_SIZE ELSE 0]
  BY <1>5, Five DEF State, Holds
<1>7. ASSUME NEW k \in 0 .. (start + TVFS_STRING_SIZE) - 1
      PROVE  data'[FILE1][k] = Twice(Text)[k + 1]
  <2>1. k \in Offset
    BY <1>3, Sizes DEF Offset
  <2>2. data'[FILE1][k] = IF start <= k THEN TVFS_STRING[k - start] ELSE data[FILE1][k]
    BY <1>3, <1>5, <2>1, Five DEF TypeInv, TypeOK
  <2>3. CASE start <= k
    <3>1. PICK j : j = k - start
      OBVIOUS
    <3>2. j \in 0 .. TVFS_STRING_SIZE - 1 /\ k + 1 = start + j + 1
      BY <1>3, <2>3, <3>1
    <3>3. Twice(Text)[start + j + 1] = TVFS_STRING[j]
      <4>1. CASE start = 0
        <5>1. start + j + 1 = j + 1
          BY <3>2, <4>1
        <5> QED
          BY <3>2, <5>1, Bytes
      <4>2. CASE start = TVFS_STRING_SIZE
        BY <3>2, <4>2, Bytes
      <4> QED
        BY <1>3, <4>1, <4>2
    <3> QED
      BY <2>2, <2>3, <3>1, <3>2, <3>3
  <2>4. CASE ~(start <= k)
    <3>1. start = TVFS_STRING_SIZE /\ start # 0 /\ n = start /\ k \in 0 .. n - 1
      BY <1>3, <2>4
    <3> QED
      BY <2>2, <2>4, <3>1 DEF State, Holds
  <2> QED
    BY <2>3, <2>4
<1>8. fd' = 0
  BY <1>1, <1>5 DEF Kept
<1>9. Holds(start + TVFS_STRING_SIZE)'
  BY <1>6, <1>7 DEF Holds
<1>10. Tree(used)' /\ ~halted'
  BY <1>5 DEF State, Tree, Links
<1>11. Descriptor(FILE1, son)'
  BY <1>5, <1>8 DEF State, Descriptor, fds
<1> QED
  BY <1>5, <1>9, <1>10, <1>11 DEF State

LEMMA ReadStage ==
    ASSUME TypeInv, NEW used, FILE1 \in used, NEW son, NEW n, State(used, n, FILE1, son),
           n \in {TVFS_STRING_SIZE, 2 * TVFS_STRING_SIZE},
           read_file(fd, n), fd' = Kept(reply')
    PROVE  /\ State(used, n, FILE1, son)'
           /\ reply'.n = n /\ "n" \in DOMAIN reply'
           /\ SubSeq(reply'.out, 1, n) = [k \in 1 .. n |-> Twice(Text)[k]]
<1>1. /\ fd = 0 /\ 0 \in Fd /\ fd_inode[0] = FILE1 /\ fd_next[0] = 0
      /\ IsFileFd(0) /\ size[FILE1] = n
  BY FileOpen
<1>2. n \in Nat /\ n < FS_NPAGES /\ n <= INT_MAX /\ n <= FILE_MAX_SIZE
  BY Bytes, Sizes
<1>3. UNCHANGED <<inodes, fds, halted>>
  BY <1>1 DEF read_file
<1>4. fd' = 0 /\ reply'.n = n /\ "n" \in DOMAIN reply'
      /\ SubSeq(reply'.out, 1, n) = [k \in 1 .. n |-> Twice(Text)[k]]
  <2>1. CASE n = 0
    <3>1. reply' = [n |-> 0, out |-> <<0>>]
      BY <1>1, <2>1 DEF read_file
    <3>2. fd' = 0
      BY <1>1, <3>1 DEF Kept
    <3>3. SubSeq(<<0>>, 1, 0) = <<>> /\ [k \in 1 .. 0 |-> Twice(Text)[k]] = <<>>
      OBVIOUS
    <3> QED
      BY <2>1, <3>1, <3>2, <3>3
  <2>2. CASE n # 0
    <3>1. SizeToRead(FILE1, 0, n) = n
      BY <1>1, <1>2, Sizes DEF SizeToRead, ToInt
    <3>2. reply' = [n |-> n, out |-> [k \in 1 .. Copied(n) |-> data[FILE1][0 + k - 1]]]
      BY <1>1, <1>2, <2>2, <3>1 DEF read_file
    <3>3. fd' = 0
      BY <1>1, <3>2 DEF Kept
    <3>4. PICK c : c = Copied(n)
      OBVIOUS
    <3>5. c \in n .. FILE_MAX_SIZE
      BY <1>2, <2>2, <3>4, CopiedInPage
    <3>6. PICK b : b = [k \in 1 .. c |-> data[FILE1][0 + k - 1]]
      OBVIOUS
    <3>7. \A k \in 1 .. c : data[FILE1][0 + k - 1] \in Byte
      <4>1. data[FILE1] \in [Offset -> Byte]
        BY Five DEF TypeInv, TypeOK
      <4>2. \A k \in 1 .. c : 0 + k - 1 \in Offset
        BY <1>2, <3>5, Sizes DEF Offset
      <4> QED
        BY <4>1, <4>2
    <3>8. b \in Seq(Byte) /\ Len(b) = c /\ c \in Nat
      BY <1>2, <3>5, <3>6, <3>7, Sizes
    <3>9. ASSUME NEW k \in 1 .. n PROVE b[k] = Twice(Text)[k]
      <4>1. PICK j : j = k - 1
        OBVIOUS
      <4>2. j \in 0 .. n - 1 /\ k = j + 1 /\ 0 + k - 1 = j /\ k \in 1 .. c
        BY <1>2, <3>5, <4>1
      <4>3. data[FILE1][j] = Twice(Text)[j + 1]
        BY <4>2 DEF State, Holds
      <4> QED
        BY <3>6, <4>2, <4>3
    <3>10. SubSeq(b, 1, n) = [k \in 1 .. n |-> b[k]]
      <4>1. 1 \in 1 .. Len(b) + 1 /\ n \in 0 .. Len(b)
        BY <1>2, <3>5, <3>8
      <4> QED
        BY <1>2, <3>5, <3>8
    <3>11. reply'.out = b /\ reply'.n = n /\ "n" \in DOMAIN reply'
      BY <3>2, <3>4, <3>6
    <3> QED
      BY <3>3, <3>9, <3>10, <3>11
  <2> QED
    BY <2>1, <2>2
<1>5. State(used, n, FILE1, son)'
  BY <1>3, <1>4 DEF State, Tree, Links, Holds, Descriptor, inodes, fds
<1> QED
  BY <1>4, <1>5

\* delete_file of an inode that is neither the root nor above the first file.
LEMMA Pruned ==
    ASSUME TypeInv, NEW used, NEW n, State(used, n, NULL, NULL), NEW path,
           NEW top \in used \cap Inode, parse_path(path) = top, top # ROOT_INODE,
           NEW gone, gone = Subtree(top), ROOT_INODE \notin gone, FILE1 \notin gone,
           delete_file(path)
    PROVE  /\ Unhook(top, gone) /\ reply' = [ret |-> "VFS_OK"]
           /\ Links(used \ gone)' => State(used \ gone, n, NULL, NULL)'
<1>1. top \in Pointer /\ top # NULL /\ Used(top)
  BY Five DEF State, Tree, Kind, Used, Pointer
<1>2. delete_inode(top) /\ reply' = [ret |-> "VFS_OK"] /\ UNCHANGED <<fds, halted>>
  BY <1>1 DEF delete_file, delete
<1>3. gone \ {ROOT_INODE} = gone
  OBVIOUS
<1>4. free_inode(gone) /\ Unhook(top, gone)
  BY <1>2, <1>3 DEF delete_inode
<1>5. type' = [i \in Inode |-> IF i \in used \ gone THEN Kind(i) ELSE "EMPTY"]
  BY <1>4 DEF free_inode, State, Tree
<1>6. father' = [i \in Inode |-> IF i \in used \ gone THEN Father(i) ELSE NULL]
  BY <1>4 DEF free_inode, State, Tree
<1>7. \A i \in used \ gone : name'[i] = Called(i)
  BY <1>4 DEF free_inode, State, Tree
<1>8. Holds(n)'
  <2>1. size' = [i \in Inode |-> IF i = FILE1 THEN n ELSE 0]
    BY <1>4 DEF free_inode, State, Holds
  <2> QED
    BY <1>4, <2>1 DEF free_inode, State, Holds
<1>9. Descriptor(NULL, NULL)' /\ ~halted'
  <2>1. ref' = [i \in Inode |-> IF i = NULL THEN 1 ELSE 0]
    BY <1>4, Five DEF free_inode, State, Descriptor
  <2> QED
    BY <1>2, <2>1, Five DEF State, Descriptor, fds
<1> QED
  BY <1>2, <1>4, <1>5, <1>6, <1>7, <1>8, <1>9 DEF State, Tree

LEMMA DeleteStage ==
    ASSUME TypeInv, NEW n, NEW used, State(used, n, NULL, NULL)
    PROVE  /\ /\ used = {ROOT_INODE, FILE1, SRC, FILE2, FILE3}
              /\ delete_file(<<src, file2>>)
              => State({ROOT_INODE, FILE1, SRC, FILE3}, n, NULL, NULL)'
                 /\ reply' = [ret |-> "VFS_OK"]
           /\ used = {ROOT_INODE, FILE1, SRC, FILE3} /\ delete_file(TVFS_SRC)
              => State({ROOT_INODE, FILE1}, n, NULL, NULL)' /\ reply' = [ret |-> "VFS_OK"]
<1>1. ASSUME used = {ROOT_INODE, FILE1, SRC, FILE2, FILE3}, delete_file(<<src, file2>>)
      PROVE  State({ROOT_INODE, FILE1, SRC, FILE3}, n, NULL, NULL)'
             /\ reply' = [ret |-> "VFS_OK"]
  <2>1. Tree(used) /\ Links(used)
    BY DEF State, Tree
  <2>2. parse_path(<<src, file2>>) = FILE2
    BY <1>1, <2>1, PathsLead
  <2>3. first_son[FILE2] = NULL /\ father[FILE2] = SRC
        /\ first_son[SRC] = FILE2 /\ brother[FILE2] = FILE3
    BY <1>1, <2>1, Five DEF Tree, Links, Father
  <2>4. PICK gone : gone = Subtree(FILE2)
    OBVIOUS
  <2>5. gone = {FILE2}
    <3>1. FILE2 \in gone
      BY <2>4, LinkTypesHold, SubtreeClosed, Five
    <3>2. ASSUME NEW d \in gone PROVE d \in {FILE2}
      <4>1. PICK S : S = {FILE2}
        OBVIOUS
      <4>2. S \in SUBSET Inode /\ FILE2 \in S
        BY <4>1, Five
      <4>3. \A i \in S : /\ first_son[i] \in S \cup {NULL}
                         /\ i # FILE2 => brother[i] \in S \cup {NULL}
        BY <2>3, <4>1
      <4>4. d \in S
        BY <2>4, <4>2, <4>3, Five, SubtreeInduction
      <4> QED
        BY <4>1, <4>4
    <3> QED
      BY <3>1, <3>2
  <2>6. ROOT_INODE \notin gone /\ FILE1 \notin gone
        /\ used \ gone = {ROOT_INODE, FILE1, SRC, FILE3}
    BY <1>1, <2>5, Five
  <2>7. /\ Unhook(FILE2, gone) /\ reply' = [ret |-> "VFS_OK"]
        /\ Links(used \ gone)' => State(used \ gone, n, NULL, NULL)'
    BY <1>1, <2>2, <2>4, <2>6, Five, Pruned
  <2>8. first_son' = [i \in Inode |-> IF i = FILE2 THEN NULL
                                      ELSE IF i = SRC THEN FILE3 ELSE first_son[i]]
    BY <2>3, <2>4, <2>5, <2>7, Five DEF Unhook
  <2>9. brother' = [i \in Inode |-> IF i = FILE2 THEN NULL ELSE brother[i]]
    BY <2>3, <2>5, <2>7, Five DEF Unhook
  <2>10. Links({ROOT_INODE, FILE1, SRC, FILE3})'
    BY <1>1, <2>1, <2>8, <2>9, Five DEF Links
  <2> QED
    BY <2>6, <2>7, <2>10
<1>2. ASSUME used = {ROOT_INODE, FILE1, SRC, FILE3}, delete_file(TVFS_SRC)
      PROVE  State({ROOT_INODE, FILE1}, n, NULL, NULL)' /\ reply' = [ret |-> "VFS_OK"]
  <2>1. Tree(used) /\ Links(used)
    BY DEF State, Tree
  <2>2. parse_path(TVFS_SRC) = SRC
    BY <1>2, <2>1, PathsLead
  <2>3. /\ first_son[FILE3] = NULL /\ brother[FILE3] = NULL /\ father[SRC] = ROOT_INODE
        /\ first_son[SRC] = FILE3 /\ brother[SRC] = NULL
        /\ first_son[ROOT_INODE] = FILE1 /\ brother[FILE1] = SRC
    BY <1>2, <2>1, Five DEF Tree, Links, Father
  <2>4. PICK gone : gone = Subtree(SRC)
    OBVIOUS
  <2>5. gone = {SRC, FILE3}
    <3>1. SRC \in gone /\ FILE3 \in gone
      BY <2>3, <2>4, LinkTypesHold, SubtreeClosed, Five
    <3>2. ASSUME NEW d \in gone PROVE d \in {SRC, FILE3}
      <4>1. PICK S : S = {SRC, FILE3}
        OBVIOUS
      <4>2. S \in SUBSET Inode /\ SRC \in S
        BY <4>1, Five
      <4>3. \A i \in S : /\ first_son[i] \in S \cup {NULL}
                         /\ i # SRC => brother[i] \in S \cup {NULL}
        BY <2>3, <4>1
      <4>4. d \in S
        BY <2>4, <4>2, <4>3, Five, SubtreeInduction
      <4> QED
        BY <4>1, <4>4
    <3> QED
      BY <3>1, <3>2
  <2>6. ROOT_INODE \notin gone /\ FILE1 \notin gone
        /\ used \ gone = {ROOT_INODE, FILE1}
    BY <1>2, <2>5, Five
  <2>7. /\ Unhook(SRC, gone) /\ reply' = [ret |-> "VFS_OK"]
        /\ Links(used \ gone)' => State(used \ gone, n, NULL, NULL)'
    BY <1>2, <2>2, <2>4, <2>6, Five, Pruned
  <2>8. first_son' = [i \in Inode |-> IF i \in {SRC, FILE3} THEN NULL ELSE first_son[i]]
    BY <2>3, <2>4, <2>5, <2>7, Five DEF Unhook
  <2>9. FILE1 \in Sons(ROOT_INODE)
    BY <2>3, LinkTypesHold, AheadClosed, Five DEF Sons, Pointer
  <2>10. \A i \in Inode : brother[i] = SRC => i = FILE1
    BY <1>2, <2>1, Five DEF Links
  <2>11. brother' = [i \in Inode |-> NULL]
    <3>1. \A i \in Inode : brother[i] = IF i = FILE1 THEN SRC ELSE NULL
      BY <1>2, <2>1, Five DEF Links
    <3> QED
      BY <2>3, <2>5, <2>7, <2>9, <3>1, Five DEF Unhook
  <2>12. Links({ROOT_INODE, FILE1})'
    BY <1>2, <2>1, <2>8, <2>11, Five DEF Links
  <2> QED
    BY <2>6, <2>7, <2>12
<1> QED
  BY <1>1, <1>2

-----------------------------------------------------------------------------
(* Each test takes the file system from its stage to the next.             *)

LEMMA CreatedAre ==
    /\ Created(0) = {ROOT_INODE}
    /\ \A k \in (1 .. 9) \cup (23 .. 27) : Created(k) = {ROOT_INODE, FILE1}
    /\ Created(10) = {ROOT_INODE, FILE1, SRC}
    /\ Created(11) = {ROOT_INODE, FILE1, SRC, FILE2}
    /\ \A k \in 12 .. 17 : Created(k) = {ROOT_INODE, FILE1, SRC, FILE2, FILE3}
    /\ \A k \in 18 .. 22 : Created(k) = {ROOT_INODE, FILE1, SRC, FILE3}
BY DEF Created

LEMMA WrittenAre ==
    /\ \A k \in 0 .. 2 : Written(k) = 0
    /\ \A k \in 3 .. 6 : Written(k) = TVFS_STRING_SIZE
    /\ \A k \in 7 .. 27 : Written(k) = 2 * TVFS_STRING_SIZE
BY DEF Written

LEMMA OpenAre ==
    /\ \A k \in {0, 1, 5, 9, 10, 11, 12, 17, 18, 22, 23, 27} : OpenedOn(k) = NULL
    /\ \A k \in {2, 3, 4, 6, 7, 8} : OpenedOn(k) = FILE1
    /\ \A k \in {13, 14, 15, 16, 19, 20, 21} : OpenedOn(k) = SRC
    /\ \A k \in {24, 25, 26} : OpenedOn(k) = ROOT_INODE
BY DEF OpenedOn

LEMMA ListedAre ==
    /\ \A k \in 0 .. 27 : k \notin {13, 14, 19, 24} => ListedAt(k) = NULL
    /\ ListedAt(13) = FILE2 /\ ListedAt(14) = FILE3 /\ ListedAt(19) = FILE3
    /\ ListedAt(24) = FILE1
BY DEF ListedAt

LEMMA PlanIs ==
    /\ Plan[1] = TestOf("create_file", <<ROOT, file1>>, <<>>)
    /\ Plan[2] = TestOf("open_file", <<<<file1>>>>, <<>>)
    /\ Plan[3] = TestOf("write_file", <<TVFS_STRING_SIZE>>, <<>>)
    /\ Plan[4] = TestOf("read_file", <<TVFS_STRING_SIZE>>, Text)
    /\ Plan[5] = TestOf("close_file", <<>>, <<>>)
    /\ Plan[6] = TestOf("open_file", <<<<file1>>>>, <<>>)
    /\ Plan[7] = TestOf("append_file", <<TVFS_STRING_SIZE>>, <<>>)
    /\ Plan[8] = TestOf("read_file", <<2 * TVFS_STRING_SIZE>>, Twice(Text))
    /\ Plan[9] = TestOf("close_file", <<>>, <<>>)
    /\ Plan[10] = TestOf("create_dir", <<ROOT, src>>, <<>>)
    /\ Plan[11] = TestOf("create_file", <<TVFS_SRC, file2>>, <<>>)
    /\ Plan[12] = TestOf("create_file", <<TVFS_SRC, file3>>, <<>>)
    /\ Plan[13] = TestOf("open_dir", <<TVFS_SRC>>, <<>>)
    /\ Plan[14] = TestOf("get_dir_son", <<>>, <<file2>>)
    /\ Plan[15] = TestOf("get_dir_son", <<>>, <<file3>>)
    /\ Plan[16] = TestOf("get_dir_son", <<>>, <<"">>)
    /\ Plan[17] = TestOf("close_dir", <<>>, <<>>)
    /\ Plan[18] = TestOf("delete_file", <<<<src, file2>>>>, <<>>)
    /\ Plan[19] = TestOf("open_dir", <<TVFS_SRC>>, <<>>)
    /\ Plan[20] = TestOf("get_dir_son", <<>>, <<file3>>)
    /\ Plan[21] = TestOf("get_dir_son", <<>>, <<"">>)
    /\ Plan[22] = TestOf("close_dir", <<>>, <<>>)
    /\ Plan[23] = TestOf("delete_file", <<TVFS_SRC>>, <<>>)
    /\ Plan[24] = TestOf("open_dir", <<ROOT>>, <<>>)
    /\ Plan[25] = TestOf("get_dir_son", <<>>, <<file1>>)
    /\ Plan[26] = TestOf("get_dir_son", <<>>, <<"">>)
    /\ Plan[27] = TestOf("close_dir", <<>>, <<>>)
BY DEF Plan

\* What a test calls, with its arguments.
CallMade(t) ==
    /\ t.call = "create_file" => create_file(t.args[1], t.args[2])
    /\ t.call = "create_dir" => create_dir(t.args[1], t.args[2])
    /\ t.call = "delete_file" => delete_file(t.args[1])
    /\ t.call = "open_file" => open_file(t.args[1])
    /\ t.call = "open_dir" => open_dir(t.args[1])
    /\ t.call \in {"close_file", "close_dir"} => close(t.call, fd)
    /\ t.call = "get_dir_son" => get_next_dir_son(fd)
    /\ t.call = "read_file" => read_file(fd, t.args[1])
    /\ t.call = "write_file" => write_file(fd, TVFS_STRING, t.args[1])
    /\ t.call = "append_file" => append_file(fd, TVFS_STRING, t.args[1])

LEMMA ServeIs ==
    ASSUME NEW t, Serve(t.call, t.args)
    PROVE  CallMade(t)
BY DEF CallMade, Serve, close_file, close_dir

\* What it takes to please a test that is answered by an error code.
LEMMA CodeOk ==
    ASSUME NEW t, NEW call, NEW args, t = TestOf(call, args, <<>>),
           call \notin {"read_file", "get_dir_son"},
           reply'.ret = "VFS_OK", "n" \notin DOMAIN reply'
    PROVE  Pleases(t)'
BY DEF Pleases, TestOf

\* A descriptor is free, so that a call of open goes through.
LEMMA OpenGoes ==
    ASSUME NEW n, NEW used, State(used, n, NULL, NULL), NEW path
    PROVE  /\ open_file(path) => \E slot \in Fd :
                 open("FILE", "VFS_INVALID_PATH_FILE", path, slot)
           /\ open_dir(path) => \E slot \in Fd :
                 open("FOLDER", "VFS_INVALID_PATH_DIR", path, slot)
<1>1. 0 \in Fd
  BY Numbers
<1>2. fd_inode[0] = NULL
  BY <1>1 DEF State, Descriptor
<1> QED
  BY <1>1, <1>2 DEF open_file, open_dir, NoFdLeft

\* The tests that create and delete.
LEMMA TreeTests ==
    ASSUME TypeInv, NEW m \in {0, 9, 10, 11, 17, 22}, NEW k, k = m + 1, Stage(m),
           NEW t, t = Plan[k], CallMade(t)
    PROVE  Stage(k)' /\ Pleases(t)'
<1>1. OpenedOn(m) = NULL /\ OpenedOn(k) = NULL
      /\ ListedAt(m) = NULL /\ ListedAt(k) = NULL /\ Written(k) = Written(m)
  BY OpenAre, ListedAre, WrittenAre
<1>2. PICK n : n = Written(m)
  OBVIOUS
<1>3. PICK used : used = Created(m)
  OBVIOUS
<1>4. State(used, n, NULL, NULL)
  BY <1>1, <1>2, <1>3 DEF Stage
<1>5. ASSUME NEW more, more = Created(k), State(more, n, NULL, NULL)'
      PROVE  Stage(k)'
  BY <1>1, <1>2, <1>5 DEF Stage
<1>6. ASSUME NEW call, NEW args, t = TestOf(call, args, <<>>), reply' = [ret |-> "VFS_OK"],
             call \notin {"read_file", "get_dir_son"}
      PROVE  Pleases(t)'
  <2>1. reply'.ret = "VFS_OK" /\ "n" \notin DOMAIN reply'
    BY <1>6
  <2> QED
    BY <1>6, <2>1, CodeOk
<1>7. CASE m = 0
  <2>0. k = 1
    BY <1>7
  <2>1. t = TestOf("create_file", <<ROOT, file1>>, <<>>)
    BY <2>0, <1>7, PlanIs
  <2>2. create_file(ROOT, file1)
    BY <2>1 DEF CallMade, TestOf
  <2>3. used = {ROOT_INODE} /\ Created(k) = used \cup {FILE1}
    BY <2>0, <1>3, <1>7, CreatedAre
  <2>4. State(used \cup {FILE1}, n, NULL, NULL)' /\ reply' = [ret |-> "VFS_OK"]
    BY <1>4, <2>2, <2>3, CreateStage
  <2>5. Stage(k)'
    BY <1>5, <2>3, <2>4
  <2>6. Pleases(t)'
    BY <1>6, <2>1, <2>4
  <2> QED
    BY <2>5, <2>6
<1>8. CASE m = 9
  <2>0. k = 10
    BY <1>8
  <2>1. t = TestOf("create_dir", <<ROOT, src>>, <<>>)
    BY <2>0, <1>8, PlanIs
  <2>2. create_dir(ROOT, src)
    BY <2>1 DEF CallMade, TestOf
  <2>3. used = {ROOT_INODE, FILE1} /\ Created(k) = used \cup {SRC}
    BY <2>0, <1>3, <1>8, CreatedAre
  <2>4. State(used \cup {SRC}, n, NULL, NULL)' /\ reply' = [ret |-> "VFS_OK"]
    BY <1>4, <2>2, <2>3, CreateStage
  <2>5. Stage(k)'
    BY <1>5, <2>3, <2>4
  <2>6. Pleases(t)'
    BY <1>6, <2>1, <2>4
  <2> QED
    BY <2>5, <2>6
<1>9. CASE m = 10
  <2>0. k = 11
    BY <1>9
  <2>1. t = TestOf("create_file", <<TVFS_SRC, file2>>, <<>>)
    BY <2>0, <1>9, PlanIs
  <2>2. create_file(TVFS_SRC, file2)
    BY <2>1 DEF CallMade, TestOf
  <2>3. used = {ROOT_INODE, FILE1, SRC} /\ Created(k) = used \cup {FILE2}
    BY <2>0, <1>3, <1>9, CreatedAre
  <2>4. State(used \cup {FILE2}, n, NULL, NULL)' /\ reply' = [ret |-> "VFS_OK"]
    BY <1>4, <2>2, <2>3, CreateStage
  <2>5. Stage(k)'
    BY <1>5, <2>3, <2>4
  <2>6. Pleases(t)'
    BY <1>6, <2>1, <2>4
  <2> QED
    BY <2>5, <2>6
<1>10. CASE m = 11
  <2>0. k = 12
    BY <1>10
  <2>1. t = TestOf("create_file", <<TVFS_SRC, file3>>, <<>>)
    BY <2>0, <1>10, PlanIs
  <2>2. create_file(TVFS_SRC, file3)
    BY <2>1 DEF CallMade, TestOf
  <2>3. used = {ROOT_INODE, FILE1, SRC, FILE2} /\ Created(k) = used \cup {FILE3}
    BY <2>0, <1>3, <1>10, CreatedAre
  <2>4. State(used \cup {FILE3}, n, NULL, NULL)' /\ reply' = [ret |-> "VFS_OK"]
    BY <1>4, <2>2, <2>3, CreateStage
  <2>5. Stage(k)'
    BY <1>5, <2>3, <2>4
  <2>6. Pleases(t)'
    BY <1>6, <2>1, <2>4
  <2> QED
    BY <2>5, <2>6
<1>11. CASE m = 17
  <2>0. k = 18
    BY <1>11
  <2>1. t = TestOf("delete_file", <<<<src, file2>>>>, <<>>)
    BY <2>0, <1>11, PlanIs
  <2>2. delete_file(<<src, file2>>)
    BY <2>1 DEF CallMade, TestOf
  <2>3. /\ used = {ROOT_INODE, FILE1, SRC, FILE2, FILE3}
        /\ Created(k) = {ROOT_INODE, FILE1, SRC, FILE3}
    BY <2>0, <1>3, <1>11, CreatedAre
  <2>4. /\ State({ROOT_INODE, FILE1, SRC, FILE3}, n, NULL, NULL)'
        /\ reply' = [ret |-> "VFS_OK"]
    BY <1>4, <2>2, <2>3, DeleteStage
  <2>5. Stage(k)'
    BY <1>5, <2>3, <2>4
  <2>6. Pleases(t)'
    BY <1>6, <2>1, <2>4
  <2> QED
    BY <2>5, <2>6
<1>12. CASE m = 22
  <2>0. k = 23
    BY <1>12
  <2>1. t = TestOf("delete_file", <<TVFS_SRC>>, <<>>)
    BY <2>0, <1>12, PlanIs
  <2>2. delete_file(TVFS_SRC)
    BY <2>1 DEF CallMade, TestOf
  <2>3. used = {ROOT_INODE, FILE1, SRC, FILE3} /\ Created(k) = {ROOT_INODE, FILE1}
    BY <2>0, <1>3, <1>12, CreatedAre
  <2>4. State({ROOT_INODE, FILE1}, n, NULL, NULL)' /\ reply' = [ret |-> "VFS_OK"]
    BY <1>4, <2>2, <2>3, DeleteStage
  <2>5. Stage(k)'
    BY <1>5, <2>3, <2>4
  <2>6. Pleases(t)'
    BY <1>6, <2>1, <2>4
  <2> QED
    BY <2>5, <2>6
<1> QED
  BY <1>7, <1>8, <1>9, <1>10, <1>11, <1>12

\* The tests that open and close.
LEMMA OpenTests ==
    ASSUME TypeInv, NEW m \in {1, 5, 12, 18, 23}, NEW k, k = m + 1, Stage(m),
           NEW t, t = Plan[k], CallMade(t), fd' = Kept(reply')
    PROVE  Stage(k)' /\ Pleases(t)'
<1>1. /\ OpenedOn(m) = NULL /\ ListedAt(m) = NULL
      /\ Written(k) = Written(m) /\ Created(k) = Created(m)
  <2>1. OpenedOn(m) = NULL /\ ListedAt(m) = NULL
    BY OpenAre, ListedAre
  <2>2. Written(k) = Written(m)
    BY WrittenAre
  <2>3. Created(k) = Created(m)
    <3>1. \/ m \in 1 .. 9 /\ k \in 1 .. 9
          \/ m \in 12 .. 17 /\ k \in 12 .. 17
          \/ m \in 18 .. 22 /\ k \in 18 .. 22
          \/ m \in 23 .. 27 /\ k \in 23 .. 27
      OBVIOUS
    <3> QED
      BY <3>1, CreatedAre
  <2> QED
    BY <2>1, <2>2, <2>3
<1>2. PICK n : n = Written(m)
  OBVIOUS
<1>3. PICK used : used = Created(m)
  OBVIOUS
<1>4. State(used, n, NULL, NULL)
  BY <1>1, <1>2, <1>3 DEF Stage
<1>5. Tree(used)
  BY <1>4 DEF State
<1>6. ASSUME NEW i \in used \cap Inode, i = OpenedOn(k), NEW path, parse_path(path) = i,
             \/ Kind(i) = "FILE" /\ t = TestOf("open_file", <<path>>, <<>>)
             \/ Kind(i) = "FOLDER" /\ t = TestOf("open_dir", <<path>>, <<>>)
                /\ first_son[i] = ListedAt(k)
      PROVE  Stage(k)' /\ Pleases(t)'
  <2>1. PICK badPath : \E slot \in Fd : open(Kind(i), badPath, path, slot)
    BY <1>4, <1>6, OpenGoes DEF CallMade, TestOf
  <2>2. PICK son : son = ListedAt(k)
    OBVIOUS
  <2>3. /\ State(used, n, i, son)'
        /\ reply'.ret = "VFS_OK" /\ "n" \notin DOMAIN reply'
    BY <1>4, <1>6, <2>1, <2>2, OpenStage
  <2>4. Stage(k)'
    BY <1>1, <1>2, <1>3, <1>6, <2>2, <2>3 DEF Stage
  <2>5. Pleases(t)'
    BY <1>6, <2>3, CodeOk
  <2> QED
    BY <2>4, <2>5
<1>7. Kind(FILE1) = "FILE" /\ Kind(SRC) = "FOLDER" /\ Kind(ROOT_INODE) = "FOLDER"
  BY Five DEF Kind
<1>8. CASE m \in {1, 5}
  <2>0. k \in {2, 6}
    BY <1>8
  <2>1. used = {ROOT_INODE, FILE1} /\ OpenedOn(k) = FILE1
    BY <2>0, <1>3, <1>8, CreatedAre, OpenAre
  <2>2. parse_path(<<file1>>) = FILE1
    BY <1>5, <2>1, PathsLead
  <2>3. t = TestOf("open_file", <<<<file1>>>>, <<>>)
    BY <2>0, <1>8, PlanIs
  <2> QED
    BY <2>0, <1>6, <1>7, <2>1, <2>2, <2>3, Five
<1>9. CASE m \in {12, 18}
  <2>0. k \in {13, 19}
    BY <1>9
  <2>1. FILE1 \in used /\ SRC \in used /\ ROOT_INODE \in used
    BY <2>0, <1>3, <1>9, CreatedAre
  <2>2. parse_path(TVFS_SRC) = SRC
    BY <1>5, <2>1, PathsLead
  <2>3. t = TestOf("open_dir", <<TVFS_SRC>>, <<>>) /\ OpenedOn(k) = SRC
    BY <2>0, <1>9, PlanIs, OpenAre
  <2>4. first_son[SRC] = IF m = 12 THEN FILE2 ELSE FILE3
    BY <2>0, <1>3, <1>5, <1>9, CreatedAre, Five DEF Tree, Links
  <2>5. ListedAt(k) = IF m = 12 THEN FILE2 ELSE FILE3
    BY <2>0, <1>9, ListedAre
  <2> QED
    BY <2>0, <1>6, <1>7, <2>1, <2>2, <2>3, <2>4, <2>5, Five
<1>10. CASE m = 23
  <2>0. k = 24
    BY <1>10
  <2>1. used = {ROOT_INODE, FILE1} /\ OpenedOn(k) = ROOT_INODE /\ ListedAt(k) = FILE1
    BY <2>0, <1>3, <1>10, CreatedAre, OpenAre, ListedAre
  <2>2. parse_path(ROOT) = ROOT_INODE
    BY <1>5, <2>1, PathsLead
  <2>3. t = TestOf("open_dir", <<ROOT>>, <<>>)
    BY <2>0, <1>10, PlanIs
  <2>4. first_son[ROOT_INODE] = FILE1
    BY <1>5, <2>1, Five DEF Tree, Links
  <2> QED
    BY <2>0, <1>6, <1>7, <2>1, <2>2, <2>3, <2>4, Five
<1> QED
  BY <1>8, <1>9, <1>10

LEMMA CloseTests ==
    ASSUME TypeInv, NEW m \in {4, 8, 16, 21, 26}, NEW k, k = m + 1, Stage(m),
           NEW t, t = Plan[k], CallMade(t)
    PROVE  Stage(k)' /\ Pleases(t)'
<1>1. /\ OpenedOn(k) = NULL /\ ListedAt(k) = NULL
      /\ Written(k) = Written(m) /\ Created(k) = Created(m)
  <2>1. OpenedOn(k) = NULL /\ ListedAt(k) = NULL
    BY OpenAre, ListedAre
  <2>2. Written(k) = Written(m)
    BY WrittenAre
  <2>3. Created(k) = Created(m)
    <3>1. \/ m \in 1 .. 9 /\ k \in 1 .. 9
          \/ m \in 12 .. 17 /\ k \in 12 .. 17
          \/ m \in 18 .. 22 /\ k \in 18 .. 22
          \/ m \in 23 .. 27 /\ k \in 23 .. 27
      OBVIOUS
    <3> QED
      BY <3>1, CreatedAre
  <2> QED
    BY <2>1, <2>2, <2>3
<1>2. PICK i \in Inode : i = OpenedOn(m)
  BY OpenAre, Five
<1>3. PICK call \in {"close_file", "close_dir"} : t = TestOf(call, <<>>, <<>>)
  <2>1. k \in {5, 9, 17, 22, 27}
    OBVIOUS
  <2>2. CASE k \in {5, 9}
    BY <2>2, PlanIs
  <2>3. CASE k \in {17, 22, 27}
    BY <2>3, PlanIs
  <2> QED
    BY <2>1, <2>2, <2>3
<1>4. close(call, fd)
  BY <1>3 DEF CallMade, TestOf
<1>5. /\ State(Created(m), Written(m), NULL, NULL)'
      /\ reply'.ret = "VFS_OK" /\ "n" \notin DOMAIN reply'
  <2>1. PICK used, n, son : used = Created(m) /\ n = Written(m) /\ son = ListedAt(m)
    OBVIOUS
  <2>2. State(used, n, i, son)
    BY <1>2, <2>1 DEF Stage
  <2>3. /\ State(used, n, NULL, NULL)'
        /\ reply'.ret = "VFS_OK" /\ "n" \notin DOMAIN reply'
    BY <1>4, <2>2, CloseStage
  <2> QED
    BY <2>1, <2>3
<1>6. Stage(k)'
  BY <1>1, <1>5 DEF Stage
<1> QED
  BY <1>3, <1>5, <1>6, CodeOk

\* The tests that list a folder.
LEMMA ListTests ==
    ASSUME TypeInv, NEW m \in {13, 14, 15, 19, 20, 24, 25}, NEW k, k = m + 1, Stage(m),
           NEW t, t = Plan[k], CallMade(t), fd' = Kept(reply')
    PROVE  Stage(k)' /\ Pleases(t)'
<1>1. Written(k) = Written(m) /\ Created(k) = Created(m) /\ OpenedOn(k) = OpenedOn(m)
  <2>1. Written(k) = Written(m)
    BY WrittenAre
  <2>2. Created(k) = Created(m)
    <3>1. \/ m \in 12 .. 17 /\ k \in 12 .. 17
          \/ m \in 18 .. 22 /\ k \in 18 .. 22
          \/ m \in 23 .. 27 /\ k \in 23 .. 27
      OBVIOUS
    <3> QED
      BY <3>1, CreatedAre
  <2>3. OpenedOn(k) = OpenedOn(m)
    BY OpenAre
  <2> QED
    BY <2>1, <2>2, <2>3
<1>2. PICK n : n = Written(m)
  OBVIOUS
<1>3. PICK used : used = Created(m)
  OBVIOUS
<1>4. PICK i : i = OpenedOn(m)
  OBVIOUS
<1>5. PICK son : son = ListedAt(m)
  OBVIOUS
<1>6. PICK next : next = ListedAt(k)
  OBVIOUS
<1>7. State(used, n, i, son)
  BY <1>2, <1>3, <1>4, <1>5 DEF Stage
<1>8. Links(used)
  BY <1>7 DEF State, Tree
<1>9. Kind(i) = "FOLDER" /\ i \in used \cap Inode
  <2>1. \/ m \in 12 .. 17 /\ i = SRC
        \/ m \in 18 .. 22 /\ i = SRC
        \/ m \in 23 .. 27 /\ i = ROOT_INODE
    BY <1>4, OpenAre
  <2>2. SRC \in used \/ i # SRC
    BY <1>3, <2>1, CreatedAre, Five
  <2>3. ROOT_INODE \in used \/ i # ROOT_INODE
    BY <1>3, <2>1, CreatedAre, Five
  <2> QED
    BY <2>1, <2>2, <2>3, Five DEF Kind
<1>10. /\ son = NULL \/ son \in used \cap Inode
       /\ next = IF son = NULL THEN NULL ELSE brother[son]
       /\ t = TestOf("get_dir_son", <<>>, <<IF son = NULL THEN "" ELSE Called(son)>>)
  <2>1. Called(FILE1) = file1 /\ Called(FILE2) = file2 /\ Called(FILE3) = file3
    BY Five DEF Called
  <2>2. CASE m = 13
    <3>1. k = 14 /\ m \in 12 .. 17
      BY <2>2
    <3>2. son = FILE2 /\ next = FILE3
      BY <1>5, <1>6, <2>2, <3>1, ListedAre
    <3>3. used = {ROOT_INODE, FILE1, SRC, FILE2, FILE3}
      BY <1>3, <3>1, CreatedAre
    <3>4. t = TestOf("get_dir_son", <<>>, <<file2>>)
      BY <3>1, PlanIs
    <3>5. brother[FILE2] = FILE3
      BY <1>8, <3>3, Five DEF Links
    <3> QED
      BY <2>1, <3>2, <3>3, <3>4, <3>5, Five
  <2>3. CASE m \in {14, 19}
    <3>1. k \in {15, 20} /\ m \in (12 .. 17) \cup (18 .. 22)
      BY <2>3
    <3>2. son = FILE3 /\ next = NULL
      BY <1>5, <1>6, <2>3, <3>1, ListedAre
    <3>3. FILE3 \in used
      BY <1>3, <3>1, CreatedAre
    <3>4. t = TestOf("get_dir_son", <<>>, <<file3>>)
      BY <3>1, PlanIs
    <3>5. brother[FILE3] = NULL
      BY <1>8, Five DEF Links
    <3> QED
      BY <2>1, <3>2, <3>3, <3>4, <3>5, Five
  <2>4. CASE m \in {15, 20, 25}
    <3>1. k \in {16, 21, 26}
      BY <2>4
    <3>2. son = NULL /\ next = NULL
      BY <1>5, <1>6, <2>4, <3>1, ListedAre
    <3>3. t = TestOf("get_dir_son", <<>>, <<"">>)
      BY <3>1, PlanIs
    <3> QED
      BY <3>2, <3>3
  <2>5. CASE m = 24
    <3>1. k = 25 /\ m \in 23 .. 27
      BY <2>5
    <3>2. son = FILE1 /\ next = NULL
      BY <1>5, <1>6, <2>5, <3>1, ListedAre
    <3>3. used = {ROOT_INODE, FILE1}
      BY <1>3, <3>1, CreatedAre
    <3>4. t = TestOf("get_dir_son", <<>>, <<file1>>)
      BY <3>1, PlanIs
    <3>5. brother[FILE1] = NULL
      BY <1>8, <3>3, Five DEF Links
    <3> QED
      BY <2>1, <3>2, <3>3, <3>4, <3>5, Five
  <2> QED
    BY <2>2, <2>3, <2>4, <2>5
<1> DEFINE found == IF son = NULL THEN "" ELSE Called(son)
<1>11. t = TestOf("get_dir_son", <<>>, <<found>>)
  BY <1>10
<1> HIDE DEF found
<1>12. get_next_dir_son(fd)
  BY <1>11 DEF CallMade, TestOf
<1>13. /\ State(used, n, i, next)'
       /\ reply'.ret = "VFS_OK" /\ "n" \notin DOMAIN reply'
       /\ reply'.son = found
  BY <1>7, <1>9, <1>10, <1>12, ListStage DEF found
<1>14. Stage(k)'
  BY <1>1, <1>2, <1>3, <1>4, <1>6, <1>13 DEF Stage
<1>15. Pleases(t)'
  BY <1>11, <1>13 DEF Pleases, TestOf
<1> QED
  BY <1>14, <1>15

\* The tests that write and read.
LEMMA DataTests ==
    ASSUME TypeInv, NEW m \in {2, 3, 6, 7}, NEW k, k = m + 1, Stage(m),
           NEW t, t = Plan[k], CallMade(t), fd' = Kept(reply')
    PROVE  Stage(k)' /\ Pleases(t)'
<1>1. /\ Created(k) = Created(m) /\ FILE1 \in Created(m)
      /\ OpenedOn(m) = FILE1 /\ OpenedOn(k) = FILE1
      /\ ListedAt(m) = NULL /\ ListedAt(k) = NULL
  <2>1. Created(k) = Created(m) /\ FILE1 \in Created(m)
    <3>1. m \in 1 .. 9 /\ k \in 1 .. 9
      OBVIOUS
    <3> QED
      BY <3>1, CreatedAre
  <2>2. OpenedOn(m) = FILE1 /\ OpenedOn(k) = FILE1
    BY OpenAre
  <2>3. ListedAt(m) = NULL /\ ListedAt(k) = NULL
    BY ListedAre
  <2> QED
    BY <2>1, <2>2, <2>3
<1>2. PICK used : used = Created(m)
  OBVIOUS
<1>3. PICK n : n = Written(m)
  OBVIOUS
<1>4. State(used, n, FILE1, NULL)
  BY <1>1, <1>2, <1>3 DEF Stage
<1>5. ASSUME NEW more, more = Written(k), State(used, more, FILE1, NULL)'
      PROVE  Stage(k)'
  BY <1>1, <1>2, <1>5 DEF Stage
<1>6. TVFS_STRING_SIZE \in Nat
  BY Bytes
<1>7. ASSUME NEW start, start + TVFS_STRING_SIZE = Written(k),
             \/ start = 0 /\ t = TestOf("write_file", <<TVFS_STRING_SIZE>>, <<>>)
             \/ /\ start = TVFS_STRING_SIZE /\ n = start
                /\ t = TestOf("append_file", <<TVFS_STRING_SIZE>>, <<>>)
      PROVE  Stage(k)' /\ Pleases(t)'
  <2>1. \/ start = 0 /\ write_file(fd, TVFS_STRING, TVFS_STRING_SIZE)
        \/ /\ start = TVFS_STRING_SIZE /\ n = start
           /\ append_file(fd, TVFS_STRING, TVFS_STRING_SIZE)
    BY <1>7 DEF CallMade, TestOf
  <2>2. /\ State(used, start + TVFS_STRING_SIZE, FILE1, NULL)'
        /\ reply' = [n |-> TVFS_STRING_SIZE]
    BY <1>1, <1>2, <1>4, <2>1, WriteStage
  <2>3. Stage(k)'
    BY <1>5, <1>7, <2>2
  <2>4. Pleases(t)'
    BY <1>7, <2>2 DEF Pleases, TestOf
  <2> QED
    BY <2>3, <2>4
<1>8. ASSUME n = Written(k), n \in {TVFS_STRING_SIZE, 2 * TVFS_STRING_SIZE},
             NEW text, t = TestOf("read_file", <<n>>, text),
             text = [j \in 1 .. n |-> Twice(Text)[j]]
      PROVE  Stage(k)' /\ Pleases(t)'
  <2>1. read_file(fd, n)
    BY <1>8 DEF CallMade, TestOf
  <2>2. /\ State(used, n, FILE1, NULL)'
        /\ reply'.n = n /\ "n" \in DOMAIN reply'
        /\ SubSeq(reply'.out, 1, n) = [j \in 1 .. n |-> Twice(Text)[j]]
    BY <1>1, <1>2, <1>4, <1>8, <2>1, ReadStage
  <2>3. Stage(k)'
    BY <1>5, <1>8, <2>2
  <2>4. Pleases(t)'
    BY <1>8, <2>2 DEF Pleases, TestOf
  <2> QED
    BY <2>3, <2>4
<1>9. /\ Text = [j \in 1 .. TVFS_STRING_SIZE |-> Twice(Text)[j]]
      /\ Twice(Text) = [j \in 1 .. 2 * TVFS_STRING_SIZE |-> Twice(Text)[j]]
  <2>1. PICK s, u : s = Text /\ u = Twice(Text)
    OBVIOUS
  <2>2. s \in Seq(Byte) /\ Len(s) = TVFS_STRING_SIZE /\ u \in Seq(Byte)
        /\ Len(u) = 2 * TVFS_STRING_SIZE
    BY <2>1, Bytes
  <2>3. ASSUME NEW j \in 1 .. TVFS_STRING_SIZE PROVE s[j] = u[j]
    <3>1. PICK i : i = j - 1
      OBVIOUS
    <3>2. i \in 0 .. TVFS_STRING_SIZE - 1 /\ j = i + 1
      BY <1>6, <3>1
    <3> QED
      BY <2>1, <3>2, Bytes
  <2>4. s = [j \in 1 .. TVFS_STRING_SIZE |-> s[j]]
    BY <1>6, <2>2
  <2>5. u = [j \in 1 .. 2 * TVFS_STRING_SIZE |-> u[j]]
    BY <1>6, <2>2
  <2>6. s = [j \in 1 .. TVFS_STRING_SIZE |-> u[j]]
    BY <2>3, <2>4
  <2> QED
    BY <2>1, <2>5, <2>6
<1>10. CASE m = 2
  <2>1. k = 3
    BY <1>10
  <2>2. 0 + TVFS_STRING_SIZE = Written(k)
    BY <1>6, <2>1, WrittenAre
  <2>3. t = TestOf("write_file", <<TVFS_STRING_SIZE>>, <<>>)
    BY <2>1, PlanIs
  <2> QED
    BY <1>7, <2>2, <2>3
<1>11. CASE m = 3
  <2>1. k = 4
    BY <1>11
  <2>2. n = TVFS_STRING_SIZE /\ Written(k) = TVFS_STRING_SIZE
    BY <1>3, <1>11, <2>1, WrittenAre
  <2>3. t = TestOf("read_file", <<TVFS_STRING_SIZE>>, Text)
    BY <2>1, PlanIs
  <2> QED
    BY <1>8, <1>9, <2>2, <2>3
<1>12. CASE m = 6
  <2>1. k = 7
    BY <1>12
  <2>2. TVFS_STRING_SIZE + TVFS_STRING_SIZE = Written(k) /\ n = TVFS_STRING_SIZE
    BY <1>3, <1>6, <1>12, <2>1, WrittenAre
  <2>3. t = TestOf("append_file", <<TVFS_STRING_SIZE>>, <<>>)
    BY <2>1, PlanIs
  <2> QED
    BY <1>7, <2>2, <2>3
<1>13. CASE m = 7
  <2>1. k = 8
    BY <1>13
  <2>2. n = 2 * TVFS_STRING_SIZE /\ Written(k) = 2 * TVFS_STRING_SIZE
    BY <1>3, <1>13, <2>1, WrittenAre
  <2>3. t = TestOf("read_file", <<2 * TVFS_STRING_SIZE>>, Twice(Text))
    BY <2>1, PlanIs
  <2> QED
    BY <1>8, <1>9, <2>2, <2>3
<1> QED
  BY <1>10, <1>11, <1>12, <1>13

LEMMA TestStage ==
    ASSUME TypeInv, NEW m \in 0 .. 26, NEW k, k = m + 1, Stage(m), NEW t, t = Plan[k],
           Serve(t.call, t.args), fd' = Kept(reply')
    PROVE  Stage(k)' /\ Pleases(t)'
<1>1. CallMade(t)
  BY ServeIs
<1>2. CASE m \in {0, 9, 10, 11, 17, 22}
  BY <1>1, <1>2, TreeTests
<1>3. CASE m \in {1, 5, 12, 18, 23}
  BY <1>1, <1>3, OpenTests
<1>4. CASE m \in {4, 8, 16, 21, 26}
  BY <1>1, <1>4, CloseTests
<1>5. CASE m \in {13, 14, 15, 19, 20, 24, 25}
  BY <1>1, <1>5, ListTests
<1>6. CASE m \in {2, 3, 6, 7}
  BY <1>1, <1>6, DataTests
<1>7. m \in {0, 9, 10, 11, 17, 22} \cup {1, 5, 12, 18, 23} \cup {4, 8, 16, 21, 26}
            \cup {13, 14, 15, 19, 20, 24, 25} \cup {2, 3, 6, 7}
  OBVIOUS
<1> QED
  BY <1>2, <1>3, <1>4, <1>5, <1>6, <1>7

-----------------------------------------------------------------------------
(* The invariant.                                                          *)

LEMMA ScriptInit == UserInit => ScriptInv
<1> SUFFICES ASSUME UserInit PROVE ScriptInv
  OBVIOUS
<1>1. UserInv /\ done = 0 /\ telling = FALSE /\ printed = <<>>
  BY UserInitial DEF UserInit
<1>2. ~Finished
  BY <1>1 DEF UserInv
<1>3. Pending
  <2>1. from = <<"start">> /\ from # <<>> /\ from[1] = "start"
    BY DEF UserInit, CpuInit
  <2> QED
    BY <2>1 DEF Pending
<1>4. made = 0
  BY <1>1, <1>2, <1>3 DEF made
<1>5. Stage(0)
  <2>1. Created(0) = {ROOT_INODE} /\ Written(0) = 0 /\ OpenedOn(0) = NULL /\ ListedAt(0) = NULL
    BY CreatedAre, WrittenAre, OpenAre, ListedAre
  <2>2. Tree({ROOT_INODE})
    BY Five DEF UserInit, Init, Tree, Links, Kind, Father, Called
  <2>3. Holds(0)
    <3>1. size = [i \in Inode |-> IF i = FILE1 THEN 0 ELSE 0]
      BY DEF UserInit, Init
    <3>2. \A k \in 0 .. 0 - 1 : FALSE
      OBVIOUS
    <3> QED
      BY <3>1, <3>2 DEF Holds
  <2>4. Descriptor(NULL, NULL)
    BY Five DEF UserInit, Init, Descriptor
  <2>5. ~halted
    BY DEF UserInit, Init
  <2> QED
    BY <2>1, <2>2, <2>3, <2>4, <2>5 DEF Stage, State
<1>6. Sequence(printed) /\ Len(printed) = 0
  <2>1. <<>> \in Seq({})
    OBVIOUS
  <2> QED
    BY <1>1, <2>1 DEF Sequence
<1>7. PrintsIntended
  BY <1>6 DEF PrintsIntended
<1> QED
  BY <1>1, <1>2, <1>3, <1>4, <1>5, <1>6, <1>7 DEF ScriptInv

\* Steps that neither answer the program nor let it go on.
LEMMA ScriptStays ==
    ASSUME ScriptInv, UserInv', Pending' <=> Pending,
           UNCHANGED <<vars, done, telling, fd, line, printed>>
    PROVE  ScriptInv'
<1>1. (Finished' <=> Finished) /\ made' = made
  BY DEF Finished, made
<1>2. Stage(made)'
  <2>1. PICK k : k = made
    OBVIOUS
  <2>2. Stage(k)'
    BY <2>1 DEF ScriptInv, Stage, State, Tree, Links, Holds, Descriptor, vars, inodes, fds
  <2> QED
    BY <1>1, <2>1, <2>2
<1>3. test' = test
  BY DEF test
<1>4. Pleases(test)' <=> Pleases(test)
  BY <1>3 DEF Pleases, vars
<1>5. PrintsIntended'
  BY DEF ScriptInv, PrintsIntended
<1> QED
  BY <1>1, <1>2, <1>3, <1>4, <1>5 DEF ScriptInv

\* The test the program is at.
LEMMA AtTest ==
    ASSUME UserInv
    PROVE  /\ Len(user_process) = 27 /\ done \in 0 .. 27
           /\ Finished <=> done = 27
           /\ ~Finished => /\ done \in 0 .. 26 /\ done + 1 \in 1 .. 27
                           /\ test = Plan[done + 1] /\ test = user_process[done + 1]
                           /\ test.call \in Calls
<1>1. Len(user_process) = 27 /\ \A k \in 1 .. 27 : user_process[k] = Plan[k]
  <2>1. /\ Len(user_process) = 27 - 0
        /\ \A k \in 1 .. 27 - 0 : user_process[k] = Plan[0 + k]
    BY TheTests DEF Covers
  <2>2. 27 - 0 = 27 /\ \A k \in 1 .. 27 : 0 + k = k
    OBVIOUS
  <2> QED
    BY <2>1, <2>2
<1>2. done \in 0 .. 27 /\ (Finished <=> done = 27)
  BY <1>1 DEF UserInv, Finished
<1>3. ASSUME ~Finished
      PROVE  /\ done \in 0 .. 26 /\ done + 1 \in 1 .. 27
             /\ test = Plan[done + 1] /\ test = user_process[done + 1]
             /\ test.call \in Calls
  <2>1. done \in 0 .. 26 /\ done + 1 \in 1 .. 27
    BY <1>2, <1>3
  <2>2. Sound(user_process[done + 1])
    BY <1>1, <2>1, TestIs
  <2> QED
    BY <1>1, <2>1, <2>2 DEF test, Sound
<1> QED
  BY <1>1, <1>2, <1>3

LEMMA ScriptCalls ==
    ASSUME ScriptInv, sys_vfs, UserInv'
    PROVE  ScriptInv'
<1>1. UserInv /\ EntryInv /\ TypeInv /\ ~telling /\ ~telling' /\ done' = done
  BY DEF ScriptInv, UserInv, sys_vfs
<1>2. ~Finished /\ ~Finished'
  BY <1>1 DEF UserInv, Finished
<1>3. Pending /\ ~Pending'
  BY <1>1, PendingEnds DEF sys_vfs
<1>4. made = done /\ made' = done + 1
  BY <1>1, <1>2, <1>3 DEF made
<1>5. PICK t : t = test
  OBVIOUS
<1>6. PICK m : m = done
  OBVIOUS
<1>7. m \in 0 .. 26 /\ t = Plan[m + 1] /\ t.call \in Calls
  BY <1>1, <1>2, <1>5, <1>6, AtTest
<1>8. Serve(t.call, t.args) /\ fd' = Kept(reply')
  BY <1>5, <1>7, StubsReach DEF sys_vfs
<1>9. PICK k : k = m + 1
  OBVIOUS
<1>10. Stage(m)
  BY <1>4, <1>6 DEF ScriptInv
<1>11. Stage(k)' /\ Pleases(t)'
  BY <1>1, <1>7, <1>8, <1>9, <1>10, TestStage
<1>12. made' = k /\ test' = t
  BY <1>1, <1>4, <1>5, <1>6, <1>9 DEF test
<1>13. Stage(made)' /\ Pleases(test)'
  BY <1>11, <1>12
<1>14. UNCHANGED printed /\ PrintsIntended'
  BY DEF sys_vfs, ScriptInv, PrintsIntended
<1> QED
  BY <1>1, <1>2, <1>3, <1>13, <1>14 DEF ScriptInv

LEMMA ScriptWrites ==
    ASSUME ScriptInv, sys_write, UserInv'
    PROVE  ScriptInv'
<1>1. UserInv /\ EntryInv /\ telling /\ telling'
      /\ UNCHANGED <<vars, done, telling, fd, line>>
  BY DEF ScriptInv, UserInv, sys_write
<1>2. Pending /\ ~Pending'
  BY <1>1, PendingEnds DEF sys_write
<1>3. (Finished' <=> Finished) /\ made' = made /\ test' = test
  BY <1>1 DEF Finished, made, test
<1>4. Stage(made)'
  <2>1. PICK k : k = made
    OBVIOUS
  <2>2. Stage(k)'
    BY <1>1, <2>1
       DEF ScriptInv, Stage, State, Tree, Links, Holds, Descriptor, vars, inodes, fds
  <2> QED
    BY <1>3, <2>1, <2>2
<1>5. Sequence(printed) /\ Len(printed) = done
  BY <1>1, <1>2 DEF ScriptInv
<1>6. CASE Finished
  <2>1. UNCHANGED printed
    BY <1>6 DEF sys_write
  <2>2. PrintsIntended'
    BY <2>1 DEF ScriptInv, PrintsIntended
  <2> QED
    BY <1>1, <1>2, <1>3, <1>4, <1>5, <1>6, <2>1, <2>2 DEF ScriptInv
<1>7. CASE ~Finished
  <2>1. line = [ok |-> TRUE, text |-> test.shows]
    BY <1>1, <1>7 DEF ScriptInv
  <2>2. PICK s, e : s = printed /\ e = line
    OBVIOUS
  <2>3. printed' = Append(s, e)
    BY <1>7, <2>2 DEF sys_write
  <2>4. PICK S : s \in Seq(S)
    BY <1>5, <2>2 DEF Sequence
  <2>5. s \in Seq(S \cup {e})
    BY <2>4
  <2>6. /\ Append(s, e) \in Seq(S \cup {e}) /\ Len(Append(s, e)) = Len(s) + 1
        /\ \A k \in 1 .. Len(s) : Append(s, e)[k] = s[k]
        /\ Append(s, e)[Len(s) + 1] = e
    BY <2>5
  <2>7. Sequence(printed') /\ Len(printed') = done + 1
    BY <1>5, <2>2, <2>3, <2>6 DEF Sequence
  <2>8. /\ \A k \in 1 .. done : printed'[k] = printed[k]
        /\ printed'[done + 1] = [ok |-> TRUE, text |-> user_process[done + 1].shows]
    BY <1>1, <1>5, <1>7, <2>1, <2>2, <2>3, <2>6, AtTest
  <2>9. PrintsIntended'
    <3>1. done \in 0 .. 26
      BY <1>1, <1>7, AtTest
    <3>2. \A k \in 1 .. done + 1 : k \in 1 .. done \/ k = done + 1
      BY <3>1
    <3>3. \A k \in 1 .. done : printed[k] = [ok |-> TRUE, text |-> user_process[k].shows]
      BY <1>5 DEF ScriptInv, PrintsIntended
    <3> QED
      BY <2>7, <2>8, <3>2, <3>3 DEF PrintsIntended
  <2> QED
    BY <1>1, <1>2, <1>3, <1>4, <1>7, <2>7, <2>9 DEF ScriptInv
<1> QED
  BY <1>6, <1>7

LEMMA ScriptHears ==
    ASSUME ScriptInv, answered, UserInv'
    PROVE  ScriptInv'
<1>1. UserInv /\ EntryInv /\ ~telling /\ telling' /\ pc = "back"
      /\ UNCHANGED <<vars, done, fd, printed>>
  BY DEF ScriptInv, UserInv, answered
<1>2. ~Finished /\ ~Finished'
  BY <1>1 DEF UserInv, Finished
<1>3. ~Pending /\ Pending'
  BY <1>1, PendingAgain DEF answered
<1>4. made' = made /\ test' = test
  BY <1>1, <1>2, <1>3 DEF made, test
<1>5. Stage(made)'
  <2>1. PICK k : k = made
    OBVIOUS
  <2>2. Stage(k)'
    BY <1>1, <2>1
       DEF ScriptInv, Stage, State, Tree, Links, Holds, Descriptor, vars, inodes, fds
  <2> QED
    BY <1>4, <2>1, <2>2
<1>6. x0 = "result"
  BY <1>1 DEF EntryInv, Live, Right
<1>7. Pleases(test)
  BY <1>1, <1>3 DEF ScriptInv
<1>8. line' = [ok |-> TRUE, text |-> test.shows]
  <2>1. line' = Answer
    BY DEF answered
  <2> QED
    BY <1>6, <1>7, <2>1 DEF Answer, Pleases
<1>9. PrintsIntended'
  BY <1>1 DEF ScriptInv, PrintsIntended
<1> QED
  BY <1>1, <1>2, <1>3, <1>4, <1>5, <1>8, <1>9 DEF ScriptInv

LEMMA ScriptGoesOn ==
    ASSUME ScriptInv, told, UserInv'
    PROVE  ScriptInv'
<1>1. /\ UserInv /\ EntryInv /\ telling /\ pc = "back"
      /\ UNCHANGED <<vars, fd, line, printed>>
      /\ done' = IF Finished THEN done ELSE done + 1
      /\ telling' = (done' = Len(user_process))
  BY DEF ScriptInv, UserInv, told
<1>2. ~Pending /\ Pending'
  BY <1>1, PendingAgain DEF told
<1>3. telling' <=> Finished'
  BY <1>1 DEF Finished
<1>4. made = done' /\ made' = done'
  BY <1>1, <1>2, <1>3 DEF made
<1>5. Stage(made)'
  <2>1. PICK k : k = made
    OBVIOUS
  <2>2. Stage(k)'
    BY <1>1, <2>1
       DEF ScriptInv, Stage, State, Tree, Links, Holds, Descriptor, vars, inodes, fds
  <2> QED
    BY <1>4, <2>1, <2>2
<1>6. Len(printed) = done'
  BY <1>1, <1>2 DEF ScriptInv
<1>7. PrintsIntended'
  BY <1>1 DEF ScriptInv, PrintsIntended
<1> QED
  BY <1>1, <1>2, <1>3, <1>5, <1>6, <1>7 DEF ScriptInv

LEMMA ScriptStep == ScriptInv /\ [UserNext]_system => ScriptInv'
<1> SUFFICES ASSUME ScriptInv, [UserNext]_system PROVE ScriptInv'
  OBVIOUS
<1>1. UserInv /\ EntryInv /\ UserInv'
  BY UserStep DEF ScriptInv, UserInv
<1>2. CASE UNCHANGED system
  <2>1. Pending' <=> Pending
    BY <1>2 DEF system, cpu, Pending, Inside
  <2> QED
    BY <1>1, <1>2, <2>1, ScriptStays DEF system, program
<1>3. CASE Machine /\ UNCHANGED <<vars, program>>
  BY <1>1, <1>3, PendingStays, ScriptStays DEF program
<1>4. CASE Tick
  BY <1>1, <1>4, PendingStays, ScriptStays DEF Tick
<1>5. CASE begin
  <2>1. Pending' <=> Pending
    BY <1>1, <1>5, PendingAgain DEF begin
  <2> QED
    BY <1>1, <1>5, <2>1, ScriptStays DEF begin
<1>6. CASE sys_vfs \/ sys_write \/ answered \/ told
  BY <1>1, <1>6, ScriptCalls, ScriptWrites, ScriptHears, ScriptGoesOn
<1> QED
  BY <1>2, <1>3, <1>4, <1>5, <1>6 DEF UserNext, Run

LEMMA ScriptInvariant == UserSpec => []ScriptInv
BY ScriptInit, ScriptStep, PTL DEF UserSpec

\* Each test of the program says OK, a read shows the bytes written so far, a
\* listing the names created and not deleted in their order, and a delete_file
\* of a folder deletes it, for strings of any length and wherever interrupts
\* fall (user.c:58-287, user_sys.S:13-43, sys.c:69-87).
THEOREM ScriptSaysOk == UserSpec => []PrintsIntended
<1>1. ScriptInv => PrintsIntended
  BY DEF ScriptInv
<1> QED
  BY <1>1, ScriptInvariant, PTL

\* At its end the program has closed every descriptor and given back every
\* inode but that of its first file, which holds the string twice
\* (user.c:251-286).
THEOREM ScriptLeavesClean == UserSpec => []LeavesClean
<1>1. ASSUME ScriptInv, Finished
      PROVE  /\ \A slot \in Fd : fd_inode[slot] = NULL
             /\ \A i \in Inode : ref[i] = 0
             /\ {name[i] : i \in {j \in Inode : Used(j)}} = {"/", file1}
             /\ size[get_son_inode(ROOT_INODE, file1)] = 2 * TVFS_STRING_SIZE
  <2>1. Stage(27)
    BY <1>1, AtTest DEF ScriptInv, made
  <2>2. State({ROOT_INODE, FILE1}, 2 * TVFS_STRING_SIZE, NULL, NULL)
    BY <2>1, CreatedAre, WrittenAre, OpenAre, ListedAre DEF Stage
  <2>3. /\ \A slot \in Fd : fd_inode[slot] = NULL
        /\ \A i \in Inode : ref[i] = 0
    BY <2>2, Five DEF State, Descriptor
  <2>4. \A i \in Inode : Used(i) <=> i \in {ROOT_INODE, FILE1}
    BY <2>2 DEF State, Tree, Used, Kind
  <2>5. name[ROOT_INODE] = "/" /\ name[FILE1] = file1
    BY <2>2, Five DEF State, Tree, Called
  <2>6. {name[i] : i \in {j \in Inode : Used(j)}} = {"/", file1}
    <3>1. {j \in Inode : Used(j)} = {ROOT_INODE, FILE1}
      BY <2>4, Five
    <3> QED
      BY <2>5, <3>1
  <2>7. get_son_inode(ROOT_INODE, file1) = FILE1
    <3>1. Tree({ROOT_INODE, FILE1}) /\ TypeInv
      BY <1>1, <2>2 DEF State, ScriptInv, UserInv
    <3>2. Shallow
      BY <3>1, ShortLists
    <3>3. PICK b : brother[FILE1] = b
      OBVIOUS
    <3>4. first_son[ROOT_INODE] = FILE1
      BY <3>1, Five DEF Tree, Links
    <3> QED
      BY <2>5, <3>2, <3>3, <3>4, Five, SonFound DEF Shallow
  <2>8. size[FILE1] = 2 * TVFS_STRING_SIZE
    BY <2>2, Five DEF State, Holds
  <2> QED
    BY <2>3, <2>6, <2>7, <2>8
<1>2. ScriptInv => LeavesClean
  BY <1>1 DEF LeavesClean
<1> QED
  BY <1>2, ScriptInvariant, PTL
=============================================================================
