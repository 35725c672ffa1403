------------------------------ MODULE VfsProofs ------------------------------
(***************************************************************************)
(* Proofs about Vfs, for any number of inodes and descriptors, any names,  *)
(* paths and strings, and any size of a page.                              *)
(***************************************************************************)
EXTENDS Vfs, FiniteSetTheorems, TLAPS

\* A descriptor's offset never leaves the start of its file; with it, a read
\* stays inside the data block.
NextIsZero == \A fd \in Fd : fd_next[fd] = 0

TypeInv == TypeOK /\ NextIsZero

\* The constants as the provers like them.
LEMMA Sizes ==
    /\ FS_NPAGES \in Nat /\ 0 < FS_NPAGES
    /\ MAX_OPEN_FILES \in Nat
    /\ COPY_UNIT \in Nat /\ 0 < COPY_UNIT
    /\ INT_MAX \in Nat
    /\ FILE_MAX_SIZE \in Nat
    /\ FS_NPAGES <= FILE_MAX_SIZE /\ FILE_MAX_SIZE <= INT_MAX
    /\ ROOT_INODE \in Inode
    /\ NULL \notin Inode
BY SizesAssumption DEF Inode, NULL, ROOT_INODE

\* memcpy, asked for 1 to FILE_MAX_SIZE bytes, copies at least that many and
\* stays inside the page.
LEMMA CopiedInPage ==
    ASSUME NEW n \in 1 .. FILE_MAX_SIZE
    PROVE  Copied(n) \in n .. FILE_MAX_SIZE
<1> DEFINE q == (n + COPY_UNIT - 1) \div COPY_UNIT
<1>1. PICK blocks \in Nat : FILE_MAX_SIZE = blocks * COPY_UNIT
  BY SizesAssumption
<1>2. n \in Nat /\ n + COPY_UNIT - 1 \in Nat
  BY Sizes
<1>3. q \in Nat /\ q * COPY_UNIT <= n + COPY_UNIT - 1
                /\ n + COPY_UNIT - 1 < q * COPY_UNIT + COPY_UNIT
  BY <1>2, Sizes
<1>4. q <= blocks
  <2>1. SUFFICES ASSUME blocks + 1 <= q PROVE FALSE
    BY <1>3
  <2>2. (blocks + 1) * COPY_UNIT <= q * COPY_UNIT
    BY <2>1, <1>3, Sizes
  <2> QED
    BY <2>2, <1>1, <1>3, Sizes
<1>5. q * COPY_UNIT <= blocks * COPY_UNIT
  BY <1>4, <1>3, Sizes
<1> QED
  BY <1>1, <1>3, <1>5, Sizes DEF Copied

-----------------------------------------------------------------------------
(* Types.                                                                  *)

LEMMA InitType == Init => TypeInv
<1> SUFFICES ASSUME Init PROVE TypeInv
  OBVIOUS
<1>1. ROOT_INODE \in Inode /\ NULL \in Pointer /\ 0 \in 0 .. FILE_MAX_SIZE
  BY Sizes DEF Pointer
<1>2. reply \in Reply
  BY DEF Init, Reply, VfsError
<1>3. data \in [Inode -> [Offset -> Byte]]
  BY ArgumentsAssumption DEF Init
<1>4. name \in [Inode -> Name]
  BY DEF Init, Name
<1>5. /\ type \in [Inode -> {"FILE", "FOLDER", "EMPTY"}]
      /\ father \in [Inode -> Pointer]
      /\ brother \in [Inode -> Pointer]
      /\ first_son \in [Inode -> Pointer]
  BY <1>1 DEF Init
<1>7. size \in [Inode -> 0 .. FILE_MAX_SIZE] /\ ref \in [Inode -> Int]
  <2>1. size = [i \in Inode |-> 0] /\ ref = [i \in Inode |-> 0]
    BY DEF Init
  <2> QED
    BY <2>1, <1>1
<1>6. /\ fd_inode \in [Fd -> Pointer]
      /\ fd_next \in [Fd -> Nat]
      /\ fd_next_son \in [Fd -> Pointer]
      /\ halted \in BOOLEAN
      /\ NextIsZero
  BY <1>1 DEF Init, NextIsZero
<1> QED
  BY <1>2, <1>3, <1>4, <1>5, <1>6, <1>7 DEF TypeInv, TypeOK

\* What a call that refuses leaves and gives back.
LEMMA RefuseType ==
    ASSUME TypeInv, NEW error \in VfsError, NEW fd \in FdArg,
           Refuse(error) \/ RefuseFd(error, fd) \/ RefuseData
    PROVE  TypeInv'
BY Sizes DEF TypeInv, TypeOK, NextIsZero, Refuse, RefuseFd, RefuseData, Reply,
             inodes, fds

LEMMA AllocType ==
    ASSUME TypeInv, NEW new \in Inode, NEW nm \in Names, NEW dir \in Inode,
           NEW kind \in {"FILE", "FOLDER"}, alloc_inode(new, nm, dir, kind),
           reply' = [ret |-> "VFS_OK"], UNCHANGED <<fds, halted>>
    PROVE  TypeInv'
BY Sizes, ZenonT(40) DEF TypeInv, TypeOK, NextIsZero, alloc_inode, Reply, VfsError, fds,
             Pointer, Name

LEMMA CreateType ==
    ASSUME TypeInv, NEW path, NEW nm, NEW kind \in {"FILE", "FOLDER"},
           create(kind, path, nm)
    PROVE  TypeInv'
<1>1. PICK dir \in Pointer :
        \/ \E error \in VfsError : Refuse(error)
        \/ /\ nm \in Names
           /\ IsFolder(dir)
           /\ \E new \in Inode : alloc_inode(new, nm, dir, kind)
           /\ reply' = [ret |-> "VFS_OK"]
           /\ UNCHANGED <<fds, halted>>
  BY DEF create, VfsError
<1>2. CASE \E error \in VfsError : Refuse(error)
  BY <1>2, RefuseType DEF FdArg
<1>3. CASE /\ nm \in Names
           /\ IsFolder(dir)
           /\ \E new \in Inode : alloc_inode(new, nm, dir, kind)
           /\ reply' = [ret |-> "VFS_OK"]
           /\ UNCHANGED <<fds, halted>>
  <2>1. dir \in Inode
    BY <1>3 DEF IsFolder, Pointer
  <2> QED
    BY <2>1, <1>3, AllocType
<1> QED
  BY <1>1, <1>2, <1>3

LEMMA DeleteType ==
    ASSUME TypeInv, NEW path, delete(path)
    PROVE  TypeInv'
<1>1. PICK top \in Pointer :
        \/ Refuse("VFS_INVALID_FD")
        \/ /\ top # NULL
           /\ IF Used(top) THEN delete_inode(top) ELSE UNCHANGED inodes
           /\ \/ halted' = TRUE /\ UNCHANGED reply
              \/ reply' = [ret |-> "VFS_OK"] /\ UNCHANGED halted
           /\ UNCHANGED fds
  BY DEF delete
<1>2. CASE Refuse("VFS_INVALID_FD")
  BY <1>2, RefuseType DEF VfsError, FdArg
<1>3. CASE /\ top # NULL
           /\ IF Used(top) THEN delete_inode(top) ELSE UNCHANGED inodes
           /\ \/ halted' = TRUE /\ UNCHANGED reply
              \/ reply' = [ret |-> "VFS_OK"] /\ UNCHANGED halted
           /\ UNCHANGED fds
  <2>1. top \in Inode
    BY <1>3 DEF Pointer
  <2>2. reply' \in Reply /\ halted' \in BOOLEAN
    <3>1. [ret |-> "VFS_OK"] \in Reply
      BY DEF Reply, VfsError
    <3> QED
      BY <3>1, <1>3 DEF TypeInv, TypeOK
  <2>3. CASE delete_inode(top)
    BY <2>1, <2>2, <2>3, <1>3, Sizes
    DEF TypeInv, TypeOK, NextIsZero, delete_inode, free_inode, Unhook, fds, Pointer
  <2>4. CASE UNCHANGED inodes
    BY <2>2, <2>4, <1>3 DEF TypeInv, TypeOK, NextIsZero, inodes, fds
  <2> QED
    BY <2>3, <2>4, <1>3
<1> QED
  BY <1>1, <1>2, <1>3

LEMMA OpenType ==
    ASSUME TypeInv, NEW path, NEW fd \in Fd, NEW kind \in {"FILE", "FOLDER"},
           NEW badPath \in VfsError, open(kind, badPath, path, fd)
    PROVE  TypeInv'
<1>1. CASE \E error \in VfsError : RefuseFd(error, fd)
  BY <1>1, RefuseType DEF FdArg
<1>2. CASE \E target \in Inode :
              /\ fd_inode' = [fd_inode EXCEPT ![fd] = target]
              /\ IF kind = "FILE"
                 THEN /\ fd_next' = [fd_next EXCEPT ![fd] = 0]
                      /\ UNCHANGED fd_next_son
                 ELSE /\ fd_next_son' =
                            [fd_next_son EXCEPT ![fd] = first_son[target]]
                      /\ UNCHANGED fd_next
              /\ ref' = [ref EXCEPT ![target] = @ + 1]
              /\ reply' = [ret |-> "VFS_OK", fd |-> fd]
              /\ UNCHANGED <<type, name, father, brother, first_son, size,
                             data, halted>>
  <2>1. [ret |-> "VFS_OK", fd |-> fd] \in Reply
    BY DEF Reply, VfsError, FdArg
  <2> QED
    BY <2>1, <1>2, Sizes DEF TypeInv, TypeOK, NextIsZero, Pointer
<1> QED
  BY <1>1, <1>2 DEF open, Rewind, VfsError, Pointer

LEMMA CloseType ==
    ASSUME TypeInv, NEW fd \in FdArg, NEW call, close(call, fd)
    PROVE  TypeInv'
<1>1. CASE ~Opened(fd)
  BY <1>1, RefuseType DEF close, VfsError, FdArg
<1>2. CASE Opened(fd)
  <2>1. fd \in Fd /\ fd_inode[fd] \in Inode
    BY <1>2 DEF Opened, FdArg, TypeInv, TypeOK, Pointer
  <2>2. [ret |-> "VFS_OK", fd |-> -1] \in Reply
    BY DEF Reply, VfsError, FdArg
  <2>3. NULL \in Pointer
    BY DEF Pointer
  <2>4. ref' \in [Inode -> Int] /\ fd_inode' \in [Fd -> Pointer]
    <3>1. /\ ref' = [ref EXCEPT ![fd_inode[fd]] = @ - 1]
          /\ fd_inode' = [fd_inode EXCEPT ![fd] = NULL]
      BY <1>2 DEF close
    <3>2. ref \in [Inode -> Int] /\ fd_inode \in [Fd -> Pointer]
      BY DEF TypeInv, TypeOK
    <3>3. ref' \in [Inode -> Int]
      BY <3>1, <3>2, <2>1
    <3> QED
      BY <3>1, <3>2, <3>3, <2>1, <2>3
  <2>5. fd_next' \in [Fd -> Nat] /\ fd_next_son' \in [Fd -> Pointer] /\ NextIsZero'
    BY <1>2, <2>1, <2>3 DEF close, TypeInv, TypeOK, NextIsZero
  <2> QED
    BY <1>2, <2>2, <2>4, <2>5 DEF close, TypeInv, TypeOK
<1> QED
  BY <1>1, <1>2

LEMMA ListType ==
    ASSUME TypeInv, NEW fd \in FdArg, get_next_dir_son(fd)
    PROVE  TypeInv'
<1>1. CASE \E error \in VfsError, arg \in FdArg : RefuseFd(error, arg)
  BY <1>1, RefuseType
<1>2. CASE /\ Opened(fd)
           /\ LET son == fd_next_son[fd]
              IN  /\ reply' = [ret |-> "VFS_OK",
                               son |-> IF son = NULL THEN "" ELSE name[son]]
                  /\ fd_next_son' =
                       IF son = NULL THEN fd_next_son
                       ELSE [fd_next_son EXCEPT ![fd] = brother[son]]
           /\ UNCHANGED <<inodes, fd_inode, fd_next, halted>>
  <2>1. fd \in Fd
    BY <1>2 DEF Opened, FdArg
  <2>2. CASE fd_next_son[fd] = NULL
    <3>1. [ret |-> "VFS_OK", son |-> ""] \in Reply
      BY DEF Reply, VfsError, Name
    <3> QED
      BY <3>1, <2>2, <1>2 DEF TypeInv, TypeOK, NextIsZero, inodes
  <2>3. CASE fd_next_son[fd] # NULL
    <3>1. fd_next_son[fd] \in Inode
      BY <2>1, <2>3 DEF TypeInv, TypeOK, Pointer
    <3>2. [ret |-> "VFS_OK", son |-> name[fd_next_son[fd]]] \in Reply
      BY <3>1 DEF Reply, VfsError, TypeInv, TypeOK
    <3> QED
      BY <3>1, <3>2, <2>3, <2>1, <1>2 DEF TypeInv, TypeOK, NextIsZero, inodes
  <2> QED
    BY <2>2, <2>3
<1> QED
  BY <1>1, <1>2 DEF get_next_dir_son, VfsError, FdArg

\* What a read takes from a file that has something to read.
LEMMA ReadLength ==
    ASSUME TypeInv, NEW i \in Inode, NEW len \in 0 .. 2 * INT_MAX + 1, len # 0, 0 < size[i]
    PROVE  SizeToRead(i, 0, len) \in 1 .. FILE_MAX_SIZE
<1>1. len \in 0 .. 2 * INT_MAX + 1 /\ size[i] \in 0 .. FILE_MAX_SIZE
  BY DEF TypeInv, TypeOK
<1> QED
  BY <1>1, Sizes DEF SizeToRead, ToInt

LEMMA ReadType ==
    ASSUME TypeInv, NEW fd \in FdArg, NEW len \in 0 .. 2 * INT_MAX + 1, read_file(fd, len)
    PROVE  TypeInv'
<1>1. CASE RefuseData
  BY <1>1, RefuseType DEF VfsError, FdArg
<1>2. CASE IsFileFd(fd) /\ ~RefuseData
  <2> DEFINE i == fd_inode[fd]
             n == SizeToRead(i, 0, len)
             bytes == [k \in 1 .. Copied(n) |-> data[i][0 + k - 1]]
  <2>1. fd \in Fd /\ i \in Inode /\ fd_next[fd] = 0
    BY <1>2 DEF IsFileFd, Opened, FdArg, TypeInv, TypeOK, Pointer, NextIsZero
  <2>2. /\ reply' = IF 0 >= size[i] \/ len = 0
                    THEN [n |-> 0, out |-> <<0>>]
                    ELSE [n |-> n, out |-> bytes]
        /\ UNCHANGED <<inodes, fds, halted>>
    BY <1>2, <2>1 DEF read_file
  <2>3. reply' \in Reply
    <3>1. [n |-> 0, out |-> <<0>>] \in Reply
      BY Sizes, ArgumentsAssumption DEF Reply
    <3>2. ASSUME len # 0, ~(0 >= size[i])
          PROVE  [n |-> n, out |-> bytes] \in Reply
      <4>1. n \in 1 .. FILE_MAX_SIZE
        BY <3>2, <2>1, ReadLength DEF TypeInv, TypeOK
      <4>2. Copied(n) \in Nat /\ Copied(n) <= FILE_MAX_SIZE
        BY <4>1, CopiedInPage, Sizes
      <4>3. \A k \in 1 .. Copied(n) : 0 + k - 1 \in Offset
        BY <4>2, Sizes DEF Offset
      <4>4. bytes \in [1 .. Copied(n) -> Byte]
        BY <4>3, <2>1 DEF TypeInv, TypeOK
      <4>5. bytes \in Seq(Byte)
        BY <4>4, <4>2
      <4> QED
        BY <4>1, <4>5 DEF Reply
    <3> QED
      BY <3>1, <3>2, <2>2
  <2> QED
    BY <2>2, <2>3 DEF TypeInv, TypeOK, NextIsZero, inodes, fds
<1> QED
  BY <1>1, <1>2 DEF read_file

LEMMA WriteType ==
    ASSUME TypeInv, NEW i \in Inode, NEW from \in 0 .. FILE_MAX_SIZE,
           NEW str \in [Offset -> Byte], NEW len \in 0 .. 2 * INT_MAX + 1,
           write_inode(i, from, str, len)
    PROVE  TypeInv'
<1> DEFINE n == SizeToWrite(from, len)
<1>2. n \in 0 .. FILE_MAX_SIZE - from
  BY Sizes DEF SizeToWrite, ToInt
<1>3. from + n \in 0 .. FILE_MAX_SIZE /\ n \in -1 .. FILE_MAX_SIZE
  BY <1>2, Sizes
<1>4. reply' \in Reply
  BY <1>3 DEF write_inode, Reply
<1>5. size' \in [Inode -> 0 .. FILE_MAX_SIZE]
  BY <1>3 DEF write_inode, TypeInv, TypeOK
<1>6. data' \in [Inode -> [Offset -> Byte]]
  <2>1. \A k \in Offset : from <= k /\ k < from + n => k - from \in Offset
    BY <1>3, Sizes DEF Offset
  <2>3. [k \in Offset |-> IF from <= k /\ k < from + n THEN str[k - from]
                          ELSE data[i][k]] \in [Offset -> Byte]
    BY <2>1 DEF TypeInv, TypeOK
  <2> QED
    BY <2>3 DEF write_inode, TypeInv, TypeOK
<1> QED
  BY <1>4, <1>5, <1>6 DEF write_inode, TypeInv, TypeOK, NextIsZero, fds

\* Writing, from the beginning of the file or behind what it has.
LEMMA WriteFileType ==
    ASSUME TypeInv, NEW fd \in FdArg,
           NEW str \in [Offset -> Byte], NEW len \in 0 .. 2 * INT_MAX + 1,
           write_file(fd, str, len) \/ append_file(fd, str, len)
    PROVE  TypeInv'
<1>1. CASE RefuseData
  BY <1>1, RefuseType DEF VfsError, FdArg
<1>2. CASE IsFileFd(fd)
  <2>1. fd \in Fd /\ fd_inode[fd] \in Inode
    BY <1>2 DEF IsFileFd, Opened, FdArg, TypeInv, TypeOK, Pointer
  <2>2. /\ 0 \in 0 .. FILE_MAX_SIZE
        /\ size[fd_inode[fd]] \in 0 .. FILE_MAX_SIZE
    BY <2>1, Sizes DEF TypeInv, TypeOK
  <2>3. \/ write_inode(fd_inode[fd], 0, str, len)
        \/ write_inode(fd_inode[fd], size[fd_inode[fd]], str, len)
    BY <1>2 DEF write_file, append_file
  <2> QED
    BY <2>1, <2>2, <2>3, WriteType
<1> QED
  BY <1>1, <1>2 DEF write_file, append_file

LEMMA StepType == TypeInv /\ [Next]_vars => TypeInv'
<1> SUFFICES ASSUME TypeInv, [Next]_vars PROVE TypeInv'
  OBVIOUS
<1>1. CASE UNCHANGED vars
  BY <1>1 DEF TypeInv, TypeOK, NextIsZero, vars, inodes, fds
<1>2. CASE NullPointer
  BY <1>2, RefuseType DEF NullPointer, VfsError, FdArg
<1>3. ASSUME NEW path, NEW nm, create_file(path, nm) \/ create_dir(path, nm)
      PROVE  TypeInv'
  BY <1>3, CreateType DEF create_file, create_dir
<1>4. ASSUME NEW path, delete_file(path) \/ delete_dir(path)
      PROVE  TypeInv'
  BY <1>4, DeleteType DEF delete_file, delete_dir
<1>5. ASSUME NEW path, open_file(path) \/ open_dir(path)
      PROVE  TypeInv'
  BY <1>5, OpenType, RefuseType DEF open_file, open_dir, VfsError, FdArg
<1>6. ASSUME NEW fd \in FdArg,
             close_file(fd) \/ close_dir(fd) \/ get_next_dir_son(fd)
      PROVE  TypeInv'
  BY <1>6, CloseType, ListType DEF close_file, close_dir
<1>7. ASSUME NEW fd \in FdArg, NEW len \in Lens, read_file(fd, len)
      PROVE  TypeInv'
  BY <1>7, ReadType, ArgumentsAssumption
<1>8. ASSUME NEW fd \in FdArg, NEW str \in Strings, NEW len \in Lens,
             write_file(fd, str, len) \/ append_file(fd, str, len)
      PROVE  TypeInv'
  BY <1>8, WriteFileType, ArgumentsAssumption
<1> QED
  BY <1>1, <1>2, <1>3, <1>4, <1>5, <1>6, <1>7, <1>8 DEF Next, Call, ErrHang

\* Whatever the calls and their order, every field of the inode table, the
\* descriptor table and what is given back stays in its range: sizes within a
\* page, pointers to inodes of the table, and reads and writes inside the
\* data block (vfs.c:115-458, filesystem.c:29-171).
THEOREM TypeCorrect == Spec => []TypeOK
<1>1. TypeInv => TypeOK
  BY DEF TypeInv
<1> QED
  BY <1>1, InitType, StepType, PTL DEF Spec

-----------------------------------------------------------------------------
(* Reads.                                                                  *)

LEMMA ShortRead ==
    ASSUME TypeInv, NEW fd \in Fd, NEW len \in Lens, read_file(fd, len),
           IsFileFd(fd), 0 < len, len < FS_NPAGES
    PROVE  LET i == fd_inode[fd]
           IN  IF size[i] = 0 THEN reply'.n = 0
               ELSE /\ reply'.n = IF len < size[i] THEN len ELSE size[i]
                    /\ \A k \in 1 .. reply'.n : reply'.out[k] = data[i][k - 1]
<1> DEFINE i == fd_inode[fd]
           n == SizeToRead(i, 0, len)
           m == IF len < size[i] THEN len ELSE size[i]
           bytes == [k \in 1 .. Copied(n) |-> data[i][0 + k - 1]]
<1>1. /\ i \in Inode /\ fd_next[fd] = 0
      /\ size[i] \in 0 .. FILE_MAX_SIZE /\ len \in Nat
  BY ArgumentsAssumption, Sizes
  DEF IsFileFd, Opened, TypeInv, TypeOK, Pointer, NextIsZero
<1>2. reply' = IF 0 >= size[i] \/ len = 0 THEN [n |-> 0, out |-> <<0>>]
               ELSE [n |-> n, out |-> bytes]
  BY <1>1 DEF read_file
<1>3. CASE size[i] = 0
  BY <1>2, <1>3
<1>4. CASE size[i] # 0
  <2>1. n = m
    BY <1>1, <1>4, Sizes DEF SizeToRead, ToInt
  <2>2. m \in 1 .. FILE_MAX_SIZE
    BY <1>1, <1>4, Sizes
  <2>3. reply' = [n |-> n, out |-> bytes]
    BY <1>1, <1>2, <1>4
  <2> HIDE DEF n, m
  <2>4. reply'.n = m /\ reply'.out = bytes
    BY <2>1, <2>3
  <2>5. Copied(n) \in m .. FILE_MAX_SIZE
    BY <2>1, <2>2, CopiedInPage
  <2>6. \A k \in 1 .. m : k \in 1 .. Copied(n) /\ 0 + k - 1 = k - 1
    BY <2>2, <2>5, Sizes
  <2>7. \A k \in 1 .. m : bytes[k] = data[i][k - 1]
    BY <2>6
  <2> QED
    BY <1>4, <2>4, <2>7 DEF m
<1> QED
  BY <1>3, <1>4

\* For any page size, unit of copy and file, a request below FS_NPAGES gets
\* exactly the beginning of the file: neither the rounding of memcpy nor the
\* comparison of a signed with an unsigned length changes it (vfs.c:262-267,
\* filesystem.c:114-136).
THEOREM ShortReadsAreExact == Spec => ReadIsPrefix
<1>1. TypeInv /\ [Next]_vars =>
        [\A fd \in Fd, len \in Lens :
         read_file(fd, len) /\ IsFileFd(fd) /\ 0 < len /\ len < FS_NPAGES
           => LET i == fd_inode[fd]
              IN  IF size[i] = 0 THEN reply'.n = 0
                  ELSE /\ reply'.n = IF len < size[i] THEN len ELSE size[i]
                       /\ \A k \in 1 .. reply'.n : reply'.out[k] = data[i][k - 1]
        ]_vars
  BY ShortRead
<1> QED
  BY <1>1, InitType, StepType, PTL DEF Spec, ReadIsPrefix

-----------------------------------------------------------------------------
(* Reference counts.                                                       *)

\* The descriptors that lead to an inode.
OpenOn(i) == {fd \in Fd : fd_inode[fd] = i}

RefInv == TypeInv /\ RefBound

LEMMA OpenOnFinite ==
    ASSUME NEW i
    PROVE  IsFiniteSet(OpenOn(i)) /\ Cardinality(OpenOn(i)) \in Nat
<1>1. IsFiniteSet(Fd)
  BY FS_Interval, Sizes DEF Fd
<1>2. OpenOn(i) \in SUBSET Fd
  BY DEF OpenOn
<1>3. IsFiniteSet(OpenOn(i))
  BY <1>1, <1>2, FS_Subset
<1> QED
  BY <1>3, FS_CardinalityType

\* Calls that leave the descriptors as they are may only lower a count, or
\* set it to 0.
LEMMA SameDescriptors ==
    ASSUME RefInv, TypeOK', UNCHANGED fd_inode,
           \A i \in Inode : ref'[i] = ref[i] \/ ref'[i] = 0
    PROVE  RefBound'
<1> SUFFICES ASSUME NEW i \in Inode PROVE ref'[i] <= Cardinality(OpenOn(i))
  BY DEF RefBound, OpenOn
<1>1. Cardinality(OpenOn(i)) \in Nat
  BY OpenOnFinite
<1>2. ref[i] <= Cardinality(OpenOn(i))
  BY DEF RefInv, RefBound, OpenOn
<1> QED
  BY <1>1, <1>2

\* open_file and open_dir take a slot no inode is behind.
LEMMA OpenRef ==
    ASSUME RefInv, NEW fd \in Fd, NEW target \in Inode, fd_inode[fd] = NULL,
           fd_inode' = [fd_inode EXCEPT ![fd] = target],
           ref' = [ref EXCEPT ![target] = @ + 1]
    PROVE  RefBound'
<1> SUFFICES ASSUME NEW i \in Inode PROVE ref'[i] <= Cardinality(OpenOn(i)')
  BY DEF RefBound, OpenOn
<1>1. ref \in [Inode -> Int] /\ fd_inode \in [Fd -> Pointer]
  BY DEF RefInv, TypeInv, TypeOK
<1>2. ref[i] <= Cardinality(OpenOn(i))
  BY DEF RefInv, RefBound, OpenOn
<1>3. IsFiniteSet(OpenOn(i)) /\ Cardinality(OpenOn(i)) \in Nat
  BY OpenOnFinite
<1>4. NULL # i /\ fd \notin OpenOn(i)
  BY Sizes DEF OpenOn
<1>5. CASE i = target
  <2>1. OpenOn(i)' = OpenOn(i) \cup {fd}
    BY <1>1, <1>5 DEF OpenOn
  <2>2. Cardinality(OpenOn(i)') = Cardinality(OpenOn(i)) + 1
    BY <1>3, <1>4, <2>1, FS_AddElement
  <2>3. ref'[i] = ref[i] + 1
    BY <1>1, <1>5
  <2> QED
    BY <1>1, <1>2, <1>3, <2>2, <2>3
<1>6. CASE i # target
  <2>1. OpenOn(i)' = OpenOn(i)
    BY <1>1, <1>4, <1>6 DEF OpenOn
  <2> QED
    BY <1>1, <1>2, <1>6, <2>1
<1> QED
  BY <1>5, <1>6

\* close_file and close_dir give one back.
LEMMA CloseRef ==
    ASSUME RefInv, NEW fd \in Fd, NEW target \in Inode, fd_inode[fd] = target,
           fd_inode' = [fd_inode EXCEPT ![fd] = NULL],
           ref' = [ref EXCEPT ![target] = @ - 1]
    PROVE  RefBound'
<1> SUFFICES ASSUME NEW i \in Inode PROVE ref'[i] <= Cardinality(OpenOn(i)')
  BY DEF RefBound, OpenOn
<1>1. ref \in [Inode -> Int] /\ fd_inode \in [Fd -> Pointer]
  BY DEF RefInv, TypeInv, TypeOK
<1>2. ref[i] <= Cardinality(OpenOn(i))
  BY DEF RefInv, RefBound, OpenOn
<1>3. IsFiniteSet(OpenOn(i)) /\ Cardinality(OpenOn(i)) \in Nat
  BY OpenOnFinite
<1>4. NULL # i
  BY Sizes
<1>5. OpenOn(i)' = OpenOn(i) \ {fd}
  BY <1>1, <1>4 DEF OpenOn
<1>6. Cardinality(OpenOn(i)') =
        IF i = target THEN Cardinality(OpenOn(i)) - 1
        ELSE Cardinality(OpenOn(i))
  <2>1. fd \in OpenOn(i) <=> i = target
    BY DEF OpenOn
  <2> QED
    BY <1>3, <1>5, <2>1, FS_RemoveElement
<1>7. ref'[i] = IF i = target THEN ref[i] - 1 ELSE ref[i]
  BY <1>1
<1> QED
  BY <1>1, <1>2, <1>3, <1>6, <1>7

LEMMA RefInit == Init => RefInv
<1> SUFFICES ASSUME Init PROVE RefInv
  OBVIOUS
<1>1. \A i \in Inode : ref[i] = 0
  BY DEF Init
<1>2. \A i \in Inode : Cardinality(OpenOn(i)) \in Nat
  BY OpenOnFinite
<1>3. RefBound
  BY <1>1, <1>2 DEF RefBound, OpenOn
<1> QED
  BY <1>3, InitType DEF RefInv

LEMMA RefStep == RefInv /\ [Next]_vars => RefInv'
<1> SUFFICES ASSUME RefInv, [Next]_vars PROVE RefBound'
  BY StepType DEF RefInv
<1>0. /\ TypeOK' /\ type \in [Inode -> {"FILE", "FOLDER", "EMPTY"}]
      /\ ref \in [Inode -> Int] /\ fd_inode \in [Fd -> Pointer]
  BY StepType DEF RefInv, TypeInv, TypeOK
<1>1. CASE UNCHANGED <<ref, fd_inode>>
  BY <1>0, <1>1, SameDescriptors
<1>2. CASE NullPointer \/ UNCHANGED vars \/ ErrHang
  BY <1>1, <1>2 DEF NullPointer, ErrHang, Refuse, RefuseData, vars, inodes, fds
<1>3. ASSUME NEW path, NEW nm, create_file(path, nm) \/ create_dir(path, nm)
      PROVE  RefBound'
  BY <1>1, <1>3 DEF create_file, create_dir, create, Refuse, alloc_inode,
                    inodes, fds
<1>4. ASSUME NEW path, delete_file(path) \/ delete_dir(path)
      PROVE  RefBound'
  <2>1. UNCHANGED fd_inode
    BY <1>4 DEF delete_file, delete_dir, delete, Refuse, fds
  <2>2. UNCHANGED ref \/ \E gone : free_inode(gone)
    BY <1>4 DEF delete_file, delete_dir, delete, delete_inode, Refuse, inodes
  <2>3. \A i \in Inode : ref'[i] = ref[i] \/ ref'[i] = 0
    BY <1>0, <2>2 DEF free_inode
  <2> QED
    BY <1>0, <2>1, <2>3, SameDescriptors
<1>5. ASSUME NEW path, open_file(path) \/ open_dir(path)
      PROVE  RefBound'
  <2>1. \/ UNCHANGED <<ref, fd_inode>>
        \/ \E fd \in Fd, target \in Inode :
              /\ fd_inode[fd] = NULL
              /\ fd_inode' = [fd_inode EXCEPT ![fd] = target]
              /\ ref' = [ref EXCEPT ![target] = @ + 1]
    BY <1>5 DEF open_file, open_dir, open, IsNextFd, RefuseFd, inodes, fds,
                Pointer
  <2> QED
    BY <1>1, <2>1, OpenRef
<1>6. ASSUME NEW fd \in FdArg, close_file(fd) \/ close_dir(fd)
      PROVE  RefBound'
  <2>1. CASE ~Opened(fd)
    BY <1>1, <1>6, <2>1 DEF close_file, close_dir, close, RefuseFd, inodes, fds
  <2>2. CASE Opened(fd)
    <3>1. fd \in Fd /\ fd_inode[fd] \in Inode
      BY <1>0, <2>2 DEF Opened, FdArg, Pointer
    <3>2. /\ ref' = [ref EXCEPT ![fd_inode[fd]] = @ - 1]
          /\ fd_inode' = [fd_inode EXCEPT ![fd] = NULL]
      BY <1>6, <2>2 DEF close_file, close_dir, close
    <3> QED
      BY <3>1, <3>2, CloseRef
  <2> QED
    BY <2>1, <2>2
<1>7. ASSUME NEW fd \in FdArg, NEW str, NEW len,
             \/ get_next_dir_son(fd) \/ read_file(fd, len)
             \/ write_file(fd, str, len) \/ append_file(fd, str, len)
      PROVE  RefBound'
  BY <1>1, <1>7 DEF get_next_dir_son, read_file, write_file, append_file,
                    write_inode, RefuseFd, RefuseData, inodes, fds
<1> QED
  BY <1>2, <1>3, <1>4, <1>5, <1>6, <1>7 DEF Next, Call

\* An inode never counts more descriptors than lead to it, whatever is
\* deleted under them and used again: the count is positive only for an
\* inode someone has open (vfs.c:213, 234, 402, 422, filesystem.c:167).
THEOREM RefIsBounded == Spec => []RefBound
<1>1. RefInv => RefBound
  BY DEF RefInv
<1> QED
  BY <1>1, RefInit, RefStep, PTL DEF Spec

-----------------------------------------------------------------------------
(* The tree.  Its invariant is WellLinked together with NothingLost: that  *)
(* deleting a folder leaves the other lists whole needs that the folder is *)
(* not inside itself, which is what NothingLost says in terms of sets.     *)

TreeInv == TypeInv /\ WellLinked /\ NothingLost

\* The types of the links, which is all the proofs below need of TypeInv.
LinkTypes ==
    /\ type \in [Inode -> {"FILE", "FOLDER", "EMPTY"}]
    /\ father \in [Inode -> Pointer]
    /\ brother \in [Inode -> Pointer]
    /\ first_son \in [Inode -> Pointer]

LEMMA LinkTypesHold == TypeInv => LinkTypes
BY DEF TypeInv, TypeOK, LinkTypes

-----------------------------------------------------------------------------
(* Lists.                                                                  *)

\* A set closed under the links of a list holds the list.
LEMMA AheadInduction ==
    ASSUME NEW p, NEW S \in SUBSET Inode, p \in S \cup {NULL},
           \A i \in S : brother[i] \in S \cup {NULL}
    PROVE  Ahead(p) \subseteq S
BY DEF Ahead

LEMMA SonsInduction ==
    ASSUME NEW dir \in Inode, NEW s \in Sons(dir), NEW S \in SUBSET Inode,
           first_son[dir] \in S \cup {NULL},
           \A i \in S : brother[i] \in S \cup {NULL}
    PROVE  s \in S
BY AheadInduction DEF Sons

\* The list from an inode begins with it and is closed under its links.
LEMMA AheadClosed ==
    ASSUME LinkTypes, NEW p \in Pointer
    PROVE  /\ p # NULL => p \in Ahead(p)
           /\ Ahead(p) \subseteq Inode
           /\ \A i \in Ahead(p) : brother[i] \in Ahead(p) \cup {NULL}
<1>1. p # NULL => p \in Ahead(p)
  BY DEF Ahead, Pointer
<1>2. ASSUME NEW i \in Ahead(p), brother[i] # NULL
      PROVE  brother[i] \in Ahead(p)
  <2>1. i \in Inode /\ brother[i] \in Inode
    BY <1>2 DEF Ahead, LinkTypes, Pointer
  <2> QED
    BY <1>2, <2>1 DEF Ahead
<1> QED
  BY <1>1, <1>2 DEF Ahead

\* The sons of a folder are inodes in use and know it as their father.
LEMMA SonsKnowFather ==
    ASSUME LinkTypes, LinksAgree, NEW dir \in Inode, NEW s \in Sons(dir)
    PROVE  Used(s) /\ father[s] = dir
<1> DEFINE S == {x \in Inode : Used(x) /\ father[x] = dir}
<1>1. first_son[dir] \in S \cup {NULL}
  BY DEF LinksAgree, LinkTypes, Pointer
<1>2. \A i \in S : brother[i] \in S \cup {NULL}
  BY DEF LinksAgree, LinkTypes, Pointer
<1> HIDE DEF S
<1>3. s \in S
  BY <1>1, <1>2, SonsInduction DEF S
<1> QED
  BY <1>3 DEF S

\* Nothing is ahead of the end of a list.
LEMMA AheadNull == Ahead(NULL) = {}
<1> DEFINE S == {}
<1>1. S \in SUBSET Inode /\ NULL \in S \cup {NULL} /\ \A i \in S : brother[i] \in S \cup {NULL}
  OBVIOUS
<1> QED
  BY <1>1 DEF Ahead

\* A list is its first inode and the list from the brother of that one.
LEMMA AheadStep ==
    ASSUME LinkTypes, NEW p \in Inode, NEW q \in Pointer, q = brother[p]
    PROVE  Ahead(p) = {p} \cup Ahead(q)
<1>1. p \in Pointer /\ p # NULL
  BY Sizes DEF Pointer
<1>2. p \in Ahead(p) /\ q \in Ahead(p) \cup {NULL} /\ Ahead(p) \in SUBSET Inode
  BY <1>1, AheadClosed
<1>3. Ahead(q) \subseteq Ahead(p)
  BY <1>1, <1>2, AheadClosed, AheadInduction
<1> DEFINE S == {p} \cup Ahead(q)
<1>4. S \in SUBSET Inode /\ p \in S \cup {NULL}
  BY AheadClosed
<1>5. \A i \in S : brother[i] \in S \cup {NULL}
  BY AheadClosed
<1>6. Ahead(p) \subseteq S
  <2> HIDE DEF S
  <2> QED
    BY <1>4, <1>5, AheadInduction
<1> QED
  BY <1>2, <1>3, <1>6

\* No inode is ahead of itself: the list does not come back to it.
LEMMA NotAheadOfItself ==
    ASSUME LinkTypes, WellLinked, NEW dir \in Inode, NEW p \in Sons(dir),
           NEW q \in Pointer, q = brother[p]
    PROVE  p \notin Ahead(q)
<1> SUFFICES ASSUME p \in Ahead(q) PROVE FALSE
  OBVIOUS
<1>1. p \in Inode
  BY DEF Sons, Ahead
<1> DEFINE C == Ahead(p)
           D == {x \in C : \E y \in C : brother[y] = x}
<1>2. C \in SUBSET Inode /\ p \in C /\ \A i \in C : brother[i] \in C \cup {NULL}
  BY <1>1, AheadClosed, Sizes DEF Pointer
\* Everything in the circle is the brother of something in it,
<1>3. C \subseteq D
  <2>1. q \in D \cup {NULL}
    BY <1>2
  <2>2. \A i \in D : brother[i] \in D \cup {NULL}
    BY <1>2
  <2>3. D \in SUBSET Inode
    BY <1>2
  <2>4. Ahead(q) \subseteq D
    <3> HIDE DEF C, D
    <3> QED
      BY <2>1, <2>2, <2>3, AheadInduction
  <2>5. p \in D
    BY <2>4
  <2> QED
    <3> HIDE DEF D
    <3> QED
      BY <2>2, <2>3, <2>5, AheadInduction
\* so the list of the folder neither begins in it nor leads into it.
<1> DEFINE S == Inode \ C
<1>4. first_son[dir] \in S \cup {NULL}
  BY <1>2, <1>3, Sizes DEF WellLinked, LinksApart, LinkTypes, Pointer
<1>5. \A x \in S : brother[x] \in S \cup {NULL}
  BY <1>2, <1>3, Sizes DEF WellLinked, LinksApart, LinkTypes, Pointer
<1>6. p \in S
  <2> HIDE DEF C
  <2> QED
    BY <1>4, <1>5, SonsInduction
<1> QED
  BY <1>2, <1>6

\* An inode in use is not its own brother.
LEMMA NoSelfBrother ==
    ASSUME LinkTypes, WellLinked, NEW i \in Inode, Used(i)
    PROVE  brother[i] # i
<1> SUFFICES ASSUME brother[i] = i PROVE FALSE
  OBVIOUS
<1>1. i # ROOT_INODE
  BY Sizes DEF WellLinked, RootIsFolder, LinksAgree
<1>2. i \in Sons(father[i]) /\ father[i] \in Inode
  BY <1>1 DEF WellLinked, Listed, LinkTypes, Pointer
<1> DEFINE S == Inode \ {i}
<1>3. first_son[father[i]] \in S \cup {NULL}
  BY <1>2, Sizes DEF WellLinked, LinksApart, LinkTypes, Pointer
<1>4. \A x \in S : brother[x] \in S \cup {NULL}
  BY Sizes DEF WellLinked, LinksApart, LinkTypes, Pointer
<1>5. i \in S
  BY <1>2, <1>3, <1>4, SonsInduction
<1> QED
  BY <1>5

-----------------------------------------------------------------------------
(* Calls that leave the tree alone.                                        *)

LEMMA SameTree ==
    ASSUME WellLinked, NothingLost,
           UNCHANGED <<type, father, brother, first_son>>,
           \A i \in Inode : ~Used(i) => size'[i] = size[i]
    PROVE  WellLinked' /\ NothingLost'
<1>1. \A d : Sons(d)' = Sons(d)
  BY DEF Sons, Ahead
<1>2. RootIsFolder' /\ FreeIsBlank' /\ LinksAgree' /\ LinksApart'
  BY DEF WellLinked, RootIsFolder, FreeIsBlank, LinksAgree, LinksApart, Used
<1>3. Listed'
  BY <1>1 DEF WellLinked, Listed, Used
<1>4. NothingLost'
  BY DEF NothingLost, Used
<1> QED
  BY <1>2, <1>3, <1>4 DEF WellLinked

-----------------------------------------------------------------------------
(* Creating.                                                               *)

LEMMA AllocTree ==
    ASSUME LinkTypes, WellLinked, NothingLost,
           NEW new \in Inode, NEW nm, NEW dir \in Inode, type[dir] = "FOLDER",
           NEW kind \in {"FILE", "FOLDER"}, alloc_inode(new, nm, dir, kind)
    PROVE  /\ WellLinked' /\ NothingLost'
           /\ \A p \in Pointer : /\ Ahead(p) \subseteq Ahead(p)'
                                /\ Ahead(p)' \subseteq Ahead(p) \cup {new}
           /\ \A d \in Inode : Sons(d) \subseteq Sons(d)'
<1>1. /\ type[new] = "EMPTY" /\ new # ROOT_INODE /\ new # dir
      /\ father[new] = NULL /\ brother[new] = NULL /\ first_son[new] = NULL
  BY DEF alloc_inode, WellLinked, RootIsFolder, FreeIsBlank, Used
<1>2. /\ type' = [type EXCEPT ![new] = kind]
      /\ father' = [father EXCEPT ![new] = dir]
      /\ UNCHANGED size
  BY DEF alloc_inode
<1>3. PICK last \in Pointer :
        \/ /\ last = NULL /\ first_son[dir] = NULL
           /\ first_son' = [first_son EXCEPT ![dir] = new]
           /\ brother' = brother
        \/ /\ last \in Inode /\ last \in Sons(dir) /\ brother[last] = NULL
           /\ first_son[dir] # NULL
           /\ brother' = [brother EXCEPT ![last] = new]
           /\ first_son' = first_son
  BY DEF alloc_inode, IsLastChild, Pointer
<1>4. last # NULL => Used(last) /\ father[last] = dir /\ last # new
  BY <1>3, <1>1, SonsKnowFather DEF WellLinked, Used
<1>5. \A i \in Inode : first_son[i] # new /\ brother[i] # new
  BY <1>1, Sizes DEF WellLinked, LinksAgree, Used, NULL, Inode
<1>6. RootIsFolder'
  BY <1>1, <1>2, Sizes DEF WellLinked, RootIsFolder, LinkTypes
<1>7. FreeIsBlank'
  <2> SUFFICES ASSUME NEW i \in Inode, type'[i] = "EMPTY"
               PROVE  /\ father'[i] = NULL /\ brother'[i] = NULL
                      /\ first_son'[i] = NULL /\ size'[i] = 0
    BY DEF FreeIsBlank, Used
  <2>1. i # new /\ type[i] = "EMPTY" /\ i # dir
    BY <1>2 DEF LinkTypes
  <2>2. /\ father[i] = NULL /\ brother[i] = NULL
        /\ first_son[i] = NULL /\ size[i] = 0
    BY <2>1 DEF WellLinked, FreeIsBlank, Used
  <2>3. i # last
    BY <2>1, <1>4, Sizes DEF Used
  <2> QED
    BY <2>1, <2>2, <2>3, <1>2, <1>3 DEF LinkTypes
<1>8. LinksAgree'
  <2> SUFFICES ASSUME NEW i \in Inode
               PROVE  /\ first_son'[i] # NULL => /\ type'[i] = "FOLDER"
                                                 /\ type'[first_son'[i]] # "EMPTY"
                                                 /\ father'[first_son'[i]] = i
                      /\ brother'[i] # NULL =>
                            /\ father'[i] # NULL
                            /\ type'[brother'[i]] # "EMPTY"
                            /\ father'[brother'[i]] = father'[i]
    BY DEF LinksAgree, Used
  <2>1. /\ first_son[i] # NULL => /\ type[i] = "FOLDER"
                                  /\ type[first_son[i]] # "EMPTY"
                                  /\ father[first_son[i]] = i
                                  /\ first_son[i] \in Inode
        /\ brother[i] # NULL => /\ father[i] # NULL
                                /\ type[brother[i]] # "EMPTY"
                                /\ father[brother[i]] = father[i]
                                /\ brother[i] \in Inode
    BY DEF WellLinked, LinksAgree, Used, LinkTypes, Pointer
  <2>2. CASE last = NULL
    BY <2>1, <2>2, <1>1, <1>2, <1>3, <1>5, Sizes DEF LinkTypes
  <2>3. CASE last # NULL
    BY <2>1, <2>3, <1>1, <1>2, <1>3, <1>4, <1>5, Sizes DEF LinkTypes
  <2> QED
    BY <2>2, <2>3
<1>9. LinksApart'
  BY <1>1, <1>2, <1>3, <1>4, <1>5, Sizes
  DEF WellLinked, LinksApart, LinkTypes
<1>10. ASSUME NEW d \in Inode, NEW s \in Sons(d), NEW S \in SUBSET Inode,
              first_son'[d] \in S \cup {NULL},
              \A i \in S : brother'[i] \in S \cup {NULL}
       PROVE  s \in S
  <2>1. first_son[d] \in S \cup {NULL}
    BY <1>10, <1>3 DEF LinkTypes
  <2>2. \A i \in S : brother[i] \in S \cup {NULL}
    BY <1>10, <1>3 DEF LinkTypes
  <2> QED
    BY <2>1, <2>2, SonsInduction
<1>13. ASSUME NEW d \in Inode PROVE Sons(d) \subseteq Sons(d)'
  BY <1>10 DEF Sons, Ahead
<1>14. ASSUME NEW p \in Pointer
       PROVE  Ahead(p) \subseteq Ahead(p)' /\ Ahead(p)' \subseteq Ahead(p) \cup {new}
  <2>1. ASSUME NEW S \in SUBSET Inode, p \in S \cup {NULL},
               \A i \in S : brother'[i] \in S \cup {NULL}
        PROVE  Ahead(p) \subseteq S
    <3>1. \A i \in S : brother[i] \in S \cup {NULL}
      BY <2>1, <1>3 DEF LinkTypes
    <3> QED
      BY <2>1, <3>1, AheadInduction
  <2> DEFINE S == Ahead(p) \cup {new}
  <2>2. S \in SUBSET Inode /\ p \in S \cup {NULL}
    BY AheadClosed DEF Pointer
  <2>3. \A i \in S : brother'[i] \in S \cup {NULL}
    BY <1>1, <1>3, AheadClosed DEF LinkTypes
  <2>4. Ahead(p)' \subseteq S
    <3> HIDE DEF S
    <3> QED
      BY <2>2, <2>3 DEF Ahead
  <2> QED
    BY <2>1, <2>4 DEF Ahead
<1>11. Listed'
  <2> SUFFICES ASSUME NEW i \in Inode, i # ROOT_INODE, type'[i] # "EMPTY"
               PROVE  \E d \in Inode : /\ father'[i] = d
                                       /\ type'[d] = "FOLDER"
                                       /\ i \in Sons(d)'
    BY Sizes DEF Listed, Used
  <2>1. CASE i # new
    <3>1. PICK d \in Inode : father[i] = d /\ type[d] = "FOLDER" /\ i \in Sons(d)
      BY <2>1, <1>2 DEF WellLinked, Listed, LinkTypes, Pointer, Used
    <3>2. i \in Sons(d)'
      BY <3>1, <1>10 DEF Sons, Ahead
    <3>3. father'[i] = d /\ type'[d] = "FOLDER"
      BY <3>1, <2>1, <1>1, <1>2 DEF LinkTypes
    <3> QED
      BY <3>2, <3>3
  <2>2. CASE i = new
    <3>1. father'[new] = dir /\ type'[dir] = "FOLDER"
      BY <1>1, <1>2 DEF LinkTypes
    <3>2. ASSUME NEW S \in SUBSET Inode,
                 first_son'[dir] \in S \cup {NULL},
                 \A x \in S : brother'[x] \in S \cup {NULL}
          PROVE  new \in S
      <4>1. CASE last = NULL
        BY <4>1, <3>2, <1>3, Sizes DEF LinkTypes
      <4>2. CASE last # NULL
        <5>1. last \in S
          BY <4>2, <3>2, <1>3, <1>10
        <5> QED
          BY <5>1, <4>2, <3>2, <1>3, Sizes DEF LinkTypes
      <4> QED
        BY <4>1, <4>2
    <3>3. new \in Sons(dir)'
      BY <3>2 DEF Sons, Ahead
    <3> QED
      BY <3>1, <3>3, <2>2
  <2> QED
    BY <2>1, <2>2
<1>12. NothingLost'
  <2> SUFFICES ASSUME NEW S \in SUBSET Inode, ROOT_INODE \in S,
                      \A i \in Inode : type'[i] # "EMPTY" /\ father'[i] \in S
                                         => i \in S
               PROVE  \A i \in Inode : type'[i] # "EMPTY" => i \in S
    BY DEF NothingLost, Used
  <2>1. \A i \in Inode : type[i] # "EMPTY" /\ father[i] \in S => i \in S
    BY <1>1, <1>2 DEF LinkTypes
  <2>2. \A i \in Inode : type[i] # "EMPTY" => i \in S
    BY <2>1 DEF NothingLost, Used
  <2> QED
    BY <2>2, <1>1, <1>2 DEF LinkTypes
<1> QED
  BY <1>6, <1>7, <1>8, <1>9, <1>11, <1>12, <1>13, <1>14 DEF WellLinked

-----------------------------------------------------------------------------
(* Deleting.                                                               *)

\* A set closed under the links delete_inode follows holds what it frees.
LEMMA SubtreeInduction ==
    ASSUME NEW top \in Inode, NEW d \in Subtree(top), NEW S \in SUBSET Inode,
           top \in S,
           \A i \in S : /\ first_son[i] \in S \cup {NULL}
                        /\ i # top => brother[i] \in S \cup {NULL}
    PROVE  d \in S
BY DEF Subtree

\* What is freed is closed under those links,
LEMMA SubtreeClosed ==
    ASSUME LinkTypes, NEW top \in Inode
    PROVE  /\ top \in Subtree(top)
           /\ \A i \in Subtree(top) :
                 /\ i \in Inode
                 /\ first_son[i] \in Subtree(top) \cup {NULL}
                 /\ i # top => brother[i] \in Subtree(top) \cup {NULL}
<1>1. top \in Subtree(top)
  BY DEF Subtree
<1>2. ASSUME NEW i \in Subtree(top), first_son[i] # NULL
      PROVE  first_son[i] \in Subtree(top)
  <2>1. i \in Inode /\ first_son[i] \in Inode
    BY <1>2 DEF Subtree, LinkTypes, Pointer
  <2> QED
    BY <1>2, <2>1 DEF Subtree
<1>3. ASSUME NEW i \in Subtree(top), i # top, brother[i] # NULL
      PROVE  brother[i] \in Subtree(top)
  <2>1. i \in Inode /\ brother[i] \in Inode
    BY <1>3 DEF Subtree, LinkTypes, Pointer
  <2> QED
    BY <1>3, <2>1 DEF Subtree
<1> QED
  BY <1>1, <1>2, <1>3 DEF Subtree

\* and everything in it but its top has its father in it.
LEMMA SubtreeFathers ==
    ASSUME LinkTypes, LinksAgree, NEW top \in Inode, NEW d \in Subtree(top),
           d # top
    PROVE  father[d] \in Subtree(top) \ {NULL}
<1> DEFINE S == {x \in Subtree(top) : x = top \/ father[x] \in Subtree(top)}
<1>1. top \in S /\ S \subseteq Inode
  BY SubtreeClosed DEF Subtree
<1>2. \A i \in S : /\ first_son[i] \in S \cup {NULL}
                   /\ i # top => brother[i] \in S \cup {NULL}
  BY SubtreeClosed DEF LinksAgree
<1>3. d \in S
  <2> HIDE DEF S
  <2> QED
    BY <1>1, <1>2, SubtreeInduction
<1>4. NULL \notin Subtree(top)
  BY Sizes DEF Subtree
<1> QED
  BY <1>3, <1>4

\* A folder other than the root is not inside itself: its father is above it.
LEMMA FatherAbove ==
    ASSUME LinkTypes, WellLinked, NothingLost, NEW top \in Inode, Used(top),
           top # ROOT_INODE
    PROVE  ROOT_INODE \notin Subtree(top) /\ father[top] \notin Subtree(top)
<1>1. ROOT_INODE \notin Subtree(top)
  <2> SUFFICES ASSUME ROOT_INODE \in Subtree(top) PROVE FALSE
    OBVIOUS
  <2>1. father[ROOT_INODE] # NULL
    BY SubtreeFathers DEF WellLinked
  <2> QED
    BY <2>1 DEF WellLinked, RootIsFolder
<1>2. SUFFICES ASSUME father[top] \in Subtree(top) PROVE FALSE
  BY <1>1
<1> DEFINE S == Inode \ Subtree(top)
<1>3. \A i \in Subtree(top) : father[i] \in Subtree(top)
  BY <1>2, SubtreeFathers DEF WellLinked
<1>4. ROOT_INODE \in S /\ \A i \in Inode : Used(i) /\ father[i] \in S => i \in S
  BY <1>1, <1>3, Sizes
<1>5. top \in S
  <2> HIDE DEF S
  <2>1. S \in SUBSET Inode
    BY DEF S
  <2> QED
    BY <2>1, <1>4 DEF NothingLost
<1> QED
  BY <1>5, SubtreeClosed

\* Nothing below a freed folder is left: what has its father in the subtree
\* is in it.
LEMMA SubtreeComplete ==
    ASSUME LinkTypes, WellLinked, NothingLost, NEW top \in Inode, Used(top),
           NEW i \in Inode, Used(i), i # ROOT_INODE,
           father[i] \in Subtree(top)
    PROVE  i \in Subtree(top)
<1>1. PICK dir \in Inode : father[i] = dir /\ i \in Sons(dir)
  BY DEF WellLinked, Listed, LinkTypes, Pointer
<1> DEFINE S == {x \in Subtree(top) : father[x] = dir}
<1>2. father[top] # dir
  <2>1. CASE top = ROOT_INODE
    BY <2>1, <1>1, Sizes DEF WellLinked, RootIsFolder
  <2>2. CASE top # ROOT_INODE
    BY <2>2, <1>1, FatherAbove
  <2> QED
    BY <2>1, <2>2
<1>3. first_son[dir] \in S \cup {NULL}
  BY <1>1, SubtreeClosed DEF WellLinked, LinksAgree
<1>4. \A x \in S : brother[x] \in S \cup {NULL}
  BY <1>2, SubtreeClosed DEF WellLinked, LinksAgree
<1>5. S \in SUBSET Inode
  BY SubtreeClosed
<1>6. i \in S
  <2> HIDE DEF S
  <2> QED
    BY <1>1, <1>3, <1>4, <1>5, SonsInduction
<1> QED
  BY <1>6

LEMMA DeleteTree ==
    ASSUME LinkTypes, WellLinked, NothingLost, NEW top \in Inode, Used(top),
           top # ROOT_INODE, delete_inode(top)
    PROVE  /\ WellLinked' /\ NothingLost'
           /\ \A i \in Inode : type'[i] = IF i \in Subtree(top) THEN "EMPTY"
                                        ELSE type[i]
           /\ \A p \in Pointer \ Subtree(top) : Ahead(p)' = Ahead(p) \ Subtree(top)
           /\ \A d \in Inode \ Subtree(top) : Sons(d)' = Sons(d) \ Subtree(top)
<1> DEFINE T == Subtree(top)
           above == father[top]
<1>1. /\ top \in T /\ ROOT_INODE \notin T /\ above \notin T
      /\ above \in Inode /\ type[above] = "FOLDER" /\ top \in Sons(above)
      /\ NULL \notin T
  BY SubtreeClosed, FatherAbove, Sizes, SMTT(30)
  DEF WellLinked, Listed, LinkTypes, Pointer, Subtree
<1>2. \A i \in T : i \in Inode /\ (i # top => father[i] \in T)
  BY SubtreeClosed, SubtreeFathers DEF WellLinked
<1>3. \A i \in Inode : Used(i) /\ i # ROOT_INODE /\ father[i] \in T => i \in T
  BY SubtreeComplete
<1>4. /\ type' = [i \in Inode |-> IF i \in T THEN "EMPTY" ELSE type[i]]
      /\ father' = [i \in Inode |-> IF i \in T THEN NULL ELSE father[i]]
      /\ size' = [i \in Inode |-> IF i \in T THEN 0 ELSE size[i]]
  BY <1>1 DEF delete_inode, free_inode, Unhook
<1>5. \A i \in Inode : first_son'[i] =
         IF i \in T THEN NULL
         ELSE IF i = above /\ first_son[i] = top THEN brother[top]
         ELSE first_son[i]
  BY <1>1 DEF delete_inode, free_inode, Unhook
<1>6. \A i \in Inode : brother'[i] =
         IF i \in T THEN NULL
         ELSE IF first_son[above] # top /\ brother[i] = top /\ i \in Sons(above)
         THEN brother[top] ELSE brother[i]
  BY <1>1, Sizes DEF delete_inode, free_inode, Unhook
<1>7. /\ LinksAgree /\ LinksApart /\ FreeIsBlank /\ Listed /\ RootIsFolder
  BY DEF WellLinked
\* The brother of top stays,
<1>8. brother[top] # NULL => brother[top] \in Inode \ T
  <2>1. brother[top] # top
    BY NoSelfBrother
  <2> QED
    BY <2>1, <1>1, <1>2, <1>7 DEF LinksAgree, LinkTypes, Pointer
\* the only links into the subtree from outside lead to top,
<1>9. ASSUME NEW i \in Inode \ T
      PROVE  /\ first_son[i] \in T => first_son[i] = top /\ i = above
             /\ brother[i] \in T => /\ brother[i] = top
                                    /\ i \in Sons(above)
                                    /\ first_son[above] # top
  <2>1. first_son[i] \in T => first_son[i] = top /\ i = above
    BY <1>1, <1>2, <1>7 DEF LinksAgree, LinkTypes, Pointer
  <2>2. ASSUME brother[i] \in T
        PROVE  brother[i] = top /\ i \in Sons(above) /\ first_son[above] # top
    <3>1. brother[i] # NULL /\ father[i] # NULL /\ i # ROOT_INODE /\ Used(i)
      BY <2>2, <1>1, <1>7 DEF LinksAgree, RootIsFolder, FreeIsBlank
    <3>2. father[brother[i]] = father[i]
      BY <3>1, <1>7 DEF LinksAgree
    <3>3. brother[i] = top
      BY <2>2, <3>1, <3>2, <1>2, <1>3
    <3>4. i \in Sons(above)
      BY <3>1, <3>2, <3>3, <1>7 DEF Listed
    <3>5. first_son[above] # top
      BY <3>1, <3>3, <1>1, <1>7 DEF LinksApart
    <3> QED
      BY <3>3, <3>4, <3>5
  <2> QED
    BY <2>1, <2>2
\* and each inode outside has its father outside.
<1>10. \A i \in Inode \ T : father[i] \notin T
  <2> SUFFICES ASSUME NEW i \in Inode \ T, father[i] \in T PROVE FALSE
    OBVIOUS
  <2>1. Used(i) /\ i # ROOT_INODE
    BY <1>1, <1>7 DEF FreeIsBlank, RootIsFolder
  <2> QED
    BY <2>1, <1>3
<1> HIDE DEF T, above
<1>11. RootIsFolder'
  BY <1>1, <1>4, <1>7, Sizes DEF RootIsFolder
<1>12. FreeIsBlank'
  <2> SUFFICES ASSUME NEW i \in Inode, type'[i] = "EMPTY"
               PROVE  /\ father'[i] = NULL /\ brother'[i] = NULL
                      /\ first_son'[i] = NULL /\ size'[i] = 0
    BY DEF FreeIsBlank, Used
  <2>1. CASE i \in T
    BY <2>1, <1>4, <1>5, <1>6
  <2>2. CASE i \notin T
    <3>1. /\ father[i] = NULL /\ brother[i] = NULL
          /\ first_son[i] = NULL /\ size[i] = 0
      BY <2>2, <1>4, <1>7 DEF FreeIsBlank, Used
    <3> QED
      BY <2>2, <3>1, <1>1, <1>4, <1>5, <1>6, Sizes DEF Subtree
  <2> QED
    BY <2>1, <2>2
<1>13. LinksAgree'
  <2> SUFFICES ASSUME NEW i \in Inode
               PROVE  /\ first_son'[i] # NULL => /\ type'[i] = "FOLDER"
                                                 /\ type'[first_son'[i]] # "EMPTY"
                                                 /\ father'[first_son'[i]] = i
                      /\ brother'[i] # NULL =>
                            /\ father'[i] # NULL
                            /\ type'[brother'[i]] # "EMPTY"
                            /\ father'[brother'[i]] = father'[i]
    BY DEF LinksAgree, Used
  <2>1. CASE i \in T
    BY <2>1, <1>5, <1>6
  <2>2. CASE i \notin T
    <3>1. ASSUME first_son'[i] # NULL
          PROVE  /\ type'[i] = "FOLDER"
                 /\ type'[first_son'[i]] # "EMPTY"
                 /\ father'[first_son'[i]] = i
      <4>1. CASE i = above /\ first_son[i] = top
        <5>1. first_son'[i] = brother[top] /\ brother[top] \in Inode \ T
          BY <4>1, <3>1, <2>2, <1>5, <1>8
        <5>2. type[brother[top]] # "EMPTY" /\ father[brother[top]] = above
          BY <5>1, <1>7, Sizes DEF LinksAgree, Used, above
        <5> QED
          BY <5>1, <5>2, <4>1, <2>2, <1>1, <1>4
      <4>2. CASE ~(i = above /\ first_son[i] = top)
        <5>1. first_son'[i] = first_son[i] /\ first_son[i] \in Inode \ T
          BY <4>2, <3>1, <2>2, <1>5, <1>9 DEF LinkTypes, Pointer
        <5>2. /\ type[i] = "FOLDER" /\ type[first_son[i]] # "EMPTY"
              /\ father[first_son[i]] = i
          BY <5>1, <1>7, Sizes DEF LinksAgree, Used
        <5> QED
          BY <5>1, <5>2, <2>2, <1>4
      <4> QED
        BY <4>1, <4>2
    <3>2. ASSUME brother'[i] # NULL
          PROVE  /\ father'[i] # NULL
                 /\ type'[brother'[i]] # "EMPTY"
                 /\ father'[brother'[i]] = father'[i]
      <4>1. CASE brother[i] = top
        <5>1. brother'[i] = brother[top] /\ brother[top] \in Inode \ T
          BY <4>1, <3>2, <2>2, <1>1, <1>6, <1>8, <1>9
        <5>2. /\ type[brother[top]] # "EMPTY" /\ father[brother[top]] = above
              /\ father[i] = above
          BY <5>1, <4>1, <1>7, Sizes DEF LinksAgree, Used, above
        <5> QED
          BY <5>1, <5>2, <2>2, <1>1, <1>4, Sizes
      <4>2. CASE brother[i] # top
        <5>1. brother'[i] = brother[i] /\ brother[i] \in Inode \ T
          BY <4>2, <3>2, <2>2, <1>6, <1>9 DEF LinkTypes, Pointer
        <5>2. /\ type[brother[i]] # "EMPTY" /\ father[i] # NULL
              /\ father[brother[i]] = father[i]
          BY <5>1, <1>7, Sizes DEF LinksAgree, Used
        <5> QED
          BY <5>1, <5>2, <2>2, <1>4
      <4> QED
        BY <4>1, <4>2
    <3> QED
      BY <3>1, <3>2
  <2> QED
    BY <2>1, <2>2
<1>14. LinksApart'
  <2>1. ASSUME NEW i \in Inode, NEW j \in Inode,
               brother'[i] # NULL, brother'[i] = brother'[j]
        PROVE  i = j
    <3>1. i \notin T /\ j \notin T
      BY <2>1, <1>6
    <3> QED
      BY <2>1, <3>1, <1>1, <1>6, <1>7, Sizes DEF LinksApart, Subtree
  <2>2. ASSUME NEW i \in Inode, NEW j \in Inode, brother'[i] # NULL
        PROVE  brother'[i] # first_son'[j]
    <3>1. i \notin T
      BY <2>2, <1>6
    <3> QED
      BY <2>2, <3>1, <1>1, <1>2, <1>5, <1>6, <1>7 DEF LinksApart
  <2> QED
    BY <2>1, <2>2 DEF LinksApart
\* A list that starts outside the subtree, or at top and now behind it, loses
\* what is in the subtree and nothing else.
<1>15. ASSUME NEW p \in Pointer, NEW q \in Pointer,
              (p \notin T /\ q = p) \/ (p = top /\ q = brother[top])
       PROVE  Ahead(q)' = Ahead(p) \ T
  <2>1. ASSUME NEW S \in SUBSET Inode, q \in S \cup {NULL},
               \A x \in S : brother'[x] \in S \cup {NULL}
        PROVE  Ahead(p) \ T \subseteq S
    <3> DEFINE S2 == (S \ T)
                       \cup (IF brother[top] \in S \cup {NULL} THEN {top} ELSE {})
    <3>1. p \in S2 \cup {NULL}
      BY <2>1, <1>15
    <3>2. ASSUME NEW x \in S2 PROVE brother[x] \in S2 \cup {NULL}
      <4>1. CASE x \in T
        BY <4>1, <1>8
      <4>2. CASE x \notin T
        <5>1. x \in S /\ x \in Inode \ T
          BY <4>2, <1>1
        <5>2. brother'[x] \in S \cup {NULL}
          BY <5>1, <2>1
        <5>3. CASE brother[x] \in T
          <6>1. brother[x] = top /\ brother'[x] = brother[top]
            BY <5>1, <5>3, <1>6, <1>9
          <6> QED
            BY <6>1, <5>2
        <5>4. CASE brother[x] \notin T
          BY <5>1, <5>2, <5>4, <1>1, <1>6
        <5> QED
          BY <5>3, <5>4
      <4> QED
        BY <4>1, <4>2
    <3>3. S2 \in SUBSET Inode
      OBVIOUS
    <3>4. Ahead(p) \subseteq S2
      <4> HIDE DEF S2
      <4> QED
        BY <3>1, <3>2, <3>3, AheadInduction
    <3> QED
      BY <3>4, <1>1
  <2> DEFINE S == Ahead(p) \ T
  <2>2. S \in SUBSET Inode
    BY AheadClosed
  <2>3. q \in S \cup {NULL}
    <3>1. CASE p \notin T /\ q = p
      BY <3>1, AheadClosed
    <3>2. CASE p = top /\ q = brother[top]
      BY <3>2, <1>1, <1>8, AheadClosed, Sizes DEF Pointer
    <3> QED
      BY <3>1, <3>2, <1>15
  <2>4. ASSUME NEW x \in S PROVE brother'[x] \in S \cup {NULL}
    <3>1. x \in Inode \ T /\ x \in Ahead(p) /\ brother[x] \in Ahead(p) \cup {NULL}
      BY <2>2, AheadClosed
    <3>2. CASE brother[x] = top
      <4>1. brother'[x] = brother[top] /\ top \in Ahead(p)
        BY <3>1, <3>2, <1>1, <1>6, <1>9, Sizes
      <4>2. brother[top] \in Ahead(p) \cup {NULL}
        BY <4>1, AheadClosed
      <4> QED
        BY <4>1, <4>2, <1>8
    <3>3. CASE brother[x] # top
      BY <3>1, <3>3, <1>1, <1>6, <1>9
    <3> QED
      BY <3>2, <3>3
  <2>5. Ahead(q)' \subseteq S
    <3> HIDE DEF S
    <3> QED
      BY <2>2, <2>3, <2>4 DEF Ahead
  <2>6. S \subseteq Ahead(q)'
    BY <2>1, <2>2 DEF Ahead
  <2> QED
    BY <2>5, <2>6
<1>18. ASSUME NEW d \in Inode \ T
       PROVE  Sons(d)' = Sons(d) \ T
  <2>1. PICK p \in Pointer : p = first_son[d]
    BY DEF LinkTypes
  <2>2. PICK q \in Pointer : q = first_son'[d]
    BY <1>5, <1>8, <2>1 DEF LinkTypes, Pointer
  <2>3. (p \notin T /\ q = p) \/ (p = top /\ q = brother[top])
    BY <2>1, <2>2, <1>1, <1>5, <1>9
  <2>4. Sons(d) = Ahead(p) /\ Sons(d)' = Ahead(q)'
    BY <2>1, <2>2 DEF Sons
  <2> QED
    BY <2>3, <2>4, <1>15
<1>16. Listed'
  <2> SUFFICES ASSUME NEW i \in Inode, i # ROOT_INODE, type'[i] # "EMPTY"
               PROVE  \E d \in Inode : /\ father'[i] = d
                                       /\ type'[d] = "FOLDER"
                                       /\ i \in Sons(d)'
    BY Sizes DEF Listed, Used
  <2>1. i \notin T /\ type[i] # "EMPTY"
    BY <1>4
  <2>2. PICK d \in Inode : father[i] = d /\ type[d] = "FOLDER" /\ i \in Sons(d)
    BY <2>1, <1>7 DEF Listed, LinkTypes, Pointer, Used
  <2>3. d \in Inode \ T
    BY <2>1, <2>2, <1>10
  <2>4. i \in Sons(d)'
    BY <2>1, <2>2, <2>3, <1>18
  <2> QED
    BY <2>1, <2>2, <2>3, <2>4, <1>4
<1>17. NothingLost'
  <2> SUFFICES ASSUME NEW S \in SUBSET Inode, ROOT_INODE \in S,
                      \A i \in Inode : type'[i] # "EMPTY" /\ father'[i] \in S
                                         => i \in S
               PROVE  \A i \in Inode : type'[i] # "EMPTY" => i \in S
    BY DEF NothingLost, Used
  <2> DEFINE S2 == S \cup T
  <2>1. \A i \in Inode : Used(i) /\ father[i] \in S2 => i \in S2
    BY <1>4, <1>10 DEF Used
  <2>2. S2 \in SUBSET Inode /\ ROOT_INODE \in S2
    BY <1>2
  <2>3. \A i \in Inode : Used(i) => i \in S2
    <3> HIDE DEF S2
    <3> QED
      BY <2>1, <2>2 DEF NothingLost
  <2> QED
    BY <2>3, <1>4 DEF Used
<1>19. /\ \A i \in Inode : type'[i] = IF i \in T THEN "EMPTY" ELSE type[i]
       /\ \A p \in Pointer \ T : Ahead(p)' = Ahead(p) \ T
       /\ \A d \in Inode \ T : Sons(d)' = Sons(d) \ T
  BY <1>4, <1>15, <1>18
<1> QED
  BY <1>11, <1>12, <1>13, <1>14, <1>16, <1>17, <1>19 DEF WellLinked, T

\* Deleting the root reaches every inode in use.
LEMMA RootDeletesAll ==
    ASSUME LinkTypes, WellLinked, NothingLost, NEW i \in Inode, Used(i)
    PROVE  i \in Subtree(ROOT_INODE)
<1> DEFINE T == Subtree(ROOT_INODE)
<1>1. \A j \in Inode : Used(j) /\ father[j] \in T => j \in T
  BY SubtreeComplete, SubtreeClosed, Sizes DEF WellLinked, RootIsFolder, Used
<1>2. T \in SUBSET Inode /\ ROOT_INODE \in T
  BY SubtreeClosed, Sizes
<1> HIDE DEF T
<1> QED
  BY <1>1, <1>2 DEF NothingLost, T

\* Deleting the root leaves a root without sons and nothing else.
LEMMA DeleteRootTree ==
    ASSUME LinkTypes, WellLinked, NothingLost, delete_inode(ROOT_INODE)
    PROVE  WellLinked' /\ NothingLost'
<1> DEFINE T == Subtree(ROOT_INODE)
<1>1. \A i \in Inode : Used(i) => i \in T
  BY RootDeletesAll
<1>2. \A i \in Inode : ~Used(i) => /\ father[i] = NULL /\ brother[i] = NULL
                                   /\ first_son[i] = NULL /\ size[i] = 0
  BY DEF WellLinked, FreeIsBlank
<1>3. /\ father[ROOT_INODE] = NULL /\ type[ROOT_INODE] = "FOLDER"
      /\ brother[ROOT_INODE] = NULL
  BY Sizes DEF WellLinked, RootIsFolder, LinksAgree
<1>4. \A i \in Inode :
        /\ father'[i] = NULL /\ brother'[i] = NULL /\ first_son'[i] = NULL
        /\ i # ROOT_INODE => type'[i] = "EMPTY" /\ size'[i] = 0
        /\ type'[ROOT_INODE] = "FOLDER"
  <2> SUFFICES ASSUME NEW i \in Inode
               PROVE  /\ father'[i] = NULL /\ brother'[i] = NULL
                      /\ first_son'[i] = NULL
                      /\ i # ROOT_INODE => type'[i] = "EMPTY" /\ size'[i] = 0
                      /\ type'[ROOT_INODE] = "FOLDER"
    OBVIOUS
  <2>1. first_son'[i] = IF i \in T THEN NULL ELSE first_son[i]
    BY <1>3, Sizes DEF delete_inode, free_inode, Unhook
  <2>2. brother'[i] = IF i \in T \ {ROOT_INODE} THEN NULL ELSE brother[i]
    BY <1>3 DEF delete_inode, free_inode, Unhook
  <2>3. /\ type'[i] = IF i \in T \ {ROOT_INODE} THEN "EMPTY" ELSE type[i]
        /\ father'[i] = IF i \in T \ {ROOT_INODE} THEN NULL ELSE father[i]
        /\ size'[i] = IF i \in T \ {ROOT_INODE} THEN 0 ELSE size[i]
        /\ type'[ROOT_INODE] = type[ROOT_INODE]
    BY Sizes DEF delete_inode, free_inode, Unhook
  <2> HIDE DEF T
  <2>4. CASE i = ROOT_INODE
    BY <2>1, <2>2, <2>3, <2>4, <1>1, <1>3 DEF Used
  <2>5. CASE i # ROOT_INODE
    BY <2>1, <2>2, <2>3, <2>5, <1>1, <1>2, <1>3 DEF Used
  <2> QED
    BY <2>4, <2>5
<1>5. WellLinked'
  BY <1>4, Sizes
  DEF WellLinked, RootIsFolder, FreeIsBlank, LinksAgree, LinksApart, Listed, Used
<1>6. NothingLost'
  BY <1>4 DEF NothingLost, Used
<1> QED
  BY <1>5, <1>6

-----------------------------------------------------------------------------
(* All calls.                                                              *)

LEMMA InitTree == Init => TreeInv
<1> SUFFICES ASSUME Init PROVE WellLinked /\ NothingLost
  BY InitType DEF TreeInv
<1>1. \A i \in Inode :
        /\ father[i] = NULL /\ brother[i] = NULL /\ first_son[i] = NULL
        /\ size[i] = 0
        /\ i # ROOT_INODE => type[i] = "EMPTY"
  BY DEF Init
<1>2. type[ROOT_INODE] = "FOLDER"
  BY Sizes DEF Init
<1>3. WellLinked
  BY <1>1, <1>2, Sizes
  DEF WellLinked, RootIsFolder, FreeIsBlank, LinksAgree, LinksApart, Listed, Used
<1>4. NothingLost
  BY <1>1 DEF NothingLost, Used
<1> QED
  BY <1>3, <1>4

\* Calls other than a create or a delete.
QuietCall ==
    /\ UNCHANGED <<type, father, brother, first_son>>
    /\ \A i \in Inode : ~Used(i) => size'[i] = size[i]

LEMMA QuietCalls ==
    ASSUME TypeInv, NEW fd \in FdArg, NEW path, NEW str, NEW len,
           \/ NullPointer \/ UNCHANGED vars
           \/ open_file(path) \/ open_dir(path)
           \/ close_file(fd) \/ close_dir(fd) \/ get_next_dir_son(fd)
           \/ read_file(fd, len)
           \/ write_file(fd, str, len) \/ append_file(fd, str, len)
    PROVE  QuietCall
<1>1. CASE UNCHANGED inodes
  BY <1>1 DEF inodes, QuietCall
<1>2. CASE NullPointer \/ UNCHANGED vars \/ read_file(fd, len) \/ get_next_dir_son(fd)
  BY <1>2, <1>1 DEF NullPointer, Refuse, RefuseData, RefuseFd, vars, read_file,
                    get_next_dir_son
<1>3. CASE open_file(path) \/ open_dir(path) \/ close_file(fd) \/ close_dir(fd)
  BY <1>1, <1>3 DEF open_file, open_dir, open, Rewind, close_file, close_dir, close,
                    RefuseFd, QuietCall
<1>4. ASSUME NEW from, IsFileFd(fd), write_inode(fd_inode[fd], from, str, len)
      PROVE  QuietCall
  <2>1. fd_inode[fd] \in Inode /\ Used(fd_inode[fd])
    BY <1>4 DEF IsFileFd, Opened, FdArg, TypeInv, TypeOK, Pointer, Used
  <2> QED
    BY <1>4, <2>1 DEF write_inode, QuietCall, TypeInv, TypeOK
<1>5. CASE write_file(fd, str, len) \/ append_file(fd, str, len)
  BY <1>1, <1>4, <1>5 DEF write_file, append_file, RefuseData
<1> QED
  BY <1>2, <1>3, <1>5

LEMMA StepTree == TreeInv /\ [Next]_vars => TreeInv'
<1> SUFFICES ASSUME TreeInv, [Next]_vars PROVE WellLinked' /\ NothingLost'
  BY StepType DEF TreeInv
<1>1. TypeInv /\ LinkTypes /\ WellLinked /\ NothingLost
  BY LinkTypesHold DEF TreeInv
<1>2. CASE QuietCall
  BY <1>1, <1>2, SameTree DEF QuietCall
<1>3. ASSUME NEW path, NEW nm, create_file(path, nm) \/ create_dir(path, nm)
      PROVE  WellLinked' /\ NothingLost'
  <2>1. PICK kind \in {"FILE", "FOLDER"} : create(kind, path, nm)
    BY <1>3 DEF create_file, create_dir
  <2>2. \/ UNCHANGED inodes
        \/ \E dir \in Pointer, new \in Inode :
              IsFolder(dir) /\ alloc_inode(new, nm, dir, kind)
    BY <2>1 DEF create, Refuse
  <2>3. CASE UNCHANGED inodes
    BY <2>3, <1>2 DEF inodes, QuietCall
  <2>4. CASE \E dir \in Pointer, new \in Inode :
                IsFolder(dir) /\ alloc_inode(new, nm, dir, kind)
    BY <2>4, <1>1, AllocTree DEF IsFolder, Pointer
  <2> QED
    BY <2>2, <2>3, <2>4
<1>4. ASSUME NEW path, delete_file(path) \/ delete_dir(path)
      PROVE  WellLinked' /\ NothingLost'
  <2>1. \/ UNCHANGED inodes
        \/ \E top \in Inode : Used(top) /\ delete_inode(top)
    BY <1>4 DEF delete_file, delete_dir, delete, Refuse, Pointer
  <2>2. CASE UNCHANGED inodes
    BY <2>2, <1>2 DEF inodes, QuietCall
  <2>3. CASE \E top \in Inode : Used(top) /\ delete_inode(top)
    BY <2>3, <1>1, DeleteTree, DeleteRootTree
  <2> QED
    BY <2>1, <2>2, <2>3
<1>5. -1 \in FdArg
  BY DEF FdArg
<1> QED
  BY <1>1, <1>2, <1>3, <1>4, <1>5, QuietCalls DEF Next, Call, ErrHang

\* The inductive invariant: types, links, and no inode lost.  None of the three
\* is preserved alone (vfs.c:115-187 and 330-376).
THEOREM TreeInvariant == Spec => []TreeInv
BY InitTree, StepTree, PTL DEF Spec

\* However files and folders are created and deleted, the first_son, brother
\* and father links form a tree of lists: links agree with fathers, no list
\* merges with another or runs in a circle, every inode in use is in the list
\* of its folder, and a free inode has no link left for alloc_inode to
\* inherit (vfs.c:146-170, filesystem.c:52-74 and 139-171).
THEOREM TreeStaysLinked == Spec => []WellLinked
<1>1. TreeInv => WellLinked
  BY DEF TreeInv
<1> QED
  BY <1>1, TreeInvariant, PTL

\* No call ever cuts an inode in use off from the root: the table is never
\* exhausted by inodes no path leads to (vfs.c:146-170).
THEOREM NoInodeLost == Spec => []NothingLost
<1>1. TreeInv => NothingLost
  BY DEF TreeInv
<1> QED
  BY <1>1, TreeInvariant, PTL
=============================================================================
