--------------------------------- MODULE Vfs ---------------------------------
(***************************************************************************)
(* The virtual file system of the kernel: the twelve calls of vfs.c over   *)
(* the inode table of filesystem.c, for one caller at a time.  Each action *)
(* is one whole call, from the arguments the user passes to the value it   *)
(* gets back.                                                              *)
(*                                                                         *)
(* An `inode *' is the number of the inode it points to, and a null        *)
(* pointer is NULL.  A name is a model value, a path the sequence of what  *)
(* stands between its slashes:                                             *)
(*     <<>>  no leading '/'      <<"">>  "/"      <<a, b>>  "/a/b"         *)
(*     <<a, "">>  "/a/"          <<TooLong>>  a token of over 16 bytes     *)
(***************************************************************************)
EXTENDS Integers, Sequences, FiniteSets

CONSTANTS
    FS_NPAGES,       \* inodes, and pages of file data
    MAX_OPEN_FILES,  \* descriptors
    FILE_MAX_SIZE,   \* bytes of a data block
    COPY_UNIT,       \* bytes memcpy moves at a time
    INT_MAX,         \* the largest int; an unsigned goes up to 2*INT_MAX + 1
    Names,           \* names of 1 to 16 bytes
    TooLong,         \* a longer one
    Byte,            \* values of a byte
    Paths,           \* paths the caller passes
    Strings,         \* bytes found at the `str' a caller writes from
    Lens             \* the `len' a caller passes

ASSUME SizesAssumption ==
    /\ FS_NPAGES \in Nat \ {0}
    /\ MAX_OPEN_FILES \in Nat
    /\ COPY_UNIT \in Nat \ {0}
    /\ INT_MAX \in Nat
    /\ FILE_MAX_SIZE \in Nat
    /\ \E blocks \in 0 .. FILE_MAX_SIZE : FILE_MAX_SIZE = blocks * COPY_UNIT
    /\ FS_NPAGES <= FILE_MAX_SIZE
    /\ FILE_MAX_SIZE <= INT_MAX

Inode   == 0 .. FS_NPAGES - 1
NULL    == -1
Pointer == Inode \cup {NULL}
Fd      == 0 .. MAX_OPEN_FILES - 1
FdArg   == Fd \cup {-1}
Offset  == 0 .. FILE_MAX_SIZE - 1

ROOT_INODE == 0

Token == Names \cup {"", TooLong}
Name  == Names \cup {"", "/"}

ASSUME ArgumentsAssumption ==
    /\ TooLong \notin Name
    /\ 0 \in Byte
    /\ Paths \subseteq Seq(Token)
    /\ Strings \subseteq [Offset -> Byte]
    /\ Lens \subseteq 0 .. 2 * INT_MAX + 1

VARIABLES
    type, name, father, brother, first_son, size, ref,  \* RAM_inodes_table
    data,                              \* the page behind each data_block
    fd_inode, fd_next, fd_next_son,    \* open_inodes
    reply,                             \* what the last call gave its caller
    halted                             \* the kernel is in err_hang

inodes == <<type, name, father, brother, first_son, size, ref, data>>
fds    == <<fd_inode, fd_next, fd_next_son>>
vars   == <<inodes, fds, reply, halted>>

VfsError == {"VFS_OK", "VFS_INVALID_FD", "VFS_INVALID_PATH_DIR",
             "VFS_INVALID_PATH_FILE", "VFS_MAX_FD_REACHED", "VFS_MEMORY_FULL",
             "VFS_INVALID_NAME", "VFS_NULL_POINTER", "-1"}

\* What a call gives back: an error code, and the *fd or the name it has
\* written; a data call a count, and the bytes.
Reply ==
    [ret : VfsError]
    \cup [ret : VfsError, fd : FdArg]
    \cup [ret : VfsError, son : Name]
    \cup [n : -1 .. FILE_MAX_SIZE]
    \cup [n : 0 .. FILE_MAX_SIZE, out : Seq(Byte)]

TypeOK ==
    /\ type \in [Inode -> {"FILE", "FOLDER", "EMPTY"}]
    /\ name \in [Inode -> Name]
    /\ father \in [Inode -> Pointer]
    /\ brother \in [Inode -> Pointer]
    /\ first_son \in [Inode -> Pointer]
    /\ size \in [Inode -> 0 .. FILE_MAX_SIZE]
    /\ ref \in [Inode -> Int]
    /\ data \in [Inode -> [Offset -> Byte]]
    /\ fd_inode \in [Fd -> Pointer]
    /\ fd_next \in [Fd -> Nat]
    /\ fd_next_son \in [Fd -> Pointer]
    /\ reply \in Reply
    /\ halted \in BOOLEAN

-----------------------------------------------------------------------------
(* Walking the tree.                                                       *)

\* The inodes a walk along `brother' meets from p on: those in every set that
\* holds p and the brother of each of its members.
Ahead(p) ==
    {s \in Inode : \A S \in SUBSET Inode :
        (/\ p \in S \cup {NULL}
         /\ \A i \in S : brother[i] \in S \cup {NULL}) => s \in S}

\* A folder's sons.
Sons(dir) == Ahead(first_son[dir])

\* The last inode of that list, which the code finds by following `brother'.
IsLastChild(dir, last) == last \in Sons(dir) /\ brother[last] = NULL

\* The first son with that name: of two sons with one name, the elder.
get_son_inode(dir, token) ==
    LET from[s \in Pointer] ==
            IF s = NULL THEN NULL
            ELSE IF name[s] = token THEN s ELSE from[brother[s]]
    IN  from[first_son[dir]]

\* What a path leads to.  An empty token stays where it is, and a file may
\* only be the last thing of a path.
parse_path(path) ==
    LET after[k \in 0 .. Len(path)] ==
            IF k = 0 THEN ROOT_INODE
            ELSE LET here == after[k - 1]
                     next == IF here = NULL \/ path[k] = TooLong THEN NULL
                             ELSE IF path[k] = "" THEN here
                             ELSE get_son_inode(here, path[k])
                 IN  IF next = NULL THEN NULL
                     ELSE IF \/ type[next] = "EMPTY"
                             \/ type[next] = "FILE" /\ k < Len(path)
                     THEN NULL ELSE next
    IN  IF path = <<>> THEN NULL ELSE after[Len(path)]

Used(i)     == type[i] # "EMPTY"
IsFile(p)   == p # NULL /\ type[p] = "FILE"
IsFolder(p) == p # NULL /\ type[p] = "FOLDER"

-----------------------------------------------------------------------------
Init ==
    /\ type = [i \in Inode |-> IF i = ROOT_INODE THEN "FOLDER" ELSE "EMPTY"]
    /\ name = [i \in Inode |-> IF i = ROOT_INODE THEN "/" ELSE ""]
    /\ father = [i \in Inode |-> NULL]
    /\ brother = [i \in Inode |-> NULL]
    /\ first_son = [i \in Inode |-> NULL]
    /\ size = [i \in Inode |-> 0]
    /\ ref = [i \in Inode |-> 0]
    /\ data = [i \in Inode |-> [k \in Offset |-> 0]]
    /\ fd_inode = [fd \in Fd |-> NULL]
    /\ fd_next = [fd \in Fd |-> 0]
    /\ fd_next_son = [fd \in Fd |-> NULL]
    /\ reply = [ret |-> "VFS_OK"]
    /\ halted = FALSE

\* A call that returns early and has changed nothing in the kernel.
Refuse(error) ==
    /\ reply' = [ret |-> error]
    /\ UNCHANGED <<inodes, fds, halted>>

\* The same for a call that has already written `*fd'.
RefuseFd(error, fd) ==
    /\ reply' = [ret |-> error, fd |-> fd]
    /\ UNCHANGED <<inodes, fds, halted>>

\* A data call that gives up.
RefuseData ==
    /\ reply' = [n |-> -1]
    /\ UNCHANGED <<inodes, fds, halted>>

\* A null path, name, `fd *' or buffer: every call looks for it first
\* (open_file and open_dir only for their `fd') and gives back an error code,
\* or a count of -1 if it is a data call.
NullPointer ==
    \/ Refuse("VFS_NULL_POINTER")
    \/ RefuseData

-----------------------------------------------------------------------------
(* Creating and deleting.                                                  *)

\* Slip: the new inode goes in front of the list.
alloc_inode_AtHead(new, nm, dir, kind) ==
    /\ type[new] = "EMPTY"
    /\ \A i \in 0 .. new - 1 : Used(i)
    /\ type' = [type EXCEPT ![new] = kind]
    /\ name' = [name EXCEPT ![new] = nm]
    /\ father' = [father EXCEPT ![new] = dir]
    /\ first_son' = [first_son EXCEPT ![dir] = new]
    /\ brother' = [brother EXCEPT ![new] = first_son[dir]]
    /\ UNCHANGED <<size, ref, data>>

\* alloc_inode takes the first free inode and puts it at the end of dir's
\* list.  It sets neither brother, first_son, size, ref nor data.
alloc_inode(new, nm, dir, kind) ==
    /\ type[new] = "EMPTY"
    /\ \A i \in 0 .. new - 1 : Used(i)
    /\ type' = [type EXCEPT ![new] = kind]
    /\ name' = [name EXCEPT ![new] = nm]
    /\ father' = [father EXCEPT ![new] = dir]
    /\ IF first_son[dir] = NULL
       THEN /\ first_son' = [first_son EXCEPT ![dir] = new]
            /\ UNCHANGED brother
       ELSE \E last \in Inode :
                /\ IsLastChild(dir, last)
                /\ brother' = [brother EXCEPT ![last] = new]
                /\ UNCHANGED first_son
    /\ UNCHANGED <<size, ref, data>>

create(kind, path, nm) ==
    \E dir \in Pointer :
        /\ dir = parse_path(path)
        /\ \/ /\ nm \notin Names
              /\ Refuse("VFS_INVALID_NAME")
           \/ /\ nm \in Names
              /\ ~IsFolder(dir)
              /\ Refuse("VFS_INVALID_FD")
           \/ /\ nm \in Names
              /\ IsFolder(dir)
              /\ \A i \in Inode : Used(i)
              /\ Refuse("VFS_MEMORY_FULL")
           \/ /\ nm \in Names
              /\ IsFolder(dir)
              /\ \E new \in Inode : alloc_inode(new, nm, dir, kind)
              /\ reply' = [ret |-> "VFS_OK"]
              /\ UNCHANGED <<fds, halted>>

create_file(path, nm) == create("FILE", path, nm)
create_dir(path, nm)  == create("FOLDER", path, nm)

\* Slip: deleting does not recurse.
Subtree_TopOnly(top) == {top}

\* What delete_inode(top) frees: top, and what hangs below it.
Subtree(top) ==
    {d \in Inode : \A S \in SUBSET Inode :
        (/\ top \in S
         /\ \A i \in S : /\ first_son[i] \in S \cup {NULL}
                         /\ i # top => brother[i] \in S \cup {NULL}) => d \in S}

\* Slip: the size is not wiped.
free_inode_KeepsSize(gone) ==
    /\ type' = [i \in Inode |-> IF i \in gone THEN "EMPTY" ELSE type[i]]
    /\ father' = [i \in Inode |-> IF i \in gone THEN NULL ELSE father[i]]
    /\ ref' = [i \in Inode |-> IF i \in gone THEN 0 ELSE ref[i]]
    /\ UNCHANGED <<size, name, data>>

\* The fields free_inode wipes; the name and the data stay, and so do the
\* descriptors that lead to the inode.
free_inode(gone) ==
    /\ type' = [i \in Inode |-> IF i \in gone THEN "EMPTY" ELSE type[i]]
    /\ father' = [i \in Inode |-> IF i \in gone THEN NULL ELSE father[i]]
    /\ size' = [i \in Inode |-> IF i \in gone THEN 0 ELSE size[i]]
    /\ ref' = [i \in Inode |-> IF i \in gone THEN 0 ELSE ref[i]]
    /\ UNCHANGED <<name, data>>

\* Slip: only a first son is unhooked from the list above.
Unhook_FirstOnly(top, gone) ==
    /\ first_son' = [i \in Inode |->
            IF i \in Subtree(top) THEN NULL
            ELSE IF i = father[top] /\ first_son[i] = top THEN brother[top]
            ELSE first_son[i]]
    /\ brother' = [i \in Inode |-> IF i \in gone THEN NULL ELSE brother[i]]

\* Links lead from nowhere inside the subtree, and past top in the list of
\* the folder above it: from that folder if top is its first son, otherwise
\* from the son before top.
Unhook(top, gone) ==
    LET above == father[top]
    IN  /\ first_son' = [i \in Inode |->
                IF i \in Subtree(top) THEN NULL
                ELSE IF i = above /\ first_son[i] = top THEN brother[top]
                ELSE first_son[i]]
        /\ brother' = [i \in Inode |->
                IF i \in gone THEN NULL
                ELSE IF /\ above # NULL
                        /\ first_son[above] # top
                        /\ brother[i] = top
                        /\ i \in Sons(above)
                THEN brother[top]
                ELSE brother[i]]

\* The recursion frees the whole subtree, the sons before their folder.  The
\* root has no father: the free_inode that should end it takes what stands at
\* address 32, two instructions of the user program, for the first son and
\* faults on it, so that the root alone is not freed.
delete_inode(top) ==
    LET gone == Subtree(top) \ {ROOT_INODE}
    IN  free_inode(gone) /\ Unhook(top, gone)

delete(path) ==
    \E top \in Pointer :
        /\ top = parse_path(path)
        /\ \/ /\ top = NULL
              /\ Refuse("VFS_INVALID_FD")
           \/ /\ top # NULL
              /\ IF Used(top) THEN delete_inode(top) ELSE UNCHANGED inodes
              /\ IF top = ROOT_INODE
                 THEN halted' = TRUE /\ UNCHANGED reply
                 ELSE /\ reply' = [ret |-> "VFS_OK"]
                      /\ UNCHANGED halted
              /\ UNCHANGED fds

\* Neither looks at the type: each deletes files and folders alike.
delete_file(path) == delete(path)
delete_dir(path)  == delete(path)

-----------------------------------------------------------------------------
(* Descriptors.                                                            *)

\* get_next_fd: the first slot without an inode.
IsNextFd(fd) ==
    /\ fd_inode[fd] = NULL
    /\ \A g \in 0 .. fd - 1 : fd_inode[g] # NULL

NoFdLeft == \A fd \in Fd : fd_inode[fd] # NULL

\* Slip: a listing starts where the slot was left.
Rewind_FilesOnly(kind, fd, target) ==
    /\ fd_next' = [fd_next EXCEPT ![fd] = 0]
    /\ UNCHANGED fd_next_son

\* A file is read from its first byte, a folder from its first son; the
\* offset of the other kind is left as the slot had it.
Rewind(kind, fd, target) ==
    IF kind = "FILE"
    THEN /\ fd_next' = [fd_next EXCEPT ![fd] = 0]
         /\ UNCHANGED fd_next_son
    ELSE /\ fd_next_son' = [fd_next_son EXCEPT ![fd] = first_son[target]]
         /\ UNCHANGED fd_next

\* The part of open_file and open_dir they share.  *fd holds the number of
\* the slot from here on, whether or not the call goes on to take it.
open(kind, badPath, path, fd) ==
    /\ IsNextFd(fd)
    /\ \E target \in Pointer :
        /\ target = parse_path(path)
        /\ \/ /\ target = NULL
              /\ RefuseFd(badPath, fd)
           \/ /\ target # NULL
              /\ type[target] # kind
              /\ RefuseFd("VFS_INVALID_FD", fd)
           \/ /\ target # NULL
              /\ type[target] = kind
              /\ fd_inode' = [fd_inode EXCEPT ![fd] = target]
              /\ Rewind(kind, fd, target)
              /\ ref' = [ref EXCEPT ![target] = @ + 1]
              /\ reply' = [ret |-> "VFS_OK", fd |-> fd]
              /\ UNCHANGED <<type, name, father, brother, first_son, size,
                             data, halted>>

open_file(path) ==
    \/ NoFdLeft /\ RefuseFd("VFS_MAX_FD_REACHED", -1)
    \/ \E fd \in Fd :
          open("FILE", "VFS_INVALID_PATH_FILE", path, fd)

open_dir(path) ==
    \/ NoFdLeft /\ RefuseFd("VFS_MAX_FD_REACHED", -1)
    \/ \E fd \in Fd :
          open("FOLDER", "VFS_INVALID_PATH_DIR", path, fd)

Opened(fd) == fd # -1 /\ fd_inode[fd] # NULL

\* Slip: the count is not decremented.
close_KeepsRef(call, fd) ==
    \/ /\ ~Opened(fd)
       /\ RefuseFd("VFS_INVALID_FD", -1)
    \/ /\ Opened(fd)
       /\ fd_inode' = [fd_inode EXCEPT ![fd] = NULL]
       /\ reply' = [ret |-> "VFS_OK", fd |-> -1]
       /\ UNCHANGED <<inodes, fd_next, fd_next_son, halted>>

\* close_file clears `next' and leaves `next_son'; close_dir the reverse.
close(call, fd) ==
    \/ /\ ~Opened(fd)
       /\ RefuseFd("VFS_INVALID_FD", -1)
    \/ /\ Opened(fd)
       /\ ref' = [ref EXCEPT ![fd_inode[fd]] = @ - 1]
       /\ fd_inode' = [fd_inode EXCEPT ![fd] = NULL]
       /\ IF call = "close_file"
          THEN fd_next' = [fd_next EXCEPT ![fd] = 0] /\ UNCHANGED fd_next_son
          ELSE /\ fd_next_son' = [fd_next_son EXCEPT ![fd] = NULL]
               /\ UNCHANGED fd_next
       /\ reply' = [ret |-> "VFS_OK", fd |-> -1]
       /\ UNCHANGED <<type, name, father, brother, first_son, size, data,
                      halted>>

close_file(fd) == close("close_file", fd)
close_dir(fd)  == close("close_dir", fd)

\* Slip: the cursor does not move.
get_next_dir_son_Stuck(fd) ==
    /\ Opened(fd)
    /\ type[fd_inode[fd]] = "FOLDER"
    /\ fd_next_son[fd] # NULL
    /\ reply' = [ret |-> "VFS_OK", son |-> name[fd_next_son[fd]]]
    /\ UNCHANGED <<inodes, fds, halted>>

\* The cursor is an inode: it gives the name that inode has now, and moves to
\* the brother it has now.
get_next_dir_son(fd) ==
    \/ /\ ~Opened(fd)
       /\ RefuseFd("VFS_INVALID_FD", -1)
    \/ /\ Opened(fd)
       /\ type[fd_inode[fd]] # "FOLDER"
       /\ RefuseFd("-1", fd)
    \/ /\ Opened(fd)
       /\ type[fd_inode[fd]] = "FOLDER"
       /\ LET son == fd_next_son[fd]
          IN  /\ reply' = [ret |-> "VFS_OK",
                           son |-> IF son = NULL THEN "" ELSE name[son]]
              /\ fd_next_son' =
                   IF son = NULL THEN fd_next_son
                   ELSE [fd_next_son EXCEPT ![fd] = brother[son]]
       /\ UNCHANGED <<inodes, fd_inode, fd_next, halted>>

-----------------------------------------------------------------------------
(* Reading and writing.                                                    *)

\* The int an unsigned becomes when it is passed as one.
ToInt(len) == IF len <= INT_MAX THEN len ELSE len - 2 * (INT_MAX + 1)

\* Slip: the file's size is not a limit.
SizeToRead_PageOnly(i, pos, len) ==
    IF pos + ToInt(len) >= FS_NPAGES THEN FS_NPAGES - pos ELSE ToInt(len)

\* read_inode's size_to_read.  The second limit compares with the number of
\* pages of the file system, not with the bytes of one, and wins over the
\* first.  pos + len does not wrap: pos is always 0 here.
SizeToRead(i, pos, len) ==
    IF pos + ToInt(len) >= FS_NPAGES THEN FS_NPAGES - pos
    ELSE IF pos + len >= size[i] THEN size[i] - pos
    ELSE ToInt(len)

\* memcpy moves whole units, so its count is rounded up.
Copied(n) == ((n + COPY_UNIT - 1) \div COPY_UNIT) * COPY_UNIT

IsFileFd(fd) == Opened(fd) /\ type[fd_inode[fd]] = "FILE"

\* `out' is every byte the call stores into the caller's buffer.  Nothing
\* moves fd_next: each read starts where the first one did.
read_file(fd, len) ==
    \/ ~IsFileFd(fd) /\ RefuseData
    \/ /\ IsFileFd(fd)
       /\ LET i == fd_inode[fd]
              pos == fd_next[fd]
              n == SizeToRead(i, pos, len)
          IN  reply' =
                IF pos >= size[i] \/ len = 0
                THEN [n |-> 0, out |-> <<0>>]
                ELSE [n |-> n,
                      out |-> [k \in 1 .. Copied(n) |-> data[i][pos + k - 1]]]
       /\ UNCHANGED <<inodes, fds, halted>>

\* Slip: the page is not a limit.
SizeToWrite_NoLimit(from, len) == IF ToInt(len) <= 0 THEN 0 ELSE ToInt(len)

\* write_inode, after its file has been given the size `from': what it adds
\* goes behind the bytes the file has and stops at the end of the page.
SizeToWrite(from, len) ==
    LET room == FILE_MAX_SIZE - from
    IN  IF ToInt(len) > room THEN room
        ELSE IF ToInt(len) <= 0 THEN 0 ELSE ToInt(len)

write_inode(i, from, str, len) ==
    LET n == SizeToWrite(from, len)
    IN  /\ data' = [data EXCEPT ![i] =
                      [k \in Offset |->
                         IF from <= k /\ k < from + n THEN str[k - from]
                         ELSE data[i][k]]]
        /\ size' = [size EXCEPT ![i] = from + n]
        /\ reply' = [n |-> n]
        /\ UNCHANGED <<type, name, father, brother, first_son, ref, fds,
                       halted>>

\* reset_inode, then write_inode.
write_file(fd, str, len) ==
    \/ ~IsFileFd(fd) /\ RefuseData
    \/ /\ IsFileFd(fd)
       /\ write_inode(fd_inode[fd], 0, str, len)

append_file(fd, str, len) ==
    \/ ~IsFileFd(fd) /\ RefuseData
    \/ /\ IsFileFd(fd)
       /\ write_inode(fd_inode[fd], size[fd_inode[fd]], str, len)

-----------------------------------------------------------------------------
Call ==
    \/ NullPointer
    \/ \E path \in Paths, nm \in Token :
          create_file(path, nm) \/ create_dir(path, nm)
    \/ \E path \in Paths :
          delete_file(path) \/ delete_dir(path) \/ open_file(path) \/ open_dir(path)
    \/ \E fd \in FdArg :
          close_file(fd) \/ close_dir(fd) \/ get_next_dir_son(fd)
    \/ \E fd \in FdArg, len \in Lens : read_file(fd, len)
    \/ \E fd \in FdArg, str \in Strings, len \in Lens :
          write_file(fd, str, len) \/ append_file(fd, str, len)

\* After the fault of a deleted root the kernel branches to itself for ever.
ErrHang == halted /\ UNCHANGED vars

Next == (~halted /\ Call) \/ ErrHang

Spec == Init /\ [][Next]_vars

-----------------------------------------------------------------------------
(* The tree.                                                               *)

\* The root is a folder outside every list.
RootIsFolder ==
    type[ROOT_INODE] = "FOLDER" /\ father[ROOT_INODE] = NULL

\* A free inode is as alloc_inode expects it, which resets nothing.
FreeIsBlank ==
    \A i \in Inode : ~Used(i) =>
        father[i] = NULL /\ brother[i] = NULL /\ first_son[i] = NULL /\ size[i] = 0

\* Links lead from folders and sons to sons that know their father.
LinksAgree ==
    \A i \in Inode :
        /\ first_son[i] # NULL => /\ type[i] = "FOLDER"
                                  /\ Used(first_son[i])
                                  /\ father[first_son[i]] = i
        /\ brother[i] # NULL => /\ father[i] # NULL
                                /\ Used(brother[i])
                                /\ father[brother[i]] = father[i]

\* No two links lead to one inode: lists do not merge, and none has a cycle.
LinksApart ==
    \A i, j \in Inode :
        /\ brother[i] # NULL /\ brother[i] = brother[j] => i = j
        /\ brother[i] # NULL => brother[i] # first_son[j]

\* Whatever has been created can be reached from its folder.
Listed ==
    \A i \in Inode \ {ROOT_INODE} : Used(i) =>
        /\ father[i] # NULL
        /\ type[father[i]] = "FOLDER"
        /\ i \in Sons(father[i])

\* The lists threaded through the table stay a tree of lists, although
\* alloc_inode resets none of the links of the inode it takes and
\* delete_inode unhooks sons from the folder it is emptying before it frees
\* them (filesystem.c:52-74 and 139-171, vfs.c:157-169).
WellLinked ==
    RootIsFolder /\ FreeIsBlank /\ LinksAgree /\ LinksApart /\ Listed

\* No inode leaks: each one in use hangs, through the folders above it, from
\* the root, so that deleting can give back the whole table.  Stated by the
\* sets that hold the root and the sons of their members: none leaves out a
\* used inode (vfs.c:146-170, the recursive delete).
NothingLost ==
    \A S \in SUBSET Inode :
        (/\ ROOT_INODE \in S
         /\ \A i \in Inode : Used(i) /\ father[i] \in S => i \in S)
        => \A i \in Inode : Used(i) => i \in S

-----------------------------------------------------------------------------
(* Descriptors and data.                                                   *)

\* `ref' never counts more descriptors than there are: an inode with none
\* left has no positive count, whatever was deleted, reused and closed in
\* between (vfs.c:213, 234, 402, 422 and filesystem.c:167).
RefBound ==
    \A i \in Inode : ref[i] <= Cardinality({fd \in Fd : fd_inode[fd] = i})

\* A request for fewer than FS_NPAGES bytes of a file reads exactly its
\* beginning, and no more of it than there is (vfs.c:262-267,
\* filesystem.c:123-135).
ReadIsPrefix ==
    [][\A fd \in Fd, len \in Lens :
         read_file(fd, len) /\ IsFileFd(fd) /\ 0 < len /\ len < FS_NPAGES
           => LET i == fd_inode[fd]
              IN  IF size[i] = 0 THEN reply'.n = 0
                  ELSE /\ reply'.n = IF len < size[i] THEN len ELSE size[i]
                       /\ \A k \in 1 .. reply'.n : reply'.out[k] = data[i][k - 1]
      ]_vars

-----------------------------------------------------------------------------
(* What comments and documents say, and the code does not do.              *)

\* vfs.md:209: `next' is the offset of the next character to read, and each
\* read of N characters moves it by N.  So the second of two reads in a row of
\* the only open file begins where the first one ended, and the two together
\* give no more than the file has.
ReadsGoOn ==
    [][\A fd \in Fd, len \in Lens :
         (/\ read_file(fd, len) /\ IsFileFd(fd) /\ len < FS_NPAGES
          /\ \A other \in Fd \ {fd} : fd_inode[other] = NULL
          /\ "out" \in DOMAIN reply /\ reply.n < FS_NPAGES)
           => reply.n + reply'.n <= size[fd_inode[fd]]]_vars

\* vfs.h:82: a read stores at most len + 1 characters into the buffer.
ReadStaysInBuffer ==
    [][\A fd \in Fd, len \in Lens :
         read_file(fd, len) /\ IsFileFd(fd) => Len(reply'.out) <= len + 1]_vars

=============================================================================
