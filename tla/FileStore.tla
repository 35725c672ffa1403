------------------------------ MODULE FileStore ------------------------------
(***************************************************************************)
(* What the file system promises, without inode lists: a tree whose        *)
(* folders hold a sequence of sons, files that hold a sequence of bytes,   *)
(* and descriptors.  Vfs implements it (module VfsStore).                  *)
(*                                                                         *)
(* It keeps what a caller can rely on and leaves the rest open: a request  *)
(* for fewer than Limit bytes reads exactly the beginning of the file, one *)
(* for more reads something.                                               *)
(***************************************************************************)
EXTENDS Integers, Sequences, SequencesExt

CONSTANTS
    Node, Root, None,   \* the nodes, the first of them, and no node
    Fd,                 \* descriptors
    Capacity,           \* bytes a file can hold
    Limit,              \* requests below it are read exactly
    Label, Byte,        \* the names a node may be given; the bytes
    Path, Text,         \* the paths, and the strings a caller writes
    Lens,               \* the lengths it gives
    Error               \* the ways a call can fail

VARIABLES
    kind,     \* what each node is
    label,    \* its name; a deleted node keeps it until it is used again
    sons,     \* the nodes in each folder, oldest first
    text,     \* the bytes in each file
    opened,   \* the node each descriptor leads to
    cursor,   \* the node each descriptor lists next
    reply,    \* what the last call gave its caller
    down      \* the system has stopped

tree == <<kind, label, sons, text>>
vars == <<tree, opened, cursor, reply, down>>

Used(n) == kind[n] # "EMPTY"

\* The oldest son of a folder that has a name.
Find(dir, token) ==
    LET named == {k \in 1 .. Len(sons[dir]) : label[sons[dir][k]] = token}
    IN  IF named = {} THEN None ELSE sons[dir][Min(named)]

\* A path names the node its tokens lead to, each looked up in a folder.
Resolve(path) ==
    LET Enter(n, token) ==
            IF n = None \/ kind[n] # "FOLDER" THEN None
            ELSE IF token = "" THEN n ELSE Find(n, token)
        after[k \in 0 .. Len(path)] ==
            IF k = 0 THEN Root ELSE Enter(after[k - 1], path[k])
    IN  IF path = <<>> THEN None ELSE after[Len(path)]

\* The node after n in the folder it is in.
After(n) ==
    LET places(dir) == {k \in 1 .. Len(sons[dir]) - 1 : sons[dir][k] = n}
        next == UNION {{sons[dir][k + 1] : k \in places(dir)} : dir \in Node}
    IN  IF next = {} THEN None ELSE CHOOSE s \in next : TRUE

\* A node and all that is in it, down to any depth: what every set has that
\* has the node and the sons of its members.
Below(top) ==
    {n \in Node : \A S \in SUBSET Node :
        top \in S /\ (\A m \in S : ToSet(sons[m]) \subseteq S) => n \in S}

\* A list without one of its nodes.
Without(list, n) ==
    IF n \notin ToSet(list) THEN list
    ELSE RemoveAt(list, CHOOSE k \in 1 .. Len(list) : list[k] = n)

Init ==
    /\ kind = [n \in Node |-> IF n = Root THEN "FOLDER" ELSE "EMPTY"]
    /\ label = [n \in Node |-> IF n = Root THEN "/" ELSE ""]
    /\ sons = [n \in Node |-> <<>>]
    /\ text = [n \in Node |-> <<>>]
    /\ opened = [fd \in Fd |-> None]
    /\ cursor = [fd \in Fd |-> None]
    /\ reply = [ret |-> "VFS_OK"]
    /\ down = FALSE

\* A call that fails changes nothing but what its caller gets, and does not
\* put the blame on a limit that has not been reached.
Fail ==
    /\ reply' \in [ret : Error] \cup [ret : Error, fd : Fd \cup {-1}]
    /\ reply'.ret = "VFS_MEMORY_FULL" => \A n \in Node : Used(n)
    /\ reply'.ret = "VFS_MAX_FD_REACHED" => \A fd \in Fd : opened[fd] # None
    /\ UNCHANGED <<tree, opened, cursor, down>>

Create(nm, what) ==
    /\ reply' = [ret |-> "VFS_OK"]
    /\ \E n \in Node :
          /\ ~Used(n)
          /\ kind' = [kind EXCEPT ![n] = what]
          /\ label' = [label EXCEPT ![n] = nm]
          /\ \E path \in Path :
                LET dir == Resolve(path)
                IN  /\ dir # None /\ kind[dir] = "FOLDER"
                    /\ sons' = [sons EXCEPT ![dir] = Append(@, n)]
    /\ UNCHANGED <<text, opened, cursor, down>>

\* Deleting a folder deletes all that is in it; deleting the root also stops
\* the system.
Delete(path) ==
    /\ reply' \in {reply, [ret |-> "VFS_OK"]}
    /\ UNCHANGED <<label, opened, cursor>>
    /\ LET top == Resolve(path)
           below == Below(top)
           gone == below \ {Root}
       IN  /\ top # None
           /\ reply' = IF top = Root THEN reply ELSE [ret |-> "VFS_OK"]
           /\ down' = (top = Root)
           /\ kind' = [n \in Node |-> IF n \in gone THEN "EMPTY" ELSE kind[n]]
           /\ sons' = [n \in Node |->
                 IF n \in below THEN <<>>
                 ELSE Without(sons[n], top)]
           /\ text' = [n \in Node |-> IF n \in gone THEN <<>> ELSE text[n]]

Open(path, what) ==
    /\ \E fd \in Fd :
          /\ opened[fd] = None
          /\ reply' = [ret |-> "VFS_OK", fd |-> fd]
          /\ LET n == Resolve(path)
             IN  /\ n # None /\ kind[n] = what
                 /\ opened' = [opened EXCEPT ![fd] = n]
                 /\ IF what = "FILE" THEN UNCHANGED cursor
                    ELSE cursor' = [cursor EXCEPT ![fd] =
                                      IF sons[n] = <<>> THEN None ELSE sons[n][1]]
    /\ UNCHANGED <<tree, down>>

Close(fd) ==
    /\ opened[fd] # None
    /\ opened' = [opened EXCEPT ![fd] = None]
    /\ cursor' \in {cursor, [cursor EXCEPT ![fd] = None]}
    /\ reply' = [ret |-> "VFS_OK", fd |-> -1]
    /\ UNCHANGED <<tree, down>>

List(fd) ==
    /\ opened[fd] # None /\ kind[opened[fd]] = "FOLDER"
    /\ IF cursor[fd] = None
       THEN /\ reply' = [ret |-> "VFS_OK", son |-> ""]
            /\ UNCHANGED cursor
       ELSE /\ reply' = [ret |-> "VFS_OK", son |-> label[cursor[fd]]]
            /\ cursor' = [cursor EXCEPT ![fd] = After(@)]
    /\ UNCHANGED <<tree, opened, down>>

FileOf(fd) == IF opened[fd] # None /\ kind[opened[fd]] = "FILE" THEN opened[fd] ELSE None

\* A data call that fails or moves no byte.
Nothing == reply' = [n |-> -1] /\ UNCHANGED <<tree, opened, cursor, down>>

Read(fd, len) ==
    LET file == text[FileOf(fd)]
        n    == Min({len, Len(file)})
    IN  /\ FileOf(fd) # None
        /\ reply' \in [n : 0 .. Capacity, out : Seq(Byte)]
        /\ len < Limit \/ file = <<>> => /\ reply'.n = n
                         /\ SubSeq(reply'.out, 1, n) = SubSeq(file, 1, n)
        /\ UNCHANGED <<tree, opened, cursor, down>>

\* Adds bytes behind `old' until the file is full.
Put(fd, old, str, len) ==
    /\ FileOf(fd) # None
    /\ \E n \in 0 .. Capacity - Len(old) :
         /\ len < Limit => n = Min({len, Capacity - Len(old)})
         /\ text' = [text EXCEPT ![FileOf(fd)] =
                       old \o [k \in 1 .. n |-> str[k - 1]]]
         /\ reply' = [n |-> n]
    /\ UNCHANGED <<kind, label, sons, opened, cursor, down>>

Write(fd, str, len)  == Put(fd, <<>>, str, len)
Extend(fd, str, len) == Put(fd, text[FileOf(fd)], str, len)

Stopped == down /\ UNCHANGED vars

Next ==
    \/ /\ ~down
       /\ \/ Fail \/ Nothing
          \/ \E nm \in Label, what \in {"FILE", "FOLDER"} : Create(nm, what)
          \/ \E path \in Path : Delete(path)
          \/ \E path \in Path, what \in {"FILE", "FOLDER"} : Open(path, what)
          \/ \E fd \in Fd : Close(fd) \/ List(fd)
          \/ \E fd \in Fd, len \in Lens : Read(fd, len)
          \/ \E fd \in Fd, str \in Text, len \in Lens :
                Write(fd, str, len) \/ Extend(fd, str, len)
    \/ Stopped

Spec == Init /\ [][Next]_vars
=============================================================================
