------------------------------ MODULE VfsStore -------------------------------
(***************************************************************************)
(* Vfs implements FileStore: the lists threaded through the inode table    *)
(* are its sequences of sons, and a data block up to the inode's size its  *)
(* bytes.                                                                  *)
(***************************************************************************)
EXTENDS Vfs

\* The list that starts at an inode.
ListFrom(p) ==
    LET from[s \in Pointer] == IF s = NULL THEN <<>>
                               ELSE <<s>> \o from[brother[s]]
    IN  from[p]

\* The sons of each folder, and the bytes of each file.
sons == [i \in Inode |-> ListFrom(first_son[i])]
text == [i \in Inode |-> [k \in 1 .. size[i] |-> data[i][k - 1]]]

Store == INSTANCE FileStore WITH
    Node <- Inode, Root <- ROOT_INODE, None <- NULL,
    Capacity <- FILE_MAX_SIZE, Limit <- FS_NPAGES,
    Label <- Names, Path <- Paths, Text <- Strings,
    Error <- VfsError \ {"VFS_OK"},
    kind <- type, label <- name,
    sons <- sons, text <- text,
    opened <- fd_inode, cursor <- fd_next_son, down <- halted

\* Every call does to the tree, the files and the descriptors, and gives its
\* caller, what FileStore says: no call loses, duplicates or reorders a son,
\* reaches a byte of another file, or fails half-way.
StoreSpec == Store!Spec
=============================================================================
