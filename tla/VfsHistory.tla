----------------------------- MODULE VfsHistory ------------------------------
(***************************************************************************)
(* Vfs with what an observer of its calls remembers of each descriptor:    *)
(* the sons a listing has given and those it owes, and what was deleted    *)
(* under it.  None of it restricts Vfs.                                    *)
(***************************************************************************)
EXTENDS Vfs

VARIABLES
    seen,    \* sons the listing of a descriptor has given, still there
    due,     \* sons its folder had when it was opened, still there
    cut,     \* whether the son its cursor was at was deleted
    orphan   \* whether the inode it was opened on was deleted

hvars == <<vars, seen, due, cut, orphan>>

HInit ==
    /\ Init
    /\ seen = [fd \in Fd |-> {}]
    /\ due = [fd \in Fd |-> {}]
    /\ cut = [fd \in Fd |-> FALSE]
    /\ orphan = [fd \in Fd |-> FALSE]

Gone         == {i \in Inode : Used(i) /\ type'[i] = "EMPTY"}
Opens(fd)    == fd_inode[fd] = NULL /\ fd_inode'[fd] # NULL
Keeps(fd)    == fd_inode[fd] # NULL /\ fd_inode'[fd] # NULL
Advances(fd) == fd_next_son'[fd] # fd_next_son[fd]

Remember ==
    /\ seen' = [fd \in Fd |->
         IF ~Keeps(fd) THEN {}
         ELSE (seen[fd] \ Gone) \cup IF Advances(fd) THEN {fd_next_son[fd]} ELSE {}]
    /\ due' = [fd \in Fd |->
         IF Keeps(fd) THEN due[fd] \ Gone
         ELSE IF Opens(fd) /\ type[fd_inode'[fd]] = "FOLDER"
         THEN Sons(fd_inode'[fd]) ELSE {}]
    /\ cut' = [fd \in Fd |-> Keeps(fd) /\ (cut[fd] \/ fd_next_son[fd] \in Gone)]
    /\ orphan' = [fd \in Fd |-> Keeps(fd) /\ (orphan[fd] \/ fd_inode[fd] \in Gone)]

HNext == Next /\ Remember

HSpec == HInit /\ [][HNext]_hvars

-----------------------------------------------------------------------------
\* A listing whose folder and current son are not deleted under it is
\* complete and gives nothing twice, whatever else is created or deleted
\* between its calls: the sons the folder had when it was opened have been
\* given or are still ahead, and none is both (vfs.c:401, 450-455).
ListingComplete ==
    \A fd \in Fd :
        fd_inode[fd] # NULL /\ type[fd_inode[fd]] = "FOLDER"
        /\ ~orphan[fd] /\ ~cut[fd] =>
            LET ahead == Ahead(fd_next_son[fd])
            IN  /\ due[fd] \subseteq seen[fd] \cup ahead
                /\ seen[fd] \cap ahead = {}
                /\ ahead \subseteq Sons(fd_inode[fd])
=============================================================================
