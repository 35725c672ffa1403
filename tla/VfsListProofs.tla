---------------------------- MODULE VfsListProofs ----------------------------
(***************************************************************************)
(* What the lists of inodes are to a caller of Vfs, for any number of      *)
(* inodes, descriptors and bytes: each listing of a folder is complete,    *)
(* and Vfs implements FileStore.                                           *)
(*                                                                         *)
(* The mapping of VfsStore makes a sequence of each list of inodes, by a   *)
(* recursion along `brother'.  What the recursion gives is known because   *)
(* lists end: in each set of inodes there is one whose brother is not in   *)
(* it, so that a property that goes from each brother to the one before    *)
(* has no set of exceptions.                                               *)
(***************************************************************************)
EXTENDS VfsProofs, VfsHistory, VfsStore, WellFoundedInduction

-----------------------------------------------------------------------------
(* Listings: each is complete, for any tree, any number of listings at a   *)
(* time, and any creations and deletions between their calls.              *)

\* A descriptor whose inode, and the son its cursor was at, have stayed.
Sound(fd) == fd_inode[fd] # NULL /\ ~orphan[fd] /\ ~cut[fd]

\* What holds of a sound listing.  Its folder is in use, so that it is not
\* given to a new inode meanwhile; and what it has given are still sons.
Listing(fd) ==
    /\ Used(fd_inode[fd])
    /\ type[fd_inode[fd]] = "FOLDER" =>
        /\ seen[fd] \subseteq Sons(fd_inode[fd])
        /\ due[fd] \subseteq seen[fd] \cup Ahead(fd_next_son[fd])
        /\ seen[fd] \cap Ahead(fd_next_son[fd]) = {}
        /\ Ahead(fd_next_son[fd]) \subseteq Sons(fd_inode[fd])

ListingInv == TreeInv /\ \A fd \in Fd : Sound(fd) => Listing(fd)

\* The list from a son stays among the sons.
LEMMA AheadInside ==
    ASSUME LinkTypes, NEW dir \in Inode, NEW p \in Sons(dir) \cup {NULL}
    PROVE  Ahead(p) \subseteq Sons(dir)
<1>1. PICK first \in Pointer : first = first_son[dir]
  BY DEF LinkTypes
<1>2. Sons(dir) \in SUBSET Inode /\ \A i \in Sons(dir) : brother[i] \in Sons(dir) \cup {NULL}
  BY <1>1, AheadClosed DEF Sons
<1> QED
  BY <1>2, AheadInduction

\* The same as a formula of a state, and so of the state after a step.
SuffixesInside ==
    \A dir \in Inode : \A p \in Sons(dir) \cup {NULL} : Ahead(p) \subseteq Sons(dir)

LEMMA SuffixesStay == LinkTypes' => SuffixesInside'
<1>1. LinkTypes => SuffixesInside
  BY AheadInside DEF SuffixesInside
<1> QED
  BY <1>1, PTL

-----------------------------------------------------------------------------
(* What the calls do to a descriptor.                                      *)

Stays(fd) ==
    fd_inode'[fd] = fd_inode[fd] /\ fd_next_son'[fd] = fd_next_son[fd]

Moves(fd) ==
    /\ fd_inode[fd] # NULL
    /\ fd_inode'[fd] = fd_inode[fd]
    /\ type[fd_inode[fd]] = "FOLDER"
    /\ fd_next_son[fd] # NULL
    /\ fd_next_son'[fd] = brother[fd_next_son[fd]]

Shuts(fd) == fd_inode'[fd] = NULL

Begins(fd) ==
    /\ fd_inode[fd] = NULL
    /\ \E target \in Inode :
        /\ fd_inode'[fd] = target
        /\ Used(target)
        /\ type[target] = "FOLDER" => fd_next_son'[fd] = first_son[target]

LEMMA OpenBegins ==
    ASSUME TypeInv, NEW path, open_file(path) \/ open_dir(path), NEW fd \in Fd
    PROVE  Stays(fd) \/ Begins(fd)
<1>1. CASE UNCHANGED fds
  BY <1>1 DEF fds, Stays
<1>2. ASSUME NEW g \in Fd, NEW target \in Inode, NEW kind \in {"FILE", "FOLDER"},
             fd_inode[g] = NULL, type[target] = kind,
             fd_inode' = [fd_inode EXCEPT ![g] = target],
             Rewind(kind, g, target)
      PROVE  Stays(fd) \/ Begins(fd)
  <2>1. CASE fd = g
    BY <1>2, <2>1 DEF Begins, Used, Rewind, TypeInv, TypeOK
  <2>2. CASE fd # g
    BY <1>2, <2>2 DEF Stays, Rewind, TypeInv, TypeOK
  <2> QED
    BY <2>1, <2>2
<1>3. \/ UNCHANGED fds
      \/ \E g \in Fd, target \in Inode, kind \in {"FILE", "FOLDER"} :
            /\ fd_inode[g] = NULL /\ type[target] = kind
            /\ fd_inode' = [fd_inode EXCEPT ![g] = target]
            /\ Rewind(kind, g, target)
  BY DEF open_file, open_dir, open, IsNextFd, RefuseFd, Pointer
<1> QED
  BY <1>1, <1>2, <1>3

LEMMA CloseShuts ==
    ASSUME TypeInv, NEW arg \in FdArg, close_file(arg) \/ close_dir(arg),
           NEW fd \in Fd
    PROVE  Stays(fd) \/ Shuts(fd)
<1>1. CASE ~Opened(arg)
  BY <1>1 DEF close_file, close_dir, close, RefuseFd, fds, Stays
<1>2. CASE Opened(arg)
  <2>1. arg \in Fd
    BY <1>2 DEF Opened, FdArg
  <2> QED
    BY <1>2, <2>1 DEF close_file, close_dir, close, Stays, Shuts, TypeInv, TypeOK
<1> QED
  BY <1>1, <1>2

LEMMA ListMoves ==
    ASSUME TypeInv, NEW arg \in FdArg, get_next_dir_son(arg), NEW fd \in Fd
    PROVE  Stays(fd) \/ Moves(fd)
<1>1. CASE UNCHANGED fds
  BY <1>1 DEF fds, Stays
<1>2. CASE /\ Opened(arg) /\ type[fd_inode[arg]] = "FOLDER"
           /\ fd_next_son[arg] # NULL
           /\ fd_next_son' = [fd_next_son EXCEPT ![arg] = brother[fd_next_son[arg]]]
           /\ UNCHANGED fd_inode
  <2>1. arg \in Fd /\ fd_next_son \in [Fd -> Pointer]
    BY <1>2 DEF Opened, FdArg, TypeInv, TypeOK
  <2>2. CASE fd = arg
    BY <1>2, <2>1, <2>2 DEF Opened, Moves
  <2>3. CASE fd # arg
    BY <1>2, <2>1, <2>3 DEF Stays
  <2> QED
    BY <2>2, <2>3
<1> QED
  BY <1>1, <1>2 DEF get_next_dir_son, RefuseFd, fds

LEMMA QuietDescriptors ==
    ASSUME TypeInv, NEW arg \in FdArg, NEW path, NEW str, NEW len, NEW fd \in Fd,
           \/ NullPointer \/ UNCHANGED vars
           \/ open_file(path) \/ open_dir(path)
           \/ close_file(arg) \/ close_dir(arg) \/ get_next_dir_son(arg)
           \/ read_file(arg, len)
           \/ write_file(arg, str, len) \/ append_file(arg, str, len)
    PROVE  Stays(fd) \/ Moves(fd) \/ Shuts(fd) \/ Begins(fd)
<1>1. CASE UNCHANGED fds
  BY <1>1 DEF fds, Stays
<1>2. CASE \/ NullPointer \/ UNCHANGED vars \/ read_file(arg, len)
           \/ write_file(arg, str, len) \/ append_file(arg, str, len)
  BY <1>1, <1>2 DEF NullPointer, Refuse, RefuseData, vars, read_file, write_file,
                    append_file, write_inode
<1> QED
  BY <1>2, OpenBegins, CloseShuts, ListMoves

-----------------------------------------------------------------------------
(* What is remembered.                                                     *)

\* Of a descriptor that stays open and whose listing is sound afterwards.
LEMMA Remembered ==
    ASSUME Remember, NEW fd \in Fd, Keeps(fd), Sound(fd)'
    PROVE  /\ Sound(fd)
           /\ fd_next_son[fd] \notin Gone /\ fd_inode[fd] \notin Gone
           /\ seen'[fd] = (seen[fd] \ Gone)
                \cup IF Advances(fd) THEN {fd_next_son[fd]} ELSE {}
           /\ due'[fd] = due[fd] \ Gone
BY DEF Remember, Sound, Keeps

\* Of one that is opened.
LEMMA RememberedNew ==
    ASSUME Remember, NEW fd \in Fd, NEW target, fd_inode[fd] = NULL,
           fd_inode'[fd] = target, target # NULL
    PROVE  seen'[fd] = {} /\ (type[target] = "FOLDER" => due'[fd] = Sons(target))
BY DEF Remember, Keeps, Opens

\* A call that leaves the tree alone.
LEMMA QuietListing ==
    ASSUME LinkTypes, WellLinked, fd_next_son \in [Fd -> Pointer],
           fd_inode \in [Fd -> Pointer], QuietCall, Remember,
           NEW fd \in Fd, Stays(fd) \/ Moves(fd) \/ Shuts(fd) \/ Begins(fd),
           Sound(fd) => Listing(fd), Sound(fd)'
    PROVE  Listing(fd)'
<1>1. Gone = {} /\ type' = type /\ brother' = brother /\ first_son' = first_son
  BY DEF Gone, QuietCall, Used
<1>2. /\ \A p \in Pointer : Ahead(p)' = Ahead(p)
      /\ \A d \in Inode : Sons(d)' = Sons(d)
  BY <1>1 DEF Ahead, Sons
<1>3. CASE Shuts(fd)
  BY <1>3 DEF Shuts, Sound
<1>4. CASE Begins(fd)
  <2>1. PICK target \in Inode :
          /\ fd_inode[fd] = NULL /\ fd_inode'[fd] = target /\ Used(target)
          /\ type[target] = "FOLDER" => fd_next_son'[fd] = first_son[target]
    BY <1>4 DEF Begins
  <2>2. PICK first \in Pointer : first = first_son[target]
    BY DEF LinkTypes
  <2>3. seen'[fd] = {} /\ (type[target] = "FOLDER" => due'[fd] = Sons(target))
    BY <2>1, Sizes, RememberedNew
  <2>4. Sons(target) = Ahead(first)
    BY <2>2 DEF Sons
  <2> QED
    BY <1>1, <1>2, <2>1, <2>2, <2>3, <2>4 DEF Listing, Used
<1>5. CASE Stays(fd)
  <2>1. Keeps(fd) /\ ~Advances(fd)
    BY <1>5 DEF Stays, Keeps, Advances, Sound
  <2>2. Sound(fd) /\ seen'[fd] = seen[fd] /\ due'[fd] = due[fd]
    BY <1>1, <2>1, Remembered
  <2>3. PICK dir \in Inode, c \in Pointer :
          /\ dir = fd_inode[fd] /\ c = fd_next_son[fd]
          /\ dir = fd_inode'[fd] /\ c = fd_next_son'[fd]
    BY <1>5 DEF Stays, Sound, Pointer
  <2> QED
    BY <1>1, <1>2, <2>2, <2>3 DEF Listing, Used
<1>6. CASE Moves(fd)
  <2>1. PICK dir \in Inode, c \in Inode, d \in Pointer :
          /\ dir = fd_inode[fd] /\ c = fd_next_son[fd] /\ d = brother[c]
          /\ dir = fd_inode'[fd] /\ d = fd_next_son'[fd]
          /\ type[dir] = "FOLDER"
    BY <1>6 DEF Moves, Pointer, LinkTypes
  <2>2. Keeps(fd)
    BY <1>6, <2>1 DEF Moves, Keeps
  <2>3. Sound(fd) /\ seen[fd] \subseteq Sons(dir) /\ Ahead(c) \subseteq Sons(dir)
        /\ due[fd] \subseteq seen[fd] \cup Ahead(c)
        /\ seen[fd] \cap Ahead(c) = {}
        /\ Used(dir)
    BY <2>1, <2>2, Remembered DEF Listing
  <2>4. Ahead(c) = {c} \cup Ahead(d)
    BY <2>1, AheadStep
  <2>5. c \in Sons(dir) /\ Used(c) /\ c \notin Ahead(d)
    BY <2>1, <2>3, <2>4, SonsKnowFather, NotAheadOfItself DEF WellLinked
  <2>6. Advances(fd)
    BY <2>1, <2>5, NoSelfBrother DEF Advances
  <2>7. seen'[fd] = seen[fd] \cup {c} /\ due'[fd] = due[fd]
    BY <1>1, <2>1, <2>2, <2>6, Remembered
  <2> QED
    BY <1>1, <1>2, <2>1, <2>3, <2>4, <2>5, <2>7 DEF Listing, Used
<1> QED
  BY <1>3, <1>4, <1>5, <1>6

\* A new inode goes behind the last son of its folder, so that it is ahead of
\* every listing of that folder and of no other.
LEMMA AllocListing ==
    ASSUME LinkTypes, WellLinked, NothingLost, fd_next_son \in [Fd -> Pointer],
           fd_inode \in [Fd -> Pointer], LinkTypes', UNCHANGED fds, Remember,
           NEW new \in Inode, NEW nm, NEW dir \in Inode, type[dir] = "FOLDER",
           NEW kind \in {"FILE", "FOLDER"}, alloc_inode(new, nm, dir, kind),
           NEW fd \in Fd, Sound(fd) => Listing(fd), Sound(fd)'
    PROVE  Listing(fd)'
<1>1. /\ \A p \in Pointer : /\ Ahead(p) \subseteq Ahead(p)'
                            /\ Ahead(p)' \subseteq Ahead(p) \cup {new}
      /\ \A d \in Inode : Sons(d) \subseteq Sons(d)'
  BY AllocTree
<1>2. type[new] = "EMPTY" /\ type' = [type EXCEPT ![new] = kind]
  BY DEF alloc_inode
<1>3. Gone = {}
  BY <1>2 DEF Gone, Used, LinkTypes
<1>4. PICK folder \in Inode, c \in Pointer :
        /\ folder = fd_inode[fd] /\ c = fd_next_son[fd]
        /\ folder = fd_inode'[fd] /\ c = fd_next_son'[fd]
  BY DEF fds, Sound, Pointer
<1>5. Keeps(fd) /\ ~Advances(fd)
  BY <1>4, Sizes DEF Keeps, Advances
<1>6. Sound(fd) /\ seen'[fd] = seen[fd] /\ due'[fd] = due[fd]
  BY <1>3, <1>5, Remembered
<1>7. Used(folder) /\ folder # new /\ type'[folder] = type[folder]
  BY <1>2, <1>4, <1>6 DEF Listing, Used, LinkTypes
<1>8. SUFFICES ASSUME type[folder] = "FOLDER"
               PROVE  /\ seen[fd] \subseteq Sons(folder)'
                      /\ due[fd] \subseteq seen[fd] \cup Ahead(c)'
                      /\ seen[fd] \cap Ahead(c)' = {}
                      /\ Ahead(c)' \subseteq Sons(folder)'
  BY <1>4, <1>6, <1>7 DEF Listing, Used
<1>9. /\ seen[fd] \subseteq Sons(folder)
      /\ due[fd] \subseteq seen[fd] \cup Ahead(c)
      /\ seen[fd] \cap Ahead(c) = {}
      /\ Ahead(c) \subseteq Sons(folder)
  BY <1>4, <1>6, <1>8 DEF Listing
<1>10. new \notin Sons(folder)
  BY <1>2, SonsKnowFather DEF Used, WellLinked
<1>11. c \in Sons(folder) \cup {NULL}
  BY <1>9, AheadClosed
<1>12. Ahead(c)' \subseteq Sons(folder)'
  BY <1>1, <1>11, SuffixesStay DEF SuffixesInside
<1> QED
  BY <1>1, <1>9, <1>10, <1>12

\* A delete takes from every list what is in the subtree, and leaves the rest
\* of a listing whose folder and cursor are not in it.
LEMMA DeleteListing ==
    ASSUME LinkTypes, WellLinked, NothingLost, fd_next_son \in [Fd -> Pointer],
           fd_inode \in [Fd -> Pointer], LinkTypes', UNCHANGED fds, Remember,
           NEW top \in Inode, Used(top), top # ROOT_INODE, delete_inode(top),
           NEW fd \in Fd, Sound(fd) => Listing(fd), Sound(fd)'
    PROVE  Listing(fd)'
<1> DEFINE T == Subtree(top)
<1>1. /\ \A i \in Inode : type'[i] = IF i \in T THEN "EMPTY" ELSE type[i]
      /\ \A p \in Pointer \ T : Ahead(p)' = Ahead(p) \ T
      /\ \A d \in Inode \ T : Sons(d)' = Sons(d) \ T
  BY DeleteTree
<1>2. Gone = {i \in T : Used(i)} /\ T \in SUBSET Inode
  <2>1. T \in SUBSET Inode
    BY SubtreeClosed
  <2> QED
    BY <2>1, <1>1 DEF Gone, Used
<1> HIDE DEF T
<1>3. PICK folder \in Inode, c \in Pointer :
        /\ folder = fd_inode[fd] /\ c = fd_next_son[fd]
        /\ folder = fd_inode'[fd] /\ c = fd_next_son'[fd]
  BY DEF fds, Sound, Pointer
<1>4. Keeps(fd) /\ ~Advances(fd)
  BY <1>3, Sizes DEF Keeps, Advances
<1>5. /\ Sound(fd) /\ folder \notin Gone /\ c \notin Gone
      /\ seen'[fd] = seen[fd] \ Gone /\ due'[fd] = due[fd] \ Gone
  BY <1>3, <1>4, Remembered
<1>6. Used(folder) /\ folder \notin T /\ type'[folder] = type[folder]
  BY <1>1, <1>2, <1>3, <1>5 DEF Listing
<1>7. SUFFICES ASSUME type[folder] = "FOLDER"
               PROVE  /\ seen[fd] \ Gone \subseteq Sons(folder)'
                      /\ due[fd] \ Gone \subseteq (seen[fd] \ Gone) \cup Ahead(c)'
                      /\ (seen[fd] \ Gone) \cap Ahead(c)' = {}
                      /\ Ahead(c)' \subseteq Sons(folder)'
  BY <1>3, <1>5, <1>6 DEF Listing, Used
<1>8. /\ seen[fd] \subseteq Sons(folder)
      /\ due[fd] \subseteq seen[fd] \cup Ahead(c)
      /\ seen[fd] \cap Ahead(c) = {}
      /\ Ahead(c) \subseteq Sons(folder)
  BY <1>3, <1>5, <1>7 DEF Listing
<1>9. \A s \in Sons(folder) : Used(s) /\ s \in Inode
  BY SonsKnowFather DEF WellLinked, Sons, Ahead
<1>10. Sons(folder)' = Sons(folder) \ T
  BY <1>1, <1>6
<1>11. Ahead(c)' = Ahead(c) \ T
  <2>1. c \in Sons(folder) \cup {NULL}
    BY <1>8, AheadClosed
  <2>2. c \notin T
    BY <2>1, <1>2, <1>5, <1>9, Sizes
  <2> QED
    BY <2>2, <1>1
<1> QED
  BY <1>2, <1>8, <1>9, <1>10, <1>11

\* After the root has been deleted only a listing of the root that had come to
\* its end is sound.
LEMMA DeleteRootListing ==
    ASSUME LinkTypes, WellLinked, NothingLost, fd_next_son \in [Fd -> Pointer],
           fd_inode \in [Fd -> Pointer], UNCHANGED fds, Remember,
           delete_inode(ROOT_INODE),
           NEW fd \in Fd, Sound(fd) => Listing(fd), Sound(fd)'
    PROVE  Listing(fd)'
<1>1. /\ \A i \in Inode \ {ROOT_INODE} : type'[i] = "EMPTY"
      /\ type'[ROOT_INODE] = "FOLDER" /\ type[ROOT_INODE] = "FOLDER"
      /\ father[ROOT_INODE] = NULL
  <2>1. /\ RootIsFolder /\ RootIsFolder'
        /\ \A i \in Inode : Used(i) => i \in Subtree(ROOT_INODE)
    BY DeleteRootTree, RootDeletesAll DEF WellLinked
  <2>2. \A i \in Inode \ {ROOT_INODE} :
           type'[i] = IF i \in Subtree(ROOT_INODE) THEN "EMPTY" ELSE type[i]
    BY DEF delete_inode, free_inode
  <2> QED
    BY <2>1, <2>2 DEF RootIsFolder, Used
<1>2. Gone = {i \in Inode : Used(i)} \ {ROOT_INODE}
  BY <1>1, Sizes DEF Gone, Used
<1>3. PICK folder \in Inode, c \in Pointer :
        /\ folder = fd_inode[fd] /\ c = fd_next_son[fd]
        /\ folder = fd_inode'[fd] /\ c = fd_next_son'[fd]
  BY DEF fds, Sound, Pointer
<1>4. Keeps(fd) /\ ~Advances(fd)
  BY <1>3, Sizes DEF Keeps, Advances
<1>5. /\ Sound(fd) /\ folder \notin Gone /\ c \notin Gone
      /\ seen'[fd] = seen[fd] \ Gone /\ due'[fd] = due[fd] \ Gone
  BY <1>3, <1>4, Remembered
<1>6. folder = ROOT_INODE
  BY <1>2, <1>3, <1>5 DEF Listing
<1>7. /\ seen[fd] \subseteq Sons(folder)
      /\ due[fd] \subseteq seen[fd] \cup Ahead(c)
      /\ Ahead(c) \subseteq Sons(folder)
  BY <1>1, <1>3, <1>5, <1>6 DEF Listing
<1>8. \A s \in Sons(folder) : Used(s) /\ s \in Inode /\ s # ROOT_INODE
  BY <1>1, <1>6, SonsKnowFather, Sizes DEF WellLinked, Sons, Ahead
<1>9. Sons(folder) \subseteq Gone
  BY <1>2, <1>8
<1>10. c = NULL
  BY <1>5, <1>7, <1>9, AheadClosed
<1>11. Ahead(c) = {} /\ Ahead(c)' = {}
  BY <1>10, AheadNull DEF Ahead
<1>12. seen'[fd] = {} /\ due'[fd] = {}
  BY <1>5, <1>7, <1>9, <1>11
<1> QED
  BY <1>1, <1>3, <1>6, <1>11, <1>12 DEF Listing, Used

-----------------------------------------------------------------------------
(* All calls.                                                              *)

LEMMA ListingInit == HInit => ListingInv
BY InitTree DEF HInit, ListingInv, Init, Sound

LEMMA ListingStep == ListingInv /\ [HNext]_hvars => ListingInv'
<1> SUFFICES ASSUME ListingInv, [HNext]_hvars PROVE ListingInv'
  OBVIOUS
<1>1. TreeInv /\ TypeInv /\ LinkTypes /\ WellLinked /\ NothingLost
  BY LinkTypesHold DEF ListingInv, TreeInv
<1>2. fd_next_son \in [Fd -> Pointer] /\ fd_inode \in [Fd -> Pointer]
  BY <1>1 DEF TypeInv, TypeOK
<1>3. CASE UNCHANGED hvars
  <2>1. TreeInv' /\ \A fd \in Fd : (Sound(fd) <=> Sound(fd)') /\ (Listing(fd) <=> Listing(fd)')
    <3>1. UNCHANGED vars
      BY <1>3 DEF hvars
    <3>2. TreeInv'
      BY <1>1, <3>1, StepTree
    <3> QED
      BY <1>3, <3>2 DEF hvars, vars, inodes, fds, Sound, Listing, Used, Sons, Ahead
  <2> QED
    BY <2>1 DEF ListingInv
<1>4. CASE HNext
  <2>1. Next /\ Remember
    BY <1>4 DEF HNext
  <2>2. TreeInv' /\ LinkTypes'
    <3>1. TreeInv'
      BY <1>1, <2>1, StepTree
    <3> QED
      BY <3>1 DEF TreeInv, TypeInv, TypeOK, LinkTypes
  <2> SUFFICES ASSUME NEW fd \in Fd, Sound(fd)' PROVE Listing(fd)'
    BY <2>2 DEF ListingInv
  <2>3. Sound(fd) => Listing(fd)
    BY DEF ListingInv
  <2>4. CASE QuietCall /\ (Stays(fd) \/ Moves(fd) \/ Shuts(fd) \/ Begins(fd))
    BY <1>1, <1>2, <2>1, <2>3, <2>4, QuietListing
  <2>5. CASE UNCHANGED inodes /\ UNCHANGED fds
    BY <2>4, <2>5 DEF inodes, fds, QuietCall, Stays
  <2>6. ASSUME NEW path, NEW nm, create_file(path, nm) \/ create_dir(path, nm)
        PROVE  Listing(fd)'
    <3>1. PICK kind \in {"FILE", "FOLDER"} : create(kind, path, nm)
      BY <2>6 DEF create_file, create_dir
    <3>2. UNCHANGED fds /\ \/ UNCHANGED inodes
                           \/ \E dir \in Pointer, new \in Inode :
                                 IsFolder(dir) /\ alloc_inode(new, nm, dir, kind)
      BY <3>1 DEF create, Refuse
    <3>3. CASE \E dir \in Pointer, new \in Inode :
                  IsFolder(dir) /\ alloc_inode(new, nm, dir, kind)
      <4>1. PICK dir \in Inode, new \in Inode :
              type[dir] = "FOLDER" /\ alloc_inode(new, nm, dir, kind)
        BY <3>3 DEF IsFolder, Pointer
      <4> QED
        BY <4>1, <3>2, <1>1, <1>2, <2>1, <2>2, <2>3, AllocListing
    <3> QED
      BY <3>2, <3>3, <2>5
  <2>7. ASSUME NEW path, delete_file(path) \/ delete_dir(path)
        PROVE  Listing(fd)'
    <3>1. UNCHANGED fds /\ \/ UNCHANGED inodes
                           \/ \E top \in Inode : Used(top) /\ delete_inode(top)
      BY <2>7 DEF delete_file, delete_dir, delete, Refuse, Pointer
    <3>2. CASE \E top \in Inode : Used(top) /\ delete_inode(top)
      <4>1. PICK top \in Inode : Used(top) /\ delete_inode(top)
        BY <3>2
      <4>2. CASE top = ROOT_INODE
        BY <4>1, <4>2, <3>1, <1>1, <1>2, <2>1, <2>3, DeleteRootListing
      <4>3. CASE top # ROOT_INODE
        BY <4>1, <4>3, <3>1, <1>1, <1>2, <2>1, <2>2, <2>3, DeleteListing
      <4> QED
        BY <4>2, <4>3
    <3> QED
      BY <3>1, <3>2, <2>5
  <2>8. -1 \in FdArg
    BY DEF FdArg
  <2>9. ASSUME NEW arg \in FdArg, NEW path, NEW str, NEW len,
           \/ NullPointer \/ UNCHANGED vars
           \/ open_file(path) \/ open_dir(path)
           \/ close_file(arg) \/ close_dir(arg) \/ get_next_dir_son(arg)
           \/ read_file(arg, len)
           \/ write_file(arg, str, len) \/ append_file(arg, str, len)
        PROVE  Listing(fd)'
    BY <2>9, <1>1, <2>4, QuietCalls, QuietDescriptors
  <2> QED
    BY <2>1, <2>6, <2>7, <2>8, <2>9 DEF Next, Call, ErrHang
<1> QED
  BY <1>3, <1>4

\* Whatever is created or deleted between its calls, by whoever, a listing
\* whose folder and current son survive gives each son that was there when it
\* was opened and stays, and none twice; what it has still to give is always
\* sons of its folder (vfs.c:379-404 and 430-458).
THEOREM ListingsAreComplete == HSpec => []ListingComplete
<1>1. ListingInv => ListingComplete
  BY DEF ListingInv, ListingComplete, Sound, Listing
<1> QED
  BY <1>1, ListingInit, ListingStep, PTL DEF HSpec

-----------------------------------------------------------------------------
(* Numbers.                                                                *)

LEMMA NatLeast ==
    ASSUME NEW S \in SUBSET Nat, S # {}
    PROVE  \E n \in S : \A m \in S : n <= m
<1>1. PICK n \in S : \A m \in S : ~ (<<m, n>> \in OpToRel(<, Nat))
  BY NatLessThanWellFounded, WFMin, Zenon
<1>2. \A m \in S : ~ (m < n)
  BY <1>1 DEF OpToRel
<1> QED
  BY <1>2

\* A recursion along the numbers up to n.
Rules(A, n) == [A \X (1 .. n) -> A]
Follows(f, n, a, F) == f[0] = a /\ \A k \in 1 .. n : f[k] = F[<<f[k - 1], k>>]

LEMMA Steps ==
    ASSUME NEW n \in Nat, NEW A, NEW a \in A, NEW F, F \in Rules(A, n)
    PROVE  \E f \in [0 .. n -> A] : Follows(f, n, a, F)
<1> USE DEF Rules, Follows
<1> DEFINE Upto(m) == \E f \in [0 .. m -> A] :
                         f[0] = a /\ \A k \in 1 .. m : f[k] = F[<<f[k - 1], k>>]
           Fails == {m \in 0 .. n : ~Upto(m)}
<1>1. SUFFICES ASSUME ~Upto(n) PROVE FALSE
  OBVIOUS
<1>2. PICK m \in Fails : \A l \in Fails : m <= l
  <2> HIDE DEF Upto
  <2>1. Fails # {} /\ Fails \in SUBSET Nat
    BY <1>1
  <2> HIDE DEF Fails
  <2> QED
    BY <2>1, NatLeast
<1>3. Upto(0)
  <2> DEFINE g == [k \in 0 .. 0 |-> a]
  <2>1. /\ g \in [0 .. 0 -> A] /\ g[0] = a
        /\ \A k \in 1 .. 0 : g[k] = F[<<g[k - 1], k>>]
    OBVIOUS
  <2> HIDE DEF g
  <2> QED
    BY <2>1
<1>4. m # 0 /\ m \in 1 .. n /\ m - 1 \in 0 .. n
  <2> HIDE DEF Upto
  <2> QED
    BY <1>3
<1>5. Upto(m - 1)
  <2> HIDE DEF Upto
  <2> QED
    BY <1>2, <1>4
<1>6. PICK f \in [0 .. m - 1 -> A] :
         f[0] = a /\ \A k \in 1 .. m - 1 : f[k] = F[<<f[k - 1], k>>]
  BY <1>5
<1> DEFINE g == [k \in 0 .. m |-> IF k = m THEN F[<<f[m - 1], m>>] ELSE f[k]]
<1>7. f[m - 1] \in A /\ <<f[m - 1], m>> \in A \X (1 .. n)
  BY <1>4, <1>6
<1>8. g \in [0 .. m -> A]
  BY <1>4, <1>6, <1>7
<1>9. ASSUME NEW k \in 1 .. m PROVE g[k] = F[<<g[k - 1], k>>]
  <2>1. k \in 0 .. m /\ k - 1 \in 0 .. m /\ k - 1 # m /\ m \in Nat
    BY <1>4
  <2>2. g[k - 1] = f[k - 1]
    BY <2>1
  <2>3. CASE k = m
    BY <2>1, <2>2, <2>3
  <2>4. CASE k # m
    <3>1. k \in 1 .. m - 1
      BY <2>1, <2>4
    <3> QED
      BY <2>1, <2>2, <2>4, <3>1, <1>6
  <2> QED
    BY <2>3, <2>4
<1>10. g[0] = a
  BY <1>4, <1>6
<1> HIDE DEF g
<1>11. Upto(m)
  BY <1>8, <1>9, <1>10
<1> QED
  BY <1>11

-----------------------------------------------------------------------------
(* Lists as sequences.  The lemmas are about any b in the place of         *)
(* `brother', so as to hold of the state before a step and after it.       *)

Ends(b) == \A S \in SUBSET Inode : S # {} => \E s \in S : b[s] \notin S

\* The sequence s is the list from p.
IsList(b, s, p) ==
    /\ s \in Seq(Inode)
    /\ p = NULL <=> s = <<>>
    /\ p # NULL => s[1] = p /\ b[s[Len(s)]] = NULL
    /\ \A k \in 1 .. Len(s) - 1 : s[k + 1] = b[s[k]]

\* A list is its first inode and the list from the brother of that one.
LEMMA ListLonger ==
    ASSUME NEW b \in [Inode -> Pointer], NEW p \in Inode, NEW t, IsList(b, t, b[p])
    PROVE  IsList(b, <<p>> \o t, p)
<1> DEFINE s == <<p>> \o t
<1>1. t \in Seq(Inode) /\ Len(t) \in Nat /\ p # NULL
  BY Sizes DEF IsList
<1>2. s \in Seq(Inode) /\ Len(s) = Len(t) + 1 /\ s # <<>>
  BY <1>1
<1>3. s[1] = p /\ \A k \in 1 .. Len(t) : s[k + 1] = t[k]
  BY <1>1
<1>4. \A k \in 1 .. Len(t) + 1 : k # 1 => s[k] = t[k - 1]
  BY <1>1
<1> HIDE DEF s
<1>5. ASSUME t = <<>> PROVE IsList(b, s, p)
  BY <1>1, <1>2, <1>3, <1>5 DEF IsList
<1>6. ASSUME t # <<>> PROVE IsList(b, s, p)
  <2> SUFFICES /\ b[s[Len(s)]] = NULL
               /\ \A k \in 1 .. Len(s) - 1 : s[k + 1] = b[s[k]]
    BY <1>1, <1>2, <1>3 DEF IsList
  <2>1. Len(t) \in Nat \ {0} /\ t[1] = b[p] /\ b[t[Len(t)]] = NULL
    BY <1>1, <1>6 DEF IsList
  <2>2. b[s[Len(s)]] = NULL
    BY <2>1, <1>2, <1>4
  <2>3. ASSUME NEW k \in 1 .. Len(s) - 1 PROVE s[k + 1] = b[s[k]]
    <3>1. CASE k = 1
      BY <3>1, <2>1, <1>2, <1>3
    <3>2. CASE k # 1
      <4>1. k - 1 \in 1 .. Len(t) - 1 /\ k \in 1 .. Len(t) /\ k \in 1 .. Len(t) + 1
        BY <3>2, <1>2, <2>1
      <4>2. t[(k - 1) + 1] = b[t[k - 1]]
        BY <4>1 DEF IsList
      <4> QED
        BY <4>1, <4>2, <3>2, <1>3, <1>4
    <3> QED
      BY <3>1, <3>2
  <2> QED
    BY <2>2, <2>3
<1>7. IsList(b, s, p)
  BY <1>5, <1>6
<1> QED
  BY <1>7 DEF s

LEMMA ListShorter ==
    ASSUME NEW b \in [Inode -> Pointer], NEW p \in Inode, NEW s, IsList(b, s, p)
    PROVE  /\ IsList(b, Tail(s), b[p])
           /\ s = <<p>> \o Tail(s)
<1>1. s \in Seq(Inode) /\ s # <<>> /\ Len(s) \in Nat \ {0} /\ s[1] = p /\ p # NULL
  BY Sizes DEF IsList
<1> DEFINE t == Tail(s)
<1>2. /\ t \in Seq(Inode) /\ Len(t) = Len(s) - 1
      /\ \A k \in 1 .. Len(t) : t[k] = s[k + 1]
  BY <1>1
<1>3. s = <<p>> \o t
  BY <1>1
<1> HIDE DEF t
<1>4. ASSUME Len(s) = 1 PROVE IsList(b, t, b[p])
  BY <1>1, <1>2, <1>4 DEF IsList
<1>5. ASSUME Len(s) # 1 PROVE IsList(b, t, b[p])
  <2>1. t # <<>> /\ Len(t) \in Nat \ {0}
    BY <1>1, <1>2, <1>5
  <2>2. t[1] = b[p]
    BY <1>1, <1>2, <2>1 DEF IsList
  <2>3. b[p] # NULL
    <3>1. t[1] \in Inode
      BY <1>2, <2>1
    <3> QED
      BY <2>2, <3>1, Sizes
  <2>4. b[t[Len(t)]] = NULL
    BY <1>1, <1>2, <2>1 DEF IsList
  <2>5. \A k \in 1 .. Len(t) - 1 : t[k + 1] = b[t[k]]
    BY <1>1, <1>2, <2>1 DEF IsList
  <2> QED
    BY <1>2, <2>1, <2>2, <2>3, <2>4, <2>5 DEF IsList
<1> QED
  BY <1>3, <1>4, <1>5 DEF t

\* From each inode there is one list.
LEMMA ListExists ==
    ASSUME NEW b \in [Inode -> Pointer], Ends(b), NEW p \in Pointer
    PROVE  \E s : IsList(b, s, p)
<1>1. IsList(b, <<>>, NULL)
  BY DEF IsList
<1> DEFINE S == {q \in Inode : ~ \E s : IsList(b, s, q)}
<1>2. SUFFICES ASSUME S # {} PROVE FALSE
  BY <1>1 DEF Pointer
<1>3. PICK q \in S : b[q] \notin S
  BY <1>2 DEF Ends
<1>4. PICK t : IsList(b, t, b[q])
  BY <1>1, <1>3 DEF Pointer
<1>5. IsList(b, <<q>> \o t, q)
  BY <1>4, ListLonger
<1> QED
  BY <1>5

LEMMA ListUnique ==
    ASSUME NEW b \in [Inode -> Pointer], Ends(b), NEW p \in Pointer,
           NEW s, NEW t, IsList(b, s, p), IsList(b, t, p)
    PROVE  s = t
<1>1. ASSUME NEW u, NEW v, IsList(b, u, NULL), IsList(b, v, NULL) PROVE u = v
  BY <1>1 DEF IsList
<1> DEFINE S == {q \in Inode : \E u, v : /\ IsList(b, u, q) /\ IsList(b, v, q)
                                         /\ u # v}
<1>2. SUFFICES ASSUME S # {} PROVE FALSE
  BY <1>1 DEF Pointer
<1>3. PICK q \in S : b[q] \notin S
  BY <1>2 DEF Ends
<1>4. PICK u, v : IsList(b, u, q) /\ IsList(b, v, q) /\ u # v
  OBVIOUS
<1>5. /\ IsList(b, Tail(u), b[q]) /\ u = <<q>> \o Tail(u)
      /\ IsList(b, Tail(v), b[q]) /\ v = <<q>> \o Tail(v)
  BY <1>4, ListShorter
<1>6. Tail(u) = Tail(v)
  BY <1>1, <1>3, <1>5 DEF Pointer
<1> QED
  BY <1>4, <1>5, <1>6

\* What ListFrom gives, of any b.
Recursion(b, from) ==
    from = [s \in Pointer |-> IF s = NULL THEN <<>> ELSE <<s>> \o from[b[s]]]

LEMMA RecursionIsList ==
    ASSUME NEW b \in [Inode -> Pointer], Ends(b), NEW from, Recursion(b, from),
           NEW p \in Pointer
    PROVE  IsList(b, from[p], p)
<1>1. IsList(b, from[NULL], NULL)
  BY DEF IsList, Recursion, Pointer
<1> DEFINE S == {q \in Inode : ~ IsList(b, from[q], q)}
<1>2. SUFFICES ASSUME S # {} PROVE FALSE
  BY <1>1 DEF Pointer
<1>3. PICK q \in S : b[q] \notin S
  BY <1>2 DEF Ends
<1>4. IsList(b, from[b[q]], b[q])
  BY <1>1, <1>3 DEF Pointer
<1>5. IsList(b, <<q>> \o from[b[q]], q)
  BY <1>4, ListLonger
<1>6. from[q] = <<q>> \o from[b[q]]
  BY Sizes DEF Recursion, Pointer
<1> QED
  BY <1>5, <1>6

LEMMA RecursionExists ==
    ASSUME NEW b \in [Inode -> Pointer], Ends(b)
    PROVE  \E from : Recursion(b, from)
<1> DEFINE L(p) == CHOOSE s : IsList(b, s, p)
           from == [p \in Pointer |-> L(p)]
<1>1. \A p \in Pointer : IsList(b, L(p), p)
  BY ListExists
<1> HIDE DEF L
<1>2. ASSUME NEW p \in Pointer
      PROVE  from[p] = IF p = NULL THEN <<>> ELSE <<p>> \o from[b[p]]
  <2>1. CASE p = NULL
    BY <1>1, <2>1 DEF IsList
  <2>2. CASE p # NULL
    <3>1. p \in Inode /\ b[p] \in Pointer
      BY <2>2 DEF Pointer
    <3>2. IsList(b, L(b[p]), b[p])
      BY <3>1, <1>1
    <3>3. IsList(b, <<p>> \o L(b[p]), p)
      BY <3>1, <3>2, ListLonger
    <3>4. L(p) = <<p>> \o L(b[p])
      BY <3>1, <3>3, <1>1, ListUnique
    <3> QED
      BY <2>2, <3>1, <3>4
  <2> QED
    BY <2>1, <2>2
<1>3. Recursion(b, from)
  BY <1>2 DEF Recursion
<1> QED
  BY <1>3

ListOf(b, p) ==
    LET from[s \in Pointer] == IF s = NULL THEN <<>> ELSE <<s>> \o from[b[s]]
    IN  from[p]

LEMMA ListIs ==
    ASSUME NEW b \in [Inode -> Pointer], Ends(b), NEW p \in Pointer
    PROVE  IsList(b, ListOf(b, p), p)
<1> DEFINE from == CHOOSE f : Recursion(b, f)
<1>1. Recursion(b, from)
  BY RecursionExists
<1>2. ListOf(b, p) = from[p]
  BY DEF ListOf, Recursion
<1> QED
  BY <1>1, <1>2, RecursionIsList

LEMMA ListFromIs ==
    /\ \A p : ListFrom(p) = ListOf(brother, p)
    /\ \A p : ListFrom(p)' = ListOf(brother', p)
BY DEF ListFrom, ListOf

\* The lists of a well-linked table end.
LEMMA LinksEnd ==
    ASSUME LinkTypes, WellLinked
    PROVE  Ends(brother)
<1> SUFFICES ASSUME NEW S \in SUBSET Inode, S # {}, \A s \in S : brother[s] \in S
             PROVE  FALSE
  BY DEF Ends
<1> DEFINE size_(s) == Cardinality(Ahead(s))
           sizes == {size_(s) : s \in S}
<1>1. IsFiniteSet(Inode)
  BY FS_Interval, Sizes DEF Inode
<1>2. \A s \in S : IsFiniteSet(Ahead(s)) /\ size_(s) \in Nat
  BY <1>1, FS_Subset, FS_CardinalityType DEF Ahead
<1>3. PICK s \in S : \A t \in S : size_(s) <= size_(t)
  <2>1. sizes \in SUBSET Nat /\ sizes # {}
    BY <1>2
  <2> HIDE DEF size_
  <2>2. PICK n \in sizes : \A m \in sizes : n <= m
    <3> HIDE DEF sizes
    <3> QED
      BY <2>1, NatLeast
  <2> QED
    BY <2>2
<1>4. PICK q \in S : q = brother[s]
  OBVIOUS
<1>5. PICK dir \in Inode : s \in Sons(dir)
  <2>1. /\ brother[s] # NULL /\ s \in Inode
    BY Sizes
  <2>2. father[s] # NULL /\ Used(s) /\ s # ROOT_INODE
    BY <2>1 DEF WellLinked, LinksAgree, FreeIsBlank, RootIsFolder
  <2> QED
    BY <2>1, <2>2 DEF WellLinked, Listed, LinkTypes, Pointer
<1>6. q \in Pointer /\ s \notin Ahead(q) /\ Ahead(s) = {s} \cup Ahead(q)
  BY <1>4, <1>5, NotAheadOfItself, AheadStep DEF Pointer
<1>7. size_(s) = size_(q) + 1
  <2>1. IsFiniteSet(Ahead(q))
    BY <1>2
  <2>2. Ahead(q) \cup {s} = Ahead(s)
    BY <1>6
  <2>3. Cardinality(Ahead(q) \cup {s}) = Cardinality(Ahead(q)) + 1
    BY <1>6, <2>1, FS_AddElement
  <2> QED
    BY <2>2, <2>3
<1> HIDE DEF size_
<1> QED
  BY <1>2, <1>3, <1>7

\* The sequence of a list.
LEMMA SequenceIs ==
    ASSUME LinkTypes, WellLinked, NEW p \in Pointer
    PROVE  IsList(brother, ListFrom(p), p)
BY LinksEnd, ListIs, ListFromIs DEF LinkTypes

\* Its members are those of the list.
LEMMA MembersAre ==
    ASSUME LinkTypes, NEW p \in Pointer, NEW s, IsList(brother, s, p)
    PROVE  \A i : i \in Ahead(p) <=> \E k \in 1 .. Len(s) : s[k] = i
<1>1. s \in Seq(Inode) /\ Len(s) \in Nat
  BY DEF IsList
<1> DEFINE M == {s[k] : k \in 1 .. Len(s)}
<1>2. M \in SUBSET Inode
  BY <1>1
<1>3. p \in M \cup {NULL}
  BY <1>1 DEF IsList
<1>4. ASSUME NEW i \in M PROVE brother[i] \in M \cup {NULL}
  <2>1. PICK k \in 1 .. Len(s) : i = s[k]
    OBVIOUS
  <2>2. CASE k = Len(s)
    BY <2>1, <2>2, <1>1 DEF IsList
  <2>3. CASE k # Len(s)
    <3>1. k \in 1 .. Len(s) - 1 /\ k + 1 \in 1 .. Len(s)
      BY <2>3, <1>1
    <3>2. s[k + 1] = brother[i]
      BY <2>1, <3>1 DEF IsList
    <3> QED
      BY <3>1, <3>2
  <2> QED
    BY <2>2, <2>3
<1>5. Ahead(p) \subseteq M
  <2> HIDE DEF M
  <2> QED
    BY <1>2, <1>3, <1>4, AheadInduction
<1> DEFINE Out == {k \in 1 .. Len(s) : s[k] \notin Ahead(p)}
<1>6. Out = {}
  <2> SUFFICES ASSUME Out # {} PROVE FALSE
    OBVIOUS
  <2>1. PICK k \in Out : \A m \in Out : k <= m
    <3>1. Out \in SUBSET Nat
      OBVIOUS
    <3> HIDE DEF Out
    <3> QED
      BY <3>1, NatLeast
  <2>2. p # NULL /\ s[1] = p
    BY <1>1 DEF IsList
  <2>3. k # 1
    BY <2>2, AheadClosed
  <2>4. k - 1 \in 1 .. Len(s) - 1 /\ k - 1 \in 1 .. Len(s) /\ k - 1 \notin Out
    BY <2>1, <2>3, <1>1
  <2>5. s[(k - 1) + 1] = brother[s[k - 1]]
    BY <2>4 DEF IsList
  <2>6. s[k] \in Inode /\ s[k] = brother[s[k - 1]]
    BY <2>5, <1>1
  <2> QED
    BY <2>4, <2>6, AheadClosed, Sizes
<1> QED
  BY <1>5, <1>6

-----------------------------------------------------------------------------
(* The sequences of sons.                                                  *)

SonsRight == \A i \in Inode : IsList(brother, sons[i], first_son[i])

LEMMA SonsAre == LinkTypes /\ WellLinked => SonsRight
BY SequenceIs DEF SonsRight, sons, LinkTypes

LEMMA SonsStay == LinkTypes' /\ WellLinked' => SonsRight'
<1>1. LinkTypes /\ WellLinked => SonsRight
  BY SonsAre
<1> QED
  BY <1>1, PTL

LEMMA EndsStay == LinkTypes' /\ WellLinked' => Ends(brother')
<1>1. LinkTypes /\ WellLinked => Ends(brother)
  BY LinksEnd
<1>2. (LinkTypes /\ WellLinked => Ends(brother))'
  BY <1>1, PTL
<1> QED
  BY <1>2

\* A folder's sequence holds its sons.
LEMMA SonsListed ==
    ASSUME LinkTypes, WellLinked, NEW dir \in Inode
    PROVE  /\ sons[dir] \in Seq(Inode)
           /\ \A i : i \in Sons(dir) <=> \E k \in 1 .. Len(sons[dir]) : sons[dir][k] = i
<1>1. IsList(brother, sons[dir], first_son[dir]) /\ first_son[dir] \in Pointer
  BY SonsAre DEF SonsRight, LinkTypes
<1> QED
  BY <1>1, MembersAre, SMTT(30) DEF Sons, IsList

\* No inode is twice in a list.
LEMMA ListApart ==
    ASSUME NEW b \in [Inode -> Pointer], Ends(b), NEW p, NEW s, IsList(b, s, p),
           NEW j \in 1 .. Len(s), NEW k \in 1 .. Len(s), s[j] = s[k]
    PROVE  j = k
<1>1. ASSUME NEW l \in 1 .. Len(s), NEW m \in 1 .. Len(s), l < m, s[l] = s[m]
      PROVE  FALSE
  <2> DEFINE S == {s[n] : n \in l .. m - 1}
  <2>1. s \in Seq(Inode) /\ S \in SUBSET Inode /\ S # {}
    BY <1>1 DEF IsList
  <2>2. ASSUME NEW n \in l .. m - 1 PROVE b[s[n]] \in S
    <3>1. n \in 1 .. Len(s) - 1
      BY <1>1, <2>1
    <3>2. b[s[n]] = s[n + 1]
      BY <3>1 DEF IsList
    <3> QED
      BY <1>1, <3>2
  <2>3. \A i \in S : b[i] \in S
    BY <2>2
  <2> HIDE DEF S
  <2> QED
    BY <2>1, <2>3 DEF Ends
<1> QED
  BY <1>1

-----------------------------------------------------------------------------
(* Looking up a name.                                                      *)

\* r is the first in the list l with that name.
FirstIs(token, l, r) ==
    \/ r = NULL /\ \A k \in 1 .. Len(l) : name[l[k]] # token
    \/ \E k \in 1 .. Len(l) : /\ r = l[k] /\ name[r] = token
                             /\ \A j \in 1 .. k - 1 : name[l[j]] # token

LEMMA FirstUnique ==
    ASSUME NEW token, NEW l \in Seq(Inode), NEW q, NEW r,
           FirstIs(token, l, q), FirstIs(token, l, r)
    PROVE  q = r
<1>1. ASSUME NEW j \in 1 .. Len(l), NEW k \in 1 .. Len(l),
             name[l[j]] = token, name[l[k]] = token,
             \A i \in 1 .. j - 1 : name[l[i]] # token,
             \A i \in 1 .. k - 1 : name[l[i]] # token
      PROVE  j = k
  BY <1>1
<1> QED
  BY <1>1 DEF FirstIs

LEMMA FindFirst ==
    ASSUME LinkTypes, WellLinked, NEW dir \in Inode, NEW token
    PROVE  FirstIs(token, sons[dir], Store!Find(dir, token))
<1> DEFINE named == {k \in 1 .. Len(sons[dir]) : name[sons[dir][k]] = token}
<1>1. Store!Find(dir, token) =
        IF named = {} THEN NULL ELSE sons[dir][Store!Min(named)]
  BY DEF Store!Find
<1>2. sons[dir] \in Seq(Inode)
  BY SonsListed
<1>3. CASE named = {}
  BY <1>1, <1>3 DEF FirstIs
<1>4. CASE named # {}
  <2>1. PICK k \in named : \A j \in named : k <= j
    <3>1. named \in SUBSET Nat
      BY <1>2
    <3> HIDE DEF named
    <3> QED
      BY <3>1, <1>4, NatLeast
  <2>2. Store!Min(named) \in named /\ \A j \in named : Store!Min(named) <= j
    <3> HIDE DEF named
    <3> QED
      BY <2>1 DEF Store!Min
  <2>3. PICK m \in named : m = Store!Min(named) /\ \A j \in named : m <= j
    BY <2>2
  <2>4. m \in 1 .. Len(sons[dir]) /\ \A j \in 1 .. m - 1 : name[sons[dir][j]] # token
    BY <1>2, <2>3
  <2> QED
    BY <1>1, <1>4, <2>3, <2>4 DEF FirstIs
<1> QED
  BY <1>3, <1>4

\* The recursion of get_son_inode.
Lookup(token, from) ==
    from = [s \in Pointer |->
              IF s = NULL THEN NULL
              ELSE IF name[s] = token THEN s ELSE from[brother[s]]]

\* One step of it.
LEMMA FirstStep ==
    ASSUME NEW token, NEW q \in Inode, NEW t, t \in Seq(Inode), NEW r,
           name[q] # token, FirstIs(token, t, r)
    PROVE  FirstIs(token, <<q>> \o t, r)
<1> DEFINE s == <<q>> \o t
<1>1. /\ s \in Seq(Inode) /\ Len(s) = Len(t) + 1 /\ s[1] = q
      /\ \A k \in 1 .. Len(s) : k # 1 => s[k] = t[k - 1]
      /\ \A k \in 1 .. Len(t) : s[k + 1] = t[k]
      /\ Len(t) \in Nat
  OBVIOUS
<1> HIDE DEF s
<1>2. ASSUME r = NULL, \A k \in 1 .. Len(t) : name[t[k]] # token
      PROVE  FirstIs(token, s, r)
  <2>1. ASSUME NEW k \in 1 .. Len(s) PROVE name[s[k]] # token
    <3>1. CASE k = 1
      BY <3>1, <1>1
    <3>2. CASE k # 1
      <4>1. k - 1 \in 1 .. Len(t)
        BY <3>2, <1>1
      <4> QED
        BY <4>1, <3>2, <1>1, <1>2
    <3> QED
      BY <3>1, <3>2
  <2> QED
    BY <1>2, <2>1 DEF FirstIs
<1>3. ASSUME NEW k \in 1 .. Len(t), r = t[k], name[r] = token,
             \A j \in 1 .. k - 1 : name[t[j]] # token
      PROVE  FirstIs(token, s, r)
  <2>1. k + 1 \in 1 .. Len(s) /\ s[k + 1] = r
    BY <1>1, <1>3
  <2>2. ASSUME NEW j \in 1 .. (k + 1) - 1 PROVE name[s[j]] # token
    <3>1. CASE j = 1
      BY <3>1, <1>1
    <3>2. CASE j # 1
      <4>1. j - 1 \in 1 .. k - 1 /\ j \in 1 .. Len(s)
        BY <3>2, <1>1
      <4> QED
        BY <4>1, <3>2, <1>1, <1>3
    <3> QED
      BY <3>1, <3>2
  <2> QED
    BY <1>3, <2>1, <2>2 DEF FirstIs
<1>4. FirstIs(token, s, r)
  BY <1>2, <1>3 DEF FirstIs
<1> QED
  BY <1>4 DEF s

LEMMA FirstNow ==
    ASSUME NEW token, NEW q \in Inode, NEW t, t \in Seq(Inode), name[q] = token
    PROVE  FirstIs(token, <<q>> \o t, q)
<1> DEFINE s == <<q>> \o t
<1>1. 1 \in 1 .. Len(s) /\ s[1] = q
  OBVIOUS
<1> HIDE DEF s
<1>2. FirstIs(token, s, q)
  BY <1>1 DEF FirstIs
<1> QED
  BY <1>2 DEF s

LEMMA FirstExists ==
    ASSUME NEW token, NEW l \in Seq(Inode)
    PROVE  \E r \in Pointer : FirstIs(token, l, r)
<1> DEFINE named == {k \in 1 .. Len(l) : name[l[k]] = token}
<1>1. CASE named = {}
  BY <1>1 DEF FirstIs, Pointer
<1>2. CASE named # {}
  <2>1. PICK k \in named : \A j \in named : k <= j
    <3>1. named \in SUBSET Nat
      OBVIOUS
    <3> HIDE DEF named
    <3> QED
      BY <3>1, <1>2, NatLeast
  <2>2. \A j \in 1 .. k - 1 : name[l[j]] # token
    BY <2>1
  <2> QED
    BY <2>1, <2>2 DEF FirstIs, Pointer
<1> QED
  BY <1>1, <1>2

LEMMA LookupExists ==
    ASSUME LinkTypes, WellLinked, NEW token
    PROVE  \E from : Lookup(token, from)
<1> DEFINE L(p) == ListFrom(p)
           R(p) == CHOOSE r : FirstIs(token, L(p), r)
           from == [p \in Pointer |-> R(p)]
<1>1. Ends(brother) /\ brother \in [Inode -> Pointer]
  BY LinksEnd DEF LinkTypes
<1>2. \A p \in Pointer : IsList(brother, L(p), p) /\ L(p) \in Seq(Inode)
  BY SequenceIs DEF IsList
<1> HIDE DEF L
<1>3. \A p \in Pointer : FirstIs(token, L(p), R(p))
  BY <1>2, FirstExists
<1> HIDE DEF R
<1>4. ASSUME NEW p \in Pointer
      PROVE  from[p] = IF p = NULL THEN NULL
                       ELSE IF name[p] = token THEN p ELSE from[brother[p]]
  <2>1. CASE p = NULL
    BY <1>2, <1>3, <2>1 DEF IsList, FirstIs
  <2>2. CASE p # NULL
    <3>1. p \in Inode /\ brother[p] \in Pointer
      BY <2>2, <1>1 DEF Pointer
    <3>2. L(p) = <<p>> \o L(brother[p])
      <4>1. IsList(brother, L(brother[p]), brother[p])
        BY <3>1, <1>2
      <4>2. IsList(brother, <<p>> \o L(brother[p]), p)
        BY <3>1, <4>1, <1>1, ListLonger
      <4> QED
        BY <4>2, <1>1, <1>2, ListUnique
    <3>3. CASE name[p] = token
      <4>1. FirstIs(token, L(p), p)
        BY <3>1, <3>2, <3>3, <1>2, FirstNow
      <4> QED
        BY <4>1, <2>2, <3>3, <1>2, <1>3, FirstUnique
    <3>4. CASE name[p] # token
      <4>1. FirstIs(token, L(p), R(brother[p]))
        BY <3>1, <3>2, <3>4, <1>2, <1>3, FirstStep
      <4>2. R(p) = R(brother[p])
        BY <4>1, <1>2, <1>3, FirstUnique
      <4> QED
        BY <4>2, <3>1, <2>2, <3>4
    <3> QED
      BY <3>3, <3>4
  <2> QED
    BY <2>1, <2>2
<1>5. Lookup(token, from)
  BY <1>4 DEF Lookup
<1> QED
  BY <1>5

LEMMA LookupIsFirst ==
    ASSUME LinkTypes, WellLinked, NEW token, NEW from, Lookup(token, from),
           NEW p \in Pointer
    PROVE  FirstIs(token, ListFrom(p), from[p])
<1>1. Ends(brother) /\ brother \in [Inode -> Pointer]
  BY LinksEnd DEF LinkTypes
<1>2. \A i \in Pointer : /\ IsList(brother, ListFrom(i), i)
                         /\ ListFrom(i) \in Seq(Inode)
  BY SequenceIs DEF IsList
<1> DEFINE Wrong == {q \in Inode : ~ FirstIs(token, ListFrom(q), from[q])}
<1>3. FirstIs(token, ListFrom(NULL), from[NULL])
  BY <1>2 DEF Lookup, FirstIs, IsList, Pointer
<1>4. SUFFICES ASSUME Wrong # {} PROVE FALSE
  BY <1>3 DEF Pointer
<1>5. PICK q \in Wrong : brother[q] \notin Wrong
  BY <1>1, <1>4 DEF Ends
<1>6. brother[q] \in Pointer /\ FirstIs(token, ListFrom(brother[q]), from[brother[q]])
  BY <1>1, <1>3, <1>5 DEF Pointer
<1>7. ListFrom(q) = <<q>> \o ListFrom(brother[q])
  <2>1. q \in Pointer /\ IsList(brother, <<q>> \o ListFrom(brother[q]), q)
    BY <1>1, <1>2, <1>6, ListLonger DEF Pointer
  <2> QED
    BY <2>1, <1>1, <1>2, ListUnique
<1>8. from[q] = IF name[q] = token THEN q ELSE from[brother[q]]
  BY Sizes DEF Lookup, Pointer
<1> QED
  BY <1>2, <1>6, <1>7, <1>8, FirstNow, FirstStep

\* get_son_inode is the search of FileStore.
LEMMA FindIs ==
    ASSUME LinkTypes, WellLinked, NEW dir \in Inode, NEW token
    PROVE  get_son_inode(dir, token) = Store!Find(dir, token)
<1> DEFINE from == CHOOSE f : Lookup(token, f)
<1>1. Lookup(token, from)
  BY LookupExists
<1>2. get_son_inode(dir, token) = from[first_son[dir]]
  BY DEF get_son_inode, Lookup
<1> HIDE DEF from
<1>3. FirstIs(token, sons[dir], from[first_son[dir]])
  BY <1>1, LookupIsFirst DEF LinkTypes, sons
<1> QED
  BY <1>2, <1>3, FindFirst, FirstUnique, SonsListed

-----------------------------------------------------------------------------
(* Resolving a path.                                                       *)

\* What a lookup finds is a son.
LEMMA FindSon ==
    ASSUME LinkTypes, WellLinked, NEW dir \in Inode, NEW token,
           NEW r, r = Store!Find(dir, token)
    PROVE  /\ r \in Pointer
           /\ r # NULL => Used(r) /\ r \in Sons(dir) /\ name[r] = token
<1>1. FirstIs(token, sons[dir], r)
  BY FindFirst
<1>2. r # NULL => r \in Sons(dir) /\ name[r] = token
  BY <1>1, SonsListed DEF FirstIs
<1>3. r # NULL => r \in Inode /\ Used(r)
  BY <1>2, SonsKnowFather DEF WellLinked, Sons, Ahead
<1> QED
  BY <1>2, <1>3 DEF Pointer

\* One step of parse_path and of Resolve.
Step(path, here, k) ==
    LET next == IF here = NULL \/ path[k] = TooLong THEN NULL
                ELSE IF path[k] = "" THEN here
                ELSE get_son_inode(here, path[k])
    IN  IF next = NULL THEN NULL
        ELSE IF \/ type[next] = "EMPTY"
                \/ type[next] = "FILE" /\ k < Len(path)
        THEN NULL ELSE next

Enter(n, token) ==
    IF n = NULL \/ type[n] # "FOLDER" THEN NULL
    ELSE IF token = "" THEN n ELSE Store!Find(n, token)

Parses(path, after) ==
    after = [k \in 0 .. Len(path) |->
               IF k = 0 THEN ROOT_INODE ELSE Step(path, after[k - 1], k)]

Resolves(path, after) ==
    after = [k \in 0 .. Len(path) |->
               IF k = 0 THEN ROOT_INODE ELSE Enter(after[k - 1], path[k])]

LEMMA StepIs ==
    ASSUME LinkTypes, WellLinked, NEW path \in Paths,
           NEW k \in 1 .. Len(path), NEW here \in Pointer
    PROVE  /\ Step(path, here, k) \in Pointer
           /\ Enter(here, path[k]) \in Pointer
<1>1. here # NULL => here \in Inode
  BY DEF Pointer
<1>2. here # NULL => get_son_inode(here, path[k]) \in Pointer
                     /\ Store!Find(here, path[k]) \in Pointer
  BY <1>1, FindIs, FindSon
<1>3. Enter(here, path[k]) \in Pointer
  BY <1>2 DEF Enter, Pointer
<1>4. Step(path, here, k) \in Pointer
  BY <1>2 DEF Step, Pointer
<1> QED
  BY <1>3, <1>4

LEMMA ParsesExists ==
    ASSUME LinkTypes, WellLinked, NEW path \in Paths
    PROVE  /\ \E after : Parses(path, after)
           /\ \E after : Resolves(path, after)
<1>1. PICK n \in Nat : n = Len(path)
  BY ArgumentsAssumption
<1> DEFINE V == [x \in Pointer \X (1 .. n) |-> Step(path, x[1], x[2])]
           S == [x \in Pointer \X (1 .. n) |-> Enter(x[1], path[x[2]])]
<1>2. \A p \in Pointer, k \in 1 .. n :
         /\ Step(path, p, k) \in Pointer /\ Enter(p, path[k]) \in Pointer
         /\ V[<<p, k>>] = Step(path, p, k) /\ S[<<p, k>>] = Enter(p, path[k])
  BY <1>1, StepIs
<1>3. V \in [Pointer \X (1 .. n) -> Pointer] /\ S \in [Pointer \X (1 .. n) -> Pointer]
  BY <1>1, StepIs
<1> HIDE DEF V, S
<1>4. ROOT_INODE \in Pointer
  BY Sizes DEF Pointer
<1>5. \A F \in Rules(Pointer, n) :
         \E h \in [0 .. n -> Pointer] : Follows(h, n, ROOT_INODE, F)
  BY <1>4, Steps
<1>6. PICK f \in [0 .. n -> Pointer] :
         f[0] = ROOT_INODE /\ \A k \in 1 .. n : f[k] = V[<<f[k - 1], k>>]
  BY <1>3, <1>5 DEF Rules, Follows
<1>7. PICK g \in [0 .. n -> Pointer] :
         g[0] = ROOT_INODE /\ \A k \in 1 .. n : g[k] = S[<<g[k - 1], k>>]
  BY <1>3, <1>5 DEF Rules, Follows
<1>8. ASSUME NEW k \in 0 .. n
      PROVE  /\ f[k] = IF k = 0 THEN ROOT_INODE ELSE Step(path, f[k - 1], k)
             /\ g[k] = IF k = 0 THEN ROOT_INODE ELSE Enter(g[k - 1], path[k])
  <2>1. CASE k = 0
    BY <2>1, <1>6, <1>7
  <2>2. CASE k # 0
    <3>1. k \in 1 .. n /\ k - 1 \in 0 .. n
      BY <2>2
    <3>2. f[k - 1] \in Pointer /\ g[k - 1] \in Pointer
      BY <3>1
    <3> QED
      BY <3>1, <3>2, <2>2, <1>2, <1>6, <1>7
  <2> QED
    BY <2>1, <2>2
<1>9. Parses(path, f)
  BY <1>1, <1>8 DEF Parses
<1>10. Resolves(path, g)
  BY <1>1, <1>8 DEF Resolves
<1> QED
  BY <1>9, <1>10

\* They agree, but for a file before the end of the path: parse_path gives up
\* there, Resolve one token later.
Agree(path, k, here, there) ==
    /\ here \in Pointer /\ there \in Pointer
    /\ here # NULL => Used(here)
    /\ there # NULL => Used(there)
    /\ here = IF there # NULL /\ type[there] = "FILE" /\ k < Len(path) THEN NULL
              ELSE there

LEMMA StepAgrees ==
    ASSUME LinkTypes, WellLinked, name \in [Inode -> Name],
           NEW path \in Paths, NEW k \in 1 .. Len(path),
           NEW here, NEW there, Agree(path, k - 1, here, there)
    PROVE  Agree(path, k, Step(path, here, k), Enter(there, path[k]))
<1>1. Len(path) \in Nat /\ path[k] \in Token /\ k - 1 < Len(path)
  BY ArgumentsAssumption
<1>2. Step(path, here, k) \in Pointer /\ Enter(there, path[k]) \in Pointer
  BY StepIs DEF Agree
<1>3. CASE there = NULL
  BY <1>2, <1>3 DEF Agree, Step, Enter
<1>4. CASE there # NULL /\ type[there] # "FOLDER"
  <2>1. type[there] = "FILE" /\ here = NULL
    BY <1>1, <1>4 DEF Agree, Used, LinkTypes, Pointer
  <2> QED
    BY <2>1, <1>2, <1>4 DEF Agree, Step, Enter
<1>5. CASE there # NULL /\ type[there] = "FOLDER"
  <2>1. here = there /\ there \in Inode /\ there # NULL /\ Used(there)
    BY <1>5 DEF Agree, Pointer, Used
  <2>2. CASE path[k] = ""
    <3>1. path[k] # TooLong
      BY <2>2, ArgumentsAssumption DEF Name
    <3> QED
      BY <2>1, <2>2, <3>1, <1>2, <1>5 DEF Agree, Step, Enter, Used
  <2>3. CASE path[k] # ""
    <3>1. PICK r : r = Store!Find(there, path[k])
      OBVIOUS
    <3>2. /\ r \in Pointer /\ get_son_inode(there, path[k]) = r
          /\ r # NULL => Used(r) /\ name[r] = path[k]
      BY <2>1, <3>1, FindIs, FindSon
    <3>3. r # NULL => path[k] # TooLong
      BY <3>2, ArgumentsAssumption DEF LinkTypes, Pointer
    <3>4. Enter(there, path[k]) = r
      BY <2>1, <2>3, <3>1, <1>5 DEF Enter
    <3>5. Step(path, here, k) = IF r = NULL THEN NULL
             ELSE IF type[r] = "EMPTY" \/ (type[r] = "FILE" /\ k < Len(path))
             THEN NULL ELSE r
      <4>1. CASE path[k] = TooLong
        <5>1. r = NULL /\ Step(path, here, k) = NULL
          BY <4>1, <3>3 DEF Step
        <5> QED
          BY <5>1
      <4>2. CASE path[k] # TooLong
        <5>1. get_son_inode(here, path[k]) = r /\ here # NULL
          BY <2>1, <3>2
        <5>2. CASE r = NULL
          BY <5>1, <5>2, <4>2, <2>3 DEF Step
        <5>3. CASE r # NULL
          BY <5>1, <5>3, <4>2, <2>3 DEF Step
        <5> QED
          BY <5>2, <5>3
      <4> QED
        BY <4>1, <4>2
    <3> QED
      BY <3>2, <3>4, <3>5 DEF Agree, Used, Pointer
  <2> QED
    BY <2>2, <2>3
<1> QED
  BY <1>3, <1>4, <1>5

\* parse_path is the resolution of FileStore, and what it gives is in use.
LEMMA ParseIs ==
    ASSUME LinkTypes, WellLinked, name \in [Inode -> Name], NEW path \in Paths
    PROVE  /\ parse_path(path) = Store!Resolve(path)
           /\ parse_path(path) \in Pointer
           /\ parse_path(path) # NULL => Used(parse_path(path))
<1> DEFINE n == Len(path)
           f == CHOOSE after : Parses(path, after)
           g == CHOOSE after : Resolves(path, after)
           Wrong == {k \in 0 .. n : ~ Agree(path, k, f[k], g[k])}
<1>1. Parses(path, f) /\ Resolves(path, g)
  BY ParsesExists
<1>2. parse_path(path) = IF path = <<>> THEN NULL ELSE f[n]
  BY DEF parse_path, Parses, Step
<1>3. Store!Resolve(path) = IF path = <<>> THEN NULL ELSE g[n]
  BY DEF Store!Resolve, Resolves, Enter
<1> HIDE DEF f, g
<1>4. path \in Seq(Token) /\ n \in Nat
  BY ArgumentsAssumption
<1>5. /\ f[0] = ROOT_INODE /\ g[0] = ROOT_INODE
      /\ \A k \in 1 .. n : /\ f[k] = Step(path, f[k - 1], k)
                           /\ g[k] = Enter(g[k - 1], path[k])
  <2> SUFFICES ASSUME NEW k \in 0 .. n
               PROVE  /\ f[k] = IF k = 0 THEN ROOT_INODE ELSE Step(path, f[k - 1], k)
                      /\ g[k] = IF k = 0 THEN ROOT_INODE ELSE Enter(g[k - 1], path[k])
    BY <1>4
  <2> QED
    BY <1>1 DEF Parses, Resolves
<1>6. Wrong = {}
  <2> SUFFICES ASSUME Wrong # {} PROVE FALSE
    OBVIOUS
  <2>1. PICK k \in Wrong : \A m \in Wrong : k <= m
    <3>1. Wrong \in SUBSET Nat
      OBVIOUS
    <3> HIDE DEF Wrong
    <3> QED
      BY <3>1, NatLeast
  <2>2. Agree(path, 0, ROOT_INODE, ROOT_INODE)
    BY Sizes DEF Agree, Pointer, Used, WellLinked, RootIsFolder
  <2>3. k # 0
    BY <2>2, <1>5
  <2>4. k \in 1 .. n /\ k - 1 \in 0 .. n /\ k - 1 \notin Wrong
    BY <2>1, <2>3, <1>4
  <2>5. Agree(path, k, f[k], g[k])
    BY <2>4, <1>5, StepAgrees
  <2> QED
    BY <2>5
<1>7. path # <<>> => Agree(path, n, f[n], g[n])
  BY <1>4, <1>6
<1> QED
  BY <1>2, <1>3, <1>4, <1>7 DEF Agree, Pointer

-----------------------------------------------------------------------------
(* What is below an inode, and what comes after it.                        *)

\* The sequence of sons as a set.
LEMMA SonsSet ==
    ASSUME LinkTypes, WellLinked, NEW dir \in Inode
    PROVE  Store!ToSet(sons[dir]) = Sons(dir)
<1>1. /\ sons[dir] \in Seq(Inode)
      /\ \A i : i \in Sons(dir) <=> \E k \in 1 .. Len(sons[dir]) : sons[dir][k] = i
  BY SonsListed
<1>2. DOMAIN sons[dir] = 1 .. Len(sons[dir])
  BY <1>1
<1> QED
  BY <1>1, <1>2, Zenon DEF Store!ToSet

LEMMA BelowIs ==
    ASSUME LinkTypes, WellLinked, NothingLost, NEW top \in Inode, Used(top)
    PROVE  Store!Below(top) = Subtree(top)
<1> DEFINE Closed(S) == /\ top \in S
                       /\ \A m \in S : Sons(m) \subseteq S
<1>1. ASSUME NEW S \in SUBSET Inode
      PROVE  Closed(S) <=> (/\ top \in S
                            /\ \A m \in S : Store!ToSet(sons[m]) \subseteq S)
  BY SonsSet
<1>2. Store!Below(top) = {n \in Inode : \A S \in SUBSET Inode : Closed(S) => n \in S}
  <2> HIDE DEF Closed
  <2> QED
    BY <1>1 DEF Store!Below
<1>3. Subtree(top) \in SUBSET Inode
  BY DEF Subtree
<1>4. Closed(Subtree(top))
  <2>1. ASSUME NEW m \in Subtree(top), NEW i \in Sons(m) PROVE i \in Subtree(top)
    <3>1. m \in Inode /\ i \in Inode /\ Used(i) /\ father[i] = m
      BY <1>3, SonsKnowFather DEF WellLinked, Sons, Ahead
    <3>2. i # ROOT_INODE
      BY <3>1, Sizes DEF WellLinked, RootIsFolder
    <3> QED
      BY <3>1, <3>2, SubtreeComplete
  <2> QED
    BY <2>1, SubtreeClosed
<1>5. ASSUME NEW S \in SUBSET Inode, Closed(S), NEW d \in Subtree(top) PROVE d \in S
  <2> DEFINE R == {x \in S : x = top \/ (father[x] \in S /\ x \in Sons(father[x]))}
  <2>1. R \in SUBSET Inode /\ top \in R
    BY <1>5
  <2>2. ASSUME NEW i \in R, first_son[i] # NULL PROVE first_son[i] \in R
    <3>1. first_son[i] \in Pointer /\ first_son[i] \in Inode
      BY <2>2 DEF LinkTypes, Pointer
    <3>2. first_son[i] \in Sons(i) /\ father[first_son[i]] = i
      BY <3>1, <2>2, AheadClosed DEF Sons, WellLinked, LinksAgree
    <3> QED
      BY <3>2, <1>5
  <2>3. ASSUME NEW i \in R, i # top, brother[i] # NULL PROVE brother[i] \in R
    <3>1. father[i] \in S /\ i \in Sons(father[i]) /\ father[i] \in Inode
      BY <2>3
    <3>2. first_son[father[i]] \in Pointer /\ brother[i] \in Sons(father[i])
      BY <3>1, <2>3, AheadClosed DEF LinkTypes, Sons
    <3>3. father[brother[i]] = father[i]
      BY <2>3 DEF WellLinked, LinksAgree
    <3> QED
      BY <3>1, <3>2, <3>3, <1>5
  <2> HIDE DEF R
  <2>4. d \in R
    BY <2>1, <2>2, <2>3, SubtreeInduction
  <2> QED
    BY <2>4 DEF R
<1> HIDE DEF Closed
<1> QED
  BY <1>2, <1>3, <1>4, <1>5

LEMMA AfterIs ==
    ASSUME LinkTypes, WellLinked, NEW n \in Inode
    PROVE  Store!After(n) = brother[n]
<1> DEFINE places(dir) == {k \in 1 .. Len(sons[dir]) - 1 : sons[dir][k] = n}
           next == UNION {{sons[dir][k + 1] : k \in places(dir)} : dir \in Inode}
<1>1. Store!After(n) = IF next = {} THEN NULL ELSE CHOOSE s \in next : TRUE
  BY DEF Store!After
<1>2. ASSUME NEW s \in next PROVE s = brother[n] /\ s \in Inode
  <2>1. PICK dir \in Inode : \E k \in places(dir) : s = sons[dir][k + 1]
    OBVIOUS
  <2>2. PICK k \in places(dir) : s = sons[dir][k + 1]
    BY <2>1
  <2>3. sons[dir] \in Seq(Inode) /\ sons[dir][k + 1] = brother[sons[dir][k]]
    BY SonsAre DEF SonsRight, IsList
  <2> QED
    BY <2>2, <2>3
<1>3. ASSUME brother[n] # NULL PROVE brother[n] \in next
  <2>1. father[n] # NULL /\ Used(n) /\ n # ROOT_INODE
    BY <1>3 DEF WellLinked, FreeIsBlank, LinksAgree, RootIsFolder
  <2>2. PICK dir \in Inode : n \in Sons(dir)
    BY <2>1 DEF WellLinked, Listed, LinkTypes, Pointer
  <2>3. PICK k \in 1 .. Len(sons[dir]) : sons[dir][k] = n
    BY <2>2, SonsListed
  <2>4. IsList(brother, sons[dir], first_son[dir]) /\ sons[dir] \in Seq(Inode)
    BY SonsAre DEF SonsRight, IsList
  <2>5. k # Len(sons[dir])
    BY <2>3, <2>4, <1>3 DEF IsList
  <2>6. k \in 1 .. Len(sons[dir]) - 1 /\ k \in places(dir)
    BY <2>3, <2>4, <2>5
  <2>7. sons[dir][k + 1] = brother[n]
    BY <2>3, <2>4, <2>6 DEF IsList
  <2> QED
    BY <2>6, <2>7
<1> HIDE DEF next
<1>4. CASE next = {}
  BY <1>1, <1>3, <1>4
<1>5. CASE next # {}
  BY <1>1, <1>2, <1>5
<1> QED
  BY <1>4, <1>5

-----------------------------------------------------------------------------
(* Creating.                                                               *)

\* A list whose links do not change stays.
LEMMA ListKept ==
    ASSUME NEW b, NEW c, NEW p, NEW s, IsList(b, s, p),
           \A k \in 1 .. Len(s) : c[s[k]] = b[s[k]]
    PROVE  IsList(c, s, p)
<1>1. s \in Seq(Inode) /\ Len(s) \in Nat /\ (s # <<>> => Len(s) \in 1 .. Len(s))
  BY DEF IsList
<1>2. \A k \in 1 .. Len(s) - 1 : k \in 1 .. Len(s)
  BY <1>1
<1> QED
  BY <1>1, <1>2 DEF IsList

LEMMA ListAppended ==
    ASSUME NEW b, NEW c, NEW p \in Inode, NEW s, IsList(b, s, p), NEW new \in Inode,
           \A k \in 1 .. Len(s) - 1 : c[s[k]] = b[s[k]],
           c[s[Len(s)]] = new, c[new] = NULL
    PROVE  IsList(c, Append(s, new), p)
<1>1. /\ s \in Seq(Inode) /\ Len(s) \in Nat \ {0} /\ s[1] = p /\ p # NULL
      /\ \A k \in 1 .. Len(s) - 1 : s[k + 1] = b[s[k]]
  BY Sizes DEF IsList
<1> DEFINE t == Append(s, new)
<1>2. /\ t \in Seq(Inode) /\ Len(t) = Len(s) + 1 /\ t # <<>>
      /\ \A k \in 1 .. Len(s) : t[k] = s[k]
      /\ t[Len(s) + 1] = new
  BY <1>1
<1> HIDE DEF t
<1>3. ASSUME NEW k \in 1 .. Len(t) - 1 PROVE t[k + 1] = c[t[k]]
  <2>1. CASE k = Len(s)
    BY <2>1, <1>1, <1>2
  <2>2. CASE k # Len(s)
    <3>1. k \in 1 .. Len(s) - 1 /\ k \in 1 .. Len(s) /\ k + 1 \in 1 .. Len(s)
      BY <2>2, <1>1, <1>2
    <3> QED
      BY <3>1, <1>1, <1>2
  <2> QED
    BY <2>1, <2>2
<1>4. t[1] = p /\ c[t[Len(t)]] = NULL
  BY <1>1, <1>2
<1>5. IsList(c, t, p)
  BY <1>1, <1>2, <1>3, <1>4 DEF IsList
<1> QED
  BY <1>5 DEF t

\* What is given of the lists after a step is right if they are lists then.
LEMMA SonsBecome ==
    ASSUME LinkTypes', WellLinked', NEW new, new \in [Inode -> Seq(Inode)],
           \A i \in Inode : IsList(brother', new[i], first_son'[i])
    PROVE  sons' = new
<1>1. PICK b : b = brother'
  OBVIOUS
<1>2. PICK f : f = first_son'
  OBVIOUS
<1>3. PICK s : s = sons'
  OBVIOUS
<1>4. Ends(b) /\ b \in [Inode -> Pointer] /\ f \in [Inode -> Pointer]
  BY <1>1, <1>2, EndsStay DEF LinkTypes
<1>5. \A i \in Inode : IsList(b, s[i], f[i])
  BY <1>1, <1>2, <1>3, SonsStay DEF SonsRight
<1>6. \A i \in Inode : IsList(b, new[i], f[i])
  BY <1>1, <1>2
<1>7. \A i \in Inode : s[i] = new[i]
  BY <1>4, <1>5, <1>6, ListUnique
<1>8. s = [i \in Inode |-> s[i]]
  BY <1>3 DEF sons
<1> QED
  BY <1>3, <1>7, <1>8

\* alloc_inode puts the new inode at the end of one list, and does nothing to
\* the others.
LEMMA AllocSons ==
    ASSUME LinkTypes, WellLinked, NothingLost, LinkTypes',
           NEW new \in Inode, NEW nm, NEW dir \in Inode, type[dir] = "FOLDER",
           NEW what \in {"FILE", "FOLDER"}, alloc_inode(new, nm, dir, what)
    PROVE  sons' = [sons EXCEPT ![dir] = Append(@, new)]
<1>1. WellLinked'
  BY AllocTree
<1>2. /\ ~Used(new) /\ brother[new] = NULL /\ first_son[new] = NULL /\ new # dir
  BY DEF alloc_inode, WellLinked, FreeIsBlank, Used
<1> DEFINE next == [sons EXCEPT ![dir] = Append(@, new)]
<1>3. /\ sons \in [Inode -> Seq(Inode)]
      /\ \A i \in Inode : IsList(brother, sons[i], first_son[i])
  BY SonsAre, SonsListed DEF SonsRight, sons
<1>4. /\ next \in [Inode -> Seq(Inode)] /\ next[dir] = Append(sons[dir], new)
      /\ \A i \in Inode : i # dir => next[i] = sons[i]
  BY <1>3
<1> HIDE DEF next
<1>5. \A i \in Inode : \A k \in 1 .. Len(sons[i]) :
         /\ sons[i][k] \in Inode /\ Used(sons[i][k]) /\ father[sons[i][k]] = i
  BY <1>3, SonsListed, SonsKnowFather DEF WellLinked
<1>6. CASE first_son[dir] = NULL
  <2>1. first_son' = [first_son EXCEPT ![dir] = new] /\ brother' = brother
    BY <1>6 DEF alloc_inode
  <2>2. ASSUME NEW i \in Inode, i # dir PROVE IsList(brother', next[i], first_son'[i])
    BY <2>1, <2>2, <1>3, <1>4 DEF LinkTypes
  <2>3. next[dir] = <<new>> /\ first_son'[dir] = new
    <3>1. sons[dir] = <<>> /\ first_son'[dir] = new
      BY <2>1, <1>3, <1>6 DEF IsList, LinkTypes
    <3> QED
      BY <3>1, <1>4
  <2>4. IsList(brother', <<new>>, new)
    BY <2>1, <1>2, Sizes DEF IsList
  <2> QED
    BY <2>2, <2>3, <2>4, <1>1, <1>4, SonsBecome DEF next
<1>7. CASE first_son[dir] # NULL
  <2>1. PICK last \in Inode : /\ IsLastChild(dir, last)
                              /\ brother' = [brother EXCEPT ![last] = new]
                              /\ first_son' = first_son
    BY <1>7 DEF alloc_inode
  <2>2. last \in Sons(dir) /\ brother[last] = NULL /\ Used(last) /\ father[last] = dir
    BY <2>1, SonsKnowFather DEF IsLastChild, WellLinked
  <2>3. /\ brother'[last] = new /\ brother'[new] = NULL
        /\ \A i \in Inode : i # last => brother'[i] = brother[i]
    BY <2>1, <2>2, <1>2 DEF LinkTypes
  <2>4. ASSUME NEW i \in Inode, i # dir PROVE IsList(brother', next[i], first_son'[i])
    <3>1. \A k \in 1 .. Len(sons[i]) : brother'[sons[i][k]] = brother[sons[i][k]]
      BY <2>2, <2>3, <2>4, <1>5
    <3> QED
      <4>1. IsList(brother', sons[i], first_son[i])
        BY <3>1, <1>3, ListKept
      <4> QED
        BY <4>1, <2>1, <2>4, <1>4
  <2>5. IsList(brother', next[dir], first_son'[dir])
    <3> DEFINE s == sons[dir]
    <3>1. PICK k \in 1 .. Len(s) : s[k] = last
      BY <2>2, SonsListed
    <3>2. s \in Seq(Inode) /\ IsList(brother, s, first_son[dir])
      BY <1>3
    <3>3. k = Len(s)
      <4>1. ASSUME k # Len(s) PROVE FALSE
        <5>1. k \in 1 .. Len(s) - 1 /\ k + 1 \in 1 .. Len(s)
          BY <4>1, <3>1, <3>2
        <5>2. s[k + 1] = NULL
          BY <5>1, <3>1, <3>2, <2>2 DEF IsList
        <5> QED
          BY <5>1, <5>2, <1>5, Sizes
      <4> QED
        BY <4>1
    <3>4. ASSUME NEW j \in 1 .. Len(s) - 1 PROVE brother'[s[j]] = brother[s[j]]
      <4>1. j \in 1 .. Len(s) /\ j + 1 \in 1 .. Len(s) /\ s[j + 1] = brother[s[j]]
        BY <3>2 DEF IsList
      <4>2. s[j] # last
        BY <4>1, <2>2, <1>5, Sizes
      <4> QED
        BY <4>1, <4>2, <2>3, <1>5
    <3>5. first_son[dir] \in Inode
      BY <1>7 DEF LinkTypes, Pointer
    <3> HIDE DEF s
    <3>6. IsList(brother', Append(s, new), first_son[dir])
      <4>1. brother'[s[Len(s)]] = new /\ brother'[new] = NULL
        BY <3>1, <3>3, <2>3
      <4> QED
        BY <4>1, <3>2, <3>4, <3>5, ListAppended, SMTT(30)
    <3> QED
      BY <3>6, <2>1, <1>4 DEF s
  <2> QED
    BY <2>4, <2>5, <1>1, <1>4, SonsBecome DEF next
<1> QED
  BY <1>6, <1>7

-----------------------------------------------------------------------------
(* Deleting.                                                               *)

LEMMA Removed ==
    ASSUME NEW s \in Seq(Inode), NEW k \in 1 .. Len(s), NEW r, r = Store!RemoveAt(s, k)
    PROVE  /\ r \in Seq(Inode) /\ Len(r) = Len(s) - 1
           /\ \A j \in 1 .. Len(r) : r[j] = IF j < k THEN s[j] ELSE s[j + 1]
<1> DEFINE u == SubSeq(s, 1, k - 1)
           v == SubSeq(s, k + 1, Len(s))
<1>1. Len(s) \in Nat
  OBVIOUS
<1>2. /\ u \in Seq(Inode) /\ Len(u) = k - 1
      /\ \A j \in 1 .. k - 1 : u[j] = s[j]
  BY <1>1
<1>3. /\ v \in Seq(Inode) /\ Len(v) = Len(s) - k
      /\ \A j \in 1 .. Len(s) - k : v[j] = s[k + j]
  BY <1>1
<1>4. r = u \o v
  BY DEF Store!RemoveAt
<1> HIDE DEF u, v
<1>5. /\ r \in Seq(Inode) /\ Len(r) = Len(u) + Len(v)
      /\ \A j \in 1 .. Len(u) + Len(v) : r[j] = IF j <= Len(u) THEN u[j] ELSE v[j - Len(u)]
  <2>1. \A x, y \in Seq(Inode) :
           /\ x \o y \in Seq(Inode) /\ Len(x \o y) = Len(x) + Len(y)
           /\ \A j \in 1 .. Len(x) + Len(y) :
                (x \o y)[j] = IF j <= Len(x) THEN x[j] ELSE y[j - Len(x)]
    OBVIOUS
  <2>2. PICK x \in Seq(Inode), y \in Seq(Inode) : x = u /\ y = v
    BY <1>2, <1>3
  <2>3. r = x \o y
    BY <2>2, <1>4
  <2> QED
    BY <2>1, <2>2, <2>3
<1>6. ASSUME NEW j \in 1 .. Len(r) PROVE r[j] = IF j < k THEN s[j] ELSE s[j + 1]
  <2>1. CASE j < k
    BY <2>1, <1>1, <1>2, <1>3, <1>5
  <2>2. CASE ~(j < k)
    <3>1. j - Len(u) \in 1 .. Len(s) - k /\ k + (j - Len(u)) = j + 1
      BY <2>2, <1>1, <1>2, <1>3, <1>5
    <3>2. r[j] = v[j - Len(u)]
      BY <2>2, <1>1, <1>2, <1>3, <1>5
    <3>3. v[j - Len(u)] = s[k + (j - Len(u))]
      BY <3>1, <1>3
    <3> QED
      BY <2>2, <3>1, <3>2, <3>3
  <2> QED
    BY <2>1, <2>2
<1> QED
  BY <1>1, <1>2, <1>3, <1>5, <1>6

\* A list in which a link leads past one inode.
LEMMA ListRemoved ==
    ASSUME NEW b, NEW c, NEW p \in Inode, NEW s, IsList(b, s, p),
           NEW k \in 1 .. Len(s),
           \A j \in 1 .. Len(s) : j # k /\ j # k - 1 => c[s[j]] = b[s[j]],
           k # 1 => c[s[k - 1]] = b[s[k]]
    PROVE  IsList(c, Store!RemoveAt(s, k), IF k = 1 THEN b[p] ELSE p)
<1>1. /\ s \in Seq(Inode) /\ Len(s) \in Nat \ {0} /\ s[1] = p /\ p # NULL
      /\ b[s[Len(s)]] = NULL
      /\ \A j \in 1 .. Len(s) - 1 : s[j + 1] = b[s[j]]
  BY Sizes DEF IsList
<1>2. \A j \in 1 .. Len(s) : s[j] \in Inode /\ s[j] # NULL
  BY <1>1, Sizes
<1>3. PICK r : r = Store!RemoveAt(s, k)
  OBVIOUS
<1>4. /\ r \in Seq(Inode) /\ Len(r) = Len(s) - 1
      /\ \A j \in 1 .. Len(r) : r[j] = IF j < k THEN s[j] ELSE s[j + 1]
  BY <1>1, <1>3, Removed
<1>5. CASE Len(s) = 1
  <2>1. r = <<>> /\ k = 1 /\ b[p] = NULL
    BY <1>1, <1>4, <1>5
  <2>2. Len(<<>>) = 0 /\ <<>> \in Seq(Inode)
    OBVIOUS
  <2>3. IsList(c, <<>>, NULL)
    BY <2>2 DEF IsList
  <2>4. NULL = IF k = 1 THEN b[p] ELSE p
    BY <2>1
  <2> QED
    BY <2>1, <2>3, <2>4, <1>3
<1>6. CASE Len(s) # 1
  <2>1. Len(r) \in Nat \ {0} /\ r # <<>>
    BY <1>1, <1>4, <1>6
  <2>2. r[1] = (IF k = 1 THEN b[p] ELSE p) /\ r[1] # NULL
    <3>1. 1 \in 1 .. Len(r) /\ 2 \in 1 .. Len(s) /\ 1 \in 1 .. Len(s) - 1
      BY <2>1, <1>4
    <3>2. s[1 + 1] = b[s[1]]
      BY <3>1, <1>1
    <3> QED
      BY <3>1, <3>2, <1>1, <1>2, <1>4
  <2>3. c[r[Len(r)]] = NULL
    <3>1. CASE k = Len(s)
      BY <3>1, <2>1, <1>1, <1>4
    <3>2. CASE k # Len(s)
      <4>1. r[Len(r)] = s[Len(s)] /\ Len(s) \in 1 .. Len(s) /\ Len(s) # k - 1
        BY <3>2, <2>1, <1>1, <1>4
      <4> QED
        BY <4>1, <3>2, <1>1
    <3> QED
      BY <3>1, <3>2
  <2>4. ASSUME NEW j \in 1 .. Len(r) - 1 PROVE r[j + 1] = c[r[j]]
    <3>1. /\ j \in 1 .. Len(r) /\ j + 1 \in 1 .. Len(r)
          /\ j \in 1 .. Len(s) - 1 /\ j + 1 \in 1 .. Len(s) - 1
          /\ j \in 1 .. Len(s) /\ j + 1 \in 1 .. Len(s)
      BY <2>1, <1>4
    <3>2. CASE j < k - 1
      <4>1. r[j] = s[j] /\ r[j + 1] = s[j + 1]
        BY <3>1, <3>2, <1>4
      <4>2. c[s[j]] = b[s[j]] /\ s[j + 1] = b[s[j]]
        BY <3>1, <3>2, <1>1
      <4> QED
        BY <4>1, <4>2
    <3>3. CASE j = k - 1
      <4>1. r[j] = s[k - 1] /\ r[j + 1] = s[k + 1] /\ k # 1 /\ k \in 1 .. Len(s) - 1
        BY <3>1, <3>3, <1>4
      <4>2. s[k + 1] = b[s[k]]
        BY <4>1, <1>1
      <4> QED
        BY <4>1, <4>2
    <3>4. CASE j >= k
      <4>1. r[j] = s[j + 1] /\ r[j + 1] = s[(j + 1) + 1]
        BY <3>1, <3>4, <1>4
      <4>2. c[s[j + 1]] = b[s[j + 1]] /\ s[(j + 1) + 1] = b[s[j + 1]]
        BY <3>1, <3>4, <1>1
      <4> QED
        BY <4>1, <4>2
    <3> QED
      BY <3>1, <3>2, <3>3, <3>4
  <2> QED
    BY <2>1, <2>2, <2>3, <2>4, <1>3, <1>4 DEF IsList
<1> QED
  BY <1>5, <1>6

LEMMA WithoutIs ==
    ASSUME LinkTypes, WellLinked, NEW dir \in Inode, NEW n
    PROVE  /\ n \notin Sons(dir) => Store!Without(sons[dir], n) = sons[dir]
           /\ n \in Sons(dir) =>
                \E k \in 1 .. Len(sons[dir]) :
                   /\ sons[dir][k] = n
                   /\ Store!Without(sons[dir], n) = Store!RemoveAt(sons[dir], k)
<1>1. n \notin Sons(dir) => Store!Without(sons[dir], n) = sons[dir]
  BY SonsSet DEF Store!Without
<1>2. ASSUME n \in Sons(dir)
      PROVE  \E k \in 1 .. Len(sons[dir]) :
                   /\ sons[dir][k] = n
                   /\ Store!Without(sons[dir], n) = Store!RemoveAt(sons[dir], k)
  <2>1. \E k \in 1 .. Len(sons[dir]) : sons[dir][k] = n
    BY <1>2, SonsListed
  <2>2. PICK k \in 1 .. Len(sons[dir]) :
           /\ sons[dir][k] = n
           /\ k = CHOOSE j \in 1 .. Len(sons[dir]) : sons[dir][j] = n
    BY <2>1
  <2>3. Store!Without(sons[dir], n) = Store!RemoveAt(sons[dir], k)
    BY <2>2, <1>2, SonsSet DEF Store!Without
  <2> QED
    BY <2>2, <2>3
<1> QED
  BY <1>1, <1>2

\* delete_inode takes one son out of one list, and empties those below it.
LEMMA DeleteSons ==
    ASSUME LinkTypes, WellLinked, NothingLost, LinkTypes', NEW top \in Inode,
           Used(top), top # ROOT_INODE, delete_inode(top)
    PROVE  sons' = [n \in Inode |-> IF n \in Subtree(top) THEN <<>>
                                    ELSE Store!Without(sons[n], top)]
<1> DEFINE T == Subtree(top)
           above == father[top]
           next == [n \in Inode |-> IF n \in T THEN <<>>
                                    ELSE Store!Without(sons[n], top)]
<1>1. WellLinked'
  BY DeleteTree
<1>2. /\ above \in Inode /\ above \notin T /\ above # NULL /\ top \in Sons(above)
      /\ ROOT_INODE \notin T /\ top \in T /\ T \ {ROOT_INODE} = T
  BY FatherAbove, SubtreeClosed, Sizes DEF WellLinked, Listed, LinkTypes, Pointer
<1>3. /\ sons \in [Inode -> Seq(Inode)]
      /\ \A i \in Inode : IsList(brother, sons[i], first_son[i])
  BY SonsAre, SonsListed DEF SonsRight, sons
<1>4. \A i \in Inode : \A k \in 1 .. Len(sons[i]) :
         /\ sons[i][k] \in Inode /\ sons[i][k] \in Sons(i) /\ father[sons[i][k]] = i
  BY <1>3, SonsListed, SonsKnowFather DEF WellLinked
<1>5. \A d \in T : d # top => father[d] \in T
  BY SubtreeFathers DEF WellLinked
<1>6. /\ \A i \in Inode : first_son'[i] =
            IF i \in T THEN NULL
            ELSE IF i = above /\ first_son[i] = top THEN brother[top]
            ELSE first_son[i]
      /\ \A i \in Inode : brother'[i] =
            IF i \in T THEN NULL
            ELSE IF first_son[above] # top /\ brother[i] = top /\ i \in Sons(above)
                 THEN brother[top]
            ELSE brother[i]
  BY <1>2 DEF delete_inode, Unhook
<1>7. ASSUME NEW i \in Inode, i \in T PROVE IsList(brother', next[i], first_son'[i])
  <2>1. next[i] = <<>> /\ first_son'[i] = NULL
    BY <1>6, <1>7
  <2>2. Len(<<>>) = 0 /\ <<>> \in Seq(Inode)
    OBVIOUS
  <2>3. IsList(brother', <<>>, NULL)
    BY <2>2 DEF IsList
  <2> HIDE DEF next
  <2> QED
    BY <2>1, <2>3
<1>8. ASSUME NEW i \in Inode, i \notin T, i # above
      PROVE  IsList(brother', next[i], first_son'[i]) /\ next[i] \in Seq(Inode)
  <2>1. top \notin Sons(i)
    BY <1>8, SonsKnowFather DEF WellLinked
  <2>2. next[i] = sons[i]
    BY <2>1, <1>8, WithoutIs
  <2>3. ASSUME NEW k \in 1 .. Len(sons[i])
        PROVE  brother'[sons[i][k]] = brother[sons[i][k]]
    <3>1. PICK x \in Inode : x = sons[i][k] /\ x \in Sons(i) /\ father[x] = i
      BY <1>4
    <3>2. x \notin T
      BY <3>1, <2>1, <1>5, <1>8
    <3>3. x \notin Sons(above)
      BY <3>1, <1>2, <1>8, SonsKnowFather DEF WellLinked
    <3> QED
      BY <3>1, <3>2, <3>3, <1>6
  <2>4. IsList(brother', sons[i], first_son[i])
    BY <2>3, <1>3, ListKept
  <2>5. first_son'[i] = first_son[i]
    BY <1>6, <1>8
  <2> HIDE DEF next
  <2>6. next[i] \in Seq(Inode)
    BY <2>2, <1>3
  <2>7. IsList(brother', next[i], first_son'[i])
    BY <2>2, <2>4, <2>5, Zenon
  <2> QED
    BY <2>6, <2>7
<1>9. IsList(brother', next[above], first_son'[above]) /\ next[above] \in Seq(Inode)
  <2>1. PICK s : s = sons[above]
    OBVIOUS
  <2>2. PICK k \in 1 .. Len(s) : s[k] = top /\ next[above] = Store!RemoveAt(s, k)
    BY <2>1, <1>2, WithoutIs
  <2>3. PICK p : p = first_son[above]
    OBVIOUS
  <2>4. s \in Seq(Inode) /\ IsList(brother, s, p) /\ Ends(brother)
        /\ brother \in [Inode -> Pointer]
    BY <2>1, <2>3, <1>2, <1>3, LinksEnd DEF LinkTypes
  <2>5. p \in Inode /\ p = s[1] /\ 1 \in 1 .. Len(s)
    BY <2>2, <2>4 DEF IsList
  <2>6. p = top <=> k = 1
    BY <2>2, <2>4, <2>5, ListApart
  <2>7. \A j \in 1 .. Len(s) : /\ s[j] \in Inode /\ s[j] \in Sons(above)
                               /\ father[s[j]] = above
    BY <2>1, <1>2, <1>4
  <2>8. \A j \in 1 .. Len(s) : s[j] \in T => j = k
    <3>1. ASSUME NEW j \in 1 .. Len(s), s[j] \in T PROVE s[j] = s[k]
      BY <3>1, <2>2, <2>7, <1>2, <1>5
    <3> QED
      BY <3>1, <2>4, ListApart
  <2>9. ASSUME NEW j \in 1 .. Len(s), j # k, j # k - 1
        PROVE  brother'[s[j]] = brother[s[j]]
    <3>1. brother[s[j]] # top
      <4>1. CASE j = Len(s)
        BY <4>1, <2>4, <2>5, Sizes DEF IsList
      <4>2. CASE j # Len(s)
        <5>1. j \in 1 .. Len(s) - 1 /\ j + 1 \in 1 .. Len(s) /\ j + 1 # k
          BY <4>2, <2>4, <2>9
        <5>2. s[j + 1] = brother[s[j]]
          BY <5>1, <2>4 DEF IsList
        <5>3. s[j + 1] # s[k]
          BY <5>1, <2>4, ListApart
        <5> QED
          BY <5>2, <5>3, <2>2
      <4> QED
        BY <4>1, <4>2
    <3> QED
      BY <3>1, <2>7, <2>8, <2>9, <1>6
  <2>10. ASSUME k # 1 PROVE brother'[s[k - 1]] = brother[s[k]]
    <3>1. k - 1 \in 1 .. Len(s) /\ k - 1 \in 1 .. Len(s) - 1 /\ (k - 1) + 1 = k /\ k - 1 # k
      BY <2>4, <2>10
    <3>2. brother[s[k - 1]] = top
      BY <3>1, <2>2, <2>4 DEF IsList
    <3>3. s[k - 1] \notin T /\ s[k - 1] \in Inode /\ s[k - 1] \in Sons(above)
      BY <3>1, <2>7, <2>8
    <3>4. first_son[above] # top
      BY <2>3, <2>6, <2>10
    <3> QED
      BY <3>2, <3>3, <3>4, <2>2, <1>6
  <2>11. IsList(brother', Store!RemoveAt(s, k), IF k = 1 THEN brother[p] ELSE p)
    BY <2>4, <2>5, <2>9, <2>10, ListRemoved, SMTT(30)
  <2>12. first_son'[above] = IF k = 1 THEN brother[p] ELSE p
    BY <2>3, <2>6, <1>2, <1>6
  <2>13. Store!RemoveAt(s, k) \in Seq(Inode)
    BY <2>4, Removed
  <2> HIDE DEF next
  <2> QED
    BY <2>2, <2>11, <2>12, <2>13
<1>10. next \in [Inode -> Seq(Inode)]
  <2>1. \A i \in Inode : next[i] \in Seq(Inode)
    <3>1. \A i \in Inode : i \in T => next[i] \in Seq(Inode)
      OBVIOUS
    <3> HIDE DEF next
    <3> QED
      BY <3>1, <1>8, <1>9
  <2>2. next = [i \in Inode |-> next[i]]
    OBVIOUS
  <2> HIDE DEF next
  <2> QED
    BY <2>1, <2>2
<1>11. \A i \in Inode : IsList(brother', next[i], first_son'[i])
  <2> HIDE DEF next
  <2> QED
    BY <1>7, <1>8, <1>9
<1>12. sons' = next
  <2> HIDE DEF next
  <2> QED
    BY <1>1, <1>10, <1>11, SonsBecome
<1> QED
  BY <1>12

\* Deleting the root empties all lists.
LEMMA DeleteRootSons ==
    ASSUME LinkTypes, WellLinked, NothingLost, LinkTypes', delete_inode(ROOT_INODE)
    PROVE  sons' = [n \in Inode |-> IF n \in Subtree(ROOT_INODE) THEN <<>>
                                    ELSE Store!Without(sons[n], ROOT_INODE)]
<1> DEFINE T == Subtree(ROOT_INODE)
           next == [n \in Inode |-> IF n \in T THEN <<>>
                                    ELSE Store!Without(sons[n], ROOT_INODE)]
<1>1. WellLinked' /\ ROOT_INODE \in Inode /\ father[ROOT_INODE] = NULL
  BY DeleteRootTree, Sizes DEF WellLinked, RootIsFolder
<1>2. ASSUME NEW i \in Inode, i \notin T PROVE first_son[i] = NULL /\ next[i] = <<>>
  <2>1. first_son[i] = NULL
    BY <1>2, RootDeletesAll DEF WellLinked, FreeIsBlank
  <2>2. sons[i] = <<>>
    BY <2>1, SonsAre DEF SonsRight, IsList
  <2>3. ROOT_INODE \notin Sons(i)
    BY <1>1, SonsKnowFather, Sizes DEF WellLinked
  <2> QED
    BY <1>1, <1>2, <2>1, <2>2, <2>3, WithoutIs
<1>3. \A i \in Inode : next[i] = <<>>
  BY <1>2
<1>4. \A i \in Inode : first_son'[i] = NULL
  BY <1>1, <1>2, Sizes DEF delete_inode, Unhook
<1>5. next \in [Inode -> Seq(Inode)]
  <2>1. next = [i \in Inode |-> next[i]] /\ <<>> \in Seq(Inode)
    OBVIOUS
  <2> HIDE DEF next
  <2> QED
    BY <2>1, <1>3
<1>6. IsList(brother', <<>>, NULL)
  <2>1. Len(<<>>) = 0 /\ <<>> \in Seq(Inode)
    OBVIOUS
  <2> QED
    BY <2>1 DEF IsList
<1>7. sons' = next
  <2> HIDE DEF next
  <2>1. \A i \in Inode : IsList(brother', next[i], first_son'[i])
    BY <1>3, <1>4, <1>6
  <2> QED
    BY <2>1, <1>1, <1>5, SonsBecome
<1> QED
  BY <1>7

-----------------------------------------------------------------------------
(* Each call is an action of FileStore.                                    *)

LEMMA SameSons == UNCHANGED <<first_son, brother>> => sons' = sons
BY DEF sons, ListFrom

LEMMA SameText == UNCHANGED <<size, data>> => text' = text
BY DEF text

LEMMA SameStore == UNCHANGED <<inodes, fds, halted>> =>
                      UNCHANGED <<type, name, sons, text, fd_inode, fd_next_son, halted>>
BY SameSons, SameText DEF inodes, fds

\* A refusal.
LEMMA RefuseStore ==
    ASSUME NEW error \in VfsError \ {"VFS_OK"}, NEW fd \in FdArg,
           Refuse(error) \/ RefuseFd(error, fd),
           error = "VFS_MEMORY_FULL" => \A i \in Inode : Used(i),
           error = "VFS_MAX_FD_REACHED" => NoFdLeft
    PROVE  Store!Fail
<1>1. UNCHANGED <<type, name, sons, text, fd_inode, fd_next_son, halted>>
  BY SameStore DEF Refuse, RefuseFd
<1>2. /\ reply' \in [ret : VfsError \ {"VFS_OK"}]
                    \cup [ret : VfsError \ {"VFS_OK"}, fd : Fd \cup {-1}]
      /\ reply'.ret = error
  BY DEF Refuse, RefuseFd, FdArg
<1> QED
  BY <1>1, <1>2 DEF Store!Fail, Store!tree, Store!Used, Used, NoFdLeft

LEMMA RefuseDataStore == RefuseData => Store!Nothing
BY SameStore DEF RefuseData, Store!Nothing, Store!tree

LEMMA CreateStore ==
    ASSUME TypeInv, WellLinked, NothingLost, TypeInv', NEW path \in Paths, NEW nm,
           NEW what \in {"FILE", "FOLDER"}, create(what, path, nm)
    PROVE  Store!Fail \/ (nm \in Names /\ Store!Create(nm, what))
<1>1. LinkTypes /\ LinkTypes' /\ name \in [Inode -> Name]
  BY DEF TypeInv, TypeOK, LinkTypes
<1>2. PICK dir \in Pointer : dir = parse_path(path) /\
        \/ Refuse("VFS_INVALID_NAME")
        \/ Refuse("VFS_INVALID_FD")
        \/ (\A i \in Inode : Used(i)) /\ Refuse("VFS_MEMORY_FULL")
        \/ /\ nm \in Names
           /\ IsFolder(dir)
           /\ \E new \in Inode : alloc_inode(new, nm, dir, what)
           /\ reply' = [ret |-> "VFS_OK"]
           /\ UNCHANGED <<fds, halted>>
  BY DEF create
<1>3. CASE \/ Refuse("VFS_INVALID_NAME")
           \/ Refuse("VFS_INVALID_FD")
           \/ (\A i \in Inode : Used(i)) /\ Refuse("VFS_MEMORY_FULL")
  <2>1. -1 \in FdArg
    BY DEF FdArg
  <2> QED
    BY <1>3, <2>1, RefuseStore DEF VfsError
<1>4. ASSUME nm \in Names, IsFolder(dir), NEW new \in Inode,
             alloc_inode(new, nm, dir, what), reply' = [ret |-> "VFS_OK"],
             UNCHANGED <<fds, halted>>
      PROVE  Store!Create(nm, what)
  <2>1. dir # NULL /\ dir \in Inode /\ type[dir] = "FOLDER" /\ dir = Store!Resolve(path)
    BY <1>1, <1>2, <1>4, ParseIs DEF IsFolder, Pointer
  <2>2. sons' = [sons EXCEPT ![dir] = Append(@, new)]
    BY <2>1, <1>1, <1>4, AllocSons
  <2>3. text' = text /\ UNCHANGED <<fd_inode, fd_next_son, halted>>
    BY <1>4, SameText DEF alloc_inode, fds
  <2>4. /\ type[new] = "EMPTY" /\ type' = [type EXCEPT ![new] = what]
        /\ name' = [name EXCEPT ![new] = nm]
    BY <1>4 DEF alloc_inode
  <2>5. \E p \in Paths : LET d == Store!Resolve(p)
                         IN  /\ d # NULL /\ type[d] = "FOLDER"
                             /\ sons' = [sons EXCEPT ![d] = Append(@, new)]
    BY <2>1, <2>2
  <2> QED
    BY <2>3, <2>4, <2>5, <1>4 DEF Store!Create, Store!Used
<1> QED
  BY <1>2, <1>3, <1>4

LEMMA DeleteStore ==
    ASSUME TypeInv, WellLinked, NothingLost, TypeInv', ~halted, NEW path \in Paths,
           delete(path)
    PROVE  Store!Fail \/ Store!Delete(path)
<1>1. LinkTypes /\ LinkTypes' /\ name \in [Inode -> Name] /\ halted \in BOOLEAN
  BY DEF TypeInv, TypeOK, LinkTypes
<1>2. PICK top \in Pointer : top = parse_path(path) /\
        \/ Refuse("VFS_INVALID_FD")
        \/ /\ top # NULL
           /\ IF Used(top) THEN delete_inode(top) ELSE UNCHANGED inodes
           /\ IF top = ROOT_INODE
              THEN halted' = TRUE /\ UNCHANGED reply
              ELSE /\ reply' = [ret |-> "VFS_OK"]
                   /\ UNCHANGED halted
           /\ UNCHANGED fds
  BY DEF delete
<1>3. CASE Refuse("VFS_INVALID_FD")
  <2>1. -1 \in FdArg
    BY DEF FdArg
  <2> QED
    BY <1>3, <2>1, RefuseStore DEF VfsError
<1>4. ASSUME top # NULL,
             IF Used(top) THEN delete_inode(top) ELSE UNCHANGED inodes,
             IF top = ROOT_INODE
              THEN halted' = TRUE /\ UNCHANGED reply
              ELSE /\ reply' = [ret |-> "VFS_OK"]
                   /\ UNCHANGED halted,
             UNCHANGED fds
      PROVE  Store!Delete(path)
  <2> DEFINE T == Subtree(top)
             gone == T \ {ROOT_INODE}
  <2>1. top \in Inode /\ Used(top) /\ top = Store!Resolve(path)
    BY <1>1, <1>2, <1>4, ParseIs DEF Pointer
  <2>2. delete_inode(top) /\ Store!Below(top) = T
    BY <2>1, <1>1, <1>4, BelowIs
  <2>3. sons' = [n \in Inode |-> IF n \in T THEN <<>> ELSE Store!Without(sons[n], top)]
    BY <2>1, <2>2, <1>1, DeleteSons, DeleteRootSons
  <2>4. /\ type' = [n \in Inode |-> IF n \in gone THEN "EMPTY" ELSE type[n]]
        /\ size' = [n \in Inode |-> IF n \in gone THEN 0 ELSE size[n]]
        /\ name' = name /\ data' = data
    BY <2>2 DEF delete_inode, free_inode
  <2>5. text' = [n \in Inode |-> IF n \in gone THEN <<>> ELSE text[n]]
    <3>1. \A n \in Inode : n \in gone => [k \in 1 .. size'[n] |-> data'[n][k - 1]] = <<>>
      BY <2>4
    <3>2. \A n \in Inode : n \notin gone =>
             [k \in 1 .. size'[n] |-> data'[n][k - 1]] = [k \in 1 .. size[n] |-> data[n][k - 1]]
      BY <2>4
    <3> HIDE DEF gone
    <3> QED
      BY <3>1, <3>2 DEF text
  <2>6. UNCHANGED <<fd_inode, fd_next_son>>
    BY <1>4 DEF fds
  <2>7. /\ reply' \in {reply, [ret |-> "VFS_OK"]}
        /\ reply' = IF top = ROOT_INODE THEN reply ELSE [ret |-> "VFS_OK"]
    BY <1>4
  <2>8. halted' = (top = ROOT_INODE)
    <3>1. CASE top = ROOT_INODE
      BY <3>1, <1>4
    <3>2. CASE top # ROOT_INODE
      BY <3>2, <1>1, <1>4
    <3> QED
      BY <3>1, <3>2
  <2> HIDE DEF T
  <2> QED
    BY <2>1, <2>2, <2>3, <2>4, <2>5, <2>6, <2>7, <2>8, <1>4 DEF Store!Delete
<1> QED
  BY <1>2, <1>3, <1>4

LEMMA OpenStore ==
    ASSUME TypeInv, WellLinked, NEW path \in Paths, NEW fd \in Fd,
           NEW what \in {"FILE", "FOLDER"}, NEW badPath,
           badPath \in {"VFS_INVALID_PATH_FILE", "VFS_INVALID_PATH_DIR"},
           open(what, badPath, path, fd)
    PROVE  Store!Fail \/ Store!Open(path, what)
<1>1. LinkTypes /\ name \in [Inode -> Name] /\ fd_next_son \in [Fd -> Pointer]
  BY DEF TypeInv, TypeOK, LinkTypes
<1>2. PICK target \in Pointer : target = parse_path(path) /\
        \/ RefuseFd(badPath, fd)
        \/ RefuseFd("VFS_INVALID_FD", fd)
        \/ /\ target # NULL
           /\ type[target] = what
           /\ fd_inode' = [fd_inode EXCEPT ![fd] = target]
           /\ Rewind(what, fd, target)
           /\ reply' = [ret |-> "VFS_OK", fd |-> fd]
           /\ UNCHANGED <<type, name, father, brother, first_son, size, data, halted>>
  BY DEF open
<1>3. CASE RefuseFd(badPath, fd) \/ RefuseFd("VFS_INVALID_FD", fd)
  <2>1. fd \in FdArg
    BY DEF FdArg
  <2> QED
    BY <1>3, <2>1, RefuseStore DEF VfsError
<1>4. ASSUME target # NULL,
             type[target] = what,
             fd_inode' = [fd_inode EXCEPT ![fd] = target],
             Rewind(what, fd, target),
             reply' = [ret |-> "VFS_OK", fd |-> fd],
             UNCHANGED <<type, name, father, brother, first_son, size, data, halted>>
      PROVE  Store!Open(path, what)
  <2>1. target \in Inode /\ target = Store!Resolve(path) /\ fd_inode[fd] = NULL
    BY <1>1, <1>2, <1>4, ParseIs DEF Pointer, open, IsNextFd
  <2>2. UNCHANGED <<type, name, sons, text, halted>>
    BY <1>4, SameSons, SameText
  <2>3. first_son[target] = IF sons[target] = <<>> THEN NULL ELSE sons[target][1]
    BY <2>1, <1>1, SonsAre DEF SonsRight, IsList
  <2>4. IF what = "FILE" THEN UNCHANGED fd_next_son
        ELSE fd_next_son' = [fd_next_son EXCEPT ![fd] =
                               IF sons[target] = <<>> THEN NULL ELSE sons[target][1]]
    BY <2>3, <1>4 DEF Rewind
  <2> QED
    BY <2>1, <2>2, <2>4, <1>4 DEF Store!Open, Store!tree
<1> QED
  BY <1>2, <1>3, <1>4

LEMMA CloseStore ==
    ASSUME TypeInv, NEW call, NEW fd \in FdArg, close(call, fd)
    PROVE  Store!Fail \/ (fd \in Fd /\ Store!Close(fd))
<1>1. CASE RefuseFd("VFS_INVALID_FD", -1)
  <2>1. -1 \in FdArg
    BY DEF FdArg
  <2> QED
    BY <1>1, <2>1, RefuseStore DEF VfsError
<1>2. CASE Opened(fd) /\ ~ RefuseFd("VFS_INVALID_FD", -1)
  <2>1. fd \in Fd /\ fd_inode[fd] # NULL
    BY <1>2 DEF Opened, FdArg
  <2>2. /\ fd_inode' = [fd_inode EXCEPT ![fd] = NULL]
        /\ fd_next_son' \in {fd_next_son, [fd_next_son EXCEPT ![fd] = NULL]}
        /\ reply' = [ret |-> "VFS_OK", fd |-> -1]
        /\ UNCHANGED <<type, name, brother, first_son, size, data, halted>>
    BY <1>2 DEF close
  <2>3. UNCHANGED <<type, name, sons, text, halted>>
    BY <2>2, SameSons, SameText
  <2> QED
    BY <2>1, <2>2, <2>3 DEF Store!Close, Store!tree
<1> QED
  BY <1>1, <1>2 DEF close

LEMMA ListStore ==
    ASSUME TypeInv, WellLinked, NEW fd \in FdArg, get_next_dir_son(fd)
    PROVE  Store!Fail \/ (fd \in Fd /\ Store!List(fd))
<1>1. CASE RefuseFd("VFS_INVALID_FD", -1) \/ RefuseFd("-1", fd)
  <2>1. -1 \in FdArg
    BY DEF FdArg
  <2> QED
    BY <1>1, <2>1, RefuseStore DEF VfsError
<1>2. CASE ~ (RefuseFd("VFS_INVALID_FD", -1) \/ RefuseFd("-1", fd))
  <2>1. /\ fd \in Fd /\ fd_inode[fd] # NULL /\ type[fd_inode[fd]] = "FOLDER"
        /\ reply' = [ret |-> "VFS_OK",
                     son |-> IF fd_next_son[fd] = NULL THEN "" ELSE name[fd_next_son[fd]]]
        /\ fd_next_son' = IF fd_next_son[fd] = NULL THEN fd_next_son
                          ELSE [fd_next_son EXCEPT ![fd] = brother[fd_next_son[fd]]]
        /\ UNCHANGED <<inodes, fd_inode, halted>>
    BY <1>2 DEF get_next_dir_son, Opened, FdArg
  <2>2. UNCHANGED <<type, name, sons, text, fd_inode, halted>>
    BY <2>1, SameSons, SameText DEF inodes
  <2>3. CASE fd_next_son[fd] = NULL
    BY <2>1, <2>2, <2>3 DEF Store!List, Store!tree
  <2>4. CASE fd_next_son[fd] # NULL
    <3>1. fd_next_son[fd] \in Inode /\ LinkTypes
      BY <2>1, <2>4 DEF TypeInv, TypeOK, Pointer, LinkTypes
    <3>2. Store!After(fd_next_son[fd]) = brother[fd_next_son[fd]]
      BY <3>1, AfterIs
    <3>3. /\ reply' = [ret |-> "VFS_OK", son |-> name[fd_next_son[fd]]]
          /\ fd_next_son' = [fd_next_son EXCEPT ![fd] = Store!After(fd_next_son[fd])]
      BY <2>1, <2>4, <3>2
    <3> QED
      BY <2>1, <2>2, <2>4, <3>3 DEF Store!List, Store!tree
  <2> QED
    BY <2>3, <2>4
<1> QED
  BY <1>1, <1>2

LEMMA MinIs ==
    ASSUME NEW x \in Nat, NEW y \in Nat
    PROVE  Store!Min({x, y}) = IF x <= y THEN x ELSE y
<1>1. PICK m \in {x, y} : m = IF x <= y THEN x ELSE y
  OBVIOUS
<1>2. \A z \in {x, y} : m <= z
  BY <1>1
<1>3. \A n \in {x, y} : (\A z \in {x, y} : n <= z) => n = m
  BY <1>1
<1>4. Store!Min({x, y}) = m
  BY <1>2, <1>3 DEF Store!Min
<1> QED
  BY <1>1, <1>4

\* The bytes of a file.
LEMMA TextIs ==
    ASSUME TypeInv, NEW i \in Inode
    PROVE  /\ size[i] \in 0 .. FILE_MAX_SIZE
           /\ text[i] \in Seq(Byte) /\ Len(text[i]) = size[i]
           /\ \A k \in 1 .. size[i] : text[i][k] = data[i][k - 1]
<1>1. size[i] \in 0 .. FILE_MAX_SIZE /\ data[i] \in [Offset -> Byte]
  BY DEF TypeInv, TypeOK
<1>2. PICK n \in Nat : n = size[i] /\ n <= FILE_MAX_SIZE
  BY <1>1, Sizes
<1>3. \A k \in 1 .. n : k - 1 \in Offset
  BY <1>2, Sizes DEF Offset
<1>4. PICK t : t = [k \in 1 .. n |-> data[i][k - 1]]
  OBVIOUS
<1>5. t \in [1 .. n -> Byte]
  BY <1>1, <1>3, <1>4
<1>6. t \in Seq(Byte) /\ Len(t) = n
  BY <1>5
<1>7. text[i] = t
  BY <1>2, <1>4 DEF text
<1> QED
  BY <1>1, <1>2, <1>4, <1>6, <1>7

LEMMA SamePrefix ==
    ASSUME NEW s \in Seq(Byte), NEW t \in Seq(Byte), NEW n \in Nat,
           n <= Len(s), n <= Len(t), \A k \in 1 .. n : s[k] = t[k]
    PROVE  SubSeq(s, 1, n) = SubSeq(t, 1, n)
<1>1. ASSUME NEW u \in Seq(Byte), n <= Len(u)
      PROVE  /\ SubSeq(u, 1, n) \in Seq(Byte) /\ Len(SubSeq(u, 1, n)) = n
             /\ \A k \in 1 .. n : SubSeq(u, 1, n)[k] = u[k]
  BY <1>1
<1>2. PICK p \in Seq(Byte) : /\ p = SubSeq(s, 1, n) /\ Len(p) = n
                            /\ \A k \in 1 .. n : p[k] = s[k]
  BY <1>1
<1>3. PICK q \in Seq(Byte) : /\ q = SubSeq(t, 1, n) /\ Len(q) = n
                            /\ \A k \in 1 .. n : q[k] = t[k]
  BY <1>1
<1>4. p = q
  BY <1>2, <1>3
<1> QED
  BY <1>2, <1>3, <1>4

LEMMA ReadStore ==
    ASSUME TypeInv, NEW fd \in FdArg, NEW len \in Lens, read_file(fd, len)
    PROVE  Store!Nothing \/ (fd \in Fd /\ Store!Read(fd, len))
<1>1. CASE ~IsFileFd(fd)
  BY <1>1, RefuseDataStore DEF read_file
<1>2. CASE IsFileFd(fd)
  <2>1. fd \in Fd /\ fd_inode[fd] # NULL /\ type[fd_inode[fd]] = "FILE"
    BY <1>2 DEF IsFileFd, Opened, FdArg
  <2>2. PICK i \in Inode : i = fd_inode[fd] /\ i # NULL
    BY <2>1 DEF TypeInv, TypeOK, Pointer
  <2>3. Store!FileOf(fd) = i
    BY <2>1, <2>2 DEF Store!FileOf
  <2>4. PICK file \in Seq(Byte) :
          /\ file = text[i] /\ Len(file) = size[i] /\ size[i] \in 0 .. FILE_MAX_SIZE
          /\ \A k \in 1 .. size[i] : file[k] = data[i][k - 1]
    BY TextIs
  <2>5. len \in Nat /\ len \in 0 .. 2 * INT_MAX + 1 /\ fd_next[fd] = 0
    BY <2>1, ArgumentsAssumption, Sizes DEF TypeInv, NextIsZero
  <2>6. Store!Min({len, Len(file)}) = IF len <= size[i] THEN len ELSE size[i]
    BY <2>4, <2>5, Sizes, MinIs
  <2>7. UNCHANGED <<type, name, sons, text, fd_inode, fd_next_son, halted>>
    BY <1>2, SameStore DEF read_file
  <2> SUFFICES
        /\ reply' \in [n : 0 .. FILE_MAX_SIZE, out : Seq(Byte)]
        /\ len < FS_NPAGES \/ file = <<>> =>
             LET m == IF len <= size[i] THEN len ELSE size[i]
             IN  /\ reply'.n = m
                 /\ SubSeq(reply'.out, 1, m) = SubSeq(file, 1, m)
    BY <2>1, <2>2, <2>3, <2>4, <2>6, <2>7 DEF Store!Read, Store!tree
  <2>8. CASE size[i] = 0 \/ len = 0
    <3>1. reply' = [n |-> 0, out |-> <<0>>]
      BY <1>2, <2>2, <2>4, <2>5, <2>8 DEF read_file
    <3>2. PICK out \in Seq(Byte) : out = <<0>> /\ Len(out) = 1
      <4>1. PICK zero \in Byte : zero = 0
        BY ArgumentsAssumption
      <4>2. <<zero>> \in Seq(Byte) /\ Len(<<zero>>) = 1
        OBVIOUS
      <4> QED
        BY <4>1, <4>2
    <3>3. SubSeq(out, 1, 0) = SubSeq(file, 1, 0)
      BY <3>2, SamePrefix
    <3>4. (IF len <= size[i] THEN len ELSE size[i]) = 0
      BY <2>4, <2>5, <2>8
    <3> QED
      BY <3>1, <3>2, <3>3, <3>4, Sizes
  <2>9. CASE size[i] # 0 /\ len # 0
    <3> DEFINE n == SizeToRead(i, 0, len)
               bytes == [k \in 1 .. Copied(n) |-> data[i][0 + k - 1]]
    <3>1. reply' = [n |-> n, out |-> bytes]
      BY <1>2, <2>2, <2>4, <2>5, <2>9 DEF read_file
    <3>2. n \in 1 .. FILE_MAX_SIZE
      BY <2>4, <2>5, <2>9, ReadLength
    <3>3. Copied(n) \in n .. FILE_MAX_SIZE
      BY <3>2, CopiedInPage
    <3>4. bytes \in Seq(Byte) /\ Len(bytes) = Copied(n)
      <4>1. PICK c \in Nat : c = Copied(n) /\ c <= FILE_MAX_SIZE
        BY <3>2, <3>3, Sizes
      <4>2. \A k \in 1 .. c : data[i][0 + k - 1] \in Byte
        BY <4>1, Sizes DEF TypeInv, TypeOK, Offset
      <4>3. PICK b : b = bytes
        OBVIOUS
      <4>4. b \in [1 .. c -> Byte]
        BY <4>1, <4>2, <4>3
      <4>5. b \in Seq(Byte) /\ Len(b) = c
        BY <4>4
      <4> QED
        BY <4>1, <4>3, <4>5
    <3> HIDE DEF n, bytes
    <3>5. ASSUME len < FS_NPAGES \/ file = <<>>
          PROVE  LET m == IF len <= size[i] THEN len ELSE size[i]
                 IN  /\ reply'.n = m
                     /\ SubSeq(reply'.out, 1, m) = SubSeq(file, 1, m)
      <4>1. 0 < len /\ len < FS_NPAGES
        BY <3>5, <2>4, <2>5, <2>9
      <4>2. /\ reply'.n = IF len < size[i] THEN len ELSE size[i]
            /\ \A k \in 1 .. reply'.n : reply'.out[k] = data[i][k - 1]
        BY <4>1, <1>2, <2>1, <2>2, <2>9, ShortRead
      <4>3. PICK m \in Nat : m = IF len <= size[i] THEN len ELSE size[i]
        BY <2>4, <2>5
      <4>4. n = m /\ reply'.n = m /\ m <= size[i]
        BY <3>1, <4>2, <4>3, <2>4, <2>5
      <4>5. \A k \in 1 .. m : bytes[k] = file[k]
        BY <3>1, <4>2, <4>4, <2>4, <2>5
      <4>6. SubSeq(bytes, 1, m) = SubSeq(file, 1, m)
        BY <3>2, <3>3, <3>4, <4>3, <4>4, <4>5, <2>4, SamePrefix
      <4> QED
        BY <3>1, <4>3, <4>4, <4>6
    <3>6. reply' \in [n : 0 .. FILE_MAX_SIZE, out : Seq(Byte)]
      BY <3>1, <3>2, <3>4, Sizes
    <3> QED
      BY <3>5, <3>6
  <2> QED
    BY <2>4, <2>8, <2>9
<1> QED
  BY <1>1, <1>2

\* Bytes added behind those a file has.
LEMMA TextGrows ==
    ASSUME NEW old \in Seq(Byte), NEW more \in Seq(Byte), NEW new \in Seq(Byte),
           Len(new) = Len(old) + Len(more),
           \A k \in 1 .. Len(new) :
              new[k] = IF k <= Len(old) THEN old[k] ELSE more[k - Len(old)]
    PROVE  new = old \o more
<1>1. PICK all \in Seq(Byte) :
         /\ all = old \o more /\ Len(all) = Len(old) + Len(more)
         /\ \A k \in 1 .. Len(old) + Len(more) :
              all[k] = IF k <= Len(old) THEN old[k] ELSE more[k - Len(old)]
  <2>1. \A x, y \in Seq(Byte) :
           /\ x \o y \in Seq(Byte) /\ Len(x \o y) = Len(x) + Len(y)
           /\ \A j \in 1 .. Len(x) + Len(y) :
                (x \o y)[j] = IF j <= Len(x) THEN x[j] ELSE y[j - Len(x)]
    OBVIOUS
  <2> QED
    BY <2>1
<1>2. all = new
  BY <1>1
<1> QED
  BY <1>1, <1>2

LEMMA WriteInodeStore ==
    ASSUME TypeInv, NEW fd \in Fd, NEW i \in Inode, i = fd_inode[fd], type[i] = "FILE",
           NEW from \in 0 .. FILE_MAX_SIZE,
           NEW old \in Seq(Byte), Len(old) = from,
           \A k \in 1 .. from : old[k] = data[i][k - 1],
           NEW str \in Strings, NEW len \in Lens, write_inode(i, from, str, len)
    PROVE  Store!Put(fd, old, str, len)
<1>1. PICK n : n = SizeToWrite(from, len)
  OBVIOUS
<1>2. len \in Nat /\ len \in 0 .. 2 * INT_MAX + 1 /\ str \in [Offset -> Byte]
  BY ArgumentsAssumption, Sizes
<1>3. n \in 0 .. FILE_MAX_SIZE - from
  BY <1>1, <1>2, Sizes DEF SizeToWrite, ToInt
<1>4. ASSUME len < FS_NPAGES
      PROVE  n = Store!Min({len, FILE_MAX_SIZE - Len(old)})
  <2>1. n = IF len <= FILE_MAX_SIZE - from THEN len ELSE FILE_MAX_SIZE - from
    BY <1>1, <1>2, <1>4, Sizes DEF SizeToWrite, ToInt
  <2>2. FILE_MAX_SIZE - from \in Nat
    BY Sizes
  <2> QED
    BY <2>1, <2>2, <1>2, MinIs
<1>5. /\ data' = [data EXCEPT ![i] =
                    [k \in Offset |->
                       IF from <= k /\ k < from + n THEN str[k - from]
                       ELSE data[i][k]]]
      /\ size' = [size EXCEPT ![i] = from + n]
      /\ reply' = [n |-> n]
      /\ UNCHANGED <<type, name, father, brother, first_son, ref, fds, halted>>
  BY <1>1 DEF write_inode
<1>6. from \in Nat /\ n \in Nat /\ from + n <= FILE_MAX_SIZE
  BY <1>3, Sizes
<1> DEFINE added == old \o [k \in 1 .. n |-> str[k - 1]]
<1>7. text'[i] = added
  <2>1. PICK new : new = [k \in 1 .. from + n |-> data'[i][k - 1]]
    OBVIOUS
  <2>2. size'[i] = from + n
    BY <1>5 DEF TypeInv, TypeOK
  <2>3. text'[i] = new
    BY <2>1, <2>2 DEF text
  <2>4. PICK more : more = [k \in 1 .. n |-> str[k - 1]]
    OBVIOUS
  <2>5. more \in Seq(Byte) /\ Len(more) = n
    <3>1. \A k \in 1 .. n : str[k - 1] \in Byte
      BY <1>2, <1>6, Sizes DEF Offset
    <3>2. more \in [1 .. n -> Byte]
      BY <3>1, <2>4
    <3> QED
      BY <3>2, <1>6
  <2>6. ASSUME NEW k \in 1 .. from + n
        PROVE  new[k] \in Byte /\ new[k] = IF k <= from THEN old[k] ELSE more[k - from]
    <3>1. k - 1 \in Offset
      BY <1>6, Sizes DEF Offset
    <3>2. new[k] = IF from <= k - 1 /\ k - 1 < from + n THEN str[(k - 1) - from]
                   ELSE data[i][k - 1]
      BY <3>1, <2>1, <1>5 DEF TypeInv, TypeOK
    <3>3. CASE k <= from
      <4>1. k \in 1 .. from /\ new[k] = data[i][k - 1]
        BY <3>2, <3>3, <1>6
      <4> QED
        BY <4>1, <3>3
    <3>4. CASE ~(k <= from)
      <4>1. PICK m \in 1 .. n : m = k - from /\ m - 1 = (k - 1) - from
        BY <3>4, <1>6
      <4>2. more[m] = str[m - 1]
        BY <2>4
      <4>3. more[m] \in Byte
        BY <2>5
      <4>4. more[k - from] = str[(k - 1) - from] /\ more[k - from] \in Byte
        BY <4>1, <4>2, <4>3
      <4> QED
        BY <4>4, <3>2, <3>4, <1>6
    <3> QED
      BY <3>3, <3>4
  <2>7. new \in Seq(Byte) /\ Len(new) = from + n
    <3>1. new \in [1 .. from + n -> Byte]
      BY <2>1, <2>6
    <3> QED
      BY <3>1, <1>6
  <2>8. new = old \o more
    BY <2>5, <2>6, <2>7, TextGrows
  <2> QED
    BY <2>3, <2>4, <2>8
<1>8. ASSUME NEW j \in Inode, j # i PROVE text'[j] = text[j]
  <2>1. size'[j] = size[j] /\ data'[j] = data[j]
    BY <1>5, <1>8 DEF TypeInv, TypeOK
  <2> QED
    BY <2>1 DEF text
<1> HIDE DEF added
<1>9. text' = [text EXCEPT ![i] = added]
  <2>1. text' = [j \in Inode |-> text'[j]] /\ text = [j \in Inode |-> text[j]]
    BY DEF text
  <2> QED
    BY <2>1, <1>7, <1>8
<1>10. Store!FileOf(fd) = i /\ i # NULL
  BY Sizes DEF Store!FileOf
<1>11. UNCHANGED <<type, name, sons, fd_inode, fd_next_son, halted>>
  BY <1>5, SameSons DEF fds
<1> QED
  BY <1>3, <1>4, <1>5, <1>9, <1>10, <1>11 DEF Store!Put, added

LEMMA WriteStore ==
    ASSUME TypeInv, NEW fd \in FdArg, NEW str \in Strings, NEW len \in Lens
    PROVE  /\ write_file(fd, str, len) =>
                Store!Nothing \/ (fd \in Fd /\ Store!Write(fd, str, len))
           /\ append_file(fd, str, len) =>
                Store!Nothing \/ (fd \in Fd /\ Store!Extend(fd, str, len))
<1>1. RefuseData => Store!Nothing
  BY RefuseDataStore
<1>2. ASSUME IsFileFd(fd)
      PROVE  /\ write_file(fd, str, len) =>
                  Store!Nothing \/ (fd \in Fd /\ Store!Write(fd, str, len))
             /\ append_file(fd, str, len) =>
                  Store!Nothing \/ (fd \in Fd /\ Store!Extend(fd, str, len))
  <2>1. fd \in Fd /\ fd_inode[fd] # NULL /\ type[fd_inode[fd]] = "FILE"
    BY <1>2 DEF IsFileFd, Opened, FdArg
  <2>2. PICK i \in Inode : i = fd_inode[fd]
    BY <2>1 DEF TypeInv, TypeOK, Pointer
  <2>3. ASSUME write_inode(i, 0, str, len) PROVE Store!Write(fd, str, len)
    <3>1. <<>> \in Seq(Byte) /\ Len(<<>>) = 0 /\ 0 \in 0 .. FILE_MAX_SIZE
      BY Sizes
    <3>2. \A k \in 1 .. 0 : <<>>[k] = data[i][k - 1]
      OBVIOUS
    <3>3. Store!Put(fd, <<>>, str, len)
      BY <3>1, <3>2, <2>1, <2>2, <2>3, WriteInodeStore
    <3> QED
      BY <3>3 DEF Store!Write
  <2>4. ASSUME write_inode(i, size[i], str, len) PROVE Store!Extend(fd, str, len)
    <3>1. Store!Put(fd, text[i], str, len)
      BY <2>1, <2>2, <2>4, TextIs, WriteInodeStore
    <3>2. Store!FileOf(fd) = i
      BY <2>1, <2>2 DEF Store!FileOf
    <3> QED
      BY <3>1, <3>2 DEF Store!Extend
  <2>5. /\ write_file(fd, str, len) => write_inode(i, 0, str, len)
        /\ append_file(fd, str, len) => write_inode(i, size[i], str, len)
    BY <1>2, <2>2 DEF write_file, append_file
  <2> QED
    BY <2>1, <2>3, <2>4, <2>5
<1>3. CASE ~IsFileFd(fd)
  BY <1>1, <1>3 DEF write_file, append_file
<1> QED
  BY <1>2, <1>3

-----------------------------------------------------------------------------
(* The refinement.                                                         *)

LEMMA StoreInit == Init => Store!Init
<1> SUFFICES ASSUME Init PROVE Store!Init
  OBVIOUS
<1>1. TreeInv /\ LinkTypes
  BY InitTree, LinkTypesHold DEF TreeInv
<1>2. sons = [i \in Inode |-> <<>>]
  <2>1. \A i \in Inode : first_son[i] = NULL
    BY DEF Init
  <2>2. \A i \in Inode : sons[i] = <<>>
    BY <2>1, <1>1, SonsAre DEF TreeInv, SonsRight, IsList
  <2>3. sons = [i \in Inode |-> sons[i]]
    BY DEF sons
  <2> QED
    BY <2>2, <2>3
<1>3. text = [i \in Inode |-> <<>>]
  <2>1. \A i \in Inode : [k \in 1 .. size[i] |-> data[i][k - 1]] = <<>>
    <3>1. \A i \in Inode : size[i] = 0
      BY DEF Init
    <3> QED
      BY <3>1
  <2> QED
    BY <2>1 DEF text
<1> QED
  BY <1>2, <1>3 DEF Init, Store!Init

LEMMA StoreStep == TreeInv /\ [Next]_vars => [Store!Next]_(Store!vars)
<1> SUFFICES ASSUME TreeInv, [Next]_vars PROVE [Store!Next]_(Store!vars)
  OBVIOUS
<1>1. /\ TypeInv /\ WellLinked /\ NothingLost /\ TypeInv'
  BY StepType DEF TreeInv
<1>2. CASE UNCHANGED vars
  <2>1. UNCHANGED <<type, name, sons, text, fd_inode, fd_next_son, halted, reply>>
    BY <1>2, SameStore DEF vars
  <2> QED
    BY <2>1 DEF Store!vars, Store!tree
<1>3. CASE halted /\ UNCHANGED vars
  BY <1>2, <1>3
<1>4. CASE ~halted /\ Call
  <2> SUFFICES
        \/ Store!Fail \/ Store!Nothing
        \/ \E nm \in Names, what \in {"FILE", "FOLDER"} : Store!Create(nm, what)
        \/ \E path \in Paths : Store!Delete(path)
        \/ \E path \in Paths, what \in {"FILE", "FOLDER"} : Store!Open(path, what)
        \/ \E fd \in Fd : Store!Close(fd) \/ Store!List(fd)
        \/ \E fd \in Fd, len \in Lens : Store!Read(fd, len)
        \/ \E fd \in Fd, str \in Strings, len \in Lens :
              Store!Write(fd, str, len) \/ Store!Extend(fd, str, len)
    BY <1>4 DEF Store!Next
  <2>1. CASE NullPointer
    <3>1. -1 \in FdArg
      BY DEF FdArg
    <3> QED
      BY <2>1, <3>1, RefuseStore, RefuseDataStore DEF NullPointer, VfsError
  <2>2. ASSUME NEW path \in Paths, NEW nm \in Token,
               create_file(path, nm) \/ create_dir(path, nm)
        PROVE  \/ Store!Fail
               \/ \E n \in Names, what \in {"FILE", "FOLDER"} : Store!Create(n, what)
    <3>1. PICK what \in {"FILE", "FOLDER"} : create(what, path, nm)
      BY <2>2 DEF create_file, create_dir
    <3> QED
      BY <3>1, <1>1, CreateStore
  <2>3. ASSUME NEW path \in Paths, delete_file(path) \/ delete_dir(path)
        PROVE  Store!Fail \/ Store!Delete(path)
    BY <2>3, <1>1, <1>4, DeleteStore DEF delete_file, delete_dir
  <2>4. ASSUME NEW path \in Paths, open_file(path) \/ open_dir(path)
        PROVE  Store!Fail \/ \E what \in {"FILE", "FOLDER"} : Store!Open(path, what)
    <3>1. CASE NoFdLeft /\ RefuseFd("VFS_MAX_FD_REACHED", -1)
      <4>1. -1 \in FdArg
        BY DEF FdArg
      <4> QED
        BY <3>1, <4>1, RefuseStore DEF VfsError
    <3>2. ASSUME NEW fd \in Fd, NEW what \in {"FILE", "FOLDER"},
                 NEW badPath \in {"VFS_INVALID_PATH_FILE", "VFS_INVALID_PATH_DIR"},
                 open(what, badPath, path, fd)
          PROVE  Store!Fail \/ Store!Open(path, what)
      BY <3>2, <1>1, OpenStore
    <3> QED
      BY <2>4, <3>1, <3>2 DEF open_file, open_dir
  <2>5. ASSUME NEW fd \in FdArg, close_file(fd) \/ close_dir(fd) \/ get_next_dir_son(fd)
        PROVE  Store!Fail \/ \E g \in Fd : Store!Close(g) \/ Store!List(g)
    BY <2>5, <1>1, CloseStore, ListStore DEF close_file, close_dir
  <2>6. ASSUME NEW fd \in FdArg, NEW len \in Lens, read_file(fd, len)
        PROVE  Store!Nothing \/ \E g \in Fd : Store!Read(g, len)
    BY <2>6, <1>1, ReadStore
  <2>7. ASSUME NEW fd \in FdArg, NEW str \in Strings, NEW len \in Lens,
               write_file(fd, str, len) \/ append_file(fd, str, len)
        PROVE  \/ Store!Nothing
               \/ \E g \in Fd : Store!Write(g, str, len) \/ Store!Extend(g, str, len)
    BY <2>7, <1>1, WriteStore
  <2> QED
    BY <1>4, <2>1, <2>2, <2>3, <2>4, <2>5, <2>6, <2>7 DEF Call
<1> QED
  BY <1>2, <1>3, <1>4 DEF Next, ErrHang

\* Every call does to the tree, the files and the descriptors what FileStore
\* says, however large the table: the pointers of the inode table, through
\* any calls, stand for sequences of sons of which none is lost, doubled or
\* moved, and a data call touches the bytes of one file (vfs.c, filesystem.c).
THEOREM VfsImplementsFileStore == Spec => StoreSpec
<1>1. Spec => []TreeInv
  BY TreeInvariant
<1>2. Init => Store!Init
  BY StoreInit
<1>3. TreeInv /\ [Next]_vars => [Store!Next]_(Store!vars)
  BY StoreStep
<1> QED
  BY <1>1, <1>2, <1>3, PTL DEF Spec, StoreSpec, Store!Spec
=============================================================================
