-------------------------------- MODULE MCVfs --------------------------------
(***************************************************************************)
(* Small instances of Vfs.  Two or three names are enough for twins (two   *)
(* sons of one name) and for a name given back to a new inode; the paths   *)
(* are those of at most PathDepth names, with or without a slash at the    *)
(* end, and one of each kind that is refused at sight.                     *)
(***************************************************************************)
EXTENDS VfsStore, TLC

CONSTANT PathDepth

\* Values for CONSTANTs of Vfs.
MCPlain   == UNION {[1 .. n -> Names] : n \in 1 .. PathDepth}
MCPaths   == MCPlain \cup {<<nm, "">> : nm \in Names}
                \cup {<<>>, <<"">>, <<TooLong>>}
MCShort   == {<<"">>} \cup MCPlain
MCStrings == {[k \in Offset |-> 1 - (k % 2)]}
MCNone    == {}
MCSymmetry == Permutations(Names)

\* No action reads reply, so states that differ in it only have the same
\* future; what a call gives back is checked on every step by the action
\* properties, which TLC evaluates whether or not a step ends in a new state.
NoReply == <<inodes, fds, halted>>
=============================================================================
