---------------------------- MODULE MCVfsHistory -----------------------------
(***************************************************************************)
(* Small instances of VfsHistory, with the values of MCVfs.                *)
(***************************************************************************)
EXTENDS VfsHistory, MCVfs

\* As NoReply: neither Remember nor the properties of VfsHistory read reply.
HNoReply == <<NoReply, seen, due, cut, orphan>>
=============================================================================
