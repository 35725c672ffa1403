---------------------------- MODULE MCUserProgram ----------------------------
(***************************************************************************)
(* The user program at a smaller size: strings of two bytes, five inodes,  *)
(* which are all it uses at a time, one descriptor and up to MaxTicks      *)
(* interrupts in each call, one below another or one after another.        *)
(***************************************************************************)
EXTENDS UserProgram

MCString == [k \in Offset |-> 1 + (k % 2)]
=============================================================================
