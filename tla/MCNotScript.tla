---------------------------- MODULE MCNotScript ----------------------------
(* Instances of NotScript for TLC. *)
EXTENDS NotScript

File == [kind |-> "file", n |-> 0]
Blk == [kind |-> "blk", n |-> 0]
Loop == [kind |-> "loop", n |-> 1]
Alias == [kind |-> "alias", n |-> 1]

(* two images; an image and the loop device of somebody else, by its own   *)
(* name; an image and another block device                                 *)
Pair(second) == [v \in Vbds |-> IF v = "v1" THEN File ELSE second]
UsualParams == {Pair(File), Pair(Loop), Pair(Blk)}

(* the loop device of somebody else by another name *)
AliasParams == {Pair(Alias)}
=============================================================================
