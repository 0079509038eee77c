---------------------------- MODULE MCJffs2Space ----------------------------
(***************************************************************************)
(* A name whose entry fits a block with its summary twice, and one whose   *)
(* entry fits once.                                                        *)
(***************************************************************************)
EXTENDS Jffs2Space

ShortAndLong == [k \in Names |-> IF k = "a" THEN 1 ELSE 2]
=============================================================================
