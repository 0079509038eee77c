---------------------------- MODULE MCJffs2Frags ----------------------------
(***************************************************************************)
(* One file of jffs2 for TLC: two pages of two bytes.  The writes fill a   *)
(* page, change a byte, cross the pages with a hole before, and start      *)
(* behind the end; one size cuts inside a page, one grows the file.        *)
(***************************************************************************)
EXTENDS Jffs2Frags

SomeWrites == {<<0, 2>>, <<1, 1>>, <<1, 3>>, <<3, 1>>}
SomeSizes == {1, 4}

\* The order they were written in, the reverse, and one with neither (K = 6).
SomeOrders == {[i \in Nodes |-> i], [i \in Nodes |-> K + 1 - i], [i \in Nodes |-> (3 * i) % 7]}
=============================================================================
