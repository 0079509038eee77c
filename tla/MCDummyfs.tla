----------------------------- MODULE MCDummyfs ------------------------------
(* Names are interchangeable.                                              *)
EXTENDS Dummyfs, TLC

Symmetry == Permutations(Names)
=============================================================================
