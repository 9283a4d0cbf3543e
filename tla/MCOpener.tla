------------------------------ MODULE MCOpener ------------------------------
(* A small instance of OpenerHistory. *)
EXTENDS OpenerHistory, TLC

Symmetry == Permutations(Names)
=============================================================================
