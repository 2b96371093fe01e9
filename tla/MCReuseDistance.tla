-------------------------- MODULE MCReuseDistance ---------------------------
(* Small instances of ReuseDistance: the records of a few threads in every   *)
(* order, with the report taken at any moment.                               *)
EXTENDS ReuseDistance, TLC

Symmetry == Permutations(Tid)

=============================================================================
