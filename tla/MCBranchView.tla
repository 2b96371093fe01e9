---------------------------- MODULE MCBranchView ----------------------------
(* Small instances of BranchView: the window with every kind of record, and  *)
(* the branches of two threads in every order.                               *)
EXTENDS BranchView, TLC

Symmetry == Permutations(Thread) \cup Permutations(Version)

=============================================================================
