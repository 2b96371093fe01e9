--------------------------- MODULE MCParallelSums ----------------------------
(* Two workers with two reuses each; two distances can overflow a bank.      *)
EXTENDS ParallelSums, TLC

Symmetry == Permutations(Worker)
=============================================================================
