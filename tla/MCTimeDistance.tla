--------------------------- MODULE MCTimeDistance ---------------------------
(* Small instances of TimeDistance: every trace of at most MaxRefs           *)
(* references, up to a renaming of the addresses.                            *)
EXTENDS TimeDistance, TLC

Symmetry == Permutations(Addr)

=============================================================================
