----------------------------- MODULE MCLRUCache -----------------------------
(* Small instances of LRUCache. *)
EXTENDS LRUCache, TLC

\* Keys, values and addresses are interchangeable.
Symmetry == Permutations(Key) \cup Permutations(Value) \cup Permutations(Node)

=============================================================================
