------------------------------ MODULE LRUStore ------------------------------
(***************************************************************************)
(* What lru::Cache promises to the reuse-distance tools, without its list, *)
(* its hash map or its iterators.                                          *)
(*                                                                         *)
(* A store holds one value per key and an order of use.  Storing a key it  *)
(* already holds drops nothing.  Storing a new key may drop keys, but only *)
(* from the cold end of the order, and never so many that fewer than       *)
(* MaxSize remain.  A lookup answers with the last value stored.           *)
(***************************************************************************)
EXTENDS Naturals, Sequences, SequencesExt

CONSTANTS Key, Value, MaxSize, Elasticity,
          Void,       \* the call returns nothing
          Missing,    \* the key was not found
          Found       \* the key was found

VARIABLES recent,    \* the keys held, the most recently used one first
          stored,    \* the value held for each of them
          result,    \* what the last call returned
          aborted    \* the process was ended by a get() of a missing key

vars == <<recent, stored, result, aborted>>

-----------------------------------------------------------------------------

\* The order of use once key, which it holds, becomes the most recent one.
Promote(key) ==
    <<key>> \o RemoveAt(recent, CHOOSE i \in DOMAIN recent : recent[i] = key)

\* Faulty: prune() removes the key that reaches MaxSize, too.
MayRetainLess(n, size) ==
    IF MaxSize = 0
      THEN n = size
      ELSE /\ n \in 0..size
           /\ n <= MaxSize + Elasticity
           /\ n >= MaxSize - 1 \/ n = size

\* How many of size keys may be left after a new key was stored.
MayRetain(n, size) ==
    IF MaxSize = 0
      THEN n = size
      ELSE /\ n \in 0..size
           /\ n <= MaxSize + Elasticity
           /\ n >= MaxSize \/ n = size

Init ==
    /\ recent = <<>>
    /\ stored = <<>>
    /\ result = Void
    /\ aborted = FALSE

Clear ==
    /\ recent' = <<>>
    /\ stored' = <<>>
    /\ result' = Void
    /\ UNCHANGED aborted

StorePresent(key, value) ==
    /\ key \in DOMAIN stored
    /\ recent' = Promote(key)
    /\ stored' = [stored EXCEPT ![key] = value]
    /\ result' = Void
    /\ UNCHANGED aborted

StoreNew(key, value) ==
    /\ key \notin DOMAIN stored
    /\ \E n \in 0..Len(recent) + 1 :
         /\ MayRetain(n, Len(recent) + 1)
         /\ recent' = SubSeq(<<key>> \o recent, 1, n)
         /\ stored' = [k \in ToSet(recent') |->
                         IF k = key THEN value ELSE stored[k]]
    /\ result' = Void
    /\ UNCHANGED aborted

\* tryGet and get; a fresh lookup counts as a use of the key.
LookupPresent(key, fresh) ==
    /\ key \in DOMAIN stored
    /\ recent' = IF fresh THEN Promote(key) ELSE recent
    /\ result' = stored[key]
    /\ UNCHANGED <<stored, aborted>>

LookupMissing(key) ==
    /\ key \notin DOMAIN stored
    /\ result' = Missing
    /\ UNCHANGED <<recent, stored>>
    /\ aborted' \in BOOLEAN     \* get() aborts, tryGet() does not

ContainsKey(key) ==
    /\ result' = IF key \in DOMAIN stored THEN Found ELSE Missing
    /\ UNCHANGED <<recent, stored, aborted>>

Next ==
    /\ ~aborted
    /\ \/ Clear
       \/ \E key \in Key :
            \/ \E value \in Value : StorePresent(key, value) \/ StoreNew(key, value)
            \/ \E fresh \in BOOLEAN : LookupPresent(key, fresh)
            \/ LookupMissing(key)
            \/ ContainsKey(key)

Spec == Init /\ [][Next]_vars

=============================================================================
