------------------------------ MODULE LRUCache ------------------------------
(***************************************************************************)
(* lru::Cache<Key, Value, Lock>: a std::list of <key, value> pairs kept in *)
(* order of use and a std::unordered_map from each key to an iterator into *)
(* that list.  An iterator is the address of a list node; an address that  *)
(* was freed may be handed out again, and an iterator to a freed node      *)
(* dangles.  Each operation runs under the lock of the cache, so it is one *)
(* step here.                                                              *)
(*                                                                         *)
(* remove() is left out: it calls m_cache.remove, which unordered_map does *)
(* not have, so no program that calls it compiles.                         *)
(***************************************************************************)
EXTENDS Naturals, Sequences, FiniteSets, SequencesExt

CONSTANTS Key, Value,
          Node,          \* addresses the list may allocate its nodes at
          MaxSize,       \* m_maxSize, 0 for no limit
          Elasticity     \* m_elasticity

ASSUME SizeAssumption == MaxSize \in Nat /\ Elasticity \in Nat

VARIABLES m_cache,    \* key -> iterator, the hash map
          m_keys,     \* the nodes of the list, front first
          heap,       \* the pair stored at each address
          result,     \* what the last call returned
          aborted     \* get() found no key and called abort()

vars == <<m_cache, m_keys, heap, result, aborted>>

Void    == "void"
Missing == "missing"
Found   == "found"

-----------------------------------------------------------------------------

\* m_cache[key] = node
Bind(cache, key, node) ==
    [k \in DOMAIN cache \cup {key} |-> IF k = key THEN node ELSE cache[k]]

\* The keys of cache that are not in drop.
Unbind(cache, drop) == Restrict(cache, DOMAIN cache \ drop)

\* m_keys.erase(node)
Erase(keys, node) == RemoveAt(keys, CHOOSE i \in DOMAIN keys : keys[i] = node)

\* Faulty: the pair is built in the wrong order.
AllocSwapped(key, value, node) ==
    [heap EXCEPT ![node] = [first |-> value, second |-> key]]

\* The pair of key and value is put into a fresh node.
Alloc(key, value, node) ==
    [heap EXCEPT ![node] = [first |-> key, second |-> value]]

\* Faulty: the map keeps the iterator of the node that was erased.
RefreshUnbound(key, value) ==
    LET kept == Erase(m_keys, m_cache[key])
    IN  \E node \in Node \ ToSet(kept) :
          /\ heap' = Alloc(key, value, node)
          /\ m_keys' = <<node>> \o kept
          /\ UNCHANGED m_cache

\* Faulty: the value is replaced where it is, without a change of the order.
RefreshInPlace(key, value) ==
    /\ heap' = Alloc(key, value, m_cache[key])
    /\ UNCHANGED <<m_cache, m_keys>>

\* The key moves to the front of the list: its node is erased, a new one is
\* pushed, which may reuse the address just freed, and the map is updated.
Refresh(key, value) ==
    LET kept == Erase(m_keys, m_cache[key])
    IN  \E node \in Node \ ToSet(kept) :
          /\ heap' = Alloc(key, value, node)
          /\ m_keys' = <<node>> \o kept
          /\ m_cache' = Bind(m_cache, key, node)

\* Faulty: one key too late.
ExcessLate(cache) ==
    IF MaxSize > 0 /\ Cardinality(DOMAIN cache) > MaxSize + Elasticity
      THEN Cardinality(DOMAIN cache) - MaxSize
      ELSE 0

\* prune(): when the map has outgrown the limit by the elasticity, the keys at
\* the back of the list are dropped until the limit is met again.
Excess(cache) ==
    IF MaxSize > 0 /\ Cardinality(DOMAIN cache) >= MaxSize + Elasticity
      THEN Cardinality(DOMAIN cache) - MaxSize
      ELSE 0

PruneKeys(keys, n) == SubSeq(keys, 1, Len(keys) - n)

PruneCache(cache, keys, mem, n) ==
    Unbind(cache, {mem[keys[i]].first : i \in Len(keys) - n + 1 .. Len(keys)})

-----------------------------------------------------------------------------

Init ==
    /\ m_cache = <<>>
    /\ m_keys = <<>>
    /\ heap \in [Node -> [first : Key, second : Value]]
    /\ result = Void
    /\ aborted = FALSE

Clear ==
    /\ m_cache' = <<>>
    /\ m_keys' = <<>>
    /\ result' = Void
    /\ UNCHANGED <<heap, aborted>>

InsertPresent(key, value) ==
    /\ key \in DOMAIN m_cache
    /\ Refresh(key, value)
    /\ result' = Void
    /\ UNCHANGED aborted

InsertNew(key, value) ==
    /\ key \notin DOMAIN m_cache
    /\ \E node \in Node \ ToSet(m_keys) :
         LET pushed == <<node>> \o m_keys
             bound  == Bind(m_cache, key, node)
             mem    == Alloc(key, value, node)
             n      == Excess(bound)
         IN  /\ heap' = mem
             /\ m_keys' = PruneKeys(pushed, n)
             /\ m_cache' = PruneCache(bound, pushed, mem, n)
    /\ result' = Void
    /\ UNCHANGED aborted

\* The part tryGet and get share: the value is read, and with fresh_key the key
\* is moved to the front.
ReadPresent(key, fresh) ==
    /\ key \in DOMAIN m_cache
    /\ result' = heap[m_cache[key]].second
    /\ IF fresh THEN Refresh(key, heap[m_cache[key]].second)
                ELSE UNCHANGED <<m_cache, m_keys, heap>>
    /\ UNCHANGED aborted

TryGetMissing(key) ==
    /\ key \notin DOMAIN m_cache
    /\ result' = Missing
    /\ UNCHANGED <<m_cache, m_keys, heap, aborted>>

GetMissing(key) ==
    /\ key \notin DOMAIN m_cache
    /\ result' = Missing
    /\ aborted' = TRUE
    /\ UNCHANGED <<m_cache, m_keys, heap>>

ContainsKey(key) ==
    /\ result' = IF key \in DOMAIN m_cache THEN Found ELSE Missing
    /\ UNCHANGED <<m_cache, m_keys, heap, aborted>>

Operation(key) ==
    \/ \E value \in Value : InsertPresent(key, value) \/ InsertNew(key, value)
    \/ \E fresh \in BOOLEAN : ReadPresent(key, fresh)
    \/ TryGetMissing(key)
    \/ GetMissing(key)
    \/ ContainsKey(key)

Next ==
    /\ ~aborted
    /\ Clear \/ \E key \in Key : Operation(key)

Spec == Init /\ [][Next]_vars

-----------------------------------------------------------------------------

\* Every variable has its type: the map holds node addresses for some of the
\* keys and the list is a sequence of addresses.
TypeOK ==
    /\ DOMAIN m_cache \subseteq Key
    /\ m_cache \in [DOMAIN m_cache -> Node]
    /\ m_keys \in Seq(Node)
    /\ heap \in [Node -> [first : Key, second : Value]]
    /\ result \in Value \cup {Void, Missing, Found}
    /\ aborted \in BOOLEAN

\* No two list positions hold the same node.
NodesDistinct(keys) == \A i, j \in DOMAIN keys : keys[i] = keys[j] => i = j

\* Every iterator in the map points to a live node, the one of its own key.
IteratorsLive(cache, keys, mem) ==
    \A k \in DOMAIN cache :
        \E i \in DOMAIN keys : keys[i] = cache[k] /\ mem[keys[i]].first = k

\* Every list node is the one the map leads to for its key.
NodesIndexed(cache, keys, mem) ==
    \A i \in DOMAIN keys :
        /\ mem[keys[i]].first \in DOMAIN cache
        /\ cache[mem[keys[i]].first] = keys[i]

Agree(cache, keys, mem) ==
    /\ NodesDistinct(keys)
    /\ IteratorsLive(cache, keys, mem)
    /\ NodesIndexed(cache, keys, mem)

\* The map and the list describe the same keys, through every erase, push_front
\* and prune (insert, tryGet, get, prune): erase() is never given a dangling
\* iterator, and prune() never leaves a key in the map whose node it popped.
IndexMatchesList == Agree(m_cache, m_keys, heap)

\* The cache never stays larger than the limit plus the elasticity allow: after
\* each operation it holds at most MaxSize + Elasticity - 1 keys, or MaxSize
\* when the elasticity is 0.
SizeBounded ==
    MaxSize > 0 =>
        \/ Cardinality(DOMAIN m_cache) <= MaxSize
        \/ Cardinality(DOMAIN m_cache) < MaxSize + Elasticity

-----------------------------------------------------------------------------

\* The order of use and the values an observer of the cache could reconstruct.
Store == INSTANCE LRUStore WITH
    recent <- [i \in DOMAIN m_keys |-> heap[m_keys[i]].first],
    stored <- [k \in DOMAIN m_cache |-> heap[m_cache[k]].second]

\* The pointer structure implements the plain store: every lookup answers with
\* the last value inserted under its key, and insert() drops only keys from the
\* cold end of the order of use.
ImplementsStore == Store!Spec

=============================================================================
