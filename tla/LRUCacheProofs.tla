--------------------------- MODULE LRUCacheProofs ---------------------------
(***************************************************************************)
(* Proofs about LRUCache for every set of keys, values and addresses and   *)
(* every limit and elasticity.  The invariant is WellFormed: the types     *)
(* together with the agreement of the map and the list.  One lemma per     *)
(* manipulation of the list shows that it keeps WellFormed; the operations *)
(* are compositions of those manipulations.                                *)
(*                                                                         *)
(* The second half shows that LRUCache implements LRUStore.  Recent and    *)
(* Stored are the refinement mapping as operators; one lemma per           *)
(* manipulation of the list says what it does to them, one lemma per       *)
(* operation of the cache that it is a step of the store.                  *)
(***************************************************************************)
EXTENDS LRUCache, DataProofs, FiniteSetTheorems, SequenceTheorems, TLAPS

Pair == [first : Key, second : Value]

\* The types of the map, the list and the memory, and their agreement.
WellFormed(cache, keys, mem) ==
    /\ DOMAIN cache \subseteq Key
    /\ cache \in [DOMAIN cache -> Node]
    /\ keys \in Seq(Node)
    /\ mem \in [Node -> Pair]
    /\ Agree(cache, keys, mem)

-----------------------------------------------------------------------------
(* Facts about the list operations. *)

\* What pop_back(), n times, leaves of a list.
LEMMA PruneProperties ==
    ASSUME NEW S, NEW s \in Seq(S), NEW n \in 0 .. Len(s)
    PROVE  /\ PruneKeys(s, n) \in Seq(S)
           /\ Len(PruneKeys(s, n)) = Len(s) - n
           /\ \A j \in 1 .. Len(s) - n : PruneKeys(s, n)[j] = s[j]
<1>1. Len(s) \in Nat
  BY LenProperties
<1>2. \A j \in 1 .. Len(s) - n : s[j] \in S
  BY <1>1, ElementOfSeq
<1>3. QED
  BY <1>1, <1>2, SubSeqProperties DEF PruneKeys

-----------------------------------------------------------------------------
(* Each manipulation keeps the map and the list in agreement. *)

\* Erasing the node of a key and the key itself.
LEMMA EraseKeepsAgreement ==
    ASSUME NEW cache, NEW keys, NEW mem, WellFormed(cache, keys, mem),
           NEW key \in DOMAIN cache
    PROVE  WellFormed(Unbind(cache, {key}), Erase(keys, cache[key]), mem)
<1> DEFINE pos  == CHOOSE i \in DOMAIN keys : keys[i] = cache[key]
           kept == Erase(keys, cache[key])
           left == Unbind(cache, {key})
<1>1. pos \in DOMAIN keys /\ keys[pos] = cache[key] /\ mem[keys[pos]].first = key
  <2>1. PICK i \in DOMAIN keys : keys[i] = cache[key] /\ mem[keys[i]].first = key
    BY DEF WellFormed, Agree, IteratorsLive
  <2>2. QED
    BY <2>1
<1>2. keys \in Seq(Node) /\ DOMAIN keys = 1 .. Len(keys) /\ Len(keys) \in Nat
  BY LenProperties DEF WellFormed
<1>3. /\ kept \in Seq(Node) /\ Len(kept) = Len(keys) - 1
      /\ \A j \in 1 .. Len(keys) - 1 :
           kept[j] = IF j < pos THEN keys[j] ELSE keys[j + 1]
  <2>1. kept = RemoveAt(keys, pos)
    BY DEF Erase
  <2> HIDE DEF pos, kept
  <2>2. QED
    BY <1>1, <1>2, <2>1, EraseProperties
<1>4. DOMAIN kept = 1 .. Len(keys) - 1
  BY <1>3, LenProperties
<1>5. /\ DOMAIN left = DOMAIN cache \ {key}
      /\ \A k \in DOMAIN cache \ {key} : left[k] = cache[k]
  BY DEF Unbind, Restrict
<1>6. /\ DOMAIN left \subseteq Key /\ left \in [DOMAIN left -> Node]
      /\ mem \in [Node -> Pair]
  BY <1>5 DEF WellFormed, Unbind, Restrict
<1> HIDE DEF pos, kept, left
<1>7. NodesDistinct(kept)
  <2> SUFFICES ASSUME NEW i \in DOMAIN kept, NEW j \in DOMAIN kept, kept[i] = kept[j]
               PROVE  i = j
    BY DEF NodesDistinct
  <2> DEFINE old(m) == IF m < pos THEN m ELSE m + 1
  <2>1. \A m, n \in DOMAIN keys : keys[m] = keys[n] => m = n
    BY DEF WellFormed, Agree, NodesDistinct
  <2>2. \A m \in DOMAIN kept : old(m) \in DOMAIN keys /\ kept[m] = keys[old(m)]
    BY <1>1, <1>2, <1>3, <1>4
  <2>3. old(i) = old(j)
    BY <2>1, <2>2
  <2>4. QED
    BY <1>1, <1>2, <1>4, <2>3
<1>8. IteratorsLive(left, kept, mem)
  <2> SUFFICES ASSUME NEW k \in DOMAIN left
               PROVE  \E i \in DOMAIN kept : kept[i] = left[k] /\ mem[kept[i]].first = k
    BY DEF IteratorsLive
  <2>1. PICK i \in DOMAIN keys : keys[i] = cache[k] /\ mem[keys[i]].first = k
    BY <1>5 DEF WellFormed, Agree, IteratorsLive
  <2>2. i # pos
    BY <1>1, <1>5, <2>1
  <2>3. CASE i < pos
    <3>1. i \in DOMAIN kept /\ kept[i] = keys[i]
      BY <1>1, <1>2, <1>3, <1>4, <2>3
    <3>2. QED
      BY <1>5, <2>1, <3>1
  <2>4. CASE i > pos
    <3>1. i - 1 \in DOMAIN kept /\ kept[i - 1] = keys[i]
      BY <1>1, <1>2, <1>3, <1>4, <2>4
    <3>2. QED
      BY <1>5, <2>1, <3>1
  <2>5. QED
    BY <1>1, <1>2, <2>2, <2>3, <2>4
<1>9. NodesIndexed(left, kept, mem)
  <2> SUFFICES ASSUME NEW j \in DOMAIN kept
               PROVE  /\ mem[kept[j]].first \in DOMAIN left
                      /\ left[mem[kept[j]].first] = kept[j]
    BY DEF NodesIndexed
  <2>1. PICK i \in DOMAIN keys : i # pos /\ kept[j] = keys[i]
    <3>1. CASE j < pos
      BY <1>1, <1>2, <1>3, <1>4, <3>1
    <3>2. CASE j >= pos
      <4>1. j + 1 \in DOMAIN keys /\ j + 1 # pos /\ kept[j] = keys[j + 1]
        BY <1>1, <1>2, <1>3, <1>4, <3>2
      <4>2. QED
        BY <4>1
    <3>3. QED
      BY <1>1, <1>2, <1>4, <3>1, <3>2
  <2>2. mem[keys[i]].first \in DOMAIN cache /\ cache[mem[keys[i]].first] = keys[i]
    BY DEF WellFormed, Agree, NodesIndexed
  <2>3. mem[keys[i]].first # key
    BY <1>1, <2>1, <2>2 DEF WellFormed, Agree, NodesDistinct
  <2>4. QED
    BY <1>5, <2>1, <2>2, <2>3
<1>10. QED
  BY <1>3, <1>6, <1>7, <1>8, <1>9 DEF WellFormed, Agree, kept, left

\* Pushing a node for a key the map does not hold.
LEMMA PushKeepsAgreement ==
    ASSUME NEW cache, NEW keys, NEW mem, WellFormed(cache, keys, mem),
           NEW key \in Key \ DOMAIN cache, NEW value \in Value,
           NEW node \in Node \ ToSet(keys)
    PROVE  WellFormed(Bind(cache, key, node), <<node>> \o keys,
                      [mem EXCEPT ![node] = [first |-> key, second |-> value]])
<1> DEFINE pushed == <<node>> \o keys
           bound  == Bind(cache, key, node)
           mem2   == [mem EXCEPT ![node] = [first |-> key, second |-> value]]
<1>1. keys \in Seq(Node) /\ DOMAIN keys = 1 .. Len(keys) /\ Len(keys) \in Nat
  BY LenProperties DEF WellFormed
<1>2. /\ pushed \in Seq(Node) /\ Len(pushed) = Len(keys) + 1 /\ pushed[1] = node
      /\ \A j \in 1 .. Len(keys) : pushed[j + 1] = keys[j]
  BY <1>1, PushProperties
<1>3. DOMAIN pushed = 1 .. Len(keys) + 1
  BY <1>2, LenProperties
<1>4. \A i \in DOMAIN keys : keys[i] # node /\ keys[i] \in Node
  BY <1>1, ElementOfSeq DEF ToSet
<1>5. /\ DOMAIN bound = DOMAIN cache \cup {key} /\ bound[key] = node
      /\ \A k \in DOMAIN cache : bound[k] = cache[k]
  BY DEF Bind
<1>6. /\ DOMAIN bound \subseteq Key /\ bound \in [DOMAIN bound -> Node]
  BY DEF WellFormed, Bind
<1>7. /\ mem2 \in [Node -> Pair] /\ mem2[node].first = key
      /\ \A n \in Node \ {node} : mem2[n] = mem[n]
  BY DEF WellFormed, Pair
<1> HIDE DEF pushed, bound, mem2
<1>8. \A i \in DOMAIN keys : mem2[keys[i]] = mem[keys[i]]
  BY <1>4, <1>7
<1>9. \A j \in DOMAIN pushed : j # 1 => j - 1 \in DOMAIN keys /\ pushed[j] = keys[j - 1]
  <2> SUFFICES ASSUME NEW j \in DOMAIN pushed, j # 1
               PROVE  j - 1 \in DOMAIN keys /\ pushed[j] = keys[j - 1]
    OBVIOUS
  <2>1. j - 1 \in 1 .. Len(keys) /\ (j - 1) + 1 = j
    BY <1>1, <1>3
  <2>2. pushed[(j - 1) + 1] = keys[j - 1]
    BY <1>2, <2>1
  <2>3. QED
    BY <1>1, <2>1, <2>2
<1>10. NodesDistinct(pushed)
  <2> SUFFICES ASSUME NEW i \in DOMAIN pushed, NEW j \in DOMAIN pushed,
                      pushed[i] = pushed[j]
               PROVE  i = j
    BY DEF NodesDistinct
  <2>1. CASE i = 1 \/ j = 1
    BY <1>2, <1>4, <1>9, <2>1
  <2>2. CASE i # 1 /\ j # 1
    <3>1. i - 1 \in DOMAIN keys /\ j - 1 \in DOMAIN keys /\ keys[i - 1] = keys[j - 1]
      BY <1>9, <2>2
    <3>2. i - 1 = j - 1
      BY <3>1 DEF WellFormed, Agree, NodesDistinct
    <3>3. QED
      BY <1>3, <3>2
  <2>3. QED
    BY <2>1, <2>2
<1>11. IteratorsLive(bound, pushed, mem2)
  <2> SUFFICES ASSUME NEW k \in DOMAIN bound
               PROVE  \E i \in DOMAIN pushed :
                        pushed[i] = bound[k] /\ mem2[pushed[i]].first = k
    BY DEF IteratorsLive
  <2>1. CASE k = key
    <3>1. 1 \in DOMAIN pushed
      BY <1>1, <1>3
    <3>2. QED
      BY <1>2, <1>5, <1>7, <2>1, <3>1
  <2>2. CASE k # key
    <3>1. PICK i \in DOMAIN keys : keys[i] = cache[k] /\ mem[keys[i]].first = k
      BY <1>5, <2>2 DEF WellFormed, Agree, IteratorsLive
    <3>2. i + 1 \in DOMAIN pushed /\ pushed[i + 1] = keys[i]
      BY <1>1, <1>2, <1>3
    <3>3. QED
      BY <1>5, <1>8, <2>2, <3>1, <3>2
  <2>3. QED
    BY <2>1, <2>2
<1>12. NodesIndexed(bound, pushed, mem2)
  <2> SUFFICES ASSUME NEW j \in DOMAIN pushed
               PROVE  /\ mem2[pushed[j]].first \in DOMAIN bound
                      /\ bound[mem2[pushed[j]].first] = pushed[j]
    BY DEF NodesIndexed
  <2>1. CASE j = 1
    BY <1>2, <1>5, <1>7, <2>1
  <2>2. CASE j # 1
    <3>1. j - 1 \in DOMAIN keys /\ pushed[j] = keys[j - 1]
      BY <1>9, <2>2
    <3>2. /\ mem[keys[j - 1]].first \in DOMAIN cache
          /\ cache[mem[keys[j - 1]].first] = keys[j - 1]
      BY <3>1 DEF WellFormed, Agree, NodesIndexed
    <3>3. QED
      BY <1>5, <1>8, <3>1, <3>2
  <2>3. QED
    BY <2>1, <2>2
<1>13. QED
  BY <1>2, <1>6, <1>7, <1>10, <1>11, <1>12 DEF WellFormed, Agree, pushed, bound, mem2

\* Popping n nodes from the back together with their keys.
LEMMA PruneKeepsAgreement ==
    ASSUME NEW cache, NEW keys, NEW mem, WellFormed(cache, keys, mem),
           NEW n \in 0 .. Len(keys)
    PROVE  WellFormed(PruneCache(cache, keys, mem, n), PruneKeys(keys, n), mem)
<1> DEFINE drop == {mem[keys[i]].first : i \in Len(keys) - n + 1 .. Len(keys)}
           left == PruneCache(cache, keys, mem, n)
           kept == PruneKeys(keys, n)
<1>1. keys \in Seq(Node) /\ DOMAIN keys = 1 .. Len(keys) /\ Len(keys) \in Nat
  BY LenProperties DEF WellFormed
<1>2. /\ kept \in Seq(Node) /\ Len(kept) = Len(keys) - n
      /\ \A j \in 1 .. Len(keys) - n : kept[j] = keys[j]
  BY <1>1, PruneProperties
<1>3. DOMAIN kept = 1 .. Len(keys) - n
  BY <1>2, LenProperties
<1>4. /\ DOMAIN left = DOMAIN cache \ drop
      /\ \A k \in DOMAIN cache \ drop : left[k] = cache[k]
  BY DEF PruneCache, Unbind, Restrict
<1>5. DOMAIN left \subseteq Key /\ left \in [DOMAIN left -> Node]
  BY DEF WellFormed, PruneCache, Unbind, Restrict
<1> HIDE DEF left, kept
<1>6. DOMAIN kept \subseteq DOMAIN keys /\ \A i \in DOMAIN kept : kept[i] = keys[i]
  BY <1>1, <1>2, <1>3
<1>7. \A i, j \in DOMAIN keys : mem[keys[i]].first = mem[keys[j]].first => i = j
  BY DEF WellFormed, Agree, NodesIndexed, NodesDistinct
<1>8. \A i \in DOMAIN keys : i \in DOMAIN kept <=> mem[keys[i]].first \notin drop
  <2> SUFFICES ASSUME NEW i \in DOMAIN keys
               PROVE  i \in DOMAIN kept <=> mem[keys[i]].first \notin drop
    OBVIOUS
  <2>1. i \in DOMAIN kept <=> ~(i \in Len(keys) - n + 1 .. Len(keys))
    BY <1>1, <1>3
  <2>2. Len(keys) - n + 1 .. Len(keys) \subseteq DOMAIN keys
    BY <1>1
  <2>3. QED
    BY <1>7, <2>1, <2>2
<1> HIDE DEF drop
<1>9. NodesDistinct(kept)
  BY <1>6 DEF WellFormed, Agree, NodesDistinct
<1>10. IteratorsLive(left, kept, mem)
  <2> SUFFICES ASSUME NEW k \in DOMAIN left
               PROVE  \E i \in DOMAIN kept : kept[i] = left[k] /\ mem[kept[i]].first = k
    BY DEF IteratorsLive
  <2>1. PICK i \in DOMAIN keys : keys[i] = cache[k] /\ mem[keys[i]].first = k
    BY <1>4 DEF WellFormed, Agree, IteratorsLive
  <2>2. QED
    BY <1>4, <1>6, <1>8, <2>1
<1>11. NodesIndexed(left, kept, mem)
  BY <1>4, <1>6, <1>8 DEF WellFormed, Agree, NodesIndexed
<1>12. QED
  BY <1>2, <1>5, <1>9, <1>10, <1>11 DEF WellFormed, Agree, left, kept

\* The map holds as many keys as the list has nodes.
LEMMA MapAndListSameSize ==
    ASSUME NEW cache, NEW keys, NEW mem, WellFormed(cache, keys, mem)
    PROVE  IsFiniteSet(DOMAIN cache) /\ Cardinality(DOMAIN cache) = Len(keys)
<1> DEFINE f == [i \in 1 .. Len(keys) |-> mem[keys[i]].first]
<1>1. DOMAIN keys = 1 .. Len(keys) /\ Len(keys) \in Nat
  BY LenProperties DEF WellFormed
<1>2. f \in [1 .. Len(keys) -> DOMAIN cache]
  BY <1>1 DEF WellFormed, Agree, NodesIndexed
<1>3. \A i, j \in 1 .. Len(keys) : f[i] = f[j] => i = j
  BY <1>1 DEF WellFormed, Agree, NodesIndexed, NodesDistinct
<1>4. \A k \in DOMAIN cache : \E i \in 1 .. Len(keys) : f[i] = k
  BY <1>1 DEF WellFormed, Agree, IteratorsLive
<1>5. f \in Bijection(1 .. Len(keys), DOMAIN cache)
  <2> HIDE DEF f
  <2>1. DOMAIN f = 1 .. Len(keys)
    BY <1>2
  <2>2. QED
    BY <1>2, <1>3, <1>4, <2>1 DEF Bijection, Injection, Surjection, IsInjective
<1>6. ExistsBijection(1 .. Len(keys), DOMAIN cache)
  BY <1>5 DEF ExistsBijection
<1> HIDE DEF f
<1>7. IsFiniteSet(1 .. Len(keys)) /\ Cardinality(1 .. Len(keys)) = Len(keys)
  <2> DEFINE m == Len(keys)
  <2>1. m \in Nat
    BY <1>1
  <2> HIDE DEF m
  <2>2. /\ IsFiniteSet(1 .. m)
        /\ Cardinality(1 .. m) = IF 1 > m THEN 0 ELSE m - 1 + 1
    BY <2>1, FS_Interval
  <2>3. (IF 1 > m THEN 0 ELSE m - 1 + 1) = m
    BY <2>1
  <2>4. QED
    BY <2>2, <2>3 DEF m
<1>8. QED
  BY <1>6, <1>7, FS_Bijection

-----------------------------------------------------------------------------
(* The invariant of the cache. *)

\* What the step lemmas need to know of a state.
Inv ==
    /\ WellFormed(m_cache, m_keys, heap)
    /\ result \in Value \cup {Void, Missing, Found}
    /\ aborted \in BOOLEAN
    /\ SizeBounded

\* Moving a key to the front: an erase followed by a push of the same key.
LEMMA RefreshKeepsAgreement ==
    ASSUME WellFormed(m_cache, m_keys, heap),
           NEW key \in DOMAIN m_cache, NEW value \in Value, Refresh(key, value)
    PROVE  /\ WellFormed(m_cache', m_keys', heap')
           /\ DOMAIN m_cache' = DOMAIN m_cache
<1> DEFINE kept == Erase(m_keys, m_cache[key])
           left == Unbind(m_cache, {key})
<1>1. PICK node \in Node \ ToSet(kept) :
        /\ heap' = [heap EXCEPT ![node] = [first |-> key, second |-> value]]
        /\ m_keys' = <<node>> \o kept
        /\ m_cache' = Bind(m_cache, key, node)
  BY DEF Refresh, Alloc
<1>2. WellFormed(left, kept, heap)
  BY EraseKeepsAgreement
<1>3. key \in Key \ DOMAIN left
  BY DEF WellFormed, Unbind, Restrict
<1>4. Bind(left, key, node) = m_cache'
  <2>1. DOMAIN left = DOMAIN m_cache \ {key}
    BY DEF Unbind, Restrict
  <2>2. \A k \in DOMAIN left : left[k] = m_cache[k]
    BY DEF Unbind, Restrict
  <2> HIDE DEF left
  <2>3. DOMAIN left \cup {key} = DOMAIN m_cache \cup {key}
    BY <2>1
  <2>4. \A k \in DOMAIN left \cup {key} :
          (IF k = key THEN node ELSE left[k]) = (IF k = key THEN node ELSE m_cache[k])
    BY <2>2
  <2>5. QED
    BY <1>1, <2>3, <2>4 DEF Bind
<1> HIDE DEF left, kept
<1>5. WellFormed(Bind(left, key, node), <<node>> \o kept,
                 [heap EXCEPT ![node] = [first |-> key, second |-> value]])
  BY <1>2, <1>3, PushKeepsAgreement
<1>6. DOMAIN m_cache' = DOMAIN m_cache
  BY <1>1 DEF Bind
<1>7. QED
  BY <1>1, <1>4, <1>5, <1>6

\* Inserting a new key: a push followed by prune(), which leaves MaxSize keys
\* if it drops any.
LEMMA InsertNewKeepsInv ==
    ASSUME Inv, NEW key \in Key, NEW value \in Value, InsertNew(key, value)
    PROVE  WellFormed(m_cache', m_keys', heap') /\ SizeBounded'
<1>1. PICK node \in Node \ ToSet(m_keys) :
        LET pushed == <<node>> \o m_keys
            bound  == Bind(m_cache, key, node)
            mem    == [heap EXCEPT ![node] = [first |-> key, second |-> value]]
            n      == Excess(bound)
        IN  /\ heap' = mem
            /\ m_keys' = PruneKeys(pushed, n)
            /\ m_cache' = PruneCache(bound, pushed, mem, n)
  BY DEF InsertNew, Alloc
<1> DEFINE pushed == <<node>> \o m_keys
           bound  == Bind(m_cache, key, node)
           mem    == [heap EXCEPT ![node] = [first |-> key, second |-> value]]
           n      == Excess(bound)
<1>2. key \notin DOMAIN m_cache
  BY DEF InsertNew
<1>3. WellFormed(bound, pushed, mem)
  BY <1>2, PushKeepsAgreement DEF Inv
<1>4. /\ heap' = mem
      /\ m_keys' = PruneKeys(pushed, n)
      /\ m_cache' = PruneCache(bound, pushed, mem, n)
  BY <1>1
<1>5. n = IF MaxSize > 0 /\ Cardinality(DOMAIN bound) >= MaxSize + Elasticity
            THEN Cardinality(DOMAIN bound) - MaxSize ELSE 0
  BY DEF Excess
<1> HIDE DEF pushed, bound, mem, n
<1>6. Cardinality(DOMAIN bound) = Len(pushed) /\ Len(pushed) \in Nat
  BY <1>3, MapAndListSameSize, LenProperties DEF WellFormed
<1>7. n \in 0 .. Len(pushed)
  BY <1>5, <1>6, SizeAssumption
<1>8. WellFormed(m_cache', m_keys', heap')
  BY <1>3, <1>4, <1>7, PruneKeepsAgreement
<1>9. Cardinality(DOMAIN m_cache') = Len(pushed) - n
  <2>1. Cardinality(DOMAIN m_cache') = Len(m_keys')
    BY <1>8, MapAndListSameSize
  <2>2. Len(PruneKeys(pushed, n)) = Len(pushed) - n
    BY <1>3, <1>7, PruneProperties DEF WellFormed
  <2>3. QED
    BY <1>4, <2>1, <2>2
<1>10. SizeBounded'
  <2> SUFFICES ASSUME MaxSize > 0
               PROVE  \/ Cardinality(DOMAIN m_cache') <= MaxSize
                      \/ Cardinality(DOMAIN m_cache') < MaxSize + Elasticity
    BY DEF SizeBounded
  <2>1. QED
    BY <1>5, <1>6, <1>9, SizeAssumption
<1>11. QED
  BY <1>8, <1>10

\* Every step of the cache keeps the invariant.
LEMMA NextKeepsInv == Inv /\ [Next]_vars => Inv'
<1> SUFFICES ASSUME Inv, [Next]_vars
             PROVE  Inv'
  OBVIOUS
<1>1. CASE Clear
  <2>1. /\ m_cache' = <<>> /\ m_keys' = <<>> /\ heap' = heap
        /\ result' = Void /\ aborted' = aborted
    BY <1>1 DEF Clear
  <2>2. DOMAIN m_cache' = {}
    BY <2>1
  <2>3. WellFormed(m_cache', m_keys', heap')
    BY <2>1, <2>2 DEF Inv, WellFormed, Agree, NodesDistinct, IteratorsLive, NodesIndexed
  <2>4. SizeBounded'
    <3>1. Cardinality(DOMAIN m_cache') = 0
      BY <2>2, FS_EmptySet
    <3>2. QED
      BY <3>1, SizeAssumption DEF SizeBounded
  <2>5. QED
    BY <2>1, <2>3, <2>4 DEF Inv
<1>2. ASSUME NEW key \in Key, NEW value \in Value, InsertPresent(key, value)
      PROVE  Inv'
  <2>1. WellFormed(m_cache', m_keys', heap') /\ DOMAIN m_cache' = DOMAIN m_cache
    BY <1>2, RefreshKeepsAgreement DEF InsertPresent, Inv
  <2>2. QED
    BY <1>2, <2>1 DEF InsertPresent, Inv, SizeBounded
<1>3. ASSUME NEW key \in Key, NEW value \in Value, InsertNew(key, value)
      PROVE  Inv'
  <2>1. WellFormed(m_cache', m_keys', heap') /\ SizeBounded'
    BY <1>3, InsertNewKeepsInv
  <2>2. QED
    BY <1>3, <2>1 DEF InsertNew, Inv
<1>4. ASSUME NEW key \in Key, NEW fresh \in BOOLEAN, ReadPresent(key, fresh)
      PROVE  Inv'
  <2>1. key \in DOMAIN m_cache
    BY <1>4 DEF ReadPresent
  <2>2. heap[m_cache[key]].second \in Value
    BY <2>1 DEF Inv, WellFormed, Pair
  <2>3. CASE fresh
    <3>1. WellFormed(m_cache', m_keys', heap') /\ DOMAIN m_cache' = DOMAIN m_cache
      BY <1>4, <2>1, <2>2, <2>3, RefreshKeepsAgreement DEF ReadPresent, Inv
    <3>2. QED
      BY <1>4, <2>2, <3>1 DEF ReadPresent, Inv, SizeBounded
  <2>4. CASE ~fresh
    BY <1>4, <2>2, <2>4 DEF ReadPresent, Inv, SizeBounded
  <2>5. QED
    BY <2>3, <2>4
<1>5. ASSUME NEW key \in Key, TryGetMissing(key) \/ GetMissing(key) \/ ContainsKey(key)
      PROVE  Inv'
  BY <1>5 DEF TryGetMissing, GetMissing, ContainsKey, Inv, SizeBounded
<1>6. CASE UNCHANGED vars
  BY <1>6 DEF vars, Inv, SizeBounded
<1>7. QED
  BY <1>1, <1>2, <1>3, <1>4, <1>5, <1>6 DEF Next, Operation

\* An empty cache satisfies the invariant.
LEMMA InitInv == Init => Inv
<1> SUFFICES ASSUME Init
             PROVE  Inv
  OBVIOUS
<1>1. DOMAIN m_cache = {} /\ Cardinality(DOMAIN m_cache) = 0
  BY FS_EmptySet DEF Init
<1>2. WellFormed(m_cache, m_keys, heap)
  BY <1>1 DEF Init, WellFormed, Pair, Agree, NodesDistinct, IteratorsLive, NodesIndexed
<1>3. SizeBounded
  BY <1>1, SizeAssumption DEF SizeBounded
<1>4. result \in Value \cup {Void, Missing, Found} /\ aborted \in BOOLEAN
  BY DEF Init
<1>5. QED
  BY <1>2, <1>3, <1>4 DEF Inv

\* The invariant implies the properties the runs check.
LEMMA InvImplies == Inv => TypeOK /\ IndexMatchesList /\ SizeBounded
  BY DEF Inv, WellFormed, Pair, TypeOK, IndexMatchesList

-----------------------------------------------------------------------------

\* Every variable of the cache keeps its type (lru::Cache, all operations).
THEOREM CacheTypeOK == Spec => []TypeOK
  BY InitInv, NextKeepsInv, InvImplies, PTL DEF Spec

\* No iterator in the hash map ever dangles or leads to another key's node, and
\* no list node is unreachable from the map, whatever the sequence of insert,
\* tryGet, get, contains and clear calls (lru::Cache, lines 237-324).
THEOREM CacheIndexMatchesList == Spec => []IndexMatchesList
  BY InitInv, NextKeepsInv, InvImplies, PTL DEF Spec

\* prune() keeps the cache within its limit and elasticity (line 312).
THEOREM CacheSizeBounded == Spec => []SizeBounded
  BY InitInv, NextKeepsInv, InvImplies, PTL DEF Spec

-----------------------------------------------------------------------------
(* The refinement of LRUStore. *)

\* The order of use that a list of nodes stands for.
Recent(keys, mem) == [i \in DOMAIN keys |-> mem[keys[i]].first]

\* The values that a map to nodes stands for.
Stored(cache, mem) == [k \in DOMAIN cache |-> mem[cache[k]].second]

-----------------------------------------------------------------------------
(* What the manipulations of the list do to the order of use. *)

\* The order of use is a sequence of the map's keys without repetition.
LEMMA RecentProperties ==
    ASSUME NEW cache, NEW keys, NEW mem, WellFormed(cache, keys, mem)
    PROVE  /\ Recent(keys, mem) \in Seq(Key)
           /\ Len(Recent(keys, mem)) = Len(keys)
           /\ DOMAIN Recent(keys, mem) = DOMAIN keys
           /\ \A i \in DOMAIN keys : Recent(keys, mem)[i] = mem[keys[i]].first
           /\ \A i, j \in DOMAIN keys :
                Recent(keys, mem)[i] = Recent(keys, mem)[j] => i = j
           /\ ToSet(Recent(keys, mem)) = DOMAIN cache
<1> DEFINE r == Recent(keys, mem)
<1>1. keys \in Seq(Node) /\ DOMAIN keys = 1 .. Len(keys) /\ Len(keys) \in Nat
  BY LenProperties DEF WellFormed
<1>2. /\ DOMAIN r = DOMAIN keys
      /\ \A i \in DOMAIN keys : r[i] = mem[keys[i]].first
  BY DEF Recent
<1>3. \A i \in DOMAIN keys : mem[keys[i]].first \in DOMAIN cache /\ mem[keys[i]].first \in Key
  BY DEF WellFormed, Agree, NodesIndexed
<1>4. r \in Seq(Key) /\ Len(r) = Len(keys)
  <2>1. r \in [1 .. Len(keys) -> Key]
    BY <1>1, <1>3 DEF Recent
  <2> HIDE DEF r
  <2>2. QED
    BY <1>1, <2>1
<1>5. \A i, j \in DOMAIN keys : r[i] = r[j] => i = j
  BY <1>2 DEF WellFormed, Agree, NodesIndexed, NodesDistinct
<1> HIDE DEF r
<1>6. ToSet(r) = DOMAIN cache
  <2>1. \A i \in DOMAIN r : r[i] \in DOMAIN cache
    BY <1>2, <1>3
  <2>2. ASSUME NEW k \in DOMAIN cache
        PROVE  \E i \in DOMAIN r : r[i] = k
    <3>1. PICK i \in DOMAIN keys : mem[keys[i]].first = k
      BY DEF WellFormed, Agree, IteratorsLive
    <3>2. QED
      BY <1>2, <3>1
  <2>3. QED
    BY <2>1, <2>2, Zenon DEF ToSet
<1>7. QED
  BY <1>2, <1>4, <1>5, <1>6 DEF r

\* A sequence that names the key of every node, in order, is the order of use.
LEMMA RecentIs ==
    ASSUME NEW cache, NEW keys, NEW mem, WellFormed(cache, keys, mem),
           NEW s \in Seq(Key), Len(s) = Len(keys),
           \A i \in 1 .. Len(keys) : s[i] = mem[keys[i]].first
    PROVE  Recent(keys, mem) = s
<1> DEFINE r == Recent(keys, mem)
<1>1. DOMAIN keys = 1 .. Len(keys)
  BY LenProperties DEF WellFormed
<1>2. /\ r \in Seq(Key) /\ Len(r) = Len(s)
      /\ \A i \in 1 .. Len(s) : r[i] = s[i]
  BY <1>1, RecentProperties
<1> HIDE DEF r
<1>3. r = s
  BY <1>2, SeqEqual
<1>4. QED
  BY <1>3 DEF r

\* erase() takes the key out of the order of use and leaves the others where
\* they are.
LEMMA EraseInRecent ==
    ASSUME NEW cache, NEW keys, NEW mem, WellFormed(cache, keys, mem),
           NEW key \in DOMAIN cache
    PROVE  Recent(Erase(keys, cache[key]), mem) =
             RemoveAt(Recent(keys, mem),
                      CHOOSE i \in DOMAIN Recent(keys, mem) : Recent(keys, mem)[i] = key)
<1> DEFINE r    == Recent(keys, mem)
           pos  == CHOOSE i \in DOMAIN keys : keys[i] = cache[key]
           posr == CHOOSE i \in DOMAIN r : r[i] = key
           kept == Erase(keys, cache[key])
<1>1. keys \in Seq(Node) /\ DOMAIN keys = 1 .. Len(keys) /\ Len(keys) \in Nat
  BY LenProperties DEF WellFormed
<1>2. /\ r \in Seq(Key) /\ Len(r) = Len(keys) /\ DOMAIN r = DOMAIN keys
      /\ \A i \in DOMAIN keys : r[i] = mem[keys[i]].first
      /\ \A i, j \in DOMAIN keys : r[i] = r[j] => i = j
  BY RecentProperties
<1>3. pos \in DOMAIN keys /\ keys[pos] = cache[key] /\ mem[keys[pos]].first = key
  <2>1. PICK i \in DOMAIN keys : keys[i] = cache[key] /\ mem[keys[i]].first = key
    BY DEF WellFormed, Agree, IteratorsLive
  <2>2. QED
    BY <2>1
<1> HIDE DEF r, pos
<1>4. posr = pos
  <2>1. pos \in DOMAIN r /\ r[pos] = key
    BY <1>2, <1>3
  <2>2. posr \in DOMAIN r /\ r[posr] = key
    BY <2>1
  <2> HIDE DEF posr
  <2>3. QED
    BY <1>2, <2>1, <2>2
<1>5. kept = RemoveAt(keys, pos)
  BY DEF Erase, pos
<1> HIDE DEF posr, kept
<1>6. /\ kept \in Seq(Node) /\ Len(kept) = Len(keys) - 1
      /\ \A j \in 1 .. Len(keys) - 1 :
           kept[j] = IF j < pos THEN keys[j] ELSE keys[j + 1]
  BY <1>1, <1>3, <1>5, EraseProperties
<1>7. /\ RemoveAt(r, pos) \in Seq(Key) /\ Len(RemoveAt(r, pos)) = Len(keys) - 1
      /\ \A j \in 1 .. Len(keys) - 1 :
           RemoveAt(r, pos)[j] = IF j < pos THEN r[j] ELSE r[j + 1]
  <2>1. r \in Seq(Key) /\ pos \in DOMAIN r
    BY <1>2, <1>3
  <2>2. /\ RemoveAt(r, pos) \in Seq(Key) /\ Len(RemoveAt(r, pos)) = Len(r) - 1
        /\ \A j \in 1 .. Len(r) - 1 :
             RemoveAt(r, pos)[j] = IF j < pos THEN r[j] ELSE r[j + 1]
    BY <2>1, EraseProperties
  <2>3. Len(r) = Len(keys)
    BY <1>2
  <2>4. QED
    BY <2>2, <2>3
<1>8. \A j \in 1 .. Len(keys) - 1 : RemoveAt(r, pos)[j] = mem[kept[j]].first
  <2> SUFFICES ASSUME NEW j \in 1 .. Len(keys) - 1
               PROVE  RemoveAt(r, pos)[j] = mem[kept[j]].first
    OBVIOUS
  <2>1. j \in DOMAIN keys /\ j + 1 \in DOMAIN keys
    BY <1>1
  <2>2. CASE j < pos
    BY <1>2, <1>6, <1>7, <2>1, <2>2
  <2>3. CASE ~(j < pos)
    BY <1>2, <1>6, <1>7, <2>1, <2>3
  <2>4. QED
    BY <2>2, <2>3
<1>9. WellFormed(Unbind(cache, {key}), kept, mem)
  BY EraseKeepsAgreement DEF kept
<1>10. Recent(kept, mem) = RemoveAt(r, pos)
  BY <1>6, <1>7, <1>8, <1>9, RecentIs
<1>11. QED
  BY <1>4, <1>10 DEF kept, r, posr

\* push_front() puts the new key in front of the order of use.
LEMMA PushInRecent ==
    ASSUME NEW cache, NEW keys, NEW mem, WellFormed(cache, keys, mem),
           NEW key \in Key \ DOMAIN cache, NEW value \in Value,
           NEW node \in Node \ ToSet(keys)
    PROVE  Recent(Cons(node, keys),
                  [mem EXCEPT ![node] = [first |-> key, second |-> value]])
             = Cons(key, Recent(keys, mem))
<1> DEFINE r      == Recent(keys, mem)
           pushed == <<node>> \o keys
           mem2   == [mem EXCEPT ![node] = [first |-> key, second |-> value]]
<1>1. keys \in Seq(Node) /\ DOMAIN keys = 1 .. Len(keys) /\ Len(keys) \in Nat
  BY LenProperties DEF WellFormed
<1>2. /\ r \in Seq(Key) /\ Len(r) = Len(keys)
      /\ \A i \in DOMAIN keys : r[i] = mem[keys[i]].first
  BY RecentProperties
<1>3. /\ pushed \in Seq(Node) /\ Len(pushed) = Len(keys) + 1 /\ pushed[1] = node
      /\ \A j \in 1 .. Len(keys) : pushed[j + 1] = keys[j]
  BY <1>1, PushProperties
<1>4. /\ <<key>> \o r \in Seq(Key) /\ Len(<<key>> \o r) = Len(keys) + 1
      /\ (<<key>> \o r)[1] = key
      /\ \A j \in 1 .. Len(keys) : (<<key>> \o r)[j + 1] = r[j]
  BY <1>2, PushProperties
<1>5. /\ mem2[node].first = key
      /\ \A i \in DOMAIN keys : mem2[keys[i]] = mem[keys[i]]
  <2>1. \A i \in DOMAIN keys : keys[i] # node /\ keys[i] \in Node
    BY <1>1, ElementOfSeq DEF ToSet
  <2>2. QED
    BY <2>1 DEF WellFormed, Pair
<1>6. WellFormed(Bind(cache, key, node), pushed, mem2)
  BY PushKeepsAgreement
<1> HIDE DEF r, pushed, mem2
<1>7. \A j \in 1 .. Len(keys) + 1 : (<<key>> \o r)[j] = mem2[pushed[j]].first
  <2> SUFFICES ASSUME NEW j \in 1 .. Len(keys) + 1
               PROVE  (<<key>> \o r)[j] = mem2[pushed[j]].first
    OBVIOUS
  <2>1. CASE j = 1
    BY <1>3, <1>4, <1>5, <2>1
  <2>2. CASE j # 1
    <3>1. PICK i \in 1 .. Len(keys) : j = i + 1
      <4>1. j - 1 \in 1 .. Len(keys) /\ j = (j - 1) + 1
        BY <1>1, <2>2
      <4>2. QED
        BY <4>1
    <3>2. pushed[j] = keys[i] /\ (<<key>> \o r)[j] = r[i]
      BY <1>3, <1>4, <3>1
    <3>3. r[i] = mem[keys[i]].first /\ mem2[keys[i]] = mem[keys[i]]
      BY <1>1, <1>2, <1>5
    <3>4. QED
      BY <3>2, <3>3
  <2>3. QED
    BY <2>1, <2>2
<1>8. Recent(pushed, mem2) = <<key>> \o r
  <2> DEFINE front == <<key>> \o r
             bound == Bind(cache, key, node)
  <2>1. front \in Seq(Key) /\ Len(front) = Len(pushed)
    BY <1>3, <1>4
  <2>2. \A j \in 1 .. Len(pushed) : front[j] = mem2[pushed[j]].first
    BY <1>3, <1>7
  <2>3. WellFormed(bound, pushed, mem2)
    BY <1>6
  <2> HIDE DEF front, bound
  <2>4. Recent(pushed, mem2) = front
    BY <2>1, <2>2, <2>3, RecentIs
  <2>5. QED
    BY <2>4 DEF front
<1>9. QED
  BY <1>8 DEF r, pushed, mem2, Cons

\* Popping n nodes from the back shortens the order of use at its cold end.
LEMMA PruneInRecent ==
    ASSUME NEW cache, NEW keys, NEW mem, WellFormed(cache, keys, mem),
           NEW n \in 0 .. Len(keys)
    PROVE  Recent(PruneKeys(keys, n), mem) = SubSeq(Recent(keys, mem), 1, Len(keys) - n)
<1> DEFINE r    == Recent(keys, mem)
           kept == PruneKeys(keys, n)
           cut  == SubSeq(r, 1, Len(keys) - n)
<1>1. keys \in Seq(Node) /\ DOMAIN keys = 1 .. Len(keys) /\ Len(keys) \in Nat
  BY LenProperties DEF WellFormed
<1>2. /\ r \in Seq(Key) /\ Len(r) = Len(keys)
      /\ \A i \in DOMAIN keys : r[i] = mem[keys[i]].first
  BY RecentProperties
<1>3. /\ kept \in Seq(Node) /\ Len(kept) = Len(keys) - n
      /\ \A j \in 1 .. Len(keys) - n : kept[j] = keys[j]
  BY <1>1, PruneProperties
<1>4. /\ cut \in Seq(Key) /\ Len(cut) = Len(keys) - n
      /\ \A j \in 1 .. Len(keys) - n : cut[j] = r[j]
  BY <1>2, PruneProperties DEF PruneKeys
<1>5. WellFormed(PruneCache(cache, keys, mem, n), kept, mem)
  BY PruneKeepsAgreement
<1> HIDE DEF r, kept, cut
<1>6. \A j \in 1 .. Len(keys) - n : cut[j] = mem[kept[j]].first
  <2> SUFFICES ASSUME NEW j \in 1 .. Len(keys) - n
               PROVE  cut[j] = mem[kept[j]].first
    OBVIOUS
  <2>1. j \in DOMAIN keys
    BY <1>1
  <2>2. QED
    BY <1>2, <1>3, <1>4, <2>1
<1>7. Recent(kept, mem) = cut
  BY <1>3, <1>4, <1>5, <1>6, RecentIs
<1>8. QED
  BY <1>7 DEF r, kept, cut

-----------------------------------------------------------------------------
(* What the operations on the list do to the order of use and the values. *)

\* A pushed node holds its value and leaves the values of the other keys alone.
LEMMA PushInStored ==
    ASSUME NEW cache, NEW keys, NEW mem, WellFormed(cache, keys, mem),
           NEW key \in Key \ DOMAIN cache, NEW value \in Value,
           NEW node \in Node \ ToSet(keys)
    PROVE  Stored(Bind(cache, key, node),
                  [mem EXCEPT ![node] = [first |-> key, second |-> value]])
             = [k \in DOMAIN cache \cup {key} |->
                  IF k = key THEN value ELSE Stored(cache, mem)[k]]
<1> DEFINE bound == Bind(cache, key, node)
           mem2  == [mem EXCEPT ![node] = [first |-> key, second |-> value]]
<1>1. /\ DOMAIN bound = DOMAIN cache \cup {key} /\ bound[key] = node
      /\ \A k \in DOMAIN cache : bound[k] = cache[k]
  BY DEF Bind
<1>2. \A k \in DOMAIN cache : cache[k] # node /\ cache[k] \in Node
  BY DEF ToSet, WellFormed, Agree, IteratorsLive
<1>3. mem2[node].second = value /\ \A n \in Node \ {node} : mem2[n] = mem[n]
  BY DEF WellFormed, Pair
<1> HIDE DEF bound, mem2
<1>4. \A k \in DOMAIN bound : mem2[bound[k]].second =
        IF k = key THEN value ELSE Stored(cache, mem)[k]
  BY <1>1, <1>2, <1>3 DEF Stored
<1>5. Stored(bound, mem2) = [k \in DOMAIN cache \cup {key} |->
                               IF k = key THEN value ELSE Stored(cache, mem)[k]]
  BY <1>1, <1>4 DEF Stored
<1>6. QED
  BY <1>5 DEF bound, mem2

\* Moving a key to the front promotes it in the order of use, and the key
\* then has the value given.
LEMMA RefreshPromotes ==
    ASSUME WellFormed(m_cache, m_keys, heap),
           NEW key \in DOMAIN m_cache, NEW value \in Value, Refresh(key, value)
    PROVE  LET r == Recent(m_keys, heap)
           IN  /\ Recent(m_keys', heap') =
                    <<key>> \o RemoveAt(r, CHOOSE i \in DOMAIN r : r[i] = key)
               /\ Stored(m_cache', heap') = [Stored(m_cache, heap) EXCEPT ![key] = value]
<1> DEFINE r    == Recent(m_keys, heap)
           kept == Erase(m_keys, m_cache[key])
           left == Unbind(m_cache, {key})
<1>1. PICK node \in Node \ ToSet(kept) :
        /\ heap' = [heap EXCEPT ![node] = [first |-> key, second |-> value]]
        /\ m_keys' = <<node>> \o kept
        /\ m_cache' = Bind(m_cache, key, node)
  BY DEF Refresh, Alloc
<1>2. WellFormed(left, kept, heap)
  BY EraseKeepsAgreement
<1>3. key \in Key \ DOMAIN left
  BY DEF WellFormed, Unbind, Restrict
<1>4. /\ DOMAIN left = DOMAIN m_cache \ {key}
      /\ \A k \in DOMAIN left : left[k] = m_cache[k]
  BY DEF Unbind, Restrict
<1>5. Recent(kept, heap) = RemoveAt(r, CHOOSE i \in DOMAIN r : r[i] = key)
  BY EraseInRecent
<1> HIDE DEF left, kept, r
<1>6. m_cache' = Bind(left, key, node)
  <2>1. DOMAIN left \cup {key} = DOMAIN m_cache \cup {key}
    BY <1>4
  <2>2. \A k \in DOMAIN left \cup {key} :
          (IF k = key THEN node ELSE left[k]) = (IF k = key THEN node ELSE m_cache[k])
    BY <1>4
  <2>3. QED
    BY <1>1, <2>1, <2>2 DEF Bind
<1>7. Recent(m_keys', heap') = <<key>> \o Recent(kept, heap)
  <2>1. Recent(Cons(node, kept), [heap EXCEPT ![node] = [first |-> key, second |-> value]])
          = Cons(key, Recent(kept, heap))
    BY <1>2, <1>3, PushInRecent
  <2>2. QED
    BY <1>1, <2>1, Zenon DEF Cons
<1>8. Stored(m_cache', heap') =
        [k \in DOMAIN left \cup {key} |-> IF k = key THEN value ELSE Stored(left, heap)[k]]
  <2>1. Stored(Bind(left, key, node),
               [heap EXCEPT ![node] = [first |-> key, second |-> value]])
          = [k \in DOMAIN left \cup {key} |-> IF k = key THEN value ELSE Stored(left, heap)[k]]
    BY <1>2, <1>3, PushInStored
  <2>2. QED
    BY <1>1, <1>6, <2>1, Zenon
<1>9. Stored(m_cache', heap') = [Stored(m_cache, heap) EXCEPT ![key] = value]
  <2>1. \A k \in DOMAIN left : Stored(left, heap)[k] = Stored(m_cache, heap)[k]
    BY <1>4 DEF Stored
  <2>2. DOMAIN left \cup {key} = DOMAIN Stored(m_cache, heap)
    BY <1>4 DEF Stored
  <2>3. QED
    BY <1>8, <2>1, <2>2
<1>10. QED
  BY <1>5, <1>7, <1>9 DEF r

\* What pruning leaves of the values: those of the keys still in the order.
LEMMA PruneInStored ==
    ASSUME NEW cache, NEW keys, NEW mem, WellFormed(cache, keys, mem),
           NEW n \in 0 .. Len(keys)
    PROVE  LET kept == PruneKeys(keys, n)
           IN  /\ ToSet(Recent(kept, mem)) \subseteq DOMAIN cache
               /\ Stored(PruneCache(cache, keys, mem, n), mem)
                    = [k \in ToSet(Recent(kept, mem)) |-> Stored(cache, mem)[k]]
<1> DEFINE kept == PruneKeys(keys, n)
           left == PruneCache(cache, keys, mem, n)
<1>1. WellFormed(left, kept, mem)
  BY PruneKeepsAgreement
<1>2. DOMAIN left \subseteq DOMAIN cache /\ \A k \in DOMAIN left : left[k] = cache[k]
  BY DEF PruneCache, Unbind, Restrict
<1> HIDE DEF left, kept
<1>3. ToSet(Recent(kept, mem)) = DOMAIN left
  BY <1>1, RecentProperties
<1>4. Stored(left, mem) = [k \in DOMAIN left |-> Stored(cache, mem)[k]]
  BY <1>2 DEF Stored
<1>5. QED
  BY <1>2, <1>3, <1>4 DEF kept, left

\* Inserting a new key puts it in front and drops keys from the cold end only,
\* as many as the store allows.
LEMMA InsertNewStores ==
    ASSUME Inv, NEW key \in Key, NEW value \in Value, InsertNew(key, value)
    PROVE  LET r == Recent(m_keys, heap)
           IN  \E n \in 0 .. Len(r) + 1 :
                 /\ Store!MayRetain(n, Len(r) + 1)
                 /\ Recent(m_keys', heap') = SubSeq(<<key>> \o r, 1, n)
                 /\ Stored(m_cache', heap') =
                      [k \in ToSet(Recent(m_keys', heap')) |->
                         IF k = key THEN value ELSE Stored(m_cache, heap)[k]]
<1>1. PICK node \in Node \ ToSet(m_keys) :
        LET pushed == <<node>> \o m_keys
            bound  == Bind(m_cache, key, node)
            mem    == [heap EXCEPT ![node] = [first |-> key, second |-> value]]
            n      == Excess(bound)
        IN  /\ heap' = mem
            /\ m_keys' = PruneKeys(pushed, n)
            /\ m_cache' = PruneCache(bound, pushed, mem, n)
  BY DEF InsertNew, Alloc
<1> DEFINE r      == Recent(m_keys, heap)
           pushed == <<node>> \o m_keys
           bound  == Bind(m_cache, key, node)
           mem    == [heap EXCEPT ![node] = [first |-> key, second |-> value]]
           over   == Excess(bound)
           n      == Len(pushed) - over
<1>2. WellFormed(m_cache, m_keys, heap) /\ key \in Key \ DOMAIN m_cache
  BY DEF InsertNew, Inv
<1>3. WellFormed(bound, pushed, mem)
  BY <1>2, PushKeepsAgreement
<1>4. Recent(pushed, mem) = Cons(key, r)
  <2>1. Recent(Cons(node, m_keys), mem) = Cons(key, r)
    BY <1>2, PushInRecent
  <2>2. QED
    BY <2>1, Zenon DEF Cons
<1>5. Stored(bound, mem) = [k \in DOMAIN m_cache \cup {key} |->
                              IF k = key THEN value ELSE Stored(m_cache, heap)[k]]
  BY <1>2, PushInStored
<1>6. /\ heap' = mem
      /\ m_keys' = PruneKeys(pushed, over)
      /\ m_cache' = PruneCache(bound, pushed, mem, over)
  BY <1>1
<1>7. Len(pushed) = Len(r) + 1 /\ Len(r) \in Nat
  <2>1. m_keys \in Seq(Node) /\ Len(r) = Len(m_keys) /\ Len(m_keys) \in Nat
    BY <1>2, RecentProperties, LenProperties DEF WellFormed
  <2>2. Len(pushed) = Len(m_keys) + 1
    BY <2>1, PushProperties
  <2>3. QED
    BY <2>1, <2>2
<1>8. DOMAIN bound = DOMAIN m_cache \cup {key}
  BY DEF Bind
<1>9. over = IF MaxSize > 0 /\ Cardinality(DOMAIN bound) >= MaxSize + Elasticity
               THEN Cardinality(DOMAIN bound) - MaxSize ELSE 0
  BY DEF Excess
<1> HIDE DEF pushed, bound, mem, over, r
<1>10. Cardinality(DOMAIN bound) = Len(pushed)
  BY <1>3, MapAndListSameSize
<1>11. over \in 0 .. Len(pushed) /\ n \in 0 .. Len(r) + 1
  <2>1. over \in 0 .. Len(pushed)
    BY <1>7, <1>9, <1>10, SizeAssumption
  <2>2. QED
    BY <1>7, <2>1
<1>12. Store!MayRetain(n, Len(r) + 1)
  BY <1>7, <1>9, <1>10, SizeAssumption DEF Store!MayRetain
<1>13. Recent(m_keys', heap') = SubSeq(<<key>> \o r, 1, n)
  <2>1. Recent(PruneKeys(pushed, over), mem) = SubSeq(Recent(pushed, mem), 1, n)
    BY <1>3, <1>11, PruneInRecent
  <2>2. QED
    BY <1>4, <1>6, <2>1, Zenon DEF Cons
<1>14. Stored(m_cache', heap') =
         [k \in ToSet(Recent(m_keys', heap')) |->
            IF k = key THEN value ELSE Stored(m_cache, heap)[k]]
  <2> DEFINE held == ToSet(Recent(m_keys', heap'))
  <2>1. held \subseteq DOMAIN bound /\ Stored(m_cache', heap') =
                                         [k \in held |-> Stored(bound, mem)[k]]
    BY <1>3, <1>6, <1>11, PruneInStored
  <2> HIDE DEF held
  <2>2. \A k \in held :
          Stored(bound, mem)[k] = IF k = key THEN value ELSE Stored(m_cache, heap)[k]
    BY <1>5, <1>8, <2>1
  <2>3. QED
    BY <2>1, <2>2 DEF held
<1>15. QED
  BY <1>11, <1>12, <1>13, <1>14 DEF r

-----------------------------------------------------------------------------
(* The refinement. *)

\* The parts of the store's definitions under the refinement mapping.
LEMMA MappedParts ==
    LET r == Recent(m_keys, heap)
    IN  /\ Store!Init <=> /\ r = <<>> /\ Stored(m_cache, heap) = <<>>
                          /\ result = Void /\ aborted = FALSE
        /\ Store!vars = <<r, Stored(m_cache, heap), result, aborted>>
        /\ \A s : Store!ToSet(s) = ToSet(s)
        /\ \A key : Store!Promote(key) =
                      <<key>> \o RemoveAt(r, CHOOSE i \in DOMAIN r : r[i] = key)
<1> DEFINE r == Recent(m_keys, heap)
<1>1. /\ Store!Init <=> /\ r = <<>> /\ Stored(m_cache, heap) = <<>>
                        /\ result = Void /\ aborted = FALSE
      /\ Store!vars = <<r, Stored(m_cache, heap), result, aborted>>
  BY DEF Store!Init, Store!vars, Recent, Stored
<1>2. \A s : Store!ToSet(s) = ToSet(s)
  BY DEF Store!ToSet, ToSet
<1>3. \A s, i : Store!RemoveAt(s, i) = RemoveAt(s, i)
  BY Zenon DEF Store!RemoveAt, RemoveAt
<1>4. ASSUME NEW key
      PROVE  Store!Promote(key) =
               <<key>> \o RemoveAt(r, CHOOSE i \in DOMAIN r : r[i] = key)
  <2>1. Store!Promote(key) =
          <<key>> \o Store!RemoveAt(r, CHOOSE i \in DOMAIN r : r[i] = key)
    BY Zenon DEF Store!Promote, Recent
  <2>2. QED
    BY <1>3, <2>1, Zenon
<1>5. QED
  BY <1>1, <1>2, <1>4, Zenon

\* Clearing the cache clears the store.
LEMMA ClearImplements == Clear => Store!Clear
  BY DEF Clear, Store!Clear

\* insert() of a key the cache holds (lines 242-248) replaces its value.
LEMMA InsertPresentImplements ==
    ASSUME Inv, NEW key \in Key, NEW value \in Value, InsertPresent(key, value)
    PROVE  Store!StorePresent(key, value)
<1> DEFINE r == Recent(m_keys, heap)
           v == Stored(m_cache, heap)
<1>1. WellFormed(m_cache, m_keys, heap) /\ key \in DOMAIN m_cache /\ Refresh(key, value)
  BY DEF InsertPresent, Inv
<1>2. /\ r' = <<key>> \o RemoveAt(r, CHOOSE i \in DOMAIN r : r[i] = key)
      /\ v' = [v EXCEPT ![key] = value]
  BY <1>1, RefreshPromotes, Zenon
<1>3. r' = Store!Promote(key)
  BY <1>2, MappedParts, Zenon
<1>4. key \in DOMAIN v /\ result' = Void /\ aborted' = aborted
  BY <1>1 DEF InsertPresent, Stored
<1>5. QED
  BY <1>2, <1>3, <1>4, Zenon DEF Store!StorePresent, Recent, Stored

\* insert() of a new key (lines 249-255) drops nothing but the cold end of the order.
LEMMA InsertNewImplements ==
    ASSUME Inv, NEW key \in Key, NEW value \in Value, InsertNew(key, value)
    PROVE  Store!StoreNew(key, value)
<1> DEFINE r == Recent(m_keys, heap)
           v == Stored(m_cache, heap)
<1>1. PICK n \in 0 .. Len(r) + 1 :
        /\ Store!MayRetain(n, Len(r) + 1)
        /\ r' = SubSeq(<<key>> \o r, 1, n)
        /\ v' = [k \in ToSet(r') |-> IF k = key THEN value ELSE v[k]]
  BY InsertNewStores, Zenon
<1>2. Store!ToSet(r') = ToSet(r')
  BY MappedParts, Zenon
<1>3. v' = [k \in Store!ToSet(r') |-> IF k = key THEN value ELSE v[k]]
  BY <1>1, <1>2, Zenon
<1>4. key \notin DOMAIN v /\ result' = Void /\ aborted' = aborted
  BY DEF InsertNew, Stored
<1>5. QED
  BY <1>1, <1>3, <1>4, Zenon DEF Store!StoreNew, Recent, Stored

\* tryGet() and get() of a key the cache holds answer with its value.
LEMMA ReadPresentImplements ==
    ASSUME Inv, NEW key \in Key, NEW fresh \in BOOLEAN, ReadPresent(key, fresh)
    PROVE  Store!LookupPresent(key, fresh)
<1> DEFINE r == Recent(m_keys, heap)
           v == Stored(m_cache, heap)
<1>1. /\ WellFormed(m_cache, m_keys, heap) /\ key \in DOMAIN m_cache
      /\ result' = heap[m_cache[key]].second /\ aborted' = aborted
  BY DEF ReadPresent, Inv
<1>2. key \in DOMAIN v /\ result' = v[key]
  BY <1>1 DEF Stored
<1>3. r' = (IF fresh THEN Store!Promote(key) ELSE r) /\ v' = v
  <2>1. CASE fresh
    <3>1. Refresh(key, v[key])
      BY <1>1, <2>1 DEF ReadPresent, Stored
    <3>2. v[key] \in Value
      BY <1>1 DEF WellFormed, Pair, Stored
    <3>3. /\ r' = <<key>> \o RemoveAt(r, CHOOSE i \in DOMAIN r : r[i] = key)
          /\ v' = [v EXCEPT ![key] = v[key]]
      BY <1>1, <3>1, <3>2, RefreshPromotes, Zenon
    <3>4. [v EXCEPT ![key] = v[key]] = v
      BY DEF Stored
    <3>5. QED
      BY <2>1, <3>3, <3>4, MappedParts, Zenon
  <2>2. CASE ~fresh
    <3>1. m_cache' = m_cache /\ m_keys' = m_keys /\ heap' = heap
      BY <2>2 DEF ReadPresent
    <3>2. QED
      BY <2>2, <3>1, Zenon
  <2>3. QED
    BY <2>1, <2>2
<1>4. QED
  BY <1>1, <1>2, <1>3, Zenon DEF Store!LookupPresent, Recent, Stored

\* Looking for a key, with or without an answer, leaves the store alone.
LEMMA LookupImplements ==
    ASSUME Inv, NEW key \in Key
    PROVE  /\ TryGetMissing(key) \/ GetMissing(key) => Store!LookupMissing(key)
           /\ ContainsKey(key) => Store!ContainsKey(key)
<1> DEFINE r == Recent(m_keys, heap)
           v == Stored(m_cache, heap)
<1>1. DOMAIN v = DOMAIN m_cache
  BY DEF Stored
<1>2. ASSUME m_cache' = m_cache, m_keys' = m_keys, heap' = heap
      PROVE  r' = r /\ v' = v
  BY <1>2, Zenon
<1>3. ASSUME TryGetMissing(key) \/ GetMissing(key)
      PROVE  Store!LookupMissing(key)
  <2>1. key \notin DOMAIN v /\ result' = Missing /\ aborted' \in BOOLEAN
    BY <1>1, <1>3 DEF TryGetMissing, GetMissing, Inv
  <2>2. r' = r /\ v' = v
    BY <1>2, <1>3 DEF TryGetMissing, GetMissing
  <2>3. QED
    BY <2>1, <2>2, Zenon DEF Store!LookupMissing, Recent, Stored
<1>4. ASSUME ContainsKey(key)
      PROVE  Store!ContainsKey(key)
  <2>1. result' = IF key \in DOMAIN v THEN Found ELSE Missing
    BY <1>1, <1>4 DEF ContainsKey
  <2>2. r' = r /\ v' = v /\ aborted' = aborted
    BY <1>2, <1>4 DEF ContainsKey
  <2>3. QED
    BY <2>1, <2>2, Zenon DEF Store!ContainsKey, Recent, Stored
<1>5. QED
  BY <1>3, <1>4

\* Every step of the cache is a step of the store or leaves it alone.
LEMMA StepImplements == Inv /\ [Next]_vars => [Store!Next]_(Store!vars)
<1> SUFFICES ASSUME Inv, [Next]_vars
             PROVE  [Store!Next]_(Store!vars)
  OBVIOUS
<1>1. ASSUME ~aborted, Clear
      PROVE  Store!Next
  BY <1>1, ClearImplements, Zenon DEF Store!Next
<1>2. ASSUME ~aborted, NEW key \in Key, Operation(key)
      PROVE  Store!Next
  <2>1. ASSUME NEW value \in Value, InsertPresent(key, value)
        PROVE  Store!Next
    BY <1>2, <2>1, InsertPresentImplements, Zenon DEF Store!Next
  <2>2. ASSUME NEW value \in Value, InsertNew(key, value)
        PROVE  Store!Next
    BY <1>2, <2>2, InsertNewImplements, Zenon DEF Store!Next
  <2>3. ASSUME NEW fresh \in BOOLEAN, ReadPresent(key, fresh)
        PROVE  Store!Next
    BY <1>2, <2>3, ReadPresentImplements, Zenon DEF Store!Next
  <2>4. CASE TryGetMissing(key) \/ GetMissing(key) \/ ContainsKey(key)
    BY <1>2, <2>4, LookupImplements, Zenon DEF Store!Next
  <2>5. QED
    BY <1>2, <2>1, <2>2, <2>3, <2>4, Zenon DEF Operation
<1>3. CASE UNCHANGED vars
  <2>1. Store!vars' = Store!vars
    BY <1>3 DEF vars, Store!vars
  <2>2. QED
    BY <2>1
<1>4. QED
  BY <1>1, <1>2, <1>3, Zenon DEF Next

\* The empty cache is the empty store.
LEMMA InitImplements == Init => Store!Init
<1> SUFFICES ASSUME Init
             PROVE  Store!Init
  OBVIOUS
<1>1. m_cache = <<>> /\ m_keys = <<>> /\ result = Void /\ aborted = FALSE
  BY DEF Init
<1>2. QED
  BY <1>1 DEF Store!Init

\* The list, the hash map and the iterators of lru::Cache implement a store
\* with an order of use: every lookup answers with the last value inserted,
\* and only insert() of a new key drops keys, from the cold end of the order
\* and never more than prune() may (lines 237-324).
THEOREM CacheImplementsStore == Spec => ImplementsStore
<1>1. Inv /\ [Next]_vars => [Store!Next]_(Store!vars)
  BY StepImplements
<1>2. QED
  BY InitInv, NextKeepsInv, InitImplements, <1>1, PTL
     DEF Spec, ImplementsStore, Store!Spec

=============================================================================
