------------------------- MODULE TimeDistanceProofs -------------------------
(***************************************************************************)
(* Proofs about TimeDistance for every set of addresses, every size of the *)
(* cache, every word width and every length of trace.                      *)
(***************************************************************************)
EXTENDS TimeDistance, DataProofs

\* The banks hold at most INT64_MAX each, so two of their values never wrap.
LEMMA WordFacts ==
    /\ Word \in Nat \ {0}
    /\ IntMax \in Nat
    /\ 2 * IntMax < Word
  BY TimeAssumption DEF IntMax

\* A number that fits into a word is not changed by the modulus.
LEMMA NoWrap ==
    ASSUME NEW x \in Nat, NEW w \in Nat \ {0}, x < w
    PROVE  x % w = x
  OBVIOUS

LEMMA SquareType ==
    ASSUME NEW dist \in Int
    PROVE  Square(dist) \in Nat
<1>1. dist * dist \in Int
  OBVIOUS
<1>2. QED
  BY <1>1, WordFacts DEF Square

\* A counter stays a natural number whichever interval is counted.
LEMMA CountType ==
    ASSUME NEW S, NEW f \in [S -> Nat], NEW b
    PROVE  [f EXCEPT ![b] = @ + 1] \in [S -> Nat]
<1> DEFINE g == [f EXCEPT ![b] = @ + 1]
<1>1. g = [x \in S |-> IF x = b THEN f[b] + 1 ELSE f[x]]
  OBVIOUS
<1>2. \A x \in S : f[x] \in Nat /\ (x = b => f[b] + 1 \in Nat)
  OBVIOUS
<1>3. QED
  BY <1>1, <1>2

\* After insert(tag, pc) the cache holds pc for tag if it holds tag, and what it
\* held before for the other addresses it still has.
LEMMA InsertProperties ==
    ASSUME NEW tag, NEW pc
    PROVE  /\ DOMAIN Insert(tag, pc) \subseteq DOMAIN lru \cup {tag}
           /\ Insert(tag, pc) = [a \in DOMAIN Insert(tag, pc) |->
                                   IF a = tag THEN pc ELSE lru[a]]
<1> DEFINE cache == [a \in DOMAIN lru \cup {tag} |-> IF a = tag THEN pc ELSE lru[a]]
           full  == /\ tag \notin DOMAIN lru
                    /\ LruMax > 0
                    /\ Cardinality(DOMAIN cache) >= LruMax + Elasticity
           few   == Newest(cache, LruMax)
<1>1. Insert(tag, pc) = IF full THEN Restrict(cache, few) ELSE cache
  BY DEF Insert
<1>2. few \subseteq DOMAIN lru \cup {tag}
  BY DEF Newest
<1>3. Restrict(cache, few) = [a \in few |-> cache[a]]
  BY DEF Restrict
<1> HIDE DEF full, few
<1>4. CASE full
  <2>1. Insert(tag, pc) = [a \in few |-> cache[a]]
    BY <1>1, <1>3, <1>4
  <2>2. \A a \in few : cache[a] = IF a = tag THEN pc ELSE lru[a]
    BY <1>2
  <2>3. QED
    BY <2>1, <2>2, <1>2
<1>5. CASE ~full
  <2>1. Insert(tag, pc) = cache
    BY <1>1, <1>5
  <2>2. QED
    BY <2>1
<1>6. QED
  BY <1>4, <1>5

-----------------------------------------------------------------------------

\* The inductive invariant: the cached positions are right, so that distances
\* are positive and never exceed the number of references, which in turn keeps
\* every bank within INT64_MAX.
GlobalsInv == GlobalsTypeOK /\ LruExact /\ BanksDense

LEMMA TimeInitInv == TimeInit => GlobalsInv
<1> SUFFICES ASSUME TimeInit
             PROVE  GlobalsInv
  OBVIOUS
<1>1. GlobalsTypeOK
  BY TimeAssumption DEF TimeInit, GlobalsTypeOK, Bank
<1>2. LruExact
  BY DEF TimeInit, LruExact
<1>3. BanksDense
  BY DEF TimeInit, BanksDense, Bank
<1>4. QED
  BY <1>1, <1>2, <1>3 DEF GlobalsInv

\* A step adds its address to the trace and its position to the cache.
LEMMA ReferenceKeepsLru ==
    ASSUME GlobalsTypeOK, LruExact, NEW tag \in Addr, Reference(tag)
    PROVE  /\ cur_inst_pc' \in 0..MaxRefs
           /\ DOMAIN lru' \subseteq Addr
           /\ lru' \in [DOMAIN lru' -> 1..cur_inst_pc']
           /\ trace' \in Seq(Addr)
           /\ Len(trace') = cur_inst_pc'
           /\ LruExact'
<1> DEFINE pc == cur_inst_pc + 1
<1>1. /\ pc \in 1..MaxRefs
      /\ cur_inst_pc' = pc
      /\ lru' = Insert(tag, pc)
      /\ trace' = Append(trace, tag)
  BY TimeAssumption DEF Reference, GlobalsTypeOK
<1>2. /\ trace' \in Seq(Addr)
      /\ Len(trace') = pc
      /\ trace'[pc] = tag
      /\ DOMAIN trace' = 1..pc
      /\ DOMAIN trace = 1..cur_inst_pc
      /\ \A i \in 1..cur_inst_pc : trace'[i] = trace[i]
  BY <1>1 DEF GlobalsTypeOK
<1>3. /\ DOMAIN lru' \subseteq DOMAIN lru \cup {tag}
      /\ lru' = [a \in DOMAIN lru' |-> IF a = tag THEN pc ELSE lru[a]]
  BY <1>1, InsertProperties
<1>4. \A a \in DOMAIN lru' : lru'[a] \in 1..pc
  BY <1>1, <1>3 DEF GlobalsTypeOK
<1>5. ASSUME NEW a \in DOMAIN lru'
      PROVE  /\ lru'[a] \in DOMAIN trace'
             /\ trace'[lru'[a]] = a
             /\ \A j \in DOMAIN trace' : trace'[j] = a => j <= lru'[a]
  <2>1. CASE a = tag
    BY <1>1, <1>2, <1>3, <2>1
  <2>2. CASE a # tag
    <3>1. a \in DOMAIN lru /\ lru'[a] = lru[a]
      BY <1>3, <2>2
    <3>2. /\ lru[a] \in 1..cur_inst_pc
          /\ trace[lru[a]] = a
          /\ \A j \in 1..cur_inst_pc : trace[j] = a => j <= lru[a]
      BY <1>2, <3>1 DEF LruExact
    <3>3. trace'[lru[a]] = a
      BY <1>2, <3>2
    <3>4. ASSUME NEW j \in 1..pc, trace'[j] = a
          PROVE  j <= lru[a]
      <4>1. j # pc
        BY <1>2, <2>2, <3>4
      <4>2. j \in 1..cur_inst_pc
        BY <1>1, <4>1 DEF GlobalsTypeOK
      <4>3. QED
        BY <1>2, <3>2, <3>4, <4>2
    <3>5. lru[a] \in 1..pc
      BY <1>1, <3>2 DEF GlobalsTypeOK
    <3>6. QED
      BY <1>2, <3>1, <3>3, <3>4, <3>5
  <2>3. QED
    BY <2>1, <2>2
<1>6. cur_inst_pc' \in 0..MaxRefs
  BY <1>1
<1>7. DOMAIN lru' \subseteq Addr
  BY <1>3 DEF GlobalsTypeOK
<1>8. lru' \in [DOMAIN lru' -> 1..cur_inst_pc']
  BY <1>1, <1>3, <1>4
<1>9. LruExact'
  BY <1>5 DEF LruExact
<1>10. QED
  BY <1>1, <1>2, <1>6, <1>7, <1>8, <1>9

\* The distance is put into the bank in use, or into the next one.
LEMMA AddDistanceKeepsBanks ==
    ASSUME reuse_dist_sum \in [Bank -> 0..IntMax], BanksDense,
           mloc_id \in 0..MaxRefs - 1,
           NEW dist \in 1..IntMax, AddDistance(dist)
    PROVE  /\ reuse_dist_sum' \in [Bank -> 0..IntMax]
           /\ mloc_id' \in {mloc_id, mloc_id + 1}
           /\ BanksDense'
<1> DEFINE s == reuse_dist_sum[mloc_id]
<1>1. mloc_id \in Nat /\ mloc_id \in Bank /\ mloc_id + 1 \in Bank
  BY TimeAssumption DEF Bank
<1>2. s \in 0..IntMax
  BY <1>1
<1>3. (s + dist) % Word = s + dist
  BY <1>2, WordFacts, NoWrap
<1>4. reuse_dist_sum[mloc_id + 1] = 0
  BY <1>1 DEF BanksDense
<1>5. CASE s + dist > IntMax
  <2>1. /\ mloc_id' = mloc_id + 1
        /\ reuse_dist_sum' = [reuse_dist_sum EXCEPT ![mloc_id + 1] = dist]
    BY <1>3, <1>5 DEF AddDistance
  <2>2. dist \in 0..IntMax
    BY WordFacts
  <2>6. reuse_dist_sum' \in [Bank -> 0..IntMax]
    BY <2>1, <2>2
  <2>3. ASSUME NEW b \in 0..mloc_id' - 1
        PROVE  reuse_dist_sum'[b] + reuse_dist_sum'[b + 1] > IntMax
    <3>1. CASE b = mloc_id
      BY <1>1, <1>5, <2>1, <3>1
    <3>2. CASE b # mloc_id
      <4>1. b \in 0..mloc_id - 1 /\ b + 1 \in Bank /\ b \in Bank /\ b + 1 # mloc_id + 1
        BY <1>1, <2>1, <3>2, TimeAssumption DEF Bank
      <4>2. b # mloc_id + 1
        BY <1>1, <4>1
      <4>3. reuse_dist_sum'[b] = reuse_dist_sum[b] /\ reuse_dist_sum'[b + 1] = reuse_dist_sum[b + 1]
        BY <2>1, <4>1, <4>2
      <4>4. QED
        BY <4>1, <4>3 DEF BanksDense
    <3>3. QED
      BY <3>1, <3>2
  <2>4. ASSUME NEW b \in Bank, b > mloc_id'
        PROVE  reuse_dist_sum'[b] = 0
    <3>1. b > mloc_id /\ b # mloc_id + 1
      BY <1>1, <2>1, <2>4, TimeAssumption DEF Bank
    <3>2. QED
      BY <2>1, <3>1 DEF BanksDense
  <2>5. QED
    BY <2>1, <2>3, <2>4, <2>6 DEF BanksDense
<1>6. CASE ~(s + dist > IntMax)
  <2>1. /\ mloc_id' = mloc_id
        /\ reuse_dist_sum' = [reuse_dist_sum EXCEPT ![mloc_id] = s + dist]
    BY <1>3, <1>6 DEF AddDistance
  <2>2. s + dist \in 0..IntMax
    BY <1>2, <1>6, WordFacts
  <2>3. reuse_dist_sum' \in [Bank -> 0..IntMax]
    BY <2>1, <2>2
  <2>4. ASSUME NEW b \in 0..mloc_id' - 1
        PROVE  reuse_dist_sum'[b] + reuse_dist_sum'[b + 1] > IntMax
    <3>1. b \in 0..mloc_id - 1 /\ b \in Bank /\ b + 1 \in Bank /\ b # mloc_id
      BY <1>1, <2>1, TimeAssumption DEF Bank
    <3>2. reuse_dist_sum[b] + reuse_dist_sum[b + 1] > IntMax
      BY <3>1 DEF BanksDense
    <3>3. reuse_dist_sum'[b] = reuse_dist_sum[b]
      BY <2>1, <3>1
    <3>4. reuse_dist_sum'[b + 1] >= reuse_dist_sum[b + 1]
      <4>1. CASE b + 1 = mloc_id
        BY <1>2, <2>1, <3>1, <4>1, WordFacts
      <4>2. CASE b + 1 # mloc_id
        BY <2>1, <3>1, <4>2, WordFacts
      <4>3. QED
        BY <4>1, <4>2
    <3>5. reuse_dist_sum[b] \in Int /\ reuse_dist_sum[b + 1] \in Int /\ reuse_dist_sum'[b + 1] \in Int
      BY <2>3, <3>1, WordFacts
    <3>6. QED
      BY <3>2, <3>3, <3>4, <3>5, WordFacts
  <2>5. ASSUME NEW b \in Bank, b > mloc_id'
        PROVE  reuse_dist_sum'[b] = 0
    BY <1>1, <2>1, <2>5 DEF BanksDense
  <2>6. QED
    BY <2>1, <2>3, <2>4, <2>5 DEF BanksDense
<1>7. QED
  BY <1>2, <1>5, <1>6

LEMMA ReferenceKeepsGlobals ==
    ASSUME GlobalsInv, NEW tag \in Addr, Reference(tag)
    PROVE  GlobalsInv'
<1> GlobalsTypeOK /\ LruExact /\ BanksDense
  BY DEF GlobalsInv
<1>1. /\ cur_inst_pc' \in 0..MaxRefs
      /\ DOMAIN lru' \subseteq Addr
      /\ lru' \in [DOMAIN lru' -> 1..cur_inst_pc']
      /\ trace' \in Seq(Addr)
      /\ Len(trace') = cur_inst_pc'
      /\ LruExact'
  BY ReferenceKeepsLru
<1>2. cur_inst_pc \in 0..MaxRefs - 1 /\ cur_inst_pc' = cur_inst_pc + 1
  BY TimeAssumption DEF Reference, GlobalsTypeOK
<1>3. CASE Reuse(tag)
  <2> DEFINE dist == cur_inst_pc + 1 - lru[tag]
  <2>1. lru[tag] \in 1..cur_inst_pc
    BY <1>3 DEF Reuse, GlobalsTypeOK
  <2>2. dist \in 1..IntMax
    BY <1>2, <2>1, TimeAssumption
  <2>3. /\ AddDistance(dist)
        /\ reuse_dist_dssum' = reuse_dist_dssum + Square(dist)
        /\ inst_dist_count' = [inst_dist_count EXCEPT ![Bin(dist)] = @ + 1]
        /\ reuse_inst_num' = reuse_inst_num + 1
    BY <1>3 DEF Reuse
  <2> HIDE DEF dist
  <2>4. mloc_id \in 0..MaxRefs - 1
    BY <1>2, TimeAssumption DEF GlobalsTypeOK
  <2>5. /\ reuse_dist_sum' \in [Bank -> 0..IntMax]
        /\ mloc_id' \in {mloc_id, mloc_id + 1}
        /\ BanksDense'
    BY <2>2, <2>3, <2>4, AddDistanceKeepsBanks DEF GlobalsTypeOK
  <2>6. mloc_id' \in 0..cur_inst_pc'
    BY <1>2, <2>5 DEF GlobalsTypeOK
  <2>7. reuse_dist_dssum' \in Nat
    BY <2>2, <2>3, SquareType, WordFacts DEF GlobalsTypeOK
  <2>8. inst_dist_count' \in [0..STEP + 1 -> Nat] /\ reuse_inst_num' \in Nat
    <3> DEFINE b == Bin(dist)
               S == 0..STEP + 1
    <3>1. inst_dist_count \in [S -> Nat] /\ reuse_inst_num \in Nat
      BY DEF GlobalsTypeOK
    <3>2. inst_dist_count' = [inst_dist_count EXCEPT ![b] = @ + 1]
      BY <2>3
    <3> HIDE DEF b, S
    <3>3. inst_dist_count' \in [S -> Nat]
      BY <3>1, <3>2, CountType
    <3>4. reuse_inst_num' \in Nat
      BY <2>3, <3>1
    <3>5. QED
      BY <3>3, <3>4 DEF S
  <2>9. QED
    BY <1>1, <2>5, <2>6, <2>7, <2>8 DEF GlobalsTypeOK, GlobalsInv
<1>4. CASE FirstUse(tag)
  <2>1. /\ inst_dist_count' = [inst_dist_count EXCEPT ![STEP + 1] = @ + 1]
        /\ reuse_inst_num' = reuse_inst_num
        /\ reuse_dist_sum' = reuse_dist_sum
        /\ mloc_id' = mloc_id
        /\ reuse_dist_dssum' = reuse_dist_dssum
    BY <1>4 DEF FirstUse
  <2>2. inst_dist_count' \in [0..STEP + 1 -> Nat]
    BY <2>1, TimeAssumption DEF GlobalsTypeOK
  <2>3. mloc_id' \in 0..cur_inst_pc'
    BY <1>2, <2>1 DEF GlobalsTypeOK
  <2>4. BanksDense'
    BY <2>1 DEF BanksDense
  <2>5. QED
    BY <1>1, <2>1, <2>2, <2>3, <2>4 DEF GlobalsTypeOK, GlobalsInv
<1>5. QED
  BY <1>3, <1>4 DEF Reference

LEMMA TimeNextKeepsInv == GlobalsInv /\ [TimeNext]_globals => GlobalsInv'
<1> SUFFICES ASSUME GlobalsInv, [TimeNext]_globals
             PROVE  GlobalsInv'
  OBVIOUS
<1>1. CASE TimeNext
  BY <1>1, ReferenceKeepsGlobals DEF TimeNext
<1>2. CASE UNCHANGED globals
  BY <1>2 DEF globals, counters, GlobalsInv, GlobalsTypeOK, LruExact, BanksDense
<1>3. QED
  BY <1>1, <1>2

-----------------------------------------------------------------------------
(* The window of addresses the cache keeps.                                *)

\* How many addresses were used after a.
Rank(cache, a) == Cardinality({b \in DOMAIN cache : cache[b] > cache[a]})

\* An address used later has a smaller rank.
LEMMA RankFalls ==
    ASSUME NEW cache, IsFiniteSet(DOMAIN cache), \A x \in DOMAIN cache : cache[x] \in Nat,
           NEW a \in DOMAIN cache, NEW b \in DOMAIN cache, cache[a] < cache[b]
    PROVE  /\ Rank(cache, a) \in Nat /\ Rank(cache, b) \in Nat
           /\ Rank(cache, b) < Rank(cache, a)
<1>1. PICK A : A = {x \in DOMAIN cache : cache[x] > cache[a]}
  OBVIOUS
<1>2. PICK B : B = {x \in DOMAIN cache : cache[x] > cache[b]}
  OBVIOUS
<1>3. A \in SUBSET DOMAIN cache /\ B \in SUBSET A /\ b \in A /\ b \notin B
  BY <1>1, <1>2
<1>4. IsFiniteSet(A)
  BY <1>3, FS_Subset
<1>5. IsFiniteSet(B) /\ Cardinality(B) <= Cardinality(A) /\ Cardinality(B) # Cardinality(A)
  BY <1>3, <1>4, FS_Subset
<1>6. Cardinality(A) \in Nat /\ Cardinality(B) \in Nat
  BY <1>4, <1>5, FS_CardinalityType
<1>7. QED
  BY <1>1, <1>2, <1>5, <1>6 DEF Rank

\* The n addresses used last are n, and whatever was used after one of them is
\* one of them.
LEMMA NewestProperties ==
    ASSUME NEW cache, IsFiniteSet(DOMAIN cache), \A x \in DOMAIN cache : cache[x] \in Nat,
           \A x, y \in DOMAIN cache : cache[x] = cache[y] => x = y,
           NEW n \in Nat, n <= Cardinality(DOMAIN cache)
    PROVE  /\ Newest(cache, n) \in SUBSET DOMAIN cache
           /\ IsFiniteSet(Newest(cache, n))
           /\ Cardinality(Newest(cache, n)) = n
           /\ \A a \in Newest(cache, n), b \in DOMAIN cache :
                cache[a] < cache[b] => b \in Newest(cache, n)
           /\ n > 0 => \A a \in DOMAIN cache :
                (\A b \in DOMAIN cache : cache[b] <= cache[a]) => a \in Newest(cache, n)
<1>1. PICK D : D = DOMAIN cache
  OBVIOUS
<1>2. PICK rank : rank = [a \in D |-> Rank(cache, a)]
  OBVIOUS
<1>3. PICK N : N = {a \in D : rank[a] < n}
  OBVIOUS
<1>4. Newest(cache, n) = N
  BY <1>1, <1>2, <1>3 DEF Newest, Rank
<1>5. \A a, b \in D : cache[a] < cache[b] => rank[b] < rank[a]
  BY <1>1, <1>2, RankFalls
<1>6. \A a \in D : rank[a] \in Nat
  <2>1. ASSUME NEW a \in D
        PROVE  rank[a] \in Nat
    <3>1. {b \in DOMAIN cache : cache[b] > cache[a]} \in SUBSET DOMAIN cache
      OBVIOUS
    <3>2. IsFiniteSet({b \in DOMAIN cache : cache[b] > cache[a]})
      BY <3>1, FS_Subset
    <3>3. Rank(cache, a) \in Nat
      BY <3>2, FS_CardinalityType DEF Rank
    <3>4. QED
      BY <3>3, <1>2
  <2>2. QED
    BY <2>1
<1>7. \A a, b \in D : rank[a] = rank[b] => a = b
  <2>1. \A a, b \in D : cache[a] \in Nat /\ cache[b] \in Nat /\ (cache[a] = cache[b] => a = b)
    BY <1>1
  <2>2. QED
    BY <2>1, <1>5, <1>6
<1>8. N \in SUBSET D /\ IsFiniteSet(D)
  BY <1>1, <1>3
<1>9. IsFiniteSet(N) /\ Cardinality(N) \in Nat
  BY <1>8, FS_Subset, FS_CardinalityType
<1>10. Cardinality(N) <= n
  <2>1. PICK f : f = [a \in N |-> rank[a]]
    OBVIOUS
  <2>2. PICK T : T = 0 .. n - 1
    OBVIOUS
  <2>3. IsFiniteSet(T) /\ Cardinality(T) = n
    <3>1. 0 \in Int /\ n - 1 \in Int
      OBVIOUS
    <3>2. QED
      BY <3>1, <2>2, FS_Interval
  <2>4. f \in [N -> T]
    BY <2>1, <2>2, <1>3, <1>6
  <2>5. \A a, b \in N : f[a] = f[b] => a = b
    BY <2>1, <1>7, <1>8
  <2>6. f \in Injection(N, T)
    BY <2>4, <2>5 DEF Injection, IsInjective
  <2>7. QED
    BY <2>3, <2>6, FS_Injection
<1>11. Cardinality(N) >= n
  <2>1. CASE N = D
    BY <2>1, <1>1
  <2>2. CASE N # D
    <3>1. PICK S : S = {rank[a] : a \in D \ N}
      OBVIOUS
    <3>2. S \subseteq Nat /\ S # {}
      BY <3>1, <2>2, <1>6, <1>8
    <3>3. PICK i \in S : \A j \in S : i <= j
      BY <3>2, LeastElement
    <3>4. PICK a \in D \ N : i = rank[a]
      BY <3>1
    <3>5. PICK A : A = {b \in DOMAIN cache : cache[b] > cache[a]}
      OBVIOUS
    <3>6. Cardinality(A) = rank[a] /\ rank[a] \in Nat
      BY <3>4, <3>5, <1>2, <1>6 DEF Rank
    <3>7. rank[a] >= n
      BY <3>4, <1>3, <1>6
    <3>8. ASSUME NEW b \in A
          PROVE  b \in N
      <4>1. b \in D /\ cache[a] < cache[b]
        BY <3>4, <3>5, <1>1
      <4>2. rank[b] < rank[a]
        BY <4>1, <3>4, <1>5
      <4>3. b \in D \ N => rank[a] <= rank[b]
        BY <3>1, <3>3, <3>4
      <4>4. QED
        BY <4>1, <4>2, <4>3, <1>6, <3>6
    <3>9. A \in SUBSET N
      BY <3>8
    <3>10. Cardinality(A) <= Cardinality(N)
      BY <3>9, <1>9, FS_Subset
    <3>11. QED
      BY <3>6, <3>7, <3>10, <1>9
  <2>3. QED
    BY <2>1, <2>2
<1>12. \A a \in N, b \in D : cache[a] < cache[b] => b \in N
  BY <1>3, <1>5, <1>6
<1>13. ASSUME n > 0, NEW a \in D, \A b \in D : cache[b] <= cache[a]
       PROVE  a \in N
  <2>1. {b \in DOMAIN cache : cache[b] > cache[a]} = {}
    BY <1>1, <1>13
  <2>2. Rank(cache, a) = 0
    BY <2>1, FS_EmptySet DEF Rank
  <2>3. QED
    BY <2>2, <1>2, <1>3, <1>13
<1>14. Cardinality(N) = n
  BY <1>9, <1>10, <1>11
<1>15. QED
  BY <1>1, <1>4, <1>8, <1>9, <1>12, <1>13, <1>14


\* What was used after a cached address is cached; an address is missing only
\* when the cache is full; and the cache is never larger than prune allows.
Window ==
    /\ \A a \in DOMAIN lru, j \in DOMAIN trace : j > lru[a] => trace[j] \in DOMAIN lru
    /\ \/ \A j \in DOMAIN trace : trace[j] \in DOMAIN lru
       \/ LruMax > 0 /\ LruMax <= Cardinality(DOMAIN lru)
    /\ LruMax > 0 => \/ Cardinality(DOMAIN lru) <= LruMax
                     \/ Cardinality(DOMAIN lru) < LruMax + Elasticity

\* The cached addresses are finitely many, and no two have the same position.
LEMMA LruFinite ==
    ASSUME GlobalsTypeOK, LruExact
    PROVE  /\ IsFiniteSet(DOMAIN lru)
           /\ Cardinality(DOMAIN lru) \in Nat
           /\ \A a, b \in DOMAIN lru : lru[a] = lru[b] => a = b
<1>1. PICK D : D = DOMAIN lru
  OBVIOUS
<1>2. PICK T : T = 1 .. cur_inst_pc
  OBVIOUS
<1>3. lru \in [D -> T]
  BY <1>1, <1>2 DEF GlobalsTypeOK
<1>4. \A a, b \in D : lru[a] = lru[b] => a = b
  BY <1>1 DEF LruExact
<1>5. lru \in Injection(D, T)
  BY <1>3, <1>4 DEF Injection, IsInjective
<1>6. IsFiniteSet(T)
  <2>1. 1 \in Int /\ cur_inst_pc \in Int
    BY DEF GlobalsTypeOK
  <2>2. QED
    BY <2>1, <1>2, FS_Interval
<1>7. IsFiniteSet(D)
  BY <1>5, <1>6, FS_Injection
<1>8. Cardinality(D) \in Nat
  BY <1>7, FS_CardinalityType
<1>9. QED
  BY <1>1, <1>4, <1>7, <1>8

LEMMA ReferenceKeepsWindow ==
    ASSUME GlobalsTypeOK, LruExact, Window, NEW tag \in Addr, Reference(tag)
    PROVE  Window'
<1>1. PICK pc : pc = cur_inst_pc + 1
  OBVIOUS
<1>2. PICK D : D = DOMAIN lru
  OBVIOUS
<1>3. PICK C : C = D \cup {tag}
  OBVIOUS
<1>4. PICK cache : cache = [a \in C |-> IF a = tag THEN pc ELSE lru[a]]
  OBVIOUS
<1>5. PICK full \in BOOLEAN : full <=> /\ tag \notin D
                                       /\ LruMax > 0
                                       /\ Cardinality(C) >= LruMax + Elasticity
  OBVIOUS
<1>6. PICK few : few = Newest(cache, LruMax)
  OBVIOUS
<1>7. DOMAIN cache = C
  BY <1>4
<1>8. /\ lru' = Insert(tag, pc)
      /\ trace' = Append(trace, tag)
      /\ pc \in Nat \ {0} /\ cur_inst_pc \in Nat
  BY <1>1 DEF Reference, GlobalsTypeOK
<1>9. lru' = IF full THEN Restrict(cache, few) ELSE cache
  BY <1>8, <1>2, <1>3, <1>4, <1>5, <1>6, <1>7 DEF Insert
<1>10. /\ DOMAIN trace = 1 .. pc - 1
       /\ DOMAIN trace' = 1 .. pc
       /\ trace'[pc] = tag
       /\ \A j \in 1 .. pc - 1 : trace'[j] = trace[j]
  BY <1>8, <1>1 DEF GlobalsTypeOK
<1>11. /\ IsFiniteSet(D) /\ Cardinality(D) \in Nat
       /\ \A a, b \in D : lru[a] = lru[b] => a = b
  BY <1>2, LruFinite
<1>12. \A a \in D : lru[a] \in 1 .. pc - 1
  BY <1>1, <1>2 DEF GlobalsTypeOK
<1>13. \A j \in 1 .. pc - 1 : trace[j] \in D => j <= lru[trace[j]]
  BY <1>2, <1>10 DEF LruExact
<1>14. /\ IsFiniteSet(C)
       /\ Cardinality(C) = IF tag \in D THEN Cardinality(D) ELSE Cardinality(D) + 1
  BY <1>3, <1>11, FS_AddElement
<1>15. /\ \A a \in D, j \in 1 .. pc - 1 : j > lru[a] => trace[j] \in D
       /\ \/ \A j \in 1 .. pc - 1 : trace[j] \in D
          \/ LruMax > 0 /\ LruMax <= Cardinality(D)
       /\ LruMax > 0 => \/ Cardinality(D) <= LruMax
                        \/ Cardinality(D) < LruMax + Elasticity
  BY <1>2, <1>10 DEF Window
<1>16. /\ cache[tag] = pc
       /\ \A a \in C : a # tag => a \in D /\ cache[a] = lru[a]
       /\ \A a \in C : cache[a] \in Nat /\ cache[a] <= pc
  BY <1>3, <1>4, <1>8, <1>12
<1>17. LruMax \in Nat /\ Elasticity \in Nat
  BY TimeAssumption
<1>18. \* Whatever was used after an address of the new cache is in it.
       ASSUME NEW a \in C, NEW j \in 1 .. pc, j > cache[a]
       PROVE  trace'[j] \in C /\ cache[a] < cache[trace'[j]]
  <2>1. a # tag
    BY <1>8, <1>16, <1>18
  <2>2. a \in D /\ cache[a] = lru[a] /\ lru[a] < pc
    BY <2>1, <1>8, <1>12, <1>16
  <2>3. CASE j = pc
    BY <2>2, <2>3, <1>3, <1>10, <1>16
  <2>4. CASE j # pc
    <3>1. j \in 1 .. pc - 1 /\ trace'[j] = trace[j]
      BY <2>4, <1>8, <1>10
    <3>2. trace[j] \in D /\ j <= lru[trace[j]]
      BY <3>1, <2>2, <1>13, <1>15, <1>18
    <3>3. CASE trace[j] = tag
      BY <3>1, <3>3, <2>2, <1>3, <1>16
    <3>4. CASE trace[j] # tag
      <4>1. trace[j] \in C /\ cache[trace[j]] = lru[trace[j]]
        BY <3>2, <3>4, <1>3, <1>16
      <4>2. lru[trace[j]] \in Nat /\ lru[a] \in Nat
        BY <3>2, <2>2, <1>12
      <4>3. QED
        BY <4>1, <4>2, <3>1, <3>2, <2>2, <1>18
    <3>5. QED
      BY <3>3, <3>4
  <2>5. QED
    BY <2>3, <2>4
<1>19. CASE ~full
  <2>1. lru' = cache /\ DOMAIN lru' = C
    BY <1>7, <1>9, <1>19
  <2>2. \A a \in C, j \in 1 .. pc : j > cache[a] => trace'[j] \in C
    BY <1>18
  <2>3. \/ \A j \in 1 .. pc : trace'[j] \in C
        \/ LruMax > 0 /\ LruMax <= Cardinality(C)
    <3>1. CASE \A j \in 1 .. pc - 1 : trace[j] \in D
      <4>1. ASSUME NEW j \in 1 .. pc
            PROVE  trace'[j] \in C
        <5>1. CASE j = pc
          BY <5>1, <1>3, <1>10
        <5>2. CASE j # pc
          <6>1. j \in 1 .. pc - 1
            BY <5>2, <1>8
          <6>2. QED
            BY <6>1, <3>1, <1>3, <1>10
        <5>3. QED
          BY <5>1, <5>2
      <4>2. QED
        BY <4>1
    <3>2. CASE LruMax > 0 /\ LruMax <= Cardinality(D)
      BY <3>2, <1>11, <1>14, <1>17
    <3>3. QED
      BY <3>1, <3>2, <1>15
  <2>4. LruMax > 0 => \/ Cardinality(C) <= LruMax
                      \/ Cardinality(C) < LruMax + Elasticity
    BY <1>5, <1>11, <1>14, <1>15, <1>17, <1>19
  <2>5. QED
    BY <2>1, <2>2, <2>3, <2>4, <1>10 DEF Window
<1>20. CASE full
  <2>1. LruMax > 0 /\ LruMax <= Cardinality(C)
    BY <1>5, <1>11, <1>14, <1>17, <1>20
  <2>2. \A x, y \in C : cache[x] = cache[y] => x = y
    <3>1. ASSUME NEW x \in C, NEW y \in C, cache[x] = cache[y]
          PROVE  x = y
      <4>1. CASE x = tag /\ y = tag
        BY <4>1
      <4>2. CASE x # tag /\ y # tag
        BY <4>2, <3>1, <1>11, <1>16
      <4>3. CASE x = tag /\ y # tag
        BY <4>3, <3>1, <1>8, <1>12, <1>16
      <4>4. CASE x # tag /\ y = tag
        BY <4>4, <3>1, <1>8, <1>12, <1>16
      <4>5. QED
        BY <4>1, <4>2, <4>3, <4>4
    <3>2. QED
      BY <3>1
  <2>3. /\ few \in SUBSET C
        /\ Cardinality(few) = LruMax
        /\ \A a \in few, b \in C : cache[a] < cache[b] => b \in few
        /\ LruMax > 0 => \A a \in C : (\A b \in C : cache[b] <= cache[a]) => a \in few
    <3>1. IsFiniteSet(DOMAIN cache)
      BY <1>7, <1>14
    <3>2. \A x \in DOMAIN cache : cache[x] \in Nat
      BY <1>7, <1>16
    <3>3. \A x, y \in DOMAIN cache : cache[x] = cache[y] => x = y
      BY <1>7, <2>2
    <3>4. LruMax <= Cardinality(DOMAIN cache)
      BY <1>7, <2>1
    <3>5. QED
      BY <3>1, <3>2, <3>3, <3>4, <1>6, <1>7, <1>17, NewestProperties
  <2>4. lru' = [a \in few |-> cache[a]]
    BY <1>9, <1>20 DEF Restrict
  <2>5. DOMAIN lru' = few /\ \A a \in few : lru'[a] = cache[a]
    BY <2>4
  <2>6. ASSUME NEW a \in few, NEW j \in 1 .. pc, j > cache[a]
        PROVE  trace'[j] \in few
    <3>1. trace'[j] \in C /\ cache[a] < cache[trace'[j]]
      BY <2>3, <2>6, <1>18
    <3>2. QED
      BY <3>1, <2>3
  <2>7. \A a \in DOMAIN lru', j \in DOMAIN trace' : j > lru'[a] => trace'[j] \in DOMAIN lru'
    BY <2>5, <2>6, <1>10
  <2>8. LruMax <= Cardinality(DOMAIN lru') /\ Cardinality(DOMAIN lru') <= LruMax
    BY <2>3, <2>5, <1>17
  <2>9. QED
    BY <2>1, <2>7, <2>8 DEF Window
<1>21. QED
  BY <1>19, <1>20

\* The addresses used since the last use of a, by the position of that use.
LEMMA UsedSinceIs ==
    ASSUME GlobalsTypeOK, NEW a, NEW j \in DOMAIN trace, trace[j] = a,
           \A k \in DOMAIN trace : trace[k] = a => k <= j
    PROVE  UsedSince(a) = {trace[k] : k \in j + 1 .. Len(trace)}
<1>1. PICK S : S = {0} \cup {k \in DOMAIN trace : trace[k] = a}
  OBVIOUS
<1>2. DOMAIN trace = 1 .. Len(trace) /\ Len(trace) \in Nat
  BY DEF GlobalsTypeOK
<1>3. S \in SUBSET Int /\ j \in S /\ \A x \in S : x <= j
  BY <1>1, <1>2
<1>4. Max(S) = j
  BY <1>3, MaxIs
<1>5. QED
  BY <1>1, <1>4 DEF UsedSince

\* The addresses of a part of the trace are finitely many.
LEMMA UsedFinite ==
    ASSUME GlobalsTypeOK, NEW j \in Nat
    PROVE  IsFiniteSet({trace[k] : k \in j + 1 .. Len(trace)})
<1>1. PICK K : K = j + 1 .. Len(trace)
  OBVIOUS
<1>2. Len(trace) \in Nat
  BY DEF GlobalsTypeOK
<1>3. IsFiniteSet(K)
  <2>1. j + 1 \in Int /\ Len(trace) \in Int
    BY <1>2
  <2>2. QED
    BY <2>1, <1>1, FS_Interval
<1>4. PICK U : U = {trace[k] : k \in K}
  OBVIOUS
<1>5. PICK f : f = [k \in K |-> trace[k]]
  OBVIOUS
<1>6. f \in Surjection(K, U)
  <2>1. f \in [K -> U]
    BY <1>4, <1>5
  <2>2. \A u \in U : \E k \in K : f[k] = u
    BY <1>4, <1>5
  <2>3. QED
    BY <2>1, <2>2 DEF Surjection
<1>7. IsFiniteSet(U)
  BY <1>3, <1>6, FS_Surjection
<1>8. QED
  BY <1>1, <1>4, <1>7

\* An address of the trace has a last use.
LEMMA LastUseExists ==
    ASSUME GlobalsTypeOK, NEW i \in DOMAIN trace
    PROVE  \E j \in DOMAIN trace :
               /\ trace[j] = trace[i]
               /\ \A k \in DOMAIN trace : trace[k] = trace[i] => k <= j
<1>1. PICK S : S = {k \in DOMAIN trace : trace[k] = trace[i]}
  OBVIOUS
<1>2. DOMAIN trace = 1 .. Len(trace) /\ Len(trace) \in Nat
  BY DEF GlobalsTypeOK
<1>3. S \in SUBSET (0 .. Len(trace)) /\ S # {}
  BY <1>1, <1>2
<1>4. Max(S) \in S /\ \A x \in S : x <= Max(S)
  BY <1>2, <1>3, MaxProperties
<1>5. QED
  BY <1>1, <1>4

LEMMA WindowSuffices ==
    ASSUME GlobalsTypeOK, LruExact, Window
    PROVE  RetentionWindow
<1>1. SUFFICES ASSUME NEW a \in {trace[i] : i \in DOMAIN trace}
               PROVE  /\ SurelyHeld(UsedSince(a)) => a \in DOMAIN lru
                      /\ a \in DOMAIN lru => MaybeHeld(UsedSince(a))
  BY DEF RetentionWindow
<1>2. PICK i \in DOMAIN trace : trace[i] = a
  BY <1>1
<1>3. PICK j \in DOMAIN trace : trace[j] = a /\ \A k \in DOMAIN trace : trace[k] = a => k <= j
  BY <1>2, LastUseExists
<1>4. PICK U : U = {trace[k] : k \in j + 1 .. Len(trace)}
  OBVIOUS
<1>5. DOMAIN trace = 1 .. Len(trace) /\ Len(trace) \in Nat /\ j \in Nat
  BY <1>3 DEF GlobalsTypeOK
<1>6. IsFiniteSet(U) /\ Cardinality(U) \in Nat
  BY <1>4, <1>5, UsedFinite, FS_CardinalityType
<1>7. UsedSince(a) = U
  BY <1>3, <1>4, UsedSinceIs
<1>8. PICK D : D = DOMAIN lru
  OBVIOUS
<1>9. IsFiniteSet(D) /\ Cardinality(D) \in Nat
  BY <1>8, LruFinite
<1>10. \A c \in D : /\ lru[c] \in DOMAIN trace /\ trace[lru[c]] = c
                    /\ \A k \in DOMAIN trace : trace[k] = c => k <= lru[c]
  BY <1>8 DEF LruExact
<1>11. LruMax \in Nat /\ Elasticity \in Nat
  BY TimeAssumption
<1>12. ASSUME a \notin D
       PROVE  ~SurelyHeld(U)
  <2>1. LruMax > 0 /\ LruMax <= Cardinality(D)
    BY <1>3, <1>8, <1>12 DEF Window
  <2>2. ASSUME NEW c \in D
        PROVE  c \in U
    <3>1. lru[c] \in DOMAIN trace /\ trace[lru[c]] = c
      BY <1>10
    <3>2. ~(j > lru[c])
      BY <1>3, <1>8, <1>12 DEF Window
    <3>3. lru[c] # j
      BY <3>1, <1>3, <1>12
    <3>4. lru[c] \in j + 1 .. Len(trace)
      BY <3>1, <3>2, <3>3, <1>5
    <3>5. QED
      BY <3>1, <3>4, <1>4
  <2>3. D \in SUBSET U
    BY <2>2
  <2>4. Cardinality(D) <= Cardinality(U)
    BY <2>3, <1>6, FS_Subset
  <2>5. QED
    BY <2>1, <2>4, <1>6, <1>9, <1>11 DEF SurelyHeld
<1>13. ASSUME a \in D
       PROVE  MaybeHeld(U)
  <2>1. lru[a] = j
    <3>1. lru[a] \in DOMAIN trace /\ trace[lru[a]] = a /\ j <= lru[a]
      BY <1>3, <1>10, <1>13
    <3>2. lru[a] <= j
      BY <3>1, <1>3
    <3>3. QED
      BY <3>1, <3>2, <1>5
  <2>2. U \in SUBSET (D \ {a})
    <3>1. ASSUME NEW k \in j + 1 .. Len(trace)
          PROVE  trace[k] \in D \ {a}
      <4>1. k \in DOMAIN trace /\ k > j
        BY <1>5
      <4>2. trace[k] \in D
        BY <4>1, <2>1, <1>8, <1>13 DEF Window
      <4>3. trace[k] # a
        BY <4>1, <1>3, <1>5
      <4>4. QED
        BY <4>2, <4>3
    <3>2. QED
      BY <3>1, <1>4
  <2>3. IsFiniteSet(D \ {a}) /\ Cardinality(D \ {a}) = Cardinality(D) - 1
    BY <1>9, <1>13, FS_RemoveElement
  <2>4. Cardinality(U) <= Cardinality(D) - 1
    BY <2>2, <2>3, FS_Subset
  <2>5. LruMax > 0 => \/ Cardinality(D) <= LruMax
                      \/ Cardinality(D) < LruMax + Elasticity
    BY <1>8 DEF Window
  <2>6. QED
    BY <2>4, <2>5, <1>6, <1>9, <1>11 DEF MaybeHeld, SurelyHeld
<1>14. QED
  BY <1>7, <1>8, <1>12, <1>13


-----------------------------------------------------------------------------
(* The intervals of the histogram.                                         *)

\* A set of i elements has 2^i subsets, from which the order of the powers of
\* two follows.
LEMMA PowersRise ==
    /\ 2^0 = 1
    /\ \A i \in Nat : 2^i \in Nat
    /\ \A i, j \in Nat : i < j => 2^i < 2^j
<1>1. ASSUME NEW i \in Nat
      PROVE  /\ IsFiniteSet(SUBSET (1 .. i))
             /\ Cardinality(SUBSET (1 .. i)) = 2^i
             /\ 2^i \in Nat
  <2>1. IsFiniteSet(1 .. i) /\ Cardinality(1 .. i) = i
    <3>1. 1 \in Int /\ i \in Int
      OBVIOUS
    <3>2. QED
      BY <3>1, FS_Interval
  <2>2. IsFiniteSet(SUBSET (1 .. i)) /\ Cardinality(SUBSET (1 .. i)) = 2^Cardinality(1 .. i)
    BY <2>1, FS_SUBSET, Zenon
  <2>3. Cardinality(SUBSET (1 .. i)) \in Nat
    BY <2>2, FS_CardinalityType
  <2>4. QED
    BY <2>1, <2>2, <2>3
<1>2. 2^0 = 1
  <2>1. 0 \in Nat
    OBVIOUS
  <2>2. 1 .. 0 = {}
    OBVIOUS
  <2>3. SUBSET (1 .. 0) = {{}}
    BY <2>2
  <2>4. Cardinality({{}}) = 1
    BY FS_Singleton
  <2>5. Cardinality(SUBSET (1 .. 0)) = 2^0
    BY <1>1, <2>1
  <2>6. QED
    BY <2>3, <2>4, <2>5
<1>3. ASSUME NEW i \in Nat, NEW j \in Nat, i < j
      PROVE  2^i < 2^j
  <2>1. PICK S : S = SUBSET (1 .. i)
    OBVIOUS
  <2>2. PICK T : T = SUBSET (1 .. j)
    OBVIOUS
  <2>3. IsFiniteSet(T) /\ Cardinality(S) = 2^i /\ Cardinality(T) = 2^j
    BY <1>1, <2>1, <2>2
  <2>4. S \in SUBSET T
    <3>1. 1 .. i \subseteq 1 .. j
      BY <1>3
    <3>2. QED
      BY <3>1, <2>1, <2>2
  <2>5. S # T
    <3>1. 1 .. j \in T /\ j \in 1 .. j /\ j \notin 1 .. i
      BY <1>3, <2>2
    <3>2. QED
      BY <3>1, <2>1
  <2>6. Cardinality(S) <= Cardinality(T) /\ Cardinality(S) # Cardinality(T)
    BY <2>3, <2>4, <2>5, FS_Subset
  <2>7. 2^i \in Nat /\ 2^j \in Nat
    BY <1>1
  <2>8. QED
    BY <2>3, <2>6, <2>7
<1>4. QED
  BY <1>1, <1>2, <1>3

\* A distance is counted in the one interval that contains it.
LEMMA BinIsInterval ==
    ASSUME NEW dist \in Nat \ {0}
    PROVE  /\ Bin(dist) \in 0 .. STEP
           /\ \A b \in 0 .. STEP : InInterval(dist, b) <=> b = Bin(dist)
<1>1. STEP \in Nat
  BY TimeAssumption
<1>2. PICK pow : pow = [i \in Nat |-> 2^i]
  OBVIOUS
<1>3. /\ pow[0] = 1
      /\ \A i \in Nat : pow[i] \in Nat /\ pow[i] = 2^i
      /\ \A i, j \in Nat : i < j => pow[i] < pow[j]
  BY <1>2, PowersRise
<1>4. PICK S : S = {i \in 0 .. STEP : pow[i] <= dist}
  OBVIOUS
<1>5. PICK m : m = Max(S)
  OBVIOUS
<1>6. m \in S /\ \A x \in S : x <= m
  <2>1. S \in SUBSET (0 .. STEP) /\ 0 \in S
    BY <1>1, <1>3, <1>4
  <2>2. QED
    BY <2>1, <1>1, <1>5, MaxProperties
<1>7. m \in 0 .. STEP /\ pow[m] <= dist
  BY <1>4, <1>6
<1>8. {i \in 1 .. STEP : 2^i <= dist} = 1 .. m
  <2>1. ASSUME NEW i \in 1 .. STEP
        PROVE  2^i <= dist <=> i \in 1 .. m
    <3>1. i \in 0 .. STEP /\ i \in Nat /\ m \in Nat
      BY <1>1, <1>7
    <3>2. ASSUME 2^i <= dist
          PROVE  i \in 1 .. m
      <4>1. i \in S
        BY <3>1, <3>2, <1>3, <1>4
      <4>2. QED
        BY <4>1, <3>1, <1>6
    <3>3. ASSUME i \in 1 .. m
          PROVE  2^i <= dist
      <4>1. i = m \/ i < m
        BY <3>1, <3>3
      <4>2. pow[i] <= pow[m] /\ pow[i] \in Nat /\ pow[m] \in Nat
        BY <4>1, <3>1, <1>3
      <4>3. pow[i] <= dist
        BY <4>2, <1>7
      <4>4. QED
        BY <4>3, <3>1, <1>3
    <3>4. QED
      BY <3>2, <3>3
  <2>2. 1 .. m \subseteq 1 .. STEP
    BY <1>1, <1>7
  <2>3. QED
    BY <2>1, <2>2
<1>9. Cardinality(1 .. m) = m
  <2>1. 1 \in Int /\ m \in Int
    BY <1>7
  <2>2. QED
    BY <2>1, <1>7, FS_Interval
<1>10. Bin(dist) = m
  BY <1>8, <1>9 DEF Bin
<1>11. ASSUME NEW b \in 0 .. STEP
       PROVE  (pow[b] <= dist /\ (b = STEP \/ dist < pow[b + 1])) <=> b = m
  <2>1. b \in Nat /\ b + 1 \in Nat /\ m \in Nat /\ pow[b] \in Nat /\ pow[b + 1] \in Nat /\ pow[m] \in Nat
    BY <1>1, <1>3, <1>7
  <2>2. ASSUME b = m
        PROVE  pow[b] <= dist /\ (b = STEP \/ dist < pow[b + 1])
    <3>1. CASE b = STEP
      BY <3>1, <2>2, <1>7
    <3>2. CASE b # STEP
      <4>1. b + 1 \in 0 .. STEP /\ b + 1 \notin S
        BY <3>2, <2>1, <2>2, <1>1, <1>6
      <4>2. ~(pow[b + 1] <= dist)
        BY <4>1, <1>4
      <4>3. QED
        BY <4>2, <2>1, <2>2, <1>7
    <3>3. QED
      BY <3>1, <3>2
  <2>3. ASSUME pow[b] <= dist, b = STEP \/ dist < pow[b + 1]
        PROVE  b = m
    <3>1. b \in S
      BY <2>3, <1>4
    <3>2. b <= m
      BY <3>1, <1>6
    <3>3. ASSUME b < m
          PROVE  FALSE
      <4>1. b # STEP
        BY <3>3, <2>1, <1>1, <1>7
      <4>2. dist < pow[b + 1]
        BY <4>1, <2>3
      <4>3. b + 1 = m \/ b + 1 < m
        BY <3>3, <2>1
      <4>4. pow[b + 1] <= pow[m]
        BY <4>3, <2>1, <1>3
      <4>5. QED
        BY <4>2, <4>4, <2>1, <1>7
    <3>4. QED
      BY <3>2, <3>3, <2>1
  <2>4. QED
    BY <2>2, <2>3
<1>12. \A b \in 0 .. STEP : InInterval(dist, b) <=> b = m
  <2>1. \A b \in 0 .. STEP : b \in Nat /\ b + 1 \in Nat
    BY <1>1
  <2>2. \A b \in 0 .. STEP : pow[b] = 2^b /\ pow[b + 1] = 2^(b + 1)
    BY <2>1, <1>3
  <2>3. QED
    BY <2>2, <1>11 DEF InInterval
<1>13. QED
  BY <1>7, <1>10, <1>12


-----------------------------------------------------------------------------
(* The references that are counted.                                        *)

\* The last use of an address is before its next one.
LEMMA DistanceType ==
    ASSUME GlobalsTypeOK, NEW i \in DOMAIN trace
    PROVE  /\ LastUse(i) \in 0 .. i - 1
           /\ Distance(i) \in Nat \ {0}
<1>1. i \in Nat \ {0}
  BY DEF GlobalsTypeOK
<1>2. PICK S : S = {0} \cup {j \in 1 .. i - 1 : trace[j] = trace[i]}
  OBVIOUS
<1>3. S \in SUBSET (0 .. i - 1) /\ S # {} /\ i - 1 \in Nat
  BY <1>1, <1>2
<1>4. Max(S) \in 0 .. i - 1
  BY <1>3, MaxProperties
<1>5. LastUse(i) \in 0 .. i - 1
  BY <1>2, <1>4 DEF LastUse
<1>6. Distance(i) \in Nat \ {0}
  BY <1>1, <1>5 DEF Distance
<1>7. QED
  BY <1>5, <1>6

\* A reference changes nothing about the earlier ones.
LEMMA PastKept ==
    ASSUME GlobalsTypeOK, NEW tag \in Addr, trace' = Append(trace, tag), NEW i \in DOMAIN trace
    PROVE  /\ LastUse(i)' = LastUse(i)
           /\ Distance(i)' = Distance(i)
           /\ Between(i)' = Between(i)
<1>1. /\ DOMAIN trace = 1 .. Len(trace) /\ Len(trace) \in Nat /\ i \in 1 .. Len(trace)
      /\ \A j \in 1 .. Len(trace) : trace'[j] = trace[j]
  BY DEF GlobalsTypeOK
<1>2. \A j \in 1 .. i - 1 : trace'[j] = trace[j]
  BY <1>1
<1>3. {j \in 1 .. i - 1 : trace'[j] = trace'[i]} = {j \in 1 .. i - 1 : trace[j] = trace[i]}
  BY <1>1, <1>2
<1>4. LastUse(i)' = LastUse(i)
  BY <1>3 DEF LastUse
<1>5. Distance(i)' = Distance(i)
  BY <1>4 DEF Distance
<1>6. PICK l \in 0 .. i - 1 : l = LastUse(i)
  BY DistanceType
<1>7. \A j \in l + 1 .. i - 1 : trace'[j] = trace[j]
  BY <1>1, <1>2, <1>6
<1>8. {trace'[j] : j \in l + 1 .. i - 1} = {trace[j] : j \in l + 1 .. i - 1}
  BY <1>7
<1>9. Between(i)' = Between(i)
  BY <1>4, <1>6, <1>8 DEF Between
<1>10. QED
  BY <1>4, <1>5, <1>9

\* What is known of the new reference before it is made.
LEMMA NewReference ==
    ASSUME GlobalsTypeOK, LruExact, RetentionWindow, NEW tag \in Addr, Reference(tag),
           NEW n, n = cur_inst_pc + 1
    PROVE  /\ tag \in DOMAIN lru => /\ LastUse(n)' = lru[tag]
                                    /\ LastUse(n)' > 0
                                    /\ Distance(n)' = n - lru[tag]
                                    /\ MaybeHeld(Between(n)')
           /\ tag \notin DOMAIN lru => ~(LastUse(n)' > 0 /\ SurelyHeld(Between(n)'))
<1>1. /\ n \in Nat \ {0} /\ n - 1 = Len(trace) /\ DOMAIN trace = 1 .. n - 1
      /\ trace' = Append(trace, tag)
      /\ trace'[n] = tag
      /\ \A j \in 1 .. n - 1 : trace'[j] = trace[j]
  BY DEF Reference, GlobalsTypeOK
<1>2. PICK S : S = {0} \cup {j \in 1 .. n - 1 : trace[j] = tag}
  OBVIOUS
<1>3. {0} \cup {j \in 1 .. n - 1 : trace'[j] = trace'[n]} = S
  BY <1>1, <1>2
<1>4. LastUse(n)' = Max(S)
  BY <1>3 DEF LastUse
<1>5. PICK l : l = Max(S)
  OBVIOUS
<1>6. l \in S /\ \A x \in S : x <= l
  <2>1. n - 1 \in Nat /\ S \in SUBSET (0 .. n - 1) /\ S # {}
    BY <1>1, <1>2
  <2>2. QED
    BY <2>1, <1>5, MaxProperties
<1>7. l \in 0 .. n - 1
  BY <1>1, <1>2, <1>6
<1>8. \A j \in l + 1 .. n - 1 : j \in 1 .. n - 1 /\ trace'[j] = trace[j]
  BY <1>1, <1>7
<1>9. Between(n)' = {trace'[j] : j \in l + 1 .. n - 1}
  BY <1>4, <1>5 DEF Between
<1>10. {trace'[j] : j \in l + 1 .. n - 1} = {trace[j] : j \in l + 1 .. n - 1}
  BY <1>8
<1>11. {0} \cup {j \in DOMAIN trace : trace[j] = tag} = S
  BY <1>1, <1>2
<1>12. UsedSince(tag) = {trace[j] : j \in l + 1 .. n - 1}
  BY <1>1, <1>5, <1>11 DEF UsedSince
<1>13. Between(n)' = UsedSince(tag)
  BY <1>9, <1>10, <1>12
<1>14. ASSUME tag \in DOMAIN lru
       PROVE  /\ LastUse(n)' = lru[tag]
              /\ LastUse(n)' > 0
              /\ Distance(n)' = n - lru[tag]
              /\ MaybeHeld(Between(n)')
  <2>1. /\ lru[tag] \in 1 .. n - 1 /\ trace[lru[tag]] = tag
        /\ \A j \in 1 .. n - 1 : trace[j] = tag => j <= lru[tag]
    BY <1>1, <1>14 DEF LruExact
  <2>2. l = lru[tag]
    <3>1. lru[tag] \in S
      BY <2>1, <1>2
    <3>2. lru[tag] <= l
      BY <3>1, <1>6
    <3>3. l # 0
      BY <3>2, <2>1
    <3>4. l <= lru[tag]
      BY <3>3, <2>1, <1>2, <1>6
    <3>5. QED
      BY <3>2, <3>4, <2>1, <1>7
  <2>3. LastUse(n)' = lru[tag] /\ lru[tag] > 0
    BY <2>1, <2>2, <1>4, <1>5
  <2>4. Distance(n)' = n - lru[tag]
    BY <2>3 DEF Distance
  <2>5. tag \in {trace[i] : i \in DOMAIN trace}
    BY <2>1, <1>1
  <2>6. MaybeHeld(UsedSince(tag))
    BY <2>5, <1>14 DEF RetentionWindow
  <2>7. QED
    BY <2>3, <2>4, <2>6, <1>13
<1>15. ASSUME tag \notin DOMAIN lru, LastUse(n)' > 0
       PROVE  ~SurelyHeld(Between(n)')
  <2>1. l > 0
    BY <1>4, <1>5, <1>15
  <2>2. l \in 1 .. n - 1 /\ trace[l] = tag
    BY <2>1, <1>2, <1>6
  <2>3. tag \in {trace[i] : i \in DOMAIN trace}
    BY <2>2, <1>1
  <2>4. ~SurelyHeld(UsedSince(tag))
    BY <2>3, <1>15 DEF RetentionWindow
  <2>5. QED
    BY <2>4, <1>13
<1>16. QED
  BY <1>14, <1>15

\* A reference that finds its address may be counted; one that does not was not
\* sure to be.
LEMMA Classified ==
    ASSUME GlobalsTypeOK, LruExact, RetentionWindow, NEW tag \in Addr, Reference(tag),
           NEW n, n = cur_inst_pc + 1
    PROVE  /\ \A i \in 1 .. n - 1 : Distance(i)' = Distance(i)
           /\ SurelyCounted \in SUBSET (1 .. n - 1)
           /\ MaybeCounted \in SUBSET (1 .. n - 1)
           /\ tag \in DOMAIN lru =>
                /\ MaybeCounted' = MaybeCounted \cup {n}
                /\ SurelyCounted' \in {SurelyCounted, SurelyCounted \cup {n}}
           /\ tag \notin DOMAIN lru =>
                /\ MaybeCounted' \in {MaybeCounted, MaybeCounted \cup {n}}
                /\ SurelyCounted' = SurelyCounted
<1>1. /\ n \in Nat \ {0} /\ DOMAIN trace = 1 .. n - 1 /\ DOMAIN trace' = 1 .. n
      /\ trace' = Append(trace, tag)
  BY DEF Reference, GlobalsTypeOK
<1>2. \A i \in 1 .. n - 1 : /\ LastUse(i)' = LastUse(i)
                            /\ Distance(i)' = Distance(i)
                            /\ Between(i)' = Between(i)
  BY <1>1, PastKept
<1>3. PICK used : used = [i \in 1 .. n |-> LastUse(i)' > 0]
  OBVIOUS
<1>4. PICK sure : sure = [i \in 1 .. n |-> SurelyHeld(Between(i)')]
  OBVIOUS
<1>5. PICK may : may = [i \in 1 .. n |-> MaybeHeld(Between(i)')]
  OBVIOUS
<1>6. n \in 1 .. n /\ \A i \in 1 .. n - 1 : i \in 1 .. n
  BY <1>1
<1>7. Reused' = {i \in 1 .. n : LastUse(i)' > 0}
  BY <1>1 DEF Reused
<1>8. SurelyCounted' = {i \in 1 .. n : LastUse(i)' > 0 /\ SurelyHeld(Between(i)')}
  BY <1>7 DEF SurelyCounted
<1>9. MaybeCounted' = {i \in 1 .. n : LastUse(i)' > 0 /\ MaybeHeld(Between(i)')}
  BY <1>7 DEF MaybeCounted
<1>10. SurelyCounted = {i \in 1 .. n - 1 : LastUse(i) > 0 /\ SurelyHeld(Between(i))}
  BY <1>1 DEF SurelyCounted, Reused
<1>11. MaybeCounted = {i \in 1 .. n - 1 : LastUse(i) > 0 /\ MaybeHeld(Between(i))}
  BY <1>1 DEF MaybeCounted, Reused
<1>12. SurelyCounted' = {i \in 1 .. n : used[i] /\ sure[i]}
  BY <1>3, <1>4, <1>8
<1>13. MaybeCounted' = {i \in 1 .. n : used[i] /\ may[i]}
  BY <1>3, <1>5, <1>9
<1>14. SurelyCounted = {i \in 1 .. n - 1 : used[i] /\ sure[i]}
  BY <1>2, <1>3, <1>4, <1>6, <1>10
<1>15. MaybeCounted = {i \in 1 .. n - 1 : used[i] /\ may[i]}
  BY <1>2, <1>3, <1>5, <1>6, <1>11
<1>16. /\ used[n] <=> LastUse(n)' > 0
       /\ sure[n] <=> SurelyHeld(Between(n)')
       /\ may[n] <=> MaybeHeld(Between(n)')
  BY <1>3, <1>4, <1>5, <1>6
<1>17. 1 .. n = (1 .. n - 1) \cup {n}
  BY <1>1
<1>18. /\ SurelyCounted' = IF used[n] /\ sure[n] THEN SurelyCounted \cup {n} ELSE SurelyCounted
       /\ MaybeCounted' = IF used[n] /\ may[n] THEN MaybeCounted \cup {n} ELSE MaybeCounted
  BY <1>12, <1>13, <1>14, <1>15, <1>17
<1>19. /\ tag \in DOMAIN lru => LastUse(n)' > 0 /\ MaybeHeld(Between(n)')
       /\ tag \notin DOMAIN lru => ~(LastUse(n)' > 0 /\ SurelyHeld(Between(n)'))
  BY NewReference
<1>20. QED
  BY <1>2, <1>14, <1>15, <1>16, <1>18, <1>19


\* Counting is adding ones.
LEMMA CountIsSum ==
    ASSUME NEW T, IsFiniteSet(T), NEW f, \A x \in T : f[x] \in {0, 1}
    PROVE  Cardinality({x \in T : f[x] = 1}) = SumFunctionOnSet(f, T)
<1>1. PICK ones : ones = {x \in T : f[x] = 1}
  OBVIOUS
<1>2. Pairs(f, T) = ones \X (1 .. 1)
  <2>1. 1 .. 0 = {}
    OBVIOUS
  <2>2. \A x \in T : (f[x] = 1 /\ 1 .. f[x] = 1 .. 1) \/ (f[x] = 0 /\ 1 .. f[x] = {})
    BY <2>1
  <2>3. UNION {{x} \X (1 .. f[x]) : x \in T} = ones \X (1 .. 1)
    BY <2>2, <1>1
  <2>4. QED
    BY <2>3 DEF Pairs
<1>3. IsFiniteSet(1 .. 1) /\ Cardinality(1 .. 1) = 1
  <2>1. PICK k \in Nat : k = 1
    OBVIOUS
  <2>2. IsFiniteSet(1 .. k) /\ Cardinality(1 .. k) = IF 1 > k THEN 0 ELSE k - 1 + 1
    BY FS_Interval
  <2>3. QED
    BY <2>1, <2>2
<1>4. IsFiniteSet(ones)
  BY <1>1, FS_Subset
<1>5. Cardinality(ones \X (1 .. 1)) = Cardinality(ones) * Cardinality(1 .. 1)
  BY <1>3, <1>4, FS_Product, Zenon
<1>6. \A x \in T : f[x] \in Nat
  OBVIOUS
<1>7. SumFunctionOnSet(f, T) = Cardinality(Pairs(f, T))
  BY <1>6, SumIsPairs
<1>8. Cardinality(ones) \in Nat
  BY <1>4, FS_CardinalityType
<1>9. QED
  BY <1>1, <1>2, <1>3, <1>5, <1>7, <1>8

\* A total stays between the weights of the references that were sure to be
\* counted and of those that may have been, when the new one is counted just if
\* it hits the cache.
LEMMA BracketStep ==
    ASSUME NEW n \in Nat \ {0}, NEW w, \A i \in 1 .. n : w[i] \in Nat,
           NEW S \in SUBSET (1 .. n - 1), NEW M \in SUBSET (1 .. n - 1),
           NEW S2, NEW M2, NEW total \in Nat, NEW total2,
           \/ /\ M2 = M \cup {n}
              /\ S2 \in {S, S \cup {n}}
              /\ total2 = total + w[n]
           \/ /\ M2 \in {M, M \cup {n}}
              /\ S2 = S
              /\ total2 = total,
           SumFunctionOnSet(w, S) <= total, total <= SumFunctionOnSet(w, M)
    PROVE  SumFunctionOnSet(w, S2) <= total2 /\ total2 <= SumFunctionOnSet(w, M2)
<1>1. n \in 1 .. n /\ n \notin 1 .. n - 1 /\ \A i \in 1 .. n - 1 : i \in 1 .. n
  OBVIOUS
<1>2. ASSUME NEW T \in SUBSET (1 .. n - 1)
      PROVE  /\ SumFunctionOnSet(w, T) \in Nat
             /\ SumFunctionOnSet(w, T \cup {n}) = SumFunctionOnSet(w, T) + w[n]
  <2>1. IsFiniteSet(1 .. n - 1)
    <3>1. 1 \in Int /\ n - 1 \in Int
      OBVIOUS
    <3>2. QED
      BY <3>1, FS_Interval
  <2>2. IsFiniteSet(T)
    BY <2>1, FS_Subset
  <2>3. \A y \in T : w[y] \in Nat
    BY <1>1
  <2>4. SumFunctionOnSet(w, T) \in Nat
    BY <2>2, <2>3, SumType
  <2>5. n \notin T /\ w[n] \in Nat /\ \A y \in T : w[y] \in Nat /\ w[y] = w[y]
    BY <2>3, <1>1
  <2>6. SumFunctionOnSet(w, T \cup {n}) = SumFunctionOnSet(w, T) + w[n]
    BY <2>2, <2>5, SumAdd
  <2>7. QED
    BY <2>4, <2>6
<1>3. /\ SumFunctionOnSet(w, S) \in Nat
      /\ SumFunctionOnSet(w, S \cup {n}) = SumFunctionOnSet(w, S) + w[n]
      /\ SumFunctionOnSet(w, M) \in Nat
      /\ SumFunctionOnSet(w, M \cup {n}) = SumFunctionOnSet(w, M) + w[n]
  BY <1>2
<1>4. w[n] \in Nat
  BY <1>1
<1>5. PICK s \in Nat : s = SumFunctionOnSet(w, S)
  BY <1>3
<1>6. PICK m \in Nat : m = SumFunctionOnSet(w, M)
  BY <1>3
<1>7. PICK s2 : s2 = SumFunctionOnSet(w, S2)
  OBVIOUS
<1>8. PICK m2 : m2 = SumFunctionOnSet(w, M2)
  OBVIOUS
<1>9. s <= total /\ total <= m
  BY <1>5, <1>6
<1>10. CASE M2 = M \cup {n} /\ S2 \in {S, S \cup {n}} /\ total2 = total + w[n]
  <2>1. S2 = S \/ S2 = S \cup {n}
    BY <1>10
  <2>2. s2 = s \/ s2 = s + w[n]
    BY <2>1, <1>3, <1>5, <1>7
  <2>3. m2 = m + w[n]
    BY <1>3, <1>6, <1>8, <1>10
  <2>4. s2 <= total + w[n] /\ total + w[n] <= m2
    BY <2>2, <2>3, <1>4, <1>9
  <2>5. QED
    BY <2>4, <1>7, <1>8, <1>10
<1>11. CASE M2 \in {M, M \cup {n}} /\ S2 = S /\ total2 = total
  <2>1. M2 = M \/ M2 = M \cup {n}
    BY <1>11
  <2>2. m2 = m \/ m2 = m + w[n]
    BY <2>1, <1>3, <1>6, <1>8
  <2>3. s2 = s
    BY <1>5, <1>7, <1>11
  <2>4. s2 <= total /\ total <= m2
    BY <2>2, <2>3, <1>4, <1>9
  <2>5. QED
    BY <2>4, <1>7, <1>8, <1>11
<1>12. QED
  BY <1>10, <1>11

\* Only the weights of the summed positions matter.
LEMMA SumOfWeights ==
    ASSUME NEW n \in Nat, NEW S \in SUBSET (1 .. n), NEW w, \A i \in 1 .. n : w[i] \in Nat,
           NEW F, DOMAIN F = S, \A i \in S : F[i] = w[i]
    PROVE  SumFunction(F) = SumFunctionOnSet(w, S)
<1>1. IsFiniteSet(1 .. n)
  <2>1. 1 \in Int /\ n \in Int
    OBVIOUS
  <2>2. QED
    BY <2>1, FS_Interval
<1>2. IsFiniteSet(S)
  BY <1>1, FS_Subset
<1>3. SumFunction(F) = SumFunctionOnSet(F, S)
  BY DEF SumFunction
<1>4. \A i \in S : F[i] \in Nat /\ F[i] = w[i]
  OBVIOUS
<1>5. QED
  BY <1>2, <1>3, <1>4, SumSame

\* The shape of a reference: it hits and has a distance, or it misses.
LEMMA HitOrMiss ==
    ASSUME GlobalsTypeOK, NEW tag \in Addr, Reference(tag), NEW n, n = cur_inst_pc + 1
    PROVE  /\ n \in 1 .. MaxRefs /\ cur_inst_pc' = n
           /\ n \in Nat \ {0} /\ n - 1 = cur_inst_pc
           /\ tag \in DOMAIN lru => Reuse(tag) /\ lru[tag] \in 1 .. n - 1
           /\ tag \notin DOMAIN lru => FirstUse(tag)
<1>1. n \in 1 .. MaxRefs /\ cur_inst_pc' = n /\ n \in Nat \ {0} /\ n - 1 = cur_inst_pc
  BY TimeAssumption DEF Reference, GlobalsTypeOK
<1>2. tag \in DOMAIN lru => lru[tag] \in 1 .. n - 1
  BY DEF GlobalsTypeOK
<1>3. tag \in DOMAIN lru => Reuse(tag)
  BY DEF Reference, FirstUse
<1>4. tag \notin DOMAIN lru => FirstUse(tag)
  BY DEF Reference, Reuse
<1>5. QED
  BY <1>1, <1>2, <1>3, <1>4

LEMMA ReferenceKeepsHistogram ==
    ASSUME GlobalsTypeOK, GlobalsTypeOK', LruExact, RetentionWindow, HistogramBracketed,
           NEW tag \in Addr, Reference(tag)
    PROVE  HistogramBracketed'
<1>1. PICK n : n = cur_inst_pc + 1
  OBVIOUS
<1>2. PICK hit \in BOOLEAN : hit <=> tag \in DOMAIN lru
  OBVIOUS
<1>3. PICK F : F = inst_dist_count
  OBVIOUS
<1>4. PICK G : G = inst_dist_count'
  OBVIOUS
<1>5. PICK key : key = IF hit THEN Bin(n - lru[tag]) ELSE STEP + 1
  OBVIOUS
<1>6. /\ n \in Nat \ {0} /\ n - 1 = cur_inst_pc /\ cur_inst_pc' = n
      /\ hit => Reuse(tag) /\ n - lru[tag] \in Nat \ {0}
      /\ ~hit => FirstUse(tag)
  <2>1. /\ n \in Nat \ {0} /\ n - 1 = cur_inst_pc /\ cur_inst_pc' = n
        /\ tag \in DOMAIN lru => Reuse(tag) /\ lru[tag] \in 1 .. n - 1
        /\ tag \notin DOMAIN lru => FirstUse(tag)
    BY <1>1, HitOrMiss
  <2>2. QED
    BY <2>1, <1>2
<1>7. STEP \in Nat
  BY TimeAssumption
<1>8. key \in 0 .. STEP + 1 /\ (hit <=> key # STEP + 1)
  <2>1. CASE hit
    <3>1. key \in 0 .. STEP
      BY <2>1, <1>5, <1>6, BinIsInterval
    <3>2. QED
      BY <3>1, <2>1, <1>7
  <2>2. CASE ~hit
    BY <2>2, <1>5, <1>7
  <2>3. QED
    BY <2>1, <2>2
<1>9. F \in [0 .. STEP + 1 -> Nat] /\ reuse_inst_num \in Nat
  BY <1>3 DEF GlobalsTypeOK
<1>10. /\ G = [F EXCEPT ![key] = @ + 1]
       /\ reuse_inst_num' = IF hit THEN reuse_inst_num + 1 ELSE reuse_inst_num
  <2>1. CASE hit
    <3>0. Reuse(tag)
      BY <2>1, <1>6
    <3>1. key = Bin(cur_inst_pc + 1 - lru[tag])
      <4>1. PICK d : d = n - lru[tag]
        OBVIOUS
      <4>2. lru[tag] \in Nat /\ cur_inst_pc \in Nat
        BY <2>1, <1>2 DEF GlobalsTypeOK
      <4>3. d = cur_inst_pc + 1 - lru[tag]
        BY <4>1, <4>2, <1>1
      <4>4. key = Bin(d)
        BY <4>1, <2>1, <1>5
      <4>5. QED
        BY <4>3, <4>4
    <3>2. /\ inst_dist_count' = [inst_dist_count EXCEPT ![key] = @ + 1]
          /\ reuse_inst_num' = reuse_inst_num + 1
      BY <3>0, <3>1 DEF Reuse
    <3>3. QED
      BY <3>2, <2>1, <1>3, <1>4
  <2>2. CASE ~hit
    BY <2>2, <1>3, <1>4, <1>5, <1>6 DEF FirstUse
  <2>3. QED
    BY <2>1, <2>2
<1>11. /\ SumFunction(F) \in Nat
       /\ SumFunction(G) = SumFunction(F) + 1
  <2>1. DOMAIN F = 0 .. STEP + 1 /\ DOMAIN G = 0 .. STEP + 1
    BY <1>9, <1>10
  <2>2. IsFiniteSet(0 .. STEP + 1)
    <3>1. 0 \in Int /\ STEP + 1 \in Int
      BY <1>7
    <3>2. QED
      BY <3>1, FS_Interval
  <2>3. /\ IsFiniteSet(DOMAIN F)
        /\ DOMAIN G = DOMAIN F \cup {key}
        /\ \A b \in DOMAIN F : F[b] \in Nat
        /\ \A b \in DOMAIN G : G[b] \in Nat
        /\ \A b \in DOMAIN F : b # key => F[b] = G[b]
        /\ 1 \in Nat
        /\ G[key] = (IF key \in DOMAIN F THEN F[key] ELSE 0) + 1
    BY <2>1, <2>2, <1>8, <1>9, <1>10
  <2>4. QED
    BY <2>3, SumGrows
<1>12. /\ SumFunction(F) = cur_inst_pc
       /\ SumFunction(F) - F[STEP + 1] = reuse_inst_num
       /\ \A b \in 0 .. STEP :
            /\ Cardinality({i \in SurelyCounted : InInterval(Distance(i), b)}) <= F[b]
            /\ F[b] <= Cardinality({i \in MaybeCounted : InInterval(Distance(i), b)})
  BY <1>3 DEF HistogramBracketed, Total
<1>13. SumFunction(G) = cur_inst_pc'
  BY <1>6, <1>11, <1>12
<1>14. SumFunction(G) - G[STEP + 1] = reuse_inst_num'
  <2>1. F[STEP + 1] \in Nat /\ STEP + 1 \in 0 .. STEP + 1
    BY <1>7, <1>9
  <2>2. G[STEP + 1] = IF hit THEN F[STEP + 1] ELSE F[STEP + 1] + 1
    BY <2>1, <1>8, <1>9, <1>10
  <2>3. CASE hit
    BY <2>1, <2>2, <2>3, <1>9, <1>10, <1>11, <1>12
  <2>4. CASE ~hit
    BY <2>1, <2>2, <2>4, <1>9, <1>10, <1>11, <1>12
  <2>5. QED
    BY <2>3, <2>4
<1>15. ASSUME NEW b \in 0 .. STEP
       PROVE  /\ Cardinality({i \in SurelyCounted' : InInterval(Distance(i)', b)}) <= G[b]
              /\ G[b] <= Cardinality({i \in MaybeCounted' : InInterval(Distance(i)', b)})
  <2>1. PICK w : w = [i \in 1 .. n |-> IF InInterval(Distance(i)', b) THEN 1 ELSE 0]
    OBVIOUS
  <2>2. PICK S : S = SurelyCounted
    OBVIOUS
  <2>3. PICK M : M = MaybeCounted
    OBVIOUS
  <2>4. PICK S2 : S2 = SurelyCounted'
    OBVIOUS
  <2>5. PICK M2 : M2 = MaybeCounted'
    OBVIOUS
  <2>6. /\ \A i \in 1 .. n - 1 : Distance(i)' = Distance(i)
        /\ S \in SUBSET (1 .. n - 1) /\ M \in SUBSET (1 .. n - 1)
        /\ hit => M2 = M \cup {n} /\ S2 \in {S, S \cup {n}}
        /\ ~hit => M2 \in {M, M \cup {n}} /\ S2 = S
    BY <2>2, <2>3, <2>4, <2>5, <1>1, <1>2, Classified
  <2>7. /\ \A i \in 1 .. n : w[i] \in {0, 1} /\ (w[i] = 1 <=> InInterval(Distance(i)', b))
        /\ n \in 1 .. n /\ \A i \in 1 .. n - 1 : i \in 1 .. n
    BY <2>1, <1>6
  <2>8. S2 \in SUBSET (1 .. n) /\ M2 \in SUBSET (1 .. n)
    BY <2>6, <2>7
  <2>9. ASSUME NEW T \in SUBSET (1 .. n)
        PROVE  Cardinality({i \in T : w[i] = 1}) = SumFunctionOnSet(w, T)
    <3>1. IsFiniteSet(1 .. n)
      <4>1. 1 \in Int /\ n \in Int
        BY <1>6
      <4>2. QED
        BY <4>1, FS_Interval
    <3>2. IsFiniteSet(T)
      BY <3>1, FS_Subset
    <3>3. \A x \in T : w[x] \in {0, 1}
      BY <2>7
    <3>4. QED
      BY <3>2, <3>3, CountIsSum
  <2>10. /\ {i \in SurelyCounted' : InInterval(Distance(i)', b)} = {i \in S2 : w[i] = 1}
         /\ {i \in MaybeCounted' : InInterval(Distance(i)', b)} = {i \in M2 : w[i] = 1}
    BY <2>4, <2>5, <2>7, <2>8
  <2>11. /\ {i \in SurelyCounted : InInterval(Distance(i), b)} = {i \in S : w[i] = 1}
         /\ {i \in MaybeCounted : InInterval(Distance(i), b)} = {i \in M : w[i] = 1}
    BY <2>2, <2>3, <2>6, <2>7
  <2>12. S \in SUBSET (1 .. n) /\ M \in SUBSET (1 .. n)
    BY <2>6, <2>7
  <2>13. SumFunctionOnSet(w, S) <= F[b] /\ F[b] <= SumFunctionOnSet(w, M)
    BY <2>9, <2>11, <2>12, <1>12
  <2>14. F[b] \in Nat /\ b \in 0 .. STEP + 1
    BY <1>7, <1>9
  <2>15. G[b] = IF hit THEN F[b] + w[n] ELSE F[b]
    <3>1. CASE hit
      <4>1. Distance(n)' = n - lru[tag]
        BY <3>1, <1>1, <1>2, NewReference
      <4>2. key = Bin(n - lru[tag])
        BY <3>1, <1>5
      <4>3. InInterval(n - lru[tag], b) <=> b = key
        BY <4>2, <3>1, <1>6, BinIsInterval
      <4>4. w[n] = IF b = key THEN 1 ELSE 0
        BY <4>1, <4>3, <2>1, <2>7
      <4>5. G[b] = IF b = key THEN F[b] + 1 ELSE F[b]
        BY <2>14, <1>9, <1>10
      <4>6. QED
        BY <3>1, <4>4, <4>5, <2>14
    <3>2. CASE ~hit
      <4>1. b # key
        BY <3>2, <1>5, <1>7
      <4>2. QED
        BY <3>2, <4>1, <2>14, <1>9, <1>10
    <3>3. QED
      BY <3>1, <3>2
  <2>16. \A i \in 1 .. n : w[i] \in Nat
    BY <2>7
  <2>17. SumFunctionOnSet(w, S2) <= G[b] /\ G[b] <= SumFunctionOnSet(w, M2)
    <3>1. PICK total \in Nat : total = F[b]
      BY <2>14
    <3>2. PICK total2 : total2 = G[b]
      OBVIOUS
    <3>3. \/ /\ M2 = M \cup {n}
             /\ S2 \in {S, S \cup {n}}
             /\ total2 = total + w[n]
          \/ /\ M2 \in {M, M \cup {n}}
             /\ S2 = S
             /\ total2 = total
      BY <3>1, <3>2, <2>6, <2>15
    <3>4. SumFunctionOnSet(w, S) <= total /\ total <= SumFunctionOnSet(w, M)
      BY <3>1, <2>13
    <3>5. n \in Nat \ {0}
      BY <1>6
    <3>6. S \in SUBSET (1 .. n - 1) /\ M \in SUBSET (1 .. n - 1)
      BY <2>6
    <3>7. SumFunctionOnSet(w, S2) <= total2 /\ total2 <= SumFunctionOnSet(w, M2)
      BY <3>3, <3>4, <3>5, <3>6, <2>16, BracketStep
    <3>8. QED
      BY <3>2, <3>7
  <2>18. QED
    BY <2>8, <2>9, <2>10, <2>17
<1>16. QED
  BY <1>4, <1>13, <1>14, <1>15 DEF HistogramBracketed, Total


\* Adding to one entry of a function adds to its sum.
LEMMA SumEntry ==
    ASSUME NEW S, IsFiniteSet(S), NEW F \in [S -> Nat], NEW a \in S, NEW d \in Nat,
           NEW G \in [S -> Nat], \A x \in S : G[x] = IF x = a THEN F[a] + d ELSE F[x]
    PROVE  SumFunction(F) \in Nat /\ SumFunction(G) = SumFunction(F) + d
<1>1. DOMAIN F = S /\ DOMAIN G = S
  OBVIOUS
<1>2. \A b \in S : F[b] \in Nat /\ G[b] \in Nat
  OBVIOUS
<1>3. \A b \in S : b # a => F[b] = G[b]
  OBVIOUS
<1>4. SumFunctionOnSet(G, S) = SumFunctionOnSet(F, S) - F[a] + G[a]
  BY <1>2, <1>3, SumUpdate
<1>5. SumFunctionOnSet(F, S) \in Nat
  BY <1>2, SumType
<1>6. G[a] = F[a] + d /\ F[a] \in Nat
  OBVIOUS
<1>7. SumFunctionOnSet(G, S) = SumFunctionOnSet(F, S) + d
  BY <1>4, <1>5, <1>6
<1>8. QED
  BY <1>1, <1>5, <1>7 DEF SumFunction

\* What is added to one bank is added to all of them together.
LEMMA BanksAdd ==
    ASSUME GlobalsTypeOK, BanksDense, mloc_id # MaxRefs,
           NEW dist \in Nat, dist <= IntMax, AddDistance(dist)
    PROVE  /\ SumFunction(reuse_dist_sum) \in Nat
           /\ SumFunction(reuse_dist_sum') = SumFunction(reuse_dist_sum) + dist
<1>1. PICK F : F = reuse_dist_sum
  OBVIOUS
<1>2. PICK G : G = reuse_dist_sum'
  OBVIOUS
<1>3. PICK s : s = reuse_dist_sum[mloc_id]
  OBVIOUS
<1>4. PICK a : a = mloc_id'
  OBVIOUS
<1>5. mloc_id \in Nat /\ mloc_id \in Bank /\ mloc_id + 1 \in Bank
  BY TimeAssumption DEF Bank, GlobalsTypeOK
<1>6. s \in 0..IntMax /\ s \in Nat /\ dist \in Nat
  BY <1>3, <1>5, WordFacts DEF GlobalsTypeOK
<1>7. (s + dist) % Word = s + dist
  BY <1>6, WordFacts, NoWrap
<1>8. reuse_dist_sum[mloc_id + 1] = 0
  BY <1>5 DEF BanksDense
<1>9. /\ a \in Bank
      /\ G = [F EXCEPT ![a] = F[a] + dist]
  <2>1. CASE s + dist > IntMax
    <3>1. /\ mloc_id' = mloc_id + 1
          /\ reuse_dist_sum' = [reuse_dist_sum EXCEPT ![mloc_id + 1] = dist]
      BY <1>3, <1>7, <2>1 DEF AddDistance
    <3>2. a = mloc_id + 1 /\ F[a] + dist = dist
      BY <3>1, <1>1, <1>4, <1>6, <1>8
    <3>3. QED
      BY <3>1, <3>2, <1>1, <1>2, <1>5
  <2>2. CASE ~(s + dist > IntMax)
    <3>1. /\ mloc_id' = mloc_id
          /\ reuse_dist_sum' = [reuse_dist_sum EXCEPT ![mloc_id] = s + dist]
      BY <1>3, <1>7, <2>2 DEF AddDistance
    <3>2. QED
      BY <3>1, <1>1, <1>2, <1>3, <1>4, <1>5
  <2>3. QED
    BY <2>1, <2>2
<1>10. \A b \in Bank : F[b] \in Nat
  BY <1>1, WordFacts DEF GlobalsTypeOK
<1>11. F[a] + dist \in Nat
  BY <1>6, <1>9, <1>10
<1>12. IsFiniteSet(Bank)
  <2>1. 0 \in Int /\ MaxRefs \in Int
    BY TimeAssumption
  <2>2. QED
    BY <2>1, FS_Interval DEF Bank
<1>13. F \in [Bank -> Nat] /\ G \in [Bank -> Nat]
  <2>1. F \in [Bank -> 0..IntMax]
    BY <1>1 DEF GlobalsTypeOK
  <2>2. F \in [Bank -> Nat]
    BY <2>1, <1>10
  <2>3. QED
    BY <2>2, <1>9, <1>11
<1>14. \A b \in Bank : G[b] = IF b = a THEN F[a] + dist ELSE F[b]
  BY <1>9, <1>13
<1>15. SumFunction(F) \in Nat /\ SumFunction(G) = SumFunction(F) + dist
  <2>1. PICK B : B = Bank
    OBVIOUS
  <2>2. IsFiniteSet(B) /\ F \in [B -> Nat] /\ G \in [B -> Nat] /\ a \in B
    BY <2>1, <1>9, <1>12, <1>13
  <2>3. \A b \in B : G[b] = IF b = a THEN F[a] + dist ELSE F[b]
    BY <2>1, <1>14
  <2>4. QED
    BY <2>2, <2>3, SumEntry
<1>16. QED
  BY <1>1, <1>2, <1>15

\* A total to which each reference that hits adds its weight stays bracketed.
LEMMA TotalBracketed ==
    ASSUME GlobalsTypeOK, LruExact, RetentionWindow, NEW tag \in Addr, Reference(tag),
           NEW n, n = cur_inst_pc + 1,
           NEW w, \A i \in 1 .. n : w[i] \in Nat,
           NEW total \in Nat, NEW total2,
           \/ tag \in DOMAIN lru /\ total2 = total + w[n]
           \/ tag \notin DOMAIN lru /\ total2 = total,
           SumFunctionOnSet(w, SurelyCounted) <= total,
           total <= SumFunctionOnSet(w, MaybeCounted)
    PROVE  /\ SumFunctionOnSet(w, SurelyCounted') <= total2
           /\ total2 <= SumFunctionOnSet(w, MaybeCounted')
<1>1. PICK S : S = SurelyCounted
  OBVIOUS
<1>2. PICK M : M = MaybeCounted
  OBVIOUS
<1>3. PICK S2 : S2 = SurelyCounted'
  OBVIOUS
<1>4. PICK M2 : M2 = MaybeCounted'
  OBVIOUS
<1>5. /\ S \in SUBSET (1 .. n - 1) /\ M \in SUBSET (1 .. n - 1)
      /\ tag \in DOMAIN lru => M2 = M \cup {n} /\ S2 \in {S, S \cup {n}}
      /\ tag \notin DOMAIN lru => M2 \in {M, M \cup {n}} /\ S2 = S
  BY <1>1, <1>2, <1>3, <1>4, Classified
<1>6. \/ /\ M2 = M \cup {n}
         /\ S2 \in {S, S \cup {n}}
         /\ total2 = total + w[n]
      \/ /\ M2 \in {M, M \cup {n}}
         /\ S2 = S
         /\ total2 = total
  BY <1>5
<1>7. n \in Nat \ {0}
  BY DEF GlobalsTypeOK
<1>8. SumFunctionOnSet(w, S) <= total /\ total <= SumFunctionOnSet(w, M)
  BY <1>1, <1>2
<1>9. S \in SUBSET (1 .. n - 1) /\ M \in SUBSET (1 .. n - 1)
  BY <1>5
<1>10. SumFunctionOnSet(w, S2) <= total2 /\ total2 <= SumFunctionOnSet(w, M2)
  BY <1>6, <1>7, <1>8, <1>9, BracketStep
<1>11. QED
  BY <1>3, <1>4, <1>10

\* The distance of every reference of the longer trace is positive.
LEMMA NewDistances ==
    (GlobalsTypeOK => \A i \in DOMAIN trace : Distance(i) \in Nat \ {0})'
<1>1. GlobalsTypeOK => \A i \in DOMAIN trace : Distance(i) \in Nat \ {0}
  BY DistanceType
<1>2. QED
  BY <1>1, PTL


LEMMA ReferenceKeepsSum ==
    ASSUME GlobalsTypeOK, GlobalsTypeOK', LruExact, BanksDense, RetentionWindow, SumBracketed,
           NEW tag \in Addr, Reference(tag)
    PROVE  SumBracketed'
<1>1. PICK n : n = cur_inst_pc + 1
  OBVIOUS
<1>2. /\ n \in 1 .. MaxRefs /\ cur_inst_pc' = n /\ n \in Nat /\ n - 1 = cur_inst_pc
      /\ tag \in DOMAIN lru => Reuse(tag) /\ lru[tag] \in 1 .. n - 1
      /\ tag \notin DOMAIN lru => FirstUse(tag)
  BY <1>1, HitOrMiss
<1>3. PICK w : w = [i \in 1 .. n |-> Distance(i)']
  OBVIOUS
<1>4. DOMAIN trace' = 1 .. n
  BY <1>2 DEF GlobalsTypeOK
<1>5. \A i \in 1 .. n : w[i] \in Nat /\ w[i] = Distance(i)'
  BY <1>3, <1>4, NewDistances
<1>6. /\ \A i \in 1 .. n - 1 : Distance(i)' = Distance(i)
      /\ SurelyCounted \in SUBSET (1 .. n - 1)
      /\ MaybeCounted \in SUBSET (1 .. n - 1)
      /\ SurelyCounted' \in SUBSET (1 .. n)
      /\ MaybeCounted' \in SUBSET (1 .. n)
  <2>1. n \in 1 .. n /\ 1 .. n - 1 \subseteq 1 .. n
    BY <1>2
  <2>2. /\ \A i \in 1 .. n - 1 : Distance(i)' = Distance(i)
        /\ SurelyCounted \in SUBSET (1 .. n - 1)
        /\ MaybeCounted \in SUBSET (1 .. n - 1)
        /\ SurelyCounted' \in {SurelyCounted, SurelyCounted \cup {n}}
        /\ MaybeCounted' \in {MaybeCounted, MaybeCounted \cup {n}}
    BY <1>1, Classified
  <2>3. QED
    BY <2>1, <2>2
<1>7. ASSUME NEW S \in SUBSET (1 .. n - 1)
      PROVE  SumFunction([i \in S |-> Distance(i)]) = SumFunctionOnSet(w, S)
  <2>1. PICK F : F = [i \in S |-> Distance(i)]
    OBVIOUS
  <2>2. S \in SUBSET (1 .. n)
    BY <1>2
  <2>3. DOMAIN F = S /\ \A i \in S : F[i] = w[i]
    BY <2>1, <2>2, <1>5, <1>6
  <2>4. SumFunction(F) = SumFunctionOnSet(w, S)
    BY <2>2, <2>3, <1>2, <1>5, SumOfWeights
  <2>5. QED
    BY <2>1, <2>4
<1>8. ASSUME NEW S \in SUBSET (1 .. n)
      PROVE  SumFunction([i \in S |-> Distance(i)']) = SumFunctionOnSet(w, S)
  <2>1. PICK F : F = [i \in S |-> Distance(i)']
    OBVIOUS
  <2>2. DOMAIN F = S /\ \A i \in S : F[i] = w[i]
    BY <2>1, <1>5
  <2>3. SumFunction(F) = SumFunctionOnSet(w, S)
    BY <2>2, <1>2, <1>5, SumOfWeights
  <2>4. QED
    BY <2>1, <2>3
<1>9. PICK total : total = SumFunction(reuse_dist_sum)
  OBVIOUS
<1>10. PICK total2 : total2 = SumFunction(reuse_dist_sum')
  OBVIOUS
<1>11. /\ total \in Nat
       /\ \/ tag \in DOMAIN lru /\ total2 = total + w[n]
          \/ tag \notin DOMAIN lru /\ total2 = total
  <2>1. CASE tag \in DOMAIN lru
    <3>1. PICK dist : dist = cur_inst_pc + 1 - lru[tag]
      OBVIOUS
    <3>2. lru[tag] \in 1 .. n - 1
      BY <2>1, <1>2
    <3>3. dist \in Nat /\ dist <= IntMax /\ dist = n - lru[tag]
      BY <3>1, <3>2, <1>1, <1>2, TimeAssumption
    <3>4. AddDistance(dist)
      BY <3>1, <2>1, <1>2 DEF Reuse
    <3>5. mloc_id # MaxRefs
      BY <1>2, TimeAssumption DEF GlobalsTypeOK
    <3>6. total \in Nat /\ total2 = total + dist
      BY <3>3, <3>4, <3>5, <1>9, <1>10, BanksAdd
    <3>7. Distance(n)' = dist
      BY <3>3, <2>1, <1>1, NewReference
    <3>8. n \in 1 .. n
      BY <1>2
    <3>9. w[n] = dist
      BY <3>7, <3>8, <1>5
    <3>10. QED
      BY <3>6, <3>9, <2>1
  <2>2. CASE tag \notin DOMAIN lru
    <3>1. reuse_dist_sum' = reuse_dist_sum
      BY <2>2, <1>2 DEF FirstUse
    <3>2. total2 = total
      BY <3>1, <1>9, <1>10
    <3>3. total \in Nat
      <4>1. PICK F : F = reuse_dist_sum
        OBVIOUS
      <4>2. PICK B : B = Bank
        OBVIOUS
      <4>3. DOMAIN F = B /\ \A b \in B : F[b] \in Nat
        BY <4>1, <4>2, WordFacts DEF GlobalsTypeOK
      <4>4. IsFiniteSet(B)
        <5>1. 0 \in Int /\ MaxRefs \in Int
          BY TimeAssumption
        <5>2. QED
          BY <5>1, <4>2, FS_Interval DEF Bank
      <4>5. SumFunctionOnSet(F, B) \in Nat
        BY <4>3, <4>4, SumType
      <4>6. QED
        BY <4>1, <4>3, <4>5, <1>9 DEF SumFunction
    <3>4. QED
      BY <3>2, <3>3, <2>2
  <2>3. QED
    BY <2>1, <2>2
<1>12. /\ SumFunctionOnSet(w, SurelyCounted) <= total
       /\ total <= SumFunctionOnSet(w, MaybeCounted)
  <2>1. /\ SumFunction([i \in SurelyCounted |-> Distance(i)]) <= total
        /\ total <= SumFunction([i \in MaybeCounted |-> Distance(i)])
    BY <1>9 DEF SumBracketed, Total
  <2>2. QED
    BY <2>1, <1>6, <1>7
<1>13. \A i \in 1 .. n : w[i] \in Nat
  BY <1>5
<1>14. /\ SumFunctionOnSet(w, SurelyCounted') <= total2
       /\ total2 <= SumFunctionOnSet(w, MaybeCounted')
  BY <1>1, <1>11, <1>12, <1>13, TotalBracketed
<1>15. /\ SumFunction([i \in SurelyCounted' |-> Distance(i)']) <= total2
       /\ total2 <= SumFunction([i \in MaybeCounted' |-> Distance(i)'])
  BY <1>6, <1>8, <1>14
<1>16. QED
  BY <1>10, <1>15 DEF SumBracketed, Total


LEMMA ReferenceKeepsSquares ==
    ASSUME GlobalsTypeOK, GlobalsTypeOK', LruExact, RetentionWindow, SquaresBracketed,
           NEW tag \in Addr, Reference(tag)
    PROVE  SquaresBracketed'
<1>1. PICK n : n = cur_inst_pc + 1
  OBVIOUS
<1>2. /\ n \in 1 .. MaxRefs /\ cur_inst_pc' = n /\ n \in Nat /\ n - 1 = cur_inst_pc
      /\ tag \in DOMAIN lru => Reuse(tag) /\ lru[tag] \in 1 .. n - 1
      /\ tag \notin DOMAIN lru => FirstUse(tag)
  BY <1>1, HitOrMiss
<1>3. PICK w : w = [i \in 1 .. n |-> Distance(i)' * Distance(i)']
  OBVIOUS
<1>4. DOMAIN trace' = 1 .. n
  BY <1>2 DEF GlobalsTypeOK
<1>5. \A i \in 1 .. n : w[i] \in Nat /\ w[i] = Distance(i)' * Distance(i)'
  <2>1. \A d \in Nat : d * d \in Nat
    OBVIOUS
  <2>2. \A i \in 1 .. n : Distance(i)' \in Nat
    BY <1>4, NewDistances
  <2>3. QED
    BY <2>1, <2>2, <1>3
<1>6. /\ \A i \in 1 .. n - 1 : Distance(i)' = Distance(i)
      /\ SurelyCounted \in SUBSET (1 .. n - 1)
      /\ MaybeCounted \in SUBSET (1 .. n - 1)
      /\ SurelyCounted' \in SUBSET (1 .. n)
      /\ MaybeCounted' \in SUBSET (1 .. n)
  <2>1. n \in 1 .. n /\ 1 .. n - 1 \subseteq 1 .. n
    BY <1>2
  <2>2. /\ \A i \in 1 .. n - 1 : Distance(i)' = Distance(i)
        /\ SurelyCounted \in SUBSET (1 .. n - 1)
        /\ MaybeCounted \in SUBSET (1 .. n - 1)
        /\ SurelyCounted' \in {SurelyCounted, SurelyCounted \cup {n}}
        /\ MaybeCounted' \in {MaybeCounted, MaybeCounted \cup {n}}
    BY <1>1, Classified
  <2>3. QED
    BY <2>1, <2>2
<1>7. ASSUME NEW S \in SUBSET (1 .. n - 1)
      PROVE  SumFunction([i \in S |-> Distance(i) * Distance(i)]) = SumFunctionOnSet(w, S)
  <2>1. PICK F : F = [i \in S |-> Distance(i) * Distance(i)]
    OBVIOUS
  <2>2. S \in SUBSET (1 .. n)
    BY <1>2
  <2>3. DOMAIN F = S /\ \A i \in S : F[i] = w[i]
    BY <2>1, <2>2, <1>5, <1>6
  <2>4. SumFunction(F) = SumFunctionOnSet(w, S)
    BY <2>2, <2>3, <1>2, <1>5, SumOfWeights
  <2>5. QED
    BY <2>1, <2>4
<1>8. ASSUME NEW S \in SUBSET (1 .. n)
      PROVE  SumFunction([i \in S |-> Distance(i)' * Distance(i)']) = SumFunctionOnSet(w, S)
  <2>1. PICK F : F = [i \in S |-> Distance(i)' * Distance(i)']
    OBVIOUS
  <2>2. DOMAIN F = S /\ \A i \in S : F[i] = w[i]
    BY <2>1, <1>5
  <2>3. SumFunction(F) = SumFunctionOnSet(w, S)
    BY <2>2, <1>2, <1>5, SumOfWeights
  <2>4. QED
    BY <2>1, <2>3
<1>9. SUFFICES ASSUME \A i \in Reused' : Distance(i)' * Distance(i)' < Word
              PROVE  /\ SumFunction([i \in SurelyCounted' |-> Distance(i)' * Distance(i)'])
                          <= reuse_dist_dssum'
                     /\ reuse_dist_dssum'
                          <= SumFunction([i \in MaybeCounted' |-> Distance(i)' * Distance(i)'])
  BY DEF SquaresBracketed
<1>10. \A i \in Reused : Distance(i) * Distance(i) < Word
  <2>1. ASSUME NEW i \in Reused
        PROVE  Distance(i) * Distance(i) < Word
    <3>1. i \in DOMAIN trace /\ LastUse(i) > 0
      BY DEF Reused
    <3>2. LastUse(i)' = LastUse(i) /\ Distance(i)' = Distance(i)
      BY <3>1, PastKept DEF Reference
    <3>3. i \in 1 .. n
      BY <3>1, <1>2 DEF GlobalsTypeOK
    <3>4. i \in Reused'
      BY <3>1, <3>2, <3>3, <1>4 DEF Reused
    <3>5. Distance(i)' * Distance(i)' < Word
      BY <3>4, <1>9
    <3>6. QED
      BY <3>2, <3>5
  <2>2. QED
    BY <2>1
<1>11. PICK total \in Nat : total = reuse_dist_dssum
  BY DEF GlobalsTypeOK
<1>12. PICK total2 : total2 = reuse_dist_dssum'
  OBVIOUS
<1>13. \/ tag \in DOMAIN lru /\ total2 = total + w[n]
       \/ tag \notin DOMAIN lru /\ total2 = total
  <2>1. CASE tag \in DOMAIN lru
    <3>1. PICK dist : dist = cur_inst_pc + 1 - lru[tag]
      OBVIOUS
    <3>2. lru[tag] \in 1 .. n - 1
      BY <2>1, <1>2
    <3>3. dist \in Nat /\ dist = n - lru[tag]
      BY <3>1, <3>2, <1>1, <1>2
    <3>4. reuse_dist_dssum' = reuse_dist_dssum + Square(dist)
      BY <3>1, <2>1, <1>2 DEF Reuse
    <3>5. Distance(n)' = dist /\ LastUse(n)' > 0
      BY <3>3, <2>1, <1>1, NewReference
    <3>6. n \in 1 .. n
      BY <1>2
    <3>7. n \in Reused'
      BY <3>5, <3>6, <1>4 DEF Reused
    <3>8. Distance(n)' * Distance(n)' < Word
      BY <3>7, <1>9
    <3>9. w[n] = dist * dist /\ w[n] \in Nat
      BY <3>5, <3>6, <1>5
    <3>10. dist * dist < Word
      BY <3>5, <3>8
    <3>11. PICK x \in Nat : x = dist * dist
      BY <3>9
    <3>12. x % Word = x
      BY <3>10, <3>11, NoWrap, WordFacts
    <3>13. Square(dist) = w[n]
      BY <3>9, <3>11, <3>12 DEF Square
    <3>14. QED
      BY <3>4, <3>13, <2>1, <1>11, <1>12
  <2>2. CASE tag \notin DOMAIN lru
    BY <2>2, <1>2, <1>11, <1>12 DEF FirstUse
  <2>3. QED
    BY <2>1, <2>2
<1>14. /\ SumFunctionOnSet(w, SurelyCounted) <= total
       /\ total <= SumFunctionOnSet(w, MaybeCounted)
  <2>1. /\ SumFunction([i \in SurelyCounted |-> Distance(i) * Distance(i)]) <= total
        /\ total <= SumFunction([i \in MaybeCounted |-> Distance(i) * Distance(i)])
    BY <1>10, <1>11 DEF SquaresBracketed
  <2>2. QED
    BY <2>1, <1>6, <1>7
<1>15. \A i \in 1 .. n : w[i] \in Nat
  BY <1>5
<1>16. /\ SumFunctionOnSet(w, SurelyCounted') <= total2
       /\ total2 <= SumFunctionOnSet(w, MaybeCounted')
  BY <1>1, <1>13, <1>14, <1>15, TotalBracketed
<1>17. /\ SumFunction([i \in SurelyCounted' |-> Distance(i)' * Distance(i)']) <= total2
       /\ total2 <= SumFunction([i \in MaybeCounted' |-> Distance(i)' * Distance(i)'])
  BY <1>6, <1>8, <1>16
<1>18. QED
  BY <1>12, <1>17


\* The whole invariant: the window tells which references are counted, so that
\* the brackets follow a reference that hits or misses.
Bracketed == HistogramBracketed /\ SumBracketed /\ SquaresBracketed

LEMMA TimeInitBracketed == TimeInit => Window /\ Bracketed
<1> SUFFICES ASSUME TimeInit
             PROVE  Window /\ Bracketed
  OBVIOUS
<1>1. trace = <<>> /\ DOMAIN trace = {} /\ lru = <<>> /\ DOMAIN lru = {} /\ cur_inst_pc = 0
  BY DEF TimeInit
<1>2. Window
  <2>1. Cardinality(DOMAIN lru) = 0
    BY <1>1, FS_EmptySet
  <2>2. QED
    BY <1>1, <2>1, TimeAssumption DEF Window
<1>3. Reused = {} /\ SurelyCounted = {} /\ MaybeCounted = {}
  BY <1>1 DEF Reused, SurelyCounted, MaybeCounted
<1>4. STEP \in Nat /\ MaxRefs \in Nat
  BY TimeAssumption
<1>5. ASSUME NEW n \in Nat, NEW F, F = [b \in 0 .. n |-> 0]
      PROVE  SumFunction(F) = 0
  <2>1. PICK B : B = 0 .. n
    OBVIOUS
  <2>2. IsFiniteSet(B)
    <3>1. 0 \in Int /\ n \in Int
      OBVIOUS
    <3>2. QED
      BY <3>1, <2>1, FS_Interval
  <2>3. DOMAIN F = B /\ \A b \in B : F[b] = 0
    BY <1>5, <2>1
  <2>4. SumFunctionOnSet(F, B) = 0
    BY <2>2, <2>3, SumZero
  <2>5. QED
    BY <2>3, <2>4 DEF SumFunction
<1>6. ASSUME NEW F, DOMAIN F = {}
      PROVE  SumFunction(F) = 0
  BY <1>6, SumEmpty DEF SumFunction
<1>7. SumFunction(inst_dist_count) = 0 /\ inst_dist_count[STEP + 1] = 0
  <2>1. inst_dist_count = [b \in 0 .. STEP + 1 |-> 0] /\ STEP + 1 \in Nat
    BY <1>4 DEF TimeInit
  <2>2. QED
    BY <2>1, <1>5
<1>8. SumFunction(reuse_dist_sum) = 0
  BY <1>4, <1>5 DEF TimeInit, Bank
<1>9. HistogramBracketed
  <2>1. \A b \in 0 .. STEP : inst_dist_count[b] = 0
    BY <1>4 DEF TimeInit
  <2>2. Cardinality({}) = 0
    BY FS_EmptySet
  <2>3. \A b : /\ {i \in SurelyCounted : InInterval(Distance(i), b)} = {}
               /\ {i \in MaybeCounted : InInterval(Distance(i), b)} = {}
    BY <1>3
  <2>4. reuse_inst_num = 0
    BY DEF TimeInit
  <2>5. QED
    <3>1. ASSUME NEW b \in 0 .. STEP
          PROVE  /\ Cardinality({i \in SurelyCounted : InInterval(Distance(i), b)})
                      <= inst_dist_count[b]
                 /\ inst_dist_count[b]
                      <= Cardinality({i \in MaybeCounted : InInterval(Distance(i), b)})
      BY <2>1, <2>2, <2>3
    <3>2. Total(inst_dist_count) = 0
      BY <1>7 DEF Total
    <3>3. /\ Total(inst_dist_count) = cur_inst_pc
          /\ Total(inst_dist_count) - inst_dist_count[STEP + 1] = reuse_inst_num
      BY <3>2, <2>4, <1>1, <1>7
    <3>4. QED
      BY <3>1, <3>3, Zenon DEF HistogramBracketed
<1>10. SumBracketed
  <2>1. /\ SumFunction([i \in SurelyCounted |-> Distance(i)]) = 0
        /\ SumFunction([i \in MaybeCounted |-> Distance(i)]) = 0
    BY <1>3, <1>6
  <2>2. QED
    BY <2>1, <1>8 DEF SumBracketed, Total
<1>11. SquaresBracketed
  <2>1. /\ SumFunction([i \in SurelyCounted |-> Distance(i) * Distance(i)]) = 0
        /\ SumFunction([i \in MaybeCounted |-> Distance(i) * Distance(i)]) = 0
    BY <1>3, <1>6
  <2>2. reuse_dist_dssum = 0
    BY DEF TimeInit
  <2>3. QED
    BY <2>1, <2>2 DEF SquaresBracketed
<1>12. QED
  BY <1>2, <1>9, <1>10, <1>11 DEF Bracketed

LEMMA TimeNextKeepsBracketed ==
    GlobalsInv /\ Window /\ Bracketed /\ [TimeNext]_globals => Window' /\ Bracketed'
<1> SUFFICES ASSUME GlobalsInv, Window, Bracketed, [TimeNext]_globals
             PROVE  Window' /\ Bracketed'
  OBVIOUS
<1>1. CASE TimeNext
  <2>1. PICK tag \in Addr : Reference(tag)
    BY <1>1 DEF TimeNext
  <2>2. GlobalsTypeOK /\ LruExact /\ BanksDense /\ HistogramBracketed /\ SumBracketed /\ SquaresBracketed
    BY DEF GlobalsInv, Bracketed
  <2>3. GlobalsTypeOK'
    BY <2>1, ReferenceKeepsGlobals DEF GlobalsInv
  <2>4. RetentionWindow
    BY <2>2, WindowSuffices
  <2>5. Window'
    BY <2>1, <2>2, ReferenceKeepsWindow
  <2>6. HistogramBracketed'
    BY <2>1, <2>2, <2>3, <2>4, ReferenceKeepsHistogram
  <2>7. SumBracketed'
    BY <2>1, <2>2, <2>3, <2>4, ReferenceKeepsSum
  <2>8. SquaresBracketed'
    BY <2>1, <2>2, <2>3, <2>4, ReferenceKeepsSquares
  <2>9. QED
    BY <2>5, <2>6, <2>7, <2>8 DEF Bracketed
<1>2. CASE UNCHANGED globals
  <2>1. /\ cur_inst_pc' = cur_inst_pc /\ lru' = lru /\ trace' = trace
        /\ inst_dist_count' = inst_dist_count /\ reuse_inst_num' = reuse_inst_num
        /\ reuse_dist_sum' = reuse_dist_sum /\ reuse_dist_dssum' = reuse_dist_dssum
    BY <1>2 DEF globals, counters
  <2>2. Window'
    BY <2>1 DEF Window
  <2>3. \A i : LastUse(i)' = LastUse(i)
    BY <2>1 DEF LastUse
  <2>4. \A i : Distance(i)' = Distance(i) /\ Between(i)' = Between(i)
    BY <2>1, <2>3 DEF Distance, Between
  <2>5. Reused' = Reused
    BY <2>1, <2>3 DEF Reused
  <2>6. SurelyCounted' = SurelyCounted /\ MaybeCounted' = MaybeCounted
    BY <2>4, <2>5 DEF SurelyCounted, MaybeCounted
  <2>7. HistogramBracketed'
    BY <2>1, <2>4, <2>6 DEF HistogramBracketed, Bracketed
  <2>8. SumBracketed'
    BY <2>1, <2>4, <2>6 DEF SumBracketed, Bracketed
  <2>9. SquaresBracketed'
    BY <2>1, <2>4, <2>5, <2>6 DEF SquaresBracketed, Bracketed
  <2>10. QED
    BY <2>2, <2>7, <2>8, <2>9 DEF Bracketed
<1>3. QED
  BY <1>1, <1>2

LEMMA TimeInvariant == TimeSpec => [](GlobalsInv /\ Window /\ Bracketed)
<1>1. TimeInit => GlobalsInv /\ Window /\ Bracketed
  BY TimeInitInv, TimeInitBracketed
<1>2. GlobalsInv /\ Window /\ Bracketed /\ [TimeNext]_globals => (GlobalsInv /\ Window /\ Bracketed)'
  BY TimeNextKeepsInv, TimeNextKeepsBracketed
<1>3. QED
  BY <1>1, <1>2, PTL DEF TimeSpec


-----------------------------------------------------------------------------

\* Every global keeps its type and no bank ever exceeds INT64_MAX, although the
\* test for it adds in 64 bits (lines 456-474).
THEOREM TimeTypeOK == TimeSpec => []GlobalsTypeOK
  BY TimeInitInv, TimeNextKeepsInv, PTL DEF TimeSpec, GlobalsInv

\* Every answer of lru_cache is the position of the last use of the address, for
\* every cache size and elasticity and however often the cache was pruned.
THEOREM TimeLruExact == TimeSpec => []LruExact
  BY TimeInitInv, TimeNextKeepsInv, PTL DEF TimeSpec, GlobalsInv

\* Two neighbouring banks always hold more than INT64_MAX together, so that the
\* array of banks cannot run out on any trace of fewer than 2^63 references of
\* bounded distance, and no value of an earlier run is left in a bank.
THEOREM TimeBanksDense == TimeSpec => []BanksDense
  BY TimeInitInv, TimeNextKeepsInv, PTL DEF TimeSpec, GlobalsInv

\* lru_cache holds an address while fewer than LruMax others were used since its
\* last use, and has dropped it once LruMax + Elasticity - 1 were, for every
\* limit and every elasticity, 0 included (prune, called from insert).
THEOREM TimeRetentionWindow == TimeSpec => []RetentionWindow
<1>1. GlobalsInv /\ Window => RetentionWindow
  BY WindowSuffices DEF GlobalsInv
<1>2. QED
  BY <1>1, TimeInvariant, PTL

\* For every number of intervals each counter of the printed histogram lies
\* between the references surely and possibly seen in its interval, and the
\* counters add up to the references (lines 468-472).
THEOREM TimeHistogramBracketed == TimeSpec => []HistogramBracketed
  BY TimeInvariant, PTL DEF Bracketed

\* The banks together hold the distances of the references that were counted,
\* for every width of the words and wherever the banks overflowed (lines 460-466).
THEOREM TimeSumBracketed == TimeSpec => []SumBracketed
  BY TimeInvariant, PTL DEF Bracketed

\* The sum of squares is the true one as long as no distance reaches the square
\* root of the modulus (line 467).
THEOREM TimeSquaresBracketed == TimeSpec => []SquaresBracketed
  BY TimeInvariant, PTL DEF Bracketed

-----------------------------------------------------------------------------
(* The cache as a store in order of use. *)

\* What the positions in a cache are: numbers, each of one address.
Positions(cache) ==
    /\ IsFiniteSet(DOMAIN cache)
    /\ \A a \in DOMAIN cache : cache[a] \in Nat
    /\ \A a, b \in DOMAIN cache : cache[a] = cache[b] => a = b

\* The addresses of a cache, the most recently used one first.
ByUse(cache) ==
    [n \in 1 .. Cardinality(DOMAIN cache) |->
        CHOOSE a \in DOMAIN cache : Rank(cache, a) = n - 1]

\* The ranks number the addresses.
LEMMA RanksAre ==
    ASSUME NEW cache, Positions(cache)
    PROVE  /\ Cardinality(DOMAIN cache) \in Nat
           /\ \A a \in DOMAIN cache : Rank(cache, a) \in 0 .. Cardinality(DOMAIN cache) - 1
           /\ \A a, b \in DOMAIN cache : Rank(cache, a) = Rank(cache, b) => a = b
           /\ \A n \in 1 .. Cardinality(DOMAIN cache) :
                \E a \in DOMAIN cache : Rank(cache, a) = n - 1
<1>1. PICK D, k : D = DOMAIN cache /\ k = Cardinality(D) /\ k \in Nat
  BY FS_CardinalityType DEF Positions
<1>2. ASSUME NEW a \in D
      PROVE  Rank(cache, a) \in 0 .. k - 1
  <2>1. PICK A : A = {b \in DOMAIN cache : cache[b] > cache[a]}
    OBVIOUS
  <2>2. A \subseteq D /\ a \notin A
    BY <1>1, <1>2, <2>1 DEF Positions
  <2>3. IsFiniteSet(D)
    BY <1>1 DEF Positions
  <2>4. Cardinality(A) <= Cardinality(D) /\ Cardinality(A) # Cardinality(D)
        /\ IsFiniteSet(A)
    BY <1>2, <2>2, <2>3, FS_Subset
  <2>5. Cardinality(A) \in Nat
    BY <2>4, FS_CardinalityType
  <2>6. QED
    BY <1>1, <2>1, <2>4, <2>5 DEF Rank
<1>3. \A a, b \in D : cache[a] < cache[b] => Rank(cache, b) < Rank(cache, a)
  BY <1>1, RankFalls DEF Positions
<1>4. ASSUME NEW a \in D, NEW b \in D, Rank(cache, a) = Rank(cache, b)
      PROVE  a = b
  <2>1. cache[a] \in Nat /\ cache[b] \in Nat /\ (cache[a] = cache[b] => a = b)
    BY <1>1, <1>4 DEF Positions
  <2>2. Rank(cache, a) \in Nat /\ Rank(cache, b) \in Nat
    BY <1>1, <1>2, <1>4
  <2>3. QED
    BY <1>3, <1>4, <2>1, <2>2
<1>5. ASSUME NEW n \in 1 .. k
      PROVE  \E a \in D : Rank(cache, a) = n - 1
  <2>1. n \in Nat /\ n - 1 \in Nat /\ n <= k /\ n - 1 <= k
    BY <1>1, <1>5
  <2>2. /\ Newest(cache, n) \in SUBSET D /\ IsFiniteSet(Newest(cache, n))
        /\ Cardinality(Newest(cache, n)) = n
        /\ Cardinality(Newest(cache, n - 1)) = n - 1
    BY <1>1, <2>1, NewestProperties DEF Positions
  <2>3. \E a \in Newest(cache, n) : a \notin Newest(cache, n - 1)
    <3>1. SUFFICES ASSUME Newest(cache, n) \subseteq Newest(cache, n - 1) PROVE FALSE
      OBVIOUS
    <3>2. IsFiniteSet(Newest(cache, n - 1))
      BY <1>1, <2>1, NewestProperties DEF Positions
    <3>3. Cardinality(Newest(cache, n)) <= Cardinality(Newest(cache, n - 1))
      BY <3>1, <3>2, FS_Subset
    <3>4. QED
      BY <2>1, <2>2, <3>3
  <2>4. PICK a \in D : a \in Newest(cache, n) /\ a \notin Newest(cache, n - 1)
    BY <2>2, <2>3
  <2>5. Rank(cache, a) < n /\ ~(Rank(cache, a) < n - 1)
    BY <1>1, <2>4 DEF Newest, Rank
  <2>6. Rank(cache, a) = n - 1
    BY <1>1, <1>2, <2>1, <2>5
  <2>7. QED
    BY <2>6
<1>6. QED
  BY <1>1, <1>2, <1>4, <1>5

\* The order of use lists every address at its rank.
LEMMA ByUseProperties ==
    ASSUME NEW cache, Positions(cache)
    PROVE  /\ ByUse(cache) \in Seq(DOMAIN cache)
           /\ Len(ByUse(cache)) = Cardinality(DOMAIN cache)
           /\ DOMAIN ByUse(cache) = 1 .. Cardinality(DOMAIN cache)
           /\ \A n \in 1 .. Cardinality(DOMAIN cache) :
                /\ ByUse(cache)[n] \in DOMAIN cache
                /\ Rank(cache, ByUse(cache)[n]) = n - 1
           /\ ToSet(ByUse(cache)) = DOMAIN cache
<1>1. PICK D, k, r : D = DOMAIN cache /\ k = Cardinality(D) /\ r = ByUse(cache)
  OBVIOUS
<1>2. /\ k \in Nat
      /\ \A a \in D : Rank(cache, a) \in 0 .. k - 1
      /\ \A a, b \in D : Rank(cache, a) = Rank(cache, b) => a = b
      /\ \A n \in 1 .. k : \E a \in D : Rank(cache, a) = n - 1
  BY <1>1, RanksAre
<1>3. DOMAIN r = 1 .. k /\ \A n \in 1 .. k : r[n] = CHOOSE a \in D : Rank(cache, a) = n - 1
  BY <1>1 DEF ByUse
<1>4. \A n \in 1 .. k : r[n] \in D /\ Rank(cache, r[n]) = n - 1
  BY <1>2, <1>3
<1>5. r = [n \in 1 .. k |-> r[n]]
  BY <1>1 DEF ByUse
<1>6. r \in [1 .. k -> D]
  BY <1>4, <1>5
<1>7. r \in Seq(D) /\ Len(r) = k
  BY <1>2, <1>6
<1>8. ToSet(r) = D
  <2>1. ASSUME NEW a \in D PROVE \E n \in DOMAIN r : r[n] = a
    <3>1. PICK n \in Nat : n = Rank(cache, a) + 1
      BY <1>2, <2>1
    <3>2. n \in 1 .. k /\ n - 1 = Rank(cache, a)
      BY <1>2, <2>1, <3>1
    <3>3. QED
      BY <1>2, <1>3, <1>4, <2>1, <3>2
  <2>2. QED
    BY <1>3, <1>4, <2>1 DEF ToSet
<1>9. QED
  BY <1>1, <1>3, <1>4, <1>7, <1>8

\* A list of addresses by rank is the order of use.
LEMMA ByUseIs ==
    ASSUME NEW cache, Positions(cache), NEW S, NEW s \in Seq(S),
           Len(s) = Cardinality(DOMAIN cache),
           \A n \in 1 .. Len(s) : s[n] \in DOMAIN cache /\ Rank(cache, s[n]) = n - 1
    PROVE  ByUse(cache) = s
<1>1. PICK r : r = ByUse(cache)
  OBVIOUS
<1>2. r \in Seq(DOMAIN cache) /\ Len(r) = Len(s)
  BY <1>1, ByUseProperties
<1>3. \A n \in 1 .. Len(s) : r[n] \in DOMAIN cache /\ Rank(cache, r[n]) = n - 1
  BY <1>1, ByUseProperties
<1>4. \A n \in 1 .. Len(s) : r[n] = s[n]
  BY <1>3, RanksAre
<1>5. QED
  BY <1>1, <1>2, <1>4, SeqEqual

-----------------------------------------------------------------------------
(* What an insert does to the order of use. *)

\* pc becomes the position of tag, later than all others.
Used(cache, tag, pc) == [a \in DOMAIN cache \cup {tag} |-> IF a = tag THEN pc ELSE cache[a]]

\* What was used before tag keeps its rank, and the others come one later.
RankAfter(cache, tag, a) ==
    IF tag \in DOMAIN cache /\ cache[a] < cache[tag] THEN Rank(cache, a) ELSE Rank(cache, a) + 1

\* An address that is used goes to the front.
LEMMA RankAfterUse ==
    ASSUME NEW cache, Positions(cache), NEW tag, NEW pc \in Nat,
           \A a \in DOMAIN cache : cache[a] < pc
    PROVE  /\ DOMAIN Used(cache, tag, pc) = DOMAIN cache \cup {tag}
           /\ Positions(Used(cache, tag, pc))
           /\ Rank(Used(cache, tag, pc), tag) = 0
           /\ \A a \in DOMAIN cache : a # tag =>
                Rank(Used(cache, tag, pc), a) = RankAfter(cache, tag, a)
<1>1. PICK D, new : D = DOMAIN cache /\ new = Used(cache, tag, pc)
  OBVIOUS
<1>2. /\ DOMAIN new = D \cup {tag} /\ new[tag] = pc
      /\ \A a \in D : a # tag => new[a] = cache[a]
  BY <1>1 DEF Used
<1>3. IsFiniteSet(D) /\ IsFiniteSet(D \cup {tag})
  BY <1>1, FS_AddElement DEF Positions
<1>4. \A a \in D : cache[a] \in Nat /\ cache[a] < pc
  BY <1>1 DEF Positions
<1>5. Positions(new)
  <2>1. \A a \in D \cup {tag} : new[a] \in Nat
    BY <1>2, <1>4
  <2>2. \A a, b \in D \cup {tag} : new[a] = new[b] => a = b
    BY <1>1, <1>2, <1>4 DEF Positions
  <2>3. QED
    BY <1>2, <1>3, <2>1, <2>2 DEF Positions
<1>6. Rank(new, tag) = 0
  <2>1. {b \in DOMAIN new : new[b] > new[tag]} = {}
    BY <1>2, <1>4
  <2>2. QED
    BY <2>1, FS_EmptySet DEF Rank
<1>7. ASSUME NEW a \in D, a # tag
      PROVE  Rank(new, a) = IF tag \in D /\ cache[a] < cache[tag]
                              THEN Rank(cache, a) ELSE Rank(cache, a) + 1
  <2>1. PICK A, B : /\ A = {b \in DOMAIN cache : cache[b] > cache[a]}
                    /\ B = {b \in DOMAIN new : new[b] > new[a]}
    OBVIOUS
  <2>2. B = A \cup {tag}
    <3>1. \A b : b \in B <=> b \in D \cup {tag} /\ new[b] > new[a]
      BY <1>2, <2>1
    <3>2. new[a] = cache[a] /\ new[tag] = pc /\ pc > cache[a]
      BY <1>2, <1>4, <1>7
    <3>3. \A b : b \in B <=> b = tag \/ (b \in D /\ b # tag /\ cache[b] > cache[a])
      BY <1>2, <3>1, <3>2
    <3>4. \A b : b \in A <=> b \in D /\ cache[b] > cache[a]
      BY <1>1, <2>1
    <3>5. QED
      BY <3>3, <3>4
  <2>3. CASE tag \in D /\ cache[a] < cache[tag]
    <3>1. tag \in A
      BY <1>1, <1>4, <2>1, <2>3
    <3>2. B = A
      BY <2>2, <3>1
    <3>3. QED
      BY <2>1, <2>3, <3>2 DEF Rank
  <2>4. CASE ~(tag \in D /\ cache[a] < cache[tag])
    <3>1. tag \notin A
      BY <1>1, <1>4, <2>1, <2>4
    <3>2. A \subseteq D
      BY <1>1, <2>1
    <3>3. IsFiniteSet(A)
      BY <1>3, <3>2, FS_Subset
    <3>4. Cardinality(A \cup {tag}) = Cardinality(A) + 1
      BY <3>1, <3>3, FS_AddElement
    <3>5. QED
      BY <2>1, <2>2, <2>4, <3>4 DEF Rank
  <2>5. QED
    BY <2>3, <2>4
<1>8. QED
  BY <1>1, <1>2, <1>5, <1>6, <1>7 DEF RankAfter

\* The list s once its entry tag is moved to the front.
Promoted(s, tag) == <<tag>> \o RemoveAt(s, CHOOSE i \in DOMAIN s : s[i] = tag)

\* Using an address that is cached promotes it.
LEMMA UsePromotes ==
    ASSUME NEW cache, Positions(cache), NEW tag \in DOMAIN cache, NEW pc \in Nat,
           \A a \in DOMAIN cache : cache[a] < pc
    PROVE  ByUse(Used(cache, tag, pc)) = Promoted(ByUse(cache), tag)
<1>1. PICK D, k, p, r, new : /\ D = DOMAIN cache /\ k = Cardinality(D)
                             /\ p = Rank(cache, tag) + 1
                             /\ r = ByUse(cache)
                             /\ new = Used(cache, tag, pc)
  OBVIOUS
<1>2. /\ r \in Seq(D) /\ Len(r) = k /\ DOMAIN r = 1 .. k
      /\ \A n \in 1 .. k : r[n] \in D /\ Rank(cache, r[n]) = n - 1
  BY <1>1, ByUseProperties
<1>3. /\ k \in Nat /\ p \in 1 .. k
      /\ \A a \in D : Rank(cache, a) \in 0 .. k - 1
      /\ \A a, b \in D : Rank(cache, a) = Rank(cache, b) => a = b
  <2>1. /\ k \in Nat
        /\ \A a \in D : Rank(cache, a) \in 0 .. k - 1
        /\ \A a, b \in D : Rank(cache, a) = Rank(cache, b) => a = b
    BY <1>1, RanksAre
  <2>2. Rank(cache, tag) \in 0 .. k - 1
    BY <1>1, <2>1
  <2>3. QED
    BY <1>1, <2>1, <2>2
<1>4. /\ DOMAIN new = D /\ Positions(new) /\ Rank(new, tag) = 0
      /\ \A a \in D : a # tag =>
           Rank(new, a) = IF cache[a] < cache[tag] THEN Rank(cache, a) ELSE Rank(cache, a) + 1
  <2>1. D \cup {tag} = D
    BY <1>1
  <2>2. /\ DOMAIN Used(cache, tag, pc) = DOMAIN cache \cup {tag}
        /\ Positions(Used(cache, tag, pc))
        /\ Rank(Used(cache, tag, pc), tag) = 0
        /\ \A a \in DOMAIN cache : a # tag =>
             Rank(Used(cache, tag, pc), a) = RankAfter(cache, tag, a)
    BY RankAfterUse
  <2>3. QED
    BY <1>1, <2>1, <2>2 DEF RankAfter
<1>5. (CHOOSE i \in DOMAIN r : r[i] = tag) = p
  <2>1. p \in 1 .. k /\ p - 1 = Rank(cache, tag) /\ tag \in D
    BY <1>1, <1>3
  <2>2. r[p] = tag
    BY <1>2, <1>3, <2>1
  <2>3. \A i \in 1 .. k : r[i] = tag => i = p
    BY <1>2, <2>1
  <2>4. QED
    BY <1>2, <2>1, <2>2, <2>3
<1>6. PICK e : e = RemoveAt(r, p)
  OBVIOUS
<1>7. /\ e \in Seq(D) /\ Len(e) = k - 1
      /\ \A j \in 1 .. k - 1 : e[j] = IF j < p THEN r[j] ELSE r[j + 1]
  <2>1. p \in DOMAIN r /\ r \in Seq(D)
    BY <1>2, <1>3
  <2>2. /\ RemoveAt(r, p) \in Seq(D) /\ Len(RemoveAt(r, p)) = Len(r) - 1
        /\ \A j \in 1 .. Len(r) - 1 :
             RemoveAt(r, p)[j] = IF j < p THEN r[j] ELSE r[j + 1]
    BY <2>1, EraseProperties
  <2>3. QED
    BY <1>2, <1>6, <2>2
<1>8. PICK s : s = <<tag>> \o e
  OBVIOUS
<1>9. /\ s \in Seq(D) /\ Len(s) = k /\ s[1] = tag
      /\ \A j \in 1 .. k - 1 : s[j + 1] = e[j]
  <2>1. tag \in D
    BY <1>1
  <2>2. /\ s \in Seq(D) /\ Len(s) = Len(e) + 1 /\ s[1] = tag
        /\ \A j \in 1 .. Len(e) : s[j + 1] = e[j]
    BY <1>7, <1>8, <2>1, PushProperties
  <2>3. QED
    BY <1>3, <1>7, <2>2
<1>10. ASSUME NEW n \in 1 .. k
       PROVE  s[n] \in D /\ Rank(new, s[n]) = n - 1
  <2>1. CASE n = 1
    BY <1>1, <1>4, <1>9, <2>1
  <2>2. CASE n # 1
    <3>1. PICK j \in 1 .. k - 1 : n = j + 1
      <4>1. n - 1 \in 1 .. k - 1 /\ n = (n - 1) + 1
        BY <1>3, <1>10, <2>2
      <4>2. QED
        BY <4>1
    <3>2. s[n] = IF j < p THEN r[j] ELSE r[j + 1]
      BY <1>7, <1>9, <3>1
    <3>3. cache[tag] \in Nat /\ \A a \in D : cache[a] \in Nat
      BY <1>1 DEF Positions
    <3>4. \A a \in D : cache[a] < cache[tag] => Rank(cache, tag) < Rank(cache, a)
      BY <1>1, RankFalls DEF Positions
    <3>5. \A a \in D : cache[tag] < cache[a] => Rank(cache, a) < Rank(cache, tag)
      BY <1>1, RankFalls DEF Positions
    <3>6. CASE j < p
      <4>1. PICK a \in D : a = r[j] /\ Rank(cache, a) = j - 1
        BY <1>2, <1>3, <3>1
      <4>2. j - 1 < Rank(cache, tag) /\ Rank(cache, tag) = p - 1
        BY <1>1, <1>3, <3>1, <3>6
      <4>3. ~(Rank(cache, tag) < Rank(cache, a)) /\ a # tag
        BY <1>3, <3>1, <4>1, <4>2
      <4>4. ~(cache[a] < cache[tag])
        BY <3>4, <4>3
      <4>5. Rank(new, a) = (j - 1) + 1
        BY <1>4, <4>1, <4>3, <4>4
      <4>6. QED
        BY <3>1, <3>2, <3>6, <4>1, <4>5
    <3>7. CASE ~(j < p)
      <4>0. j + 1 \in 1 .. k /\ (j + 1) - 1 = j
        BY <1>3, <3>1
      <4>1. PICK a \in D : a = r[j + 1] /\ Rank(cache, a) = j
        BY <1>2, <4>0
      <4>2. ~(j < Rank(cache, tag)) /\ j # Rank(cache, tag)
        BY <1>1, <1>3, <3>1, <3>7
      <4>3. ~(cache[tag] < cache[a]) /\ a # tag
        BY <3>5, <4>1, <4>2
      <4>4. cache[a] < cache[tag]
        BY <1>1, <3>3, <4>1, <4>3 DEF Positions
      <4>5. Rank(new, a) = j
        BY <1>4, <4>1, <4>3, <4>4
      <4>6. QED
        BY <3>1, <3>2, <3>7, <4>1, <4>5
    <3>8. QED
      BY <3>6, <3>7
  <2>3. QED
    BY <2>1, <2>2
<1>11. ByUse(new) = s
  BY <1>1, <1>4, <1>9, <1>10, ByUseIs
<1>12. Promoted(r, tag) = s
  BY <1>5, <1>6, <1>8 DEF Promoted
<1>13. QED
  BY <1>1, <1>11, <1>12

\* A new address is put in front of the others.
LEMMA UsePushes ==
    ASSUME NEW cache, Positions(cache), NEW tag, tag \notin DOMAIN cache, NEW pc \in Nat,
           \A a \in DOMAIN cache : cache[a] < pc
    PROVE  ByUse(Used(cache, tag, pc)) = <<tag>> \o ByUse(cache)
<1>1. PICK D, k, r, C, new : /\ D = DOMAIN cache /\ k = Cardinality(D) /\ r = ByUse(cache)
                             /\ C = D \cup {tag} /\ new = Used(cache, tag, pc)
  OBVIOUS
<1>2. /\ r \in Seq(D) /\ Len(r) = k /\ DOMAIN r = 1 .. k
      /\ \A n \in 1 .. k : r[n] \in D /\ Rank(cache, r[n]) = n - 1
  BY <1>1, ByUseProperties
<1>3. k \in Nat /\ \A a \in D : Rank(cache, a) \in 0 .. k - 1
  BY <1>1, RanksAre
<1>4. /\ DOMAIN new = C /\ Positions(new) /\ Rank(new, tag) = 0
      /\ \A a \in D : a # tag => Rank(new, a) = Rank(cache, a) + 1
  <2>1. /\ DOMAIN Used(cache, tag, pc) = DOMAIN cache \cup {tag}
        /\ Positions(Used(cache, tag, pc))
        /\ Rank(Used(cache, tag, pc), tag) = 0
        /\ \A a \in DOMAIN cache : a # tag =>
             Rank(Used(cache, tag, pc), a) = RankAfter(cache, tag, a)
    BY RankAfterUse
  <2>2. QED
    BY <1>1, <2>1 DEF RankAfter
<1>5. Cardinality(C) = k + 1
  BY <1>1, FS_AddElement DEF Positions
<1>6. PICK s : s = <<tag>> \o r
  OBVIOUS
<1>7. s \in Seq(C) /\ Len(s) = k + 1 /\ s[1] = tag /\ \A j \in 1 .. k : s[j + 1] = r[j]
  <2>1. r \in Seq(C) /\ tag \in C
    <3>1. r \in [1 .. k -> C]
      BY <1>1, <1>2, LenProperties
    <3>2. QED
      BY <1>1, <1>3, <3>1
  <2>2. QED
    BY <1>2, <1>6, <2>1, PushProperties
<1>8. ASSUME NEW n \in 1 .. k + 1
      PROVE  s[n] \in C /\ Rank(new, s[n]) = n - 1
  <2>1. CASE n = 1
    BY <1>1, <1>4, <1>7, <2>1
  <2>2. CASE n # 1
    <3>1. PICK j \in 1 .. k : n = j + 1
      <4>1. n - 1 \in 1 .. k /\ n = (n - 1) + 1
        BY <1>3, <1>8, <2>2
      <4>2. QED
        BY <4>1
    <3>2. PICK a \in D : a = r[j] /\ Rank(cache, a) = j - 1
      BY <1>2, <3>1
    <3>3. s[n] = a /\ a # tag /\ a \in C
      BY <1>1, <1>7, <3>1, <3>2
    <3>4. Rank(new, a) = (j - 1) + 1
      BY <1>4, <3>2, <3>3
    <3>5. QED
      BY <3>1, <3>3, <3>4
  <2>3. QED
    BY <2>1, <2>2
<1>9. ByUse(new) = s
  BY <1>4, <1>5, <1>7, <1>8, ByUseIs
<1>10. QED
  BY <1>1, <1>6, <1>9

\* prune() leaves the first n of the order.
LEMMA PruneShortens ==
    ASSUME NEW cache, Positions(cache), NEW n \in Nat, n <= Cardinality(DOMAIN cache),
           NEW new, new = Restrict(cache, Newest(cache, n))
    PROVE  /\ DOMAIN new = Newest(cache, n)
           /\ ByUse(new) = SubSeq(ByUse(cache), 1, n)
<1>1. PICK D, k, r, N : /\ D = DOMAIN cache /\ k = Cardinality(D) /\ r = ByUse(cache)
                        /\ N = Newest(cache, n)
  OBVIOUS
<1>2. /\ r \in Seq(D) /\ Len(r) = k
      /\ \A i \in 1 .. k : r[i] \in D /\ Rank(cache, r[i]) = i - 1
  BY <1>1, ByUseProperties
<1>3. /\ N \subseteq D /\ IsFiniteSet(N) /\ Cardinality(N) = n
      /\ \A a \in N, b \in D : cache[a] < cache[b] => b \in N
  BY <1>1, NewestProperties DEF Positions
<1>4. DOMAIN new = N /\ \A a \in N : new[a] = cache[a]
  BY <1>1 DEF Restrict
<1>5. Positions(new)
  BY <1>1, <1>3, <1>4 DEF Positions
<1>6. ASSUME NEW a \in N
      PROVE  Rank(new, a) = Rank(cache, a)
  <2>1. {b \in DOMAIN new : new[b] > new[a]} = {b \in DOMAIN cache : cache[b] > cache[a]}
    <3>1. \A b \in D : cache[b] \in Nat
      BY <1>1 DEF Positions
    <3>2. \A b \in D : cache[b] > cache[a] => b \in N
      BY <1>3, <1>6, <3>1
    <3>3. QED
      BY <1>1, <1>3, <1>4, <1>6, <3>2
  <2>2. QED
    BY <2>1 DEF Rank
<1>7. PICK s : s = SubSeq(r, 1, n)
  OBVIOUS
<1>8. k \in Nat /\ n <= k
  BY <1>1, RanksAre
<1>9. s \in Seq(D) /\ Len(s) = n /\ \A i \in 1 .. n : s[i] = r[i]
  <2>1. \A i \in 1 .. n : r[i] \in D
    BY <1>2, <1>8
  <2>2. QED
    BY <1>2, <1>7, <1>8, <2>1, SubSeqProperties
<1>10. ASSUME NEW i \in 1 .. n
       PROVE  s[i] \in N /\ Rank(new, s[i]) = i - 1
  <2>1. PICK a \in D : a = r[i] /\ Rank(cache, a) = i - 1
    BY <1>2, <1>8, <1>10
  <2>2. i - 1 < n
    BY <1>10
  <2>3. a \in N
    BY <1>1, <2>1, <2>2 DEF Newest, Rank
  <2>4. QED
    BY <1>6, <1>9, <1>10, <2>1, <2>3
<1>11. ByUse(new) = s
  BY <1>3, <1>4, <1>5, <1>9, <1>10, ByUseIs
<1>12. QED
  BY <1>1, <1>4, <1>7, <1>11

-----------------------------------------------------------------------------
(* The refinement of LRUStore. *)

\* The parts of the store's definitions under the refinement mapping.
LEMMA StoreParts ==
    /\ Recent = ByUse(lru) /\ Recent' = ByUse(lru')
    /\ \A s : Store!ToSet(s) = ToSet(s)
    /\ \A key : Store!Promote(key) = Promoted(Recent, key)
<1>1. Recent = ByUse(lru) /\ Recent' = ByUse(lru')
  BY DEF Recent, ByUse, Rank
<1>2. \A s : Store!ToSet(s) = ToSet(s)
  BY DEF Store!ToSet, ToSet
<1>3. \A s, i : Store!RemoveAt(s, i) = RemoveAt(s, i)
  BY Zenon DEF Store!RemoveAt, RemoveAt
<1>4. \A key : Store!Promote(key) =
                 <<key>> \o Store!RemoveAt(Recent, CHOOSE i \in DOMAIN Recent : Recent[i] = key)
  BY Zenon DEF Store!Promote
<1>5. \A key : Store!Promote(key) = Promoted(Recent, key)
  BY <1>3, <1>4, Zenon DEF Promoted
<1>6. QED
  BY <1>1, <1>2, <1>5

\* A reference stores the new cur_inst_pc under its address.
LEMMA ReferenceStores ==
    ASSUME GlobalsTypeOK, LruExact, NEW tag \in Addr, Reference(tag)
    PROVE  \/ Store!StorePresent(tag, cur_inst_pc')
           \/ Store!StoreNew(tag, cur_inst_pc')
<1>1. PICK pc, D, k, r : /\ pc = cur_inst_pc' /\ D = DOMAIN lru
                         /\ k = Cardinality(D) /\ r = ByUse(lru)
  OBVIOUS
<1>2. pc \in Nat /\ lru' = Insert(tag, pc) /\ \A a \in D : lru[a] \in Nat /\ lru[a] < pc
  BY <1>1 DEF Reference, GlobalsTypeOK
<1>3. Positions(lru)
  <2>1. IsFiniteSet(DOMAIN lru) /\ \A a, b \in DOMAIN lru : lru[a] = lru[b] => a = b
    BY LruFinite
  <2>2. QED
    BY <1>1, <1>2, <2>1 DEF Positions
<1>4. PICK cache : cache = Used(lru, tag, pc)
  OBVIOUS
<1>5. /\ DOMAIN cache = D \cup {tag} /\ Positions(cache)
      /\ cache = [a \in D \cup {tag} |-> IF a = tag THEN pc ELSE lru[a]]
  <2>1. \A a \in DOMAIN lru : lru[a] < pc
    BY <1>1, <1>2
  <2>2. DOMAIN Used(lru, tag, pc) = DOMAIN lru \cup {tag} /\ Positions(Used(lru, tag, pc))
    BY <1>2, <1>3, <2>1, RankAfterUse
  <2>3. QED
    BY <1>1, <1>4, <2>2 DEF Used
<1>6. PICK full \in BOOLEAN : full <=> /\ tag \notin D
                                       /\ LruMax > 0
                                       /\ Cardinality(DOMAIN cache) >= LruMax + Elasticity
  OBVIOUS
<1>7. lru' = IF full THEN Restrict(cache, Newest(cache, LruMax)) ELSE cache
  BY <1>1, <1>2, <1>5, <1>6 DEF Insert
<1>8. /\ LruMax \in Nat /\ Elasticity \in Nat /\ k \in Nat
  BY <1>1, <1>3, TimeAssumption, FS_CardinalityType DEF Positions
<1>9. CASE tag \in D
  <2>1. lru' = cache /\ lru' = [lru EXCEPT ![tag] = pc]
    <3>1. D \cup {tag} = D /\ lru = [a \in D |-> lru[a]]
      BY <1>1, <1>9 DEF GlobalsTypeOK
    <3>2. lru' = cache
      BY <1>6, <1>7, <1>9
    <3>3. QED
      BY <1>5, <3>1, <3>2
  <2>2. ByUse(lru') = Promoted(r, tag)
    <3>1. tag \in DOMAIN lru /\ \A a \in DOMAIN lru : lru[a] < pc
      BY <1>1, <1>2, <1>9
    <3>2. ByUse(Used(lru, tag, pc)) = Promoted(ByUse(lru), tag)
      BY <1>2, <1>3, <3>1, UsePromotes
    <3>3. QED
      BY <1>1, <1>4, <2>1, <3>2
  <2>3. Recent' = Store!Promote(tag)
    BY <1>1, <2>2, StoreParts, Zenon
  <2>4. Store!StorePresent(tag, cur_inst_pc')
    BY <1>1, <1>9, <2>1, <2>3, Zenon DEF Store!StorePresent
  <2>5. QED
    BY <2>4
<1>10. CASE tag \notin D
  <2>1. PICK s : s = <<tag>> \o r
    OBVIOUS
  <2>2. ByUse(cache) = s
    <3>1. tag \notin DOMAIN lru /\ \A a \in DOMAIN lru : lru[a] < pc
      BY <1>1, <1>2, <1>10
    <3>2. ByUse(Used(lru, tag, pc)) = <<tag>> \o ByUse(lru)
      BY <1>2, <1>3, <3>1, UsePushes
    <3>3. QED
      BY <1>1, <1>4, <2>1, <3>2
  <2>3. Len(r) = k
    BY <1>1, <1>3, ByUseProperties
  <2>4. Cardinality(DOMAIN cache) = k + 1
    <3>1. IsFiniteSet(D)
      BY <1>1, <1>3 DEF Positions
    <3>2. Cardinality(D \cup {tag}) = Cardinality(D) + 1
      BY <1>10, <3>1, FS_AddElement
    <3>3. QED
      BY <1>1, <1>5, <3>2
  <2>5. s \in Seq(D \cup {tag}) /\ Len(s) = k + 1
    BY <1>5, <2>2, <2>4, ByUseProperties
  <2>6. PICK n \in 0 .. k + 1 : n = IF full THEN LruMax ELSE k + 1
    BY <1>6, <1>8, <2>4
  <2>7. /\ ByUse(lru') = SubSeq(s, 1, n)
        /\ Positions(lru')
    <3>1. CASE full
      <4>1. LruMax <= Cardinality(DOMAIN cache)
        BY <1>6, <1>8, <2>4, <3>1
      <4>2. lru' = Restrict(cache, Newest(cache, LruMax))
        BY <1>7, <3>1
      <4>3. DOMAIN lru' = Newest(cache, LruMax) /\ ByUse(lru') = SubSeq(ByUse(cache), 1, LruMax)
        BY <1>5, <1>8, <4>1, <4>2, PruneShortens
      <4>4. /\ Newest(cache, LruMax) \in SUBSET DOMAIN cache
            /\ IsFiniteSet(Newest(cache, LruMax))
        BY <1>5, <1>8, <4>1, NewestProperties DEF Positions
      <4>5. \A a \in DOMAIN lru' : a \in DOMAIN cache /\ lru'[a] = cache[a]
        BY <4>2, <4>3, <4>4 DEF Restrict
      <4>6. Positions(lru')
        <5>1. IsFiniteSet(DOMAIN lru')
          BY <4>3, <4>4
        <5>2. \A a \in DOMAIN lru' : lru'[a] \in Nat
          BY <1>5, <4>5 DEF Positions
        <5>3. \A a, b \in DOMAIN lru' : lru'[a] = lru'[b] => a = b
          BY <1>5, <4>5 DEF Positions
        <5>4. QED
          BY <5>1, <5>2, <5>3 DEF Positions
      <4>7. QED
        BY <2>2, <2>6, <3>1, <4>3, <4>6
    <3>2. CASE ~full
      <4>1. lru' = cache
        BY <1>7, <3>2
      <4>2. SubSeq(s, 1, Len(s)) = s
        BY <2>5, SubSeqFull
      <4>3. QED
        BY <1>5, <2>2, <2>5, <2>6, <3>2, <4>1, <4>2
    <3>3. QED
      BY <3>1, <3>2
  <2>8. lru' = [a \in ToSet(ByUse(lru')) |-> IF a = tag THEN pc ELSE lru[a]]
    <3>1. ToSet(ByUse(lru')) = DOMAIN lru'
      BY <2>7, ByUseProperties
    <3>2. lru' = [a \in DOMAIN lru' |-> IF a = tag THEN pc ELSE lru[a]]
      BY <1>2, InsertProperties
    <3>3. QED
      BY <3>1, <3>2
  <2>9. Store!MayRetain(n, k + 1)
    <3>1. CASE full
      <4>1. n = LruMax /\ LruMax > 0
        BY <1>6, <2>6, <3>1
      <4>2. QED
        BY <1>8, <4>1 DEF Store!MayRetain
    <3>2. CASE ~full
      <4>1. n = k + 1 /\ (LruMax = 0 \/ k + 1 < LruMax + Elasticity)
        BY <1>6, <1>8, <1>10, <2>4, <2>6, <3>2
      <4>2. QED
        BY <1>8, <4>1 DEF Store!MayRetain
    <3>3. QED
      BY <3>1, <3>2
  <2>10. /\ n \in 0 .. Len(Recent) + 1
         /\ Store!MayRetain(n, Len(Recent) + 1)
         /\ Recent' = SubSeq(<<tag>> \o Recent, 1, n)
         /\ lru' = [a \in Store!ToSet(Recent') |-> IF a = tag THEN pc ELSE lru[a]]
    <3>1. Recent = r /\ Recent' = ByUse(lru') /\ Store!ToSet(Recent') = ToSet(Recent')
      BY <1>1, StoreParts
    <3>2. Len(Recent) + 1 = k + 1
      BY <2>3, <3>1
    <3>3. QED
      BY <2>1, <2>6, <2>7, <2>8, <2>9, <3>1, <3>2
  <2>11. Store!StoreNew(tag, cur_inst_pc')
    BY <1>1, <1>10, <2>10, Zenon DEF Store!StoreNew
  <2>12. QED
    BY <2>11
<1>11. QED
  BY <1>9, <1>10

\* Whatever the limit and the elasticity, every reference changes lru_cache the
\* way one insert() may change the store it is meant to be: the address used goes
\* to the front and only the cold end is dropped (line 474).
THEOREM TimeUsesStore == TimeSpec => UsesStore
<1>1. TimeInit => Store!Init
  <2>1. SUFFICES ASSUME TimeInit PROVE Store!Init
    OBVIOUS
  <2>2. lru = <<>> /\ DOMAIN lru = {}
    BY <2>1 DEF TimeInit
  <2>3. Cardinality(DOMAIN lru) = 0
    BY <2>2, FS_EmptySet
  <2>4. Recent = <<>>
    BY <2>3 DEF Recent
  <2>5. QED
    BY <2>2, <2>4 DEF Store!Init
<1>2. GlobalsInv /\ [TimeNext]_globals =>
        [\E tag \in Addr : \/ Store!StorePresent(tag, cur_inst_pc')
                           \/ Store!StoreNew(tag, cur_inst_pc')]_globals
  BY ReferenceStores DEF GlobalsInv, TimeNext
<1>3. QED
  BY <1>1, <1>2, TimeInitInv, TimeNextKeepsInv, PTL DEF TimeSpec, UsesStore

=============================================================================
