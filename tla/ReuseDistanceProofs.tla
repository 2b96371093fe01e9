------------------------- MODULE ReuseDistanceProofs -------------------------
(***************************************************************************)
(* Proofs about ReuseDistance for every set of addresses and threads,      *)
(* every threshold and either tool; the lists of the report first.         *)
(***************************************************************************)
EXTENDS ReuseDistance, TimeDistanceProofs

-----------------------------------------------------------------------------
(* The comparison functions of ReportOrder are strict total orders: what   *)
(* std::partial_sort_copy requires (without it its behaviour is undefined),*)
(* and why the printed lists do not depend on the order of the hash map.   *)

Line == [total_refs : Nat, distant_refs : Nat]

\* Nothing is less than itself, less-than can be chained, and of two different
\* addresses one is less.
StrictTotalOrder(Less(_, _), S) ==
    /\ \A x \in S : ~Less(x, x)
    /\ \A x, y, z \in S : Less(x, y) /\ Less(y, z) => Less(x, z)
    /\ \A x, y \in S : x # y => Less(x, y) \/ Less(y, x)

\* cmp_total_refs (data:505-518, instance:447-460) orders any lines strictly and totally.
THEOREM TotalRefsOrder ==
    ASSUME NEW Keys \in SUBSET Int, NEW lines \in [Keys -> Line]
    PROVE  StrictTotalOrder(LAMBDA l, r : CmpTotalRefs(lines, l, r), Keys)
<1>1. \A a \in Keys : lines[a].total_refs \in Nat /\ lines[a].distant_refs \in Nat
  BY DEF Line
<1>2. QED
  BY <1>1 DEF StrictTotalOrder, CmpTotalRefs

\* cmp_distant_refs (data:520-533, instance:462-475) does too.
THEOREM DistantRefsOrder ==
    ASSUME NEW Keys \in SUBSET Int, NEW lines \in [Keys -> Line]
    PROVE  StrictTotalOrder(LAMBDA l, r : CmpDistantRefs(lines, l, r), Keys)
<1>1. \A a \in Keys : lines[a].total_refs \in Nat /\ lines[a].distant_refs \in Nat
  BY DEF Line
<1>2. QED
  BY <1>1 DEF StrictTotalOrder, CmpDistantRefs

\* t lists distinct elements of A by rising R and leaves out nothing that R puts
\* before an element of t.
Best(t, A, R, N) ==
    /\ t \in [1..N -> A]
    /\ \A i, j \in 1..N : i # j => t[i] # t[j]
    /\ \A i, j \in 1..N : i < j => <<t[j], t[i]>> \notin R
    /\ \A a \in A : (\A i \in 1..N : t[i] # a) => \A i \in 1..N : <<a, t[i]>> \notin R

\* Two such lists agree: at the first place where they differ, the lesser of the
\* two entries would be missing from the other list or come too late in it.
LEMMA BestUnique ==
    ASSUME NEW A, NEW R, NEW N \in Nat, NEW s, NEW t, Best(s, A, R, N), Best(t, A, R, N),
           \A x, y \in A : x # y => <<x, y>> \in R \/ <<y, x>> \in R
    PROVE  s = t
<1> DEFINE D == {i \in 1..N : s[i] # t[i]}
<1>1. SUFFICES ASSUME D # {} PROVE FALSE
  BY DEF Best
<1>2. PICK i \in D : \A j \in D : i <= j
  <2>1. D \subseteq Nat
    OBVIOUS
  <2>2. QED
    BY <1>1, <2>1, LeastElement
<1>3. i \in 1..N /\ s[i] # t[i] /\ s[i] \in A /\ t[i] \in A
  BY DEF Best
<1>4. \A j \in 1..N : j < i => s[j] = t[j]
  BY <1>2
<1>5. <<s[i], t[i]>> \notin R
  <2>1. CASE \E j \in 1..N : t[j] = s[i]
    <3>1. PICK j \in 1..N : t[j] = s[i]
      BY <2>1
    <3>2. ~(j < i)
      BY <1>3, <1>4, <3>1 DEF Best
    <3>3. i < j
      BY <1>3, <3>1, <3>2
    <3>4. QED
      BY <1>3, <3>1, <3>3 DEF Best
  <2>2. CASE ~ \E j \in 1..N : t[j] = s[i]
    BY <1>3, <2>2 DEF Best
  <2>3. QED
    BY <2>1, <2>2
<1>6. <<t[i], s[i]>> \notin R
  <2>1. CASE \E j \in 1..N : s[j] = t[i]
    <3>1. PICK j \in 1..N : s[j] = t[i]
      BY <2>1
    <3>2. ~(j < i)
      BY <1>3, <1>4, <3>1 DEF Best
    <3>3. i < j
      BY <1>3, <3>1, <3>2
    <3>4. QED
      BY <1>3, <3>1, <3>3 DEF Best
  <2>2. CASE ~ \E j \in 1..N : s[j] = t[i]
    BY <1>3, <2>2 DEF Best
  <2>3. QED
    BY <2>1, <2>2
<1>7. QED
  BY <1>3, <1>5, <1>6

Size(lines, n) == Min({n, Cardinality(DOMAIN lines)})

LEMMA SizeType ==
    ASSUME NEW lines, IsFiniteSet(DOMAIN lines), NEW n \in Nat
    PROVE  Size(lines, n) \in Nat
<1>1. Cardinality(DOMAIN lines) \in Nat
  BY FS_CardinalityType
<1>2. \E x \in {n, Cardinality(DOMAIN lines)} :
        \A y \in {n, Cardinality(DOMAIN lines)} : x <= y
  BY <1>1
<1>3. QED
  BY <1>1, <1>2 DEF Size, Min

LEMMA SizeBound ==
    ASSUME NEW lines, IsFiniteSet(DOMAIN lines), NEW n \in Nat
    PROVE  Size(lines, n) <= Cardinality(DOMAIN lines)
<1>1. PICK k \in Nat : k = Cardinality(DOMAIN lines)
  BY FS_CardinalityType
<1>2. Min({n, k}) = IF n <= k THEN n ELSE k
  BY MinPair
<1>3. QED
  BY <1>1, <1>2 DEF Size

\* The lists std::partial_sort_copy may leave are the best ones.
LEMMA TopListsAre ==
    ASSUME NEW Keys, IsFiniteSet(Keys), NEW lines, DOMAIN lines = Keys, NEW R,
           NEW n \in Nat, NEW u
    PROVE  u \in TopLists(lines, R, n) <=> Best(u, Keys, R, Size(lines, n))
<1>1. PICK N \in Nat : N = Size(lines, n)
  BY SizeType
<1>2. ASSUME u \in TopLists(lines, R, n) PROVE Best(u, Keys, R, N)
  <2>1. PICK S \in kSubset(N, Keys) : u \in SetToSeqs(S)
    BY <1>1, <1>2 DEF TopLists, Size
  <2>2. S \subseteq Keys /\ Cardinality(S) = N
    BY <2>1 DEF kSubset
  <2>3. u \in [1..N -> Keys] /\ \A i, j \in 1..N : i # j => u[i] # u[j]
    BY <2>1, <2>2 DEF SetToSeqs
  <2>4. \A i, j \in 1..N : i < j => <<u[j], u[i]>> \notin R
    BY <1>2, <2>3 DEF TopLists
  <2>5. \A a \in Keys \ ToSet(u) : \A i \in 1..N : <<a, u[i]>> \notin R
    BY <1>2, <2>3 DEF TopLists
  <2>6. \A a \in Keys : (\A i \in 1..N : u[i] # a) => a \notin ToSet(u)
    BY <2>3 DEF ToSet
  <2>7. QED
    BY <2>3, <2>4, <2>5, <2>6 DEF Best
<1>3. ASSUME Best(u, Keys, R, N) PROVE u \in TopLists(lines, R, n)
  <2>1. u \in [1..N -> Keys] /\ \A i, j \in 1..N : i # j => u[i] # u[j]
    BY <1>3 DEF Best
  <2>2. PICK S : S = ToSet(u)
    OBVIOUS
  <2>3. u \in Seq(Keys) /\ Len(u) = N /\ DOMAIN u = 1..N
    BY <2>1
  <2>4. IsInjective(u)
    BY <2>1, <2>3 DEF IsInjective
  <2>5. Cardinality(S) = N
    BY <2>2, <2>3, <2>4, ListSize
  <2>6. S \in SUBSET Keys
    BY <2>1, <2>2, <2>3 DEF ToSet
  <2>7. S \in kSubset(N, Keys)
    BY <2>5, <2>6 DEF kSubset
  <2>8. u \in [1..N -> S]
    BY <2>1, <2>2, <2>3 DEF ToSet
  <2>9. u \in SetToSeqs(S)
    BY <2>1, <2>5, <2>8 DEF SetToSeqs
  <2>10. u \in UNION {SetToSeqs(T) : T \in kSubset(N, Keys)}
    BY <2>7, <2>9
  <2>11. \A i, j \in DOMAIN u : i < j => <<u[j], u[i]>> \notin R
    BY <1>3, <2>3 DEF Best
  <2>12. \A a \in Keys \ ToSet(u) : \A i \in DOMAIN u : <<a, u[i]>> \notin R
    <3>1. \A a \in Keys \ ToSet(u) : \A i \in 1..N : u[i] # a
      BY <2>3 DEF ToSet
    <3>2. QED
      BY <1>3, <2>3, <3>1 DEF Best
  <2>13. QED
    BY <1>1, <2>10, <2>11, <2>12 DEF TopLists, Size
<1>4. QED
  BY <1>1, <1>2, <1>3

\* What is less than an element is as many as its place in the order says.
Position(A, R, a) == Cardinality({b \in A : <<b, a>> \in R})

\* There is such a list: the elements at the first N places.
LEMMA BestExists ==
    ASSUME NEW A, IsFiniteSet(A), NEW R,
           \A x \in A : <<x, x>> \notin R,
           \A x, y, z \in A : <<x, y>> \in R /\ <<y, z>> \in R => <<x, z>> \in R,
           \A x, y \in A : x # y => <<x, y>> \in R \/ <<y, x>> \in R,
           NEW N \in Nat, N <= Cardinality(A)
    PROVE  \E t : Best(t, A, R, N)
<1>1. PICK k \in Nat : k = Cardinality(A)
  BY FS_CardinalityType
<1>2. PICK pos : pos = [a \in A |-> Position(A, R, a)]
  OBVIOUS
<1>3. PICK below : below = [a \in A |-> {b \in A : <<b, a>> \in R}]
  OBVIOUS
<1>4. \A a \in A : pos[a] = Cardinality(below[a])
  BY <1>2, <1>3 DEF Position
<1>5. ASSUME NEW a \in A
      PROVE  IsFiniteSet(below[a]) /\ pos[a] \in 0 .. k - 1
  <2>1. below[a] \in SUBSET A /\ a \notin below[a]
    BY <1>3
  <2>2. /\ IsFiniteSet(below[a]) /\ Cardinality(below[a]) <= k
        /\ Cardinality(below[a]) # k
    BY <1>1, <2>1, FS_Subset
  <2>3. Cardinality(below[a]) \in Nat
    BY <2>2, FS_CardinalityType
  <2>4. QED
    BY <1>4, <2>2, <2>3
<1>6. ASSUME NEW a \in A, NEW b \in A, <<a, b>> \in R
      PROVE  pos[a] < pos[b]
  <2>1. below[a] \in SUBSET below[b] /\ a \in below[b] /\ a \notin below[a]
    BY <1>3, <1>6
  <2>2. Cardinality(below[a]) <= Cardinality(below[b])
        /\ Cardinality(below[a]) # Cardinality(below[b])
    BY <1>5, <2>1, FS_Subset
  <2>3. pos[a] \in 0 .. k - 1 /\ pos[b] \in 0 .. k - 1
    BY <1>5
  <2>4. QED
    BY <1>4, <2>2, <2>3
<1>7. PICK T : T = 0 .. k - 1
  OBVIOUS
<1>8. IsFiniteSet(T) /\ Cardinality(T) = k
  <2>1. 0 \in Int /\ k - 1 \in Int
    OBVIOUS
  <2>2. QED
    BY <1>7, <2>1, FS_Interval
<1>9. pos \in Injection(A, T)
  <2>1. pos \in [A -> T]
    BY <1>2, <1>5, <1>7
  <2>2. ASSUME NEW a \in A, NEW b \in A, pos[a] = pos[b]
        PROVE  a = b
    <3>1. ~(pos[a] < pos[b]) /\ ~(pos[b] < pos[a])
      BY <1>5, <2>2
    <3>2. QED
      BY <1>6, <3>1
  <2>3. QED
    BY <2>1, <2>2 DEF Injection, IsInjective
<1>10. pos \in Surjection(A, T)
  BY <1>1, <1>8, <1>9, FS_Injection
<1>11. \A m \in T : \E a \in A : pos[a] = m
  BY <1>10 DEF Surjection
<1>12. PICK t : t = [i \in 1..N |-> CHOOSE a \in A : pos[a] = i - 1]
  OBVIOUS
<1>13. \A i \in 1..N : t[i] \in A /\ pos[t[i]] = i - 1
  <2> SUFFICES ASSUME NEW i \in 1..N PROVE t[i] \in A /\ pos[t[i]] = i - 1
    OBVIOUS
  <2>1. i - 1 \in T
    BY <1>1, <1>7
  <2>2. \E a \in A : pos[a] = i - 1
    BY <1>11, <2>1
  <2>3. t[i] = CHOOSE a \in A : pos[a] = i - 1
    BY <1>12
  <2>4. QED
    BY <2>2, <2>3
<1>14. t \in [1..N -> A]
  BY <1>12, <1>13
<1>15. \A i, j \in 1..N : i # j => t[i] # t[j]
  <2>1. \A i, j \in 1..N : i # j => i - 1 # j - 1
    OBVIOUS
  <2>2. QED
    BY <1>13, <2>1
<1>16. ASSUME NEW i \in 1..N, NEW j \in 1..N, i < j
       PROVE  <<t[j], t[i]>> \notin R
  <2>1. ~(j - 1 < i - 1)
    BY <1>16
  <2>2. QED
    BY <1>6, <1>13, <2>1
<1>17. ASSUME NEW a \in A, \A i \in 1..N : t[i] # a, NEW i \in 1..N
       PROVE  <<a, t[i]>> \notin R
  <2>1. pos[a] \in 0 .. k - 1
    BY <1>5
  <2>2. CASE pos[a] < N
    <3>1. pos[a] + 1 \in 1..N /\ (pos[a] + 1) - 1 = pos[a]
      BY <2>1, <2>2
    <3>2. pos[t[pos[a] + 1]] = pos[a] /\ t[pos[a] + 1] \in A
      BY <1>13, <3>1
    <3>3. t[pos[a] + 1] = a
      BY <1>9, <3>2 DEF Injection, IsInjective
    <3>4. QED
      BY <1>17, <3>1, <3>3
  <2>3. CASE ~(pos[a] < N)
    <3>1. ~(pos[a] < i - 1)
      BY <2>1, <2>3
    <3>2. QED
      BY <1>6, <1>13, <3>1
  <2>4. QED
    BY <2>2, <2>3
<1>18. QED
  BY <1>14, <1>15, <1>16, <1>17 DEF Best

\* So a strict total order leaves exactly one list.
LEMMA OneTopList ==
    ASSUME NEW Keys, IsFiniteSet(Keys), NEW lines, DOMAIN lines = Keys, NEW R,
           \A x \in Keys : <<x, x>> \notin R,
           \A x, y, z \in Keys : <<x, y>> \in R /\ <<y, z>> \in R => <<x, z>> \in R,
           \A x, y \in Keys : x # y => <<x, y>> \in R \/ <<y, x>> \in R,
           NEW n \in Nat
    PROVE  \E t : /\ TopLists(lines, R, n) = {t}
                  /\ Best(t, Keys, R, Size(lines, n))
<1>1. PICK N \in Nat : N = Size(lines, n) /\ N <= Cardinality(Keys)
  BY SizeType, SizeBound
<1>2. PICK t : Best(t, Keys, R, N)
  BY <1>1, BestExists
<1>3. \A u : u \in TopLists(lines, R, n) <=> Best(u, Keys, R, N)
  BY <1>1, TopListsAre
<1>4. \A u : Best(u, Keys, R, N) => u = t
  BY <1>1, <1>2, BestUnique
<1>5. QED
  BY <1>1, <1>2, <1>3, <1>4

\* However the hash map orders its entries, cmp_total_refs leaves std::
\* partial_sort_copy exactly one list to print (data:629-632, instance:561-564).
THEOREM FrequentListUnique ==
    ASSUME NEW Keys \in SUBSET Int, IsFiniteSet(Keys), NEW lines \in [Keys -> Line],
           NEW n \in Nat
    PROVE  \E t : /\ FrequentLists(lines, n) = {t}
                  /\ Best(t, Keys, TotalRefsLess(lines), Size(lines, n))
<1>1. PICK R : R = TotalRefsLess(lines)
  OBVIOUS
<1>2. \A x, y \in Keys : <<x, y>> \in R <=> CmpTotalRefs(lines, x, y)
  BY <1>1 DEF TotalRefsLess
<1>3. /\ \A x \in Keys : <<x, x>> \notin R
      /\ \A x, y, z \in Keys : <<x, y>> \in R /\ <<y, z>> \in R => <<x, z>> \in R
      /\ \A x, y \in Keys : x # y => <<x, y>> \in R \/ <<y, x>> \in R
  BY <1>2, TotalRefsOrder DEF StrictTotalOrder
<1>4. DOMAIN lines = Keys
  OBVIOUS
<1>5. \E t : TopLists(lines, R, n) = {t} /\ Best(t, Keys, R, Size(lines, n))
  BY <1>3, <1>4, OneTopList
<1>6. QED
  BY <1>1, <1>5 DEF FrequentLists

\* The same of the list that cmp_distant_refs orders (data:648-651, instance:580-583).
THEOREM DistantListUnique ==
    ASSUME NEW Keys \in SUBSET Int, IsFiniteSet(Keys), NEW lines \in [Keys -> Line],
           NEW n \in Nat
    PROVE  \E t : /\ DistantLists(lines, n) = {t}
                  /\ Best(t, Keys, DistantRefsLess(lines), Size(lines, n))
<1>1. PICK R : R = DistantRefsLess(lines)
  OBVIOUS
<1>2. \A x, y \in Keys : <<x, y>> \in R <=> CmpDistantRefs(lines, x, y)
  BY <1>1 DEF DistantRefsLess
<1>3. /\ \A x \in Keys : <<x, x>> \notin R
      /\ \A x, y, z \in Keys : <<x, y>> \in R /\ <<y, z>> \in R => <<x, z>> \in R
      /\ \A x, y \in Keys : x # y => <<x, y>> \in R \/ <<y, x>> \in R
  BY <1>2, DistantRefsOrder DEF StrictTotalOrder
<1>4. DOMAIN lines = Keys
  OBVIOUS
<1>5. \E t : TopLists(lines, R, n) = {t} /\ Best(t, Keys, R, Size(lines, n))
  BY <1>3, <1>4, OneTopList
<1>6. QED
  BY <1>1, <1>5 DEF DistantLists

-----------------------------------------------------------------------------
(* One shard.                                                              *)

Lines(s) == DOMAIN s.cache_map

\* A value has the fields of shard_data_t and nothing else.
IsShard(s) ==
    s = [total_refs |-> s.total_refs, ref_list |-> s.ref_list,
         cache_map |-> s.cache_map, dist_map |-> s.dist_map, tid |-> s.tid]

Totals(s) == [a \in Lines(s) |-> s.cache_map[a].total_refs]
Distants(s) == [a \in Lines(s) |-> s.cache_map[a].distant_refs]
Far(s) == [d \in {e \in DOMAIN s.dist_map : e >= Threshold} |-> s.dist_map[d]]

\* The fields have their types, the list arranges the mapped addresses, and the
\* counters tell the same story.
ShardTypes(s) ==
    /\ IsShard(s)
    /\ s.total_refs \in Nat
    /\ s.ref_list \in Seq(Addr) /\ IsInjective(s.ref_list)
    /\ ToSet(s.ref_list) = Lines(s)
    /\ s.cache_map \in [Lines(s) -> Line]
    /\ IsFiniteSet(DOMAIN s.dist_map)
    /\ DOMAIN s.dist_map \subseteq Nat
    /\ s.dist_map \in [DOMAIN s.dist_map -> Nat]

ShardCounts(s) ==
    /\ s.total_refs = SumFunction(s.dist_map) + Cardinality(Lines(s))
    /\ s.total_refs = SumFunction(Totals(s))
    /\ SumFunction(Distants(s)) = SumFunction(Far(s))

\* The position of an address in a list of distinct ones.
LEMMA AheadIs ==
    ASSUME NEW S, NEW list \in Seq(S), IsInjective(list), NEW p \in DOMAIN list
    PROVE  Ahead(list, list[p]) = p - 1
<1>1. DOMAIN list = 1 .. Len(list) /\ Len(list) \in Nat
  BY LenProperties
<1>2. \A i \in DOMAIN list : list[i] = list[p] <=> i = p
  BY DEF IsInjective
<1>3. (CHOOSE i \in DOMAIN list : list[i] = list[p]) = p
  BY <1>2
<1>4. QED
  BY <1>3 DEF Ahead

\* What the first reference to an address does to the shard.
LEMMA FirstTouchFields ==
    ASSUME NEW s, IsShard(s), NEW tag, tag \notin Lines(s), NEW r, r = Touch(s, tag)
    PROVE  /\ IsShard(r)
           /\ r.total_refs = s.total_refs + 1
           /\ r.ref_list = <<tag>> \o s.ref_list
           /\ r.cache_map = [a \in Lines(s) \cup {tag} |->
                               IF a = tag THEN NewLine ELSE s.cache_map[a]]
           /\ r.dist_map = s.dist_map
           /\ r.tid = s.tid
<1>1. r = FirstTouch(s, tag)
  BY DEF Touch, Lines
<1>2. s = [total_refs |-> s.total_refs, ref_list |-> s.ref_list,
           cache_map |-> s.cache_map, dist_map |-> s.dist_map, tid |-> s.tid]
  BY DEF IsShard
<1>3. r = [total_refs |-> s.total_refs + 1, ref_list |-> <<tag>> \o s.ref_list,
           cache_map |-> [a \in Lines(s) \cup {tag} |->
                            IF a = tag THEN NewLine ELSE s.cache_map[a]],
           dist_map |-> s.dist_map, tid |-> s.tid]
  BY <1>1, <1>2 DEF FirstTouch, Lines
<1>4. QED
  BY <1>3 DEF IsShard

\* What a later reference does to it.
LEMMA TouchAgainFields ==
    ASSUME NEW s, IsShard(s), NEW tag \in Lines(s), s.cache_map \in [Lines(s) -> Line],
           NEW r, r = Touch(s, tag), NEW dist, dist = Ahead(s.ref_list, tag)
    PROVE  /\ IsShard(r)
           /\ r.total_refs = s.total_refs + 1
           /\ r.ref_list = MoveToFront(s.ref_list, tag)
           /\ r.cache_map \in [Lines(s) -> Line]
           /\ \A a \in Lines(s) : a # tag => r.cache_map[a] = s.cache_map[a]
           /\ r.cache_map[tag].total_refs = s.cache_map[tag].total_refs + 1
           /\ r.cache_map[tag].distant_refs =
                s.cache_map[tag].distant_refs + (IF dist >= Threshold THEN 1 ELSE 0)
           /\ r.dist_map = Increase(s.dist_map, dist, 1)
           /\ r.tid = s.tid
<1> DEFINE old == s.cache_map[tag]
           new == [total_refs |-> old.total_refs + 1,
                   distant_refs |-> old.distant_refs + (IF dist >= Threshold THEN 1 ELSE 0)]
           map == [s.cache_map EXCEPT ![tag] = new]
<1>1. r = TouchAgain(s, tag)
  BY DEF Touch, Lines
<1>2. s = [total_refs |-> s.total_refs, ref_list |-> s.ref_list,
           cache_map |-> s.cache_map, dist_map |-> s.dist_map, tid |-> s.tid]
  BY DEF IsShard
<1>3. r = [total_refs |-> s.total_refs + 1, ref_list |-> MoveToFront(s.ref_list, tag),
           cache_map |-> map,
           dist_map |-> Increase(s.dist_map, dist, 1), tid |-> s.tid]
  BY <1>1, <1>2 DEF TouchAgain
<1>4. new \in Line
  BY DEF Line
<1>5. /\ map \in [Lines(s) -> Line]
      /\ \A a \in Lines(s) : a # tag => map[a] = s.cache_map[a]
      /\ map[tag] = new
  BY <1>4
<1>6. QED
  BY <1>3, <1>5 DEF IsShard

\* The addresses of a shard are finitely many.
LEMMA LinesFinite ==
    ASSUME NEW s, ShardTypes(s)
    PROVE  /\ IsFiniteSet(Lines(s))
           /\ Cardinality(Lines(s)) = Len(s.ref_list)
           /\ Cardinality(Lines(s)) \in Nat
           /\ \A a \in Lines(s) : /\ s.cache_map[a].total_refs \in Nat
                                  /\ s.cache_map[a].distant_refs \in Nat
<1>1. IsFiniteSet(Lines(s)) /\ Cardinality(Lines(s)) = Len(s.ref_list)
  BY ListSize DEF ShardTypes
<1>2. \A a \in Lines(s) : s.cache_map[a] \in Line
  BY DEF ShardTypes
<1>3. QED
  BY <1>1, <1>2, FS_CardinalityType DEF Line

\* An address that is not the first of its shard's has a position in the list.
LEMMA AheadType ==
    ASSUME NEW s, ShardTypes(s), NEW tag \in Lines(s)
    PROVE  /\ Ahead(s.ref_list, tag) \in Nat
           /\ Ahead(s.ref_list, tag) + 1 \in DOMAIN s.ref_list
           /\ s.ref_list[Ahead(s.ref_list, tag) + 1] = tag
<1>1. PICK list : list = s.ref_list
  OBVIOUS
<1>2. list \in Seq(Addr) /\ IsInjective(list) /\ tag \in ToSet(list)
  BY <1>1 DEF ShardTypes
<1>3. PICK p \in DOMAIN list : list[p] = tag
  BY <1>2 DEF ToSet
<1>4. Ahead(list, tag) = p - 1
  BY <1>2, <1>3, AheadIs
<1>5. p \in Nat \ {0}
  BY <1>2, <1>3, LenProperties
<1>6. QED
  BY <1>1, <1>3, <1>4, <1>5

\* A data reference keeps the fields of its shard consistent.
LEMMA FirstTouchKeepsShard ==
    ASSUME NEW s, ShardTypes(s), ShardCounts(s), NEW tag \in Addr, tag \notin Lines(s),
           NEW r, r = Touch(s, tag)
    PROVE  ShardTypes(r) /\ ShardCounts(r)
<1>1. /\ IsShard(r)
      /\ r.total_refs = s.total_refs + 1
      /\ r.ref_list = <<tag>> \o s.ref_list
      /\ r.cache_map = [a \in Lines(s) \cup {tag} |->
                          IF a = tag THEN NewLine ELSE s.cache_map[a]]
      /\ r.dist_map = s.dist_map
  <2>1. IsShard(s)
    BY DEF ShardTypes
  <2>2. QED
    BY <2>1, FirstTouchFields
<1>2. /\ IsFiniteSet(Lines(s)) /\ Cardinality(Lines(s)) \in Nat
      /\ \A a \in Lines(s) : /\ s.cache_map[a].total_refs \in Nat
                             /\ s.cache_map[a].distant_refs \in Nat
  BY LinesFinite
<1>3. Lines(r) = Lines(s) \cup {tag}
  BY <1>1 DEF Lines
<1>4. ShardTypes(r)
  <2>1. /\ r.ref_list \in Seq(Addr) /\ IsInjective(r.ref_list)
        /\ ToSet(r.ref_list) = Lines(r)
    BY <1>1, <1>3, PushList DEF ShardTypes
  <2>2. r.cache_map \in [Lines(r) -> Line]
    <3>1. NewLine \in Line
      BY DEF NewLine, Line
    <3>2. \A a \in Lines(s) : s.cache_map[a] \in Line
      BY DEF ShardTypes
    <3>3. QED
      BY <1>1, <1>3, <3>1, <3>2
  <2>3. QED
    BY <1>1, <2>1, <2>2 DEF ShardTypes
<1>5. Cardinality(Lines(r)) = Cardinality(Lines(s)) + 1
  BY <1>2, <1>3, FS_AddElement
<1>6. SumFunction(Totals(s)) \in Nat /\ SumFunction(Totals(r)) = SumFunction(Totals(s)) + 1
  <2>1. PICK F, G, D : F = Totals(s) /\ G = Totals(r) /\ D = Lines(s)
    OBVIOUS
  <2>2. F = [a \in D |-> s.cache_map[a].total_refs]
    BY <2>1 DEF Totals
  <2>3. G = [a \in D \cup {tag} |-> r.cache_map[a].total_refs]
    BY <2>1, <1>3 DEF Totals
  <2>4. \A a \in D : F[a] \in Nat /\ (a # tag => G[a] = F[a])
    <3>1. \A a \in D : r.cache_map[a] = IF a = tag THEN NewLine ELSE s.cache_map[a]
      BY <2>1, <1>1
    <3>2. QED
      BY <2>1, <2>2, <2>3, <3>1, <1>2
  <2>5. G[tag] = (IF tag \in D THEN F[tag] ELSE 0) + 1
    <3>1. r.cache_map[tag] = NewLine /\ tag \notin D
      BY <2>1, <1>1
    <3>2. QED
      BY <2>3, <3>1 DEF NewLine
  <2>6. IsFiniteSet(D) /\ 1 \in Nat
    BY <2>1, <1>2
  <2>7. F \in [D -> Nat] /\ G \in [D \cup {tag} -> Nat]
    BY <2>1, <2>2, <2>3, <2>4, <2>5, <2>6
  <2>8. SumFunction(F) \in Nat /\ SumFunction(G) = SumFunction(F) + 1
    BY <2>4, <2>5, <2>6, <2>7, FunctionGrows
  <2>9. QED
    BY <2>1, <2>8
<1>7. SumFunction(Distants(s)) \in Nat /\ SumFunction(Distants(r)) = SumFunction(Distants(s)) + 0
  <2>1. PICK F, G, D, d : F = Distants(s) /\ G = Distants(r) /\ D = Lines(s) /\ d = 0
    OBVIOUS
  <2>2. F = [a \in D |-> s.cache_map[a].distant_refs]
    BY <2>1 DEF Distants
  <2>3. G = [a \in D \cup {tag} |-> r.cache_map[a].distant_refs]
    BY <2>1, <1>3 DEF Distants
  <2>4. \A a \in D : F[a] \in Nat /\ (a # tag => G[a] = F[a])
    <3>1. \A a \in D : r.cache_map[a] = IF a = tag THEN NewLine ELSE s.cache_map[a]
      BY <2>1, <1>1
    <3>2. QED
      BY <2>1, <2>2, <2>3, <3>1, <1>2
  <2>5. G[tag] = (IF tag \in D THEN F[tag] ELSE 0) + d
    <3>1. r.cache_map[tag] = NewLine /\ tag \notin D
      BY <2>1, <1>1
    <3>2. QED
      BY <2>1, <2>3, <3>1 DEF NewLine
  <2>6. IsFiniteSet(D) /\ d \in Nat
    BY <2>1, <1>2
  <2>7. F \in [D -> Nat] /\ G \in [D \cup {tag} -> Nat]
    BY <2>1, <2>2, <2>3, <2>4, <2>5, <2>6
  <2>8. SumFunction(F) \in Nat /\ SumFunction(G) = SumFunction(F) + d
    BY <2>4, <2>5, <2>6, <2>7, FunctionGrows
  <2>9. QED
    BY <2>1, <2>8
<1>8. Far(r) = Far(s)
  BY <1>1 DEF Far
<1>9. SumFunction(s.dist_map) \in Nat
  BY SumType DEF SumFunction, ShardTypes
<1>10. ShardCounts(r)
  <2>1. r.total_refs = SumFunction(r.dist_map) + Cardinality(Lines(r))
    BY <1>1, <1>2, <1>5, <1>9 DEF ShardCounts
  <2>2. r.total_refs = SumFunction(Totals(r))
    BY <1>1, <1>6 DEF ShardCounts
  <2>3. SumFunction(Distants(r)) = SumFunction(Far(r))
    BY <1>7, <1>8 DEF ShardCounts
  <2>4. QED
    BY <2>1, <2>2, <2>3 DEF ShardCounts
<1>11. QED
  BY <1>4, <1>10

LEMMA TouchAgainKeepsShard ==
    ASSUME NEW s, ShardTypes(s), ShardCounts(s), NEW tag \in Lines(s),
           NEW r, r = Touch(s, tag)
    PROVE  ShardTypes(r) /\ ShardCounts(r)
<1>1. PICK dist : dist = Ahead(s.ref_list, tag)
  OBVIOUS
<1>2. dist \in Nat /\ dist + 1 \in DOMAIN s.ref_list /\ s.ref_list[dist + 1] = tag
  BY <1>1, AheadType
<1>3. s.cache_map \in [Lines(s) -> Line] /\ IsShard(s)
  BY DEF ShardTypes
<1>4. /\ IsShard(r)
      /\ r.total_refs = s.total_refs + 1
      /\ r.ref_list = MoveToFront(s.ref_list, tag)
      /\ r.cache_map \in [Lines(s) -> Line]
      /\ \A a \in Lines(s) : a # tag => r.cache_map[a] = s.cache_map[a]
      /\ r.cache_map[tag].total_refs = s.cache_map[tag].total_refs + 1
      /\ r.cache_map[tag].distant_refs =
           s.cache_map[tag].distant_refs + (IF dist >= Threshold THEN 1 ELSE 0)
      /\ r.dist_map = Increase(s.dist_map, dist, 1)
  BY <1>1, <1>3, TouchAgainFields
<1>5. /\ IsFiniteSet(Lines(s)) /\ Cardinality(Lines(s)) \in Nat
      /\ \A a \in Lines(s) : /\ s.cache_map[a].total_refs \in Nat
                             /\ s.cache_map[a].distant_refs \in Nat
  BY LinesFinite
<1>6. Lines(r) = Lines(s)
  BY <1>4 DEF Lines
<1>7. /\ DOMAIN r.dist_map = DOMAIN s.dist_map \cup {dist}
      /\ r.dist_map \in [DOMAIN r.dist_map -> Nat]
      /\ IsFiniteSet(DOMAIN r.dist_map) /\ DOMAIN r.dist_map \subseteq Nat
      /\ \A k \in DOMAIN s.dist_map : k # dist => r.dist_map[k] = s.dist_map[k]
      /\ r.dist_map[dist] = (IF dist \in DOMAIN s.dist_map THEN s.dist_map[dist] ELSE 0) + 1
      /\ SumFunction(s.dist_map) \in Nat
      /\ SumFunction(r.dist_map) = SumFunction(s.dist_map) + 1
  <2>1. PICK f, g, D, one : /\ f = s.dist_map /\ g = r.dist_map /\ D = DOMAIN s.dist_map
                            /\ one = 1
    OBVIOUS
  <2>2. IsFiniteSet(D) /\ D \subseteq Nat /\ f \in [D -> Nat] /\ D = DOMAIN f
    BY <2>1 DEF ShardTypes
  <2>3. g = [k \in D \cup {dist} |->
               (IF k \in D THEN f[k] ELSE 0) + (IF k = dist THEN 1 ELSE 0)]
    BY <2>1, <2>2, <1>4 DEF Increase
  <2>4. \A k \in D : f[k] \in Nat
    BY <2>2
  <2>5. \A k \in D : k # dist => g[k] = f[k]
    BY <2>3, <2>4
  <2>6. g[dist] = (IF dist \in D THEN f[dist] ELSE 0) + one
    BY <2>1, <2>3, <2>4
  <2>7. \A k \in D \cup {dist} : g[k] \in Nat
    BY <2>3, <2>4
  <2>8. f \in [D -> Nat] /\ g \in [D \cup {dist} -> Nat]
    BY <2>2, <2>3, <2>7
  <2>9. IsFiniteSet(D) /\ one \in Nat
    BY <2>1, <2>2
  <2>10. SumFunction(f) \in Nat /\ SumFunction(g) = SumFunction(f) + one
    BY <2>5, <2>6, <2>8, <2>9, FunctionGrows
  <2>11. IsFiniteSet(D \cup {dist}) /\ DOMAIN g = D \cup {dist} /\ D \cup {dist} \subseteq Nat
    BY <1>2, <2>2, <2>3, FS_AddElement
  <2>12. QED
    BY <2>1, <2>5, <2>6, <2>8, <2>10, <2>11
<1>8. ShardTypes(r)
  <2>1. PICK list : list = s.ref_list
    OBVIOUS
  <2>2. list \in Seq(Addr) /\ IsInjective(list) /\ ToSet(list) = Lines(s)
    BY <2>1 DEF ShardTypes
  <2>3. r.ref_list = <<list[dist + 1]>> \o RemoveAt(list, dist + 1)
    BY <1>1, <1>2, <1>4, <2>1 DEF MoveToFront
  <2>4. /\ r.ref_list \in Seq(Addr) /\ IsInjective(r.ref_list)
        /\ ToSet(r.ref_list) = ToSet(list)
    BY <1>2, <2>1, <2>2, <2>3, PromoteList
  <2>5. s.total_refs + 1 \in Nat
    BY DEF ShardTypes
  <2>6. QED
    BY <1>4, <1>6, <1>7, <2>2, <2>4, <2>5 DEF ShardTypes
<1>9. SumFunction(Totals(s)) \in Nat /\ SumFunction(Totals(r)) = SumFunction(Totals(s)) + 1
  <2>1. PICK F, G, D : F = Totals(s) /\ G = Totals(r) /\ D = Lines(s)
    OBVIOUS
  <2>2. F = [a \in D |-> s.cache_map[a].total_refs]
    BY <2>1 DEF Totals
  <2>3. G = [a \in D |-> r.cache_map[a].total_refs]
    BY <2>1, <1>6 DEF Totals
  <2>4. \A a \in D : F[a] \in Nat /\ (a # tag => G[a] = F[a])
    BY <2>1, <2>2, <2>3, <1>4, <1>5
  <2>5. G[tag] = (IF tag \in D THEN F[tag] ELSE 0) + 1
    BY <2>1, <2>2, <2>3, <1>4
  <2>6. IsFiniteSet(D) /\ 1 \in Nat /\ DOMAIN G = D \cup {tag}
    BY <2>1, <2>3, <1>5
  <2>7. F \in [D -> Nat] /\ G \in [D \cup {tag} -> Nat]
    BY <2>1, <2>2, <2>3, <2>4, <2>5, <2>6
  <2>8. SumFunction(F) \in Nat /\ SumFunction(G) = SumFunction(F) + 1
    BY <2>4, <2>5, <2>6, <2>7, FunctionGrows
  <2>9. QED
    BY <2>1, <2>8
<1>10. PICK d : d \in Nat /\ d = IF dist >= Threshold THEN 1 ELSE 0
  OBVIOUS
<1>11. /\ SumFunction(Distants(s)) \in Nat
       /\ SumFunction(Distants(r)) = SumFunction(Distants(s)) + d
  <2>1. PICK F, G, D : F = Distants(s) /\ G = Distants(r) /\ D = Lines(s)
    OBVIOUS
  <2>2. F = [a \in D |-> s.cache_map[a].distant_refs]
    BY <2>1 DEF Distants
  <2>3. G = [a \in D |-> r.cache_map[a].distant_refs]
    BY <2>1, <1>6 DEF Distants
  <2>4. \A a \in D : F[a] \in Nat /\ (a # tag => G[a] = F[a])
    BY <2>1, <2>2, <2>3, <1>4, <1>5
  <2>5. G[tag] = (IF tag \in D THEN F[tag] ELSE 0) + d
    BY <2>1, <2>2, <2>3, <1>4, <1>10
  <2>6. IsFiniteSet(D) /\ d \in Nat /\ DOMAIN G = D \cup {tag}
    BY <2>1, <2>3, <1>5, <1>10
  <2>7. F \in [D -> Nat] /\ G \in [D \cup {tag} -> Nat]
    BY <2>1, <2>2, <2>3, <2>4, <2>5, <2>6
  <2>8. SumFunction(F) \in Nat /\ SumFunction(G) = SumFunction(F) + d
    BY <2>4, <2>5, <2>6, <2>7, FunctionGrows
  <2>9. QED
    BY <2>1, <2>8
<1>12. SumFunction(Far(s)) \in Nat /\ SumFunction(Far(r)) = SumFunction(Far(s)) + d
  <2>1. PICK F, G, D : F = Far(s) /\ G = Far(r) /\ D = {e \in DOMAIN s.dist_map : e >= Threshold}
    OBVIOUS
  <2>2. F = [k \in D |-> s.dist_map[k]]
    BY <2>1 DEF Far
  <2>3. IsFiniteSet(D)
    BY <2>1, FS_Subset DEF ShardTypes
  <2>4. \A k \in D : F[k] \in Nat
    BY <2>1, <2>2 DEF ShardTypes
  <2>5. /\ DOMAIN G = {e \in DOMAIN s.dist_map \cup {dist} : e >= Threshold}
        /\ \A k \in DOMAIN G : G[k] = r.dist_map[k]
        /\ G = [k \in DOMAIN G |-> r.dist_map[k]]
    BY <2>1, <1>7 DEF Far
  <2>6. CASE dist >= Threshold
    <3>1. d = 1 /\ DOMAIN G = D \cup {dist}
      BY <1>10, <2>1, <2>5, <2>6
    <3>2. \A k \in D : k # dist => G[k] = F[k]
      BY <1>7, <2>1, <2>2, <2>5, <3>1
    <3>3. G[dist] = (IF dist \in D THEN F[dist] ELSE 0) + d
      BY <1>7, <2>1, <2>2, <2>5, <2>6, <3>1
    <3>4. F \in [D -> Nat] /\ G \in [D \cup {dist} -> Nat]
      <4>1. \A k \in D \cup {dist} : r.dist_map[k] \in Nat
        BY <1>7, <2>1
      <4>2. QED
        BY <2>2, <2>4, <2>5, <3>1, <4>1
    <3>5. SumFunction(F) \in Nat /\ SumFunction(G) = SumFunction(F) + d
      BY <2>3, <3>1, <3>2, <3>3, <3>4, FunctionGrows
    <3>6. QED
      BY <2>1, <3>5
  <2>7. CASE ~(dist >= Threshold)
    <3>1. d = 0 /\ DOMAIN G = D
      BY <1>10, <2>1, <2>5, <2>7
    <3>2. \A k \in D : k # dist /\ G[k] = s.dist_map[k]
      BY <1>7, <2>1, <2>5, <2>7, <3>1
    <3>3. F = G
      BY <2>1, <2>2, <2>5, <3>1, <3>2 DEF Far
    <3>4. SumFunction(F) \in Nat
      BY <2>2, <2>3, <2>4, SumType DEF SumFunction
    <3>5. QED
      BY <2>1, <3>1, <3>3, <3>4
  <2>8. QED
    BY <2>6, <2>7
<1>13. ShardCounts(r)
  <2>1. r.total_refs = SumFunction(r.dist_map) + Cardinality(Lines(r))
    BY <1>4, <1>5, <1>6, <1>7 DEF ShardCounts
  <2>2. r.total_refs = SumFunction(Totals(r))
    BY <1>4, <1>9 DEF ShardCounts
  <2>3. SumFunction(Distants(r)) = SumFunction(Far(r))
    BY <1>11, <1>12 DEF ShardCounts
  <2>4. QED
    BY <2>1, <2>2, <2>3 DEF ShardCounts
<1>14. QED
  BY <1>8, <1>13

\* The thread of a shard is not touched by its references.
LEMMA TouchKeepsShard ==
    ASSUME NEW s, ShardTypes(s), ShardCounts(s), NEW tag \in Addr, NEW r, r = Touch(s, tag)
    PROVE  /\ ShardTypes(r) /\ ShardCounts(r)
           /\ r.tid = s.tid
           /\ r.total_refs = s.total_refs + 1
           /\ Lines(r) = Lines(s) \cup {tag}
<1>1. IsShard(s) /\ s.cache_map \in [Lines(s) -> Line]
  BY DEF ShardTypes
<1>2. CASE tag \in Lines(s)
  <2>1. PICK dist : dist = Ahead(s.ref_list, tag)
    OBVIOUS
  <2>2. r.tid = s.tid /\ r.total_refs = s.total_refs + 1 /\ r.cache_map \in [Lines(s) -> Line]
    BY <1>1, <1>2, <2>1, TouchAgainFields
  <2>3. Lines(r) = Lines(s) \cup {tag}
    BY <1>2, <2>2 DEF Lines
  <2>4. QED
    BY <1>2, <2>2, <2>3, TouchAgainKeepsShard
<1>3. CASE tag \notin Lines(s)
  <2>1. /\ IsShard(r)
        /\ r.total_refs = s.total_refs + 1
        /\ r.ref_list = <<tag>> \o s.ref_list
        /\ r.cache_map = [a \in Lines(s) \cup {tag} |->
                            IF a = tag THEN NewLine ELSE s.cache_map[a]]
        /\ r.dist_map = s.dist_map
        /\ r.tid = s.tid
    <3>1. IsShard(s)
      BY <1>1
    <3>2. QED
      BY <1>3, <3>1, FirstTouchFields
  <2>2. Lines(r) = Lines(s) \cup {tag}
    BY <2>1 DEF Lines
  <2>3. QED
    BY <1>3, <2>1, <2>2, FirstTouchKeepsShard
<1>4. QED
  BY <1>2, <1>3

\* A shard nothing has been counted for.
LEMMA EmptyShardIs ==
    /\ ShardTypes(EmptyShard) /\ ShardCounts(EmptyShard)
    /\ EmptyShard.tid = Unset /\ Lines(EmptyShard) = {}
    /\ EmptyShard.total_refs = 0 /\ EmptyShard.dist_map = <<>> /\ EmptyShard.ref_list = <<>>
<1>1. PICK s : s = EmptyShard
  OBVIOUS
<1>2. /\ s.total_refs = 0 /\ s.ref_list = <<>> /\ s.cache_map = <<>> /\ s.dist_map = <<>>
      /\ s.tid = Unset
      /\ IsShard(s)
  BY <1>1 DEF EmptyShard, IsShard
<1>3. Lines(s) = {} /\ DOMAIN s.dist_map = {}
  BY <1>2 DEF Lines
<1>4. IsFiniteSet({}) /\ Cardinality({}) = 0
  BY FS_EmptySet
<1>5. s.ref_list \in Seq(Addr) /\ IsInjective(s.ref_list) /\ ToSet(s.ref_list) = {}
  BY <1>2 DEF IsInjective, ToSet
<1>6. s.cache_map \in [Lines(s) -> Line] /\ s.dist_map \in [DOMAIN s.dist_map -> Nat]
  BY <1>2, <1>3
<1>7. ShardTypes(s)
  BY <1>2, <1>3, <1>4, <1>5, <1>6 DEF ShardTypes
<1>8. ASSUME NEW f, DOMAIN f = {} PROVE SumFunction(f) = 0
  BY <1>8, SumEmpty DEF SumFunction
<1>9. DOMAIN Totals(s) = {} /\ DOMAIN Distants(s) = {} /\ DOMAIN Far(s) = {}
  BY <1>3 DEF Totals, Distants, Far
<1>10. ShardCounts(s)
  BY <1>2, <1>3, <1>4, <1>8, <1>9 DEF ShardCounts
<1>11. QED
  BY <1>1, <1>2, <1>3, <1>7, <1>10

-----------------------------------------------------------------------------
(* All the shards.                                                         *)

\* The shards of a report, and what print_results makes of them.
Orders == IF Cardinality(DOMAIN shard_map) > 1 THEN Sorted(shard_map) ELSE {<<>>}

Reported ==
    \E order \in Orders :
      \E frequent \in FrequentLists(Merge(shard_map).cache_map, ReportTop),
         distant \in DistantLists(Merge(shard_map).cache_map, ReportTop) :
           report = [aggregate |-> Merge(shard_map), sections |-> order,
                     frequent |-> frequent, distant |-> distant]

\* The report is made once, of the shards as they then are.
Outcomes ==
    /\ outcome \in {Running, Printed, Killed}
    /\ outcome # Printed => report = NoReport
    /\ outcome = Printed => Reported

ShardsInv ==
    /\ by \in Seq(Tid) /\ Len(by) = Len(trace)
    /\ DOMAIN shard_map \subseteq Tid /\ IsFiniteSet(DOMAIN shard_map)
    /\ \A t \in DOMAIN shard_map :
         /\ ShardTypes(shard_map[t])
         /\ ShardCounts(shard_map[t])
         /\ shard_map[t].tid \in {t, Unset}

\* The shard of a thread, found or made.
LEMMA ShardIs ==
    ASSUME ShardsInv, NEW tid
    PROVE  /\ ShardTypes(Shard(tid)) /\ ShardCounts(Shard(tid))
           /\ Shard(tid).tid \in {tid, Unset}
  BY EmptyShardIs DEF ShardsInv, Shard

LEMMA SetShardIs ==
    ASSUME NEW tid, NEW s, SetShard(tid, s)
    PROVE  /\ DOMAIN shard_map' = DOMAIN shard_map \cup {tid}
           /\ shard_map'[tid] = s
           /\ \A t \in DOMAIN shard_map : t # tid => shard_map'[t] = shard_map[t]
  BY DEF SetShard

LEMMA SetShardKeepsInv ==
    ASSUME ShardsInv, NEW tid \in Tid, NEW s, ShardTypes(s), ShardCounts(s), s.tid \in {tid, Unset},
           SetShard(tid, s), by' \in Seq(Tid), Len(by') = Len(trace')
    PROVE  ShardsInv'
<1>1. /\ DOMAIN shard_map' = DOMAIN shard_map \cup {tid}
      /\ shard_map'[tid] = s
      /\ \A t \in DOMAIN shard_map : t # tid => shard_map'[t] = shard_map[t]
  BY SetShardIs
<1>2. IsFiniteSet(DOMAIN shard_map') /\ DOMAIN shard_map' \subseteq Tid
  BY <1>1, FS_AddElement DEF ShardsInv
<1>3. ASSUME NEW t \in DOMAIN shard_map'
      PROVE  /\ ShardTypes(shard_map'[t]) /\ ShardCounts(shard_map'[t])
             /\ shard_map'[t].tid \in {t, Unset}
  BY <1>1, <1>3 DEF ShardsInv
<1>4. QED
  BY <1>2, <1>3 DEF ShardsInv, ShardTypes, ShardCounts, IsShard, Lines, Totals, Distants, Far

\* A record that is not counted gives the shard at most its number.
LEMMA QuietShard ==
    ASSUME NEW s, ShardTypes(s), ShardCounts(s), NEW tid, NEW r, r = [s EXCEPT !.tid = tid]
    PROVE  /\ ShardTypes(r) /\ ShardCounts(r)
           /\ r.tid = tid
           /\ r.total_refs = s.total_refs /\ r.ref_list = s.ref_list
           /\ r.cache_map = s.cache_map /\ r.dist_map = s.dist_map
<1>1. s = [total_refs |-> s.total_refs, ref_list |-> s.ref_list,
           cache_map |-> s.cache_map, dist_map |-> s.dist_map, tid |-> s.tid]
  BY DEF ShardTypes, IsShard
<1>2. r = [total_refs |-> s.total_refs, ref_list |-> s.ref_list,
           cache_map |-> s.cache_map, dist_map |-> s.dist_map, tid |-> tid]
  BY <1>1
<1>3. /\ IsShard(r) /\ r.tid = tid
      /\ r.total_refs = s.total_refs /\ r.ref_list = s.ref_list
      /\ r.cache_map = s.cache_map /\ r.dist_map = s.dist_map
  BY <1>2 DEF IsShard
<1>4. Lines(r) = Lines(s) /\ Totals(r) = Totals(s) /\ Distants(r) = Distants(s) /\ Far(r) = Far(s)
  BY <1>3 DEF Lines, Totals, Distants, Far
<1>5. ShardTypes(r)
  BY <1>3, <1>4 DEF ShardTypes
<1>6. ShardCounts(r)
  BY <1>3, <1>4 DEF ShardCounts
<1>7. QED
  BY <1>3, <1>5, <1>6

\* What a record does that is not counted.
QuietRecord(tid, s) ==
    /\ SetShard(tid, s)
    /\ s.total_refs = Shard(tid).total_refs /\ s.ref_list = Shard(tid).ref_list
    /\ s.cache_map = Shard(tid).cache_map /\ s.dist_map = Shard(tid).dist_map
    /\ ShardTypes(s) /\ ShardCounts(s) /\ s.tid \in {tid, Unset}
    /\ UNCHANGED <<globals, by, outcome, report>>

\* What a reference does.
CountedRecord(tid, tag, s) ==
    /\ SetShard(tid, s)
    /\ s = Touch(Shard(tid), tag)
    /\ ShardTypes(s) /\ ShardCounts(s) /\ s.tid \in {tid, Unset}
    /\ Reference(tag)
    /\ by' = Append(by, tid)
    /\ UNCHANGED <<outcome, report>>

\* Every step of the tool is one of these or the report.
LEMMA Steps ==
    ASSUME ShardsInv, Next
    PROVE  /\ outcome = Running
           /\ \/ \E tid \in Tid, tag \in Addr : \E s : CountedRecord(tid, tag, s)
              \/ \E tid \in Tid : \E s : QuietRecord(tid, s)
              \/ PrintResults
<1>1. outcome = Running
  BY DEF Next
<1>2. CASE PrintResults
  BY <1>1, <1>2
<1>3. ASSUME NEW tid \in Tid, NEW tag \in Addr, CountedReference(tid, tag)
      PROVE  \E s : CountedRecord(tid, tag, s)
  <2>1. PICK s0 : s0 = Shard(tid)
    OBVIOUS
  <2>2. PICK s : s = Touch(s0, tag)
    OBVIOUS
  <2>3. ShardTypes(s0) /\ ShardCounts(s0) /\ s0.tid \in {tid, Unset}
    BY <2>1, ShardIs
  <2>4. ShardTypes(s) /\ ShardCounts(s) /\ s.tid = s0.tid
    BY <2>2, <2>3, TouchKeepsShard
  <2>5. CountedRecord(tid, tag, s)
    BY <1>3, <2>1, <2>2, <2>3, <2>4 DEF CountedReference, CountedRecord
  <2>6. QED
    BY <2>5
<1>4. ASSUME NEW tid \in Tid, ThreadExit(tid)
      PROVE  \E s : QuietRecord(tid, s)
  <2>1. PICK s0 : s0 = Shard(tid)
    OBVIOUS
  <2>2. PICK s : s = [s0 EXCEPT !.tid = tid]
    OBVIOUS
  <2>3. ShardTypes(s0) /\ ShardCounts(s0)
    BY <2>1, ShardIs
  <2>4. /\ ShardTypes(s) /\ ShardCounts(s) /\ s.tid = tid
        /\ s.total_refs = s0.total_refs /\ s.ref_list = s0.ref_list
        /\ s.cache_map = s0.cache_map /\ s.dist_map = s0.dist_map
    BY <2>2, <2>3, QuietShard
  <2>5. QuietRecord(tid, s)
    BY <1>4, <2>1, <2>2, <2>4 DEF ThreadExit, QuietRecord
  <2>6. QED
    BY <2>5
<1>5. ASSUME NEW tid \in Tid, OtherRecord(tid)
      PROVE  \E s : QuietRecord(tid, s)
  <2>1. PICK s : s = Shard(tid)
    OBVIOUS
  <2>2. ShardTypes(s) /\ ShardCounts(s) /\ s.tid \in {tid, Unset}
    BY <2>1, ShardIs
  <2>3. QuietRecord(tid, s)
    BY <1>5, <2>1, <2>2 DEF OtherRecord, QuietRecord
  <2>4. QED
    BY <2>3
<1>6. ASSUME NEW tid \in Tid, NEW tag \in Addr, NEW kind, ProcessMemref(tid, kind, tag)
      PROVE  (\E s : CountedRecord(tid, tag, s)) \/ \E s : QuietRecord(tid, s)
  BY <1>3, <1>4, <1>5, <1>6 DEF ProcessMemref
<1>7. QED
  BY <1>1, <1>2, <1>6 DEF Next

LEMMA InitShardsInv == Init => ShardsInv /\ Outcomes
<1> SUFFICES ASSUME Init PROVE ShardsInv /\ Outcomes
  OBVIOUS
<1>1. by \in Seq(Tid) /\ Len(by) = Len(trace)
  BY DEF Init, TimeInit
<1>2. DOMAIN shard_map = {}
  BY DEF Init
<1>3. ShardsInv
  BY <1>1, <1>2, FS_EmptySet DEF ShardsInv
<1>4. Outcomes
  BY DEF Init, Outcomes, Running, Printed, Killed
<1>5. QED
  BY <1>3, <1>4

LEMMA NextKeepsShardsInv ==
    ASSUME GlobalsInv, ShardsInv, Outcomes, [Next]_vars
    PROVE  ShardsInv' /\ Outcomes'
<1>1. CASE UNCHANGED vars
  <2>1. ShardsInv'
    BY <1>1 DEF vars, globals, ShardsInv
  <2>2. Outcomes'
    BY <1>1 DEF vars, Outcomes, Reported, Orders
  <2>3. QED
    BY <2>1, <2>2
<1>2. ASSUME NEW tid \in Tid, NEW tag \in Addr, NEW s, CountedRecord(tid, tag, s),
             outcome = Running
      PROVE  ShardsInv' /\ Outcomes'
  <2>1. by' \in Seq(Tid) /\ Len(by') = Len(trace')
    BY <1>2 DEF CountedRecord, Reference, ShardsInv, GlobalsInv, GlobalsTypeOK
  <2>2. ShardsInv'
    BY <1>2, <2>1, SetShardKeepsInv DEF CountedRecord
  <2>3. Outcomes'
    BY <1>2 DEF CountedRecord, Outcomes, Running, Printed
  <2>4. QED
    BY <2>2, <2>3
<1>3. ASSUME NEW tid \in Tid, NEW s, QuietRecord(tid, s), outcome = Running
      PROVE  ShardsInv' /\ Outcomes'
  <2>1. by' \in Seq(Tid) /\ Len(by') = Len(trace')
    BY <1>3 DEF QuietRecord, ShardsInv, globals
  <2>2. ShardsInv'
    BY <1>3, <2>1, SetShardKeepsInv DEF QuietRecord
  <2>3. Outcomes'
    BY <1>3 DEF QuietRecord, Outcomes, Running, Printed
  <2>4. QED
    BY <2>2, <2>3
<1>4. ASSUME PrintResults, outcome = Running
      PROVE  ShardsInv' /\ Outcomes'
  <2>1. shard_map' = shard_map /\ UNCHANGED <<globals, by>>
    BY <1>4 DEF PrintResults
  <2>2. ShardsInv'
    BY <2>1 DEF globals, ShardsInv
  <2>3. CASE outcome' = Printed
    <3>1. Reported'
      BY <1>4, <2>1, <2>3 DEF PrintResults, Reported, Orders, Printed, Killed
    <3>2. QED
      BY <2>2, <2>3, <3>1 DEF Outcomes
  <2>4. CASE outcome' = Killed
    BY <1>4, <2>2, <2>4 DEF PrintResults, Outcomes, Running, Printed, Killed
  <2>5. QED
    BY <1>4, <2>3, <2>4 DEF PrintResults
<1>5. QED
  BY <1>1, <1>2, <1>3, <1>4, Steps

\* The globals of the tool behave as TimeDistance says, whatever the threads.
LEMMA StepOfGlobals == [Next]_vars => [TimeNext]_globals
<1> SUFFICES ASSUME [Next]_vars PROVE [TimeNext]_globals
  OBVIOUS
<1>1. CASE UNCHANGED vars
  BY <1>1 DEF vars
<1>2. ASSUME NEW tid \in Tid, NEW tag \in Addr, NEW kind, ProcessMemref(tid, kind, tag)
      PROVE  TimeNext \/ UNCHANGED globals
  <2>1. CASE CountedReference(tid, tag)
    BY <2>1 DEF CountedReference, TimeNext
  <2>2. CASE ThreadExit(tid)
    BY <2>2 DEF ThreadExit
  <2>3. CASE OtherRecord(tid)
    BY <2>3 DEF OtherRecord
  <2>4. QED
    BY <1>2, <2>1, <2>2, <2>3 DEF ProcessMemref
<1>3. CASE PrintResults
  BY <1>3 DEF PrintResults
<1>4. QED
  BY <1>1, <1>2, <1>3 DEF Next

\* The tool implements TimeDistance, so that what is proved of the histogram, the
\* banks and the sum of squares holds of every run of the tool (lines 456-474).
THEOREM ReuseImplementsTime == Spec => TimeSpec
<1>1. Init => TimeInit
  BY DEF Init
<1>2. QED
  BY <1>1, StepOfGlobals, PTL DEF Spec, TimeSpec

LEMMA GlobalsInvariant == Spec => [](GlobalsInv /\ Window /\ Bracketed)
  BY ReuseImplementsTime, TimeInvariant, PTL

LEMMA ShardsInvariant == Spec => [](GlobalsInv /\ ShardsInv /\ Outcomes)
<1>1. Init => ShardsInv /\ Outcomes
  BY InitShardsInv
<1>2. GlobalsInv /\ ShardsInv /\ Outcomes /\ [Next]_vars => ShardsInv' /\ Outcomes'
  BY NextKeepsShardsInv
<1>3. QED
  BY <1>1, <1>2, GlobalsInvariant, PTL DEF Spec

\* Every variable of the tool has its type; in particular a report has sections
\* of existing shards only.
THEOREM ReuseTypeOK == Spec => []TypeOK
<1>1. ASSUME GlobalsInv, ShardsInv, Outcomes PROVE TypeOK
  <2>1. \A t \in DOMAIN shard_map : /\ shard_map[t].total_refs \in Nat
                                    /\ shard_map[t].ref_list \in Seq(Addr)
                                    /\ shard_map[t].tid \in {t, Unset}
    BY <1>1 DEF ShardsInv, ShardTypes
  <2>2. CASE outcome # Printed
    <3>1. report.sections = <<>>
      BY <1>1, <2>2 DEF Outcomes, NoReport
    <3>2. ToSet(report.sections) = {}
      BY <3>1 DEF ToSet
    <3>3. QED
      BY <1>1, <2>1, <3>2 DEF TypeOK, GlobalsInv, ShardsInv, Outcomes
  <2>3. CASE outcome = Printed
    <3>1. PICK order \in Orders : report.sections = order
      BY <1>1, <2>3 DEF Outcomes, Reported
    <3>2. ToSet(order) \subseteq DOMAIN shard_map
      <4>1. CASE order = <<>>
        BY <4>1 DEF ToSet
      <4>2. CASE order \in Sorted(shard_map)
        <5>1. order \in SetToSeqs(DOMAIN shard_map)
          BY <4>2 DEF Sorted
        <5>2. order \in [1 .. Cardinality(DOMAIN shard_map) -> DOMAIN shard_map]
          BY <5>1 DEF SetToSeqs
        <5>3. QED
          BY <5>2 DEF ToSet
      <4>3. QED
        BY <4>1, <4>2 DEF Orders
    <3>3. QED
      BY <1>1, <2>1, <3>1, <3>2 DEF TypeOK, GlobalsInv, ShardsInv, Outcomes
  <2>4. QED
    BY <2>2, <2>3
<1>2. QED
  BY <1>1, ShardsInvariant, PTL

\* Inside each shard the list, the map and the histogram tell the same story,
\* whatever the threshold and however the records of the threads are mixed
\* (lines 432-454).
THEOREM ReuseShardConsistent == Spec => []ShardConsistent
<1>1. ASSUME ShardsInv PROVE ShardConsistent
  <2>1. ASSUME NEW t \in DOMAIN shard_map, NEW s, s = shard_map[t]
        PROVE  /\ ToSet(s.ref_list) = DOMAIN s.cache_map
               /\ Len(s.ref_list) = Cardinality(DOMAIN s.cache_map)
               /\ s.total_refs = Count(s.dist_map) + Cardinality(DOMAIN s.cache_map)
               /\ s.total_refs = SumFunction(Totals(s))
               /\ SumFunction(Distants(s)) = SumFunction(Far(s))
    <3>1. ShardTypes(s) /\ ShardCounts(s)
      BY <1>1, <2>1 DEF ShardsInv
    <3>2. Len(s.ref_list) = Cardinality(Lines(s))
      BY <3>1, LinesFinite
    <3>3. QED
      BY <3>1, <3>2 DEF ShardTypes, ShardCounts, Count, Lines
  <2>2. QED
    BY <2>1 DEF ShardConsistent, SumOver, Totals, Distants, Far, Lines
<1>2. QED
  BY <1>1, ShardsInvariant, PTL

-----------------------------------------------------------------------------
(* The list of a shard is in order of use.                                 *)

\* The addresses ahead of e in a list.
Before(list, e) ==
    {list[q] : q \in {q \in DOMAIN list : \E p \in DOMAIN list : list[p] = e /\ q < p}}

\* What a new first element is ahead of.
LEMMA BeforePush ==
    ASSUME NEW S, NEW list \in Seq(S), IsInjective(list), NEW tag \in S, tag \notin ToSet(list)
    PROVE  /\ \A x : x \notin Before(<<tag>> \o list, tag)
           /\ \A e \in ToSet(list) : \A x :
                x \in Before(<<tag>> \o list, e) <=> x \in Before(list, e) \/ x = tag
<1>0. PICK r : r = <<tag>> \o list
  OBVIOUS
<1>1. /\ r \in Seq(S) /\ Len(r) = Len(list) + 1 /\ r[1] = tag
      /\ \A j \in 1 .. Len(list) : r[j + 1] = list[j]
  BY <1>0, PushProperties
<1>2. IsInjective(r)
  BY <1>0, PushList
<1>3. DOMAIN list = 1 .. Len(list) /\ Len(list) \in Nat /\ DOMAIN r = 1 .. Len(list) + 1
  BY <1>1, LenProperties
<1>4. \A j \in DOMAIN r : j # 1 => j - 1 \in DOMAIN list /\ r[j] = list[j - 1]
  <2> SUFFICES ASSUME NEW j \in DOMAIN r, j # 1
               PROVE  j - 1 \in DOMAIN list /\ r[j] = list[j - 1]
    OBVIOUS
  <2>1. j - 1 \in 1 .. Len(list) /\ (j - 1) + 1 = j
    BY <1>3
  <2>2. r[(j - 1) + 1] = list[j - 1]
    BY <1>1, <2>1
  <2>3. QED
    BY <1>3, <2>1, <2>2
<1>5. \A j \in DOMAIN list : j + 1 \in DOMAIN r /\ r[j + 1] = list[j]
  BY <1>1, <1>3
<1>6. 1 \in DOMAIN r
  BY <1>3
<1>7. Before(r, tag) = {}
  <2>1. \A p \in DOMAIN r : r[p] = tag => p = 1
    BY <1>1, <1>2, <1>6 DEF IsInjective
  <2>2. \A q \in DOMAIN r : ~(q < 1)
    BY <1>3
  <2>3. QED
    BY <2>1, <2>2 DEF Before
<1>8. ASSUME NEW p \in DOMAIN list, NEW e, e = list[p]
      PROVE  Before(r, e) = Before(list, e) \cup {tag}
  <2>1. p \in Nat /\ p + 1 \in DOMAIN r /\ r[p + 1] = e
    BY <1>3, <1>5, <1>8
  <2>2. \A k \in DOMAIN r : r[k] = e => k = p + 1
    BY <1>2, <2>1 DEF IsInjective
  <2>3. \A k \in DOMAIN list : list[k] = e => k = p
    BY <1>8 DEF IsInjective
  <2>4. Before(r, e) = {r[q] : q \in {q \in DOMAIN r : q < p + 1}}
    BY <2>1, <2>2 DEF Before
  <2>5. Before(list, e) = {list[q] : q \in {q \in DOMAIN list : q < p}}
    BY <1>8, <2>3 DEF Before
  <2>6. ASSUME NEW x \in {r[q] : q \in {q \in DOMAIN r : q < p + 1}}
        PROVE  x \in {list[q] : q \in {q \in DOMAIN list : q < p}} \cup {tag}
    <3>1. PICK q \in DOMAIN r : q < p + 1 /\ x = r[q]
      BY <2>6
    <3>2. CASE q = 1
      BY <1>1, <3>1, <3>2
    <3>3. CASE q # 1
      <4>1. q - 1 \in DOMAIN list /\ x = list[q - 1] /\ q - 1 < p
        BY <1>3, <1>4, <2>1, <3>1, <3>3
      <4>2. QED
        BY <4>1
    <3>4. QED
      BY <3>2, <3>3
  <2>7. ASSUME NEW q \in DOMAIN list, q < p
        PROVE  list[q] \in {r[k] : k \in {k \in DOMAIN r : k < p + 1}}
    <3>1. q + 1 \in DOMAIN r /\ r[q + 1] = list[q] /\ q + 1 < p + 1
      BY <1>3, <1>5, <2>1, <2>7
    <3>2. QED
      BY <3>1
  <2>8. tag \in {r[k] : k \in {k \in DOMAIN r : k < p + 1}}
    <3>1. 1 < p + 1
      BY <1>3
    <3>2. QED
      BY <1>1, <1>6, <3>1
  <2>9. QED
    BY <2>4, <2>5, <2>6, <2>7, <2>8
<1>9. \A e \in ToSet(list) : Before(r, e) = Before(list, e) \cup {tag}
  BY <1>8 DEF ToSet
<1>10. QED
  BY <1>0, <1>7, <1>9

\* Taking an element out.
LEMMA BeforeErase ==
    ASSUME NEW S, NEW list \in Seq(S), IsInjective(list), NEW i \in DOMAIN list
    PROVE  \A e \in ToSet(list) : e # list[i] =>
             \A x : x \in Before(RemoveAt(list, i), e) <=> x \in Before(list, e) /\ x # list[i]
<1>0. PICK r : r = RemoveAt(list, i)
  OBVIOUS
<1>1. /\ r \in Seq(S) /\ Len(r) = Len(list) - 1
      /\ \A j \in 1 .. Len(list) - 1 : r[j] = IF j < i THEN list[j] ELSE list[j + 1]
  BY <1>0, EraseProperties
<1>2. IsInjective(r)
  BY <1>0, EraseList
<1>3. DOMAIN list = 1 .. Len(list) /\ Len(list) \in Nat /\ DOMAIN r = 1 .. Len(list) - 1
  BY <1>1, LenProperties
<1>4. PICK old : old = [j \in DOMAIN r |-> IF j < i THEN j ELSE j + 1]
  OBVIOUS
<1>5. \A j \in DOMAIN r : old[j] \in DOMAIN list \ {i} /\ r[j] = list[old[j]]
  BY <1>1, <1>3, <1>4
<1>6. \A j, k \in DOMAIN r : j < k <=> old[j] < old[k]
  BY <1>3, <1>4
<1>7. \A m \in DOMAIN list \ {i} : \E j \in DOMAIN r : old[j] = m
  <2> SUFFICES ASSUME NEW m \in DOMAIN list \ {i}
               PROVE  \E j \in DOMAIN r : old[j] = m
    OBVIOUS
  <2>1. CASE m < i
    <3>1. m \in DOMAIN r /\ old[m] = m
      BY <1>3, <1>4, <2>1
    <3>2. QED
      BY <3>1
  <2>2. CASE m > i
    <3>1. m - 1 \in DOMAIN r /\ old[m - 1] = m
      BY <1>3, <1>4, <2>2
    <3>2. QED
      BY <3>1
  <2>3. QED
    BY <1>3, <2>1, <2>2
<1> SUFFICES ASSUME NEW e \in ToSet(list), e # list[i]
             PROVE  \A x : x \in Before(r, e) <=> x \in Before(list, e) /\ x # list[i]
  BY <1>0
<1>8. PICK p \in DOMAIN list : list[p] = e
  BY DEF ToSet
<1>9. p # i
  BY <1>8
<1>10. PICK k \in DOMAIN r : old[k] = p
  BY <1>7, <1>8, <1>9
<1>11. r[k] = e
  BY <1>5, <1>8, <1>10
<1>12. Before(r, e) = {r[q] : q \in {q \in DOMAIN r : q < k}}
  <2>1. \A m \in DOMAIN r : r[m] = e => m = k
    BY <1>2, <1>11 DEF IsInjective
  <2>2. QED
    BY <1>11, <2>1 DEF Before
<1>13. Before(list, e) = {list[q] : q \in {q \in DOMAIN list : q < p}}
  <2>1. \A m \in DOMAIN list : list[m] = e => m = p
    BY <1>8 DEF IsInjective
  <2>2. QED
    BY <1>8, <2>1 DEF Before
<1>14. ASSUME NEW q \in DOMAIN r, q < k
       PROVE  r[q] \in Before(list, e) \ {list[i]}
  <2>1. old[q] < p /\ old[q] \in DOMAIN list \ {i} /\ r[q] = list[old[q]]
    BY <1>5, <1>6, <1>10, <1>14
  <2>2. list[old[q]] # list[i]
    BY <2>1 DEF IsInjective
  <2>3. QED
    BY <1>13, <2>1, <2>2
<1>15. ASSUME NEW m \in DOMAIN list, m < p, list[m] # list[i]
       PROVE  list[m] \in Before(r, e)
  <2>1. m # i
    BY <1>15
  <2>2. PICK q \in DOMAIN r : old[q] = m
    BY <1>7, <2>1
  <2>3. q < k
    BY <1>6, <1>10, <1>15, <2>2
  <2>4. r[q] = list[m]
    BY <1>5, <2>2
  <2>5. QED
    BY <1>12, <2>3, <2>4
<1>16. QED
  BY <1>12, <1>13, <1>14, <1>15

\* An element moved to the front is ahead of all others.
LEMMA BeforePromote ==
    ASSUME NEW S, NEW list \in Seq(S), IsInjective(list), NEW i \in DOMAIN list
    PROVE  /\ \A x : x \notin Before(<<list[i]>> \o RemoveAt(list, i), list[i])
           /\ \A e \in ToSet(list) : e # list[i] =>
                \A x : x \in Before(<<list[i]>> \o RemoveAt(list, i), e) <=>
                         x \in Before(list, e) \/ x = list[i]
<1>1. PICK c \in S : c = list[i]
  BY ElementOfSeq, LenProperties
<1>2. PICK m \in Seq(S) : m = RemoveAt(list, i)
  BY EraseList
<1>3. IsInjective(m) /\ ToSet(m) = ToSet(list) \ {c}
  BY <1>1, <1>2, EraseList
<1>4. /\ \A x : x \notin Before(<<c>> \o m, c)
      /\ \A e \in ToSet(m) : \A x : x \in Before(<<c>> \o m, e) <=> x \in Before(m, e) \/ x = c
  <2>1. m \in Seq(S) /\ c \in S /\ IsInjective(m) /\ c \notin ToSet(m)
    BY <1>1, <1>2, <1>3
  <2>2. QED
    BY <2>1, BeforePush
<1>5. PICK new : new = <<c>> \o m
  OBVIOUS
<1>6. \A e \in ToSet(list) : e # c =>
        \A x : x \in Before(m, e) <=> x \in Before(list, e) /\ x # c
  BY <1>1, <1>2, BeforeErase
<1>7. new = <<list[i]>> \o RemoveAt(list, i)
  BY <1>1, <1>2, <1>5
<1>8. \A e \in ToSet(list) : e # c => e \in ToSet(m)
  BY <1>3
<1>9. /\ \A x : x \notin Before(new, c)
      /\ \A e \in ToSet(list) : e # c =>
           \A x : x \in Before(new, e) <=> x \in Before(list, e) \/ x = c
  BY <1>4, <1>5, <1>6, <1>8
<1>10. QED
  BY <1>1, <1>7, <1>9

\* As many addresses are ahead of one as its position says.
LEMMA BeforeSize ==
    ASSUME NEW S, NEW list \in Seq(S), IsInjective(list), NEW p \in DOMAIN list
    PROVE  Cardinality(Before(list, list[p])) = p - 1
<1>1. DOMAIN list = 1 .. Len(list) /\ Len(list) \in Nat
  BY LenProperties
<1>2. PICK n : n = p - 1 /\ n \in 0 .. Len(list) /\ n \in Nat
  BY <1>1
<1>3. PICK B : B = Before(list, list[p])
  OBVIOUS
<1>4. B = {list[q] : q \in 1 .. n}
  <2>1. \A m \in DOMAIN list : list[m] = list[p] => m = p
    BY DEF IsInjective
  <2>2. {q \in DOMAIN list : \E k \in DOMAIN list : list[k] = list[p] /\ q < k} = 1 .. n
    BY <1>1, <1>2, <2>1
  <2>3. QED
    BY <1>3, <2>2 DEF Before
<1>5. PICK f : f = [q \in 1 .. n |-> list[q]]
  OBVIOUS
<1>6. f \in Bijection(1 .. n, B)
  <2>1. f \in [1 .. n -> B]
    BY <1>4, <1>5
  <2>2. \A e \in B : \E q \in 1 .. n : f[q] = e
    BY <1>4, <1>5
  <2>3. \A q, k \in 1 .. n : f[q] = f[k] => q = k
    <3>1. \A q \in 1 .. n : q \in DOMAIN list /\ f[q] = list[q]
      BY <1>1, <1>2, <1>5
    <3>2. QED
      BY <3>1 DEF IsInjective
  <2>4. QED
    BY <2>1, <2>2, <2>3 DEF Bijection, Injection, Surjection, IsInjective
<1>7. ExistsBijection(1 .. n, B)
  BY <1>6, Zenon DEF ExistsBijection
<1>8. IsFiniteSet(1 .. n) /\ Cardinality(1 .. n) = n
  <2>1. 1 \in Int /\ n \in Int
    BY <1>2
  <2>2. IsFiniteSet(1 .. n) /\ Cardinality(1 .. n) = IF 1 > n THEN 0 ELSE n - 1 + 1
    BY <2>1, FS_Interval
  <2>3. QED
    BY <1>2, <2>2
<1>9. Cardinality(B) = n
  BY <1>7, <1>8, FS_Bijection
<1>10. QED
  BY <1>2, <1>3, <1>9

\* What a reference does to the order of the list.
LEMMA TouchOrder ==
    ASSUME NEW s, ShardTypes(s), NEW tag \in Addr
    PROVE  /\ \A x : x \notin Before(Touch(s, tag).ref_list, tag)
           /\ \A e \in Lines(s) : e # tag =>
                \A x : x \in Before(Touch(s, tag).ref_list, e) <=>
                         x \in Before(s.ref_list, e) \/ x = tag
<1>1. PICK list : list = s.ref_list
  OBVIOUS
<1>2. list \in Seq(Addr) /\ IsInjective(list) /\ ToSet(list) = Lines(s)
  BY <1>1 DEF ShardTypes
<1>3. IsShard(s) /\ s.cache_map \in [Lines(s) -> Line]
  BY DEF ShardTypes
<1>4. PICK r : r = Touch(s, tag)
  OBVIOUS
<1>5. CASE tag \in Lines(s)
  <2>1. PICK p \in DOMAIN list : list[p] = tag
    BY <1>2, <1>5 DEF ToSet
  <2>2. PICK dist : dist = Ahead(s.ref_list, tag)
    OBVIOUS
  <2>3. dist + 1 = p
    <3>1. Ahead(list, list[p]) = p - 1
      BY <1>2, <2>1, AheadIs
    <3>2. p \in Int
      BY <1>2, <2>1, LenProperties
    <3>3. QED
      BY <1>1, <2>1, <2>2, <3>1, <3>2
  <2>4. /\ IsShard(r)
        /\ r.total_refs = s.total_refs + 1
        /\ r.ref_list = MoveToFront(s.ref_list, tag)
        /\ r.cache_map \in [Lines(s) -> Line]
        /\ \A a \in Lines(s) : a # tag => r.cache_map[a] = s.cache_map[a]
        /\ r.cache_map[tag].total_refs = s.cache_map[tag].total_refs + 1
        /\ r.cache_map[tag].distant_refs =
             s.cache_map[tag].distant_refs + (IF dist >= Threshold THEN 1 ELSE 0)
        /\ r.dist_map = Increase(s.dist_map, dist, 1)
    BY <1>3, <1>4, <1>5, <2>2, TouchAgainFields
  <2>5. r.ref_list = <<list[p]>> \o RemoveAt(list, p)
    BY <1>1, <2>1, <2>2, <2>3, <2>4 DEF MoveToFront
  <2>6. /\ \A x : x \notin Before(<<list[p]>> \o RemoveAt(list, p), list[p])
        /\ \A e \in ToSet(list) : e # list[p] =>
             \A x : x \in Before(<<list[p]>> \o RemoveAt(list, p), e) <=>
                      x \in Before(list, e) \/ x = list[p]
    <3>1. list \in Seq(Addr) /\ IsInjective(list) /\ p \in DOMAIN list
      BY <1>2, <2>1
    <3>2. QED
      BY <3>1, BeforePromote
  <2>7. QED
    BY <1>1, <1>2, <1>4, <2>1, <2>5, <2>6
<1>6. CASE tag \notin Lines(s)
  <2>1. r.ref_list = <<tag>> \o list
    <3>1. /\ IsShard(r)
          /\ r.total_refs = s.total_refs + 1
          /\ r.ref_list = <<tag>> \o s.ref_list
          /\ r.cache_map = [a \in Lines(s) \cup {tag} |->
                              IF a = tag THEN NewLine ELSE s.cache_map[a]]
          /\ r.dist_map = s.dist_map
          /\ r.tid = s.tid
      <4>1. IsShard(s)
        BY <1>3
      <4>2. QED
        BY <1>4, <1>6, <4>1, FirstTouchFields
    <3>2. QED
      BY <1>1, <3>1
  <2>2. /\ \A x : x \notin Before(<<tag>> \o list, tag)
        /\ \A e \in ToSet(list) : \A x :
             x \in Before(<<tag>> \o list, e) <=> x \in Before(list, e) \/ x = tag
    <3>1. list \in Seq(Addr) /\ IsInjective(list) /\ tag \notin ToSet(list)
      BY <1>2, <1>6
    <3>2. QED
      BY <3>1, BeforePush
  <2>3. QED
    BY <1>1, <1>2, <1>4, <2>1, <2>2
<1>7. QED
  BY <1>5, <1>6

\* The addresses a thread used behind position j.
UsedBehind(t, j) == {trace[k] : k \in {m \in j + 1 .. Len(trace) : by[m] = t}}

\* The list of a shard is in order of use: what is ahead of an address is what
\* its thread used since.
InOrderOfUse ==
    \A t \in DOMAIN shard_map : \A a \in Lines(shard_map[t]) :
        \E j \in DOMAIN trace :
            /\ by[j] = t /\ trace[j] = a
            /\ \A x : x \in Before(shard_map[t].ref_list, a) <=> x \in UsedBehind(t, j)

\* Nothing a thread used is missing in its shard.
AllTouched ==
    \A i \in DOMAIN trace : /\ by[i] \in DOMAIN shard_map
                            /\ trace[i] \in Lines(shard_map[by[i]])

\* What a reference adds to the history.
LEMMA HistoryGrows ==
    ASSUME GlobalsTypeOK, ShardsInv, NEW tid \in Tid, NEW tag \in Addr, NEW s,
           CountedRecord(tid, tag, s), NEW n, n = Len(trace) + 1
    PROVE  /\ n \in Nat \ {0} /\ n - 1 = Len(trace) /\ n = cur_inst_pc + 1
           /\ DOMAIN trace = 1 .. n - 1 /\ DOMAIN trace' = 1 .. n
           /\ Len(trace') = n
           /\ trace'[n] = tag /\ by'[n] = tid
           /\ \A i \in 1 .. n - 1 : trace'[i] = trace[i] /\ by'[i] = by[i]
           /\ trace' = Append(trace, tag) /\ by' = Append(by, tid)
<1>1. trace' = Append(trace, tag) /\ by' = Append(by, tid)
  BY DEF CountedRecord, Reference
<1>2. trace \in Seq(Addr) /\ by \in Seq(Tid) /\ Len(by) = Len(trace) /\ Len(trace) = cur_inst_pc
  BY DEF GlobalsTypeOK, ShardsInv
<1>3. Len(trace) \in Nat /\ DOMAIN trace = 1 .. Len(trace)
  BY <1>2, LenProperties
<1>4. /\ Len(trace') = n /\ DOMAIN trace' = 1 .. n /\ trace'[n] = tag
      /\ \A i \in 1 .. n - 1 : trace'[i] = trace[i]
  BY <1>1, <1>2, <1>3
<1>5. by'[n] = tid /\ \A i \in 1 .. n - 1 : by'[i] = by[i]
  BY <1>1, <1>2, <1>3
<1>6. QED
  BY <1>1, <1>2, <1>3, <1>4, <1>5

\* What it adds to the addresses used.
LEMMA UsedGrows ==
    ASSUME GlobalsTypeOK, ShardsInv, NEW tid \in Tid, NEW tag \in Addr, NEW s,
           CountedRecord(tid, tag, s), NEW j \in DOMAIN trace, NEW t
    PROVE  \A x : x \in UsedBehind(t, j)' <=> x \in UsedBehind(t, j) \/ (t = tid /\ x = tag)
<1>1. PICK n : n = Len(trace) + 1
  OBVIOUS
<1>2. /\ n \in Nat \ {0} /\ n - 1 = Len(trace)
      /\ DOMAIN trace = 1 .. n - 1 /\ Len(trace') = n
      /\ trace'[n] = tag /\ by'[n] = tid
      /\ \A i \in 1 .. n - 1 : trace'[i] = trace[i] /\ by'[i] = by[i]
  BY <1>1, HistoryGrows
<1>3. j \in 1 .. n - 1
  BY <1>2
<1>4. \A k \in j + 1 .. n - 1 : trace'[k] = trace[k] /\ by'[k] = by[k]
  BY <1>2, <1>3
<1>5. j + 1 .. n = (j + 1 .. n - 1) \cup {n}
  BY <1>2, <1>3
<1>6. \A x : x \in UsedBehind(t, j)' <=> \E k \in j + 1 .. n : by'[k] = t /\ trace'[k] = x
  BY <1>2 DEF UsedBehind
<1>7. \A x : x \in UsedBehind(t, j) <=> \E k \in j + 1 .. n - 1 : by[k] = t /\ trace[k] = x
  BY <1>2 DEF UsedBehind
<1>8. QED
  BY <1>2, <1>4, <1>5, <1>6, <1>7

\* A reference keeps the order of use.
LEMMA CountedKeepsOrder ==
    ASSUME GlobalsTypeOK, ShardsInv, InOrderOfUse, NEW tid \in Tid, NEW tag \in Addr, NEW s,
           CountedRecord(tid, tag, s)
    PROVE  InOrderOfUse'
<1>1. PICK n : n = Len(trace) + 1
  OBVIOUS
<1>2. /\ n \in Nat \ {0} /\ n - 1 = Len(trace)
      /\ DOMAIN trace = 1 .. n - 1 /\ DOMAIN trace' = 1 .. n /\ Len(trace') = n
      /\ trace'[n] = tag /\ by'[n] = tid
      /\ \A i \in 1 .. n - 1 : trace'[i] = trace[i] /\ by'[i] = by[i]
  BY <1>1, HistoryGrows
<1>3. /\ DOMAIN shard_map' = DOMAIN shard_map \cup {tid}
      /\ shard_map'[tid] = s
      /\ \A t \in DOMAIN shard_map : t # tid => shard_map'[t] = shard_map[t]
  BY SetShardIs DEF CountedRecord
<1>4. PICK s0 : s0 = Shard(tid)
  OBVIOUS
<1>5. ShardTypes(s0) /\ ShardCounts(s0)
  BY <1>4, ShardIs
<1>6. s = Touch(s0, tag)
  BY <1>4 DEF CountedRecord
<1>7. Lines(s) = Lines(s0) \cup {tag}
  BY <1>5, <1>6, TouchKeepsShard
<1>8. /\ \A x : x \notin Before(s.ref_list, tag)
      /\ \A e \in Lines(s0) : e # tag =>
           \A x : x \in Before(s.ref_list, e) <=> x \in Before(s0.ref_list, e) \/ x = tag
  BY <1>5, <1>6, TouchOrder
<1>9. ASSUME NEW t \in DOMAIN shard_map', NEW a \in Lines(shard_map'[t])
      PROVE  \E j \in DOMAIN trace' :
               /\ by'[j] = t /\ trace'[j] = a
               /\ \A x : x \in Before(shard_map'[t].ref_list, a) <=> x \in UsedBehind(t, j)'
  <2>1. CASE t = tid /\ a = tag
    <3>1. \A x : x \notin UsedBehind(tid, n)'
      BY <1>2 DEF UsedBehind
    <3>2. n \in DOMAIN trace'
      BY <1>2
    <3>3. \A x : x \in Before(shard_map'[t].ref_list, a) <=> x \in UsedBehind(t, n)'
      BY <1>3, <1>8, <2>1, <3>1
    <3>4. QED
      BY <1>2, <2>1, <3>2, <3>3
  <2>2. ASSUME t \in DOMAIN shard_map, a \in Lines(shard_map[t]), NEW list,
               list = shard_map'[t].ref_list,
               \A x : x \in Before(list, a) <=>
                        x \in Before(shard_map[t].ref_list, a) \/ (t = tid /\ x = tag)
        PROVE  \E j \in DOMAIN trace' :
                 /\ by'[j] = t /\ trace'[j] = a
                 /\ \A x : x \in Before(list, a) <=> x \in UsedBehind(t, j)'
    <3>1. PICK j \in DOMAIN trace :
            /\ by[j] = t /\ trace[j] = a
            /\ \A x : x \in Before(shard_map[t].ref_list, a) <=> x \in UsedBehind(t, j)
      BY <2>2 DEF InOrderOfUse
    <3>2. \A x : x \in UsedBehind(t, j)' <=> x \in UsedBehind(t, j) \/ (t = tid /\ x = tag)
      BY UsedGrows
    <3>3. j \in 1 .. n - 1 /\ j \in DOMAIN trace'
      BY <1>2
    <3>4. \A x : x \in Before(list, a) <=> x \in UsedBehind(t, j)'
      BY <2>2, <3>1, <3>2
    <3>5. by'[j] = t /\ trace'[j] = a
      BY <1>2, <3>1, <3>3
    <3>6. QED
      BY <3>3, <3>4, <3>5
  <2>3. CASE t # tid
    <3>1. t \in DOMAIN shard_map /\ shard_map'[t] = shard_map[t]
      BY <1>3, <2>3
    <3>2. QED
      BY <1>9, <2>2, <2>3, <3>1
  <2>4. CASE t = tid /\ a # tag
    <3>1. a \in Lines(s0)
      BY <1>3, <1>7, <1>9, <2>4
    <3>2. tid \in DOMAIN shard_map /\ s0 = shard_map[tid]
      BY <1>4, <3>1, EmptyShardIs DEF Shard
    <3>3. \A x : x \in Before(s.ref_list, a) <=> x \in Before(s0.ref_list, a) \/ x = tag
      BY <1>8, <2>4, <3>1
    <3>4. QED
      BY <1>3, <2>2, <2>4, <3>1, <3>2, <3>3
  <2>5. QED
    BY <2>1, <2>3, <2>4
<1>10. QED
  BY <1>9 DEF InOrderOfUse, Lines, Before, UsedBehind

LEMMA CountedKeepsTouched ==
    ASSUME GlobalsTypeOK, ShardsInv, AllTouched, NEW tid \in Tid, NEW tag \in Addr, NEW s,
           CountedRecord(tid, tag, s)
    PROVE  AllTouched'
<1>1. PICK n : n = Len(trace) + 1
  OBVIOUS
<1>2. /\ n \in Nat \ {0} /\ n - 1 = Len(trace)
      /\ DOMAIN trace = 1 .. n - 1 /\ DOMAIN trace' = 1 .. n /\ Len(trace') = n
      /\ trace'[n] = tag /\ by'[n] = tid
      /\ \A i \in 1 .. n - 1 : trace'[i] = trace[i] /\ by'[i] = by[i]
  BY <1>1, HistoryGrows
<1>3. /\ DOMAIN shard_map' = DOMAIN shard_map \cup {tid}
      /\ shard_map'[tid] = s
      /\ \A t \in DOMAIN shard_map : t # tid => shard_map'[t] = shard_map[t]
  BY SetShardIs DEF CountedRecord
<1>4. PICK s0 : s0 = Shard(tid)
  OBVIOUS
<1>5. ShardTypes(s0) /\ ShardCounts(s0)
  BY <1>4, ShardIs
<1>6. s = Touch(s0, tag)
  BY <1>4 DEF CountedRecord
<1>7. Lines(s) = Lines(s0) \cup {tag}
  BY <1>5, <1>6, TouchKeepsShard
<1>8. tid \in DOMAIN shard_map => s0 = shard_map[tid]
  BY <1>4 DEF Shard
<1>9. ASSUME NEW i \in DOMAIN trace'
      PROVE  by'[i] \in DOMAIN shard_map' /\ trace'[i] \in Lines(shard_map'[by'[i]])
  <2>1. CASE i = n
    BY <1>2, <1>3, <1>7, <2>1
  <2>2. CASE i # n
    <3>1. i \in 1 .. n - 1 /\ trace'[i] = trace[i] /\ by'[i] = by[i]
      BY <1>2, <2>2
    <3>2. by[i] \in DOMAIN shard_map /\ trace[i] \in Lines(shard_map[by[i]])
      BY <1>2, <3>1 DEF AllTouched
    <3>3. CASE by[i] = tid
      BY <1>3, <1>7, <1>8, <3>1, <3>2, <3>3
    <3>4. CASE by[i] # tid
      BY <1>3, <3>1, <3>2, <3>4
    <3>5. QED
      BY <3>3, <3>4
  <2>3. QED
    BY <2>1, <2>2
<1>10. QED
  BY <1>9 DEF AllTouched, Lines

\* The rest leaves it alone.
LEMMA QuietKeepsOrder ==
    ASSUME InOrderOfUse, AllTouched, NEW tid \in Tid, NEW s, QuietRecord(tid, s)
    PROVE  InOrderOfUse' /\ AllTouched'
<1>1. /\ DOMAIN shard_map' = DOMAIN shard_map \cup {tid}
      /\ shard_map'[tid] = s
      /\ \A t \in DOMAIN shard_map : t # tid => shard_map'[t] = shard_map[t]
  BY SetShardIs DEF QuietRecord
<1>2. trace' = trace /\ by' = by
  BY DEF QuietRecord, globals
<1>3. tid \in DOMAIN shard_map => s.ref_list = shard_map[tid].ref_list
                                  /\ Lines(s) = Lines(shard_map[tid])
  BY DEF QuietRecord, Shard, Lines
<1>4. tid \notin DOMAIN shard_map => Lines(s) = {}
  <2>1. tid \notin DOMAIN shard_map => s.cache_map = EmptyShard.cache_map
    BY DEF QuietRecord, Shard
  <2>2. QED
    BY <2>1, EmptyShardIs DEF Lines
<1>5. ASSUME NEW t \in DOMAIN shard_map', NEW a \in Lines(shard_map'[t])
      PROVE  /\ t \in DOMAIN shard_map /\ a \in Lines(shard_map[t])
             /\ shard_map'[t].ref_list = shard_map[t].ref_list
  <2>1. CASE t = tid
    BY <1>1, <1>3, <1>4, <1>5, <2>1
  <2>2. CASE t # tid
    BY <1>1, <1>5, <2>2
  <2>3. QED
    BY <2>1, <2>2
<1>6. InOrderOfUse'
  <2>1. ASSUME NEW t \in DOMAIN shard_map', NEW a \in Lines(shard_map'[t])
        PROVE  \E j \in DOMAIN trace' :
                 /\ by'[j] = t /\ trace'[j] = a
                 /\ \A x : x \in Before(shard_map'[t].ref_list, a) <=> x \in UsedBehind(t, j)'
    <3>1. /\ t \in DOMAIN shard_map /\ a \in Lines(shard_map[t])
          /\ shard_map'[t].ref_list = shard_map[t].ref_list
      BY <1>5, <2>1
    <3>2. PICK j \in DOMAIN trace :
            /\ by[j] = t /\ trace[j] = a
            /\ \A x : x \in Before(shard_map[t].ref_list, a) <=> x \in UsedBehind(t, j)
      BY <3>1 DEF InOrderOfUse
    <3>3. UsedBehind(t, j)' = UsedBehind(t, j)
      BY <1>2 DEF UsedBehind
    <3>4. QED
      BY <1>2, <3>1, <3>2, <3>3
  <2>2. QED
    BY <2>1 DEF InOrderOfUse, Lines, Before, UsedBehind
<1>7. AllTouched'
  <2>1. ASSUME NEW t \in DOMAIN shard_map
        PROVE  t \in DOMAIN shard_map' /\ Lines(shard_map'[t]) = Lines(shard_map[t])
    <3>1. CASE t = tid
      BY <1>1, <1>3, <3>1, <2>1
    <3>2. CASE t # tid
      BY <1>1, <3>2, <2>1
    <3>3. QED
      BY <3>1, <3>2
  <2>2. \A i \in DOMAIN trace : /\ by[i] \in DOMAIN shard_map'
                                /\ trace[i] \in Lines(shard_map'[by[i]])
    BY <2>1 DEF AllTouched
  <2>3. QED
    BY <1>2, <2>2 DEF AllTouched, Lines
<1>8. QED
  BY <1>6, <1>7

-----------------------------------------------------------------------------
(* The histogram of a shard.                                               *)

LEMMA OwnLastUseType ==
    ASSUME NEW i \in Nat \ {0}
    PROVE  OwnLastUse(i) \in 0 .. i - 1
<1>1. PICK S : S = {0} \cup {j \in 1 .. i - 1 : trace[j] = trace[i] /\ by[j] = by[i]}
  OBVIOUS
<1>2. i - 1 \in Nat /\ S \in SUBSET (0 .. i - 1) /\ S # {}
  BY <1>1
<1>3. Max(S) \in S
  BY <1>2, MaxProperties
<1>4. QED
  BY <1>1, <1>2, <1>3 DEF OwnLastUse

\* What happened stays as it was.
LEMMA OwnPastKept ==
    ASSUME GlobalsTypeOK, ShardsInv, NEW tid \in Tid, NEW tag \in Addr, NEW s,
           CountedRecord(tid, tag, s), NEW i \in DOMAIN trace
    PROVE  /\ OwnLastUse(i)' = OwnLastUse(i)
           /\ OwnDistance(i)' = OwnDistance(i)
<1>1. PICK n : n = Len(trace) + 1
  OBVIOUS
<1>2. /\ n \in Nat \ {0} /\ DOMAIN trace = 1 .. n - 1
      /\ \A j \in 1 .. n - 1 : trace'[j] = trace[j] /\ by'[j] = by[j]
  BY <1>1, HistoryGrows
<1>3. i \in 1 .. n - 1 /\ i \in Nat \ {0}
  BY <1>2
<1>4. \A j \in 1 .. i : trace'[j] = trace[j] /\ by'[j] = by[j]
  BY <1>2, <1>3
<1>5. {j \in 1 .. i - 1 : trace'[j] = trace'[i] /\ by'[j] = by'[i]}
        = {j \in 1 .. i - 1 : trace[j] = trace[i] /\ by[j] = by[i]}
  BY <1>3, <1>4
<1>6. OwnLastUse(i)' = OwnLastUse(i)
  BY <1>5 DEF OwnLastUse
<1>7. PICK l : l = OwnLastUse(i) /\ l \in 0 .. i - 1
  BY <1>3, OwnLastUseType
<1>8. {k \in l + 1 .. i - 1 : by'[k] = by'[i]} = {k \in l + 1 .. i - 1 : by[k] = by[i]}
  BY <1>3, <1>4, <1>7
<1>9. {trace'[k] : k \in {k \in l + 1 .. i - 1 : by[k] = by[i]}}
        = {trace[k] : k \in {k \in l + 1 .. i - 1 : by[k] = by[i]}}
  BY <1>3, <1>4, <1>7
<1>10. OwnDistance(i)' = OwnDistance(i)
  BY <1>6, <1>7, <1>8, <1>9 DEF OwnDistance
<1>11. QED
  BY <1>6, <1>10

\* The distance the shard finds is the number of addresses its thread used since.
LEMMA OwnNew ==
    ASSUME GlobalsTypeOK, ShardsInv, InOrderOfUse, AllTouched, NEW tid \in Tid, NEW tag \in Addr,
           NEW s, CountedRecord(tid, tag, s), NEW n, n = Len(trace) + 1
    PROVE  /\ tag \in Lines(Shard(tid)) => /\ OwnLastUse(n)' > 0
                                           /\ OwnDistance(n)' = Ahead(Shard(tid).ref_list, tag)
           /\ tag \notin Lines(Shard(tid)) => OwnLastUse(n)' = 0
<1>2. /\ n \in Nat \ {0} /\ n - 1 = Len(trace)
      /\ DOMAIN trace = 1 .. n - 1 /\ DOMAIN trace' = 1 .. n /\ Len(trace') = n
      /\ trace'[n] = tag /\ by'[n] = tid
      /\ \A i \in 1 .. n - 1 : trace'[i] = trace[i] /\ by'[i] = by[i]
  BY HistoryGrows
<1>3. PICK s0 : s0 = Shard(tid)
  OBVIOUS
<1>4. ShardTypes(s0)
  BY <1>3, ShardIs
<1>5. PICK S : S = {0} \cup {j \in 1 .. n - 1 : trace[j] = tag /\ by[j] = tid}
  OBVIOUS
<1>6. OwnLastUse(n)' = Max(S)
  <2>1. {0} \cup {j \in 1 .. n - 1 : trace'[j] = trace'[n] /\ by'[j] = by'[n]} = S
    BY <1>2, <1>5
  <2>2. QED
    BY <2>1 DEF OwnLastUse
<1>7. S \in SUBSET Int
  BY <1>2, <1>5
<1>8. CASE tag \in Lines(s0)
  <2>1. tid \in DOMAIN shard_map /\ s0 = shard_map[tid]
    BY <1>3, <1>8, EmptyShardIs DEF Shard
  <2>2. PICK list : list = s0.ref_list
    OBVIOUS
  <2>3. list \in Seq(Addr) /\ IsInjective(list) /\ tag \in ToSet(list)
    BY <1>4, <1>8, <2>2 DEF ShardTypes
  <2>4. PICK j \in 1 .. n - 1 :
          /\ by[j] = tid /\ trace[j] = tag
          /\ \A x : x \in Before(list, tag) <=> x \in UsedBehind(tid, j)
    <3>1. PICK j \in DOMAIN trace :
            /\ by[j] = tid /\ trace[j] = tag
            /\ \A x : x \in Before(shard_map[tid].ref_list, tag) <=> x \in UsedBehind(tid, j)
      BY <1>8, <2>1 DEF InOrderOfUse
    <3>2. j \in 1 .. n - 1
      BY <1>2
    <3>3. \A x : x \in Before(list, tag) <=> x \in UsedBehind(tid, j)
      BY <2>1, <2>2, <3>1
    <3>4. QED
      BY <3>1, <3>2, <3>3
  <2>5. PICK p \in DOMAIN list : list[p] = tag
    BY <2>3 DEF ToSet
  <2>6. tag \notin Before(list, tag)
    <3>1. \A q \in DOMAIN list : list[q] = tag => q = p
      BY <2>3, <2>5 DEF IsInjective
    <3>2. ~(p < p)
      BY <2>3, <2>5, LenProperties
    <3>3. QED
      BY <3>1, <3>2 DEF Before
  <2>7. UsedBehind(tid, j) = {trace[k] : k \in {k \in j + 1 .. n - 1 : by[k] = tid}}
    BY <1>2 DEF UsedBehind
  <2>8. \A k \in S : k <= j
    <3>1. ASSUME NEW k \in S, ~(k <= j)
          PROVE  FALSE
      <4>1. k \in j + 1 .. n - 1 /\ trace[k] = tag /\ by[k] = tid
        BY <1>2, <1>5, <2>4, <3>1
      <4>2. tag \in UsedBehind(tid, j)
        BY <2>7, <4>1
      <4>3. QED
        BY <2>4, <2>6, <4>2
    <3>2. QED
      BY <3>1
  <2>9. Max(S) = j
    <3>1. j \in S
      BY <1>5, <2>4
    <3>2. QED
      BY <1>7, <2>8, <3>1, MaxIs
  <2>10. OwnLastUse(n)' = j /\ j > 0
    BY <1>2, <1>6, <2>4, <2>9
  <2>11. OwnDistance(n)' = Cardinality(UsedBehind(tid, j))
    <3>1. \A k \in j + 1 .. n - 1 : trace'[k] = trace[k] /\ by'[k] = by[k]
      BY <1>2, <2>4
    <3>2. {k \in j + 1 .. n - 1 : by'[k] = by'[n]} = {k \in j + 1 .. n - 1 : by[k] = tid}
      BY <1>2, <3>1
    <3>3. {trace'[k] : k \in {k \in j + 1 .. n - 1 : by[k] = tid}} = UsedBehind(tid, j)
      BY <2>7, <3>1
    <3>4. QED
      BY <2>10, <3>2, <3>3 DEF OwnDistance
  <2>12. Cardinality(UsedBehind(tid, j)) = Ahead(list, tag)
    <3>1. Before(list, tag) = UsedBehind(tid, j)
      BY <2>4
    <3>2. Cardinality(Before(list, list[p])) = p - 1
      BY <2>3, BeforeSize
    <3>3. Ahead(list, list[p]) = p - 1
      BY <2>3, AheadIs
    <3>4. QED
      BY <2>5, <3>1, <3>2, <3>3
  <2>13. QED
    BY <1>3, <1>8, <2>2, <2>10, <2>11, <2>12
<1>9. CASE tag \notin Lines(s0)
  <2>1. ASSUME NEW j \in 1 .. n - 1, trace[j] = tag, by[j] = tid
        PROVE  FALSE
    <3>1. tid \in DOMAIN shard_map /\ tag \in Lines(shard_map[tid])
      BY <1>2, <2>1 DEF AllTouched
    <3>2. s0 = shard_map[tid]
      BY <1>3, <3>1 DEF Shard
    <3>3. QED
      BY <1>9, <3>1, <3>2
  <2>2. S = {0}
    BY <1>5, <2>1
  <2>3. Max(S) = 0
    BY <1>7, <2>2, MaxIs
  <2>4. QED
    BY <1>3, <1>6, <1>9, <2>3
<1>10. QED
  BY <1>3, <1>8, <1>9

\* The entry of a histogram, 0 where there is none.
Entry(f, d) == IF d \in DOMAIN f THEN f[d] ELSE 0

\* Each entry is the number of reuses at its distance.
HistogramExact ==
    \A t \in DOMAIN shard_map : \A d \in Nat :
        Cardinality(ReusesAt(t, d)) = Entry(shard_map[t].dist_map, d)

LEMMA ReusesGrow ==
    ASSUME GlobalsTypeOK, ShardsInv, InOrderOfUse, AllTouched, NEW tid \in Tid, NEW tag \in Addr,
           NEW s, CountedRecord(tid, tag, s), NEW t, NEW d
    PROVE  LET hit == /\ t = tid /\ tag \in Lines(Shard(tid))
                      /\ Ahead(Shard(tid).ref_list, tag) = d
           IN  Cardinality(ReusesAt(t, d)') =
                 Cardinality(ReusesAt(t, d)) + (IF hit THEN 1 ELSE 0)
<1>1. PICK n : n = Len(trace) + 1
  OBVIOUS
<1>2. /\ n \in Nat \ {0} /\ DOMAIN trace = 1 .. n - 1 /\ DOMAIN trace' = 1 .. n
      /\ by'[n] = tid
      /\ \A i \in 1 .. n - 1 : by'[i] = by[i]
  BY <1>1, HistoryGrows
<1>3. PICK hit \in BOOLEAN : hit <=> /\ t = tid /\ tag \in Lines(Shard(tid))
                                     /\ Ahead(Shard(tid).ref_list, tag) = d
  OBVIOUS
<1>4. PICK R : R = ReusesAt(t, d)
  OBVIOUS
<1>5. PICK R2 : R2 = ReusesAt(t, d)'
  OBVIOUS
<1>6. R = {i \in 1 .. n - 1 : by[i] = t /\ OwnLastUse(i) > 0 /\ OwnDistance(i) = d}
  BY <1>2, <1>4 DEF ReusesAt
<1>7. R2 = {i \in 1 .. n : by'[i] = t /\ OwnLastUse(i)' > 0 /\ OwnDistance(i)' = d}
  BY <1>2, <1>5 DEF ReusesAt
<1>8. \A i \in 1 .. n - 1 : OwnLastUse(i)' = OwnLastUse(i) /\ OwnDistance(i)' = OwnDistance(i)
  BY <1>2, OwnPastKept
<1>9. /\ tag \in Lines(Shard(tid)) => /\ OwnLastUse(n)' > 0
                                      /\ OwnDistance(n)' = Ahead(Shard(tid).ref_list, tag)
      /\ tag \notin Lines(Shard(tid)) => OwnLastUse(n)' = 0
  BY <1>1, OwnNew
<1>10. PICK reused : reused = [i \in 1 .. n |-> OwnLastUse(i)' > 0 /\ OwnDistance(i)' = d]
  OBVIOUS
<1>11. /\ n \in 1 .. n /\ n \notin 1 .. n - 1 /\ 1 .. n = (1 .. n - 1) \cup {n}
       /\ \A i \in 1 .. n - 1 : i \in 1 .. n
  BY <1>2
<1>12. R2 = {i \in 1 .. n : by'[i] = t /\ reused[i]}
  BY <1>7, <1>10
<1>13. R = {i \in 1 .. n - 1 : by'[i] = t /\ reused[i]}
  BY <1>2, <1>6, <1>8, <1>10, <1>11
<1>14. by'[n] = t /\ reused[n] <=> hit
  <2>1. reused[n] <=> OwnLastUse(n)' > 0 /\ OwnDistance(n)' = d
    BY <1>10, <1>11
  <2>2. ~(0 > 0)
    OBVIOUS
  <2>3. QED
    BY <1>2, <1>3, <1>9, <2>1, <2>2
<1>15. n \notin R /\ R2 = IF hit THEN R \cup {n} ELSE R
  BY <1>11, <1>12, <1>13, <1>14
<1>16. IsFiniteSet(R)
  <2>1. 1 \in Int /\ n - 1 \in Int
    BY <1>2
  <2>2. IsFiniteSet(1 .. n - 1)
    BY <2>1, FS_Interval
  <2>3. QED
    BY <1>13, <2>2, FS_Subset
<1>17. Cardinality(R) \in Nat
  BY <1>16, FS_CardinalityType
<1>18. Cardinality(R2) = Cardinality(R) + (IF hit THEN 1 ELSE 0)
  BY <1>15, <1>16, <1>17, FS_AddElement
<1>19. QED
  BY <1>3, <1>4, <1>5, <1>18

\* A thread nothing is kept for has used nothing.
LEMMA NothingReused ==
    ASSUME AllTouched, NEW t, t \notin DOMAIN shard_map, NEW d
    PROVE  Cardinality(ReusesAt(t, d)) = 0
<1>1. ReusesAt(t, d) = {}
  BY DEF ReusesAt, AllTouched
<1>2. QED
  BY <1>1, FS_EmptySet

LEMMA CountedKeepsHistogram ==
    ASSUME GlobalsTypeOK, ShardsInv, InOrderOfUse, AllTouched, HistogramExact,
           NEW tid \in Tid, NEW tag \in Addr, NEW s, CountedRecord(tid, tag, s)
    PROVE  HistogramExact'
<1>1. /\ DOMAIN shard_map' = DOMAIN shard_map \cup {tid}
      /\ shard_map'[tid] = s
      /\ \A t \in DOMAIN shard_map : t # tid => shard_map'[t] = shard_map[t]
  BY SetShardIs DEF CountedRecord
<1>2. PICK s0 : s0 = Shard(tid)
  OBVIOUS
<1>3. ShardTypes(s0) /\ s = Touch(s0, tag)
  BY <1>2, ShardIs DEF CountedRecord
<1>4. \A d \in Nat : Cardinality(ReusesAt(tid, d)) = Entry(s0.dist_map, d)
  <2>1. CASE tid \in DOMAIN shard_map
    BY <1>2, <2>1 DEF Shard, HistogramExact
  <2>2. CASE tid \notin DOMAIN shard_map
    <3>1. s0.dist_map = <<>>
      BY <1>2, <2>2, EmptyShardIs DEF Shard
    <3>2. \A d \in Nat : Entry(s0.dist_map, d) = 0
      BY <3>1 DEF Entry
    <3>3. QED
      BY <2>2, <3>2, NothingReused
  <2>3. QED
    BY <2>1, <2>2
<1>5. ASSUME NEW d \in Nat
      PROVE  Entry(s.dist_map, d) =
               Entry(s0.dist_map, d)
                 + (IF tag \in Lines(s0) /\ Ahead(s0.ref_list, tag) = d THEN 1 ELSE 0)
  <2>0. Entry(s0.dist_map, d) \in Nat
    BY <1>3 DEF ShardTypes, Entry
  <2>1. IsShard(s0) /\ s0.cache_map \in [Lines(s0) -> Line]
    BY <1>3 DEF ShardTypes
  <2>2. CASE tag \in Lines(s0)
    <3>1. PICK dist : dist = Ahead(s0.ref_list, tag)
      OBVIOUS
    <3>2. /\ IsShard(s)
          /\ s.total_refs = s0.total_refs + 1
          /\ s.ref_list = MoveToFront(s0.ref_list, tag)
          /\ s.cache_map \in [Lines(s0) -> Line]
          /\ \A a \in Lines(s0) : a # tag => s.cache_map[a] = s0.cache_map[a]
          /\ s.cache_map[tag].total_refs = s0.cache_map[tag].total_refs + 1
          /\ s.cache_map[tag].distant_refs =
               s0.cache_map[tag].distant_refs + (IF dist >= Threshold THEN 1 ELSE 0)
          /\ s.dist_map = Increase(s0.dist_map, dist, 1)
      BY <1>3, <2>1, <2>2, <3>1, TouchAgainFields
    <3>3. Entry(s.dist_map, d) = Entry(s0.dist_map, d) + (IF dist = d THEN 1 ELSE 0)
      BY <2>0, <3>2 DEF Increase, Entry
    <3>4. QED
      BY <2>2, <3>1, <3>3
  <2>3. CASE tag \notin Lines(s0)
    <3>1. /\ IsShard(s)
          /\ s.total_refs = s0.total_refs + 1
          /\ s.ref_list = <<tag>> \o s0.ref_list
          /\ s.cache_map = [a \in Lines(s0) \cup {tag} |->
                              IF a = tag THEN NewLine ELSE s0.cache_map[a]]
          /\ s.dist_map = s0.dist_map
          /\ s.tid = s0.tid
      <4>1. IsShard(s0)
        BY <2>1
      <4>2. QED
        BY <1>3, <2>3, <4>1, FirstTouchFields
    <3>2. QED
      BY <2>0, <2>3, <3>1
  <2>4. QED
    BY <2>2, <2>3
<1>6. ASSUME NEW t \in DOMAIN shard_map', NEW d \in Nat
      PROVE  Cardinality(ReusesAt(t, d)') = Entry(shard_map'[t].dist_map, d)
  <2>1. Cardinality(ReusesAt(t, d)') =
          Cardinality(ReusesAt(t, d))
            + (IF t = tid /\ tag \in Lines(s0) /\ Ahead(s0.ref_list, tag) = d THEN 1 ELSE 0)
    BY <1>2, ReusesGrow
  <2>2. CASE t = tid
    BY <1>1, <1>4, <1>5, <2>1, <2>2
  <2>3. CASE t # tid
    <3>1. t \in DOMAIN shard_map /\ shard_map'[t] = shard_map[t]
      BY <1>1, <2>3
    <3>2. Cardinality(ReusesAt(t, d)) = Entry(shard_map[t].dist_map, d)
      BY <3>1 DEF HistogramExact
    <3>3. Entry(shard_map[t].dist_map, d) \in Nat
      BY <3>1 DEF ShardsInv, ShardTypes, Entry
    <3>4. QED
      BY <2>1, <2>3, <3>1, <3>2, <3>3
  <2>4. QED
    BY <2>2, <2>3
<1>7. QED
  BY <1>6 DEF HistogramExact, Entry

LEMMA QuietKeepsHistogram ==
    ASSUME AllTouched, HistogramExact, NEW tid \in Tid, NEW s, QuietRecord(tid, s)
    PROVE  HistogramExact'
<1>1. /\ DOMAIN shard_map' = DOMAIN shard_map \cup {tid}
      /\ shard_map'[tid] = s
      /\ \A t \in DOMAIN shard_map : t # tid => shard_map'[t] = shard_map[t]
  BY SetShardIs DEF QuietRecord
<1>2. trace' = trace /\ by' = by
  BY DEF QuietRecord, globals
<1>3. \A t, d : ReusesAt(t, d)' = ReusesAt(t, d)
  BY <1>2 DEF ReusesAt, OwnLastUse, OwnDistance
<1>4. ASSUME NEW t \in DOMAIN shard_map', NEW d \in Nat
      PROVE  Cardinality(ReusesAt(t, d)) = Entry(shard_map'[t].dist_map, d)
  <2>1. CASE t \in DOMAIN shard_map
    <3>1. shard_map'[t].dist_map = shard_map[t].dist_map
      BY <1>1, <2>1 DEF QuietRecord, Shard
    <3>2. QED
      BY <2>1, <3>1 DEF HistogramExact
  <2>2. CASE t \notin DOMAIN shard_map
    <3>1. t = tid /\ shard_map'[t].dist_map = <<>>
      BY <1>1, <2>2, EmptyShardIs DEF QuietRecord, Shard
    <3>2. Entry(<<>>, d) = 0
      BY DEF Entry
    <3>3. QED
      BY <2>2, <3>1, <3>2, NothingReused
  <2>3. QED
    BY <2>1, <2>2
<1>5. QED
  BY <1>3, <1>4 DEF HistogramExact, Entry

\* The references of the shards.
References(shards) == [t \in DOMAIN shards |-> shards[t].total_refs]

\* Each reference is in one shard.
Summed == SumFunction(References(shard_map)) = cur_inst_pc

LEMMA CountedKeepsSum ==
    ASSUME GlobalsTypeOK, ShardsInv, Summed, NEW tid \in Tid, NEW tag \in Addr, NEW s,
           CountedRecord(tid, tag, s)
    PROVE  Summed'
<1>1. PICK D : D = DOMAIN shard_map
  OBVIOUS
<1>2. /\ DOMAIN shard_map' = D \cup {tid}
      /\ shard_map'[tid] = s
      /\ \A t \in D : t # tid => shard_map'[t] = shard_map[t]
  BY <1>1, SetShardIs DEF CountedRecord
<1>3. PICK s0 : s0 = Shard(tid)
  OBVIOUS
<1>4. ShardTypes(s0) /\ ShardCounts(s0) /\ s = Touch(s0, tag)
  BY <1>3, ShardIs DEF CountedRecord
<1>5. s.total_refs = s0.total_refs + 1
  BY <1>4, TouchKeepsShard
<1>6. \A t \in D : shard_map[t].total_refs \in Nat
  BY <1>1 DEF ShardsInv, ShardTypes
<1>7. s0.total_refs = IF tid \in D THEN shard_map[tid].total_refs ELSE 0
  BY <1>1, <1>3, EmptyShardIs DEF Shard
<1>8. PICK F : F = References(shard_map)
  OBVIOUS
<1>9. PICK G : G = References(shard_map')
  OBVIOUS
<1>10. F = [t \in D |-> shard_map[t].total_refs]
  BY <1>1, <1>8 DEF References
<1>11. G = [t \in D \cup {tid} |-> shard_map'[t].total_refs]
  BY <1>2, <1>9 DEF References
<1>12. PICK one \in Nat : one = 1
  OBVIOUS
<1>13. \A t \in D : t # tid => G[t] = F[t]
  BY <1>2, <1>10, <1>11
<1>14. G[tid] = s0.total_refs + 1
  BY <1>2, <1>5, <1>11
<1>15. (tid \in D => G[tid] = F[tid] + one) /\ (tid \notin D => G[tid] = one)
  BY <1>6, <1>7, <1>10, <1>12, <1>14
<1>16. F \in [D -> Nat] /\ G \in [D \cup {tid} -> Nat]
  <2>1. \A t \in D : F[t] \in Nat
    BY <1>6, <1>10
  <2>2. \A t \in D \cup {tid} : G[t] \in Nat
    BY <1>12, <1>13, <1>15, <2>1
  <2>3. QED
    BY <1>10, <1>11, <2>1, <2>2
<1>17. IsFiniteSet(D) /\ one \in Nat
  BY <1>1, <1>12 DEF ShardsInv
<1>18. SumFunction(F) \in Nat /\ SumFunction(G) = SumFunction(F) + one
  BY <1>13, <1>15, <1>16, <1>17, FunctionGrows
<1>19. cur_inst_pc' = cur_inst_pc + 1
  BY DEF CountedRecord, Reference
<1>20. SumFunction(References(shard_map)') = cur_inst_pc'
  BY <1>8, <1>9, <1>12, <1>18, <1>19 DEF Summed, References
<1>21. QED
  BY <1>20 DEF Summed

LEMMA QuietKeepsSum ==
    ASSUME ShardsInv, Summed, NEW tid \in Tid, NEW s, QuietRecord(tid, s)
    PROVE  Summed'
<1>1. PICK D : D = DOMAIN shard_map
  OBVIOUS
<1>2. /\ DOMAIN shard_map' = D \cup {tid}
      /\ shard_map'[tid] = s
      /\ \A t \in D : t # tid => shard_map'[t] = shard_map[t]
  BY <1>1, SetShardIs DEF QuietRecord
<1>3. s.total_refs = IF tid \in D THEN shard_map[tid].total_refs ELSE 0
  BY <1>1, EmptyShardIs DEF QuietRecord, Shard
<1>4. \A t \in D : shard_map[t].total_refs \in Nat
  BY <1>1 DEF ShardsInv, ShardTypes
<1>5. PICK F : F = References(shard_map)
  OBVIOUS
<1>6. PICK G : G = References(shard_map')
  OBVIOUS
<1>7. F = [t \in D |-> shard_map[t].total_refs]
  BY <1>1, <1>5 DEF References
<1>8. G = [t \in D \cup {tid} |-> shard_map'[t].total_refs]
  BY <1>2, <1>6 DEF References
<1>9. PICK zero \in Nat : zero = 0
  OBVIOUS
<1>10. \A t \in D : t # tid => G[t] = F[t]
  BY <1>2, <1>7, <1>8
<1>11. (tid \in D => G[tid] = F[tid] + zero) /\ (tid \notin D => G[tid] = zero)
  BY <1>2, <1>3, <1>4, <1>7, <1>8, <1>9
<1>12. F \in [D -> Nat] /\ G \in [D \cup {tid} -> Nat]
  <2>1. \A t \in D : F[t] \in Nat
    BY <1>4, <1>7
  <2>2. \A t \in D \cup {tid} : G[t] \in Nat
    BY <1>9, <1>10, <1>11, <2>1
  <2>3. QED
    BY <1>7, <1>8, <2>1, <2>2
<1>13. IsFiniteSet(D) /\ zero \in Nat
  BY <1>1, <1>9 DEF ShardsInv
<1>14. SumFunction(F) \in Nat /\ SumFunction(G) = SumFunction(F) + zero
  BY <1>10, <1>11, <1>12, <1>13, FunctionGrows
<1>15. cur_inst_pc' = cur_inst_pc
  BY DEF QuietRecord, globals
<1>16. SumFunction(References(shard_map)') = cur_inst_pc'
  BY <1>5, <1>6, <1>9, <1>14, <1>15 DEF Summed, References
<1>17. QED
  BY <1>16 DEF Summed

\* The references of a thread to an address.
UsesBy(t, a) == {i \in DOMAIN trace : by[i] = t /\ trace[i] = a}

\* What a shard says of it.
Uses(s, a) == IF a \in Lines(s) THEN s.cache_map[a].total_refs ELSE 0

\* Each line has the references of its thread to its address.
LinesExact ==
    \A t \in DOMAIN shard_map : \A a \in Lines(shard_map[t]) :
        Cardinality(UsesBy(t, a)) = shard_map[t].cache_map[a].total_refs

LEMMA UsesGrow ==
    ASSUME GlobalsTypeOK, ShardsInv, NEW tid \in Tid, NEW tag \in Addr, NEW s,
           CountedRecord(tid, tag, s), NEW t, NEW a
    PROVE  Cardinality(UsesBy(t, a)') =
             Cardinality(UsesBy(t, a)) + (IF t = tid /\ a = tag THEN 1 ELSE 0)
<1>1. PICK n : n = Len(trace) + 1
  OBVIOUS
<1>2. /\ n \in Nat \ {0} /\ DOMAIN trace = 1 .. n - 1 /\ DOMAIN trace' = 1 .. n
      /\ trace'[n] = tag /\ by'[n] = tid
      /\ \A i \in 1 .. n - 1 : trace'[i] = trace[i] /\ by'[i] = by[i]
  BY <1>1, HistoryGrows
<1>3. n \notin 1 .. n - 1 /\ 1 .. n = (1 .. n - 1) \cup {n}
  BY <1>2
<1>4. PICK R, R2 : R = UsesBy(t, a) /\ R2 = UsesBy(t, a)'
  OBVIOUS
<1>5. R = {i \in 1 .. n - 1 : by'[i] = t /\ trace'[i] = a}
  BY <1>2, <1>4 DEF UsesBy
<1>6. R2 = {i \in 1 .. n : by'[i] = t /\ trace'[i] = a}
  BY <1>2, <1>4 DEF UsesBy
<1>7. n \notin R /\ R2 = IF t = tid /\ a = tag THEN R \cup {n} ELSE R
  BY <1>2, <1>3, <1>5, <1>6
<1>8. IsFiniteSet(R)
  <2>1. 1 \in Int /\ n - 1 \in Int
    BY <1>2
  <2>2. IsFiniteSet(1 .. n - 1)
    BY <2>1, FS_Interval
  <2>3. QED
    BY <1>5, <2>2, FS_Subset
<1>9. Cardinality(R) \in Nat
  BY <1>8, FS_CardinalityType
<1>10. Cardinality(R \cup {n}) = Cardinality(R) + 1
  BY <1>7, <1>8, FS_AddElement
<1>11. QED
  BY <1>4, <1>7, <1>9, <1>10

\* An address a thread has no line for was not used by it.
LEMMA NothingUsed ==
    ASSUME AllTouched, NEW t, NEW a, t \in DOMAIN shard_map => a \notin Lines(shard_map[t])
    PROVE  Cardinality(UsesBy(t, a)) = 0
<1>1. UsesBy(t, a) = {}
  BY DEF UsesBy, AllTouched
<1>2. QED
  BY <1>1, FS_EmptySet

LEMMA CountedKeepsLines ==
    ASSUME GlobalsTypeOK, ShardsInv, AllTouched, LinesExact,
           NEW tid \in Tid, NEW tag \in Addr, NEW s, CountedRecord(tid, tag, s)
    PROVE  LinesExact'
<1>1. /\ DOMAIN shard_map' = DOMAIN shard_map \cup {tid}
      /\ shard_map'[tid] = s
      /\ \A t \in DOMAIN shard_map : t # tid => shard_map'[t] = shard_map[t]
  BY SetShardIs DEF CountedRecord
<1>2. PICK s0 : s0 = Shard(tid)
  OBVIOUS
<1>3. ShardTypes(s0) /\ s = Touch(s0, tag) /\ ShardCounts(s0)
  BY <1>2, ShardIs DEF CountedRecord
<1>4. Lines(s) = Lines(s0) \cup {tag}
  BY <1>3, TouchKeepsShard
<1>5. \A a : Cardinality(UsesBy(tid, a)) = Uses(s0, a)
  <2> SUFFICES ASSUME NEW a PROVE Cardinality(UsesBy(tid, a)) = Uses(s0, a)
    OBVIOUS
  <2>1. CASE a \in Lines(s0)
    <3>1. tid \in DOMAIN shard_map /\ s0 = shard_map[tid]
      BY <1>2, <2>1, EmptyShardIs DEF Shard
    <3>2. QED
      BY <2>1, <3>1 DEF LinesExact, Uses
  <2>2. CASE a \notin Lines(s0)
    <3>1. tid \in DOMAIN shard_map => a \notin Lines(shard_map[tid])
      BY <1>2, <2>2 DEF Shard
    <3>2. QED
      BY <2>2, <3>1, NothingUsed DEF Uses
  <2>3. QED
    BY <2>1, <2>2
<1>6. \A a \in Lines(s0) : s0.cache_map[a].total_refs \in Nat
  BY <1>3, LinesFinite
<1>7. ASSUME NEW a \in Lines(s)
      PROVE  s.cache_map[a].total_refs = Uses(s0, a) + (IF a = tag THEN 1 ELSE 0)
  <2>1. IsShard(s0) /\ s0.cache_map \in [Lines(s0) -> Line]
    BY <1>3 DEF ShardTypes
  <2>2. CASE tag \in Lines(s0)
    <3>1. PICK dist : dist = Ahead(s0.ref_list, tag)
      OBVIOUS
    <3>2. /\ IsShard(s)
          /\ s.total_refs = s0.total_refs + 1
          /\ s.ref_list = MoveToFront(s0.ref_list, tag)
          /\ s.cache_map \in [Lines(s0) -> Line]
          /\ \A b \in Lines(s0) : b # tag => s.cache_map[b] = s0.cache_map[b]
          /\ s.cache_map[tag].total_refs = s0.cache_map[tag].total_refs + 1
          /\ s.cache_map[tag].distant_refs =
               s0.cache_map[tag].distant_refs + (IF dist >= Threshold THEN 1 ELSE 0)
          /\ s.dist_map = Increase(s0.dist_map, dist, 1)
      BY <1>3, <2>1, <2>2, <3>1, TouchAgainFields
    <3>3. a \in Lines(s0)
      BY <1>4, <1>7, <2>2
    <3>4. QED
      BY <1>6, <2>2, <3>2, <3>3 DEF Uses
  <2>3. CASE tag \notin Lines(s0)
    <3>1. /\ IsShard(s)
          /\ s.total_refs = s0.total_refs + 1
          /\ s.ref_list = <<tag>> \o s0.ref_list
          /\ s.cache_map = [b \in Lines(s0) \cup {tag} |->
                              IF b = tag THEN NewLine ELSE s0.cache_map[b]]
          /\ s.dist_map = s0.dist_map
          /\ s.tid = s0.tid
      <4>1. IsShard(s0)
        BY <2>1
      <4>2. QED
        BY <1>3, <2>3, <4>1, FirstTouchFields
    <3>2. CASE a = tag
      <4>1. s.cache_map[a] = NewLine
        BY <3>1, <3>2
      <4>2. QED
        BY <2>3, <3>2, <4>1 DEF Uses, NewLine
    <3>3. CASE a # tag
      <4>1. a \in Lines(s0)
        BY <1>4, <1>7, <3>3
      <4>2. s.cache_map[a] = s0.cache_map[a]
        BY <3>1, <3>3, <4>1
      <4>3. QED
        BY <1>6, <3>3, <4>1, <4>2 DEF Uses
    <3>4. QED
      BY <3>2, <3>3
  <2>4. QED
    BY <2>2, <2>3
<1>8. ASSUME NEW t \in DOMAIN shard_map', NEW a \in Lines(shard_map'[t])
      PROVE  Cardinality(UsesBy(t, a)') = shard_map'[t].cache_map[a].total_refs
  <2>1. Cardinality(UsesBy(t, a)') =
          Cardinality(UsesBy(t, a)) + (IF t = tid /\ a = tag THEN 1 ELSE 0)
    BY UsesGrow
  <2>2. CASE t = tid
    <3>1. a \in Lines(s)
      BY <1>1, <1>8, <2>2
    <3>2. QED
      BY <1>1, <1>5, <1>7, <2>1, <2>2, <3>1
  <2>3. CASE t # tid
    <3>1. t \in DOMAIN shard_map /\ shard_map'[t] = shard_map[t] /\ a \in Lines(shard_map[t])
      BY <1>1, <1>8, <2>3
    <3>2. Cardinality(UsesBy(t, a)) = shard_map[t].cache_map[a].total_refs
      BY <3>1 DEF LinesExact
    <3>3. shard_map[t].cache_map[a].total_refs \in Nat
      <4>1. ShardTypes(shard_map[t])
        BY <3>1 DEF ShardsInv
      <4>2. QED
        BY <3>1, <4>1, LinesFinite
    <3>4. QED
      BY <2>1, <2>3, <3>1, <3>2, <3>3
  <2>4. QED
    BY <2>2, <2>3
<1>9. QED
  BY <1>8 DEF LinesExact, Lines

LEMMA QuietKeepsLines ==
    ASSUME LinesExact, NEW tid \in Tid, NEW s, QuietRecord(tid, s)
    PROVE  LinesExact'
<1>1. /\ DOMAIN shard_map' = DOMAIN shard_map \cup {tid}
      /\ shard_map'[tid] = s
      /\ \A t \in DOMAIN shard_map : t # tid => shard_map'[t] = shard_map[t]
  BY SetShardIs DEF QuietRecord
<1>2. trace' = trace /\ by' = by
  BY DEF QuietRecord, globals
<1>3. \A t, a : UsesBy(t, a)' = UsesBy(t, a)
  BY <1>2 DEF UsesBy
<1>4. s.cache_map = Shard(tid).cache_map
  BY DEF QuietRecord
<1>5. ASSUME NEW t \in DOMAIN shard_map', NEW a \in Lines(shard_map'[t])
      PROVE  Cardinality(UsesBy(t, a)) = shard_map'[t].cache_map[a].total_refs
  <2>1. t \in DOMAIN shard_map /\ shard_map'[t].cache_map = shard_map[t].cache_map
    <3>1. CASE t # tid
      BY <1>1, <3>1
    <3>2. CASE t = tid /\ tid \in DOMAIN shard_map
      BY <1>1, <1>4, <3>2 DEF Shard
    <3>3. CASE t = tid /\ tid \notin DOMAIN shard_map
      <4>1. shard_map'[t].cache_map = EmptyShard.cache_map
        BY <1>1, <1>4, <3>3 DEF Shard
      <4>2. QED
        BY <1>5, <4>1, EmptyShardIs DEF Lines
    <3>4. QED
      BY <3>1, <3>2, <3>3
  <2>2. a \in Lines(shard_map[t])
    BY <1>5, <2>1 DEF Lines
  <2>3. QED
    BY <2>1, <2>2 DEF LinesExact
<1>6. QED
  BY <1>3, <1>5 DEF LinesExact, Lines

-----------------------------------------------------------------------------
(* The shards and the history of the trace.                                *)

History == InOrderOfUse /\ AllTouched /\ HistogramExact /\ LinesExact /\ Summed

LEMMA InitHistory == Init => History
<1> SUFFICES ASSUME Init PROVE History
  OBVIOUS
<1>1. DOMAIN shard_map = {} /\ DOMAIN trace = {} /\ cur_inst_pc = 0
  BY DEF Init, TimeInit
<1>2. InOrderOfUse /\ AllTouched /\ HistogramExact /\ LinesExact
  BY <1>1 DEF InOrderOfUse, AllTouched, HistogramExact, LinesExact
<1>3. DOMAIN References(shard_map) = {}
  BY <1>1 DEF References
<1>4. Summed
  BY <1>1, <1>3, SumEmpty DEF Summed, SumFunction
<1>5. QED
  BY <1>2, <1>4 DEF History

LEMMA SameHistory ==
    ASSUME History, UNCHANGED <<globals, by, shard_map>>
    PROVE  History'
<1>1. trace' = trace /\ by' = by /\ shard_map' = shard_map /\ cur_inst_pc' = cur_inst_pc
  BY DEF globals
<1>2. InOrderOfUse' /\ AllTouched'
  BY <1>1 DEF History, InOrderOfUse, AllTouched, UsedBehind
<1>3. HistogramExact' /\ Summed'
  <2>1. \A t, d : ReusesAt(t, d)' = ReusesAt(t, d)
    BY <1>1 DEF ReusesAt, OwnLastUse, OwnDistance
  <2>2. HistogramExact'
    BY <1>1, <2>1 DEF History, HistogramExact
  <2>3. Summed'
    BY <1>1 DEF History, Summed
  <2>4. QED
    BY <2>2, <2>3
<1>4. LinesExact'
  BY <1>1 DEF History, LinesExact, UsesBy
<1>5. QED
  BY <1>2, <1>3, <1>4 DEF History

LEMMA NextKeepsHistory ==
    ASSUME GlobalsInv, ShardsInv, History, [Next]_vars
    PROVE  History'
<1>1. CASE UNCHANGED vars
  <2>1. UNCHANGED <<globals, by, shard_map>>
    BY <1>1 DEF vars
  <2>2. QED
    BY <2>1, SameHistory
<1>2. ASSUME NEW tid \in Tid, NEW tag \in Addr, NEW s, CountedRecord(tid, tag, s)
      PROVE  History'
  <2>1. GlobalsTypeOK
    BY DEF GlobalsInv
  <2>2. InOrderOfUse /\ AllTouched /\ HistogramExact /\ LinesExact /\ Summed
    BY DEF History
  <2>3. InOrderOfUse' /\ AllTouched'
    BY <1>2, <2>1, <2>2, CountedKeepsOrder, CountedKeepsTouched
  <2>4. HistogramExact' /\ LinesExact'
    BY <1>2, <2>1, <2>2, CountedKeepsHistogram, CountedKeepsLines
  <2>5. Summed'
    BY <1>2, <2>1, <2>2, CountedKeepsSum
  <2>6. QED
    BY <2>3, <2>4, <2>5 DEF History
<1>3. ASSUME NEW tid \in Tid, NEW s, QuietRecord(tid, s)
      PROVE  History'
  <2>1. InOrderOfUse /\ AllTouched /\ HistogramExact /\ LinesExact /\ Summed
    BY DEF History
  <2>2. InOrderOfUse' /\ AllTouched'
    BY <1>3, <2>1, QuietKeepsOrder
  <2>3. HistogramExact' /\ LinesExact' /\ Summed'
    BY <1>3, <2>1, QuietKeepsHistogram, QuietKeepsLines, QuietKeepsSum
  <2>4. QED
    BY <2>2, <2>3 DEF History
<1>4. CASE PrintResults
  <2>1. UNCHANGED <<globals, by, shard_map>>
    BY <1>4 DEF PrintResults
  <2>2. QED
    BY <2>1, SameHistory
<1>5. QED
  BY <1>1, <1>2, <1>3, <1>4, Steps

LEMMA ReuseInvariant ==
    Spec => [](GlobalsInv /\ Window /\ Bracketed /\ ShardsInv /\ Outcomes /\ History)
<1>1. GlobalsInv /\ ShardsInv /\ History /\ [Next]_vars => History'
  BY NextKeepsHistory
<1>2. QED
  BY <1>1, InitHistory, GlobalsInvariant, ShardsInvariant, PTL DEF Spec

\* The histogram of a shard holds the distances of its own thread, each as the
\* number of addresses the thread used since, whatever other threads did in
\* between (lines 443-450).
THEOREM ReuseHistogramExact == Spec => []ShardHistogramExact
<1>1. ASSUME HistogramExact PROVE ShardHistogramExact
  <2>1. \A d \in 0 .. Cardinality(Addr) : d \in Nat
    OBVIOUS
  <2>2. QED
    BY <1>1, <2>1 DEF HistogramExact, ShardHistogramExact, Entry
<1>2. QED
  BY <1>1, ReuseInvariant, PTL DEF History

\* The shards have lines for the addresses of the trace.
LEMMA AddressesAre ==
    ASSUME ShardsInv, History
    PROVE  \A a : a \in ToSet(trace) <=> \E t \in DOMAIN shard_map : a \in Lines(shard_map[t])
<1>1. ASSUME NEW a \in ToSet(trace)
      PROVE  \E t \in DOMAIN shard_map : a \in Lines(shard_map[t])
  <2>1. PICK i \in DOMAIN trace : trace[i] = a
    BY <1>1 DEF ToSet
  <2>2. by[i] \in DOMAIN shard_map /\ a \in Lines(shard_map[by[i]])
    BY <2>1 DEF History, AllTouched
  <2>3. QED
    BY <2>2
<1>2. ASSUME NEW a, NEW t \in DOMAIN shard_map, a \in Lines(shard_map[t])
      PROVE  a \in ToSet(trace)
  <2>1. PICK j \in DOMAIN trace : trace[j] = a
    BY <1>2 DEF History, InOrderOfUse
  <2>2. QED
    BY <2>1 DEF ToSet
<1>3. QED
  BY <1>1, <1>2

\* The two halves of the tool agree: the shards have seen the references the
\* globals counted, and as long as nothing was forgotten the globals find more
\* reuses by the first touches of a thread on another one's address (lines 432,
\* 456, 470).
THEOREM ReuseHalvesAgree == Spec => []HalvesAgree
<1>1. ASSUME GlobalsInv, Bracketed, ShardsInv, History
      PROVE  HalvesAgree
  <2>1. PICK D : D = DOMAIN shard_map
    OBVIOUS
  <2>2. IsFiniteSet(D)
    BY <1>1, <2>1 DEF ShardsInv
  <2>3. PICK f, g, h : /\ f = [t \in D |-> OwnReuses(t)]
                       /\ g = [t \in D |-> Cardinality(OwnAddresses(t))]
                       /\ h = [t \in D |-> shard_map[t].total_refs]
    OBVIOUS
  <2>4. ASSUME NEW t \in D
        PROVE  f[t] \in Nat /\ g[t] \in Nat /\ h[t] = f[t] + g[t]
    <3>1. PICK s : s = shard_map[t]
      OBVIOUS
    <3>2. ShardTypes(s) /\ ShardCounts(s)
      BY <1>1, <2>1, <3>1 DEF ShardsInv
    <3>3. SumFunction(s.dist_map) \in Nat
      BY <3>2, SumType DEF SumFunction, ShardTypes
    <3>4. Cardinality(Lines(s)) \in Nat
      BY <3>2, LinesFinite
    <3>5. s.total_refs = SumFunction(s.dist_map) + Cardinality(Lines(s))
      BY <3>2 DEF ShardCounts
    <3>6. f[t] = SumFunction(s.dist_map) /\ g[t] = Cardinality(Lines(s)) /\ h[t] = s.total_refs
      BY <2>3, <3>1 DEF OwnReuses, OwnAddresses, Count, Lines
    <3>7. QED
      BY <3>3, <3>4, <3>5, <3>6
  <2>5. /\ SumFunction(f) = SumFunctionOnSet(f, D)
        /\ SumFunction(g) = SumFunctionOnSet(g, D)
        /\ SumFunction(h) = SumFunctionOnSet(h, D)
    BY <2>3 DEF SumFunction
  <2>6. SumFunctionOnSet(h, D) = SumFunctionOnSet(f, D) + SumFunctionOnSet(g, D)
    BY <2>2, <2>4, SumPlus
  <2>7. SumFunctionOnSet(f, D) \in Nat /\ SumFunctionOnSet(g, D) \in Nat
    BY <2>2, <2>4, SumType
  <2>8. SumFunction(h) = cur_inst_pc
    BY <1>1, <2>1, <2>3 DEF History, Summed, References
  <2>9. UNION {OwnAddresses(t) : t \in D} = ToSet(trace)
    <3>1. \A a : a \in UNION {OwnAddresses(t) : t \in D} <=> \E t \in D : a \in Lines(shard_map[t])
      BY DEF OwnAddresses, Lines
    <3>2. \A a : a \in ToSet(trace) <=> \E t \in D : a \in Lines(shard_map[t])
      BY <1>1, <2>1, AddressesAre
    <3>3. QED
      BY <3>1, <3>2
  <2>10. cur_inst_pc - inst_dist_count[STEP + 1] = reuse_inst_num
    BY <1>1 DEF Bracketed, HistogramBracketed
  <2>11. inst_dist_count[STEP + 1] \in Nat /\ cur_inst_pc \in Nat
    BY <1>1, TimeAssumption DEF GlobalsInv, GlobalsTypeOK
  <2>12. NothingForgotten =>
           reuse_inst_num - SumFunction(f) =
             SumFunction(g) - Cardinality(UNION {OwnAddresses(t) : t \in D})
    <3>1. SUFFICES ASSUME inst_dist_count[STEP + 1] = Cardinality(ToSet(trace))
                   PROVE  reuse_inst_num - SumFunction(f) =
                            SumFunction(g) - inst_dist_count[STEP + 1]
      BY <2>9 DEF NothingForgotten
    <3>2. QED
      BY <2>5, <2>6, <2>7, <2>8, <2>10, <2>11
  <2>13. QED
    BY <2>1, <2>3, <2>8, <2>12 DEF HalvesAgree, SumOver
<1>2. QED
  BY <1>1, ReuseInvariant, PTL

-----------------------------------------------------------------------------
(* The aggregated report.                                                  *)

\* The shards with a line for an address, and those with an entry.
With(a) == {t \in DOMAIN shard_map : a \in Lines(shard_map[t])}
At(d) == {t \in DOMAIN shard_map : d \in DOMAIN shard_map[t].dist_map}

LEMMA MergeFields ==
    /\ Merge(shard_map).total_refs = SumFunction(References(shard_map))
    /\ \A a : a \in DOMAIN Merge(shard_map).cache_map <=> With(a) # {}
    /\ Merge(shard_map).cache_map =
         [a \in DOMAIN Merge(shard_map).cache_map |-> Merge(shard_map).cache_map[a]]
    /\ \A a \in DOMAIN Merge(shard_map).cache_map :
         Merge(shard_map).cache_map[a] =
           [total_refs |-> SumFunction([t \in With(a) |-> shard_map[t].cache_map[a].total_refs]),
            distant_refs |-> SumFunction([t \in With(a) |-> shard_map[t].cache_map[a].distant_refs])]
    /\ \A d : d \in DOMAIN Merge(shard_map).dist_map <=> At(d) # {}
    /\ \A d \in DOMAIN Merge(shard_map).dist_map :
         Merge(shard_map).dist_map[d] = SumFunction([t \in At(d) |-> shard_map[t].dist_map[d]])
<1>1. PICK A : A = UNION {DOMAIN shard_map[t].cache_map : t \in DOMAIN shard_map}
  OBVIOUS
<1>2. PICK D : D = UNION {DOMAIN shard_map[t].dist_map : t \in DOMAIN shard_map}
  OBVIOUS
<1>3. PICK cm : cm = [a \in A |->
                        MergedLine([t \in With(a) |-> shard_map[t].cache_map[a]])]
  OBVIOUS
<1>4. PICK dm : dm = [d \in D |-> SumFunction([t \in At(d) |-> shard_map[t].dist_map[d]])]
  OBVIOUS
<1>5. /\ Merge(shard_map).total_refs = SumFunction(References(shard_map))
      /\ Merge(shard_map).cache_map = cm
      /\ Merge(shard_map).dist_map = dm
  BY <1>1, <1>2, <1>3, <1>4 DEF Merge, EmptyShard, References, With, At, Lines
<1>6. \A a : a \in A <=> With(a) # {}
  BY <1>1 DEF With, Lines
<1>7. \A d : d \in D <=> At(d) # {}
  BY <1>2 DEF At
<1>8. \A a : MergedLine([t \in With(a) |-> shard_map[t].cache_map[a]]) =
        [total_refs |-> SumFunction([t \in With(a) |-> shard_map[t].cache_map[a].total_refs]),
         distant_refs |-> SumFunction([t \in With(a) |-> shard_map[t].cache_map[a].distant_refs])]
  <2> SUFFICES ASSUME NEW a
               PROVE  MergedLine([t \in With(a) |-> shard_map[t].cache_map[a]]) =
        [total_refs |-> SumFunction([t \in With(a) |-> shard_map[t].cache_map[a].total_refs]),
         distant_refs |-> SumFunction([t \in With(a) |-> shard_map[t].cache_map[a].distant_refs])]
    OBVIOUS
  <2>1. PICK W, L : W = With(a) /\ L = [t \in W |-> shard_map[t].cache_map[a]]
    OBVIOUS
  <2>2. DOMAIN L = W
    BY <2>1
  <2>3. [t \in DOMAIN L |-> L[t].total_refs] = [t \in W |-> shard_map[t].cache_map[a].total_refs]
    BY <2>1, <2>2
  <2>4. [t \in DOMAIN L |-> L[t].distant_refs] = [t \in W |-> shard_map[t].cache_map[a].distant_refs]
    BY <2>1, <2>2
  <2>5. MergedLine(L) = [total_refs |-> SumFunction([t \in DOMAIN L |-> L[t].total_refs]),
                         distant_refs |-> SumFunction([t \in DOMAIN L |-> L[t].distant_refs])]
    BY DEF MergedLine
  <2>6. QED
    BY <2>1, <2>3, <2>4, <2>5
<1>9. DOMAIN cm = A /\ \A a \in A : cm[a] =
        [total_refs |-> SumFunction([t \in With(a) |-> shard_map[t].cache_map[a].total_refs]),
         distant_refs |-> SumFunction([t \in With(a) |-> shard_map[t].cache_map[a].distant_refs])]
  BY <1>3, <1>8
<1>10. DOMAIN dm = D /\ \A d \in D :
         dm[d] = SumFunction([t \in At(d) |-> shard_map[t].dist_map[d]])
  BY <1>4
<1>11. cm = [a \in DOMAIN cm |-> cm[a]]
  BY <1>3
<1>12. QED
  BY <1>5, <1>6, <1>7, <1>9, <1>10, <1>11

\* Each address has the references of all threads.
LEMMA MergedUses ==
    ASSUME GlobalsTypeOK, ShardsInv, History, NEW a \in DOMAIN Merge(shard_map).cache_map
    PROVE  Merge(shard_map).cache_map[a].total_refs =
             Cardinality({i \in DOMAIN trace : trace[i] = a})
<1>1. PICK W : W = With(a)
  OBVIOUS
<1>2. IsFiniteSet(W) /\ W \subseteq DOMAIN shard_map
  <2>1. W \subseteq DOMAIN shard_map
    BY <1>1 DEF With
  <2>2. QED
    BY <2>1, FS_Subset DEF ShardsInv
<1>3. PICK f : f = [t \in W |-> shard_map[t].cache_map[a].total_refs]
  OBVIOUS
<1>4. Merge(shard_map).cache_map[a].total_refs = SumFunctionOnSet(f, W)
  <2>1. Merge(shard_map).cache_map[a] =
           [total_refs |-> SumFunction([t \in With(a) |-> shard_map[t].cache_map[a].total_refs]),
            distant_refs |-> SumFunction([t \in With(a) |-> shard_map[t].cache_map[a].distant_refs])]
    BY MergeFields
  <2>2. f = [t \in With(a) |-> shard_map[t].cache_map[a].total_refs]
    BY <1>1, <1>3
  <2>3. Merge(shard_map).cache_map[a].total_refs = SumFunction(f)
    BY <2>1, <2>2
  <2>4. DOMAIN f = W
    BY <1>3
  <2>5. QED
    BY <2>3, <2>4 DEF SumFunction
<1>5. PICK B : B = [t \in W |-> UsesBy(t, a)]
  OBVIOUS
<1>6. IsFiniteSet(DOMAIN trace)
  <2>1. DOMAIN trace = 1 .. Len(trace) /\ 1 \in Int /\ Len(trace) \in Int
    BY LenProperties DEF GlobalsTypeOK
  <2>2. QED
    BY <2>1, FS_Interval
<1>7. ASSUME NEW t \in W
      PROVE  f[t] \in Nat /\ IsFiniteSet(B[t]) /\ Cardinality(B[t]) = f[t]
  <2>1. t \in DOMAIN shard_map /\ a \in Lines(shard_map[t])
    BY <1>1, <1>7 DEF With
  <2>2. Cardinality(B[t]) = f[t]
    BY <1>3, <1>5, <2>1 DEF History, LinesExact
  <2>3. IsFiniteSet(B[t])
    <3>1. B[t] \subseteq DOMAIN trace
      BY <1>5 DEF UsesBy
    <3>2. QED
      BY <1>6, <3>1, FS_Subset
  <2>4. f[t] \in Nat
    BY <2>2, <2>3, FS_CardinalityType
  <2>5. QED
    BY <2>2, <2>3, <2>4
<1>8. \A t, u \in W : \A i : i \in B[t] /\ i \in B[u] => t = u
  BY <1>5 DEF UsesBy
<1>9. PICK U : U = {i \in DOMAIN trace : trace[i] = a}
  OBVIOUS
<1>10. \A i : i \in U <=> \E t \in W : i \in B[t]
  <2>1. ASSUME NEW i \in U PROVE \E t \in W : i \in B[t]
    <3>1. by[i] \in DOMAIN shard_map /\ a \in Lines(shard_map[by[i]])
      BY <1>9, <2>1 DEF History, AllTouched
    <3>2. by[i] \in W
      BY <1>1, <3>1 DEF With
    <3>3. i \in B[by[i]]
      BY <1>5, <1>9, <2>1, <3>2 DEF UsesBy
    <3>4. QED
      BY <3>2, <3>3
  <2>2. ASSUME NEW i, NEW t \in W, i \in B[t] PROVE i \in U
    BY <1>5, <1>9, <2>2 DEF UsesBy
  <2>3. QED
    BY <2>1, <2>2
<1>11. SumFunctionOnSet(f, W) = Cardinality(U)
  BY <1>2, <1>7, <1>8, <1>10, SumPartition
<1>12. QED
  BY <1>4, <1>9, <1>11

\* The merged histogram has every reference that found its address once.
LEMMA MergedCount ==
    ASSUME GlobalsTypeOK, ShardsInv, History
    PROVE  Count(Merge(shard_map).dist_map) =
             Cardinality({i \in DOMAIN trace : OwnLastUse(i) > 0})
<1>1. PICK f : f = Merge(shard_map).dist_map
  OBVIOUS
<1>2. PICK D : D = DOMAIN f
  OBVIOUS
<1>3. IsFiniteSet(DOMAIN trace) /\ DOMAIN trace = 1 .. Len(trace) /\ Len(trace) \in Nat
  <2>1. DOMAIN trace = 1 .. Len(trace) /\ Len(trace) \in Nat
    BY LenProperties DEF GlobalsTypeOK
  <2>2. 1 \in Int /\ Len(trace) \in Int
    BY <2>1
  <2>3. IsFiniteSet(1 .. Len(trace))
    BY <2>2, FS_Interval
  <2>4. QED
    BY <2>1, <2>3
<1>4. \A t \in DOMAIN shard_map : /\ DOMAIN shard_map[t].dist_map \subseteq Nat
                                  /\ IsFiniteSet(DOMAIN shard_map[t].dist_map)
                                  /\ \A d \in DOMAIN shard_map[t].dist_map :
                                       shard_map[t].dist_map[d] \in Nat
  BY DEF ShardsInv, ShardTypes
<1>5. \A d : d \in D <=> At(d) # {}
  BY <1>1, <1>2, MergeFields
<1>6. D \subseteq Nat
  BY <1>4, <1>5 DEF At
<1>7. IsFiniteSet(D)
  <2>1. PICK domains : domains = {DOMAIN shard_map[t].dist_map : t \in DOMAIN shard_map}
    OBVIOUS
  <2>2. PICK dom : dom = [t \in DOMAIN shard_map |-> DOMAIN shard_map[t].dist_map]
    OBVIOUS
  <2>3. dom \in Surjection(DOMAIN shard_map, domains)
    BY <2>1, <2>2, Zenon DEF Surjection
  <2>4. IsFiniteSet(domains)
    BY <2>3, FS_Surjection DEF ShardsInv
  <2>5. \A S \in domains : IsFiniteSet(S)
    BY <1>4, <2>1
  <2>6. IsFiniteSet(UNION domains)
    BY <2>4, <2>5, FS_UNION
  <2>7. D = UNION domains
    BY <1>5, <2>1 DEF At
  <2>8. QED
    BY <2>6, <2>7
<1>8. PICK R : R = {i \in DOMAIN trace : OwnLastUse(i) > 0}
  OBVIOUS
<1>9. PICK B : B = [d \in D |-> {i \in R : OwnDistance(i) = d}]
  OBVIOUS
<1>10. \A d \in D : IsFiniteSet(B[d])
  <2>1. \A d \in D : B[d] \subseteq DOMAIN trace
    BY <1>8, <1>9
  <2>2. QED
    BY <1>3, <2>1, FS_Subset
<1>11. ASSUME NEW i \in R
       PROVE  /\ OwnDistance(i) \in Nat
              /\ by[i] \in DOMAIN shard_map
              /\ OwnDistance(i) \in DOMAIN shard_map[by[i]].dist_map
  <2>1. PICK t, d : t = by[i] /\ d = OwnDistance(i)
    OBVIOUS
  <2>2. i \in DOMAIN trace /\ OwnLastUse(i) > 0 /\ t \in DOMAIN shard_map
    BY <1>8, <2>1 DEF History, AllTouched
  <2>3. d \in Nat
    <3>1. PICK l \in 0 .. i - 1 : l = OwnLastUse(i)
      BY <1>3, <2>2, OwnLastUseType
    <3>2. PICK P : P = {k \in l + 1 .. i - 1 : by[k] = by[i]}
      OBVIOUS
    <3>3. l + 1 \in Int /\ i - 1 \in Int
      BY <1>3, <2>2, <3>1
    <3>4. IsFiniteSet(P)
      <4>1. IsFiniteSet(l + 1 .. i - 1)
        BY <3>3, FS_Interval
      <4>2. QED
        BY <3>2, <4>1, FS_Subset
    <3>5. PICK g : g = [k \in P |-> trace[k]]
      OBVIOUS
    <3>6. g \in Surjection(P, {trace[k] : k \in P})
      BY <3>5, Zenon DEF Surjection
    <3>7. IsFiniteSet({trace[k] : k \in P})
      BY <3>4, <3>6, FS_Surjection
    <3>8. QED
      BY <2>1, <3>1, <3>2, <3>7, FS_CardinalityType DEF OwnDistance
  <2>4. i \in ReusesAt(t, d)
    BY <2>1, <2>2 DEF ReusesAt
  <2>5. Cardinality(ReusesAt(t, d)) = Entry(shard_map[t].dist_map, d)
    BY <2>2, <2>3 DEF History, HistogramExact
  <2>6. Cardinality(ReusesAt(t, d)) # 0
    <3>1. ReusesAt(t, d) \subseteq DOMAIN trace
      BY DEF ReusesAt
    <3>2. IsFiniteSet(ReusesAt(t, d))
      BY <1>3, <3>1, FS_Subset
    <3>3. QED
      BY <2>4, <3>2, FS_EmptySet
  <2>7. d \in DOMAIN shard_map[t].dist_map
    BY <2>5, <2>6 DEF Entry
  <2>8. QED
    BY <2>1, <2>2, <2>3, <2>7
<1>12. ASSUME NEW d \in D
       PROVE  f[d] = Cardinality(B[d])
  <2>1. PICK W : W = At(d)
    OBVIOUS
  <2>2. PICK g : g = [t \in W |-> shard_map[t].dist_map[d]]
    OBVIOUS
  <2>3. f[d] = SumFunctionOnSet(g, W)
    <3>1. f[d] = SumFunction(g)
      BY <1>1, <1>2, <1>12, <2>1, <2>2, MergeFields
    <3>2. DOMAIN g = W
      BY <2>2
    <3>3. QED
      BY <3>1, <3>2 DEF SumFunction
  <2>4. IsFiniteSet(W)
    <3>1. W \subseteq DOMAIN shard_map
      BY <2>1 DEF At
    <3>2. QED
      BY <3>1, FS_Subset DEF ShardsInv
  <2>5. PICK C : C = [t \in W |-> ReusesAt(t, d)]
    OBVIOUS
  <2>6. ASSUME NEW t \in W
        PROVE  g[t] \in Nat /\ IsFiniteSet(C[t]) /\ Cardinality(C[t]) = g[t]
    <3>1. t \in DOMAIN shard_map /\ d \in DOMAIN shard_map[t].dist_map /\ d \in Nat
      BY <1>6, <1>12, <2>1, <2>6 DEF At
    <3>2. g[t] = shard_map[t].dist_map[d] /\ g[t] \in Nat
      BY <1>4, <2>2, <3>1
    <3>3. Cardinality(C[t]) = g[t]
      BY <2>5, <3>1, <3>2 DEF History, HistogramExact, Entry
    <3>4. C[t] \subseteq DOMAIN trace
      BY <2>5 DEF ReusesAt
    <3>5. QED
      BY <1>3, <3>2, <3>3, <3>4, FS_Subset
  <2>7. \A t, u \in W : \A i : i \in C[t] /\ i \in C[u] => t = u
    BY <2>5 DEF ReusesAt
  <2>8. \A i : i \in B[d] <=> \E t \in W : i \in C[t]
    <3>1. ASSUME NEW i \in B[d] PROVE \E t \in W : i \in C[t]
      <4>1. i \in R /\ OwnDistance(i) = d
        BY <1>9, <1>12, <3>1
      <4>2. by[i] \in W
        BY <1>11, <2>1, <4>1 DEF At
      <4>3. i \in C[by[i]]
        BY <1>8, <2>5, <4>1, <4>2 DEF ReusesAt
      <4>4. QED
        BY <4>2, <4>3
    <3>2. ASSUME NEW i, NEW t \in W, i \in C[t] PROVE i \in B[d]
      BY <1>8, <1>9, <1>12, <2>5, <3>2 DEF ReusesAt
    <3>3. QED
      BY <3>1, <3>2
  <2>9. SumFunctionOnSet(g, W) = Cardinality(B[d])
    BY <2>4, <2>6, <2>7, <2>8, SumPartition
  <2>10. QED
    BY <2>3, <2>9
<1>13. \A d \in D : f[d] \in Nat /\ IsFiniteSet(B[d]) /\ Cardinality(B[d]) = f[d]
  BY <1>10, <1>12, FS_CardinalityType
<1>14. \A d, e \in D : \A i : i \in B[d] /\ i \in B[e] => d = e
  BY <1>9
<1>15. \A i : i \in R <=> \E d \in D : i \in B[d]
  <2>1. ASSUME NEW i \in R PROVE \E d \in D : i \in B[d]
    <3>1. by[i] \in At(OwnDistance(i))
      BY <1>11, <2>1 DEF At
    <3>2. OwnDistance(i) \in D
      BY <1>5, <3>1
    <3>3. QED
      BY <1>9, <2>1, <3>2
  <2>2. QED
    BY <1>9, <2>1
<1>16. SumFunctionOnSet(f, D) = Cardinality(R)
  BY <1>7, <1>13, <1>14, <1>15, SumPartition
<1>17. QED
  BY <1>1, <1>2, <1>8, <1>16 DEF Count, SumFunction

\* An arrangement of a finite set.
LEMMA ArrangementIs ==
    ASSUME NEW S, IsFiniteSet(S), NEW u \in SetToSeqs(S)
    PROVE  /\ u \in Seq(S) /\ IsInjective(u)
           /\ Len(u) = Cardinality(S) /\ ToSet(u) = S
<1>1. PICK n \in Nat : n = Cardinality(S)
  BY FS_CardinalityType
<1>2. u \in [1 .. n -> S] /\ \A i, j \in 1 .. n : i # j => u[i] # u[j]
  BY <1>1 DEF SetToSeqs
<1>3. u \in Seq(S) /\ Len(u) = n /\ DOMAIN u = 1 .. n
  BY <1>2
<1>4. IsInjective(u)
  BY <1>2, <1>3 DEF IsInjective
<1>5. IsFiniteSet(ToSet(u)) /\ Cardinality(ToSet(u)) = n
  BY <1>3, <1>4, ListSize
<1>6. ToSet(u) \in SUBSET S
  BY <1>2, <1>3 DEF ToSet
<1>7. ToSet(u) = S
  BY <1>1, <1>5, <1>6, FS_Subset
<1>8. QED
  BY <1>1, <1>3, <1>4, <1>7

\* The sections are on the shards, each once, the largest first.
LEMMA OrdersAre ==
    ASSUME ShardsInv, NEW order \in Orders, NEW several \in BOOLEAN,
           several <=> Cardinality(DOMAIN shard_map) > 1
    PROVE  /\ ToSet(order) = (IF several THEN DOMAIN shard_map ELSE {})
           /\ Len(order) = (IF several THEN Cardinality(DOMAIN shard_map) ELSE 0)
           /\ \A i, j \in DOMAIN order : i < j =>
                shard_map[order[j]].total_refs <= shard_map[order[i]].total_refs
<1>1. CASE several
  <2>1. order \in Sorted(shard_map)
    BY <1>1 DEF Orders
  <2>2. /\ order \in SetToSeqs(DOMAIN shard_map)
        /\ \A i, j \in DOMAIN order : i < j =>
             shard_map[order[i]].total_refs >= shard_map[order[j]].total_refs
    BY <2>1 DEF Sorted
  <2>3. IsFiniteSet(DOMAIN shard_map)
    BY DEF ShardsInv
  <2>4. /\ ToSet(order) = DOMAIN shard_map /\ order \in Seq(DOMAIN shard_map)
        /\ Len(order) = Cardinality(DOMAIN shard_map)
    BY <2>2, <2>3, ArrangementIs
  <2>5. ASSUME NEW i \in DOMAIN order, NEW j \in DOMAIN order, i < j
        PROVE  shard_map[order[j]].total_refs <= shard_map[order[i]].total_refs
    <3>1. order[i] \in DOMAIN shard_map /\ order[j] \in DOMAIN shard_map
      BY <2>4 DEF ToSet
    <3>2. /\ shard_map[order[i]].total_refs \in Nat
          /\ shard_map[order[j]].total_refs \in Nat
      BY <3>1 DEF ShardsInv, ShardTypes
    <3>3. QED
      BY <2>2, <2>5, <3>2
  <2>6. QED
    BY <1>1, <2>4, <2>5
<1>2. CASE ~several
  <2>1. order = <<>>
    BY <1>2 DEF Orders
  <2>2. QED
    BY <1>2, <2>1 DEF ToSet
<1>3. QED
  BY <1>1, <1>2

\* The aggregated report is the one of the whole trace, however the threads
\* shared the addresses, and the sections are on the shards, each once and the
\* largest first (lines 672-698, 709-721).
THEOREM ReuseAggregateExact == Spec => []AggregateExact
<1>1. ASSUME GlobalsInv, ShardsInv, Outcomes, History
      PROVE  AggregateExact
  <2>1. SUFFICES ASSUME outcome = Printed
                 PROVE  LET all == report.aggregate
                            several == Cardinality(DOMAIN shard_map) > 1
                            First == {i \in DOMAIN trace : OwnLastUse(i) = 0}
                        IN  /\ all.total_refs = Len(trace)
                            /\ DOMAIN all.cache_map = ToSet(trace)
                            /\ \A a \in ToSet(trace) :
                                 all.cache_map[a].total_refs =
                                     Cardinality({i \in DOMAIN trace : trace[i] = a})
                            /\ Count(all.dist_map) = Len(trace) - Cardinality(First)
                            /\ ToSet(report.sections) = (IF several THEN DOMAIN shard_map ELSE {})
                            /\ Len(report.sections) =
                                 (IF several THEN Cardinality(DOMAIN shard_map) ELSE 0)
                            /\ \A i, j \in DOMAIN report.sections : i < j =>
                                 shard_map[report.sections[j]].total_refs
                                   <= shard_map[report.sections[i]].total_refs
    BY DEF AggregateExact
  <2>2. PICK order \in Orders : report.sections = order /\ report.aggregate = Merge(shard_map)
    BY <1>1, <2>1 DEF Outcomes, Reported
  <2>3. PICK several \in BOOLEAN : several <=> Cardinality(DOMAIN shard_map) > 1
    OBVIOUS
  <2>4. /\ ToSet(order) = (IF several THEN DOMAIN shard_map ELSE {})
        /\ Len(order) = (IF several THEN Cardinality(DOMAIN shard_map) ELSE 0)
        /\ \A i, j \in DOMAIN order : i < j =>
             shard_map[order[j]].total_refs <= shard_map[order[i]].total_refs
    BY <1>1, <2>3, OrdersAre
  <2>5. GlobalsTypeOK
    BY <1>1 DEF GlobalsInv
  <2>6. Merge(shard_map).total_refs = Len(trace)
    BY <1>1, <2>5, MergeFields DEF History, Summed, GlobalsTypeOK
  <2>7. DOMAIN Merge(shard_map).cache_map = ToSet(trace)
    <3>1. \A a : a \in ToSet(trace) <=> \E t \in DOMAIN shard_map : a \in Lines(shard_map[t])
      BY <1>1, AddressesAre
    <3>2. \A a : a \in DOMAIN Merge(shard_map).cache_map <=> a \in ToSet(trace)
      BY <3>1, MergeFields DEF With
    <3>3. QED
      BY <3>2
  <2>8. \A a \in ToSet(trace) : Merge(shard_map).cache_map[a].total_refs =
          Cardinality({i \in DOMAIN trace : trace[i] = a})
    BY <1>1, <2>5, <2>7, MergedUses
  <2>9. Count(Merge(shard_map).dist_map) =
          Len(trace) - Cardinality({i \in DOMAIN trace : OwnLastUse(i) = 0})
    <3>1. PICK R, F, L : /\ R = {i \in DOMAIN trace : OwnLastUse(i) > 0}
                         /\ F = {i \in DOMAIN trace : OwnLastUse(i) = 0}
                         /\ L = Len(trace)
      OBVIOUS
    <3>2. DOMAIN trace = 1 .. L /\ L \in Nat
      BY <2>5, <3>1, LenProperties DEF GlobalsTypeOK
    <3>3. \A i \in 1 .. L : OwnLastUse(i) \in 0 .. i - 1
      BY <3>2, OwnLastUseType
    <3>4. R \cup F = 1 .. L /\ R \cap F = {}
      <4>1. \A i \in 1 .. L : (OwnLastUse(i) > 0 \/ OwnLastUse(i) = 0)
                              /\ ~(OwnLastUse(i) > 0 /\ OwnLastUse(i) = 0)
        BY <3>2, <3>3
      <4>2. QED
        BY <3>1, <3>2, <4>1
    <3>5. IsFiniteSet(1 .. L) /\ Cardinality(1 .. L) = L
      <4>1. 1 \in Int /\ L \in Int
        BY <3>2
      <4>2. IsFiniteSet(1 .. L) /\ Cardinality(1 .. L) = IF 1 > L THEN 0 ELSE L - 1 + 1
        BY <4>1, FS_Interval
      <4>3. QED
        BY <3>2, <4>2
    <3>6. IsFiniteSet(R) /\ IsFiniteSet(F)
      <4>1. R \subseteq 1 .. L /\ F \subseteq 1 .. L
        BY <3>4
      <4>2. QED
        BY <3>5, <4>1, FS_Subset
    <3>7. Cardinality(R) \in Nat /\ Cardinality(F) \in Nat
      BY <3>6, FS_CardinalityType
    <3>8. Cardinality(R \cup F) = Cardinality(R) + Cardinality(F) - Cardinality(R \cap F)
      BY <3>6, FS_Union
    <3>9. Cardinality(R \cap F) = 0
      BY <3>4, FS_EmptySet
    <3>10. L = Cardinality(R) + Cardinality(F)
      <4>1. Cardinality(R \cup F) = L
        BY <3>4, <3>5
      <4>2. QED
        BY <3>2, <3>7, <3>8, <3>9, <4>1
    <3>11. Count(Merge(shard_map).dist_map) = Cardinality(R)
      BY <1>1, <2>5, <3>1, MergedCount
    <3>12. Cardinality(R) = L - Cardinality(F)
      BY <3>2, <3>7, <3>10
    <3>13. QED
      BY <3>1, <3>11, <3>12
  <2>10. QED
    BY <2>2, <2>3, <2>4, <2>6, <2>7, <2>8, <2>9
<1>2. QED
  BY <1>1, ReuseInvariant, PTL

-----------------------------------------------------------------------------
(* The lists of the report.                                                *)

\* The trace has finitely many addresses.
LEMMA TraceAddresses ==
    ASSUME GlobalsTypeOK
    PROVE  IsFiniteSet(ToSet(trace)) /\ ToSet(trace) \in SUBSET Int
<1>1. trace \in Seq(Addr) /\ DOMAIN trace = 1 .. Len(trace) /\ Len(trace) \in Nat
  BY LenProperties DEF GlobalsTypeOK
<1>2. 1 \in Int /\ Len(trace) \in Int
  BY <1>1
<1>3. IsFiniteSet(DOMAIN trace)
  BY <1>1, <1>2, FS_Interval
<1>4. trace \in Surjection(DOMAIN trace, ToSet(trace))
  <2>1. trace \in [DOMAIN trace -> ToSet(trace)]
    BY <1>1 DEF ToSet
  <2>2. \A a \in ToSet(trace) : \E i \in DOMAIN trace : trace[i] = a
    BY DEF ToSet
  <2>3. QED
    BY <2>1, <2>2 DEF Surjection
<1>5. IsFiniteSet(ToSet(trace))
  BY <1>3, <1>4, FS_Surjection
<1>6. ToSet(trace) \subseteq Addr
  BY <1>1 DEF ToSet
<1>7. QED
  BY <1>5, <1>6, ReuseAssumption

\* The lines of the aggregated report.
LEMMA MergedLines ==
    ASSUME GlobalsTypeOK, ShardsInv, History
    PROVE  Merge(shard_map).cache_map \in [ToSet(trace) -> Line]
<1>1. PICK cm : cm = Merge(shard_map).cache_map
  OBVIOUS
<1>2. DOMAIN cm = ToSet(trace)
  <2>1. \A a : a \in ToSet(trace) <=> \E t \in DOMAIN shard_map : a \in Lines(shard_map[t])
    BY AddressesAre
  <2>2. \A a : a \in DOMAIN cm <=> a \in ToSet(trace)
    BY <1>1, <2>1, MergeFields DEF With
  <2>3. QED
    BY <2>2
<1>3. ASSUME NEW a \in DOMAIN cm
      PROVE  cm[a] \in Line
  <2>1. PICK W : W = With(a)
    OBVIOUS
  <2>2. W \subseteq DOMAIN shard_map /\ \A t \in W : a \in Lines(shard_map[t])
    BY <2>1 DEF With
  <2>3. IsFiniteSet(W)
    BY <2>2, FS_Subset DEF ShardsInv
  <2>4. ASSUME NEW t \in W
        PROVE  /\ shard_map[t].cache_map[a].total_refs \in Nat
               /\ shard_map[t].cache_map[a].distant_refs \in Nat
    <3>1. ShardTypes(shard_map[t]) /\ a \in Lines(shard_map[t])
      BY <2>2, <2>4 DEF ShardsInv
    <3>2. QED
      BY <3>1, LinesFinite
  <2>5. PICK f, g : /\ f = [t \in W |-> shard_map[t].cache_map[a].total_refs]
                    /\ g = [t \in W |-> shard_map[t].cache_map[a].distant_refs]
    OBVIOUS
  <2>6. \A t \in W : f[t] \in Nat /\ g[t] \in Nat
    BY <2>4, <2>5
  <2>7. SumFunctionOnSet(f, W) \in Nat /\ SumFunctionOnSet(g, W) \in Nat
    BY <2>3, <2>6, SumType
  <2>8. SumFunction(f) \in Nat /\ SumFunction(g) \in Nat
    BY <2>5, <2>7 DEF SumFunction
  <2>9. cm[a] =
           [total_refs |-> SumFunction([t \in With(a) |-> shard_map[t].cache_map[a].total_refs]),
            distant_refs |-> SumFunction([t \in With(a) |-> shard_map[t].cache_map[a].distant_refs])]
    BY <1>1, <1>3, MergeFields
  <2>10. cm[a] = [total_refs |-> SumFunction(f), distant_refs |-> SumFunction(g)]
    BY <2>1, <2>5, <2>9
  <2>11. QED
    BY <2>8, <2>10 DEF Line
<1>4. cm = [a \in DOMAIN cm |-> cm[a]]
  BY <1>1, MergeFields
<1>5. cm \in [ToSet(trace) -> Line]
  BY <1>2, <1>3, <1>4
<1>6. QED
  BY <1>1, <1>5

\* One value has one element.
LEMMA OneElement ==
    ASSUME NEW S, NEW t, S = {t}
    PROVE  Cardinality(S) = 1
  BY FS_Singleton

\* Two runs on one trace print the same lists: of the addresses of a shard, and
\* of those of the aggregated report, the partial sort has one to return,
\* although cache_map is a hash map (lines 513, 532).
THEOREM ReuseListsDetermined == Spec => []ListsDetermined
<1>1. ASSUME NEW Keys \in SUBSET Int, IsFiniteSet(Keys), NEW lines \in [Keys -> Line]
      PROVE  /\ Cardinality(FrequentLists(lines, ReportTop)) = 1
             /\ Cardinality(DistantLists(lines, ReportTop)) = 1
  <2>1. ReportTop \in Nat
    BY ReuseAssumption
  <2>2. \E t : FrequentLists(lines, ReportTop) = {t}
    BY <1>1, <2>1, FrequentListUnique
  <2>3. \E t : DistantLists(lines, ReportTop) = {t}
    BY <1>1, <2>1, DistantListUnique
  <2>4. QED
    BY <2>2, <2>3, OneElement
<1>2. ASSUME NEW s, ShardTypes(s)
      PROVE  /\ Cardinality(FrequentLists(s.cache_map, ReportTop)) = 1
             /\ Cardinality(DistantLists(s.cache_map, ReportTop)) = 1
  <2>1. IsFiniteSet(Lines(s))
    BY <1>2, LinesFinite
  <2>2. Lines(s) \in SUBSET Int
    <3>1. s.ref_list \in Seq(Addr) /\ ToSet(s.ref_list) = Lines(s)
      BY <1>2 DEF ShardTypes
    <3>2. Lines(s) \subseteq Addr
      BY <3>1 DEF ToSet
    <3>3. QED
      BY <3>2, ReuseAssumption
  <2>3. s.cache_map \in [Lines(s) -> Line]
    BY <1>2 DEF ShardTypes
  <2>4. QED
    BY <1>1, <2>1, <2>2, <2>3
<1>3. ASSUME GlobalsInv, ShardsInv, Outcomes, History
      PROVE  ListsDetermined
  <2>1. ASSUME NEW s \in {report.aggregate} \cup Range(shard_map)
        PROVE  /\ Cardinality(FrequentLists(s.cache_map, ReportTop)) = 1
               /\ Cardinality(DistantLists(s.cache_map, ReportTop)) = 1
    <3>1. CASE s \in Range(shard_map)
      <4>1. ShardTypes(s)
        BY <1>3, <3>1 DEF Range, ShardsInv
      <4>2. QED
        BY <1>2, <4>1
    <3>2. CASE s = report.aggregate /\ outcome # Printed
      <4>1. s = EmptyShard
        BY <1>3, <3>2 DEF Outcomes, NoReport
      <4>2. QED
        BY <1>2, <4>1, EmptyShardIs
    <3>3. CASE s = report.aggregate /\ outcome = Printed
      <4>1. s = Merge(shard_map)
        BY <1>3, <3>3 DEF Outcomes, Reported
      <4>2. GlobalsTypeOK
        BY <1>3 DEF GlobalsInv
      <4>3. s.cache_map \in [ToSet(trace) -> Line]
        BY <1>3, <4>1, <4>2, MergedLines
      <4>4. IsFiniteSet(ToSet(trace)) /\ ToSet(trace) \in SUBSET Int
        BY <4>2, TraceAddresses
      <4>5. QED
        BY <1>1, <4>3, <4>4
    <3>4. QED
      BY <2>1, <3>1, <3>2, <3>3
  <2>2. QED
    BY <2>1 DEF ListsDetermined
<1>4. QED
  BY <1>3, ReuseInvariant, PTL

\* A list of N entries.
LEMMA ListLength ==
    ASSUME NEW A, NEW N \in Nat, NEW t \in [1..N -> A]
    PROVE  Len(t) = N /\ DOMAIN t = 1..N
<1>1. t \in Seq(A)
  OBVIOUS
<1>2. QED
  BY <1>1, LenProperties

\* The first n entries of a best list are n elements.
Leading(t, n) == {t[i] : i \in 1..n}

LEMMA LeadingSize ==
    ASSUME NEW A, NEW R, NEW N \in Nat, NEW t, Best(t, A, R, N), NEW n \in 1..N
    PROVE  IsFiniteSet(Leading(t, n)) /\ Cardinality(Leading(t, n)) = n
<1>1. t \in [1..N -> A] /\ \A i, j \in 1..N : i # j => t[i] # t[j]
  BY DEF Best
<1>2. PICK u : u = [i \in 1..n |-> t[i]]
  OBVIOUS
<1>3. n \in Nat /\ u \in [1..n -> A] /\ u \in Seq(A)
  BY <1>1, <1>2
<1>4. Len(u) = n /\ DOMAIN u = 1..n
  BY <1>3, ListLength
<1>5. IsInjective(u)
  BY <1>1, <1>2, <1>4 DEF IsInjective
<1>6. ToSet(u) = Leading(t, n)
  BY <1>2, <1>4 DEF ToSet, Leading
<1>7. QED
  BY <1>3, <1>4, <1>5, <1>6, ListSize

\* Of two sets of one size the one with the greater values has the greater sum:
\* what only S has is no more than v, and v no more than what only P has.
LEMMA GreaterSum ==
    ASSUME NEW P, NEW S, IsFiniteSet(P), IsFiniteSet(S), Cardinality(S) = Cardinality(P),
           NEW f, \A x \in S \cup P : f[x] \in Nat, NEW v \in Nat,
           \A x \in P : v <= f[x], \A x \in S : x \notin P => f[x] <= v
    PROVE  SumFunctionOnSet(f, S) <= SumFunctionOnSet(f, P)
<1>1. PICK B, C, D : B = S \cap P /\ C = S \ P /\ D = P \ S
  OBVIOUS
<1>2. /\ S = B \cup C /\ \A x \in B : x \notin C
      /\ P = B \cup D /\ \A x \in B : x \notin D
  BY <1>1
<1>3. IsFiniteSet(B) /\ IsFiniteSet(C) /\ IsFiniteSet(D)
  <2>1. B \subseteq S /\ C \subseteq S /\ D \subseteq P
    BY <1>1
  <2>2. QED
    BY <2>1, FS_Subset
<1>4. Cardinality(B) \in Nat /\ Cardinality(C) \in Nat /\ Cardinality(D) \in Nat
  BY <1>3, FS_CardinalityType
<1>5. Cardinality(C) = Cardinality(D)
  <2>1. /\ Cardinality(B \cup C) = Cardinality(B) + Cardinality(C) - Cardinality(B \cap C)
        /\ Cardinality(B \cup D) = Cardinality(B) + Cardinality(D) - Cardinality(B \cap D)
    BY <1>3, FS_Union
  <2>2. B \cap C = {} /\ B \cap D = {}
    BY <1>2
  <2>3. Cardinality(B \cap C) = 0 /\ Cardinality(B \cap D) = 0
    BY <2>2, FS_EmptySet
  <2>4. Cardinality(B \cup C) = Cardinality(B \cup D)
    BY <1>2
  <2>5. QED
    BY <1>4, <2>1, <2>3, <2>4
<1>6. PICK c : c = [x \in S \cup P |-> v]
  OBVIOUS
<1>7. (\A x \in C : f[x] \in Nat /\ c[x] = v /\ f[x] <= c[x])
      /\ \A x \in D : f[x] \in Nat /\ c[x] = v /\ c[x] <= f[x]
  BY <1>1, <1>6
<1>8. SumFunctionOnSet(f, C) <= SumFunctionOnSet(c, C)
  BY <1>3, <1>7, SumMonotone
<1>9. SumFunctionOnSet(c, D) <= SumFunctionOnSet(f, D)
  BY <1>3, <1>7, SumMonotone
<1>10. SumFunctionOnSet(c, C) = SumFunctionOnSet(c, D)
  BY <1>3, <1>5, <1>7, SumConstant
<1>11. /\ SumFunctionOnSet(f, B) \in Nat /\ SumFunctionOnSet(f, C) \in Nat
       /\ SumFunctionOnSet(f, D) \in Nat /\ SumFunctionOnSet(c, D) \in Nat
  <2>1. /\ \A x \in B : f[x] \in Nat
        /\ \A x \in D : c[x] \in Nat
    BY <1>1, <1>7
  <2>2. QED
    BY <1>3, <1>7, <2>1, SumType
<1>12. SumFunctionOnSet(f, B \cup C) = SumFunctionOnSet(f, B) + SumFunctionOnSet(f, C)
  <2>1. \A x \in B \cup C : f[x] \in Nat
    BY <1>2
  <2>2. QED
    BY <1>2, <1>3, <2>1, SumUnion
<1>13. SumFunctionOnSet(f, B \cup D) = SumFunctionOnSet(f, B) + SumFunctionOnSet(f, D)
  <2>1. \A x \in B \cup D : f[x] \in Nat
    BY <1>2
  <2>2. QED
    BY <1>2, <1>3, <2>1, SumUnion
<1>14. SumFunctionOnSet(f, B \cup C) <= SumFunctionOnSet(f, B \cup D)
  BY <1>8, <1>9, <1>10, <1>11, <1>12, <1>13
<1>15. QED
  BY <1>2, <1>14

\* The first list: an address that is not among the first i entries has no more
\* references than the i-th.
LEMMA FrequentFirst ==
    ASSUME NEW Keys, NEW lines \in [Keys -> Line], NEW N \in Nat, NEW t,
           Best(t, Keys, TotalRefsLess(lines), N),
           NEW i \in 1..N, NEW a \in Keys, \A j \in 1..i : t[j] # a
    PROVE  lines[a].total_refs <= lines[t[i]].total_refs
<1>1. t[i] \in Keys /\ a # t[i]
  BY DEF Best
<1>2. <<a, t[i]>> \notin TotalRefsLess(lines)
  <2>1. CASE \A j \in 1..N : t[j] # a
    BY <2>1 DEF Best
  <2>2. CASE \E j \in 1..N : t[j] = a
    <3>1. PICK j \in 1..N : t[j] = a
      BY <2>2
    <3>2. i < j
      BY <3>1
    <3>3. QED
      BY <3>1, <3>2 DEF Best
  <2>3. QED
    BY <2>1, <2>2
<1>3. ~CmpTotalRefs(lines, a, t[i])
  BY <1>1, <1>2 DEF TotalRefsLess
<1>4. lines[a].total_refs \in Nat /\ lines[t[i]].total_refs \in Nat
  BY <1>1 DEF Line
<1>5. QED
  BY <1>3, <1>4 DEF CmpTotalRefs

\* The second list: it has no more distant references.
LEMMA DistantFirst ==
    ASSUME NEW Keys, NEW lines \in [Keys -> Line], NEW N \in Nat, NEW t,
           Best(t, Keys, DistantRefsLess(lines), N),
           NEW i \in 1..N, NEW a \in Keys, \A j \in 1..i : t[j] # a
    PROVE  lines[a].distant_refs <= lines[t[i]].distant_refs
<1>1. t[i] \in Keys /\ a # t[i]
  BY DEF Best
<1>2. <<a, t[i]>> \notin DistantRefsLess(lines)
  <2>1. CASE \A j \in 1..N : t[j] # a
    BY <2>1 DEF Best
  <2>2. CASE \E j \in 1..N : t[j] = a
    <3>1. PICK j \in 1..N : t[j] = a
      BY <2>2
    <3>2. i < j
      BY <3>1
    <3>3. QED
      BY <3>1, <3>2 DEF Best
  <2>3. QED
    BY <2>1, <2>2
<1>3. ~CmpDistantRefs(lines, a, t[i])
  BY <1>1, <1>2 DEF DistantRefsLess
<1>4. lines[a].distant_refs \in Nat /\ lines[t[i]].distant_refs \in Nat
  BY <1>1 DEF Line
<1>5. QED
  BY <1>3, <1>4 DEF CmpDistantRefs

\* So no n addresses have more distant references than the first n of the list.
LEMMA DistantSum ==
    ASSUME NEW Keys, IsFiniteSet(Keys), NEW lines \in [Keys -> Line], NEW N \in Nat, NEW t,
           Best(t, Keys, DistantRefsLess(lines), N),
           NEW n \in 1..N, NEW S \in kSubset(n, Keys),
           NEW f, \A a \in Keys : f[a] = lines[a].distant_refs
    PROVE  SumFunctionOnSet(f, S) <= SumFunctionOnSet(f, Leading(t, n))
<1>1. PICK P : P = Leading(t, n)
  OBVIOUS
<1>2. t \in [1..N -> Keys] /\ \A i, j \in 1..N : i # j => t[i] # t[j]
  BY DEF Best
<1>3. IsFiniteSet(P) /\ Cardinality(P) = n
  BY <1>1, LeadingSize
<1>4. S \subseteq Keys /\ Cardinality(S) = n
  BY DEF kSubset
<1>5. IsFiniteSet(S)
  BY <1>4, FS_Subset
<1>6. P \subseteq Keys
  BY <1>1, <1>2 DEF Leading
<1>7. PICK v : v = f[t[n]]
  OBVIOUS
<1>8. \A a \in Keys : f[a] \in Nat
  BY DEF Line
<1>9. t[n] \in Keys /\ v = lines[t[n]].distant_refs /\ v \in Nat
  BY <1>2, <1>7, <1>8
<1>10. ASSUME NEW x \in P PROVE v <= f[x]
  <2>1. PICK i \in 1..n : x = t[i]
    BY <1>1, <1>10 DEF Leading
  <2>2. CASE i = n
    BY <1>7, <1>9, <2>1, <2>2
  <2>3. CASE i # n
    <3>1. i \in 1..N /\ \A j \in 1..i : j \in 1..N /\ j # n
      BY <2>1, <2>3
    <3>2. \A j \in 1..i : t[j] # t[n]
      BY <1>2, <3>1
    <3>3. lines[t[n]].distant_refs <= lines[t[i]].distant_refs
      BY <1>9, <3>1, <3>2, DistantFirst
    <3>4. t[i] \in Keys
      BY <1>2, <3>1
    <3>5. QED
      BY <1>9, <2>1, <3>3, <3>4
  <2>4. QED
    BY <2>2, <2>3
<1>11. ASSUME NEW x \in S, x \notin P PROVE f[x] <= v
  <2>1. x \in Keys /\ \A j \in 1..n : t[j] # x
    BY <1>1, <1>4, <1>11 DEF Leading
  <2>2. lines[x].distant_refs <= lines[t[n]].distant_refs
    BY <2>1, DistantFirst
  <2>3. QED
    BY <1>9, <2>1, <2>2
<1>12. \A x \in S \cup P : f[x] \in Nat
  BY <1>4, <1>6, <1>8
<1>13. SumFunctionOnSet(f, S) <= SumFunctionOnSet(f, P)
  BY <1>3, <1>4, <1>5, <1>9, <1>10, <1>11, <1>12, GreaterSum
<1>14. QED
  BY <1>1, <1>13

\* The printed lists put the addresses with the most references first, and
\* those with the most distant ones (lines 629-632, 648-651).
THEOREM ReuseListsExact == Spec => []ListsExact
<1>1. ASSUME GlobalsInv, ShardsInv, Outcomes, History, outcome = Printed
      PROVE  LET UsedKeys(a) == Cardinality({i \in DOMAIN trace : trace[i] = a})
                 Distant(S) == SumOver(S, LAMBDA a : report.aggregate.cache_map[a].distant_refs)
                 first  == report.frequent
                 second == report.distant
             IN  /\ Len(first) = Min({ReportTop, Cardinality(ToSet(trace))})
                 /\ \A i \in DOMAIN first, a \in ToSet(trace) :
                      a \notin {first[j] : j \in 1..i} => UsedKeys(a) <= UsedKeys(first[i])
                 /\ Len(second) = Len(first)
                 /\ \A n \in DOMAIN second : \A S \in kSubset(n, ToSet(trace)) :
                      Distant(S) <= Distant({second[i] : i \in 1..n})
  <2>1. PICK cm, Keys, N : /\ cm = Merge(shard_map).cache_map
                           /\ Keys = ToSet(trace)
                           /\ N = Size(cm, ReportTop)
    OBVIOUS
  <2>2. GlobalsTypeOK /\ ReportTop \in Nat
    BY <1>1, ReuseAssumption DEF GlobalsInv
  <2>3. cm \in [Keys -> Line]
    BY <1>1, <2>1, <2>2, MergedLines
  <2>4. IsFiniteSet(Keys) /\ Keys \in SUBSET Int /\ DOMAIN cm = Keys
    BY <2>1, <2>2, <2>3, TraceAddresses
  <2>5. N \in Nat /\ N = Min({ReportTop, Cardinality(Keys)})
    BY <2>1, <2>2, <2>4, SizeType DEF Size
  <2>6. PICK first \in FrequentLists(cm, ReportTop), second \in DistantLists(cm, ReportTop) :
          /\ report.frequent = first /\ report.distant = second
          /\ report.aggregate = Merge(shard_map)
    BY <1>1, <2>1 DEF Outcomes, Reported
  <2>7. Best(first, Keys, TotalRefsLess(cm), N)
    BY <2>1, <2>2, <2>4, <2>6, TopListsAre DEF FrequentLists
  <2>8. Best(second, Keys, DistantRefsLess(cm), N)
    BY <2>1, <2>2, <2>4, <2>6, TopListsAre DEF DistantLists
  <2>9. /\ first \in [1..N -> Keys] /\ Len(first) = N /\ DOMAIN first = 1..N
        /\ second \in [1..N -> Keys] /\ Len(second) = N /\ DOMAIN second = 1..N
    BY <2>5, <2>7, <2>8, ListLength DEF Best
  <2>10. ASSUME NEW i \in 1..N, NEW a \in Keys, a \notin {first[j] : j \in 1..i}
         PROVE  Cardinality({k \in DOMAIN trace : trace[k] = a})
                  <= Cardinality({k \in DOMAIN trace : trace[k] = first[i]})
    <3>1. \A j \in 1..i : first[j] # a
      BY <2>10
    <3>2. cm[a].total_refs <= cm[first[i]].total_refs
      BY <2>3, <2>5, <2>7, <2>10, <3>1, FrequentFirst
    <3>3. a \in DOMAIN cm /\ first[i] \in DOMAIN cm
      BY <2>4, <2>9, <2>10
    <3>4. \A b \in DOMAIN cm :
            cm[b].total_refs = Cardinality({k \in DOMAIN trace : trace[k] = b})
      BY <1>1, <2>1, <2>2, MergedUses
    <3>5. QED
      BY <3>2, <3>3, <3>4
  <2>11. ASSUME NEW n \in 1..N, NEW S \in kSubset(n, Keys)
         PROVE  SumFunction([a \in S |-> cm[a].distant_refs])
                  <= SumFunction([a \in {second[i] : i \in 1..n} |-> cm[a].distant_refs])
    <3>1. PICK P : P = Leading(second, n)
      OBVIOUS
    <3>2. PICK f, g, h : /\ f = [a \in Keys |-> cm[a].distant_refs]
                         /\ g = [a \in S |-> cm[a].distant_refs]
                         /\ h = [a \in P |-> cm[a].distant_refs]
      OBVIOUS
    <3>3. S \subseteq Keys /\ P \subseteq Keys
      BY <2>9, <2>11, <3>1 DEF kSubset, Leading
    <3>4. IsFiniteSet(S) /\ IsFiniteSet(P)
      BY <2>4, <3>3, FS_Subset
    <3>5. \A a \in Keys : cm[a].distant_refs \in Nat
      BY <2>3 DEF Line
    <3>6. SumFunctionOnSet(f, S) <= SumFunctionOnSet(f, P)
      <4>1. \A a \in Keys : f[a] = cm[a].distant_refs
        BY <3>2
      <4>2. SumFunctionOnSet(f, S) <= SumFunctionOnSet(f, Leading(second, n))
        BY <2>3, <2>4, <2>5, <2>8, <2>11, <4>1, DistantSum
      <4>3. QED
        BY <3>1, <4>2
    <3>7. (\A a \in S : f[a] \in Nat /\ f[a] = g[a]) /\ \A a \in P : f[a] \in Nat /\ f[a] = h[a]
      BY <3>2, <3>3, <3>5
    <3>8. /\ SumFunctionOnSet(f, S) = SumFunctionOnSet(g, S)
          /\ SumFunctionOnSet(f, P) = SumFunctionOnSet(h, P)
      BY <3>4, <3>7, SumSame
    <3>9. DOMAIN g = S /\ DOMAIN h = P
      BY <3>2
    <3>10. SumFunction(g) <= SumFunction(h)
      BY <3>6, <3>8, <3>9 DEF SumFunction
    <3>11. QED
      BY <3>1, <3>2, <3>10 DEF Leading
  <2>12. /\ report.frequent = first /\ report.distant = second
         /\ report.aggregate.cache_map = cm
    BY <2>1, <2>6
  <2>13. /\ Len(report.frequent) = Min({ReportTop, Cardinality(ToSet(trace))})
         /\ Len(report.distant) = Len(report.frequent)
    BY <2>1, <2>5, <2>9, <2>12
  <2>14. \A i \in DOMAIN report.frequent, a \in ToSet(trace) :
           a \notin {report.frequent[j] : j \in 1..i} =>
             Cardinality({k \in DOMAIN trace : trace[k] = a})
               <= Cardinality({k \in DOMAIN trace : trace[k] = report.frequent[i]})
    BY <2>1, <2>9, <2>10, <2>12
  <2>15. \A n \in DOMAIN report.distant : \A S \in kSubset(n, ToSet(trace)) :
           SumFunction([a \in S |-> report.aggregate.cache_map[a].distant_refs])
             <= SumFunction([a \in {report.distant[i] : i \in 1..n} |->
                               report.aggregate.cache_map[a].distant_refs])
    BY <2>1, <2>9, <2>11, <2>12
  <2>16. QED
    BY <2>13, <2>14, <2>15 DEF SumOver
<1>2. ASSUME GlobalsInv, ShardsInv, Outcomes, History
      PROVE  ListsExact
  BY <1>1, <1>2 DEF ListsExact
<1>3. QED
  BY <1>2, ReuseInvariant, PTL

=============================================================================
