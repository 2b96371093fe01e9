------------------------------ MODULE DataProofs -----------------------------
(***************************************************************************)
(* Facts about the data of the tools, whatever component they belong to:   *)
(* sums of counters, numbers of elements, and lists in order of use.       *)
(*                                                                         *)
(* The sums are SumFunctionOnSet of module Functions, for functions of     *)
(* natural numbers on finite sets.  The operator is a fold in an           *)
(* unspecified order; that the order does not matter follows from reading  *)
(* the sum as the size of the set of pairs <<x, k>> with k in 1..f[x].     *)
(***************************************************************************)
EXTENDS Integers, Sequences, FiniteSets, SequencesExt, Functions,
        FiniteSetTheorems, SequenceTheorems, WellFoundedInduction, TLAPS

\* The pairs that a sum counts.
Pairs(f, T) == UNION {{x} \X (1 .. f[x]) : x \in T}

\* The recursive function the fold is defined by.
Adds(it, f, T) ==
    it = [s \in SUBSET T |->
            IF s = {} THEN 0
            ELSE f[CHOOSE x \in s : TRUE] + it[s \ {CHOOSE x \in s : TRUE}]]

-----------------------------------------------------------------------------
(* The sum as a number of pairs. *)

\* The number of pairs with one first component.
LEMMA RowSize ==
    ASSUME NEW x, NEW n \in Nat
    PROVE  IsFiniteSet({x} \X (1 .. n)) /\ Cardinality({x} \X (1 .. n)) = n
<1>1. IsFiniteSet({x}) /\ Cardinality({x}) = 1
  BY FS_Singleton
<1>2. IsFiniteSet(1 .. n) /\ Cardinality(1 .. n) = n
  <2>1. IsFiniteSet(1 .. n) /\ Cardinality(1 .. n) = IF 1 > n THEN 0 ELSE n - 1 + 1
    BY FS_Interval
  <2>2. QED
    BY <2>1
<1>3. /\ IsFiniteSet({x} \X (1 .. n))
      /\ Cardinality({x} \X (1 .. n)) = Cardinality({x}) * Cardinality(1 .. n)
  BY <1>1, <1>2, FS_Product, Zenon
<1>4. QED
  BY <1>1, <1>2, <1>3

\* The pairs are finitely many.
LEMMA PairsFinite ==
    ASSUME NEW T, IsFiniteSet(T), NEW f, \A x \in T : f[x] \in Nat
    PROVE  IsFiniteSet(Pairs(f, T)) /\ Cardinality(Pairs(f, T)) \in Nat
<1> DEFINE Row(x) == {x} \X (1 .. f[x])
           rows   == {Row(x) : x \in T}
           row    == [x \in T |-> Row(x)]
<1>1. IsFiniteSet(rows)
  <2>1. row \in Surjection(T, rows)
    BY Zenon DEF Surjection
  <2>2. QED
    BY <2>1, FS_Surjection, Zenon
<1>2. \A r \in rows : IsFiniteSet(r)
  <2>1. ASSUME NEW x \in T
        PROVE  IsFiniteSet(Row(x))
    BY RowSize
  <2>2. QED
    BY <2>1
<1>3. IsFiniteSet(UNION rows)
  BY <1>1, <1>2, FS_UNION, Zenon
<1>4. QED
  BY <1>3, FS_CardinalityType, Zenon DEF Pairs

\* An element contributes as many pairs as its value.
LEMMA PairsRemove ==
    ASSUME NEW T, IsFiniteSet(T), NEW f, \A x \in T : f[x] \in Nat, NEW x \in T
    PROVE  Cardinality(Pairs(f, T)) = f[x] + Cardinality(Pairs(f, T \ {x}))
<1> DEFINE row  == {x} \X (1 .. f[x])
           rest == Pairs(f, T \ {x})
<1>1. Pairs(f, T) = row \cup rest
  BY DEF Pairs
<1>2. row \cap rest = {}
  BY DEF Pairs
<1>3. IsFiniteSet(row) /\ Cardinality(row) = f[x]
  BY RowSize, Zenon
<1>4. IsFiniteSet(rest) /\ Cardinality(rest) \in Nat
  <2>1. IsFiniteSet(T \ {x})
    BY FS_RemoveElement, Zenon
  <2>2. QED
    BY <2>1, PairsFinite
<1> HIDE DEF row, rest
<1>5. Cardinality(row \cup rest) = Cardinality(row) + Cardinality(rest) - Cardinality(row \cap rest)
  BY <1>3, <1>4, FS_Union, Zenon
<1>6. Cardinality(row \cap rest) = 0
  BY <1>2, FS_EmptySet
<1>7. QED
  BY <1>1, <1>3, <1>4, <1>5, <1>6 DEF rest

\* Without elements there are no pairs.
LEMMA PairsEmpty == \A f : Cardinality(Pairs(f, {})) = 0
<1>1. \A f : Pairs(f, {}) = {}
  BY DEF Pairs
<1>2. QED
  BY <1>1, FS_EmptySet, Zenon

\* The fold computes the number of pairs.
LEMMA SumIsPairs ==
    ASSUME NEW T, IsFiniteSet(T), NEW f, \A x \in T : f[x] \in Nat
    PROVE  SumFunctionOnSet(f, T) = Cardinality(Pairs(f, T))
<1> DEFINE size  == [s \in SUBSET T |-> Cardinality(Pairs(f, s))]
           first(s) == CHOOSE x \in s : TRUE
           it == CHOOSE g : Adds(g, f, T)
<1>1. \A s \in SUBSET T : IsFiniteSet(s)
  BY FS_Subset, Zenon
<1>2. \A s \in SUBSET T : s # {} => /\ first(s) \in s
                                    /\ s \ {first(s)} \in SUBSET T
  BY Zenon
<1>3. \A s \in SUBSET T : s # {} => size[s] = f[first(s)] + size[s \ {first(s)}]
  <2> SUFFICES ASSUME NEW s \in SUBSET T, s # {}
               PROVE  size[s] = f[first(s)] + size[s \ {first(s)}]
    OBVIOUS
  <2>1. IsFiniteSet(s) /\ first(s) \in s /\ \A x \in s : f[x] \in Nat
    BY <1>1, <1>2
  <2> HIDE DEF first
  <2>2. Cardinality(Pairs(f, s)) = f[first(s)] + Cardinality(Pairs(f, s \ {first(s)}))
    BY <2>1, PairsRemove
  <2>3. QED
    BY <2>2
<1>4. Adds(size, f, T)
  <2>1. size[{}] = 0
    BY PairsEmpty
  <2>2. \A s \in SUBSET T :
          size[s] = IF s = {} THEN 0 ELSE f[first(s)] + size[s \ {first(s)}]
    BY <1>3, <2>1
  <2>3. QED
    BY <2>2, Zenon DEF Adds
<1>5. Adds(it, f, T)
  BY <1>4, Zenon
<1>6. \A s \in SUBSET T :
        it[s] = IF s = {} THEN 0 ELSE f[first(s)] + it[s \ {first(s)}]
  BY <1>5, Zenon DEF Adds
<1> HIDE DEF it, size, first
<1>7. \A s \in SUBSET T : it[s] = size[s]
  <2> DEFINE bad == {s \in SUBSET T : it[s] # size[s]}
  <2>1. SUFFICES ASSUME bad # {}
                 PROVE  FALSE
    BY Zenon
  <2>2. IsWellFoundedOn(StrictSubsetOrdering(T), FiniteSubsetsOf(T))
    BY FS_StrictSubsetOrderingWellFounded
  <2>3. bad \subseteq FiniteSubsetsOf(T)
    BY <1>1 DEF FiniteSubsetsOf
  <2>4. PICK s \in bad : \A t \in bad : ~(<<t, s>> \in StrictSubsetOrdering(T))
    BY <2>1, <2>2, <2>3, WFMin, Zenon
  <2>5. s # {}
    BY <1>4, <1>6 DEF Adds
  <2>6. s \ {first(s)} \notin bad
    BY <1>2, <2>4, <2>5 DEF StrictSubsetOrdering
  <2>7. it[s \ {first(s)}] = size[s \ {first(s)}]
    BY <1>2, <2>5, <2>6
  <2>8. QED
    BY <1>3, <1>6, <2>5, <2>7
<1>8. T \in SUBSET T
  OBVIOUS
<1>9. SumFunctionOnSet(f, T) = it[T]
  BY Zenon DEF it, Adds, SumFunctionOnSet, FoldFunctionOnSet, MapThenFoldSet
<1>10. QED
  BY <1>7, <1>8, <1>9 DEF size

-----------------------------------------------------------------------------
(* What the proofs about the tools use. *)

\* A sum of natural numbers is one.
LEMMA SumType ==
    ASSUME NEW T, IsFiniteSet(T), NEW f, \A x \in T : f[x] \in Nat
    PROVE  SumFunctionOnSet(f, T) \in Nat
  BY SumIsPairs, PairsFinite

\* Nothing adds up to 0.
LEMMA SumEmpty == \A f : SumFunctionOnSet(f, {}) = 0
<1>1. ASSUME NEW f
      PROVE  SumFunctionOnSet(f, {}) = 0
  <2>1. SumFunctionOnSet(f, {}) = Cardinality(Pairs(f, {}))
    BY FS_EmptySet, SumIsPairs
  <2>2. QED
    BY <2>1, PairsEmpty
<1>2. QED
  BY <1>1

\* An element can be taken out of a sum.
LEMMA SumRemove ==
    ASSUME NEW T, IsFiniteSet(T), NEW f, \A x \in T : f[x] \in Nat, NEW x \in T
    PROVE  SumFunctionOnSet(f, T) = f[x] + SumFunctionOnSet(f, T \ {x})
<1>1. IsFiniteSet(T \ {x})
  BY FS_RemoveElement
<1>2. SumFunctionOnSet(f, T \ {x}) = Cardinality(Pairs(f, T \ {x}))
  BY <1>1, SumIsPairs
<1>3. QED
  BY <1>2, SumIsPairs, PairsRemove

\* Only the values on the set matter, and greater values give a greater sum.
LEMMA SumMonotone ==
    ASSUME NEW T, IsFiniteSet(T), NEW f, NEW g,
           \A x \in T : f[x] \in Nat /\ g[x] \in Nat /\ f[x] <= g[x]
    PROVE  SumFunctionOnSet(f, T) <= SumFunctionOnSet(g, T)
<1>1. Pairs(f, T) \in SUBSET Pairs(g, T)
  <2>1. ASSUME NEW x \in T
        PROVE  {x} \X (1 .. f[x]) \subseteq {x} \X (1 .. g[x])
    OBVIOUS
  <2>2. QED
    BY <2>1 DEF Pairs
<1>2. IsFiniteSet(Pairs(g, T))
  BY PairsFinite
<1>3. Cardinality(Pairs(f, T)) <= Cardinality(Pairs(g, T))
  BY <1>1, <1>2, FS_Subset
<1>4. QED
  BY <1>3, SumIsPairs

\* Functions that agree on a set have the same sum there.
LEMMA SumSame ==
    ASSUME NEW T, IsFiniteSet(T), NEW f, NEW g,
           \A x \in T : f[x] \in Nat /\ f[x] = g[x]
    PROVE  SumFunctionOnSet(f, T) = SumFunctionOnSet(g, T)
<1>1. SumFunctionOnSet(f, T) \in Nat /\ SumFunctionOnSet(g, T) \in Nat
  BY SumType
<1>2. /\ SumFunctionOnSet(f, T) <= SumFunctionOnSet(g, T)
      /\ SumFunctionOnSet(g, T) <= SumFunctionOnSet(f, T)
  BY SumMonotone
<1>3. QED
  BY <1>1, <1>2

\* When one value changes, the sum changes by as much.
LEMMA SumUpdate ==
    ASSUME NEW T, IsFiniteSet(T), NEW f, NEW g, NEW x \in T,
           \A y \in T : f[y] \in Nat /\ g[y] \in Nat,
           \A y \in T : y # x => f[y] = g[y]
    PROVE  SumFunctionOnSet(g, T) = SumFunctionOnSet(f, T) - f[x] + g[x]
<1>1. IsFiniteSet(T \ {x})
  BY FS_RemoveElement
<1>2. /\ SumFunctionOnSet(f, T \ {x}) = SumFunctionOnSet(g, T \ {x})
      /\ SumFunctionOnSet(f, T \ {x}) \in Nat
  BY <1>1, SumSame, SumType
<1>3. /\ SumFunctionOnSet(f, T) = f[x] + SumFunctionOnSet(f, T \ {x})
      /\ SumFunctionOnSet(g, T) = g[x] + SumFunctionOnSet(g, T \ {x})
  BY SumRemove
<1>4. QED
  BY <1>2, <1>3

\* A new element adds its value.
LEMMA SumAdd ==
    ASSUME NEW T, IsFiniteSet(T), NEW x, x \notin T, NEW f, NEW g,
           \A y \in T : f[y] \in Nat /\ g[y] = f[y], g[x] \in Nat
    PROVE  SumFunctionOnSet(g, T \cup {x}) = SumFunctionOnSet(f, T) + g[x]
<1> DEFINE U == T \cup {x}
<1>1. IsFiniteSet(U) /\ x \in U /\ U \ {x} = T /\ \A y \in U : g[y] \in Nat
  BY FS_AddElement
<1>2. SumFunctionOnSet(g, U) = g[x] + SumFunctionOnSet(g, T)
  <2> HIDE DEF U
  <2>1. SumFunctionOnSet(g, U) = g[x] + SumFunctionOnSet(g, U \ {x})
    BY <1>1, SumRemove
  <2>2. QED
    BY <1>1, <2>1
<1>3. SumFunctionOnSet(g, T) = SumFunctionOnSet(f, T)
  BY SumSame
<1>4. SumFunctionOnSet(f, T) \in Nat
  BY SumType
<1>5. QED
  BY <1>2, <1>3, <1>4

\* A function grows for one argument, which may be new: the sum grows by as much.
LEMMA SumGrows ==
    ASSUME NEW F, NEW G, NEW a, IsFiniteSet(DOMAIN F), DOMAIN G = DOMAIN F \cup {a},
           \A b \in DOMAIN F : F[b] \in Nat,
           \A b \in DOMAIN G : G[b] \in Nat,
           \A b \in DOMAIN F : b # a => F[b] = G[b],
           NEW d \in Nat, G[a] = (IF a \in DOMAIN F THEN F[a] ELSE 0) + d
    PROVE  SumFunction(F) \in Nat /\ SumFunction(G) = SumFunction(F) + d
<1>1. PICK T : T = DOMAIN F
  OBVIOUS
<1>2. SumFunction(F) = SumFunctionOnSet(F, T) /\ SumFunction(G) = SumFunctionOnSet(G, T \cup {a})
  BY <1>1, Zenon DEF SumFunction
<1>3. IsFiniteSet(T)
  BY <1>1
<1>4. \A y \in T : F[y] \in Nat /\ G[y] \in Nat
  BY <1>1
<1>5. G[a] \in Nat
  OBVIOUS
<1>6. \A y \in T : y # a => F[y] = G[y]
  BY <1>1
<1>7. SumFunctionOnSet(F, T) \in Nat
  BY <1>3, <1>4, SumType, Zenon
<1>8. CASE a \in T
  <2>1. T \cup {a} = T
    BY <1>8
  <2>2. SumFunctionOnSet(G, T) = SumFunctionOnSet(F, T) - F[a] + G[a]
    BY <1>3, <1>4, <1>6, <1>8, SumUpdate
  <2>3. QED
    BY <1>1, <1>2, <1>7, <1>8, <2>1, <2>2
<1>9. CASE a \notin T
  <2>1. \A y \in T : F[y] \in Nat /\ G[y] = F[y]
    BY <1>4, <1>6, <1>9
  <2>2. SumFunctionOnSet(G, T \cup {a}) = SumFunctionOnSet(F, T) + G[a]
    BY <1>3, <1>5, <1>9, <2>1, SumAdd
  <2>3. QED
    BY <1>1, <1>2, <1>5, <1>7, <1>9, <2>2
<1>10. QED
  BY <1>8, <1>9

\* The same when the functions are known by their sets.
LEMMA FunctionGrows ==
    ASSUME NEW D, IsFiniteSet(D), NEW F \in [D -> Nat], NEW a, NEW G \in [D \cup {a} -> Nat],
           NEW d \in Nat,
           \A b \in D : b # a => G[b] = F[b],
           a \in D => G[a] = F[a] + d,
           a \notin D => G[a] = d
    PROVE  SumFunction(F) \in Nat /\ SumFunction(G) = SumFunction(F) + d
<1>1. SumFunction(F) = SumFunctionOnSet(F, D) /\ SumFunction(G) = SumFunctionOnSet(G, D \cup {a})
  BY DEF SumFunction
<1>2. \A x \in D : F[x] \in Nat /\ G[x] \in Nat
  OBVIOUS
<1>3. SumFunctionOnSet(F, D) \in Nat
  BY <1>2, SumType
<1>4. CASE a \in D
  <2>1. D \cup {a} = D
    BY <1>4
  <2>2. \A y \in D : y # a => F[y] = G[y]
    OBVIOUS
  <2>3. SumFunctionOnSet(G, D) = SumFunctionOnSet(F, D) - F[a] + G[a]
    BY <1>2, <1>4, <2>2, SumUpdate
  <2>4. F[a] \in Nat /\ G[a] = F[a] + d
    BY <1>4
  <2>5. PICK m : m = SumFunctionOnSet(F, D)
    OBVIOUS
  <2>6. PICK k : k = F[a]
    OBVIOUS
  <2>7. m - k + (k + d) = m + d
    BY <1>3, <2>4, <2>5, <2>6
  <2>8. QED
    BY <1>1, <1>3, <2>1, <2>3, <2>4, <2>5, <2>6, <2>7
<1>5. CASE a \notin D
  <2>1. G[a] = d /\ G[a] \in Nat
    BY <1>5
  <2>2. \A y \in D : F[y] \in Nat /\ G[y] = F[y]
    BY <1>5
  <2>3. SumFunctionOnSet(G, D \cup {a}) = SumFunctionOnSet(F, D) + G[a]
    BY <1>5, <2>1, <2>2, SumAdd
  <2>4. QED
    BY <1>1, <1>3, <2>1, <2>3
<1>6. QED
  BY <1>4, <1>5

\* Zeros add up to 0.
LEMMA SumZero ==
    ASSUME NEW T, IsFiniteSet(T), NEW f, \A x \in T : f[x] = 0
    PROVE  SumFunctionOnSet(f, T) = 0
<1>1. Pairs(f, T) = {}
  <2>1. \A x \in T : 1 .. f[x] = {}
    OBVIOUS
  <2>2. QED
    BY <2>1 DEF Pairs
<1>2. QED
  BY <1>1, SumIsPairs, FS_EmptySet

\* Equal values add up to a multiple.
LEMMA SumConstant ==
    ASSUME NEW T, IsFiniteSet(T), NEW f, NEW k \in Nat, \A x \in T : f[x] = k
    PROVE  SumFunctionOnSet(f, T) = Cardinality(T) * k
<1>1. Pairs(f, T) = T \X (1 .. k)
  BY DEF Pairs
<1>2. IsFiniteSet(1 .. k) /\ Cardinality(1 .. k) = k
  <2>1. IsFiniteSet(1 .. k) /\ Cardinality(1 .. k) = IF 1 > k THEN 0 ELSE k - 1 + 1
    BY FS_Interval
  <2>2. QED
    BY <2>1
<1>3. Cardinality(T \X (1 .. k)) = Cardinality(T) * Cardinality(1 .. k)
  BY <1>2, FS_Product, Zenon
<1>4. SumFunctionOnSet(f, T) = Cardinality(Pairs(f, T))
  BY SumIsPairs
<1>5. QED
  BY <1>1, <1>2, <1>3, <1>4

\* No value exceeds the sum it is part of.
LEMMA SumElement ==
    ASSUME NEW T, IsFiniteSet(T), NEW f, \A x \in T : f[x] \in Nat, NEW x \in T
    PROVE  f[x] <= SumFunctionOnSet(f, T)
<1>1. IsFiniteSet(T \ {x})
  BY FS_RemoveElement
<1>2. SumFunctionOnSet(f, T \ {x}) \in Nat
  BY <1>1, SumType
<1>3. QED
  BY <1>2, SumRemove

\* The elements of the set of pairs.
LEMMA PairsAre ==
    ASSUME NEW f, NEW T
    PROVE  \A p : p \in Pairs(f, T) <=> \E x \in T : \E k \in 1 .. f[x] : p = <<x, k>>
  BY DEF Pairs

\* Functions can be added before they are summed up.
LEMMA SumPlus ==
    ASSUME NEW T, IsFiniteSet(T), NEW f, NEW g, NEW h,
           \A x \in T : f[x] \in Nat /\ g[x] \in Nat /\ h[x] = f[x] + g[x]
    PROVE  SumFunctionOnSet(h, T) = SumFunctionOnSet(f, T) + SumFunctionOnSet(g, T)
<1>0. \A x \in T : h[x] \in Nat
  OBVIOUS
<1>1. PICK A : A = Pairs(f, T)
  OBVIOUS
<1>2. PICK B : B = Pairs(g, T)
  OBVIOUS
<1>3. PICK C : C = Pairs(h, T)
  OBVIOUS
<1>4. /\ \A p : p \in A <=> \E x \in T : \E k \in 1 .. f[x] : p = <<x, k>>
      /\ \A p : p \in B <=> \E x \in T : \E k \in 1 .. g[x] : p = <<x, k>>
      /\ \A p : p \in C <=> \E x \in T : \E k \in 1 .. h[x] : p = <<x, k>>
  <2>1. \A p : p \in Pairs(f, T) <=> \E x \in T : \E k \in 1 .. f[x] : p = <<x, k>>
    BY PairsAre
  <2>2. \A p : p \in Pairs(g, T) <=> \E x \in T : \E k \in 1 .. g[x] : p = <<x, k>>
    BY PairsAre
  <2>3. \A p : p \in Pairs(h, T) <=> \E x \in T : \E k \in 1 .. h[x] : p = <<x, k>>
    BY PairsAre
  <2>4. QED
    BY <1>1, <1>2, <1>3, <2>1, <2>2, <2>3
<1>5. /\ IsFiniteSet(A) /\ Cardinality(A) \in Nat
      /\ IsFiniteSet(B) /\ Cardinality(B) \in Nat
      /\ IsFiniteSet(C) /\ Cardinality(C) \in Nat
  BY <1>0, <1>1, <1>2, <1>3, PairsFinite
<1>6. PICK D : D = {p \in C : p \notin A}
  OBVIOUS
<1>7. \A p \in A : p \in C
  <2>1. \A x \in T : \A k \in 1 .. f[x] : k \in 1 .. h[x]
    OBVIOUS
  <2>2. QED
    BY <1>4, <2>1
<1>8. \A x \in T : \A k \in 1 .. g[x] : <<x, f[x] + k>> \in D
  <2> SUFFICES ASSUME NEW x \in T, NEW k \in 1 .. g[x]
               PROVE  <<x, f[x] + k>> \in D
    OBVIOUS
  <2>1. f[x] + k \in 1 .. h[x] /\ f[x] + k \notin 1 .. f[x]
    OBVIOUS
  <2>2. <<x, f[x] + k>> \in C
    BY <1>4, <2>1
  <2>3. <<x, f[x] + k>> \notin A
    <3>1. ASSUME NEW y \in T, NEW l \in 1 .. f[y], <<x, f[x] + k>> = <<y, l>>
          PROVE  FALSE
      BY <2>1, <3>1
    <3>2. QED
      BY <1>4, <3>1
  <2>4. QED
    BY <1>6, <2>2, <2>3
<1>9. \A p \in D : \E x \in T : \E k \in 1 .. g[x] : p = <<x, f[x] + k>>
  <2> SUFFICES ASSUME NEW p \in D
               PROVE  \E x \in T : \E k \in 1 .. g[x] : p = <<x, f[x] + k>>
    OBVIOUS
  <2>1. PICK x, l : x \in T /\ l \in 1 .. h[x] /\ p = <<x, l>>
    BY <1>4, <1>6
  <2>2. l \notin 1 .. f[x]
    BY <1>4, <1>6, <2>1
  <2>3. f[x] \in Nat /\ g[x] \in Nat /\ l \in 1 .. f[x] + g[x]
    BY <2>1
  <2>4. l - f[x] \in 1 .. g[x] /\ f[x] + (l - f[x]) = l
    BY <2>2, <2>3
  <2>5. QED
    BY <2>1, <2>4
<1>10. PICK shift : shift = [p \in B |-> <<p[1], f[p[1]] + p[2]>>]
  OBVIOUS
<1>11. \A x \in T : \A k \in 1 .. g[x] :
         <<x, k>> \in B /\ shift[<<x, k>>] = <<x, f[x] + k>>
  <2> SUFFICES ASSUME NEW x \in T, NEW k \in 1 .. g[x]
               PROVE  <<x, k>> \in B /\ shift[<<x, k>>] = <<x, f[x] + k>>
    OBVIOUS
  <2>1. <<x, k>> \in B
    BY <1>4
  <2>2. <<x, k>>[1] = x /\ <<x, k>>[2] = k
    OBVIOUS
  <2>3. QED
    BY <1>10, <2>1, <2>2
<1>12. shift \in Bijection(B, D)
  <2>1. shift \in [B -> D]
    <3>1. \A p \in B : shift[p] \in D
      BY <1>4, <1>8, <1>11
    <3>2. QED
      BY <1>10, <3>1
  <2>2. ASSUME NEW d \in D PROVE \E p \in B : shift[p] = d
    <3>1. PICK x, k : x \in T /\ k \in 1 .. g[x] /\ d = <<x, f[x] + k>>
      BY <1>9
    <3>2. <<x, k>> \in B /\ shift[<<x, k>>] = d
      BY <1>11, <3>1
    <3>3. QED
      BY <3>2
  <2>3. ASSUME NEW p \in B, NEW q \in B, shift[p] = shift[q]
        PROVE  p = q
    <3>1. PICK x, k : x \in T /\ k \in 1 .. g[x] /\ p = <<x, k>>
      BY <1>4
    <3>2. PICK y, l : y \in T /\ l \in 1 .. g[y] /\ q = <<y, l>>
      BY <1>4
    <3>3. <<x, f[x] + k>> = <<y, f[y] + l>>
      BY <1>11, <2>3, <3>1, <3>2
    <3>4. x = y /\ f[x] + k = f[x] + l
      BY <3>3
    <3>5. k = l
      BY <3>1, <3>2, <3>4
    <3>6. QED
      BY <3>1, <3>2, <3>4, <3>5
  <2>4. QED
    BY <2>1, <2>2, <2>3 DEF Bijection, Injection, Surjection, IsInjective
<1>13. IsFiniteSet(D) /\ Cardinality(D) = Cardinality(B)
  <2>1. ExistsBijection(B, D)
    BY <1>12, Zenon DEF ExistsBijection
  <2>2. QED
    BY <1>5, <2>1, FS_Bijection
<1>14. C = A \cup D /\ A \cap D = {}
  BY <1>6, <1>7
<1>15. Cardinality(C) = Cardinality(A) + Cardinality(B)
  <2>1. Cardinality(A \cup D) = Cardinality(A) + Cardinality(D) - Cardinality(A \cap D)
    BY <1>5, <1>13, FS_Union
  <2>2. Cardinality(A \cap D) = 0
    BY <1>14, FS_EmptySet
  <2>3. QED
    BY <1>5, <1>13, <1>14, <2>1, <2>2
<1>16. QED
  BY <1>0, <1>1, <1>2, <1>3, <1>15, SumIsPairs

\* A set can be summed up in two parts.
LEMMA SumUnion ==
    ASSUME NEW S, NEW T, IsFiniteSet(S), IsFiniteSet(T), \A x \in S : x \notin T,
           NEW f, \A x \in S \cup T : f[x] \in Nat
    PROVE  SumFunctionOnSet(f, S \cup T) = SumFunctionOnSet(f, S) + SumFunctionOnSet(f, T)
<1>1. PICK A, B, C : A = Pairs(f, S) /\ B = Pairs(f, T) /\ C = Pairs(f, S \cup T)
  OBVIOUS
<1>2. C = A \cup B /\ A \cap B = {}
  BY <1>1 DEF Pairs
<1>3. IsFiniteSet(S \cup T)
  BY FS_Union
<1>4. IsFiniteSet(A) /\ Cardinality(A) \in Nat /\ IsFiniteSet(B) /\ Cardinality(B) \in Nat
  BY <1>1, PairsFinite
<1>5. Cardinality(A \cup B) = Cardinality(A) + Cardinality(B) - Cardinality(A \cap B)
  BY <1>4, FS_Union
<1>6. Cardinality(A \cap B) = 0
  BY <1>2, FS_EmptySet
<1>7. Cardinality(C) = Cardinality(A) + Cardinality(B)
  BY <1>2, <1>4, <1>5, <1>6
<1>8. QED
  BY <1>1, <1>3, <1>7, SumIsPairs

\* The sizes of disjoint sets add up to the size of their union.
LEMMA SumPartition ==
    ASSUME NEW T, IsFiniteSet(T), NEW f, NEW B,
           \A x \in T : f[x] \in Nat /\ IsFiniteSet(B[x]) /\ Cardinality(B[x]) = f[x],
           \A x, y \in T : \A e : e \in B[x] /\ e \in B[y] => x = y,
           NEW U, \A e : e \in U <=> \E x \in T : e \in B[x]
    PROVE  SumFunctionOnSet(f, T) = Cardinality(U)
<1>1. PICK bij : bij = [x \in T |-> CHOOSE b : b \in Bijection(1 .. f[x], B[x])]
  OBVIOUS
<1>2. \A x \in T : bij[x] \in Bijection(1 .. f[x], B[x])
  <2> SUFFICES ASSUME NEW x \in T PROVE bij[x] \in Bijection(1 .. f[x], B[x])
    OBVIOUS
  <2>1. ExistsBijection(1 .. f[x], B[x])
    <3>1. ExistsBijection(1 .. Cardinality(B[x]), B[x])
      BY FS_CardinalityType
    <3>2. QED
      BY <3>1
  <2>2. \E b : b \in Bijection(1 .. f[x], B[x])
    BY <2>1 DEF ExistsBijection
  <2>3. (CHOOSE b : b \in Bijection(1 .. f[x], B[x])) \in Bijection(1 .. f[x], B[x])
    BY <2>2, Zenon
  <2>4. QED
    BY <1>1, <2>3
<1>3. \A x \in T : /\ \A k \in 1 .. f[x] : bij[x][k] \in B[x]
                   /\ \A k, l \in 1 .. f[x] : bij[x][k] = bij[x][l] => k = l
                   /\ \A e \in B[x] : \E k \in 1 .. f[x] : bij[x][k] = e
  BY <1>2 DEF Bijection, Injection, Surjection, IsInjective
<1>4. PICK P : P = Pairs(f, T)
  OBVIOUS
<1>5. \A p : p \in P <=> \E x \in T : \E k \in 1 .. f[x] : p = <<x, k>>
  <2>1. \A p : p \in Pairs(f, T) <=> \E x \in T : \E k \in 1 .. f[x] : p = <<x, k>>
    BY PairsAre
  <2>2. QED
    BY <1>4, <2>1
<1>6. PICK F : F = [p \in P |-> bij[p[1]][p[2]]]
  OBVIOUS
<1>7. \A x \in T : \A k \in 1 .. f[x] : <<x, k>> \in P /\ F[<<x, k>>] = bij[x][k]
  <2> SUFFICES ASSUME NEW x \in T, NEW k \in 1 .. f[x]
               PROVE  <<x, k>> \in P /\ F[<<x, k>>] = bij[x][k]
    OBVIOUS
  <2>1. <<x, k>> \in P
    BY <1>5
  <2>2. <<x, k>>[1] = x /\ <<x, k>>[2] = k
    OBVIOUS
  <2>3. QED
    BY <1>6, <2>1, <2>2
<1>8. F \in Bijection(P, U)
  <2>1. F \in [P -> U]
    <3>1. \A p \in P : F[p] \in U
      BY <1>3, <1>5, <1>7
    <3>2. QED
      BY <1>6, <3>1
  <2>2. ASSUME NEW e \in U PROVE \E p \in P : F[p] = e
    <3>1. PICK x \in T : e \in B[x]
      OBVIOUS
    <3>2. PICK k : k \in 1 .. f[x] /\ bij[x][k] = e
      BY <1>3, <3>1
    <3>3. <<x, k>> \in P /\ F[<<x, k>>] = e
      BY <1>7, <3>1, <3>2
    <3>4. QED
      BY <3>3
  <2>3. ASSUME NEW p \in P, NEW q \in P, F[p] = F[q]
        PROVE  p = q
    <3>1. PICK x, k : x \in T /\ k \in 1 .. f[x] /\ p = <<x, k>>
      BY <1>5
    <3>2. PICK y, l : y \in T /\ l \in 1 .. f[y] /\ q = <<y, l>>
      BY <1>5
    <3>3. bij[x][k] = bij[y][l] /\ bij[x][k] \in B[x] /\ bij[y][l] \in B[y]
      BY <1>3, <1>7, <2>3, <3>1, <3>2
    <3>4. x = y
      BY <3>1, <3>2, <3>3
    <3>5. k = l
      BY <1>3, <3>1, <3>2, <3>3, <3>4
    <3>6. QED
      BY <3>1, <3>2, <3>4, <3>5
  <2>4. QED
    BY <2>1, <2>2, <2>3 DEF Bijection, Injection, Surjection, IsInjective
<1>9. Cardinality(U) = Cardinality(P)
  <2>1. ExistsBijection(P, U)
    BY <1>8, Zenon DEF ExistsBijection
  <2>2. IsFiniteSet(P)
    BY <1>4, PairsFinite
  <2>3. QED
    BY <2>1, <2>2, FS_Bijection
<1>10. QED
  BY <1>4, <1>9, SumIsPairs

-----------------------------------------------------------------------------
(* Counting and comparing. *)

\* Two sets that differ in at most one element.
LEMMA CountMoves ==
    ASSUME NEW W, IsFiniteSet(W), NEW A \in SUBSET W, NEW B \in SUBSET W, NEW w \in W,
           \A v \in W : v # w => (v \in B <=> v \in A)
    PROVE  /\ Cardinality(A) \in Nat
           /\ Cardinality(B) = Cardinality(A) + (IF w \in B THEN 1 ELSE 0)
                                              - (IF w \in A THEN 1 ELSE 0)
<1>1. IsFiniteSet(A)
  BY FS_Subset
<1>2. Cardinality(A) \in Nat
  BY <1>1, FS_CardinalityType
<1>3. CASE w \in B <=> w \in A
  <2>1. B = A
    BY <1>3
  <2>2. QED
    BY <1>2, <1>3, <2>1
<1>4. CASE w \in B /\ w \notin A
  <2>1. B = A \cup {w}
    BY <1>4
  <2>2. Cardinality(B) = Cardinality(A) + 1
    BY <1>1, <1>4, <2>1, FS_AddElement
  <2>3. QED
    BY <1>2, <1>4, <2>2
<1>5. CASE w \notin B /\ w \in A
  <2>1. B = A \ {w}
    BY <1>5
  <2>2. Cardinality(B) = Cardinality(A) - 1
    BY <1>1, <1>5, <2>1, FS_RemoveElement
  <2>3. QED
    BY <1>2, <1>5, <2>2
<1>6. QED
  BY <1>3, <1>4, <1>5

\* A set of natural numbers has a least element.
LEMMA LeastElement ==
    ASSUME NEW S, S \subseteq Nat, S # {}
    PROVE  \E i \in S : \A j \in S : i <= j
<1> DEFINE Below == {p \in Nat \X Nat : p[1] < p[2]}
<1>1. IsWellFoundedOn(Below, Nat)
  BY NatLessThanWellFounded DEF OpToRel
<1>2. \A x, y \in Nat : <<y, x>> \notin Below => x <= y
  OBVIOUS
<1> HIDE DEF Below
<1>3. \E x \in S : \A y \in S : ~(<<y, x>> \in Below)
  BY <1>1, WFMin, Zenon
<1>4. QED
  BY <1>2, <1>3

\* A bounded set of numbers has a greatest element.
LEMMA MaxProperties ==
    ASSUME NEW n \in Nat, NEW S \in SUBSET (0 .. n), S # {}
    PROVE  Max(S) \in S /\ \A x \in S : x <= Max(S)
<1> DEFINE above(x) == x .. n
           T == 0 .. n
           family == {above(x) : x \in S}
<1>1. IsFiniteSet(T)
  BY FS_Interval
<1>2. \A x \in S : above(x) \in SUBSET T
  OBVIOUS
<1>3. \A t \in SUBSET T : IsFiniteSet(t)
  BY <1>1, FS_Subset, Zenon
<1>4. family \subseteq FiniteSubsetsOf(T) /\ family # {}
  BY <1>2, <1>3 DEF FiniteSubsetsOf
<1>5. IsWellFoundedOn(StrictSubsetOrdering(T), FiniteSubsetsOf(T))
  BY FS_StrictSubsetOrderingWellFounded
<1> HIDE DEF family
<1>6. PICK least \in family : \A t \in family : ~(<<t, least>> \in StrictSubsetOrdering(T))
  BY <1>4, <1>5, WFMin, Zenon
<1>7. PICK m \in S : least = above(m)
  BY <1>6 DEF family
<1>8. \A x \in S : x <= m
  <2> SUFFICES ASSUME NEW x \in S, x > m
               PROVE  FALSE
    OBVIOUS
  <2>1. above(x) \in SUBSET above(m) /\ above(x) # above(m)
    <3>1. m \in above(m) /\ m \notin above(x)
      OBVIOUS
    <3>2. QED
      BY <3>1
  <2>2. above(x) \in family
    BY DEF family
  <2> HIDE DEF above
  <2>3. QED
    BY <1>2, <1>6, <1>7, <2>1, <2>2 DEF StrictSubsetOrdering
<1>9. QED
  BY <1>8 DEF Max

\* The greatest and the least element are what they are.
LEMMA MaxIs ==
    ASSUME NEW S \in SUBSET Int, NEW m \in S, \A x \in S : x <= m
    PROVE  Max(S) = m
<1>1. \E x \in S : \A y \in S : x >= y
  OBVIOUS
<1>2. Max(S) \in S /\ \A y \in S : Max(S) >= y
  BY <1>1 DEF Max
<1>3. S \subseteq Int /\ m \in S /\ \A x \in S : x <= m
  OBVIOUS
<1>4. Max(S) \in Int /\ m \in Int /\ Max(S) <= m /\ Max(S) >= m
  BY <1>2, <1>3
<1>5. QED
  BY <1>4

\* The same of the least.
LEMMA MinIs ==
    ASSUME NEW S \in SUBSET Int, NEW m \in S, \A x \in S : m <= x
    PROVE  Min(S) = m
<1>1. \E x \in S : \A y \in S : x <= y
  OBVIOUS
<1>2. Min(S) \in S /\ \A y \in S : Min(S) <= y
  BY <1>1 DEF Min
<1>3. S \subseteq Int /\ m \in S /\ \A x \in S : m <= x
  OBVIOUS
<1>4. Min(S) \in Int /\ m \in Int /\ Min(S) <= m /\ Min(S) >= m
  BY <1>2, <1>3
<1>5. QED
  BY <1>4

\* The lesser of two numbers.
LEMMA MinPair ==
    ASSUME NEW a \in Nat, NEW b \in Nat
    PROVE  Min({a, b}) = (IF a <= b THEN a ELSE b)
<1>1. CASE a <= b
  BY <1>1, MinIs
<1>2. CASE ~(a <= b)
  BY <1>2, MinIs
<1>3. QED
  BY <1>1, <1>2

\* Division of a sum of two digits.
LEMMA Digits ==
    ASSUME NEW k \in Nat \ {0}, NEW a \in 0 .. k - 1, NEW b \in 0 .. k - 1
    PROVE  /\ (a + b) % k = IF a + b < k THEN a + b ELSE a + b - k
           /\ (a + b) \div k = IF a + b < k THEN 0 ELSE 1
  BY Z3

-----------------------------------------------------------------------------
(* Lists. *)

\* What erase() leaves of a list: the other elements, in order.
LEMMA EraseProperties ==
    ASSUME NEW S, NEW s \in Seq(S), NEW i \in DOMAIN s
    PROVE  /\ RemoveAt(s, i) \in Seq(S)
           /\ Len(RemoveAt(s, i)) = Len(s) - 1
           /\ \A j \in 1 .. Len(s) - 1 :
                RemoveAt(s, i)[j] = IF j < i THEN s[j] ELSE s[j + 1]
<1> DEFINE a == SubSeq(s, 1, i - 1)
           b == SubSeq(s, i + 1, Len(s))
<1>0. i \in 1 .. Len(s) /\ Len(s) \in Nat
  BY LenProperties
<1>1. /\ a \in Seq(S) /\ Len(a) = i - 1
      /\ \A j \in 1 .. i - 1 : a[j] = s[j]
  <2>1. \A j \in 1 .. i - 1 : s[j] \in S
    BY <1>0, ElementOfSeq
  <2>2. QED
    BY <1>0, <2>1, SubSeqProperties
<1>2. /\ b \in Seq(S) /\ Len(b) = Len(s) - i
      /\ \A j \in 1 .. Len(s) - i : b[j] = s[i + j]
  <2>1. \A j \in i + 1 .. Len(s) : s[j] \in S
    BY <1>0, ElementOfSeq
  <2>2. QED
    BY <1>0, <2>1, SubSeqProperties
<1> DEFINE c == a \o b
<1>3. /\ c \in Seq(S) /\ Len(c) = Len(a) + Len(b)
      /\ \A j \in 1 .. Len(a) + Len(b) :
           c[j] = IF j <= Len(a) THEN a[j] ELSE b[j - Len(a)]
  BY <1>1, <1>2, ConcatProperties
<1>4. RemoveAt(s, i) = c
  BY DEF RemoveAt
<1> HIDE DEF a, b, c
<1>5. \A j \in 1 .. Len(s) - 1 : j < i => c[j] = s[j]
  <2> SUFFICES ASSUME NEW j \in 1 .. Len(s) - 1, j < i
               PROVE  c[j] = s[j]
    OBVIOUS
  <2>1. j \in 1 .. i - 1 /\ j \in 1 .. Len(a) + Len(b) /\ j <= Len(a)
    BY <1>0, <1>1, <1>2
  <2>2. c[j] = a[j]
    BY <1>3, <2>1
  <2>3. QED
    BY <1>1, <2>1, <2>2
<1>6. \A j \in 1 .. Len(s) - 1 : j >= i => c[j] = s[j + 1]
  <2> SUFFICES ASSUME NEW j \in 1 .. Len(s) - 1, j >= i
               PROVE  c[j] = s[j + 1]
    OBVIOUS
  <2> DEFINE k == j - (i - 1)
  <2>1. k \in 1 .. Len(s) - i /\ i + k = j + 1 /\ ~(j <= i - 1)
    BY <1>0
  <2>2. j \in 1 .. Len(a) + Len(b) /\ ~(j <= Len(a)) /\ j - Len(a) = k
    BY <1>0, <1>1, <1>2, <2>1
  <2> HIDE DEF k
  <2>3. c[j] = b[k]
    BY <1>3, <2>2
  <2>4. QED
    BY <1>2, <2>1, <2>3
<1>7. Len(c) = Len(s) - 1
  BY <1>0, <1>1, <1>2, <1>3
<1>8. QED
  BY <1>0, <1>3, <1>4, <1>5, <1>6, <1>7

\* What push_front() makes of a list.
LEMMA PushProperties ==
    ASSUME NEW S, NEW s \in Seq(S), NEW e \in S
    PROVE  /\ <<e>> \o s \in Seq(S)
           /\ Len(<<e>> \o s) = Len(s) + 1
           /\ (<<e>> \o s)[1] = e
           /\ \A j \in 1 .. Len(s) : (<<e>> \o s)[j + 1] = s[j]
<1>1. <<e>> \in Seq(S) /\ Len(<<e>>) = 1 /\ <<e>>[1] = e /\ Len(s) \in Nat
  BY LenProperties
<1>2. /\ <<e>> \o s \in Seq(S)
      /\ Len(<<e>> \o s) = Len(<<e>>) + Len(s)
      /\ \A j \in 1 .. Len(<<e>>) + Len(s) :
           (<<e>> \o s)[j] = IF j <= Len(<<e>>) THEN <<e>>[j] ELSE s[j - Len(<<e>>)]
  BY <1>1, ConcatProperties
<1>3. QED
  BY <1>1, <1>2

\* A list without repetition is as long as its set of elements is large.
LEMMA ListSize ==
    ASSUME NEW S, NEW s \in Seq(S), IsInjective(s)
    PROVE  IsFiniteSet(ToSet(s)) /\ Cardinality(ToSet(s)) = Len(s)
<1>1. DOMAIN s = 1 .. Len(s) /\ Len(s) \in Nat
  BY LenProperties
<1>2. s \in Bijection(1 .. Len(s), ToSet(s))
  <2>1. s \in [1 .. Len(s) -> ToSet(s)]
    BY <1>1, LenProperties DEF ToSet
  <2>2. \A e \in ToSet(s) : \E i \in 1 .. Len(s) : s[i] = e
    BY <1>1 DEF ToSet
  <2>3. QED
    BY <1>1, <2>1, <2>2 DEF Bijection, Injection, Surjection, IsInjective
<1>3. ExistsBijection(1 .. Len(s), ToSet(s))
  BY <1>2, Zenon DEF ExistsBijection
<1>4. IsFiniteSet(1 .. Len(s)) /\ Cardinality(1 .. Len(s)) = Len(s)
  <2>1. /\ IsFiniteSet(1 .. Len(s))
        /\ Cardinality(1 .. Len(s)) = IF 1 > Len(s) THEN 0 ELSE Len(s) - 1 + 1
    BY <1>1, FS_Interval
  <2>2. QED
    BY <1>1, <2>1
<1>5. QED
  BY <1>3, <1>4, FS_Bijection

\* A new element in front.
LEMMA PushList ==
    ASSUME NEW S, NEW s \in Seq(S), IsInjective(s), NEW e \in S \ ToSet(s)
    PROVE  /\ <<e>> \o s \in Seq(S)
           /\ IsInjective(<<e>> \o s)
           /\ ToSet(<<e>> \o s) = ToSet(s) \cup {e}
           /\ Len(<<e>> \o s) = Len(s) + 1
<1> DEFINE t == <<e>> \o s
<1>1. DOMAIN s = 1 .. Len(s) /\ Len(s) \in Nat
  BY LenProperties
<1>2. /\ t \in Seq(S) /\ Len(t) = Len(s) + 1 /\ t[1] = e
      /\ \A j \in 1 .. Len(s) : t[j + 1] = s[j]
  BY PushProperties
<1> HIDE DEF t
<1>3. DOMAIN t = 1 .. Len(s) + 1
  BY <1>2, LenProperties
<1>4. \A j \in DOMAIN t : j # 1 => j - 1 \in DOMAIN s /\ t[j] = s[j - 1]
  <2> SUFFICES ASSUME NEW j \in DOMAIN t, j # 1
               PROVE  j - 1 \in DOMAIN s /\ t[j] = s[j - 1]
    OBVIOUS
  <2>1. j - 1 \in 1 .. Len(s) /\ (j - 1) + 1 = j
    BY <1>1, <1>3
  <2>2. t[(j - 1) + 1] = s[j - 1]
    BY <1>2, <2>1
  <2>3. QED
    BY <1>1, <2>1, <2>2
<1>5. \A j \in DOMAIN s : s[j] # e
  BY DEF ToSet
<1>6. IsInjective(t)
  <2> SUFFICES ASSUME NEW i \in DOMAIN t, NEW j \in DOMAIN t, t[i] = t[j]
               PROVE  i = j
    BY DEF IsInjective
  <2>1. CASE i = 1 \/ j = 1
    BY <1>2, <1>4, <1>5, <2>1
  <2>2. CASE i # 1 /\ j # 1
    <3>1. i - 1 = j - 1
      BY <1>4, <2>2 DEF IsInjective
    <3>2. QED
      BY <1>3, <3>1
  <2>3. QED
    BY <2>1, <2>2
<1>7. ToSet(t) = ToSet(s) \cup {e}
  <2>1. \A j \in DOMAIN t : t[j] \in ToSet(s) \cup {e}
    BY <1>2, <1>4 DEF ToSet
  <2>2. 1 \in DOMAIN t /\ \A j \in DOMAIN s : j + 1 \in DOMAIN t /\ t[j + 1] = s[j]
    BY <1>1, <1>2, <1>3
  <2>3. \A x \in ToSet(s) \cup {e} : \E j \in DOMAIN t : t[j] = x
    BY <1>2, <2>2 DEF ToSet
  <2>4. QED
    BY <2>1, <2>3, Zenon DEF ToSet
<1>8. QED
  BY <1>2, <1>6, <1>7 DEF t

\* Taking an element out.
LEMMA EraseList ==
    ASSUME NEW S, NEW s \in Seq(S), IsInjective(s), NEW i \in DOMAIN s
    PROVE  /\ RemoveAt(s, i) \in Seq(S)
           /\ IsInjective(RemoveAt(s, i))
           /\ ToSet(RemoveAt(s, i)) = ToSet(s) \ {s[i]}
           /\ Len(RemoveAt(s, i)) = Len(s) - 1
<1> DEFINE t == RemoveAt(s, i)
           old(m) == IF m < i THEN m ELSE m + 1
<1>1. DOMAIN s = 1 .. Len(s) /\ Len(s) \in Nat
  BY LenProperties
<1>2. /\ t \in Seq(S) /\ Len(t) = Len(s) - 1
      /\ \A j \in 1 .. Len(s) - 1 : t[j] = IF j < i THEN s[j] ELSE s[j + 1]
  BY EraseProperties
<1> HIDE DEF t
<1>3. DOMAIN t = 1 .. Len(s) - 1
  BY <1>2, LenProperties
<1>4. \A j \in DOMAIN t : old(j) \in DOMAIN s /\ old(j) # i /\ t[j] = s[old(j)]
  BY <1>1, <1>2, <1>3
<1>5. \A j, k \in DOMAIN t : old(j) = old(k) => j = k
  BY <1>1, <1>3
<1>6. \A j \in DOMAIN s \ {i} : \E k \in DOMAIN t : t[k] = s[j]
  <2> SUFFICES ASSUME NEW j \in DOMAIN s \ {i}
               PROVE  \E k \in DOMAIN t : t[k] = s[j]
    OBVIOUS
  <2>1. CASE j < i
    <3>1. j \in DOMAIN t /\ t[j] = s[j]
      BY <1>1, <1>2, <1>3, <2>1
    <3>2. QED
      BY <3>1
  <2>2. CASE j > i
    <3>1. j - 1 \in DOMAIN t /\ t[j - 1] = s[j]
      BY <1>1, <1>2, <1>3, <2>2
    <3>2. QED
      BY <3>1
  <2>3. QED
    BY <1>1, <2>1, <2>2
<1> HIDE DEF old
<1>7. IsInjective(t)
  BY <1>4, <1>5 DEF IsInjective
<1>8. ToSet(t) = ToSet(s) \ {s[i]}
  <2>1. \A j \in DOMAIN t : t[j] \in ToSet(s) \ {s[i]}
    BY <1>4 DEF ToSet, IsInjective
  <2>2. \A x \in ToSet(s) \ {s[i]} : \E k \in DOMAIN t : t[k] = x
    BY <1>6 DEF ToSet
  <2>3. QED
    BY <2>1, <2>2, Zenon DEF ToSet
<1>9. QED
  BY <1>2, <1>7, <1>8 DEF t

\* The first elements of a list.
LEMMA PrefixList ==
    ASSUME NEW S, NEW s \in Seq(S), IsInjective(s), NEW n \in 0 .. Len(s)
    PROVE  /\ SubSeq(s, 1, n) \in Seq(S)
           /\ IsInjective(SubSeq(s, 1, n))
           /\ ToSet(SubSeq(s, 1, n)) \subseteq ToSet(s)
           /\ Len(SubSeq(s, 1, n)) = n
<1> DEFINE t == SubSeq(s, 1, n)
<1>1. DOMAIN s = 1 .. Len(s) /\ Len(s) \in Nat
  BY LenProperties
<1>2. \A j \in 1 .. n : j \in DOMAIN s /\ s[j] \in S
  BY <1>1, ElementOfSeq
<1>3. t \in Seq(S) /\ Len(t) = n /\ \A j \in 1 .. n : t[j] = s[j]
  BY <1>1, <1>2, SubSeqProperties
<1>4. DOMAIN t = 1 .. n
  BY <1>3, LenProperties
<1> HIDE DEF t
<1>5. IsInjective(t)
  BY <1>2, <1>3, <1>4 DEF IsInjective
<1>6. ToSet(t) \subseteq ToSet(s)
  BY <1>2, <1>3, <1>4 DEF ToSet
<1>7. QED
  BY <1>3, <1>5, <1>6 DEF t

\* An element moved to the front.
LEMMA PromoteList ==
    ASSUME NEW S, NEW s \in Seq(S), IsInjective(s), NEW i \in DOMAIN s
    PROVE  /\ <<s[i]>> \o RemoveAt(s, i) \in Seq(S)
           /\ IsInjective(<<s[i]>> \o RemoveAt(s, i))
           /\ ToSet(<<s[i]>> \o RemoveAt(s, i)) = ToSet(s)
           /\ Len(<<s[i]>> \o RemoveAt(s, i)) = Len(s)
<1> DEFINE t == RemoveAt(s, i)
           e == s[i]
<1>1. /\ t \in Seq(S) /\ IsInjective(t) /\ ToSet(t) = ToSet(s) \ {e}
      /\ Len(t) = Len(s) - 1
  BY EraseList
<1>2. e \in S /\ e \in ToSet(s) /\ Len(s) \in Nat
  BY LenProperties, ElementOfSeq DEF ToSet
<1> HIDE DEF t, e
<1>3. /\ <<e>> \o t \in Seq(S) /\ IsInjective(<<e>> \o t)
      /\ ToSet(<<e>> \o t) = ToSet(t) \cup {e} /\ Len(<<e>> \o t) = Len(t) + 1
  BY <1>1, <1>2, PushList
<1>4. ToSet(t) \cup {e} = ToSet(s) /\ Len(t) + 1 = Len(s)
  BY <1>1, <1>2
<1>5. QED
  BY <1>3, <1>4, Zenon DEF t, e

=============================================================================
