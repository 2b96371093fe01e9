------------------------- MODULE ParallelSumsProofs --------------------------
(***************************************************************************)
(* Proofs about ParallelSums for every number of workers, every set of     *)
(* distances and every word size.                                          *)
(*                                                                         *)
(* No property of the run is inductive: a store writes what was read long  *)
(* before.  The invariants therefore say of a worker's registers what the  *)
(* properties say of the globals, less what that worker and the others     *)
(* have still to add: Indices and HighBound give TypeOK, Overstated gives  *)
(* SumNeverOverstated, LowBound and HighBound give SquaresWithinCarries,   *)
(* Overshoot gives BankOvershoot, and Serial gives SumsSerialExact.        *)
(***************************************************************************)
EXTENDS ParallelSums, DataProofs

Labels == {"idle", "check", "reload", "leave", "inspect", "clear", "load", "store", "load_low",
           "store_low", "load_both", "load_high", "store_both", "store_high"}

\* The workers that are at one of the labels.
In(labels) == {w \in Worker : at[w] \in labels}

\* Where a reuse can still move loc_id on, where its distance is not in a bank,
\* and where its square is not in the low word.
Leaving   == {"check", "reload", "leave"}
Owing     == Leaving \cup {"inspect", "clear", "load", "store"}
Unsquared == Owing \cup {"load_low", "store_low", "load_both", "store_both"}
Busy      == Labels \ {"idle"}

\* The types of the variables, and what holds of a worker with a reuse.
Shape ==
    /\ loc_id \in Nat /\ loc \in [Worker -> Nat]
    /\ reuse_dist_sum \in [Bank -> 0 .. Word - 1] /\ reg \in [Worker -> 0 .. Word - 1]
    /\ low \in 0 .. Word - 1 /\ high \in Nat
    /\ words \in [Worker -> [1 .. 2 -> Nat]] /\ \A w \in Worker : words[w][1] \in 0 .. Word - 1
    /\ at \in [Worker -> Labels] /\ dist \in [Worker -> Nat]
    /\ \A w \in In(Busy) : dist[w] \in Dist
    /\ started \in [Worker -> 0 .. MaxLen]
    /\ added \in Nat /\ squared \in Nat /\ excess \in Nat /\ clean \in BOOLEAN
    /\ astray \subseteq In(Busy)

\* An index can still be moved on by every reuse that may leave a bank.
Indices ==
    /\ loc_id + Cardinality(In(Leaving)) <= Begun
    /\ \A w \in Worker : loc[w] + Cardinality(In(Leaving)) <= Begun
    /\ Cardinality(In(Busy)) <= Begun

\* What each worker has not added to the banks, and to the low word.
Owed == [w \in Worker |-> IF at[w] \in Owing THEN dist[w] ELSE 0]
OwedSquare == [w \in Worker |-> IF at[w] \in Unsquared THEN Square(dist[w]) ELSE 0]

\* Some banks with all distances dominate the real ones and what will be stored
\* into them.
Dominates(bound) ==
    /\ \A b \in Bank : reuse_dist_sum[b] <= bound[b]
    /\ \A w \in In({"store"}) : reg[w] <= bound[loc[w]]

Overstated ==
    \E bound \in [Bank -> Nat] :
        /\ Dominates(bound)
        /\ SumFunctionOnSet(bound, Bank) + SumFunctionOnSet(Owed, Worker) <= added

\* The low word, and what was read of it, leave room for the squares to come.
LowBound ==
    /\ low + SumFunctionOnSet(OwedSquare, Worker) <= squared
    /\ \A w \in Worker : words[w][1] + SumFunctionOnSet(OwedSquare, Worker) <= squared

\* The workers that may yet add a carry to the high word.
Carrying ==
    {w \in In(Busy) : at[w] \in {"store_low", "load_both", "load_high", "store_both", "store_high"}
                        => Carry(w) # 0}

\* Nobody has stored a low word yet.
Fresh ==
    /\ low = 0 /\ high = 0 /\ \A w \in Worker : words[w][1] = 0 /\ words[w][2] = 0
    /\ In({"load_high", "store_high"}) = {}

\* Afterwards the high word, and what was read of it, leave room for the carries
\* to come, and one reuse had none.
HighBound ==
    \/ Fresh
    \/ /\ high + Cardinality(Carrying) <= Begun - 1
       /\ \A w \in Worker : words[w][2] + Cardinality(Carrying) <= Begun - 1

\* What the comparison with INT64_MAX accepts.
Room(b, d) == (b + d) % Word <= IntMax

\* A worker that shares its time with nobody and has found a possible distance.
Lone(w) ==
    /\ \A v \in Worker : v # w => at[v] = "idle"
    /\ dist[w] <= IntMax
    /\ at[w] \in Owing => loc[w] = loc_id
    /\ at[w] = "load" => Room(reuse_dist_sum[loc[w]], dist[w])
    /\ at[w] = "store" => Room(reg[w], dist[w])

\* What exceeds INT64_MAX, in a bank or on its way there, came from reuses astray.
Overshoot ==
    /\ clean => astray = {} /\ excess = 0
    /\ \A b \in Bank : reuse_dist_sum[b] <= IntMax + excess
    /\ \A w \in Worker : reg[w] <= IntMax + excess
    /\ \A w \in In(Busy) \ astray : Lone(w)

\* What the banks and the words lack is what the only worker has not stored, and
\* what it holds of them is still there.
BanksExact(w) ==
    /\ Total + Owed[w] = added
    /\ at[w] # "clear"
    /\ at[w] = "inspect" => reuse_dist_sum[loc[w]] = 0
    /\ at[w] = "store" => reg[w] = reuse_dist_sum[loc[w]]

WordsExact(w) ==
    /\ at[w] \in {"store_low", "load_both", "store_both"} => words[w][1] = low
    /\ at[w] \in {"store_both", "store_high"} => words[w][2] = high
    /\ Squares + OwedSquare[w]
         + (IF at[w] \in {"load_high", "store_high"} THEN Word * Carry(w) ELSE 0) = squared

\* While every reuse has been alone.
Serial ==
    clean =>
        /\ \A b \in Bank : b > loc_id => reuse_dist_sum[b] = 0
        /\ Quiet => Total = added /\ Squares = squared
        /\ \A w \in In(Busy) : BanksExact(w) /\ WordsExact(w)

-----------------------------------------------------------------------------
(* Words, distances and workers. *)

\* The remainder and the quotient of natural numbers.
LEMMA Remainders ==
    ASSUME NEW k \in Nat \ {0}, NEW n \in Nat
    PROVE  n % k \in 0 .. k - 1 /\ n % k <= n /\ n \div k \in Nat
BY Z3

\* A word has two halves, and a distance fits in a word.
LEMMA WordFacts ==
    /\ Word \in Nat \ {0} /\ IntMax \in Nat /\ Word = 2 * IntMax + 2
    /\ \A d \in Dist : d \in 0 .. Word - 1
<1>1. PICK half \in 1 .. Word : Word = 2 * half
  BY WordAssumption
<1>2. Word \in Nat \ {0} /\ half \in Nat \ {0} /\ Word \div 2 = half
  BY <1>1, WordAssumption
<1>3. IntMax \in Nat /\ Word = 2 * IntMax + 2
  BY <1>1, <1>2 DEF IntMax
<1>4. QED
  BY <1>2, <1>3, DistAssumption

\* A square and a low word make at most one carry.
LEMMA SquareFacts ==
    ASSUME NEW d \in Nat, NEW n \in 0 .. Word - 1
    PROVE  /\ Square(d) \in 0 .. Word - 1
           /\ (n + Square(d)) % Word =
                IF n + Square(d) < Word THEN n + Square(d) ELSE n + Square(d) - Word
           /\ (n + Square(d)) \div Word = IF n + Square(d) < Word THEN 0 ELSE 1
<1>1. Word \in Nat \ {0}
  BY WordFacts
<1>2. d * d \in Nat
  OBVIOUS
<1>3. Square(d) \in 0 .. Word - 1
  BY <1>1, <1>2, Remainders DEF Square
<1>4. QED
  BY <1>1, <1>3, Digits

\* What a worker adds to the low word and carries to the high word.
LEMMA CarryFacts ==
    ASSUME Shape, NEW w \in Worker
    PROVE  /\ Square(dist[w]) \in 0 .. Word - 1
           /\ (words[w][1] + Square(dist[w])) % Word =
                IF words[w][1] + Square(dist[w]) < Word THEN words[w][1] + Square(dist[w])
                ELSE words[w][1] + Square(dist[w]) - Word
           /\ Carry(w) = IF words[w][1] + Square(dist[w]) < Word THEN 0 ELSE 1
<1> DEFINE d == dist[w]
           n == words[w][1]
<1>1. d \in Nat /\ n \in 0 .. Word - 1
  BY DEF Shape
<1>2. Carry(w) = (n + Square(d)) \div Word
  BY DEF Carry
<1> HIDE DEF d, n
<1>3. /\ Square(d) \in 0 .. Word - 1
      /\ (n + Square(d)) % Word =
           IF n + Square(d) < Word THEN n + Square(d) ELSE n + Square(d) - Word
      /\ (n + Square(d)) \div Word = IF n + Square(d) < Word THEN 0 ELSE 1
  BY <1>1, SquareFacts
<1>4. QED
  BY <1>2, <1>3 DEF d, n

\* The number of reuses begun, and how many there can be.
LEMMA BegunType ==
    ASSUME Shape
    PROVE  Begun \in 0 .. Cardinality(Worker) * MaxLen
<1> DEFINE g == [w \in Worker |-> MaxLen]
<1>1. IsFiniteSet(Worker) /\ Cardinality(Worker) \in Nat /\ MaxLen \in Nat
  BY WorkerAssumption, LengthAssumption, FS_CardinalityType
<1>2. \A w \in Worker : started[w] \in Nat /\ g[w] \in Nat /\ started[w] <= g[w]
  BY <1>1 DEF Shape
<1>3. \A w \in Worker : g[w] = MaxLen
  OBVIOUS
<1>4. Begun = SumFunctionOnSet(started, Worker)
  <2>1. DOMAIN started = Worker
    BY DEF Shape
  <2>2. QED
    BY <2>1, Zenon DEF Begun, SumFunction
<1> HIDE DEF g
<1>5. SumFunctionOnSet(started, Worker) \in Nat
  BY <1>1, <1>2, SumType
<1>6. SumFunctionOnSet(started, Worker) <= SumFunctionOnSet(g, Worker)
  BY <1>1, <1>2, SumMonotone
<1>7. SumFunctionOnSet(g, Worker) = Cardinality(Worker) * MaxLen
  BY <1>1, <1>3, SumConstant
<1>8. Cardinality(Worker) * MaxLen \in Nat
  BY <1>1
<1>9. QED
  BY <1>4, <1>5, <1>6, <1>7, <1>8

\* A reuse is counted when it begins.
LEMMA BegunStep ==
    ASSUME Shape, Shape', NEW w \in Worker, Work(w)
    PROVE  Begun' = Begun + (IF at[w] = "idle" THEN 1 ELSE 0)
<1>1. /\ IsFiniteSet(Worker) /\ w \in Worker
      /\ \A v \in Worker : started[v] \in Nat /\ started'[v] \in Nat
  BY WorkerAssumption DEF Shape
<1>2. Begun = SumFunctionOnSet(started, Worker) /\ Begun' = SumFunctionOnSet(started', Worker)
  <2>1. DOMAIN started = Worker /\ DOMAIN started' = Worker
    BY DEF Shape
  <2>2. QED
    BY <2>1, Zenon DEF Begun, SumFunction
<1>3. CASE Begin(w)
  <2>1. \A v \in Worker : v # w => started[v] = started'[v]
    BY <1>3 DEF Begin, Shape
  <2>2. started'[w] = started[w] + 1 /\ at[w] = "idle"
    BY <1>3 DEF Begin, Shape
  <2>3. SumFunctionOnSet(started', Worker)
          = SumFunctionOnSet(started, Worker) - started[w] + started'[w]
    BY <1>1, <2>1, SumUpdate
  <2>4. SumFunctionOnSet(started, Worker) \in Nat
    BY <1>1, SumType
  <2>5. QED
    BY <1>1, <1>2, <2>2, <2>3, <2>4
<1>4. CASE ~Begin(w)
  <2>1. started' = started /\ at[w] # "idle"
    BY <1>4 DEF Work, Check, Reload, LeaveBank, InspectBank, ClearBank, LoadBank, StoreBank,
                LoadLow, LoadHigh, StoreLow, StoreHigh, past
  <2>2. Begun \in Nat
    BY BegunType
  <2>3. QED
    BY <2>1, <2>2 DEF Begun
<1>5. QED
  BY <1>3, <1>4

\* The indices that are in use are those of banks.
LEMMA BankFacts ==
    ASSUME Shape, Indices
    PROVE  /\ loc_id \in Bank /\ loc_id \in 0 .. Begun
           /\ \A w \in Worker : loc[w] \in Bank
<1>1. Begun \in Nat /\ Cardinality(Worker) * MaxLen \in Nat /\ Begun <= Cardinality(Worker) * MaxLen
  <2>1. Cardinality(Worker) * MaxLen \in Nat
    <3>1. Cardinality(Worker) \in Nat
      BY WorkerAssumption, FS_CardinalityType
    <3>2. QED
      BY <3>1, LengthAssumption
  <2>2. QED
    BY <2>1, BegunType
<1>2. Cardinality(In(Leaving)) \in Nat
  <2>1. In(Leaving) \subseteq Worker
    BY DEF In
  <2>2. QED
    BY <2>1, WorkerAssumption, FS_Subset, FS_CardinalityType
<1>3. loc_id \in Nat /\ \A w \in Worker : loc[w] \in Nat
  BY DEF Shape
<1>4. QED
  BY <1>1, <1>2, <1>3 DEF Indices, Bank

-----------------------------------------------------------------------------
(* The types. *)

\* Where the workers are, with which distances, and what was counted.
LEMMA StepPlaces ==
    ASSUME Shape, NEW w \in Worker, Work(w)
    PROVE  /\ at' \in [Worker -> Labels] /\ dist' \in [Worker -> Nat]
           /\ \A v \in In(Busy)' : dist'[v] \in Dist
           /\ started' \in [Worker -> 0 .. MaxLen]
           /\ added' \in Nat /\ squared' \in Nat /\ excess' \in Nat /\ clean' \in BOOLEAN
           /\ astray' \subseteq In(Busy)'
<1>1. Dist \subseteq Nat /\ MaxLen \in Nat
  BY WordFacts, LengthAssumption
<1>2. CASE Begin(w)
  <2> DEFINE others == {v \in Worker \ {w} : at[v] # "idle"}
  <2>1. /\ at[w] = "idle" /\ started[w] < MaxLen
        /\ at' = [at EXCEPT ![w] = "check"] /\ started' = [started EXCEPT ![w] = @ + 1]
        /\ astray' \subseteq astray \cup others \cup {w}
        /\ (clean' = (clean /\ astray' = {})) /\ excess' = excess
    BY <1>2 DEF Begin, Goto
  <2>2. PICK d \in Dist : /\ dist' = [dist EXCEPT ![w] = d]
                          /\ added' = added + d /\ squared' = squared + Square(d)
    BY <1>2 DEF Begin
  <2>3. Square(d) \in Nat
    <3>1. 0 \in 0 .. Word - 1 /\ Word \in Nat /\ d \in Nat
      BY WordFacts
    <3>2. Square(d) \in 0 .. Word - 1
      BY <3>1, SquareFacts
    <3>3. QED
      BY <3>1, <3>2
  <2>5. at' \in [Worker -> Labels] /\ dist' \in [Worker -> Nat]
    BY <1>1, <2>1, <2>2 DEF Shape, Labels
  <2>6. \A v \in In(Busy)' : v = w \/ v \in In(Busy)
    BY <2>1 DEF In, Busy, Shape
  <2>7. \A v \in In(Busy)' : dist'[v] \in Dist
    BY <2>2, <2>6 DEF Shape, In
  <2>8. started' \in [Worker -> 0 .. MaxLen]
    BY <1>1, <2>1 DEF Shape
  <2>9. astray' \subseteq In(Busy)'
    BY <2>1 DEF Shape, In, Busy, Labels
  <2>10. added' \in Nat /\ squared' \in Nat /\ excess' \in Nat /\ clean' \in BOOLEAN
    BY <1>1, <2>1, <2>2, <2>3 DEF Shape
  <2>11. QED
    BY <2>5, <2>7, <2>8, <2>9, <2>10
<1>3. CASE StoreHigh(w)
  <2>1. /\ at' = [at EXCEPT ![w] = "idle"] /\ astray' = astray \ {w} /\ dist' = dist
        /\ UNCHANGED <<started, added, squared, clean, excess>>
    BY <1>3 DEF StoreHigh, Goto
  <2>2. \A v \in In(Busy)' : v \in In(Busy)
    BY <2>1 DEF In, Busy, Shape
  <2>3. astray' \subseteq In(Busy)'
    BY <2>1 DEF In, Busy, Shape, Labels
  <2>4. QED
    BY <2>1, <2>2, <2>3 DEF Shape, Labels
<1>4. ASSUME ~Begin(w), ~StoreHigh(w)
      PROVE  /\ \E label \in Busy : Goto(w, label)
             /\ at[w] # "idle" /\ UNCHANGED <<dist, started, added, squared, astray, clean>>
             /\ excess' \in {excess, excess + dist[w]}
  BY <1>4 DEF Work, Check, Reload, LeaveBank, InspectBank, ClearBank, LoadBank, StoreBank, Spend,
              LoadLow, LoadHigh, StoreLow, Busy, Labels, past, Shape
<1>5. CASE ~Begin(w) /\ ~StoreHigh(w)
  <2>1. In(Busy)' = In(Busy) /\ at' \in [Worker -> Labels]
    BY <1>4, <1>5 DEF Goto, In, Busy, Shape
  <2>2. excess' \in Nat
    BY <1>4, <1>5 DEF Shape
  <2>3. QED
    BY <1>4, <1>5, <2>1, <2>2 DEF Shape
<1>6. QED
  BY <1>2, <1>3, <1>5

\* What the banks, the words and the registers hold.
LEMMA StepHolds ==
    ASSUME Shape, Indices, NEW w \in Worker, Work(w)
    PROVE  /\ loc_id' \in Nat /\ loc' \in [Worker -> Nat]
           /\ reuse_dist_sum' \in [Bank -> 0 .. Word - 1] /\ reg' \in [Worker -> 0 .. Word - 1]
           /\ low' \in 0 .. Word - 1 /\ high' \in Nat
           /\ words' \in [Worker -> [1 .. 2 -> Nat]]
           /\ \A v \in Worker : words'[v][1] \in 0 .. Word - 1
<1>1. Word \in Nat \ {0} /\ loc_id \in Bank /\ loc[w] \in Bank
  BY WordFacts, BankFacts
<1>2. /\ dist[w] \in Nat /\ words[w][1] \in 0 .. Word - 1 /\ words[w][2] \in Nat
  BY DEF Shape
<1>3. CASE Begin(w) \/ Check(w)
  BY <1>3 DEF Shape, Begin, Check, sums, ssum, regs
<1>4. CASE Reload(w) \/ LeaveBank(w) \/ InspectBank(w)
  BY <1>4 DEF Shape, Reload, LeaveBank, InspectBank, sums, ssum, Index
<1>5. CASE ClearBank(w)
  <2>1. PICK i \in Index(w) : /\ loc' = [loc EXCEPT ![w] = i]
                              /\ reuse_dist_sum' = [reuse_dist_sum EXCEPT ![i] = 0]
    BY <1>5 DEF ClearBank
  <2>2. i \in Nat /\ 0 \in 0 .. Word - 1
    BY <1>1 DEF Index, Shape
  <2>3. UNCHANGED <<loc_id, ssum, reg, words>>
    BY <1>5 DEF ClearBank
  <2>4. QED
    BY <2>1, <2>2, <2>3 DEF Shape, ssum
<1>6. CASE LoadBank(w)
  <2>1. PICK i \in Index(w) : loc' = [loc EXCEPT ![w] = i] /\ reg' = [reg EXCEPT ![w] = reuse_dist_sum[i]]
    BY <1>6 DEF LoadBank
  <2>2. i \in Nat /\ reuse_dist_sum[i] \in 0 .. Word - 1
    BY <1>1 DEF Index, Shape
  <2>3. UNCHANGED <<sums, ssum, words>>
    BY <1>6 DEF LoadBank
  <2>4. QED
    BY <2>1, <2>2, <2>3 DEF Shape, sums, ssum
<1>7. CASE StoreBank(w)
  <2>1. (reg[w] + dist[w]) % Word \in 0 .. Word - 1
    <3>1. reg[w] + dist[w] \in Nat
      BY <1>1, <1>2 DEF Shape
    <3>2. QED
      BY <1>1, <3>1, Remainders
  <2>2. /\ reuse_dist_sum' = [reuse_dist_sum EXCEPT ![loc[w]] = (reg[w] + dist[w]) % Word]
        /\ UNCHANGED <<loc_id, ssum, regs>>
    BY <1>7 DEF StoreBank
  <2>3. QED
    BY <2>1, <2>2 DEF Shape, ssum, regs
<1>8. CASE LoadLow(w)
  BY <1>8 DEF Shape, LoadLow, sums, ssum
<1>9. CASE LoadHigh(w)
  BY <1>9 DEF Shape, LoadHigh, sums, ssum
<1>10. CASE StoreLow(w)
  <2>1. (words[w][1] + Square(dist[w])) % Word \in 0 .. Word - 1
    <3>1. Square(dist[w]) \in 0 .. Word - 1
      BY <1>2, SquareFacts
    <3>2. words[w][1] + Square(dist[w]) \in Nat
      BY <1>1, <1>2, <3>1
    <3>3. QED
      BY <1>1, <3>2, Remainders
  <2>2. low' = (words[w][1] + Square(dist[w])) % Word /\ UNCHANGED <<sums, high, regs>>
    BY <1>10 DEF StoreLow
  <2>3. QED
    BY <2>1, <2>2 DEF Shape, sums, regs
<1>11. CASE StoreHigh(w)
  <2>1. Carry(w) \in Nat
    BY CarryFacts
  <2>2. high' = words[w][2] + Carry(w) /\ UNCHANGED <<sums, low, regs>>
    BY <1>11 DEF StoreHigh
  <2>3. high' \in Nat
    BY <1>2, <2>1, <2>2
  <2>4. QED
    BY <2>2, <2>3 DEF Shape, sums, regs
<1>12. QED
  BY <1>3, <1>4, <1>5, <1>6, <1>7, <1>8, <1>9, <1>10, <1>11 DEF Work

\* Every step of a worker keeps the types.
LEMMA StepShape ==
    ASSUME Shape, Indices, NEW w \in Worker, Work(w)
    PROVE  Shape'
BY StepPlaces, StepHolds DEF Shape

\* The same without a step.
LEMMA StutterShape == Shape /\ UNCHANGED vars => Shape'
  BY DEF Shape, In, Bank, IntMax, vars, sums, ssum, regs, past

\* In the beginning.
LEMMA InitShape == Init => Shape
<1> SUFFICES ASSUME Init
             PROVE  Shape
  OBVIOUS
<1>1. Word \in Nat \ {0} /\ MaxLen \in Nat
  BY WordFacts, LengthAssumption
<1>2. <<0, 0>> \in [1 .. 2 -> Nat] /\ <<0, 0>>[1] = 0
  OBVIOUS
<1>3. In(Busy) = {}
  BY DEF Init, In, Busy
<1>4. QED
  BY <1>1, <1>2, <1>3 DEF Init, Shape, Labels

-----------------------------------------------------------------------------
(* The indices. *)

\* What a move does to the number of workers at some labels.
LEMMA Moves ==
    ASSUME at \in [Worker -> Labels], NEW w \in Worker, NEW label, Goto(w, label),
           NEW labels
    PROVE  /\ Cardinality(In(labels)) \in Nat
           /\ Cardinality(In(labels)') =
                Cardinality(In(labels)) + (IF label \in labels THEN 1 ELSE 0)
                                        - (IF at[w] \in labels THEN 1 ELSE 0)
<1> DEFINE old == In(labels)
           new == In(labels)'
<1>1. /\ w \in old <=> at[w] \in labels
      /\ w \in new <=> label \in labels
      /\ \A v \in Worker : v # w => (v \in new <=> v \in old)
      /\ old \in SUBSET Worker /\ new \in SUBSET Worker
  BY DEF Goto, In
<1> HIDE DEF old, new
<1>2. /\ Cardinality(old) \in Nat
      /\ Cardinality(new) = Cardinality(old) + (IF w \in new THEN 1 ELSE 0)
                                             - (IF w \in old THEN 1 ELSE 0)
  BY <1>1, WorkerAssumption, CountMoves
<1>3. QED
  BY <1>1, <1>2 DEF old, new

\* The workers that may leave a bank, and those that are at work.
LEMMA StepCounts ==
    ASSUME Shape, NEW w \in Worker, Work(w)
    PROVE  /\ Cardinality(In(Leaving)) \in Nat /\ Cardinality(In(Busy)) \in Nat
           /\ Cardinality(In(Leaving)') \in Nat
           /\ Cardinality(In(Leaving)') <= Cardinality(In(Leaving)) + (IF at[w] = "idle" THEN 1 ELSE 0)
           /\ at[w] = "leave" => Cardinality(In(Leaving)') = Cardinality(In(Leaving)) - 1
           /\ Cardinality(In(Busy)') <= Cardinality(In(Busy)) + (IF at[w] = "idle" THEN 1 ELSE 0)
<1>1. PICK label \in Labels :
        /\ Goto(w, label)
        /\ label \in Leaving => at[w] = "idle" \/ at[w] \in Leaving
        /\ label \in Busy => at[w] = "idle" \/ at[w] \in Busy
        /\ at[w] = "leave" => label \notin Leaving
  BY DEF Work, Begin, Check, Reload, LeaveBank, InspectBank, ClearBank, LoadBank, StoreBank,
         LoadLow, LoadHigh, StoreLow, StoreHigh, Labels, Leaving, Busy
<1>2. at \in [Worker -> Labels] /\ "idle" \notin Leaving /\ "leave" \in Leaving
  BY DEF Shape, Leaving
<1>3. /\ Cardinality(In(Leaving)) \in Nat
      /\ Cardinality(In(Leaving)') =
           Cardinality(In(Leaving)) + (IF label \in Leaving THEN 1 ELSE 0)
                                    - (IF at[w] \in Leaving THEN 1 ELSE 0)
  BY <1>1, <1>2, Moves
<1>4. /\ Cardinality(In(Busy)) \in Nat
      /\ Cardinality(In(Busy)') =
           Cardinality(In(Busy)) + (IF label \in Busy THEN 1 ELSE 0)
                                 - (IF at[w] \in Busy THEN 1 ELSE 0)
  BY <1>1, <1>2, Moves
<1>5. In(Leaving)' \subseteq Worker
  BY DEF In
<1>6. Cardinality(In(Leaving)') \in Nat
  BY <1>5, WorkerAssumption, FS_Subset, FS_CardinalityType
<1>7. QED
  BY <1>1, <1>2, <1>3, <1>4, <1>6

\* Every reuse moves loc_id on at most once, whatever index it read.
LEMMA StepIndices ==
    ASSUME Shape, Shape', Indices, NEW w \in Worker, Work(w)
    PROVE  Indices'
<1>1. Begun' = Begun + (IF at[w] = "idle" THEN 1 ELSE 0) /\ Begun \in Nat
  BY BegunStep, BegunType
<1>2. /\ loc_id \in Nat /\ \A v \in Worker : loc[v] \in Nat
      /\ loc \in [Worker -> Nat]
  BY DEF Shape
<1>3. /\ loc_id' = loc_id
      /\ \A v \in Worker : loc'[v] = loc[v] \/ loc'[v] = loc_id
      \/ /\ at[w] = "leave" /\ loc_id' = loc[w] + 1
         /\ \A v \in Worker : loc'[v] = loc[v] \/ loc'[v] = loc[w] + 1
  BY <1>2 DEF Work, Begin, Check, Reload, LeaveBank, InspectBank, ClearBank, LoadBank, StoreBank,
         LoadLow, LoadHigh, StoreLow, StoreHigh, sums, ssum, regs, Index
<1> DEFINE n == Cardinality(In(Leaving))
           m == Cardinality(In(Leaving)')
           one == IF at[w] = "idle" THEN 1 ELSE 0
<1>4. /\ n \in Nat /\ m \in Nat /\ m <= n + one
      /\ at[w] = "leave" => m = n - 1
      /\ Cardinality(In(Busy)) \in Nat
      /\ Cardinality(In(Busy)') <= Cardinality(In(Busy)) + one
  BY StepCounts
<1>5. /\ loc_id + n <= Begun /\ \A v \in Worker : loc[v] + n <= Begun
      /\ Cardinality(In(Busy)) <= Begun
  BY DEF Indices
<1>6. Cardinality(In(Busy)') <= Begun'
  <2>1. Cardinality(In(Busy)') \in Nat
    <3>1. In(Busy)' \subseteq Worker
      BY DEF In
    <3>2. QED
      BY <3>1, WorkerAssumption, FS_Subset, FS_CardinalityType
  <2>2. QED
    BY <1>1, <1>4, <1>5, <2>1
<1> HIDE DEF n, m
<1>7. loc_id' + m <= Begun' /\ \A v \in Worker : loc'[v] + m <= Begun'
  BY <1>1, <1>2, <1>3, <1>4, <1>5
<1>8. QED
  BY <1>6, <1>7 DEF Indices, n, m

\* The same without a step.
LEMMA StutterIndices == Indices /\ UNCHANGED vars => Indices'
  BY DEF Indices, In, Begun, vars, sums, regs, past

\* In the beginning.
LEMMA InitIndices == Init => Indices
<1> SUFFICES ASSUME Init
             PROVE  Indices
  OBVIOUS
<1>1. In(Leaving) = {} /\ In(Busy) = {}
  BY DEF Init, In, Leaving, Busy
<1>2. Cardinality(In(Leaving)) = 0 /\ Cardinality(In(Busy)) = 0
  BY <1>1, FS_EmptySet
<1>3. Begun \in Nat
  BY InitShape, BegunType
<1>4. loc_id = 0 /\ \A w \in Worker : loc[w] = 0
  BY DEF Init
<1>5. QED
  BY <1>2, <1>3, <1>4 DEF Indices

-----------------------------------------------------------------------------
(* The sum of the banks. *)

\* A worker moves alone, and keeps its distance until its next reuse.
LEMMA StepAlone ==
    ASSUME Shape, NEW w \in Worker, Work(w)
    PROVE  /\ \A v \in Worker : v # w => /\ at'[v] = at[v] /\ dist'[v] = dist[v] /\ loc'[v] = loc[v]
                                         /\ reg'[v] = reg[v] /\ words'[v] = words[v]
           /\ at[w] # "idle" => dist'[w] = dist[w] /\ added' = added /\ squared' = squared
BY DEF Shape, Work, Begin, Check, Reload, LeaveBank, InspectBank, ClearBank, LoadBank, StoreBank,
       LoadLow, LoadHigh, StoreLow, StoreHigh, Goto, past, regs

\* There are finitely many banks, with natural numbers in them.
LEMMA Banks ==
    ASSUME Shape
    PROVE  /\ IsFiniteSet(Bank) /\ \A b \in Bank : reuse_dist_sum[b] \in Nat
           /\ Total = SumFunctionOnSet(reuse_dist_sum, Bank) /\ Total \in Nat
           /\ Cardinality(Worker) * MaxLen \in Nat /\ \A b \in Bank : b \in Nat
<1>1. IsFiniteSet(Bank) /\ Cardinality(Worker) * MaxLen \in Nat /\ \A b \in Bank : b \in Nat
  <2>1. Cardinality(Worker) * MaxLen \in Nat
    <3>1. Cardinality(Worker) \in Nat
      BY WorkerAssumption, FS_CardinalityType
    <3>2. QED
      BY <3>1, LengthAssumption
  <2>2. QED
    BY <2>1, FS_Interval DEF Bank
<1>2. \A b \in Bank : reuse_dist_sum[b] \in Nat
  BY WordFacts DEF Shape
<1>3. Total = SumFunctionOnSet(reuse_dist_sum, Bank)
  <2>1. DOMAIN reuse_dist_sum = Bank
    BY DEF Shape
  <2>2. QED
    BY <2>1, Zenon DEF Total, SumFunction
<1>4. QED
  BY <1>1, <1>2, <1>3, SumType

\* Only the worker that moves adds to what is owed, or pays it.
LEMMA StepOwed ==
    ASSUME Shape, Shape', NEW w \in Worker, Work(w)
    PROVE  /\ \A v \in Worker : /\ Owed[v] \in Nat /\ Owed'[v] \in Nat
                                /\ OwedSquare[v] \in Nat /\ OwedSquare'[v] \in Nat
           /\ SumFunctionOnSet(Owed, Worker) \in Nat /\ SumFunctionOnSet(Owed', Worker) \in Nat
           /\ SumFunctionOnSet(Owed', Worker)
                = SumFunctionOnSet(Owed, Worker) - Owed[w] + Owed'[w]
           /\ SumFunctionOnSet(OwedSquare, Worker) \in Nat /\ SumFunctionOnSet(OwedSquare', Worker) \in Nat
           /\ SumFunctionOnSet(OwedSquare', Worker)
                = SumFunctionOnSet(OwedSquare, Worker) - OwedSquare[w] + OwedSquare'[w]
<1>1. \A v \in Worker : Square(dist[v]) \in Nat /\ Square(dist'[v]) \in Nat
  <2>1. \A d \in Nat : Square(d) \in Nat
    <3>1. 0 \in 0 .. Word - 1 /\ Word \in Nat
      BY WordFacts
    <3>2. \A d \in Nat : Square(d) \in 0 .. Word - 1
      BY <3>1, SquareFacts
    <3>3. QED
      BY <3>1, <3>2
  <2>2. QED
    BY <2>1 DEF Shape
<1>2. \A v \in Worker : v # w => at'[v] = at[v] /\ dist'[v] = dist[v]
  BY StepAlone
<1>3. /\ \A v \in Worker : Owed[v] \in Nat /\ Owed'[v] \in Nat
      /\ \A v \in Worker : v # w => Owed[v] = Owed'[v]
  BY <1>2 DEF Owed, Shape
<1>4. /\ \A v \in Worker : OwedSquare[v] \in Nat /\ OwedSquare'[v] \in Nat
      /\ \A v \in Worker : v # w => OwedSquare[v] = OwedSquare'[v]
  BY <1>1, <1>2 DEF OwedSquare
<1> DEFINE f == Owed
           g == Owed'
           h == OwedSquare
           k == OwedSquare'
<1>5. /\ \A v \in Worker : f[v] \in Nat /\ g[v] \in Nat
      /\ \A v \in Worker : v # w => f[v] = g[v]
      /\ \A v \in Worker : h[v] \in Nat /\ k[v] \in Nat
      /\ \A v \in Worker : v # w => h[v] = k[v]
  BY <1>3, <1>4
<1> HIDE DEF f, g, h, k
<1>6. /\ SumFunctionOnSet(f, Worker) \in Nat /\ SumFunctionOnSet(g, Worker) \in Nat
      /\ SumFunctionOnSet(h, Worker) \in Nat /\ SumFunctionOnSet(k, Worker) \in Nat
  BY <1>5, WorkerAssumption, SumType
<1>7. SumFunctionOnSet(g, Worker) = SumFunctionOnSet(f, Worker) - f[w] + g[w]
  BY <1>5, WorkerAssumption, SumUpdate
<1>8. SumFunctionOnSet(k, Worker) = SumFunctionOnSet(h, Worker) - h[w] + k[w]
  BY <1>5, WorkerAssumption, SumUpdate
<1>9. QED
  BY <1>3, <1>4, <1>6, <1>7, <1>8 DEF f, g, h, k

\* A load takes what is there, a store adds the distance that is owed, and
\* clearing a bank only loses.
LEMMA StepOverstated ==
    ASSUME Shape, Shape', Indices, Overstated, NEW w \in Worker, Work(w)
    PROVE  Overstated'
<1> DEFINE owed == SumFunctionOnSet(Owed, Worker)
           owes == SumFunctionOnSet(Owed', Worker)
<1>1. PICK bound \in [Bank -> Nat] :
        Dominates(bound) /\ SumFunctionOnSet(bound, Bank) + owed <= added
  BY DEF Overstated
<1>2. /\ Owed[w] \in Nat /\ Owed'[w] \in Nat /\ owed \in Nat /\ owes \in Nat
      /\ owes = owed - Owed[w] + Owed'[w]
  BY StepOwed
<1>3. IsFiniteSet(Bank) /\ loc_id \in Bank /\ loc[w] \in Bank /\ Bank' = Bank
  BY Banks, BankFacts DEF Bank
<1>4. SumFunctionOnSet(bound, Bank) \in Nat
  BY <1>3, SumType
<1>5. \A v \in Worker : v # w => at'[v] = at[v] /\ loc'[v] = loc[v] /\ reg'[v] = reg[v]
  BY StepAlone
<1>6. added \in Nat /\ added' \in Nat /\ Word \in Nat \ {0}
  BY WordFacts DEF Shape
<1>7. ASSUME /\ Dominates(bound)' /\ Owed'[w] - Owed[w] = added' - added
      PROVE  Overstated'
  <2>1. SumFunctionOnSet(bound, Bank) + owes <= added'
    <3> HIDE DEF owed, owes
    <3>1. QED
      BY <1>1, <1>2, <1>4, <1>6, <1>7
  <2>2. QED
    BY <1>3, <1>7, <2>1, Zenon DEF Overstated
<1>8. ASSUME at[w] # "store", at'[w] # "store",
             \A b \in Bank : reuse_dist_sum'[b] = reuse_dist_sum[b] \/ reuse_dist_sum'[b] = 0
      PROVE  Dominates(bound)'
  <2>1. \A b \in Bank : reuse_dist_sum'[b] <= bound[b]
    BY <1>1, <1>8 DEF Dominates
  <2>2. \A v \in In({"store"})' : reg'[v] <= bound[loc'[v]]
    BY <1>1, <1>5, <1>8 DEF Dominates, In
  <2>3. QED
    BY <1>3, <2>1, <2>2 DEF Dominates
<1>9. CASE Begin(w)
  <2>1. at[w] = "idle" /\ at'[w] = "check" /\ reuse_dist_sum' = reuse_dist_sum
    BY <1>9 DEF Begin, Goto, sums, Shape
  <2>2. Owed[w] = 0 /\ Owed'[w] = dist'[w]
    BY <2>1 DEF Owed, Owing, Leaving
  <2>3. PICK d \in Dist : dist' = [dist EXCEPT ![w] = d] /\ added' = added + d
    BY <1>9 DEF Begin
  <2>4. dist'[w] = d /\ d \in Nat
    BY <2>3, WordFacts DEF Shape
  <2>5. QED
    BY <1>6, <1>7, <1>8, <2>1, <2>2, <2>3, <2>4
<1>10. CASE Check(w) \/ Reload(w) \/ LeaveBank(w) \/ InspectBank(w) \/ ClearBank(w)
  <2>1. /\ at[w] \in Owing \ {"store"} /\ at'[w] \in Owing \ {"store"} /\ at[w] # "idle"
    BY <1>10 DEF Check, Reload, LeaveBank, InspectBank, ClearBank, Goto, Owing, Leaving, Shape
  <2>2. \A b \in Bank : reuse_dist_sum'[b] = reuse_dist_sum[b] \/ reuse_dist_sum'[b] = 0
    BY <1>10 DEF Check, Reload, LeaveBank, InspectBank, ClearBank, sums, Shape
  <2>3. Owed'[w] = Owed[w] /\ added' = added
    BY <2>1, StepAlone DEF Owed
  <2>4. QED
    BY <1>2, <1>6, <1>7, <1>8, <2>1, <2>2, <2>3
<1>11. CASE LoadBank(w)
  <2>1. PICK i \in Index(w) : loc' = [loc EXCEPT ![w] = i] /\ reg' = [reg EXCEPT ![w] = reuse_dist_sum[i]]
    BY <1>11 DEF LoadBank
  <2>2. /\ at[w] = "load" /\ at'[w] = "store" /\ reuse_dist_sum' = reuse_dist_sum
        /\ loc'[w] = i /\ reg'[w] = reuse_dist_sum[i] /\ i \in Bank
    BY <1>3, <1>11, <2>1 DEF LoadBank, Goto, sums, Shape, Index
  <2>3. \A v \in In({"store"})' : reg'[v] <= bound[loc'[v]]
    BY <1>1, <1>5, <2>2 DEF Dominates, In
  <2>4. Dominates(bound)'
    BY <1>1, <1>3, <2>2, <2>3 DEF Dominates
  <2>5. Owed'[w] = Owed[w] /\ added' = added
    BY <2>2, StepAlone DEF Owed, Owing
  <2>6. QED
    BY <1>2, <1>6, <1>7, <2>4, <2>5
<1>12. CASE StoreBank(w)
  <2> DEFINE b0 == loc[w]
             d  == dist[w]
  <2>1. /\ at[w] = "store" /\ at'[w] = "load_low" /\ loc' = loc /\ reg' = reg /\ added' = added
        /\ reuse_dist_sum' = [reuse_dist_sum EXCEPT ![b0] = (reg[w] + d) % Word]
    BY <1>12 DEF StoreBank, Goto, regs, past, Shape
  <2>2. d \in Nat /\ reg[w] \in Nat /\ b0 \in Bank
    BY <1>3, <1>6 DEF Shape
  <2>3. (reg[w] + d) % Word <= reg[w] + d /\ (reg[w] + d) % Word \in Nat
    <3>1. \A n \in Nat : n % Word \in 0 .. Word - 1 /\ n % Word <= n
      BY <1>6, Remainders, Zenon
    <3>2. reg[w] + d \in Nat
      BY <2>2
    <3>3. QED
      BY <1>6, <3>1, <3>2
  <2>4. reg[w] <= bound[b0]
    BY <1>1, <2>1 DEF Dominates, In
  <2>5. PICK more \in [Bank -> Nat] :
          more[b0] = bound[b0] + d /\ \A b \in Bank : b # b0 => bound[b] = more[b]
    <3> DEFINE m == [bound EXCEPT ![b0] = @ + d]
    <3>1. /\ m \in [Bank -> Nat] /\ m[b0] = bound[b0] + d
          /\ \A b \in Bank : b # b0 => bound[b] = m[b]
      BY <2>2
    <3>2. QED
      BY <3>1
  <2> HIDE DEF b0, d
  <2>6. \A b \in Bank : bound[b] <= more[b]
    BY <2>2, <2>5
  <2>7. SumFunctionOnSet(more, Bank) = SumFunctionOnSet(bound, Bank) - bound[b0] + more[b0]
    <3>1. /\ \A b \in Bank : bound[b] \in Nat /\ more[b] \in Nat
          /\ \A b \in Bank : b # b0 => bound[b] = more[b]
      BY <2>5
    <3>2. IsFiniteSet(Bank) /\ b0 \in Bank
      BY <1>3, <2>2
    <3>3. QED
      BY <3>1, <3>2, SumUpdate
  <2>8. \A b \in Bank : reuse_dist_sum'[b] <= more[b]
    <3>1. reuse_dist_sum'[b0] = (reg[w] + d) % Word
      BY <2>1, <2>2 DEF Shape
    <3>2. \A b \in Bank : b # b0 => reuse_dist_sum'[b] = reuse_dist_sum[b]
      BY <2>1 DEF Shape
    <3>3. reuse_dist_sum'[b0] <= more[b0]
      BY <2>2, <2>3, <2>4, <2>5, <3>1
    <3>4. QED
      BY <1>1, <2>5, <3>2, <3>3 DEF Dominates
  <2>9. \A v \in In({"store"})' : reg'[v] <= more[loc'[v]]
    <3> TAKE v \in In({"store"})'
    <3>1. v # w /\ v \in In({"store"}) /\ v \in Worker
      BY <1>5, <2>1 DEF In
    <3>2. reg[v] <= bound[loc[v]] /\ loc[v] \in Bank /\ reg[v] \in Nat
      BY <1>1, <3>1, BankFacts DEF Dominates, Shape
    <3>3. QED
      BY <2>1, <2>5, <2>6, <3>2
  <2>10. Dominates(more)'
    BY <1>3, <2>8, <2>9 DEF Dominates
  <2>11. Owed[w] = d /\ Owed'[w] = 0
    BY <2>1 DEF Owed, Owing, Leaving, d
  <2>12. SumFunctionOnSet(more, Bank) + owes <= added'
    <3> HIDE DEF owed, owes
    <3>1. QED
      BY <1>1, <1>2, <1>4, <1>6, <2>1, <2>2, <2>5, <2>7, <2>11
  <2>13. QED
    BY <1>3, <2>5, <2>10, <2>12, Zenon DEF Overstated
<1>13. CASE LoadLow(w) \/ LoadHigh(w) \/ StoreLow(w) \/ StoreHigh(w)
  <2>1. /\ at[w] \notin Owing /\ at'[w] \notin Owing /\ at[w] # "idle"
        /\ reuse_dist_sum' = reuse_dist_sum
    BY <1>13 DEF LoadLow, LoadHigh, StoreLow, StoreHigh, Goto, sums, Owing, Leaving, Shape
  <2>2. Owed[w] = 0 /\ Owed'[w] = 0 /\ added' = added
    BY <2>1, StepAlone DEF Owed
  <2>3. at[w] # "store" /\ at'[w] # "store"
    BY <2>1 DEF Owing
  <2>4. QED
    BY <1>6, <1>7, <1>8, <2>1, <2>2, <2>3
<1>14. QED
  BY <1>9, <1>10, <1>11, <1>12, <1>13 DEF Work

\* The same without a step.
LEMMA StutterOverstated == Overstated /\ UNCHANGED vars => Overstated'
  BY DEF Overstated, Dominates, Owed, In, Bank, vars, sums, regs, past

\* In the beginning.
LEMMA InitOverstated == Init => Overstated
<1> SUFFICES ASSUME Init
             PROVE  Overstated
  OBVIOUS
<1> DEFINE bound == [b \in Bank |-> 0]
           owed == Owed
<1>1. IsFiniteSet(Bank) /\ IsFiniteSet(Worker)
  BY InitShape, Banks, WorkerAssumption
<1>2. /\ \A b \in Bank : bound[b] = 0
      /\ \A w \in Worker : owed[w] = 0
  BY DEF Init, Owed, Owing, Leaving
<1>3. bound \in [Bank -> Nat]
  OBVIOUS
<1>4. Dominates(bound)
  <2>1. In({"store"}) = {}
    BY DEF Init, In
  <2>2. \A b \in Bank : reuse_dist_sum[b] <= bound[b]
    BY DEF Init
  <2>3. QED
    BY <2>1, <2>2, Zenon DEF Dominates
<1> HIDE DEF bound, owed
<1>5. SumFunctionOnSet(bound, Bank) = 0 /\ SumFunctionOnSet(owed, Worker) = 0
  BY <1>1, <1>2, SumZero
<1>6. SumFunctionOnSet(bound, Bank) + SumFunctionOnSet(owed, Worker) <= added
  BY <1>5 DEF Init
<1>7. QED
  BY <1>3, <1>4, <1>6, Zenon DEF Overstated, owed

\* What dominates the banks dominates their sum.
LEMMA OverstatedImplies == Shape /\ Overstated => SumNeverOverstated
<1> SUFFICES ASSUME Shape, Overstated
             PROVE  Total <= added
  BY DEF SumNeverOverstated
<1>1. PICK bound \in [Bank -> Nat] :
        /\ Dominates(bound)
        /\ SumFunctionOnSet(bound, Bank) + SumFunctionOnSet(Owed, Worker) <= added
  BY DEF Overstated
<1>2. /\ IsFiniteSet(Bank) /\ Total = SumFunctionOnSet(reuse_dist_sum, Bank) /\ Total \in Nat
      /\ \A b \in Bank : reuse_dist_sum[b] \in Nat /\ bound[b] \in Nat
                         /\ reuse_dist_sum[b] <= bound[b]
  BY <1>1, Banks DEF Dominates
<1>3. SumFunctionOnSet(reuse_dist_sum, Bank) <= SumFunctionOnSet(bound, Bank)
  BY <1>2, SumMonotone
<1>4. SumFunctionOnSet(bound, Bank) \in Nat
  BY <1>2, SumType
<1>5. SumFunctionOnSet(Owed, Worker) \in Nat
  <2> DEFINE owed == Owed
  <2>1. \A w \in Worker : owed[w] \in Nat
    BY DEF Owed, Shape
  <2> HIDE DEF owed
  <2>2. SumFunctionOnSet(owed, Worker) \in Nat
    BY <2>1, WorkerAssumption, SumType
  <2>3. QED
    BY <2>2 DEF owed
<1>6. added \in Nat
  BY DEF Shape
<1>7. QED
  BY <1>1, <1>2, <1>3, <1>4, <1>5, <1>6

-----------------------------------------------------------------------------
(* The low word of the squares. *)

\* The low word holds at most the squares that were stored into it, and so does
\* what was read from it.
LEMMA StepLow ==
    ASSUME Shape, Shape', LowBound, NEW w \in Worker, Work(w)
    PROVE  LowBound'
<1> DEFINE owed == SumFunctionOnSet(OwedSquare, Worker)
           owes == SumFunctionOnSet(OwedSquare', Worker)
<1>1. /\ OwedSquare[w] \in Nat /\ OwedSquare'[w] \in Nat /\ owed \in Nat /\ owes \in Nat
      /\ owes = owed - OwedSquare[w] + OwedSquare'[w]
  BY StepOwed
<1>2. /\ low + owed <= squared /\ \A v \in Worker : words[v][1] + owed <= squared
      /\ LowBound' <=> /\ low' + owes <= squared'
                       /\ \A v \in Worker : words'[v][1] + owes <= squared'
  BY DEF LowBound
<1>3. /\ squared \in Nat /\ squared' \in Nat /\ low \in Nat /\ low' \in Nat
      /\ \A v \in Worker : words[v][1] \in Nat /\ words'[v][1] \in Nat
  BY WordFacts DEF Shape
<1>4. ASSUME OwedSquare'[w] - OwedSquare[w] = squared' - squared, low' = low,
             \A v \in Worker : words'[v][1] = words[v][1] \/ words'[v][1] = low
      PROVE  LowBound'
  <2> HIDE DEF owed, owes
  <2>1. QED
    BY <1>1, <1>2, <1>3, <1>4
<1>5. CASE Begin(w)
  <2>1. at[w] = "idle" /\ at'[w] = "check" /\ low' = low /\ words' = words
    BY <1>5 DEF Begin, Goto, ssum, Shape
  <2>2. PICK d \in Dist : dist' = [dist EXCEPT ![w] = d] /\ squared' = squared + Square(d)
    BY <1>5 DEF Begin
  <2>3. OwedSquare[w] = 0 /\ OwedSquare'[w] = Square(d)
    BY <2>1, <2>2 DEF OwedSquare, Unsquared, Owing, Leaving, Shape
  <2>4. QED
    BY <1>1, <1>3, <1>4, <2>1, <2>2, <2>3
<1>6. CASE StoreLow(w)
  <2>1. /\ at[w] \in {"store_low", "store_both"} /\ at'[w] \in {"store_high", "load_high"}
        /\ low' = (words[w][1] + Square(dist[w])) % Word /\ words' = words /\ squared' = squared
    BY <1>6 DEF StoreLow, Goto, regs, past, Shape
  <2>2. OwedSquare[w] = Square(dist[w]) /\ OwedSquare'[w] = 0
    BY <2>1 DEF OwedSquare, Unsquared, Owing, Leaving
  <2>3. Word \in Nat /\ Square(dist[w]) \in Nat /\ low' <= words[w][1] + Square(dist[w])
    <3>1. Square(dist[w]) \in 0 .. Word - 1 /\ Word \in Nat /\ words[w][1] \in Nat
      BY <1>3, CarryFacts, WordFacts
    <3>2. low' = words[w][1] + Square(dist[w]) \/ low' = words[w][1] + Square(dist[w]) - Word
      BY <2>1, CarryFacts
    <3>3. QED
      BY <3>1, <3>2
  <2> HIDE DEF owed, owes
  <2>4. QED
    BY <1>1, <1>2, <1>3, <2>1, <2>2, <2>3
<1>7. CASE ~Begin(w) /\ ~StoreLow(w)
  <2>1. /\ at[w] # "idle" /\ (at[w] \in Unsquared <=> at'[w] \in Unsquared) /\ low' = low
    BY <1>7 DEF Work, Check, Reload, LeaveBank, InspectBank, ClearBank, LoadBank, StoreBank,
                LoadLow, LoadHigh, StoreHigh, Goto, ssum, Unsquared, Owing, Leaving, Shape
  <2>2. \A v \in Worker : words'[v][1] = words[v][1] \/ words'[v][1] = low
    BY <1>7 DEF Work, Check, Reload, LeaveBank, InspectBank, ClearBank, LoadBank, StoreBank,
                LoadLow, LoadHigh, StoreHigh, regs, Shape
  <2>3. OwedSquare'[w] = OwedSquare[w] /\ squared' = squared
    BY <2>1, StepAlone DEF OwedSquare
  <2>4. QED
    BY <1>1, <1>3, <1>4, <2>1, <2>2, <2>3
<1>8. QED
  BY <1>5, <1>6, <1>7

\* The same without a step.
LEMMA StutterLow == LowBound /\ UNCHANGED vars => LowBound'
  BY DEF LowBound, OwedSquare, In, vars, ssum, regs, past

\* In the beginning.
LEMMA InitLow == Init => LowBound
<1> SUFFICES ASSUME Init
             PROVE  LowBound
  OBVIOUS
<1> DEFINE owed == OwedSquare
<1>1. \A w \in Worker : owed[w] = 0
  BY DEF Init, OwedSquare, Unsquared, Owing, Leaving
<1> HIDE DEF owed
<1>2. SumFunctionOnSet(owed, Worker) = 0
  BY <1>1, WorkerAssumption, SumZero
<1>3. low = 0 /\ squared = 0 /\ \A w \in Worker : words[w][1] = 0
  BY DEF Init
<1>4. QED
  BY <1>2, <1>3 DEF LowBound, owed

-----------------------------------------------------------------------------
(* The high word of the squares. *)

\* A carry leaves the set of those that are to come when it is added, or when
\* the low word turns out to have room.
LEMMA StepCarrying ==
    ASSUME Shape, Shape', NEW w \in Worker, Work(w)
    PROVE  /\ Cardinality(Carrying) \in Nat /\ Cardinality(Carrying') \in Nat
           /\ Cardinality(Carrying') = Cardinality(Carrying) + (IF w \in Carrying' THEN 1 ELSE 0)
                                                             - (IF w \in Carrying THEN 1 ELSE 0)
           /\ w \in Carrying' => at[w] = "idle" \/ w \in Carrying
           /\ at[w] = "store_high" => w \notin Carrying' /\ (w \in Carrying <=> Carry(w) # 0)
           /\ at'[w] \in {"load_high", "store_high"} => (w \in Carrying' <=> Carry(w)' # 0)
<1> DEFINE past_load == {"store_low", "load_both", "load_high", "store_both", "store_high"}
<1>1. Carrying \in SUBSET Worker /\ Carrying' \in SUBSET Worker
  BY DEF Carrying, In
<1>2. \A v \in Worker : v # w => (v \in Carrying' <=> v \in Carrying)
  <2>1. \A v \in Worker : v # w => at'[v] = at[v] /\ dist'[v] = dist[v] /\ words'[v] = words[v]
    BY StepAlone
  <2>2. QED
    BY <2>1 DEF Carrying, Carry, In
<1>3. /\ Cardinality(Carrying) \in Nat
      /\ Cardinality(Carrying') = Cardinality(Carrying) + (IF w \in Carrying' THEN 1 ELSE 0)
                                                        - (IF w \in Carrying THEN 1 ELSE 0)
  BY <1>1, <1>2, WorkerAssumption, CountMoves
<1>4. Cardinality(Carrying') \in Nat
  BY <1>1, WorkerAssumption, FS_Subset, FS_CardinalityType
<1>5. ASSUME at[w] \in past_load, at'[w] # "idle"
      PROVE  at'[w] \in past_load /\ Carry(w)' = Carry(w)
  <2>1. at'[w] \in past_load /\ words'[w][1] = words[w][1] /\ dist'[w] = dist[w]
    BY <1>5 DEF Work, Begin, Check, Reload, LeaveBank, InspectBank, ClearBank, LoadBank, StoreBank,
           LoadLow, LoadHigh, StoreLow, StoreHigh, Goto, regs, Shape
  <2>2. QED
    BY <2>1 DEF Carry
<1>6. w \in Carrying' => at[w] = "idle" \/ w \in Carrying
  <2>1. at[w] \in Labels
    BY DEF Shape
  <2>2. w \in Carrying <=> at[w] # "idle" /\ (at[w] \in past_load => Carry(w) # 0)
    BY <2>1 DEF Carrying, In, Busy
  <2>3. w \in Carrying' => at'[w] # "idle" /\ (at'[w] \in past_load => Carry(w)' # 0)
    BY DEF Carrying, In, Busy
  <2>4. QED
    BY <1>5, <2>2, <2>3
<1>7. at[w] = "store_high" => w \notin Carrying' /\ (w \in Carrying <=> Carry(w) # 0)
  <2>1. at[w] = "store_high" => at'[w] = "idle"
    BY DEF Work, Begin, Check, Reload, LeaveBank, InspectBank, ClearBank, LoadBank, StoreBank,
           LoadLow, LoadHigh, StoreLow, StoreHigh, Goto, Shape
  <2>2. QED
    BY <2>1 DEF Carrying, In, Busy, Labels
<1>8. at'[w] \in {"load_high", "store_high"} => (w \in Carrying' <=> Carry(w)' # 0)
  BY DEF Carrying, In, Busy, Labels
<1>9. QED
  BY <1>3, <1>4, <1>6, <1>7, <1>8

\* The first reuse to store the low word has no carry; each later one adds at
\* most one to a value that every other carry had room in.
LEMMA StepHigh ==
    ASSUME Shape, Shape', Indices', HighBound, NEW w \in Worker, Work(w)
    PROVE  HighBound'
<1> DEFINE n == Cardinality(Carrying)
           m == Cardinality(Carrying')
           one == IF at[w] = "idle" THEN 1 ELSE 0
<1>1. Begun \in Nat /\ Begun' = Begun + one
  BY BegunType, BegunStep
<1>2. /\ n \in Nat /\ m \in Nat /\ m <= n + one
      /\ at[w] = "store_high" => IF Carry(w) # 0 THEN m = n - 1 ELSE m = n
  BY StepCarrying
<1>3. /\ high \in Nat /\ high' \in Nat
      /\ \A v \in Worker : words[v][2] \in Nat /\ words'[v][2] \in Nat
  BY DEF Shape
<1>4. CASE Fresh /\ ~StoreLow(w)
  <2>1. low = 0 /\ high = 0 /\ \A v \in Worker : words[v][1] = 0 /\ words[v][2] = 0
    BY <1>4 DEF Fresh
  <2>2. at[w] \notin {"load_high", "store_high"}
    BY <1>4 DEF Fresh, In
  <2>3. low' = low /\ high' = high /\ at'[w] \notin {"load_high", "store_high"}
    BY <1>4, <2>2 DEF Work, Begin, Check, Reload, LeaveBank, InspectBank, ClearBank, LoadBank, StoreBank,
           LoadLow, LoadHigh, StoreHigh, Goto, ssum, Shape
  <2>4. \A v \in Worker : /\ words'[v][1] = words[v][1] \/ words'[v][1] = low
                          /\ words'[v][2] = words[v][2] \/ words'[v][2] = high
    BY <1>4, <2>2 DEF Work, Begin, Check, Reload, LeaveBank, InspectBank, ClearBank, LoadBank, StoreBank,
           LoadLow, LoadHigh, StoreHigh, regs, Shape
  <2>5. In({"load_high", "store_high"})' = {}
    BY <1>4, <2>3, StepAlone DEF Fresh, In
  <2>6. Fresh'
    BY <2>1, <2>3, <2>4, <2>5 DEF Fresh
  <2>7. QED
    BY <2>6 DEF HighBound
<1>5. CASE Fresh /\ StoreLow(w)
  <2>1. high = 0 /\ \A v \in Worker : words[v][1] = 0 /\ words[v][2] = 0
    BY <1>5 DEF Fresh
  <2>2. /\ at'[w] \in {"load_high", "store_high"} /\ high' = high /\ words' = words
    BY <1>5 DEF StoreLow, Goto, regs, Shape
  <2>3. Carry(w)' = 0
    <3> DEFINE d == dist'[w]
    <3>1. Carry(w)' = (0 + Square(d)) \div Word
      BY <2>1, <2>2 DEF Carry
    <3>2. d \in Nat
      BY DEF Shape
    <3> HIDE DEF d
    <3>3. 0 \in 0 .. Word - 1 /\ Word \in Nat \ {0}
      BY WordFacts
    <3>4. /\ Square(d) \in 0 .. Word - 1
          /\ (0 + Square(d)) \div Word = IF 0 + Square(d) < Word THEN 0 ELSE 1
      BY <3>2, <3>3, SquareFacts
    <3>5. QED
      BY <3>1, <3>3, <3>4
  <2>4. w \in In(Busy)' /\ Carrying' \subseteq In(Busy)' \ {w} /\ In(Busy)' \subseteq Worker
    <3>1. w \notin Carrying'
      BY <2>2, <2>3, StepCarrying
    <3>2. QED
      BY <2>2, <3>1 DEF Carrying, In, Busy, Labels
  <2>5. m <= Cardinality(In(Busy)') - 1
    <3> DEFINE busy == In(Busy)'
               coming == Carrying'
    <3>1. w \in busy /\ coming \subseteq busy \ {w} /\ busy \subseteq Worker
      BY <2>4
    <3> HIDE DEF busy, coming
    <3>2. IsFiniteSet(busy) /\ IsFiniteSet(busy \ {w})
      BY <3>1, WorkerAssumption, FS_Subset
    <3>3. Cardinality(busy \ {w}) = Cardinality(busy) - 1
      BY <3>1, <3>2, FS_RemoveElement
    <3>4. Cardinality(coming) <= Cardinality(busy \ {w})
      BY <3>1, <3>2, FS_Subset
    <3>5. QED
      BY <3>3, <3>4 DEF busy, coming
  <2>6. Cardinality(In(Busy)') <= Begun' /\ Cardinality(In(Busy)') \in Nat
    BY <2>4, WorkerAssumption, FS_Subset, FS_CardinalityType DEF Indices
  <2>7. high' = 0 /\ \A v \in Worker : words'[v][2] = 0
    BY <2>1, <2>2
  <2> HIDE DEF n, m
  <2>8. high' + m <= Begun' - 1 /\ \A v \in Worker : words'[v][2] + m <= Begun' - 1
    BY <1>1, <1>2, <2>5, <2>6, <2>7
  <2>9. QED
    BY <2>8 DEF HighBound, m
<1>6. CASE ~Fresh
  <2>1. high + n <= Begun - 1 /\ \A v \in Worker : words[v][2] + n <= Begun - 1
    BY <1>6 DEF HighBound
  <2>2. \A v \in Worker : words'[v][2] = words[v][2] \/ words'[v][2] = high
    <3>1. CASE LoadLow(w) \/ LoadHigh(w)
      BY <3>1 DEF LoadLow, LoadHigh, Shape
    <3>2. CASE ~LoadLow(w) /\ ~LoadHigh(w)
      <4>1. words' = words
        BY <3>2 DEF Work, Begin, Check, Reload, LeaveBank, InspectBank, ClearBank, LoadBank,
                    StoreBank, StoreLow, StoreHigh, regs
      <4>2. QED
        BY <4>1
    <3>3. QED
      BY <3>1, <3>2
  <2>3. high' = high \/ (at[w] = "store_high" /\ high' = words[w][2] + Carry(w))
    BY DEF Work, Begin, Check, Reload, LeaveBank, InspectBank, ClearBank, LoadBank, StoreBank,
           LoadLow, LoadHigh, StoreLow, StoreHigh, ssum
  <2>4. Carry(w) \in {0, 1}
    BY CarryFacts
  <2> HIDE DEF n, m
  <2>5. high' + m <= Begun' - 1
    <3>1. CASE high' = high
      BY <1>1, <1>2, <1>3, <2>1, <3>1
    <3>2. CASE at[w] = "store_high" /\ high' = words[w][2] + Carry(w)
      <4>1. words[w][2] + n <= Begun - 1 /\ words[w][2] \in Nat /\ Begun' = Begun
        BY <1>1, <1>3, <2>1, <3>2
      <4>2. m + Carry(w) = n
        BY <1>2, <2>4, <3>2
      <4>3. QED
        BY <1>1, <1>2, <2>4, <3>2, <4>1, <4>2
    <3>3. QED
      BY <2>3, <3>1, <3>2
  <2>6. \A v \in Worker : words'[v][2] + m <= Begun' - 1
    BY <1>1, <1>2, <1>3, <2>1, <2>2
  <2>7. QED
    BY <2>5, <2>6 DEF HighBound, m
<1>7. QED
  BY <1>4, <1>5, <1>6

\* The same without a step.
LEMMA StutterHigh == HighBound /\ UNCHANGED vars => HighBound'
  BY DEF HighBound, Fresh, Carrying, Carry, In, Begun, vars, ssum, regs, past

\* In the beginning.
LEMMA InitHigh == Init => HighBound
<1> SUFFICES ASSUME Init
             PROVE  Fresh
  BY DEF HighBound
<1>1. low = 0 /\ high = 0 /\ \A w \in Worker : words[w][1] = 0 /\ words[w][2] = 0
  BY DEF Init
<1>2. In({"load_high", "store_high"}) = {}
  BY DEF Init, In
<1>3. QED
  BY <1>1, <1>2 DEF Fresh

\* The high word never exceeds the number of reuses, nor reaches it before the
\* low word has something to carry.
LEMMA HighImplies ==
    ASSUME Shape, HighBound
    PROVE  high \in 0 .. Begun /\ (high <= Begun - 1 \/ (high = 0 /\ low = 0))
<1>1. CASE Fresh
  BY <1>1, BegunType DEF Fresh
<1>2. CASE ~Fresh
  <2>1. Cardinality(Carrying) \in Nat
    <3>1. Carrying \subseteq Worker
      BY DEF Carrying, In
    <3>2. QED
      BY <3>1, WorkerAssumption, FS_Subset, FS_CardinalityType
  <2>2. high + Cardinality(Carrying) <= Begun - 1
    BY <1>2 DEF HighBound
  <2>3. high \in Nat /\ Begun \in Nat
    BY BegunType DEF Shape
  <2>4. QED
    BY <2>1, <2>2, <2>3
<1>3. QED
  BY <1>1, <1>2

\* The types that the runs check.
LEMMA ShapeImplies == Shape /\ Indices /\ HighBound => TypeOK
  BY BankFacts, HighImplies DEF Shape, TypeOK

\* Both words together.
LEMMA SquaresImplies == Shape /\ LowBound /\ HighBound => SquaresWithinCarries
<1> SUFFICES ASSUME Shape, LowBound, HighBound
             PROVE  high * Word + low <= squared + Word * Max({Begun - 1, 0})
  BY DEF SquaresWithinCarries, Squares
<1> DEFINE top == Max({Begun - 1, 0})
<1>1. Begun \in Nat /\ high \in Nat /\ low \in Nat /\ squared \in Nat /\ Word \in Nat
  BY BegunType, WordFacts DEF Shape
<1>2. top \in Nat /\ Begun - 1 <= top
  <2> DEFINE S == {Begun - 1, 0}
  <2>1. CASE Begun = 0
    <3>1. \A x \in {-1, 0} : x <= 0
      OBVIOUS
    <3>2. \E x \in S : \A y \in S : x >= y
      BY <2>1, <3>1
    <3>3. Max(S) \in S /\ \A y \in S : Max(S) >= y
      BY <3>2 DEF Max
    <3>4. QED
      BY <1>1, <2>1, <3>3
  <2>2. CASE Begun # 0
    <3>1. S \in SUBSET (0 .. Begun) /\ S # {} /\ Begun - 1 \in S
      BY <1>1, <2>2
    <3> HIDE DEF S
    <3>2. Max(S) \in S /\ \A x \in S : x <= Max(S)
      BY <1>1, <3>1, MaxProperties
    <3>3. QED
      BY <1>1, <3>1, <3>2 DEF S
  <2>3. QED
    BY <2>1, <2>2
<1>3. low <= squared
  <2> DEFINE owed == OwedSquare
  <2>1. \A w \in Worker : owed[w] \in Nat
    <3>1. Word - 1 \in Nat
      BY WordFacts
    <3>2. QED
      BY <3>1, CarryFacts DEF OwedSquare
  <2> HIDE DEF owed
  <2>2. SumFunctionOnSet(owed, Worker) \in Nat
    BY <2>1, WorkerAssumption, SumType
  <2>3. low + SumFunctionOnSet(owed, Worker) <= squared
    BY DEF LowBound, owed
  <2>4. QED
    BY <1>1, <2>2, <2>3
<1> HIDE DEF top
<1>4. CASE high <= Begun - 1
  <2>1. high <= top
    BY <1>1, <1>2, <1>4
  <2>2. \A i, j, k \in Nat : i <= j => i * k <= k * j
    BY Z3
  <2>3. high * Word <= Word * top
    BY <1>1, <1>2, <2>1, <2>2
  <2>4. high * Word \in Nat /\ Word * top \in Nat
    BY <1>1, <1>2
  <2>5. high * Word + low <= squared + Word * top
    BY <1>1, <1>3, <2>3, <2>4
  <2>6. QED
    BY <2>5 DEF top
<1>5. CASE high = 0 /\ low = 0
  <2>1. 0 * Word + 0 = 0 /\ Word * top \in Nat
    BY <1>1, <1>2
  <2>2. high * Word + low <= squared + Word * top
    BY <1>1, <1>5, <2>1
  <2>3. QED
    BY <2>2 DEF top
<1>6. QED
  BY <1>4, <1>5, HighImplies

-----------------------------------------------------------------------------
(* The room in a bank. *)

\* Once a reuse was astray the history is not clean, and only what such a reuse
\* stores is counted as excess.
LEMMA StepExcess ==
    ASSUME Shape, Shape', clean => astray = {}, NEW w \in Worker, Work(w)
    PROVE  /\ clean' => clean /\ astray' = {} /\ excess' = excess
           /\ excess \in Nat /\ excess' \in Nat /\ excess <= excess'
           /\ at[w] = "store" /\ w \in astray => excess' = excess + dist[w]
<1>1. excess \in Nat /\ excess' \in Nat /\ dist[w] \in Nat /\ clean \in BOOLEAN
  BY DEF Shape
<1>2. CASE StoreBank(w)
  <2>1. /\ excess' = excess + (IF w \in astray THEN dist[w] ELSE 0)
        /\ clean' = clean /\ astray' = astray
    BY <1>2 DEF StoreBank, Spend
  <2>2. QED
    BY <1>1, <2>1
<1>3. CASE Begin(w)
  <2>1. excess' = excess /\ at[w] = "idle" /\ (clean' => clean /\ astray' = {})
    BY <1>3, Zenon DEF Begin
  <2>2. QED
    BY <1>1, <2>1
<1>4. CASE ~StoreBank(w) /\ ~Begin(w)
  <2>1. excess' = excess /\ clean' = clean /\ astray' \subseteq astray /\ at[w] # "store"
    BY <1>4 DEF Work, Check, Reload, LeaveBank, InspectBank, ClearBank, LoadBank,
                LoadLow, LoadHigh, StoreLow, StoreHigh, past
  <2>2. QED
    BY <1>1, <2>1
<1>5. QED
  BY <1>2, <1>3, <1>4

\* A worker that is alone uses one index, and has compared what it will store.
LEMMA StepLone ==
    ASSUME Shape, Shape', Indices, \A v \in In(Busy) \ astray : Lone(v), NEW w \in Worker, Work(w),
           NEW v \in In(Busy)' \ astray'
    PROVE  Lone(v)'
<1>1. v \in Worker /\ at'[v] # "idle" /\ v \notin astray'
  BY DEF In, Busy
<1>2. \A u \in Worker : u # w => at'[u] = at[u]
  BY StepAlone
<1>3. CASE Begin(w)
  <2> DEFINE others == {u \in Worker \ {w} : at[u] # "idle"}
  <2>1. others = {}
    <3> SUFFICES ASSUME others # {}
                 PROVE  FALSE
      OBVIOUS
    <3>1. astray' = astray \cup (others \cup {w})
      BY <1>3 DEF Begin
    <3>2. v = w \/ v \in others
      BY <1>1, <1>2
    <3>3. QED
      BY <1>1, <3>1, <3>2
  <2>2. \A u \in Worker : u # w => at'[u] = "idle"
    BY <1>2, <2>1
  <2>3. at'[w] = "check" /\ loc'[w] = loc_id /\ loc_id' = loc_id /\ v = w
    BY <1>1, <1>3, <2>2 DEF Begin, Goto, sums, Shape
  <2>4. dist'[w] <= IntMax
    <3>1. dist'[w] \in Nat /\ IntMax \in Nat
      BY WordFacts DEF Shape
    <3>2. astray' = astray \cup (IF dist'[w] > IntMax THEN {w} ELSE {})
      BY <1>3, <2>1 DEF Begin
    <3>3. QED
      BY <1>1, <2>3, <3>1, <3>2
  <2>5. QED
    BY <2>2, <2>3, <2>4 DEF Lone, IntMax
<1>4. CASE ~Begin(w)
  <2>1. at[w] # "idle" /\ astray' \in {astray, astray \ {w}} /\ (astray' # astray => at'[w] = "idle")
    BY <1>4 DEF Work, Check, Reload, LeaveBank, InspectBank, ClearBank, LoadBank, StoreBank,
                LoadLow, LoadHigh, StoreLow, StoreHigh, past, Goto, Shape
  <2>2. v = w
    <3> SUFFICES ASSUME v # w
                 PROVE  FALSE
      OBVIOUS
    <3>1. v \in In(Busy) \ astray
      BY <1>1, <1>2, <2>1 DEF In, Busy, Shape
    <3>2. QED
      BY <2>1, <3>1 DEF Lone
  <2>3. w \in In(Busy) \ astray
    BY <1>1, <2>1, <2>2 DEF In, Busy, Shape
  <2>4. Lone(w)
    BY <2>3
  <2>5. \A u \in Worker : u # w => at'[u] = "idle"
    BY <1>2, <2>4 DEF Lone
  <2>6. loc_id \in Bank /\ loc[w] \in Bank /\ Word \in Nat /\ IntMax \in Nat /\ Word = 2 * IntMax + 2
    BY BankFacts, WordFacts
  <2>7. Room(0, dist[w])
    <3>1. dist[w] \in 0 .. IntMax
      BY <2>4, <2>6 DEF Lone, Shape
    <3>2. Word \in Nat \ {0} /\ 0 \in 0 .. Word - 1 /\ dist[w] \in 0 .. Word - 1
      BY <2>6, <3>1
    <3>3. (0 + dist[w]) % Word = IF 0 + dist[w] < Word THEN 0 + dist[w] ELSE 0 + dist[w] - Word
      BY <3>2, Digits
    <3>4. QED
      BY <3>1, <3>2, <3>3 DEF Room
  <2>8. dist'[w] = dist[w] /\ dist'[w] <= IntMax'
    <3>1. dist'[w] = dist[w]
      BY <2>1, StepAlone
    <3>2. QED
      BY <2>4, <3>1 DEF Lone, IntMax
  <2>9. CASE Check(w)
    <3>1. /\ loc' = loc /\ loc_id' = loc_id /\ reuse_dist_sum' = reuse_dist_sum
          /\ at[w] = "check"
          /\ at'[w] = IF (reuse_dist_sum[loc[w]] + dist[w]) % Word > IntMax THEN "reload" ELSE "load"
      BY <2>9 DEF Check, Goto, sums, regs, Shape
    <3>2. (reuse_dist_sum[loc[w]] + dist[w]) % Word \in Nat
      <4>1. reuse_dist_sum[loc[w]] + dist[w] \in Nat /\ Word \in Nat \ {0}
        BY <2>6, WordFacts DEF Shape
      <4>2. QED
        BY <4>1, Remainders
    <3>3. at'[w] = "load" => Room(reuse_dist_sum[loc[w]], dist[w])
      BY <2>6, <3>1, <3>2 DEF Room
    <3>4. loc'[w] = loc_id' /\ at'[w] # "store"
      BY <2>4, <3>1 DEF Lone, Owing, Leaving
    <3>5. at'[w] = "load" => Room(reuse_dist_sum'[loc'[w]], dist'[w])
      BY <2>8, <3>1, <3>3
    <3>6. QED
      BY <2>2, <2>5, <2>8, <3>4, <3>5 DEF Lone, Room, IntMax
  <2>10. CASE Reload(w) \/ LeaveBank(w)
    <3>1. loc[w] = loc_id
      BY <2>4, <2>10 DEF Lone, Reload, LeaveBank, Owing, Leaving
    <3>2. loc'[w] = loc_id' /\ at'[w] \notin {"load", "store"}
      BY <2>10, <3>1 DEF Reload, LeaveBank, Index, sums, Goto, Shape
    <3>3. QED
      BY <2>2, <2>5, <2>8, <3>2 DEF Lone
  <2>11. CASE InspectBank(w)
    <3>1. loc[w] = loc_id
      BY <2>4, <2>11 DEF Lone, InspectBank, Owing
    <3>2. /\ loc'[w] = loc_id /\ loc_id' = loc_id /\ reuse_dist_sum' = reuse_dist_sum
          /\ at'[w] \in {"clear", "load"} /\ (at'[w] = "load" => reuse_dist_sum[loc_id] = 0)
      BY <2>11, <3>1 DEF InspectBank, Index, sums, Goto, Shape
    <3>3. at'[w] = "load" => Room(reuse_dist_sum'[loc'[w]], dist'[w])
      BY <2>7, <2>8, <3>2
    <3>4. QED
      BY <2>2, <2>5, <2>8, <3>2, <3>3 DEF Lone, Room, IntMax
  <2>12. CASE ClearBank(w)
    <3>1. loc[w] = loc_id
      BY <2>4, <2>12 DEF Lone, ClearBank, Owing
    <3>2. /\ loc'[w] = loc_id /\ loc_id' = loc_id /\ at'[w] = "load"
          /\ reuse_dist_sum'[loc_id] = 0
      BY <2>6, <2>12, <3>1 DEF ClearBank, Index, Goto, Shape
    <3>3. Room(reuse_dist_sum'[loc'[w]], dist'[w])
      BY <2>7, <2>8, <3>2
    <3>4. QED
      BY <2>2, <2>5, <2>8, <3>2, <3>3 DEF Lone, Room, IntMax
  <2>13. CASE LoadBank(w)
    <3>1. loc[w] = loc_id /\ Room(reuse_dist_sum[loc[w]], dist[w])
      BY <2>4, <2>13 DEF Lone, LoadBank, Owing
    <3>2. /\ loc'[w] = loc_id /\ loc_id' = loc_id /\ at'[w] = "store"
          /\ reg'[w] = reuse_dist_sum[loc[w]]
      BY <2>13, <3>1 DEF LoadBank, Index, sums, Goto, Shape
    <3>3. Room(reg'[w], dist'[w])
      BY <2>8, <3>1, <3>2
    <3>4. QED
      BY <2>2, <2>5, <2>8, <3>2, <3>3 DEF Lone, Room, IntMax
  <2>14. CASE StoreBank(w) \/ LoadLow(w) \/ LoadHigh(w) \/ StoreLow(w) \/ StoreHigh(w)
    <3>1. at'[w] \notin Owing
      BY <2>14 DEF StoreBank, LoadLow, LoadHigh, StoreLow, StoreHigh, Goto, Shape, Owing, Leaving
    <3>2. at'[w] # "load" /\ at'[w] # "store"
      BY <3>1 DEF Owing
    <3>3. QED
      BY <2>2, <2>5, <2>8, <3>1, <3>2 DEF Lone
  <2>15. QED
    BY <1>4, <2>9, <2>10, <2>11, <2>12, <2>13, <2>14 DEF Work
<1>5. QED
  BY <1>3, <1>4

\* A bank exceeds INT64_MAX by at most the excess, and so does a register: a
\* worker that is alone stores only what it has compared.
LEMMA StepOvershoot ==
    ASSUME Shape, Shape', Indices, Overshoot, NEW w \in Worker, Work(w)
    PROVE  Overshoot'
<1> DEFINE top  == IntMax + excess
           next == IntMax + excess'
<1>1. /\ clean' => clean /\ astray' = {} /\ excess' = excess
      /\ excess \in Nat /\ excess' \in Nat /\ excess <= excess'
      /\ at[w] = "store" /\ w \in astray => excess' = excess + dist[w]
  BY StepExcess DEF Overshoot
<1>2. IntMax \in Nat /\ Word \in Nat \ {0}
  BY WordFacts
<1>3. /\ top \in Nat /\ next \in Nat /\ top <= next /\ IntMax <= next
      /\ at[w] = "store" /\ w \in astray => next = top + dist[w]
  <2>1. dist[w] \in Nat
    BY DEF Shape
  <2>2. QED
    BY <1>1, <1>2, <2>1
<1>4. /\ \A b \in Bank : reuse_dist_sum[b] <= top
      /\ \A v \in Worker : reg[v] <= top
      /\ \A v \in In(Busy) \ astray : Lone(v)
  BY DEF Overshoot
<1>5. \A v \in In(Busy)' \ astray' : Lone(v)'
  BY <1>4, StepLone
<1>6. loc_id \in Bank /\ loc[w] \in Bank /\ Bank' = Bank /\ IntMax' = IntMax
  BY BankFacts DEF Bank, IntMax
<1>7. /\ \A b \in Bank : reuse_dist_sum[b] \in Nat /\ reuse_dist_sum'[b] \in Nat
      /\ \A v \in Worker : reg[v] \in Nat /\ reg'[v] \in Nat
  BY <1>2, <1>6 DEF Shape
<1>8. \A v \in Worker : reg'[v] = reg[v] \/ \E b \in Bank : reg'[v] = reuse_dist_sum[b]
  BY <1>6 DEF Work, Begin, Check, Reload, LeaveBank, InspectBank, ClearBank, LoadBank, StoreBank,
              LoadLow, LoadHigh, StoreLow, StoreHigh, regs, Index, Shape
<1>9. \A v \in Worker : reg'[v] <= next
  <2> HIDE DEF top, next
  <2>1. QED
    BY <1>3, <1>4, <1>7, <1>8
<1>10. \A b \in Bank : reuse_dist_sum'[b] <= next
  <2>1. CASE StoreBank(w)
    <3> DEFINE d == dist[w]
               n == (reg[w] + d) % Word
    <3>1. /\ at[w] = "store"
          /\ reuse_dist_sum' = [reuse_dist_sum EXCEPT ![loc[w]] = n]
      BY <2>1 DEF StoreBank
    <3>2. w \in In(Busy) /\ reg[w] \in Nat
      BY <1>7, <3>1 DEF In, Busy, Labels
    <3>3. d \in Nat
      BY DEF Shape
    <3>4. n \in Nat /\ n <= reg[w] + d
      <4>1. \A i \in Nat : i % Word \in 0 .. Word - 1 /\ i % Word <= i
        BY <1>2, Remainders, Zenon
      <4>2. reg[w] + d \in Nat
        BY <3>2, <3>3
      <4>3. QED
        BY <1>2, <4>1, <4>2
    <3>5. CASE w \in astray
      <4>1. n <= next
        <5>1. next = top + d /\ reg[w] <= top
          BY <1>3, <1>4, <3>1, <3>5
        <5> HIDE DEF n, d, top, next
        <5>2. QED
          BY <1>2, <1>3, <3>2, <3>3, <3>4, <5>1
      <4>2. \A b \in Bank : reuse_dist_sum'[b] = reuse_dist_sum[b] \/ reuse_dist_sum'[b] = n
        BY <3>1 DEF Shape
      <4> HIDE DEF n, top, next
      <4>3. QED
        BY <1>3, <1>4, <1>7, <4>1, <4>2
    <3>6. CASE w \notin astray
      <4>1. Lone(w)
        BY <1>4, <3>2, <3>6
      <4>2. n <= IntMax
        BY <3>1, <4>1 DEF Lone, Room
      <4> HIDE DEF n, next
      <4>3. n <= next
        BY <1>2, <1>3, <3>4, <4>2
      <4>4. \A b \in Bank : reuse_dist_sum'[b] = reuse_dist_sum[b] \/ reuse_dist_sum'[b] = n
        BY <3>1 DEF n, Shape
      <4> HIDE DEF top
      <4>5. QED
        BY <1>3, <1>4, <1>7, <4>3, <4>4
    <3>7. QED
      BY <3>5, <3>6
  <2>2. CASE ~StoreBank(w)
    <3>1. \A b \in Bank : reuse_dist_sum'[b] = reuse_dist_sum[b] \/ reuse_dist_sum'[b] = 0
      BY <2>2 DEF Work, Begin, Check, Reload, LeaveBank, InspectBank, ClearBank, LoadBank,
              LoadLow, LoadHigh, StoreLow, StoreHigh, sums, Shape
    <3> HIDE DEF top, next
    <3>2. QED
      BY <1>3, <1>4, <1>7, <3>1
  <2>3. QED
    BY <2>1, <2>2
<1>11. QED
  BY <1>1, <1>5, <1>6, <1>9, <1>10 DEF Overshoot

\* The same without a step.
LEMMA StutterOvershoot == Overshoot /\ UNCHANGED vars => Overshoot'
  BY DEF Overshoot, Lone, Room, In, Bank, IntMax, vars, sums, regs, past

\* In the beginning.
LEMMA InitOvershoot == Init => Overshoot
<1> SUFFICES ASSUME Init
             PROVE  Overshoot
  OBVIOUS
<1>1. In(Busy) = {} /\ astray = {} /\ excess = 0
  BY DEF Init, In, Busy
<1>2. IntMax \in Nat
  BY WordFacts
<1>3. /\ \A b \in Bank : reuse_dist_sum[b] = 0
      /\ \A w \in Worker : reg[w] = 0
  BY DEF Init
<1>4. QED
  BY <1>1, <1>2, <1>3 DEF Overshoot

-----------------------------------------------------------------------------
(* One reuse at a time. *)

\* As long as no reuse was astray, no bank holds too much
\* and whoever is at work is alone.
LEMMA NobodyMet ==
    ASSUME Shape, Overshoot, clean
    PROVE  /\ \A b \in Bank : reuse_dist_sum[b] <= IntMax
           /\ \A v \in In(Busy) : Lone(v)
<1>1. /\ \A b \in Bank : reuse_dist_sum[b] <= IntMax + 0
      /\ \A v \in In(Busy) : Lone(v)
  BY DEF Overshoot
<1>2. IntMax \in Nat
  BY WordFacts
<1>3. QED
  BY <1>1, <1>2

\* The banks beyond the one in use are empty: loc_id moves on by one.
LEMMA StepBeyond ==
    ASSUME Shape, Shape', Indices, Overshoot, clean,
           \A b \in Bank : b > loc_id => reuse_dist_sum[b] = 0,
           NEW w \in Worker, Work(w)
    PROVE  \A b \in Bank : b > loc_id' => reuse_dist_sum'[b] = 0
<1>1. loc_id \in Nat /\ loc_id \in Bank /\ loc[w] \in Bank /\ \A b \in Bank : b \in Int
  BY BankFacts, Banks DEF Shape
<1>2. at[w] \in Owing => loc[w] = loc_id
  <2>1. at[w] \in Owing => w \in In(Busy)
    BY DEF In, Busy, Owing, Leaving, Labels
  <2>2. QED
    BY <2>1, NobodyMet DEF Lone
<1>3. CASE LeaveBank(w)
  <2>1. at[w] = "leave" /\ loc_id' = loc[w] + 1 /\ reuse_dist_sum' = reuse_dist_sum
    BY <1>3 DEF LeaveBank
  <2>2. loc_id' = loc_id + 1
    BY <1>2, <2>1 DEF Owing, Leaving
  <2>3. QED
    BY <1>1, <2>1, <2>2
<1>4. CASE StoreBank(w)
  <2>1. at[w] = "store" /\ loc_id' = loc_id
        /\ reuse_dist_sum' = [reuse_dist_sum EXCEPT ![loc[w]] = (reg[w] + dist[w]) % Word]
    BY <1>4 DEF StoreBank
  <2>2. loc[w] = loc_id
    BY <1>2, <2>1 DEF Owing
  <2>3. \A b \in Bank : b # loc_id => reuse_dist_sum'[b] = reuse_dist_sum[b]
    BY <2>1, <2>2 DEF Shape
  <2>4. QED
    BY <1>1, <2>1, <2>3
<1>5. CASE ~LeaveBank(w) /\ ~StoreBank(w)
  <2>1. loc_id' = loc_id /\ \A b \in Bank : reuse_dist_sum'[b] = reuse_dist_sum[b] \/ reuse_dist_sum'[b] = 0
    BY <1>5 DEF Work, Begin, Check, Reload, InspectBank, ClearBank, LoadBank,
              LoadLow, LoadHigh, StoreLow, StoreHigh, sums, Shape
  <2>2. QED
    BY <2>1
<1>6. QED
  BY <1>3, <1>4, <1>5

\* The only worker adds its distance to the bank in use.
LEMMA StepBanksExact ==
    ASSUME Shape, Shape', Indices, Overshoot, clean,
           \A b \in Bank : b > loc_id => reuse_dist_sum[b] = 0,
           NEW w \in Worker, Work(w), at[w] # "idle", BanksExact(w)
    PROVE  BanksExact(w)'
<1>1. /\ loc_id \in Nat /\ loc_id \in Bank /\ loc[w] \in Bank /\ loc'[w] \in Nat
      /\ Word \in Nat \ {0} /\ IntMax \in Nat /\ Word = 2 * IntMax + 2
  BY BankFacts, WordFacts DEF Shape
<1>2. w \in In(Busy)
  BY DEF In, Busy, Shape
<1>3. Lone(w) /\ (at[w] \in Owing => loc[w] = loc_id)
  BY <1>2, NobodyMet DEF Lone
<1>4. dist'[w] = dist[w] /\ added' = added /\ dist[w] \in 0 .. IntMax
  BY <1>1, <1>2, <1>3, StepAlone DEF Shape, Lone
<1>5. Total \in Nat /\ added \in Nat /\ Owed[w] \in Nat /\ Owed'[w] \in Nat
  BY Banks, StepOwed DEF Shape
<1>6. CASE StoreBank(w)
  <2> DEFINE b0 == loc[w]
             new == reuse_dist_sum'
  <2>1. /\ at[w] = "store" /\ at'[w] = "load_low"
        /\ new = [reuse_dist_sum EXCEPT ![b0] = (reg[w] + dist[w]) % Word]
    BY <1>6 DEF StoreBank, Goto, Shape
  <2>2. reg[w] = reuse_dist_sum[b0] /\ reg[w] \in 0 .. IntMax
    <3>1. reg[w] = reuse_dist_sum[b0]
      BY <2>1 DEF BanksExact
    <3>2. reuse_dist_sum[b0] <= IntMax
      BY <1>1, NobodyMet
    <3>3. reg[w] \in Nat
      BY <1>1 DEF Shape
    <3>4. QED
      BY <1>1, <3>1, <3>2, <3>3
  <2>3. (reg[w] + dist[w]) % Word = reg[w] + dist[w]
    <3>1. reg[w] \in 0 .. Word - 1 /\ dist[w] \in 0 .. Word - 1 /\ reg[w] + dist[w] < Word
      BY <1>1, <1>4, <2>2
    <3>2. (reg[w] + dist[w]) % Word =
            IF reg[w] + dist[w] < Word THEN reg[w] + dist[w] ELSE reg[w] + dist[w] - Word
      BY <1>1, <3>1, Digits
    <3>3. QED
      BY <3>1, <3>2
  <2>4. /\ new[b0] = reuse_dist_sum[b0] + dist[w]
        /\ \A b \in Bank : b # b0 => reuse_dist_sum[b] = new[b]
    BY <1>1, <2>1, <2>2, <2>3 DEF Shape
  <2>5. /\ IsFiniteSet(Bank) /\ b0 \in Bank
        /\ \A b \in Bank : reuse_dist_sum[b] \in Nat /\ new[b] \in Nat
        /\ \A b \in Bank : b # b0 => reuse_dist_sum[b] = new[b]
    BY <1>1, <2>4, Banks DEF Shape
  <2>6. Total = SumFunctionOnSet(reuse_dist_sum, Bank)
    BY Banks
  <2>7. Total' = SumFunctionOnSet(new, Bank)
    <3>1. DOMAIN new = Bank
      BY DEF Shape, Bank
    <3>2. QED
      BY <3>1, Zenon DEF Total, SumFunction
  <2> HIDE DEF b0, new
  <2>8. SumFunctionOnSet(new, Bank)
          = SumFunctionOnSet(reuse_dist_sum, Bank) - reuse_dist_sum[b0] + new[b0]
    BY <2>5, SumUpdate
  <2>9. Total' = Total + dist[w]
    <3>1. reuse_dist_sum[b0] \in Nat /\ dist[w] \in Nat
      BY <1>4, <2>5
    <3>2. QED
      BY <1>5, <2>4, <2>6, <2>7, <2>8, <3>1
  <2>10. Owed[w] = dist[w] /\ Owed'[w] = 0
    BY <2>1 DEF Owed, Owing, Leaving
  <2>11. Total' + Owed'[w] = added'
    BY <1>4, <1>5, <2>9, <2>10 DEF BanksExact
  <2>12. QED
    BY <2>1, <2>11 DEF BanksExact
<1>7. CASE ~StoreBank(w)
  <2>1. reuse_dist_sum' = reuse_dist_sum
    BY <1>7 DEF Work, Begin, Check, Reload, LeaveBank, InspectBank, ClearBank, LoadBank,
              LoadLow, LoadHigh, StoreLow, StoreHigh, sums, BanksExact
  <2>2. Total' = Total
    BY <2>1 DEF Total
  <2>3. at[w] \in Owing <=> at'[w] \in Owing
    BY <1>7 DEF Work, Begin, Check, Reload, LeaveBank, InspectBank, ClearBank, LoadBank,
              LoadLow, LoadHigh, StoreLow, StoreHigh, Goto, Owing, Leaving, Shape
  <2>4. Owed'[w] = Owed[w]
    BY <1>4, <2>3 DEF Owed
  <2>5. at'[w] # "clear"
    <3>1. CASE InspectBank(w)
      <4>1. at[w] = "inspect" /\ \E i \in {loc[w], loc_id} :
                at'[w] = IF reuse_dist_sum[i] # 0 THEN "clear" ELSE "load"
        BY <3>1 DEF InspectBank, Index, Goto, Shape
      <4>2. loc[w] = loc_id /\ reuse_dist_sum[loc[w]] = 0
        BY <1>3, <4>1 DEF BanksExact, Owing
      <4>3. QED
        BY <4>1, <4>2
    <3>2. CASE ~InspectBank(w)
      BY <3>2 DEF Work, Begin, Check, Reload, LeaveBank, ClearBank, LoadBank, StoreBank,
              LoadLow, LoadHigh, StoreLow, StoreHigh, Goto, Shape
    <3>3. QED
      BY <3>1, <3>2
  <2>6. at'[w] = "inspect" => reuse_dist_sum'[loc'[w]] = 0
    <3>1. SUFFICES ASSUME at'[w] = "inspect"
                   PROVE  reuse_dist_sum'[loc'[w]] = 0
      OBVIOUS
    <3>2. at[w] = "leave" /\ loc'[w] = loc[w] + 1 /\ loc_id' = loc[w] + 1
      BY <3>1 DEF Work, Begin, Check, Reload, LeaveBank, InspectBank, ClearBank, LoadBank, StoreBank,
              LoadLow, LoadHigh, StoreLow, StoreHigh, Goto, Shape
    <3>3. loc'[w] = loc_id + 1
      BY <1>3, <3>2 DEF Owing, Leaving
    <3>4. loc'[w] \in Bank
      <4>1. Cardinality(In(Leaving)) \in Nat \ {0}
        BY <3>2, StepCounts
      <4>2. loc_id + Cardinality(In(Leaving)) <= Begun
        BY DEF Indices
      <4>3. Cardinality(Worker) * MaxLen \in Nat /\ Begun \in 0 .. Cardinality(Worker) * MaxLen
        BY Banks, BegunType
      <4>4. loc_id + 1 \in Bank
        BY <1>1, <4>1, <4>2, <4>3 DEF Bank
      <4>5. QED
        BY <3>3, <4>4
    <3>5. QED
      BY <1>1, <2>1, <3>3, <3>4
  <2>7. at'[w] = "store" => reg'[w] = reuse_dist_sum'[loc'[w]]
    BY <1>7, <2>1 DEF Work, Begin, Check, Reload, LeaveBank, InspectBank, ClearBank, LoadBank,
              LoadLow, LoadHigh, StoreLow, StoreHigh, Goto, Shape
  <2>8. QED
    BY <1>4, <2>2, <2>4, <2>5, <2>6, <2>7 DEF BanksExact
<1>8. QED
  BY <1>6, <1>7

\* The only worker finds the words as it left them.
LEMMA StepWordsExact ==
    ASSUME Shape, Shape', NEW w \in Worker, Work(w), at[w] # "idle", WordsExact(w)
    PROVE  /\ WordsExact(w)'
           /\ at'[w] = "idle" => Squares' = squared'
<1>1. /\ Word \in Nat \ {0} /\ low \in 0 .. Word - 1 /\ high \in Nat /\ low' \in 0 .. Word - 1
      /\ words[w][1] \in 0 .. Word - 1 /\ words[w][2] \in Nat /\ squared \in Nat
      /\ words \in [Worker -> [1 .. 2 -> Nat]]
  BY WordFacts DEF Shape
<1>2. dist'[w] = dist[w] /\ squared' = squared
  BY StepAlone
<1>3. /\ Square(dist[w]) \in 0 .. Word - 1
      /\ (words[w][1] + Square(dist[w])) % Word =
           IF words[w][1] + Square(dist[w]) < Word THEN words[w][1] + Square(dist[w])
           ELSE words[w][1] + Square(dist[w]) - Word
      /\ Carry(w) = IF words[w][1] + Square(dist[w]) < Word THEN 0 ELSE 1
  BY CarryFacts
<1>4. /\ high * Word \in Nat /\ Word * 0 = 0 /\ Word * 1 = Word
      /\ (high + 1) * Word = high * Word + Word
  <2>1. \A i, k \in Nat : i * k \in Nat /\ k * 0 = 0 /\ k * 1 = k /\ (i + 1) * k = i * k + k
    BY Z3
  <2>2. QED
    BY <1>1, <2>1
<1>5. CASE LoadLow(w)
  <2>1. /\ at[w] = "load_low" /\ at'[w] \in {"store_low", "load_both"} /\ words'[w][1] = low
        /\ low' = low /\ high' = high
    BY <1>1, <1>5 DEF LoadLow, Goto, ssum, Shape
  <2>2. OwedSquare'[w] = OwedSquare[w] /\ Squares' = Squares
    BY <1>2, <2>1 DEF OwedSquare, Unsquared, Squares
  <2>3. /\ at[w] \notin {"load_high", "store_high"} /\ at'[w] \notin {"load_high", "store_high"}
        /\ at'[w] # "store_both" /\ at'[w] # "idle"
    BY <2>1
  <2>4. QED
    BY <1>2, <2>1, <2>2, <2>3 DEF WordsExact
<1>6. CASE LoadHigh(w)
  <2>1. /\ \/ at[w] = "load_high" /\ at'[w] = "store_high"
           \/ at[w] = "load_both" /\ at'[w] = "store_both"
        /\ words'[w][1] = words[w][1] /\ words'[w][2] = high
        /\ low' = low /\ high' = high
    BY <1>1, <1>6 DEF LoadHigh, Goto, ssum, Shape
  <2>2. OwedSquare'[w] = OwedSquare[w] /\ Squares' = Squares /\ Carry(w)' = Carry(w)
    BY <1>2, <2>1 DEF OwedSquare, Unsquared, Owing, Leaving, Squares, Carry
  <2>3. /\ at[w] \in {"load_high", "store_high"} <=> at'[w] \in {"load_high", "store_high"}
        /\ at'[w] # "store_low" /\ at'[w] # "load_both" /\ at'[w] # "idle"
        /\ at'[w] = "store_both" => at[w] = "load_both"
    BY <2>1
  <2>4. QED
    BY <1>2, <2>1, <2>2, <2>3 DEF WordsExact
<1>7. CASE StoreLow(w)
  <2>1. /\ \/ at[w] = "store_low" /\ at'[w] = "load_high"
           \/ at[w] = "store_both" /\ at'[w] = "store_high"
        /\ low' = (words[w][1] + Square(dist[w])) % Word /\ high' = high /\ words' = words
    BY <1>7 DEF StoreLow, Goto, regs, Shape
  <2>2. /\ OwedSquare[w] = Square(dist[w]) /\ OwedSquare'[w] = 0 /\ Carry(w)' = Carry(w)
    BY <1>2, <2>1 DEF OwedSquare, Unsquared, Owing, Leaving, Carry
  <2>3. words[w][1] = low
    BY <2>1 DEF WordsExact
  <2>4. high * Word + low + Square(dist[w]) = squared
    <3>1. at[w] \notin {"load_high", "store_high"}
      BY <2>1
    <3>2. Squares + Square(dist[w]) + 0 = squared
      BY <2>2, <3>1 DEF WordsExact
    <3>3. QED
      BY <1>1, <1>3, <1>4, <3>2 DEF Squares
  <2>5. Squares' + OwedSquare'[w] + Word * Carry(w)' = squared'
    <3>1. Squares' = high * Word + low'
      BY <2>1 DEF Squares
    <3>2. low' + Word * Carry(w) = low + Square(dist[w])
      BY <1>1, <1>3, <1>4, <2>1, <2>3
    <3>3. Word * Carry(w) \in Nat
      BY <1>1, <1>3, <1>4
    <3>4. QED
      BY <1>1, <1>2, <1>3, <1>4, <2>2, <2>4, <3>1, <3>2, <3>3
  <2>6. /\ at'[w] \in {"load_high", "store_high"} /\ at'[w] # "idle"
        /\ at'[w] \notin {"store_low", "load_both", "store_both"}
        /\ at'[w] = "store_high" => words'[w][2] = high'
    BY <2>1 DEF WordsExact
  <2>7. QED
    BY <2>5, <2>6 DEF WordsExact
<1>8. CASE StoreHigh(w)
  <2>1. /\ at[w] = "store_high" /\ at'[w] = "idle"
        /\ high' = words[w][2] + Carry(w) /\ low' = low
    BY <1>8 DEF StoreHigh, Goto, Shape
  <2>2. OwedSquare[w] = 0 /\ OwedSquare'[w] = 0
    BY <2>1 DEF OwedSquare, Unsquared, Owing, Leaving
  <2>3. words[w][2] = high /\ Squares + 0 + Word * Carry(w) = squared
    BY <2>1, <2>2 DEF WordsExact
  <2>4. Squares' = high * Word + Word * Carry(w) + low
    <3>1. Squares' = (high + Carry(w)) * Word + low
      BY <2>1, <2>3 DEF Squares
    <3>2. CASE Carry(w) = 0
      BY <1>1, <1>4, <3>1, <3>2
    <3>3. CASE Carry(w) = 1
      BY <1>1, <1>4, <3>1, <3>3
    <3>4. QED
      BY <1>3, <3>2, <3>3
  <2>5. Squares' = squared'
    <3>1. Word * Carry(w) \in Nat
      BY <1>1, <1>3, <1>4
    <3>2. high * Word + low + 0 + Word * Carry(w) = squared
      BY <2>3 DEF Squares
    <3>3. QED
      BY <1>1, <1>2, <1>4, <2>4, <3>1, <3>2
  <2>6. Squares' \in Nat
    BY <1>1, <1>2, <2>5
  <2>7. Squares' + OwedSquare'[w] + 0 = squared'
    BY <2>2, <2>5, <2>6
  <2>8. QED
    BY <2>1, <2>5, <2>7 DEF WordsExact
<1>9. CASE ~LoadLow(w) /\ ~LoadHigh(w) /\ ~StoreLow(w) /\ ~StoreHigh(w)
  <2>1. /\ at[w] \in Owing /\ at'[w] \in Owing \cup {"load_low"} /\ low' = low /\ high' = high
    BY <1>9 DEF Work, Begin, Check, Reload, LeaveBank, InspectBank, ClearBank, LoadBank, StoreBank,
              ssum, Goto, Owing, Leaving, Shape
  <2>2. OwedSquare'[w] = OwedSquare[w] /\ Squares' = Squares
    BY <1>2, <2>1 DEF OwedSquare, Unsquared, Squares
  <2>3. /\ at[w] \notin {"load_high", "store_high"}
        /\ at'[w] \notin {"load_high", "store_high", "idle", "store_low", "load_both", "store_both"}
    BY <2>1 DEF Owing, Leaving
  <2>4. QED
    BY <1>2, <2>2, <2>3 DEF WordsExact
<1>10. QED
  BY <1>5, <1>6, <1>7, <1>8, <1>9

\* Reuses that are added one after the other are added exactly.
LEMMA StepSerial ==
    ASSUME Shape, Shape', Indices, Overshoot, Overshoot', Serial, NEW w \in Worker, Work(w)
    PROVE  Serial'
<1> SUFFICES ASSUME clean'
             PROVE  /\ \A b \in Bank' : b > loc_id' => reuse_dist_sum'[b] = 0
                    /\ Quiet' => Total' = added' /\ Squares' = squared'
                    /\ \A v \in In(Busy)' : BanksExact(v)' /\ WordsExact(v)'
  BY DEF Serial
<1>1. clean /\ astray' = {}
  BY StepExcess DEF Overshoot
<1>2. /\ \A b \in Bank : b > loc_id => reuse_dist_sum[b] = 0
      /\ Quiet => Total = added /\ Squares = squared
      /\ \A v \in In(Busy) : BanksExact(v) /\ WordsExact(v)
  BY <1>1 DEF Serial
<1>3. \A b \in Bank' : b > loc_id' => reuse_dist_sum'[b] = 0
  <2>1. Bank' = Bank
    BY DEF Bank
  <2>2. QED
    BY <1>1, <1>2, <2>1, StepBeyond
<1>4. \A v \in Worker : v # w => at'[v] = at[v]
  BY StepAlone
<1>5. CASE at[w] = "idle"
  <2>1. Begin(w)
    BY <1>5 DEF Work, Check, Reload, LeaveBank, InspectBank, ClearBank, LoadBank, StoreBank,
              LoadLow, LoadHigh, StoreLow, StoreHigh
  <2>2. Quiet
    <3>1. {v \in Worker \ {w} : at[v] # "idle"} = {}
      BY <1>1, <2>1 DEF Begin
    <3>2. QED
      BY <1>5, <3>1 DEF Quiet
  <2>3. Total = added /\ Squares = squared
    BY <1>2, <2>2
  <2>4. /\ at'[w] = "check" /\ UNCHANGED <<sums, ssum, words>>
    BY <2>1 DEF Begin, Goto, Shape
  <2>5. Total' = Total /\ Squares' = Squares
    BY <2>4 DEF Total, Squares, sums, ssum
  <2>6. PICK d \in Dist : /\ dist' = [dist EXCEPT ![w] = d]
                          /\ added' = added + d /\ squared' = squared + Square(d)
    BY <2>1 DEF Begin
  <2>7. Owed'[w] = d /\ OwedSquare'[w] = Square(d)
    BY <2>4, <2>6 DEF Owed, OwedSquare, Owing, Unsquared, Leaving, Shape
  <2>8. BanksExact(w)'
    <3>1. Total' + Owed'[w] = added'
      BY <2>3, <2>5, <2>6, <2>7
    <3>2. QED
      BY <2>4, <3>1 DEF BanksExact
  <2>9. WordsExact(w)'
    <3>1. Square(d) \in Nat /\ squared \in Nat
      BY <2>7, StepOwed DEF Shape
    <3>2. Squares' + OwedSquare'[w] + 0 = squared'
      BY <2>3, <2>5, <2>6, <2>7, <3>1
    <3>3. at'[w] \notin {"load_high", "store_high"}
      BY <2>4
    <3>4. QED
      BY <2>4, <3>2, <3>3 DEF WordsExact
  <2>10. \A v \in In(Busy)' : v = w
    BY <1>4, <2>2 DEF Quiet, In, Busy
  <2>11. ~Quiet'
    BY <2>4 DEF Quiet
  <2>12. QED
    BY <1>3, <2>8, <2>9, <2>10, <2>11
<1>6. CASE at[w] # "idle"
  <2>1. w \in In(Busy)
    BY <1>6 DEF In, Busy, Shape
  <2>2. /\ \A v \in Worker : v # w => at'[v] = "idle"
    BY <1>1, <1>4, <2>1, NobodyMet DEF Lone
  <2>3. BanksExact(w)'
    BY <1>1, <1>2, <1>6, <2>1, StepBanksExact
  <2>4. WordsExact(w)' /\ (at'[w] = "idle" => Squares' = squared')
    BY <1>2, <1>6, <2>1, StepWordsExact
  <2>5. at'[w] = "idle" => Total' = added'
    <3>1. SUFFICES ASSUME at'[w] = "idle"
                   PROVE  Total' = added'
      OBVIOUS
    <3>2. at[w] = "store_high" /\ reuse_dist_sum' = reuse_dist_sum /\ added' = added
      BY <1>6, <3>1 DEF Work, Begin, Check, Reload, LeaveBank, InspectBank, ClearBank, LoadBank,
              StoreBank, LoadLow, LoadHigh, StoreLow, StoreHigh, Goto, Shape, sums
    <3>3. Total' = Total /\ Owed[w] = 0
      BY <3>2 DEF Total, Owed, Owing, Leaving
    <3>4. Total + 0 = added /\ Total \in Nat
      BY <1>2, <2>1, <3>3, Banks DEF BanksExact
    <3>5. QED
      BY <3>2, <3>3, <3>4
  <2>6. QED
    BY <1>3, <2>2, <2>3, <2>4, <2>5 DEF Quiet, In, Busy
<1>7. QED
  BY <1>5, <1>6

\* The same without a step.
LEMMA StutterSerial == Serial /\ UNCHANGED vars => Serial'
  BY DEF Serial, BanksExact, WordsExact, Owed, OwedSquare, Carry, Quiet, Total, Squares, In, Bank,
         vars, sums, ssum, regs, past

\* In the beginning nothing was added.
LEMMA InitSerial == Init => Serial
<1> SUFFICES ASSUME Init
             PROVE  Serial
  OBVIOUS
<1>1. In(Busy) = {}
  BY DEF Init, In, Busy
<1> DEFINE banks == reuse_dist_sum
<1>2. \A b \in Bank : banks[b] = 0
  BY DEF Init
<1>3. IsFiniteSet(Bank) /\ Total = SumFunctionOnSet(banks, Bank)
  BY InitShape, Banks
<1> HIDE DEF banks
<1>4. Total = 0
  BY <1>2, <1>3, SumZero
<1>5. Squares = 0
  BY WordFacts DEF Init, Squares
<1>6. QED
  BY <1>1, <1>2, <1>4, <1>5 DEF Serial, Init, banks

\* With nobody at work nothing is missing.
LEMMA SerialImplies == Shape /\ Overshoot /\ Serial => SumsSerialExact
  BY NobodyMet DEF Serial, SumsSerialExact

-----------------------------------------------------------------------------

\* Everything that the proofs follow.
Inv == Shape /\ Indices /\ Overstated /\ LowBound /\ HighBound /\ Overshoot /\ Serial

\* It holds in the beginning and is kept by every step.
LEMMA InvHolds == Spec => []Inv
<1>1. Init => Inv
  BY InitShape, InitIndices, InitOverstated, InitLow, InitHigh, InitOvershoot, InitSerial DEF Inv
<1>2. Inv /\ [Next]_vars => Inv'
  <2> SUFFICES ASSUME Inv, [Next]_vars
               PROVE  Inv'
    OBVIOUS
  <2> USE DEF Inv
  <2>1. ASSUME NEW w \in Worker, Work(w)
        PROVE  Inv'
    <3>1. Shape'
      BY <2>1, StepShape
    <3>2. Indices'
      BY <2>1, <3>1, StepIndices
    <3>3. Overstated'
      BY <2>1, <3>1, StepOverstated
    <3>4. LowBound'
      BY <2>1, <3>1, StepLow
    <3>5. HighBound'
      BY <2>1, <3>1, <3>2, StepHigh
    <3>6. Overshoot'
      BY <2>1, <3>1, StepOvershoot
    <3>7. Serial'
      BY <2>1, <3>1, <3>6, StepSerial
    <3>8. QED
      BY <3>1, <3>2, <3>3, <3>4, <3>5, <3>6, <3>7
  <2>2. CASE UNCHANGED vars
    BY <2>2, StutterShape, StutterIndices, StutterOverstated, StutterLow, StutterHigh,
       StutterOvershoot, StutterSerial
  <2>3. QED
    BY <2>1, <2>2 DEF Next
<1>3. QED
  BY <1>1, <1>2, PTL DEF Spec

\* The index never leaves the banks and the words stay in their range, whatever
\* the interleaving (instance:402-409).
THEOREM SumsTypeOK == Spec => []TypeOK
<1>1. Inv => TypeOK
  BY ShapeImplies DEF Inv
<1>2. QED
  BY <1>1, InvHolds, PTL

\* Whatever the number of workers and the distances, wrapped ones included, the
\* banks never hold more than the distances that were found (instance:402-408).
THEOREM SumsNeverOverstated == Spec => []SumNeverOverstated
<1>1. Inv => SumNeverOverstated
  BY OverstatedImplies DEF Inv
<1>2. QED
  BY <1>1, InvHolds, PTL

\* What a bank holds in excess of INT64_MAX was added by reuses that shared their
\* time with another or whose distance exceeds it (instance:401-408).
THEOREM SumsBankOvershoot == Spec => []BankOvershoot
<1>1. Inv => BankOvershoot
  BY DEF Inv, Overshoot, BankOvershoot
<1>2. QED
  BY <1>1, InvHolds, PTL

\* The squares are too large by at most one carry for each reuse but the first,
\* in either order of their loads and stores (instance:409).
THEOREM SumsSquaresWithinCarries == Spec => []SquaresWithinCarries
<1>1. Inv => SquaresWithinCarries
  BY SquaresImplies DEF Inv
<1>2. QED
  BY <1>1, InvHolds, PTL

\* Without a race and a distance above INT64_MAX sum and squares are exact, no bank
\* exceeds INT64_MAX and the report leaves out none (instance:402-409, 532-534).
THEOREM SumsExactWithoutRace == Spec => []SumsSerialExact
<1>1. Inv => SumsSerialExact
  BY SerialImplies DEF Inv
<1>2. QED
  BY <1>1, InvHolds, PTL
=============================================================================
