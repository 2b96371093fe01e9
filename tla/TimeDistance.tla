---------------------------- MODULE TimeDistance ----------------------------
(***************************************************************************)
(* The part of parallel_shard_memref that works on the globals of the      *)
(* reuse-distance tools: for each reference it looks up in lru_cache when  *)
(* its address was last used, and accumulates the number of references     *)
(* since then in a histogram of powers of two, a sum kept in banks, and a  *)
(* sum of squares.                                                         *)
(*                                                                         *)
(* A reference is one step: contains, get, the counters and insert are     *)
(* executed by one thread.  lru_cache is represented by what its users can *)
(* see, the value stored for each key.  Every insert stores a larger       *)
(* cur_inst_pc than the ones before and get() is called with fresh_key     *)
(* false, so the order of the stored values is the order of its list.      *)
(***************************************************************************)
EXTENDS Integers, Sequences, FiniteSets, FiniteSetsExt, Functions

CONSTANTS Addr,        \* addresses referenced
          STEP,        \* INST_DIST_STEP
          LruMax,      \* LRU_CACHE_MAX_SIZE, 0 for no limit
          Elasticity,  \* the second argument of lru_cache
          Word,        \* 2^64, the modulus of uint64_t
          MaxRefs      \* bound on the references of a trace

IntMax == Word \div 2 - 1     \* INT64_MAX

\* A trace has fewer than 2^63 references.
ASSUME TimeAssumption ==
    /\ STEP \in Nat
    /\ LruMax \in Nat
    /\ Elasticity \in Nat
    /\ Word \in Nat
    /\ MaxRefs \in Nat
    /\ IntMax \in Nat
    /\ MaxRefs <= IntMax

VARIABLES cur_inst_pc,        \* references counted so far
          lru,                \* address -> cur_inst_pc of its last use
          inst_dist_count,    \* one counter per interval, and the misses
          reuse_inst_num,     \* references that found their address
          reuse_dist_sum,     \* the banks of the sum of distances
          mloc_id,            \* the bank in use
          reuse_dist_dssum,   \* the sum of squares
          trace               \* history: the addresses referenced, in order

counters == <<inst_dist_count, reuse_inst_num, reuse_dist_sum, mloc_id,
              reuse_dist_dssum>>
globals == <<cur_inst_pc, lru, counters, trace>>

\* One bank more than a trace of MaxRefs references can fill.
Bank == 0..MaxRefs

-----------------------------------------------------------------------------

\* Faulty: a power of two falls into the interval below it.
BinLow(dist) == Cardinality({i \in 1..STEP : 2^i < dist})

\* min(int(log2(dist)), INST_DIST_STEP)
Bin(dist) == Cardinality({i \in 1..STEP : 2^i <= dist})

\* Faulty: the addresses used longest ago are kept.
Oldest(cache, n) ==
    {a \in DOMAIN cache :
        Cardinality({b \in DOMAIN cache : cache[b] < cache[a]}) < n}

\* The n addresses used last.
Newest(cache, n) ==
    {a \in DOMAIN cache :
        Cardinality({b \in DOMAIN cache : cache[b] > cache[a]}) < n}

\* Faulty: an address that is cached keeps its old position.
InsertOnce(tag, pc) ==
    [a \in DOMAIN lru \cup {tag} |-> IF a \in DOMAIN lru THEN lru[a] ELSE pc]

\* Faulty: prune leaves one address too few.
InsertPrunesMore(tag, pc) ==
    LET cache == [a \in DOMAIN lru \cup {tag} |-> IF a = tag THEN pc ELSE lru[a]]
        full  == tag \notin DOMAIN lru /\ Cardinality(DOMAIN cache) >= LruMax + Elasticity
    IN  IF full THEN Restrict(cache, Newest(cache, LruMax - 1)) ELSE cache

\* lru_cache.insert(tag, pc), which prunes after a new key.
Insert(tag, pc) ==
    LET cache == [a \in DOMAIN lru \cup {tag} |-> IF a = tag THEN pc ELSE lru[a]]
        full  == /\ tag \notin DOMAIN lru
                 /\ LruMax > 0
                 /\ Cardinality(DOMAIN cache) >= LruMax + Elasticity
    IN  IF full THEN Restrict(cache, Newest(cache, LruMax)) ELSE cache

\* Faulty: everything goes into one bank.
AddDistanceOneBank(dist) ==
    /\ reuse_dist_sum' = [reuse_dist_sum EXCEPT ![mloc_id] = @ + dist]
    /\ UNCHANGED mloc_id

\* Faulty: the distance that opens a bank is not put into it.
AddDistanceDropped(dist) ==
    IF reuse_dist_sum[mloc_id] + dist > IntMax
      THEN mloc_id' = mloc_id + 1 /\ UNCHANGED reuse_dist_sum
      ELSE AddDistanceOneBank(dist)

\* Faulty: a bank is left before it has to be.
AddDistanceEarly(dist) ==
    IF reuse_dist_sum[mloc_id] + dist >= IntMax
      THEN /\ mloc_id' = mloc_id + 1
           /\ reuse_dist_sum' = [reuse_dist_sum EXCEPT ![mloc_id'] = dist]
      ELSE AddDistanceOneBank(dist)

\* A bank that the distance would push over INT64_MAX is left for the next one.
AddDistance(dist) ==
    LET full == (reuse_dist_sum[mloc_id] + dist) % Word > IntMax
    IN  /\ mloc_id' = IF full THEN mloc_id + 1 ELSE mloc_id
        /\ reuse_dist_sum' =
             [reuse_dist_sum EXCEPT ![mloc_id'] = IF full THEN dist ELSE @ + dist]

\* Faulty: the square is computed as a signed number and loses a bit.
SquareSigned(dist) == (dist * dist) % (Word \div 2)

\* The square is computed in 64 bits and added to 128.
Square(dist) == (dist * dist) % Word

Reuse(tag) ==
    /\ tag \in DOMAIN lru
    /\ LET dist == cur_inst_pc + 1 - lru[tag]
       IN  /\ AddDistance(dist)
           /\ reuse_dist_dssum' = reuse_dist_dssum + Square(dist)
           /\ inst_dist_count' = [inst_dist_count EXCEPT ![Bin(dist)] = @ + 1]
    /\ reuse_inst_num' = reuse_inst_num + 1

FirstUse(tag) ==
    /\ tag \notin DOMAIN lru
    /\ inst_dist_count' = [inst_dist_count EXCEPT ![STEP + 1] = @ + 1]
    /\ UNCHANGED <<reuse_inst_num, reuse_dist_sum, mloc_id, reuse_dist_dssum>>

Reference(tag) ==
    /\ cur_inst_pc < MaxRefs
    /\ cur_inst_pc' = cur_inst_pc + 1
    /\ Reuse(tag) \/ FirstUse(tag)
    /\ lru' = Insert(tag, cur_inst_pc + 1)
    /\ trace' = Append(trace, tag)

TimeInit ==
    /\ cur_inst_pc = 0
    /\ lru = <<>>
    /\ inst_dist_count = [b \in 0..STEP + 1 |-> 0]
    /\ reuse_inst_num = 0
    /\ reuse_dist_sum = [b \in Bank |-> 0]
    /\ mloc_id = 0
    /\ reuse_dist_dssum = 0
    /\ trace = <<>>

TimeNext == \E tag \in Addr : Reference(tag)

TimeSpec == TimeInit /\ [][TimeNext]_globals

-----------------------------------------------------------------------------
(* What the trace itself says.                                             *)

\* The position of the last use of the address at position i before i, or 0.
LastUse(i) == Max({0} \cup {j \in 1..i - 1 : trace[j] = trace[i]})

Distance(i) == i - LastUse(i)

\* Addresses used between the last use of a and the end of the trace.
UsedSince(a) ==
    LET last == Max({0} \cup {j \in DOMAIN trace : trace[j] = a})
    IN  {trace[j] : j \in last + 1 .. Len(trace)}

Between(i) == {trace[j] : j \in LastUse(i) + 1 .. i - 1}

\* The cache keeps an address while fewer than LruMax others were used since,
\* and has dropped it once LruMax + Elasticity - 1 were.
SurelyHeld(others) == LruMax = 0 \/ Cardinality(others) < LruMax
MaybeHeld(others) ==
    \/ SurelyHeld(others)
    \/ Cardinality(others) < LruMax + Elasticity - 1

Reused == {i \in DOMAIN trace : LastUse(i) > 0}
SurelyCounted == {i \in Reused : SurelyHeld(Between(i))}
MaybeCounted == {i \in Reused : MaybeHeld(Between(i))}

\* The interval the report prints for counter b.
InInterval(dist, b) == 2^b <= dist /\ (b = STEP \/ dist < 2^(b + 1))

Total(f) == SumFunction(f)

-----------------------------------------------------------------------------
(* Properties.                                                             *)

\* Every counter has its type, and no bank exceeds INT64_MAX.
GlobalsTypeOK ==
    /\ cur_inst_pc \in 0..MaxRefs
    /\ DOMAIN lru \subseteq Addr
    /\ lru \in [DOMAIN lru -> 1..cur_inst_pc]
    /\ inst_dist_count \in [0..STEP + 1 -> Nat]
    /\ reuse_inst_num \in Nat
    /\ reuse_dist_sum \in [Bank -> 0..IntMax]
    /\ mloc_id \in 0..cur_inst_pc
    /\ reuse_dist_dssum \in Nat
    /\ trace \in Seq(Addr)
    /\ Len(trace) = cur_inst_pc

\* What lru_cache answers for an address is the position of its last use in the
\* trace: no prune, re-insertion or overwrite leaves an older position behind
\* (lines 456-474), so every distance computed from it is the true one.
LruExact ==
    \A a \in DOMAIN lru :
        /\ lru[a] \in DOMAIN trace
        /\ trace[lru[a]] = a
        /\ \A j \in DOMAIN trace : trace[j] = a => j <= lru[a]

\* The window in which the tool can see a reuse: an address is still cached
\* while fewer than LruMax other addresses were used since its last use, and is
\* gone once LruMax + Elasticity - 1 were (prune, called from insert).
RetentionWindow ==
    \A a \in {trace[i] : i \in DOMAIN trace} :
        /\ SurelyHeld(UsedSince(a)) => a \in DOMAIN lru
        /\ a \in DOMAIN lru => MaybeHeld(UsedSince(a))

\* The histogram as it is printed: the counter of each interval is the number of
\* references whose true distance lies in it, less at most those whose address
\* had left the cache (lines 468-469 with lines 579-588).  Each reference is in one
\* interval or a miss, and the intervals hold the reuses the mean is divided by.
HistogramBracketed ==
    /\ \A b \in 0..STEP :
         LET In(S) == Cardinality({i \in S : InInterval(Distance(i), b)})
         IN  /\ In(SurelyCounted) <= inst_dist_count[b]
             /\ inst_dist_count[b] <= In(MaybeCounted)
    /\ Total(inst_dist_count) = cur_inst_pc
    /\ Total(inst_dist_count) - inst_dist_count[STEP + 1] = reuse_inst_num

\* The banks together hold the sum of the distances of the counted references,
\* whatever the moments at which a bank overflowed (lines 460-466).
SumBracketed ==
    LET Of(S) == SumFunction([i \in S |-> Distance(i)])
    IN  /\ Of(SurelyCounted) <= Total(reuse_dist_sum)
        /\ Total(reuse_dist_sum) <= Of(MaybeCounted)

\* The sum of squares is the true one as long as no distance reaches 2^32, the
\* square root of the modulus (line 467).
SquaresBracketed ==
    LET Of(S) == SumFunction([i \in S |-> Distance(i) * Distance(i)])
    IN  (\A i \in Reused : Distance(i) * Distance(i) < Word) =>
            /\ Of(SurelyCounted) <= reuse_dist_dssum
            /\ reuse_dist_dssum <= Of(MaybeCounted)

\* A bank is only left when it and the next distance exceed INT64_MAX, so the
\* 1,000,000 banks cannot run out before the sum reaches 500,000 * 2^63; banks
\* beyond the one in use are still zero.
BanksDense ==
    /\ \A b \in 0..mloc_id - 1 :
         reuse_dist_sum[b] + reuse_dist_sum[b + 1] > IntMax
    /\ \A b \in Bank : b > mloc_id => reuse_dist_sum[b] = 0

-----------------------------------------------------------------------------
(* The promise of lru_cache that this relies on.                           *)

\* The cached addresses, the most recently used one first.
Recent ==
    [n \in 1..Cardinality(DOMAIN lru) |->
        CHOOSE a \in DOMAIN lru :
            Cardinality({b \in DOMAIN lru : lru[b] > lru[a]}) = n - 1]

Store == INSTANCE LRUStore WITH
    Key <- Addr, Value <- Nat, MaxSize <- LruMax,
    Void <- "void", Missing <- "missing", Found <- "found",
    recent <- Recent, stored <- lru, result <- "void", aborted <- FALSE

\* Every reference changes lru_cache the way one insert() of its address and of
\* the new cur_inst_pc may change the store it is meant to be (line 474).
UsesStore ==
    /\ Store!Init
    /\ [][\E tag \in Addr :
            \/ Store!StorePresent(tag, cur_inst_pc')
            \/ Store!StoreNew(tag, cur_inst_pc')]_globals

-----------------------------------------------------------------------------
(* print_shard_results, lines 592-608: the standard deviation.             *)

\* reuse_inst_num^2 times the number whose square root is printed, where the
\* mean is a double and the other two quotients are those of integers.
ScaledRadicand ==
    LET n    == reuse_inst_num
        high == reuse_dist_dssum \div Word
        low  == reuse_dist_dssum % Word
        sum  == Total(reuse_dist_sum)
    IN  n * n * (2 * high * (IntMax \div n) + low \div n) - sum * sum

\* "the stdev of reuse dist is" a number: its square is not negative.
StdevDefined == reuse_inst_num > 0 => ScaledRadicand >= 0

=============================================================================
