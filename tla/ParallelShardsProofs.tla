------------------------ MODULE ParallelShardsProofs -------------------------
(***************************************************************************)
(* Proofs about ParallelShards for every number of workers, every set of   *)
(* addresses and every limit of the cache and the counters.                *)
(*                                                                         *)
(* Shape is the invariant of the types and of the cache; Losses, Capacity  *)
(* and Serial are the inductive forms of NeverOvercounted,                 *)
(* KeptWithinCapacity and SerialExact.  Each says what the checked         *)
(* property says of the globals also of the values that workers hold in    *)
(* registers.                                                              *)
(***************************************************************************)
EXTENDS ParallelShards, DataProofs

Labels == {"new", "idle", "count", "contains", "get", "read", "measure",
           "load_count", "store_count", "load_num", "store_num", "insert",
           "inside", "done"}

\* The workers that are at one of the labels.
In(labels) == {w \in Worker : at[w] \in labels}

\* Where a reference is not yet counted in cur_inst_pc, in inst_dist_count, and
\* where it can still be counted in reuse_inst_num.
Unseen  == {"count"}
Unsized == {"count", "contains", "get", "read", "measure", "load_count", "store_count"}
Reusing == {"load_num", "store_num"}
Numbered == Unsized \cup Reusing

\* From the increment of cur_inst_pc to the insert.
Seen == Labels \ {"new", "idle", "done", "count"}

ShardFields == {"total_refs", "ref_list", "cache_map", "dist_map", "tid"}

IsShard(shard) ==
    /\ DOMAIN shard = ShardFields
    /\ shard.total_refs \in 0 .. MaxLen
    /\ DOMAIN shard.cache_map \subseteq Addr

CacheOK ==
    /\ recent \in Seq(Addr)
    /\ IsInjective(recent)
    /\ ToSet(recent) = DOMAIN stored
    /\ stored \in [DOMAIN stored -> Nat]

\* The types, the shards, and where the addresses come from.
Shape ==
    /\ TypeOK
    /\ CacheOK
    /\ at \in [Worker -> Labels]
    /\ overlapped \in BOOLEAN
    /\ \A w \in DOMAIN shard_map : IsShard(shard_map[w])
    /\ DOMAIN stored \subseteq Used
    /\ \A w \in Worker : ~Resting(w) => tag[w] \in Used

\* A value that is on its way to a counter counts like the counter, and there is
\* room left for every reference that is still to be counted.
CurBounded ==
    /\ cur_inst_pc + Cardinality(In(Unseen)) <= References
    /\ \A w \in In(Unseen) : reg[w] + Cardinality(In(Unseen)) <= References

NumBounded ==
    /\ reuse_inst_num + Cardinality(In(Numbered)) <= References
    /\ \A w \in In({"store_num"}) : reg[w] + Cardinality(In(Numbered)) <= References

\* Some counters with room for every reference dominate the real ones and what
\* will be stored into them.
CountBounded ==
    \E bound \in [0 .. MissBin -> Nat] :
        /\ \A b \in 0 .. MissBin : inst_dist_count[b] <= bound[b]
        /\ \A w \in In({"store_count"}) : reg[w] <= bound[bin[w]]
        /\ SumFunctionOnSet(bound, 0 .. MissBin) + Cardinality(In(Unsized)) <= References

Losses ==
    /\ CurBounded
    /\ NumBounded
    /\ CountBounded
    /\ \A a \in DOMAIN stored : stored[a] <= References

\* The cache need not drop a key.
Fits == LruMax = 0 \/ Cardinality(Used) <= LruMax

\* A worker that contains() sent to get() finds its key, or the worker inside
\* insert() is about to enter it.
Capacity ==
    Fits => /\ ~aborted
            /\ \A w \in In({"get"}) :
                 tag[w] \in DOMAIN stored \/ (lock # None /\ tag[lock] = tag[w])

\* At most one worker has a reference in process.
Alone == \A v, w \in Worker : ~Resting(v) /\ ~Resting(w) => v = w

\* The counters lack only what that worker has not counted yet.
CountsExact ==
    /\ cur_inst_pc + Cardinality(In(Unseen)) = References
    /\ Counted + Cardinality(In(Unsized)) = References
    /\ Counted = inst_dist_count[MissBin] + reuse_inst_num + Cardinality(In(Reusing))

\* Every earlier use is in the past.
StoredExact ==
    \A a \in DOMAIN stored :
        /\ stored[a] <= cur_inst_pc
        /\ In(Seen) # {} => stored[a] < cur_inst_pc

\* What the worker read still holds.
LocalExact(w) ==
    /\ at[w] = "count" => reg[w] = cur_inst_pc
    /\ at[w] \in {"get", "read"} => tag[w] \in DOMAIN stored
    /\ at[w] = "read" => reg[w] = stored[tag[w]]
    /\ at[w] = "measure" => reg[w] < cur_inst_pc
    /\ at[w] = "store_count" => reg[w] = inst_dist_count[bin[w]]
    /\ at[w] = "store_num" => reg[w] = reuse_inst_num

Serial ==
    ~overlapped =>
        /\ ~aborted /\ ~crashed
        /\ Alone
        /\ CountsExact
        /\ StoredExact
        /\ \A w \in Worker : LocalExact(w)

-----------------------------------------------------------------------------
(* Facts about the shards. *)

\* A reference adds one to its shard and its address to the shard's lines.
LEMMA TouchFacts ==
    ASSUME NEW shard, IsShard(shard), shard.total_refs < MaxLen, NEW a \in Addr
    PROVE  /\ IsShard(Touch(shard, a))
           /\ Touch(shard, a).total_refs = shard.total_refs + 1
           /\ DOMAIN Touch(shard, a).cache_map = DOMAIN shard.cache_map \cup {a}
<1>1. MaxLen \in Nat /\ shard.total_refs \in Nat /\ shard.total_refs + 1 \in 0 .. MaxLen
  BY LengthAssumption DEF IsShard
<1>2. CASE a \in DOMAIN shard.cache_map
  <2> DEFINE t == TouchAgain(shard, a)
  <2>1. DOMAIN t = ShardFields
    BY DEF TouchAgain, IsShard
  <2>2. t.total_refs = shard.total_refs + 1
    BY DEF TouchAgain, IsShard, ShardFields
  <2>3. DOMAIN t.cache_map = DOMAIN shard.cache_map
    BY DEF TouchAgain, IsShard, ShardFields
  <2>4. Touch(shard, a) = t
    BY <1>2 DEF Touch
  <2> HIDE DEF t
  <2>5. QED
    BY <1>1, <1>2, <2>1, <2>2, <2>3, <2>4 DEF IsShard
<1>3. CASE a \notin DOMAIN shard.cache_map
  <2> DEFINE t == FirstTouch(shard, a)
  <2>1. DOMAIN t = ShardFields
    BY DEF FirstTouch, IsShard
  <2>2. t.total_refs = shard.total_refs + 1
    BY DEF FirstTouch, IsShard, ShardFields
  <2>3. DOMAIN t.cache_map = DOMAIN shard.cache_map \cup {a}
    BY DEF FirstTouch, IsShard, ShardFields
  <2>4. Touch(shard, a) = t
    BY <1>3 DEF Touch
  <2> HIDE DEF t
  <2>5. QED
    BY <1>1, <2>1, <2>2, <2>3, <2>4 DEF IsShard
<1>4. QED
  BY <1>2, <1>3

\* The number of references is a natural number, and fewer than 2^64.
LEMMA ReferencesType ==
    ASSUME Shape
    PROVE  References \in Nat /\ References < Word
<1> DEFINE T == DOMAIN shard_map
           f == [w \in T |-> shard_map[w].total_refs]
           g == [w \in T |-> MaxLen]
<1>1. T \subseteq Worker
  BY DEF Shape, TypeOK
<1>2. /\ IsFiniteSet(T) /\ Cardinality(T) \in Nat /\ Cardinality(Worker) \in Nat
      /\ Cardinality(T) <= Cardinality(Worker)
  BY <1>1, WorkerAssumption, FS_Subset, FS_CardinalityType
<1>3. \A w \in T : f[w] \in Nat /\ g[w] \in Nat /\ f[w] <= g[w]
  BY LengthAssumption DEF Shape, IsShard
<1>4. References = SumFunctionOnSet(f, T)
  BY Zenon DEF References, SumFunction
<1>5. \A w \in T : g[w] = MaxLen
  OBVIOUS
<1> HIDE DEF f, g, T
<1>6. SumFunctionOnSet(f, T) \in Nat
  BY <1>2, <1>3, SumType
<1>7. SumFunctionOnSet(f, T) <= SumFunctionOnSet(g, T)
  BY <1>2, <1>3, SumMonotone
<1>8. SumFunctionOnSet(g, T) = Cardinality(T) * MaxLen
  BY <1>2, <1>5, LengthAssumption, SumConstant
<1>9. Cardinality(T) * MaxLen <= Cardinality(Worker) * MaxLen
  <2>1. \A m, n, k \in Nat : m <= n => m * k <= n * k
    BY Z3
  <2>2. QED
    BY <1>2, <2>1, LengthAssumption
<1>10. Cardinality(T) * MaxLen \in Nat /\ Cardinality(Worker) * MaxLen \in Nat /\ Word \in Nat
  BY <1>2, LengthAssumption, LimitAssumption
<1>11. QED
  BY <1>4, <1>6, <1>7, <1>8, <1>9, <1>10, LengthAssumption

\* A new shard has no references.
LEMMA ReferencesInit ==
    ASSUME Shape, NEW w \in Worker, ShardInit(w)
    PROVE  References' = References /\ Used' = Used
<1> DEFINE T == DOMAIN shard_map
           U == T \cup {w}
           f == [v \in T |-> shard_map[v].total_refs]
           g == [v \in U |-> shard_map'[v].total_refs]
<1>1. w \notin T /\ IsFiniteSet(T)
  <2>1. w \notin T /\ T \subseteq Worker
    BY DEF Shape, TypeOK, ShardInit
  <2>2. QED
    BY <2>1, WorkerAssumption, FS_Subset
<1>2. /\ DOMAIN shard_map' = U /\ shard_map'[w] = EmptyShard
      /\ \A v \in T : shard_map'[v] = shard_map[v]
  BY <1>1 DEF ShardInit
<1>3. EmptyShard.total_refs = 0 /\ DOMAIN EmptyShard.cache_map = {}
  BY DEF EmptyShard
<1>4. g[w] = 0 /\ \A v \in T : f[v] \in Nat /\ g[v] = f[v]
  BY <1>2, <1>3 DEF Shape, IsShard
<1>5. References = SumFunctionOnSet(f, T)
  BY Zenon DEF References, SumFunction
<1>6. References' = SumFunctionOnSet(g, U)
  BY <1>2, Zenon DEF References, SumFunction
<1> HIDE DEF f, g
<1>7. SumFunctionOnSet(g, U) = SumFunctionOnSet(f, T) + g[w]
  <2> HIDE DEF T
  <2>1. /\ IsFiniteSet(T) /\ w \notin T /\ g[w] \in Nat
        /\ \A v \in T : f[v] \in Nat /\ g[v] = f[v]
    BY <1>1, <1>4
  <2>2. QED
    BY <2>1, SumAdd, Zenon
<1>8. SumFunctionOnSet(f, T) \in Nat
  BY <1>1, <1>4, SumType
<1>9. Used' = Used
  BY <1>2, <1>3 DEF Used
<1>10. QED
  BY <1>4, <1>5, <1>6, <1>7, <1>8, <1>9

\* A reference is counted once.
LEMMA ReferencesBegin ==
    ASSUME Shape, NEW w \in Worker, NEW a \in Addr, Begin(w, a)
    PROVE  References' = References + 1 /\ Used' = Used \cup {a}
<1> DEFINE T == DOMAIN shard_map
           f == [v \in T |-> shard_map[v].total_refs]
           g == [v \in T |-> shard_map'[v].total_refs]
<1>1. w \in T /\ IsFiniteSet(T)
  <2>1. w \in T /\ T \subseteq Worker
    BY DEF Shape, TypeOK, Begin
  <2>2. QED
    BY <2>1, WorkerAssumption, FS_Subset
<1>2. /\ DOMAIN shard_map' = T /\ shard_map'[w] = Touch(shard_map[w], a)
      /\ \A v \in T : v # w => shard_map'[v] = shard_map[v]
  BY <1>1 DEF Begin
<1>3. /\ shard_map'[w].total_refs = shard_map[w].total_refs + 1
      /\ DOMAIN shard_map'[w].cache_map = DOMAIN shard_map[w].cache_map \cup {a}
  <2>1. IsShard(shard_map[w]) /\ shard_map[w].total_refs < MaxLen
    BY <1>1 DEF Shape, Begin
  <2>2. QED
    BY <1>2, <2>1, TouchFacts
<1>4. /\ g[w] = f[w] + 1
      /\ \A v \in T : f[v] \in Nat /\ g[v] \in Nat
      /\ \A v \in T : v # w => f[v] = g[v]
  BY <1>1, <1>2, <1>3 DEF Shape, IsShard
<1>5. References = SumFunctionOnSet(f, T)
  BY Zenon DEF References, SumFunction
<1>6. References' = SumFunctionOnSet(g, T)
  BY <1>2, Zenon DEF References, SumFunction
<1> HIDE DEF f, g
<1>7. SumFunctionOnSet(g, T) = SumFunctionOnSet(f, T) - f[w] + g[w]
  <2>1. /\ \A v \in T : f[v] \in Nat /\ g[v] \in Nat
        /\ \A v \in T : v # w => f[v] = g[v]
    BY <1>4
  <2>2. IsFiniteSet(T) /\ w \in T
    BY <1>1
  <2> HIDE DEF T
  <2>3. QED
    BY <2>1, <2>2, SumUpdate
<1>8. SumFunctionOnSet(f, T) \in Nat
  BY <1>1, <1>4, SumType
<1>9. Used' = Used \cup {a}
  <2>1. \A v \in T : v # w => DOMAIN shard_map'[v].cache_map = DOMAIN shard_map[v].cache_map
    BY <1>2
  <2>2. QED
    BY <1>1, <1>2, <1>3, <2>1 DEF Used
<1>10. QED
  BY <1>1, <1>4, <1>5, <1>6, <1>7, <1>8, <1>9

\* The exit changes neither the references nor the addresses.
LEMMA ReferencesExit ==
    ASSUME Shape, NEW w \in Worker, ShardExit(w)
    PROVE  References' = References /\ Used' = Used
<1> DEFINE T == DOMAIN shard_map
           f == [v \in T |-> shard_map[v].total_refs]
           g == [v \in T |-> shard_map'[v].total_refs]
<1>1. DOMAIN shard_map' = T
  BY DEF ShardExit
<1>2. \A v \in T : /\ shard_map'[v].total_refs = shard_map[v].total_refs
                   /\ shard_map'[v].cache_map = shard_map[v].cache_map
  BY DEF ShardExit, Shape, IsShard, ShardFields
<1>3. f = g
  BY <1>2
<1>4. References = SumFunctionOnSet(f, T) /\ References' = SumFunctionOnSet(g, T)
  BY <1>1, Zenon DEF References, SumFunction
<1>5. Used' = Used
  BY <1>1, <1>2 DEF Used
<1>6. QED
  BY <1>3, <1>4, <1>5, Zenon

\* What one worker's move does to the number of workers at some labels.
LEMMA Moves ==
    ASSUME at \in [Worker -> Labels], NEW w \in Worker, NEW label, Goto(w, label),
           NEW labels
    PROVE  /\ Cardinality(In(labels)) \in Nat
           /\ Cardinality(In(labels)') =
                Cardinality(In(labels)) + (IF label \in labels THEN 1 ELSE 0)
                                        - (IF at[w] \in labels THEN 1 ELSE 0)
<1> DEFINE old == In(labels)
           new == In(labels)'
<1>1. /\ w \in old <=> at[w] \in labels
      /\ w \in new <=> label \in labels
      /\ \A v \in Worker : v # w => (v \in new <=> v \in old)
      /\ old \in SUBSET Worker /\ new \in SUBSET Worker
  BY DEF Goto, In
<1> HIDE DEF old, new
<1>2. /\ Cardinality(old) \in Nat
      /\ Cardinality(new) = Cardinality(old) + (IF w \in new THEN 1 ELSE 0)
                                             - (IF w \in old THEN 1 ELSE 0)
  BY <1>1, WorkerAssumption, CountMoves
<1>3. QED
  BY <1>1, <1>2 DEF old, new

-----------------------------------------------------------------------------
(* Facts about the cache. *)

\* Storing a key that is there keeps the keys.
LEMMA StorePresentKeeps ==
    ASSUME CacheOK, NEW key \in Addr, NEW value \in Nat, Store!StorePresent(key, value)
    PROVE  /\ CacheOK'
           /\ DOMAIN stored' = DOMAIN stored
           /\ \A k \in DOMAIN stored' : stored'[k] = IF k = key THEN value ELSE stored[k]
<1> DEFINE pos == CHOOSE i \in DOMAIN recent : recent[i] = key
<1>1. pos \in DOMAIN recent /\ recent[pos] = key
  BY DEF CacheOK, Store!StorePresent, ToSet
<1>2. recent' = <<recent[pos]>> \o RemoveAt(recent, pos)
  <2>1. recent' = <<key>> \o Store!RemoveAt(recent, pos)
    BY DEF Store!StorePresent, Store!Promote
  <2>2. Store!RemoveAt(recent, pos) = RemoveAt(recent, pos)
    BY Zenon DEF Store!RemoveAt, RemoveAt
  <2> HIDE DEF pos
  <2>3. QED
    BY <1>1, <2>1, <2>2, Zenon
<1> HIDE DEF pos
<1>3. recent' \in Seq(Addr) /\ IsInjective(recent') /\ ToSet(recent') = ToSet(recent)
  <2>1. recent \in Seq(Addr) /\ IsInjective(recent)
    BY DEF CacheOK
  <2>2. QED
    BY <1>1, <1>2, <2>1, PromoteList, Zenon
<1>4. stored' = [stored EXCEPT ![key] = value]
  BY DEF Store!StorePresent
<1>5. QED
  BY <1>3, <1>4 DEF CacheOK

\* Storing a new key brings no other one, and drops none unless the cache is
\* allowed fewer keys than that.
LEMMA StoreNewKeeps ==
    ASSUME CacheOK, NEW key \in Addr, NEW value \in Nat, Store!StoreNew(key, value)
    PROVE  /\ CacheOK'
           /\ DOMAIN stored' \subseteq DOMAIN stored \cup {key}
           /\ \A k \in DOMAIN stored' : stored'[k] = IF k = key THEN value ELSE stored[k]
           /\ LruMax = 0 \/ Cardinality(DOMAIN stored \cup {key}) <= LruMax
                => DOMAIN stored' = DOMAIN stored \cup {key}
<1> DEFINE pushed == Cons(key, recent)
<1>1. recent \in Seq(Addr) /\ IsInjective(recent) /\ key \in Addr \ ToSet(recent)
  BY DEF CacheOK, Store!StoreNew
<1>2. /\ pushed \in Seq(Addr) /\ IsInjective(pushed)
      /\ ToSet(pushed) = ToSet(recent) \cup {key} /\ Len(pushed) = Len(recent) + 1
  BY <1>1, PushList DEF Cons
<1>3. PICK n \in 0 .. Len(recent) + 1 :
        /\ Store!MayRetain(n, Len(recent) + 1)
        /\ recent' = SubSeq(<<key>> \o recent, 1, n)
        /\ stored' = [k \in Store!ToSet(recent') |-> IF k = key THEN value ELSE stored[k]]
  BY Zenon DEF Store!StoreNew
<1>4. recent' = SubSeq(pushed, 1, n)
  BY <1>3, Zenon DEF Cons
<1>5. stored' = [k \in ToSet(recent') |-> IF k = key THEN value ELSE stored[k]]
  <2>1. Store!ToSet(recent') = ToSet(recent')
    BY Zenon DEF Store!ToSet, ToSet
  <2>2. QED
    BY <1>3, <2>1, Zenon
<1>6. Store!MayRetain(n, Len(pushed)) /\ n \in 0 .. Len(pushed)
  BY <1>2, <1>3
<1> HIDE DEF pushed
<1>7. /\ recent' \in Seq(Addr) /\ IsInjective(recent')
      /\ ToSet(recent') \subseteq ToSet(pushed) /\ Len(recent') = n
  BY <1>2, <1>4, <1>6, PrefixList
<1>8. DOMAIN stored' = ToSet(recent') /\ ToSet(recent) = DOMAIN stored
  BY <1>5 DEF CacheOK
<1>9. \A k \in DOMAIN stored' : stored'[k] = IF k = key THEN value ELSE stored[k]
  BY <1>5
<1>10. DOMAIN stored' \subseteq DOMAIN stored \cup {key}
  BY <1>2, <1>7, <1>8
<1>11. stored' \in [DOMAIN stored' -> Nat]
  BY <1>5, <1>8, <1>10 DEF CacheOK
<1>12. ASSUME LruMax = 0 \/ Cardinality(DOMAIN stored \cup {key}) <= LruMax
       PROVE  DOMAIN stored' = DOMAIN stored \cup {key}
  <2>1. Cardinality(ToSet(pushed)) = Len(pushed) /\ Len(pushed) \in Nat
    BY <1>2, ListSize, LenProperties
  <2>2. LruMax = 0 \/ Len(pushed) <= LruMax
    BY <1>2, <1>8, <1>12, <2>1
  <2>3. n = Len(pushed)
    BY <1>6, <2>1, <2>2, LimitAssumption DEF Store!MayRetain
  <2>4. SubSeq(pushed, 1, Len(pushed)) = pushed
    BY <1>2, SubSeqFull
  <2>5. recent' = pushed
    BY <1>4, <2>3, <2>4
  <2>6. QED
    BY <1>2, <1>8, <2>5
<1>13. QED
  BY <1>7, <1>8, <1>9, <1>10, <1>11, <1>12 DEF CacheOK

\* What insert() leaves in the cache.
LEMMA InsertKeeps ==
    ASSUME Shape, NEW w \in Worker, Insert(w)
    PROVE  /\ CacheOK'
           /\ DOMAIN stored' \subseteq DOMAIN stored \cup {tag[w]}
           /\ \A k \in DOMAIN stored' :
                stored'[k] = IF k = tag[w] THEN cur_inst_pc ELSE stored[k]
           /\ LruMax = 0 \/ Cardinality(DOMAIN stored \cup {tag[w]}) <= LruMax
                => DOMAIN stored' = DOMAIN stored \cup {tag[w]}
           /\ aborted' = aborted
<1>1. CacheOK /\ tag[w] \in Addr /\ cur_inst_pc \in Nat
  BY DEF Shape, TypeOK
<1>2. CASE Store!StorePresent(tag[w], cur_inst_pc)
  <2>1. tag[w] \in DOMAIN stored /\ aborted' = aborted
    BY <1>2 DEF Store!StorePresent
  <2>2. /\ CacheOK'
        /\ DOMAIN stored' = DOMAIN stored
        /\ \A k \in DOMAIN stored' :
             stored'[k] = IF k = tag[w] THEN cur_inst_pc ELSE stored[k]
    BY <1>1, <1>2, StorePresentKeeps
  <2>3. QED
    BY <2>1, <2>2
<1>3. CASE Store!StoreNew(tag[w], cur_inst_pc)
  <2>1. aborted' = aborted
    BY <1>3 DEF Store!StoreNew
  <2>2. QED
    BY <1>1, <1>3, <2>1, StoreNewKeeps
<1>4. QED
  BY <1>2, <1>3 DEF Insert

-----------------------------------------------------------------------------
(* The types, the shards and the cache. *)

\* The counter of a distance is one of those before the last.
LEMMA BinType == \A dist : Bin(dist) \in 0 .. STEP
<1> SUFFICES ASSUME NEW dist
             PROVE  Bin(dist) \in 0 .. STEP
  OBVIOUS
<1> DEFINE S == {i \in 1 .. STEP : 2^i <= dist}
<1>1. IsFiniteSet(1 .. STEP) /\ Cardinality(1 .. STEP) = STEP
  <2>1. /\ IsFiniteSet(1 .. STEP)
        /\ Cardinality(1 .. STEP) = IF 1 > STEP THEN 0 ELSE STEP - 1 + 1
    BY LimitAssumption, FS_Interval
  <2>2. QED
    BY <2>1, LimitAssumption
<1>2. S \in SUBSET (1 .. STEP)
  OBVIOUS
<1> HIDE DEF S
<1>3. IsFiniteSet(S) /\ Cardinality(S) <= Cardinality(1 .. STEP)
  BY <1>1, <1>2, FS_Subset
<1>4. Cardinality(S) \in Nat
  BY <1>3, FS_CardinalityType
<1>5. QED
  BY <1>1, <1>3, <1>4, LimitAssumption DEF Bin, S

\* The initial state has its shape.
LEMMA InitShape == Init => Shape
<1> SUFFICES ASSUME Init
             PROVE  Shape
  OBVIOUS
<1>1. recent = <<>> /\ stored = <<>> /\ result = Void /\ aborted = FALSE
  BY DEF Init, Store!Init
<1>2. DOMAIN stored = {} /\ DOMAIN recent = {} /\ ToSet(recent) = {}
  BY <1>1 DEF ToSet
<1>3. CacheOK
  <2>1. recent \in Seq(Addr)
    BY <1>1
  <2>2. stored \in [DOMAIN stored -> Nat]
    BY <1>1
  <2>3. QED
    BY <1>2, <2>1, <2>2 DEF CacheOK, IsInjective
<1>4. DOMAIN shard_map = {} /\ \A w \in Worker : at[w] = "new" /\ Resting(w)
  BY DEF Init, Resting
<1>5. TypeOK
  <2>1. tag \in [Worker -> Addr]
    BY AddrAssumption DEF Init
  <2>2. MissBin \in Nat /\ 0 \in 0 .. MissBin
    BY LimitAssumption DEF MissBin
  <2>3. \A w \in Worker : lock = w <=> at[w] = "inside"
    BY <1>4, WorkerAssumption DEF Init
  <2>4. QED
    BY <1>1, <1>2, <1>4, <2>1, <2>2, <2>3 DEF Init, TypeOK
<1>6. at \in [Worker -> Labels] /\ overlapped \in BOOLEAN
  BY DEF Init, Labels
<1>7. QED
  BY <1>2, <1>3, <1>4, <1>5, <1>6 DEF Shape

\* The new state of the shards and of where the addresses come from.
LEMMA StepShards ==
    ASSUME Shape, NEW w \in Worker, Work(w)
    PROVE  /\ \A v \in DOMAIN shard_map' : IsShard(shard_map'[v])
           /\ DOMAIN shard_map' = DOMAIN shard_map \cup {w}
           /\ Used \subseteq Used'
           /\ \A a \in Addr : Begin(w, a) => a \in Used'
           /\ References' \in {References, References + 1}
<1>1. CASE ShardInit(w)
  <2>1. IsShard(EmptyShard)
    BY LengthAssumption DEF IsShard, EmptyShard, ShardFields
  <2>2. QED
    BY <1>1, <2>1, ReferencesInit DEF ShardInit, Begin, Shape
<1>2. ASSUME NEW a \in Addr, Begin(w, a)
      PROVE  /\ \A v \in DOMAIN shard_map' : IsShard(shard_map'[v])
             /\ DOMAIN shard_map' = DOMAIN shard_map \cup {w}
             /\ Used \subseteq Used'
             /\ \A b \in Addr : Begin(w, b) => b \in Used'
             /\ References' \in {References, References + 1}
  <2>1. w \in DOMAIN shard_map
    BY <1>2 DEF Shape, TypeOK, Begin
  <2>2. IsShard(Touch(shard_map[w], a))
    BY <1>2, <2>1, TouchFacts DEF Shape, Begin
  <2>3. \A b \in Addr : Begin(w, b) => References' = References + 1 /\ Used' = Used \cup {b}
    BY ReferencesBegin
  <2>4. /\ DOMAIN shard_map' = DOMAIN shard_map
        /\ \A v \in DOMAIN shard_map :
             shard_map'[v] = IF v = w THEN Touch(shard_map[w], a) ELSE shard_map[v]
    BY <1>2, <2>1 DEF Begin
  <2>5. QED
    BY <1>2, <2>1, <2>2, <2>3, <2>4 DEF Shape
<1>3. CASE ShardExit(w)
  <2>1. w \in DOMAIN shard_map
    BY <1>3 DEF Shape, TypeOK, ShardExit
  <2>2. \A v \in DOMAIN shard_map : IsShard(shard_map'[v])
    BY <1>3 DEF Shape, ShardExit, IsShard, ShardFields
  <2>3. DOMAIN shard_map' = DOMAIN shard_map
    BY <1>3 DEF ShardExit
  <2>4. ~\E a \in Addr : Begin(w, a)
    BY <1>3 DEF ShardExit, Begin, Goto, Shape
  <2>5. QED
    BY <1>3, <2>1, <2>2, <2>3, <2>4, ReferencesExit
<1>4. CASE shard_map' = shard_map /\ at[w] \notin {"new", "idle"}
  <2>1. w \in DOMAIN shard_map
    BY <1>4 DEF Shape, TypeOK
  <2>2. References' = References /\ Used' = Used
    BY <1>4 DEF References, Used
  <2>3. QED
    BY <1>4, <2>1, <2>2 DEF Shape, Begin
<1>5. QED
  BY <1>1, <1>2, <1>3, <1>4
     DEF Work, CountReference, FindTag, Get, Read, Measure, LoadCount, StoreCount,
         LoadNum, StoreNum, EnterInsert, Insert

\* Only the steps of the cache change it.
LEMMA StepCache ==
    ASSUME Shape, NEW w \in Worker, Work(w)
    PROVE  /\ CacheOK'
           /\ DOMAIN stored' \subseteq DOMAIN stored \cup {tag[w]}
           /\ ~Insert(w) => UNCHANGED <<recent, stored>>
           /\ aborted' \in BOOLEAN
<1>1. CASE Insert(w)
  BY <1>1, InsertKeeps DEF Shape, TypeOK
<1>2. CASE UNCHANGED <<recent, stored>> /\ aborted' \in BOOLEAN
  BY <1>2 DEF Shape, CacheOK
<1>3. CASE Get(w)
  <2>1. UNCHANGED <<recent, stored>> /\ aborted' \in BOOLEAN
    BY <1>3 DEF Get, Store!LookupPresent, Store!LookupMissing, Shape, TypeOK
  <2>2. QED
    BY <1>2, <2>1
<1>4. aborted \in BOOLEAN
  BY DEF Shape, TypeOK
<1>5. QED
  BY <1>1, <1>2, <1>3, <1>4
     DEF Work, cache, ShardInit, Begin, CountReference, FindTag, Read, Measure,
         LoadCount, StoreCount, LoadNum, StoreNum, EnterInsert, ShardExit

\* Where the workers are, and who holds the lock.
LEMMA StepPlaces ==
    ASSUME Shape, NEW w \in Worker, Work(w)
    PROVE  /\ \E label \in Labels : Goto(w, label) \/ (label = at[w] /\ at' = at)
           /\ at' \in [Worker -> Labels]
           /\ at'[w] # "new"
           /\ \A v \in Worker : v # w => at'[v] = at[v]
           /\ lock' \in Worker \cup {None}
           /\ \A v \in Worker : lock' = v <=> at'[v] = "inside"
<1> USE DEF Goto, Labels
<1>0. /\ at \in [Worker -> Labels] /\ lock \in Worker \cup {None}
      /\ \A v \in Worker : lock = v <=> at[v] = "inside"
  BY DEF Shape, TypeOK
<1> DEFINE Plain == /\ lock' = lock
                    /\ \/ \E label \in Labels \ {"new", "inside"} : Goto(w, label)
                       \/ at' = at /\ at[w] # "new"
                    /\ at[w] # "inside"
<1>1. CASE EnterInsert(w)
  <2>1. Goto(w, "inside") /\ lock = None /\ lock' = w
    BY <1>1 DEF EnterInsert
  <2>2. \A v \in Worker : at[v] # "inside"
    BY <1>0, <2>1, WorkerAssumption
  <2>3. \A v \in Worker : lock' = v <=> at'[v] = "inside"
    BY <1>0, <2>1, <2>2
  <2>4. QED
    BY <1>0, <2>1, <2>3
<1>2. CASE Insert(w)
  BY <1>0, <1>2, WorkerAssumption DEF Insert
<1>3. CASE Plain
  BY <1>0, <1>3
<1>4. ShardInit(w) \/ (\E a \in Addr : Begin(w, a)) \/ CountReference(w) \/ FindTag(w)
        => Plain
  BY DEF ShardInit, Begin, CountReference, FindTag, cache
<1>5. Get(w) \/ Read(w) \/ Measure(w) \/ LoadCount(w) => Plain
  BY DEF Get, Read, Measure, LoadCount, cache
<1>6. StoreCount(w) \/ LoadNum(w) \/ StoreNum(w) \/ ShardExit(w) => Plain
  BY DEF StoreCount, LoadNum, StoreNum, ShardExit, cache
<1>7. QED
  BY <1>1, <1>2, <1>3, <1>4, <1>5, <1>6 DEF Work

\* What the workers hold in registers, and the globals.
LEMMA StepValues ==
    ASSUME Shape, NEW w \in Worker, Work(w)
    PROVE  /\ cur_inst_pc' \in Nat /\ reuse_inst_num' \in Nat
           /\ inst_dist_count' \in [0 .. MissBin -> Nat]
           /\ tag' \in [Worker -> Addr]
           /\ \A v \in Worker : v # w => tag'[v] = tag[v] /\ reg'[v] = reg[v] /\ bin'[v] = bin[v]
           /\ reg' \in [Worker -> Nat]
           /\ bin' \in [Worker -> 0 .. MissBin]
           /\ crashed' \in BOOLEAN
           /\ overlapped' \in BOOLEAN
<1> DEFINE Goal == /\ cur_inst_pc' \in Nat /\ reuse_inst_num' \in Nat
                   /\ inst_dist_count' \in [0 .. MissBin -> Nat]
                   /\ tag' \in [Worker -> Addr]
                   /\ \A v \in Worker : v # w => tag'[v] = tag[v] /\ reg'[v] = reg[v] /\ bin'[v] = bin[v]
                   /\ reg' \in [Worker -> Nat]
                   /\ bin' \in [Worker -> 0 .. MissBin]
                   /\ crashed' \in BOOLEAN
                   /\ overlapped' \in BOOLEAN
<1>0. /\ cur_inst_pc \in Nat /\ reuse_inst_num \in Nat
      /\ inst_dist_count \in [0 .. MissBin -> Nat] /\ tag \in [Worker -> Addr]
      /\ reg \in [Worker -> Nat] /\ bin \in [Worker -> 0 .. MissBin]
      /\ crashed \in BOOLEAN /\ overlapped \in BOOLEAN
      /\ \A k \in DOMAIN stored : stored[k] \in Nat
  BY DEF Shape, TypeOK, CacheOK
<1> USE DEF counts, cache, Load
<1>1. ShardInit(w) \/ CountReference(w) \/ StoreNum(w) \/ LoadNum(w) => Goal
  BY <1>0 DEF ShardInit, CountReference, StoreNum, LoadNum
<1>2. ASSUME NEW a \in Addr, Begin(w, a)
      PROVE  Goal
  BY <1>0, <1>2 DEF Begin
<1>3. CASE FindTag(w)
  <2>1. bin' = bin \/ bin' = [bin EXCEPT ![w] = MissBin]
    BY <1>3 DEF FindTag
  <2>2. MissBin \in 0 .. MissBin
    BY LimitAssumption DEF MissBin
  <2>3. bin' \in [Worker -> 0 .. MissBin] /\ \A v \in Worker : v # w => bin'[v] = bin[v]
    BY <1>0, <2>1, <2>2
  <2>4. crashed' \in BOOLEAN
    BY <1>0, <1>3 DEF FindTag
  <2>5. QED
    BY <1>0, <1>3, <2>3, <2>4 DEF FindTag
<1>4. CASE Get(w)
  <2>1. \/ reg' = reg
        \/ reg' = [reg EXCEPT ![w] = stored[tag[w]]] /\ tag[w] \in DOMAIN stored
    BY <1>4 DEF Get, Store!LookupPresent
  <2>2. reg' \in [Worker -> Nat] /\ \A v \in Worker : v # w => reg'[v] = reg[v]
    BY <1>0, <2>1
  <2>3. QED
    BY <1>0, <1>4, <2>2 DEF Get
<1>5. CASE Read(w)
  <2>1. PICK prev \in {reg[w]} \cup Range(stored) : reg' = [reg EXCEPT ![w] = prev]
    BY <1>5 DEF Read
  <2>2. prev \in Nat
    BY <1>0 DEF Range
  <2>3. QED
    BY <1>0, <1>5, <2>1, <2>2 DEF Read
<1>6. CASE Measure(w)
  <2>1. bin' = bin \/ bin' = [bin EXCEPT ![w] = Bin(Distance(w))]
    BY <1>6 DEF Measure
  <2>2. Bin(Distance(w)) \in 0 .. MissBin
    BY BinType, LimitAssumption DEF MissBin
  <2>3. bin' \in [Worker -> 0 .. MissBin] /\ \A v \in Worker : v # w => bin'[v] = bin[v]
    BY <1>0, <2>1, <2>2
  <2>4. crashed' \in BOOLEAN
    BY <1>0, <1>6 DEF Measure
  <2>5. QED
    BY <1>0, <1>6, <2>3, <2>4 DEF Measure
<1>7. LoadCount(w) \/ StoreCount(w) => Goal
  BY <1>0 DEF LoadCount, StoreCount
<1>8. EnterInsert(w) \/ Insert(w) \/ ShardExit(w) => Goal
  BY <1>0 DEF EnterInsert, Insert, ShardExit
<1>9. QED
  BY <1>1, <1>2, <1>3, <1>4, <1>5, <1>6, <1>7, <1>8 DEF Work

\* The address of a reference is one of its shard's.
LEMMA StepUsed ==
    ASSUME Shape, NEW w \in Worker, Work(w)
    PROVE  /\ DOMAIN stored' \subseteq Used'
           /\ \A v \in Worker : ~Resting(v)' => tag'[v] \in Used'
<1>1. /\ DOMAIN stored \subseteq Used /\ Used \subseteq Used'
      /\ \A v \in Worker : ~Resting(v) => tag[v] \in Used
      /\ at \in [Worker -> Labels] /\ tag \in [Worker -> Addr]
  BY StepShards DEF Shape, TypeOK
<1>2. \A v \in Worker : v # w => tag'[v] = tag[v] /\ at'[v] = at[v]
  BY StepValues, StepPlaces
<1>3. DOMAIN stored' \subseteq Used'
  <2>1. CASE Insert(w)
    <3>1. tag[w] \in Used
      BY <1>1, <2>1 DEF Insert, Resting
    <3>2. QED
      BY <1>1, <3>1, StepCache
  <2>2. CASE ~Insert(w)
    BY <1>1, <2>2, StepCache
  <2>3. QED
    BY <2>1, <2>2
<1>4. ~Resting(w)' => tag'[w] \in Used'
  <2>1. ASSUME NEW a \in Addr, Begin(w, a)
        PROVE  tag'[w] \in Used'
    <3>1. tag'[w] = a
      BY <1>1, <2>1 DEF Begin
    <3>2. QED
      BY <2>1, <3>1, StepShards
  <2>2. CASE ~\E a \in Addr : Begin(w, a)
    <3>1. tag' = tag /\ (~Resting(w)' => ~Resting(w))
      BY <1>1, <2>2
         DEF Work, Goto, Resting, ShardInit, CountReference, FindTag, Get, Read, Measure,
             LoadCount, StoreCount, LoadNum, StoreNum, EnterInsert, Insert, ShardExit
    <3>2. QED
      BY <1>1, <3>1
  <2>3. QED
    BY <2>1, <2>2
<1>5. QED
  BY <1>1, <1>2, <1>3, <1>4 DEF Resting

\* Every step of a worker keeps the shape of the state.
LEMMA StepShape ==
    ASSUME Shape, NEW w \in Worker, Work(w)
    PROVE  Shape'
<1>1. DOMAIN shard_map' = {v \in Worker : at'[v] # "new"}
  <2>1. DOMAIN shard_map' = DOMAIN shard_map \cup {w}
    BY StepShards
  <2>2. DOMAIN shard_map = {v \in Worker : at[v] # "new"}
    BY DEF Shape, TypeOK
  <2>3. QED
    BY <2>1, <2>2, StepPlaces
<1>2. ToSet(recent') = DOMAIN stored' /\ DOMAIN stored' \subseteq Addr
  BY StepCache DEF Shape, TypeOK, CacheOK
<1>3. TypeOK'
  BY <1>1, <1>2, StepCache, StepPlaces, StepValues DEF TypeOK
<1>4. QED
  BY <1>3, StepCache, StepPlaces, StepShards, StepUsed, StepValues DEF Shape

\* Nothing happens to what is unchanged.
LEMMA StutterShape == Shape /\ UNCHANGED vars => Shape'
  BY DEF Shape, TypeOK, CacheOK, IsShard, Used, Resting, vars, counts, cache, locals

-----------------------------------------------------------------------------
(* The bounds of the counters. *)

\* What a step of one worker does to the number of workers at some labels.
LEMMA StepMoves ==
    ASSUME Shape, NEW w \in Worker, Work(w), NEW labels
    PROVE  /\ Cardinality(In(labels)) \in Nat
           /\ Cardinality(In(labels)') =
                Cardinality(In(labels)) + (IF at'[w] \in labels THEN 1 ELSE 0)
                                        - (IF at[w] \in labels THEN 1 ELSE 0)
           /\ \A v \in Worker : v # w => (v \in In(labels)' <=> v \in In(labels))
           /\ w \in In(labels) <=> at[w] \in labels
           /\ w \in In(labels)' <=> at'[w] \in labels
<1>1. at \in [Worker -> Labels]
  BY DEF Shape
<1>2. Goto(w, at'[w])
  <2>1. at' \in [Worker -> Labels] /\ \A v \in Worker : v # w => at'[v] = at[v]
    BY StepPlaces
  <2>2. at' = [at EXCEPT ![w] = at'[w]]
    BY <1>1, <2>1
  <2>3. QED
    BY <2>2, Zenon DEF Goto
<1> DEFINE label == at'[w]
<1>3. Goto(w, label)
  BY <1>2
<1> HIDE DEF label
<1>4. /\ Cardinality(In(labels)) \in Nat
      /\ Cardinality(In(labels)') =
           Cardinality(In(labels)) + (IF label \in labels THEN 1 ELSE 0)
                                   - (IF at[w] \in labels THEN 1 ELSE 0)
  BY <1>1, <1>3, Moves
<1>5. /\ \A v \in Worker : v # w => (v \in In(labels)' <=> v \in In(labels))
      /\ w \in In(labels) <=> at[w] \in labels
      /\ w \in In(labels)' <=> at'[w] \in labels
  BY StepPlaces DEF In
<1>6. QED
  BY <1>4, <1>5 DEF label

\* cur_inst_pc loses increments and never gains any.
LEMMA StepCur ==
    ASSUME Shape, CurBounded, NEW w \in Worker, Work(w)
    PROVE  CurBounded'
<1> DEFINE n == Cardinality(In(Unseen))
           m == Cardinality(In(Unseen)')
<1>1. /\ cur_inst_pc \in Nat /\ reg \in [Worker -> Nat] /\ at \in [Worker -> Labels]
      /\ References \in Nat /\ References' \in {References, References + 1}
  BY ReferencesType, StepShards DEF Shape, TypeOK
<1>2. /\ n \in Nat
      /\ m = n + (IF at'[w] \in Unseen THEN 1 ELSE 0) - (IF at[w] \in Unseen THEN 1 ELSE 0)
      /\ \A v \in Worker : v # w => (v \in In(Unseen)' <=> v \in In(Unseen))
      /\ w \in In(Unseen) <=> at[w] \in Unseen
      /\ w \in In(Unseen)' <=> at'[w] \in Unseen
  BY StepMoves
<1>3. \A v \in Worker : v # w => reg'[v] = reg[v]
  BY StepValues
<1>4. /\ cur_inst_pc + n <= References
      /\ \A v \in In(Unseen) : v \in Worker /\ reg[v] + n <= References
  BY DEF CurBounded, In
<1>5. SUFFICES /\ cur_inst_pc' + m <= References'
               /\ \A v \in Worker : v \in In(Unseen)' => reg'[v] + m <= References'
  BY DEF CurBounded, In
<1> HIDE DEF n, m
<1>6. ASSUME NEW a \in Addr, Begin(w, a)
      PROVE  /\ cur_inst_pc' + m <= References'
             /\ \A v \in Worker : v \in In(Unseen)' => reg'[v] + m <= References'
  <2>1. /\ at[w] = "idle" /\ at'[w] = "count" /\ reg'[w] = cur_inst_pc
        /\ cur_inst_pc' = cur_inst_pc
    BY <1>1, <1>6 DEF Begin, Goto, Load, counts
  <2>2. References' = References + 1
    BY <1>6, ReferencesBegin
  <2>3. m = n + 1
    BY <1>2, <2>1 DEF Unseen
  <2>4. QED
    BY <1>1, <1>2, <1>3, <1>4, <2>1, <2>2, <2>3
<1>7. CASE CountReference(w)
  <2>1. /\ at[w] = "count" /\ at'[w] = "contains" /\ reg' = reg
        /\ cur_inst_pc' = reg[w] + 1
    BY <1>1, <1>7 DEF CountReference, Goto
  <2>2. m = n - 1 /\ w \in In(Unseen) /\ w \notin In(Unseen)'
    BY <1>2, <2>1 DEF Unseen
  <2>3. QED
    BY <1>1, <1>2, <1>3, <1>4, <2>1, <2>2
<1>8. CASE cur_inst_pc' = cur_inst_pc /\ at[w] # "count" /\ at'[w] # "count"
  <2>1. m = n /\ w \notin In(Unseen)'
    BY <1>2, <1>8 DEF Unseen
  <2>2. QED
    BY <1>1, <1>2, <1>3, <1>4, <1>8, <2>1
<1>9. QED
  BY <1>1, <1>6, <1>7, <1>8
     DEF Work, Goto, counts, ShardInit, FindTag, Get, Read, Measure, LoadCount, StoreCount,
         LoadNum, StoreNum, EnterInsert, Insert, ShardExit

\* The same of reuse_inst_num.
LEMMA StepNum ==
    ASSUME Shape, NumBounded, NEW w \in Worker, Work(w)
    PROVE  NumBounded'
<1> DEFINE n == Cardinality(In(Numbered))
           m == Cardinality(In(Numbered)')
           L == {"store_num"}
<1>1. /\ reuse_inst_num \in Nat /\ reg \in [Worker -> Nat] /\ at \in [Worker -> Labels]
      /\ References \in Nat /\ References' \in {References, References + 1}
  BY ReferencesType, StepShards DEF Shape, TypeOK
<1>2. /\ n \in Nat
      /\ m = n + (IF at'[w] \in Numbered THEN 1 ELSE 0) - (IF at[w] \in Numbered THEN 1 ELSE 0)
  BY StepMoves
<1>3. /\ \A v \in Worker : v # w => (v \in In(L)' <=> v \in In(L)) /\ reg'[v] = reg[v]
      /\ w \in In(L) <=> at[w] = "store_num"
      /\ w \in In(L)' <=> at'[w] = "store_num"
  BY StepMoves, StepValues
<1>4. /\ reuse_inst_num + n <= References
      /\ \A v \in In(L) : reg[v] + n <= References
  BY DEF NumBounded
<1>5. SUFFICES /\ reuse_inst_num' + m <= References'
               /\ \A v \in Worker : v \in In(L)' => reg'[v] + m <= References'
  BY DEF NumBounded, In
<1> HIDE DEF n, m, L
<1>6. ASSUME NEW a \in Addr, Begin(w, a)
      PROVE  /\ reuse_inst_num' + m <= References'
             /\ \A v \in Worker : v \in In(L)' => reg'[v] + m <= References'
  <2>1. at[w] = "idle" /\ at'[w] = "count" /\ reuse_inst_num' = reuse_inst_num
    BY <1>1, <1>6 DEF Begin, Goto, counts
  <2>2. References' = References + 1
    BY <1>6, ReferencesBegin
  <2>3. m = n + 1
    BY <1>2, <2>1 DEF Numbered, Unsized, Reusing
  <2>4. QED
    BY <1>1, <1>2, <1>3, <1>4, <2>1, <2>2, <2>3
<1>7. CASE LoadNum(w)
  <2>1. /\ at[w] = "load_num" /\ at'[w] = "store_num" /\ reg'[w] = reuse_inst_num
        /\ reuse_inst_num' = reuse_inst_num
    BY <1>1, <1>7 DEF LoadNum, Goto, Load, counts
  <2>2. m = n
    BY <1>2, <2>1 DEF Numbered, Unsized, Reusing
  <2>3. QED
    BY <1>1, <1>2, <1>3, <1>4, <2>1, <2>2
<1>8. CASE StoreNum(w)
  <2>1. at[w] = "store_num" /\ at'[w] = "insert" /\ reuse_inst_num' = reg[w] + 1
    BY <1>1, <1>8 DEF StoreNum, Goto
  <2>2. m = n - 1
    BY <1>2, <2>1 DEF Numbered, Unsized, Reusing
  <2>3. QED
    BY <1>1, <1>2, <1>3, <1>4, <2>1, <2>2
<1>9. CASE /\ reuse_inst_num' = reuse_inst_num /\ at'[w] # "store_num"
           /\ at'[w] \in Numbered => at[w] \in Numbered
  <2>1. m <= n /\ m \in Int /\ w \notin In(L)'
    BY <1>2, <1>3, <1>9
  <2>2. QED
    BY <1>1, <1>2, <1>3, <1>4, <1>9, <2>1
<1>10. ASSUME ShardInit(w) \/ CountReference(w) \/ FindTag(w) \/ Get(w) \/ Read(w)
              \/ Measure(w) \/ LoadCount(w) \/ StoreCount(w)
              \/ EnterInsert(w) \/ Insert(w) \/ ShardExit(w)
       PROVE  /\ reuse_inst_num' = reuse_inst_num /\ at'[w] # "store_num"
              /\ at'[w] \in Numbered => at[w] \in Numbered
  BY <1>1, <1>10
     DEF Goto, counts, Numbered, Unsized, Reusing, ShardInit, CountReference, FindTag,
         Get, Read, Measure, LoadCount, StoreCount, EnterInsert, Insert, ShardExit
<1>11. QED
  BY <1>6, <1>7, <1>8, <1>9, <1>10 DEF Work

\* The same of the counters of the distances together.
LEMMA StepCount ==
    ASSUME Shape, CountBounded, NEW w \in Worker, Work(w)
    PROVE  CountBounded'
<1> DEFINE n == Cardinality(In(Unsized))
           m == Cardinality(In(Unsized)')
           L == {"store_count"}
           B == 0 .. MissBin
<1>1. /\ inst_dist_count \in [B -> Nat] /\ reg \in [Worker -> Nat]
      /\ bin \in [Worker -> B] /\ at \in [Worker -> Labels]
      /\ References \in Nat /\ References' \in {References, References + 1}
  BY ReferencesType, StepShards DEF Shape, TypeOK
<1>2. /\ n \in Nat
      /\ m = n + (IF at'[w] \in Unsized THEN 1 ELSE 0) - (IF at[w] \in Unsized THEN 1 ELSE 0)
  BY StepMoves
<1>3. /\ \A v \in Worker : v # w => /\ v \in In(L)' <=> v \in In(L)
                                    /\ reg'[v] = reg[v] /\ bin'[v] = bin[v]
      /\ w \in In(L) <=> at[w] = "store_count"
      /\ w \in In(L)' <=> at'[w] = "store_count"
  BY StepMoves, StepValues
<1>4. PICK bound \in [B -> Nat] :
        /\ \A b \in B : inst_dist_count[b] <= bound[b]
        /\ \A v \in In(L) : reg[v] <= bound[bin[v]]
        /\ SumFunctionOnSet(bound, B) + n <= References
  BY DEF CountBounded
<1>5. IsFiniteSet(B)
  BY LimitAssumption, FS_Interval DEF MissBin
<1>6. SumFunctionOnSet(bound, B) \in Nat
  <2> HIDE DEF B
  <2>1. QED
    BY <1>4, <1>5, SumType
<1>7. SUFFICES \E new \in [B -> Nat] :
                 /\ \A b \in B : inst_dist_count'[b] <= new[b]
                 /\ \A v \in Worker : v \in In(L)' => reg'[v] <= new[bin'[v]]
                 /\ SumFunctionOnSet(new, B) + m <= References'
  BY DEF CountBounded, In
<1> HIDE DEF n, m, L, B
<1>8. ASSUME NEW a \in Addr, Begin(w, a)
      PROVE  /\ \A b \in B : inst_dist_count'[b] <= bound[b]
             /\ \A v \in Worker : v \in In(L)' => reg'[v] <= bound[bin'[v]]
             /\ SumFunctionOnSet(bound, B) + m <= References'
  <2>1. at[w] = "idle" /\ at'[w] = "count" /\ inst_dist_count' = inst_dist_count
    BY <1>1, <1>8 DEF Begin, Goto, counts
  <2>2. References' = References + 1
    BY <1>8, ReferencesBegin
  <2>3. m = n + 1
    BY <1>2, <2>1 DEF Unsized
  <2>4. QED
    BY <1>1, <1>2, <1>3, <1>4, <1>6, <2>1, <2>2, <2>3
<1>9. CASE LoadCount(w)
  <2>1. /\ at[w] = "load_count" /\ at'[w] = "store_count" /\ bin' = bin
        /\ reg'[w] = inst_dist_count[bin[w]] /\ inst_dist_count' = inst_dist_count
    BY <1>1, <1>9 DEF LoadCount, Goto, Load, counts
  <2>2. m = n
    BY <1>2, <2>1 DEF Unsized
  <2>3. /\ \A b \in B : inst_dist_count'[b] <= bound[b]
        /\ \A v \in Worker : v \in In(L)' => reg'[v] <= bound[bin'[v]]
        /\ SumFunctionOnSet(bound, B) + m <= References'
    BY <1>1, <1>2, <1>3, <1>4, <1>6, <2>1, <2>2
  <2>4. QED
    BY <2>3
<1>10. CASE StoreCount(w)
  <2> DEFINE x == bin[w]
             new == [bound EXCEPT ![x] = @ + 1]
  <2>1. /\ at[w] = "store_count" /\ at'[w] \notin Unsized /\ bin' = bin /\ reg' = reg
        /\ inst_dist_count' = [inst_dist_count EXCEPT ![x] = reg[w] + 1]
    BY <1>1, <1>10 DEF StoreCount, Goto, Unsized
  <2>2. m = n - 1 /\ w \in In(L) /\ w \notin In(L)'
    BY <1>2, <1>3, <2>1 DEF Unsized
  <2>3. x \in B /\ new \in [B -> Nat] /\ new[x] = bound[x] + 1
    BY <1>1, <1>4
  <2>4. \A b \in B : /\ bound[b] \in Nat /\ new[b] \in Nat /\ bound[b] <= new[b]
                     /\ b # x => bound[b] = new[b]
    BY <1>4, <2>3
  <2>5. SumFunctionOnSet(new, B) = SumFunctionOnSet(bound, B) - bound[x] + new[x]
    <3> HIDE DEF new, x
    <3>1. /\ \A b \in B : bound[b] \in Nat /\ new[b] \in Nat
          /\ \A b \in B : b # x => bound[b] = new[b]
      BY <2>4
    <3>2. QED
      BY <1>5, <2>3, <3>1, SumUpdate
  <2>6. SumFunctionOnSet(new, B) = SumFunctionOnSet(bound, B) + 1
    BY <1>6, <2>3, <2>4, <2>5
  <2>7. reg[w] <= bound[x] /\ reg[w] \in Nat
    BY <1>1, <1>4, <2>2
  <2>8. \A b \in B : inst_dist_count'[b] <= new[b]
    <3> SUFFICES ASSUME NEW b \in B
                 PROVE  inst_dist_count'[b] <= new[b]
      OBVIOUS
    <3>1. CASE b = x
      BY <1>1, <2>1, <2>3, <2>7, <3>1
    <3>2. CASE b # x
      BY <1>1, <1>4, <2>1, <2>4, <3>2
    <3>3. QED
      BY <3>1, <3>2
  <2>9. \A v \in Worker : v \in In(L)' => reg'[v] <= new[bin'[v]]
    <3> SUFFICES ASSUME NEW v \in Worker, v \in In(L)'
                 PROVE  reg'[v] <= new[bin'[v]]
      OBVIOUS
    <3>1. v \in In(L) /\ reg'[v] = reg[v] /\ bin'[v] = bin[v] /\ bin[v] \in B /\ reg[v] \in Nat
      BY <1>1, <1>3, <2>2
    <3>2. reg[v] <= bound[bin[v]] /\ bound[bin[v]] <= new[bin[v]]
      BY <1>4, <2>4, <3>1
    <3>3. bound[bin[v]] \in Nat /\ new[bin[v]] \in Nat
      BY <2>4, <3>1
    <3> HIDE DEF new
    <3>4. QED
      BY <3>1, <3>2, <3>3
  <2>10. SumFunctionOnSet(new, B) + m <= References'
    BY <1>1, <1>2, <1>4, <1>6, <2>2, <2>6
  <2>11. QED
    BY <2>3, <2>8, <2>9, <2>10
<1>11. CASE /\ inst_dist_count' = inst_dist_count /\ at'[w] # "store_count"
            /\ at'[w] \in Unsized => at[w] \in Unsized
  <2>1. m <= n /\ m \in Int /\ w \notin In(L)'
    BY <1>2, <1>3, <1>11
  <2>2. /\ \A b \in B : inst_dist_count'[b] <= bound[b]
        /\ \A v \in Worker : v \in In(L)' => reg'[v] <= bound[bin'[v]]
        /\ SumFunctionOnSet(bound, B) + m <= References'
    BY <1>1, <1>2, <1>3, <1>4, <1>6, <1>11, <2>1
  <2>3. QED
    BY <2>2
<1>12. ASSUME ShardInit(w) \/ CountReference(w) \/ FindTag(w) \/ Get(w) \/ Read(w)
              \/ Measure(w) \/ LoadNum(w) \/ StoreNum(w)
              \/ EnterInsert(w) \/ Insert(w) \/ ShardExit(w)
       PROVE  /\ inst_dist_count' = inst_dist_count /\ at'[w] # "store_count"
              /\ at'[w] \in Unsized => at[w] \in Unsized
  BY <1>1, <1>12
     DEF Goto, counts, Unsized, ShardInit, CountReference, FindTag,
         Get, Read, Measure, LoadNum, StoreNum, EnterInsert, Insert, ShardExit
<1>13. QED
  BY <1>8, <1>9, <1>10, <1>11, <1>12 DEF Work

\* Every step of a worker leaves room for what is still to be counted.
LEMMA StepLosses ==
    ASSUME Shape, Losses, NEW w \in Worker, Work(w)
    PROVE  Losses'
<1>1. /\ cur_inst_pc \in Nat /\ References \in Nat
      /\ References' \in {References, References + 1}
      /\ \A a \in DOMAIN stored : stored[a] \in Nat /\ stored[a] <= References
  BY ReferencesType, StepShards DEF Shape, TypeOK, CacheOK, Losses
<1>2. cur_inst_pc <= References
  <2>1. Cardinality(In(Unseen)) \in Nat
    BY StepMoves
  <2>2. QED
    BY <1>1, <2>1 DEF Losses, CurBounded
<1>3. \A a \in DOMAIN stored' : stored'[a] <= References'
  <2>1. CASE Insert(w)
    <3>1. \A a \in DOMAIN stored' :
            stored'[a] = cur_inst_pc \/ (a \in DOMAIN stored /\ stored'[a] = stored[a])
      BY <2>1, InsertKeeps
    <3>2. QED
      BY <1>1, <1>2, <3>1
  <2>2. CASE ~Insert(w)
    BY <1>1, <2>2, StepCache
  <2>3. QED
    BY <2>1, <2>2
<1>4. CurBounded' /\ NumBounded' /\ CountBounded'
  BY StepCur, StepNum, StepCount DEF Losses
<1>5. QED
  BY <1>3, <1>4 DEF Losses

\* In the beginning there is nothing.
LEMMA InitCounts ==
    ASSUME Init
    PROVE  /\ \A labels : "new" \notin labels => In(labels) = {} /\ Cardinality(In(labels)) = 0
           /\ References = 0 /\ Counted = 0
           /\ DOMAIN stored = {} /\ Used = {}
<1>1. \A labels : "new" \notin labels => In(labels) = {}
  BY DEF Init, In
<1>2. \A labels : "new" \notin labels => Cardinality(In(labels)) = 0
  BY <1>1, FS_EmptySet
<1>3. DOMAIN shard_map = {} /\ DOMAIN stored = {}
  BY DEF Init, Store!Init
<1>4. References = 0
  <2> DEFINE f == [w \in DOMAIN shard_map |-> shard_map[w].total_refs]
  <2>1. References = SumFunctionOnSet(f, DOMAIN shard_map)
    BY Zenon DEF References, SumFunction
  <2> HIDE DEF f
  <2>2. QED
    BY <1>3, <2>1, SumEmpty
<1>5. Counted = 0
  <2> DEFINE B == 0 .. MissBin
  <2>1. IsFiniteSet(B)
    BY LimitAssumption, FS_Interval DEF MissBin
  <2>2. DOMAIN inst_dist_count = B /\ \A b \in B : inst_dist_count[b] = 0
    BY DEF Init
  <2>3. Counted = SumFunctionOnSet(inst_dist_count, DOMAIN inst_dist_count)
    BY Zenon DEF Counted, SumFunction
  <2> HIDE DEF B
  <2>4. SumFunctionOnSet(inst_dist_count, B) = 0
    BY <2>1, <2>2, SumZero
  <2>5. QED
    BY <2>2, <2>3, <2>4
<1>6. QED
  BY <1>1, <1>2, <1>3, <1>4, <1>5 DEF Used

\* In the beginning nothing is to be counted.
LEMMA InitLosses == Init => Losses
<1> SUFFICES ASSUME Init
             PROVE  Losses
  OBVIOUS
<1>1. /\ In(Unseen) = {} /\ Cardinality(In(Unseen)) = 0
      /\ Cardinality(In(Unsized)) = 0 /\ Cardinality(In(Numbered)) = 0
      /\ In({"store_count"}) = {} /\ In({"store_num"}) = {}
  BY InitCounts DEF Unseen, Unsized, Numbered, Reusing
<1>2. References = 0 /\ DOMAIN stored = {} /\ cur_inst_pc = 0 /\ reuse_inst_num = 0
  BY InitCounts DEF Init
<1>3. SumFunctionOnSet(inst_dist_count, 0 .. MissBin) = 0
  <2>1. Counted = SumFunctionOnSet(inst_dist_count, DOMAIN inst_dist_count)
    BY Zenon DEF Counted, SumFunction
  <2>2. DOMAIN inst_dist_count = 0 .. MissBin
    BY DEF Init
  <2>3. QED
    BY <2>1, <2>2, InitCounts
<1>4. CountBounded
  <2>1. /\ inst_dist_count \in [0 .. MissBin -> Nat]
        /\ \A b \in 0 .. MissBin : inst_dist_count[b] <= inst_dist_count[b]
    BY DEF Init
  <2>2. /\ \A w \in In({"store_count"}) : reg[w] <= inst_dist_count[bin[w]]
        /\ SumFunctionOnSet(inst_dist_count, 0 .. MissBin) + Cardinality(In(Unsized))
             <= References
    BY <1>1, <1>2, <1>3
  <2>3. QED
    BY <2>1, <2>2, Zenon DEF CountBounded
<1>5. QED
  BY <1>1, <1>2, <1>4 DEF Losses, CurBounded, NumBounded

\* With room for the values in registers there is room for the counters alone.
LEMMA LossesImplies == Shape /\ Losses => NeverOvercounted
<1> SUFFICES ASSUME Shape, Losses
             PROVE  NeverOvercounted
  OBVIOUS
<1>1. /\ cur_inst_pc \in Nat /\ reuse_inst_num \in Nat /\ References \in Nat
      /\ inst_dist_count \in [0 .. MissBin -> Nat] /\ at \in [Worker -> Labels]
  BY ReferencesType DEF Shape, TypeOK
<1>2. \A labels : Cardinality(In(labels)) \in Nat
  <2>1. \A labels : In(labels) \in SUBSET Worker
    BY DEF In
  <2>2. QED
    BY <2>1, WorkerAssumption, FS_Subset, FS_CardinalityType
<1>3. Counted <= References
  <2> DEFINE B == 0 .. MissBin
  <2>1. PICK bound \in [B -> Nat] :
          /\ \A b \in B : inst_dist_count[b] <= bound[b]
          /\ SumFunctionOnSet(bound, B) + Cardinality(In(Unsized)) <= References
    BY DEF Losses, CountBounded
  <2>2. IsFiniteSet(B)
    BY LimitAssumption, FS_Interval DEF MissBin
  <2>3. Counted = SumFunctionOnSet(inst_dist_count, B)
    <3>1. Counted = SumFunctionOnSet(inst_dist_count, DOMAIN inst_dist_count)
      BY Zenon DEF Counted, SumFunction
    <3>2. DOMAIN inst_dist_count = B
      BY <1>1
    <3>3. QED
      BY <3>1, <3>2
  <2> HIDE DEF B
  <2>4. \A b \in B : /\ inst_dist_count[b] \in Nat /\ bound[b] \in Nat
                     /\ inst_dist_count[b] <= bound[b]
    BY <1>1, <2>1 DEF B
  <2>5. /\ SumFunctionOnSet(inst_dist_count, B) <= SumFunctionOnSet(bound, B)
        /\ SumFunctionOnSet(inst_dist_count, B) \in Nat
        /\ SumFunctionOnSet(bound, B) \in Nat
    BY <2>2, <2>4, SumMonotone, SumType
  <2>6. QED
    BY <1>1, <1>2, <2>1, <2>3, <2>5
<1>4. QED
  BY <1>1, <1>2, <1>3 DEF Losses, CurBounded, NumBounded, NeverOvercounted

\* Nothing is counted when nothing changes.
LEMMA StutterLosses == Losses /\ UNCHANGED vars => Losses'
  BY DEF Losses, CurBounded, NumBounded, CountBounded, In, References,
         vars, counts, cache, locals

-----------------------------------------------------------------------------
(* What the cache keeps. *)

\* Every step of a worker keeps the keys that get() will ask for, if they fit.
LEMMA StepCapacity ==
    ASSUME Shape, Capacity, NEW w \in Worker, Work(w)
    PROVE  Capacity'
<1>1. /\ IsFiniteSet(Used) /\ IsFiniteSet(Used')
      /\ Used \subseteq Used' /\ Used \subseteq Addr
  <2>1. Used \subseteq Addr
    BY DEF Shape, Used, IsShard
  <2>2. Used' \subseteq Addr
    BY StepShards DEF Used, IsShard
  <2>3. QED
    BY <2>1, <2>2, AddrAssumption, FS_Subset, StepShards
<1>2. SUFFICES ASSUME Fits'
               PROVE  /\ ~aborted'
                      /\ \A v \in Worker : at'[v] = "get" =>
                           \/ tag'[v] \in DOMAIN stored'
                           \/ lock' # None /\ tag'[lock'] = tag'[v]
  BY DEF Capacity, In
<1>3. Fits
  <2>1. Cardinality(Used) <= Cardinality(Used') /\ Cardinality(Used) \in Nat
        /\ Cardinality(Used') \in Nat
    BY <1>1, FS_Subset, FS_CardinalityType
  <2>2. QED
    BY <1>2, <2>1, LimitAssumption DEF Fits
<1>4. /\ ~aborted
      /\ \A v \in Worker : at[v] = "get" =>
           \/ tag[v] \in DOMAIN stored
           \/ lock # None /\ tag[lock] = tag[v]
  BY <1>3 DEF Capacity, In
<1>5. /\ at \in [Worker -> Labels] /\ lock \in Worker \cup {None}
      /\ \A v \in Worker : lock = v <=> at[v] = "inside"
      /\ tag \in [Worker -> Addr]
      /\ \A v \in Worker : v # w => tag'[v] = tag[v] /\ at'[v] = at[v]
  BY StepValues, StepPlaces DEF Shape, TypeOK
<1>6. CASE Insert(w)
  <2>1. at[w] = "inside" /\ at'[w] = "idle" /\ tag' = tag /\ lock = w
    BY <1>5, <1>6 DEF Insert, Goto
  <2>2. tag[w] \in Used /\ DOMAIN stored \subseteq Used
    BY <2>1 DEF Shape, Resting
  <2>3. LruMax = 0 \/ Cardinality(DOMAIN stored \cup {tag[w]}) <= LruMax
    <3>1. DOMAIN stored \cup {tag[w]} \in SUBSET Used
      BY <2>2
    <3>2. /\ IsFiniteSet(DOMAIN stored \cup {tag[w]})
          /\ Cardinality(DOMAIN stored \cup {tag[w]}) <= Cardinality(Used)
      BY <1>1, <3>1, FS_Subset
    <3>3. Cardinality(DOMAIN stored \cup {tag[w]}) \in Nat /\ Cardinality(Used) \in Nat
      BY <1>1, <3>2, FS_CardinalityType
    <3>4. QED
      BY <1>3, <3>2, <3>3, LimitAssumption DEF Fits
  <2>4. DOMAIN stored' = DOMAIN stored \cup {tag[w]} /\ aborted' = aborted
    BY <1>6, <2>3, InsertKeeps
  <2>5. QED
    BY <1>4, <1>5, <2>1, <2>4
<1>7. CASE FindTag(w)
  <2>1. UNCHANGED <<recent, stored, aborted, lock, tag>>
    BY <1>7 DEF FindTag, cache
  <2>2. at'[w] = "get" =>
          \/ tag[w] \in DOMAIN stored
          \/ lock # None /\ tag[lock] = tag[w]
    BY <1>5, <1>7 DEF FindTag, Goto, Rehashing
  <2>3. QED
    BY <1>4, <1>5, <2>1, <2>2
<1>8. CASE Get(w)
  <2>1. at[w] = "get" /\ lock = None
    BY <1>8 DEF Get
  <2>2. tag[w] \in DOMAIN stored
    BY <1>4, <2>1
  <2>3. Store!LookupPresent(tag[w], FALSE) /\ at'[w] = "read"
    BY <1>5, <1>8, <2>2 DEF Get, Store!LookupMissing, Goto
  <2>4. UNCHANGED <<stored, aborted, lock, tag>>
    BY <1>8, <2>3 DEF Get, Store!LookupPresent
  <2>5. QED
    BY <1>4, <1>5, <2>3, <2>4
<1>9. CASE EnterInsert(w)
  <2>1. UNCHANGED <<stored, aborted, tag>> /\ lock = None /\ at'[w] = "inside"
    BY <1>5, <1>9 DEF EnterInsert, Goto
  <2>2. QED
    BY <1>4, <1>5, <2>1
<1>10. CASE /\ UNCHANGED <<stored, aborted, lock>>
            /\ at'[w] # "get" /\ at[w] # "inside"
  <2>1. lock # w
    BY <1>5, <1>10
  <2>2. QED
    BY <1>4, <1>5, <1>10, <2>1
<1>11. ASSUME ShardInit(w) \/ (\E a \in Addr : Begin(w, a)) \/ CountReference(w) \/ Read(w)
              \/ Measure(w) \/ LoadCount(w) \/ StoreCount(w) \/ LoadNum(w)
              \/ StoreNum(w) \/ ShardExit(w)
       PROVE  /\ UNCHANGED <<stored, aborted, lock>>
              /\ at'[w] # "get" /\ at[w] # "inside"
  <2>1. UNCHANGED <<stored, aborted, lock>>
    BY <1>11
       DEF cache, ShardInit, Begin, CountReference, Read, Measure, LoadCount, StoreCount,
           LoadNum, StoreNum, ShardExit
  <2>2. at'[w] # "get" /\ at[w] # "inside"
    BY <1>5, <1>11
       DEF Goto, ShardInit, Begin, CountReference, Read, Measure, LoadCount, StoreCount,
           LoadNum, StoreNum, ShardExit
  <2>3. QED
    BY <2>1, <2>2
<1>12. QED
  BY <1>6, <1>7, <1>8, <1>9, <1>10, <1>11 DEF Work

\* In the beginning nobody asks for a key.
LEMMA InitCapacity == Init => Capacity
  BY DEF Init, Store!Init, Capacity, In

\* The same without a step.
LEMMA StutterCapacity == Capacity /\ UNCHANGED vars => Capacity'
  BY DEF Capacity, Fits, Used, In, vars, counts, cache, locals

\* An abort means that the keys do not fit.
LEMMA CapacityImplies == Shape /\ Capacity => KeptWithinCapacity
<1> SUFFICES ASSUME Shape, Capacity, ~(LruMax = 0), ~(Cardinality(Used) <= LruMax)
             PROVE  Cardinality(Used) > LruMax
  BY DEF Capacity, Fits, KeptWithinCapacity
<1>1. Used \in SUBSET Addr
  BY DEF Shape, Used, IsShard
<1>2. Cardinality(Used) \in Nat
  BY <1>1, AddrAssumption, FS_Subset, FS_CardinalityType
<1>3. QED
  BY <1>2, LimitAssumption

-----------------------------------------------------------------------------
(* One shard after the other. *)

\* The counters add up to a natural number.
LEMMA CountedType ==
    ASSUME Shape
    PROVE  Counted \in Nat
<1> DEFINE B == 0 .. MissBin
<1>1. IsFiniteSet(B)
  BY LimitAssumption, FS_Interval DEF MissBin
<1>2. DOMAIN inst_dist_count = B /\ \A b \in B : inst_dist_count[b] \in Nat
  BY DEF Shape, TypeOK
<1>3. Counted = SumFunctionOnSet(inst_dist_count, DOMAIN inst_dist_count)
  BY Zenon DEF Counted, SumFunction
<1> HIDE DEF B
<1>4. QED
  BY <1>1, <1>2, <1>3, SumType

\* An increment that is not interrupted counts.
LEMMA CountedStep ==
    ASSUME Shape, NEW w \in Worker, StoreCount(w), reg[w] = inst_dist_count[bin[w]]
    PROVE  Counted' = Counted + 1
<1> DEFINE B == 0 .. MissBin
           x == bin[w]
           f == inst_dist_count
           g == inst_dist_count'
<1>1. IsFiniteSet(B)
  BY LimitAssumption, FS_Interval DEF MissBin
<1>2. x \in B /\ f \in [B -> Nat]
  BY DEF Shape, TypeOK
<1>3. g = [f EXCEPT ![x] = f[x] + 1]
  BY DEF StoreCount
<1>4. DOMAIN f = B /\ DOMAIN g = B /\ g[x] = f[x] + 1 /\ f[x] \in Nat
  BY <1>2, <1>3
<1>5. /\ \A b \in B : f[b] \in Nat /\ g[b] \in Nat
      /\ \A b \in B : b # x => f[b] = g[b]
  BY <1>2, <1>3
<1>6. Counted = SumFunctionOnSet(f, DOMAIN f) /\ Counted' = SumFunctionOnSet(g, DOMAIN g)
  BY Zenon DEF Counted, SumFunction
<1> HIDE DEF f, g, B, x
<1>7. SumFunctionOnSet(g, B) = SumFunctionOnSet(f, B) - f[x] + g[x]
  BY <1>1, <1>2, <1>5, SumUpdate
<1>8. SumFunctionOnSet(f, B) \in Nat
  BY <1>1, <1>5, SumType
<1>9. QED
  BY <1>4, <1>6, <1>7, <1>8

\* A step that finds its register up to date keeps the counters exact.
LEMMA StepCountsExact ==
    ASSUME Shape, CountsExact, NEW w \in Worker, LocalExact(w), Work(w)
    PROVE  CountsExact'
<1> DEFINE n1 == Cardinality(In(Unseen))
           m1 == Cardinality(In(Unseen)')
           n2 == Cardinality(In(Unsized))
           m2 == Cardinality(In(Unsized)')
           n3 == Cardinality(In(Reusing))
           m3 == Cardinality(In(Reusing)')
           miss == inst_dist_count[MissBin]
<1>1. /\ cur_inst_pc \in Nat /\ reuse_inst_num \in Nat /\ References \in Nat
      /\ Counted \in Nat /\ miss \in Nat /\ at \in [Worker -> Labels]
  <2>1. MissBin \in 0 .. MissBin
    BY LimitAssumption DEF MissBin
  <2>2. QED
    BY <2>1, ReferencesType, CountedType DEF Shape, TypeOK
<1>2. /\ n1 \in Nat /\ n2 \in Nat /\ n3 \in Nat
      /\ m1 = n1 + (IF at'[w] \in Unseen THEN 1 ELSE 0) - (IF at[w] \in Unseen THEN 1 ELSE 0)
      /\ m2 = n2 + (IF at'[w] \in Unsized THEN 1 ELSE 0) - (IF at[w] \in Unsized THEN 1 ELSE 0)
      /\ m3 = n3 + (IF at'[w] \in Reusing THEN 1 ELSE 0) - (IF at[w] \in Reusing THEN 1 ELSE 0)
  BY StepMoves
<1>3. /\ cur_inst_pc + n1 = References /\ Counted + n2 = References
      /\ Counted = miss + reuse_inst_num + n3
  BY DEF CountsExact
<1> DEFINE Goal == /\ cur_inst_pc' + m1 = References' /\ Counted' + m2 = References'
                   /\ Counted' = miss' + reuse_inst_num' + m3
<1>4. SUFFICES Goal
  BY DEF CountsExact
<1>5. inst_dist_count' = inst_dist_count => Counted' = Counted /\ miss' = miss
  BY DEF Counted
<1>6. ASSUME NEW a \in Addr, Begin(w, a)
      PROVE  Goal
  <2>1. /\ at[w] = "idle" /\ at'[w] = "count" /\ cur_inst_pc' = cur_inst_pc
        /\ inst_dist_count' = inst_dist_count /\ reuse_inst_num' = reuse_inst_num
    BY <1>1, <1>6 DEF Begin, Goto, counts
  <2>2. References' = References + 1
    BY <1>6, ReferencesBegin
  <2> HIDE DEF n1, n2, n3, m1, m2, m3, miss
  <2>3. m1 = n1 + 1 /\ m2 = n2 + 1 /\ m3 = n3
    BY <1>2, <2>1 DEF Unseen, Unsized, Reusing
  <2>4. QED
    BY <1>1, <1>2, <1>3, <1>5, <2>1, <2>2, <2>3
<1>7. ASSUME ~\E a \in Addr : Begin(w, a)
      PROVE  References' = References
  <2>1. CASE shard_map' = shard_map
    BY <2>1 DEF References
  <2>2. QED
    BY <1>7, <2>1, ReferencesInit, ReferencesExit
       DEF Work, CountReference, FindTag, Get, Read, Measure, LoadCount,
           StoreCount, LoadNum, StoreNum, EnterInsert, Insert
<1>8. CASE CountReference(w)
  <2>1. /\ at[w] = "count" /\ at'[w] = "contains" /\ cur_inst_pc' = cur_inst_pc + 1
        /\ inst_dist_count' = inst_dist_count /\ reuse_inst_num' = reuse_inst_num
    BY <1>1, <1>8 DEF CountReference, Goto, LocalExact
  <2>2. References' = References
    BY <1>8 DEF CountReference, References
  <2> HIDE DEF n1, n2, n3, m1, m2, m3, miss
  <2>3. m1 = n1 - 1 /\ m2 = n2 /\ m3 = n3
    BY <1>2, <2>1 DEF Unseen, Unsized, Reusing
  <2>4. QED
    BY <1>1, <1>2, <1>3, <1>5, <2>1, <2>2, <2>3
<1>9. CASE StoreCount(w)
  <2>1. /\ at[w] = "store_count" /\ reg[w] = inst_dist_count[bin[w]]
        /\ at'[w] = IF bin[w] = MissBin THEN "insert" ELSE "load_num"
        /\ cur_inst_pc' = cur_inst_pc /\ reuse_inst_num' = reuse_inst_num
    BY <1>1, <1>9 DEF StoreCount, Goto, LocalExact
  <2>2. References' = References /\ Counted' = Counted + 1
    BY <1>9, <2>1, CountedStep DEF StoreCount, References
  <2>3. miss' = IF bin[w] = MissBin THEN miss + 1 ELSE miss
    BY <1>9, <2>1 DEF StoreCount, Shape, TypeOK
  <2> HIDE DEF n1, n2, n3, m1, m2, m3, miss
  <2>4. m1 = n1 /\ m2 = n2 - 1 /\ m3 = IF bin[w] = MissBin THEN n3 ELSE n3 + 1
    BY <1>2, <2>1 DEF Unseen, Unsized, Reusing
  <2>5. QED
    BY <1>1, <1>2, <1>3, <2>1, <2>2, <2>3, <2>4
<1>10. CASE StoreNum(w)
  <2>1. /\ at[w] = "store_num" /\ at'[w] = "insert" /\ cur_inst_pc' = cur_inst_pc
        /\ inst_dist_count' = inst_dist_count /\ reuse_inst_num' = reuse_inst_num + 1
    BY <1>1, <1>10 DEF StoreNum, Goto, LocalExact
  <2>2. References' = References
    BY <1>10 DEF StoreNum, References
  <2> HIDE DEF n1, n2, n3, m1, m2, m3, miss
  <2>3. m1 = n1 /\ m2 = n2 /\ m3 = n3 - 1
    BY <1>2, <2>1 DEF Unseen, Unsized, Reusing
  <2>4. QED
    BY <1>1, <1>2, <1>3, <1>5, <2>1, <2>2, <2>3
<1>11. CASE /\ UNCHANGED counts /\ References' = References
            /\ at[w] \in Unseen <=> at'[w] \in Unseen
            /\ at[w] \in Unsized <=> at'[w] \in Unsized
            /\ at[w] \in Reusing <=> at'[w] \in Reusing
  <2>1. cur_inst_pc' = cur_inst_pc /\ Counted' = Counted /\ miss' = miss
        /\ reuse_inst_num' = reuse_inst_num
    BY <1>5, <1>11 DEF counts
  <2> HIDE DEF n1, n2, n3, m1, m2, m3, miss
  <2>2. m1 = n1 /\ m2 = n2 /\ m3 = n3
    BY <1>2, <1>11
  <2>3. QED
    BY <1>3, <1>11, <2>1, <2>2
<1>12. ASSUME ShardInit(w) \/ FindTag(w) \/ Get(w) \/ Read(w) \/ Measure(w) \/ LoadCount(w)
              \/ LoadNum(w) \/ EnterInsert(w) \/ Insert(w) \/ ShardExit(w)
       PROVE  /\ UNCHANGED counts
              /\ at[w] \in Unseen <=> at'[w] \in Unseen
              /\ at[w] \in Unsized <=> at'[w] \in Unsized
              /\ at[w] \in Reusing <=> at'[w] \in Reusing
  <2>1. UNCHANGED counts
    BY <1>12 DEF ShardInit, FindTag, Get, Read, Measure, LoadCount, LoadNum, EnterInsert,
                 Insert, ShardExit
  <2>2. /\ at[w] \in Unseen <=> at'[w] \in Unseen
        /\ at[w] \in Unsized <=> at'[w] \in Unsized
        /\ at[w] \in Reusing <=> at'[w] \in Reusing
    BY <1>1, <1>12
       DEF Goto, Unseen, Unsized, Reusing, ShardInit, FindTag, Get, Read, Measure,
           LoadCount, LoadNum, EnterInsert, Insert, ShardExit
  <2>3. QED
    BY <2>1, <2>2
<1>13. QED
  <2>1. ASSUME ~\E a \in Addr : Begin(w, a)
        PROVE  Goal
    BY <1>7, <1>8, <1>9, <1>10, <1>11, <1>12, <2>1 DEF Work
  <2>2. QED
    BY <1>6, <2>1

\* A reference that begins while no other is in process finds everybody resting.
LEMMA StepAlone ==
    ASSUME Shape, Alone, NEW w \in Worker, Work(w), ~overlapped'
    PROVE  /\ ~overlapped
           /\ Alone'
           /\ ~ShardInit(w) /\ ~ShardExit(w) => \A v \in Worker : v # w => Resting(v)
<1>1. /\ at \in [Worker -> Labels] /\ overlapped \in BOOLEAN
      /\ \A v \in Worker : v # w => at'[v] = at[v]
  BY StepPlaces DEF Shape
<1>2. ASSUME NEW a \in Addr, Begin(w, a)
      PROVE  ~overlapped /\ \A v \in Worker : v # w => Resting(v)
  BY <1>1, <1>2 DEF Begin
<1>3. CASE ShardInit(w) \/ ShardExit(w)
  <2>1. Resting(w) /\ Resting(w)' /\ overlapped' = overlapped
    BY <1>1, <1>3 DEF ShardInit, ShardExit, Goto, Resting
  <2>2. QED
    BY <1>1, <1>3, <2>1 DEF Alone, Resting
<1>4. ASSUME CountReference(w) \/ FindTag(w) \/ Get(w) \/ Read(w) \/ Measure(w)
             \/ LoadCount(w) \/ StoreCount(w) \/ LoadNum(w) \/ StoreNum(w)
             \/ EnterInsert(w) \/ Insert(w)
      PROVE  ~overlapped /\ \A v \in Worker : v # w => Resting(v)
  <2>1. ~Resting(w) /\ overlapped' = overlapped
    BY <1>4
       DEF CountReference, FindTag, Get, Read, Measure, LoadCount, StoreCount, LoadNum,
           StoreNum, EnterInsert, Insert, Resting
  <2>2. QED
    BY <2>1 DEF Alone
<1>5. ASSUME \A v \in Worker : v # w => Resting(v)
      PROVE  Alone'
  BY <1>1, <1>5 DEF Alone, Resting
<1>6. QED
  BY <1>2, <1>3, <1>4, <1>5 DEF Work

\* What is stored stays behind cur_inst_pc.
LEMMA StepStoredExact ==
    ASSUME Shape, StoredExact, NEW w \in Worker, LocalExact(w), Work(w),
           ~ShardInit(w) /\ ~ShardExit(w) => \A v \in Worker : v # w => Resting(v)
    PROVE  StoredExact'
<1>1. /\ at \in [Worker -> Labels] /\ cur_inst_pc \in Nat
      /\ \A v \in Worker : v # w => at'[v] = at[v]
      /\ \A a \in DOMAIN stored : stored[a] \in Nat
  BY StepPlaces DEF Shape, TypeOK, CacheOK
<1>2. /\ \A v \in Worker : v \in In(Seen) <=> at[v] \in Seen
      /\ \A v \in Worker : v \in In(Seen)' <=> at'[v] \in Seen
      /\ In(Seen) \subseteq Worker /\ In(Seen)' \subseteq Worker
  BY DEF In
<1>3. CASE CountReference(w)
  <2>1. cur_inst_pc' = cur_inst_pc + 1 /\ stored' = stored
    BY <1>3 DEF CountReference, LocalExact, cache
  <2>2. QED
    BY <1>1, <2>1 DEF StoredExact
<1>4. CASE Insert(w)
  <2>1. at'[w] = "idle" /\ cur_inst_pc' = cur_inst_pc
    BY <1>1, <1>4 DEF Insert, Goto, counts
  <2>2. \A v \in Worker : v # w => Resting(v)
    BY <1>1, <1>4 DEF Insert, ShardInit, ShardExit
  <2>3. In(Seen)' = {}
    BY <1>1, <1>2, <2>1, <2>2 DEF Resting, Seen
  <2>4. \A a \in DOMAIN stored' :
          stored'[a] = cur_inst_pc \/ (a \in DOMAIN stored /\ stored'[a] = stored[a])
    BY <1>4, InsertKeeps
  <2>5. QED
    BY <1>1, <2>1, <2>3, <2>4 DEF StoredExact
<1>5. CASE cur_inst_pc' = cur_inst_pc /\ stored' = stored /\ (at'[w] \in Seen => at[w] \in Seen)
  <2>1. In(Seen)' # {} => In(Seen) # {}
    BY <1>1, <1>2, <1>5
  <2>2. QED
    BY <1>5, <2>1 DEF StoredExact
<1>6. ASSUME ~CountReference(w), ~Insert(w)
      PROVE  cur_inst_pc' = cur_inst_pc /\ stored' = stored /\ (at'[w] \in Seen => at[w] \in Seen)
  <2>1. stored' = stored
    BY <1>6, StepCache
  <2>2. cur_inst_pc' = cur_inst_pc
    BY <1>6
       DEF Work, counts, ShardInit, Begin, FindTag, Get, Read, Measure, LoadCount,
           StoreCount, LoadNum, StoreNum, EnterInsert, ShardExit
  <2>3. at'[w] \in Seen => at[w] \in Seen
    BY <1>1, <1>6
       DEF Work, Goto, Seen, Labels, ShardInit, Begin, FindTag, Get, Read, Measure,
           LoadCount, StoreCount, LoadNum, StoreNum, EnterInsert, ShardExit
  <2>4. QED
    BY <2>1, <2>2, <2>3
<1>7. QED
  BY <1>3, <1>4, <1>5, <1>6

\* The only worker with a reference in process finds its key, a distance that is
\* not 0, and in its register what it loaded.
LEMMA StepLocalExact ==
    ASSUME Shape, CountsExact, StoredExact, ~aborted, ~crashed, NEW w \in Worker, LocalExact(w), Work(w),
           ~ShardInit(w) /\ ~ShardExit(w) => \A v \in Worker : v # w => Resting(v)
    PROVE  LocalExact(w)' /\ ~aborted' /\ ~crashed'
<1>1. /\ at \in [Worker -> Labels] /\ reg \in [Worker -> Nat] /\ bin \in [Worker -> 0 .. MissBin]
      /\ cur_inst_pc \in Nat /\ lock \in Worker \cup {None}
      /\ \A v \in Worker : lock = v <=> at[v] = "inside"
      /\ \A a \in DOMAIN stored : stored[a] \in Nat
  BY DEF Shape, TypeOK, CacheOK
<1>2. CASE ShardInit(w) \/ ShardExit(w)
  <2>1. at'[w] \in {"idle", "done"} /\ UNCHANGED <<aborted, crashed>>
    BY <1>1, <1>2 DEF ShardInit, ShardExit, Goto, cache
  <2>2. QED
    BY <2>1 DEF LocalExact
<1>3. ASSUME NEW a \in Addr, Begin(w, a)
      PROVE  LocalExact(w)' /\ ~aborted' /\ ~crashed'
  <2>1. at'[w] = "count" /\ reg'[w] = cur_inst_pc' /\ UNCHANGED <<aborted, crashed>>
    BY <1>1, <1>3 DEF Begin, Goto, Load, counts, cache
  <2>2. QED
    BY <2>1 DEF LocalExact
<1>4. CASE FindTag(w)
  <2>1. ~Rehashing
    <3>1. at[w] = "contains" /\ \A v \in Worker : v # w => Resting(v)
      BY <1>4 DEF FindTag, ShardInit, ShardExit
    <3>2. \A v \in Worker : at[v] # "inside"
      BY <3>1 DEF Resting
    <3>3. QED
      BY <1>1, <3>2 DEF Rehashing
  <2>2. /\ UNCHANGED <<stored, tag, aborted, crashed>>
        /\ at'[w] = "load_count" \/ (at'[w] = "get" /\ tag[w] \in DOMAIN stored)
    BY <1>1, <1>4, <2>1 DEF FindTag, Goto, cache
  <2>3. QED
    BY <2>2 DEF LocalExact
<1>5. CASE Get(w)
  <2>1. tag[w] \in DOMAIN stored
    BY <1>5 DEF Get, LocalExact
  <2>2. Store!LookupPresent(tag[w], FALSE) /\ reg'[w] = result' /\ at'[w] = "read"
    BY <1>1, <1>5, <2>1 DEF Get, Store!LookupMissing, Goto, Load
  <2>3. reg'[w] = stored[tag[w]] /\ UNCHANGED <<stored, tag, aborted, crashed>>
    BY <1>5, <2>2 DEF Get, Store!LookupPresent
  <2>4. QED
    BY <2>1, <2>2, <2>3 DEF LocalExact
<1>6. CASE Read(w)
  <2>1. at[w] = "read" /\ tag[w] \in DOMAIN stored /\ stored[tag[w]] = reg[w]
    BY <1>6 DEF Read, LocalExact
  <2>2. /\ reg'[w] = reg[w] /\ at'[w] = "measure" /\ cur_inst_pc' = cur_inst_pc
        /\ UNCHANGED <<aborted, crashed>>
    BY <1>1, <1>6, <2>1 DEF Read, Load, Goto, counts, cache
  <2>3. In(Seen) # {}
    BY <2>1 DEF In, Seen, Labels
  <2>4. reg'[w] < cur_inst_pc'
    BY <2>1, <2>2, <2>3 DEF StoredExact
  <2>5. QED
    BY <2>2, <2>4 DEF LocalExact
<1>7. CASE Measure(w)
  <2>1. reg[w] < cur_inst_pc /\ reg[w] \in Nat
    BY <1>1, <1>7 DEF Measure, LocalExact
  <2>2. cur_inst_pc < Word /\ Word \in Nat
    <3>1. Cardinality(In(Unseen)) \in Nat
      BY StepMoves
    <3>2. References \in Nat /\ References < Word
      BY ReferencesType
    <3>3. cur_inst_pc <= References
      BY <1>1, <3>1, <3>2 DEF CountsExact
    <3>4. QED
      BY <1>1, <3>2, <3>3, LimitAssumption
  <2>3. Distance(w) # 0
    <3>1. \A m \in Nat, k \in Nat : m < k /\ 0 < m => m % k = m
      BY Z3
    <3>2. cur_inst_pc - reg[w] \in Nat /\ 0 < cur_inst_pc - reg[w] /\ cur_inst_pc - reg[w] < Word
      BY <1>1, <2>1, <2>2
    <3>3. QED
      BY <2>2, <3>1, <3>2 DEF Distance
  <2>4. at'[w] = "load_count" /\ UNCHANGED <<aborted, crashed>>
    BY <1>1, <1>7, <2>3 DEF Measure, Goto, cache
  <2>5. QED
    BY <2>4 DEF LocalExact
<1>8. CASE LoadCount(w)
  <2>1. /\ at'[w] = "store_count" /\ reg'[w] = inst_dist_count'[bin'[w]]
        /\ UNCHANGED <<aborted, crashed>>
    BY <1>1, <1>8 DEF LoadCount, Goto, Load, counts, cache
  <2>2. QED
    BY <2>1 DEF LocalExact
<1>9. CASE LoadNum(w)
  <2>1. /\ at'[w] = "store_num" /\ reg'[w] = reuse_inst_num'
        /\ UNCHANGED <<aborted, crashed>>
    BY <1>1, <1>9 DEF LoadNum, Goto, Load, counts, cache
  <2>2. QED
    BY <2>1 DEF LocalExact
<1>10. CASE CountReference(w) \/ StoreCount(w) \/ StoreNum(w) \/ EnterInsert(w) \/ Insert(w)
  <2>1. at'[w] \in {"contains", "insert", "load_num", "inside", "idle"}
    BY <1>1, <1>10 DEF CountReference, StoreCount, StoreNum, EnterInsert, Insert, Goto
  <2>2. UNCHANGED <<aborted, crashed>>
    BY <1>10, InsertKeeps
       DEF CountReference, StoreCount, StoreNum, EnterInsert, Insert, cache
  <2>3. QED
    BY <2>1, <2>2 DEF LocalExact
<1>11. QED
  BY <1>2, <1>3, <1>4, <1>5, <1>6, <1>7, <1>8, <1>9, <1>10 DEF Work

\* Every step of a worker keeps the exactness of serial processing.
LEMMA StepSerial ==
    ASSUME Shape, Serial, NEW w \in Worker, Work(w)
    PROVE  Serial'
<1>0. overlapped' \in BOOLEAN
  BY StepValues
<1>1. SUFFICES ASSUME ~overlapped'
               PROVE  /\ ~aborted' /\ ~crashed'
                      /\ Alone' /\ CountsExact' /\ StoredExact'
                      /\ \A v \in Worker : LocalExact(v)'
  BY DEF Serial
<1>2. ~overlapped
  BY <1>1 DEF Work, ShardInit, Begin, CountReference, FindTag, Get, Read, Measure, LoadCount,
              StoreCount, LoadNum, StoreNum, EnterInsert, Insert, ShardExit
<1>3. /\ ~aborted /\ ~crashed /\ Alone /\ CountsExact /\ StoredExact
      /\ \A v \in Worker : LocalExact(v)
  BY <1>2 DEF Serial
<1>4. /\ Alone'
      /\ ~ShardInit(w) /\ ~ShardExit(w) => \A v \in Worker : v # w => Resting(v)
  BY <1>1, <1>3, StepAlone
<1>5. StoredExact'
  BY <1>3, <1>4, StepStoredExact
<1>6. CountsExact'
  BY <1>3, StepCountsExact
<1>7. LocalExact(w)' /\ ~aborted' /\ ~crashed'
  BY <1>3, <1>4, StepLocalExact
<1>8. ASSUME NEW v \in Worker, v # w
      PROVE  LocalExact(v)'
  <2>1. at'[v] = at[v] /\ reg'[v] = reg[v] /\ tag'[v] = tag[v] /\ bin'[v] = bin[v]
    BY <1>8, StepPlaces, StepValues
  <2>2. CASE ShardInit(w) \/ ShardExit(w)
    <3>1. UNCHANGED <<cur_inst_pc, inst_dist_count, reuse_inst_num, stored>>
      BY <2>2 DEF ShardInit, ShardExit, counts, cache
    <3>2. QED
      BY <1>3, <2>1, <3>1 DEF LocalExact
  <2>3. CASE Resting(v)
    BY <2>1, <2>3 DEF LocalExact, Resting
  <2>4. QED
    BY <1>4, <1>8, <2>2, <2>3
<1>9. QED
  BY <1>4, <1>5, <1>6, <1>7, <1>8

\* In the beginning everything is exact.
LEMMA InitSerial == Init => Serial
<1> SUFFICES ASSUME Init
             PROVE  Serial
  OBVIOUS
<1>1. /\ Cardinality(In(Unseen)) = 0 /\ Cardinality(In(Unsized)) = 0
      /\ Cardinality(In(Reusing)) = 0
  BY InitCounts DEF Unseen, Unsized, Reusing
<1>2. /\ cur_inst_pc = 0 /\ reuse_inst_num = 0 /\ References = 0 /\ Counted = 0
      /\ inst_dist_count[MissBin] = 0 /\ DOMAIN stored = {}
  <2>1. MissBin \in 0 .. MissBin
    BY LimitAssumption DEF MissBin
  <2>2. inst_dist_count[MissBin] = 0
    BY <2>1 DEF Init
  <2>3. References = 0 /\ Counted = 0 /\ DOMAIN stored = {}
    BY InitCounts
  <2>4. QED
    BY <2>2, <2>3 DEF Init
<1>3. CountsExact /\ StoredExact
  BY <1>1, <1>2 DEF CountsExact, StoredExact
<1>4. ~aborted /\ ~crashed /\ \A w \in Worker : at[w] = "new"
  BY DEF Init, Store!Init
<1>5. QED
  BY <1>3, <1>4 DEF Serial, Alone, LocalExact, Resting

\* The same without a step.
LEMMA StutterSerial == Serial /\ UNCHANGED vars => Serial'
  BY DEF Serial, Alone, CountsExact, StoredExact, LocalExact, Resting, Counted, References, In,
         vars, counts, cache, locals

\* With nobody at work nothing is missing.
LEMMA SerialImplies == Shape /\ Serial => SerialExact
<1> SUFFICES ASSUME Shape, Serial, ~overlapped
             PROVE  /\ ~aborted /\ ~crashed
                    /\ Quiet => /\ cur_inst_pc = References
                                /\ Counted = References
                                /\ Counted - inst_dist_count[MissBin] = reuse_inst_num
  BY DEF SerialExact
<1>1. ~aborted /\ ~crashed /\ CountsExact
  BY DEF Serial
<1>2. ASSUME Quiet
      PROVE  /\ cur_inst_pc = References
             /\ Counted = References
             /\ Counted - inst_dist_count[MissBin] = reuse_inst_num
  <2>1. In(Unseen) = {} /\ In(Unsized) = {} /\ In(Reusing) = {}
    BY <1>2 DEF Quiet, Resting, In, Unseen, Unsized, Reusing
  <2>2. /\ cur_inst_pc + 0 = References /\ Counted + 0 = References
        /\ Counted = inst_dist_count[MissBin] + reuse_inst_num + 0
    BY <1>1, <2>1, FS_EmptySet DEF CountsExact
  <2>3. /\ cur_inst_pc \in Nat /\ Counted \in Nat /\ reuse_inst_num \in Nat
        /\ inst_dist_count[MissBin] \in Nat
    BY CountedType, LimitAssumption DEF Shape, TypeOK, MissBin
  <2>4. QED
    BY <2>2, <2>3
<1>3. QED
  BY <1>1, <1>2

-----------------------------------------------------------------------------

\* The invariants are kept by every step of the specification.
LEMMA StepAll ==
    Shape /\ Losses /\ Capacity /\ Serial /\ [Next]_vars
      => (Shape /\ Losses /\ Capacity /\ Serial)'
<1> SUFFICES ASSUME Shape, Losses, Capacity, Serial, [Next]_vars
             PROVE  (Shape /\ Losses /\ Capacity /\ Serial)'
  OBVIOUS
<1>1. ASSUME NEW w \in Worker, Work(w)
      PROVE  (Shape /\ Losses /\ Capacity /\ Serial)'
  BY <1>1, StepShape, StepLosses, StepCapacity, StepSerial
<1>2. CASE UNCHANGED vars
  BY <1>2, StutterShape, StutterLosses, StutterCapacity, StutterSerial
<1>3. QED
  BY <1>1, <1>2 DEF Next

\* Everything the workers share and hold keeps its type, and the lock is held by
\* exactly the worker inside insert(), for any number of workers (lines 320-416).
THEOREM ShardsTypeOK == Spec => []TypeOK
<1>1. Init => Shape
  BY InitShape
<1>2. Shape /\ [Next]_vars => Shape'
  BY StepShape, StutterShape DEF Next
<1>3. Shape => TypeOK
  BY DEF Shape
<1>4. QED
  BY <1>1, <1>2, <1>3, PTL DEF Spec

\* Whatever the number of workers and however their steps interleave, no global
\* counter exceeds the number of references the shards have seen, and neither
\* does the sum of the histogram (lines 398, 411-414).
THEOREM ShardsNeverOvercounted == Spec => []NeverOvercounted
<1>1. Init => Shape /\ Losses /\ Capacity /\ Serial
  BY InitShape, InitLosses, InitCapacity, InitSerial
<1>2. Shape /\ Losses => NeverOvercounted
  BY LossesImplies
<1>3. QED
  BY <1>1, <1>2, StepAll, PTL DEF Spec

\* get() aborts the process only when the program uses more addresses than the
\* cache may hold, whatever the number of workers (lines 399-400).
THEOREM ShardsKeptWithinCapacity == Spec => []KeptWithinCapacity
<1>1. Init => Shape /\ Losses /\ Capacity /\ Serial
  BY InitShape, InitLosses, InitCapacity, InitSerial
<1>2. Shape /\ Capacity => KeptWithinCapacity
  BY CapacityImplies
<1>3. QED
  BY <1>1, <1>2, StepAll, PTL DEF Spec

\* As long as no two references are in process at once, any number of workers
\* counts every one of them exactly, finds every key and measures no distance
\* of 0 (lines 320-336, 398-416).
THEOREM ShardsSerialExact == Spec => []SerialExact
<1>1. Init => Shape /\ Losses /\ Capacity /\ Serial
  BY InitShape, InitLosses, InitCapacity, InitSerial
<1>2. Shape /\ Serial => SerialExact
  BY SerialImplies
<1>3. QED
  BY <1>1, <1>2, StepAll, PTL DEF Spec

=============================================================================
