--------------------------- MODULE ParallelShards ---------------------------
(***************************************************************************)
(* The instruction reuse-distance tool in parallel operation.  Each shard  *)
(* of the trace is processed by one worker thread, which calls             *)
(* parallel_shard_init, then parallel_shard_memref for each record and at  *)
(* last parallel_shard_exit.  The data of the shard is the worker's own    *)
(* (StackDistance); the globals are shared and not locked; lru_cache locks *)
(* itself in insert and get but not in contains (LRUStore).                *)
(*                                                                         *)
(* An increment of a global is a load and a store.  Where the program      *)
(* races on memory that is being changed or was freed, the outcomes are    *)
(* those the containers can produce (FindTag, Read).  The sum and the     *)
(* squares of the distances are in ParallelSums.                           *)
(***************************************************************************)
EXTENDS StackDistance

CONSTANTS Worker,      \* the workers, one per shard
          Addr,        \* addresses of instructions
          STEP,        \* INST_DIST_STEP
          LruMax,      \* LRU_CACHE_MAX_SIZE
          Elasticity,  \* the second argument of lru_cache
          Word,        \* 2^64
          MaxLen,      \* bound on the references of a shard
          None,        \* no worker
          Void, Missing, Found    \* what calls of the cache return

ASSUME WorkerAssumption == IsFiniteSet(Worker) /\ None \notin Worker
ASSUME AddrAssumption == IsFiniteSet(Addr) /\ Addr # {}    \* addresses are words
ASSUME LimitAssumption ==
    STEP \in Nat /\ LruMax \in Nat /\ Elasticity \in Nat /\ Word \in Nat \ {0}

\* The references of all the shards together are fewer than 2^64.
ASSUME LengthAssumption == MaxLen \in Nat /\ Cardinality(Worker) * MaxLen < Word

VARIABLES cur_inst_pc, inst_dist_count, reuse_inst_num,  \* the globals
          recent, stored, result, aborted,               \* lru_cache
          lock,         \* the worker inside insert, or None
          shard_map,    \* worker -> its shard, once made
          at,           \* where each worker is
          tag,          \* the address of its reference
          reg,          \* the value it loaded last
          bin,          \* the counter it increments
          crashed,      \* the process was killed by an invalid access
          overlapped    \* history: two references were processed at once

Store == INSTANCE LRUStore WITH Key <- Addr, Value <- Nat, MaxSize <- LruMax

counts == <<cur_inst_pc, inst_dist_count, reuse_inst_num>>
cache  == <<recent, stored, result, aborted, lock>>
locals == <<at, tag, reg, bin>>
vars   == <<counts, cache, shard_map, locals, crashed, overlapped>>

-----------------------------------------------------------------------------

\* The counter of a distance: min(int(log2(dist)), INST_DIST_STEP).
Bin(dist) == Cardinality({i \in 1..STEP : 2^i <= dist})

MissBin == STEP + 1

Goto(w, label) == at' = [at EXCEPT ![w] = label]
Load(w, value) == reg' = [reg EXCEPT ![w] = value]

Resting(w) == at[w] \in {"new", "idle", "done"}

Init ==
    /\ cur_inst_pc = 0
    /\ inst_dist_count = [b \in 0..MissBin |-> 0]
    /\ reuse_inst_num = 0
    /\ Store!Init
    /\ lock = None
    /\ shard_map = <<>>
    /\ at = [w \in Worker |-> "new"]
    /\ tag = [w \in Worker |-> CHOOSE a \in Addr : TRUE]
    /\ reg = [w \in Worker |-> 0]
    /\ bin = [w \in Worker |-> 0]
    /\ crashed = FALSE
    /\ overlapped = FALSE

\* Faulty: the statements behind the return are executed.
ShardInitResets(w) ==
    /\ at[w] = "new"
    /\ shard_map' = [v \in DOMAIN shard_map \cup {w} |->
                       IF v = w THEN EmptyShard ELSE shard_map[v]]
    /\ Store!Clear
    /\ cur_inst_pc' = 0
    /\ inst_dist_count' = [b \in 0..MissBin |-> 0]
    /\ Goto(w, "idle")
    /\ UNCHANGED <<reuse_inst_num, lock, tag, reg, bin, crashed, overlapped>>

\* parallel_shard_init: the shard is entered under shard_map_mutex_.  What
\* follows the return is never executed.
ShardInit(w) ==
    /\ at[w] = "new"
    /\ shard_map' = [v \in DOMAIN shard_map \cup {w} |->
                       IF v = w THEN EmptyShard ELSE shard_map[v]]
    /\ Goto(w, "idle")
    /\ UNCHANGED <<counts, cache, tag, reg, bin, crashed, overlapped>>

\* A record of an instruction: the shard is updated and cur_inst_pc loaded.
Begin(w, address) ==
    /\ at[w] = "idle"
    /\ shard_map[w].total_refs < MaxLen
    /\ shard_map' = [shard_map EXCEPT ![w] = Touch(@, address)]
    /\ tag' = [tag EXCEPT ![w] = address]
    /\ Load(w, cur_inst_pc)
    /\ overlapped' = (overlapped \/ \E v \in Worker \ {w} : ~Resting(v))
    /\ Goto(w, "count")
    /\ UNCHANGED <<counts, cache, bin, crashed>>

CountReference(w) ==
    /\ at[w] = "count"
    /\ cur_inst_pc' = reg[w] + 1
    /\ Goto(w, "contains")
    /\ UNCHANGED <<inst_dist_count, reuse_inst_num, cache, shard_map, tag, reg,
                   bin, crashed, overlapped>>

\* Some worker is inserting a new key, which changes the hash map.  An insert of
\* a key the cache holds leaves it as it is.
Rehashing == lock # None /\ tag[lock] \notin DOMAIN stored

\* contains() takes no lock.  While the hash map is changed, find may miss a
\* key, meet the one being inserted, or run into invalid memory.
FindTag(w) ==
    /\ at[w] = "contains"
    /\ \/ /\ tag[w] \in DOMAIN stored \/ (Rehashing /\ tag[lock] = tag[w])
          /\ Goto(w, "get")
          /\ UNCHANGED <<bin, crashed>>
       \/ /\ tag[w] \notin DOMAIN stored \/ Rehashing
          /\ Goto(w, "load_count")
          /\ bin' = [bin EXCEPT ![w] = MissBin]
          /\ UNCHANGED crashed
       \/ /\ Rehashing
          /\ crashed' = TRUE
          /\ UNCHANGED <<at, bin>>
    /\ UNCHANGED <<counts, cache, shard_map, tag, reg, overlapped>>

\* get(tag, false), which waits for the lock and aborts when the key is gone.
Get(w) ==
    /\ at[w] = "get"
    /\ lock = None
    /\ \/ /\ Store!LookupPresent(tag[w], FALSE)
          /\ Load(w, result')
          /\ Goto(w, "read")
       \/ /\ Store!LookupMissing(tag[w])
          /\ aborted'
          /\ UNCHANGED <<reg, at>>
    /\ UNCHANGED <<counts, lock, shard_map, tag, bin, crashed, overlapped>>

\* prev_inst_pc: the reference that get() returned is read without the lock.  If
\* the node was freed meanwhile, its memory may hold another pair.
Read(w) ==
    /\ at[w] = "read"
    /\ LET live == tag[w] \in DOMAIN stored /\ stored[tag[w]] = reg[w]
       IN  \E prev \in {reg[w]} \cup (IF live THEN {} ELSE Range(stored)) :
             Load(w, prev)
    /\ Goto(w, "measure")
    /\ UNCHANGED <<counts, cache, shard_map, tag, bin, crashed, overlapped>>

\* reuse_dist, an unsigned difference.
Distance(w) == (cur_inst_pc - reg[w]) % Word

\* The index made of the logarithm of 0 lies far outside the counters.
Measure(w) ==
    /\ at[w] = "measure"
    /\ IF Distance(w) = 0
         THEN /\ crashed' = TRUE
              /\ UNCHANGED <<at, bin>>
         ELSE /\ bin' = [bin EXCEPT ![w] = Bin(Distance(w))]
              /\ Goto(w, "load_count")
              /\ UNCHANGED crashed
    /\ UNCHANGED <<counts, cache, shard_map, tag, reg, overlapped>>

LoadCount(w) ==
    /\ at[w] = "load_count"
    /\ Load(w, inst_dist_count[bin[w]])
    /\ Goto(w, "store_count")
    /\ UNCHANGED <<counts, cache, shard_map, tag, bin, crashed, overlapped>>

StoreCount(w) ==
    /\ at[w] = "store_count"
    /\ inst_dist_count' = [inst_dist_count EXCEPT ![bin[w]] = reg[w] + 1]
    /\ Goto(w, IF bin[w] = MissBin THEN "insert" ELSE "load_num")
    /\ UNCHANGED <<cur_inst_pc, reuse_inst_num, cache, shard_map, tag, reg, bin,
                   crashed, overlapped>>

LoadNum(w) ==
    /\ at[w] = "load_num"
    /\ Load(w, reuse_inst_num)
    /\ Goto(w, "store_num")
    /\ UNCHANGED <<counts, cache, shard_map, tag, bin, crashed, overlapped>>

StoreNum(w) ==
    /\ at[w] = "store_num"
    /\ reuse_inst_num' = reg[w] + 1
    /\ Goto(w, "insert")
    /\ UNCHANGED <<cur_inst_pc, inst_dist_count, cache, shard_map, tag, reg, bin,
                   crashed, overlapped>>

\* insert(tag, cur_inst_pc): the lock is taken, and cur_inst_pc, which is passed
\* by reference, is read when the pair is made.
EnterInsert(w) ==
    /\ at[w] = "insert"
    /\ lock = None
    /\ lock' = w
    /\ Goto(w, "inside")
    /\ UNCHANGED <<counts, recent, stored, result, aborted, shard_map, tag, reg,
                   bin, crashed, overlapped>>

\* Faulty: the scope that unlocks is missing.
InsertLocked(w) ==
    /\ at[w] = "inside"
    /\ \/ Store!StorePresent(tag[w], cur_inst_pc)
       \/ Store!StoreNew(tag[w], cur_inst_pc)
    /\ Goto(w, "idle")
    /\ UNCHANGED <<counts, lock, shard_map, tag, reg, bin, crashed, overlapped>>

Insert(w) ==
    /\ at[w] = "inside"
    /\ \/ Store!StorePresent(tag[w], cur_inst_pc)
       \/ Store!StoreNew(tag[w], cur_inst_pc)
    /\ lock' = None
    /\ Goto(w, "idle")
    /\ UNCHANGED <<counts, shard_map, tag, reg, bin, crashed, overlapped>>

\* Faulty: the exit record is counted like a reference.
ShardExitCounted(w) ==
    /\ at[w] = "idle"
    /\ shard_map' = [shard_map EXCEPT ![w].tid = w]
    /\ cur_inst_pc' = cur_inst_pc + 1
    /\ Goto(w, "done")
    /\ UNCHANGED <<inst_dist_count, reuse_inst_num, cache, tag, reg, bin, crashed,
                   overlapped>>

\* The exit record of the thread, and parallel_shard_exit.
ShardExit(w) ==
    /\ at[w] = "idle"
    /\ shard_map' = [shard_map EXCEPT ![w].tid = w]
    /\ Goto(w, "done")
    /\ UNCHANGED <<counts, cache, tag, reg, bin, crashed, overlapped>>

Work(w) ==
    /\ ~aborted
    /\ ~crashed
    /\ \/ ShardInit(w)
       \/ \E address \in Addr : Begin(w, address)
       \/ CountReference(w)
       \/ FindTag(w)
       \/ Get(w)
       \/ Read(w)
       \/ Measure(w)
       \/ LoadCount(w)
       \/ StoreCount(w)
       \/ LoadNum(w)
       \/ StoreNum(w)
       \/ EnterInsert(w)
       \/ Insert(w)
       \/ ShardExit(w)

Next == \E w \in Worker : Work(w)

\* Every worker thread that can run is scheduled again.
Spec == Init /\ [][Next]_vars /\ \A w \in Worker : WF_vars(Work(w))

-----------------------------------------------------------------------------

References == SumFunction([w \in DOMAIN shard_map |-> shard_map[w].total_refs])
Counted == SumFunction(inst_dist_count)
Quiet == \A w \in Worker : Resting(w)
Used == UNION {DOMAIN shard_map[w].cache_map : w \in DOMAIN shard_map}

\* Every variable has its type, and only an inserting worker holds the lock.
TypeOK ==
    /\ cur_inst_pc \in Nat
    /\ inst_dist_count \in [0..MissBin -> Nat]
    /\ reuse_inst_num \in Nat
    /\ ToSet(recent) = DOMAIN stored
    /\ DOMAIN stored \subseteq Addr
    /\ aborted \in BOOLEAN
    /\ lock \in Worker \cup {None}
    /\ \A w \in Worker : lock = w <=> at[w] = "inside"
    /\ DOMAIN shard_map = {w \in Worker : at[w] # "new"}
    /\ tag \in [Worker -> Addr]
    /\ reg \in [Worker -> Nat]
    /\ bin \in [Worker -> 0..MissBin]
    /\ crashed \in BOOLEAN

\* Shards that are processed one after the other, on any workers, are counted
\* exactly: nothing is lost, no distance is 0, no key is missing, and the
\* globals continue from shard to shard (lines 320-336, 398-416).
SerialExact ==
    ~overlapped =>
        /\ ~aborted /\ ~crashed
        /\ Quiet => /\ cur_inst_pc = References
                    /\ Counted = References
                    /\ Counted - inst_dist_count[MissBin] = reuse_inst_num

\* Whatever the interleaving, races only lose: no counter ever exceeds the
\* number of references the shards have seen (lines 398, 411-414).
NeverOvercounted ==
    /\ cur_inst_pc <= References
    /\ Counted <= References
    /\ reuse_inst_num <= References
    /\ \A a \in DOMAIN stored : stored[a] <= References

\* get() does not miss a key that contains() saw as long as the program uses no
\* more addresses than the cache is allowed to hold: only a prune can take the
\* key away in between (lines 399-400).
KeptWithinCapacity == aborted => Cardinality(Used) > LruMax

\* Every worker comes to the end of its shard unless the process dies: nobody
\* waits for the lock of the cache for ever.
EventuallyOver ==
    <>(aborted \/ crashed \/ \A w \in Worker : at[w] = "done")

-----------------------------------------------------------------------------
(* What the source says and parallel operation does not keep.              *)

\* The shortest distance that is reported is 1: "[%8lu, %8lu)" starts at it
\* (lines 519-522).
DistancePositive == \A w \in Worker : at[w] = "measure" => Distance(w) # 0

=============================================================================
