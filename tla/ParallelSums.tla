---------------------------- MODULE ParallelSums -----------------------------
(***************************************************************************)
(* The sum and the squares of the reuse distances when several workers add *)
(* to them at once (the counters beside them are in ParallelShards).       *)
(* Nothing is locked: each use of loc_id and of a bank is a load or a      *)
(* store, and the compiler may read loc_id again or keep what it read; the *)
(* sum of squares is 128 bits wide and added to in two words, with the     *)
(* loads and stores of the words in one of two orders.                     *)
(***************************************************************************)
EXTENDS Integers, FiniteSets, FiniteSetsExt, Functions

CONSTANTS Worker, Dist,   \* the distances that are found
          Word,           \* 2^64
          MaxLen          \* bound on the reuses of a worker

ASSUME WorkerAssumption == IsFiniteSet(Worker)
ASSUME WordAssumption == Word \in Nat /\ \E half \in 1 .. Word : Word = 2 * half
ASSUME LengthAssumption == MaxLen \in Nat
\* A distance is what the unsigned subtraction of instance:401 leaves.  A worker
\* that lost an increment of cur_inst_pc finds 0, or a word near 2^64.
ASSUME DistAssumption == Dist \subseteq 0 .. Word - 1

VARIABLES loc_id, reuse_dist_sum,   \* the bank in use and the banks
          low, high,                \* the two words of reuse_dist_ssum
          at, dist,                 \* where each worker is, with which distance
          loc, reg, words,          \* its registers: index, bank, words
          started,                  \* history: reuses begun by each worker
          added, squared,           \* history: their sums
          astray,                   \* history: the workers whose reuse shares its time
                                    \* with another or is of more than INT64_MAX
          clean, excess             \* history: whether there was no such reuse, and the
                                    \* distances that such reuses put into banks

sums   == <<loc_id, reuse_dist_sum>>
ssum   == <<low, high>>
regs   == <<loc, reg, words>>
past   == <<started, added, squared, astray, clean, excess>>
vars   == <<sums, ssum, at, dist, regs, past>>

IntMax == Word \div 2 - 1     \* INT64_MAX
Bank == 0..Cardinality(Worker) * MaxLen
Square(d) == (d * d) % Word
Goto(w, label) == at' = [at EXCEPT ![w] = label]
\* Which index a worker uses: the one in its register or a new reading.
Index(w) == {loc[w], loc_id}

Init ==
  /\ loc_id = 0 /\ reuse_dist_sum = [b \in Bank |-> 0] /\ low = 0 /\ high = 0
  /\ at = [w \in Worker |-> "idle"] /\ dist = [w \in Worker |-> 0]
  /\ loc = [w \in Worker |-> 0] /\ reg = [w \in Worker |-> 0] /\ words = [w \in Worker |-> <<0, 0>>]
  /\ started = [w \in Worker |-> 0] /\ added = 0 /\ squared = 0
  /\ astray = {} /\ clean = TRUE /\ excess = 0

Begin(w) ==
  /\ at[w] = "idle" /\ started[w] < MaxLen
  /\ \E d \in Dist : /\ dist' = [dist EXCEPT ![w] = d]
                     /\ added' = added + d /\ squared' = squared + Square(d)
  /\ loc' = [loc EXCEPT ![w] = loc_id]
  /\ started' = [started EXCEPT ![w] = @ + 1]
  /\ LET others == {v \in Worker \ {w} : at[v] # "idle"}
     IN  astray' = astray \cup IF others # {} THEN others \cup {w}
                               ELSE IF dist'[w] > IntMax THEN {w} ELSE {}
  /\ clean' = (clean /\ astray' = {})
  /\ Goto(w, "check") /\ UNCHANGED <<sums, ssum, reg, words, excess>>

\* Faulty: the bank is never left.
CheckNever(w) ==
  /\ at[w] = "check" /\ Goto(w, "load") /\ UNCHANGED <<sums, ssum, dist, regs, past>>

Check(w) ==
  /\ at[w] = "check"
  /\ Goto(w, IF (reuse_dist_sum[loc[w]] + dist[w]) % Word > IntMax THEN "reload" ELSE "load")
  /\ UNCHANGED <<sums, ssum, dist, regs, past>>

Reload(w) ==
  /\ at[w] = "reload" /\ \E i \in Index(w) : loc' = [loc EXCEPT ![w] = i]
  /\ Goto(w, "leave") /\ UNCHANGED <<sums, ssum, dist, reg, words, past>>

LeaveBank(w) ==
  /\ at[w] = "leave" /\ loc_id' = loc[w] + 1 /\ loc' = [loc EXCEPT ![w] = @ + 1]
  /\ Goto(w, "inspect") /\ UNCHANGED <<reuse_dist_sum, ssum, dist, reg, words, past>>

\* The bank it moves to is set to zero if it is not.
InspectBank(w) ==
  /\ at[w] = "inspect"
  /\ \E i \in Index(w) : /\ loc' = [loc EXCEPT ![w] = i]
                         /\ Goto(w, IF reuse_dist_sum[i] # 0 THEN "clear" ELSE "load")
  /\ UNCHANGED <<sums, ssum, dist, reg, words, past>>

ClearBank(w) ==
  /\ at[w] = "clear"
  /\ \E i \in Index(w) : /\ loc' = [loc EXCEPT ![w] = i]
                         /\ reuse_dist_sum' = [reuse_dist_sum EXCEPT ![i] = 0]
  /\ Goto(w, "load") /\ UNCHANGED <<loc_id, ssum, dist, reg, words, past>>

LoadBank(w) ==
  /\ at[w] = "load"
  /\ \E i \in Index(w) : /\ loc' = [loc EXCEPT ![w] = i]
                         /\ reg' = [reg EXCEPT ![w] = reuse_dist_sum[i]]
  /\ Goto(w, "store") /\ UNCHANGED <<sums, ssum, dist, words, past>>

Spend(w) == excess' = excess + (IF w \in astray THEN dist[w] ELSE 0)

\* Faulty: the distance itself is counted as well, as the shards do.
StoreBankMore(w) ==
  /\ at[w] = "store"
  /\ reuse_dist_sum' = [reuse_dist_sum EXCEPT ![loc[w]] = (reg[w] + dist[w] + 1) % Word]
  /\ Spend(w) /\ Goto(w, "load_low")
  /\ UNCHANGED <<loc_id, ssum, dist, regs, started, added, squared, astray, clean>>

StoreBank(w) ==
  /\ at[w] = "store"
  /\ reuse_dist_sum' = [reuse_dist_sum EXCEPT ![loc[w]] = (reg[w] + dist[w]) % Word]
  /\ Spend(w) /\ Goto(w, "load_low")
  /\ UNCHANGED <<loc_id, ssum, dist, regs, started, added, squared, astray, clean>>

\* Faulty: what does not fit the low word is lost, always carried, or not
\* divided by the size of a word.
CarryLost(w) == 0
CarryAlways(w) == 1
CarryWhole(w) == words[w][1] + Square(dist[w])

Carry(w) == (words[w][1] + Square(dist[w])) \div Word

LoadLow(w) ==
  /\ at[w] = "load_low" /\ words' = [words EXCEPT ![w][1] = low]
  /\ \E label \in {"store_low", "load_both"} : Goto(w, label)
  /\ UNCHANGED <<sums, ssum, dist, loc, reg, past>>

LoadHigh(w) ==
  /\ at[w] \in {"load_high", "load_both"} /\ words' = [words EXCEPT ![w][2] = high]
  /\ Goto(w, IF at[w] = "load_both" THEN "store_both" ELSE "store_high")
  /\ UNCHANGED <<sums, ssum, dist, loc, reg, past>>

StoreLow(w) ==
  /\ at[w] \in {"store_low", "store_both"} /\ low' = (words[w][1] + Square(dist[w])) % Word
  /\ Goto(w, IF at[w] = "store_both" THEN "store_high" ELSE "load_high")
  /\ UNCHANGED <<sums, high, dist, regs, past>>

StoreHigh(w) ==
  /\ at[w] = "store_high" /\ high' = words[w][2] + Carry(w)
  /\ astray' = astray \ {w}
  /\ Goto(w, "idle") /\ UNCHANGED <<sums, low, dist, regs, started, added, squared, clean, excess>>

Work(w) == \/ Begin(w) \/ Check(w) \/ Reload(w) \/ LeaveBank(w) \/ InspectBank(w) \/ ClearBank(w)
           \/ LoadBank(w) \/ StoreBank(w) \/ LoadLow(w) \/ LoadHigh(w) \/ StoreLow(w) \/ StoreHigh(w)
Next == \E w \in Worker : Work(w)
Spec == Init /\ [][Next]_vars

-----------------------------------------------------------------------------

Begun == SumFunction(started)
Total == SumFunction(reuse_dist_sum)
Squares == high * Word + low
Quiet == \A w \in Worker : at[w] = "idle"

\* Banks and words stay in their range: a reuse moves loc_id and the high word on
\* by at most one.
TypeOK ==
  /\ loc_id \in 0..Begun /\ \A w \in Worker : loc[w] \in Bank
  /\ reuse_dist_sum \in [Bank -> 0..Word - 1]
  /\ low \in 0..Word - 1 /\ high \in 0..Begun

\* As long as no two reuses are added at once and no distance exceeds INT64_MAX,
\* sum and squares are exact, no bank exceeds INT64_MAX and the report, which
\* stops at loc_id, leaves out no bank (instance:402-409, 532-534).
SumsSerialExact ==
  clean /\ Quiet =>
     /\ Total = added /\ Squares = squared
     /\ \A b \in Bank : reuse_dist_sum[b] <= IntMax /\ (b > loc_id => reuse_dist_sum[b] = 0)

\* Whatever the distances and the races, the banks together hold no more than the
\* distances that were found: none is in two banks, and clearing a bank loses
\* what it held (instance:403-408).  This is about the numerator of the printed
\* mean; its divisor loses increments of its own (instance:412, ParallelShards).
SumNeverOverstated == Total <= added

\* The comparison with INT64_MAX and the addition are apart, and the addition may
\* be to another bank than was compared.  What a bank holds in excess of INT64_MAX
\* was added by reuses that shared their time with another, or whose distance by
\* itself is more than that, even when loc_id goes back to a bank that is full
\* (instance:401-408).
BankOvershoot == \A b \in Bank : reuse_dist_sum[b] <= IntMax + excess

\* The squares can come out too large: a worker may add its carry to a high word
\* that holds the carry of another worker, whose low word it has overwritten.
\* Each reuse but the first can do so once (instance:409).
SquaresWithinCarries == Squares <= squared + Word * Max({Begun - 1, 0})
=============================================================================
