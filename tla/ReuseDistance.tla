---------------------------- MODULE ReuseDistance ---------------------------
(***************************************************************************)
(* A reuse-distance tool in serial operation: process_memref is called for *)
(* one trace record after the other, whatever its thread, and              *)
(* print_results at the end.  A reference that counts goes to the shard of *)
(* its thread (StackDistance) and to the globals (TimeDistance).  The data *)
(* and the instruction tool differ in the records that count; lines named  *)
(* below are those of the data tool.                                       *)
(***************************************************************************)
EXTENDS StackDistance, ReportOrder, TimeDistance

CONSTANTS Tid,            \* thread ids
          ReportTop,      \* knobs_.report_top
          Tool            \* "data" or "instance"

\* Addresses are numbers, which the lists of the report compare.
ASSUME ReuseAssumption ==
    /\ Addr \subseteq Int
    /\ ReportTop \in Nat

VARIABLES by,           \* history: the thread of each reference in trace
          shard_map,    \* tid -> shard
          outcome,      \* of the tool
          report        \* what print_results shows of the shards

vars == <<globals, by, shard_map, outcome, report>>

Running == "running"
Printed == "printed"
Killed  == "killed"

NoReport == [aggregate |-> EmptyShard, sections |-> <<>>, frequent |-> <<>>, distant |-> <<>>]

\* The records the data tool counts are reads, writes and prefetches, those of
\* instructions included; the instruction tool counts what was fetched.
DataKind  == {"read", "write", "prefetch"}
InstrKind == {"instr"}
Counted == IF Tool = "data" THEN DataKind ELSE InstrKind
OtherKind == (DataKind \cup InstrKind \cup {"marker"}) \ Counted

-----------------------------------------------------------------------------

Init ==
    /\ TimeInit
    /\ by = <<>>
    /\ shard_map = <<>>
    /\ outcome = Running
    /\ report = NoReport

\* Faulty: every record makes a new shard.
ShardAnew(tid) == EmptyShard

\* process_memref looks the shard up by thread id and makes it if need be,
\* whatever the kind of the record.
Shard(tid) == IF tid \in DOMAIN shard_map THEN shard_map[tid] ELSE EmptyShard

SetShard(tid, shard) ==
    shard_map' = [t \in DOMAIN shard_map \cup {tid} |->
                    IF t = tid THEN shard ELSE shard_map[t]]

CountedReference(tid, tag) ==
    /\ SetShard(tid, Touch(Shard(tid), tag))
    /\ Reference(tag)
    /\ by' = Append(by, tid)
    /\ UNCHANGED <<outcome, report>>

\* Faulty: the shard is told its number instead of its thread.
ThreadExitNumbered(tid) ==
    /\ SetShard(tid, [Shard(tid) EXCEPT !.tid = Cardinality(DOMAIN shard_map)])
    /\ UNCHANGED <<globals, by, outcome, report>>

ThreadExit(tid) ==
    /\ SetShard(tid, [Shard(tid) EXCEPT !.tid = tid])
    /\ UNCHANGED <<globals, by, outcome, report>>

OtherRecord(tid) ==
    /\ SetShard(tid, Shard(tid))
    /\ UNCHANGED <<globals, by, outcome, report>>

ProcessMemref(tid, kind, tag) ==
    \/ kind \in Counted /\ CountedReference(tid, tag)
    \/ kind = "exit" /\ ThreadExit(tid)
    \/ kind \in OtherKind /\ OtherRecord(tid)

\* Each report divides by reuse_inst_num as an integer.  When that is 0 the
\* process may be killed in the first of them.
PrintResults ==
    \/ /\ outcome' = Printed
       /\ \E order \in IF Cardinality(DOMAIN shard_map) > 1
                         THEN Sorted(shard_map) ELSE {<<>>} :
          \E frequent \in FrequentLists(Merge(shard_map).cache_map, ReportTop),
             distant \in DistantLists(Merge(shard_map).cache_map, ReportTop) :
            report' = [aggregate |-> Merge(shard_map), sections |-> order,
                       frequent |-> frequent, distant |-> distant]
       /\ UNCHANGED <<globals, by, shard_map>>
    \/ /\ reuse_inst_num = 0
       /\ outcome' = Killed
       /\ UNCHANGED <<globals, by, shard_map, report>>

Next ==
    /\ outcome = Running
    /\ \/ \E tid \in Tid, kind \in Counted \cup OtherKind \cup {"exit"}, tag \in Addr :
            ProcessMemref(tid, kind, tag)
       \/ PrintResults

Spec == Init /\ [][Next]_vars

-----------------------------------------------------------------------------
(* What the trace says of a thread.                                        *)

\* The position of the last use of the address at position i by its own thread.
OwnLastUse(i) ==
    Max({0} \cup {j \in 1..i - 1 : trace[j] = trace[i] /\ by[j] = by[i]})

\* How many other addresses the thread used since.
OwnDistance(i) ==
    Cardinality({trace[j] : j \in {k \in OwnLastUse(i) + 1 .. i - 1 : by[k] = by[i]}})

ReusesAt(tid, d) ==
    {i \in DOMAIN trace :
        by[i] = tid /\ OwnLastUse(i) > 0 /\ OwnDistance(i) = d}

SumOver(S, Of(_)) == SumFunction([x \in S |-> Of(x)])

OwnReuses(t) == Count(shard_map[t].dist_map)
OwnAddresses(t) == DOMAIN shard_map[t].cache_map

\* No address came back after lru_cache had dropped it.
NothingForgotten == inst_dist_count[STEP + 1] = Cardinality(ToSet(trace))

-----------------------------------------------------------------------------
(* Properties.                                                             *)

\* Every variable of the tool has its type.
TypeOK ==
    /\ GlobalsTypeOK
    /\ by \in Seq(Tid) /\ Len(by) = Len(trace)
    /\ DOMAIN shard_map \subseteq Tid
    /\ \A t \in DOMAIN shard_map :
         /\ shard_map[t].total_refs \in Nat
         /\ shard_map[t].ref_list \in Seq(Addr)
         /\ shard_map[t].tid \in {t, Unset}
    /\ outcome \in {Running, Printed, Killed}
    /\ ToSet(report.sections) \subseteq DOMAIN shard_map

\* Inside a shard the list, the map and the histogram tell the same story: the
\* list is an arrangement of the mapped addresses, every reference is a first
\* touch or in the histogram, and the distant references of the lines are the
\* entries of the histogram from the threshold on (lines 432-454).
ShardConsistent ==
    \A t \in DOMAIN shard_map :
        LET s == shard_map[t]
        IN  /\ ToSet(s.ref_list) = DOMAIN s.cache_map
            /\ Len(s.ref_list) = Cardinality(DOMAIN s.cache_map)
            /\ s.total_refs = Count(s.dist_map) + Cardinality(DOMAIN s.cache_map)
            /\ s.total_refs = SumOver(DOMAIN s.cache_map,
                                      LAMBDA a : s.cache_map[a].total_refs)
            /\ SumOver(DOMAIN s.cache_map, LAMBDA a : s.cache_map[a].distant_refs)
                 = SumOver({d \in DOMAIN s.dist_map : d >= Threshold},
                           LAMBDA d : s.dist_map[d])

\* The histogram of a shard is the one of its own thread: records of other
\* threads in between neither shorten nor lengthen a distance (lines 443-450).
ShardHistogramExact ==
    \A t \in DOMAIN shard_map :
        \A d \in 0..Cardinality(Addr) :
            Cardinality(ReusesAt(t, d)) =
                IF d \in DOMAIN shard_map[t].dist_map
                  THEN shard_map[t].dist_map[d] ELSE 0

\* The two halves of the tool agree: the shards have seen the references the
\* globals counted, and as long as nothing was forgotten the globals find more
\* reuses than the shards by exactly the first touches of a thread on an address
\* another thread had used before (lines 432, 456, 470).
HalvesAgree ==
    LET Threads == DOMAIN shard_map
        Touched == UNION {OwnAddresses(t) : t \in Threads}
    IN  /\ SumOver(Threads, LAMBDA t : shard_map[t].total_refs) = cur_inst_pc
        /\ NothingForgotten =>
             reuse_inst_num - SumOver(Threads, OwnReuses) =
               SumOver(Threads, LAMBDA t : Cardinality(OwnAddresses(t)))
                 - Cardinality(Touched)

\* The aggregated report is the one of the whole trace: each address with its
\* number of references by any thread, and every reference that is not a
\* thread's first touch once in the merged histogram.  The sections on the shards
\* follow when there are several, each shard once (lines 672-698, 709-721).
AggregateExact ==
    LET all == report.aggregate
        several == Cardinality(DOMAIN shard_map) > 1
        First == {i \in DOMAIN trace : OwnLastUse(i) = 0}
    IN  outcome = Printed =>
            /\ all.total_refs = Len(trace)
            /\ DOMAIN all.cache_map = ToSet(trace)
            /\ \A a \in ToSet(trace) :
                 all.cache_map[a].total_refs =
                     Cardinality({i \in DOMAIN trace : trace[i] = a})
            /\ Count(all.dist_map) = Len(trace) - Cardinality(First)
            /\ ToSet(report.sections) = (IF several THEN DOMAIN shard_map ELSE {})
            /\ Len(report.sections) = (IF several THEN Cardinality(DOMAIN shard_map) ELSE 0)
            /\ \A i, j \in DOMAIN report.sections : i < j =>
                 shard_map[report.sections[j]].total_refs
                   <= shard_map[report.sections[i]].total_refs

\* The first list names the most often referenced addresses of the trace, by any
\* thread: as many as there is room for, and none left out has more references
\* than the last of them.  However far the second list is read, the addresses so
\* far have at least as many distant references together as any others, those of
\* the first list included (lines 500-533, 629-665).
ListsExact ==
    LET Uses(a) == Cardinality({i \in DOMAIN trace : trace[i] = a})
        Distant(S) == SumOver(S, LAMBDA a : report.aggregate.cache_map[a].distant_refs)
        first  == report.frequent
        second == report.distant
    IN  outcome = Printed =>
            /\ Len(first) = Min({ReportTop, Cardinality(ToSet(trace))})
            /\ \A i \in DOMAIN first, a \in ToSet(trace) :
                 a \notin {first[j] : j \in 1..i} => Uses(a) <= Uses(first[i])
            /\ Len(second) = Len(first)
            /\ \A n \in DOMAIN second : \A S \in kSubset(n, ToSet(trace)) :
                 Distant(S) <= Distant({second[i] : i \in 1..n})

\* Two runs on one trace print the same lists, although cache_map is a hash map:
\* addresses with equal counts are never in an open order (lines 513, 532).
ListsDetermined ==
    \A shard \in {report.aggregate} \cup Range(shard_map) :
        /\ Cardinality(FrequentLists(shard.cache_map, ReportTop)) = 1
        /\ Cardinality(DistantLists(shard.cache_map, ReportTop)) = 1

-----------------------------------------------------------------------------
(* What the source says of the report and the tool does not do.            *)

\* A trace with references but without any reuse gets its report; "Very small
\* app." (data:641, instance:573) shows that such traces are meant to be printed.
SmallAppReported == outcome = Killed => trace = <<>>

=============================================================================
