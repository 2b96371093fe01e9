---------------------------- MODULE StackDistance ---------------------------
(***************************************************************************)
(* The part of parallel_shard_memref that works on one shard, and the      *)
(* arithmetic of the report on it.  A shard measures the distance between  *)
(* two uses of an address by the number of other addresses its thread used *)
(* in between.                                                             *)
(*                                                                         *)
(* line_ref_list_t is not part of the repository; it is modelled by how    *)
(* the tool uses it: a list of addresses in order of use, whose            *)
(* move_to_front returns how many addresses were ahead and counts the      *)
(* reference in its line_ref_t, as distant from the threshold on.  Its     *)
(* cur_time_, which is only printed, is left out.                          *)
(***************************************************************************)
EXTENDS Integers, Sequences, FiniteSets, FiniteSetsExt, SequencesExt, Functions

CONSTANTS Threshold,    \* knobs_.distance_threshold
          Unset         \* the value of a tid that was never assigned

ASSUME ThresholdAssumption == Threshold \in Nat

\* Faulty: the reference that makes the line is not counted.
NewLineUncounted == [total_refs |-> 0, distant_refs |-> 0]

\* line_ref_t(tag)
NewLine == [total_refs |-> 1, distant_refs |-> 0]

\* shard_data_t: dist_map is the histogram, cache_map leads to the line_ref_t.
EmptyShard ==
    [total_refs |-> 0, ref_list |-> <<>>, cache_map |-> <<>>,
     dist_map |-> <<>>, tid |-> Unset]

\* f[key] += n, where a missing entry counts as 0.
Increase(f, key, n) ==
    [k \in DOMAIN f \cup {key} |->
        (IF k \in DOMAIN f THEN f[k] ELSE 0) + (IF k = key THEN n ELSE 0)]

\* How many addresses are ahead of tag in the list.
Ahead(list, tag) == (CHOOSE i \in DOMAIN list : list[i] = tag) - 1

MoveToFront(list, tag) == <<tag>> \o RemoveAt(list, Ahead(list, tag) + 1)

\* Faulty: a new line is added at the back.
FirstTouchBack(shard, tag) ==
    [shard EXCEPT
        !.total_refs = @ + 1,
        !.cache_map = [a \in DOMAIN @ \cup {tag} |->
                         IF a = tag THEN NewLine ELSE @[a]],
        !.ref_list = @ \o <<tag>>]

FirstTouch(shard, tag) ==
    [shard EXCEPT
        !.total_refs = @ + 1,
        !.cache_map = [a \in DOMAIN @ \cup {tag} |->
                         IF a = tag THEN NewLine ELSE @[a]],
        !.ref_list = <<tag>> \o @]

TouchAgain(shard, tag) ==
    LET dist == Ahead(shard.ref_list, tag)
    IN  [shard EXCEPT
            !.total_refs = @ + 1,
            !.cache_map[tag] =
               [total_refs |-> @.total_refs + 1,
                distant_refs |-> @.distant_refs + (IF dist >= Threshold THEN 1 ELSE 0)],
            !.ref_list = MoveToFront(@, tag),
            !.dist_map = Increase(@, dist, 1)]

\* The shard after one of its data references.
Touch(shard, tag) ==
    IF tag \in DOMAIN shard.cache_map THEN TouchAgain(shard, tag)
                                      ELSE FirstTouch(shard, tag)

-----------------------------------------------------------------------------
(* print_shard_results.                                                    *)

Count(dist_map) == SumFunction(dist_map)

-----------------------------------------------------------------------------
(* print_results: the shards are merged.                                   *)

\* Faulty: the reference that new line_ref_t counts is not taken back.
MergedLineUnreset(lines) ==
    [total_refs |-> 1 + SumFunction([t \in DOMAIN lines |-> lines[t].total_refs]),
     distant_refs |-> SumFunction([t \in DOMAIN lines |-> lines[t].distant_refs])]

\* The line of an address over all the shards, from shard -> line.
MergedLine(lines) ==
    [total_refs |-> SumFunction([t \in DOMAIN lines |-> lines[t].total_refs]),
     distant_refs |-> SumFunction([t \in DOMAIN lines |-> lines[t].distant_refs])]

Merge(shards) ==
    LET Addresses == UNION {DOMAIN shards[t].cache_map : t \in DOMAIN shards}
        Distances == UNION {DOMAIN shards[t].dist_map : t \in DOMAIN shards}
        With(a) == {t \in DOMAIN shards : a \in DOMAIN shards[t].cache_map}
        At(d) == {t \in DOMAIN shards : d \in DOMAIN shards[t].dist_map}
    IN  [EmptyShard EXCEPT
          !.total_refs = SumFunction([t \in DOMAIN shards |-> shards[t].total_refs]),
          !.dist_map = [d \in Distances |->
              SumFunction([t \in At(d) |-> shards[t].dist_map[d]])],
          !.cache_map = [a \in Addresses |->
              MergedLine([t \in With(a) |-> shards[t].cache_map[a]])]]

\* The shards by falling number of references; std::sort leaves the order of
\* equal ones open.
Sorted(shards) ==
    {order \in SetToSeqs(DOMAIN shards) :
        \A i, j \in DOMAIN order :
            i < j => shards[order[i]].total_refs >= shards[order[j]].total_refs}

=============================================================================
