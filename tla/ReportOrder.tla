----------------------------- MODULE ReportOrder -----------------------------
(***************************************************************************)
(* The two lists of addresses in the report on a shard: the most often     *)
(* referenced ones and the ones with the most distant references.  Each is *)
(* a partial sort of cache_map with a comparison function of its own.      *)
(* Addresses are numbers.                                                  *)
(***************************************************************************)
EXTENDS Integers, Sequences, FiniteSets, FiniteSetsExt, SequencesExt

\* Faulty: equal counts are not told apart by the address.
CmpTotalRefsTied(lines, l, r) ==
    \/ lines[l].total_refs > lines[r].total_refs
    \/ /\ lines[l].total_refs = lines[r].total_refs
       /\ lines[l].distant_refs > lines[r].distant_refs

\* cmp_total_refs: more references, then more distant ones, then the lower
\* address.
CmpTotalRefs(lines, l, r) ==
    \/ lines[l].total_refs > lines[r].total_refs
    \/ /\ lines[l].total_refs = lines[r].total_refs
       /\ \/ lines[l].distant_refs > lines[r].distant_refs
          \/ lines[l].distant_refs = lines[r].distant_refs /\ l < r

\* Faulty: the second list is sorted like the first.
CmpDistantRefsSwapped(lines, l, r) == CmpTotalRefs(lines, l, r)

\* cmp_distant_refs: the same with the two counts changed over.
CmpDistantRefs(lines, l, r) ==
    \/ lines[l].distant_refs > lines[r].distant_refs
    \/ /\ lines[l].distant_refs = lines[r].distant_refs
       /\ \/ lines[l].total_refs > lines[r].total_refs
          \/ lines[l].total_refs = lines[r].total_refs /\ l < r

\* What std::partial_sort_copy may leave in a vector of n entries, less being the
\* comparison as a set of pairs: a list in which nothing comes before something
\* it is less than, and than which nothing left out is less.  Entries beyond the
\* size of cache_map stay NULL and end the printed list.
TopLists(lines, less, n) ==
    {top \in UNION {SetToSeqs(S) : S \in kSubset(Min({n, Cardinality(DOMAIN lines)}), DOMAIN lines)} :
        /\ \A i, j \in DOMAIN top : i < j => <<top[j], top[i]>> \notin less
        /\ \A a \in DOMAIN lines \ ToSet(top) : \A i \in DOMAIN top : <<a, top[i]>> \notin less}

TotalRefsLess(lines) == {p \in (DOMAIN lines) \X (DOMAIN lines) : CmpTotalRefs(lines, p[1], p[2])}
DistantRefsLess(lines) == {p \in (DOMAIN lines) \X (DOMAIN lines) : CmpDistantRefs(lines, p[1], p[2])}

FrequentLists(lines, n) == TopLists(lines, TotalRefsLess(lines), n)
DistantLists(lines, n) == TopLists(lines, DistantRefsLess(lines), n)

=============================================================================
