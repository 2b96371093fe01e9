-------------------------- MODULE BranchViewProofs ---------------------------
(***************************************************************************)
(* Proofs about BranchView for every trace, every window and every number  *)
(* of threads.                                                             *)
(*                                                                         *)
(* Left and Stamped say which record the counters of the window and the    *)
(* kept timestamp stand for; PendingLast, Outcomes and Guesses say which   *)
(* instructions the pending branch and the counts of the outcomes stand    *)
(* for.                                                                    *)
(***************************************************************************)
EXTENDS BranchView, DataProofs

Record == [kind : {"version", "filetype", "timestamp", "other", "instr"},
           value : Version \cup FileType \cup Time \cup {0}]
Instr == [thread : Thread, type : InstrType, addr : Addr, size : Size, decoded : BOOLEAN]

\* The types, the traces, and what holds before the first record.
Shape ==
    /\ TypeOK
    /\ records \in Seq(Record)
    /\ \A i \in DOMAIN records : records[i].kind = "timestamp" => records[i].value \in Time
    /\ shown \in Seq(Instr)
    /\ has_modules_ \in BOOLEAN
    /\ zf_last_addr_size \in Size \cup {0}
    /\ cbrm_inited \in BOOLEAN
    /\ IsFiniteSet(DOMAIN cbrm) /\ (~cbrm_inited => DOMAIN cbrm = {})

\* What is left of the window.
Asked == Cardinality(Countable)

Left ==
    /\ skip_refs_left_ = IF Asked < SkipRefs THEN SkipRefs - Asked ELSE 0
    /\ sim_refs_left_ = IF SimRefs = 0 \/ Asked <= SkipRefs THEN SimRefs
                        ELSE IF Asked < SkipRefs + SimRefs THEN SkipRefs + SimRefs - Asked
                        ELSE 0

Stamps == {i \in Window : records[i].kind = "timestamp"}
Over == SimRefs > 0 /\ Asked >= SkipRefs + SimRefs
Stamp == IF Stamps = {} THEN 0 ELSE records[Max(Stamps)].value

\* Until the window is over its last timestamp is the one that is kept.
Stamped ==
    IF Over THEN printed = IF Stamps = {} THEN <<>> ELSE <<Stamp>>
            ELSE printed = <<>> /\ timestamp_ = Stamp

\* A branch is pending if it is the last instruction.
PendingLast ==
    /\ zf_cbr <=> Len(shown) \in Branches
    /\ zf_cbr => /\ Undecoded /\ stage # "created"
                 /\ zf_last_addr = shown[Len(shown)].addr
                 /\ zf_last_addr_size = shown[Len(shown)].size

Behind(a)    == {i \in Resolved : shown[i].addr = a /\ FallsThrough(i, i + 1)}
Elsewhere(a) == {i \in Resolved : shown[i].addr = a /\ ~FallsThrough(i, i + 1)}

\* cbrm counts for every address what was executed next.
Outcomes ==
    \A a \in Addr :
        IF Behind(a) \cup Elsewhere(a) = {} THEN a \notin DOMAIN cbrm
        ELSE a \in DOMAIN cbrm /\ cbrm[a] = <<Cardinality(Behind(a)), Cardinality(Elsewhere(a))>>

Wrong(p) == {i \in Resolved : FallsThrough(i, i + 1) # p[shown[i].addr]}
Misses(p) == [a \in DOMAIN cbrm |-> IF p[a] THEN cbrm[a][2] ELSE cbrm[a][1]]
Fewest == [a \in DOMAIN cbrm |-> Min({cbrm[a][1], cbrm[a][2]})]
Entropies == [a \in DOMAIN cbrm |-> LinearEntropy(cbrm[a][1], cbrm[a][2])]

\* What a prediction gets wrong, summed over the addresses.
Guesses ==
    /\ \A p \in [Addr -> BOOLEAN] : Cardinality(Wrong(p)) = SumFunction(Misses(p))
    /\ SumFunction(Entropies) = 2 * SumFunction(Fewest)
    /\ report.printed => report.entropy = SumFunction(Entropies)

-----------------------------------------------------------------------------
(* The records. *)

\* The records are numbered, and only finitely many of them count.
LEMMA RecordFacts ==
    ASSUME Shape
    PROVE  /\ Len(records) \in Nat /\ DOMAIN records = 1 .. Len(records)
           /\ IsFiniteSet(Countable) /\ Asked \in Nat /\ Countable \subseteq 1 .. Len(records)
           /\ IsFiniteSet(Window) /\ Window \subseteq Countable
           /\ SkipRefs \in Nat /\ SimRefs \in Nat
<1>1. Len(records) \in Nat /\ DOMAIN records = 1 .. Len(records)
  BY DEF Shape
<1>2. Countable \subseteq 1 .. Len(records) /\ Window \subseteq Countable
  BY <1>1 DEF Countable, Window
<1>3. IsFiniteSet(1 .. Len(records))
  BY <1>1, FS_Interval
<1>4. IsFiniteSet(Countable) /\ IsFiniteSet(Window) /\ Cardinality(Countable) \in Nat
  BY <1>2, <1>3, FS_Subset, FS_CardinalityType
<1>5. QED
  BY <1>1, <1>2, <1>4, WindowAssumption DEF Asked

\* The ranks that the window looks at.
InRange(n) == n > SkipRefs /\ (SimRefs > 0 => n <= SkipRefs + SimRefs)

\* A record is appended; if it counts, its rank is the next one, and it is in the
\* window if that rank is.
LEMMA ReceiveFacts ==
    ASSUME Shape, NEW kind, NEW value, Receive(kind, value)
    PROVE  /\ Len(records') = Len(records) + 1 /\ DOMAIN records' = 1 .. Len(records) + 1
           /\ records'[Len(records) + 1] = [kind |-> kind, value |-> value]
           /\ \A i \in DOMAIN records : records'[i] = records[i]
           /\ kind \in {"version", "filetype"} => Asked' = Asked /\ Window' = Window
           /\ kind \notin {"version", "filetype"} =>
                /\ Asked' = Asked + 1
                /\ Window' = IF InRange(Asked + 1) THEN Window \cup {Len(records) + 1} ELSE Window
<1> DEFINE r == [kind |-> kind, value |-> value]
<1>0. PICK k : k = Len(records) + 1
  OBVIOUS
<1>1. /\ Len(records) \in Nat /\ DOMAIN records = 1 .. Len(records)
      /\ IsFiniteSet(Countable) /\ Asked \in Nat /\ Countable \subseteq 1 .. Len(records)
      /\ Asked = Cardinality(Countable)
  BY RecordFacts DEF Asked
<1>2. /\ Len(records') = k /\ DOMAIN records' = 1 .. k /\ records'[k] = r
      /\ \A i \in DOMAIN records : records'[i] = records[i]
  BY <1>0, <1>1 DEF Receive, Shape
<1>3. Countable' = IF kind \in {"version", "filetype"} THEN Countable ELSE Countable \cup {k}
  <2>1. r.kind = kind
    OBVIOUS
  <2>2. \A i : i \in Countable' <=> i \in Countable \/ (i = k /\ kind \notin {"version", "filetype"})
    <3>1. \A i : i \in 1 .. k <=> i \in 1 .. Len(records) \/ i = k
      BY <1>0, <1>1
    <3>2. k \notin DOMAIN records
      BY <1>0, <1>1
    <3> HIDE DEF r
    <3>3. QED
      BY <1>1, <1>2, <2>1, <3>1, <3>2 DEF Countable
  <2>3. QED
    BY <2>2
<1>4. k \in Nat /\ \A i \in Countable : i <= k /\ i \in Nat /\ i # k
  BY <1>0, <1>1
<1>5. \A i \in Countable : Rank(i)' = Rank(i)
  <2> TAKE i \in Countable
  <2>1. {j \in Countable' : j <= i} = {j \in Countable : j <= i}
    BY <1>3, <1>4
  <2>2. QED
    BY <2>1 DEF Rank
<1>6. kind \notin {"version", "filetype"} => Asked' = Asked + 1 /\ Rank(k)' = Asked + 1
  <2> SUFFICES ASSUME kind \notin {"version", "filetype"}
               PROVE  Asked' = Asked + 1 /\ Rank(k)' = Asked + 1
    OBVIOUS
  <2>1. Countable' = Countable \cup {k} /\ k \notin Countable
    BY <1>3, <1>4
  <2>2. {j \in Countable' : j <= k} = Countable'
    BY <1>4, <2>1
  <2>3. Cardinality(Countable') = Cardinality(Countable) + 1
    BY <1>1, <2>1, FS_AddElement
  <2>4. QED
    BY <1>1, <2>2, <2>3 DEF Rank, Asked
<1>7. CASE kind \in {"version", "filetype"}
  <2>1. Countable' = Countable
    BY <1>3, <1>7
  <2>2. Asked' = Asked /\ Window' = Window
    BY <1>5, <2>1 DEF Window, Asked
  <2>3. QED
    BY <1>0, <1>2, <1>7, <2>2
<1>8. CASE kind \notin {"version", "filetype"}
  <2>1. Countable' = Countable \cup {k} /\ k \notin Countable /\ Asked' = Asked + 1 /\ Rank(k)' = Asked + 1
    BY <1>3, <1>4, <1>6, <1>8
  <2>2. \A i \in Countable : InRange(Rank(i)') <=> InRange(Rank(i))
    BY <1>5
  <2>3. Window = {i \in Countable : InRange(Rank(i))} /\ Window' = {i \in Countable' : InRange(Rank(i)')}
    BY Zenon DEF Window, InRange
  <2>4. Window' = IF InRange(Asked + 1) THEN Window \cup {k} ELSE Window
    BY <2>1, <2>2, <2>3
  <2>5. QED
    BY <1>0, <1>2, <1>8, <2>1, <2>4
<1>9. QED
  BY <1>7, <1>8

-----------------------------------------------------------------------------
(* The types. *)

\* A record that should_skip() is asked about moves the window on.
LEMMA ShouldSkipTypes ==
    ASSUME Shape, NEW now \in Time \cup {0}, Advance, timestamp_' \in {0, now}
    PROVE  /\ skip_refs_left_' \in 0 .. SkipRefs /\ sim_refs_left_' \in 0 .. SimRefs
           /\ timestamp_' \in Time \cup {0}
<1>1. /\ SkipRefs \in Nat /\ SimRefs \in Nat
      /\ skip_refs_left_ \in 0 .. SkipRefs /\ sim_refs_left_ \in 0 .. SimRefs
  BY WindowAssumption DEF Shape, TypeOK
<1>2. skip_refs_left_' \in 0 .. SkipRefs
  BY <1>1 DEF Advance
<1>3. sim_refs_left_' \in 0 .. SimRefs
  BY <1>1 DEF Advance, Skips
<1>4. QED
  BY <1>2, <1>3

\* What was counted for an address.
Counted(a) == IF a \in DOMAIN cbrm THEN cbrm[a] ELSE <<0, 0>>

\* An outcome is counted for one address.
LEMMA UpdateFacts ==
    ASSUME Shape, NEW a \in Addr, NEW taken \in BOOLEAN, UpdateCBRM(a, taken)
    PROVE  /\ cbrm_inited' = TRUE
           /\ DOMAIN cbrm' = DOMAIN cbrm \cup {a}
           /\ Counted(a) \in Nat \X Nat
           /\ cbrm'[a] = IF taken THEN <<Counted(a)[1] + 1, Counted(a)[2]>>
                                  ELSE <<Counted(a)[1], Counted(a)[2] + 1>>
           /\ cbrm'[a] \in (Nat \X Nat) \ {<<0, 0>>}
           /\ \A b \in DOMAIN cbrm : b # a => cbrm'[b] = cbrm[b]
           /\ IsFiniteSet(DOMAIN cbrm') /\ DOMAIN cbrm' \subseteq Addr
<1> DEFINE known == IF cbrm_inited THEN cbrm ELSE <<>>
           old   == IF a \in DOMAIN known THEN known[a] ELSE <<0, 0>>
           new   == IF taken THEN <<old[1] + 1, old[2]>> ELSE <<old[1], old[2] + 1>>
<1>1. DOMAIN known = DOMAIN cbrm /\ \A b \in DOMAIN cbrm : known[b] = cbrm[b]
  BY DEF Shape
<1>2. old = Counted(a)
  BY <1>1 DEF Counted
<1>3. /\ cbrm_inited' = TRUE
      /\ cbrm' = [b \in DOMAIN known \cup {a} |-> IF b = a THEN new ELSE known[b]]
  BY DEF UpdateCBRM
<1>4. Counted(a) \in Nat \X Nat
  <2>1. <<0, 0>> \in Nat \X Nat
    OBVIOUS
  <2>2. \A b \in DOMAIN cbrm : cbrm[b] \in Nat \X Nat
    BY DEF Shape, TypeOK
  <2>3. QED
    BY <2>1, <2>2 DEF Counted
<1>5. new = IF taken THEN <<Counted(a)[1] + 1, Counted(a)[2]>>
                     ELSE <<Counted(a)[1], Counted(a)[2] + 1>>
  BY <1>2
<1> HIDE DEF known, old, new
<1>6. /\ DOMAIN cbrm' = DOMAIN cbrm \cup {a} /\ cbrm'[a] = new
      /\ \A b \in DOMAIN cbrm : b # a => cbrm'[b] = cbrm[b]
  BY <1>1, <1>3
<1>7. new \in (Nat \X Nat) \ {<<0, 0>>}
  BY <1>4, <1>5
<1>8. IsFiniteSet(DOMAIN cbrm') /\ DOMAIN cbrm' \subseteq Addr
  <2>1. IsFiniteSet(DOMAIN cbrm) /\ DOMAIN cbrm \subseteq Addr
    BY DEF Shape, TypeOK
  <2>2. QED
    BY <1>6, <2>1, FS_AddElement
<1>9. QED
  BY <1>3, <1>4, <1>5, <1>6, <1>7, <1>8

\* A resolved branch is counted.
LEMMA ResolveTypes ==
    ASSUME Shape, PendingLast, NEW addr \in Addr, Resolve(addr)
    PROVE  /\ cbrm_inited' \in BOOLEAN /\ (~cbrm_inited' => DOMAIN cbrm' = {})
           /\ IsFiniteSet(DOMAIN cbrm') /\ DOMAIN cbrm' \subseteq Addr
           /\ \A a \in DOMAIN cbrm' : cbrm'[a] \in (Nat \X Nat) \ {<<0, 0>>}
           /\ zf_taken' \in Nat /\ zf_untaken' \in Nat
<1>1. CASE zf_cbr
  <2> DEFINE behind == zf_last_addr + zf_last_addr_size = addr
  <2>1. /\ UpdateCBRM(zf_last_addr, behind)
        /\ zf_taken' = IF behind THEN zf_taken + 1 ELSE zf_taken
        /\ zf_untaken' = IF behind THEN zf_untaken ELSE zf_untaken + 1
    BY <1>1 DEF Resolve
  <2>2. zf_last_addr \in Addr /\ behind \in BOOLEAN
    <3>1. Len(shown) \in DOMAIN shown
      BY <1>1 DEF PendingLast, Branches
    <3>2. shown[Len(shown)] \in Instr
      BY <3>1 DEF Shape
    <3>3. QED
      BY <1>1, <3>2 DEF PendingLast, Instr
  <2>3. zf_taken \in Nat /\ zf_untaken \in Nat
    BY DEF Shape, TypeOK
  <2> HIDE DEF behind
  <2>4. \A a \in DOMAIN cbrm : cbrm[a] \in (Nat \X Nat) \ {<<0, 0>>}
    BY DEF Shape, TypeOK
  <2>5. /\ cbrm_inited' = TRUE /\ DOMAIN cbrm' = DOMAIN cbrm \cup {zf_last_addr}
        /\ cbrm'[zf_last_addr] \in (Nat \X Nat) \ {<<0, 0>>}
        /\ \A b \in DOMAIN cbrm : b # zf_last_addr => cbrm'[b] = cbrm[b]
        /\ IsFiniteSet(DOMAIN cbrm') /\ DOMAIN cbrm' \subseteq Addr
    BY <2>1, <2>2, UpdateFacts
  <2>6. \A a \in DOMAIN cbrm' : cbrm'[a] \in (Nat \X Nat) \ {<<0, 0>>}
    BY <2>4, <2>5
  <2>7. QED
    BY <2>1, <2>3, <2>5, <2>6
<1>2. CASE ~zf_cbr
  BY <1>2 DEF Resolve, counts, Shape, TypeOK
<1>3. QED
  BY <1>1, <1>2

\* The records that are received are records.
LEMMA ReceiveTypes ==
    ASSUME Shape, NEW r \in Record, Receive(r.kind, r.value),
           r.kind = "timestamp" => r.value \in Time
    PROVE  /\ records' \in Seq(Record)
           /\ \A i \in DOMAIN records' : records'[i].kind = "timestamp" => records'[i].value \in Time
<1> DEFINE e == [kind |-> r.kind, value |-> r.value]
<1>1. e = r
  BY DEF Record
<1>2. records' = Append(records, r)
  BY <1>1, Zenon DEF Receive
<1>3. records \in Seq(Record)
  BY DEF Shape
<1>4. records' \in Seq(Record)
  BY <1>2, <1>3
<1>5. /\ DOMAIN records' = DOMAIN records \cup {Len(records) + 1}
      /\ records'[Len(records) + 1] = r
      /\ \A i \in DOMAIN records : records'[i] = records[i]
  BY <1>2, <1>3
<1>6. \A i \in DOMAIN records' : records'[i].kind = "timestamp" => records'[i].value \in Time
  BY <1>5 DEF Shape
<1>7. QED
  BY <1>4, <1>6

\* The instructions that are shown are instructions.
LEMMA ShowTypes ==
    ASSUME Shape, NEW thread \in Thread, NEW type \in InstrType, NEW addr \in Addr, NEW size \in Size,
           Show(thread, type, addr, size)
    PROVE  /\ shown' \in Seq(Instr)
           /\ Len(shown') = Len(shown) + 1 /\ DOMAIN shown' = 1 .. Len(shown) + 1
           /\ Len(shown) \in Nat /\ DOMAIN shown = 1 .. Len(shown)
           /\ \A i \in DOMAIN shown : shown'[i] = shown[i]
           /\ shown'[Len(shown) + 1].thread = thread /\ shown'[Len(shown) + 1].type = type
           /\ shown'[Len(shown) + 1].addr = addr /\ shown'[Len(shown) + 1].size = size
           /\ shown'[Len(shown) + 1].decoded = ~Undecoded
<1> DEFINE e == [thread |-> thread, type |-> type, addr |-> addr, size |-> size, decoded |-> ~Undecoded]
<1>1. e \in Instr
  <2>1. (~Undecoded) \in BOOLEAN
    OBVIOUS
  <2>2. QED
    BY <2>1, Zenon DEF Instr
<1>2. shown' = Append(shown, e)
  BY Zenon DEF Show
<1>3. /\ e.thread = thread /\ e.type = type /\ e.addr = addr /\ e.size = size
      /\ e.decoded = ~Undecoded
  BY Zenon
<1>4. shown \in Seq(Instr)
  BY DEF Shape
<1> HIDE DEF e
<1>5. /\ shown' \in Seq(Instr)
      /\ Len(shown') = Len(shown) + 1 /\ DOMAIN shown' = 1 .. Len(shown) + 1
      /\ Len(shown) \in Nat /\ DOMAIN shown = 1 .. Len(shown)
      /\ \A i \in DOMAIN shown : shown'[i] = shown[i]
      /\ shown'[Len(shown) + 1] = e
  BY <1>1, <1>2, <1>4
<1>6. QED
  BY <1>3, <1>5, Zenon

\* Records that are not instructions keep the types.
LEMMA StepMarkers ==
    ASSUME Shape, stage = "running",
           \/ \E version \in Version : VersionMarker(version)
           \/ \E filetype \in FileType : FiletypeMarker(filetype)
           \/ \E time \in Time : TimestampMarker(time)
           \/ OtherRecord
    PROVE  Shape'
<1>1. ASSUME NEW version \in Version, VersionMarker(version)
      PROVE  Shape'
  <2>1. /\ records' \in Seq(Record)
        /\ \A i \in DOMAIN records' : records'[i].kind = "timestamp" => records'[i].value \in Time
    <3> DEFINE r == [kind |-> "version", value |-> version]
    <3>1. r \in Record /\ r.kind = "version" /\ r.value = version
      BY DEF Record
    <3> HIDE DEF r
    <3>2. Receive(r.kind, r.value)
      BY <1>1, <3>1 DEF VersionMarker
    <3>3. QED
      BY <3>1, <3>2, ReceiveTypes
  <2>2. trace_version_' \in Version \cup {Unset} /\ (stage' = "failed" <=> error_string_' # "")
        /\ stage' \in {"running", "failed"}
    BY <1>1 DEF VersionMarker, Continue, Fail, Shape, TypeOK
  <2>3. UNCHANGED <<has_modules_, filetype_, window, pending, counts, num_disasm_instrs_, report, shown>>
    BY <1>1 DEF VersionMarker
  <2>4. QED
    BY <2>1, <2>2, <2>3 DEF Shape, TypeOK, window, pending, counts
<1>2. ASSUME NEW filetype \in FileType, FiletypeMarker(filetype)
      PROVE  Shape'
  <2>1. /\ records' \in Seq(Record)
        /\ \A i \in DOMAIN records' : records'[i].kind = "timestamp" => records'[i].value \in Time
    <3> DEFINE r == [kind |-> "filetype", value |-> filetype]
    <3>1. r \in Record /\ r.kind = "filetype" /\ r.value = filetype
      BY DEF Record
    <3> HIDE DEF r
    <3>2. Receive(r.kind, r.value)
      BY <1>2, <3>1 DEF FiletypeMarker
    <3>3. QED
      BY <3>1, <3>2, ReceiveTypes
  <2>2. filetype_' \in FileType \cup {Unset} /\ (stage' = "failed" <=> error_string_' # "")
        /\ stage' \in {"running", "failed"}
    BY <1>2 DEF FiletypeMarker, Continue, Fail, Shape, TypeOK
  <2>3. UNCHANGED <<has_modules_, trace_version_, window, pending, counts, num_disasm_instrs_, report, shown>>
    BY <1>2 DEF FiletypeMarker
  <2>4. QED
    BY <2>1, <2>2, <2>3 DEF Shape, TypeOK, window, pending, counts
<1>3. ASSUME NEW time \in Time, TimestampMarker(time)
      PROVE  Shape'
  <2>1. /\ records' \in Seq(Record)
        /\ \A i \in DOMAIN records' : records'[i].kind = "timestamp" => records'[i].value \in Time
    <3> DEFINE r == [kind |-> "timestamp", value |-> time]
    <3>1. r \in Record /\ r.kind = "timestamp" /\ r.value = time
      BY DEF Record
    <3> HIDE DEF r
    <3>2. Receive(r.kind, r.value)
      BY <1>3, <3>1 DEF TimestampMarker
    <3>3. QED
      BY <3>1, <3>2, ReceiveTypes
  <2>2. Advance /\ timestamp_' \in {0, time}
    BY <1>3 DEF TimestampMarker, ShouldSkip
  <2>3. /\ skip_refs_left_' \in 0 .. SkipRefs /\ sim_refs_left_' \in 0 .. SimRefs
        /\ timestamp_' \in Time \cup {0}
    BY <2>2, ShouldSkipTypes
  <2>4. UNCHANGED <<stage, error_string_, has_modules_, headers, pending, counts, num_disasm_instrs_, report, shown>>
    BY <1>3 DEF TimestampMarker
  <2>5. QED
    BY <2>1, <2>3, <2>4 DEF Shape, TypeOK, headers, pending, counts
<1>4. CASE OtherRecord
  <2>1. /\ records' \in Seq(Record)
        /\ \A i \in DOMAIN records' : records'[i].kind = "timestamp" => records'[i].value \in Time
    <3> DEFINE r == [kind |-> "other", value |-> 0]
    <3>1. r \in Record /\ r.kind = "other" /\ r.value = 0
      BY DEF Record
    <3> HIDE DEF r
    <3>2. Receive(r.kind, r.value)
      BY <1>4, <3>1 DEF OtherRecord
    <3>3. QED
      BY <3>1, <3>2, ReceiveTypes
  <2>2. Advance /\ timestamp_' \in {0, timestamp_} /\ timestamp_ \in Time \cup {0}
    BY <1>4 DEF OtherRecord, ShouldSkip, Shape, TypeOK
  <2>3. /\ skip_refs_left_' \in 0 .. SkipRefs /\ sim_refs_left_' \in 0 .. SimRefs
        /\ timestamp_' \in Time \cup {0}
    BY <2>2, ShouldSkipTypes
  <2>4. UNCHANGED <<stage, error_string_, has_modules_, headers, pending, counts, num_disasm_instrs_, report, shown>>
    BY <1>4 DEF OtherRecord
  <2>5. QED
    BY <2>1, <2>3, <2>4 DEF Shape, TypeOK, headers, pending, counts
<1>5. QED
  BY <1>1, <1>2, <1>3, <1>4

\* Instructions keep the types.
LEMMA StepInstruction ==
    ASSUME Shape, PendingLast, stage = "running",
           NEW thread \in Thread, NEW type \in InstrType, NEW addr \in Addr, NEW size \in Size,
           Instruction(thread, type, addr, size)
    PROVE  Shape'
<1>1. /\ records' \in Seq(Record)
      /\ \A i \in DOMAIN records' : records'[i].kind = "timestamp" => records'[i].value \in Time
  <2> DEFINE r == [kind |-> "instr", value |-> 0]
  <2>1. r \in Record /\ r.kind = "instr" /\ r.value = 0
    BY DEF Record
  <2> HIDE DEF r
  <2>2. Receive(r.kind, r.value)
    BY <2>1 DEF Instruction
  <2>3. QED
    BY <2>1, <2>2, ReceiveTypes
<1>2. ASSUME ShouldSkip(timestamp_)
      PROVE  /\ skip_refs_left_' \in 0 .. SkipRefs /\ sim_refs_left_' \in 0 .. SimRefs
             /\ timestamp_' \in Time \cup {0}
  <2>1. Advance /\ timestamp_' \in {0, timestamp_} /\ timestamp_ \in Time \cup {0}
    BY <1>2 DEF ShouldSkip, Shape, TypeOK
  <2>2. QED
    BY <2>1, ShouldSkipTypes
<1>3. CASE SkippedInstruction \/ ThrowingInstruction(type, addr)
  <2>1. /\ ShouldSkip(timestamp_) /\ stage' \in {"running", "killed"}
        /\ UNCHANGED <<error_string_, has_modules_, headers, pending, counts, num_disasm_instrs_, report, shown>>
    BY <1>3 DEF SkippedInstruction, ThrowingInstruction
  <2>2. QED
    BY <1>1, <1>2, <2>1 DEF Shape, TypeOK, headers, pending, counts
<1>4. CASE UndecodedInstruction(thread, type, addr, size)
  <2>1. /\ ShouldSkip(timestamp_) /\ Resolve(addr) /\ Remember(type, addr, size)
        /\ Show(thread, type, addr, size) /\ Undecoded /\ ~Unconvertible(type, addr)
        /\ UNCHANGED <<stage, error_string_, has_modules_, headers, report>>
    BY <1>4 DEF UndecodedInstruction
  <2>2. /\ zf_cbr' \in BOOLEAN /\ zf_last_addr_size' \in Size \cup {0}
        /\ zf_last_addr' \in {a \in Addr \cup {0} : a <= LongMax}
    <3>1. zf_cbr' = (type = "conditional_jump")
      BY <2>1 DEF Remember
    <3>2. CASE type = "conditional_jump"
      <4>1. zf_last_addr' = addr /\ zf_last_addr_size' = size
        BY <2>1, <3>2 DEF Remember
      <4>2. addr <= LongMax
        <5>1. ~(addr > LongMax)
          BY <2>1, <3>2 DEF Unconvertible
        <5>2. addr \in Nat /\ LongMax \in Nat
          BY AddrAssumption
        <5>3. QED
          BY <5>1, <5>2
      <4>3. QED
        BY <3>1, <3>2, <4>1, <4>2
    <3>3. CASE type # "conditional_jump"
      <4>1. zf_last_addr' = zf_last_addr /\ zf_last_addr_size' = zf_last_addr_size
        BY <2>1, <3>3 DEF Remember
      <4>2. QED
        BY <3>1, <3>3, <4>1 DEF Shape, TypeOK
    <3>4. QED
      BY <3>2, <3>3
  <2>3. /\ cbrm_inited' \in BOOLEAN /\ (~cbrm_inited' => DOMAIN cbrm' = {})
        /\ IsFiniteSet(DOMAIN cbrm') /\ DOMAIN cbrm' \subseteq Addr
        /\ \A a \in DOMAIN cbrm' : cbrm'[a] \in (Nat \X Nat) \ {<<0, 0>>}
        /\ zf_taken' \in Nat /\ zf_untaken' \in Nat
    BY <2>1, ResolveTypes
  <2>4. shown' \in Seq(Instr)
    BY <2>1, ShowTypes
  <2>5. QED
    BY <1>1, <1>2, <2>1, <2>2, <2>3, <2>4 DEF Shape, TypeOK, headers
<1>5. CASE DecodedInstruction(thread, type, addr, size)
  <2>1. /\ ShouldSkip(timestamp_) /\ Resolve(addr)
        /\ Show(thread, type, addr, size)
        /\ UNCHANGED <<has_modules_, headers, pending, report>>
    BY <1>5 DEF DecodedInstruction
  <2>2. (stage' = "failed" <=> error_string_' # "") /\ stage' \in {"running", "failed"}
    BY <1>5 DEF DecodedInstruction, Continue, Fail, Shape, TypeOK
  <2>3. /\ cbrm_inited' \in BOOLEAN /\ (~cbrm_inited' => DOMAIN cbrm' = {})
        /\ IsFiniteSet(DOMAIN cbrm') /\ DOMAIN cbrm' \subseteq Addr
        /\ \A a \in DOMAIN cbrm' : cbrm'[a] \in (Nat \X Nat) \ {<<0, 0>>}
        /\ zf_taken' \in Nat /\ zf_untaken' \in Nat
    BY <2>1, ResolveTypes
  <2>4. shown' \in Seq(Instr)
    BY <2>1, ShowTypes
  <2>5. QED
    BY <1>1, <1>2, <2>1, <2>2, <2>3, <2>4 DEF Shape, TypeOK, headers, pending
<1>6. QED
  BY <1>3, <1>4, <1>5 DEF Instruction

\* Every step keeps the types.
LEMMA StepShape == Shape /\ PendingLast /\ Next => Shape'
<1> SUFFICES ASSUME Shape, PendingLast, Next
             PROVE  Shape'
  OBVIOUS
<1>1. CASE InitializeStream
  BY <1>1 DEF InitializeStream, Fail, Shape, TypeOK, headers, window, pending, counts
<1>2. CASE PrintResults
  <2>1. /\ stage = "running" /\ stage' = "printed" /\ report'.printed = TRUE
        /\ UNCHANGED <<error_string_, has_modules_, headers, window, pending, counts, num_disasm_instrs_,
                       records, shown>>
    BY <1>2 DEF PrintResults
  <2>2. QED
    BY <2>1 DEF Shape, TypeOK, headers, window, pending, counts
<1>3. CASE ProcessMemref
  BY <1>3, StepMarkers, StepInstruction DEF ProcessMemref
<1>4. QED
  BY <1>1, <1>2, <1>3 DEF Next

\* In the beginning.
LEMMA InitShape == Init => Shape
<1> SUFFICES ASSUME Init
             PROVE  Shape
  OBVIOUS
<1>1. cbrm = <<>> /\ records = <<>> /\ shown = <<>>
  BY DEF Init
<1>2. IsFiniteSet(DOMAIN cbrm) /\ DOMAIN cbrm = {}
  <2>1. DOMAIN cbrm = {}
    BY <1>1
  <2>2. QED
    BY <2>1, FS_EmptySet, Zenon
<1>3. records \in Seq(Record) /\ DOMAIN records = {} /\ shown \in Seq(Instr)
  BY <1>1
<1>4. TypeOK
  <2>1. stage = "created" /\ error_string_ = "" /\ report.printed = FALSE
    BY DEF Init, NoReport
  <2>2. /\ trace_version_ \in Version \cup {Unset} /\ filetype_ \in FileType \cup {Unset}
        /\ timestamp_ \in Time \cup {0} /\ zf_cbr \in BOOLEAN
    BY DEF Init
  <2>3. skip_refs_left_ \in 0 .. SkipRefs /\ sim_refs_left_ \in 0 .. SimRefs
    <3>1. SkipRefs \in Nat /\ SimRefs \in Nat /\ skip_refs_left_ = SkipRefs /\ sim_refs_left_ = SimRefs
      BY WindowAssumption DEF Init
    <3>2. QED
      BY <3>1
  <2>4. zf_last_addr \in {a \in Addr \cup {0} : a <= LongMax} /\ zf_taken \in Nat /\ zf_untaken \in Nat
    <3>1. LongMax \in Nat /\ zf_last_addr = 0 /\ zf_taken = 0 /\ zf_untaken = 0
      BY AddrAssumption DEF Init
    <3>2. QED
      BY <3>1
  <2>5. QED
    BY <1>2, <2>1, <2>2, <2>3, <2>4 DEF TypeOK
<1>5. has_modules_ \in BOOLEAN /\ zf_last_addr_size \in Size \cup {0} /\ cbrm_inited \in BOOLEAN
  BY DEF Init
<1>6. QED
  BY <1>2, <1>3, <1>4, <1>5 DEF Shape

-----------------------------------------------------------------------------
(* The window. *)

\* The counters say whether the next record is in the window, and its last one.
LEMMA NextInWindow ==
    ASSUME Shape, Left
    PROVE  /\ Skips <=> ~InRange(Asked + 1)
           /\ LastOfWindow <=> InRange(Asked + 1) /\ SimRefs > 0 /\ Asked + 1 = SkipRefs + SimRefs
<1>1. Asked \in Nat /\ SkipRefs \in Nat /\ SimRefs \in Nat
  BY RecordFacts
<1>2. /\ skip_refs_left_ = IF Asked < SkipRefs THEN SkipRefs - Asked ELSE 0
      /\ sim_refs_left_ = IF SimRefs = 0 \/ Asked <= SkipRefs THEN SimRefs
                          ELSE IF Asked < SkipRefs + SimRefs THEN SkipRefs + SimRefs - Asked
                          ELSE 0
  BY DEF Left
<1>3. Skips <=> ~InRange(Asked + 1)
  BY <1>1, <1>2 DEF Skips, InRange
<1>4. QED
  BY <1>1, <1>2, <1>3 DEF LastOfWindow, InRange

\* A record that counts moves the counters on.
LEMMA AdvanceLeft ==
    ASSUME Shape, Left, Advance, Asked' = Asked + 1
    PROVE  Left'
<1>1. Asked \in Nat /\ SkipRefs \in Nat /\ SimRefs \in Nat
  BY RecordFacts
<1>2. /\ skip_refs_left_ = IF Asked < SkipRefs THEN SkipRefs - Asked ELSE 0
      /\ sim_refs_left_ = IF SimRefs = 0 \/ Asked <= SkipRefs THEN SimRefs
                          ELSE IF Asked < SkipRefs + SimRefs THEN SkipRefs + SimRefs - Asked
                          ELSE 0
  BY DEF Left
<1>3. Skips <=> ~InRange(Asked + 1)
  BY NextInWindow
<1>4. /\ skip_refs_left_' = IF skip_refs_left_ > 0 THEN skip_refs_left_ - 1 ELSE 0
      /\ sim_refs_left_' = IF Skips \/ SimRefs = 0 THEN sim_refs_left_ ELSE sim_refs_left_ - 1
  BY DEF Advance
<1>5. skip_refs_left_' = IF Asked + 1 < SkipRefs THEN SkipRefs - (Asked + 1) ELSE 0
  BY <1>1, <1>2, <1>4
<1>6. sim_refs_left_' = IF SimRefs = 0 \/ Asked + 1 <= SkipRefs THEN SimRefs
                        ELSE IF Asked + 1 < SkipRefs + SimRefs THEN SkipRefs + SimRefs - (Asked + 1)
                        ELSE 0
  <2>1. CASE Asked + 1 <= SkipRefs
    BY <1>1, <1>2, <1>3, <1>4, <2>1 DEF InRange
  <2>2. CASE Asked + 1 > SkipRefs /\ SimRefs = 0
    BY <1>1, <1>2, <1>3, <1>4, <2>2 DEF InRange
  <2>3. CASE Asked + 1 > SkipRefs /\ SimRefs > 0
    BY <1>1, <1>2, <1>3, <1>4, <2>3 DEF InRange
  <2>4. QED
    BY <1>1, <2>1, <2>2, <2>3
<1>7. QED
  BY <1>5, <1>6 DEF Left

Instrs == {i \in Window : records[i].kind = "instr"}

\* What a record adds to the window.
LEMMA WindowGrows ==
    ASSUME Shape, NEW kind, NEW value, Receive(kind, value)
    PROVE  /\ Stamps' = IF kind = "timestamp" /\ InRange(Asked + 1)
                          THEN Stamps \cup {Len(records) + 1} ELSE Stamps
           /\ Stamp' = IF kind = "timestamp" /\ InRange(Asked + 1) THEN value ELSE Stamp
           /\ Cardinality(Instrs') = Cardinality(Instrs)
                                       + (IF kind = "instr" /\ InRange(Asked + 1) THEN 1 ELSE 0)
           /\ Cardinality(Instrs) \in Nat
<1>0. PICK k : k = Len(records) + 1
  OBVIOUS
<1>1. /\ Len(records) \in Nat /\ DOMAIN records = 1 .. Len(records)
      /\ IsFiniteSet(Window) /\ Window \subseteq Countable /\ Countable \subseteq 1 .. Len(records)
  BY RecordFacts
<1>2. /\ records'[k].kind = kind /\ records'[k].value = value
      /\ \A i \in DOMAIN records : records'[i] = records[i]
      /\ kind \in {"version", "filetype"} => Window' = Window
      /\ kind \notin {"version", "filetype"} =>
           Window' = IF InRange(Asked + 1) THEN Window \cup {k} ELSE Window
  <2>1. records'[k] = [kind |-> kind, value |-> value]
    BY <1>0, ReceiveFacts
  <2>2. records'[k].kind = kind /\ records'[k].value = value
    BY <2>1
  <2>3. QED
    BY <1>0, <2>2, ReceiveFacts
<1>3. \A i \in Window : i \in DOMAIN records /\ i <= Len(records) /\ i # k /\ records'[i] = records[i]
  BY <1>0, <1>1, <1>2
<1>4. Stamps' = IF kind = "timestamp" /\ InRange(Asked + 1) THEN Stamps \cup {k} ELSE Stamps
  <2>1. Stamps = {i \in Window : records[i].kind = "timestamp"}
        /\ Stamps' = {i \in Window' : records'[i].kind = "timestamp"}
    BY DEF Stamps
  <2>2. QED
    BY <1>2, <1>3, <2>1
<1>5. Instrs' = IF kind = "instr" /\ InRange(Asked + 1) THEN Instrs \cup {k} ELSE Instrs
  <2>1. Instrs = {i \in Window : records[i].kind = "instr"}
        /\ Instrs' = {i \in Window' : records'[i].kind = "instr"}
    BY DEF Instrs
  <2>2. QED
    BY <1>2, <1>3, <2>1
<1>6. Cardinality(Instrs') = Cardinality(Instrs) + (IF kind = "instr" /\ InRange(Asked + 1) THEN 1 ELSE 0)
      /\ Cardinality(Instrs) \in Nat
  <2>1. IsFiniteSet(Instrs) /\ k \notin Instrs
    BY <1>1, <1>3, FS_Subset DEF Instrs
  <2>2. Cardinality(Instrs) \in Nat /\ Cardinality(Instrs \cup {k}) = Cardinality(Instrs) + 1
    BY <2>1, FS_AddElement, FS_CardinalityType
  <2>3. QED
    BY <1>5, <2>2
<1>7. Stamps \subseteq 0 .. Len(records) /\ \A i \in Stamps : i \in Window
  <2>1. Stamps \subseteq Window
    BY DEF Stamps
  <2>2. 1 .. Len(records) \subseteq 0 .. Len(records)
    BY <1>1
  <2>3. QED
    BY <1>1, <2>1, <2>2, Zenon
<1>8. Stamp' = IF kind = "timestamp" /\ InRange(Asked + 1) THEN value ELSE Stamp
  <2>0. Stamp' = IF Stamps' = {} THEN 0 ELSE records'[Max(Stamps')].value
    BY DEF Stamp
  <2>1. CASE kind = "timestamp" /\ InRange(Asked + 1)
    <3>1. Stamps' = Stamps \cup {k}
      BY <1>4, <2>1
    <3>2. Stamps' \in SUBSET Int /\ k \in Stamps' /\ \A i \in Stamps' : i <= k
      <4>1. \A i \in Stamps : i \in Int /\ i <= k
        BY <1>0, <1>1, <1>3, <1>7
      <4>2. k \in Int /\ k <= k
        BY <1>0, <1>1
      <4>3. QED
        BY <3>1, <4>1, <4>2
    <3>3. Max(Stamps') = k
      BY <3>2, MaxIs
    <3>4. QED
      BY <1>2, <2>0, <2>1, <3>2, <3>3
  <2>2. CASE ~(kind = "timestamp" /\ InRange(Asked + 1))
    <3>1. Stamps' = Stamps
      BY <1>4, <2>2
    <3>2. CASE Stamps = {}
      BY <2>0, <2>2, <3>1, <3>2 DEF Stamp
    <3>3. CASE Stamps # {}
      <4>1. Max(Stamps) \in Stamps
        BY <1>1, <1>7, <3>3, MaxProperties
      <4>2. records'[Max(Stamps)] = records[Max(Stamps)]
        BY <1>3, <1>7, <4>1
      <4>3. QED
        BY <2>0, <2>2, <3>1, <3>3, <4>2 DEF Stamp
    <3>4. QED
      BY <3>2, <3>3
  <2>3. QED
    BY <2>1, <2>2
<1>9. QED
  BY <1>0, <1>4, <1>6, <1>8

\* The timestamp of the window is none or a time; before the window there is none.
LEMMA StampFacts ==
    ASSUME Shape
    PROVE  /\ Stamp = 0 <=> Stamps = {}
           /\ Stamp \in Nat
           /\ Asked <= SkipRefs => Stamps = {}
<1>1. /\ Len(records) \in Nat /\ DOMAIN records = 1 .. Len(records)
      /\ IsFiniteSet(Countable) /\ Asked \in Nat /\ Countable \subseteq 1 .. Len(records)
      /\ Window \subseteq Countable /\ SkipRefs \in Nat /\ SimRefs \in Nat
  BY RecordFacts
<1>2. Stamps \subseteq 0 .. Len(records) /\ Stamps \subseteq Window /\ Stamps \subseteq DOMAIN records
  <2>1. Stamps \subseteq Window
    BY DEF Stamps
  <2>2. 1 .. Len(records) \subseteq 0 .. Len(records)
    BY <1>1
  <2>3. QED
    BY <1>1, <2>1, <2>2, Zenon
<1>3. Stamps # {} => Stamp \in Nat /\ Stamp # 0
  <2> SUFFICES ASSUME Stamps # {}
               PROVE  Stamp \in Nat /\ Stamp # 0
    OBVIOUS
  <2>1. Max(Stamps) \in Stamps
    BY <1>1, <1>2, MaxProperties
  <2>2. records[Max(Stamps)].kind = "timestamp" /\ Max(Stamps) \in DOMAIN records
    BY <1>2, <2>1 DEF Stamps
  <2>3. records[Max(Stamps)].value \in Time
    BY <2>2 DEF Shape
  <2>4. Stamp = records[Max(Stamps)].value
    BY DEF Stamp
  <2>5. QED
    BY <2>3, <2>4, TimeAssumption
<1>4. Asked <= SkipRefs => Stamps = {}
  <2> SUFFICES ASSUME Asked <= SkipRefs, NEW i \in Window
               PROVE  FALSE
    BY <1>2
  <2>1. Rank(i) > SkipRefs
    BY DEF Window
  <2>2. {j \in Countable : j <= i} \subseteq Countable
    OBVIOUS
  <2>3. Rank(i) <= Asked /\ Rank(i) \in Nat
    BY <1>1, <2>2, FS_Subset, FS_CardinalityType DEF Rank, Asked
  <2>4. QED
    BY <1>1, <2>1, <2>3
<1>5. QED
  BY <1>3, <1>4 DEF Stamp

\* A record that counts keeps Left and Stamped.
LEMMA AskedStamped ==
    ASSUME Shape, Left, Stamped,
           NEW kind, kind \notin {"version", "filetype"}, NEW value, Receive(kind, value),
           kind = "timestamp" => value \in Time,
           NEW now, now = IF kind = "timestamp" THEN value ELSE timestamp_,
           Advance,
           Skips => timestamp_' \in {0, timestamp_} /\ printed' = printed,
           ~Skips => IF LastOfWindow /\ now > 0 THEN printed' = Append(printed, now)
                     ELSE timestamp_' = now /\ printed' = printed
    PROVE  Left' /\ Stamped'
<1>1. Asked \in Nat /\ SkipRefs \in Nat /\ SimRefs \in Nat
  BY RecordFacts
<1>2. Asked' = Asked + 1
  BY ReceiveFacts
<1>3. /\ Skips <=> ~InRange(Asked + 1)
      /\ LastOfWindow <=> InRange(Asked + 1) /\ SimRefs > 0 /\ Asked + 1 = SkipRefs + SimRefs
  BY NextInWindow
<1>4. /\ Over <=> SimRefs > 0 /\ Asked >= SkipRefs + SimRefs
      /\ Over' <=> SimRefs > 0 /\ Asked + 1 >= SkipRefs + SimRefs
  BY <1>2 DEF Over
<1>5. /\ Stamps' = IF kind = "timestamp" /\ InRange(Asked + 1)
                     THEN Stamps \cup {Len(records) + 1} ELSE Stamps
      /\ Stamp' = IF kind = "timestamp" /\ InRange(Asked + 1) THEN value ELSE Stamp
  BY WindowGrows
<1>6. /\ Stamp = 0 <=> Stamps = {}
      /\ Stamp \in Nat
      /\ Asked <= SkipRefs => Stamps = {}
  BY StampFacts
<1>7. /\ Over => printed = IF Stamps = {} THEN <<>> ELSE <<Stamp>>
      /\ ~Over => printed = <<>> /\ timestamp_ = Stamp
  BY DEF Stamped
<1>8. Left'
  BY <1>2, AdvanceLeft
<1>9. CASE Over
  <2>1. ~InRange(Asked + 1) /\ Over'
    BY <1>1, <1>4, <1>9 DEF InRange
  <2>2. Stamps' = Stamps /\ Stamp' = Stamp /\ printed' = printed
    BY <1>3, <1>5, <2>1
  <2>3. QED
    BY <1>7, <1>8, <1>9, <2>1, <2>2 DEF Stamped
<1>10. CASE ~Over /\ ~InRange(Asked + 1)
  <2>1. Asked + 1 <= SkipRefs /\ ~Over'
    BY <1>1, <1>4, <1>10 DEF InRange
  <2>2. Stamps' = Stamps /\ Stamp' = Stamp /\ Stamp = 0
    BY <1>1, <1>5, <1>6, <1>10, <2>1
  <2>3. printed' = <<>> /\ timestamp_' = 0
    BY <1>3, <1>7, <1>10, <2>2
  <2>4. QED
    BY <1>8, <2>1, <2>2, <2>3 DEF Stamped
<1>11. CASE ~Over /\ InRange(Asked + 1)
  <2>1. Stamp' = now
    BY <1>5, <1>7, <1>11
  <2>2. now > 0 <=> Stamps' # {}
    <3>1. CASE kind = "timestamp"
      <4>1. now \in Time /\ Stamps' # {}
        BY <1>5, <1>11, <3>1
      <4>2. QED
        BY <4>1, TimeAssumption
    <3>2. CASE kind # "timestamp"
      BY <1>5, <1>6, <1>7, <1>11, <3>2
    <3>3. QED
      BY <3>1, <3>2
  <2>3. CASE LastOfWindow
    <3>1. Over'
      BY <1>1, <1>3, <1>4, <2>3
    <3>2. CASE now > 0
      <4>1. printed' = <<now>>
        BY <1>3, <1>7, <1>11, <2>3, <3>2
      <4>2. QED
        BY <1>8, <2>1, <2>2, <3>1, <3>2, <4>1 DEF Stamped
    <3>3. CASE ~(now > 0)
      <4>1. printed' = <<>>
        BY <1>3, <1>7, <1>11, <2>3, <3>3
      <4>2. QED
        BY <1>8, <2>2, <3>1, <3>3, <4>1 DEF Stamped
    <3>4. QED
      BY <3>2, <3>3
  <2>4. CASE ~LastOfWindow
    <3>1. ~Over'
      BY <1>1, <1>3, <1>4, <1>11, <2>4
    <3>2. printed' = <<>> /\ timestamp_' = now
      BY <1>3, <1>7, <1>11, <2>4
    <3>3. QED
      BY <1>8, <2>1, <3>1, <3>2 DEF Stamped
  <2>5. QED
    BY <2>3, <2>4
<1>12. QED
  BY <1>9, <1>10, <1>11

\* Every step keeps what the window holds.
LEMMA StepWindow == Shape /\ Left /\ Stamped /\ WindowExact /\ Next => Left' /\ Stamped' /\ WindowExact'
<1> SUFFICES ASSUME Shape, Left, Stamped, WindowExact, Next
             PROVE  Left' /\ Stamped' /\ WindowExact'
  OBVIOUS
<1> DEFINE Kept == UNCHANGED <<skip_refs_left_, sim_refs_left_, timestamp_, printed>>
<1>1. /\ Left <=> /\ skip_refs_left_ = IF Asked < SkipRefs THEN SkipRefs - Asked ELSE 0
                  /\ sim_refs_left_ = IF SimRefs = 0 \/ Asked <= SkipRefs THEN SimRefs
                                      ELSE IF Asked < SkipRefs + SimRefs THEN SkipRefs + SimRefs - Asked
                                      ELSE 0
      /\ Stamped <=> IF Over THEN printed = IF Stamps = {} THEN <<>> ELSE <<Stamp>>
                     ELSE printed = <<>> /\ timestamp_ = Stamp
      /\ Over <=> SimRefs > 0 /\ Asked >= SkipRefs + SimRefs
  BY DEF Left, Stamped, Over
<1>2. WindowExact <=> (stage # "killed" => Len(shown) = Cardinality(Instrs))
  BY DEF WindowExact, Instrs
<1>3. Shape /\ Len(shown) \in Nat
  BY DEF Shape
<1>4. ASSUME UNCHANGED records, Kept
      PROVE  Left' /\ Stamped' /\ Instrs' = Instrs
  <2>1. Countable' = Countable
    BY <1>4 DEF Countable
  <2>2. Asked' = Asked
    BY <2>1 DEF Asked
  <2>3. \A i : Rank(i)' = Rank(i)
    BY <2>1 DEF Rank
  <2>4. Window' = Window
    BY <2>1, <2>3 DEF Window
  <2>5. Stamps' = Stamps /\ Instrs' = Instrs
    BY <1>4, <2>4 DEF Stamps, Instrs
  <2>6. Stamp' = Stamp
    BY <1>4, <2>5 DEF Stamp
  <2>7. Left'
    BY <1>1, <1>4, <2>2 DEF Left
  <2>8. Stamped'
    BY <1>1, <1>4, <2>2, <2>5, <2>6 DEF Stamped, Over
  <2>9. QED
    BY <2>5, <2>7, <2>8
<1>5. ASSUME NEW kind \in {"version", "filetype"}, NEW value, Receive(kind, value), Kept
      PROVE  Left' /\ Stamped' /\ Cardinality(Instrs') = Cardinality(Instrs)
  <2>1. Asked' = Asked
    BY <1>5, ReceiveFacts
  <2>2. /\ Stamps' = Stamps /\ Stamp' = Stamp
        /\ Cardinality(Instrs') = Cardinality(Instrs) + 0 /\ Cardinality(Instrs) \in Nat
    BY <1>5, WindowGrows
  <2>3. Left'
    BY <1>1, <1>5, <2>1 DEF Left
  <2>4. Stamped'
    BY <1>1, <1>5, <2>1, <2>2 DEF Stamped, Over
  <2>5. QED
    BY <2>2, <2>3, <2>4
<1>6. ASSUME NEW kind \in {"other", "instr"}, NEW value, Receive(kind, value), ShouldSkip(timestamp_)
      PROVE  Left' /\ Stamped'
  <2>1. /\ Advance
        /\ IF LastOfWindow /\ timestamp_ > 0
             THEN printed' = Append(printed, timestamp_) /\ timestamp_' = 0
             ELSE timestamp_' = timestamp_ /\ UNCHANGED printed
    BY <1>6 DEF ShouldSkip
  <2>2. Skips => ~LastOfWindow
    BY DEF LastOfWindow
  <2>3. /\ Skips => timestamp_' \in {0, timestamp_} /\ printed' = printed
        /\ ~Skips => IF LastOfWindow /\ timestamp_ > 0 THEN printed' = Append(printed, timestamp_)
                     ELSE timestamp_' = timestamp_ /\ printed' = printed
    BY <2>1, <2>2
  <2>4. PICK now : now = timestamp_
    OBVIOUS
  <2>5. /\ now = IF kind = "timestamp" THEN value ELSE timestamp_
        /\ kind \notin {"version", "filetype"} /\ (kind = "timestamp" => value \in Time)
        /\ Advance
        /\ Skips => timestamp_' \in {0, timestamp_} /\ printed' = printed
        /\ ~Skips => IF LastOfWindow /\ now > 0 THEN printed' = Append(printed, now)
                     ELSE timestamp_' = now /\ printed' = printed
    BY <2>1, <2>3, <2>4
  <2>6. QED
    BY <1>6, <2>5, AskedStamped
<1>7. CASE InitializeStream \/ PrintResults
  <2>1. UNCHANGED records /\ Kept /\ UNCHANGED shown /\ stage # "killed"
    BY <1>7 DEF InitializeStream, PrintResults, window
  <2>2. QED
    BY <1>2, <1>4, <2>1 DEF WindowExact, Instrs
<1>8. CASE ProcessMemref
  <2>0. stage = "running"
    BY <1>8 DEF ProcessMemref
  <2>1. ASSUME NEW version \in Version, VersionMarker(version)
        PROVE  Left' /\ Stamped' /\ WindowExact'
    <3>1. Receive("version", version) /\ Kept /\ UNCHANGED shown
      BY <2>1 DEF VersionMarker, window
    <3>2. Left' /\ Stamped' /\ Cardinality(Instrs') = Cardinality(Instrs)
      BY <1>5, <3>1
    <3>3. QED
      BY <1>2, <2>0, <3>1, <3>2 DEF WindowExact, Instrs
  <2>2. ASSUME NEW filetype \in FileType, FiletypeMarker(filetype)
        PROVE  Left' /\ Stamped' /\ WindowExact'
    <3>1. Receive("filetype", filetype) /\ Kept /\ UNCHANGED shown
      BY <2>2 DEF FiletypeMarker, window
    <3>2. Left' /\ Stamped' /\ Cardinality(Instrs') = Cardinality(Instrs)
      BY <1>5, <3>1
    <3>3. QED
      BY <1>2, <2>0, <3>1, <3>2 DEF WindowExact, Instrs
  <2>3. ASSUME NEW time \in Time, TimestampMarker(time)
        PROVE  Left' /\ Stamped' /\ WindowExact'
    <3>1. /\ Receive("timestamp", time) /\ UNCHANGED shown
          /\ IF Skips THEN Advance /\ timestamp_' = 0 /\ UNCHANGED printed ELSE ShouldSkip(time)
      BY <2>3 DEF TimestampMarker
    <3>2. /\ Advance
          /\ Skips => timestamp_' \in {0, timestamp_} /\ printed' = printed
          /\ ~Skips => IF LastOfWindow /\ time > 0 THEN printed' = Append(printed, time)
                       ELSE timestamp_' = time /\ printed' = printed
      BY <3>1 DEF ShouldSkip
    <3>3. PICK kind : kind = "timestamp"
      OBVIOUS
    <3>4. Receive(kind, time)
      BY <3>1, <3>3
    <3>5. kind \notin {"version", "filetype"} /\ time = IF kind = "timestamp" THEN time ELSE timestamp_
      BY <3>3
    <3>6. Left' /\ Stamped'
      BY <3>2, <3>4, <3>5, AskedStamped
    <3>7. Cardinality(Instrs') = Cardinality(Instrs) + 0 /\ Cardinality(Instrs) \in Nat
      BY <3>3, <3>4, WindowGrows
    <3>8. QED
      BY <1>2, <2>0, <3>1, <3>6, <3>7 DEF WindowExact, Instrs
  <2>4. CASE OtherRecord
    <3>1. Receive("other", 0) /\ ShouldSkip(timestamp_) /\ UNCHANGED shown
      BY <2>4 DEF OtherRecord
    <3>2. Left' /\ Stamped'
      BY <1>6, <3>1
    <3>3. Cardinality(Instrs') = Cardinality(Instrs) + 0 /\ Cardinality(Instrs) \in Nat
      BY <3>1, WindowGrows
    <3>4. QED
      BY <1>2, <2>0, <3>1, <3>2, <3>3 DEF WindowExact, Instrs
  <2>5. ASSUME NEW thread \in Thread, NEW type \in InstrType, NEW addr \in Addr, NEW size \in Size,
               Instruction(thread, type, addr, size)
        PROVE  Left' /\ Stamped' /\ WindowExact'
    <3>1. Receive("instr", 0) /\ ShouldSkip(timestamp_)
      BY <2>5 DEF Instruction, SkippedInstruction, ThrowingInstruction, UndecodedInstruction,
                  DecodedInstruction
    <3>2. Left' /\ Stamped'
      BY <1>6, <3>1
    <3>3. Skips <=> ~InRange(Asked + 1)
      BY NextInWindow
    <3>4. /\ Cardinality(Instrs') = Cardinality(Instrs) + (IF InRange(Asked + 1) THEN 1 ELSE 0)
          /\ Cardinality(Instrs) \in Nat
      BY <3>1, WindowGrows
    <3>5. \/ stage' = "killed"
          \/ Skips /\ Len(shown') = Len(shown)
          \/ ~Skips /\ Len(shown') = Len(shown) + 1
      <4>1. CASE SkippedInstruction
        BY <4>1 DEF SkippedInstruction
      <4>2. CASE ThrowingInstruction(type, addr)
        BY <4>2 DEF ThrowingInstruction
      <4>3. CASE UndecodedInstruction(thread, type, addr, size) \/ DecodedInstruction(thread, type, addr, size)
        <5>1. ~Skips /\ Show(thread, type, addr, size)
          BY <4>3 DEF UndecodedInstruction, DecodedInstruction
        <5>2. Len(shown') = Len(shown) + 1
          BY <5>1, ShowTypes
        <5>3. QED
          BY <5>1, <5>2
      <4>4. QED
        BY <2>5, <4>1, <4>2, <4>3 DEF Instruction
    <3>6. stage' # "killed" => Len(shown') = Cardinality(Instrs')
      BY <1>2, <1>3, <2>0, <3>3, <3>4, <3>5
    <3>7. QED
      BY <3>2, <3>6 DEF WindowExact, Instrs
  <2>6. QED
    BY <1>8, <2>1, <2>2, <2>3, <2>4, <2>5 DEF ProcessMemref
<1>9. QED
  BY <1>7, <1>8 DEF Next

-----------------------------------------------------------------------------
(* The branches. *)

\* The branches are finitely many, and the last instruction is not resolved.
LEMMA BranchFacts ==
    ASSUME Shape
    PROVE  /\ Len(shown) \in Nat /\ DOMAIN shown = 1 .. Len(shown)
           /\ IsFiniteSet(Branches) /\ Branches \subseteq DOMAIN shown
           /\ IsFiniteSet(Resolved) /\ Resolved \subseteq Branches
           /\ \A i \in Resolved : i \in Nat /\ i + 1 \in DOMAIN shown /\ i < Len(shown)
           /\ \A i \in Branches : shown[i] \in Instr
<1>1. Len(shown) \in Nat /\ DOMAIN shown = 1 .. Len(shown)
  BY DEF Shape
<1>2. Branches \subseteq DOMAIN shown /\ Resolved \subseteq Branches
  BY DEF Branches, Resolved
<1>3. IsFiniteSet(1 .. Len(shown))
  BY <1>1, FS_Interval
<1>4. IsFiniteSet(Branches) /\ IsFiniteSet(Resolved)
  BY <1>1, <1>2, <1>3, FS_Subset
<1>5. \A i \in Resolved : i \in 1 .. Len(shown) /\ i < Len(shown)
  BY <1>1, <1>2 DEF Resolved
<1>6. \A i \in Resolved : i \in Nat /\ i + 1 \in DOMAIN shown /\ i < Len(shown)
  BY <1>1, <1>5
<1>7. \A i \in Branches : shown[i] \in Instr
  BY <1>2 DEF Shape
<1>8. QED
  BY <1>1, <1>2, <1>4, <1>6, <1>7

\* An instruction of the window resolves the branch before it.
LEMMA ShowBranches ==
    ASSUME Shape,
           NEW thread \in Thread, NEW type \in InstrType, NEW addr \in Addr, NEW size \in Size,
           Show(thread, type, addr, size), NEW k, k = Len(shown)
    PROVE  /\ Branches' = IF type = "conditional_jump" /\ Undecoded THEN Branches \cup {k + 1}
                                                                    ELSE Branches
           /\ k + 1 \notin Branches /\ Len(shown') = k + 1
           /\ Resolved' = IF k \in Branches THEN Resolved \cup {k} ELSE Resolved
           /\ k \notin Resolved
           /\ \A i \in Resolved : shown'[i] = shown[i] /\ shown'[i + 1] = shown[i + 1]
           /\ k \in Branches => shown'[k] = shown[k]
           /\ shown'[k + 1].addr = addr /\ shown'[k + 1].size = size
<1>1. /\ k \in Nat /\ DOMAIN shown = 1 .. k
      /\ Len(shown') = k + 1 /\ DOMAIN shown' = 1 .. k + 1
      /\ \A i \in DOMAIN shown : shown'[i] = shown[i]
      /\ shown'[k + 1].type = type /\ shown'[k + 1].decoded = ~Undecoded
      /\ shown'[k + 1].addr = addr /\ shown'[k + 1].size = size
  BY ShowTypes
<1>2. \A i : i \in 1 .. k + 1 <=> i \in 1 .. k \/ i = k + 1
  BY <1>1
<1>3. /\ Branches \subseteq 1 .. k
      /\ Branches = {i \in 1 .. k : ~shown[i].decoded /\ shown[i].type = "conditional_jump"}
      /\ Branches' = {i \in 1 .. k + 1 : ~shown'[i].decoded /\ shown'[i].type = "conditional_jump"}
  BY <1>1 DEF Branches
<1>4. k + 1 \notin 1 .. k
  BY <1>1
<1>5. Branches' = IF type = "conditional_jump" /\ Undecoded THEN Branches \cup {k + 1} ELSE Branches
  BY <1>1, <1>2, <1>3
<1>6. /\ Resolved = {i \in Branches : i < k}
      /\ Resolved' = {i \in Branches' : i < k + 1}
  BY <1>1 DEF Resolved
<1>7. \A i \in Branches : i \in Nat /\ (i < k + 1 <=> i < k \/ i = k)
  BY <1>1, <1>3
<1>8. \A i \in Branches' : i \in Branches \/ i = k + 1
  BY <1>5
<1>9. ~(k + 1 < k + 1)
  BY <1>1
<1>10. Resolved' = IF k \in Branches THEN Resolved \cup {k} ELSE Resolved
  <2>1. Branches \subseteq Branches'
    BY <1>5
  <2>2. \A i : i \in Resolved' <=> i \in Branches /\ (i < k \/ i = k)
    BY <1>6, <1>7, <1>8, <1>9, <2>1
  <2>3. \A i : i \in Resolved <=> i \in Branches /\ i < k
    BY <1>6
  <2>4. QED
    BY <2>2, <2>3
<1>11. k \notin Resolved
  BY <1>1, <1>6
<1>12. \A i \in Resolved : shown'[i] = shown[i] /\ shown'[i + 1] = shown[i + 1]
  <2>1. \A i \in Resolved : i \in 1 .. k /\ i < k
    BY <1>3, <1>6
  <2>2. \A i \in Resolved : i \in DOMAIN shown /\ i + 1 \in DOMAIN shown
    BY <1>1, <2>1
  <2>3. QED
    BY <1>1, <2>2
<1>13. QED
  BY <1>1, <1>3, <1>4, <1>5, <1>10, <1>11, <1>12

\* A step that shows no instruction keeps the branches.
LEMMA KeepBranches ==
    ASSUME UNCHANGED shown
    PROVE  /\ Branches' = Branches /\ Resolved' = Resolved
           /\ \A a : Behind(a)' = Behind(a) /\ Elsewhere(a)' = Elsewhere(a)
           /\ \A p : Wrong(p)' = Wrong(p)
<1>1. Branches' = Branches
  BY DEF Branches
<1>2. Resolved' = Resolved
  BY <1>1 DEF Resolved
<1>3. \A i, j : FallsThrough(i, j)' <=> FallsThrough(i, j)
  BY DEF FallsThrough
<1>4. \A a : Behind(a)' = Behind(a)
  BY <1>2, <1>3 DEF Behind
<1>5. \A a : Elsewhere(a)' = Elsewhere(a)
  BY <1>2, <1>3 DEF Elsewhere
<1>6. \A p : Wrong(p)' = Wrong(p)
  <2> TAKE p
  <2>1. /\ Wrong(p)' = {i \in Resolved' : FallsThrough(i, i + 1)' # p[shown'[i].addr]}
        /\ Wrong(p) = {i \in Resolved : FallsThrough(i, i + 1) # p[shown[i].addr]}
    BY DEF Wrong
  <2>2. \A i : FallsThrough(i, i + 1)' = FallsThrough(i, i + 1)
    BY DEF FallsThrough
  <2>3. QED
    BY <1>2, <2>1, <2>2
<1>7. QED
  BY <1>1, <1>2, <1>4, <1>5, <1>6

\* A step that shows an instruction, or none: the branches and what is counted.
Shows(thread, type, addr, size) ==
    /\ stage = "running" /\ stage' # "created"
    /\ Resolve(addr)
    /\ Show(thread, type, addr, size)
    /\ IF Undecoded THEN Remember(type, addr, size) ELSE UNCHANGED pending
    /\ UNCHANGED <<has_modules_, filetype_, report>>

ShowsNone ==
    /\ UNCHANGED <<shown, pending, counts>>
    /\ stage # "created" => UNCHANGED has_modules_
    /\ Undecoded => UNCHANGED filetype_
    /\ stage' # "created"
    /\ \/ UNCHANGED report
       \/ report'.entropy = SumFunction(Entropies)

\* Every step is of one of the two kinds.
LEMMA StepKinds ==
    ASSUME Next
    PROVE  \/ ShowsNone
           \/ \E thread \in Thread, type \in InstrType, addr \in Addr, size \in Size :
                Shows(thread, type, addr, size)
<1>1. CASE InitializeStream
  <2>1. ShowsNone
    BY <1>1 DEF InitializeStream, Fail, ShowsNone, headers
  <2>2. QED
    BY <2>1
<1>2. CASE PrintResults
  <2>1. /\ stage = "running" /\ stage' = "printed" /\ UNCHANGED <<shown, pending, counts, has_modules_, headers>>
    BY <1>2 DEF PrintResults
  <2>2. report'.entropy = SumFunction(Entropies)
    BY <1>2 DEF PrintResults, Entropies
  <2>3. ShowsNone
    BY <2>1, <2>2 DEF ShowsNone, headers
  <2>4. QED
    BY <2>3
<1>3. CASE ProcessMemref
  <2>0. stage = "running"
    BY <1>3 DEF ProcessMemref
  <2>1. ASSUME NEW version \in Version, VersionMarker(version)
        PROVE  ShowsNone
    BY <2>0, <2>1 DEF VersionMarker, ShowsNone, Continue, Fail
  <2>2. ASSUME NEW filetype \in FileType, FiletypeMarker(filetype)
        PROVE  ShowsNone
    <3>1. Undecoded => UNCHANGED filetype_
      BY <2>2 DEF FiletypeMarker, Undecoded, Encoded
    <3>2. UNCHANGED <<has_modules_, shown, pending, counts, report>>
      BY <2>2 DEF FiletypeMarker
    <3>3. stage' # "created"
      BY <2>0, <2>2 DEF FiletypeMarker, Continue, Fail
    <3>4. QED
      BY <2>0, <3>1, <3>2, <3>3 DEF ShowsNone
  <2>3. ASSUME NEW time \in Time, TimestampMarker(time)
        PROVE  ShowsNone
    BY <2>0, <2>3 DEF TimestampMarker, ShowsNone, headers
  <2>4. ASSUME OtherRecord
        PROVE  ShowsNone
    BY <2>0, <2>4 DEF OtherRecord, ShowsNone, headers
  <2>5. ASSUME NEW thread \in Thread, NEW type \in InstrType, NEW addr \in Addr, NEW size \in Size,
               Instruction(thread, type, addr, size)
        PROVE  ShowsNone \/ Shows(thread, type, addr, size)
    <3>1. CASE SkippedInstruction
      BY <2>0, <3>1 DEF SkippedInstruction, ShowsNone, headers
    <3>2. CASE ThrowingInstruction(type, addr)
      BY <2>0, <3>2 DEF ThrowingInstruction, ShowsNone, headers
    <3>3. CASE UndecodedInstruction(thread, type, addr, size)
      BY <2>0, <3>3 DEF UndecodedInstruction, Shows, headers
    <3>4. CASE DecodedInstruction(thread, type, addr, size)
      BY <2>0, <3>4 DEF DecodedInstruction, Shows, Continue, Fail, headers
    <3>5. QED
      BY <2>5, <3>1, <3>2, <3>3, <3>4 DEF Instruction
  <2>6. QED
    BY <1>3, <2>1, <2>2, <2>3, <2>4, <2>5 DEF ProcessMemref
<1>4. QED
  BY <1>1, <1>2, <1>3 DEF Next

\* Every step keeps what is pending.
LEMMA StepPending ==
    ASSUME Shape, PendingLast, Next
    PROVE  PendingLast'
<1>1. CASE ShowsNone
  <2>1. UNCHANGED <<shown, zf_cbr, zf_last_addr, zf_last_addr_size>>
    BY <1>1 DEF ShowsNone, pending
  <2>2. Branches' = Branches
    BY <2>1, KeepBranches
  <2>3. zf_cbr => Undecoded' /\ stage' # "created"
    BY <1>1 DEF PendingLast, ShowsNone, Undecoded, Encoded
  <2>4. QED
    BY <2>1, <2>2, <2>3 DEF PendingLast
<1>2. ASSUME NEW thread \in Thread, NEW type \in InstrType, NEW addr \in Addr, NEW size \in Size,
             Shows(thread, type, addr, size)
      PROVE  PendingLast'
  <2>1. PICK k : k = Len(shown)
    OBVIOUS
  <2>2. Show(thread, type, addr, size)
    BY <1>2 DEF Shows
  <2>3. /\ Branches' = IF type = "conditional_jump" /\ Undecoded THEN Branches \cup {k + 1} ELSE Branches
        /\ k + 1 \notin Branches /\ Len(shown') = k + 1
        /\ shown'[k + 1].addr = addr /\ shown'[k + 1].size = size
    BY <2>1, <2>2, ShowBranches
  <2>4. Undecoded' <=> Undecoded
    BY <1>2 DEF Shows, Undecoded, Encoded
  <2>5. stage' # "created"
    BY <1>2 DEF Shows
  <2>6. CASE Undecoded
    <3>1. /\ zf_cbr' = (type = "conditional_jump")
          /\ type = "conditional_jump" => zf_last_addr' = addr /\ zf_last_addr_size' = size
      BY <1>2, <2>6 DEF Shows, Remember
    <3>2. QED
      BY <2>3, <2>4, <2>5, <2>6, <3>1 DEF PendingLast
  <2>7. CASE ~Undecoded
    <3>1. ~zf_cbr /\ zf_cbr' = zf_cbr
      BY <1>2, <2>7 DEF Shows, pending, PendingLast
    <3>2. QED
      BY <2>3, <2>7, <3>1 DEF PendingLast
  <2>8. QED
    BY <2>6, <2>7
<1>3. QED
  BY <1>1, <1>2, StepKinds

-----------------------------------------------------------------------------
(* The outcomes. *)

\* What an instruction does to the counts: none is counted, or one more for the
\* address of the pending branch.
LEMMA OutcomeCounted ==
    ASSUME Shape, PendingLast,
           NEW thread \in Thread, NEW type \in InstrType, NEW addr \in Addr, NEW size \in Size,
           Shows(thread, type, addr, size), NEW k, k = Len(shown)
    PROVE  /\ \A i \in Resolved : shown'[i] = shown[i] /\ (FallsThrough(i, i + 1)' = FallsThrough(i, i + 1))
           /\ ~zf_cbr => Resolved' = Resolved /\ UNCHANGED counts
           /\ zf_cbr => /\ Resolved' = Resolved \cup {k} /\ k \notin Resolved
                        /\ shown'[k].addr = zf_last_addr /\ zf_last_addr \in Addr
                        /\ UpdateCBRM(zf_last_addr, FallsThrough(k, k + 1)')
                        /\ FallsThrough(k, k + 1)' \in BOOLEAN
                        /\ zf_taken' = IF FallsThrough(k, k + 1)' THEN zf_taken + 1 ELSE zf_taken
                        /\ zf_untaken' = IF FallsThrough(k, k + 1)' THEN zf_untaken ELSE zf_untaken + 1
<1> DEFINE behind == zf_last_addr + zf_last_addr_size = addr
<1>1. Show(thread, type, addr, size) /\ Resolve(addr)
  BY DEF Shows
<1>2. /\ Resolved' = IF k \in Branches THEN Resolved \cup {k} ELSE Resolved
      /\ k \notin Resolved
      /\ \A i \in Resolved : shown'[i] = shown[i] /\ shown'[i + 1] = shown[i + 1]
      /\ k \in Branches => shown'[k] = shown[k]
      /\ shown'[k + 1].addr = addr
  BY <1>1, ShowBranches
<1>3. \A i \in Resolved : shown'[i] = shown[i] /\ (FallsThrough(i, i + 1)' = FallsThrough(i, i + 1))
  BY <1>2 DEF FallsThrough
<1>4. zf_cbr <=> k \in Branches
  BY DEF PendingLast
<1>5. ~zf_cbr => Resolved' = Resolved /\ UNCHANGED counts
  BY <1>1, <1>2, <1>4 DEF Resolve
<1>6. ASSUME zf_cbr
      PROVE  /\ Resolved' = Resolved \cup {k} /\ k \notin Resolved
             /\ shown'[k].addr = zf_last_addr /\ zf_last_addr \in Addr
             /\ UpdateCBRM(zf_last_addr, FallsThrough(k, k + 1)')
             /\ FallsThrough(k, k + 1)' \in BOOLEAN
             /\ zf_taken' = IF FallsThrough(k, k + 1)' THEN zf_taken + 1 ELSE zf_taken
             /\ zf_untaken' = IF FallsThrough(k, k + 1)' THEN zf_untaken ELSE zf_untaken + 1
  <2>1. shown'[k].addr = zf_last_addr /\ shown'[k].size = zf_last_addr_size
    BY <1>2, <1>4, <1>6 DEF PendingLast
  <2>2. zf_last_addr \in Addr
    <3>1. shown[k] \in Instr
      BY <1>4, <1>6, BranchFacts
    <3>2. QED
      BY <1>6, <3>1 DEF PendingLast, Instr
  <2>3. FallsThrough(k, k + 1)' = behind
    BY <1>2, <2>1 DEF FallsThrough
  <2>4. /\ UpdateCBRM(zf_last_addr, behind)
        /\ zf_taken' = IF behind THEN zf_taken + 1 ELSE zf_taken
        /\ zf_untaken' = IF behind THEN zf_untaken ELSE zf_untaken + 1
    BY <1>1, <1>6 DEF Resolve
  <2>5. behind \in BOOLEAN
    OBVIOUS
  <2> HIDE DEF behind
  <2>6. QED
    BY <1>2, <1>4, <1>6, <2>1, <2>2, <2>3, <2>4, <2>5
<1>7. QED
  BY <1>3, <1>5, <1>6

\* What Outcomes says of the counts of an address.
LEMMA CountedOutcomes ==
    ASSUME Shape, Outcomes, NEW a \in Addr
    PROVE  /\ Counted(a) = <<Cardinality(Behind(a)), Cardinality(Elsewhere(a))>>
           /\ a \in DOMAIN cbrm <=> Behind(a) \cup Elsewhere(a) # {}
           /\ IsFiniteSet(Behind(a)) /\ IsFiniteSet(Elsewhere(a))
           /\ Cardinality(Behind(a)) \in Nat /\ Cardinality(Elsewhere(a)) \in Nat
<1>1. IsFiniteSet(Resolved) /\ Behind(a) \subseteq Resolved /\ Elsewhere(a) \subseteq Resolved
  BY BranchFacts DEF Behind, Elsewhere
<1>2. /\ IsFiniteSet(Behind(a)) /\ IsFiniteSet(Elsewhere(a))
      /\ Cardinality(Behind(a)) \in Nat /\ Cardinality(Elsewhere(a)) \in Nat
  BY <1>1, FS_Subset, FS_CardinalityType
<1>3. IF Behind(a) \cup Elsewhere(a) = {} THEN a \notin DOMAIN cbrm
      ELSE a \in DOMAIN cbrm /\ cbrm[a] = <<Cardinality(Behind(a)), Cardinality(Elsewhere(a))>>
  BY DEF Outcomes
<1>4. CASE Behind(a) \cup Elsewhere(a) = {}
  <2>1. Behind(a) = {} /\ Elsewhere(a) = {}
    BY <1>4
  <2>2. Cardinality(Behind(a)) = 0 /\ Cardinality(Elsewhere(a)) = 0
    BY <2>1, FS_EmptySet
  <2>3. QED
    BY <1>2, <1>3, <1>4, <2>2 DEF Counted
<1>5. CASE Behind(a) \cup Elsewhere(a) # {}
  BY <1>2, <1>3, <1>5 DEF Counted
<1>6. QED
  BY <1>4, <1>5

\* Every step keeps what is counted for the addresses.
LEMMA StepOutcomes ==
    ASSUME Shape, PendingLast, Outcomes, Next
    PROVE  Outcomes'
<1>1. CASE ShowsNone
  <2>1. UNCHANGED shown /\ cbrm' = cbrm
    BY <1>1 DEF ShowsNone, counts
  <2>2. \A a : Behind(a)' = Behind(a) /\ Elsewhere(a)' = Elsewhere(a)
    BY <2>1, KeepBranches
  <2>3. QED
    BY <2>1, <2>2 DEF Outcomes
<1>2. ASSUME NEW thread \in Thread, NEW type \in InstrType, NEW addr \in Addr, NEW size \in Size,
             Shows(thread, type, addr, size), NEW a \in Addr
      PROVE  IF Behind(a)' \cup Elsewhere(a)' = {} THEN a \notin DOMAIN cbrm'
             ELSE a \in DOMAIN cbrm' /\ cbrm'[a] = <<Cardinality(Behind(a)'), Cardinality(Elsewhere(a)')>>
  <2>1. PICK k : k = Len(shown)
    OBVIOUS
  <2>2. PICK out : out = FallsThrough(k, k + 1)'
    OBVIOUS
  <2>3. /\ \A i \in Resolved : shown'[i] = shown[i] /\ (FallsThrough(i, i + 1)' = FallsThrough(i, i + 1))
        /\ ~zf_cbr => Resolved' = Resolved /\ UNCHANGED counts
        /\ zf_cbr => /\ Resolved' = Resolved \cup {k} /\ k \notin Resolved
                     /\ shown'[k].addr = zf_last_addr /\ zf_last_addr \in Addr
                     /\ UpdateCBRM(zf_last_addr, out) /\ out \in BOOLEAN
    BY <1>2, <2>1, <2>2, OutcomeCounted
  <2>4. /\ Behind(a) = {i \in Resolved : shown[i].addr = a /\ FallsThrough(i, i + 1)}
        /\ Elsewhere(a) = {i \in Resolved : shown[i].addr = a /\ ~FallsThrough(i, i + 1)}
        /\ Behind(a)' = {i \in Resolved' : shown'[i].addr = a /\ FallsThrough(i, i + 1)'}
        /\ Elsewhere(a)' = {i \in Resolved' : shown'[i].addr = a /\ ~FallsThrough(i, i + 1)'}
    BY DEF Behind, Elsewhere
  <2>5. /\ Counted(a) = <<Cardinality(Behind(a)), Cardinality(Elsewhere(a))>>
        /\ a \in DOMAIN cbrm <=> Behind(a) \cup Elsewhere(a) # {}
        /\ IsFiniteSet(Behind(a)) /\ IsFiniteSet(Elsewhere(a))
        /\ Cardinality(Behind(a)) \in Nat /\ Cardinality(Elsewhere(a)) \in Nat
    BY <1>2, CountedOutcomes
  <2>6. CASE ~zf_cbr \/ zf_last_addr # a
    <3>1. Behind(a)' = Behind(a) /\ Elsewhere(a)' = Elsewhere(a)
      <4>1. CASE ~zf_cbr
        BY <2>3, <2>4, <4>1
      <4>2. CASE zf_cbr /\ zf_last_addr # a
        BY <2>3, <2>4, <4>2
      <4>3. QED
        BY <2>6, <4>1, <4>2
    <3>2. /\ a \in DOMAIN cbrm' <=> a \in DOMAIN cbrm
          /\ a \in DOMAIN cbrm => cbrm'[a] = cbrm[a]
      <4>1. CASE ~zf_cbr
        BY <2>3, <4>1 DEF counts
      <4>2. CASE zf_cbr
        <5>1. /\ DOMAIN cbrm' = DOMAIN cbrm \cup {zf_last_addr}
              /\ \A b \in DOMAIN cbrm : b # zf_last_addr => cbrm'[b] = cbrm[b]
          BY <2>3, <4>2, UpdateFacts
        <5>2. QED
          BY <2>6, <4>2, <5>1
      <4>3. QED
        BY <4>1, <4>2
    <3>3. QED
      BY <2>5, <3>1, <3>2 DEF Counted
  <2>7. CASE zf_cbr /\ zf_last_addr = a
    <3>1. /\ Resolved' = Resolved \cup {k} /\ k \notin Resolved /\ shown'[k].addr = a
          /\ UpdateCBRM(a, out) /\ out \in BOOLEAN
      BY <2>3, <2>7
    <3>2. /\ DOMAIN cbrm' = DOMAIN cbrm \cup {a}
          /\ cbrm'[a] = IF out THEN <<Counted(a)[1] + 1, Counted(a)[2]>>
                               ELSE <<Counted(a)[1], Counted(a)[2] + 1>>
      BY <1>2, <3>1, UpdateFacts
    <3>3. /\ Behind(a)' = IF out THEN Behind(a) \cup {k} ELSE Behind(a)
          /\ Elsewhere(a)' = IF out THEN Elsewhere(a) ELSE Elsewhere(a) \cup {k}
          /\ k \notin Behind(a) /\ k \notin Elsewhere(a)
      BY <2>2, <2>3, <2>4, <3>1
    <3>4. /\ Cardinality(Behind(a) \cup {k}) = Cardinality(Behind(a)) + 1
          /\ Cardinality(Elsewhere(a) \cup {k}) = Cardinality(Elsewhere(a)) + 1
      BY <2>5, <3>3, FS_AddElement
    <3>5. Behind(a)' \cup Elsewhere(a)' # {}
      BY <3>3
    <3>6. cbrm'[a] = <<Cardinality(Behind(a)'), Cardinality(Elsewhere(a)')>>
      <4>1. Counted(a)[1] = Cardinality(Behind(a)) /\ Counted(a)[2] = Cardinality(Elsewhere(a))
        BY <2>5
      <4>2. CASE out
        BY <3>2, <3>3, <3>4, <4>1, <4>2
      <4>3. CASE ~out
        BY <3>2, <3>3, <3>4, <4>1, <4>3
      <4>4. QED
        BY <4>2, <4>3
    <3>7. QED
      BY <3>2, <3>5, <3>6
  <2>8. QED
    BY <2>6, <2>7
<1>3. QED
  BY <1>1, <1>2, StepKinds DEF Outcomes


\* The outcomes of the addresses, summed.
Takens   == [a \in DOMAIN cbrm |-> cbrm[a][1]]
Untakens == [a \in DOMAIN cbrm |-> cbrm[a][2]]

\* An outcome is counted once in the sums.
LEMMA OutcomesGrow ==
    ASSUME Shape, NEW a \in Addr, NEW taken \in BOOLEAN, UpdateCBRM(a, taken)
    PROVE  /\ SumFunction(Takens') = SumFunction(Takens) + (IF taken THEN 1 ELSE 0)
           /\ SumFunction(Untakens') = SumFunction(Untakens) + (IF taken THEN 0 ELSE 1)
           /\ \A p \in [Addr -> BOOLEAN] :
                SumFunction(Misses(p)') = SumFunction(Misses(p)) + (IF p[a] # taken THEN 1 ELSE 0)
           /\ SumFunction(Entropies) = 2 * SumFunction(Fewest) =>
                SumFunction(Entropies') = 2 * SumFunction(Fewest')
           /\ SumFunction(Takens) \in Nat /\ SumFunction(Untakens) \in Nat
           /\ \A p \in [Addr -> BOOLEAN] : SumFunction(Misses(p)) \in Nat
<1>1. /\ DOMAIN cbrm' = DOMAIN cbrm \cup {a}
      /\ Counted(a) \in Nat \X Nat
      /\ cbrm'[a] = IF taken THEN <<Counted(a)[1] + 1, Counted(a)[2]>>
                             ELSE <<Counted(a)[1], Counted(a)[2] + 1>>
      /\ \A b \in DOMAIN cbrm : b # a => cbrm'[b] = cbrm[b]
  BY UpdateFacts
<1>2. IsFiniteSet(DOMAIN cbrm) /\ \A b \in DOMAIN cbrm : cbrm[b] \in Nat \X Nat
  BY DEF Shape, TypeOK
<1>3. PICK t \in Nat, u \in Nat : Counted(a) = <<t, u>>
  BY <1>1
<1>4. cbrm'[a] = IF taken THEN <<t + 1, u>> ELSE <<t, u + 1>>
  BY <1>1, <1>3
<1>5. \A b \in DOMAIN cbrm' : cbrm'[b] \in Nat \X Nat
  <2>1. cbrm'[a] \in Nat \X Nat
    BY <1>4
  <2>2. QED
    BY <1>1, <1>2, <2>1
<1>6. /\ a \in DOMAIN cbrm => cbrm[a] = <<t, u>>
      /\ a \notin DOMAIN cbrm => t = 0 /\ u = 0
  BY <1>3 DEF Counted
<1>7. SumFunction(Takens') = SumFunction(Takens) + (IF taken THEN 1 ELSE 0) /\ SumFunction(Takens) \in Nat
  <2>1. PICK F, G, d : F = Takens /\ G = Takens' /\ d = IF taken THEN 1 ELSE 0
    OBVIOUS
  <2>2. /\ DOMAIN F = DOMAIN cbrm /\ \A b \in DOMAIN cbrm : F[b] = cbrm[b][1]
        /\ DOMAIN G = DOMAIN cbrm' /\ \A b \in DOMAIN cbrm' : G[b] = cbrm'[b][1]
    BY <2>1 DEF Takens
  <2>3. IsFiniteSet(DOMAIN F) /\ DOMAIN G = DOMAIN F \cup {a} /\ d \in Nat
    BY <1>1, <1>2, <2>1, <2>2
  <2>4. (\A b \in DOMAIN F : F[b] \in Nat) /\ (\A b \in DOMAIN G : G[b] \in Nat)
    BY <1>2, <1>5, <2>2
  <2>5. \A b \in DOMAIN F : b # a => F[b] = G[b]
    BY <1>1, <2>2
  <2>6. G[a] = (IF a \in DOMAIN F THEN F[a] ELSE 0) + d
    <3>1. G[a] = IF taken THEN t + 1 ELSE t
      BY <1>1, <1>4, <2>2
    <3>2. (IF a \in DOMAIN F THEN F[a] ELSE 0) = t
      BY <1>6, <2>2
    <3>3. QED
      BY <2>1, <3>1, <3>2
  <2>7. SumFunction(F) \in Nat /\ SumFunction(G) = SumFunction(F) + d
    BY <2>3, <2>4, <2>5, <2>6, SumGrows
  <2>8. QED
    BY <2>1, <2>7
<1>8. SumFunction(Untakens') = SumFunction(Untakens) + (IF taken THEN 0 ELSE 1) /\ SumFunction(Untakens) \in Nat
  <2>1. PICK F, G, d : F = Untakens /\ G = Untakens' /\ d = IF taken THEN 0 ELSE 1
    OBVIOUS
  <2>2. /\ DOMAIN F = DOMAIN cbrm /\ \A b \in DOMAIN cbrm : F[b] = cbrm[b][2]
        /\ DOMAIN G = DOMAIN cbrm' /\ \A b \in DOMAIN cbrm' : G[b] = cbrm'[b][2]
    BY <2>1 DEF Untakens
  <2>3. IsFiniteSet(DOMAIN F) /\ DOMAIN G = DOMAIN F \cup {a} /\ d \in Nat
    BY <1>1, <1>2, <2>1, <2>2
  <2>4. (\A b \in DOMAIN F : F[b] \in Nat) /\ (\A b \in DOMAIN G : G[b] \in Nat)
    BY <1>2, <1>5, <2>2
  <2>5. \A b \in DOMAIN F : b # a => F[b] = G[b]
    BY <1>1, <2>2
  <2>6. G[a] = (IF a \in DOMAIN F THEN F[a] ELSE 0) + d
    <3>1. G[a] = IF taken THEN u ELSE u + 1
      BY <1>1, <1>4, <2>2
    <3>2. (IF a \in DOMAIN F THEN F[a] ELSE 0) = u
      BY <1>6, <2>2
    <3>3. QED
      BY <2>1, <3>1, <3>2
  <2>7. SumFunction(F) \in Nat /\ SumFunction(G) = SumFunction(F) + d
    BY <2>3, <2>4, <2>5, <2>6, SumGrows
  <2>8. QED
    BY <2>1, <2>7
<1>9. ASSUME NEW p \in [Addr -> BOOLEAN]
      PROVE  /\ SumFunction(Misses(p)') = SumFunction(Misses(p)) + (IF p[a] # taken THEN 1 ELSE 0)
             /\ SumFunction(Misses(p)) \in Nat
  <2>1. PICK F, G, d : F = Misses(p) /\ G = Misses(p)' /\ d = IF p[a] # taken THEN 1 ELSE 0
    OBVIOUS
  <2>2. /\ DOMAIN F = DOMAIN cbrm
        /\ \A b \in DOMAIN cbrm : F[b] = IF p[b] THEN cbrm[b][2] ELSE cbrm[b][1]
        /\ DOMAIN G = DOMAIN cbrm'
        /\ \A b \in DOMAIN cbrm' : G[b] = IF p[b] THEN cbrm'[b][2] ELSE cbrm'[b][1]
    BY <2>1 DEF Misses
  <2>3. IsFiniteSet(DOMAIN F) /\ DOMAIN G = DOMAIN F \cup {a} /\ d \in Nat
    BY <1>1, <1>2, <2>1, <2>2
  <2>4. (\A b \in DOMAIN F : F[b] \in Nat) /\ (\A b \in DOMAIN G : G[b] \in Nat)
    BY <1>2, <1>5, <2>2
  <2>5. \A b \in DOMAIN F : b # a => F[b] = G[b]
    BY <1>1, <2>2
  <2>6. G[a] = (IF a \in DOMAIN F THEN F[a] ELSE 0) + d
    <3>1. G[a] = IF p[a] THEN (IF taken THEN u ELSE u + 1) ELSE (IF taken THEN t + 1 ELSE t)
      BY <1>1, <1>4, <2>2
    <3>2. (IF a \in DOMAIN F THEN F[a] ELSE 0) = IF p[a] THEN u ELSE t
      BY <1>6, <2>2
    <3>3. p[a] \in BOOLEAN /\ taken \in BOOLEAN
      OBVIOUS
    <3>4. QED
      BY <2>1, <3>1, <3>2, <3>3
  <2>7. SumFunction(F) \in Nat /\ SumFunction(G) = SumFunction(F) + d
    BY <2>3, <2>4, <2>5, <2>6, SumGrows
  <2>8. QED
    BY <2>1, <2>7
<1>10. ASSUME SumFunction(Entropies) = 2 * SumFunction(Fewest)
       PROVE  SumFunction(Entropies') = 2 * SumFunction(Fewest')
  <2>1. PICK F, G, E, H : F = Fewest /\ G = Fewest' /\ E = Entropies /\ H = Entropies'
    OBVIOUS
  <2>2. /\ DOMAIN F = DOMAIN cbrm /\ DOMAIN G = DOMAIN cbrm'
        /\ DOMAIN E = DOMAIN cbrm /\ DOMAIN H = DOMAIN cbrm'
    BY <2>1 DEF Fewest, Entropies
  <2>3. \A b \in DOMAIN cbrm : F[b] \in Nat /\ E[b] = 2 * F[b]
                               /\ F[b] = IF cbrm[b][1] <= cbrm[b][2] THEN cbrm[b][1] ELSE cbrm[b][2]
    <3> TAKE b \in DOMAIN cbrm
    <3>1. cbrm[b][1] \in Nat /\ cbrm[b][2] \in Nat
      BY <1>2
    <3>2. Min({cbrm[b][1], cbrm[b][2]}) = IF cbrm[b][1] <= cbrm[b][2] THEN cbrm[b][1] ELSE cbrm[b][2]
      BY <3>1, MinPair
    <3>3. F[b] = Min({cbrm[b][1], cbrm[b][2]}) /\ E[b] = 2 * Min({cbrm[b][1], cbrm[b][2]})
      BY <2>1 DEF Fewest, Entropies, LinearEntropy
    <3>4. QED
      BY <3>1, <3>2, <3>3
  <2>4. \A b \in DOMAIN cbrm' : G[b] \in Nat /\ H[b] = 2 * G[b]
                                /\ G[b] = IF cbrm'[b][1] <= cbrm'[b][2] THEN cbrm'[b][1] ELSE cbrm'[b][2]
    <3> TAKE b \in DOMAIN cbrm'
    <3>1. cbrm'[b][1] \in Nat /\ cbrm'[b][2] \in Nat
      BY <1>5
    <3>2. Min({cbrm'[b][1], cbrm'[b][2]}) = IF cbrm'[b][1] <= cbrm'[b][2] THEN cbrm'[b][1] ELSE cbrm'[b][2]
      BY <3>1, MinPair
    <3>3. G[b] = Min({cbrm'[b][1], cbrm'[b][2]}) /\ H[b] = 2 * Min({cbrm'[b][1], cbrm'[b][2]})
      BY <2>1 DEF Fewest, Entropies, LinearEntropy
    <3>4. QED
      BY <3>1, <3>2, <3>3
  <2>5. PICK d \in Nat : G[a] = (IF a \in DOMAIN F THEN F[a] ELSE 0) + d
    <3>1. (IF a \in DOMAIN F THEN F[a] ELSE 0) = IF t <= u THEN t ELSE u
      BY <1>6, <2>2, <2>3
    <3>2. CASE taken
      <4>1. G[a] = IF t + 1 <= u THEN t + 1 ELSE u
        BY <1>1, <1>4, <2>4, <3>2
      <4>2. G[a] = (IF t <= u THEN t ELSE u) + (IF t + 1 <= u THEN 1 ELSE 0)
        BY <4>1
      <4>3. QED
        BY <3>1, <4>2
    <3>3. CASE ~taken
      <4>1. G[a] = IF t <= u + 1 THEN t ELSE u + 1
        BY <1>1, <1>4, <2>4, <3>3
      <4>2. G[a] = (IF t <= u THEN t ELSE u) + (IF t <= u THEN 0 ELSE 1)
        BY <4>1
      <4>3. QED
        BY <3>1, <4>2
    <3>4. QED
      BY <3>2, <3>3
  <2>6. 2 * d \in Nat /\ H[a] = (IF a \in DOMAIN E THEN E[a] ELSE 0) + 2 * d
    <3>1. H[a] = 2 * G[a]
      BY <1>1, <2>4
    <3>2. (IF a \in DOMAIN E THEN E[a] ELSE 0) = 2 * (IF a \in DOMAIN F THEN F[a] ELSE 0)
      BY <2>2, <2>3
    <3>3. (IF a \in DOMAIN F THEN F[a] ELSE 0) \in Nat
      BY <2>2, <2>3
    <3>4. QED
      BY <2>5, <3>1, <3>2, <3>3
  <2>7. SumFunction(F) \in Nat /\ SumFunction(G) = SumFunction(F) + d
    <3>1. IsFiniteSet(DOMAIN F) /\ DOMAIN G = DOMAIN F \cup {a}
      BY <1>1, <1>2, <2>2
    <3>2. (\A b \in DOMAIN F : F[b] \in Nat) /\ (\A b \in DOMAIN G : G[b] \in Nat)
      BY <2>2, <2>3, <2>4
    <3>3. \A b \in DOMAIN F : b # a => F[b] = G[b]
      BY <1>1, <2>2, <2>3, <2>4
    <3>4. QED
      BY <2>5, <3>1, <3>2, <3>3, SumGrows
  <2>8. SumFunction(E) \in Nat /\ SumFunction(H) = SumFunction(E) + 2 * d
    <3>1. IsFiniteSet(DOMAIN E) /\ DOMAIN H = DOMAIN E \cup {a}
      BY <1>1, <1>2, <2>2
    <3>2. (\A b \in DOMAIN E : E[b] \in Nat) /\ (\A b \in DOMAIN H : H[b] \in Nat)
      BY <2>2, <2>3, <2>4
    <3>3. \A b \in DOMAIN E : b # a => E[b] = H[b]
      BY <1>1, <2>2, <2>3, <2>4
    <3>4. PICK e \in Nat : e = 2 * d
      BY <2>6
    <3>5. H[a] = (IF a \in DOMAIN E THEN E[a] ELSE 0) + e
      BY <2>6, <3>4
    <3>6. SumFunction(E) \in Nat /\ SumFunction(H) = SumFunction(E) + e
      BY <3>1, <3>2, <3>3, <3>5, SumGrows
    <3>7. QED
      BY <3>4, <3>6
  <2>9. QED
    BY <1>10, <2>1, <2>7, <2>8
<1>11. QED
  BY <1>7, <1>8, <1>9, <1>10

\* Every step keeps that each branch is counted once.
LEMMA StepOnce ==
    ASSUME Shape, PendingLast, EachBranchOnce, Next
    PROVE  EachBranchOnce'
<1>1. /\ zf_taken + zf_untaken + (IF zf_cbr THEN 1 ELSE 0) = Cardinality(Branches)
      /\ zf_taken = SumFunction(Takens) /\ zf_untaken = SumFunction(Untakens)
  BY DEF EachBranchOnce, Takens, Untakens
<1>2. EachBranchOnce' <=>
        /\ zf_taken' + zf_untaken' + (IF zf_cbr' THEN 1 ELSE 0) = Cardinality(Branches')
        /\ zf_taken' = SumFunction(Takens') /\ zf_untaken' = SumFunction(Untakens')
  BY DEF EachBranchOnce, Takens, Untakens
<1>3. CASE ShowsNone
  <2>1. UNCHANGED <<shown, zf_cbr, zf_taken, zf_untaken, cbrm>>
    BY <1>3 DEF ShowsNone, pending, counts
  <2>2. Branches' = Branches
    BY <2>1, KeepBranches
  <2>3. Takens' = Takens /\ Untakens' = Untakens
    BY <2>1 DEF Takens, Untakens
  <2>4. QED
    BY <1>1, <1>2, <2>1, <2>2, <2>3
<1>4. ASSUME NEW thread \in Thread, NEW type \in InstrType, NEW addr \in Addr, NEW size \in Size,
             Shows(thread, type, addr, size)
      PROVE  EachBranchOnce'
  <2>1. PICK k : k = Len(shown)
    OBVIOUS
  <2>2. PICK out : out = FallsThrough(k, k + 1)'
    OBVIOUS
  <2>3. /\ ~zf_cbr => UNCHANGED counts
        /\ zf_cbr => /\ zf_last_addr \in Addr /\ UpdateCBRM(zf_last_addr, out) /\ out \in BOOLEAN
                     /\ zf_taken' = IF out THEN zf_taken + 1 ELSE zf_taken
                     /\ zf_untaken' = IF out THEN zf_untaken ELSE zf_untaken + 1
    BY <1>4, <2>1, <2>2, OutcomeCounted
  <2>4. Show(thread, type, addr, size)
    BY <1>4 DEF Shows
  <2>5. /\ \/ Branches' = Branches
           \/ Branches' = Branches \cup {k + 1}
        /\ k + 1 \notin Branches /\ Len(shown') = k + 1
    BY <2>1, <2>4, ShowBranches
  <2>6. zf_cbr' <=> k + 1 \in Branches'
    <3>1. PendingLast'
      BY StepPending
    <3>2. QED
      BY <2>5, <3>1 DEF PendingLast
  <2>7. Cardinality(Branches') = Cardinality(Branches) + (IF zf_cbr' THEN 1 ELSE 0)
    <3>1. IsFiniteSet(Branches)
      BY BranchFacts
    <3>2. /\ Cardinality(Branches \cup {k + 1}) = Cardinality(Branches) + 1
          /\ Cardinality(Branches) \in Nat
      BY <2>5, <3>1, FS_AddElement, FS_CardinalityType
    <3>3. CASE Branches' = Branches
      BY <2>5, <2>6, <3>2, <3>3
    <3>4. CASE Branches' = Branches \cup {k + 1}
      BY <2>6, <3>2, <3>4
    <3>5. QED
      BY <2>5, <3>3, <3>4
  <2>8. /\ zf_taken \in Nat /\ zf_untaken \in Nat
        /\ zf_taken' + zf_untaken' = zf_taken + zf_untaken + (IF zf_cbr THEN 1 ELSE 0)
        /\ zf_taken' = SumFunction(Takens') /\ zf_untaken' = SumFunction(Untakens')
    <3>1. zf_taken \in Nat /\ zf_untaken \in Nat
      BY DEF Shape, TypeOK
    <3>2. CASE ~zf_cbr
      <4>1. cbrm' = cbrm /\ zf_taken' = zf_taken /\ zf_untaken' = zf_untaken
        BY <2>3, <3>2 DEF counts
      <4>2. Takens' = Takens /\ Untakens' = Untakens
        BY <4>1 DEF Takens, Untakens
      <4>3. QED
        BY <1>1, <3>1, <3>2, <4>1, <4>2
    <3>3. CASE zf_cbr
      <4>1. PICK a : a = zf_last_addr
        OBVIOUS
      <4>2. /\ a \in Addr /\ UpdateCBRM(a, out) /\ out \in BOOLEAN
            /\ zf_taken' = IF out THEN zf_taken + 1 ELSE zf_taken
            /\ zf_untaken' = IF out THEN zf_untaken ELSE zf_untaken + 1
        BY <2>3, <3>3, <4>1
      <4>3. /\ SumFunction(Takens') = SumFunction(Takens) + (IF out THEN 1 ELSE 0)
            /\ SumFunction(Untakens') = SumFunction(Untakens) + (IF out THEN 0 ELSE 1)
        BY <4>2, OutcomesGrow
      <4>4. QED
        BY <1>1, <3>1, <3>3, <4>2, <4>3
    <3>4. QED
      BY <3>2, <3>3
  <2>9. QED
    BY <1>1, <1>2, <2>7, <2>8
<1>5. QED
  BY <1>3, <1>4, StepKinds

\* Every step keeps what the predictions get wrong.
LEMMA StepGuesses ==
    ASSUME Shape, PendingLast, Guesses, Next
    PROVE  Guesses'
<1>1. /\ \A p \in [Addr -> BOOLEAN] : Cardinality(Wrong(p)) = SumFunction(Misses(p))
      /\ SumFunction(Entropies) = 2 * SumFunction(Fewest)
      /\ report.printed => report.entropy = SumFunction(Entropies)
  BY DEF Guesses
<1>2. ASSUME cbrm' = cbrm
      PROVE  Entropies' = Entropies /\ Fewest' = Fewest /\ \A p : Misses(p)' = Misses(p)
  BY <1>2 DEF Entropies, Fewest, Misses
<1>3. CASE ShowsNone
  <2>1. UNCHANGED shown /\ cbrm' = cbrm
    BY <1>3 DEF ShowsNone, counts
  <2>2. \A p : Wrong(p)' = Wrong(p)
    BY <2>1, KeepBranches
  <2>3. report'.printed => report'.entropy = SumFunction(Entropies)
    BY <1>1, <1>3 DEF ShowsNone
  <2>4. QED
    BY <1>1, <1>2, <2>1, <2>2, <2>3 DEF Guesses
<1>4. ASSUME NEW thread \in Thread, NEW type \in InstrType, NEW addr \in Addr, NEW size \in Size,
             Shows(thread, type, addr, size)
      PROVE  Guesses'
  <2>1. PICK k : k = Len(shown)
    OBVIOUS
  <2>2. PICK out : out = FallsThrough(k, k + 1)'
    OBVIOUS
  <2>3. PICK a : a = zf_last_addr
    OBVIOUS
  <2>4. /\ \A i \in Resolved : shown'[i] = shown[i] /\ (FallsThrough(i, i + 1)' = FallsThrough(i, i + 1))
        /\ ~zf_cbr => Resolved' = Resolved /\ UNCHANGED counts
        /\ zf_cbr => /\ Resolved' = Resolved \cup {k} /\ k \notin Resolved
                     /\ shown'[k].addr = a /\ a \in Addr
                     /\ UpdateCBRM(a, out) /\ out \in BOOLEAN
    BY <1>4, <2>1, <2>2, <2>3, OutcomeCounted
  <2>5. report' = report /\ ~report.printed
    BY <1>4 DEF Shows, Shape, TypeOK
  <2>6. \A p : /\ Wrong(p)' = {i \in Resolved' : FallsThrough(i, i + 1)' # p[shown'[i].addr]}
               /\ Wrong(p) = {i \in Resolved : FallsThrough(i, i + 1) # p[shown[i].addr]}
    BY DEF Wrong
  <2>7. CASE ~zf_cbr
    <3>1. \A p : Wrong(p)' = Wrong(p)
      <4> TAKE p
      <4>1. \A i \in Resolved : (FallsThrough(i, i + 1)' # p[shown'[i].addr])
                                 = (FallsThrough(i, i + 1) # p[shown[i].addr])
        BY <2>4, Zenon
      <4>2. QED
        BY <2>4, <2>6, <2>7, <4>1, Zenon
    <3>2. cbrm' = cbrm
      BY <2>4, <2>7 DEF counts
    <3>3. QED
      BY <1>1, <1>2, <2>5, <3>1, <3>2 DEF Guesses
  <2>8. CASE zf_cbr
    <3>1. /\ Resolved' = Resolved \cup {k} /\ k \notin Resolved
          /\ shown'[k].addr = a /\ a \in Addr /\ UpdateCBRM(a, out) /\ out \in BOOLEAN
      BY <2>4, <2>8
    <3>2. /\ \A p \in [Addr -> BOOLEAN] :
               /\ SumFunction(Misses(p)') = SumFunction(Misses(p)) + (IF p[a] # out THEN 1 ELSE 0)
               /\ SumFunction(Misses(p)) \in Nat
          /\ SumFunction(Entropies') = 2 * SumFunction(Fewest')
      BY <1>1, <3>1, OutcomesGrow
    <3>3. ASSUME NEW p \in [Addr -> BOOLEAN]
          PROVE  Cardinality(Wrong(p)') = SumFunction(Misses(p)')
      <4>1. Wrong(p)' = IF p[a] # out THEN Wrong(p) \cup {k} ELSE Wrong(p)
        <5>1. \A i \in Resolved : (FallsThrough(i, i + 1)' # p[shown'[i].addr])
                                   = (FallsThrough(i, i + 1) # p[shown[i].addr])
          BY <2>4, Zenon
        <5>2. (FallsThrough(k, k + 1)' # p[shown'[k].addr]) = (p[a] # out)
          BY <2>2, <3>1, Zenon
        <5>3. QED
          BY <2>6, <3>1, <5>1, <5>2, Zenon
      <4>2. IsFiniteSet(Wrong(p)) /\ k \notin Wrong(p)
        BY <2>6, <3>1, BranchFacts, FS_Subset
      <4>3. Cardinality(Wrong(p) \cup {k}) = Cardinality(Wrong(p)) + 1
        BY <4>2, FS_AddElement
      <4>4. Cardinality(Wrong(p)) = SumFunction(Misses(p))
        BY <1>1
      <4>5. CASE p[a] # out
        BY <3>2, <4>1, <4>3, <4>4, <4>5
      <4>6. CASE p[a] = out
        BY <3>2, <4>1, <4>4, <4>6
      <4>7. QED
        BY <4>5, <4>6
    <3>4. QED
      BY <2>5, <3>2, <3>3 DEF Guesses
  <2>9. QED
    BY <2>7, <2>8
<1>5. QED
  BY <1>3, <1>4, StepKinds

-----------------------------------------------------------------------------
(* The invariant and the theorems. *)

IInv ==
    /\ Shape /\ PendingLast
    /\ Left /\ Stamped /\ WindowExact
    /\ Outcomes /\ EachBranchOnce /\ Guesses

\* A step that changes nothing keeps the invariant.
LEMMA StutterInv ==
    ASSUME IInv, UNCHANGED vars
    PROVE  IInv'
<1>1. UNCHANGED <<stage, error_string_, has_modules_, trace_version_, filetype_, skip_refs_left_,
                  sim_refs_left_, timestamp_, printed>>
      /\ UNCHANGED <<pending, counts>> /\ UNCHANGED <<num_disasm_instrs_, report, records, shown>>
  BY DEF vars, headers, window
<1>2. UNCHANGED <<zf_cbr, zf_last_addr, zf_last_addr_size, zf_taken, zf_untaken, cbrm, cbrm_inited>>
  BY <1>1 DEF pending, counts
<1>3. Shape'
  BY <1>1, <1>2 DEF IInv, Shape, TypeOK
<1>4. /\ Branches' = Branches
      /\ \A a : Behind(a)' = Behind(a) /\ Elsewhere(a)' = Elsewhere(a)
      /\ \A p : Wrong(p)' = Wrong(p)
  BY <1>1, KeepBranches
<1>5. PendingLast'
  <2>1. Undecoded' <=> Undecoded
    BY <1>1 DEF Undecoded, Encoded
  <2>2. QED
    BY <1>1, <1>2, <1>4, <2>1 DEF IInv, PendingLast
<1>6. Countable' = Countable
  BY <1>1 DEF Countable
<1>7. Window' = Window /\ Asked' = Asked
  <2>1. \A i : Rank(i)' = Rank(i)
    BY <1>6 DEF Rank
  <2>2. QED
    BY <1>6, <2>1 DEF Window, Asked
<1>8. Left'
  BY <1>1, <1>7 DEF IInv, Left
<1>9. Stamped'
  <2>1. Stamps' = Stamps
    BY <1>1, <1>7 DEF Stamps
  <2>2. Stamp' = Stamp
    BY <1>1, <2>1 DEF Stamp
  <2>3. Over' <=> Over
    BY <1>7 DEF Over
  <2>4. QED
    BY <1>1, <2>1, <2>2, <2>3 DEF IInv, Stamped
<1>10. WindowExact'
  <2>1. Instrs' = Instrs
    BY <1>1, <1>7 DEF Instrs
  <2>2. stage # "killed" => Len(shown) = Cardinality(Instrs)
    BY DEF IInv, WindowExact, Instrs
  <2>3. QED
    BY <1>1, <2>1, <2>2 DEF WindowExact, Instrs
<1>11. Outcomes'
  BY <1>2, <1>4 DEF IInv, Outcomes
<1>12. EachBranchOnce'
  <2>1. Takens' = Takens /\ Untakens' = Untakens
    BY <1>2 DEF Takens, Untakens
  <2>2. /\ zf_taken + zf_untaken + (IF zf_cbr THEN 1 ELSE 0) = Cardinality(Branches)
        /\ zf_taken = SumFunction(Takens) /\ zf_untaken = SumFunction(Untakens)
    BY DEF IInv, EachBranchOnce, Takens, Untakens
  <2>3. QED
    BY <1>2, <1>4, <2>1, <2>2 DEF EachBranchOnce, Takens, Untakens
<1>13. Guesses'
  <2>1. Entropies' = Entropies /\ Fewest' = Fewest /\ \A p : Misses(p)' = Misses(p)
    BY <1>2 DEF Entropies, Fewest, Misses
  <2>2. QED
    BY <1>1, <1>4, <2>1 DEF IInv, Guesses
<1>14. QED
  BY <1>3, <1>5, <1>8, <1>9, <1>10, <1>11, <1>12, <1>13 DEF IInv

\* In the beginning nothing was asked, shown or counted.
LEMMA InitInv == Init => IInv
<1> SUFFICES ASSUME Init
             PROVE  IInv
  OBVIOUS
<1>1. Shape
  BY InitShape
<1>2. /\ records = <<>> /\ shown = <<>> /\ cbrm = <<>> /\ printed = <<>> /\ timestamp_ = 0
      /\ skip_refs_left_ = SkipRefs /\ sim_refs_left_ = SimRefs /\ zf_cbr = FALSE
      /\ zf_taken = 0 /\ zf_untaken = 0 /\ report.printed = FALSE
  BY DEF Init, NoReport
<1>3. Len(shown) = 0 /\ DOMAIN shown = {} /\ DOMAIN records = {} /\ DOMAIN cbrm = {}
  BY <1>2
<1>4. Branches = {}
  BY <1>3 DEF Branches
<1>5. Resolved = {}
  BY <1>4 DEF Resolved
<1>6. Countable = {}
  BY <1>3 DEF Countable
<1>7. Window = {} /\ Asked = 0
  BY <1>6, FS_EmptySet DEF Window, Asked
<1>8. Cardinality({}) = 0
  BY FS_EmptySet
<1>9. PendingLast
  BY <1>2, <1>4 DEF PendingLast
<1>10. Left
  BY <1>2, <1>7, WindowAssumption DEF Left
<1>11. Stamps = {} /\ Instrs = {}
  BY <1>7 DEF Stamps, Instrs
<1>12. Stamped
  BY <1>2, <1>11 DEF Stamped, Stamp
<1>13. WindowExact
  BY <1>3, <1>8, <1>11 DEF WindowExact, Instrs
<1>14. Outcomes
  BY <1>3, <1>5 DEF Outcomes, Behind, Elsewhere
<1>15. /\ SumFunction(Takens) = 0 /\ SumFunction(Untakens) = 0 /\ SumFunction(Fewest) = 0
       /\ SumFunction(Entropies) = 0 /\ \A p : SumFunction(Misses(p)) = 0
  <2>1. ASSUME NEW F, DOMAIN F = {}
        PROVE  SumFunction(F) = 0
    <3>1. SumFunction(F) = SumFunctionOnSet(F, {})
      BY <2>1, Zenon DEF SumFunction
    <3>2. QED
      BY <3>1, SumEmpty
  <2>2. /\ DOMAIN Takens = {} /\ DOMAIN Untakens = {} /\ DOMAIN Fewest = {} /\ DOMAIN Entropies = {}
        /\ \A p : DOMAIN Misses(p) = {}
    BY <1>3 DEF Takens, Untakens, Fewest, Entropies, Misses
  <2>3. QED
    BY <2>1, <2>2, Zenon
<1>16. EachBranchOnce
  <2>1. /\ zf_taken + zf_untaken + (IF zf_cbr THEN 1 ELSE 0) = Cardinality(Branches)
        /\ zf_taken = SumFunction(Takens) /\ zf_untaken = SumFunction(Untakens)
    BY <1>2, <1>4, <1>8, <1>15
  <2>2. QED
    BY <2>1 DEF EachBranchOnce, Takens, Untakens
<1>17. Guesses
  <2>1. \A p : Wrong(p) = {}
    BY <1>5 DEF Wrong
  <2>2. \A p \in [Addr -> BOOLEAN] : Cardinality(Wrong(p)) = SumFunction(Misses(p))
    BY <1>8, <1>15, <2>1, Zenon
  <2>3. SumFunction(Entropies) = 2 * SumFunction(Fewest)
    BY <1>15
  <2>4. QED
    BY <1>2, <2>2, <2>3 DEF Guesses
<1>18. QED
  BY <1>1, <1>9, <1>10, <1>12, <1>13, <1>14, <1>16, <1>17 DEF IInv

\* Every step keeps the invariant.
LEMMA StepInv == IInv /\ [Next]_vars => IInv'
<1> SUFFICES ASSUME IInv, [Next]_vars
             PROVE  IInv'
  OBVIOUS
<1>1. CASE Next
  <2>1. /\ Shape /\ PendingLast /\ Left /\ Stamped /\ WindowExact
        /\ Outcomes /\ EachBranchOnce /\ Guesses
    BY DEF IInv
  <2>2. Shape'
    BY <1>1, <2>1, StepShape
  <2>3. PendingLast'
    BY <1>1, <2>1, StepPending
  <2>4. Left' /\ Stamped' /\ WindowExact'
    BY <1>1, <2>1, StepWindow
  <2>5. Outcomes'
    BY <1>1, <2>1, StepOutcomes
  <2>6. EachBranchOnce'
    BY <1>1, <2>1, StepOnce
  <2>7. Guesses'
    BY <1>1, <2>1, StepGuesses
  <2>8. QED
    BY <2>2, <2>3, <2>4, <2>5, <2>6, <2>7 DEF IInv
<1>2. CASE UNCHANGED vars
  BY <1>2, StutterInv
<1>3. QED
  BY <1>1, <1>2

LEMMA AlwaysInv == Spec => []IInv
<1>1. QED
  BY InitInv, StepInv, PTL DEF Spec

\* The types are right, and a run that failed is the only one with an error.
THEOREM ViewTypeOK == Spec => []TypeOK
<1>1. IInv => TypeOK
  BY DEF IInv, Shape
<1>2. QED
  BY <1>1, AlwaysInv, PTL

\* The window holds exactly the records of its ranks (lines 185-207, 220-265).
THEOREM ViewWindowExact == Spec => []WindowExact
<1>1. IInv => WindowExact
  BY DEF IInv
<1>2. QED
  BY <1>1, AlwaysInv, PTL

\* The last timestamp of the window is printed with its last record, and no other
\* (lines 199-204, 249-258).
THEOREM ViewTimestampOfWindow == Spec => []TimestampOfWindow
<1>1. IInv => TimestampOfWindow
  <2> SUFFICES ASSUME IInv
               PROVE  TimestampOfWindow
    OBVIOUS
  <2>1. IF Over THEN printed = IF Stamps = {} THEN <<>> ELSE <<Stamp>> ELSE printed = <<>>
    BY DEF IInv, Stamped
  <2>2. printed = IF Over /\ Stamps # {} THEN <<Stamp>> ELSE <<>>
    BY <2>1
  <2>3. Stamps # {} => Stamp = records[Max(Stamps)].value
    BY DEF Stamp
  <2>4. printed = IF Over /\ Stamps # {} THEN <<records[Max(Stamps)].value>> ELSE <<>>
    BY <2>2, <2>3
  <2>5. QED
    BY <2>4, Zenon DEF TimestampOfWindow, Over, Stamps, Asked
<1>2. QED
  BY <1>1, AlwaysInv, PTL

\* Each branch of the window is counted once or is the pending one (lines 80-93, 291-303).
THEOREM ViewEachBranchOnce == Spec => []EachBranchOnce
<1>1. IInv => EachBranchOnce
  BY DEF IInv
<1>2. QED
  BY <1>1, AlwaysInv, PTL

\* Where no other thread comes between a branch and its successor, the counts are those
\* of the branch's own thread (lines 291-303, 325-326, 342).
THEOREM ViewOwnThreadExact == Spec => []OwnThreadExact
<1>1. IInv => OwnThreadExact
  <2> SUFFICES ASSUME IInv, \A i \in Resolved : shown[i + 1].thread = shown[i].thread,
                      NEW a \in Addr, NEW X, X = {i \in Branches : shown[i].addr = a /\ Later(i) # {}},
                      NEW B, B = {i \in X : FallsThrough(i, Min(Later(i)))}
               PROVE  IF X = {} THEN a \notin DOMAIN cbrm
                      ELSE /\ a \in DOMAIN cbrm
                           /\ cbrm[a] = <<Cardinality(B), Cardinality(X \ B)>>
    BY Zenon DEF OwnThreadExact
  <2>1. /\ Len(shown) \in Nat /\ DOMAIN shown = 1 .. Len(shown)
        /\ Branches \subseteq DOMAIN shown /\ Resolved \subseteq Branches
        /\ \A i \in Resolved : i \in Nat /\ i + 1 \in DOMAIN shown
    BY BranchFacts DEF IInv
  <2>2. \A i \in Resolved : Later(i) # {} /\ Min(Later(i)) = i + 1
    <3> TAKE i \in Resolved
    <3>1. i + 1 \in Later(i)
      BY <2>1 DEF Later
    <3>2. Later(i) \in SUBSET Int /\ \A j \in Later(i) : i + 1 <= j
      BY <2>1 DEF Later
    <3>3. QED
      BY <3>1, <3>2, MinIs
  <2>3. \A i \in Branches : Later(i) # {} => i \in Resolved
    BY <2>1 DEF Later, Resolved
  <2>4. X = {i \in Resolved : shown[i].addr = a}
    BY <2>1, <2>2, <2>3
  <2>5. B = Behind(a)
    BY <2>2, <2>4 DEF Behind
  <2>6. X \ B = Elsewhere(a) /\ X = Behind(a) \cup Elsewhere(a)
    BY <2>4, <2>5 DEF Behind, Elsewhere
  <2>7. IF Behind(a) \cup Elsewhere(a) = {} THEN a \notin DOMAIN cbrm
        ELSE a \in DOMAIN cbrm /\ cbrm[a] = <<Cardinality(Behind(a)), Cardinality(Elsewhere(a))>>
    BY DEF IInv, Outcomes
  <2>8. QED
    BY <2>5, <2>6, <2>7
<1>2. QED
  BY <1>1, AlwaysInv, PTL

\* Half of the printed entropy is what the best prediction gets wrong (lines 364-386).
THEOREM ViewEntropyIsBestGuess == Spec => []EntropyIsBestGuess
<1>1. IInv => EntropyIsBestGuess
  <2> SUFFICES ASSUME IInv, report.printed
               PROVE  report.entropy = 2 * Min({Cardinality(Wrong(p)) : p \in [Addr -> BOOLEAN]})
    BY Zenon DEF EntropyIsBestGuess, Wrong
  <2>1. /\ \A p \in [Addr -> BOOLEAN] : Cardinality(Wrong(p)) = SumFunction(Misses(p))
        /\ report.entropy = 2 * SumFunction(Fewest)
    BY DEF IInv, Guesses
  <2>2. PICK T : T = DOMAIN cbrm
    OBVIOUS
  <2>3. IsFiniteSet(T) /\ T \subseteq Addr /\ \A b \in T : cbrm[b][1] \in Nat /\ cbrm[b][2] \in Nat
    BY <2>2 DEF IInv, Shape, TypeOK
  <2>4. /\ \A p : SumFunction(Misses(p)) = SumFunctionOnSet(Misses(p), T)
        /\ SumFunction(Fewest) = SumFunctionOnSet(Fewest, T)
    <3>1. DOMAIN Fewest = T /\ \A p : DOMAIN Misses(p) = T
      BY <2>2 DEF Fewest, Misses
    <3>2. QED
      BY <3>1, Zenon DEF SumFunction
  <2>5. \A b \in T : /\ Fewest[b] = IF cbrm[b][1] <= cbrm[b][2] THEN cbrm[b][1] ELSE cbrm[b][2]
                     /\ \A p : Misses(p)[b] = IF p[b] THEN cbrm[b][2] ELSE cbrm[b][1]
    <3> TAKE b \in T
    <3>1. Fewest[b] = Min({cbrm[b][1], cbrm[b][2]})
      BY <2>2 DEF Fewest
    <3>2. \A p : Misses(p)[b] = IF p[b] THEN cbrm[b][2] ELSE cbrm[b][1]
      BY <2>2 DEF Misses
    <3>3. QED
      BY <2>3, <3>1, <3>2, MinPair
  <2>6. PICK m : m = SumFunction(Fewest)
    OBVIOUS
  <2>7. ASSUME NEW p \in [Addr -> BOOLEAN]
        PROVE  Cardinality(Wrong(p)) \in Nat /\ m <= Cardinality(Wrong(p))
    <3>1. \A b \in T : Fewest[b] \in Nat /\ Misses(p)[b] \in Nat /\ Fewest[b] <= Misses(p)[b]
      BY <2>3, <2>5
    <3>2. PICK F, G : F = Fewest /\ G = Misses(p)
      OBVIOUS
    <3>3. SumFunctionOnSet(F, T) <= SumFunctionOnSet(G, T) /\ SumFunctionOnSet(G, T) \in Nat
      BY <2>3, <3>1, <3>2, SumMonotone, SumType
    <3>4. QED
      BY <2>1, <2>4, <2>6, <3>2, <3>3
  <2>8. \E p \in [Addr -> BOOLEAN] : m = Cardinality(Wrong(p))
    <3>1. PICK p \in [Addr -> BOOLEAN] : \A b \in T : p[b] <=> cbrm[b][2] < cbrm[b][1]
      <4>1. [b \in Addr |-> cbrm[b][2] < cbrm[b][1]] \in [Addr -> BOOLEAN]
        OBVIOUS
      <4>2. QED
        BY <2>3, <4>1
    <3>2. \A b \in T : Fewest[b] \in Nat /\ Fewest[b] = Misses(p)[b]
      BY <2>3, <2>5, <3>1
    <3>3. PICK F, G : F = Fewest /\ G = Misses(p)
      OBVIOUS
    <3>4. SumFunctionOnSet(F, T) = SumFunctionOnSet(G, T)
      BY <2>3, <3>2, <3>3, SumSame
    <3>5. QED
      BY <2>1, <2>4, <2>6, <3>3, <3>4
  <2>9. PICK S : S = {Cardinality(Wrong(p)) : p \in [Addr -> BOOLEAN]}
    OBVIOUS
  <2>10. S \in SUBSET Int /\ m \in S /\ \A x \in S : m <= x
    BY <2>7, <2>8, <2>9
  <2>11. Min(S) = m
    BY <2>10, MinIs
  <2>12. QED
    BY <2>1, <2>6, <2>9, <2>11
<1>2. QED
  BY <1>1, AlwaysInv, PTL
=============================================================================
