----------------------------- MODULE BranchView -----------------------------
(***************************************************************************)
(* The branch view tool: it looks at a window of the records of a trace    *)
(* and counts, per conditional branch, how often the instruction behind it *)
(* was executed next.  view_t works in serial operation only, so records   *)
(* of all threads arrive interleaved, while the pending branch is global.  *)
(*                                                                         *)
(* type_is_instr() lets only the types pass that the switch names, so its  *)
(* default is not modelled; types the switch treats alike are "other".     *)
(* Ordinals and the header, which are only printed, are left out.          *)
(***************************************************************************)
EXTENDS Integers, Sequences, FiniteSets, FiniteSetsExt, Functions

CONSTANTS Thread, Addr, Size, InstrType,   \* of instructions
          Version, Time,        \* values of markers
          SkipRefs, SimRefs,    \* knob_skip_refs_, knob_sim_refs_
          LongMax,              \* the largest value of a long
          Unset,                \* -1: no such marker was seen
          MaxRecords            \* bound on the records of the trace

ASSUME WindowAssumption == SkipRefs \in Nat /\ SimRefs \in Nat /\ MaxRecords \in Nat
ASSUME AddrAssumption == Addr \subseteq Nat /\ Size \subseteq Nat \ {0} /\ LongMax \in Nat
\* Timestamps are times of day.
ASSUME TimeAssumption == Time \subseteq Nat \ {0}

ASSUME TypeAssumption ==
    InstrType \subseteq
        {"other", "no_fetch", "conditional_jump", "taken_jump", "untaken_jump"}

\* The bits of the file type the tool tests.
FileType == [encodings : BOOLEAN, arch : {"none", "built", "foreign"}]

VARIABLES stage,          \* what became of the run
          error_string_, has_modules_, trace_version_, filetype_,
          skip_refs_left_, sim_refs_left_,
          timestamp_,     \* 0: none
          zf_cbr, zf_last_addr, zf_last_addr_size,      \* the pending branch
          zf_taken, zf_untaken, cbrm, cbrm_inited, num_disasm_instrs_,
          report,         \* what print_results printed
          printed,        \* the timestamps should_skip() printed
          records,        \* history: the records the tool was given
          shown           \* history: the instructions of the window

window  == <<skip_refs_left_, sim_refs_left_, timestamp_, printed>>
headers == <<trace_version_, filetype_>>
pending == <<zf_cbr, zf_last_addr, zf_last_addr_size>>
counts  == <<zf_taken, zf_untaken, cbrm, cbrm_inited>>
vars == <<stage, error_string_, has_modules_, headers, window, pending, counts,
          num_disasm_instrs_, report, records, shown>>

NoReport == [printed |-> FALSE]

-----------------------------------------------------------------------------

Init ==
    /\ stage = "created"
    /\ error_string_ = ""
    /\ has_modules_ = TRUE
    /\ trace_version_ = Unset
    /\ filetype_ = Unset
    /\ skip_refs_left_ = SkipRefs
    /\ sim_refs_left_ = SimRefs
    /\ timestamp_ = 0
    /\ zf_cbr = FALSE /\ zf_last_addr = 0 /\ zf_last_addr_size = 0
    /\ zf_taken = 0 /\ zf_untaken = 0
    /\ cbrm = <<>> /\ cbrm_inited = FALSE
    /\ num_disasm_instrs_ = 0
    /\ report = NoReport
    /\ printed = <<>>
    /\ records = <<>>
    /\ shown = <<>>

\* A returned error ends the run of the analyzer.
Fail(message) == stage' = "failed" /\ error_string_' = message
Continue == UNCHANGED <<stage, error_string_>>

\* initialize_stream: without a module file that can be read there are no
\* modules; with one, its binaries must load.
InitializeStream ==
    /\ stage = "created"
    /\ \/ has_modules_' = FALSE /\ stage' = "running" /\ UNCHANGED error_string_
       \/ UNCHANGED has_modules_ /\ stage' = "running" /\ UNCHANGED error_string_
       \/ UNCHANGED has_modules_ /\ Fail("Failed to load binaries")
    /\ UNCHANGED <<headers, window, pending, counts, num_disasm_instrs_, report,
                   records, shown>>

Receive(kind, value) == records' = Append(records, [kind |-> kind, value |-> value])

\* Whether should_skip() answers true, and what it does before; now is the value
\* timestamp_ has when it is called.
Skips == skip_refs_left_ > 0 \/ (SimRefs > 0 /\ sim_refs_left_ = 0)
LastOfWindow == ~Skips /\ SimRefs > 0 /\ sim_refs_left_ = 1

Advance ==
    /\ skip_refs_left_' = IF skip_refs_left_ > 0 THEN skip_refs_left_ - 1 ELSE 0
    /\ sim_refs_left_' = IF Skips \/ SimRefs = 0 THEN sim_refs_left_
                                                 ELSE sim_refs_left_ - 1

ShouldSkip(now) ==
    /\ Advance
    /\ IF LastOfWindow /\ now > 0
         THEN printed' = Append(printed, now) /\ timestamp_' = 0
         ELSE timestamp_' = now /\ UNCHANGED printed

-----------------------------------------------------------------------------
(* The markers that are processed whether or not records are skipped.      *)

\* Faulty: the version counts toward the window.
VersionMarkerCounted(version) ==
    /\ Receive("version", version)
    /\ IF trace_version_ \in {Unset, version} THEN Continue
         ELSE Fail("Version mismatch across files")
    /\ trace_version_' = IF trace_version_ = Unset THEN version ELSE trace_version_
    /\ ShouldSkip(timestamp_)
    /\ UNCHANGED <<has_modules_, filetype_, pending, counts, num_disasm_instrs_,
                   report, shown>>

VersionMarker(version) ==
    /\ Receive("version", version)
    /\ IF trace_version_ \in {Unset, version} THEN Continue
         ELSE Fail("Version mismatch across files")
    /\ trace_version_' = IF trace_version_ = Unset THEN version ELSE trace_version_
    /\ UNCHANGED <<has_modules_, filetype_, window, pending, counts,
                   num_disasm_instrs_, report, shown>>

FiletypeMarker(filetype) ==
    /\ Receive("filetype", filetype)
    /\ filetype_' = IF filetype_ = Unset THEN filetype ELSE filetype_
    /\ IF filetype_ \notin {Unset, filetype} THEN Fail("Filetype mismatch across files")
         ELSE IF filetype.arch = "foreign" THEN Fail("Architecture mismatch")
         ELSE Continue
    /\ UNCHANGED <<has_modules_, trace_version_, window, pending, counts,
                   num_disasm_instrs_, report, shown>>

\* Faulty: the timestamp of a skipped record is kept.
TimestampMarkerKept(time) ==
    /\ Receive("timestamp", time)
    /\ ShouldSkip(time)
    /\ UNCHANGED <<stage, error_string_, has_modules_, headers, pending, counts,
                   num_disasm_instrs_, report, shown>>

TimestampMarker(time) ==
    /\ Receive("timestamp", time)
    /\ IF Skips THEN Advance /\ timestamp_' = 0 /\ UNCHANGED printed
                ELSE ShouldSkip(time)
    /\ UNCHANGED <<stage, error_string_, has_modules_, headers, pending, counts,
                   num_disasm_instrs_, report, shown>>

\* Any other marker, and data: only the window moves on.
OtherRecord ==
    /\ Receive("other", 0)
    /\ ShouldSkip(timestamp_)
    /\ UNCHANGED <<stage, error_string_, has_modules_, headers, pending, counts,
                   num_disasm_instrs_, report, shown>>

-----------------------------------------------------------------------------
(* Instructions.                                                           *)

\* While no filetype was seen all of its bits are set.
Encoded == filetype_ = Unset \/ filetype_.encodings
Undecoded == ~Encoded /\ ~has_modules_

\* updateCBRM: the pair counts the outcomes true and false.
UpdateCBRM(ins_id, taken) ==
    LET known == IF cbrm_inited THEN cbrm ELSE <<>>
        old   == IF ins_id \in DOMAIN known THEN known[ins_id] ELSE <<0, 0>>
        new   == IF taken THEN <<old[1] + 1, old[2]>> ELSE <<old[1], old[2] + 1>>
    IN  /\ cbrm_inited' = TRUE
        /\ cbrm' = [a \in DOMAIN known \cup {ins_id} |->
                      IF a = ins_id THEN new ELSE known[a]]

\* The pending branch is resolved by the address of the next instruction.
Resolve(addr) ==
    LET behind == zf_last_addr + zf_last_addr_size = addr
    IN  IF zf_cbr
          THEN /\ UpdateCBRM(zf_last_addr, behind)
               /\ zf_taken' = IF behind THEN zf_taken + 1 ELSE zf_taken
               /\ zf_untaken' = IF behind THEN zf_untaken ELSE zf_untaken + 1
          ELSE UNCHANGED counts

\* Faulty: a branch is only remembered when none is pending.
RememberFirst(type, addr, size) ==
    /\ zf_cbr' = (type = "conditional_jump")
    /\ IF type = "conditional_jump" /\ ~zf_cbr
         THEN zf_last_addr' = addr /\ zf_last_addr_size' = size
         ELSE UNCHANGED <<zf_last_addr, zf_last_addr_size>>

\* Faulty: the branch stays pending until the next one.
RememberLong(type, addr, size) ==
    IF type = "conditional_jump"
      THEN zf_cbr' = TRUE /\ zf_last_addr' = addr /\ zf_last_addr_size' = size
      ELSE UNCHANGED pending

Remember(type, addr, size) ==
    /\ zf_cbr' = (type = "conditional_jump")
    /\ IF type = "conditional_jump"
         THEN zf_last_addr' = addr /\ zf_last_addr_size' = size
         ELSE UNCHANGED <<zf_last_addr, zf_last_addr_size>>

Show(thread, type, addr, size) ==
    shown' = Append(shown, [thread |-> thread, type |-> type, addr |-> addr,
                            size |-> size, decoded |-> ~Undecoded])

\* Faulty: the address of a branch is not checked.
UnconvertiblePending(type, addr) == addr > LongMax /\ zf_cbr

\* std::stol throws for an address no long holds: the process ends.
Unconvertible(type, addr) ==
    addr > LongMax /\ (zf_cbr \/ (Undecoded /\ type = "conditional_jump"))

SkippedInstruction ==
    /\ Skips
    /\ ShouldSkip(timestamp_)
    /\ UNCHANGED <<stage, error_string_, has_modules_, headers, pending, counts,
                   num_disasm_instrs_, report, shown>>

ThrowingInstruction(type, addr) ==
    /\ ~Skips
    /\ Unconvertible(type, addr)
    /\ ShouldSkip(timestamp_)
    /\ stage' = "killed"
    /\ UNCHANGED <<error_string_, has_modules_, headers, pending, counts,
                   num_disasm_instrs_, report, shown>>

\* Neither encodings nor binaries: the trace itself names the branches.
UndecodedInstruction(thread, type, addr, size) ==
    /\ ~Skips
    /\ ~Unconvertible(type, addr)
    /\ Undecoded
    /\ ShouldSkip(timestamp_)
    /\ Resolve(addr)
    /\ Remember(type, addr, size)
    /\ num_disasm_instrs_' = num_disasm_instrs_ + 1
    /\ Show(thread, type, addr, size)
    /\ UNCHANGED <<stage, error_string_, has_modules_, headers, report>>

\* Branches of traces that can be decoded are not remembered.  Without encodings
\* the address must be found in the binaries.
DecodedInstruction(thread, type, addr, size) ==
    /\ ~Skips
    /\ ~Unconvertible(type, addr)
    /\ ~Undecoded
    /\ ShouldSkip(timestamp_)
    /\ Resolve(addr)
    /\ \/ /\ num_disasm_instrs_' = num_disasm_instrs_ + 1
          /\ Continue
       \/ /\ ~Encoded
          /\ Fail("Failed to find mapped address")
          /\ UNCHANGED num_disasm_instrs_
    /\ Show(thread, type, addr, size)
    /\ UNCHANGED <<has_modules_, headers, pending, report>>

Instruction(thread, type, addr, size) ==
    /\ Receive("instr", 0)
    /\ \/ SkippedInstruction
       \/ ThrowingInstruction(type, addr)
       \/ UndecodedInstruction(thread, type, addr, size)
       \/ DecodedInstruction(thread, type, addr, size)

ProcessMemref ==
    /\ stage = "running"
    /\ Len(records) < MaxRecords
    /\ \/ \E version \in Version : VersionMarker(version)
       \/ \E filetype \in FileType : FiletypeMarker(filetype)
       \/ \E time \in Time : TimestampMarker(time)
       \/ OtherRecord
       \/ \E thread \in Thread, type \in InstrType, addr \in Addr, size \in Size :
            Instruction(thread, type, addr, size)

-----------------------------------------------------------------------------

\* Faulty: the share of one outcome, without the smaller of the two.
LinearEntropyOneSided(taken, untaken) == 2 * taken

\* linear_entropy of a branch, times the number of its executions.
LinearEntropy(taken, untaken) == 2 * Min({taken, untaken})

\* print_results; the entropy that is printed is entropy / branches.
PrintResults ==
    /\ stage = "running"
    /\ stage' = "printed"
    /\ report' = [printed  |-> TRUE,
                  total    |-> num_disasm_instrs_,
                  branches |-> zf_taken + zf_untaken,
                  taken    |-> zf_taken,
                  entropy  |-> SumFunction([a \in DOMAIN cbrm |->
                                              LinearEntropy(cbrm[a][1], cbrm[a][2])])]
    /\ UNCHANGED <<error_string_, has_modules_, headers, window, pending, counts,
                   num_disasm_instrs_, records, shown>>

Next == InitializeStream \/ ProcessMemref \/ PrintResults

Spec == Init /\ [][Next]_vars

-----------------------------------------------------------------------------

\* The records should_skip() is asked about, and those of them it lets pass: a
\* record counts by its rank.
Countable == {i \in DOMAIN records : records[i].kind \notin {"version", "filetype"}}
Rank(i) == Cardinality({j \in Countable : j <= i})
Window == {i \in Countable :
             Rank(i) > SkipRefs /\ (SimRefs > 0 => Rank(i) <= SkipRefs + SimRefs)}

\* The branches the tool counts, those that another instruction follows, and
\* the later instructions of the same thread.
Branches == {i \in DOMAIN shown : ~shown[i].decoded /\ shown[i].type = "conditional_jump"}
Resolved == {i \in Branches : i < Len(shown)}
Later(i) == {j \in DOMAIN shown : j > i /\ shown[j].thread = shown[i].thread}
FallsThrough(i, j) == shown[i].addr + shown[i].size = shown[j].addr

\* Every variable has its type; only a run that failed has an error.
TypeOK ==
    /\ stage \in {"created", "running", "failed", "killed", "printed"}
    /\ stage = "failed" <=> error_string_ # ""
    /\ stage = "printed" <=> report.printed
    /\ trace_version_ \in Version \cup {Unset}
    /\ filetype_ \in FileType \cup {Unset}
    /\ skip_refs_left_ \in 0..SkipRefs
    /\ sim_refs_left_ \in 0..SimRefs
    /\ timestamp_ \in Time \cup {0}
    /\ zf_cbr \in BOOLEAN
    /\ zf_last_addr \in {a \in Addr \cup {0} : a <= LongMax}
    /\ DOMAIN cbrm \subseteq Addr
    /\ \A a \in DOMAIN cbrm : cbrm[a] \in (Nat \X Nat) \ {<<0, 0>>}
    /\ zf_taken \in Nat /\ zf_untaken \in Nat

\* The window holds exactly the records from SkipRefs + 1 on, SimRefs of them if
\* SimRefs is not 0, however version and file type are spread over the trace
\* (lines 185-207, 220-265).
WindowExact ==
    stage # "killed" =>
        Len(shown) = Cardinality({i \in Window : records[i].kind = "instr"})

\* When the last record of the window is processed its last timestamp is
\* printed, if it has one, and no timestamp is printed at any other time
\* (lines 199-204, 249-258).
TimestampOfWindow ==
    LET Stamps == {i \in Window : records[i].kind = "timestamp"}
        Over   == SimRefs > 0 /\ Cardinality(Countable) >= SkipRefs + SimRefs
    IN  printed = IF Over /\ Stamps # {} THEN <<records[Max(Stamps)].value>>
                                         ELSE <<>>

\* As long as no other thread's instruction comes between a branch and its
\* successor, cbrm counts for every branch what its own thread did next
\* (lines 291-303, 325-326, 342).
OwnThreadExact ==
    (\A i \in Resolved : shown[i + 1].thread = shown[i].thread) =>
    \A a \in Addr :
        LET Executed == {i \in Branches : shown[i].addr = a /\ Later(i) # {}}
            Behind   == {i \in Executed : FallsThrough(i, Min(Later(i)))}
        IN  IF Executed = {} THEN a \notin DOMAIN cbrm
              ELSE /\ a \in DOMAIN cbrm
                   /\ cbrm[a] = <<Cardinality(Behind), Cardinality(Executed \ Behind)>>

\* Each branch of the window is counted once or is the pending one, in the totals and
\* in cbrm, whatever the interleaving (lines 80-93, 291-303).
EachBranchOnce ==
    /\ zf_taken + zf_untaken + (IF zf_cbr THEN 1 ELSE 0) = Cardinality(Branches)
    /\ zf_taken = SumFunction([a \in DOMAIN cbrm |-> cbrm[a][1]])
    /\ zf_untaken = SumFunction([a \in DOMAIN cbrm |-> cbrm[a][2]])

\* Half of the printed entropy is the share of branches that the best prediction
\* of one outcome per address gets wrong (lines 364-386).
EntropyIsBestGuess ==
    report.printed =>
        LET Wrong(p) == {i \in Resolved : FallsThrough(i, i + 1) # p[shown[i].addr]}
        IN  report.entropy =
                2 * Min({Cardinality(Wrong(p)) : p \in [Addr -> BOOLEAN]})

-----------------------------------------------------------------------------
(* What the source says of the report.                                     *)

\* " :taken" (line 375) is the number of branches that were taken, those whose
\* successor is not the next instruction in memory.
TakenIsTaken ==
    report.printed =>
        report.taken = Cardinality({i \in Resolved : ~FallsThrough(i, i + 1)})

=============================================================================
