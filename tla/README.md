# WPC-tools: formal models

WPC-tools measures the locality of programs. This directory holds TLA+ models of
its measuring tools, the TLC configurations that check them on small instances,
and proofs checked by TLAPS that hold for every value of the constants. Paths
below are relative to `src/`; `data:` and `instance:` stand for
`ISA_dr(x86_ARM)/data/reuse_distance.cpp` and
`ISA_dr(x86_ARM)/instance/reuse_distance.cpp`.

## 1. Inventory

| Component | State | Operations | Depends on |
|---|---|---|---|
| `lru::Cache` (data:202-328, the same class in instance:148-274) | `m_cache`: key to list iterator; `m_keys`: list of pairs in order of use; two limits | `insert`, `tryGet`, `get`, `contains`, `clear`, private `prune` | a lock class |
| Data reuse-distance tool (data:332-726) | per thread a shard (`cache_map`, `ref_list`, `dist_map`, `total_refs`, `tid`); global `cur_inst_pc`, `lru_cache`, `inst_dist_count`, `reuse_inst_num`, `reuse_dist_sum`/`mloc_id`, `reuse_dist_dssum` | `process_memref`, `parallel_shard_init`/`_memref`/`_exit`, `print_results` | `lru::Cache`; `line_ref_list_t` and the analyzer of DynamoRIO (not in the repository) |
| Instruction reuse-distance tool (instance:278-658) | the same | the same, for instruction fetches | the same |
| Branch view tool (`ISA_dr(x86_ARM)/branch/view.cpp`) | skip and window counters, version and file type, one pending branch, `cbrm` | `process_memref`, `should_skip`, `updateCBRM`, `print_results` | the analyzer |
| LLVM passes (`IR_LLVM/llvm_profilling/*/`: branch, instruction and data, and two earlier data passes no Makefile builds) | the module being rewritten; then the instrumented program | insert update, init and print calls; the program runs them | the runtime library, which is not in the repository |
| Scripts (`IR_LLVM/run.sh`, `ISA_dr(x86_ARM)/run.sh`, `Micro_perf/zf.sh`) | files, background jobs | build, run, collect | all of the above |

The analyzer calls a tool once per trace record. In serial operation one thread
calls `process_memref` for records of all threads interleaved; in parallel
operation each worker calls `parallel_shard_memref` for its own shards. One data
reference updates the shard of its thread and then the globals, for which it
calls `contains`, `get` and `insert` of `lru_cache`. `print_results` merges the
shards and prints the merged one, then each shard, always with the globals.

What is hard here:

* **two distances of one reference.** The shard measures by addresses of its own
  thread (stack distance), the globals by references of all threads (time
  distance). They are printed side by side.
* **a bounded memory of the past.** After `prune` a used address looks new. What
  the histogram then means depends on exactly when addresses are dropped.
* **arithmetic at its limits.** Sums kept in banks of 63 bits, squares in 64 bits
  added to 128, integer and floating division mixed, empty traces.
* **iterators.** The map stores list iterators that every use replaces.
* **parallel operation.** The tools say they support it, with unlocked globals,
  one of which is wider than a machine word.
* **the ways through a program.** What the passes insert must be right on every
  path of a program nobody has seen: constructors before `main`, exceptions, calls
  of `exit` deep in the stack, exit handlers after the report.

What makes each component correct:

* `lru::Cache`: the map and the list describe the same keys, no iterator dangles,
  a lookup answers with the last value inserted, only the least recently used
  keys are dropped and never below the limit.
* the tools: each counter is the number of references it is printed as; the two
  halves agree where they must; the merged report is that of the whole trace.
* the branch tool: each recorded branch is resolved by the next instruction of
  its own thread.
* the passes: the library is initialised before it is told anything, is told of
  each instruction that ran, once and in order, and reports once, at the end, as far
  as the pass can see where the program exits.

## 2. Modules

`LRUStore` is the promise of `lru::Cache` without pointers: an order of use and a
value per key. A new key may push out keys from the cold end, never below the
limit. It mentions neither nodes nor iterators.

`LRUCache` is the class itself. `m_keys` is a sequence of node addresses, `heap`
the pair at each address, `m_cache` maps keys to addresses. An erased node's
address may be handed out again at once, as an allocator does. Each public
method is one action, since each holds the lock from its first to its last
statement (`contains` takes no lock, which matters only in parallel operation).
`get` of a missing key ends the process (`aborted`), so the model can stop.
`remove` is left out: it calls `m_cache.remove`, which `unordered_map` does not
have, so a program that called it would not compile.

`TimeDistance` is the global half of `parallel_shard_memref` (data:456-474), one
reference per step. `lru` is what the cache answers: every insert stores a
larger `cur_inst_pc` and `get` is called with `fresh_key` false, so the order of
the list is the order of the stored numbers. That this is a legal use of the
store is itself checked (`UsesStore`). `Bin`, `AddDistance` and `Square` are the
histogram index, the banks and the 64-bit product; `ScaledRadicand` is the
number under the square root of the report, times a common denominator. `trace`
is a history variable: the addresses in the order they were referenced.

`StackDistance` holds the operators of one shard (data:432-454) and of the report
(number of reuses, merge, order of the sections). `line_ref_list_t` is external and
modelled as a list from whose position the distance follows. Its `cur_time_`
(printed as "Unique accesses") is left out.

`ReuseDistance` is the data or the instruction tool in serial operation (`Tool` says
which records count; the code is otherwise the same): it instantiates
`TimeDistance` for the globals, keeps a shard per thread, handles every kind of
record, and ends with `print_results`. `by` is a history variable with the thread
of each reference. The report includes the two lists of addresses of
`ReportOrder`: the comparison functions `cmp_total_refs` and `cmp_distant_refs`
(data:505-533, instance:447-475) and, as a set of lists, what
`std::partial_sort_copy` may return for each. Had that set two members, the
printed list would depend on the order of a hash map; `ListsDetermined` and the
theorems say it never has.

`ParallelShards` is the instruction tool in parallel operation (instance:314-419):
one worker per shard, `at` the place of each in `parallel_shard_memref`. The
data of a shard belongs to its worker, so `StackDistance`'s part is one step;
each access to a global is a step of its own (`++x` is a load and a store). The
cache is `LRUStore` with a lock: `insert` enters and leaves, `get` is a step that
needs the lock free, `contains` looks whether or not someone is inside. Where
the program races on memory, the model chooses: a lookup during the insertion of
a new key may miss, find or fault, and the reference that `get` returned may
lead to a node that was freed and reused (`Read`). The logarithm of 0 used as an
index ends the process (`Measure`). `overlapped` is a history variable: whether
two references were ever processed at once.

`ParallelSums` is the other half of the same function: the banks of the sum and
the sum of squares (instance:401-409), which share no variable with the counters.
Every use of `loc_id` and of a bank is a load or a store, and since nothing is
atomic or volatile the compiler may keep an index it has read or read it again
(`Index`). `__uint128_t` is two words with a carry; the model allows both orders
a compiler produces, word after word or both loads before both stores. Distances
are inputs and may be any word: `cur_inst_pc - prev_inst_pc` (instance:401) is an
unsigned difference of a counter nobody locks, and a worker whose increment was
lost finds 0 or a number near 2^64 (`Distance` in `ParallelShards`). `added` and
`squared` are history variables with what a serial run would have. `astray` holds
the reuses in process that share their time with another one or have a distance
above INT64_MAX, `clean` says that there was none so far, and `excess` adds up the
distances such reuses put into banks.

`Instrumentation` has two halves. In the first the pass goes through the module:
`RunOnFunction` takes the next function (and skips the two initializers in the
reuse-distance passes), `Visit` is the body of the loop at one instruction and the
step to the next, in the block or in the following one, from where the pass starts
in it (`StartOf`: the first insertion point, or in the branch pass the first
instruction). `Calls` is what the body inserts: `BranchCalls`, `InstCalls`,
`DataCalls`, `OldDataCalls` and `OperandCalls`, with their early `continue`s.
`FinishModule` adds the call of init to the entry of `main` and print to its returns
(`RunOnModule`, which the passes share). A pass changes nothing else, so the
instrumented program is the original one plus the calls in `before`, and the
second half executes it: constructors, `main`, `exit` from anywhere, exceptions
caught by the innermost `invoke`, an exit handler. A call or an invoke is of a
function by name or of one of those a pointer may refer to (`Callees`), be it a
function of the program, one elsewhere, `exit` or `__cxa_throw`; the passes see only
the first kind. `log` is what the library was told, `ran` what was executed.
Functions are data (`Programs`), names stand for the tests the passes make of them.

`Wanted`, against which `log` is compared, says in terms of opcodes and names what
the library should be told of an executed instruction; it uses no operator of the
passes. It is the code's idea of what counts: phi nodes, landing pads, invokes and
direct calls other than exits are not counted by the two passes that count every
instruction, calls through a pointer are, and unconditional branches are by the
branch pass, although its README speaks of conditional ones only.

`WellFormed` is what LLVM's verifier guarantees of a module it lets pass (blocks end
with their only terminator, begin with phi nodes and then the landing pad,
branches stay in the function and never go to its entry) and what C++ demands
(nothing calls `main`); `ProgramAssumption` asks it of every program, and of the
programs of the instance TLC checks it. `ExitAssumption` asks for what C and C++
demand of a program that exits (`Orderly`): it defines no `exit` or `f90_stop08a` of
its own, and what an exit handler may run, followed through its calls, exits
nowhere. Legal programs may still exit where the passes do not look: through a
pointer or by an invoke (BranchProfiling.cpp:81-92), or in an initializer that the
reuse-distance passes skip (InstReuseDist.cpp:74-76). Such a run ends without a
report. The programs of the instance contain all three, and the two properties
about reports name them as their exception (`ExitsSeen`, a condition on the run and
not on the program). Declarations the passes add to the
module, ids of instructions and the text they print are left out; so are their
drivers, which read a module, run one pass and write the module.

`BranchView` is the branch view tool (`view:` stands for
`ISA_dr(x86_ARM)/branch/view.cpp`). There is an action per kind of record:
version, file type and timestamp markers, which the code treats before it asks
`should_skip`, all other records, and instructions, which are skipped, end the
process (`std::stol` on an address of 2^63 or more, view:293 and 325), or are
counted with or without their branch. `should_skip` is two operators, the answer
(`Skips`) and the effect (`ShouldSkip`). `-1` as a file type has every bit set
and therefore counts as encoded. `records` and `shown` are history variables:
what the tool was given and the instructions of its window. The window is a set
of positions in `records`: those whose rank among the records that count
(`Countable`, `Rank`) is in the range asked for. A returned error
ends the analyzer, so no report follows.

`MCLRUCache`, `MCTimeDistance`, `MCReuseDistance`, `MCParallelShards`,
`MCParallelSums`, `MCBranchView` and `MCInstrumentation` are the instances for TLC;
the last one builds its programs from a few bodies per function.
`LRUCacheProofs`, `TimeDistanceProofs`, `ReuseDistanceProofs`, `ParallelShardsProofs`,
`ParallelSumsProofs`, `BranchViewProofs` and `InstrumentationProofs` hold the proofs
about the modules they are named for, and `DataProofs` the lemmas they share:
sums, sizes of sets, least and greatest elements, lists in order of use.

Operators commented "Faulty:" are variants of the definition that follows them,
each with one plausible mistake. The specifications do not use them: they are
there to confirm that each property notices the mistake when the variant takes
the definition's place.

## 3. Runs

| Run | What is asked | Bounds |
|---|---|---|
| `lru_cache` | Do map and list agree, is the size bounded, and does the class implement `LRUStore`? | 4 keys, 2 values, 4 addresses, limit 2 with elasticity 2: the cache fills, prunes two keys at once, and reuses addresses |
| `time_distance` | Are the counters those of the trace? | all traces of 7 references to 5 addresses up to renaming, limit 2 with elasticity 2, words of 4 bits so that banks and squares overflow |
| `reuse_distance` | Do shards, globals and the merged report with its lists agree? | 2 threads, 3 addresses, lists of 2 entries, 5 references, other records and exits anywhere, the report at any moment |
| `small_app`, `stdev` | What the source says of the report and the tool does not do (section 5) | as above, `small_app` for the instruction tool; `stdev` has words of 12 bits so that nothing overflows |
| `parallel_shards` | What survives the races, are shards that do not overlap counted exactly, and does every worker finish? | 2 workers with 2 references each to 2 addresses, limit 1 with elasticity 1: each insert of the other address drops one |
| `zero_distance` | What the report says and two workers at once do not keep (section 5) | as above |
| `parallel_sums` | How wrong can sum and squares become, and are they exact for reuses one after the other? | 2 workers with 2 reuses each, words of 4 bits, distances 5 (two of them overflow a bank and their squares the low word), 0 and 15 (what a lost increment leaves; 15 exceeds INT64_MAX alone) |
| `branch_view` | Which records belong to the window, which timestamp closes it, is each branch counted once, for its own address, and is the entropy that of the outcomes? | 5 records of every kind and 2 threads, one skipped, three in the window; two versions, six file types, two timestamps; 3 addresses of which one does not fit a `long`; two branches in a row and a branch pending at the end occur |
| `view_taken` | What the source says of the branch counts and the tool does not do | 4 records of one thread, no window |
| `instrumentation` | Is the library initialised first, told of exactly what ran, and does the program end with one report of it? | 3600 programs (bodies of `main`, callee, constructors and handler combined, `main` or `MAIN_`; calls and invokes by name and through pointers that may lead to `exit`) under five passes, each gone through from the first function to the last; runs of 16 instructions, enough for constructors, a loop twice, a call and a handler |
| `early_update` | What a comment says of the code before `main` (section 5) | the same programs, 6 instructions |

The serial tools do what the analyzer asks, so nothing is claimed to happen
eventually there and no fairness is assumed. `ParallelShards` assumes weak
fairness of each worker: a thread that can run is scheduled again. A worker that
waits for the lock of the cache needs no more, because shards are finite and the
holder always gets to its unlock, so from some moment on the lock stays free.
`EventuallyOver` is checked without symmetry, and four references are enough for
each pair of steps of two workers to meet, including a `get` whose key is dropped
between `contains` and the lock. Deadlock is not checked because the traces are
finite and the tools end (or, in parallel operation, die): a `get` of a missing
key aborts, a trace ends with its last reference, and nothing follows the report.

`ParallelSums` and `Instrumentation` have safety properties only: a worker that
adds waits for nobody, and whether a program ends is its own affair. Deadlock is
not checked for them either, because workers finish and programs end.

What the bounds leave out: real limits are 2^36 and 2^40 addresses with an
elasticity of 1000. The model has them as parameters; the runs take the smallest
values for which a prune drops more than one address and for which addresses
come back after they were dropped. Symmetry is used for keys, values, addresses
and threads, which the specifications only compare.

The properties of `time_distance` compare counters with the trace in brackets:
an address is certainly cached while fewer than `LruMax` others were used since,
and certainly gone after `LruMax + Elasticity - 1`; in between it depends on when
the last prune ran. For traces with fewer addresses than the limit the two ends
of each bracket coincide and the counters are exact.

## 4. Proofs

All theorems hold for every value of the constants the named assumptions allow;
TLC evaluates the assumptions in the runs. Each module proves an invariant, the
conjunction of its named parts, from `Init` and for each action, and the theorems
follow from it.

`DataProofs`: the totals are `SumFunctionOnSet` of the community modules, a fold in
an order nobody specifies. `SumIsPairs` reads the sum of `f` as the number of pairs
`<<x, k>>` with `k` in `1..f[x]`; from this follow the rules for a function that grows
at one argument (`SumGrows`), is updated, dominated, or constant. The list lemmas
(erase, push, prefix, promote) say what becomes of elements, distinctness and
length.

`LRUCacheProofs` proves, for every set of keys, values and addresses and every
limit and elasticity, that the state keeps its type, that map and list agree
(`IndexMatchesList`) and that the size is bounded. None of these is inductive
alone: to erase a node one needs that its iterator is live and that nodes are
distinct; for the size one needs that map and list have the same number of
entries, which follows from a bijection between positions and keys. The
invariant `Inv` joins them. The lemmas treat the three list operations apart
(erase, push, prune) and each action is a composition of these. The second half
is the refinement: `CacheImplementsStore` says that the class implements `LRUStore`
when the order of use is read from the list (`Recent`) and the values from the
nodes (`Stored`). One lemma per list manipulation says what it does to these two, one
per operation that it is a step of the store; the invariant supplies that the
nodes are distinct, without which moving one would disturb another.

`TimeDistanceProofs` proves every property of `TimeDistance` that a passing run
checks, for every word width,
cache size and number of intervals, under `TimeAssumption` (a trace has fewer than
2^63 references). The bank bound needs the cached positions to be right (a distance
is positive and at most the number of references), and `BanksDense` needs that banks
beyond the one in use are zero. `RetentionWindow` follows from `Window`: what was used
after a cached address is cached, an address is missing only when the cache is full,
and prune leaves exactly `LruMax` (`NewestProperties`: an address used later has a
smaller rank). `NewReference` turns this into what a reference finds: one that hits may be
counted, one that misses was not sure to be. With it a counter, the banks and the
squares step along with the sets they are compared with (`BracketStep`). That a
distance falls into exactly one interval needs the order of the powers of two, which
the provers know nothing about; `PowersRise` reads 2^i as the number of subsets of a set
of i elements. `TimeUsesStore` is the refinement: the addresses in order of their
values (`ByUse`, with each address at its rank) are the list of the store. A use
raises the rank of what was used later and leaves the others (`RankAfterUse`), which
is what moving or pushing an entry to the front of the list does, and prune
keeps the first `LruMax` ranks. With `CacheImplementsStore` this joins the two
levels: the class implements the store, and the tool uses nothing but the store.

`ReuseDistanceProofs` proves every property of `ReuseDistance` that a passing run
checks, for every set of threads, every trace, threshold and length of the
lists, and for either tool. `ReuseAssumption` says that addresses are integers, which
the comparison functions need, and that the length is a natural number.

* `ReuseImplementsTime` shows that the globals step as `TimeDistance` says whatever
  thread a record is from, so the theorems on the histogram, the banks and the
  cache hold of the tool, too.
* `ShardTypes` and `ShardCounts` are the types of a shard and its sums (`ShardConsistent`).
  One lemma each says that a first touch and a further touch keep them, and one
  that a record which counts nothing does; `Outcomes` says what a report was made of.
* `InOrderOfUse` says that what is ahead of an address in a shard's list is what
  its thread used since it used the address. With `AllTouched` (a shard maps just the
  addresses of its thread) the position of an address is its distance in the
  trace, and the histogram is exact (`HistogramExact`, `ShardHistogramExact`).
* `LinesExact` counts the uses of each address in each shard and `Summed` the
  references of all. The merged report adds up sets of positions in the trace that
  are disjoint, one for each shard (`SumPartition`); that gives `AggregateExact`, and with
  the globals' invariant `HalvesAgree`.
* The comparison functions are strict total orders, and from this exactly one list
  is a possible result of the partial sort (`FrequentListUnique`, `DistantListUnique`):
  the elements by their rank are one (`BestExists`), and at the first place where
  two lists differ, the lesser entry would be missing from one of them or come
  too late in it (`BestUnique`). `ReuseListsDetermined` applies this to every shard and
  report, and `ReuseListsExact` says what the list then is; that no other n addresses
  have more distant references than the first n is an exchange of the ones
  for the others (`GreaterSum`).

`ParallelShardsProofs` proves every safety property of `ParallelShards`, for any
finite number of workers and any limits, provided that fewer than 2^64
references are processed (`LengthAssumption`). `Shape` holds the types and the
cache, whose lock has one owner inside `insert`. No property is inductive, since
`++x` stores what was read long before; so each is strengthened to say of a
worker's register what it says of the global, less what others are still to
add: `Losses` (`CurBounded`, `NumBounded`, `CountBounded`) for `NeverOvercounted`, `Capacity`
for `KeptWithinCapacity`, `Serial` (counters and cache exact as long as no two
references overlapped) for `SerialExact`.

`ParallelSumsProofs` does the same for the sums, for any even word width and any
distances that are words (`DistAssumption`), wrapped ones included. `Indices` bounds the index a worker may hold by the number
of reuses begun, `Overstated` compares banks and registers with a serial sum
that dominates them, `LowBound` and `HighBound` count the carries that workers hold
(`Carrying`), `Overshoot` charges what a bank holds above INT64_MAX to the distances
of reuses that were `astray`, and `Serial` describes the one worker that is in the
middle of a reuse as long as the run is `clean`.

`BranchViewProofs` proves every property of `BranchView`, for every trace, window,
address range and any threads. `Left` relates the two countdowns of `should_skip` to
the number of records seen, from which the window follows; `Stamped` says which
timestamp is kept; `PendingLast` that the pending branch is the last instruction of
the window; `Outcomes` relates `cbrm` to the records, and `Guesses` the entropy to
the lesser of the two counts of an address. The assumptions say that addresses and
times are numbers, times are not 0, and instructions have a size.

`InstrumentationProofs` proves for every well-formed program, each of the five passes
and every run (calls, branches, exceptions, exits, constructors and handlers)
that control stays at instructions (`TypeOK`), that the library is initialised
once and before `main` tells it anything (`InitializedFirst`), and that it is told
of exactly what ran (`CountsWhatRan`). `Frames` says that every frame but the
innermost waits at a call or invoke and that `main`'s frame exists only while `main`
runs. `Progress` has the argument for the initialisation: until the entry `main` is
alone on the stack and before it are only phi nodes and debug calls, in front of
which nothing is inserted (`Quiet`, `FirstFacts`); behind it, no frame of `main` is at the
entry again, because branches, landing pads and returns go elsewhere (`Past`). For the
count, `Rewriting` says where the pass is: what stands before each site is `Own`, the calls
that its loop is to put there, or nothing yet if the site's function is
still to come or the site lies ahead of the cursor in its function (`Pending`).
Each step of the loop keeps it (`RunOnFunctionStep`, `VisitStep`, with `Onward` for
the step from one block to the next), so when the program starts nothing was left
out and nothing visited twice (`Written`, with the calls of init and print). `Block` then says that the updates
inserted in front of an instruction stand together and are the wanted ones, and
`CountGrows` adds as many to those told as to those due, behind all earlier ones, so
ranks never change.

Under `ExitAssumption`, and except for runs with an exit that the pass did not see
(`ExitsSeen`), it also proves that the last report was printed by `main` and
covers what `main` did (`ReportCoversMain`), and that a run that ends printed one
(`ReportedOnce`), unless a function named like `quit_flag_` came back. `InsertedPrints` finds the one print in front of an instruction
that reports, whatever the pass. `Moves` sorts the steps: a step stays
in its phase and only takes frames off the stack or adds one that is not `main`'s,
or the program dies, `main` begins, or `main` or `exit` is over. So `main` stays the
outermost frame (`Bottom`) and handlers stay in functions that exit nowhere
(`Handling`), and a run leaves `main` exactly where a report is printed or by an
exit that was not seen (`Ends`).
`Covered` and `Once` keep the place of the report while handlers run.

Model-checked only: the liveness of `ParallelShards`, which is temporal reasoning
under fairness.

## 5. Findings

* A trace in which nothing is used twice divides by zero (instance:536, 538, data:600, 603), although
  "// Very small app." (instance:573) shows such traces are meant to be reported.
* The standard deviation can be the root of a negative number (data:603).
* In parallel operation, which the tool says it supports (instance:317), an
  increment of `cur_inst_pc` that gets lost makes a reuse distance 0, and the
  counter at `int(log2(0))` is incremented (instance:410), although the printed
  intervals begin at 1.
* The branch tool counts a branch as taken when it fell through (view:294-296, 375).
* The instruction and data passes skip functions that run before `main` by name,
  `__cxx_global_var_init` exactly (InstReuseDist.cpp:74). The initializer of a second
  global variable, `__cxx_global_var_init.1`, and functions that initializers call
  are instrumented, so the library is updated before `main` initialises it,
  although the comment above says such functions are skipped.

Read in the code while modelling, without a run of their own:

* the value printed as the median is taken one entry early when the number of
  reuses is odd: the running count is compared with `count / 2` rounded down
  (data:568), which for the distances 0, 1, 1 prints 0;
* in traces with encodings the branch tool counts no branch (view:304-345);
* the branch pass has no test for functions before `main` at all, and its README
  says that only conditional branches are considered while `updateUnCondBranch`
  is inserted for the others (BranchProfiling.cpp:114-116), and that each function
  should output its counts while only `main` and calls that end the program do
  (`ReportedOnce` states what the code does);
* the ids given to the library are pointers cut to 32 bits (BranchProfiling.cpp:107,
  InstReuseDist.cpp:118), so two instructions can share one;
* the section on a thread prints the histogram of all threads (data:582), although
  the shard is said to be the unit of measurement (data:182-186);
* "Unique cache lines" (data:540) counts addresses, because the shift by the line
  size is commented out (data:433);
* conditional jumps that the trace itself marks as taken or untaken are not
  counted by the branch tool (view:328-331, 342).

Between threads the branch tool has one pending branch: the next instruction of
any thread resolves it. `OwnThreadExact` therefore holds only while no other
thread comes in between; `EachBranchOnce` holds always.

In parallel operation the banks together never hold more than the distances that
were found (`SumNeverOverstated`). That does not bound the printed mean from above:
its divisor `reuse_inst_num` loses increments too (instance:412, 533), and a
distance measured after a lost increment of `cur_inst_pc` is 0 or close to 2^64.
The mean can come out too small or too large. The squares can come out too large
as well: a worker adds its carry to a high word that already holds the carry of
another worker whose low word it has overwritten. `SquaresWithinCarries` bounds by
how much. What a bank holds beyond INT64_MAX was added by reuses that shared their
time with another one or whose distance exceeds INT64_MAX on its own
(`BankOvershoot`); without such reuses the sums are exact (`SumsSerialExact`).

`KeptWithinCapacity` is about `get` and not about the size of the shared cache: an
abort for a key that `contains` has just found means that the shards together use
more addresses than the cache may hold.

Not a finding but worth knowing: the reset of the globals in
`parallel_shard_init` follows a `return` (instance:327-335, data:381-389), so it
never runs. `SerialExact` shows that this is what makes shards add up: its mutant
executes the statements, and the counts of earlier shards disappear.

## 6. Not modelled, and the plan

Every component that keeps state in the repository has its module, and every safety
property of a passing run has its theorem.

Left out for good: the layout of the reports and the arithmetic that is only
printed (percentages, median, the deviation of the stack distances); DynamoRIO;
the runtime library of the passes, which is not in the repository; `main` of the
passes; the scripts, which build, start jobs and wait for them, and keep nothing
of their own.
