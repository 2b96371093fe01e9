--------------------------- MODULE Instrumentation ---------------------------
(***************************************************************************)
(* The LLVM passes of IR_LLVM/llvm_profilling and a run of the program     *)
(* they instrumented.  A pass goes through the functions of a module, puts *)
(* calls of a runtime library (update, print) in front of instructions as  *)
(* it comes to them, and adds init and print to main at the end; it        *)
(* changes nothing else, so that a rewritten module is the old one with    *)
(* the calls before each instruction.  The program then runs:              *)
(* constructors, main, exit handlers.  The library only receives the calls *)
(* (log).                                                                  *)
(*                                                                         *)
(* A module is a function from names to functions, a function a sequence   *)
(* of basic blocks, a block a sequence of instructions, and a place (site) *)
(* is a function, a block and an index.                                    *)
(***************************************************************************)
EXTENDS Naturals, Sequences, SequencesExt, FiniteSets, FiniteSetsExt

CONSTANTS Programs,  \* the modules given to the passes
          Passes,    \* the passes: "branch", "inst", "data", "old", "operands"
          MaxSteps   \* bound: instructions executed in one run

VARIABLES pass, prog, \* chosen once: the pass and the module it was given
          before,     \* the calls put in front of each instruction
          todo,       \* the functions the pass has still to come to
          cursor,     \* the site its loop is at, if any
          stack,      \* the running functions' sites, the innermost first
          phase,      \* what runs: the pass, constructors, main, handlers, or
                      \* how the program ended
          log,        \* history: the calls the library received
          ran         \* history: the instructions executed

given   == <<pass, prog>>
loop    == <<todo, cursor>>
history == <<log, ran>>
vars    == <<given, before, loop, stack, phase, history>>

----------------------------------------------------------------------------
(* What the passes insert. *)

\* A name stands for the test the passes make of it: exact for the first two
\* and the first of each other line, "contains" for the last.
ExitLike(f) == f \in {"exit", "f90_stop08a", "quit_flag_"}
Intrinsic(f) == f \in {"llvm.dbg.value", "llvm.memcpy"}
Startup(f) == f \in {"__cxx_global_var_init", "_GLOBAL__sub_I_"}
Indirect == "indirect"   \* the callee is no function but a pointer

MainOf(program) == IF "main" \in DOMAIN program THEN "main" ELSE "MAIN_"

\* What LLVM's verifier demands of a module: blocks end with their only
\* terminator, begin with their phi nodes and then their landing pad, branches
\* stay in the function and never go to its entry, and intrinsics have no body.
\* As C++ wants it, nothing calls main.
Terminator == {"ret", "br", "condbr", "invoke", "unreachable"}
Op == Terminator \cup {"phi", "landingpad", "load", "store", "other", "call"}
Targets(ins) == CASE ins.op = "br" -> 1 [] ins.op \in {"condbr", "invoke"} -> 2 [] OTHER -> 0
Nonempty(s) == DOMAIN s = 1..Len(s) /\ Len(s) \in Nat \ {0}

\* What a call or an invoke may call: a function, or those a pointer may refer to.
Callees(ins) == IF ins.callee = Indirect THEN ins.pointees ELSE {ins.callee}

WellFormed(program) ==
  /\ MainOf(program) \in DOMAIN program
  /\ \A f \in DOMAIN program :
       /\ ~Intrinsic(f) /\ Nonempty(program[f])
       /\ \A b \in DOMAIN program[f] :
            /\ Nonempty(program[f][b])
            /\ \A i \in DOMAIN program[f][b] :
                 LET ins == program[f][b][i]
                 IN /\ ins.op \in Op /\ ins.values \in Nat /\ MainOf(program) \notin Callees(ins)
                    /\ ins.op \in Terminator <=> i = Len(program[f][b])
                    /\ ins.op \in {"phi", "landingpad"} => \A j \in 1..i - 1 : program[f][b][j].op = "phi"
                    /\ DOMAIN ins.to = 1..Targets(ins)
                    /\ \A k \in DOMAIN ins.to : ins.to[k] \in DOMAIN program[f] \ {1}

ASSUME ProgramAssumption ==
  Passes \subseteq {"branch", "inst", "data", "old", "operands"} /\ \A p \in Programs : WellFormed(p)

\* What C and C++ ask of a program: exit is the library's, and an exit handler
\* calls nothing that exits.
Body(program, f) == UNION {ToSet(block) : block \in ToSet(program[f])}
Silent(program, S) ==
  \A f \in S : \A ins \in Body(program, f) : ins.op \in {"call", "invoke"} =>
    \A g \in Callees(ins) : ~ExitLike(g) /\ (g \in S \/ g \notin DOMAIN program)
Orderly(program) ==
  /\ DOMAIN program \cap {"exit", "f90_stop08a"} = {}
  /\ "handler" \in DOMAIN program =>
       \E S \in SUBSET DOMAIN program : "handler" \in S /\ Silent(program, S)

ASSUME ExitAssumption == \A p \in Programs : Orderly(p)

Opcode(ins) == IF ins.op = "condbr" THEN "br" ELSE ins.op
Call(c, arg) == <<[call |-> c, arg |-> arg]>>
PrintsAt(ins) == ins.op = "call" /\ ExitLike(ins.callee)

\* Instructions at which the loops of the reuse-distance passes continue: invokes,
\* phi nodes, and direct calls.
Passed(ins) == \/ ins.op \in {"phi", "invoke"}
               \/ ins.op = "call" /\ ~ExitLike(ins.callee) /\ ins.callee # Indirect

\* Faulty: forgets that only conditional branches have a condition.
BranchCallsUnasked(ins) ==
  IF PrintsAt(ins) THEN Call("print", "nothing")
  ELSE IF ins.op \in {"br", "condbr"} THEN Call("updateCond", "condition") ELSE <<>>

\* Faulty: the names of the callees are not looked at.
BranchCallsNameless(ins) ==
  CASE ins.op = "call" /\ ins.callee # Indirect -> Call("print", "nothing")
    [] ins.op = "condbr" -> Call("updateCond", "condition")
    [] ins.op = "br" -> Call("update", "nothing")
    [] OTHER -> <<>>

BranchCalls(ins) ==
  CASE PrintsAt(ins) -> Call("print", "nothing")
    [] ins.op = "condbr" -> Call("updateCond", "condition")
    [] ins.op = "br" -> Call("update", "nothing")
    [] OTHER -> <<>>

InstCalls(ins) ==
  IF Passed(ins) THEN <<>>
  ELSE (IF PrintsAt(ins) THEN Call("print", "nothing") ELSE <<>>) \o Call("update", Opcode(ins))

DataCalls(ins) ==
  CASE PrintsAt(ins) -> Call("print", "nothing")
    [] ins.op \in {"load", "store"} -> Call("update", ins.op)
    [] OTHER -> <<>>

\* The superseded data pass: without the opcode.
OldDataCalls(ins) ==
  CASE PrintsAt(ins) -> Call("print", "nothing")
    [] ins.op \in {"load", "store"} -> Call("update", "nothing")
    [] OTHER -> <<>>

\* The first data pass: one update per operand that is neither a constant nor
\* a label, and one if the result is used (together: ins.values).
OperandCalls(ins) ==
  IF Passed(ins) THEN <<>>
  ELSE (IF PrintsAt(ins) THEN Call("print", "nothing") ELSE <<>>)
       \o [k \in 1..ins.values |-> [call |-> "update", arg |-> "nothing"]]

\* What the body of the loop inserts in front of an instruction.
Calls(ins) == CASE pass = "branch" -> BranchCalls(ins)
                [] pass = "inst" -> InstCalls(ins)
                [] pass = "data" -> DataCalls(ins)
                [] pass = "old" -> OldDataCalls(ins)
                [] pass = "operands" -> OperandCalls(ins)

MainFunc == MainOf(prog)
Ins(s) == prog[s[1]][s[2]][s[3]]
FirstOf(block) == Min({i \in DOMAIN block :
  block[i].op # "phi" /\ ~(block[i].op = "call" /\ block[i].callee = "llvm.dbg.value")})

AtEntry(s) == IF s = <<MainFunc, 1, FirstOf(prog[MainFunc][1])>> THEN Call("init", "nothing") ELSE <<>>
AtReturn(s) == IF s[1] = MainFunc /\ Ins(s).op = "ret" THEN Call("print", "nothing") ELSE <<>>

\* Faulty: init is inserted after the updates in front of the first instruction.
RunOnModuleLate(updates, s) == updates \o AtEntry(s) \o AtReturn(s)

\* Faulty: main's returns are not looked for.
RunOnModuleSilent(updates, s) == AtEntry(s) \o updates

\* First every function is rewritten.  The first instruction of main that is
\* no phi, debug or lifetime intrinsic may then be an inserted call, so init
\* comes before it; print comes after the update of a return.
RunOnModule(updates, s) == AtEntry(s) \o updates \o AtReturn(s)

----------------------------------------------------------------------------
(* The pass goes through the module. *)

Sites == UNION {UNION {{<<f, b, i>> : i \in DOMAIN prog[f][b]} : b \in DOMAIN prog[f]} : f \in DOMAIN prog}
After(s) == [s EXCEPT ![3] = @ + 1]

\* Where the loop over a block starts: at its first instruction or, in the
\* reuse-distance passes, behind the phi nodes and the landing pad.
StartOf(f, b) ==
  IF pass = "branch" THEN 1
  ELSE Min({i \in DOMAIN prog[f][b] : prog[f][b][i].op \notin {"phi", "landingpad"}})

NextBlock(s) == IF s[2] < Len(prog[s[1]]) THEN <<s[1], s[2] + 1, StartOf(s[1], s[2] + 1)>> ELSE <<>>

\* The reuse-distance passes skip the initializers of C++.
Skipped(f) == pass # "branch" /\ Startup(f)

\* What runs when the pass, constructors, main or exit() is over.
Root(p) == CASE p = "constructors" -> "_GLOBAL__sub_I_" [] p = "main" -> MainFunc [] p = "handlers" -> "handler"
Start(p) == /\ phase' = p /\ stack' = <<<<Root(p), 1, 1>>>>

Init ==
  /\ pass \in Passes /\ prog \in Programs
  /\ before = [s \in Sites |-> <<>>] /\ todo = DOMAIN prog /\ cursor = <<>>
  /\ phase = "rewriting" /\ stack = <<>> /\ log = <<>> /\ ran = <<>>

\* The order of the functions makes no difference to what is inserted.
RunOnFunction ==
  /\ phase = "rewriting" /\ cursor = <<>> /\ todo # {}
  /\ LET f == CHOOSE f \in todo : TRUE
     IN /\ todo' = todo \ {f}
        /\ cursor' = IF Skipped(f) THEN <<>> ELSE <<f, 1, StartOf(f, 1)>>
  /\ UNCHANGED <<given, before, stack, phase, history>>

\* Faulty: where the body of the loop has nothing to do it leaves the block.
VisitBreaks ==
  /\ phase = "rewriting" /\ cursor # <<>>
  /\ before' = [before EXCEPT ![cursor] = @ \o Calls(Ins(cursor))]
  /\ cursor' = IF Passed(Ins(cursor)) \/ cursor[3] = Len(prog[cursor[1]][cursor[2]])
               THEN NextBlock(cursor) ELSE After(cursor)
  /\ UNCHANGED <<given, todo, stack, phase, history>>

Visit ==
  /\ phase = "rewriting" /\ cursor # <<>>
  /\ before' = [before EXCEPT ![cursor] = @ \o Calls(Ins(cursor))]
  /\ cursor' = IF cursor[3] < Len(prog[cursor[1]][cursor[2]]) THEN After(cursor) ELSE NextBlock(cursor)
  /\ UNCHANGED <<given, todo, stack, phase, history>>

FinishModule ==
  /\ phase = "rewriting" /\ cursor = <<>> /\ todo = {}
  /\ before' = [s \in Sites |-> RunOnModule(before[s], s)]
  /\ Start(IF "_GLOBAL__sub_I_" \in DOMAIN prog THEN "constructors" ELSE "main")
  /\ UNCHANGED <<given, loop, history>>

----------------------------------------------------------------------------
(* The run of the instrumented program. *)

Here == Head(stack)
Now == Ins(Here)
Running == phase \in {"constructors", "main", "handlers"}

\* Where a call that comes back goes on.
Behind(s) == IF Ins(s).op = "invoke" THEN <<s[1], Ins(s).to[1], 1>> ELSE After(s)

\* The instruction at Here is executed, after the calls in front of it.
Execute(outcome) ==
  /\ Running /\ Len(ran) < MaxSteps
  /\ log' = log \o [k \in DOMAIN before[Here] |->
       [call |-> before[Here][k].call, at |-> Here, phase |-> phase,
        arg |-> IF before[Here][k].arg = "condition" THEN outcome ELSE before[Here][k].arg]]
  /\ ran' = Append(ran, [at |-> Here, outcome |-> outcome, phase |-> phase])
  /\ UNCHANGED <<given, before, loop>>

Finish == IF phase # "handlers" /\ "handler" \in DOMAIN prog THEN Start("handlers")
          ELSE phase' = "ended" /\ stack' = <<>>

Calling == Running /\ Now.op \in {"call", "invoke"}

\* Instructions without control flow.
Straight ==
  /\ Running /\ Now.op \in {"phi", "landingpad", "load", "store", "other"}
  /\ Execute("nothing")
  /\ stack' = <<After(Here)>> \o Tail(stack) /\ UNCHANGED phase

\* Calls of functions elsewhere that come back (quit_flag_ may).
Outside ==
  /\ Calling /\ Callees(Now) \ (DOMAIN prog \cup {"exit", "f90_stop08a", "__cxa_throw"}) # {}
  /\ Execute("nothing")
  /\ stack' = <<Behind(Here)>> \o Tail(stack) /\ UNCHANGED phase

Enter ==
  /\ Calling /\ \E f \in Callees(Now) \cap DOMAIN prog : stack' = <<<<f, 1, 1>>>> \o stack
  /\ Execute("nothing") /\ UNCHANGED phase

Branch ==
  /\ Running /\ Now.op \in {"br", "condbr"}
  /\ \E k \in DOMAIN Now.to :
       /\ Execute(IF Now.op = "br" THEN "nothing" ELSE IF k = 1 THEN "true" ELSE "false")
       /\ stack' = <<<<Here[1], Now.to[k], 1>>>> \o Tail(stack)
  /\ UNCHANGED phase

Return ==
  /\ Running /\ Now.op = "ret" /\ Execute("nothing")
  /\ IF Len(stack) > 1 THEN stack' = <<Behind(stack[2])>> \o Tail(Tail(stack)) /\ UNCHANGED phase
     ELSE IF phase = "constructors" THEN Start("main") ELSE Finish

Exit ==
  /\ Calling /\ \E f \in Callees(Now) : ExitLike(f) /\ f \notin DOMAIN prog
  /\ Execute("exit") /\ Finish

\* The innermost invoke takes the exception; without one the program dies.
Throw ==
  /\ Calling /\ "__cxa_throw" \in Callees(Now) /\ Execute("nothing")
  /\ LET pads == {k \in DOMAIN stack : Ins(stack[k]).op = "invoke"}
     IN IF pads = {} THEN phase' = "died" /\ stack' = <<>>
        ELSE LET s == stack[Min(pads)]
             IN /\ stack' = <<<<s[1], Ins(s).to[2], 1>>>> \o SubSeq(stack, Min(pads) + 1, Len(stack))
                /\ UNCHANGED phase

Rewrite == RunOnFunction \/ Visit \/ FinishModule
Step == Straight \/ Outside \/ Enter \/ Branch \/ Return \/ Exit \/ Throw
Next == Rewrite \/ Step
Spec == Init /\ [][Next]_vars

----------------------------------------------------------------------------
(* Properties. *)

Updates == {"update", "updateCond"}

\* The place of control and that of the loop are instructions, and the library is
\* called with a condition exactly where the pass asked for one
\* (BranchProfiling.cpp:107-113).
TypeOK ==
  /\ Running <=> stack # <<>>
  /\ ToSet(stack) \subseteq Sites /\ (cursor = <<>> \/ cursor \in Sites)
  /\ \A k \in DOMAIN log : (log[k].call = "updateCond") <=> (log[k].arg \in {"true", "false"})

\* What the library should be told of an executed instruction: of a branch, with
\* its outcome if it has a condition; of a load or store; or, outside of the two
\* initializers, of every instruction, or each of its values.  The two that count
\* every instruction do not count phi nodes and landing pads, nor invokes and
\* direct calls, except for those of exit and its like.
Wanted(r) ==
  LET ins == Ins(r.at)
      up(c, arg) == [call |-> c, at |-> r.at, phase |-> r.phase, arg |-> arg]
      initializer == r.at[1] \in {"__cxx_global_var_init", "_GLOBAL__sub_I_"}
      exits == ins.callee \in {"exit", "f90_stop08a", "quit_flag_"}
      kinds == {"load", "store", "other", "ret", "br", "condbr", "unreachable"}
      any == ins.op \in kinds \/ (ins.op = "call" /\ (exits \/ ins.callee = Indirect))
  IN CASE pass = "branch" /\ ins.op = "condbr" -> <<up("updateCond", r.outcome)>>
       [] pass = "branch" /\ ins.op = "br" -> <<up("update", "nothing")>>
       [] pass = "data" /\ ins.op \in {"load", "store"} /\ ~initializer -> <<up("update", ins.op)>>
       [] pass = "old" /\ ins.op \in {"load", "store"} /\ ~initializer -> <<up("update", "nothing")>>
       [] pass = "inst" /\ any /\ ~initializer ->
            <<up("update", IF ins.op = "condbr" THEN "br" ELSE ins.op)>>
       [] pass = "operands" /\ any /\ ~initializer -> [k \in 1..ins.values |-> up("update", "nothing")]
       [] OTHER -> <<>>

Told == {k \in DOMAIN log : log[k].call \in Updates}
Due == UNION {{j} \X DOMAIN Wanted(ran[j]) : j \in DOMAIN ran}
Precedes(v, w) == v[1] < w[1] \/ (v[1] = w[1] /\ v[2] < w[2])

\* The loops over functions, blocks and instructions leave nothing out and come to
\* nothing twice: in a run, over calls, loops, exceptions and exit, the updates are
\* those of the executed instructions that the pass is for, in their order, each
\* once and with its own outcome (there are as many, and the n-th of one is the
\* n-th of the other).  branch_profillig/README.md:2 speaks of conditional branches
\* only; the pass counts the others too, with a call of their own.
CountsWhatRan ==
  /\ Cardinality(Told) = Cardinality(Due)
  /\ LET place == [w \in Due |-> Cardinality({v \in Due : Precedes(v, w)})]
     IN \A k \in Told : \E w \in Due : /\ place[w] = Cardinality({j \in Told : j < k})
                                       /\ log[k] = Wanted(ran[w[1]])[w[2]]

\* From the first instruction of main on the library is initialised before
\* it is told anything else, once.
InitializedFirst ==
  \A k \in DOMAIN log : log[k].phase # "constructors" /\ log[k].call # "init" =>
     \/ \A j \in DOMAIN ran : ran[j].phase # "main"   \* a constructor called exit
     \/ Cardinality({j \in 1..k : log[j].call = "init"}) = 1

LastPrint == Max({k \in DOMAIN log : log[k].call = "print"} \cup {0})
ByMain == {k \in DOMAIN log : log[k].phase = "main"}

\* The run contains no exit that the pass cannot see: every one was a call of the
\* function itself, not through a pointer and not an invoke, and none was in an
\* initializer that the pass skips (InstReuseDist.cpp:74-76, 88-104).
ExitsSeen ==
  \A k \in DOMAIN ran : ran[k].outcome = "exit" => PrintsAt(Ins(ran[k].at)) /\ ~Skipped(ran[k].at[1])

\* When main has returned or the program has called exit in a way the pass sees, a
\* report was printed that leaves out nothing main did but the exit call itself.
ReportCoversMain ==
  phase \in {"handlers", "ended"} /\ ByMain # {} /\ ExitsSeen =>
     /\ LastPrint \in ByMain
     /\ \A k \in ByMain : k > LastPrint => PrintsAt(Ins(log[k].at))

\* Such a run ends with one report for the program, unless a function named like
\* quit_flag_ came back to its caller.  branch_profillig/README.md:3 speaks of one
\* for each instrumented function; the code prints none there (BranchProfiling.cpp:
\* 47-57, 89-97).
ReportedOnce ==
  /\ phase = "ended" /\ ExitsSeen
  /\ \A k \in DOMAIN ran : Ins(ran[k].at).callee = "quit_flag_" => ran[k].outcome = "exit"
  => Cardinality({k \in DOMAIN log : log[k].call = "print"}) = 1

\* InstReuseDist.cpp:72 "skip instrumentations before global variables get
\* initialized": nothing is counted before main.
NothingBeforeMain ==
  pass # "branch" => \A k \in DOMAIN log : log[k].call \in Updates => log[k].phase # "constructors"
=============================================================================
