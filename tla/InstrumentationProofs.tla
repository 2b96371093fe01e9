------------------------ MODULE InstrumentationProofs ------------------------
(***************************************************************************)
(* What holds of every run of every instrumented program: the place of     *)
(* control is an instruction, conditions are asked for where there are     *)
(* some, the library is initialised, once, before main tells it anything,  *)
(* it is told of exactly what ran, and it reports once, all main did, if   *)
(* the program exits only where the pass can see it.                       *)
(***************************************************************************)
EXTENDS Instrumentation, DataProofs

-----------------------------------------------------------------------------
(* What a pass inserts. *)

\* The calls that may stand in front of an instruction because of itself.
Fit(ins) == {r \in [call : {"print", "update", "updateCond"}, arg : Op \cup {"nothing", "condition"}] :
               /\ r.call = "updateCond" <=> r.arg = "condition"
               /\ r.arg = "condition" => ins.op = "condbr"}

LEMMA CallFits ==
    ASSUME NEW ins, NEW c \in {"print", "update", "updateCond"}, NEW a \in Op \cup {"nothing", "condition"},
           c = "updateCond" <=> a = "condition", a = "condition" => ins.op = "condbr"
    PROVE  Call(c, a) \in Seq(Fit(ins))
<1>1. [call |-> c, arg |-> a] \in Fit(ins)
  BY DEF Fit
<1>2. QED
  BY <1>1 DEF Call

LEMMA UpdatesFit ==
    ASSUME NEW ins, ins.op \in Op, ins.values \in Nat
    PROVE  /\ BranchCalls(ins) \in Seq(Fit(ins))
           /\ InstCalls(ins) \in Seq(Fit(ins))
           /\ DataCalls(ins) \in Seq(Fit(ins))
           /\ OldDataCalls(ins) \in Seq(Fit(ins))
           /\ OperandCalls(ins) \in Seq(Fit(ins))
<1> DEFINE S == Seq(Fit(ins))
<1>1. <<>> \in S
  OBVIOUS
<1>2. Call("print", "nothing") \in S /\ Call("update", "nothing") \in S
  BY CallFits
<1>3. ins.op = "condbr" => Call("updateCond", "condition") \in S
  BY CallFits
<1>4. Call("update", Opcode(ins)) \in S
  <2>1. Opcode(ins) \in Op /\ Opcode(ins) # "condition"
    BY DEF Opcode, Op, Terminator
  <2>2. QED
    BY <2>1, CallFits
<1>5. Call("update", ins.op) \in S
  <2>1. ins.op # "condition"
    BY DEF Op, Terminator
  <2>2. QED
    BY <2>1, CallFits
<1>6. [k \in 1..ins.values |-> [call |-> "update", arg |-> "nothing"]] \in S
  <2>1. [call |-> "update", arg |-> "nothing"] \in Fit(ins)
    BY DEF Fit
  <2>2. QED
    BY <2>1
<1>7. \A s, t \in S : s \o t \in S
  BY ConcatProperties, Zenon
<1> HIDE DEF S
<1>8. BranchCalls(ins) \in S
  BY <1>1, <1>2, <1>3, Zenon DEF BranchCalls
<1>9. InstCalls(ins) \in S
  BY <1>1, <1>2, <1>4, <1>7, Zenon DEF InstCalls
<1>10. DataCalls(ins) \in S
  BY <1>1, <1>2, <1>5, Zenon DEF DataCalls
<1>11. OldDataCalls(ins) \in S
  BY <1>1, <1>2, Zenon DEF OldDataCalls
<1>12. OperandCalls(ins) \in S
  BY <1>1, <1>2, <1>6, <1>7, Zenon DEF OperandCalls
<1>13. QED
  BY <1>8, <1>9, <1>10, <1>11, <1>12, Zenon DEF S

-----------------------------------------------------------------------------
(* Places in the program. *)

Given == pass \in Passes /\ prog \in Programs
Place == (DOMAIN prog) \X Nat \X Nat
IsSite(s) == s \in Place /\ s[2] \in DOMAIN prog[s[1]] /\ s[3] \in DOMAIN prog[s[1]][s[2]]

First == FirstOf(prog[MainFunc][1])
Entry == <<MainFunc, 1, First>>

\* What the verifier says of one instruction.
LEMMA SiteFacts ==
    ASSUME Given, NEW s, IsSite(s)
    PROVE  /\ Ins(s).op \in Op /\ Ins(s).values \in Nat /\ MainFunc \notin Callees(Ins(s))
           /\ s[3] \in 1 .. Len(prog[s[1]][s[2]]) /\ Len(prog[s[1]][s[2]]) \in Nat
           /\ Ins(s).op \in Terminator <=> s[3] = Len(prog[s[1]][s[2]])
           /\ Ins(s).op \in {"phi", "landingpad"} =>
                \A j \in 1 .. s[3] - 1 : prog[s[1]][s[2]][j].op = "phi"
           /\ DOMAIN Ins(s).to = 1 .. Targets(Ins(s))
           /\ \A k \in DOMAIN Ins(s).to : Ins(s).to[k] \in DOMAIN prog[s[1]] \ {1}
<1>1. WellFormed(prog)
  BY ProgramAssumption DEF Given
<1>2. s[1] \in DOMAIN prog /\ s[2] \in DOMAIN prog[s[1]] /\ s[3] \in DOMAIN prog[s[1]][s[2]]
  BY DEF IsSite, Place
<1>3. /\ Nonempty(prog[s[1]][s[2]])
      /\ Ins(s).op \in Op /\ Ins(s).values \in Nat /\ MainFunc \notin Callees(Ins(s))
      /\ Ins(s).op \in Terminator <=> s[3] = Len(prog[s[1]][s[2]])
      /\ DOMAIN Ins(s).to = 1 .. Targets(Ins(s))
      /\ \A k \in DOMAIN Ins(s).to : Ins(s).to[k] \in DOMAIN prog[s[1]] \ {1}
  BY <1>1, <1>2 DEF WellFormed, Ins, MainFunc
<1>4. Ins(s).op \in {"phi", "landingpad"} => \A j \in 1 .. s[3] - 1 : prog[s[1]][s[2]][j].op = "phi"
  BY <1>1, <1>2, Zenon DEF WellFormed, Ins
<1>5. s[3] \in 1 .. Len(prog[s[1]][s[2]]) /\ Len(prog[s[1]][s[2]]) \in Nat
  BY <1>2, <1>3 DEF Nonempty
<1>6. QED
  BY <1>3, <1>4, <1>5, Zenon

\* What it says of one function.
LEMMA FunctionFacts ==
    ASSUME Given, NEW f \in DOMAIN prog, NEW b \in DOMAIN prog[f]
    PROVE  /\ ~Intrinsic(f) /\ 1 \in DOMAIN prog[f] /\ IsSite(<<f, b, 1>>)
           /\ Len(prog[f][b]) \in Nat \ {0} /\ DOMAIN prog[f][b] = 1 .. Len(prog[f][b])
<1>1. WellFormed(prog)
  BY ProgramAssumption DEF Given
<1>2. Nonempty(prog[f]) /\ Nonempty(prog[f][b]) /\ ~Intrinsic(f)
  BY <1>1 DEF WellFormed
<1>3. 1 \in DOMAIN prog[f] /\ 1 \in DOMAIN prog[f][b] /\ b \in Nat
  BY <1>2 DEF Nonempty
<1>4. QED
  BY <1>2, <1>3 DEF IsSite, Place, Nonempty

\* Every function has an entry.
LEMMA EntryFacts ==
    ASSUME Given, NEW f \in DOMAIN prog
    PROVE  1 \in DOMAIN prog[f] /\ IsSite(<<f, 1, 1>>)
<1>1. WellFormed(prog)
  BY ProgramAssumption DEF Given
<1>2. Nonempty(prog[f])
  BY <1>1 DEF WellFormed
<1>3. 1 \in DOMAIN prog[f]
  BY <1>2 DEF Nonempty
<1>4. QED
  BY <1>3, FunctionFacts

LEMMA SitesAre ==
    ASSUME Given
    PROVE  \A s : s \in Sites <=> IsSite(s)
<1>1. \A s : IsSite(s) => \E f \in DOMAIN prog : \E b \in DOMAIN prog[f] : \E i \in DOMAIN prog[f][b] : s = <<f, b, i>>
  BY DEF IsSite, Place
<1>2. \A f \in DOMAIN prog : \A b \in DOMAIN prog[f] : \A i \in DOMAIN prog[f][b] : IsSite(<<f, b, i>>)
  <2>1. ASSUME NEW f \in DOMAIN prog, NEW b \in DOMAIN prog[f], NEW i \in DOMAIN prog[f][b]
        PROVE  IsSite(<<f, b, i>>)
    <3>1. DOMAIN prog[f][b] \subseteq Nat
      <4>1. Len(prog[f][b]) \in Nat \ {0} /\ DOMAIN prog[f][b] = 1 .. Len(prog[f][b])
        BY FunctionFacts, Zenon
      <4>2. QED
        BY <4>1
    <3>2. b \in Nat
      <4>1. Nonempty(prog[f])
        BY ProgramAssumption DEF Given, WellFormed
      <4>2. QED
        BY <4>1 DEF Nonempty
    <3>3. QED
      BY <3>1, <3>2 DEF IsSite, Place
  <2>2. QED
    BY <2>1
<1>3. \A s : s \in Sites <=> \E f \in DOMAIN prog : \E b \in DOMAIN prog[f] : \E i \in DOMAIN prog[f][b] : s = <<f, b, i>>
  BY DEF Sites
<1>4. QED
  BY <1>1, <1>2, <1>3

\* The loop over a block starts behind the phi nodes and the landing pad, if it
\* does not start at the first instruction.
LEMMA StartFacts ==
    ASSUME Given, NEW f \in DOMAIN prog, NEW b \in DOMAIN prog[f]
    PROVE  /\ StartOf(f, b) \in DOMAIN prog[f][b] /\ StartOf(f, b) \in Nat
           /\ pass = "branch" => StartOf(f, b) = 1
           /\ pass # "branch" => \A i \in DOMAIN prog[f][b] :
                prog[f][b][i].op \in {"phi", "landingpad"} <=> i < StartOf(f, b)
<1> DEFINE block == prog[f][b]
           S == {i \in DOMAIN block : block[i].op \notin {"phi", "landingpad"}}
           n == Len(block)
<1>1. n \in Nat \ {0} /\ DOMAIN block = 1 .. n
  BY FunctionFacts
<1>2. ASSUME NEW i \in DOMAIN block
      PROVE  /\ block[i].op \in Terminator <=> i = n
             /\ block[i].op \in {"phi", "landingpad"} => \A j \in 1 .. i - 1 : block[j].op = "phi"
  <2>1. <<f, b, i>> \in Sites
    BY DEF Sites
  <2>2. IsSite(<<f, b, i>>)
    BY <2>1, SitesAre
  <2>3. QED
    BY <2>2, SiteFacts DEF Ins
<1> HIDE DEF block
<1>3. n \in S
  BY <1>1, <1>2 DEF Terminator
<1>4. S \subseteq Nat /\ S \subseteq Int
  BY <1>1
<1>5. PICK m \in S : \A j \in S : m <= j
  BY <1>3, <1>4, LeastElement
<1>6. Min(S) = m
  <2> HIDE DEF S
  <2>1. QED
    BY <1>4, <1>5, MinIs
<1>7. ASSUME NEW i \in DOMAIN block
      PROVE  block[i].op \in {"phi", "landingpad"} <=> i < m
  <2>1. i < m => i \notin S
    BY <1>1, <1>4, <1>5
  <2>2. block[i].op \in {"phi", "landingpad"} => ~(m < i)
    <3>1. m < i => m \in 1 .. i - 1
      BY <1>1, <1>5
    <3>2. block[m].op # "phi"
      BY <1>5
    <3>3. QED
      BY <1>2, <3>1, <3>2
  <2>3. i # m \/ block[i].op \notin {"phi", "landingpad"}
    BY <1>5
  <2>4. i \in Nat /\ m \in Nat
    BY <1>1, <1>4, <1>5
  <2>5. QED
    BY <2>1, <2>2, <2>3, <2>4
<1>8. CASE pass = "branch"
  BY <1>1, <1>8 DEF StartOf, block
<1>9. CASE pass # "branch"
  <2>1. StartOf(f, b) = Min(S)
    BY <1>9 DEF StartOf, block
  <2>2. StartOf(f, b) = m /\ m \in DOMAIN block /\ m \in Nat
    BY <1>4, <1>5, <1>6, <2>1
  <2>3. QED
    BY <1>7, <1>9, <2>2 DEF block
<1>10. QED
  BY <1>8, <1>9

\* Main has an instruction that init can be put in front of, and what precedes
\* it is phi nodes and debug calls.
LEMMA FirstFacts ==
    ASSUME Given
    PROVE  /\ MainFunc \in DOMAIN prog /\ First \in Nat \ {0} /\ IsSite(Entry)
           /\ \A i \in 1 .. First - 1 :
                LET ins == Ins(<<MainFunc, 1, i>>)
                IN ins.op = "phi" \/ (ins.op = "call" /\ ins.callee = "llvm.dbg.value")
<1> DEFINE block == prog[MainFunc][1]
           Fine(i) == block[i].op # "phi" /\ ~(block[i].op = "call" /\ block[i].callee = "llvm.dbg.value")
           S == {i \in DOMAIN block : Fine(i)}
<1>1. MainFunc \in DOMAIN prog
  BY ProgramAssumption DEF Given, WellFormed, MainFunc
<1>2. 1 \in DOMAIN prog[MainFunc]
  BY <1>1, EntryFacts
<1>3. Len(block) \in Nat \ {0} /\ DOMAIN block = 1 .. Len(block)
  BY <1>1, <1>2, FunctionFacts
<1>4. Len(block) \in S
  <2> DEFINE s == <<MainFunc, 1, Len(block)>>
  <2>1. IsSite(s)
    BY <1>1, <1>2, <1>3 DEF IsSite, Place
  <2>2. Ins(s).op \in Terminator
    BY <2>1, SiteFacts
  <2>3. Ins(s) = block[Len(block)]
    BY DEF Ins
  <2> HIDE DEF block
  <2>4. QED
    BY <1>3, <2>2, <2>3 DEF Terminator
<1>5. S \subseteq Nat
  BY <1>3
<1>6. PICK m \in S : \A j \in S : m <= j
  BY <1>4, <1>5, LeastElement
<1>7. S \subseteq Int /\ \A j \in S : m <= j
  BY <1>5, <1>6
<1>8. Min(S) = m
  <2> HIDE DEF S
  <2>1. QED
    BY <1>6, <1>7, MinIs
<1>9. First = Min(S)
  BY DEF First, FirstOf
<1>10. First \in S /\ \A j \in S : First <= j
  BY <1>6, <1>8, <1>9
<1>11. First \in 1 .. Len(block)
  BY <1>3, <1>10
<1>12. IsSite(Entry)
  BY <1>1, <1>2, <1>3, <1>11 DEF IsSite, Place, Entry
<1>13. ASSUME NEW i \in 1 .. First - 1
       PROVE  ~Fine(i)
  BY <1>3, <1>10, <1>11
<1>14. \A i : Ins(<<MainFunc, 1, i>>) = block[i]
  BY DEF Ins
<1>15. QED
  BY <1>1, <1>11, <1>12, <1>13, <1>14

\* What a pass has put in front of an instruction when it is through: the calls of
\* its loop, if that comes to the instruction, before them init at the entry of
\* main, and after them print at a return.
Handled(s) == ~Skipped(s[1]) /\ s[3] >= StartOf(s[1], s[2])
Own(s) == IF Handled(s) THEN Calls(Ins(s)) ELSE <<>>
Inserted(s) == RunOnModule(Own(s), s)

LEMMA CallsFit ==
    ASSUME Given, NEW ins, ins.op \in Op, ins.values \in Nat
    PROVE  Calls(ins) \in Seq(Fit(ins))
<1>1. /\ BranchCalls(ins) \in Seq(Fit(ins))
      /\ InstCalls(ins) \in Seq(Fit(ins))
      /\ DataCalls(ins) \in Seq(Fit(ins))
      /\ OldDataCalls(ins) \in Seq(Fit(ins))
      /\ OperandCalls(ins) \in Seq(Fit(ins))
  BY UpdatesFit
<1>2. pass \in {"branch", "inst", "data", "old", "operands"}
  BY ProgramAssumption DEF Given
<1>3. QED
  BY <1>1, <1>2 DEF Calls

LEMMA InsertedIs ==
    ASSUME Given, NEW s, IsSite(s)
    PROVE  \E u \in Seq(Fit(Ins(s))) : Inserted(s) = RunOnModule(u, s)
<1>1. Calls(Ins(s)) \in Seq(Fit(Ins(s)))
  BY SiteFacts, CallsFit
<1>2. Own(s) \in Seq(Fit(Ins(s)))
  BY <1>1 DEF Own
<1>3. QED
  BY <1>2 DEF Inserted

Says == [call : {"init", "print", "update", "updateCond"}, arg : Op \cup {"nothing", "condition"}]

\* Init is inserted at the entry of main and nowhere else, before all others.
LEMMA InsertedFacts ==
    ASSUME Given, NEW s, IsSite(s)
    PROVE  /\ Inserted(s) \in Seq(Says)
           /\ s = Entry => 1 \in DOMAIN Inserted(s)
           /\ \A k \in DOMAIN Inserted(s) :
                /\ Inserted(s)[k].call = "updateCond" <=> Inserted(s)[k].arg = "condition"
                /\ Inserted(s)[k].arg = "condition" => Ins(s).op = "condbr"
                /\ Inserted(s)[k].call = "init" <=> (k = 1 /\ s = Entry)
<1> DEFINE F == Fit(Ins(s))
           q == Inserted(s)
<1>1. PICK u \in Seq(F) : q = (AtEntry(s) \o u) \o AtReturn(s)
  BY InsertedIs DEF RunOnModule
<1>2. AtReturn(s) \in Seq(F)
  <2>1. Call("print", "nothing") \in Seq(F)
    BY CallFits
  <2>2. QED
    BY <2>1 DEF AtReturn
<1>3. \A r \in F : /\ r \in Says /\ r.call # "init"
                   /\ r.call = "updateCond" <=> r.arg = "condition"
                   /\ r.arg = "condition" => Ins(s).op = "condbr"
  BY DEF Fit, Says
<1> DEFINE w == u \o AtReturn(s)
           i == [call |-> "init", arg |-> "nothing"]
<1>4. w \in Seq(F)
  BY <1>1, <1>2, ConcatProperties, Zenon
<1>5. i \in Says
  BY DEF Says
<1> HIDE DEF F
<1>6. w \in Seq(Says) /\ \A k \in DOMAIN w : w[k] \in F
  <2>1. F \subseteq Says
    BY <1>3
  <2> HIDE DEF w
  <2>2. DOMAIN w = 1 .. Len(w)
    BY <1>4, LenProperties
  <2>3. QED
    BY <1>4, <2>1, <2>2, ElementOfSeq, SeqMonotonic
<1>7. CASE s # Entry
  <2>1. AtEntry(s) = <<>>
    BY <1>7 DEF AtEntry, Entry, First
  <2>2. q = w
    BY <1>1, <2>1
  <2>3. QED
    BY <1>3, <1>6, <1>7, <2>2
<1>8. CASE s = Entry
  <2>1. AtEntry(s) = <<i>>
    BY <1>8 DEF AtEntry, Entry, First, Call
  <2>2. q = <<i>> \o w
    BY <1>1, <1>2, <2>1
  <2> HIDE DEF w
  <2>3. /\ q \in Seq(Says) /\ DOMAIN q = 1 .. Len(w) + 1 /\ q[1] = i
        /\ \A k \in 2 .. Len(w) + 1 : q[k] = w[k - 1]
    BY <1>5, <1>6, <2>2
  <2>4. DOMAIN w = 1 .. Len(w) /\ Len(w) \in Nat
    BY <1>6, LenProperties
  <2>5. ASSUME NEW k \in DOMAIN q
        PROVE  /\ q[k].call = "updateCond" <=> q[k].arg = "condition"
               /\ q[k].arg = "condition" => Ins(s).op = "condbr"
               /\ q[k].call = "init" <=> k = 1
    <3>1. CASE k = 1
      BY <2>3, <3>1
    <3>2. CASE k # 1
      <4>1. k - 1 \in DOMAIN w /\ q[k] = w[k - 1]
        BY <2>3, <2>4, <3>2
      <4>2. q[k] \in F
        BY <1>6, <4>1
      <4>3. QED
        BY <1>3, <3>2, <4>2
    <3>3. QED
      BY <3>1, <3>2
  <2>6. 1 \in DOMAIN q
    BY <2>3, <2>4
  <2>7. QED
    BY <1>8, <2>3, <2>5, <2>6
<1>9. QED
  BY <1>7, <1>8

\* The passes put nothing in front of a phi node or a debug call before the entry.
LEMMA NothingBeforeEntry ==
    ASSUME Given, NEW i \in 1 .. First - 1, IsSite(<<MainFunc, 1, i>>)
    PROVE  Inserted(<<MainFunc, 1, i>>) = <<>>
<1> DEFINE s == <<MainFunc, 1, i>>
           ins == Ins(s)
<1>1. ins.op = "phi" \/ (ins.op = "call" /\ ins.callee = "llvm.dbg.value")
  BY FirstFacts
<1>2. First \in Nat \ {0}
  BY FirstFacts
<1>3. i # First
  BY <1>2
<1>4. AtEntry(s) = <<>>
  BY <1>3 DEF AtEntry, First
<1>5. AtReturn(s) = <<>>
  BY <1>1 DEF AtReturn
<1>6. ~PrintsAt(ins)
  BY <1>1 DEF PrintsAt, ExitLike
<1>7. Passed(ins)
  BY <1>1 DEF Passed, ExitLike, Indirect
<1> HIDE DEF ins
<1>8. BranchCalls(ins) = <<>>
  BY <1>1, <1>6 DEF BranchCalls
<1>9. InstCalls(ins) = <<>>
  BY <1>7 DEF InstCalls
<1>10. DataCalls(ins) = <<>>
  BY <1>1, <1>6, <1>7 DEF DataCalls
<1>11. OldDataCalls(ins) = <<>>
  BY <1>1, <1>6, <1>7 DEF OldDataCalls
<1>12. OperandCalls(ins) = <<>>
  BY <1>7 DEF OperandCalls
<1>13. RunOnModule(<<>>, s) = <<>>
  BY <1>4, <1>5 DEF RunOnModule
<1>14. pass \in {"branch", "inst", "data", "old", "operands"}
  BY ProgramAssumption DEF Given
<1> HIDE DEF s
<1>15. Inserted(s) = RunOnModule(<<>>, s)
  BY <1>8, <1>9, <1>10, <1>11, <1>12, <1>14 DEF Inserted, Own, Calls, ins
<1>16. QED
  BY <1>13, <1>15 DEF s

-----------------------------------------------------------------------------
(* The invariant: frames, records, and how far initialization has come. *)

Phases == {"rewriting", "constructors", "main", "handlers", "ended", "died"}
Outcomes == {"nothing", "true", "false", "exit"}
Tellings == [call : {"init", "print", "update", "updateCond"}, at : Place, phase : Phases,
         arg : Op \cup {"nothing", "true", "false"}]
Ran == [at : Place, outcome : Outcomes, phase : Phases]

\* The pass is through.
Written == cursor = <<>> /\ \A s \in Sites : before[s] = Inserted(s)

\* Every frame is at an instruction, all but the innermost at the call they
\* wait for; main's frames exist only while main runs.
Frames ==
  /\ Given /\ phase \in Phases /\ stack \in Seq(Place)
  /\ Running <=> stack # <<>>
  /\ phase # "rewriting" => Written
  /\ \A k \in DOMAIN stack :
       /\ IsSite(stack[k])
       /\ k # 1 => Ins(stack[k]).op \in {"call", "invoke"}
       /\ stack[k][1] = MainFunc => phase = "main"

Conditions == \A k \in DOMAIN log : (log[k].call = "updateCond") <=> (log[k].arg \in {"true", "false"})
Records == log \in Seq(Tellings) /\ ran \in Seq(Ran) /\ Conditions

LEMMA HereFacts ==
    ASSUME Frames, Running
    PROVE  /\ Here = stack[1] /\ 1 \in DOMAIN stack /\ IsSite(Here) /\ Here \in Place
           /\ Here[1] = MainFunc => phase = "main"
           /\ DOMAIN stack = 1 .. Len(stack) /\ Len(stack) \in Nat \ {0}
           /\ before[Here] = Inserted(Here)
<1>1. stack \in Seq(Place) /\ stack # <<>>
  BY DEF Frames
<1>2. Here = stack[1] /\ 1 \in DOMAIN stack /\ DOMAIN stack = 1 .. Len(stack) /\ Len(stack) \in Nat \ {0}
  BY <1>1 DEF Here
<1>3. IsSite(Here) /\ Here \in Place /\ (Here[1] = MainFunc => phase = "main")
  BY <1>2 DEF Frames, IsSite
<1>4. Written
  BY DEF Frames, Running
<1>5. before[Here] = Inserted(Here)
  BY <1>3, <1>4, SitesAre DEF Frames, Written
<1>6. QED
  BY <1>2, <1>3, <1>5

\* What the library hears of an inserted call at s.
Heard(c, s, o, p) == [call |-> c.call, at |-> s, phase |-> p, arg |-> IF c.arg = "condition" THEN o ELSE c.arg]

\* What executing an instruction appends.
LEMMA Appended ==
    ASSUME Frames, Records, Running, NEW o \in Outcomes, Execute(o)
    PROVE  LET q == Inserted(Here)
               n == Len(log)
               m == Len(ran)
           IN /\ log' \in Seq(Tellings \cup {Heard(q[k], Here, o, phase) : k \in DOMAIN q})
              /\ q = <<>> => log' = log
              /\ ran' = Append(ran, [at |-> Here, outcome |-> o, phase |-> phase])
              /\ n \in Nat /\ DOMAIN log = 1 .. n /\ DOMAIN log' = 1 .. n + Len(q)
              /\ \A j \in 1 .. n : log'[j] = log[j]
              /\ \A k \in DOMAIN q : log'[n + k] = Heard(q[k], Here, o, phase)
              /\ m \in Nat /\ DOMAIN ran = 1 .. m /\ DOMAIN ran' = 1 .. m + 1
              /\ \A j \in 1 .. m : ran'[j] = ran[j]
              /\ ran'[m + 1] = [at |-> Here, outcome |-> o, phase |-> phase]
<1> DEFINE q == Inserted(Here)
           n == Len(log)
           m == Len(ran)
           new == [k \in DOMAIN q |-> Heard(q[k], Here, o, phase)]
           r == [at |-> Here, outcome |-> o, phase |-> phase]
           T == {Heard(q[k], Here, o, phase) : k \in DOMAIN q}
           S == Tellings \cup T
<1>1. IsSite(Here) /\ Given
  BY HereFacts DEF Frames
<1>2. q \in Seq(Says)
  BY <1>1, InsertedFacts
<1>3. DOMAIN q = 1 .. Len(q) /\ Len(q) \in Nat
  BY <1>2, LenProperties
<1>4. log' = log \o new /\ ran' = Append(ran, r)
  <2>1. before[Here] = q
    BY HereFacts
  <2>2. QED
    BY <2>1 DEF Execute, Heard
<1>5. new \in [1 .. Len(q) -> T]
  BY <1>3
<1>6. log \in Seq(S) /\ n \in Nat /\ DOMAIN log = 1 .. n
  <2>1. log \in Seq(Tellings) /\ Tellings \subseteq S
    BY DEF Records
  <2> HIDE DEF S
  <2>2. QED
    BY <2>1, LenProperties, SeqMonotonic
<1>7. new \in Seq(S) /\ Len(new) = Len(q) /\ DOMAIN new = 1 .. Len(q)
  <2>1. new \in [1 .. Len(q) -> S]
    BY <1>5
  <2> HIDE DEF new, S, q
  <2>2. QED
    BY <1>3, <2>1
<1>8. \A k \in DOMAIN q : new[k] = Heard(q[k], Here, o, phase)
  OBVIOUS
<1>9. ran \in Seq(Ran) /\ m \in Nat /\ DOMAIN ran = 1 .. m
  BY LenProperties DEF Records
<1> HIDE DEF q, new, S, r
<1>10. /\ Len(log \o new) = n + Len(new) /\ log \o new \in Seq(S)
       /\ \A j \in 1 .. n : (log \o new)[j] = log[j]
       /\ \A j \in n + 1 .. n + Len(new) : (log \o new)[j] = new[j - n]
  <2>1. log \o new \in Seq(S) /\ Len(log \o new) = Len(log) + Len(new)
    BY <1>6, <1>7, ConcatProperties, Zenon
  <2>2. \A j \in 1 .. n : (log \o new)[j] = log[j]
    BY <1>3, <1>6, <1>7
  <2>3. \A j \in n + 1 .. n + Len(new) : (log \o new)[j] = new[j - n]
    BY <1>3, <1>6, <1>7
  <2>4. QED
    BY <2>1, <2>2, <2>3
<1>11. DOMAIN (log \o new) = 1 .. n + Len(q)
  BY <1>7, <1>10, LenProperties
<1>12. ASSUME NEW k \in DOMAIN q
       PROVE  log'[n + k] = Heard(q[k], Here, o, phase)
  <2>1. n + k \in n + 1 .. n + Len(new) /\ (n + k) - n = k
    BY <1>3, <1>6, <1>7
  <2>2. QED
    BY <1>4, <1>8, <1>10, <2>1
<1>13. DOMAIN ran' = 1 .. m + 1 /\ (\A j \in 1 .. m : ran'[j] = ran[j]) /\ ran'[m + 1] = r
  BY <1>4, <1>9
<1>14. log' \in Seq(S)
  BY <1>4, <1>10
<1>15. ASSUME q = <<>>
       PROVE  log' = log
  <2>1. Len(new) = 0
    BY <1>7, <1>15
  <2>2. new = <<>>
    BY <1>7, <2>1
  <2>3. QED
    BY <1>4, <1>6, <2>2
<1>16. log' \in Seq(Tellings \cup {Heard(Inserted(Here)[k], Here, o, phase) : k \in DOMAIN Inserted(Here)})
  BY <1>14 DEF S, q
<1>17. ran' = Append(ran, r) /\ r = [at |-> Here, outcome |-> o, phase |-> phase]
  BY <1>4 DEF r
<1>18. DOMAIN log' = 1 .. n + Len(q) /\ \A j \in 1 .. n : log'[j] = log[j]
  BY <1>4, <1>10, <1>11
<1>19. ran'[m + 1] = [at |-> Here, outcome |-> o, phase |-> phase]
  BY <1>13, <1>17
<1>20. ran' = Append(ran, [at |-> Here, outcome |-> o, phase |-> phase])
  BY <1>17
<1>21. QED
  BY <1>6, <1>9, <1>12, <1>13, <1>15, <1>16, <1>18, <1>19, <1>20, Zenon DEF q

\* The records keep their types; what is new is of this phase, and init is new
\* only at the entry.
LEMMA Executed ==
    ASSUME Frames, Records, Running, NEW o \in Outcomes, Now.op = "condbr" => o \in {"true", "false"}, Execute(o)
    PROVE  /\ Given' /\ Records'
           /\ IsSite(Here) /\ Here \in Place
           /\ \A j \in DOMAIN log : j \in DOMAIN log' /\ log'[j] = log[j]
           /\ \A j \in DOMAIN log' : j \notin DOMAIN log =>
                /\ log'[j].phase = phase /\ j > Len(log)
                /\ log'[j].call = "init" <=> (j = Len(log) + 1 /\ Here = Entry)
           /\ Here = Entry => Len(log) + 1 \in DOMAIN log'
           /\ (\E i \in 1 .. First - 1 : Here = <<MainFunc, 1, i>>) => log' = log
           /\ \A j \in DOMAIN ran' : ran'[j].phase = phase \/ (j \in DOMAIN ran /\ ran'[j] = ran[j])
<1> DEFINE q == Inserted(Here)
           n == Len(log)
           h(k) == Heard(q[k], Here, o, phase)
<1>1. IsSite(Here) /\ Here \in Place /\ Given /\ phase \in Phases
  BY HereFacts DEF Frames
<1>2. /\ q \in Seq(Says) /\ (Here = Entry => 1 \in DOMAIN q)
      /\ \A k \in DOMAIN q :
           /\ q[k].call = "updateCond" <=> q[k].arg = "condition"
           /\ q[k].arg = "condition" => Ins(Here).op = "condbr"
           /\ q[k].call = "init" <=> (k = 1 /\ Here = Entry)
  BY <1>1, InsertedFacts
<1>3. prog' = prog /\ pass' = pass /\ log \in Seq(Tellings) /\ ran \in Seq(Ran)
  BY DEF Execute, Records, given
<1>4. /\ log' \in Seq(Tellings \cup {h(k) : k \in DOMAIN q})
      /\ n \in Nat /\ DOMAIN log = 1 .. n /\ DOMAIN log' = 1 .. n + Len(q)
      /\ \A j \in 1 .. n : log'[j] = log[j]
      /\ \A k \in DOMAIN q : log'[n + k] = h(k)
      /\ ran' = Append(ran, [at |-> Here, outcome |-> o, phase |-> phase])
      /\ q = <<>> => log' = log
  BY Appended
<1>5. DOMAIN q = 1 .. Len(q) /\ Len(q) \in Nat /\ \A k \in DOMAIN q : q[k] \in Says
  BY <1>2, LenProperties, ElementOfSeq
<1>6. ASSUME NEW k \in DOMAIN q
      PROVE  /\ h(k) \in Tellings /\ h(k).phase = phase /\ h(k).call = q[k].call
             /\ h(k).call = "updateCond" <=> h(k).arg \in {"true", "false"}
  <2>1. q[k] \in Says
    BY <1>5
  <2>2. q[k].call \in {"init", "print", "update", "updateCond"} /\ q[k].arg \in Op \cup {"nothing", "condition"}
    BY <2>1 DEF Says
  <2>3. q[k].arg = "condition" => o \in {"true", "false"}
    BY <1>2 DEF Now, Outcomes
  <2>4. q[k].arg # "condition" => q[k].arg \notin {"true", "false"}
    BY <2>2 DEF Op, Terminator
  <2>5. h(k).call = q[k].call /\ h(k).phase = phase /\ h(k).at = Here
        /\ h(k).arg = IF q[k].arg = "condition" THEN o ELSE q[k].arg
    BY DEF Heard
  <2>6. h(k) \in Tellings
    <3>1. (IF q[k].arg = "condition" THEN o ELSE q[k].arg) \in Op \cup {"nothing", "true", "false"}
      BY <2>2, <2>3
    <3>2. QED
      BY <1>1, <2>2, <3>1 DEF Tellings, Heard
  <2>7. h(k).call = "updateCond" <=> h(k).arg \in {"true", "false"}
    <3>1. q[k].call = "updateCond" <=> q[k].arg = "condition"
      BY <1>2
    <3>2. QED
      BY <2>3, <2>4, <2>5, <3>1
  <2>8. QED
    BY <2>5, <2>6, <2>7
<1> HIDE DEF q, h
<1>7. log' \in Seq(Tellings)
  <2>1. Tellings \cup {h(k) : k \in DOMAIN q} = Tellings
    BY <1>6
  <2>2. QED
    BY <1>4, <2>1
<1>8. Place' = Place /\ Tellings' = Tellings /\ Ran' = Ran /\ Given'
  BY <1>1, <1>3 DEF Place, Tellings, Ran, Given
<1>9. \A j \in DOMAIN log : j \in DOMAIN log' /\ log'[j] = log[j]
  BY <1>4, <1>5
<1>10. ASSUME NEW j \in DOMAIN log', j \notin DOMAIN log
       PROVE  /\ log'[j].phase = phase /\ j > n
              /\ log'[j].call = "init" <=> (j = n + 1 /\ Here = Entry)
              /\ log'[j].call = "updateCond" <=> log'[j].arg \in {"true", "false"}
  <2>1. j - n \in DOMAIN q /\ n + (j - n) = j /\ j > n /\ (j - n = 1 <=> j = n + 1)
    BY <1>4, <1>5, <1>10
  <2>2. log'[j] = h(j - n)
    BY <1>4, <2>1
  <2>3. q[j - n].call = "init" <=> (j - n = 1 /\ Here = Entry)
    BY <1>2, <2>1
  <2>4. QED
    BY <1>6, <2>1, <2>2, <2>3
<1>11. Conditions'
  <2>1. ASSUME NEW j \in DOMAIN log'
        PROVE  (log'[j].call = "updateCond") <=> (log'[j].arg \in {"true", "false"})
    <3>1. CASE j \in DOMAIN log
      BY <1>9, <3>1 DEF Records, Conditions
    <3>2. CASE j \notin DOMAIN log
      BY <1>10, <3>2
    <3>3. QED
      BY <3>1, <3>2
  <2>2. QED
    BY <2>1 DEF Conditions
<1>12. /\ ran' \in Seq(Ran)
       /\ \A j \in DOMAIN ran' : ran'[j].phase = phase \/ (j \in DOMAIN ran /\ ran'[j] = ran[j])
  <2> DEFINE r == [at |-> Here, outcome |-> o, phase |-> phase]
  <2>1. r \in Ran /\ r.phase = phase
    BY <1>1 DEF Ran
  <2> HIDE DEF r
  <2>2. ran' = Append(ran, r)
    BY <1>4 DEF r
  <2>3. QED
    BY <1>3, <2>1, <2>2
<1>13. Here = Entry => Len(log) + 1 \in DOMAIN log'
  BY <1>2, <1>4, <1>5
<1>14. ASSUME NEW i \in 1 .. First - 1, Here = <<MainFunc, 1, i>>
       PROVE  log' = log
  <2>1. q = <<>>
    BY <1>1, <1>14, NothingBeforeEntry DEF q
  <2>2. QED
    BY <1>4, <2>1
<1>15. QED
  BY <1>1, <1>7, <1>8, <1>9, <1>10, <1>11, <1>12, <1>13, <1>14 DEF Records

NoMain == \A j \in DOMAIN ran : ran[j].phase # "main"

\* The library was told things by constructors only, and is not initialised.
Early == \A j \in DOMAIN log : log[j].phase = "constructors" /\ log[j].call # "init"

\* Main is in front of the call of init.
Quiet == \E i \in 1 .. First - 1 : stack = <<<<MainFunc, 1, i>>>>
Before == Early /\ (Quiet \/ stack = <<Entry>>)

\* Initialised once, before anything but what the constructors told.
Done == \E m \in DOMAIN log :
          \A j \in DOMAIN log : /\ log[j].call = "init" <=> j = m
                                /\ j < m => log[j].phase = "constructors"

\* A place in main's first block is behind its entry.
AtLeast(s, i) == s[1] = MainFunc /\ s[2] = 1 => s[3] >= i
Reached == \A k \in DOMAIN stack : AtLeast(stack[k], First)
Past == Reached /\ (stack # <<>> => AtLeast(Here, First + 1))

Progress ==
  /\ phase = "constructors" => Early /\ NoMain
  /\ phase = "main" => Before \/ (Done /\ Past)
  /\ phase \notin {"constructors", "main"} => Done \/ NoMain

\* What the loop of the pass has still to come to.
Pending(s) ==
  \/ s[1] \in todo
  \/ cursor # <<>> /\ s[1] = cursor[1] /\ (s[2] > cursor[2] \/ (s[2] = cursor[2] /\ s[3] >= cursor[3]))

\* While the pass works nothing runs, and it has written what it has passed.
Rewriting == phase = "rewriting" =>
  /\ log = <<>> /\ ran = <<>> /\ todo \subseteq DOMAIN prog
  /\ cursor # <<>> => IsSite(cursor) /\ cursor[1] \notin todo /\ Handled(cursor)
  /\ DOMAIN before = Sites
  /\ \A s \in Sites : before[s] = IF Pending(s) THEN <<>> ELSE Own(s)

IInv == Frames /\ Records /\ Progress /\ Rewriting

-----------------------------------------------------------------------------
(* What an instruction does to the records. *)

\* Before the call of init there are phi nodes and debug calls.
LEMMA QuietFacts ==
    ASSUME Frames, Quiet
    PROVE  /\ Now.op = "phi" \/ (Now.op = "call" /\ Now.callee = "llvm.dbg.value")
           /\ \E i \in 1 .. First - 1 : Here = <<MainFunc, 1, i>>
<1>1. PICK i \in 1 .. First - 1 : stack = <<<<MainFunc, 1, i>>>>
  BY DEF Quiet
<1>2. Here = <<MainFunc, 1, i>>
  BY <1>1 DEF Here
<1>3. QED
  BY <1>2, FirstFacts DEF Now, Frames

\* A rewritten module stays as it is.
LEMMA StaysWritten ==
    ASSUME Written, UNCHANGED <<given, before, loop>>
    PROVE  Written'
<1>1. pass' = pass /\ prog' = prog /\ before' = before /\ cursor' = cursor
  BY DEF given, loop
<1>2. Sites' = Sites
  BY <1>1 DEF Sites
<1>3. ASSUME NEW s
      PROVE  Inserted(s)' = Inserted(s)
  BY <1>1 DEF Inserted, Own, Handled, Skipped, StartOf, Calls, RunOnModule, AtEntry, AtReturn, Ins, MainFunc
<1>4. QED
  BY <1>1, <1>2, <1>3 DEF Written

\* What the library knows after the instruction, by phase.
LEMMA ToldFacts ==
    ASSUME IInv, Running, NEW o \in Outcomes, Now.op = "condbr" => o \in {"true", "false"}, Execute(o)
    PROVE  /\ Given' /\ Records' /\ prog' = prog /\ pass' = pass /\ Written'
           /\ phase = "constructors" => Early' /\ NoMain'
           /\ phase = "main" => (Early' /\ Quiet) \/ (Done' /\ Reached)
           /\ phase = "handlers" => Done' \/ NoMain'
<1>1. Frames /\ Records /\ Progress
  BY DEF IInv
<1>2. /\ Given' /\ Records' /\ IsSite(Here) /\ Here \in Place
      /\ \A j \in DOMAIN log : j \in DOMAIN log' /\ log'[j] = log[j]
      /\ \A j \in DOMAIN log' : j \notin DOMAIN log =>
           /\ log'[j].phase = phase /\ j > Len(log)
           /\ log'[j].call = "init" <=> (j = Len(log) + 1 /\ Here = Entry)
      /\ Here = Entry => Len(log) + 1 \in DOMAIN log'
      /\ (\E i \in 1 .. First - 1 : Here = <<MainFunc, 1, i>>) => log' = log
      /\ \A j \in DOMAIN ran' : ran'[j].phase = phase \/ (j \in DOMAIN ran /\ ran'[j] = ran[j])
  BY <1>1, Executed
<1>3. prog' = prog /\ pass' = pass /\ Written'
  <2>1. Written
    BY <1>1 DEF Frames, Running
  <2>2. UNCHANGED <<given, before, loop>>
    BY DEF Execute
  <2>3. QED
    BY <2>1, <2>2, StaysWritten DEF given
<1>4. Here[1] = MainFunc => phase = "main"
  BY <1>1, HereFacts
<1>5. DOMAIN log = 1 .. Len(log) /\ Len(log) \in Nat
  BY <1>1, LenProperties DEF Records
<1>6. DOMAIN log' \subseteq Nat
  BY <1>2, LenProperties DEF Records
<1>7. ASSUME NoMain, phase # "main"
      PROVE  NoMain'
  BY <1>2, <1>7 DEF NoMain
<1>8. ASSUME Done, Here # Entry
      PROVE  Done'
  <2>1. PICK m \in DOMAIN log :
          \A j \in DOMAIN log : /\ log[j].call = "init" <=> j = m
                                /\ j < m => log[j].phase = "constructors"
    BY <1>8 DEF Done
  <2>2. ASSUME NEW j \in DOMAIN log'
        PROVE  /\ log'[j].call = "init" <=> j = m
               /\ j < m => log'[j].phase = "constructors"
    <3>1. CASE j \in DOMAIN log
      BY <1>2, <2>1, <3>1
    <3>2. CASE j \notin DOMAIN log
      <4>1. j > Len(log) /\ log'[j].call # "init"
        BY <1>2, <1>8, <3>2
      <4>2. j # m /\ ~(j < m)
        BY <1>5, <1>6, <4>1, <2>1
      <4>3. QED
        BY <4>1, <4>2
    <3>3. QED
      BY <3>1, <3>2
  <2>3. m \in DOMAIN log'
    BY <1>2
  <2>4. QED
    BY <2>2, <2>3 DEF Done
<1>9. ASSUME Early, Here = Entry
      PROVE  Done'
  <2> DEFINE m == Len(log) + 1
  <2>1. m \in DOMAIN log' /\ m \notin DOMAIN log
    BY <1>2, <1>5, <1>9
  <2>2. ASSUME NEW j \in DOMAIN log'
        PROVE  /\ log'[j].call = "init" <=> j = m
               /\ j < m => log'[j].phase = "constructors"
    <3>1. CASE j \in DOMAIN log
      BY <1>2, <1>9, <2>1, <3>1 DEF Early
    <3>2. CASE j \notin DOMAIN log
      <4>1. j > Len(log) /\ (log'[j].call = "init" <=> j = m)
        BY <1>2, <1>9, <3>2
      <4>2. ~(j < m)
        BY <1>5, <1>6, <4>1
      <4>3. QED
        BY <4>1, <4>2
    <3>3. QED
      BY <3>1, <3>2
  <2> HIDE DEF m
  <2>3. QED
    BY <2>1, <2>2 DEF Done
<1>10. CASE phase = "constructors"
  <2>1. Early /\ NoMain
    BY <1>1, <1>10 DEF Progress
  <2>2. Here # Entry
    BY <1>4, <1>10 DEF Entry
  <2>3. Early'
    BY <1>2, <1>10, <2>1, <2>2 DEF Early
  <2>4. QED
    BY <1>2, <1>3, <1>7, <1>10, <2>1, <2>3
<1>11. CASE phase = "main"
  <2>1. Before \/ (Done /\ Past)
    BY <1>1, <1>11 DEF Progress
  <2>2. CASE Early /\ Quiet
    <3>1. log' = log
      BY <1>1, <1>2, <2>2, QuietFacts
    <3>2. Early'
      BY <2>2, <3>1 DEF Early
    <3>3. QED
      BY <1>2, <1>3, <1>11, <2>2, <3>2
  <2>3. CASE Early /\ stack = <<Entry>>
    <3>1. Here = Entry
      BY <2>3 DEF Here
    <3>2. Done'
      BY <1>9, <2>3, <3>1
    <3>3. First \in Nat
      BY <1>1, FirstFacts DEF Frames
    <3>4. Reached
      BY <2>3, <3>3 DEF Reached, AtLeast, Entry
    <3>5. QED
      BY <1>2, <1>3, <1>11, <3>2, <3>4
  <2>4. CASE Done /\ Past
    <3>1. First \in Nat
      BY <1>1, FirstFacts DEF Frames
    <3>2. Here # Entry
      BY <2>4, <3>1, <1>1 DEF Past, AtLeast, Entry, Frames
    <3>3. QED
      BY <1>2, <1>3, <1>8, <1>11, <2>4, <3>2 DEF Past
  <2>5. QED
    BY <2>1, <2>2, <2>3, <2>4 DEF Before
<1>12. CASE phase = "handlers"
  <2>1. Done \/ NoMain
    BY <1>1, <1>12 DEF Progress
  <2>2. Here # Entry
    BY <1>4, <1>12 DEF Entry
  <2>3. QED
    BY <1>2, <1>3, <1>7, <1>8, <1>12, <2>1, <2>2
<1>13. CASE phase \notin {"constructors", "main", "handlers"}
  BY <1>2, <1>3, <1>13
<1>14. QED
  BY <1>10, <1>11, <1>12, <1>13

-----------------------------------------------------------------------------
(* What an instruction does to the frames. *)

\* Frames that wait for a call to return.
Waiting(rest) ==
  /\ rest \in Seq(Place)
  /\ \A k \in DOMAIN rest : /\ IsSite(rest[k]) /\ Ins(rest[k]).op \in {"call", "invoke"}
                            /\ rest[k][1] = MainFunc => phase = "main"
                            /\ Reached => AtLeast(rest[k], First)

LEMMA RestWaits ==
    ASSUME Frames, Running, NEW m \in 1 .. Len(stack)
    PROVE  Waiting(SubSeq(stack, m + 1, Len(stack)))
<1> DEFINE rest == SubSeq(stack, m + 1, Len(stack))
<1>1. stack \in Seq(Place) /\ DOMAIN stack = 1 .. Len(stack) /\ Len(stack) \in Nat
  BY LenProperties DEF Frames
<1>2. \A k \in m + 1 .. Len(stack) : stack[k] \in Place
  BY <1>1, ElementOfSeq
<1>3. /\ rest \in Seq(Place) /\ Len(rest) = IF m + 1 <= Len(stack) THEN Len(stack) - m ELSE 0
      /\ \A k \in 1 .. Len(rest) : rest[k] = stack[m + k]
  BY <1>1, <1>2
<1> HIDE DEF rest
<1>4. DOMAIN rest = 1 .. Len(rest)
  BY <1>3, LenProperties
<1>5. ASSUME NEW k \in DOMAIN rest
      PROVE  m + k \in DOMAIN stack /\ m + k # 1 /\ rest[k] = stack[m + k]
  <2>1. k \in 1 .. Len(rest) /\ m \in Nat \ {0} /\ Len(rest) \in Nat
    BY <1>1, <1>3, <1>4, LenProperties
  <2>2. k \in Nat \ {0} /\ k <= Len(rest)
    BY <2>1
  <2>3. Len(rest) # 0
    BY <2>1, <2>2
  <2>4. Len(rest) = Len(stack) - m
    BY <1>3, <2>3
  <2>5. m + k \in 1 .. Len(stack) /\ m + k # 1
    BY <1>1, <2>1, <2>2, <2>4
  <2>6. QED
    BY <1>1, <1>3, <2>1, <2>5
<1>6. QED
  BY <1>3, <1>5 DEF Waiting, Frames, Reached, rest

LEMMA TailWaits ==
    ASSUME Frames, Running
    PROVE  Waiting(Tail(stack)) /\ (Len(stack) > 1 => Waiting(Tail(Tail(stack))))
<1>1. stack \in Seq(Place) /\ stack # <<>> /\ Len(stack) \in Nat \ {0} /\ DOMAIN stack = 1 .. Len(stack)
  BY HereFacts DEF Frames
<1>2. Tail(stack) = SubSeq(stack, 1 + 1, Len(stack))
  BY <1>1
<1>3. Len(stack) > 1 => Tail(Tail(stack)) = SubSeq(stack, 2 + 1, Len(stack))
  BY <1>1
<1>4. Waiting(SubSeq(stack, 1 + 1, Len(stack)))
  <2>1. 1 \in 1 .. Len(stack)
    BY <1>1
  <2>2. QED
    BY <2>1, RestWaits, Zenon
<1>5. Len(stack) > 1 => Waiting(SubSeq(stack, 2 + 1, Len(stack)))
  <2>1. Len(stack) > 1 => 2 \in 1 .. Len(stack)
    BY <1>1
  <2>2. QED
    BY <2>1, RestWaits, Zenon
<1>6. QED
  BY <1>2, <1>3, <1>4, <1>5, Zenon

LEMMA AllWait ==
    ASSUME Frames, Running, Now.op \in {"call", "invoke"}
    PROVE  Waiting(stack)
<1>1. Here = stack[1]
  BY HereFacts
<1>2. QED
  BY <1>1 DEF Frames, Waiting, Reached, Now

\* A new innermost frame.
LEMMA OnTop ==
    ASSUME IInv, Running, NEW o \in Outcomes, Now.op = "condbr" => o \in {"true", "false"}, Execute(o),
           NEW s \in Place, IsSite(s), s[1] = MainFunc => phase = "main",
           Reached => AtLeast(s, First + 1),
           NEW rest, Waiting(rest), stack' = <<s>> \o rest, phase' = phase,
           Quiet => rest = <<>> /\ \E i \in 1 .. First : s = <<MainFunc, 1, i>>
    PROVE  IInv'
<1>1. Frames /\ Records /\ Progress
  BY DEF IInv
<1>2. /\ Given' /\ Records' /\ prog' = prog /\ pass' = pass /\ Written'
      /\ phase = "constructors" => Early' /\ NoMain'
      /\ phase = "main" => (Early' /\ Quiet) \/ (Done' /\ Reached)
      /\ phase = "handlers" => Done' \/ NoMain'
  BY ToldFacts
<1>3. /\ Place' = Place /\ First' = First /\ Entry' = Entry /\ MainFunc' = MainFunc
  BY <1>2 DEF Place, First, Entry, MainFunc
<1>4. rest \in Seq(Place) /\ DOMAIN rest = 1 .. Len(rest) /\ Len(rest) \in Nat
  BY LenProperties DEF Waiting
<1>5. /\ stack' \in Seq(Place) /\ DOMAIN stack' = 1 .. Len(rest) + 1 /\ stack'[1] = s /\ stack' # <<>>
      /\ \A k \in 2 .. Len(rest) + 1 : stack'[k] = rest[k - 1]
  BY <1>4
<1>6. phase \in {"constructors", "main", "handlers"}
  BY <1>1 DEF Frames, Running, Phases
<1>7. ASSUME NEW k \in DOMAIN stack', k # 1
      PROVE  k - 1 \in DOMAIN rest /\ stack'[k] = rest[k - 1]
  BY <1>4, <1>5, <1>7
<1>8. Frames'
  <2>1. ASSUME NEW k \in DOMAIN stack'
        PROVE  /\ IsSite(stack'[k])
               /\ k # 1 => Ins(stack'[k]).op \in {"call", "invoke"}
               /\ stack'[k][1] = MainFunc => phase = "main"
    <3>1. CASE k = 1
      BY <1>5, <3>1
    <3>2. CASE k # 1
      BY <1>7, <3>2 DEF Waiting
    <3>3. QED
      BY <3>1, <3>2
  <2>2. Running'
    BY <1>6 DEF Running
  <2>3. phase' \in Phases
    BY <1>6 DEF Phases
  <2>4. stack' \in Seq(Place')
    BY <1>3, <1>5
  <2>5. QED
    BY <1>2, <1>3, <1>5, <2>1, <2>2, <2>3, <2>4 DEF Frames, IsSite, Place, Ins
<1>9. CASE phase # "main"
  BY <1>2, <1>6, <1>8, <1>9 DEF IInv, Progress, Rewriting
<1>10. CASE phase = "main"
  <2>1. First \in Nat \ {0}
    BY <1>1, FirstFacts DEF Frames
  <2>2. CASE Early' /\ Quiet
    <3>1. PICK i \in 1 .. First : s = <<MainFunc, 1, i>>
      BY <2>2
    <3>2. stack' = <<<<MainFunc, 1, i>>>>
      BY <2>2, <3>1
    <3>3. Before'
      <4>1. i = First \/ i \in 1 .. First - 1
        BY <2>1
      <4>2. stack' = <<Entry'>> \/ \E j \in 1 .. First' - 1 : stack' = <<<<MainFunc', 1, j>>>>
        BY <1>3, <3>2, <4>1 DEF Entry
      <4>3. QED
        BY <2>2, <4>2 DEF Before, Quiet
    <3>4. QED
      BY <1>2, <1>8, <1>10, <3>3 DEF IInv, Progress, Rewriting
  <2>3. CASE Done' /\ Reached
    <3>1. s \in (DOMAIN prog) \X Nat \X Nat
      BY DEF Place
    <3>2. AtLeast(s, First)
      BY <2>1, <2>3, <3>1 DEF AtLeast
    <3>3. \A k \in DOMAIN stack' : AtLeast(stack'[k], First)
      <4>1. ASSUME NEW k \in DOMAIN stack'
            PROVE  AtLeast(stack'[k], First)
        <5>1. CASE k = 1
          BY <1>5, <3>2, <5>1
        <5>2. CASE k # 1
          BY <1>7, <2>3, <5>2 DEF Waiting
        <5>3. QED
          BY <5>1, <5>2
      <4>2. QED
        BY <4>1
    <3>4. Reached'
      BY <1>3, <3>3 DEF Reached, AtLeast
    <3>5. Here' = s
      BY <1>5 DEF Here
    <3>6. AtLeast(Here, First + 1)'
      BY <1>3, <2>3, <3>5 DEF AtLeast
    <3>7. QED
      BY <1>2, <1>8, <1>10, <2>3, <3>4, <3>6 DEF IInv, Progress, Rewriting, Past
  <2>4. QED
    BY <1>2, <1>10, <2>2, <2>3
<1>11. QED
  BY <1>9, <1>10

\* Main begins after the constructors, handlers after main or exit.
LEMMA Starts ==
    ASSUME IInv, Running, NEW o \in Outcomes, Now.op = "condbr" => o \in {"true", "false"}, Execute(o),
           NEW p \in {"main", "handlers"}, Start(p), Root(p) \in DOMAIN prog,
           p = "main" => phase = "constructors", p = "handlers" => ~Quiet
    PROVE  IInv'
<1>1. Frames /\ Records /\ Progress
  BY DEF IInv
<1>2. /\ Given' /\ Records' /\ prog' = prog /\ pass' = pass /\ Written'
      /\ phase = "constructors" => Early' /\ NoMain'
      /\ phase = "main" => (Early' /\ Quiet) \/ (Done' /\ Reached)
      /\ phase = "handlers" => Done' \/ NoMain'
  BY ToldFacts
<1>3. /\ Place' = Place /\ First' = First /\ Entry' = Entry /\ MainFunc' = MainFunc
  BY <1>2 DEF Place, First, Entry, MainFunc
<1>4. phase \in {"constructors", "main", "handlers"}
  BY <1>1 DEF Frames, Running, Phases
<1>5. PICK r \in DOMAIN prog : r = Root(p)
  OBVIOUS
<1>6. IsSite(<<r, 1, 1>>) /\ <<r, 1, 1>> \in Place
  BY <1>1, EntryFacts DEF Frames, IsSite
<1>7. phase' = p /\ stack' = <<<<r, 1, 1>>>>
  BY <1>5 DEF Start
<1>8. r = MainFunc => p = "main"
  <2>1. MainFunc \in {"main", "MAIN_"}
    BY DEF MainFunc, MainOf
  <2>2. p = "handlers" => r = "handler"
    BY <1>5 DEF Root
  <2>3. QED
    BY <2>1, <2>2
<1>9. /\ stack' \in Seq(Place) /\ DOMAIN stack' = {1} /\ stack'[1] = <<r, 1, 1>> /\ stack' # <<>>
  BY <1>6, <1>7
<1>10. Frames'
  <2>1. Running' /\ phase' \in Phases
    BY <1>7 DEF Running, Phases
  <2>2. stack' \in Seq(Place')
    BY <1>3, <1>9
  <2>3. \A k \in DOMAIN stack' :
          /\ IsSite(stack'[k])
          /\ k = 1
          /\ stack'[k][1] = MainFunc => phase' = "main"
    BY <1>6, <1>7, <1>8, <1>9
  <2>4. QED
    BY <1>2, <1>3, <1>9, <2>1, <2>2, <2>3 DEF Frames, IsSite, Place
<1>11. CASE p = "main"
  <2>1. First \in Nat \ {0}
    BY <1>1, FirstFacts DEF Frames
  <2>2. r = MainFunc
    BY <1>5, <1>11 DEF Root
  <2>3. First = 1 \/ 1 \in 1 .. First - 1
    BY <2>1
  <2>4. stack' = <<Entry'>> \/ \E j \in 1 .. First' - 1 : stack' = <<<<MainFunc', 1, j>>>>
    BY <1>3, <1>7, <2>2, <2>3 DEF Entry
  <2>5. Before'
    BY <1>2, <1>11, <2>4 DEF Before, Quiet
  <2>6. QED
    BY <1>2, <1>7, <1>10, <1>11, <2>5 DEF IInv, Progress, Rewriting
<1>12. CASE p = "handlers"
  BY <1>2, <1>4, <1>7, <1>10, <1>12 DEF IInv, Progress, Rewriting
<1>13. QED
  BY <1>11, <1>12

\* The end of the run.
LEMMA Stops ==
    ASSUME IInv, Running, NEW o \in Outcomes, Now.op = "condbr" => o \in {"true", "false"}, Execute(o),
           phase' \in {"ended", "died"}, stack' = <<>>, ~Quiet
    PROVE  IInv'
<1>1. Frames /\ Records /\ Progress
  BY DEF IInv
<1>2. /\ Given' /\ Records' /\ Written'
      /\ phase = "constructors" => Early' /\ NoMain'
      /\ phase = "main" => (Early' /\ Quiet) \/ (Done' /\ Reached)
      /\ phase = "handlers" => Done' \/ NoMain'
  BY ToldFacts
<1>3. phase \in {"constructors", "main", "handlers"}
  BY <1>1 DEF Frames, Running, Phases
<1>4. stack' \in Seq(Place)' /\ DOMAIN stack' = {}
  OBVIOUS
<1>5. Frames'
  BY <1>2, <1>4 DEF Frames, Running, Phases
<1>6. QED
  BY <1>2, <1>3, <1>5 DEF IInv, Progress, Rewriting

LEMMA Finishes ==
    ASSUME IInv, Running, NEW o \in Outcomes, Now.op = "condbr" => o \in {"true", "false"}, Execute(o),
           Finish, ~Quiet
    PROVE  IInv'
<1>1. CASE phase # "handlers" /\ "handler" \in DOMAIN prog
  <2>1. Start("handlers")
    BY <1>1 DEF Finish
  <2>2. Root("handlers") \in DOMAIN prog
    BY <1>1 DEF Root
  <2>3. QED
    BY <2>1, <2>2, Starts
<1>2. CASE ~(phase # "handlers" /\ "handler" \in DOMAIN prog)
  <2>1. phase' = "ended" /\ stack' = <<>>
    BY <1>2 DEF Finish
  <2>2. QED
    BY <2>1, Stops
<1>3. QED
  BY <1>1, <1>2

-----------------------------------------------------------------------------
(* The steps. *)

\* The next instruction of a block.
LEMMA AfterFacts ==
    ASSUME Given, NEW s \in Place, IsSite(s), Ins(s).op \notin Terminator
    PROVE  /\ After(s) = <<s[1], s[2], s[3] + 1>> /\ After(s) \in Place /\ IsSite(After(s))
           /\ AtLeast(s, First) => AtLeast(After(s), First + 1)
<1>1. s = <<s[1], s[2], s[3]>> /\ s[1] \in DOMAIN prog /\ s[2] \in Nat /\ s[3] \in Nat
  BY DEF Place
<1>2. After(s) = <<s[1], s[2], s[3] + 1>>
  BY <1>1 DEF After
<1>3. /\ s[3] \in 1 .. Len(prog[s[1]][s[2]]) /\ Len(prog[s[1]][s[2]]) \in Nat
      /\ s[3] # Len(prog[s[1]][s[2]])
  BY SiteFacts
<1>4. s[2] \in DOMAIN prog[s[1]]
  BY DEF IsSite
<1>5. DOMAIN prog[s[1]][s[2]] = 1 .. Len(prog[s[1]][s[2]])
  BY <1>1, <1>4, FunctionFacts
<1>6. s[3] + 1 \in DOMAIN prog[s[1]][s[2]] /\ s[3] + 1 \in Nat
  BY <1>3, <1>5
<1>7. <<s[1], s[2], s[3] + 1>> \in Place
  BY <1>1, <1>6 DEF Place
<1>8. IsSite(<<s[1], s[2], s[3] + 1>>)
  BY <1>4, <1>6, <1>7 DEF IsSite
<1>9. First \in Nat
  BY FirstFacts
<1>10. AtLeast(s, First) => AtLeast(<<s[1], s[2], s[3] + 1>>, First + 1)
  BY <1>1, <1>9 DEF AtLeast
<1>11. QED
  BY <1>2, <1>7, <1>8, <1>10

\* Another block of the same function.
LEMMA TargetFacts ==
    ASSUME Given, NEW s \in Place, IsSite(s), NEW k \in DOMAIN Ins(s).to
    PROVE  /\ <<s[1], Ins(s).to[k], 1>> \in Place /\ IsSite(<<s[1], Ins(s).to[k], 1>>)
           /\ AtLeast(<<s[1], Ins(s).to[k], 1>>, First + 1)
<1>1. PICK b \in DOMAIN prog[s[1]] \ {1} : b = Ins(s).to[k]
  BY SiteFacts
<1>2. s[1] \in DOMAIN prog
  BY DEF Place
<1>3. IsSite(<<s[1], b, 1>>)
  BY <1>1, <1>2, FunctionFacts
<1>4. AtLeast(<<s[1], b, 1>>, First + 1)
  BY <1>1 DEF AtLeast
<1>5. QED
  BY <1>1, <1>3, <1>4 DEF IsSite

\* Where a call that comes back goes on.
LEMMA BehindFacts ==
    ASSUME Given, NEW s \in Place, IsSite(s), Ins(s).op \in {"call", "invoke"}
    PROVE  /\ Behind(s) \in Place /\ IsSite(Behind(s)) /\ Behind(s)[1] = s[1]
           /\ AtLeast(s, First) => AtLeast(Behind(s), First + 1)
           /\ Ins(s).op = "call" => Behind(s) = <<s[1], s[2], s[3] + 1>>
<1>1. CASE Ins(s).op = "invoke"
  <2>1. 1 \in DOMAIN Ins(s).to
    BY <1>1, SiteFacts DEF Targets
  <2>2. /\ <<s[1], Ins(s).to[1], 1>> \in Place /\ IsSite(<<s[1], Ins(s).to[1], 1>>)
        /\ AtLeast(<<s[1], Ins(s).to[1], 1>>, First + 1)
    BY <2>1, TargetFacts
  <2>3. Behind(s) = <<s[1], Ins(s).to[1], 1>>
    BY <1>1 DEF Behind
  <2>4. QED
    BY <1>1, <2>2, <2>3
<1>2. CASE Ins(s).op = "call"
  <2>1. Ins(s).op \notin Terminator
    BY <1>2 DEF Terminator
  <2>2. /\ After(s) = <<s[1], s[2], s[3] + 1>> /\ After(s) \in Place /\ IsSite(After(s))
        /\ AtLeast(s, First) => AtLeast(After(s), First + 1)
    BY <2>1, AfterFacts
  <2>3. Behind(s) = After(s)
    BY <1>2 DEF Behind
  <2>4. QED
    BY <2>2, <2>3
<1>3. QED
  BY <1>1, <1>2

\* Main does not call anything but debug intrinsics before the call of init.
LEMMA QuietCalls ==
    ASSUME Frames, Quiet, Now.op \in {"call", "invoke"}
    PROVE  Now.op = "call" /\ Callees(Now) = {"llvm.dbg.value"}
<1>1. Now.op = "call" /\ Now.callee = "llvm.dbg.value"
  BY QuietFacts
<1>2. QED
  BY <1>1 DEF Callees, Indirect

LEMMA StraightStep == IInv /\ Straight => IInv'
<1> SUFFICES ASSUME IInv, Straight
             PROVE  IInv'
  OBVIOUS
<1>1. Frames
  BY DEF IInv
<1>2. Running /\ Execute("nothing") /\ stack' = <<After(Here)>> \o Tail(stack) /\ phase' = phase
  BY DEF Straight
<1>3. Now.op \in {"phi", "landingpad", "load", "store", "other"}
  BY DEF Straight
<1>4. IsSite(Here) /\ Here \in Place /\ Here = stack[1] /\ 1 \in DOMAIN stack
      /\ (Here[1] = MainFunc => phase = "main")
  BY <1>1, <1>2, HereFacts
<1>5. /\ After(Here) = <<Here[1], Here[2], Here[3] + 1>> /\ After(Here) \in Place /\ IsSite(After(Here))
      /\ AtLeast(Here, First) => AtLeast(After(Here), First + 1)
  <2>1. Ins(Here).op \notin Terminator
    BY <1>3 DEF Now, Terminator
  <2>2. Given
    BY <1>1 DEF Frames
  <2>3. QED
    BY <1>4, <2>1, <2>2, AfterFacts
<1>6. PICK s \in Place : s = After(Here)
  BY <1>5
<1>7. IsSite(s) /\ (s[1] = MainFunc => phase = "main")
  BY <1>4, <1>5, <1>6
<1>8. Reached => AtLeast(s, First + 1)
  BY <1>4, <1>5, <1>6 DEF Reached
<1>9. Waiting(Tail(stack))
  BY <1>1, <1>2, TailWaits
<1>10. Quiet => Tail(stack) = <<>> /\ \E i \in 1 .. First : s = <<MainFunc, 1, i>>
  <2> SUFFICES ASSUME Quiet
               PROVE  Tail(stack) = <<>> /\ \E i \in 1 .. First : s = <<MainFunc, 1, i>>
    OBVIOUS
  <2>1. PICK i \in 1 .. First - 1 : stack = <<<<MainFunc, 1, i>>>>
    BY DEF Quiet
  <2>2. First \in Nat
    BY <1>1, FirstFacts DEF Frames
  <2>3. s = <<MainFunc, 1, i + 1>>
    BY <1>4, <1>5, <1>6, <2>1
  <2>4. i + 1 \in 1 .. First
    BY <2>2
  <2>5. Tail(stack) = <<>>
    BY <2>1
  <2>6. QED
    BY <2>3, <2>4, <2>5
<1>11. stack' = <<s>> \o Tail(stack)
  BY <1>2, <1>6
<1>12. "nothing" \in Outcomes /\ (Now.op = "condbr" => "nothing" \in {"true", "false"})
  BY <1>3 DEF Outcomes
<1>13. QED
  BY <1>2, <1>7, <1>8, <1>9, <1>10, <1>11, <1>12, OnTop

LEMMA OutsideStep == IInv /\ Outside => IInv'
<1> SUFFICES ASSUME IInv, Outside
             PROVE  IInv'
  OBVIOUS
<1>1. Frames /\ Given
  BY DEF IInv, Frames
<1>2. Running /\ Execute("nothing") /\ stack' = <<Behind(Here)>> \o Tail(stack) /\ phase' = phase
  BY DEF Outside, Calling
<1>3. Now.op \in {"call", "invoke"}
  BY DEF Outside, Calling
<1>4. IsSite(Here) /\ Here \in Place /\ Here = stack[1] /\ 1 \in DOMAIN stack
      /\ (Here[1] = MainFunc => phase = "main")
  BY <1>1, <1>2, HereFacts
<1>5. /\ Behind(Here) \in Place /\ IsSite(Behind(Here)) /\ Behind(Here)[1] = Here[1]
      /\ AtLeast(Here, First) => AtLeast(Behind(Here), First + 1)
      /\ Now.op = "call" => Behind(Here) = <<Here[1], Here[2], Here[3] + 1>>
  BY <1>1, <1>3, <1>4, BehindFacts DEF Now
<1>6. PICK s \in Place : s = Behind(Here)
  BY <1>5
<1>7. IsSite(s) /\ (s[1] = MainFunc => phase = "main")
  BY <1>4, <1>5, <1>6
<1>8. Reached => AtLeast(s, First + 1)
  BY <1>4, <1>5, <1>6 DEF Reached
<1>9. Waiting(Tail(stack))
  BY <1>1, <1>2, TailWaits
<1>10. Quiet => Tail(stack) = <<>> /\ \E i \in 1 .. First : s = <<MainFunc, 1, i>>
  <2> SUFFICES ASSUME Quiet
               PROVE  Tail(stack) = <<>> /\ \E i \in 1 .. First : s = <<MainFunc, 1, i>>
    OBVIOUS
  <2>1. PICK i \in 1 .. First - 1 : stack = <<<<MainFunc, 1, i>>>>
    BY DEF Quiet
  <2>2. First \in Nat
    BY <1>1, FirstFacts DEF Frames
  <2>3. Now.op = "call"
    BY <1>1, <1>3, QuietCalls
  <2>4. s = <<MainFunc, 1, i + 1>>
    BY <1>4, <1>5, <1>6, <2>1, <2>3
  <2>5. i + 1 \in 1 .. First
    BY <2>2
  <2>6. Tail(stack) = <<>>
    BY <2>1
  <2>7. QED
    BY <2>4, <2>5, <2>6
<1>11. stack' = <<s>> \o Tail(stack)
  BY <1>2, <1>6
<1>12. "nothing" \in Outcomes /\ (Now.op = "condbr" => "nothing" \in {"true", "false"})
  BY <1>3 DEF Outcomes
<1>13. QED
  BY <1>2, <1>7, <1>8, <1>9, <1>10, <1>11, <1>12, OnTop

LEMMA EnterStep == IInv /\ Enter => IInv'
<1> SUFFICES ASSUME IInv, Enter
             PROVE  IInv'
  OBVIOUS
<1>1. Frames /\ Given
  BY DEF IInv, Frames
<1>2. Running /\ Execute("nothing") /\ phase' = phase /\ Now.op \in {"call", "invoke"}
  BY DEF Enter, Calling
<1>3. PICK f \in Callees(Now) \cap DOMAIN prog : stack' = <<<<f, 1, 1>>>> \o stack
  BY DEF Enter
<1>4. IsSite(<<f, 1, 1>>) /\ <<f, 1, 1>> \in Place /\ ~Intrinsic(f)
  <2>1. 1 \in DOMAIN prog[f] /\ IsSite(<<f, 1, 1>>)
    BY <1>1, EntryFacts
  <2>2. ~Intrinsic(f)
    BY <1>1, <2>1, FunctionFacts
  <2>3. QED
    BY <2>1, <2>2 DEF IsSite
<1>5. f # MainFunc
  <2>1. MainFunc \notin Callees(Now)
    BY <1>1, <1>2, HereFacts, SiteFacts DEF Now
  <2>2. QED
    BY <2>1
<1>6. ~Quiet
  <2>1. Quiet => f = "llvm.dbg.value"
    BY <1>1, <1>2, QuietCalls
  <2>2. QED
    BY <1>4, <2>1 DEF Intrinsic
<1>7. Waiting(stack)
  BY <1>1, <1>2, AllWait
<1>8. AtLeast(<<f, 1, 1>>, First + 1)
  BY <1>5 DEF AtLeast
<1>9. PICK s \in Place : s = <<f, 1, 1>>
  BY <1>4
<1>10. IsSite(s) /\ s[1] # MainFunc /\ AtLeast(s, First + 1) /\ stack' = <<s>> \o stack
  BY <1>3, <1>4, <1>5, <1>8, <1>9
<1>11. "nothing" \in Outcomes /\ (Now.op = "condbr" => "nothing" \in {"true", "false"})
  BY <1>2 DEF Outcomes
<1>12. QED
  BY <1>2, <1>6, <1>7, <1>10, <1>11, OnTop

LEMMA BranchStep == IInv /\ Branch => IInv'
<1> SUFFICES ASSUME IInv, Branch
             PROVE  IInv'
  OBVIOUS
<1>1. Frames /\ Given
  BY DEF IInv, Frames
<1>2. Running /\ phase' = phase /\ Now.op \in {"br", "condbr"}
  BY DEF Branch
<1>3. PICK k \in DOMAIN Now.to :
        /\ Execute(IF Now.op = "br" THEN "nothing" ELSE IF k = 1 THEN "true" ELSE "false")
        /\ stack' = <<<<Here[1], Now.to[k], 1>>>> \o Tail(stack)
  BY DEF Branch
<1>4. IsSite(Here) /\ Here \in Place /\ (Here[1] = MainFunc => phase = "main")
  BY <1>1, <1>2, HereFacts
<1>5. /\ <<Here[1], Now.to[k], 1>> \in Place /\ IsSite(<<Here[1], Now.to[k], 1>>)
      /\ AtLeast(<<Here[1], Now.to[k], 1>>, First + 1)
  BY <1>1, <1>3, <1>4, TargetFacts DEF Now
<1>6. PICK s \in Place : s = <<Here[1], Now.to[k], 1>>
  BY <1>5
<1>7. /\ IsSite(s) /\ (s[1] = MainFunc => phase = "main") /\ AtLeast(s, First + 1)
      /\ stack' = <<s>> \o Tail(stack)
  BY <1>3, <1>4, <1>5, <1>6
<1>8. Waiting(Tail(stack))
  BY <1>1, <1>2, TailWaits
<1>9. ~Quiet
  BY <1>1, <1>2, QuietFacts
<1>10. PICK o \in Outcomes : o = IF Now.op = "br" THEN "nothing" ELSE IF k = 1 THEN "true" ELSE "false"
  BY DEF Outcomes
<1>11. Execute(o) /\ (Now.op = "condbr" => o \in {"true", "false"})
  BY <1>3, <1>10
<1>12. QED
  BY <1>2, <1>7, <1>8, <1>9, <1>11, OnTop

LEMMA ReturnStep == IInv /\ Return => IInv'
<1> SUFFICES ASSUME IInv, Return
             PROVE  IInv'
  OBVIOUS
<1>1. Frames /\ Given
  BY DEF IInv, Frames
<1>2. Running /\ Execute("nothing") /\ Now.op = "ret"
  BY DEF Return
<1>3. ~Quiet
  BY <1>1, <1>2, QuietFacts
<1>4. "nothing" \in Outcomes /\ (Now.op = "condbr" => "nothing" \in {"true", "false"})
  BY <1>2 DEF Outcomes
<1>5. CASE Len(stack) > 1
  <2>1. stack' = <<Behind(stack[2])>> \o Tail(Tail(stack)) /\ phase' = phase
    BY <1>5 DEF Return
  <2>2. 2 \in DOMAIN stack
    BY <1>1, <1>2, <1>5, HereFacts
  <2>3. PICK s \in Place : s = stack[2]
    BY <1>1, <2>2 DEF Frames, IsSite
  <2>4. IsSite(s) /\ Ins(s).op \in {"call", "invoke"} /\ (s[1] = MainFunc => phase = "main")
    BY <1>1, <2>2, <2>3 DEF Frames
  <2>5. Reached => AtLeast(s, First)
    BY <2>2, <2>3 DEF Reached
  <2>6. /\ Behind(s) \in Place /\ IsSite(Behind(s)) /\ Behind(s)[1] = s[1]
        /\ AtLeast(s, First) => AtLeast(Behind(s), First + 1)
    BY <1>1, <2>4, BehindFacts
  <2>7. Waiting(Tail(Tail(stack)))
    BY <1>1, <1>2, <1>5, TailWaits
  <2>8. PICK t \in Place : t = Behind(s)
    BY <2>6
  <2>9. stack' = <<t>> \o Tail(Tail(stack))
    BY <2>1, <2>3, <2>8
  <2>10. IsSite(t) /\ (t[1] = MainFunc => phase = "main") /\ (Reached => AtLeast(t, First + 1))
    BY <2>4, <2>5, <2>6, <2>8
  <2>11. QED
    BY <1>2, <1>3, <1>4, <2>1, <2>7, <2>9, <2>10, OnTop
<1>6. CASE ~(Len(stack) > 1) /\ phase = "constructors"
  <2>1. Start("main")
    BY <1>6 DEF Return
  <2>2. Root("main") \in DOMAIN prog
    BY <1>1, FirstFacts DEF Root
  <2>3. QED
    BY <1>2, <1>4, <1>6, <2>1, <2>2, Starts
<1>7. CASE ~(Len(stack) > 1) /\ phase # "constructors"
  <2>1. Finish
    BY <1>7 DEF Return
  <2>2. QED
    BY <1>2, <1>3, <1>4, <2>1, Finishes
<1>8. QED
  BY <1>5, <1>6, <1>7

LEMMA ExitStep == IInv /\ Exit => IInv'
<1> SUFFICES ASSUME IInv, Exit
             PROVE  IInv'
  OBVIOUS
<1>1. Frames
  BY DEF IInv
<1>2. Running /\ Execute("exit") /\ Finish /\ Now.op \in {"call", "invoke"}
  BY DEF Exit, Calling
<1>3. PICK f \in Callees(Now) : ExitLike(f)
  BY DEF Exit
<1>4. ~Quiet
  BY <1>1, <1>2, <1>3, QuietCalls DEF ExitLike
<1>5. "exit" \in Outcomes /\ (Now.op = "condbr" => "exit" \in {"true", "false"})
  BY <1>2 DEF Outcomes
<1>6. QED
  BY <1>2, <1>4, <1>5, Finishes

LEMMA ThrowStep == IInv /\ Throw => IInv'
<1> SUFFICES ASSUME IInv, Throw
             PROVE  IInv'
  OBVIOUS
<1> DEFINE pads == {k \in DOMAIN stack : Ins(stack[k]).op = "invoke"}
<1>1. Frames /\ Given
  BY DEF IInv, Frames
<1>2. Running /\ Execute("nothing") /\ Now.op \in {"call", "invoke"} /\ "__cxa_throw" \in Callees(Now)
  BY DEF Throw, Calling
<1>3. ~Quiet
  BY <1>1, <1>2, QuietCalls
<1>4. "nothing" \in Outcomes /\ (Now.op = "condbr" => "nothing" \in {"true", "false"})
  BY <1>2 DEF Outcomes
<1>5. CASE pads = {}
  <2>1. phase' = "died" /\ stack' = <<>>
    BY <1>5 DEF Throw
  <2>2. QED
    BY <1>2, <1>3, <1>4, <2>1, Stops
<1>6. CASE pads # {}
  <2>1. pads \subseteq Nat /\ pads \subseteq Int
    BY <1>1, <1>2, HereFacts
  <2>2. \E m \in pads : \A j \in pads : m <= j
    <3> HIDE DEF pads
    <3>1. QED
      BY <1>6, <2>1, LeastElement
  <2>3. PICK m \in pads : \A j \in pads : m <= j
    BY <2>2
  <2>4. Min(pads) = m
    <3> HIDE DEF pads
    <3>1. QED
      BY <2>1, <2>3, MinIs
  <2> DEFINE s == stack[m]
  <2>5. /\ stack' = <<<<s[1], Ins(s).to[2], 1>>>> \o SubSeq(stack, m + 1, Len(stack))
        /\ phase' = phase
    BY <1>6, <2>4 DEF Throw
  <2>6. m \in 1 .. Len(stack) /\ m \in DOMAIN stack
    BY <1>1, <1>2, HereFacts
  <2>7. IsSite(s) /\ s \in Place /\ Ins(s).op = "invoke" /\ (s[1] = MainFunc => phase = "main")
    BY <1>1, <2>6 DEF Frames, IsSite
  <2> HIDE DEF s
  <2>8. 2 \in DOMAIN Ins(s).to
    BY <1>1, <2>7, SiteFacts DEF Targets
  <2>9. /\ <<s[1], Ins(s).to[2], 1>> \in Place /\ IsSite(<<s[1], Ins(s).to[2], 1>>)
        /\ AtLeast(<<s[1], Ins(s).to[2], 1>>, First + 1)
    BY <1>1, <2>7, <2>8, TargetFacts
  <2>10. PICK t \in Place : t = <<s[1], Ins(s).to[2], 1>>
    BY <2>9
  <2>11. /\ IsSite(t) /\ (t[1] = MainFunc => phase = "main") /\ AtLeast(t, First + 1)
         /\ stack' = <<t>> \o SubSeq(stack, m + 1, Len(stack))
    BY <2>5, <2>7, <2>9, <2>10
  <2>12. Waiting(SubSeq(stack, m + 1, Len(stack)))
    BY <1>1, <1>2, <2>6, RestWaits
  <2>13. QED
    BY <1>2, <1>3, <1>4, <2>5, <2>11, <2>12, OnTop
<1>7. QED
  BY <1>5, <1>6

-----------------------------------------------------------------------------
(* The steps of the pass. *)

LEMMA Idle ==
    ASSUME Frames, Records, Progress, phase = "rewriting", UNCHANGED <<given, stack, phase, history>>
    PROVE  Frames' /\ Records' /\ Progress'
<1>1. pass' = pass /\ prog' = prog /\ stack' = stack /\ phase' = phase /\ log' = log /\ ran' = ran
  BY DEF given, history
<1>2. Given' /\ Place' = Place /\ Tellings' = Tellings /\ Ran' = Ran
  BY <1>1 DEF Frames, Given, Place, Tellings, Ran
<1>3. DOMAIN stack = {} /\ stack = <<>>
  BY DEF Frames, Running
<1>4. Frames'
  BY <1>1, <1>2, <1>3 DEF Frames, Running
<1>5. Records'
  BY <1>1, <1>2 DEF Records, Conditions
<1>6. Done \/ NoMain
  BY DEF Progress
<1>7. (Done \/ NoMain)'
  BY <1>1, <1>6 DEF Done, NoMain
<1>8. QED
  BY <1>1, <1>4, <1>5, <1>7 DEF Progress

\* What the pass knows of the module stays.
LEMMA Fixed ==
    ASSUME UNCHANGED given
    PROVE  /\ Sites' = Sites /\ prog' = prog
           /\ \A s : (Own(s)' = Own(s)) /\ (IsSite(s)' <=> IsSite(s)) /\ (Handled(s)' <=> Handled(s))
<1>1. pass' = pass /\ prog' = prog
  BY DEF given
<1>2. Sites' = Sites
  BY <1>1 DEF Sites
<1>3. \A s : Own(s)' = Own(s)
  BY <1>1 DEF Own, Handled, Skipped, StartOf, Calls, Ins
<1>4. \A s : (IsSite(s)' <=> IsSite(s)) /\ (Handled(s)' <=> Handled(s))
  BY <1>1 DEF IsSite, Place, Handled, Skipped, StartOf
<1>5. QED
  BY <1>1, <1>2, <1>3, <1>4

\* The loop over a block that is come to begins at an instruction to handle, and
\* no instruction before it in the block is.
LEMMA BlockBegins ==
    ASSUME Given, NEW f \in DOMAIN prog, NEW b \in DOMAIN prog[f], ~Skipped(f)
    PROVE  /\ IsSite(<<f, b, StartOf(f, b)>>) /\ Handled(<<f, b, StartOf(f, b)>>)
           /\ \A s \in Sites : s[1] = f /\ s[2] = b /\ s[3] < StartOf(f, b) => Own(s) = <<>>
<1>1. StartOf(f, b) \in DOMAIN prog[f][b] /\ StartOf(f, b) \in Nat
  BY StartFacts
<1>2. <<f, b, StartOf(f, b)>> \in Sites
  BY <1>1 DEF Sites
<1>3. IsSite(<<f, b, StartOf(f, b)>>)
  BY <1>2, SitesAre
<1>4. Handled(<<f, b, StartOf(f, b)>>)
  BY <1>1 DEF Handled
<1>5. ASSUME NEW s \in Sites, s[1] = f, s[2] = b, s[3] < StartOf(f, b)
      PROVE  Own(s) = <<>>
  <2>1. s[3] \in Nat
    BY SitesAre DEF IsSite, Place
  <2>2. ~Handled(s)
    BY <1>1, <1>5, <2>1 DEF Handled
  <2>3. QED
    BY <2>2 DEF Own
<1>6. QED
  BY <1>3, <1>4, <1>5

LEMMA RunOnFunctionStep == IInv /\ RunOnFunction => IInv'
<1> SUFFICES ASSUME IInv, RunOnFunction
             PROVE  IInv'
  OBVIOUS
<1>1. Frames /\ Records /\ Progress /\ Rewriting /\ Given
  BY DEF IInv, Frames
<1>2. phase = "rewriting" /\ cursor = <<>> /\ todo # {} /\ UNCHANGED <<given, before, stack, phase, history>>
  BY DEF RunOnFunction
<1>3. PICK f \in todo : /\ todo' = todo \ {f}
                        /\ cursor' = IF Skipped(f) THEN <<>> ELSE <<f, 1, StartOf(f, 1)>>
  BY <1>2 DEF RunOnFunction
<1>4. Frames' /\ Records' /\ Progress'
  BY <1>1, <1>2, Idle
<1>5. /\ log = <<>> /\ ran = <<>> /\ todo \subseteq DOMAIN prog /\ DOMAIN before = Sites
      /\ \A s \in Sites : before[s] = IF Pending(s) THEN <<>> ELSE Own(s)
  BY <1>1, <1>2 DEF Rewriting
<1>6. log' = <<>> /\ ran' = <<>> /\ before' = before /\ todo' \subseteq DOMAIN prog
  BY <1>2, <1>3, <1>5 DEF history
<1>7. /\ Sites' = Sites /\ prog' = prog
      /\ \A s : (Own(s)' = Own(s)) /\ (IsSite(s)' <=> IsSite(s)) /\ (Handled(s)' <=> Handled(s))
  BY <1>2, Fixed
<1>8. 1 \in DOMAIN prog[f]
  BY <1>1, <1>5, EntryFacts
<1>9. ~Skipped(f) =>
        /\ IsSite(<<f, 1, StartOf(f, 1)>>) /\ Handled(<<f, 1, StartOf(f, 1)>>)
        /\ \A s \in Sites : s[1] = f /\ s[2] = 1 /\ s[3] < StartOf(f, 1) => Own(s) = <<>>
  BY <1>1, <1>5, <1>8, BlockBegins
<1>10. ASSUME NEW c, cursor' = c, c # <<>>
       PROVE  c = <<f, 1, StartOf(f, 1)>> /\ ~Skipped(f) /\ c[1] = f /\ c[2] = 1 /\ c[3] = StartOf(f, 1)
  BY <1>3, <1>10
<1>11. cursor' # <<>> => IsSite(cursor)' /\ cursor'[1] \notin todo' /\ Handled(cursor)'
  <2> SUFFICES ASSUME cursor' # <<>>
               PROVE  IsSite(cursor)' /\ cursor'[1] \notin todo' /\ Handled(cursor)'
    OBVIOUS
  <2>1. PICK c : c = cursor'
    OBVIOUS
  <2>2. c = <<f, 1, StartOf(f, 1)>> /\ ~Skipped(f) /\ c[1] = f
    BY <1>10, <2>1
  <2>3. IsSite(c) /\ Handled(c)
    BY <1>9, <2>2
  <2>4. IsSite(c)' /\ Handled(c)'
    BY <1>7, <2>3
  <2>5. IsSite(cursor)' /\ Handled(cursor)'
    BY <2>1, <2>4 DEF IsSite, Place, Handled, Skipped, StartOf
  <2>6. QED
    BY <1>3, <2>1, <2>2, <2>5
<1>12. ASSUME NEW s \in Sites
       PROVE  before[s] = IF Pending(s)' THEN <<>> ELSE Own(s)
  <2>1. s[2] \in Nat \ {0} /\ s[3] \in Nat /\ s[1] \in DOMAIN prog /\ s[2] \in DOMAIN prog[s[1]]
    <3>1. IsSite(s) /\ s[1] \in DOMAIN prog /\ s[2] \in DOMAIN prog[s[1]] /\ s[3] \in Nat
      BY <1>1, SitesAre DEF IsSite, Place
    <3>2. Nonempty(prog[s[1]])
      <4>1. WellFormed(prog)
        BY <1>1, ProgramAssumption DEF Given
      <4>2. QED
        BY <3>1, <4>1 DEF WellFormed
    <3>3. QED
      BY <3>1, <3>2 DEF Nonempty
  <2>2. Pending(s) <=> s[1] \in todo
    BY <1>2 DEF Pending
  <2>3. CASE s[1] # f
    <3>1. Pending(s)' <=> s[1] \in todo
      BY <1>3, <2>3 DEF Pending
    <3>2. QED
      BY <1>5, <2>2, <3>1
  <2>4. CASE s[1] = f /\ Skipped(f)
    <3>1. ~Pending(s)'
      BY <1>3, <2>4 DEF Pending
    <3>2. Own(s) = <<>>
      BY <2>4 DEF Own, Handled
    <3>3. before[s] = <<>>
      BY <1>5, <2>2, <2>4
    <3>4. QED
      BY <3>1, <3>2, <3>3
  <2>5. CASE s[1] = f /\ ~Skipped(f)
    <3>1. before[s] = <<>>
      BY <1>5, <2>2, <2>5
    <3>2. StartOf(f, 1) \in Nat
      BY <1>1, <1>5, <1>8, StartFacts
    <3>3. PICK n \in Nat : n = StartOf(f, 1)
      BY <3>2
    <3>4. cursor' = <<f, 1, n>>
      BY <1>3, <2>5, <3>3
    <3>5. Pending(s)' <=> s[2] > 1 \/ (s[2] = 1 /\ s[3] >= n)
      BY <1>3, <2>5, <3>4 DEF Pending
    <3>6. ~Pending(s)' => s[2] = 1 /\ s[3] < n
      BY <2>1, <3>5
    <3>7. ~Pending(s)' => Own(s) = <<>>
      BY <1>9, <2>5, <3>3, <3>6
    <3>8. QED
      BY <3>1, <3>7
  <2>6. QED
    BY <2>3, <2>4, <2>5
<1>13. \A s \in Sites' : before'[s] = IF Pending(s)' THEN <<>> ELSE Own(s)'
  BY <1>6, <1>7, <1>12
<1>14. Rewriting'
  BY <1>5, <1>6, <1>7, <1>11, <1>13 DEF Rewriting
<1>15. QED
  BY <1>4, <1>14 DEF IInv

\* Where the loop goes after an instruction, as blocks and indices.
LEMMA Onward ==
    ASSUME Given, NEW c \in Place, IsSite(c), Handled(c),
           NEW d, d = IF c[3] < Len(prog[c[1]][c[2]]) THEN After(c) ELSE NextBlock(c)
    PROVE  /\ d # <<>> => IsSite(d) /\ Handled(d) /\ d[1] = c[1]
           /\ \A s \in Sites : s[1] = c[1] =>
                LET ahead(x) == x # <<>> /\ (s[2] > x[2] \/ (s[2] = x[2] /\ s[3] >= x[3]))
                IN /\ ahead(d) => ahead(c) /\ s # c
                   /\ ahead(c) /\ ~ahead(d) => s = c \/ Own(s) = <<>>
<1>1. PICK f \in DOMAIN prog, b \in Nat, i \in Nat : c = <<f, b, i>>
  BY DEF Place
<1>2. b \in DOMAIN prog[f] /\ i \in DOMAIN prog[f][b] /\ ~Skipped(f) /\ i >= StartOf(f, b)
  BY <1>1 DEF IsSite, Handled
<1>3. DOMAIN prog[f] = 1 .. Len(prog[f]) /\ Len(prog[f]) \in Nat
  <2>1. WellFormed(prog)
    BY ProgramAssumption DEF Given
  <2>2. Nonempty(prog[f])
    BY <2>1 DEF WellFormed
  <2>3. QED
    BY <2>2 DEF Nonempty
<1>4. DOMAIN prog[f][b] = 1 .. Len(prog[f][b]) /\ Len(prog[f][b]) \in Nat
  BY <1>2, FunctionFacts
<1>5. StartOf(f, b) \in Nat /\ i \in 1 .. Len(prog[f][b]) /\ b \in 1 .. Len(prog[f])
  <2>1. StartOf(f, b) \in Nat
    BY <1>2, StartFacts
  <2>2. i \in 1 .. Len(prog[f][b])
    BY <1>2, <1>4, Zenon
  <2>3. b \in 1 .. Len(prog[f])
    BY <1>2, <1>3, Zenon
  <2>4. QED
    BY <2>1, <2>2, <2>3
<1>6. ASSUME NEW s \in Sites, s[1] = f
      PROVE  \E x, y \in Nat : s = <<f, x, y>> /\ x \in 1 .. Len(prog[f]) /\ y \in DOMAIN prog[f][x]
  <2>1. IsSite(s)
    BY SitesAre
  <2>2. QED
    BY <1>3, <1>6, <2>1 DEF IsSite, Place
<1> DEFINE ahead(s, x) == x # <<>> /\ (s[2] > x[2] \/ (s[2] = x[2] /\ s[3] >= x[3]))
<1>7. CASE i < Len(prog[f][b])
  <2>1. d = <<f, b, i + 1>>
    BY <1>1, <1>7 DEF After
  <2>2. IsSite(d)
    BY <1>2, <1>4, <1>7, <2>1 DEF IsSite, Place
  <2>3. Handled(d)
    BY <1>2, <1>5, <2>1 DEF Handled
  <2>4. ASSUME NEW s \in Sites, s[1] = f
        PROVE  /\ ahead(s, d) => ahead(s, c) /\ s # c
               /\ ahead(s, c) /\ ~ahead(s, d) => s = c
    <3>1. PICK x \in Nat, y \in Nat : s = <<f, x, y>>
      BY <1>6, <2>4
    <3>2. QED
      BY <1>1, <2>1, <3>1
  <2>5. QED
    BY <1>1, <2>1, <2>2, <2>3, <2>4
<1>8. CASE ~(i < Len(prog[f][b])) /\ b < Len(prog[f])
  <2>1. i = Len(prog[f][b])
    BY <1>4, <1>5, <1>8
  <2>2. b + 1 \in DOMAIN prog[f]
    BY <1>3, <1>8
  <2>3. PICK n \in Nat : n = StartOf(f, b + 1)
    BY <2>2, StartFacts
  <2>4. d = <<f, b + 1, n>>
    BY <1>1, <1>8, <2>3 DEF NextBlock
  <2>5. /\ IsSite(d) /\ Handled(d)
        /\ \A s \in Sites : s[1] = f /\ s[2] = b + 1 /\ s[3] < n => Own(s) = <<>>
    BY <1>2, <2>2, <2>3, <2>4, BlockBegins
  <2>6. ASSUME NEW s \in Sites, s[1] = f
        PROVE  /\ ahead(s, d) => ahead(s, c) /\ s # c
               /\ ahead(s, c) /\ ~ahead(s, d) => s = c \/ Own(s) = <<>>
    <3>1. PICK x \in Nat, y \in Nat : s = <<f, x, y>> /\ x \in 1 .. Len(prog[f]) /\ y \in DOMAIN prog[f][x]
      BY <1>6, <2>6
    <3>2. x = b => y <= i
      BY <1>4, <2>1, <3>1
    <3>3. ahead(s, c) <=> x > b \/ (x = b /\ y >= i)
      BY <1>1, <3>1
    <3>4. ahead(s, d) <=> x > b + 1 \/ (x = b + 1 /\ y >= n)
      BY <2>4, <3>1
    <3>5. ahead(s, c) /\ ~ahead(s, d) => (x = b /\ y = i) \/ (x = b + 1 /\ y < n)
      BY <3>1, <3>2, <3>3, <3>4
    <3>6. x = b + 1 /\ y < n => Own(s) = <<>>
      BY <2>5, <3>1, <2>6
    <3>7. ahead(s, d) => ahead(s, c) /\ s # c
      BY <1>1, <3>1, <3>3, <3>4
    <3>8. QED
      BY <1>1, <3>1, <3>5, <3>6, <3>7
  <2>7. d # <<>> /\ d[1] = f
    <3>1. d[1] = f
      BY <2>4
    <3>2. d # <<>>
      BY <1>1, <2>3, <2>4
    <3>3. QED
      BY <3>1, <3>2
  <2>8. QED
    BY <1>1, <2>5, <2>6, <2>7
<1>9. CASE ~(i < Len(prog[f][b])) /\ ~(b < Len(prog[f]))
  <2>1. i = Len(prog[f][b]) /\ b = Len(prog[f])
    <3>1. i = Len(prog[f][b])
      BY <1>1, <1>4, <1>5, <1>9
    <3>2. b = Len(prog[f])
      <4>1. PICK n \in Nat : n = Len(prog[f])
        BY <1>3
      <4>2. b \in 1 .. n /\ ~(b < n)
        BY <1>5, <1>9, <4>1
      <4>3. b = n
        BY <4>2
      <4>4. QED
        BY <4>1, <4>3
    <3>3. QED
      BY <3>1, <3>2
  <2>2. d = <<>>
    BY <1>1, <1>9 DEF NextBlock
  <2>3. ASSUME NEW s \in Sites, s[1] = f, ahead(s, c)
        PROVE  s = c
    <3>1. PICK x \in Nat, y \in Nat : s = <<f, x, y>> /\ x \in 1 .. Len(prog[f]) /\ y \in DOMAIN prog[f][x]
      BY <1>6, <2>3
    <3>2. x > b \/ (x = b /\ y >= i)
      BY <1>1, <2>3, <3>1
    <3>3. x = b
      BY <2>1, <3>1, <3>2
    <3>4. y = i
      BY <1>4, <2>1, <3>1, <3>2, <3>3
    <3>5. QED
      BY <1>1, <3>1, <3>3, <3>4
  <2>4. QED
    BY <1>1, <2>2, <2>3
<1>10. QED
  BY <1>7, <1>8, <1>9

LEMMA VisitStep == IInv /\ Visit => IInv'
<1> SUFFICES ASSUME IInv, Visit
             PROVE  IInv'
  OBVIOUS
<1>1. Frames /\ Records /\ Progress /\ Rewriting /\ Given
  BY DEF IInv, Frames
<1>2. phase = "rewriting" /\ cursor # <<>> /\ UNCHANGED <<given, todo, stack, phase, history>>
  BY DEF Visit
<1>3. /\ log = <<>> /\ ran = <<>> /\ todo \subseteq DOMAIN prog /\ DOMAIN before = Sites
      /\ IsSite(cursor) /\ cursor[1] \notin todo /\ Handled(cursor)
      /\ \A s \in Sites : before[s] = IF Pending(s) THEN <<>> ELSE Own(s)
  BY <1>1, <1>2 DEF Rewriting
<1>4. Frames' /\ Records' /\ Progress'
  BY <1>1, <1>2, Idle
<1>5. PICK c \in Place : c = cursor
  BY <1>3 DEF IsSite
<1>6. IsSite(c) /\ Handled(c) /\ c \in Sites
  BY <1>1, <1>3, <1>5, SitesAre
<1>7. PICK d : d = IF c[3] < Len(prog[c[1]][c[2]]) THEN After(c) ELSE NextBlock(c)
  OBVIOUS
<1>8. cursor' = d /\ before' = [before EXCEPT ![c] = @ \o Calls(Ins(c))]
  BY <1>5, <1>7 DEF Visit
<1> DEFINE ahead(s, x) == x # <<>> /\ (s[2] > x[2] \/ (s[2] = x[2] /\ s[3] >= x[3]))
<1>9. /\ d # <<>> => IsSite(d) /\ Handled(d) /\ d[1] = c[1]
      /\ \A s \in Sites : s[1] = c[1] =>
           /\ ahead(s, d) => ahead(s, c) /\ s # c
           /\ ahead(s, c) /\ ~ahead(s, d) => s = c \/ Own(s) = <<>>
  BY <1>1, <1>6, <1>7, Onward
<1>10. /\ Sites' = Sites /\ prog' = prog
       /\ \A s : (Own(s)' = Own(s)) /\ (IsSite(s)' <=> IsSite(s)) /\ (Handled(s)' <=> Handled(s))
  BY <1>2, Fixed
<1>11. log' = <<>> /\ ran' = <<>> /\ todo' = todo /\ DOMAIN before' = Sites
  BY <1>2, <1>3, <1>8 DEF history
<1>12. cursor' # <<>> => IsSite(cursor)' /\ cursor'[1] \notin todo' /\ Handled(cursor)'
  <2> SUFFICES ASSUME cursor' # <<>>
               PROVE  IsSite(cursor)' /\ cursor'[1] \notin todo' /\ Handled(cursor)'
    OBVIOUS
  <2>1. IsSite(d)' /\ Handled(d)' /\ d[1] \notin todo
    BY <1>3, <1>5, <1>8, <1>9, <1>10
  <2>2. IsSite(cursor)' /\ Handled(cursor)'
    BY <1>8, <2>1 DEF IsSite, Place, Handled, Skipped, StartOf
  <2>3. QED
    BY <1>8, <1>11, <2>1, <2>2
<1>13. ASSUME NEW s \in Sites
       PROVE  /\ Pending(s) <=> s[1] \in todo \/ (s[1] = c[1] /\ ahead(s, c))
              /\ Pending(s)' <=> s[1] \in todo \/ (s[1] = c[1] /\ ahead(s, d))
  <2>1. Pending(s) <=> s[1] \in todo \/ (s[1] = c[1] /\ ahead(s, c))
    BY <1>2, <1>5 DEF Pending
  <2>2. Pending(s)' <=> s[1] \in todo' \/ (cursor' # <<>> /\ s[1] = cursor'[1] /\
                          (s[2] > cursor'[2] \/ (s[2] = cursor'[2] /\ s[3] >= cursor'[3])))
    BY DEF Pending
  <2>3. d # <<>> => d[1] = c[1]
    BY <1>9
  <2>4. QED
    BY <1>8, <1>11, <2>1, <2>2, <2>3
<1> HIDE DEF ahead
<1>14. ahead(c, c)
  <2>1. c[2] \in Nat /\ c[3] \in Nat /\ c # <<>>
    BY DEF Place
  <2>2. QED
    BY <2>1 DEF ahead
<1>15. before[c] = <<>> /\ Own(c) = Calls(Ins(c)) /\ before'[c] = Own(c)
  <2>1. Own(c) = Calls(Ins(c))
    BY <1>6 DEF Own
  <2>2. Calls(Ins(c)) \in Seq(Fit(Ins(c)))
    BY <1>1, <1>6, SiteFacts, CallsFit
  <2>3. before[c] = <<>>
    BY <1>3, <1>6, <1>13, <1>14
  <2>4. before'[c] = <<>> \o Calls(Ins(c))
    BY <1>3, <1>6, <1>8, <2>3
  <2>5. QED
    BY <2>1, <2>2, <2>3, <2>4
<1>16. ASSUME NEW s \in Sites
       PROVE  before'[s] = IF Pending(s)' THEN <<>> ELSE Own(s)
  <2>1. s # c => before'[s] = before[s]
    BY <1>3, <1>8
  <2>2. CASE s = c
    <3>1. ~ahead(s, d)
      BY <1>6, <1>9, <2>2
    <3>2. ~Pending(s)'
      BY <1>3, <1>5, <1>13, <2>2, <3>1
    <3>3. QED
      BY <1>15, <2>2, <3>2
  <2>3. CASE s # c
    <3>1. Pending(s)' => Pending(s)
      BY <1>9, <1>13
    <3>2. Pending(s) /\ ~Pending(s)' => Own(s) = <<>>
      BY <1>9, <1>13, <2>3
    <3>3. QED
      BY <1>3, <2>1, <2>3, <3>1, <3>2
  <2>4. QED
    BY <2>2, <2>3
<1>17. \A s \in Sites' : before'[s] = IF Pending(s)' THEN <<>> ELSE Own(s)'
  BY <1>10, <1>16
<1>18. Rewriting'
  BY <1>3, <1>10, <1>11, <1>12, <1>17 DEF Rewriting
<1>19. QED
  BY <1>4, <1>18 DEF IInv

LEMMA FinishModuleStep == IInv /\ FinishModule => IInv'
<1> SUFFICES ASSUME IInv, FinishModule
             PROVE  IInv'
  OBVIOUS
<1>1. Frames /\ Records /\ Rewriting /\ Given
  BY DEF IInv, Frames
<1>2. /\ phase = "rewriting" /\ cursor = <<>> /\ todo = {} /\ UNCHANGED <<given, loop, history>>
      /\ before' = [s \in Sites |-> RunOnModule(before[s], s)]
  BY DEF FinishModule
<1>3. PICK p : /\ p = IF "_GLOBAL__sub_I_" \in DOMAIN prog THEN "constructors" ELSE "main"
               /\ Start(p)
  BY DEF FinishModule
<1>4. p \in {"constructors", "main"}
  BY <1>3
<1>5. log = <<>> /\ ran = <<>> /\ \A s \in Sites : before[s] = IF Pending(s) THEN <<>> ELSE Own(s)
  BY <1>1, <1>2 DEF Rewriting
<1>6. log' = <<>> /\ ran' = <<>> /\ prog' = prog /\ pass' = pass /\ cursor' = <<>>
  BY <1>2, <1>5 DEF history, given, loop
<1>7. MainFunc \in DOMAIN prog /\ First \in Nat \ {0}
  BY <1>1, FirstFacts
<1>8. PICK r \in DOMAIN prog : r = Root(p)
  BY <1>3, <1>7 DEF Root
<1>9. stack' = <<<<r, 1, 1>>>> /\ phase' = p
  BY <1>3, <1>8 DEF Start
<1>10. IsSite(<<r, 1, 1>>) /\ <<r, 1, 1>> \in Place
  BY <1>1, EntryFacts DEF IsSite
<1>11. r = MainFunc => p = "main"
  BY <1>4, <1>8 DEF Root, MainFunc, MainOf
<1>12. stack' \in Seq(Place) /\ DOMAIN stack' = {1} /\ stack'[1] = <<r, 1, 1>> /\ stack' # <<>>
  BY <1>9, <1>10
<1>13. /\ Place' = Place /\ First' = First /\ Entry' = Entry /\ MainFunc' = MainFunc /\ Given' /\ Sites' = Sites
  BY <1>1, <1>6 DEF Place, First, Entry, MainFunc, Given, Sites
<1>14. Written'
  <2>1. ASSUME NEW s \in Sites
        PROVE  before'[s] = Inserted(s)
    <3>1. ~Pending(s)
      BY <1>2 DEF Pending
    <3>2. before[s] = Own(s)
      BY <1>5, <3>1
    <3>3. QED
      BY <1>2, <3>2 DEF Inserted
  <2>2. ASSUME NEW s
        PROVE  Inserted(s)' = Inserted(s)
    BY <1>6 DEF Inserted, Own, Handled, Skipped, StartOf, Calls, RunOnModule, AtEntry, AtReturn, Ins, MainFunc
  <2>3. QED
    BY <1>6, <1>13, <2>1, <2>2 DEF Written
<1>15. Frames'
  <2>1. \A k \in DOMAIN stack' :
          /\ IsSite(stack'[k])
          /\ k = 1
          /\ stack'[k][1] = MainFunc => phase' = "main"
    BY <1>9, <1>10, <1>11, <1>12
  <2>2. Running' /\ phase' \in Phases
    BY <1>4, <1>9 DEF Running, Phases
  <2>3. stack' \in Seq(Place')
    BY <1>12, <1>13
  <2>4. QED
    BY <1>6, <1>12, <1>13, <1>14, <2>1, <2>2, <2>3 DEF Frames, IsSite, Place
<1>16. Records'
  BY <1>6 DEF Records, Conditions
<1>17. Early' /\ NoMain'
  BY <1>6 DEF Early, NoMain
<1>18. p = "main" => Before'
  <2> SUFFICES ASSUME p = "main"
               PROVE  Before'
    OBVIOUS
  <2>1. stack' = <<<<MainFunc, 1, 1>>>>
    BY <1>8, <1>9 DEF Root
  <2>2. First = 1 \/ 1 \in 1 .. First - 1
    BY <1>7
  <2>3. stack' = <<Entry'>> \/ \E j \in 1 .. First' - 1 : stack' = <<<<MainFunc', 1, j>>>>
    BY <1>13, <2>1, <2>2 DEF Entry
  <2>4. QED
    BY <1>17, <2>3 DEF Before, Quiet
<1>19. QED
  BY <1>4, <1>9, <1>15, <1>16, <1>17, <1>18 DEF IInv, Progress, Rewriting

-----------------------------------------------------------------------------
(* The invariant holds. *)

LEMMA InitEstablishes == Init => IInv
<1> SUFFICES ASSUME Init
             PROVE  IInv
  OBVIOUS
<1>1. /\ pass \in Passes /\ prog \in Programs
      /\ before = [s \in Sites |-> <<>>] /\ todo = DOMAIN prog /\ cursor = <<>>
      /\ phase = "rewriting" /\ stack = <<>> /\ log = <<>> /\ ran = <<>>
  BY DEF Init
<1>2. Given
  BY <1>1 DEF Given
<1>3. Frames
  BY <1>1, <1>2 DEF Frames, Phases, Running
<1>4. Records
  BY <1>1 DEF Records, Conditions
<1>5. Progress
  BY <1>1 DEF Progress, NoMain
<1>6. \A s \in Sites : Pending(s)
  BY <1>1, <1>2, SitesAre DEF Pending, IsSite, Place
<1>7. Rewriting
  BY <1>1, <1>6 DEF Rewriting
<1>8. QED
  BY <1>3, <1>4, <1>5, <1>7 DEF IInv

LEMMA NextPreserves == IInv /\ [Next]_vars => IInv'
<1> SUFFICES ASSUME IInv, [Next]_vars
             PROVE  IInv'
  OBVIOUS
<1>1. CASE UNCHANGED vars
  <2>1. UNCHANGED <<given, before, loop, stack, phase, history>>
    BY <1>1 DEF vars
  <2>2. Frames /\ Records /\ Progress /\ Rewriting
    BY DEF IInv
  <2>3. UNCHANGED <<pass, prog, before, todo, cursor, stack, phase, log, ran>>
    BY <2>1 DEF given, loop, history
  <2>4. Given' /\ Place' = Place /\ Tellings' = Tellings /\ Ran' = Ran
    BY <2>2, <2>3 DEF Frames, Given, Place, Tellings, Ran
  <2>5. phase # "rewriting" => Written'
    BY <2>1, <2>2, StaysWritten DEF Frames
  <2>6. Frames'
    BY <2>2, <2>3, <2>4, <2>5 DEF Frames, Running, IsSite, Ins, MainFunc
  <2>7. Records' /\ Progress'
    BY <2>2, <2>3, <2>4 DEF Records, Conditions, Progress, Early, NoMain, Before, Quiet, Entry, First, MainFunc,
       Done, Reached, Past, Here, AtLeast
  <2>8. Rewriting'
    <3>1. /\ Sites' = Sites
          /\ \A s : (Own(s)' = Own(s)) /\ (IsSite(s)' <=> IsSite(s)) /\ (Handled(s)' <=> Handled(s))
      BY <2>1, Fixed
    <3>2. \A s : Pending(s)' <=> Pending(s)
      BY <2>3 DEF Pending
    <3>3. IsSite(cursor) /\ Handled(cursor) => IsSite(cursor)' /\ Handled(cursor)'
      BY <2>3 DEF IsSite, Place, Handled, Skipped, StartOf
    <3>4. QED
      BY <2>2, <2>3, <3>1, <3>2, <3>3 DEF Rewriting
  <2>9. QED
    BY <2>6, <2>7, <2>8 DEF IInv
<1>2. CASE Rewrite
  BY <1>2, RunOnFunctionStep, VisitStep, FinishModuleStep DEF Rewrite
<1>3. CASE Step
  BY <1>3, StraightStep, OutsideStep, EnterStep, BranchStep, ReturnStep, ExitStep, ThrowStep DEF Step
<1>4. QED
  BY <1>1, <1>2, <1>3 DEF Next

LEMMA Invariance == Spec => []IInv
<1>1. QED
  BY InitEstablishes, NextPreserves, PTL DEF Spec

\* A run never leaves the program's instructions, whatever it calls, throws or
\* returns to, and the library is given a condition exactly where the branch
\* pass asked for one (BranchProfiling.cpp:107-113).
THEOREM InstrumentationTypeOK == Spec => []TypeOK
<1>1. IInv => TypeOK
  <2> SUFFICES ASSUME IInv
               PROVE  TypeOK
    OBVIOUS
  <2>1. (Running <=> stack # <<>>) /\ Given /\ phase \in Phases /\ stack \in Seq(Place)
    BY DEF IInv, Frames
  <2>2. \A k \in DOMAIN stack : stack[k] \in Sites
    BY <2>1, SitesAre DEF IInv, Frames
  <2>4. ToSet(stack) \subseteq Sites
    BY <2>1, <2>2 DEF ToSet
  <2>5. cursor = <<>> \/ cursor \in Sites
    BY <2>1, SitesAre DEF IInv, Frames, Written, Rewriting
  <2>3. \A k \in DOMAIN log : (log[k].call = "updateCond") <=> (log[k].arg \in {"true", "false"})
    BY DEF IInv, Records, Conditions
  <2>6. QED
    BY <2>1, <2>3, <2>4, <2>5, Zenon DEF TypeOK
<1>2. QED
  BY <1>1, Invariance, PTL

\* Whatever program is instrumented, once main has begun the library is told
\* nothing before it is initialised, and it is initialised once: init stands
\* before all other calls in main's entry (BranchProfiling.cpp:39-46), which
\* nothing but phi nodes and debug calls precede and to which no branch,
\* exception or call returns.
THEOREM InstrumentationInitializedFirst == Spec => []InitializedFirst
<1>1. IInv => InitializedFirst
  <2> SUFFICES ASSUME IInv, NEW k \in DOMAIN log, log[k].phase # "constructors", log[k].call # "init", ~NoMain
               PROVE  Cardinality({j \in 1..k : log[j].call = "init"}) = 1
    BY DEF InitializedFirst, NoMain
  <2>1. ~Early /\ Progress /\ log \in Seq(Tellings) /\ phase \in Phases
    BY DEF IInv, Early, Records, Frames
  <2>2. Done
    BY <2>1 DEF Progress, Before
  <2>3. PICK m \in DOMAIN log :
          \A j \in DOMAIN log : /\ log[j].call = "init" <=> j = m
                                /\ j < m => log[j].phase = "constructors"
    BY <2>2 DEF Done
  <2>4. DOMAIN log = 1 .. Len(log) /\ Len(log) \in Nat
    BY <2>1, LenProperties
  <2>5. m \in 1 .. k
    BY <2>3, <2>4
  <2>6. {j \in 1..k : log[j].call = "init"} = {m}
    BY <2>3, <2>4, <2>5
  <2>7. QED
    BY <2>6, FS_Singleton
<1>2. QED
  BY <1>1, Invariance, PTL

-----------------------------------------------------------------------------
(* Counting. *)

\* The updates among the calls q stand together and are those of w.
Block(q, w, s, o, p) ==
  /\ q \in Seq(Says) /\ DOMAIN w = 1 .. Len(w) /\ Len(w) \in Nat
  /\ \E off \in Nat :
       /\ off + Len(w) <= Len(q)
       /\ \A k \in DOMAIN q : q[k].call \in Updates <=> k \in off + 1 .. off + Len(w)
       /\ \A i \in 1 .. Len(w) : w[i] = Heard(q[off + i], s, o, p)

\* Calls of init and print around a block do not matter.
LEMMA BlockBehind ==
    ASSUME NEW q, NEW w, NEW s, NEW o, NEW p, Block(q, w, s, o, p), NEW c \in Says, c.call \notin Updates
    PROVE  Block(<<c>> \o q, w, s, o, p)
<1> DEFINE t == <<c>> \o q
<1>1. q \in Seq(Says) /\ DOMAIN q = 1 .. Len(q) /\ Len(q) \in Nat /\ DOMAIN w = 1 .. Len(w) /\ Len(w) \in Nat
  BY LenProperties DEF Block
<1>2. PICK off \in Nat :
        /\ off + Len(w) <= Len(q)
        /\ \A k \in DOMAIN q : q[k].call \in Updates <=> k \in off + 1 .. off + Len(w)
        /\ \A i \in 1 .. Len(w) : w[i] = Heard(q[off + i], s, o, p)
  BY DEF Block
<1>3. /\ t \in Seq(Says) /\ Len(t) = Len(q) + 1 /\ DOMAIN t = 1 .. Len(q) + 1 /\ t[1] = c
      /\ \A k \in 2 .. Len(q) + 1 : t[k] = q[k - 1]
  BY <1>1
<1> HIDE DEF t
<1>4. ASSUME NEW k \in DOMAIN t
      PROVE  t[k].call \in Updates <=> k \in (off + 1) + 1 .. (off + 1) + Len(w)
  <2>1. CASE k = 1
    BY <1>1, <1>3, <2>1
  <2>2. CASE k # 1
    <3>1. k - 1 \in DOMAIN q /\ t[k] = q[k - 1]
      BY <1>1, <1>3, <2>2
    <3>2. q[k - 1].call \in Updates <=> k - 1 \in off + 1 .. off + Len(w)
      BY <1>2, <3>1
    <3>3. k - 1 \in off + 1 .. off + Len(w) <=> k \in (off + 1) + 1 .. (off + 1) + Len(w)
      BY <1>1, <1>3
    <3>4. QED
      BY <3>1, <3>2, <3>3
  <2>3. QED
    BY <2>1, <2>2
<1>5. ASSUME NEW i \in 1 .. Len(w)
      PROVE  w[i] = Heard(t[(off + 1) + i], s, o, p)
  <2>1. (off + 1) + i \in 2 .. Len(q) + 1 /\ (off + 1) + i - 1 = off + i
    BY <1>1, <1>2
  <2>2. t[(off + 1) + i] = q[off + i]
    BY <1>3, <2>1
  <2>3. QED
    BY <1>2, <2>2
<1>6. (off + 1) + Len(w) <= Len(t) /\ off + 1 \in Nat
  BY <1>1, <1>2, <1>3
<1>7. QED
  BY <1>1, <1>3, <1>4, <1>5, <1>6 DEF Block, t

LEMMA BlockBefore ==
    ASSUME NEW q, NEW w, NEW s, NEW o, NEW p, Block(q, w, s, o, p), NEW c \in Says, c.call \notin Updates
    PROVE  Block(q \o <<c>>, w, s, o, p)
<1> DEFINE t == q \o <<c>>
<1>1. q \in Seq(Says) /\ DOMAIN q = 1 .. Len(q) /\ Len(q) \in Nat /\ DOMAIN w = 1 .. Len(w) /\ Len(w) \in Nat
  BY LenProperties DEF Block
<1>2. PICK off \in Nat :
        /\ off + Len(w) <= Len(q)
        /\ \A k \in DOMAIN q : q[k].call \in Updates <=> k \in off + 1 .. off + Len(w)
        /\ \A i \in 1 .. Len(w) : w[i] = Heard(q[off + i], s, o, p)
  BY DEF Block
<1>3. /\ t \in Seq(Says) /\ Len(t) = Len(q) + 1 /\ DOMAIN t = 1 .. Len(q) + 1 /\ t[Len(q) + 1] = c
      /\ \A k \in 1 .. Len(q) : t[k] = q[k]
  BY <1>1
<1> HIDE DEF t
<1>4. ASSUME NEW k \in DOMAIN t
      PROVE  t[k].call \in Updates <=> k \in off + 1 .. off + Len(w)
  <2>1. CASE k = Len(q) + 1
    BY <1>1, <1>2, <1>3, <2>1
  <2>2. CASE k # Len(q) + 1
    <3>1. k \in DOMAIN q /\ t[k] = q[k]
      BY <1>1, <1>3, <2>2
    <3>2. QED
      BY <1>2, <3>1
  <2>3. QED
    BY <2>1, <2>2
<1>5. ASSUME NEW i \in 1 .. Len(w)
      PROVE  w[i] = Heard(t[off + i], s, o, p)
  <2>1. off + i \in 1 .. Len(q)
    BY <1>1, <1>2
  <2>2. t[off + i] = q[off + i]
    BY <1>3, <2>1
  <2>3. QED
    BY <1>2, <2>2
<1>6. off + Len(w) <= Len(t)
  BY <1>1, <1>2, <1>3
<1>7. QED
  BY <1>1, <1>3, <1>4, <1>5, <1>6 DEF Block, t

\* No update, or n times the same one.
LEMMA BlockEmpty == \A s, o, p : Block(<<>>, <<>>, s, o, p)
<1> TAKE s, o, p
<1>1. 0 \in Nat /\ 0 + Len(<<>>) <= Len(<<>>)
  OBVIOUS
<1>2. QED
  BY <1>1 DEF Block

LEMMA BlockOf ==
    ASSUME NEW s, NEW o, NEW p, NEW c \in Says, c.call \in Updates, NEW n \in Nat
    PROVE  Block([k \in 1 .. n |-> c], [k \in 1 .. n |-> Heard(c, s, o, p)], s, o, p)
<1> DEFINE q == [k \in 1 .. n |-> c]
           w == [k \in 1 .. n |-> Heard(c, s, o, p)]
<1>1. q \in Seq(Says) /\ Len(q) = n /\ DOMAIN q = 1 .. n /\ \A k \in 1 .. n : q[k] = c
  OBVIOUS
<1>2. DOMAIN w = 1 .. n /\ \A i \in 1 .. n : w[i] = Heard(c, s, o, p)
  OBVIOUS
<1>3. Len(w) = n
  <2>1. w \in Seq({Heard(c, s, o, p)})
    OBVIOUS
  <2> HIDE DEF w
  <2>2. QED
    BY <1>2, <2>1, LenProperties
<1> HIDE DEF q, w
<1>4. \A k \in DOMAIN q : q[k].call \in Updates <=> k \in 0 + 1 .. 0 + Len(w)
  BY <1>1, <1>3
<1>5. \A i \in 1 .. Len(w) : w[i] = Heard(q[0 + i], s, o, p)
  BY <1>1, <1>2, <1>3
<1>6. 0 \in Nat /\ 0 + Len(w) <= Len(q)
  BY <1>1, <1>3
<1>7. QED
  BY <1>1, <1>2, <1>3, <1>4, <1>5, <1>6 DEF Block, q, w

LEMMA BlockOne ==
    ASSUME NEW s, NEW o, NEW p, NEW c \in {"update", "updateCond"}, NEW a \in Op \cup {"nothing", "condition"}
    PROVE  Block(Call(c, a), <<[call |-> c, at |-> s, phase |-> p, arg |-> IF a = "condition" THEN o ELSE a]>>, s, o, p)
<1> DEFINE r == [call |-> c, arg |-> a]
<1>1. r \in Says /\ r.call \in Updates
  BY DEF Says, Updates
<1>2. Heard(r, s, o, p) = [call |-> c, at |-> s, phase |-> p, arg |-> IF a = "condition" THEN o ELSE a]
  BY DEF Heard
<1>3. Block([k \in 1 .. 1 |-> r], [k \in 1 .. 1 |-> Heard(r, s, o, p)], s, o, p)
  <2> HIDE DEF r
  <2>1. QED
    BY <1>1, BlockOf
<1>4. Call(c, a) = [k \in 1 .. 1 |-> r]
  BY DEF Call
<1>5. <<Heard(r, s, o, p)>> = [k \in 1 .. 1 |-> Heard(r, s, o, p)]
  OBVIOUS
<1>6. QED
  BY <1>2, <1>3, <1>4, <1>5

\* Whatever the pass, its calls in front of an instruction are the updates it is
\* meant to make, with at most a print.
LEMMA InsertedMatches ==
    ASSUME Given, NEW s, IsSite(s), NEW o \in Outcomes, NEW p
    PROVE  Block(Inserted(s), Wanted([at |-> s, outcome |-> o, phase |-> p]), s, o, p)
<1> DEFINE r   == [at |-> s, outcome |-> o, phase |-> p]
           w   == Wanted(r)
           f   == s[1]
           ins == Ins(s)
           G(q) == Block(q, w, s, o, p)
           up(c, a) == <<[call |-> c, at |-> s, phase |-> p, arg |-> a]>>
           any == \/ ins.op \in {"load", "store", "other", "ret", "br", "condbr", "unreachable"}
                  \/ ins.op = "call" /\ (ins.callee \in {"exit", "f90_stop08a", "quit_flag_"} \/ ins.callee = Indirect)
           print == [call |-> "print", arg |-> "nothing"]
           init == [call |-> "init", arg |-> "nothing"]
<1>1. /\ ins.op \in Op /\ ins.values \in Nat
      /\ pass \in {"branch", "inst", "data", "old", "operands"}
  BY SiteFacts, ProgramAssumption DEF Given
<1>2. print \in Says /\ print.call \notin Updates /\ init \in Says /\ init.call \notin Updates
  BY DEF Says, Updates
<1>3. /\ pass = "branch" =>
           w = IF ins.op = "condbr" THEN up("updateCond", o)
               ELSE IF ins.op = "br" THEN up("update", "nothing") ELSE <<>>
      /\ pass # "branch" /\ Startup(f) => w = <<>>
      /\ ~Startup(f) =>
           /\ pass = "inst" => w = IF any THEN up("update", Opcode(ins)) ELSE <<>>
           /\ pass = "data" => w = IF ins.op \in {"load", "store"} THEN up("update", ins.op) ELSE <<>>
           /\ pass = "old" => w = IF ins.op \in {"load", "store"} THEN up("update", "nothing") ELSE <<>>
           /\ pass = "operands" => w = IF any THEN [k \in 1..ins.values |-> up("update", "nothing")[1]] ELSE <<>>
  <2>1. r.at = s /\ r.outcome = o /\ r.phase = p
    OBVIOUS
  <2> HIDE DEF r
  <2>2. CASE pass = "branch"
    BY <2>1, <2>2 DEF Wanted
  <2>3. CASE pass # "branch" /\ Startup(f)
    <3>1. r.at[1] \in {"__cxx_global_var_init", "_GLOBAL__sub_I_"}
      BY <2>1, <2>3 DEF Startup
    <3>2. QED
      BY <2>3, <3>1 DEF Wanted
  <2>4. ~Startup(f) => r.at[1] \notin {"__cxx_global_var_init", "_GLOBAL__sub_I_"}
    BY <2>1 DEF Startup
  <2>5. CASE pass = "inst" /\ ~Startup(f)
    BY <2>1, <2>4, <2>5 DEF Wanted, Opcode
  <2>6. CASE pass = "data" /\ ~Startup(f)
    BY <2>1, <2>4, <2>6 DEF Wanted
  <2>7. CASE pass = "old" /\ ~Startup(f)
    BY <2>1, <2>4, <2>7 DEF Wanted
  <2>8. CASE pass = "operands" /\ ~Startup(f)
    BY <2>1, <2>4, <2>8 DEF Wanted
  <2>9. QED
    BY <1>1, <2>2, <2>3, <2>5, <2>6, <2>7, <2>8
<1>4. w = <<>> => G(<<>>)
  BY BlockEmpty
<1>5. w = <<>> => G(Call("print", "nothing"))
  <2>1. w = <<>> => G(<<print>> \o <<>>)
    BY <1>2, <1>4, BlockBehind
  <2>2. <<print>> \o <<>> = Call("print", "nothing")
    BY DEF Call
  <2>3. QED
    BY <2>1, <2>2
<1>6. ins.op # "condition" /\ Opcode(ins) \in Op /\ Opcode(ins) # "condition"
  BY <1>1 DEF Op, Terminator, Opcode
<1>7. ASSUME NEW a \in Op \cup {"nothing"}, w = up("update", a)
      PROVE  G(Call("update", a))
  <2>1. a # "condition"
    BY DEF Op, Terminator
  <2>2. Block(Call("update", a), <<[call |-> "update", at |-> s, phase |-> p, arg |-> a]>>, s, o, p)
    BY <2>1, BlockOne
  <2>3. QED
    BY <1>7, <2>2
<1>8. ASSUME w = up("updateCond", o)
      PROVE  G(Call("updateCond", "condition"))
  <2>1. Block(Call("updateCond", "condition"), <<[call |-> "updateCond", at |-> s, phase |-> p, arg |-> o]>>, s, o, p)
    BY BlockOne
  <2>2. QED
    BY <1>8, <2>1
<1>9. ASSUME w = [k \in 1..ins.values |-> up("update", "nothing")[1]]
      PROVE  G([k \in 1..ins.values |-> [call |-> "update", arg |-> "nothing"]])
  <2> DEFINE c == [call |-> "update", arg |-> "nothing"]
  <2>1. c \in Says /\ c.call \in Updates
    BY DEF Says, Updates
  <2>2. up("update", "nothing")[1] = Heard(c, s, o, p)
    BY DEF Heard
  <2>3. w = [k \in 1..ins.values |-> Heard(c, s, o, p)]
    BY <1>9, <2>2
  <2> HIDE DEF c
  <2>4. Block([k \in 1..ins.values |-> c], [k \in 1..ins.values |-> Heard(c, s, o, p)], s, o, p)
    BY <1>1, <2>1, BlockOf
  <2>5. QED
    BY <2>3, <2>4 DEF c
<1>10. \A q : G(q) => G(Call("print", "nothing") \o q)
  <2> SUFFICES ASSUME NEW q, G(q)
               PROVE  G(Call("print", "nothing") \o q)
    OBVIOUS
  <2>1. G(<<print>> \o q)
    BY <1>2, BlockBehind
  <2>2. QED
    BY <2>1 DEF Call
<1>11. PrintsAt(ins) => ins.op = "call"
  BY DEF PrintsAt
<1>12. ASSUME NEW u, G(u), Inserted(s) = RunOnModule(u, s)
       PROVE  G(Inserted(s))
  <2>1. u \in Seq(Says)
    BY <1>12 DEF Block
  <2>2. G(AtEntry(s) \o u)
    <3>1. AtEntry(s) = <<>> \/ AtEntry(s) = <<init>>
      BY DEF AtEntry, Call
    <3>2. G(<<init>> \o u)
      BY <1>2, <1>12, BlockBehind
    <3>3. <<>> \o u = u
      BY <2>1
    <3>4. QED
      BY <1>12, <3>1, <3>2, <3>3
  <2>3. PICK v : v = AtEntry(s) \o u
    OBVIOUS
  <2>4. G(v) /\ v \in Seq(Says)
    BY <2>2, <2>3 DEF Block
  <2>5. G(v \o AtReturn(s))
    <3>1. AtReturn(s) = <<>> \/ AtReturn(s) = <<print>>
      BY DEF AtReturn, Call
    <3>2. G(v \o <<print>>)
      BY <1>2, <2>4, BlockBefore
    <3>3. v \o <<>> = v
      BY <2>4
    <3>4. QED
      BY <2>4, <3>1, <3>2, <3>3
  <2>6. QED
    BY <1>12, <2>3, <2>5 DEF RunOnModule
<1>13. any <=> ~Passed(ins) /\ ins.op # "landingpad"
  <2>1. ins.op \in {"ret", "br", "condbr", "invoke", "unreachable", "phi", "landingpad", "load", "store", "other", "call"}
    BY <1>1 DEF Op, Terminator
  <2> HIDE DEF ins
  <2>2. QED
    BY <2>1 DEF Passed, ExitLike
<1>14. pass # "branch" => (Handled(s) <=> ~Startup(f) /\ ins.op \notin {"phi", "landingpad"})
  <2> SUFFICES ASSUME pass # "branch"
               PROVE  Handled(s) <=> ~Startup(f) /\ ins.op \notin {"phi", "landingpad"}
    OBVIOUS
  <2>1. f \in DOMAIN prog /\ s[2] \in DOMAIN prog[f] /\ s[3] \in DOMAIN prog[f][s[2]] /\ s[3] \in Nat
    BY DEF IsSite, Place
  <2>2. StartOf(f, s[2]) \in Nat /\ (ins.op \in {"phi", "landingpad"} <=> s[3] < StartOf(f, s[2]))
    BY <2>1, StartFacts DEF Ins
  <2>3. s[3] >= StartOf(f, s[2]) <=> ~(s[3] < StartOf(f, s[2]))
    BY <2>1, <2>2
  <2>4. QED
    BY <2>2, <2>3 DEF Handled, Skipped
<1>15. pass = "branch" => Handled(s)
  <2>1. s[1] \in DOMAIN prog /\ s[2] \in DOMAIN prog[s[1]]
    BY DEF IsSite, Place
  <2>2. pass = "branch" => StartOf(s[1], s[2]) = 1
    BY <2>1, StartFacts
  <2>3. s[3] >= 1
    BY SiteFacts
  <2>4. QED
    BY <2>2, <2>3 DEF Handled, Skipped
<1> HIDE DEF G, w, ins, up, f, any
<1>16. pass = "branch" => G(BranchCalls(ins))
  BY <1>3, <1>4, <1>5, <1>7, <1>8, <1>11 DEF BranchCalls
<1>17. pass = "inst" /\ Handled(s) => G(InstCalls(ins))
  <2> SUFFICES ASSUME pass = "inst" /\ Handled(s)
               PROVE  G(InstCalls(ins))
    OBVIOUS
  <2>1. CASE Passed(ins)
    BY <1>3, <1>4, <1>13, <1>14, <2>1 DEF InstCalls
  <2>2. CASE ~Passed(ins)
    <3>1. w = up("update", Opcode(ins))
      BY <1>3, <1>13, <1>14, <2>2
    <3>2. G(Call("update", Opcode(ins)))
      BY <1>6, <1>7, <3>1
    <3>3. Call("update", Opcode(ins)) \in Seq(Says)
      BY <3>2 DEF G, Block
    <3>4. <<>> \o Call("update", Opcode(ins)) = Call("update", Opcode(ins))
      BY <3>3
    <3>5. G(Call("print", "nothing") \o Call("update", Opcode(ins)))
      BY <1>10, <3>2
    <3>6. QED
      BY <2>2, <3>2, <3>4, <3>5 DEF InstCalls
  <2>3. QED
    BY <2>1, <2>2
<1>18. pass = "data" /\ Handled(s) => G(DataCalls(ins))
  BY <1>1, <1>3, <1>4, <1>5, <1>7, <1>11, <1>14 DEF DataCalls
<1>19. pass = "old" /\ Handled(s) => G(OldDataCalls(ins))
  BY <1>1, <1>3, <1>4, <1>5, <1>7, <1>11, <1>14 DEF OldDataCalls
<1>20. pass = "operands" /\ Handled(s) => G(OperandCalls(ins))
  <2> SUFFICES ASSUME pass = "operands" /\ Handled(s)
               PROVE  G(OperandCalls(ins))
    OBVIOUS
  <2> DEFINE many == [k \in 1..ins.values |-> [call |-> "update", arg |-> "nothing"]]
  <2>1. CASE Passed(ins)
    BY <1>3, <1>4, <1>13, <1>14, <2>1 DEF OperandCalls
  <2>2. CASE ~Passed(ins)
    <3>1. w = [k \in 1..ins.values |-> up("update", "nothing")[1]]
      BY <1>3, <1>13, <1>14, <2>2
    <3>2. G(many)
      BY <1>9, <3>1
    <3> HIDE DEF many
    <3>3. many \in Seq(Says)
      BY <3>2 DEF G, Block
    <3>4. <<>> \o many = many
      BY <3>3
    <3>5. G(Call("print", "nothing") \o many)
      BY <1>10, <3>2
    <3>6. QED
      BY <2>2, <3>2, <3>4, <3>5 DEF OperandCalls, many
  <2>3. QED
    BY <2>1, <2>2
<1>21. ~Handled(s) => w = <<>>
  <2>1. ins.op \in {"phi", "landingpad"} => ~any /\ ins.op \notin {"load", "store"}
    BY <1>13 DEF Passed
  <2>2. QED
    BY <1>1, <1>3, <1>14, <1>15, <2>1
<1>22. G(Own(s))
  <2>1. CASE ~Handled(s)
    BY <1>4, <1>21, <2>1 DEF Own
  <2>2. CASE Handled(s)
    <3>1. Own(s) = Calls(ins)
      BY <2>2 DEF Own, ins
    <3>2. G(Calls(ins))
      BY <1>1, <1>16, <1>17, <1>18, <1>19, <1>20, <2>2 DEF Calls
    <3>3. QED
      BY <3>1, <3>2
  <2>3. QED
    BY <2>1, <2>2
<1>23. G(Inserted(s))
  BY <1>12, <1>22 DEF Inserted
<1>24. QED
  BY <1>23 DEF G, w

\* How many updates precede one, among those told and among those due.
ToldBefore(k) == {j \in Told : j < k}
DueBefore(w) == {v \in Due : Precedes(v, w)}

Counted ==
  /\ IsFiniteSet(Due)
  /\ Cardinality(Told) = Cardinality(Due)
  /\ \A k \in Told : \E w \in Due : /\ Cardinality(DueBefore(w)) = Cardinality(ToldBefore(k))
                                    /\ log[k] = Wanted(ran[w[1]])[w[2]]

LEMMA CountedMeans == Counted => CountsWhatRan
<1> SUFFICES ASSUME Counted
             PROVE  CountsWhatRan
  OBVIOUS
<1> DEFINE place == [w \in Due |-> Cardinality({v \in Due : Precedes(v, w)})]
<1>1. \A w \in Due : place[w] = Cardinality(DueBefore(w))
  BY DEF DueBefore
<1> HIDE DEF place
<1>2. \A k \in Told : \E w \in Due : /\ place[w] = Cardinality({j \in Told : j < k})
                                     /\ log[k] = Wanted(ran[w[1]])[w[2]]
  BY <1>1 DEF Counted, ToldBefore
<1>3. QED
  BY <1>2 DEF Counted, CountsWhatRan, place

\* A set and a set behind it.
LEMMA TwoParts ==
    ASSUME NEW S, IsFiniteSet(S), NEW B, NEW l \in Nat, IsFiniteSet(B), Cardinality(B) = l,
           \A x \in B : x \notin S
    PROVE  IsFiniteSet(S \cup B) /\ Cardinality(S \cup B) = Cardinality(S) + l
<1>1. S \cap B = {}
  OBVIOUS
<1>2. Cardinality(S) \in Nat /\ Cardinality({}) = 0
  BY FS_CardinalityType, FS_EmptySet
<1>3. IsFiniteSet(S \cup B) /\ Cardinality(S \cup B) = Cardinality(S) + Cardinality(B) - Cardinality(S \cap B)
  BY FS_Union, Zenon
<1>4. Cardinality(S \cap B) = 0 /\ Cardinality(B) = l
  BY <1>1, <1>2, Zenon
<1>5. QED
  BY <1>2, <1>3, <1>4

\* One instruction adds as many updates to those told as to those due, at the
\* end of both.
LEMMA CountGrows ==
    ASSUME Frames, Records, Counted, Running, NEW o \in Outcomes, Execute(o)
    PROVE  Counted'
<1> DEFINE q == Inserted(Here)
           n == Len(log)
           m == Len(ran)
           r == [at |-> Here, outcome |-> o, phase |-> phase]
           w == Wanted(r)
           l == Len(w)
<1>1. IsSite(Here) /\ Given
  BY HereFacts DEF Frames
<1>2. Block(q, w, Here, o, phase)
  BY <1>1, InsertedMatches
<1>3. /\ n \in Nat /\ DOMAIN log = 1 .. n /\ DOMAIN log' = 1 .. n + Len(q)
      /\ \A j \in 1 .. n : log'[j] = log[j]
      /\ \A k \in DOMAIN q : log'[n + k] = Heard(q[k], Here, o, phase)
      /\ m \in Nat /\ DOMAIN ran = 1 .. m /\ DOMAIN ran' = 1 .. m + 1
      /\ \A j \in 1 .. m : ran'[j] = ran[j]
      /\ ran'[m + 1] = r
  BY Appended
<1>4. prog' = prog /\ pass' = pass
  BY DEF Execute, given
<1>5. \A x : Wanted(x)' = Wanted(x)
  BY <1>4 DEF Wanted, Ins
<1> HIDE DEF q, r, n, m, w
<1>6. q \in Seq(Says) /\ DOMAIN w = 1 .. l /\ l \in Nat
  BY <1>2 DEF Block
<1>7. DOMAIN q = 1 .. Len(q) /\ Len(q) \in Nat
  BY <1>6, LenProperties
<1>8. PICK off \in Nat :
        /\ off + l <= Len(q)
        /\ \A k \in DOMAIN q : q[k].call \in Updates <=> k \in off + 1 .. off + l
        /\ \A i \in 1 .. l : w[i] = Heard(q[off + i], Here, o, phase)
  BY <1>2 DEF Block
<1> DEFINE a == n + off
<1>9. \A k : Heard(q[k], Here, o, phase).call = q[k].call
  BY DEF Heard
<1> HIDE DEF l
<1>10. Told \subseteq 1 .. n
  BY <1>3 DEF Told
<1>11. Told' = Told \cup (a + 1 .. a + l)
  <2>1. ASSUME NEW k
        PROVE  k \in Told' <=> k \in Told \/ k \in a + 1 .. a + l
    <3>1. CASE k \in 1 .. n
      <4>1. k \in DOMAIN log /\ k \in DOMAIN log' /\ log'[k] = log[k]
        BY <1>3, <1>7, <3>1
      <4>2. k \notin a + 1 .. a + l
        BY <1>3, <3>1
      <4>3. QED
        BY <4>1, <4>2 DEF Told
    <3>2. CASE k \in n + 1 .. n + Len(q)
      <4>1. k - n \in DOMAIN q /\ n + (k - n) = k /\ k \in DOMAIN log' /\ k \notin Told
        BY <1>3, <1>7, <1>10, <3>2
      <4>2. log'[k].call = q[k - n].call
        BY <1>3, <1>9, <4>1
      <4>3. q[k - n].call \in Updates <=> k - n \in off + 1 .. off + l
        BY <1>8, <4>1
      <4>4. k - n \in off + 1 .. off + l <=> k \in a + 1 .. a + l
        BY <1>3, <1>6, <3>2
      <4>5. QED
        BY <4>1, <4>2, <4>3, <4>4 DEF Told
    <3>3. CASE k \notin 1 .. n /\ k \notin n + 1 .. n + Len(q)
      <4>1. k \notin DOMAIN log' /\ k \notin DOMAIN log
        BY <1>3, <1>7, <3>3
      <4>2. k \notin a + 1 .. a + l
        BY <1>3, <1>6, <1>7, <1>8, <3>3
      <4>3. QED
        BY <4>1, <4>2 DEF Told
    <3>4. QED
      BY <3>1, <3>2, <3>3
  <2> HIDE DEF a
  <2>2. QED
    BY <2>1
<1>12. \A v \in Due : v = <<v[1], v[2]>> /\ v[1] \in 1 .. m
  BY <1>3 DEF Due
<1>13. Due' = Due \cup ({m + 1} \X (1 .. l))
  <2>1. Due' = UNION {{j} \X DOMAIN Wanted(ran'[j]) : j \in DOMAIN ran'}
    BY <1>5 DEF Due
  <2>2. ASSUME NEW v
        PROVE  (\E j \in 1 .. m + 1 : v \in {j} \X DOMAIN Wanted(ran'[j]))
               <=> v \in Due \/ v \in {m + 1} \X (1 .. l)
    <3>1. v \in Due <=> \E j \in 1 .. m : v \in {j} \X DOMAIN Wanted(ran'[j])
      BY <1>3 DEF Due
    <3>2. v \in {m + 1} \X (1 .. l) <=> v \in {m + 1} \X DOMAIN Wanted(ran'[m + 1])
      BY <1>3, <1>6 DEF w
    <3>3. \A j : j \in 1 .. m + 1 <=> j \in 1 .. m \/ j = m + 1
      BY <1>3
    <3>4. QED
      BY <3>1, <3>2, <3>3
  <2>3. QED
    BY <1>3, <2>1, <2>2
<1>14. /\ \A i \in 1 .. l : \A v \in {m + 1} \X (1 .. i - 1) : v \notin Due
       /\ \A v \in {m + 1} \X (1 .. l) : v \notin Due
  BY <1>3, <1>12
<1>15. IsFiniteSet(Told) /\ IsFiniteSet(Due) /\ Cardinality(Told) = Cardinality(Due)
  <2>1. IsFiniteSet(1 .. n)
    <3>1. 1 \in Int /\ n \in Int
      BY <1>3
    <3>2. QED
      BY <3>1, FS_Interval, Zenon
  <2>2. IsFiniteSet(Told)
    BY <1>10, <2>1, FS_Subset, Zenon
  <2>3. QED
    BY <2>2 DEF Counted
<1>16. Cardinality(Told) \in Nat
  BY <1>15, FS_CardinalityType
<1>17. ASSUME NEW i \in Nat
       PROVE  /\ IsFiniteSet(a + 1 .. a + i) /\ Cardinality(a + 1 .. a + i) = i
              /\ IsFiniteSet({m + 1} \X (1 .. i)) /\ Cardinality({m + 1} \X (1 .. i)) = i
  <2>1. /\ IsFiniteSet(a + 1 .. a + i)
        /\ Cardinality(a + 1 .. a + i) = IF a + 1 > a + i THEN 0 ELSE (a + i) - (a + 1) + 1
    <3>1. a + 1 \in Int /\ a + i \in Int
      BY <1>3
    <3> HIDE DEF a
    <3>2. QED
      BY <3>1, FS_Interval, Zenon
  <2>2. Cardinality(a + 1 .. a + i) = i
    BY <1>3, <2>1
  <2>3. IsFiniteSet({m + 1} \X (1 .. i)) /\ Cardinality({m + 1} \X (1 .. i)) = i
    BY RowSize
  <2>4. QED
    BY <2>1, <2>2, <2>3
<1>18. \A i : \A k \in a + 1 .. a + i : k \notin Told
  BY <1>3, <1>10
<1>19. /\ IsFiniteSet(Due') /\ Cardinality(Told') = Cardinality(Due')
  <2>1. Cardinality(Told \cup (a + 1 .. a + l)) = Cardinality(Told) + l
    BY <1>6, <1>15, <1>17, <1>18, TwoParts
  <2>2. /\ IsFiniteSet(Due \cup ({m + 1} \X (1 .. l)))
        /\ Cardinality(Due \cup ({m + 1} \X (1 .. l))) = Cardinality(Due) + l
    <3>1. PICK B : B = {m + 1} \X (1 .. l)
      OBVIOUS
    <3>2. IsFiniteSet(B) /\ Cardinality(B) = l /\ \A v \in B : v \notin Due
      BY <1>6, <1>14, <1>17, <3>1
    <3>3. IsFiniteSet(Due \cup B) /\ Cardinality(Due \cup B) = Cardinality(Due) + l
      BY <1>6, <1>15, <3>2, TwoParts, Zenon
    <3>4. QED
      BY <3>1, <3>3
  <2>3. QED
    BY <1>11, <1>13, <1>15, <2>1, <2>2
<1>20. ASSUME NEW k \in Told'
       PROVE  \E v \in Due' : /\ Cardinality({x \in Due' : Precedes(x, v)}) = Cardinality({j \in Told' : j < k})
                              /\ log'[k] = Wanted(ran'[v[1]])[v[2]]
  <2>1. CASE k \in Told
    <3>1. PICK v \in Due : /\ Cardinality(DueBefore(v)) = Cardinality(ToldBefore(k))
                           /\ log[k] = Wanted(ran[v[1]])[v[2]]
      BY <2>1 DEF Counted
    <3>2. k \in 1 .. n /\ v[1] \in 1 .. m
      BY <1>10, <1>12, <2>1, <3>1
    <3>3. {j \in Told' : j < k} = ToldBefore(k)
      BY <1>3, <1>11, <3>2 DEF ToldBefore
    <3>4. {x \in Due' : Precedes(x, v)} = DueBefore(v)
      <4>1. \A x \in {m + 1} \X (1 .. l) : ~Precedes(x, v)
        BY <1>3, <3>2 DEF Precedes
      <4>2. QED
        BY <1>13, <4>1 DEF DueBefore
    <3>5. log'[k] = log[k] /\ ran'[v[1]] = ran[v[1]]
      BY <1>3, <3>2
    <3>6. v \in Due'
      BY <1>13
    <3>7. QED
      BY <3>1, <3>3, <3>4, <3>5, <3>6
  <2>2. CASE k \in a + 1 .. a + l
    <3>1. PICK i \in 1 .. l : k = a + i
      <4>1. k - a \in 1 .. l /\ k = a + (k - a)
        BY <1>3, <1>6, <2>2
      <4>2. QED
        BY <4>1
    <3> DEFINE v == <<m + 1, i>>
    <3>2. v \in Due' /\ i - 1 \in Nat
      BY <1>6, <1>13
    <3>3. {j \in Told' : j < k} = Told \cup (a + 1 .. a + (i - 1))
      <4>1. \A j \in Told : j < k
        BY <1>3, <1>10, <3>1
      <4>2. \A j : j \in a + 1 .. a + l /\ j < k <=> j \in a + 1 .. a + (i - 1)
        BY <1>3, <1>6, <3>1
      <4> HIDE DEF a
      <4>3. QED
        BY <1>11, <4>1, <4>2
    <3>4. {x \in Due' : Precedes(x, v)} = Due \cup ({m + 1} \X (1 .. i - 1))
      <4>1. \A x \in Due : Precedes(x, v)
        BY <1>3, <1>12 DEF Precedes
      <4>2. \A x : x \in {m + 1} \X (1 .. l) /\ Precedes(x, v) <=> x \in {m + 1} \X (1 .. i - 1)
        BY <1>3, <1>6 DEF Precedes
      <4>3. QED
        BY <1>13, <4>1, <4>2
    <3>5. Cardinality(Told \cup (a + 1 .. a + (i - 1))) = Cardinality(Told) + (i - 1)
      BY <1>15, <1>17, <1>18, <3>2, TwoParts
    <3>6. Cardinality(Due \cup ({m + 1} \X (1 .. i - 1))) = Cardinality(Due) + (i - 1)
      <4>1. PICK B : B = {m + 1} \X (1 .. i - 1)
        OBVIOUS
      <4>2. IsFiniteSet(B) /\ Cardinality(B) = i - 1 /\ \A x \in B : x \notin Due
        BY <1>14, <1>17, <3>2, <4>1
      <4>3. QED
        BY <1>15, <3>2, <4>1, <4>2, TwoParts, Zenon
    <3>7. log'[k] = w[i]
      <4>1. off + i \in DOMAIN q /\ n + (off + i) = k
        BY <1>3, <1>6, <1>7, <1>8, <3>1
      <4>2. log'[n + (off + i)] = Heard(q[off + i], Here, o, phase)
        BY <1>3, <4>1
      <4>3. QED
        BY <1>8, <4>1, <4>2
    <3>8. ran'[v[1]] = r /\ v[2] = i
      BY <1>3
    <3>9. QED
      BY <1>15, <3>2, <3>3, <3>4, <3>5, <3>6, <3>7, <3>8 DEF w
  <2>3. QED
    BY <1>11, <2>1, <2>2
<1>21. QED
  <2>1. \A v : DueBefore(v)' = {x \in Due' : Precedes(x, v)}
    BY DEF DueBefore, Precedes
  <2>2. \A k : ToldBefore(k)' = {j \in Told' : j < k}
    BY DEF ToldBefore
  <2>3. QED
    BY <1>5, <1>19, <1>20, <2>1, <2>2 DEF Counted

\* Every step executes one instruction.
LEMMA StepExecutes ==
    ASSUME Step
    PROVE  \E o \in Outcomes : Running /\ Execute(o)
<1>1. {"nothing", "true", "false", "exit"} \subseteq Outcomes
  BY DEF Outcomes
<1>2. CASE Straight
  BY <1>1, <1>2 DEF Straight
<1>3. CASE Outside
  BY <1>1, <1>3 DEF Outside, Calling
<1>4. CASE Enter
  BY <1>1, <1>4 DEF Enter, Calling
<1>5. CASE Branch
  <2>1. PICK k \in DOMAIN Now.to :
          Execute(IF Now.op = "br" THEN "nothing" ELSE IF k = 1 THEN "true" ELSE "false")
    BY <1>5 DEF Branch
  <2>2. PICK o \in Outcomes : o = IF Now.op = "br" THEN "nothing" ELSE IF k = 1 THEN "true" ELSE "false"
    BY <1>1
  <2>3. QED
    BY <1>5, <2>1, <2>2 DEF Branch
<1>6. CASE Return
  BY <1>1, <1>6 DEF Return
<1>7. CASE Exit
  BY <1>1, <1>7 DEF Exit, Calling
<1>8. CASE Throw
  BY <1>1, <1>8 DEF Throw, Calling
<1>9. QED
  BY <1>2, <1>3, <1>4, <1>5, <1>6, <1>7, <1>8 DEF Step

LEMMA RewriteTellsNothing ==
    ASSUME Rewrite
    PROVE  UNCHANGED <<given, history>> /\ phase = "rewriting"
<1>1. CASE RunOnFunction
  BY <1>1 DEF RunOnFunction
<1>2. CASE Visit
  BY <1>2 DEF Visit
<1>3. CASE FinishModule
  BY <1>3 DEF FinishModule
<1>4. QED
  BY <1>1, <1>2, <1>3 DEF Rewrite

LEMMA CountedInit == Init => Counted
<1> SUFFICES ASSUME Init
             PROVE  Counted
  OBVIOUS
<1>1. log = <<>> /\ ran = <<>>
  BY DEF Init
<1>2. Told = {} /\ Due = {}
  BY <1>1 DEF Told, Due
<1>3. QED
  BY <1>2, FS_EmptySet DEF Counted

LEMMA CountedNext == IInv /\ Counted /\ [Next]_vars => Counted'
<1> SUFFICES ASSUME IInv, Counted, [Next]_vars
             PROVE  Counted'
  OBVIOUS
<1>1. CASE UNCHANGED <<given, history>>
  <2>1. log' = log /\ ran' = ran /\ prog' = prog /\ pass' = pass
    BY <1>1 DEF given, history
  <2>2. \A x : Wanted(x)' = Wanted(x)
    BY <2>1 DEF Wanted, Ins
  <2>3. Told' = Told /\ Due' = Due
    BY <2>1, <2>2 DEF Told, Due
  <2>4. \A v : DueBefore(v)' = DueBefore(v)
    BY <2>3 DEF DueBefore, Precedes
  <2>5. \A k : ToldBefore(k)' = ToldBefore(k)
    BY <2>3 DEF ToldBefore
  <2>6. QED
    BY <2>1, <2>2, <2>3, <2>4, <2>5 DEF Counted
<1>2. CASE Step
  <2>1. PICK o \in Outcomes : Running /\ Execute(o)
    BY <1>2, StepExecutes
  <2>2. Frames /\ Records
    BY DEF IInv
  <2>3. QED
    BY <2>1, <2>2, CountGrows
<1>3. UNCHANGED vars => UNCHANGED <<given, history>>
  BY DEF vars
<1>4. QED
  BY <1>1, <1>2, <1>3, RewriteTellsNothing DEF Next

\* Whatever program is instrumented by whatever pass and whichever way it runs,
\* the library is told of exactly what ran: the n-th update is the n-th that the
\* executed instructions call for, with its own outcome (BranchProfiling.cpp:68-120,
\* InstReuseDist.cpp:71-137, DataReuseDist.cpp:68-134).
THEOREM InstrumentationCountsWhatRan == Spec => []CountsWhatRan
<1>1. Init => Counted
  BY CountedInit
<1>2. IInv /\ Counted /\ [Next]_vars => Counted'
  BY CountedNext
<1>3. Counted => CountsWhatRan
  BY CountedMeans
<1>4. QED
  BY <1>1, <1>2, <1>3, Invariance, PTL DEF Spec

-----------------------------------------------------------------------------
(* Reports. *)

\* A report is printed in front of these instructions.
SeenExit(s) == PrintsAt(Ins(s)) /\ ~Skipped(s[1])
Reports(s) == SeenExit(s) \/ (s[1] = MainFunc /\ Ins(s).op = "ret")

\* The calls u put in front of an instruction print first, where it exits.
Prints(u, ins) ==
  /\ u \in Seq(Fit(ins)) /\ (PrintsAt(ins) => 1 \in DOMAIN u)
  /\ \A k \in DOMAIN u : u[k].call = "print" <=> PrintsAt(ins) /\ k = 1

LEMMA CallPrints ==
    ASSUME NEW ins, NEW c, NEW a, Call(c, a) \in Seq(Fit(ins)), c = "print" <=> PrintsAt(ins)
    PROVE  Prints(Call(c, a), ins)
<1>1. DOMAIN Call(c, a) = {1} /\ Call(c, a)[1].call = c
  BY DEF Call
<1>2. QED
  BY <1>1 DEF Prints

\* Print stands before the updates.
LEMMA PrintThenUpdates ==
    ASSUME NEW ins, Call("print", "nothing") \in Seq(Fit(ins)), NEW v \in Seq(Fit(ins)),
           \A k \in DOMAIN v : v[k].call # "print"
    PROVE  Prints((IF PrintsAt(ins) THEN Call("print", "nothing") ELSE <<>>) \o v, ins)
<1> DEFINE p == Call("print", "nothing")
           F == Fit(ins)
<1>1. DOMAIN v = 1 .. Len(v) /\ Len(v) \in Nat
  BY LenProperties
<1>2. CASE PrintsAt(ins)
  <2>1. Len(p) = 1 /\ p[1].call = "print"
    BY DEF Call
  <2> HIDE DEF p, F
  <2>2. /\ p \o v \in Seq(F) /\ Len(p \o v) = Len(v) + 1 /\ DOMAIN (p \o v) = 1 .. Len(v) + 1
        /\ (p \o v)[1] = p[1] /\ \A k \in 2 .. Len(v) + 1 : (p \o v)[k] = v[k - 1]
    <3>1. p \in Seq(F) /\ v \in Seq(F)
      BY DEF p, F
    <3>2. /\ p \o v \in Seq(F) /\ Len(p \o v) = Len(p) + Len(v)
          /\ \A k \in 1 .. Len(p) + Len(v) : (p \o v)[k] = IF k <= Len(p) THEN p[k] ELSE v[k - Len(p)]
      BY <3>1, ConcatProperties
    <3>3. DOMAIN (p \o v) = 1 .. Len(p \o v)
      BY <3>2, LenProperties
    <3>4. QED
      BY <1>1, <2>1, <3>2, <3>3
  <2>3. \A k \in 2 .. Len(v) + 1 : k - 1 \in DOMAIN v /\ k # 1
    BY <1>1
  <2>4. \A k \in DOMAIN (p \o v) : (p \o v)[k].call = "print" <=> k = 1
    <3> SUFFICES ASSUME NEW k \in DOMAIN (p \o v)
                 PROVE  (p \o v)[k].call = "print" <=> k = 1
      OBVIOUS
    <3>1. CASE k = 1
      BY <2>1, <2>2, <3>1
    <3>2. CASE k # 1
      <4>1. k \in 2 .. Len(v) + 1
        BY <1>1, <2>2, <3>2
      <4>2. QED
        BY <2>2, <2>3, <3>2, <4>1
    <3>3. QED
      BY <3>1, <3>2
  <2>5. 1 \in DOMAIN (p \o v)
    BY <1>1, <2>2
  <2>6. QED
    BY <1>2, <2>2, <2>4, <2>5 DEF Prints, p, F
<1>3. CASE ~PrintsAt(ins)
  <2>1. (IF PrintsAt(ins) THEN p ELSE <<>>) \o v = v
    BY <1>3
  <2>2. QED
    BY <1>3, <2>1 DEF Prints
<1>4. QED
  BY <1>2, <1>3

\* The body of the loop prints first, where the program exits.
LEMMA UpdatesPrint ==
    ASSUME NEW ins, ins.op \in Op, ins.values \in Nat
    PROVE  /\ Prints(BranchCalls(ins), ins)
           /\ Prints(InstCalls(ins), ins)
           /\ Prints(DataCalls(ins), ins)
           /\ Prints(OldDataCalls(ins), ins)
           /\ Prints(OperandCalls(ins), ins)
<1>1. /\ BranchCalls(ins) \in Seq(Fit(ins)) /\ InstCalls(ins) \in Seq(Fit(ins))
      /\ DataCalls(ins) \in Seq(Fit(ins)) /\ OldDataCalls(ins) \in Seq(Fit(ins))
      /\ OperandCalls(ins) \in Seq(Fit(ins))
  BY UpdatesFit
<1>2. PrintsAt(ins) => ~Passed(ins) /\ ins.op = "call"
  BY DEF PrintsAt, Passed
<1>3. ~PrintsAt(ins) => Prints(<<>>, ins)
  BY DEF Prints
<1>4. Call("print", "nothing") \in Seq(Fit(ins)) /\ Call("update", "nothing") \in Seq(Fit(ins))
  BY CallFits
<1>5. PrintsAt(ins) => Prints(Call("print", "nothing"), ins)
  BY <1>4, CallPrints
<1>6. Prints(BranchCalls(ins), ins)
  <2>1. CASE PrintsAt(ins)
    BY <1>2, <1>5, <2>1 DEF BranchCalls
  <2>2. CASE ~PrintsAt(ins) /\ ins.op = "condbr"
    <3>1. BranchCalls(ins) = Call("updateCond", "condition")
      BY <2>2 DEF BranchCalls
    <3>2. QED
      BY <1>1, <2>2, <3>1, CallPrints
  <2>3. CASE ~PrintsAt(ins) /\ ins.op = "br"
    <3>1. BranchCalls(ins) = Call("update", "nothing")
      BY <2>3 DEF BranchCalls
    <3>2. QED
      BY <1>1, <2>3, <3>1, CallPrints
  <2>4. CASE ~PrintsAt(ins) /\ ins.op \notin {"condbr", "br"}
    <3>1. BranchCalls(ins) = <<>>
      BY <2>4 DEF BranchCalls
    <3>2. QED
      BY <1>3, <2>4, <3>1
  <2>5. QED
    BY <2>1, <2>2, <2>3, <2>4
<1>7. Prints(InstCalls(ins), ins)
  <2>1. CASE Passed(ins)
    BY <1>2, <1>3, <2>1 DEF InstCalls
  <2>2. CASE ~Passed(ins)
    <3> DEFINE v == Call("update", Opcode(ins))
    <3>1. DOMAIN v = {1} /\ v[1].call # "print"
      BY DEF Call
    <3>2. v \in Seq(Fit(ins))
      <4>1. Opcode(ins) \in Op /\ Opcode(ins) # "condition"
        BY DEF Opcode, Op, Terminator
      <4>2. QED
        BY <4>1, CallFits
    <3>3. \A k \in DOMAIN v : v[k].call # "print"
      BY <3>1
    <3> HIDE DEF v
    <3>4. Prints((IF PrintsAt(ins) THEN Call("print", "nothing") ELSE <<>>) \o v, ins)
      BY <1>4, <3>2, <3>3, PrintThenUpdates
    <3>5. QED
      BY <2>2, <3>4 DEF InstCalls, v
  <2>3. QED
    BY <2>1, <2>2
<1>8. \A c \in {"nothing", ins.op} : ins.op \in {"load", "store"} => Prints(Call("update", c), ins)
  <2> SUFFICES ASSUME NEW c \in {"nothing", ins.op}, ins.op \in {"load", "store"}
               PROVE  Prints(Call("update", c), ins)
    OBVIOUS
  <2>1. c \in Op \cup {"nothing", "condition"} /\ c # "condition"
    BY DEF Op, Terminator
  <2>2. Call("update", c) \in Seq(Fit(ins))
    BY <2>1, CallFits
  <2>3. ~PrintsAt(ins)
    BY DEF PrintsAt
  <2>4. QED
    BY <2>2, <2>3, CallPrints
<1>9. Prints(DataCalls(ins), ins)
  <2>1. CASE PrintsAt(ins)
    BY <1>2, <1>5, <2>1 DEF DataCalls
  <2>2. CASE ~PrintsAt(ins) /\ ins.op \in {"load", "store"}
    BY <1>8, <2>2 DEF DataCalls
  <2>3. CASE ~PrintsAt(ins) /\ ins.op \notin {"load", "store"}
    BY <1>3, <2>3 DEF DataCalls
  <2>4. QED
    BY <2>1, <2>2, <2>3
<1>10. Prints(OldDataCalls(ins), ins)
  <2>1. CASE PrintsAt(ins)
    BY <1>2, <1>5, <2>1 DEF OldDataCalls
  <2>2. CASE ~PrintsAt(ins) /\ ins.op \in {"load", "store"}
    BY <1>8, <2>2 DEF OldDataCalls
  <2>3. CASE ~PrintsAt(ins) /\ ins.op \notin {"load", "store"}
    BY <1>3, <2>3 DEF OldDataCalls
  <2>4. QED
    BY <2>1, <2>2, <2>3
<1>11. Prints(OperandCalls(ins), ins)
  <2>1. CASE Passed(ins)
    BY <1>2, <1>3, <2>1 DEF OperandCalls
  <2>2. CASE ~Passed(ins)
    <3> DEFINE v == [k \in 1..ins.values |-> [call |-> "update", arg |-> "nothing"]]
    <3>1. v \in Seq(Fit(ins))
      <4>1. [call |-> "update", arg |-> "nothing"] \in Fit(ins)
        BY DEF Fit
      <4>2. QED
        BY <4>1
    <3>2. \A k \in DOMAIN v : v[k].call # "print"
      OBVIOUS
    <3> HIDE DEF v
    <3>3. Prints((IF PrintsAt(ins) THEN Call("print", "nothing") ELSE <<>>) \o v, ins)
      BY <1>4, <3>1, <3>2, PrintThenUpdates
    <3>4. QED
      BY <2>2, <3>3 DEF OperandCalls, v
  <2>3. QED
    BY <2>1, <2>2
<1>12. QED
  BY <1>6, <1>7, <1>9, <1>10, <1>11

\* In front of an instruction one report is printed, or none; what stands
\* behind it there is of an instruction that exits.
LEMMA InsertedPrints ==
    ASSUME Given, NEW s, IsSite(s)
    PROVE  /\ Reports(s) => \E m \in DOMAIN Inserted(s) : \A k \in DOMAIN Inserted(s) :
                /\ Inserted(s)[k].call = "print" <=> k = m
                /\ k > m => PrintsAt(Ins(s))
           /\ ~Reports(s) => \A k \in DOMAIN Inserted(s) : Inserted(s)[k].call # "print"
<1> DEFINE q == Inserted(s)
           ins == Ins(s)
           seen == SeenExit(s)
<1>1. PICK u : /\ u \in Seq(Fit(ins)) /\ (seen => 1 \in DOMAIN u)
               /\ \A k \in DOMAIN u : u[k].call = "print" <=> seen /\ k = 1
               /\ q = (AtEntry(s) \o u) \o AtReturn(s)
  <2>1. ins.op \in Op /\ ins.values \in Nat
    BY SiteFacts
  <2>2. Prints(Calls(ins), ins)
    <3>1. /\ Prints(BranchCalls(ins), ins) /\ Prints(InstCalls(ins), ins)
          /\ Prints(DataCalls(ins), ins) /\ Prints(OldDataCalls(ins), ins)
          /\ Prints(OperandCalls(ins), ins)
      BY <2>1, UpdatesPrint
    <3>2. pass \in {"branch", "inst", "data", "old", "operands"}
      BY ProgramAssumption DEF Given
    <3>3. QED
      BY <3>1, <3>2 DEF Calls
  <2>3. seen => Handled(s)
    <3>1. s[1] \in DOMAIN prog /\ s[2] \in DOMAIN prog[s[1]] /\ s[3] \in DOMAIN prog[s[1]][s[2]] /\ s[3] \in Nat
      BY DEF IsSite, Place
    <3>2. StartOf(s[1], s[2]) \in Nat
      BY <3>1, StartFacts
    <3>3. pass = "branch" => StartOf(s[1], s[2]) = 1
      BY <3>1, StartFacts
    <3>4. pass # "branch" => (ins.op \in {"phi", "landingpad"} <=> s[3] < StartOf(s[1], s[2]))
      BY <3>1, StartFacts DEF Ins
    <3>5. s[3] >= 1
      BY SiteFacts
    <3>6. seen => ~Skipped(s[1]) /\ ins.op = "call"
      BY DEF SeenExit, PrintsAt
    <3>7. seen => s[3] >= StartOf(s[1], s[2])
      <4>1. CASE pass = "branch"
        BY <3>3, <3>5, <4>1
      <4>2. CASE pass # "branch"
        <5>1. seen => ~(s[3] < StartOf(s[1], s[2]))
          BY <3>4, <3>6, <4>2
        <5>2. QED
          BY <3>1, <3>2, <5>1
      <4>3. QED
        BY <4>1, <4>2
    <3>8. QED
      BY <3>6, <3>7 DEF Handled
  <2>4. CASE Handled(s)
    <3>1. Own(s) = Calls(ins)
      BY <2>4 DEF Own
    <3>2. seen <=> PrintsAt(ins)
      BY <2>4 DEF SeenExit, Handled
    <3>3. q = (AtEntry(s) \o Calls(ins)) \o AtReturn(s)
      BY <3>1 DEF Inserted, RunOnModule
    <3>4. QED
      BY <2>2, <3>2, <3>3, Zenon DEF Prints
  <2>5. CASE ~Handled(s)
    <3>1. q = (AtEntry(s) \o <<>>) \o AtReturn(s)
      BY <2>5 DEF Inserted, RunOnModule, Own
    <3>2. ~seen /\ <<>> \in Seq(Fit(ins)) /\ DOMAIN <<>> = {}
      BY <2>3, <2>5
    <3>3. QED
      BY <3>1, <3>2
  <2>6. QED
    BY <2>4, <2>5
<1> DEFINE F == Fit(ins)
           e == AtEntry(s)
           r == AtReturn(s)
<1>2. /\ u \in Seq(F)
      /\ seen => 1 \in DOMAIN u
      /\ \A k \in DOMAIN u : u[k].call = "print" <=> seen /\ k = 1
  BY <1>1
<1>3. PICK C : F \subseteq C /\ [call |-> "init", arg |-> "nothing"] \in C /\ [call |-> "print", arg |-> "nothing"] \in C
  <2>1. F \subseteq F \cup {[call |-> "init", arg |-> "nothing"], [call |-> "print", arg |-> "nothing"]}
    OBVIOUS
  <2>2. QED
    BY <2>1
<1>4. e \in Seq(C) /\ Len(e) \in Nat /\ \A k \in 1 .. Len(e) : e[k].call # "print"
  BY <1>3 DEF AtEntry, Call
<1>5. /\ r \in Seq(C) /\ Len(r) \in {0, 1}
      /\ Len(r) = 1 <=> (s[1] = MainFunc /\ ins.op = "ret")
      /\ Len(r) = 1 => r[1].call = "print"
  BY <1>3 DEF AtReturn, Call
<1>6. (Len(r) = 1 => ~seen) /\ (seen => PrintsAt(ins))
  BY <1>5 DEF SeenExit, PrintsAt
<1>7. Reports(s) <=> seen \/ Len(r) = 1
  BY <1>5 DEF Reports
<1>8. u \in Seq(C) /\ DOMAIN u = 1 .. Len(u) /\ Len(u) \in Nat
  <2>1. u \in Seq(C)
    BY <1>2, <1>3, SeqMonotonic
  <2>2. QED
    BY <2>1, LenProperties
<1> HIDE DEF F, e, r, ins, q, seen
<1>9. /\ q \in Seq(C) /\ Len(q) = Len(e) + Len(u) + Len(r) /\ DOMAIN q = 1 .. Len(q)
      /\ \A k \in 1 .. Len(e) : q[k] = e[k]
      /\ \A k \in 1 .. Len(u) : q[Len(e) + k] = u[k]
      /\ \A k \in 1 .. Len(r) : q[Len(e) + Len(u) + k] = r[k]
  <2>1. q = (e \o u) \o r
    BY <1>1 DEF q, e, r
  <2>2. /\ e \o u \in Seq(C) /\ Len(e \o u) = Len(e) + Len(u)
        /\ \A k \in 1 .. Len(e) + Len(u) : (e \o u)[k] = IF k <= Len(e) THEN e[k] ELSE u[k - Len(e)]
    BY <1>4, <1>8, ConcatProperties
  <2>3. /\ q \in Seq(C) /\ Len(q) = Len(e \o u) + Len(r)
        /\ \A k \in 1 .. Len(e \o u) + Len(r) : q[k] = IF k <= Len(e \o u) THEN (e \o u)[k] ELSE r[k - Len(e \o u)]
    BY <1>5, <2>1, <2>2, ConcatProperties
  <2>4. DOMAIN q = 1 .. Len(q)
    BY <2>3, LenProperties
  <2>5. ASSUME NEW k \in 1 .. Len(e)
        PROVE  q[k] = e[k]
    <3>1. k \in 1 .. Len(e) + Len(u) /\ k \in 1 .. Len(e \o u) + Len(r) /\ k <= Len(e \o u) /\ k <= Len(e)
      BY <1>4, <1>5, <1>8, <2>2
    <3>2. QED
      BY <2>2, <2>3, <3>1
  <2>6. ASSUME NEW k \in 1 .. Len(u)
        PROVE  q[Len(e) + k] = u[k]
    <3>1. /\ Len(e) + k \in 1 .. Len(e) + Len(u) /\ Len(e) + k \in 1 .. Len(e \o u) + Len(r)
          /\ Len(e) + k <= Len(e \o u) /\ ~(Len(e) + k <= Len(e)) /\ Len(e) + k - Len(e) = k
      BY <1>4, <1>5, <1>8, <2>2
    <3>2. QED
      BY <2>2, <2>3, <3>1
  <2>7. ASSUME NEW k \in 1 .. Len(r)
        PROVE  q[Len(e) + Len(u) + k] = r[k]
    <3>1. /\ Len(e) + Len(u) + k \in 1 .. Len(e \o u) + Len(r)
          /\ ~(Len(e) + Len(u) + k <= Len(e \o u)) /\ Len(e) + Len(u) + k - Len(e \o u) = k
      BY <1>4, <1>5, <1>8, <2>2
    <3>2. QED
      BY <2>3, <3>1
  <2>8. QED
    BY <2>2, <2>3, <2>4, <2>5, <2>6, <2>7
<1>10. ASSUME NEW k \in DOMAIN q
       PROVE  q[k].call = "print" <=> \/ seen /\ k = Len(e) + 1
                                      \/ Len(r) = 1 /\ k = Len(e) + Len(u) + 1
  <2>1. \/ k \in 1 .. Len(e)
        \/ k - Len(e) \in 1 .. Len(u) /\ k = Len(e) + (k - Len(e))
        \/ Len(r) = 1 /\ k = Len(e) + Len(u) + 1
    <3>1. k \in Nat /\ 1 <= k /\ k <= Len(e) + Len(u) + Len(r)
      BY <1>9, <1>4, <1>5, <1>8
    <3>2. QED
      <4>1. PICK a, b \in Nat, c \in {0, 1} : a = Len(e) /\ b = Len(u) /\ c = Len(r)
        <5>1. Len(e) \in Nat /\ Len(u) \in Nat
          BY <1>4, <1>8
        <5>2. Len(r) \in {0, 1}
          BY <1>5
        <5>3. QED
          BY <5>1, <5>2, Zenon
      <4>2. k \in 1 .. a \/ (k - a \in 1 .. b /\ k = a + (k - a)) \/ (Len(r) = 1 /\ k = a + b + 1)
        <5>1. k <= a + b \/ (Len(r) = 1 /\ k = a + b + 1)
          <6>1. k \in Nat /\ k <= a + b + c
            BY <3>1, <4>1
          <6>2. k <= a + b \/ (c = 1 /\ k = a + b + 1)
            BY <6>1
          <6>3. QED
            BY <4>1, <6>2
        <5>2. k <= a + b => k \in 1 .. a \/ (k - a \in 1 .. b /\ k = a + (k - a))
          BY <3>1
        <5>3. QED
          BY <5>1, <5>2
      <4>3. QED
        BY <4>1, <4>2
  <2>2. CASE k \in 1 .. Len(e)
    <3>1. q[k].call # "print"
      BY <1>4, <1>9, <2>2
    <3>2. k # Len(e) + 1 /\ k # Len(e) + Len(u) + 1
      BY <1>4, <1>8, <2>2
    <3>3. QED
      BY <3>1, <3>2
  <2>3. CASE k - Len(e) \in 1 .. Len(u) /\ k = Len(e) + (k - Len(e))
    <3>1. PICK i \in 1 .. Len(u) : i = k - Len(e)
      BY <2>3
    <3>2. q[k] = u[i] /\ (u[i].call = "print" <=> seen /\ i = 1)
      BY <1>2, <1>8, <1>9, <2>3, <3>1
    <3>3. (i = 1 <=> k = Len(e) + 1) /\ k # Len(e) + Len(u) + 1
      BY <1>4, <1>8, <1>9, <3>1
    <3>4. QED
      BY <3>2, <3>3
  <2>4. CASE Len(r) = 1 /\ k = Len(e) + Len(u) + 1
    <3>1. q[k] = r[1]
      BY <1>9, <2>4
    <3>2. QED
      BY <1>5, <2>4, <3>1
  <2>5. QED
    BY <2>1, <2>2, <2>3, <2>4
<1>11. CASE ~Reports(s)
  BY <1>7, <1>10, <1>11 DEF q
<1>12. CASE seen
  <2>1. Len(r) # 1 /\ 1 \in 1 .. Len(u)
    BY <1>2, <1>6, <1>8, <1>12
  <2>2. Len(e) + 1 \in DOMAIN q
    BY <1>4, <1>5, <1>8, <1>9, <2>1
  <2>3. \A k \in DOMAIN q : q[k].call = "print" <=> k = Len(e) + 1
    BY <1>10, <1>12, <2>1
  <2>4. QED
    BY <1>6, <1>7, <1>12, <2>2, <2>3 DEF q, ins
<1>13. CASE Len(r) = 1
  <2>1. PICK m : m = Len(e) + Len(u) + 1
    OBVIOUS
  <2>2. m \in DOMAIN q /\ \A k \in DOMAIN q : k <= m
    BY <1>4, <1>5, <1>8, <1>9, <1>13, <2>1
  <2>3. \A k \in DOMAIN q : q[k].call = "print" <=> k = m
    BY <1>6, <1>10, <1>13, <2>1
  <2>4. \A k \in DOMAIN q : ~(k > m)
    BY <1>4, <1>5, <1>8, <1>9, <1>13, <2>1
  <2>5. QED
    BY <1>7, <1>13, <2>2, <2>3, <2>4 DEF q
<1>14. QED
  BY <1>7, <1>11, <1>12, <1>13

\* What a step tells the library.
LEMMA Tells ==
    ASSUME Frames, Records, Running, NEW o \in Outcomes, Execute(o)
    PROVE  /\ prog' = prog /\ pass' = pass /\ log \in Seq(Tellings) /\ Len(log) \in Nat /\ DOMAIN log = 1 .. Len(log)
           /\ \A j \in DOMAIN log : j \in DOMAIN log' /\ log'[j] = log[j]
           /\ \A j \in DOMAIN log' : j \in Nat /\
                (j \notin DOMAIN log => j > Len(log) /\ log'[j].phase = phase /\ log'[j].at = Here)
           /\ Reports(Here) => \E m \in DOMAIN log' : /\ m \notin DOMAIN log
                /\ \A j \in DOMAIN log' : j \notin DOMAIN log =>
                     (log'[j].call = "print" <=> j = m) /\ (j > m => PrintsAt(Now))
           /\ ~Reports(Here) => \A j \in DOMAIN log' : j \notin DOMAIN log => log'[j].call # "print"
           /\ ran' = Append(ran, [at |-> Here, outcome |-> o, phase |-> phase]) /\ ran \in Seq(Ran)
<1> DEFINE q == Inserted(Here)
           n == Len(log)
           h(k) == Heard(q[k], Here, o, phase)
<1>1. IsSite(Here) /\ Here \in Place /\ Given
  BY HereFacts DEF Frames
<1>2. /\ Reports(Here) => \E m \in DOMAIN q : \A k \in DOMAIN q :
           (q[k].call = "print" <=> k = m) /\ (k > m => PrintsAt(Now))
      /\ ~Reports(Here) => \A k \in DOMAIN q : q[k].call # "print"
  BY <1>1, InsertedPrints DEF Now
<1>3. q \in Seq(Says)
  BY <1>1, InsertedFacts
<1>4. prog' = prog /\ pass' = pass /\ log \in Seq(Tellings) /\ ran \in Seq(Ran)
  BY DEF Execute, Records, given
<1>5. /\ n \in Nat /\ DOMAIN log = 1 .. n /\ DOMAIN log' = 1 .. n + Len(q)
      /\ \A j \in 1 .. n : log'[j] = log[j]
      /\ \A k \in DOMAIN q : log'[n + k] = h(k)
      /\ ran' = Append(ran, [at |-> Here, outcome |-> o, phase |-> phase])
  BY Appended
<1>6. DOMAIN q = 1 .. Len(q) /\ Len(q) \in Nat
  BY <1>3, LenProperties
<1>7. \A k : h(k).call = q[k].call /\ h(k).phase = phase /\ h(k).at = Here
  BY DEF Heard
<1> HIDE DEF q, h
<1>8. \A j \in DOMAIN log : j \in DOMAIN log' /\ log'[j] = log[j]
  BY <1>5, <1>6
<1>9. \A j \in DOMAIN log' : j \in Nat /\
        (j \notin DOMAIN log => /\ j > n /\ j - n \in DOMAIN q /\ log'[j] = h(j - n))
  <2> SUFFICES ASSUME NEW j \in DOMAIN log'
               PROVE  j \in Nat /\ (j \notin DOMAIN log => /\ j > n /\ j - n \in DOMAIN q /\ log'[j] = h(j - n))
    OBVIOUS
  <2>1. j \in Nat
    BY <1>5, <1>6
  <2>2. j \notin DOMAIN log => j > n /\ j - n \in DOMAIN q /\ n + (j - n) = j
    BY <1>5, <1>6
  <2>3. QED
    BY <1>5, <2>1, <2>2
<1>10. ASSUME Reports(Here)
       PROVE  \E m \in DOMAIN log' : /\ m \notin DOMAIN log
                /\ \A j \in DOMAIN log' : j \notin DOMAIN log =>
                     (log'[j].call = "print" <=> j = m) /\ (j > m => PrintsAt(Now))
  <2>1. PICK i \in DOMAIN q : \A k \in DOMAIN q :
          (q[k].call = "print" <=> k = i) /\ (k > i => PrintsAt(Now))
    BY <1>2, <1>10
  <2>2. n + i \in DOMAIN log' /\ n + i \notin DOMAIN log
    BY <1>5, <1>6
  <2>3. ASSUME NEW j \in DOMAIN log', j \notin DOMAIN log
        PROVE  (log'[j].call = "print" <=> j = n + i) /\ (j > n + i => PrintsAt(Now))
    <3>1. PICK k \in DOMAIN q : k = j - n
      BY <1>9, <2>3
    <3>2. log'[j].call = q[k].call /\ j \in Nat
      BY <1>7, <1>9, <2>3, <3>1
    <3>3. (k = i <=> j = n + i) /\ (k > i <=> j > n + i)
      BY <1>5, <1>6, <3>1, <3>2
    <3>4. QED
      BY <2>1, <3>2, <3>3
  <2>4. QED
    BY <2>2, <2>3
<1>11. ASSUME ~Reports(Here), NEW j \in DOMAIN log', j \notin DOMAIN log
       PROVE  log'[j].call # "print"
  BY <1>2, <1>7, <1>9, <1>11
<1>12. \A j \in DOMAIN log' : j \in Nat /\
         (j \notin DOMAIN log => j > n /\ log'[j].phase = phase /\ log'[j].at = Here)
  BY <1>7, <1>9
<1>13. QED
  BY <1>4, <1>5, <1>8, <1>10, <1>11, <1>12

\* What a step does to the frames, as far as their functions go: frames are left
\* and another place of the outermost of them is taken, or a function is called.
Unwound == \E m \in 1 .. Len(stack) : /\ Len(stack') = Len(stack) - m + 1
                                      /\ \A k \in 1 .. Len(stack') : stack'[k][1] = stack[m + k - 1][1]
Deepened == /\ Now.op \in {"call", "invoke"} /\ Len(stack') = Len(stack) + 1
            /\ stack'[1][1] \in (Callees(Now) \cap DOMAIN prog) \ {MainFunc}
            /\ \A k \in 2 .. Len(stack') : stack'[k][1] = stack[k - 1][1]

\* The instruction executed was an exit.
Exited == ran'[Len(ran) + 1].outcome = "exit"

LEMMA OutcomeIs ==
    ASSUME IInv, NEW o \in Outcomes, Execute(o)
    PROVE  Exited <=> o = "exit"
<1>1. PICK r : r = [at |-> Here, outcome |-> o, phase |-> phase]
  OBVIOUS
<1>2. ran' = Append(ran, r) /\ ran \in Seq(Ran)
  BY <1>1 DEF Execute, IInv, Records
<1>3. ran'[Len(ran) + 1] = r
  BY <1>2
<1>4. QED
  BY <1>1, <1>3 DEF Exited

\* An inner frame gives way to a place in the function of frame m.
LEMMA UnwoundTo ==
    ASSUME Frames, Running, NEW m \in 1 .. Len(stack), NEW s, s[1] = stack[m][1],
           stack' = <<s>> \o SubSeq(stack, m + 1, Len(stack))
    PROVE  Unwound /\ stack' \in Seq(Place \cup {s})
<1>1. /\ stack \in Seq(Place) /\ Len(stack) \in Nat \ {0} /\ DOMAIN stack = 1 .. Len(stack)
  BY HereFacts DEF Frames
<1>2. PICK r : r = SubSeq(stack, m + 1, Len(stack))
  OBVIOUS
<1>3. /\ r \in Seq(Place) /\ Len(r) = Len(stack) - m
      /\ \A k \in 1 .. Len(stack) - m : r[k] = stack[m + k]
  <2>1. \A k \in m + 1 .. Len(stack) : stack[k] \in Place
    BY <1>1, ElementOfSeq
  <2>2. /\ r \in Seq(Place) /\ Len(r) = IF m + 1 <= Len(stack) THEN Len(stack) - m ELSE 0
        /\ \A k \in 1 .. Len(r) : r[k] = stack[m + k]
    <3> DEFINE t == SubSeq(stack, m + 1, Len(stack))
    <3>1. /\ t \in Seq(Place) /\ Len(t) = IF m + 1 <= Len(stack) THEN Len(stack) - m ELSE 0
          /\ \A k \in 1 .. Len(t) : t[k] = stack[m + k]
      BY <1>1, <2>1
    <3>2. QED
      BY <1>2, <3>1
  <2>3. Len(r) = Len(stack) - m
    BY <1>1, <2>2
  <2>4. QED
    BY <2>2, <2>3
<1>4. /\ Len(stack') = Len(r) + 1 /\ stack'[1] = s /\ stack' \in Seq(Place \cup {s})
      /\ \A k \in 2 .. Len(r) + 1 : stack'[k] = r[k - 1]
  BY <1>2, <1>3
<1>5. Len(stack') = Len(stack) - m + 1
  BY <1>1, <1>3, <1>4
<1>6. ASSUME NEW k \in 1 .. Len(stack')
      PROVE  stack'[k][1] = stack[m + k - 1][1]
  <2>1. CASE k = 1
    <3>1. m + k - 1 = m
      BY <1>1, <2>1
    <3>2. QED
      BY <1>4, <2>1, <3>1
  <2>2. CASE k # 1
    <3>1. k \in 2 .. Len(r) + 1 /\ k - 1 \in 1 .. Len(stack) - m /\ m + (k - 1) = m + k - 1
      BY <1>1, <1>3, <1>4, <1>6, <2>2
    <3>2. stack'[k] = stack[m + (k - 1)]
      BY <1>3, <1>4, <3>1
    <3>3. QED
      BY <3>1, <3>2
  <2>3. QED
    BY <2>1, <2>2
<1>7. QED
  BY <1>4, <1>5, <1>6 DEF Unwound

\* Where a call that comes back goes on is in the same function.
LEMMA BehindStays ==
    ASSUME NEW s \in Place
    PROVE  After(s)[1] = s[1] /\ Behind(s)[1] = s[1]
<1>1. s = <<s[1], s[2], s[3]>>
  BY DEF Place
<1>2. After(s)[1] = s[1]
  BY <1>1 DEF After
<1>3. QED
  BY <1>2 DEF Behind

\* Every step stays in its phase and exits nowhere, though quit_flag_ may come
\* back; or the program dies, main begins, or main or exit is over.
LEMMA Moves ==
    ASSUME IInv, Step
    PROVE  \/ /\ phase' = phase /\ (Unwound \/ Deepened) /\ ~Exited
              /\ PrintsAt(Now) => Now.callee = "quit_flag_"
              /\ Now.op = "ret" => Len(stack) > 1
           \/ phase' = "died" /\ stack' = <<>>
           \/ phase = "constructors" /\ Now.op = "ret" /\ Start("main")
           \/ /\ Exited /\ Finish
              /\ Now.op \in {"call", "invoke"} /\ \E f \in Callees(Now) : ExitLike(f)
           \/ phase # "constructors" /\ Now.op = "ret" /\ Len(stack) = 1 /\ Finish
<1>1. Running
  BY StepExecutes
<1>2. Frames /\ Given
  BY DEF IInv, Frames
<1>3. /\ Here = stack[1] /\ IsSite(Here) /\ Here \in Place /\ stack \in Seq(Place)
      /\ DOMAIN stack = 1 .. Len(stack) /\ Len(stack) \in Nat \ {0}
  BY <1>1, <1>2, HereFacts DEF Frames
<1>4. DOMAIN prog \cap {"exit", "f90_stop08a"} = {}
  BY <1>2, ExitAssumption DEF Given, Orderly
<1>5. Tail(stack) = SubSeq(stack, 2, Len(stack))
  BY <1>3
<1>6. PrintsAt(Now) => Callees(Now) = {Now.callee} /\ Now.callee \in {"exit", "f90_stop08a", "quit_flag_"}
  BY DEF PrintsAt, ExitLike, Callees, Indirect
<1>7. Execute("nothing") \/ Execute("true") \/ Execute("false") => ~Exited
  BY OutcomeIs DEF Outcomes
<1>8. Execute("exit") => Exited
  BY OutcomeIs DEF Outcomes
<1>9. CASE Straight
  <2>1. stack' = <<After(Here)>> \o SubSeq(stack, 1 + 1, Len(stack)) /\ phase' = phase
    BY <1>5, <1>9 DEF Straight
  <2>2. Unwound
    <3>1. 1 \in 1 .. Len(stack) /\ After(Here)[1] = stack[1][1]
      BY <1>3, BehindStays
    <3>2. PICK s : s = After(Here)
      OBVIOUS
    <3>3. QED
      BY <1>1, <1>2, <2>1, <3>1, <3>2, UnwoundTo
  <2>3. Now.op # "ret" /\ ~PrintsAt(Now) /\ ~Exited
    BY <1>7, <1>9 DEF Straight, PrintsAt
  <2>4. QED
    BY <2>1, <2>2, <2>3
<1>10. CASE Outside
  <2>1. stack' = <<Behind(Here)>> \o SubSeq(stack, 1 + 1, Len(stack)) /\ phase' = phase
    BY <1>5, <1>10 DEF Outside
  <2>2. Unwound
    <3>1. 1 \in 1 .. Len(stack) /\ Behind(Here)[1] = stack[1][1]
      BY <1>3, BehindStays
    <3>2. PICK s : s = Behind(Here)
      OBVIOUS
    <3>3. QED
      BY <1>1, <1>2, <2>1, <3>1, <3>2, UnwoundTo
  <2>3. Now.op # "ret" /\ ~Exited
    BY <1>7, <1>10 DEF Outside, Calling
  <2>4. PrintsAt(Now) => Now.callee = "quit_flag_"
    BY <1>6, <1>10 DEF Outside
  <2>5. QED
    BY <2>1, <2>2, <2>3, <2>4
<1>11. CASE Enter
  <2>1. PICK f \in Callees(Now) \cap DOMAIN prog : stack' = <<<<f, 1, 1>>>> \o stack
    BY <1>11 DEF Enter
  <2>2. Now.op \in {"call", "invoke"} /\ phase' = phase /\ ~Exited
    BY <1>7, <1>11 DEF Enter, Calling
  <2>3. f # MainFunc
    BY <1>2, <1>3, SiteFacts DEF Now
  <2>4. PICK s : s = <<f, 1, 1>>
    OBVIOUS
  <2>5. /\ Len(stack') = Len(stack) + 1 /\ stack'[1] = s
        /\ \A k \in 2 .. Len(stack') : stack'[k] = stack[k - 1]
    <3>1. stack' = <<s>> \o stack
      BY <2>1, <2>4
    <3>2. QED
      BY <1>3, <3>1
  <2>6. Deepened
    BY <2>1, <2>2, <2>3, <2>4, <2>5 DEF Deepened
  <2>7. PrintsAt(Now) => Now.callee = "quit_flag_"
    BY <1>4, <1>6, <2>1
  <2>8. Now.op # "ret"
    BY <2>2
  <2>9. QED
    BY <2>2, <2>6, <2>7, <2>8
<1>12. CASE Branch
  <2>1. PICK k \in DOMAIN Now.to :
          /\ Execute(IF Now.op = "br" THEN "nothing" ELSE IF k = 1 THEN "true" ELSE "false")
          /\ stack' = <<<<Here[1], Now.to[k], 1>>>> \o Tail(stack)
    BY <1>12 DEF Branch
  <2>2. PICK s : s = <<Here[1], Now.to[k], 1>>
    OBVIOUS
  <2>3. s[1] = stack[1][1] /\ stack' = <<s>> \o SubSeq(stack, 1 + 1, Len(stack)) /\ 1 \in 1 .. Len(stack)
    BY <1>3, <1>5, <2>1, <2>2
  <2>4. Unwound
    BY <1>1, <1>2, <2>3, UnwoundTo
  <2>5. phase' = phase /\ Now.op \in {"br", "condbr"}
    BY <1>12 DEF Branch
  <2>6. Now.op # "ret" /\ ~PrintsAt(Now)
    BY <2>5 DEF PrintsAt
  <2>7. ~Exited
    <3>1. PICK o : o = IF Now.op = "br" THEN "nothing" ELSE IF k = 1 THEN "true" ELSE "false"
      OBVIOUS
    <3>2. Execute(o) /\ o \in {"nothing", "true", "false"}
      BY <2>1, <3>1
    <3>3. QED
      BY <1>7, <3>2
  <2>8. QED
    BY <2>4, <2>5, <2>6, <2>7
<1>13. CASE Return
  <2>1. Now.op = "ret" /\ ~PrintsAt(Now) /\ ~Exited
    BY <1>7, <1>13 DEF Return, PrintsAt
  <2>2. CASE Len(stack) > 1
    <3>1. stack' = <<Behind(stack[2])>> \o Tail(Tail(stack)) /\ phase' = phase
      BY <1>13, <2>2 DEF Return
    <3>2. 2 \in 1 .. Len(stack) /\ stack[2] \in Place
      BY <1>3, <2>2
    <3>3. Behind(stack[2])[1] = stack[2][1]
      BY <3>2, BehindStays
    <3>4. Tail(Tail(stack)) = SubSeq(stack, 2 + 1, Len(stack))
      BY <1>3, <2>2
    <3>5. PICK t : t = Behind(stack[2])
      OBVIOUS
    <3>6. t[1] = stack[2][1] /\ stack' = <<t>> \o SubSeq(stack, 2 + 1, Len(stack))
      BY <3>1, <3>3, <3>4, <3>5
    <3>7. Unwound
      BY <1>1, <1>2, <3>2, <3>6, UnwoundTo
    <3>8. QED
      BY <2>1, <2>2, <3>1, <3>7
  <2>3. CASE ~(Len(stack) > 1)
    <3>1. Len(stack) = 1
      BY <1>3, <2>3
    <3>2. IF phase = "constructors" THEN Start("main") ELSE Finish
      BY <1>13, <2>3 DEF Return
    <3>3. QED
      BY <2>1, <3>1, <3>2
  <2>4. QED
    BY <2>2, <2>3
<1>14. CASE Exit
  BY <1>8, <1>14 DEF Exit, Calling
<1>15. CASE Throw
  <2> DEFINE pads == {k \in DOMAIN stack : Ins(stack[k]).op = "invoke"}
  <2>1. Now.op \in {"call", "invoke"} /\ "__cxa_throw" \in Callees(Now) /\ ~Exited
    BY <1>7, <1>15 DEF Throw, Calling
  <2>2. ~PrintsAt(Now) /\ Now.op # "ret"
    BY <1>6, <2>1
  <2>3. CASE pads = {}
    BY <1>15, <2>3 DEF Throw
  <2>4. CASE pads # {}
    <3>1. pads \subseteq Nat /\ pads \subseteq Int
      BY <1>3
    <3>2. \E m \in pads : \A j \in pads : m <= j
      <4> HIDE DEF pads
      <4>1. QED
        BY <2>4, <3>1, LeastElement
    <3>3. PICK m \in pads : \A j \in pads : m <= j
      BY <3>2
    <3>4. Min(pads) = m
      <4> HIDE DEF pads
      <4>1. QED
        BY <3>1, <3>3, MinIs
    <3>5. /\ stack' = <<<<stack[m][1], Ins(stack[m]).to[2], 1>>>> \o SubSeq(stack, m + 1, Len(stack))
          /\ phase' = phase
      BY <1>15, <2>4, <3>4 DEF Throw
    <3>6. PICK t : t = <<stack[m][1], Ins(stack[m]).to[2], 1>>
      OBVIOUS
    <3>7. m \in 1 .. Len(stack) /\ t[1] = stack[m][1] /\ stack' = <<t>> \o SubSeq(stack, m + 1, Len(stack))
      BY <1>3, <3>5, <3>6
    <3>8. Unwound
      BY <1>1, <1>2, <3>7, UnwoundTo
    <3>9. QED
      BY <2>1, <2>2, <3>5, <3>8
  <2>5. QED
    BY <2>3, <2>4
<1>16. QED
  BY <1>9, <1>10, <1>11, <1>12, <1>13, <1>14, <1>15 DEF Step

\* An instruction at a place is one of its function.
LEMMA InBody ==
    ASSUME Given, NEW s, IsSite(s)
    PROVE  Ins(s) \in Body(prog, s[1])
<1>1. s[1] \in DOMAIN prog /\ s[2] \in DOMAIN prog[s[1]] /\ s[3] \in DOMAIN prog[s[1]][s[2]]
  BY DEF IsSite, Place
<1>2. DOMAIN prog[s[1]] = 1 .. Len(prog[s[1]])
  <2>1. WellFormed(prog)
    BY ProgramAssumption DEF Given
  <2>2. QED
    BY <1>1, <2>1 DEF WellFormed, Nonempty
<1>3. DOMAIN prog[s[1]][s[2]] = 1 .. Len(prog[s[1]][s[2]])
  BY <1>1, FunctionFacts
<1>4. prog[s[1]][s[2]] \in ToSet(prog[s[1]])
  BY <1>1, <1>2 DEF ToSet
<1>5. prog[s[1]][s[2]][s[3]] \in ToSet(prog[s[1]][s[2]])
  BY <1>1, <1>3 DEF ToSet
<1>6. QED
  BY <1>4, <1>5 DEF Body, Ins

\* Main is the outermost frame while it runs, and only there.
Bottom == phase = "main" => \A k \in DOMAIN stack : stack[k][1] = MainFunc <=> k = Len(stack)

\* Exit handlers run nothing that exits.
Handling == phase = "handlers" =>
  \E S \in SUBSET DOMAIN prog : Silent(prog, S) /\ \A k \in DOMAIN stack : stack[k][1] \in S

\* A report was printed by main, and since then main only exited.
Covered ==
  /\ phase = "constructors" => ByMain = {}
  /\ phase \in {"handlers", "ended"} /\ ByMain # {} /\ ExitsSeen =>
       \E m \in ByMain : /\ log[m].call = "print"
                         /\ \A k \in DOMAIN log : /\ log[k].call = "print" => k <= m
                                                  /\ k \in ByMain /\ k > m => PrintsAt(Ins(log[k].at))

\* No report before the end and one from then on, where all exits are seen and
\* quit_flag_ does not come back.
Final == \A k \in DOMAIN ran : Ins(ran[k].at).callee = "quit_flag_" => ran[k].outcome = "exit"
Once == ExitsSeen /\ Final =>
  /\ phase \in {"constructors", "main"} => \A k \in DOMAIN log : log[k].call # "print"
  /\ phase \in {"handlers", "ended"} =>
       \E m \in DOMAIN log : \A k \in DOMAIN log : log[k].call = "print" <=> k = m

RInv == Bottom /\ Handling /\ Covered /\ Once

LEMMA ReportsInit == Init => RInv
<1> SUFFICES ASSUME Init
             PROVE  RInv
  OBVIOUS
<1>1. phase = "rewriting"
  BY DEF Init
<1>2. QED
  BY <1>1 DEF RInv, Bottom, Handling, Covered, Once

LEMMA ReportsRewrite == IInv /\ Rewrite => RInv'
<1> SUFFICES ASSUME IInv, Rewrite
             PROVE  RInv'
  OBVIOUS
<1>1. prog' = prog /\ log' = log /\ phase = "rewriting"
  BY RewriteTellsNothing DEF given, history
<1>2. log = <<>>
  BY <1>1 DEF IInv, Rewriting
<1>3. CASE phase' = "rewriting"
  BY <1>3 DEF RInv, Bottom, Handling, Covered, Once
<1>4. CASE FinishModule
  <2>1. PICK p \in {"constructors", "main"} : Start(p)
    BY <1>4 DEF FinishModule
  <2>2. phase' = p /\ stack' = <<<<Root(p), 1, 1>>>>
    BY <2>1 DEF Start
  <2>3. Bottom'
    <3> SUFFICES ASSUME p = "main"
                 PROVE  \A k \in DOMAIN stack' : stack'[k][1] = MainFunc' <=> k = Len(stack')
      BY <2>2 DEF Bottom
    <3>1. stack' = <<<<MainFunc, 1, 1>>>>
      BY <2>2 DEF Root
    <3>2. MainFunc' = MainFunc
      BY <1>1 DEF MainFunc
    <3>3. DOMAIN stack' = {1} /\ Len(stack') = 1 /\ stack'[1][1] = MainFunc
      BY <3>1
    <3>4. QED
      BY <3>2, <3>3
  <2>4. Handling'
    BY <2>2 DEF Handling
  <2>5. DOMAIN log' = {}
    BY <1>1, <1>2
  <2>6. Covered'
    BY <2>2, <2>5 DEF Covered, ByMain
  <2>7. Once'
    BY <2>2, <2>5 DEF Once
  <2>8. QED
    BY <2>3, <2>4, <2>6, <2>7 DEF RInv
<1>5. CASE RunOnFunction
  BY <1>1, <1>3, <1>5 DEF RunOnFunction
<1>6. CASE Visit
  BY <1>1, <1>3, <1>6 DEF Visit
<1>7. QED
  BY <1>4, <1>5, <1>6 DEF Rewrite

LEMMA BottomNext == IInv /\ Bottom /\ Step => Bottom'
<1> SUFFICES ASSUME IInv, Bottom, Step, phase' = "main"
             PROVE  \A k \in DOMAIN stack' : stack'[k][1] = MainFunc' <=> k = Len(stack')
  BY DEF Bottom
<1>1. /\ stack \in Seq(Place) /\ DOMAIN stack = 1 .. Len(stack) /\ Len(stack) \in Nat \ {0} /\ Frames
  <2>1. Frames /\ Running
    BY StepExecutes DEF IInv
  <2>2. QED
    BY <2>1, HereFacts DEF Frames
<1>2. /\ MainFunc' = MainFunc
      /\ stack' \in Seq(Place') /\ DOMAIN stack' = 1 .. Len(stack') /\ Len(stack') \in Nat
  <2>1. prog' = prog
    BY StepExecutes DEF Execute, given
  <2>2. IInv'
    BY NextPreserves DEF Next
  <2>3. stack' \in Seq(Place')
    BY <2>2 DEF IInv, Frames
  <2>4. QED
    BY <2>1, <2>3, LenProperties DEF MainFunc
<1>3. CASE phase = "main" /\ Unwound
  <2>1. PICK m \in 1 .. Len(stack) : /\ Len(stack') = Len(stack) - m + 1
                                     /\ \A k \in 1 .. Len(stack') : stack'[k][1] = stack[m + k - 1][1]
    BY <1>3 DEF Unwound
  <2>2. ASSUME NEW k \in DOMAIN stack'
        PROVE  stack'[k][1] = MainFunc <=> k = Len(stack')
    <3>1. /\ k \in 1 .. Len(stack') /\ m + k - 1 \in 1 .. Len(stack)
          /\ m + k - 1 = Len(stack) <=> k = Len(stack')
      BY <1>1, <1>2, <2>1
    <3>2. stack[m + k - 1][1] = MainFunc <=> m + k - 1 = Len(stack)
      BY <1>1, <1>3, <3>1 DEF Bottom
    <3>3. stack'[k][1] = stack[m + k - 1][1]
      BY <2>1, <3>1
    <3>4. QED
      BY <3>1, <3>2, <3>3
  <2>3. QED
    BY <1>2, <2>2
<1>4. CASE phase = "main" /\ Deepened
  <2>1. /\ Len(stack') = Len(stack) + 1 /\ stack'[1][1] # MainFunc
        /\ \A k \in 2 .. Len(stack') : stack'[k][1] = stack[k - 1][1]
    BY <1>4 DEF Deepened
  <2>2. ASSUME NEW k \in DOMAIN stack'
        PROVE  stack'[k][1] = MainFunc <=> k = Len(stack')
    <3>1. CASE k = 1
      <4>1. k # Len(stack')
        BY <1>1, <2>1, <3>1
      <4>2. QED
        BY <2>1, <3>1, <4>1
    <3>2. CASE k # 1
      <4>1. k \in 2 .. Len(stack') /\ k - 1 \in 1 .. Len(stack) /\ (k - 1 = Len(stack) <=> k = Len(stack'))
        BY <1>1, <1>2, <2>1, <3>2
      <4>2. stack[k - 1][1] = MainFunc <=> k - 1 = Len(stack)
        BY <1>1, <1>4, <4>1 DEF Bottom
      <4>3. QED
        BY <2>1, <4>1, <4>2
    <3>3. QED
      BY <3>1, <3>2
  <2>3. QED
    BY <1>2, <2>2
<1>5. CASE Start("main")
  <2>1. stack' = <<<<MainFunc, 1, 1>>>>
    BY <1>5 DEF Start, Root
  <2>2. Len(stack') = 1 /\ DOMAIN stack' = {1} /\ stack'[1][1] = MainFunc
    BY <2>1
  <2>3. QED
    BY <1>2, <2>2
<1>6. ~Finish
  BY DEF Finish, Start
<1>7. QED
  BY <1>3, <1>4, <1>5, <1>6, Moves

\* What a handler executes is in a function that exits nowhere.
LEMMA HandlingMeans ==
    ASSUME IInv, Handling, Running, phase = "handlers"
    PROVE  /\ ~PrintsAt(Now)
           /\ Now.op \in {"call", "invoke"} => \A f \in Callees(Now) : ~ExitLike(f)
<1>1. PICK S \in SUBSET DOMAIN prog : Silent(prog, S) /\ \A k \in DOMAIN stack : stack[k][1] \in S
  BY DEF Handling
<1>2. Frames /\ Given
  BY DEF IInv, Frames
<1>3. Here = stack[1] /\ 1 \in DOMAIN stack /\ IsSite(Here)
  BY <1>2, HereFacts
<1>4. Here[1] \in S
  BY <1>1, <1>3
<1>5. Now \in Body(prog, Here[1])
  BY <1>2, <1>3, InBody DEF Now
<1>6. Now.op \in {"call", "invoke"} => \A f \in Callees(Now) : ~ExitLike(f)
  BY <1>1, <1>4, <1>5 DEF Silent
<1>7. PrintsAt(Now) => Now.op = "call" /\ Now.callee \in Callees(Now) /\ ExitLike(Now.callee)
  BY DEF PrintsAt, Callees, ExitLike, Indirect
<1>8. QED
  BY <1>6, <1>7

LEMMA HandlingNext == IInv /\ Handling /\ Step => Handling'
<1> SUFFICES ASSUME IInv, Handling, Step, phase' = "handlers"
             PROVE  \E S \in SUBSET DOMAIN prog' : Silent(prog', S) /\ \A k \in DOMAIN stack' : stack'[k][1] \in S
  BY DEF Handling
<1>1. /\ Here = stack[1] /\ IsSite(Here) /\ 1 \in DOMAIN stack /\ Given /\ Running
      /\ DOMAIN stack = 1 .. Len(stack) /\ Len(stack) \in Nat \ {0} /\ Frames
  <2>1. Frames /\ Running /\ Given
    BY StepExecutes DEF IInv, Frames
  <2>2. QED
    BY <2>1, HereFacts
<1>2. prog' = prog /\ DOMAIN stack' = 1 .. Len(stack') /\ Len(stack') \in Nat
  <2>1. prog' = prog
    BY StepExecutes DEF Execute, given
  <2>2. IInv'
    BY NextPreserves DEF Next
  <2>3. stack' \in Seq(Place')
    BY <2>2 DEF IInv, Frames
  <2>4. QED
    BY <2>1, <2>3, LenProperties
<1>3. CASE phase = "handlers"
  <2>1. PICK S \in SUBSET DOMAIN prog : Silent(prog, S) /\ \A k \in DOMAIN stack : stack[k][1] \in S
    BY <1>3 DEF Handling
  <2>2. CASE Unwound
    <3>1. PICK m \in 1 .. Len(stack) : /\ Len(stack') = Len(stack) - m + 1
                                       /\ \A k \in 1 .. Len(stack') : stack'[k][1] = stack[m + k - 1][1]
      BY <2>2 DEF Unwound
    <3>2. \A k \in 1 .. Len(stack') : m + k - 1 \in DOMAIN stack
      BY <1>1, <1>2, <3>1
    <3>3. \A k \in DOMAIN stack' : stack'[k][1] \in S
      BY <1>2, <2>1, <3>1, <3>2
    <3>4. QED
      BY <1>2, <2>1, <3>3
  <2>3. CASE Deepened
    <3>1. /\ stack'[1][1] \in Callees(Now) \cap DOMAIN prog /\ Now.op \in {"call", "invoke"}
          /\ Len(stack') = Len(stack) + 1
          /\ \A k \in 2 .. Len(stack') : stack'[k][1] = stack[k - 1][1]
      BY <2>3 DEF Deepened
    <3>2. stack'[1][1] \in S
      <4>1. Here[1] \in S
        BY <1>1, <2>1
      <4>2. Now \in Body(prog, Here[1])
        BY <1>1, InBody DEF Now
      <4>3. QED
        BY <2>1, <3>1, <4>1, <4>2 DEF Silent
    <3>3. \A k \in 2 .. Len(stack') : k - 1 \in DOMAIN stack
      BY <1>1, <1>2, <3>1
    <3>4. ASSUME NEW k \in DOMAIN stack'
          PROVE  stack'[k][1] \in S
      <4>1. k = 1 \/ k \in 2 .. Len(stack')
        BY <1>2
      <4>2. QED
        BY <2>1, <3>1, <3>2, <3>3, <4>1
    <3>5. QED
      BY <1>2, <2>1, <3>4
  <2>4. ~Finish
    BY <1>3 DEF Finish
  <2>5. ~Start("main")
    BY DEF Start
  <2>6. QED
    BY <2>2, <2>3, <2>4, <2>5, Moves
<1>4. CASE phase # "handlers"
  <2>1. Finish
    BY <1>4, Moves DEF Start
  <2>2. Start("handlers") /\ "handler" \in DOMAIN prog
    BY <2>1 DEF Finish
  <2>3. PICK S \in SUBSET DOMAIN prog : "handler" \in S /\ Silent(prog, S)
    BY <1>1, <2>2, ExitAssumption DEF Given, Orderly
  <2>4. stack' = <<<<"handler", 1, 1>>>>
    BY <2>2 DEF Start, Root
  <2>5. \A k \in DOMAIN stack' : stack'[k][1] \in S
    BY <2>3, <2>4
  <2>6. QED
    BY <1>2, <2>3, <2>5
<1>5. QED
  BY <1>3, <1>4

\* What a step tells the library, and what it leaves to be told.
LEMMA StepTells ==
    ASSUME IInv, Step
    PROVE  /\ prog' = prog /\ Given /\ IsSite(Here) /\ Running /\ phase \in {"constructors", "main", "handlers"}
           /\ Here = stack[1] /\ DOMAIN stack = 1 .. Len(stack)
           /\ 1 \in DOMAIN stack /\ (Here[1] = MainFunc => phase = "main")
           /\ DOMAIN log \subseteq Nat /\ DOMAIN log \subseteq DOMAIN log' /\ \A j \in DOMAIN log : log'[j] = log[j]
           /\ \A j \in DOMAIN log' : j \in Nat /\
                (j \notin DOMAIN log => /\ log'[j].phase = phase /\ log'[j].at = Here
                                        /\ \A k \in DOMAIN log : k < j)
           /\ Reports(Here) => \E m \in DOMAIN log' : /\ m \notin DOMAIN log
                /\ \A j \in DOMAIN log' : j \notin DOMAIN log =>
                     (log'[j].call = "print" <=> j = m) /\ (j > m => PrintsAt(Now))
           /\ ~Reports(Here) => \A j \in DOMAIN log' : j \notin DOMAIN log => log'[j].call # "print"
           /\ ExitsSeen' => ExitsSeen /\ (Exited => Reports(Here))
           /\ Final' => Final /\ (Now.callee = "quit_flag_" => Exited)
<1>1. PICK o \in Outcomes : Running /\ Execute(o)
  BY StepExecutes
<1>2. Frames /\ Records /\ Given
  BY DEF IInv, Frames
<1>3. /\ Here = stack[1] /\ 1 \in DOMAIN stack /\ IsSite(Here)
      /\ (Here[1] = MainFunc => phase = "main") /\ DOMAIN stack = 1 .. Len(stack)
  BY <1>1, <1>2, HereFacts
<1>4. phase \in {"constructors", "main", "handlers"}
  BY <1>1 DEF Running
<1>5. /\ prog' = prog /\ pass' = pass /\ Len(log) \in Nat /\ DOMAIN log = 1 .. Len(log)
      /\ \A j \in DOMAIN log : j \in DOMAIN log' /\ log'[j] = log[j]
      /\ \A j \in DOMAIN log' : j \in Nat /\
           (j \notin DOMAIN log => j > Len(log) /\ log'[j].phase = phase /\ log'[j].at = Here)
      /\ Reports(Here) => \E m \in DOMAIN log' : /\ m \notin DOMAIN log
           /\ \A j \in DOMAIN log' : j \notin DOMAIN log =>
                (log'[j].call = "print" <=> j = m) /\ (j > m => PrintsAt(Now))
      /\ ~Reports(Here) => \A j \in DOMAIN log' : j \notin DOMAIN log => log'[j].call # "print"
      /\ ran' = Append(ran, [at |-> Here, outcome |-> o, phase |-> phase]) /\ ran \in Seq(Ran)
  BY <1>1, <1>2, Tells
<1>6. \A j \in DOMAIN log', k \in DOMAIN log : j \notin DOMAIN log => k < j
  BY <1>5
<1>7. PICK n, r : /\ n \in Nat /\ n = Len(ran) + 1 /\ r = ran'[n]
                   /\ n \in DOMAIN ran' /\ r.at = Here
                   /\ \A k \in DOMAIN ran : k \in DOMAIN ran' /\ ran'[k] = ran[k]
  <2>1. PICK r : r = [at |-> Here, outcome |-> o, phase |-> phase]
    OBVIOUS
  <2>2. /\ \A k \in DOMAIN ran : k \in DOMAIN ran' /\ ran'[k] = ran[k]
        /\ Len(ran) + 1 \in DOMAIN ran' /\ ran'[Len(ran) + 1] = r
        /\ Len(ran) + 1 \in Nat
    BY <1>5, <2>1
  <2>3. r.at = Here
    BY <2>1
  <2>4. QED
    BY <2>2, <2>3
<1>8. \A s : (Ins(s))' = Ins(s)
  BY <1>5 DEF Ins
<1>9. \A f : Skipped(f)' <=> Skipped(f)
  BY <1>5 DEF Skipped
<1>10. Exited <=> r.outcome = "exit"
  BY <1>7 DEF Exited
<1>11. ASSUME ExitsSeen'
       PROVE  ExitsSeen /\ (Exited => Reports(Here))
  <2>1. \A k \in DOMAIN ran' : ran'[k].outcome = "exit" => PrintsAt(Ins(ran'[k].at)) /\ ~Skipped(ran'[k].at[1])
    BY <1>5, <1>11 DEF ExitsSeen, Ins, Skipped
  <2>2. ExitsSeen
    BY <1>7, <2>1 DEF ExitsSeen
  <2>3. Exited => PrintsAt(Ins(Here)) /\ ~Skipped(Here[1])
    BY <1>7, <1>10, <2>1
  <2>4. QED
    BY <2>2, <2>3 DEF Reports, SeenExit
<1>12. ASSUME Final'
       PROVE  Final /\ (Now.callee = "quit_flag_" => Exited)
  <2>1. \A k \in DOMAIN ran' : Ins(ran'[k].at).callee = "quit_flag_" => ran'[k].outcome = "exit"
    BY <1>5, <1>12 DEF Final, Ins
  <2>2. Final
    BY <1>7, <2>1 DEF Final
  <2>3. Now.callee = "quit_flag_" => Exited
    BY <1>7, <1>10, <2>1 DEF Now
  <2>4. QED
    BY <2>2, <2>3
<1>13. QED
  BY <1>1, <1>2, <1>3, <1>4, <1>5, <1>6, <1>11, <1>12

\* Main reports when it returns or exits, and nowhere else does a run end.
LEMMA Ends ==
    ASSUME IInv, Bottom, Handling, Step
    PROVE  \/ phase' = phase /\ ~Exited /\ (Now.callee # "quit_flag_" \/ phase = "handlers" => ~Reports(Here))
           \/ phase' = "died"
           \/ phase = "constructors" /\ phase' = "main" /\ ~Reports(Here)
           \/ phase \in {"constructors", "main"} /\ phase' \in {"handlers", "ended"} /\ (Exited \/ Reports(Here))
           \/ phase = "handlers" /\ phase' = "ended" /\ ~Reports(Here)
<1>1. /\ phase \in {"constructors", "main", "handlers"} /\ Here = stack[1] /\ 1 \in DOMAIN stack
      /\ (Here[1] = MainFunc => phase = "main") /\ Running
  BY StepTells
<1>2. phase = "main" => (Here[1] = MainFunc <=> Len(stack) = 1)
  BY <1>1 DEF Bottom
<1>3. phase = "handlers" => /\ ~PrintsAt(Now)
                            /\ Now.op \in {"call", "invoke"} => \A f \in Callees(Now) : ~ExitLike(f)
  BY <1>1, HandlingMeans
<1>4. /\ Reports(Here) => PrintsAt(Now) \/ (Here[1] = MainFunc /\ Now.op = "ret")
      /\ Here[1] = MainFunc /\ Now.op = "ret" => Reports(Here)
  BY DEF Reports, SeenExit, Now
<1>5. Now.op = "ret" => ~PrintsAt(Now)
  BY DEF PrintsAt
<1>6. Finish => phase' \in {"handlers", "ended"} /\ (phase = "handlers" => phase' = "ended")
  BY DEF Finish, Start
<1>7. CASE /\ phase' = phase /\ ~Exited /\ (PrintsAt(Now) => Now.callee = "quit_flag_")
           /\ Now.op = "ret" => Len(stack) > 1
  <2>1. ~(Here[1] = MainFunc /\ Now.op = "ret")
    <3>1. Here[1] = MainFunc => Len(stack) = 1
      BY <1>1, <1>2, Zenon
    <3>2. Now.op = "ret" => ~(Len(stack) = 1)
      <4>1. PICK n : n = Len(stack)
        OBVIOUS
      <4>2. Now.op = "ret" => n > 1
        BY <1>7, <4>1
      <4>3. n > 1 => n # 1
        OBVIOUS
      <4>4. QED
        BY <4>1, <4>2, <4>3
    <3>3. QED
      BY <3>1, <3>2, Zenon
  <2>2. QED
    BY <1>3, <1>4, <1>7, <2>1
<1>8. CASE phase = "constructors" /\ Now.op = "ret" /\ Start("main")
  BY <1>1, <1>4, <1>5, <1>8 DEF Start
<1>9. CASE /\ Exited /\ Finish
           /\ Now.op \in {"call", "invoke"} /\ \E f \in Callees(Now) : ExitLike(f)
  BY <1>1, <1>3, <1>6, <1>9
<1>10. CASE phase # "constructors" /\ Now.op = "ret" /\ Len(stack) = 1 /\ Finish
  BY <1>1, <1>2, <1>4, <1>5, <1>6, <1>10
<1>11. QED
  BY <1>7, <1>8, <1>9, <1>10, Moves

LEMMA CoveredNext == IInv /\ Bottom /\ Handling /\ Covered /\ Step => Covered'
<1> SUFFICES ASSUME IInv, Bottom, Handling, Covered, Step
             PROVE  Covered'
  OBVIOUS
<1>1. /\ prog' = prog /\ IsSite(Here) /\ phase \in {"constructors", "main", "handlers"}
      /\ DOMAIN log \subseteq Nat /\ DOMAIN log \subseteq DOMAIN log' /\ \A j \in DOMAIN log : log'[j] = log[j]
      /\ \A j \in DOMAIN log' : j \in Nat /\
           (j \notin DOMAIN log => /\ log'[j].phase = phase /\ log'[j].at = Here
                                   /\ \A k \in DOMAIN log : k < j)
      /\ Reports(Here) => \E m \in DOMAIN log' : /\ m \notin DOMAIN log
           /\ \A j \in DOMAIN log' : j \notin DOMAIN log =>
                (log'[j].call = "print" <=> j = m) /\ (j > m => PrintsAt(Now))
      /\ ~Reports(Here) => \A j \in DOMAIN log' : j \notin DOMAIN log => log'[j].call # "print"
      /\ ExitsSeen' => ExitsSeen /\ (Exited => Reports(Here))
  BY StepTells
<1>2. phase # "main" => ByMain' = ByMain
  BY <1>1 DEF ByMain
<1>3. CASE phase' = "died"
  BY <1>3 DEF Covered
<1>4. CASE phase' = phase /\ phase # "handlers"
  BY <1>1, <1>2, <1>4 DEF Covered
<1>5. CASE phase = "handlers" /\ ~Reports(Here)
  <2> SUFFICES ASSUME ByMain' # {}, ExitsSeen'
               PROVE  \E m \in ByMain' : /\ log'[m].call = "print"
                        /\ \A k \in DOMAIN log' : /\ log'[k].call = "print" => k <= m
                                                  /\ k \in ByMain' /\ k > m => PrintsAt(Ins(log'[k].at))
    <3>1. phase' # "constructors"
      BY <1>5, Ends
    <3>2. QED
      BY <1>1, <3>1 DEF Covered, Ins
  <2>1. PICK m \in ByMain : /\ log[m].call = "print"
                            /\ \A k \in DOMAIN log : /\ log[k].call = "print" => k <= m
                                                     /\ k \in ByMain /\ k > m => PrintsAt(Ins(log[k].at))
    BY <1>1, <1>2, <1>5 DEF Covered
  <2>2. m \in DOMAIN log /\ \A k \in ByMain : k \in DOMAIN log
    BY DEF ByMain
  <2>3. \A k \in DOMAIN log' : /\ log'[k].call = "print" => k <= m
                               /\ k \in ByMain /\ k > m => PrintsAt(Ins(log'[k].at))
    BY <1>1, <1>5, <2>1, <2>2
  <2>4. QED
    BY <1>1, <1>2, <1>5, <2>1, <2>2, <2>3
<1>6. CASE phase = "constructors" /\ phase' = "main"
  BY <1>6 DEF Covered
<1>7. CASE phase = "constructors" /\ phase' \in {"handlers", "ended"}
  BY <1>2, <1>7 DEF Covered
<1>8. CASE phase = "main" /\ phase' \in {"handlers", "ended"} /\ (Exited \/ Reports(Here))
  <2> SUFFICES ASSUME ExitsSeen'
               PROVE  \E m \in ByMain' : /\ log'[m].call = "print"
                        /\ \A k \in DOMAIN log' : /\ log'[k].call = "print" => k <= m
                                                  /\ k \in ByMain' /\ k > m => PrintsAt(Ins(log'[k].at))
    BY <1>1, <1>8 DEF Covered, Ins
  <2>1. PICK m \in DOMAIN log' : /\ m \notin DOMAIN log
          /\ \A j \in DOMAIN log' : j \notin DOMAIN log =>
               (log'[j].call = "print" <=> j = m) /\ (j > m => PrintsAt(Now))
    BY <1>1, <1>8
  <2>2. m \in ByMain' /\ log'[m].call = "print" /\ m \in Nat /\ \A k \in DOMAIN log : k < m
    BY <1>1, <1>8, <2>1 DEF ByMain
  <2>3. ASSUME NEW k \in DOMAIN log'
        PROVE  /\ log'[k].call = "print" => k <= m
               /\ k > m => PrintsAt(Ins(log'[k].at))
    <3>1. CASE k \in DOMAIN log
      BY <1>1, <2>2, <3>1
    <3>2. CASE k \notin DOMAIN log
      <4>1. (log'[k].call = "print" => k = m) /\ (k > m => PrintsAt(Now)) /\ log'[k].at = Here
        BY <1>1, <2>1, <3>2
      <4>2. Ins(log'[k].at) = Now
        BY <4>1 DEF Now
      <4>3. QED
        BY <2>2, <4>1, <4>2
    <3>3. QED
      BY <3>1, <3>2
  <2>4. QED
    BY <2>2, <2>3
<1>9. QED
  BY <1>1, <1>3, <1>4, <1>5, <1>6, <1>7, <1>8, Ends

LEMMA OnceNext == IInv /\ Bottom /\ Handling /\ Once /\ Step => Once'
<1> SUFFICES ASSUME IInv, Bottom, Handling, Once, Step, ExitsSeen', Final'
             PROVE  /\ phase' \in {"constructors", "main"} => \A k \in DOMAIN log' : log'[k].call # "print"
                    /\ phase' \in {"handlers", "ended"} =>
                         \E m \in DOMAIN log' : \A k \in DOMAIN log' : log'[k].call = "print" <=> k = m
  BY DEF Once
<1>1. /\ phase \in {"constructors", "main", "handlers"}
      /\ DOMAIN log \subseteq DOMAIN log' /\ \A j \in DOMAIN log : log'[j] = log[j]
      /\ Reports(Here) => \E m \in DOMAIN log' : /\ m \notin DOMAIN log
           /\ \A j \in DOMAIN log' : j \notin DOMAIN log => (log'[j].call = "print" <=> j = m)
      /\ ~Reports(Here) => \A j \in DOMAIN log' : j \notin DOMAIN log => log'[j].call # "print"
      /\ ExitsSeen /\ Final /\ (Exited => Reports(Here)) /\ (Now.callee = "quit_flag_" => Exited)
  BY StepTells
<1>2. \/ phase' = phase /\ ~Reports(Here)
      \/ phase' = "died"
      \/ phase = "constructors" /\ phase' = "main" /\ ~Reports(Here)
      \/ phase \in {"constructors", "main"} /\ phase' \in {"handlers", "ended"} /\ Reports(Here)
      \/ phase = "handlers" /\ phase' = "ended" /\ ~Reports(Here)
  BY <1>1, Ends
<1>3. /\ phase \in {"constructors", "main"} => \A k \in DOMAIN log : log[k].call # "print"
      /\ phase = "handlers" => \E m \in DOMAIN log : \A k \in DOMAIN log : log[k].call = "print" <=> k = m
  BY <1>1 DEF Once
<1>4. CASE ~Reports(Here) /\ phase \in {"constructors", "main"} /\ phase' \in {"constructors", "main"}
  BY <1>1, <1>3, <1>4
<1>5. CASE Reports(Here) /\ phase \in {"constructors", "main"} /\ phase' \in {"handlers", "ended"}
  <2>1. PICK m \in DOMAIN log' : /\ m \notin DOMAIN log
          /\ \A j \in DOMAIN log' : j \notin DOMAIN log => (log'[j].call = "print" <=> j = m)
    BY <1>1, <1>5
  <2>2. \A k \in DOMAIN log' : log'[k].call = "print" <=> k = m
    BY <1>1, <1>3, <1>5, <2>1
  <2>3. QED
    BY <1>5, <2>2
<1>6. CASE ~Reports(Here) /\ phase = "handlers" /\ phase' \in {"handlers", "ended"}
  <2>1. PICK m \in DOMAIN log : \A k \in DOMAIN log : log[k].call = "print" <=> k = m
    BY <1>3, <1>6
  <2>2. \A k \in DOMAIN log' : log'[k].call = "print" <=> k = m
    BY <1>1, <1>6, <2>1
  <2>3. QED
    BY <1>1, <1>6, <2>2
<1>7. CASE phase' = "died"
  BY <1>7
<1>8. QED
  BY <1>1, <1>2, <1>4, <1>5, <1>6, <1>7, Ends

LEMMA ReportsNext == IInv /\ RInv /\ [Next]_vars => RInv'
<1> SUFFICES ASSUME IInv, RInv, [Next]_vars
             PROVE  RInv'
  OBVIOUS
<1>1. CASE Step
  BY <1>1, BottomNext, HandlingNext, CoveredNext, OnceNext DEF RInv
<1>2. CASE Rewrite
  BY <1>2, ReportsRewrite
<1>3. CASE UNCHANGED vars
  <2>1. /\ pass' = pass /\ prog' = prog /\ stack' = stack /\ phase' = phase /\ log' = log /\ ran' = ran
    BY <1>3 DEF vars, given, history
  <2>2. Bottom' /\ Handling'
    BY <2>1 DEF RInv, Bottom, Handling, MainFunc
  <2>3. ExitsSeen' <=> ExitsSeen
    BY <2>1 DEF ExitsSeen, Ins, Skipped
  <2>4. Final' <=> Final
    BY <2>1 DEF Final, Ins
  <2>5. Covered'
    BY <2>1, <2>3 DEF RInv, Covered, ByMain, Ins
  <2>6. Once'
    BY <2>1, <2>3, <2>4 DEF RInv, Once
  <2>7. QED
    BY <2>2, <2>5, <2>6 DEF RInv
<1>4. QED
  BY <1>1, <1>2, <1>3 DEF Next

LEMMA ReportsInvariance == Spec => []RInv
<1>1. QED
  BY ReportsInit, ReportsNext, Invariance, PTL DEF Spec

\* When main returned, or called exit at any depth, the last report was printed by
\* main and leaves out nothing main did but the exit call itself
\* (BranchProfiling.cpp:48-63, 78-84): an exit handler never overwrites it.  Runs
\* with an exit that the pass does not see are excepted: through a pointer, by an
\* invoke, or in an initializer that the pass skips (ExitsSeen).
THEOREM InstrumentationReportCoversMain == Spec => []ReportCoversMain
<1>1. IInv /\ RInv => ReportCoversMain
  <2> SUFFICES ASSUME IInv, RInv, phase \in {"handlers", "ended"}, ByMain # {}, ExitsSeen
               PROVE  LastPrint \in ByMain /\ \A k \in ByMain : k > LastPrint => PrintsAt(Ins(log[k].at))
    BY DEF ReportCoversMain
  <2>1. PICK m \in ByMain : /\ log[m].call = "print"
                            /\ \A k \in DOMAIN log : /\ log[k].call = "print" => k <= m
                                                     /\ k \in ByMain /\ k > m => PrintsAt(Ins(log[k].at))
    BY DEF RInv, Covered
  <2>2. DOMAIN log \subseteq Nat /\ m \in DOMAIN log /\ ByMain \subseteq DOMAIN log
    <3>1. log \in Seq(Tellings)
      BY DEF IInv, Records
    <3>2. DOMAIN log = 1 .. Len(log) /\ Len(log) \in Nat
      BY <3>1, LenProperties
    <3>3. QED
      BY <3>2 DEF ByMain
  <2> DEFINE P == {k \in DOMAIN log : log[k].call = "print"} \cup {0}
  <2>3. P \subseteq Int /\ m \in P /\ \A k \in P : k <= m
    BY <2>1, <2>2
  <2> HIDE DEF P
  <2>4. Max(P) = m
    BY <2>3, MaxIs
  <2>5. LastPrint = m
    BY <2>4 DEF LastPrint, P
  <2>6. QED
    BY <2>1, <2>2, <2>5
<1>2. QED
  BY <1>1, Invariance, ReportsInvariance, PTL

\* A run that ends, without the exits that the pass does not see, has printed one
\* report, wherever it ended: main's return and the calls of exit are the only
\* places that print, and each of them is the last thing of main or of a
\* constructor, unless a function named like quit_flag_ came back.
THEOREM InstrumentationReportedOnce == Spec => []ReportedOnce
<1>1. RInv => ReportedOnce
  <2> SUFFICES ASSUME RInv, phase = "ended", ExitsSeen, Final
               PROVE  Cardinality({k \in DOMAIN log : log[k].call = "print"}) = 1
    BY DEF ReportedOnce, Final
  <2>1. PICK m \in DOMAIN log : \A k \in DOMAIN log : log[k].call = "print" <=> k = m
    BY DEF RInv, Once
  <2>2. {k \in DOMAIN log : log[k].call = "print"} = {m}
    BY <2>1
  <2>3. QED
    BY <2>2, FS_Singleton
<1>2. QED
  BY <1>1, ReportsInvariance, PTL

=============================================================================
