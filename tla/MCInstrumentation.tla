-------------------------- MODULE MCInstrumentation --------------------------
(* Small programs: every combination of a few bodies of main, a function it *)
(* calls, constructors and an exit handler.                                 *)
EXTENDS Instrumentation

I(op, values) == [op |-> op, callee |-> "none", pointees |-> {}, to |-> <<>>, values |-> values]
To(op, blocks) == [I(op, IF op = "condbr" THEN 1 ELSE 0) EXCEPT !.to = blocks]
CallOf(f) == [I("call", 0) EXCEPT !.callee = f]
Through(ins, functions) == [ins EXCEPT !.callee = Indirect, !.pointees = functions, !.values = 1]
Ret == I("ret", 0)
Never(f) == <<CallOf(f), I("unreachable", 0)>>

Entries ==
  {p \o t : p \in {<<>>, <<CallOf("llvm.dbg.value"), I("load", 2)>>, <<CallOf("f")>>, <<CallOf("quit_flag_")>>,
                   <<CallOf("llvm.memcpy"), Through(CallOf("f"), {"f", "exit"})>>},
            t \in {<<To("condbr", <<2, 3>>)>>, <<To("br", <<2>>)>>, <<Ret>>, Never("exit"),
                   <<[To("invoke", <<2, 4>>) EXCEPT !.callee = "f"]>>,
                   <<Through(To("invoke", <<2, 4>>), {"f", "quit_flag_"})>>}}
Seconds == {<<I("phi", 1), I("store", 1), To("condbr", <<2, 3>>)>>, <<I("other", 2), Ret>>}
Thirds == {<<Ret>>, Never("f90_stop08a")}
Pad == <<I("landingpad", 1), Ret>>
Bodies == {<<I("load", 2), Ret>>, Never("exit"), Never("__cxa_throw")}
CallAndReturn(f) == <<<<CallOf(f), Ret>>>>
Global == <<<<I("store", 1), To("br", <<2>>)>>, <<Ret>>>>

Mains == {<<a, b, c, Pad>> : a \in Entries, b \in Seconds, c \in Thirds}
Base == {[f |-> <<g>>] : g \in Bodies}
Starts == {[x \in {} |-> 0],
           [x \in {"_GLOBAL__sub_I_", "__cxx_global_var_init"} |->
              IF x = "_GLOBAL__sub_I_" THEN CallAndReturn("__cxx_global_var_init") ELSE Global],
           [x \in {"_GLOBAL__sub_I_"} |-> <<Never("exit")>>]}
\* Constructors that run instrumented code: a second global variable's
\* initializer has a number behind its name, and initializers call functions.
EarlyStarts ==
  {[x \in {"_GLOBAL__sub_I_", "__cxx_global_var_init.1"} |->
      IF x = "_GLOBAL__sub_I_" THEN CallAndReturn("__cxx_global_var_init.1") ELSE Global],
   [x \in {"_GLOBAL__sub_I_", "__cxx_global_var_init"} |->
      IF x = "_GLOBAL__sub_I_" THEN CallAndReturn("__cxx_global_var_init") ELSE CallAndReturn("f")]}
Ends == {[x \in {} |-> 0], [x \in {"handler"} |-> Global]}

Join(g, h) == [x \in DOMAIN g \cup DOMAIN h |-> IF x \in DOMAIN g THEN g[x] ELSE h[x]]
\* The name of main: Fortran's goes with Fortran's stop.
NameOf(m) == IF m[3] = <<Ret>> THEN "main" ELSE "MAIN_"
MCPrograms == {Join(Join(b, s), Join(e, [x \in {NameOf(m)} |-> m])) :
  b \in Base, s \in Starts \cup EarlyStarts, e \in Ends, m \in Mains}
=============================================================================
