------------------------------ MODULE IrValues -------------------------------
(***************************************************************************)
(* The value of a term when it runs: what the loads, the arithmetic and    *)
(* the calls that compute it give.  A cell of main holds the statement     *)
(* that stored there last, a cell of a function the argument.              *)
(***************************************************************************)
EXTENDS Program

\* The functions a term calls.
RECURSIVE Callees(_)
Callees(v) ==
    CASE v.op = "unary"  -> Callees(v.of)
      [] v.op = "binary" -> Callees(v.l) \cup Callees(v.r)
      [] v.op = "call"   -> {v.fn} \cup UNION {Callees(a) : a \in RanOf(v.args)}
      [] OTHER           -> {}

\* The value of term v, where cells gives the contents of the cells and fns
\* are the functions.  A function that calls itself never returns.
RECURSIVE Run(_, _, _)
Run(v, cells, fns) ==
    CASE v.op = "lit"    -> v
      [] v.op = "load"   -> cells[v.cell]
      [] v.op = "unary"  -> [v EXCEPT !.of = Run(@, cells, fns)]
      [] v.op = "binary" -> [v EXCEPT !.l = Run(@, cells, fns), !.r = Run(@, cells, fns)]
      [] v.op = "call"   ->
            LET ret  == fns[v.fn].ret
                args == [i \in DOMAIN v.args |-> Run(v.args[i], cells, fns)]
            IN  IF v.fn \in Callees(ret) THEN [op |-> "diverges"]
                ELSE Run(ret, [c \in [fn : {v.fn}, ix : DOMAIN args] |-> args[c.ix]], fns)
=============================================================================
