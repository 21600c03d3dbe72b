------------------------------- MODULE Meaning --------------------------------
(***************************************************************************)
(* What an expression of a program means.                                  *)
(***************************************************************************)
EXTENDS Program

\* The value of a call: of function number j of program p, for these arguments.
\* Which operator that is, CallsMean says.
CONSTANT CallValue(_, _, _)

\* The value of an expression of program p, from the values of its parts; rho
\* gives that of every variable in reach.
ValueOf(e, val, rho, p) ==
    CASE e.k = "num"    -> [op |-> "lit"]
      [] e.k = "id"     -> rho[e.n]
      [] e.k = "unary"  -> [op |-> "unary", of |-> val[e.e]]
      [] e.k = "binary" -> [op |-> "binary", l |-> val[e.l], r |-> val[e.r]]
      [] e.k = "call"   -> CallValue(p, FuncNamed(p, e.n), [i \in DOMAIN e.args |-> val[e.args[i]]])

Eval(exp, rho, p) ==
    LET val[e \in SubExps(exp)] == ValueOf(e, val, rho, p)
    IN  val[exp]

\* A call has the value of its function's expression over the arguments; one
\* of a function that calls itself, there being nothing to stop it, has none.
CallMeans(p, j, args) ==
    LegalSoFar(p) /\ p.funcs \in Seq(RanOf(p.funcs)) /\ j \in DOMAIN p.funcs =>
        CallValue(p, j, args) = IF CallsItself(p.funcs[j]) THEN [op |-> "diverges"]
                                ELSE Eval(p.funcs[j].e, Bound(p.funcs[j].params, args), p)

\* There is such an operator: a function of a legal program calls itself and
\* those before it only, so the equation defines its value from theirs.
CallsMean == \A p, j, args : CallMeans(p, j, args)
=============================================================================
