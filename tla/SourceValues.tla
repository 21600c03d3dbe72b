---------------------------- MODULE SourceValues -----------------------------
(***************************************************************************)
(* The value of a call in the source, for the runs: what SourceMachine     *)
(* says of its parameter CallValue, as a recursive operator.               *)
(***************************************************************************)
EXTENDS Program

RECURSIVE Called(_, _, _)
Called(p, j, args) ==
    LET f   == p.funcs[j]
        rho == Bound(f.params, args)
        val[e \in SubExps(f.e)] ==
            CASE e.k = "num"    -> [op |-> "lit"]
              [] e.k = "id"     -> rho[e.n]
              [] e.k = "unary"  -> [op |-> "unary", of |-> val[e.e]]
              [] e.k = "binary" -> [op |-> "binary", l |-> val[e.l], r |-> val[e.r]]
              [] e.k = "call"   -> Called(p, FuncNamed(p, e.n),
                                          [i \in DOMAIN e.args |-> val[e.args[i]]])
    IN  IF CallsItself(f) THEN [op |-> "diverges"] ELSE val[f.e]
=============================================================================
