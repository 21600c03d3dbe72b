------------------------------- MODULE MCPcode --------------------------------
(* Small instances of PcodeMachine for TLC. *)
EXTENDS PcodeMachine, SourceValues, TLC

MCIds   == {Id(n) : n \in Idents}
MCPairs == {q \in Idents \X Idents : q[1] # q[2]}
MCExps  == MCIds \cup {Binary(Num, Unary(e)) : e \in MCIds}
             \cup {Call(n, <<Id(m), Call(n, <<Num, Id(m)>>)>>) : <<n, m>> \in MCPairs}
             \cup {Call(n, <<Call(m, <<>>)>>) : <<n, m>> \in MCPairs}
MCConds == {Binary(e, Num) : e \in MCIds}

\* The value the runs give a call is the one the proofs speak of: checked for
\* every program of two functions, and every choice of arguments.
MCFuncs    == [n : Idents, params : ParamLists, e : MCExps]
MCPrograms == [funcs : MCFuncs \X MCFuncs, decls : {<<>>}, stmts : {<<>>}]
MCArgs(ps) == [DOMAIN ps -> {[op |-> "lit"], [op |-> "read"]}]

ASSUME CalledAssumption ==
    \A p \in MCPrograms : \A j \in DOMAIN p.funcs :
        \A args \in MCArgs(p.funcs[j].params) : CallMeans(p, j, args)
=============================================================================
