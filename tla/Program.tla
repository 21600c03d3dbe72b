------------------------------- MODULE Program --------------------------------
(***************************************************************************)
(* The programs of the language: the syntax tree of tolang/ast.h, with the *)
(* null children a syntax error leaves, and which programs mean something. *)
(* A program is a record of its function definitions, its variable         *)
(* declarations and its statements, in order.                              *)
(***************************************************************************)
EXTENDS Integers, Sequences, FiniteSets

CONSTANTS
    Idents,   \* identifiers
    NoIdent,  \* the null ident of a node the parser could not complete
    Depth     \* bound on the depth of the expressions

ASSUME IdentAssumption == NoIdent \notin Idents
ASSUME DepthAssumption == Depth \in Nat \ {0}

\* Expressions and, as binary ones, conditions: which operator one has makes
\* no difference to the analysis.
Num          == [k |-> "num"]
Bad          == [k |-> "bad"]   \* a null child
Id(n)        == [k |-> "id", n |-> n]
Unary(e)     == [k |-> "unary", e |-> e]
Binary(l, r) == [k |-> "binary", l |-> l, r |-> r]
Call(n, args) == [k |-> "call", n |-> n, args |-> args]

RanOf(s) == {s[i] : i \in DOMAIN s}

Children(e) == CASE e.k = "unary"  -> {e.e}
                 [] e.k = "binary" -> {e.l, e.r}
                 [] e.k = "call"   -> RanOf(e.args)
                 [] OTHER          -> {}

\* The parts of an expression by their depth, and all of them.
PartsAt(e) ==
    LET at[d \in 1 .. Depth] == IF d = 1 THEN {e} ELSE UNION {Children(x) : x \in at[d - 1]}
    IN  at
SubExps(e) == UNION {PartsAt(e)[d] : d \in 1 .. Depth}

\* x is an expression whose children are among S.
Node(x, S) ==
    \/ x \in {Num, Bad}
    \/ \E n \in Idents : \/ x = Id(n)
                         \/ x.k = "call" /\ x.args \in Seq(S) /\ x = Call(n, x.args)
    \/ \E l, r \in S : x \in {Unary(l), Binary(l, r)}

\* An expression of at most that depth.
Tree(e) == /\ \A x \in SubExps(e) : Node(x, SubExps(e))
           /\ \A x \in PartsAt(e)[Depth] : Children(x) = {}

EmptyProgram == [funcs |-> <<>>, decls |-> <<>>, stmts |-> <<>>]

-----------------------------------------------------------------------------
(***************************************************************************)
(* A program p that has a meaning.                                         *)
(***************************************************************************)
Definitions(p, t) == {i \in DOMAIN p.stmts : p.stmts[i].k = "tag" /\ p.stmts[i].n = t}
Declared(p)       == RanOf(p.decls)
Defined(p)        == {f.n : f \in RanOf(p.funcs)}

\* An expression uses these variables, and calls one of the first `known`
\* functions with as many arguments as it has parameters.
WellFormed(e, variables, p, known) ==
    \A x \in SubExps(e) :
        /\ x.k = "id" => x.n \in variables
        /\ x.k = "call" => \E j \in 1 .. known : /\ p.funcs[j].n = x.n
                                                 /\ Len(p.funcs[j].params) = Len(x.args)

\* The function of a name, the value each parameter is bound to, and whether a
\* function calls itself.
FuncNamed(p, n) == CHOOSE j \in DOMAIN p.funcs : p.funcs[j].n = n
Bound(ps, args) == [n \in RanOf(ps) |-> args[CHOOSE i \in DOMAIN ps : ps[i] = n]]
CallsItself(f)  == \E x \in SubExps(f.e) : x.k = "call" /\ x.n = f.n

LegalStmt(p, s) ==
    /\ s.k \in {"tag", "if", "to"} => Cardinality(Definitions(p, s.n)) <= 1
    /\ s.k \in {"get", "let"} => s.n \in Declared(p)
    /\ s.k \in {"put", "let", "if"} => WellFormed(s.e, Declared(p), p, Len(p.funcs))

LegalFunc(p, j) ==
    LET f == p.funcs[j]
    IN  /\ WellFormed(f.e, RanOf(f.params), p, j)
        /\ Cardinality(RanOf(f.params)) = Len(f.params)

\* Every name used is declared and no tag defined twice: the beginning of a
\* program that has a meaning.
LegalSoFar(p) ==
    /\ \A s \in RanOf(p.stmts) : LegalStmt(p, s)
    /\ \A j \in DOMAIN p.funcs : LegalFunc(p, j)
    /\ Cardinality(Declared(p)) = Len(p.decls)
    /\ Cardinality(Defined(p)) = Len(p.funcs)

\* And every tag jumped to is defined.
Legal(p) ==
    /\ LegalSoFar(p)
    /\ \A s \in RanOf(p.stmts) : s.k \in {"if", "to"} => Definitions(p, s.n) # {}
=============================================================================
