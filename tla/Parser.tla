-------------------------------- MODULE Parser --------------------------------
(***************************************************************************)
(* Class Parser of libs/tolang/src/parser.cpp: recursive descent with one  *)
(* token read ahead and panic-mode recovery.                               *)
(*                                                                         *)
(* A parser state is the lexer, the current and the next token and what    *)
(* was reported, each message once.  A _parse operator takes the state     *)
(* before and returns Got: the state after, and the node or Null.          *)
(***************************************************************************)
EXTENDS Lexer

Got(p, node) == [p |-> p, node |-> node]

\* What comes of result r; r is evaluated once.
Then(r, Op(_)) == CHOOSE v \in {Op(x) : x \in {r}} : TRUE

_next_token(p) ==
    Then(next(p.lex), LAMBDA n :
        [p EXCEPT !.tok = p.pre, !.pre = n.token, !.lex = n.lexer, !.errs = @ \cup n.errs])

\* The constructor, and the first two tokens parse() reads.
NewParser(text) ==
    LET none == Token("err", <<>>, 0)
    IN  _next_token(_next_token([lex |-> NewLexer(text), tok |-> none, pre |-> none, errs |-> {}]))

\* Mutant: the line of the token after the offending one.
MutError(p, what) == [p EXCEPT !.errs = @ \cup {[line |-> p.pre.line, what |-> what]}]

Error(p, what) == [p EXCEPT !.errs = @ \cup {[line |-> p.tok.line, what |-> what]}]

_match(p, expected) ==
    Then(p, LAMBDA q : IF q.tok.type = expected THEN _next_token(q) ELSE Error(q, expected))

\* Mutants: a semicolon is not looked for; one at hand is left alone.
RECURSIVE MutRecoverFar(_)
MutRecoverFar(p) ==
    Then(p, LAMBDA q : IF q.tok.type = "eof" THEN q ELSE MutRecoverFar(_next_token(q)))
RECURSIVE MutRecoverStay(_)
MutRecoverStay(p) ==
    Then(p, LAMBDA q : IF q.tok.type \in {";", "eof"} THEN q ELSE MutRecoverStay(_next_token(q)))

\* At least one token goes, whatever it is, then all up to a semicolon or the
\* end, and that.
RECURSIVE _recover(_)
_recover(p) ==
    Then(_next_token(p), LAMBDA q :
        IF q.tok.type \in {";", "eof"} THEN _next_token(q) ELSE _recover(q))

\* An error in place of a node.
GiveUp(p, what) == Got(_recover(Error(p, what)), Null)

-----------------------------------------------------------------------------
_parse_ident(p) ==
    IF p.tok.type = "identifier" THEN Got(_next_token(p), Ident(p.tok))
    ELSE Got(Error(p, "identifier"), Null)

_parse_number(p) == Got(_next_token(p), Number(p.tok))

RECURSIVE _parse_exp(_)

_parse_primary_exp(p) ==
    CASE p.tok.type = "(" ->
            Then(_parse_exp(_next_token(p)), LAMBDA e : Got(_match(e.p, ")"), e.node))
      [] p.tok.type = "identifier" ->
            Then(_parse_ident(p), LAMBDA id : Got(id.p, IdentExp(p.tok.line, id.node)))
      [] p.tok.type = "number" -> _parse_number(p)
      [] OTHER -> GiveUp(p, "primary expression")

\* The expressions up to the last that no comma follows, after these.
RECURSIVE MoreRParams(_, _)
MoreRParams(p, es) ==
    Then(_parse_exp(p), LAMBDA e :
        IF e.p.tok.type = "," THEN MoreRParams(_next_token(e.p), Append(es, e.node))
        ELSE Got(e.p, Append(es, e.node)))

_parse_func_r_params(p) == MoreRParams(p, <<>>)

IsCall(p) == p.tok.type = "identifier" /\ p.pre.type = "("

RECURSIVE _parse_unary_exp(_)
_parse_unary_exp(p) ==
    CASE IsCall(p) ->
            Then(_parse_ident(p), LAMBDA id :
            Then(_match(id.p, "("), LAMBDA open :
            Then(IF open.tok.type = ")" THEN Got(open, <<>>) ELSE _parse_func_r_params(open), LAMBDA args :
                Got(_match(args.p, ")"), CallExp(p.tok.line, id.node, args.node)))))
      [] ~IsCall(p) /\ p.tok.type \in {"identifier", "number", "("} -> _parse_primary_exp(p)
      [] p.tok.type \in {"+", "-"} ->
            Then(_next_token(p), LAMBDA q :
            Then(_parse_unary_exp(q), LAMBDA e :
                Got(e.p, UnaryExp(p.tok.line, p.tok.type, e.node))))
      [] OTHER -> GiveUp(p, "unary expression")

\* What is left of a chain of operators of one precedence, and its left part.
RECURSIVE MulChain(_, _)
MulChain(line, left) ==
    IF left.p.tok.type \notin {"*", "/"} THEN left
    ELSE Then(_next_token(left.p), LAMBDA q :
         Then(_parse_unary_exp(q), LAMBDA r :
         Then(Got(r.p, BinaryExp(line, left.p.tok.type, left.node, r.node)), LAMBDA longer :
            MulChain(line, longer))))

_parse_mul_exp(p) == Then(_parse_unary_exp(p), LAMBDA e : MulChain(p.tok.line, e))

\* Mutant: the operators of a sum associate to the right.
RECURSIVE MutAddChain(_, _)
MutAddChain(line, left) ==
    IF left.p.tok.type \notin {"+", "-"} THEN left
    ELSE Then(_next_token(left.p), LAMBDA q :
         Then(MutAddChain(q.tok.line, _parse_mul_exp(q)), LAMBDA r :
            Got(r.p, BinaryExp(line, left.p.tok.type, left.node, r.node))))

RECURSIVE AddChain(_, _)
AddChain(line, left) ==
    IF left.p.tok.type \notin {"+", "-"} THEN left
    ELSE Then(_next_token(left.p), LAMBDA q :
         Then(_parse_mul_exp(q), LAMBDA r :
         Then(Got(r.p, BinaryExp(line, left.p.tok.type, left.node, r.node)), LAMBDA longer :
            AddChain(line, longer))))

_parse_add_exp(p) == Then(_parse_mul_exp(p), LAMBDA e : AddChain(p.tok.line, e))

_parse_exp(p) == Then(p, LAMBDA q : _parse_add_exp(q))

\* Without an operator the condition keeps the one it was made with, LT, and
\* the right side is looked for all the same.
_parse_cond(p) ==
    Then(_parse_exp(p), LAMBDA l :
    Then(_parse_exp(IF l.p.tok.type \in Relations THEN _next_token(l.p)
                    ELSE Error(l.p, "comparison operator")), LAMBDA r :
        Got(r.p, Cond(p.tok.line, IF l.p.tok.type \in Relations THEN l.p.tok.type ELSE "<",
                      l.node, r.node))))

-----------------------------------------------------------------------------
RECURSIVE MoreFParams(_, _)
MoreFParams(p, ids) ==
    Then(_parse_ident(p), LAMBDA id :
        IF id.p.tok.type = "," THEN MoreFParams(_next_token(id.p), Append(ids, id.node))
        ELSE Got(id.p, Append(ids, id.node)))

_parse_func_f_params(p) == MoreFParams(p, <<>>)

_parse_func_def(p) ==
    Then(_parse_ident(_match(p, "fn")), LAMBDA id :
    Then(_match(id.p, "("), LAMBDA open :
    Then(IF open.tok.type = ")" THEN Got(open, <<>>) ELSE _parse_func_f_params(open), LAMBDA ps :
    Then(_parse_exp(_match(_match(ps.p, ")"), "=>")), LAMBDA e :
        Got(_match(e.p, ";"), FuncDef(p.tok.line, id.node, ps.node, e.node))))))

_parse_var_decl(p) ==
    Then(_parse_ident(_match(p, "var")), LAMBDA id :
        Got(_match(id.p, ";"), VarDecl(p.tok.line, id.node)))

_parse_name_stmt(p) ==
    Then(_parse_ident(_next_token(p)), LAMBDA id :
        Got(_match(id.p, ";"), NameStmt(p.tok.type, p.tok.line, id.node)))

_parse_put_stmt(p) ==
    Then(_parse_exp(_next_token(p)), LAMBDA e : Got(_match(e.p, ";"), PutStmt(p.tok.line, e.node)))

_parse_let_stmt(p) ==
    Then(_parse_ident(_next_token(p)), LAMBDA id :
    Then(_parse_exp(_match(id.p, "=")), LAMBDA e :
        Got(_match(e.p, ";"), LetStmt(p.tok.line, id.node, e.node))))

_parse_if_stmt(p) ==
    Then(_parse_cond(_next_token(p)), LAMBDA c :
    Then(_parse_ident(_match(c.p, "to")), LAMBDA id :
        Got(_match(id.p, ";"), IfStmt(p.tok.line, c.node, id.node))))

_parse_stmt(p) ==
    CASE p.tok.type \in {"get", "tag", "to"} -> _parse_name_stmt(p)
      [] p.tok.type = "put" -> _parse_put_stmt(p)
      [] p.tok.type = "let" -> _parse_let_stmt(p)
      [] p.tok.type = "if"  -> _parse_if_stmt(p)
      [] OTHER -> GiveUp(p, "statement")
=============================================================================
