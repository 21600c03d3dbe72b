-------------------------------- MODULE Syntax --------------------------------
(***************************************************************************)
(* The tokens of token.h and the nodes of ast.h as the parser makes them,  *)
(* with their lines, and the printer of ast.cpp.                           *)
(*                                                                         *)
(* A token's type is its spelling, as in token_type_to_string, its content *)
(* a sequence of characters.                                               *)
(***************************************************************************)
EXTENDS Naturals, Sequences

LOCAL INSTANCE SequencesExt

Keywords   == {"fn", "var", "get", "put", "tag", "let", "if", "to"}
Operators  == {"+", "-", "*", "/"}
Relations  == {"<", ">", "<=", ">=", "==", "!="}
TokenTypes == Keywords \cup Operators \cup Relations
                \cup {"identifier", "number", "(", ")", "=>", ";", "=", ",", "err", "eof"}

Token(type, content, line) == [type |-> type, content |-> content, line |-> line]

-----------------------------------------------------------------------------
\* Every node has a kind and the line it starts on, but a null pointer.
Null == [k |-> "null"]

Ident(t)              == [k |-> "ident", line |-> t.line, name |-> t.content]
Number(t)             == [k |-> "num", line |-> t.line, value |-> t.content]
IdentExp(line, id)    == [k |-> "id", line |-> line, ident |-> id]
CallExp(line, id, es) == [k |-> "call", line |-> line, ident |-> id, args |-> es]
UnaryExp(line, op, e) == [k |-> "unary", line |-> line, op |-> op, exp |-> e]
BinaryExp(line, op, l, r) == [k |-> "binary", line |-> line, op |-> op, lhs |-> l, rhs |-> r]
Cond(line, op, l, r)      == [k |-> "cond", line |-> line, op |-> op, lhs |-> l, rhs |-> r]

FuncDef(line, id, ps, e) == [k |-> "fn", line |-> line, ident |-> id, params |-> ps, exp |-> e]
VarDecl(line, id)        == [k |-> "var", line |-> line, ident |-> id]

\* get, tag and to statements, and those with an expression.
NameStmt(kind, line, id) == [k |-> kind, line |-> line, ident |-> id]
PutStmt(line, e)         == [k |-> "put", line |-> line, exp |-> e]
LetStmt(line, id, e)     == [k |-> "let", line |-> line, ident |-> id, exp |-> e]
IfStmt(line, c, id)      == [k |-> "if", line |-> line, cond |-> c, ident |-> id]

CompUnit(line) == [line |-> line, func_defs |-> <<>>, var_decls |-> <<>>, stmts |-> <<>>]

-----------------------------------------------------------------------------
(***************************************************************************)
(* The printer: the lines that stand for tokens, a number's without its    *)
(* value; those that name a grammar rule are left out.  Where a null child *)
(* is followed the process ends: Crash stands for that.                    *)
(***************************************************************************)
Item(type)     == [type |-> type, name |-> <<>>]
Name(chars)    == [type |-> "identifier", name |-> chars]
Crash          == Item("crash")
Lines(types)   == [i \in DOMAIN types |-> Item(types[i])]

\* The elements of a list of printed lists, separated by commas.
RECURSIVE Commas(_)
Commas(ss) == CASE ss = <<>>   -> <<>>
                [] Len(ss) = 1 -> ss[1]
                [] OTHER       -> ss[1] \o Lines(<<",">>) \o Commas(Tail(ss))

PrintIdent(id) == IF id = Null THEN <<Crash>> ELSE <<Name(id.name)>>

\* Mutant: the right operand first.
RECURSIVE MutPrintExp(_)
MutPrintExp(e) ==
    CASE e.k = "null"   -> <<Crash>>
      [] e.k = "num"    -> Lines(<<"number">>)
      [] e.k = "id"     -> PrintIdent(e.ident)
      [] e.k = "call"   -> PrintIdent(e.ident)
                             \o Commas([i \in DOMAIN e.args |-> MutPrintExp(e.args[i])])
      [] e.k = "unary"  -> MutPrintExp(e.exp)
      [] e.k = "binary" -> MutPrintExp(e.rhs) \o Lines(<<e.op>>) \o MutPrintExp(e.lhs)

\* BinaryExp::print may do without a right operand and no other child.  A
\* unary operator is not printed, parentheses only around a binary operand.
RECURSIVE PrintExp(_)
PrintExp(e) ==
    CASE e.k = "null"  -> <<Crash>>
      [] e.k = "num"   -> Lines(<<"number">>)
      [] e.k = "id"    -> PrintIdent(e.ident)
      [] e.k = "call"  -> PrintIdent(e.ident) \o Lines(<<"(">>)
                            \o Commas([i \in DOMAIN e.args |-> PrintExp(e.args[i])])
                            \o Lines(<<")">>)
      [] e.k = "unary" -> IF e.exp.k = "binary"
                          THEN Lines(<<"(">>) \o PrintExp(e.exp) \o Lines(<<")">>)
                          ELSE PrintExp(e.exp)
      [] e.k = "binary" -> IF e.rhs = Null THEN PrintExp(e.lhs)
                           ELSE PrintExp(e.lhs) \o Lines(<<e.op>>) \o PrintExp(e.rhs)

PrintCond(c) == PrintExp(c.lhs) \o Lines(<<c.op>>) \o PrintExp(c.rhs)

PrintFuncDef(f) ==
    Lines(<<"fn">>) \o PrintIdent(f.ident) \o Lines(<<"(">>)
      \o Commas([i \in DOMAIN f.params |-> PrintIdent(f.params[i])])
      \o Lines(<<")", "=>">>) \o PrintExp(f.exp) \o Lines(<<";">>)

PrintVarDecl(v) == Lines(<<"var">>) \o PrintIdent(v.ident) \o Lines(<<";">>)

PrintStmt(s) ==
    Lines(<<s.k>>)
      \o (CASE s.k \in {"get", "tag", "to"} -> PrintIdent(s.ident)
            [] s.k = "put" -> PrintExp(s.exp)
            [] s.k = "let" -> PrintIdent(s.ident) \o Lines(<<"=">>) \o PrintExp(s.exp)
            [] s.k = "if"  -> PrintCond(s.cond) \o Lines(<<"to">>) \o PrintIdent(s.ident))
      \o Lines(<<";">>)

PrintUnit(u) ==
    FlattenSeq([i \in DOMAIN u.func_defs |-> PrintFuncDef(u.func_defs[i])])
      \o FlattenSeq([i \in DOMAIN u.var_decls |-> PrintVarDecl(u.var_decls[i])])
      \o FlattenSeq([i \in DOMAIN u.stmts |-> PrintStmt(u.stmts[i])])
=============================================================================
