------------------------------- MODULE Visitor -------------------------------
(***************************************************************************)
(* The semantic analyser and IR generator, class Visitor of                *)
(* libs/tolang/src/visitor.cpp (the LLVM back end), with the symbol table  *)
(* it walks and the jump instructions it patches.                          *)
(*                                                                         *)
(* A behaviour visits one program, definition by definition and statement  *)
(* by statement; `src` is the program visited so far.  A value is the term *)
(* that computes it, its leaves the loads from cells: the instructions of  *)
(* an expression go, in order, to the end of the current block and nothing *)
(* else happens between them, so only the term matters.  (A statement      *)
(* given up leaves those of its visited parts in the block, unused.)       *)
(***************************************************************************)
EXTENDS Program

CONSTANTS
    Exps,      \* the expressions of the programs
    Conds,     \* the conditions of the programs
    Kinds,     \* the kinds of statement of the programs
    Sloppy,    \* the questionable things the programs do, see below
    MaxFuncs, MaxParams, MaxDecls, MaxStmts  \* bounds on a program

ASSUME VisitorAssumption ==
    /\ Kinds \subseteq {"get", "put", "tag", "let", "if", "to"}
    /\ Sloppy \subseteq {"BadBody", "BadGet", "BadIf", "RepeatedTag", "UndefinedTag"}
    /\ {MaxFuncs, MaxParams, MaxDecls, MaxStmts} \subseteq Nat
ASSUME VisitorTreeAssumption == \A e \in Exps \cup Conds : Tree(e)

VARIABLES
    src,     \* the program visited so far
    scopes,  \* the symbol tables from the global one to _cur_scope
    funcs,   \* the IR functions other than main, in order
    blocks,  \* the basic blocks of main, _cur_block last
    errors,  \* what ErrorReporter was given, parser included: place and kind
    phase    \* which part of CompUnit is visited

visitorVars == <<src, scopes, funcs, blocks, errors, phase>>

-----------------------------------------------------------------------------
(***************************************************************************)
(* The symbol table.                                                       *)
(***************************************************************************)
NoSymbol == [type |-> "none"]

\* Mutant: every variable gets the alloca of the first.
MutVarSymbol(fn, ix) == [type |-> "var", cell |-> [fn |-> fn, ix |-> 1]]

\* A variable symbol holds its alloca, one of the function fn (0 is main).
VarSymbol(fn, ix) == [type |-> "var", cell |-> [fn |-> fn, ix |-> ix]]
FuncSymbol(fn, n) == [type |-> "func", fn |-> fn, count |-> n]
\* A tag knows its block once defined (0: null), and the jumps met before:
\* a jump ends its block, so the block's index identifies it.
TagSymbol(target, insts) == [type |-> "tag", target |-> target, jump_insts |-> insts]

NewScope == [n \in Idents |-> NoSymbol]

exist_in_scope(sc, n) == sc[Len(sc)][n] # NoSymbol
add_symbol(sc, n, s)  == [sc EXCEPT ![Len(sc)][n] = s]

\* Mutant: the scopes are searched from the global one.
MutGetSymbol(sc, n) ==
    LET found == {i \in DOMAIN sc : sc[i][n] # NoSymbol}
    IN  IF found = {} THEN NoSymbol
        ELSE sc[CHOOSE i \in found : \A j \in found : i <= j][n]

get_symbol(sc, n) ==
    LET found == {i \in DOMAIN sc : sc[i][n] # NoSymbol}
    IN  IF found = {} THEN NoSymbol
        ELSE sc[CHOOSE i \in found : \A j \in found : j <= i][n]

-----------------------------------------------------------------------------
(***************************************************************************)
(* Expressions.  A visit returns the value, or NoVal for nullptr, and the  *)
(* kinds of the errors it reported.                                        *)
(***************************************************************************)
NoVal     == [op |-> "none"]
Lit       == [op |-> "lit"]
Loaded(c) == [op |-> "load", cell |-> c]

Good(v)  == [val |-> v, errs |-> {}]
Fail(es) == [val |-> NoVal, errs |-> es]

_visit_number == Good(Lit)

_visit_ident_exp(e, sc) ==
    LET s == get_symbol(sc, e.n)
    IN  CASE s.type = "none" -> Fail({"undefined symbol"})
          [] s.type = "var"  -> Good(Loaded(s.cell))
          [] OTHER           -> Fail({"not a variable"})

\* From here on the last arguments are what the visits of the parts return.
_visit_unary_exp(r) ==
    IF r.val = NoVal THEN r ELSE Good([op |-> "unary", of |-> r.val])

\* Both sides are visited even if the left one fails, unless one is null.
_visit_binary_exp(e, l, r) ==
    CASE Bad \in {e.l, e.r} -> Fail({})
      [] Bad \notin {e.l, e.r} /\ NoVal \in {l.val, r.val} -> Fail(l.errs \cup r.errs)
      [] OTHER -> Good([op |-> "binary", l |-> l.val, r |-> r.val])

_visit_call_exp(e, sc, args) ==
    LET s == get_symbol(sc, e.n)
    IN  CASE s.type = "none" -> Fail({"undefined symbol"})
          [] s.type \in {"var", "tag"} -> Fail({"not a function"})
          [] s.type = "func" /\ s.count # Len(e.args) -> Fail({"params number"})
          [] OTHER -> IF \E a \in RanOf(args) : a.val = NoVal
                      THEN Fail(UNION {a.errs : a \in RanOf(args)})
                      ELSE Good([op |-> "call", fn |-> s.fn,
                                 args |-> [i \in DOMAIN args |-> args[i].val]])

_visit_part(e, visit, sc) ==
    CASE e.k = "num"    -> _visit_number
      [] e.k = "id"     -> _visit_ident_exp(e, sc)
      [] e.k = "unary"  -> _visit_unary_exp(visit[e.e])
      [] e.k = "binary" -> _visit_binary_exp(e, visit[e.l], visit[e.r])
      [] e.k = "call"   -> _visit_call_exp(e, sc, [i \in DOMAIN e.args |-> visit[e.args[i]]])
      [] e.k = "bad"    -> Fail({})

_visit_exp(exp, sc) ==
    LET visit[e \in SubExps(exp)] == _visit_part(e, visit, sc)
    IN  visit[exp]

-----------------------------------------------------------------------------
(***************************************************************************)
(* Instructions of main.  `stmt` is the statement one was emitted for;     *)
(* `uses` are the blocks in its operand list.  An input and the store of   *)
(* what was read, always emitted together, are one instruction.            *)
(***************************************************************************)
Alloca(c)      == [op |-> "alloca", stmt |-> 0, cell |-> c]
Input(i, c)    == [op |-> "input", stmt |-> i, cell |-> c]
Output(i, v)   == [op |-> "output", stmt |-> i, val |-> v]
Store(i, v, c) == [op |-> "store", stmt |-> i, val |-> v, cell |-> c]
Return(i)      == [op |-> "ret", stmt |-> i]
JumpInst(i)    == [op |-> "jump", stmt |-> i, target |-> 0, uses |-> <<>>]
BranchInst(i, v, no) ==
    [op |-> "branch", stmt |-> i, val |-> v, target |-> 0, other |-> no, uses |-> <<no>>]

Terminators == {"jump", "branch", "ret"}
Jumps       == {"jump", "branch"}

\* Mutant: the block does not become an operand.
MutSetTarget(inst, b) == [inst EXCEPT !.target = IF @ = 0 THEN b ELSE @]

\* SetTarget and SetTrueBlock: the member is set only while it is null;
\* afterwards the operand is replaced and the member stays.
SetTarget(inst, b) ==
    LET first == {k \in DOMAIN inst.uses : /\ inst.uses[k] = inst.target
                                           /\ \A j \in 1 .. (k - 1) : inst.uses[j] # inst.target}
    IN  IF inst.target = 0
        THEN [inst EXCEPT !.target = b, !.uses = Append(@, b)]
        ELSE [inst EXCEPT !.uses = [k \in DOMAIN @ |-> IF k \in first THEN b ELSE @[k]]]

Cur         == Len(blocks)

\* Mutant: the instruction goes to the front of the block.
MutEmit(inst) == [blocks EXCEPT ![Cur] = <<inst>> \o @]

Emit(inst)  == [blocks EXCEPT ![Cur] = Append(@, inst)]

\* Mutant: no new block is started.
MutEndBlock(inst) == Emit(inst)

\* The instruction ends the block and NewBasicBlock becomes the current one.
EndBlock(inst) == Append(Emit(inst), <<>>)

\* Mutants: only the last of the jumps is patched; all are, to the block that
\* the tag ends.
MutRetargetLast(bs, S, b) ==
    [i \in DOMAIN bs |->
        IF i \in S /\ \A j \in S : j <= i
        THEN [bs[i] EXCEPT ![Len(bs[i])] = SetTarget(@, b)] ELSE bs[i]]
MutRetargetBack(bs, S, b) ==
    [i \in DOMAIN bs |->
        IF i \in S THEN [bs[i] EXCEPT ![Len(bs[i])] = SetTarget(@, b - 1)] ELSE bs[i]]

\* The jumps that end the blocks S get target b.
Retarget(bs, S, b) ==
    [i \in DOMAIN bs |->
        IF i \in S THEN [bs[i] EXCEPT ![Len(bs[i])] = SetTarget(@, b)] ELSE bs[i]]

-----------------------------------------------------------------------------
Report(at, kinds) == errors \cup {[at |-> at, kind |-> k] : k \in kinds}

\* What the parser reported of a node: a child of it is null.
Syntax(names, es) ==
    IF NoIdent \in names \/ \E e \in es : Bad \in SubExps(e) THEN {"syntax"} ELSE {}

FnPlace   == <<"fn", Len(src.funcs) + 1>>
DeclPlace == <<"var", Len(src.decls) + 1>>
StmtPlace == <<"stmt", Len(src.stmts) + 1>>

Init ==
    /\ src = EmptyProgram
    /\ scopes = <<NewScope>>
    /\ funcs = <<>>
    /\ blocks = <<>>
    /\ errors = {}
    /\ phase = "funcs"

\* Mutant: only the last parameter gets a symbol.
MutParamScope(fn, ps) ==
    [n \in Idents |-> IF ps # <<>> /\ ps[Len(ps)] = n THEN VarSymbol(fn, Len(ps)) ELSE NoSymbol]

\* The scope of a function's body; a parameter met twice keeps its first cell.
ParamScope(fn, ps) ==
    [n \in Idents |->
        IF \E j \in DOMAIN ps : ps[j] = n
        THEN VarSymbol(fn, CHOOSE j \in DOMAIN ps : ps[j] = n /\ \A k \in 1 .. (j - 1) : ps[k] # n)
        ELSE NoSymbol]

Repeats(ps) == \E j, k \in DOMAIN ps : j # k /\ ps[j] = ps[k]

\* The identifiers that are not null, in their order.
NotNull(ids) ==
    LET kept[i \in 0 .. Len(ids)] == IF i = 0 THEN <<>>
                                     ELSE IF ids[i] = NoIdent THEN kept[i - 1]
                                     ELSE Append(kept[i - 1], ids[i])
    IN  kept[Len(ids)]

\* _visit_func_def.  A body that yields no value leaves the function's scope
\* pushed and its block without a return.
_visit_func_def(n, params, e) ==
    LET ps    == NotNull(params)
        fn    == Len(funcs) + 1
        outer == add_symbol(scopes, n, FuncSymbol(fn, Len(ps)))
        inner == Append(outer, ParamScope(fn, ps))
        body  == _visit_exp(e, inner)
        null  == Syntax({n} \cup {params[i] : i \in DOMAIN params}, {e})
        again == IF Repeats(ps) THEN {"redefine parameter"} ELSE {}
    IN  /\ phase = "funcs"
        /\ Len(src.funcs) < MaxFuncs
        /\ src' = [src EXCEPT !.funcs = Append(@, [n |-> n, params |-> params, e |-> e])]
        /\ \/ /\ n = NoIdent
              /\ errors' = Report(FnPlace, null)
              /\ UNCHANGED <<scopes, funcs>>
           \/ /\ n # NoIdent /\ exist_in_scope(scopes, n)
              /\ errors' = Report(FnPlace, null \cup {"redefine function"})
              /\ UNCHANGED <<scopes, funcs>>
           \/ /\ n # NoIdent /\ ~exist_in_scope(scopes, n)
              /\ body.val = NoVal => "BadBody" \in Sloppy
              /\ errors' = Report(FnPlace, null \cup again \cup body.errs)
              /\ funcs' = Append(funcs, [n |-> n, count |-> Len(ps), ret |-> body.val])
              /\ scopes' = IF body.val = NoVal THEN inner ELSE outer
        /\ UNCHANGED <<blocks, phase>>

\* visit, between the functions and the declarations: main and its scope.
BeginMain ==
    /\ phase = "funcs"
    /\ phase' = "decls"
    /\ scopes' = Append(scopes, NewScope)
    /\ blocks' = <<<<>>>>
    /\ UNCHANGED <<src, funcs, errors>>

\* _visit_var_decl.  The alloca goes to the first block.
_visit_var_decl(n) ==
    LET ix == Len(src.decls) + 1
    IN  /\ phase = "decls"
        /\ Len(src.decls) < MaxDecls
        /\ src' = [src EXCEPT !.decls = Append(@, n)]
        /\ \/ /\ n = NoIdent
              /\ errors' = Report(DeclPlace, {"syntax"})
              /\ UNCHANGED <<scopes, blocks>>
           \/ /\ n # NoIdent /\ exist_in_scope(scopes, n)
              /\ errors' = Report(DeclPlace, {"redefine variable"})
              /\ UNCHANGED <<scopes, blocks>>
           \/ /\ n # NoIdent /\ ~exist_in_scope(scopes, n)
              /\ scopes' = add_symbol(scopes, n, VarSymbol(0, ix))
              /\ blocks' = [blocks EXCEPT ![1] = Append(@, Alloca([fn |-> 0, ix |-> ix]))]
              /\ UNCHANGED errors
        /\ UNCHANGED <<funcs, phase>>

-----------------------------------------------------------------------------
(***************************************************************************)
(* Statements.                                                             *)
(***************************************************************************)
Visit(s) ==
    /\ phase \in {"decls", "stmts"}
    /\ s.k \in Kinds
    /\ Len(src.stmts) < MaxStmts
    /\ src' = [src EXCEPT !.stmts = Append(@, s)]
    /\ UNCHANGED funcs

Here == Len(src.stmts) + 1

\* The statement, of names and expressions es, is given up after reporting
\* errors of these kinds.
GiveUp(kinds, names, es) ==
    /\ phase' = "stmts"
    /\ errors' = Report(StmtPlace, kinds \cup Syntax(names, es))
    /\ UNCHANGED <<scopes, blocks>>

\* The statement is translated: its instructions lead to these blocks.
Accept(bs) ==
    /\ phase' = "stmts"
    /\ blocks' = bs
    /\ UNCHANGED errors

\* The compiler process ends: TOLANG_DIE, or a null pointer is followed.
Crash ==
    /\ phase' = "crashed"
    /\ UNCHANGED <<scopes, blocks, errors>>

\* _visit_get_stmt: the type of the symbol is not looked at.  A function's
\* value is no pointer, which StoreInst::New does not accept, a tag's is null.
_visit_get_stmt(n) ==
    LET s == get_symbol(scopes, n)
    IN  /\ Visit([k |-> "get", n |-> n])
        /\ \/ n = NoIdent /\ GiveUp({}, {n}, {})
           \/ /\ n # NoIdent
              /\ \/ s.type = "none" /\ GiveUp({"undefined symbol"}, {n}, {})
                 \/ s.type = "var" /\ Accept(Emit(Input(Here, s.cell))) /\ UNCHANGED scopes
                 \/ s.type \in {"func", "tag"} /\ "BadGet" \in Sloppy /\ Crash

_visit_put_stmt(e) ==
    LET r == _visit_exp(e, scopes)
    IN  /\ Visit([k |-> "put", e |-> e])
        /\ \/ r.val = NoVal /\ GiveUp(r.errs, {}, {e})
           \/ r.val # NoVal /\ Accept(Emit(Output(Here, r.val))) /\ UNCHANGED scopes

_visit_let_stmt(n, e) ==
    LET s == get_symbol(scopes, n)
        r == _visit_exp(e, scopes)
    IN  /\ Visit([k |-> "let", n |-> n, e |-> e])
        /\ \/ n = NoIdent /\ GiveUp({}, {n}, {e})
           \/ /\ n # NoIdent
              /\ \/ s.type = "none" /\ GiveUp({"undefined symbol"}, {n}, {e})
                 \/ s.type \in {"func", "tag"} /\ GiveUp({"not a variable"}, {n}, {e})
                 \/ /\ s.type = "var"
                    /\ \/ r.val = NoVal /\ GiveUp(r.errs, {n}, {e})
                       \/ /\ r.val # NoVal
                          /\ Accept(Emit(Store(Here, r.val, s.cell)))
                          /\ UNCHANGED scopes

\* The symbol of a tag in the current scope; a new one if there is none.
TagOf(n) == IF exist_in_scope(scopes, n) THEN scopes[Len(scopes)][n] ELSE TagSymbol(0, {})

\* _visit_tag_stmt: fall through to a new block and make it the target of
\* every jump in jump_insts, a list that is not emptied.
_visit_tag_stmt(n) ==
    LET t   == TagOf(n)
        new == Cur + 1
        bs  == EndBlock(SetTarget(JumpInst(Here), new))
    IN  /\ Visit([k |-> "tag", n |-> n])
        /\ \/ n = NoIdent /\ GiveUp({}, {n}, {})
           \/ /\ n # NoIdent
              /\ \/ t.type # "tag" /\ GiveUp({"not a tag"}, {n}, {})
                 \/ /\ t.type = "tag"
                    /\ t.target # 0 => "RepeatedTag" \in Sloppy
                    /\ Accept(Retarget(bs, t.jump_insts, new))
                    /\ scopes' = add_symbol(scopes, n, [t EXCEPT !.target = new])

\* A jump to tag t: to its block if it has one, else it waits in jump_insts.
JumpTo(t, inst) == IF t.target # 0 THEN SetTarget(inst, t.target) ELSE inst

\* Mutant: the list holds the last jump only.
MutWaiting(t) == IF t.target # 0 THEN t ELSE [t EXCEPT !.jump_insts = {Cur}]

Waiting(t)      == IF t.target # 0 THEN t ELSE [t EXCEPT !.jump_insts = @ \cup {Cur}]

\* _visit_if_stmt.  The ident is not compared with nullptr.
_visit_if_stmt(c, n) ==
    LET t == TagOf(n)
        r == _visit_exp(c, scopes)
    IN  /\ Visit([k |-> "if", e |-> c, n |-> n])
        /\ \/ r.val = NoVal /\ GiveUp(r.errs, {n}, {c})
           \/ r.val # NoVal /\ n = NoIdent /\ "BadIf" \in Sloppy /\ Crash
           \/ /\ r.val # NoVal /\ n # NoIdent
              /\ \/ t.type # "tag" /\ GiveUp({"not a tag"}, {n}, {c})
                 \/ /\ t.type = "tag"
                    /\ Accept(EndBlock(JumpTo(t, BranchInst(Here, r.val, Cur + 1))))
                    /\ scopes' = add_symbol(scopes, n, Waiting(t))

_visit_to_stmt(n) ==
    LET t == TagOf(n)
    IN  /\ Visit([k |-> "to", n |-> n])
        /\ \/ n = NoIdent /\ GiveUp({}, {n}, {})
           \/ /\ n # NoIdent
              /\ \/ t.type # "tag" /\ GiveUp({"not a tag"}, {n}, {})
                 \/ /\ t.type = "tag"
                    /\ Accept(EndBlock(JumpTo(t, JumpInst(Here))))
                    /\ scopes' = add_symbol(scopes, n, Waiting(t))

\* The tags mentioned and not defined.
Pending == {n \in Idents : LET s == scopes[Len(scopes)][n]
                           IN  s.type = "tag" /\ s.target = 0}

\* The end of visit: the scope is popped, main returns.
Finish ==
    /\ phase \in {"decls", "stmts"}
    /\ Pending # {} => "UndefinedTag" \in Sloppy
    /\ phase' = "done"
    /\ scopes' = SubSeq(scopes, 1, Len(scopes) - 1)
    /\ blocks' = Emit(Return(Here))
    /\ UNCHANGED <<src, funcs, errors>>

Stmt ==
    \/ \E n \in Idents \cup {NoIdent} :
          \/ _visit_get_stmt(n)
          \/ _visit_tag_stmt(n)
          \/ _visit_to_stmt(n)
          \/ \E e \in Exps : _visit_let_stmt(n, e)
          \/ \E c \in Conds : _visit_if_stmt(c, n)
    \/ \E e \in Exps : _visit_put_stmt(e)

ParamLists == UNION {[1 .. k -> Idents \cup {NoIdent}] : k \in 0 .. MaxParams}

\* The program ends where the bound does, which may leave a tag undefined.
Stopped ==
    /\ \/ phase \in {"done", "crashed"}
       \/ Len(src.stmts) = MaxStmts /\ Pending # {}
    /\ UNCHANGED visitorVars

VisitorNext ==
    \/ \E n \in Idents \cup {NoIdent}, ps \in ParamLists, e \in Exps : _visit_func_def(n, ps, e)
    \/ BeginMain
    \/ \E n \in Idents \cup {NoIdent} : _visit_var_decl(n)
    \/ Stmt
    \/ Finish
    \/ Stopped

Spec == Init /\ [][VisitorNext]_visitorVars

-----------------------------------------------------------------------------
(***************************************************************************)
(* The language, read off the program alone.                               *)
(***************************************************************************)
\* The definition of function n: the first one.
FuncDefs(n) == {j \in DOMAIN src.funcs :
                   src.funcs[j].n = n /\ \A i \in 1 .. (j - 1) : src.funcs[i].n # n}
Arity(j)    == Len(NotNull(src.funcs[j].params))

ErrorAt(at) == \E e \in errors : e.at = at
Faultless   == errors = {}

\* A jump or a definition made n a tag before statement i.
TagBefore(n, i) ==
    \E j \in 1 .. (i - 1) : /\ src.stmts[j].k \in {"tag", "if", "to"}
                            /\ src.stmts[j].n = n
                            /\ ~ErrorAt(<<"stmt", j>>)

\* Whether an identifier names a variable, or a function of so many
\* parameters, in the body of function j and in statement i.
VarInBody(n, j)     == n \in RanOf(src.funcs[j].params)
FuncInBody(n, k, j) == ~VarInBody(n, j) /\ \E d \in FuncDefs(n) : d <= j /\ Arity(d) = k
VarInMain(n)        == n \in RanOf(src.decls)
FuncInMain(n, k, i) == /\ ~VarInMain(n) /\ ~TagBefore(n, i)
                       /\ \E d \in FuncDefs(n) : Arity(d) = k

FaultyExp(exp, vars, calls) ==
    \E e \in SubExps(exp) :
        \/ e = Bad
        \/ /\ e.k = "id"
           /\ e.n \notin vars
        \/ /\ e.k = "call"
           /\ <<e.n, Len(e.args)>> \notin calls

\* A name and a number of arguments.
CallsOf == Idents \X (0 .. MaxParams)

FaultyFunc(j) ==
    LET f == src.funcs[j]
    IN  \/ NoIdent \in {f.n} \cup RanOf(f.params)
        \/ \E i \in 1 .. (j - 1) : src.funcs[i].n = f.n
        \/ \E a, b \in DOMAIN f.params : a # b /\ f.params[a] = f.params[b]
        \/ FaultyExp(f.e, {n \in Idents : VarInBody(n, j)},
                     {c \in CallsOf : FuncInBody(c[1], c[2], j)})

FaultyDecl(j) == \/ src.decls[j] = NoIdent
                 \/ \E i \in 1 .. (j - 1) : src.decls[i] = src.decls[j]

FaultyStmt(i) ==
    LET s == src.stmts[i]
    IN  \/ s.k # "put" /\ s.n = NoIdent
        \/ s.k \in {"get", "let"} /\ ~VarInMain(s.n)
        \/ s.k \in {"tag", "if", "to"} /\ VarInMain(s.n)
        \/ /\ s.k \in {"put", "let", "if"}
           /\ FaultyExp(s.e, {n \in Idents : VarInMain(n)},
                        {c \in CallsOf : FuncInMain(c[1], c[2], i)})

-----------------------------------------------------------------------------
(***************************************************************************)
(* Properties.                                                             *)
(***************************************************************************)

Ident    == Idents \cup {NoIdent}
Cells    == [fn : {0}, ix : DOMAIN src.decls] \cup [fn : 1 .. Len(funcs), ix : 1 .. MaxParams]
Symbols  == {NoSymbol}
              \cup [type : {"var"}, cell : Cells]
              \cup [type : {"func"}, fn : 1 .. Len(funcs), count : 0 .. MaxParams]
              \cup [type : {"tag"}, target : 0 .. Len(blocks), jump_insts : SUBSET (DOMAIN blocks)]

\* Every variable of the visitor has its type, and what the symbols and the
\* instructions refer to exists: allocas, functions and blocks of the module
\* under construction (the pointers of visitor.cpp, symtable.h, Instructions).
TypeOK ==
    /\ src.funcs \in Seq([n : Ident, params : Seq(Ident), e : Exps])
    /\ src.decls \in Seq(Ident)
    /\ \A i \in DOMAIN src.stmts : src.stmts[i].k \in Kinds
    /\ scopes \in Seq([Idents -> Symbols])
    /\ \A i \in DOMAIN funcs : funcs[i].n \in Idents /\ funcs[i].count \in 0 .. MaxParams
    /\ \A b \in DOMAIN blocks : \A k \in DOMAIN blocks[b] :
          LET inst == blocks[b][k]
          IN  /\ inst.stmt \in 0 .. Len(src.stmts) + 1
              /\ inst.op \in Jumps => /\ inst.target \in 0 .. Len(blocks)
                                      /\ inst.uses \in Seq(DOMAIN blocks)
    /\ \A e \in errors : e.at[1] \in {"fn", "var", "stmt"} /\ e.at[2] \in Nat
    /\ phase \in {"funcs", "decls", "stmts", "done", "crashed"}

\* Errors are reported exactly where the program is at fault: no message is
\* missed or spurious, however names are shared between functions, parameters,
\* variables and tags, and whichever declarations, statements and heads of
\* functions failed before (visitor.cpp, symtable.h).  A function's body that
\* fails is left out (BadBody), and a tag that is repeated or never defined is
\* no fault here: the code reports neither.
ErrorsExact ==
    phase # "crashed" =>
        {e.at : e \in errors} =
            {<<"fn", j>> : j \in {j \in DOMAIN src.funcs : FaultyFunc(j)}}
            \cup {<<"var", j>> : j \in {j \in DOMAIN src.decls : FaultyDecl(j)}}
            \cup {<<"stmt", i>> : i \in {i \in DOMAIN src.stmts : FaultyStmt(i)}}

\* Every block but the current one ends in its only terminator, and the
\* current one has none: whatever statements follow each other, and whatever
\* was given up, no instruction is ever emitted after a jump or lost.
BlocksEnd ==
    \A b \in DOMAIN blocks :
        LET code  == blocks[b]
            ended == b < Cur \/ phase = "done"
        IN  /\ \A k \in DOMAIN code : code[k].op \in Terminators => ended /\ k = Len(code)
            /\ ended => code # <<>> /\ code[Len(code)].op \in Terminators

LastInst(b) == blocks[b][Len(blocks[b])]
JumpBlocks  == {b \in DOMAIN blocks : blocks[b] # <<>> /\ LastInst(b).op \in Jumps}
Tags        == {n \in Idents : scopes[Len(scopes)][n].type = "tag"}
TagSym(n)   == scopes[Len(scopes)][n]

\* A jump without a target is in the list of exactly one tag, the one its
\* statement names, which has no block yet: backpatching will reach it.
PendingExact ==
    phase = "stmts" =>
        \A b \in JumpBlocks :
            LastInst(b).target = 0 <=>
                \E n \in Pending : /\ b \in TagSym(n).jump_insts
                                   /\ \A u \in Tags \ {n} : b \notin TagSym(u).jump_insts
                                   /\ src.stmts[LastInst(b).stmt].n = n

\* A jump's operand list is what its members say: the false block of a branch,
\* then the target (User and Instructions keep the two separately).
UsesAgree ==
    \A b \in JumpBlocks :
        LET i  == LastInst(b)
            to == IF i.target = 0 THEN <<>> ELSE <<i.target>>
        IN  i.uses = IF i.op = "branch" THEN <<i.other>> \o to ELSE to

\* What was emitted stays: no later statement moves or changes an instruction,
\* but to give a jump that has no target its target, and nothing changes a
\* target that was given, even by a second definition of the tag.
EmittedKept ==
    [][\A b \in DOMAIN blocks : \A k \in DOMAIN blocks[b] :
          LET old == blocks[b][k]
              new == blocks'[b][k]
          IN  \/ new = old
              \/ /\ old.op \in Jumps
                 /\ new = [old EXCEPT !.target = new.target, !.uses = new.uses]
                 /\ old.target # 0 => new.target = old.target]_visitorVars

\* The jumps met before a tag's definition lead to the block of the tag.
Backpatched ==
    phase = "stmts" =>
        \A n \in Tags \ Pending : \A b \in TagSym(n).jump_insts :
            LastInst(b).target = TagSym(n).target

\* In an accepted program whose tags are all defined no jump is left without a
\* target, whichever came first, the jump or its tag, and however often it was
\* jumped to before (visitor.cpp: the code itself does not look for tags that
\* are never defined, UndefinedTag, whose jumps stay without one).
JumpsTargeted ==
    phase = "done" /\ Faultless => \A b \in JumpBlocks : LastInst(b).target # 0
=============================================================================
