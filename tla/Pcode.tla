-------------------------------- MODULE Pcode ---------------------------------
(***************************************************************************)
(* The other back end: class PcodeVisitor of libs/tolang/src/visitor.cpp,  *)
(* which turns a program into blocks of stack code without checking        *)
(* anything, and PcodeRuntime, which runs them.                            *)
(*                                                                         *)
(* A behaviour visits one program, definition by definition and statement  *)
(* by statement, and runs it.  An exception (a name that is in no map)     *)
(* ends the process.  A value is the term it was computed by; a variable's *)
(* content is named after the statement that stored it.                    *)
(***************************************************************************)
EXTENDS Program

CONSTANTS
    Exps, Conds, Kinds,  \* the expressions, conditions and statements used
    MainLabel,           \* "_Main", the name of no identifier of the programs
    MaxFuncs, MaxParams, MaxDecls, MaxStmts  \* bounds on a program

ASSUME PcodeAssumption ==
    /\ MainLabel \notin Idents
    /\ Kinds \subseteq {"get", "put", "tag", "let", "if", "to"}
    /\ {MaxFuncs, MaxParams, MaxDecls, MaxStmts} \subseteq Nat
ASSUME PcodeTreeAssumption == \A e \in Exps \cup Conds : Tree(e) /\ Bad \notin SubExps(e)

VARIABLES
    src,    \* the program visited so far
    module, \* the PcodeModule
    phase,  \* which part of CompUnit is visited, then what becomes of the run
    loops,  \* the loops over instructions, run's first, then executeCall's
    ars,    \* the stack of activity records
    vals,   \* the statement that stored each variable's value, 0 for none
    event   \* the last thing the program did

compiled == <<src, module>>
vars == <<src, module, phase, loops, ars, vals, event>>

-----------------------------------------------------------------------------
(***************************************************************************)
(* The module.  emplace keeps the first entry of a name.                   *)
(***************************************************************************)
NoBlock == 0
NoFunc  == -1

EmptyModule == [blocks    |-> <<>>,
                variables |-> {},
                functions |-> [n \in Idents |-> NoFunc],
                labels    |-> [n \in Idents \cup {MainLabel} |-> NoBlock]]

functionCount(m) == Cardinality({n \in Idents : m.functions[n] # NoFunc})

addFunction(m, n, cnt) == [m EXCEPT !.functions[n] = IF @ = NoFunc THEN cnt ELSE @]

\* The blocks of the functions come before main's.
getMainBlock(m) == functionCount(m) + 1

\* createBlock and addLabel, with the block's first instructions.
NewLabelled(m, label, insts) ==
    [m EXCEPT !.blocks = Append(@, insts),
              !.labels[label] = IF @ = NoBlock THEN Len(m.blocks) + 1 ELSE @]

insertInst(m, insts) == [m EXCEPT !.blocks[Len(m.blocks)] = @ \o insts]

-----------------------------------------------------------------------------
(***************************************************************************)
(* Expressions.  Each instruction remembers its statement, 0 for none.     *)
(***************************************************************************)
LOCAL INSTANCE SequencesExt

Inst(op, i)       == [op |-> op, stmt |-> i]
Named(op, n, i)   == [op |-> op, n |-> n, stmt |-> i]
Indexed(op, k, i) == [op |-> op, ix |-> k, stmt |-> i]

\* Mutant: the position counts from 0.
MutIndexOf(ps, n) ==
    IF n \in RanOf(ps)
    THEN (CHOOSE k \in DOMAIN ps : ps[k] = n /\ \A j \in 1 .. (k - 1) : ps[j] # n) - 1
    ELSE 0

\* getIndexOf: the position of the name among the parameters, from 1; 0 if it
\* is none of them.
getIndexOf(ps, n) ==
    IF n \in RanOf(ps) THEN CHOOSE k \in DOMAIN ps : ps[k] = n /\ \A j \in 1 .. (k - 1) : ps[j] # n
    ELSE 0

\* In a function a name that is no parameter leaves nothing.
visitIdentExp(n, ps, inFunction, i) ==
    IF ~inFunction THEN <<Named("LOAD", n, i)>>
    ELSE IF getIndexOf(ps, n) > 0 THEN <<Indexed("ARG", getIndexOf(ps, n), i)>>
    ELSE <<>>

\* From the code of its parts: the parts, then the operator.  A unary expression
\* is a negation; unary plus leaves the code of its operand alone.
visitPart(e, code, ps, inFunction, i) ==
    CASE e.k = "num"    -> <<Inst("LI", i)>>
      [] e.k = "id"     -> visitIdentExp(e.n, ps, inFunction, i)
      [] e.k = "unary"  -> Append(code[e.e], Indexed("OPR", 1, i))
      [] e.k = "binary" -> code[e.l] \o code[e.r] \o <<Indexed("OPR", 2, i)>>
      [] e.k = "call"   -> FlattenSeq([k \in DOMAIN e.args |-> code[e.args[k]]])
                               \o <<Named("CALL", e.n, i)>>

visitExp(exp, ps, inFunction, i) ==
    LET code[e \in SubExps(exp)] == visitPart(e, code, ps, inFunction, i)
    IN  code[exp]

\* Whether the visit throws: getFunction and, in main, getVariable are at().
Throws(exp, m, inFunction) ==
    \E e \in SubExps(exp) : \/ e.k = "call" /\ m.functions[e.n] = NoFunc
                            \/ e.k = "id" /\ ~inFunction /\ e.n \notin m.variables

-----------------------------------------------------------------------------
(***************************************************************************)
(* The programs visited.  The visitor accepts any; those of interest are   *)
(* the ones that mean something, in which no function calls itself (it     *)
(* would not end) and no tag has a function's name (a jump to it would     *)
(* enter the function, whose label came first).                            *)
(***************************************************************************)
Recursive == \E f \in RanOf(src.funcs) : \E e \in SubExps(f.e) : e.k = "call" /\ e.n = f.n
Shared    == \E s \in RanOf(src.stmts) : s.k = "tag" /\ s.n \in Defined(src)
Promising == LegalSoFar(src) /\ ~Recursive /\ ~Shared

Resting == UNCHANGED <<loops, ars, vals, event>>

Init ==
    /\ src = EmptyProgram
    /\ module = EmptyModule
    /\ phase = "funcs"
    /\ loops = <<>>
    /\ ars = <<>>
    /\ vals = [n \in Idents |-> 0]
    /\ event = [stmt |-> 0]

visitFuncDef(n, ps, e) ==
    LET m == addFunction(module, n, Len(ps))
    IN  /\ phase = "funcs"
        /\ Len(src.funcs) < MaxFuncs
        /\ src' = [src EXCEPT !.funcs = Append(@, [n |-> n, params |-> ps, e |-> e])]
        /\ \/ /\ Throws(e, m, TRUE)
              /\ phase' = "thrown"
              /\ UNCHANGED module
           \/ /\ ~Throws(e, m, TRUE)
              /\ module' = NewLabelled(m, n, <<Named("LABEL", n, 0)>>
                                             \o visitExp(e, ps, TRUE, 0) \o <<Inst("RET", 0)>>)
              /\ UNCHANGED phase
        /\ Resting

BeginMain ==
    /\ phase = "funcs"
    /\ phase' = "decls"
    /\ module' = NewLabelled(module, MainLabel, <<Named("LABEL", MainLabel, 0)>>)
    /\ UNCHANGED src
    /\ Resting

visitVarDecl(n) ==
    /\ phase = "decls"
    /\ Len(src.decls) < MaxDecls
    /\ src' = [src EXCEPT !.decls = Append(@, n)]
    /\ module' = insertInst([module EXCEPT !.variables = @ \cup {n}], <<Named("DEF", n, 0)>>)
    /\ UNCHANGED phase
    /\ Resting

-----------------------------------------------------------------------------
(***************************************************************************)
(* Statements.                                                             *)
(***************************************************************************)
Here == Len(src.stmts) + 1

Visit(s) ==
    /\ phase \in {"decls", "stmts"}
    /\ s.k \in Kinds
    /\ Len(src.stmts) < MaxStmts
    /\ src' = [src EXCEPT !.stmts = Append(@, s)]
    /\ Resting

\* The statement's instructions go to the current block, unless its visit
\* throws.
Generate(throws, insts) ==
    \/ /\ throws
       /\ phase' = "thrown"
       /\ UNCHANGED module
    \/ /\ ~throws
       /\ phase' = "stmts"
       /\ module' = insertInst(module, insts)

visitGetStmt(n) ==
    /\ Visit([k |-> "get", n |-> n])
    /\ Generate(n \notin module.variables, <<Inst("READ", Here), Named("STORE", n, Here)>>)

visitPutStmt(e) ==
    /\ Visit([k |-> "put", e |-> e])
    /\ Generate(Throws(e, module, FALSE),
                visitExp(e, <<>>, FALSE, Here) \o <<Inst("WRITE", Here)>>)

visitLetStmt(n, e) ==
    /\ Visit([k |-> "let", n |-> n, e |-> e])
    /\ Generate(Throws(e, module, FALSE) \/ n \notin module.variables,
                visitExp(e, <<>>, FALSE, Here) \o <<Named("STORE", n, Here)>>)

visitTagStmt(n) ==
    /\ Visit([k |-> "tag", n |-> n])
    /\ phase' = "stmts"
    /\ module' = NewLabelled(module, n, <<Named("LABEL", n, Here)>>)

visitIfStmt(c, n) ==
    /\ Visit([k |-> "if", e |-> c, n |-> n])
    /\ Generate(Throws(c, module, FALSE),
                visitExp(c, <<>>, FALSE, Here) \o <<Named("JIT", n, Here)>>)

visitToStmt(n) ==
    /\ Visit([k |-> "to", n |-> n])
    /\ Generate(FALSE, <<Named("JUMP", n, Here)>>)

Stmt ==
    \/ \E n \in Idents : \/ visitGetStmt(n)
                         \/ visitTagStmt(n)
                         \/ visitToStmt(n)
                         \/ \E e \in Exps : visitLetStmt(n, e)
                         \/ \E c \in Conds : visitIfStmt(c, n)
    \/ \E e \in Exps : visitPutStmt(e)

-----------------------------------------------------------------------------
(***************************************************************************)
(* The runtime.                                                            *)
(***************************************************************************)
NewRecord == [args |-> <<>>, tmps |-> <<>>]

\* PcodeRuntime::PcodeRuntime and the start of run.
Boot ==
    /\ phase \in {"decls", "stmts"}
    /\ Legal(src)
    /\ phase' = "running"
    /\ loops' = <<[block |-> getMainBlock(module), ip |-> 1]>>
    /\ ars' = <<NewRecord>>
    /\ UNCHANGED <<compiled, vals, event>>

Loop      == loops[Len(loops)]
Code(l)   == module.blocks[l.block]
Ended(l)  == l.ip > Len(Code(l))
Fetched     == Code(Loop)[Loop.ip]
Record    == ars[Len(ars)]
Callers   == SubSeq(ars, 1, Len(ars) - 1)

pushTmp(ar, v) == [ar EXCEPT !.tmps = Append(@, v)]
\* The temporaries below the n on top, and those n.
Below(n) == SubSeq(Record.tmps, 1, Len(Record.tmps) - n)
Popped(n) == SubSeq(Record.tmps, Len(Record.tmps) - n + 1, Len(Record.tmps))
Popping(n) == [Record EXCEPT !.tmps = Below(n)]

Fetch(op) == /\ phase = "running"
             /\ ~Ended(Loop)
             /\ Fetched.op = op
             /\ UNCHANGED <<compiled, phase>>

Advanced == [loops EXCEPT ![Len(loops)].ip = @ + 1]
Advance  == loops' = Advanced

\* The instruction replaces the n temporaries on top by v.
Replace(n, v) == /\ ars' = Append(Callers, pushTmp(Popping(n), v))
                 /\ Advance
                 /\ UNCHANGED <<vals, event>>

\* DEF and LABEL do nothing.
Pass == /\ Fetch("DEF") \/ Fetch("LABEL")
        /\ Advance
        /\ UNCHANGED <<ars, vals, event>>

executeLi   == Fetch("LI") /\ Replace(0, [op |-> "lit"])
executeLoad == Fetch("LOAD") /\ Replace(0, [op |-> "from", stmt |-> vals[Fetched.n]])
executeRead == Fetch("READ") /\ Replace(0, [op |-> "read"])
executeArg  == Fetch("ARG") /\ Replace(0, Record.args[Fetched.ix])

\* The operand popped first is the second.
Operate(n) == IF n = 1 THEN [op |-> "unary", of |-> Popped(1)[1]]
              ELSE [op |-> "binary", l |-> Popped(2)[1], r |-> Popped(2)[2]]

executeOpr == Fetch("OPR") /\ Replace(Fetched.ix, Operate(Fetched.ix))

executeStore ==
    /\ Fetch("STORE")
    /\ ars' = Append(Callers, Popping(1))
    /\ vals' = [vals EXCEPT ![Fetched.n] = Fetched.stmt]
    /\ event' = [stmt |-> Fetched.stmt, val |-> Popped(1)[1]]
    /\ Advance

executeWrite ==
    /\ Fetch("WRITE")
    /\ ars' = Append(Callers, Popping(1))
    /\ event' = [stmt |-> Fetched.stmt, val |-> Popped(1)[1]]
    /\ Advance
    /\ UNCHANGED vals

\* Mutant: the arguments come out in the order they are popped.
MutArguments(n) == Reverse(Popped(n))

\* The arguments are popped, the last one first, and each is put before those
\* already there.
Arguments(n) == Popped(n)

\* executeCall: a new record, and a loop over the function's block.
executeCall ==
    /\ Fetch("CALL")
    /\ LET cnt == module.functions[Fetched.n]
       IN  ars' = Callers \o <<Popping(cnt), [NewRecord EXCEPT !.args = Arguments(cnt)]>>
    /\ loops' = Append(Advanced, [block |-> module.labels[Fetched.n], ip |-> 1])
    /\ UNCHANGED <<vals, event>>

\* executeRet pops the record; the loop over the block goes on.
executeRet ==
    /\ Fetch("RET")
    /\ ars' = [Callers EXCEPT ![Len(Callers)] = pushTmp(@, Popped(1)[1])]
    /\ Advance
    /\ UNCHANGED <<vals, event>>

JumpTo(n) == loops' = [loops EXCEPT ![Len(loops)] = [block |-> module.labels[n], ip |-> 1]]

\* Mutant: the value is looked at and stays.
MutJumpIfTrue ==
    /\ Fetch("JIT")
    /\ \E taken \in BOOLEAN :
          /\ event' = [stmt |-> Fetched.stmt, val |-> Popped(1)[1], taken |-> taken]
          /\ IF taken THEN JumpTo(Fetched.n) ELSE Advance
    /\ UNCHANGED <<ars, vals>>

\* JIT: whether the value popped is 1 is left open.
JumpIfTrue ==
    /\ Fetch("JIT")
    /\ ars' = Append(Callers, Popping(1))
    /\ \E taken \in BOOLEAN :
          /\ event' = [stmt |-> Fetched.stmt, val |-> Popped(1)[1], taken |-> taken]
          /\ IF taken THEN JumpTo(Fetched.n) ELSE Advance
    /\ UNCHANGED vals

Jump == Fetch("JUMP") /\ JumpTo(Fetched.n) /\ UNCHANGED <<ars, vals, event>>

\* Mutant: the iterator over the blocks is not incremented.
MutEndOfBlock ==
    /\ phase = "running"
    /\ Ended(Loop)
    /\ loops' = IF Len(loops) > 1 THEN SubSeq(loops, 1, Len(loops) - 1)
                ELSE <<[block |-> Loop.block, ip |-> 1]>>
    /\ UNCHANGED <<compiled, phase, ars, vals, event>>

\* The end of a loop: executeCall returns to the loop it was called from, run
\* goes on with the next block, if any.
EndOfBlock ==
    /\ phase = "running"
    /\ Ended(Loop)
    /\ \/ /\ Len(loops) > 1
          /\ loops' = SubSeq(loops, 1, Len(loops) - 1)
          /\ UNCHANGED phase
       \/ /\ Len(loops) = 1 /\ Loop.block < Len(module.blocks)
          /\ loops' = <<[block |-> Loop.block + 1, ip |-> 1]>>
          /\ UNCHANGED phase
       \/ /\ Len(loops) = 1 /\ Loop.block = Len(module.blocks)
          /\ phase' = "ended"
          /\ UNCHANGED loops
    /\ UNCHANGED <<compiled, ars, vals, event>>

Execute ==
    \/ Pass
    \/ executeLi \/ executeLoad \/ executeRead \/ executeArg \/ executeOpr
    \/ executeStore \/ executeWrite
    \/ executeCall \/ executeRet
    \/ JumpIfTrue \/ Jump
    \/ EndOfBlock

ParamLists == UNION {[1 .. k -> Idents] : k \in 0 .. MaxParams}

\* The process has ended, or the program is not one to run.
Stopped ==
    /\ \/ phase \in {"thrown", "ended"}
       \/ phase = "stmts" /\ Len(src.stmts) = MaxStmts /\ ~Legal(src)
    /\ UNCHANGED vars

\* One more piece of a program of interest, or of one whose visit throws.
Compile ==
    /\ \/ \E n \in Idents, ps \in ParamLists, e \in Exps : visitFuncDef(n, ps, e)
       \/ BeginMain
       \/ \E n \in Idents : visitVarDecl(n)
       \/ Stmt
    /\ Promising' \/ phase' = "thrown"

PcodeNext ==
    \/ Compile
    \/ Boot
    \/ Execute
    \/ Stopped

\* The visit may stop anywhere, a program waits for nothing but its input.
PcodeSpec == Init /\ [][PcodeNext]_vars /\ WF_vars(Execute)

-----------------------------------------------------------------------------
(***************************************************************************)
(* Properties.                                                             *)
(***************************************************************************)

\* How many temporaries an instruction pops.
Pops(inst) == CASE inst.op = "OPR"  -> inst.ix
                [] inst.op = "CALL" -> module.functions[inst.n]
                [] inst.op \in {"STORE", "WRITE", "JIT", "RET"} -> 1
                [] OTHER -> 0

\* Whatever calls are under way, each loop but those that have executed RET
\* has its record, the next instruction finds its operands in the record it
\* belongs to and its argument in the list: popTmp and getNthArg, which do
\* not look, are never called for something that is not there, and no jump
\* leads to a block there is not.
OperandsThere ==
    phase = "running" /\ ~Ended(Loop) =>
        /\ Len(ars) = Len(loops)
        /\ Pops(Fetched) <= Len(Record.tmps)
        /\ Fetched.op = "ARG" => Fetched.ix \in DOMAIN Record.args
        /\ Fetched.op = "RET" => Len(ars) > 1
        /\ Fetched.op \in {"JIT", "JUMP", "CALL"} => module.labels[Fetched.n] # NoBlock

\* Between two statements nothing is left on main's stack, and the body of a
\* function leaves its result alone: over a long run the stacks do not grow.
StacksDrained ==
    phase = "running" =>
        /\ Len(loops) = 1 /\ (Ended(Loop) \/ Loop.ip = 1 \/ Code(Loop)[Loop.ip - 1].stmt # Fetched.stmt)
              => ars = <<NewRecord>>
        /\ ~Ended(Loop) /\ Fetched.op = "RET" => Len(Record.tmps) = 1

\* A program whose jumps all lead forward comes to its end: calls return to
\* where they were made, run goes on to the next block after each, and no
\* label leads back (PcodeRuntime::run, executeCall).
ForwardEnds ==
    LET Forward == \A b \in DOMAIN module.blocks : \A inst \in RanOf(module.blocks[b]) :
                       inst.op \in {"JIT", "JUMP"} => module.labels[inst.n] > b
    IN  phase = "running" /\ Forward ~> phase = "ended"
=============================================================================
