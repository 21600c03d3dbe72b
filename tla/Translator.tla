----------------------------- MODULE Translator ------------------------------
(***************************************************************************)
(* The MIPS translator, libs/mips/src/translator.cpp: one action per IR    *)
(* instruction handler, each with the tryRelease that follows it and, for  *)
(* an instruction that ends a block, the block's trailing pushAll.         *)
(*                                                                         *)
(* The IR comes from tolang/src/visitor.cpp, which walks expression trees  *)
(* in post-order and uses every value exactly once.  The values computed   *)
(* and not yet used therefore form a stack, the variable `stack`; `phase`  *)
(* says which instruction may come next.  The call sequence is five        *)
(* actions, one per loop body or stretch of emission, and nothing else    *)
(* happens between them.                                                   *)
(***************************************************************************)
EXTENDS MipsManager, Sequences

CONSTANTS
    MaxLive,  \* bound on the depth of the expressions translated
    MaxArity, \* bound on the number of arguments of a call
    MinSlot,  \* bound on the frame: no instruction is started below it
    UnaryOps  \* which of "Neg" and "Pos" the programs use

ASSUME BoundAssumption ==
    /\ MaxLive \in Nat
    /\ MaxArity \in Nat
    /\ MinSlot \in Int
    /\ UnaryOps \subseteq {"Neg", "Pos"}

VARIABLES
    mgr,    \* the manager
    phase,  \* what the visitor may emit next
    kind,   \* "fn" in a function, "main" in main
    homes,  \* the variables declared, in order
    stack,  \* the values alive, the next operand last
    consts, \* those of them that are ConstantData
    call    \* the locals of translate(CallInstPtr)

vars == <<mgr, phase, kind, homes, stack, consts, call>>

NoCall == [args |-> <<>>, done |-> 0, pushSet |-> {}, pos |-> 0]

Ran(s) == {s[i] : i \in DOMAIN s}

\* The lowest name not in use, as a SlotTracker would number it.
Fresh(v) == /\ v \in Values \ Ran(stack)
            /\ \A u \in Values \ Ran(stack) : v <= u

Top == stack[Len(stack)]

\* The operands an instruction with n of them takes, and what stays below.
Operands(n) == SubSeq(stack, Len(stack) - n + 1, Len(stack))
Below(n)    == SubSeq(stack, 1, Len(stack) - n)

\* The end of a handler.  Contents named after values that are dead are junk
\* from here on; after exit(1) or undefined behaviour nothing is left.
Settle(m, live) ==
    LET keep(c) == IF c \in Values \ live THEN Junk ELSE c
    IN  IF m.status = "dead" THEN Die(FreshFrame)
        ELSE [m EXCEPT !.got  = F0,
                       !.freg = [r \in FloatRegs |-> keep(@[r])],
                       !.treg = [r \in TmpRegs |-> keep(@[r])],
                       !.stk  = [o \in Slots |-> keep(@[o])]]

\* The values that live on are those of stack'.
Finish(m) == mgr' = Settle(m, Ran(stack'))

Room == mgr.status = "ok" /\ mgr.off >= MinSlot

Body      == phase \in {"entry", "body"} /\ Room
Statement == Body /\ kind = "main"

-----------------------------------------------------------------------------
Init == /\ mgr = FreshFrame
        /\ phase = "idle"
        /\ kind = "main"
        /\ homes = <<>>
        /\ stack = <<>>
        /\ consts = {}
        /\ call = NoCall

\* translate(FunctionPtr): resetFrame.  The functions come first, then main.
BeginFunction(k) ==
    /\ phase = "idle" /\ mgr.status = "ok"
    /\ mgr' = FreshFrame
    /\ phase' = "entry"
    /\ kind' = k
    /\ homes' = <<>>
    /\ UNCHANGED <<stack, consts, call>>

\* AllocaInst.  The slot of a parameter holds what the caller put there, that
\* of a variable of main whatever was there: either way it is x's value.  The
\* StoreInst that follows a parameter's has an Argument, which is in no
\* register, for operand: it emits nothing.
Declare(x) ==
    /\ phase = "entry" /\ Room
    /\ x \in Vars \ Ran(homes)
    /\ mgr' = LET m == AllocMem(mgr, x)
              IN  [m EXCEPT !.stk[m.occ[x].ix] = x]
    /\ homes' = Append(homes, x)
    /\ UNCHANGED <<phase, kind, stack, consts, call>>

-----------------------------------------------------------------------------
(***************************************************************************)
(* Expressions.                                                            *)
(***************************************************************************)

\* A number: ConstantData, no instruction.
Constant ==
    /\ Body
    /\ Len(stack) < MaxLive
    /\ \E v \in Values : /\ Fresh(v)
                         /\ stack' = Append(stack, v)
                         /\ consts' = consts \cup {v}
    /\ phase' = "body"
    /\ UNCHANGED <<mgr, kind, homes, call>>

\* LoadInst of a variable.
LoadVar(x, first) ==
    /\ Body
    /\ Len(stack) < MaxLive
    /\ x \in Ran(homes)
    /\ \E v \in Values :
          /\ Fresh(v)
          /\ stack' = Append(stack, v)
          /\ LET p == mgr.occ[x]
                 m == AllocFloat(mgr, v, first)
             IN  Finish(WriteFloat(m, m.occ[v].ix, v, m.stk[p.ix] = x))
    /\ phase' = "body"
    /\ UNCHANGED <<kind, homes, consts, call>>

\* BinaryOperator.  Both operands are loaded, then looked up again: the
\* second load may have spilled the first.
Binary(first) ==
    /\ Body
    /\ Len(stack) >= 2
    /\ \E v \in Values :
          /\ Fresh(v)
          /\ stack' = Append(Below(2), v)
          /\ LET x == Operands(2)[1]
                 y == Operands(2)[2]
                 a == LoadConst(mgr, x, x \in consts, first)
                 b == LoadConst(a, y, y \in consts, first)
                 c == GetReg(b, x, first)
                 d == GetReg(c, y, first)
                 e == AllocFloat(d, v, first)
             IN  Finish(Release(
                    WriteFloat(e, e.occ[v].ix, v,
                               e.freg[c.occ[x].ix] = x /\ e.freg[d.occ[y].ix] = y),
                    {x, y}))
    /\ consts' = consts \ Ran(Operands(2))
    /\ phase' = "body"
    /\ UNCHANGED <<kind, homes, call>>

\* UnaryOperator, unary plus: the result is bound to the operand's register,
\* which tryRelease then returns to the pool.
UnaryPos(first) ==
    /\ Body
    /\ "Pos" \in UnaryOps
    /\ Len(stack) >= 1
    /\ \E v \in Values :
          /\ Fresh(v)
          /\ stack' = Append(Below(1), v)
          /\ LET m == LoadConst(mgr, Top, Top \in consts, first)
                 r == m.occ[Top].ix
                 p == Occupy(m, m.occ[Top], v)
             IN  Finish(Release(WriteFloat(p, r, v, m.freg[r] = Top), {Top}))
    /\ consts' = consts \ {Top}
    /\ phase' = "body"
    /\ UNCHANGED <<kind, homes, call>>

\* UnaryOperator, unary minus.  Both branches of the code test for an integer
\* type and every value is a float: a register is allocated, nothing emitted.
UnaryNeg(first) ==
    /\ Body
    /\ "Neg" \in UnaryOps
    /\ Len(stack) >= 1
    /\ \E v \in Values :
          /\ Fresh(v)
          /\ stack' = Append(Below(1), v)
          /\ LET m == LoadConst(mgr, Top, Top \in consts, first)
             IN  Finish(Release(AllocFloat(m, v, first), {Top}))
    /\ consts' = consts \ {Top}
    /\ phase' = "body"
    /\ UNCHANGED <<kind, homes, call>>

-----------------------------------------------------------------------------
(***************************************************************************)
(* Calls.                                                                  *)
(***************************************************************************)

\* Mutant: pos leaves no word for the return address.
MutCallBegin(n) ==
    /\ Body
    /\ n <= Len(stack)
    /\ n = 0 => Len(stack) < MaxLive
    /\ LET save == InRegister(mgr) \ Ran(Operands(n))
       IN  call' = [args |-> Operands(n), done |-> 0, pushSet |-> save,
                    pos |-> mgr.off - Cardinality(save)]
    /\ phase' = "args"
    /\ UNCHANGED <<mgr, kind, homes, stack, consts>>

\* Collect what is to be saved and, from its size and the frame's, compute
\* where the arguments go.
CallBegin(n) ==
    /\ Body
    /\ n <= Len(stack)
    /\ n = 0 => Len(stack) < MaxLive
    /\ LET args == Operands(n)
           save == InRegister(mgr) \ Ran(args)
       IN  call' = [args |-> args, done |-> 0, pushSet |-> save,
                    pos |-> mgr.off - 1 - Cardinality(save)]
    /\ phase' = "args"
    /\ UNCHANGED <<mgr, kind, homes, stack, consts>>

\* The loop over the arguments: load the next one and store it at pos.
CallArg(first) ==
    /\ phase = "args" /\ mgr.status = "ok"
    /\ call.done < Len(call.args)
    /\ stack' = stack
    /\ LET v == call.args[call.done + 1]
           m == LoadConst(mgr, v, v \in consts, first)
           right == Held(m, v) = v
       IN  Finish([m EXCEPT !.stk[call.pos] = Held(m, v), !.misread = @ \/ ~right])
    /\ call' = [call EXCEPT !.done = @ + 1, !.pos = @ - 1]
    /\ UNCHANGED <<phase, kind, homes, consts>>

\* The loop over pushSet, a std::set of pointers: in any order.  push looks
\* the register up, which reloads a value the argument loop spilled; that done,
\* it reads currentOffset (C++ leaves the order open, clang's is this one).
CallSave(n, first) ==
    /\ phase = "args" /\ mgr.status = "ok"
    /\ call.done = Len(call.args)
    /\ n \in call.pushSet
    /\ stack' = stack
    /\ Finish(PushOne(GetReg(mgr, n, first), n))
    /\ call' = [call EXCEPT !.pushSet = @ \ {n}]
    /\ UNCHANGED <<phase, kind, homes, consts>>

\* Save $ra and move $sp to currentOffset.
CallJump ==
    /\ phase = "args" /\ mgr.status = "ok"
    /\ call.done = Len(call.args) /\ call.pushSet = {}
    /\ mgr' = [mgr EXCEPT !.stk[mgr.off] = RetAddr, !.off = @ - 1]
    /\ phase' = "jal"
    /\ UNCHANGED <<kind, homes, stack, consts, call>>

\* jal and everything after it.  The callee may change every register and
\* every slot from its $sp down, and leaves the result in $f0.
CallReturn(first) ==
    /\ phase = "jal" /\ mgr.status = "ok"
    /\ \E v \in Values :
          /\ Fresh(v)
          /\ stack' = Append(Below(Len(call.args)), v)
          /\ LET back == [mgr EXCEPT
                     !.off  = @ + 1,
                     !.freg = [[r \in FloatRegs |-> Junk] EXCEPT ![F0] = v],
                     !.treg = [r \in TmpRegs |-> Junk],
                     !.stk  = [o \in Slots |-> IF o <= mgr.off THEN Junk ELSE @[o]]]
                 a == AllocFloat(back, v, first)
                 z == GetFreeFloat(a, first)
                 l == [z EXCEPT !.freg[z.got] = Junk]
             IN  Finish(Release(WriteFloat(l, a.occ[v].ix, v, l.freg[F0] = v),
                                Ran(call.args)))
    /\ consts' = consts \ Ran(call.args)
    /\ call' = NoCall
    /\ phase' = "body"
    /\ UNCHANGED <<kind, homes>>

-----------------------------------------------------------------------------
(***************************************************************************)
(* Statements and the ends of blocks and functions.                        *)
(***************************************************************************)

\* The end of a block: pushAll.
EndBlock(m) ==
    \E rank \in Ranks(InRegister(m)) : Finish(Push(m, InRegister(m), rank))

\* StoreInst of a let or a get statement.
Store(x, first) ==
    /\ Room
    /\ \/ phase = "body" /\ kind = "main"
       \/ phase = "input"
    /\ Len(stack) = 1
    /\ x \in Ran(homes)
    /\ stack' = <<>>
    /\ LET m == LoadConst(mgr, Top, Top \in consts, first)
           right == m.freg[m.occ[Top].ix] = Top
       IN  Finish(Release([m EXCEPT !.stk[m.occ[x].ix] = IF right THEN x ELSE Junk,
                                    !.misread = @ \/ ~right], {Top}))
    /\ consts' = {}
    /\ phase' = "body"
    /\ UNCHANGED <<kind, homes, call>>

\* InputInst of a get of some declared variable: read a number into $f0, move
\* it to a register by adding zero.
Input(first) ==
    /\ Statement
    /\ stack = <<>> /\ homes # <<>>
    /\ \E v \in Values :
          /\ Fresh(v)
          /\ stack' = <<v>>
          /\ LET s == [mgr EXCEPT !.freg[F0] = v]
                 z == GetFreeFloat(s, first)
                 l == [z EXCEPT !.freg[z.got] = Junk]
                 a == AllocFloat(l, v, first)
             IN  Finish(WriteFloat(a, a.occ[v].ix, v, a.freg[F0] = v))
    /\ phase' = "input"
    /\ UNCHANGED <<kind, homes, consts, call>>

\* OutputInst: the register of the zero is chosen before the operand is
\* loaded and written after it.
Output(first) ==
    /\ Statement
    /\ Len(stack) = 1
    /\ stack' = <<>>
    /\ LET z == GetFreeFloat(mgr, first)
           m == LoadConst(z, Top, Top \in consts, first)
           l == [m EXCEPT !.freg[z.got] = Junk]
       IN  Finish(Release(WriteFloat(l, F12, Top, l.freg[m.occ[Top].ix] = Top), {Top}))
    /\ consts' = {}
    /\ phase' = "body"
    /\ UNCHANGED <<kind, homes, call>>

\* How two floats may compare, NaN aside, and which of it an operator asks for.
Outcomes == {"less", "same", "more"}
Relations == {"==", "!=", ">", ">=", "<", "<="}
Asked(op) == CASE op = "==" -> {"same"} [] op = "!=" -> {"less", "more"}
               [] op = ">"  -> {"more"} [] op = ">=" -> {"more", "same"}
               [] op = "<"  -> {"less"} [] op = "<=" -> {"less", "same"}

\* The outcomes for which c.eq.s, c.lt.s or c.le.s sets the flag.
Flag(op) == CASE op \in {"==", "!="} -> {"same"}
              [] op \in {"<", ">="}  -> {"less"}
              [] op \in {"<=", ">"}  -> {"less", "same"}

\* Those for which the result becomes 1: doOpposite branches on a clear flag.
Lowered(op) == IF op \in {"!=", ">", ">="} THEN Outcomes \ Flag(op) ELSE Flag(op)

\* CompareInstruction on floats: the left operand's register is looked up
\* before the right operand is loaded.
Compare(op, first) ==
    /\ Statement
    /\ Len(stack) = 2
    /\ \E v \in Values :
          /\ Fresh(v)
          /\ stack' = <<v>>
          /\ LET x == stack[1]
                 y == stack[2]
                 a == LoadConst(mgr, x, x \in consts, first)
                 b == LoadConst(a, y, y \in consts, first)
                 c == AllocTmp(b, v)
                 right  == c.freg[a.occ[x].ix] = x /\ c.freg[b.occ[y].ix] = y
                 result == IF right /\ Lowered(op) = Asked(op) THEN v ELSE Junk
             IN  Finish(Release([c EXCEPT !.treg[c.occ[v].ix] = result,
                                          !.misread = @ \/ ~right], {x, y}))
    /\ consts' = {}
    /\ phase' = "cond"
    /\ UNCHANGED <<kind, homes, call>>

\* BranchInst, the only user of a compare.
Branch ==
    /\ phase = "cond" /\ mgr.status = "ok"
    /\ Len(stack) = 1
    /\ stack' = <<>>
    /\ EndBlock(Release([mgr EXCEPT !.misread = @ \/ Held(mgr, Top) # Top], {Top}))
    /\ phase' = "body"
    /\ UNCHANGED <<kind, homes, consts, call>>

\* JumpInst of a to or a tag statement.
Jump ==
    /\ Statement
    /\ stack = <<>>
    /\ stack' = stack
    /\ EndBlock(mgr)
    /\ phase' = "body"
    /\ UNCHANGED <<kind, homes, consts, call>>

\* ReturnInst of a function: the value goes to $f0 by adding zero.
ReturnValue(first) ==
    /\ Body
    /\ kind = "fn"
    /\ Len(stack) = 1
    /\ stack' = <<>>
    /\ LET m == LoadConst(mgr, Top, Top \in consts, first)
           z == GetFreeFloat(m, first)
           l == [z EXCEPT !.freg[z.got] = Junk]
       IN  EndBlock(Release(WriteFloat(l, F0, Top, l.freg[m.occ[Top].ix] = Top), {Top}))
    /\ consts' = {}
    /\ phase' = "idle"
    /\ UNCHANGED <<kind, homes, call>>

\* ReturnInst of main: the exit system call, nothing is loaded.
ReturnMain ==
    /\ Statement
    /\ stack = <<>>
    /\ stack' = stack
    /\ EndBlock(mgr)
    /\ phase' = "end"
    /\ UNCHANGED <<kind, homes, consts, call>>

\* The module is translated, the compiler has exited, or the frame is at the
\* bound.
Stopped ==
    /\ phase = "end" \/ mgr.status = "dead" \/ mgr.off < MinSlot
    /\ UNCHANGED vars

Next ==
    \/ \E k \in {"fn", "main"} : BeginFunction(k)
    \/ \E x \in Vars : Declare(x)
    \/ Constant
    \/ \E n \in 0 .. MaxArity : CallBegin(n)
    \/ CallJump
    \/ \E first \in Values :
          \/ \E x \in Vars : LoadVar(x, first) \/ Store(x, first)
          \/ Binary(first)
          \/ UnaryPos(first)
          \/ UnaryNeg(first)
          \/ CallArg(first)
          \/ \E n \in Names : CallSave(n, first)
          \/ CallReturn(first)
          \/ Input(first)
          \/ Output(first)
          \/ \E op \in Relations : Compare(op, first)
          \/ ReturnValue(first)
    \/ Branch
    \/ Jump
    \/ ReturnMain
    \/ Stopped

Spec == Init /\ [][Next]_vars

-----------------------------------------------------------------------------
(***************************************************************************)
(* Properties.                                                             *)
(***************************************************************************)

\* Every variable of the translator has its type (the members of class
\* MipsManager and the locals of the handlers).
TypeOK ==
    /\ mgr \in Managers
    /\ phase \in {"idle", "entry", "body", "input", "cond", "args", "jal", "end"}
    /\ kind \in {"fn", "main"}
    /\ homes \in Seq(Vars)
    /\ stack \in Seq(Values)
    /\ consts \subseteq Values
    /\ call \in [args : Seq(Values), done : Nat, pushSet : SUBSET Names, pos : Int]

\* No two names ever share a word of the frame, and the word the next push or
\* allocMem will write is below all of them: allocMem, push and the return
\* address move one cursor, and a reload does not give its word back.
FrameDisjoint == Apart(mgr, 0)

\* Every allocatable register is either in its pool or bound to exactly one
\* value: over any sequence of handlers occupy and release never lose a
\* register and never hand one out twice.
RegistersAccounted ==
    mgr.status = "ok" =>
        /\ \A r \in Allocatable :
              r \in mgr.pool <=> \A n \in Names : mgr.occ[n] # InFloat(r)
        /\ \A r \in TmpRegs :
              r \in mgr.tpool <=> \A n \in Names : mgr.occ[n] # InTmp(r)
        /\ \A n, u \in Names : n # u /\ n \in InRegister(mgr) => mgr.occ[n] # mgr.occ[u]

\* A value computed and not yet used is where the occupation table says: the
\* emitted code has not overwritten the register or the word it is bound to,
\* whatever was spilled, reloaded, saved around a call or clobbered by it.
ValuesHeld ==
    mgr.status = "ok" => \A v \in Ran(stack) :
        v \notin consts \/ mgr.occ[v] # Nowhere => Held(mgr, v) = v

\* No instruction the handlers emitted has read a register that did not hold
\* the operand it was emitted for.
ReadsRight == ~mgr.misread

\* The i-th variable declared stays at word 1 - i of the frame, which is where
\* a caller puts the i-th argument, and nothing but its own stores writes it.
HomesHeld ==
    mgr.status = "ok" => \A i \in DOMAIN homes :
        /\ mgr.occ[homes[i]] = OnStack(1 - i)
        /\ mgr.stk[1 - i] = homes[i]

\* When jal executes, the callee finds its i-th argument at word 1 - i from
\* its $sp: nothing emitted after the argument was stored at pos, the saves
\* and the return address included, has gone over it (CallInst).  Of a value
\* that was wrong before the call nothing is said.
ArgsInPlace ==
    phase = "jal" /\ mgr.status = "ok" /\ ~mgr.misread =>
        \A i \in DOMAIN call.args : mgr.stk[mgr.off - (i - 1)] = call.args[i]

\* When jal executes, the return address is in the word above $sp, and no
\* value the caller still needs is left in a register or in a word the callee
\* may write, whether the save loop or an earlier spill put it there (CallInst).
CallerSaved ==
    phase = "jal" /\ mgr.status = "ok" =>
        /\ mgr.stk[mgr.off + 1] = RetAddr
        /\ \A v \in Ran(stack) \ (Ran(call.args) \cup consts) :
              mgr.occ[v].ty = "off" /\ mgr.occ[v].ix > mgr.off + 1

\* The table has an entry for a value exactly while it is alive: a constant
\* from its first use, and at the end of a block, where pushAll runs, no
\* value is left for it to store.
TableExact ==
    /\ \A v \in Values :
          /\ mgr.occ[v] # Nowhere => v \in Ran(stack)
          /\ v \in Ran(stack) \ consts /\ mgr.status = "ok" => mgr.occ[v] # Nowhere
    /\ \A x \in Vars : mgr.status = "ok" /\ phase # "idle" =>
          (mgr.occ[x] # Nowhere <=> x \in Ran(homes))

\* The compiler does not exit, fail an assert or follow an uninitialized
\* pointer while it looks for a register.
NeverDead == mgr.status = "ok"
=============================================================================
