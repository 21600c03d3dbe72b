----------------------------- MODULE MipsMachine ------------------------------
(***************************************************************************)
(* Labels and jumps of the MIPS code.  Once Visitor has finished and the   *)
(* driver found no error, Translator turns the IR into a list of code and  *)
(* labels, which is assembled and runs.  What becomes of the registers and *)
(* the frame is the subject of module Translator: here an instruction that *)
(* neither jumps nor compares is one item of code.                         *)
(*                                                                         *)
(* A name is the sequence of its parts between underscores, so a label is  *)
(* a function's name with a number appended.                               *)
(***************************************************************************)
EXTENDS Visitor, TLC

CONSTANTS
    MainName,       \* "main", the name of the IR function made for the statements
    Value(_, _, _)  \* what a term computes, as in IrMachine

VARIABLES
    asm,    \* the manager: functionName, labelCount, blockNames and codes
    fns,    \* how many functions have been translated, main the last
    todo,   \* block and instruction of main to translate next
    pc,     \* the item to execute next
    flag,   \* the condition flag, set if the comparison holds
    cond,   \* the register the comparison's result is moved to
    mem,    \* for every alloca of main, the statement that stored there last
    event   \* the last thing the program did

vars == <<visitorVars, asm, fns, todo, pc, flag, cond, mem, event>>

NotRunning == 0
Exited     == -1

MipsInit ==
    /\ Init
    /\ asm = [functionName |-> <<>>, labelCount |-> 0, blockNames |-> <<>>, codes |-> <<>>]
    /\ fns = 0
    /\ todo = <<1, 0>>
    /\ pc = NotRunning
    /\ flag = FALSE
    /\ cond = 0
    /\ mem = [ix \in 1 .. MaxDecls |-> 0]
    /\ event = [stmt |-> 0]

-----------------------------------------------------------------------------
(***************************************************************************)
(* The manager.  Each item remembers the IR instruction it is part of, or  *)
(* the one it leads to if that one is done.                                *)
(***************************************************************************)
Item(op, at)          == [op |-> op, at |-> at]
Labelled(op, l, at)   == [op |-> op, label |-> l, at |-> at]
LoadNumber(n, at)     == [op |-> "li", number |-> n, at |-> at]

addCode(m, items) == [m EXCEPT !.codes = @ \o items]

\* The name newLabelName gives next.
Fresh(m) == Append(m.functionName, ToString(m.labelCount))
newLabelName(m) == [m EXCEPT !.labelCount = @ + 1]

\* getLabelName: after it block b has a name, and keeps it.
getLabelName(m, b) ==
    IF b \in DOMAIN m.blockNames THEN m
    ELSE [newLabelName(m) EXCEPT
             !.blockNames = [c \in DOMAIN @ \cup {b} |-> IF c = b THEN Fresh(m) ELSE @[c]]]

\* Mutant: labels are numbered on from function to function, without a name.
MutResetFrame(m, name) ==
    [addCode(m, <<Labelled("label", name, <<1, 1>>)>>)
        EXCEPT !.functionName = <<"L">>, !.blockNames = <<>>, !.labelCount = 0]

resetFrame(m, name) ==
    [addCode(m, <<Labelled("label", name, <<1, 1>>)>>)
        EXCEPT !.functionName = name, !.blockNames = <<>>, !.labelCount = 0]

\* The start of translate(BasicBlockPtr).
BlockLabel(m, b) ==
    LET n == getLabelName(m, b)
    IN  addCode(n, <<Labelled("label", n.blockNames[b], <<b, 1>>)>>)

\* translate(ReturnInstPtr) of a value: the function named main exits.
Leave(m, at) == addCode(m, <<Item(IF m.functionName = MainName THEN "exit" ELSE "jr", at)>>)

-----------------------------------------------------------------------------
(***************************************************************************)
(* The translator: functions in their order, main last, of main one        *)
(* instruction at a time.                                                  *)
(***************************************************************************)
Translating == phase = "done" /\ Faultless
Idle        == UNCHANGED <<visitorVars, pc, flag, cond, mem, event>>

\* A function is one block that returns the value of its expression.
TranslateFunction ==
    /\ Translating /\ fns < Len(funcs)
    /\ LET m == BlockLabel(resetFrame(asm, funcs[fns + 1].n), 1)
       IN  asm' = Leave(addCode(m, <<Item("body", NotRunning)>>), NotRunning)
    /\ fns' = fns + 1
    /\ UNCHANGED todo
    /\ Idle

TranslateMain ==
    /\ Translating /\ fns = Len(funcs)
    /\ asm' = resetFrame(asm, MainName)
    /\ fns' = fns + 1
    /\ UNCHANGED todo
    /\ Idle

InMain  == Translating /\ fns > Len(funcs) /\ todo[1] \in DOMAIN blocks
Todo    == blocks[todo[1]][todo[2]]

\* Block todo[1] from its label to its end.
TranslateBlock ==
    /\ InMain /\ todo[2] = 0
    /\ asm' = BlockLabel(asm, todo[1])
    /\ todo' = <<todo[1], 1>>
    /\ UNCHANGED fns
    /\ Idle

Translate(ops) ==
    /\ InMain /\ todo[2] > 0
    /\ Todo.op \in ops
    /\ todo' = IF todo[2] = Len(blocks[todo[1]]) THEN <<todo[1] + 1, 0>> ELSE <<todo[1], todo[2] + 1>>
    /\ UNCHANGED fns
    /\ Idle

\* Mutant: a handler emits nothing.
MutTranslateStraight ==
    /\ Translate({"alloca", "input", "output", "store"})
    /\ asm' = IF Todo.op = "output" THEN asm
              ELSE addCode(asm, <<[op |-> Todo.op, inst |-> Todo, at |-> todo]>>)

\* An alloca gets its word when it is translated and no code: its item is there
\* for IrMachine, which executes it, and does nothing.
TranslateStraight ==
    /\ Translate({"alloca", "input", "output", "store"})
    /\ asm' = addCode(asm, <<[op |-> Todo.op, inst |-> Todo, at |-> todo]>>)

\* Mutant: the block the jump ends is taken for its target.
MutTranslateJump ==
    /\ Translate({"jump"})
    /\ asm' = addCode(asm, <<Labelled("j", asm.blockNames[todo[1]], todo)>>)

TranslateJump ==
    /\ Translate({"jump"})
    /\ LET m == getLabelName(asm, Todo.target)
       IN  asm' = addCode(m, <<Labelled("j", m.blockNames[Todo.target], todo)>>)

\* Mutant: the numbers are exchanged.
MutCompareCode(m, inst, at) ==
    LET one  == Fresh(m)
        over == Fresh(newLabelName(m))
    IN  addCode(newLabelName(newLabelName(m)),
                <<[op |-> "compare", inst |-> inst, at |-> at], Labelled("bc", one, at),
                  LoadNumber(1, at), Labelled("j", over, at),
                  Labelled("label", one, at), LoadNumber(0, at),
                  Labelled("label", over, at)>>)

\* The comparison: its result is a number, and which, a jump over the other.
CompareCode(m, inst, at) ==
    LET one  == Fresh(m)
        over == Fresh(newLabelName(m))
    IN  addCode(newLabelName(newLabelName(m)),
                <<[op |-> "compare", inst |-> inst, at |-> at], Labelled("bc", one, at),
                  LoadNumber(0, at), Labelled("j", over, at),
                  Labelled("label", one, at), LoadNumber(1, at),
                  Labelled("label", over, at)>>)

\* A comparison and the branch on it.
TranslateBranch ==
    /\ Translate({"branch"})
    /\ LET m == CompareCode(asm, Todo, todo)
           n == getLabelName(m, Todo.target)
           q == getLabelName(n, Todo.other)
       IN  asm' = addCode(q, <<[op |-> "bnez", inst |-> Todo, label |-> q.blockNames[Todo.target],
                                at |-> todo],
                               Labelled("j", q.blockNames[Todo.other], <<Todo.other, 1>>)>>)

TranslateReturn == Translate({"ret"}) /\ asm' = Leave(asm, todo)

Translation ==
    \/ TranslateFunction \/ TranslateMain \/ TranslateBlock
    \/ TranslateStraight \/ TranslateJump \/ TranslateBranch \/ TranslateReturn

-----------------------------------------------------------------------------
(***************************************************************************)
(* The run.                                                                *)
(***************************************************************************)
Translated == Translating /\ fns > Len(funcs) /\ todo[1] > Len(blocks)

Code          == asm.codes
Positions(l)  == {i \in DOMAIN Code : Code[i].op = "label" /\ Code[i].label = l}
Where(l)      == CHOOSE i \in Positions(l) : TRUE
Labels        == {Code[i].label : i \in {i \in DOMAIN Code : Code[i].op = "label"}}
Unique        == \A l \in Labels : Cardinality(Positions(l)) = 1

\* The IR instruction that is executed next.
Ip == CASE pc = NotRunning -> <<0, 0>>
        [] pc = Exited     -> <<0, 1>>
        [] OTHER           -> Code[pc].at

Ir == INSTANCE IrMachine WITH ip <- Ip

\* The assembler takes no label twice.  The code begins with j main.
Boot == /\ Translated /\ pc = NotRunning
        /\ Unique
        /\ pc' = Where(MainName)
        /\ UNCHANGED <<visitorVars, asm, fns, todo, flag, cond, mem, event>>

At(op) == /\ pc > 0
          /\ Code[pc].op = op
          /\ UNCHANGED <<visitorVars, asm, fns, todo>>
Inst    == Code[pc].inst
Advance == pc' = pc + 1
GoTo(l) == pc' = Where(l)
Steady  == UNCHANGED <<flag, cond, mem, event>>

RunLabel  == At("label") /\ Advance /\ Steady
RunAlloca == At("alloca") /\ Advance /\ Steady

RunInput == /\ At("input")
            /\ mem' = [mem EXCEPT ![Inst.cell.ix] = Inst.stmt]
            /\ event' = [stmt |-> Inst.stmt, val |-> [op |-> "read"]]
            /\ Advance
            /\ UNCHANGED <<flag, cond>>

RunOutput == /\ At("output")
             /\ event' = [stmt |-> Inst.stmt, val |-> Ir!Compute(Inst.val)]
             /\ Advance
             /\ UNCHANGED <<flag, cond, mem>>

RunStore == /\ At("store")
            /\ mem' = [mem EXCEPT ![Inst.cell.ix] = Inst.stmt]
            /\ event' = [stmt |-> Inst.stmt, val |-> Ir!Compute(Inst.val)]
            /\ Advance
            /\ UNCHANGED <<flag, cond>>

RunCompare == /\ At("compare")
              /\ flag' \in BOOLEAN
              /\ Advance
              /\ UNCHANGED <<cond, mem, event>>

\* bc1t or bc1f, whichever asks for the comparison to hold.
RunBc == At("bc") /\ (IF flag THEN GoTo(Code[pc].label) ELSE Advance) /\ Steady

RunLoadNumber == /\ At("li")
                 /\ cond' = Code[pc].number
                 /\ Advance
                 /\ UNCHANGED <<flag, mem, event>>

RunJump == At("j") /\ GoTo(Code[pc].label) /\ Steady

RunBnez == /\ At("bnez")
           /\ event' = [stmt |-> Inst.stmt, val |-> Ir!Compute(Inst.val), taken |-> flag]
           /\ IF cond # 0 THEN GoTo(Code[pc].label) ELSE Advance
           /\ UNCHANGED <<flag, cond, mem>>

RunExit == At("exit") /\ pc' = Exited /\ Steady

RunStep ==
    \/ RunLabel \/ RunAlloca \/ RunInput \/ RunOutput \/ RunStore
    \/ RunCompare \/ RunBc \/ RunLoadNumber \/ RunJump \/ RunBnez \/ RunExit

Analyse == VisitorNext /\ UNCHANGED <<asm, fns, todo, pc, flag, cond, mem, event>>

MipsNext == Analyse \/ Translation \/ Boot \/ RunStep

\* The visit may stop anywhere, a program waits for nothing but its input.
MipsSpec == MipsInit /\ [][MipsNext]_vars /\ WF_vars(RunStep)

-----------------------------------------------------------------------------
(***************************************************************************)
(* Properties.                                                             *)
(***************************************************************************)

\* The code executes the instructions of the IR: every jump leads to the block
\* it names, whichever comes first in the code, and a comparison that holds
\* to the true block (Translator, MipsManager::getLabelName).
RefinesIr == Ir!MachineSpec

\* Functions whose name is that of main, or of another label: the first block
\* of a function, the blocks and the comparisons of main.
Clashing(n) ==
    \/ n = MainName
    \/ \E j \in DOMAIN funcs : n = Append(funcs[j].n, "0")
    \/ \E k \in 1 .. Len(blocks) + 2 * Cardinality({b \in JumpBlocks : LastInst(b).op = "branch"}) :
          n = Append(MainName, ToString(k - 1))

\* Every label that is jumped to is in the code, and only once, unless a
\* function has a name the translator gives to something else; only then is
\* an accepted program one that cannot be assembled (MipsManager::newLabelName).
LabelsRight ==
    Translated =>
        /\ \A i \in DOMAIN Code : Code[i].op \in {"j", "bc", "bnez"} => Code[i].label \in Labels
        /\ Unique <=> ~\E j \in DOMAIN funcs : Clashing(funcs[j].n)

\* A program whose jumps all lead forward comes to its end: no jump of the
\* code leads back, and nothing runs past the last instruction.
ForwardEnds ==
    pc > 0 /\ (\A b \in JumpBlocks : LastInst(b).target > b) ~> pc = Exited
=============================================================================
