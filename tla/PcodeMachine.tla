----------------------------- MODULE PcodeMachine -----------------------------
(***************************************************************************)
(* The stack code of a program, run by PcodeRuntime, does what the program *)
(* means.                                                                  *)
(***************************************************************************)
EXTENDS Pcode, Meaning

Booted == phase \in {"running", "ended"}

\* The statement of the next instruction main has to execute: an instruction
\* of the current block, or the first one of the next block, a tag's label.
NextStmt(main) ==
    LET rest == {k \in main.ip .. Len(Code(main)) : Code(main)[k].stmt # 0}
    IN  IF rest # {} THEN Code(main)[CHOOSE k \in rest : \A j \in rest : k <= j].stmt
        ELSE IF main.block < Len(module.blocks) THEN module.blocks[main.block + 1][1].stmt
        ELSE Len(src.stmts) + 1

SourcePc == IF phase = "running" THEN NextStmt(loops[1])
            ELSE IF phase = "ended" THEN Len(src.stmts) + 2 ELSE 0

Source == INSTANCE SourceMachine WITH
    prog <- IF Booted THEN src ELSE EmptyProgram,
    pc   <- SourcePc,
    env  <- vals

\* Every run of the stack code reads, writes, tests and jumps as the
\* statements of the source do, with the same values: operands come off the
\* stack in their order, arguments reach their parameters, labels their tags
\* (PcodeVisitor, PcodeRuntime).
RefinesSource == Source!Spec
=============================================================================
