------------------------------ MODULE IrSource --------------------------------
(***************************************************************************)
(* The IR of an accepted program does what the program means, if the value *)
(* of a term is what IrValues says.  The next statement is that of the     *)
(* next instruction, the allocas at the head of main aside.                *)
(***************************************************************************)
EXTENDS IrMachine, Meaning

Running == ip # NotRunning

NextStmt ==
    LET code == blocks[ip[1]]
        k == CHOOSE k \in ip[2] .. Len(code) :
                code[k].op # "alloca" /\ \A j \in ip[2] .. (k - 1) : code[j].op = "alloca"
    IN  code[k].stmt

SourcePc == CASE ip = NotRunning -> 0
              [] ip = Exited     -> Len(src.stmts) + 2
              [] OTHER           -> NextStmt

CellOf(n) == CHOOSE ix \in DOMAIN src.decls : src.decls[ix] = n

Source == INSTANCE SourceMachine WITH
    prog  <- IF Running THEN src ELSE EmptyProgram,
    pc    <- SourcePc,
    env   <- [n \in Idents |-> IF Running /\ VarInMain(n) THEN mem[CellOf(n)] ELSE 0]

\* Whatever program is compiled, it is one that has a meaning, and every run
\* of its IR reads, writes, tests and jumps as the statements of the source
\* do: patched jumps reach their tags, names their own variables, arguments
\* their parameters (visitor.cpp).
RefinesSource == Source!Spec
=============================================================================
