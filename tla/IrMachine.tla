------------------------------ MODULE IrMachine ------------------------------
(***************************************************************************)
(* The compiler and the program it compiled: once Visitor has finished and *)
(* the driver found no error (bin/main.cpp), the IR runs.                  *)
(***************************************************************************)
EXTENDS Visitor

\* The value of a term, given what the cells hold and the functions.
CONSTANT Value(_, _, _)

VARIABLES
    ip,    \* block and instruction to execute next
    mem,   \* for every alloca of main, the statement that stored there last
    event  \* the last thing the program did

vars == <<visitorVars, ip, mem, event>>

NotRunning == <<0, 0>>
Exited     == <<0, 1>>

MachineInit ==
    /\ Init
    /\ ip = NotRunning
    /\ mem = [ix \in 1 .. MaxDecls |-> 0]
    /\ event = [stmt |-> 0]

\* The contents of main's cells are the statements that stored there.
Compute(v) ==
    Value(v, [c \in [fn : {0}, ix : DOMAIN mem] |-> [op |-> "from", stmt |-> mem[c.ix]]], funcs)

-----------------------------------------------------------------------------
Inst == blocks[ip[1]][ip[2]]
At(op) == /\ ip[1] > 0
          /\ Inst.op = op
          /\ UNCHANGED visitorVars
Advance == ip' = <<ip[1], ip[2] + 1>>
GoTo(b) == ip' = <<b, 1>>

Compile == VisitorNext /\ UNCHANGED <<ip, mem, event>>

\* The driver emits code only when nothing was reported.
Boot == /\ phase = "done" /\ Faultless
        /\ ip = NotRunning
        /\ GoTo(1)
        /\ UNCHANGED <<visitorVars, mem, event>>

ExecAlloca == At("alloca") /\ Advance /\ UNCHANGED <<mem, event>>

ExecInput == /\ At("input")
             /\ mem' = [mem EXCEPT ![Inst.cell.ix] = Inst.stmt]
             /\ event' = [stmt |-> Inst.stmt, val |-> [op |-> "read"]]
             /\ Advance

ExecOutput == /\ At("output")
              /\ event' = [stmt |-> Inst.stmt, val |-> Compute(Inst.val)]
              /\ Advance
              /\ UNCHANGED mem

ExecStore == /\ At("store")
             /\ mem' = [mem EXCEPT ![Inst.cell.ix] = Inst.stmt]
             /\ event' = [stmt |-> Inst.stmt, val |-> Compute(Inst.val)]
             /\ Advance

ExecJump == At("jump") /\ GoTo(Inst.target) /\ UNCHANGED <<mem, event>>

ExecBranch == /\ At("branch")
              /\ \E taken \in BOOLEAN :
                    /\ event' = [stmt |-> Inst.stmt, val |-> Compute(Inst.val), taken |-> taken]
                    /\ GoTo(IF taken THEN Inst.target ELSE Inst.other)
              /\ UNCHANGED mem

ExecRet == At("ret") /\ ip' = Exited /\ UNCHANGED <<mem, event>>

MachineNext ==
    \/ Compile
    \/ Boot
    \/ ExecAlloca \/ ExecInput \/ ExecOutput \/ ExecStore
    \/ ExecJump \/ ExecBranch \/ ExecRet

MachineSpec == MachineInit /\ [][MachineNext]_vars
=============================================================================
