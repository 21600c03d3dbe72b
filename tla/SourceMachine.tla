---------------------------- MODULE SourceMachine ----------------------------
(***************************************************************************)
(* What a tolang program means: a machine that executes its statements in  *)
(* order, jumping from an if or a to statement to the tag it names.  This  *)
(* is what the compiled program has to do; nothing here is compiled.       *)
(*                                                                         *)
(* A variable's content is the statement that assigned it last, a value    *)
(* the expression over such contents, so that a run tells which definition *)
(* reaches which use.                                                      *)
(***************************************************************************)
EXTENDS Meaning

VARIABLES
    prog,  \* the program, once loaded
    pc,    \* the next statement; 0 before, Len(prog.stmts) + 2 after the run
    env,   \* the statement that assigned each variable last, 0 for none
    event  \* the last thing the program did: what was read, written, tested

sourceVars == <<prog, pc, env, event>>

NoEvent == [stmt |-> 0]

-----------------------------------------------------------------------------
TagAt(t) == CHOOSE i \in Definitions(prog, t) : TRUE

\* A tag does nothing: whether a jump leads to it or past it is left open.
Entries(t) == {TagAt(t), TagAt(t) + 1}

Rho == [n \in Idents |-> [op |-> "from", stmt |-> env[n]]]

-----------------------------------------------------------------------------
Init == prog = EmptyProgram /\ pc = 0 /\ env = [n \in Idents |-> 0] /\ event = NoEvent

Load ==
    /\ pc = 0
    /\ pc' = 1
    /\ Legal(prog')
    /\ UNCHANGED <<env, event>>

At(kind) == /\ pc \in DOMAIN prog.stmts
            /\ prog.stmts[pc].k = kind
            /\ UNCHANGED prog
S == prog.stmts[pc]

Get == /\ At("get")
       /\ env' = [env EXCEPT ![S.n] = pc]
       /\ event' = [stmt |-> pc, val |-> [op |-> "read"]]
       /\ pc' = pc + 1

Put == /\ At("put")
       /\ event' = [stmt |-> pc, val |-> Eval(S.e, Rho, prog)]
       /\ pc' = pc + 1
       /\ UNCHANGED env

Let == /\ At("let")
       /\ env' = [env EXCEPT ![S.n] = pc]
       /\ event' = [stmt |-> pc, val |-> Eval(S.e, Rho, prog)]
       /\ pc' = pc + 1

Tag == At("tag") /\ pc' = pc + 1 /\ UNCHANGED <<env, event>>

To  == At("to") /\ pc' \in Entries(S.n) /\ UNCHANGED <<env, event>>

If  == /\ At("if")
       /\ \E taken \in BOOLEAN :
             /\ event' = [stmt |-> pc, val |-> Eval(S.e, Rho, prog), taken |-> taken]
             /\ pc' \in IF taken THEN Entries(S.n) ELSE {pc + 1}
       /\ UNCHANGED env

Exit == /\ pc = Len(prog.stmts) + 1
        /\ pc' = pc + 1
        /\ UNCHANGED <<prog, env, event>>

Next == Load \/ Get \/ Put \/ Let \/ Tag \/ To \/ If \/ Exit

Spec == Init /\ [][Next]_sourceVars
=============================================================================
