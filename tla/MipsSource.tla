----------------------------- MODULE MipsSource -------------------------------
(***************************************************************************)
(* The MIPS code of an accepted program does what the program means.       *)
(***************************************************************************)
EXTENDS MipsMachine, Meaning

Executed == INSTANCE IrSource WITH ip <- Ip

\* The code reads, writes, tests and jumps as the statements of the source do
\* (Translator, MipsManager::getLabelName).
RefinesSource == Executed!RefinesSource
=============================================================================
