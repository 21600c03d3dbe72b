------------------------------ MODULE MCVisitor ------------------------------
(* Small instances of Visitor for TLC. *)
EXTENDS Visitor

\* Control flow only.
MCNum  == {Num}
MCCond == {Binary(Num, Num)}
=============================================================================
