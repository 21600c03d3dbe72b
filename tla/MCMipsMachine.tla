---------------------------- MODULE MCMipsMachine -----------------------------
(* Small instances of MipsMachine for TLC. *)
EXTENDS MipsSource, IrValues, SourceValues

MCMain == <<"main">>

\* Two names, one of them that of the other's first block.
MCNames == {<<"f">>, <<"f", "0">>}

\* Few enough for two functions of two parameters before a statement: what
\* declares a name takes both, so that a use takes one is enough.
MCFewExps == {Id(<<"f">>)} \cup {Call(n, <<Num>>) : n \in Idents}

\* Control flow only.
MCNum  == {Num}
MCCond == {Binary(Num, Num)}
=============================================================================
