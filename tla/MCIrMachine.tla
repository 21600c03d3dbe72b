----------------------------- MODULE MCIrMachine -----------------------------
(* Small instances of IrMachine for TLC. *)
EXTENDS IrSource, IrValues, SourceValues, TLC

MCIds   == {Id(n) : n \in Idents}
MCExps  == MCIds \cup {Call(n, <<e>>) : n \in Idents, e \in MCIds} \cup {Unary(Bad)}
MCConds == {Binary(Num, e) : e \in MCIds}

MCSymmetry == Permutations(Idents)
=============================================================================
