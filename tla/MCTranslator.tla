---------------------------- MODULE MCTranslator -----------------------------
(* Small instances of Translator for TLC. *)
EXTENDS Translator

MCValues == 1 .. (MaxLive + 1)
MCSlots  == (MinSlot - 3 * MaxLive - MaxArity - 2) .. 0
MCNeg2   == -2
MCNeg3   == -3
=============================================================================
