----------------------------- MODULE MipsProofs -------------------------------
(***************************************************************************)
(* The MIPS code executes the instructions of the IR: MipsMachine          *)
(* implements IrMachine, for every program none of whose jumps is without  *)
(* a target.                                                               *)
(***************************************************************************)
EXTENDS MipsMachine, VisitorProofs, FiniteSetTheorems

-----------------------------------------------------------------------------
(***************************************************************************)
(* The invariant.                                                          *)
(***************************************************************************)

Straight == {"alloca", "input", "output", "store"}
Of(at)   == blocks[at[1]][at[2]]

\* The instruction translated next.
NextAt == IF todo[2] = 0 THEN <<todo[1], 1>> ELSE todo

\* The item after item i is, or will be, part of the instruction at.
Followed(i, at) == IF i < Len(Code) THEN Code[i + 1].at = at
                   ELSE todo[1] \in DOMAIN blocks /\ NextAt = at

\* Block c has a name, l.
Called(l, c) == /\ c \in DOMAIN blocks /\ c \in DOMAIN asm.blockNames
                /\ l = asm.blockNames[c]

\* A label of main or of a block, and what is not a comparison.
Alone(i) ==
    LET item == Code[i]
        at   == Code[i].at
    IN  /\ at[1] > 0
        /\ \/ item.op = "label" /\ Followed(i, at)
           \/ /\ item.op \in Straight
              /\ Of(at) = item.inst /\ Of(at).op = item.op
              /\ Followed(i, <<at[1], at[2] + 1>>)
           \/ item.op = "j" /\ Of(at).op = "jump" /\ Called(item.label, Of(at).target)
           \/ item.op = "exit" /\ Of(at).op = "ret"

\* The nine items of a comparison and its branch, from g on.
Comparison(g) ==
    LET at   == Code[g].at
        inst == Of(at)
        one  == Code[g + 4].label
        over == Code[g + 6].label
    IN  /\ g + 8 <= Len(Code) /\ at[1] > 0 /\ inst.op = "branch"
        /\ Code[g] = [op |-> "compare", inst |-> inst, at |-> at]
        /\ Code[g + 1] = Labelled("bc", one, at)
        /\ Code[g + 2] = LoadNumber(0, at)
        /\ Code[g + 3] = Labelled("j", over, at)
        /\ Code[g + 4] = Labelled("label", one, at)
        /\ Code[g + 5] = LoadNumber(1, at)
        /\ Code[g + 6] = Labelled("label", over, at)
        /\ Code[g + 7] = [op |-> "bnez", inst |-> inst, label |-> Code[g + 7].label, at |-> at]
        /\ Called(Code[g + 7].label, inst.target)
        /\ Code[g + 8] = Labelled("j", Code[g + 8].label, <<inst.other, 1>>)
        /\ Called(Code[g + 8].label, inst.other)

\* The comparisons of main, whose code begins at M.
Compares(M)  == {g \in M .. Len(Code) : Code[g].op = "compare"}
Within(M, i) == \E g \in Compares(M) : i \in g .. g + 8

\* Block c has its label.
Led(M, c) == \E i \in M .. Len(Code) : /\ Code[i].op = "label" /\ Code[i].at = <<c, 1>>
                                       /\ Called(Code[i].label, c)
                                       /\ ~Within(M, i)

MainCode(M) ==
    /\ M \in DOMAIN Code
    /\ asm.functionName = MainName
    /\ Code[M] = Labelled("label", MainName, <<1, 1>>)
    /\ \A g \in Compares(M) : Comparison(g)
    /\ \A i \in M .. Len(Code) : Within(M, i) \/ Alone(i)
    /\ \A c \in DOMAIN blocks : (c < todo[1] \/ (c = todo[1] /\ todo[2] # 0)) => Led(M, c)

\* The run is in the code of main, and in a comparison the flag and the number
\* are what the items before made them.
RunsIn(M) ==
    /\ pc \in M .. Len(Code)
    /\ \A g \in Compares(M) :
          /\ pc \in {g + 2, g + 3} => ~flag
          /\ pc \in {g + 4, g + 5} => flag
          /\ pc = g + 3 => cond = 0
          /\ pc \in {g + 6, g + 7} => cond = IF flag THEN 1 ELSE 0

\* The manager has its members.
Whole(m) == /\ {"functionName", "labelCount", "blockNames", "codes"} \subseteq DOMAIN m
            /\ IsSeq(m.codes)

TodoFine ==
    /\ todo = <<todo[1], todo[2]>> /\ todo[1] \in Nat \ {0} /\ todo[2] \in Nat
    /\ todo[2] > 0 => todo[1] \in DOMAIN blocks /\ todo[2] \in DOMAIN blocks[todo[1]]

MipsInv ==
    /\ VisitorInv /\ Ranged
    /\ Whole(asm) /\ TodoFine /\ flag \in BOOLEAN /\ fns \in Nat
    /\ fns > 0 => Translating
    /\ fns <= Len(funcs) => todo = <<1, 0>> /\ pc = NotRunning
    /\ fns > Len(funcs) =>
          \E M \in DOMAIN Code : MainCode(M) /\ (pc \notin {NotRunning, Exited} => RunsIn(M))
    /\ pc # NotRunning => Translated /\ Unique

-----------------------------------------------------------------------------
(***************************************************************************)
(* The manager.                                                            *)
(***************************************************************************)
\* The names of m are also those of w.
KeepsNames(m, w) == /\ w.functionName = m.functionName
                /\ \A c \in DOMAIN m.blockNames : /\ c \in DOMAIN w.blockNames
                                                  /\ w.blockNames[c] = m.blockNames[c]

\* And the items have been added to the code.
Longer(m, w, items) ==
    /\ Whole(w) /\ KeepsNames(m, w)
    /\ Len(w.codes) = Len(m.codes) + Len(items)
    /\ \A i \in 1 .. Len(m.codes) : w.codes[i] = m.codes[i]
    /\ \A j \in 1 .. Len(items) : w.codes[Len(m.codes) + j] = items[j]

LEMMA AddCodeFacts ==
    ASSUME NEW m, Whole(m), NEW items, IsSeq(items)
    PROVE  Longer(m, addCode(m, items), items) /\ addCode(m, items).blockNames = m.blockNames
<1> DEFINE w == addCode(m, items)
           c == m.codes \o items
<1>1. w = [m EXCEPT !.codes = c]
  BY DEF addCode
<1>2. /\ IsSeq(c) /\ Len(c) = Len(m.codes) + Len(items)
      /\ \A i \in 1 .. Len(m.codes) : c[i] = m.codes[i]
      /\ \A i \in 1 .. Len(items) : c[Len(m.codes) + i] = items[i]
  BY ConcatFacts DEF Whole
<1> HIDE DEF c, w
<1>3. /\ w.codes = c /\ w.functionName = m.functionName /\ w.blockNames = m.blockNames
      /\ DOMAIN w = DOMAIN m
  BY <1>1 DEF Whole
<1>4. Whole(w) /\ KeepsNames(m, w)
  BY <1>2, <1>3 DEF Whole, KeepsNames
<1>5. Longer(m, w, items)
  BY <1>2, <1>3, <1>4 DEF Longer
<1> QED
  BY <1>3, <1>5 DEF w

\* A name taken changes nothing else.
LEMMA NewNameFacts ==
    ASSUME NEW m, Whole(m)
    PROVE  /\ Whole(newLabelName(m)) /\ newLabelName(m).codes = m.codes
           /\ newLabelName(m).functionName = m.functionName
           /\ newLabelName(m).blockNames = m.blockNames
BY DEF newLabelName, Whole

LEMMA GetNameFacts ==
    ASSUME NEW m, Whole(m), NEW b
    PROVE  /\ Whole(getLabelName(m, b)) /\ getLabelName(m, b).codes = m.codes
           /\ KeepsNames(m, getLabelName(m, b)) /\ b \in DOMAIN getLabelName(m, b).blockNames
<1>1. CASE b \in DOMAIN m.blockNames
  BY <1>1 DEF getLabelName, KeepsNames
<1>2. CASE b \notin DOMAIN m.blockNames
  <2> DEFINE f  == Fresh(m)
             n  == newLabelName(m)
             bn == [c \in DOMAIN n.blockNames \cup {b} |-> IF c = b THEN f ELSE n.blockNames[c]]
             w  == getLabelName(m, b)
  <2>1. w = [n EXCEPT !.blockNames = bn]
    BY <1>2 DEF getLabelName
  <2>2. Whole(n) /\ n.codes = m.codes /\ n.functionName = m.functionName /\ n.blockNames = m.blockNames
    BY NewNameFacts
  <2>3. b \in DOMAIN bn /\ \A c \in DOMAIN m.blockNames : c \in DOMAIN bn /\ bn[c] = m.blockNames[c]
    BY <1>2, <2>2
  <2> HIDE DEF f, n, bn, w
  <2>4. w.codes = n.codes /\ w.functionName = n.functionName /\ w.blockNames = bn /\ DOMAIN w = DOMAIN n
    BY <2>1, <2>2 DEF Whole
  <2>5. Whole(w) /\ w.codes = m.codes /\ KeepsNames(m, w) /\ b \in DOMAIN w.blockNames
    BY <2>2, <2>3, <2>4 DEF Whole, KeepsNames
  <2> QED
    BY <2>5 DEF w
<1> QED
  BY <1>1, <1>2

-----------------------------------------------------------------------------
(***************************************************************************)
(* What the code of main is stays so when items are added.                 *)
(***************************************************************************)

\* The items, the first of the instruction translated next, are added.
Adds(items) ==
    /\ Whole(asm) /\ UNCHANGED blocks
    /\ IsSeq(items) /\ items # <<>> /\ Longer(asm, asm', items)
    /\ todo[1] \in DOMAIN blocks /\ items[1].at = NextAt

Stays ==
    /\ Len(Code) \in Nat /\ Len(Code)' \in Nat /\ Len(Code) < Len(Code)'
    /\ DOMAIN Code = 1 .. Len(Code) /\ DOMAIN Code' = 1 .. Len(Code)'
    /\ \A i \in 1 .. Len(Code) : Code[i]' = Code[i]
    /\ \A l, c : Called(l, c) => Called(l, c)'
    /\ \A i \in 1 .. Len(Code) : \A at : Followed(i, at) => Followed(i, at)'
    /\ \A at : Of(at)' = Of(at)
    /\ asm'.functionName = asm.functionName
    /\ UNCHANGED blocks

LEMMA AddsStays == ASSUME NEW items, Adds(items) PROVE Stays
<1>1. /\ Len(Code) \in Nat /\ Len(Code)' \in Nat /\ Len(items) \in Nat /\ Len(items) > 0
      /\ DOMAIN Code = 1 .. Len(Code) /\ DOMAIN Code' = 1 .. Len(Code)'
  BY SeqFacts DEF Adds, Longer, Whole, Code
<1>2. /\ Len(Code)' = Len(Code) + Len(items)
      /\ \A i \in 1 .. Len(Code) : Code[i]' = Code[i]
      /\ \A j \in 1 .. Len(items) : Code'[Len(Code) + j] = items[j]
  BY DEF Adds, Longer, Code
<1>3. \A l, c : Called(l, c) => Called(l, c)'
  BY DEF Adds, Longer, KeepsNames, Called
<1>4. ASSUME NEW i \in 1 .. Len(Code), NEW at, Followed(i, at)
      PROVE  Followed(i, at)'
  <2>1. CASE i < Len(Code)
    <3>1. Code[i + 1].at = at /\ i + 1 \in 1 .. Len(Code)
      BY <1>1, <1>4, <2>1 DEF Followed
    <3>2. Code[i + 1]' = Code[i + 1] /\ (i < Len(Code))'
      BY <1>1, <1>2, <2>1, <3>1
    <3> QED
      BY <3>1, <3>2 DEF Followed
  <2>2. CASE i = Len(Code)
    <3>1. NextAt = at
      BY <1>4, <2>2, <1>1 DEF Followed
    <3>2. i < Len(Code)' /\ Code[i + 1]' = items[1]
      BY <1>1, <1>2, <2>2
    <3> QED
      BY <3>1, <3>2 DEF Followed, Adds
  <2>3. i < Len(Code) \/ i = Len(Code)
    <3>1. Len(Code) \in Nat
      BY <1>1
    <3> QED
      BY <3>1
  <2> QED
    BY <2>1, <2>2, <2>3
<1> QED
  BY <1>1, <1>2, <1>3, <1>4 DEF Stays, Adds, Longer, KeepsNames, Of

LEMMA AloneStays == ASSUME Stays, NEW i \in 1 .. Len(Code), Alone(i) PROVE Alone(i)'
<1>1. Code[i]' = Code[i]
  BY DEF Stays
<1> DEFINE item == Code[i]
           at   == Code[i].at
<1>2. CASE item.op = "label" /\ Followed(i, at)
  BY <1>1, <1>2 DEF Alone, Stays
<1>3. CASE item.op \in Straight /\ Of(at) = item.inst /\ Of(at).op = item.op
           /\ Followed(i, <<at[1], at[2] + 1>>)
  BY <1>1, <1>3 DEF Alone, Stays, Straight
<1>4. CASE item.op = "j" /\ Of(at).op = "jump" /\ Called(item.label, Of(at).target)
  BY <1>1, <1>4 DEF Alone, Stays
<1>5. CASE item.op = "exit" /\ Of(at).op = "ret"
  BY <1>1, <1>5 DEF Alone, Stays
<1> QED
  BY <1>2, <1>3, <1>4, <1>5 DEF Alone

LEMMA ComparisonStays ==
    ASSUME Stays, NEW g \in 1 .. Len(Code), Comparison(g)
    PROVE  Comparison(g)'
<1>1. Len(Code) \in Nat /\ g + 8 <= Len(Code) /\ (g + 8 <= Len(Code))'
  BY DEF Stays, Comparison
<1>2. \A d \in 0 .. 8 : Code[g + d]' = Code[g + d]
  <2>1. \A d \in 0 .. 8 : g + d \in 1 .. Len(Code)
    BY <1>1
  <2> QED
    BY <2>1 DEF Stays
<1>3. /\ Code[g]' = Code[g] /\ Code[g + 1]' = Code[g + 1] /\ Code[g + 2]' = Code[g + 2]
      /\ Code[g + 3]' = Code[g + 3] /\ Code[g + 4]' = Code[g + 4] /\ Code[g + 5]' = Code[g + 5]
      /\ Code[g + 6]' = Code[g + 6] /\ Code[g + 7]' = Code[g + 7] /\ Code[g + 8]' = Code[g + 8]
  <2>1. g + 0 = g
    OBVIOUS
  <2> QED
    BY <1>2, <2>1
<1>4. Of(Code[g].at)' = Of(Code[g].at)
  BY <1>3 DEF Stays
<1> QED
  BY <1>1, <1>3, <1>4 DEF Comparison, Stays

\* The comparisons are those that were there and those added.
LEMMA WithinStays ==
    ASSUME NEW M \in 1 .. Len(Code), Stays, \A g \in Compares(M) : Comparison(g)
    PROVE  /\ \A g \in Compares(M) : g \in Compares(M)'
           /\ \A g \in Compares(M)' : g <= Len(Code) => g \in Compares(M)
           /\ \A i \in M .. Len(Code) : Within(M, i) => Within(M, i)'
           /\ \A i \in M .. Len(Code) : Within(M, i)' => Within(M, i)
           /\ \A i : Within(M, i)' /\ i > Len(Code) =>
                 \E g \in Compares(M)' : g > Len(Code) /\ i \in g .. g + 8
<1>1. /\ Len(Code) \in Nat /\ Len(Code)' \in Nat /\ Len(Code) < Len(Code)'
      /\ \A i \in 1 .. Len(Code) : Code[i]' = Code[i]
  BY DEF Stays
<1>2. \A g \in Compares(M) : g \in Compares(M)'
  <2> SUFFICES ASSUME NEW g \in Compares(M) PROVE g \in Compares(M)'
    OBVIOUS
  <2>1. g \in M .. Len(Code) /\ Code[g].op = "compare"
    BY DEF Compares
  <2>2. g \in M .. Len(Code)' /\ Code[g]' = Code[g]
    BY <1>1, <2>1
  <2> QED
    BY <2>1, <2>2 DEF Compares
<1>3. \A g \in Compares(M)' : g <= Len(Code) => g \in Compares(M)
  <2> SUFFICES ASSUME NEW g \in Compares(M)', g <= Len(Code) PROVE g \in Compares(M)
    OBVIOUS
  <2>1. g \in M .. Len(Code)' /\ Code[g]'.op = "compare"
    BY DEF Compares
  <2>2. g \in M .. Len(Code) /\ Code[g]' = Code[g]
    BY <1>1, <2>1
  <2> QED
    BY <2>1, <2>2 DEF Compares
<1>4. \A i \in M .. Len(Code) : Within(M, i) => Within(M, i)'
  BY <1>2 DEF Within
<1>5. \A i \in M .. Len(Code) : Within(M, i)' => Within(M, i)
  <2> SUFFICES ASSUME NEW i \in M .. Len(Code), NEW g \in Compares(M)', i \in g .. g + 8
               PROVE  Within(M, i)
    BY DEF Within
  <2>1. g \in Int
    BY <1>1 DEF Compares
  <2>2. g <= Len(Code)
    BY <1>1, <2>1
  <2> QED
    BY <1>3, <2>2 DEF Within
<1>6. ASSUME NEW i, Within(M, i)', i > Len(Code)
      PROVE  \E g \in Compares(M)' : g > Len(Code) /\ i \in g .. g + 8
  <2>1. PICK g \in Compares(M)' : i \in g .. g + 8
    BY <1>6 DEF Within
  <2>2. g \in Int /\ i \in Int /\ i <= g + 8
    BY <1>1, <2>1 DEF Compares
  <2>3. g <= Len(Code) => FALSE
    <3> SUFFICES ASSUME g <= Len(Code) PROVE FALSE
      OBVIOUS
    <3>1. g \in Compares(M)
      BY <1>3
    <3>2. g + 8 <= Len(Code)
      BY <3>1 DEF Comparison
    <3> QED
      BY <1>1, <1>6, <2>2, <3>2
  <2>4. g > Len(Code)
    BY <1>1, <2>2, <2>3
  <2> QED
    BY <2>1, <2>4
<1> QED
  BY <1>2, <1>3, <1>4, <1>5, <1>6

LEMMA LedStays ==
    ASSUME NEW M \in 1 .. Len(Code), Stays, \A g \in Compares(M) : Comparison(g),
           NEW c, Led(M, c)
    PROVE  Led(M, c)'
<1>1. PICK i \in M .. Len(Code) : /\ Code[i].op = "label" /\ Code[i].at = <<c, 1>>
                                  /\ Called(Code[i].label, c)
                                  /\ ~Within(M, i)
  BY DEF Led
<1>2. Len(Code) \in Nat /\ Len(Code)' \in Nat /\ Len(Code) < Len(Code)'
  BY DEF Stays
<1>3. i \in M .. Len(Code)' /\ i \in 1 .. Len(Code)
  BY <1>2
<1>4. Code[i]' = Code[i] /\ Called(Code[i].label, c)'
  BY <1>1, <1>3 DEF Stays
<1>5. ~Within(M, i)'
  BY <1>1, WithinStays
<1> QED
  BY <1>1, <1>3, <1>4, <1>5 DEF Led

\* What comes after item L is fine too.
FineAfter(M, L) ==
    \A i \in M .. Len(Code) : i > L =>
        /\ Code[i].op = "compare" => Comparison(i)
        /\ Within(M, i) \/ Alone(i)

\* Blocks with a label.
HasLabel(c) == c < todo[1] \/ (c = todo[1] /\ todo[2] # 0)

LEMMA MainGrows ==
    ASSUME NEW M \in 1 .. Len(Code), MainCode(M), Stays,
           NEW L \in Nat, L = Len(Code), FineAfter(M, L)',
           \A c \in DOMAIN blocks : HasLabel(c)' /\ ~HasLabel(c) => Led(M, c)'
    PROVE  MainCode(M)'
<1>1. /\ Len(Code) \in Nat /\ Len(Code)' \in Nat /\ Len(Code) < Len(Code)'
      /\ DOMAIN Code' = 1 .. Len(Code)'
      /\ \A i \in 1 .. Len(Code) : Code[i]' = Code[i]
      /\ UNCHANGED blocks
  BY DEF Stays
<1>2. /\ \A g \in Compares(M) : Comparison(g)
      /\ \A i \in M .. Len(Code) : Within(M, i) \/ Alone(i)
      /\ \A c \in DOMAIN blocks : HasLabel(c) => Led(M, c)
  BY DEF MainCode, HasLabel
<1>3. \A g \in Compares(M)' : Comparison(g)'
  <2> SUFFICES ASSUME NEW g \in Compares(M)' PROVE Comparison(g)'
    OBVIOUS
  <2>1. g \in M .. Len(Code)' /\ Code[g]'.op = "compare"
    BY DEF Compares
  <2>2. CASE g <= L
    <3>1. g \in 1 .. Len(Code) /\ g \in Compares(M)
      BY <1>1, <1>2, <2>1, <2>2, WithinStays
    <3> QED
      BY <1>2, <3>1, ComparisonStays
  <2>3. CASE g > L
    BY <2>1, <2>3 DEF FineAfter
  <2> QED
    BY <1>1, <2>1, <2>2, <2>3
<1>4. \A i \in M .. Len(Code)' : Within(M, i)' \/ Alone(i)'
  <2> SUFFICES ASSUME NEW i \in M .. Len(Code)' PROVE Within(M, i)' \/ Alone(i)'
    OBVIOUS
  <2>1. CASE i <= L
    <3>1. i \in 1 .. Len(Code) /\ i \in M .. Len(Code)
      BY <1>1, <2>1
    <3>2. Within(M, i) \/ Alone(i)
      BY <1>2, <3>1
    <3>3. Within(M, i) => Within(M, i)'
      BY <1>2, <3>1, WithinStays
    <3>4. Alone(i) => Alone(i)'
      BY <3>1, AloneStays
    <3> QED
      BY <3>2, <3>3, <3>4
  <2>2. CASE i > L
    BY <2>2 DEF FineAfter
  <2> QED
    BY <1>1, <2>1, <2>2
<1>5. \A c \in DOMAIN blocks' : HasLabel(c)' => Led(M, c)'
  BY <1>1, <1>2, LedStays
<1>6. /\ M \in DOMAIN Code' /\ asm'.functionName = MainName
      /\ Code[M]' = Labelled("label", MainName, <<1, 1>>)
  <2>1. M \in 1 .. Len(Code)' /\ Code[M]' = Code[M]
    BY <1>1
  <2>2. asm'.functionName = asm.functionName
    BY DEF Stays
  <2> QED
    BY <1>1, <2>1, <2>2 DEF MainCode
<1> QED
  BY <1>3, <1>4, <1>5, <1>6 DEF MainCode, HasLabel, Labelled

-----------------------------------------------------------------------------
(***************************************************************************)
(* The translation of main.                                                *)
(***************************************************************************)

\* Of the instruction translated next.
LEMMA TodoFacts ==
    ASSUME MipsInv, InMain
    PROVE  /\ pc = NotRunning /\ Translating /\ fns > Len(funcs) /\ fns \in Nat
           /\ Whole(asm) /\ flag \in BOOLEAN
           /\ \E M \in DOMAIN Code : MainCode(M)
           /\ Cur \in Nat /\ DOMAIN blocks = 1 .. Cur /\ todo[1] \in 1 .. Cur
           /\ \A b \in 1 .. Cur : Len(blocks[b]) \in Nat \ {0} /\ DOMAIN blocks[b] = 1 .. Len(blocks[b])
           /\ todo = <<todo[1], todo[2]>> /\ todo[2] \in Nat
           /\ todo[2] > 0 => todo[2] \in 1 .. Len(blocks[todo[1]])
<1>1. /\ Shaped /\ BlocksEnd /\ TodoFine /\ Translating /\ fns > Len(funcs)
      /\ phase = "done" /\ todo[1] \in DOMAIN blocks
  BY DEF MipsInv, VisitorInv, InMain, Translating
<1>2. /\ Cur \in Nat /\ DOMAIN blocks = 1 .. Cur
      /\ \A b \in 1 .. Cur : /\ Len(blocks[b]) \in Nat /\ DOMAIN blocks[b] = 1 .. Len(blocks[b])
                             /\ blocks[b] = <<>> <=> Len(blocks[b]) = 0
  BY <1>1, BlockFacts
<1>3. \A b \in 1 .. Cur : Len(blocks[b]) \in Nat \ {0}
  BY <1>1, <1>2 DEF BlocksEnd
<1>4. pc = NotRunning
  BY <1>1, <1>2 DEF MipsInv, Translated, Cur
<1>5. fns \in Nat /\ \E M \in DOMAIN Code : MainCode(M)
  BY <1>1 DEF MipsInv
<1> QED
  BY <1>1, <1>2, <1>3, <1>4, <1>5 DEF TodoFine, MipsInv

LEMMA MainFine ==
    ASSUME MipsInv, InMain, Idle, UNCHANGED fns, Whole(asm)', TodoFine',
           \E M \in DOMAIN Code' : MainCode(M)'
    PROVE  MipsInv'
<1>1. /\ pc = NotRunning /\ Translating /\ fns > Len(funcs) /\ fns \in Nat
      /\ flag \in BOOLEAN /\ VisitorInv /\ Ranged
  BY TodoFacts DEF MipsInv
<1>2. UNCHANGED visitorVars /\ UNCHANGED <<src, scopes, funcs, blocks, errors, phase>>
  BY DEF Idle, visitorVars
<1>3. VisitorInv' /\ Ranged'
  BY <1>1, <1>2, VisitorStep, RangedStep DEF Fine
<1>4. /\ pc' = NotRunning /\ flag' \in BOOLEAN /\ fns' \in Nat /\ Translating'
      /\ Len(funcs)' = Len(funcs) /\ fns' > Len(funcs)'
  BY <1>1, <1>2 DEF Idle, Translating, Faultless
<1>5. ~(fns <= Len(funcs))'
  <2>1. Len(funcs) \in Nat
    BY <1>1, SeqFacts DEF Ranged
  <2> QED
    BY <1>4, <2>1
<1> QED
  BY <1>3, <1>4, <1>5 DEF MipsInv

\* One item added to the code of main.
LEMMA AddedOne ==
    ASSUME NEW M \in DOMAIN Code, MainCode(M),
           NEW L \in Nat, L = Len(Code),
           NEW item, Adds(<<item>>), item.op # "compare", Alone(L + 1)',
           \A c \in DOMAIN blocks : HasLabel(c)' /\ ~HasLabel(c) =>
               item.op = "label" /\ item.at = <<c, 1>> /\ Called(item.label, c)'
    PROVE  Whole(asm)' /\ \E N \in DOMAIN Code' : MainCode(N)'
<1>1. Stays
  BY AddsStays
<1>2. Len(Code)' = L + 1 /\ Code'[L + 1] = item
  BY DEF Adds, Longer, Code
<1>3. /\ M \in 1 .. Len(Code) /\ M \in DOMAIN Code'
      /\ \A g \in Compares(M) : Comparison(g)
  BY <1>1 DEF Stays, MainCode
<1>4. FineAfter(M, L)'
  <2> SUFFICES ASSUME NEW i \in M .. Len(Code)', i > L
               PROVE  (Code[i]'.op = "compare" => Comparison(i)') /\ Alone(i)'
    BY DEF FineAfter
  <2>1. i = L + 1
    BY <1>2
  <2>2. Code[i]' = item
    BY <1>2, <2>1
  <2> QED
    BY <2>1, <2>2
<1>5. ASSUME NEW c \in DOMAIN blocks, HasLabel(c)', ~HasLabel(c)
      PROVE  Led(M, c)'
  <2>1. item.op = "label" /\ item.at = <<c, 1>> /\ Called(item.label, c)'
    BY <1>5
  <2>2. L + 1 \in M .. Len(Code)' /\ Code[L + 1]' = item
    BY <1>2, <1>3
  <2>3. ~Within(M, L + 1)'
    <3> SUFFICES ASSUME Within(M, L + 1)' PROVE FALSE
      OBVIOUS
    <3>1. PICK g \in Compares(M)' : g > L /\ L + 1 \in g .. g + 8
      BY <1>1, <1>3, WithinStays
    <3>2. g = L + 1 /\ Code[g]'.op = "compare"
      BY <3>1 DEF Compares
    <3> QED
      BY <2>1, <2>2, <3>2
  <2> QED
    BY <2>1, <2>2, <2>3 DEF Led
<1>6. MainCode(M)'
  BY <1>1, <1>3, <1>4, <1>5, MainGrows
<1> QED
  BY <1>3, <1>6 DEF Adds, Longer

LEMMA OneSeq == ASSUME NEW x PROVE IsSeq(<<x>>) /\ <<x>> # <<>> /\ Len(<<x>>) = 1 /\ <<x>>[1] = x
<1>1. <<x>> \in Seq({x})
  OBVIOUS
<1> QED
  BY <1>1, SeqOwn

\* Items added by a manager m that may have named blocks before.
LEMMA AddsItems ==
    ASSUME Whole(asm), UNCHANGED blocks, todo[1] \in DOMAIN blocks,
           NEW m, Whole(m), m.codes = asm.codes, KeepsNames(asm, m),
           NEW items, IsSeq(items), items # <<>>, items[1].at = NextAt,
           asm' = addCode(m, items)
    PROVE  Adds(items) /\ asm'.blockNames = m.blockNames
<1>1. Longer(m, asm', items) /\ asm'.blockNames = m.blockNames
  BY AddCodeFacts
<1>2. KeepsNames(asm, asm')
  BY <1>1 DEF Longer, KeepsNames
<1>3. Longer(asm, asm', items)
  BY <1>1, <1>2 DEF Longer
<1> QED
  BY <1>1, <1>3 DEF Adds

LEMMA BlockTranslated == ASSUME MipsInv, TranslateBlock PROVE MipsInv'
<1>0. PICK b : b = todo[1]
  OBVIOUS
<1> DEFINE m == getLabelName(asm, b)
<1>p. PICK l : l = m.blockNames[b]
  OBVIOUS
<1> DEFINE item == Labelled("label", l, <<b, 1>>)
<1>1. /\ InMain /\ todo[2] = 0 /\ todo' = <<b, 1>> /\ UNCHANGED fns /\ Idle
      /\ asm' = addCode(m, <<item>>)
  BY <1>0, <1>p DEF TranslateBlock, BlockLabel
<1>2. /\ Whole(m) /\ m.codes = asm.codes /\ KeepsNames(asm, m) /\ b \in DOMAIN m.blockNames
  BY <1>1, TodoFacts, GetNameFacts
<1>3. /\ Whole(asm) /\ b \in DOMAIN blocks /\ b \in Nat /\ b > 0 /\ DOMAIN blocks = 1 .. Cur /\ Cur \in Nat
      /\ UNCHANGED blocks /\ 1 \in DOMAIN blocks[b]
  BY <1>0, <1>1, TodoFacts DEF Idle, visitorVars
<1>4. PICK M \in DOMAIN Code : MainCode(M)
  BY <1>1, TodoFacts
<1>5. PICK L \in Nat : L = Len(Code)
  BY <1>3, SeqFacts DEF Whole, Code
<1> HIDE DEF m
<1>6. item.op = "label" /\ item.at = <<b, 1>> /\ item.label = l
  BY DEF Labelled
<1>7. NextAt = <<b, 1>> /\ NextAt' = <<b, 1>>
  BY <1>0, <1>1 DEF NextAt
<1> HIDE DEF item
<1>8. Adds(<<item>>) /\ asm'.blockNames = m.blockNames
  <2>1. IsSeq(<<item>>) /\ <<item>> # <<>> /\ <<item>>[1].at = NextAt
    BY <1>6, <1>7, OneSeq
  <2> QED
    BY <1>1, <1>2, <1>3, <2>1, <1>0, AddsItems
<1>9. Called(l, b)'
  BY <1>2, <1>3, <1>8, <1>p DEF Called
<1>10. Code'[L + 1] = item /\ Len(Code)' = L + 1
  BY <1>5, <1>8, OneSeq DEF Adds, Longer, Code
<1>11. Alone(L + 1)'
  <2>1. Followed(L + 1, <<b, 1>>)'
    <3>1. ~(L + 1 < L + 1)
      BY <1>5
    <3>2. todo'[1] = b /\ b \in DOMAIN blocks'
      BY <1>1, <1>3
    <3> QED
      BY <1>7, <1>10, <3>1, <3>2 DEF Followed
  <2> QED
    BY <1>3, <1>6, <1>10, <2>1 DEF Alone
<1>12. ASSUME NEW c \in DOMAIN blocks, HasLabel(c)', ~HasLabel(c)
       PROVE  c = b
  BY <1>1, <1>3, <1>12, <1>0 DEF HasLabel
<1>13. Whole(asm)' /\ \E N \in DOMAIN Code' : MainCode(N)'
  BY <1>4, <1>5, <1>6, <1>8, <1>9, <1>11, <1>12, AddedOne
<1>14. TodoFine'
  BY <1>1, <1>3 DEF TodoFine
<1> QED
  BY <1>1, <1>13, <1>14, MainFine

\* Of an instruction translated, which a terminator's must be the last of a block.
LEMMA TranslateFacts ==
    ASSUME MipsInv, NEW ops, Translate(ops)
    PROVE  /\ InMain /\ Idle /\ UNCHANGED fns /\ TodoFine' /\ NextAt = todo
           /\ Todo = Of(todo) /\ Todo.op \in ops
           /\ \A c \in DOMAIN blocks : ~(HasLabel(c)' /\ ~HasLabel(c))
           /\ Todo.op \notin Terminators =>
                 todo'[1] \in DOMAIN blocks /\ NextAt' = <<todo[1], todo[2] + 1>>
           /\ Todo.op \in Terminators => todo[1] \in DOMAIN blocks /\ Todo = LastInst(todo[1])
<1>1. /\ InMain /\ todo[2] > 0 /\ Todo.op \in ops /\ UNCHANGED fns /\ Idle
      /\ todo' = IF todo[2] = Len(blocks[todo[1]])
                 THEN <<todo[1] + 1, 0>> ELSE <<todo[1], todo[2] + 1>>
  BY DEF Translate
<1> DEFINE b == todo[1]
           k == todo[2]
           n == Len(blocks[b])
<1>2. /\ b \in Nat \ {0} /\ k \in Nat \ {0} /\ n \in Nat \ {0} /\ k <= n
      /\ b \in DOMAIN blocks /\ DOMAIN blocks[b] = 1 .. n /\ k \in DOMAIN blocks[b]
      /\ DOMAIN blocks \subseteq Nat
      /\ todo = <<b, k>> /\ UNCHANGED blocks /\ phase = "done"
  BY <1>1, TodoFacts DEF Idle, visitorVars, Translating
<1>3. Todo = Of(todo) /\ NextAt = todo /\ Todo = blocks[b][k]
  BY <1>1, <1>2 DEF Todo, Of, NextAt
<1>4. BlocksEnd
  BY DEF MipsInv, VisitorInv
<1> HIDE DEF b, k, n
<1>5. Todo.op \in Terminators <=> k = n
  BY <1>2, <1>3, <1>4 DEF BlocksEnd, n
<1>6. todo' = IF k = n THEN <<b + 1, 0>> ELSE <<b, k + 1>>
  BY <1>1 DEF b, k, n
<1>7. TodoFine'
  <2>1. CASE k = n
    BY <1>2, <1>6, <2>1 DEF TodoFine
  <2>2. CASE k # n
    <3>1. k + 1 \in 1 .. n
      BY <1>2, <2>2
    <3> QED
      BY <1>2, <1>6, <2>2, <3>1 DEF TodoFine
  <2> QED
    BY <2>1, <2>2
<1>8. ASSUME NEW c \in DOMAIN blocks, HasLabel(c)' PROVE HasLabel(c)
  <2>1. c \in Nat
    BY <1>2
  <2> QED
    BY <1>2, <1>6, <1>8, <2>1 DEF HasLabel, b, k
<1>9. Todo.op \notin Terminators => todo'[1] \in DOMAIN blocks /\ NextAt' = <<b, k + 1>>
  BY <1>2, <1>5, <1>6 DEF NextAt
<1>10. Todo.op \in Terminators => Todo = LastInst(b)
  BY <1>3, <1>5 DEF LastInst, n
<1> QED
  BY <1>1, <1>2, <1>3, <1>7, <1>8, <1>9, <1>10 DEF b, k

\* A translated instruction with one item.
LEMMA ItemTranslated ==
    ASSUME MipsInv, NEW ops, Translate(ops),
           NEW item, Adds(<<item>>), item.op \notin {"compare", "label"}, item.at = todo,
           NEW L \in Nat, L = Len(Code), Code'[L + 1] = item => Alone(L + 1)'
    PROVE  MipsInv'
<1>1. InMain /\ Idle /\ UNCHANGED fns /\ TodoFine'
      /\ \A c \in DOMAIN blocks : ~(HasLabel(c)' /\ ~HasLabel(c))
  BY TranslateFacts
<1>2. PICK M \in DOMAIN Code : MainCode(M)
  BY <1>1, TodoFacts
<1>3. Code'[L + 1] = item
  BY OneSeq DEF Adds, Longer, Code
<1>4. Whole(asm)' /\ \E N \in DOMAIN Code' : MainCode(N)'
  BY <1>1, <1>2, <1>3, AddedOne
<1> QED
  BY <1>1, <1>4, MainFine

LEMMA WholeKeeps == ASSUME NEW m PROVE KeepsNames(m, m)
BY DEF KeepsNames

LEMMA StraightTranslated == ASSUME MipsInv, TranslateStraight PROVE MipsInv'
<1>0. PICK at, inst : at = todo /\ inst = Todo
  OBVIOUS
<1> DEFINE item == [op |-> inst.op, inst |-> inst, at |-> at]
<1>1. Translate(Straight) /\ asm' = addCode(asm, <<item>>)
  BY <1>0 DEF TranslateStraight, Straight
<1>2. /\ InMain /\ Idle /\ NextAt = at /\ inst = Of(at) /\ inst.op \in Straight
      /\ todo'[1] \in DOMAIN blocks /\ NextAt' = <<at[1], at[2] + 1>>
  BY <1>0, <1>1, TranslateFacts DEF Straight, Terminators
<1>3. Whole(asm) /\ at[1] \in DOMAIN blocks /\ at[1] > 0 /\ UNCHANGED blocks
  BY <1>0, <1>2, TodoFacts DEF Idle, visitorVars
<1>4. PICK L \in Nat : L = Len(Code)
  BY <1>3, SeqFacts DEF Whole, Code
<1>5. item.op = inst.op /\ item.inst = inst /\ item.at = at
  OBVIOUS
<1> HIDE DEF item
<1>6. Adds(<<item>>)
  <2>1. IsSeq(<<item>>) /\ <<item>> # <<>> /\ <<item>>[1].at = NextAt
    BY <1>2, <1>5, OneSeq
  <2> QED
    BY <1>0, <1>1, <1>3, <2>1, WholeKeeps, AddsItems
<1>7. ASSUME Code'[L + 1] = item PROVE Alone(L + 1)'
  <2>1. Len(Code)' = L + 1
    BY <1>4, <1>6, OneSeq DEF Adds, Longer, Code
  <2>2. Followed(L + 1, <<at[1], at[2] + 1>>)'
    <3>1. ~(L + 1 < L + 1)
      BY <1>4
    <3> QED
      BY <1>2, <1>3, <2>1, <3>1 DEF Followed
  <2>3. Of(at)' = inst
    BY <1>2, <1>3 DEF Of
  <2> QED
    BY <1>2, <1>3, <1>5, <1>7, <2>2, <2>3 DEF Alone
<1>8. item.op \notin {"compare", "label"}
  BY <1>2, <1>5 DEF Straight
<1> QED
  BY <1>0, <1>1, <1>4, <1>5, <1>6, <1>7, <1>8, ItemTranslated

LEMMA ReturnTranslated == ASSUME MipsInv, TranslateReturn PROVE MipsInv'
<1>0. PICK at : at = todo
  OBVIOUS
<1> DEFINE item == Item("exit", at)
<1>1. Translate({"ret"}) /\ asm' = Leave(asm, at)
  BY <1>0 DEF TranslateReturn
<1>2. InMain /\ Idle /\ NextAt = at /\ Of(at).op = "ret"
  BY <1>0, <1>1, TranslateFacts
<1>3. Whole(asm) /\ at[1] \in DOMAIN blocks /\ at[1] > 0 /\ UNCHANGED blocks
  BY <1>0, <1>2, TodoFacts DEF Idle, visitorVars
<1>4. PICK L \in Nat : L = Len(Code)
  BY <1>3, SeqFacts DEF Whole, Code
<1>5. item.op = "exit" /\ item.at = at
  BY DEF Item
<1>6. asm' = addCode(asm, <<item>>)
  <2>1. asm.functionName = MainName
    BY <1>2, TodoFacts DEF MainCode
  <2> QED
    BY <1>1, <2>1 DEF Leave
<1> HIDE DEF item
<1>7. Adds(<<item>>)
  <2>1. IsSeq(<<item>>) /\ <<item>> # <<>> /\ <<item>>[1].at = NextAt
    BY <1>2, <1>5, OneSeq
  <2> QED
    BY <1>0, <1>3, <1>6, <2>1, WholeKeeps, AddsItems
<1>8. ASSUME Code'[L + 1] = item PROVE Alone(L + 1)'
  <2>1. Of(at)'.op = "ret"
    BY <1>2, <1>3 DEF Of
  <2> QED
    BY <1>3, <1>5, <1>8, <2>1 DEF Alone
<1> QED
  BY <1>0, <1>1, <1>4, <1>5, <1>7, <1>8, ItemTranslated

\* The blocks a terminator of main leads to.
LEMMA TargetFacts ==
    ASSUME MipsInv, "UndefinedTag" \notin Sloppy, NEW ops, Translate(ops), Todo.op \in Jumps
    PROVE  /\ Todo.target \in DOMAIN blocks
           /\ Todo.op = "branch" => Todo.other \in DOMAIN blocks
<1>1. /\ phase = "done" /\ todo[1] \in DOMAIN blocks /\ Todo = LastInst(todo[1])
      /\ Cur \in Nat /\ DOMAIN blocks = 1 .. Cur
      /\ Len(blocks[todo[1]]) \in Nat \ {0}
      /\ DOMAIN blocks[todo[1]] = 1 .. Len(blocks[todo[1]])
  BY TranslateFacts, TodoFacts DEF Jumps, Terminators, Translating
<1>2. blocks[todo[1]] # <<>>
  <2>1. Len(<<>>) = 0
    OBVIOUS
  <2> QED
    BY <1>1, <2>1
<1>3. todo[1] \in JumpBlocks
  BY <1>1, <1>2 DEF JumpBlocks
<1>4. Todo.target # 0
  BY <1>1, <1>3 DEF MipsInv, VisitorInv
<1>5. Aimed(Todo, Cur)
  BY <1>1 DEF MipsInv, Ranged, Aims, AllAimed, LastInst
<1> QED
  BY <1>1, <1>4, <1>5 DEF Aimed

LEMMA JumpTranslated ==
    ASSUME MipsInv, "UndefinedTag" \notin Sloppy, TranslateJump
    PROVE  MipsInv'
<1>0. PICK at, inst : at = todo /\ inst = Todo
  OBVIOUS
<1> DEFINE m == getLabelName(asm, inst.target)
<1>1. PICK l : l = m.blockNames[inst.target]
  OBVIOUS
<1> DEFINE item == Labelled("j", l, at)
<1>2. Translate({"jump"}) /\ asm' = addCode(m, <<item>>)
  BY <1>0, <1>1 DEF TranslateJump
<1>3. /\ InMain /\ Idle /\ NextAt = at /\ inst = Of(at) /\ inst.op = "jump"
      /\ inst.target \in DOMAIN blocks
  BY <1>0, <1>2, TranslateFacts, TargetFacts DEF Jumps
<1>4. Whole(asm) /\ at[1] \in DOMAIN blocks /\ at[1] > 0 /\ UNCHANGED blocks
  BY <1>0, <1>3, TodoFacts DEF Idle, visitorVars
<1>5. PICK L \in Nat : L = Len(Code)
  BY <1>4, SeqFacts DEF Whole, Code
<1>6. item.op = "j" /\ item.at = at /\ item.label = l
  BY DEF Labelled
<1>7. Whole(m) /\ m.codes = asm.codes /\ KeepsNames(asm, m) /\ inst.target \in DOMAIN m.blockNames
  BY <1>4, GetNameFacts
<1> HIDE DEF item, m
<1>8. Adds(<<item>>) /\ asm'.blockNames = m.blockNames
  <2>1. IsSeq(<<item>>) /\ <<item>> # <<>> /\ <<item>>[1].at = NextAt
    BY <1>3, <1>6, OneSeq
  <2> QED
    BY <1>0, <1>2, <1>4, <1>7, <2>1, AddsItems
<1>9. ASSUME Code'[L + 1] = item PROVE Alone(L + 1)'
  <2>1. Of(at)' = inst
    BY <1>3, <1>4 DEF Of
  <2>2. Called(l, inst.target)'
    BY <1>1, <1>3, <1>4, <1>7, <1>8 DEF Called
  <2> QED
    BY <1>3, <1>4, <1>6, <1>9, <2>1, <2>2 DEF Alone
<1> QED
  BY <1>0, <1>2, <1>5, <1>6, <1>8, <1>9, ItemTranslated

\* Added twice, by managers that name blocks between.
LEMMA LongerTwice ==
    ASSUME NEW m, Whole(m), NEW n, NEW s, IsSeq(s), Longer(m, n, s),
           NEW q, Whole(q), q.codes = n.codes, KeepsNames(n, q),
           NEW w, NEW t, IsSeq(t), Longer(q, w, t)
    PROVE  Longer(m, w, s \o t)
<1>1. /\ Len(m.codes) \in Nat /\ Len(s) \in Nat /\ Len(t) \in Nat
      /\ Len(n.codes) = Len(m.codes) + Len(s)
      /\ Len(w.codes) = Len(n.codes) + Len(t)
  BY SeqFacts DEF Whole, Longer
<1>2. /\ Len(s \o t) = Len(s) + Len(t)
      /\ \A i \in 1 .. Len(s) : (s \o t)[i] = s[i]
      /\ \A i \in 1 .. Len(t) : (s \o t)[Len(s) + i] = t[i]
  BY ConcatFacts
<1>3. /\ \A i \in 1 .. Len(m.codes) : n.codes[i] = m.codes[i]
      /\ \A j \in 1 .. Len(s) : n.codes[Len(m.codes) + j] = s[j]
      /\ \A i \in 1 .. Len(n.codes) : w.codes[i] = n.codes[i]
      /\ \A j \in 1 .. Len(t) : w.codes[Len(n.codes) + j] = t[j]
  BY DEF Longer
<1> DEFINE u == s \o t
           a == Len(m.codes)
           b == Len(s)
           c == Len(t)
<1> HIDE DEF u, a, b, c
<1>4. \A i \in 1 .. a : w.codes[i] = m.codes[i]
  BY <1>1, <1>3 DEF a, b
<1>5. \A j \in 1 .. (b + c) : w.codes[a + j] = u[j]
  <2> SUFFICES ASSUME NEW j \in 1 .. (b + c) PROVE w.codes[a + j] = u[j]
    OBVIOUS
  <2>0. a \in Nat /\ b \in Nat /\ c \in Nat /\ j \in Nat
    BY <1>1 DEF a, b, c
  <2>1. CASE j <= b
    <3>1. j \in 1 .. b /\ a + j \in 1 .. (a + b)
      BY <2>0, <2>1
    <3>2. u[j] = s[j] /\ n.codes[a + j] = s[j] /\ w.codes[a + j] = n.codes[a + j]
      BY <1>1, <1>2, <1>3, <3>1 DEF a, b, u
    <3> QED
      BY <3>2
  <2>2. CASE j > b
    <3>1. j - b \in 1 .. c /\ b + (j - b) = j /\ (a + b) + (j - b) = a + j
      BY <2>0, <2>2
    <3>2. u[b + (j - b)] = t[j - b] /\ w.codes[(a + b) + (j - b)] = t[j - b]
      BY <1>1, <1>2, <1>3, <3>1 DEF a, b, c, u
    <3> QED
      BY <3>1, <3>2
  <2> QED
    BY <2>0, <2>1, <2>2
<1>6. KeepsNames(m, w) /\ Whole(w)
  BY DEF Longer, KeepsNames
<1>7. Len(w.codes) = a + (b + c) /\ Len(u) = b + c
  <2>1. a \in Nat /\ b \in Nat /\ c \in Nat /\ Len(w.codes) = (a + b) + c
    BY <1>1 DEF a, b, c
  <2>2. Len(u) = b + c
    BY <1>2 DEF b, c, u
  <2> QED
    BY <2>1, <2>2
<1>8. Longer(m, w, u)
  BY <1>4, <1>5, <1>6, <1>7 DEF Longer, a
<1> QED
  BY <1>8 DEF u

LEMMA SevenSeq ==
    ASSUME NEW x1, NEW x2, NEW x3, NEW x4, NEW x5, NEW x6, NEW x7,
           NEW s, s = <<x1, x2, x3, x4, x5, x6, x7>>
    PROVE  /\ IsSeq(s) /\ Len(s) = 7
           /\ s[1] = x1 /\ s[2] = x2 /\ s[3] = x3 /\ s[4] = x4
           /\ s[5] = x5 /\ s[6] = x6 /\ s[7] = x7
<1>1. s \in Seq({x1, x2, x3, x4, x5, x6, x7})
  OBVIOUS
<1> QED
  BY <1>1, SeqOwn

LEMMA TwoSeq ==
    ASSUME NEW x1, NEW x2, NEW s, s = <<x1, x2>>
    PROVE  IsSeq(s) /\ Len(s) = 2 /\ s[1] = x1 /\ s[2] = x2
<1>1. s \in Seq({x1, x2})
  OBVIOUS
<1> QED
  BY <1>1, SeqOwn

\* The nine items are a comparison, which is all that was added.
LEMMA BranchTranslated ==
    ASSUME MipsInv, "UndefinedTag" \notin Sloppy, TranslateBranch
    PROVE  MipsInv'
<1>1. PICK at, inst : at = todo /\ inst = Todo
  OBVIOUS
<1>2. PICK one, over : one = Fresh(asm) /\ over = Fresh(newLabelName(asm))
  OBVIOUS
<1> DEFINE s == <<[op |-> "compare", inst |-> inst, at |-> at], Labelled("bc", one, at),
                  LoadNumber(0, at), Labelled("j", over, at),
                  Labelled("label", one, at), LoadNumber(1, at),
                  Labelled("label", over, at)>>
           p == newLabelName(newLabelName(asm))
           m == addCode(p, s)
           n == getLabelName(m, inst.target)
           q == getLabelName(n, inst.other)
<1>3. PICK yes, no : yes = q.blockNames[inst.target] /\ no = q.blockNames[inst.other]
  OBVIOUS
<1> DEFINE t == <<[op |-> "bnez", inst |-> inst, label |-> yes, at |-> at],
                  Labelled("j", no, <<inst.other, 1>>)>>
<1>4. Translate({"branch"}) /\ asm' = addCode(q, t)
  BY <1>1, <1>2, <1>3 DEF TranslateBranch, CompareCode
<1>5. /\ InMain /\ Idle /\ UNCHANGED fns /\ TodoFine' /\ NextAt = at
      /\ inst = Of(at) /\ inst.op = "branch"
      /\ inst.target \in DOMAIN blocks /\ inst.other \in DOMAIN blocks
      /\ \A c \in DOMAIN blocks : ~(HasLabel(c)' /\ ~HasLabel(c))
  BY <1>1, <1>4, TranslateFacts, TargetFacts DEF Jumps
<1>6. Whole(asm) /\ at[1] \in DOMAIN blocks /\ at[1] > 0 /\ UNCHANGED blocks
  BY <1>1, <1>5, TodoFacts DEF Idle, visitorVars
<1>7. PICK L \in Nat : L = Len(Code)
  BY <1>6, SeqFacts DEF Whole, Code
<1>8. PICK M \in DOMAIN Code : MainCode(M)
  BY <1>5, TodoFacts
<1>9. /\ IsSeq(s) /\ Len(s) = 7
      /\ s[1] = [op |-> "compare", inst |-> inst, at |-> at]
      /\ s[2] = Labelled("bc", one, at) /\ s[3] = LoadNumber(0, at)
      /\ s[4] = Labelled("j", over, at) /\ s[5] = Labelled("label", one, at)
      /\ s[6] = LoadNumber(1, at) /\ s[7] = Labelled("label", over, at)
  BY SevenSeq
<1>10. /\ IsSeq(t) /\ Len(t) = 2
       /\ t[1] = [op |-> "bnez", inst |-> inst, label |-> yes, at |-> at]
       /\ t[2] = Labelled("j", no, <<inst.other, 1>>)
  BY TwoSeq
<1> HIDE DEF s, t
<1>11. Whole(p) /\ p.codes = asm.codes /\ KeepsNames(asm, p)
  <2>1. Whole(newLabelName(asm))
    BY <1>6, NewNameFacts
  <2>2. /\ Whole(p) /\ p.codes = asm.codes /\ p.functionName = asm.functionName
        /\ p.blockNames = asm.blockNames
    BY <1>6, <2>1, NewNameFacts
  <2> QED
    BY <2>2 DEF KeepsNames
<1> HIDE DEF p
<1>12. Longer(asm, m, s) /\ Whole(m)
  <2>1. Longer(p, m, s)
    BY <1>9, <1>11, AddCodeFacts
  <2> QED
    BY <1>11, <2>1 DEF Longer, KeepsNames
<1> HIDE DEF m
<1>13. Whole(n) /\ n.codes = m.codes /\ KeepsNames(m, n) /\ inst.target \in DOMAIN n.blockNames
  BY <1>12, GetNameFacts
<1> HIDE DEF n
<1>14. Whole(q) /\ q.codes = n.codes /\ KeepsNames(n, q) /\ inst.other \in DOMAIN q.blockNames
  BY <1>13, GetNameFacts
<1> HIDE DEF q
<1>15. /\ q.codes = m.codes /\ KeepsNames(m, q)
       /\ inst.target \in DOMAIN q.blockNames
  BY <1>13, <1>14 DEF KeepsNames
<1>16. Longer(q, asm', t) /\ asm'.blockNames = q.blockNames
  BY <1>4, <1>10, <1>14, AddCodeFacts
<1>17. Longer(asm, asm', s \o t)
  BY <1>6, <1>9, <1>10, <1>12, <1>14, <1>15, <1>16, LongerTwice
<1>18. /\ IsSeq(s \o t) /\ Len(s \o t) = 9
       /\ (s \o t)[1] = s[1] /\ (s \o t)[2] = s[2] /\ (s \o t)[3] = s[3] /\ (s \o t)[4] = s[4]
       /\ (s \o t)[5] = s[5] /\ (s \o t)[6] = s[6] /\ (s \o t)[7] = s[7]
       /\ (s \o t)[8] = t[1] /\ (s \o t)[9] = t[2]
  <2>1. /\ IsSeq(s \o t) /\ Len(s \o t) = Len(s) + Len(t)
        /\ \A i \in 1 .. Len(s) : (s \o t)[i] = s[i]
        /\ \A i \in 1 .. Len(t) : (s \o t)[Len(s) + i] = t[i]
    <3>1. IsSeq(s) /\ IsSeq(t)
      BY <1>9, <1>10
    <3> QED
      BY <3>1, ConcatFacts
  <2> DEFINE u == s \o t
  <2> HIDE DEF u
  <2>2. /\ IsSeq(u) /\ Len(u) = 7 + 2
        /\ \A i \in 1 .. 7 : u[i] = s[i]
        /\ \A i \in 1 .. 2 : u[7 + i] = t[i]
    BY <1>9, <1>10, <2>1 DEF u
  <2>3. u[8] = t[1] /\ u[9] = t[2]
    <3>1. u[7 + 1] = t[1] /\ u[7 + 2] = t[2]
      BY <2>2
    <3> QED
      BY <3>1
  <2>4. /\ IsSeq(u) /\ Len(u) = 9
        /\ u[1] = s[1] /\ u[2] = s[2] /\ u[3] = s[3] /\ u[4] = s[4]
        /\ u[5] = s[5] /\ u[6] = s[6] /\ u[7] = s[7]
    BY <2>2
  <2> QED
    BY <2>3, <2>4 DEF u
<1> DEFINE u == s \o t
<1> HIDE DEF u
<1>19. Adds(u)
  <2>1. u # <<>> /\ u[1].at = NextAt
    BY <1>5, <1>9, <1>18 DEF u
  <2> QED
    BY <1>5, <1>6, <1>17, <1>18, <2>1, TodoFacts DEF Adds, u
<1>20. Stays
  BY <1>19, AddsStays
<1>21. Len(Code)' = L + 9 /\ \A j \in 1 .. 9 : Code'[L + j] = u[j]
  BY <1>7, <1>18, <1>19 DEF Adds, Longer, Code, u
<1>22. /\ Code'[L + 1] = [op |-> "compare", inst |-> inst, at |-> at]
       /\ Code'[L + 2] = Labelled("bc", one, at) /\ Code'[L + 3] = LoadNumber(0, at)
       /\ Code'[L + 4] = Labelled("j", over, at) /\ Code'[L + 5] = Labelled("label", one, at)
       /\ Code'[L + 6] = LoadNumber(1, at) /\ Code'[L + 7] = Labelled("label", over, at)
       /\ Code'[L + 8] = [op |-> "bnez", inst |-> inst, label |-> yes, at |-> at]
       /\ Code'[L + 9] = Labelled("j", no, <<inst.other, 1>>)
  <2>1. \A j \in {1, 2, 3, 4, 5, 6, 7, 8, 9} : Code'[L + j] = u[j]
    BY SMTT(60), <1>21
  <2>2. /\ Code'[L + 1] = u[1] /\ Code'[L + 2] = u[2] /\ Code'[L + 3] = u[3]
        /\ Code'[L + 4] = u[4] /\ Code'[L + 5] = u[5] /\ Code'[L + 6] = u[6]
        /\ Code'[L + 7] = u[7] /\ Code'[L + 8] = u[8] /\ Code'[L + 9] = u[9]
    BY <2>1
  <2>3. /\ u[1] = s[1] /\ u[2] = s[2] /\ u[3] = s[3] /\ u[4] = s[4] /\ u[5] = s[5]
        /\ u[6] = s[6] /\ u[7] = s[7] /\ u[8] = t[1] /\ u[9] = t[2]
    BY <1>18 DEF u
  <2> QED
    BY <1>9, <1>10, <2>2, <2>3, ZenonT(40)
<1>23. Called(yes, inst.target)' /\ Called(no, inst.other)'
  BY <1>3, <1>5, <1>6, <1>14, <1>15, <1>16 DEF Called
<1>24. Comparison(L + 1)'
  <2>1. /\ (L + 1) + 1 = L + 2 /\ (L + 1) + 2 = L + 3 /\ (L + 1) + 3 = L + 4 /\ (L + 1) + 4 = L + 5
        /\ (L + 1) + 5 = L + 6 /\ (L + 1) + 6 = L + 7 /\ (L + 1) + 7 = L + 8 /\ (L + 1) + 8 = L + 9
        /\ (L + 1) + 8 <= L + 9
    BY <1>7
  <2>2. Of(at)' = inst
    BY <1>5, <1>6 DEF Of
  <2>3. /\ Code'[L + 1].at = at /\ Code'[L + 5].label = one /\ Code'[L + 7].label = over
        /\ Code'[L + 8].label = yes /\ Code'[L + 9].label = no
    BY <1>22 DEF Labelled
  <2> QED
    BY <1>5, <1>6, <1>21, <1>22, <1>23, <2>1, <2>2, <2>3 DEF Comparison, Labelled, LoadNumber
<1>25. FineAfter(M, L)'
  <2>1. M \in 1 .. Len(Code) /\ L + 1 \in M .. (L + 9)
    BY <1>7, <1>20 DEF Stays
  <2>2. L + 1 \in Compares(M)'
    BY <1>21, <1>22, <2>1 DEF Compares
  <2>3. /\ Code'[L + 2].op # "compare" /\ Code'[L + 3].op # "compare" /\ Code'[L + 4].op # "compare"
        /\ Code'[L + 5].op # "compare" /\ Code'[L + 6].op # "compare" /\ Code'[L + 7].op # "compare"
        /\ Code'[L + 8].op # "compare" /\ Code'[L + 9].op # "compare"
    BY <1>22 DEF Labelled, LoadNumber
  <2> SUFFICES ASSUME NEW i \in M .. Len(Code)', i > L
               PROVE  (Code[i]'.op = "compare" => Comparison(i)') /\ Within(M, i)'
    BY DEF FineAfter
  <2>4. /\ i \in (L + 1) .. (L + 1) + 8
        /\ i \in {L + 1, L + 2, L + 3, L + 4, L + 5, L + 6, L + 7, L + 8, L + 9}
    <3>1. i \in Int /\ i > L /\ i <= L + 9 /\ L \in Nat
      BY <1>7, <1>21, <2>1
    <3> QED
      BY <3>1
  <2>5. Within(M, i)'
    BY <2>2, <2>4 DEF Within
  <2>6. Code[i]'.op = "compare" => i = L + 1
    BY <2>3, <2>4
  <2> QED
    BY <1>24, <2>5, <2>6
<1>26. MainCode(M)' /\ M \in DOMAIN Code'
  <2>1. M \in 1 .. Len(Code) /\ M \in DOMAIN Code'
    BY <1>20 DEF Stays
  <2> QED
    BY <1>5, <1>7, <1>8, <1>20, <1>25, <2>1, MainGrows
<1> QED
  BY <1>5, <1>16, <1>26, MainFine DEF Longer

-----------------------------------------------------------------------------
(***************************************************************************)
(* The beginning of a function, and the visit before.                      *)
(***************************************************************************)
LEMMA ResetFacts ==
    ASSUME NEW m, Whole(m), NEW name
    PROVE  LET w == resetFrame(m, name)
           IN  /\ Whole(w) /\ w.functionName = name
               /\ Len(w.codes) = Len(m.codes) + 1
               /\ w.codes[Len(m.codes) + 1] = Labelled("label", name, <<1, 1>>)
<1> DEFINE item == Labelled("label", name, <<1, 1>>)
           n    == addCode(m, <<item>>)
           w    == resetFrame(m, name)
<1>1. w = [n EXCEPT !.functionName = name, !.blockNames = <<>>, !.labelCount = 0]
  BY DEF resetFrame
<1> HIDE DEF item
<1>2. Longer(m, n, <<item>>)
  BY OneSeq, AddCodeFacts
<1> HIDE DEF n, w
<1>3. DOMAIN w = DOMAIN n /\ w.codes = n.codes /\ w.functionName = name
  BY <1>1, <1>2 DEF Longer, Whole
<1>4. Len(w.codes) = Len(m.codes) + 1 /\ w.codes[Len(m.codes) + 1] = item
  BY <1>2, <1>3, OneSeq DEF Longer
<1>5. Whole(w)
  BY <1>2, <1>3 DEF Longer, Whole
<1> QED
  BY <1>3, <1>4, <1>5 DEF w, item

LEMMA FunctionTranslated == ASSUME MipsInv, TranslateFunction PROVE MipsInv'
<1> DEFINE r == resetFrame(asm, funcs[fns + 1].n)
           m == getLabelName(r, 1)
           b == addCode(m, <<Labelled("label", m.blockNames[1], <<1, 1>>)>>)
           c == addCode(b, <<Item("body", NotRunning)>>)
<1>1. /\ Translating /\ fns < Len(funcs) /\ fns' = fns + 1 /\ UNCHANGED todo /\ Idle
      /\ asm' = Leave(c, NotRunning)
  BY DEF TranslateFunction, BlockLabel
<1>2. Whole(r)
  BY ResetFacts DEF MipsInv
<1> HIDE DEF r
<1>3. Whole(m)
  BY <1>2, GetNameFacts
<1> HIDE DEF m
<1>4. Whole(b)
  BY <1>3, OneSeq, AddCodeFacts DEF Longer
<1> HIDE DEF b
<1>5. Whole(c)
  BY <1>4, OneSeq, AddCodeFacts DEF Longer
<1> HIDE DEF c
<1>6. Whole(asm)'
  <2>1. PICK x : asm' = addCode(c, <<x>>)
    BY <1>1 DEF Leave
  <2> QED
    BY <1>5, <2>1, OneSeq, AddCodeFacts DEF Longer
<1>7. UNCHANGED visitorVars /\ UNCHANGED <<src, scopes, funcs, blocks, errors, phase>>
  BY <1>1 DEF Idle, visitorVars
<1>8. VisitorInv' /\ Ranged'
  BY <1>7, VisitorStep, RangedStep DEF Fine, MipsInv
<1>9. fns \in Nat /\ Len(funcs) \in Nat /\ todo = <<1, 0>> /\ pc = NotRunning /\ flag \in BOOLEAN
  <2>1. Len(funcs) \in Nat
    BY SeqFacts DEF MipsInv, Ranged
  <2> QED
    BY <1>1, <2>1 DEF MipsInv
<1>10. /\ fns' \in Nat /\ fns' <= Len(funcs)' /\ ~(fns' > Len(funcs)')
  BY <1>1, <1>7, <1>9
<1>11. todo' = <<1, 0>> /\ pc' = NotRunning /\ flag' \in BOOLEAN /\ Translating'
  BY <1>1, <1>7, <1>9 DEF Idle, Translating, Faultless
<1>12. TodoFine'
  BY <1>11 DEF TodoFine
<1> QED
  BY <1>6, <1>8, <1>10, <1>11, <1>12 DEF MipsInv

LEMMA MainTranslated == ASSUME MipsInv, TranslateMain PROVE MipsInv'
<1>1. /\ Translating /\ fns = Len(funcs) /\ fns' = fns + 1 /\ UNCHANGED todo /\ Idle
      /\ asm' = resetFrame(asm, MainName)
  BY DEF TranslateMain
<1>2. UNCHANGED visitorVars /\ UNCHANGED <<src, scopes, funcs, blocks, errors, phase>>
  BY <1>1 DEF Idle, visitorVars
<1>3. VisitorInv' /\ Ranged'
  BY <1>2, VisitorStep, RangedStep DEF Fine, MipsInv
<1>4. fns \in Nat /\ Len(funcs) \in Nat /\ todo = <<1, 0>> /\ pc = NotRunning /\ flag \in BOOLEAN
  <2>1. Len(funcs) \in Nat
    BY SeqFacts DEF MipsInv, Ranged
  <2> QED
    BY <1>1, <2>1 DEF MipsInv
<1>5. fns' \in Nat /\ fns' > Len(funcs)' /\ ~(fns' <= Len(funcs)')
  BY <1>1, <1>2, <1>4
<1>6. todo' = <<1, 0>> /\ pc' = NotRunning /\ flag' \in BOOLEAN /\ Translating'
  BY <1>1, <1>2, <1>4 DEF Idle, Translating, Faultless
<1>7. TodoFine'
  BY <1>6 DEF TodoFine
<1>8. PICK M \in Nat : M = Len(Code) + 1
  BY SeqFacts DEF MipsInv, Whole, Code
<1>9. /\ Whole(asm)' /\ asm'.functionName = MainName /\ Len(Code)' = M
      /\ Code'[M] = Labelled("label", MainName, <<1, 1>>) /\ DOMAIN Code' = 1 .. M
  <2>1. /\ Whole(asm)' /\ asm'.functionName = MainName /\ Len(Code)' = M
        /\ Code'[M] = Labelled("label", MainName, <<1, 1>>)
    BY <1>1, <1>8, ResetFacts DEF MipsInv, Code
  <2> QED
    BY <2>1, SeqFacts DEF Whole, Code
<1>10. Code'[M].op = "label" /\ Code'[M].at = <<1, 1>>
  BY <1>9 DEF Labelled
<1>11. /\ DOMAIN blocks' = 1 .. Cur' /\ Cur' \in Nat /\ Cur' > 0
  BY <1>3, <1>6, BlockFacts DEF VisitorInv, Translating, Shaped, Cur
<1>12. MainCode(M)'
  <2>1. M > 0 /\ M \in DOMAIN Code' /\ M .. Len(Code)' = {M}
    BY <1>8, <1>9
  <2>2. Followed(M, <<1, 1>>)'
    <3>1. NextAt' = <<1, 1>> /\ todo'[1] = 1
      BY <1>6 DEF NextAt
    <3>2. ~(M < Len(Code)')
      BY <1>9
    <3> QED
      BY <1>11, <3>1, <3>2 DEF Followed
  <2>3. Alone(M)'
    BY <1>10, <2>2 DEF Alone
  <2>4. Compares(M)' = {}
    BY <1>10, <2>1 DEF Compares
  <2>5. \A c \in DOMAIN blocks' : ~(c < todo'[1] \/ (c = todo'[1] /\ todo'[2] # 0))
    BY <1>6, <1>11
  <2> QED
    BY <1>9, <2>1, <2>3, <2>4, <2>5 DEF MainCode
<1>13. \E N \in DOMAIN Code' : MainCode(N)'
  BY <1>8, <1>9, <1>12
<1> QED
  BY <1>3, <1>5, <1>6, <1>7, <1>9, <1>13 DEF MipsInv

\* The visit has ended when the translation begins.
LEMMA VisitEnded == ASSUME phase = "done", VisitorNext PROVE UNCHANGED visitorVars
<1>1. ~Stmt
  BY DEF Stmt, _visit_get_stmt, _visit_tag_stmt, _visit_to_stmt, _visit_let_stmt,
         _visit_if_stmt, _visit_put_stmt, Visit
<1>2. /\ \A n, ps, e : ~_visit_func_def(n, ps, e)
      /\ \A n : ~_visit_var_decl(n)
      /\ ~BeginMain /\ ~Finish
  BY DEF _visit_func_def, _visit_var_decl, BeginMain, Finish
<1> QED
  BY <1>1, <1>2 DEF VisitorNext, Stopped

\* The code stays what it is.
LEMMA SameMain ==
    ASSUME UNCHANGED <<blocks, asm, todo>>
    PROVE  \A M : MainCode(M)' <=> MainCode(M)
<1>1. \A M : Compares(M)' = Compares(M)
  BY DEF Compares, Code
<1>2. \A g : Comparison(g)' <=> Comparison(g)
  BY DEF Comparison, Code, Of, Called
<1>3. \A i : Alone(i)' <=> Alone(i)
  BY DEF Alone, Code, Of, Called, Followed, NextAt
<1>4. \A M, i : Within(M, i)' <=> Within(M, i)
  BY <1>1 DEF Within
<1>5. \A M, c : Led(M, c)' <=> Led(M, c)
  BY <1>4 DEF Led, Called, Code
<1> QED
  BY <1>1, <1>2, <1>3, <1>4, <1>5 DEF MainCode, Code

LEMMA SameLabels ==
    ASSUME UNCHANGED asm
    PROVE  Labels' = Labels /\ (Unique' <=> Unique) /\ \A l : Positions(l)' = Positions(l)
<1>1. Code' = Code
  BY DEF Code
<1>2. Labels' = Labels /\ \A l : Positions(l)' = Positions(l)
  BY <1>1 DEF Labels, Positions
<1> QED
  BY <1>2 DEF Unique

LEMMA SameMips == ASSUME MipsInv, UNCHANGED vars PROVE MipsInv'
<1>1. UNCHANGED <<src, scopes, funcs, blocks, errors, phase, asm, fns, todo, pc, flag, cond>>
  BY DEF vars, visitorVars
<1>2. VisitorInv' /\ Ranged'
  BY VisitorStep, RangedStep DEF Fine, MipsInv, vars
<1>3. \A M : MainCode(M)' <=> MainCode(M)
  BY <1>1, SameMain
<1>4. \A M : RunsIn(M)' <=> RunsIn(M)
  BY <1>1 DEF RunsIn, Compares, Code
<1>5. /\ Whole(asm)' /\ TodoFine' /\ (flag \in BOOLEAN)' /\ (fns \in Nat)'
      /\ (fns > 0 => Translating)'
      /\ (fns <= Len(funcs) => todo = <<1, 0>> /\ pc = NotRunning)'
  BY <1>1 DEF MipsInv, Whole, TodoFine, Translating, Faultless
<1>6. (pc # NotRunning => Translated /\ Unique)'
  BY <1>1, SameLabels DEF MipsInv, Translated, Translating, Faultless
<1>7. (fns > Len(funcs) =>
          \E M \in DOMAIN Code : MainCode(M) /\ (pc \notin {NotRunning, Exited} => RunsIn(M)))'
  BY <1>1, <1>3, <1>4 DEF MipsInv, Code
<1> QED
  BY <1>2, <1>5, <1>6, <1>7 DEF MipsInv

LEMMA Analysed == ASSUME MipsInv, Analyse PROVE MipsInv'
<1>1. VisitorNext /\ UNCHANGED <<asm, fns, todo, pc, flag, cond, mem, event>>
  BY DEF Analyse
<1>2. CASE fns > 0
  <2>1. UNCHANGED visitorVars
    BY <1>1, <1>2, VisitEnded DEF MipsInv, Translating
  <2> QED
    BY <1>1, <2>1, SameMips DEF vars
<1>3. CASE ~(fns > 0)
  <2>1. fns = 0 /\ Len(funcs) \in Nat /\ fns <= Len(funcs)
    BY <1>3, SeqFacts DEF MipsInv, Ranged
  <2>2. VisitorInv' /\ Ranged'
    BY <1>1, VisitorStep, RangedStep DEF Fine, MipsInv
  <2>3. Len(funcs)' \in Nat
    BY <2>2, SeqFacts DEF Ranged
  <2>4. todo' = <<1, 0>> /\ pc' = NotRunning /\ fns' = 0 /\ flag' \in BOOLEAN /\ Whole(asm)'
    BY <1>1, <2>1 DEF MipsInv, Whole
  <2>5. TodoFine'
    BY <2>4 DEF TodoFine
  <2> QED
    BY <2>2, <2>3, <2>4, <2>5 DEF MipsInv
<1> QED
  BY <1>2, <1>3

-----------------------------------------------------------------------------
(***************************************************************************)
(* Where the run goes.                                                     *)
(***************************************************************************)

\* The one item that has a label.
LEMMA LabelAt ==
    ASSUME IsSeq(Code), Unique, NEW i \in DOMAIN Code, Code[i].op = "label"
    PROVE  Where(Code[i].label) = i
<1> DEFINE l == Code[i].label
           P == Positions(l)
<1>1. l \in Labels /\ i \in P
  BY DEF Labels, Positions
<1>2. P \subseteq 1 .. Len(Code) /\ Len(Code) \in Nat
  BY SeqFacts DEF Positions
<1>3. IsFiniteSet(P)
  <2>1. IsFiniteSet(1 .. Len(Code))
    BY <1>2, FS_Interval
  <2> QED
    BY <1>2, <2>1, FS_Subset
<1>4. Cardinality(P) = 1
  BY <1>1 DEF Unique
<1> HIDE DEF P
<1>5. \E x : P = {x}
  BY <1>3, <1>4, FS_Singleton
<1>6. P = {i}
  BY <1>1, <1>5
<1> HIDE DEF l
<1>7. (CHOOSE j \in P : TRUE) = i
  BY <1>6
<1> QED
  BY <1>7 DEF Where, P, l

\* The state of a run.
Runs(M) ==
    /\ MipsInv /\ pc > 0 /\ pc \in M .. Len(Code)
    /\ M \in DOMAIN Code /\ MainCode(M) /\ RunsIn(M)
    /\ IsSeq(Code) /\ Len(Code) \in Nat /\ DOMAIN Code = 1 .. Len(Code)
    /\ Translated /\ Unique /\ flag \in BOOLEAN

LEMMA RunFacts == ASSUME MipsInv, pc > 0 PROVE \E M \in Nat : Runs(M)
<1>1. pc # NotRunning /\ pc # Exited
  BY DEF NotRunning, Exited
<1>2. Translated /\ Unique /\ flag \in BOOLEAN /\ IsSeq(Code)
  BY <1>1 DEF MipsInv, Whole, Code
<1>3. Len(Code) \in Nat /\ DOMAIN Code = 1 .. Len(Code)
  BY <1>2, SeqFacts
<1>4. PICK M \in DOMAIN Code : MainCode(M) /\ RunsIn(M)
  BY <1>1, <1>2 DEF MipsInv, Translated
<1> QED
  BY <1>2, <1>3, <1>4 DEF Runs, RunsIn

\* A jump to a block's name leads to its label.
LEMMA BlockReached ==
    ASSUME NEW M \in Nat, Runs(M), NEW l, NEW c, Called(l, c)
    PROVE  /\ Where(l) \in M .. Len(Code) /\ Code[Where(l)].at = <<c, 1>>
           /\ ~Within(M, Where(l))
<1>1. c \in DOMAIN blocks /\ l = asm.blockNames[c]
  BY DEF Called
<1>2. c < todo[1]
  <2>1. IsSeq(blocks) /\ todo[1] \in Nat /\ todo[1] > Len(blocks)
    BY DEF Runs, MipsInv, VisitorInv, Shaped, AreSeqs, TodoFine, Translated
  <2>2. Len(blocks) \in Nat /\ c \in 1 .. Len(blocks)
    BY <1>1, <2>1, SeqFacts
  <2> QED
    BY <2>1, <2>2
<1>3. Led(M, c)
  BY <1>1, <1>2 DEF Runs, MainCode
<1>4. PICK i \in M .. Len(Code) : /\ Code[i].op = "label" /\ Code[i].at = <<c, 1>>
                                  /\ Called(Code[i].label, c)
                                  /\ ~Within(M, i)
  BY <1>3 DEF Led
<1>5. Code[i].label = l /\ i \in DOMAIN Code
  BY <1>1, <1>4 DEF Called, Runs
<1>6. Where(l) = i
  BY SMTT(60), <1>4, <1>5, LabelAt DEF Runs
<1> QED
  BY <1>4, <1>6

\* The items of a comparison.
LEMMA ItemFacts ==
    ASSUME NEW M \in Nat, Runs(M), NEW g \in Compares(M)
    PROVE  /\ Comparison(g) /\ g \in Nat /\ M <= g /\ g + 8 <= Len(Code) /\ 0 < g
           /\ Code[g].op = "compare" /\ Code[g + 1].op = "bc" /\ Code[g + 2].op = "li"
           /\ Code[g + 3].op = "j" /\ Code[g + 4].op = "label" /\ Code[g + 5].op = "li"
           /\ Code[g + 6].op = "label" /\ Code[g + 7].op = "bnez" /\ Code[g + 8].op = "j"
           /\ Code[g + 1].at = Code[g].at /\ Code[g + 2].at = Code[g].at
           /\ Code[g + 3].at = Code[g].at /\ Code[g + 4].at = Code[g].at
           /\ Code[g + 5].at = Code[g].at /\ Code[g + 6].at = Code[g].at
           /\ Code[g + 7].at = Code[g].at /\ Code[g + 8].at = <<Code[g + 7].inst.other, 1>>
           /\ Code[g + 2].number = 0 /\ Code[g + 5].number = 1
           /\ Code[g + 7].inst = Of(Code[g].at) /\ Code[g + 7].inst.op = "branch"
           /\ Called(Code[g + 7].label, Code[g + 7].inst.target)
           /\ Called(Code[g + 8].label, Code[g + 7].inst.other)
           /\ Where(Code[g + 1].label) = g + 4 /\ Where(Code[g + 3].label) = g + 6
           /\ Code[g].at[1] > 0
<1>1. Comparison(g) /\ g \in M .. Len(Code) /\ Code[g].op = "compare"
  BY DEF Runs, MainCode, Compares
<1>2. /\ g \in Nat /\ M <= g /\ g + 8 <= Len(Code) /\ 0 < g
      /\ g + 4 \in DOMAIN Code /\ g + 6 \in DOMAIN Code
  BY SMTT(60), <1>1 DEF Comparison, Runs
<1> DEFINE at == Code[g].at
           inst == Of(at)
<1>3. PICK one, over, yes, no :
           /\ one = Code[g + 4].label /\ over = Code[g + 6].label
           /\ yes = Code[g + 7].label /\ no = Code[g + 8].label
  OBVIOUS
<1>4. /\ inst.op = "branch" /\ at[1] > 0
      /\ Code[g] = [op |-> "compare", inst |-> inst, at |-> at]
      /\ Code[g + 1] = Labelled("bc", one, at)
      /\ Code[g + 2] = LoadNumber(0, at)
      /\ Code[g + 3] = Labelled("j", over, at)
      /\ Code[g + 4] = Labelled("label", one, at)
      /\ Code[g + 5] = LoadNumber(1, at)
      /\ Code[g + 6] = Labelled("label", over, at)
      /\ Code[g + 7] = [op |-> "bnez", inst |-> inst, label |-> yes, at |-> at]
      /\ Code[g + 8] = Labelled("j", no, <<inst.other, 1>>)
      /\ Called(yes, inst.target) /\ Called(no, inst.other)
  BY <1>1, <1>3 DEF Comparison
<1> HIDE DEF at, inst
<1>5. /\ Code[g + 1].op = "bc" /\ Code[g + 1].label = one /\ Code[g + 1].at = at
      /\ Code[g + 2].op = "li" /\ Code[g + 2].number = 0 /\ Code[g + 2].at = at
      /\ Code[g + 3].op = "j" /\ Code[g + 3].label = over /\ Code[g + 3].at = at
      /\ Code[g + 4].op = "label" /\ Code[g + 4].label = one /\ Code[g + 4].at = at
      /\ Code[g + 5].op = "li" /\ Code[g + 5].number = 1 /\ Code[g + 5].at = at
      /\ Code[g + 6].op = "label" /\ Code[g + 6].label = over /\ Code[g + 6].at = at
      /\ Code[g + 7].op = "bnez" /\ Code[g + 7].label = yes /\ Code[g + 7].at = at
      /\ Code[g + 7].inst = inst
      /\ Code[g + 8].op = "j" /\ Code[g + 8].label = no /\ Code[g + 8].at = <<inst.other, 1>>
  BY <1>4 DEF Labelled, LoadNumber
<1>6. Where(one) = g + 4 /\ Where(over) = g + 6
  <2>1. IsSeq(Code) /\ Unique
    BY DEF Runs
  <2>2. Where(Code[g + 4].label) = g + 4 /\ Where(Code[g + 6].label) = g + 6
    BY <1>2, <1>5, <2>1, LabelAt
  <2> QED
    BY <1>5, <2>2
<1> QED
  BY <1>1, <1>2, <1>4, <1>5, <1>6 DEF at, inst

\* A position within a comparison is in no other.
LEMMA OneComparison ==
    ASSUME NEW M \in Nat, Runs(M), NEW g \in Compares(M), NEW h \in Compares(M),
           NEW i \in Int, i \in g .. g + 8, i \in h .. h + 8
    PROVE  g = h
<1>1. ASSUME NEW x \in Compares(M), NEW y \in Compares(M), x < y, y <= x + 8
      PROVE  FALSE
  <2>1. x \in Nat /\ y \in Nat
    BY ItemFacts
  <2>2. y \in {x + 1, x + 2, x + 3, x + 4, x + 5, x + 6, x + 7, x + 8}
    BY <1>1, <2>1
  <2>3. Code[y].op = "compare"
    BY ItemFacts
  <2>4. Code[y].op # "compare"
    <3>1. /\ Code[x + 1].op = "bc" /\ Code[x + 2].op = "li" /\ Code[x + 3].op = "j"
          /\ Code[x + 4].op = "label" /\ Code[x + 5].op = "li" /\ Code[x + 6].op = "label"
          /\ Code[x + 7].op = "bnez" /\ Code[x + 8].op = "j"
      BY ItemFacts
    <3> QED
      BY <2>2, <3>1
  <2> QED
    BY <2>3, <2>4
<1>2. g \in Nat /\ h \in Nat
  BY ItemFacts
<1>3. ~(g < h) /\ ~(h < g)
  <2>1. g < h => h <= g + 8
    BY <1>2
  <2>2. h < g => g <= h + 8
    BY <1>2
  <2> QED
    BY <1>1, <2>1, <2>2
<1> QED
  BY <1>2, <1>3

\* A step of the run that goes to another item of the code.
Moves ==
    /\ UNCHANGED <<visitorVars, asm, fns, todo>>
    /\ flag' \in BOOLEAN

LEMMA MovesOn ==
    ASSUME MipsInv, Translated, Unique, Moves,
           NEW M \in DOMAIN Code, MainCode(M), pc' = Exited \/ (pc' # NotRunning /\ RunsIn(M)')
    PROVE  MipsInv'
<1>1. UNCHANGED <<src, scopes, funcs, blocks, errors, phase, asm, fns, todo>>
  BY DEF Moves, visitorVars
<1>2. VisitorInv' /\ Ranged'
  BY VisitorStep, RangedStep DEF Fine, MipsInv, Moves
<1>3. MainCode(M)' /\ M \in DOMAIN Code'
  BY <1>1, SameMain DEF Code
<1>4. fns > Len(funcs) /\ fns \in Nat /\ Len(funcs) \in Nat /\ ~(fns <= Len(funcs))
  <2>1. fns > Len(funcs) /\ fns \in Nat /\ IsSeq(funcs)
    BY DEF Translated, MipsInv, Ranged
  <2>2. Len(funcs) \in Nat
    BY <2>1, SeqFacts
  <2> QED
    BY <2>1, <2>2
<1>5. /\ Whole(asm)' /\ TodoFine' /\ (fns > 0 => Translating)'
  BY <1>1 DEF MipsInv, Whole, TodoFine, Translating, Faultless
<1>6. Translated' /\ Unique'
  BY <1>1, SameLabels DEF Translated, Translating, Faultless
<1>7. (fns \in Nat)' /\ (~(fns <= Len(funcs)))' /\ (flag \in BOOLEAN)'
  BY <1>1, <1>4 DEF Moves
<1> QED
  BY <1>2, <1>3, <1>5, <1>6, <1>7 DEF MipsInv

LEMMA MovesFine ==
    ASSUME NEW M \in Nat, Runs(M), Moves, pc' = Exited \/ (pc' # NotRunning /\ RunsIn(M)')
    PROVE  MipsInv'
BY MovesOn DEF Runs

\* No comparison has the item after its first two.
Outside(M, i) == \A g \in Compares(M) : i \notin (g + 2) .. (g + 7)

\* Outside the comparisons nothing is asked of the flag.
LEMMA OutsideFine ==
    ASSUME NEW M \in Nat, Runs(M), Moves, pc' \in M .. Len(Code), Outside(M, pc')
    PROVE  RunsIn(M)' /\ pc' # NotRunning
<1>1. Code' = Code /\ Compares(M)' = Compares(M)
  BY DEF Moves, Code, Compares
<1>2. \A g \in Compares(M) : g \in Nat
  BY ItemFacts
<1>3. \A g \in Compares(M) : /\ pc' \notin {g + 2, g + 3} /\ pc' \notin {g + 4, g + 5}
                             /\ pc' # g + 3 /\ pc' \notin {g + 6, g + 7}
  <2> SUFFICES ASSUME NEW g \in Compares(M), pc' \in {g + 2, g + 3, g + 4, g + 5, g + 6, g + 7}
               PROVE  FALSE
    OBVIOUS
  <2>1. g \in Nat
    BY <1>2
  <2>2. pc' \in (g + 2) .. (g + 7)
    BY <2>1
  <2> QED
    BY <2>2 DEF Outside
<1>4. pc' # NotRunning
  BY DEF Runs, NotRunning
<1> QED
  BY <1>1, <1>3, <1>4 DEF RunsIn

LEMMA WithinOutside ==
    ASSUME NEW M \in Nat, Runs(M), NEW i \in Nat
    PROVE  /\ ~Within(M, i) => Outside(M, i) /\ Outside(M, i + 1)
           /\ \A g \in Compares(M) : i = g \/ i = g + 8 => Outside(M, i)
<1>1. ASSUME ~Within(M, i), NEW g \in Compares(M) PROVE i \notin (g + 2) .. (g + 7) /\ i + 1 \notin (g + 2) .. (g + 7)
  <2>1. i \notin g .. (g + 8)
    BY <1>1 DEF Within
  <2>2. g \in Nat
    BY ItemFacts
  <2> QED
    BY <2>1, <2>2
<1>2. ASSUME NEW g \in Compares(M), i = g \/ i = g + 8, NEW h \in Compares(M)
      PROVE  i \notin (h + 2) .. (h + 7)
  <2> SUFFICES ASSUME i \in (h + 2) .. (h + 7) PROVE FALSE
    OBVIOUS
  <2>1. g \in Nat /\ h \in Nat
    BY ItemFacts
  <2>2. i \in g .. (g + 8) /\ i \in h .. (h + 8)
    BY <1>2, <2>1
  <2>3. g = h
    BY <2>1, <2>2, OneComparison
  <2> QED
    BY <1>2, <2>1, <2>3
<1> QED
  BY <1>1, <1>2 DEF Outside

\* In a comparison the conditions are those of that one.
LEMMA InsideFine ==
    ASSUME NEW M \in Nat, Runs(M), Moves, NEW g \in Compares(M), pc' \in g .. (g + 7),
           pc' \in {g + 2, g + 3} => ~flag',
           pc' \in {g + 4, g + 5} => flag',
           pc' = g + 3 => cond' = 0,
           pc' \in {g + 6, g + 7} => cond' = IF flag' THEN 1 ELSE 0
    PROVE  RunsIn(M)' /\ pc' # NotRunning
<1>1. Code' = Code /\ Compares(M)' = Compares(M)
  BY DEF Moves, Code, Compares
<1>2. g \in Nat /\ M <= g /\ g + 8 <= Len(Code) /\ 0 < g /\ Len(Code) \in Nat
  BY ItemFacts DEF Runs
<1>3. pc' \in M .. Len(Code) /\ pc' # NotRunning
  BY <1>2 DEF NotRunning
<1>4. \A h \in Compares(M) : /\ pc' \in {h + 2, h + 3} => ~flag'
                             /\ pc' \in {h + 4, h + 5} => flag'
                             /\ pc' = h + 3 => cond' = 0
                             /\ pc' \in {h + 6, h + 7} => cond' = IF flag' THEN 1 ELSE 0
  <2> SUFFICES ASSUME NEW h \in Compares(M),
                      pc' \in {h + 2, h + 3, h + 4, h + 5, h + 6, h + 7}
               PROVE  h = g
    OBVIOUS
  <2>1. h \in Nat /\ pc' \in Int
    BY <1>2, ItemFacts
  <2>2. pc' \in g .. (g + 8) /\ pc' \in h .. (h + 8)
    BY <1>2, <2>1
  <2> QED
    BY <2>1, <2>2, OneComparison
<1> QED
  BY <1>1, <1>3, <1>4 DEF RunsIn

-----------------------------------------------------------------------------
(***************************************************************************)
(* Every step of the run keeps the invariant and is one of the IR's, or    *)
(* none.                                                                   *)
(***************************************************************************)
IrStep == [Ir!MachineNext]_(Ir!vars)

LEMMA IrStutters == ASSUME UNCHANGED <<visitorVars, Ip, mem, event>> PROVE IrStep
BY DEF IrStep, Ir!vars, Ir!visitorVars, visitorVars

\* The instruction the items at pc are of.
LEMMA IpFacts ==
    ASSUME NEW M \in Nat, Runs(M)
    PROVE  /\ Ip = Code[pc].at
           /\ Moves /\ RunsIn(M)' => Ip' = Code[pc'].at /\ pc' # Exited /\ pc' # NotRunning
<1>1. pc # NotRunning /\ pc # Exited
  BY DEF Runs, NotRunning, Exited
<1>2. Ip = Code[pc].at
  BY <1>1 DEF Ip
<1>3. ASSUME Moves, RunsIn(M)' PROVE Ip' = Code[pc'].at /\ pc' # Exited /\ pc' # NotRunning
  <2>1. Code' = Code
    BY <1>3 DEF Moves, Code
  <2>2. pc' \in M .. Len(Code)
    BY <1>3, <2>1 DEF RunsIn
  <2>3. M > 0 /\ Len(Code) \in Nat
    BY DEF Runs
  <2>4. pc' # NotRunning /\ pc' # Exited
    BY <2>2, <2>3 DEF NotRunning, Exited
  <2> QED
    BY <2>1, <2>4 DEF Ip
<1> QED
  BY <1>2, <1>3

\* A step to an item of the same instruction.
LEMMA StepsOn ==
    ASSUME NEW M \in Nat, Runs(M), Moves, RunsIn(M)', UNCHANGED <<mem, event>>,
           Code[pc'].at = Code[pc].at
    PROVE  MipsInv' /\ IrStep
<1>1. Ip' = Ip /\ pc' # NotRunning
  BY IpFacts
<1>2. UNCHANGED <<visitorVars, Ip, mem, event>>
  BY <1>1 DEF Moves
<1> QED
  BY <1>1, <1>2, MovesFine, IrStutters

\* Of the item at pc.
LEMMA PcFacts ==
    ASSUME NEW M \in Nat, Runs(M)
    PROVE  /\ pc \in Nat /\ pc \in M .. Len(Code) /\ pc <= Len(Code) /\ Len(Code) \in Nat
           /\ \/ ~Within(M, pc) /\ Alone(pc)
              \/ \E g \in Compares(M) : /\ g \in Nat
                                        /\ pc \in {g, g + 1, g + 2, g + 3, g + 4, g + 5, g + 6, g + 7, g + 8}
           /\ flag \in BOOLEAN
<1>1. pc \in Nat /\ pc \in M .. Len(Code) /\ Len(Code) \in Nat /\ flag \in BOOLEAN
  BY DEF Runs
<1>2. Within(M, pc) \/ Alone(pc)
  BY <1>1 DEF Runs, MainCode
<1>3. ASSUME NEW g \in Compares(M), pc \in g .. (g + 8)
      PROVE  /\ g \in Nat
             /\ pc \in {g, g + 1, g + 2, g + 3, g + 4, g + 5, g + 6, g + 7, g + 8}
  <2>1. g \in Nat
    BY ItemFacts
  <2> QED
    BY <1>1, <1>3, <2>1
<1> QED
  BY <1>1, <1>2, <1>3 DEF Within

\* The item at pc by its op, in a comparison.
LEMMA OpFacts ==
    ASSUME NEW M \in Nat, Runs(M), NEW g \in Compares(M), g \in Nat,
           pc \in {g, g + 1, g + 2, g + 3, g + 4, g + 5, g + 6, g + 7, g + 8}
    PROVE  /\ Code[pc].op = "bc" => pc = g + 1
           /\ Code[pc].op = "li" => pc = g + 2 \/ pc = g + 5
           /\ Code[pc].op = "j" => pc = g + 3 \/ pc = g + 8
           /\ Code[pc].op = "label" => pc = g + 4 \/ pc = g + 6
           /\ Code[pc].op = "bnez" => pc = g + 7
           /\ Code[pc].op \notin Straight \cup {"exit"}
<1>1. /\ Code[g].op = "compare" /\ Code[g + 1].op = "bc" /\ Code[g + 2].op = "li"
      /\ Code[g + 3].op = "j" /\ Code[g + 4].op = "label" /\ Code[g + 5].op = "li"
      /\ Code[g + 6].op = "label" /\ Code[g + 7].op = "bnez" /\ Code[g + 8].op = "j"
  BY ItemFacts, SMTT(40)
<1> QED
  BY <1>1 DEF Straight

LEMMA FollowedFacts ==
    ASSUME NEW M \in Nat, Runs(M), NEW at, Followed(pc, at)
    PROVE  pc + 1 \in M .. Len(Code) /\ Code[pc + 1].at = at
<1>1. ~(todo[1] \in DOMAIN blocks)
  <2>1. IsSeq(blocks) /\ todo[1] \in Nat /\ todo[1] > Len(blocks)
    BY DEF Runs, MipsInv, VisitorInv, Shaped, AreSeqs, TodoFine, Translated
  <2>2. Len(blocks) \in Nat /\ DOMAIN blocks = 1 .. Len(blocks)
    BY <2>1, SeqFacts
  <2> QED
    BY <2>1, <2>2
<1>2. pc < Len(Code) /\ Code[pc + 1].at = at
  BY <1>1 DEF Followed
<1> QED
  BY <1>2, PcFacts

LEMMA LabelRun == ASSUME NEW M \in Nat, Runs(M), RunLabel PROVE MipsInv' /\ IrStep
<1>1. /\ Moves /\ pc' = pc + 1 /\ UNCHANGED <<flag, cond, mem, event>> /\ Code[pc].op = "label"
  BY DEF RunLabel, At, Advance, Steady, Moves, Runs
<1>2. CASE ~Within(M, pc) /\ Alone(pc)
  <2>1. Followed(pc, Code[pc].at)
    BY <1>1, <1>2 DEF Alone, Straight
  <2>2. pc + 1 \in M .. Len(Code) /\ Code[pc + 1].at = Code[pc].at /\ Outside(M, pc + 1)
    BY <1>2, <2>1, FollowedFacts, WithinOutside, PcFacts
  <2>3. RunsIn(M)'
    BY <1>1, <2>2, OutsideFine
  <2> QED
    BY <1>1, <2>2, <2>3, StepsOn
<1>3. ASSUME NEW g \in Compares(M), g \in Nat,
             pc \in {g, g + 1, g + 2, g + 3, g + 4, g + 5, g + 6, g + 7, g + 8}
      PROVE  MipsInv' /\ IrStep
  <2>1. pc = g + 4 \/ pc = g + 6
    BY <1>1, <1>3, OpFacts
  <2>2. CASE pc = g + 4
    <3>1. pc' = g + 5 /\ Code[pc'].at = Code[pc].at
      <4>1. pc' = g + 5
        BY <1>1, <1>3, <2>2
      <4>2. Code[g + 5].at = Code[g].at /\ Code[g + 4].at = Code[g].at
        BY ItemFacts
      <4> QED
        BY <2>2, <4>1, <4>2
    <3>2. flag'
      BY <1>1, <2>2 DEF Runs, RunsIn
    <3>3. RunsIn(M)'
      BY <1>1, <1>3, <3>1, <3>2, InsideFine
    <3> QED
      BY <1>1, <3>1, <3>3, StepsOn
  <2>3. CASE pc = g + 6
    <3>1. pc' = g + 7 /\ Code[pc'].at = Code[pc].at
      <4>1. pc' = g + 7
        BY <1>1, <1>3, <2>3
      <4>2. Code[g + 7].at = Code[g].at /\ Code[g + 6].at = Code[g].at
        BY ItemFacts
      <4> QED
        BY <2>3, <4>1, <4>2
    <3>2. cond' = IF flag' THEN 1 ELSE 0
      BY <1>1, <2>3 DEF Runs, RunsIn
    <3>3. RunsIn(M)'
      BY <1>1, <1>3, <3>1, <3>2, InsideFine
    <3> QED
      BY <1>1, <3>1, <3>3, StepsOn
  <2> QED
    BY <2>1, <2>2, <2>3
<1> QED
  BY <1>2, <1>3, PcFacts

\* An item that is an instruction of the IR, and goes on to the next.
LEMMA StraightRun ==
    ASSUME NEW M \in Nat, Runs(M), Code[pc].op \in Straight, Moves, pc' = pc + 1
    PROVE  /\ MipsInv' /\ Ip[1] > 0 /\ Ir!Inst = Inst /\ Inst.op = Code[pc].op
           /\ Ir!Advance
<1>1. Alone(pc) /\ ~Within(M, pc)
  <2>1. ASSUME NEW g \in Compares(M), g \in Nat,
               pc \in {g, g + 1, g + 2, g + 3, g + 4, g + 5, g + 6, g + 7, g + 8}
        PROVE  FALSE
    BY <2>1, OpFacts
  <2> QED
    BY <2>1, PcFacts
<1> DEFINE at == Code[pc].at
<1>2. /\ at[1] > 0 /\ Of(at) = Code[pc].inst /\ Of(at).op = Code[pc].op
      /\ Followed(pc, <<at[1], at[2] + 1>>)
  BY <1>1 DEF Alone, Straight
<1>3. /\ pc + 1 \in M .. Len(Code) /\ Code[pc + 1].at = <<at[1], at[2] + 1>>
      /\ Outside(M, pc + 1)
  BY <1>1, <1>2, FollowedFacts, WithinOutside, PcFacts
<1>4. RunsIn(M)' /\ pc' # NotRunning
  BY <1>3, OutsideFine
<1>5. MipsInv'
  BY <1>4, MovesFine
<1>6. Ip = at /\ Ip' = <<at[1], at[2] + 1>>
  BY <1>3, <1>4, IpFacts
<1>7. Ir!Inst = Inst
  BY <1>2, <1>6 DEF Ir!Inst, Inst, Of
<1> QED
  BY <1>2, <1>5, <1>6, <1>7 DEF Inst, Ir!Advance

LEMMA AllocaRun == ASSUME NEW M \in Nat, Runs(M), RunAlloca PROVE MipsInv' /\ IrStep
<1>1. /\ Moves /\ pc' = pc + 1 /\ UNCHANGED <<mem, event>> /\ Code[pc].op = "alloca"
  BY DEF RunAlloca, At, Advance, Steady, Moves, Runs
<1>2. /\ MipsInv' /\ Ip[1] > 0 /\ Ir!Inst = Inst /\ Inst.op = "alloca" /\ Ir!Advance
  BY <1>1, StraightRun DEF Straight
<1>3. Ir!At("alloca")
  BY <1>1, <1>2 DEF Ir!At, Ir!visitorVars, visitorVars, Moves
<1>4. Ir!ExecAlloca
  BY <1>1, <1>2, <1>3 DEF Ir!ExecAlloca
<1> QED
  BY <1>2, <1>4 DEF IrStep, Ir!MachineNext

LEMMA InputRun == ASSUME NEW M \in Nat, Runs(M), RunInput PROVE MipsInv' /\ IrStep
<1>1. /\ Moves /\ pc' = pc + 1 /\ Code[pc].op = "input"
      /\ mem' = [mem EXCEPT ![Inst.cell.ix] = Inst.stmt]
      /\ event' = [stmt |-> Inst.stmt, val |-> [op |-> "read"]]
  BY DEF RunInput, At, Advance, Moves, Runs
<1>2. /\ MipsInv' /\ Ip[1] > 0 /\ Ir!Inst = Inst /\ Inst.op = "input" /\ Ir!Advance
  BY <1>1, StraightRun DEF Straight
<1>3. Ir!At("input")
  BY <1>1, <1>2 DEF Ir!At, Ir!visitorVars, visitorVars, Moves
<1>4. Ir!ExecInput
  BY <1>1, <1>2, <1>3 DEF Ir!ExecInput
<1> QED
  BY <1>2, <1>4 DEF IrStep, Ir!MachineNext

LEMMA OutputRun == ASSUME NEW M \in Nat, Runs(M), RunOutput PROVE MipsInv' /\ IrStep
<1>1. /\ Moves /\ pc' = pc + 1 /\ Code[pc].op = "output"
      /\ event' = [stmt |-> Inst.stmt, val |-> Ir!Compute(Inst.val)]
      /\ UNCHANGED mem
  BY DEF RunOutput, At, Advance, Moves, Runs
<1>2. /\ MipsInv' /\ Ip[1] > 0 /\ Ir!Inst = Inst /\ Inst.op = "output" /\ Ir!Advance
  BY <1>1, StraightRun DEF Straight
<1>3. Ir!At("output")
  BY <1>1, <1>2 DEF Ir!At, Ir!visitorVars, visitorVars, Moves
<1>4. Ir!ExecOutput
  BY <1>1, <1>2, <1>3 DEF Ir!ExecOutput
<1> QED
  BY <1>2, <1>4 DEF IrStep, Ir!MachineNext

LEMMA StoreRun == ASSUME NEW M \in Nat, Runs(M), RunStore PROVE MipsInv' /\ IrStep
<1>1. /\ Moves /\ pc' = pc + 1 /\ Code[pc].op = "store"
      /\ mem' = [mem EXCEPT ![Inst.cell.ix] = Inst.stmt]
      /\ event' = [stmt |-> Inst.stmt, val |-> Ir!Compute(Inst.val)]
  BY DEF RunStore, At, Advance, Moves, Runs
<1>2. /\ MipsInv' /\ Ip[1] > 0 /\ Ir!Inst = Inst /\ Inst.op = "store" /\ Ir!Advance
  BY <1>1, StraightRun DEF Straight
<1>3. Ir!At("store")
  BY <1>1, <1>2 DEF Ir!At, Ir!visitorVars, visitorVars, Moves
<1>4. Ir!ExecStore
  BY <1>1, <1>2, <1>3 DEF Ir!ExecStore
<1> QED
  BY <1>2, <1>4 DEF IrStep, Ir!MachineNext

LEMMA CompareRun == ASSUME NEW M \in Nat, Runs(M), RunCompare PROVE MipsInv' /\ IrStep
<1>1. /\ Moves /\ pc' = pc + 1 /\ UNCHANGED <<mem, event>> /\ Code[pc].op = "compare"
  BY DEF RunCompare, At, Advance, Moves, Runs
<1>2. PICK g \in Compares(M) : g = pc
  BY <1>1, PcFacts DEF Compares
<1>3. g \in Nat /\ Code[g + 1].at = Code[g].at
  BY ItemFacts
<1>4. Code[pc'].at = Code[pc].at
  BY <1>1, <1>2, <1>3
<1>5. RunsIn(M)'
  <2>1. pc' \in g .. (g + 7) /\ pc' \notin {g + 2, g + 3} /\ pc' \notin {g + 4, g + 5}
        /\ pc' # g + 3 /\ pc' \notin {g + 6, g + 7}
    BY <1>1, <1>2, <1>3
  <2> QED
    BY <1>1, <2>1, InsideFine
<1> QED
  BY <1>1, <1>4, <1>5, StepsOn

LEMMA BcRun == ASSUME NEW M \in Nat, Runs(M), RunBc PROVE MipsInv' /\ IrStep
<1>1. /\ Moves /\ UNCHANGED <<flag, cond, mem, event>> /\ Code[pc].op = "bc"
      /\ IF flag THEN pc' = Where(Code[pc].label) ELSE pc' = pc + 1
  BY DEF RunBc, At, Advance, GoTo, Steady, Moves, Runs
<1>2. PICK g \in Compares(M) : /\ g \in Nat
                               /\ pc \in {g, g + 1, g + 2, g + 3, g + 4, g + 5, g + 6, g + 7, g + 8}
  BY <1>1, PcFacts DEF Alone, Straight
<1>3. pc = g + 1
  BY <1>1, <1>2, OpFacts
<1>4. /\ Where(Code[g + 1].label) = g + 4 /\ Code[g + 4].at = Code[g].at
      /\ Code[g + 2].at = Code[g].at /\ Code[g + 1].at = Code[g].at
  BY ItemFacts
<1>5. IF flag' THEN pc' = g + 4 ELSE pc' = g + 2
  BY <1>1, <1>2, <1>3, <1>4
<1>6. Code[pc'].at = Code[pc].at
  BY <1>3, <1>4, <1>5
<1>7. RunsIn(M)'
  <2>1. /\ pc' \in g .. (g + 7) /\ pc' # g + 3 /\ pc' \notin {g + 6, g + 7}
        /\ pc' \in {g + 2, g + 3} => ~flag'
        /\ pc' \in {g + 4, g + 5} => flag'
    BY <1>2, <1>5
  <2> QED
    BY <1>1, <2>1, InsideFine
<1> QED
  BY <1>1, <1>6, <1>7, StepsOn

LEMMA LoadNumberRun == ASSUME NEW M \in Nat, Runs(M), RunLoadNumber PROVE MipsInv' /\ IrStep
<1>1. /\ Moves /\ pc' = pc + 1 /\ UNCHANGED <<flag, mem, event>> /\ Code[pc].op = "li"
      /\ cond' = Code[pc].number
  BY DEF RunLoadNumber, At, Advance, Moves, Runs
<1>2. PICK g \in Compares(M) : /\ g \in Nat
                               /\ pc \in {g, g + 1, g + 2, g + 3, g + 4, g + 5, g + 6, g + 7, g + 8}
  BY <1>1, PcFacts DEF Alone, Straight
<1>3. /\ Code[g + 2].at = Code[g].at /\ Code[g + 3].at = Code[g].at
      /\ Code[g + 5].at = Code[g].at /\ Code[g + 6].at = Code[g].at
      /\ Code[g + 2].number = 0 /\ Code[g + 5].number = 1
  BY ItemFacts
<1>4. pc = g + 2 \/ pc = g + 5
  BY <1>1, <1>2, OpFacts
<1>5. CASE pc = g + 2
  <2>1. pc' = g + 3 /\ cond' = 0 /\ Code[pc'].at = Code[pc].at
    BY <1>1, <1>2, <1>3, <1>5
  <2>2. ~flag'
    BY <1>1, <1>5 DEF Runs, RunsIn
  <2>3. RunsIn(M)'
    BY <1>1, <1>2, <2>1, <2>2, InsideFine
  <2> QED
    BY <1>1, <2>1, <2>3, StepsOn
<1>6. CASE pc = g + 5
  <2>1. pc' = g + 6 /\ cond' = 1 /\ Code[pc'].at = Code[pc].at
    BY <1>1, <1>2, <1>3, <1>6
  <2>2. flag'
    BY <1>1, <1>6 DEF Runs, RunsIn
  <2>3. RunsIn(M)'
    BY <1>1, <1>2, <2>1, <2>2, InsideFine
  <2> QED
    BY <1>1, <2>1, <2>3, StepsOn
<1> QED
  BY <1>4, <1>5, <1>6

\* A jump to the name of a block.
LEMMA GoesTo ==
    ASSUME NEW M \in Nat, Runs(M), Moves, NEW l, NEW c, Called(l, c), pc' = Where(l)
    PROVE  RunsIn(M)' /\ MipsInv' /\ Code[pc'].at = <<c, 1>> /\ Ip' = <<c, 1>>
<1>1. PICK i : i = Where(l)
  OBVIOUS
<1>2. i \in M .. Len(Code) /\ Code[i].at = <<c, 1>> /\ ~Within(M, i)
  BY <1>1, BlockReached
<1>3. i \in Nat
  BY <1>2 DEF Runs
<1>4. Outside(M, i)
  BY <1>2, <1>3, WithinOutside
<1>5. RunsIn(M)' /\ pc' # NotRunning
  BY <1>1, <1>2, <1>4, OutsideFine
<1>6. Ip' = Code[pc'].at
  BY <1>5, IpFacts
<1> QED
  BY <1>1, <1>2, <1>5, <1>6, MovesFine

LEMMA JumpRun == ASSUME NEW M \in Nat, Runs(M), RunJump PROVE MipsInv' /\ IrStep
<1>1. /\ Moves /\ pc' = Where(Code[pc].label) /\ UNCHANGED <<flag, cond, mem, event>>
      /\ Code[pc].op = "j"
  BY DEF RunJump, At, GoTo, Steady, Moves, Runs
<1>2. CASE ~Within(M, pc) /\ Alone(pc)
  <2>1. PICK at, l, c : at = Code[pc].at /\ l = Code[pc].label /\ c = Of(at).target
    OBVIOUS
  <2>2. at[1] > 0 /\ Of(at).op = "jump" /\ Called(l, c)
    BY <1>1, <1>2, <2>1 DEF Alone, Straight
  <2>3. MipsInv' /\ Ip' = <<c, 1>> /\ Ip = at
    BY <1>1, <2>1, <2>2, GoesTo, IpFacts
  <2>4. Ir!At("jump")
    BY <1>1, <2>2, <2>3 DEF Ir!At, Ir!Inst, Of, Ir!visitorVars, visitorVars, Moves
  <2>5. Ir!ExecJump
    BY <1>1, <2>1, <2>3, <2>4 DEF Ir!ExecJump, Ir!GoTo, Ir!Inst, Of
  <2> QED
    BY <2>3, <2>5 DEF IrStep, Ir!MachineNext
<1>3. ASSUME NEW g \in Compares(M), g \in Nat,
             pc \in {g, g + 1, g + 2, g + 3, g + 4, g + 5, g + 6, g + 7, g + 8}
      PROVE  MipsInv' /\ IrStep
  <2>1. pc = g + 3 \/ pc = g + 8
    BY <1>1, <1>3, OpFacts
  <2>2. CASE pc = g + 3
    <3>1. /\ Where(Code[g + 3].label) = g + 6
          /\ Code[g + 3].at = Code[g].at /\ Code[g + 6].at = Code[g].at
      BY ItemFacts
    <3>2. pc' = g + 6 /\ Code[pc'].at = Code[pc].at
      BY <1>1, <2>2, <3>1
    <3>3. cond' = 0 /\ ~flag'
      BY <1>1, <2>2 DEF Runs, RunsIn
    <3>4. RunsIn(M)'
      <4>1. pc' \in g .. (g + 7) /\ pc' \notin {g + 2, g + 3} /\ pc' \notin {g + 4, g + 5}
            /\ pc' # g + 3
        BY <1>3, <3>2
      <4> QED
        BY <1>1, <3>3, <4>1, InsideFine
    <3> QED
      BY <1>1, <3>2, <3>4, StepsOn
  <2>3. CASE pc = g + 8
    <3>1. PICK l, c : l = Code[g + 8].label /\ c = Code[g + 7].inst.other
      OBVIOUS
    <3>2. Called(l, c) /\ Code[g + 8].at = <<c, 1>>
      BY SMTT(60), <3>1, ItemFacts
    <3>3. RunsIn(M)' /\ Code[pc'].at = <<c, 1>>
      BY <1>1, <2>3, <3>1, <3>2, GoesTo
    <3>4. Code[pc'].at = Code[pc].at
      BY <2>3, <3>2, <3>3
    <3> QED
      BY <1>1, <3>3, <3>4, StepsOn
  <2> QED
    BY <2>1, <2>2, <2>3
<1> QED
  BY <1>2, <1>3, PcFacts

LEMMA BnezRun == ASSUME NEW M \in Nat, Runs(M), RunBnez PROVE MipsInv' /\ IrStep
<1>1. /\ Moves /\ UNCHANGED <<flag, cond, mem>> /\ Code[pc].op = "bnez"
      /\ event' = [stmt |-> Inst.stmt, val |-> Ir!Compute(Inst.val), taken |-> flag]
      /\ IF cond # 0 THEN pc' = Where(Code[pc].label) ELSE pc' = pc + 1
  BY DEF RunBnez, At, Advance, GoTo, Moves, Runs
<1>2. PICK g \in Compares(M) : /\ g \in Nat
                               /\ pc \in {g, g + 1, g + 2, g + 3, g + 4, g + 5, g + 6, g + 7, g + 8}
  BY <1>1, PcFacts DEF Alone, Straight
<1>3. pc = g + 7
  BY <1>1, <1>2, OpFacts
<1>4. PICK at, inst, l : at = Code[g].at /\ inst = Code[g + 7].inst /\ l = Code[g + 7].label
  OBVIOUS
<1>5. /\ inst = Of(at) /\ inst.op = "branch" /\ at[1] > 0 /\ Code[g + 7].at = at
      /\ Called(l, inst.target) /\ Code[g + 8].at = <<inst.other, 1>>
      /\ g + 8 <= Len(Code) /\ M <= g
  <2>1. /\ Code[g + 7].inst = Of(Code[g].at) /\ Code[g + 7].inst.op = "branch"
        /\ Code[g].at[1] > 0 /\ Code[g + 7].at = Code[g].at
        /\ Called(Code[g + 7].label, Code[g + 7].inst.target)
        /\ Code[g + 8].at = <<Code[g + 7].inst.other, 1>>
        /\ g + 8 <= Len(Code) /\ M <= g
    BY SMTT(60), ItemFacts
  <2> QED
    BY <1>4, <2>1
<1>6. Ip = at /\ Ir!Inst = inst /\ Inst = inst
  BY <1>3, <1>4, <1>5, IpFacts DEF Ir!Inst, Of, Inst
<1>7. cond = IF flag THEN 1 ELSE 0
  BY <1>3 DEF Runs, RunsIn
<1>8. MipsInv' /\ Ip' = <<IF flag THEN inst.target ELSE inst.other, 1>>
  <2>1. CASE flag
    <3>1. pc' = Where(l)
      BY <1>1, <1>3, <1>4, <1>7, <2>1
    <3> QED
      BY <1>1, <1>5, <2>1, <3>1, GoesTo
  <2>2. CASE ~flag
    <3>1. pc' = g + 8
      BY <1>1, <1>2, <1>3, <1>7, <2>2
    <3>2. Outside(M, g + 8) /\ g + 8 \in M .. Len(Code)
      <4>1. g + 8 \in Nat
        BY <1>2
      <4>2. Outside(M, g + 8)
        BY <4>1, WithinOutside
      <4> QED
        BY <1>2, <1>5, <4>2, PcFacts
    <3>3. RunsIn(M)' /\ pc' # NotRunning
      BY <1>1, <3>1, <3>2, OutsideFine
    <3>4. MipsInv' /\ Ip' = Code[pc'].at
      BY <1>1, <3>3, MovesFine, IpFacts
    <3> QED
      BY <1>5, <2>2, <3>1, <3>4
  <2> QED
    BY <2>1, <2>2
<1>9. Ir!At("branch")
  BY <1>1, <1>5, <1>6 DEF Ir!At, Ir!visitorVars, visitorVars, Moves
<1>10. Ir!ExecBranch
  <2>1. flag \in BOOLEAN
    BY PcFacts
  <2>2. event' = [stmt |-> Ir!Inst.stmt, val |-> Ir!Compute(Ir!Inst.val), taken |-> flag]
    BY <1>1, <1>6
  <2>3. Ir!GoTo(IF flag THEN Ir!Inst.target ELSE Ir!Inst.other)
    BY <1>6, <1>8 DEF Ir!GoTo
  <2> QED
    BY <1>1, <1>9, <2>1, <2>2, <2>3 DEF Ir!ExecBranch
<1> QED
  BY <1>8, <1>10 DEF IrStep, Ir!MachineNext

LEMMA ExitRun == ASSUME NEW M \in Nat, Runs(M), RunExit PROVE MipsInv' /\ IrStep
<1>1. /\ Moves /\ pc' = Exited /\ UNCHANGED <<mem, event>> /\ Code[pc].op = "exit"
  BY DEF RunExit, At, Steady, Moves, Runs
<1>2. Alone(pc)
  <2>1. ASSUME NEW g \in Compares(M), g \in Nat,
               pc \in {g, g + 1, g + 2, g + 3, g + 4, g + 5, g + 6, g + 7, g + 8}
        PROVE  FALSE
    BY <1>1, <2>1, OpFacts
  <2> QED
    BY <2>1, PcFacts
<1>3. Code[pc].at[1] > 0 /\ Of(Code[pc].at).op = "ret"
  BY <1>1, <1>2 DEF Alone, Straight
<1>4. MipsInv'
  BY <1>1, MovesFine
<1>5. Ip = Code[pc].at /\ Ip' = <<0, 1>>
  BY <1>1, IpFacts DEF Ip, Exited, NotRunning
<1>6. Ir!At("ret")
  BY <1>1, <1>3, <1>5 DEF Ir!At, Ir!Inst, Of, Ir!visitorVars, visitorVars, Moves
<1>7. Ir!ExecRet
  BY SMTT(60), <1>1, <1>5, <1>6 DEF Ir!ExecRet, Ir!Exited
<1> QED
  BY <1>4, <1>7 DEF IrStep, Ir!MachineNext

\* Both machines have the same visitor.
LEMMA SameVisitor == Ir!VisitorNext <=> VisitorNext
BY ZenonT(200) DEF Bad, RanOf, Children, PartsAt, SubExps, visitorVars,
       Ir!Bad, Ir!RanOf, Ir!Children, Ir!PartsAt, Ir!SubExps, Ir!visitorVars,
       NoSymbol, VarSymbol, FuncSymbol, TagSymbol, NewScope, exist_in_scope, add_symbol,
       get_symbol,
       Ir!NoSymbol, Ir!VarSymbol, Ir!FuncSymbol, Ir!TagSymbol, Ir!NewScope, Ir!exist_in_scope,
       Ir!add_symbol, Ir!get_symbol,
       NoVal, Lit, Loaded, Good, Fail, _visit_number, _visit_ident_exp, _visit_unary_exp,
       _visit_binary_exp, _visit_call_exp, _visit_part, _visit_exp,
       Ir!NoVal, Ir!Lit, Ir!Loaded, Ir!Good, Ir!Fail, Ir!_visit_number, Ir!_visit_ident_exp,
       Ir!_visit_unary_exp, Ir!_visit_binary_exp, Ir!_visit_call_exp, Ir!_visit_part,
       Ir!_visit_exp,
       Alloca, Input, Output, Store, Return, JumpInst, BranchInst, SetTarget, Cur, Emit,
       EndBlock, Retarget,
       Ir!Alloca, Ir!Input, Ir!Output, Ir!Store, Ir!Return, Ir!JumpInst, Ir!BranchInst,
       Ir!SetTarget, Ir!Cur, Ir!Emit, Ir!EndBlock, Ir!Retarget,
       Report, Syntax, FnPlace, DeclPlace, StmtPlace, ParamScope, Repeats, NotNull,
       _visit_func_def, BeginMain, _visit_var_decl,
       Ir!Report, Ir!Syntax, Ir!FnPlace, Ir!DeclPlace, Ir!StmtPlace, Ir!ParamScope, Ir!Repeats,
       Ir!NotNull, Ir!_visit_func_def, Ir!BeginMain, Ir!_visit_var_decl,
       Visit, Here, GiveUp, Accept, Crash, TagOf, JumpTo, Waiting, _visit_get_stmt,
       _visit_put_stmt, _visit_let_stmt, _visit_tag_stmt, _visit_if_stmt, _visit_to_stmt,
       Ir!Visit, Ir!Here, Ir!GiveUp, Ir!Accept, Ir!Crash, Ir!TagOf, Ir!JumpTo, Ir!Waiting,
       Ir!_visit_get_stmt, Ir!_visit_put_stmt, Ir!_visit_let_stmt, Ir!_visit_tag_stmt,
       Ir!_visit_if_stmt, Ir!_visit_to_stmt,
       Pending, Finish, Stmt, ParamLists, Stopped, VisitorNext,
       Ir!Pending, Ir!Finish, Ir!Stmt, Ir!ParamLists, Ir!Stopped, Ir!VisitorNext

-----------------------------------------------------------------------------
(***************************************************************************)
(* The refinement.                                                         *)
(***************************************************************************)

\* The program starts at the label of main.
LEMMA BootRun == ASSUME MipsInv, Boot PROVE MipsInv' /\ IrStep
<1>1. /\ Translated /\ pc = NotRunning /\ Unique /\ pc' = Where(MainName)
      /\ UNCHANGED <<visitorVars, asm, fns, todo, flag, cond, mem, event>>
  BY DEF Boot
<1>2. PICK M \in DOMAIN Code : MainCode(M)
  BY <1>1 DEF MipsInv, Translated
<1>3. /\ IsSeq(Code) /\ DOMAIN Code = 1 .. Len(Code) /\ Len(Code) \in Nat /\ flag \in BOOLEAN
  <2>1. IsSeq(Code) /\ flag \in BOOLEAN
    BY DEF MipsInv, Whole, Code
  <2> QED
    BY <2>1, SeqFacts
<1>4. Code[M].op = "label" /\ Code[M].label = MainName /\ Code[M].at = <<1, 1>>
  BY <1>2 DEF MainCode, Labelled
<1>5. Where(MainName) = M
  BY <1>1, <1>3, <1>4, LabelAt
<1>6. M \in Nat /\ M > 0 /\ M \in M .. Len(Code)
  BY <1>3
<1>7. Moves /\ Code' = Code
  BY <1>1, <1>3 DEF Moves, Code
<1>8. RunsIn(M)'
  <2>1. Compares(M)' = Compares(M) /\ \A g \in Compares(M) : g \in Nat /\ M <= g
    BY <1>3, <1>6, <1>7 DEF Compares
  <2>2. pc' = M
    BY <1>1, <1>5
  <2>3. \A g \in Compares(M) : /\ M \notin {g + 2, g + 3} /\ M \notin {g + 4, g + 5}
                               /\ M # g + 3 /\ M \notin {g + 6, g + 7}
    BY SMTT(60), <1>6, <2>1
  <2> QED
    BY <1>6, <1>7, <2>1, <2>2, <2>3 DEF RunsIn
<1>9. pc' # NotRunning /\ pc' # Exited
  BY <1>1, <1>5, <1>6 DEF NotRunning, Exited
<1>10. MipsInv'
  BY <1>1, <1>2, <1>7, <1>8, <1>9, MovesOn
<1>11. Ip = <<0, 0>> /\ Ip' = <<1, 1>>
  BY <1>1, <1>4, <1>5, <1>7, <1>9 DEF Ip, NotRunning, Exited
<1>12. Ir!Boot
  BY <1>1, <1>11 DEF Ir!Boot, Ir!NotRunning, Ir!GoTo, Ir!Faultless, Ir!visitorVars, visitorVars,
                     Translated, Translating, Faultless
<1> QED
  BY <1>10, <1>12 DEF IrStep, Ir!MachineNext

LEMMA RunStepped == ASSUME MipsInv, RunStep PROVE MipsInv' /\ IrStep
<1>1. pc > 0
  BY DEF RunStep, RunLabel, RunAlloca, RunInput, RunOutput, RunStore, RunCompare, RunBc,
         RunLoadNumber, RunJump, RunBnez, RunExit, At
<1>2. PICK M \in Nat : Runs(M)
  BY <1>1, RunFacts
<1> QED
  BY <1>2, LabelRun, AllocaRun, InputRun, OutputRun, StoreRun, CompareRun, BcRun, LoadNumberRun,
     JumpRun, BnezRun, ExitRun DEF RunStep

\* Before the run the IR's machine does not move: it is not running either.
LEMMA IdleStutters == ASSUME Idle PROVE Ip' = Ip => IrStep
BY IrStutters DEF Idle

LEMMA TranslationStepped ==
    ASSUME MipsInv, "UndefinedTag" \notin Sloppy, Translation
    PROVE  MipsInv' /\ IrStep
<1>1. MipsInv'
  BY FunctionTranslated, MainTranslated, BlockTranslated, StraightTranslated, JumpTranslated,
     BranchTranslated, ReturnTranslated DEF Translation
<1>2. Idle
  BY DEF Translation, TranslateFunction, TranslateMain, TranslateBlock, TranslateStraight,
         TranslateJump, TranslateBranch, TranslateReturn, Translate
<1>3. pc = NotRunning
  <2>1. CASE TranslateFunction \/ TranslateMain
    <3>1. fns <= Len(funcs)
      <4>1. Len(funcs) \in Nat /\ fns \in Nat
        BY SeqFacts DEF MipsInv, Ranged
      <4> QED
        BY <2>1, <4>1 DEF TranslateFunction, TranslateMain
    <3> QED
      BY <3>1 DEF MipsInv
  <2>2. CASE InMain
    BY <2>2, TodoFacts
  <2> QED
    BY <2>1, <2>2 DEF Translation, TranslateBlock, TranslateStraight, TranslateJump,
                      TranslateBranch, TranslateReturn, Translate
<1>4. Ip = <<0, 0>> /\ Ip' = <<0, 0>>
  BY <1>2, <1>3 DEF Ip, Idle, NotRunning, Exited
<1> QED
  BY <1>1, <1>2, <1>4, IdleStutters

LEMMA AnalyseStepped == ASSUME MipsInv, Analyse PROVE MipsInv' /\ IrStep
<1>1. MipsInv'
  BY Analysed
<1>2. VisitorNext /\ UNCHANGED <<asm, pc, mem, event>>
  BY DEF Analyse
<1>3. Ip' = Ip
  BY <1>2 DEF Ip, Code
<1>4. Ir!Compile
  BY <1>2, <1>3, SameVisitor DEF Ir!Compile
<1> QED
  BY <1>1, <1>4 DEF IrStep, Ir!MachineNext

LEMMA MipsStep ==
    ASSUME MipsInv, "UndefinedTag" \notin Sloppy, [MipsNext]_vars
    PROVE  MipsInv' /\ IrStep
<1>1. CASE UNCHANGED vars
  <2>1. UNCHANGED <<visitorVars, Ip, mem, event>>
    BY <1>1 DEF vars, Ip, Code
  <2> QED
    BY <1>1, <2>1, SameMips, IrStutters
<1>2. CASE MipsNext
  BY <1>2, AnalyseStepped, TranslationStepped, BootRun, RunStepped DEF MipsNext
<1> QED
  BY <1>1, <1>2

LEMMA MipsStart == MipsInit => MipsInv /\ Ir!MachineInit
<1> SUFFICES ASSUME MipsInit PROVE MipsInv /\ Ir!MachineInit
  OBVIOUS
<1>1. Init /\ fns = 0 /\ todo = <<1, 0>> /\ pc = NotRunning /\ flag = FALSE
      /\ asm = [functionName |-> <<>>, labelCount |-> 0, blockNames |-> <<>>, codes |-> <<>>]
  BY DEF MipsInit
<1>2. VisitorInv /\ Ranged
  BY <1>1, VisitorInit, RangedInit
<1>3. Whole(asm) /\ TodoFine
  BY <1>1, EmptyFacts DEF Whole, TodoFine
<1>4. ~(fns > Len(funcs)) /\ fns \in Nat /\ ~(fns > 0)
  BY <1>1, EmptyFacts DEF Init
<1>5. MipsInv
  BY <1>1, <1>2, <1>3, <1>4 DEF MipsInv
<1>6. Ip = <<0, 0>>
  BY <1>1 DEF Ip, NotRunning, Exited
<1>7. Ir!Init
  BY <1>1 DEF Init, Ir!Init, Ir!EmptyProgram, EmptyProgram, Ir!NewScope, NewScope,
              Ir!NoSymbol, NoSymbol
<1>8. Ir!MachineInit
  BY <1>6, <1>7 DEF MipsInit, Ir!MachineInit, Ir!NotRunning
<1> QED
  BY <1>5, <1>8

\* The code of main is what the machine that runs it takes it to be, and in a
\* comparison the flag and the number agree.
THEOREM MipsCorrect == "UndefinedTag" \notin Sloppy => (MipsSpec => []MipsInv)
<1> SUFFICES ASSUME "UndefinedTag" \notin Sloppy PROVE MipsSpec => []MipsInv
  OBVIOUS
<1>1. MipsInit => MipsInv
  BY MipsStart
<1>2. MipsInv /\ [MipsNext]_vars => MipsInv'
  BY MipsStep
<1> QED
  BY <1>1, <1>2, PTL DEF MipsSpec

\* The MIPS code does what the IR does: every jump, and every branch on a
\* comparison, leads to the block it leads to there, whichever blocks come
\* first and whatever labels the functions take (Translator::translate,
\* MipsManager::getLabelName).
THEOREM MipsRefinesIr == "UndefinedTag" \notin Sloppy => (MipsSpec => RefinesIr)
<1> SUFFICES ASSUME "UndefinedTag" \notin Sloppy PROVE MipsSpec => RefinesIr
  OBVIOUS
<1>1. MipsInit => MipsInv /\ Ir!MachineInit
  BY MipsStart
<1>2. MipsInv /\ [MipsNext]_vars => MipsInv' /\ [Ir!MachineNext]_(Ir!vars)
  BY MipsStep DEF IrStep
<1> QED
  BY <1>1, <1>2, PTL DEF MipsSpec, RefinesIr, Ir!MachineSpec
=============================================================================
