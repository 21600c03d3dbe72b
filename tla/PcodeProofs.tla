----------------------------- MODULE PcodeProofs ------------------------------
(***************************************************************************)
(* The stacks of Pcode: what every instruction pops is there, and between  *)
(* two statements nothing is left, for every program.                      *)
(***************************************************************************)
EXTENDS Pcode, TreeProofs, FiniteSetTheorems, SequenceTheorems

LOCAL INSTANCE SequencesExt

-----------------------------------------------------------------------------
(***************************************************************************)
(* The height of the stack, as far as the code alone determines it.        *)
(***************************************************************************)
Labels == Idents \cup {MainLabel}
Ops    == {"LABEL", "DEF", "LI", "LOAD", "READ", "ARG", "OPR", "CALL",
           "STORE", "WRITE", "JIT", "JUMP", "RET"}
Insts  == [op : Ops, stmt : Nat] \cup [op : Ops, n : Labels, stmt : Nat]
            \cup [op : Ops, ix : Nat, stmt : Nat]

Pushing == {"LI", "LOAD", "READ", "ARG", "OPR", "CALL"}
Popping1 == {"STORE", "WRITE", "JIT", "RET"}

\* What an instruction pops, if fs gives the parameters of the functions, and
\* what it pushes.
Takes(inst, fs) == IF inst.op = "OPR" THEN inst.ix
                   ELSE IF inst.op = "CALL" THEN fs[inst.n]
                   ELSE IF inst.op \in Popping1 THEN 1 ELSE 0
Gives(inst)     == IF inst.op \in Pushing THEN 1 ELSE 0

\* Run from an empty stack the code c finds what it pops, and h[k] are the
\* temporaries before its k-th instruction.
Heights(c, fs, h) ==
    /\ h \in [1 .. Len(c) + 1 -> Nat]
    /\ h[1] = 0
    /\ \A k \in 1 .. Len(c) : /\ Takes(c[k], fs) \in 0 .. h[k]
                              /\ h[k + 1] = h[k] - Takes(c[k], fs) + Gives(c[k])

\* And leaves z.
Leaves(c, fs, z) == \E h : Heights(c, fs, h) /\ h[Len(c) + 1] = z

LEMMA LeavesOne ==
    ASSUME NEW inst \in Insts, NEW fs, Takes(inst, fs) = 0
    PROVE  Leaves(<<inst>>, fs, Gives(inst))
<1> DEFINE h == [k \in 1 .. 2 |-> IF k = 1 THEN 0 ELSE Gives(inst)]
<1>1. Gives(inst) \in Nat
  BY DEF Gives
<1>2. /\ h \in [1 .. Len(<<inst>>) + 1 -> Nat] /\ h[1] = 0
      /\ h[Len(<<inst>>) + 1] = Gives(inst)
  BY <1>1
<1>3. \A k \in 1 .. Len(<<inst>>) :
          /\ Takes(<<inst>>[k], fs) \in 0 .. h[k]
          /\ h[k + 1] = h[k] - Takes(<<inst>>[k], fs) + Gives(<<inst>>[k])
  BY <1>1
<1> HIDE DEF h
<1> QED
  BY <1>2, <1>3 DEF Leaves, Heights

\* One more instruction.
LEMMA HeightsAdd ==
    ASSUME NEW c \in Seq(Insts), NEW fs, NEW h, Heights(c, fs, h), NEW inst \in Insts,
           Takes(inst, fs) \in 0 .. h[Len(c) + 1]
    PROVE  \E g : /\ Heights(Append(c, inst), fs, g)
                  /\ \A k \in 1 .. Len(c) + 1 : g[k] = h[k]
                  /\ g[Len(c) + 2] = h[Len(c) + 1] - Takes(inst, fs) + Gives(inst)
<1> DEFINE z == h[Len(c) + 1]
           y == z - Takes(inst, fs) + Gives(inst)
           g == [k \in 1 .. Len(c) + 2 |-> IF k = Len(c) + 2 THEN y ELSE h[k]]
           d == Append(c, inst)
<1>1. /\ Len(d) = Len(c) + 1 /\ d[Len(c) + 1] = inst /\ Len(c) \in Nat
      /\ \A k \in 1 .. Len(c) : d[k] = c[k]
  OBVIOUS
<1> HIDE DEF d
<1>2. z \in Nat /\ y \in Nat
  BY <1>1 DEF Heights, Gives
<1>3. g \in [1 .. Len(d) + 1 -> Nat] /\ g[1] = 0
  BY <1>1, <1>2 DEF Heights
<1>4. /\ \A k \in 1 .. Len(c) + 1 : g[k] = h[k]
      /\ g[Len(c) + 2] = y
  BY <1>1
<1> HIDE DEF g, y
<1>5. ASSUME NEW k \in 1 .. Len(d)
      PROVE  /\ Takes(d[k], fs) \in 0 .. g[k]
             /\ g[k + 1] = g[k] - Takes(d[k], fs) + Gives(d[k])
  <2>1. CASE k \in 1 .. Len(c)
    <3>1. g[k] = h[k] /\ g[k + 1] = h[k + 1] /\ d[k] = c[k]
      BY <1>1, <1>4, <2>1
    <3> QED
      BY <2>1, <3>1 DEF Heights
  <2>2. CASE k = Len(c) + 1
    BY <1>1, <1>4, <2>2 DEF y
  <2> QED
    BY <1>1, <2>1, <2>2
<1>6. Heights(d, fs, g)
  BY <1>3, <1>5 DEF Heights
<1> QED
  BY <1>4, <1>6 DEF d, y

LEMMA LeavesAdd ==
    ASSUME NEW c \in Seq(Insts), NEW fs, NEW z, Leaves(c, fs, z), NEW inst \in Insts,
           Takes(inst, fs) \in 0 .. z
    PROVE  Leaves(Append(c, inst), fs, z - Takes(inst, fs) + Gives(inst))
<1>1. PICK h : Heights(c, fs, h) /\ h[Len(c) + 1] = z
  BY DEF Leaves
<1>2. PICK g : /\ Heights(Append(c, inst), fs, g)
               /\ g[Len(c) + 2] = h[Len(c) + 1] - Takes(inst, fs) + Gives(inst)
  BY <1>1, HeightsAdd
<1>3. Len(Append(c, inst)) + 1 = Len(c) + 2
  OBVIOUS
<1> QED
  BY <1>1, <1>2, <1>3 DEF Leaves

\* One piece of code after another: the second starts where the first ends.
LEMMA HeightsConcat ==
    ASSUME NEW c \in Seq(Insts), NEW d \in Seq(Insts), NEW fs,
           NEW f, Heights(c, fs, f), NEW g, Heights(d, fs, g)
    PROVE  \E h : /\ Heights(c \o d, fs, h)
                  /\ \A k \in 1 .. Len(c) + 1 : h[k] = f[k]
                  /\ \A k \in 1 .. Len(d) + 1 : h[Len(c) + k] = f[Len(c) + 1] + g[k]
<1> DEFINE h == [k \in 1 .. Len(c) + Len(d) + 1 |->
                    IF k <= Len(c) THEN f[k] ELSE f[Len(c) + 1] + g[k - Len(c)]]
           s == c \o d
<1>1. /\ Len(s) = Len(c) + Len(d) /\ Len(c) \in Nat /\ Len(d) \in Nat
      /\ \A k \in 1 .. Len(c) : s[k] = c[k]
      /\ \A k \in 1 .. Len(d) : s[Len(c) + k] = d[k]
  OBVIOUS
<1> HIDE DEF s
<1>2. /\ \A k \in 1 .. Len(c) + 1 : f[k] \in Nat
      /\ \A k \in 1 .. Len(d) + 1 : g[k] \in Nat
      /\ f[1] = 0 /\ g[1] = 0
  BY <1>1 DEF Heights
<1>3. /\ \A k \in 1 .. Len(c) + 1 : h[k] = f[k]
      /\ \A k \in 1 .. Len(d) + 1 : h[Len(c) + k] = f[Len(c) + 1] + g[k]
  BY SMTT(60), <1>1, <1>2
<1>4. DOMAIN h = 1 .. Len(s) + 1 /\ h = [k \in DOMAIN h |-> h[k]]
  BY <1>1
<1> HIDE DEF h
<1>5. h \in [1 .. Len(s) + 1 -> Nat] /\ h[1] = 0
  <2>1. \A k \in 1 .. Len(s) + 1 : h[k] \in Nat
    <3> TAKE k \in 1 .. Len(s) + 1
    <3>1. CASE k <= Len(c)
      <4>1. k \in 1 .. Len(c) + 1
        BY <1>1, <3>1
      <4> QED
        BY <1>2, <1>3, <4>1
    <3>2. CASE k > Len(c)
      <4>1. k - Len(c) \in 1 .. Len(d) + 1 /\ k = Len(c) + (k - Len(c))
        BY <1>1, <3>2
      <4>2. h[k] = f[Len(c) + 1] + g[k - Len(c)]
        BY <1>3, <4>1
      <4> QED
        BY SMTT(60), <1>1, <1>2, <4>1, <4>2
    <3> QED
      BY <1>1, <3>1, <3>2
  <2> QED
    BY SMTT(60), <1>1, <1>2, <1>3, <1>4, <2>1
<1>6. ASSUME NEW k \in 1 .. Len(s)
      PROVE  /\ Takes(s[k], fs) \in 0 .. h[k]
             /\ h[k + 1] = h[k] - Takes(s[k], fs) + Gives(s[k])
  <2>1. CASE k \in 1 .. Len(c)
    <3>1. k \in 1 .. Len(c) + 1 /\ k + 1 \in 1 .. Len(c) + 1
      BY <1>1, <2>1
    <3>2. h[k] = f[k] /\ h[k + 1] = f[k + 1] /\ s[k] = c[k]
      BY <1>1, <1>3, <2>1, <3>1
    <3> QED
      BY <2>1, <3>2 DEF Heights
  <2>2. CASE k \notin 1 .. Len(c)
    <3> DEFINE j == k - Len(c)
    <3>1. j \in 1 .. Len(d) /\ j + 1 \in 1 .. Len(d) + 1 /\ k = Len(c) + j /\ k + 1 = Len(c) + (j + 1)
      BY <1>1, <2>2
    <3> HIDE DEF j
    <3>2. h[k] = f[Len(c) + 1] + g[j] /\ h[k + 1] = f[Len(c) + 1] + g[j + 1] /\ s[k] = d[j]
      BY SMTT(60), <1>1, <1>3, <3>1
    <3>3. /\ Takes(d[j], fs) \in 0 .. g[j]
          /\ g[j + 1] = g[j] - Takes(d[j], fs) + Gives(d[j])
      BY <3>1 DEF Heights
    <3>4. f[Len(c) + 1] \in Nat /\ g[j] \in Nat /\ Gives(d[j]) \in Nat
      BY SMTT(60), <1>1, <1>2, <3>1 DEF Gives
    <3> QED
      BY SMTT(60), <3>2, <3>3, <3>4
  <2> QED
    BY <2>1, <2>2
<1>7. Heights(s, fs, h)
  BY <1>5, <1>6 DEF Heights
<1> QED
  BY <1>3, <1>7 DEF s

LEMMA LeavesConcat ==
    ASSUME NEW c \in Seq(Insts), NEW d \in Seq(Insts), NEW fs,
           NEW y, Leaves(c, fs, y), NEW z, Leaves(d, fs, z)
    PROVE  Leaves(c \o d, fs, y + z)
<1>1. PICK f : Heights(c, fs, f) /\ f[Len(c) + 1] = y
  BY DEF Leaves
<1>2. PICK g : Heights(d, fs, g) /\ g[Len(d) + 1] = z
  BY DEF Leaves
<1>3. PICK h : /\ Heights(c \o d, fs, h)
               /\ \A k \in 1 .. Len(d) + 1 : h[Len(c) + k] = f[Len(c) + 1] + g[k]
  BY <1>1, <1>2, HeightsConcat
<1>4. /\ Len(d) + 1 \in 1 .. Len(d) + 1
      /\ Len(c \o d) + 1 = Len(c) + (Len(d) + 1)
  OBVIOUS
<1>5. h[Len(c \o d) + 1] = y + z
  BY <1>1, <1>2, <1>3, <1>4
<1> QED
  BY <1>3, <1>5 DEF Leaves

\* What the recursive function in FlattenSeq computes.
LEMMA FlattenFacts ==
    ASSUME NEW s, Len(s) \in Nat
    PROVE  /\ Len(s) = 0 => FlattenSeq(s) = s
           /\ Len(s) > 0 => \E f : /\ FlattenSeq(s) = f[Len(s)] /\ f[1] = s[1]
                                   /\ \A i \in 2 .. Len(s) : f[i] = f[i - 1] \o s[i]
<1> DEFINE Next(f, i) == IF i = 1 THEN s[i] ELSE f[i - 1] \o s[i]
           Upto(n)    == \E f : f = [i \in 1 .. n |-> Next(f, i)]
           T          == {n \in Nat : Upto(n)}
           N          == Len(s)
<1>1. 0 \in T
  <2> DEFINE f == [i \in 1 .. 0 |-> {}]
  <2>1. f = [i \in 1 .. 0 |-> Next(f, i)]
    OBVIOUS
  <2> QED
    BY <2>1
<1>2. ASSUME NEW n \in Nat, n \in T PROVE n + 1 \in T
  <2>1. PICK f : f = [i \in 1 .. n |-> Next(f, i)]
    BY <1>2
  <2> DEFINE g == [i \in 1 .. (n + 1) |-> Next(f, i)]
  <2>2. \A i \in 1 .. n : g[i] = f[i]
    <3> TAKE i \in 1 .. n
    <3>1. f[i] = Next(f, i)
      BY <2>1
    <3> QED
      BY <3>1
  <2>3. \A i \in 1 .. (n + 1) : Next(f, i) = Next(g, i)
    <3> TAKE i \in 1 .. (n + 1)
    <3>1. i # 1 => i - 1 \in 1 .. n
      BY <1>2
    <3> HIDE DEF g
    <3> QED
      BY <2>2, <3>1
  <2>4. g = [i \in 1 .. (n + 1) |-> Next(g, i)]
    <3> HIDE DEF Next
    <3>1. g = [i \in 1 .. (n + 1) |-> Next(f, i)]
      OBVIOUS
    <3> HIDE DEF g
    <3> QED
      BY <2>3, <3>1
  <2> HIDE DEF g
  <2>5. Upto(n + 1)
    <3> HIDE DEF Next
    <3> QED
      BY <2>4
  <2> HIDE DEF Upto
  <2> QED
    BY <1>2, <2>5
<1>3. N \in T
  <2>1. \A k \in 0 .. (N - 1) : k \in T => k + 1 \in T
    <3> HIDE DEF T
    <3> QED
      BY <1>2
  <2> HIDE DEF T, N
  <2>2. N \in Nat
    BY DEF N
  <2>3. \A k \in 0 .. N : k \in T
    BY <1>1, <2>1, <2>2, Climb, ZenonT(150)
  <2> QED
    BY <2>2, <2>3
<1> DEFINE flatten == CHOOSE f : f = [i \in 1 .. N |-> Next(f, i)]
<1>4. flatten = [i \in 1 .. N |-> Next(flatten, i)]
  BY <1>3
<1>5. N > 0 => FlattenSeq(s) = flatten[N]
  BY DEF FlattenSeq
<1>6. N = 0 => FlattenSeq(s) = s
  BY DEF FlattenSeq
<1> HIDE DEF flatten
<1>7. ASSUME N > 0
      PROVE  /\ FlattenSeq(s) = flatten[N] /\ flatten[1] = s[1]
             /\ \A i \in 2 .. N : flatten[i] = flatten[i - 1] \o s[i]
  <2>1. flatten[1] = s[1]
    BY <1>4, <1>7
  <2>2. ASSUME NEW i \in 2 .. N PROVE flatten[i] = flatten[i - 1] \o s[i]
    <3>1. i \in 1 .. N /\ i # 1
      OBVIOUS
    <3>2. flatten[i] = Next(flatten, i)
      BY <1>4, <3>1
    <3> QED
      BY <3>1, <3>2
  <2> QED
    BY <1>5, <1>7, <2>1, <2>2
<1> QED
  BY <1>6, <1>7

\* Pieces of code each of which leaves one value leave as many as they are.
LEMMA LeavesFlatten ==
    ASSUME NEW X \in SUBSET Insts, NEW s \in Seq(Seq(X)), NEW fs,
           \A k \in 1 .. Len(s) : Leaves(s[k], fs, 1)
    PROVE  FlattenSeq(s) \in Seq(X) /\ Leaves(FlattenSeq(s), fs, Len(s))
<1>1. Len(s) \in Nat
  OBVIOUS
<1>2. CASE Len(s) = 0
  <2>1. FlattenSeq(s) = s
    BY <1>1, <1>2, FlattenFacts
  <2>5. s = <<>>
    BY <1>2, EmptySeq
  <2> DEFINE h == [k \in 1 .. 1 |-> 0]
  <2>2. Heights(<<>>, fs, h)
    BY DEF Heights
  <2>3. h[Len(<<>>) + 1] = 0
    OBVIOUS
  <2>4. Leaves(<<>>, fs, 0)
    BY <2>2, <2>3 DEF Leaves
  <2>6. <<>> \in Seq(X)
    OBVIOUS
  <2> HIDE DEF h
  <2>7. FlattenSeq(s) = <<>> /\ Len(s) = 0
    BY <1>2, <2>1, <2>5
  <2> QED
    BY <2>4, <2>6, <2>7
<1>3. CASE Len(s) > 0
  <2>1. PICK f : /\ FlattenSeq(s) = f[Len(s)] /\ f[1] = s[1]
                 /\ \A i \in 2 .. Len(s) : f[i] = f[i - 1] \o s[i]
    BY <1>1, <1>3, FlattenFacts
  <2> DEFINE T == {k \in 0 .. (Len(s) - 1) : /\ f[k + 1] \in Seq(X)
                                             /\ Leaves(f[k + 1], fs, k + 1)}
  <2>2. 0 \in T
    BY <1>3, <2>1
  <2>3. ASSUME NEW k \in 0 .. (Len(s) - 1 - 1), k \in T PROVE k + 1 \in T
    <3>1. k + 2 \in 2 .. Len(s) /\ (k + 2) - 1 = k + 1 /\ k + 2 \in 1 .. Len(s)
      BY <1>1
    <3>2. f[k + 2] = f[k + 1] \o s[k + 2]
      BY <2>1, <3>1
    <3>3. f[k + 1] \in Seq(X) /\ s[k + 2] \in Seq(X)
      BY <2>3, <3>1
    <3>4. Leaves(f[k + 1], fs, k + 1) /\ Leaves(s[k + 2], fs, 1)
      BY <2>3, <3>1
    <3>5. f[k + 1] \in Seq(Insts) /\ s[k + 2] \in Seq(Insts)
      BY <3>3, SeqMonotonic
    <3>6. f[k + 1] \o s[k + 2] \in Seq(X)
      BY <3>3
    <3>7. Leaves(f[k + 1] \o s[k + 2], fs, (k + 1) + 1)
      BY <3>4, <3>5, LeavesConcat
    <3>8. (k + 1) + 1 = k + 2 /\ k + 1 \in 0 .. (Len(s) - 1)
      BY <1>1
    <3>9. f[(k + 1) + 1] \in Seq(X) /\ Leaves(f[(k + 1) + 1], fs, (k + 1) + 1)
      BY <3>2, <3>6, <3>7, <3>8
    <3> QED
      BY <3>8, <3>9
  <2>4. Len(s) - 1 \in T
    <3>1. Len(s) - 1 \in Nat
      BY <1>1, <1>3
    <3> HIDE DEF T
    <3>2. \A k \in 0 .. (Len(s) - 1 - 1) : k \in T => k + 1 \in T
      BY <2>3
    <3> DEFINE m == Len(s) - 1
    <3> HIDE DEF m
    <3>3. m \in Nat /\ \A k \in 0 .. (m - 1) : k \in T => k + 1 \in T
      BY <3>1, <3>2 DEF m
    <3>4. \A k \in 0 .. m : k \in T
      BY <2>2, <3>3, Climb, Zenon
    <3>5. m \in 0 .. m
      BY <3>3
    <3> QED
      BY <3>4, <3>5 DEF m
  <2> QED
    BY <1>1, <2>1, <2>4
<1> QED
  BY <1>1, <1>2, <1>3

-----------------------------------------------------------------------------
(***************************************************************************)
(* The code of an expression leaves its value.                             *)
(***************************************************************************)

\* What visitPart makes of each kind of expression.
LEMMA NumCode ==
    ASSUME NEW e, e.k = "num", NEW code, NEW ps, NEW inFunction, NEW i
    PROVE  visitPart(e, code, ps, inFunction, i) =
               <<Inst("LI", i)>>
BY Zenon DEF visitPart

LEMMA IdCode ==
    ASSUME NEW e, e.k = "id", NEW code, NEW ps, NEW inFunction, NEW i
    PROVE  visitPart(e, code, ps, inFunction, i) =
               visitIdentExp(e.n, ps, inFunction, i)
BY Zenon DEF visitPart

LEMMA UnaryCode ==
    ASSUME NEW e, e.k = "unary", NEW code, NEW ps, NEW inFunction, NEW i
    PROVE  visitPart(e, code, ps, inFunction, i) =
               Append(code[e.e], Indexed("OPR", 1, i))
BY Zenon DEF visitPart

LEMMA BinaryCode ==
    ASSUME NEW e, e.k = "binary", NEW code, NEW ps, NEW inFunction, NEW i
    PROVE  visitPart(e, code, ps, inFunction, i) =
               code[e.l] \o code[e.r] \o <<Indexed("OPR", 2, i)>>
BY Zenon DEF visitPart

LEMMA CallCode ==
    ASSUME NEW e, e.k = "call", NEW code, NEW ps, NEW inFunction, NEW i
    PROVE  visitPart(e, code, ps, inFunction, i) =
               FlattenSeq([k \in DOMAIN e.args |-> code[e.args[k]]])
                   \o <<Named("CALL", e.n, i)>>
BY Zenon DEF visitPart

\* It depends on the code of the children alone.
LEMMA PartLocal ==
    ASSUME NEW S, NEW x, Node(x, S), x # Bad, NEW f, NEW g,
           \A y \in Children(x) : f[y] = g[y],
           NEW ps, NEW inFunction, NEW i
    PROVE  visitPart(x, f, ps, inFunction, i) = visitPart(x, g, ps, inFunction, i)
<1>1. CASE x.k = "num"
  BY <1>1, NumCode
<1>2. CASE x.k = "id"
  BY <1>2, IdCode
<1>3. CASE x.k = "unary" /\ Children(x) = {x.e}
  <2>1. f[x.e] = g[x.e]
    BY <1>3
  <2> QED
    BY SMTT(60), <1>3, <2>1, UnaryCode
<1>4. CASE x.k = "binary" /\ Children(x) = {x.l, x.r}
  <2>1. f[x.l] = g[x.l] /\ f[x.r] = g[x.r]
    BY <1>4
  <2>2. visitPart(x, f, ps, inFunction, i) = f[x.l] \o f[x.r] \o <<Indexed("OPR", 2, i)>>
    BY <1>4, Zenon DEF visitPart
  <2>3. visitPart(x, g, ps, inFunction, i) = g[x.l] \o g[x.r] \o <<Indexed("OPR", 2, i)>>
    BY <1>4, Zenon DEF visitPart
  <2> QED
    BY <2>1, <2>2, <2>3, Zenon
<1>5. CASE x.k = "call" /\ Children(x) = RanOf(x.args)
  <2>1. \A k \in DOMAIN x.args : f[x.args[k]] = g[x.args[k]]
    BY <1>5 DEF RanOf
  <2> DEFINE Parts(h) == [k \in DOMAIN x.args |-> h[x.args[k]]]
             Made(h)  == FlattenSeq(Parts(h)) \o <<Named("CALL", x.n, i)>>
  <2>2. Parts(f) = Parts(g)
    BY <2>1
  <2>3. visitPart(x, f, ps, inFunction, i) = Made(f)
    BY <1>5, CallCode
  <2>4. visitPart(x, g, ps, inFunction, i) = Made(g)
    BY <1>5, CallCode
  <2> HIDE DEF Parts
  <2> QED
    BY <2>2, <2>3, <2>4
<1> QED
  BY <1>1, <1>2, <1>3, <1>4, <1>5, Kind

\* What the recursive function in visitExp computes.
LEMMA ExpCode ==
    ASSUME NEW e, Tree(e), Bad \notin SubExps(e), NEW ps, NEW inFunction, NEW i
    PROVE  \E code : /\ visitExp(e, ps, inFunction, i) = code[e]
                     /\ \A x \in SubExps(e) : code[x] = visitPart(x, code, ps, inFunction, i)
<1> DEFINE Part(f, x) == visitPart(x, f, ps, inFunction, i)
<1>1. PICK L \in [0 .. Depth -> SUBSET SubExps(e)] :
              /\ L[0] = {} /\ L[Depth] = SubExps(e)
              /\ \A n \in 0 .. (Depth - 1) : /\ L[n] \subseteq L[n + 1]
                                             /\ \A x \in L[n + 1] : Children(x) \subseteq L[n]
  BY Layers
<1> DEFINE On(n) == \E f : f = [x \in L[n] |-> Part(f, x)]
           T     == {n \in 0 .. Depth : On(n)}
<1>2. Depth \in Nat
  BY DepthAssumption
<1>3. 0 \in T
  <2> DEFINE f == [x \in {} |-> {}]
  <2>1. f = [x \in {} |-> Part(f, x)]
    OBVIOUS
  <2>2. On(0)
    BY <1>1, <2>1
  <2> HIDE DEF On
  <2> QED
    BY <1>2, <2>2
<1>4. ASSUME NEW n \in 0 .. (Depth - 1), n \in T PROVE n + 1 \in T
  <2>1. PICK f : f = [x \in L[n] |-> Part(f, x)]
    BY <1>4
  <2> DEFINE g == [x \in L[n + 1] |-> Part(f, x)]
  <2>2. L[n] \subseteq L[n + 1] /\ L[n + 1] \subseteq SubExps(e)
    BY <1>1, <1>2
  <2>3. \A x \in L[n] : g[x] = f[x]
    <3> TAKE x \in L[n]
    <3>1. f[x] = Part(f, x)
      BY <2>1
    <3> HIDE DEF Part
    <3> QED
      BY <2>2, <3>1
  <2>4. g = [x \in L[n + 1] |-> Part(f, x)]
    OBVIOUS
  <2> HIDE DEF g
  <2>5. ASSUME NEW x \in L[n + 1] PROVE Part(f, x) = Part(g, x)
    <3>1. Node(x, SubExps(e)) /\ x # Bad
      BY <2>2 DEF Tree
    <3>2. \A y \in Children(x) : f[y] = g[y]
      BY <1>1, <2>3
    <3> QED
      BY <3>1, <3>2, PartLocal
  <2> HIDE DEF Part
  <2>6. On(n + 1)
    BY <2>4, <2>5
  <2> HIDE DEF On
  <2> QED
    BY <1>2, <2>6
<1>5. On(Depth)
  <2> HIDE DEF T
  <2>1. Depth \in T
    BY SMTT(60), <1>2, <1>3, <1>4, Climb
  <2> QED
    BY <2>1 DEF T
<1> DEFINE code == CHOOSE f : f = [x \in SubExps(e) |-> Part(f, x)]
<1>6. code = [x \in SubExps(e) |-> Part(code, x)]
  <2> HIDE DEF Part
  <2> QED
    BY <1>1, <1>5
<1>7. visitExp(e, ps, inFunction, i) = code[e]
  BY DEF visitExp
<1> HIDE DEF code
<1>8. \A x \in SubExps(e) : code[x] = Part(code, x)
  <2> HIDE DEF Part
  <2> QED
    BY <1>6
<1> QED
  BY <1>7, <1>8

\* The position of a parameter is one of the list's.
LEMMA IndexFacts ==
    ASSUME NEW ps, IsSeq(ps), NEW n \in RanOf(ps)
    PROVE  getIndexOf(ps, n) \in 1 .. Len(ps)
<1> DEFINE At == {k \in DOMAIN ps : ps[k] = n}
<1>1. DOMAIN ps = 1 .. Len(ps) /\ Len(ps) \in Nat
  BY SeqFacts
<1>2. PICK k \in At : \A j \in At : k <= j
  <2>1. At \subseteq Nat /\ At # {}
    BY <1>1 DEF RanOf
  <2> HIDE DEF At
  <2> QED
    BY <2>1, LeastNumber
<1>3. k \in DOMAIN ps /\ ps[k] = n /\ \A j \in 1 .. (k - 1) : ps[j] # n
  BY <1>1, <1>2
<1>4. getIndexOf(ps, n) \in DOMAIN ps
  BY <1>3, Zenon DEF getIndexOf
<1> QED
  BY <1>1, <1>4

\* The instructions of an expression of statement i.
ExpInsts(fs, ps, inFunction, i) ==
    {inst \in Insts : /\ inst.stmt = i
                      /\ inst.op \in {"LI", "LOAD", "ARG", "OPR", "CALL"}
                      /\ inst.op = "ARG" => inFunction /\ inst.ix \in 1 .. Len(ps)
                      /\ inst.op = "CALL" => inst.n \in Idents /\ fs[inst.n] \in Nat}

\* An identifier is a parameter, a call has as many arguments as the function
\* has parameters.
Fits(x, fs, ps, inFunction) ==
    /\ x.k = "id" /\ inFunction => x.n \in RanOf(ps)
    /\ x.k = "call" => fs[x.n] = Len(x.args)

LEMMA InstIs ==
    ASSUME NEW op \in Ops, NEW i \in Nat
    PROVE  Inst(op, i) \in Insts /\ Inst(op, i).op = op /\ Inst(op, i).stmt = i
BY DEF Inst, Insts

LEMMA NamedIs ==
    ASSUME NEW op \in Ops, NEW n \in Labels, NEW i \in Nat
    PROVE  /\ Named(op, n, i) \in Insts /\ Named(op, n, i).op = op
           /\ Named(op, n, i).n = n /\ Named(op, n, i).stmt = i
BY DEF Named, Insts

LEMMA IndexedIs ==
    ASSUME NEW op \in Ops, NEW k \in Nat, NEW i \in Nat
    PROVE  /\ Indexed(op, k, i) \in Insts /\ Indexed(op, k, i).op = op
           /\ Indexed(op, k, i).ix = k /\ Indexed(op, k, i).stmt = i
BY DEF Indexed, Insts

LEMMA ExpLeaves ==
    ASSUME NEW e, Tree(e), Bad \notin SubExps(e), NEW ps, IsSeq(ps),
           NEW inFunction \in BOOLEAN, NEW i \in Nat, NEW fs,
           \A x \in SubExps(e) : Fits(x, fs, ps, inFunction)
    PROVE  /\ visitExp(e, ps, inFunction, i) \in Seq(ExpInsts(fs, ps, inFunction, i))
           /\ Leaves(visitExp(e, ps, inFunction, i), fs, 1)
<1>1. PICK code : /\ visitExp(e, ps, inFunction, i) = code[e]
                  /\ \A x \in SubExps(e) : code[x] = visitPart(x, code, ps, inFunction, i)
  BY ExpCode
<1> DEFINE X == ExpInsts(fs, ps, inFunction, i)
           T == {x \in SubExps(e) : code[x] \in Seq(X) /\ Leaves(code[x], fs, 1)}
<1>2. X \in SUBSET Insts
  BY DEF ExpInsts
<1>3. ASSUME NEW x \in SubExps(e), Children(x) \subseteq T PROVE x \in T
  <2>1. Node(x, SubExps(e)) /\ x # Bad /\ Fits(x, fs, ps, inFunction)
    BY DEF Tree
  <2>2. code[x] = visitPart(x, code, ps, inFunction, i)
    BY <1>1
  <2> SUFFICES code[x] \in Seq(X) /\ Leaves(code[x], fs, 1)
    OBVIOUS
  <2>3. CASE x.k = "num"
    <3> DEFINE inst == Inst("LI", i)
    <3>1. code[x] = <<inst>>
      BY <2>2, <2>3, NumCode
    <3>2. inst \in Insts /\ inst.op = "LI" /\ inst.stmt = i
      BY InstIs DEF Ops
    <3> HIDE DEF inst
    <3>3. inst \in X /\ Takes(inst, fs) = 0 /\ Gives(inst) = 1
      BY <3>2 DEF ExpInsts, Takes, Gives, Popping1, Pushing
    <3> QED
      BY <1>2, <3>1, <3>3, LeavesOne
  <2>4. CASE x.k = "id" /\ x.n \in Idents
    <3> DEFINE inst == IF inFunction THEN Indexed("ARG", getIndexOf(ps, x.n), i)
                                     ELSE Named("LOAD", x.n, i)
    <3>1. inFunction => getIndexOf(ps, x.n) \in 1 .. Len(ps) /\ getIndexOf(ps, x.n) \in Nat /\ getIndexOf(ps, x.n) > 0
      BY <2>1, <2>4, IndexFacts DEF Fits
    <3>2. code[x] = <<inst>>
      BY <2>2, <2>4, <3>1, IdCode DEF visitIdentExp
    <3>3. x.n \in Labels
      BY <2>4 DEF Labels
    <3>4. CASE inFunction
      <4>1. /\ inst \in Insts /\ inst.op = "ARG" /\ inst.stmt = i
            /\ inst.ix = getIndexOf(ps, x.n)
        BY SMTT(60), <3>1, <3>4, IndexedIs DEF Ops
      <4> HIDE DEF inst
      <4>2. inst \in X /\ Takes(inst, fs) = 0 /\ Gives(inst) = 1
        BY <3>1, <3>4, <4>1 DEF ExpInsts, Takes, Gives, Popping1, Pushing
      <4> QED
        BY <1>2, <3>2, <4>2, LeavesOne
    <3>5. CASE ~inFunction
      <4>1. inst \in Insts /\ inst.op = "LOAD" /\ inst.stmt = i
        BY <3>3, <3>5, NamedIs DEF Ops
      <4> HIDE DEF inst
      <4>2. inst \in X /\ Takes(inst, fs) = 0 /\ Gives(inst) = 1
        BY <3>5, <4>1 DEF ExpInsts, Takes, Gives, Popping1, Pushing
      <4> QED
        BY <1>2, <3>2, <4>2, LeavesOne
    <3> QED
      BY <3>4, <3>5
  <2>5. CASE x.k = "unary" /\ Children(x) = {x.e}
    <3> DEFINE inst == Indexed("OPR", 1, i)
               c    == code[x.e]
    <3>1. code[x] = Append(c, inst)
      BY <2>2, <2>5, UnaryCode
    <3>2. c \in Seq(X) /\ Leaves(c, fs, 1)
      BY <1>3, <2>5
    <3>3. inst \in Insts /\ inst.op = "OPR" /\ inst.stmt = i /\ inst.ix = 1
      BY IndexedIs DEF Ops
    <3> HIDE DEF inst, c
    <3>4. inst \in X /\ Takes(inst, fs) = 1 /\ Gives(inst) = 1
      BY <3>3 DEF ExpInsts, Takes, Gives, Popping1, Pushing
    <3>5. c \in Seq(Insts)
      BY <1>2, <3>2, SeqMonotonic
    <3>6. Leaves(Append(c, inst), fs, 1 - 1 + 1)
      <4>1. Takes(inst, fs) \in 0 .. 1
        BY <3>4
      <4>2. Leaves(Append(c, inst), fs, 1 - Takes(inst, fs) + Gives(inst))
        BY <3>2, <3>3, <3>5, <4>1, LeavesAdd
      <4> QED
        BY <3>4, <4>2
    <3>7. Append(c, inst) \in Seq(X)
      BY <3>2, <3>4
    <3> QED
      BY <3>1, <3>6, <3>7
  <2>6. CASE x.k = "binary" /\ Children(x) = {x.l, x.r}
    <3> DEFINE inst == Indexed("OPR", 2, i)
               c    == code[x.l]
               d    == code[x.r]
    <3>1. code[x] = c \o d \o <<inst>>
      BY <2>2, <2>6, Zenon DEF visitPart
    <3>2. c \in Seq(X) /\ Leaves(c, fs, 1) /\ d \in Seq(X) /\ Leaves(d, fs, 1)
      BY <1>3, <2>6
    <3>3. inst \in Insts /\ inst.op = "OPR" /\ inst.stmt = i /\ inst.ix = 2
      BY IndexedIs DEF Ops
    <3> HIDE DEF inst, c, d
    <3>4. inst \in X /\ Takes(inst, fs) = 2 /\ Gives(inst) = 1
      BY <3>3 DEF ExpInsts, Takes, Gives, Popping1, Pushing
    <3>5. c \in Seq(Insts) /\ d \in Seq(Insts)
      BY <1>2, <3>2, SeqMonotonic
    <3>6. c \o d \in Seq(X) /\ c \o d \in Seq(Insts) /\ c \o d \o <<inst>> = Append(c \o d, inst)
      BY <3>2, <3>3, <3>5, AppendIsConcat
    <3>7. Leaves(c \o d, fs, 1 + 1)
      BY <3>2, <3>5, LeavesConcat
    <3>8. Leaves(Append(c \o d, inst), fs, 2 - 2 + 1)
      <4>1. Takes(inst, fs) \in 0 .. 2 /\ 1 + 1 = 2
        BY <3>4
      <4>2. Leaves(Append(c \o d, inst), fs, 2 - Takes(inst, fs) + Gives(inst))
        BY <3>3, <3>6, <3>7, <4>1, LeavesAdd
      <4> QED
        BY <3>4, <4>2
    <3>9. Append(c \o d, inst) \in Seq(X)
      BY <3>4, <3>6
    <3>10. code[x] = Append(c \o d, inst)
      BY <3>1, <3>6
    <3> HIDE DEF X
    <3>11. code[x] \in Seq(X)
      BY <3>9, <3>10
    <3>12. Leaves(code[x], fs, 1)
      BY <3>8, <3>10
    <3> QED
      BY <3>11, <3>12
  <2>7. CASE x.k = "call" /\ x.n \in Idents /\ x.args \in Seq(SubExps(e))
             /\ Children(x) = RanOf(x.args)
    <3> DEFINE inst == Named("CALL", x.n, i)
               s    == [k \in DOMAIN x.args |-> code[x.args[k]]]
               c    == FlattenSeq(s)
    <3>1. code[x] = c \o <<inst>>
      BY <2>2, <2>7, CallCode
    <3>2. Len(x.args) \in Nat /\ DOMAIN x.args = 1 .. Len(x.args) /\ fs[x.n] = Len(x.args)
      BY <2>1, <2>7 DEF Fits
    <3>3. \A k \in 1 .. Len(x.args) : code[x.args[k]] \in Seq(X) /\ Leaves(code[x.args[k]], fs, 1)
      BY <1>3, <2>7, <3>2 DEF RanOf
    <3>4. s \in Seq(Seq(X)) /\ Len(s) = Len(x.args) /\ \A k \in 1 .. Len(s) : Leaves(s[k], fs, 1)
      BY <3>2, <3>3
    <3>5. x.n \in Labels
      BY <2>7 DEF Labels
    <3>6. inst \in Insts /\ inst.op = "CALL" /\ inst.stmt = i /\ inst.n = x.n
      BY <3>5, NamedIs DEF Ops
    <3> HIDE DEF inst, s
    <3>7. c \in Seq(X) /\ Leaves(c, fs, Len(x.args))
      BY <1>2, <3>4, LeavesFlatten
    <3> HIDE DEF c
    <3>8. inst \in X /\ Takes(inst, fs) = Len(x.args) /\ Gives(inst) = 1
      BY <2>7, <3>2, <3>6 DEF ExpInsts, Takes, Gives, Popping1, Pushing
    <3>9. c \in Seq(Insts) /\ c \o <<inst>> = Append(c, inst)
      BY <1>2, <3>6, <3>7, SeqMonotonic, AppendIsConcat
    <3>10. Leaves(Append(c, inst), fs, 1)
      <4>1. Takes(inst, fs) \in 0 .. Len(x.args)
            /\ Len(x.args) - Takes(inst, fs) + Gives(inst) = 1
        BY <3>2, <3>8
      <4>2. Leaves(Append(c, inst), fs, Len(x.args) - Takes(inst, fs) + Gives(inst))
        BY <3>6, <3>7, <3>9, <4>1, LeavesAdd
      <4> QED
        BY <4>1, <4>2
    <3>11. Append(c, inst) \in Seq(X)
      BY <3>7, <3>8
    <3> QED
      BY <3>1, <3>9, <3>10, <3>11
  <2> QED
    BY <2>1, <2>3, <2>4, <2>5, <2>6, <2>7, Kind
<1>4. SubExps(e) \subseteq T
  <2> HIDE DEF T
  <2> QED
    BY <1>3, PartsInduction
<1> QED
  BY <1>1, <1>4, Rooted

-----------------------------------------------------------------------------
(***************************************************************************)
(* The blocks.  In a function's, RET is the last instruction and the only  *)
(* one, and finds the result alone; in main's, nothing is left where one   *)
(* statement's instructions meet another's, nor at a jump.                 *)
(***************************************************************************)
CodeOk(c, fs) ==
    /\ c \in Seq(Insts)
    /\ \A k \in 1 .. Len(c) : c[k].op = "CALL" => c[k].n \in Idents /\ fs[c[k].n] \in Nat

FuncHeights(c, fs, cnt, h) ==
    /\ Heights(c, fs, h) /\ Len(c) >= 2 /\ h[Len(c)] = 1
    /\ \A k \in 1 .. Len(c) : /\ c[k].op = "RET" <=> k = Len(c)
                              /\ c[k].op \notin {"STORE", "WRITE", "JIT", "JUMP"}
                              /\ c[k].op = "ARG" => c[k].ix \in 1 .. cnt

MainHeights(c, fs, h) ==
    /\ Heights(c, fs, h) /\ h[Len(c) + 1] = 0
    /\ \A k \in 1 .. Len(c) : /\ c[k].op \notin {"RET", "ARG"}
                              /\ c[k].op \in {"JIT", "JUMP"} => h[k + 1] = 0
    /\ \A k \in 2 .. Len(c) : c[k - 1].stmt # c[k].stmt => h[k] = 0

JumpsTo(c, J) == \A k \in 1 .. Len(c) : c[k].op \in {"JIT", "JUMP"} => c[k].n \in J

FuncBlock(c, fs, cnt) == CodeOk(c, fs) /\ \E h : FuncHeights(c, fs, cnt, h)
MainBlock(c, fs, J)   == CodeOk(c, fs) /\ JumpsTo(c, J) /\ \E h : MainHeights(c, fs, h)

\* A function more changes nothing for code that calls others.
LEMMA HeightsLater ==
    ASSUME NEW c, NEW fs, CodeOk(c, fs),
           NEW gs, \A n \in Idents : fs[n] \in Nat => gs[n] = fs[n],
           NEW h, Heights(c, fs, h)
    PROVE  CodeOk(c, gs) /\ Heights(c, gs, h)
<1>1. CodeOk(c, gs)
  BY DEF CodeOk
<1>2. \A k \in 1 .. Len(c) : Takes(c[k], gs) = Takes(c[k], fs)
  BY DEF CodeOk, Takes
<1> QED
  BY <1>1, <1>2 DEF Heights

LEMMA FuncLater ==
    ASSUME NEW c, NEW fs, NEW cnt, FuncBlock(c, fs, cnt),
           NEW gs, \A n \in Idents : fs[n] \in Nat => gs[n] = fs[n]
    PROVE  FuncBlock(c, gs, cnt)
<1>1. CodeOk(c, fs)
  BY DEF FuncBlock
<1>2. PICK h : FuncHeights(c, fs, cnt, h)
  BY DEF FuncBlock
<1>3. CodeOk(c, gs) /\ Heights(c, gs, h)
  BY <1>1, <1>2, HeightsLater DEF FuncHeights
<1>4. FuncHeights(c, gs, cnt, h)
  BY <1>2, <1>3 DEF FuncHeights
<1> QED
  BY <1>3, <1>4 DEF FuncBlock

LEMMA MainLater ==
    ASSUME NEW c, NEW fs, NEW J, MainBlock(c, fs, J), NEW K, J \subseteq K,
           NEW gs, \A n \in Idents : fs[n] \in Nat => gs[n] = fs[n]
    PROVE  MainBlock(c, gs, K)
<1>1. CodeOk(c, fs) /\ JumpsTo(c, K)
  BY DEF MainBlock, JumpsTo
<1>2. PICK h : MainHeights(c, fs, h)
  BY DEF MainBlock
<1>3. CodeOk(c, gs) /\ Heights(c, gs, h)
  BY <1>1, <1>2, HeightsLater DEF MainHeights
<1>4. MainHeights(c, gs, h)
  BY <1>2, <1>3 DEF MainHeights
<1> QED
  BY <1>1, <1>3, <1>4 DEF MainBlock

\* insertInst: main's block goes on with the code of a statement.
LEMMA MainGoesOn ==
    ASSUME NEW fs, NEW J, NEW c, MainBlock(c, fs, J), NEW d, MainBlock(d, fs, J)
    PROVE  MainBlock(c \o d, fs, J)
<1> DEFINE s == c \o d
<1>1. c \in Seq(Insts) /\ d \in Seq(Insts)
  BY DEF MainBlock, CodeOk
<1>2. /\ Len(s) = Len(c) + Len(d) /\ Len(c) \in Nat /\ Len(d) \in Nat
      /\ \A k \in 1 .. Len(c) : s[k] = c[k]
      /\ \A k \in 1 .. Len(d) : s[Len(c) + k] = d[k]
      /\ s \in Seq(Insts)
  BY <1>1
<1>3. PICK f : MainHeights(c, fs, f)
  BY DEF MainBlock
<1>4. PICK g : MainHeights(d, fs, g)
  BY DEF MainBlock
<1>5. PICK h : /\ Heights(s, fs, h)
               /\ \A k \in 1 .. Len(c) + 1 : h[k] = f[k]
               /\ \A k \in 1 .. Len(d) + 1 : h[Len(c) + k] = f[Len(c) + 1] + g[k]
  <2>1. Heights(c, fs, f) /\ Heights(d, fs, g)
    BY <1>3, <1>4 DEF MainHeights
  <2> QED
    BY <1>1, <2>1, HeightsConcat
<1> HIDE DEF s
<1>6. f[Len(c) + 1] = 0 /\ \A k \in 1 .. Len(d) + 1 : g[k] \in Nat
  BY <1>3, <1>4 DEF MainHeights, Heights
<1>7. \A k \in 1 .. Len(d) + 1 : h[Len(c) + k] = g[k]
  BY <1>5, <1>6
<1>8. \A k \in 1 .. Len(s) : \/ k \in 1 .. Len(c) /\ s[k] = c[k] /\ h[k] = f[k] /\ h[k + 1] = f[k + 1]
                             \/ \E j \in 1 .. Len(d) : /\ k = Len(c) + j /\ s[k] = d[j]
                                                       /\ h[k] = g[j] /\ h[k + 1] = g[j + 1]
  <2> TAKE k \in 1 .. Len(s)
  <2>1. CASE k <= Len(c)
    <3>1. k \in 1 .. Len(c) /\ k \in 1 .. Len(c) + 1 /\ k + 1 \in 1 .. Len(c) + 1
      BY <1>2, <2>1
    <3> QED
      BY <1>2, <1>5, <3>1
  <2>2. CASE k > Len(c)
    <3> DEFINE j == k - Len(c)
    <3>1. /\ j \in 1 .. Len(d) /\ j \in 1 .. Len(d) + 1 /\ j + 1 \in 1 .. Len(d) + 1
          /\ k = Len(c) + j /\ k + 1 = Len(c) + (j + 1)
      BY <1>2, <2>2
    <3> HIDE DEF j
    <3> QED
      BY <1>2, <1>7, <3>1
  <2> QED
    BY <1>2, <2>1, <2>2
<1>9. CodeOk(s, fs) /\ JumpsTo(s, J)
  <2>1. \A k \in 1 .. Len(s) : \/ \E j \in 1 .. Len(c) : s[k] = c[j]
                               \/ \E j \in 1 .. Len(d) : s[k] = d[j]
    BY <1>8
  <2>2. /\ CodeOk(c, fs) /\ JumpsTo(c, J)
        /\ CodeOk(d, fs) /\ JumpsTo(d, J)
    BY DEF MainBlock
  <2>3. CodeOk(s, fs)
    <3>1. \A k \in 1 .. Len(s) : s[k].op = "CALL" => s[k].n \in Idents /\ fs[s[k].n] \in Nat
      BY SMTT(60), <2>1, <2>2 DEF CodeOk
    <3> QED
      BY <1>2, <3>1 DEF CodeOk
  <2>4. JumpsTo(s, J)
    BY <2>1, <2>2 DEF JumpsTo
  <2> QED
    BY <2>3, <2>4
<1>10. h[Len(s) + 1] = 0
  <2>1. Len(s) + 1 = Len(c) + (Len(d) + 1) /\ Len(d) + 1 \in 1 .. Len(d) + 1
    BY <1>2
  <2> QED
    BY <1>4, <1>7, <2>1 DEF MainHeights
<1>11. \A k \in 1 .. Len(s) : /\ s[k].op \notin {"RET", "ARG"}
                              /\ s[k].op \in {"JIT", "JUMP"} => h[k + 1] = 0
  BY <1>3, <1>4, <1>8 DEF MainHeights
<1>12. ASSUME NEW k \in 2 .. Len(s), s[k - 1].stmt # s[k].stmt PROVE h[k] = 0
  <2>1. CASE k <= Len(c)
    <3>1. k \in 2 .. Len(c) /\ k \in 1 .. Len(c) /\ k - 1 \in 1 .. Len(c) /\ k \in 1 .. Len(c) + 1
      BY <1>2, <2>1
    <3>2. s[k - 1] = c[k - 1] /\ s[k] = c[k] /\ h[k] = f[k]
      BY <1>2, <1>5, <3>1
    <3> QED
      BY <1>3, <1>12, <3>1, <3>2 DEF MainHeights
  <2>2. CASE k = Len(c) + 1
    <3>1. k \in 1 .. Len(c) + 1
      BY <1>2, <2>2
    <3> QED
      BY <1>5, <1>6, <2>2, <3>1
  <2>3. CASE k > Len(c) + 1
    <3> DEFINE j == k - Len(c)
    <3>1. /\ j \in 2 .. Len(d) /\ j \in 1 .. Len(d) /\ j - 1 \in 1 .. Len(d) /\ j \in 1 .. Len(d) + 1
          /\ k = Len(c) + j /\ k - 1 = Len(c) + (j - 1)
      BY <1>2, <2>3
    <3> HIDE DEF j
    <3>2. s[k - 1] = d[j - 1] /\ s[k] = d[j] /\ h[k] = g[j]
      BY <1>2, <1>7, <3>1
    <3> QED
      BY <1>4, <1>12, <3>1, <3>2 DEF MainHeights
  <2> QED
    BY <1>2, <2>1, <2>2, <2>3
<1>13. MainHeights(s, fs, h)
  BY <1>5, <1>10, <1>11, <1>12 DEF MainHeights
<1> QED
  BY <1>9, <1>13 DEF MainBlock, s

\* The code of a function: label, body, RET.
LEMMA FuncCode ==
    ASSUME NEW fs, NEW ps, NEW n \in Idents,
           NEW body \in Seq(ExpInsts(fs, ps, TRUE, 0)), Leaves(body, fs, 1)
    PROVE  FuncBlock(<<Named("LABEL", n, 0)>> \o body \o <<Inst("RET", 0)>>, fs, Len(ps))
<1> DEFINE label == Named("LABEL", n, 0)
           ret   == Inst("RET", 0)
           d     == <<label>> \o body
           c     == Append(d, ret)
<1>1. label \in Insts /\ label.op = "LABEL"
  <2>1. n \in Labels
    BY DEF Labels
  <2> QED
    BY <2>1, NamedIs DEF Ops
<1>2. ret \in Insts /\ ret.op = "RET"
  BY InstIs DEF Ops
<1> HIDE DEF label, ret
<1>3. body \in Seq(Insts)
  <2>1. ExpInsts(fs, ps, TRUE, 0) \subseteq Insts
    BY DEF ExpInsts
  <2> QED
    BY <2>1, SeqMonotonic
<1>4. /\ <<label>> \in Seq(Insts) /\ d \in Seq(Insts) /\ Len(d) = 1 + Len(body)
      /\ d[1] = label /\ \A k \in 1 .. Len(body) : d[1 + k] = body[k]
      /\ Len(body) \in Nat
  BY <1>1, <1>3
<1>5. \A k \in 1 .. Len(d) : d[k] = label \/ d[k] \in ExpInsts(fs, ps, TRUE, 0)
  <2> TAKE k \in 1 .. Len(d)
  <2>1. k = 1 \/ k - 1 \in 1 .. Len(body)
    BY <1>4
  <2>2. k - 1 \in 1 .. Len(body) => d[k] = body[k - 1]
    <3>1. k = 1 + (k - 1)
      BY <1>4
    <3> HIDE DEF d
    <3> QED
      BY <1>4, <3>1
  <2>3. \A j \in 1 .. Len(body) : body[j] \in ExpInsts(fs, ps, TRUE, 0)
    BY ElementOfSeq
  <2> HIDE DEF d
  <2> QED
    BY <1>4, <2>1, <2>2, <2>3
<1>6. Leaves(d, fs, 1)
  <2>1. Takes(label, fs) = 0 /\ Gives(label) = 0
    BY <1>1 DEF Takes, Gives, Popping1, Pushing
  <2>2. Leaves(<<label>>, fs, 0)
    BY <1>1, <2>1, LeavesOne
  <2>3. Leaves(d, fs, 0 + 1)
    BY <1>3, <1>4, <2>2, LeavesConcat
  <2> QED
    BY <2>3
<1>7. PICK h : Heights(d, fs, h) /\ h[Len(d) + 1] = 1
  BY <1>6 DEF Leaves
<1> HIDE DEF d
<1>8. /\ c \in Seq(Insts) /\ Len(c) = Len(d) + 1 /\ c[Len(c)] = ret
      /\ \A k \in 1 .. Len(d) : c[k] = d[k]
      /\ Len(d) \in Nat /\ Len(d) >= 1 /\ d \o <<ret>> = c
  BY <1>2, <1>4
<1>9. PICK g : Heights(c, fs, g) /\ g[Len(d) + 1] = 1
  <2>1. Takes(ret, fs) \in 0 .. h[Len(d) + 1]
    BY <1>2, <1>7 DEF Takes, Popping1
  <2>2. PICK g : Heights(c, fs, g) /\ \A k \in 1 .. Len(d) + 1 : g[k] = h[k]
    BY <1>2, <1>4, <1>7, <2>1, HeightsAdd
  <2> QED
    BY <1>7, <1>8, <2>2
<1> HIDE DEF c
<1>10. \A k \in 1 .. Len(c) : \/ k = Len(c) /\ c[k] = ret
                              \/ k # Len(c) /\ (c[k] = label \/ c[k] \in ExpInsts(fs, ps, TRUE, 0))
  <2> TAKE k \in 1 .. Len(c)
  <2>1. k = Len(c) \/ k \in 1 .. Len(d)
    BY <1>8
  <2> QED
    BY <1>5, <1>8, <2>1
<1>11. CodeOk(c, fs)
  BY <1>1, <1>2, <1>8, <1>10 DEF CodeOk, ExpInsts
<1>12. FuncHeights(c, fs, Len(ps), g)
  <2>1. \A k \in 1 .. Len(c) : /\ c[k].op = "RET" <=> k = Len(c)
                               /\ c[k].op \notin {"STORE", "WRITE", "JIT", "JUMP"}
                               /\ c[k].op = "ARG" => c[k].ix \in 1 .. Len(ps)
    BY <1>1, <1>2, <1>10 DEF ExpInsts
  <2> QED
    BY <1>8, <1>9, <2>1 DEF FuncHeights
<1>13. FuncBlock(c, fs, Len(ps))
  BY <1>11, <1>12 DEF FuncBlock
<1> QED
  BY <1>8, <1>13 DEF d, label, ret

\* The instructions of a statement before its last one.
StmtInsts(fs, i) ==
    {inst \in Insts : /\ inst.stmt = i
                      /\ inst.op \in {"LI", "LOAD", "READ", "OPR", "CALL"}
                      /\ inst.op = "CALL" => inst.n \in Idents /\ fs[inst.n] \in Nat}

\* A statement's code: what leaves values, and an instruction that takes them.
LEMMA StmtCode ==
    ASSUME NEW fs, NEW J, NEW i \in Nat, NEW body \in Seq(StmtInsts(fs, i)),
           NEW last \in Insts, last.stmt = i,
           last.op \in {"LABEL", "DEF", "STORE", "WRITE", "JIT", "JUMP"},
           last.op \in {"JIT", "JUMP"} => last.n \in J,
           Leaves(body, fs, Takes(last, fs))
    PROVE  MainBlock(body \o <<last>>, fs, J)
<1> DEFINE c == Append(body, last)
<1>1. body \in Seq(Insts)
  <2>1. StmtInsts(fs, i) \subseteq Insts
    BY DEF StmtInsts
  <2> QED
    BY <2>1, SeqMonotonic
<1>2. /\ c \in Seq(Insts) /\ Len(c) = Len(body) + 1 /\ c[Len(c)] = last
      /\ \A k \in 1 .. Len(body) : c[k] = body[k]
      /\ Len(body) \in Nat /\ body \o <<last>> = c
  BY <1>1
<1>3. \A k \in 1 .. Len(c) : \/ k = Len(c) /\ c[k] = last
                             \/ k # Len(c) /\ c[k] \in StmtInsts(fs, i)
  <2> TAKE k \in 1 .. Len(c)
  <2>1. k = Len(c) \/ k \in 1 .. Len(body)
    BY <1>2
  <2> QED
    BY <1>2, <2>1
<1>4. PICK h : Heights(body, fs, h) /\ h[Len(body) + 1] = Takes(last, fs)
  BY DEF Leaves
<1>5. Takes(last, fs) \in 0 .. 1 /\ Gives(last) = 0
  BY DEF Takes, Gives, Popping1, Pushing
<1>6. PICK g : Heights(c, fs, g) /\ g[Len(body) + 2] = 0
  <2>1. Takes(last, fs) \in 0 .. h[Len(body) + 1]
    BY <1>4, <1>5
  <2>2. PICK g : /\ Heights(c, fs, g)
                 /\ g[Len(body) + 2] = h[Len(body) + 1] - Takes(last, fs) + Gives(last)
    BY <1>1, <1>4, <2>1, HeightsAdd
  <2> QED
    BY <1>4, <1>5, <2>2
<1> HIDE DEF c
<1>7. CodeOk(c, fs) /\ JumpsTo(c, J)
  <2>1. CodeOk(c, fs)
    BY <1>2, <1>3 DEF CodeOk, StmtInsts
  <2>2. JumpsTo(c, J)
    BY <1>3 DEF JumpsTo, StmtInsts
  <2> QED
    BY <2>1, <2>2
<1>8. MainHeights(c, fs, g)
  <2>1. Len(c) + 1 = Len(body) + 2
    BY <1>2
  <2>2. \A k \in 1 .. Len(c) : c[k].op \notin {"RET", "ARG"} /\ c[k].stmt = i
    BY <1>3 DEF StmtInsts
  <2>3. \A k \in 1 .. Len(c) : c[k].op \in {"JIT", "JUMP"} => k = Len(c)
    BY <1>3 DEF StmtInsts
  <2>4. \A k \in 2 .. Len(c) : c[k - 1].stmt = c[k].stmt
    <3> TAKE k \in 2 .. Len(c)
    <3>1. k \in 1 .. Len(c) /\ k - 1 \in 1 .. Len(c)
      BY <1>2
    <3> QED
      BY <2>2, <3>1
  <2> QED
    BY <1>6, <2>1, <2>2, <2>3, <2>4 DEF MainHeights
<1>9. MainBlock(c, fs, J)
  BY <1>7, <1>8 DEF MainBlock
<1> QED
  BY <1>2, <1>9

-----------------------------------------------------------------------------
(***************************************************************************)
(* The module m of the program p.                                          *)
(***************************************************************************)
Targets(p) == {s.n : s \in {t \in RanOf(p.stmts) : t.k \in {"if", "to"}}}

SourceOk(p) ==
    /\ p = [funcs |-> p.funcs, decls |-> p.decls, stmts |-> p.stmts]
    /\ p.funcs \in Seq([n : Idents, params : Seq(Idents), e : Exps])
    /\ p.decls \in Seq(Idents)
    /\ IsSeq(p.stmts)
    /\ \A s \in RanOf(p.stmts) : s.k \in {"tag", "if", "to"} => s.n \in Idents

ModuleOk(m) == m \in [blocks : Seq(Seq(Insts)), variables : SUBSET Idents,
                      functions : [Idents -> Int], labels : [Labels -> Nat]]

\* Each function has its number of parameters and, under its name, its block;
\* the label of a tag leads to some block of main's.
NamesOk(m, p) ==
    /\ \A i, j \in 1 .. Len(p.funcs) : p.funcs[i].n = p.funcs[j].n => i = j
    /\ \A j \in 1 .. Len(p.funcs) : /\ m.functions[p.funcs[j].n] = Len(p.funcs[j].params)
                                    /\ m.labels[p.funcs[j].n] = j
    /\ \A n \in Idents : n \notin Defined(p) => /\ m.functions[n] = NoFunc
                                                /\ m.labels[n] \notin 1 .. Len(p.funcs)
    /\ \A n \in Labels : m.labels[n] <= Len(m.blocks)
    /\ \A s \in RanOf(p.stmts) : s.k = "tag" => m.labels[s.n] # NoBlock

BlocksOk(m, p) ==
    /\ Len(p.funcs) <= Len(m.blocks)
    /\ \A b \in 1 .. Len(m.blocks) :
          /\ b <= Len(p.funcs) => FuncBlock(m.blocks[b], m.functions, Len(p.funcs[b].params))
          /\ b > Len(p.funcs) => MainBlock(m.blocks[b], m.functions, Targets(p))

Matches(m, p) == SourceOk(p) /\ ModuleOk(m) /\ NamesOk(m, p) /\ BlocksOk(m, p)

LEMMA ParamFacts ==
    ASSUME NEW ps \in ParamLists
    PROVE  ps \in Seq(Idents) /\ IsSeq(ps) /\ Len(ps) \in Nat
<1>1. PICK k \in 0 .. MaxParams : ps \in [1 .. k -> Idents]
  BY DEF ParamLists
<1>2. k \in Nat
  BY PcodeAssumption
<1>3. ps \in Seq(Idents)
  BY <1>1, <1>2
<1> QED
  BY <1>3, SeqOwn

\* In a program that means something every expression fits.
LEMMA LegalFits ==
    ASSUME NEW p, NEW fs, NEW known, known \in 0 .. Len(p.funcs),
           \A j \in 1 .. known : fs[p.funcs[j].n] = Len(p.funcs[j].params),
           NEW e, NEW variables, WellFormed(e, variables, p, known),
           NEW ps, NEW inFunction \in BOOLEAN, inFunction => variables = RanOf(ps)
    PROVE  \A x \in SubExps(e) : Fits(x, fs, ps, inFunction)
BY DEF WellFormed, Fits

\* createBlock and addLabel.
LEMMA LabelledFacts ==
    ASSUME NEW m, ModuleOk(m), NEW label \in Labels, NEW insts \in Seq(Insts)
    PROVE  LET r == NewLabelled(m, label, insts)
           IN  /\ ModuleOk(r) /\ r.functions = m.functions /\ r.variables = m.variables
               /\ Len(r.blocks) = Len(m.blocks) + 1 /\ Len(m.blocks) \in Nat
               /\ r.blocks[Len(m.blocks) + 1] = insts
               /\ \A b \in 1 .. Len(m.blocks) : r.blocks[b] = m.blocks[b]
               /\ r.labels[label] = IF m.labels[label] = NoBlock THEN Len(m.blocks) + 1
                                    ELSE m.labels[label]
               /\ \A n \in Labels : n # label => r.labels[n] = m.labels[n]
<1> DEFINE to == IF m.labels[label] = NoBlock THEN Len(m.blocks) + 1 ELSE m.labels[label]
           r  == NewLabelled(m, label, insts)
           bs == Append(m.blocks, insts)
           ls == [m.labels EXCEPT ![label] = to]
<1>1. m.blocks \in Seq(Seq(Insts)) /\ m.labels \in [Labels -> Nat] /\ m.functions \in [Idents -> Int]
      /\ m.variables \in SUBSET Idents /\ Len(m.blocks) \in Nat
      /\ DOMAIN m = {"blocks", "variables", "functions", "labels"}
  BY DEF ModuleOk
<1>2. r = [m EXCEPT !.blocks = bs, !.labels = ls]
  BY DEF NewLabelled
<1>3. to \in Nat
  BY <1>1
<1> HIDE DEF to
<1>4. ls \in [Labels -> Nat] /\ ls[label] = to /\ \A n \in Labels : n # label => ls[n] = m.labels[n]
  BY <1>1, <1>3
<1>5. bs \in Seq(Seq(Insts)) /\ Len(bs) = Len(m.blocks) + 1 /\ bs[Len(m.blocks) + 1] = insts
      /\ \A b \in 1 .. Len(m.blocks) : bs[b] = m.blocks[b]
  BY <1>1
<1> HIDE DEF r, bs, ls
<1>6. r = [blocks |-> bs, variables |-> m.variables, functions |-> m.functions, labels |-> ls]
  BY <1>2 DEF ModuleOk
<1>7. ModuleOk(r) /\ r.blocks = bs /\ r.labels = ls /\ r.functions = m.functions /\ r.variables = m.variables
  BY <1>1, <1>4, <1>5, <1>6 DEF ModuleOk
<1> QED
  BY <1>1, <1>4, <1>5, <1>7 DEF r, to

LEMMA InsertFacts ==
    ASSUME NEW m, ModuleOk(m), Len(m.blocks) > 0, NEW insts \in Seq(Insts)
    PROVE  LET r == insertInst(m, insts)
               l == Len(m.blocks)
           IN  /\ ModuleOk(r) /\ r.functions = m.functions /\ r.variables = m.variables
               /\ r.labels = m.labels
               /\ Len(r.blocks) = l /\ r.blocks[l] = m.blocks[l] \o insts
               /\ \A b \in 1 .. l : b # l => r.blocks[b] = m.blocks[b]
<1> DEFINE l  == Len(m.blocks)
           r  == insertInst(m, insts)
           bs == [m.blocks EXCEPT ![l] = m.blocks[l] \o insts]
<1>1. m.blocks \in Seq(Seq(Insts)) /\ m.labels \in [Labels -> Nat] /\ m.functions \in [Idents -> Int]
      /\ m.variables \in SUBSET Idents /\ l \in Nat /\ l \in 1 .. l
  BY DEF ModuleOk
<1>2. r = [m EXCEPT !.blocks = bs]
  BY DEF insertInst
<1>3. m.blocks[l] \in Seq(Insts)
  BY <1>1
<1>4. m.blocks[l] \o insts \in Seq(Insts)
  BY <1>3
<1>5. bs \in Seq(Seq(Insts)) /\ Len(bs) = l /\ bs[l] = m.blocks[l] \o insts
      /\ \A b \in 1 .. l : b # l => bs[b] = m.blocks[b]
  BY SMTT(60), <1>1, <1>4
<1> HIDE DEF r, bs
<1>6. r = [blocks |-> bs, variables |-> m.variables, functions |-> m.functions, labels |-> m.labels]
  BY <1>2 DEF ModuleOk
<1>7. ModuleOk(r) /\ r.blocks = bs /\ r.labels = m.labels /\ r.functions = m.functions
      /\ r.variables = m.variables
  BY <1>1, <1>5, <1>6 DEF ModuleOk
<1> QED
  BY <1>5, <1>7 DEF r

LEMMA NamesKnown ==
    ASSUME NEW p, SourceOk(p)
    PROVE  /\ DOMAIN p.funcs = 1 .. Len(p.funcs) /\ Len(p.funcs) \in Nat
           /\ \A j \in 1 .. Len(p.funcs) : p.funcs[j].n \in Idents /\ p.funcs[j].n \in Defined(p)
           /\ \A n \in Defined(p) : \E j \in 1 .. Len(p.funcs) : n = p.funcs[j].n
<1>1. /\ p.funcs \in Seq([n : Idents, params : Seq(Idents), e : Exps])
      /\ DOMAIN p.funcs = 1 .. Len(p.funcs) /\ Len(p.funcs) \in Nat
  BY DEF SourceOk
<1>2. \A j \in 1 .. Len(p.funcs) : p.funcs[j] \in [n : Idents, params : Seq(Idents), e : Exps]
  BY <1>1, ElementOfSeq
<1>3. \A j \in 1 .. Len(p.funcs) : p.funcs[j].n \in Defined(p)
  BY <1>1 DEF Defined, RanOf
<1>4. \A n \in Defined(p) : \E j \in 1 .. Len(p.funcs) : n = p.funcs[j].n
  BY <1>1 DEF Defined, RanOf
<1> QED
  BY <1>1, <1>2, <1>3, <1>4

\* A statement more in the program.
WithStmt(p, s) == [p EXCEPT !.stmts = Append(@, s)]

LEMMA StmtLater ==
    ASSUME NEW m, NEW p, Matches(m, p), NEW s, s.k \in {"tag", "if", "to"} => s.n \in Idents,
           s.k = "tag" => m.labels[s.n] # NoBlock
    PROVE  /\ Matches(m, WithStmt(p, s)) /\ WithStmt(p, s).funcs = p.funcs
           /\ s.k \in {"if", "to"} => s.n \in Targets(WithStmt(p, s))
           /\ RanOf(WithStmt(p, s).stmts) = RanOf(p.stmts) \cup {s}
<1> DEFINE ss == Append(p.stmts, s)
           q  == WithStmt(p, s)
<1>1. /\ p = [funcs |-> p.funcs, decls |-> p.decls, stmts |-> p.stmts] /\ IsSeq(p.stmts)
      /\ Len(p.funcs) \in Nat
  BY DEF Matches, SourceOk
<1>2. IsSeq(ss) /\ RanOf(ss) = RanOf(p.stmts) \cup {s}
  BY <1>1, AppendRange
<1> HIDE DEF ss
<1>3. q = [funcs |-> p.funcs, decls |-> p.decls, stmts |-> ss]
  BY SMTT(60), <1>1 DEF WithStmt, ss
<1>4. q.funcs = p.funcs /\ q.decls = p.decls /\ q.stmts = ss
  BY <1>3
<1>5. q = [funcs |-> q.funcs, decls |-> q.decls, stmts |-> q.stmts]
  BY <1>3, <1>4
<1> HIDE DEF q
<1>6. SourceOk(q)
  BY <1>2, <1>4, <1>5 DEF Matches, SourceOk
<1>7. Defined(q) = Defined(p)
  BY <1>4 DEF Defined
<1>8. NamesOk(m, q)
  <2>1. NamesOk(m, p)
    BY DEF Matches
  <2>2. \A t \in RanOf(q.stmts) : t.k = "tag" => m.labels[t.n] # NoBlock
    BY <1>2, <1>4, <2>1 DEF NamesOk
  <2> QED
    BY <1>4, <1>7, <2>1, <2>2 DEF NamesOk
<1>9. Targets(p) \subseteq Targets(q)
  BY <1>2, <1>4 DEF Targets
<1>10. BlocksOk(m, q)
  <2>1. BlocksOk(m, p) /\ ModuleOk(m)
    BY DEF Matches
  <2>2. ASSUME NEW b \in 1 .. Len(m.blocks), b > Len(q.funcs)
        PROVE  MainBlock(m.blocks[b], m.functions, Targets(q))
    <3>1. MainBlock(m.blocks[b], m.functions, Targets(p))
      BY <1>4, <2>1, <2>2 DEF BlocksOk
    <3> QED
      BY <1>9, <3>1, MainLater
  <2> QED
    BY <1>4, <2>1, <2>2 DEF BlocksOk
<1>11. s.k \in {"if", "to"} => s.n \in Targets(q)
  BY <1>2, <1>4 DEF Targets
<1>12. Matches(m, q)
  BY <1>6, <1>8, <1>10 DEF Matches
<1> QED
  BY <1>2, <1>4, <1>11, <1>12 DEF q, ss

\* More instructions at the end of main.
LEMMA InsertLater ==
    ASSUME NEW m, NEW p, Matches(m, p), Len(m.blocks) > Len(p.funcs),
           NEW insts, MainBlock(insts, m.functions, Targets(p))
    PROVE  LET r == insertInst(m, insts)
           IN  Matches(r, p) /\ Len(r.blocks) = Len(m.blocks)
<1> DEFINE r == insertInst(m, insts)
           l == Len(m.blocks)
<1>1. SourceOk(p) /\ ModuleOk(m) /\ NamesOk(m, p) /\ BlocksOk(m, p)
  BY DEF Matches
<1>2. Len(p.funcs) \in Nat /\ l \in Nat /\ l > 0 /\ l \in 1 .. l
  BY <1>1 DEF SourceOk, ModuleOk
<1>3. insts \in Seq(Insts)
  BY DEF MainBlock, CodeOk
<1>4. /\ ModuleOk(r) /\ r.functions = m.functions /\ r.labels = m.labels
      /\ Len(r.blocks) = l /\ r.blocks[l] = m.blocks[l] \o insts
      /\ \A b \in 1 .. l : b # l => r.blocks[b] = m.blocks[b]
  BY <1>1, <1>2, <1>3, InsertFacts
<1> HIDE DEF r
<1>5. NamesOk(r, p)
  BY <1>1, <1>4 DEF NamesOk
<1>6. BlocksOk(r, p)
  <2>1. MainBlock(r.blocks[l], r.functions, Targets(p))
    <3>1. MainBlock(m.blocks[l], m.functions, Targets(p))
      BY <1>1, <1>2 DEF BlocksOk
    <3> QED
      BY <1>4, <3>1, MainGoesOn
  <2>2. \A b \in 1 .. Len(r.blocks) :
            /\ b <= Len(p.funcs) => FuncBlock(r.blocks[b], r.functions, Len(p.funcs[b].params))
            /\ b > Len(p.funcs) => MainBlock(r.blocks[b], r.functions, Targets(p))
    <3> TAKE b \in 1 .. Len(r.blocks)
    <3>1. CASE b # l
      BY <1>1, <1>4, <3>1 DEF BlocksOk
    <3>2. CASE b = l
      BY <1>2, <2>1, <3>2
    <3> QED
      BY <3>1, <3>2
  <2> QED
    BY <1>2, <1>4, <2>2 DEF BlocksOk
<1> QED
  BY <1>1, <1>4, <1>5, <1>6 DEF Matches, r

\* A block more, labelled with no function's name.
LEMMA BlockLater ==
    ASSUME NEW m, NEW p, Matches(m, p), NEW label \in Labels, label \notin Defined(p),
           NEW insts, MainBlock(insts, m.functions, Targets(p))
    PROVE  LET r == NewLabelled(m, label, insts)
           IN  /\ Matches(r, p) /\ Len(r.blocks) = Len(m.blocks) + 1
               /\ r.labels[label] # NoBlock
<1> DEFINE r == NewLabelled(m, label, insts)
           l == Len(m.blocks)
<1>1. SourceOk(p) /\ ModuleOk(m) /\ NamesOk(m, p) /\ BlocksOk(m, p)
  BY DEF Matches
<1>2. Len(p.funcs) \in Nat /\ l \in Nat /\ DOMAIN p.funcs = 1 .. Len(p.funcs) /\ Len(p.funcs) <= l
  BY <1>1 DEF SourceOk, ModuleOk, BlocksOk
<1>3. insts \in Seq(Insts)
  BY DEF MainBlock, CodeOk
<1>4. /\ ModuleOk(r) /\ r.functions = m.functions
      /\ Len(r.blocks) = l + 1 /\ r.blocks[l + 1] = insts
      /\ \A b \in 1 .. l : r.blocks[b] = m.blocks[b]
      /\ r.labels[label] = IF m.labels[label] = NoBlock THEN l + 1 ELSE m.labels[label]
      /\ \A n \in Labels : n # label => r.labels[n] = m.labels[n]
  BY <1>1, <1>3, LabelledFacts
<1> HIDE DEF r
<1>5. /\ \A n \in Labels : r.labels[n] \in {m.labels[n], l + 1}
      /\ \A n \in Labels : m.labels[n] # NoBlock => r.labels[n] = m.labels[n]
      /\ r.labels[label] # NoBlock
  BY <1>2, <1>4 DEF NoBlock
<1>6. NamesOk(r, p)
  <2>1. Idents \subseteq Labels
    BY DEF Labels
  <2>2. \A j \in 1 .. Len(p.funcs) : p.funcs[j].n \in Idents /\ p.funcs[j].n \in Defined(p)
    BY <1>1, NamesKnown
  <2>3. \A j \in 1 .. Len(p.funcs) : /\ r.functions[p.funcs[j].n] = Len(p.funcs[j].params)
                                     /\ r.labels[p.funcs[j].n] = j
    BY ZenonT(60), <1>1, <1>4, <2>1, <2>2 DEF NamesOk
  <2>4. \A n \in Idents : n \notin Defined(p) => /\ r.functions[n] = NoFunc
                                                 /\ r.labels[n] \notin 1 .. Len(p.funcs)
    <3> TAKE n \in Idents
    <3> HAVE n \notin Defined(p)
    <3>1. m.functions[n] = NoFunc /\ m.labels[n] \notin 1 .. Len(p.funcs)
      BY <1>1 DEF NamesOk
    <3>2. r.labels[n] \in {m.labels[n], l + 1}
      BY <1>5, <2>1
    <3> QED
      BY <1>2, <1>4, <3>1, <3>2
  <2>5. \A n \in Labels : r.labels[n] <= Len(r.blocks)
    <3> TAKE n \in Labels
    <3>1. m.labels[n] <= l /\ m.labels[n] \in Nat
      BY <1>1 DEF NamesOk, ModuleOk
    <3>2. r.labels[n] \in {m.labels[n], l + 1}
      BY <1>5
    <3> QED
      BY <1>2, <1>4, <3>1, <3>2
  <2>6. \A s \in RanOf(p.stmts) : s.k = "tag" => r.labels[s.n] # NoBlock
    <3> TAKE s \in RanOf(p.stmts)
    <3> HAVE s.k = "tag"
    <3>1. s.n \in Labels /\ m.labels[s.n] # NoBlock
      BY <1>1, <2>1 DEF NamesOk, SourceOk
    <3> QED
      BY <1>5, <3>1
  <2>7. \A i, j \in 1 .. Len(p.funcs) : p.funcs[i].n = p.funcs[j].n => i = j
    BY <1>1 DEF NamesOk
  <2> QED
    BY <2>3, <2>4, <2>5, <2>6, <2>7 DEF NamesOk
<1>7. BlocksOk(r, p)
  <2>1. \A b \in 1 .. Len(r.blocks) :
            /\ b <= Len(p.funcs) => FuncBlock(r.blocks[b], r.functions, Len(p.funcs[b].params))
            /\ b > Len(p.funcs) => MainBlock(r.blocks[b], r.functions, Targets(p))
    <3> TAKE b \in 1 .. Len(r.blocks)
    <3>1. CASE b \in 1 .. l
      BY <1>1, <1>4, <3>1 DEF BlocksOk
    <3>2. CASE b = l + 1
      BY <1>2, <1>4, <3>2
    <3> QED
      BY <1>2, <1>4, <3>1, <3>2
  <2> QED
    BY <1>2, <1>4, <2>1 DEF BlocksOk
<1> QED
  BY <1>1, <1>4, <1>5, <1>6, <1>7 DEF Matches, r

\* A function more, before main: the program, and its module.
WithFunc(p, n, ps, e) == [p EXCEPT !.funcs = Append(@, [n |-> n, params |-> ps, e |-> e])]
FuncModule(m, n, ps, e) ==
    NewLabelled(addFunction(m, n, Len(ps)), n,
                <<Named("LABEL", n, 0)>> \o visitExp(e, ps, TRUE, 0) \o <<Inst("RET", 0)>>)

LEMMA FuncAdded ==
    ASSUME NEW m, NEW p, Matches(m, p), Len(m.blocks) = Len(p.funcs), p.stmts = <<>>,
           NEW n \in Idents, NEW ps \in ParamLists, NEW e \in Exps,
           NEW q, q = WithFunc(p, n, ps, e), LegalSoFar(q),
           NEW r, r = FuncModule(m, n, ps, e)
    PROVE  /\ Matches(r, q) /\ Len(r.blocks) = Len(q.funcs) /\ q.stmts = <<>>
<1> DEFINE f    == [n |-> n, params |-> ps, e |-> e]
           K    == Len(p.funcs)
           m1   == addFunction(m, n, Len(ps))
           code == <<Named("LABEL", n, 0)>> \o visitExp(e, ps, TRUE, 0) \o <<Inst("RET", 0)>>
<1>1. SourceOk(p) /\ ModuleOk(m) /\ NamesOk(m, p) /\ BlocksOk(m, p)
  BY DEF Matches
<1>2. ps \in Seq(Idents) /\ IsSeq(ps) /\ Len(ps) \in Nat
  BY ParamFacts
<1>3. K \in Nat /\ Len(m.blocks) \in Nat
  BY <1>1 DEF SourceOk, ModuleOk
<1>4. /\ q = [funcs |-> q.funcs, decls |-> q.decls, stmts |-> q.stmts]
      /\ q.funcs = Append(p.funcs, f) /\ q.decls = p.decls /\ q.stmts = p.stmts
  BY <1>1 DEF SourceOk, WithFunc
<1>5. /\ Len(q.funcs) = K + 1 /\ q.funcs[K + 1] = f
      /\ \A j \in 1 .. K : q.funcs[j] = p.funcs[j]
      /\ q.funcs \in Seq([n : Idents, params : Seq(Idents), e : Exps])
  <2>1. f \in [n : Idents, params : Seq(Idents), e : Exps]
    BY <1>2
  <2> HIDE DEF f
  <2> QED
    BY <1>1, <1>4, <2>1 DEF SourceOk
<1>6. SourceOk(q)
  BY <1>1, <1>4, <1>5 DEF SourceOk
<1>7. \A i, j \in 1 .. Len(q.funcs) : q.funcs[i].n = q.funcs[j].n => i = j
  <2>1. IsSeq(q.funcs)
    BY <1>5, SeqOwn
  <2> QED
    BY <2>1, NamesDiffer
<1>8. \A j \in 1 .. K : p.funcs[j].n # n
  <2> TAKE j \in 1 .. K
  <2>1. j \in 1 .. Len(q.funcs) /\ K + 1 \in 1 .. Len(q.funcs) /\ j # K + 1
    BY SMTT(60), <1>3, <1>5
  <2>2. q.funcs[K + 1].n = n /\ q.funcs[j].n = p.funcs[j].n
    BY SMTT(60), <1>5
  <2> QED
    BY <1>7, <2>1, <2>2
<1>9. n \notin Defined(p)
  BY <1>1, <1>8, NamesKnown
<1>10. /\ n \in Labels /\ Idents \subseteq Labels
       /\ m.functions[n] = NoFunc /\ m.labels[n] = NoBlock
  <2>1. n \in Labels /\ Idents \subseteq Labels
    BY DEF Labels
  <2>2. m.labels[n] \in Nat /\ m.labels[n] <= K /\ m.labels[n] \notin 1 .. K /\ m.functions[n] = NoFunc
    BY <1>1, <1>9, <2>1 DEF NamesOk, ModuleOk
  <2> QED
    BY <1>3, <2>1, <2>2 DEF NoBlock
<1>11. /\ ModuleOk(m1) /\ m1.blocks = m.blocks /\ m1.labels = m.labels
       /\ m1.functions[n] = Len(ps)
       /\ \A x \in Idents : x # n => m1.functions[x] = m.functions[x]
  <2> DEFINE fs == [m.functions EXCEPT ![n] = Len(ps)]
  <2>1. m1 = [m EXCEPT !.functions = fs]
    BY <1>10 DEF addFunction
  <2>2. fs \in [Idents -> Int] /\ fs[n] = Len(ps) /\ \A x \in Idents : x # n => fs[x] = m.functions[x]
    BY <1>1, <1>2 DEF ModuleOk
  <2> HIDE DEF fs, m1
  <2>3. m1 = [blocks |-> m.blocks, variables |-> m.variables, functions |-> fs, labels |-> m.labels]
    BY <1>1, <2>1 DEF ModuleOk
  <2> QED
    BY <1>1, <2>2, <2>3 DEF ModuleOk
<1> HIDE DEF m1
<1>12. \A j \in 1 .. (K + 1) : m1.functions[q.funcs[j].n] = Len(q.funcs[j].params)
  <2> TAKE j \in 1 .. (K + 1)
  <2>1. CASE j \in 1 .. K
    <3>1. p.funcs[j].n \in Idents /\ p.funcs[j].n # n
      BY <1>1, <1>8, <2>1, NamesKnown
    <3>2. m.functions[p.funcs[j].n] = Len(p.funcs[j].params)
      BY <1>1, <2>1 DEF NamesOk
    <3> QED
      BY <1>5, <1>11, <2>1, <3>1, <3>2
  <2>2. CASE j = K + 1
    <3>1. q.funcs[j].n = n /\ q.funcs[j].params = ps
      BY <1>5, <2>2
    <3> QED
      BY <1>11, <3>1
  <2> QED
    BY <1>3, <2>1, <2>2
<1>13. FuncBlock(code, m1.functions, Len(ps))
  <2>1. Tree(e) /\ Bad \notin SubExps(e)
    BY PcodeTreeAssumption
  <2>2. WellFormed(e, RanOf(ps), q, K + 1)
    <3>1. K + 1 \in DOMAIN q.funcs
      BY <1>3, <1>5
    <3>2. LegalFunc(q, K + 1)
      BY <3>1 DEF LegalSoFar
    <3>3. q.funcs[K + 1].e = e /\ q.funcs[K + 1].params = ps
      BY <1>5
    <3> QED
      BY <3>2, <3>3 DEF LegalFunc
  <2>3. \A x \in SubExps(e) : Fits(x, m1.functions, ps, TRUE)
    <3>1. K + 1 \in 0 .. Len(q.funcs)
      BY <1>3, <1>5
    <3> QED
      BY <1>12, <2>2, <3>1, LegalFits
  <2>4. /\ visitExp(e, ps, TRUE, 0) \in Seq(ExpInsts(m1.functions, ps, TRUE, 0))
        /\ Leaves(visitExp(e, ps, TRUE, 0), m1.functions, 1)
    BY <1>2, <2>1, <2>3, ExpLeaves
  <2> QED
    BY <2>4, FuncCode
<1>14. code \in Seq(Insts)
  BY <1>13 DEF FuncBlock, CodeOk
<1>15. r = NewLabelled(m1, n, code)
  BY DEF m1, FuncModule
<1> HIDE DEF code
<1>16. /\ ModuleOk(r) /\ r.functions = m1.functions
       /\ Len(r.blocks) = K + 1 /\ r.blocks[K + 1] = code
       /\ \A b \in 1 .. K : r.blocks[b] = m.blocks[b]
       /\ r.labels[n] = K + 1
       /\ \A x \in Labels : x # n => r.labels[x] = m.labels[x]
  <2>1. /\ ModuleOk(r) /\ r.functions = m1.functions
        /\ Len(r.blocks) = Len(m1.blocks) + 1 /\ r.blocks[Len(m1.blocks) + 1] = code
        /\ \A b \in 1 .. Len(m1.blocks) : r.blocks[b] = m1.blocks[b]
        /\ r.labels[n] = IF m1.labels[n] = NoBlock THEN Len(m1.blocks) + 1 ELSE m1.labels[n]
        /\ \A x \in Labels : x # n => r.labels[x] = m1.labels[x]
    BY SMTT(60), <1>10, <1>11, <1>14, <1>15, LabelledFacts
  <2>2. m1.blocks = m.blocks /\ m1.labels = m.labels /\ m.labels[n] = NoBlock /\ Len(m.blocks) = K
    BY <1>10, <1>11
  <2> HIDE DEF K
  <2> QED
    BY <2>1, <2>2
<1>17. NamesOk(r, q)
  <2>1. \A j \in 1 .. (K + 1) : r.labels[q.funcs[j].n] = j
    <3> TAKE j \in 1 .. (K + 1)
    <3>1. CASE j \in 1 .. K
      <4>1. p.funcs[j].n \in Idents /\ p.funcs[j].n # n
        BY <1>1, <1>8, <3>1, NamesKnown
      <4>2. m.labels[p.funcs[j].n] = j
        BY <1>1, <3>1 DEF NamesOk
      <4> QED
        BY ZenonT(60), <1>5, <1>10, <1>16, <3>1, <4>1, <4>2
    <3>2. CASE j = K + 1
      <4>1. q.funcs[j].n = n
        BY <1>5, <3>2
      <4> QED
        BY <1>16, <3>2, <4>1
    <3> QED
      BY <1>3, <3>1, <3>2
  <2>2. \A x \in Idents : x \notin Defined(q) => /\ r.functions[x] = NoFunc
                                                 /\ r.labels[x] \notin 1 .. (K + 1)
    <3> TAKE x \in Idents
    <3> HAVE x \notin Defined(q)
    <3>1. \A j \in 1 .. (K + 1) : q.funcs[j].n # x
      BY <1>5, <1>6, NamesKnown
    <3>2. x # n
      <4>1. K + 1 \in 1 .. (K + 1) /\ q.funcs[K + 1].n = n
        BY <1>3, <1>5
      <4> QED
        BY <3>1, <4>1
    <3>3. x \notin Defined(p)
      <4>1. \A j \in 1 .. K : j \in 1 .. (K + 1) /\ q.funcs[j] = p.funcs[j]
        BY SMTT(60), <1>3, <1>5
      <4>2. \A j \in 1 .. K : p.funcs[j].n # x
        BY <3>1, <4>1
      <4> QED
        BY <1>1, <4>2, NamesKnown
    <3>4. /\ m.functions[x] = NoFunc /\ m.labels[x] \notin 1 .. K
          /\ m.labels[x] <= K /\ m.labels[x] \in Nat
      BY <1>1, <1>10, <3>3 DEF NamesOk, ModuleOk
    <3>5. r.labels[x] = m.labels[x] /\ r.functions[x] = m.functions[x]
      BY <1>10, <1>11, <1>16, <3>2
    <3> QED
      BY <1>3, <3>4, <3>5
  <2>3. \A x \in Labels : r.labels[x] <= K + 1
    <3> TAKE x \in Labels
    <3>1. m.labels[x] <= K /\ m.labels[x] \in Nat
      BY <1>1 DEF NamesOk, ModuleOk
    <3> QED
      BY <1>3, <1>16, <3>1
  <2>4. \A s \in RanOf(q.stmts) : s.k = "tag" => r.labels[s.n] # NoBlock
    <3>1. RanOf(<<>>) = {}
      BY DEF RanOf
    <3> QED
      BY <1>4, <3>1
  <2> QED
    BY <1>5, <1>7, <1>12, <1>16, <2>1, <2>2, <2>3, <2>4 DEF NamesOk
<1>18. BlocksOk(r, q)
  <2>1. ASSUME NEW b \in 1 .. (K + 1)
        PROVE  FuncBlock(r.blocks[b], r.functions, Len(q.funcs[b].params))
    <3>1. CASE b \in 1 .. K
      <4>1. FuncBlock(m.blocks[b], m.functions, Len(p.funcs[b].params))
        BY <1>1, <1>3, <3>1 DEF BlocksOk
      <4>2. \A x \in Idents : m.functions[x] \in Nat => r.functions[x] = m.functions[x]
        <5> TAKE x \in Idents
        <5>1. x = n => m.functions[x] \notin Nat
          BY <1>10 DEF NoFunc
        <5> QED
          BY <1>11, <1>16, <5>1
      <4>3. FuncBlock(m.blocks[b], r.functions, Len(p.funcs[b].params))
        BY <4>1, <4>2, FuncLater
      <4> QED
        BY <1>5, <1>16, <3>1, <4>3
    <3>2. CASE b = K + 1
      <4>1. q.funcs[b].params = ps
        BY <1>5, <3>2
      <4> QED
        BY <1>13, <1>16, <3>2, <4>1
    <3> QED
      BY <1>3, <3>1, <3>2
  <2>2. \A b \in 1 .. (K + 1) : ~(b > K + 1)
    BY <1>3
  <2> QED
    BY <1>3, <1>5, <1>16, <2>1, <2>2 DEF BlocksOk
<1> QED
  BY <1>4, <1>5, <1>6, <1>16, <1>17, <1>18 DEF Matches

-----------------------------------------------------------------------------
(***************************************************************************)
(* What the visitor keeps, unless the visit throws.                        *)
(***************************************************************************)
Main == {"decls", "stmts", "running", "ended"}

Compiled ==
    /\ phase \in Main \cup {"funcs", "thrown"}
    /\ phase = "funcs" => Len(module.blocks) = Len(src.funcs) /\ src.stmts = <<>>
    /\ phase \in Main => Len(module.blocks) > Len(src.funcs)
    /\ phase # "thrown" => Matches(module, src) /\ Promising

LEMMA InitCompiled == Init => Compiled
<1> SUFFICES ASSUME Init PROVE Compiled
  OBVIOUS
<1>1. /\ src.funcs = <<>> /\ src.decls = <<>> /\ src.stmts = <<>>
      /\ src = [funcs |-> src.funcs, decls |-> src.decls, stmts |-> src.stmts]
      /\ module = EmptyModule /\ phase = "funcs"
  BY DEF Init, EmptyProgram
<1>2. /\ module = [blocks |-> module.blocks, variables |-> module.variables,
                   functions |-> module.functions, labels |-> module.labels]
      /\ module.blocks = <<>> /\ module.variables = {}
      /\ module.functions = [n \in Idents |-> NoFunc]
      /\ module.labels = [n \in Labels |-> NoBlock]
  BY <1>1 DEF EmptyModule, Labels
<1>3. RanOf(<<>>) = {} /\ IsSeq(<<>>) /\ Len(<<>>) = 0
  BY EmptyFacts DEF RanOf
<1>4. Defined(src) = {}
  BY <1>1, <1>3 DEF Defined
<1>5. SourceOk(src)
  <2>1. src.funcs \in Seq([n : Idents, params : Seq(Idents), e : Exps]) /\ src.decls \in Seq(Idents)
    BY <1>1
  <2> QED
    BY <1>1, <1>3, <2>1 DEF SourceOk
<1>6. ModuleOk(module)
  <2>1. module.functions \in [Idents -> Int] /\ module.labels \in [Labels -> Nat]
    BY <1>2 DEF NoFunc, NoBlock
  <2>2. module.blocks \in Seq(Seq(Insts)) /\ module.variables \in SUBSET Idents
    BY <1>2
  <2> QED
    BY <1>2, <2>1, <2>2 DEF ModuleOk
<1>7. NamesOk(module, src)
  BY <1>1, <1>2, <1>3 DEF NamesOk, NoFunc, NoBlock
<1>8. BlocksOk(module, src)
  BY <1>1, <1>2, <1>3 DEF BlocksOk
<1>9. Promising
  <2>1. LegalSoFar(src)
    BY EmptyLegal DEF Init
  <2> QED
    BY <1>1, <1>3, <2>1 DEF Promising, Recursive, Shared
<1> QED
  BY <1>1, <1>2, <1>3, <1>5, <1>6, <1>7, <1>8, <1>9 DEF Compiled, Main, Matches

LEMMA FuncDefCompiled ==
    ASSUME Compiled, NEW n \in Idents, NEW ps \in ParamLists, NEW e \in Exps,
           visitFuncDef(n, ps, e), Promising' \/ phase' = "thrown"
    PROVE  Compiled'
<1>1. CASE phase' = "thrown"
  BY <1>1 DEF Compiled, Main
<1>2. CASE phase' # "thrown"
  <2>1. /\ phase = "funcs" /\ phase' = "funcs"
        /\ src' = WithFunc(src, n, ps, e) /\ module' = FuncModule(module, n, ps, e)
    BY <1>2 DEF visitFuncDef, WithFunc, FuncModule
  <2>2. Matches(module, src) /\ Len(module.blocks) = Len(src.funcs) /\ src.stmts = <<>>
    BY <2>1 DEF Compiled
  <2>3. Promising' /\ LegalSoFar(src')
    BY <1>2 DEF Promising
  <2>4. Matches(module', src') /\ Len(module'.blocks) = Len(src'.funcs) /\ src'.stmts = <<>>
    BY <2>1, <2>2, <2>3, FuncAdded
  <2> QED
    BY <2>1, <2>3, <2>4 DEF Compiled, Main
<1> QED
  BY <1>1, <1>2

\* The code of what leaves nothing and takes nothing.
LEMMA AloneCode ==
    ASSUME NEW fs, NEW J, NEW i \in Nat, NEW inst \in Insts, inst.stmt = i,
           inst.op \in {"LABEL", "DEF", "JUMP"}, inst.op = "JUMP" => inst.n \in J
    PROVE  MainBlock(<<inst>>, fs, J)
<1> DEFINE h == [k \in 1 .. 1 |-> 0]
<1>1. Heights(<<>>, fs, h) /\ h[Len(<<>>) + 1] = 0
  BY DEF Heights
<1>2. Takes(inst, fs) = 0
  BY DEF Takes, Popping1
<1> HIDE DEF h
<1>3. Leaves(<<>>, fs, Takes(inst, fs))
  BY <1>1, <1>2 DEF Leaves
<1>4. <<>> \in Seq(StmtInsts(fs, i)) /\ <<>> \o <<inst>> = <<inst>>
  OBVIOUS
<1>5. MainBlock(<<>> \o <<inst>>, fs, J)
  BY <1>3, <1>4, StmtCode
<1> QED
  BY <1>4, <1>5

LEMMA BeginMainCompiled ==
    ASSUME Compiled, BeginMain, Promising' \/ phase' = "thrown"
    PROVE  Compiled'
<1> DEFINE inst == Named("LABEL", MainLabel, 0)
<1>1. /\ phase = "funcs" /\ phase' = "decls" /\ src' = src
      /\ module' = NewLabelled(module, MainLabel, <<inst>>)
  BY DEF BeginMain
<1>2. Matches(module, src) /\ Len(module.blocks) = Len(src.funcs) /\ Promising
  BY <1>1 DEF Compiled
<1>3. MainLabel \in Labels /\ MainLabel \notin Defined(src)
  BY <1>2, PcodeAssumption, NamesKnown DEF Labels, Matches
<1>4. inst \in Insts /\ inst.op = "LABEL" /\ inst.stmt = 0
  BY <1>3, NamedIs DEF Ops
<1> HIDE DEF inst
<1>5. MainBlock(<<inst>>, module.functions, Targets(src))
  BY <1>4, AloneCode
<1>6. Matches(module', src) /\ Len(module'.blocks) = Len(module.blocks) + 1
  BY <1>1, <1>2, <1>3, <1>5, BlockLater
<1>7. Len(module.blocks) \in Nat
  BY <1>2 DEF Matches, ModuleOk
<1>8. Promising'
  BY <1>1, <1>2 DEF Promising
<1> QED
  BY <1>1, <1>2, <1>6, <1>7, <1>8 DEF Compiled, Main

LEMMA VarDeclCompiled ==
    ASSUME Compiled, NEW n \in Idents, visitVarDecl(n), Promising' \/ phase' = "thrown"
    PROVE  Compiled'
<1> DEFINE inst == Named("DEF", n, 0)
           m    == [module EXCEPT !.variables = @ \cup {n}]
<1>1. /\ phase = "decls" /\ phase' = "decls"
      /\ src' = [src EXCEPT !.decls = Append(@, n)]
      /\ module' = insertInst(m, <<inst>>)
  BY DEF visitVarDecl
<1>2. /\ SourceOk(src) /\ ModuleOk(module) /\ NamesOk(module, src) /\ BlocksOk(module, src)
      /\ Len(module.blocks) > Len(src.funcs)
  BY <1>1 DEF Compiled, Main, Matches
<1>3. /\ src' = [funcs |-> src.funcs, decls |-> src'.decls, stmts |-> src.stmts]
      /\ src'.funcs = src.funcs /\ src'.stmts = src.stmts /\ src'.decls = Append(src.decls, n)
  BY <1>1, <1>2 DEF SourceOk
<1>4. SourceOk(src')
  <2>1. src'.decls \in Seq(Idents)
    BY <1>2, <1>3 DEF SourceOk
  <2> QED
    BY <1>2, <1>3, <2>1 DEF SourceOk
<1>5. /\ ModuleOk(m) /\ m.blocks = module.blocks /\ m.functions = module.functions
      /\ m.labels = module.labels
  BY <1>2 DEF ModuleOk
<1> HIDE DEF m
<1>6. Defined(src') = Defined(src) /\ Targets(src') = Targets(src)
  BY <1>3 DEF Defined, Targets
<1>7. Matches(m, src')
  <2>1. NamesOk(m, src')
    BY <1>2, <1>3, <1>5, <1>6 DEF NamesOk
  <2>2. BlocksOk(m, src')
    BY <1>2, <1>3, <1>5, <1>6 DEF BlocksOk
  <2> QED
    BY <1>4, <1>5, <2>1, <2>2 DEF Matches
<1>8. inst \in Insts /\ inst.op = "DEF" /\ inst.stmt = 0
  <2>1. n \in Labels
    BY DEF Labels
  <2> QED
    BY <2>1, NamedIs DEF Ops
<1> HIDE DEF inst
<1>9. MainBlock(<<inst>>, m.functions, Targets(src'))
  BY <1>8, AloneCode
<1>10. Matches(module', src') /\ Len(module'.blocks) = Len(m.blocks)
  BY SMTT(60), <1>1, <1>2, <1>3, <1>5, <1>7, <1>9, InsertLater
<1>11. Promising'
  BY <1>1
<1> QED
  BY <1>1, <1>2, <1>3, <1>5, <1>10, <1>11 DEF Compiled, Main

\* What is known when the code of a statement that throws nothing is added.
LEMMA Visited ==
    ASSUME Compiled, NEW s, Visit(s), s.k # "tag",
           s.k \in {"if", "to"} => s.n \in Idents,
           NEW throws, NEW insts, Generate(throws, insts), phase' # "thrown", Promising'
    PROVE  /\ Matches(module, src') /\ Len(module.blocks) > Len(src'.funcs)
           /\ module' = insertInst(module, insts) /\ phase' = "stmts"
           /\ s.k \in {"if", "to"} => s.n \in Targets(src')
           /\ LegalStmt(src', s) /\ Here \in Nat
<1>1. /\ phase \in {"decls", "stmts"} /\ phase' = "stmts"
      /\ src' = [src EXCEPT !.stmts = Append(@, s)]
      /\ module' = insertInst(module, insts)
  BY DEF Visit, Generate
<1>2. Matches(module, src) /\ Len(module.blocks) > Len(src.funcs)
  BY <1>1 DEF Compiled, Main
<1>3. /\ Matches(module, src') /\ src'.funcs = src.funcs
      /\ s.k \in {"if", "to"} => s.n \in Targets(src')
      /\ RanOf(src'.stmts) = RanOf(src.stmts) \cup {s}
  <2>1. src' = WithStmt(src, s)
    BY <1>1 DEF WithStmt
  <2> QED
    BY ZenonT(60), <1>2, <2>1, StmtLater
<1>4. LegalStmt(src', s)
  <2>1. LegalSoFar(src')
    BY DEF Promising
  <2>2. s \in RanOf(src'.stmts)
    BY <1>3
  <2> QED
    BY <2>1, <2>2 DEF LegalSoFar
<1>5. Here \in Nat
  <2>1. Len(src.stmts) \in Nat
    BY <1>2, SeqFacts DEF Matches, SourceOk
  <2> QED
    BY <2>1 DEF Here
<1> QED
  BY <1>1, <1>2, <1>3, <1>4, <1>5

LEMMA Generated ==
    ASSUME Compiled, NEW s, Visit(s), s.k # "tag",
           s.k \in {"if", "to"} => s.n \in Idents,
           NEW throws, NEW insts, Generate(throws, insts), Promising' \/ phase' = "thrown",
           phase' # "thrown" => MainBlock(insts, module.functions, Targets(src'))
    PROVE  Compiled'
<1>1. CASE phase' = "thrown"
  BY <1>1 DEF Compiled, Main
<1>2. CASE phase' # "thrown"
  <2>1. /\ Matches(module, src') /\ Len(module.blocks) > Len(src'.funcs)
        /\ module' = insertInst(module, insts) /\ phase' = "stmts"
    BY <1>2, Visited
  <2>2. Matches(module', src') /\ Len(module'.blocks) = Len(module.blocks)
    BY <1>2, <2>1, InsertLater
  <2> QED
    BY <1>2, <2>1, <2>2 DEF Compiled, Main
<1> QED
  BY <1>1, <1>2

\* The code of an expression in main.
LEMMA MainExp ==
    ASSUME NEW m, NEW p, Matches(m, p), NEW e \in Exps \cup Conds, NEW variables,
           WellFormed(e, variables, p, Len(p.funcs)), NEW i \in Nat
    PROVE  /\ visitExp(e, <<>>, FALSE, i) \in Seq(StmtInsts(m.functions, i))
           /\ Leaves(visitExp(e, <<>>, FALSE, i), m.functions, 1)
<1> DEFINE X == ExpInsts(m.functions, <<>>, FALSE, i)
<1>1. Tree(e) /\ Bad \notin SubExps(e)
  BY PcodeTreeAssumption
<1>2. /\ \A j \in 1 .. Len(p.funcs) : m.functions[p.funcs[j].n] = Len(p.funcs[j].params)
      /\ Len(p.funcs) \in 0 .. Len(p.funcs)
  BY NamesKnown DEF Matches, NamesOk
<1>3. \A x \in SubExps(e) : Fits(x, m.functions, <<>>, FALSE)
  BY <1>2, LegalFits
<1>4. /\ visitExp(e, <<>>, FALSE, i) \in Seq(X)
      /\ Leaves(visitExp(e, <<>>, FALSE, i), m.functions, 1)
  BY <1>1, <1>3, EmptyFacts, ExpLeaves
<1>5. X \subseteq StmtInsts(m.functions, i)
  BY DEF ExpInsts, StmtInsts
<1> HIDE DEF X
<1>6. visitExp(e, <<>>, FALSE, i) \in Seq(StmtInsts(m.functions, i))
  BY <1>4, <1>5, SeqMonotonic
<1> QED
  BY <1>4, <1>6

\* An expression and the instruction that takes its value.
LEMMA TakenCode ==
    ASSUME NEW fs, NEW J, NEW i \in Nat,
           NEW c \in Seq(StmtInsts(fs, i)), Leaves(c, fs, 1),
           NEW last \in Insts, last.stmt = i, last.op \in {"STORE", "WRITE", "JIT"},
           last.op = "JIT" => last.n \in J
    PROVE  MainBlock(c \o <<last>>, fs, J)
<1>1. Takes(last, fs) = 1
  BY DEF Takes, Popping1
<1> QED
  BY <1>1, StmtCode

LEMMA GetCompiled ==
    ASSUME Compiled, NEW n \in Idents, visitGetStmt(n), Promising' \/ phase' = "thrown"
    PROVE  Compiled'
<1> DEFINE s     == [k |-> "get", n |-> n]
           read  == Inst("READ", Here)
           store == Named("STORE", n, Here)
           code  == <<read, store>>
           throws == n \notin module.variables
<1>1. Visit(s) /\ Generate(throws, code)
  BY DEF visitGetStmt
<1>2. s.k # "tag" /\ s.k \notin {"if", "to"}
  OBVIOUS
<1> HIDE DEF s, throws
<1>3. ASSUME phase' # "thrown" PROVE MainBlock(code, module.functions, Targets(src'))
  <2> HIDE DEF code
  <2>1. Here \in Nat
    BY <1>1, <1>2, <1>3, Visited
  <2>2. read \in Insts /\ read.op = "READ" /\ read.stmt = Here
    BY <2>1, InstIs DEF Ops
  <2>3. store \in Insts /\ store.op = "STORE" /\ store.stmt = Here
    <3>1. n \in Labels
      BY DEF Labels
    <3> QED
      BY <2>1, <3>1, NamedIs DEF Ops
  <2>4. code = <<read>> \o <<store>>
    BY DEF code
  <2> HIDE DEF read, store
  <2>5. <<read>> \in Seq(StmtInsts(module.functions, Here))
    BY <2>2 DEF StmtInsts
  <2>6. Leaves(<<read>>, module.functions, 1)
    <3>1. Takes(read, module.functions) = 0 /\ Gives(read) = 1
      BY <2>2 DEF Takes, Gives, Popping1, Pushing
    <3> QED
      BY <2>2, <3>1, LeavesOne
  <2> QED
    BY <2>1, <2>3, <2>4, <2>5, <2>6, TakenCode
<1> HIDE DEF code
<1> QED
  BY <1>1, <1>2, <1>3, Generated

LEMMA PutCompiled ==
    ASSUME Compiled, NEW e \in Exps, visitPutStmt(e), Promising' \/ phase' = "thrown"
    PROVE  Compiled'
<1> DEFINE s     == [k |-> "put", e |-> e]
           write == Inst("WRITE", Here)
           code  == visitExp(e, <<>>, FALSE, Here) \o <<write>>
           throws == Throws(e, module, FALSE)
<1>1. Visit(s) /\ Generate(throws, code)
  BY DEF visitPutStmt
<1>2. s.k = "put" /\ s.e = e
  OBVIOUS
<1> HIDE DEF s, throws
<1>3. ASSUME phase' # "thrown" PROVE MainBlock(code, module.functions, Targets(src'))
  <2> HIDE DEF code
  <2>1. Here \in Nat /\ Matches(module, src') /\ LegalStmt(src', s)
    BY <1>1, <1>2, <1>3, Visited
  <2>2. write \in Insts /\ write.op = "WRITE" /\ write.stmt = Here
    BY <2>1, InstIs DEF Ops
  <2> HIDE DEF write
  <2>3. WellFormed(e, Declared(src'), src', Len(src'.funcs))
    BY <1>2, <2>1 DEF LegalStmt
  <2>4. /\ visitExp(e, <<>>, FALSE, Here) \in Seq(StmtInsts(module.functions, Here))
        /\ Leaves(visitExp(e, <<>>, FALSE, Here), module.functions, 1)
    BY <2>1, <2>3, MainExp
  <2> QED
    BY <2>1, <2>2, <2>4, TakenCode DEF code
<1> HIDE DEF code
<1> QED
  BY <1>1, <1>2, <1>3, Generated

LEMMA LetCompiled ==
    ASSUME Compiled, NEW n \in Idents, NEW e \in Exps, visitLetStmt(n, e),
           Promising' \/ phase' = "thrown"
    PROVE  Compiled'
<1> DEFINE s     == [k |-> "let", n |-> n, e |-> e]
           store == Named("STORE", n, Here)
           code  == visitExp(e, <<>>, FALSE, Here) \o <<store>>
           throws == Throws(e, module, FALSE) \/ n \notin module.variables
<1>1. Visit(s) /\ Generate(throws, code)
  BY DEF visitLetStmt
<1>2. s.k = "let" /\ s.e = e
  OBVIOUS
<1> HIDE DEF s, throws
<1>3. ASSUME phase' # "thrown" PROVE MainBlock(code, module.functions, Targets(src'))
  <2> HIDE DEF code
  <2>1. Here \in Nat /\ Matches(module, src') /\ LegalStmt(src', s)
    BY <1>1, <1>2, <1>3, Visited
  <2>2. store \in Insts /\ store.op = "STORE" /\ store.stmt = Here
    <3>1. n \in Labels
      BY DEF Labels
    <3> QED
      BY <2>1, <3>1, NamedIs DEF Ops
  <2> HIDE DEF store
  <2>3. WellFormed(e, Declared(src'), src', Len(src'.funcs))
    BY <1>2, <2>1 DEF LegalStmt
  <2>4. /\ visitExp(e, <<>>, FALSE, Here) \in Seq(StmtInsts(module.functions, Here))
        /\ Leaves(visitExp(e, <<>>, FALSE, Here), module.functions, 1)
    BY <2>1, <2>3, MainExp
  <2> QED
    BY <2>1, <2>2, <2>4, TakenCode DEF code
<1> HIDE DEF code
<1> QED
  BY <1>1, <1>2, <1>3, Generated

LEMMA IfCompiled ==
    ASSUME Compiled, NEW n \in Idents, NEW c \in Conds, visitIfStmt(c, n),
           Promising' \/ phase' = "thrown"
    PROVE  Compiled'
<1> DEFINE s    == [k |-> "if", e |-> c, n |-> n]
           jit  == Named("JIT", n, Here)
           code == visitExp(c, <<>>, FALSE, Here) \o <<jit>>
           throws == Throws(c, module, FALSE)
<1>1. Visit(s) /\ Generate(throws, code)
  BY DEF visitIfStmt
<1>2. s.k = "if" /\ s.e = c /\ s.n = n
  OBVIOUS
<1> HIDE DEF s, throws
<1>3. ASSUME phase' # "thrown" PROVE MainBlock(code, module.functions, Targets(src'))
  <2> HIDE DEF code
  <2>1. Here \in Nat /\ Matches(module, src') /\ LegalStmt(src', s) /\ n \in Targets(src')
    BY <1>1, <1>2, <1>3, Visited
  <2>2. jit \in Insts /\ jit.op = "JIT" /\ jit.stmt = Here /\ jit.n = n
    <3>1. n \in Labels
      BY DEF Labels
    <3> QED
      BY <2>1, <3>1, NamedIs DEF Ops
  <2> HIDE DEF jit
  <2>3. WellFormed(c, Declared(src'), src', Len(src'.funcs))
    BY <1>2, <2>1 DEF LegalStmt
  <2>4. /\ visitExp(c, <<>>, FALSE, Here) \in Seq(StmtInsts(module.functions, Here))
        /\ Leaves(visitExp(c, <<>>, FALSE, Here), module.functions, 1)
    BY <2>1, <2>3, MainExp
  <2> QED
    BY <2>1, <2>2, <2>4, TakenCode DEF code
<1> HIDE DEF code
<1> QED
  BY <1>1, <1>2, <1>3, Generated

LEMMA ToCompiled ==
    ASSUME Compiled, NEW n \in Idents, visitToStmt(n), Promising' \/ phase' = "thrown"
    PROVE  Compiled'
<1> DEFINE s    == [k |-> "to", n |-> n]
           jump == Named("JUMP", n, Here)
           code == <<jump>>
<1>1. Visit(s) /\ Generate(FALSE, code)
  BY DEF visitToStmt
<1>2. s.k = "to" /\ s.n = n
  OBVIOUS
<1> HIDE DEF s
<1>3. ASSUME phase' # "thrown" PROVE MainBlock(code, module.functions, Targets(src'))
  <2> HIDE DEF code
  <2>1. Here \in Nat /\ n \in Targets(src')
    BY <1>1, <1>2, <1>3, Visited
  <2>2. jump \in Insts /\ jump.op = "JUMP" /\ jump.stmt = Here /\ jump.n = n
    <3>1. n \in Labels
      BY DEF Labels
    <3> QED
      BY <2>1, <3>1, NamedIs DEF Ops
  <2> HIDE DEF jump
  <2> QED
    BY <2>1, <2>2, AloneCode DEF code
<1> HIDE DEF code
<1> QED
  BY <1>1, <1>2, <1>3, Generated

LEMMA TagCompiled ==
    ASSUME Compiled, NEW n \in Idents, visitTagStmt(n), Promising' \/ phase' = "thrown"
    PROVE  Compiled'
<1> DEFINE s     == [k |-> "tag", n |-> n]
           label == Named("LABEL", n, Here)
<1>1. /\ phase \in {"decls", "stmts"} /\ phase' = "stmts"
      /\ src' = [src EXCEPT !.stmts = Append(@, s)]
      /\ module' = NewLabelled(module, n, <<label>>)
  BY DEF visitTagStmt, Visit
<1>2. s.k = "tag" /\ s.n = n
  OBVIOUS
<1> HIDE DEF s
<1>3. Matches(module, src) /\ Len(module.blocks) > Len(src.funcs)
  BY <1>1 DEF Compiled, Main
<1>4. Promising'
  BY <1>1
<1>5. Len(src.stmts) \in Nat /\ Len(src.funcs) \in Nat /\ Len(module.blocks) \in Nat
  <2>1. SourceOk(src) /\ ModuleOk(module)
    BY <1>3 DEF Matches
  <2> QED
    BY <2>1, SeqFacts DEF SourceOk, ModuleOk
<1>6. label \in Insts /\ label.op = "LABEL" /\ label.stmt = Here /\ n \in Labels /\ Here \in Nat
  <2>1. n \in Labels /\ Here \in Nat
    BY <1>5 DEF Labels, Here
  <2> QED
    BY <2>1, NamedIs DEF Ops
<1> HIDE DEF label
<1>7. src'.funcs = src.funcs /\ RanOf(src'.stmts) = RanOf(src.stmts) \cup {s}
  <2>1. /\ src'.funcs = src.funcs /\ src'.stmts = Append(src.stmts, s)
        /\ IsSeq(src.stmts)
    BY <1>1, <1>3 DEF Matches, SourceOk
  <2> QED
    BY <2>1, AppendRange
<1>8. n \notin Defined(src)
  <2>1. ~Shared'
    BY <1>4 DEF Promising
  <2>2. Defined(src') = Defined(src)
    BY <1>7 DEF Defined
  <2>3. s \in RanOf(src'.stmts)
    BY <1>7
  <2> QED
    BY <1>2, <2>1, <2>2, <2>3 DEF Shared
<1>9. MainBlock(<<label>>, module.functions, Targets(src))
  BY <1>6, AloneCode
<1>10. /\ Matches(module', src) /\ Len(module'.blocks) = Len(module.blocks) + 1
       /\ module'.labels[n] # NoBlock
  BY <1>1, <1>3, <1>6, <1>8, <1>9, BlockLater
<1>11. Matches(module', src')
  <2>1. src' = WithStmt(src, s)
    BY <1>1 DEF WithStmt
  <2> QED
    BY <1>2, <1>10, <2>1, StmtLater
<1> QED
  BY <1>1, <1>3, <1>4, <1>5, <1>7, <1>10, <1>11 DEF Compiled, Main

LEMMA NextCompiled == Compiled /\ [PcodeNext]_vars => Compiled'
<1> SUFFICES ASSUME Compiled, [PcodeNext]_vars PROVE Compiled'
  OBVIOUS
<1>1. ASSUME Compile PROVE Compiled'
  <2>1. Promising' \/ phase' = "thrown"
    BY <1>1 DEF Compile
  <2>2. ASSUME Stmt PROVE Compiled'
    BY <2>1, <2>2, GetCompiled, PutCompiled, LetCompiled, IfCompiled, ToCompiled, TagCompiled
       DEF Stmt
  <2> QED
    BY <1>1, <2>1, <2>2, FuncDefCompiled, BeginMainCompiled, VarDeclCompiled DEF Compile
<1>2. ASSUME UNCHANGED compiled, phase' = phase \/ {phase, phase'} \subseteq Main
      PROVE  Compiled'
  <2>1. src' = src /\ module' = module
    BY <1>2 DEF compiled
  <2>2. Promising => Promising'
    BY <2>1 DEF Promising, Recursive, Shared
  <2> QED
    BY <1>2, <2>1, <2>2 DEF Compiled, Main
<1>3. CASE Boot
  BY <1>2, <1>3 DEF Boot, Main
<1>4. CASE Execute
  <2>1. ASSUME NEW op, Fetch(op) PROVE Compiled'
    BY <1>2, <2>1 DEF Fetch
  <2>2. CASE EndOfBlock
    BY <1>2, <2>2 DEF EndOfBlock, Main
  <2>3. CASE \/ Pass \/ executeLi \/ executeLoad \/ executeRead \/ executeArg \/ executeOpr
             \/ executeStore \/ executeWrite \/ executeCall \/ executeRet \/ JumpIfTrue \/ Jump
    <3>1. \E op : Fetch(op)
      BY <2>3, Zenon
      DEF Pass, executeLi, executeLoad, executeRead, executeArg, executeOpr, executeStore,
          executeWrite, executeCall, executeRet, JumpIfTrue, Jump
    <3> QED
      BY <2>1, <3>1
  <2> QED
    BY <1>4, <2>2, <2>3 DEF Execute
<1>5. CASE Stopped \/ UNCHANGED vars
  BY <1>2, <1>5 DEF Stopped, vars, compiled
<1> QED
  BY <1>1, <1>3, <1>4, <1>5 DEF PcodeNext

-----------------------------------------------------------------------------
(***************************************************************************)
(* What the runtime keeps.  rs[i] is the record of the loop ls[i]: of a    *)
(* loop that waits for a call it lacks the value to come.  A loop over a   *)
(* function that has executed RET has no record any more.                  *)
(***************************************************************************)
Known == Len(src.funcs)

HeightsOf(b) ==
    CHOOSE h : IF b <= Known
               THEN FuncHeights(module.blocks[b], module.functions, Len(src.funcs[b].params), h)
               ELSE MainHeights(module.blocks[b], module.functions, h)

Height(l) == HeightsOf(l.block)[l.ip]

IsLoop(l) == /\ l = [block |-> l.block, ip |-> l.ip]
             /\ l.block \in 1 .. Len(module.blocks)
             /\ l.ip \in 1 .. (Len(Code(l)) + 1)

\* Only the loop at the bottom is main's; a function that waits has not come
\* to its end.
LoopsOk(ls) ==
    /\ IsSeq(ls) /\ Len(ls) > 0
    /\ \A i \in 1 .. Len(ls) : IsLoop(ls[i]) /\ (i = 1 <=> ls[i].block > Known)
    /\ \A i \in 2 .. (Len(ls) - 1) : ~Ended(ls[i])

IsRecord(ar) == /\ ar = [args |-> ar.args, tmps |-> ar.tmps]
                /\ IsSeq(ar.args) /\ IsSeq(ar.tmps)

Args(i, l) == IF i = 1 THEN 0 ELSE Len(src.funcs[l.block].params)

Returned(ls) == Len(ls) > 1 /\ Ended(ls[Len(ls)])

RecordsOk(ls, rs) ==
    /\ IsSeq(rs)
    /\ Len(rs) = IF Returned(ls) THEN Len(ls) - 1 ELSE Len(ls)
    /\ \A i \in 1 .. Len(rs) :
          /\ IsRecord(rs[i])
          /\ Len(rs[i].tmps) = Height(ls[i]) - (IF i < Len(rs) THEN 1 ELSE 0)
          /\ Len(rs[i].args) = Args(i, ls[i])

Runs(ls, rs) == LoopsOk(ls) /\ RecordsOk(ls, rs)

\* The inductive invariant.
PcodeInv ==
    /\ Compiled
    /\ phase \in {"running", "ended"} => Legal(src) /\ Runs(loops, ars)

LEMMA Dropped ==
    ASSUME NEW s, IsSeq(s), Len(s) > 0
    PROVE  LET t == SubSeq(s, 1, Len(s) - 1)
           IN  IsSeq(t) /\ Len(t) = Len(s) - 1 /\ \A i \in 1 .. (Len(s) - 1) : t[i] = s[i]
<1> DEFINE t == SubSeq(s, 1, Len(s) - 1)
<1>1. s \in Seq(RanOf(s)) /\ Len(s) \in Nat /\ DOMAIN s = 1 .. Len(s)
  BY SeqFacts DEF IsSeq
<1>2. \A i \in 1 .. (Len(s) - 1) : s[i] \in RanOf(s)
  BY <1>1 DEF RanOf
<1> DEFINE n == Len(s) - 1
<1>3. n \in Nat /\ n \in Int /\ 1 \in Int
  BY <1>1
<1> HIDE DEF n
<1> DEFINE u == SubSeq(s, 1, n)
<1>4. \A i \in 1 .. n : i \in 1 .. Len(s)
  BY <1>1 DEF n
<1>5. /\ u \in Seq(RanOf(s)) /\ Len(u) = IF 1 <= n THEN n - 1 + 1 ELSE 0
      /\ \A i \in 1 .. (n - 1 + 1) : u[i] = s[1 + i - 1]
  BY <1>1, <1>3, <1>4, SubSeqProperties
<1> HIDE DEF u
<1>6. Len(u) = n /\ \A i \in 1 .. n : u[i] = s[i]
  BY <1>3, <1>5
<1>7. IsSeq(u)
  BY <1>5, SeqOwn
<1> QED
  BY <1>6, <1>7 DEF u, n

\* Append(Callers, x).
LEMMA TopReplaced ==
    ASSUME NEW s, IsSeq(s), Len(s) > 0, NEW x
    PROVE  LET t == Append(SubSeq(s, 1, Len(s) - 1), x)
           IN  /\ IsSeq(t) /\ Len(t) = Len(s) /\ t[Len(s)] = x
               /\ \A i \in 1 .. (Len(s) - 1) : t[i] = s[i]
<1> DEFINE u == SubSeq(s, 1, Len(s) - 1)
           t == Append(u, x)
<1>1. IsSeq(u) /\ Len(u) = Len(s) - 1 /\ (\A i \in 1 .. (Len(s) - 1) : u[i] = s[i])
      /\ Len(s) \in Nat
  BY Dropped, SeqFacts
<1> HIDE DEF u
<1>2. /\ IsSeq(t) /\ Len(t) = Len(u) + 1 /\ t[Len(u) + 1] = x
      /\ \A i \in DOMAIN u : t[i] = u[i]
  BY ZenonT(60), <1>1, AppendFacts
<1>3. DOMAIN u = 1 .. Len(u)
  BY <1>1, SeqFacts
<1> HIDE DEF t
<1>4. Len(u) + 1 = Len(s)
  BY <1>1
<1> QED
  BY <1>1, <1>2, <1>3, <1>4 DEF t, u

\* The heights of a block are those it was compiled to have.
LEMMA BlockHeights ==
    ASSUME Matches(module, src), NEW b \in 1 .. Len(module.blocks)
    PROVE  LET c == module.blocks[b]
               h == HeightsOf(b)
           IN  /\ CodeOk(c, module.functions) /\ Heights(c, module.functions, h)
               /\ b <= Known => FuncHeights(c, module.functions, Len(src.funcs[b].params), h)
               /\ b > Known => MainHeights(c, module.functions, h) /\ JumpsTo(c, Targets(src))
<1> DEFINE c == module.blocks[b]
           h == HeightsOf(b)
<1>1. /\ b <= Known => FuncBlock(c, module.functions, Len(src.funcs[b].params))
      /\ b > Known => MainBlock(c, module.functions, Targets(src))
      /\ Known \in Nat /\ b \in Nat
  <2>1. SourceOk(src) /\ BlocksOk(module, src)
    BY DEF Matches
  <2> QED
    BY <2>1 DEF BlocksOk, SourceOk, Known
<1>2. CASE b <= Known
  <2>1. \E g : FuncHeights(c, module.functions, Len(src.funcs[b].params), g)
    BY <1>1, <1>2 DEF FuncBlock
  <2>2. FuncHeights(c, module.functions, Len(src.funcs[b].params), h)
    BY <1>2, <2>1 DEF HeightsOf
  <2>3. CodeOk(c, module.functions) /\ ~(b > Known)
    BY <1>1, <1>2 DEF FuncBlock
  <2> HIDE DEF c, h
  <2>4. Heights(c, module.functions, h)
    BY <2>2 DEF FuncHeights
  <2> QED
    BY <2>2, <2>3, <2>4 DEF c, h
<1>3. CASE b > Known
  <2>1. ~(b <= Known)
    BY <1>1, <1>3
  <2>2. \E g : MainHeights(c, module.functions, g)
    BY <1>1, <1>3 DEF MainBlock
  <2>3. MainHeights(c, module.functions, h)
    BY <2>1, <2>2 DEF HeightsOf
  <2>4. CodeOk(c, module.functions) /\ JumpsTo(c, Targets(src))
    BY <1>1, <1>3 DEF MainBlock
  <2> HIDE DEF c, h
  <2>5. Heights(c, module.functions, h)
    BY <2>3 DEF MainHeights
  <2> QED
    BY <2>1, <2>3, <2>4, <2>5 DEF c, h
<1> QED
  BY <1>1, <1>2, <1>3

\* The loop over instructions after the one it has fetched.
Stepped == [block |-> Loop.block, ip |-> Loop.ip + 1]

LEMMA TopLoop ==
    ASSUME Matches(module, src), LoopsOk(loops)
    PROVE  /\ Len(loops) \in Nat /\ Len(loops) > 0 /\ DOMAIN loops = 1 .. Len(loops)
           /\ IsLoop(Loop) /\ Loop = loops[Len(loops)]
           /\ Loop.block \in 1 .. Len(module.blocks) /\ Len(Code(Loop)) \in Nat
           /\ Loop.ip \in 1 .. (Len(Code(Loop)) + 1) /\ Known \in Nat
           /\ Len(loops) = 1 <=> Loop.block > Known
           /\ Ended(Loop) <=> Loop.ip = Len(Code(Loop)) + 1
<1>1. Len(loops) \in Nat /\ Len(loops) > 0 /\ DOMAIN loops = 1 .. Len(loops)
  BY SeqFacts DEF LoopsOk
<1>2. Len(loops) \in 1 .. Len(loops) /\ Loop = loops[Len(loops)]
  BY <1>1 DEF Loop
<1>3. IsLoop(Loop) /\ (Len(loops) = 1 <=> Loop.block > Known)
  BY <1>2 DEF LoopsOk
<1>4. Len(Code(Loop)) \in Nat
  <2>1. Code(Loop) \in Seq(Insts)
    BY <1>3, BlockHeights DEF IsLoop, Code, CodeOk
  <2> QED
    BY <2>1
<1>5. Known \in Nat
  BY DEF Matches, SourceOk, Known
<1> QED
  BY <1>1, <1>2, <1>3, <1>4, <1>5 DEF IsLoop, Ended

LEMMA TopFacts ==
    ASSUME Matches(module, src), LoopsOk(loops), RecordsOk(loops, ars), ~Ended(Loop)
    PROVE  /\ Fetched \in Insts /\ IsLoop(Stepped)
           /\ Len(ars) = Len(loops) /\ Record = ars[Len(ars)] /\ IsSeq(ars)
           /\ IsRecord(Record) /\ Len(Record.args) = Args(Len(loops), Loop)
           /\ Len(Record.tmps) \in Nat
           /\ Takes(Fetched, module.functions) \in 0 .. Len(Record.tmps)
           /\ Height(Stepped) = Len(Record.tmps) - Takes(Fetched, module.functions) + Gives(Fetched)
           /\ Fetched.op = "CALL" => /\ Fetched.n \in Idents
                                     /\ module.functions[Fetched.n] \in Nat
           /\ Len(loops) > 1 => /\ Fetched.op = "RET" <=> Ended(Stepped)
                                /\ Fetched.op \notin {"STORE", "WRITE", "JIT", "JUMP"}
                                /\ Fetched.op = "ARG" => Fetched.ix \in 1 .. Len(Record.args)
                                /\ Fetched.op = "RET" => Len(Record.tmps) = 1
           /\ Len(loops) = 1 => /\ Fetched.op \notin {"RET", "ARG"}
                                /\ Fetched.op \in {"JIT", "JUMP"} => Height(Stepped) = 0
                                /\ Fetched.op \in {"JIT", "JUMP"} => Fetched.n \in Targets(src)
<1> DEFINE c  == module.blocks[Loop.block]
           h  == HeightsOf(Loop.block)
           fs == module.functions
           k  == Loop.ip
           K  == Len(src.funcs[Loop.block].params)
<1>1. /\ Len(loops) \in Nat /\ Len(loops) > 0 /\ Loop = loops[Len(loops)]
      /\ Loop.block \in 1 .. Len(module.blocks) /\ Len(c) \in Nat
      /\ k \in 1 .. (Len(c) + 1) /\ Known \in Nat
      /\ (Len(loops) = 1 <=> Loop.block > Known)
      /\ (Ended(Loop) <=> k = Len(c) + 1)
  BY TopLoop DEF Code
<1>2. k \in 1 .. Len(c) /\ k + 1 \in 1 .. (Len(c) + 1)
  <2> HIDE DEF c, k
  <2>1. k # Len(c) + 1
    BY <1>1
  <2> QED
    BY <1>1, <2>1
<1>3. /\ CodeOk(c, fs) /\ Heights(c, fs, h)
      /\ Loop.block <= Known => FuncHeights(c, fs, K, h)
      /\ Loop.block > Known => MainHeights(c, fs, h) /\ JumpsTo(c, Targets(src))
  BY <1>1, BlockHeights
<1>4. Fetched = c[k] /\ Height(Loop) = h[k] /\ Height(Stepped) = h[k + 1]
  BY DEF Fetched, Code, Height, Stepped
<1>5. IsLoop(Stepped) /\ (Ended(Stepped) <=> k = Len(c))
  BY SMTT(60), <1>1, <1>2 DEF IsLoop, Stepped, Ended, Code
<1>6. /\ Len(ars) = Len(loops) /\ Record = ars[Len(ars)] /\ IsSeq(ars)
      /\ IsRecord(Record) /\ Len(Record.args) = Args(Len(loops), Loop)
      /\ Len(Record.tmps) = Height(Loop)
  <2>1. Len(ars) = Len(loops) /\ IsSeq(ars)
    BY <1>1 DEF RecordsOk, Returned
  <2>2. Len(ars) \in 1 .. Len(ars) /\ Record = ars[Len(ars)] /\ ~(Len(ars) < Len(ars))
    BY <1>1, <2>1 DEF Record
  <2>3. /\ IsRecord(Record) /\ Len(Record.args) = Args(Len(loops), Loop)
        /\ Len(Record.tmps) = Height(Loop) - 0
    BY <1>1, <2>1, <2>2 DEF RecordsOk
  <2>4. Len(Record.tmps) \in Nat
    BY <2>3, SeqFacts DEF IsRecord
  <2>5. Height(Loop) \in Nat
    BY <1>1, <1>3, <1>4 DEF Heights
  <2> QED
    BY <2>1, <2>2, <2>3, <2>5
<1> HIDE DEF c, h, fs, k, K
<1>7. /\ Fetched \in Insts
      /\ Fetched.op = "CALL" => Fetched.n \in Idents /\ fs[Fetched.n] \in Nat
  BY <1>2, <1>3, <1>4 DEF CodeOk
<1>8. /\ Len(Record.tmps) \in Nat
      /\ Takes(Fetched, fs) \in 0 .. Len(Record.tmps)
      /\ Height(Stepped) = Len(Record.tmps) - Takes(Fetched, fs) + Gives(Fetched)
  <2>1. h[k] \in Nat
    BY <1>1, <1>3 DEF Heights
  <2>2. Takes(c[k], fs) \in 0 .. h[k] /\ h[k + 1] = h[k] - Takes(c[k], fs) + Gives(c[k])
    BY <1>2, <1>3 DEF Heights
  <2> QED
    BY <1>4, <1>6, <2>1, <2>2
<1>9. Len(loops) > 1 => /\ Fetched.op = "RET" <=> Ended(Stepped)
                        /\ Fetched.op \notin {"STORE", "WRITE", "JIT", "JUMP"}
                        /\ Fetched.op = "ARG" => Fetched.ix \in 1 .. Len(Record.args)
                        /\ Fetched.op = "RET" => Len(Record.tmps) = 1
  <2> HAVE Len(loops) > 1
  <2>1. Loop.block <= Known /\ Len(loops) # 1
    BY <1>1
  <2>2. FuncHeights(c, fs, K, h) /\ Len(Record.args) = K
    BY <1>3, <1>6, <2>1 DEF Args, K
  <2> QED
    BY <1>2, <1>4, <1>5, <1>6, <2>2 DEF FuncHeights
<1>10. Len(loops) = 1 => /\ Fetched.op \notin {"RET", "ARG"}
                         /\ Fetched.op \in {"JIT", "JUMP"} => Height(Stepped) = 0
                         /\ Fetched.op \in {"JIT", "JUMP"} => Fetched.n \in Targets(src)
  <2> HAVE Len(loops) = 1
  <2>1. MainHeights(c, fs, h) /\ JumpsTo(c, Targets(src))
    BY SMTT(60), <1>1, <1>3
  <2> QED
    BY <1>2, <1>4, <2>1 DEF MainHeights, JumpsTo
<1> QED
  BY <1>5, <1>6, <1>7, <1>8, <1>9, <1>10 DEF fs

LEMMA AdvancedFacts ==
    ASSUME LoopsOk(loops)
    PROVE  /\ IsSeq(Advanced) /\ Len(Advanced) = Len(loops) /\ Advanced[Len(loops)] = Stepped
           /\ \A i \in 1 .. (Len(loops) - 1) : Advanced[i] = loops[i]
<1> DEFINE n == Len(loops)
<1>1. IsSeq(loops) /\ n \in Nat /\ n \in 1 .. n /\ DOMAIN loops = 1 .. n
  BY SeqFacts DEF LoopsOk
<1>2. IsLoop(Loop) /\ Loop = loops[n]
  BY <1>1 DEF LoopsOk, Loop
<1>3. [Loop EXCEPT !.ip = @ + 1] = Stepped
  BY <1>2 DEF IsLoop, Stepped
<1>4. Advanced = [loops EXCEPT ![n] = Stepped]
  BY <1>2, <1>3 DEF Advanced
<1> HIDE DEF n
<1>5. /\ IsSeq(Advanced) /\ Len(Advanced) = Len(loops) /\ Advanced[n] = Stepped
      /\ \A j \in DOMAIN loops : j # n => Advanced[j] = loops[j]
  BY <1>1, <1>4, ExceptFacts
<1>6. \A i \in 1 .. (n - 1) : i \in 1 .. n /\ i # n
  BY <1>1
<1> QED
  BY <1>1, <1>5, <1>6 DEF n

LEMMA AdvancedOk ==
    ASSUME Matches(module, src), LoopsOk(loops), IsLoop(Stepped)
    PROVE  LoopsOk(Advanced)
<1> DEFINE ls == Advanced
           n  == Len(loops)
<1>1. /\ n \in Nat /\ n > 0 /\ Known \in Nat /\ Loop = loops[n]
      /\ (n = 1 <=> Loop.block > Known)
  BY TopLoop
<1>2. /\ IsSeq(ls) /\ Len(ls) = n /\ ls[n] = Stepped
      /\ \A i \in 1 .. (n - 1) : ls[i] = loops[i]
  BY AdvancedFacts
<1>3. Stepped.block = Loop.block
  BY DEF Stepped
<1> HIDE DEF ls, n
<1>4. ASSUME NEW i \in 1 .. n PROVE IsLoop(ls[i]) /\ (i = 1 <=> ls[i].block > Known)
  <2>1. CASE i = n
    BY <1>1, <1>2, <1>3, <2>1
  <2>2. CASE i \in 1 .. (n - 1)
    BY <1>2, <2>2 DEF LoopsOk, n
  <2> QED
    BY <1>1, <2>1, <2>2
<1>5. ASSUME NEW i \in 2 .. (n - 1) PROVE ~Ended(ls[i])
  <2>1. i \in 1 .. (n - 1)
    BY <1>1
  <2> QED
    BY <1>2, <2>1 DEF LoopsOk, n
<1> QED
  BY <1>1, <1>2, <1>4, <1>5 DEF LoopsOk, ls

\* An instruction that stays in the block and the record.
LEMMA StepRuns ==
    ASSUME Matches(module, src), Runs(loops, ars), ~Ended(Loop), Fetched.op \notin {"RET", "CALL"},
           NEW ar, IsRecord(ar), Len(ar.args) = Len(Record.args),
           Len(ar.tmps) = Len(Record.tmps) - Takes(Fetched, module.functions) + Gives(Fetched)
    PROVE  Runs(Advanced, Append(Callers, ar))
<1> DEFINE ls == Advanced
           rs == Append(Callers, ar)
           n  == Len(loops)
<1>1. LoopsOk(loops) /\ RecordsOk(loops, ars)
  BY DEF Runs
<1>2. /\ n \in Nat /\ n > 0 /\ Known \in Nat /\ IsLoop(Loop) /\ Loop = loops[n]
      /\ (n = 1 <=> Loop.block > Known)
  BY <1>1, TopLoop
<1>3. /\ IsLoop(Stepped) /\ Len(ars) = n /\ Record = ars[n] /\ IsSeq(ars)
      /\ Len(Record.args) = Args(n, Loop) /\ Len(ar.tmps) = Height(Stepped)
      /\ n > 1 => ~Ended(Stepped)
  BY <1>1, TopFacts
<1>4. /\ IsSeq(ls) /\ Len(ls) = n /\ ls[n] = Stepped
      /\ \A i \in 1 .. (n - 1) : ls[i] = loops[i]
  BY <1>1, AdvancedFacts
<1>5. /\ IsSeq(rs) /\ Len(rs) = n /\ rs[n] = ar
      /\ \A i \in 1 .. (n - 1) : rs[i] = ars[i]
  BY <1>2, <1>3, TopReplaced DEF Callers
<1>6. Stepped.block = Loop.block
  BY DEF Stepped
<1> HIDE DEF ls, rs, n
<1>7. LoopsOk(ls)
  BY <1>1, <1>3, AdvancedOk DEF ls
<1>8. RecordsOk(ls, rs)
  <2>1. ~Returned(ls)
    BY <1>2, <1>3, <1>4 DEF Returned
  <2>2. ASSUME NEW i \in 1 .. n
        PROVE  /\ IsRecord(rs[i])
               /\ Len(rs[i].tmps) = Height(ls[i]) - (IF i < n THEN 1 ELSE 0)
               /\ Len(rs[i].args) = Args(i, ls[i])
    <3>1. CASE i = n
      <4>1. Len(ar.tmps) = Height(Stepped) - 0
        <5>1. Len(ar.tmps) \in Nat
          BY SeqFacts DEF IsRecord
        <5> QED
          BY <1>3, <5>1
      <4>2. Len(ar.args) = Args(n, Stepped)
        BY <1>3, <1>6 DEF Args
      <4>3. ~(n < n)
        BY <1>2
      <4> QED
        BY <1>4, <1>5, <3>1, <4>1, <4>2, <4>3
    <3>2. CASE i \in 1 .. (n - 1)
      <4>1. rs[i] = ars[i] /\ ls[i] = loops[i] /\ i \in 1 .. Len(ars)
        BY <1>2, <1>3, <1>4, <1>5, <3>2
      <4> QED
        BY <1>1, <1>3, <4>1 DEF RecordsOk
    <3> QED
      BY <1>2, <3>1, <3>2
  <2> QED
    BY <1>4, <1>5, <2>1, <2>2 DEF RecordsOk
<1> QED
  BY <1>7, <1>8 DEF Runs, ls, rs

\* Main at the start of one of its blocks.
LEMMA MainRuns ==
    ASSUME Matches(module, src), NEW b \in 1 .. Len(module.blocks), b > Known,
           NEW ls, IsSeq(ls), Len(ls) = 1, ls[1] = [block |-> b, ip |-> 1],
           NEW rs, IsSeq(rs), Len(rs) = 1, IsRecord(rs[1]),
           Len(rs[1].args) = 0, Len(rs[1].tmps) = 0
    PROVE  Runs(ls, rs)
<1>1. Heights(module.blocks[b], module.functions, HeightsOf(b)) /\ CodeOk(module.blocks[b], module.functions)
  BY BlockHeights
<1>2. HeightsOf(b)[1] = 0 /\ Len(module.blocks[b]) \in Nat
  BY <1>1 DEF Heights, CodeOk
<1>3. ls[1].block = b /\ ls[1].ip = 1 /\ IsLoop(ls[1]) /\ Height(ls[1]) = 0
  BY <1>2 DEF IsLoop, Code, Height
<1>4. LoopsOk(ls)
  BY <1>3 DEF LoopsOk
<1>5. RecordsOk(ls, rs)
  BY <1>3 DEF RecordsOk, Returned, Args
<1> QED
  BY <1>4, <1>5 DEF Runs

\* Where a jump leads.
LEMMA TargetBlock ==
    ASSUME Matches(module, src), Promising, Legal(src), NEW n \in Targets(src)
    PROVE  module.labels[n] \in 1 .. Len(module.blocks) /\ module.labels[n] > Known
<1>1. SourceOk(src) /\ ModuleOk(module) /\ NamesOk(module, src)
  BY DEF Matches
<1>2. PICK s \in RanOf(src.stmts) : s.k \in {"if", "to"} /\ s.n = n
  BY DEF Targets
<1>3. n \in Idents /\ n \in Labels
  BY <1>1, <1>2 DEF SourceOk, Labels
<1>4. Definitions(src, n) # {}
  BY <1>2 DEF Legal
<1>5. PICK t \in RanOf(src.stmts) : t.k = "tag" /\ t.n = n
  BY <1>4 DEF Definitions, RanOf
<1>6. n \notin Defined(src)
  BY <1>5 DEF Promising, Shared
<1>7. /\ module.labels[n] \in Nat /\ module.labels[n] # NoBlock
      /\ module.labels[n] <= Len(module.blocks) /\ module.labels[n] \notin 1 .. Known
  BY <1>1, <1>3, <1>5, <1>6 DEF NamesOk, ModuleOk, Known
<1>8. Known \in Nat /\ Len(module.blocks) \in Nat
  BY <1>1 DEF SourceOk, ModuleOk, Known
<1> QED
  BY <1>7, <1>8 DEF NoBlock

\* Where a call leads.
LEMMA CalleeBlock ==
    ASSUME Matches(module, src), NEW n \in Idents, module.functions[n] \in Nat
    PROVE  /\ module.labels[n] \in 1 .. Known /\ Known <= Len(module.blocks)
           /\ module.functions[n] = Len(src.funcs[module.labels[n]].params)
<1>1. SourceOk(src) /\ NamesOk(module, src) /\ BlocksOk(module, src)
  BY DEF Matches
<1>2. n \in Defined(src)
  BY <1>1 DEF NamesOk, NoFunc
<1>3. PICK j \in 1 .. Len(src.funcs) : n = src.funcs[j].n
  BY <1>1, <1>2, NamesKnown
<1> QED
  BY <1>1, <1>3 DEF NamesOk, BlocksOk, Known

\* CALL: the record of the caller loses the arguments, the callee's has them.
LEMMA CallRuns ==
    ASSUME Matches(module, src), Runs(loops, ars), ~Ended(Loop), Fetched.op = "CALL",
           NEW ar, IsRecord(ar), Len(ar.args) = Len(Record.args),
           Len(ar.tmps) = Len(Record.tmps) - module.functions[Fetched.n],
           NEW new, IsRecord(new), Len(new.tmps) = 0, Len(new.args) = module.functions[Fetched.n]
    PROVE  Runs(Append(Advanced, [block |-> module.labels[Fetched.n], ip |-> 1]),
                Append(Append(Callers, ar), new))
<1> DEFINE l  == [block |-> module.labels[Fetched.n], ip |-> 1]
           ls == Append(Advanced, l)
           rs == Append(Append(Callers, ar), new)
           n  == Len(loops)
           b  == module.labels[Fetched.n]
           cnt == module.functions[Fetched.n]
<1>1. LoopsOk(loops) /\ RecordsOk(loops, ars)
  BY DEF Runs
<1>2. /\ n \in Nat /\ n > 0 /\ Known \in Nat /\ IsLoop(Loop) /\ Loop = loops[n]
      /\ (n = 1 <=> Loop.block > Known)
  BY <1>1, TopLoop
<1>3. /\ IsLoop(Stepped) /\ Len(ars) = n /\ Record = ars[n] /\ IsSeq(ars)
      /\ Len(Record.args) = Args(n, Loop) /\ Len(Record.tmps) \in Nat
      /\ Height(Stepped) = Len(Record.tmps) - Takes(Fetched, module.functions) + Gives(Fetched)
      /\ Fetched.n \in Idents /\ cnt \in Nat
      /\ n > 1 => ~Ended(Stepped)
  BY <1>1, TopFacts
<1>4. Takes(Fetched, module.functions) = cnt /\ Gives(Fetched) = 1
  BY DEF Takes, Gives, Popping1, Pushing
<1>5. Len(ar.tmps) = Height(Stepped) - 1
  BY <1>3, <1>4
<1>6. b \in 1 .. Known /\ b \in 1 .. Len(module.blocks) /\ cnt = Len(src.funcs[b].params)
  <2>1. b \in 1 .. Known /\ Known <= Len(module.blocks) /\ cnt = Len(src.funcs[b].params)
    BY <1>3, CalleeBlock
  <2>2. Len(module.blocks) \in Nat
    BY DEF Matches, ModuleOk
  <2> HIDE DEF b
  <2> QED
    BY <1>2, <2>1, <2>2
<1>7. FuncHeights(module.blocks[b], module.functions, Len(src.funcs[b].params), HeightsOf(b))
  <2>1. b <= Known
    BY SMTT(60), <1>2, <1>6
  <2> HIDE DEF b
  <2> QED
    BY <1>6, <2>1, BlockHeights
<1>8. HeightsOf(b)[1] = 0 /\ Len(module.blocks[b]) >= 2 /\ Len(module.blocks[b]) \in Nat
  <2>1. CodeOk(module.blocks[b], module.functions)
    BY SMTT(60), <1>6, BlockHeights
  <2>2. Len(module.blocks[b]) \in Nat
    BY SMTT(60), <2>1 DEF CodeOk
  <2> QED
    BY <1>7, <2>2 DEF FuncHeights, Heights
<1> HIDE DEF b, cnt
<1>9. l.block = b /\ l.ip = 1 /\ IsLoop(l) /\ Height(l) = 0 /\ ~Ended(l)
  BY SMTT(60), <1>6, <1>8 DEF IsLoop, Code, Height, Ended, b
<1> HIDE DEF l
<1>10. /\ IsSeq(ls) /\ Len(ls) = n + 1 /\ ls[n + 1] = l /\ ls[n] = Stepped
       /\ \A i \in 1 .. (n - 1) : ls[i] = loops[i]
  <2>1. /\ IsSeq(Advanced) /\ Len(Advanced) = n /\ Advanced[n] = Stepped
        /\ \A i \in 1 .. (n - 1) : Advanced[i] = loops[i]
    BY <1>1, AdvancedFacts
  <2>2. DOMAIN Advanced = 1 .. n
    BY <2>1, SeqFacts
  <2>3. /\ IsSeq(ls) /\ Len(ls) = n + 1 /\ ls[n + 1] = l
        /\ \A i \in 1 .. n : ls[i] = Advanced[i]
    BY <2>1, <2>2, AppendFacts
  <2> HIDE DEF ls, n
  <2>4. n \in 1 .. n /\ \A i \in 1 .. (n - 1) : i \in 1 .. n
    BY <1>2
  <2> QED
    BY <2>1, <2>3, <2>4
<1>11. /\ IsSeq(rs) /\ Len(rs) = n + 1 /\ rs[n + 1] = new /\ rs[n] = ar
       /\ \A i \in 1 .. (n - 1) : rs[i] = ars[i]
  <2> DEFINE u == Append(Callers, ar)
  <2>1. /\ IsSeq(u) /\ Len(u) = n /\ u[n] = ar
        /\ \A i \in 1 .. (n - 1) : u[i] = ars[i]
    BY <1>2, <1>3, TopReplaced DEF Callers
  <2>2. DOMAIN u = 1 .. n
    BY <2>1, SeqFacts
  <2>3. /\ IsSeq(rs) /\ Len(rs) = n + 1 /\ rs[n + 1] = new
        /\ \A i \in 1 .. n : rs[i] = u[i]
    BY SMTT(60), <2>1, <2>2, AppendFacts
  <2> HIDE DEF rs, n, u
  <2>4. n \in 1 .. n /\ \A i \in 1 .. (n - 1) : i \in 1 .. n
    BY <1>2
  <2> QED
    BY <2>1, <2>3, <2>4
<1>12. Stepped.block = Loop.block
  BY DEF Stepped
<1> HIDE DEF ls, rs, n
<1>13. LoopsOk(ls)
  <2>1. ASSUME NEW i \in 1 .. (n + 1) PROVE IsLoop(ls[i]) /\ (i = 1 <=> ls[i].block > Known)
    <3>1. CASE i = n + 1
      BY <1>2, <1>6, <1>9, <1>10, <3>1
    <3>2. CASE i = n
      BY <1>2, <1>3, <1>10, <1>12, <3>2
    <3>3. CASE i \in 1 .. (n - 1)
      <4>1. i \in 1 .. n
        BY <1>2, <3>3
      <4> QED
        BY <1>1, <1>10, <3>3, <4>1 DEF LoopsOk, n
    <3> QED
      BY <1>2, <3>1, <3>2, <3>3
  <2>2. ASSUME NEW i \in 2 .. n PROVE ~Ended(ls[i])
    <3>1. CASE i = n
      BY <1>3, <1>10, <3>1
    <3>2. CASE i # n
      <4>1. i \in 2 .. (n - 1) /\ i \in 1 .. (n - 1)
        BY <1>2, <3>2
      <4> QED
        BY <1>1, <1>10, <4>1 DEF LoopsOk, n
    <3> QED
      BY <3>1, <3>2
  <2>3. (n + 1) - 1 = n /\ n + 1 > 0
    BY <1>2
  <2> QED
    BY <1>10, <2>1, <2>2, <2>3 DEF LoopsOk
<1>14. RecordsOk(ls, rs)
  <2>1. ~Returned(ls)
    BY <1>9, <1>10 DEF Returned
  <2>2. ASSUME NEW i \in 1 .. (n + 1)
        PROVE  /\ IsRecord(rs[i])
               /\ Len(rs[i].tmps) = Height(ls[i]) - (IF i < n + 1 THEN 1 ELSE 0)
               /\ Len(rs[i].args) = Args(i, ls[i])
    <3>1. CASE i = n + 1
      <4>1. ~(i < n + 1) /\ i # 1
        BY <1>2, <3>1
      <4>2. Len(new.args) = Args(i, l)
        BY <1>6, <1>9, <4>1 DEF Args, cnt
      <4> QED
        BY <1>9, <1>10, <1>11, <3>1, <4>1, <4>2
    <3>2. CASE i = n
      <4>1. Len(ar.args) = Args(n, Stepped)
        BY <1>3, <1>12 DEF Args
      <4>2. i < n + 1
        BY <1>2, <3>2
      <4> QED
        BY <1>5, <1>10, <1>11, <3>2, <4>1, <4>2
    <3>3. CASE i \in 1 .. (n - 1)
      <4>1. rs[i] = ars[i] /\ ls[i] = loops[i] /\ i \in 1 .. Len(ars) /\ i < n + 1 /\ i < Len(ars)
        BY SMTT(60), <1>2, <1>3, <1>10, <1>11, <3>3
      <4> QED
        BY <1>1, <4>1 DEF RecordsOk
    <3> QED
      BY <1>2, <3>1, <3>2, <3>3
  <2> QED
    BY <1>10, <1>11, <2>1, <2>2 DEF RecordsOk
<1> QED
  BY <1>13, <1>14 DEF Runs, ls, rs, l

LEMMA PushFacts ==
    ASSUME NEW ar, IsRecord(ar), NEW v
    PROVE  /\ IsRecord(pushTmp(ar, v)) /\ pushTmp(ar, v).args = ar.args
           /\ Len(pushTmp(ar, v).tmps) = Len(ar.tmps) + 1
<1> DEFINE ts == Append(ar.tmps, v)
<1>1. IsSeq(ar.tmps) /\ IsSeq(ar.args) /\ ar = [args |-> ar.args, tmps |-> ar.tmps]
  BY DEF IsRecord
<1>2. IsSeq(ts) /\ Len(ts) = Len(ar.tmps) + 1
  BY <1>1, AppendFacts
<1> HIDE DEF ts
<1>3. pushTmp(ar, v) = [args |-> ar.args, tmps |-> ts]
  BY <1>1 DEF pushTmp, ts
<1> QED
  BY <1>1, <1>2, <1>3 DEF IsRecord

LEMMA PoppingFacts ==
    ASSUME IsRecord(Record), NEW n \in 0 .. Len(Record.tmps)
    PROVE  /\ IsRecord(Popping(n)) /\ Popping(n).args = Record.args
           /\ Len(Popping(n).tmps) = Len(Record.tmps) - n
           /\ IsSeq(Popped(n)) /\ Len(Popped(n)) = n
<1> DEFINE ts == Record.tmps
           l  == Len(ts)
<1>1. IsSeq(ts) /\ IsSeq(Record.args) /\ Record = [args |-> Record.args, tmps |-> ts]
  BY DEF IsRecord
<1>2. l \in Nat /\ DOMAIN ts = 1 .. l /\ ts \in Seq(RanOf(ts))
  BY <1>1, SeqFacts DEF IsSeq
<1> HIDE DEF ts, l
<1>3. IsSeq(Below(n)) /\ Len(Below(n)) = l - n
  <2> DEFINE m == l - n
             u == SubSeq(ts, 1, m)
  <2>1. m \in Nat /\ m \in Int /\ 1 \in Int /\ \A i \in 1 .. m : i \in 1 .. l
    BY <1>2 DEF l, ts
  <2> HIDE DEF m
  <2>2. u \in Seq(RanOf(ts)) /\ Len(u) = IF 1 <= m THEN m - 1 + 1 ELSE 0
    BY <1>2, <2>1, SubSeqProperties DEF l
  <2> HIDE DEF u
  <2>3. Len(u) = m /\ IsSeq(u)
    BY <2>1, <2>2, SeqOwn
  <2> QED
    BY <2>3 DEF Below, u, m, l, ts
<1>4. IsSeq(Popped(n)) /\ Len(Popped(n)) = n
  <2> DEFINE m == l - n + 1
             u == SubSeq(ts, m, l)
  <2>1. /\ m \in Int /\ l \in Int /\ (\A i \in m .. l : i \in 1 .. l) /\ n \in Nat
        /\ l - m + 1 = n /\ (m <= l <=> n # 0)
    BY <1>2 DEF l, ts
  <2> HIDE DEF m
  <2>2. u \in Seq(RanOf(ts)) /\ Len(u) = IF m <= l THEN l - m + 1 ELSE 0
    BY <1>2, <2>1, SubSeqProperties DEF l
  <2>3. Len(u) = n /\ IsSeq(u)
    BY <2>1, <2>2, SeqOwn
  <2> QED
    BY <2>3 DEF Popped, u, m, l, ts
<1>5. Popping(n) = [args |-> Record.args, tmps |-> Below(n)]
  BY <1>1 DEF Popping
<1> QED
  BY <1>1, <1>3, <1>4, <1>5 DEF IsRecord, l, ts

LEMMA HeightInNat ==
    ASSUME Matches(module, src), NEW l, IsLoop(l)
    PROVE  Height(l) \in Nat
<1>1. Heights(module.blocks[l.block], module.functions, HeightsOf(l.block))
  BY BlockHeights DEF IsLoop
<1> QED
  BY <1>1 DEF Heights, Height, IsLoop, Code

\* RET: the record goes, the caller's gets the result.
LEMMA RetRuns ==
    ASSUME Matches(module, src), Runs(loops, ars), ~Ended(Loop), Fetched.op = "RET",
           NEW v
    PROVE  Runs(Advanced, [Callers EXCEPT ![Len(Callers)] = pushTmp(@, v)])
<1> DEFINE ls == Advanced
           rs == [Callers EXCEPT ![Len(Callers)] = pushTmp(@, v)]
           n  == Len(loops)
<1>1. LoopsOk(loops) /\ RecordsOk(loops, ars)
  BY DEF Runs
<1>2. n \in Nat /\ n > 0
  BY <1>1, TopLoop
<1>3. /\ IsLoop(Stepped) /\ Len(ars) = n /\ IsSeq(ars)
      /\ n # 1 /\ (n > 1 => Ended(Stepped))
  BY <1>1, TopFacts
<1>4. LoopsOk(ls)
  BY <1>1, <1>3, AdvancedOk
<1>5. /\ Len(ls) = n /\ ls[n] = Stepped
      /\ \A i \in 1 .. (n - 1) : ls[i] = loops[i]
  BY <1>1, AdvancedFacts
<1>6. IsSeq(Callers) /\ Len(Callers) = n - 1 /\ \A i \in 1 .. (n - 1) : Callers[i] = ars[i]
  BY <1>2, <1>3, Dropped DEF Callers
<1> DEFINE ar == pushTmp(Callers[n - 1], v)
<1> HIDE DEF ls, n
<1>7. n - 1 \in 1 .. (n - 1) /\ n > 1
  BY <1>2, <1>3
<1>8. /\ IsRecord(ar) /\ Len(ar.args) = Len(ars[n - 1].args)
      /\ Len(ar.tmps) = Len(ars[n - 1].tmps) + 1
      /\ Len(ars[n - 1].tmps) \in Nat
  <2>1. IsRecord(ars[n - 1]) /\ Callers[n - 1] = ars[n - 1]
    <3>1. n - 1 \in 1 .. Len(ars)
      BY <1>3, <1>7
    <3> QED
      BY <1>1, <1>6, <1>7, <3>1 DEF RecordsOk
  <2>2. Len(ars[n - 1].tmps) \in Nat
    BY <2>1, SeqFacts DEF IsRecord
  <2> QED
    BY <2>1, <2>2, PushFacts
<1>9. rs = [Callers EXCEPT ![n - 1] = ar]
  BY <1>6
<1> HIDE DEF ar
<1>10. /\ IsSeq(rs) /\ Len(rs) = n - 1 /\ rs[n - 1] = ar
       /\ \A i \in 1 .. (n - 1) : i # n - 1 => rs[i] = ars[i]
  <2>1. DOMAIN Callers = 1 .. (n - 1)
    BY <1>6, SeqFacts
  <2> HIDE DEF rs
  <2>2. IsSeq(Callers) /\ n - 1 \in DOMAIN Callers
    BY <1>6, <1>7, <2>1
  <2>3. /\ IsSeq(rs) /\ Len(rs) = Len(Callers) /\ rs[n - 1] = ar
        /\ \A i \in DOMAIN Callers : i # n - 1 => rs[i] = Callers[i]
    <3> DEFINE i == n - 1
    <3> HIDE DEF i
    <3>1. i \in DOMAIN Callers /\ rs = [Callers EXCEPT ![i] = ar]
      BY <1>9, <2>2 DEF i
    <3>2. /\ IsSeq(rs) /\ Len(rs) = Len(Callers) /\ rs[i] = ar
          /\ \A j \in DOMAIN Callers : j # i => rs[j] = Callers[j]
      BY <2>2, <3>1, ExceptFacts
    <3> QED
      BY <3>2 DEF i
  <2> QED
    BY <1>6, <2>1, <2>3
<1> HIDE DEF rs
<1>11. RecordsOk(ls, rs)
  <2>1. Returned(ls)
    BY <1>3, <1>5, <1>7 DEF Returned
  <2>2. ASSUME NEW i \in 1 .. (n - 1)
        PROVE  /\ IsRecord(rs[i])
               /\ Len(rs[i].tmps) = Height(ls[i]) - (IF i < n - 1 THEN 1 ELSE 0)
               /\ Len(rs[i].args) = Args(i, ls[i])
    <3>1. /\ IsRecord(ars[i]) /\ Len(ars[i].tmps) = Height(ls[i]) - 1
          /\ Len(ars[i].args) = Args(i, ls[i])
      <4>1. i \in 1 .. Len(ars) /\ i < Len(ars) /\ ls[i] = loops[i]
        BY <1>3, <1>5, <1>7
      <4> QED
        BY <1>1, <4>1 DEF RecordsOk
    <3>2. CASE i = n - 1
      <4>1. Height(ls[i]) \in Nat /\ ~(i < n - 1)
        <5>1. ls[i] = loops[i] /\ i \in 1 .. Len(loops)
          BY <1>5, <1>7 DEF n
        <5>2. IsLoop(loops[i])
          BY <1>1, <5>1 DEF LoopsOk
        <5> QED
          BY <1>7, <3>2, <5>1, <5>2, HeightInNat
      <4> QED
        BY <1>8, <1>10, <3>1, <3>2, <4>1
    <3>3. CASE i # n - 1
      <4>1. i < n - 1 /\ rs[i] = ars[i]
        BY <1>7, <1>10, <3>3
      <4> QED
        BY <3>1, <4>1
    <3> QED
      BY <3>2, <3>3
  <2> QED
    BY <1>5, <1>10, <2>1, <2>2 DEF RecordsOk
<1> QED
  BY <1>4, <1>11 DEF Runs, ls, rs

\* The end of a function's loop: the caller's goes on.
LEMMA ReturnRuns ==
    ASSUME Matches(module, src), Runs(loops, ars), Ended(Loop), Len(loops) > 1
    PROVE  Runs(SubSeq(loops, 1, Len(loops) - 1), ars)
<1> DEFINE ls == SubSeq(loops, 1, Len(loops) - 1)
           n  == Len(loops)
<1>1. LoopsOk(loops) /\ RecordsOk(loops, ars)
  BY DEF Runs
<1>2. n \in Nat /\ n > 1 /\ Loop = loops[n]
  BY <1>1, TopLoop
<1>3. IsSeq(ls) /\ Len(ls) = n - 1 /\ \A i \in 1 .. (n - 1) : ls[i] = loops[i]
  BY <1>1, Dropped DEF LoopsOk
<1>4. IsSeq(ars) /\ Len(ars) = n - 1
  BY <1>1, <1>2 DEF RecordsOk, Returned
<1> HIDE DEF ls, n
<1>5. \A i \in 1 .. (n - 1) : i \in 1 .. n
  BY <1>2
<1>6. LoopsOk(ls)
  <2>1. \A i \in 1 .. (n - 1) : IsLoop(ls[i]) /\ (i = 1 <=> ls[i].block > Known)
    BY <1>1, <1>3, <1>5 DEF LoopsOk, n
  <2>2. \A i \in 2 .. ((n - 1) - 1) : ~Ended(ls[i])
    <3> TAKE i \in 2 .. ((n - 1) - 1)
    <3>1. i \in 1 .. (n - 1) /\ i \in 2 .. (n - 1)
      BY <1>2
    <3> QED
      BY <1>1, <1>3, <3>1 DEF LoopsOk, n
  <2> QED
    BY <1>2, <1>3, <2>1, <2>2 DEF LoopsOk
<1>7. RecordsOk(ls, ars)
  <2>1. ~Returned(ls)
    <3>1. n - 1 > 1 => ~Ended(ls[n - 1])
      <4> HAVE n - 1 > 1
      <4>1. n - 1 \in 1 .. (n - 1) /\ n - 1 \in 2 .. (n - 1)
        BY <1>2
      <4> QED
        BY <1>1, <1>3, <4>1 DEF LoopsOk, n
    <3> QED
      BY <1>3, <3>1 DEF Returned
  <2>2. \A i \in 1 .. (n - 1) :
            /\ IsRecord(ars[i])
            /\ Len(ars[i].tmps) = Height(ls[i]) - (IF i < n - 1 THEN 1 ELSE 0)
            /\ Len(ars[i].args) = Args(i, ls[i])
    BY <1>1, <1>3, <1>4 DEF RecordsOk
  <2> QED
    BY <1>3, <1>4, <2>1, <2>2 DEF RecordsOk
<1> QED
  BY <1>6, <1>7 DEF Runs, ls

\* Main at the end of a block, or where one statement's code ends: the record
\* is as new.
LEMMA MainRecord ==
    ASSUME Matches(module, src), Runs(loops, ars), Len(loops) = 1, Height(Loop) = 0
    PROVE  ars = <<NewRecord>>
<1>1. LoopsOk(loops) /\ RecordsOk(loops, ars)
  BY DEF Runs
<1>2. Loop = loops[1]
  BY DEF Loop
<1>3. IsSeq(ars) /\ Len(ars) = 1
  BY <1>1 DEF RecordsOk, Returned
<1>4. /\ IsRecord(ars[1]) /\ Len(ars[1].tmps) = 0 /\ Len(ars[1].args) = 0
  <2>1. 1 \in 1 .. Len(ars) /\ ~(1 < Len(ars))
    BY <1>3
  <2>2. IsRecord(ars[1]) /\ Len(ars[1].tmps) = Height(loops[1]) - 0 /\ Len(ars[1].args) = 0
    BY <1>1, <2>1 DEF RecordsOk, Args
  <2> QED
    BY <1>2, <2>2
<1>5. ars[1].tmps = <<>> /\ ars[1].args = <<>>
  BY <1>4, SeqFacts DEF IsRecord
<1>6. ars[1] = NewRecord
  BY <1>4, <1>5 DEF IsRecord, NewRecord
<1> QED
  BY <1>3, <1>6 DEF IsSeq

LEMMA EndHeight ==
    ASSUME Matches(module, src), LoopsOk(loops), Len(loops) = 1, Ended(Loop)
    PROVE  Height(Loop) = 0
<1>1. /\ Loop.block \in 1 .. Len(module.blocks) /\ Loop.block > Known
      /\ Loop.ip = Len(Code(Loop)) + 1
  BY TopLoop
<1>2. MainHeights(module.blocks[Loop.block], module.functions, HeightsOf(Loop.block))
  BY <1>1, BlockHeights
<1> QED
  BY <1>1, <1>2 DEF MainHeights, Height, Code

-----------------------------------------------------------------------------
(***************************************************************************)
(* The steps of the run.                                                   *)
(***************************************************************************)

\* Replace(n, v) and, with no value pushed, the pops of STORE, WRITE and JIT.
LEMMA ReplaceRuns ==
    ASSUME Matches(module, src), Runs(loops, ars), ~Ended(Loop),
           Fetched.op \in {"LI", "LOAD", "READ", "ARG", "OPR"},
           NEW n, n = Takes(Fetched, module.functions), NEW v
    PROVE  Runs(Advanced, Append(Callers, pushTmp(Popping(n), v)))
<1> DEFINE ar == pushTmp(Popping(n), v)
<1>1. /\ IsRecord(Record) /\ n \in 0 .. Len(Record.tmps) /\ Len(Record.tmps) \in Nat
  BY TopFacts DEF Runs
<1>2. /\ IsRecord(Popping(n)) /\ Popping(n).args = Record.args
      /\ Len(Popping(n).tmps) = Len(Record.tmps) - n
  BY <1>1, PoppingFacts
<1>3. /\ IsRecord(ar) /\ ar.args = Record.args /\ Len(ar.tmps) = Len(Record.tmps) - n + 1
  BY <1>2, PushFacts
<1> HIDE DEF ar
<1>4. Gives(Fetched) = 1 /\ Fetched.op \notin {"RET", "CALL"}
  BY DEF Gives, Pushing
<1> QED
  BY <1>3, <1>4, StepRuns DEF ar

LEMMA TakeRuns ==
    ASSUME Matches(module, src), Runs(loops, ars), ~Ended(Loop),
           Fetched.op \in {"STORE", "WRITE", "JIT"}
    PROVE  /\ Runs(Advanced, Append(Callers, Popping(1)))
           /\ IsRecord(Popping(1)) /\ Popping(1).args = Record.args
           /\ Len(Popping(1).tmps) = Height(Stepped)
<1>1. Takes(Fetched, module.functions) = 1 /\ Gives(Fetched) = 0 /\ Fetched.op \notin {"RET", "CALL"}
  BY DEF Takes, Gives, Popping1, Pushing
<1>2. /\ IsRecord(Record) /\ 1 \in 0 .. Len(Record.tmps) /\ Len(Record.tmps) \in Nat
      /\ Height(Stepped) = Len(Record.tmps) - 1 + 0
  BY <1>1, TopFacts DEF Runs
<1>3. /\ IsRecord(Popping(1)) /\ Popping(1).args = Record.args
      /\ Len(Popping(1).tmps) = Len(Record.tmps) - 1
  BY <1>2, PoppingFacts
<1>4. Len(Popping(1).tmps) = Len(Record.tmps) - Takes(Fetched, module.functions) + Gives(Fetched)
  BY <1>1, <1>2, <1>3
<1>5. Runs(Advanced, Append(Callers, Popping(1)))
  BY <1>1, <1>3, <1>4, StepRuns
<1> QED
  BY <1>2, <1>3, <1>5

LEMMA PassRuns ==
    ASSUME Matches(module, src), Runs(loops, ars), ~Ended(Loop), Fetched.op \in {"DEF", "LABEL"}
    PROVE  Runs(Advanced, ars)
<1>1. Takes(Fetched, module.functions) = 0 /\ Gives(Fetched) = 0 /\ Fetched.op \notin {"RET", "CALL"}
  BY DEF Takes, Gives, Popping1, Pushing
<1>2. /\ IsRecord(Record) /\ Len(Record.tmps) \in Nat /\ IsSeq(ars)
      /\ Len(ars) = Len(loops) /\ Record = ars[Len(ars)]
      /\ Len(loops) \in Nat /\ Len(loops) > 0
  BY TopFacts, TopLoop DEF Runs
<1>3. Runs(Advanced, Append(Callers, Record))
  <2>1. Len(Record.tmps) = Len(Record.tmps) - Takes(Fetched, module.functions) + Gives(Fetched)
    BY <1>1, <1>2
  <2> QED
    BY <1>1, <1>2, <2>1, StepRuns
<1>4. Append(Callers, Record) = ars
  <2> DEFINE t == Append(Callers, Record)
  <2>1. /\ IsSeq(t) /\ Len(t) = Len(ars) /\ t[Len(ars)] = Record
        /\ \A i \in 1 .. (Len(ars) - 1) : t[i] = ars[i]
    BY <1>2, TopReplaced DEF Callers
  <2> HIDE DEF t
  <2>2. \A i \in 1 .. Len(ars) : t[i] = ars[i]
    BY <1>2, <2>1
  <2>3. t = ars
    BY <1>2, <2>1, <2>2, SameSeq
  <2> QED
    BY <2>3 DEF t
<1> QED
  BY <1>3, <1>4

\* A sequence with its last element replaced, in both ways the runtime does it.
WithLast(s, x) == [s EXCEPT ![Len(s)] = x]
WithTop(s, x)  == Append(SubSeq(s, 1, Len(s) - 1), x)

LEMMA OneReplaced ==
    ASSUME NEW s, IsSeq(s), Len(s) = 1, NEW x
    PROVE  /\ IsSeq(WithLast(s, x)) /\ Len(WithLast(s, x)) = 1 /\ WithLast(s, x)[1] = x
           /\ IsSeq(WithTop(s, x)) /\ Len(WithTop(s, x)) = 1 /\ WithTop(s, x)[1] = x
<1>1. Len(s) \in DOMAIN s /\ Len(s) > 0
  BY SeqFacts
<1>2. LET t == [s EXCEPT ![Len(s)] = x] IN IsSeq(t) /\ Len(t) = Len(s) /\ t[Len(s)] = x
  BY ZenonT(60), <1>1, ExceptFacts
<1>3. LET u == Append(SubSeq(s, 1, Len(s) - 1), x) IN IsSeq(u) /\ Len(u) = Len(s) /\ u[Len(s)] = x
  BY <1>1, TopReplaced
<1> QED
  BY <1>2, <1>3 DEF WithLast, WithTop

\* JumpTo(n).
Jumped(n) == WithLast(loops, [block |-> module.labels[n], ip |-> 1])

\* A jump: main goes on at the start of another block, its record empty.
LEMMA JumpRuns ==
    ASSUME Matches(module, src), Promising, Legal(src), Runs(loops, ars), ~Ended(Loop),
           Fetched.op \in {"JIT", "JUMP"}
    PROVE  /\ Fetched.op = "JIT" => Runs(Jumped(Fetched.n), Append(Callers, Popping(1)))
           /\ Fetched.op = "JUMP" => Runs(Jumped(Fetched.n), ars)
<1> DEFINE b  == module.labels[Fetched.n]
           ls == Jumped(Fetched.n)
<1>1. LoopsOk(loops) /\ RecordsOk(loops, ars)
  BY DEF Runs
<1>2. Len(loops) = 1 /\ IsSeq(loops)
  BY <1>1, TopFacts, TopLoop DEF LoopsOk
<1>3. /\ Height(Stepped) = 0 /\ Fetched.n \in Targets(src)
      /\ IsSeq(ars) /\ Len(ars) = 1 /\ Record = ars[1] /\ IsRecord(Record)
      /\ Len(Record.args) = 0 /\ Len(Record.tmps) \in Nat
      /\ Height(Stepped) = Len(Record.tmps) - Takes(Fetched, module.functions) + Gives(Fetched)
  BY <1>1, <1>2, TopFacts DEF Args
<1>4. b \in 1 .. Len(module.blocks) /\ b > Known
  BY <1>3, TargetBlock
<1>5. IsSeq(ls) /\ Len(ls) = 1 /\ ls[1] = [block |-> b, ip |-> 1]
  BY <1>2, OneReplaced DEF Jumped
<1> HIDE DEF b, ls
<1>6. Fetched.op = "JIT" => Runs(ls, Append(Callers, Popping(1)))
  <2> HAVE Fetched.op = "JIT"
  <2> DEFINE r == Popping(1)
             t == WithTop(ars, r)
  <2>1. IsRecord(r) /\ Len(r.args) = 0 /\ Len(r.tmps) = 0
    BY <1>3, TakeRuns
  <2>2. IsSeq(t) /\ Len(t) = 1 /\ t[1] = r
    BY <1>3, OneReplaced
  <2> HIDE DEF t, r
  <2>3. Runs(ls, t)
    BY <1>4, <1>5, <2>1, <2>2, MainRuns
  <2> QED
    BY <2>3 DEF t, r, WithTop, Callers
<1>7. Fetched.op = "JUMP" => Runs(ls, ars)
  <2> HAVE Fetched.op = "JUMP"
  <2>1. Takes(Fetched, module.functions) = 0 /\ Gives(Fetched) = 0
    BY DEF Takes, Gives, Popping1, Pushing
  <2>2. Len(Record.tmps) = 0
    BY <1>3, <2>1
  <2> QED
    BY <1>3, <1>4, <1>5, <2>2, MainRuns
<1> QED
  BY <1>6, <1>7 DEF ls

\* run enters a block.
LEMMA MainStart ==
    ASSUME Matches(module, src), NEW b \in 1 .. Len(module.blocks), b > Known
    PROVE  Runs(<<[block |-> b, ip |-> 1]>>, <<NewRecord>>)
<1> DEFINE l  == [block |-> b, ip |-> 1]
           ls == <<l>>
           rs == <<NewRecord>>
<1> HIDE DEF l
<1>1. IsSeq(ls) /\ Len(ls) = 1 /\ ls[1] = l
  BY DEF IsSeq, RanOf
<1>2. IsSeq(rs) /\ Len(rs) = 1 /\ rs[1] = NewRecord
  BY DEF IsSeq, RanOf
<1>3. IsRecord(NewRecord) /\ Len(NewRecord.args) = 0 /\ Len(NewRecord.tmps) = 0
  BY EmptyFacts DEF IsRecord, NewRecord
<1> HIDE DEF ls, rs
<1>4. Runs(ls, rs)
  BY <1>1, <1>2, <1>3, MainRuns DEF l
<1> QED
  BY <1>4 DEF ls, rs, l

\* The functions counted are those defined.
LEMMA CountFacts ==
    ASSUME Matches(module, src), Promising
    PROVE  functionCount(module) = Known /\ Known \in Nat
<1>1. NamesOk(module, src) /\ SourceOk(src) /\ ModuleOk(module)
  BY DEF Matches
<1>2. Known \in Nat
  BY <1>1 DEF SourceOk, Known
<1>0. \A j \in DOMAIN src.funcs :
          src.funcs[j].n \in Idents /\ src.funcs[j].params \in Seq(Idents) /\ j \in 1 .. Len(src.funcs)
  <2> DEFINE F  == [n : Idents, params : Seq(Idents), e : Exps]
             fs == src.funcs
  <2>1. fs \in Seq(F)
    BY <1>1 DEF SourceOk
  <2>2. \A x \in F : x.n \in Idents /\ x.params \in Seq(Idents)
    OBVIOUS
  <2> HIDE DEF F, fs
  <2>3. \A j \in DOMAIN fs : fs[j] \in F /\ j \in 1 .. Len(fs)
    BY <2>1
  <2> QED
    BY <2>2, <2>3 DEF fs
<1>3. ASSUME NEW n \in Idents PROVE n \in Defined(src) <=> module.functions[n] # NoFunc
  <2>1. CASE n \in Defined(src)
    <3>1. PICK j \in 1 .. Len(src.funcs) : n = src.funcs[j].n
      BY <1>1, <2>1, NamesKnown
    <3>2. module.functions[n] = Len(src.funcs[j].params)
      BY <1>1, <3>1 DEF NamesOk
    <3>3. Len(src.funcs[j].params) \in Nat
      <4>0. DOMAIN src.funcs = 1 .. Len(src.funcs)
        BY <1>1 DEF SourceOk
      <4>1. src.funcs[j].params \in Seq(Idents)
        BY <1>0, <3>1, <4>0
      <4> QED
        BY <4>1
    <3> QED
      BY <2>1, <3>2, <3>3 DEF NoFunc
  <2>2. CASE n \notin Defined(src)
    BY <1>1, <2>2 DEF NamesOk
  <2> QED
    BY <2>1, <2>2
<1>4. Defined(src) \subseteq Idents
  BY <1>0 DEF Defined, RanOf
<1> DEFINE S == {n \in Idents : module.functions[n] # NoFunc}
<1>5. S = Defined(src)
  BY <1>3, <1>4
<1>6. functionCount(module) = Len(src.funcs)
  BY <1>5 DEF functionCount, Promising, LegalSoFar
<1> QED
  BY <1>2, <1>6 DEF Known

\* The start of run finds main's first block.
LEMMA BootRuns ==
    ASSUME Matches(module, src), Promising, Len(module.blocks) > Known
    PROVE  Runs(<<[block |-> getMainBlock(module), ip |-> 1]>>, <<NewRecord>>)
<1>1. functionCount(module) = Known /\ Known \in Nat
  BY CountFacts
<1>2. Len(module.blocks) \in Nat
  BY DEF Matches, ModuleOk
<1>3. getMainBlock(module) \in 1 .. Len(module.blocks) /\ getMainBlock(module) > Known
  BY <1>1, <1>2 DEF getMainBlock
<1> QED
  BY <1>3, MainStart

\* One record more, and one more.
LEMMA TwoMore ==
    ASSUME NEW s, IsSeq(s), NEW x, NEW y
    PROVE  s \o <<x, y>> = Append(Append(s, x), y)
<1> DEFINE S == RanOf(s) \cup {x, y}
<1>1. s \in Seq(S) /\ x \in S /\ y \in S
  <2>1. RanOf(s) \subseteq S
    OBVIOUS
  <2>2. Seq(RanOf(s)) \subseteq Seq(S)
    BY <2>1
  <2> QED
    BY <2>2 DEF IsSeq
<1> HIDE DEF S
<1> QED
  BY <1>1

\* CALL, as it is executed.
LEMMA ExecCallRuns ==
    ASSUME Matches(module, src), Runs(loops, ars), ~Ended(Loop), Fetched.op = "CALL",
           NEW cnt, cnt = module.functions[Fetched.n]
    PROVE  Runs(Append(Advanced, [block |-> module.labels[Fetched.n], ip |-> 1]),
                Callers \o <<Popping(cnt), [NewRecord EXCEPT !.args = Arguments(cnt)]>>)
<1> DEFINE ar  == Popping(cnt)
           new == [NewRecord EXCEPT !.args = Arguments(cnt)]
<1>1. /\ IsRecord(Record) /\ IsSeq(ars) /\ Len(ars) = Len(loops) /\ Len(loops) > 0
      /\ Takes(Fetched, module.functions) \in 0 .. Len(Record.tmps)
  BY TopFacts, TopLoop DEF Runs
<1>2. cnt \in 0 .. Len(Record.tmps)
  BY <1>1 DEF Takes
<1>3. /\ IsRecord(ar) /\ ar.args = Record.args /\ Len(ar.tmps) = Len(Record.tmps) - cnt
      /\ IsSeq(Popped(cnt)) /\ Len(Popped(cnt)) = cnt
  BY <1>1, <1>2, PoppingFacts
<1>4. new = [args |-> Popped(cnt), tmps |-> <<>>]
  BY DEF NewRecord, Arguments
<1>5. IsRecord(new) /\ Len(new.tmps) = 0 /\ Len(new.args) = cnt
  BY <1>3, <1>4, EmptyFacts DEF IsRecord
<1>6. IsSeq(Callers)
  BY <1>1, Dropped DEF Callers
<1> HIDE DEF ar, new
<1>7. Callers \o <<ar, new>> = Append(Append(Callers, ar), new)
  BY <1>6, TwoMore
<1>8. Runs(Append(Advanced, [block |-> module.labels[Fetched.n], ip |-> 1]),
           Append(Append(Callers, ar), new))
  BY <1>3, <1>5, CallRuns
<1> QED
  BY <1>7, <1>8 DEF ar, new

\* run goes on with the block after the one it has ended.
LEMMA NextRuns ==
    ASSUME Matches(module, src), Runs(loops, ars), Ended(Loop), Len(loops) = 1,
           Loop.block < Len(module.blocks)
    PROVE  Runs(<<[block |-> Loop.block + 1, ip |-> 1]>>, ars)
<1>1. ars = <<NewRecord>>
  BY EndHeight, MainRecord DEF Runs
<1>2. /\ Loop.block \in 1 .. Len(module.blocks) /\ Loop.block > Known /\ Known \in Nat
      /\ Len(module.blocks) \in Nat
  BY TopLoop DEF Runs, Matches, ModuleOk
<1>3. Loop.block + 1 \in 1 .. Len(module.blocks) /\ Loop.block + 1 > Known
  BY <1>2
<1> QED
  BY <1>1, <1>3, MainStart

LEMMA EndRuns ==
    ASSUME Matches(module, src), Runs(loops, ars), EndOfBlock
    PROVE  Runs(loops', ars')
<1>1. Ended(Loop) /\ ars' = ars
  BY DEF EndOfBlock
<1>2. CASE Len(loops) > 1 /\ loops' = SubSeq(loops, 1, Len(loops) - 1)
  BY <1>1, <1>2, ReturnRuns
<1>3. CASE /\ Len(loops) = 1 /\ Loop.block < Len(module.blocks)
           /\ loops' = <<[block |-> Loop.block + 1, ip |-> 1]>>
  BY <1>1, <1>3, NextRuns
<1>4. CASE loops' = loops
  BY <1>1, <1>4
<1> QED
  BY <1>2, <1>3, <1>4 DEF EndOfBlock

\* Every step of the run keeps the records those of the loops.
LEMMA ExecRuns ==
    ASSUME Matches(module, src), Promising, Legal(src), Runs(loops, ars), Execute
    PROVE  Runs(loops', ars')
<1>1. CASE Pass
  <2>1. ~Ended(Loop) /\ Fetched.op \in {"DEF", "LABEL"} /\ loops' = Advanced /\ ars' = ars
    BY <1>1 DEF Pass, Fetch, Advance
  <2> QED
    BY <2>1, PassRuns
<1>2. ASSUME NEW op \in {"LI", "LOAD", "READ", "ARG", "OPR"}, Fetch(op), NEW n, NEW v,
             n = Takes(Fetched, module.functions), Replace(n, v)
      PROVE  Runs(loops', ars')
  <2>1. ~Ended(Loop) /\ Fetched.op = op /\ loops' = Advanced
    BY <1>2 DEF Fetch, Replace, Advance
  <2>2. ars' = Append(Callers, pushTmp(Popping(n), v))
    BY <1>2 DEF Replace
  <2>3. Runs(Advanced, Append(Callers, pushTmp(Popping(n), v)))
    BY <1>2, <2>1, ReplaceRuns
  <2> QED
    BY <2>1, <2>2, <2>3
<1>3. CASE executeLi
  <2>1. 0 = Takes(Fetched, module.functions)
    BY <1>3 DEF executeLi, Fetch, Takes, Popping1
  <2> QED
    BY <1>2, <1>3, <2>1 DEF executeLi
<1>4. CASE executeLoad
  <2>1. 0 = Takes(Fetched, module.functions)
    BY <1>4 DEF executeLoad, Fetch, Takes, Popping1
  <2> QED
    BY <1>2, <1>4, <2>1 DEF executeLoad
<1>5. CASE executeRead
  <2>1. 0 = Takes(Fetched, module.functions)
    BY <1>5 DEF executeRead, Fetch, Takes, Popping1
  <2> QED
    BY <1>2, <1>5, <2>1 DEF executeRead
<1>6. CASE executeArg
  <2>1. 0 = Takes(Fetched, module.functions)
    BY <1>6 DEF executeArg, Fetch, Takes, Popping1
  <2> QED
    BY <1>2, <1>6, <2>1 DEF executeArg
<1>7. CASE executeOpr
  <2>1. Fetched.ix = Takes(Fetched, module.functions)
    BY <1>7 DEF executeOpr, Fetch, Takes
  <2> QED
    BY <1>2, <1>7, <2>1 DEF executeOpr
<1>8. CASE executeStore \/ executeWrite
  <2>1. /\ ~Ended(Loop) /\ Fetched.op \in {"STORE", "WRITE", "JIT"} /\ loops' = Advanced
        /\ ars' = Append(Callers, Popping(1))
    BY <1>8 DEF executeStore, executeWrite, Fetch, Advance
  <2> QED
    BY <2>1, TakeRuns
<1>9. CASE executeCall
  <2> DEFINE cnt == module.functions[Fetched.n]
  <2>1. /\ ~Ended(Loop) /\ Fetched.op = "CALL"
        /\ loops' = Append(Advanced, [block |-> module.labels[Fetched.n], ip |-> 1])
        /\ ars' = Callers \o <<Popping(cnt), [NewRecord EXCEPT !.args = Arguments(cnt)]>>
    BY <1>9 DEF executeCall, Fetch
  <2>2. Runs(Append(Advanced, [block |-> module.labels[Fetched.n], ip |-> 1]),
             Callers \o <<Popping(cnt), [NewRecord EXCEPT !.args = Arguments(cnt)]>>)
    BY <2>1, ExecCallRuns
  <2> HIDE DEF cnt
  <2> QED
    BY <2>1, <2>2
<1>10. CASE executeRet
  <2> DEFINE v == Popped(1)[1]
  <2>1. /\ ~Ended(Loop) /\ Fetched.op = "RET" /\ loops' = Advanced
        /\ ars' = [Callers EXCEPT ![Len(Callers)] = pushTmp(@, v)]
    BY <1>10 DEF executeRet, Fetch, Advance
  <2> HIDE DEF v
  <2>2. Runs(Advanced, [Callers EXCEPT ![Len(Callers)] = pushTmp(@, v)])
    BY <2>1, RetRuns
  <2> QED
    BY <2>1, <2>2
<1>11. CASE JumpIfTrue
  <2>1. /\ ~Ended(Loop) /\ Fetched.op = "JIT" /\ ars' = Append(Callers, Popping(1))
        /\ loops' = Jumped(Fetched.n) \/ loops' = Advanced
    BY <1>11 DEF JumpIfTrue, Fetch, Advance, JumpTo, Jumped, WithLast
  <2>2. Runs(Jumped(Fetched.n), Append(Callers, Popping(1)))
    BY <2>1, JumpRuns
  <2>3. Runs(Advanced, Append(Callers, Popping(1)))
    BY <2>1, TakeRuns
  <2> QED
    BY <2>1, <2>2, <2>3
<1>12. CASE Jump
  <2>1. ~Ended(Loop) /\ Fetched.op = "JUMP" /\ ars' = ars /\ loops' = Jumped(Fetched.n)
    BY <1>12 DEF Jump, Fetch, JumpTo, Jumped, WithLast
  <2> QED
    BY <2>1, JumpRuns
<1>13. CASE EndOfBlock
  BY <1>13, EndRuns
<1> QED
  BY <1>1, <1>3, <1>4, <1>5, <1>6, <1>7, <1>8, <1>9, <1>10, <1>11, <1>12, <1>13 DEF Execute

\* What is compiled does not change while it runs.
LEMMA RunsLater ==
    ASSUME UNCHANGED compiled, Runs(loops', ars')
    PROVE  Runs(loops, ars)'
<1>1. src' = src /\ module' = module
  BY DEF compiled
<1>2. ASSUME NEW b PROVE HeightsOf(b)' = HeightsOf(b)
  BY <1>1 DEF HeightsOf, Known
<1>3. ASSUME NEW l PROVE /\ IsLoop(l)' <=> IsLoop(l)
                         /\ Ended(l)' <=> Ended(l)
  BY <1>1 DEF IsLoop, Ended, Code
<1>4. ASSUME NEW l PROVE Height(l)' = Height(l)
  BY <1>2 DEF Height
<1>5. Known' = Known
  BY <1>1 DEF Known
<1>6. LoopsOk(loops)'
  BY <1>3, <1>5 DEF Runs, LoopsOk
<1>7. RecordsOk(loops, ars)'
  BY <1>1, <1>3, <1>4 DEF Runs, RecordsOk, Returned, Args
<1> QED
  BY <1>6, <1>7 DEF Runs

LEMMA InitPcode == Init => PcodeInv
BY InitCompiled DEF Init, PcodeInv

LEMMA NextPcode == PcodeInv /\ [PcodeNext]_vars => PcodeInv'
<1> SUFFICES ASSUME PcodeInv, [PcodeNext]_vars PROVE PcodeInv'
  OBVIOUS
<1>1. Compiled'
  BY NextCompiled DEF PcodeInv
<1>2. CASE Compile
  <2>1. phase' \notin {"running", "ended"}
    BY <1>2 DEF Compile, visitFuncDef, BeginMain, visitVarDecl, Stmt, visitGetStmt, visitTagStmt,
                visitToStmt, visitLetStmt, visitIfStmt, visitPutStmt, Generate
  <2> QED
    BY <1>1, <2>1 DEF PcodeInv
<1>3. CASE Boot
  <2>1. Matches(module, src) /\ Promising /\ Len(module.blocks) > Known /\ Legal(src)
    BY <1>3 DEF PcodeInv, Compiled, Boot, Main, Known
  <2>2. Runs(loops', ars') /\ UNCHANGED compiled
    <3>1. Runs(<<[block |-> getMainBlock(module), ip |-> 1]>>, <<NewRecord>>)
      BY <2>1, BootRuns
    <3> QED
      BY <1>3, <3>1 DEF Boot
  <2>3. Runs(loops, ars)'
    BY <2>2, RunsLater
  <2>4. Legal(src)'
    BY <2>1, <2>2 DEF compiled
  <2> QED
    BY <1>1, <2>3, <2>4 DEF PcodeInv
<1>4. CASE Execute
  <2>1. phase = "running" /\ UNCHANGED compiled
    BY <1>4 DEF Execute, Pass, executeLi, executeLoad, executeRead, executeArg, executeOpr,
                executeStore, executeWrite, executeCall, executeRet, JumpIfTrue, Jump, EndOfBlock, Fetch
  <2>2. Matches(module, src) /\ Promising /\ Legal(src) /\ Runs(loops, ars)
    BY <2>1 DEF PcodeInv, Compiled
  <2>3. Runs(loops', ars')
    BY <1>4, <2>2, ExecRuns
  <2>4. Runs(loops, ars)'
    BY <2>1, <2>3, RunsLater
  <2>5. Legal(src)'
    BY <2>1, <2>2 DEF compiled
  <2> QED
    BY <1>1, <2>4, <2>5 DEF PcodeInv
<1>5. CASE UNCHANGED vars
  <2>1. phase \in {"running", "ended"} => Legal(src)' /\ Runs(loops, ars)'
    <3> HAVE phase \in {"running", "ended"}
    <3>1. UNCHANGED compiled /\ loops' = loops /\ ars' = ars
      BY <1>5 DEF vars, compiled
    <3>2. Legal(src) /\ Runs(loops', ars')
      BY <3>1 DEF PcodeInv
    <3>3. Runs(loops, ars)'
      BY <3>1, <3>2, RunsLater
    <3> QED
      BY <3>1, <3>2, <3>3 DEF compiled
  <2>2. phase' = phase
    BY <1>5 DEF vars
  <2> QED
    BY <1>1, <2>1, <2>2 DEF PcodeInv
<1> QED
  BY <1>2, <1>3, <1>4, <1>5 DEF PcodeNext, Stopped

-----------------------------------------------------------------------------
(***************************************************************************)
(* The theorems.                                                           *)
(***************************************************************************)

\* The inductive invariant holds: the module is that of the program visited,
\* each block leaves the stack as the code alone says, and while it runs each
\* loop over instructions (PcodeRuntime::run, executeCall) has the record that
\* belongs to it, as high as its block says at the instruction it has come to.
THEOREM PcodeCorrect == PcodeSpec => []PcodeInv
<1>1. Init => PcodeInv
  BY InitPcode
<1>2. PcodeInv /\ [PcodeNext]_vars => PcodeInv'
  BY NextPcode
<1> QED
  BY <1>1, <1>2, PTL DEF PcodeSpec

LEMMA InvOperands == PcodeInv => OperandsThere
<1> SUFFICES ASSUME PcodeInv, phase = "running", ~Ended(Loop)
             PROVE  /\ Len(ars) = Len(loops)
                    /\ Pops(Fetched) <= Len(Record.tmps)
                    /\ Fetched.op = "ARG" => Fetched.ix \in DOMAIN Record.args
                    /\ Fetched.op = "RET" => Len(ars) > 1
                    /\ Fetched.op \in {"JIT", "JUMP", "CALL"} => module.labels[Fetched.n] # NoBlock
  BY DEF OperandsThere
<1>1. Matches(module, src) /\ Promising /\ Legal(src) /\ LoopsOk(loops) /\ RecordsOk(loops, ars)
  BY DEF PcodeInv, Compiled, Runs
<1>2. Len(loops) \in Nat /\ Len(loops) > 0
  BY <1>1, TopLoop
<1>3. Len(ars) = Len(loops) /\ IsRecord(Record) /\ Len(Record.tmps) \in Nat
  BY <1>1, TopFacts
<1>4. Pops(Fetched) <= Len(Record.tmps)
  <2>1. Takes(Fetched, module.functions) \in 0 .. Len(Record.tmps)
    BY <1>1, TopFacts
  <2>2. Pops(Fetched) = Takes(Fetched, module.functions)
    <3>1. CASE Fetched.op = "OPR"
      BY <3>1 DEF Pops, Takes
    <3>2. CASE Fetched.op = "CALL"
      BY <3>2 DEF Pops, Takes
    <3>3. CASE Fetched.op \in {"STORE", "WRITE", "JIT", "RET"}
      BY <3>3 DEF Pops, Takes, Popping1
    <3>4. CASE Fetched.op \notin {"OPR", "CALL", "STORE", "WRITE", "JIT", "RET"}
      BY <3>4 DEF Pops, Takes, Popping1
    <3> QED
      BY <3>1, <3>2, <3>3, <3>4
  <2> QED
    BY <1>3, <2>1, <2>2
<1>5. Fetched.op = "ARG" => Fetched.ix \in DOMAIN Record.args
  <2> HAVE Fetched.op = "ARG"
  <2>1. Fetched.ix \in 1 .. Len(Record.args)
    BY <1>1, <1>2, TopFacts
  <2> QED
    BY <1>3, <2>1, SeqFacts DEF IsRecord
<1>6. Fetched.op = "RET" => Len(ars) > 1
  BY <1>1, <1>2, TopFacts
<1>7. ASSUME Fetched.op \in {"JIT", "JUMP"} PROVE module.labels[Fetched.n] # NoBlock
  <2>1. Fetched.n \in Targets(src)
    BY <1>1, <1>2, <1>7, TopFacts
  <2> QED
    BY <1>1, <2>1, TargetBlock DEF NoBlock
<1>8. ASSUME Fetched.op = "CALL" PROVE module.labels[Fetched.n] # NoBlock
  <2>1. Fetched.n \in Idents /\ module.functions[Fetched.n] \in Nat
    BY <1>1, <1>8, TopFacts
  <2>2. module.labels[Fetched.n] \in 1 .. Known
    BY <1>1, <2>1, CalleeBlock
  <2> QED
    BY <2>2 DEF NoBlock
<1> QED
  BY <1>3, <1>4, <1>5, <1>6, <1>7, <1>8

\* For every program, in every loop over instructions and whatever calls are
\* under way, popTmp and getNthArg are never called for something that is not
\* there, and every jump and call finds its block.
THEOREM OperandsCorrect == PcodeSpec => []OperandsThere
<1>1. PcodeSpec => []PcodeInv
  BY PcodeCorrect
<1>2. PcodeInv => OperandsThere
  BY InvOperands
<1> QED
  BY <1>1, <1>2, PTL

LEMMA InvDrained == PcodeInv => StacksDrained
<1> SUFFICES ASSUME PcodeInv, phase = "running" PROVE StacksDrained
  BY DEF StacksDrained
<1>1. Matches(module, src) /\ LoopsOk(loops) /\ RecordsOk(loops, ars) /\ Runs(loops, ars)
  BY DEF PcodeInv, Compiled, Runs
<1>2. ASSUME Len(loops) = 1, \/ Ended(Loop)
                             \/ Loop.ip = 1
                             \/ Code(Loop)[Loop.ip - 1].stmt # Fetched.stmt
      PROVE  ars = <<NewRecord>>
  <2> DEFINE c == module.blocks[Loop.block]
             h == HeightsOf(Loop.block)
             k == Loop.ip
  <2>1. /\ Loop.block \in 1 .. Len(module.blocks) /\ Loop.block > Known
        /\ k \in 1 .. (Len(c) + 1) /\ Len(c) \in Nat
        /\ Ended(Loop) <=> k = Len(c) + 1
    BY <1>1, <1>2, TopLoop DEF Code
  <2>2. MainHeights(c, module.functions, h)
    BY <1>1, <2>1, BlockHeights
  <2>3. Height(Loop) = h[k] /\ Fetched = c[k] /\ Code(Loop)[Loop.ip - 1] = c[k - 1]
    BY DEF Height, Fetched, Code
  <2>4. CASE Ended(Loop)
    BY <1>1, <1>2, <2>4, EndHeight, MainRecord
  <2>5. CASE Loop.ip = 1
    <3>1. Height(Loop) = 0
      BY <2>2, <2>3, <2>5 DEF MainHeights, Heights
    <3> QED
      BY <1>1, <1>2, <3>1, MainRecord
  <2>6. CASE ~Ended(Loop) /\ Loop.ip # 1 /\ Code(Loop)[Loop.ip - 1].stmt # Fetched.stmt
    <3>1. k \in 2 .. Len(c) /\ c[k - 1].stmt # c[k].stmt
      <4>1. k # 1 /\ k # Len(c) + 1 /\ c[k - 1].stmt # c[k].stmt
        BY <2>1, <2>3, <2>6
      <4> HIDE DEF c, k
      <4> QED
        BY <2>1, <4>1
    <3>2. Height(Loop) = 0
      BY <2>2, <2>3, <3>1 DEF MainHeights
    <3> QED
      BY <1>1, <1>2, <3>2, MainRecord
  <2> QED
    BY <1>2, <2>4, <2>5, <2>6
<1>3. ASSUME ~Ended(Loop), Fetched.op = "RET" PROVE Len(Record.tmps) = 1
  <2>1. Len(loops) \in Nat /\ Len(loops) > 0
    BY <1>1, TopLoop
  <2> QED
    BY <1>1, <1>3, <2>1, TopFacts
<1> QED
  BY <1>2, <1>3 DEF StacksDrained

\* For every program, main's stack is empty between two statements and at the
\* end of a block, and RET finds the result alone: the code of no expression
\* leaves a temporary behind (PcodeVisitor) and no call takes or leaves one of
\* its caller's (executeCall, executeRet).
THEOREM DrainedCorrect == PcodeSpec => []StacksDrained
<1>1. PcodeSpec => []PcodeInv
  BY PcodeCorrect
<1>2. PcodeInv => StacksDrained
  BY InvDrained
<1> QED
  BY <1>1, <1>2, PTL
=============================================================================
