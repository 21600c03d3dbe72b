----------------------------- MODULE TreeProofs ------------------------------
(***************************************************************************)
(* Facts the proofs about Visitor, MipsMachine and Pcode share: sequences  *)
(* whose elements have no type, least numbers, and the parts of an         *)
(* expression, which are what both visitors recur over.                    *)
(***************************************************************************)
EXTENDS Meaning, WellFoundedInduction, FiniteSetTheorems, TLAPS

-----------------------------------------------------------------------------
(***************************************************************************)
(* Sequences of anything.                                                  *)
(***************************************************************************)
IsSeq(s)    == s \in Seq(RanOf(s))
AreSeqs(ss) == IsSeq(ss) /\ \A b \in DOMAIN ss : IsSeq(ss[b])

\* The indices of a sequence.
LEMMA SeqFacts ==
    ASSUME NEW s, IsSeq(s)
    PROVE  Len(s) \in Nat /\ DOMAIN s = 1 .. Len(s) /\ (s = <<>> <=> Len(s) = 0)
BY DEF IsSeq

LEMMA SeqOwn == ASSUME NEW S, NEW s \in Seq(S) PROVE IsSeq(s)
BY DEF IsSeq, RanOf

\* Append adds an element at the end.
LEMMA AppendFacts ==
    ASSUME NEW s, IsSeq(s), NEW x
    PROVE  /\ IsSeq(Append(s, x))
           /\ Len(Append(s, x)) = Len(s) + 1
           /\ Append(s, x)[Len(s) + 1] = x
           /\ \A i \in DOMAIN s : Append(s, x)[i] = s[i]
<1> DEFINE S == RanOf(s) \cup {x}
<1>1. s \in Seq(S) /\ x \in S
  BY SMT DEF IsSeq, RanOf
<1>2. Append(s, x) \in Seq(S) /\ Len(Append(s, x)) = Len(s) + 1
  BY <1>1
<1>3. /\ Append(s, x)[Len(s) + 1] = x
      /\ \A i \in DOMAIN s : Append(s, x)[i] = s[i]
  BY <1>1
<1> QED
  BY <1>2, <1>3, SeqOwn

\* The empty sequence, and a change of one element.
LEMMA AppendRange ==
    ASSUME NEW s, IsSeq(s), NEW x
    PROVE  IsSeq(Append(s, x)) /\ RanOf(Append(s, x)) = RanOf(s) \cup {x}
<1> DEFINE t == Append(s, x)
<1>1. /\ IsSeq(t) /\ Len(t) = Len(s) + 1 /\ t[Len(s) + 1] = x
      /\ \A i \in DOMAIN s : t[i] = s[i]
  BY AppendFacts
<1>2. DOMAIN t = 1 .. Len(t) /\ DOMAIN s = 1 .. Len(s) /\ Len(s) \in Nat
  BY <1>1, SeqFacts
<1> HIDE DEF t
<1>3. DOMAIN t = DOMAIN s \cup {Len(s) + 1}
  BY <1>1, <1>2
<1>4. IsSeq(t) /\ RanOf(t) = RanOf(s) \cup {x}
  BY <1>1, <1>3 DEF RanOf
<1> QED
  BY <1>4 DEF t

LEMMA SameSeq ==
    ASSUME NEW s, IsSeq(s), NEW t, IsSeq(t), Len(s) = Len(t), \A i \in 1 .. Len(s) : s[i] = t[i]
    PROVE  s = t
<1> DEFINE S == RanOf(s) \cup RanOf(t)
<1>1. s \in Seq(S) /\ t \in Seq(S)
  BY SMT DEF IsSeq, RanOf
<1> HIDE DEF S
<1> QED
  BY <1>1

LEMMA EmptyFacts == IsSeq(<<>>) /\ Len(<<>>) = 0
BY DEF IsSeq

LEMMA ExceptFacts ==
    ASSUME NEW s, IsSeq(s), NEW i \in DOMAIN s, NEW x
    PROVE  /\ IsSeq([s EXCEPT ![i] = x])
           /\ Len([s EXCEPT ![i] = x]) = Len(s)
           /\ [s EXCEPT ![i] = x][i] = x
           /\ \A j \in DOMAIN s : j # i => [s EXCEPT ![i] = x][j] = s[j]
<1> DEFINE S == RanOf(s) \cup {x}
           t == [s EXCEPT ![i] = x]
<1>1. s \in Seq(S) /\ x \in S /\ i \in 1 .. Len(s)
  BY SMT DEF IsSeq, RanOf
<1>2. t \in Seq(S) /\ Len(t) = Len(s)
  BY <1>1
<1>3. t[i] = x /\ \A j \in DOMAIN s : j # i => t[j] = s[j]
  BY <1>1
<1>4. IsSeq(t)
  BY <1>2, SeqOwn
<1> QED
  BY <1>2, <1>3, <1>4

\* The elements of a concatenation.
LEMMA ConcatFacts ==
    ASSUME NEW s, IsSeq(s), NEW t, IsSeq(t)
    PROVE  /\ IsSeq(s \o t) /\ Len(s \o t) = Len(s) + Len(t)
           /\ \A i \in 1 .. Len(s) : (s \o t)[i] = s[i]
           /\ \A i \in 1 .. Len(t) : (s \o t)[Len(s) + i] = t[i]
<1> DEFINE S == RanOf(s) \cup RanOf(t)
<1>1. s \in Seq(S) /\ t \in Seq(S)
  BY SMT DEF IsSeq, RanOf
<1> HIDE DEF S
<1>2. /\ s \o t \in Seq(S) /\ Len(s \o t) = Len(s) + Len(t)
      /\ \A i \in 1 .. Len(s) : (s \o t)[i] = s[i]
      /\ \A i \in 1 .. Len(t) : (s \o t)[Len(s) + i] = t[i]
  BY <1>1
<1> QED
  BY <1>2, SeqOwn

-----------------------------------------------------------------------------
(***************************************************************************)
(* Induction.                                                              *)
(***************************************************************************)

\* A non-empty set of naturals has a least element.
LEMMA LeastNumber ==
    ASSUME NEW T, T \subseteq Nat, T # {}
    PROVE  \E x \in T : \A y \in T : x <= y
<1>1. PICK x \in T : \A y \in T : ~ (<<y, x>> \in OpToRel(<, Nat))
  BY WFMin, NatLessThanWellFounded
<1>2. \A y \in T : ~ (y < x)
  BY <1>1 DEF OpToRel
<1> QED
  BY <1>2

\* n names for n things: no two have the same one.
LEMMA OneToOne ==
    ASSUME NEW n \in Nat, NEW T, Cardinality(T) = n, NEW f \in [1 .. n -> T],
           \A t \in T : \E i \in 1 .. n : f[i] = t
    PROVE  \A i, j \in 1 .. n : f[i] = f[j] => i = j
<1>1. IsFiniteSet(1 .. n) /\ Cardinality(1 .. n) = n
  BY FS_Interval
<1>2. f \in Surjection(1 .. n, T)
  BY DEF Surjection
<1>3. f \in Injection(1 .. n, T)
  BY <1>1, <1>2, FS_SurjSameCardinalityImpliesInj
<1> QED
  BY <1>3 DEF Injection, IsInjective

LEMMA EmptyLegal == LegalSoFar(EmptyProgram)
<1> DEFINE p == EmptyProgram
<1>1. /\ p.funcs = <<>> /\ p.decls = <<>> /\ p.stmts = <<>>
      /\ RanOf(<<>>) = {} /\ DOMAIN <<>> = {} /\ Len(<<>>) = 0
  BY DEF EmptyProgram, RanOf
<1> HIDE DEF p
<1>2. Declared(p) = {} /\ Defined(p) = {}
  BY <1>1 DEF Declared, Defined
<1>3. Cardinality(Declared(p)) = Len(p.decls) /\ Cardinality(Defined(p)) = Len(p.funcs)
  BY <1>1, <1>2, FS_EmptySet
<1>4. LegalSoFar(p)
  BY <1>1, <1>3 DEF LegalSoFar
<1> QED
  BY <1>4 DEF p

\* Of as many names as there are functions no two are the same.
LEMMA NamesDiffer ==
    ASSUME NEW p, LegalSoFar(p), IsSeq(p.funcs)
    PROVE  \A i, j \in 1 .. Len(p.funcs) : p.funcs[i].n = p.funcs[j].n => i = j
<1> DEFINE S == 1 .. Len(p.funcs)
           f == [i \in S |-> p.funcs[i].n]
<1>1. Len(p.funcs) \in Nat /\ DOMAIN p.funcs = S
  BY SeqFacts
<1>2. f \in [S -> Defined(p)]
  BY <1>1 DEF Defined, RanOf
<1>3. \A n \in Defined(p) : \E i \in S : f[i] = n
  BY <1>1 DEF Defined, RanOf
<1>4. Cardinality(Defined(p)) = Len(p.funcs)
  BY DEF LegalSoFar
<1> HIDE DEF f
<1>5. \A i, j \in S : f[i] = f[j] => i = j
  BY SMTT(60), <1>1, <1>2, <1>3, <1>4, OneToOne
<1> QED
  BY <1>5 DEF f

\* Nor of a function's parameters.
LEMMA ParamsDiffer ==
    ASSUME NEW p, LegalSoFar(p), NEW j \in DOMAIN p.funcs,
           NEW ps, ps = p.funcs[j].params, IsSeq(ps)
    PROVE  \A i, k \in 1 .. Len(ps) : ps[i] = ps[k] => i = k
<1> DEFINE S == 1 .. Len(ps)
           T == RanOf(ps)
           f == [i \in S |-> ps[i]]
<1>1. Len(ps) \in Nat /\ DOMAIN ps = S
  BY SeqFacts
<1>2. LegalFunc(p, j)
  BY DEF LegalSoFar
<1>3. Cardinality(T) = Len(ps)
  BY <1>2 DEF LegalFunc
<1>4. f \in [S -> T] /\ \A n \in T : \E i \in S : f[i] = n
  BY <1>1 DEF RanOf
<1> HIDE DEF f, T
<1>5. \A i, k \in S : f[i] = f[k] => i = k
  BY SMTT(60), <1>1, <1>3, <1>4, OneToOne
<1> QED
  BY <1>5 DEF f

\* A set of at most one element.
LEMMA AtMostOne ==
    ASSUME NEW D, IsFiniteSet(D), Cardinality(D) <= 1, NEW a \in D, NEW b \in D
    PROVE  a = b
<1> SUFFICES ASSUME a # b PROVE FALSE
  OBVIOUS
<1>1. /\ IsFiniteSet(D \ {a}) /\ Cardinality(D \ {a}) = Cardinality(D) - 1
      /\ Cardinality(D) \in Nat
  BY FS_RemoveElement, FS_CardinalityType
<1>2. Cardinality(D \ {a}) = 0
  BY <1>1, FS_CardinalityType
<1>3. D \ {a} = {}
  BY <1>1, <1>2, FS_EmptySet
<1> QED
  BY <1>3

\* No tag is defined twice.
LEMMA OneTag ==
    ASSUME NEW p, IsSeq(p.stmts), LegalSoFar(p), NEW i \in DOMAIN p.stmts, NEW j \in DOMAIN p.stmts,
           p.stmts[i].k = "tag", p.stmts[j].k = "tag", p.stmts[i].n = p.stmts[j].n
    PROVE  i = j
<1> DEFINE n == p.stmts[i].n
           D == Definitions(p, n)
<1>1. DOMAIN p.stmts = 1 .. Len(p.stmts) /\ Len(p.stmts) \in Nat
  BY SeqFacts
<1>2. D \subseteq 1 .. Len(p.stmts) /\ i \in D /\ j \in D
  BY <1>1 DEF Definitions
<1>3. Cardinality(D) <= 1
  <2>1. LegalStmt(p, p.stmts[i])
    BY DEF LegalSoFar, RanOf
  <2> DEFINE t == p.stmts[i]
  <2>2. t.k = "tag"
    OBVIOUS
  <2>3. Cardinality(Definitions(p, t.n)) <= 1
    <3> HIDE DEF t
    <3>1. LegalStmt(p, t)
      BY <2>1 DEF t
    <3>2. t.k \in {"tag", "if", "to"} => Cardinality(Definitions(p, t.n)) <= 1
      BY <3>1, Zenon DEF LegalStmt
    <3> QED
      BY <2>2, <3>2
  <2> QED
    BY <2>3
<1>4. IsFiniteSet(D)
  <2> HIDE DEF D
  <2>1. IsFiniteSet(1 .. Len(p.stmts))
    BY <1>1, FS_Interval
  <2> QED
    BY <1>2, <2>1, FS_Subset
<1> HIDE DEF D
<1> QED
  BY <1>2, <1>3, <1>4, AtMostOne

\* What holds of the first number and of the next one after each holds of all.
LEMMA Climb ==
    ASSUME NEW n \in Nat, NEW T, 0 \in T, \A k \in 0 .. (n - 1) : k \in T => k + 1 \in T
    PROVE  \A k \in 0 .. n : k \in T
<1> DEFINE F == {k \in 0 .. n : k \notin T}
<1> SUFFICES ASSUME F # {} PROVE FALSE
  OBVIOUS
<1>1. PICK k \in F : \A j \in F : k <= j
  <2>1. F \subseteq Nat
    OBVIOUS
  <2> HIDE DEF F
  <2> QED
    BY <2>1, LeastNumber
<1>2. k > 0 /\ k - 1 \in 0 .. (n - 1) /\ k - 1 \in T
  BY <1>1
<1> QED
  BY <1>1, <1>2

-----------------------------------------------------------------------------
(***************************************************************************)
(* The parts of an expression.                                             *)
(***************************************************************************)

\* What the recursive function in PartsAt computes.
LEMMA PartsFacts ==
    ASSUME NEW e
    PROVE  /\ PartsAt(e)[1] = {e}
           /\ \A d \in 2 .. Depth : PartsAt(e)[d] = UNION {Children(x) : x \in PartsAt(e)[d - 1]}
<1> DEFINE Next(f, d) == IF d = 1 THEN {e} ELSE UNION {Children(x) : x \in f[d - 1]}
           Upto(n)    == \E f : f = [d \in 1 .. n |-> Next(f, d)]
           T          == {n \in Nat : Upto(n)}
<1>1. 0 \in T
  <2> DEFINE f == [d \in 1 .. 0 |-> {}]
  <2>1. f = [d \in 1 .. 0 |-> Next(f, d)]
    OBVIOUS
  <2> QED
    BY <2>1
<1>2. ASSUME NEW n \in Nat, n \in T PROVE n + 1 \in T
  <2>1. PICK f : f = [d \in 1 .. n |-> Next(f, d)]
    BY <1>2
  <2> DEFINE g == [d \in 1 .. (n + 1) |-> Next(f, d)]
  <2>2. \A d \in 1 .. n : g[d] = f[d]
    <3> TAKE d \in 1 .. n
    <3>1. f[d] = Next(f, d)
      BY <2>1
    <3> QED
      BY <3>1
  <2>3. \A d \in 1 .. (n + 1) : Next(f, d) = Next(g, d)
    <3> TAKE d \in 1 .. (n + 1)
    <3>1. d # 1 => d - 1 \in 1 .. n
      BY <1>2
    <3> HIDE DEF g
    <3> QED
      BY <2>2, <3>1
  <2>4. g = [d \in 1 .. (n + 1) |-> Next(g, d)]
    <3> HIDE DEF Next
    <3>1. g = [d \in 1 .. (n + 1) |-> Next(f, d)]
      OBVIOUS
    <3> HIDE DEF g
    <3> QED
      BY <2>3, <3>1
  <2> HIDE DEF g
  <2>5. Upto(n + 1) /\ n + 1 \in Nat
    BY <1>2, <2>4
  <2> HIDE DEF Upto
  <2> QED
    BY <2>5
<1>3. Depth \in T
  <2> HIDE DEF T
  <2>1. Depth \in Nat
    BY DepthAssumption
  <2> QED
    BY <1>1, <1>2, <2>1, Climb
<1>4. PartsAt(e) = [d \in 1 .. Depth |-> Next(PartsAt(e), d)]
  BY <1>3 DEF PartsAt
<1> QED
  BY <1>4, DepthAssumption

\* The parts fall into layers: the children of those in one are in the next.
LEMMA Layers ==
    ASSUME NEW e, Tree(e)
    PROVE  \E L \in [0 .. Depth -> SUBSET SubExps(e)] :
              /\ L[0] = {} /\ L[Depth] = SubExps(e)
              /\ \A n \in 0 .. (Depth - 1) : /\ L[n] \subseteq L[n + 1]
                                             /\ \A x \in L[n + 1] : Children(x) \subseteq L[n]
<1> DEFINE P    == PartsAt(e)
           S(n) == UNION {P[d] : d \in (Depth + 1 - n) .. Depth}
           L    == [n \in 0 .. Depth |-> S(n)]
<1>1. Depth \in Nat /\ Depth > 0
  BY DepthAssumption
<1>2. \A n \in 0 .. Depth : S(n) \subseteq SubExps(e)
  BY <1>1 DEF SubExps
<1>3. S(0) = {} /\ S(Depth) = SubExps(e)
  BY <1>1 DEF SubExps
<1>4. ASSUME NEW n \in 0 .. (Depth - 1) PROVE S(n) \subseteq S(n + 1)
  BY <1>1
<1>5. ASSUME NEW n \in 0 .. (Depth - 1), NEW x \in S(n + 1) PROVE Children(x) \subseteq S(n)
  <2>1. PICK d \in (Depth - n) .. Depth : x \in P[d]
    BY <1>1
  <2>2. d \in 1 .. Depth
    BY <1>1, <2>1
  <2>3. CASE d = Depth
    BY <2>1, <2>3 DEF Tree
  <2>4. CASE d < Depth
    <3>1. d + 1 \in 2 .. Depth /\ d + 1 \in (Depth + 1 - n) .. Depth /\ (d + 1) - 1 = d
      BY <1>1, <2>2, <2>4
    <3>2. P[d + 1] = UNION {Children(y) : y \in P[d]}
      BY <3>1, PartsFacts
    <3> QED
      BY <2>1, <3>1, <3>2
  <2> QED
    BY <1>1, <2>2, <2>3, <2>4
<1> HIDE DEF S
<1>6. L \in [0 .. Depth -> SUBSET SubExps(e)] /\ L[0] = {} /\ L[Depth] = SubExps(e)
  BY <1>1, <1>2, <1>3
<1>7. ASSUME NEW n \in 0 .. (Depth - 1)
      PROVE  /\ L[n] \subseteq L[n + 1]
             /\ \A x \in L[n + 1] : Children(x) \subseteq L[n]
  BY <1>1, <1>4, <1>5
<1> HIDE DEF L
<1> QED
  BY <1>6, <1>7

\* An expression is a part of itself.
LEMMA Rooted == ASSUME NEW e PROVE e \in SubExps(e)
<1>1. e \in PartsAt(e)[1] /\ 1 \in 1 .. Depth
  BY PartsFacts, DepthAssumption
<1> QED
  BY <1>1 DEF SubExps

\* What holds of every part whose children it holds of, holds of all.
LEMMA PartsInduction ==
    ASSUME NEW e, Tree(e), NEW T,
           \A x \in SubExps(e) : Children(x) \subseteq T => x \in T
    PROVE  SubExps(e) \subseteq T
<1>1. PICK L \in [0 .. Depth -> SUBSET SubExps(e)] :
              /\ L[0] = {} /\ L[Depth] = SubExps(e)
              /\ \A n \in 0 .. (Depth - 1) : /\ L[n] \subseteq L[n + 1]
                                             /\ \A x \in L[n + 1] : Children(x) \subseteq L[n]
  BY Layers
<1> DEFINE N == {n \in 0 .. Depth : L[n] \subseteq T}
<1>2. Depth \in Nat
  BY DepthAssumption
<1>3. 0 \in N
  BY <1>1, <1>2
<1>4. \A n \in 0 .. (Depth - 1) : n \in N => n + 1 \in N
  BY <1>1, <1>2
<1>5. Depth \in N
  <2> HIDE DEF N
  <2>1. \A k \in 0 .. Depth : k \in N
    BY <1>2, <1>3, <1>4, Climb
  <2>2. Depth \in 0 .. Depth
    BY <1>2
  <2> QED
    BY <2>1, <2>2
<1> QED
  BY <1>1, <1>5

\* The kinds of expression.
LEMMA Kind ==
    ASSUME NEW S, NEW x, Node(x, S)
    PROVE  \/ x.k = "num" /\ Children(x) = {}
           \/ x.k = "bad" /\ x = Bad /\ Children(x) = {}
           \/ x.k = "id" /\ x.n \in Idents /\ Children(x) = {}
           \/ x.k = "unary" /\ x.e \in S /\ Children(x) = {x.e}
           \/ x.k = "binary" /\ x.l \in S /\ x.r \in S /\ Children(x) = {x.l, x.r}
           \/ x.k = "call" /\ x.n \in Idents /\ x.args \in Seq(S) /\ Children(x) = RanOf(x.args)
<1>1. CASE x = Num
  <2>1. x.k = "num"
    BY <1>1 DEF Num
  <2> QED
    BY <2>1 DEF Children
<1>2. CASE x = Bad
  <2>1. x.k = "bad"
    BY <1>2 DEF Bad
  <2> QED
    BY <1>2, <2>1 DEF Children
<1>3. CASE \E n \in Idents : x = Id(n)
  <2>1. x.k = "id" /\ x.n \in Idents
    BY <1>3 DEF Id
  <2> QED
    BY <2>1 DEF Children
<1>4. CASE \E l, r \in S : x = Unary(l)
  <2>1. x.k = "unary" /\ x.e \in S
    BY <1>4 DEF Unary
  <2>2. Children(x) = {x.e}
    BY <2>1, Zenon DEF Children
  <2> QED
    BY <2>1, <2>2
<1>5. CASE \E l, r \in S : x = Binary(l, r)
  <2>1. x.k = "binary" /\ x.l \in S /\ x.r \in S
    BY <1>5 DEF Binary
  <2>2. Children(x) = {x.l, x.r}
    BY <2>1, Zenon DEF Children
  <2> QED
    BY <2>1, <2>2
<1>6. CASE \E n \in Idents : x.k = "call" /\ x.args \in Seq(S) /\ x = Call(n, x.args)
  <2>1. x.k = "call" /\ x.n \in Idents /\ x.args \in Seq(S)
    BY <1>6 DEF Call
  <2>2. Children(x) = RanOf(x.args)
    BY <2>1, Zenon DEF Children
  <2> QED
    BY <2>1, <2>2
<1> QED
  BY <1>1, <1>2, <1>3, <1>4, <1>5, <1>6 DEF Node
-----------------------------------------------------------------------------
(***************************************************************************)
(* What a legal program is, the sizes of sets spelled out: so two copies   *)
(* of the definitions can be compared.                                     *)
(***************************************************************************)
Card(S) ==
    LET size[T \in SUBSET S] == IF T = {} THEN 0 ELSE 1 + size[T \ {CHOOSE x : x \in T}]
    IN  size[S]

LEMMA CardIs == ASSUME NEW S PROVE Cardinality(S) = Card(S)
BY DEF Cardinality, Card

LEMMA LegalStmtIs ==
    ASSUME NEW p, NEW s
    PROVE  LegalStmt(p, s) <=>
               /\ s.k \in {"tag", "if", "to"} => Card(Definitions(p, s.n)) <= 1
               /\ s.k \in {"get", "let"} => s.n \in Declared(p)
               /\ s.k \in {"put", "let", "if"} => WellFormed(s.e, Declared(p), p, Len(p.funcs))
BY CardIs DEF LegalStmt

LEMMA LegalFuncIs ==
    ASSUME NEW p, NEW j
    PROVE  LegalFunc(p, j) <=>
               /\ WellFormed(p.funcs[j].e, RanOf(p.funcs[j].params), p, j)
               /\ Card(RanOf(p.funcs[j].params)) = Len(p.funcs[j].params)
BY CardIs DEF LegalFunc

LEMMA LegalIs ==
    ASSUME NEW p
    PROVE  Legal(p) <=>
               /\ \A s \in RanOf(p.stmts) : LegalStmt(p, s)
               /\ \A j \in DOMAIN p.funcs : LegalFunc(p, j)
               /\ Card(Declared(p)) = Len(p.decls)
               /\ Card(Defined(p)) = Len(p.funcs)
               /\ \A s \in RanOf(p.stmts) : s.k \in {"if", "to"} => Definitions(p, s.n) # {}
BY CardIs DEF Legal, LegalSoFar
=============================================================================
