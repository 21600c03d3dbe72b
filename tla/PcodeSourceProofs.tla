-------------------------- MODULE PcodeSourceProofs --------------------------
(***************************************************************************)
(* The stack code of every program refines the program: the layout of      *)
(* main's blocks tells the statement the runtime is at, the stacks hold    *)
(* the values of the parts of its expression, and so every step is one of  *)
(* the source machine or none.                                             *)
(***************************************************************************)
EXTENDS PcodeMachine, PcodeProofs

LOCAL INSTANCE SequencesExt

-----------------------------------------------------------------------------
(***************************************************************************)
(* What is on the stack, given the world w the code runs in: the arguments *)
(* of the record, the contents of the variables, the module, the program.  *)
(***************************************************************************)
World(args, vs, m, p) == [args |-> args, vals |-> vs, m |-> m, p |-> p]

\* The stack without the n values on top, and those.
Lower(st, n) == SubSeq(st, 1, Len(st) - n)
Upper(st, n) == SubSeq(st, Len(st) - n + 1, Len(st))

TakesIn(inst, w) == Takes(inst, w.m.functions)

\* The value an instruction pushes.
Pushed(inst, st, w) ==
    IF inst.op = "LI" THEN [op |-> "lit"]
    ELSE IF inst.op = "LOAD" THEN [op |-> "from", stmt |-> w.vals[inst.n]]
    ELSE IF inst.op = "READ" THEN [op |-> "read"]
    ELSE IF inst.op = "ARG" THEN w.args[inst.ix]
    ELSE IF inst.op = "CALL" THEN CallValue(w.p, w.m.labels[inst.n], Upper(st, TakesIn(inst, w)))
    ELSE IF inst.ix = 1 THEN [op |-> "unary", of |-> Upper(st, 1)[1]]
    ELSE [op |-> "binary", l |-> Upper(st, 2)[1], r |-> Upper(st, 2)[2]]

After(inst, st, w) ==
    IF inst.op \in Pushing THEN Append(Lower(st, TakesIn(inst, w)), Pushed(inst, st, w))
    ELSE Lower(st, TakesIn(inst, w))

\* The stack at each place of code c that finds st.
Stacks(c, w, st) ==
    LET at[k \in 1 .. Len(c) + 1] == IF k = 1 THEN st ELSE After(c[k - 1], at[k - 1], w)
    IN  at
Final(c, w, st) == Stacks(c, w, st)[Len(c) + 1]

\* What the recursive function in Stacks computes.
LEMMA StacksFacts ==
    ASSUME NEW c, Len(c) \in Nat, NEW w, NEW st
    PROVE  /\ Stacks(c, w, st)[1] = st
           /\ \A k \in 1 .. Len(c) : Stacks(c, w, st)[k + 1] = After(c[k], Stacks(c, w, st)[k], w)
<1> DEFINE Next(f, k) == IF k = 1 THEN st ELSE After(c[k - 1], f[k - 1], w)
           Upto(n)    == \E f : f = [k \in 1 .. n + 1 |-> Next(f, k)]
           T          == {n \in Nat : Upto(n)}
           N          == Len(c)
<1>1. 0 \in T
  <2> DEFINE f == [k \in 1 .. 0 + 1 |-> st]
  <2>1. \A k \in 1 .. 0 + 1 : Next(f, k) = st
    OBVIOUS
  <2> HIDE DEF Next
  <2>2. f = [k \in 1 .. 0 + 1 |-> Next(f, k)]
    BY <2>1
  <2> QED
    BY <2>2
<1>2. ASSUME NEW n \in Nat, n \in T PROVE n + 1 \in T
  <2>1. PICK f : f = [k \in 1 .. n + 1 |-> Next(f, k)]
    BY <1>2
  <2> DEFINE g == [k \in 1 .. (n + 1) + 1 |-> Next(f, k)]
  <2>2. \A k \in 1 .. n + 1 : g[k] = f[k]
    <3> TAKE k \in 1 .. n + 1
    <3>1. f[k] = Next(f, k)
      BY <2>1
    <3> HIDE DEF Next
    <3> QED
      BY <3>1
  <2>3. \A k \in 1 .. (n + 1) + 1 : Next(f, k) = Next(g, k)
    <3> TAKE k \in 1 .. (n + 1) + 1
    <3>1. k # 1 => k - 1 \in 1 .. n + 1
      BY <1>2
    <3> HIDE DEF g
    <3> QED
      BY <2>2, <3>1
  <2>4. g = [k \in 1 .. (n + 1) + 1 |-> Next(g, k)]
    <3> HIDE DEF Next
    <3>1. g = [k \in 1 .. (n + 1) + 1 |-> Next(f, k)]
      OBVIOUS
    <3> HIDE DEF g
    <3> QED
      BY <2>3, <3>1
  <2> HIDE DEF g
  <2>5. Upto(n + 1)
    <3> HIDE DEF Next
    <3> QED
      BY <2>4
  <2> HIDE DEF Upto
  <2> QED
    BY <1>2, <2>5
<1>3. N \in T
  <2>1. \A k \in 0 .. (N - 1) : k \in T => k + 1 \in T
    <3> HIDE DEF T
    <3> QED
      BY <1>2
  <2> HIDE DEF T, N
  <2>2. N \in Nat
    BY DEF N
  <2>3. \A k \in 0 .. N : k \in T
    BY <1>1, <2>1, <2>2, Climb, Zenon
  <2> QED
    BY <2>2, <2>3
<1> DEFINE at == CHOOSE f : f = [k \in 1 .. N + 1 |-> Next(f, k)]
<1>4. at = [k \in 1 .. N + 1 |-> Next(at, k)]
  BY <1>3
<1>5. Stacks(c, w, st) = at
  BY DEF Stacks
<1> HIDE DEF at
<1>6. at[1] = st
  BY <1>4
<1>7. ASSUME NEW k \in 1 .. N PROVE at[k + 1] = After(c[k], at[k], w)
  <2>1. k + 1 \in 1 .. N + 1 /\ k + 1 # 1 /\ (k + 1) - 1 = k
    OBVIOUS
  <2>2. at[k + 1] = Next(at, k + 1)
    BY <1>4, <2>1
  <2> HIDE DEF N
  <2> QED
    BY <2>1, <2>2
<1> QED
  BY <1>5, <1>6, <1>7

\* There is one way to run code.
AreStacks(f, c, w, st) == f[1] = st /\ \A k \in 1 .. Len(c) : f[k + 1] = After(c[k], f[k], w)

LEMMA StacksOnly ==
    ASSUME NEW c, Len(c) \in Nat, NEW w, NEW st, NEW f, AreStacks(f, c, w, st)
    PROVE  \A k \in 1 .. Len(c) + 1 : f[k] = Stacks(c, w, st)[k]
<1> DEFINE g == Stacks(c, w, st)
           T == {k \in Nat : f[k + 1] = g[k + 1]}
           n == Len(c)
<1>1. g[1] = st /\ \A k \in 1 .. n : g[k + 1] = After(c[k], g[k], w)
  BY StacksFacts
<1> HIDE DEF g
<1>2. 0 \in T
  BY <1>1 DEF AreStacks
<1>3. ASSUME NEW k \in 0 .. (n - 1), k \in T PROVE k + 1 \in T
  <2>1. k + 1 \in 1 .. n /\ k + 1 \in Nat /\ f[k + 1] = g[k + 1]
    BY <1>3
  <2>2. f[(k + 1) + 1] = After(c[k + 1], f[k + 1], w) /\ g[(k + 1) + 1] = After(c[k + 1], g[k + 1], w)
    BY <1>1, <2>1 DEF AreStacks
  <2> QED
    BY <2>1, <2>2
<1>4. \A k \in 0 .. n : k \in T
  <2> HIDE DEF T
  <2>1. \A k \in 0 .. (n - 1) : k \in T => k + 1 \in T
    BY <1>3
  <2> HIDE DEF n
  <2>2. n \in Nat
    BY DEF n
  <2> QED
    BY <1>2, <2>1, <2>2, Climb
<1>5. \A k \in 1 .. n + 1 : k - 1 \in 0 .. n /\ (k - 1) + 1 = k
  OBVIOUS
<1> QED
  BY <1>4, <1>5 DEF g

\* Code after code.
LEMMA StacksConcat ==
    ASSUME NEW c, IsSeq(c), NEW d, IsSeq(d), NEW w, NEW st
    PROVE  /\ \A k \in 1 .. Len(c) + 1 : Stacks(c \o d, w, st)[k] = Stacks(c, w, st)[k]
           /\ \A k \in 1 .. Len(d) + 1 :
                 Stacks(c \o d, w, st)[Len(c) + k] = Stacks(d, w, Final(c, w, st))[k]
           /\ Final(c \o d, w, st) = Final(d, w, Final(c, w, st))
<1> DEFINE cd == c \o d
           f  == Stacks(cd, w, st)
           n  == Len(c)
           g  == [k \in 1 .. Len(d) + 1 |-> f[n + k]]
<1>1. /\ Len(cd) = n + Len(d) /\ n \in Nat /\ Len(d) \in Nat
      /\ \A k \in 1 .. n : cd[k] = c[k]
      /\ \A k \in 1 .. Len(d) : cd[n + k] = d[k]
  BY ConcatFacts, SeqFacts
<1> HIDE DEF cd
<1>2. f[1] = st /\ \A k \in 1 .. Len(cd) : f[k + 1] = After(cd[k], f[k], w)
  BY <1>1, StacksFacts
<1> HIDE DEF f, n
<1>3. \A k \in 1 .. n : f[k + 1] = After(c[k], f[k], w)
  BY <1>1, <1>2
<1>4. \A k \in 1 .. n + 1 : f[k] = Stacks(c, w, st)[k]
  <2>1. AreStacks(f, c, w, st) /\ Len(c) \in Nat
    BY <1>1, <1>2, <1>3 DEF n, AreStacks
  <2>2. \A k \in 1 .. Len(c) + 1 : f[k] = Stacks(c, w, st)[k]
    BY <2>1, StacksOnly
  <2> QED
    BY <2>2 DEF n
<1>5. f[n + 1] = Final(c, w, st)
  BY <1>1, <1>4 DEF Final, n
<1>6. ASSUME NEW k \in 1 .. Len(d) PROVE g[k + 1] = After(d[k], g[k], w)
  <2>1. /\ k \in 1 .. Len(d) + 1 /\ k + 1 \in 1 .. Len(d) + 1 /\ n + k \in 1 .. Len(cd)
        /\ (n + k) + 1 = n + (k + 1)
    BY <1>1
  <2>2. f[n + (k + 1)] = After(d[k], f[n + k], w)
    BY <1>1, <1>2, <2>1
  <2> QED
    BY <2>1, <2>2
<1>7. g[1] = Final(c, w, st)
  BY <1>1, <1>5
<1>8. \A k \in 1 .. Len(d) + 1 : g[k] = f[n + k]
  OBVIOUS
<1> HIDE DEF g
<1>9. \A k \in 1 .. Len(d) + 1 : g[k] = Stacks(d, w, Final(c, w, st))[k]
  <2> DEFINE base == Final(c, w, st)
  <2>1. Len(d) \in Nat /\ AreStacks(g, d, w, base)
    BY <1>1, <1>6, <1>7 DEF AreStacks
  <2> HIDE DEF base
  <2>2. \A k \in 1 .. Len(d) + 1 : g[k] = Stacks(d, w, base)[k]
    BY <2>1, StacksOnly
  <2> QED
    BY <2>2 DEF base
<1>10. f[Len(cd) + 1] = Stacks(d, w, Final(c, w, st))[Len(d) + 1]
  <2>1. Len(cd) + 1 = n + (Len(d) + 1) /\ Len(d) + 1 \in 1 .. Len(d) + 1
    BY <1>1
  <2> QED
    BY <1>8, <1>9, <2>1
<1>11. Final(cd, w, st) = Final(d, w, Final(c, w, st))
  BY <1>10 DEF Final, f
<1> QED
  BY <1>4, <1>8, <1>9, <1>11 DEF f, cd, n

LEMMA FinalOne ==
    ASSUME NEW inst, NEW w, NEW st
    PROVE  Final(<<inst>>, w, st) = After(inst, st, w)
<1> DEFINE c == <<inst>>
<1>1. Len(c) = 1 /\ c[1] = inst /\ 1 \in 1 .. Len(c)
  OBVIOUS
<1> HIDE DEF c
<1>2. Stacks(c, w, st)[1] = st /\ Stacks(c, w, st)[1 + 1] = After(c[1], Stacks(c, w, st)[1], w)
  BY SMTT(60), <1>1, StacksFacts
<1> QED
  BY <1>1, <1>2 DEF Final, c

\* The values on top of a stack.
LEMMA SplitFacts ==
    ASSUME NEW a, IsSeq(a), NEW b, IsSeq(b)
    PROVE  Lower(a \o b, Len(b)) = a /\ Upper(a \o b, Len(b)) = b
<1> DEFINE st == a \o b
           m  == Len(a)
           n  == Len(b)
<1>1. /\ IsSeq(st) /\ Len(st) = m + n /\ m \in Nat /\ n \in Nat
      /\ \A i \in 1 .. m : st[i] = a[i]
      /\ \A i \in 1 .. n : st[m + i] = b[i]
      /\ DOMAIN st = 1 .. Len(st)
  BY ConcatFacts, SeqFacts
<1> HIDE DEF st
<1>2. st \in Seq(RanOf(st)) /\ \A i \in 1 .. Len(st) : st[i] \in RanOf(st)
  BY <1>1 DEF IsSeq, RanOf
<1> HIDE DEF m, n
<1>3. Lower(st, n) = SubSeq(st, 1, m) /\ Upper(st, n) = SubSeq(st, m + 1, m + n)
  <2>1. Len(st) - n = m /\ Len(st) - n + 1 = m + 1
    BY <1>1
  <2> QED
    BY <1>1, <2>1 DEF Lower, Upper
<1>4. SubSeq(st, 1, m) = a
  <2> DEFINE u == SubSeq(st, 1, m)
  <2>1. /\ u \in Seq(RanOf(st)) /\ Len(u) = IF 1 <= m THEN m - 1 + 1 ELSE 0
        /\ \A i \in 1 .. (m - 1 + 1) : u[i] = st[1 + i - 1]
    <3>1. \A i \in 1 .. m : i \in 1 .. Len(st)
      BY <1>1
    <3> QED
      BY <1>1, <1>2, <3>1, SubSeqProperties
  <2> HIDE DEF u
  <2>2. IsSeq(u) /\ Len(u) = m /\ \A i \in 1 .. m : u[i] = a[i]
    BY <1>1, <2>1, SeqOwn
  <2>3. u = a
    BY <2>2, SameSeq DEF m
  <2> QED
    BY <2>3 DEF u
<1>5. SubSeq(st, m + 1, m + n) = b
  <2> DEFINE u == SubSeq(st, m + 1, m + n)
  <2>1. /\ u \in Seq(RanOf(st)) /\ Len(u) = IF m + 1 <= m + n THEN (m + n) - (m + 1) + 1 ELSE 0
        /\ \A i \in 1 .. ((m + n) - (m + 1) + 1) : u[i] = st[(m + 1) + i - 1]
    <3>1. \A i \in (m + 1) .. (m + n) : i \in 1 .. Len(st)
      BY <1>1
    <3>2. m + 1 \in Int /\ m + n \in Int
      BY <1>1
    <3> QED
      BY <1>2, <3>1, <3>2, SubSeqProperties
  <2> HIDE DEF u
  <2>2. IsSeq(u) /\ Len(u) = n
    BY <1>1, <2>1, SeqOwn
  <2>3. \A i \in 1 .. n : u[i] = b[i]
    <3> TAKE i \in 1 .. n
    <3>1. (m + n) - (m + 1) + 1 = n /\ (m + 1) + i - 1 = m + i
      BY <1>1
    <3> QED
      BY <1>1, <2>1, <3>1
  <2>4. u = b
    BY <2>2, <2>3, SameSeq DEF n
  <2> QED
    BY <2>4 DEF u
<1> QED
  BY <1>3, <1>4, <1>5 DEF st, n

LEMMA OneOnTop ==
    ASSUME NEW a, IsSeq(a), NEW x
    PROVE  /\ Lower(Append(a, x), 1) = a /\ Upper(Append(a, x), 1) = <<x>>
           /\ Append(a, x) = a \o <<x>> /\ IsSeq(<<x>>) /\ IsSeq(Append(a, x))
<1>1. a \in Seq(RanOf(a) \cup {x}) /\ x \in RanOf(a) \cup {x}
  <2>1. a \in Seq(RanOf(a))
    BY DEF IsSeq
  <2> QED
    BY <2>1, SeqMonotonic
<1>2. Append(a, x) = a \o <<x>>
  BY <1>1, AppendIsConcat
<1> DEFINE S  == RanOf(a) \cup {x}
           xx == <<x>>
<1>3. xx \in Seq(S) /\ Len(xx) = 1
  OBVIOUS
<1> HIDE DEF S, xx
<1>4. IsSeq(xx)
  BY <1>3, SeqOwn
<1>5. Lower(a \o xx, 1) = a /\ Upper(a \o xx, 1) = xx
  BY <1>3, <1>4, SplitFacts
<1> QED
  BY <1>2, <1>4, <1>5, AppendFacts DEF xx

LEMMA TwoOnTop ==
    ASSUME NEW a, IsSeq(a), NEW x, NEW y
    PROVE  Lower(Append(Append(a, x), y), 2) = a /\ Upper(Append(Append(a, x), y), 2) = <<x, y>>
<1> DEFINE S  == RanOf(a) \cup {x, y}
           xy == <<x, y>>
<1>1. a \in Seq(S) /\ x \in S /\ y \in S
  <2>1. a \in Seq(RanOf(a))
    BY DEF IsSeq
  <2> QED
    BY <2>1, SeqMonotonic
<1> HIDE DEF S
<1>2. xy \in Seq(S) /\ Len(xy) = 2
  BY <1>1
<1>3. Append(Append(a, x), y) = a \o xy
  BY <1>1
<1>4. IsSeq(xy)
  BY <1>2, SeqOwn
<1> HIDE DEF xy
<1>5. Lower(a \o xy, 2) = a /\ Upper(a \o xy, 2) = xy
  BY <1>2, <1>4, SplitFacts
<1> QED
  BY <1>3, <1>5 DEF xy

LEMMA NoneOnTop ==
    ASSUME NEW a, IsSeq(a)
    PROVE  Lower(a, 0) = a
<1>1. IsSeq(<<>>) /\ Len(<<>>) = 0
  BY EmptyFacts
<1>2. a \o <<>> = a
  BY DEF IsSeq
<1> QED
  BY <1>1, <1>2, SplitFacts

-----------------------------------------------------------------------------
(***************************************************************************)
(* The code of an expression leaves its value on whatever it finds.        *)
(***************************************************************************)
LeavesValue(c, w, v) == IsSeq(c) /\ \A st : IsSeq(st) => Final(c, w, st) = Append(st, v)

\* r is st and the first n values of vs.
Atop(r, st, vs, n) ==
    /\ IsSeq(r) /\ Len(r) = Len(st) + n
    /\ \A k \in 1 .. Len(st) : r[k] = st[k]
    /\ \A k \in 1 .. n : r[Len(st) + k] = vs[k]

\* Pieces of code each of which leaves its value.
LEMMA FinalFlatten ==
    ASSUME NEW s, IsSeq(s), NEW vs, IsSeq(vs), Len(s) = Len(vs), NEW w,
           \A k \in 1 .. Len(s) : LeavesValue(s[k], w, vs[k])
    PROVE  /\ IsSeq(FlattenSeq(s))
           /\ \A st : IsSeq(st) => Final(FlattenSeq(s), w, st) = st \o vs
<1> DEFINE n == Len(s)
<1>1. n \in Nat
  BY SeqFacts
<1>2. CASE n = 0
  <2>1. FlattenSeq(s) = s /\ s = <<>> /\ vs = <<>>
    BY <1>1, <1>2, FlattenFacts, SeqFacts
  <2> HIDE DEF n
  <2>2. ASSUME NEW st, IsSeq(st) PROVE Final(<<>>, w, st) = st \o <<>>
    <3>1. Stacks(<<>>, w, st)[1] = st /\ Len(<<>>) = 0
      BY SMTT(60), StacksFacts
    <3>2. st \o <<>> = st
      BY <2>2 DEF IsSeq
    <3> QED
      BY <3>1, <3>2 DEF Final
  <2> QED
    BY <2>1, <2>2
<1>3. CASE n > 0
  <2>1. PICK f : /\ FlattenSeq(s) = f[n] /\ f[1] = s[1]
                 /\ \A i \in 2 .. n : f[i] = f[i - 1] \o s[i]
    BY <1>1, <1>3, FlattenFacts
  <2> DEFINE Good(i) == /\ IsSeq(f[i])
                        /\ \A st : IsSeq(st) => Atop(Final(f[i], w, st), st, vs, i)
             T == {i \in 0 .. (n - 1) : Good(i + 1)}
  <2>2. Good(1)
    <3>1. LeavesValue(s[1], w, vs[1]) /\ f[1] = s[1]
      BY <1>1, <1>3, <2>1
    <3>2. ASSUME NEW st, IsSeq(st) PROVE Atop(Final(f[1], w, st), st, vs, 1)
      <4>1. Final(f[1], w, st) = Append(st, vs[1])
        BY <3>1, <3>2 DEF LeavesValue
      <4>2. /\ IsSeq(Append(st, vs[1])) /\ Len(Append(st, vs[1])) = Len(st) + 1
            /\ Append(st, vs[1])[Len(st) + 1] = vs[1]
            /\ \A i \in 1 .. Len(st) : Append(st, vs[1])[i] = st[i]
        BY <3>2, AppendFacts, SeqFacts
      <4> QED
        BY <4>1, <4>2 DEF Atop
    <3> QED
      BY <3>1, <3>2 DEF LeavesValue
  <2>3. ASSUME NEW i \in 0 .. (n - 2), i \in T PROVE i + 1 \in T
    <3>1. i + 1 \in 1 .. n /\ i + 2 \in 2 .. n /\ (i + 2) - 1 = i + 1 /\ i + 1 \in 0 .. (n - 1)
          /\ (i + 1) + 1 = i + 2 /\ i + 2 \in 1 .. n
      BY <1>1
    <3>2. Good(i + 1)
      BY <2>3
    <3>3. f[i + 2] = f[i + 1] \o s[i + 2] /\ LeavesValue(s[i + 2], w, vs[i + 2])
      BY <2>1, <3>1
    <3>4. IsSeq(f[i + 1]) /\ IsSeq(s[i + 2])
      BY <3>2, <3>3 DEF LeavesValue
    <3>5. IsSeq(f[i + 2])
      BY <3>3, <3>4, ConcatFacts
    <3>6. ASSUME NEW st, IsSeq(st) PROVE Atop(Final(f[i + 2], w, st), st, vs, i + 2)
      <4> DEFINE r == Final(f[i + 1], w, st)
                 t == Append(r, vs[i + 2])
      <4>1. Atop(r, st, vs, i + 1)
        BY <3>2, <3>6
      <4>2. Final(f[i + 2], w, st) = Final(s[i + 2], w, r)
        BY <3>3, <3>4, StacksConcat
      <4> HIDE DEF r
      <4>3. IsSeq(r) /\ Len(r) = Len(st) + (i + 1) /\ DOMAIN r = 1 .. Len(r) /\ Len(st) \in Nat
        BY <3>6, <4>1, SeqFacts DEF Atop
      <4>4. Final(s[i + 2], w, r) = t
        BY <3>3, <4>3 DEF LeavesValue
      <4>5. /\ IsSeq(t) /\ Len(t) = Len(r) + 1 /\ t[Len(r) + 1] = vs[i + 2]
            /\ \A k \in 1 .. Len(r) : t[k] = r[k]
        BY SMTT(60), <4>3, AppendFacts
      <4> HIDE DEF t
      <4>6. /\ Len(t) = Len(st) + (i + 2) /\ Len(r) + 1 = Len(st) + (i + 2)
            /\ \A k \in 1 .. Len(st) : k \in 1 .. Len(r)
            /\ \A k \in 1 .. (i + 1) : Len(st) + k \in 1 .. Len(r)
            /\ \A k \in 1 .. (i + 2) : k = i + 2 \/ k \in 1 .. (i + 1)
        BY <4>3, <4>5
      <4>7. Atop(t, st, vs, i + 2)
        <5>1. \A k \in 1 .. Len(st) : t[k] = st[k]
          BY <4>1, <4>5, <4>6 DEF Atop
        <5>2. \A k \in 1 .. (i + 1) : t[Len(st) + k] = vs[k]
          BY <4>1, <4>5, <4>6 DEF Atop
        <5>3. t[Len(st) + (i + 2)] = vs[i + 2]
          BY <4>5, <4>6
        <5> QED
          BY <4>5, <4>6, <5>1, <5>2, <5>3 DEF Atop
      <4> QED
        BY <4>2, <4>4, <4>7
    <3>7. Good(i + 2)
      BY <3>5, <3>6
    <3> HIDE DEF Good
    <3> QED
      BY <3>1, <3>7
  <2>4. n - 1 \in T
    <3>1. 0 \in T
      <4> HIDE DEF Good
      <4> QED
        BY <1>1, <1>3, <2>2
    <3> HIDE DEF T
    <3> DEFINE m == n - 1
    <3>2. m \in Nat /\ m - 1 = n - 2
      BY <1>1, <1>3
    <3> HIDE DEF n, m
    <3>3. \A k \in 0 .. (m - 1) : k \in T => k + 1 \in T
      BY <2>3, <3>2
    <3>4. \A k \in 0 .. m : k \in T
      BY <3>1, <3>2, <3>3, Climb
    <3> QED
      BY <3>2, <3>4 DEF m
  <2>5. Good(n)
    <3> HIDE DEF Good
    <3>1. Good((n - 1) + 1) /\ (n - 1) + 1 = n
      BY <1>1, <2>4
    <3> QED
      BY <3>1
  <2>6. ASSUME NEW st, IsSeq(st) PROVE Final(f[n], w, st) = st \o vs
    <3> DEFINE r == Final(f[n], w, st)
               t == st \o vs
    <3>1. Atop(r, st, vs, n)
      BY <2>5, <2>6
    <3> HIDE DEF r
    <3>2. /\ IsSeq(t) /\ Len(t) = Len(st) + n /\ Len(st) \in Nat
          /\ \A i \in 1 .. Len(st) : t[i] = st[i]
          /\ \A i \in 1 .. n : t[Len(st) + i] = vs[i]
      BY <2>6, ConcatFacts, SeqFacts
    <3> HIDE DEF t, n
    <3>3. ASSUME NEW i \in 1 .. Len(r) PROVE r[i] = t[i]
      <4>1. CASE i <= Len(st)
        BY <1>1, <3>1, <3>2, <4>1 DEF Atop
      <4>2. CASE i > Len(st)
        <5> DEFINE k == i - Len(st)
        <5>1. k \in 1 .. n /\ i = Len(st) + k
          BY <1>1, <3>1, <3>2, <4>2 DEF Atop
        <5> HIDE DEF k
        <5> QED
          BY <3>1, <3>2, <5>1 DEF Atop
      <4> QED
        BY <3>1, <3>2, <4>1, <4>2 DEF Atop
    <3>4. r = t
      BY <3>1, <3>2, <3>3, SameSeq DEF Atop
    <3> QED
      BY <3>4 DEF r, t
  <2> HIDE DEF n
  <2> QED
    BY <2>1, <2>5, <2>6
<1> QED
  BY <1>1, <1>2, <1>3

LEMMA NumValue ==
    ASSUME NEW e, e.k = "num", NEW val, NEW rho, NEW p
    PROVE  ValueOf(e, val, rho, p) = [op |-> "lit"]
BY Zenon DEF ValueOf

LEMMA IdValue ==
    ASSUME NEW e, e.k = "id", NEW val, NEW rho, NEW p
    PROVE  ValueOf(e, val, rho, p) = rho[e.n]
BY Zenon DEF ValueOf

LEMMA UnaryValue ==
    ASSUME NEW e, e.k = "unary", NEW val, NEW rho, NEW p
    PROVE  ValueOf(e, val, rho, p) = [op |-> "unary", of |-> val[e.e]]
BY Zenon DEF ValueOf

LEMMA BinaryValue ==
    ASSUME NEW e, e.k = "binary", NEW val, NEW rho, NEW p
    PROVE  ValueOf(e, val, rho, p) = [op |-> "binary", l |-> val[e.l], r |-> val[e.r]]
BY Zenon DEF ValueOf

LEMMA CallValued ==
    ASSUME NEW e, e.k = "call", NEW val, NEW rho, NEW p
    PROVE  ValueOf(e, val, rho, p) =
               CallValue(p, FuncNamed(p, e.n), [i \in DOMAIN e.args |-> val[e.args[i]]])
BY Zenon DEF ValueOf

\* The value depends on those of the children alone.
LEMMA ValueLocal ==
    ASSUME NEW S, NEW x, Node(x, S), x # Bad, NEW f, NEW g,
           \A y \in Children(x) : f[y] = g[y], NEW rho, NEW p
    PROVE  ValueOf(x, f, rho, p) = ValueOf(x, g, rho, p)
<1>1. CASE x.k = "num"
  BY <1>1, NumValue
<1>2. CASE x.k = "id"
  BY <1>2, IdValue
<1>3. CASE x.k = "unary" /\ Children(x) = {x.e}
  <2>1. f[x.e] = g[x.e]
    BY <1>3
  <2> QED
    BY <1>3, <2>1, UnaryValue
<1>4. CASE x.k = "binary" /\ Children(x) = {x.l, x.r}
  <2>1. f[x.l] = g[x.l] /\ f[x.r] = g[x.r]
    BY <1>4
  <2> QED
    BY <1>4, <2>1, BinaryValue
<1>5. CASE x.k = "call" /\ Children(x) = RanOf(x.args)
  <2>1. \A k \in DOMAIN x.args : f[x.args[k]] = g[x.args[k]]
    BY <1>5 DEF RanOf
  <2> DEFINE Parts(h) == [i \in DOMAIN x.args |-> h[x.args[i]]]
             Made(h)  == CallValue(p, FuncNamed(p, x.n), Parts(h))
  <2>2. Parts(f) = Parts(g)
    BY <2>1
  <2>3. ValueOf(x, f, rho, p) = Made(f) /\ ValueOf(x, g, rho, p) = Made(g)
    BY <1>5, CallValued
  <2> HIDE DEF Parts
  <2> QED
    BY <2>2, <2>3
<1> QED
  BY <1>1, <1>2, <1>3, <1>4, <1>5, Kind

\* What the recursive function in Eval computes.
LEMMA EvalFacts ==
    ASSUME NEW e, Tree(e), Bad \notin SubExps(e), NEW rho, NEW p
    PROVE  \E val : /\ Eval(e, rho, p) = val[e]
                    /\ \A x \in SubExps(e) : val[x] = ValueOf(x, val, rho, p)
<1> DEFINE Part(f, x) == ValueOf(x, f, rho, p)
<1>1. PICK L \in [0 .. Depth -> SUBSET SubExps(e)] :
              /\ L[0] = {} /\ L[Depth] = SubExps(e)
              /\ \A n \in 0 .. (Depth - 1) : /\ L[n] \subseteq L[n + 1]
                                             /\ \A x \in L[n + 1] : Children(x) \subseteq L[n]
  BY Layers
<1> DEFINE On(n) == \E f : f = [x \in L[n] |-> Part(f, x)]
           T     == {n \in 0 .. Depth : On(n)}
<1>2. Depth \in Nat
  BY DepthAssumption
<1>3. 0 \in T
  <2> DEFINE f == [x \in {} |-> {}]
  <2>1. f = [x \in {} |-> Part(f, x)]
    OBVIOUS
  <2>2. On(0)
    BY <1>1, <2>1
  <2> HIDE DEF On
  <2> QED
    BY <1>2, <2>2
<1>4. ASSUME NEW n \in 0 .. (Depth - 1), n \in T PROVE n + 1 \in T
  <2>1. PICK f : f = [x \in L[n] |-> Part(f, x)]
    BY <1>4
  <2> DEFINE g == [x \in L[n + 1] |-> Part(f, x)]
  <2>2. L[n] \subseteq L[n + 1] /\ L[n + 1] \subseteq SubExps(e)
    BY <1>1, <1>2
  <2>3. \A x \in L[n] : g[x] = f[x]
    <3> TAKE x \in L[n]
    <3>1. f[x] = Part(f, x)
      BY <2>1
    <3> HIDE DEF Part
    <3> QED
      BY <2>2, <3>1
  <2>4. g = [x \in L[n + 1] |-> Part(f, x)]
    OBVIOUS
  <2> HIDE DEF g
  <2>5. ASSUME NEW x \in L[n + 1] PROVE Part(f, x) = Part(g, x)
    <3>1. Node(x, SubExps(e)) /\ x # Bad
      BY <2>2 DEF Tree
    <3>2. \A y \in Children(x) : f[y] = g[y]
      BY <1>1, <2>3
    <3> QED
      BY <3>1, <3>2, ValueLocal
  <2> HIDE DEF Part
  <2>6. On(n + 1)
    BY <2>4, <2>5
  <2> HIDE DEF On
  <2> QED
    BY <1>2, <2>6
<1>5. On(Depth)
  <2> HIDE DEF T
  <2>1. Depth \in T
    BY SMTT(60), <1>2, <1>3, <1>4, Climb
  <2> QED
    BY <2>1 DEF T
<1> DEFINE val == CHOOSE f : f = [x \in SubExps(e) |-> Part(f, x)]
<1>6. val = [x \in SubExps(e) |-> Part(val, x)]
  <2> HIDE DEF Part
  <2> QED
    BY <1>1, <1>5
<1>7. Eval(e, rho, p) = val[e]
  BY DEF Eval
<1> HIDE DEF val
<1>8. \A x \in SubExps(e) : val[x] = Part(val, x)
  <2> HIDE DEF Part
  <2> QED
    BY <1>6
<1> QED
  BY <1>7, <1>8

\* The world of code in main, and in a function, and what rho says of it.
Agrees(rho, w, ps, inFunction) ==
    /\ ~inFunction => \A n \in Idents : rho[n] = [op |-> "from", stmt |-> w.vals[n]]
    /\ inFunction  => \A n \in RanOf(ps) : rho[n] = w.args[getIndexOf(ps, n)]

\* A call leads to the function it names, with as many arguments as there are.
Reaches(x, w) == x.k = "call" => /\ w.m.functions[x.n] = Len(x.args)
                                 /\ w.m.labels[x.n] = FuncNamed(w.p, x.n)

LEMMA LeavesOnTop ==
    ASSUME NEW inst, NEW w, NEW v, TakesIn(inst, w) = 0, inst.op \in Pushing,
           \A st : Pushed(inst, st, w) = v
    PROVE  LeavesValue(<<inst>>, w, v)
<1> DEFINE c == <<inst>>
<1>1. IsSeq(c)
  <2>1. IsSeq(<<>>)
    BY EmptyFacts
  <2>2. IsSeq(Append(<<>>, inst)) /\ Append(<<>>, inst) = <<inst>>
    BY <2>1, OneOnTop
  <2> QED
    BY <2>2
<1>2. ASSUME NEW st, IsSeq(st) PROVE Final(<<inst>>, w, st) = Append(st, v)
  <2>1. Lower(st, 0) = st
    BY <1>2, NoneOnTop
  <2> QED
    BY <2>1, FinalOne DEF After
<1> QED
  BY <1>1, <1>2 DEF LeavesValue

LEMMA UnaryFinal ==
    ASSUME NEW x, x.k = "unary", NEW w, NEW code, NEW val, LeavesValue(code[x.e], w, val[x.e]),
           NEW ps, NEW inFunction, NEW i, NEW rho
    PROVE  LeavesValue(visitPart(x, code, ps, inFunction, i), w, ValueOf(x, val, rho, w.p))
<1> DEFINE inst == Indexed("OPR", 1, i)
           c    == code[x.e]
           v    == [op |-> "unary", of |-> val[x.e]]
<1>1. visitPart(x, code, ps, inFunction, i) = Append(c, inst) /\ ValueOf(x, val, rho, w.p) = v
  BY UnaryCode, UnaryValue
<1>2. inst.op = "OPR" /\ inst.ix = 1
  BY DEF Indexed
<1> HIDE DEF inst, c
<1>3. IsSeq(c) /\ \A st : IsSeq(st) => Final(c, w, st) = Append(st, val[x.e])
  BY DEF LeavesValue, c
<1>4. Append(c, inst) = c \o <<inst>> /\ IsSeq(<<inst>>) /\ IsSeq(Append(c, inst))
  BY <1>3, OneOnTop
<1>5. ASSUME NEW st, IsSeq(st) PROVE Final(c \o <<inst>>, w, st) = Append(st, v)
  <2> DEFINE t == Append(st, val[x.e])
  <2>1. Final(c \o <<inst>>, w, st) = After(inst, t, w)
    <3>1. Final(c \o <<inst>>, w, st) = Final(<<inst>>, w, Final(c, w, st))
      BY <1>3, <1>4, <1>5, StacksConcat
    <3>2. Final(c, w, st) = t
      BY <1>3, <1>5
    <3> HIDE DEF t
    <3> QED
      BY <3>1, <3>2, FinalOne
  <2>2. Lower(t, 1) = st /\ Upper(t, 1) = <<val[x.e]>>
    BY <1>5, OneOnTop
  <2> HIDE DEF t
  <2>3. Pushed(inst, t, w) = v
    BY <1>2, <2>2 DEF Pushed
  <2>4. After(inst, t, w) = Append(st, v)
    BY <1>2, <2>2, <2>3 DEF After, TakesIn, Takes, Pushing
  <2> QED
    BY <2>1, <2>4
<1> HIDE DEF v
<1> QED
  BY <1>1, <1>4, <1>5 DEF LeavesValue

LEMMA BinaryFinal ==
    ASSUME NEW x, x.k = "binary", NEW w, NEW code, NEW val,
           LeavesValue(code[x.l], w, val[x.l]), LeavesValue(code[x.r], w, val[x.r]),
           NEW ps, NEW inFunction, NEW i, NEW rho
    PROVE  LeavesValue(visitPart(x, code, ps, inFunction, i), w, ValueOf(x, val, rho, w.p))
<1> DEFINE inst == Indexed("OPR", 2, i)
           c    == code[x.l]
           d    == code[x.r]
           v    == [op |-> "binary", l |-> val[x.l], r |-> val[x.r]]
<1>1. /\ visitPart(x, code, ps, inFunction, i) = c \o d \o <<inst>>
      /\ ValueOf(x, val, rho, w.p) = v
  <2>1. visitPart(x, code, ps, inFunction, i) = c \o d \o <<inst>>
    BY Zenon DEF visitPart
  <2> QED
    BY <2>1, BinaryValue
<1>2. inst.op = "OPR" /\ inst.ix = 2
  BY DEF Indexed
<1> HIDE DEF inst, c, d
<1>3. IsSeq(c) /\ \A st : IsSeq(st) => Final(c, w, st) = Append(st, val[x.l])
  BY DEF LeavesValue, c
<1>4. IsSeq(d) /\ \A st : IsSeq(st) => Final(d, w, st) = Append(st, val[x.r])
  BY DEF LeavesValue, d
<1> DEFINE cd == c \o d
<1>5. IsSeq(cd) /\ \A st : IsSeq(st) => Final(cd, w, st) = Append(Append(st, val[x.l]), val[x.r])
  <2>1. IsSeq(cd)
    BY <1>3, <1>4, ConcatFacts
  <2>2. ASSUME NEW st, IsSeq(st) PROVE Final(cd, w, st) = Append(Append(st, val[x.l]), val[x.r])
    <3>1. Final(cd, w, st) = Final(d, w, Final(c, w, st))
      BY <1>3, <1>4, StacksConcat
    <3>2. IsSeq(Append(st, val[x.l]))
      BY <2>2, AppendFacts
    <3> QED
      BY <1>3, <1>4, <2>2, <3>1, <3>2
  <2> QED
    BY <2>1, <2>2
<1> HIDE DEF cd
<1>6. IsSeq(<<inst>>) /\ IsSeq(cd \o <<inst>>)
  BY <1>5, OneOnTop
<1>7. ASSUME NEW st, IsSeq(st) PROVE Final(cd \o <<inst>>, w, st) = Append(st, v)
  <2> DEFINE t == Append(Append(st, val[x.l]), val[x.r])
  <2>1. Final(cd \o <<inst>>, w, st) = After(inst, t, w)
    <3>1. Final(cd \o <<inst>>, w, st) = Final(<<inst>>, w, Final(cd, w, st))
      BY <1>5, <1>6, <1>7, StacksConcat
    <3>2. Final(cd, w, st) = t
      BY <1>5, <1>7
    <3> HIDE DEF t
    <3> QED
      BY <3>1, <3>2, FinalOne
  <2>2. Lower(t, 2) = st /\ Upper(t, 2) = <<val[x.l], val[x.r]>>
    BY <1>7, TwoOnTop
  <2> HIDE DEF t
  <2>3. Pushed(inst, t, w) = v
    BY <1>2, <2>2 DEF Pushed
  <2>4. After(inst, t, w) = Append(st, v)
    BY <1>2, <2>2, <2>3 DEF After, TakesIn, Takes, Pushing
  <2> QED
    BY <2>1, <2>4
<1> HIDE DEF v
<1> QED
  BY <1>1, <1>6, <1>7 DEF LeavesValue, cd

LEMMA CallFinal ==
    ASSUME NEW x, x.k = "call", NEW S, x.args \in Seq(S), NEW w, Reaches(x, w), NEW code, NEW val,
           \A y \in RanOf(x.args) : LeavesValue(code[y], w, val[y]),
           NEW ps, NEW inFunction, NEW i, NEW rho
    PROVE  LeavesValue(visitPart(x, code, ps, inFunction, i), w, ValueOf(x, val, rho, w.p))
<1> DEFINE inst == Named("CALL", x.n, i)
           s    == [k \in DOMAIN x.args |-> code[x.args[k]]]
           vs   == [k \in DOMAIN x.args |-> val[x.args[k]]]
           c    == FlattenSeq(s)
           v    == CallValue(w.p, FuncNamed(w.p, x.n), vs)
<1>1. visitPart(x, code, ps, inFunction, i) = c \o <<inst>> /\ ValueOf(x, val, rho, w.p) = v
  BY CallCode, CallValued
<1>2. inst.op = "CALL" /\ inst.n = x.n
  BY DEF Named
<1>3. /\ Len(x.args) \in Nat /\ DOMAIN x.args = 1 .. Len(x.args)
      /\ w.m.functions[x.n] = Len(x.args) /\ w.m.labels[x.n] = FuncNamed(w.p, x.n)
  BY DEF Reaches
<1>4. \A k \in 1 .. Len(x.args) : LeavesValue(code[x.args[k]], w, val[x.args[k]])
  BY <1>3 DEF RanOf
<1>5. /\ IsSeq(s) /\ Len(s) = Len(x.args) /\ IsSeq(vs) /\ Len(vs) = Len(x.args)
      /\ \A k \in 1 .. Len(s) : LeavesValue(s[k], w, vs[k])
  <2>1. s \in Seq(RanOf(s)) /\ vs \in Seq(RanOf(vs)) /\ Len(s) = Len(x.args) /\ Len(vs) = Len(x.args)
    BY <1>3 DEF RanOf
  <2>2. \A k \in 1 .. Len(x.args) : LeavesValue(s[k], w, vs[k])
    BY <1>3, <1>4
  <2> QED
    BY <2>1, <2>2 DEF IsSeq
<1> HIDE DEF inst, s, vs
<1>6. IsSeq(c) /\ \A st : IsSeq(st) => Final(c, w, st) = st \o vs
  BY <1>5, FinalFlatten
<1> HIDE DEF c
<1>7. IsSeq(<<inst>>) /\ IsSeq(c \o <<inst>>)
  BY <1>6, OneOnTop
<1>8. ASSUME NEW st, IsSeq(st) PROVE Final(c \o <<inst>>, w, st) = Append(st, v)
  <2> DEFINE t == st \o vs
  <2>1. Final(c \o <<inst>>, w, st) = After(inst, t, w)
    <3>1. Final(c \o <<inst>>, w, st) = Final(<<inst>>, w, Final(c, w, st))
      BY <1>6, <1>7, <1>8, StacksConcat
    <3>2. Final(c, w, st) = t
      BY <1>6, <1>8
    <3> HIDE DEF t
    <3> QED
      BY <3>1, <3>2, FinalOne
  <2>2. Lower(t, Len(x.args)) = st /\ Upper(t, Len(x.args)) = vs
    BY <1>5, <1>8, SplitFacts
  <2> HIDE DEF t
  <2>3. TakesIn(inst, w) = Len(x.args)
    BY <1>2, <1>3 DEF TakesIn, Takes
  <2>4. Pushed(inst, t, w) = v
    BY <1>2, <1>3, <2>2, <2>3 DEF Pushed
  <2>5. After(inst, t, w) = Append(st, v)
    BY <1>2, <2>2, <2>3, <2>4 DEF After, Pushing
  <2> QED
    BY <2>1, <2>5
<1> HIDE DEF v
<1> QED
  BY <1>1, <1>7, <1>8 DEF LeavesValue

\* The code of an expression leaves its value.
LEMMA ExpFinal ==
    ASSUME NEW e, Tree(e), Bad \notin SubExps(e), NEW ps, IsSeq(ps),
           NEW inFunction \in BOOLEAN, NEW i \in Nat, NEW w, NEW rho, Agrees(rho, w, ps, inFunction),
           \A x \in SubExps(e) : Fits(x, w.m.functions, ps, inFunction) /\ Reaches(x, w)
    PROVE  LeavesValue(visitExp(e, ps, inFunction, i), w, Eval(e, rho, w.p))
<1>1. PICK code : /\ visitExp(e, ps, inFunction, i) = code[e]
                  /\ \A x \in SubExps(e) : code[x] = visitPart(x, code, ps, inFunction, i)
  BY ExpCode
<1>2. PICK val : /\ Eval(e, rho, w.p) = val[e]
                 /\ \A x \in SubExps(e) : val[x] = ValueOf(x, val, rho, w.p)
  BY EvalFacts
<1> DEFINE T == {x \in SubExps(e) : LeavesValue(code[x], w, val[x])}
<1>3. ASSUME NEW x \in SubExps(e), Children(x) \subseteq T PROVE x \in T
  <2>1. Node(x, SubExps(e)) /\ x # Bad /\ Fits(x, w.m.functions, ps, inFunction) /\ Reaches(x, w)
    BY DEF Tree
  <2>2. /\ code[x] = visitPart(x, code, ps, inFunction, i)
        /\ val[x] = ValueOf(x, val, rho, w.p)
    BY <1>1, <1>2
  <2>3. \A y \in Children(x) : LeavesValue(code[y], w, val[y])
    BY <1>3
  <2> SUFFICES LeavesValue(code[x], w, val[x])
    OBVIOUS
  <2>4. CASE x.k = "num"
    <3> DEFINE inst == Inst("LI", i)
    <3>1. code[x] = <<inst>> /\ val[x] = [op |-> "lit"]
      BY <2>2, <2>4, NumCode, NumValue
    <3>2. inst.op = "LI"
      BY DEF Inst
    <3> HIDE DEF inst
    <3>3. TakesIn(inst, w) = 0 /\ inst.op \in Pushing /\ \A st : Pushed(inst, st, w) = val[x]
      BY <3>1, <3>2 DEF TakesIn, Takes, Popping1, Pushing, Pushed
    <3> QED
      BY <3>1, <3>3, LeavesOnTop
  <2>5. CASE x.k = "id" /\ x.n \in Idents
    <3>1. val[x] = rho[x.n] /\ code[x] = visitIdentExp(x.n, ps, inFunction, i)
      BY <2>2, <2>5, IdCode, IdValue
    <3>2. CASE inFunction
      <4> DEFINE inst == Indexed("ARG", getIndexOf(ps, x.n), i)
      <4>1. x.n \in RanOf(ps) /\ getIndexOf(ps, x.n) > 0
        <5>1. x.n \in RanOf(ps)
          BY <2>1, <2>5, <3>2 DEF Fits
        <5> QED
          BY <5>1, IndexFacts
      <4>2. code[x] = <<inst>> /\ val[x] = w.args[getIndexOf(ps, x.n)]
        BY <3>1, <3>2, <4>1 DEF visitIdentExp, Agrees
      <4>3. inst.op = "ARG" /\ inst.ix = getIndexOf(ps, x.n)
        BY DEF Indexed
      <4> HIDE DEF inst
      <4>4. TakesIn(inst, w) = 0 /\ inst.op \in Pushing /\ \A st : Pushed(inst, st, w) = val[x]
        BY <4>2, <4>3 DEF TakesIn, Takes, Popping1, Pushing, Pushed
      <4> QED
        BY <4>2, <4>4, LeavesOnTop
    <3>3. CASE ~inFunction
      <4> DEFINE inst == Named("LOAD", x.n, i)
      <4>1. code[x] = <<inst>> /\ val[x] = [op |-> "from", stmt |-> w.vals[x.n]]
        BY <2>5, <3>1, <3>3 DEF visitIdentExp, Agrees
      <4>2. inst.op = "LOAD" /\ inst.n = x.n
        BY DEF Named
      <4> HIDE DEF inst
      <4>3. TakesIn(inst, w) = 0 /\ inst.op \in Pushing /\ \A st : Pushed(inst, st, w) = val[x]
        BY <4>1, <4>2 DEF TakesIn, Takes, Popping1, Pushing, Pushed
      <4> QED
        BY <4>1, <4>3, LeavesOnTop
    <3> QED
      BY <3>2, <3>3
  <2>6. CASE x.k = "unary" /\ Children(x) = {x.e}
    BY <2>2, <2>3, <2>6, UnaryFinal
  <2>7. CASE x.k = "binary" /\ Children(x) = {x.l, x.r}
    BY <2>2, <2>3, <2>7, BinaryFinal
  <2>8. CASE x.k = "call" /\ x.args \in Seq(SubExps(e)) /\ Children(x) = RanOf(x.args)
    BY <2>1, <2>2, <2>3, <2>8, CallFinal
  <2> QED
    BY <2>1, <2>4, <2>5, <2>6, <2>7, <2>8, Kind
<1>4. SubExps(e) \subseteq T
  <2> HIDE DEF T
  <2> QED
    BY <1>3, PartsInduction
<1> QED
  BY <1>1, <1>2, <1>4, Rooted

-----------------------------------------------------------------------------
(***************************************************************************)
(* Where the code of each statement is.                                    *)
(***************************************************************************)
Valued == {"put", "let", "if"}
Naming == {"get", "tag", "let", "if", "to"}

TypedStmt(s) == /\ s.k \in Valued \cup Naming
                /\ s.k \in Naming => s.n \in Idents
                /\ s.k \in Valued => s.e \in Exps \cup Conds

\* The code of statement s, number i, that is no tag: what leaves a value and
\* the instruction that takes it.
BodyOf(s, i) == IF s.k = "get" THEN <<Inst("READ", i)>>
                ELSE IF s.k \in Valued THEN visitExp(s.e, <<>>, FALSE, i) ELSE <<>>
LastOf(s, i) == IF s.k \in {"get", "let"} THEN Named("STORE", s.n, i)
                ELSE IF s.k = "put" THEN Inst("WRITE", i)
                ELSE IF s.k = "if" THEN Named("JIT", s.n, i) ELSE Named("JUMP", s.n, i)
CodeOf(s, i) == Append(BodyOf(s, i), LastOf(s, i))

\* c is such code.
IsCodeOf(c, s, i) ==
    /\ c \in Seq(Insts) /\ Len(c) >= 1
    /\ \A k \in 1 .. Len(c) : c[k].stmt = i
    /\ \A k \in 1 .. (Len(c) - 1) : c[k].op \in {"LI", "LOAD", "READ", "OPR", "CALL"}
    /\ c[Len(c)] = LastOf(s, i)
    /\ c[Len(c)].op \in {"STORE", "WRITE", "JIT", "JUMP"}

LEMMA BodyFacts ==
    ASSUME NEW m, NEW p, Matches(m, p), NEW s, TypedStmt(s), s.k # "tag", LegalStmt(p, s),
           NEW i \in Nat
    PROVE  BodyOf(s, i) \in Seq(StmtInsts(m.functions, i))
<1>1. CASE s.k = "get"
  <2> DEFINE read == Inst("READ", i)
  <2>1. read \in Insts /\ read.op = "READ" /\ read.stmt = i
    BY InstIs DEF Ops
  <2> HIDE DEF read
  <2>2. read \in StmtInsts(m.functions, i)
    BY <2>1 DEF StmtInsts
  <2> DEFINE S == StmtInsts(m.functions, i)
  <2> HIDE DEF S
  <2>3. <<read>> \in Seq(S)
    BY <2>2 DEF S
  <2> QED
    BY <1>1, <2>3 DEF BodyOf, read, S
<1>2. CASE s.k \in Valued
  <2>1. s.e \in Exps \cup Conds
    BY <1>2 DEF TypedStmt
  <2>2. WellFormed(s.e, Declared(p), p, Len(p.funcs))
    BY <1>2 DEF LegalStmt, Valued
  <2>3. visitExp(s.e, <<>>, FALSE, i) \in Seq(StmtInsts(m.functions, i))
    BY <2>1, <2>2, MainExp
  <2>4. s.k # "get"
    BY <1>2 DEF Valued
  <2> QED
    BY <1>2, <2>3, <2>4 DEF BodyOf
<1>3. CASE s.k # "get" /\ s.k \notin Valued
  BY <1>3 DEF BodyOf
<1> QED
  BY <1>1, <1>2, <1>3

LEMMA LastFacts ==
    ASSUME NEW s, TypedStmt(s), s.k # "tag", NEW i \in Nat
    PROVE  /\ LastOf(s, i) \in Insts /\ LastOf(s, i).stmt = i
           /\ s.k \in {"get", "let"} => LastOf(s, i).op = "STORE"
           /\ s.k = "put" => LastOf(s, i).op = "WRITE"
           /\ s.k = "if" => LastOf(s, i).op = "JIT"
           /\ s.k = "to" => LastOf(s, i).op = "JUMP"
           /\ s.k # "put" => LastOf(s, i).n = s.n
<1>1. CASE s.k = "put"
  <2>1. LastOf(s, i) = Inst("WRITE", i)
    BY <1>1 DEF LastOf
  <2> QED
    BY <1>1, <2>1, InstIs DEF Ops
<1>2. CASE s.k \in {"get", "let"}
  <2>1. LastOf(s, i) = Named("STORE", s.n, i) /\ s.n \in Labels
    BY <1>2 DEF LastOf, TypedStmt, Naming, Labels
  <2> QED
    BY <1>2, <2>1, NamedIs DEF Ops
<1>3. CASE s.k = "if"
  <2>1. LastOf(s, i) = Named("JIT", s.n, i) /\ s.n \in Labels
    BY <1>3 DEF LastOf, TypedStmt, Naming, Labels
  <2> QED
    BY <1>3, <2>1, NamedIs DEF Ops
<1>4. CASE s.k = "to"
  <2>1. LastOf(s, i) = Named("JUMP", s.n, i) /\ s.n \in Labels
    BY <1>4 DEF LastOf, TypedStmt, Naming, Labels
  <2> QED
    BY <1>4, <2>1, NamedIs DEF Ops
<1> QED
  BY <1>1, <1>2, <1>3, <1>4 DEF TypedStmt, Valued, Naming

LEMMA CodeFacts ==
    ASSUME NEW m, NEW p, Matches(m, p), NEW s, TypedStmt(s), s.k # "tag", LegalStmt(p, s),
           NEW i \in Nat
    PROVE  /\ IsCodeOf(CodeOf(s, i), s, i)
           /\ CodeOf(s, i) = BodyOf(s, i) \o <<LastOf(s, i)>>
           /\ Len(CodeOf(s, i)) = Len(BodyOf(s, i)) + 1 /\ BodyOf(s, i) \in Seq(Insts)
<1> DEFINE body == BodyOf(s, i)
           last == LastOf(s, i)
           c    == Append(body, last)
<1>1. body \in Seq(StmtInsts(m.functions, i))
  BY BodyFacts
<1>2. last \in Insts /\ last.stmt = i /\ last.op \in {"STORE", "WRITE", "JIT", "JUMP"}
  BY LastFacts DEF TypedStmt, Valued, Naming
<1> HIDE DEF body, last
<1>3. body \in Seq(Insts)
  <2>1. StmtInsts(m.functions, i) \subseteq Insts
    BY DEF StmtInsts
  <2> QED
    BY <1>1, <2>1, SeqMonotonic
<1>4. /\ c \in Seq(Insts) /\ Len(c) = Len(body) + 1 /\ c[Len(c)] = last
      /\ (\A k \in 1 .. Len(body) : c[k] = body[k])
      /\ Len(body) \in Nat /\ body \o <<last>> = c
  BY <1>2, <1>3
<1> HIDE DEF c
<1>5. \A k \in 1 .. Len(c) : k = Len(c) \/ k \in 1 .. Len(body)
  BY <1>4
<1>6. \A k \in 1 .. Len(body) : /\ c[k].stmt = i
                                /\ c[k].op \in {"LI", "LOAD", "READ", "OPR", "CALL"}
  <2> TAKE k \in 1 .. Len(body)
  <2>1. body[k] \in StmtInsts(m.functions, i)
    BY <1>1
  <2> QED
    BY <1>4, <2>1 DEF StmtInsts
<1>7. \A k \in 1 .. Len(c) : c[k].stmt = i
  BY <1>2, <1>4, <1>5, <1>6
<1>8. Len(c) >= 1 /\ Len(c) - 1 = Len(body)
  BY <1>4
<1>9. IsCodeOf(c, s, i)
  BY <1>2, <1>4, <1>6, <1>7, <1>8 DEF IsCodeOf, last
<1> QED
  BY <1>3, <1>4, <1>9 DEF CodeOf, c, body, last

\* Code d is in c, from its k-th instruction on.
Sits(d, c, k) == \A j \in 1 .. Len(d) : k + j - 1 \in 1 .. Len(c) /\ c[k + j - 1] = d[j]

\* In the module m the statement s, number i, begins at l and the next at r.
\* A tag is between the end of a block and the label of the next.
Placed(m, s, i, l, r) ==
    IF s.k = "tag"
    THEN /\ l.ip = Len(m.blocks[l.block]) + 1
         /\ l.block + 1 \in 1 .. Len(m.blocks)
         /\ m.blocks[l.block + 1][1] = Named("LABEL", s.n, i)
         /\ m.labels[s.n] = l.block + 1
         /\ r = [block |-> l.block + 1, ip |-> 2]
    ELSE /\ Sits(CodeOf(s, i), m.blocks[l.block], l.ip)
         /\ r = [block |-> l.block, ip |-> l.ip + Len(CodeOf(s, i))]

Main0(p)   == Len(p.funcs) + 1
HeadLen(p) == Len(p.decls) + 1

IsPlace(m, p, l) == /\ l = [block |-> l.block, ip |-> l.ip]
                    /\ l.block \in Main0(p) .. Len(m.blocks)
                    /\ l.ip \in 2 .. (Len(m.blocks[l.block]) + 1)

\* The end of the code.
EndOf(m) == [block |-> Len(m.blocks), ip |-> Len(m.blocks[Len(m.blocks)]) + 1]

\* The places of the statements, each after the one before it, from main's
\* label and declarations to the end.
Layout(m, p, at) ==
    /\ at[1] = [block |-> Main0(p), ip |-> HeadLen(p) + 1]
    /\ \A i \in 1 .. Len(p.stmts) + 1 : IsPlace(m, p, at[i])
    /\ \A i \in 1 .. Len(p.stmts) : Placed(m, p.stmts[i], i, at[i], at[i + 1])
    /\ at[Len(p.stmts) + 1] = EndOf(m)

Header(m, p) == \A k \in 1 .. HeadLen(p) : /\ k \in 1 .. Len(m.blocks[Main0(p)])
                                           /\ m.blocks[Main0(p)][k].stmt = 0
                                           /\ m.blocks[Main0(p)][k].op \in {"LABEL", "DEF"}

LaidOut(m, p) == Header(m, p) /\ \E at : Layout(m, p, at)

FuncCodes(m, p) ==
    \A j \in 1 .. Len(p.funcs) :
        m.blocks[j] = <<Named("LABEL", p.funcs[j].n, 0)>>
                          \o visitExp(p.funcs[j].e, p.funcs[j].params, TRUE, 0) \o <<Inst("RET", 0)>>

LabelsTaken(m, p) ==
    \A n \in Idents : m.labels[n] # NoBlock =>
        n \in Defined(p) \/ \E s \in RanOf(p.stmts) : s.k = "tag" /\ s.n = n

Shaped(m, p, ph) ==
    /\ \A s \in RanOf(p.stmts) : TypedStmt(s)
    /\ FuncCodes(m, p) /\ LabelsTaken(m, p)
    /\ ph = "funcs" => p.decls = <<>>
    /\ ph = "decls" => p.stmts = <<>>
    /\ ph \in Main => LaidOut(m, p)

\* Module r has what m has, and more in its last block or after it.
Extends(m, r) ==
    /\ Len(m.blocks) \in Nat /\ Len(r.blocks) \in Nat /\ Len(m.blocks) <= Len(r.blocks)
    /\ \A b \in 1 .. Len(m.blocks) :
          /\ Len(m.blocks[b]) \in Nat /\ Len(r.blocks[b]) \in Nat
          /\ Len(m.blocks[b]) <= Len(r.blocks[b])
          /\ \A k \in 1 .. Len(m.blocks[b]) : r.blocks[b][k] = m.blocks[b][k]
          /\ b < Len(m.blocks) => Len(r.blocks[b]) = Len(m.blocks[b])

LEMMA PlaceLater ==
    ASSUME NEW m, NEW r, Extends(m, r), NEW p, Len(p.funcs) \in Nat, NEW q, q.funcs = p.funcs,
           NEW l, IsPlace(m, p, l)
    PROVE  IsPlace(r, q, l)
<1>1. /\ l = [block |-> l.block, ip |-> l.ip] /\ l.block \in Main0(p) .. Len(m.blocks)
      /\ l.ip \in 2 .. (Len(m.blocks[l.block]) + 1) /\ Main0(p) = Main0(q) /\ Main0(p) \in Nat
      /\ Main0(p) >= 1
  BY DEF IsPlace, Main0
<1>2. l.block \in 1 .. Len(m.blocks)
  BY <1>1 DEF Extends
<1>3. /\ Len(m.blocks[l.block]) <= Len(r.blocks[l.block]) /\ Len(m.blocks) <= Len(r.blocks)
      /\ Len(m.blocks[l.block]) \in Nat /\ Len(r.blocks[l.block]) \in Nat
      /\ Len(m.blocks) \in Nat /\ Len(r.blocks) \in Nat
  BY <1>2 DEF Extends
<1>4. l.block \in Main0(q) .. Len(r.blocks) /\ l.ip \in 2 .. (Len(r.blocks[l.block]) + 1)
  BY SMTT(60), <1>1, <1>3
<1> QED
  BY <1>1, <1>4 DEF IsPlace

LEMMA PlacedLater ==
    ASSUME NEW m, NEW r, Extends(m, r), NEW p, Len(p.funcs) \in Nat, NEW s, NEW i,
           s.k = "tag" => r.labels[s.n] = m.labels[s.n],
           NEW l, IsPlace(m, p, l), NEW t, IsPlace(m, p, t), Placed(m, s, i, l, t)
    PROVE  Placed(r, s, i, l, t)
<1>1. /\ l.block \in 1 .. Len(m.blocks) /\ t.block \in 1 .. Len(m.blocks)
      /\ t.ip \in 2 .. (Len(m.blocks[t.block]) + 1) /\ Len(m.blocks) \in Nat
  BY DEF IsPlace, Main0, Extends
<1>2. CASE s.k = "tag"
  <2>1. /\ l.ip = Len(m.blocks[l.block]) + 1 /\ l.block + 1 \in 1 .. Len(m.blocks)
        /\ m.blocks[l.block + 1][1] = Named("LABEL", s.n, i) /\ m.labels[s.n] = l.block + 1
        /\ t = [block |-> l.block + 1, ip |-> 2]
    BY <1>2 DEF Placed
  <2>2. l.block < Len(m.blocks)
    BY <1>1, <2>1
  <2>3. Len(r.blocks[l.block]) = Len(m.blocks[l.block])
    BY <1>1, <2>2 DEF Extends
  <2>4. 1 \in 1 .. Len(m.blocks[l.block + 1])
    <3>1. t.block = l.block + 1 /\ t.ip = 2
      BY <2>1
    <3>2. 2 \in 2 .. (Len(m.blocks[l.block + 1]) + 1) /\ Len(m.blocks[l.block + 1]) \in Nat
      BY <1>1, <2>1, <3>1 DEF Extends
    <3> QED
      BY <3>2
  <2>5. r.blocks[l.block + 1][1] = m.blocks[l.block + 1][1] /\ l.block + 1 \in 1 .. Len(r.blocks)
    BY SMTT(60), <2>1, <2>4 DEF Extends
  <2> QED
    BY <1>2, <2>1, <2>3, <2>5 DEF Placed
<1>3. CASE s.k # "tag"
  <2> DEFINE c == m.blocks[l.block]
             d == r.blocks[l.block]
  <2>1. /\ Sits(CodeOf(s, i), c, l.ip)
        /\ t = [block |-> l.block, ip |-> l.ip + Len(CodeOf(s, i))]
    BY <1>3 DEF Placed
  <2>2. Len(c) \in Nat /\ Len(d) \in Nat /\ Len(c) <= Len(d) /\ \A k \in 1 .. Len(c) : d[k] = c[k]
    BY <1>1 DEF Extends
  <2> HIDE DEF c, d
  <2>3. Sits(CodeOf(s, i), d, l.ip)
    BY SMTT(60), <2>1, <2>2 DEF Sits
  <2> QED
    BY <1>3, <2>1, <2>3 DEF Placed, d
<1> QED
  BY <1>2, <1>3

SameTags(m, r, p) == \A u \in RanOf(p.stmts) : u.k = "tag" => r.labels[u.n] = m.labels[u.n]

\* One statement more, at the end of the code there is.
LEMMA LaidLater ==
    ASSUME NEW m, NEW r, Extends(m, r), NEW p, Len(p.funcs) \in Nat, Len(p.decls) \in Nat,
           IsSeq(p.stmts), Len(m.blocks) >= Main0(p), LaidOut(m, p),
           NEW s, NEW q, q.funcs = p.funcs, q.decls = p.decls, q.stmts = Append(p.stmts, s),
           SameTags(m, r, p),
           IsPlace(r, q, EndOf(r)), Placed(r, s, Len(p.stmts) + 1, EndOf(m), EndOf(r))
    PROVE  LaidOut(r, q)
<1> DEFINE n == Len(p.stmts)
<1>1. PICK at : Layout(m, p, at)
  BY DEF LaidOut
<1>2. /\ n \in Nat /\ Len(q.stmts) = n + 1 /\ q.stmts[n + 1] = s
      /\ (\A i \in 1 .. n : q.stmts[i] = p.stmts[i] /\ p.stmts[i] \in RanOf(p.stmts))
      /\ Main0(q) = Main0(p) /\ HeadLen(q) = HeadLen(p) /\ Main0(p) \in Nat /\ Main0(p) >= 1
      /\ HeadLen(p) \in Nat
  BY AppendFacts, SeqFacts DEF Main0, HeadLen, RanOf
<1> DEFINE new == [i \in 1 .. n + 2 |-> IF i = n + 2 THEN EndOf(r) ELSE at[i]]
<1>3. /\ \A i \in 1 .. n + 1 : new[i] = at[i]
      /\ new[n + 2] = EndOf(r) /\ at[n + 1] = EndOf(m)
  <2>1. at[n + 1] = EndOf(m)
    BY <1>1 DEF Layout
  <2> HIDE DEF n
  <2> QED
    BY <1>2, <2>1
<1> HIDE DEF new, n
<1>4. Layout(r, q, new)
  <2>1. new[1] = [block |-> Main0(q), ip |-> HeadLen(q) + 1]
    <3>1. 1 \in 1 .. n + 1
      BY <1>2
    <3> QED
      BY <1>1, <1>2, <1>3, <3>1 DEF Layout
  <2>2. ASSUME NEW i \in 1 .. n + 2 PROVE IsPlace(r, q, new[i])
    <3>1. CASE i = n + 2
      BY <1>3, <3>1
    <3>2. CASE i \in 1 .. n + 1
      <4>1. IsPlace(m, p, at[i])
        BY <1>1, <3>2 DEF Layout, n
      <4> QED
        BY <1>3, <3>2, <4>1, PlaceLater
    <3> QED
      BY <1>2, <3>1, <3>2
  <2>3. ASSUME NEW i \in 1 .. n + 1 PROVE Placed(r, q.stmts[i], i, new[i], new[i + 1])
    <3>1. CASE i = n + 1
      <4>1. i + 1 = n + 2
        BY <1>2, <3>1
      <4> QED
        BY <1>2, <1>3, <3>1, <4>1 DEF n
    <3>2. CASE i \in 1 .. n
      <4>1. i + 1 \in 1 .. n + 1
        BY <1>2, <3>2
      <4>2. IsPlace(m, p, at[i]) /\ IsPlace(m, p, at[i + 1]) /\ Placed(m, p.stmts[i], i, at[i], at[i + 1])
        BY <1>1, <3>2, <4>1 DEF Layout, n
      <4>3. Placed(r, p.stmts[i], i, at[i], at[i + 1])
        BY <1>2, <3>2, <4>2, PlacedLater DEF SameTags
      <4> QED
        BY <1>2, <1>3, <3>2, <4>1, <4>3
    <3> QED
      BY <1>2, <3>1, <3>2
  <2>4. Len(q.stmts) + 1 = n + 2
    BY <1>2
  <2> QED
    BY <1>2, <1>3, <2>1, <2>2, <2>3, <2>4 DEF Layout
<1>6. Header(r, q)
  <2> SUFFICES ASSUME NEW k \in 1 .. HeadLen(p)
               PROVE  /\ k \in 1 .. Len(r.blocks[Main0(p)])
                      /\ r.blocks[Main0(p)][k].stmt = 0
                      /\ r.blocks[Main0(p)][k].op \in {"LABEL", "DEF"}
    BY <1>2 DEF Header
  <2> DEFINE c == m.blocks[Main0(p)]
             d == r.blocks[Main0(p)]
  <2>1. k \in 1 .. Len(c) /\ c[k].stmt = 0 /\ c[k].op \in {"LABEL", "DEF"}
    BY DEF LaidOut, Header
  <2>2. Main0(p) \in 1 .. Len(m.blocks)
    BY <1>2 DEF Extends
  <2>3. Len(c) \in Nat /\ Len(d) \in Nat /\ Len(c) <= Len(d) /\ \A j \in 1 .. Len(c) : d[j] = c[j]
    BY <2>2 DEF Extends
  <2> HIDE DEF c, d
  <2>4. k \in 1 .. Len(d) /\ d[k] = c[k]
    BY <2>1, <2>3
  <2> QED
    BY <2>1, <2>4 DEF d
<1> QED
  BY <1>4, <1>6 DEF LaidOut

\* insertInst: the code of a statement that is no tag.
LEMMA StmtLaid ==
    ASSUME NEW m, NEW p, Matches(m, p), Len(m.blocks) > Len(p.funcs), LaidOut(m, p),
           NEW s, s.k # "tag", NEW q, q = WithStmt(p, s),
           IsCodeOf(CodeOf(s, Len(p.stmts) + 1), s, Len(p.stmts) + 1),
           NEW r, r = insertInst(m, CodeOf(s, Len(p.stmts) + 1))
    PROVE  LaidOut(r, q) /\ r.labels = m.labels /\ \A b \in 1 .. Len(p.funcs) : r.blocks[b] = m.blocks[b]
<1> DEFINE n == Len(p.stmts)
           K == Len(m.blocks)
           B == m.blocks[K]
           c == CodeOf(s, n + 1)
<1>1. SourceOk(p) /\ ModuleOk(m)
  BY DEF Matches
<1>2. /\ p = [funcs |-> p.funcs, decls |-> p.decls, stmts |-> p.stmts] /\ IsSeq(p.stmts)
      /\ Len(p.funcs) \in Nat /\ Len(p.decls) \in Nat
      /\ K \in Nat /\ K > 0 /\ K \in 1 .. K /\ \A b \in 1 .. K : m.blocks[b] \in Seq(Insts)
  BY <1>1 DEF SourceOk, ModuleOk
<1>3. q.funcs = p.funcs /\ q.decls = p.decls /\ q.stmts = Append(p.stmts, s)
  <2> DEFINE ss == Append(p.stmts, s)
  <2> HIDE DEF ss
  <2>1. q = [funcs |-> p.funcs, decls |-> p.decls, stmts |-> ss]
    BY <1>2 DEF WithStmt, ss
  <2> QED
    BY <2>1 DEF ss
<1>4. c \in Seq(Insts) /\ Len(c) >= 1 /\ Len(c) \in Nat
  BY DEF IsCodeOf
<1> HIDE DEF c
<1>5. /\ r.labels = m.labels /\ Len(r.blocks) = K /\ r.blocks[K] = B \o c
      /\ \A b \in 1 .. K : b # K => r.blocks[b] = m.blocks[b]
  BY <1>1, <1>2, <1>4, InsertFacts DEF c
<1> DEFINE D == r.blocks[K]
<1>6. /\ Len(D) = Len(B) + Len(c) /\ Len(B) \in Nat
      /\ \A k \in 1 .. Len(B) : D[k] = B[k]
      /\ \A k \in 1 .. Len(c) : D[Len(B) + k] = c[k]
  <2>1. B \in Seq(Insts)
    BY <1>2
  <2> HIDE DEF B, D
  <2>2. D = B \o c
    BY <1>5 DEF D, B
  <2> QED
    BY <1>4, <2>1, <2>2
<1>7. Extends(m, r)
  <2>1. ASSUME NEW b \in 1 .. K
        PROVE  /\ Len(m.blocks[b]) \in Nat /\ Len(r.blocks[b]) \in Nat
               /\ Len(m.blocks[b]) <= Len(r.blocks[b])
               /\ \A k \in 1 .. Len(m.blocks[b]) : r.blocks[b][k] = m.blocks[b][k]
               /\ b < K => Len(r.blocks[b]) = Len(m.blocks[b])
    <3>1. CASE b = K
      <4> HIDE DEF c, K
      <4> QED
        BY SMTT(60), <1>2, <1>4, <1>6, <3>1
    <3>2. CASE b # K
      <4>1. r.blocks[b] = m.blocks[b] /\ Len(m.blocks[b]) \in Nat
        BY SMTT(60), <1>2, <1>5, <3>2
      <4> QED
        BY <4>1
    <3> QED
      BY <3>1, <3>2
  <2> QED
    BY <1>2, <1>5, <2>1 DEF Extends
<1> HIDE DEF B, D
<1>8. EndOf(m) = [block |-> K, ip |-> Len(B) + 1] /\ EndOf(r) = [block |-> K, ip |-> Len(B) + Len(c) + 1]
  BY <1>5, <1>6 DEF EndOf, B, D
<1>9. Placed(r, s, n + 1, EndOf(m), EndOf(r))
  <2>1. Sits(c, D, Len(B) + 1)
    <3>1. \A j \in 1 .. Len(c) : Len(B) + 1 + j - 1 = Len(B) + j /\ Len(B) + j \in 1 .. Len(D)
      BY <1>4, <1>6
    <3> QED
      BY <1>6, <3>1 DEF Sits
  <2>2. Len(B) + 1 + Len(c) = Len(B) + Len(c) + 1
    BY <1>4, <1>6
  <2> QED
    BY <1>8, <2>1, <2>2 DEF Placed, c, D
<1>10. Main0(p) \in Nat /\ Main0(p) >= 1 /\ Main0(p) = Main0(q) /\ K >= Main0(p)
  BY <1>2, <1>3 DEF Main0
<1>11. IsPlace(r, q, EndOf(r))
  <2>1. K \in Main0(q) .. K
    BY <1>2, <1>10
  <2>2. Len(B) + Len(c) + 1 \in 2 .. (Len(D) + 1)
    BY <1>4, <1>6
  <2> QED
    BY SMTT(60), <1>5, <1>8, <2>1, <2>2 DEF IsPlace, D
<1>13. LaidOut(r, q)
  <2>1. SameTags(m, r, p)
    BY <1>5 DEF SameTags
  <2>2. Placed(r, s, Len(p.stmts) + 1, EndOf(m), EndOf(r)) /\ Len(m.blocks) >= Main0(p)
    BY <1>9, <1>10
  <2> HIDE DEF n, K
  <2> QED
    BY <1>2, <1>3, <1>7, <1>11, <2>1, <2>2, LaidLater
<1>14. ASSUME NEW b \in 1 .. Len(p.funcs) PROVE r.blocks[b] = m.blocks[b]
  <2>1. b \in 1 .. K /\ b # K
    BY <1>2
  <2> QED
    BY <1>5, <2>1
<1> QED
  BY <1>5, <1>13, <1>14

\* createBlock and addLabel: a tag.
LEMMA TagLaid ==
    ASSUME NEW m, NEW p, Matches(m, p), Len(m.blocks) > Len(p.funcs), LaidOut(m, p),
           NEW s, s.k = "tag", s.n \in Idents, m.labels[s.n] = NoBlock, NEW q, q = WithStmt(p, s),
           NEW r, r = NewLabelled(m, s.n, <<Named("LABEL", s.n, Len(p.stmts) + 1)>>)
    PROVE  LaidOut(r, q)
<1> DEFINE n == Len(p.stmts)
           K == Len(m.blocks)
           B == m.blocks[K]
           label == Named("LABEL", s.n, n + 1)
           c     == <<label>>
<1>1. SourceOk(p) /\ ModuleOk(m) /\ NamesOk(m, p)
  BY DEF Matches
<1>2. /\ p = [funcs |-> p.funcs, decls |-> p.decls, stmts |-> p.stmts] /\ IsSeq(p.stmts)
      /\ Len(p.funcs) \in Nat /\ Len(p.decls) \in Nat /\ n \in Nat
      /\ K \in Nat /\ K > 0 /\ K \in 1 .. K /\ \A b \in 1 .. K : m.blocks[b] \in Seq(Insts)
  BY SMTT(60), <1>1, SeqFacts DEF SourceOk, ModuleOk
<1>3. q.funcs = p.funcs /\ q.decls = p.decls /\ q.stmts = Append(p.stmts, s)
  <2> DEFINE ss == Append(p.stmts, s)
  <2> HIDE DEF ss
  <2>1. q = [funcs |-> p.funcs, decls |-> p.decls, stmts |-> ss]
    BY <1>2 DEF WithStmt, ss
  <2> QED
    BY <2>1 DEF ss
<1>4. label \in Insts
  <2>1. s.n \in Labels /\ n + 1 \in Nat
    BY <1>2 DEF Labels
  <2> QED
    BY <2>1, NamedIs DEF Ops
<1> HIDE DEF label
<1>5. c \in Seq(Insts) /\ Len(c) = 1 /\ c[1] = label
  BY <1>4
<1> HIDE DEF c, n, K
<1>6. /\ Len(r.blocks) = K + 1 /\ r.blocks[K + 1] = c
      /\ \A b \in 1 .. K : r.blocks[b] = m.blocks[b]
      /\ r.labels[s.n] = K + 1
      /\ \A l \in Labels : l # s.n => r.labels[l] = m.labels[l]
  <2>1. r = NewLabelled(m, s.n, c) /\ s.n \in Labels
    BY DEF c, label, n, Labels
  <2> QED
    BY SMTT(60), <1>1, <1>5, <2>1, LabelledFacts DEF K
<1>7. Extends(m, r)
  <2>1. \A b \in 1 .. K : Len(m.blocks[b]) \in Nat /\ r.blocks[b] = m.blocks[b]
    BY SMTT(60), <1>2, <1>6
  <2> QED
    BY SMTT(60), <1>2, <1>6, <2>1 DEF Extends, K
<1>8. EndOf(m) = [block |-> K, ip |-> Len(B) + 1] /\ EndOf(r) = [block |-> K + 1, ip |-> 2]
  <2>1. Len(r.blocks[K + 1]) = 1
    BY <1>5, <1>6
  <2> DEFINE d == r.blocks[Len(r.blocks)]
  <2>2. d = r.blocks[K + 1]
    BY <1>6
  <2>3. Len(d) = 1
    BY <2>1, <2>2
  <2> HIDE DEF d
  <2>4. Len(d) + 1 = 2
    BY <2>3
  <2> QED
    BY <1>6, <2>4 DEF EndOf, K, d
<1>9. SameTags(m, r, p)
  <2> SUFFICES ASSUME NEW u \in RanOf(p.stmts), u.k = "tag" PROVE r.labels[u.n] = m.labels[u.n]
    BY DEF SameTags
  <2>1. u.n \in Labels /\ m.labels[u.n] # NoBlock
    BY <1>1 DEF SourceOk, NamesOk, Labels
  <2> QED
    BY <1>6, <2>1
<1>10. Main0(p) \in Nat /\ Main0(p) >= 1 /\ Main0(p) = Main0(q) /\ K >= Main0(p)
  BY <1>2, <1>3 DEF Main0, K
<1>11. IsPlace(r, q, EndOf(r))
  <2> DEFINE e == EndOf(r)
  <2>1. e = [block |-> K + 1, ip |-> 2]
    BY <1>8
  <2> HIDE DEF e
  <2>2. e.block = K + 1 /\ e.ip = 2 /\ e = [block |-> e.block, ip |-> e.ip]
    BY <2>1
  <2>3. Len(r.blocks[e.block]) = 1
    BY <1>5, <1>6, <2>2
  <2>4. e.block \in Main0(q) .. Len(r.blocks)
    BY <1>2, <1>6, <1>10, <2>2
  <2>6. e.ip \in 2 .. (Len(r.blocks[e.block]) + 1)
    <3> DEFINE d == r.blocks[e.block]
    <3>1. Len(d) = 1
      BY <2>3
    <3> HIDE DEF d
    <3>2. e.ip \in 2 .. (Len(d) + 1)
      BY <2>2, <3>1
    <3> QED
      BY <3>2 DEF d
  <2>5. IsPlace(r, q, e)
    BY <2>2, <2>4, <2>6 DEF IsPlace
  <2> QED
    BY <2>5 DEF e
<1>12. Placed(r, s, n + 1, EndOf(m), EndOf(r))
  <2>1. r.blocks[K] = B /\ K + 1 \in 1 .. K + 1
    BY SMTT(60), <1>2, <1>6
  <2> QED
    BY SMTT(60), <1>5, <1>6, <1>8, <2>1 DEF Placed, label
<1>14. /\ Placed(r, s, Len(p.stmts) + 1, EndOf(m), EndOf(r))
       /\ Len(m.blocks) >= Main0(p)
  BY <1>10, <1>12 DEF n, K
<1> QED
  BY <1>2, <1>3, <1>7, <1>9, <1>11, <1>14, LaidLater

\* A program without a statement yet.
Bare(m, p) == /\ Len(m.blocks) = Main0(p) /\ Len(m.blocks[Main0(p)]) = HeadLen(p)
              /\ Header(m, p)

LEMMA BareLaid ==
    ASSUME NEW m, NEW p, p.stmts = <<>>, Len(p.funcs) \in Nat, Len(p.decls) \in Nat
    PROVE  Bare(m, p) => LaidOut(m, p)
<1> SUFFICES ASSUME Bare(m, p) PROVE LaidOut(m, p)
  OBVIOUS
<1> DEFINE at == [i \in 1 .. 1 |-> EndOf(m)]
<1>1. Len(p.stmts) = 0 /\ Main0(p) \in Nat /\ HeadLen(p) \in Nat /\ HeadLen(p) >= 1
  BY DEF Main0, HeadLen
<1>2. at[1] = [block |-> Main0(p), ip |-> HeadLen(p) + 1] /\ at[1] = EndOf(m)
  BY DEF EndOf, Bare
<1> HIDE DEF at
<1>3. IsPlace(m, p, at[1])
  BY <1>1, <1>2 DEF IsPlace, Bare
<1>4. Layout(m, p, at)
  BY <1>1, <1>2, <1>3 DEF Layout
<1> QED
  BY <1>4 DEF LaidOut, Bare

LEMMA LaidBare ==
    ASSUME NEW m, NEW p, p.stmts = <<>>, LaidOut(m, p), Len(p.funcs) \in Nat, Len(p.decls) \in Nat,
           Len(m.blocks) > 0, ModuleOk(m)
    PROVE  Bare(m, p)
<1>1. PICK at : Layout(m, p, at) /\ Header(m, p)
  BY DEF LaidOut
<1>2. at[1] = [block |-> Main0(p), ip |-> HeadLen(p) + 1] /\ at[1] = EndOf(m)
  BY <1>1 DEF Layout
<1>3. Main0(p) = Len(m.blocks) /\ HeadLen(p) + 1 = Len(m.blocks[Len(m.blocks)]) + 1
  BY <1>2 DEF EndOf
<1>4. Len(m.blocks[Len(m.blocks)]) \in Nat /\ HeadLen(p) \in Nat
  BY DEF ModuleOk, HeadLen
<1> QED
  BY <1>1, <1>3, <1>4 DEF Bare

LEMMA MainLaid ==
    ASSUME NEW m, NEW p, Matches(m, p), Len(m.blocks) = Len(p.funcs), p.stmts = <<>>,
           Len(p.decls) = 0, NEW r, r = NewLabelled(m, MainLabel, <<Named("LABEL", MainLabel, 0)>>)
    PROVE  LaidOut(r, p)
<1> DEFINE label == Named("LABEL", MainLabel, 0)
           c     == <<label>>
<1>1. ModuleOk(m) /\ Len(p.funcs) \in Nat /\ Len(p.decls) \in Nat
  BY DEF Matches, SourceOk
<1>2. label \in Insts /\ label.op = "LABEL" /\ label.stmt = 0
  <2>1. MainLabel \in Labels
    BY DEF Labels
  <2> QED
    BY <2>1, NamedIs DEF Ops
<1> HIDE DEF label
<1>3. c \in Seq(Insts) /\ Len(c) = 1 /\ c[1] = label
  BY <1>2
<1> HIDE DEF c
<1>4. Len(r.blocks) = Main0(p) /\ r.blocks[Main0(p)] = c
  <2>1. r = NewLabelled(m, MainLabel, c) /\ MainLabel \in Labels
    BY DEF c, label, Labels
  <2> QED
    BY <1>1, <1>3, <2>1, LabelledFacts DEF Main0
<1>5. HeadLen(p) = 1
  BY <1>1 DEF HeadLen
<1>6. Bare(r, p)
  <2>1. Len(r.blocks[Main0(p)]) = 1
    BY <1>3, <1>4
  <2>2. r.blocks[Main0(p)][1].stmt = 0 /\ r.blocks[Main0(p)][1].op = "LABEL"
    BY <1>2, <1>3, <1>4
  <2>3. \A k \in 1 .. HeadLen(p) : k = 1
    BY <1>5
  <2>4. Header(r, p)
    BY <1>5, <2>1, <2>2, <2>3 DEF Header
  <2> QED
    BY <1>4, <1>5, <2>1, <2>4 DEF Bare
<1> QED
  BY <1>1, <1>6, BareLaid

LEMMA DeclLaid ==
    ASSUME NEW m, NEW p, p.stmts = <<>>, LaidOut(m, p), SourceOk(p), ModuleOk(m), Len(m.blocks) > 0,
           NEW n \in Idents, NEW q, q = [p EXCEPT !.decls = Append(@, n)],
           NEW r, r = insertInst(m, <<Named("DEF", n, 0)>>)
    PROVE  LaidOut(r, q)
<1> DEFINE def == Named("DEF", n, 0)
           c   == <<def>>
           K   == Main0(p)
           B   == m.blocks[K]
           D   == r.blocks[K]
<1>1. /\ Len(p.funcs) \in Nat /\ Len(p.decls) \in Nat /\ IsSeq(p.decls)
      /\ p = [funcs |-> p.funcs, decls |-> p.decls, stmts |-> p.stmts]
  BY SeqOwn DEF SourceOk
<1>2. q.funcs = p.funcs /\ q.stmts = <<>> /\ Len(q.decls) = Len(p.decls) + 1
  <2> DEFINE ds == Append(p.decls, n)
  <2>1. Len(ds) = Len(p.decls) + 1
    BY <1>1, AppendFacts
  <2> HIDE DEF ds
  <2>2. q = [funcs |-> p.funcs, decls |-> ds, stmts |-> p.stmts]
    BY <1>1 DEF ds
  <2> QED
    BY <2>1, <2>2
<1>3. def \in Insts /\ def.op = "DEF" /\ def.stmt = 0
  <2>1. n \in Labels
    BY DEF Labels
  <2> QED
    BY <2>1, NamedIs DEF Ops
<1> HIDE DEF def
<1>4. c \in Seq(Insts) /\ Len(c) = 1 /\ c[1] = def
  BY <1>3
<1> HIDE DEF c
<1>5. Len(m.blocks) = K /\ Len(B) = HeadLen(p) /\ Header(m, p) /\ B \in Seq(Insts)
  <2>1. Bare(m, p)
    BY <1>1, LaidBare
  <2>2. K \in 1 .. Len(m.blocks)
    BY <1>1, <2>1 DEF Bare, Main0
  <2> QED
    BY <2>1, <2>2 DEF Bare, ModuleOk
<1>6. Len(r.blocks) = K /\ D = B \o c
  <2>1. r = insertInst(m, c)
    BY DEF c, def
  <2>2. Len(r.blocks) = Len(m.blocks) /\ r.blocks[Len(m.blocks)] = m.blocks[Len(m.blocks)] \o c
    BY <1>4, <2>1, InsertFacts
  <2> HIDE DEF K
  <2> QED
    BY <1>5, <2>2
<1> HIDE DEF B, D
<1>7. /\ Len(D) = HeadLen(p) + 1 /\ HeadLen(p) \in Nat
      /\ \A k \in 1 .. HeadLen(p) : D[k] = B[k]
      /\ D[HeadLen(p) + 1] = def
  <2> DEFINE h == HeadLen(p)
  <2>1. h \in Nat
    BY <1>1 DEF HeadLen
  <2> HIDE DEF h
  <2>2. Len(B) = h
    BY <1>5 DEF h
  <2>3. B \in Seq(Insts) /\ D = B \o c
    BY <1>5, <1>6
  <2>4. /\ Len(D) = Len(B) + Len(c) /\ (\A k \in 1 .. Len(B) : D[k] = B[k])
        /\ \A k \in 1 .. Len(c) : D[Len(B) + k] = c[k]
    <3>1. IsSeq(B) /\ IsSeq(c)
      BY <1>4, <2>3, SeqOwn
    <3> QED
      BY <2>3, <3>1, ConcatFacts
  <2>5. Len(D) = h + 1 /\ (\A k \in 1 .. h : D[k] = B[k]) /\ D[h + 1] = c[1]
    BY <1>4, <2>1, <2>2, <2>4
  <2> QED
    BY <1>4, <2>1, <2>5 DEF h
<1>8. HeadLen(q) = HeadLen(p) + 1 /\ Main0(q) = K
  BY <1>1, <1>2 DEF HeadLen, Main0
<1>9. Header(r, q)
  <2> SUFFICES ASSUME NEW k \in 1 .. HeadLen(q)
               PROVE  k \in 1 .. Len(D) /\ D[k].stmt = 0 /\ D[k].op \in {"LABEL", "DEF"}
    BY <1>8 DEF Header, D
  <2>1. CASE k = HeadLen(q)
    BY <1>3, <1>7, <1>8, <2>1
  <2>2. CASE k \in 1 .. HeadLen(p)
    <3>1. B[k].stmt = 0 /\ B[k].op \in {"LABEL", "DEF"}
      BY <1>5, <2>2 DEF Header, B
    <3> QED
      BY <1>7, <2>2, <3>1
  <2> QED
    BY <1>7, <1>8, <2>1, <2>2
<1>10. Bare(r, q)
  BY <1>6, <1>7, <1>8, <1>9 DEF Bare, D
<1> QED
  BY <1>1, <1>2, <1>10, BareLaid

-----------------------------------------------------------------------------
(***************************************************************************)
(* Every part of a program goes where it belongs.                          *)
(***************************************************************************)
LEMMA NewBlock ==
    ASSUME NEW m, ModuleOk(m), NEW label \in Labels, NEW c, NEW r, r = NewLabelled(m, label, c)
    PROVE  /\ Len(r.blocks) = Len(m.blocks) + 1 /\ r.blocks[Len(m.blocks) + 1] = c
           /\ \A b \in 1 .. Len(m.blocks) : r.blocks[b] = m.blocks[b]
           /\ \A n \in Labels : n # label => r.labels[n] = m.labels[n]
<1> DEFINE bs == Append(m.blocks, c)
           ls == [m.labels EXCEPT ![label] = IF @ = NoBlock THEN Len(m.blocks) + 1 ELSE @]
<1>1. IsSeq(m.blocks) /\ DOMAIN m.blocks = 1 .. Len(m.blocks) /\ m.labels \in [Labels -> Nat]
  BY SeqOwn, SeqFacts DEF ModuleOk
<1>2. Len(bs) = Len(m.blocks) + 1 /\ bs[Len(m.blocks) + 1] = c
      /\ \A b \in 1 .. Len(m.blocks) : bs[b] = m.blocks[b]
  BY <1>1, AppendFacts
<1>3. \A n \in Labels : n # label => ls[n] = m.labels[n]
  BY <1>1
<1>4. r = [m EXCEPT !.blocks = bs, !.labels = ls]
  BY DEF NewLabelled
<1> HIDE DEF bs, ls
<1>5. r.blocks = bs /\ r.labels = ls
  BY <1>4 DEF ModuleOk
<1> QED
  BY <1>2, <1>3, <1>5

LEMMA FuncShaped ==
    ASSUME NEW m, NEW p, SourceOk(p), ModuleOk(m), Len(m.blocks) = Len(p.funcs), Shaped(m, p, "funcs"),
           NEW n \in Idents, NEW ps, NEW e, NEW q, q = WithFunc(p, n, ps, e),
           NEW r, r = FuncModule(m, n, ps, e)
    PROVE  Shaped(r, q, "funcs")
<1> DEFINE f    == [n |-> n, params |-> ps, e |-> e]
           K    == Len(p.funcs)
           m1   == addFunction(m, n, Len(ps))
           code == <<Named("LABEL", n, 0)>> \o visitExp(e, ps, TRUE, 0) \o <<Inst("RET", 0)>>
<1>1. /\ IsSeq(p.funcs) /\ K \in Nat /\ DOMAIN p.funcs = 1 .. K
      /\ p = [funcs |-> p.funcs, decls |-> p.decls, stmts |-> p.stmts]
  BY SeqOwn, SeqFacts DEF SourceOk
<1>2. q.funcs = Append(p.funcs, f) /\ q.decls = p.decls /\ q.stmts = p.stmts
  BY <1>1 DEF WithFunc
<1> HIDE DEF f
<1>3. /\ Len(q.funcs) = K + 1 /\ q.funcs[K + 1] = f /\ DOMAIN q.funcs = 1 .. K + 1
      /\ \A j \in 1 .. K : q.funcs[j] = p.funcs[j]
  <2>1. IsSeq(q.funcs) /\ Len(q.funcs) = K + 1 /\ q.funcs[K + 1] = f
        /\ \A j \in 1 .. K : q.funcs[j] = p.funcs[j]
    BY <1>1, <1>2, AppendFacts
  <2> QED
    BY <2>1, SeqFacts
<1>4. f.n = n /\ f.params = ps /\ f.e = e
  BY DEF f
<1>5. /\ \A b \in 1 .. K : r.blocks[b] = m.blocks[b]
      /\ r.blocks[K + 1] = code
      /\ \A l \in Labels : l # n => r.labels[l] = m.labels[l]
  <2> DEFINE fs == [m.functions EXCEPT ![n] = IF @ = NoFunc THEN Len(ps) ELSE @]
  <2>1. m1 = [m EXCEPT !.functions = fs]
    BY DEF addFunction
  <2> HIDE DEF fs, m1
  <2>2. m1.blocks = m.blocks /\ m1.labels = m.labels
    BY <2>1 DEF ModuleOk
  <2> DEFINE bs == Append(m.blocks, code)
             ls == [m.labels EXCEPT ![n] = IF @ = NoBlock THEN Len(m.blocks) + 1 ELSE @]
  <2> HIDE DEF code
  <2>3. r = [m1 EXCEPT !.blocks = bs, !.labels = ls]
    BY <2>2 DEF FuncModule, NewLabelled, m1, code
  <2>4. Len(bs) = K + 1 /\ bs[K + 1] = code /\ \A b \in 1 .. K : bs[b] = m.blocks[b]
    <3>1. IsSeq(m.blocks) /\ DOMAIN m.blocks = 1 .. Len(m.blocks)
      BY SeqOwn, SeqFacts DEF ModuleOk
    <3> QED
      BY <3>1, AppendFacts
  <2>5. \A l \in Labels : l # n => ls[l] = m.labels[l]
    BY DEF ModuleOk
  <2> HIDE DEF bs, ls
  <2>6. m1 = [blocks |-> m.blocks, variables |-> m.variables, functions |-> fs, labels |-> m.labels]
    BY <2>1 DEF ModuleOk
  <2>7. r.blocks = bs /\ r.labels = ls
    BY <2>3, <2>6
  <2> QED
    BY <2>4, <2>5, <2>7
<1> HIDE DEF m1
<1>6. FuncCodes(r, q)
  <2> SUFFICES ASSUME NEW j \in 1 .. K + 1
               PROVE  r.blocks[j] = <<Named("LABEL", q.funcs[j].n, 0)>>
                          \o visitExp(q.funcs[j].e, q.funcs[j].params, TRUE, 0) \o <<Inst("RET", 0)>>
    BY <1>3 DEF FuncCodes
  <2>1. CASE j = K + 1
    <3>1. q.funcs[j].n = n /\ q.funcs[j].params = ps /\ q.funcs[j].e = e /\ r.blocks[j] = code
      BY <1>3, <1>4, <1>5, <2>1
    <3> QED
      BY <3>1, Zenon
  <2>2. CASE j \in 1 .. K
    <3>1. q.funcs[j] = p.funcs[j] /\ r.blocks[j] = m.blocks[j]
      BY <1>3, <1>5, <2>2
    <3> QED
      BY <2>2, <3>1 DEF Shaped, FuncCodes
  <2>3. j = K + 1 \/ j \in 1 .. K
    BY <1>1
  <2> QED
    BY <2>1, <2>2, <2>3, Zenon
<1>7. LabelsTaken(r, q)
  <2> SUFFICES ASSUME NEW x \in Idents, r.labels[x] # NoBlock, x \notin Defined(q)
               PROVE  \E s \in RanOf(q.stmts) : s.k = "tag" /\ s.n = x
    BY DEF LabelsTaken
  <2>1. n \in Defined(q) /\ Defined(p) \subseteq Defined(q)
    <3>1. K + 1 \in DOMAIN q.funcs
      BY <1>1, <1>3
    <3>2. \A j \in DOMAIN p.funcs : j \in DOMAIN q.funcs /\ q.funcs[j] = p.funcs[j]
      BY <1>1, <1>3
    <3> QED
      BY <1>3, <1>4, <3>1, <3>2 DEF Defined, RanOf
  <2>2. m.labels[x] # NoBlock /\ x \notin Defined(p)
    BY <1>5, <2>1 DEF Labels
  <2> QED
    BY <1>2, <2>2 DEF Shaped, LabelsTaken
<1> QED
  BY <1>2, <1>6, <1>7 DEF Shaped, Main

\* A new block or more instructions change nothing in the functions.
FuncsSame(m, r, p) == \A b \in 1 .. Len(p.funcs) : r.blocks[b] = m.blocks[b]

LEMMA FuncsStay ==
    ASSUME NEW m, NEW p, FuncCodes(m, p), NEW r, NEW q, q.funcs = p.funcs,
           FuncsSame(m, r, p)
    PROVE  FuncCodes(r, q)
BY DEF FuncCodes, FuncsSame

LEMMA MainShaped ==
    ASSUME NEW m, NEW p, Matches(m, p), Len(m.blocks) = Len(p.funcs), p.stmts = <<>>,
           Shaped(m, p, "funcs"),
           NEW r, r = NewLabelled(m, MainLabel, <<Named("LABEL", MainLabel, 0)>>)
    PROVE  Shaped(r, p, "decls")
<1> DEFINE c == <<Named("LABEL", MainLabel, 0)>>
<1>1. ModuleOk(m) /\ MainLabel \in Labels
  BY DEF Matches, Labels
<1> HIDE DEF c
<1>2. /\ \A b \in 1 .. Len(m.blocks) : r.blocks[b] = m.blocks[b]
      /\ \A n \in Labels : n # MainLabel => r.labels[n] = m.labels[n]
  <2>1. r = NewLabelled(m, MainLabel, c)
    BY DEF c
  <2> QED
    BY <1>1, <2>1, NewBlock
<1>3. FuncCodes(r, p)
  BY <1>2, FuncsStay DEF Shaped, FuncsSame
<1>4. LabelsTaken(r, p)
  <2>1. \A n \in Idents : r.labels[n] = m.labels[n]
    BY <1>2, PcodeAssumption DEF Labels
  <2> QED
    BY <2>1 DEF Shaped, LabelsTaken
<1>5. LaidOut(r, p)
  <2>1. Len(p.decls) = 0
    BY DEF Shaped
  <2> QED
    BY <2>1, MainLaid
<1> QED
  BY <1>3, <1>4, <1>5 DEF Shaped

LEMMA SameLaid ==
    ASSUME NEW m, NEW p, LaidOut(m, p), NEW r, r.blocks = m.blocks, r.labels = m.labels
    PROVE  LaidOut(r, p)
<1>1. PICK at : Layout(m, p, at) /\ Header(m, p)
  BY DEF LaidOut
<1>2. Header(r, p)
  BY <1>1 DEF Header
<1>3. Layout(r, p, at)
  <2>1. \A i \in 1 .. Len(p.stmts) + 1 : IsPlace(r, p, at[i])
    BY <1>1 DEF Layout, IsPlace
  <2>2. \A i \in 1 .. Len(p.stmts) : Placed(r, p.stmts[i], i, at[i], at[i + 1])
    BY <1>1 DEF Layout, Placed
  <2>3. EndOf(r) = EndOf(m)
    BY DEF EndOf
  <2> QED
    BY <1>1, <2>1, <2>2, <2>3 DEF Layout
<1> QED
  BY <1>2, <1>3 DEF LaidOut

LEMMA DeclShaped ==
    ASSUME NEW m, NEW p, SourceOk(p), ModuleOk(m), Len(m.blocks) > Len(p.funcs),
           Shaped(m, p, "decls"), NEW n \in Idents, NEW q, q = [p EXCEPT !.decls = Append(@, n)],
           NEW r, r = insertInst([m EXCEPT !.variables = @ \cup {n}], <<Named("DEF", n, 0)>>)
    PROVE  Shaped(r, q, "decls")
<1> DEFINE def == Named("DEF", n, 0)
           c   == <<def>>
           vs  == m.variables \cup {n}
           m1  == [m EXCEPT !.variables = @ \cup {n}]
<1>1. /\ Len(p.funcs) \in Nat /\ Len(m.blocks) \in Nat /\ Len(m.blocks) > 0
      /\ p = [funcs |-> p.funcs, decls |-> p.decls, stmts |-> p.stmts]
  BY DEF SourceOk, ModuleOk
<1>2. q.funcs = p.funcs /\ q.stmts = p.stmts
  BY <1>1
<1>3. c \in Seq(Insts)
  <2>1. n \in Labels
    BY DEF Labels
  <2>2. def \in Insts
    BY <2>1, NamedIs DEF Ops
  <2> HIDE DEF def
  <2> QED
    BY <2>2
<1>4. m1.blocks = m.blocks /\ m1.labels = m.labels /\ ModuleOk(m1)
  <2>1. vs \in SUBSET Idents
    BY DEF ModuleOk
  <2>2. m1 = [m EXCEPT !.variables = vs]
    OBVIOUS
  <2> HIDE DEF m1, vs
  <2>3. m1 = [blocks |-> m.blocks, variables |-> vs, functions |-> m.functions, labels |-> m.labels]
    BY <2>2 DEF ModuleOk
  <2> QED
    BY <2>1, <2>3 DEF ModuleOk
<1>5. r = insertInst(m1, <<Named("DEF", n, 0)>>)
  OBVIOUS
<1> HIDE DEF m1
<1>6. LaidOut(r, q)
  <2>1. LaidOut(m1, p) /\ p.stmts = <<>>
    <3>1. LaidOut(m, p) /\ p.stmts = <<>>
      BY DEF Shaped, Main
    <3> QED
      BY <1>4, <3>1, SameLaid
  <2>2. Len(m1.blocks) > 0
    BY <1>1, <1>4
  <2> QED
    BY <1>4, <1>5, <2>1, <2>2, DeclLaid
<1>7. /\ r.labels = m.labels
      /\ \A b \in 1 .. Len(p.funcs) : r.blocks[b] = m.blocks[b]
  <2>1. r = insertInst(m1, c) /\ Len(m1.blocks) > 0
    BY <1>1, <1>4, <1>5
  <2> HIDE DEF c
  <2>2. r.labels = m1.labels /\ \A b \in 1 .. Len(m1.blocks) : b # Len(m1.blocks) => r.blocks[b] = m1.blocks[b]
    BY ZenonT(60), <1>3, <1>4, <2>1, InsertFacts
  <2>3. \A b \in 1 .. Len(p.funcs) : b \in 1 .. Len(m.blocks) /\ b # Len(m.blocks)
    BY <1>1
  <2> QED
    BY <1>4, <2>2, <2>3
<1>8. FuncCodes(r, q)
  <2>1. FuncCodes(m, p) /\ FuncsSame(m, r, p)
    BY <1>7 DEF Shaped, FuncsSame
  <2> QED
    BY <1>2, <2>1, FuncsStay, Zenon
<1>9. LabelsTaken(r, q)
  BY <1>2, <1>7 DEF Shaped, LabelsTaken, Defined
<1> QED
  BY <1>2, <1>6, <1>8, <1>9 DEF Shaped

LEMMA StmtAdded ==
    ASSUME NEW p, SourceOk(p), NEW s, NEW q, q = WithStmt(p, s)
    PROVE  /\ q.funcs = p.funcs /\ q.decls = p.decls /\ q.stmts = Append(p.stmts, s)
           /\ IsSeq(p.stmts) /\ IsSeq(q.stmts) /\ Len(p.stmts) \in Nat
           /\ RanOf(q.stmts) = RanOf(p.stmts) \cup {s}
<1> DEFINE ss == Append(p.stmts, s)
<1>1. /\ p = [funcs |-> p.funcs, decls |-> p.decls, stmts |-> p.stmts]
      /\ IsSeq(p.stmts) /\ Len(p.stmts) \in Nat
  BY SeqFacts DEF SourceOk
<1>2. IsSeq(ss) /\ RanOf(ss) = RanOf(p.stmts) \cup {s}
  BY <1>1, AppendFacts, AppendRange
<1> HIDE DEF ss
<1>3. q = [funcs |-> p.funcs, decls |-> p.decls, stmts |-> ss]
  BY <1>1 DEF WithStmt, ss
<1> QED
  BY <1>1, <1>2, <1>3 DEF ss

\* A tag's name is free: it is no function's and no other tag's.
LEMMA TagFree ==
    ASSUME NEW m, NEW p, SourceOk(p), LabelsTaken(m, p), NEW s, s.k = "tag", s.n \in Idents,
           s.n \notin Defined(p), NEW q, q = WithStmt(p, s), LegalSoFar(q)
    PROVE  m.labels[s.n] = NoBlock
<1> SUFFICES ASSUME m.labels[s.n] # NoBlock PROVE FALSE
  OBVIOUS
<1>1. q.stmts = Append(p.stmts, s) /\ IsSeq(p.stmts) /\ IsSeq(q.stmts) /\ Len(p.stmts) \in Nat
  BY StmtAdded
<1>2. PICK u \in RanOf(p.stmts) : u.k = "tag" /\ u.n = s.n
  BY DEF LabelsTaken
<1>3. PICK i \in DOMAIN p.stmts : p.stmts[i] = u
  BY DEF RanOf
<1>4. /\ DOMAIN p.stmts = 1 .. Len(p.stmts) /\ DOMAIN q.stmts = 1 .. Len(p.stmts) + 1
      /\ q.stmts[i] = u /\ q.stmts[Len(p.stmts) + 1] = s
  <2>1. /\ Len(q.stmts) = Len(p.stmts) + 1 /\ q.stmts[Len(p.stmts) + 1] = s
        /\ \A k \in DOMAIN p.stmts : q.stmts[k] = p.stmts[k]
    BY <1>1, AppendFacts
  <2> QED
    BY <1>1, <1>3, <2>1, SeqFacts
<1> DEFINE N == Len(p.stmts) + 1
<1>5. i \in DOMAIN q.stmts /\ N \in DOMAIN q.stmts /\ i # N
  BY <1>1, <1>4
<1> HIDE DEF N
<1>6. q.stmts[i] = u /\ q.stmts[N] = s
  BY <1>4 DEF N
<1>7. i = N
  BY <1>1, <1>2, <1>5, <1>6, OneTag
<1> QED
  BY <1>5, <1>7

LEMMA StmtShaped ==
    ASSUME NEW m, NEW p, Matches(m, p), Len(m.blocks) > Len(p.funcs),
           NEW ph \in {"decls", "stmts"}, Shaped(m, p, ph),
           NEW s, TypedStmt(s), s.k # "tag", NEW q, q = WithStmt(p, s),
           IsCodeOf(CodeOf(s, Len(p.stmts) + 1), s, Len(p.stmts) + 1),
           NEW r, r = insertInst(m, CodeOf(s, Len(p.stmts) + 1))
    PROVE  Shaped(r, q, "stmts")
<1>1. q.funcs = p.funcs /\ RanOf(q.stmts) = RanOf(p.stmts) \cup {s}
  BY StmtAdded DEF Matches
<1>2. /\ LaidOut(r, q) /\ r.labels = m.labels
      /\ \A b \in 1 .. Len(p.funcs) : r.blocks[b] = m.blocks[b]
  <2>1. LaidOut(m, p)
    BY DEF Shaped, Main
  <2> QED
    BY <2>1, StmtLaid
<1>3. FuncCodes(r, q)
  <2>1. FuncCodes(m, p) /\ FuncsSame(m, r, p)
    BY <1>2 DEF Shaped, FuncsSame
  <2> QED
    BY <1>1, <2>1, FuncsStay, Zenon
<1>4. LabelsTaken(r, q)
  <2>1. LabelsTaken(m, p)
    BY DEF Shaped
  <2> QED
    BY <1>1, <1>2, <2>1 DEF LabelsTaken, Defined
<1>5. \A u \in RanOf(q.stmts) : TypedStmt(u)
  BY <1>1 DEF Shaped
<1> QED
  BY <1>2, <1>3, <1>4, <1>5 DEF Shaped

LEMMA TagShaped ==
    ASSUME NEW m, NEW p, Matches(m, p), Len(m.blocks) > Len(p.funcs),
           NEW ph \in {"decls", "stmts"}, Shaped(m, p, ph),
           NEW s, TypedStmt(s), s.k = "tag", s.n \notin Defined(p),
           NEW q, q = WithStmt(p, s), LegalSoFar(q),
           NEW r, r = NewLabelled(m, s.n, <<Named("LABEL", s.n, Len(p.stmts) + 1)>>)
    PROVE  Shaped(r, q, "stmts")
<1>1. q.funcs = p.funcs /\ RanOf(q.stmts) = RanOf(p.stmts) \cup {s} /\ s.n \in Idents
  BY StmtAdded DEF Matches, TypedStmt, Naming
<1>2. m.labels[s.n] = NoBlock
  BY <1>1, TagFree DEF Matches, Shaped
<1>3. LaidOut(r, q)
  <2>1. LaidOut(m, p)
    BY DEF Shaped, Main
  <2> QED
    BY <1>1, <1>2, <2>1, TagLaid
<1>4. /\ \A b \in 1 .. Len(m.blocks) : r.blocks[b] = m.blocks[b]
      /\ \A l \in Labels : l # s.n => r.labels[l] = m.labels[l]
  <2> DEFINE c == <<Named("LABEL", s.n, Len(p.stmts) + 1)>>
  <2>1. r = NewLabelled(m, s.n, c) /\ s.n \in Labels /\ ModuleOk(m)
    BY <1>1 DEF Labels, Matches
  <2> HIDE DEF c
  <2> QED
    BY <2>1, NewBlock
<1>5. FuncCodes(r, q)
  <2>1. \A b \in 1 .. Len(p.funcs) : b \in 1 .. Len(m.blocks)
    <3>1. Len(p.funcs) \in Nat /\ Len(m.blocks) \in Nat
      BY DEF Matches, SourceOk, ModuleOk
    <3> QED
      BY <3>1
  <2>2. FuncCodes(m, p) /\ FuncsSame(m, r, p)
    BY <1>4, <2>1 DEF Shaped, FuncsSame
  <2> QED
    BY <1>1, <2>2, FuncsStay, Zenon
<1>6. LabelsTaken(r, q)
  <2> SUFFICES ASSUME NEW n \in Idents, r.labels[n] # NoBlock, n \notin Defined(q)
               PROVE  \E u \in RanOf(q.stmts) : u.k = "tag" /\ u.n = n
    BY DEF LabelsTaken
  <2>1. CASE n = s.n
    BY <1>1, <2>1
  <2>2. CASE n # s.n
    <3>1. m.labels[n] # NoBlock /\ n \notin Defined(p)
      BY <1>1, <1>4, <2>2 DEF Labels, Defined
    <3>2. \E u \in RanOf(p.stmts) : u.k = "tag" /\ u.n = n
      BY <3>1 DEF Shaped, LabelsTaken
    <3> QED
      BY <1>1, <3>2
  <2> QED
    BY <2>1, <2>2
<1>7. \A u \in RanOf(q.stmts) : TypedStmt(u)
  BY <1>1 DEF Shaped
<1> QED
  BY <1>3, <1>5, <1>6, <1>7 DEF Shaped

\* The invariant of the visit: what the module looks like.
ShapedInv == phase # "thrown" => Shaped(module, src, phase)

LEMMA InitShaped == Init => ShapedInv
<1> SUFFICES ASSUME Init PROVE Shaped(module, src, phase)
  BY DEF ShapedInv
<1>1. /\ src.funcs = <<>> /\ src.decls = <<>> /\ src.stmts = <<>>
      /\ module = EmptyModule /\ phase = "funcs"
  BY DEF Init, EmptyProgram
<1>2. RanOf(<<>>) = {} /\ Len(<<>>) = 0
  BY EmptyFacts DEF RanOf
<1>3. \A n \in Idents : module.labels[n] = NoBlock
  BY <1>1 DEF EmptyModule
<1>4. FuncCodes(module, src)
  BY <1>1, <1>2 DEF FuncCodes
<1> QED
  BY <1>1, <1>2, <1>3, <1>4 DEF Shaped, LabelsTaken, Main

LEMMA FuncDefShaped ==
    ASSUME Compiled, ShapedInv, NEW n \in Idents, NEW ps \in ParamLists, NEW e \in Exps,
           visitFuncDef(n, ps, e)
    PROVE  ShapedInv'
<1> SUFFICES ASSUME phase' # "thrown" PROVE Shaped(module', src', phase')
  BY DEF ShapedInv
<1>1. /\ phase = "funcs" /\ phase' = "funcs"
      /\ src' = WithFunc(src, n, ps, e) /\ module' = FuncModule(module, n, ps, e)
  BY DEF visitFuncDef, WithFunc, FuncModule
<1>2. /\ SourceOk(src) /\ ModuleOk(module) /\ Len(module.blocks) = Len(src.funcs)
      /\ Shaped(module, src, "funcs")
  BY <1>1 DEF Compiled, Matches, ShapedInv
<1>3. Shaped(module', src', "funcs")
  BY <1>1, <1>2, FuncShaped
<1> QED
  BY <1>1, <1>3

LEMMA BeginMainShaped ==
    ASSUME Compiled, ShapedInv, BeginMain
    PROVE  ShapedInv'
<1> SUFFICES Shaped(module', src', phase')
  BY DEF ShapedInv
<1>1. /\ phase = "funcs" /\ phase' = "decls" /\ src' = src
      /\ module' = NewLabelled(module, MainLabel, <<Named("LABEL", MainLabel, 0)>>)
  BY DEF BeginMain
<1>2. /\ Matches(module, src) /\ Len(module.blocks) = Len(src.funcs) /\ src.stmts = <<>>
      /\ Shaped(module, src, "funcs")
  BY <1>1 DEF Compiled, ShapedInv
<1>3. Shaped(module', src, "decls")
  BY <1>1, <1>2, MainShaped
<1> QED
  BY <1>1, <1>3

LEMMA VarDeclShaped ==
    ASSUME Compiled, ShapedInv, NEW n \in Idents, visitVarDecl(n)
    PROVE  ShapedInv'
<1> SUFFICES Shaped(module', src', phase')
  BY DEF ShapedInv
<1>1. /\ phase = "decls" /\ phase' = "decls"
      /\ src' = [src EXCEPT !.decls = Append(@, n)]
      /\ module' = insertInst([module EXCEPT !.variables = @ \cup {n}], <<Named("DEF", n, 0)>>)
  BY DEF visitVarDecl
<1>2. /\ SourceOk(src) /\ ModuleOk(module) /\ Len(module.blocks) > Len(src.funcs)
      /\ Shaped(module, src, "decls")
  BY <1>1 DEF Compiled, Main, Matches, ShapedInv
<1>3. Shaped(module', src', "decls")
  BY <1>1, <1>2, DeclShaped
<1> QED
  BY <1>1, <1>3

\* A statement that is no tag.
LEMMA GeneratedShaped ==
    ASSUME Compiled, ShapedInv, NEW s, Visit(s), s.k # "tag", TypedStmt(s),
           NEW throws, NEW insts, Generate(throws, insts), Promising' \/ phase' = "thrown",
           insts = CodeOf(s, Here)
    PROVE  ShapedInv'
<1> SUFFICES ASSUME phase' # "thrown" PROVE Shaped(module', src', phase')
  BY DEF ShapedInv
<1>1. s.k \in {"if", "to"} => s.n \in Idents
  BY DEF TypedStmt, Naming
<1>2. /\ Matches(module, src') /\ module' = insertInst(module, insts) /\ phase' = "stmts"
      /\ LegalStmt(src', s) /\ Here \in Nat
  BY <1>1, Visited
<1>3. phase \in {"decls", "stmts"} /\ src' = WithStmt(src, s)
  BY DEF Visit, WithStmt
<1>4. /\ Matches(module, src) /\ Len(module.blocks) > Len(src.funcs)
      /\ Shaped(module, src, phase)
  BY <1>3 DEF Compiled, Main, ShapedInv
<1>5. IsCodeOf(CodeOf(s, Here), s, Here)
  BY <1>2, CodeFacts
<1>6. /\ IsCodeOf(CodeOf(s, Len(src.stmts) + 1), s, Len(src.stmts) + 1)
      /\ module' = insertInst(module, CodeOf(s, Len(src.stmts) + 1))
  BY <1>2, <1>5 DEF Here
<1>7. Shaped(module', src', "stmts")
  BY <1>3, <1>4, <1>6, StmtShaped
<1> QED
  BY <1>2, <1>7

LEMMA TagStmtShaped ==
    ASSUME Compiled, ShapedInv, NEW n \in Idents, visitTagStmt(n), Promising'
    PROVE  ShapedInv'
<1> SUFFICES Shaped(module', src', phase')
  BY DEF ShapedInv
<1> DEFINE s == [k |-> "tag", n |-> n]
<1>1. /\ phase \in {"decls", "stmts"} /\ phase' = "stmts" /\ src' = WithStmt(src, s)
      /\ module' = NewLabelled(module, s.n, <<Named("LABEL", s.n, Len(src.stmts) + 1)>>)
  BY DEF visitTagStmt, Visit, WithStmt, Here
<1>2. s.k = "tag" /\ s.n = n /\ TypedStmt(s)
  BY DEF TypedStmt, Naming, Valued
<1> HIDE DEF s
<1>3. /\ Matches(module, src) /\ Len(module.blocks) > Len(src.funcs)
      /\ Shaped(module, src, phase)
  BY <1>1 DEF Compiled, Main, ShapedInv
<1>4. LegalSoFar(src') /\ ~Shared'
  BY DEF Promising
<1>5. src'.funcs = src.funcs /\ s \in RanOf(src'.stmts)
  BY <1>1, <1>3, StmtAdded DEF Matches
<1>6. s.n \notin Defined(src)
  <2>1. Defined(src') = Defined(src)
    BY <1>5 DEF Defined
  <2>2. s.n \notin Defined(src')
    BY <1>2, <1>4, <1>5 DEF Shared
  <2> QED
    BY <2>1, <2>2
<1>7. Shaped(module', src', "stmts")
  BY <1>1, <1>2, <1>3, <1>4, <1>6, TagShaped
<1> QED
  BY <1>1, <1>7

\* The code of each statement is what its visit generates.
LEMMA GetShaped ==
    ASSUME Compiled, ShapedInv, NEW n \in Idents, visitGetStmt(n), Promising' \/ phase' = "thrown"
    PROVE  ShapedInv'
<1> DEFINE s     == [k |-> "get", n |-> n]
           insts == <<Inst("READ", Here), Named("STORE", n, Here)>>
           throws == n \notin module.variables
<1>1. Visit(s) /\ Generate(throws, insts)
  BY DEF visitGetStmt
<1>2. s.k = "get" /\ s.n = n /\ TypedStmt(s)
  BY DEF TypedStmt, Naming, Valued
<1> HIDE DEF s, throws
<1>3. insts = CodeOf(s, Here)
  <2>1. BodyOf(s, Here) = <<Inst("READ", Here)>> /\ LastOf(s, Here) = Named("STORE", n, Here)
    BY <1>2 DEF BodyOf, LastOf
  <2> QED
    BY <2>1 DEF CodeOf
<1> HIDE DEF insts
<1> QED
  BY <1>1, <1>2, <1>3, GeneratedShaped

LEMMA ValuedShaped ==
    ASSUME Compiled, ShapedInv, NEW s, TypedStmt(s), s.k \in Valued, Visit(s),
           NEW throws, Generate(throws, visitExp(s.e, <<>>, FALSE, Here) \o <<LastOf(s, Here)>>),
           Promising' \/ phase' = "thrown"
    PROVE  ShapedInv'
<1> DEFINE insts == visitExp(s.e, <<>>, FALSE, Here) \o <<LastOf(s, Here)>>
<1>1. CASE phase' = "thrown"
  BY <1>1 DEF ShapedInv
<1>2. CASE phase' # "thrown"
  <2>1. s.k # "tag" /\ (s.k \in {"if", "to"} => s.n \in Idents)
    BY DEF Valued, TypedStmt, Naming
  <2>2. Generate(throws, insts)
    OBVIOUS
  <2> HIDE DEF insts
  <2>3. Matches(module, src') /\ LegalStmt(src', s) /\ Here \in Nat
    BY <1>2, <2>1, <2>2, Visited
  <2>4. CodeOf(s, Here) = BodyOf(s, Here) \o <<LastOf(s, Here)>>
    BY <2>1, <2>3, CodeFacts
  <2>5. BodyOf(s, Here) = visitExp(s.e, <<>>, FALSE, Here)
    BY DEF BodyOf, Valued
  <2>6. insts = CodeOf(s, Here)
    BY <2>4, <2>5 DEF insts
  <2> QED
    BY <2>1, <2>2, <2>6, GeneratedShaped
<1> QED
  BY <1>1, <1>2

LEMMA PutShaped ==
    ASSUME Compiled, ShapedInv, NEW e \in Exps, visitPutStmt(e), Promising' \/ phase' = "thrown"
    PROVE  ShapedInv'
<1> DEFINE s == [k |-> "put", e |-> e]
<1>1. /\ s.k \in Valued /\ s.e = e /\ TypedStmt(s)
      /\ LastOf(s, Here) = Inst("WRITE", Here)
  BY DEF TypedStmt, Naming, Valued, LastOf
<1>2. /\ Visit(s)
      /\ Generate(Throws(e, module, FALSE), visitExp(e, <<>>, FALSE, Here) \o <<Inst("WRITE", Here)>>)
  BY DEF visitPutStmt
<1> HIDE DEF s
<1> QED
  BY <1>1, <1>2, ValuedShaped

LEMMA LetShaped ==
    ASSUME Compiled, ShapedInv, NEW n \in Idents, NEW e \in Exps, visitLetStmt(n, e),
           Promising' \/ phase' = "thrown"
    PROVE  ShapedInv'
<1> DEFINE s == [k |-> "let", n |-> n, e |-> e]
           throws == Throws(e, module, FALSE) \/ n \notin module.variables
<1>1. /\ s.k \in Valued /\ s.e = e /\ TypedStmt(s)
      /\ LastOf(s, Here) = Named("STORE", n, Here)
  BY DEF TypedStmt, Naming, Valued, LastOf
<1>2. /\ Visit(s)
      /\ Generate(throws, visitExp(e, <<>>, FALSE, Here) \o <<Named("STORE", n, Here)>>)
  BY DEF visitLetStmt
<1> HIDE DEF s, throws
<1> QED
  BY <1>1, <1>2, ValuedShaped

LEMMA IfShaped ==
    ASSUME Compiled, ShapedInv, NEW n \in Idents, NEW c \in Conds, visitIfStmt(c, n),
           Promising' \/ phase' = "thrown"
    PROVE  ShapedInv'
<1> DEFINE s == [k |-> "if", e |-> c, n |-> n]
<1>1. /\ s.k \in Valued /\ s.e = c /\ TypedStmt(s)
      /\ LastOf(s, Here) = Named("JIT", n, Here)
  BY DEF TypedStmt, Naming, Valued, LastOf
<1>2. /\ Visit(s)
      /\ Generate(Throws(c, module, FALSE), visitExp(c, <<>>, FALSE, Here) \o <<Named("JIT", n, Here)>>)
  BY DEF visitIfStmt
<1> HIDE DEF s
<1> QED
  BY <1>1, <1>2, ValuedShaped

LEMMA ToShaped ==
    ASSUME Compiled, ShapedInv, NEW n \in Idents, visitToStmt(n), Promising' \/ phase' = "thrown"
    PROVE  ShapedInv'
<1> DEFINE s     == [k |-> "to", n |-> n]
           insts == <<Named("JUMP", n, Here)>>
<1>1. Visit(s) /\ Generate(FALSE, insts)
  BY DEF visitToStmt
<1>2. s.k = "to" /\ s.n = n /\ TypedStmt(s)
  BY DEF TypedStmt, Naming, Valued
<1> HIDE DEF s
<1>3. insts = CodeOf(s, Here)
  <2>1. BodyOf(s, Here) = <<>> /\ LastOf(s, Here) = Named("JUMP", n, Here)
    BY <1>2 DEF BodyOf, LastOf, Valued
  <2> QED
    BY <2>1 DEF CodeOf
<1> HIDE DEF insts
<1> QED
  BY <1>1, <1>2, <1>3, GeneratedShaped

LEMMA NextShaped == Compiled /\ ShapedInv /\ [PcodeNext]_vars => ShapedInv'
<1> SUFFICES ASSUME Compiled, ShapedInv, [PcodeNext]_vars PROVE ShapedInv'
  OBVIOUS
<1>1. ASSUME Compile PROVE ShapedInv'
  <2>1. Promising' \/ phase' = "thrown"
    BY <1>1 DEF Compile
  <2>2. ASSUME NEW n \in Idents, visitTagStmt(n) PROVE ShapedInv'
    <3>1. phase' = "stmts"
      BY <2>2 DEF visitTagStmt
    <3> QED
      BY <2>1, <2>2, <3>1, TagStmtShaped
  <2>3. ASSUME Stmt PROVE ShapedInv'
    BY <2>1, <2>2, <2>3, GetShaped, PutShaped, LetShaped, IfShaped, ToShaped DEF Stmt
  <2> QED
    BY <1>1, <2>3, FuncDefShaped, BeginMainShaped, VarDeclShaped DEF Compile
<1>2. ASSUME UNCHANGED compiled,
             phase' = phase \/ (phase \in {"decls", "stmts", "running"} /\ phase' \in {"running", "ended"})
      PROVE  ShapedInv'
  <2>1. src' = src /\ module' = module
    BY <1>2 DEF compiled
  <2> QED
    BY <1>2, <2>1 DEF ShapedInv, Shaped, Main
<1>3. CASE Boot
  BY <1>2, <1>3 DEF Boot
<1>4. CASE Execute
  <2>1. ASSUME NEW op, Fetch(op) PROVE ShapedInv'
    BY <1>2, <2>1 DEF Fetch
  <2>2. CASE EndOfBlock
    BY <1>2, <2>2 DEF EndOfBlock
  <2>3. CASE \/ Pass \/ executeLi \/ executeLoad \/ executeRead \/ executeArg \/ executeOpr
             \/ executeStore \/ executeWrite \/ executeCall \/ executeRet \/ JumpIfTrue \/ Jump
    <3>1. \E op : Fetch(op)
      BY <2>3, Zenon
      DEF Pass, executeLi, executeLoad, executeRead, executeArg, executeOpr, executeStore,
          executeWrite, executeCall, executeRet, JumpIfTrue, Jump
    <3> QED
      BY <2>1, <3>1
  <2> QED
    BY <1>4, <2>2, <2>3 DEF Execute
<1>5. CASE Stopped \/ UNCHANGED vars
  BY <1>2, <1>5 DEF Stopped, vars, compiled
<1> QED
  BY <1>1, <1>3, <1>4, <1>5 DEF PcodeNext

-----------------------------------------------------------------------------
(***************************************************************************)
(* Where main is.  Statement i is the next one at a place of its code, at  *)
(* the end of the block before its label if it is a tag, and the first one *)
(* among main's label and declarations; after the last one there is the    *)
(* end.                                                                    *)
(***************************************************************************)
Size   == Len(src.stmts)
Place  == CHOOSE at : Layout(module, src, at)

IsTag(i)  == src.stmts[i].k = "tag"
CodeAt(i) == CodeOf(src.stmts[i], i)
Start(b)  == [block |-> b, ip |-> 1]

InHead(l)    == l.block = Main0(src) /\ l.ip \in 1 .. HeadLen(src)
OnTag(l, i)  == l = Place[i] \/ l = Start(Place[i].block + 1)
InStmt(l, i) == l.block = Place[i].block /\ l.ip \in Place[i].ip .. (Place[i].ip + Len(CodeAt(i)) - 1)

Pos(l, i) == \/ i = 1 /\ InHead(l)
             \/ i \in 1 .. Size /\ IsTag(i) /\ OnTag(l, i)
             \/ i \in 1 .. Size /\ ~IsTag(i) /\ InStmt(l, i)
             \/ i = Size + 1 /\ l = Place[i]

Ready == /\ Matches(module, src) /\ Promising /\ Legal(src) /\ Len(module.blocks) > Known
         /\ Shaped(module, src, "running")

LEMMA ReadyFacts ==
    ASSUME Ready
    PROVE  /\ Layout(module, src, Place) /\ Header(module, src)
           /\ Size \in Nat /\ IsSeq(src.stmts) /\ DOMAIN src.stmts = 1 .. Size
           /\ Len(src.decls) \in Nat /\ Known \in Nat /\ Len(module.blocks) \in Nat
<1>1. LaidOut(module, src)
  BY DEF Ready, Shaped, Main
<1>2. Layout(module, src, Place) /\ Header(module, src)
  BY <1>1 DEF LaidOut, Place
<1>3. SourceOk(src) /\ ModuleOk(module)
  BY DEF Ready, Matches
<1>4. Size \in Nat /\ IsSeq(src.stmts) /\ DOMAIN src.stmts = 1 .. Size
  BY <1>3, SeqFacts DEF SourceOk, Size
<1>5. Len(src.decls) \in Nat /\ Known \in Nat
  BY <1>3 DEF SourceOk, Known
<1>6. Len(module.blocks) \in Nat
  <2>1. module.blocks \in Seq(Seq(Insts))
    BY <1>3 DEF ModuleOk
  <2> QED
    BY <2>1
<1> QED
  BY <1>2, <1>4, <1>5, <1>6

\* What the layout says of a place and of a statement.
LEMMA PlaceFacts ==
    ASSUME Ready, NEW i \in 1 .. (Size + 1)
    PROVE  /\ Place[i] = [block |-> Place[i].block, ip |-> Place[i].ip]
           /\ Place[i].block \in (Known + 1) .. Len(module.blocks) /\ Place[i].block \in Nat
           /\ Place[i].ip \in 2 .. (Len(module.blocks[Place[i].block]) + 1) /\ Place[i].ip \in Nat
           /\ i = 1 => Place[i] = [block |-> Main0(src), ip |-> HeadLen(src) + 1]
           /\ i = Size + 1 => /\ Place[i].block = Len(module.blocks)
                                /\ Place[i].ip = Len(module.blocks[Place[i].block]) + 1
<1>1. /\ Layout(module, src, Place) /\ Size \in Nat /\ Known \in Nat /\ Len(module.blocks) \in Nat
  BY ReadyFacts
<1>2. IsPlace(module, src, Place[i])
  BY <1>1 DEF Layout, Size
<1>3. i = 1 => Place[i] = [block |-> Main0(src), ip |-> HeadLen(src) + 1]
  BY <1>1 DEF Layout
<1>4. i = Size + 1 => /\ Place[i].block = Len(module.blocks)
                        /\ Place[i].ip = Len(module.blocks[Place[i].block]) + 1
  <2>1. Place[Size + 1] = EndOf(module)
    BY <1>1 DEF Layout, Size
  <2> DEFINE e == Place[Size + 1]
  <2>2. e.block = Len(module.blocks) /\ e.ip = Len(module.blocks[Len(module.blocks)]) + 1
    BY <2>1 DEF EndOf
  <2> QED
    BY <2>2
<1> QED
  BY <1>1, <1>2, <1>3, <1>4 DEF IsPlace, Main0, Known

LEMMA BlockFacts ==
    ASSUME Ready, NEW b \in 1 .. Len(module.blocks)
    PROVE  module.blocks[b] \in Seq(Insts) /\ Len(module.blocks[b]) \in Nat
<1>1. module.blocks \in Seq(Seq(Insts))
  BY DEF Ready, Matches, ModuleOk
<1> QED
  BY <1>1

LEMMA TagPlace ==
    ASSUME Ready, NEW i \in 1 .. Size, IsTag(i)
    PROVE  /\ Place[i].ip = Len(module.blocks[Place[i].block]) + 1
           /\ Place[i].block + 1 \in 1 .. Len(module.blocks)
           /\ module.blocks[Place[i].block + 1][1] = Named("LABEL", src.stmts[i].n, i)
           /\ module.labels[src.stmts[i].n] = Place[i].block + 1
           /\ Place[i + 1] = [block |-> Place[i].block + 1, ip |-> 2]
<1>1. Layout(module, src, Place)
  BY ReadyFacts
<1>2. Placed(module, src.stmts[i], i, Place[i], Place[i + 1])
  BY <1>1 DEF Layout, Size
<1> QED
  BY <1>2 DEF Placed, IsTag

LEMMA StmtPlace ==
    ASSUME Ready, NEW i \in 1 .. Size, ~IsTag(i)
    PROVE  /\ IsCodeOf(CodeAt(i), src.stmts[i], i) /\ TypedStmt(src.stmts[i])
           /\ CodeAt(i) = BodyOf(src.stmts[i], i) \o <<LastOf(src.stmts[i], i)>>
           /\ Len(CodeAt(i)) = Len(BodyOf(src.stmts[i], i)) + 1 /\ Len(CodeAt(i)) \in Nat
           /\ IsSeq(BodyOf(src.stmts[i], i)) /\ LegalStmt(src, src.stmts[i])
           /\ Sits(CodeAt(i), module.blocks[Place[i].block], Place[i].ip)
           /\ Place[i + 1] = [block |-> Place[i].block, ip |-> Place[i].ip + Len(CodeAt(i))]
<1>1. /\ Layout(module, src, Place) /\ Size \in Nat /\ DOMAIN src.stmts = 1 .. Size
  BY ReadyFacts
<1>2. Placed(module, src.stmts[i], i, Place[i], Place[i + 1])
  BY <1>1 DEF Layout, Size
<1>3. /\ Sits(CodeAt(i), module.blocks[Place[i].block], Place[i].ip)
      /\ Place[i + 1] = [block |-> Place[i].block, ip |-> Place[i].ip + Len(CodeAt(i))]
  BY <1>2 DEF Placed, IsTag, CodeAt
<1>4. src.stmts[i] \in RanOf(src.stmts)
  BY <1>1 DEF RanOf
<1>5. TypedStmt(src.stmts[i])
  BY <1>4 DEF Ready, Shaped
<1>6. LegalStmt(src, src.stmts[i])
  BY <1>4 DEF Ready, Legal, LegalSoFar
<1>7. Matches(module, src) /\ i \in Nat
  BY <1>1 DEF Ready
<1>8. /\ IsCodeOf(CodeAt(i), src.stmts[i], i)
      /\ CodeAt(i) = BodyOf(src.stmts[i], i) \o <<LastOf(src.stmts[i], i)>>
      /\ Len(CodeAt(i)) = Len(BodyOf(src.stmts[i], i)) + 1 /\ BodyOf(src.stmts[i], i) \in Seq(Insts)
  BY <1>5, <1>6, <1>7, CodeFacts DEF IsTag, CodeAt
<1>9. Len(CodeAt(i)) \in Nat
  BY <1>8 DEF IsCodeOf
<1> QED
  BY <1>3, <1>5, <1>6, <1>8, <1>9, SeqOwn

\* Where a statement's code is there is room for more than its beginning.
LEMMA InStmtFacts ==
    ASSUME Ready, NEW i \in 1 .. Size, ~IsTag(i), NEW l, IsLoop(l), InStmt(l, i),
           NEW k, k = l.ip - Place[i].ip + 1
    PROVE  /\ k \in 1 .. Len(CodeAt(i)) /\ ~Ended(l) /\ Code(l)[l.ip] = CodeAt(i)[k]
           /\ CodeAt(i)[k].stmt = i
           /\ k < Len(CodeAt(i)) => CodeAt(i)[k].op \in {"LI", "LOAD", "READ", "OPR", "CALL"}
           /\ k = Len(CodeAt(i)) => CodeAt(i)[k] = LastOf(src.stmts[i], i)
<1>1. /\ IsCodeOf(CodeAt(i), src.stmts[i], i) /\ Len(CodeAt(i)) \in Nat
      /\ Sits(CodeAt(i), module.blocks[Place[i].block], Place[i].ip)
  BY StmtPlace
<1>2. Place[i].ip \in Nat /\ Size \in Nat
  <2>1. Size \in Nat
    BY ReadyFacts
  <2>2. i \in 1 .. (Size + 1)
    BY <2>1
  <2> QED
    BY <2>1, <2>2, PlaceFacts
<1>3. l.ip \in Nat /\ l.block \in 1 .. Len(module.blocks)
  BY DEF IsLoop, Code
<1>4. Len(module.blocks[l.block]) \in Nat
  BY <1>3, BlockFacts
<1>5. k \in 1 .. Len(CodeAt(i)) /\ Place[i].ip + k - 1 = l.ip
  BY SMTT(60), <1>1, <1>2, <1>3 DEF InStmt
<1>6. l.ip \in 1 .. Len(module.blocks[l.block]) /\ module.blocks[l.block][l.ip] = CodeAt(i)[k]
  BY <1>1, <1>5 DEF Sits, InStmt
<1>7. ~Ended(l) /\ Code(l)[l.ip] = CodeAt(i)[k]
  BY <1>3, <1>4, <1>6 DEF Ended, Code
<1>8. /\ CodeAt(i)[k].stmt = i
      /\ k < Len(CodeAt(i)) => CodeAt(i)[k].op \in {"LI", "LOAD", "READ", "OPR", "CALL"}
      /\ k = Len(CodeAt(i)) => CodeAt(i)[k] = LastOf(src.stmts[i], i)
  BY <1>1, <1>5 DEF IsCodeOf
<1> QED
  BY <1>5, <1>7, <1>8

\* Main comes to a statement at its place.
LEMMA PosAt ==
    ASSUME Ready, NEW i \in 1 .. (Size + 1)
    PROVE  Pos(Place[i], i) /\ IsLoop(Place[i])
<1>0. Size \in Nat /\ Known \in Nat
  BY ReadyFacts
<1>1. /\ Place[i] = [block |-> Place[i].block, ip |-> Place[i].ip]
      /\ Place[i].block \in (Known + 1) .. Len(module.blocks)
      /\ Place[i].ip \in 2 .. (Len(module.blocks[Place[i].block]) + 1) /\ Place[i].ip \in Nat
  BY PlaceFacts
<1>2. IsLoop(Place[i])
  BY <1>0, <1>1 DEF IsLoop, Code
<1>3. CASE i = Size + 1
  BY <1>2, <1>3 DEF Pos
<1>4. CASE i # Size + 1 /\ IsTag(i)
  <2>1. i \in 1 .. Size
    BY <1>0, <1>4
  <2> QED
    BY <1>2, <1>4, <2>1 DEF Pos, OnTag
<1>5. CASE i # Size + 1 /\ ~IsTag(i)
  <2>1. i \in 1 .. Size
    BY <1>0, <1>5
  <2>2. Len(CodeAt(i)) \in Nat /\ Len(CodeAt(i)) >= 1
    BY <1>5, <2>1, StmtPlace DEF IsCodeOf
  <2>3. InStmt(Place[i], i)
    BY <1>1, <2>2 DEF InStmt
  <2> QED
    BY <1>2, <1>5, <2>1, <2>3 DEF Pos
<1> QED
  BY <1>3, <1>4, <1>5

\* Main at a tag's label.
LEMMA PosTag ==
    ASSUME Ready, NEW i \in 1 .. Size, IsTag(i)
    PROVE  /\ Pos(Start(Place[i].block + 1), i) /\ IsLoop(Start(Place[i].block + 1))
           /\ ~Ended(Start(Place[i].block + 1))
           /\ Code(Start(Place[i].block + 1))[1] = Named("LABEL", src.stmts[i].n, i)
<1> DEFINE l == Start(Place[i].block + 1)
<1>1. /\ Place[i].block + 1 \in 1 .. Len(module.blocks)
      /\ module.blocks[Place[i].block + 1][1] = Named("LABEL", src.stmts[i].n, i)
      /\ Place[i + 1] = [block |-> Place[i].block + 1, ip |-> 2]
  BY TagPlace
<1>2. l = [block |-> Place[i].block + 1, ip |-> 1] /\ l.block = Place[i].block + 1 /\ l.ip = 1
  BY DEF Start
<1> HIDE DEF l
<1>3. Len(module.blocks[l.block]) \in Nat /\ Len(module.blocks[l.block]) >= 1
  <2>1. Size \in Nat
    BY ReadyFacts
  <2>2. i + 1 \in 1 .. (Size + 1)
    BY <2>1
  <2> DEFINE p == Place[i + 1]
  <2>3. p.ip \in 2 .. (Len(module.blocks[p.block]) + 1)
    BY <2>2, PlaceFacts
  <2>4. p.ip = 2 /\ p.block = l.block
    BY <1>1, <1>2
  <2> HIDE DEF p
  <2>5. Len(module.blocks[l.block]) \in Nat
    BY <1>1, <1>2, BlockFacts
  <2> QED
    BY <2>3, <2>4, <2>5
<1>4. IsLoop(l) /\ ~Ended(l)
  BY SMTT(60), <1>1, <1>2, <1>3 DEF IsLoop, Code, Ended
<1>5. Pos(l, i)
  <2>1. OnTag(l, i)
    BY DEF OnTag, l
  <2> QED
    BY <2>1 DEF Pos
<1>6. Code(l)[1] = Named("LABEL", src.stmts[i].n, i)
  BY <1>1, <1>2 DEF Code
<1> QED
  BY <1>4, <1>5, <1>6 DEF l

\* What NextStmt computes.
Rest(l) == {k \in l.ip .. Len(Code(l)) : Code(l)[k].stmt # 0}

LEMMA NextIs ==
    ASSUME NEW l
    PROVE  NextStmt(l) = IF Rest(l) # {} THEN Code(l)[CHOOSE k \in Rest(l) : \A j \in Rest(l) : k <= j].stmt
                         ELSE IF l.block < Len(module.blocks) THEN module.blocks[l.block + 1][1].stmt
                         ELSE Size + 1
BY DEF NextStmt, Rest, Size

LEMMA NextHere ==
    ASSUME NEW l, l.ip \in Nat, Len(Code(l)) \in Nat, l.ip <= Len(Code(l)), Code(l)[l.ip].stmt # 0
    PROVE  NextStmt(l) = Code(l)[l.ip].stmt
<1>1. l.ip \in Rest(l) /\ \A j \in Rest(l) : j \in Nat /\ l.ip <= j
  BY DEF Rest
<1> DEFINE Least(k) == k \in Rest(l) /\ \A j \in Rest(l) : k <= j
           c == CHOOSE k \in Rest(l) : \A j \in Rest(l) : k <= j
<1>2. \E k \in Rest(l) : \A j \in Rest(l) : k <= j
  BY <1>1
<1>3. c \in Rest(l) /\ \A j \in Rest(l) : c <= j
  BY <1>2
<1> HIDE DEF c
<1>4. c = l.ip
  BY <1>1, <1>3
<1>5. NextStmt(l) = Code(l)[c].stmt
  BY <1>1, NextIs DEF c
<1> QED
  BY <1>4, <1>5

LEMMA NextAfter ==
    ASSUME NEW l, Rest(l) = {}
    PROVE  NextStmt(l) = IF l.block < Len(module.blocks) THEN module.blocks[l.block + 1][1].stmt
                         ELSE Size + 1
BY NextIs

\* Instructions of no statement are passed over.
LEMMA NextSkips ==
    ASSUME NEW l, NEW r, r.block = l.block, l.ip \in Nat, r.ip \in Nat, l.ip <= r.ip,
           Len(Code(l)) \in Nat, \A k \in l.ip .. (r.ip - 1) : Code(l)[k].stmt = 0
    PROVE  NextStmt(l) = NextStmt(r)
<1>1. Code(l) = Code(r)
  BY DEF Code
<1>2. Rest(l) = Rest(r)
  BY <1>1 DEF Rest
<1> QED
  BY SMTT(60), <1>1, <1>2, NextIs

\* The next statement is the one main is at.
LEMMA NextAtTag ==
    ASSUME Ready, NEW i \in 1 .. Size, IsTag(i), NEW l, OnTag(l, i)
    PROVE  NextStmt(l) = i
<1>1. /\ Place[i].ip = Len(module.blocks[Place[i].block]) + 1
      /\ Place[i].block + 1 \in 1 .. Len(module.blocks)
      /\ module.blocks[Place[i].block + 1][1] = Named("LABEL", src.stmts[i].n, i)
  BY TagPlace
<1>2. Size \in Nat /\ i \in 1 .. (Size + 1) /\ i # 0 /\ Len(module.blocks) \in Nat
  BY ReadyFacts
<1>3. Place[i].block \in Nat /\ Place[i].ip \in Nat /\ Place[i].block \in 1 .. Len(module.blocks)
  <2>1. /\ Place[i].block \in (Known + 1) .. Len(module.blocks) /\ Place[i].block \in Nat
        /\ Place[i].ip \in Nat
    BY <1>2, PlaceFacts
  <2> QED
    BY <2>1, ReadyFacts
<1>4. module.blocks[Place[i].block + 1][1].stmt = i
  BY <1>1 DEF Named
<1>5. CASE l = Place[i]
  <2>1. Rest(l) = {}
    <3>1. Len(module.blocks[Place[i].block]) \in Nat
      BY <1>3, BlockFacts
    <3> QED
      BY SMTT(60), <1>1, <1>5, <3>1 DEF Rest, Code
  <2>2. l.block < Len(module.blocks)
    BY <1>1, <1>2, <1>3, <1>5
  <2> QED
    BY <1>4, <1>5, <2>1, <2>2, NextAfter
<1>6. CASE l = Start(Place[i].block + 1)
  <2>1. l.block = Place[i].block + 1 /\ l.ip = 1
    BY <1>6 DEF Start
  <2>2. IsLoop(l) /\ ~Ended(l) /\ Len(Code(l)) \in Nat
    <3>1. IsLoop(l) /\ ~Ended(l)
      BY <1>6, PosTag
    <3>2. Len(module.blocks[l.block]) \in Nat
      BY <1>1, <2>1, BlockFacts
    <3> QED
      BY <3>1, <3>2 DEF Code
  <2>3. Code(l)[l.ip].stmt = i
    BY <1>4, <2>1 DEF Code
  <2>4. l.ip \in Nat /\ l.ip <= Len(Code(l))
    BY <2>1, <2>2 DEF Ended
  <2> QED
    BY <1>2, <2>2, <2>3, <2>4, NextHere
<1> QED
  BY <1>5, <1>6 DEF OnTag

LEMMA NextInStmt ==
    ASSUME Ready, NEW i \in 1 .. Size, ~IsTag(i), NEW l, IsLoop(l), InStmt(l, i)
    PROVE  NextStmt(l) = i
<1> DEFINE k == l.ip - Place[i].ip + 1
<1>1. ~Ended(l) /\ Code(l)[l.ip] = CodeAt(i)[k] /\ CodeAt(i)[k].stmt = i
  BY InStmtFacts
<1> HIDE DEF k
<1>2. l.ip \in Nat /\ l.block \in 1 .. Len(module.blocks)
  BY DEF IsLoop, Code
<1>3. Len(Code(l)) \in Nat
  BY <1>2, BlockFacts DEF Code
<1>4. l.ip <= Len(Code(l)) /\ Code(l)[l.ip].stmt = i /\ i # 0
  BY <1>1, <1>2, <1>3 DEF Ended
<1> QED
  BY <1>2, <1>3, <1>4, NextHere

LEMMA NextAtEnd ==
    ASSUME Ready, NEW l, l = Place[Size + 1]
    PROVE  NextStmt(l) = Size + 1 /\ Ended(l) /\ l.block = Len(module.blocks)
<1>1. Size \in Nat /\ Len(module.blocks) \in Nat
  BY ReadyFacts
<1>2. /\ l.block = Len(module.blocks) /\ l.ip = Len(module.blocks[l.block]) + 1
      /\ l.block \in (Known + 1) .. Len(module.blocks)
  <2>1. Size + 1 \in 1 .. (Size + 1)
    BY <1>1
  <2> DEFINE p == Place[Size + 1]
  <2>2. /\ p.block = Len(module.blocks) /\ p.ip = Len(module.blocks[p.block]) + 1
        /\ p.block \in (Known + 1) .. Len(module.blocks)
    BY <2>1, PlaceFacts
  <2> QED
    BY <2>2
<1>3. Len(Code(l)) \in Nat
  <2>1. l.block \in 1 .. Len(module.blocks)
    BY <1>2, ReadyFacts
  <2> QED
    BY <2>1, BlockFacts DEF Code
<1>4. Rest(l) = {} /\ Ended(l)
  BY SMTT(60), <1>2, <1>3 DEF Rest, Code, Ended
<1> QED
  BY <1>1, <1>2, <1>4, NextAfter

LEMMA NextInHead ==
    ASSUME Ready, NEW l, IsLoop(l), InHead(l)
    PROVE  NextStmt(l) = NextStmt(Place[1])
<1>1. Size \in Nat /\ Len(src.decls) \in Nat /\ Header(module, src)
  BY ReadyFacts
<1>2. Place[1] = [block |-> Main0(src), ip |-> HeadLen(src) + 1]
  <2>1. 1 \in 1 .. (Size + 1)
    BY <1>1
  <2> QED
    BY <2>1, PlaceFacts
<1>3. /\ Place[1].block = l.block /\ Place[1].ip = HeadLen(src) + 1
      /\ HeadLen(src) \in Nat /\ l.ip \in 1 .. HeadLen(src)
  BY <1>1, <1>2 DEF InHead, HeadLen
<1>4. Len(Code(l)) \in Nat
  <2>1. l.block \in 1 .. Len(module.blocks)
    BY DEF IsLoop
  <2> QED
    BY <2>1, BlockFacts DEF Code
<1>5. \A k \in l.ip .. (Place[1].ip - 1) : Code(l)[k].stmt = 0
  BY <1>1, <1>3 DEF Header, Code, InHead
<1> QED
  BY <1>3, <1>4, <1>5, NextSkips

LEMMA NextAtPos ==
    ASSUME Ready, NEW l, IsLoop(l), NEW i, Pos(l, i)
    PROVE  NextStmt(l) = i /\ i \in 1 .. (Size + 1)
<1>1. Size \in Nat
  BY ReadyFacts
<1>2. ASSUME NEW r, IsLoop(r), Pos(r, i), ~InHead(r) PROVE NextStmt(r) = i
  BY <1>2, NextAtTag, NextInStmt, NextAtEnd DEF Pos
<1>3. CASE ~InHead(l)
  BY <1>1, <1>2, <1>3 DEF Pos
<1>4. CASE InHead(l) /\ i = 1
  <2>1. 1 \in 1 .. (Size + 1)
    BY <1>1
  <2>2. Pos(Place[1], 1) /\ IsLoop(Place[1])
    BY <2>1, PosAt
  <2>3. ~InHead(Place[1])
    <3>1. Place[1] = [block |-> Main0(src), ip |-> HeadLen(src) + 1]
      BY <2>1, PlaceFacts
    <3>2. HeadLen(src) \in Nat
      BY ReadyFacts DEF HeadLen
    <3> DEFINE p == Place[1]
    <3>3. p.ip = HeadLen(src) + 1
      BY <3>1
    <3> QED
      BY <3>2, <3>3 DEF InHead
  <2> QED
    BY <1>2, <1>4, <2>1, <2>2, <2>3, NextInHead
<1>5. CASE InHead(l) /\ i # 1
  BY <1>1, <1>5, NextAtTag, NextInStmt, NextAtEnd DEF Pos
<1> QED
  BY <1>3, <1>4, <1>5

-----------------------------------------------------------------------------
(***************************************************************************)
(* How main moves.                                                         *)
(***************************************************************************)
NextOf(l) == [block |-> l.block, ip |-> l.ip + 1]

LEMMA LoopFacts ==
    ASSUME Ready, NEW l, IsLoop(l)
    PROVE  /\ l.ip \in Nat /\ l.ip >= 1 /\ l.block \in 1 .. Len(module.blocks) /\ Len(Code(l)) \in Nat
           /\ Ended(l) <=> l.ip = Len(Code(l)) + 1
           /\ ~Ended(l) <=> l.ip <= Len(Code(l))
           /\ l = [block |-> l.block, ip |-> l.ip]
<1>1. l.block \in 1 .. Len(module.blocks) /\ l.ip \in 1 .. (Len(Code(l)) + 1)
  BY DEF IsLoop
<1>2. Len(Code(l)) \in Nat
  BY <1>1, BlockFacts DEF Code
<1> QED
  BY <1>1, <1>2 DEF Ended, IsLoop

LEMMA HeadFacts ==
    ASSUME Ready
    PROVE  /\ HeadLen(src) \in Nat /\ HeadLen(src) >= 1 /\ Size \in Nat
           /\ Place[1] = [block |-> Main0(src), ip |-> HeadLen(src) + 1]
           /\ Place[1].block = Main0(src) /\ Place[1].ip = HeadLen(src) + 1
           /\ Main0(src) = Known + 1 /\ Known \in Nat /\ Main0(src) \in 1 .. Len(module.blocks)
<1>1. Size \in Nat /\ Len(src.decls) \in Nat /\ Known \in Nat /\ Len(module.blocks) \in Nat
  BY ReadyFacts
<1>2. Place[1] = [block |-> Main0(src), ip |-> HeadLen(src) + 1]
  <2>1. 1 \in 1 .. (Size + 1)
    BY <1>1
  <2> QED
    BY <2>1, PlaceFacts
<1>3. Len(module.blocks) > Known
  BY DEF Ready
<1> QED
  BY <1>1, <1>2, <1>3 DEF HeadLen, Main0, Known

\* Among main's label and declarations.
LEMMA HeadStep ==
    ASSUME Ready, NEW l, IsLoop(l), InHead(l)
    PROVE  /\ ~Ended(l) /\ Code(l)[l.ip].op \in {"LABEL", "DEF"}
           /\ InHead(NextOf(l)) \/ NextOf(l) = Place[1]
<1>1. Header(module, src)
  BY ReadyFacts
<1>2. HeadLen(src) \in Nat /\ Place[1] = [block |-> Main0(src), ip |-> HeadLen(src) + 1]
  BY HeadFacts
<1>3. l.ip \in 1 .. HeadLen(src) /\ l.block = Main0(src)
  BY DEF InHead
<1>4. l.ip \in 1 .. Len(Code(l)) /\ Code(l)[l.ip].op \in {"LABEL", "DEF"}
  BY <1>1, <1>3 DEF Header, Code
<1>5. ~Ended(l)
  BY <1>4, LoopFacts
<1>6. CASE l.ip = HeadLen(src)
  BY <1>2, <1>3, <1>4, <1>5, <1>6 DEF NextOf
<1>7. CASE l.ip # HeadLen(src)
  <2>1. l.ip + 1 \in 1 .. HeadLen(src)
    BY <1>2, <1>3, <1>7
  <2> DEFINE r == NextOf(l)
  <2>2. r.ip = l.ip + 1 /\ r.block = l.block
    BY DEF NextOf
  <2> HIDE DEF r
  <2>3. InHead(r)
    BY <1>3, <2>1, <2>2 DEF InHead
  <2> QED
    BY <1>4, <1>5, <2>3 DEF r
<1> QED
  BY <1>6, <1>7

\* At a tag: the end of a block, then the label.
LEMMA TagStep ==
    ASSUME Ready, NEW i \in 1 .. Size, IsTag(i), NEW l, IsLoop(l), OnTag(l, i)
    PROVE  /\ Ended(l) => /\ l.block < Len(module.blocks)
                          /\ Start(l.block + 1) = Start(Place[i].block + 1)
           /\ ~Ended(l) => /\ Code(l)[l.ip] = Named("LABEL", src.stmts[i].n, i)
                           /\ NextOf(l) = Place[i + 1]
<1>1. /\ Place[i].ip = Len(module.blocks[Place[i].block]) + 1
      /\ Place[i].block + 1 \in 1 .. Len(module.blocks)
      /\ Place[i + 1] = [block |-> Place[i].block + 1, ip |-> 2]
  BY TagPlace
<1>2. l.block \in 1 .. Len(module.blocks) /\ Len(Code(l)) \in Nat /\ Len(module.blocks) \in Nat
  BY LoopFacts, ReadyFacts
<1>3. CASE l = Place[i]
  <2>1. Ended(l)
    BY <1>1, <1>2, <1>3, LoopFacts DEF Code
  <2>2. l.block < Len(module.blocks)
    BY <1>1, <1>2, <1>3
  <2> QED
    BY <1>3, <2>1, <2>2
<1>4. CASE l = Start(Place[i].block + 1)
  <2>1. ~Ended(l) /\ Code(l)[1] = Named("LABEL", src.stmts[i].n, i)
    BY <1>4, PosTag
  <2>2. l.ip = 1 /\ l.block = Place[i].block + 1
    BY <1>4 DEF Start
  <2> QED
    BY <1>1, <2>1, <2>2 DEF NextOf
<1> QED
  BY <1>3, <1>4 DEF OnTag

\* In the code of a statement.
LEMMA StmtStep ==
    ASSUME Ready, NEW i \in 1 .. Size, ~IsTag(i), NEW l, IsLoop(l), InStmt(l, i),
           NEW k, k = l.ip - Place[i].ip + 1
    PROVE  /\ k < Len(CodeAt(i)) => InStmt(NextOf(l), i)
           /\ k = Len(CodeAt(i)) => NextOf(l) = Place[i + 1]
<1>1. /\ Len(CodeAt(i)) \in Nat
      /\ Place[i + 1] = [block |-> Place[i].block, ip |-> Place[i].ip + Len(CodeAt(i))]
  BY StmtPlace
<1>2. Place[i].ip \in Nat
  <2>1. i \in 1 .. (Size + 1)
    BY ReadyFacts
  <2> QED
    BY <2>1, PlaceFacts
<1>3. l.ip \in Nat /\ l.block = Place[i].block /\ k \in 1 .. Len(CodeAt(i))
  BY InStmtFacts, LoopFacts DEF InStmt
<1>4. l.ip = Place[i].ip + k - 1
  BY <1>2, <1>3
<1>5. ASSUME k < Len(CodeAt(i)) PROVE InStmt(NextOf(l), i)
  <2> DEFINE r == NextOf(l)
  <2>1. r.block = l.block /\ r.ip = l.ip + 1
    BY DEF NextOf
  <2> HIDE DEF r
  <2>2. r.ip \in Place[i].ip .. (Place[i].ip + Len(CodeAt(i)) - 1)
    BY SMTT(60), <1>1, <1>2, <1>3, <1>4, <1>5, <2>1
  <2>3. InStmt(r, i)
    BY <1>3, <2>1, <2>2 DEF InStmt
  <2> QED
    BY <2>3 DEF r
<1>6. ASSUME k = Len(CodeAt(i)) PROVE NextOf(l) = Place[i + 1]
  BY SMTT(60), <1>1, <1>2, <1>3, <1>4, <1>6 DEF NextOf
<1> QED
  BY <1>5, <1>6

\* Where a jump leads.
LEMMA JumpPos ==
    ASSUME Ready, NEW t \in Targets(src)
    PROVE  \E i \in 1 .. Size : /\ IsTag(i) /\ src.stmts[i].n = t
                                /\ Start(module.labels[t]) = Start(Place[i].block + 1)
<1>1. DOMAIN src.stmts = 1 .. Size
  BY ReadyFacts
<1>2. PICK s \in RanOf(src.stmts) : s.k \in {"if", "to"} /\ s.n = t
  BY DEF Targets
<1>3. Definitions(src, t) # {}
  BY <1>2 DEF Ready, Legal
<1>4. PICK i \in 1 .. Size : IsTag(i) /\ src.stmts[i].n = t
  BY <1>1, <1>3 DEF Definitions, IsTag
<1>5. module.labels[t] = Place[i].block + 1
  BY <1>4, TagPlace
<1> QED
  BY <1>4, <1>5

\* The start of run.
LEMMA BootPos ==
    ASSUME Ready
    PROVE  InHead(Start(getMainBlock(module))) /\ Pos(Start(getMainBlock(module)), 1)
<1>1. functionCount(module) = Known
  BY CountFacts DEF Ready
<1> DEFINE l == Start(getMainBlock(module))
<1>2. l.block = Known + 1 /\ l.ip = 1
  BY <1>1 DEF Start, getMainBlock
<1> HIDE DEF l
<1>3. InHead(l)
  BY <1>2, HeadFacts DEF InHead
<1>4. Pos(l, 1)
  BY <1>3 DEF Pos
<1> QED
  BY <1>3, <1>4 DEF l

-----------------------------------------------------------------------------
(***************************************************************************)
(* What the code of a function and of a statement computes.                *)
(***************************************************************************)

\* In a program that means something a call reaches the function it names.
LEMMA LegalReaches ==
    ASSUME Matches(module, src), NEW known, known \in 0 .. Known,
           NEW e, NEW variables, WellFormed(e, variables, src, known),
           NEW args, NEW vs
    PROVE  \A x \in SubExps(e) : Reaches(x, World(args, vs, module, src))
<1> TAKE x \in SubExps(e)
<1> SUFFICES ASSUME x.k = "call"
             PROVE  /\ module.functions[x.n] = Len(x.args)
                    /\ module.labels[x.n] = FuncNamed(src, x.n)
  BY DEF Reaches, World
<1>1. SourceOk(src) /\ NamesOk(module, src)
  BY DEF Matches
<1>2. DOMAIN src.funcs = 1 .. Known /\ Known \in Nat
  BY <1>1, NamesKnown DEF Known
<1>3. PICK j \in 1 .. known : src.funcs[j].n = x.n /\ Len(src.funcs[j].params) = Len(x.args)
  BY DEF WellFormed
<1>4. j \in 1 .. Known
  BY <1>2, <1>3
<1>5. /\ module.functions[src.funcs[j].n] = Len(src.funcs[j].params)
      /\ module.labels[src.funcs[j].n] = j
  BY <1>1, <1>4 DEF NamesOk, Known
<1>6. \A i \in 1 .. Known : src.funcs[i].n = x.n => i = j
  BY <1>1, <1>3, <1>4 DEF NamesOk, Known
<1>7. FuncNamed(src, x.n) = j
  BY <1>2, <1>3, <1>4, <1>6 DEF FuncNamed
<1> QED
  BY <1>3, <1>5, <1>7

LEMMA OneIndex ==
    ASSUME NEW ps, IsSeq(ps), \A i, k \in 1 .. Len(ps) : ps[i] = ps[k] => i = k, NEW n \in RanOf(ps)
    PROVE  getIndexOf(ps, n) = CHOOSE i \in DOMAIN ps : ps[i] = n
<1>1. DOMAIN ps = 1 .. Len(ps) /\ Len(ps) \in Nat
  BY SeqFacts
<1>2. PICK i \in DOMAIN ps : ps[i] = n
  BY DEF RanOf
<1>3. \A k \in DOMAIN ps : ps[k] = n => k = i
  BY <1>1, <1>2
<1>4. (CHOOSE k \in DOMAIN ps : ps[k] = n) = i
  BY <1>2, <1>3
<1>5. \A k \in 1 .. (i - 1) : ps[k] # n
  BY <1>1, <1>2, <1>3
<1>6. getIndexOf(ps, n) \in DOMAIN ps /\ ps[getIndexOf(ps, n)] = n
  <2> DEFINE First(k) == ps[k] = n /\ \A j \in 1 .. (k - 1) : ps[j] # n
  <2>1. First(i)
    BY <1>2, <1>5
  <2>2. getIndexOf(ps, n) = CHOOSE k \in DOMAIN ps : First(k)
    BY DEF getIndexOf
  <2>3. First(CHOOSE k \in DOMAIN ps : First(k)) /\ (CHOOSE k \in DOMAIN ps : First(k)) \in DOMAIN ps
    <3> HIDE DEF First
    <3> QED
      BY <1>2, <2>1
  <2> QED
    BY <2>2, <2>3
<1> QED
  BY <1>3, <1>4, <1>6

\* A call's value is that of the function's expression.
LEMMA CalledValue ==
    ASSUME CallsMean, Matches(module, src), Promising, NEW j \in 1 .. Known, NEW args
    PROVE  CallValue(src, j, args) = Eval(src.funcs[j].e, Bound(src.funcs[j].params, args), src)
<1>1. SourceOk(src) /\ LegalSoFar(src) /\ ~Recursive
  BY DEF Matches, Promising
<1>2. IsSeq(src.funcs) /\ DOMAIN src.funcs = 1 .. Known
  <2>1. IsSeq(src.funcs)
    BY <1>1, SeqOwn DEF SourceOk
  <2> QED
    BY <2>1, SeqFacts DEF Known
<1>3. src.funcs[j] \in RanOf(src.funcs)
  BY <1>2 DEF RanOf
<1>4. ~CallsItself(src.funcs[j])
  BY <1>1, <1>3 DEF Recursive, CallsItself
<1>5. /\ LegalSoFar(src) /\ src.funcs \in Seq(RanOf(src.funcs)) /\ j \in DOMAIN src.funcs
  BY <1>1, <1>2 DEF IsSeq
<1> QED
  BY <1>4, <1>5 DEF CallsMean, CallMeans

\* A function's body leaves the value of the call.
LEMMA BodyValue ==
    ASSUME CallsMean, Matches(module, src), Promising, NEW j \in 1 .. Known, NEW args, NEW vs
    PROVE  LeavesValue(visitExp(src.funcs[j].e, src.funcs[j].params, TRUE, 0),
                       World(args, vs, module, src), CallValue(src, j, args))
<1> DEFINE f   == src.funcs[j]
           ps  == f.params
           w   == World(args, vs, module, src)
           rho == Bound(ps, args)
<1>1. SourceOk(src) /\ LegalSoFar(src) /\ NamesOk(module, src)
  BY DEF Matches, Promising
<1>2. DOMAIN src.funcs = 1 .. Known /\ Known \in Nat
  BY <1>1, NamesKnown DEF Known
<1>3. f.e \in Exps /\ ps \in Seq(Idents)
  <2> DEFINE F  == [n : Idents, params : Seq(Idents), e : Exps]
             fs == src.funcs
  <2>1. fs \in Seq(F)
    BY <1>1 DEF SourceOk
  <2>2. \A x \in F : x.e \in Exps /\ x.params \in Seq(Idents)
    OBVIOUS
  <2>3. j \in DOMAIN fs
    BY <1>2
  <2> HIDE DEF F, fs
  <2>4. fs[j] \in F
    BY <2>1, <2>3
  <2> QED
    BY <2>2, <2>4 DEF fs
<1>4. f.e \in Exps /\ IsSeq(ps)
  BY <1>3, SeqOwn
<1>5. Tree(f.e) /\ Bad \notin SubExps(f.e)
  BY <1>4, PcodeTreeAssumption
<1>6. WellFormed(f.e, RanOf(ps), src, j)
  <2>1. LegalFunc(src, j)
    BY <1>1, <1>2 DEF LegalSoFar
  <2> QED
    BY <2>1 DEF LegalFunc
<1>7. j \in 0 .. Known /\ j \in 0 .. Len(src.funcs)
  BY <1>2 DEF Known
<1>8. \A x \in SubExps(f.e) : Reaches(x, w)
  BY <1>6, <1>7, LegalReaches
<1>9. \A x \in SubExps(f.e) : Fits(x, w.m.functions, ps, TRUE)
  <2>1. \A i \in 1 .. j : module.functions[src.funcs[i].n] = Len(src.funcs[i].params)
    BY <1>1, <1>2 DEF NamesOk, Known
  <2>2. \A x \in SubExps(f.e) : Fits(x, module.functions, ps, TRUE)
    BY <1>6, <1>7, <2>1, LegalFits
  <2> QED
    BY <2>2 DEF World
<1>10. Agrees(rho, w, ps, TRUE)
  <2>1. \A i, k \in 1 .. Len(ps) : ps[i] = ps[k] => i = k
    BY <1>1, <1>2, <1>4, ParamsDiffer
  <2>2. ASSUME NEW n \in RanOf(ps) PROVE rho[n] = args[getIndexOf(ps, n)]
    <3> HIDE DEF ps
    <3>1. getIndexOf(ps, n) = CHOOSE i \in DOMAIN ps : ps[i] = n
      BY <1>4, <2>1, OneIndex
    <3> QED
      BY <3>1 DEF Bound
  <2> QED
    BY <2>2 DEF Agrees, World
<1>11. CallValue(src, j, args) = Eval(f.e, rho, src)
  BY CalledValue
<1> HIDE DEF rho
<1>12. LeavesValue(visitExp(f.e, ps, TRUE, 0), w, Eval(f.e, rho, w.p))
  BY <1>4, <1>5, <1>8, <1>9, <1>10, ExpFinal
<1> QED
  BY <1>11, <1>12 DEF World

\* So it is what RET finds.
LEMMA FuncValue ==
    ASSUME CallsMean, Ready, NEW j \in 1 .. Known, NEW args, NEW vs,
           NEW c, c = module.blocks[j]
    PROVE  /\ IsSeq(c) /\ Len(c) \in Nat
           /\ Stacks(c, World(args, vs, module, src), <<>>)[Len(c)] = <<CallValue(src, j, args)>>
<1> DEFINE w     == World(args, vs, module, src)
           label == Named("LABEL", src.funcs[j].n, 0)
           body  == visitExp(src.funcs[j].e, src.funcs[j].params, TRUE, 0)
           ret   == Inst("RET", 0)
           v     == CallValue(src, j, args)
<1>1. Matches(module, src) /\ Promising /\ FuncCodes(module, src)
  BY DEF Ready, Shaped
<1>2. c = <<label>> \o body \o <<ret>>
  BY <1>1 DEF FuncCodes, Known
<1>3. LeavesValue(body, w, v)
  BY <1>1, BodyValue
<1>4. label.op = "LABEL"
  BY DEF Named
<1> HIDE DEF w, label, body, ret, v
<1>5. IsSeq(<<label>>) /\ IsSeq(<<ret>>) /\ IsSeq(body) /\ Len(<<label>>) = 1 /\ Len(<<ret>>) = 1
  BY <1>3, OneOnTop, EmptyFacts DEF LeavesValue
<1> DEFINE d == <<label>> \o body
<1>6. IsSeq(d) /\ Len(d) \in Nat
  BY <1>5, ConcatFacts, SeqFacts
<1>7. Final(<<label>>, w, <<>>) = <<>>
  <2>1. TakesIn(label, w) = 0 /\ label.op \notin Pushing
    BY <1>4 DEF TakesIn, Takes, Pushing, Popping1
  <2>2. After(label, <<>>, w) = <<>>
    BY <2>1, NoneOnTop, EmptyFacts DEF After
  <2> QED
    BY <2>2, FinalOne
<1>8. Final(d, w, <<>>) = Append(<<>>, v)
  <2>1. Final(d, w, <<>>) = Final(body, w, Final(<<label>>, w, <<>>))
    BY <1>5, StacksConcat
  <2> HIDE DEF d
  <2>2. Final(d, w, <<>>) = Final(body, w, <<>>)
    BY <1>7, <2>1
  <2> QED
    BY <1>3, <2>2, EmptyFacts DEF LeavesValue
<1>9. c = d \o <<ret>>
  BY <1>2
<1> HIDE DEF d
<1>10. IsSeq(c) /\ Len(c) = Len(d) + 1
  <2>1. IsSeq(d \o <<ret>>) /\ Len(d \o <<ret>>) = Len(d) + Len(<<ret>>)
    BY <1>5, <1>6, ConcatFacts
  <2> QED
    BY <1>5, <1>9, <2>1
<1>11. Stacks(c, w, <<>>)[Len(d) + 1] = Stacks(d, w, <<>>)[Len(d) + 1]
  <2>1. \A k \in 1 .. Len(d) + 1 : Stacks(d \o <<ret>>, w, <<>>)[k] = Stacks(d, w, <<>>)[k]
    BY <1>5, <1>6, StacksConcat
  <2>2. Len(d) + 1 \in 1 .. Len(d) + 1
    BY <1>6
  <2> QED
    BY <1>9, <2>1, <2>2
<1>12. Stacks(c, w, <<>>)[Len(c)] = <<v>>
  BY <1>8, <1>10, <1>11 DEF Final
<1> QED
  BY <1>6, <1>10, <1>12 DEF w, v

\* What the last instruction of a statement finds.
Rho(vs) == [n \in Idents |-> [op |-> "from", stmt |-> vs[n]]]

Found(s, vs) == IF s.k = "get" THEN <<[op |-> "read"]>>
                ELSE IF s.k \in Valued THEN <<Eval(s.e, Rho(vs), src)>> ELSE <<>>

LEMMA ExpValue ==
    ASSUME Matches(module, src), NEW e \in Exps \cup Conds,
           NEW variables, WellFormed(e, variables, src, Known), NEW i \in Nat, NEW args, NEW vs
    PROVE  LeavesValue(visitExp(e, <<>>, FALSE, i), World(args, vs, module, src), Eval(e, Rho(vs), src))
<1> DEFINE w   == World(args, vs, module, src)
           rho == Rho(vs)
<1>1. SourceOk(src) /\ NamesOk(module, src)
  BY DEF Matches
<1>2. Known \in Nat /\ Known \in 0 .. Known /\ Known \in 0 .. Len(src.funcs)
  BY <1>1, NamesKnown DEF Known
<1>3. Tree(e) /\ Bad \notin SubExps(e)
  BY PcodeTreeAssumption
<1>4. \A x \in SubExps(e) : Reaches(x, w)
  BY <1>2, LegalReaches
<1>5. \A x \in SubExps(e) : Fits(x, w.m.functions, <<>>, FALSE)
  <2>1. \A j \in 1 .. Known : module.functions[src.funcs[j].n] = Len(src.funcs[j].params)
    BY <1>1 DEF NamesOk, Known
  <2>2. \A x \in SubExps(e) : Fits(x, module.functions, <<>>, FALSE)
    BY <1>2, <2>1, LegalFits
  <2> QED
    BY <2>2 DEF World
<1>6. Agrees(rho, w, <<>>, FALSE)
  BY DEF Agrees, Rho, World
<1> HIDE DEF rho
<1>7. LeavesValue(visitExp(e, <<>>, FALSE, i), w, Eval(e, rho, w.p))
  BY <1>3, <1>4, <1>5, <1>6, EmptyFacts, ExpFinal
<1> QED
  BY <1>7 DEF rho, World

LEMMA StmtValue ==
    ASSUME Ready, NEW i \in 1 .. Size, ~IsTag(i), NEW args, NEW vs
    PROVE  Stacks(CodeAt(i), World(args, vs, module, src), <<>>)[Len(CodeAt(i))]
               = Found(src.stmts[i], vs)
<1> DEFINE s    == src.stmts[i]
           body == BodyOf(s, i)
           last == LastOf(s, i)
           w    == World(args, vs, module, src)
<1>1. /\ CodeAt(i) = body \o <<last>> /\ Len(CodeAt(i)) = Len(body) + 1 /\ IsSeq(body)
      /\ TypedStmt(s) /\ LegalStmt(src, s)
  BY StmtPlace
<1>2. Matches(module, src) /\ i \in Nat
  BY ReadyFacts DEF Ready
<1>3. Final(body, w, <<>>) = Found(s, vs)
  <2> HIDE DEF s
  <2>1. CASE s.k = "get"
    <3> DEFINE inst == Inst("READ", i)
    <3>1. body = <<inst>> /\ inst.op = "READ"
      BY <2>1 DEF BodyOf, Inst
    <3>2. TakesIn(inst, w) = 0 /\ inst.op \in Pushing /\ Pushed(inst, <<>>, w) = [op |-> "read"]
      BY <3>1 DEF TakesIn, Takes, Pushing, Popping1, Pushed
    <3> HIDE DEF inst, w, body
    <3>3. Final(body, w, <<>>) = Append(<<>>, [op |-> "read"])
      BY <3>1, <3>2, FinalOne, NoneOnTop, EmptyFacts DEF After
    <3> QED
      BY <2>1, <3>3 DEF Found
  <2>2. CASE s.k \in Valued
    <3>1. body = visitExp(s.e, <<>>, FALSE, i)
      <4>1. s.k # "get"
        BY <2>2 DEF Valued
      <4> QED
        BY <2>2, <4>1 DEF BodyOf
    <3>2. s.e \in Exps \cup Conds /\ WellFormed(s.e, Declared(src), src, Known)
      BY <1>1, <2>2 DEF TypedStmt, LegalStmt, Valued, Known
    <3>3. LeavesValue(body, w, Eval(s.e, Rho(vs), src))
      BY <1>2, <3>1, <3>2, ExpValue
    <3>4. Final(body, w, <<>>) = <<Eval(s.e, Rho(vs), src)>>
      <4> DEFINE v == Eval(s.e, Rho(vs), src)
      <4> HIDE DEF body, w, v
      <4>1. LeavesValue(body, w, v)
        BY <3>3 DEF v
      <4>2. Final(body, w, <<>>) = Append(<<>>, v)
        BY <4>1, EmptyFacts DEF LeavesValue
      <4>3. Append(<<>>, v) = <<v>>
        OBVIOUS
      <4> QED
        BY <4>2, <4>3 DEF v
    <3> QED
      BY <2>2, <3>4 DEF Found, Valued
  <2>3. CASE s.k # "get" /\ s.k \notin Valued
    <3>1. body = <<>>
      BY <2>3 DEF BodyOf
    <3>2. Final(<<>>, w, <<>>) = <<>>
      <4> HIDE DEF w
      <4> QED
        BY StacksFacts, EmptyFacts DEF Final
    <3> QED
      BY <2>3, <3>1, <3>2 DEF Found
  <2> QED
    BY <2>1, <2>2, <2>3
<1>4. IsSeq(<<last>>) /\ Len(body) \in Nat
  BY <1>1, OneOnTop, EmptyFacts, SeqFacts
<1>5. Stacks(body \o <<last>>, w, <<>>)[Len(body) + 1] = Stacks(body, w, <<>>)[Len(body) + 1]
  <2> HIDE DEF body, last, w, s
  <2> QED
    BY <1>1, <1>4, StacksConcat
<1> QED
  BY <1>1, <1>3, <1>5 DEF Final

-----------------------------------------------------------------------------
(***************************************************************************)
(* The values on the stacks.  A loop works through a text, a function's    *)
(* whole block or the code of main's statement: nothing is on main's stack *)
(* where a statement's code begins.  The record of the loop on top holds   *)
(* what the text leaves so far, one that waits for a call what is below    *)
(* the arguments the callee got.                                           *)
(***************************************************************************)
Inside(l, i) == i \in 1 .. Size /\ ~IsTag(i) /\ InStmt(l, i)

MainText(l) == IF Inside(l, NextStmt(l)) THEN CodeAt(NextStmt(l)) ELSE <<>>
MainMark(l) == IF Inside(l, NextStmt(l)) THEN l.ip - Place[NextStmt(l)].ip + 1 ELSE 1

Text(i, l) == IF i = 1 THEN MainText(l) ELSE Code(l)
Mark(i, l) == IF i = 1 THEN MainMark(l) ELSE l.ip

StackIn(i, l, ar, vs) == Stacks(Text(i, l), World(ar.args, vs, module, src), <<>>)

OnTop(i, l, ar, vs) == ar.tmps = StackIn(i, l, ar, vs)[Mark(i, l)]

Calls(c, k, callee, n) == /\ k \in 1 .. Len(c) /\ c[k].op = "CALL"
                          /\ module.labels[c[k].n] = callee /\ module.functions[c[k].n] = n

Waits(i, l, ar, vs, callee, args) ==
    /\ Calls(Text(i, l), Mark(i, l) - 1, callee, Len(args))
    /\ StackIn(i, l, ar, vs)[Mark(i, l) - 1] = ar.tmps \o args

ValueOk(i, ls, rs, vs) ==
    IF i = Len(rs) THEN OnTop(i, ls[i], rs[i], vs)
    ELSE Waits(i, ls[i], rs[i], vs, ls[i + 1].block, rs[i + 1].args)

ValuesOk(ls, rs, vs) == \A i \in 1 .. Len(rs) : ValueOk(i, ls, rs, vs)

LEMMA MarkInside ==
    ASSUME Ready, NEW l, IsLoop(l), NEW i, Inside(l, i)
    PROVE  NextStmt(l) = i /\ MainText(l) = CodeAt(i) /\ MainMark(l) = l.ip - Place[i].ip + 1
<1>1. NextStmt(l) = i
  BY NextInStmt DEF Inside
<1> QED
  BY <1>1 DEF MainText, MainMark

LEMMA MarkOutside ==
    ASSUME NEW l, ~Inside(l, NextStmt(l))
    PROVE  MainText(l) = <<>> /\ MainMark(l) = 1
BY DEF MainText, MainMark

\* Where nothing is on main's stack.
Fresh(l) == MainMark(l) = 1 /\ Len(MainText(l)) \in Nat

LEMMA FreshPlace ==
    ASSUME Ready, NEW i \in 1 .. (Size + 1)
    PROVE  Fresh(Place[i])
<1>1. Pos(Place[i], i) /\ IsLoop(Place[i])
  BY PosAt
<1>2. NextStmt(Place[i]) = i
  BY <1>1, NextAtPos
<1>3. CASE Inside(Place[i], i)
  <2>1. i \in 1 .. Size /\ ~IsTag(i)
    BY <1>3 DEF Inside
  <2>2. Len(CodeAt(i)) \in Nat
    BY <2>1, StmtPlace
  <2>3. Place[i].ip \in Nat
    BY PlaceFacts
  <2> QED
    BY <1>1, <1>3, <2>2, <2>3, MarkInside DEF Fresh
<1>4. CASE ~Inside(Place[i], i)
  BY <1>2, <1>4, MarkOutside, EmptyFacts DEF Fresh
<1> QED
  BY <1>3, <1>4

LEMMA FreshTag ==
    ASSUME Ready, NEW i \in 1 .. Size, IsTag(i), NEW l, OnTag(l, i)
    PROVE  Fresh(l)
<1>1. NextStmt(l) = i
  BY NextAtTag
<1>2. ~Inside(l, i)
  BY DEF Inside
<1> QED
  BY <1>1, <1>2, MarkOutside, EmptyFacts DEF Fresh

LEMMA FreshHead ==
    ASSUME Ready, NEW l, IsLoop(l), InHead(l)
    PROVE  Fresh(l) /\ NextStmt(l) = 1
<1>1. Pos(l, 1)
  BY DEF Pos
<1>2. NextStmt(l) = 1
  BY <1>1, NextAtPos
<1>3. Place[1].ip = HeadLen(src) + 1 /\ HeadLen(src) \in Nat
  BY HeadFacts
<1>4. ~Inside(l, 1)
  <2> SUFFICES ASSUME Inside(l, 1) PROVE FALSE
    OBVIOUS
  <2>1. l.ip \in Place[1].ip .. (Place[1].ip + Len(CodeAt(1)) - 1) /\ l.ip \in 1 .. HeadLen(src)
    BY DEF Inside, InStmt, InHead
  <2> HIDE DEF Inside
  <2>2. l.ip >= HeadLen(src) + 1 /\ l.ip <= HeadLen(src) /\ l.ip \in Int
    BY <1>3, <2>1
  <2> QED
    BY <1>3, <2>2
<1> QED
  BY <1>2, <1>4, MarkOutside, EmptyFacts DEF Fresh

\* Main is outside the statements' code where its stack is empty.
LEMMA FreshOr ==
    ASSUME Ready, NEW l, IsLoop(l), NEW i, Pos(l, i)
    PROVE  Inside(l, i) \/ Fresh(l)
<1>1. Size \in Nat
  BY ReadyFacts
<1>2. CASE i = 1 /\ InHead(l)
  BY <1>2, FreshHead
<1>3. CASE i \in 1 .. Size /\ IsTag(i) /\ OnTag(l, i)
  BY <1>3, FreshTag
<1>4. CASE i \in 1 .. Size /\ ~IsTag(i) /\ InStmt(l, i)
  BY <1>4 DEF Inside
<1>5. CASE i = Size + 1 /\ l = Place[i]
  <2>1. i \in 1 .. (Size + 1)
    BY <1>1, <1>5
  <2> QED
    BY <1>5, <2>1, FreshPlace
<1> QED
  BY <1>2, <1>3, <1>4, <1>5 DEF Pos

LEMMA FreshTop ==
    ASSUME NEW l, Fresh(l), NEW ar, NEW vs
    PROVE  OnTop(1, l, ar, vs) <=> ar.tmps = <<>>
<1> DEFINE w == World(ar.args, vs, module, src)
<1>1. Text(1, l) = MainText(l) /\ Mark(1, l) = 1
  BY DEF Text, Mark, Fresh
<1>2. Stacks(MainText(l), w, <<>>)[1] = <<>>
  <2> HIDE DEF w
  <2> QED
    BY StacksFacts DEF Fresh
<1> QED
  BY <1>1, <1>2 DEF OnTop, StackIn

\* The text of the loop on top, and how it goes on.
LEMMA TopText ==
    ASSUME Ready, LoopsOk(loops), ~Ended(Loop), NEW m, Pos(loops[1], m),
           Len(loops) > 1 \/ Fetched.op \in Pushing,
           NEW L, L = Len(loops)
    PROVE  /\ Mark(L, Loop) \in 1 .. Len(Text(L, Loop)) /\ Len(Text(L, Loop)) \in Nat
           /\ Text(L, Loop)[Mark(L, Loop)] = Fetched
           /\ Text(L, Stepped) = Text(L, Loop) /\ Mark(L, Stepped) = Mark(L, Loop) + 1
           /\ L = 1 => Pos(Stepped, m)
<1>1. /\ L \in Nat /\ L > 0 /\ IsLoop(Loop) /\ Loop = loops[L]
  BY TopLoop DEF Ready
<1>2. /\ Loop.ip \in Nat /\ Loop.ip >= 1 /\ Loop.ip <= Len(Code(Loop)) /\ Len(Code(Loop)) \in Nat
  BY <1>1, LoopFacts
<1>3. Stepped = NextOf(Loop) /\ Stepped.ip = Loop.ip + 1 /\ Stepped.block = Loop.block
  BY DEF Stepped, NextOf
<1>4. CASE L # 1
  <2>1. Text(L, Loop) = Code(Loop) /\ Mark(L, Loop) = Loop.ip
    BY <1>4 DEF Text, Mark
  <2>2. Text(L, Stepped) = Code(Loop) /\ Mark(L, Stepped) = Loop.ip + 1
    BY <1>3, <1>4 DEF Text, Mark, Code
  <2> QED
    BY <1>2, <1>4, <2>1, <2>2 DEF Fetched
<1>5. CASE L = 1
  <2>1. Pos(Loop, m) /\ Fetched.op \in Pushing
    BY <1>1, <1>5
  <2>2. Inside(Loop, m)
    <3>1. ~InHead(Loop)
      <4>1. InHead(Loop) => Fetched.op \in {"LABEL", "DEF"}
        BY <1>1, HeadStep DEF Fetched
      <4> QED
        BY <2>1, <4>1 DEF Pushing
    <3>2. ~(m \in 1 .. Size /\ IsTag(m) /\ OnTag(Loop, m))
      <4> SUFFICES ASSUME m \in 1 .. Size, IsTag(m), OnTag(Loop, m) PROVE FALSE
        OBVIOUS
      <4>1. Fetched = Named("LABEL", src.stmts[m].n, m)
        BY <1>1, TagStep DEF Fetched
      <4> QED
        BY <2>1, <4>1 DEF Named, Pushing
    <3>3. Loop # Place[Size + 1]
      BY NextAtEnd
    <3> QED
      BY <2>1, <3>1, <3>2, <3>3 DEF Pos, Inside
  <2> DEFINE k == Loop.ip - Place[m].ip + 1
  <2>3. m \in 1 .. Size /\ ~IsTag(m) /\ InStmt(Loop, m)
    BY <2>2 DEF Inside
  <2>4. /\ k \in 1 .. Len(CodeAt(m)) /\ Fetched = CodeAt(m)[k]
        /\ k = Len(CodeAt(m)) => CodeAt(m)[k] = LastOf(src.stmts[m], m)
    BY <1>1, <2>3, InStmtFacts DEF Fetched
  <2>5. Len(CodeAt(m)) \in Nat /\ IsCodeOf(CodeAt(m), src.stmts[m], m)
    BY <2>3, StmtPlace
  <2>6. k < Len(CodeAt(m))
    <3>1. CodeAt(m)[Len(CodeAt(m))].op \in {"STORE", "WRITE", "JIT", "JUMP"}
      BY <2>5 DEF IsCodeOf
    <3>2. k # Len(CodeAt(m))
      BY <2>1, <2>4, <3>1 DEF Pushing
    <3> HIDE DEF k
    <3> QED
      BY <2>4, <2>5, <3>2
  <2>7. InStmt(Stepped, m)
    BY <1>1, <1>3, <2>3, <2>6, StmtStep
  <2>8. IsLoop(Stepped)
    <3>1. Stepped.ip \in 1 .. (Len(Code(Stepped)) + 1)
      BY SMTT(60), <1>2, <1>3 DEF Code
    <3>2. Loop.block \in 1 .. Len(module.blocks)
      BY <1>1, LoopFacts
    <3> QED
      BY <1>3, <3>1, <3>2 DEF IsLoop, Stepped
  <2>9. Inside(Stepped, m)
    BY <2>3, <2>7 DEF Inside
  <2>10. /\ MainText(Loop) = CodeAt(m) /\ MainMark(Loop) = k
         /\ MainText(Stepped) = CodeAt(m) /\ MainMark(Stepped) = Stepped.ip - Place[m].ip + 1
    BY <1>1, <2>2, <2>8, <2>9, MarkInside
  <2>11. Place[m].ip \in Nat
    <3>1. m \in 1 .. (Size + 1)
      BY <2>3, ReadyFacts
    <3> QED
      BY <3>1, PlaceFacts
  <2>12. Stepped.ip - Place[m].ip + 1 = k + 1
    BY SMTT(60), <1>2, <1>3, <2>11
  <2>13. Pos(Stepped, m)
    BY <2>3, <2>7 DEF Pos
  <2> HIDE DEF k
  <2> QED
    BY <1>5, <2>4, <2>5, <2>10, <2>12, <2>13 DEF Text, Mark
<1> QED
  BY <1>4, <1>5

-----------------------------------------------------------------------------
(***************************************************************************)
(* What a step does to the values.                                         *)
(***************************************************************************)

\* Only the loop and the record on top change.
LEMMA TopKept ==
    ASSUME NEW ls, NEW rs, NEW vs, ValuesOk(ls, rs, vs), Len(rs) \in Nat, Len(rs) > 0,
           NEW ms, NEW qs, Len(qs) = Len(rs),
           \A i \in 1 .. (Len(rs) - 1) : ms[i] = ls[i] /\ qs[i] = rs[i],
           ms[Len(rs)].block = ls[Len(rs)].block, qs[Len(rs)].args = rs[Len(rs)].args,
           OnTop(Len(rs), ms[Len(rs)], qs[Len(rs)], vs)
    PROVE  ValuesOk(ms, qs, vs)
<1> SUFFICES ASSUME NEW i \in 1 .. Len(rs) PROVE ValueOk(i, ms, qs, vs)
  BY DEF ValuesOk
<1>1. CASE i = Len(rs)
  BY <1>1 DEF ValueOk
<1>2. CASE i # Len(rs)
  <2>1. i \in 1 .. (Len(rs) - 1) /\ (i + 1 = Len(rs) \/ i + 1 \in 1 .. (Len(rs) - 1))
    BY <1>2
  <2>2. ms[i] = ls[i] /\ qs[i] = rs[i]
    BY <2>1
  <2>3. ms[i + 1].block = ls[i + 1].block /\ qs[i + 1].args = rs[i + 1].args
    BY <2>1
  <2>4. ValueOk(i, ls, rs, vs)
    BY DEF ValuesOk
  <2>5. Waits(i, ls[i], rs[i], vs, ls[i + 1].block, rs[i + 1].args)
    BY <1>2, <2>4 DEF ValueOk
  <2>6. Waits(i, ms[i], qs[i], vs, ms[i + 1].block, qs[i + 1].args)
    BY <2>2, <2>3, <2>5
  <2> QED
    BY <1>2, <2>6 DEF ValueOk
<1> QED
  BY <1>1, <1>2

LEMMA OneValue ==
    ASSUME NEW ms, NEW qs, Len(qs) = 1, NEW vs, OnTop(1, ms[1], qs[1], vs)
    PROVE  ValuesOk(ms, qs, vs)
BY DEF ValuesOk, ValueOk

\* What holds while a program runs.
Going(m) == /\ Ready /\ Runs(loops, ars) /\ Pos(loops[1], m)
            /\ ValuesOk(loops, ars, vals)

Here0 == World(Record.args, vals, module, src)

LEMMA GoingFacts ==
    ASSUME NEW m, Going(m), ~Ended(Loop)
    PROVE  /\ Ready /\ Matches(module, src) /\ LoopsOk(loops) /\ RecordsOk(loops, ars)
           /\ Runs(loops, ars)
           /\ Len(loops) \in Nat /\ Len(loops) > 0 /\ Len(ars) = Len(loops) /\ IsSeq(ars)
           /\ IsRecord(Record) /\ Record = ars[Len(ars)] /\ Loop = loops[Len(loops)]
           /\ IsLoop(Loop) /\ IsLoop(Stepped) /\ Stepped = NextOf(Loop)
           /\ OnTop(Len(loops), Loop, Record, vals)
           /\ Takes(Fetched, module.functions) \in 0 .. Len(Record.tmps) /\ Len(Record.tmps) \in Nat
<1>1. Ready /\ Matches(module, src) /\ LoopsOk(loops) /\ RecordsOk(loops, ars) /\ Runs(loops, ars)
  BY DEF Going, Ready, Runs
<1>2. /\ Len(loops) \in Nat /\ Len(loops) > 0 /\ IsLoop(Loop) /\ Loop = loops[Len(loops)]
  BY <1>1, TopLoop
<1>3. /\ Len(ars) = Len(loops) /\ IsSeq(ars) /\ IsRecord(Record) /\ Record = ars[Len(ars)]
      /\ Takes(Fetched, module.functions) \in 0 .. Len(Record.tmps) /\ Len(Record.tmps) \in Nat
      /\ IsLoop(Stepped)
  BY <1>1, TopFacts
<1>4. OnTop(Len(loops), Loop, Record, vals)
  <2>1. ValueOk(Len(loops), loops, ars, vals)
    BY <1>2, <1>3 DEF Going, ValuesOk
  <2> QED
    BY <1>2, <1>3, <2>1 DEF ValueOk
<1> QED
  BY <1>1, <1>2, <1>3, <1>4 DEF Stepped, NextOf

\* An instruction of a text, but CALL and RET.
LEMMA StepValues ==
    ASSUME NEW m, Going(m), ~Ended(Loop), Len(loops) > 1 \/ Fetched.op \in Pushing,
           NEW ar, ar.args = Record.args, ar.tmps = After(Fetched, Record.tmps, Here0)
    PROVE  OnTop(Len(loops), Stepped, ar, vals)
<1> DEFINE L == Len(loops)
           c == Text(L, Loop)
           k == Mark(L, Loop)
           st == Stacks(c, Here0, <<>>)
<1>1. Ready /\ LoopsOk(loops) /\ Pos(loops[1], m) /\ OnTop(L, Loop, Record, vals)
  BY GoingFacts DEF Going
<1>2. /\ k \in 1 .. Len(c) /\ Len(c) \in Nat /\ c[k] = Fetched
      /\ Text(L, Stepped) = c /\ Mark(L, Stepped) = k + 1
  BY <1>1, TopText
<1> HIDE DEF c, k
<1>3. Record.tmps = st[k]
  BY <1>1 DEF OnTop, StackIn, c, k, Here0
<1>4. st[k + 1] = After(c[k], st[k], Here0)
  BY <1>2, StacksFacts
<1> HIDE DEF st
<1>5. ar.tmps = st[k + 1]
  BY <1>2, <1>3, <1>4
<1> QED
  BY <1>2, <1>5 DEF OnTop, StackIn, st, Here0

LEMMA StepValuesOk ==
    ASSUME NEW m, Going(m), ~Ended(Loop), NEW ar, ar.args = Record.args,
           OnTop(Len(loops), Stepped, ar, vals)
    PROVE  /\ ValuesOk(Advanced, Append(Callers, ar), vals)
           /\ ar = Record => ValuesOk(Advanced, ars, vals)
<1>1. /\ LoopsOk(loops) /\ Len(loops) \in Nat /\ Len(loops) > 0 /\ Len(ars) = Len(loops) /\ IsSeq(ars)
      /\ Record = ars[Len(ars)] /\ Loop = loops[Len(loops)]
  BY GoingFacts
<1>2. /\ Advanced[Len(loops)] = Stepped
      /\ \A i \in 1 .. (Len(loops) - 1) : Advanced[i] = loops[i]
  BY <1>1, AdvancedFacts
<1>3. Stepped.block = loops[Len(loops)].block
  BY <1>1 DEF Stepped
<1>4. ValuesOk(loops, ars, vals)
  BY DEF Going
<1>5. ValuesOk(Advanced, Append(Callers, ar), vals)
  <2> DEFINE qs == Append(Callers, ar)
  <2>1. Len(qs) = Len(ars) /\ qs[Len(ars)] = ar /\ \A i \in 1 .. (Len(ars) - 1) : qs[i] = ars[i]
    BY <1>1, TopReplaced DEF Callers
  <2> HIDE DEF qs
  <2>2. ValuesOk(Advanced, qs, vals)
    BY <1>1, <1>2, <1>3, <1>4, <2>1, TopKept
  <2> QED
    BY <2>2 DEF qs
<1>6. ASSUME ar = Record PROVE ValuesOk(Advanced, ars, vals)
  BY <1>1, <1>2, <1>3, <1>4, <1>6, TopKept
<1> QED
  BY <1>5, <1>6

\* The value the runtime pushes.
Pushes(n, v) ==
    CASE Fetched.op = "LI"   -> n = 0 /\ v = [op |-> "lit"]
      [] Fetched.op = "LOAD" -> n = 0 /\ v = [op |-> "from", stmt |-> vals[Fetched.n]]
      [] Fetched.op = "READ" -> n = 0 /\ v = [op |-> "read"]
      [] Fetched.op = "ARG"  -> n = 0 /\ v = Record.args[Fetched.ix]
      [] Fetched.op = "OPR"  -> n = Fetched.ix /\ v = Operate(Fetched.ix)

LEMMA PushedValue ==
    ASSUME Fetched.op \in {"LI", "LOAD", "READ", "ARG", "OPR"}, NEW n, NEW v, Pushes(n, v)
    PROVE  n = Takes(Fetched, module.functions) /\ v = Pushed(Fetched, Record.tmps, Here0)
<1>1. CASE Fetched.op = "LI"
  <2>1. n = 0 /\ v = [op |-> "lit"]
    BY <1>1, Zenon DEF Pushes
  <2> QED
    BY <1>1, <2>1 DEF Takes, Popping1, Pushed
<1>2. CASE Fetched.op = "LOAD"
  <2>1. n = 0 /\ v = [op |-> "from", stmt |-> vals[Fetched.n]]
    BY <1>2, Zenon DEF Pushes
  <2> QED
    BY <1>2, <2>1 DEF Takes, Popping1, Pushed, Here0, World
<1>3. CASE Fetched.op = "READ"
  <2>1. n = 0 /\ v = [op |-> "read"]
    BY <1>3, Zenon DEF Pushes
  <2> QED
    BY <1>3, <2>1 DEF Takes, Popping1, Pushed
<1>4. CASE Fetched.op = "ARG"
  <2>1. n = 0 /\ v = Record.args[Fetched.ix]
    BY <1>4, Zenon DEF Pushes
  <2> QED
    BY <1>4, <2>1 DEF Takes, Popping1, Pushed, Here0, World
<1>5. CASE Fetched.op = "OPR"
  <2>1. n = Fetched.ix /\ v = Operate(Fetched.ix)
    BY <1>5, Zenon DEF Pushes
  <2>2. \A i : Popped(i) = Upper(Record.tmps, i)
    BY DEF Popped, Upper
  <2> QED
    BY <1>5, <2>1, <2>2 DEF Takes, Pushed, Operate
<1> QED
  BY <1>1, <1>2, <1>3, <1>4, <1>5

LEMMA ReplaceValues ==
    ASSUME NEW m, Going(m), ~Ended(Loop), Fetched.op \in {"LI", "LOAD", "READ", "ARG", "OPR"},
           NEW n, NEW v, Pushes(n, v)
    PROVE  /\ ValuesOk(Advanced, Append(Callers, pushTmp(Popping(n), v)), vals)
           /\ Len(loops) = 1 => Pos(Stepped, m)
<1> DEFINE ar == pushTmp(Popping(n), v)
<1>1. n = Takes(Fetched, module.functions) /\ v = Pushed(Fetched, Record.tmps, Here0)
  BY PushedValue
<1>2. /\ IsRecord(Record) /\ n \in 0 .. Len(Record.tmps) /\ Fetched.op \in Pushing
      /\ Ready /\ LoopsOk(loops) /\ Pos(loops[1], m)
  BY <1>1, GoingFacts DEF Pushing, Going
<1>3. IsRecord(Popping(n)) /\ Popping(n).args = Record.args /\ Popping(n).tmps = Lower(Record.tmps, n)
  BY <1>2, PoppingFacts DEF IsRecord, Popping, Below, Lower
<1>4. ar.args = Record.args /\ ar.tmps = Append(Lower(Record.tmps, n), v)
  BY <1>3 DEF IsRecord, pushTmp
<1>5. ar.tmps = After(Fetched, Record.tmps, Here0)
  BY <1>1, <1>2, <1>4 DEF After, TakesIn, Here0, World
<1> HIDE DEF ar
<1>6. OnTop(Len(loops), Stepped, ar, vals)
  BY <1>2, <1>4, <1>5, StepValues
<1>7. ValuesOk(Advanced, Append(Callers, ar), vals)
  BY <1>4, <1>6, StepValuesOk
<1>8. Len(loops) = 1 => Pos(Stepped, m)
  BY <1>2, GoingFacts, TopText
<1> QED
  BY <1>7, <1>8 DEF ar

\* LABEL and DEF in a function.
LEMMA PassValues ==
    ASSUME NEW m, Going(m), ~Ended(Loop), Len(loops) > 1, Fetched.op \in {"LABEL", "DEF"}
    PROVE  ValuesOk(Advanced, ars, vals)
<1>1. IsRecord(Record) /\ IsSeq(Record.tmps)
  BY GoingFacts DEF IsRecord
<1>2. TakesIn(Fetched, Here0) = 0 /\ Fetched.op \notin Pushing
  BY DEF TakesIn, Takes, Popping1, Pushing
<1>3. Record.tmps = After(Fetched, Record.tmps, Here0)
  BY <1>1, <1>2, NoneOnTop DEF After
<1>4. OnTop(Len(loops), Stepped, Record, vals)
  BY <1>3, StepValues
<1> QED
  BY <1>4, StepValuesOk

\* The values of a call and what is below them.
LEMMA Rejoined ==
    ASSUME NEW st, IsSeq(st), NEW n \in 0 .. Len(st)
    PROVE  st = Lower(st, n) \o Upper(st, n) /\ Len(Upper(st, n)) = n
<1>1. Len(st) \in Nat
  BY SeqFacts
<1> DEFINE a == Lower(st, n)
           b == Upper(st, n)
           k == Len(st) - n
<1>2. k \in Nat /\ k <= Len(st) /\ Len(st) = k + n /\ n \in Nat
  BY <1>1
<1>3. a = SubSeq(st, 1, k) /\ b = SubSeq(st, k + 1, Len(st))
  BY DEF Lower, Upper
<1> HIDE DEF a, b, k
<1>4. st \in Seq(RanOf(st))
  BY DEF IsSeq
<1> DEFINE R == RanOf(st)
<1> HIDE DEF R
<1>5. /\ a \in Seq(R) /\ Len(a) = k /\ \A i \in 1 .. k : a[i] = st[i]
      /\ b \in Seq(R) /\ Len(b) = n /\ \A i \in 1 .. n : b[i] = st[k + i]
  <2>1. st \in Seq(R)
    BY <1>4 DEF R
  <2>2. a \in Seq(R) /\ Len(a) = k /\ \A i \in 1 .. k : a[i] = st[i]
    BY <1>1, <1>2, <1>3, <2>1
  <2>3. b \in Seq(R) /\ Len(b) = n
    BY <1>1, <1>2, <1>3, <2>1
  <2>4. \A i \in 1 .. n : b[i] = st[(k + 1) + i - 1] /\ (k + 1) + i - 1 = k + i
    BY <1>1, <1>2, <1>3, <2>1
  <2> QED
    BY <2>2, <2>3, <2>4
<1>6. IsSeq(a) /\ IsSeq(b)
  BY <1>5, SeqOwn
<1> DEFINE ab == a \o b
<1>7. /\ IsSeq(ab) /\ Len(ab) = Len(st) /\ \A i \in 1 .. k : ab[i] = st[i]
      /\ \A i \in 1 .. n : ab[k + i] = st[k + i]
  <2>1. /\ IsSeq(ab) /\ Len(ab) = Len(a) + Len(b) /\ \A i \in 1 .. Len(a) : ab[i] = a[i]
        /\ \A i \in 1 .. Len(b) : ab[Len(a) + i] = b[i]
    BY <1>6, ConcatFacts
  <2> HIDE DEF ab
  <2> QED
    BY <1>2, <1>5, <2>1
<1> HIDE DEF ab
<1>8. ASSUME NEW i \in 1 .. Len(st) PROVE ab[i] = st[i]
  <2>1. CASE i <= k
    BY <1>2, <1>7, <2>1
  <2>2. CASE i > k
    <3>1. i - k \in 1 .. n /\ k + (i - k) = i
      BY <1>1, <1>2, <2>2
    <3> QED
      BY <1>7, <3>1
  <2> QED
    BY <1>1, <1>2, <2>1, <2>2
<1>9. ab = st
  BY SMTT(60), <1>7, <1>8, SameSeq
<1> QED
  BY <1>5, <1>9 DEF ab, a, b

\* The records of a call.
Count  == module.functions[Fetched.n]
Under  == Popping(Count)
Called == [NewRecord EXCEPT !.args = Arguments(Count)]

LEMMA CallRecords ==
    ASSUME NEW m, Going(m), ~Ended(Loop), Fetched.op = "CALL"
    PROVE  /\ Under.args = Record.args /\ Called.tmps = <<>> /\ Len(Called.args) = Count
           /\ Record.tmps = Under.tmps \o Called.args
<1> DEFINE cnt == Count
           ar  == Under
           new == Called
<1>0. cnt = module.functions[Fetched.n] /\ ar = Popping(cnt) /\ new = [NewRecord EXCEPT !.args = Arguments(cnt)]
  BY DEF Count, Under, Called
<1> HIDE DEF cnt, ar, new
<1>1. /\ IsRecord(Record) /\ Takes(Fetched, module.functions) \in 0 .. Len(Record.tmps)
  BY GoingFacts
<1>2. cnt \in 0 .. Len(Record.tmps)
  BY <1>0, <1>1 DEF Takes
<1>3. IsRecord(Popping(cnt)) /\ Popping(cnt).args = Record.args /\ Len(Popped(cnt)) = cnt
  BY <1>1, <1>2, PoppingFacts
<1>4. ar.tmps = Lower(Record.tmps, cnt)
  BY <1>0, <1>1 DEF IsRecord, Popping, Below, Lower
<1>5. new = [args |-> Popped(cnt), tmps |-> <<>>]
  BY <1>0 DEF NewRecord, Arguments
<1>6. new.args = Upper(Record.tmps, cnt) /\ new.tmps = <<>>
  BY <1>5 DEF Popped, Upper
<1>7. IsSeq(Record.tmps)
  BY <1>1 DEF IsRecord
<1>8. Record.tmps = Lower(Record.tmps, cnt) \o Upper(Record.tmps, cnt)
  BY <1>2, <1>7, Rejoined
<1>9. Len(new.args) = cnt
  BY <1>3, <1>5
<1> QED
  BY <1>0, <1>3, <1>4, <1>6, <1>8, <1>9 DEF cnt, ar, new

\* CALL: the caller waits, the callee's stack is empty.
LEMMA CallValues ==
    ASSUME NEW m, Going(m), ~Ended(Loop), Fetched.op = "CALL",
           NEW cnt, cnt = module.functions[Fetched.n],
           NEW ar, ar = Popping(cnt), NEW new, new = [NewRecord EXCEPT !.args = Arguments(cnt)],
           NEW callee, callee = [block |-> module.labels[Fetched.n], ip |-> 1]
    PROVE  /\ ValuesOk(Append(Advanced, callee), Append(Append(Callers, ar), new), vals)
           /\ Len(loops) = 1 => Pos(Stepped, m)
<1> DEFINE L  == Len(loops)
           c  == Text(L, Loop)
           k  == Mark(L, Loop)
           ms == Append(Advanced, callee)
           q  == Append(Callers, ar)
           qs == Append(q, new)
<1>1. /\ LoopsOk(loops) /\ RecordsOk(loops, ars) /\ L \in Nat /\ L > 0 /\ Len(ars) = L
      /\ IsSeq(ars) /\ IsRecord(Record)
      /\ Record = ars[L] /\ Loop = loops[L] /\ OnTop(L, Loop, Record, vals) /\ Matches(module, src)
      /\ Ready /\ Pos(loops[1], m) /\ Fetched.op \in Pushing /\ Stepped = NextOf(Loop)
  BY GoingFacts DEF Going, Pushing
<1>2. /\ k \in 1 .. Len(c) /\ Len(c) \in Nat /\ c[k] = Fetched
      /\ Text(L, Stepped) = c /\ Mark(L, Stepped) = k + 1
  BY <1>1, TopText
<1>3. Len(loops) = 1 => Pos(Stepped, m)
  BY <1>1, TopText
<1>4. /\ ar.args = Record.args /\ new.tmps = <<>> /\ Len(new.args) = cnt
      /\ Record.tmps = ar.tmps \o new.args
  <2>1. cnt = Count /\ ar = Under /\ new = Called
    BY DEF Count, Under, Called
  <2> QED
    BY <2>1, CallRecords
<1>5. Record.tmps = ar.tmps \o new.args
  BY <1>4
<1>6. /\ IsSeq(Advanced) /\ Len(Advanced) = L /\ Advanced[L] = Stepped
      /\ \A i \in 1 .. (L - 1) : Advanced[i] = loops[i]
  BY SMTT(60), <1>1, AdvancedFacts
<1>7. Stacks(c, World(ar.args, vals, module, src), <<>>)[k] = ar.tmps \o new.args
  BY <1>1, <1>4, <1>5 DEF OnTop, StackIn
<1>8. IsSeq(q) /\ Len(q) = L /\ q[L] = ar /\ \A i \in 1 .. (L - 1) : q[i] = ars[i]
  BY <1>1, TopReplaced DEF Callers
<1>9. Stepped.block = loops[L].block
  BY <1>1 DEF NextOf
<1>10. k - 1 + 1 = k /\ (k + 1) - 1 = k
  BY <1>2
<1> HIDE DEF c, k, L, q
<1>11. /\ ms[L + 1] = callee /\ ms[L] = Stepped
       /\ \A i \in 1 .. (L - 1) : ms[i] = loops[i]
  <2>1. DOMAIN Advanced = 1 .. L
    BY <1>6, SeqFacts
  <2>2. ms[L + 1] = callee /\ \A i \in 1 .. L : ms[i] = Advanced[i]
    BY <1>6, <2>1, AppendFacts
  <2> QED
    BY <1>1, <1>6, <2>2
<1>12. /\ Len(qs) = L + 1 /\ qs[L + 1] = new /\ qs[L] = ar
       /\ \A i \in 1 .. (L - 1) : qs[i] = ars[i]
  <2>1. DOMAIN q = 1 .. L
    BY <1>8, SeqFacts
  <2>2. Len(qs) = L + 1 /\ qs[L + 1] = new /\ \A i \in 1 .. L : qs[i] = q[i]
    BY SMTT(60), <1>8, <2>1, AppendFacts
  <2> QED
    BY <1>1, <1>8, <2>2
<1> HIDE DEF ms, qs
<1>13. OnTop(L + 1, callee, new, vals)
  <2>1. L + 1 # 1 /\ callee.ip = 1 /\ callee.block = module.labels[Fetched.n]
    BY <1>1
  <2>2. Text(L + 1, callee) = Code(callee) /\ Mark(L + 1, callee) = 1
    BY <2>1 DEF Text, Mark
  <2>3. Len(Code(callee)) \in Nat
    <3>1. Fetched.n \in Idents /\ module.functions[Fetched.n] \in Nat
      BY <1>1, TopFacts
    <3>2. module.labels[Fetched.n] \in 1 .. Known /\ Known <= Len(module.blocks)
      BY <1>1, <3>1, CalleeBlock
    <3>3. callee.block \in 1 .. Len(module.blocks)
      BY <1>1, <2>1, <3>2, ReadyFacts
    <3> QED
      BY <1>1, <3>3, BlockFacts DEF Code
  <2> DEFINE w == World(new.args, vals, module, src)
  <2>4. Stacks(Code(callee), w, <<>>)[1] = <<>>
    <3> HIDE DEF w
    <3> QED
      BY SMTT(60), <2>3, StacksFacts
  <2> QED
    BY <1>4, <2>2, <2>4 DEF OnTop, StackIn
<1>14. Waits(L, Stepped, ar, vals, callee.block, new.args)
  <2>1. Mark(L, Stepped) - 1 = k
    BY SMTT(60), <1>2, <1>10
  <2>2. Calls(c, k, callee.block, Len(new.args))
    BY <1>2, <1>4 DEF Calls
  <2> QED
    BY <1>2, <1>7, <2>1, <2>2 DEF Waits, StackIn
<1>15. ASSUME NEW i \in 1 .. (L + 1) PROVE ValueOk(i, ms, qs, vals)
  <2>1. CASE i = L + 1
    BY <1>11, <1>12, <1>13, <2>1 DEF ValueOk
  <2>2. CASE i = L
    <3>1. i # Len(qs)
      BY <1>1, <1>12, <2>2
    <3> QED
      BY <1>11, <1>12, <1>14, <2>2, <3>1 DEF ValueOk
  <2>3. CASE i \in 1 .. (L - 1)
    <3>1. i # Len(qs) /\ i # Len(ars) /\ i \in 1 .. Len(ars)
      BY <1>1, <1>12, <2>3
    <3>2. ValueOk(i, loops, ars, vals)
      BY <3>1 DEF Going, ValuesOk
    <3>3. Waits(i, loops[i], ars[i], vals, loops[i + 1].block, ars[i + 1].args)
      BY <3>1, <3>2 DEF ValueOk
    <3>4. ms[i] = loops[i] /\ qs[i] = ars[i]
      BY <1>11, <1>12, <2>3
    <3>5. ms[i + 1].block = loops[i + 1].block /\ qs[i + 1].args = ars[i + 1].args
      <4>1. CASE i + 1 = L
        BY <1>1, <1>4, <1>9, <1>11, <1>12, <4>1
      <4>2. CASE i + 1 \in 1 .. (L - 1)
        BY <1>11, <1>12, <4>2
      <4>3. i + 1 = L \/ i + 1 \in 1 .. (L - 1)
        BY <1>1, <2>3
      <4> QED
        BY SMTT(60), <4>1, <4>2, <4>3
    <3>6. Waits(i, ms[i], qs[i], vals, ms[i + 1].block, qs[i + 1].args)
      BY <3>3, <3>4, <3>5
    <3> QED
      BY <3>1, <3>6 DEF ValueOk
  <2>4. i = L + 1 \/ i = L \/ i \in 1 .. (L - 1)
    BY <1>1
  <2> QED
    BY <2>1, <2>2, <2>3, <2>4
<1>16. ValuesOk(ms, qs, vals)
  BY <1>12, <1>15 DEF ValuesOk
<1> QED
  BY <1>3, <1>16 DEF ms, qs, q

\* Where a loop is in its text.
LEMMA MarkWhole ==
    ASSUME Ready, LoopsOk(loops), Len(loops) \in Nat, NEW n \in 1 .. Len(loops)
    PROVE  Mark(n, loops[n]) \in Int /\ Len(Text(n, loops[n])) \in Nat
<1>1. IsLoop(loops[n])
  BY DEF LoopsOk
<1>2. loops[n].ip \in Nat /\ Len(Code(loops[n])) \in Nat
  BY <1>1, LoopFacts
<1> DEFINE l == loops[n]
           i == NextStmt(l)
<1> HIDE DEF l
<1>3. MainMark(l) \in Int /\ Len(MainText(l)) \in Nat
  <2>1. CASE Inside(l, i)
    <3> HIDE DEF i
    <3>1. i \in 1 .. Size /\ ~IsTag(i)
      BY <2>1 DEF Inside
    <3>2. i \in 1 .. (Size + 1)
      BY <3>1, ReadyFacts
    <3>3. Place[i].ip \in Nat /\ Len(CodeAt(i)) \in Nat
      BY <3>1, <3>2, PlaceFacts, StmtPlace
    <3>4. l.ip \in Nat
      BY <1>2 DEF l
    <3>5. MainMark(l) = l.ip - Place[i].ip + 1 /\ MainText(l) = CodeAt(i)
      BY <2>1 DEF MainMark, MainText, i
    <3> QED
      BY <3>3, <3>4, <3>5
  <2>2. CASE ~Inside(l, i)
    BY <2>2, MarkOutside, EmptyFacts
  <2> QED
    BY <2>1, <2>2
<1> QED
  BY <1>2, <1>3 DEF Mark, Text, l

\* What the result of a call does to the caller's stack.
LEMMA AfterCall ==
    ASSUME NEW inst, inst.op = "CALL", NEW args, NEW vs, NEW a, IsSeq(a), NEW b, IsSeq(b),
           module.functions[inst.n] = Len(b)
    PROVE  After(inst, a \o b, World(args, vs, module, src))
               = Append(a, CallValue(src, module.labels[inst.n], b))
<1> DEFINE w  == World(args, vs, module, src)
           st == a \o b
<1>1. w.m = module /\ w.p = src
  BY DEF World
<1> HIDE DEF w
<1>2. TakesIn(inst, w) = Len(b)
  BY <1>1 DEF TakesIn, Takes
<1>3. Lower(st, Len(b)) = a /\ Upper(st, Len(b)) = b
  BY SplitFacts
<1> HIDE DEF st
<1>4. Pushed(inst, st, w) = CallValue(src, module.labels[inst.n], b)
  BY <1>1, <1>2, <1>3 DEF Pushed
<1>5. inst.op \in Pushing
  BY DEF Pushing
<1>6. After(inst, st, w) = Append(a, CallValue(src, module.labels[inst.n], b))
  BY <1>2, <1>3, <1>4, <1>5 DEF After
<1> QED
  BY <1>6 DEF st, w

\* A loop that waited has its result.
LEMMA WaitOver ==
    ASSUME Ready, LoopsOk(loops), Len(loops) \in Nat, NEW n \in 1 .. Len(loops),
           NEW ar, IsRecord(ar), NEW vs, NEW callee, NEW args, IsSeq(args),
           Waits(n, loops[n], ar, vs, callee, args),
           NEW new, new.args = ar.args, new.tmps = Append(ar.tmps, CallValue(src, callee, args))
    PROVE  OnTop(n, loops[n], new, vs)
<1> DEFINE w  == World(ar.args, vs, module, src)
           c  == Text(n, loops[n])
           k  == Mark(n, loops[n])
           st == Stacks(c, w, <<>>)
           x  == CallValue(src, callee, args)
<1>1. k \in Int /\ Len(c) \in Nat
  BY MarkWhole
<1>2. /\ k - 1 \in 1 .. Len(c) /\ c[k - 1].op = "CALL" /\ module.labels[c[k - 1].n] = callee
      /\ module.functions[c[k - 1].n] = Len(args)
      /\ st[k - 1] = ar.tmps \o args
  BY DEF Waits, Calls, StackIn
<1>3. IsSeq(ar.tmps)
  BY DEF IsRecord
<1> HIDE DEF c, k
<1>4. After(c[k - 1], ar.tmps \o args, w) = Append(ar.tmps, x)
  BY SMTT(60), <1>2, <1>3, AfterCall
<1>5. st[(k - 1) + 1] = After(c[k - 1], st[k - 1], w)
  <2> HIDE DEF w
  <2> QED
    BY <1>1, <1>2, StacksFacts
<1>6. (k - 1) + 1 = k
  BY <1>1
<1> HIDE DEF st, x
<1>7. st[k] = Append(ar.tmps, x)
  BY <1>2, <1>4, <1>5, <1>6
<1> QED
  BY <1>7 DEF OnTop, StackIn, st, c, k, w, x

\* What RET finds is the value of the call.
LEMMA RetFound ==
    ASSUME CallsMean, NEW m, Going(m), ~Ended(Loop), Fetched.op = "RET"
    PROVE  Len(loops) > 1 /\ Popped(1)[1] = CallValue(src, Loop.block, Record.args)
<1> DEFINE L == Len(loops)
           x == CallValue(src, Loop.block, Record.args)
           c == Code(Loop)
<1>1. /\ LoopsOk(loops) /\ L \in Nat /\ L > 0 /\ RecordsOk(loops, ars) /\ Matches(module, src)
      /\ OnTop(L, Loop, Record, vals) /\ Ready /\ IsLoop(Loop) /\ IsLoop(Stepped)
  BY GoingFacts
<1>2. L # 1 /\ (L > 1 => Ended(Stepped))
  BY <1>1, TopFacts
<1>3. L > 1
  <2>1. L \in Nat /\ L > 0 /\ L # 1
    BY <1>1, <1>2
  <2> HIDE DEF L
  <2> QED
    BY <2>1
<1>4. Stepped.ip = Loop.ip + 1 /\ Stepped.block = Loop.block
  BY DEF Stepped
<1>5. Stepped.ip = Len(Code(Stepped)) + 1 /\ Loop.ip \in Nat /\ Len(c) \in Nat
  BY <1>1, <1>2, <1>3, LoopFacts
<1>6. Code(Stepped) = c
  BY <1>4 DEF Code
<1>7. Loop.block \in 1 .. Known
  <2>1. Loop.block \in 1 .. Len(module.blocks) /\ Known \in Nat /\ ~(Loop.block > Known)
    BY <1>1, <1>2, TopLoop
  <2> QED
    BY <1>1, <2>1, ReadyFacts
<1>8. c = module.blocks[Loop.block]
  BY DEF Code
<1>9. Record.tmps = Stacks(c, World(Record.args, vals, module, src), <<>>)[Loop.ip]
  BY <1>1, <1>2 DEF OnTop, StackIn, Text, Mark
<1> HIDE DEF c, x
<1>10. Loop.ip = Len(c)
  BY <1>4, <1>5, <1>6
<1>11. Stacks(c, World(Record.args, vals, module, src), <<>>)[Len(c)] = <<x>>
  <2> DEFINE j == Loop.block
             args == Record.args
  <2>0. j \in 1 .. Known /\ c = module.blocks[j] /\ Ready
    BY <1>1, <1>7, <1>8
  <2> HIDE DEF j, args
  <2>1. Stacks(c, World(args, vals, module, src), <<>>)[Len(c)] = <<CallValue(src, j, args)>>
    BY <2>0, FuncValue
  <2> QED
    BY <2>1 DEF x, j, args
<1>12. Record.tmps = <<x>>
  BY <1>9, <1>10, <1>11
<1>13. Popped(1) = <<x>>
  <2>1. Popped(1) = SubSeq(<<x>>, 1, 1)
    BY <1>12 DEF Popped
  <2> QED
    BY <2>1
<1>14. Popped(1)[1] = x
  BY <1>13
<1> QED
  BY <1>3, <1>14 DEF x

LEMMA LastReplaced ==
    ASSUME NEW s, IsSeq(s), NEW n, n = Len(s), n > 0, NEW x, NEW t, t = [s EXCEPT ![n] = x]
    PROVE  Len(t) = n /\ t[n] = x /\ \A i \in 1 .. (n - 1) : t[i] = s[i]
<1>1. n \in Nat /\ DOMAIN s = 1 .. n
  BY SeqFacts
<1>2. n \in DOMAIN s
  BY <1>1
<1>3. Len(t) = Len(s) /\ t[n] = x /\ \A j \in DOMAIN s : j # n => t[j] = s[j]
  BY <1>2, ExceptFacts
<1> QED
  BY <1>1, <1>3

\* RET: what the caller has been waiting for.
LEMMA RetValues ==
    ASSUME CallsMean, NEW m, Going(m), ~Ended(Loop), Fetched.op = "RET",
           NEW v, v = Popped(1)[1],
           NEW qs, qs = [Callers EXCEPT ![Len(Callers)] = pushTmp(@, v)]
    PROVE  ValuesOk(Advanced, qs, vals) /\ Len(loops) > 1
<1> DEFINE L  == Len(loops)
           n  == L - 1
           x  == CallValue(src, Loop.block, Record.args)
           ar == pushTmp(ars[n], v)
<1>1. /\ LoopsOk(loops) /\ L \in Nat /\ L > 0 /\ Len(ars) = L /\ IsSeq(ars) /\ IsRecord(Record)
      /\ Record = ars[L] /\ Loop = loops[L] /\ Ready /\ RecordsOk(loops, ars)
  BY GoingFacts
<1>2. L > 1 /\ v = x
  BY RetFound
<1>3. n \in Nat /\ n >= 1 /\ n + 1 = L /\ n # L /\ n \in 1 .. L
  BY <1>1, <1>2
<1>4. /\ IsSeq(Callers) /\ Len(Callers) = n /\ \A i \in 1 .. n : Callers[i] = ars[i]
  BY <1>1, Dropped DEF Callers
<1>5. Advanced[L] = Stepped /\ \A i \in 1 .. (L - 1) : Advanced[i] = loops[i]
  BY <1>1, AdvancedFacts
<1>6. IsRecord(ars[n])
  BY <1>1, <1>3 DEF RecordsOk
<1>7. /\ \A i \in 1 .. n : Advanced[i] = loops[i]
      /\ \A i \in 1 .. (n - 1) : i \in 1 .. L /\ i + 1 \in 1 .. n /\ i # L /\ i # n /\ i \in 1 .. n
  BY <1>1, <1>3, <1>5
<1> HIDE DEF x, n, L
<1>8. qs = [Callers EXCEPT ![n] = ar]
  <2>1. Callers[n] = ars[n]
    BY <1>3, <1>4
  <2> QED
    BY <1>4, <2>1
<1>9. ar.args = ars[n].args /\ ar.tmps = Append(ars[n].tmps, x)
  BY <1>2, <1>6 DEF IsRecord, pushTmp
<1> HIDE DEF ar
<1>10. Len(qs) = n /\ qs[n] = ar /\ \A i \in 1 .. (n - 1) : qs[i] = ars[i]
  <2>2. n = Len(Callers) /\ n > 0
    BY <1>3, <1>4
  <2>3. Len(qs) = n /\ qs[n] = ar /\ \A i \in 1 .. (n - 1) : qs[i] = Callers[i]
    BY <1>4, <1>8, <2>2, LastReplaced
  <2> QED
    BY <1>4, <1>7, <2>3
<1>11. Waits(n, loops[n], ars[n], vals, Loop.block, Record.args)
  <2>1. ValueOk(n, loops, ars, vals)
    BY <1>1, <1>3 DEF Going, ValuesOk
  <2> QED
    BY <1>1, <1>3, <2>1 DEF ValueOk
<1>12. OnTop(n, loops[n], ar, vals)
  <2>1. IsSeq(Record.args)
    BY <1>1 DEF IsRecord
  <2>2. Len(loops) \in Nat /\ n \in 1 .. Len(loops)
    BY <1>1, <1>3 DEF L
  <2> QED
    BY <1>1, <1>6, <1>9, <1>11, <2>1, <2>2, WaitOver DEF x
<1>13. ASSUME NEW i \in 1 .. n PROVE ValueOk(i, Advanced, qs, vals)
  <2>1. CASE i = n
    BY <1>7, <1>10, <1>12, <2>1 DEF ValueOk
  <2>2. CASE i # n
    <3>0. i \in 1 .. (n - 1)
      BY <1>3, <2>2
    <3>1. i \in 1 .. Len(ars) /\ i # Len(ars) /\ i # Len(qs) /\ i + 1 \in 1 .. n
      BY <1>1, <1>7, <1>10, <3>0
    <3>2. ValueOk(i, loops, ars, vals)
      BY <3>1 DEF Going, ValuesOk
    <3>3. Waits(i, loops[i], ars[i], vals, loops[i + 1].block, ars[i + 1].args)
      BY <3>1, <3>2 DEF ValueOk
    <3>4. qs[i] = ars[i] /\ Advanced[i] = loops[i] /\ Advanced[i + 1] = loops[i + 1]
      BY <1>7, <1>10, <3>0, <3>1
    <3>5. qs[i + 1].args = ars[i + 1].args
      <4>1. CASE i + 1 = n
        BY <1>9, <1>10, <4>1
      <4>2. CASE i + 1 # n
        <5>1. i + 1 \in 1 .. (n - 1)
          BY <1>3, <3>1, <4>2
        <5> QED
          BY <1>10, <5>1
      <4> QED
        BY <4>1, <4>2
    <3>6. Waits(i, Advanced[i], qs[i], vals, Advanced[i + 1].block, qs[i + 1].args)
      BY <3>3, <3>4, <3>5
    <3> QED
      BY <3>1, <3>6 DEF ValueOk
  <2> QED
    BY <2>1, <2>2
<1> QED
  BY <1>2, <1>10, <1>13 DEF ValuesOk, L

\* The end of a function's loop.
LEMMA ReturnValues ==
    ASSUME Ready, Runs(loops, ars), ValuesOk(loops, ars, vals), Ended(Loop), Len(loops) > 1,
           NEW ms, ms = SubSeq(loops, 1, Len(loops) - 1)
    PROVE  ValuesOk(ms, ars, vals) /\ ms[1] = loops[1] /\ Len(ms) > 0
<1>1. /\ LoopsOk(loops) /\ IsSeq(loops) /\ Len(loops) \in Nat /\ Loop = loops[Len(loops)]
      /\ RecordsOk(loops, ars)
  BY TopLoop DEF Runs, Ready, LoopsOk
<1>2. Len(ars) = Len(loops) - 1
  BY <1>1 DEF RecordsOk, Returned
<1>3. Len(ms) = Len(loops) - 1 /\ \A i \in 1 .. (Len(loops) - 1) : ms[i] = loops[i]
  BY <1>1, Dropped
<1>4. ASSUME NEW i \in 1 .. Len(ars) PROVE ValueOk(i, ms, ars, vals)
  <2>1. ValueOk(i, loops, ars, vals) /\ ms[i] = loops[i]
    BY <1>2, <1>3 DEF ValuesOk
  <2>2. i # Len(ars) => ms[i + 1] = loops[i + 1]
    BY <1>1, <1>2, <1>3
  <2> QED
    BY <2>1, <2>2 DEF ValueOk
<1> QED
  BY <1>1, <1>3, <1>4 DEF ValuesOk

-----------------------------------------------------------------------------
(***************************************************************************)
(* What a step of the runtime means.                                       *)
(***************************************************************************)
ValueAt(m)  == Eval(src.stmts[m].e, Rho(vals), src)
Leads(j, t) == j \in 1 .. Size /\ IsTag(j) /\ src.stmts[j].n = t

\* What statement m does, with j the next one, to the variables and what it
\* is seen to do.
Does(m, j, vs, ev) ==
    LET s == src.stmts[m]
    IN  /\ m \in 1 .. Size
        /\ \/ s.k = "tag" /\ j = m + 1 /\ vs = vals /\ ev = event
           \/ s.k = "get" /\ j = m + 1 /\ vs = [vals EXCEPT ![s.n] = m]
                          /\ ev = [stmt |-> m, val |-> [op |-> "read"]]
           \/ s.k = "let" /\ j = m + 1 /\ vs = [vals EXCEPT ![s.n] = m]
                          /\ ev = [stmt |-> m, val |-> ValueAt(m)]
           \/ s.k = "put" /\ j = m + 1 /\ vs = vals /\ ev = [stmt |-> m, val |-> ValueAt(m)]
           \/ s.k = "to" /\ Leads(j, s.n) /\ vs = vals /\ ev = event
           \/ s.k = "if" /\ vs = vals
                         /\ \E taken \in BOOLEAN :
                               /\ ev = [stmt |-> m, val |-> ValueAt(m), taken |-> taken]
                               /\ IF taken THEN Leads(j, s.n) ELSE j = m + 1

Meant(m, j, vs, ev) == (j = m /\ vs = vals /\ ev = event) \/ Does(m, j, vs, ev)

\* A step from statement m to the loops ls and the records rs.
Goes(m, ls, rs, vs, ev) == \E j : Pos(ls[1], j) /\ ValuesOk(ls, rs, vs) /\ Meant(m, j, vs, ev)

LEMMA MainMoves ==
    ASSUME NEW m, Going(m), ~Ended(Loop)
    PROVE  /\ Len(loops) = 1 => Advanced[1] = Stepped /\ Loop = loops[1] /\ Record = ars[1] /\ Len(ars) = 1
           /\ Len(loops) # 1 => Advanced[1] = loops[1] /\ Len(loops) > 1
           /\ IsSeq(Advanced) /\ Len(Advanced) = Len(loops)
<1>1. /\ LoopsOk(loops) /\ Len(loops) \in Nat /\ Len(loops) > 0 /\ Len(ars) = Len(loops)
      /\ Record = ars[Len(ars)] /\ Loop = loops[Len(loops)]
  BY GoingFacts
<1>2. /\ IsSeq(Advanced) /\ Len(Advanced) = Len(loops) /\ Advanced[Len(loops)] = Stepped
      /\ \A i \in 1 .. (Len(loops) - 1) : Advanced[i] = loops[i]
  BY <1>1, AdvancedFacts
<1> QED
  BY <1>1, <1>2

\* A step that stays within its statement.
LEMMA StaysGoes ==
    ASSUME NEW m, Going(m), ~Ended(Loop), Len(loops) = 1 => Pos(Stepped, m),
           NEW rs, ValuesOk(Advanced, rs, vals)
    PROVE  Goes(m, Advanced, rs, vals, event)
<1>1. Pos(Advanced[1], m)
  BY MainMoves DEF Going
<1> QED
  BY <1>1 DEF Goes, Meant

LEMMA FreshValues ==
    ASSUME NEW ms, NEW qs, Len(qs) = 1, qs[1].tmps = <<>>, Fresh(ms[1]), NEW vs
    PROVE  ValuesOk(ms, qs, vs)
<1>1. OnTop(1, ms[1], qs[1], vs)
  BY FreshTop
<1> QED
  BY <1>1, OneValue

\* LABEL and DEF in main.
LEMMA MainPass ==
    ASSUME NEW m, Going(m), ~Ended(Loop), Len(loops) = 1, Fetched.op \in {"LABEL", "DEF"}
    PROVE  Goes(m, Advanced, ars, vals, event)
<1>1. /\ Ready /\ IsLoop(Loop) /\ Stepped = NextOf(Loop) /\ Pos(Loop, m) /\ Advanced[1] = Stepped
      /\ Record = ars[1] /\ Len(ars) = 1 /\ OnTop(1, Loop, Record, vals)
  BY GoingFacts, MainMoves DEF Going
<1>2. ASSUME Fresh(Loop), Fresh(Stepped) PROVE ValuesOk(Advanced, ars, vals)
  <2>1. Record.tmps = <<>>
    BY <1>1, <1>2, FreshTop
  <2> QED
    BY <1>1, <1>2, <2>1, FreshValues
<1>3. CASE m = 1 /\ InHead(Loop)
  <2>1. InHead(Stepped) \/ Stepped = Place[1]
    BY <1>1, <1>3, HeadStep
  <2>2. 1 \in 1 .. (Size + 1) /\ IsLoop(Stepped)
    BY <1>1, ReadyFacts, GoingFacts
  <2>3. Pos(Stepped, 1) /\ Fresh(Stepped)
    BY <1>1, <2>1, <2>2, PosAt, FreshPlace, FreshHead DEF Pos
  <2>4. Fresh(Loop)
    BY <1>1, <1>3, FreshHead
  <2> QED
    BY <1>1, <1>2, <1>3, <2>3, <2>4 DEF Goes, Meant
<1>4. CASE m \in 1 .. Size /\ IsTag(m) /\ OnTag(Loop, m)
  <2>1. Stepped = Place[m + 1] /\ Fresh(Loop)
    BY <1>1, <1>4, TagStep, FreshTag
  <2>2. m + 1 \in 1 .. (Size + 1)
    BY <1>1, <1>4, ReadyFacts
  <2>3. Pos(Stepped, m + 1) /\ Fresh(Stepped)
    <3> DEFINE j == m + 1
    <3> HIDE DEF j
    <3>1. j \in 1 .. (Size + 1) /\ Stepped = Place[j]
      BY <2>1, <2>2 DEF j
    <3>2. Pos(Stepped, j) /\ Fresh(Stepped)
      BY <1>1, <3>1, PosAt, FreshPlace
    <3> QED
      BY <3>2 DEF j
  <2>4. Does(m, m + 1, vals, event)
    BY <1>4 DEF Does, IsTag
  <2>5. ValuesOk(Advanced, ars, vals)
    BY <1>2, <2>1, <2>3
  <2> QED
    BY <1>1, <2>3, <2>4, <2>5 DEF Goes, Meant
<1>5. CASE m \in 1 .. Size /\ ~IsTag(m) /\ InStmt(Loop, m)
  <2> DEFINE k == Loop.ip - Place[m].ip + 1
  <2>1. /\ k \in 1 .. Len(CodeAt(m)) /\ Fetched = CodeAt(m)[k]
        /\ k < Len(CodeAt(m)) => CodeAt(m)[k].op \in {"LI", "LOAD", "READ", "OPR", "CALL"}
    BY <1>1, <1>5, InStmtFacts DEF Fetched
  <2>2. Len(CodeAt(m)) \in Nat /\ CodeAt(m)[Len(CodeAt(m))].op \in {"STORE", "WRITE", "JIT", "JUMP"}
    BY <1>1, <1>5, StmtPlace DEF IsCodeOf
  <2> HIDE DEF k
  <2>3. CASE k = Len(CodeAt(m))
    BY <2>1, <2>2, <2>3
  <2>4. CASE k # Len(CodeAt(m))
    BY <2>1, <2>2, <2>4
  <2> QED
    BY <2>3, <2>4
<1>6. CASE m = Size + 1 /\ Loop = Place[m]
  BY <1>1, <1>6, NextAtEnd
<1> QED
  BY <1>1, <1>3, <1>4, <1>5, <1>6 DEF Pos

\* The last instruction of a statement.
LEMMA LastText ==
    ASSUME NEW m, Going(m), ~Ended(Loop), Fetched.op \in {"STORE", "WRITE", "JIT", "JUMP"}
    PROVE  /\ Len(loops) = 1 /\ m \in 1 .. Size /\ ~IsTag(m) /\ TypedStmt(src.stmts[m])
           /\ Fetched = LastOf(src.stmts[m], m)
           /\ Record.tmps = Found(src.stmts[m], vals)
           /\ Pos(Stepped, m + 1) /\ Fresh(Stepped)
<1>1. /\ Ready /\ IsLoop(Loop) /\ Stepped = NextOf(Loop) /\ Len(loops) \in Nat /\ Len(loops) > 0
      /\ Matches(module, src) /\ LoopsOk(loops) /\ RecordsOk(loops, ars)
      /\ OnTop(Len(loops), Loop, Record, vals)
  BY GoingFacts
<1>2. Len(loops) = 1
  <2>1. Len(loops) > 1 => Fetched.op \notin {"STORE", "WRITE", "JIT", "JUMP"}
    BY <1>1, TopFacts
  <2> DEFINE L == Len(loops)
  <2>2. L \in Nat /\ L > 0 /\ ~(L > 1)
    BY <1>1, <2>1
  <2> HIDE DEF L
  <2>3. L = 1
    BY <2>2
  <2> QED
    BY <2>3 DEF L
<1>3. Loop = loops[1] /\ Pos(Loop, m) /\ OnTop(1, Loop, Record, vals)
  BY <1>1, <1>2, MainMoves DEF Going
<1>4. m \in 1 .. Size /\ ~IsTag(m) /\ InStmt(Loop, m)
  <2>1. ~InHead(Loop)
    <3>1. InHead(Loop) => Fetched.op \in {"LABEL", "DEF"}
      BY <1>1, HeadStep DEF Fetched
    <3> QED
      BY <3>1
  <2>2. ~(m \in 1 .. Size /\ IsTag(m) /\ OnTag(Loop, m))
    <3> SUFFICES ASSUME m \in 1 .. Size, IsTag(m), OnTag(Loop, m) PROVE FALSE
      OBVIOUS
    <3>1. Fetched = Named("LABEL", src.stmts[m].n, m)
      BY <1>1, TagStep DEF Fetched
    <3> QED
      BY <3>1 DEF Named
  <2>3. Loop # Place[Size + 1]
    BY <1>1, NextAtEnd
  <2> QED
    BY <1>3, <2>1, <2>2, <2>3 DEF Pos
<1> DEFINE k == Loop.ip - Place[m].ip + 1
<1>5. /\ k \in 1 .. Len(CodeAt(m)) /\ Fetched = CodeAt(m)[k]
      /\ k < Len(CodeAt(m)) => CodeAt(m)[k].op \in {"LI", "LOAD", "READ", "OPR", "CALL"}
      /\ k = Len(CodeAt(m)) => CodeAt(m)[k] = LastOf(src.stmts[m], m)
  BY <1>1, <1>4, InStmtFacts DEF Fetched
<1>6. Len(CodeAt(m)) \in Nat /\ TypedStmt(src.stmts[m])
  BY <1>1, <1>4, StmtPlace
<1>7. k = Len(CodeAt(m))
  <2> HIDE DEF k
  <2>1. ~(k < Len(CodeAt(m)))
    BY <1>5
  <2> QED
    BY <1>5, <1>6, <2>1
<1>8. Stepped = Place[m + 1]
  BY <1>1, <1>4, <1>7, StmtStep
<1>9. MainText(Loop) = CodeAt(m) /\ MainMark(Loop) = k
  <2>1. Inside(Loop, m)
    BY <1>4 DEF Inside
  <2> QED
    BY <1>1, <2>1, MarkInside
<1> HIDE DEF k
<1>10. Record.tmps = Found(src.stmts[m], vals)
  <2>1. Record.tmps = Stacks(CodeAt(m), World(Record.args, vals, module, src), <<>>)[Len(CodeAt(m))]
    BY <1>3, <1>7, <1>9 DEF OnTop, StackIn, Text, Mark
  <2> DEFINE args == Record.args
  <2> HIDE DEF args
  <2>2. Stacks(CodeAt(m), World(args, vals, module, src), <<>>)[Len(CodeAt(m))] = Found(src.stmts[m], vals)
    BY <1>1, <1>4, StmtValue
  <2> QED
    BY <2>1, <2>2 DEF args
<1>11. Pos(Stepped, m + 1) /\ Fresh(Stepped)
  <2> DEFINE j == m + 1
  <2>1. j \in 1 .. (Size + 1)
    BY <1>1, <1>4, ReadyFacts
  <2> HIDE DEF j
  <2>2. Stepped = Place[j]
    BY <1>8 DEF j
  <2>3. Pos(Stepped, j) /\ Fresh(Stepped)
    BY <1>1, <2>1, <2>2, PosAt, FreshPlace
  <2> QED
    BY <2>3 DEF j
<1> QED
  BY <1>2, <1>4, <1>5, <1>6, <1>7, <1>10, <1>11

LEMMA OneTaken ==
    ASSUME IsRecord(Record), NEW v, Record.tmps = <<v>>
    PROVE  Popped(1)[1] = v /\ Popping(1).tmps = <<>>
<1>1. Len(<<v>>) = 1 /\ SubSeq(<<v>>, 1, 1) = <<v>> /\ SubSeq(<<v>>, 1, 0) = <<>> /\ <<v>>[1] = v
  <2>1. Len(<<v>>) = 1 /\ <<v>>[1] = v
    OBVIOUS
  <2> DEFINE S == {v}
             t == <<v>>
  <2>0. t \in Seq(S) /\ Len(t) = 1
    OBVIOUS
  <2> HIDE DEF S, t
  <2>2. SubSeq(t, 1, 1) = t
    <3>1. SubSeq(t, 1, 1) \in Seq(S) /\ Len(SubSeq(t, 1, 1)) = 1 /\ SubSeq(t, 1, 1)[1] = t[1]
      BY <2>0
    <3> DEFINE u == SubSeq(t, 1, 1)
    <3> HIDE DEF u
    <3>2. IsSeq(t) /\ IsSeq(u)
      <4>1. u \in Seq(S)
        BY <3>1 DEF u
      <4> QED
        BY <2>0, <4>1, SeqOwn
    <3>4. Len(u) = 1 /\ u[1] = t[1]
      BY <3>1 DEF u
    <3>5. Len(u) = Len(t) /\ \A i \in 1 .. Len(u) : u[i] = t[i]
      BY <2>0, <3>4
    <3>3. u = t
      BY <3>2, <3>5, SameSeq
    <3> QED
      BY <3>3 DEF u
  <2>3. SubSeq(t, 1, 0) = <<>>
    <3>1. SubSeq(t, 1, 0) \in Seq(S) /\ Len(SubSeq(t, 1, 0)) = 0
      BY <2>0
    <3> QED
      BY <3>1
  <2> QED
    BY <2>1, <2>2, <2>3 DEF t
<1>2. Popped(1) = SubSeq(<<v>>, 1, 1)
  BY <1>1 DEF Popped
<1>3. Below(1) = SubSeq(<<v>>, 1, 0)
  BY <1>1 DEF Below
<1>4. Popping(1).tmps = Below(1)
  BY DEF IsRecord, Popping
<1> QED
  BY <1>1, <1>2, <1>3, <1>4

\* The record main has after its statement took what it found.
LEMMA Drained1 ==
    ASSUME NEW m, Going(m), ~Ended(Loop), Len(loops) = 1, NEW ms, Fresh(ms[1]), NEW vs
    PROVE  /\ Popping(1).tmps = <<>> => ValuesOk(ms, Append(Callers, Popping(1)), vs)
           /\ Record.tmps = <<>> => ValuesOk(ms, ars, vs)
<1>1. Len(ars) = 1 /\ IsSeq(ars) /\ Record = ars[1]
  BY GoingFacts
<1> DEFINE ar == Popping(1)
           qs == Append(Callers, ar)
<1> HIDE DEF ar
<1>2. Len(qs) = 1 /\ qs[1] = ar
  BY <1>1, TopReplaced DEF Callers
<1> HIDE DEF qs
<1>3. ASSUME ar.tmps = <<>> PROVE ValuesOk(ms, qs, vs)
  BY <1>2, <1>3, FreshValues
<1>4. ASSUME Record.tmps = <<>> PROVE ValuesOk(ms, ars, vs)
  BY <1>1, <1>4, FreshValues
<1> QED
  BY <1>3, <1>4 DEF qs, ar

\* What the last instruction of each statement takes.
LEMMA LastValue ==
    ASSUME NEW m, Going(m), ~Ended(Loop), Fetched.op \in {"STORE", "WRITE", "JIT", "JUMP"},
           NEW s, s = src.stmts[m]
    PROVE  /\ s.k \in {"get", "put", "let", "if", "to"} /\ Fetched.stmt = m
           /\ s.k # "put" => Fetched.n = s.n
           /\ Fetched.op = "STORE" <=> s.k \in {"get", "let"}
           /\ Fetched.op = "WRITE" <=> s.k = "put"
           /\ Fetched.op = "JIT" <=> s.k = "if"
           /\ Fetched.op = "JUMP" <=> s.k = "to"
           /\ s.k = "get" => Popped(1)[1] = [op |-> "read"] /\ Popping(1).tmps = <<>>
           /\ s.k \in Valued => Popped(1)[1] = ValueAt(m) /\ Popping(1).tmps = <<>>
           /\ s.k = "to" => Record.tmps = <<>>
<1>1. /\ m \in 1 .. Size /\ ~IsTag(m) /\ TypedStmt(s) /\ Fetched = LastOf(s, m)
      /\ Record.tmps = Found(s, vals)
  BY LastText
<1>2. IsRecord(Record)
  BY GoingFacts
<1>3. s.k # "tag" /\ m \in Nat
  BY <1>1 DEF IsTag
<1>4. s.k \in {"get", "put", "let", "if", "to"}
  BY <1>1, <1>3 DEF TypedStmt, Valued, Naming
<1>5. /\ Fetched.stmt = m
      /\ s.k \in {"get", "let"} => Fetched.op = "STORE"
      /\ s.k = "put" => Fetched.op = "WRITE"
      /\ s.k = "if" => Fetched.op = "JIT"
      /\ s.k = "to" => Fetched.op = "JUMP"
      /\ s.k # "put" => Fetched.n = s.n
  BY <1>1, <1>3, LastFacts
<1>6. ASSUME s.k = "get" PROVE Popped(1)[1] = [op |-> "read"] /\ Popping(1).tmps = <<>>
  <2> DEFINE v == [op |-> "read"]
  <2>1. Record.tmps = <<v>>
    BY <1>1, <1>6 DEF Found
  <2> HIDE DEF v
  <2>2. Popped(1)[1] = v /\ Popping(1).tmps = <<>>
    BY <1>2, <2>1, OneTaken
  <2> QED
    BY <2>2 DEF v
<1>7. ASSUME s.k \in Valued PROVE Popped(1)[1] = ValueAt(m) /\ Popping(1).tmps = <<>>
  <2>1. s.k # "get"
    BY <1>7 DEF Valued
  <2>2. Record.tmps = <<ValueAt(m)>>
    BY <1>1, <1>7, <2>1 DEF Found, ValueAt
  <2> QED
    BY <1>2, <2>2, OneTaken
<1>8. ASSUME s.k = "to" PROVE Record.tmps = <<>>
  BY <1>1, <1>8 DEF Found, Valued
<1> QED
  BY <1>4, <1>5, <1>6, <1>7, <1>8

\* Where a jump leads, it leads to a tag of the name.
LEMMA JumpedPos ==
    ASSUME NEW m, Going(m), ~Ended(Loop), Fetched.op \in {"JIT", "JUMP"}
    PROVE  \E j : Leads(j, Fetched.n) /\ Pos(Jumped(Fetched.n)[1], j) /\ Fresh(Jumped(Fetched.n)[1])
<1>1. /\ Ready /\ Matches(module, src) /\ LoopsOk(loops) /\ RecordsOk(loops, ars) /\ Len(loops) = 1
      /\ IsSeq(loops)
  BY GoingFacts, LastText DEF LoopsOk
<1>2. Fetched.n \in Targets(src)
  BY <1>1, TopFacts
<1> DEFINE t == Fetched.n
           l == Start(module.labels[t])
<1>3. PICK j \in 1 .. Size : /\ IsTag(j) /\ src.stmts[j].n = t
                             /\ Start(module.labels[t]) = Start(Place[j].block + 1)
  BY <1>1, <1>2, JumpPos
<1>4. Jumped(t)[1] = l
  BY <1>1, OneReplaced DEF Jumped, Start
<1>5. l = Start(Place[j].block + 1)
  BY <1>3
<1> HIDE DEF l
<1>6. Pos(l, j)
  BY <1>1, <1>3, <1>5, PosTag
<1>7. Fresh(l)
  BY <1>1, <1>3, <1>5, FreshTag DEF OnTag
<1> QED
  BY <1>3, <1>4, <1>6, <1>7 DEF Leads

LEMMA StoreGoes ==
    ASSUME NEW m, Going(m), executeStore
    PROVE  Goes(m, loops', ars', vals', event')
<1> DEFINE s == src.stmts[m]
<1>1. /\ ~Ended(Loop) /\ Fetched.op = "STORE" /\ loops' = Advanced
      /\ ars' = Append(Callers, Popping(1))
      /\ vals' = [vals EXCEPT ![Fetched.n] = Fetched.stmt]
      /\ event' = [stmt |-> Fetched.stmt, val |-> Popped(1)[1]]
  BY DEF executeStore, Fetch, Advance
<1>2. Len(loops) = 1 /\ m \in 1 .. Size /\ Pos(Stepped, m + 1) /\ Fresh(Stepped)
  BY <1>1, LastText
<1>3. /\ s.k \in {"get", "let"} /\ Fetched.stmt = m /\ Fetched.n = s.n
      /\ s.k = "get" => Popped(1)[1] = [op |-> "read"] /\ Popping(1).tmps = <<>>
      /\ s.k \in Valued => Popped(1)[1] = ValueAt(m) /\ Popping(1).tmps = <<>>
  BY <1>1, LastValue
<1>4. Advanced[1] = Stepped
  BY <1>1, <1>2, MainMoves
<1>5. Popping(1).tmps = <<>>
  BY <1>3 DEF Valued
<1>6. ValuesOk(loops', ars', vals')
  <2> DEFINE vs == vals'
  <2> HIDE DEF vs
  <2>1. ValuesOk(Advanced, Append(Callers, Popping(1)), vs)
    BY <1>1, <1>2, <1>4, <1>5, Drained1
  <2> QED
    BY <1>1, <2>1 DEF vs
<1>7. Does(m, m + 1, vals', event')
  <2>1. CASE s.k = "get"
    BY <1>1, <1>2, <1>3, <2>1 DEF Does
  <2>2. CASE s.k = "let"
    <3>1. Popped(1)[1] = ValueAt(m)
      BY <1>3, <2>2 DEF Valued
    <3> QED
      BY <1>1, <1>2, <1>3, <2>2, <3>1 DEF Does
  <2> QED
    BY <1>3, <2>1, <2>2
<1> QED
  BY <1>1, <1>2, <1>4, <1>6, <1>7 DEF Goes, Meant

LEMMA WriteGoes ==
    ASSUME NEW m, Going(m), executeWrite
    PROVE  Goes(m, loops', ars', vals', event')
<1> DEFINE s == src.stmts[m]
<1>1. /\ ~Ended(Loop) /\ Fetched.op = "WRITE" /\ loops' = Advanced
      /\ ars' = Append(Callers, Popping(1)) /\ vals' = vals
      /\ event' = [stmt |-> Fetched.stmt, val |-> Popped(1)[1]]
  BY DEF executeWrite, Fetch, Advance
<1>2. Len(loops) = 1 /\ m \in 1 .. Size /\ Pos(Stepped, m + 1) /\ Fresh(Stepped)
  BY <1>1, LastText
<1>3. /\ s.k = "put" /\ Fetched.stmt = m
      /\ s.k \in Valued => Popped(1)[1] = ValueAt(m) /\ Popping(1).tmps = <<>>
  BY <1>1, LastValue
<1>4. Advanced[1] = Stepped
  BY <1>1, <1>2, MainMoves
<1>5. Popped(1)[1] = ValueAt(m) /\ Popping(1).tmps = <<>>
  BY <1>3 DEF Valued
<1>6. ValuesOk(Advanced, Append(Callers, Popping(1)), vals)
  BY <1>1, <1>2, <1>4, <1>5, Drained1
<1>7. Does(m, m + 1, vals', event')
  BY <1>1, <1>2, <1>3, <1>5 DEF Does
<1> QED
  BY <1>1, <1>2, <1>4, <1>6, <1>7 DEF Goes, Meant

LEMMA JumpIfGoes ==
    ASSUME NEW m, Going(m), JumpIfTrue
    PROVE  Goes(m, loops', ars', vals', event')
<1> DEFINE s == src.stmts[m]
<1>1. /\ ~Ended(Loop) /\ Fetched.op = "JIT" /\ ars' = Append(Callers, Popping(1)) /\ vals' = vals
  BY DEF JumpIfTrue, Fetch
<1>2. PICK taken \in BOOLEAN :
          /\ event' = [stmt |-> Fetched.stmt, val |-> Popped(1)[1], taken |-> taken]
          /\ loops' = IF taken THEN Jumped(Fetched.n) ELSE Advanced
  BY DEF JumpIfTrue, JumpTo, Advance, Jumped, WithLast
<1>3. Len(loops) = 1 /\ m \in 1 .. Size /\ Pos(Stepped, m + 1) /\ Fresh(Stepped)
  BY <1>1, LastText
<1>4. /\ s.k = "if" /\ Fetched.stmt = m /\ Fetched.n = s.n
      /\ s.k \in Valued => Popped(1)[1] = ValueAt(m) /\ Popping(1).tmps = <<>>
  BY <1>1, LastValue
<1>5. Popped(1)[1] = ValueAt(m) /\ Popping(1).tmps = <<>>
  BY <1>4 DEF Valued
<1>6. event' = [stmt |-> m, val |-> ValueAt(m), taken |-> taken]
  BY <1>2, <1>4, <1>5
<1>7. CASE taken
  <2>1. PICK j : Leads(j, Fetched.n) /\ Pos(Jumped(Fetched.n)[1], j) /\ Fresh(Jumped(Fetched.n)[1])
    BY <1>1, JumpedPos
  <2>2. loops' = Jumped(Fetched.n)
    BY <1>2, <1>7
  <2>3. ValuesOk(Jumped(Fetched.n), Append(Callers, Popping(1)), vals)
    BY <1>1, <1>3, <1>5, <2>1, Drained1
  <2>4. Does(m, j, vals', event')
    BY <1>1, <1>3, <1>4, <1>6, <1>7, <2>1 DEF Does
  <2> QED
    BY <1>1, <2>1, <2>2, <2>3, <2>4 DEF Goes, Meant
<1>8. CASE ~taken
  <2>1. Advanced[1] = Stepped /\ loops' = Advanced
    BY <1>1, <1>2, <1>3, <1>8, MainMoves
  <2>2. ValuesOk(Advanced, Append(Callers, Popping(1)), vals)
    BY <1>1, <1>3, <1>5, <2>1, Drained1
  <2>3. Does(m, m + 1, vals', event')
    BY <1>1, <1>3, <1>4, <1>6, <1>8 DEF Does
  <2> QED
    BY <1>1, <1>3, <2>1, <2>2, <2>3 DEF Goes, Meant
<1> QED
  BY <1>7, <1>8

LEMMA JumpGoes ==
    ASSUME NEW m, Going(m), Jump
    PROVE  Goes(m, loops', ars', vals', event')
<1> DEFINE s == src.stmts[m]
<1>1. /\ ~Ended(Loop) /\ Fetched.op = "JUMP" /\ ars' = ars /\ vals' = vals /\ event' = event
      /\ loops' = Jumped(Fetched.n)
  BY DEF Jump, Fetch, JumpTo, Jumped, WithLast
<1>2. Len(loops) = 1 /\ m \in 1 .. Size
  BY <1>1, LastText
<1>3. s.k = "to" /\ Fetched.n = s.n /\ Record.tmps = <<>>
  BY <1>1, LastValue
<1>4. PICK j : Leads(j, Fetched.n) /\ Pos(Jumped(Fetched.n)[1], j) /\ Fresh(Jumped(Fetched.n)[1])
  BY <1>1, JumpedPos
<1>5. ValuesOk(Jumped(Fetched.n), ars, vals)
  BY <1>1, <1>2, <1>3, <1>4, Drained1
<1>6. Does(m, j, vals, event)
  BY <1>2, <1>3, <1>4 DEF Does
<1> QED
  BY <1>1, <1>4, <1>5, <1>6 DEF Goes, Meant

LEMMA EndGoes ==
    ASSUME NEW m, Going(m), EndOfBlock, phase' = "running" \/ phase' = "ended"
    PROVE  /\ phase' = "running" => Goes(m, loops', ars', vals', event')
           /\ phase' = "ended" => m = Size + 1 /\ vals' = vals /\ event' = event
<1>0. Ready /\ Runs(loops, ars) /\ Pos(loops[1], m) /\ ValuesOk(loops, ars, vals)
  BY DEF Going
<1>1. /\ Ended(Loop) /\ phase = "running" /\ ars' = ars /\ vals' = vals /\ event' = event
  BY DEF EndOfBlock
<1>2. Matches(module, src) /\ LoopsOk(loops) /\ RecordsOk(loops, ars)
  BY <1>0 DEF Ready, Runs
<1>3. /\ Len(loops) \in Nat /\ Len(loops) > 0 /\ IsLoop(Loop) /\ Loop = loops[Len(loops)]
      /\ Loop.block \in 1 .. Len(module.blocks)
  BY <1>2, TopLoop
<1>4. CASE Len(loops) > 1
  <2> DEFINE ms == SubSeq(loops, 1, Len(loops) - 1)
  <2>1. loops' = ms /\ phase' = "running"
    <3>1. Len(loops) # 1
      <4> DEFINE L == Len(loops)
      <4>1. L \in Nat /\ L > 1
        BY <1>3, <1>4
      <4> HIDE DEF L
      <4>2. L # 1
        BY <4>1
      <4> QED
        BY <4>2 DEF L
    <3> QED
      BY <1>1, <3>1 DEF EndOfBlock
  <2>2. ValuesOk(ms, ars, vals) /\ ms[1] = loops[1]
    BY <1>0, <1>1, <1>4, ReturnValues
  <2> HIDE DEF ms
  <2>3. Goes(m, ms, ars, vals, event)
    BY <1>0, <2>2 DEF Goes, Meant
  <2> QED
    BY <1>1, <2>1, <2>3
<1>5. CASE Len(loops) = 1
  <2>1. Pos(Loop, m) /\ ars = <<NewRecord>>
    BY <1>0, <1>1, <1>2, <1>3, <1>5, EndHeight, MainRecord
  <2>2. Len(ars) = 1 /\ ars[1].tmps = <<>>
    BY <2>1 DEF NewRecord
  <2>3. \/ m \in 1 .. Size /\ IsTag(m) /\ OnTag(Loop, m)
        \/ m = Size + 1 /\ Loop = Place[m]
    <3>1. ~InHead(Loop)
      BY <1>0, <1>1, <1>3, HeadStep
    <3>2. m \in 1 .. Size /\ ~IsTag(m) => ~InStmt(Loop, m)
      <4> SUFFICES ASSUME m \in 1 .. Size, ~IsTag(m), InStmt(Loop, m) PROVE FALSE
        OBVIOUS
      <4> QED
        BY <1>0, <1>1, <1>3, InStmtFacts
    <3> QED
      BY <2>1, <3>1, <3>2 DEF Pos
  <2>4. CASE m \in 1 .. Size /\ IsTag(m) /\ OnTag(Loop, m)
    <3> DEFINE l == Start(Loop.block + 1)
    <3>1. Loop.block < Len(module.blocks) /\ l = Start(Place[m].block + 1)
      BY <1>0, <1>1, <1>3, <2>4, TagStep
    <3>2. phase' = "running" /\ loops' = <<l>>
      <4>1. Len(module.blocks) \in Nat /\ Loop.block # Len(module.blocks)
        BY <1>0, <1>3, <3>1, ReadyFacts
      <4>2. /\ \/ Len(loops) > 1
               \/ loops' = <<[block |-> Loop.block + 1, ip |-> 1]>> /\ phase' = phase
               \/ Loop.block = Len(module.blocks)
        BY DEF EndOfBlock
      <4> QED
        BY <1>1, <1>5, <4>1, <4>2 DEF Start
    <3> HIDE DEF l
    <3>3. Pos(l, m) /\ Fresh(l)
      <4>1. OnTag(l, m)
        BY <3>1 DEF OnTag
      <4> QED
        BY <1>0, <2>4, <4>1, FreshTag DEF Pos
    <3> DEFINE ms == <<l>>
    <3>4. ms[1] = l
      OBVIOUS
    <3> HIDE DEF ms
    <3>5. ValuesOk(ms, ars, vals)
      BY <2>2, <3>3, <3>4, FreshValues
    <3>6. Goes(m, ms, ars, vals, event)
      BY <3>3, <3>4, <3>5 DEF Goes, Meant
    <3>7. loops' = ms
      BY <3>2 DEF ms
    <3> QED
      BY <1>1, <3>2, <3>6, <3>7
  <2>5. CASE m = Size + 1 /\ Loop = Place[m]
    <3>1. Loop.block = Len(module.blocks)
      BY <1>0, <2>5, NextAtEnd
    <3>2. phase' = "ended"
      BY <1>3, <1>5, <3>1 DEF EndOfBlock
    <3> QED
      BY <1>1, <2>5, <3>2
  <2> QED
    BY <2>3, <2>4, <2>5
<1>6. Len(loops) > 1 \/ Len(loops) = 1
  <2> DEFINE L == Len(loops)
  <2>1. L \in Nat /\ L > 0
    BY <1>3
  <2> HIDE DEF L
  <2>2. L > 1 \/ L = 1
    BY <2>1
  <2> QED
    BY <2>2 DEF L
<1> QED
  BY <1>4, <1>5, <1>6

LEMMA ReplaceGoes ==
    ASSUME NEW m, Going(m), NEW op \in {"LI", "LOAD", "READ", "ARG", "OPR"}, Fetch(op),
           NEW n, NEW v, Replace(n, v), Pushes(n, v)
    PROVE  Goes(m, loops', ars', vals', event')
<1> DEFINE rs == Append(Callers, pushTmp(Popping(n), v))
<1>1. /\ ~Ended(Loop) /\ Fetched.op \in {"LI", "LOAD", "READ", "ARG", "OPR"}
      /\ loops' = Advanced /\ ars' = rs /\ vals' = vals /\ event' = event
  BY DEF Fetch, Replace, Advance
<1>2. ValuesOk(Advanced, rs, vals) /\ (Len(loops) = 1 => Pos(Stepped, m))
  BY <1>1, ReplaceValues
<1> HIDE DEF rs
<1>3. Goes(m, Advanced, rs, vals, event)
  BY <1>1, <1>2, StaysGoes
<1> QED
  BY <1>1, <1>3

LEMMA CallGoes ==
    ASSUME NEW m, Going(m), executeCall
    PROVE  Goes(m, loops', ars', vals', event')
<1> DEFINE cnt    == module.functions[Fetched.n]
           ar     == Popping(cnt)
           new    == [NewRecord EXCEPT !.args = Arguments(cnt)]
           callee == [block |-> module.labels[Fetched.n], ip |-> 1]
           ms     == Append(Advanced, callee)
           qs     == Append(Append(Callers, ar), new)
<1>1. /\ ~Ended(Loop) /\ Fetched.op = "CALL" /\ vals' = vals /\ event' = event /\ loops' = ms
      /\ ars' = Callers \o <<ar, new>>
  BY DEF executeCall, Fetch
<1>2. ars' = qs
  <2>1. IsSeq(Callers)
    BY <1>1, GoingFacts, Dropped DEF Callers
  <2> HIDE DEF ar, new
  <2>2. Callers \o <<ar, new>> = Append(Append(Callers, ar), new)
    BY <2>1, TwoMore
  <2> QED
    BY <1>1, <2>2
<1>3. ValuesOk(ms, qs, vals) /\ (Len(loops) = 1 => Pos(Stepped, m))
  BY <1>1, CallValues
<1>4. ms[1] = Advanced[1]
  <2>1. IsSeq(Advanced) /\ Len(Advanced) = Len(loops) /\ Len(loops) \in Nat /\ Len(loops) > 0
    BY <1>1, MainMoves, GoingFacts
  <2>2. 1 \in DOMAIN Advanced
    BY <2>1, SeqFacts
  <2> HIDE DEF callee
  <2> QED
    BY <2>1, <2>2, AppendFacts
<1> HIDE DEF ms, qs
<1>5. Pos(ms[1], m)
  BY <1>1, <1>3, <1>4, MainMoves DEF Going
<1>6. Goes(m, ms, qs, vals, event)
  BY <1>3, <1>5 DEF Goes, Meant
<1> QED
  BY <1>1, <1>2, <1>6

LEMMA RetGoes ==
    ASSUME CallsMean, NEW m, Going(m), executeRet
    PROVE  Goes(m, loops', ars', vals', event')
<1> DEFINE v  == Popped(1)[1]
           qs == [Callers EXCEPT ![Len(Callers)] = pushTmp(@, v)]
<1>1. /\ ~Ended(Loop) /\ Fetched.op = "RET" /\ vals' = vals /\ event' = event
      /\ loops' = Advanced /\ ars' = qs
  BY DEF executeRet, Fetch, Advance
<1>2. ValuesOk(Advanced, qs, vals) /\ Len(loops) > 1
  BY <1>1, RetValues
<1> HIDE DEF qs
<1>3. Len(loops) # 1
  <2> DEFINE L == Len(loops)
  <2>1. L \in Nat /\ L > 1
    BY <1>1, <1>2, GoingFacts
  <2> HIDE DEF L
  <2>2. L # 1
    BY <2>1
  <2> QED
    BY <2>2 DEF L
<1>4. Goes(m, Advanced, qs, vals, event)
  BY <1>1, <1>2, <1>3, StaysGoes
<1> QED
  BY <1>1, <1>4

LEMMA PassGoes ==
    ASSUME NEW m, Going(m), Pass
    PROVE  Goes(m, loops', ars', vals', event')
<1>1. /\ ~Ended(Loop) /\ Fetched.op \in {"LABEL", "DEF"} /\ vals' = vals /\ event' = event
      /\ loops' = Advanced /\ ars' = ars
  BY DEF Pass, Fetch, Advance
<1>2. CASE Len(loops) = 1
  <2>1. Goes(m, Advanced, ars, vals, event)
    BY <1>1, <1>2, MainPass
  <2> QED
    BY <1>1, <2>1
<1>3. CASE Len(loops) # 1
  <2>1. Len(loops) > 1
    BY <1>1, <1>3, MainMoves
  <2>2. ValuesOk(Advanced, ars, vals)
    BY <1>1, <2>1, PassValues
  <2>3. Goes(m, Advanced, ars, vals, event)
    BY <1>1, <1>3, <2>2, StaysGoes
  <2> QED
    BY <1>1, <2>3
<1> QED
  BY <1>2, <1>3

\* Every step of the runtime is one of the statement main is at, or part of one.
LEMMA ExecGoes ==
    ASSUME CallsMean, NEW m, Going(m), Execute
    PROVE  \/ phase' = "running" /\ Goes(m, loops', ars', vals', event')
           \/ phase' = "ended" /\ m = Size + 1 /\ vals' = vals /\ event' = event
<1>1. ASSUME NEW op, Fetch(op) PROVE phase' = "running"
  BY <1>1 DEF Fetch
<1>2. CASE EndOfBlock
  <2>1. phase' = "running" \/ phase' = "ended"
    BY <1>2 DEF EndOfBlock
  <2> QED
    BY <1>2, <2>1, EndGoes
<1>3. ASSUME Goes(m, loops', ars', vals', event'), NEW op, Fetch(op)
      PROVE  phase' = "running" /\ Goes(m, loops', ars', vals', event')
  BY <1>1, <1>3
<1>4. CASE Pass
  <2>1. \E op : Fetch(op)
    BY <1>4, Zenon DEF Pass
  <2> QED
    BY <1>1, <1>4, <2>1, PassGoes
<1>5. CASE executeLi
  <2> DEFINE v == [op |-> "lit"]
  <2>1. Fetch("LI") /\ Replace(0, v)
    BY <1>5 DEF executeLi
  <2>2. Pushes(0, v)
    <3>1. Fetched.op = "LI"
      BY <2>1 DEF Fetch
    <3> QED
      BY <3>1 DEF Pushes
  <2> HIDE DEF v
  <2> QED
    BY <1>1, <2>1, <2>2, ReplaceGoes
<1>6. CASE executeLoad
  <2> DEFINE v == [op |-> "from", stmt |-> vals[Fetched.n]]
  <2>1. Fetch("LOAD") /\ Replace(0, v)
    BY <1>6 DEF executeLoad
  <2>2. Pushes(0, v)
    <3>1. Fetched.op = "LOAD"
      BY <2>1 DEF Fetch
    <3> QED
      BY <3>1 DEF Pushes
  <2> HIDE DEF v
  <2> QED
    BY <1>1, <2>1, <2>2, ReplaceGoes
<1>7. CASE executeRead
  <2> DEFINE v == [op |-> "read"]
  <2>1. Fetch("READ") /\ Replace(0, v)
    BY <1>7 DEF executeRead
  <2>2. Pushes(0, v)
    <3>1. Fetched.op = "READ"
      BY <2>1 DEF Fetch
    <3> QED
      BY <3>1 DEF Pushes
  <2> HIDE DEF v
  <2> QED
    BY <1>1, <2>1, <2>2, ReplaceGoes
<1>8. CASE executeArg
  <2> DEFINE v == Record.args[Fetched.ix]
  <2>1. Fetch("ARG") /\ Replace(0, v)
    BY <1>8 DEF executeArg
  <2>2. Pushes(0, v)
    <3>1. Fetched.op = "ARG"
      BY <2>1 DEF Fetch
    <3> QED
      BY <3>1 DEF Pushes
  <2> HIDE DEF v
  <2> QED
    BY <1>1, <2>1, <2>2, ReplaceGoes
<1>9. CASE executeOpr
  <2> DEFINE n == Fetched.ix
             v == Operate(n)
  <2>1. Fetch("OPR") /\ Replace(n, v)
    BY <1>9 DEF executeOpr
  <2>2. Pushes(n, v)
    <3>1. Fetched.op = "OPR"
      BY <2>1 DEF Fetch
    <3> QED
      BY <3>1 DEF Pushes
  <2> HIDE DEF v, n
  <2> QED
    BY <1>1, <2>1, <2>2, ReplaceGoes
<1>10. CASE executeStore
  BY <1>1, <1>10, StoreGoes DEF executeStore
<1>11. CASE executeWrite
  BY <1>1, <1>11, WriteGoes DEF executeWrite
<1>12. CASE executeCall
  BY <1>1, <1>12, CallGoes DEF executeCall
<1>13. CASE executeRet
  BY <1>1, <1>13, RetGoes DEF executeRet
<1>14. CASE JumpIfTrue
  BY <1>1, <1>14, JumpIfGoes DEF JumpIfTrue
<1>15. CASE Jump
  BY <1>1, <1>15, JumpGoes DEF Jump
<1> QED
  BY <1>2, <1>4, <1>5, <1>6, <1>7, <1>8, <1>9, <1>10, <1>11, <1>12, <1>13, <1>14, <1>15 DEF Execute

-----------------------------------------------------------------------------
(***************************************************************************)
(* Main is somewhere in the source, with the values the source has there.  *)
(***************************************************************************)
Told == phase = "running" => \E m : Pos(loops[1], m) /\ ValuesOk(loops, ars, vals)

SourceInv == PcodeInv /\ ShapedInv /\ Told

LEMMA IsReady ==
    ASSUME PcodeInv, ShapedInv, phase \in Main, Legal(src)
    PROVE  Ready
<1>1. phase # "thrown"
  BY DEF Main
<1>2. Matches(module, src) /\ Promising /\ Len(module.blocks) > Known
  BY <1>1 DEF PcodeInv, Compiled, Known
<1>3. Shaped(module, src, phase)
  BY <1>1 DEF ShapedInv
<1>4. Shaped(module, src, "running")
  BY <1>3 DEF Shaped, Main
<1> QED
  BY <1>2, <1>4 DEF Ready

\* What is said of the module and the source holds as long as they are the same.
LEMMA PosLater ==
    ASSUME UNCHANGED compiled, NEW l, NEW i
    PROVE  /\ Pos(l, i)' <=> Pos(l, i)
           /\ Inside(l, i)' <=> Inside(l, i)
           /\ NextStmt(l)' = NextStmt(l)
           /\ CodeAt(i)' = CodeAt(i)
           /\ Place' = Place
           /\ Size' = Size
<1>1. src' = src /\ module' = module
  BY DEF compiled
<1>2. Place' = Place
  BY <1>1 DEF Place
<1>3. Size' = Size
  BY <1>1 DEF Size
<1>4. (IsTag(i)' <=> IsTag(i)) /\ CodeAt(i)' = CodeAt(i)
  BY <1>1 DEF IsTag, CodeAt
<1>5. (InHead(l)' <=> InHead(l)) /\ (OnTag(l, i)' <=> OnTag(l, i)) /\ (InStmt(l, i)' <=> InStmt(l, i))
  BY <1>1, <1>2, <1>4 DEF InHead, OnTag, InStmt
<1>6. Pos(l, i)' <=> Pos(l, i)
  BY <1>2, <1>3, <1>4, <1>5 DEF Pos
<1>7. Inside(l, i)' <=> Inside(l, i)
  BY <1>3, <1>4, <1>5 DEF Inside
<1>8. NextStmt(l)' = NextStmt(l)
  BY <1>1 DEF NextStmt, Code
<1> QED
  BY <1>2, <1>3, <1>4, <1>6, <1>7, <1>8

LEMMA ValuesLater ==
    ASSUME UNCHANGED compiled, NEW ls, NEW rs, NEW vs
    PROVE  ValuesOk(ls, rs, vs)' <=> ValuesOk(ls, rs, vs)
<1>1. src' = src /\ module' = module
  BY DEF compiled
<1>2. ASSUME NEW l PROVE MainText(l)' = MainText(l) /\ MainMark(l)' = MainMark(l)
  <2>1. NextStmt(l)' = NextStmt(l) /\ Place' = Place
    BY PosLater
  <2> DEFINE i == NextStmt(l)
  <2>2. ASSUME NEW k PROVE (Inside(l, k)' <=> Inside(l, k)) /\ CodeAt(k)' = CodeAt(k)
    BY PosLater
  <2> QED
    BY <2>1, <2>2 DEF MainText, MainMark
<1>3. ASSUME NEW i, NEW l PROVE Text(i, l)' = Text(i, l) /\ Mark(i, l)' = Mark(i, l)
  BY <1>1, <1>2 DEF Text, Mark, Code
<1>4. ASSUME NEW i, NEW l, NEW ar PROVE StackIn(i, l, ar, vs)' = StackIn(i, l, ar, vs)
  BY <1>1, <1>3 DEF StackIn
<1>5. ASSUME NEW i, NEW l, NEW ar PROVE OnTop(i, l, ar, vs)' <=> OnTop(i, l, ar, vs)
  BY <1>3, <1>4 DEF OnTop
<1>6. ASSUME NEW c, NEW k, NEW callee, NEW n PROVE Calls(c, k, callee, n)' <=> Calls(c, k, callee, n)
  BY <1>1 DEF Calls
<1>7. ASSUME NEW i, NEW l, NEW ar, NEW callee, NEW args
      PROVE  Waits(i, l, ar, vs, callee, args)' <=> Waits(i, l, ar, vs, callee, args)
  BY <1>3, <1>4, <1>6 DEF Waits
<1>8. ASSUME NEW i PROVE ValueOk(i, ls, rs, vs)' <=> ValueOk(i, ls, rs, vs)
  BY <1>5, <1>7 DEF ValueOk
<1> QED
  BY <1>8 DEF ValuesOk

LEMMA ToldLater ==
    ASSUME UNCHANGED compiled, NEW m, Pos(loops'[1], m), ValuesOk(loops', ars', vals')
    PROVE  Told' /\ Pos(loops[1], m)' /\ ValuesOk(loops, ars, vals)'
<1>1. Pos(loops[1], m)'
  <2>1. \A l : Pos(l, m)' <=> Pos(l, m)
    BY PosLater
  <2> QED
    BY <2>1
<1>2. ValuesOk(loops, ars, vals)'
  <2>1. \A ls, rs, vs : ValuesOk(ls, rs, vs)' <=> ValuesOk(ls, rs, vs)
    BY ValuesLater
  <2> QED
    BY <2>1
<1> QED
  BY <1>1, <1>2 DEF Told

LEMMA BootTold ==
    ASSUME PcodeInv, ShapedInv, Boot
    PROVE  Ready /\ UNCHANGED compiled /\ Pos(loops'[1], 1) /\ ValuesOk(loops', ars', vals')
<1>1. phase \in Main /\ Legal(src) /\ UNCHANGED compiled /\ ars' = <<NewRecord>>
  BY DEF Boot, Main
<1>2. Ready
  BY <1>1, IsReady
<1> DEFINE l == Start(getMainBlock(module))
<1>3. loops' = <<l>>
  BY DEF Boot, Start
<1>4. InHead(l) /\ Pos(l, 1)
  BY <1>2, BootPos
<1>5. IsLoop(l)
  <2>1. Runs(<<l>>, <<NewRecord>>)
    BY <1>2, BootRuns DEF Ready, Start
  <2> HIDE DEF l
  <2>2. LoopsOk(<<l>>)
    BY <2>1 DEF Runs
  <2> QED
    BY <2>2 DEF LoopsOk
<1> HIDE DEF l
<1>6. Fresh(l)
  BY <1>2, <1>4, <1>5, FreshHead
<1> DEFINE ms == <<l>>
           qs == <<NewRecord>>
<1>7. ms[1] = l /\ Len(qs) = 1 /\ qs[1].tmps = <<>>
  BY DEF NewRecord
<1> HIDE DEF ms, qs
<1>8. Pos(ms[1], 1)
  BY <1>4, <1>7
<1>9. \A vs : ValuesOk(ms, qs, vs)
  BY <1>6, <1>7, FreshValues
<1>10. loops' = ms /\ ars' = qs
  BY <1>1, <1>3 DEF ms, qs
<1> QED
  BY <1>1, <1>2, <1>8, <1>9, <1>10

LEMMA ExecuteFrame ==
    ASSUME Execute
    PROVE  phase = "running" /\ UNCHANGED compiled
BY SMTT(60) DEF Execute, Pass, executeLi, executeLoad, executeRead, executeArg, executeOpr,
       executeStore, executeWrite, executeCall, executeRet, JumpIfTrue, Jump, EndOfBlock, Fetch

LEMMA CompileFrame ==
    ASSUME Compile
    PROVE  /\ phase \notin {"running", "ended"} /\ phase' \notin {"running", "ended"}
           /\ vals' = vals /\ event' = event
BY DEF Compile, visitFuncDef, BeginMain, visitVarDecl, Stmt, visitGetStmt, visitTagStmt,
       visitToStmt, visitLetStmt, visitIfStmt, visitPutStmt, Generate, Visit, Resting

LEMMA ExecTold ==
    ASSUME CallsMean, SourceInv, Execute
    PROVE  /\ Ready /\ UNCHANGED compiled /\ phase = "running" /\ IsLoop(loops[1])
           /\ \E m : /\ Pos(loops[1], m)
                     /\ \/ phase' = "running" /\ Goes(m, loops', ars', vals', event')
                        \/ phase' = "ended" /\ m = Size + 1 /\ vals' = vals /\ event' = event
<1>1. phase = "running" /\ UNCHANGED compiled
  BY ExecuteFrame
<1>2. Legal(src) /\ Runs(loops, ars) /\ phase \in Main
  BY <1>1 DEF SourceInv, PcodeInv, Main
<1>3. Ready
  BY <1>2, IsReady DEF SourceInv
<1>4. PICK m : Pos(loops[1], m) /\ ValuesOk(loops, ars, vals)
  BY <1>1 DEF SourceInv, Told
<1>5. Going(m)
  BY <1>2, <1>3, <1>4 DEF Going
<1>6. IsLoop(loops[1])
  <2>1. LoopsOk(loops) /\ Len(loops) \in Nat /\ Len(loops) > 0
    BY <1>2, <1>3, TopLoop DEF Runs, Ready
  <2>2. 1 \in 1 .. Len(loops)
    BY <2>1
  <2> QED
    BY <2>1, <2>2 DEF LoopsOk
<1> QED
  BY <1>1, <1>3, <1>4, <1>5, <1>6, ExecGoes

LEMMA NextTold == CallsMean /\ SourceInv /\ [PcodeNext]_vars => Told'
<1> SUFFICES ASSUME CallsMean, SourceInv, [PcodeNext]_vars PROVE Told'
  OBVIOUS
<1>1. CASE Compile
  BY <1>1, CompileFrame DEF Told
<1>2. CASE Boot
  BY <1>2, BootTold, ToldLater DEF SourceInv
<1>3. CASE Execute
  <2>1. PICK m : /\ Pos(loops[1], m)
                 /\ \/ phase' = "running" /\ Goes(m, loops', ars', vals', event')
                    \/ phase' = "ended"
    BY <1>3, ExecTold
  <2>2. CASE phase' = "running"
    <3>1. PICK j : Pos(loops'[1], j) /\ ValuesOk(loops', ars', vals')
      BY <2>1, <2>2 DEF Goes
    <3>2. UNCHANGED compiled
      BY <1>3, ExecuteFrame
    <3> QED
      BY <3>1, <3>2, ToldLater
  <2>3. CASE phase' = "ended"
    BY <2>3 DEF Told
  <2> QED
    BY <2>1, <2>2, <2>3
<1>4. CASE Stopped \/ UNCHANGED vars
  <2>1. UNCHANGED vars
    BY <1>4 DEF Stopped
  <2>2. CASE phase = "running"
    <3>1. PICK m : Pos(loops[1], m) /\ ValuesOk(loops, ars, vals)
      BY <2>2 DEF SourceInv, Told
    <3>2. /\ UNCHANGED compiled /\ loops' = loops /\ ars' = ars /\ vals' = vals
      BY <2>1 DEF vars, compiled
    <3>3. Pos(loops'[1], m) /\ ValuesOk(loops', ars', vals')
      BY <3>1, <3>2
    <3> QED
      BY <3>2, <3>3, ToldLater
  <2>3. CASE phase # "running"
    BY <2>1, <2>3 DEF Told, vars
  <2> QED
    BY <2>2, <2>3
<1> QED
  BY <1>1, <1>2, <1>3, <1>4 DEF PcodeNext

LEMMA NextSource == CallsMean /\ SourceInv /\ [PcodeNext]_vars => SourceInv'
<1> SUFFICES ASSUME CallsMean, SourceInv, [PcodeNext]_vars PROVE SourceInv'
  OBVIOUS
<1>1. PcodeInv' /\ ShapedInv' /\ Told'
  BY NextPcode, NextShaped, NextTold DEF SourceInv, PcodeInv
<1> QED
  BY <1>1 DEF SourceInv

-----------------------------------------------------------------------------
(***************************************************************************)
(* The source's definitions, on this program, are those of the modules     *)
(* this one extends.                                                       *)
(***************************************************************************)
LEMMA SourceEval ==
    ASSUME NEW e, NEW rho, NEW p
    PROVE  Source!Eval(e, rho, p) = Eval(e, rho, p)
BY DEF Source!Eval, Eval, Source!ValueOf, ValueOf, Source!SubExps, SubExps, Source!PartsAt, PartsAt,
       Source!Children, Children, Source!FuncNamed, FuncNamed, Source!RanOf, RanOf

LEMMA SourceWellFormed ==
    ASSUME NEW e, NEW variables, NEW p, NEW j
    PROVE  Source!WellFormed(e, variables, p, j) <=> WellFormed(e, variables, p, j)
BY DEF Source!WellFormed, WellFormed, Source!SubExps, SubExps, Source!PartsAt, PartsAt, Source!Children, Children

LEMMA SourceCard == ASSUME NEW T PROVE Source!Cardinality(T) = Card(T)
BY DEF Source!Cardinality, Card

LEMMA SourceNames ==
    ASSUME NEW p, NEW s
    PROVE  /\ Source!Definitions(p, s) = Definitions(p, s)
           /\ Source!Declared(p) = Declared(p)
           /\ Source!RanOf(s) = RanOf(s)
           /\ Source!Defined(p) = Defined(p)
BY DEF Source!Definitions, Definitions, Source!Declared, Declared, Source!RanOf, RanOf, Source!Defined, Defined

LEMMA SourceLegalStmt == ASSUME NEW p, NEW s PROVE Source!LegalStmt(p, s) <=> LegalStmt(p, s)
BY SourceWellFormed, SourceCard, SourceNames, LegalStmtIs DEF Source!LegalStmt

LEMMA SourceLegalFunc == ASSUME NEW p, NEW j PROVE Source!LegalFunc(p, j) <=> LegalFunc(p, j)
BY SourceWellFormed, SourceCard, SourceNames, LegalFuncIs DEF Source!LegalFunc

LEMMA SourceLegal == ASSUME NEW p PROVE Source!Legal(p) <=> Legal(p)
BY SourceCard, SourceNames, SourceLegalStmt, SourceLegalFunc, LegalIs DEF Source!Legal, Source!LegalSoFar

\* The one tag of its name is where a jump leads.
LEMMA SourceTag ==
    ASSUME Ready, Booted, NEW j, NEW t, Leads(j, t)
    PROVE  j \in Source!Entries(t)
<1> DEFINE D == Definitions(src, t)
<1>1. LegalSoFar(src) /\ IsSeq(src.stmts) /\ DOMAIN src.stmts = 1 .. Size
  BY ReadyFacts DEF Ready, Legal
<1>2. j \in D
  BY <1>1 DEF Leads, IsTag, Definitions
<1>3. ASSUME NEW i \in D PROVE i = j
  BY <1>1, <1>3, OneTag DEF Leads, IsTag, Definitions
<1> HIDE DEF D
<1>4. (CHOOSE i \in D : TRUE) = j
  BY <1>2, <1>3
<1>5. Source!TagAt(t) = j
  <2>1. Source!Definitions(src, t) = D
    BY SourceNames DEF D
  <2> QED
    BY <1>4, <2>1 DEF Source!TagAt
<1> QED
  BY <1>5 DEF Source!Entries

-----------------------------------------------------------------------------
(***************************************************************************)
(* Every step is one of the source's, or none.                             *)
(***************************************************************************)
LEMMA RunningPc ==
    ASSUME Ready, phase = "running", IsLoop(loops[1]), NEW m, Pos(loops[1], m)
    PROVE  Booted /\ SourcePc = m /\ (IF Booted THEN src ELSE EmptyProgram) = src
BY NextAtPos DEF Booted, SourcePc

LEMMA RunningPcLater ==
    ASSUME Ready, UNCHANGED compiled, phase' = "running", IsLoop(loops'[1]), NEW j, Pos(loops'[1], j)
    PROVE  Booted' /\ SourcePc' = j /\ (IF Booted THEN src ELSE EmptyProgram)' = src
<1>1. NextStmt(loops'[1]) = j
  BY NextAtPos
<1>2. NextStmt(loops[1])' = j
  <2>1. \A l : NextStmt(l)' = NextStmt(l)
    BY PosLater
  <2> QED
    BY <1>1, <2>1
<1> QED
  BY <1>2 DEF Booted, SourcePc, compiled

LEMMA SimBoot ==
    ASSUME PcodeInv, ShapedInv, Boot
    PROVE  Source!Load
<1>1. Ready /\ UNCHANGED compiled /\ Pos(loops'[1], 1) /\ phase' = "running" /\ phase \notin {"running", "ended"}
  BY BootTold DEF Boot
<1>2. IsLoop(loops'[1])
  <2>1. InHead(loops'[1]) /\ Runs(<<Start(getMainBlock(module))>>, <<NewRecord>>)
    BY <1>1, BootPos, BootRuns DEF Ready, Start, Boot
  <2> DEFINE l == Start(getMainBlock(module))
  <2>2. loops' = <<l>>
    BY DEF Boot, Start
  <2> HIDE DEF l
  <2>3. LoopsOk(<<l>>)
    BY <2>1 DEF Runs, l
  <2> QED
    BY <2>2, <2>3 DEF LoopsOk
<1>3. Booted' /\ SourcePc' = 1 /\ (IF Booted THEN src ELSE EmptyProgram)' = src
  BY <1>1, <1>2, RunningPcLater
<1>4. SourcePc = 0
  BY <1>1 DEF SourcePc
<1>5. Source!Legal(src)
  BY SourceLegal DEF Boot
<1>6. vals' = vals /\ event' = event
  BY DEF Boot
<1> QED
  BY <1>3, <1>4, <1>5, <1>6 DEF Source!Load

\* Statement m is executed, and j the next one.
LEMMA SimStmt ==
    ASSUME Ready, UNCHANGED compiled, Booted, NEW m, SourcePc = m, NEW j, SourcePc' = j,
           (IF Booted THEN src ELSE EmptyProgram) = src, (IF Booted THEN src ELSE EmptyProgram)' = src,
           Does(m, j, vals', event')
    PROVE  Source!Next
<1> DEFINE s == src.stmts[m]
<1>1. m \in DOMAIN src.stmts
  BY ReadyFacts DEF Does
<1>2. Source!S = s
  BY DEF Source!S
<1>3. ASSUME NEW kind, s.k = kind PROVE Source!At(kind)
  BY <1>1, <1>3 DEF Source!At
<1>4. Source!Eval(s.e, Source!Rho, src) = ValueAt(m)
  <2>1. Source!Rho = Rho(vals)
    BY DEF Source!Rho, Rho
  <2> QED
    BY <2>1, SourceEval DEF ValueAt
<1>5. ASSUME NEW t, Leads(j, t) PROVE j \in Source!Entries(t)
  BY <1>5, SourceTag
<1>6. CASE s.k = "tag" /\ j = m + 1 /\ vals' = vals /\ event' = event
  BY <1>3, <1>6 DEF Source!Next, Source!Tag
<1>7. CASE s.k = "get" /\ j = m + 1 /\ vals' = [vals EXCEPT ![s.n] = m]
                       /\ event' = [stmt |-> m, val |-> [op |-> "read"]]
  BY <1>2, <1>3, <1>7 DEF Source!Next, Source!Get
<1>8. CASE s.k = "let" /\ j = m + 1 /\ vals' = [vals EXCEPT ![s.n] = m]
                       /\ event' = [stmt |-> m, val |-> ValueAt(m)]
  BY <1>2, <1>3, <1>4, <1>8 DEF Source!Next, Source!Let
<1>9. CASE s.k = "put" /\ j = m + 1 /\ vals' = vals /\ event' = [stmt |-> m, val |-> ValueAt(m)]
  BY <1>2, <1>3, <1>4, <1>9 DEF Source!Next, Source!Put
<1>10. CASE s.k = "to" /\ Leads(j, s.n) /\ vals' = vals /\ event' = event
  BY <1>2, <1>3, <1>5, <1>10 DEF Source!Next, Source!To
<1>11. CASE s.k = "if" /\ vals' = vals
                       /\ \E taken \in BOOLEAN :
                             /\ event' = [stmt |-> m, val |-> ValueAt(m), taken |-> taken]
                             /\ IF taken THEN Leads(j, s.n) ELSE j = m + 1
  <2>1. PICK taken \in BOOLEAN : /\ event' = [stmt |-> m, val |-> ValueAt(m), taken |-> taken]
                                 /\ IF taken THEN Leads(j, s.n) ELSE j = m + 1
    BY <1>11
  <2>2. j \in IF taken THEN Source!Entries(s.n) ELSE {m + 1}
    BY <2>1, <1>5
  <2>3. Source!If
    BY <1>2, <1>3, <1>4, <1>11, <2>1, <2>2 DEF Source!If
  <2> QED
    BY <2>3 DEF Source!Next
<1> QED
  BY <1>6, <1>7, <1>8, <1>9, <1>10, <1>11 DEF Does

LEMMA SimExecute ==
    ASSUME CallsMean, SourceInv, Execute
    PROVE  [Source!Next]_Source!sourceVars
<1>1. PICK m : /\ Ready /\ UNCHANGED compiled /\ phase = "running" /\ IsLoop(loops[1])
               /\ Pos(loops[1], m)
               /\ \/ phase' = "running" /\ Goes(m, loops', ars', vals', event')
                  \/ phase' = "ended" /\ m = Size + 1 /\ vals' = vals /\ event' = event
  BY ExecTold
<1>2. Booted /\ SourcePc = m /\ (IF Booted THEN src ELSE EmptyProgram) = src
  BY <1>1, RunningPc
<1>3. CASE phase' = "running" /\ Goes(m, loops', ars', vals', event')
  <2>1. PICK j : Pos(loops'[1], j) /\ Meant(m, j, vals', event')
    BY <1>3 DEF Goes
  <2>2. IsLoop(loops'[1])
    <3>1. Runs(loops', ars')
      BY <1>1, ExecRuns DEF Ready, SourceInv, PcodeInv
    <3>2. IsSeq(loops') /\ Len(loops') > 0 /\ \A i \in 1 .. Len(loops') : IsLoop(loops'[i])
      BY <3>1 DEF Runs, LoopsOk
    <3> DEFINE L == Len(loops')
    <3>3. L \in Nat /\ L > 0
      BY <3>2, SeqFacts
    <3> HIDE DEF L
    <3>4. 1 \in 1 .. L
      BY <3>3
    <3> QED
      BY <3>2, <3>4 DEF L
  <2>3. Booted' /\ SourcePc' = j /\ (IF Booted THEN src ELSE EmptyProgram)' = src
    BY <1>1, <1>3, <2>1, <2>2, RunningPcLater
  <2>4. CASE Does(m, j, vals', event')
    BY <1>1, <1>2, <2>3, <2>4, SimStmt
  <2>5. CASE j = m /\ vals' = vals /\ event' = event
    BY <1>2, <2>3, <2>5 DEF Source!sourceVars
  <2> QED
    BY <2>1, <2>4, <2>5 DEF Meant
<1>4. CASE phase' = "ended" /\ m = Size + 1 /\ vals' = vals /\ event' = event
  <2>1. src' = src
    BY <1>1 DEF compiled
  <2>2. Booted' /\ SourcePc' = Size + 2 /\ (IF Booted THEN src ELSE EmptyProgram)' = src
    BY <1>4, <2>1 DEF Booted, SourcePc, Size
  <2>3. Size \in Nat
    BY <1>1, ReadyFacts
  <2>4. Size + 2 = (Size + 1) + 1
    BY <2>3
  <2>5. Source!Exit
    BY <1>2, <1>4, <2>2, <2>4 DEF Source!Exit, Size
  <2> QED
    BY <2>5 DEF Source!Next
<1> QED
  BY SMTT(60), <1>1, <1>3, <1>4

LEMMA SimNext == CallsMean /\ SourceInv /\ [PcodeNext]_vars => [Source!Next]_Source!sourceVars
<1> SUFFICES ASSUME CallsMean, SourceInv, [PcodeNext]_vars PROVE [Source!Next]_Source!sourceVars
  OBVIOUS
<1>1. CASE Compile
  BY <1>1, CompileFrame DEF Booted, SourcePc, Source!sourceVars
<1>2. CASE Boot
  BY <1>2, SimBoot DEF SourceInv, Source!Next
<1>3. CASE Execute
  BY <1>3, SimExecute
<1>4. CASE Stopped \/ UNCHANGED vars
  <2>1. UNCHANGED vars
    BY <1>4 DEF Stopped
  <2>2. /\ phase' = phase /\ src' = src /\ loops' = loops /\ vals' = vals /\ event' = event
        /\ UNCHANGED compiled
    BY <2>1 DEF vars, compiled
  <2>3. NextStmt(loops[1])' = NextStmt(loops[1])
    <3>1. \A l : NextStmt(l)' = NextStmt(l)
      BY <2>2, PosLater
    <3> QED
      BY <2>2, <3>1
  <2>4. SourcePc' = SourcePc /\ Booted' = Booted
    BY <2>2, <2>3 DEF SourcePc, Booted
  <2> QED
    BY <2>2, <2>4 DEF Source!sourceVars
<1> QED
  BY <1>1, <1>2, <1>3, <1>4 DEF PcodeNext

LEMMA InitSource == Init => SourceInv /\ Source!Init
<1> SUFFICES ASSUME Init PROVE SourceInv /\ Source!Init
  OBVIOUS
<1>1. SourceInv
  BY InitPcode, InitShaped DEF SourceInv, Told, Init
<1>2. Source!Init
  BY DEF Init, Source!Init, Booted, SourcePc, EmptyProgram, Source!EmptyProgram, Source!NoEvent
<1> QED
  BY <1>1, <1>2

\* The stack code refines the source: where it is in its blocks, together with
\* the frames of the calls it is in, corresponds to one statement of the
\* program, and it reads, writes, assigns, tests and jumps as that statement
\* does, with the values the program's expressions have (PcodeVisitor,
\* PcodeRuntime).
THEOREM PcodeRefinesSource == CallsMean => (PcodeSpec => RefinesSource)
<1> SUFFICES ASSUME CallsMean PROVE PcodeSpec => RefinesSource
  OBVIOUS
<1>1. Init => SourceInv /\ Source!Init
  BY InitSource
<1>2. SourceInv /\ [PcodeNext]_vars => SourceInv'
  BY NextSource
<1>3. SourceInv /\ [PcodeNext]_vars => [Source!Next]_Source!sourceVars
  BY SimNext
<1> QED
  BY <1>1, <1>2, <1>3, PTL DEF PcodeSpec, RefinesSource, Source!Spec
=============================================================================
