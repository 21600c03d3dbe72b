---------------------------- MODULE HandlerProofs ----------------------------
(***************************************************************************)
(* The inductive invariant of Translator: after every handler the manager  *)
(* fits the values computed and not yet used, and during a call the words  *)
(* written so far are where the locals of translate(CallInstPtr) say.      *)
(***************************************************************************)
EXTENDS TranslatorProofs

-----------------------------------------------------------------------------
(***************************************************************************)
(* What the translator has in hand, from its operand stack s, the          *)
(* constants k of it and the call c it is in.                              *)
(***************************************************************************)
Inj(s) == \A i, j \in DOMAIN s : s[i] = s[j] => i = j

\* The arguments the loop over them has stored.
Stored(c) == {c.args[i] : i \in 1 .. c.done}

\* The values the table must know: a constant only from its first use.
Kept(s, k, c) == (Ran(s) \ k) \cup Stored(c)

\* Where the variables declared are.
Home(hs) == [x \in Vars |-> IF x \in Ran(hs)
                            THEN OnStack(1 - (CHOOSE i \in DOMAIN hs : hs[i] = x))
                            ELSE Nowhere]

\* Of the values in hand only the result of a compare is in an integer register.
FitFor(m, p, s, k, c, hs) ==
    LET E == Kept(s, k, c)
    IN  Fit(m, IF p = "cond" THEN {} ELSE E, IF p = "cond" THEN E ELSE {},
            Home(hs), E \cup Ran(hs))

-----------------------------------------------------------------------------
(***************************************************************************)
(* The invariant.                                                          *)
(***************************************************************************)
Calling == phase \in {"args", "jal"}

\* How the operand stack, its constants and the locals of a call agree with
\* what the visitor may emit next.
Shape ==
    /\ Inj(stack) /\ Inj(homes)
    /\ consts \subseteq Ran(stack)
    /\ phase \in {"idle", "entry", "end"} => stack = <<>>
    /\ phase \in {"input", "cond"} => Len(stack) = 1 /\ consts = {}
    /\ phase # "input" => Len(stack) <= MaxLive
    /\ ~Calling => call = NoCall
    /\ Calling =>
          /\ Len(call.args) <= Len(stack) /\ call.args = Operands(Len(call.args))
          /\ call.done <= Len(call.args)
          /\ call.args = <<>> => Len(stack) < MaxLive
          /\ call.pushSet \subseteq (Ran(stack) \ consts) \ Ran(call.args)
    /\ phase = "jal" => call.done = Len(call.args) /\ call.pushSet = {}

\* The manager fits, or has ended the compiler.
Fitted ==
    /\ FitFor(mgr, phase, stack, consts, call, homes)
    /\ mgr.status = "dead" => Gone(mgr)

\* Where the frame cursor is, and what a call has put in the words above it.
Placed ==
    mgr.status = "ok" =>
        /\ phase = "entry" => mgr.off = 0 - Len(homes)
        /\ phase = "args" /\ call.done < Len(call.args) =>
              mgr.off >= call.pos + 1 + Cardinality(call.pushSet)
        /\ Calling => \A v \in Kept(stack, consts, call) :
              mgr.occ[v].ty = "float" => v \in call.pushSet \cup Ran(call.args)
        /\ phase = "jal" /\ Slots = Int => mgr.stk[mgr.off + 1] = RetAddr
        /\ Roomy /\ phase = "args" =>
              mgr.off = call.pos + 1 + Cardinality(call.pushSet) + call.done
        /\ Roomy /\ phase = "jal" => mgr.off = call.pos + call.done
        /\ Roomy /\ Calling => \A n \in call.pushSet : mgr.occ[n].ty = "float"
        /\ Roomy /\ Calling /\ Slots = Int /\ ~mgr.misread =>
              \A i \in 1 .. call.done :
                 mgr.stk[call.pos + call.done - (i - 1)] = call.args[i]

HandlerInv == FrameInv /\ Shape /\ Fitted /\ Placed

-----------------------------------------------------------------------------
(***************************************************************************)
(* Lemmas about the operand stack.                                         *)
(***************************************************************************)

LEMMA RanCount ==
    ASSUME NEW S, NEW s \in Seq(S)
    PROVE  IsFiniteSet(Ran(s)) /\ Cardinality(Ran(s)) <= Len(s)
<1>1. Len(s) \in Nat /\ DOMAIN s = 1 .. Len(s)
  OBVIOUS
<1>2. IsFiniteSet(1 .. Len(s)) /\ Cardinality(1 .. Len(s)) = Len(s)
  BY SMTT(60), <1>1, FS_Interval
<1>3. s \in Surjection(1 .. Len(s), Ran(s))
  BY <1>1 DEF Surjection, Ran
<1> QED
  BY <1>2, <1>3, FS_Surjection

LEMMA AppendFacts ==
    ASSUME NEW S, NEW s \in Seq(S), NEW v \in S
    PROVE  /\ Ran(Append(s, v)) = Ran(s) \cup {v}
           /\ Len(Append(s, v)) = Len(s) + 1
           /\ Inj(s) /\ v \notin Ran(s) => Inj(Append(s, v))
<1> DEFINE t == Append(s, v)
<1>1. Len(s) \in Nat /\ DOMAIN s = 1 .. Len(s)
  OBVIOUS
<1>2. /\ DOMAIN t = 1 .. (Len(s) + 1) /\ Len(t) = Len(s) + 1
      /\ \A i \in 1 .. Len(s) : t[i] = s[i]
      /\ t[Len(s) + 1] = v
  OBVIOUS
<1> HIDE DEF t
<1>3. Ran(t) = Ran(s) \cup {v}
  BY <1>1, <1>2 DEF Ran
<1>4. ASSUME Inj(s), v \notin Ran(s)
      PROVE  Inj(t)
  BY <1>1, <1>2, <1>4 DEF Inj, Ran
<1> QED
  BY <1>2, <1>3, <1>4 DEF t

\* Taking the last n operands of the stack.
LEMMA PopFacts ==
    ASSUME stack \in Seq(Values), Inj(stack), NEW n \in 0 .. Len(stack)
    PROVE  /\ Operands(n) \in Seq(Values) /\ Below(n) \in Seq(Values)
           /\ Len(Operands(n)) = n /\ Len(Below(n)) = Len(stack) - n
           /\ \A i \in 1 .. n : Operands(n)[i] = stack[Len(stack) - n + i]
           /\ Ran(Operands(n)) \subseteq Ran(stack)
           /\ Ran(Below(n)) = Ran(stack) \ Ran(Operands(n))
           /\ Inj(Operands(n)) /\ Inj(Below(n))
<1> DEFINE s == stack
           l == Len(stack)
           o == Operands(n)
           b == Below(n)
<1>1. l \in Nat /\ n \in Nat /\ n <= l /\ DOMAIN s = 1 .. l
      /\ \A i \in 1 .. l : s[i] \in Values
  OBVIOUS
<1>2. /\ o \in Seq(Values) /\ Len(o) = n /\ DOMAIN o = 1 .. n
      /\ \A i \in 1 .. n : o[i] = s[l - n + i]
  BY <1>1 DEF Operands
<1>3. /\ b \in Seq(Values) /\ Len(b) = l - n /\ DOMAIN b = 1 .. (l - n)
      /\ \A i \in 1 .. (l - n) : b[i] = s[i]
  <2>1. \A i \in 1 .. (l - n) : s[i] \in Values
    BY <1>1
  <2>2. b \in Seq(Values)
    BY <1>1, <2>1, SubSeqProperties DEF Below
  <2>3. Len(b) = (IF 1 <= l - n THEN l - n - 1 + 1 ELSE 0)
    BY <1>1, <2>1, SubSeqProperties DEF Below
  <2>4. \A i \in 1 .. (l - n - 1 + 1) : b[i] = s[1 + i - 1]
    BY <1>1, <2>1, SubSeqProperties DEF Below
  <2> HIDE DEF b, l
  <2> QED
    BY <1>1, <2>2, <2>3, <2>4
<1> HIDE DEF o, b, l
<1>4. Ran(o) \subseteq Ran(s)
  BY <1>1, <1>2 DEF Ran
<1>5. Ran(b) = Ran(s) \ Ran(o)
  <2>1. ASSUME NEW i \in 1 .. (l - n)
        PROVE  b[i] \in Ran(s) \ Ran(o)
    <3>1. b[i] = s[i] /\ i \in 1 .. l
      BY <1>1, <1>3
    <3>2. ASSUME NEW j \in 1 .. n PROVE o[j] # s[i]
      <4>1. o[j] = s[l - n + j] /\ l - n + j \in 1 .. l /\ l - n + j # i
        BY <1>1, <1>2
      <4> QED
        BY <1>1, <3>1, <4>1 DEF Inj
    <3> QED
      BY <1>1, <1>2, <3>1, <3>2 DEF Ran
  <2>2. ASSUME NEW i \in 1 .. l, s[i] \notin Ran(o)
        PROVE  s[i] \in Ran(b)
    <3>1. CASE i <= l - n
      BY <1>1, <1>3, <3>1 DEF Ran
    <3>2. CASE i > l - n
      <4>1. i - (l - n) \in 1 .. n /\ l - n + (i - (l - n)) = i
        BY <1>1, <3>2
      <4>2. o[i - (l - n)] = s[i]
        BY <1>2, <4>1
      <4> QED
        BY <1>2, <2>2, <4>1, <4>2 DEF Ran
    <3> QED
      BY <1>1, <3>1, <3>2
  <2> QED
    BY <1>1, <1>3, <2>1, <2>2 DEF Ran
<1>6. Inj(o)
  <2> SUFFICES ASSUME NEW i \in 1 .. n, NEW j \in 1 .. n, o[i] = o[j]
               PROVE  i = j
    BY <1>2 DEF Inj
  <2>1. /\ s[l - n + i] = s[l - n + j]
        /\ l - n + i \in 1 .. l /\ l - n + j \in 1 .. l
    BY <1>1, <1>2
  <2>2. l - n + i = l - n + j
    BY <1>1, <2>1 DEF Inj
  <2> QED
    BY <1>1, <2>2
<1>7. Inj(b)
  BY <1>1, <1>3 DEF Inj
<1> QED
  BY <1>1, <1>2, <1>3, <1>4, <1>5, <1>6, <1>7 DEF o, b, l

\* The last operand, the last two, and a stack of one.
LEMMA TopFacts ==
    ASSUME stack \in Seq(Values), Inj(stack), Len(stack) >= 1
    PROVE  /\ Top \in Values /\ Top \in Ran(stack)
           /\ Ran(Operands(1)) = {Top}
           /\ Len(stack) = 1 => Ran(stack) = {Top}
<1> DEFINE o == Operands(1)
           l == Len(stack)
<1>1. l \in Nat /\ 1 \in 0 .. l /\ l \in 1 .. l /\ DOMAIN stack = 1 .. l
      /\ \A i \in 1 .. l : stack[i] \in Values
  BY SMTT(60)
<1>2. o \in Seq(Values) /\ Len(o) = 1 /\ \A i \in 1 .. 1 : o[i] = stack[l - 1 + i]
  BY <1>1, PopFacts
<1> HIDE DEF o
<1>3. DOMAIN o = {1} /\ o[1] = stack[l]
  <2>1. 1 \in 1 .. 1 /\ l - 1 + 1 = l
    BY <1>1
  <2>2. DOMAIN o = 1 .. 1
    BY <1>2
  <2> QED
    BY <1>2, <2>1, <2>2
<1> HIDE DEF l
<1>4. Ran(o) = {Top}
  BY <1>3 DEF Ran, Top, l
<1>5. Top \in Values /\ Top \in Ran(stack)
  BY <1>1 DEF Ran, Top, l
<1>6. l = 1 => Ran(stack) = {Top}
  <2>1. 1 .. 1 = {1}
    OBVIOUS
  <2> QED
    BY <1>1, <2>1 DEF Ran, Top, l
<1> QED
  BY <1>4, <1>5, <1>6 DEF o, l

LEMMA PairFacts ==
    ASSUME stack \in Seq(Values), Inj(stack), Len(stack) >= 2
    PROVE  LET x == Operands(2)[1]
               y == Operands(2)[2]
           IN  /\ x \in Ran(stack) /\ y \in Ran(stack) /\ x # y
               /\ x \in Values /\ y \in Values
               /\ Ran(Operands(2)) = {x, y}
               /\ Len(stack) = 2 => Ran(stack) = {x, y} /\ stack[1] = x /\ stack[2] = y
<1> DEFINE o == Operands(2)
<1>1. 2 \in 0 .. Len(stack) /\ Len(stack) \in Nat /\ DOMAIN stack = 1 .. Len(stack)
      /\ \A i \in 1 .. Len(stack) : stack[i] \in Values
  BY SMTT(60)
<1>2. /\ Len(o) = 2 /\ o \in Seq(Values) /\ Inj(o) /\ Ran(o) \subseteq Ran(stack)
      /\ \A i \in 1 .. 2 : o[i] = stack[Len(stack) - 2 + i]
  BY <1>1, PopFacts
<1> HIDE DEF o
<1>3. DOMAIN o = 1 .. 2 /\ 1 \in 1 .. 2 /\ 2 \in 1 .. 2 /\ 1 # 2
  BY <1>2
<1>4. o[1] # o[2] /\ Ran(o) = {o[1], o[2]}
  BY <1>2, <1>3 DEF Inj, Ran
<1>5. Ran(stack) \subseteq Values
  BY RanType
<1>6. ASSUME Len(stack) = 2
      PROVE  Ran(stack) = {o[1], o[2]} /\ stack[1] = o[1] /\ stack[2] = o[2]
  BY <1>1, <1>2, <1>3, <1>6 DEF Ran
<1> QED
  BY <1>2, <1>4, <1>5, <1>6 DEF o

-----------------------------------------------------------------------------
(***************************************************************************)
(* Lemmas about what the translator has in hand.                           *)
(***************************************************************************)

LEMMA KeptFacts ==
    /\ \A s, k : Kept(s, k, NoCall) = Ran(s) \ k
    /\ Ran(<<>>) = {} /\ Inj(<<>>)
    /\ \A v : Ran(<<v>>) = {v} /\ Inj(<<v>>) /\ Len(<<v>>) = 1
BY DEF Kept, Stored, NoCall, Ran, Inj

\* Outside a call.
LEMMA CalmFacts ==
    ASSUME TypeOK, Shape, ~Calling
    PROVE  /\ Kept(stack, consts, call) = Ran(stack) \ consts
           /\ Kept(stack, consts, call) \subseteq Ran(stack)
           /\ Kept(stack, consts, call) \in SUBSET Values
           /\ Kept(stack, consts, call) \cup Ran(homes) \in SUBSET Names
<1>1. Ran(stack) \subseteq Values /\ Ran(homes) \subseteq Vars
  BY RanType DEF TypeOK
<1> QED
  BY <1>1, KeptFacts, NameFacts DEF Shape

\* During a call.
LEMMA CallFacts ==
    ASSUME TypeOK, Shape, Calling
    PROVE  /\ Len(call.args) \in 0 .. Len(stack) /\ Len(call.args) \in Nat
           /\ call.args \in Seq(Values) /\ Inj(call.args)
           /\ Ran(call.args) = Ran(Operands(Len(call.args)))
           /\ Ran(call.args) \subseteq Ran(stack)
           /\ \A i \in 1 .. Len(call.args) : call.args[i] \in Ran(call.args)
           /\ call.done \in 0 .. Len(call.args)
           /\ Stored(call) \subseteq Ran(call.args)
           /\ call.done = Len(call.args) => Stored(call) = Ran(call.args)
           /\ Kept(stack, consts, call) \subseteq Ran(stack)
           /\ Kept(stack, consts, call) \in SUBSET Values
           /\ Kept(stack, consts, call) \cup Ran(homes) \in SUBSET Names
           /\ call.pushSet \subseteq Kept(stack, consts, call) \ Ran(call.args)
           /\ IsFiniteSet(call.pushSet) /\ Cardinality(call.pushSet) \in Nat
           /\ call.pos \in Int
           /\ Len(stack) <= MaxLive
<1> DEFINE a == call.args
           n == Len(a)
<1>1. /\ call \in [args : Seq(Values), done : Nat, pushSet : SUBSET Names, pos : Int]
      /\ stack \in Seq(Values) /\ homes \in Seq(Vars) /\ Inj(stack)
  BY DEF TypeOK, Shape
<1>2. a \in Seq(Values) /\ n \in Nat /\ DOMAIN a = 1 .. n /\ call.done \in Nat /\ call.pos \in Int
  BY <1>1
<1>3. n <= Len(stack) /\ a = Operands(n) /\ call.done <= n
      /\ call.pushSet \subseteq (Ran(stack) \ consts) \ Ran(a)
      /\ Len(stack) <= MaxLive
  BY DEF Shape, Calling
<1>4. n \in 0 .. Len(stack) /\ Len(stack) \in Nat
  BY <1>1, <1>2, <1>3
<1>5. Inj(Operands(n)) /\ Ran(Operands(n)) \subseteq Ran(stack)
  BY <1>1, <1>4, PopFacts
<1> HIDE DEF n, a
<1>6. \A i \in 1 .. n : a[i] \in Ran(a)
  BY <1>2 DEF Ran
<1>7. Stored(call) \subseteq Ran(a) /\ (call.done = n => Stored(call) = Ran(a))
  BY <1>2, <1>3 DEF Stored, Ran, a
<1>8. Ran(stack) \subseteq Values /\ Ran(homes) \subseteq Vars
  BY <1>1, RanType
<1>9. Kept(stack, consts, call) \subseteq Ran(stack)
  BY <1>3, <1>5, <1>7 DEF Kept
<1>10. IsFiniteSet(call.pushSet) /\ Cardinality(call.pushSet) \in Nat
  <2>1. IsFiniteSet(Ran(stack)) /\ call.pushSet \subseteq Ran(stack)
    BY <1>1, <1>3, RanCount
  <2> QED
    BY <2>1, FS_Subset, FS_CardinalityType
<1>11. call.pushSet \subseteq Kept(stack, consts, call) \ Ran(a)
  BY <1>3 DEF Kept
<1>12. Kept(stack, consts, call) \in SUBSET Values
       /\ Kept(stack, consts, call) \cup Ran(homes) \in SUBSET Names
  BY <1>8, <1>9, NameFacts
<1>13. call.done \in 0 .. n
  BY <1>2, <1>3
<1> QED
  BY <1>2, <1>3, <1>4, <1>5, <1>6, <1>7, <1>9, <1>10, <1>11, <1>12, <1>13 DEF a, n

\* On a roomy machine the values in hand leave a register free.
LEMMA FewFacts ==
    ASSUME TypeOK, Shape, Roomy
    PROVE  /\ \A F \in SUBSET Ran(stack) : Cardinality(F) < FLOATCOUNT - 2
           /\ Len(stack) <= MaxLive =>
                 \A v : \A F \in SUBSET (Ran(stack) \cup {v}) :
                    Cardinality(F) < FLOATCOUNT - 2
<1>1. /\ MaxLive \in Nat /\ FLOATCOUNT \in Nat /\ FLOATCOUNT >= MaxLive + 4
      /\ Len(stack) \in Nat
  BY BoundAssumption, MachineAssumption DEF Roomy, TypeOK
<1>2. IsFiniteSet(Ran(stack)) /\ Cardinality(Ran(stack)) <= Len(stack)
  BY RanCount DEF TypeOK
<1>3. Cardinality(Ran(stack)) \in Nat
  BY <1>2, FS_CardinalityType
<1>4. Len(stack) <= MaxLive + 1
  <2>1. CASE phase = "input"
    BY <1>1, <2>1 DEF Shape
  <2>2. CASE phase # "input"
    BY <1>1, <2>2 DEF Shape
  <2> QED
    BY <2>1, <2>2
<1>5. ASSUME NEW F \in SUBSET Ran(stack)
      PROVE  Cardinality(F) < FLOATCOUNT - 2
  <2>1. Cardinality(F) <= Cardinality(Ran(stack)) /\ Cardinality(F) \in Nat
    BY <1>2, FS_Subset, FS_CardinalityType
  <2> QED
    BY <1>1, <1>2, <1>3, <1>4, <2>1
<1>6. ASSUME Len(stack) <= MaxLive, NEW v, NEW F \in SUBSET (Ran(stack) \cup {v})
      PROVE  Cardinality(F) < FLOATCOUNT - 2
  <2> DEFINE R == Ran(stack) \cup {v}
  <2>1. IsFiniteSet(R) /\ Cardinality(R) <= Cardinality(Ran(stack)) + 1
        /\ Cardinality(R) \in Nat
    <3>1. IsFiniteSet(R) /\ Cardinality(R) = IF v \in Ran(stack) THEN Cardinality(Ran(stack))
                                              ELSE Cardinality(Ran(stack)) + 1
      BY <1>2, FS_AddElement
    <3> QED
      BY <1>3, <3>1
  <2>2. Cardinality(F) <= Cardinality(R) /\ Cardinality(F) \in Nat
    BY <2>1, FS_Subset, FS_CardinalityType
  <2> QED
    BY <1>1, <1>2, <1>3, <1>6, <2>1, <2>2
<1> QED
  BY <1>5, <1>6

\* An instruction takes n operands and leaves a new value.
LEMMA PoppedFacts ==
    ASSUME TypeOK, Shape, NEW n \in 0 .. Len(stack), NEW v \in Values, Fresh(v)
    PROVE  LET s == Append(Below(n), v)
               k == consts \ Ran(Operands(n))
           IN  /\ v \notin Ran(stack) /\ v \notin consts /\ v \notin Ran(Operands(n))
               /\ Ran(s) = (Ran(stack) \ Ran(Operands(n))) \cup {v}
               /\ Len(s) = Len(stack) - n + 1
               /\ Inj(s) /\ k \subseteq Ran(s)
               /\ Ran(s) \ k = ((Ran(stack) \ consts) \ Ran(Operands(n))) \cup {v}
<1> DEFINE s == Append(Below(n), v)
<1>1. stack \in Seq(Values) /\ Inj(stack) /\ consts \subseteq Ran(stack)
  BY DEF TypeOK, Shape
<1>2. v \notin Ran(stack)
  BY DEF Fresh
<1>3. /\ Below(n) \in Seq(Values) /\ Len(Below(n)) = Len(stack) - n /\ Inj(Below(n))
      /\ Ran(Operands(n)) \subseteq Ran(stack)
      /\ Ran(Below(n)) = Ran(stack) \ Ran(Operands(n))
  BY <1>1, PopFacts
<1>4. Ran(s) = Ran(Below(n)) \cup {v} /\ Len(s) = Len(Below(n)) + 1 /\ Inj(s)
  BY <1>2, <1>3, AppendFacts
<1> QED
  BY <1>1, <1>2, <1>3, <1>4

\* The i-th variable declared is at word 1 - i.
LEMMA HomeFacts ==
    ASSUME NEW hs \in Seq(Vars), Inj(hs)
    PROVE  /\ Home(hs) \in [Vars -> Places]
           /\ \A i \in DOMAIN hs : hs[i] \in Ran(hs) /\ Home(hs)[hs[i]] = OnStack(1 - i)
           /\ \A x \in Vars : IF x \in Ran(hs) THEN Home(hs)[x].ty = "off"
                                               ELSE Home(hs)[x] = Nowhere
           /\ Home(<<>>) = [x \in Vars |-> Nowhere]
           /\ \A x \in Vars \ Ran(hs) :
                 /\ Home(hs)[x] = Nowhere
                 /\ Home(Append(hs, x)) = [Home(hs) EXCEPT ![x] = OnStack(0 - Len(hs))]
<1>1. DOMAIN hs = 1 .. Len(hs) /\ Len(hs) \in Nat /\ \A i \in DOMAIN hs : hs[i] \in Vars
  OBVIOUS
<1>2. \A i \in DOMAIN hs : hs[i] \in Ran(hs)
  BY DEF Ran
<1>3. ASSUME NEW i \in DOMAIN hs
      PROVE  Home(hs)[hs[i]] = OnStack(1 - i)
  <2>1. (CHOOSE j \in DOMAIN hs : hs[j] = hs[i]) = i
    BY DEF Inj
  <2> QED
    BY <1>1, <1>2, <2>1 DEF Home
<1>4. ASSUME NEW x \in Vars
      PROVE  /\ Home(hs)[x] \in Places
             /\ IF x \in Ran(hs) THEN Home(hs)[x].ty = "off" ELSE Home(hs)[x] = Nowhere
  <2>1. CASE x \in Ran(hs)
    <3>1. PICK i \in DOMAIN hs : hs[i] = x
      BY <2>1 DEF Ran
    <3>2. Home(hs)[x] = OnStack(1 - i) /\ 1 - i \in Int
      BY <1>1, <1>3, <3>1
    <3> QED
      BY <2>1, <3>2, PlaceTypes, PlaceFacts
  <2>2. CASE x \notin Ran(hs)
    BY <2>2, PlaceTypes DEF Home
  <2> QED
    BY <2>1, <2>2
<1>5. Home(hs) \in [Vars -> Places]
  BY <1>4 DEF Home
<1>6. Home(<<>>) = [x \in Vars |-> Nowhere]
  BY KeptFacts DEF Home
<1>7. ASSUME NEW x \in Vars \ Ran(hs)
      PROVE  Home(Append(hs, x)) = [Home(hs) EXCEPT ![x] = OnStack(0 - Len(hs))]
  <2> DEFINE t == Append(hs, x)
             f == [Home(hs) EXCEPT ![x] = OnStack(0 - Len(hs))]
  <2>1. Ran(t) = Ran(hs) \cup {x}
    BY AppendFacts
  <2>2. /\ DOMAIN t = 1 .. (Len(hs) + 1) /\ t[Len(hs) + 1] = x
        /\ \A i \in 1 .. Len(hs) : t[i] = hs[i]
    BY <1>1
  <2> HIDE DEF t
  <2>3. ASSUME NEW y \in Vars
        PROVE  Home(t)[y] = f[y]
    <3>1. CASE y \notin Ran(t)
      BY <2>1, <3>1 DEF Home
    <3>2. CASE y = x
      <4>1. (CHOOSE j \in DOMAIN t : t[j] = y) = Len(hs) + 1
        <5>1. ASSUME NEW j \in DOMAIN t, t[j] = x PROVE j = Len(hs) + 1
          <6>1. CASE j \in 1 .. Len(hs)
            BY <1>1, <1>2, <2>2, <5>1, <6>1
          <6> QED
            BY <1>1, <2>2, <6>1
        <5>2. Len(hs) + 1 \in DOMAIN t
          BY <1>1, <2>2
        <5> QED
          BY <2>2, <3>2, <5>1, <5>2
      <4>2. 1 - (Len(hs) + 1) = 0 - Len(hs)
        BY <1>1
      <4>3. Home(t)[y] = OnStack(1 - (CHOOSE j \in DOMAIN t : t[j] = y))
        BY <2>1, <3>2 DEF Home
      <4> QED
        BY <1>5, <3>2, <4>1, <4>2, <4>3
    <3>3. CASE y \in Ran(hs) /\ y # x
      <4>1. PICK i \in DOMAIN hs : hs[i] = y
        BY <3>3 DEF Ran
      <4>2. i \in DOMAIN t /\ t[i] = y
        BY <1>1, <2>2, <4>1
      <4>3. \A j \in DOMAIN t : t[j] = y => j = i
        <5> SUFFICES ASSUME NEW j \in DOMAIN t, t[j] = y PROVE j = i
          OBVIOUS
        <5>1. j \in DOMAIN hs /\ hs[j] = y
          BY <1>1, <2>2, <3>3
        <5> QED
          BY <4>1, <5>1 DEF Inj
      <4>4. (CHOOSE j \in DOMAIN t : t[j] = y) = i
        BY <4>2, <4>3
      <4>5. Home(t)[y] = OnStack(1 - i)
        BY <2>1, <3>3, <4>4 DEF Home
      <4> QED
        BY <1>3, <1>5, <3>3, <4>1, <4>5
    <3> QED
      BY <2>1, <3>1, <3>2, <3>3
  <2>4. Home(t) = [y \in Vars |-> Home(t)[y]]
    BY DEF Home
  <2>5. f = [y \in Vars |-> f[y]]
    BY <1>5
  <2> HIDE DEF f
  <2>6. Home(t) = f
    BY <2>3, <2>4, <2>5
  <2> QED
    BY <2>6 DEF t, f
<1> QED
  BY <1>2, <1>3, <1>4, <1>5, <1>6, <1>7

\* When a call begins only values not yet used are in registers.
LEMMA SaveFacts ==
    ASSUME TypeOK, Shape, Fitted, ~Calling, phase # "cond", mgr.status = "ok"
    PROVE  /\ InRegister(mgr) \subseteq Ran(stack) \ consts
           /\ \A n \in InRegister(mgr) : mgr.occ[n].ty = "float"
           /\ \A n \in Names : mgr.occ[n].ty = "float" => n \in InRegister(mgr)
<1>1. Tabled(mgr, Ran(stack) \ consts, {}, Home(homes))
  BY CalmFacts DEF Fitted, FitFor, Fit
<1> QED
  BY <1>1, NameFacts, PlaceFacts DEF Tabled, InRegister

-----------------------------------------------------------------------------
(***************************************************************************)
(* The operand stack and the call keep their shape.                        *)
(***************************************************************************)

LEMMA ShapeStep ==
    ASSUME TypeOK, Shape, Fitted, Next
    PROVE  Shape'
<1>0. /\ stack \in Seq(Values) /\ Len(stack) \in Nat /\ Inj(stack)
      /\ homes \in Seq(Vars) /\ Inj(homes) /\ consts \subseteq Ran(stack)
      /\ MaxLive \in Nat
  BY BoundAssumption DEF TypeOK, Shape
<1>a. /\ ~Calling => call = NoCall
      /\ phase # "input" => Len(stack) <= MaxLive
  BY DEF Shape
<1>1. CASE \E k \in {"fn", "main"} : BeginFunction(k)
  BY <1>0, <1>1, KeptFacts DEF BeginFunction, Shape, Calling
<1>2. ASSUME NEW x \in Vars, Declare(x)
      PROVE  Shape'
  <2>1. Inj(Append(homes, x))
    BY <1>0, <1>2, AppendFacts DEF Declare
  <2> QED
    BY <1>2, <2>1 DEF Declare, Shape, Calling
<1>3. CASE Constant
  <2>1. PICK v \in Values : Fresh(v) /\ stack' = Append(stack, v) /\ consts' = consts \cup {v}
    BY <1>3 DEF Constant
  <2>2. Inj(stack') /\ Ran(stack') = Ran(stack) \cup {v} /\ Len(stack') = Len(stack) + 1
    BY <1>0, <2>1, AppendFacts DEF Fresh
  <2>3. Len(stack') <= MaxLive /\ phase' = "body" /\ call' = NoCall /\ homes' = homes
    BY <1>0, <1>a, <1>3, <2>2 DEF Constant, Body, Calling
  <2> QED
    BY <1>0, <2>1, <2>2, <2>3 DEF Shape, Calling
<1>4. ASSUME NEW n \in 0 .. MaxArity, CallBegin(n)
      PROVE  Shape'
  <2>1. /\ n \in 0 .. Len(stack) /\ ~Calling /\ phase # "cond" /\ phase # "input"
        /\ mgr.status = "ok" /\ (n = 0 => Len(stack) < MaxLive)
    <3>1. n <= Len(stack) /\ n \in Nat
      BY <1>4, BoundAssumption DEF CallBegin
    <3> QED
      BY <1>0, <1>4, <3>1 DEF CallBegin, Body, Room, Calling
  <2>2. /\ call'.args = Operands(n) /\ call'.done = 0
        /\ call'.pushSet = InRegister(mgr) \ Ran(Operands(n))
        /\ phase' = "args" /\ UNCHANGED <<homes, stack, consts>>
    BY <1>4 DEF CallBegin
  <2>3. Len(Operands(n)) = n /\ Operands(n) \in Seq(Values)
    BY <1>0, <2>1, PopFacts
  <2>4. InRegister(mgr) \subseteq Ran(stack) \ consts
    BY <2>1, SaveFacts
  <2>5. Len(call'.args) = n /\ (call'.args = <<>> => n = 0)
    BY <2>2, <2>3
  <2>6. Operands(n)' = Operands(n)
    BY <2>2 DEF Operands
  <2> QED
    BY <1>0, <1>a, <2>1, <2>2, <2>4, <2>5, <2>6 DEF Shape, Calling
<1>5. CASE CallJump
  BY <1>0, <1>5 DEF CallJump, Shape, Calling, Operands
<1>6. ASSUME NEW first \in Values, NEW x \in Vars, LoadVar(x, first)
      PROVE  Shape'
  <2>1. PICK v \in Values : Fresh(v) /\ stack' = Append(stack, v)
    BY <1>6 DEF LoadVar
  <2>2. Inj(stack') /\ Ran(stack') = Ran(stack) \cup {v} /\ Len(stack') = Len(stack) + 1
    BY <1>0, <2>1, AppendFacts DEF Fresh
  <2>3. /\ Len(stack') <= MaxLive /\ phase' = "body" /\ call' = NoCall
        /\ homes' = homes /\ consts' = consts
    BY <1>0, <1>a, <1>6, <2>2 DEF LoadVar, Body, Calling
  <2> QED
    BY <1>0, <2>1, <2>2, <2>3 DEF Shape, Calling
<1>7. ASSUME NEW first \in Values, NEW x \in Vars, Store(x, first)
      PROVE  Shape'
  <2>1. stack' = <<>> /\ consts' = {} /\ phase' = "body" /\ call' = NoCall /\ homes' = homes
    BY <1>a, <1>7 DEF Store, Calling
  <2> QED
    BY <1>0, <2>1, KeptFacts DEF Shape, Calling
<1>8. ASSUME NEW n \in 1 .. Len(stack), NEW v \in Values, Fresh(v), Body,
             stack' = Append(Below(n), v), consts' = consts \ Ran(Operands(n)),
             phase' = "body", homes' = homes, call' = call
      PROVE  Shape'
  <2>1. /\ Inj(stack') /\ consts' \subseteq Ran(stack') /\ Len(stack') = Len(stack) - n + 1
    BY <1>8, PoppedFacts
  <2>2. Len(stack') <= MaxLive /\ call' = NoCall
    BY SMTT(60), <1>0, <1>a, <1>8, <2>1 DEF Body, Calling
  <2> QED
    BY <1>0, <1>8, <2>1, <2>2 DEF Shape, Calling
<1>9. ASSUME NEW first \in Values, Binary(first)
      PROVE  Shape'
  <2>1. PICK v \in Values : Fresh(v) /\ stack' = Append(Below(2), v)
    BY <1>9 DEF Binary
  <2>2. 2 \in 1 .. Len(stack)
    <3>1. Len(stack) >= 2
      BY <1>9 DEF Binary
    <3> QED
      BY SMTT(60), <3>1, <1>0
  <2> QED
    BY ZenonT(60), <1>8, <1>9, <2>1, <2>2 DEF Binary
<1>10. ASSUME NEW first \in Values, UnaryPos(first) \/ UnaryNeg(first)
       PROVE  Shape'
  <2>1. PICK v \in Values : Fresh(v) /\ stack' = Append(Below(1), v)
    BY <1>10 DEF UnaryPos, UnaryNeg
  <2>2. 1 \in 1 .. Len(stack) /\ Ran(Operands(1)) = {Top}
    BY <1>0, <1>10, TopFacts DEF UnaryPos, UnaryNeg
  <2> QED
    BY <1>8, <1>10, <2>1, <2>2 DEF UnaryPos, UnaryNeg
<1>11. ASSUME NEW first \in Values, CallArg(first)
       PROVE  Shape'
  <2>1. /\ call'.args = call.args /\ call'.pushSet = call.pushSet
        /\ call'.done = call.done + 1 /\ call.done < Len(call.args)
        /\ phase = "args" /\ UNCHANGED <<phase, homes, consts, stack>>
        /\ call.done \in Nat
    BY <1>11 DEF CallArg, TypeOK
  <2>2. Len(call.args) \in Nat
    BY <2>1, CallFacts DEF Calling
  <2>3. call'.done <= Len(call'.args)
    BY <2>1, <2>2
  <2> QED
    BY <2>1, <2>3 DEF Shape, Calling, Operands
<1>12. ASSUME NEW first \in Values, NEW n \in Names, CallSave(n, first)
       PROVE  Shape'
  <2>1. /\ call'.args = call.args /\ call'.pushSet \subseteq call.pushSet
        /\ call'.done = call.done
        /\ phase = "args" /\ UNCHANGED <<phase, homes, consts, stack>>
    BY <1>12 DEF CallSave, TypeOK
  <2> QED
    BY <2>1 DEF Shape, Calling, Operands
<1>13. ASSUME NEW first \in Values, CallReturn(first)
       PROVE  Shape'
  <2> DEFINE n == Len(call.args)
  <2>1. PICK v \in Values : Fresh(v) /\ stack' = Append(Below(n), v)
    BY <1>13 DEF CallReturn
  <2>2. /\ phase = "jal" /\ phase' = "body" /\ call' = NoCall /\ homes' = homes
        /\ consts' = consts \ Ran(call.args)
    BY <1>13 DEF CallReturn
  <2>3. n \in 0 .. Len(stack) /\ Ran(call.args) = Ran(Operands(n)) /\ Len(stack) <= MaxLive
    BY <2>2, CallFacts DEF Calling
  <2>4. call.args = <<>> => Len(stack) < MaxLive
    BY <2>2 DEF Shape, Calling
  <2>5. n = 0 => call.args = <<>>
    BY <2>2, CallFacts DEF Calling
  <2> HIDE DEF n
  <2>6. /\ Inj(stack') /\ consts' \subseteq Ran(stack') /\ Len(stack') = Len(stack) - n + 1
    BY <2>1, <2>2, <2>3, PoppedFacts
  <2>7. Len(stack') <= MaxLive
    BY <1>0, <2>3, <2>4, <2>5, <2>6
  <2> QED
    BY <1>0, <2>2, <2>6, <2>7 DEF Shape, Calling
<1>14. ASSUME NEW first \in Values, Input(first)
       PROVE  Shape'
  <2>1. PICK v \in Values : stack' = <<v>>
    BY <1>14 DEF Input
  <2>2. /\ phase' = "input" /\ call' = NoCall /\ homes' = homes /\ consts' = {}
    BY <1>0, <1>a, <1>14, KeptFacts DEF Input, Statement, Body, Calling
  <2> QED
    BY <1>0, <2>1, <2>2, KeptFacts DEF Shape, Calling
<1>15. ASSUME NEW first \in Values, Output(first)
       PROVE  Shape'
  <2>1. stack' = <<>> /\ consts' = {} /\ phase' = "body" /\ call' = NoCall /\ homes' = homes
    BY <1>a, <1>15 DEF Output, Statement, Body, Calling
  <2> QED
    BY <1>0, <2>1, KeptFacts DEF Shape, Calling
<1>16. ASSUME NEW op \in Relations, NEW first \in Values, Compare(op, first)
       PROVE  Shape'
  <2>1. PICK v \in Values : stack' = <<v>>
    BY SMTT(60), <1>16 DEF Compare
  <2>2. /\ phase' = "cond" /\ call' = NoCall /\ homes' = homes /\ consts' = {}
        /\ 1 <= MaxLive
    BY <1>0, <1>a, <1>16 DEF Compare, Statement, Body, Calling
  <2> QED
    BY SMTT(60), <1>0, <2>1, <2>2, KeptFacts DEF Shape, Calling
<1>17. ASSUME NEW first \in Values, ReturnValue(first)
       PROVE  Shape'
  <2>1. stack' = <<>> /\ consts' = {} /\ phase' = "idle" /\ call' = NoCall /\ homes' = homes
    BY <1>a, <1>17 DEF ReturnValue, Body, Calling
  <2> QED
    BY <1>0, <2>1, KeptFacts DEF Shape, Calling
<1>18. CASE Branch \/ Jump \/ ReturnMain
  <2>1. /\ stack' = <<>> /\ consts' = consts /\ phase' \in {"body", "end"}
        /\ call' = NoCall /\ homes' = homes
    BY <1>a, <1>18 DEF Branch, Jump, ReturnMain, Statement, Body, Calling
  <2>2. consts = {}
    BY <1>0, <1>18, KeptFacts DEF Branch, Jump, ReturnMain, Shape
  <2> QED
    BY <1>0, <2>1, <2>2, KeptFacts DEF Shape, Calling
<1>19. CASE Stopped
  BY <1>19 DEF Stopped, vars, Shape, Calling, Operands
<1> QED
  BY <1>1, <1>2, <1>3, <1>4, <1>5, <1>6, <1>7, <1>9, <1>10, <1>11, <1>12,
     <1>13, <1>14, <1>15, <1>16, <1>17, <1>18, <1>19 DEF Next

-----------------------------------------------------------------------------
(***************************************************************************)
(* Where a handler starts and how it ends.                                 *)
(***************************************************************************)

LEMMA StartFit ==
    ASSUME HandlerInv, ~Calling, phase # "cond"
    PROVE  LET E == Ran(stack) \ consts
           IN  /\ Fit(mgr, E, {}, Home(homes), E \cup Ran(homes))
               /\ E \in SUBSET Values /\ E \cup Ran(homes) \in SUBSET Names
               /\ Ran(homes) \subseteq Vars /\ Ran(stack) \subseteq Values
               /\ call = NoCall
<1>1. TypeOK /\ Shape /\ Fitted
  BY DEF HandlerInv, FrameInv
<1>2. Ran(homes) \subseteq Vars /\ Ran(stack) \subseteq Values /\ call = NoCall
  BY <1>1, RanType DEF TypeOK, Shape
<1> QED
  BY <1>1, <1>2, CalmFacts DEF Fitted, FitFor

LEMMA FinishFit ==
    ASSUME NEW m, NEW F, NEW T, NEW h, NEW K \in SUBSET Names,
           Fit(m, F, T, h, K), Finish(m), K \cap Values \subseteq Ran(stack')
    PROVE  /\ Fit(mgr', F, T, h, K)
           /\ mgr'.status = m.status
           /\ mgr'.status = "dead" => Gone(mgr')
           /\ m.status = "ok" =>
                 /\ mgr'.occ = m.occ /\ mgr'.off = m.off /\ mgr'.misread = m.misread
                 /\ \A o \in Slots : m.stk[o] \notin Values \ Ran(stack') =>
                                        mgr'.stk[o] = m.stk[o]
BY SettleFit DEF Finish

\* A handler that ends outside a call and is no compare.
LEMMA FinishCalm ==
    ASSUME NEW m, NEW F, NEW K, Fit(m, F, {}, Home(homes'), K), Finish(m),
           homes' \in Seq(Vars), stack' \in Seq(Values),
           phase' # "cond", call' = NoCall,
           F = Ran(stack') \ consts', K = F \cup Ran(homes')
    PROVE  Fitted'
<1>1. Ran(homes') \subseteq Vars /\ Ran(stack') \subseteq Values
  BY RanType
<1>2. K \in SUBSET Names /\ K \cap Values \subseteq Ran(stack')
  BY <1>1, NameFacts
<1>3. /\ Fit(mgr', F, {}, Home(homes'), K)
      /\ mgr'.status = "dead" => Gone(mgr')
  BY <1>2, FinishFit
<1>4. Kept(stack', consts', call') = F
  BY KeptFacts
<1> QED
  BY <1>3, <1>4 DEF Fitted, FitFor

\* A handler that ends a block.
LEMMA EndCalm ==
    ASSUME NEW m, Fit(m, {}, {}, Home(homes), Ran(homes)), EndBlock(m),
           homes \in Seq(Vars), homes' = homes, stack' = <<>>, phase' # "cond", call' = NoCall
    PROVE  Fitted'
<1>1. Ran(homes) \in SUBSET Vars
  BY RanType
<1>2. /\ Fit(mgr', {}, {}, Home(homes), Ran(homes))
      /\ mgr'.status = m.status
      /\ m.status = "dead" => Gone(mgr')
  BY <1>1, EndBlockFit
<1>3. Kept(stack', consts', call') = {}
  BY KeptFacts
<1> QED
  BY <1>2, <1>3 DEF Fitted, FitFor

LEMMA PlacedCalm ==
    ASSUME phase' \notin {"entry", "args", "jal"}
    PROVE  Placed'
BY DEF Placed, Calling

\* What is said of values held is said of the simplest programs only.
LEMMA AnyFit ==
    ASSUME NEW m, NEW F, NEW T, NEW h, NEW K, NEW L, NEW w \in Sound,
           Fit(m, F, T, h, K), ~Plain, SameTable(m, w)
    PROVE  Fit(w, F, T, h, L)
BY MemFit DEF Holds

LEMMA SameTableSelf == \A m : SameTable(m, m)
BY DEF SameTable

-----------------------------------------------------------------------------
(***************************************************************************)
(* The handlers of expressions.                                            *)
(***************************************************************************)

LEMMA BeginHandler ==
    ASSUME HandlerInv, NEW k, BeginFunction(k)
    PROVE  Fitted' /\ Placed'
<1>1. TypeOK /\ Shape /\ phase = "idle"
  BY DEF HandlerInv, FrameInv, BeginFunction
<1>2. stack' = <<>> /\ consts' = {} /\ call' = NoCall /\ homes' = <<>> /\ phase' = "entry"
      /\ mgr' = FreshFrame
  BY <1>1, KeptFacts DEF BeginFunction, Shape, Calling
<1>3. Kept(stack', consts', call') = {} /\ Ran(homes') = {}
  BY <1>2, KeptFacts
<1>4. Home(homes') = [x \in Vars |-> Nowhere]
  BY <1>2, KeptFacts DEF Home
<1>5. FitFor(mgr', phase', stack', consts', call', homes')
  BY <1>2, <1>3, <1>4, FreshFit DEF FitFor
<1>6. mgr'.status = "ok" /\ mgr'.off = 0 /\ Len(homes') = 0
  BY <1>2 DEF FreshFrame
<1>7. Fitted'
  BY <1>5, <1>6 DEF Fitted, FitFor
<1>8. mgr'.off = 0 - Len(homes')
  BY <1>6
<1>9. Placed'
  BY <1>2, <1>8 DEF Placed, Calling
<1> QED
  BY <1>7, <1>9

LEMMA DeclareHandler ==
    ASSUME HandlerInv, NEW x \in Vars, Declare(x)
    PROVE  Fitted' /\ Placed'
<1> DEFINE w == Declared(mgr, x)
           h == Home(homes)
           j == Home(homes')
<1>1. /\ TypeOK /\ Shape /\ phase = "entry" /\ ~Calling /\ mgr.status = "ok"
      /\ x \in Vars \ Ran(homes) /\ homes \in Seq(Vars) /\ Inj(homes)
      /\ stack = <<>> /\ call = NoCall
  BY DEF HandlerInv, FrameInv, Declare, Room, Calling, TypeOK, Shape
<1>2. /\ mgr' = w /\ homes' = Append(homes, x)
      /\ phase' = phase /\ stack' = stack /\ consts' = consts /\ call' = call
  BY DEF Declare, Declared
<1>3. /\ Fit(mgr, {}, {}, h, Ran(homes)) /\ Ran(homes) \in SUBSET Names
      /\ mgr.off = 0 - Len(homes)
  BY <1>1, StartFit, KeptFacts DEF HandlerInv, Placed
<1>4. Extends(h, j, x, mgr.off)
  BY <1>1, <1>2, <1>3, HomeFacts DEF Extends
<1> HIDE DEF h, j
<1>5. /\ Fit(w, {}, {}, j, Ran(homes) \cup {x})
      /\ w.off = mgr.off - 1 /\ w.status = "ok"
  BY <1>1, <1>3, <1>4, AllocMemFit, ZenonT(150)
<1> HIDE DEF w
<1>6. Ran(homes') = Ran(homes) \cup {x} /\ Len(homes') = Len(homes) + 1
  BY <1>1, <1>2, AppendFacts
<1>7. Kept(stack', consts', call') = {}
  BY <1>1, <1>2, KeptFacts
<1>8. FitFor(mgr', phase', stack', consts', call', homes')
  BY <1>1, <1>2, <1>5, <1>6, <1>7 DEF FitFor, j
<1>9. Len(homes) \in Nat
  BY <1>1
<1>10. mgr'.off = 0 - Len(homes') /\ mgr'.status = "ok"
  BY <1>2, <1>3, <1>5, <1>6, <1>9
<1> QED
  BY <1>1, <1>2, <1>8, <1>10 DEF Fitted, Placed, Calling

LEMMA ConstantHandler ==
    ASSUME HandlerInv, Constant
    PROVE  Fitted' /\ Placed'
<1>1. PICK v \in Values : Fresh(v) /\ stack' = Append(stack, v) /\ consts' = consts \cup {v}
  BY DEF Constant
<1>2. /\ TypeOK /\ Shape /\ ~Calling /\ phase # "cond" /\ stack \in Seq(Values)
      /\ phase' = "body" /\ UNCHANGED <<mgr, homes, call>>
  BY DEF HandlerInv, FrameInv, Constant, Body, Calling, TypeOK
<1>3. Ran(stack') = Ran(stack) \cup {v} /\ v \notin Ran(stack)
  BY <1>1, <1>2, AppendFacts DEF Fresh
<1>4. Ran(stack') \ consts' = Ran(stack) \ consts /\ call = NoCall
  BY <1>1, <1>2, <1>3 DEF Shape
<1>5. Kept(stack', consts', call') = Kept(stack, consts, call)
  BY <1>2, <1>4, KeptFacts, ZenonT(150)
<1> QED
  BY <1>2, <1>5, PlacedCalm DEF HandlerInv, Fitted, FitFor

\* A variable read holds its own value.
LEMMA LoadVarHandler ==
    ASSUME HandlerInv, TypeOK', NEW x \in Vars, NEW first \in Values, LoadVar(x, first)
    PROVE  Fitted' /\ Placed'
<1> DEFINE E == Ran(stack) \ consts
           K == E \cup Ran(homes)
           h == Home(homes)
           m(v) == AllocFloat(mgr, v, first)
           right(v) == m(v).stk[mgr.occ[x].ix] = x
           w(v) == WriteFloat(m(v), m(v).occ[v].ix, v, right(v))
<1>1. PICK v \in Values : Fresh(v) /\ stack' = Append(stack, v) /\ Finish(w(v))
  BY DEF LoadVar
<1>2. /\ TypeOK /\ Shape /\ ~Calling /\ phase # "cond" /\ mgr.status = "ok"
      /\ x \in Ran(homes) /\ phase' = "body"
      /\ homes' = homes /\ call' = call /\ consts' = consts
      /\ stack \in Seq(Values) /\ homes \in Seq(Vars) /\ Inj(homes) /\ Len(stack) <= MaxLive
      /\ consts \subseteq Ran(stack)
  BY BoundAssumption DEF HandlerInv, FrameInv, LoadVar, Body, Room, Calling, TypeOK, Shape
<1>3. Ran(stack') = Ran(stack) \cup {v} /\ v \notin Ran(stack)
  BY <1>1, <1>2, AppendFacts DEF Fresh
<1>4. /\ Fit(mgr, E, {}, h, K) /\ K \in SUBSET Names /\ E \subseteq Ran(stack) /\ call = NoCall
  BY <1>2, StartFit
<1>5. Roomy => Cardinality(E) < FLOATCOUNT - 2
  BY <1>2, <1>4, FewFacts
<1>6. h[x].ty = "off"
  BY <1>2, HomeFacts
<1> DEFINE F == E \cup {v}
           L == K \cup {v}
<1>7. F = Ran(stack') \ consts' /\ L = F \cup Ran(homes') /\ v \notin E
  BY <1>2, <1>3
<1>8. x \in K
  BY <1>2
<1> HIDE DEF E, K, h
<1>9. /\ Fit(m(v), F, {}, h, K)
      /\ m(v).status = "ok" => Gets(mgr, m(v), v)
  BY <1>4, <1>5, <1>7, AllocFloatFit
<1> HIDE DEF m
<1>10. m(v).status = "ok" => m(v).occ[v].ty = "float" /\ (Plain => right(v))
  <2> SUFFICES ASSUME m(v).status = "ok"
               PROVE  m(v).occ[v].ty = "float" /\ (Plain => right(v))
    OBVIOUS
  <2>1. m(v).occ[v].ty = "float"
    BY <1>9 DEF Gets
  <2>2. ASSUME Plain
        PROVE  right(v)
    <3>1. m(v).occ[x] = h[x] /\ mgr.occ[x] = h[x]
      BY <1>2, <1>4, <1>9 DEF Fit, Tabled
    <3>2. Held(m(v), x) = x /\ m(v) \in Managers /\ x \in Names /\ Slots = Int
      BY <1>8, <1>9, <2>2, NameFacts DEF Fit, Holds, Sound, Plain
    <3> QED
      BY <1>6, <3>1, <3>2, HeldCases
  <2> QED
    BY <2>1, <2>2
<1> HIDE DEF right
<1>11. Fit(w(v), F, {}, h, L)
  BY <1>4, <1>9, <1>10, WriteFit
<1> HIDE DEF w, F, L
<1>12. homes' \in Seq(Vars) /\ stack' \in Seq(Values) /\ h = Home(homes')
  BY <1>2 DEF TypeOK, h
<1>13. Fitted'
  BY <1>1, <1>2, <1>4, <1>7, <1>11, <1>12, FinishCalm
<1> QED
  BY <1>2, <1>13, PlacedCalm

\* The lookup of y, from c to d, changes nothing: x and y are in registers.
Found(c, d, x, y) ==
    d.status = "ok" => d = c /\ c.occ[x].ty = "float" /\ d.occ[y].ty = "float"

\* The two operands are loaded and looked up again.
LEMMA OperandsFit ==
    ASSUME NEW m, NEW F, NEW h, NEW K \in SUBSET Names, Fit(m, F, {}, h, K),
           NEW x \in Values, NEW y \in Values, x # y,
           NEW cx \in BOOLEAN, NEW cy \in BOOLEAN, NEW first,
           cx => x \notin F, ~cx => x \in F \cap K,
           cy => y \notin F, ~cy => y \in F \cap K,
           Roomy => /\ Cardinality(F) < FLOATCOUNT - 2
                    /\ Cardinality(F \cup {x}) < FLOATCOUNT - 2
                    /\ Cardinality((F \cup {x}) \cup {y}) < FLOATCOUNT - 2
    PROVE  LET a == LoadConst(m, x, cx, first)
               b == LoadConst(a, y, cy, first)
               c == GetReg(b, x, first)
               d == GetReg(c, y, first)
           IN  /\ Fit(d, (F \cup {x}) \cup {y}, {}, h, (K \cup {x}) \cup {y})
               /\ Found(c, d, x, y)
<1> DEFINE a == LoadConst(m, x, cx, first)
           b == LoadConst(a, y, cy, first)
           c == GetReg(b, x, first)
           d == GetReg(c, y, first)
           G == F \cup {x}
           H == G \cup {y}
           L == K \cup {x}
           M == L \cup {y}
<1>1. /\ x \in Names /\ y \in Names /\ L \in SUBSET Names /\ M \in SUBSET Names
      /\ x \in H /\ y \in H
  BY NameFacts
<1>2. /\ Fit(a, G, {}, h, L)
      /\ a.status = "ok" => a.occ[x].ty = "float"
  BY LoadConstFit
<1> HIDE DEF a
<1>3. (cy => y \notin G \cup {}) /\ (~cy => y \in G \cap L)
  OBVIOUS
<1> HIDE DEF G, L
<1>4. /\ Fit(b, H, {}, h, M)
      /\ b.status = "ok" =>
            /\ b.occ[y].ty = "float"
            /\ b = a \/ Gets(a, b, y)
  BY <1>1, <1>2, <1>3, LoadConstFit DEF G, L
<1> HIDE DEF b, H, M
<1>5. /\ Fit(c, H, {}, h, M)
      /\ c.status = "ok" => /\ c.occ[x].ty = "float"
                            /\ c = b \/ (b.occ[x].ty = "off" /\ Gets(b, c, x))
  BY <1>1, <1>4, GetRegFit DEF H, G
<1> HIDE DEF c
<1>6. /\ Fit(d, H, {}, h, M)
      /\ d.status = "ok" => /\ d.occ[y].ty = "float"
                            /\ d = c \/ (c.occ[y].ty = "off" /\ Gets(c, d, y))
  BY <1>1, <1>5, GetRegFit DEF H, G
<1> HIDE DEF d
<1>7. ASSUME d.status = "ok"
      PROVE  d = c
  <2>1. c.status = "ok"
    BY <1>6, <1>7 DEF Gets, Took
  <2>2. b.status = "ok"
    BY <1>5, <2>1 DEF Gets, Took
  <2>3. a.status = "ok"
    BY <1>4, <2>2 DEF Gets, Took
  <2>4. c.occ[y].ty = "float"
    <3>1. CASE c = b
      BY <1>4, <2>2, <3>1
    <3>2. CASE b.occ[x].ty = "off" /\ Gets(b, c, x)
      <4>1. b # a /\ Gets(a, b, y)
        BY <1>2, <1>4, <2>2, <2>3, <3>2
      <4>2. b.cursor # b.occ[y].ix
        BY <4>1, FloatRegFacts, NextCursor DEF Gets
      <4>3. b.occ[y] # InFloat(b.cursor)
        BY <4>2, PlaceFacts
      <4>4. c.occ[y] = b.occ[y]
        BY <1>1, <3>2, <4>3 DEF Gets, Took
      <4> QED
        BY <1>4, <2>2, <4>4
    <3> QED
      BY <1>5, <2>1, <3>1, <3>2
  <2> QED
    BY <1>6, <1>7, <2>4
<1>8. Found(c, d, x, y)
  BY <1>5, <1>6, <1>7 DEF Found
<1> QED
  BY <1>6, <1>8 DEF d, c, b, a, H, G, M, L

\* A value in a float register that holds it.
LEMMA HeldFloat ==
    ASSUME NEW m, NEW F, NEW T, NEW h, NEW K \in SUBSET Names, Fit(m, F, T, h, K),
           m.status = "ok", Plain, NEW v \in K, m.occ[v].ty = "float"
    PROVE  m.freg[m.occ[v].ix] = v
<1>1. m \in Managers /\ Slots = Int /\ v \in Names /\ Held(m, v) = v
  BY DEF Fit, Sound, Holds, Plain
<1> QED
  BY <1>1, HeldCases

\* The result is written to its register and the operands are released.
LEMMA ResultFit ==
    ASSUME NEW m, NEW F, NEW h, NEW K \in SUBSET Names, Fit(m, F, {}, h, K),
           NEW v \in Values, NEW right, NEW S \in SUBSET Values, v \notin S,
           m.status = "ok" => m.occ[v].ty = "float" /\ (Plain => right)
    PROVE  Fit(Release(WriteFloat(m, m.occ[v].ix, v, right), S),
               F \ S, {}, h, (K \ S) \cup {v})
<1> DEFINE w == WriteFloat(m, m.occ[v].ix, v, right)
           L == K \cup {v}
<1>1. Fit(w, F, {}, h, L) /\ L \in SUBSET Names
  BY WriteFit, NameFacts
<1>2. L \ S = (K \ S) \cup {v} /\ {} \ S = {}
  OBVIOUS
<1> HIDE DEF w, L
<1>3. Fit(Release(w, S), F \ S, {} \ S, h, L \ S)
  BY <1>1, ReleaseFit
<1> QED
  BY <1>2, <1>3 DEF w

LEMMA BinaryHandler ==
    ASSUME HandlerInv, TypeOK', NEW first \in Values, Binary(first)
    PROVE  Fitted' /\ Placed'
<1> DEFINE E == Ran(stack) \ consts
           K == E \cup Ran(homes)
           h == Home(homes)
           x == Operands(2)[1]
           y == Operands(2)[2]
           cx == x \in consts
           cy == y \in consts
           a == LoadConst(mgr, x, cx, first)
           b == LoadConst(a, y, cy, first)
           c == GetReg(b, x, first)
           d == GetReg(c, y, first)
           e(v) == AllocFloat(d, v, first)
           right(v) == e(v).freg[c.occ[x].ix] = x /\ e(v).freg[d.occ[y].ix] = y
           w(v) == Release(WriteFloat(e(v), e(v).occ[v].ix, v, right(v)), {x, y})
<1>1. PICK v \in Values : Fresh(v) /\ stack' = Append(Below(2), v) /\ Finish(w(v))
  BY ZenonT(60) DEF Binary
<1>2. /\ TypeOK /\ Shape /\ ~Calling /\ phase # "cond" /\ phase # "input" /\ mgr.status = "ok"
      /\ phase' = "body" /\ homes' = homes /\ call' = call
      /\ consts' = consts \ Ran(Operands(2))
      /\ stack \in Seq(Values) /\ homes \in Seq(Vars) /\ Inj(stack) /\ Inj(homes)
      /\ Len(stack) <= MaxLive /\ consts \subseteq Ran(stack) /\ 2 \in 0 .. Len(stack)
  <2>1. Len(stack) >= 2
    BY DEF Binary
  <2> QED
    <3>1. /\ phase \in {"entry", "body"} /\ mgr.status = "ok" /\ phase' = "body"
          /\ consts' = consts \ Ran(Operands(2)) /\ UNCHANGED <<homes, call>>
      BY DEF Binary, Body, Room
    <3>2. TypeOK /\ Shape
      BY DEF HandlerInv, FrameInv
    <3>3. /\ stack \in Seq(Values) /\ homes \in Seq(Vars)
          /\ Inj(stack) /\ Inj(homes) /\ Len(stack) <= MaxLive /\ consts \subseteq Ran(stack)
      BY <3>1, <3>2 DEF TypeOK, Shape
    <3>4. 2 \in 0 .. Len(stack)
      BY SMTT(60), <2>1, <3>3
    <3> QED
      BY <3>1, <3>2, <3>3, <3>4 DEF Calling
<1>3. /\ x \in Ran(stack) /\ y \in Ran(stack) /\ x # y /\ x \in Values /\ y \in Values
      /\ Ran(Operands(2)) = {x, y}
  BY <1>2, PairFacts
<1> HIDE DEF x, y
<1>4. /\ v \notin Ran(stack) /\ v \notin consts /\ v # x /\ v # y
      /\ Ran(stack') \ consts' = ((Ran(stack) \ consts) \ {x, y}) \cup {v}
  BY <1>1, <1>2, <1>3, PoppedFacts
<1>5. /\ Fit(mgr, E, {}, h, K) /\ K \in SUBSET Names /\ E \subseteq Ran(stack) /\ call = NoCall
      /\ Ran(homes) \subseteq Vars
  BY <1>2, StartFit
<1> DEFINE G == (E \cup {x}) \cup {y}
           L == (K \cup {x}) \cup {y}
<1>6. Roomy => /\ Cardinality(E) < FLOATCOUNT - 2 /\ Cardinality(E \cup {x}) < FLOATCOUNT - 2
               /\ Cardinality(G) < FLOATCOUNT - 2
  BY <1>2, <1>3, <1>5, FewFacts
<1>7. /\ cx \in BOOLEAN /\ (cx => x \notin E) /\ (~cx => x \in E \cap K)
      /\ cy \in BOOLEAN /\ (cy => y \notin E) /\ (~cy => y \in E \cap K)
  BY <1>3
<1>8. v \notin G /\ x \in L /\ y \in L /\ L \in SUBSET Names
  BY <1>3, <1>4, <1>5, NameFacts
<1>9. Ran(homes) \cap {x, y} = {}
  BY <1>3, <1>5, NameFacts
<1>10. G \cup {v} = ((E \ {x, y}) \cup {x, y}) \cup {v}
       /\ (L \ {x, y}) \cup {v} = (((Ran(stack) \ consts) \ {x, y}) \cup {v}) \cup Ran(homes)
       /\ (G \cup {v}) \ {x, y} = ((Ran(stack) \ consts) \ {x, y}) \cup {v}
  BY <1>4, <1>9
<1> HIDE DEF E, K, h, cx, cy
<1>11. Fit(d, G, {}, h, L) /\ Found(c, d, x, y)
  BY <1>3, <1>5, <1>6, <1>7, OperandsFit, ZenonT(40)
<1> HIDE DEF c, d, G, L
<1>12. /\ Fit(e(v), G \cup {v}, {}, h, L)
       /\ e(v).status = "ok" => Gets(d, e(v), v) /\ e(v).freg = d.freg
  BY <1>6, <1>8, <1>11, AllocFloatFit
<1> HIDE DEF e
<1>13. e(v).status = "ok" => e(v).occ[v].ty = "float" /\ (Plain => right(v))
  <2> SUFFICES ASSUME e(v).status = "ok"
               PROVE  e(v).occ[v].ty = "float" /\ (Plain => right(v))
    OBVIOUS
  <2>1. d.status = "ok" /\ e(v).occ[v].ty = "float" /\ e(v).freg = d.freg
    BY <1>12 DEF Gets, Took
  <2>2. ASSUME Plain
        PROVE  d.freg[c.occ[x].ix] = x /\ d.freg[d.occ[y].ix] = y
    BY <1>8, <1>11, <2>1, <2>2, HeldFloat DEF Found
  <2> QED
    BY <2>1, <2>2
<1> HIDE DEF right
<1>14. Fit(w(v), (G \cup {v}) \ {x, y}, {}, h, (L \ {x, y}) \cup {v})
  BY <1>3, <1>4, <1>8, <1>12, <1>13, ResultFit, ZenonT(40)
<1> HIDE DEF w
<1> DEFINE A == ((Ran(stack) \ consts) \ {x, y}) \cup {v}
           B == A \cup Ran(homes)
<1>15. Fit(w(v), A, {}, h, B)
  BY <1>10, <1>14
<1>16. /\ homes' \in Seq(Vars) /\ stack' \in Seq(Values) /\ h = Home(homes')
       /\ A = Ran(stack') \ consts' /\ B = A \cup Ran(homes')
       /\ phase' # "cond" /\ call' = NoCall
  BY <1>2, <1>4, <1>5 DEF TypeOK, h
<1> HIDE DEF A, B
<1>17. Fitted'
  BY <1>1, <1>15, <1>16, FinishCalm
<1> QED
  BY <1>2, <1>17, PlacedCalm

\* The last operand is loaded: v is in a register of w.
Loaded(m, w, v, isConst) ==
    w.status = "ok" => /\ w.occ[v].ty = "float"
                       /\ \/ w = m /\ ~isConst
                          \/ Gets(m, w, v) /\ (isConst \/ m.occ[v].ty = "off")

LEMMA LoadTopFit ==
    ASSUME HandlerInv, ~Calling, phase # "cond", Len(stack) >= 1, NEW first, NEW m,
           NEW F, NEW h, NEW K, Fit(m, F, {}, h, K),
           F = Ran(stack) \ consts, K = F \cup Ran(homes)
    PROVE  LET w == LoadConst(m, Top, Top \in consts, first)
           IN  /\ Fit(w, F \cup {Top}, {}, h, K \cup {Top})
               /\ Loaded(m, w, Top, Top \in consts)
<1>1. TypeOK /\ Shape /\ K \in SUBSET Names
  BY StartFit DEF HandlerInv, FrameInv
<1>2. Top \in Values /\ Top \in Ran(stack)
  BY <1>1, TopFacts DEF TypeOK, Shape
<1>3. Roomy => Cardinality(F) < FLOATCOUNT - 2
  BY <1>1, FewFacts
<1> DEFINE c == Top \in consts
<1>4. c \in BOOLEAN /\ (c => Top \notin F \cup {}) /\ (~c => Top \in F \cap K)
  BY <1>2
<1> HIDE DEF c
<1> DEFINE w == LoadConst(m, Top, c, first)
<1>5. /\ Fit(w, F \cup {Top}, {}, h, K \cup {Top})
      /\ w.status = "ok" =>
            /\ w.occ[Top].ty = "float"
            /\ \/ w = m /\ ~c
               \/ Gets(m, w, Top) /\ (c \/ m.occ[Top].ty = "off")
  BY <1>1, <1>2, <1>3, <1>4, LoadConstFit
<1> HIDE DEF w
<1>6. Loaded(m, w, Top, c)
  BY <1>5 DEF Loaded
<1> QED
  BY <1>5, <1>6 DEF w, c

LEMMA UnaryHandler ==
    ASSUME HandlerInv, TypeOK', NEW first \in Values, UnaryPos(first) \/ UnaryNeg(first)
    PROVE  Fitted' /\ Placed'
<1> DEFINE E == Ran(stack) \ consts
           K == E \cup Ran(homes)
           h == Home(homes)
           m == LoadConst(mgr, Top, Top \in consts, first)
           r == m.occ[Top].ix
           right == m.freg[r] = Top
           pos(v) == Release(WriteFloat(Occupy(m, m.occ[Top], v), r, v, right), {Top})
           neg(v) == Release(AllocFloat(m, v, first), {Top})
<1>1. PICK v \in Values :
         /\ Fresh(v) /\ stack' = Append(Below(1), v)
         /\ (~Single /\ Finish(pos(v))) \/ Finish(neg(v))
  BY DEF UnaryPos, UnaryNeg, Single
<1>2. /\ TypeOK /\ Shape /\ ~Calling /\ phase # "cond" /\ phase # "input"
      /\ phase' = "body" /\ homes' = homes /\ call' = call /\ consts' = consts \ {Top}
      /\ stack \in Seq(Values) /\ homes \in Seq(Vars) /\ Inj(stack)
      /\ Len(stack) <= MaxLive /\ 1 \in 0 .. Len(stack) /\ Len(stack) >= 1
  <2>1. Len(stack) >= 1
    BY DEF UnaryPos, UnaryNeg
  <2> QED
    BY <2>1 DEF HandlerInv, FrameInv, UnaryPos, UnaryNeg, Body, Room, Calling, TypeOK, Shape
<1>3. Top \in Values /\ Top \in Ran(stack) /\ Ran(Operands(1)) = {Top}
  BY <1>2, TopFacts
<1>4. /\ v \notin Ran(stack) /\ v # Top
      /\ Ran(stack') \ consts' = ((Ran(stack) \ consts) \ {Top}) \cup {v}
  BY <1>1, <1>2, <1>3, PoppedFacts
<1>5. /\ Fit(mgr, E, {}, h, K) /\ K \in SUBSET Names /\ E \subseteq Ran(stack) /\ call = NoCall
      /\ Ran(homes) \subseteq Vars
  BY <1>2, StartFit
<1> DEFINE G == E \cup {Top}
           L == K \cup {Top}
           A == ((Ran(stack) \ consts) \ {Top}) \cup {v}
           B == A \cup Ran(homes)
<1>6. Roomy => Cardinality(G) < FLOATCOUNT - 2
  BY <1>2, <1>3, <1>5, FewFacts
<1>7. /\ v \notin G \cup {} /\ L \in SUBSET Names /\ {Top} \in SUBSET Values
      /\ (G \cup {v}) \ {Top} = A /\ {} \ {Top} = {}
      /\ v \in Names /\ Top \in Names
  BY <1>3, <1>4, <1>5, NameFacts
<1>8. Fit(m, G, {}, h, L) /\ Loaded(mgr, m, Top, Top \in consts)
  BY <1>2, <1>5, LoadTopFit
<1>9. ~Plain
  BY DEF UnaryPos, UnaryNeg, Plain
<1> HIDE DEF m, G, L, E, K, h, A
<1>10. ASSUME ~Single
       PROVE  Fit(pos(v), A, {}, h, B)
  <2> DEFINE o == Occupy(m, m.occ[Top], v)
             w == WriteFloat(o, r, v, right)
  <2>1. pos(v) \in Sound
    BY <1>7, <1>8, SoundRebind DEF Fit
  <2>2. CASE m.status = "ok"
    <3>1. /\ Fit(o, G \cup {v}, {}, h, L)
          /\ o.status = "ok" /\ o.occ[v] = m.occ[Top]
      BY <1>3, <1>7, <1>8, <1>10, <2>2, RebindFit DEF Loaded
    <3>2. r = o.occ[v].ix /\ o.occ[v].ty = "float"
      BY <1>8, <2>2, <3>1 DEF Loaded
    <3> HIDE DEF o, r, right
    <3>3. Fit(w, G \cup {v}, {}, h, L \cup {v}) /\ L \cup {v} \in SUBSET Names
      BY <1>7, <1>9, <3>1, <3>2, WriteFit
    <3> HIDE DEF w
    <3>4. Fit(Release(w, {Top}), (G \cup {v}) \ {Top}, {} \ {Top}, h, (L \cup {v}) \ {Top})
      BY <1>7, <3>3, ReleaseFit
    <3>5. Fit(pos(v), A, {}, h, (L \cup {v}) \ {Top})
      BY <1>7, <3>4 DEF w, o, r, right
    <3> QED
      BY <1>9, <2>1, <3>5, AnyFit, SameTableSelf
  <2>3. CASE m.status # "ok"
    <3>1. pos(v).status = m.status
      BY DEF Release, WriteFloat, Occupy
    <3> HIDE DEF pos
    <3> QED
      BY <1>8, <2>1, <2>3, <3>1, DeadFit
  <2> QED
    BY <2>2, <2>3
<1>11. Fit(neg(v), A, {}, h, B)
  <2> DEFINE e == AllocFloat(m, v, first)
  <2>1. Fit(e, G \cup {v}, {}, h, L)
    BY <1>6, <1>7, <1>8, AllocFloatFit
  <2> HIDE DEF e
  <2>2. Fit(Release(e, {Top}), (G \cup {v}) \ {Top}, {} \ {Top}, h, L \ {Top})
    BY <1>7, <2>1, ReleaseFit
  <2>3. Fit(neg(v), A, {}, h, L \ {Top})
    BY <1>7, <2>2 DEF e
  <2>4. neg(v) \in Sound
    BY <2>3 DEF Fit
  <2> QED
    BY <1>9, <2>3, <2>4, AnyFit, SameTableSelf
<1> HIDE DEF pos, neg
<1>12. PICK w : Fit(w, A, {}, h, B) /\ Finish(w)
  BY <1>1, <1>10, <1>11
<1>13. /\ homes' \in Seq(Vars) /\ stack' \in Seq(Values) /\ h = Home(homes')
       /\ A = Ran(stack') \ consts' /\ B = A \cup Ran(homes')
       /\ phase' # "cond" /\ call' = NoCall
  BY <1>2, <1>4, <1>5 DEF TypeOK, h, A
<1> HIDE DEF B
<1>14. Fitted'
  BY <1>12, <1>13, FinishCalm
<1> QED
  BY <1>2, <1>14, PlacedCalm

-----------------------------------------------------------------------------
(***************************************************************************)
(* The handlers of statements.                                             *)
(***************************************************************************)

\* The manager that has used its only value.
LEMMA UsedFit ==
    ASSUME NEW m, NEW F, NEW h, NEW K \in SUBSET Names, Fit(m, F, {}, h, K),
           NEW S \in SUBSET Values, F \subseteq S, NEW R, R \subseteq K \ S
    PROVE  Fit(Release(m, S), {}, {}, h, R)
<1>1. Fit(Release(m, S), F \ S, {} \ S, h, K \ S)
  BY ReleaseFit
<1>2. F \ S = {} /\ {} \ S = {}
  OBVIOUS
<1> QED
  BY <1>1, <1>2, FitLess

LEMMA StoreHandler ==
    ASSUME HandlerInv, TypeOK', NEW x \in Vars, NEW first \in Values, Store(x, first)
    PROVE  Fitted' /\ Placed'
<1> DEFINE E == Ran(stack) \ consts
           K == E \cup Ran(homes)
           h == Home(homes)
           m == LoadConst(mgr, Top, Top \in consts, first)
           right == m.freg[m.occ[Top].ix] = Top
           w == [m EXCEPT !.stk[m.occ[x].ix] = IF right THEN x ELSE Junk,
                          !.misread = m.misread \/ ~right]
<1>1. /\ TypeOK /\ Shape /\ ~Calling /\ phase # "cond"
      /\ phase' = "body" /\ homes' = homes /\ call' = call /\ consts' = {} /\ stack' = <<>>
      /\ stack \in Seq(Values) /\ homes \in Seq(Vars) /\ Inj(stack) /\ Inj(homes)
      /\ Len(stack) = 1 /\ Len(stack) >= 1 /\ x \in Ran(homes)
      /\ Finish(Release(w, {Top}))
  BY DEF HandlerInv, FrameInv, Store, Calling, TypeOK, Shape
<1>2. Top \in Values /\ Ran(stack) = {Top}
  BY <1>1, TopFacts
<1>3. /\ Fit(mgr, E, {}, h, K) /\ K \in SUBSET Names /\ call = NoCall
      /\ Ran(homes) \subseteq Vars
  BY <1>1, StartFit
<1> DEFINE G == E \cup {Top}
           L == K \cup {Top}
<1>4. /\ G \subseteq {Top} /\ L \in SUBSET Names /\ {Top} \in SUBSET Values
      /\ x \in Names /\ x \in Contents /\ Top \in L
      /\ Ran(homes) \subseteq (L \cup {x}) \ {Top} /\ L \cup {x} \in SUBSET Names
  BY <1>1, <1>2, <1>3, NameFacts
<1>5. h[x].ty = "off"
  BY <1>1, HomeFacts
<1>6. Fit(m, G, {}, h, L) /\ Loaded(mgr, m, Top, Top \in consts)
  BY <1>1, <1>3, LoadTopFit
<1> HIDE DEF m, E, K, G, L, h
<1> DEFINE c == IF right THEN x ELSE Junk
<1>7. w \in Sound
  <2>1. c \in Contents
    BY <1>4, NameFacts
  <2> HIDE DEF c, right
  <2>2. [m EXCEPT !.stk[m.occ[x].ix] = c, !.misread = m.misread \/ ~right] \in Sound
    BY <1>6, <2>1, SoundStk DEF Fit
  <2> QED
    BY <2>2 DEF c
<1>8. m \in Managers /\ m.occ \in [Names -> Places] /\ m.stk \in [Slots -> Contents]
      /\ m.misread \in BOOLEAN
  BY <1>6, ManagerFields DEF Fit, Sound
<1>9. /\ SameTable(m, w) /\ w.freg = m.freg /\ w.treg = m.treg
      /\ w.misread = (m.misread \/ ~right)
      /\ w.stk = [m.stk EXCEPT ![m.occ[x].ix] = c]
  BY <1>8 DEF SameTable, Managers
<1>10. ASSUME m.status = "ok"
       PROVE  Fit(w, G, {}, h, L \cup {x})
  <2>1. m.occ[x] = h[x]
    BY <1>1, <1>6, <1>10 DEF Fit, Tabled
  <2>2. m.occ[x] = OnStack(m.occ[x].ix) /\ m.occ[x].ix \in Int
    BY <1>4, <1>5, <1>8, <2>1, PlaceFacts
  <2>3. ASSUME Plain
        PROVE  w.misread = m.misread /\ Held(w, x) = x
    <3>1. right
      BY <1>4, <1>6, <1>10, <2>3, HeldFloat DEF Loaded
    <3>2. w.misread = m.misread /\ c = x
      BY <1>8, <1>9, <3>1
    <3>3. w.stk[m.occ[x].ix] = x /\ w.occ[x] = m.occ[x]
      BY <1>8, <1>9, <2>2, <2>3, <3>2 DEF SameTable, Plain
    <3>4. w \in Managers /\ Slots = Int
      BY <1>7, <2>3 DEF Sound, Plain
    <3> HIDE DEF w
    <3>5. Held(w, x) = x
      BY SMTT(60), <1>4, <1>5, <2>1, <3>3, <3>4, HeldCases
    <3> QED
      BY <3>2, <3>5
  <2>4. Updates(m, w, x)
    <3>1. \A o \in Slots : OnStack(o) # m.occ[x] => w.stk[o] = m.stk[o]
      BY <1>8, <1>9, <2>2
    <3> QED
      BY <1>9, <2>3, <3>1 DEF Updates
  <2> HIDE DEF w
  <2> QED
    BY <1>4, <1>6, <1>7, <2>4, UpdateFit
<1>11. ASSUME m.status # "ok"
       PROVE  Fit(w, G, {}, h, L \cup {x})
  <2>1. w.status = m.status
    BY <1>9 DEF SameTable
  <2> HIDE DEF w
  <2> QED
    BY <1>6, <1>7, <1>11, <2>1, DeadFit
<1> HIDE DEF w
<1>12. Fit(w, G, {}, h, L \cup {x})
  BY <1>10, <1>11
<1>13. Fit(Release(w, {Top}), {}, {}, h, Ran(homes))
  BY <1>4, <1>12, UsedFit DEF G
<1>14. /\ homes' \in Seq(Vars) /\ stack' \in Seq(Values) /\ h = Home(homes')
       /\ {} = Ran(stack') \ consts' /\ Ran(homes) = {} \cup Ran(homes')
       /\ phase' # "cond" /\ call' = NoCall
  BY <1>1, <1>3, KeptFacts DEF TypeOK, h
<1>15. Fitted'
  BY <1>1, <1>13, <1>14, FinishCalm
<1> QED
  BY SMTT(60), <1>1, <1>15, PlacedCalm

\* Register r is loaded with c.
Puts(m, w, r, c) == Scratches(m, w, r) /\ w.freg[r] = c /\ w.cursor = m.cursor

LEMMA FregPuts ==
    ASSUME NEW m \in Managers, NEW r \in FloatRegs, NEW c
    PROVE  Puts(m, [m EXCEPT !.freg[r] = c], r, c)
BY DEF Puts, Scratches, SameTable, Managers

\* $f0 and $f12 are in no pool.
LEMMA ReservedFacts ==
    F0 \in FloatRegs /\ F12 \in FloatRegs /\ F0 \notin Allocatable /\ F12 \notin Allocatable
BY MachineAssumption DEF FloatRegs, Allocatable, F0

LEMMA InputHandler ==
    ASSUME HandlerInv, TypeOK', NEW first \in Values, Input(first)
    PROVE  Fitted' /\ Placed'
<1> DEFINE h == Home(homes)
           K == Ran(homes)
           s(v) == [mgr EXCEPT !.freg[F0] = v]
           z(v) == GetFreeFloat(s(v), first)
           l(v) == [z(v) EXCEPT !.freg[z(v).got] = Junk]
           a(v) == AllocFloat(l(v), v, first)
           right(v) == a(v).freg[F0] = v
           w(v) == WriteFloat(a(v), a(v).occ[v].ix, v, right(v))
<1>1. PICK v \in Values : stack' = <<v>> /\ Finish(w(v))
  BY DEF Input
<1>2. /\ TypeOK /\ Shape /\ ~Calling /\ phase # "cond"
      /\ phase' = "input" /\ homes' = homes /\ call' = call /\ consts' = consts
      /\ stack = <<>> /\ homes \in Seq(Vars) /\ consts \subseteq Ran(stack)
  BY DEF HandlerInv, FrameInv, Input, Statement, Body, Calling, TypeOK, Shape
<1>3. /\ Ran(stack) = {} /\ consts = {} /\ Ran(stack) \ consts = {} /\ Ran(stack') = {v}
  BY <1>1, <1>2, KeptFacts
<1>4. /\ Fit(mgr, {}, {}, h, K) /\ K \in SUBSET Names /\ call = NoCall
  BY <1>2, <1>3, StartFit
<1>5. Roomy => Cardinality({}) < FLOATCOUNT - 2
  BY <1>2, FewFacts
<1>6. v \in Names /\ v \in Contents /\ Junk \in Contents
  BY NameFacts
<1> HIDE DEF h, K
<1>7. /\ Fit(s(v), {}, {}, h, K) /\ s(v) \in Managers /\ s(v).freg[F0] = v
  <2>1. s(v) \in Sound /\ Puts(mgr, s(v), F0, v)
    BY <1>4, <1>6, SoundFreg, FregPuts, ReservedFacts DEF Fit, Sound
  <2> HIDE DEF s
  <2> QED
    BY <1>4, <2>1, ScratchFit, ReservedFacts DEF Puts, Sound
<1> HIDE DEF s
<1>8. /\ Fit(z(v), {}, {}, h, K)
      /\ z(v).status = "ok" =>
            /\ z(v).got \in z(v).pool /\ z(v).got \in Allocatable
            /\ z(v).freg = s(v).freg
  BY <1>4, <1>5, <1>7, GetFreeFit
<1> HIDE DEF z
<1>9. z(v) \in Managers /\ z(v).got \in FloatRegs
  BY <1>8, ManagerFields DEF Fit, Sound
<1>10. l(v) \in Sound /\ Puts(z(v), l(v), z(v).got, Junk)
  BY <1>6, <1>8, <1>9, SoundFreg, FregPuts DEF Fit
<1> HIDE DEF l
<1>11. Fit(l(v), {}, {}, h, K)
  BY <1>4, <1>8, <1>9, <1>10, ScratchFit DEF Puts
<1>12. /\ Fit(a(v), {} \cup {v}, {}, h, K)
       /\ a(v).status = "ok" => Gets(l(v), a(v), v) /\ a(v).freg = l(v).freg
  BY <1>4, <1>5, <1>11, AllocFloatFit
<1> HIDE DEF a
<1>13. a(v).status = "ok" => a(v).occ[v].ty = "float" /\ (Plain => right(v))
  <2> SUFFICES ASSUME a(v).status = "ok"
               PROVE  a(v).occ[v].ty = "float" /\ right(v)
    OBVIOUS
  <2>1. l(v).status = "ok" /\ a(v).occ[v].ty = "float" /\ a(v).freg = l(v).freg
    BY <1>12 DEF Gets, Took
  <2>2. z(v).status = "ok"
    BY <1>10, <2>1 DEF Puts, Scratches, SameTable
  <2>3. l(v).freg[F0] = z(v).freg[F0]
    BY <1>8, <1>10, <2>2, ReservedFacts DEF Puts, Scratches
  <2> QED
    BY <1>7, <1>8, <2>1, <2>2, <2>3
<1> HIDE DEF right
<1>14. Fit(w(v), {} \cup {v}, {}, h, K \cup {v})
  BY <1>4, <1>12, <1>13, WriteFit
<1> HIDE DEF w
<1> DEFINE A == {} \cup {v}
           B == K \cup {v}
<1>15. /\ homes' \in Seq(Vars) /\ stack' \in Seq(Values) /\ h = Home(homes')
       /\ A = Ran(stack') \ consts' /\ B = A \cup Ran(homes')
       /\ phase' # "cond" /\ call' = NoCall
  BY <1>2, <1>3, <1>4 DEF TypeOK, h, K
<1> HIDE DEF A, B
<1>16. Fitted'
  BY <1>1, <1>14, <1>15, FinishCalm DEF A, B
<1> QED
  BY <1>2, <1>16, PlacedCalm

\* The write of a print or a return: no value is in $f12 or $f0.
LEMMA WriteReserved ==
    ASSUME NEW m, NEW F, NEW h, NEW K \in SUBSET Names, Fit(m, F, {}, h, K),
           NEW r \in {F0, F12}, NEW v \in Values, NEW right,
           m.status = "ok" /\ Plain => right
    PROVE  Fit(WriteFloat(m, r, v, right), F, {}, h, K)
<1> DEFINE w == WriteFloat(m, r, v, right)
<1>1. m \in Sound /\ m \in Managers /\ v \in Names /\ r \in FloatRegs /\ r \notin Allocatable
      /\ m.misread \in BOOLEAN
  BY NameFacts, ReservedFacts, ManagerFields DEF Fit, Sound
<1>2. w \in Sound
  BY <1>1, SoundWrite
<1>3. /\ SameTable(m, w) /\ w.treg = m.treg /\ w.stk = m.stk
      /\ \A q \in FloatRegs \ {r} : w.freg[q] = m.freg[q]
      /\ w.misread = (m.misread \/ ~right)
  BY <1>1 DEF WriteFloat, SameTable, Managers
<1> HIDE DEF w
<1>4. CASE m.status = "ok" /\ Plain
  <2>1. Scratches(m, w, r)
    BY <1>1, <1>3, <1>4 DEF Scratches
  <2> QED
    BY <1>1, <1>2, <2>1, ScratchFit DEF w
<1>5. CASE m.status = "ok" /\ ~Plain
  BY <1>2, <1>3, <1>5, AnyFit DEF w
<1>6. CASE m.status # "ok"
  <2>1. w.status = m.status
    BY <1>3 DEF SameTable
  <2> QED
    BY <1>2, <1>6, <2>1, DeadFit DEF w
<1> QED
  BY <1>4, <1>5, <1>6

\* With at most one value in a register there are free ones.
LEMMA OneFree ==
    ASSUME NEW m, NEW F, NEW h, NEW K, Fit(m, F, {}, h, K), m.status = "ok", Plain,
           NEW x \in Values, \A v \in F : m.occ[v].ty = "float" => v = x
    PROVE  m.pool # {}
<1>1. Tabled(m, F, {}, h) /\ Registers(m)
  BY DEF Fit
<1>2. \A v \in Values : m.occ[v].ty = "float" => v \in {x}
  BY <1>1 DEF Tabled
<1>3. Cardinality({x}) = 1
  BY FS_Singleton
<1>4. Cardinality({x}) < FLOATCOUNT - 2
  BY <1>3, MachineAssumption DEF Plain
<1> QED
  BY <1>1, <1>2, <1>4, PoolFree

\* On the least machine there are two registers to allocate.
LEMMA TwoFree ==
    ASSUME Plain, NEW r
    PROVE  \E s \in Allocatable : s # r
<1>1. FLOATCOUNT \in Nat /\ FLOATCOUNT >= 4 /\ F12 \in Int
  BY MachineAssumption DEF Plain
<1>2. \A i \in {1, 2, 3} : i # F12 => i \in Allocatable
  BY <1>1 DEF Allocatable, FloatRegs, F0
<1> QED
  BY <1>2

\* The register set aside for the zero is not the one the operand gets.
LEMMA OutputHandler ==
    ASSUME HandlerInv, TypeOK', NEW first \in Values, Output(first)
    PROVE  Fitted' /\ Placed'
<1> DEFINE E == Ran(stack) \ consts
           K == E \cup Ran(homes)
           h == Home(homes)
           z == GetFreeFloat(mgr, first)
           m == LoadConst(z, Top, Top \in consts, first)
           l == [m EXCEPT !.freg[z.got] = Junk]
           right == l.freg[m.occ[Top].ix] = Top
           w == WriteFloat(l, F12, Top, right)
           G == E \cup {Top}
           L == K \cup {Top}
<1>1. /\ TypeOK /\ Shape /\ ~Calling /\ phase # "cond"
      /\ phase' = "body" /\ homes' = homes /\ call' = call /\ consts' = {} /\ stack' = <<>>
      /\ stack \in Seq(Values) /\ homes \in Seq(Vars) /\ Inj(stack)
      /\ Len(stack) = 1 /\ Len(stack) >= 1
      /\ Finish(Release(w, {Top}))
  BY DEF HandlerInv, FrameInv, Output, Statement, Body, Calling, TypeOK, Shape
<1>2. Top \in Values /\ Ran(stack) = {Top}
  BY <1>1, TopFacts
<1>3. /\ Fit(mgr, E, {}, h, K) /\ K \in SUBSET Names /\ call = NoCall
      /\ Ran(homes) \subseteq Vars /\ E \subseteq Ran(stack)
  BY <1>1, StartFit
<1>4. /\ G \subseteq {Top} /\ L \in SUBSET Names /\ {Top} \in SUBSET Values
      /\ Ran(homes) \subseteq L \ {Top} /\ Top \in L /\ Junk \in Contents
      /\ (Top \in consts => E = {})
  BY <1>1, <1>2, <1>3, NameFacts
<1>5. Roomy => Cardinality(E) < FLOATCOUNT - 2
  BY <1>1, <1>3, FewFacts
<1>6. /\ Fit(z, E, {}, h, K)
      /\ z.status = "ok" => /\ z.got \in z.pool /\ z.got \in Allocatable
                            /\ z.cursor = (z.got + 1) % FLOATCOUNT
  BY <1>3, <1>5, GetFreeFit
<1> HIDE DEF z
<1>7. Fit(m, G, {}, h, L) /\ Loaded(z, m, Top, Top \in consts)
  BY <1>1, <1>6, LoadTopFit
<1> HIDE DEF m
<1>8. m \in Managers /\ z.got \in FloatRegs /\ z \in Managers
  BY <1>6, <1>7, ManagerFields DEF Fit, Sound
<1>9. l \in Sound /\ Puts(m, l, z.got, Junk)
  BY <1>4, <1>7, <1>8, SoundFreg, FregPuts DEF Fit
<1> HIDE DEF l, h, L
<1>10. ASSUME m.status = "ok", Plain
       PROVE  z.got \in m.pool /\ m.occ[Top].ix # z.got
  <2>1. z.status = "ok" /\ Tabled(z, E, {}, h) /\ Registers(z)
    BY <1>6, <1>7, <1>10 DEF Loaded, Gets, Took, Fit
  <2>2. Tabled(m, G, {}, h) /\ Registers(m) /\ Single
    BY <1>7, <1>10 DEF Fit, Plain, Single
  <2>3. m.occ[Top].ty = "float"
    BY <1>7, <1>10 DEF Loaded
  <2>4. CASE m = z
    BY <1>2, <1>6, <2>1, <2>2, <2>3, <2>4 DEF Registers
  <2>5. CASE Gets(z, m, Top) /\ (Top \in consts \/ z.occ[Top].ty = "off")
    <3>1. \A v \in Values : z.occ[v].ty # "float"
      BY <1>2, <1>3, <1>4, <2>1, <2>5, PlaceFacts DEF Tabled
    <3>2. Allocatable \subseteq z.pool
      BY <2>1, <3>1, PlaceFacts DEF Registers
    <3>3. z.pool \in SUBSET FloatRegs /\ z.pool # {}
      BY <1>6, <1>8, <2>1, ManagerFields
    <3>4. PICK s \in z.pool : s # z.got
      BY <1>10, <3>2, TwoFree
    <3>5. m.occ[Top].ix = Nearest(z.pool, z.cursor, FLOATCOUNT)
      BY <2>5, <3>3 DEF Gets
    <3>6. m.occ[Top].ix # z.got
      BY <1>6, <1>8, <2>1, <3>3, <3>4, <3>5, NearestOther
    <3>7. ASSUME z.got \notin m.pool PROVE FALSE
      <4>1. PICK v \in Values : m.occ[v] = InFloat(z.got)
        BY <1>6, <2>1, <2>2, <3>7 DEF Registers
      <4>2. v = Top
        BY <1>4, <2>2, <4>1, PlaceFacts DEF Tabled
      <4> QED
        BY <3>6, <4>1, <4>2, PlaceFacts
    <3> QED
      BY <3>6, <3>7
  <2> QED
    BY <1>7, <1>10, <2>4, <2>5 DEF Loaded
<1>11. Fit(l, G, {}, h, L)
  <2>1. CASE Plain
    BY <1>4, <1>7, <1>8, <1>9, <1>10, <2>1, ScratchFit DEF Puts
  <2>2. CASE ~Plain
    BY <1>7, <1>9, <2>2, AnyFit DEF Puts, Scratches
  <2> QED
    BY <2>1, <2>2
<1>12. l.status = "ok" /\ Plain => right
  <2> SUFFICES ASSUME l.status = "ok", Plain PROVE right
    OBVIOUS
  <2>1. m.status = "ok"
    BY <1>9 DEF Puts, Scratches, SameTable
  <2>2. m.occ[Top].ty = "float" /\ m.occ[Top].ix \in FloatRegs
    <3>1. m.occ[Top].ty = "float"
      BY <1>7, <2>1 DEF Loaded
    <3>2. m.occ[Top] \in Places
      BY <1>2, <1>8, ManagerFields, NameFacts
    <3> QED
      BY <3>1, <3>2, PlaceFacts
  <2>3. m.freg[m.occ[Top].ix] = Top
    BY <1>4, <1>7, <2>1, <2>2, HeldFloat
  <2>4. l.freg[m.occ[Top].ix] = m.freg[m.occ[Top].ix]
    BY <1>9, <1>10, <2>1, <2>2 DEF Puts, Scratches
  <2> QED
    BY <2>3, <2>4
<1> HIDE DEF right, G
<1>13. Fit(w, G, {}, h, L)
  BY <1>2, <1>4, <1>11, <1>12, WriteReserved
<1> HIDE DEF w
<1>14. Fit(Release(w, {Top}), {}, {}, h, Ran(homes))
  BY <1>4, <1>13, UsedFit
<1>15. /\ homes' \in Seq(Vars) /\ stack' \in Seq(Values) /\ h = Home(homes')
       /\ {} = Ran(stack') \ consts' /\ Ran(homes) = {} \cup Ran(homes')
       /\ phase' # "cond" /\ call' = NoCall
  BY <1>1, <1>3, KeptFacts DEF TypeOK, h
<1>16. Fitted'
  BY <1>1, <1>14, <1>15, FinishCalm
<1> QED
  BY <1>1, <1>16, PlacedCalm

\* The branch taken is the one the operator asks for.
LEMMA LoweredRight == \A op \in Relations : Lowered(op) = Asked(op)
<1> SUFFICES ASSUME NEW op \in Relations PROVE Lowered(op) = Asked(op)
  OBVIOUS
<1>1. CASE op = "=="
  BY <1>1 DEF Lowered, Asked, Flag
<1>2. CASE op = "!="
  BY <1>2 DEF Lowered, Asked, Flag, Outcomes
<1>3. CASE op = ">"
  BY <1>3 DEF Lowered, Asked, Flag, Outcomes
<1>4. CASE op = ">="
  BY <1>4 DEF Lowered, Asked, Flag, Outcomes
<1>5. CASE op = "<"
  BY <1>5 DEF Lowered, Asked, Flag
<1>6. CASE op = "<="
  BY <1>6 DEF Lowered, Asked, Flag
<1> QED
  BY <1>1, <1>2, <1>3, <1>4, <1>5, <1>6 DEF Relations

\* The left operand's register is not the one the right operand gets.
LEMMA CompareHandler ==
    ASSUME HandlerInv, TypeOK', NEW op \in Relations, NEW first \in Values, Compare(op, first)
    PROVE  Fitted' /\ Placed'
<1> DEFINE E == Ran(stack) \ consts
           K == E \cup Ran(homes)
           h == Home(homes)
           x == stack[1]
           y == stack[2]
           cx == x \in consts
           cy == y \in consts
           a == LoadConst(mgr, x, cx, first)
           b == LoadConst(a, y, cy, first)
           c(v) == AllocTmp(b, v)
           right(v) == c(v).freg[a.occ[x].ix] = x /\ c(v).freg[b.occ[y].ix] = y
           result(v) == IF right(v) /\ Lowered(op) = Asked(op) THEN v ELSE Junk
           w(v) == [c(v) EXCEPT !.treg[c(v).occ[v].ix] = result(v),
                                !.misread = c(v).misread \/ ~right(v)]
<1>1. PICK v \in Values : Fresh(v) /\ stack' = <<v>> /\ Finish(Release(w(v), {x, y}))
  BY ZenonT(60) DEF Compare
<1>2. /\ TypeOK /\ Shape /\ ~Calling /\ phase # "cond" /\ phase # "input"
      /\ phase' = "cond" /\ homes' = homes /\ call' = call /\ consts' = {}
      /\ stack \in Seq(Values) /\ homes \in Seq(Vars) /\ Inj(stack)
      /\ Len(stack) = 2 /\ Len(stack) >= 2 /\ consts \subseteq Ran(stack)
  BY SMTT(30) DEF HandlerInv, FrameInv, Compare, Statement, Body, Calling, TypeOK, Shape
<1>3. /\ x # y /\ x \in Values /\ y \in Values /\ Ran(stack) = {x, y}
      /\ x \in Ran(stack) /\ y \in Ran(stack)
  BY <1>2, PairFacts
<1> HIDE DEF x, y
<1>4. v # x /\ v # y /\ v \notin Ran(stack)
  BY <1>1, <1>3 DEF Fresh
<1>5. /\ Fit(mgr, E, {}, h, K) /\ K \in SUBSET Names /\ call = NoCall
      /\ Ran(homes) \subseteq Vars /\ E \subseteq Ran(stack)
  BY <1>2, StartFit
<1> DEFINE F == E \cup {x}
           G == F \cup {y}
           M == K \cup {x}
           L == M \cup {y}
<1>6. /\ (Roomy => Cardinality(E) < FLOATCOUNT - 2)
      /\ (Roomy => Cardinality(F) < FLOATCOUNT - 2)
  BY <1>2, <1>3, <1>5, FewFacts
<1>7. /\ cx \in BOOLEAN /\ (cx => x \notin E \cup {}) /\ (~cx => x \in E \cap K)
      /\ cy \in BOOLEAN /\ (cy => y \notin F \cup {}) /\ (~cy => y \in F \cap M)
      /\ x \in M /\ y \in L /\ x \in L /\ M \in SUBSET Names /\ L \in SUBSET Names
      /\ v \notin G /\ G \subseteq {x, y} /\ F \subseteq {x, y}
      /\ x \in Names /\ y \in Names /\ v \in Names /\ v \in Contents /\ {x, y} \in SUBSET Values
      /\ (cy => y \notin F)
  BY <1>3, <1>4, <1>5, NameFacts
<1>8. Ran(homes) \cup {v} \subseteq (L \cup {v}) \ {x, y} /\ Ran(homes) \cup {v} \in SUBSET Names
      /\ L \cup {v} \in SUBSET Names
  BY <1>3, <1>4, <1>5, NameFacts
<1> HIDE DEF E, K, h, cx, cy
<1>9. /\ Fit(a, F, {}, h, M)
      /\ Loaded(mgr, a, x, cx)
  BY SMTT(60), <1>3, <1>5, <1>6, <1>7, LoadConstFit DEF Loaded
<1> HIDE DEF a, F, M, b, G, L
<1>10. /\ Fit(b, G, {}, h, L)
       /\ Loaded(a, b, y, cy)
  <2>1. /\ Fit(a, F, {}, h, M) /\ M \in SUBSET Names /\ y \in Values /\ cy \in BOOLEAN
        /\ (cy => y \notin F \cup {}) /\ (~cy => y \in F \cap M)
        /\ (Roomy => Cardinality(F) < FLOATCOUNT - 2)
    BY <1>3, <1>6, <1>7, <1>9
  <2> QED
    BY <2>1, LoadConstFit DEF Loaded, b, G, L
<1>11. /\ Fit(c(v), G, {v}, h, L)
       /\ c(v).status = b.status
       /\ b.status = "ok" => c(v).occ[v].ty = "tmp" /\ c(v).freg = b.freg
  BY <1>7, <1>10, AllocTmpFit
<1> HIDE DEF c
<1>12. c(v).status = "ok" /\ Plain => right(v)
  <2> SUFFICES ASSUME c(v).status = "ok", Plain PROVE right(v)
    OBVIOUS
  <2>1. b.status = "ok" /\ a.status = "ok" /\ c(v).freg = b.freg
    BY <1>10, <1>11 DEF Loaded, Gets, Took
  <2>2. b.freg[b.occ[y].ix] = y /\ a.freg[a.occ[x].ix] = x
    BY <1>7, <1>9, <1>10, <2>1, HeldFloat DEF Loaded
  <2>3. b.freg[a.occ[x].ix] = a.freg[a.occ[x].ix]
    <3>1. CASE b = a
      BY <3>1
    <3>2. CASE Gets(a, b, y) /\ (cy \/ a.occ[y].ty = "off")
      <4>1. \A u \in F : a.occ[u].ty = "float" => u = x
        BY <1>7, <3>2
      <4>2. a.pool # {}
        BY <1>3, <1>9, <2>1, <4>1, OneFree
      <4>3. a \in Managers /\ a.pool \in SUBSET FloatRegs /\ a.cursor \in FloatRegs
        BY <1>9, ManagerFields DEF Fit, Sound
      <4>4. b.occ[y].ix \in a.pool
        BY <3>2, <4>2, <4>3, FloatRegFacts, NearestFree DEF Gets, FloatRegs
      <4>5. a.occ[x].ix \notin a.pool /\ a.occ[x].ix \in FloatRegs
        BY <1>3, <1>9, <2>1, FloatRegFacts DEF Loaded, Fit, Registers, Plain, Single
      <4> QED
        BY <3>2, <4>4, <4>5 DEF Gets
    <3> QED
      BY <1>10, <2>1, <3>1, <3>2 DEF Loaded
  <2> QED
    BY <2>1, <2>2, <2>3
<1> HIDE DEF right
<1>13. result(v) = IF right(v) THEN v ELSE Junk
  BY LoweredRight
<1> HIDE DEF result
<1>14. w(v) = [c(v) EXCEPT !.treg[c(v).occ[v].ix] = IF right(v) THEN v ELSE Junk,
                           !.misread = c(v).misread \/ ~right(v)]
  BY <1>13
<1>15. w(v) \in Sound
  BY <1>7, <1>11, <1>14, SoundTreg DEF Fit
<1>16. c(v) \in Managers /\ c(v).occ \in [Names -> Places] /\ c(v).treg \in [TmpRegs -> Contents]
       /\ c(v).misread \in BOOLEAN
  BY <1>11, ManagerFields DEF Fit, Sound
<1>17. /\ SameTable(c(v), w(v)) /\ w(v).freg = c(v).freg /\ w(v).stk = c(v).stk
       /\ w(v).misread = (c(v).misread \/ ~right(v))
       /\ w(v).treg = [c(v).treg EXCEPT ![c(v).occ[v].ix] = IF right(v) THEN v ELSE Junk]
  BY <1>14, <1>16 DEF SameTable, Managers
<1> HIDE DEF w
<1>18. Fit(w(v), G, {v}, h, L \cup {v})
  <2>1. CASE c(v).status = "ok"
    <3>1. /\ c(v).occ[v].ty = "tmp" /\ c(v).occ[v] = InTmp(c(v).occ[v].ix)
          /\ c(v).occ[v].ix \in TmpRegs
      BY <1>7, <1>11, <1>16, <2>1, PlaceFacts
    <3>2. ASSUME Plain
          PROVE  w(v).misread = c(v).misread /\ Held(w(v), v) = v
      <4>1. right(v)
        BY <1>12, <2>1, <3>2
      <4>2. w(v).misread = c(v).misread /\ w(v).treg[c(v).occ[v].ix] = v
            /\ w(v).occ[v] = c(v).occ[v]
        BY <1>16, <1>17, <3>1, <4>1 DEF SameTable
      <4>3. w(v) \in Managers /\ Slots = Int
        BY <1>15, <3>2 DEF Sound, Plain
      <4> QED
        BY <1>7, <3>1, <4>2, <4>3, HeldCases
    <3>3. \A q \in TmpRegs : InTmp(q) # c(v).occ[v] => w(v).treg[q] = c(v).treg[q]
      BY <1>16, <1>17, <3>1
    <3>4. Updates(c(v), w(v), v)
      BY <1>17, <3>2, <3>3 DEF Updates
    <3> QED
      BY <1>7, <1>11, <1>15, <3>4, UpdateFit
  <2>2. CASE c(v).status # "ok"
    BY <1>11, <1>15, <1>17, <2>2, DeadFit DEF SameTable
  <2> QED
    BY <2>1, <2>2
<1> DEFINE z == Release(w(v), {x, y})
           R == Ran(homes) \cup {v}
<1>19. Fit(z, G \ {x, y}, {v} \ {x, y}, h, (L \cup {v}) \ {x, y})
  BY <1>7, <1>8, <1>18, ReleaseFit
<1>20. G \ {x, y} = {} /\ {v} \ {x, y} = {v}
  BY <1>4, <1>7
<1> HIDE DEF z
<1>21. Fit(z, {}, {v}, h, R)
  BY <1>8, <1>19, <1>20, FitLess
<1>22. Ran(stack') = {v} /\ R \cap Values \subseteq {v}
  BY <1>1, <1>5, KeptFacts, NameFacts
<1> HIDE DEF R
<1>23. /\ Fit(mgr', {}, {v}, h, R)
       /\ mgr'.status = "dead" => Gone(mgr')
  BY <1>1, <1>8, <1>21, <1>22, FinishFit DEF z, R
<1>24. Kept(stack', consts', call') = {v} /\ R = {v} \cup Ran(homes') /\ h = Home(homes')
  BY <1>2, <1>5, <1>22, KeptFacts DEF R, h
<1>25. Fitted'
  BY <1>2, <1>23, <1>24 DEF Fitted, FitFor
<1> QED
  BY SMTT(60), <1>2, <1>25, PlacedCalm

-----------------------------------------------------------------------------
(***************************************************************************)
(* The handlers that end a block.                                          *)
(***************************************************************************)

\* A branch reads the result of the compare before it and releases it.
LEMMA BranchHandler ==
    ASSUME HandlerInv, Branch
    PROVE  Fitted' /\ Placed'
<1> DEFINE h == Home(homes)
           K == {Top} \cup Ran(homes)
           wrong == Held(mgr, Top) # Top
           w == [mgr EXCEPT !.misread = mgr.misread \/ wrong]
<1>1. /\ TypeOK /\ Shape /\ Fitted /\ phase = "cond" /\ Len(stack) = 1 /\ Len(stack) >= 1
      /\ phase' = "body" /\ homes' = homes /\ call' = call /\ stack' = <<>>
      /\ stack \in Seq(Values) /\ homes \in Seq(Vars) /\ Inj(stack) /\ ~Calling
      /\ consts = {} /\ call = NoCall /\ mgr.status = "ok" /\ mgr \in Sound
      /\ EndBlock(Release(w, {Top}))
  BY DEF HandlerInv, FrameInv, Branch, Calling, TypeOK, Shape
<1>2. Top \in Values /\ Ran(stack) = {Top} /\ Kept(stack, consts, call) = {Top}
  BY <1>1, TopFacts, KeptFacts
<1>3. K \in SUBSET Names /\ Top \in K /\ {Top} \in SUBSET Values
      /\ Ran(homes) \subseteq Vars /\ Ran(homes) \subseteq K \ {Top}
  BY <1>1, <1>2, RanType, NameFacts
<1>4. Fit(mgr, {}, {Top}, h, K)
  BY <1>1, <1>2 DEF Fitted, FitFor
<1>5. mgr \in Managers /\ mgr.misread \in BOOLEAN
  BY <1>1, ManagerFields DEF Sound
<1>6. /\ w \in Managers /\ w.occ = mgr.occ /\ w.off = mgr.off
      /\ SameTable(mgr, w) /\ w.freg = mgr.freg /\ w.treg = mgr.treg /\ w.stk = mgr.stk
      /\ w.misread = (mgr.misread \/ wrong)
  BY <1>5 DEF SameTable, Managers
<1>7. w \in Sound
  BY <1>1, <1>6, ApartFrame DEF Sound
<1> HIDE DEF w, K, h
<1>8. Fit(w, {}, {Top}, h, K)
  <2>1. CASE Plain
    <3>1. ~mgr.misread /\ ~wrong /\ \A n \in K : Held(mgr, n) = n
      BY <1>1, <1>3, <1>4, <2>1 DEF Fit, Holds
    <3>2. ~w.misread
      BY <1>6, <3>1
    <3>3. \A n \in K : Held(w, n) = Held(mgr, n)
      BY <1>6 DEF Held
    <3>4. Holds(w, K)
      BY <3>1, <3>2, <3>3 DEF Holds
    <3> QED
      BY <1>4, <1>6, <1>7, <3>4, MemFit
  <2>2. CASE ~Plain
    BY <1>4, <1>6, <1>7, <2>2, AnyFit
  <2> QED
    BY <2>1, <2>2
<1>9. Fit(Release(w, {Top}), {}, {}, h, Ran(homes))
  <2>1. Fit(Release(w, {Top}), {} \ {Top}, {Top} \ {Top}, h, K \ {Top})
    BY <1>3, <1>8, ReleaseFit
  <2>2. {} \ {Top} = {} /\ {Top} \ {Top} = {}
    OBVIOUS
  <2> QED
    BY <1>3, <2>1, <2>2, FitLess
<1>10. Fitted'
  BY <1>1, <1>9, EndCalm DEF h
<1> QED
  BY <1>1, <1>10, PlacedCalm

LEMMA JumpHandler ==
    ASSUME HandlerInv, Jump \/ ReturnMain
    PROVE  Fitted' /\ Placed'
<1>1. /\ Statement /\ stack = <<>> /\ stack' = <<>> /\ EndBlock(mgr)
      /\ phase' \in {"body", "end"} /\ homes' = homes /\ call' = call
  BY DEF Jump, ReturnMain
<1>2. ~Calling /\ phase # "cond" /\ homes \in Seq(Vars)
  BY <1>1 DEF Statement, Body, Calling, HandlerInv, FrameInv, TypeOK
<1>3. Fit(mgr, {}, {}, Home(homes), Ran(homes)) /\ call = NoCall
  <2>1. Ran(stack) \ consts = {}
    BY <1>1, KeptFacts
  <2> QED
    BY <1>2, <2>1, StartFit
<1>4. Fitted'
  BY <1>1, <1>2, <1>3, EndCalm
<1> QED
  BY <1>1, <1>4, PlacedCalm

\* The register set aside for the zero is not the one of the value returned.
LEMMA ReturnValueHandler ==
    ASSUME HandlerInv, TypeOK', NEW first \in Values, ReturnValue(first)
    PROVE  Fitted' /\ Placed'
<1> DEFINE E == Ran(stack) \ consts
           K == E \cup Ran(homes)
           h == Home(homes)
           m == LoadConst(mgr, Top, Top \in consts, first)
           z == GetFreeFloat(m, first)
           l == [z EXCEPT !.freg[z.got] = Junk]
           right == l.freg[m.occ[Top].ix] = Top
           w == WriteFloat(l, F0, Top, right)
           G == E \cup {Top}
           L == K \cup {Top}
<1>1. /\ TypeOK /\ Shape /\ ~Calling /\ phase # "cond"
      /\ phase' = "idle" /\ homes' = homes /\ call' = call /\ stack' = <<>>
      /\ stack \in Seq(Values) /\ homes \in Seq(Vars) /\ Inj(stack)
      /\ Len(stack) = 1 /\ Len(stack) >= 1
      /\ EndBlock(Release(w, {Top}))
  BY DEF HandlerInv, FrameInv, ReturnValue, Body, Calling, TypeOK, Shape
<1>2. Top \in Values /\ Ran(stack) = {Top}
  BY <1>1, TopFacts
<1>3. /\ Fit(mgr, E, {}, h, K) /\ K \in SUBSET Names /\ call = NoCall
      /\ Ran(homes) \subseteq Vars /\ E \subseteq Ran(stack)
  BY <1>1, StartFit
<1>4. /\ G \subseteq {Top} /\ L \in SUBSET Names /\ {Top} \in SUBSET Values
      /\ Ran(homes) \subseteq L \ {Top} /\ Top \in L /\ Junk \in Contents
      /\ F0 \in {F0, F12}
  BY <1>1, <1>2, <1>3, NameFacts
<1>5. Roomy => Cardinality(G) < FLOATCOUNT - 2
  BY <1>1, <1>2, <1>4, FewFacts
<1>6. Fit(m, G, {}, h, L) /\ Loaded(mgr, m, Top, Top \in consts)
  BY <1>1, <1>3, LoadTopFit
<1> HIDE DEF m, G, L, h
<1>7. /\ Fit(z, G, {}, h, L)
      /\ z.status = "ok" =>
            /\ Took(m, z, {})
            /\ z.got \in z.pool /\ z.got \in Allocatable
            /\ z.freg = m.freg
            /\ m.pool # {} => z.pool = m.pool /\ z.occ = m.occ
  BY <1>4, <1>5, <1>6, GetFreeFit
<1> HIDE DEF z
<1>8. m \in Managers /\ z \in Managers /\ z.got \in FloatRegs
  BY <1>6, <1>7, ManagerFields DEF Fit, Sound
<1>9. l \in Sound /\ Puts(z, l, z.got, Junk)
  BY <1>4, <1>7, <1>8, SoundFreg, FregPuts DEF Fit
<1> HIDE DEF l
<1>10. Fit(l, G, {}, h, L)
  BY <1>4, <1>7, <1>8, <1>9, ScratchFit DEF Puts
<1>11. l.status = "ok" /\ Plain => right
  <2> SUFFICES ASSUME l.status = "ok", Plain PROVE right
    OBVIOUS
  <2>1. z.status = "ok" /\ m.status = "ok"
    BY <1>7, <1>9 DEF Puts, Scratches, SameTable, Took
  <2>2. m.pool # {}
    <3>1. \A v \in G : m.occ[v].ty = "float" => v = Top
      BY <1>4
    <3> QED
      BY <1>2, <1>6, <2>1, <3>1, OneFree
  <2>3. m.occ[Top].ty = "float" /\ m.occ[Top].ix \in FloatRegs
    <3>1. m.occ[Top].ty = "float"
      BY <1>6, <2>1 DEF Loaded
    <3>2. m.occ[Top] \in Places
      BY <1>2, <1>8, ManagerFields, NameFacts
    <3> QED
      BY <3>1, <3>2, PlaceFacts
  <2>4. m.occ[Top].ix # z.got
    BY <1>2, <1>6, <1>7, <2>1, <2>2, <2>3 DEF Fit, Registers, Plain, Single
  <2>5. m.freg[m.occ[Top].ix] = Top
    BY <1>4, <1>6, <2>1, <2>3, HeldFloat
  <2>6. l.freg[m.occ[Top].ix] = m.freg[m.occ[Top].ix]
    BY <1>7, <1>9, <2>1, <2>3, <2>4 DEF Puts, Scratches
  <2> QED
    BY <2>5, <2>6
<1> HIDE DEF right
<1>12. Fit(w, G, {}, h, L)
  BY <1>2, <1>4, <1>10, <1>11, WriteReserved
<1> HIDE DEF w
<1>13. Fit(Release(w, {Top}), {}, {}, h, Ran(homes))
  BY <1>4, <1>12, UsedFit
<1>14. Fitted'
  BY <1>1, <1>3, <1>13, EndCalm DEF h
<1> QED
  BY <1>1, <1>14, PlacedCalm

-----------------------------------------------------------------------------
(***************************************************************************)
(* The handlers of a call.                                                 *)
(***************************************************************************)

\* The arguments go just below the words the save loop will take.
LEMMA CallBeginHandler ==
    ASSUME HandlerInv, NEW n \in 0 .. MaxArity, CallBegin(n)
    PROVE  Fitted' /\ Placed'
<1> DEFINE save == InRegister(mgr) \ Ran(Operands(n))
           c == [args |-> Operands(n), done |-> 0, pushSet |-> save,
                 pos |-> mgr.off - 1 - Cardinality(save)]
           E == Ran(stack) \ consts
<1>1. /\ TypeOK /\ Shape /\ Fitted /\ ~Calling /\ phase # "cond" /\ mgr.status = "ok"
      /\ phase' = "args" /\ mgr' = mgr /\ homes' = homes /\ stack' = stack
      /\ consts' = consts /\ call' = c /\ stack \in Seq(Values)
  BY DEF HandlerInv, FrameInv, CallBegin, Body, Room, Calling, TypeOK
<1>2. /\ Fit(mgr, E, {}, Home(homes), E \cup Ran(homes)) /\ mgr.off \in Int
  BY <1>1, StartFit, ManagerFields DEF Fit, Sound
<1>3. /\ InRegister(mgr) \subseteq E
      /\ \A u \in InRegister(mgr) : mgr.occ[u].ty = "float"
      /\ \A u \in Names : mgr.occ[u].ty = "float" => u \in InRegister(mgr)
      /\ E \subseteq Names
  BY <1>1, SaveFacts, RanType, NameFacts
<1>4. Cardinality(save) \in Nat
  <2>1. IsFiniteSet(Ran(stack)) /\ save \subseteq Ran(stack)
    BY <1>1, <1>3, RanCount
  <2> QED
    BY <2>1, FS_Subset, FS_CardinalityType
<1>5. /\ call'.args = Operands(n) /\ call'.done = 0 /\ call'.pushSet = save
      /\ call'.pos = mgr.off - 1 - Cardinality(save)
  BY <1>1
<1>6. 1 .. 0 = {}
  OBVIOUS
<1>7. Kept(stack', consts', call') = E
  BY <1>1, <1>5, <1>6 DEF Kept, Stored
<1> HIDE DEF c
<1>8. Fitted'
  BY <1>1, <1>2, <1>7 DEF Fitted, FitFor
<1>9. \A v \in E : mgr.occ[v].ty = "float" => v \in save \cup Ran(call'.args)
  BY <1>3, <1>5
<1>10. \A u \in save : mgr.occ[u].ty = "float"
  BY <1>3
<1> HIDE DEF save, E
<1>11. /\ mgr.off = call'.pos + 1 + Cardinality(call'.pushSet)
       /\ mgr.off = call'.pos + 1 + Cardinality(call'.pushSet) + call'.done
       /\ mgr.off >= call'.pos + 1 + Cardinality(call'.pushSet)
  BY <1>2, <1>4, <1>5
<1>12. Placed'
  BY <1>1, <1>5, <1>6, <1>7, <1>9, <1>10, <1>11 DEF Placed
<1> QED
  BY <1>8, <1>12

\* What loadConst does besides loading.
LEMMA LoadedFacts ==
    ASSUME NEW m, NEW w, NEW v, NEW isConst, Loaded(m, w, v, isConst), w.status = "ok"
    PROVE  /\ m.status = "ok" /\ w.misread = m.misread
           /\ w.off \in {m.off, m.off - 1}
           /\ \A n \in Names \ {v} : w.occ[n] = m.occ[n] \/ w.occ[n].ty = "off"
           /\ m.pool # {} => /\ w.off = m.off /\ w.stk = m.stk
                             /\ \A n \in Names \ {v} : w.occ[n] = m.occ[n]
<1>1. CASE w = m
  BY <1>1
<1>2. CASE Took(m, w, {v})
  BY <1>2 DEF Took
<1> QED
  BY <1>1, <1>2 DEF Loaded, Gets

\* On a roomy machine a register is free while the values in hand are few.
LEMMA FewFree ==
    ASSUME NEW m, NEW F, NEW h, NEW K, Fit(m, F, {}, h, K), m.status = "ok",
           Cardinality(F) < FLOATCOUNT - 2
    PROVE  m.pool # {}
<1>1. Registers(m) /\ F \in SUBSET Values /\ \A v \in Values : m.occ[v].ty = "float" => v \in F
  BY DEF Fit, Tabled
<1> QED
  BY <1>1, PoolFree

\* The words at positions p + n, p + n - 1, ... hold the first n of a.
Written(m, p, n, a) == \A i \in 1 .. n : m.stk[p + n - (i - 1)] = a[i]

\* The next argument goes under those already there.
LEMMA WrittenNext ==
    ASSUME NEW m, NEW w, NEW p \in Int, NEW n \in Nat, NEW a, Written(m, p, n, a),
           \A o \in Int : o > p /\ m.stk[o] \in {a[i] : i \in 1 .. n} => w.stk[o] = m.stk[o],
           w.stk[p] = a[n + 1]
    PROVE  Written(w, p - 1, n + 1, a)
<1> SUFFICES ASSUME NEW i \in 1 .. (n + 1)
             PROVE  w.stk[p - 1 + (n + 1) - (i - 1)] = a[i]
  BY DEF Written
<1>1. CASE i = n + 1
  <2>1. p - 1 + (n + 1) - (i - 1) = p
    BY <1>1
  <2> QED
    BY <1>1, <2>1
<1>2. CASE i # n + 1
  <2>1. i \in 1 .. n /\ p - 1 + (n + 1) - (i - 1) = p + n - (i - 1)
        /\ p + n - (i - 1) > p /\ p + n - (i - 1) \in Int
    BY <1>2
  <2>2. m.stk[p + n - (i - 1)] = a[i]
    BY <2>1 DEF Written
  <2> QED
    BY <2>1, <2>2
<1> QED
  BY <1>1, <1>2

\* An argument is loaded and stored; a value that goes to the frame to make
\* room for it takes a word above those of the arguments.
LEMMA CallArgHandler ==
    ASSUME HandlerInv, TypeOK', NEW first \in Values, CallArg(first)
    PROVE  Fitted' /\ Placed'
<1> DEFINE K == Kept(stack, consts, call)
           H == K \cup Ran(homes)
           h == Home(homes)
           v == call.args[call.done + 1]
           cv == v \in consts
           m == LoadConst(mgr, v, cv, first)
           right == Held(m, v) = v
           w == [m EXCEPT !.stk[call.pos] = Held(m, v), !.misread = m.misread \/ ~right]
           a == call.args
           n == call.done
           p == call.pos
           c == Cardinality(call.pushSet)
<1>1. /\ TypeOK /\ Shape /\ Fitted /\ Placed /\ Calling /\ phase = "args" /\ mgr.status = "ok"
      /\ n < Len(a) /\ phase' = "args" /\ homes' = homes /\ stack' = stack
      /\ consts' = consts /\ call' = [call EXCEPT !.done = @ + 1, !.pos = @ - 1]
      /\ call \in [args : Seq(Values), done : Nat, pushSet : SUBSET Names, pos : Int]
      /\ consts \subseteq Ran(stack) /\ homes \in Seq(Vars)
      /\ Finish(w)
  BY DEF HandlerInv, FrameInv, CallArg, Calling, TypeOK, Shape
<1>2. /\ Len(a) \in Nat /\ a \in Seq(Values) /\ Inj(a) /\ Ran(a) \subseteq Ran(stack)
      /\ \A i \in 1 .. Len(a) : a[i] \in Ran(a)
      /\ n \in 0 .. Len(a) /\ Stored(call) \subseteq Ran(a)
      /\ K \subseteq Ran(stack) /\ K \in SUBSET Values /\ H \in SUBSET Names
      /\ call.pushSet \subseteq K \ Ran(a) /\ c \in Nat /\ p \in Int /\ Len(stack) <= MaxLive
  BY <1>1, CallFacts
<1>3. /\ call'.args = a /\ call'.done = n + 1 /\ call'.pushSet = call.pushSet
      /\ call'.pos = p - 1
  BY <1>1
<1>4. n + 1 \in 1 .. Len(a) /\ v \in Ran(a) /\ v \in Ran(stack) /\ v \in Values
      /\ v \notin Stored(call)
  <2>1. n + 1 \in 1 .. Len(a) /\ DOMAIN a = 1 .. Len(a)
    BY <1>1, <1>2
  <2>2. v \in Ran(a) /\ v \in Ran(stack) /\ v \in Values
    BY <1>2, <2>1
  <2>3. ASSUME NEW i \in 1 .. n PROVE a[i] # a[n + 1]
    <3>1. i \in DOMAIN a /\ n + 1 \in DOMAIN a /\ i # n + 1
      BY <1>1, <1>2, <2>1
    <3> HIDE DEF a, n
    <3> QED
      BY <1>2, <3>1 DEF Inj
  <2> QED
    BY <2>1, <2>2, <2>3 DEF Stored
<1>5. Kept(stack', consts', call') = K \cup {v}
  <2>1. Stored(call') = Stored(call) \cup {v}
    <3>1. 1 .. (n + 1) = (1 .. n) \cup {n + 1}
      BY SMTT(60), <1>2
    <3> QED
      BY <1>3, <3>1 DEF Stored
  <2> QED
    BY <1>1, <2>1 DEF Kept
<1>6. /\ cv \in BOOLEAN /\ (cv => v \notin K \cup {}) /\ (~cv => v \in K \cap H)
      /\ v \in H \cup {v} /\ K \cup {v} \in SUBSET Values /\ H \cup {v} \in SUBSET Names
      /\ v \in Names /\ v \in Contents
  BY <1>2, <1>4, NameFacts DEF Kept
<1>7. Fit(mgr, K, {}, h, H)
  BY <1>1 DEF Fitted, FitFor
<1>8. Roomy => Cardinality(K) < FLOATCOUNT - 2
  BY <1>1, <1>2, FewFacts
<1>9. (H \cup {v}) \cap Values \subseteq Ran(stack')
      /\ (K \cup {v}) \cup Ran(homes) = H \cup {v}
  BY <1>1, <1>2, <1>4, RanType, NameFacts DEF TypeOK
<1> HIDE DEF K, H, h, v, cv, m
<1>10. Fit(m, K \cup {v}, {}, h, H \cup {v}) /\ Loaded(mgr, m, v, cv)
  <2>1. Fit(mgr, K, {}, h, H) /\ H \in SUBSET Names /\ v \in Values /\ cv \in BOOLEAN
        /\ (cv => v \notin K \cup {}) /\ (~cv => v \in K \cap H)
        /\ (Roomy => Cardinality(K) < FLOATCOUNT - 2)
    BY <1>2, <1>4, <1>6, <1>7, <1>8
  <2> QED
    BY <2>1, LoadConstFit DEF Loaded, m
<1>11. m \in Managers /\ m.stk \in [Slots -> Contents] /\ m.misread \in BOOLEAN
       /\ m.off \in Int /\ m.status \in {"ok", "dead"} /\ mgr.off \in Int
       /\ Held(m, v) \in Contents
  BY <1>6, <1>7, <1>10, ManagerFields, HeldType DEF Fit, Sound
<1>12. w \in Sound
  BY <1>10, <1>11, SoundStk DEF Fit
<1>13. /\ SameTable(m, w) /\ w.freg = m.freg /\ w.treg = m.treg /\ w.off = m.off
       /\ w.misread = (m.misread \/ ~right)
       /\ w.stk = [m.stk EXCEPT ![p] = Held(m, v)]
  BY <1>11 DEF SameTable, Managers
<1> HIDE DEF w
<1>14. mgr.off >= p + 1 + c
  BY <1>1 DEF Placed
<1>15. ASSUME m.status = "ok"
       PROVE  Fit(w, K \cup {v}, {}, h, H \cup {v})
  <2>1. p <= m.off
    <3>1. m.off \in {mgr.off, mgr.off - 1}
      BY <1>10, <1>15, LoadedFacts
    <3> QED
      BY <1>2, <1>11, <1>14, <3>1
  <2>2. Plain => right
    BY <1>6, <1>10, <1>15 DEF Fit, Holds
  <2>3. \A o \in Slots : o > p => w.stk[o] = m.stk[o]
    BY <1>2, <1>11, <1>13
  <2>4. Lowers(m, w, p)
    BY <1>11, <1>13, <2>2, <2>3 DEF Lowers
  <2> HIDE DEF p
  <2> QED
    BY <1>2, <1>6, <1>10, <1>12, <2>1, <2>4, BelowFit
<1>16. ASSUME m.status # "ok"
       PROVE  Fit(w, K \cup {v}, {}, h, H \cup {v})
  BY <1>10, <1>12, <1>13, <1>16, DeadFit DEF SameTable
<1>17. Fit(w, K \cup {v}, {}, h, H \cup {v})
  BY <1>15, <1>16
<1>18. /\ Fit(mgr', K \cup {v}, {}, h, H \cup {v})
       /\ mgr'.status = w.status
       /\ mgr'.status = "dead" => Gone(mgr')
       /\ w.status = "ok" =>
             /\ mgr'.occ = w.occ /\ mgr'.off = w.off /\ mgr'.misread = w.misread
             /\ \A o \in Slots : w.stk[o] \notin Values \ Ran(stack') =>
                                    mgr'.stk[o] = w.stk[o]
  BY <1>1, <1>6, <1>9, <1>17, FinishFit
<1>19. Fitted'
  BY <1>1, <1>5, <1>9, <1>18 DEF Fitted, FitFor, h
<1>20. ASSUME mgr'.status = "ok"
       PROVE  /\ mgr'.occ = m.occ /\ mgr'.off = m.off
              /\ m.off \in {mgr.off, mgr.off - 1}
              /\ \A u \in Names \ {v} : m.occ[u] = mgr.occ[u] \/ m.occ[u].ty = "off"
              /\ mgr'.misread = (mgr.misread \/ ~right)
              /\ mgr.pool # {} => /\ m.off = mgr.off /\ m.stk = mgr.stk
                                  /\ \A u \in Names \ {v} : m.occ[u] = mgr.occ[u]
  <2>1. m.status = "ok" /\ w.status = "ok" /\ w.occ = m.occ
    BY <1>13, <1>18, <1>20 DEF SameTable
  <2> QED
    BY <1>10, <1>13, <1>18, <2>1, LoadedFacts
<1>21. Roomy => mgr.pool # {}
  BY <1>1, <1>7, <1>8, FewFree
<1>22. ASSUME mgr'.status = "ok", Roomy, Slots = Int, ~mgr'.misread
       PROVE  Written(mgr', p - 1, n + 1, a)
  <2>1. ~mgr.misread /\ right /\ m.stk = mgr.stk
    BY <1>20, <1>21, <1>22
  <2>2. Written(mgr, p, n, a)
    BY <1>1, <1>22, <2>1 DEF Placed, Written
  <2>3. Stored(call) = {a[i] : i \in 1 .. n} /\ Stored(call) \subseteq Ran(stack')
    BY <1>1, <1>2 DEF Stored
  <2>4. w.status = "ok"
    BY <1>18, <1>22
  <2>5. \A o \in Int : o > p /\ mgr.stk[o] \in Ran(stack') => mgr'.stk[o] = mgr.stk[o]
    <3>1. \A o \in Int : o > p => w.stk[o] = mgr.stk[o]
      BY <1>2, <1>11, <1>13, <1>22, <2>1
    <3> QED
      BY <1>18, <1>22, <2>4, <3>1
  <2>6. mgr'.stk[p] = a[n + 1]
    <3>1. w.stk[p] = v
      BY <1>2, <1>11, <1>13, <1>22, <2>1
    <3>2. v \in Ran(stack') /\ p \in Slots
      BY <1>1, <1>2, <1>4, <1>22
    <3> QED
      BY <1>18, <2>4, <3>1, <3>2 DEF v
  <2> HIDE DEF p, n, a
  <2>7. \A o \in Int : o > p /\ mgr.stk[o] \in {a[i] : i \in 1 .. n} => mgr'.stk[o] = mgr.stk[o]
    BY <2>3, <2>5
  <2>8. p \in Int /\ n \in Nat
    BY <1>2
  <2> QED
    BY <2>2, <2>6, <2>7, <2>8, WrittenNext
<1>23. ASSUME mgr'.status = "ok"
       PROVE  mgr'.off >= p + c
  BY <1>2, <1>11, <1>14, <1>20, <1>23
<1>24. ASSUME mgr'.status = "ok", Roomy
       PROVE  /\ mgr'.off = p + c + (n + 1)
              /\ \A u \in call.pushSet : mgr'.occ[u].ty = "float"
  <2>1. m.off = mgr.off /\ \A u \in Names \ {v} : m.occ[u] = mgr.occ[u]
    BY <1>20, <1>21, <1>24
  <2>2. mgr.off = p + 1 + c + n /\ \A u \in call.pushSet : mgr.occ[u].ty = "float"
    BY <1>1, <1>24 DEF Placed
  <2>3. call.pushSet \subseteq Names \ {v}
    BY <1>1, <1>2, <1>4
  <2> QED
    <3>1. mgr'.off = mgr.off /\ \A u \in call.pushSet : mgr'.occ[u] = mgr.occ[u]
      BY <1>20, <1>24, <2>1, <2>3
    <3>2. c \in Int /\ n \in Int /\ p \in Int
      BY <1>2
    <3> HIDE DEF c, n, p
    <3>3. mgr'.off = p + c + (n + 1)
      BY <2>2, <3>1, <3>2
    <3>4. \A u \in call.pushSet : mgr'.occ[u].ty = "float"
      BY <2>2, <3>1
    <3> QED
      BY <3>3, <3>4
<1>25. ASSUME mgr'.status = "ok"
       PROVE  \A u \in K \cup {v} : mgr'.occ[u].ty = "float" => u \in call.pushSet \cup Ran(a)
  <2>1. \A u \in K : mgr.occ[u].ty = "float" => u \in call.pushSet \cup Ran(a)
    BY <1>1 DEF Placed, K
  <2> QED
    BY ZenonT(60), <1>2, <1>4, <1>20, <1>25, <2>1, NameFacts
<1>26. Placed'
  <2> SUFFICES ASSUME mgr'.status = "ok" PROVE Placed'
    BY DEF Placed
  <2>1. /\ mgr'.off >= p - 1 + 1 + c
        /\ \A u \in K \cup {v} : mgr'.occ[u].ty = "float" => u \in call.pushSet \cup Ran(a)
        /\ Roomy => mgr'.off = p - 1 + 1 + c + (n + 1)
        /\ Roomy => \A u \in call.pushSet : mgr'.occ[u].ty = "float"
    BY <1>2, <1>23, <1>24, <1>25
  <2>2. Roomy /\ Slots = Int /\ ~mgr'.misread => Written(mgr', p - 1, n + 1, a)
    BY <1>22
  <2> QED
    BY <1>1, <1>3, <1>5, <2>1, <2>2 DEF Placed, Written
<1> QED
  BY <1>19, <1>26

\* What is written above the arguments leaves them alone.
LEMMA WrittenSame ==
    ASSUME NEW m, NEW w, NEW p \in Int, NEW n \in Nat, NEW a, Written(m, p, n, a),
           \A o \in Int : o <= p + n /\ m.stk[o] \in {a[i] : i \in 1 .. n} =>
                             w.stk[o] = m.stk[o]
    PROVE  Written(w, p, n, a)
<1> SUFFICES ASSUME NEW i \in 1 .. n
             PROVE  w.stk[p + n - (i - 1)] = a[i]
  BY DEF Written
<1>1. p + n - (i - 1) \in Int /\ p + n - (i - 1) <= p + n
  OBVIOUS
<1>2. m.stk[p + n - (i - 1)] = a[i]
  BY DEF Written
<1> QED
  BY <1>1, <1>2

\* A value is saved, reloaded first when an argument has taken its register.
LEMMA CallSaveHandler ==
    ASSUME HandlerInv, TypeOK', NEW u \in Names, NEW first \in Values, CallSave(u, first)
    PROVE  Fitted' /\ Placed'
<1> DEFINE K == Kept(stack, consts, call)
           H == K \cup Ran(homes)
           h == Home(homes)
           g == GetReg(mgr, u, first)
           w == PushOne(g, u)
           a == call.args
           n == call.done
           p == call.pos
           S == call.pushSet
           c == Cardinality(S)
<1>1. /\ TypeOK /\ Shape /\ Fitted /\ Placed /\ Calling /\ phase = "args" /\ mgr.status = "ok"
      /\ n = Len(a) /\ u \in S /\ phase' = "args" /\ homes' = homes /\ stack' = stack
      /\ consts' = consts /\ call' = [call EXCEPT !.pushSet = @ \ {u}]
      /\ call \in [args : Seq(Values), done : Nat, pushSet : SUBSET Names, pos : Int]
      /\ Finish(w)
  BY DEF HandlerInv, FrameInv, CallSave, Calling, TypeOK
<1>2. /\ n \in Nat /\ Stored(call) \subseteq Ran(a) /\ Ran(a) \subseteq Ran(stack)
      /\ K \subseteq Ran(stack) /\ K \in SUBSET Values /\ H \in SUBSET Names
      /\ S \subseteq K \ Ran(a) /\ IsFiniteSet(S) /\ c \in Nat /\ p \in Int
      /\ Len(stack) <= MaxLive
  BY <1>1, CallFacts
<1>3. /\ call'.args = a /\ call'.done = n /\ call'.pushSet = S \ {u} /\ call'.pos = p
  BY <1>1
<1>4. Kept(stack', consts', call') = K
  BY <1>1, <1>3 DEF Kept, Stored
<1>5. Fit(mgr, K, {}, h, H)
  BY <1>1 DEF Fitted, FitFor
<1>6. Roomy => Cardinality(K) < FLOATCOUNT - 2
  BY <1>1, <1>2, FewFacts
<1>7. u \in K \cap Values /\ u \in Values /\ H \cap Values \subseteq Ran(stack')
  BY <1>1, <1>2, RanType, NameFacts DEF TypeOK
<1> HIDE DEF K, h, g, S
<1>8. Cardinality(S \ {u}) = c - 1
  BY <1>1, <1>2, FS_RemoveElement
<1>9. /\ Fit(g, K, {}, h, H)
      /\ g.status = "ok" => /\ g.occ[u].ty = "float"
                            /\ g = mgr \/ (mgr.occ[u].ty = "off" /\ Gets(mgr, g, u))
  BY <1>2, <1>5, <1>6, <1>7, GetRegFit DEF g
<1> HIDE DEF w
<1>10. /\ Fit(w, K, {}, h, H)
       /\ w.status = g.status
       /\ g.status = "ok" => Spills(g, w, u, g.occ[u].ix) /\ w.off = g.off - 1
  BY <1>2, <1>7, <1>9, PushOneFit DEF w
<1>11. /\ Fit(mgr', K, {}, h, H)
       /\ mgr'.status = w.status
       /\ mgr'.status = "dead" => Gone(mgr')
       /\ w.status = "ok" =>
             /\ mgr'.occ = w.occ /\ mgr'.off = w.off /\ mgr'.misread = w.misread
             /\ \A o \in Slots : w.stk[o] \notin Values \ Ran(stack') =>
                                    mgr'.stk[o] = w.stk[o]
  BY <1>1, <1>2, <1>7, <1>10, FinishFit
<1>12. Fitted'
  BY <1>1, <1>4, <1>11 DEF Fitted, FitFor, h
<1>13. mgr.off \in Int /\ mgr \in Managers
  BY <1>5, ManagerFields DEF Fit, Sound
<1>14. ASSUME mgr'.status = "ok"
       PROVE  /\ g.status = "ok" /\ w.status = "ok" /\ mgr'.occ = w.occ /\ mgr'.off = g.off - 1
              /\ g.occ[u].ty = "float" /\ w.occ[u] = OnStack(g.off)
              /\ \A v \in Names \ {u} : w.occ[v] = g.occ[v]
              /\ mgr'.misread = g.misread
              /\ \A o \in Slots : o # g.off => w.stk[o] = g.stk[o]
  BY <1>9, <1>10, <1>11, <1>14 DEF Spills
<1>15. ASSUME mgr'.status = "ok", NEW v \in K, mgr'.occ[v].ty = "float"
       PROVE  v \in (S \ {u}) \cup Ran(a)
  <2>1. v # u
    BY <1>14, <1>15, PlaceFacts
  <2>2. g.occ[v].ty = "float" /\ v \in Names
    BY <1>2, <1>14, <1>15, <2>1, NameFacts
  <2>3. mgr.occ[v].ty = "float"
    <3>1. CASE g = mgr
      BY <2>2, <3>1
    <3>2. CASE Took(mgr, g, {u})
      BY <2>1, <2>2, <3>2 DEF Took
    <3> QED
      BY <1>9, <1>14, <1>15, <3>1, <3>2 DEF Gets
  <2> QED
    BY <1>1, <2>1, <2>3 DEF Placed, K, S
<1>16. ASSUME mgr'.status = "ok", Roomy
       PROVE  /\ g = mgr /\ mgr'.off = mgr.off - 1 /\ mgr.off = p + 1 + c + n
              /\ \A v \in S : mgr.occ[v].ty = "float"
  <2>1. mgr.off = p + 1 + c + n /\ \A v \in S : mgr.occ[v].ty = "float"
    BY <1>1, <1>16 DEF Placed, S
  <2>2. g = mgr
    BY <1>1, <1>9, <1>14, <1>16, <2>1
  <2> QED
    BY <1>14, <1>16, <2>1, <2>2
<1>17. ASSUME mgr'.status = "ok", Roomy, Slots = Int, ~mgr'.misread
       PROVE  Written(mgr', p, n, a)
  <2>1. g = mgr /\ mgr.off = p + 1 + c + n /\ ~mgr.misread
    BY <1>14, <1>16, <1>17
  <2>2. Written(mgr, p, n, a)
    BY <1>1, <1>17, <2>1 DEF Placed, Written
  <2>3. {a[i] : i \in 1 .. n} \subseteq Ran(stack')
    BY <1>1, <1>2 DEF Stored
  <2>4. \A o \in Int : o <= p + n /\ mgr.stk[o] \in Ran(stack') => mgr'.stk[o] = mgr.stk[o]
    <3>1. \A o \in Int : o <= p + n => o # mgr.off
      <4> HIDE DEF c, n, p
      <4> QED
        BY <1>2, <2>1
    <3>2. \A o \in Int : o <= p + n => w.stk[o] = mgr.stk[o]
      BY <1>14, <1>17, <2>1, <3>1
    <3>3. \A o \in Int : w.stk[o] \in Ran(stack') => mgr'.stk[o] = w.stk[o]
      BY <1>11, <1>14, <1>17
    <3> QED
      BY <3>2, <3>3
  <2> HIDE DEF p, n, a
  <2>5. \A o \in Int : o <= p + n /\ mgr.stk[o] \in {a[i] : i \in 1 .. n} =>
                          mgr'.stk[o] = mgr.stk[o]
    BY <2>3, <2>4
  <2> QED
    BY <1>2, <2>2, <2>5, WrittenSame
<1>18. ASSUME mgr'.status = "ok", Roomy
       PROVE  /\ mgr'.off = p + 1 + Cardinality(S \ {u}) + n
              /\ \A v \in S \ {u} : mgr'.occ[v].ty = "float"
  <2>1. mgr'.off = p + 1 + Cardinality(S \ {u}) + n
    <3>1. mgr'.off = mgr.off - 1 /\ mgr.off = p + 1 + c + n /\ c \in Int /\ p \in Int /\ n \in Int
      BY <1>2, <1>16, <1>18
    <3> HIDE DEF c, n, p
    <3> QED
      BY <1>8, <3>1
  <2>2. \A v \in S \ {u} : mgr'.occ[v] = mgr.occ[v]
    BY <1>2, <1>14, <1>16, <1>18, NameFacts
  <2> QED
    BY <1>16, <1>18, <2>1, <2>2
<1>19. Placed'
  <2> SUFFICES ASSUME mgr'.status = "ok" PROVE Placed'
    BY DEF Placed
  <2>1. /\ \A v \in K : mgr'.occ[v].ty = "float" => v \in (S \ {u}) \cup Ran(a)
        /\ Roomy => mgr'.off = p + 1 + Cardinality(S \ {u}) + n
        /\ Roomy => \A v \in S \ {u} : mgr'.occ[v].ty = "float"
    BY <1>15, <1>18
  <2>2. Roomy /\ Slots = Int /\ ~mgr'.misread => Written(mgr', p, n, a)
    BY <1>17
  <2>3. ~(n < Len(a))
    BY <1>1, <1>2
  <2> QED
    BY <1>1, <1>3, <1>4, <2>1, <2>2, <2>3 DEF Placed, Written
<1> QED
  BY <1>12, <1>19

\* The return address is the first word of the callee's caller.
LEMMA CallJumpHandler ==
    ASSUME HandlerInv, TypeOK', CallJump
    PROVE  Fitted' /\ Placed'
<1> DEFINE K == Kept(stack, consts, call)
           H == K \cup Ran(homes)
           h == Home(homes)
           a == call.args
           n == call.done
           p == call.pos
<1>1. /\ FrameInv /\ TypeOK /\ Shape /\ Fitted /\ Placed /\ Calling /\ phase = "args"
      /\ mgr.status = "ok" /\ call.pushSet = {} /\ phase' = "jal" /\ homes' = homes
      /\ stack' = stack /\ consts' = consts /\ call' = call /\ mgr \in Managers
      /\ mgr' = [mgr EXCEPT !.stk[mgr.off] = RetAddr, !.off = mgr.off - 1]
  BY DEF HandlerInv, FrameInv, CallJump, Calling, Sound
<1>2. n \in Nat /\ p \in Int /\ H \in SUBSET Names
  BY <1>1, CallFacts
<1>3. Fit(mgr, K, {}, h, H) /\ mgr.off \in Int /\ mgr.off <= mgr.off
      /\ mgr.stk \in [Slots -> Contents]
  BY <1>1, ManagerFields DEF Fitted, FitFor
<1>4. mgr' \in Sound
  BY <1>1, FrameJump
<1>5. /\ SameTable(mgr, mgr') /\ mgr'.freg = mgr.freg /\ mgr'.treg = mgr.treg
      /\ mgr'.misread = mgr.misread /\ mgr'.off = mgr.off - 1
      /\ mgr'.stk = [mgr.stk EXCEPT ![mgr.off] = RetAddr]
  BY <1>1 DEF SameTable, Managers
<1>6. \A o \in Slots : o # mgr.off => mgr'.stk[o] = mgr.stk[o]
  BY <1>3, <1>5
<1>7. Lowers(mgr, mgr', mgr.off)
  BY <1>3, <1>5, <1>6 DEF Lowers
<1> HIDE DEF K, H, h
<1>8. Fit(mgr', K, {}, h, H)
  BY <1>2, <1>3, <1>4, <1>7, BelowFit
<1>9. Fitted'
  <2>1. mgr'.status = "ok"
    BY <1>1, <1>5 DEF SameTable
  <2>2. Kept(stack', consts', call') = K
    BY <1>1 DEF K
  <2> QED
    BY <1>1, <1>8, <2>1, <2>2 DEF Fitted, FitFor, H, h
<1>10. ASSUME Slots = Int
       PROVE  mgr'.stk[mgr'.off + 1] = RetAddr
  <2>1. mgr'.off + 1 = mgr.off
    BY <1>3, <1>5
  <2> QED
    BY <1>3, <1>5, <1>10, <2>1
<1>11. ASSUME Roomy
       PROVE  mgr.off = p + 1 + n /\ mgr'.off = p + n
  <2>1. Cardinality({}) = 0
    BY FS_EmptySet
  <2>2. mgr.off = p + 1 + 0 + n
    BY <1>1, <1>11, <2>1 DEF Placed
  <2> QED
    BY <1>2, <1>5, <2>2
<1>12. ASSUME Roomy, Slots = Int, ~mgr'.misread
       PROVE  Written(mgr', p, n, a)
  <2>1. Written(mgr, p, n, a)
    BY <1>1, <1>5, <1>12 DEF Placed, Written
  <2>2. \A o \in Int : o <= p + n => mgr'.stk[o] = mgr.stk[o]
    <3>1. \A o \in Int : o <= p + n => o # mgr.off
      <4> HIDE DEF p, n
      <4> QED
        BY <1>2, <1>11, <1>12
    <3> QED
      BY <1>6, <1>12, <3>1
  <2> HIDE DEF p, n, a
  <2> QED
    BY <1>2, <2>1, <2>2, WrittenSame
<1>13. \A v \in K : mgr'.occ[v].ty = "float" => v \in call.pushSet \cup Ran(a)
  BY <1>1, <1>5 DEF Placed, K, SameTable
<1>14. Placed'
  <2>1. Roomy /\ Slots = Int /\ ~mgr'.misread => Written(mgr', p, n, a)
    BY <1>12
  <2> QED
    BY <1>1, <1>10, <1>11, <1>13, <2>1 DEF Placed, Written, K
<1> QED
  BY <1>9, <1>14

\* What the callee leaves of the values in hand: all but the arguments, in
\* words it may not write.
LEMMA ReturnedFit ==
    ASSUME HandlerInv, phase = "jal", mgr.status = "ok", NEW v \in Values, NEW K, NEW L,
           K = Kept(stack, consts, call),
           L = (K \ Ran(call.args)) \cup Ran(homes)
    PROVE  Fit(Returned(v), K, {}, Home(homes), L) /\ L \in SUBSET Names
<1> DEFINE H == K \cup Ran(homes)
           h == Home(homes)
           w == Returned(v)
<1>1. /\ FrameInv /\ TypeOK /\ Shape /\ Fitted /\ Placed /\ Calling /\ call.pushSet = {}
      /\ Apart(mgr, 1) /\ mgr \in Managers /\ homes \in Seq(Vars) /\ Inj(homes)
  BY DEF HandlerInv, FrameInv, Calling, TypeOK, Shape
<1>2. K \in SUBSET Values /\ H \in SUBSET Names /\ L \subseteq H /\ L \in SUBSET Names
      /\ Ran(homes) \subseteq Vars
  BY <1>1, CallFacts, RanType
<1>3. Fit(mgr, K, {}, h, H)
  BY <1>1 DEF Fitted, FitFor
<1>4. /\ w \in Sound /\ SameTable(mgr, w) /\ w.misread = mgr.misread
      /\ \A o \in Slots : o > mgr.off => w.stk[o] = mgr.stk[o]
  BY SMTT(60), <1>1, FrameBack DEF SameTable
<1> HIDE DEF w
<1>5. ASSUME Plain, NEW n \in L
      PROVE  Held(w, n) = n
  <2>1. mgr.occ[n].ty = "off"
    <3>1. CASE n \in Ran(homes)
      <4>1. mgr.occ[n] = h[n] /\ n \in Vars
        BY <1>2, <1>3, <3>1 DEF Fit, Tabled
      <4> QED
        BY <1>1, <3>1, <4>1, HomeFacts
    <3>2. CASE n \notin Ran(homes)
      <4>1. n \in K /\ n \notin Ran(call.args)
        BY <1>5, <3>2
      <4>2. mgr.occ[n].ty # "float"
        BY <1>1, <4>1 DEF Placed
      <4>3. mgr.occ[n].ty \in {"float", "off"}
        BY <1>2, <1>3, <4>1 DEF Fit, Tabled
      <4> QED
        BY <4>2, <4>3
    <3> QED
      BY <3>1, <3>2
  <2>2. n \in Names /\ mgr.occ[n].ix \in Int /\ mgr.occ[n].ix > mgr.off + 1 /\ mgr.off \in Int
    BY <1>1, <1>2, <1>5, <2>1, WordsAbove, ManagerFields DEF Apart, FrameInv, Sound
  <2>3. w.stk[mgr.occ[n].ix] = mgr.stk[mgr.occ[n].ix] /\ Slots = Int
    BY <1>4, <1>5, <2>2 DEF Plain
  <2>4. Held(mgr, n) = n
    BY <1>2, <1>3, <1>5 DEF Fit, Holds
  <2>5. w \in Managers /\ w.occ = mgr.occ
    BY SMTT(60), <1>4 DEF Sound, SameTable
  <2>6. Held(mgr, n) = mgr.stk[mgr.occ[n].ix] /\ Held(w, n) = w.stk[mgr.occ[n].ix]
    BY <1>1, <2>1, <2>2, <2>3, <2>5, HeldCases
  <2> QED
    BY <2>3, <2>4, <2>6
<1>6. Holds(w, L)
  <2>1. Plain => ~w.misread
    BY <1>3, <1>4 DEF Fit, Holds
  <2> QED
    BY <1>5, <2>1 DEF Holds
<1> HIDE DEF h, H
<1>7. Fit(w, K, {}, h, L)
  BY <1>3, <1>4, <1>6, MemFit
<1> QED
  BY <1>2, <1>7 DEF w, h

\* The result is moved out of $f0 before anything else is written; the zero's
\* register is not the result's.
LEMMA CallReturnHandler ==
    ASSUME HandlerInv, TypeOK', NEW first \in Values, CallReturn(first)
    PROVE  Fitted' /\ Placed'
<1> DEFINE K == Kept(stack, consts, call)
           S == Ran(call.args)
           h == Home(homes)
           L == (K \ S) \cup Ran(homes)
           n == Len(call.args)
           a(v) == AllocFloat(Returned(v), v, first)
           z(v) == GetFreeFloat(a(v), first)
           l(v) == [z(v) EXCEPT !.freg[z(v).got] = Junk]
           right(v) == l(v).freg[F0] = v
           w(v) == WriteFloat(l(v), a(v).occ[v].ix, v, right(v))
           G(v) == K \cup {v}
           F(v) == G(v) \ S
           R(v) == (L \ S) \cup {v}
<1>1. PICK v \in Values : /\ Fresh(v) /\ stack' = Append(Below(n), v)
                          /\ Finish(Release(w(v), S))
  BY DEF CallReturn, Returned
<1>2. /\ FrameInv /\ TypeOK /\ Shape /\ Calling /\ phase = "jal" /\ mgr.status = "ok"
      /\ phase' = "body" /\ homes' = homes /\ call' = NoCall /\ consts' = consts \ S
      /\ call.done = n
  BY DEF HandlerInv, FrameInv, CallReturn, Calling, Shape
<1>3. /\ n \in 0 .. Len(stack) /\ S = Ran(Operands(n)) /\ S \subseteq Ran(stack)
      /\ Stored(call) = S /\ K \subseteq Ran(stack) /\ K \in SUBSET Values
      /\ Len(stack) <= MaxLive /\ Ran(homes) \subseteq Vars /\ S \in SUBSET Values
  BY <1>2, CallFacts, RanType DEF TypeOK
<1>4. /\ v \notin Ran(stack) /\ v \notin S /\ v \notin K \cup {}
      /\ Ran(stack') \ consts' = ((Ran(stack) \ consts) \ S) \cup {v}
  BY <1>1, <1>2, <1>3, PoppedFacts
<1>5. F(v) = Ran(stack') \ consts' /\ R(v) = F(v) \cup Ran(homes')
  BY <1>2, <1>3, <1>4, NameFacts DEF Kept
<1>6. Fit(Returned(v), K, {}, h, L) /\ L \in SUBSET Names
  BY <1>2, ReturnedFit DEF HandlerInv
<1>7. /\ (Roomy => Cardinality(K) < FLOATCOUNT - 2)
      /\ (Roomy => Cardinality(G(v)) < FLOATCOUNT - 2)
  BY <1>2, <1>3, FewFacts
<1>8. /\ Returned(v).freg[F0] = v /\ v \in Names /\ Junk \in Contents
      /\ L \cup {v} \in SUBSET Names
  BY <1>2, <1>6, FrameBack, NameFacts
<1> HIDE DEF K, h, L, S, n
<1>9. /\ Fit(a(v), G(v), {}, h, L)
      /\ a(v).status = "ok" => Gets(Returned(v), a(v), v) /\ a(v).freg = Returned(v).freg
  BY <1>4, <1>6, <1>7, AllocFloatFit
<1> HIDE DEF a, G
<1>10. /\ Fit(z(v), G(v), {}, h, L)
       /\ z(v).status = "ok" =>
             /\ Took(a(v), z(v), {})
             /\ z(v).got \in z(v).pool /\ z(v).got \in Allocatable
             /\ z(v).freg = a(v).freg
  BY <1>6, <1>7, <1>9, GetFreeFit
<1> HIDE DEF z
<1>11. z(v) \in Managers /\ z(v).got \in FloatRegs
  BY <1>10, ManagerFields DEF Fit, Sound
<1>12. l(v) \in Sound /\ Puts(z(v), l(v), z(v).got, Junk)
  BY <1>8, <1>10, <1>11, SoundFreg, FregPuts DEF Fit
<1> HIDE DEF l
<1>13. Fit(l(v), G(v), {}, h, L)
  BY <1>6, <1>10, <1>11, <1>12, ScratchFit DEF Puts
<1>14. l(v).status = "ok" => /\ l(v).occ[v] = a(v).occ[v] /\ l(v).occ[v].ty = "float"
                             /\ right(v)
  <2> SUFFICES ASSUME l(v).status = "ok"
               PROVE  l(v).occ[v] = a(v).occ[v] /\ l(v).occ[v].ty = "float" /\ right(v)
    OBVIOUS
  <2>1. z(v).status = "ok" /\ l(v).occ = z(v).occ
    BY <1>12 DEF Puts, Scratches, SameTable
  <2>2. a(v).status = "ok"
    BY <1>10, <2>1 DEF Took
  <2>3. /\ a(v).occ[v].ty = "float" /\ a(v).occ[v].ix \in Allocatable
        /\ a(v).cursor = (a(v).occ[v].ix + 1) % FLOATCOUNT
    BY <1>9, <2>2 DEF Gets
  <2>4. a(v).cursor # a(v).occ[v].ix
    BY <2>3, NextCursor, FloatRegFacts
  <2>5. z(v).occ[v] = a(v).occ[v]
    BY <1>8, <1>10, <2>1, <2>4, PlaceFacts DEF Took
  <2>6. l(v).freg[F0] = z(v).freg[F0]
    BY <1>10, <1>12, <2>1, ReservedFacts DEF Puts, Scratches
  <2> QED
    BY <1>8, <1>9, <1>10, <2>1, <2>2, <2>3, <2>5, <2>6
<1> HIDE DEF right
<1>15. Fit(Release(w(v), S), F(v), {}, h, R(v))
  <2>1. CASE l(v).status = "ok"
    <3>1. w(v) = WriteFloat(l(v), l(v).occ[v].ix, v, right(v))
      BY <1>14, <2>1
    <3>2. l(v).status = "ok" => l(v).occ[v].ty = "float" /\ (Plain => right(v))
      BY <1>14
    <3> QED
      BY <1>3, <1>4, <1>6, <1>13, <3>1, <3>2, ResultFit
  <2>2. CASE l(v).status # "ok"
    <3>1. w(v) \in Sound
      BY <1>8, <1>12, SoundWrite
    <3>2. l(v) \in Managers
      BY <1>12 DEF Sound
    <3>3. w(v).status = l(v).status
      BY <3>2 DEF WriteFloat, Managers
    <3> HIDE DEF w
    <3>4. w(v) \in Managers /\ S \in SUBSET Names
      BY <1>3, <3>1, NameFacts DEF Sound
    <3>5. Release(w(v), S).status = w(v).status
      BY <3>4, ReleaseFields
    <3>6. Release(w(v), S) \in Sound
      BY <3>1, <3>4, SoundRelease
    <3> QED
      BY <1>13, <2>2, <3>3, <3>5, <3>6, DeadFit
  <2> QED
    BY <2>1, <2>2
<1> HIDE DEF w, F, R
<1>16. /\ homes' \in Seq(Vars) /\ stack' \in Seq(Values) /\ h = Home(homes')
       /\ phase' # "cond" /\ call' = NoCall
  BY <1>2 DEF TypeOK, h
<1>17. Fitted'
  BY <1>1, <1>5, <1>15, <1>16, FinishCalm
<1> QED
  BY SMTT(60), <1>2, <1>17, PlacedCalm

-----------------------------------------------------------------------------
(***************************************************************************)
(* The safety properties of Translator, for every machine, every program   *)
(* and every number of functions: HandlerInv holds from the start, every   *)
(* handler keeps it, and the properties follow from it.                    *)
(*                                                                         *)
(* What a theorem assumes of the programs and the machine it says by name, *)
(* Roomy, Single or Plain, and Slots = Int where it speaks of the words of *)
(* the frame: a frame the model does not cut off.                          *)
(***************************************************************************)

-----------------------------------------------------------------------------
(***************************************************************************)
(* The invariant.                                                          *)
(***************************************************************************)

LEMMA HandlerInit == Init => HandlerInv
<1> SUFFICES ASSUME Init PROVE HandlerInv
  OBVIOUS
<1>1. /\ FrameInv /\ stack = <<>> /\ homes = <<>> /\ consts = {} /\ call = NoCall
      /\ phase = "idle" /\ mgr = FreshFrame /\ <<>> \in Seq(Vars)
  BY FrameInit DEF Init
<1>2. MaxLive \in Nat /\ Len(stack) = 0 /\ ~Calling
  BY <1>1, BoundAssumption DEF Calling
<1>3. Shape
  BY <1>1, <1>2, KeptFacts DEF Shape
<1>4. Home(homes) = [x \in Vars |-> Nowhere] /\ Kept(stack, consts, call) = {} /\ Ran(homes) = {}
  <2>1. <<>> \in Seq(Vars) /\ Inj(<<>>) /\ Ran(<<>>) = {}
    BY <1>1, KeptFacts
  <2>2. Home(<<>>) = [x \in Vars |-> Nowhere]
    BY <2>1, HomeFacts
  <2>3. Kept(<<>>, {}, NoCall) = {}
    BY <2>1, KeptFacts
  <2> QED
    BY <1>1, <2>1, <2>2, <2>3
<1>5. mgr.status = "ok"
  BY <1>1 DEF FreshFrame
<1>6. Fitted
  BY <1>1, <1>4, <1>5, FreshFit DEF Fitted, FitFor
<1>7. Placed
  BY <1>1, <1>2 DEF Placed
<1> QED
  BY <1>1, <1>3, <1>6, <1>7 DEF HandlerInv

LEMMA HandlerNext ==
    ASSUME HandlerInv, [Next]_vars
    PROVE  HandlerInv'
<1>1. FrameInv'
  BY FrameNext DEF HandlerInv
<1>2. TypeOK'
  BY <1>1 DEF FrameInv
<1>3. CASE UNCHANGED vars
  BY <1>1, <1>3, ZenonT(150) DEF vars, HandlerInv, Shape, Fitted, Placed, Calling, Operands
<1>4. ASSUME Next
      PROVE  Shape'
  BY <1>4, ShapeStep DEF HandlerInv, FrameInv
<1>5. ASSUME Next, ~(UNCHANGED vars)
      PROVE  Fitted' /\ Placed'
  <2>1. ASSUME NEW k \in {"fn", "main"}, BeginFunction(k) PROVE Fitted' /\ Placed'
    BY <2>1, BeginHandler
  <2>2. ASSUME NEW x \in Vars, Declare(x) PROVE Fitted' /\ Placed'
    BY <2>2, DeclareHandler
  <2>3. CASE Constant
    BY <2>3, ConstantHandler
  <2>4. ASSUME NEW n \in 0 .. MaxArity, CallBegin(n) PROVE Fitted' /\ Placed'
    BY <2>4, CallBeginHandler
  <2>5. CASE CallJump
    BY <1>2, <2>5, CallJumpHandler
  <2>6. ASSUME NEW first \in Values, NEW x \in Vars, LoadVar(x, first) PROVE Fitted' /\ Placed'
    BY <1>2, <2>6, LoadVarHandler
  <2>7. ASSUME NEW first \in Values, NEW x \in Vars, Store(x, first) PROVE Fitted' /\ Placed'
    BY <1>2, <2>7, StoreHandler
  <2>8. ASSUME NEW first \in Values, Binary(first) PROVE Fitted' /\ Placed'
    BY <1>2, <2>8, BinaryHandler
  <2>9. ASSUME NEW first \in Values, UnaryPos(first) \/ UnaryNeg(first)
        PROVE  Fitted' /\ Placed'
    BY <1>2, <2>9, UnaryHandler
  <2>10. ASSUME NEW first \in Values, CallArg(first) PROVE Fitted' /\ Placed'
    BY <1>2, <2>10, CallArgHandler
  <2>11. ASSUME NEW first \in Values, NEW n \in Names, CallSave(n, first)
         PROVE  Fitted' /\ Placed'
    BY <1>2, <2>11, CallSaveHandler
  <2>12. ASSUME NEW first \in Values, CallReturn(first) PROVE Fitted' /\ Placed'
    BY <1>2, <2>12, CallReturnHandler
  <2>13. ASSUME NEW first \in Values, Input(first) PROVE Fitted' /\ Placed'
    BY <1>2, <2>13, InputHandler
  <2>14. ASSUME NEW first \in Values, Output(first) PROVE Fitted' /\ Placed'
    BY <1>2, <2>14, OutputHandler
  <2>15. ASSUME NEW first \in Values, NEW op \in Relations, Compare(op, first)
         PROVE  Fitted' /\ Placed'
    BY <1>2, <2>15, CompareHandler
  <2>16. ASSUME NEW first \in Values, ReturnValue(first) PROVE Fitted' /\ Placed'
    BY <1>2, <2>16, ReturnValueHandler
  <2>17. CASE Branch
    BY <2>17, BranchHandler
  <2>18. CASE Jump \/ ReturnMain
    BY <2>18, JumpHandler
  <2>19. CASE Stopped
    BY <1>5, <2>19 DEF Stopped
  <2> QED
    BY <1>5, <2>1, <2>2, <2>3, <2>4, <2>5, <2>6, <2>7, <2>8, <2>9, <2>10, <2>11, <2>12,
       <2>13, <2>14, <2>15, <2>16, <2>17, <2>18, <2>19 DEF Next
<1> QED
  BY <1>1, <1>3, <1>4, <1>5 DEF HandlerInv

\* After every handler the occupation table, the two pools, the frame and what
\* the emitted code has left in registers and words agree with each other and
\* with the values the visitor still needs.
THEOREM HandlerCorrect == Spec => []HandlerInv
<1>1. HandlerInv /\ [Next]_vars => HandlerInv'
  BY HandlerNext
<1> QED
  BY <1>1, HandlerInit, PTL DEF Spec

-----------------------------------------------------------------------------
(***************************************************************************)
(* What the invariant says of a manager that is still running.             *)
(***************************************************************************)

LEMMA RunningFacts ==
    ASSUME HandlerInv
    PROVE  LET E == Kept(stack, consts, call)
           IN  /\ mgr.status \in {"ok", "dead"}
               /\ mgr.status = "dead" => Gone(mgr)
               /\ Roomy => mgr.status = "ok"
               /\ mgr.occ \in [Names -> Places]
               /\ E \subseteq Ran(stack) /\ Ran(stack) \ consts \subseteq E
               /\ Ran(stack) \subseteq Values /\ Ran(homes) \subseteq Vars
               /\ mgr.status = "ok" =>
                     /\ Registers(mgr) /\ Holds(mgr, E \cup Ran(homes))
                     /\ \A x \in Vars : mgr.occ[x] = Home(homes)[x]
                     /\ \A v \in Values : v \in E <=> mgr.occ[v].ty # "none"
                     /\ \A v \in Values : v \in E /\ phase # "cond" =>
                                             mgr.occ[v].ty \in {"float", "off"}
<1> DEFINE E == Kept(stack, consts, call)
<1>1. TypeOK /\ Shape /\ Fitted /\ mgr \in Managers
  BY DEF HandlerInv, FrameInv, TypeOK
<1>2. Ran(stack) \subseteq Values /\ Ran(homes) \subseteq Vars
  BY <1>1, RanType DEF TypeOK
<1>3. E \subseteq Ran(stack) /\ Ran(stack) \ consts \subseteq E
  <2>1. Ran(stack) \ consts \subseteq E
    BY DEF Kept
  <2> QED
    BY <1>1, <2>1, CalmFacts, CallFacts
<1>4. mgr.occ \in [Names -> Places] /\ mgr.status \in {"ok", "dead"}
  BY <1>1, ManagerFields
<1> HIDE DEF E
<1>5. PICK F, T : /\ Fit(mgr, F, T, Home(homes), E \cup Ran(homes)) /\ F \cup T = E
                  /\ phase # "cond" => F = E
  BY <1>1 DEF Fitted, FitFor, E
<1>6. Roomy => mgr.status = "ok"
  BY <1>5 DEF Fit
<1>7. ASSUME mgr.status = "ok"
      PROVE  /\ Registers(mgr) /\ Holds(mgr, E \cup Ran(homes))
             /\ \A x \in Vars : mgr.occ[x] = Home(homes)[x]
             /\ \A v \in Values : v \in E <=> mgr.occ[v].ty # "none"
             /\ \A v \in Values : v \in E /\ phase # "cond" => mgr.occ[v].ty \in {"float", "off"}
  <2>1. Tabled(mgr, F, T, Home(homes)) /\ Registers(mgr) /\ Holds(mgr, E \cup Ran(homes))
    BY <1>5, <1>7 DEF Fit
  <2>2. \A v \in Values : mgr.occ[v].ty \in {"none", "float", "tmp", "off"}
    BY <1>4, NameFacts, PlaceFacts
  <2> QED
    BY <1>5, <2>1, <2>2 DEF Tabled
<1>8. mgr.status = "dead" => Gone(mgr)
  BY <1>1 DEF Fitted
<1> QED
  BY <1>2, <1>3, <1>4, <1>6, <1>7, <1>8 DEF E

-----------------------------------------------------------------------------
(***************************************************************************)
(* The properties.                                                         *)
(***************************************************************************)

\* The occupation table has an entry for a value exactly while the visitor may
\* still use it, and one for each variable declared: no handler forgets to
\* release an operand, and none releases a value that is needed.
THEOREM TableCorrect == Spec => []TableExact
<1>1. HandlerInv => TableExact
  <2> SUFFICES ASSUME HandlerInv PROVE TableExact
    OBVIOUS
  <2> DEFINE E == Kept(stack, consts, call)
  <2>1. /\ mgr.status \in {"ok", "dead"} /\ (mgr.status = "dead" => Gone(mgr))
        /\ E \subseteq Ran(stack) /\ Ran(stack) \ consts \subseteq E
        /\ mgr.occ \in [Names -> Places]
    BY RunningFacts
  <2>2. homes \in Seq(Vars) /\ Inj(homes)
    BY DEF HandlerInv, FrameInv, TypeOK, Shape
  <2>3. CASE mgr.status = "dead"
    BY <2>1, <2>3, NameFacts DEF TableExact, Gone
  <2>4. CASE mgr.status = "ok"
    <3>1. /\ \A x \in Vars : mgr.occ[x] = Home(homes)[x]
          /\ \A v \in Values : v \in E <=> mgr.occ[v].ty # "none"
      BY <2>4, RunningFacts
    <3>2. \A v \in Values : mgr.occ[v].ty # "none" <=> mgr.occ[v] # Nowhere
      BY <2>1, NameFacts, PlaceFacts
    <3>3. \A x \in Vars : mgr.occ[x] # Nowhere <=> x \in Ran(homes)
      BY <2>2, <3>1, HomeFacts, PlaceFacts
    <3> HIDE DEF E
    <3> QED
      BY <2>1, <3>1, <3>2, <3>3 DEF TableExact
  <2> QED
    BY <2>1, <2>3, <2>4
<1> QED
  BY <1>1, HandlerCorrect, PTL

\* Without unary plus every allocatable register is in its pool or bound to one
\* value, after any number of handlers: none is lost, none is handed out twice.
THEOREM RegistersCorrect == Single => (Spec => []RegistersAccounted)
<1> SUFFICES ASSUME Single PROVE Spec => []RegistersAccounted
  OBVIOUS
<1>1. HandlerInv => RegistersAccounted
  <2> SUFFICES ASSUME HandlerInv, mgr.status = "ok" PROVE RegistersAccounted
    BY DEF RegistersAccounted
  <2>1. /\ Registers(mgr) /\ mgr.occ \in [Names -> Places]
        /\ \A x \in Vars : mgr.occ[x] = Home(homes)[x]
    BY RunningFacts
  <2>2. homes \in Seq(Vars) /\ Inj(homes)
    BY DEF HandlerInv, FrameInv, TypeOK, Shape
  <2>3. \A x \in Vars : mgr.occ[x].ty \in {"none", "off"}
    BY <2>1, <2>2, HomeFacts, PlaceFacts
  <2>4. ASSUME NEW r \in Allocatable
        PROVE  r \in mgr.pool <=> \A n \in Names : mgr.occ[n] # InFloat(r)
    BY <2>1, <2>3, NameFacts, PlaceFacts DEF Registers
  <2>5. ASSUME NEW r \in TmpRegs
        PROVE  r \in mgr.tpool <=> \A n \in Names : mgr.occ[n] # InTmp(r)
    BY <2>1, <2>3, NameFacts, PlaceFacts DEF Registers
  <2>6. ASSUME NEW n \in Names, NEW u \in Names, n # u, n \in InRegister(mgr)
        PROVE  mgr.occ[n] # mgr.occ[u]
    <3>1. mgr.occ[n].ty \in {"float", "tmp"} /\ n \in Values
      BY <2>3, <2>6, NameFacts DEF InRegister
    <3>2. CASE u \in Vars
      BY <2>3, <3>1, <3>2
    <3>3. CASE u \in Values
      BY <2>1, <2>6, <3>1, <3>3 DEF Registers
    <3> QED
      BY <3>2, <3>3, NameFacts
  <2> QED
    BY <2>4, <2>5, <2>6 DEF RegistersAccounted
<1> QED
  BY <1>1, HandlerCorrect, PTL

\* On a machine with four registers more than the deepest expression needs the
\* compiler never exits, fails an assert or reads an uninitialized pointer
\* while it looks for a register.
THEOREM SurvivalCorrect == Roomy => (Spec => []NeverDead)
<1> SUFFICES ASSUME Roomy PROVE Spec => []NeverDead
  OBVIOUS
<1>1. HandlerInv => NeverDead
  BY RunningFacts DEF NeverDead
<1> QED
  BY <1>1, HandlerCorrect, PTL

\* On such a machine the callee finds its arguments where it declares its
\* parameters, whatever the call saved between storing them and the jal.
THEOREM ArgumentsCorrect == Roomy /\ Slots = Int => (Spec => []ArgsInPlace)
<1> SUFFICES ASSUME Roomy, Slots = Int PROVE Spec => []ArgsInPlace
  OBVIOUS
<1>1. HandlerInv => ArgsInPlace
  <2> SUFFICES ASSUME HandlerInv, phase = "jal", mgr.status = "ok", ~mgr.misread,
                      NEW i \in DOMAIN call.args
               PROVE  mgr.stk[mgr.off - (i - 1)] = call.args[i]
    BY DEF ArgsInPlace
  <2>1. /\ call.args \in Seq(Values) /\ call.done = Len(call.args)
        /\ mgr.off = call.pos + call.done
        /\ \A j \in 1 .. call.done :
              mgr.stk[call.pos + call.done - (j - 1)] = call.args[j]
    BY DEF HandlerInv, FrameInv, TypeOK, Shape, Placed, Calling
  <2>2. i \in 1 .. call.done
    BY <2>1
  <2>3. mgr.stk[call.pos + call.done - (i - 1)] = call.args[i]
    BY <2>1, <2>2
  <2>4. mgr.off \in Int /\ call.pos \in Int /\ call.done \in Int /\ i \in Int
    BY <2>2, ManagerFields DEF HandlerInv, FrameInv, TypeOK
  <2>5. mgr.off - (i - 1) = call.pos + call.done - (i - 1)
    BY <2>1, <2>4
  <2> QED
    BY <2>3, <2>5
<1> QED
  BY <1>1, HandlerCorrect, PTL

\* Whatever the machine and the program, at the jal the return address is in
\* the word above $sp, and no value the caller still needs is in a register or
\* in a word the callee may write.
THEOREM SavingCorrect == Slots = Int => (Spec => []CallerSaved)
<1> SUFFICES ASSUME Slots = Int PROVE Spec => []CallerSaved
  OBVIOUS
<1>1. HandlerInv => CallerSaved
  <2> SUFFICES ASSUME HandlerInv, phase = "jal", mgr.status = "ok" PROVE CallerSaved
    BY DEF CallerSaved
  <2>1. /\ Placed /\ Shape /\ Calling /\ call.pushSet = {} /\ Apart(mgr, 1)
        /\ mgr.stk[mgr.off + 1] = RetAddr
    BY DEF HandlerInv, FrameInv, Shape, Placed, Calling
  <2>2. ASSUME NEW v \in Ran(stack) \ (Ran(call.args) \cup consts)
        PROVE  mgr.occ[v].ty = "off" /\ mgr.occ[v].ix > mgr.off + 1
    <3>1. v \in Kept(stack, consts, call) /\ v \in Values /\ v \in Names
      BY RunningFacts, NameFacts
    <3>2. mgr.occ[v].ty # "float"
      BY <2>1, <2>2, <3>1 DEF Placed
    <3>3. mgr.occ[v].ty = "off"
      BY <3>1, <3>2, RunningFacts
    <3> QED
      BY <2>1, <3>1, <3>3 DEF Apart
  <2> QED
    BY <2>1, <2>2 DEF CallerSaved
<1> QED
  BY <1>1, HandlerCorrect, PTL

\* In programs without unary operators a value computed and not yet used is
\* where the table says: no spill, reload, save or callee has written over it.
THEOREM ValuesCorrect == Plain => (Spec => []ValuesHeld)
<1> SUFFICES ASSUME Plain PROVE Spec => []ValuesHeld
  OBVIOUS
<1>1. HandlerInv => ValuesHeld
  <2> SUFFICES ASSUME HandlerInv, mgr.status = "ok", NEW v \in Ran(stack),
                      v \notin consts \/ mgr.occ[v] # Nowhere
               PROVE  Held(mgr, v) = v
    BY DEF ValuesHeld
  <2> DEFINE E == Kept(stack, consts, call)
  <2>1. /\ Holds(mgr, E \cup Ran(homes)) /\ v \in Values /\ Ran(stack) \ consts \subseteq E
        /\ (v \in E <=> mgr.occ[v].ty # "none") /\ mgr.occ[v] \in Places
    BY RunningFacts, NameFacts
  <2> HIDE DEF E
  <2>2. v \in E
    BY <2>1, PlaceFacts
  <2> QED
    BY <2>1, <2>2 DEF Holds
<1> QED
  BY <1>1, HandlerCorrect, PTL

\* In such programs no instruction reads a register or a word that does not
\* hold the operand it was emitted for.
THEOREM ReadsCorrect == Plain => (Spec => []ReadsRight)
<1> SUFFICES ASSUME Plain PROVE Spec => []ReadsRight
  OBVIOUS
<1>1. HandlerInv => ReadsRight
  BY RunningFacts DEF Holds, Gone, ReadsRight
<1> QED
  BY <1>1, HandlerCorrect, PTL

\* In such programs the i-th variable stays at word 1 - i, where a caller puts
\* the i-th argument, and holds what was last stored to it.
THEOREM HomesCorrect == Plain => (Spec => []HomesHeld)
<1> SUFFICES ASSUME Plain PROVE Spec => []HomesHeld
  OBVIOUS
<1>1. HandlerInv => HomesHeld
  <2> SUFFICES ASSUME HandlerInv, mgr.status = "ok", NEW i \in DOMAIN homes
               PROVE  mgr.occ[homes[i]] = OnStack(1 - i) /\ mgr.stk[1 - i] = homes[i]
    BY DEF HomesHeld
  <2>1. homes \in Seq(Vars) /\ Inj(homes) /\ mgr \in Managers /\ Slots = Int
    BY DEF HandlerInv, FrameInv, TypeOK, Shape, Plain
  <2>2. homes[i] \in Ran(homes) /\ Home(homes)[homes[i]] = OnStack(1 - i) /\ homes[i] \in Vars
        /\ homes[i] \in Names
    BY <2>1, HomeFacts, RanType, NameFacts
  <2>3. mgr.occ[homes[i]] = OnStack(1 - i)
    BY <2>2, RunningFacts
  <2>4. Held(mgr, homes[i]) = homes[i]
    BY <2>2, RunningFacts DEF Holds
  <2>5. Held(mgr, homes[i]) = mgr.stk[1 - i]
    BY <2>1, <2>2, <2>3, HeldCases, PlaceFacts
  <2> QED
    BY <2>3, <2>4, <2>5
<1> QED
  BY <1>1, HandlerCorrect, PTL
=============================================================================
