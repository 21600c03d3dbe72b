--------------------------- MODULE TranslatorProofs --------------------------
(***************************************************************************)
(* The type and the frame invariant of Translator, for every machine,      *)
(* every set of names and every bound.                                     *)
(***************************************************************************)
EXTENDS Translator, ManagerProofs, SequenceTheorems

-----------------------------------------------------------------------------
(***************************************************************************)
(* Lemmas about the operand stack and the end of a handler.                *)
(***************************************************************************)

LEMMA RanType ==
    ASSUME NEW S, NEW s \in Seq(S)
    PROVE  Ran(s) \subseteq S
BY DEF Ran

LEMMA StackTypes ==
    ASSUME stack \in Seq(Values)
    PROVE  /\ Len(stack) >= 1 => Top \in Values
           /\ \A n \in 0 .. Len(stack) :
                 Operands(n) \in Seq(Values) /\ Len(Operands(n)) = n
           /\ \A v \in Values, n \in Nat : Append(Below(n), v) \in Seq(Values)
<1>1. Len(stack) \in Nat
  OBVIOUS
<1>2. ASSUME NEW n \in 0 .. Len(stack)
      PROVE  Operands(n) \in Seq(Values) /\ Len(Operands(n)) = n
  BY <1>1 DEF Operands
<1>3. ASSUME NEW n \in Nat
      PROVE  Below(n) \in Seq(Values)
  <2>1. \A i \in 1 .. (Len(stack) - n) : stack[i] \in Values
    BY <1>1
  <2> QED
    BY <1>1, <2>1, SubSeqProperties DEF Below
<1> QED
  BY SMTT(60), <1>1, <1>2, <1>3 DEF Top

LEMMA SettleType ==
    ASSUME NEW m \in Managers, NEW live
    PROVE  Settle(m, live) \in Managers
<1> DEFINE keep(c) == IF c \in Values \ live THEN Junk ELSE c
           f == [r \in FloatRegs |-> keep(m.freg[r])]
           t == [r \in TmpRegs |-> keep(m.treg[r])]
           k == [o \in Slots |-> keep(m.stk[o])]
<1>1. \A c \in Contents : keep(c) \in Contents
  BY DEF Contents
<1>2. /\ f \in [FloatRegs -> Contents] /\ t \in [TmpRegs -> Contents]
      /\ k \in [Slots -> Contents]
  BY <1>1 DEF Managers
<1> HIDE DEF f, t, k, keep
<1>3. [m EXCEPT !.got = F0, !.freg = f, !.treg = t, !.stk = k] \in Managers
  BY <1>2, FloatRegFacts DEF Managers
<1>4. FreshFrame \in Managers
  BY FreshFrameType
<1>5. CASE m.status = "dead"
  BY <1>4, <1>5, DieType DEF Settle
<1>6. CASE m.status # "dead"
  <2>1. Settle(m, live) = [m EXCEPT !.got = F0, !.freg = f, !.treg = t, !.stk = k]
    BY <1>6 DEF Settle, f, t, k, keep
  <2> QED
    BY <2>1, <1>3
<1> QED
  BY <1>5, <1>6

LEMMA NoCallType ==
    NoCall \in [args : Seq(Values), done : Nat, pushSet : SUBSET Names, pos : Int]
BY DEF NoCall

LEMMA FinishType ==
    ASSUME NEW m \in Managers, Finish(m)
    PROVE  mgr' \in Managers
BY SettleType DEF Finish

\* pushAll at the end of a block.
LEMMA EndBlockType ==
    ASSUME NEW m \in Managers, EndBlock(m)
    PROVE  mgr' \in Managers
<1>1. InRegister(m) \in SUBSET Names
  BY DEF InRegister
<1>2. PICK rank \in Ranks(InRegister(m)) : Finish(Push(m, InRegister(m), rank))
  BY DEF EndBlock
<1>3. rank \in [InRegister(m) -> Int]
  BY <1>2 DEF Ranks
<1> QED
  BY <1>1, <1>2, <1>3, PushType, FinishType

-----------------------------------------------------------------------------
(***************************************************************************)
(* Type correctness.                                                       *)
(***************************************************************************)

\* Every handler keeps the types.
LEMMA TypeStep ==
    ASSUME TypeOK, [Next]_vars
    PROVE  TypeOK'
<1> USE DEF TypeOK
<1>0. Values \subseteq Names /\ Vars \subseteq Names
  BY DEF Names
<1>1. CASE \E k \in {"fn", "main"} : BeginFunction(k)
  BY <1>1, FreshFrameType DEF BeginFunction
<1>2. CASE \E x \in Vars : Declare(x)
  <2>1. PICK x \in Vars : Declare(x)
    BY <1>2
  <2> DEFINE m == AllocMem(mgr, x)
  <2>2. m \in Managers
    BY <1>0, AllocMemType
  <2>3. x \in Contents
    BY SMTT(60), <1>0 DEF Contents
  <2> HIDE DEF m
  <2>4. [m EXCEPT !.stk[m.occ[x].ix] = x] \in Managers
    BY <2>2, <2>3, StkType
  <2> QED
    BY <2>1, <2>4 DEF Declare, m
<1>3. CASE Constant
  BY <1>3 DEF Constant
<1>4. CASE \E n \in 0 .. MaxArity : CallBegin(n)
  <2>1. PICK n \in 0 .. MaxArity : CallBegin(n)
    BY <1>4
  <2>2. n \in 0 .. Len(stack)
    BY <2>1, BoundAssumption DEF CallBegin
  <2>3. Operands(n) \in Seq(Values)
    BY <2>2, StackTypes
  <2> DEFINE save == InRegister(mgr) \ Ran(Operands(n))
  <2>4. save \in SUBSET Names
    BY DEF InRegister
  <2>5. mgr.off - 1 - Cardinality(save) \in Int
    BY SMTT(60), <2>4, NamesFinite DEF Managers
  <2> QED
    BY <2>1, <2>3, <2>4, <2>5 DEF CallBegin
<1>5. CASE CallJump
  <2>1. RetAddr \in Contents
    BY DEF Contents
  <2>2. mgr.off - 1 \in Int
    BY DEF Managers
  <2>3. [mgr EXCEPT !.stk[mgr.off] = RetAddr, !.off = mgr.off - 1] \in Managers
    BY <2>1, <2>2, StkType
  <2> QED
    BY <1>5, <2>3 DEF CallJump
<1>6. ASSUME NEW first \in Values, NEW x \in Vars, LoadVar(x, first)
      PROVE  TypeOK'
  <2>1. PICK v \in Values :
           /\ stack' = Append(stack, v)
           /\ LET p == mgr.occ[x]
                  m == AllocFloat(mgr, v, first)
              IN  Finish(WriteFloat(m, m.occ[v].ix, v, m.stk[p.ix] = x))
    BY <1>6 DEF LoadVar
  <2>2. mgr' \in Managers
    BY <2>1, <1>0, AllocFloatType, WriteFloatType, FinishType
  <2> QED
    BY <1>6, <2>1, <2>2 DEF LoadVar
<1>7. ASSUME NEW first \in Values, NEW x \in Vars, Store(x, first)
      PROVE  TypeOK'
  <2> DEFINE m == LoadConst(mgr, Top, Top \in consts, first)
             right == m.freg[m.occ[Top].ix] = Top
             c == IF right THEN x ELSE Junk
             w == [m EXCEPT !.stk[m.occ[x].ix] = c, !.misread = m.misread \/ ~right]
  <2>1. Top \in Values /\ Len(stack) = 1
    BY <1>7, StackTypes DEF Store
  <2>2. m \in Managers /\ c \in Contents
    BY <2>1, <1>0, LoadConstType DEF Contents
  <2>3. Finish(Release(w, {Top}))
    BY SMTT(60), <1>7 DEF Store
  <2>4. w \in Managers
    <3> HIDE DEF m, c, right
    <3> QED
      BY ZenonT(60), <2>2, StkType
  <2>5. mgr' \in Managers
    <3> HIDE DEF w
    <3> QED
      BY <2>1, <2>3, <2>4, <1>0, ReleaseType, FinishType
  <2> QED
    BY <1>7, <2>5 DEF Store
<1>8. ASSUME NEW first \in Values, Binary(first)
      PROVE  TypeOK'
  <2> DEFINE x == Operands(2)[1]
             y == Operands(2)[2]
             a == LoadConst(mgr, x, x \in consts, first)
             b == LoadConst(a, y, y \in consts, first)
             c == GetReg(b, x, first)
             d == GetReg(c, y, first)
  <2>0. 2 \in 0 .. Len(stack)
    <3>1. Len(stack) >= 2
      BY <1>8 DEF Binary
    <3> QED
      BY <3>1, <1>1 DEF TypeOK
  <2>1. x \in Values /\ y \in Values
    <3>1. Operands(2) \in Seq(Values) /\ Len(Operands(2)) = 2
      BY <2>0, StackTypes
    <3> QED
      BY <3>1
  <2>2. d \in Managers
    <3>1. a \in Managers
      BY <2>1, <1>0, LoadConstType
    <3>2. b \in Managers
      BY <3>1, <2>1, <1>0, LoadConstType
    <3> HIDE DEF b
    <3>3. c \in Managers
      BY SMTT(60), <3>2, <2>1, <1>0, GetRegType
    <3> QED
      BY <3>3, <2>1, <1>0, GetRegType
  <2>3. PICK v \in Values :
           /\ stack' = Append(Below(2), v)
           /\ LET e == AllocFloat(d, v, first)
              IN  Finish(Release(
                     WriteFloat(e, e.occ[v].ix, v,
                                e.freg[c.occ[x].ix] = x /\ e.freg[d.occ[y].ix] = y),
                     {x, y}))
    BY <1>8 DEF Binary
  <2> HIDE DEF x, y, a, b, c, d
  <2>4. mgr' \in Managers
    <3> DEFINE e == AllocFloat(d, v, first)
               w == WriteFloat(e, e.occ[v].ix, v,
                               e.freg[c.occ[x].ix] = x /\ e.freg[d.occ[y].ix] = y)
    <3>1. w \in Managers
      BY <2>2, <1>0, AllocFloatType, WriteFloatType
    <3>2. Finish(Release(w, {x, y}))
      BY <2>3
    <3> HIDE DEF w
    <3> QED
      BY <3>1, <3>2, <2>1, <1>0, ReleaseType, FinishType
  <2>5. stack' \in Seq(Values)
    BY <2>0, <2>3, StackTypes
  <2> QED
    BY SMTT(60), <1>8, <2>4, <2>5 DEF Binary
<1>9. ASSUME NEW first \in Values, UnaryPos(first)
      PROVE  TypeOK'
  <2> DEFINE m == LoadConst(mgr, Top, Top \in consts, first)
             r == m.occ[Top].ix
  <2>1. Top \in Values /\ 1 \in 0 .. Len(stack)
    BY <1>9, StackTypes DEF UnaryPos
  <2>2. m \in Managers
    BY <2>1, <1>0, LoadConstType
  <2>3. PICK v \in Values :
           /\ stack' = Append(Below(1), v)
           /\ Finish(Release(WriteFloat(Occupy(m, m.occ[Top], v), r, v,
                                        m.freg[r] = Top), {Top}))
    BY <1>9 DEF UnaryPos
  <2> HIDE DEF m, r
  <2>4. mgr' \in Managers
    <3> DEFINE w == WriteFloat(Occupy(m, m.occ[Top], v), r, v, m.freg[r] = Top)
    <3>1. m.occ[Top] \in Places
      BY <2>1, <2>2, <1>0 DEF Managers
    <3>2. w \in Managers
      BY <2>2, <3>1, <1>0, OccupyType, WriteFloatType
    <3>3. Finish(Release(w, {Top}))
      BY <2>3
    <3> HIDE DEF w
    <3> QED
      BY <3>2, <3>3, <2>1, <1>0, ReleaseType, FinishType
  <2>5. stack' \in Seq(Values)
    BY <2>1, <2>3, StackTypes
  <2> QED
    BY <1>9, <2>4, <2>5 DEF UnaryPos
<1>10. ASSUME NEW first \in Values, UnaryNeg(first)
       PROVE  TypeOK'
  <2> DEFINE m == LoadConst(mgr, Top, Top \in consts, first)
  <2>1. Top \in Values /\ 1 \in 0 .. Len(stack)
    BY <1>10, StackTypes DEF UnaryNeg
  <2>2. m \in Managers
    BY <2>1, <1>0, LoadConstType
  <2>3. PICK v \in Values : /\ stack' = Append(Below(1), v)
                            /\ Finish(Release(AllocFloat(m, v, first), {Top}))
    BY <1>10 DEF UnaryNeg
  <2> HIDE DEF m
  <2>4. mgr' \in Managers
    BY <2>1, <2>2, <2>3, <1>0, AllocFloatType, ReleaseType, FinishType
  <2>5. stack' \in Seq(Values)
    BY <2>1, <2>3, StackTypes
  <2> QED
    BY <1>10, <2>4, <2>5 DEF UnaryNeg
<1>11. ASSUME NEW first \in Values, CallArg(first)
       PROVE  TypeOK'
  <2> DEFINE v == call.args[call.done + 1]
             m == LoadConst(mgr, v, v \in consts, first)
             c == Held(m, v)
             right == c = v
  <2>1. v \in Values
    BY <1>11 DEF CallArg
  <2>2. m \in Managers
    BY <2>1, <1>0, LoadConstType
  <2>3. Finish([m EXCEPT !.stk[call.pos] = c, !.misread = m.misread \/ ~right])
    BY <1>11 DEF CallArg
  <2>4. c \in Contents
    BY SMTT(60), <2>1, <2>2, <1>0, HeldType
  <2> HIDE DEF m, c, v, right
  <2>5. mgr' \in Managers
    BY <2>2, <2>3, <2>4, StkType, FinishType
  <2>6. call' \in [args : Seq(Values), done : Nat, pushSet : SUBSET Names, pos : Int]
    <3>1. call.done + 1 \in Nat /\ call.pos - 1 \in Int
      OBVIOUS
    <3>2. call' = [call EXCEPT !.done = call.done + 1, !.pos = call.pos - 1]
      BY <1>11 DEF CallArg
    <3> QED
      BY <3>1, <3>2
  <2> QED
    BY <1>11, <2>5, <2>6 DEF CallArg
<1>12. ASSUME NEW first \in Values, NEW n \in Names, CallSave(n, first)
       PROVE  TypeOK'
  <2>1. Finish(PushOne(GetReg(mgr, n, first), n))
    BY <1>12 DEF CallSave
  <2>2. mgr' \in Managers
    BY <2>1, GetRegType, PushOneType, FinishType
  <2> QED
    BY <1>12, <2>2 DEF CallSave
<1>13. ASSUME NEW first \in Values, CallReturn(first)
       PROVE  TypeOK'
  <2> DEFINE n == Len(call.args)
             f(v) == [[r \in FloatRegs |-> Junk] EXCEPT ![F0] = v]
             t == [r \in TmpRegs |-> Junk]
             s == [o \in Slots |-> IF o <= mgr.off THEN Junk ELSE mgr.stk[o]]
             back(v) == [mgr EXCEPT !.off = mgr.off + 1, !.freg = f(v), !.treg = t, !.stk = s]
             a(v) == AllocFloat(back(v), v, first)
             z(v) == GetFreeFloat(a(v), first)
             l(v) == [z(v) EXCEPT !.freg[z(v).got] = Junk]
             w(v) == WriteFloat(l(v), a(v).occ[v].ix, v, l(v).freg[F0] = v)
  <2>1. PICK v \in Values : /\ stack' = Append(Below(n), v)
                            /\ Finish(Release(w(v), Ran(call.args)))
    BY <1>13 DEF CallReturn
  <2>2. back(v) \in Managers
    <3>1. v \in Contents /\ Junk \in Contents
      BY <1>0 DEF Contents
    <3>2. /\ f(v) \in [FloatRegs -> Contents] /\ t \in [TmpRegs -> Contents]
          /\ s \in [Slots -> Contents] /\ mgr.off + 1 \in Int
      <4>1. f(v) \in [FloatRegs -> Contents]
        BY <3>1, FloatRegFacts
      <4>2. t \in [TmpRegs -> Contents]
        BY <3>1
      <4>3. s \in [Slots -> Contents] /\ mgr.off + 1 \in Int
        BY <3>1 DEF Managers
      <4> QED
        BY <4>1, <4>2, <4>3
    <3> HIDE DEF f, t, s
    <3> QED
      BY <3>2 DEF Managers
  <2> HIDE DEF back
  <2>3. z(v) \in Managers
    BY <2>2, <1>0, AllocFloatType, GetFreeFloatType
  <2> HIDE DEF z, a
  <2>4. l(v) \in Managers
    BY <2>3, FregType DEF Contents
  <2> HIDE DEF l
  <2>5. w(v) \in Managers
    BY <2>4, <1>0, WriteFloatType
  <2> HIDE DEF w
  <2>6. mgr' \in Managers
    BY <2>1, <2>5, <1>0, RanType, ReleaseType, FinishType
  <2>7. stack' \in Seq(Values)
    BY <2>1, StackTypes
  <2>8. call' \in [args : Seq(Values), done : Nat, pushSet : SUBSET Names, pos : Int]
    <3>1. call' = NoCall
      BY <1>13 DEF CallReturn
    <3> QED
      BY <3>1, NoCallType
  <2>9. consts' \subseteq Values /\ phase' = "body" /\ UNCHANGED <<kind, homes>>
    BY <1>13 DEF CallReturn
  <2> QED
    BY SMTT(60), <2>6, <2>7, <2>8, <2>9
<1>14. ASSUME NEW first \in Values, Input(first)
       PROVE  TypeOK'
  <2> DEFINE s(v) == [mgr EXCEPT !.freg[F0] = v]
             z(v) == GetFreeFloat(s(v), first)
             l(v) == [z(v) EXCEPT !.freg[z(v).got] = Junk]
             a(v) == AllocFloat(l(v), v, first)
  <2>1. PICK v \in Values : /\ stack' = <<v>>
                            /\ Finish(WriteFloat(a(v), a(v).occ[v].ix, v,
                                                 a(v).freg[F0] = v))
    BY <1>14 DEF Input
  <2>2. v \in Contents /\ Junk \in Contents
    BY <1>0 DEF Contents
  <2>3. z(v) \in Managers
    BY <2>2, FregType, GetFreeFloatType
  <2> HIDE DEF z
  <2>4. a(v) \in Managers
    BY <2>2, <2>3, <1>0, FregType, AllocFloatType
  <2> HIDE DEF a
  <2>5. mgr' \in Managers
    BY <2>1, <2>4, <1>0, WriteFloatType, FinishType
  <2> QED
    BY SMTT(60), <1>14, <2>1, <2>5 DEF Input
<1>15. ASSUME NEW first \in Values, Output(first)
       PROVE  TypeOK'
  <2> DEFINE z == GetFreeFloat(mgr, first)
             m == LoadConst(z, Top, Top \in consts, first)
             l == [m EXCEPT !.freg[z.got] = Junk]
             w == WriteFloat(l, F12, Top, l.freg[m.occ[Top].ix] = Top)
  <2>1. Top \in Values
    BY <1>15, StackTypes DEF Output
  <2>2. m \in Managers
    BY <2>1, <1>0, GetFreeFloatType, LoadConstType
  <2>3. Finish(Release(w, {Top}))
    BY <1>15 DEF Output
  <2> HIDE DEF m, z
  <2>4. w \in Managers
    BY <2>1, <2>2, <1>0, FregType, WriteFloatType DEF Contents
  <2> HIDE DEF w
  <2>5. mgr' \in Managers
    BY <2>1, <2>3, <2>4, <1>0, ReleaseType, FinishType
  <2> QED
    BY <1>15, <2>5 DEF Output
<1>16. ASSUME NEW op \in Relations, NEW first \in Values, Compare(op, first)
       PROVE  TypeOK'
  <2> DEFINE x == stack[1]
             y == stack[2]
             a == LoadConst(mgr, x, x \in consts, first)
             b == LoadConst(a, y, y \in consts, first)
             c(v) == AllocTmp(b, v)
             right(v) == c(v).freg[a.occ[x].ix] = x /\ c(v).freg[b.occ[y].ix] = y
             w(v) == [c(v) EXCEPT !.treg[c(v).occ[v].ix] = IF right(v) /\ Lowered(op) = Asked(op) THEN v ELSE Junk,
                                  !.misread = c(v).misread \/ ~right(v)]
  <2>1. PICK v \in Values : stack' = <<v>> /\ Finish(Release(w(v), {x, y}))
    BY ZenonT(60), <1>16 DEF Compare
  <2>2. x \in Values /\ y \in Values
    <3>1. Len(stack) = 2
      BY <1>16 DEF Compare
    <3>2. \A i \in 1 .. 2 : stack[i] \in Values
      BY <3>1, ElementOfSeq
    <3> QED
      BY <3>2
  <2>3. b \in Managers
    <3>1. a \in Managers
      BY <2>2, <1>0, LoadConstType
    <3> QED
      BY <3>1, <2>2, <1>0, LoadConstType
  <2> HIDE DEF b
  <2>4. c(v) \in Managers
    BY <2>3, <1>0, AllocTmpType
  <2> HIDE DEF c, right
  <2>5. w(v) \in Managers
    BY <2>4, <1>0, TregType DEF Contents
  <2> HIDE DEF w
  <2>6. mgr' \in Managers
    BY <2>1, <2>2, <2>5, <1>0, ReleaseType, FinishType
  <2> QED
    BY <1>16, <2>1, <2>6 DEF Compare
<1>17. ASSUME NEW first \in Values, ReturnValue(first)
       PROVE  TypeOK'
  <2> DEFINE m == LoadConst(mgr, Top, Top \in consts, first)
             z == GetFreeFloat(m, first)
             l == [z EXCEPT !.freg[z.got] = Junk]
             w == WriteFloat(l, F0, Top, l.freg[m.occ[Top].ix] = Top)
  <2>1. Top \in Values
    BY <1>17, StackTypes DEF ReturnValue
  <2>2. z \in Managers
    BY <2>1, <1>0, GetFreeFloatType, LoadConstType
  <2>3. EndBlock(Release(w, {Top}))
    BY <1>17 DEF ReturnValue
  <2> HIDE DEF m, z
  <2>4. w \in Managers
    BY <2>1, <2>2, <1>0, FregType, WriteFloatType DEF Contents
  <2> HIDE DEF w
  <2>5. mgr' \in Managers
    BY <2>1, <2>3, <2>4, <1>0, ReleaseType, EndBlockType
  <2> QED
    BY <1>17, <2>5 DEF ReturnValue
<1>18. CASE Branch
  <2> DEFINE wrong == Held(mgr, Top) # Top
             w == [mgr EXCEPT !.misread = mgr.misread \/ wrong]
  <2>1. EndBlock(Release(w, {Top}))
    BY <1>18 DEF Branch
  <2>2. w \in Managers
    BY DEF Managers
  <2> HIDE DEF w
  <2>3. Top \in Values
    BY <1>18, StackTypes DEF Branch
  <2>4. mgr' \in Managers
    BY <2>1, <2>2, <2>3, <1>0, ReleaseType, EndBlockType
  <2> QED
    BY <1>18, <2>4 DEF Branch
<1>19. CASE Jump \/ ReturnMain
  BY <1>19, EndBlockType DEF Jump, ReturnMain
<1>20. CASE UNCHANGED vars
  BY <1>20 DEF vars
<1> QED
  BY <1>1, <1>2, <1>3, <1>4, <1>5, <1>6, <1>7, <1>8, <1>9, <1>10, <1>11, <1>12,
     <1>13, <1>14, <1>15, <1>16, <1>17, <1>18, <1>19, <1>20 DEF Next, Stopped

\* The translator's state has its type in every reachable state, whatever the
\* machine and the program: in particular every register getFreeFloat or
\* getFreeTmp returns is one of the machine's, and the return value of every
\* loop over the pools is defined.
THEOREM TypeCorrect == Spec => []TypeOK
<1>1. Init => TypeOK
  BY FreshFrameType DEF Init, TypeOK, NoCall
<1>2. TypeOK /\ [Next]_vars => TypeOK'
  BY TypeStep
<1> QED
  BY <1>1, <1>2, PTL DEF Spec

-----------------------------------------------------------------------------
(***************************************************************************)
(* The frame invariant: no two names share a word.                         *)
(***************************************************************************)

\* The managers in which the words in use are apart.
Sound == {m \in Managers : Apart(m, 0)}

-----------------------------------------------------------------------------
(***************************************************************************)
(* Every operator of the manager keeps it sound.                           *)
(***************************************************************************)

LEMMA SoundOps ==
    ASSUME NEW m \in Sound, NEW v \in Names, NEW first, NEW isConst
    PROVE  /\ GetFreeFloat(m, first) \in Sound
           /\ AllocFloat(m, v, first) \in Sound
           /\ AllocTmp(m, v) \in Sound
           /\ AllocMem(m, v) \in Sound
           /\ PushOne(m, v) \in Sound
           /\ GetReg(m, v, first) \in Sound
           /\ LoadConst(m, v, isConst, first) \in Sound
BY GetFreeFloatType, GetFreeFloatApart, AllocFloatType, AllocFloatApart,
   AllocTmpType, AllocTmpApart, AllocMemType, AllocMemApart, PushOneType, PushOneApart,
   GetRegType, GetRegApart, LoadConstType, LoadConstApart DEF Sound

LEMMA SoundRelease ==
    ASSUME NEW m \in Sound, NEW S \in SUBSET Names
    PROVE  Release(m, S) \in Sound
BY ReleaseType, ReleaseApart DEF Sound

LEMMA SoundWrite ==
    ASSUME NEW m \in Sound, NEW r, NEW v \in Names, NEW right
    PROVE  WriteFloat(m, r, v, right) \in Sound
BY WriteFloatType, WriteFloatApart DEF Sound

LEMMA SoundFreg ==
    ASSUME NEW m \in Sound, NEW r, NEW c \in Contents
    PROVE  [m EXCEPT !.freg[r] = c] \in Sound
BY FregType, FregApart DEF Sound

LEMMA SoundTreg ==
    ASSUME NEW m \in Sound, NEW r, NEW v \in Contents, NEW right
    PROVE  [m EXCEPT !.treg[r] = IF right THEN v ELSE Junk,
                     !.misread = m.misread \/ ~right] \in Sound
<1> DEFINE w == [m EXCEPT !.treg[r] = IF right THEN v ELSE Junk,
                          !.misread = m.misread \/ ~right]
<1>1. m \in Managers /\ Apart(m, 0)
  BY DEF Sound
<1>2. w \in Managers
  BY <1>1, TregType
<1>3. w.occ = m.occ /\ w.off = m.off
  BY <1>1 DEF Managers
<1>4. Apart(w, 0)
  BY <1>1, <1>3, ApartFrame
<1> QED
  BY <1>2, <1>4 DEF Sound

LEMMA SoundStk ==
    ASSUME NEW m \in Sound, NEW o, NEW c \in Contents, NEW right
    PROVE  /\ [m EXCEPT !.stk[o] = c] \in Sound
           /\ [m EXCEPT !.stk[o] = c, !.misread = m.misread \/ ~right] \in Sound
<1> DEFINE w == [m EXCEPT !.stk[o] = c]
           x == [m EXCEPT !.stk[o] = c, !.misread = m.misread \/ ~right]
<1>1. m \in Managers /\ Apart(m, 0) /\ 0 \in Int
  BY DEF Sound
<1>2. w \in Managers /\ x \in Managers
  BY <1>1, StkType
<1>3. w.occ = m.occ /\ w.off = m.off /\ x.occ = m.occ /\ x.off = m.off
  BY <1>1 DEF Managers
<1>4. Apart(w, 0) /\ Apart(x, 0)
  BY <1>1, <1>3, ApartFrame
<1> QED
  BY <1>2, <1>4 DEF Sound

\* Unary plus binds v to the place of u and takes u out of the table.
LEMMA SoundRebind ==
    ASSUME NEW m \in Sound, NEW u \in Names, NEW v \in Names, NEW r, NEW right
    PROVE  Release(WriteFloat(Occupy(m, m.occ[u], v), r, v, right), {u}) \in Sound
<1> DEFINE o == Occupy(m, m.occ[u], v)
           w == WriteFloat(o, r, v, right)
           z == Release(w, {u})
<1>1. m \in Managers /\ Apart(m, 0) /\ m.occ[u] \in Places
  BY DEF Sound, Managers
<1>2. o \in Managers /\ w \in Managers /\ z \in Managers
  BY <1>1, OccupyType, WriteFloatType, ReleaseType
<1>3. /\ o.off = m.off
      /\ \A n \in Names : o.occ[n] = m.occ[n] \/ (n = v /\ o.occ[n] = m.occ[u])
  BY <1>1 DEF Occupy, Managers
<1> HIDE DEF o
<1>4. w.off = o.off /\ w.occ = o.occ
  BY SMTT(60), <1>2 DEF WriteFloat, Managers
<1> HIDE DEF w
<1>5. z.off = w.off /\ z.occ = [n \in Names |-> IF n \in {u} THEN Nowhere ELSE w.occ[n]]
  BY <1>2 DEF Release, Managers
<1> HIDE DEF z
<1>6. /\ z.off = m.off
      /\ z.occ[u] = Nowhere
      /\ \A n \in Names \ {u} : z.occ[n] = m.occ[n] \/ (n = v /\ z.occ[n] = m.occ[u])
  BY <1>3, <1>4, <1>5
<1>7. Apart(z, 0)
  <2>1. SUFFICES ASSUME NEW n \in Names, z.occ[n].ty = "off"
                 PROVE  /\ z.occ[n].ix > z.off + 0
                        /\ \A t \in Names \ {n} : z.occ[t] # z.occ[n]
    BY DEF Apart
  <2>2. n # u
    BY <1>6, <2>1 DEF Nowhere
  <2>3. PICK k \in Names : z.occ[n] = m.occ[k] /\ (k = n \/ (n = v /\ k = u))
    BY <1>6, <2>2
  <2>4. m.occ[k].ix > m.off + 0 /\ \A t \in Names \ {k} : m.occ[t] # m.occ[k]
    BY <1>1, <2>1, <2>3 DEF Apart
  <2>5. ASSUME NEW t \in Names \ {n} PROVE z.occ[t] # z.occ[n]
    <3>1. CASE t = u
      BY <3>1, <1>6, <2>1 DEF Nowhere
    <3>2. CASE t # u
      <4>1. PICK j \in Names : z.occ[t] = m.occ[j] /\ (j = t \/ (t = v /\ j = u))
        BY <1>6, <3>2
      <4>2. j # k
        BY <4>1, <2>2, <2>3, <2>5, <3>2
      <4> QED
        BY <4>1, <4>2, <2>3, <2>4
    <3> QED
      BY <3>1, <3>2
  <2> QED
    BY <2>3, <2>4, <2>5, <1>6
<1>8. z \in Sound
  BY <1>2, <1>7 DEF Sound
<1> QED
  BY <1>8 DEF z, w, o

LEMMA SoundSettle ==
    ASSUME NEW m \in Sound, NEW live
    PROVE  Settle(m, live) \in Sound
<1> DEFINE w == Settle(m, live)
<1>1. m \in Managers /\ Apart(m, 0)
  BY DEF Sound
<1>2. w \in Managers
  BY <1>1, SettleType
<1>3. CASE m.status = "dead"
  <2>1. Apart(FreshFrame, 0)
    BY FreshApart
  <2>2. Apart(Die(FreshFrame), 0)
    BY <2>1, FreshFrameType, DieApart
  <2> QED
    BY <1>2, <1>3, <2>2 DEF Settle, Sound
<1>4. CASE m.status # "dead"
  <2>1. w.occ = m.occ /\ w.off = m.off
    BY <1>1, <1>4 DEF Settle, Managers
  <2>2. Apart(w, 0)
    BY <1>1, <2>1, ApartFrame
  <2> QED
    BY <1>2, <2>2 DEF Sound
<1> QED
  BY <1>3, <1>4

LEMMA SoundFinish ==
    ASSUME NEW m \in Sound, Finish(m)
    PROVE  mgr' \in Sound
BY SoundSettle DEF Finish

LEMMA SoundEndBlock ==
    ASSUME NEW m \in Sound, EndBlock(m)
    PROVE  mgr' \in Sound
<1>1. InRegister(m) \in SUBSET Names /\ m \in Managers /\ Apart(m, 0)
  BY DEF InRegister, Sound
<1>2. PICK rank \in Ranks(InRegister(m)) : Finish(Push(m, InRegister(m), rank))
  BY DEF EndBlock
<1>3. rank \in [InRegister(m) -> Int]
  BY <1>2 DEF Ranks
<1>4. Push(m, InRegister(m), rank) \in Sound
  BY <1>1, <1>2, <1>3, PushType, PushApart DEF Sound
<1> QED
  BY <1>2, <1>4, SoundFinish

-----------------------------------------------------------------------------
(***************************************************************************)
(* The theorem.                                                            *)
(***************************************************************************)

\* FrameDisjoint is not inductive by itself: the word of the return address
\* is given back after the call, so while the callee runs the names must stay
\* clear of one word more.
FrameInv ==
    /\ TypeOK
    /\ mgr \in Sound
    /\ phase = "jal" => Apart(mgr, 1)

LEMMA FrameInit == Init => FrameInv
<1>1. ASSUME Init PROVE FrameInv
  <2>1. TypeOK
    BY <1>1, FreshFrameType DEF Init, TypeOK, NoCall
  <2> QED
    BY <1>1, <2>1, FreshFrameType, FreshApart DEF Init, FrameInv, Sound
<1> QED
  BY <1>1

\* The return address takes a word below every name, and gives it back.
LEMMA FrameJump ==
    ASSUME FrameInv, CallJump
    PROVE  mgr' \in Sound /\ Apart(mgr, 1)'
<1>1. mgr \in Managers /\ Apart(mgr, 0) /\ RetAddr \in Contents /\ mgr.off - 1 \in Int
  BY DEF FrameInv, Sound, Managers, Contents
<1>2. mgr' = [mgr EXCEPT !.stk[mgr.off] = RetAddr, !.off = mgr.off - 1]
  BY SMTT(60) DEF CallJump
<1>3. mgr' \in Managers
  BY <1>1, <1>2, StkType
<1>4. mgr'.occ = mgr.occ /\ mgr'.off = mgr.off - 1 /\ mgr.off \in Int
  BY <1>1, <1>2 DEF Managers
<1>5. \A n \in Names : mgr.occ[n].ty = "off" => mgr.occ[n].ix \in Int
  BY <1>1 DEF Managers, Places
<1>6. Apart(mgr', 0) /\ Apart(mgr', 1)
  BY <1>1, <1>4, <1>5 DEF Apart
<1> QED
  BY <1>3, <1>6 DEF Sound

\* The manager when jal has come back with v: the callee may have changed
\* every register, and every word but those above the return address.
Returned(v) ==
    [mgr EXCEPT !.off  = @ + 1,
                !.freg = [[r \in FloatRegs |-> Junk] EXCEPT ![F0] = v],
                !.treg = [r \in TmpRegs |-> Junk],
                !.stk  = [o \in Slots |-> IF o <= mgr.off THEN Junk ELSE @[o]]]

LEMMA FrameBack ==
    ASSUME FrameInv, phase = "jal", NEW v \in Values
    PROVE  /\ Returned(v) \in Sound
           /\ Returned(v).occ = mgr.occ /\ Returned(v).pool = mgr.pool
           /\ Returned(v).tpool = mgr.tpool /\ Returned(v).status = mgr.status
           /\ Returned(v).misread = mgr.misread /\ Returned(v).freg[F0] = v
           /\ \A o \in Slots : o > mgr.off => Returned(v).stk[o] = mgr.stk[o]
<1> DEFINE f == [[r \in FloatRegs |-> Junk] EXCEPT ![F0] = v]
           t == [r \in TmpRegs |-> Junk]
           s == [o \in Slots |-> IF o <= mgr.off THEN Junk ELSE mgr.stk[o]]
           back == [mgr EXCEPT !.off = mgr.off + 1, !.freg = f, !.treg = t, !.stk = s]
<1>1. mgr \in Managers /\ Apart(mgr, 1)
  BY DEF FrameInv, TypeOK
<1>2. v \in Contents /\ Junk \in Contents
  BY DEF Names, Contents
<1>3. f \in [FloatRegs -> Contents] /\ f[F0] = v
  BY <1>2, FloatRegFacts
<1>4. t \in [TmpRegs -> Contents]
  BY <1>2
<1>5. mgr.off \in Int
  BY <1>1 DEF Managers
<1>6. /\ s \in [Slots -> Contents] /\ mgr.off + 1 \in Int
      /\ \A o \in Slots : o > mgr.off => s[o] = mgr.stk[o]
  BY <1>1, <1>2, <1>5, NameAssumption DEF Managers
<1> HIDE DEF f, t, s
<1>7. /\ back \in Managers /\ back.occ = mgr.occ /\ back.off = mgr.off + 1
      /\ back.pool = mgr.pool /\ back.tpool = mgr.tpool /\ back.status = mgr.status
      /\ back.misread = mgr.misread /\ back.freg = f /\ back.stk = s
  BY <1>1, <1>3, <1>4, <1>6 DEF Managers
<1>8. \A u \in Names : mgr.occ[u].ty = "off" => mgr.occ[u].ix \in Int
  BY <1>1 DEF Managers, Places
<1>9. back = Returned(v)
  BY DEF Returned, f, t, s
<1> HIDE DEF back
<1>10. Apart(back, 0)
  BY <1>1, <1>5, <1>7, <1>8 DEF Apart
<1> QED
  BY <1>3, <1>6, <1>7, <1>9, <1>10 DEF Sound

\* The result gets a register; the handler ends with a sound manager.
LEMMA FrameReturn ==
    ASSUME FrameInv, NEW first \in Values, CallReturn(first)
    PROVE  mgr' \in Sound
<1> DEFINE a(v) == AllocFloat(Returned(v), v, first)
           z(v) == GetFreeFloat(a(v), first)
           l(v) == [z(v) EXCEPT !.freg[z(v).got] = Junk]
           w(v) == WriteFloat(l(v), a(v).occ[v].ix, v, l(v).freg[F0] = v)
<1>1. PICK v \in Values : Finish(Release(w(v), Ran(call.args)))
  BY DEF CallReturn, Returned
<1>2. /\ v \in Names /\ v \in Contents /\ Junk \in Contents /\ Values \subseteq Names
      /\ phase = "jal" /\ call.args \in Seq(Values)
  BY DEF Names, Contents, CallReturn, FrameInv, TypeOK
<1>3. Returned(v) \in Sound
  BY <1>2, FrameBack
<1>4. z(v) \in Sound
  BY <1>2, <1>3, SoundOps
<1> HIDE DEF z, a
<1>5. l(v) \in Sound
  BY <1>2, <1>4, SoundFreg
<1> HIDE DEF l
<1>6. w(v) \in Sound
  BY <1>2, <1>5, SoundWrite
<1> HIDE DEF w
<1> QED
  BY <1>1, <1>2, <1>6, RanType, SoundRelease, SoundFinish

\* One handler, other than the two around jal, keeps the manager sound.
LEMMA FrameStep ==
    ASSUME FrameInv, Next, ~CallJump, \A first \in Values : ~CallReturn(first)
    PROVE  mgr' \in Sound
<1> USE DEF FrameInv, TypeOK
<1>0. Values \subseteq Names /\ Vars \subseteq Names /\ Names \subseteq Contents
      /\ Junk \in Contents
  BY DEF Names, Contents
<1>1. CASE \E k \in {"fn", "main"} : BeginFunction(k)
  BY <1>1, FreshFrameType, FreshApart DEF BeginFunction, Sound
<1>2. ASSUME NEW x \in Vars, Declare(x)
      PROVE  mgr' \in Sound
  <2> DEFINE m == AllocMem(mgr, x)
  <2>1. m \in Sound /\ x \in Contents
    BY <1>0, SoundOps
  <2> HIDE DEF m
  <2>2. [m EXCEPT !.stk[m.occ[x].ix] = x] \in Sound
    BY <2>1, SoundStk
  <2> QED
    BY <1>2, <2>2 DEF Declare, m
<1>3. CASE Constant \/ (\E n \in 0 .. MaxArity : CallBegin(n)) \/ Stopped
  BY <1>3 DEF Constant, CallBegin, Stopped, vars
<1>4. ASSUME NEW first \in Values, NEW x \in Vars, LoadVar(x, first)
      PROVE  mgr' \in Sound
  <2>1. PICK v \in Values :
           LET p == mgr.occ[x]
               m == AllocFloat(mgr, v, first)
           IN  Finish(WriteFloat(m, m.occ[v].ix, v, m.stk[p.ix] = x))
    BY <1>4 DEF LoadVar
  <2> QED
    BY <2>1, <1>0, SoundOps, SoundWrite, SoundFinish
<1>5. ASSUME NEW first \in Values, NEW x \in Vars, Store(x, first)
      PROVE  mgr' \in Sound
  <2> DEFINE m == LoadConst(mgr, Top, Top \in consts, first)
             right == m.freg[m.occ[Top].ix] = Top
             c == IF right THEN x ELSE Junk
             w == [m EXCEPT !.stk[m.occ[x].ix] = c, !.misread = m.misread \/ ~right]
  <2>1. Top \in Values
    BY <1>5, StackTypes DEF Store
  <2>2. m \in Sound /\ c \in Contents
    BY <2>1, <1>0, SoundOps
  <2>3. Finish(Release(w, {Top}))
    BY <1>5 DEF Store
  <2> HIDE DEF m, c, right
  <2>4. w \in Sound
    BY <2>2, SoundStk
  <2> HIDE DEF w
  <2> QED
    BY <2>1, <2>3, <2>4, <1>0, SoundRelease, SoundFinish
<1>6. ASSUME NEW first \in Values, Binary(first)
      PROVE  mgr' \in Sound
  <2> DEFINE x == Operands(2)[1]
             y == Operands(2)[2]
             a == LoadConst(mgr, x, x \in consts, first)
             b == LoadConst(a, y, y \in consts, first)
             c == GetReg(b, x, first)
             d == GetReg(c, y, first)
             e(v) == AllocFloat(d, v, first)
             w(v) == WriteFloat(e(v), e(v).occ[v].ix, v,
                        e(v).freg[c.occ[x].ix] = x /\ e(v).freg[d.occ[y].ix] = y)
  <2>1. x \in Values /\ y \in Values
    <3>1. 2 \in 0 .. Len(stack)
      <4>1. Len(stack) >= 2
        BY <1>6 DEF Binary
      <4> QED
        BY SMTT(60), <4>1
    <3>2. Operands(2) \in Seq(Values) /\ Len(Operands(2)) = 2
      BY <3>1, StackTypes
    <3> QED
      BY <3>2
  <2>2. PICK v \in Values : Finish(Release(w(v), {x, y}))
    BY <1>6 DEF Binary
  <2>3. d \in Sound
    <3>1. a \in Sound
      BY <2>1, <1>0, SoundOps
    <3>2. b \in Sound
      BY <3>1, <2>1, <1>0, SoundOps
    <3> HIDE DEF b
    <3>3. c \in Sound
      BY <3>2, <2>1, <1>0, SoundOps
    <3> QED
      BY <3>3, <2>1, <1>0, SoundOps
  <2> HIDE DEF c, d, x, y
  <2>4. e(v) \in Sound
    BY <2>3, <1>0, SoundOps
  <2> HIDE DEF e
  <2>5. w(v) \in Sound
    BY <2>4, <1>0, SoundWrite
  <2> HIDE DEF w
  <2> QED
    BY <2>1, <2>2, <2>5, <1>0, SoundRelease, SoundFinish
<1>7. ASSUME NEW first \in Values, UnaryPos(first)
      PROVE  mgr' \in Sound
  <2> DEFINE m == LoadConst(mgr, Top, Top \in consts, first)
             r == m.occ[Top].ix
             right == m.freg[r] = Top
  <2>1. Top \in Values
    BY <1>7, StackTypes DEF UnaryPos
  <2>2. m \in Sound
    BY <2>1, <1>0, SoundOps
  <2>3. PICK v \in Values :
           Finish(Release(WriteFloat(Occupy(m, m.occ[Top], v), r, v, right), {Top}))
    BY <1>7 DEF UnaryPos
  <2> HIDE DEF m, r, right
  <2> QED
    BY <2>1, <2>2, <2>3, <1>0, SoundRebind, SoundFinish
<1>8. ASSUME NEW first \in Values, UnaryNeg(first)
      PROVE  mgr' \in Sound
  <2> DEFINE m == LoadConst(mgr, Top, Top \in consts, first)
  <2>1. Top \in Values
    BY <1>8, StackTypes DEF UnaryNeg
  <2>2. m \in Sound
    BY <2>1, <1>0, SoundOps
  <2>3. PICK v \in Values : Finish(Release(AllocFloat(m, v, first), {Top}))
    BY <1>8 DEF UnaryNeg
  <2> HIDE DEF m
  <2> QED
    BY <2>1, <2>2, <2>3, <1>0, SoundOps, SoundRelease, SoundFinish
<1>9. ASSUME NEW first \in Values, CallArg(first)
      PROVE  mgr' \in Sound
  <2> DEFINE v == call.args[call.done + 1]
             m == LoadConst(mgr, v, v \in consts, first)
             c == Held(m, v)
             right == c = v
  <2>1. v \in Values
    BY <1>9 DEF CallArg
  <2>2. m \in Sound
    BY <2>1, <1>0, SoundOps
  <2>3. Finish([m EXCEPT !.stk[call.pos] = c, !.misread = m.misread \/ ~right])
    BY <1>9 DEF CallArg
  <2>4. c \in Contents
    BY <2>1, <2>2, <1>0, HeldType DEF Sound
  <2> HIDE DEF m, c, v, right
  <2> QED
    BY <2>2, <2>3, <2>4, SoundStk, SoundFinish
<1>10. ASSUME NEW first \in Values, NEW n \in Names, CallSave(n, first)
       PROVE  mgr' \in Sound
  <2>1. Finish(PushOne(GetReg(mgr, n, first), n))
    BY <1>10 DEF CallSave
  <2> QED
    BY <2>1, SoundOps, SoundFinish
<1>11. ASSUME NEW first \in Values, Input(first)
       PROVE  mgr' \in Sound
  <2> DEFINE s(v) == [mgr EXCEPT !.freg[F0] = v]
             z(v) == GetFreeFloat(s(v), first)
             l(v) == [z(v) EXCEPT !.freg[z(v).got] = Junk]
             a(v) == AllocFloat(l(v), v, first)
  <2>1. PICK v \in Values :
           Finish(WriteFloat(a(v), a(v).occ[v].ix, v, a(v).freg[F0] = v))
    BY <1>11 DEF Input
  <2>2. v \in Contents /\ v \in Names
    BY <1>0
  <2>3. s(v) \in Sound
    BY <2>2, SoundFreg
  <2> HIDE DEF s
  <2>4. z(v) \in Sound
    BY <2>2, <2>3, SoundOps
  <2> HIDE DEF z
  <2>5. a(v) \in Sound
    BY <2>2, <2>4, <1>0, SoundFreg, SoundOps
  <2> HIDE DEF a
  <2> QED
    BY <2>1, <2>2, <2>5, SoundWrite, SoundFinish
<1>12. ASSUME NEW first \in Values, Output(first)
       PROVE  mgr' \in Sound
  <2> DEFINE z == GetFreeFloat(mgr, first)
             m == LoadConst(z, Top, Top \in consts, first)
             l == [m EXCEPT !.freg[z.got] = Junk]
             w == WriteFloat(l, F12, Top, l.freg[m.occ[Top].ix] = Top)
  <2>1. Top \in Values
    BY <1>12, StackTypes DEF Output
  <2>2. z \in Sound
    BY <2>1, <1>0, SoundOps
  <2>3. m \in Sound
    BY <2>1, <2>2, <1>0, SoundOps
  <2>4. Finish(Release(w, {Top}))
    BY <1>12 DEF Output
  <2> HIDE DEF m, z
  <2>5. w \in Sound
    BY <2>1, <2>3, <1>0, SoundFreg, SoundWrite
  <2> HIDE DEF w
  <2> QED
    BY <2>1, <2>4, <2>5, <1>0, SoundRelease, SoundFinish
<1>13. ASSUME NEW op \in Relations, NEW first \in Values, Compare(op, first)
       PROVE  mgr' \in Sound
  <2> DEFINE x == stack[1]
             y == stack[2]
             a == LoadConst(mgr, x, x \in consts, first)
             b == LoadConst(a, y, y \in consts, first)
             c(v) == AllocTmp(b, v)
             right(v) == c(v).freg[a.occ[x].ix] = x /\ c(v).freg[b.occ[y].ix] = y
             w(v) == [c(v) EXCEPT !.treg[c(v).occ[v].ix] = IF right(v) /\ Lowered(op) = Asked(op) THEN v ELSE Junk,
                                  !.misread = c(v).misread \/ ~right(v)]
  <2>1. PICK v \in Values : Finish(Release(w(v), {x, y}))
    BY ZenonT(60), <1>13 DEF Compare
  <2>2. x \in Values /\ y \in Values
    <3>1. Len(stack) = 2
      BY <1>13 DEF Compare
    <3>2. \A i \in 1 .. 2 : stack[i] \in Values
      BY <3>1, ElementOfSeq
    <3> QED
      BY <3>2
  <2>3. b \in Sound
    <3>1. a \in Sound
      BY <2>2, <1>0, SoundOps
    <3> QED
      BY <3>1, <2>2, <1>0, SoundOps
  <2> HIDE DEF b
  <2>4. c(v) \in Sound
    BY <2>3, <1>0, SoundOps
  <2> HIDE DEF c, right
  <2>5. w(v) \in Sound
    BY <2>4, <1>0, SoundTreg
  <2> HIDE DEF w
  <2> QED
    BY <2>1, <2>2, <2>5, <1>0, SoundRelease, SoundFinish
<1>14. ASSUME NEW first \in Values, ReturnValue(first)
       PROVE  mgr' \in Sound
  <2> DEFINE m == LoadConst(mgr, Top, Top \in consts, first)
             z == GetFreeFloat(m, first)
             l == [z EXCEPT !.freg[z.got] = Junk]
             w == WriteFloat(l, F0, Top, l.freg[m.occ[Top].ix] = Top)
  <2>1. Top \in Values
    BY <1>14, StackTypes DEF ReturnValue
  <2>2. m \in Sound
    BY <2>1, <1>0, SoundOps
  <2>3. z \in Sound
    BY <2>1, <2>2, <1>0, SoundOps
  <2>4. EndBlock(Release(w, {Top}))
    BY <1>14 DEF ReturnValue
  <2> HIDE DEF m, z
  <2>5. w \in Sound
    BY <2>1, <2>3, <1>0, SoundFreg, SoundWrite
  <2> HIDE DEF w
  <2> QED
    BY <2>1, <2>4, <2>5, <1>0, SoundRelease, SoundEndBlock
<1>15. CASE Branch
  <2> DEFINE wrong == Held(mgr, Top) # Top
             w == [mgr EXCEPT !.misread = mgr.misread \/ wrong]
  <2>1. EndBlock(Release(w, {Top}))
    BY <1>15 DEF Branch
  <2>2. mgr \in Managers /\ Apart(mgr, 0)
    BY DEF Sound
  <2>3. w \in Managers /\ w.occ = mgr.occ /\ w.off = mgr.off
    BY <2>2 DEF Managers
  <2>4. w \in Sound
    BY <2>2, <2>3, ApartFrame DEF Sound
  <2> HIDE DEF w
  <2>5. Top \in Values
    BY <1>15, StackTypes DEF Branch
  <2> QED
    BY <2>1, <2>4, <2>5, <1>0, SoundRelease, SoundEndBlock
<1>16. CASE Jump \/ ReturnMain
  BY <1>16, SoundEndBlock DEF Jump, ReturnMain
<1> QED
  BY <1>1, <1>2, <1>3, <1>4, <1>5, <1>6, <1>7, <1>8, <1>9, <1>10, <1>11, <1>12,
     <1>13, <1>14, <1>15, <1>16 DEF Next

LEMMA FrameNext ==
    ASSUME FrameInv, [Next]_vars
    PROVE  FrameInv'
<1>1. TypeOK'
  BY TypeStep DEF FrameInv
<1>2. CASE UNCHANGED vars
  <2>1. mgr' = mgr /\ phase' = phase
    BY <1>2 DEF vars
  <2> QED
    BY <1>1, <2>1 DEF FrameInv
<1>3. CASE CallJump
  BY <1>1, <1>3, FrameJump DEF FrameInv
<1>4. ASSUME NEW first \in Values, CallReturn(first)
      PROVE  FrameInv'
  <2>1. phase' = "body"
    BY <1>4 DEF CallReturn
  <2> QED
    BY <1>1, <1>4, <2>1, FrameReturn DEF FrameInv
<1>5. CASE Next /\ ~CallJump /\ \A first \in Values : ~CallReturn(first)
  <2>1. mgr' \in Sound
    BY <1>5, FrameStep
  <2>2. phase' = "jal" => UNCHANGED vars
    BY <1>5, ZenonT(150) DEF Next, BeginFunction, Declare, Constant, CallBegin, LoadVar, Store, Binary,
                UnaryPos, UnaryNeg, CallArg, CallSave, Input, Output, Compare,
                ReturnValue, Branch, Jump, ReturnMain, Stopped
  <2>3. phase' = "jal" => mgr' = mgr /\ phase' = phase
    BY <2>2 DEF vars
  <2> QED
    BY <1>1, <2>1, <2>3 DEF FrameInv
<1> QED
  BY <1>2, <1>3, <1>4, <1>5

\* Two words of a frame are never shared, whatever the registers of the
\* machine, the depth of the expressions and the number of the calls: a value
\* that was spilled, saved around a call or declared keeps its own word.
THEOREM FrameCorrect == Spec => []FrameDisjoint
<1>1. FrameInv /\ [Next]_vars => FrameInv'
  BY FrameNext
<1>2. FrameInv => FrameDisjoint
  BY DEF FrameInv, Sound, FrameDisjoint
<1> QED
  BY <1>1, <1>2, FrameInit, PTL DEF Spec

-----------------------------------------------------------------------------
(***************************************************************************)
(* What the operators of the manager do to a manager that fits: one whose  *)
(* table, pools and emitted code agree with each other and with the values *)
(* the translator has in hand.  Every operator that finds a fitting        *)
(* manager leaves one, or ends the compiler.                               *)
(***************************************************************************)

-----------------------------------------------------------------------------
(***************************************************************************)
(* The programs and machines of which the theorems speak.                  *)
(***************************************************************************)

\* No expression needs as many registers as the pool has.
Roomy == FLOATCOUNT >= MaxLive + 4

\* No unary plus, which binds its result to a register it then gives back.
Single == "Pos" \notin UnaryOps

\* No unary operator, the least machine on which the handlers that take a
\* register aside find another, and no bound on the frame.
Plain == UnaryOps = {} /\ FLOATCOUNT >= 4 /\ Slots = Int

-----------------------------------------------------------------------------
(***************************************************************************)
(* A fitting manager.                                                      *)
(***************************************************************************)

\* The table binds exactly the values F to float registers or words, the
\* values T to integer registers, and the variables as h says.
Tabled(m, F, T, h) ==
    /\ F \cup T \subseteq Values
    /\ \A x \in Vars : m.occ[x] = h[x] /\ h[x].ty \in {"none", "off"}
    /\ \A v \in Values : /\ v \in F <=> m.occ[v].ty \in {"float", "off"}
                         /\ v \in T <=> m.occ[v].ty = "tmp"

\* The pools and the table agree.
Registers(m) ==
    /\ m.pool \subseteq Allocatable
    /\ \A r \in Allocatable \ m.pool : \E v \in Values : m.occ[v] = InFloat(r)
    /\ \A v \in Values : m.occ[v].ty = "float" => m.occ[v].ix \in Allocatable
    /\ \A r \in TmpRegs : r \in m.tpool <=> \A v \in Values : m.occ[v] # InTmp(r)
    /\ \A u, v \in Values : u # v /\ m.occ[v].ty = "tmp" => m.occ[u] # m.occ[v]
    /\ Single => \A v \in Values : m.occ[v].ty = "float" =>
                    /\ m.occ[v].ix \notin m.pool
                    /\ \A u \in Values \ {v} : m.occ[u] # m.occ[v]

\* The names K are where the table says, and nothing was misread.
Holds(m, K) == Plain => ~m.misread /\ \A n \in K : Held(m, n) = n

Fit(m, F, T, h, K) ==
    /\ m \in Sound
    /\ Roomy => m.status = "ok"
    /\ m.status = "ok" => Tabled(m, F, T, h) /\ Registers(m) /\ Holds(m, K)

\* What an operator that takes a register does besides: at most one name, the
\* one in the register under the cursor, goes to the frame, and only when no
\* register is free.  S are the names the operator itself binds.
Took(m, w, S) ==
    /\ m.status = "ok"
    /\ \A n \in Names \ S :
          \/ w.occ[n] = m.occ[n]
          \/ m.pool = {} /\ m.occ[n] = InFloat(m.cursor) /\ w.occ[n].ty = "off"
    /\ w.off \in {m.off, m.off - 1}
    /\ m.pool # {} => w.off = m.off /\ w.stk = m.stk
    /\ w.misread = m.misread

\* What an operator does that gives v a register: the search starts at the
\* cursor and leaves it past the register found.
Gets(m, w, v) ==
    /\ Took(m, w, {v})
    /\ w.occ[v].ty = "float" /\ w.occ[v].ix \in Allocatable
    /\ w.cursor = (w.occ[v].ix + 1) % FLOATCOUNT
    /\ m.pool # {} => w.occ[v].ix = Nearest(m.pool, m.cursor, FLOATCOUNT)
    /\ w.treg = m.treg
    /\ \A q \in FloatRegs \ {w.occ[v].ix} : w.freg[q] = m.freg[q]

-----------------------------------------------------------------------------
(***************************************************************************)
(* The steps the operators are made of, from a manager m to a manager w.   *)
(***************************************************************************)

\* The table and the pools stay.
SameTable(m, w) ==
    w.occ = m.occ /\ w.pool = m.pool /\ w.tpool = m.tpool /\ w.status = m.status

\* Register r is overwritten.
Scratches(m, w, r) ==
    /\ SameTable(m, w)
    /\ w.treg = m.treg /\ w.stk = m.stk /\ w.misread = m.misread
    /\ \A q \in FloatRegs \ {r} : w.freg[q] = m.freg[q]

\* The place of n is overwritten.
Updates(m, w, n) ==
    /\ SameTable(m, w)
    /\ \A q \in FloatRegs : InFloat(q) # m.occ[n] => w.freg[q] = m.freg[q]
    /\ \A q \in TmpRegs : InTmp(q) # m.occ[n] => w.treg[q] = m.treg[q]
    /\ \A o \in Slots : OnStack(o) # m.occ[n] => w.stk[o] = m.stk[o]
    /\ Plain => w.misread = m.misread /\ Held(w, n) = n

\* Words from o down are overwritten.
Lowers(m, w, o) ==
    /\ SameTable(m, w)
    /\ w.freg = m.freg /\ w.treg = m.treg
    /\ Plain => w.misread = m.misread
    /\ \A p \in Slots : p > o => w.stk[p] = m.stk[p]

\* The name n moves from register r to the word under the cursor.
Spills(m, w, n, r) ==
    /\ m.occ[n] = InFloat(r)
    /\ w.occ[n] = OnStack(m.off) /\ \A u \in Names \ {n} : w.occ[u] = m.occ[u]
    /\ w.pool = m.pool \cup {r} /\ w.tpool = m.tpool /\ w.status = m.status
    /\ w.freg = m.freg /\ w.treg = m.treg /\ w.misread = m.misread
    /\ \A o \in Slots : w.stk[o] = IF o = m.off THEN Held(m, n) ELSE m.stk[o]

\* The name v is bound to register r.
Occupies(m, w, v, r) ==
    /\ w.occ[v] = InFloat(r) /\ \A u \in Names \ {v} : w.occ[u] = m.occ[u]
    /\ w.pool = m.pool \ {r} /\ w.tpool = m.tpool
    /\ w.off = m.off /\ w.cursor = m.cursor /\ w.status = m.status
    /\ w.misread = m.misread /\ w.freg = m.freg /\ w.treg = m.treg /\ w.stk = m.stk

\* The name v is bound to register r, which is overwritten.
Binds(m, w, v, r) ==
    /\ w.occ[v] = InFloat(r) /\ \A u \in Names \ {v} : w.occ[u] = m.occ[u]
    /\ w.pool = m.pool \ {r} /\ w.tpool = m.tpool /\ w.status = m.status
    /\ w.treg = m.treg /\ w.stk = m.stk /\ w.misread = m.misread
    /\ \A q \in FloatRegs \ {r} : w.freg[q] = m.freg[q]

-----------------------------------------------------------------------------
(***************************************************************************)
(* Lemmas about the parts.                                                 *)
(***************************************************************************)

LEMMA NameFacts ==
    /\ Values \subseteq Names /\ Vars \subseteq Names /\ Names = Values \cup Vars
    /\ Values \cap Vars = {} /\ Names \subseteq Contents
    /\ Junk \in Contents /\ RetAddr \in Contents
    /\ Junk \notin Names /\ RetAddr \notin Names
BY NameAssumption DEF Names, Contents

LEMMA PlaceFacts ==
    /\ \A r : InFloat(r).ty = "float" /\ InFloat(r).ix = r
    /\ \A r : InTmp(r).ty = "tmp" /\ InTmp(r).ix = r
    /\ \A o : OnStack(o).ty = "off" /\ OnStack(o).ix = o
    /\ Nowhere.ty = "none"
    /\ \A p \in Places : /\ p.ty \in {"none", "float", "tmp", "off"}
                         /\ p.ty = "float" => p = InFloat(p.ix) /\ p.ix \in FloatRegs
                         /\ p.ty = "tmp" => p = InTmp(p.ix) /\ p.ix \in TmpRegs
                         /\ p.ty = "off" => p = OnStack(p.ix) /\ p.ix \in Int
                         /\ p.ty = "none" => p = Nowhere
BY DEF InFloat, InTmp, OnStack, Nowhere, Places

LEMMA ManagerFields ==
    ASSUME NEW m \in Managers
    PROVE  /\ m.pool \subseteq FloatRegs /\ m.cursor \in FloatRegs
           /\ m.tpool \subseteq TmpRegs /\ m.tcursor \in TmpRegs
           /\ m.occ \in [Names -> Places] /\ m.off \in Int /\ m.got \in FloatRegs
           /\ m.status \in {"ok", "dead"}
           /\ m.freg \in [FloatRegs -> Contents] /\ m.treg \in [TmpRegs -> Contents]
           /\ m.stk \in [Slots -> Contents] /\ m.misread \in BOOLEAN
BY DEF Managers

\* A word in use is above the frame cursor.
LEMMA WordsAbove ==
    ASSUME NEW m \in Managers, Apart(m, 0), NEW n \in Names, m.occ[n].ty = "off"
    PROVE  m.occ[n].ix \in Int /\ m.occ[n].ix > m.off
<1>1. m.off \in Int /\ m.occ[n] \in Places
  BY ManagerFields
<1>2. m.occ[n].ix \in Int
  BY <1>1, PlaceFacts
<1> QED
  BY <1>1, <1>2 DEF Apart

\* A held name is held by a register or a word.
LEMMA HeldCases ==
    ASSUME NEW m \in Managers, NEW n \in Names, Slots = Int
    PROVE  Held(m, n) = CASE m.occ[n].ty = "float" -> m.freg[m.occ[n].ix]
                          [] m.occ[n].ty = "tmp" -> m.treg[m.occ[n].ix]
                          [] m.occ[n].ty = "off" -> m.stk[m.occ[n].ix]
                          [] OTHER -> Junk
<1>1. m.occ[n] \in Places
  BY ManagerFields
<1>2. m.occ[n].ty = "off" => m.occ[n].ix \in Slots
  BY <1>1, PlaceFacts
<1> QED
  BY <1>1, <1>2, PlaceFacts DEF Held

-----------------------------------------------------------------------------
(***************************************************************************)
(* The fields the operators set.                                           *)
(***************************************************************************)

LEMMA OccupyFields ==
    ASSUME NEW m \in Managers, NEW r \in FloatRegs, NEW v \in Names, m.occ[v] = Nowhere
    PROVE  Occupies(m, Occupy(m, InFloat(r), v), v, r)
<1> DEFINE p == InFloat(r)
           w == Occupy(m, p, v)
<1>1. p.ty = "float" /\ p.ix = r /\ m.occ \in [Names -> Places]
  BY PlaceFacts, ManagerFields
<1> HIDE DEF p
<1>2. /\ w.occ = [m.occ EXCEPT ![v] = p]
      /\ w.pool = m.pool \ {r} /\ w.tpool = m.tpool
      /\ w.off = m.off /\ w.cursor = m.cursor
      /\ w.status = m.status /\ w.misread = m.misread
      /\ w.freg = m.freg /\ w.treg = m.treg /\ w.stk = m.stk
  BY <1>1 DEF Occupy, Managers
<1> HIDE DEF w
<1>3. Occupies(m, w, v, r)
  BY <1>1, <1>2 DEF Occupies, p
<1> QED
  BY <1>3 DEF p, w

LEMMA ReleaseFields ==
    ASSUME NEW m \in Managers, NEW S \in SUBSET Names
    PROVE  LET w == Release(m, S)
           IN  /\ w.occ = [n \in Names |-> IF n \in S THEN Nowhere ELSE m.occ[n]]
               /\ w.pool = m.pool \cup {m.occ[n].ix : n \in {s \in S : m.occ[s].ty = "float"}}
               /\ w.tpool = m.tpool \cup {m.occ[n].ix : n \in {s \in S : m.occ[s].ty = "tmp"}}
               /\ w.off = m.off /\ w.cursor = m.cursor /\ w.got = m.got
               /\ w.status = m.status /\ w.misread = m.misread
               /\ w.freg = m.freg /\ w.treg = m.treg /\ w.stk = m.stk
BY DEF Release, Managers

LEMMA PushFields ==
    ASSUME NEW m \in Managers, NEW S \in SUBSET Names, NEW rank \in [S -> Int]
    PROVE  LET w == Push(m, S, rank)
           IN  /\ w.occ = [n \in Names |-> IF n \in S THEN OnStack(m.off - rank[n])
                                                      ELSE m.occ[n]]
               /\ w.pool = Release(m, S).pool /\ w.tpool = Release(m, S).tpool
               /\ w.off = m.off - Cardinality(S) /\ w.cursor = m.cursor /\ w.got = m.got
               /\ w.status = m.status /\ w.misread = m.misread
               /\ w.freg = m.freg /\ w.treg = m.treg
               /\ w.stk = [o \in Slots |-> IF \E n \in S : o = m.off - rank[n]
                                           THEN Held(m, CHOOSE n \in S : o = m.off - rank[n])
                                           ELSE m.stk[o]]
<1> DEFINE r == Release(m, S)
           o1 == [n \in Names |-> IF n \in S THEN OnStack(m.off - rank[n]) ELSE r.occ[n]]
           s1 == [o \in Slots |-> IF \E n \in S : o = m.off - rank[n]
                                  THEN Held(m, CHOOSE n \in S : o = m.off - rank[n])
                                  ELSE r.stk[o]]
<1>1. r \in Managers
  BY ReleaseType
<1>2. /\ r.off = m.off /\ r.cursor = m.cursor /\ r.got = m.got /\ r.status = m.status
      /\ r.misread = m.misread /\ r.freg = m.freg /\ r.treg = m.treg /\ r.stk = m.stk
      /\ \A n \in Names \ S : r.occ[n] = m.occ[n]
  BY DEF Release, Managers
<1>3. Push(m, S, rank) = [r EXCEPT !.occ = o1, !.stk = s1, !.off = r.off - Cardinality(S)]
  BY DEF Push
<1>4. /\ o1 = [n \in Names |-> IF n \in S THEN OnStack(m.off - rank[n]) ELSE m.occ[n]]
      /\ s1 = [o \in Slots |-> IF \E n \in S : o = m.off - rank[n]
                               THEN Held(m, CHOOSE n \in S : o = m.off - rank[n])
                               ELSE m.stk[o]]
  BY <1>2
<1> HIDE DEF r, o1, s1
<1>5. LET w == [r EXCEPT !.occ = o1, !.stk = s1, !.off = r.off - Cardinality(S)]
      IN  /\ w.occ = o1 /\ w.stk = s1 /\ w.off = r.off - Cardinality(S)
          /\ w.pool = r.pool /\ w.tpool = r.tpool /\ w.cursor = r.cursor /\ w.got = r.got
          /\ w.status = r.status /\ w.misread = r.misread /\ w.freg = r.freg
          /\ w.treg = r.treg
  BY <1>1 DEF Managers
<1> QED
  BY <1>2, <1>3, <1>4, <1>5 DEF r

LEMMA PushOneFields ==
    ASSUME NEW m \in Managers, NEW n \in Names, m.occ[n].ty = "float"
    PROVE  LET w == PushOne(m, n)
           IN  /\ w.occ = [m.occ EXCEPT ![n] = OnStack(m.off)]
               /\ w.pool = m.pool \cup {m.occ[n].ix} /\ w.tpool = m.tpool
               /\ w.off = m.off - 1 /\ w.cursor = m.cursor /\ w.got = m.got
               /\ w.status = m.status /\ w.misread = m.misread
               /\ w.freg = m.freg /\ w.treg = m.treg
               /\ w.stk = [o \in Slots |-> IF o = m.off THEN Held(m, n) ELSE m.stk[o]]
<1> DEFINE rank == [u \in {n} |-> 0]
           w == Push(m, {n}, rank)
<1>0. m.off \in Int /\ Cardinality({n}) = 1 /\ m.occ \in [Names -> Places]
  BY FS_Singleton, ManagerFields
<1>1. rank \in [{n} -> Int] /\ {n} \in SUBSET Names
  OBVIOUS
<1>2. rank[n] = 0
  OBVIOUS
<1>3. /\ w.occ = [u \in Names |-> IF u \in {n} THEN OnStack(m.off - rank[u]) ELSE m.occ[u]]
      /\ w.pool = Release(m, {n}).pool /\ w.tpool = Release(m, {n}).tpool
      /\ w.off = m.off - Cardinality({n}) /\ w.cursor = m.cursor /\ w.got = m.got
      /\ w.status = m.status /\ w.misread = m.misread
      /\ w.freg = m.freg /\ w.treg = m.treg
      /\ w.stk = [o \in Slots |-> IF \E u \in {n} : o = m.off - rank[u]
                                  THEN Held(m, CHOOSE u \in {n} : o = m.off - rank[u])
                                  ELSE m.stk[o]]
  <2> HIDE DEF rank
  <2> QED
    BY SMTT(60), <1>1, PushFields
<1> HIDE DEF w, rank
<1>4. w.occ = [m.occ EXCEPT ![n] = OnStack(m.off)]
  BY <1>0, <1>2, <1>3
<1>5. w.pool = m.pool \cup {m.occ[n].ix} /\ w.tpool = m.tpool
  <2>1. {n} \in SUBSET Names
    OBVIOUS
  <2>2. /\ w.pool = m.pool \cup {m.occ[u].ix : u \in {s \in {n} : m.occ[s].ty = "float"}}
        /\ w.tpool = m.tpool \cup {m.occ[u].ix : u \in {s \in {n} : m.occ[s].ty = "tmp"}}
    BY <1>3, <2>1, ReleaseFields, ZenonT(40)
  <2> QED
    BY <2>2
<1>6. w.stk = [o \in Slots |-> IF o = m.off THEN Held(m, n) ELSE m.stk[o]]
  <2>1. ASSUME NEW o
        PROVE  /\ (\E u \in {n} : o = m.off - rank[u]) <=> o = m.off
               /\ o = m.off => (CHOOSE u \in {n} : o = m.off - rank[u]) = n
    BY <1>0, <1>2
  <2> QED
    BY <1>3, <2>1
<1> QED
  BY <1>0, <1>3, <1>4, <1>5, <1>6 DEF w, rank, PushOne

-----------------------------------------------------------------------------
(***************************************************************************)
(* A free register for every value.                                        *)
(***************************************************************************)

LEMMA AllocatableCount ==
    IsFiniteSet(Allocatable) /\ Cardinality(Allocatable) = FLOATCOUNT - 2
<1>1. FLOATCOUNT \in Nat /\ FLOATCOUNT >= 2 /\ F12 \in 1 .. (FLOATCOUNT - 1)
  BY MachineAssumption
<1>2. IsFiniteSet(FloatRegs) /\ Cardinality(FloatRegs) = FLOATCOUNT
  BY <1>1, FS_Interval DEF FloatRegs
<1> DEFINE S == FloatRegs \ {F0}
<1>3. IsFiniteSet(S) /\ Cardinality(S) = FLOATCOUNT - 1
  BY <1>1, <1>2, FloatRegFacts, FS_RemoveElement
<1>4. F12 \in S
  BY <1>1 DEF FloatRegs, F0
<1>5. Allocatable = S \ {F12}
  BY DEF Allocatable
<1> HIDE DEF S
<1>6. IsFiniteSet(S \ {F12}) /\ Cardinality(S \ {F12}) = FLOATCOUNT - 1 - 1
  BY <1>3, <1>4, FS_RemoveElement
<1> QED
  BY <1>1, <1>5, <1>6

\* A register no value is bound to is in the pool: when the values in
\* registers are fewer than the registers, there is one.
LEMMA PoolFree ==
    ASSUME NEW m, Registers(m), NEW B \in SUBSET Values,
           \A v \in Values : m.occ[v].ty = "float" => v \in B,
           Cardinality(B) < FLOATCOUNT - 2
    PROVE  m.pool # {}
<1>1. IsFiniteSet(B)
  BY NameAssumption, FS_Subset
<1> SUFFICES ASSUME m.pool = {} PROVE FALSE
  OBVIOUS
<1> DEFINE f == [r \in Allocatable |-> CHOOSE v \in Values : m.occ[v] = InFloat(r)]
<1>2. ASSUME NEW r \in Allocatable
      PROVE  f[r] \in B /\ m.occ[f[r]] = InFloat(r)
  <2>1. \E v \in Values : m.occ[v] = InFloat(r)
    BY DEF Registers
  <2>2. f[r] \in Values /\ m.occ[f[r]] = InFloat(r)
    BY <2>1
  <2> HIDE DEF f
  <2> QED
    BY <2>2, PlaceFacts
<1>3. f \in [Allocatable -> B]
  BY <1>2
<1> HIDE DEF f
<1>4. \E x, y \in Allocatable : x # y /\ f[x] = f[y]
  BY <1>1, <1>3, AllocatableCount, FS_PigeonHole
<1> QED
  BY <1>2, <1>4, PlaceFacts

LEMMA ModUnique ==
    ASSUME NEW n \in Nat \ {0}, NEW x \in Int, NEW q \in Int, NEW r \in 0 .. (n - 1),
           x = q * n + r
    PROVE  x % n = r
OBVIOUS

\* The cursor moves off the register it has passed.
LEMMA NextCursor ==
    ASSUME NEW r \in FloatRegs
    PROVE  (r + 1) % FLOATCOUNT # r
<1>1. FLOATCOUNT \in Nat \ {0} /\ FLOATCOUNT >= 2 /\ r \in 0 .. (FLOATCOUNT - 1)
  BY MachineAssumption DEF FloatRegs
<1> DEFINE c == (r + 1) % FLOATCOUNT
<1>2. CASE r + 1 = FLOATCOUNT
  <2>1. c = 0
    BY <1>1, <1>2
  <2> QED
    BY <1>1, <1>2, <2>1
<1>3. CASE r + 1 # FLOATCOUNT
  <2>1. r + 1 \in 0 .. (FLOATCOUNT - 1)
    BY <1>1, <1>3
  <2>2. c = r + 1
    BY <1>1, <2>1
  <2> QED
    BY <1>1, <2>2
<1> QED
  BY <1>2, <1>3

\* The search that starts past a register comes back to it last.
LEMMA NearestOther ==
    ASSUME NEW r \in FloatRegs, NEW pool \in SUBSET FloatRegs,
           NEW s \in pool, s # r
    PROVE  Nearest(pool, (r + 1) % FLOATCOUNT, FLOATCOUNT) # r
<1>1. /\ FLOATCOUNT \in Nat \ {0}
      /\ r \in 0 .. (FLOATCOUNT - 1) /\ s \in 0 .. (FLOATCOUNT - 1)
  BY MachineAssumption DEF FloatRegs
<1> DEFINE c == (r + 1) % FLOATCOUNT
           D(q) == (q - c) % FLOATCOUNT
<1>2. c \in 0 .. (FLOATCOUNT - 1) /\ (c = r + 1 \/ (c = 0 /\ r = FLOATCOUNT - 1))
  <2>1. CASE r + 1 = FLOATCOUNT
    BY <1>1, <2>1
  <2>2. CASE r + 1 # FLOATCOUNT
    <3>1. r + 1 \in 0 .. (FLOATCOUNT - 1)
      BY <1>1, <2>2
    <3> QED
      BY <1>1, <3>1
  <2> QED
    BY <2>1, <2>2
<1> HIDE DEF c
<1>3. D(r) = FLOATCOUNT - 1
  <2>1. CASE c = r + 1
    <3>1. r - c = (-1) * FLOATCOUNT + (FLOATCOUNT - 1)
      BY <1>1, <2>1
    <3> QED
      BY <1>1, <3>1, ModUnique
  <2>2. CASE c = 0 /\ r = FLOATCOUNT - 1
    <3>1. r - c = 0 * FLOATCOUNT + (FLOATCOUNT - 1)
      BY <1>1, <2>2
    <3> QED
      BY <1>1, <3>1, ModUnique
  <2> QED
    BY <1>2, <2>1, <2>2
<1>4. D(s) < FLOATCOUNT - 1
  <2>1. CASE s >= c
    <3>1. s - c = 0 * FLOATCOUNT + (s - c) /\ s - c \in 0 .. (FLOATCOUNT - 1)
      BY <1>1, <1>2, <2>1
    <3>2. D(s) = s - c
      BY <1>1, <3>1, ModUnique
    <3> QED
      BY <1>1, <1>2, <2>1, <3>2
  <2>2. CASE s < c
    <3>1. /\ s - c = (-1) * FLOATCOUNT + (s - c + FLOATCOUNT)
          /\ s - c + FLOATCOUNT \in 0 .. (FLOATCOUNT - 1)
      BY <1>1, <1>2, <2>2
    <3>2. D(s) = s - c + FLOATCOUNT
      BY <1>1, <3>1, ModUnique
    <3> QED
      BY <1>1, <1>2, <2>2, <3>2
  <2> QED
    BY <1>1, <1>2, <2>1, <2>2
<1>5. ASSUME Nearest(pool, c, FLOATCOUNT) = r PROVE FALSE
  <2>1. pool \subseteq 0 .. (FLOATCOUNT - 1) /\ pool # {} /\ c \in Nat
    BY <1>2 DEF FloatRegs
  <2>2. \A t \in pool : D(Nearest(pool, c, FLOATCOUNT)) <= D(t)
    BY <1>1, <2>1, NearestLeast
  <2>3. D(r) <= D(s)
    BY <1>5, <2>2
  <2> HIDE DEF D
  <2>4. D(s) \in Int
    BY <1>1, <1>2 DEF D
  <2> QED
    BY <1>1, <1>3, <1>4, <2>3, <2>4
<1> QED
  BY <1>5 DEF c

-----------------------------------------------------------------------------
(***************************************************************************)
(* Spilling.                                                               *)
(***************************************************************************)

\* A value that goes from its register to the word under the cursor is still
\* held, and so are the others.
LEMMA SpillFit ==
    ASSUME NEW m, NEW w \in Sound, NEW F, NEW T, NEW h, NEW K \in SUBSET Names,
           Fit(m, F, T, h, K), m.status = "ok", NEW n \in Names, NEW r,
           Spills(m, w, n, r)
    PROVE  Fit(w, F, T, h, K)
<1> USE DEF Spills
<1>1. /\ m \in Managers /\ Apart(m, 0) /\ w \in Managers
      /\ Tabled(m, F, T, h) /\ Registers(m) /\ Holds(m, K)
  BY DEF Fit, Sound
<1>2. m.occ \in [Names -> Places] /\ m.off \in Int /\ m.pool \subseteq FloatRegs
  BY <1>1, ManagerFields
<1>3. n \in Values /\ n \in F
  BY <1>1, NameFacts, PlaceFacts DEF Tabled
<1>4. /\ w.occ[n] = OnStack(m.off) /\ w.occ[n].ty = "off"
      /\ \A u \in Names \ {n} : w.occ[u] = m.occ[u]
  BY <1>2, PlaceFacts
<1>5. Tabled(w, F, T, h)
  <2>1. \A x \in Vars : w.occ[x] = m.occ[x]
    BY <1>3, <1>4, NameFacts
  <2>2. ASSUME NEW v \in Values
        PROVE  /\ v \in F <=> w.occ[v].ty \in {"float", "off"}
               /\ v \in T <=> w.occ[v].ty = "tmp"
    <3>1. CASE v = n
      BY <3>1, <1>1, <1>3, <1>4, PlaceFacts DEF Tabled
    <3>2. CASE v # n
      BY <3>2, <1>1, <1>4, NameFacts DEF Tabled
    <3> QED
      BY <3>1, <3>2
  <2> QED
    BY <1>1, <2>1, <2>2 DEF Tabled
<1>6. Registers(w)
  <2>1. r \in Allocatable
    BY <1>1, <1>3, PlaceFacts DEF Registers
  <2>2. w.pool \subseteq Allocatable
    BY <1>1, <2>1 DEF Registers
  <2>3. ASSUME NEW q \in Allocatable \ w.pool PROVE \E v \in Values : w.occ[v] = InFloat(q)
    <3>1. q # r /\ q \in Allocatable \ m.pool
      OBVIOUS
    <3>2. PICK v \in Values : m.occ[v] = InFloat(q)
      BY <1>1, <3>1 DEF Registers
    <3>3. v # n
      BY <3>1, <3>2, PlaceFacts
    <3> QED
      BY <3>2, <3>3, <1>4, NameFacts
  <2>4. \A v \in Values : w.occ[v].ty = "float" => v # n /\ w.occ[v] = m.occ[v]
    BY <1>4, NameFacts
  <2>5. \A v \in Values : w.occ[v].ty = "float" => w.occ[v].ix \in Allocatable
    BY <1>1, <2>4 DEF Registers
  <2>6. \A q \in TmpRegs : q \in w.tpool <=> \A v \in Values : w.occ[v] # InTmp(q)
    <3>1. m.occ[n].ty # "tmp" /\ w.occ[n].ty # "tmp"
      BY <1>4, PlaceFacts
    <3>2. \A q : \A v \in Values : w.occ[v] = InTmp(q) <=> m.occ[v] = InTmp(q)
      BY <3>1, <1>4, NameFacts, PlaceFacts
    <3> QED
      BY <1>1, <3>2 DEF Registers
  <2>7. \A u, v \in Values : u # v /\ w.occ[v].ty = "tmp" => w.occ[u] # w.occ[v]
    <3>1. SUFFICES ASSUME NEW u \in Values, NEW v \in Values, u # v, w.occ[v].ty = "tmp"
                   PROVE  w.occ[u] # w.occ[v]
      OBVIOUS
    <3>2. v # n /\ w.occ[v] = m.occ[v]
      BY <1>4, <3>1, NameFacts
    <3>3. CASE u = n
      BY <1>4, <3>1, <3>3
    <3>4. CASE u # n
      BY <1>1, <1>4, <3>1, <3>2, <3>4, NameFacts DEF Registers
    <3> QED
      BY <3>3, <3>4
  <2>8. ASSUME Single, NEW v \in Values, w.occ[v].ty = "float"
        PROVE  w.occ[v].ix \notin w.pool /\ \A u \in Values \ {v} : w.occ[u] # w.occ[v]
    <3>1. v # n /\ w.occ[v] = m.occ[v]
      BY <2>4, <2>8
    <3>2. m.occ[v].ix \notin m.pool /\ \A u \in Values \ {v} : m.occ[u] # m.occ[v]
      BY <1>1, <2>8, <3>1 DEF Registers
    <3>3. m.occ[v] # InFloat(r)
      BY <1>3, <3>1, <3>2
    <3>4. m.occ[v].ix # r
      BY <1>2, <2>8, <3>1, <3>3, NameFacts, PlaceFacts
    <3>5. \A u \in Values \ {v} : w.occ[u] # w.occ[v]
      BY <1>4, <2>8, <3>1, <3>2, NameFacts
    <3> QED
      BY <3>1, <3>2, <3>4, <3>5
  <2> QED
    BY <2>2, <2>3, <2>5, <2>6, <2>7, <2>8 DEF Registers
<1>7. Holds(w, K)
  <2>1. ASSUME Plain, NEW k \in K PROVE Held(w, k) = k
    <3>1. Slots = Int /\ Held(m, k) = k
      BY <1>1, <2>1 DEF Holds, Plain
    <3>2. CASE k = n
      <4>1. w.stk[m.off] = Held(m, n)
        BY <1>2, <3>1
      <4> QED
        BY <1>1, <1>4, <3>1, <3>2, <4>1, HeldCases, PlaceFacts
    <3>3. CASE k # n
      <4>1. w.occ[k] = m.occ[k] /\ m.occ[k] \in Places
        BY <1>2, <1>4, <3>3
      <4>2. m.occ[k].ty = "off" => m.occ[k].ix \in Int /\ m.occ[k].ix > m.off
        BY <1>1, <4>1, WordsAbove
      <4>3. m.occ[k].ty = "off" => w.stk[m.occ[k].ix] = m.stk[m.occ[k].ix]
        BY <1>2, <3>1, <4>2
      <4>4. Held(w, k) = Held(m, k)
        BY <4>1, <4>3 DEF Held
      <4> QED
        BY <3>1, <4>4
    <3> QED
      BY <3>2, <3>3
  <2> QED
    BY <1>1, <2>1 DEF Holds
<1> QED
  BY <1>5, <1>6, <1>7 DEF Fit

-----------------------------------------------------------------------------
(***************************************************************************)
(* Steps that leave the table alone.                                       *)
(***************************************************************************)

\* Fewer names need be held.
LEMMA FitLess ==
    ASSUME NEW m, NEW F, NEW T, NEW h, NEW K, Fit(m, F, T, h, K),
           NEW L \in SUBSET K
    PROVE  Fit(m, F, T, h, L)
BY DEF Fit, Holds

\* A step that changes what registers and words hold.
LEMMA MemFit ==
    ASSUME NEW m, NEW w \in Sound, NEW F, NEW T, NEW h, NEW K, NEW L,
           Fit(m, F, T, h, K), SameTable(m, w), m.status = "ok" => Holds(w, L)
    PROVE  Fit(w, F, T, h, L)
BY DEF SameTable, Fit, Tabled, Registers

\* A register that is no value's may be overwritten.
LEMMA ScratchFit ==
    ASSUME NEW m, NEW w \in Sound, NEW F, NEW T, NEW h, NEW K \in SUBSET Names,
           Fit(m, F, T, h, K), NEW r \in FloatRegs,
           m.status = "ok" => r \in m.pool \/ r \notin Allocatable, Scratches(m, w, r)
    PROVE  Fit(w, F, T, h, K)
<1>0. SameTable(m, w)
  BY DEF Scratches
<1>1. ASSUME m.status = "ok" PROVE Holds(w, K)
  <2>1. m \in Managers /\ Tabled(m, F, T, h) /\ Registers(m) /\ Holds(m, K)
    BY <1>1 DEF Fit, Sound
  <2>2. ASSUME Plain, NEW k \in K PROVE Held(w, k) = k
    <3>1. Held(m, k) = k /\ Single
      BY <2>1, <2>2 DEF Holds, Plain, Single
    <3>2. m.occ[k].ty = "float" => m.occ[k].ix \in FloatRegs \ {r}
      <4>1. ASSUME m.occ[k].ty = "float" PROVE m.occ[k].ix \in FloatRegs \ {r}
        <5>1. k \in Values
          BY <2>1, <4>1, NameFacts, PlaceFacts DEF Tabled
        <5>2. m.occ[k].ix \in Allocatable /\ m.occ[k].ix \notin m.pool
          BY <2>1, <3>1, <4>1, <5>1 DEF Registers
        <5> QED
          BY <1>1, <5>2, FloatRegFacts
      <4> QED
        BY <4>1
    <3>3. Held(w, k) = Held(m, k)
      BY <3>2 DEF Held, Scratches, SameTable
    <3> QED
      BY <3>1, <3>3
  <2> QED
    BY <2>1, <2>2 DEF Holds, Scratches
<1> QED
  BY <1>0, <1>1, MemFit

\* The word under the cursor, and those below, are nobody's.
LEMMA BelowFit ==
    ASSUME NEW m, NEW w \in Sound, NEW F, NEW T, NEW h, NEW K \in SUBSET Names,
           Fit(m, F, T, h, K), NEW o \in Int, o <= m.off, Lowers(m, w, o)
    PROVE  Fit(w, F, T, h, K)
<1>0. SameTable(m, w)
  BY DEF Lowers
<1>1. ASSUME m.status = "ok" PROVE Holds(w, K)
  <2>1. m \in Managers /\ Apart(m, 0) /\ Holds(m, K) /\ m.off \in Int
    BY <1>1, ManagerFields DEF Fit, Sound
  <2>2. ASSUME Plain, NEW k \in K PROVE Held(w, k) = k
    <3>1. Held(m, k) = k /\ Slots = Int
      BY <2>1, <2>2 DEF Holds, Plain
    <3>2. m.occ[k].ty = "off" => m.occ[k].ix \in Slots /\ m.occ[k].ix > o
      BY <2>1, <3>1, WordsAbove
    <3>3. Held(w, k) = Held(m, k)
      BY <3>2 DEF Held, Lowers, SameTable
    <3> QED
      BY <3>1, <3>3
  <2> QED
    BY <2>1, <2>2 DEF Holds, Lowers
<1> QED
  BY <1>0, <1>1, MemFit

\* A value is written to the register it is bound to.
LEMMA WriteFit ==
    ASSUME NEW m, NEW F, NEW T, NEW h, NEW K \in SUBSET Names,
           Fit(m, F, T, h, K), NEW v \in Values, NEW right,
           m.status = "ok" => m.occ[v].ty = "float" /\ (Plain => right)
    PROVE  Fit(WriteFloat(m, m.occ[v].ix, v, right), F, T, h, K \cup {v})
<1> DEFINE r == m.occ[v].ix
           w == WriteFloat(m, r, v, right)
<1>1. m \in Sound /\ m \in Managers /\ v \in Names
  BY NameFacts DEF Fit, Sound
<1>2. /\ w.occ = m.occ /\ w.pool = m.pool /\ w.tpool = m.tpool /\ w.status = m.status
      /\ w.treg = m.treg /\ w.stk = m.stk /\ w.misread = (m.misread \/ ~right)
      /\ w.freg = [m.freg EXCEPT ![r] = IF right THEN v ELSE Junk]
  BY <1>1 DEF WriteFloat, Managers
<1>3. w \in Sound
  BY <1>1, SoundWrite
<1> HIDE DEF w
<1>4. ASSUME m.status = "ok" PROVE Holds(w, K \cup {v})
  <2>1. Registers(m) /\ Tabled(m, F, T, h) /\ Holds(m, K) /\ m.occ[v].ty = "float"
    BY <1>4 DEF Fit
  <2>2. r \in Allocatable /\ r \in FloatRegs
    BY <2>1, FloatRegFacts DEF Registers
  <2>3. m.freg \in [FloatRegs -> Contents]
    BY <1>1, ManagerFields
  <2>4. ASSUME Plain, NEW k \in K \cup {v} PROVE Held(w, k) = k
    <3>1. right /\ Single /\ w.freg[r] = v /\ \A q \in FloatRegs \ {r} : w.freg[q] = m.freg[q]
      BY <1>2, <1>4, <2>2, <2>3, <2>4 DEF Plain, Single
    <3>2. CASE k = v
      BY <1>2, <2>1, <3>1, <3>2 DEF Held
    <3>3. CASE k # v
      <4>1. Held(m, k) = k
        BY <2>1, <2>4, <3>3 DEF Holds
      <4>2. m.occ[k].ty = "float" => m.occ[k].ix \in FloatRegs \ {r}
        <5>1. ASSUME m.occ[k].ty = "float" PROVE m.occ[k].ix \in FloatRegs \ {r}
          <6>1. k \in Values
            BY <2>1, <2>4, <5>1, NameFacts, PlaceFacts DEF Tabled
          <6>2. m.occ[k].ix \in Allocatable /\ m.occ[k] # m.occ[v]
            BY <2>1, <3>1, <3>3, <5>1, <6>1 DEF Registers
          <6>3. m.occ[k] = InFloat(m.occ[k].ix) /\ m.occ[v] = InFloat(m.occ[v].ix)
            BY <1>1, <2>1, <5>1, <6>1, ManagerFields, NameFacts, PlaceFacts
          <6> QED
            BY <6>2, <6>3, FloatRegFacts
        <5> QED
          BY <5>1
      <4>3. Held(w, k) = Held(m, k)
        BY <1>2, <3>1, <4>2 DEF Held
      <4> QED
        BY <4>1, <4>3
    <3> QED
      BY <3>2, <3>3
  <2>5. Plain => ~w.misread
    BY <1>2, <1>4, <2>1 DEF Holds
  <2> QED
    BY <2>4, <2>5 DEF Holds
<1>5. SameTable(m, w)
  BY <1>2 DEF SameTable
<1>6. Fit(w, F, T, h, K \cup {v})
  BY <1>3, <1>4, <1>5, MemFit
<1> QED
  BY <1>6 DEF w

-----------------------------------------------------------------------------
(***************************************************************************)
(* Binding a value to a register.                                          *)
(***************************************************************************)

\* A value that was nowhere gets register r, which nobody has: on a machine
\* without unary plus, a register of the pool.
LEMMA BindFit ==
    ASSUME NEW m, NEW w \in Sound, NEW F, NEW T, NEW h, NEW K \in SUBSET Names,
           Fit(m, F, T, h, K), m.status = "ok", NEW v \in Values, v \notin F \cup T,
           NEW r \in Allocatable, Single => r \in m.pool, Binds(m, w, v, r),
           NEW L \in SUBSET (K \cup {v}), Plain /\ v \in L => w.freg[r] = v
    PROVE  Fit(w, F \cup {v}, T, h, L)
<1> USE DEF Binds
<1>1. /\ m \in Managers /\ w \in Managers
      /\ Tabled(m, F, T, h) /\ Registers(m) /\ Holds(m, K)
  BY DEF Fit, Sound
<1>2. m.occ \in [Names -> Places] /\ v \in Names /\ r \in FloatRegs
  BY <1>1, ManagerFields, NameFacts, FloatRegFacts
<1>3. m.occ[v].ty = "none" /\ m.occ[v] = Nowhere
  BY <1>1, <1>2, PlaceFacts DEF Tabled
<1>4. /\ w.occ[v] = InFloat(r) /\ w.occ[v].ty = "float" /\ w.occ[v].ix = r
      /\ \A u \in Names \ {v} : w.occ[u] = m.occ[u]
  BY <1>2, PlaceFacts
<1>5. Tabled(w, F \cup {v}, T, h)
  <2>1. \A x \in Vars : w.occ[x] = m.occ[x]
    BY <1>4, NameFacts
  <2>2. ASSUME NEW u \in Values
        PROVE  /\ u \in F \cup {v} <=> w.occ[u].ty \in {"float", "off"}
               /\ u \in T <=> w.occ[u].ty = "tmp"
    <3>1. CASE u = v
      BY <3>1, <1>4
    <3>2. CASE u # v
      BY <3>2, <1>1, <1>4, NameFacts DEF Tabled
    <3> QED
      BY <3>1, <3>2
  <2> QED
    BY <1>1, <2>1, <2>2 DEF Tabled
<1>6. Registers(w)
  <2>1. ASSUME NEW q \in Allocatable \ w.pool PROVE \E u \in Values : w.occ[u] = InFloat(q)
    <3>1. CASE q = r
      BY <1>4, <3>1
    <3>2. CASE q # r
      <4>1. q \in Allocatable \ m.pool
        BY <3>2
      <4>2. PICK u \in Values : m.occ[u] = InFloat(q)
        BY <1>1, <4>1 DEF Registers
      <4>3. u # v
        BY <1>3, <4>2, PlaceFacts
      <4> QED
        BY <4>2, <4>3, <1>4, NameFacts
    <3> QED
      BY <3>1, <3>2
  <2>2. ASSUME NEW u \in Values, w.occ[u].ty = "float"
        PROVE  w.occ[u].ix \in Allocatable
    BY <1>1, <1>4, <2>2, NameFacts DEF Registers
  <2>3. \A q \in TmpRegs : q \in w.tpool <=> \A u \in Values : w.occ[u] # InTmp(q)
    <3>1. \A q : \A u \in Values : w.occ[u] = InTmp(q) <=> m.occ[u] = InTmp(q)
      BY <1>3, <1>4, NameFacts, PlaceFacts
    <3> QED
      BY <1>1, <3>1 DEF Registers
  <2>4. ASSUME NEW t \in Values, NEW u \in Values, t # u, w.occ[u].ty = "tmp"
        PROVE  w.occ[t] # w.occ[u]
    <3>1. u # v /\ w.occ[u] = m.occ[u]
      BY <1>4, <2>4, NameFacts
    <3> QED
      BY <1>1, <1>4, <2>4, <3>1, NameFacts DEF Registers
  <2>5. ASSUME Single, NEW u \in Values, w.occ[u].ty = "float"
        PROVE  w.occ[u].ix \notin w.pool /\ \A t \in Values \ {u} : w.occ[t] # w.occ[u]
    <3>1. ASSUME NEW t \in Values, t # v PROVE w.occ[t] = m.occ[t] /\ m.occ[t] # InFloat(r)
      <4>1. w.occ[t] = m.occ[t]
        BY <1>4, <3>1, NameFacts
      <4>2. m.occ[t].ty = "float" => m.occ[t].ix \notin m.pool
        BY <1>1, <2>5 DEF Registers
      <4> QED
        BY <2>5, <4>1, <4>2, PlaceFacts
    <3>2. CASE u = v
      BY <1>4, <3>1, <3>2
    <3>3. CASE u # v
      <4>1. m.occ[u].ix \notin m.pool /\ \A t \in Values \ {u} : m.occ[t] # m.occ[u]
        BY <1>1, <2>5, <3>1, <3>3 DEF Registers
      <4>2. w.occ[u].ix \notin w.pool
        BY <3>1, <3>3, <4>1
      <4> QED
        BY <1>4, <3>1, <3>3, <4>1, <4>2
    <3> QED
      BY <3>2, <3>3
  <2>6. w.pool \subseteq Allocatable
    BY <1>1 DEF Registers
  <2> QED
    BY <2>1, <2>2, <2>3, <2>4, <2>5, <2>6 DEF Registers
<1>7. Holds(w, L)
  <2>1. ASSUME Plain, NEW k \in L PROVE Held(w, k) = k
    <3>1. CASE k = v
      BY <1>4, <2>1, <3>1 DEF Held
    <3>2. CASE k # v
      <4>1. Held(m, k) = k /\ k \in Names /\ Single
        BY <1>1, <2>1, <3>2 DEF Holds, Plain, Single
      <4>2. w.occ[k] = m.occ[k]
        BY <1>4, <3>2, <4>1
      <4>3. m.occ[k].ty = "float" => m.occ[k].ix \in FloatRegs \ {r}
        <5>1. ASSUME m.occ[k].ty = "float" PROVE m.occ[k].ix \in FloatRegs \ {r}
          <6>1. k \in Values
            BY <1>1, <4>1, <5>1, NameFacts, PlaceFacts DEF Tabled
          <6>2. m.occ[k].ix \in Allocatable /\ m.occ[k].ix \notin m.pool
            BY <1>1, <4>1, <5>1, <6>1 DEF Registers
          <6> QED
            BY <4>1, <6>2, FloatRegFacts
        <5> QED
          BY <5>1
      <4>4. Held(w, k) = Held(m, k)
        BY <4>2, <4>3 DEF Held
      <4> QED
        BY <4>1, <4>4
    <3> QED
      BY <3>1, <3>2
  <2> QED
    BY <1>1, <2>1 DEF Holds
<1> QED
  BY <1>5, <1>6, <1>7 DEF Fit

-----------------------------------------------------------------------------
(***************************************************************************)
(* getFreeFloat.                                                           *)
(***************************************************************************)

\* getFreeFloat leaves the manager fitting and a register in the pool, which
\* it returns; a compiler with a register for every value survives it.
LEMMA GetFreeFit ==
    ASSUME NEW m, NEW F, NEW T, NEW h, NEW K \in SUBSET Names,
           Fit(m, F, T, h, K), NEW first,
           Roomy => Cardinality(F) < FLOATCOUNT - 2
    PROVE  LET g == GetFreeFloat(m, first)
           IN  /\ Fit(g, F, T, h, K)
               /\ g.status = "ok" =>
                     /\ Took(m, g, {})
                     /\ g.got \in g.pool /\ g.got \in Allocatable
                     /\ g.cursor = (g.got + 1) % FLOATCOUNT
                     /\ g.freg = m.freg /\ g.treg = m.treg
                     /\ m.pool # {} => /\ g.pool = m.pool /\ g.occ = m.occ
                                       /\ g.got = Nearest(m.pool, m.cursor, FLOATCOUNT)
<1> DEFINE g == GetFreeFloat(m, first)
           near == Nearest(m.pool, m.cursor, FLOATCOUNT)
<1>1. m \in Sound /\ m \in Managers
  BY DEF Fit, Sound
<1>2. /\ m.pool \subseteq FloatRegs /\ m.cursor \in FloatRegs
      /\ m.occ \in [Names -> Places] /\ m.off \in Int
  BY <1>1, ManagerFields
<1>3. g \in Sound
  BY <1>1, GetFreeFloatType, GetFreeFloatApart DEF Sound
<1>4. CASE m.pool # {}
  <2>1. near \in m.pool
    <3>1. m.pool \subseteq 0 .. (FLOATCOUNT - 1) /\ m.cursor \in Nat
      BY <1>2, FloatRegFacts DEF FloatRegs
    <3> QED
      BY <1>4, <3>1, FloatRegFacts, NearestFree
  <2>2. g = [m EXCEPT !.got = near, !.cursor = (near + 1) % FLOATCOUNT]
    BY <1>4 DEF GetFreeFloat
  <2> HIDE DEF g, near
  <2>3. /\ g.got = near /\ g.cursor = (near + 1) % FLOATCOUNT
        /\ g.occ = m.occ /\ g.pool = m.pool /\ g.tpool = m.tpool /\ g.off = m.off
        /\ g.status = m.status /\ g.misread = m.misread
        /\ g.freg = m.freg /\ g.treg = m.treg /\ g.stk = m.stk
    BY <1>1, <2>2 DEF Managers
  <2>4. ASSUME m.status = "ok" PROVE Holds(g, K)
    <3>1. Holds(m, K)
      BY <2>4 DEF Fit
    <3>2. \A k \in K : Held(g, k) = Held(m, k)
      BY <2>3 DEF Held
    <3> QED
      BY <2>3, <3>1, <3>2 DEF Holds
  <2>5. Fit(g, F, T, h, K)
    <3>1. SameTable(m, g)
      BY <2>3 DEF SameTable
    <3> QED
      BY <1>3, <2>4, <3>1, MemFit
  <2>6. ASSUME g.status = "ok" PROVE Took(m, g, {}) /\ g.got \in Allocatable
    <3>1. m.pool \subseteq Allocatable
      BY SMTT(60), <2>3, <2>6 DEF Fit, Registers
    <3> QED
      BY <2>1, <2>3, <2>6, <3>1 DEF Took
  <2> QED
    BY <2>1, <2>3, <2>5, <2>6 DEF g, near
<1>5. CASE m.pool = {}
  <2>1. ~Roomy \/ m.status = "dead"
    <3>1. ASSUME Roomy, m.status = "ok" PROVE FALSE
      <4>1. Registers(m) /\ Tabled(m, F, T, h)
        BY <3>1 DEF Fit
      <4>2. F \in SUBSET Values /\ \A v \in Values : m.occ[v].ty = "float" => v \in F
        BY <4>1 DEF Tabled
      <4> QED
        BY <1>5, <3>1, <4>1, <4>2, PoolFree
    <3> QED
      BY <1>1, <3>1, ManagerFields
  <2>2. CASE m.status = "dead"
    <3>1. g.status = "dead"
      <4>1. ASSUME NEW n \in Names, m.occ[n] = InFloat(m.cursor)
            PROVE  PushOne(m, n).status = "dead" /\ PushOne(m, n) \in Managers
        <5>1. m.occ[n].ty = "float"
          BY <4>1, PlaceFacts
        <5> QED
          BY <1>1, <2>2, <5>1, PushOneFields, PushOneType
      <4>2. g.status = m.status
        <5>1. CASE g = Die(m)
          BY <1>1, <2>2, <5>1 DEF Die, Managers
        <5>2. ASSUME NEW n \in Names, m.occ[n] = InFloat(m.cursor),
                     g = [PushOne(m, n) EXCEPT !.got = m.cursor,
                                               !.cursor = (m.cursor + 1) % FLOATCOUNT]
              PROVE  g.status = m.status
          <6> HIDE DEF g
          <6> QED
            BY <2>2, <4>1, <5>2 DEF Managers
        <5> QED
          BY <1>1, <1>5, <5>1, <5>2, GetFreeFloatCases
      <4> QED
        BY <2>2, <4>2
    <3> QED
      BY <1>3, <2>2, <3>1 DEF Fit
  <2>3. CASE m.status = "ok" /\ g = Die(m)
    <3>1. g.status = "dead" /\ ~Roomy
      BY <1>1, <2>1, <2>3 DEF Die, Managers
    <3> QED
      BY <1>3, <3>1 DEF Fit
  <2>4. ASSUME m.status = "ok", NEW n \in Names, m.occ[n] = InFloat(m.cursor),
               g = [PushOne(m, n) EXCEPT !.got = m.cursor,
                                         !.cursor = (m.cursor + 1) % FLOATCOUNT]
        PROVE  /\ Fit(g, F, T, h, K)
               /\ Took(m, g, {})
               /\ g.got \in g.pool /\ g.got \in Allocatable
               /\ g.cursor = (g.got + 1) % FLOATCOUNT
               /\ g.freg = m.freg /\ g.treg = m.treg
    <3> DEFINE p == PushOne(m, n)
    <3>1. p \in Managers
      BY <1>1, PushOneType
    <3>2. /\ p.occ = [m.occ EXCEPT ![n] = OnStack(m.off)]
          /\ p.pool = m.pool \cup {m.cursor} /\ p.tpool = m.tpool
          /\ p.off = m.off - 1 /\ p.status = m.status /\ p.misread = m.misread
          /\ p.freg = m.freg /\ p.treg = m.treg
          /\ p.stk = [o \in Slots |-> IF o = m.off THEN Held(m, n) ELSE m.stk[o]]
      BY <1>1, <2>4, PushOneFields, PlaceFacts
    <3> HIDE DEF g, p
    <3>3. g = [p EXCEPT !.got = m.cursor, !.cursor = (m.cursor + 1) % FLOATCOUNT]
      BY <2>4 DEF p
    <3>4. /\ g.got = m.cursor /\ g.cursor = (m.cursor + 1) % FLOATCOUNT
          /\ g.occ = p.occ /\ g.pool = p.pool /\ g.tpool = p.tpool /\ g.off = p.off
          /\ g.status = p.status /\ g.misread = p.misread
          /\ g.freg = p.freg /\ g.treg = p.treg /\ g.stk = p.stk
      BY <3>1, <3>3 DEF Managers
    <3>5. Fit(g, F, T, h, K)
      <4>1. Spills(m, g, n, m.cursor)
        BY <1>2, <2>4, <3>2, <3>4 DEF Spills
      <4> QED
        BY <1>3, <2>4, <4>1, SpillFit
    <3>6. Took(m, g, {})
      <4>1. ASSUME NEW u \in Names
            PROVE  \/ g.occ[u] = m.occ[u]
                   \/ m.pool = {} /\ m.occ[u] = InFloat(m.cursor) /\ g.occ[u].ty = "off"
        BY <1>2, <1>5, <2>4, <3>2, <3>4, PlaceFacts
      <4> QED
        BY <1>5, <2>4, <3>2, <3>4, <4>1 DEF Took
    <3>7. m.cursor \in Allocatable
      <4>1. Registers(m) /\ Tabled(m, F, T, h)
        BY <2>4 DEF Fit
      <4>2. n \in Values
        BY <2>4, <4>1, NameFacts, PlaceFacts DEF Tabled
      <4> QED
        BY <2>4, <4>1, <4>2, PlaceFacts DEF Registers
    <3> QED
      BY <3>2, <3>4, <3>5, <3>6, <3>7
  <2> HIDE DEF near
  <2>5. \/ g = Die(m)
        \/ \E n \in Names : /\ m.occ[n] = InFloat(m.cursor)
                            /\ g = [PushOne(m, n) EXCEPT !.got = m.cursor,
                                       !.cursor = (m.cursor + 1) % FLOATCOUNT]
    BY <1>1, <1>5, GetFreeFloatCases
  <2> HIDE DEF g
  <2> QED
    BY <1>1, <1>5, <2>2, <2>3, <2>4, <2>5, ManagerFields DEF g
<1> QED
  BY <1>4, <1>5

-----------------------------------------------------------------------------
(***************************************************************************)
(* release.                                                                *)
(***************************************************************************)

LEMMA ReleaseFit ==
    ASSUME NEW m, NEW F, NEW T, NEW h, NEW K \in SUBSET Names,
           Fit(m, F, T, h, K), NEW S \in SUBSET Values
    PROVE  Fit(Release(m, S), F \ S, T \ S, h, K \ S)
<1> DEFINE w == Release(m, S)
<1>1. m \in Sound /\ m \in Managers /\ S \in SUBSET Names
  BY NameFacts DEF Fit, Sound
<1>2. w \in Sound
  BY <1>1, SoundRelease
<1>3. /\ w.occ = [n \in Names |-> IF n \in S THEN Nowhere ELSE m.occ[n]]
      /\ w.pool = m.pool \cup {m.occ[n].ix : n \in {s \in S : m.occ[s].ty = "float"}}
      /\ w.tpool = m.tpool \cup {m.occ[n].ix : n \in {s \in S : m.occ[s].ty = "tmp"}}
      /\ w.status = m.status /\ w.misread = m.misread
      /\ w.freg = m.freg /\ w.treg = m.treg /\ w.stk = m.stk
  BY <1>1, ReleaseFields
<1> HIDE DEF w
<1>4. /\ \A n \in S : w.occ[n] = Nowhere /\ w.occ[n].ty = "none"
      /\ \A n \in Names \ S : w.occ[n] = m.occ[n]
  BY <1>1, <1>3, PlaceFacts
<1>5. \A n \in Names : m.occ[n] \in Places
  BY <1>1, ManagerFields
<1>6. ASSUME m.status = "ok"
      PROVE  Tabled(w, F \ S, T \ S, h) /\ Registers(w) /\ Holds(w, K \ S)
  <2>0. Tabled(m, F, T, h) /\ Registers(m) /\ Holds(m, K)
    BY <1>6 DEF Fit
  <2>1. Tabled(w, F \ S, T \ S, h)
    <3>1. \A x \in Vars : w.occ[x] = m.occ[x]
      BY <1>4, NameFacts
    <3>2. ASSUME NEW u \in Values
          PROVE  /\ u \in F \ S <=> w.occ[u].ty \in {"float", "off"}
                 /\ u \in T \ S <=> w.occ[u].ty = "tmp"
      <4>1. CASE u \in S
        BY <4>1, <1>4
      <4>2. CASE u \notin S
        BY <4>2, <1>4, <2>0, NameFacts DEF Tabled
      <4> QED
        BY <4>1, <4>2
    <3> QED
      BY <2>0, <3>1, <3>2 DEF Tabled
  <2>2. \A v \in Values : w.occ[v].ty \in {"float", "tmp", "off"} =>
            v \notin S /\ w.occ[v] = m.occ[v]
    BY <1>4, NameFacts
  <2>3. w.pool \subseteq Allocatable
    BY <1>3, <2>0 DEF Registers
  <2>4. ASSUME NEW r \in Allocatable \ w.pool PROVE \E v \in Values : w.occ[v] = InFloat(r)
    <3>1. r \in Allocatable \ m.pool
      BY <1>3
    <3>2. PICK v \in Values : m.occ[v] = InFloat(r)
      BY <2>0, <3>1 DEF Registers
    <3>3. v \notin S
      BY <1>3, <3>2, PlaceFacts
    <3> QED
      BY <1>4, <3>2, <3>3, NameFacts
  <2>5. \A v \in Values : w.occ[v].ty = "float" => w.occ[v].ix \in Allocatable
    BY <2>0, <2>2 DEF Registers
  <2>6. ASSUME NEW r \in TmpRegs
        PROVE  r \in w.tpool <=> \A v \in Values : w.occ[v] # InTmp(r)
    <3>1. r \in m.tpool <=> \A v \in Values : m.occ[v] # InTmp(r)
      BY <2>0 DEF Registers
    <3>2. ASSUME NEW s \in S, m.occ[s].ty = "tmp", m.occ[s].ix = r, NEW v \in Values
          PROVE  w.occ[v] # InTmp(r)
      <4>1. m.occ[s] = InTmp(r)
        BY <1>1, <1>5, <3>2, PlaceFacts
      <4>2. CASE v = s
        BY <1>4, <4>2, PlaceFacts
      <4>3. CASE v # s
        <5>1. m.occ[v] # m.occ[s]
          BY <2>0, <3>2, <4>3 DEF Registers
        <5> QED
          BY <1>4, <4>1, <5>1, NameFacts, PlaceFacts
      <4> QED
        BY <4>2, <4>3
    <3>3. ASSUME r \in m.tpool, NEW v \in Values PROVE w.occ[v] # InTmp(r)
      BY <1>4, <3>1, <3>3, NameFacts, PlaceFacts
    <3>4. ASSUME r \notin w.tpool PROVE \E v \in Values : w.occ[v] = InTmp(r)
      <4>1. PICK v \in Values : m.occ[v] = InTmp(r)
        BY <1>3, <3>1, <3>4
      <4>2. v \notin S
        BY <1>3, <3>4, <4>1, PlaceFacts
      <4> QED
        BY <1>4, <4>1, <4>2, NameFacts
    <3>5. r \in w.tpool => r \in m.tpool \/ \E s \in S : m.occ[s].ty = "tmp" /\ m.occ[s].ix = r
      BY <1>3
    <3> QED
      BY <3>2, <3>3, <3>4, <3>5
  <2>7. ASSUME NEW u \in Values, NEW v \in Values, u # v, w.occ[v].ty = "tmp"
        PROVE  w.occ[u] # w.occ[v]
    <3>1. w.occ[v] = m.occ[v] /\ m.occ[u] # m.occ[v]
      BY <2>0, <2>2, <2>7 DEF Registers
    <3> QED
      BY <1>4, <2>7, <3>1, NameFacts
  <2>8. ASSUME Single, NEW v \in Values, w.occ[v].ty = "float"
        PROVE  w.occ[v].ix \notin w.pool /\ \A u \in Values \ {v} : w.occ[u] # w.occ[v]
    <3>1. v \notin S /\ w.occ[v] = m.occ[v]
      BY <2>2, <2>8
    <3>2. m.occ[v].ix \notin m.pool /\ \A u \in Values \ {v} : m.occ[u] # m.occ[v]
      BY <2>0, <2>8, <3>1 DEF Registers
    <3>3. ASSUME NEW s \in S, m.occ[s].ty = "float" PROVE m.occ[s].ix # m.occ[v].ix
      <4>1. m.occ[s] = InFloat(m.occ[s].ix) /\ m.occ[v] = InFloat(m.occ[v].ix)
        BY <1>1, <1>5, <2>8, <3>1, <3>3, NameFacts, PlaceFacts
      <4>2. m.occ[s] # m.occ[v]
        BY <3>1, <3>2
      <4> QED
        BY <4>1, <4>2
    <3>4. w.occ[v].ix \notin w.pool
      BY <1>3, <3>1, <3>2, <3>3
    <3>5. ASSUME NEW u \in Values \ {v} PROVE w.occ[u] # w.occ[v]
      BY <1>4, <2>8, <3>1, <3>2, NameFacts
    <3> QED
      BY <3>4, <3>5
  <2>9. Registers(w)
    BY <2>3, <2>4, <2>5, <2>6, <2>7, <2>8 DEF Registers
  <2>10. \A k \in K \ S : Held(w, k) = Held(m, k)
    BY <1>3, <1>4 DEF Held
  <2>11. Holds(w, K \ S)
    BY <1>3, <2>0, <2>10 DEF Holds
  <2> QED
    BY <2>1, <2>9, <2>11
<1>7. Fit(w, F \ S, T \ S, h, K \ S)
  BY <1>2, <1>3, <1>6 DEF Fit
<1> QED
  BY <1>7 DEF w

-----------------------------------------------------------------------------
(***************************************************************************)
(* allocReg, load, getReg and loadConst.                                   *)
(***************************************************************************)

\* A manager that is past saving fits.
LEMMA DeadFit ==
    ASSUME NEW m, NEW F, NEW T, NEW h, NEW K, Fit(m, F, T, h, K),
           NEW w \in Sound, w.status = m.status, m.status # "ok",
           NEW E, NEW U, NEW j, NEW L
    PROVE  Fit(w, E, U, j, L)
BY DEF Fit

LEMMA AllocFloatFit ==
    ASSUME NEW m, NEW F, NEW T, NEW h, NEW K \in SUBSET Names,
           Fit(m, F, T, h, K), NEW v \in Values, v \notin F \cup T, NEW first,
           Roomy => Cardinality(F) < FLOATCOUNT - 2
    PROVE  LET w == AllocFloat(m, v, first)
           IN  /\ Fit(w, F \cup {v}, T, h, K)
               /\ w.status = "ok" => Gets(m, w, v) /\ w.freg = m.freg
<1> DEFINE g == GetFreeFloat(m, first)
           w == AllocFloat(m, v, first)
<1>1. /\ Fit(g, F, T, h, K)
      /\ g.status = "ok" =>
            /\ Took(m, g, {})
            /\ g.got \in g.pool /\ g.got \in Allocatable
            /\ g.cursor = (g.got + 1) % FLOATCOUNT
            /\ g.freg = m.freg /\ g.treg = m.treg
            /\ m.pool # {} => g.got = Nearest(m.pool, m.cursor, FLOATCOUNT)
  BY GetFreeFit
<1>2. m \in Sound /\ v \in Names /\ g \in Sound /\ g \in Managers
  BY <1>1, NameFacts DEF Fit, Sound
<1>3. w \in Sound
  BY <1>2, SoundOps
<1>4. w = Occupy(g, InFloat(g.got), v)
  BY DEF AllocFloat
<1> HIDE DEF g, w
<1>6. w.status = g.status
  BY <1>2, <1>4 DEF Occupy, Managers
<1>7. CASE g.status # "ok"
  BY <1>1, <1>3, <1>6, <1>7, DeadFit DEF g, w
<1>8. CASE g.status = "ok"
  <2>1. g.occ[v] = Nowhere
    <3>1. g.occ[v].ty \notin {"float", "off", "tmp"} /\ g.occ[v] \in Places
      BY <1>1, <1>2, <1>8, ManagerFields DEF Fit, Tabled
    <3> QED
      BY <3>1, PlaceFacts
  <2>2. Occupies(g, w, v, g.got)
    BY <1>2, <1>4, <2>1, ManagerFields, OccupyFields
  <2>3. Binds(g, w, v, g.got)
    BY <2>2 DEF Binds, Occupies
  <2>4. ASSUME Plain, v \in K PROVE FALSE
    <3>1. Held(g, v) = v
      BY <1>1, <1>8, <2>4 DEF Fit, Holds
    <3> QED
      BY <1>2, <2>1, <3>1, NameFacts, PlaceFacts DEF Held
  <2>5. Fit(w, F \cup {v}, T, h, K)
    BY <1>1, <1>3, <1>8, <2>3, <2>4, BindFit
  <2>6. Took(m, w, {v})
    BY <1>1, <1>8, <2>2 DEF Took, Occupies
  <2>7. Gets(m, w, v) /\ w.freg = m.freg
    BY <1>1, <1>8, <2>2, <2>6, PlaceFacts DEF Gets, Occupies
  <2> QED
    BY <2>5, <2>7 DEF w
<1> QED
  BY <1>7, <1>8

LEMMA LoadFit ==
    ASSUME NEW m, NEW F, NEW T, NEW h, NEW K \in SUBSET Names,
           Fit(m, F, T, h, K), NEW v \in F \cap Values,
           m.status = "ok" => m.occ[v].ty = "off", NEW first,
           Roomy => Cardinality(F) < FLOATCOUNT - 2
    PROVE  LET w == Load(m, v, first)
           IN  /\ Fit(w, F, T, h, K)
               /\ w.status = "ok" => Gets(m, w, v)
<1> DEFINE g == GetFreeFloat(m, first)
           l == [g EXCEPT !.freg[g.got] = Held(g, v)]
           x == Release(l, {v})
           w == Occupy(x, InFloat(g.got), v)
<1>1. /\ Fit(g, F, T, h, K)
      /\ g.status = "ok" =>
            /\ Took(m, g, {})
            /\ g.got \in g.pool /\ g.got \in Allocatable
            /\ g.cursor = (g.got + 1) % FLOATCOUNT
            /\ g.freg = m.freg /\ g.treg = m.treg
            /\ m.pool # {} => g.got = Nearest(m.pool, m.cursor, FLOATCOUNT)
  BY GetFreeFit
<1>2. v \in Names /\ v \in Values /\ g \in Sound /\ g \in Managers
  BY <1>1, NameFacts DEF Fit, Sound
<1>3. Held(g, v) \in Contents
  BY <1>2, HeldType
<1>4. g.got \in FloatRegs /\ g.freg \in [FloatRegs -> Contents] /\ g.occ \in [Names -> Places]
  BY <1>2, ManagerFields
<1> HIDE DEF g
<1>5. l \in Sound /\ l \in Managers
  BY <1>2, <1>3, SoundFreg DEF Sound
<1>6. /\ l.occ = g.occ /\ l.pool = g.pool /\ l.tpool = g.tpool /\ l.off = g.off
      /\ l.cursor = g.cursor /\ l.status = g.status /\ l.misread = g.misread
      /\ l.freg = [g.freg EXCEPT ![g.got] = Held(g, v)]
      /\ l.treg = g.treg /\ l.stk = g.stk
  BY <1>2 DEF Managers
<1> HIDE DEF l
<1>7. x \in Sound /\ x \in Managers
  BY <1>2, <1>5, SoundRelease DEF Sound
<1>8. /\ x.occ = [n \in Names |-> IF n \in {v} THEN Nowhere ELSE l.occ[n]]
      /\ x.pool = l.pool \cup {l.occ[n].ix : n \in {s \in {v} : l.occ[s].ty = "float"}}
      /\ x.tpool = l.tpool \cup {l.occ[n].ix : n \in {s \in {v} : l.occ[s].ty = "tmp"}}
      /\ x.off = l.off /\ x.cursor = l.cursor
      /\ x.status = l.status /\ x.misread = l.misread
      /\ x.freg = l.freg /\ x.treg = l.treg /\ x.stk = l.stk
  <2>1. {v} \in SUBSET Names
    BY <1>2
  <2> QED
    BY <1>5, <2>1, ReleaseFields
<1> HIDE DEF x
<1>9. x.occ[v] = Nowhere
  BY <1>2, <1>8
<1>10. /\ InFloat(g.got) \in Places
       /\ InFloat(g.got).ty = "float" /\ InFloat(g.got).ix = g.got
  BY <1>4, PlaceTypes, PlaceFacts
<1>11. w \in Sound
  BY <1>2, <1>4, <1>7, OccupyType, OccupyRegApart, <1>10 DEF Sound
<1>13. w = Load(m, v, first) /\ w = Occupy(x, InFloat(g.got), v)
  BY DEF Load, w, x, l, g
<1> HIDE DEF w
<1>12. Occupies(x, w, v, g.got)
  BY <1>2, <1>4, <1>7, <1>9, <1>13, OccupyFields
<1>14. CASE g.status # "ok"
  BY <1>1, <1>6, <1>8, <1>11, <1>12, <1>13, <1>14, DeadFit DEF Occupies
<1>15. CASE g.status = "ok"
  <2>1. Fit(l, F, T, h, K)
    <3>1. Scratches(g, l, g.got)
      BY <1>4, <1>6 DEF Scratches, SameTable
    <3> QED
      BY <1>1, <1>4, <1>5, <1>15, <3>1, ScratchFit
  <2>2. Fit(x, F \ {v}, T \ {v}, h, K \ {v})
    <3>1. {v} \in SUBSET Values
      BY <1>2
    <3> QED
      BY <2>1, <3>1, ReleaseFit DEF x
  <2>3. m.occ[v].ty = "off" /\ m.status = "ok" /\ g.occ[v] = m.occ[v]
    <3>1. m.status = "ok" /\ (g.occ[v] = m.occ[v] \/ m.occ[v] = InFloat(m.cursor))
      BY <1>1, <1>2, <1>15 DEF Took
    <3> QED
      BY <3>1, PlaceFacts
  <2>4. x.pool = g.pool /\ x.tpool = g.tpool
    BY <1>6, <1>8, <2>3
  <2>5. w.occ[v] = InFloat(g.got) /\ \A u \in Names \ {v} : w.occ[u] = x.occ[u]
    BY <1>12 DEF Occupies
  <2>6. Binds(x, w, v, g.got)
    BY <1>12 DEF Binds, Occupies
  <2>7. w.freg[g.got] = Held(g, v)
    BY <1>4, <1>6, <1>8, <1>12 DEF Occupies
  <2>8. Plain /\ v \in K => Held(g, v) = v
    BY <1>1, <1>15 DEF Fit, Holds
  <2>9. v \notin T
    BY <1>1, <1>2, <1>15, <2>3 DEF Fit, Tabled
  <2>10. Fit(w, (F \ {v}) \cup {v}, T \ {v}, h, K)
    <3>1. K \in SUBSET ((K \ {v}) \cup {v}) /\ K \ {v} \in SUBSET Names
      OBVIOUS
    <3>2. v \notin (F \ {v}) \cup (T \ {v})
      OBVIOUS
    <3>3. x.status = "ok" /\ g.got \in x.pool /\ g.got \in Allocatable
      BY <1>1, <1>6, <1>8, <1>15, <2>4
    <3> QED
      BY <1>2, <1>11, <2>2, <2>6, <2>7, <2>8, <3>1, <3>2, <3>3, BindFit
  <2>11. Fit(w, F, T, h, K)
    <3>1. (F \ {v}) \cup {v} = F /\ T \ {v} = T
      BY <2>9
    <3> QED
      BY <2>10, <3>1
  <2>12. \A u \in Names \ {v} : w.occ[u] = g.occ[u]
    BY <1>6, <1>8, <2>5
  <2>13. Took(m, w, {v})
    BY <1>1, <1>6, <1>8, <1>12, <1>15, <2>12 DEF Took, Occupies
  <2>14. Gets(m, w, v)
    BY <1>1, <1>4, <1>6, <1>8, <1>10, <1>12, <1>15, <2>5, <2>13 DEF Gets, Occupies
  <2> QED
    BY <1>13, <2>11, <2>14
<1> QED
  BY <1>14, <1>15

\* getReg of a value that is somewhere.
LEMMA GetRegFit ==
    ASSUME NEW m, NEW F, NEW T, NEW h, NEW K \in SUBSET Names,
           Fit(m, F, T, h, K), NEW v \in F \cap Values, NEW first,
           Roomy => Cardinality(F) < FLOATCOUNT - 2
    PROVE  LET w == GetReg(m, v, first)
           IN  /\ Fit(w, F, T, h, K)
               /\ w.status = "ok" => /\ w.occ[v].ty = "float"
                                     /\ w = m \/ (m.occ[v].ty = "off" /\ Gets(m, w, v))
<1>1. CASE m.occ[v].ty = "off"
  <2> DEFINE w == Load(m, v, first)
  <2>1. w = GetReg(m, v, first)
    BY <1>1 DEF GetReg
  <2>2. Fit(w, F, T, h, K) /\ (w.status = "ok" => Gets(m, w, v))
    BY <1>1, LoadFit
  <2> HIDE DEF w
  <2> QED
    BY <1>1, <2>1, <2>2 DEF Gets
<1>2. CASE m.occ[v].ty # "off"
  <2>1. GetReg(m, v, first) = m
    BY <1>2 DEF GetReg
  <2>2. m.status = "ok" => m.occ[v].ty = "float"
    BY <1>2 DEF Fit, Tabled
  <2> QED
    BY <2>1, <2>2
<1> QED
  BY <1>1, <1>2

\* loadConst gives a constant a register of its own, once; anything else
\* that is somewhere is looked up.
LEMMA LoadConstFit ==
    ASSUME NEW m, NEW F, NEW T, NEW h, NEW K \in SUBSET Names,
           Fit(m, F, T, h, K), NEW v \in Values, NEW isConst \in BOOLEAN, NEW first,
           isConst => v \notin F \cup T, ~isConst => v \in F \cap K,
           Roomy => Cardinality(F) < FLOATCOUNT - 2
    PROVE  LET w == LoadConst(m, v, isConst, first)
           IN  /\ Fit(w, F \cup {v}, T, h, K \cup {v})
               /\ w.status = "ok" =>
                     /\ w.occ[v].ty = "float"
                     /\ \/ w = m /\ ~isConst
                        \/ Gets(m, w, v) /\ (isConst \/ m.occ[v].ty = "off")
<1> DEFINE g == GetFreeFloat(m, first)
           l == [g EXCEPT !.freg[g.got] = v]
           w == Occupy(l, InFloat(g.got), v)
<1>1. CASE ~isConst
  <2>1. LoadConst(m, v, isConst, first) = GetReg(m, v, first)
    BY <1>1 DEF LoadConst
  <2>2. F \cup {v} = F /\ K \cup {v} = K /\ v \in F \cap Values
    BY <1>1
  <2> QED
    BY <1>1, <2>1, <2>2, GetRegFit
<1>2. CASE isConst
  <2>1. /\ Fit(g, F, T, h, K)
        /\ g.status = "ok" =>
              /\ Took(m, g, {})
              /\ g.got \in g.pool /\ g.got \in Allocatable
              /\ g.cursor = (g.got + 1) % FLOATCOUNT
              /\ g.freg = m.freg /\ g.treg = m.treg
              /\ m.pool # {} => g.got = Nearest(m.pool, m.cursor, FLOATCOUNT)
    BY GetFreeFit
  <2>2. v \in Names /\ v \in Contents /\ g \in Sound /\ g \in Managers
    BY <2>1, NameFacts DEF Fit, Sound
  <2>3. g.got \in FloatRegs /\ g.freg \in [FloatRegs -> Contents] /\ g.occ \in [Names -> Places]
    BY <2>2, ManagerFields
  <2> HIDE DEF g
  <2>4. l \in Sound /\ l \in Managers
    BY <2>2, SoundFreg DEF Sound
  <2>5. /\ l.occ = g.occ /\ l.pool = g.pool /\ l.tpool = g.tpool /\ l.off = g.off
        /\ l.cursor = g.cursor /\ l.status = g.status /\ l.misread = g.misread
        /\ l.freg = [g.freg EXCEPT ![g.got] = v]
        /\ l.treg = g.treg /\ l.stk = g.stk
    BY <2>2 DEF Managers
  <2> HIDE DEF l
  <2>6. /\ InFloat(g.got) \in Places
        /\ InFloat(g.got).ty = "float" /\ InFloat(g.got).ix = g.got
    BY <2>3, PlaceTypes, PlaceFacts
  <2>7. w \in Sound
    BY <2>2, <2>3, <2>4, OccupyType, OccupyRegApart, <2>6 DEF Sound
  <2>9. w = LoadConst(m, v, isConst, first) /\ w = Occupy(l, InFloat(g.got), v)
    BY <1>2 DEF LoadConst, w, l, g
  <2> HIDE DEF w
  <2>8. w.status = l.status
    BY <2>4, <2>9 DEF Occupy, Managers
  <2>10. CASE g.status # "ok"
    BY <2>1, <2>5, <2>7, <2>8, <2>9, <2>10, DeadFit
  <2>11. CASE g.status = "ok"
    <3>1. g.occ[v] = Nowhere
      <4>1. g.occ[v].ty \notin {"float", "off", "tmp"} /\ g.occ[v] \in Places
        BY <1>2, <2>1, <2>2, <2>3, <2>11 DEF Fit, Tabled
      <4> QED
        BY <4>1, PlaceFacts
    <3>2. Occupies(l, w, v, g.got)
      BY <2>2, <2>3, <2>4, <2>5, <2>9, <3>1, OccupyFields
    <3>3. Binds(g, w, v, g.got)
      BY <2>3, <2>5, <3>2 DEF Binds, Occupies
    <3>4. w.freg[g.got] = v
      BY <2>3, <2>5, <3>2 DEF Occupies
    <3>5. Fit(w, F \cup {v}, T, h, K \cup {v})
      BY <1>2, <2>1, <2>7, <2>11, <3>3, <3>4, BindFit
    <3>6. Took(m, w, {v})
      BY <2>1, <2>5, <2>11, <3>2 DEF Took, Occupies
    <3>7. Gets(m, w, v)
      BY <2>1, <2>3, <2>5, <2>6, <2>11, <3>2, <3>6 DEF Gets, Occupies
    <3>8. w.occ[v].ty = "float"
      BY <3>7 DEF Gets
    <3> QED
      BY <1>2, <2>9, <3>5, <3>7, <3>8
  <2> QED
    BY <2>10, <2>11
<1> QED
  BY <1>1, <1>2

-----------------------------------------------------------------------------
(***************************************************************************)
(* Integer registers, variables and the end of a handler.                  *)
(***************************************************************************)

\* A name is written where it is.
LEMMA UpdateFit ==
    ASSUME NEW m, NEW w \in Sound, NEW F, NEW T, NEW h, NEW K \in SUBSET Names,
           Fit(m, F, T, h, K), NEW n \in Names, Updates(m, w, n)
    PROVE  Fit(w, F, T, h, K \cup {n})
<1>0. SameTable(m, w)
  BY DEF Updates
<1>1. ASSUME m.status = "ok" PROVE Holds(w, K \cup {n})
  <2>1. /\ m \in Managers /\ Apart(m, 0)
        /\ Tabled(m, F, T, h) /\ Registers(m) /\ Holds(m, K)
    BY <1>1 DEF Fit, Sound
  <2>2. ASSUME Plain, NEW k \in K, k # n PROVE Held(w, k) = k
    <3>1. Held(m, k) = k /\ Single /\ Slots = Int
      BY <2>1, <2>2 DEF Holds, Plain, Single
    <3>2. /\ m.occ[k] \in Places /\ w.occ[k] = m.occ[k]
          /\ m.occ[n] \in Places
      BY <1>0, <2>1, ManagerFields DEF SameTable
    <3>3. m.occ[k].ty \in {"float", "tmp"} => k \in Values
      BY <2>1, NameFacts DEF Tabled
    <3>4. n \in Vars => m.occ[n].ty \notin {"float", "tmp"}
      BY <2>1 DEF Tabled
    <3>5. m.occ[k].ty # "none" => m.occ[n] # m.occ[k]
      <4>1. CASE m.occ[k].ty \in {"float", "tmp"} /\ n \in Vars
        BY <3>4, <4>1
      <4>2. CASE m.occ[k].ty \in {"float", "tmp"} /\ n \in Values
        BY <2>1, <2>2, <3>1, <3>3, <4>2 DEF Registers
      <4>3. CASE m.occ[k].ty = "off"
        BY <2>1, <2>2, <4>3 DEF Apart
      <4> QED
        BY <3>2, <4>1, <4>2, <4>3, NameFacts, PlaceFacts
    <3>6. m.occ[k].ty = "float" => w.freg[m.occ[k].ix] = m.freg[m.occ[k].ix]
      BY <3>2, <3>5, PlaceFacts DEF Updates
    <3>7. m.occ[k].ty = "tmp" => w.treg[m.occ[k].ix] = m.treg[m.occ[k].ix]
      BY <3>2, <3>5, PlaceFacts DEF Updates
    <3>8. m.occ[k].ty = "off" => w.stk[m.occ[k].ix] = m.stk[m.occ[k].ix]
      BY <3>1, <3>2, <3>5, PlaceFacts DEF Updates
    <3>9. Held(w, k) = Held(m, k)
      BY <3>2, <3>6, <3>7, <3>8 DEF Held
    <3> QED
      BY <3>1, <3>9
  <2> QED
    BY <2>1, <2>2 DEF Holds, Updates
<1> QED
  BY <1>0, <1>1, MemFit

\* The push of one value in a float register.
LEMMA PushOneFit ==
    ASSUME NEW m, NEW F, NEW T, NEW h, NEW K \in SUBSET Names,
           Fit(m, F, T, h, K), NEW v \in Values,
           m.status = "ok" => m.occ[v].ty = "float"
    PROVE  LET w == PushOne(m, v)
           IN  /\ Fit(w, F, T, h, K)
               /\ w.status = m.status
               /\ m.status = "ok" => Spills(m, w, v, m.occ[v].ix) /\ w.off = m.off - 1
<1> DEFINE w == PushOne(m, v)
<1>1. m \in Sound /\ m \in Managers /\ v \in Names
  BY NameFacts DEF Fit, Sound
<1>2. w \in Sound
  BY <1>1, SoundOps
<1>3. w.status = m.status
  <2> DEFINE rank == [u \in {v} |-> 0]
  <2> HIDE DEF rank
  <2>2. Push(m, {v}, rank).status = m.status
    BY <1>1 DEF Push, Release, Managers
  <2> QED
    BY <2>2 DEF PushOne, rank
<1> HIDE DEF w
<1>4. CASE m.status # "ok"
  BY <1>2, <1>3, <1>4, DeadFit DEF w
<1>5. CASE m.status = "ok"
  <2>1. /\ w.occ = [m.occ EXCEPT ![v] = OnStack(m.off)]
        /\ w.pool = m.pool \cup {m.occ[v].ix} /\ w.tpool = m.tpool
        /\ w.off = m.off - 1 /\ w.cursor = m.cursor /\ w.got = m.got
        /\ w.status = m.status /\ w.misread = m.misread
        /\ w.freg = m.freg /\ w.treg = m.treg
        /\ w.stk = [o \in Slots |-> IF o = m.off THEN Held(m, v) ELSE m.stk[o]]
    BY <1>1, <1>5, PushOneFields DEF w
  <2>2. m.occ \in [Names -> Places] /\ m.occ[v] = InFloat(m.occ[v].ix)
    BY <1>1, <1>5, ManagerFields, PlaceFacts
  <2>3. Spills(m, w, v, m.occ[v].ix)
    BY <1>1, <2>1, <2>2 DEF Spills
  <2>4. Fit(w, F, T, h, K)
    BY <1>1, <1>2, <1>5, <2>3, SpillFit
  <2> QED
    BY <1>3, <2>1, <2>3, <2>4 DEF w
<1> QED
  BY <1>4, <1>5

\* The first integer register a value gets.
LEMMA AllocTmpFit ==
    ASSUME NEW m, NEW F, NEW h, NEW K \in SUBSET Names,
           Fit(m, F, {}, h, K), NEW v \in Values, v \notin F
    PROVE  LET w == AllocTmp(m, v)
           IN  /\ Fit(w, F, {v}, h, K)
               /\ w.status = m.status
               /\ m.status = "ok" => w.occ[v].ty = "tmp" /\ w.freg = m.freg
<1> DEFINE r == Nearest(m.tpool, m.tcursor, TMPCOUNT)
           g == [m EXCEPT !.tcursor = (r + 1) % TMPCOUNT]
           p == InTmp(r)
           w == AllocTmp(m, v)
<1>1. m \in Sound /\ m \in Managers /\ v \in Names
  BY NameFacts DEF Fit, Sound
<1>2. w \in Sound
  BY <1>1, SoundOps
<1>3. CASE m.status # "ok"
  <2>1. m.status = "dead"
    BY <1>1, <1>3, ManagerFields
  <2>2. g.status = "dead" /\ Die(m).status = "dead"
    BY <1>1, <2>1 DEF Managers, Die
  <2>3. Occupy(g, p, v).status = g.status
    <3> HIDE DEF g
    <3> QED
      BY <1>1 DEF Occupy, g, Managers
  <2>4. w.status = "dead"
    BY <2>2, <2>3 DEF AllocTmp
  <2> HIDE DEF w
  <2>5. Fit(w, F, {v}, h, K)
    BY <1>2, <1>3, <2>1, <2>4, DeadFit
  <2> QED
    BY <1>3, <2>1, <2>4, <2>5 DEF w
<1>4. CASE m.status = "ok"
  <2>0. /\ Tabled(m, F, {}, h) /\ Registers(m) /\ Holds(m, K)
        /\ m.occ \in [Names -> Places]
    BY <1>1, <1>4, ManagerFields DEF Fit
  <2>1. m.tpool = TmpRegs
    <3>1. \A u \in Values : m.occ[u].ty # "tmp"
      BY <2>0 DEF Tabled
    <3>2. \A q \in TmpRegs : q \in m.tpool
      BY <2>0, <3>1, PlaceFacts DEF Registers
    <3> QED
      BY <1>1, <3>2, ManagerFields
  <2>2. r \in TmpRegs /\ m.tpool # {}
    <3>1. m.tpool \subseteq 0 .. (TMPCOUNT - 1) /\ m.tcursor \in Nat
      BY <1>1, ManagerFields, MachineAssumption DEF TmpRegs
    <3>2. m.tpool # {}
      BY <2>1, MachineAssumption DEF TmpRegs
    <3> QED
      BY <2>1, <3>1, <3>2, MachineAssumption, NearestFree
  <2>3. w = Occupy(g, p, v)
    BY <2>2 DEF AllocTmp
  <2> HIDE DEF r
  <2>4. /\ g.occ = m.occ /\ g.pool = m.pool /\ g.tpool = m.tpool /\ g.off = m.off
        /\ g.status = m.status /\ g.misread = m.misread
        /\ g.freg = m.freg /\ g.treg = m.treg /\ g.stk = m.stk /\ g \in Managers
    BY <1>1, <2>2, FloatRegFacts DEF Managers
  <2>5. p.ty = "tmp" /\ p.ix = r
    BY PlaceFacts
  <2>6. m.occ[v] = Nowhere
    BY <1>1, <2>0, ManagerFields, PlaceFacts DEF Tabled
  <2> HIDE DEF p, g, w
  <2>7. /\ w.occ = [m.occ EXCEPT ![v] = p]
        /\ w.pool = m.pool /\ w.tpool = m.tpool \ {r}
        /\ w.status = m.status /\ w.misread = m.misread
        /\ w.freg = m.freg /\ w.treg = m.treg /\ w.stk = m.stk
    BY <2>3, <2>4, <2>5, <2>6 DEF Occupy, Managers
  <2>8. w.occ[v] = p /\ \A u \in Names \ {v} : w.occ[u] = m.occ[u]
    BY <1>1, <2>0, <2>7
  <2>9. Tabled(w, F, {v}, h)
    <3>1. \A x \in Vars : w.occ[x] = m.occ[x]
      BY <2>8, NameFacts
    <3>2. ASSUME NEW u \in Values
          PROVE  /\ u \in F <=> w.occ[u].ty \in {"float", "off"}
                 /\ u \in {v} <=> w.occ[u].ty = "tmp"
      <4>1. CASE u = v
        BY <2>5, <2>8, <4>1
      <4>2. CASE u # v
        BY <2>0, <2>8, <4>2, NameFacts DEF Tabled
      <4> QED
        BY <4>1, <4>2
    <3> QED
      BY <2>0, <3>1, <3>2 DEF Tabled
  <2>10. Registers(w)
    <3>1. \A u \in Values : m.occ[u].ty # "tmp"
      BY <2>0 DEF Tabled
    <3>2. ASSUME NEW q \in Allocatable \ w.pool PROVE \E u \in Values : w.occ[u] = InFloat(q)
      <4>1. PICK u \in Values : m.occ[u] = InFloat(q)
        BY <2>0, <2>7 DEF Registers
      <4>2. u # v
        BY <2>6, <4>1, PlaceFacts
      <4> QED
        BY <2>8, <4>1, <4>2, NameFacts
    <3>3. \A u \in Values : w.occ[u].ty = "float" => u # v /\ w.occ[u] = m.occ[u]
      BY <2>5, <2>8, NameFacts
    <3>4. ASSUME NEW q \in TmpRegs
          PROVE  q \in w.tpool <=> \A u \in Values : w.occ[u] # InTmp(q)
      <4>1. \A u \in Values : w.occ[u] = InTmp(q) <=> u = v /\ q = r
        BY <2>5, <2>8, <3>1, NameFacts, PlaceFacts DEF p
      <4> QED
        BY <2>1, <2>7, <4>1
    <3>5. ASSUME NEW t \in Values, NEW u \in Values, t # u, w.occ[u].ty = "tmp"
          PROVE  w.occ[t] # w.occ[u]
      BY <2>8, <3>1, <3>5, NameFacts
    <3>6. ASSUME Single, NEW u \in Values, w.occ[u].ty = "float"
          PROVE  w.occ[u].ix \notin w.pool /\ \A t \in Values \ {u} : w.occ[t] # w.occ[u]
      <4>1. u # v /\ w.occ[u] = m.occ[u]
        BY <3>3, <3>6
      <4>2. m.occ[u].ix \notin m.pool /\ \A t \in Values \ {u} : m.occ[t] # m.occ[u]
        BY <2>0, <3>6, <4>1 DEF Registers
      <4> QED
        BY <2>5, <2>7, <2>8, <3>6, <4>1, <4>2, NameFacts
    <3> QED
      BY <2>0, <2>7, <3>2, <3>3, <3>4, <3>5, <3>6 DEF Registers
  <2>11. Holds(w, K)
    <3>1. ASSUME Plain, NEW k \in K PROVE Held(w, k) = k
      <4>1. Held(m, k) = k
        BY <2>0, <3>1 DEF Holds
      <4>2. k # v
        BY <1>1, <2>6, <4>1, NameFacts, PlaceFacts DEF Held
      <4>3. Held(w, k) = Held(m, k)
        BY <2>7, <2>8, <4>2 DEF Held
      <4> QED
        BY <4>1, <4>3
    <3> QED
      BY <2>0, <2>7, <3>1 DEF Holds
  <2>12. Fit(w, F, {v}, h, K)
    BY <1>2, <1>4, <2>7, <2>9, <2>10, <2>11 DEF Fit, w
  <2> QED
    BY <2>5, <2>7, <2>8, <2>12 DEF w
<1> QED
  BY <1>3, <1>4

\* The homes j are the homes h and word o for x.
Extends(h, j, x, o) ==
    h[x] = Nowhere /\ j[x] = OnStack(o) /\ \A y \in Vars \ {x} : j[y] = h[y]

\* What the handler of AllocaInst leaves.
Declared(m, x) == LET a == AllocMem(m, x) IN [a EXCEPT !.stk[a.occ[x].ix] = x]

\* The variables are declared one word under another.
LEMMA AllocMemFit ==
    ASSUME NEW m, NEW F, NEW T, NEW h, NEW K \in SUBSET Names,
           Fit(m, F, T, h, K), m.status = "ok", NEW x \in Vars,
           NEW j, Extends(h, j, x, m.off)
    PROVE  /\ Fit(Declared(m, x), F, T, j, K \cup {x})
           /\ Declared(m, x).off = m.off - 1 /\ Declared(m, x).status = "ok"
<1> DEFINE a == AllocMem(m, x)
           w == [a EXCEPT !.stk[a.occ[x].ix] = x]
           g == [m EXCEPT !.off = m.off - 1]
           p == OnStack(m.off)
<1>0. h[x] = Nowhere /\ j[x] = p /\ \A y \in Vars \ {x} : j[y] = h[y]
  BY DEF Extends
<1>1. /\ m \in Sound /\ m \in Managers /\ x \in Names /\ x \in Contents
      /\ m.off \in Int /\ m.occ \in [Names -> Places] /\ m.stk \in [Slots -> Contents]
  BY NameFacts, ManagerFields DEF Fit, Sound
<1>2. Tabled(m, F, T, h) /\ Registers(m) /\ Holds(m, K) /\ Apart(m, 0)
  BY DEF Fit, Sound
<1>3. m.occ[x] = Nowhere
  BY <1>0, <1>2 DEF Tabled
<1>4. a = Occupy(g, p, x)
  BY DEF AllocMem
<1>5. a \in Sound /\ a \in Managers
  BY <1>1, SoundOps DEF Sound
<1>6. p.ty = "off" /\ p.ix = m.off
  BY PlaceFacts
<1>7. /\ g.occ = m.occ /\ g.pool = m.pool /\ g.tpool = m.tpool /\ g.off = m.off - 1
      /\ g.status = m.status /\ g.misread = m.misread
      /\ g.freg = m.freg /\ g.treg = m.treg /\ g.stk = m.stk /\ g \in Managers
  BY <1>1 DEF Managers
<1> HIDE DEF p, g, a
<1>8. /\ a.occ = [m.occ EXCEPT ![x] = p]
      /\ a.pool = m.pool /\ a.tpool = m.tpool /\ a.off = m.off - 1
      /\ a.status = m.status /\ a.misread = m.misread
      /\ a.freg = m.freg /\ a.treg = m.treg /\ a.stk = m.stk
  BY <1>3, <1>4, <1>6, <1>7 DEF Occupy, Managers
<1>9. a.occ[x] = p /\ \A u \in Names \ {x} : a.occ[u] = m.occ[u]
  BY <1>1, <1>8
<1>10. w \in Sound
  BY <1>1, <1>5, SoundStk
<1>11. /\ w.occ = a.occ /\ w.pool = a.pool /\ w.tpool = a.tpool /\ w.off = a.off
       /\ w.status = a.status /\ w.misread = a.misread
       /\ w.freg = a.freg /\ w.treg = a.treg /\ w.stk = [a.stk EXCEPT ![m.off] = x]
  BY <1>5, <1>6, <1>9 DEF Managers
<1> HIDE DEF w
<1>12. Tabled(w, F, T, j)
  <2>1. \A y \in Vars : w.occ[y] = j[y] /\ j[y].ty \in {"none", "off"}
    <3>1. \A y \in Vars \ {x} : w.occ[y] = h[y] /\ j[y] = h[y]
      BY <1>0, <1>2, <1>9, <1>11, NameFacts DEF Tabled
    <3>2. w.occ[x] = p /\ j[x] = p
      BY <1>0, <1>9, <1>11
    <3> QED
      BY <1>2, <1>6, <3>1, <3>2 DEF Tabled
  <2>2. \A v \in Values : w.occ[v] = m.occ[v]
    BY <1>9, <1>11, NameFacts
  <2> QED
    BY <1>2, <2>1, <2>2 DEF Tabled
<1>13. Registers(w)
  <2>1. \A v \in Values : w.occ[v] = m.occ[v]
    BY <1>9, <1>11, NameFacts
  <2> QED
    BY <1>2, <1>8, <1>11, <2>1 DEF Registers
<1>14. Holds(w, K \cup {x})
  <2>1. ASSUME Plain, NEW k \in K \cup {x} PROVE Held(w, k) = k
    <3>0. Slots = Int
      BY <2>1 DEF Plain
    <3>1. CASE k = x
      <4>1. w.occ[x] = p /\ w.stk[m.off] = x
        BY <1>1, <1>8, <1>9, <1>11, <3>0
      <4> QED
        BY <1>1, <1>6, <3>0, <3>1, <4>1 DEF Held
    <3>2. CASE k # x
      <4>1. Held(m, k) = k /\ w.occ[k] = m.occ[k] /\ k \in Names
        BY <1>2, <1>9, <1>11, <2>1, <3>2 DEF Holds
      <4>2. m.occ[k].ty = "off" => m.occ[k].ix \in Int /\ m.occ[k].ix > m.off
        BY <1>1, <1>2, <4>1, WordsAbove
      <4>3. m.occ[k].ty = "off" => w.stk[m.occ[k].ix] = m.stk[m.occ[k].ix]
        BY <1>1, <1>8, <1>11, <3>0, <4>2
      <4>4. Held(w, k) = Held(m, k)
        BY <1>8, <1>11, <4>1, <4>3 DEF Held
      <4> QED
        BY <4>1, <4>4
    <3> QED
      BY <3>1, <3>2
  <2> QED
    BY <1>2, <1>8, <1>11, <2>1 DEF Holds
<1>15. Fit(w, F, T, j, K \cup {x})
  BY <1>8, <1>10, <1>11, <1>12, <1>13, <1>14 DEF Fit
<1> QED
  BY <1>8, <1>11, <1>15 DEF w, a, Declared

\* After exit(1) or undefined behaviour nothing is left.
Gone(m) == ~m.misread /\ \A n \in Names : m.occ[n] = Nowhere

\* The end of a handler forgets the values that are dead.
LEMMA SettleFit ==
    ASSUME NEW m, NEW F, NEW T, NEW h, NEW K \in SUBSET Names,
           Fit(m, F, T, h, K), NEW live, K \cap Values \subseteq live
    PROVE  LET w == Settle(m, live)
           IN  /\ Fit(w, F, T, h, K)
               /\ w.status = m.status
               /\ m.status = "dead" => Gone(w)
               /\ m.status = "ok" =>
                     /\ w.occ = m.occ /\ w.off = m.off /\ w.misread = m.misread
                     /\ \A o \in Slots : m.stk[o] \notin Values \ live => w.stk[o] = m.stk[o]
<1> DEFINE keep(c) == IF c \in Values \ live THEN Junk ELSE c
           f == [r \in FloatRegs |-> keep(m.freg[r])]
           t == [r \in TmpRegs |-> keep(m.treg[r])]
           s == [o \in Slots |-> keep(m.stk[o])]
           w == Settle(m, live)
<1>1. m \in Sound /\ m \in Managers
  BY DEF Fit, Sound
<1>2. w \in Sound
  BY <1>1, SoundSettle
<1>3. CASE m.status # "ok"
  <2>1. m.status = "dead"
    BY <1>1, <1>3, ManagerFields
  <2>2. w = Die(FreshFrame)
    BY <2>1 DEF Settle
  <2> HIDE DEF w
  <2>3. w.status = "dead" /\ Gone(w)
    BY <2>2 DEF Die, FreshFrame, Gone
  <2> QED
    BY <1>2, <1>3, <2>1, <2>3, DeadFit DEF w
<1>4. CASE m.status = "ok"
  <2>1. w = [m EXCEPT !.got = F0, !.freg = f, !.treg = t, !.stk = s]
    BY <1>4 DEF Settle
  <2> HIDE DEF w, f, t, s
  <2>2. /\ w.occ = m.occ /\ w.pool = m.pool /\ w.tpool = m.tpool /\ w.off = m.off
        /\ w.status = m.status /\ w.misread = m.misread
        /\ w.freg = f /\ w.treg = t /\ w.stk = s
    BY <1>1, <2>1 DEF Managers
  <2>3. SameTable(m, w)
    BY <2>2 DEF SameTable
  <2>4. \A o \in Slots : m.stk[o] \notin Values \ live => w.stk[o] = m.stk[o]
    BY <2>2 DEF s
  <2>5. Holds(w, K)
    <3>1. ASSUME Plain, NEW k \in K PROVE Held(w, k) = k
      <4>1. Held(m, k) = k /\ k \notin Values \ live /\ k # Junk /\ Slots = Int
        BY <1>4, <3>1, NameFacts DEF Fit, Holds, Plain
      <4>2. m.occ[k] \in Places /\ w.occ[k] = m.occ[k]
        BY <1>1, <2>2, ManagerFields
      <4>3. CASE m.occ[k].ty = "float"
        <5>1. m.occ[k].ix \in FloatRegs /\ m.freg[m.occ[k].ix] = k
          BY <4>1, <4>2, <4>3, PlaceFacts DEF Held
        <5>2. w.freg[m.occ[k].ix] = k
          BY <2>2, <4>1, <5>1 DEF f
        <5> QED
          BY <4>2, <4>3, <5>2 DEF Held
      <4>4. CASE m.occ[k].ty = "tmp"
        <5>1. m.occ[k].ix \in TmpRegs /\ m.treg[m.occ[k].ix] = k
          BY <4>1, <4>2, <4>4, PlaceFacts DEF Held
        <5>2. w.treg[m.occ[k].ix] = k
          BY <2>2, <4>1, <5>1 DEF t
        <5> QED
          BY <4>2, <4>4, <5>2 DEF Held
      <4>5. CASE m.occ[k].ty = "off"
        <5>1. m.occ[k].ix \in Slots /\ m.stk[m.occ[k].ix] = k
          BY <4>1, <4>2, <4>5, PlaceFacts DEF Held
        <5>2. w.stk[m.occ[k].ix] = k
          BY <2>4, <4>1, <5>1
        <5> QED
          BY <4>2, <4>5, <5>1, <5>2 DEF Held
      <4>6. CASE m.occ[k].ty = "none"
        BY <4>1, <4>6 DEF Held
      <4> QED
        BY <4>2, <4>3, <4>4, <4>5, <4>6, PlaceFacts
    <3> QED
      BY <1>4, <2>2, <3>1 DEF Fit, Holds
  <2>6. Fit(w, F, T, h, K)
    BY <1>2, <2>3, <2>5, MemFit
  <2> QED
    BY <1>4, <2>2, <2>4, <2>6 DEF w
<1> QED
  BY <1>3, <1>4

\* A fresh frame holds nothing.
LEMMA FreshFit == Fit(FreshFrame, {}, {}, [x \in Vars |-> Nowhere], {})
<1> DEFINE w == FreshFrame
<1>1. w \in Sound
  BY FreshFrameType, FreshApart DEF Sound
<1>2. /\ w.occ = [n \in Names |-> Nowhere] /\ w.pool = Allocatable /\ w.tpool = TmpRegs
      /\ w.status = "ok" /\ w.misread = FALSE
  BY DEF FreshFrame
<1> HIDE DEF w
<1>3. \A n \in Names : w.occ[n] = Nowhere /\ w.occ[n].ty = "none"
  BY <1>2, PlaceFacts
<1>4. Tabled(w, {}, {}, [x \in Vars |-> Nowhere])
  BY <1>3, NameFacts, PlaceFacts DEF Tabled
<1>5. Registers(w)
  BY <1>2, <1>3, NameFacts, PlaceFacts DEF Registers
<1> QED
  BY <1>1, <1>2, <1>4, <1>5 DEF Fit, Holds, w

\* Unary plus binds its result to its operand's register.
LEMMA RebindFit ==
    ASSUME NEW m, NEW F, NEW T, NEW h, NEW K \in SUBSET Names,
           Fit(m, F, T, h, K), m.status = "ok", ~Single,
           NEW u \in Values, NEW v \in Values, v \notin F \cup T, m.occ[u].ty = "float"
    PROVE  LET w == Occupy(m, m.occ[u], v)
           IN  /\ Fit(w, F \cup {v}, T, h, K)
               /\ w.status = "ok" /\ w.occ[v] = m.occ[u]
<1> DEFINE r == m.occ[u].ix
           w == Occupy(m, m.occ[u], v)
<1>1. /\ m \in Sound /\ m \in Managers /\ u \in Names /\ v \in Names
      /\ m.occ \in [Names -> Places]
  BY NameFacts, ManagerFields DEF Fit, Sound
<1>2. w.status = "ok"
  BY <1>1 DEF Occupy, Managers
<1>3. Tabled(m, F, T, h) /\ Registers(m)
  BY DEF Fit
<1>4. r \in Allocatable /\ r \in FloatRegs /\ m.occ[u] = InFloat(r)
  BY <1>1, <1>3, FloatRegFacts, PlaceFacts DEF Registers
<1>5. m.occ[v] = Nowhere
  BY <1>1, <1>3, PlaceFacts DEF Tabled
<1>6. w \in Sound
  BY <1>1, <1>4, OccupyType, OccupyRegApart DEF Sound
<1>7. Occupies(m, w, v, r)
  BY <1>1, <1>4, <1>5, OccupyFields
<1> HIDE DEF w
<1>8. Binds(m, w, v, r) /\ w.occ[v] = m.occ[u]
  BY <1>4, <1>7 DEF Binds, Occupies
<1>9. ~Plain
  BY DEF Plain, Single
<1>10. Fit(w, F \cup {v}, T, h, K)
  BY <1>4, <1>6, <1>8, <1>9, BindFit
<1> QED
  BY <1>2, <1>8, <1>10 DEF w

\* The push of nothing.
LEMMA PushNone ==
    ASSUME NEW m \in Managers, NEW rank
    PROVE  LET w == Push(m, {}, rank)
           IN  /\ w.occ = m.occ /\ w.pool = m.pool /\ w.tpool = m.tpool
               /\ w.misread = m.misread /\ w.freg = m.freg /\ w.treg = m.treg
               /\ w.stk = m.stk
<1>1. m.occ \in [Names -> Places] /\ m.stk \in [Slots -> Contents]
  BY ManagerFields
<1> DEFINE g == Release(m, {})
           w == Push(m, {}, rank)
<1>2. /\ g.occ = m.occ /\ g.pool = m.pool /\ g.tpool = m.tpool /\ g.misread = m.misread
      /\ g.freg = m.freg /\ g.treg = m.treg /\ g.stk = m.stk
  <2>1. g.occ = [n \in Names |-> IF n \in {} THEN Nowhere ELSE m.occ[n]]
    BY DEF Release, Managers
  <2>2. g.occ = m.occ
    BY <1>1, <2>1
  <2> QED
    BY <2>2 DEF Release, Managers
<1>3. g \in Managers
  BY ReleaseType
<1> HIDE DEF g
<1>4. w = [g EXCEPT !.occ = [n \in Names |-> IF n \in {} THEN OnStack(m.off - rank[n])
                                              ELSE g.occ[n]],
                    !.stk = [o \in Slots |-> IF \E n \in {} : o = m.off - rank[n]
                                THEN Held(m, CHOOSE n \in {} : o = m.off - rank[n])
                                ELSE g.stk[o]],
                    !.off = g.off - Cardinality({})]
  BY DEF Push, g
<1> HIDE DEF w
<1>5. /\ w.occ = [n \in Names |-> g.occ[n]] /\ w.stk = [o \in Slots |-> g.stk[o]]
      /\ w.pool = g.pool /\ w.tpool = g.tpool /\ w.misread = g.misread
      /\ w.freg = g.freg /\ w.treg = g.treg
  BY <1>3, <1>4 DEF Managers
<1> QED
  BY <1>1, <1>2, <1>5 DEF w

\* The end of a block, at which no value is left.
LEMMA EndBlockFit ==
    ASSUME NEW m, NEW h, NEW K \in SUBSET Vars, Fit(m, {}, {}, h, K), EndBlock(m)
    PROVE  /\ Fit(mgr', {}, {}, h, K)
           /\ mgr'.status = m.status
           /\ m.status = "dead" => Gone(mgr')
<1>1. m \in Sound /\ m \in Managers /\ K \in SUBSET Names /\ K \cap Values = {}
  BY NameFacts DEF Fit, Sound
<1>2. PICK rank \in Ranks(InRegister(m)) : Finish(Push(m, InRegister(m), rank))
  BY DEF EndBlock
<1> DEFINE w == Push(m, InRegister(m), rank)
<1>3. InRegister(m) \in SUBSET Names /\ rank \in [InRegister(m) -> Int]
  <2>1. InRegister(m) \in SUBSET Names
    BY DEF InRegister
  <2>2. rank \in [InRegister(m) -> Int]
    BY <1>2 DEF Ranks
  <2> QED
    BY <2>1, <2>2
<1>4. w \in Sound
  BY <1>1, <1>2, <1>3, PushType, PushApart DEF Sound
<1>5. w.status = m.status
  BY <1>1 DEF Push, Release, Managers
<1>6. Fit(w, {}, {}, h, K)
  <2>1. CASE m.status # "ok"
    <3> HIDE DEF w
    <3> QED
      BY <1>4, <1>5, <2>1, DeadFit
  <2>2. CASE m.status = "ok"
    <3>1. Tabled(m, {}, {}, h) /\ Holds(m, K) /\ m.occ \in [Names -> Places]
      BY <1>1, <2>2, ManagerFields DEF Fit
    <3>2. InRegister(m) = {}
      BY <3>1, NameFacts DEF Tabled, InRegister
    <3>4. /\ w.occ = m.occ /\ w.pool = m.pool /\ w.tpool = m.tpool /\ w.misread = m.misread
          /\ w.freg = m.freg /\ w.treg = m.treg /\ w.stk = m.stk
      BY <1>1, <3>1, <3>2, PushNone
    <3> HIDE DEF w
    <3>5. SameTable(m, w)
      BY <1>5, <3>4 DEF SameTable
    <3>6. Holds(w, K)
      BY <3>1, <3>4 DEF Holds, Held
    <3> QED
      BY <1>4, <3>5, <3>6, MemFit
  <2> QED
    BY <2>1, <2>2
<1> HIDE DEF w
<1>7. mgr' = Settle(w, Ran(stack'))
  BY <1>2 DEF Finish, w
<1> QED
  BY <1>1, <1>5, <1>6, <1>7, SettleFit
=============================================================================
