---------------------------- MODULE ManagerProofs ----------------------------
(***************************************************************************)
(* Lemmas about the operators of MipsManager, each stated once and cited   *)
(* by the proofs about Translator.                                         *)
(***************************************************************************)
EXTENDS MipsManager, FiniteSetTheorems, WellFoundedInduction, TLAPS

-----------------------------------------------------------------------------
(***************************************************************************)
(* The round-robin search.                                                 *)
(***************************************************************************)

\* A non-empty set of naturals has a least element.
LEMMA LeastNat ==
    ASSUME NEW T, T \subseteq Nat, T # {}
    PROVE  \E x \in T : \A y \in T : x <= y
<1>1. PICK x \in T : \A y \in T : ~ (<<y, x>> \in OpToRel(<, Nat))
  BY WFMin, NatLessThanWellFounded
<1>2. \A y \in T : ~ (y < x)
  BY <1>1 DEF OpToRel
<1> QED
  BY <1>2

\* The register found is no farther from the cursor than any other free one.
LEMMA NearestLeast ==
    ASSUME NEW count \in Nat \ {0}, NEW pool, pool \subseteq 0 .. (count - 1),
           pool # {}, NEW cursor \in Nat
    PROVE  /\ Nearest(pool, cursor, count) \in pool
           /\ \A s \in pool : (Nearest(pool, cursor, count) - cursor) % count
                                  <= (s - cursor) % count
<1> DEFINE D(r) == (r - cursor) % count
           T == {D(r) : r \in pool}
<1>1. \A r \in pool : D(r) \in Nat
  OBVIOUS
<1>2. PICK x \in T : \A y \in T : x <= y
  <2>1. T \subseteq Nat /\ T # {}
    BY <1>1
  <2> HIDE DEF T
  <2> QED
    BY <2>1, LeastNat
<1>3. \E r \in pool : \A s \in pool : D(r) <= D(s)
  BY <1>2
<1> QED
  BY <1>3 DEF Nearest

\* getFreeFloat and getFreeTmp find a free register whenever there is one:
\* the loop over count indices from the cursor reaches a member of the pool.
LEMMA NearestFree ==
    ASSUME NEW count \in Nat \ {0}, NEW pool, pool \subseteq 0 .. (count - 1),
           pool # {}, NEW cursor \in Nat
    PROVE  Nearest(pool, cursor, count) \in pool
BY NearestLeast

-----------------------------------------------------------------------------
(***************************************************************************)
(* Type correctness of the operators.                                      *)
(***************************************************************************)

LEMMA PlaceTypes ==
    /\ Nowhere \in Places
    /\ \A r \in FloatRegs : InFloat(r) \in Places
    /\ \A r \in TmpRegs : InTmp(r) \in Places
    /\ \A o \in Int : OnStack(o) \in Places
BY DEF Places, Nowhere, InFloat, InTmp, OnStack

\* The names are finite in number, so every loop over some of them counts.
LEMMA NamesFinite ==
    \A S : S \subseteq Names => IsFiniteSet(S) /\ Cardinality(S) \in Nat
BY NameAssumption, FS_Union, FS_Subset, FS_CardinalityType DEF Names

LEMMA HeldType ==
    ASSUME NEW m \in Managers, NEW n \in Names
    PROVE  Held(m, n) \in Contents
<1>1. m.occ[n] \in Places /\ Junk \in Contents
  BY DEF Managers, Contents
<1> QED
  BY <1>1 DEF Held, Places, Managers

LEMMA OccupyType ==
    ASSUME NEW m \in Managers, NEW p \in Places, NEW n \in Names
    PROVE  Occupy(m, p, n) \in Managers
BY DEF Occupy, Managers

LEMMA ReleaseType ==
    ASSUME NEW m \in Managers, NEW S \in SUBSET Names
    PROVE  Release(m, S) \in Managers
<1> DEFINE f == {m.occ[n].ix : n \in {s \in S : m.occ[s].ty = "float"}}
           t == {m.occ[n].ix : n \in {s \in S : m.occ[s].ty = "tmp"}}
<1>1. f \subseteq FloatRegs /\ t \subseteq TmpRegs
  BY DEF Managers, Places
<1>2. [n \in Names |-> IF n \in S THEN Nowhere ELSE m.occ[n]] \in [Names -> Places]
  BY PlaceTypes DEF Managers
<1> HIDE DEF f, t
<1>3. [m EXCEPT !.pool = m.pool \cup f, !.tpool = m.tpool \cup t,
                !.occ = [n \in Names |-> IF n \in S THEN Nowhere ELSE m.occ[n]]] \in Managers
  BY <1>1, <1>2 DEF Managers
<1> QED
  BY <1>3 DEF Release, f, t

LEMMA PushType ==
    ASSUME NEW m \in Managers, NEW S \in SUBSET Names, NEW rank \in [S -> Int]
    PROVE  Push(m, S, rank) \in Managers
<1> DEFINE o1 == [n \in Names |-> IF n \in S THEN OnStack(m.off - rank[n])
                                             ELSE Release(m, S).occ[n]]
           s1 == [o \in Slots |-> IF \E n \in S : o = m.off - rank[n]
                                  THEN Held(m, CHOOSE n \in S : o = m.off - rank[n])
                                  ELSE Release(m, S).stk[o]]
<1>1. Release(m, S) \in Managers
  BY ReleaseType
<1>2. o1 \in [Names -> Places]
  BY <1>1, PlaceTypes DEF Managers
<1>3. s1 \in [Slots -> Contents]
  BY <1>1, HeldType DEF Managers
<1>4. Release(m, S).off - Cardinality(S) \in Int
  BY <1>1, NamesFinite DEF Managers
<1> HIDE DEF o1, s1
<1>5. [Release(m, S) EXCEPT !.occ = o1, !.stk = s1,
                            !.off = Release(m, S).off - Cardinality(S)] \in Managers
  BY <1>1, <1>2, <1>3, <1>4 DEF Managers
<1> QED
  BY <1>5 DEF Push, o1, s1

LEMMA PushOneType ==
    ASSUME NEW m \in Managers, NEW n \in Names
    PROVE  PushOne(m, n) \in Managers
BY PushType DEF PushOne

LEMMA FloatRegFacts ==
    /\ FLOATCOUNT \in Nat \ {0}
    /\ F0 \in FloatRegs /\ F12 \in FloatRegs
    /\ Allocatable \subseteq FloatRegs
    /\ \A r \in FloatRegs : (r + 1) % FLOATCOUNT \in FloatRegs
    /\ \A r \in TmpRegs : (r + 1) % TMPCOUNT \in TmpRegs
BY MachineAssumption DEF FloatRegs, TmpRegs, Allocatable, F0

\* The three outcomes of getFreeFloat: a register of the pool, one whose
\* occupant was pushed, or the end of the compiler.
LEMMA GetFreeFloatCases ==
    ASSUME NEW m \in Managers, NEW first
    PROVE  \/ \E r \in m.pool :
                  GetFreeFloat(m, first) =
                      [m EXCEPT !.got = r, !.cursor = (r + 1) % FLOATCOUNT]
           \/ /\ m.pool = {}
              /\ \E n \in Names :
                    /\ m.occ[n] = InFloat(m.cursor)
                    /\ GetFreeFloat(m, first) =
                          [PushOne(m, n) EXCEPT !.got = m.cursor,
                                                !.cursor = (m.cursor + 1) % FLOATCOUNT]
           \/ m.pool = {} /\ GetFreeFloat(m, first) = Die(m)
<1> DEFINE same   == {n \in Names : m.occ[n].ty # "none" /\ m.occ[n].ix = m.cursor}
           victim == IF first \in same THEN first ELSE CHOOSE n \in same : TRUE
           near   == Nearest(m.pool, m.cursor, FLOATCOUNT)
<1>1. CASE m.pool # {}
  <2>1. m.pool \subseteq 0 .. (FLOATCOUNT - 1) /\ m.cursor \in Nat
    BY FloatRegFacts DEF Managers, FloatRegs
  <2>2. near \in m.pool
    BY SMTT(60), <1>1, <2>1, FloatRegFacts, NearestFree
  <2> QED
    BY <1>1, <2>2 DEF GetFreeFloat
<1>2. CASE m.pool = {} /\ same # {} /\ m.occ[victim].ty = "float"
  <2>1. victim \in same
    BY <1>2
  <2>2. victim \in Names /\ m.occ[victim] \in Places /\ m.occ[victim].ix = m.cursor
    BY SMTT(60), <2>1 DEF Managers
  <2>3. m.occ[victim] = InFloat(m.cursor)
    BY <1>2, <2>2 DEF Places, InFloat
  <2>4. GetFreeFloat(m, first) =
            [PushOne(m, victim) EXCEPT !.got = m.cursor,
                                       !.cursor = (m.cursor + 1) % FLOATCOUNT]
    BY SMTT(60), <1>2 DEF GetFreeFloat
  <2> QED
    BY <1>2, <2>2, <2>3, <2>4
<1>3. CASE m.pool = {} /\ ~ (same # {} /\ m.occ[victim].ty = "float")
  BY <1>3 DEF GetFreeFloat
<1> QED
  BY <1>1, <1>2, <1>3

LEMMA FreshFrameType == FreshFrame \in Managers
<1>1. 0 \in FloatRegs /\ 0 \in TmpRegs /\ F0 \in FloatRegs
  BY MachineAssumption DEF FloatRegs, TmpRegs, F0
<1>2. /\ [n \in Names |-> Nowhere] \in [Names -> Places]
      /\ [r \in FloatRegs |-> Junk] \in [FloatRegs -> Contents]
      /\ [r \in TmpRegs |-> Junk] \in [TmpRegs -> Contents]
      /\ [o \in Slots |-> Junk] \in [Slots -> Contents]
  BY PlaceTypes DEF Contents
<1> QED
  BY <1>1, <1>2, FloatRegFacts DEF FreshFrame, Managers

LEMMA DieType ==
    ASSUME NEW m \in Managers
    PROVE  Die(m) \in Managers
BY DEF Die, Managers

LEMMA GetFreeFloatType ==
    ASSUME NEW m \in Managers, NEW first
    PROVE  GetFreeFloat(m, first) \in Managers
<1>1. ASSUME NEW r \in m.pool
      PROVE  [m EXCEPT !.got = r, !.cursor = (r + 1) % FLOATCOUNT] \in Managers
  BY FloatRegFacts DEF Managers
<1>2. ASSUME NEW n \in Names
      PROVE  [PushOne(m, n) EXCEPT !.got = m.cursor,
                                   !.cursor = (m.cursor + 1) % FLOATCOUNT] \in Managers
  BY FloatRegFacts, PushOneType DEF Managers
<1>3. CASE \E r \in m.pool : GetFreeFloat(m, first) =
                 [m EXCEPT !.got = r, !.cursor = (r + 1) % FLOATCOUNT]
  <2>1. PICK r \in m.pool : GetFreeFloat(m, first) =
                 [m EXCEPT !.got = r, !.cursor = (r + 1) % FLOATCOUNT]
    BY <1>3
  <2> QED
    BY <2>1, <1>1, Zenon
<1>4. CASE \E n \in Names : GetFreeFloat(m, first) =
                 [PushOne(m, n) EXCEPT !.got = m.cursor,
                                       !.cursor = (m.cursor + 1) % FLOATCOUNT]
  <2>1. PICK n \in Names : GetFreeFloat(m, first) =
                 [PushOne(m, n) EXCEPT !.got = m.cursor,
                                       !.cursor = (m.cursor + 1) % FLOATCOUNT]
    BY <1>4
  <2> QED
    BY <2>1, <1>2, Zenon
<1>5. CASE GetFreeFloat(m, first) = Die(m)
  BY <1>5, DieType
<1> QED
  BY <1>3, <1>4, <1>5, GetFreeFloatCases, Zenon

LEMMA AllocFloatType ==
    ASSUME NEW m \in Managers, NEW v \in Names, NEW first
    PROVE  AllocFloat(m, v, first) \in Managers
<1>1. GetFreeFloat(m, first) \in Managers
  BY GetFreeFloatType
<1>2. InFloat(GetFreeFloat(m, first).got) \in Places
  BY <1>1, PlaceTypes DEF Managers
<1> QED
  BY <1>1, <1>2, OccupyType DEF AllocFloat

LEMMA AllocTmpType ==
    ASSUME NEW m \in Managers, NEW v \in Names
    PROVE  AllocTmp(m, v) \in Managers
<1> DEFINE r == Nearest(m.tpool, m.tcursor, TMPCOUNT)
           g == [m EXCEPT !.tcursor = (r + 1) % TMPCOUNT]
<1>1. CASE m.tpool = {}
  BY <1>1, DieType DEF AllocTmp
<1>2. CASE m.tpool # {}
  <2>1. r \in TmpRegs
    <3>1. m.tpool \subseteq 0 .. (TMPCOUNT - 1) /\ m.tcursor \in Nat
      BY MachineAssumption DEF Managers, TmpRegs
    <3>2. r \in m.tpool
      BY <1>2, <3>1, MachineAssumption, NearestFree
    <3> QED
      BY <3>2 DEF Managers
  <2>2. g \in Managers
    BY <2>1, FloatRegFacts DEF Managers
  <2>3. InTmp(r) \in Places
    BY <2>1, PlaceTypes
  <2> QED
    BY <1>2, <2>2, <2>3, OccupyType DEF AllocTmp
<1> QED
  BY <1>1, <1>2

LEMMA AllocMemType ==
    ASSUME NEW m \in Managers, NEW x \in Names
    PROVE  AllocMem(m, x) \in Managers
<1>1. [m EXCEPT !.off = m.off - 1] \in Managers
  BY DEF Managers
<1>2. OnStack(m.off) \in Places
  BY PlaceTypes DEF Managers
<1> QED
  BY <1>1, <1>2, OccupyType DEF AllocMem

LEMMA WriteFloatType ==
    ASSUME NEW m \in Managers, NEW r, NEW v \in Names, NEW right
    PROVE  WriteFloat(m, r, v, right) \in Managers
<1>1. (IF right THEN v ELSE Junk) \in Contents
  BY DEF Contents
<1>2. [m.freg EXCEPT ![r] = IF right THEN v ELSE Junk] \in [FloatRegs -> Contents]
  BY <1>1 DEF Managers
<1>3. (m.misread \/ ~right) \in BOOLEAN
  OBVIOUS
<1> QED
  BY <1>2, <1>3 DEF WriteFloat, Managers

\* A register is written with a content.
LEMMA FregType ==
    ASSUME NEW m \in Managers, NEW r, NEW c \in Contents
    PROVE  [m EXCEPT !.freg[r] = c] \in Managers
BY DEF Managers

\* A temporary register is written.
LEMMA TregType ==
    ASSUME NEW m \in Managers, NEW r, NEW v \in Contents, NEW right
    PROVE  [m EXCEPT !.treg[r] = IF right THEN v ELSE Junk,
                     !.misread = m.misread \/ ~right] \in Managers
<1>1. (IF right THEN v ELSE Junk) \in Contents
  BY DEF Contents
<1> QED
  BY <1>1 DEF Managers

\* A word of the frame is written with a content.
LEMMA StkType ==
    ASSUME NEW m \in Managers, NEW o, NEW c \in Contents, NEW d \in Int, NEW right
    PROVE  /\ [m EXCEPT !.stk[o] = c] \in Managers
           /\ [m EXCEPT !.stk[o] = c, !.off = d] \in Managers
           /\ [m EXCEPT !.stk[o] = c, !.misread = m.misread \/ ~right] \in Managers
BY DEF Managers

LEMMA LoadType ==
    ASSUME NEW m \in Managers, NEW v \in Names, NEW first
    PROVE  Load(m, v, first) \in Managers
<1> DEFINE g == GetFreeFloat(m, first)
           l == [g EXCEPT !.freg[g.got] = Held(g, v)]
<1>1. g \in Managers
  BY GetFreeFloatType
<1>2. l \in Managers
  BY <1>1, FregType, HeldType
<1>3. Release(l, {v}) \in Managers
  BY <1>2, ReleaseType
<1>4. InFloat(g.got) \in Places
  BY <1>1, PlaceTypes DEF Managers
<1> QED
  BY <1>3, <1>4, OccupyType DEF Load

LEMMA GetRegType ==
    ASSUME NEW m \in Managers, NEW v \in Names, NEW first
    PROVE  GetReg(m, v, first) \in Managers
BY LoadType DEF GetReg

LEMMA LoadConstType ==
    ASSUME NEW m \in Managers, NEW v \in Names, NEW isConst, NEW first
    PROVE  LoadConst(m, v, isConst, first) \in Managers
<1> DEFINE g == GetFreeFloat(m, first)
<1>1. g \in Managers /\ v \in Contents
  BY GetFreeFloatType DEF Contents
<1>2. [g EXCEPT !.freg[g.got] = v] \in Managers /\ InFloat(g.got) \in Places
  BY <1>1, FregType, PlaceTypes DEF Managers
<1>3. Occupy([g EXCEPT !.freg[g.got] = v], InFloat(g.got), v) \in Managers
  BY <1>2, OccupyType
<1> QED
  BY <1>3, GetRegType DEF LoadConst

-----------------------------------------------------------------------------
(***************************************************************************)
(* No operator lets two names share a word of the frame.                   *)
(***************************************************************************)

\* Only the table and the cursor matter.
LEMMA ApartFrame ==
    ASSUME NEW m, NEW w, NEW d, Apart(m, d), w.occ = m.occ, w.off = m.off
    PROVE  Apart(w, d)
BY DEF Apart

LEMMA OccupyApart ==
    ASSUME NEW m \in Managers, NEW p \in Places, NEW n \in Names, Apart(m, 0),
           p.ty = "off" => /\ p.ix > m.off
                           /\ \A u \in Names : m.occ[u] # p
    PROVE  Apart(Occupy(m, p, n), 0)
<1> DEFINE w == Occupy(m, p, n)
<1>1. w.off = m.off
  BY DEF Occupy, Managers
<1>2. w.occ = IF m.occ[n] = Nowhere THEN [m.occ EXCEPT ![n] = p] ELSE m.occ
  BY DEF Occupy, Managers
<1>3. CASE m.occ[n] # Nowhere
  BY <1>1, <1>2, <1>3, ApartFrame
<1>4. CASE m.occ[n] = Nowhere
  <2> HIDE DEF w
  <2>1. w.occ = [m.occ EXCEPT ![n] = p] /\ m.occ \in [Names -> Places]
    BY <1>2, <1>4 DEF Managers
  <2>2. w.occ[n] = p /\ \A u \in Names \ {n} : w.occ[u] = m.occ[u]
    BY <2>1
  <2>3. ASSUME NEW u \in Names, w.occ[u].ty = "off"
        PROVE  /\ w.occ[u].ix > w.off + 0
               /\ \A t \in Names \ {u} : w.occ[t] # w.occ[u]
    <3>1. m.off \in Int
      BY DEF Managers
    <3>2. CASE u = n
      BY <3>1, <3>2, <2>2, <2>3, <1>1
    <3>3. CASE u # n
      BY <3>1, <3>3, <2>2, <2>3, <1>1 DEF Apart
    <3> QED
      BY <3>2, <3>3
  <2> QED
    BY <2>3 DEF Apart, w
<1> QED
  BY <1>3, <1>4

\* Binding a register is always harmless.
LEMMA OccupyRegApart ==
    ASSUME NEW m \in Managers, NEW r, NEW n \in Names, Apart(m, 0)
    PROVE  /\ r \in FloatRegs => Apart(Occupy(m, InFloat(r), n), 0)
           /\ r \in TmpRegs => Apart(Occupy(m, InTmp(r), n), 0)
BY OccupyApart, PlaceTypes DEF InFloat, InTmp

LEMMA ReleaseApart ==
    ASSUME NEW m \in Managers, NEW S \in SUBSET Names, NEW d, Apart(m, d)
    PROVE  Apart(Release(m, S), d)
<1> DEFINE w == Release(m, S)
<1>1. w.off = m.off /\ w.occ = [n \in Names |-> IF n \in S THEN Nowhere ELSE m.occ[n]]
  BY DEF Release, Managers
<1> HIDE DEF w
<1>2. Nowhere.ty # "off"
  BY DEF Nowhere
<1>3. Apart(w, d)
  BY <1>1, <1>2 DEF Apart
<1> QED
  BY <1>3 DEF w

LEMMA PushApart ==
    ASSUME NEW m \in Managers, NEW S \in SUBSET Names, NEW rank \in Ranks(S), Apart(m, 0)
    PROVE  Apart(Push(m, S, rank), 0)
<1> DEFINE w == Push(m, S, rank)
<1>0. /\ rank \in [S -> 0 .. (Cardinality(S) - 1)] /\ Cardinality(S) \in Nat
      /\ \A a, b \in S : rank[a] = rank[b] => a = b
  BY NamesFinite DEF Ranks
<1>1. /\ w.off = m.off - Cardinality(S)
      /\ w.occ = [n \in Names |-> IF n \in S THEN OnStack(m.off - rank[n]) ELSE m.occ[n]]
  <2>1. Release(m, S).off = m.off
    BY DEF Release, Managers
  <2>2. \A n \in Names \ S : Release(m, S).occ[n] = m.occ[n]
    BY DEF Release, Managers
  <2>3. Release(m, S) \in Managers
    BY ReleaseType
  <2>4. w.off = m.off - Cardinality(S)
    BY <2>1, <2>3 DEF Push, Managers
  <2>5. w.occ = [n \in Names |-> IF n \in S THEN OnStack(m.off - rank[n])
                                            ELSE Release(m, S).occ[n]]
    BY <2>3 DEF Push, Managers
  <2> QED
    BY <2>2, <2>4, <2>5
<1> HIDE DEF w
<1>2. m.off \in Int /\ m.occ \in [Names -> Places]
  BY DEF Managers
<1>3. ASSUME NEW n \in Names, w.occ[n].ty = "off"
      PROVE  /\ w.occ[n].ix > w.off + 0
             /\ \A u \in Names \ {n} : w.occ[u] # w.occ[n]
  <2>1. CASE n \in S
    <3>1. w.occ[n] = OnStack(m.off - rank[n]) /\ rank[n] \in 0 .. (Cardinality(S) - 1)
      BY <2>1, <1>0, <1>1
    <3>2. w.occ[n].ix = m.off - rank[n]
      BY <3>1 DEF OnStack
    <3>3. ASSUME NEW u \in Names \ {n} PROVE w.occ[u] # w.occ[n]
      <4>1. CASE u \in S
        <5>1. w.occ[u].ix = m.off - rank[u] /\ rank[u] \in 0 .. (Cardinality(S) - 1)
          BY <4>1, <1>0, <1>1 DEF OnStack
        <5>2. rank[u] # rank[n]
          BY <4>1, <2>1, <1>0, <3>3
        <5> QED
          BY <5>1, <5>2, <3>1, <3>2, <1>0, <1>2
      <4>2. CASE u \notin S
        <5>1. w.occ[u] = m.occ[u]
          BY <4>2, <1>1
        <5>2. m.occ[u].ty = "off" => m.occ[u].ix > m.off
          BY <1>2 DEF Apart
        <5>3. w.occ[n].ix <= m.off
          BY <3>1, <3>2, <1>0, <1>2
        <5>4. m.occ[u].ix \in Int
          BY <1>2 DEF Places, FloatRegs, TmpRegs
        <5> QED
          BY <5>1, <5>2, <5>3, <5>4, <1>2, <1>3
      <4> QED
        BY <4>1, <4>2
    <3> QED
      BY <3>1, <3>2, <3>3, <1>0, <1>1, <1>2
  <2>2. CASE n \notin S
    <3>1. w.occ[n] = m.occ[n] /\ m.occ[n].ix > m.off
      BY <2>2, <1>1, <1>2, <1>3 DEF Apart
    <3>2. m.occ[n].ix \in Int
      BY <1>2 DEF Places, FloatRegs, TmpRegs
    <3>3. ASSUME NEW u \in Names \ {n} PROVE w.occ[u] # w.occ[n]
      <4>1. CASE u \in S
        <5>1. w.occ[u].ix = m.off - rank[u] /\ rank[u] \in 0 .. (Cardinality(S) - 1)
          BY <4>1, <1>0, <1>1 DEF OnStack
        <5> QED
          BY <5>1, <3>1, <3>2, <1>0, <1>2
      <4>2. CASE u \notin S
        BY <4>2, <1>1, <2>2, <1>3 DEF Apart
      <4> QED
        BY <4>1, <4>2
    <3> QED
      BY <3>1, <3>2, <3>3, <1>0, <1>1, <1>2
  <2> QED
    BY <2>1, <2>2
<1>4. Apart(w, 0)
  BY <1>3 DEF Apart
<1> QED
  BY <1>4 DEF w

LEMMA PushOneApart ==
    ASSUME NEW m \in Managers, NEW n \in Names, Apart(m, 0)
    PROVE  Apart(PushOne(m, n), 0)
<1> DEFINE rank == [u \in {n} |-> 0]
<1>1. Cardinality({n}) = 1
  BY FS_Singleton
<1>2. rank \in Ranks({n})
  BY <1>1 DEF Ranks
<1> QED
  BY <1>2, PushApart DEF PushOne

\* Two fields of no account for Apart change with every getFreeFloat.
LEMMA TakeApart ==
    ASSUME NEW m \in Managers, NEW r, NEW c, Apart(m, 0)
    PROVE  Apart([m EXCEPT !.got = r, !.cursor = c], 0)
<1> DEFINE w == [m EXCEPT !.got = r, !.cursor = c]
<1>1. w.occ = m.occ /\ w.off = m.off
  BY DEF Managers
<1> QED
  BY <1>1, ApartFrame

LEMMA DieApart ==
    ASSUME NEW m \in Managers, NEW d, Apart(m, d)
    PROVE  Apart(Die(m), d)
<1>1. Die(m).occ = m.occ /\ Die(m).off = m.off
  BY DEF Managers, Die
<1> QED
  BY <1>1, ApartFrame

LEMMA GetFreeFloatApart ==
    ASSUME NEW m \in Managers, NEW first, Apart(m, 0)
    PROVE  Apart(GetFreeFloat(m, first), 0)
<1>1. ASSUME NEW r \in m.pool
      PROVE  Apart([m EXCEPT !.got = r, !.cursor = (r + 1) % FLOATCOUNT], 0)
  BY TakeApart
<1>2. ASSUME NEW n \in Names
      PROVE  Apart([PushOne(m, n) EXCEPT !.got = m.cursor,
                                         !.cursor = (m.cursor + 1) % FLOATCOUNT], 0)
  <2>1. PushOne(m, n) \in Managers /\ Apart(PushOne(m, n), 0)
    BY PushOneType, PushOneApart
  <2> QED
    BY <2>1, TakeApart
<1>3. CASE \E r \in m.pool : GetFreeFloat(m, first) =
                 [m EXCEPT !.got = r, !.cursor = (r + 1) % FLOATCOUNT]
  <2>1. PICK r \in m.pool : GetFreeFloat(m, first) =
                 [m EXCEPT !.got = r, !.cursor = (r + 1) % FLOATCOUNT]
    BY <1>3
  <2> QED
    BY <2>1, <1>1, Zenon
<1>4. CASE \E n \in Names : GetFreeFloat(m, first) =
                 [PushOne(m, n) EXCEPT !.got = m.cursor,
                                       !.cursor = (m.cursor + 1) % FLOATCOUNT]
  <2>1. PICK n \in Names : GetFreeFloat(m, first) =
                 [PushOne(m, n) EXCEPT !.got = m.cursor,
                                       !.cursor = (m.cursor + 1) % FLOATCOUNT]
    BY <1>4
  <2> QED
    BY <2>1, <1>2, Zenon
<1>5. CASE GetFreeFloat(m, first) = Die(m)
  BY <1>5, DieApart
<1> QED
  BY <1>3, <1>4, <1>5, GetFreeFloatCases, Zenon

LEMMA AllocFloatApart ==
    ASSUME NEW m \in Managers, NEW v \in Names, NEW first, Apart(m, 0)
    PROVE  Apart(AllocFloat(m, v, first), 0)
<1>1. GetFreeFloat(m, first) \in Managers /\ GetFreeFloat(m, first).got \in FloatRegs
  BY GetFreeFloatType DEF Managers
<1> QED
  BY <1>1, GetFreeFloatApart, OccupyRegApart DEF AllocFloat

LEMMA AllocTmpApart ==
    ASSUME NEW m \in Managers, NEW v \in Names, Apart(m, 0)
    PROVE  Apart(AllocTmp(m, v), 0)
<1> DEFINE r == Nearest(m.tpool, m.tcursor, TMPCOUNT)
           g == [m EXCEPT !.tcursor = (r + 1) % TMPCOUNT]
<1>1. CASE m.tpool = {}
  BY <1>1, DieApart DEF AllocTmp
<1>2. CASE m.tpool # {}
  <2>1. r \in TmpRegs
    <3>1. m.tpool \subseteq 0 .. (TMPCOUNT - 1) /\ m.tcursor \in Nat
      BY MachineAssumption DEF Managers, TmpRegs
    <3>2. r \in m.tpool
      BY <1>2, <3>1, MachineAssumption, NearestFree
    <3> QED
      BY <3>2 DEF Managers
  <2>2. g \in Managers /\ g.occ = m.occ /\ g.off = m.off
    BY <2>1, FloatRegFacts DEF Managers
  <2>3. Apart(g, 0)
    BY <2>2, ApartFrame
  <2> QED
    BY <1>2, <2>1, <2>2, <2>3, OccupyRegApart DEF AllocTmp
<1> QED
  BY <1>1, <1>2

LEMMA AllocMemApart ==
    ASSUME NEW m \in Managers, NEW x \in Names, Apart(m, 0)
    PROVE  Apart(AllocMem(m, x), 0)
<1> DEFINE g == [m EXCEPT !.off = m.off - 1]
<1>1. g \in Managers /\ g.occ = m.occ /\ g.off = m.off - 1 /\ m.off \in Int
  BY DEF Managers
<1> HIDE DEF g
<1>2. \A u \in Names : m.occ[u].ty = "off" => m.occ[u].ix \in Int /\ m.occ[u].ix > m.off
  BY DEF Apart, Managers, Places
<1>3. Apart(g, 0)
  BY <1>1, <1>2 DEF Apart
<1>4. OnStack(m.off) \in Places /\ OnStack(m.off).ix = m.off /\ OnStack(m.off).ty = "off"
  BY <1>1, PlaceTypes DEF OnStack
<1>5. OnStack(m.off).ix > g.off /\ \A u \in Names : g.occ[u] # OnStack(m.off)
  BY <1>1, <1>2, <1>4
<1>6. Apart(Occupy(g, OnStack(m.off), x), 0)
  BY <1>1, <1>3, <1>4, <1>5, OccupyApart
<1> QED
  BY <1>6 DEF AllocMem, g

\* Writing a register, and recording a misread, change no place.
LEMMA FregApart ==
    ASSUME NEW m \in Managers, NEW r, NEW c, Apart(m, 0)
    PROVE  Apart([m EXCEPT !.freg[r] = c], 0)
<1> DEFINE w == [m EXCEPT !.freg[r] = c]
<1>1. w.occ = m.occ /\ w.off = m.off
  BY DEF Managers
<1> QED
  BY <1>1, ApartFrame

LEMMA WriteFloatApart ==
    ASSUME NEW m \in Managers, NEW r, NEW v, NEW right, Apart(m, 0)
    PROVE  Apart(WriteFloat(m, r, v, right), 0)
<1>1. /\ WriteFloat(m, r, v, right).occ = m.occ
      /\ WriteFloat(m, r, v, right).off = m.off
  BY DEF Managers, WriteFloat
<1> QED
  BY <1>1, ApartFrame

LEMMA LoadApart ==
    ASSUME NEW m \in Managers, NEW v \in Names, NEW first, Apart(m, 0)
    PROVE  Apart(Load(m, v, first), 0)
<1> DEFINE g == GetFreeFloat(m, first)
           l == [g EXCEPT !.freg[g.got] = Held(g, v)]
<1>1. g \in Managers /\ g.got \in FloatRegs /\ Apart(g, 0)
  BY GetFreeFloatType, GetFreeFloatApart DEF Managers
<1>2. l \in Managers /\ Apart(l, 0)
  BY <1>1, FregType, HeldType, FregApart
<1>3. Release(l, {v}) \in Managers /\ Apart(Release(l, {v}), 0)
  BY <1>2, ReleaseType, ReleaseApart
<1> QED
  BY <1>1, <1>3, OccupyRegApart DEF Load

LEMMA GetRegApart ==
    ASSUME NEW m \in Managers, NEW v \in Names, NEW first, Apart(m, 0)
    PROVE  Apart(GetReg(m, v, first), 0)
BY LoadApart DEF GetReg

LEMMA LoadConstApart ==
    ASSUME NEW m \in Managers, NEW v \in Names, NEW isConst, NEW first, Apart(m, 0)
    PROVE  Apart(LoadConst(m, v, isConst, first), 0)
<1> DEFINE g == GetFreeFloat(m, first)
           l == [g EXCEPT !.freg[g.got] = v]
<1>1. g \in Managers /\ g.got \in FloatRegs /\ Apart(g, 0) /\ v \in Contents
  BY GetFreeFloatType, GetFreeFloatApart DEF Managers, Contents
<1>2. l \in Managers /\ Apart(l, 0)
  BY <1>1, FregType, FregApart
<1>3. Apart(Occupy(l, InFloat(g.got), v), 0)
  BY <1>1, <1>2, OccupyRegApart
<1> QED
  BY <1>3, GetRegApart DEF LoadConst

LEMMA FreshApart == \A d \in Int : Apart(FreshFrame, d)
BY DEF FreshFrame, Apart, Nowhere
=============================================================================
