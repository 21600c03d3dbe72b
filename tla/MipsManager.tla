----------------------------- MODULE MipsManager -----------------------------
(***************************************************************************)
(* The register and frame manager of the MIPS backend,                     *)
(* libs/mips/src/mips_manager.cpp.                                         *)
(*                                                                         *)
(* A manager is a record m.  Its first half is the compile-time state of   *)
(* class MipsManager: the two pools of free registers, their round-robin   *)
(* cursors, the occupation table and the frame cursor.  Its second half is *)
(* what the code emitted so far does when it runs: the symbolic content of *)
(* every register and stack slot.  The translator emits straight-line code *)
(* inside a block, so running the code and emitting it go in step, and     *)
(* addCode(l.s r, o($sp)) is the assignment freg[r] := stk[o].             *)
(*                                                                         *)
(* Offsets are in words, 4 bytes in the code.  Every operator is a         *)
(* function from a manager to a manager; one that may have to choose among *)
(* the entries of the unordered_map `occupation` takes the entry the       *)
(* iteration meets first as the argument `first`.                          *)
(***************************************************************************)
EXTENDS Integers, FiniteSets

CONSTANTS
    FLOATCOUNT, \* float registers of the machine, $f0 .. (32 in the code)
    F12,        \* the reserved register of the print system call ($f12)
    TMPCOUNT,   \* integer registers $t0 .. (8 in the code)
    Values,     \* names of SSA values
    Vars,       \* names of local variables, the AllocaInsts of a function
    Junk,       \* content of a register or slot nobody may rely on
    RetAddr,    \* content: the return address of the running function
    Slots       \* the frame offsets a behaviour may touch (bounds the frame)

ASSUME MachineAssumption ==
    /\ FLOATCOUNT \in Nat \ {0, 1}
    /\ F12 \in 1 .. (FLOATCOUNT - 1)
    /\ TMPCOUNT \in Nat \ {0}

ASSUME NameAssumption ==
    /\ Values \subseteq Nat
    /\ IsFiniteSet(Values) /\ IsFiniteSet(Vars)
    /\ Values \cap Vars = {}
    /\ {Junk, RetAddr} \cap (Values \cup Vars) = {}
    /\ Junk # RetAddr
    /\ Slots \subseteq Int

FloatRegs   == 0 .. (FLOATCOUNT - 1)
TmpRegs     == 0 .. (TMPCOUNT - 1)
F0          == 0
\* Mutant: the loop that fills the pool runs from 1 to FLOATCOUNT inclusive.
MutAllocatable == (1 .. FLOATCOUNT) \ {F12}

Allocatable == FloatRegs \ {F0, F12}
Names       == Values \cup Vars

-----------------------------------------------------------------------------
(***************************************************************************)
(* Places.  A MipsReg is a float register, a temporary register, or an     *)
(* OffsetReg, an offset from $sp.  `ix` is GetIndex() of all three.        *)
(***************************************************************************)
Nowhere    == [ty |-> "none",  ix |-> 0]
InFloat(r) == [ty |-> "float", ix |-> r]
InTmp(r)   == [ty |-> "tmp",   ix |-> r]
OnStack(o) == [ty |-> "off",   ix |-> o]

Places == [ty : {"none"}, ix : {0}] \cup [ty : {"float"}, ix : FloatRegs]
              \cup [ty : {"tmp"}, ix : TmpRegs] \cup [ty : {"off"}, ix : Int]

\* What a register or slot can hold when the emitted code runs: the value of
\* an SSA name, the current value of a variable, the return address, or junk.
Contents == Names \cup {Junk, RetAddr}

Managers ==
    [pool   : SUBSET FloatRegs,   \* floatRegPool
     cursor : FloatRegs,          \* floatCount
     tpool  : SUBSET TmpRegs,     \* tmpRegPool
     tcursor: TmpRegs,            \* tmpCount
     occ    : [Names -> Places],  \* occupation
     off    : Int,                \* currentOffset
     got    : FloatRegs,          \* the register the last getFreeFloat returned
     status : {"ok", "dead"},     \* dead: exit(1), failed assert, or undefined
     freg   : [FloatRegs -> Contents],
     treg   : [TmpRegs -> Contents],
     stk    : [Slots -> Contents],
     misread : BOOLEAN]           \* an instruction read a wrong operand

\* The state resetFrame leaves; it is also the constructor's.
FreshFrame ==
    [pool |-> Allocatable, cursor |-> 0, tpool |-> TmpRegs, tcursor |-> 0,
     occ |-> [n \in Names |-> Nowhere], off |-> 0, got |-> F0,
     status |-> "ok",
     freg |-> [r \in FloatRegs |-> Junk], treg |-> [r \in TmpRegs |-> Junk],
     stk |-> [o \in Slots |-> Junk], misread |-> FALSE]

Die(m) == [m EXCEPT !.status = "dead"]

\* The content of the place n is bound to.
Held(m, n) ==
    LET p == m.occ[n]
    IN  CASE p.ty = "float" -> m.freg[p.ix]
          [] p.ty = "tmp"   -> m.treg[p.ix]
          [] p.ty = "off" /\ p.ix \in Slots -> m.stk[p.ix]
          [] OTHER          -> Junk

\* The words bound to names are distinct, and all above the frame cursor by
\* more than d.
Apart(m, d) ==
    \A n \in Names : m.occ[n].ty = "off" =>
        /\ m.occ[n].ix > m.off + d
        /\ \A u \in Names \ {n} : m.occ[u] # m.occ[n]

-----------------------------------------------------------------------------
(***************************************************************************)
(* Occupation.                                                             *)
(***************************************************************************)

\* occupy: insert() leaves an entry that exists, but the register is taken
\* out of its pool all the same.
Occupy(m, p, n) ==
    [m EXCEPT !.pool  = IF p.ty = "float" THEN @ \ {p.ix} ELSE @,
              !.tpool = IF p.ty = "tmp" THEN @ \ {p.ix} ELSE @,
              !.occ   = IF @[n] = Nowhere THEN [@ EXCEPT ![n] = p] ELSE @]

\* Mutant: the register goes back to no pool.
MutReleaseLeak(m, S) ==
    [m EXCEPT !.occ = [n \in Names |-> IF n \in S THEN Nowhere ELSE @[n]]]

\* Mutant: the entry is not erased.
MutReleaseKeep(m, S) ==
    [m EXCEPT !.pool = @ \cup {m.occ[n].ix : n \in {s \in S : m.occ[s].ty = "float"}}]

\* release, for every name of a set: tryRelease's loop over the operands.
Release(m, S) ==
    [m EXCEPT !.pool  = @ \cup {m.occ[n].ix : n \in {s \in S : m.occ[s].ty = "float"}},
              !.tpool = @ \cup {m.occ[n].ix : n \in {s \in S : m.occ[s].ty = "tmp"}},
              !.occ   = [n \in Names |-> IF n \in S THEN Nowhere ELSE @[n]]]

\* Mutant: only the integer registers are collected.
MutInRegister(m) == {n \in Names : m.occ[n].ty = "tmp"}

\* The names in registers: the set pushAll and the call sequence collect.
InRegister(m) == {n \in Names : m.occ[n].ty \in {"float", "tmp"}}

\* push, for every name of a set of names in registers; rank is the order of
\* the loop, that of pointers in a std::set.
Push(m, S, rank) ==
    [Release(m, S) EXCEPT
        !.occ = [n \in Names |-> IF n \in S THEN OnStack(m.off - rank[n]) ELSE @[n]],
        !.stk = [o \in Slots |-> IF \E n \in S : o = m.off - rank[n]
                                 THEN Held(m, CHOOSE n \in S : o = m.off - rank[n])
                                 ELSE @[o]],
        !.off = @ - Cardinality(S)]

\* Mutant: the frame cursor is not moved.
MutPushOneStay(m, n) == [Push(m, {n}, [u \in {n} |-> 0]) EXCEPT !.off = m.off]

\* Mutant: the store is not emitted.
MutPushOneLost(m, n) == [Push(m, {n}, [u \in {n} |-> 0]) EXCEPT !.stk = m.stk]

PushOne(m, n) == Push(m, {n}, [u \in {n} |-> 0])

\* The orders in which a loop over S may run.
Ranks(S) == {f \in [S -> 0 .. (Cardinality(S) - 1)] :
                \A a, b \in S : f[a] = f[b] => a = b}

-----------------------------------------------------------------------------
(***************************************************************************)
(* Allocation.                                                             *)
(***************************************************************************)

\* The first free index at or after the cursor, cyclically.
Nearest(pool, cursor, count) ==
    CHOOSE r \in pool : \A s \in pool : (r - cursor) % count <= (s - cursor) % count

\* When the pool is empty the register under the cursor is taken from the
\* first entry of the table with that GetIndex(), whatever its type.  Only a
\* float register can be: a pointer has no store instruction; an SSA value
\* already at offset 0 is reloaded and stored elsewhere and, like an entry in
\* $t<index>, leaves the pool without `index`, which the assert (or the
\* dereferenced end() of a release build) does not survive; with no entry
\* valuePtr is never initialised.
GetFreeFloat(m, first) ==
    LET take(g, r) == [g EXCEPT !.got = r, !.cursor = (r + 1) % FLOATCOUNT]
        same       == {n \in Names : m.occ[n].ty # "none" /\ m.occ[n].ix = m.cursor}
        victim     == IF first \in same THEN first ELSE CHOOSE n \in same : TRUE
    IN  IF m.pool # {}
        THEN take(m, Nearest(m.pool, m.cursor, FLOATCOUNT))
        ELSE IF same # {} /\ m.occ[victim].ty = "float"
             THEN take(PushOne(m, victim), m.cursor)
             ELSE Die(m)

\* allocReg of a float value.
AllocFloat(m, v, first) ==
    LET g == GetFreeFloat(m, first) IN Occupy(g, InFloat(g.got), v)

\* allocReg of an i1.  An empty pool would evict by index as above; no two i1
\* values are ever alive, so that branch is not reached (NeverDead, with TMPCOUNT = 1).
AllocTmp(m, v) ==
    IF m.tpool = {} THEN Die(m)
    ELSE LET r == Nearest(m.tpool, m.tcursor, TMPCOUNT)
         IN  Occupy([m EXCEPT !.tcursor = (r + 1) % TMPCOUNT], InTmp(r), v)

\* Mutant: the cursor is moved before it is used.
MutAllocMemEarly(m, x) == Occupy([m EXCEPT !.off = @ - 1], OnStack(m.off - 1), x)

\* allocMem, one word.
AllocMem(m, x) == Occupy([m EXCEPT !.off = @ - 1], OnStack(m.off), x)

-----------------------------------------------------------------------------
(***************************************************************************)
(* Access.                                                                 *)
(***************************************************************************)

\* Mutant: the load instruction is not emitted.
MutLoadSilent(m, v, first) ==
    LET g == GetFreeFloat(m, first) IN Occupy(Release(g, {v}), InFloat(g.got), v)

\* load
Load(m, v, first) ==
    LET g == GetFreeFloat(m, first)
        l == [g EXCEPT !.freg[g.got] = Held(g, v)]
    IN  Occupy(Release(l, {v}), InFloat(g.got), v)

\* getReg: a spilled value is brought back, a pointer keeps its offset.
GetReg(m, v, first) ==
    IF m.occ[v].ty = "off" /\ v \in Values THEN Load(m, v, first) ELSE m

\* loadConst: a constant gets a register of its own, anything else getReg.
LoadConst(m, v, isConst, first) ==
    IF isConst
    THEN LET g == GetFreeFloat(m, first)
         IN  Occupy([g EXCEPT !.freg[g.got] = v], InFloat(g.got), v)
    ELSE GetReg(m, v, first)

\* An emitted instruction writes v into register r from operands it read
\* `right`, or junk.
WriteFloat(m, r, v, right) ==
    [m EXCEPT !.freg[r] = IF right THEN v ELSE Junk, !.misread = @ \/ ~right]
=============================================================================
