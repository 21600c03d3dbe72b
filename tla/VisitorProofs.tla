---------------------------- MODULE VisitorProofs -----------------------------
(***************************************************************************)
(* The visitor: how the blocks of main end, how a jump met before its tag  *)
(* reaches the block of the tag, that exactly the faults of the program    *)
(* are reported, and the types of the variables.                           *)
(***************************************************************************)
EXTENDS Visitor, TreeProofs

-----------------------------------------------------------------------------
(***************************************************************************)
(* The steps that change the blocks.                                       *)
(***************************************************************************)

\* In bs an instruction has been added to the end of the current block; there
\* are n blocks, and one after the current one is empty.
Added(bs, inst, n) ==
    /\ AreSeqs(bs) /\ Len(bs) = n
    /\ \A b \in 1 .. (Cur - 1) : bs[b] = blocks[b]
    /\ Len(bs[Cur]) = Len(blocks[Cur]) + 1
    /\ bs[Cur][Len(blocks[Cur]) + 1] = inst
    /\ \A k \in DOMAIN blocks[Cur] : bs[Cur][k] = blocks[Cur][k]
    /\ n > Cur => bs[n] = <<>>

\* Emit adds an instruction and no block.
LEMMA EmitFacts ==
    ASSUME AreSeqs(blocks), blocks # <<>>, NEW inst
    PROVE  Added(Emit(inst), inst, Cur)
<1>1. Cur \in DOMAIN blocks /\ IsSeq(blocks) /\ IsSeq(blocks[Cur]) /\ Cur \in Nat
  BY SeqFacts DEF AreSeqs, Cur
<1> DEFINE x == Append(blocks[Cur], inst)
           bs == [blocks EXCEPT ![Cur] = x]
<1>2. /\ IsSeq(x) /\ Len(x) = Len(blocks[Cur]) + 1
      /\ x[Len(blocks[Cur]) + 1] = inst
      /\ \A k \in DOMAIN blocks[Cur] : x[k] = blocks[Cur][k]
  BY <1>1, AppendFacts
<1>3. Emit(inst) = bs
  BY DEF Emit
<1> HIDE DEF x
<1>4. /\ IsSeq(bs) /\ Len(bs) = Cur /\ bs[Cur] = x
      /\ \A b \in DOMAIN blocks : b # Cur => bs[b] = blocks[b]
  BY <1>1, ExceptFacts DEF Cur
<1> HIDE DEF bs
<1>5. DOMAIN bs = 1 .. Cur /\ DOMAIN blocks = 1 .. Cur
  BY <1>1, <1>4, SeqFacts DEF Cur
<1>6. AreSeqs(bs)
  BY <1>1, <1>2, <1>4, <1>5 DEF AreSeqs
<1> QED
  BY <1>1, <1>2, <1>3, <1>4, <1>5, <1>6 DEF Added

\* EndBlock adds an instruction and an empty block.
LEMMA EndBlockFacts ==
    ASSUME AreSeqs(blocks), blocks # <<>>, NEW inst
    PROVE  Added(EndBlock(inst), inst, Cur + 1)
<1> DEFINE bs == Emit(inst)
           cs == Append(bs, <<>>)
<1>1. EndBlock(inst) = cs
  BY DEF EndBlock
<1>2. Added(bs, inst, Cur) /\ Cur \in Nat /\ Cur > 0
  BY EmitFacts, SeqFacts DEF AreSeqs, Cur
<1> HIDE DEF bs
<1>3. IsSeq(bs) /\ Len(bs) = Cur /\ DOMAIN bs = 1 .. Cur
  BY <1>2, SeqFacts DEF Added, AreSeqs
<1>4. /\ IsSeq(cs) /\ Len(cs) = Cur + 1 /\ cs[Cur + 1] = <<>>
      /\ \A b \in DOMAIN bs : cs[b] = bs[b]
  BY <1>3, AppendFacts
<1> HIDE DEF cs
<1>5. DOMAIN cs = 1 .. (Cur + 1)
  BY <1>4, SeqFacts
<1>6. AreSeqs(cs)
  BY <1>2, <1>3, <1>4, <1>5, EmptyFacts DEF AreSeqs, Added
<1>7. \A b \in 1 .. Cur : cs[b] = bs[b]
  BY <1>3, <1>4
<1> QED
  BY <1>1, <1>2, <1>4, <1>6, <1>7 DEF Added
-----------------------------------------------------------------------------
(***************************************************************************)
(* Giving jumps their targets.                                             *)
(***************************************************************************)

\* A jump has the fields of its class.
WellMade(i) ==
    i.op \in Jumps =>
        /\ i.target \in Nat
        /\ \/ i = [op |-> "jump", stmt |-> i.stmt, target |-> i.target, uses |-> i.uses]
           \/ i = [op |-> "branch", stmt |-> i.stmt, val |-> i.val, target |-> i.target,
                   other |-> i.other, uses |-> i.uses]

\* Its operands are what its members say, as UsesAgree states.
Agrees(i) ==
    i.op \in Jumps =>
        LET to == IF i.target = 0 THEN <<>> ELSE <<i.target>>
        IN  i.uses = IF i.op = "branch" THEN <<i.other>> \o to ELSE to

\* new is old, or old with a target it did not have or with other operands.
Patched(old, new) ==
    \/ new = old
    \/ /\ old.op \in Jumps
       /\ new = [old EXCEPT !.target = new.target, !.uses = new.uses]
       /\ old.target # 0 => new.target = old.target

\* What giving the jump i the target b does to it.
Targeted(i, new, b) ==
    /\ Patched(i, new) /\ WellMade(new)
    /\ new.op = i.op /\ new.stmt = i.stmt
    /\ new.target = IF i.target = 0 THEN b ELSE i.target
    /\ Agrees(i) /\ i.target = 0 => Agrees(new)

LEMMA SetTargetFacts ==
    ASSUME NEW i, WellMade(i), i.op \in Jumps, NEW b \in Nat \ {0}
    PROVE  Targeted(i, SetTarget(i, b), b)
<1> DEFINE new == SetTarget(i, b)
<1>1. CASE i.target = 0
  <2>1. new = [i EXCEPT !.target = b, !.uses = Append(@, b)]
    BY <1>1 DEF SetTarget
  <2> DEFINE u == Append(i.uses, b)
  <2>2. new = [i EXCEPT !.target = b, !.uses = u]
    BY <2>1
  <2> HIDE DEF u, new
  <2>3. /\ new.op = i.op /\ new.stmt = i.stmt /\ new.target = b /\ new.uses = u
        /\ i.op = "branch" => new.other = i.other
        /\ WellMade(new)
    <3>1. CASE i = [op |-> "jump", stmt |-> i.stmt, target |-> i.target, uses |-> i.uses]
      <4> PICK st, to, us : i = [op |-> "jump", stmt |-> st, target |-> to, uses |-> us]
        BY <3>1
      <4>1. new = [op |-> "jump", stmt |-> st, target |-> b, uses |-> u]
        BY <2>2
      <4> QED
        BY <3>1, <4>1 DEF WellMade
    <3>2. CASE i = [op |-> "branch", stmt |-> i.stmt, val |-> i.val, target |-> i.target,
                    other |-> i.other, uses |-> i.uses]
      <4> PICK st, v, to, no, us :
                 i = [op |-> "branch", stmt |-> st, val |-> v, target |-> to,
                      other |-> no, uses |-> us]
        BY <3>2
      <4>1. new = [op |-> "branch", stmt |-> st, val |-> v, target |-> b,
                   other |-> no, uses |-> u]
        BY <2>2
      <4> QED
        BY <3>2, <4>1 DEF WellMade
    <3> QED
      BY <3>1, <3>2 DEF WellMade
  <2>4. Patched(i, new)
    BY <1>1, <2>2, <2>3 DEF Patched
  <2>5. ASSUME Agrees(i) PROVE Agrees(new)
    <3>1. CASE i.op = "jump"
      <4>1. i.uses = <<>>
        BY <1>1, <2>5, <3>1 DEF Agrees
      <4>2. u = <<b>>
        BY <4>1 DEF u
      <4> QED
        BY <2>3, <3>1, <4>2 DEF Agrees
    <3>2. CASE i.op = "branch"
      <4>1. i.uses = <<i.other>> \o <<>>
        BY <1>1, <2>5, <3>2 DEF Agrees
      <4>2. i.uses = <<i.other>>
        BY <4>1
      <4>3. u = <<i.other>> \o <<b>>
        BY <4>2 DEF u
      <4> QED
        BY <2>3, <3>2, <4>3 DEF Agrees
    <3> QED
      BY <3>1, <3>2 DEF Jumps
  <2> QED
    BY <1>1, <2>3, <2>4, <2>5 DEF Targeted, new
<1>2. CASE i.target # 0
  <2>1. PICK u : new = [i EXCEPT !.uses = u]
    BY <1>2 DEF SetTarget
  <2> HIDE DEF new
  <2>2. /\ new.op = i.op /\ new.stmt = i.stmt /\ new.target = i.target /\ new.uses = u
        /\ WellMade(new)
    BY <2>1 DEF WellMade, Jumps
  <2>3. new = [i EXCEPT !.target = new.target, !.uses = new.uses]
    BY <2>1, <2>2 DEF WellMade, Jumps
  <2> QED
    BY <1>2, <2>2, <2>3 DEF Targeted, Patched, new
<1> QED
  BY <1>1, <1>2

\* In new the jumps that end the blocks S of old have been given the target b.
Retargeted(old, new, S, b) ==
    /\ AreSeqs(new) /\ Len(new) = Len(old)
    /\ \A c \in DOMAIN old :
          /\ Len(new[c]) = Len(old[c])
          /\ \A k \in DOMAIN old[c] :
                new[c][k] = IF c \in S /\ k = Len(old[c]) THEN SetTarget(old[c][k], b)
                            ELSE old[c][k]

LEMMA RetargetFacts ==
    ASSUME NEW bs, AreSeqs(bs), NEW S, \A c \in S : bs[c] # <<>>, NEW b
    PROVE  Retargeted(bs, Retarget(bs, S, b), S, b)
<1> DEFINE end(c) == [bs[c] EXCEPT ![Len(bs[c])] = SetTarget(@, b)]
           new    == Retarget(bs, S, b)
<1>1. new = [c \in DOMAIN bs |-> IF c \in S THEN end(c) ELSE bs[c]]
  BY DEF Retarget
<1>2. Len(bs) \in Nat /\ DOMAIN bs = 1 .. Len(bs)
  BY SeqFacts DEF AreSeqs
<1>3. ASSUME NEW c \in DOMAIN bs, c \in S
      PROVE  /\ IsSeq(end(c)) /\ Len(end(c)) = Len(bs[c])
             /\ \A k \in DOMAIN bs[c] :
                   end(c)[k] = IF k = Len(bs[c]) THEN SetTarget(bs[c][k], b) ELSE bs[c][k]
  <2>1. IsSeq(bs[c]) /\ Len(bs[c]) \in DOMAIN bs[c]
    BY <1>3, SeqFacts DEF AreSeqs
  <2> DEFINE s == bs[c]
             x == SetTarget(s[Len(s)], b)
  <2>2. end(c) = [s EXCEPT ![Len(s)] = x]
    OBVIOUS
  <2> HIDE DEF s, x
  <2>3. IsSeq(s) /\ Len(s) \in DOMAIN s
    BY <2>1 DEF s
  <2>4. /\ IsSeq([s EXCEPT ![Len(s)] = x]) /\ Len([s EXCEPT ![Len(s)] = x]) = Len(s)
        /\ [s EXCEPT ![Len(s)] = x][Len(s)] = x
        /\ \A k \in DOMAIN s : k # Len(s) => [s EXCEPT ![Len(s)] = x][k] = s[k]
    BY <2>3, ExceptFacts
  <2> HIDE DEF end
  <2>5. /\ IsSeq(end(c)) /\ Len(end(c)) = Len(s)
        /\ \A k \in DOMAIN s : end(c)[k] = IF k = Len(s) THEN x ELSE s[k]
    BY <2>2, <2>4
  <2> QED
    BY <2>5 DEF s, x
<1> HIDE DEF end, new
<1>4. DOMAIN new = 1 .. Len(bs) /\ \A c \in DOMAIN bs : new[c] = IF c \in S THEN end(c) ELSE bs[c]
  BY <1>1, <1>2
<1>5. IsSeq(new) /\ Len(new) = Len(bs)
  <2>1. \A c \in 1 .. Len(bs) : new[c] \in RanOf(new)
    BY <1>4 DEF RanOf
  <2>2. new \in [1 .. Len(bs) -> RanOf(new)]
    BY <1>1, <1>2, <2>1
  <2>3. new \in Seq(RanOf(new))
    BY <1>2, <2>2
  <2> QED
    BY <1>2, <1>4, <2>3 DEF IsSeq
<1>6. AreSeqs(new)
  BY <1>2, <1>3, <1>4, <1>5 DEF AreSeqs
<1> QED
  BY <1>2, <1>3, <1>4, <1>5, <1>6 DEF Retargeted, new
-----------------------------------------------------------------------------
(***************************************************************************)
(* The invariant.                                                          *)
(***************************************************************************)

\* Where a tag has one definition, what the operands are follows from the
\* members; they differ once SetTarget has been called for a second one.
Sound(i) == WellMade(i) /\ ("RepeatedTag" \notin Sloppy => Agrees(i))

\* main has blocks from its beginning, one until the first statement.
Shaped ==
    /\ phase \in {"funcs", "decls", "stmts", "done", "crashed"}
    /\ phase = "funcs" <=> blocks = <<>>
    /\ phase = "decls" => Cur = 1
    /\ AreSeqs(blocks)
    /\ \A b \in DOMAIN blocks : \A k \in DOMAIN blocks[b] : Sound(blocks[b][k])

AreScopes(sc) == /\ IsSeq(sc) /\ sc # <<>>
                 /\ \A i \in DOMAIN sc : DOMAIN sc[i] = Idents

\* There is a current scope until the last is popped.
Scoped ==
    /\ phase # "done" => AreScopes(scopes)
    /\ "stmts" \in DOMAIN src /\ IsSeq(src.stmts)

Visiting == phase \in {"decls", "stmts"}

\* The statement of the jump that ends block b names n.
Names(b, n) == /\ LastInst(b).stmt \in DOMAIN src.stmts
               /\ src.stmts[LastInst(b).stmt].n = n

\* The symbol s of tag n lists only jumps to n; they have a target when it
\* has, the same if no tag has another definition.
Lists(s, n) ==
    /\ s.target \in Nat /\ DOMAIN s = {"type", "target", "jump_insts"}
    /\ \A b \in s.jump_insts :
          /\ b \in JumpBlocks /\ Names(b, n)
          /\ LastInst(b).target = 0 <=> s.target = 0
          /\ "RepeatedTag" \notin Sloppy => LastInst(b).target = s.target

\* And every jump without a target is in the list of a tag without a block.
Listed ==
    /\ \A n \in Tags : Lists(TagSym(n), n)
    /\ \A b \in JumpBlocks : LastInst(b).target = 0 =>
          \E n \in Pending : b \in TagSym(n).jump_insts

VisitorInv ==
    /\ Shaped /\ Scoped /\ BlocksEnd
    /\ Visiting => Listed
    /\ phase = "done" /\ "UndefinedTag" \notin Sloppy =>
          \A b \in JumpBlocks : LastInst(b).target # 0

-----------------------------------------------------------------------------
(***************************************************************************)
(* What the steps do to the blocks, by the instruction added.              *)
(***************************************************************************)
Kept(old, new) == Patched(old, new) /\ Sound(new) /\ new.op = old.op

\* Added, and some jumps without a target may have been given one.
Grown(bs, inst, n) ==
    /\ AreSeqs(bs) /\ Len(bs) = n
    /\ \A b \in DOMAIN blocks :
          /\ Len(bs[b]) = Len(blocks[b]) + (IF b = Cur THEN 1 ELSE 0)
          /\ \A k \in DOMAIN blocks[b] : Kept(blocks[b][k], bs[b][k])
    /\ bs[Cur][Len(blocks[Cur]) + 1] = inst
    /\ n > Cur => bs[n] = <<>>

\* What EmittedKept says of a step.
Keeps == \A b \in DOMAIN blocks : \A k \in DOMAIN blocks[b] :
            Patched(blocks[b][k], blocks'[b][k])

LEMMA BlockFacts ==
    ASSUME Shaped, phase # "funcs"
    PROVE  /\ Cur \in Nat /\ Cur > 0 /\ DOMAIN blocks = 1 .. Cur /\ blocks # <<>>
           /\ \A b \in 1 .. Cur : /\ Len(blocks[b]) \in Nat
                                  /\ DOMAIN blocks[b] = 1 .. Len(blocks[b])
                                  /\ blocks[b] = <<>> <=> Len(blocks[b]) = 0
BY SeqFacts DEF Shaped, AreSeqs, Cur

LEMMA AddedGrown ==
    ASSUME Shaped, phase # "funcs", NEW bs, NEW inst, NEW n, Added(bs, inst, n)
    PROVE  Grown(bs, inst, n)
<1>1. ASSUME NEW b \in DOMAIN blocks
      PROVE  /\ Len(bs[b]) = Len(blocks[b]) + (IF b = Cur THEN 1 ELSE 0)
             /\ \A k \in DOMAIN blocks[b] : bs[b][k] = blocks[b][k]
  <2>1. CASE b = Cur
    BY <2>1 DEF Added
  <2>2. CASE b # Cur
    BY <2>2, BlockFacts DEF Added
  <2> QED
    BY <2>1, <2>2
<1>2. \A b \in DOMAIN blocks : \A k \in DOMAIN blocks[b] : Kept(blocks[b][k], bs[b][k])
  BY <1>1 DEF Kept, Patched, Shaped
<1> QED
  BY <1>1, <1>2 DEF Added, Grown

LEMMA RetargetGrown ==
    ASSUME Shaped, phase # "funcs", NEW bs, NEW inst, NEW n, Added(bs, inst, n), n > Cur,
           NEW S \in SUBSET JumpBlocks, Cur \notin S,
           "RepeatedTag" \notin Sloppy => \A b \in S : LastInst(b).target = 0,
           NEW new, NEW t \in Nat \ {0}, Retargeted(bs, new, S, t)
    PROVE  Grown(new, inst, n)
<1>1. /\ Grown(bs, inst, n) /\ Cur \in Nat /\ Cur > 0 /\ DOMAIN blocks = 1 .. Cur
      /\ AreSeqs(bs) /\ Len(bs) = n
  BY AddedGrown, BlockFacts DEF Added
<1>2. n \in Nat /\ DOMAIN bs = 1 .. n
  BY <1>1, SeqFacts DEF AreSeqs
<1>3. ASSUME NEW b \in DOMAIN blocks
      PROVE  /\ Len(new[b]) = Len(blocks[b]) + (IF b = Cur THEN 1 ELSE 0)
             /\ \A k \in DOMAIN blocks[b] : Kept(blocks[b][k], new[b][k])
  <2>1. b \in DOMAIN bs /\ b \in 1 .. Cur
    BY <1>1, <1>2, <1>3
  <2>2. Len(new[b]) = Len(bs[b])
    BY <2>1 DEF Retargeted
  <2>3. CASE b \in S
    <3>1. bs[b] = blocks[b]
      BY <2>3, <2>1, <1>1 DEF Added
    <3>2. ASSUME NEW k \in DOMAIN blocks[b] PROVE Kept(blocks[b][k], new[b][k])
      <4>1. CASE k = Len(blocks[b])
        <5> DEFINE i == blocks[b][k]
        <5>1. /\ i = LastInst(b) /\ i.op \in Jumps /\ Sound(i)
              /\ "RepeatedTag" \notin Sloppy => i.target = 0
          BY <4>1, <2>3 DEF LastInst, JumpBlocks, Shaped
        <5>2. new[b][k] = SetTarget(i, t)
          BY <2>1, <2>3, <3>1, <4>1 DEF Retargeted
        <5> HIDE DEF i
        <5>3. Targeted(i, new[b][k], t)
          BY <5>1, <5>2, SetTargetFacts DEF Sound
        <5>4. Kept(i, new[b][k])
          BY <5>1, <5>3 DEF Targeted, Kept, Sound
        <5> QED
          BY <5>4 DEF i
      <4>2. CASE k # Len(blocks[b])
        BY <2>1, <3>1, <4>2 DEF Retargeted, Kept, Patched, Shaped
      <4> QED
        BY <4>1, <4>2
    <3>3. b # Cur
      BY <2>3
    <3> QED
      BY <2>2, <3>1, <3>2, <3>3, <1>1 DEF Grown
  <2>4. CASE b \notin S
    <3>1. \A k \in DOMAIN bs[b] : new[b][k] = bs[b][k]
      BY <2>1, <2>4 DEF Retargeted
    <3>2. DOMAIN blocks[b] \subseteq DOMAIN bs[b]
      BY SMTT(60), <1>1, <1>3, <2>1, BlockFacts, SeqFacts DEF Grown, AreSeqs
    <3> QED
      BY <1>1, <1>3, <2>2, <3>1, <3>2 DEF Grown
  <2> QED
    BY <2>3, <2>4
<1>4. new[Cur][Len(blocks[Cur]) + 1] = inst
  <2>1. Cur \in DOMAIN bs /\ Len(blocks[Cur]) + 1 \in DOMAIN bs[Cur]
    BY <1>1, <1>2, BlockFacts, SeqFacts DEF Added, AreSeqs
  <2> QED
    BY <2>1 DEF Retargeted, Added
<1>5. new[n] = <<>>
  <2>1. n \in DOMAIN bs /\ bs[n] = <<>> /\ Len(new) = n
    BY <1>1, <1>2 DEF Added, Retargeted
  <2>2. IsSeq(new[n]) /\ Len(new[n]) = 0
    BY <2>1, <1>2, SeqFacts, EmptyFacts DEF Retargeted, AreSeqs
  <2> QED
    BY <2>2, SeqFacts
<1> QED
  BY <1>1, <1>3, <1>4, <1>5 DEF Grown, Retargeted
\* Growing by a jump and a new block, by another instruction in the current
\* block, or by the return that ends main.
LEMMA GrownEnds ==
    ASSUME Shaped, BlocksEnd, Visiting,
           NEW n \in {Cur, Cur + 1}, NEW inst, Grown(blocks', inst, n), Sound(inst),
           phase' \in {"decls", "stmts", "done"}, phase' = "decls" => Cur' = 1,
           inst.op \in Terminators <=> n = Cur + 1 \/ phase' = "done",
           n = Cur + 1 => phase' # "done"
    PROVE  Shaped' /\ BlocksEnd' /\ Keeps
<1>1. /\ Cur \in Nat /\ Cur > 0 /\ DOMAIN blocks = 1 .. Cur /\ phase \notin {"funcs", "done"}
      /\ \A b \in 1 .. Cur : /\ Len(blocks[b]) \in Nat
                             /\ DOMAIN blocks[b] = 1 .. Len(blocks[b])
                             /\ blocks[b] = <<>> <=> Len(blocks[b]) = 0
  BY BlockFacts DEF Visiting
<1>2. /\ AreSeqs(blocks') /\ Cur' = n /\ n \in Nat /\ DOMAIN blocks' = 1 .. n /\ blocks' # <<>>
      /\ \A b \in 1 .. n : /\ Len(blocks'[b]) \in Nat
                           /\ DOMAIN blocks'[b] = 1 .. Len(blocks'[b])
                           /\ blocks'[b] = <<>> <=> Len(blocks'[b]) = 0
  BY <1>1, SeqFacts DEF Grown, AreSeqs, Cur
<1>3. /\ \A b \in 1 .. Cur : /\ Len(blocks'[b]) = Len(blocks[b]) + (IF b = Cur THEN 1 ELSE 0)
                             /\ \A k \in 1 .. Len(blocks[b]) : Kept(blocks[b][k], blocks'[b][k])
      /\ blocks'[Cur][Len(blocks[Cur]) + 1] = inst
      /\ n > Cur => blocks'[n] = <<>>
  BY <1>1 DEF Grown
<1>4. ASSUME NEW b \in 1 .. n, NEW k \in 1 .. Len(blocks'[b])
      PROVE  /\ b \in 1 .. Cur
             /\ \/ k \in 1 .. Len(blocks[b]) /\ Kept(blocks[b][k], blocks'[b][k])
                \/ b = Cur /\ k = Len(blocks[Cur]) + 1 /\ blocks'[b][k] = inst
  <2>1. b \in 1 .. Cur
    <3> SUFFICES ASSUME b > Cur PROVE FALSE
      BY <1>1
    <3>1. n > Cur /\ b = n
      BY <1>1
    <3>2. Len(blocks'[n]) = 0
      BY <1>2, <1>3, <3>1
    <3> QED
      BY <3>1, <3>2
  <2> QED
    BY <1>1, <1>3, <2>1
<1>5. Shaped'
  <2>1. \A b \in 1 .. n : \A k \in 1 .. Len(blocks'[b]) : Sound(blocks'[b][k])
    BY <1>4 DEF Kept
  <2>2. \A b \in DOMAIN blocks' : \A k \in DOMAIN blocks'[b] : Sound(blocks'[b][k])
    BY <1>2, <2>1
  <2> QED
    BY <1>2, <2>2 DEF Shaped, Sound, Agrees, WellMade
<1>6. BlocksEnd'
  <2> SUFFICES ASSUME NEW b \in 1 .. n
               PROVE  LET code  == blocks'[b]
                          ended == b < n \/ phase' = "done"
                      IN  /\ \A k \in 1 .. Len(code) :
                                code[k].op \in Terminators => ended /\ k = Len(code)
                          /\ ended => code # <<>> /\ code[Len(code)].op \in Terminators
    BY <1>2 DEF BlocksEnd
  <2>1. ASSUME b \in 1 .. Cur, b # Cur
        PROVE  /\ \A k \in 1 .. Len(blocks'[b]) :
                     blocks'[b][k].op \in Terminators => k = Len(blocks'[b])
               /\ blocks'[b] # <<>> /\ blocks'[b][Len(blocks'[b])].op \in Terminators
               /\ b < n
    <3>1. /\ \A k \in 1 .. Len(blocks[b]) :
                blocks[b][k].op \in Terminators => k = Len(blocks[b])
          /\ Len(blocks[b]) > 0 /\ blocks[b][Len(blocks[b])].op \in Terminators
      <4>1. b \in DOMAIN blocks /\ b < Cur
        BY <1>1, <2>1
      <4>2. /\ \A k \in DOMAIN blocks[b] :
                  blocks[b][k].op \in Terminators => k = Len(blocks[b])
            /\ blocks[b] # <<>> /\ blocks[b][Len(blocks[b])].op \in Terminators
        BY <4>1 DEF BlocksEnd
      <4> QED
        BY <1>1, <2>1, <4>2
    <3>2. Len(blocks'[b]) = Len(blocks[b]) /\ Len(blocks[b]) \in 1 .. Len(blocks[b])
      BY <1>1, <1>3, <2>1, <3>1
    <3>3. \A k \in 1 .. Len(blocks[b]) : blocks'[b][k].op = blocks[b][k].op
      BY <1>3, <2>1 DEF Kept
    <3>4. b < n /\ blocks'[b] # <<>>
      BY <1>1, <1>2, <2>1, <3>1, <3>2
    <3>5. blocks'[b][Len(blocks'[b])].op \in Terminators
      BY <3>1, <3>2, <3>3
    <3> QED
      BY <3>1, <3>2, <3>3, <3>4, <3>5
  <2>2. ASSUME b = Cur
        PROVE  /\ Len(blocks'[b]) = Len(blocks[b]) + 1 /\ blocks'[b][Len(blocks'[b])] = inst
               /\ \A k \in 1 .. Len(blocks[b]) : blocks'[b][k].op \notin Terminators
    <3>1. \A k \in 1 .. Len(blocks[b]) : blocks[b][k].op \notin Terminators
      BY SMTT(60), <1>1, <2>2 DEF BlocksEnd
    <3>2. Len(blocks'[b]) = Len(blocks[b]) + 1 /\ blocks'[b][Len(blocks[b]) + 1] = inst
      BY <1>1, <1>3, <2>2
    <3>3. \A k \in 1 .. Len(blocks[b]) : Kept(blocks[b][k], blocks'[b][k])
      BY <1>1, <1>3, <2>2
    <3>4. \A k \in 1 .. Len(blocks[b]) : blocks'[b][k].op \notin Terminators
      BY <3>1, <3>3 DEF Kept
    <3> QED
      BY <3>2, <3>4
  <2>3. ASSUME b > Cur
        PROVE  b = n /\ n = Cur + 1 /\ blocks'[b] = <<>> /\ Len(blocks'[b]) = 0
    BY <1>1, <1>2, <1>3, <2>3
  <2>4. CASE b \in 1 .. Cur /\ b # Cur
    BY <2>1, <2>4
  <2>5. CASE b = Cur
    <3>1. Len(blocks'[b]) \in Nat /\ Len(blocks[b]) \in Nat /\ blocks'[b] # <<>>
      BY <1>1, <1>2, <2>2, <2>5
    <3>2. b < n <=> n = Cur + 1
      BY <1>1, <2>5
    <3>3. \A k \in 1 .. Len(blocks'[b]) :
             k = Len(blocks'[b]) \/ blocks'[b][k].op \notin Terminators
      BY <2>2, <2>5, <3>1
    <3> QED
      BY <2>2, <2>5, <3>1, <3>2, <3>3
  <2>6. CASE b > Cur
    BY <2>3, <2>6, <1>1
  <2> QED
    BY <2>4, <2>5, <2>6, <1>1
<1>7. Keeps
  BY <1>1, <1>3 DEF Keeps, Kept
<1> QED
  BY <1>5, <1>6, <1>7
-----------------------------------------------------------------------------
(***************************************************************************)
(* What the steps do to the jumps that end blocks.                         *)
(***************************************************************************)
LastOf(bs, b) == bs[b][Len(bs[b])]
JumpsOf(bs)   == {b \in DOMAIN bs : bs[b] # <<>> /\ LastOf(bs, b).op \in Jumps}

LEMMA JumpFacts ==
    ASSUME Shaped, BlocksEnd, phase \notin {"funcs", "done"}
    PROVE  JumpBlocks \subseteq 1 .. (Cur - 1) /\ Cur \notin JumpBlocks
<1>1. /\ Cur \in Nat /\ DOMAIN blocks = 1 .. Cur
      /\ \A b \in 1 .. Cur : /\ Len(blocks[b]) \in Nat
                             /\ DOMAIN blocks[b] = 1 .. Len(blocks[b])
                             /\ blocks[b] = <<>> <=> Len(blocks[b]) = 0
  BY BlockFacts
<1>2. ASSUME NEW b \in JumpBlocks PROVE b \in 1 .. Cur /\ b < Cur
  <2>1. b \in 1 .. Cur /\ Len(blocks[b]) \in DOMAIN blocks[b]
        /\ blocks[b][Len(blocks[b])].op \in Terminators
    BY <1>1, <1>2 DEF JumpBlocks, LastInst, Jumps, Terminators
  <2> QED
    BY <1>1, <2>1 DEF BlocksEnd
<1> QED
  BY <1>1, <1>2

\* A jump added is one more, any other instruction changes nothing.
LEMMA AddedJumps ==
    ASSUME Shaped, BlocksEnd, Visiting,
           NEW bs, NEW inst, NEW n \in {Cur, Cur + 1}, Added(bs, inst, n)
    PROVE  /\ JumpsOf(bs) = JumpBlocks \cup {b \in {Cur} : inst.op \in Jumps}
           /\ \A b \in JumpBlocks : LastOf(bs, b) = LastInst(b)
           /\ LastOf(bs, Cur) = inst
<1>1. /\ Cur \in Nat /\ Cur > 0 /\ DOMAIN blocks = 1 .. Cur
      /\ \A b \in 1 .. Cur : Len(blocks[b]) \in Nat
      /\ JumpBlocks \subseteq 1 .. (Cur - 1)
  BY BlockFacts, JumpFacts DEF Visiting
<1>2. DOMAIN bs = 1 .. n /\ n \in Nat /\ IsSeq(bs[Cur])
  BY <1>1, SeqFacts DEF Added, AreSeqs
<1>3. LastOf(bs, Cur) = inst /\ bs[Cur] # <<>>
  <2>1. Len(bs[Cur]) = Len(blocks[Cur]) + 1
    BY DEF Added
  <2>2. bs[Cur] # <<>>
    BY <1>1, <1>2, <2>1, SeqFacts
  <2> QED
    BY <2>1, <2>2 DEF Added, LastOf
<1>4. \A b \in 1 .. (Cur - 1) : bs[b] = blocks[b] /\ LastOf(bs, b) = LastInst(b)
  BY DEF Added, LastOf, LastInst
<1>5. \A b \in 1 .. n : b > Cur => bs[b] = <<>>
  BY <1>1 DEF Added
<1>6. ASSUME NEW b
      PROVE  b \in JumpsOf(bs) <=> b \in JumpBlocks \/ (b = Cur /\ inst.op \in Jumps)
  <2>1. CASE b \in 1 .. (Cur - 1)
    BY <2>1, <1>1, <1>2, <1>4 DEF JumpsOf, JumpBlocks
  <2>2. CASE b = Cur
    BY <2>2, <1>1, <1>2, <1>3 DEF JumpsOf
  <2>3. CASE b \notin 1 .. Cur
    <3>1. b \notin JumpsOf(bs)
      BY <2>3, <1>1, <1>2, <1>5 DEF JumpsOf
    <3>2. Cur \in 1 .. Cur /\ 1 .. (Cur - 1) \subseteq 1 .. Cur
      BY <1>1
    <3>3. b \notin JumpBlocks /\ b # Cur
      BY <2>3, <1>1, <3>2
    <3> QED
      BY <3>1, <3>3
  <2> QED
    BY <2>1, <2>2, <2>3, <1>1
<1> QED
  BY <1>1, <1>3, <1>4, <1>6

LEMMA RetargetJumps ==
    ASSUME NEW bs, AreSeqs(bs), NEW S \in SUBSET JumpsOf(bs), NEW t \in Nat \ {0}, NEW new,
           \A b \in S : WellMade(LastOf(bs, b)),
           Retargeted(bs, new, S, t)
    PROVE  /\ JumpsOf(new) = JumpsOf(bs)
           /\ \A b \in JumpsOf(bs) :
                 /\ b \in S => Targeted(LastOf(bs, b), LastOf(new, b), t)
                 /\ b \notin S => LastOf(new, b) = LastOf(bs, b)
<1>1. Len(bs) \in Nat /\ DOMAIN bs = 1 .. Len(bs) /\ DOMAIN new = DOMAIN bs
  BY SeqFacts DEF AreSeqs, Retargeted
<1>2. ASSUME NEW b \in DOMAIN bs
      PROVE  /\ new[b] = <<>> <=> bs[b] = <<>>
             /\ b \in S => Targeted(LastOf(bs, b), LastOf(new, b), t)
             /\ bs[b] # <<>> /\ b \notin S => LastOf(new, b) = LastOf(bs, b)
  <2>1. /\ IsSeq(bs[b]) /\ IsSeq(new[b]) /\ Len(new[b]) = Len(bs[b])
        /\ DOMAIN bs[b] = 1 .. Len(bs[b]) /\ Len(bs[b]) \in Nat
    BY <1>1, <1>2, SeqFacts DEF Retargeted, AreSeqs
  <2>2. new[b] = <<>> <=> bs[b] = <<>>
    BY <2>1, SeqFacts
  <2>3. ASSUME bs[b] # <<>>
        PROVE  LastOf(new, b) = IF b \in S THEN SetTarget(LastOf(bs, b), t) ELSE LastOf(bs, b)
    <3>1. Len(bs[b]) \in DOMAIN bs[b]
      BY <2>1, <2>3, SeqFacts
    <3> QED
      BY <1>2, <2>1, <3>1 DEF Retargeted, LastOf
  <2>4. ASSUME b \in S PROVE Targeted(LastOf(bs, b), LastOf(new, b), t)
    <3>1. /\ bs[b] # <<>> /\ LastOf(bs, b).op \in Jumps /\ WellMade(LastOf(bs, b))
      BY <2>4 DEF JumpsOf
    <3>2. LastOf(new, b) = SetTarget(LastOf(bs, b), t)
      BY <2>3, <2>4, <3>1
    <3> QED
      BY <3>1, <3>2, SetTargetFacts
  <2> QED
    BY <2>2, <2>3, <2>4
<1>3. \A b \in JumpsOf(bs) : LastOf(new, b).op = LastOf(bs, b).op
  BY <1>2 DEF JumpsOf, Targeted
<1>4. \A b \in DOMAIN bs : bs[b] # <<>> => LastOf(new, b).op = LastOf(bs, b).op
  BY <1>2, <1>3
<1> QED
  BY <1>1, <1>2, <1>4 DEF JumpsOf

\* The statements visited stay.
StmtsKept == \A i \in DOMAIN src.stmts : i \in DOMAIN src'.stmts /\ src'.stmts[i] = src.stmts[i]

\* Jumps, tags and statements stay.
LEMMA SameLists ==
    ASSUME Listed, JumpBlocks' = JumpBlocks, StmtsKept,
           \A b \in JumpBlocks : LastInst(b)' = LastInst(b),
           \A n \in Idents : \/ TagSym(n)' = TagSym(n)
                             \/ TagSym(n).type # "tag" /\ TagSym(n)'.type # "tag"
    PROVE  Listed'
<1>1. Tags' = Tags /\ Pending' = Pending /\ \A n \in Tags : TagSym(n)' = TagSym(n)
  BY DEF Tags, Pending, TagSym
<1>2. \A b \in JumpBlocks, n \in Idents : Names(b, n) => Names(b, n)'
  BY DEF Names, StmtsKept
<1>3. ASSUME NEW n \in Tags PROVE Lists(TagSym(n), n)'
  <2>1. Lists(TagSym(n), n) /\ n \in Idents /\ TagSym(n)' = TagSym(n)
    BY <1>1, <1>3 DEF Listed, Tags
  <2> QED
    BY <1>2, <2>1 DEF Lists
<1>4. \A b \in JumpBlocks' : LastInst(b)'.target = 0 =>
          \E n \in Pending' : b \in TagSym(n)'.jump_insts
  BY <1>1 DEF Listed, Pending, Tags, TagSym
<1> QED
  BY <1>1, <1>3, <1>4 DEF Listed
-----------------------------------------------------------------------------
(***************************************************************************)
(* Tags and the jumps to them.                                             *)
(***************************************************************************)

\* A symbol added is that of its name; the others stay.
LEMMA AddSymbolFacts ==
    ASSUME NEW sc, AreScopes(sc), NEW n \in Idents, NEW s
    PROVE  /\ AreScopes(add_symbol(sc, n, s)) /\ Len(add_symbol(sc, n, s)) = Len(sc)
           /\ add_symbol(sc, n, s)[Len(sc)][n] = s
           /\ \A u \in Idents \ {n} : add_symbol(sc, n, s)[Len(sc)][u] = sc[Len(sc)][u]
<1> DEFINE top == [sc[Len(sc)] EXCEPT ![n] = s]
           new == [sc EXCEPT ![Len(sc)] = top]
<1>1. IsSeq(sc) /\ Len(sc) \in DOMAIN sc /\ DOMAIN sc[Len(sc)] = Idents
  BY SeqFacts DEF AreScopes
<1>2. /\ DOMAIN top = Idents /\ top[n] = s
      /\ \A u \in Idents \ {n} : top[u] = sc[Len(sc)][u]
  BY <1>1
<1>3. add_symbol(sc, n, s) = new
  BY DEF add_symbol
<1> HIDE DEF top
<1>4. /\ IsSeq(new) /\ Len(new) = Len(sc) /\ new[Len(sc)] = top
      /\ \A i \in DOMAIN sc : i # Len(sc) => new[i] = sc[i]
  BY <1>1, ExceptFacts
<1> HIDE DEF new
<1>5. DOMAIN new = DOMAIN sc /\ new # <<>>
  BY <1>1, <1>4, SeqFacts DEF AreScopes
<1>6. \A i \in DOMAIN new : DOMAIN new[i] = Idents
  BY <1>2, <1>4, <1>5 DEF AreScopes
<1> QED
  BY <1>2, <1>3, <1>4, <1>5, <1>6 DEF AreScopes

\* TagOf gives the symbol there is, or one that lists nothing.
LEMMA TagOfFacts ==
    ASSUME Listed, NEW n \in Idents, TagOf(n).type = "tag"
    PROVE  /\ Lists(TagOf(n), n)
           /\ n \in Tags => TagSym(n) = TagOf(n)
<1>1. CASE exist_in_scope(scopes, n)
  <2>1. TagOf(n) = TagSym(n)
    BY <1>1 DEF TagOf, TagSym
  <2> QED
    BY <2>1 DEF Tags, TagSym, Listed
<1>2. CASE ~exist_in_scope(scopes, n)
  <2>1. TagOf(n) = [type |-> "tag", target |-> 0, jump_insts |-> {}]
    BY <1>2 DEF TagOf, TagSymbol
  <2>2. n \notin Tags
    BY <1>2 DEF Tags, exist_in_scope, NoSymbol
  <2> QED
    BY <2>1, <2>2 DEF Lists
<1> QED
  BY <1>1, <1>2

\* A step makes s the symbol of tag n, and no other.
Relisted(n, s) ==
    /\ DOMAIN s = {"type", "target", "jump_insts"} /\ s.type = "tag" /\ s.target \in Nat
    /\ TagSym(n)' = s
    /\ \A u \in Idents \ {n} : TagSym(u)' = TagSym(u)

LEMMA RelistedTags ==
    ASSUME NEW n \in Idents, NEW s, Relisted(n, s)
    PROVE  /\ Tags' = Tags \cup {n}
           /\ Pending' = (Pending \ {n}) \cup {u \in {n} : s.target = 0}
           /\ TagSym(n)' = s /\ \A u \in Tags \ {n} : TagSym(u)' = TagSym(u)
           /\ Pending = {u \in Tags : TagSym(u).target = 0}
<1>1. /\ TagSym(n)' = s /\ s.type = "tag"
      /\ \A u \in Idents \ {n} : TagSym(u)' = TagSym(u)
  BY DEF Relisted
<1>2. /\ Tags = {u \in Idents : TagSym(u).type = "tag"}
      /\ Tags' = {u \in Idents : TagSym(u)'.type = "tag"}
      /\ Pending = {u \in Idents : TagSym(u).type = "tag" /\ TagSym(u).target = 0}
      /\ Pending' = {u \in Idents : TagSym(u)'.type = "tag" /\ TagSym(u)'.target = 0}
  BY DEF Tags, Pending, TagSym
<1> QED
  BY <1>1, <1>2

\* The jump j to tag n ends block c: in the list of n if n has no block.
LEMMA JumpLists ==
    ASSUME Listed, StmtsKept,
           NEW n \in Idents, NEW t, Lists(t, n), n \in Tags => TagSym(n) = t,
           NEW c, c \notin JumpBlocks, JumpBlocks' = JumpBlocks \cup {c},
           \A b \in JumpBlocks : LastOf(blocks', b) = LastInst(b),
           NEW j, LastOf(blocks', c) = j, j.target = t.target,
           j.stmt \in DOMAIN src'.stmts, src'.stmts[j.stmt].n = n,
           NEW s, Relisted(n, s), s.target = t.target,
           s.jump_insts = t.jump_insts \cup {b \in {c} : t.target = 0}
    PROVE  Listed'
<1>1. \A b : LastInst(b)' = LastOf(blocks', b)
  BY DEF LastInst, LastOf
<1>2. \A b \in JumpBlocks, u \in Idents : Names(b, u) => Names(b, u)'
  BY <1>1 DEF Names, StmtsKept
<1>3. Names(c, n)'
  BY <1>1 DEF Names
<1>4. /\ Tags' = Tags \cup {n}
      /\ Pending' = (Pending \ {n}) \cup {u \in {n} : s.target = 0}
      /\ TagSym(n)' = s /\ \A u \in Tags \ {n} : TagSym(u)' = TagSym(u)
      /\ Pending = {u \in Tags : TagSym(u).target = 0}
  BY RelistedTags
<1>5. Lists(s, n)'
  <2>1. \A b \in t.jump_insts :
           /\ b \in JumpBlocks /\ Names(b, n)
           /\ LastInst(b).target = 0 <=> t.target = 0
           /\ "RepeatedTag" \notin Sloppy => LastInst(b).target = t.target
    BY DEF Lists
  <2>2. ASSUME NEW b \in s.jump_insts
        PROVE  /\ b \in JumpBlocks' /\ Names(b, n)'
               /\ LastInst(b)'.target = 0 <=> s.target = 0
               /\ "RepeatedTag" \notin Sloppy => LastInst(b)'.target = s.target
    <3>1. CASE b \in t.jump_insts
      BY <1>1, <1>2, <2>1, <3>1
    <3>2. CASE b = c
      BY <1>1, <1>3, <3>2
    <3> QED
      BY <2>2, <3>1, <3>2
  <2> QED
    BY <2>2 DEF Lists, Relisted
<1>6. ASSUME NEW u \in Tags \ {n} PROVE Lists(TagSym(u), u)'
  <2>1. Lists(TagSym(u), u) /\ TagSym(u)' = TagSym(u) /\ u \in Idents
    BY <1>4, <1>6 DEF Listed, Tags
  <2> QED
    BY <1>1, <1>2, <2>1 DEF Lists
<1>7. ASSUME NEW b \in JumpBlocks', LastInst(b)'.target = 0
      PROVE  \E u \in Pending' : b \in TagSym(u)'.jump_insts
  <2>1. CASE b = c
    BY <1>1, <1>4, <1>7, <2>1
  <2>2. CASE b \in JumpBlocks
    <3>1. LastInst(b).target = 0
      BY <1>1, <1>7, <2>2
    <3>2. PICK u \in Pending : b \in TagSym(u).jump_insts
      BY <2>2, <3>1 DEF Listed
    <3>3. CASE u = n
      <4>1. t = TagSym(n) /\ t.target = 0
        BY <1>4, <3>2, <3>3
      <4> QED
        BY <1>4, <3>2, <3>3, <4>1
    <3>4. CASE u # n
      BY <1>4, <3>2, <3>4
    <3> QED
      BY <3>3, <3>4
  <2> QED
    BY <1>7, <2>1, <2>2
<1> QED
  <2>1. \A u \in Tags' : Lists(TagSym(u), u)'
    BY <1>4, <1>5, <1>6 DEF Lists
  <2> QED
    BY <2>1, <1>7 DEF Listed
\* Tag n gets the block b: so do the jumps in its list, and no others.
LEMMA TagLists ==
    ASSUME Listed, StmtsKept,
           NEW n \in Idents, NEW t, Lists(t, n), n \in Tags => TagSym(n) = t,
           t.target # 0 => "RepeatedTag" \in Sloppy,
           NEW to \in Nat \ {0},
           NEW c, c \notin JumpBlocks, JumpBlocks' = JumpBlocks \cup {c},
           LastOf(blocks', c).target = to,
           \A b \in JumpBlocks :
              /\ b \in t.jump_insts => Targeted(LastInst(b), LastOf(blocks', b), to)
              /\ b \notin t.jump_insts => LastOf(blocks', b) = LastInst(b),
           NEW s, Relisted(n, s), s.target = to, s.jump_insts = t.jump_insts
    PROVE  Listed'
<1>1. \A b : LastInst(b)' = LastOf(blocks', b)
  BY DEF LastInst, LastOf
<1>2. \A b \in JumpBlocks : LastInst(b)'.stmt = LastInst(b).stmt
  BY <1>1 DEF Targeted
<1>3. \A b \in JumpBlocks, u \in Idents : Names(b, u) => Names(b, u)'
  BY <1>2 DEF Names, StmtsKept
<1>4. /\ Tags' = Tags \cup {n}
      /\ Pending' = (Pending \ {n}) \cup {u \in {n} : s.target = 0}
      /\ TagSym(n)' = s /\ \A u \in Tags \ {n} : TagSym(u)' = TagSym(u)
      /\ Pending = {u \in Tags : TagSym(u).target = 0}
  BY RelistedTags
<1>5. \A b \in t.jump_insts :
         /\ b \in JumpBlocks /\ Names(b, n)
         /\ LastInst(b).target = 0 <=> t.target = 0
  BY DEF Lists
<1>6. \A b \in t.jump_insts : LastInst(b)'.target = IF t.target = 0 THEN to ELSE LastInst(b).target
  BY <1>1, <1>5 DEF Targeted
<1>7. Lists(s, n)'
  <2>1. ASSUME NEW b \in s.jump_insts
        PROVE  /\ b \in JumpBlocks' /\ Names(b, n)'
               /\ LastInst(b)'.target = 0 <=> s.target = 0
               /\ "RepeatedTag" \notin Sloppy => LastInst(b)'.target = s.target
    BY <1>3, <1>5, <1>6, <2>1
  <2> QED
    BY <2>1 DEF Lists, Relisted
<1>8. ASSUME NEW u \in Tags \ {n} PROVE Lists(TagSym(u), u)'
  <2>1. Lists(TagSym(u), u) /\ TagSym(u)' = TagSym(u) /\ u \in Idents
    BY <1>4, <1>8 DEF Listed, Tags
  <2>2. \A b \in TagSym(u).jump_insts : b \in JumpBlocks /\ b \notin t.jump_insts
    BY <1>5, <1>8, <2>1 DEF Lists, Names
  <2>3. \A b \in TagSym(u).jump_insts : LastInst(b)' = LastInst(b)
    BY <1>1, <2>2
  <2> QED
    BY <1>3, <2>1, <2>2, <2>3 DEF Lists
<1>9. ASSUME NEW b \in JumpBlocks', LastInst(b)'.target = 0
      PROVE  \E u \in Pending' : b \in TagSym(u)'.jump_insts
  <2>1. b \in JumpBlocks /\ b \notin t.jump_insts
    BY <1>1, <1>5, <1>6, <1>9
  <2>2. LastInst(b).target = 0
    BY <1>1, <1>9, <2>1
  <2>3. PICK u \in Pending : b \in TagSym(u).jump_insts
    BY <2>1, <2>2 DEF Listed
  <2>4. u # n /\ u \in Tags
    BY <1>4, <2>1, <2>3
  <2> QED
    BY <1>4, <2>3, <2>4
<1> QED
  <2>1. \A u \in Tags' : Lists(TagSym(u), u)'
    BY <1>4, <1>7, <1>8 DEF Lists
  <2> QED
    BY <2>1, <1>9 DEF Listed

-----------------------------------------------------------------------------
(***************************************************************************)
(* The actions.                                                            *)
(***************************************************************************)

\* What each step has to keep.
Fine == VisitorInv' /\ Keeps

\* A statement visited is the last of the program.
LEMMA VisitFacts ==
    ASSUME Scoped, NEW s, Visit(s)
    PROVE  /\ Visiting /\ StmtsKept /\ "stmts" \in DOMAIN src' /\ IsSeq(src'.stmts)
           /\ Here \in DOMAIN src'.stmts /\ src'.stmts[Here] = s
<1>1. src'.stmts = Append(src.stmts, s) /\ "stmts" \in DOMAIN src'
  BY DEF Visit, Scoped
<1>2. /\ IsSeq(src'.stmts) /\ Len(src'.stmts) = Len(src.stmts) + 1
      /\ src'.stmts[Len(src.stmts) + 1] = s
      /\ \A i \in DOMAIN src.stmts : src'.stmts[i] = src.stmts[i]
  BY <1>1, AppendFacts DEF Scoped
<1>3. /\ DOMAIN src.stmts = 1 .. Len(src.stmts) /\ Len(src.stmts) \in Nat
      /\ DOMAIN src'.stmts = 1 .. Len(src'.stmts)
  BY <1>2, SeqFacts DEF Scoped
<1> QED
  BY <1>1, <1>2, <1>3 DEF StmtsKept, Here, Visit, Visiting

\* Blocks and scopes stay: the statement is given up, or the compiler ends.
LEMMA NothingFine ==
    ASSUME VisitorInv, StmtsKept, "stmts" \in DOMAIN src', IsSeq(src'.stmts), Visiting,
           phase' \in {"stmts", "crashed"}, UNCHANGED <<scopes, blocks>>
    PROVE  Fine
<1>1. phase \notin {"funcs", "done"} /\ phase' \notin {"funcs", "done", "decls"}
  BY DEF Visiting
<1>2. Shaped' /\ Scoped'
  BY <1>1 DEF VisitorInv, Shaped, Scoped, Sound, Agrees, WellMade, Cur
<1>3. BlocksEnd'
  BY <1>1 DEF VisitorInv, BlocksEnd, Cur
<1>4. JumpBlocks' = JumpBlocks /\ \A b \in JumpBlocks : LastInst(b)' = LastInst(b)
  BY DEF JumpBlocks, LastInst
<1>5. \A n \in Idents : TagSym(n)' = TagSym(n)
  BY DEF TagSym
<1>6. Listed'
  BY <1>4, <1>5, SameLists DEF VisitorInv
<1>7. Keeps
  BY DEF Keeps, Patched
<1> QED
  BY <1>1, <1>2, <1>3, <1>6, <1>7 DEF Fine, VisitorInv

LEMMA GiveUpFine ==
    ASSUME VisitorInv, NEW s, Visit(s), NEW kinds, NEW names, NEW es, GiveUp(kinds, names, es)
    PROVE  Fine
BY VisitFacts, NothingFine DEF GiveUp, VisitorInv

LEMMA CrashFine == ASSUME VisitorInv, NEW s, Visit(s), Crash PROVE Fine
BY VisitFacts, NothingFine DEF Crash, VisitorInv
\* An instruction that ends no block goes to the current one; tags stay.
LEMMA EmitFine ==
    ASSUME VisitorInv, StmtsKept, "stmts" \in DOMAIN src', IsSeq(src'.stmts), Visiting,
           NEW inst, inst.op \notin Terminators, blocks' = Emit(inst),
           phase' = "stmts" \/ phase' = phase, AreScopes(scopes'),
           \A n \in Idents : \/ TagSym(n)' = TagSym(n)
                             \/ TagSym(n).type # "tag" /\ TagSym(n)'.type # "tag"
    PROVE  Fine
<1>1. Shaped /\ BlocksEnd /\ AreSeqs(blocks) /\ blocks # <<>> /\ inst.op \notin Jumps
  BY DEF VisitorInv, Shaped, Visiting, Terminators, Jumps
<1>2. Added(blocks', inst, Cur) /\ Sound(inst)
  BY <1>1, EmitFacts DEF Sound, WellMade, Agrees
<1>3. Grown(blocks', inst, Cur)
  BY <1>1, <1>2, AddedGrown DEF Visiting
<1>4. phase' \in {"decls", "stmts"} /\ (phase' = "decls" => Cur' = 1)
  BY <1>1, <1>2 DEF Added, Visiting, Shaped, Cur
<1>5. Cur \in Nat
  BY <1>1, BlockFacts DEF Visiting
<1>6. Shaped' /\ BlocksEnd' /\ Keeps
  BY <1>1, <1>2, <1>3, <1>4, <1>5, GrownEnds
<1>7. /\ JumpsOf(blocks') = JumpBlocks
      /\ \A b \in JumpBlocks : LastOf(blocks', b) = LastInst(b)
  BY <1>1, <1>2, AddedJumps
<1>8. JumpBlocks' = JumpBlocks /\ \A b \in JumpBlocks : LastInst(b)' = LastInst(b)
  BY <1>7 DEF JumpsOf, LastOf, JumpBlocks, LastInst
<1>9. Listed'
  BY <1>8, SameLists DEF VisitorInv
<1> QED
  BY <1>4, <1>6, <1>9 DEF Fine, VisitorInv, Scoped

LEMMA GetFine == ASSUME VisitorInv, NEW n, _visit_get_stmt(n) PROVE Fine
<1> DEFINE s   == get_symbol(scopes, n)
           st  == [k |-> "get", n |-> n]
<1>1. Visit(st) /\ Scoped
  BY DEF _visit_get_stmt, VisitorInv
<1>2. CASE GiveUp({}, {n}, {}) \/ GiveUp({"undefined symbol"}, {n}, {})
  BY <1>1, <1>2, GiveUpFine
<1>3. CASE Crash
  BY <1>1, <1>3, CrashFine
<1>4. CASE Accept(Emit(Input(Here, s.cell))) /\ UNCHANGED scopes
  <2> DEFINE inst == Input(Here, s.cell)
  <2>1. inst.op \notin Terminators
    BY DEF Input, Terminators
  <2> HIDE DEF inst
  <2>2. blocks' = Emit(inst) /\ phase' = "stmts" /\ scopes' = scopes
    BY <1>4 DEF Accept, inst
  <2>3. /\ Visiting /\ StmtsKept /\ "stmts" \in DOMAIN src' /\ IsSeq(src'.stmts)
        /\ AreScopes(scopes') /\ \A u \in Idents : TagSym(u)' = TagSym(u)
    BY <1>1, <2>2, VisitFacts DEF Scoped, Visiting, TagSym
  <2> QED
    BY <2>1, <2>2, <2>3, EmitFine
<1> QED
  BY <1>2, <1>3, <1>4 DEF _visit_get_stmt

LEMMA PutFine == ASSUME VisitorInv, NEW e, _visit_put_stmt(e) PROVE Fine
<1> DEFINE r  == _visit_exp(e, scopes)
           st == [k |-> "put", e |-> e]
<1> HIDE DEF r
<1>1. Visit(st) /\ Scoped
  BY DEF _visit_put_stmt, VisitorInv
<1>2. CASE GiveUp(r.errs, {}, {e})
  BY <1>1, <1>2, GiveUpFine
<1>3. CASE Accept(Emit(Output(Here, r.val))) /\ UNCHANGED scopes
  <2> DEFINE inst == Output(Here, r.val)
  <2>1. inst.op \notin Terminators
    BY DEF Output, Terminators
  <2> HIDE DEF inst
  <2>2. blocks' = Emit(inst) /\ phase' = "stmts" /\ scopes' = scopes
    BY <1>3 DEF Accept, inst
  <2>3. /\ Visiting /\ StmtsKept /\ "stmts" \in DOMAIN src' /\ IsSeq(src'.stmts)
        /\ AreScopes(scopes') /\ \A u \in Idents : TagSym(u)' = TagSym(u)
    BY <1>1, <2>2, VisitFacts DEF Scoped, Visiting, TagSym
  <2> QED
    BY <2>1, <2>2, <2>3, EmitFine
<1> QED
  BY <1>2, <1>3 DEF _visit_put_stmt, r

LEMMA LetFine == ASSUME VisitorInv, NEW n, NEW e, _visit_let_stmt(n, e) PROVE Fine
<1> DEFINE s  == get_symbol(scopes, n)
           r  == _visit_exp(e, scopes)
           st == [k |-> "let", n |-> n, e |-> e]
<1> HIDE DEF r, s
<1>1. Visit(st) /\ Scoped
  BY DEF _visit_let_stmt, VisitorInv
<1>2. CASE \E kinds : GiveUp(kinds, {n}, {e})
  BY <1>1, <1>2, GiveUpFine
<1>3. CASE Accept(Emit(Store(Here, r.val, s.cell))) /\ UNCHANGED scopes
  <2> DEFINE inst == Store(Here, r.val, s.cell)
  <2>1. inst.op \notin Terminators
    BY DEF Store, Terminators
  <2> HIDE DEF inst
  <2>2. blocks' = Emit(inst) /\ phase' = "stmts" /\ scopes' = scopes
    BY <1>3 DEF Accept, inst
  <2>3. /\ Visiting /\ StmtsKept /\ "stmts" \in DOMAIN src' /\ IsSeq(src'.stmts)
        /\ AreScopes(scopes') /\ \A u \in Idents : TagSym(u)' = TagSym(u)
    BY <1>1, <2>2, VisitFacts DEF Scoped, Visiting, TagSym
  <2> QED
    BY <2>1, <2>2, <2>3, EmitFine
<1>4. \/ \E kinds : GiveUp(kinds, {n}, {e})
      \/ Accept(Emit(Store(Here, r.val, s.cell))) /\ UNCHANGED scopes
  BY DEF _visit_let_stmt, r, s
<1> QED
  BY <1>2, <1>3, <1>4

\* A variable gets the alloca and a symbol its name did not have.
LEMMA VarDeclFine == ASSUME VisitorInv, NEW n \in Idents \cup {NoIdent}, _visit_var_decl(n) PROVE Fine
<1> DEFINE ix == Len(src.decls) + 1
<1>1. phase = "decls" /\ phase' = "decls" /\ Cur = 1 /\ Scoped /\ AreScopes(scopes) /\ Visiting
  BY DEF _visit_var_decl, VisitorInv, Shaped, Scoped, Visiting
<1>2. src'.stmts = src.stmts /\ "stmts" \in DOMAIN src' /\ IsSeq(src'.stmts) /\ StmtsKept
  BY <1>1 DEF _visit_var_decl, Scoped, StmtsKept
<1>3. CASE UNCHANGED <<scopes, blocks>>
  <2>1. Shaped' /\ Scoped' /\ BlocksEnd'
    <3>1. Scoped'
      BY <1>1, <1>2, <1>3 DEF Scoped
    <3>2. Shaped /\ BlocksEnd /\ phase' = phase /\ phase = "decls" /\ blocks' = blocks
      BY <1>1, <1>3 DEF VisitorInv
    <3>3. Shaped'
      BY <3>2 DEF Shaped, Sound, Agrees, WellMade, Cur
    <3>4. BlocksEnd'
      BY <3>2 DEF BlocksEnd, Cur
    <3> QED
      BY <3>1, <3>3, <3>4
  <2>2. JumpBlocks' = JumpBlocks /\ \A b \in JumpBlocks : LastInst(b)' = LastInst(b)
    BY <1>3 DEF JumpBlocks, LastInst
  <2>3. \A u \in Idents : TagSym(u)' = TagSym(u)
    BY <1>3 DEF TagSym
  <2>4. Listed'
    BY <1>1, <1>2, <2>2, <2>3, SameLists DEF VisitorInv
  <2>5. Keeps
    BY <1>3 DEF Keeps, Patched
  <2> QED
    BY <1>1, <2>1, <2>4, <2>5 DEF Fine, VisitorInv
<1>4. CASE /\ n # NoIdent /\ ~exist_in_scope(scopes, n)
           /\ scopes' = add_symbol(scopes, n, VarSymbol(0, ix))
           /\ blocks' = [blocks EXCEPT ![1] = Append(@, Alloca([fn |-> 0, ix |-> ix]))]
  <2> DEFINE inst == Alloca([fn |-> 0, ix |-> ix])
             s    == VarSymbol(0, ix)
  <2>1. inst.op \notin Terminators /\ s.type = "var"
    BY DEF Alloca, Terminators, VarSymbol
  <2>2. blocks' = Emit(inst)
    BY <1>1, <1>4 DEF Emit
  <2> HIDE DEF inst, s
  <2>3. /\ AreScopes(scopes') /\ Len(scopes') = Len(scopes) /\ scopes'[Len(scopes)][n] = s
        /\ \A u \in Idents \ {n} : scopes'[Len(scopes)][u] = scopes[Len(scopes)][u]
    BY <1>1, <1>4, AddSymbolFacts DEF s
  <2>4. TagSym(n).type = "none" /\ TagSym(n)'.type = "var"
    BY <1>4, <2>1, <2>3 DEF TagSym, exist_in_scope, NoSymbol
  <2>5. \A u \in Idents \ {n} : TagSym(u)' = TagSym(u)
    BY <2>3 DEF TagSym
  <2> QED
    BY <1>1, <1>2, <2>1, <2>2, <2>3, <2>4, <2>5, EmitFine
<1> QED
  BY <1>3, <1>4 DEF _visit_var_decl
\* An instruction that has no target yet.
Untargeted(i, st) == /\ i.op \in Jumps /\ i.stmt = st /\ i.target = 0
                     /\ WellMade(i) /\ Agrees(i)

LEMMA NewJumps ==
    ASSUME NEW st, NEW v, NEW no
    PROVE  Untargeted(JumpInst(st), st) /\ Untargeted(BranchInst(st, v, no), st)
<1>1. Untargeted(JumpInst(st), st)
  <2> DEFINE i == JumpInst(st)
  <2>1. i = [op |-> "jump", stmt |-> st, target |-> 0, uses |-> <<>>]
    BY DEF JumpInst
  <2> HIDE DEF i
  <2>2. i.op = "jump" /\ i.stmt = st /\ i.target = 0 /\ i.uses = <<>> /\ WellMade(i)
    BY <2>1 DEF WellMade
  <2> QED
    BY <2>2 DEF Untargeted, Agrees, Jumps, i
<1>2. Untargeted(BranchInst(st, v, no), st)
  <2> DEFINE i == BranchInst(st, v, no)
  <2>1. i = [op |-> "branch", stmt |-> st, val |-> v, target |-> 0, other |-> no, uses |-> <<no>>]
    BY DEF BranchInst
  <2> HIDE DEF i
  <2>2. /\ i.op = "branch" /\ i.stmt = st /\ i.target = 0 /\ i.other = no /\ i.uses = <<no>>
        /\ WellMade(i)
    BY <2>1 DEF WellMade
  <2>3. i.uses = <<i.other>> \o <<>>
    BY <2>2
  <2> QED
    BY <2>2, <2>3 DEF Untargeted, Agrees, Jumps, i
<1> QED
  BY <1>1, <1>2

\* JumpTo gives it the target of the tag, if any.
LEMMA JumpToFacts ==
    ASSUME NEW i, NEW st, Untargeted(i, st), NEW t, t.target \in Nat
    PROVE  /\ Sound(JumpTo(t, i)) /\ JumpTo(t, i).op \in Jumps
           /\ JumpTo(t, i).stmt = st /\ JumpTo(t, i).target = t.target
<1>1. CASE t.target = 0
  BY <1>1 DEF JumpTo, Untargeted, Sound
<1>2. CASE t.target # 0
  <2>1. Targeted(i, SetTarget(i, t.target), t.target)
    BY <1>2, SetTargetFacts DEF Untargeted
  <2> QED
    BY <1>2, <2>1 DEF JumpTo, Untargeted, Targeted, Sound
<1> QED
  BY <1>1, <1>2

\* A jump to tag n ends the block.
LEMMA JumpFine ==
    ASSUME VisitorInv, NEW n \in Idents, TagOf(n).type = "tag",
           NEW s, Visit(s), s.n = n,
           NEW i, Untargeted(i, Here), Accept(EndBlock(JumpTo(TagOf(n), i))),
           scopes' = add_symbol(scopes, n, Waiting(TagOf(n)))
    PROVE  Fine
<1> DEFINE t == TagOf(n)
           j == JumpTo(t, i)
           w == Waiting(t)
<1>1. /\ Visiting /\ StmtsKept /\ "stmts" \in DOMAIN src' /\ IsSeq(src'.stmts)
      /\ Here \in DOMAIN src'.stmts /\ src'.stmts[Here] = s
  BY VisitFacts DEF VisitorInv
<1>2. /\ Shaped /\ BlocksEnd /\ Listed /\ AreScopes(scopes) /\ AreSeqs(blocks) /\ blocks # <<>>
      /\ Cur \in Nat /\ Cur \notin JumpBlocks
  BY <1>1, BlockFacts, JumpFacts DEF VisitorInv, Visiting, Scoped, Shaped
<1>3. Lists(t, n) /\ (n \in Tags => TagSym(n) = t)
  BY <1>2, TagOfFacts
<1>4. t.type = "tag" /\ blocks' = EndBlock(j) /\ phase' = "stmts" /\ scopes' = add_symbol(scopes, n, w)
  BY DEF Accept
<1> HIDE DEF t
<1>5. t.target \in Nat /\ DOMAIN t = {"type", "target", "jump_insts"}
  BY <1>3 DEF Lists
<1>6. Sound(j) /\ j.op \in Jumps /\ j.stmt = Here /\ j.target = t.target
  BY <1>5, JumpToFacts
<1>7. /\ DOMAIN w = {"type", "target", "jump_insts"} /\ w.type = "tag" /\ w.target = t.target
      /\ w.jump_insts = t.jump_insts \cup {b \in {Cur} : t.target = 0}
  <2>1. CASE t.target # 0
    BY <1>4, <1>5, <2>1 DEF Waiting
  <2>2. CASE t.target = 0
    <3>1. w = [t EXCEPT !.jump_insts = t.jump_insts \cup {Cur}]
      BY <2>2 DEF Waiting
    <3> HIDE DEF w
    <3> QED
      BY <1>4, <1>5, <2>2, <3>1
  <2> QED
    BY <2>1, <2>2
<1> HIDE DEF j, w
<1>8. Added(blocks', j, Cur + 1)
  BY <1>2, <1>4, EndBlockFacts
<1>9. Shaped' /\ BlocksEnd' /\ Keeps
  <2>1. Grown(blocks', j, Cur + 1)
    BY <1>1, <1>2, <1>8, AddedGrown DEF Visiting
  <2>2. j.op \in Terminators
    BY <1>6 DEF Jumps, Terminators
  <2> QED
    BY <1>1, <1>2, <1>4, <1>6, <2>1, <2>2, GrownEnds
<1>10. /\ JumpBlocks' = JumpBlocks \cup {Cur}
       /\ \A b \in JumpBlocks : LastOf(blocks', b) = LastInst(b)
       /\ LastOf(blocks', Cur) = j
  <2>1. /\ JumpsOf(blocks') = JumpBlocks \cup {b \in {Cur} : j.op \in Jumps}
        /\ \A b \in JumpBlocks : LastOf(blocks', b) = LastInst(b)
        /\ LastOf(blocks', Cur) = j
    BY <1>1, <1>2, <1>8, AddedJumps
  <2>2. JumpBlocks' = JumpsOf(blocks')
    BY DEF JumpBlocks, LastInst, JumpsOf, LastOf
  <2> QED
    BY <1>6, <2>1, <2>2
<1>11. AreScopes(scopes') /\ Relisted(n, w)
  <2>1. /\ AreScopes(scopes') /\ Len(scopes') = Len(scopes) /\ scopes'[Len(scopes)][n] = w
        /\ \A u \in Idents \ {n} : scopes'[Len(scopes)][u] = scopes[Len(scopes)][u]
    BY <1>2, <1>4, AddSymbolFacts
  <2>2. TagSym(n)' = w /\ \A u \in Idents \ {n} : TagSym(u)' = TagSym(u)
    BY <2>1 DEF TagSym
  <2> QED
    BY <1>5, <1>7, <2>1, <2>2 DEF Relisted
<1>12. Listed'
  <2>1. j.stmt \in DOMAIN src'.stmts /\ src'.stmts[j.stmt].n = n
    BY <1>1, <1>6
  <2> QED
    BY <1>1, <1>2, <1>3, <1>6, <1>7, <1>10, <1>11, <2>1, JumpLists
<1> QED
  BY <1>1, <1>4, <1>9, <1>11, <1>12 DEF Fine, VisitorInv, Scoped

LEMMA ToFine ==
    ASSUME VisitorInv, NEW n \in Idents \cup {NoIdent}, _visit_to_stmt(n) PROVE Fine
<1> DEFINE t  == TagOf(n)
           st == [k |-> "to", n |-> n]
<1>1. Visit(st) /\ st.n = n
  BY DEF _visit_to_stmt
<1>2. CASE \E kinds : GiveUp(kinds, {n}, {})
  BY <1>1, <1>2, GiveUpFine
<1>3. CASE /\ n # NoIdent /\ t.type = "tag"
           /\ Accept(EndBlock(JumpTo(t, JumpInst(Here))))
           /\ scopes' = add_symbol(scopes, n, Waiting(t))
  <2>1. n \in Idents /\ Untargeted(JumpInst(Here), Here)
    BY <1>3, NewJumps
  <2> HIDE DEF st
  <2> QED
    BY <1>1, <1>3, <2>1, JumpFine
<1> QED
  BY <1>2, <1>3 DEF _visit_to_stmt

LEMMA IfFine ==
    ASSUME VisitorInv, NEW c, NEW n \in Idents \cup {NoIdent}, _visit_if_stmt(c, n) PROVE Fine
<1> DEFINE t  == TagOf(n)
           r  == _visit_exp(c, scopes)
           st == [k |-> "if", e |-> c, n |-> n]
<1> HIDE DEF r
<1>1. Visit(st) /\ st.n = n
  BY DEF _visit_if_stmt
<1>2. CASE \E kinds : GiveUp(kinds, {n}, {c})
  BY <1>1, <1>2, GiveUpFine
<1>3. CASE Crash
  BY <1>1, <1>3, CrashFine
<1>4. CASE /\ n # NoIdent /\ t.type = "tag"
           /\ Accept(EndBlock(JumpTo(t, BranchInst(Here, r.val, Cur + 1))))
           /\ scopes' = add_symbol(scopes, n, Waiting(t))
  <2> DEFINE i == BranchInst(Here, r.val, Cur + 1)
  <2>1. n \in Idents /\ Untargeted(i, Here)
    BY <1>4, NewJumps
  <2> HIDE DEF st, i
  <2>2. Accept(EndBlock(JumpTo(t, i)))
    BY <1>4 DEF i
  <2> QED
    BY <1>1, <1>4, <2>1, <2>2, JumpFine
<1>5. \/ \E kinds : GiveUp(kinds, {n}, {c})
      \/ Crash
      \/ /\ n # NoIdent /\ t.type = "tag"
         /\ Accept(EndBlock(JumpTo(t, BranchInst(Here, r.val, Cur + 1))))
         /\ scopes' = add_symbol(scopes, n, Waiting(t))
  BY DEF _visit_if_stmt, r
<1> QED
  BY <1>2, <1>3, <1>4, <1>5
\* A tag's definition ends the block and gives the jumps listed the new one.
LEMMA TagFine ==
    ASSUME VisitorInv, NEW n \in Idents \cup {NoIdent}, _visit_tag_stmt(n) PROVE Fine
<1> DEFINE t   == TagOf(n)
           new == Cur + 1
           j   == SetTarget(JumpInst(Here), new)
           bs  == EndBlock(j)
           S   == t.jump_insts
           w   == [t EXCEPT !.target = new]
           st  == [k |-> "tag", n |-> n]
<1>1. Visit(st) /\ st.n = n
  BY DEF _visit_tag_stmt
<1>2. CASE \E kinds : GiveUp(kinds, {n}, {})
  BY <1>1, <1>2, GiveUpFine
<1>3. CASE /\ n # NoIdent /\ t.type = "tag" /\ (t.target # 0 => "RepeatedTag" \in Sloppy)
           /\ Accept(Retarget(bs, S, new)) /\ scopes' = add_symbol(scopes, n, w)
  <2> HIDE DEF st
  <2>1. /\ Visiting /\ StmtsKept /\ "stmts" \in DOMAIN src' /\ IsSeq(src'.stmts)
        /\ Here \in DOMAIN src'.stmts /\ src'.stmts[Here] = st
    BY <1>1, VisitFacts DEF VisitorInv
  <2>2. /\ Shaped /\ BlocksEnd /\ Listed /\ AreScopes(scopes) /\ AreSeqs(blocks) /\ blocks # <<>>
        /\ Cur \in Nat /\ Cur \notin JumpBlocks /\ new \in Nat \ {0}
    BY <2>1, BlockFacts, JumpFacts DEF VisitorInv, Visiting, Scoped, Shaped
  <2>3. n \in Idents /\ Lists(t, n) /\ (n \in Tags => TagSym(n) = t)
    BY <1>3, <2>2, TagOfFacts
  <2>4. /\ t.type = "tag" /\ blocks' = Retarget(bs, S, new) /\ phase' = "stmts"
        /\ scopes' = add_symbol(scopes, n, w) /\ (t.target # 0 => "RepeatedTag" \in Sloppy)
    BY <1>3 DEF Accept
  <2> HIDE DEF t
  <2>5. /\ t.target \in Nat /\ DOMAIN t = {"type", "target", "jump_insts"}
        /\ S \subseteq JumpBlocks
        /\ \A b \in S : LastInst(b).target = 0 <=> t.target = 0
    BY <2>3 DEF Lists
  <2>6. /\ DOMAIN w = {"type", "target", "jump_insts"} /\ w.type = "tag" /\ w.target = new
        /\ w.jump_insts = S
    BY <2>4, <2>5
  <2>7. Sound(j) /\ j.op \in Jumps /\ j.target = new
    <3>1. Untargeted(JumpInst(Here), Here)
      BY NewJumps
    <3>2. Targeted(JumpInst(Here), j, new)
      BY <2>2, <3>1, SetTargetFacts DEF Untargeted
    <3> QED
      BY <3>1, <3>2 DEF Untargeted, Targeted, Sound
  <2> HIDE DEF j, w, S, new
  <2>8. Added(bs, j, Cur + 1) /\ AreSeqs(bs)
    BY <2>2, EndBlockFacts DEF Added
  <2> HIDE DEF bs
  <2>9. /\ JumpsOf(bs) = JumpBlocks \cup {Cur}
        /\ \A b \in JumpBlocks : LastOf(bs, b) = LastInst(b)
        /\ LastOf(bs, Cur) = j
    <3>1. /\ JumpsOf(bs) = JumpBlocks \cup {b \in {Cur} : j.op \in Jumps}
          /\ \A b \in JumpBlocks : LastOf(bs, b) = LastInst(b)
          /\ LastOf(bs, Cur) = j
      BY <2>1, <2>2, <2>8, AddedJumps
    <3> QED
      BY <2>7, <3>1
  <2>10. S \subseteq JumpsOf(bs) /\ Cur \notin S
    BY <2>2, <2>5, <2>9
  <2>11. Retargeted(bs, blocks', S, new)
    <3>1. \A c \in S : bs[c] # <<>>
      BY <2>10 DEF JumpsOf
    <3> QED
      BY <2>4, <2>8, <3>1, RetargetFacts
  <2>12. Shaped' /\ BlocksEnd' /\ Keeps
    <3>1. "RepeatedTag" \notin Sloppy => \A b \in S : LastInst(b).target = 0
      BY <2>4, <2>5
    <3>2. phase # "funcs" /\ Cur + 1 > Cur
      BY <2>1, <2>2 DEF Visiting
    <3>3. S \in SUBSET JumpBlocks
      BY <2>5
    <3>4. Grown(blocks', j, Cur + 1)
      BY <2>2, <2>8, <2>10, <2>11, <3>1, <3>2, <3>3, RetargetGrown
    <3>5. j.op \in Terminators
      BY <2>7 DEF Jumps, Terminators
    <3> QED
      BY <2>1, <2>2, <2>4, <2>7, <3>4, <3>5, GrownEnds
  <2>13. /\ JumpBlocks' = JumpBlocks \cup {Cur}
         /\ \A b \in JumpBlocks :
               /\ b \in S => Targeted(LastInst(b), LastOf(blocks', b), new)
               /\ b \notin S => LastOf(blocks', b) = LastInst(b)
         /\ LastOf(blocks', Cur).target = new
    <3>1. \A b \in S : WellMade(LastOf(bs, b))
      <4> SUFFICES ASSUME NEW b \in S PROVE WellMade(LastInst(b))
        BY <2>5, <2>9
      <4>1. b \in 1 .. Cur /\ Len(blocks[b]) \in DOMAIN blocks[b] /\ b \in DOMAIN blocks
        BY <2>1, <2>2, <2>5, BlockFacts DEF JumpBlocks, Visiting
      <4> QED
        BY <2>2, <4>1 DEF Shaped, Sound, LastInst
    <3>2. S \in SUBSET JumpsOf(bs)
      BY <2>10
    <3>3. /\ JumpsOf(blocks') = JumpsOf(bs)
          /\ \A b \in JumpsOf(bs) :
                /\ b \in S => Targeted(LastOf(bs, b), LastOf(blocks', b), new)
                /\ b \notin S => LastOf(blocks', b) = LastOf(bs, b)
      <4>1. new \in Nat \ {0} /\ AreSeqs(bs)
        BY <2>2, <2>8
      <4> QED
        BY <2>11, <3>1, <3>2, <4>1, RetargetJumps
    <3>4. JumpBlocks' = JumpsOf(blocks')
      BY DEF JumpBlocks, LastInst, JumpsOf, LastOf
    <3> QED
      BY <2>7, <2>9, <2>10, <3>3, <3>4
  <2>14. AreScopes(scopes') /\ Relisted(n, w)
    <3>1. /\ AreScopes(scopes') /\ Len(scopes') = Len(scopes) /\ scopes'[Len(scopes)][n] = w
          /\ \A u \in Idents \ {n} : scopes'[Len(scopes)][u] = scopes[Len(scopes)][u]
      BY <2>2, <2>3, <2>4, AddSymbolFacts
    <3>2. TagSym(n)' = w /\ \A u \in Idents \ {n} : TagSym(u)' = TagSym(u)
      BY <3>1 DEF TagSym
    <3> QED
      BY <2>2, <2>6, <3>1, <3>2 DEF Relisted
  <2>15. Listed'
    BY <2>1, <2>2, <2>3, <2>4, <2>6, <2>13, <2>14, TagLists DEF S
  <2> QED
    BY <2>1, <2>4, <2>12, <2>14, <2>15 DEF Fine, VisitorInv, Scoped
<1> QED
  BY <1>2, <1>3 DEF _visit_tag_stmt
\* A scope pushed.
LEMMA PushFacts ==
    ASSUME NEW sc, AreScopes(sc), NEW top, DOMAIN top = Idents
    PROVE  /\ AreScopes(Append(sc, top)) /\ Append(sc, top)[Len(Append(sc, top))] = top
<1> DEFINE new == Append(sc, top)
<1>1. /\ IsSeq(new) /\ Len(new) = Len(sc) + 1 /\ new[Len(sc) + 1] = top
      /\ \A i \in DOMAIN sc : new[i] = sc[i]
  BY AppendFacts DEF AreScopes
<1> HIDE DEF new
<1>2. /\ DOMAIN new = 1 .. (Len(sc) + 1) /\ DOMAIN sc = 1 .. Len(sc) /\ Len(sc) \in Nat
      /\ new # <<>>
  BY <1>1, SeqFacts DEF AreScopes
<1>3. \A i \in DOMAIN new : DOMAIN new[i] = Idents
  BY <1>1, <1>2 DEF AreScopes
<1> QED
  BY <1>1, <1>2, <1>3 DEF AreScopes, new

\* Before main there are only scopes.
LEMMA FuncDefFine ==
    ASSUME VisitorInv, NEW n \in Idents \cup {NoIdent}, NEW params, NEW e,
           _visit_func_def(n, params, e)
    PROVE  Fine
<1>1. /\ phase = "funcs" /\ phase' = "funcs" /\ blocks = <<>> /\ blocks' = <<>>
      /\ AreScopes(scopes)
  BY DEF _visit_func_def, VisitorInv, Shaped, Scoped
<1>2. src'.stmts = src.stmts /\ "stmts" \in DOMAIN src' /\ IsSeq(src'.stmts)
  BY DEF _visit_func_def, VisitorInv, Scoped
<1>3. AreScopes(scopes')
  <2>1. CASE scopes' = scopes
    BY <1>1, <2>1
  <2>2. CASE \E s : n \in Idents /\ scopes' = add_symbol(scopes, n, s)
    BY <1>1, <2>2, AddSymbolFacts
  <2>3. CASE \E s, fn, ps : /\ n \in Idents
                            /\ scopes' = Append(add_symbol(scopes, n, s), ParamScope(fn, ps))
    <3>1. PICK s, fn, ps : /\ n \in Idents
                           /\ scopes' = Append(add_symbol(scopes, n, s), ParamScope(fn, ps))
      BY <2>3
    <3> DEFINE outer == add_symbol(scopes, n, s)
               top   == ParamScope(fn, ps)
    <3>2. AreScopes(outer)
      BY <1>1, <3>1, AddSymbolFacts
    <3>3. DOMAIN top = Idents
      BY DEF ParamScope
    <3>4. scopes' = Append(outer, top)
      BY <3>1
    <3> HIDE DEF outer, top
    <3> QED
      BY <3>2, <3>3, <3>4, PushFacts
  <2>4. \/ scopes' = scopes
        \/ \E s : n \in Idents /\ scopes' = add_symbol(scopes, n, s)
        \/ \E s, fn, ps : /\ n \in Idents
                          /\ scopes' = Append(add_symbol(scopes, n, s), ParamScope(fn, ps))
    <3> DEFINE ps    == NotNull(params)
               fn    == Len(funcs) + 1
               s     == FuncSymbol(fn, Len(ps))
               outer == add_symbol(scopes, n, s)
               inner == Append(outer, ParamScope(fn, ps))
    <3>1. \/ scopes' = scopes
          \/ n # NoIdent /\ scopes' \in {outer, inner}
      BY Zenon DEF _visit_func_def
    <3> HIDE DEF ps, fn, s
    <3> QED
      BY <3>1
  <2> QED
    BY <2>1, <2>2, <2>3, <2>4
<1>4. Shaped' /\ BlocksEnd'
  BY <1>1, EmptyFacts DEF Shaped, BlocksEnd, AreSeqs
<1>5. Keeps
  BY <1>1 DEF Keeps
<1> QED
  BY <1>1, <1>2, <1>3, <1>4, <1>5 DEF Fine, VisitorInv, Scoped, Visiting

\* main begins with one empty block and a scope without tags.
LEMMA BeginMainFine == ASSUME VisitorInv, BeginMain PROVE Fine
<1>1. /\ phase = "funcs" /\ phase' = "decls" /\ blocks = <<>> /\ blocks' = <<<<>>>>
      /\ AreScopes(scopes) /\ scopes' = Append(scopes, NewScope) /\ src' = src
  BY DEF BeginMain, VisitorInv, Shaped, Scoped
<1>2. DOMAIN NewScope = Idents
  BY DEF NewScope
<1>3. AreScopes(scopes') /\ scopes'[Len(scopes')] = NewScope
  BY <1>1, <1>2, PushFacts
<1>4. Len(blocks') = 1 /\ blocks'[1] = <<>> /\ DOMAIN blocks' = {1} /\ blocks' # <<>>
  BY <1>1
<1>5. AreSeqs(blocks')
  <2>1. blocks' \in Seq({<<>>})
    BY <1>1
  <2> QED
    BY <1>4, <2>1, SeqOwn, EmptyFacts DEF AreSeqs
<1>6. Shaped'
  BY <1>1, <1>4, <1>5 DEF Shaped, Cur
<1>7. BlocksEnd'
  BY <1>1, <1>4 DEF BlocksEnd, Cur
<1>8. Tags' = {} /\ JumpBlocks' = {}
  BY <1>3, <1>4 DEF Tags, NewScope, NoSymbol, JumpBlocks
<1>9. Listed'
  BY <1>8 DEF Listed
<1>10. Keeps
  BY <1>1 DEF Keeps
<1> QED
  BY <1>1, <1>3, <1>6, <1>7, <1>9, <1>10 DEF Fine, VisitorInv, Scoped

\* main ends when no tag is missing, or although one is.
LEMMA FinishFine == ASSUME VisitorInv, Finish PROVE Fine
<1> DEFINE inst == Return(Here)
<1>1. inst.op = "ret"
  BY DEF Return
<1>2. /\ Visiting /\ phase' = "done" /\ blocks' = Emit(inst) /\ src' = src
      /\ Pending # {} => "UndefinedTag" \in Sloppy
  BY DEF Finish, Visiting
<1> HIDE DEF inst
<1>3. /\ Shaped /\ BlocksEnd /\ Listed /\ AreSeqs(blocks) /\ blocks # <<>> /\ Cur \in Nat
      /\ phase # "funcs"
  BY <1>2, BlockFacts DEF VisitorInv, Shaped, Visiting
<1>4. Added(blocks', inst, Cur) /\ Sound(inst)
  BY <1>1, <1>2, <1>3, EmitFacts DEF Sound, WellMade, Agrees, Jumps
<1>5. Shaped' /\ BlocksEnd' /\ Keeps
  <2>1. Grown(blocks', inst, Cur)
    BY <1>3, <1>4, AddedGrown
  <2>2. inst.op \in Terminators
    BY <1>1 DEF Terminators
  <2> QED
    BY <1>2, <1>3, <1>4, <2>1, <2>2, GrownEnds
<1>6. JumpBlocks' = JumpBlocks /\ \A b \in JumpBlocks : LastInst(b)' = LastInst(b)
  <2>1. /\ JumpsOf(blocks') = JumpBlocks \cup {b \in {Cur} : inst.op \in Jumps}
        /\ \A b \in JumpBlocks : LastOf(blocks', b) = LastInst(b)
    BY <1>2, <1>3, <1>4, AddedJumps
  <2>2. JumpBlocks' = JumpsOf(blocks') /\ \A b : LastInst(b)' = LastOf(blocks', b)
    BY DEF JumpBlocks, LastInst, JumpsOf, LastOf
  <2>3. inst.op \notin Jumps
    BY <1>1 DEF Jumps
  <2> QED
    BY <2>1, <2>2, <2>3
<1>7. "UndefinedTag" \notin Sloppy => \A b \in JumpBlocks' : LastInst(b)'.target # 0
  BY <1>2, <1>3, <1>6 DEF Listed
<1>8. Scoped' /\ ~Visiting'
  BY <1>2 DEF VisitorInv, Scoped, Visiting
<1> QED
  BY <1>2, <1>5, <1>7, <1>8 DEF Fine, VisitorInv

LEMMA IdleFine == ASSUME VisitorInv, UNCHANGED visitorVars PROVE Fine
<1>1. /\ src' = src /\ scopes' = scopes /\ blocks' = blocks /\ phase' = phase
  BY DEF visitorVars
<1>2. Shaped' /\ Scoped' /\ BlocksEnd' /\ Keeps /\ StmtsKept
  BY <1>1 DEF VisitorInv, Shaped, Scoped, Sound, Agrees, WellMade, Cur, BlocksEnd, Keeps, Patched,
              StmtsKept
<1>3. JumpBlocks' = JumpBlocks /\ \A b \in JumpBlocks : LastInst(b)' = LastInst(b)
  BY <1>1 DEF JumpBlocks, LastInst
<1>4. \A u \in Idents : TagSym(u)' = TagSym(u)
  BY <1>1 DEF TagSym
<1>5. Listed => Listed'
  BY <1>2, <1>3, <1>4, SameLists
<1> QED
  BY <1>1, <1>2, <1>3, <1>5 DEF Fine, VisitorInv, Visiting

-----------------------------------------------------------------------------
(***************************************************************************)
(* The theorems.                                                           *)
(***************************************************************************)
LEMMA VisitorInit == Init => VisitorInv
<1> SUFFICES ASSUME Init PROVE VisitorInv
  OBVIOUS
<1>1. /\ phase = "funcs" /\ blocks = <<>> /\ scopes = <<NewScope>>
      /\ "stmts" \in DOMAIN src /\ src.stmts = <<>>
  BY DEF Init, EmptyProgram
<1>2. AreScopes(scopes)
  <2>1. scopes \in Seq({NewScope}) /\ scopes # <<>> /\ DOMAIN NewScope = Idents
    BY <1>1 DEF NewScope
  <2>2. \A i \in DOMAIN scopes : scopes[i] = NewScope
    BY <1>1
  <2> QED
    BY <2>1, <2>2, SeqOwn DEF AreScopes
<1>3. Shaped /\ BlocksEnd
  BY <1>1, EmptyFacts DEF Shaped, AreSeqs, BlocksEnd
<1> QED
  BY <1>1, <1>2, <1>3, EmptyFacts DEF VisitorInv, Scoped, Visiting

\* Every step keeps the invariant and what was emitted.
LEMMA VisitorStep == ASSUME VisitorInv, [VisitorNext]_visitorVars PROVE Fine
<1>1. CASE \E n \in Idents \cup {NoIdent}, ps \in ParamLists, e \in Exps : _visit_func_def(n, ps, e)
  BY <1>1, FuncDefFine
<1>2. CASE BeginMain
  BY <1>2, BeginMainFine
<1>3. CASE \E n \in Idents \cup {NoIdent} : _visit_var_decl(n)
  BY <1>3, VarDeclFine
<1>4. CASE Stmt
  BY <1>4, GetFine, TagFine, ToFine, LetFine, IfFine, PutFine DEF Stmt
<1>5. CASE Finish
  BY <1>5, FinishFine
<1>6. CASE Stopped \/ UNCHANGED visitorVars
  BY <1>6, IdleFine DEF Stopped
<1> QED
  BY <1>1, <1>2, <1>3, <1>4, <1>5, <1>6 DEF VisitorNext
\* The invariant holds of every program, whatever is questionable in it.
THEOREM VisitorCorrect == Spec => []VisitorInv
<1>1. VisitorInv /\ [VisitorNext]_visitorVars => VisitorInv'
  BY VisitorStep DEF Fine
<1> QED
  BY VisitorInit, <1>1, PTL DEF Spec

\* Whatever statements follow each other and whatever was given up, every
\* block but the current one ends in its only terminator.
THEOREM BlocksCorrect == Spec => []BlocksEnd
<1>1. VisitorInv => BlocksEnd
  BY DEF VisitorInv
<1> QED
  BY <1>1, VisitorCorrect, PTL

\* What was emitted stays, but for the target of a jump that has none, and
\* even a second definition of a tag moves no jump that has one.
THEOREM EmittedCorrect == Spec => EmittedKept
<1>1. VisitorInv /\ [VisitorNext]_visitorVars =>
         [\A b \in DOMAIN blocks : \A k \in DOMAIN blocks[b] :
             LET old == blocks[b][k]
                 new == blocks'[b][k]
             IN  \/ new = old
                 \/ /\ old.op \in Jumps
                    /\ new = [old EXCEPT !.target = new.target, !.uses = new.uses]
                    /\ old.target # 0 => new.target = old.target]_visitorVars
  BY VisitorStep DEF Fine, Keeps, Patched
<1> QED
  BY <1>1, VisitorCorrect, PTL DEF Spec, EmittedKept

\* A jump without a target waits in the list of exactly one tag, the one its
\* statement names, which has no block: no jump is forgotten.
THEOREM PendingCorrect == Spec => []PendingExact
<1>1. VisitorInv => PendingExact
  <2> SUFFICES ASSUME VisitorInv, phase = "stmts", NEW b \in JumpBlocks
               PROVE  LastInst(b).target = 0 <=>
                         \E n \in Pending : /\ b \in TagSym(n).jump_insts
                                            /\ \A u \in Tags \ {n} : b \notin TagSym(u).jump_insts
                                            /\ src.stmts[LastInst(b).stmt].n = n
    BY DEF PendingExact
  <2>1. Listed
    BY DEF VisitorInv, Visiting
  <2>2. Pending = {n \in Tags : TagSym(n).target = 0}
    BY DEF Pending, Tags, TagSym
  <2>3. \A n \in Tags : \A c \in TagSym(n).jump_insts :
           /\ src.stmts[LastInst(c).stmt].n = n
           /\ LastInst(c).target = 0 <=> TagSym(n).target = 0
    BY <2>1 DEF Listed, Lists, Names
  <2>4. ASSUME LastInst(b).target = 0
        PROVE  \E n \in Pending : /\ b \in TagSym(n).jump_insts
                                  /\ \A u \in Tags \ {n} : b \notin TagSym(u).jump_insts
                                  /\ src.stmts[LastInst(b).stmt].n = n
    <3>1. PICK n \in Pending : b \in TagSym(n).jump_insts
      BY <2>1, <2>4 DEF Listed
    <3>2. src.stmts[LastInst(b).stmt].n = n
      BY <2>2, <2>3, <3>1
    <3>3. \A u \in Tags \ {n} : b \notin TagSym(u).jump_insts
      BY <2>3, <3>2
    <3> QED
      BY <3>1, <3>2, <3>3
  <2>5. ASSUME NEW n \in Pending, b \in TagSym(n).jump_insts
        PROVE  LastInst(b).target = 0
    BY <2>2, <2>3, <2>5
  <2> QED
    BY <2>4, <2>5
<1> QED
  BY <1>1, VisitorCorrect, PTL

\* In programs without a repeated tag the operands of every jump are what its
\* members say, although the two are patched separately.
THEOREM UsesCorrect == "RepeatedTag" \notin Sloppy => (Spec => []UsesAgree)
<1> SUFFICES ASSUME "RepeatedTag" \notin Sloppy PROVE Spec => []UsesAgree
  OBVIOUS
<1>1. VisitorInv => UsesAgree
  <2> SUFFICES ASSUME VisitorInv, NEW b \in JumpBlocks PROVE Agrees(LastInst(b)) /\ LastInst(b).op \in Jumps
    BY DEF UsesAgree, Agrees
  <2>1. phase # "funcs" /\ Shaped
    BY SeqFacts, EmptyFacts DEF VisitorInv, Shaped, JumpBlocks
  <2>2. b \in DOMAIN blocks /\ Len(blocks[b]) \in DOMAIN blocks[b] /\ LastInst(b).op \in Jumps
    BY <2>1, BlockFacts DEF JumpBlocks
  <2> QED
    BY <2>1, <2>2 DEF Shaped, Sound, LastInst
<1> QED
  BY <1>1, VisitorCorrect, PTL

\* In such programs the jumps met before a tag's definition lead to its block.
THEOREM BackpatchCorrect == "RepeatedTag" \notin Sloppy => (Spec => []Backpatched)
<1> SUFFICES ASSUME "RepeatedTag" \notin Sloppy PROVE Spec => []Backpatched
  OBVIOUS
<1>1. VisitorInv => Backpatched
  BY DEF VisitorInv, Visiting, Listed, Lists, Backpatched
<1> QED
  BY <1>1, VisitorCorrect, PTL

\* When no tag is left undefined every jump of main has a target at the end:
\* the one reason for a jump to nowhere is the tag that nobody reports.
THEOREM TargetsCorrect == "UndefinedTag" \notin Sloppy => (Spec => []JumpsTargeted)
<1> SUFFICES ASSUME "UndefinedTag" \notin Sloppy PROVE Spec => []JumpsTargeted
  OBVIOUS
<1>1. VisitorInv => JumpsTargeted
  BY DEF VisitorInv, JumpsTargeted
<1> QED
  BY <1>1, VisitorCorrect, PTL
-----------------------------------------------------------------------------
(***************************************************************************)
(* Jumps lead to blocks that exist.                                        *)
(***************************************************************************)
\* The instruction i is of a statement met so far, and names no other blocks
\* than the first n.
Aimed(i, n) == /\ i.stmt \in 0 .. Here
               /\ i.op \in Jumps => i.target \in 0 .. n /\ i.uses \in Seq(1 .. n)
               /\ i.op = "branch" => i.other \in 1 .. n

AllAimed(bs, n) == \A b \in DOMAIN bs : \A k \in DOMAIN bs[b] : Aimed(bs[b][k], n)

\* Of n blocks, those that jumps and the symbols of tags refer to.
Aims(n) == /\ AllAimed(blocks, n)
           /\ Visiting => \A u \in Tags : TagSym(u).target <= n

Ranged == IsSeq(funcs) /\ Aims(Cur)

\* No statement is forgotten.
Later == Here \in Nat /\ Here' \in Nat /\ Here <= Here'

\* What SetTarget does to the operands.
LEMMA TargetUses ==
    ASSUME NEW n \in Nat, NEW b \in 1 .. n,
           NEW i, WellMade(i), i.op \in Jumps, i.uses \in Seq(1 .. n)
    PROVE  SetTarget(i, b).uses \in Seq(1 .. n)
<1>1. \A v, w : [i EXCEPT !.target = v, !.uses = w].uses = w
  <2>1. CASE i = [op |-> "jump", stmt |-> i.stmt, target |-> i.target, uses |-> i.uses]
    BY <2>1
  <2>2. CASE i = [op |-> "branch", stmt |-> i.stmt, val |-> i.val, target |-> i.target,
                  other |-> i.other, uses |-> i.uses]
    BY <2>2
  <2> QED
    BY <2>1, <2>2 DEF WellMade
<1>2. \A w : [i EXCEPT !.uses = w].uses = w
  <2>1. CASE i = [op |-> "jump", stmt |-> i.stmt, target |-> i.target, uses |-> i.uses]
    BY <2>1
  <2>2. CASE i = [op |-> "branch", stmt |-> i.stmt, val |-> i.val, target |-> i.target,
                  other |-> i.other, uses |-> i.uses]
    BY <2>2
  <2> QED
    BY <2>1, <2>2 DEF WellMade
<1>3. CASE i.target = 0
  <2>1. SetTarget(i, b) = [i EXCEPT !.target = b, !.uses = Append(i.uses, b)]
    BY <1>3 DEF SetTarget
  <2>2. Append(i.uses, b) \in Seq(1 .. n)
    OBVIOUS
  <2> QED
    BY <1>1, <2>1, <2>2
<1>4. CASE i.target # 0
  <2> DEFINE first == {k \in DOMAIN i.uses : /\ i.uses[k] = i.target
                                             /\ \A j \in 1 .. (k - 1) : i.uses[j] # i.target}
             u == [k \in DOMAIN i.uses |-> IF k \in first THEN b ELSE i.uses[k]]
  <2>1. SetTarget(i, b) = [i EXCEPT !.uses = u]
    BY <1>4 DEF SetTarget
  <2> HIDE DEF first
  <2>2. u \in Seq(1 .. n)
    BY SMTT(60)
  <2> HIDE DEF u
  <2> QED
    BY <1>2, <2>1, <2>2
<1> QED
  BY <1>3, <1>4

\* A target given exists if the block does.
LEMMA TargetAimed ==
    ASSUME NEW n \in Nat, NEW b \in 1 .. n,
           NEW i, WellMade(i), i.op \in Jumps, Aimed(i, n)
    PROVE  Aimed(SetTarget(i, b), n)
<1> DEFINE new == SetTarget(i, b)
<1>1. Targeted(i, new, b)
  BY SetTargetFacts DEF Aimed
<1> HIDE DEF new
<1>2. new.op = i.op /\ new.target \in {b, i.target} /\ new.stmt = i.stmt
  BY <1>1 DEF Targeted
<1>3. i.op = "branch" => new.other = i.other
  <2>1. new = i \/ new = [i EXCEPT !.target = new.target, !.uses = new.uses]
    BY <1>1 DEF Targeted, Patched
  <2>2. \A x, y : [i EXCEPT !.target = x, !.uses = y].other = i.other
    <3>1. CASE i = [op |-> "jump", stmt |-> i.stmt, target |-> i.target, uses |-> i.uses]
      BY <3>1
    <3>2. CASE i = [op |-> "branch", stmt |-> i.stmt, val |-> i.val, target |-> i.target,
                    other |-> i.other, uses |-> i.uses]
      <4> PICK st, v, to, no, us :
                 i = [op |-> "branch", stmt |-> st, val |-> v, target |-> to,
                      other |-> no, uses |-> us]
        BY <3>2
      <4> QED
        OBVIOUS
    <3> QED
      BY <3>1, <3>2 DEF WellMade
  <2>3. CASE new = i
    BY <2>3
  <2>4. CASE new = [i EXCEPT !.target = new.target, !.uses = new.uses]
    BY ZenonT(60), <2>2, <2>4
  <2> QED
    BY <2>1, <2>3, <2>4
<1>4. new.uses \in Seq(1 .. n)
  BY TargetUses DEF Aimed, new
<1>5. Aimed(new, n)
  BY SMTT(60), <1>2, <1>3, <1>4 DEF Aimed
<1> QED
  BY <1>5 DEF new

LEMMA AddedAimed ==
    ASSUME Shaped, phase # "funcs", AllAimed(blocks, Cur),
           NEW n \in {Cur, Cur + 1}, NEW inst, Aimed(inst, n), NEW bs, Added(bs, inst, n)
    PROVE  AllAimed(bs, n)
<1>1. /\ Cur \in Nat /\ Cur > 0 /\ DOMAIN blocks = 1 .. Cur
      /\ \A b \in 1 .. Cur : Len(blocks[b]) \in Nat /\ DOMAIN blocks[b] = 1 .. Len(blocks[b])
  BY BlockFacts
<1>2. /\ DOMAIN bs = 1 .. n
      /\ \A b \in 1 .. n : Len(bs[b]) \in Nat /\ DOMAIN bs[b] = 1 .. Len(bs[b])
  BY <1>1, SeqFacts DEF Added, AreSeqs
<1>3. \A i : Aimed(i, Cur) => Aimed(i, n)
  BY <1>1 DEF Aimed
<1>4. ASSUME NEW b \in 1 .. n, NEW k \in DOMAIN bs[b] PROVE Aimed(bs[b][k], n)
  <2>1. CASE b < Cur
    <3>1. bs[b] = blocks[b] /\ b \in DOMAIN blocks
      BY SMTT(60), <1>1, <2>1 DEF Added
    <3> QED
      BY <1>3, <1>4, <3>1 DEF AllAimed
  <2>2. CASE b = Cur
    <3>1. /\ Len(bs[Cur]) = Len(blocks[Cur]) + 1 /\ bs[Cur][Len(blocks[Cur]) + 1] = inst
          /\ \A j \in DOMAIN blocks[Cur] : bs[Cur][j] = blocks[Cur][j]
      BY DEF Added
    <3>2. k = Len(blocks[Cur]) + 1 \/ k \in DOMAIN blocks[Cur]
      BY <1>1, <1>2, <1>4, <2>2, <3>1
    <3>3. CASE k \in DOMAIN blocks[Cur]
      BY <1>1, <1>3, <2>2, <3>1, <3>3 DEF AllAimed
    <3> QED
      BY <2>2, <3>1, <3>2, <3>3
  <2>3. CASE b > Cur
    <3>1. b = n /\ bs[n] = <<>>
      BY <1>1, <2>3 DEF Added
    <3> QED
      BY <1>2, <1>4, <3>1, EmptyFacts
  <2> QED
    BY <1>1, <2>1, <2>2, <2>3
<1> QED
  BY <1>2, <1>4 DEF AllAimed

LEMMA RetargetAimed ==
    ASSUME NEW n \in Nat, NEW t \in 1 .. n, NEW bs, AreSeqs(bs), AllAimed(bs, n),
           NEW S, \A c \in S : LastOf(bs, c).op \in Jumps /\ WellMade(LastOf(bs, c)),
           NEW new, Retargeted(bs, new, S, t)
    PROVE  AllAimed(new, n)
<1>1. /\ DOMAIN new = DOMAIN bs
      /\ \A c \in DOMAIN bs : DOMAIN new[c] = DOMAIN bs[c]
  BY SeqFacts DEF Retargeted, AreSeqs
<1>2. ASSUME NEW c \in DOMAIN bs, NEW k \in DOMAIN bs[c] PROVE Aimed(new[c][k], n)
  <2>1. new[c][k] = IF c \in S /\ k = Len(bs[c]) THEN SetTarget(bs[c][k], t) ELSE bs[c][k]
    BY DEF Retargeted
  <2>2. Aimed(bs[c][k], n)
    BY DEF AllAimed
  <2>3. CASE c \in S /\ k = Len(bs[c])
    BY <2>1, <2>2, <2>3, TargetAimed DEF LastOf
  <2> QED
    BY <2>1, <2>2, <2>3
<1> QED
  BY <1>1, <1>2 DEF AllAimed

\* Blocks and tags stay.
LEMMA NothingAims ==
    ASSUME Aims(Cur), UNCHANGED <<scopes, blocks>>, Visiting' => Visiting, Later
    PROVE  Aims(Cur)'
BY DEF Later, Aims, AllAimed, Aimed, Tags, TagSym, Cur

\* No jump is added, and no tag.
LEMMA EmitAims ==
    ASSUME VisitorInv, Aims(Cur), Visiting, NEW inst, inst.op \notin Jumps, blocks' = Emit(inst),
           Later, inst.stmt \in 0 .. Here, Visiting' => \A u \in Idents : \/ TagSym(u)' = TagSym(u)
                                          \/ TagSym(u)'.type # "tag"
    PROVE  Aims(Cur)'
<1>1. Shaped /\ phase # "funcs" /\ AreSeqs(blocks) /\ blocks # <<>> /\ Cur \in Nat
  BY BlockFacts DEF VisitorInv, Shaped, Visiting
<1>2. Added(blocks', inst, Cur)
  BY <1>1, EmitFacts
<1>3. Cur' = Cur
  BY <1>2 DEF Added, Cur
<1>4. Aimed(inst, Cur)
  BY DEF Aimed, Jumps
<1>5. AllAimed(blocks', Cur)
  BY <1>1, <1>2, <1>4, AddedAimed DEF Aims
<1>6. Visiting' => \A u \in Tags' : TagSym(u)'.target <= Cur
  BY DEF Aims, Tags, TagSym
<1> QED
  BY <1>3, <1>5, <1>6 DEF Aims, AllAimed, Aimed, Later

\* The symbols of the tags after one of them changed.
LEMMA RelistedAims ==
    ASSUME Cur \in Nat, NEW n \in Idents, NEW s, Relisted(n, s),
           \A u \in Tags : TagSym(u).target <= Cur, Cur' = Cur + 1, s.target <= Cur + 1, Listed
    PROVE  \A u \in Tags' : TagSym(u)'.target <= Cur'
<1>1. Tags' = Tags \cup {n} /\ TagSym(n)' = s /\ \A u \in Tags \ {n} : TagSym(u)' = TagSym(u)
  BY RelistedTags
<1>2. \A u \in Tags : TagSym(u).target \in Nat
  BY DEF Listed, Lists
<1> QED
  BY <1>1, <1>2

\* A jump to tag n ends the block.
LEMMA JumpAims ==
    ASSUME VisitorInv, Aims(Cur), NEW n \in Idents, TagOf(n).type = "tag",
           NEW s, Visit(s), Later,
           NEW i, Untargeted(i, Here), Aimed(i, Cur + 1), Accept(EndBlock(JumpTo(TagOf(n), i))),
           scopes' = add_symbol(scopes, n, Waiting(TagOf(n)))
    PROVE  Aims(Cur)'
<1> DEFINE t == TagOf(n)
           j == JumpTo(t, i)
           w == Waiting(t)
<1>1. Visiting
  BY VisitFacts DEF VisitorInv
<1>2. /\ Shaped /\ Listed /\ AreScopes(scopes) /\ AreSeqs(blocks) /\ blocks # <<>>
      /\ Cur \in Nat /\ phase # "funcs"
  BY <1>1, BlockFacts DEF VisitorInv, Visiting, Scoped, Shaped
<1>3. Lists(t, n) /\ (n \in Tags => TagSym(n) = t)
  BY <1>2, TagOfFacts
<1>4. t.type = "tag" /\ blocks' = EndBlock(j) /\ scopes' = add_symbol(scopes, n, w)
  BY DEF Accept
<1>5. t.target \in Nat /\ DOMAIN t = {"type", "target", "jump_insts"} /\ t.target <= Cur
  <2>1. CASE n \in Tags
    BY <1>1, <1>3, <2>1 DEF Lists, Aims
  <2>2. CASE n \notin Tags
    <3>1. t = TagSymbol(0, {})
      BY <2>2, <1>4 DEF TagOf, Tags
    <3> QED
      BY <1>2, <1>3, <3>1 DEF Lists, TagSymbol
  <2> QED
    BY <2>1, <2>2
<1> HIDE DEF t
<1>6. Aimed(j, Cur + 1)
  <2>1. CASE t.target = 0
    BY <2>1 DEF JumpTo
  <2>2. CASE t.target # 0
    <3>1. t.target \in 1 .. (Cur + 1) /\ Cur + 1 \in Nat
      BY <1>2, <1>5, <2>2
    <3> QED
      BY <2>2, <3>1, TargetAimed DEF JumpTo, Untargeted
  <2> QED
    BY <2>1, <2>2
<1>7. DOMAIN w = {"type", "target", "jump_insts"} /\ w.type = "tag" /\ w.target = t.target
  <2>1. CASE t.target # 0
    BY <1>4, <1>5, <2>1 DEF Waiting
  <2>2. CASE t.target = 0
    <3>1. w = [t EXCEPT !.jump_insts = t.jump_insts \cup {Cur}]
      BY <2>2 DEF Waiting
    <3> HIDE DEF w
    <3> QED
      BY <1>4, <1>5, <2>2, <3>1
  <2> QED
    BY <2>1, <2>2
<1> HIDE DEF j, w
<1>8. Added(blocks', j, Cur + 1)
  BY <1>2, <1>4, EndBlockFacts
<1>9. Cur' = Cur + 1 /\ AllAimed(blocks', Cur + 1)
  <2>1. AllAimed(blocks', Cur + 1)
    BY <1>2, <1>6, <1>8, AddedAimed DEF Aims
  <2> QED
    BY <1>8, <2>1 DEF Added, Cur
<1>10. Relisted(n, w)
  <2>1. /\ Len(scopes') = Len(scopes) /\ scopes'[Len(scopes)][n] = w
        /\ \A u \in Idents \ {n} : scopes'[Len(scopes)][u] = scopes[Len(scopes)][u]
    BY <1>2, <1>4, AddSymbolFacts
  <2>2. TagSym(n)' = w /\ \A u \in Idents \ {n} : TagSym(u)' = TagSym(u)
    BY <2>1 DEF TagSym
  <2> QED
    BY <1>5, <1>7, <2>2 DEF Relisted
<1>11. \A u \in Tags' : TagSym(u)'.target <= Cur'
  <2>1. \A u \in Tags : TagSym(u).target <= Cur
    BY <1>1 DEF Aims
  <2>2. w.target <= Cur + 1
    BY <1>2, <1>5, <1>7
  <2> QED
    BY <1>2, <1>9, <1>10, <2>1, <2>2, RelistedAims
<1> QED
  BY <1>9, <1>11 DEF Aims, AllAimed, Aimed, Later

\* A tag's definition ends the block and retargets jumps, to the new block.
LEMMA TagAims ==
    ASSUME VisitorInv, Aims(Cur), Later, NEW n \in Idents \cup {NoIdent}, _visit_tag_stmt(n)
    PROVE  Aims(Cur)'
<1> DEFINE t   == TagOf(n)
           new == Cur + 1
           j   == SetTarget(JumpInst(Here), new)
           bs  == EndBlock(j)
           S   == t.jump_insts
           w   == [t EXCEPT !.target = new]
           st  == [k |-> "tag", n |-> n]
<1>1. Visit(st)
  BY DEF _visit_tag_stmt
<1> HIDE DEF st
<1>2. Visiting
  BY <1>1, VisitFacts DEF VisitorInv
<1>3. CASE UNCHANGED <<scopes, blocks>>
  BY <1>2, <1>3, NothingAims
<1>4. CASE /\ n # NoIdent /\ t.type = "tag" /\ Accept(Retarget(bs, S, new))
           /\ scopes' = add_symbol(scopes, n, w)
  <2>1. /\ Shaped /\ BlocksEnd /\ Listed /\ AreScopes(scopes) /\ AreSeqs(blocks) /\ blocks # <<>>
        /\ Cur \in Nat /\ Cur \notin JumpBlocks /\ new \in 1 .. (Cur + 1) /\ phase # "funcs"
    BY <1>2, BlockFacts, JumpFacts DEF VisitorInv, Visiting, Scoped, Shaped
  <2>2. n \in Idents /\ Lists(t, n)
    BY <1>4, <2>1, TagOfFacts
  <2>3. /\ t.type = "tag" /\ blocks' = Retarget(bs, S, new) /\ scopes' = add_symbol(scopes, n, w)
    BY <1>4 DEF Accept
  <2> HIDE DEF t
  <2>4. /\ DOMAIN t = {"type", "target", "jump_insts"} /\ S \subseteq JumpBlocks
    BY <2>2 DEF Lists
  <2>5. DOMAIN w = {"type", "target", "jump_insts"} /\ w.type = "tag" /\ w.target = new
    BY <2>3, <2>4
  <2>6. Aimed(j, Cur + 1)
    <3>1. Untargeted(JumpInst(Here), Here) /\ JumpInst(Here).op = "jump"
      BY NewJumps DEF JumpInst
    <3> DEFINE i == JumpInst(Here)
    <3> HIDE DEF i
    <3>2. Aimed(i, Cur + 1) /\ WellMade(i) /\ i.op \in Jumps /\ Cur + 1 \in Nat
      BY <2>1, <3>1 DEF Aimed, Untargeted, i, JumpInst, Later
    <3>3. Aimed(SetTarget(i, new), Cur + 1)
      BY <2>1, <3>2, TargetAimed
    <3> QED
      BY <3>3 DEF i
  <2> HIDE DEF j, w, S
  <2>7. Added(bs, j, Cur + 1)
    BY <2>1, EndBlockFacts
  <2> HIDE DEF bs
  <2>8. AreSeqs(bs) /\ AllAimed(bs, Cur + 1)
    <3>1. AllAimed(bs, Cur + 1)
      BY <2>1, <2>6, <2>7, AddedAimed DEF Aims
    <3> QED
      BY <2>7, <3>1 DEF Added
  <2>9. \A c \in S : bs[c] # <<>> /\ LastOf(bs, c).op \in Jumps /\ WellMade(LastOf(bs, c))
    <3>1. \A c \in JumpBlocks : LastOf(bs, c) = LastInst(c)
      BY <1>2, <2>1, <2>7, AddedJumps
    <3>2. \A c \in JumpBlocks : LastInst(c).op \in Jumps /\ WellMade(LastInst(c))
      BY <2>1, BlockFacts DEF Shaped, Sound, JumpBlocks, LastInst
    <3>3. \A c \in JumpBlocks : bs[c] # <<>>
      <4>1. JumpsOf(bs) = JumpBlocks \cup {b \in {Cur} : j.op \in Jumps}
        BY <1>2, <2>1, <2>7, AddedJumps
      <4> QED
        BY <4>1 DEF JumpsOf
    <3> QED
      BY <2>4, <3>1, <3>2, <3>3
  <2>10. Retargeted(bs, blocks', S, new)
    BY <2>3, <2>8, <2>9, RetargetFacts
  <2>11. Cur' = Cur + 1 /\ AllAimed(blocks', Cur + 1)
    <3>1. Len(blocks') = Cur + 1
      BY <2>7, <2>10 DEF Retargeted, Added
    <3>2. Cur + 1 \in Nat
      BY <2>1
    <3>3. AllAimed(blocks', Cur + 1)
      BY <2>1, <2>8, <2>9, <2>10, <3>2, RetargetAimed
    <3> QED
      BY <3>1, <3>3 DEF Cur
  <2>12. Relisted(n, w)
    <3>1. /\ Len(scopes') = Len(scopes) /\ scopes'[Len(scopes)][n] = w
          /\ \A u \in Idents \ {n} : scopes'[Len(scopes)][u] = scopes[Len(scopes)][u]
      BY <2>1, <2>2, <2>3, AddSymbolFacts
    <3>2. TagSym(n)' = w /\ \A u \in Idents \ {n} : TagSym(u)' = TagSym(u)
      BY <3>1 DEF TagSym
    <3> QED
      BY <2>1, <2>5, <3>2 DEF Relisted
  <2>13. \A u \in Tags' : TagSym(u)'.target <= Cur'
    <3>1. \A u \in Tags : TagSym(u).target <= Cur
      BY <1>2 DEF Aims
    <3>2. w.target <= Cur + 1
      BY <2>1, <2>5
    <3> QED
      BY <2>1, <2>2, <2>11, <2>12, <3>1, <3>2, RelistedAims
  <2> QED
    BY <2>11, <2>13 DEF Aims, AllAimed, Aimed, Later
<1>5. CASE \E kinds : GiveUp(kinds, {n}, {})
  BY <1>3, <1>5 DEF GiveUp
<1> QED
  BY <1>4, <1>5 DEF _visit_tag_stmt

\* The steps that add no jump.
LEMMA GetAims == ASSUME VisitorInv, Aims(Cur), Later, NEW n, _visit_get_stmt(n) PROVE Aims(Cur)'
<1> DEFINE s  == get_symbol(scopes, n)
           st == [k |-> "get", n |-> n]
<1>1. Visiting
  BY VisitFacts DEF _visit_get_stmt, VisitorInv
<1>2. CASE UNCHANGED <<scopes, blocks>>
  BY <1>1, <1>2, NothingAims
<1>3. CASE Accept(Emit(Input(Here, s.cell))) /\ UNCHANGED scopes
  <2> DEFINE inst == Input(Here, s.cell)
  <2>1. inst.op \notin Jumps /\ inst.stmt \in 0 .. Here
    BY DEF Input, Jumps, Later
  <2> HIDE DEF inst
  <2>2. blocks' = Emit(inst) /\ \A u \in Idents : TagSym(u)' = TagSym(u)
    BY <1>3 DEF Accept, TagSym, inst
  <2> QED
    BY <1>1, <2>1, <2>2, EmitAims
<1> QED
  BY <1>2, <1>3 DEF _visit_get_stmt, GiveUp, Crash

LEMMA PutAims == ASSUME VisitorInv, Aims(Cur), Later, NEW e, _visit_put_stmt(e) PROVE Aims(Cur)'
<1> DEFINE r  == _visit_exp(e, scopes)
           st == [k |-> "put", e |-> e]
<1> HIDE DEF r
<1>1. Visiting
  BY VisitFacts DEF _visit_put_stmt, VisitorInv
<1>2. CASE UNCHANGED <<scopes, blocks>>
  BY <1>1, <1>2, NothingAims
<1>3. CASE Accept(Emit(Output(Here, r.val))) /\ UNCHANGED scopes
  <2> DEFINE inst == Output(Here, r.val)
  <2>1. inst.op \notin Jumps /\ inst.stmt \in 0 .. Here
    BY DEF Output, Jumps, Later
  <2> HIDE DEF inst
  <2>2. blocks' = Emit(inst) /\ \A u \in Idents : TagSym(u)' = TagSym(u)
    BY <1>3 DEF Accept, TagSym, inst
  <2> QED
    BY <1>1, <2>1, <2>2, EmitAims
<1> QED
  BY <1>2, <1>3 DEF _visit_put_stmt, GiveUp, r

LEMMA LetAims ==
    ASSUME VisitorInv, Aims(Cur), Later, NEW n, NEW e, _visit_let_stmt(n, e)
    PROVE  Aims(Cur)'
<1> DEFINE s  == get_symbol(scopes, n)
           r  == _visit_exp(e, scopes)
<1> HIDE DEF r, s
<1>1. Visiting
  BY VisitFacts DEF _visit_let_stmt, VisitorInv
<1>2. CASE UNCHANGED <<scopes, blocks>>
  BY <1>1, <1>2, NothingAims
<1>3. CASE Accept(Emit(Store(Here, r.val, s.cell))) /\ UNCHANGED scopes
  <2> DEFINE inst == Store(Here, r.val, s.cell)
  <2>1. inst.op \notin Jumps /\ inst.stmt \in 0 .. Here
    BY DEF Store, Jumps, Later
  <2> HIDE DEF inst
  <2>2. blocks' = Emit(inst) /\ \A u \in Idents : TagSym(u)' = TagSym(u)
    BY <1>3 DEF Accept, TagSym, inst
  <2> QED
    BY <1>1, <2>1, <2>2, EmitAims
<1> QED
  BY <1>2, <1>3 DEF _visit_let_stmt, GiveUp, r, s

LEMMA VarDeclAims ==
    ASSUME VisitorInv, Aims(Cur), Later, NEW n \in Idents \cup {NoIdent}, _visit_var_decl(n)
    PROVE  Aims(Cur)'
<1> DEFINE ix   == Len(src.decls) + 1
           inst == Alloca([fn |-> 0, ix |-> ix])
<1>1. phase = "decls" /\ Visiting /\ Cur = 1 /\ AreScopes(scopes)
  BY DEF _visit_var_decl, VisitorInv, Shaped, Scoped, Visiting
<1>2. CASE UNCHANGED <<scopes, blocks>>
  BY <1>1, <1>2, NothingAims
<1>3. CASE /\ n # NoIdent /\ scopes' = add_symbol(scopes, n, VarSymbol(0, ix))
           /\ blocks' = [blocks EXCEPT ![1] = Append(@, inst)]
  <2>1. inst.op \notin Jumps /\ inst.stmt \in 0 .. Here
    BY DEF Alloca, Jumps, Later
  <2> HIDE DEF inst
  <2>2. blocks' = Emit(inst)
    BY <1>1, <1>3 DEF Emit
  <2>3. \A u \in Idents : TagSym(u)' = TagSym(u) \/ TagSym(u)'.type # "tag"
    <3>1. /\ Len(scopes') = Len(scopes) /\ scopes'[Len(scopes)][n] = VarSymbol(0, ix)
          /\ \A u \in Idents \ {n} : scopes'[Len(scopes)][u] = scopes[Len(scopes)][u]
      BY <1>1, <1>3, AddSymbolFacts
    <3> QED
      BY <3>1 DEF TagSym, VarSymbol
  <2> QED
    BY <1>1, <2>1, <2>2, <2>3, EmitAims
<1> QED
  BY <1>2, <1>3 DEF _visit_var_decl

\* A jump or a branch.
LEMMA ToAims ==
    ASSUME VisitorInv, Aims(Cur), Later, NEW n \in Idents \cup {NoIdent}, _visit_to_stmt(n)
    PROVE  Aims(Cur)'
<1> DEFINE t == TagOf(n)
           i == JumpInst(Here)
           s == [k |-> "to", n |-> n]
<1>1. Visit(s)
  BY DEF _visit_to_stmt
<1> HIDE DEF s
<1>2. Visiting /\ Cur \in Nat
  BY <1>1, VisitFacts, BlockFacts DEF VisitorInv, Visiting
<1>3. CASE UNCHANGED <<scopes, blocks>>
  BY <1>2, <1>3, NothingAims
<1>4. CASE /\ n # NoIdent /\ t.type = "tag" /\ Accept(EndBlock(JumpTo(t, i)))
           /\ scopes' = add_symbol(scopes, n, Waiting(t))
  <2>1. n \in Idents /\ Untargeted(i, Here) /\ Aimed(i, Cur + 1)
    BY <1>2, <1>4, NewJumps DEF Aimed, JumpInst, Later
  <2> HIDE DEF i
  <2> QED
    BY <1>1, <1>4, <2>1, JumpAims
<1>5. CASE \E kinds : GiveUp(kinds, {n}, {})
  BY <1>3, <1>5 DEF GiveUp
<1> QED
  BY <1>4, <1>5 DEF _visit_to_stmt

LEMMA IfAims ==
    ASSUME VisitorInv, Aims(Cur), Later, NEW c, NEW n \in Idents \cup {NoIdent}, _visit_if_stmt(c, n)
    PROVE  Aims(Cur)'
<1> DEFINE t == TagOf(n)
           r == _visit_exp(c, scopes)
           i == BranchInst(Here, r.val, Cur + 1)
           s == [k |-> "if", e |-> c, n |-> n]
<1> HIDE DEF r
<1>1. Visit(s)
  BY DEF _visit_if_stmt
<1> HIDE DEF s
<1>2. Visiting /\ Cur \in Nat
  BY <1>1, VisitFacts, BlockFacts DEF VisitorInv, Visiting
<1>3. CASE UNCHANGED <<scopes, blocks>>
  BY <1>2, <1>3, NothingAims
<1>4. CASE /\ n # NoIdent /\ t.type = "tag" /\ Accept(EndBlock(JumpTo(t, i)))
           /\ scopes' = add_symbol(scopes, n, Waiting(t))
  <2>1. n \in Idents /\ Untargeted(i, Here)
    BY <1>4, NewJumps
  <2>2. Aimed(i, Cur + 1)
    BY <1>2 DEF Aimed, BranchInst, Later
  <2> HIDE DEF i
  <2> QED
    BY <1>1, <1>4, <2>1, <2>2, JumpAims
<1>5. \/ UNCHANGED <<scopes, blocks>>
      \/ /\ n # NoIdent /\ t.type = "tag" /\ Accept(EndBlock(JumpTo(t, i)))
         /\ scopes' = add_symbol(scopes, n, Waiting(t))
  BY DEF _visit_if_stmt, GiveUp, Crash, r
<1> QED
  BY <1>3, <1>4, <1>5

\* main begins without jumps and tags, and ends without adding one.
LEMMA EndsAims ==
    ASSUME VisitorInv, Aims(Cur), Later, BeginMain \/ Finish
    PROVE  Aims(Cur)'
<1>1. CASE BeginMain
  <2>1. /\ blocks' = <<<<>>>> /\ AreScopes(scopes) /\ scopes' = Append(scopes, NewScope)
    BY <1>1 DEF BeginMain, VisitorInv, Shaped, Scoped
  <2>2. scopes'[Len(scopes')] = NewScope
    BY <2>1, PushFacts DEF NewScope
  <2>3. Tags' = {}
    BY <2>2 DEF Tags, NewScope, NoSymbol
  <2>4. DOMAIN blocks' = {1} /\ DOMAIN blocks'[1] = {}
    BY <2>1
  <2> QED
    BY <2>3, <2>4 DEF Aims, AllAimed
<1>2. CASE Finish
  <2> DEFINE inst == Return(Here)
  <2>1. inst.op \notin Jumps /\ inst.stmt \in 0 .. Here
    BY DEF Return, Jumps, Later
  <2> HIDE DEF inst
  <2>2. Visiting /\ ~Visiting' /\ blocks' = Emit(inst)
    BY <1>2 DEF Finish, Visiting, inst
  <2> QED
    BY <2>1, <2>2, EmitAims
<1> QED
  BY <1>1, <1>2

LEMMA FuncDefAims ==
    ASSUME VisitorInv, IsSeq(funcs), NEW n \in Idents \cup {NoIdent}, NEW params, NEW e,
           _visit_func_def(n, params, e)
    PROVE  Ranged'
<1>1. phase = "funcs" /\ phase' = "funcs" /\ blocks = <<>> /\ blocks' = <<>>
  BY DEF _visit_func_def, VisitorInv, Shaped
<1>2. Aims(Cur)'
  BY <1>1 DEF Aims, AllAimed, Visiting
<1>3. \/ funcs' = funcs
      \/ \E f : funcs' = Append(funcs, f)
  BY Zenon DEF _visit_func_def
<1>4. IsSeq(funcs')
  BY ZenonT(60), <1>3, AppendFacts
<1> QED
  BY <1>2, <1>4 DEF Ranged

\* Whatever the visit refers to exists.
LEMMA RangedInit == Init => Ranged
BY EmptyFacts DEF Init, Ranged, Aims, AllAimed, Visiting

\* No step forgets a statement.
LEMMA StmtsLater == ASSUME VisitorInv, [VisitorNext]_visitorVars PROVE Later
<1>1. IsSeq(src.stmts) /\ "stmts" \in DOMAIN src /\ Here \in Nat
  BY SeqFacts DEF VisitorInv, Scoped, Here
<1>2. ASSUME src'.stmts = src.stmts PROVE Later
  BY <1>1, <1>2 DEF Later, Here
<1>3. ASSUME NEW s, Visit(s) PROVE Later
  <2>1. src'.stmts = Append(src.stmts, s)
    BY <1>1, <1>3 DEF Visit
  <2>2. Here' = Here + 1
    BY <1>1, <2>1, AppendFacts DEF Here
  <2> QED
    BY <1>1, <2>2 DEF Later
<1>4. CASE \E n \in Idents \cup {NoIdent}, ps \in ParamLists, e \in Exps : _visit_func_def(n, ps, e)
  <2>1. \E f : src' = [src EXCEPT !.funcs = Append(@, f)]
    BY ZenonT(150), <1>4 DEF _visit_func_def
  <2>2. src'.stmts = src.stmts
    BY <1>1, <2>1
  <2> QED
    BY <1>2, <2>2
<1>5. CASE \E n \in Idents \cup {NoIdent} : _visit_var_decl(n)
  BY <1>1, <1>2, <1>5 DEF _visit_var_decl
<1>6. CASE Stmt
  <2>1. \E s : Visit(s)
    BY <1>6 DEF Stmt, _visit_get_stmt, _visit_tag_stmt, _visit_to_stmt, _visit_let_stmt,
                _visit_if_stmt, _visit_put_stmt
  <2> QED
    BY <1>3, <2>1
<1>7. CASE BeginMain \/ Finish \/ Stopped \/ UNCHANGED visitorVars
  BY <1>2, <1>7 DEF BeginMain, Finish, Stopped, visitorVars
<1> QED
  BY <1>4, <1>5, <1>6, <1>7 DEF VisitorNext

LEMMA RangedStep == ASSUME VisitorInv, Ranged, [VisitorNext]_visitorVars PROVE Ranged'
<1>1. Aims(Cur) /\ IsSeq(funcs) /\ Later
  BY StmtsLater DEF Ranged
<1>2. CASE \E n \in Idents \cup {NoIdent}, ps \in ParamLists, e \in Exps : _visit_func_def(n, ps, e)
  BY <1>1, <1>2, FuncDefAims
<1>3. ASSUME UNCHANGED funcs, Aims(Cur)' PROVE Ranged'
  BY <1>1, <1>3 DEF Ranged
<1>4. CASE BeginMain \/ Finish
  <2>1. UNCHANGED funcs
    BY <1>4 DEF BeginMain, Finish
  <2> QED
    BY <1>1, <1>3, <1>4, <2>1, EndsAims
<1>5. CASE \E n \in Idents \cup {NoIdent} : _visit_var_decl(n)
  <2>1. UNCHANGED funcs
    BY <1>5 DEF _visit_var_decl
  <2> QED
    BY <1>1, <1>3, <1>5, <2>1, VarDeclAims
<1>6. CASE Stmt
  <2>1. \E s : Visit(s)
    BY <1>6 DEF Stmt, _visit_get_stmt, _visit_tag_stmt, _visit_to_stmt, _visit_let_stmt,
                _visit_if_stmt, _visit_put_stmt
  <2>2. UNCHANGED funcs
    BY <2>1 DEF Visit
  <2>3. Aims(Cur)'
    BY <1>1, <1>6, GetAims, TagAims, ToAims, LetAims, IfAims, PutAims DEF Stmt
  <2> QED
    BY <1>3, <2>2, <2>3
<1>7. CASE Stopped \/ UNCHANGED visitorVars
  <2>1. UNCHANGED <<funcs, scopes, blocks, phase>>
    BY <1>7 DEF Stopped, visitorVars
  <2> QED
    BY <1>1, <1>3, <2>1, NothingAims DEF Visiting
<1> QED
  BY <1>2, <1>4, <1>5, <1>6, <1>7 DEF VisitorNext

\* What the visit refers to exists, whatever is questionable in the program:
\* jumps and tags have no other targets than blocks of main.
THEOREM RangedCorrect == Spec => []Ranged
<1>1. VisitorInv /\ Ranged /\ [VisitorNext]_visitorVars => Ranged'
  BY RangedStep
<1> QED
  BY RangedInit, <1>1, VisitorCorrect, PTL DEF Spec
-----------------------------------------------------------------------------
(***************************************************************************)
(* What the visit of an expression returns.                                *)
(***************************************************************************)
LEMMA NumVisit ==
    ASSUME NEW x, x.k = "num", NEW f, NEW sc
    PROVE  _visit_part(x, f, sc) = _visit_number
BY Zenon DEF _visit_part

LEMMA IdVisit ==
    ASSUME NEW x, x.k = "id", NEW f, NEW sc
    PROVE  _visit_part(x, f, sc) = _visit_ident_exp(x, sc)
BY Zenon DEF _visit_part

LEMMA UnaryVisit ==
    ASSUME NEW x, x.k = "unary", NEW f, NEW sc
    PROVE  _visit_part(x, f, sc) = _visit_unary_exp(f[x.e])
BY Zenon DEF _visit_part

LEMMA BinaryVisit ==
    ASSUME NEW x, x.k = "binary", NEW f, NEW sc
    PROVE  _visit_part(x, f, sc) = _visit_binary_exp(x, f[x.l], f[x.r])
BY Zenon DEF _visit_part

LEMMA CallVisit ==
    ASSUME NEW x, x.k = "call", NEW f, NEW sc
    PROVE  _visit_part(x, f, sc) = _visit_call_exp(x, sc, [i \in DOMAIN x.args |-> f[x.args[i]]])
BY Zenon DEF _visit_part

LEMMA BadVisit ==
    ASSUME NEW x, x.k = "bad", NEW f, NEW sc
    PROVE  _visit_part(x, f, sc) = Fail({})
BY Zenon DEF _visit_part

\* It depends on the visits of the children alone.
LEMMA VisitLocal ==
    ASSUME NEW S, NEW x, Node(x, S), NEW f, NEW g, \A y \in Children(x) : f[y] = g[y], NEW sc
    PROVE  _visit_part(x, f, sc) = _visit_part(x, g, sc)
<1>1. CASE x.k = "num"
  BY <1>1, NumVisit
<1>2. CASE x.k = "id"
  BY <1>2, IdVisit
<1>3. CASE x.k = "unary" /\ Children(x) = {x.e}
  <2>1. f[x.e] = g[x.e]
    BY <1>3
  <2> QED
    BY <1>3, <2>1, UnaryVisit
<1>4. CASE x.k = "binary" /\ Children(x) = {x.l, x.r}
  <2>1. f[x.l] = g[x.l] /\ f[x.r] = g[x.r]
    BY <1>4
  <2> QED
    BY <1>4, <2>1, BinaryVisit
<1>5. CASE x.k = "call" /\ Children(x) = RanOf(x.args)
  <2> DEFINE Parts(h) == [i \in DOMAIN x.args |-> h[x.args[i]]]
  <2>1. \A i \in DOMAIN x.args : f[x.args[i]] = g[x.args[i]]
    BY <1>5 DEF RanOf
  <2>2. Parts(f) = Parts(g)
    BY <2>1
  <2>3. _visit_part(x, f, sc) = _visit_call_exp(x, sc, Parts(f))
    BY <1>5, CallVisit
  <2>4. _visit_part(x, g, sc) = _visit_call_exp(x, sc, Parts(g))
    BY <1>5, CallVisit
  <2> HIDE DEF Parts
  <2> QED
    BY <2>2, <2>3, <2>4
<1>6. CASE x.k = "bad"
  BY <1>6, BadVisit
<1> QED
  BY <1>1, <1>2, <1>3, <1>4, <1>5, <1>6, Kind

\* What the recursive function in _visit_exp computes.
LEMMA ExpVisit ==
    ASSUME NEW e, Tree(e), NEW sc
    PROVE  \E visit : /\ _visit_exp(e, sc) = visit[e]
                      /\ \A x \in SubExps(e) : visit[x] = _visit_part(x, visit, sc)
<1> DEFINE Part(f, x) == _visit_part(x, f, sc)
<1>1. PICK L \in [0 .. Depth -> SUBSET SubExps(e)] :
              /\ L[0] = {} /\ L[Depth] = SubExps(e)
              /\ \A n \in 0 .. (Depth - 1) : /\ L[n] \subseteq L[n + 1]
                                             /\ \A x \in L[n + 1] : Children(x) \subseteq L[n]
  BY Layers
<1> DEFINE On(n) == \E f : f = [x \in L[n] |-> Part(f, x)]
           T     == {n \in 0 .. Depth : On(n)}
<1>2. Depth \in Nat
  BY DepthAssumption
<1>3. 0 \in T
  <2> DEFINE f == [x \in {} |-> {}]
  <2>1. f = [x \in {} |-> Part(f, x)]
    OBVIOUS
  <2>2. On(0)
    BY <1>1, <2>1
  <2> HIDE DEF On
  <2> QED
    BY <1>2, <2>2
<1>4. ASSUME NEW n \in 0 .. (Depth - 1), n \in T PROVE n + 1 \in T
  <2>1. PICK f : f = [x \in L[n] |-> Part(f, x)]
    BY <1>4
  <2> DEFINE g == [x \in L[n + 1] |-> Part(f, x)]
  <2>2. L[n] \subseteq L[n + 1] /\ L[n + 1] \subseteq SubExps(e)
    BY <1>1, <1>2
  <2>3. \A x \in L[n] : g[x] = f[x]
    <3> TAKE x \in L[n]
    <3>1. f[x] = Part(f, x)
      BY <2>1
    <3> HIDE DEF Part
    <3> QED
      BY <2>2, <3>1
  <2>4. g = [x \in L[n + 1] |-> Part(f, x)]
    OBVIOUS
  <2> HIDE DEF g
  <2>5. ASSUME NEW x \in L[n + 1] PROVE Part(f, x) = Part(g, x)
    <3>1. Node(x, SubExps(e))
      BY <2>2 DEF Tree
    <3>2. \A y \in Children(x) : f[y] = g[y]
      BY <1>1, <2>3
    <3> QED
      BY <3>1, <3>2, VisitLocal
  <2> HIDE DEF Part
  <2>6. On(n + 1)
    BY <2>4, <2>5
  <2> HIDE DEF On
  <2> QED
    BY <1>2, <2>6
<1>5. On(Depth)
  <2> HIDE DEF T
  <2>1. \A n \in 0 .. (Depth - 1) : n \in T => n + 1 \in T
    BY <1>4
  <2>2. \A n \in 0 .. Depth : n \in T
    BY <1>2, <1>3, <2>1, Climb
  <2>3. Depth \in T
    BY <1>2, <2>2
  <2> QED
    BY <2>3 DEF T
<1> DEFINE visit == CHOOSE f : f = [x \in SubExps(e) |-> Part(f, x)]
<1>6. visit = [x \in SubExps(e) |-> Part(visit, x)]
  <2> HIDE DEF Part
  <2> QED
    BY <1>1, <1>5
<1>7. _visit_exp(e, sc) = visit[e]
  BY DEF _visit_exp
<1> HIDE DEF visit
<1>8. \A x \in SubExps(e) : visit[x] = Part(visit, x)
  <2> HIDE DEF Part
  <2> QED
    BY <1>6
<1> QED
  BY <1>7, <1>8

\* What the names of an expression stand for: the variables and the functions
\* with their numbers of parameters.
Resolves(sc, vars, calls) ==
    \A n \in Idents :
        LET s == get_symbol(sc, n)
        IN  /\ s.type \in {"none", "var", "func", "tag"}
            /\ s.type = "var" <=> n \in vars
            /\ \A k \in Nat : <<n, k>> \in calls <=> s.type = "func" /\ s.count = k

AtFault(x, vars, calls) ==
    \/ x = Bad
    \/ x.k = "id" /\ x.n \notin vars
    \/ x.k = "call" /\ <<x.n, Len(x.args)>> \notin calls

\* The visit r of x, if f are those of its children.
Answers(x, f, r, vars, calls) ==
    /\ r.val = NoVal <=> AtFault(x, vars, calls) \/ \E y \in Children(x) : f[y].val = NoVal
    /\ r.val # NoVal => r.errs = {}
    /\ /\ x # Bad /\ Bad \notin Children(x)
       /\ \A y \in Children(x) : f[y].val = NoVal => f[y].errs # {}
       => (r.val = NoVal => r.errs # {})

LEMMA FailIs == ASSUME NEW es PROVE Fail(es).val = NoVal /\ Fail(es).errs = es
BY DEF Fail

LEMMA GoodIs == ASSUME NEW v PROVE Good(v).val = v /\ Good(v).errs = {}
BY DEF Good

LEMMA FaultAnswers ==
    ASSUME NEW x, NEW f, NEW vars, NEW calls, NEW es, es # {}, NEW r, r = Fail(es),
           AtFault(x, vars, calls)
    PROVE  Answers(x, f, r, vars, calls)
<1>1. r.val = NoVal /\ r.errs # {}
  BY FailIs
<1> QED
  BY <1>1 DEF Answers

LEMMA GoodAnswers ==
    ASSUME NEW x, NEW f, NEW vars, NEW calls, NEW v, v # NoVal, NEW r, r = Good(v),
           ~AtFault(x, vars, calls), \A y \in Children(x) : f[y].val # NoVal
    PROVE  Answers(x, f, r, vars, calls)
<1>1. r.val # NoVal /\ r.errs = {}
  BY GoodIs
<1> QED
  BY <1>1 DEF Answers

\* A part without a value leaves the whole without one.
LEMMA PassAnswers ==
    ASSUME NEW x, NEW f, NEW vars, NEW calls, NEW r, r.val = NoVal,
           \E y \in Children(x) : f[y].val = NoVal,
           /\ Bad \notin Children(x)
           /\ \A y \in Children(x) : f[y].val = NoVal => f[y].errs # {}
           => r.errs # {}
    PROVE  Answers(x, f, r, vars, calls)
BY DEF Answers

LEMMA IdAnswers ==
    ASSUME NEW x, x.k = "id", x.n \in Idents, Children(x) = {},
           NEW f, NEW sc, NEW vars, NEW calls, Resolves(sc, vars, calls),
           NEW r, r = _visit_ident_exp(x, sc)
    PROVE  Answers(x, f, r, vars, calls)
<1> DEFINE s == get_symbol(sc, x.n)
<1>1. x # Bad /\ x.k # "call"
  BY DEF Bad
<1>2. s.type \in {"none", "var", "func", "tag"} /\ (s.type = "var" <=> x.n \in vars)
  BY DEF Resolves
<1>3. CASE s.type = "none"
  <2>1. r = Fail({"undefined symbol"})
    BY <1>3, Zenon DEF _visit_ident_exp
  <2>2. AtFault(x, vars, calls)
    BY <1>2, <1>3 DEF AtFault
  <2> QED
    BY <2>1, <2>2, FaultAnswers
<1>4. CASE s.type = "var"
  <2>1. r = Good(Loaded(s.cell)) /\ Loaded(s.cell) # NoVal
    <3>1. r = Good(Loaded(s.cell))
      BY <1>4, Zenon DEF _visit_ident_exp
    <3> QED
      BY <3>1 DEF Loaded, NoVal
  <2>2. ~AtFault(x, vars, calls)
    BY <1>1, <1>2, <1>4 DEF AtFault
  <2> QED
    BY <2>1, <2>2, GoodAnswers
<1>5. CASE s.type \in {"func", "tag"}
  <2>1. r = Fail({"not a variable"})
    BY <1>5 DEF _visit_ident_exp
  <2>2. AtFault(x, vars, calls)
    BY <1>2, <1>5 DEF AtFault
  <2> QED
    BY <2>1, <2>2, FaultAnswers
<1> QED
  BY <1>2, <1>3, <1>4, <1>5

LEMMA UnaryAnswers ==
    ASSUME NEW x, x.k = "unary", Children(x) = {x.e}, NEW f, NEW vars, NEW calls,
           NEW r, r = _visit_unary_exp(f[x.e])
    PROVE  Answers(x, f, r, vars, calls)
<1>1. ~AtFault(x, vars, calls)
  BY DEF AtFault, Bad
<1>2. CASE f[x.e].val = NoVal
  <2>1. r = f[x.e]
    BY <1>2 DEF _visit_unary_exp
  <2> QED
    BY <1>2, <2>1, PassAnswers
<1>3. CASE f[x.e].val # NoVal
  <2> DEFINE v == [op |-> "unary", of |-> f[x.e].val]
  <2>1. r = Good(v)
    BY <1>3 DEF _visit_unary_exp
  <2>2. v # NoVal
    BY DEF NoVal
  <2> HIDE DEF v
  <2> QED
    BY <1>1, <1>3, <2>1, <2>2, GoodAnswers
<1> QED
  BY <1>2, <1>3

LEMMA BinaryAnswers ==
    ASSUME NEW x, x.k = "binary", Children(x) = {x.l, x.r}, NEW f, NEW vars, NEW calls,
           Bad \in Children(x) => f[Bad].val = NoVal,
           NEW r, r = _visit_binary_exp(x, f[x.l], f[x.r])
    PROVE  Answers(x, f, r, vars, calls)
<1>1. ~AtFault(x, vars, calls)
  BY DEF AtFault, Bad
<1>2. CASE Bad \in {x.l, x.r}
  <2>1. r = Fail({})
    BY <1>2 DEF _visit_binary_exp
  <2>2. r.val = NoVal
    BY <2>1, FailIs
  <2> QED
    BY <1>2, <2>2, PassAnswers
<1>3. CASE Bad \notin {x.l, x.r} /\ NoVal \in {f[x.l].val, f[x.r].val}
  <2>1. r = Fail(f[x.l].errs \cup f[x.r].errs)
    BY <1>3 DEF _visit_binary_exp
  <2>2. r.val = NoVal /\ r.errs = f[x.l].errs \cup f[x.r].errs
    BY <2>1, FailIs
  <2> QED
    BY <1>3, <2>2, PassAnswers
<1>4. CASE Bad \notin {x.l, x.r} /\ NoVal \notin {f[x.l].val, f[x.r].val}
  <2> DEFINE v == [op |-> "binary", l |-> f[x.l].val, r |-> f[x.r].val]
  <2>1. r = Good(v)
    BY <1>4, Zenon DEF _visit_binary_exp
  <2>2. v # NoVal
    BY DEF NoVal
  <2> HIDE DEF v
  <2> QED
    BY <1>1, <1>4, <2>1, <2>2, GoodAnswers
<1> QED
  BY <1>2, <1>3, <1>4

LEMMA CallAnswers ==
    ASSUME NEW S, NEW x, x.k = "call", x.n \in Idents, x.args \in Seq(S),
           Children(x) = RanOf(x.args),
           NEW f, NEW sc, NEW vars, NEW calls, Resolves(sc, vars, calls),
           NEW args, args = [i \in DOMAIN x.args |-> f[x.args[i]]],
           NEW r, r = _visit_call_exp(x, sc, args)
    PROVE  Answers(x, f, r, vars, calls)
<1> DEFINE s == get_symbol(sc, x.n)
<1>1. x # Bad /\ x.k # "id" /\ Len(x.args) \in Nat
  BY DEF Bad
<1>2. /\ s.type \in {"none", "var", "func", "tag"}
      /\ (<<x.n, Len(x.args)>> \in calls <=> s.type = "func" /\ s.count = Len(x.args))
  BY <1>1 DEF Resolves
<1>3. RanOf(args) = {f[y] : y \in Children(x)}
  BY DEF RanOf
<1>4. CASE s.type = "none"
  <2>1. r = Fail({"undefined symbol"})
    BY <1>4, Zenon DEF _visit_call_exp
  <2>2. AtFault(x, vars, calls)
    BY <1>2, <1>4 DEF AtFault
  <2> QED
    BY <2>1, <2>2, FaultAnswers
<1>5. CASE s.type \in {"var", "tag"}
  <2>1. r = Fail({"not a function"})
    BY <1>5 DEF _visit_call_exp
  <2>2. AtFault(x, vars, calls)
    BY <1>2, <1>5 DEF AtFault
  <2> QED
    BY <2>1, <2>2, FaultAnswers
<1>6. CASE s.type = "func" /\ s.count # Len(x.args)
  <2>1. r = Fail({"params number"})
    BY <1>6 DEF _visit_call_exp
  <2>2. AtFault(x, vars, calls)
    BY <1>2, <1>6 DEF AtFault
  <2> QED
    BY <2>1, <2>2, FaultAnswers
<1>7. CASE s.type = "func" /\ s.count = Len(x.args)
  <2> DEFINE v    == [op |-> "call", fn |-> s.fn, args |-> [i \in DOMAIN args |-> args[i].val]]
             errs == UNION {a.errs : a \in RanOf(args)}
  <2>1. ~AtFault(x, vars, calls)
    BY <1>1, <1>2, <1>7 DEF AtFault
  <2>2. r = IF \E a \in RanOf(args) : a.val = NoVal THEN Fail(errs) ELSE Good(v)
    BY <1>7 DEF _visit_call_exp
  <2>3. v # NoVal
    BY DEF NoVal
  <2> HIDE DEF v
  <2>4. CASE \E y \in Children(x) : f[y].val = NoVal
    <3>1. r.val = NoVal /\ r.errs = errs
      BY <1>3, <2>2, <2>4, FailIs
    <3>2. ASSUME \A y \in Children(x) : f[y].val = NoVal => f[y].errs # {} PROVE errs # {}
      <4>1. PICK y \in Children(x) : f[y].errs # {}
        BY <2>4, <3>2
      <4>2. f[y] \in RanOf(args)
        BY <1>3
      <4>3. PICK m : m \in f[y].errs
        BY <4>1
      <4> QED
        BY SMTT(60), <4>2, <4>3
    <3> HIDE DEF errs
    <3> QED
      BY <2>4, <3>1, <3>2, PassAnswers
  <2>5. CASE \A y \in Children(x) : f[y].val # NoVal
    <3>1. r = Good(v)
      BY <1>3, <2>2, <2>5
    <3> QED
      BY <2>1, <2>3, <2>5, <3>1, GoodAnswers
  <2> QED
    BY <2>4, <2>5
<1> QED
  BY <1>2, <1>4, <1>5, <1>6, <1>7

LEMMA PartAnswers ==
    ASSUME NEW S, NEW x, Node(x, S), NEW f, Bad \in Children(x) => f[Bad].val = NoVal,
           NEW sc, NEW vars, NEW calls, Resolves(sc, vars, calls),
           NEW r, r = _visit_part(x, f, sc)
    PROVE  Answers(x, f, r, vars, calls)
<1>1. CASE x.k = "num" /\ Children(x) = {}
  <2>1. r = Good(Lit) /\ Lit # NoVal /\ ~AtFault(x, vars, calls)
    BY <1>1, NumVisit DEF _visit_number, Lit, NoVal, AtFault, Bad
  <2> QED
    BY <1>1, <2>1, GoodAnswers
<1>2. CASE x = Bad
  <2>1. r = Fail({}) /\ AtFault(x, vars, calls)
    BY <1>2, BadVisit DEF AtFault, Bad
  <2>2. r.val = NoVal
    BY <2>1, FailIs
  <2> QED
    BY <1>2, <2>1, <2>2 DEF Answers
<1>3. CASE x.k = "id" /\ x.n \in Idents /\ Children(x) = {}
  BY <1>3, IdVisit, IdAnswers
<1>4. CASE x.k = "unary" /\ Children(x) = {x.e}
  BY <1>4, UnaryVisit, UnaryAnswers
<1>5. CASE x.k = "binary" /\ Children(x) = {x.l, x.r}
  BY <1>5, BinaryVisit, BinaryAnswers
<1>6. CASE x.k = "call" /\ x.n \in Idents /\ x.args \in Seq(S) /\ Children(x) = RanOf(x.args)
  <2> DEFINE args == [i \in DOMAIN x.args |-> f[x.args[i]]]
  <2>1. r = _visit_call_exp(x, sc, args)
    BY <1>6, CallVisit
  <2>2. args = [i \in DOMAIN x.args |-> f[x.args[i]]]
    OBVIOUS
  <2> HIDE DEF args
  <2> QED
    BY <1>6, <2>1, <2>2, CallAnswers
<1> QED
  BY <1>1, <1>2, <1>3, <1>4, <1>5, <1>6, Kind

\* What a part is made of is a part.
LEMMA PartsClosed ==
    ASSUME NEW e, Tree(e), NEW x \in SubExps(e)
    PROVE  Node(x, SubExps(e)) /\ Children(x) \subseteq SubExps(e)
<1>1. Node(x, SubExps(e))
  BY DEF Tree
<1>2. x.k = "call" /\ x.args \in Seq(SubExps(e)) => RanOf(x.args) \subseteq SubExps(e)
  BY DEF RanOf
<1>3. Children(x) \subseteq SubExps(e)
  BY <1>1, <1>2, Kind
<1> QED
  BY <1>1, <1>3

\* A value for the whole means a value for every part.
LEMMA ValuesDown ==
    ASSUME NEW e, NEW T, e \in T,
           \A x \in SubExps(e) : x \in T => Children(x) \subseteq T
    PROVE  SubExps(e) \subseteq T
<1> DEFINE P == PartsAt(e)
           N == {k \in 0 .. (Depth - 1) : P[k + 1] \subseteq T}
<1>1. Depth \in Nat /\ Depth - 1 \in Nat
  BY DepthAssumption
<1>2. P[1] = {e} /\ \A d \in 2 .. Depth : P[d] = UNION {Children(x) : x \in P[d - 1]}
  BY PartsFacts
<1>3. SubExps(e) = UNION {P[d] : d \in 1 .. Depth}
  BY DEF SubExps
<1> HIDE DEF P
<1>4. 0 \in N
  BY <1>1, <1>2
<1>5. ASSUME NEW k \in 0 .. (Depth - 1 - 1), k \in N PROVE k + 1 \in N
  <2>1. k + 1 \in 1 .. Depth /\ k + 2 \in 2 .. Depth /\ (k + 2) - 1 = k + 1 /\ (k + 1) + 1 = k + 2
        /\ k + 1 \in 0 .. (Depth - 1)
    BY <1>1
  <2>2. P[k + 2] = UNION {Children(x) : x \in P[k + 1]}
    BY <1>2, <2>1
  <2>3. P[k + 1] \subseteq T /\ P[k + 1] \subseteq SubExps(e)
    BY <1>3, <1>5, <2>1
  <2>4. P[k + 2] \subseteq T
    BY <2>2, <2>3
  <2> QED
    BY <2>1, <2>4
<1>6. \A k \in 0 .. (Depth - 1) : k \in N
  <2> HIDE DEF N
  <2>1. \A k \in 0 .. (Depth - 1 - 1) : k \in N => k + 1 \in N
    BY <1>5
  <2> QED
    BY <1>1, <1>4, <2>1, Climb
<1>7. ASSUME NEW d \in 1 .. Depth PROVE P[d] \subseteq T
  <2>1. d - 1 \in 0 .. (Depth - 1) /\ (d - 1) + 1 = d
    BY <1>1
  <2> QED
    BY <1>6, <2>1
<1> QED
  BY <1>3, <1>7

\* The visit of an expression yields a value exactly if the expression is not
\* at fault; then it reports nothing, and else something, or the parser did.
LEMMA ExpExact ==
    ASSUME NEW e, Tree(e), NEW sc, NEW vars, NEW calls, Resolves(sc, vars, calls),
           NEW r, r = _visit_exp(e, sc)
    PROVE  /\ r.val = NoVal <=> FaultyExp(e, vars, calls)
           /\ r.val # NoVal => r.errs = {}
           /\ r.val = NoVal /\ Bad \notin SubExps(e) => r.errs # {}
<1>1. PICK f : r = f[e] /\ \A x \in SubExps(e) : f[x] = _visit_part(x, f, sc)
  BY ExpVisit
<1>2. Bad \in SubExps(e) => f[Bad].val = NoVal
  <2> SUFFICES ASSUME Bad \in SubExps(e) PROVE f[Bad].val = NoVal
    OBVIOUS
  <2>1. f[Bad] = Fail({})
    BY <1>1, BadVisit DEF Bad
  <2> QED
    BY <2>1, FailIs
<1>3. ASSUME NEW x \in SubExps(e) PROVE Answers(x, f, f[x], vars, calls)
  BY <1>1, <1>2, PartsClosed, PartAnswers
<1>4. e \in SubExps(e)
  BY Rooted
<1>5. FaultyExp(e, vars, calls) <=> \E x \in SubExps(e) : AtFault(x, vars, calls)
  BY DEF FaultyExp, AtFault
<1>6. ASSUME ~FaultyExp(e, vars, calls) PROVE r.val # NoVal
  <2> DEFINE T == {x \in SubExps(e) : f[x].val # NoVal}
  <2>1. \A x \in SubExps(e) : Children(x) \subseteq T => x \in T
    BY <1>3, <1>5, <1>6 DEF Answers
  <2> HIDE DEF T
  <2>2. SubExps(e) \subseteq T
    BY <2>1, PartsInduction
  <2> QED
    BY <1>1, <1>4, <2>2 DEF T
<1>7. ASSUME r.val # NoVal PROVE ~FaultyExp(e, vars, calls)
  <2> DEFINE T == {x \in SubExps(e) : f[x].val # NoVal}
  <2>1. \A x \in SubExps(e) : x \in T => Children(x) \subseteq T
    BY <1>3, PartsClosed DEF Answers
  <2>2. e \in T
    BY <1>1, <1>4, <1>7
  <2>3. SubExps(e) \subseteq T
    <3> HIDE DEF T
    <3> QED
      BY <2>1, <2>2, ValuesDown
  <2> QED
    BY <1>3, <1>5, <2>3 DEF Answers
<1>8. ASSUME Bad \notin SubExps(e), r.val = NoVal PROVE r.errs # {}
  <2> DEFINE T == {x \in SubExps(e) : f[x].val = NoVal => f[x].errs # {}}
  <2>1. ASSUME NEW x \in SubExps(e), Children(x) \subseteq T PROVE x \in T
    <3>1. x # Bad /\ Bad \notin Children(x)
      BY <1>8, PartsClosed
    <3>2. \A y \in Children(x) : f[y].val = NoVal => f[y].errs # {}
      BY <2>1
    <3> QED
      BY <1>3, <3>1, <3>2 DEF Answers
  <2> HIDE DEF T
  <2>2. \A x \in SubExps(e) : Children(x) \subseteq T => x \in T
    BY <2>1
  <2>3. SubExps(e) \subseteq T
    BY <2>2, PartsInduction
  <2> QED
    BY <1>1, <1>4, <1>8, <2>3 DEF T
<1>9. r.val # NoVal => r.errs = {}
  BY <1>1, <1>3, <1>4 DEF Answers
<1> QED
  BY <1>6, <1>7, <1>8, <1>9

-----------------------------------------------------------------------------
(***************************************************************************)
(* The identifiers that are not null.                                      *)
(***************************************************************************)

\* What the recursive function in NotNull computes.
LEMMA KeptFacts ==
    ASSUME NEW ids, IsSeq(ids)
    PROVE  \E kept : /\ NotNull(ids) = kept[Len(ids)] /\ kept[0] = <<>>
                     /\ \A i \in 1 .. Len(ids) :
                           kept[i] = IF ids[i] = NoIdent THEN kept[i - 1]
                                     ELSE Append(kept[i - 1], ids[i])
<1> DEFINE Keep(f, i) == IF i = 0 THEN <<>>
                         ELSE IF ids[i] = NoIdent THEN f[i - 1]
                         ELSE Append(f[i - 1], ids[i])
           Upto(n) == \E f : f = [i \in 0 .. n |-> Keep(f, i)]
           T       == {n \in Nat : Upto(n)}
<1>1. 0 \in T
  <2> DEFINE f == [i \in 0 .. 0 |-> <<>>]
  <2>1. f = [i \in 0 .. 0 |-> Keep(f, i)]
    OBVIOUS
  <2> HIDE DEF f
  <2>2. Upto(0)
    BY <2>1
  <2> HIDE DEF Upto
  <2> QED
    BY <2>2
<1>2. ASSUME NEW n \in Nat, n \in T PROVE n + 1 \in T
  <2>1. PICK f : f = [i \in 0 .. n |-> Keep(f, i)]
    BY <1>2
  <2> DEFINE g == [i \in 0 .. (n + 1) |-> Keep(f, i)]
  <2>2. \A i \in 0 .. n : g[i] = f[i]
    <3> TAKE i \in 0 .. n
    <3>1. f[i] = Keep(f, i)
      BY <2>1
    <3> HIDE DEF Keep
    <3> QED
      BY <3>1
  <2>3. \A i \in 0 .. (n + 1) : Keep(f, i) = Keep(g, i)
    <3> TAKE i \in 0 .. (n + 1)
    <3>1. i # 0 => i - 1 \in 0 .. n
      BY <1>2
    <3> HIDE DEF g
    <3> QED
      BY <2>2, <3>1
  <2>4. g = [i \in 0 .. (n + 1) |-> Keep(g, i)]
    <3> HIDE DEF Keep
    <3>1. g = [i \in 0 .. (n + 1) |-> Keep(f, i)]
      OBVIOUS
    <3> HIDE DEF g
    <3> QED
      BY <2>3, <3>1
  <2> HIDE DEF g, Keep
  <2>5. Upto(n + 1)
    BY <2>4
  <2> HIDE DEF Upto
  <2> QED
    BY <1>2, <2>5
<1>3. Len(ids) \in T
  <2> HIDE DEF T
  <2>1. Len(ids) \in Nat
    BY SeqFacts
  <2>2. \A k \in 0 .. (Len(ids) - 1) : k \in T => k + 1 \in T
    BY <1>2, <2>1
  <2>3. \A k \in 0 .. Len(ids) : k \in T
    BY <1>1, <2>1, <2>2, Climb
  <2> QED
    BY <2>1, <2>3
<1> DEFINE kept == CHOOSE f : f = [i \in 0 .. Len(ids) |-> Keep(f, i)]
<1>4. NotNull(ids) = kept[Len(ids)]
  BY DEF NotNull
<1>5. kept = [i \in 0 .. Len(ids) |-> Keep(kept, i)]
  <2> HIDE DEF Keep
  <2> QED
    BY <1>3
<1> HIDE DEF kept
<1>6. Len(ids) \in Nat
  BY SeqFacts
<1>7. \A i \in 0 .. Len(ids) : kept[i] = Keep(kept, i)
  <2> HIDE DEF Keep
  <2> QED
    BY <1>5
<1>8. kept[0] = <<>>
  BY <1>6, <1>7
<1>9. \A i \in 1 .. Len(ids) : kept[i] = IF ids[i] = NoIdent THEN kept[i - 1]
                                         ELSE Append(kept[i - 1], ids[i])
  BY <1>6, <1>7
<1> QED
  BY <1>4, <1>8, <1>9

LEMMA NotNullFacts ==
    ASSUME NEW ids \in Seq(Ident)
    PROVE  /\ IsSeq(NotNull(ids)) /\ Len(NotNull(ids)) <= Len(ids)
           /\ RanOf(NotNull(ids)) = RanOf(ids) \ {NoIdent}
           /\ NoIdent \notin RanOf(ids) => NotNull(ids) = ids
<1>1. IsSeq(ids) /\ Len(ids) \in Nat /\ DOMAIN ids = 1 .. Len(ids)
  BY SeqOwn
<1>2. PICK kept : /\ NotNull(ids) = kept[Len(ids)] /\ kept[0] = <<>>
                  /\ \A i \in 1 .. Len(ids) :
                        kept[i] = IF ids[i] = NoIdent THEN kept[i - 1]
                                  ELSE Append(kept[i - 1], ids[i])
  BY <1>1, KeptFacts
<1> DEFINE Upto(i) == {ids[j] : j \in 1 .. i}
           Good1(i) == /\ IsSeq(kept[i]) /\ Len(kept[i]) <= i
                       /\ RanOf(kept[i]) = Upto(i) \ {NoIdent}
           Good2(i) == NoIdent \notin Upto(i) =>
                          /\ Len(kept[i]) = i
                          /\ \A j \in 1 .. i : kept[i][j] = ids[j]
           T == {i \in 0 .. Len(ids) : Good1(i) /\ Good2(i)}
<1>3. 0 \in T
  <2>1. RanOf(<<>>) = {} /\ Upto(0) = {}
    BY DEF RanOf
  <2>2. Good1(0) /\ Good2(0)
    BY <1>2, <2>1, EmptyFacts
  <2> HIDE DEF Good1, Good2
  <2> QED
    BY <1>1, <2>2
<1>4. ASSUME NEW k \in 0 .. (Len(ids) - 1), k \in T PROVE k + 1 \in T
  <2>1. k + 1 \in 1 .. Len(ids) /\ (k + 1) - 1 = k /\ k \in Nat
    BY <1>1
  <2>2. Good1(k) /\ Good2(k)
    BY <1>4
  <2>3. Upto(k + 1) = Upto(k) \cup {ids[k + 1]}
    BY <2>1
  <2> HIDE DEF Upto
  <2>4. kept[k + 1] = IF ids[k + 1] = NoIdent THEN kept[k] ELSE Append(kept[k], ids[k + 1])
    BY <1>2, <2>1
  <2>5. Len(kept[k]) \in Nat /\ DOMAIN kept[k] = 1 .. Len(kept[k])
    BY <2>2, SeqFacts
  <2>6. CASE ids[k + 1] = NoIdent
    <3>1. kept[k + 1] = kept[k]
      BY <2>4, <2>6
    <3>2. Good1(k + 1)
      BY <2>1, <2>2, <2>3, <2>5, <2>6, <3>1
    <3>3. Good2(k + 1)
      BY <2>3, <2>6
    <3> HIDE DEF Good1, Good2
    <3> QED
      BY <2>1, <3>2, <3>3
  <2>7. CASE ids[k + 1] # NoIdent
    <3>1. kept[k + 1] = Append(kept[k], ids[k + 1])
      BY <2>4, <2>7
    <3>2. /\ IsSeq(kept[k + 1]) /\ Len(kept[k + 1]) = Len(kept[k]) + 1
          /\ kept[k + 1][Len(kept[k]) + 1] = ids[k + 1]
          /\ \A j \in DOMAIN kept[k] : kept[k + 1][j] = kept[k][j]
          /\ RanOf(kept[k + 1]) = RanOf(kept[k]) \cup {ids[k + 1]}
      BY <2>2, <3>1, AppendFacts, AppendRange
    <3>3. Good1(k + 1)
      BY <2>1, <2>2, <2>3, <2>5, <2>7, <3>2
    <3>4. Good2(k + 1)
      <4> SUFFICES ASSUME NoIdent \notin Upto(k + 1)
                   PROVE  /\ Len(kept[k + 1]) = k + 1
                          /\ \A j \in 1 .. (k + 1) : kept[k + 1][j] = ids[j]
        OBVIOUS
      <4>1. Len(kept[k]) = k /\ \A j \in 1 .. k : kept[k][j] = ids[j]
        BY <2>2, <2>3
      <4> HIDE DEF Good1, Good2
      <4>2. Len(kept[k + 1]) = k + 1
        BY <3>2, <4>1
      <4>3. kept[k + 1][k + 1] = ids[k + 1]
        BY <3>2, <4>1
      <4>4. \A j \in 1 .. k : kept[k + 1][j] = ids[j]
        BY <2>5, <3>2, <4>1
      <4>5. \A j \in 1 .. (k + 1) : j \in 1 .. k \/ j = k + 1
        BY <2>1
      <4> QED
        BY <4>2, <4>3, <4>4, <4>5
    <3> HIDE DEF Good1, Good2
    <3> QED
      BY <2>1, <3>3, <3>4
  <2> QED
    BY <2>6, <2>7
<1>5. \A k \in 0 .. Len(ids) : k \in T
  <2> HIDE DEF T
  <2>1. \A k \in 0 .. (Len(ids) - 1) : k \in T => k + 1 \in T
    BY <1>4
  <2> QED
    BY <1>1, <1>3, <2>1, Climb
<1>6. Upto(Len(ids)) = RanOf(ids)
  BY <1>1 DEF RanOf
<1>7. Good1(Len(ids)) /\ Good2(Len(ids))
  <2> HIDE DEF Good1, Good2
  <2> QED
    BY <1>1, <1>5
<1>8. ASSUME NoIdent \notin RanOf(ids) PROVE NotNull(ids) = ids
  <2>1. IsSeq(NotNull(ids)) /\ Len(NotNull(ids)) = Len(ids)
    BY <1>2, <1>6, <1>7, <1>8
  <2>2. \A j \in 1 .. Len(ids) : NotNull(ids)[j] = ids[j]
    BY <1>2, <1>6, <1>7, <1>8
  <2> QED
    BY <1>1, <2>1, <2>2, SameSeq
<1> QED
  BY <1>2, <1>6, <1>7, <1>8

-----------------------------------------------------------------------------
(***************************************************************************)
(* One scope, and two.                                                     *)
(***************************************************************************)
LEMMA OneScope ==
    ASSUME NEW g, DOMAIN g = Idents, NEW n \in Idents, NEW s
    PROVE  /\ exist_in_scope(<<g>>, n) <=> g[n] # NoSymbol
           /\ add_symbol(<<g>>, n, s) = <<[g EXCEPT ![n] = s]>>
<1> DEFINE h  == [g EXCEPT ![n] = s]
           sc == <<g>>
<1>1. Len(sc) = 1 /\ sc[1] = g
  OBVIOUS
<1>2. add_symbol(sc, n, s) = [sc EXCEPT ![Len(sc)] = [sc[Len(sc)] EXCEPT ![n] = s]]
  BY DEF add_symbol
<1>3. add_symbol(sc, n, s) = [sc EXCEPT ![1] = h]
  <2> HIDE DEF sc
  <2> QED
    BY <1>1, <1>2
<1> HIDE DEF h
<1>4. [<<g>> EXCEPT ![1] = h] = <<h>>
  OBVIOUS
<1>5. exist_in_scope(sc, n) <=> g[n] # NoSymbol
  <2> HIDE DEF sc
  <2> QED
    BY <1>1 DEF exist_in_scope
<1> QED
  BY <1>3, <1>4, <1>5 DEF h

\* The scope m after name n has been given symbol s.
WithName(m, n, s) == [m EXCEPT ![n] = s]

LEMMA TwoScopes ==
    ASSUME NEW g, NEW m, DOMAIN m = Idents, NEW n \in Idents, NEW s
    PROVE  /\ exist_in_scope(<<g, m>>, n) <=> m[n] # NoSymbol
           /\ add_symbol(<<g, m>>, n, s) = <<g, WithName(m, n, s)>>
           /\ get_symbol(<<g, m>>, n) = IF m[n] # NoSymbol THEN m[n] ELSE g[n]
<1> DEFINE sc    == <<g, m>>
           found == {i \in DOMAIN sc : sc[i][n] # NoSymbol}
<1>1. Len(sc) = 2 /\ DOMAIN sc = 1 .. 2 /\ sc[1] = g /\ sc[2] = m
  OBVIOUS
<1>2. exist_in_scope(sc, n) <=> m[n] # NoSymbol
  BY DEF exist_in_scope
<1>3. add_symbol(sc, n, s) = <<g, WithName(m, n, s)>>
  <2> DEFINE h == [m EXCEPT ![n] = s]
  <2>1. add_symbol(sc, n, s) = [sc EXCEPT ![Len(sc)] = [sc[Len(sc)] EXCEPT ![n] = s]]
    BY DEF add_symbol
  <2>2. add_symbol(sc, n, s) = [sc EXCEPT ![2] = h]
    <3> HIDE DEF sc
    <3> QED
      BY <1>1, <2>1
  <2> HIDE DEF h
  <2>3. [<<g, m>> EXCEPT ![2] = h] = <<g, h>>
    OBVIOUS
  <2> QED
    BY <2>2, <2>3 DEF h, WithName
<1>4. get_symbol(sc, n) =
        IF found = {} THEN NoSymbol
        ELSE sc[CHOOSE i \in found : \A j \in found : j <= i][n]
  BY DEF get_symbol
<1> HIDE DEF sc
<1>5. CASE m[n] # NoSymbol
  <2>1. 2 \in found /\ \A j \in found : j <= 2
    BY <1>1, <1>5
  <2>2. \A i \in found : (\A j \in found : j <= i) => i = 2
    BY <1>1, <2>1
  <2> HIDE DEF found
  <2>3. (CHOOSE i \in found : \A j \in found : j <= i) = 2
    BY <2>1, <2>2
  <2> QED
    BY <1>1, <1>2, <1>3, <1>4, <1>5, <2>1, <2>3 DEF sc
<1>6. CASE m[n] = NoSymbol /\ g[n] # NoSymbol
  <2>1. found = {1}
    BY <1>1, <1>6
  <2>2. (CHOOSE i \in found : \A j \in found : j <= i) = 1
    BY <2>1
  <2> HIDE DEF found
  <2> QED
    BY <1>1, <1>2, <1>3, <1>4, <1>6, <2>1, <2>2 DEF sc
<1>7. CASE m[n] = NoSymbol /\ g[n] = NoSymbol
  <2>1. found = {}
    BY <1>1, <1>7
  <2> HIDE DEF found
  <2> QED
    BY <1>1, <1>2, <1>3, <1>4, <1>7, <2>1 DEF sc
<1> QED
  BY <1>5, <1>6, <1>7

LEMMA GetTwo ==
    ASSUME NEW g, NEW m, DOMAIN m = Idents, NEW n \in Idents
    PROVE  get_symbol(<<g, m>>, n) = IF m[n] # NoSymbol THEN m[n] ELSE g[n]
<1>1. \A s : get_symbol(<<g, m>>, n) = IF m[n] # NoSymbol THEN m[n] ELSE g[n]
  BY TwoScopes
<1> QED
  BY <1>1

LEMMA NameFacts ==
    ASSUME NEW m, DOMAIN m = Idents, NEW n \in Idents, NEW s
    PROVE  /\ DOMAIN WithName(m, n, s) = Idents
           /\ WithName(m, n, s)[n] = s
           /\ \A x \in Idents : x # n => WithName(m, n, s)[x] = m[x]
BY DEF WithName

LEMMA AddTwo ==
    ASSUME NEW sc, NEW g, NEW m, sc = <<g, m>>, DOMAIN m = Idents, NEW n \in Idents
    PROVE  /\ exist_in_scope(sc, n) <=> m[n] # NoSymbol
           /\ \A s : add_symbol(sc, n, s) = <<g, WithName(m, n, s)>>
<1>1. \A s : exist_in_scope(sc, n) <=> m[n] # NoSymbol
  BY TwoScopes
<1>2. ASSUME NEW s PROVE add_symbol(sc, n, s) = <<g, WithName(m, n, s)>>
  BY TwoScopes
<1> QED
  BY <1>1, <1>2

LEMMA PushOne == ASSUME NEW g, NEW m PROVE Append(<<g>>, m) = <<g, m>>
<1> DEFINE s == <<g>>
           t == <<g, m>>
<1>1. /\ IsSeq(s) /\ Len(s) = 1 /\ s[1] = g
      /\ IsSeq(t) /\ Len(t) = 2 /\ t[1] = g /\ t[2] = m
  <2>1. s \in Seq({g}) /\ t \in Seq({g, m})
    OBVIOUS
  <2>2. IsSeq(s) /\ IsSeq(t)
    BY <2>1, SeqOwn
  <2> QED
    BY <2>2
<1> HIDE DEF s, t
<1>2. /\ IsSeq(Append(s, m)) /\ Len(Append(s, m)) = 2
      /\ Append(s, m)[2] = m /\ Append(s, m)[1] = g
  <2>1. DOMAIN s = 1 .. 1
    BY <1>1, SeqFacts
  <2> DEFINE u == Append(s, m)
  <2>2. /\ IsSeq(u) /\ Len(u) = Len(s) + 1 /\ u[Len(s) + 1] = m
        /\ \A i \in DOMAIN s : u[i] = s[i]
    BY <1>1, AppendFacts
  <2> HIDE DEF u
  <2>3. IsSeq(u) /\ Len(u) = 2 /\ u[2] = m /\ u[1] = g
    BY <1>1, <2>1, <2>2
  <2> QED
    BY <2>3 DEF u
<1>3. \A i \in 1 .. 2 : Append(s, m)[i] = t[i]
  BY <1>1, <1>2
<1>4. Append(s, m) = t
  BY <1>1, <1>2, <1>3, SameSeq
<1> QED
  BY <1>4 DEF s, t

-----------------------------------------------------------------------------
(***************************************************************************)
(* What the names of a program stand for, and where it is at fault.        *)
(***************************************************************************)
AFunc == [n : Ident, params : Seq(Ident), e : Exps]

\* The program visited so far is one, and its parts come in order.
SrcOk ==
    /\ src = [funcs |-> src.funcs, decls |-> src.decls, stmts |-> src.stmts]
    /\ src.funcs \in Seq(AFunc)
    /\ \A j \in DOMAIN src.funcs : Len(src.funcs[j].params) <= MaxParams
    /\ src.decls \in Seq(Ident)
    /\ IsSeq(src.stmts)
    /\ phase = "funcs" => src.decls = <<>>
    /\ phase \in {"funcs", "decls"} => src.stmts = <<>>

\* The symbols of the functions: those of the first definitions.
GlobalOk(g) ==
    /\ DOMAIN g = Idents
    /\ \A n \in Idents : /\ FuncDefs(n) = {} => g[n] = NoSymbol
                         /\ \A d \in FuncDefs(n) : g[n].type = "func" /\ g[n].count = Arity(d)

\* The symbols of main: the variables, and the tags met that are none.
MainOk(m) ==
    /\ DOMAIN m = Idents
    /\ \A n \in Idents : /\ VarInMain(n) => m[n].type = "var"
                         /\ ~VarInMain(n) /\ TagBefore(n, Here) => m[n].type = "tag"
                         /\ ~VarInMain(n) /\ ~TagBefore(n, Here) => m[n] = NoSymbol

\* Errors have been reported where the program is at fault, and nowhere else.
ErrorsOk ==
    /\ \A e \in errors : \/ \E j \in DOMAIN src.funcs : e.at = <<"fn", j>>
                         \/ \E j \in DOMAIN src.decls : e.at = <<"var", j>>
                         \/ \E i \in DOMAIN src.stmts : e.at = <<"stmt", i>>
    /\ \A j \in DOMAIN src.funcs : ErrorAt(<<"fn", j>>) <=> FaultyFunc(j)
    /\ \A j \in DOMAIN src.decls : ErrorAt(<<"var", j>>) <=> FaultyDecl(j)
    /\ \A i \in DOMAIN src.stmts : ErrorAt(<<"stmt", i>>) <=> FaultyStmt(i)

NamesInv ==
    /\ SrcOk
    /\ phase \in {"funcs", "decls", "stmts", "done", "crashed"}
    /\ phase = "funcs" => scopes = <<scopes[1]>> /\ GlobalOk(scopes[1])
    /\ Visiting => /\ scopes = <<scopes[1], scopes[2]>>
                   /\ GlobalOk(scopes[1]) /\ MainOk(scopes[2])
    /\ phase # "crashed" => ErrorsOk

\* What names stand for in the body of function j, and in the next statement.
BodyVars(j)  == {n \in Idents : VarInBody(n, j)}
BodyCalls(j) == {c \in CallsOf : FuncInBody(c[1], c[2], j)}
MainVars     == {n \in Idents : VarInMain(n)}
MainCalls(i) == {c \in CallsOf : FuncInMain(c[1], c[2], i)}

LEMMA SrcFacts ==
    ASSUME SrcOk
    PROVE  /\ Len(src.funcs) \in Nat /\ DOMAIN src.funcs = 1 .. Len(src.funcs)
           /\ Len(src.decls) \in Nat /\ DOMAIN src.decls = 1 .. Len(src.decls)
           /\ Len(src.stmts) \in Nat /\ DOMAIN src.stmts = 1 .. Len(src.stmts)
           /\ \A j \in DOMAIN src.funcs : /\ src.funcs[j].n \in Ident /\ src.funcs[j].e \in Exps
                                          /\ src.funcs[j].params \in Seq(Ident)
<1>1. \A j \in DOMAIN src.funcs : src.funcs[j] \in AFunc
  BY DEF SrcOk
<1> QED
  BY <1>1, SeqFacts DEF SrcOk, AFunc

\* A name that some function has has one first definition.
LEMMA FirstDef ==
    ASSUME SrcOk, NEW n
    PROVE  /\ FuncDefs(n) = {} <=> \A i \in DOMAIN src.funcs : src.funcs[i].n # n
           /\ \A d, e \in FuncDefs(n) : d = e
<1> DEFINE S == {i \in DOMAIN src.funcs : src.funcs[i].n = n}
<1>1. DOMAIN src.funcs = 1 .. Len(src.funcs) /\ Len(src.funcs) \in Nat
  BY SrcFacts
<1>2. ASSUME NEW i \in DOMAIN src.funcs, src.funcs[i].n = n PROVE FuncDefs(n) # {}
  <2>1. S \subseteq Nat /\ S # {}
    BY <1>1, <1>2
  <2> HIDE DEF S
  <2>2. PICK d \in S : \A k \in S : d <= k
    BY <2>1, LeastNumber
  <2>3. d \in FuncDefs(n)
    BY SMTT(60), <1>1, <2>2 DEF FuncDefs, S
  <2> QED
    BY <2>3
<1>3. ASSUME NEW d \in FuncDefs(n), NEW e \in FuncDefs(n) PROVE d = e
  BY <1>1 DEF FuncDefs
<1>4. FuncDefs(n) # {} => \E i \in DOMAIN src.funcs : src.funcs[i].n = n
  BY DEF FuncDefs
<1> QED
  BY <1>2, <1>3, <1>4

LEMMA ArityFacts ==
    ASSUME SrcOk, NEW n, NEW d \in FuncDefs(n)
    PROVE  d \in DOMAIN src.funcs /\ Arity(d) \in 0 .. MaxParams
<1>1. d \in DOMAIN src.funcs /\ src.funcs[d].params \in Seq(Ident)
      /\ Len(src.funcs[d].params) <= MaxParams
  BY SrcFacts DEF FuncDefs, SrcOk
<1>2. Arity(d) \in Nat /\ Arity(d) <= Len(src.funcs[d].params)
  BY <1>1, NotNullFacts, SeqFacts DEF Arity
<1>3. MaxParams \in Nat /\ Len(src.funcs[d].params) \in Nat
  BY <1>1, VisitorAssumption
<1> QED
  BY <1>1, <1>2, <1>3

-----------------------------------------------------------------------------
(***************************************************************************)
(* One more function.                                                      *)
(***************************************************************************)
Another(f) == /\ f \in AFunc /\ Len(f.params) <= MaxParams
              /\ src' = [src EXCEPT !.funcs = Append(@, f)]

LEMMA FuncAdded ==
    ASSUME SrcOk, NEW f, Another(f), phase' = phase, phase = "funcs"
    PROVE  /\ SrcOk'
           /\ src'.decls = <<>> /\ src'.stmts = <<>>
           /\ Len(src'.funcs) = Len(src.funcs) + 1
           /\ src'.funcs[Len(src.funcs) + 1] = f
           /\ \A i \in DOMAIN src.funcs : src'.funcs[i] = src.funcs[i]
           /\ DOMAIN src'.funcs = 1 .. (Len(src.funcs) + 1)
<1>1. src' = [funcs |-> Append(src.funcs, f), decls |-> src.decls, stmts |-> src.stmts]
  BY DEF SrcOk, Another
<1>2. src'.funcs = Append(src.funcs, f) /\ src'.decls = <<>> /\ src'.stmts = <<>>
      /\ src.stmts = <<>>
  BY <1>1 DEF SrcOk
<1>3. src.funcs \in Seq(AFunc) /\ f \in AFunc /\ Len(f.params) <= MaxParams
  BY DEF SrcOk, Another
<1>4. src'.funcs \in Seq(AFunc) /\ Len(src'.funcs) = Len(src.funcs) + 1
      /\ src'.funcs[Len(src.funcs) + 1] = f
      /\ \A i \in DOMAIN src.funcs : src'.funcs[i] = src.funcs[i]
  BY <1>2, <1>3
<1>5. Len(src.funcs) \in Nat /\ DOMAIN src.funcs = 1 .. Len(src.funcs)
      /\ DOMAIN src'.funcs = 1 .. (Len(src.funcs) + 1)
  BY <1>3, <1>4
<1>6. \A j \in DOMAIN src'.funcs : Len(src'.funcs[j].params) <= MaxParams
  BY SMTT(60), <1>3, <1>4, <1>5 DEF SrcOk
<1>7. src' = [funcs |-> src'.funcs, decls |-> src'.decls, stmts |-> src'.stmts]
  BY <1>1
<1>8. src'.decls \in Seq(Ident) /\ IsSeq(src'.stmts)
  BY <1>2, EmptyFacts
<1>9. SrcOk'
  BY <1>2, <1>4, <1>6, <1>7, <1>8 DEF SrcOk
<1> QED
  BY <1>2, <1>4, <1>5, <1>9

\* It defines its name unless an earlier one does.
LEMMA DefAdded ==
    ASSUME SrcOk, NEW f, Another(f), phase' = phase, phase = "funcs", NEW n
    PROVE  /\ FuncDefs(n)' = FuncDefs(n) \cup
                               (IF f.n = n /\ FuncDefs(n) = {} THEN {Len(src.funcs) + 1} ELSE {})
           /\ \A d \in FuncDefs(n) : Arity(d)' = Arity(d)
<1>1. Len(src.funcs) \in Nat /\ DOMAIN src.funcs = 1 .. Len(src.funcs)
  BY SrcFacts
<1>2. /\ src'.funcs[Len(src.funcs) + 1] = f
      /\ \A i \in DOMAIN src.funcs : src'.funcs[i] = src.funcs[i]
      /\ DOMAIN src'.funcs = 1 .. (Len(src.funcs) + 1)
  BY FuncAdded
<1>3. ASSUME NEW d \in DOMAIN src.funcs
      PROVE  (d \in FuncDefs(n)' <=> d \in FuncDefs(n)) /\ Arity(d)' = Arity(d)
  <2>1. src'.funcs[d] = src.funcs[d] /\ d \in DOMAIN src'.funcs
    BY <1>1, <1>2
  <2>2. \A i \in 1 .. (d - 1) : src'.funcs[i] = src.funcs[i]
    <3>1. 1 .. (d - 1) \subseteq DOMAIN src.funcs
      BY <1>1
    <3>2. \A i \in DOMAIN src.funcs : src'.funcs[i] = src.funcs[i]
      BY <1>2
    <3> QED
      BY Zenon, <3>1, <3>2
  <2>3. Arity(d)' = Arity(d)
    BY <2>1 DEF Arity
  <2>4. d \in FuncDefs(n)' <=> d \in FuncDefs(n)
    BY <2>1, <2>2 DEF FuncDefs
  <2> QED
    BY <2>3, <2>4
<1>4. Len(src.funcs) + 1 \in FuncDefs(n)' <=> f.n = n /\ FuncDefs(n) = {}
  <2>1. FuncDefs(n) = {} <=> \A i \in DOMAIN src.funcs : src.funcs[i].n # n
    BY FirstDef
  <2>2. Len(src.funcs) + 1 \in DOMAIN src'.funcs /\ 1 .. (Len(src.funcs) + 1 - 1) = DOMAIN src.funcs
    BY <1>1, <1>2
  <2>3. Len(src.funcs) + 1 \in FuncDefs(n)' <=>
          /\ src'.funcs[Len(src.funcs) + 1].n = n
          /\ \A i \in 1 .. (Len(src.funcs) + 1 - 1) : src'.funcs[i].n # n
    BY <2>2 DEF FuncDefs
  <2>4. \A i \in DOMAIN src.funcs : src'.funcs[i].n = src.funcs[i].n
    BY <1>2
  <2> QED
    BY <1>2, <2>1, <2>2, <2>3, <2>4
<1>5. FuncDefs(n)' \subseteq 1 .. (Len(src.funcs) + 1) /\ FuncDefs(n) \subseteq DOMAIN src.funcs
  BY <1>2 DEF FuncDefs
<1> QED
  BY <1>1, <1>3, <1>4, <1>5

\* The earlier ones are at fault as before.
LEMMA FaultsKept ==
    ASSUME SrcOk, NEW f, Another(f), phase' = phase, phase = "funcs", NEW j \in DOMAIN src.funcs
    PROVE  FaultyFunc(j)' <=> FaultyFunc(j)
<1>1. Len(src.funcs) \in Nat /\ DOMAIN src.funcs = 1 .. Len(src.funcs)
  BY SrcFacts
<1>2. \A i \in DOMAIN src.funcs : src'.funcs[i] = src.funcs[i]
  BY FuncAdded
<1>3. \A n : VarInBody(n, j)' <=> VarInBody(n, j)
  BY <1>2 DEF VarInBody
<1>4. ASSUME NEW n, NEW k PROVE FuncInBody(n, k, j)' <=> FuncInBody(n, k, j)
  <2>1. \A d : d \in FuncDefs(n)' /\ d <= j <=> d \in FuncDefs(n) /\ d <= j
    <3>1. FuncDefs(n)' = FuncDefs(n) \cup
                           (IF f.n = n /\ FuncDefs(n) = {} THEN {Len(src.funcs) + 1} ELSE {})
      BY DefAdded
    <3> QED
      BY <1>1, <3>1
  <2>2. \A d \in FuncDefs(n) : Arity(d)' = Arity(d)
    BY DefAdded
  <2> QED
    BY <1>3, <2>1, <2>2 DEF FuncInBody
<1>5. BodyVars(j)' = BodyVars(j) /\ BodyCalls(j)' = BodyCalls(j)
  BY <1>3, <1>4 DEF BodyVars, BodyCalls
<1>6. \A i \in 1 .. (j - 1) : src'.funcs[i] = src.funcs[i]
  BY <1>1, <1>2
<1>7. src'.funcs[j] = src.funcs[j]
  BY <1>2
<1> QED
  BY <1>5, <1>6, <1>7 DEF FaultyFunc, BodyVars, BodyCalls

\* What reporting errors of these kinds changes.
LEMMA Reported ==
    ASSUME NEW at, NEW kinds, errors' = Report(at, kinds)
    PROVE  /\ \A p : ErrorAt(p)' <=> ErrorAt(p) \/ (p = at /\ kinds # {})
           /\ \A e \in errors' : e \in errors \/ e.at = at
<1>1. errors' = errors \cup {[at |-> at, kind |-> k] : k \in kinds}
  BY DEF Report
<1>2. \A e \in errors' : e \in errors \/ e.at = at
  BY <1>1
<1>3. ASSUME NEW p, ErrorAt(p)' PROVE ErrorAt(p) \/ (p = at /\ kinds # {})
  BY <1>1, <1>3 DEF ErrorAt
<1>4. ASSUME NEW p, ErrorAt(p) PROVE ErrorAt(p)'
  BY <1>1, <1>4 DEF ErrorAt
<1>5. ASSUME kinds # {} PROVE ErrorAt(at)'
  <2>1. PICK k \in kinds : TRUE
    BY <1>5
  <2>2. [at |-> at, kind |-> k] \in errors' /\ [at |-> at, kind |-> k].at = at
    BY <1>1, <2>1
  <2> QED
    BY <2>2 DEF ErrorAt
<1> QED
  BY <1>2, <1>3, <1>4, <1>5

LEMMA NoReport ==
    ASSUME UNCHANGED errors
    PROVE  \A at : errors' = Report(at, {})
BY DEF Report

\* A place that does not exist yet has no error.
LEMMA NoneThere ==
    ASSUME SrcOk, ErrorsOk
    PROVE  ~ErrorAt(FnPlace) /\ ~ErrorAt(DeclPlace) /\ ~ErrorAt(StmtPlace)
<1>1. \A e \in errors : \/ \E j \in 1 .. Len(src.funcs) : e.at = <<"fn", j>>
                        \/ \E j \in 1 .. Len(src.decls) : e.at = <<"var", j>>
                        \/ \E i \in 1 .. Len(src.stmts) : e.at = <<"stmt", i>>
  BY SrcFacts DEF ErrorsOk
<1>2. Len(src.funcs) \in Nat /\ Len(src.decls) \in Nat /\ Len(src.stmts) \in Nat
  BY SrcFacts
<1> QED
  BY <1>1, <1>2 DEF ErrorAt, FnPlace, DeclPlace, StmtPlace

LEMMA FuncErrors ==
    ASSUME SrcOk, ErrorsOk, NEW f, Another(f), phase' = phase, phase = "funcs",
           NEW kinds, errors' = Report(FnPlace, kinds),
           NEW new, new = Len(src.funcs) + 1, kinds # {} <=> FaultyFunc(new)'
    PROVE  ErrorsOk'
<1>1. /\ Len(src.funcs) \in Nat /\ DOMAIN src.funcs = 1 .. Len(src.funcs)
      /\ DOMAIN src'.funcs = 1 .. new /\ src'.decls = <<>> /\ src'.stmts = <<>>
      /\ src.decls = <<>> /\ src.stmts = <<>>
  BY SrcFacts, FuncAdded DEF SrcOk
<1>2. FnPlace = <<"fn", new>>
  BY DEF FnPlace
<1>3. /\ \A p : ErrorAt(p)' <=> ErrorAt(p) \/ (p = FnPlace /\ kinds # {})
      /\ \A e \in errors' : e \in errors \/ e.at = FnPlace
  BY Reported
<1>4. ~ErrorAt(FnPlace)
  BY NoneThere
<1>5. \A e \in errors' : \E j \in DOMAIN src'.funcs : e.at = <<"fn", j>>
  BY <1>1, <1>2, <1>3 DEF ErrorsOk
<1>6. ASSUME NEW j \in DOMAIN src.funcs PROVE ErrorAt(<<"fn", j>>)' <=> FaultyFunc(j)'
  <2>1. <<"fn", j>> # FnPlace
    BY <1>1, <1>2
  <2>2. ErrorAt(<<"fn", j>>) <=> FaultyFunc(j)
    BY DEF ErrorsOk
  <2>3. FaultyFunc(j)' <=> FaultyFunc(j)
    BY FaultsKept
  <2> QED
    BY <1>3, <2>1, <2>2, <2>3
<1>7. ErrorAt(<<"fn", new>>)' <=> FaultyFunc(new)'
  BY <1>2, <1>3, <1>4
<1>8. \A j \in DOMAIN src'.funcs : j \in DOMAIN src.funcs \/ j = new
  BY <1>1
<1>9. \A j \in DOMAIN src'.funcs : ErrorAt(<<"fn", j>>)' <=> FaultyFunc(j)'
  BY <1>6, <1>7, <1>8
<1> QED
  BY <1>1, <1>5, <1>9 DEF ErrorsOk

\* When the new function is at fault.
LEMMA FaultyNew ==
    ASSUME SrcOk, NEW f, Another(f), phase' = phase, phase = "funcs",
           NEW j, j = Len(src.funcs) + 1
    PROVE  FaultyFunc(j)' <=> \/ NoIdent \in {f.n} \cup RanOf(f.params)
                              \/ FuncDefs(f.n) # {}
                              \/ Repeats(f.params)
                              \/ FaultyExp(f.e, BodyVars(j)', BodyCalls(j)')
<1>1. /\ Len(src.funcs) \in Nat /\ DOMAIN src.funcs = 1 .. Len(src.funcs)
      /\ src'.funcs[j] = f /\ \A i \in DOMAIN src.funcs : src'.funcs[i] = src.funcs[i]
  BY SrcFacts, FuncAdded
<1>2. FuncDefs(f.n) # {} <=> \E i \in 1 .. (j - 1) : src'.funcs[i].n = f.n
  <2>1. 1 .. (j - 1) = DOMAIN src.funcs
    BY <1>1
  <2>2. FuncDefs(f.n) = {} <=> \A i \in DOMAIN src.funcs : src.funcs[i].n # f.n
    BY FirstDef
  <2>3. \A i \in DOMAIN src.funcs : src'.funcs[i] = src.funcs[i]
    BY <1>1
  <2> QED
    BY <2>1, <2>2, <2>3
<1>3. Repeats(f.params) <=> \E a, b \in DOMAIN f.params : a # b /\ f.params[a] = f.params[b]
  BY DEF Repeats
<1>4. FaultyFunc(j)' <=>
        \/ NoIdent \in {src'.funcs[j].n} \cup RanOf(src'.funcs[j].params)
        \/ \E i \in 1 .. (j - 1) : src'.funcs[i].n = src'.funcs[j].n
        \/ \E a, b \in DOMAIN src'.funcs[j].params :
             /\ a # b
             /\ src'.funcs[j].params[a] = src'.funcs[j].params[b]
        \/ FaultyExp(src'.funcs[j].e, BodyVars(j)', BodyCalls(j)')
  BY Zenon DEF FaultyFunc, BodyVars, BodyCalls
<1>5. src'.funcs[j] = f
  BY Zenon, <1>1
<1> QED
  BY ZenonT(150), <1>2, <1>3, <1>4, <1>5

\* The scope of the parameters.
LEMMA ParamFacts ==
    ASSUME NEW ps, IsSeq(ps), NEW fn, NEW n \in Idents
    PROVE  /\ DOMAIN ParamScope(fn, ps) = Idents
           /\ n \in RanOf(ps) => ParamScope(fn, ps)[n].type = "var"
           /\ n \notin RanOf(ps) => ParamScope(fn, ps)[n] = NoSymbol
           /\ ParamScope(fn, ps)[n] # NoSymbol <=> n \in RanOf(ps)
<1>1. n \in RanOf(ps) <=> \E j \in DOMAIN ps : ps[j] = n
  BY DEF RanOf
<1>2. \A c, i : VarSymbol(c, i).type = "var" /\ VarSymbol(c, i) # NoSymbol
  BY DEF VarSymbol, NoSymbol
<1> QED
  BY <1>1, <1>2 DEF ParamScope

\* The functions' symbols after a first definition of a name.
WithDef(g, f, fn) == [g EXCEPT ![f.n] = FuncSymbol(fn, Len(NotNull(f.params)))]

LEMMA GlobalAdded ==
    ASSUME SrcOk, NEW g, GlobalOk(g), NEW f, Another(f), phase' = phase, phase = "funcs",
           f.n \in Idents, FuncDefs(f.n) = {},
           NEW h, NEW fn, h = WithDef(g, f, fn)
    PROVE  /\ DOMAIN h = Idents
           /\ \A n \in Idents :
                 /\ FuncDefs(n)' = {} => h[n] = NoSymbol
                 /\ \A d \in FuncDefs(n)' : h[n].type = "func" /\ h[n].count = Arity(d)'
<1>1. DOMAIN g = Idents /\ DOMAIN h = Idents
  BY DEF GlobalOk, WithDef
<1>2. h[f.n].type = "func" /\ h[f.n].count = Len(NotNull(f.params))
  BY <1>1 DEF FuncSymbol, WithDef
<1>3. \A n \in Idents : n # f.n => h[n] = g[n]
  BY <1>1 DEF WithDef
<1>4. PICK new : new = Len(src.funcs) + 1
  OBVIOUS
<1>5. Arity(new)' = Len(NotNull(f.params))
  <2>1. src'.funcs[new] = f
    BY <1>4, FuncAdded
  <2> QED
    BY <2>1 DEF Arity
<1>6. ASSUME NEW n \in Idents
      PROVE  /\ FuncDefs(n)' = {} => h[n] = NoSymbol
             /\ \A d \in FuncDefs(n)' : h[n].type = "func" /\ h[n].count = Arity(d)'
  <2>1. CASE n = f.n
    <3>1. FuncDefs(n)' = {new}
      BY <1>4, <2>1, DefAdded
    <3> QED
      BY <1>2, <1>5, <2>1, <3>1
  <2>2. CASE n # f.n
    <3>1. FuncDefs(n)' = FuncDefs(n) /\ \A d \in FuncDefs(n) : Arity(d)' = Arity(d)
      BY <2>2, DefAdded
    <3> QED
      BY <1>3, <2>2, <3>1 DEF GlobalOk
  <2> QED
    BY <2>1, <2>2
<1> QED
  BY <1>1, <1>6

\* And after one that is none.
LEMMA GlobalKept ==
    ASSUME SrcOk, NEW g, GlobalOk(g), NEW f, Another(f), phase' = phase, phase = "funcs",
           f.n \in Idents => FuncDefs(f.n) # {}
    PROVE  \A n \in Idents :
              /\ FuncDefs(n)' = {} => g[n] = NoSymbol
              /\ \A d \in FuncDefs(n)' : g[n].type = "func" /\ g[n].count = Arity(d)'
<1> TAKE n \in Idents
<1>1. /\ FuncDefs(n)' = FuncDefs(n) \cup
                           (IF f.n = n /\ FuncDefs(n) = {} THEN {Len(src.funcs) + 1} ELSE {})
      /\ \A d \in FuncDefs(n) : Arity(d)' = Arity(d)
  BY DefAdded
<1>2. FuncDefs(n)' = FuncDefs(n)
  BY <1>1
<1> QED
  BY <1>1, <1>2 DEF GlobalOk

\* The scopes a body is visited in resolve its names.
LEMMA BodyResolves ==
    ASSUME SrcOk, NEW g, GlobalOk(g), NEW f, Another(f), phase' = phase, phase = "funcs",
           f.n \in Idents, FuncDefs(f.n) = {},
           NEW h, NEW fn, h = WithDef(g, f, fn),
           NEW j, j = Len(src.funcs) + 1,
           NEW inner, inner = <<h, ParamScope(fn, NotNull(f.params))>>
    PROVE  Resolves(inner, BodyVars(j)', BodyCalls(j)')
<1> DEFINE P == ParamScope(fn, NotNull(f.params))
<1>1. /\ SrcOk' /\ src'.funcs[j] = f /\ f.params \in Seq(Ident) /\ Len(src.funcs) \in Nat
      /\ DOMAIN src'.funcs = 1 .. j
  BY FuncAdded, SrcFacts DEF Another, AFunc
<1>2. /\ IsSeq(NotNull(f.params))
      /\ RanOf(NotNull(f.params)) = RanOf(f.params) \ {NoIdent}
  BY <1>1, NotNullFacts
<1>3. ASSUME NEW n \in Idents, NEW k \in Nat
      PROVE  <<n, k>> \in BodyCalls(j)' <=>
                /\ n \notin RanOf(f.params)
                /\ \E d \in FuncDefs(n)' : Arity(d)' = k
  <2>1. VarInBody(n, j)' <=> n \in RanOf(f.params)
    BY <1>1 DEF VarInBody
  <2>2. \A d \in FuncDefs(n)' : d <= j
    BY <1>1 DEF FuncDefs
  <2>3. \A d \in FuncDefs(n)' : Arity(d)' \in 0 .. MaxParams
    <3>1. FuncDefs(n)' = FuncDefs(n) \cup
                           (IF f.n = n /\ FuncDefs(n) = {} THEN {j} ELSE {})
          /\ \A d \in FuncDefs(n) : Arity(d)' = Arity(d)
      BY DefAdded
    <3>2. Arity(j)' = Len(NotNull(f.params))
      BY <1>1 DEF Arity
    <3>3. Len(NotNull(f.params)) \in 0 .. MaxParams
      <4>1. Len(NotNull(f.params)) \in Nat /\ Len(NotNull(f.params)) <= Len(f.params)
            /\ Len(f.params) <= MaxParams /\ Len(f.params) \in Nat
        BY <1>1, <1>2, NotNullFacts, SeqFacts DEF Another
      <4> QED
        BY <4>1, VisitorAssumption
    <3> QED
      BY <3>1, <3>2, <3>3, ArityFacts
  <2>4. FuncInBody(n, k, j)' <=> /\ n \notin RanOf(f.params)
                                 /\ \E d \in FuncDefs(n)' : Arity(d)' = k
    BY <2>1, <2>2 DEF FuncInBody
  <2>5. <<n, k>> \in BodyCalls(j)' <=> k \in 0 .. MaxParams /\ FuncInBody(n, k, j)'
    BY DEF BodyCalls, CallsOf
  <2> QED
    BY <2>3, <2>4, <2>5
<1>4. \A n \in Idents :
         /\ FuncDefs(n)' = {} => h[n] = NoSymbol
         /\ \A d \in FuncDefs(n)' : h[n].type = "func" /\ h[n].count = Arity(d)'
  BY GlobalAdded
<1>5. \A n \in Idents : n \in BodyVars(j)' <=> n \in RanOf(f.params)
  BY <1>1 DEF BodyVars, VarInBody
<1>6. ASSUME NEW n \in Idents
      PROVE  LET s == get_symbol(inner, n)
             IN  /\ s.type \in {"none", "var", "func", "tag"}
                 /\ s.type = "var" <=> n \in BodyVars(j)'
                 /\ \A k \in Nat : <<n, k>> \in BodyCalls(j)' <=> s.type = "func" /\ s.count = k
  <2>1. get_symbol(inner, n) = IF P[n] # NoSymbol THEN P[n] ELSE h[n]
    <3>1. DOMAIN P = Idents /\ inner = <<h, P>>
      BY <1>2, ParamFacts
    <3> HIDE DEF P
    <3> QED
      BY <3>1, GetTwo
  <2>2. n \in RanOf(NotNull(f.params)) <=> n \in RanOf(f.params)
    BY <1>2, IdentAssumption
  <2>3. /\ n \in RanOf(f.params) => P[n].type = "var"
        /\ P[n] # NoSymbol <=> n \in RanOf(f.params)
    BY <1>2, <2>2, ParamFacts
  <2> HIDE DEF P
  <2>4. CASE n \in RanOf(f.params)
    BY <1>3, <1>5, <2>1, <2>3, <2>4
  <2>5. CASE n \notin RanOf(f.params) /\ FuncDefs(n)' = {}
    <3>1. get_symbol(inner, n).type = "none"
      BY <1>4, <2>1, <2>3, <2>5 DEF NoSymbol
    <3> QED
      BY <1>3, <1>5, <2>5, <3>1
  <2>6. CASE n \notin RanOf(f.params) /\ FuncDefs(n)' # {}
    <3>1. PICK d : d \in FuncDefs(n)'
      BY <2>6
    <3>2. \A c \in FuncDefs(n)' : c = d
      BY SMTT(60), <1>1, <3>1 DEF FuncDefs
    <3>3. get_symbol(inner, n).type = "func" /\ get_symbol(inner, n).count = Arity(d)'
      BY <1>4, <2>1, <2>3, <2>6, <3>1
    <3> QED
      BY <1>3, <1>5, <2>6, <3>1, <3>2, <3>3
  <2> QED
    BY <2>4, <2>5, <2>6
<1> QED
  BY <1>6 DEF Resolves

LEMMA SyntaxFacts ==
    ASSUME NEW names, NEW es
    PROVE  Syntax(names, es) # {} <=> NoIdent \in names \/ \E e \in es : Bad \in SubExps(e)
BY DEF Syntax

LEMMA ParamListFacts ==
    ASSUME NEW ps \in ParamLists
    PROVE  ps \in Seq(Ident) /\ Len(ps) <= MaxParams /\ {ps[i] : i \in DOMAIN ps} = RanOf(ps)
<1>1. PICK k \in 0 .. MaxParams : ps \in [1 .. k -> Ident]
  BY DEF ParamLists, Ident
<1>2. k \in Nat /\ k <= MaxParams
  BY <1>1, VisitorAssumption
<1>3. ps \in Seq(Ident) /\ Len(ps) = k
  BY <1>1, <1>2
<1> QED
  BY <1>2, <1>3 DEF RanOf

LEMMA FuncDefNames ==
    ASSUME NamesInv, "BadBody" \notin Sloppy,
           NEW n \in Idents \cup {NoIdent}, NEW params \in ParamLists, NEW e \in Exps,
           _visit_func_def(n, params, e)
    PROVE  NamesInv'
<1> DEFINE f     == [n |-> n, params |-> params, e |-> e]
           g     == scopes[1]
           ps    == NotNull(params)
           fn    == Len(funcs) + 1
           h     == WithDef(g, f, fn)
           inner == <<h, ParamScope(fn, ps)>>
           body  == _visit_exp(e, inner)
           null  == Syntax({n} \cup RanOf(params), {e})
           again == IF Repeats(ps) THEN {"redefine parameter"} ELSE {}
<1>1. /\ phase = "funcs" /\ phase' = phase
      /\ src' = [src EXCEPT !.funcs = Append(@, f)]
  BY DEF _visit_func_def
<1>2. /\ params \in Seq(Ident) /\ Len(params) <= MaxParams
      /\ {params[i] : i \in DOMAIN params} = RanOf(params)
  BY ParamListFacts
<1>3. f \in AFunc /\ Another(f) /\ f.n = n /\ f.params = params /\ f.e = e
  BY <1>1, <1>2 DEF AFunc, Ident, Another
<1>4. SrcOk /\ ErrorsOk /\ scopes = <<g>> /\ GlobalOk(g) /\ DOMAIN g = Idents
  BY <1>1 DEF NamesInv, GlobalOk
<1>5. PICK new : new = Len(src.funcs) + 1
  OBVIOUS
<1>6. FaultyFunc(new)' <=> \/ NoIdent \in {n} \cup RanOf(params)
                           \/ FuncDefs(n) # {}
                           \/ Repeats(params)
                           \/ FaultyExp(e, BodyVars(new)', BodyCalls(new)')
  BY <1>1, <1>3, <1>4, <1>5, FaultyNew
<1>7. n \in Idents => (exist_in_scope(scopes, n) <=> FuncDefs(n) # {})
  <2> SUFFICES ASSUME n \in Idents PROVE exist_in_scope(scopes, n) <=> FuncDefs(n) # {}
    OBVIOUS
  <2>1. exist_in_scope(<<g>>, n) <=> g[n] # NoSymbol
    BY <1>4, OneScope
  <2>2. g[n] # NoSymbol <=> FuncDefs(n) # {}
    BY <1>4 DEF GlobalOk, NoSymbol
  <2> HIDE DEF g
  <2> QED
    BY <1>4, <2>1, <2>2
<1>8. n = NoIdent <=> n \notin Idents
  BY IdentAssumption
\* What remains is that the kinds reported are right and the scope is.
<1>9. ASSUME NEW kinds, errors' = Report(FnPlace, kinds), kinds # {} <=> FaultyFunc(new)',
             NEW k, scopes' = <<k>>, DOMAIN k = Idents,
             \A m \in Idents :
                 /\ FuncDefs(m)' = {} => k[m] = NoSymbol
                 /\ \A d \in FuncDefs(m)' : k[m].type = "func" /\ k[m].count = Arity(d)'
      PROVE  NamesInv'
  <2>1. SrcOk'
    BY <1>1, <1>3, <1>4, FuncAdded
  <2>2. ErrorsOk'
    BY <1>1, <1>3, <1>4, <1>5, <1>9, FuncErrors
  <2>3. scopes' = <<scopes'[1]>> /\ scopes'[1] = k
    BY <1>9
  <2>4. GlobalOk(scopes[1])'
    BY <1>9, <2>3 DEF GlobalOk
  <2> QED
    BY <1>1, <2>1, <2>2, <2>3, <2>4 DEF NamesInv, Visiting
<1>10. ASSUME UNCHANGED scopes, NEW kinds, errors' = Report(FnPlace, kinds), kinds # {},
              FaultyFunc(new)', n \in Idents => FuncDefs(n) # {}
       PROVE  NamesInv'
  <2>1. \A m \in Idents :
           /\ FuncDefs(m)' = {} => g[m] = NoSymbol
           /\ \A d \in FuncDefs(m)' : g[m].type = "func" /\ g[m].count = Arity(d)'
    BY <1>1, <1>3, <1>4, <1>10, GlobalKept
  <2>2. scopes' = <<g>>
    BY <1>4, <1>10
  <2> QED
    BY <1>4, <1>9, <1>10, <2>1, <2>2
<1>11. CASE n = NoIdent
  <2>1. errors' = Report(FnPlace, null) /\ UNCHANGED scopes
    BY <1>2, <1>11 DEF _visit_func_def
  <2>2. null # {}
    BY <1>11, SyntaxFacts
  <2>3. FaultyFunc(new)'
    BY <1>6, <1>11
  <2> HIDE DEF null
  <2> QED
    BY <1>8, <1>10, <1>11, <2>1, <2>2, <2>3
<1>12. CASE n # NoIdent /\ exist_in_scope(scopes, n)
  <2>1. errors' = Report(FnPlace, null \cup {"redefine function"}) /\ UNCHANGED scopes
    BY <1>2, <1>12 DEF _visit_func_def
  <2>2. FaultyFunc(new)' /\ FuncDefs(n) # {}
    BY <1>6, <1>7, <1>8, <1>12
  <2> HIDE DEF null
  <2> QED
    BY <1>10, <2>1, <2>2
<1>13. CASE n # NoIdent /\ ~exist_in_scope(scopes, n)
  <2>1. n \in Idents /\ FuncDefs(n) = {}
    BY <1>7, <1>8, <1>13
  <2>2. add_symbol(scopes, n, FuncSymbol(fn, Len(ps))) = <<h>>
    <3>1. add_symbol(<<g>>, n, FuncSymbol(fn, Len(ps))) = <<h>>
      <4> DEFINE s == FuncSymbol(fn, Len(ps))
      <4>1. h = [g EXCEPT ![n] = s]
        BY <1>3 DEF WithDef
      <4> HIDE DEF g, h, s
      <4>2. add_symbol(<<g>>, n, s) = <<h>>
        BY <1>4, <2>1, <4>1, OneScope
      <4> QED
        BY <4>2 DEF s
    <3>2. scopes = <<g>>
      BY <1>4
    <3> HIDE DEF g, h, ps, fn
    <3> QED
      BY <3>1, <3>2
  <2>3. Append(<<h>>, ParamScope(fn, ps)) = inner
    <3> HIDE DEF h, ps, fn
    <3> QED
      BY PushOne
  <2>4. /\ body.val # NoVal
        /\ errors' = Report(FnPlace, null \cup again \cup body.errs)
        /\ scopes' = <<h>>
    <3> DEFINE outer2 == add_symbol(scopes, n, FuncSymbol(fn, Len(ps)))
               inner2 == Append(outer2, ParamScope(fn, ps))
               body2  == _visit_exp(e, inner2)
               null2  == Syntax({n} \cup {params[i] : i \in DOMAIN params}, {e})
    <3>1. /\ body2.val = NoVal => "BadBody" \in Sloppy
          /\ errors' = Report(FnPlace, null2 \cup again \cup body2.errs)
          /\ scopes' = IF body2.val = NoVal THEN inner2 ELSE outer2
      BY <1>13 DEF _visit_func_def
    <3>2. outer2 = <<h>> /\ null2 = null
      BY <1>2, <2>2
    <3>3. inner2 = inner
      <4> HIDE DEF outer2, inner
      <4> QED
        BY <2>3, <3>2
    <3>4. body2 = body
      <4> HIDE DEF inner2, inner
      <4> QED
        BY <3>3
    <3> HIDE DEF outer2, inner2, body2, null2, null, again, body, h
    <3> QED
      BY <3>1, <3>2, <3>4
  <2>5. Resolves(inner, BodyVars(new)', BodyCalls(new)')
    <3> DEFINE F == f
    <3>1. inner = <<h, ParamScope(fn, NotNull(F.params))>> /\ h = WithDef(g, F, fn)
      BY <1>3
    <3>2. Another(F) /\ F.n \in Idents /\ FuncDefs(F.n) = {}
      BY <1>3, <2>1
    <3> HIDE DEF F, inner, h, g, fn
    <3> QED
      BY <1>1, <1>4, <1>5, <3>1, <3>2, BodyResolves
  <2>6. Tree(e)
    BY VisitorTreeAssumption
  <2>7. /\ body.errs = {} /\ ~FaultyExp(e, BodyVars(new)', BodyCalls(new)')
    <3> HIDE DEF inner
    <3> QED
      BY <2>4, <2>5, <2>6, ExpExact
  <2>8. Bad \notin SubExps(e)
    BY <2>7 DEF FaultyExp
  <2>9. null # {} <=> NoIdent \in {n} \cup RanOf(params)
    BY <2>8, SyntaxFacts
  <2>10. NoIdent \notin RanOf(params) => (again # {} <=> Repeats(params))
    <3>1. NoIdent \notin RanOf(params) => ps = params
      BY <1>2, NotNullFacts
    <3> QED
      BY <3>1
  <2> DEFINE kinds == null \cup again \cup body.errs
  <2>11. kinds # {} <=> FaultyFunc(new)'
    <3> HIDE DEF null, again, body
    <3> QED
      BY <1>6, <2>1, <2>7, <2>9, <2>10
  <2>12. DOMAIN h = Idents
         /\ \A m \in Idents :
              /\ FuncDefs(m)' = {} => h[m] = NoSymbol
              /\ \A d \in FuncDefs(m)' : h[m].type = "func" /\ h[m].count = Arity(d)'
    <3> DEFINE F == f
    <3>1. h = WithDef(g, F, fn)
      BY <1>3
    <3>2. Another(F) /\ F.n \in Idents /\ FuncDefs(F.n) = {}
      BY <1>3, <2>1
    <3> HIDE DEF F, h, g, fn
    <3> QED
      BY <1>1, <1>4, <3>1, <3>2, GlobalAdded
  <2>13. errors' = Report(FnPlace, kinds) /\ scopes' = <<h>>
    BY <2>4
  <2> HIDE DEF kinds, h
  <2> QED
    BY <1>9, <2>11, <2>12, <2>13
<1> QED
  BY <1>11, <1>12, <1>13

-----------------------------------------------------------------------------
(***************************************************************************)
(* main, its variables and its statements.                                 *)
(***************************************************************************)

\* While the functions stay what they are, so do their names and faults.
LEMMA SameFuncs ==
    ASSUME src'.funcs = src.funcs
    PROVE  /\ \A n : FuncDefs(n)' = FuncDefs(n)
           /\ \A d : Arity(d)' = Arity(d)
           /\ \A j : FaultyFunc(j)' <=> FaultyFunc(j)
<1>1. \A n : FuncDefs(n)' = FuncDefs(n)
  BY DEF FuncDefs
<1>2. \A d : Arity(d)' = Arity(d)
  BY DEF Arity
<1>3. ASSUME NEW j PROVE FaultyFunc(j)' <=> FaultyFunc(j)
  <2>1. \A n : VarInBody(n, j)' <=> VarInBody(n, j)
    BY DEF VarInBody
  <2>2. \A n, k : FuncInBody(n, k, j)' <=> FuncInBody(n, k, j)
    BY <1>1, <1>2, <2>1 DEF FuncInBody
  <2>3. BodyVars(j)' = BodyVars(j) /\ BodyCalls(j)' = BodyCalls(j)
    BY <2>1, <2>2 DEF BodyVars, BodyCalls
  <2> QED
    BY <2>3 DEF FaultyFunc, BodyVars, BodyCalls
<1> QED
  BY <1>1, <1>2, <1>3

LEMMA SameGlobal ==
    ASSUME src'.funcs = src.funcs, NEW g, GlobalOk(g), scopes'[1] = g
    PROVE  GlobalOk(scopes[1])'
<1>1. /\ \A n : FuncDefs(n)' = FuncDefs(n)
      /\ \A d : Arity(d)' = Arity(d)
  BY SameFuncs
<1> QED
  BY <1>1 DEF GlobalOk

\* The stages without a new part of the program.
LEMMA SameErrors ==
    ASSUME ErrorsOk, src' = src, errors' = errors
    PROVE  ErrorsOk'
<1>1. src'.funcs = src.funcs /\ src'.decls = src.decls /\ src'.stmts = src.stmts
  OBVIOUS
<1>2. \A p : ErrorAt(p)' <=> ErrorAt(p)
  BY DEF ErrorAt
<1>3. \A j : FaultyFunc(j)' <=> FaultyFunc(j)
  BY <1>1, SameFuncs
<1>4. \A j : FaultyDecl(j)' <=> FaultyDecl(j)
  BY DEF FaultyDecl
<1>5. ASSUME NEW i PROVE FaultyStmt(i)' <=> FaultyStmt(i)
  <2>1. \A n : TagBefore(n, i)' <=> TagBefore(n, i)
    BY <1>1, <1>2 DEF TagBefore
  <2>2. \A n : VarInMain(n)' <=> VarInMain(n)
    BY <1>1 DEF VarInMain
  <2>3. \A n, k : FuncInMain(n, k, i)' <=> FuncInMain(n, k, i)
    BY <1>1, <2>1, <2>2, SameFuncs DEF FuncInMain
  <2>4. MainVars' = MainVars /\ MainCalls(i)' = MainCalls(i)
    BY <2>2, <2>3 DEF MainVars, MainCalls
  <2> QED
    BY <1>1, <2>2, <2>4 DEF FaultyStmt, MainVars, MainCalls
<1> QED
  BY <1>1, <1>2, <1>3, <1>4, <1>5 DEF ErrorsOk

LEMMA BeginMainNames == ASSUME NamesInv, BeginMain PROVE NamesInv'
<1>1. /\ phase = "funcs" /\ phase' = "decls" /\ src' = src /\ errors' = errors
      /\ scopes' = Append(scopes, NewScope)
  BY DEF BeginMain
<1>2. PICK g : scopes = <<g>> /\ GlobalOk(g)
  BY <1>1 DEF NamesInv
<1>3. scopes' = <<g, NewScope>>
  BY <1>1, <1>2, PushOne
<1>4. scopes'[1] = g /\ scopes'[2] = NewScope
  BY <1>3
<1>5. SrcOk /\ src.decls = <<>> /\ src.stmts = <<>> /\ ErrorsOk
  BY <1>1 DEF NamesInv, SrcOk
<1>6. SrcOk'
  BY <1>1, <1>5 DEF SrcOk
<1>7. ErrorsOk'
  BY <1>1, <1>5, SameErrors
<1>8. GlobalOk(scopes[1])'
  BY <1>1, <1>2, <1>4, SameGlobal
<1>9. MainOk(scopes[2])'
  <2>1. \A n : ~VarInMain(n)'
    BY <1>1, <1>5 DEF VarInMain, RanOf
  <2>2. \A n : ~TagBefore(n, Here)'
    BY <1>1, <1>5 DEF TagBefore, Here
  <2>3. DOMAIN NewScope = Idents /\ \A n \in Idents : NewScope[n] = NoSymbol
    BY DEF NewScope
  <2> QED
    BY <1>4, <2>1, <2>2, <2>3 DEF MainOk
<1> QED
  BY <1>1, <1>3, <1>4, <1>6, <1>7, <1>8, <1>9 DEF NamesInv

\* The end of main, a step that changes nothing, and what comes after them.
LEMMA FinishNames == ASSUME NamesInv, Finish PROVE NamesInv'
<1>1. /\ Visiting /\ phase' = "done" /\ src' = src /\ errors' = errors
  BY DEF Finish, Visiting
<1>2. SrcOk /\ ErrorsOk
  BY <1>1 DEF NamesInv, Visiting
<1>3. SrcOk'
  BY <1>1, <1>2 DEF SrcOk
<1>4. ErrorsOk'
  BY <1>1, <1>2, SameErrors
<1> QED
  BY <1>1, <1>3, <1>4 DEF NamesInv, Visiting

LEMMA IdleNames == ASSUME NamesInv, UNCHANGED visitorVars PROVE NamesInv'
<1>1. src' = src /\ scopes' = scopes /\ errors' = errors /\ phase' = phase
  BY DEF visitorVars
<1>2. SrcOk'
  BY <1>1 DEF NamesInv, SrcOk
<1>3. phase # "crashed" => ErrorsOk'
  BY <1>1, SameErrors DEF NamesInv
<1>4. GlobalOk(scopes[1]) => GlobalOk(scopes[1])'
  BY <1>1, SameGlobal
<1>5. MainOk(scopes[2]) => MainOk(scopes[2])'
  <2>1. \A n : VarInMain(n)' <=> VarInMain(n)
    BY <1>1 DEF VarInMain
  <2>2. \A n : TagBefore(n, Here)' <=> TagBefore(n, Here)
    BY <1>1 DEF TagBefore, ErrorAt, Here
  <2> QED
    BY <1>1, <2>1, <2>2 DEF MainOk
<1> QED
  BY <1>1, <1>2, <1>3, <1>4, <1>5 DEF NamesInv, Visiting

LEMMA VarDeclNames ==
    ASSUME NamesInv, NEW n \in Idents \cup {NoIdent}, _visit_var_decl(n)
    PROVE  NamesInv'
<1> DEFINE g   == scopes[1]
           m   == scopes[2]
           new == Len(src.decls) + 1
<1>1. /\ phase = "decls" /\ phase' = phase
      /\ src' = [src EXCEPT !.decls = Append(@, n)]
  BY DEF _visit_var_decl
<1>2. /\ SrcOk /\ ErrorsOk /\ scopes = <<g, m>> /\ GlobalOk(g) /\ MainOk(m)
      /\ src.stmts = <<>>
  BY <1>1 DEF NamesInv, Visiting, SrcOk
<1>3. src' = [funcs |-> src.funcs, decls |-> Append(src.decls, n), stmts |-> src.stmts]
  BY <1>1, <1>2 DEF SrcOk
<1>4. /\ src'.funcs = src.funcs /\ src'.decls = Append(src.decls, n) /\ src'.stmts = <<>>
  BY <1>2, <1>3
<1>5. src.decls \in Seq(Ident) /\ n \in Ident
  BY <1>2 DEF SrcOk, Ident
<1>6. /\ src'.decls \in Seq(Ident) /\ DOMAIN src'.decls = 1 .. new
      /\ src'.decls[new] = n /\ \A j \in DOMAIN src.decls : src'.decls[j] = src.decls[j]
      /\ Len(src.decls) \in Nat /\ DOMAIN src.decls = 1 .. Len(src.decls)
  BY <1>4, <1>5
<1>7. SrcOk'
  <2>1. src' = [funcs |-> src'.funcs, decls |-> src'.decls, stmts |-> src'.stmts]
    BY <1>3
  <2> QED
    BY <1>1, <1>2, <1>4, <1>6, <2>1 DEF SrcOk
<1>8. \A x : VarInMain(x)' <=> VarInMain(x) \/ x = n
  BY SMTT(60), <1>6 DEF VarInMain, RanOf
<1>9. \A x : ~TagBefore(x, Here) /\ ~TagBefore(x, Here)'
  BY <1>2, <1>4 DEF TagBefore, Here
<1>10. n = NoIdent <=> n \notin Idents
  BY IdentAssumption
<1>11. n \in Idents => (exist_in_scope(scopes, n) <=> VarInMain(n))
  <2> SUFFICES ASSUME n \in Idents PROVE exist_in_scope(scopes, n) <=> VarInMain(n)
    OBVIOUS
  <2>1. DOMAIN m = Idents
    BY <1>2 DEF MainOk
  <2>2. m[n] # NoSymbol <=> VarInMain(n)
    BY <1>2, <1>9 DEF MainOk, NoSymbol
  <2> HIDE DEF g, m
  <2> QED
    BY <1>2, <2>1, <2>2, AddTwo
<1>12. ASSUME NEW j, j = new
       PROVE  FaultyDecl(j)' <=> n = NoIdent \/ VarInMain(n)
  <2>1. src'.decls[j] = n /\ 1 .. (j - 1) = DOMAIN src.decls
    BY <1>6, <1>12
  <2>2. VarInMain(n) <=> \E i \in DOMAIN src.decls : src.decls[i] = n
    BY DEF VarInMain, RanOf
  <2> QED
    BY <1>6, <2>1, <2>2 DEF FaultyDecl
<1>13. ASSUME NEW kinds, errors' = Report(DeclPlace, kinds),
              kinds # {} <=> n = NoIdent \/ VarInMain(n)
       PROVE  ErrorsOk'
  <2>1. /\ \A p : ErrorAt(p)' <=> ErrorAt(p) \/ (p = DeclPlace /\ kinds # {})
        /\ \A e \in errors' : e \in errors \/ e.at = DeclPlace
    BY <1>13, Reported
  <2>2. PICK k : k = new
    OBVIOUS
  <2>3. DeclPlace = <<"var", k>> /\ ~ErrorAt(DeclPlace)
    BY <1>2, <2>2, NoneThere DEF DeclPlace
  <2>4. \A e \in errors' : \/ \E j \in DOMAIN src'.funcs : e.at = <<"fn", j>>
                           \/ \E j \in DOMAIN src'.decls : e.at = <<"var", j>>
    <3>1. \A e \in errors : \/ \E j \in DOMAIN src.funcs : e.at = <<"fn", j>>
                            \/ \E j \in DOMAIN src.decls : e.at = <<"var", j>>
      BY <1>2 DEF ErrorsOk
    <3>2. k \in DOMAIN src'.decls /\ DOMAIN src.decls \subseteq DOMAIN src'.decls
      BY <1>6, <2>2
    <3> QED
      BY <1>4, <2>1, <2>3, <3>1, <3>2
  <2>5. ASSUME NEW j \in DOMAIN src'.funcs PROVE ErrorAt(<<"fn", j>>)' <=> FaultyFunc(j)'
    <3>1. <<"fn", j>> # DeclPlace
      BY <2>3
    <3>2. ErrorAt(<<"fn", j>>) <=> FaultyFunc(j)
      BY <1>2, <1>4 DEF ErrorsOk
    <3> QED
      BY <1>4, <2>1, <3>1, <3>2, SameFuncs
  <2>6. ASSUME NEW j \in DOMAIN src.decls PROVE ErrorAt(<<"var", j>>)' <=> FaultyDecl(j)'
    <3>1. <<"var", j>> # DeclPlace
      BY <1>6, <2>2, <2>3
    <3>2. ErrorAt(<<"var", j>>) <=> FaultyDecl(j)
      BY <1>2 DEF ErrorsOk
    <3>3. src'.decls[j] = src.decls[j] /\ \A i \in 1 .. (j - 1) : src'.decls[i] = src.decls[i]
      <4>1. 1 .. (j - 1) \subseteq DOMAIN src.decls
        BY <1>6
      <4>2. \A i \in DOMAIN src.decls : src'.decls[i] = src.decls[i]
        BY <1>6
      <4> QED
        BY Zenon, <4>1, <4>2
    <3>4. FaultyDecl(j)' <=> FaultyDecl(j)
      BY Zenon, <3>3 DEF FaultyDecl
    <3> QED
      BY <2>1, <3>1, <3>2, <3>4
  <2>7. ErrorAt(<<"var", k>>)' <=> FaultyDecl(k)'
    BY <1>12, <1>13, <2>1, <2>2, <2>3
  <2>8. \A j \in DOMAIN src'.decls : j \in DOMAIN src.decls \/ j = k
    BY <1>6, <2>2
  <2>9. \A j \in DOMAIN src'.decls : ErrorAt(<<"var", j>>)' <=> FaultyDecl(j)'
    BY <2>6, <2>7, <2>8
  <2> QED
    BY <1>4, <2>4, <2>5, <2>9 DEF ErrorsOk
<1>14. ASSUME NEW k, scopes' = <<g, k>>, DOMAIN k = Idents, ErrorsOk',
              \A x \in Idents : /\ VarInMain(x)' => k[x].type = "var"
                                /\ ~VarInMain(x)' => k[x] = NoSymbol
       PROVE  NamesInv'
  <2>1. scopes'[1] = g /\ scopes'[2] = k
    BY <1>14
  <2>2. GlobalOk(scopes[1])'
    BY <1>2, <1>4, <2>1, SameGlobal
  <2>3. MainOk(scopes[2])'
    BY <1>9, <1>14, <2>1 DEF MainOk
  <2> QED
    BY <1>1, <1>7, <1>14, <2>1, <2>2, <2>3 DEF NamesInv, Visiting
<1>15. ASSUME UNCHANGED scopes, ErrorsOk', n \in Idents => VarInMain(n) PROVE NamesInv'
  <2>1. \A x \in Idents : /\ VarInMain(x)' => m[x].type = "var"
                          /\ ~VarInMain(x)' => m[x] = NoSymbol
    BY <1>2, <1>8, <1>9, <1>15 DEF MainOk
  <2>2. scopes' = <<g, m>> /\ DOMAIN m = Idents
    BY <1>2, <1>15 DEF MainOk
  <2> HIDE DEF g, m
  <2> QED
    BY <1>14, <1>15, <2>1, <2>2
<1>16. CASE n = NoIdent
  <2>1. errors' = Report(DeclPlace, {"syntax"}) /\ UNCHANGED scopes
    BY <1>16 DEF _visit_var_decl
  <2>2. ErrorsOk'
    BY <1>13, <1>16, <2>1
  <2> QED
    BY <1>10, <1>15, <1>16, <2>1, <2>2
<1>17. CASE n # NoIdent /\ exist_in_scope(scopes, n)
  <2>1. errors' = Report(DeclPlace, {"redefine variable"}) /\ UNCHANGED scopes
    BY <1>17 DEF _visit_var_decl
  <2>2. VarInMain(n)
    BY <1>10, <1>11, <1>17
  <2>3. ErrorsOk'
    BY <1>13, <2>1, <2>2
  <2> QED
    BY <1>15, <2>1, <2>2, <2>3
<1>18. CASE n # NoIdent /\ ~exist_in_scope(scopes, n)
  <2> DEFINE s == VarSymbol(0, new)
             k == WithName(m, n, s)
  <2>1. errors' = errors /\ scopes' = add_symbol(scopes, n, s)
    BY <1>18 DEF _visit_var_decl
  <2>2. n \in Idents /\ ~VarInMain(n)
    BY <1>10, <1>11, <1>18
  <2>3. errors' = Report(DeclPlace, {})
    BY <2>1, NoReport
  <2>4. ErrorsOk'
    BY <1>13, <1>18, <2>2, <2>3
  <2>5. s.type = "var"
    BY DEF VarSymbol
  <2> HIDE DEF s
  <2>6. DOMAIN m = Idents
    BY <1>2 DEF MainOk
  <2>7. scopes' = <<g, k>>
    <3> HIDE DEF g, m
    <3> QED
      BY <1>2, <2>1, <2>2, <2>6, AddTwo
  <2>8. DOMAIN k = Idents /\ k[n] = s /\ \A x \in Idents : x # n => k[x] = m[x]
    <3> HIDE DEF g, m
    <3> QED
      BY <2>2, <2>6, NameFacts
  <2>9. \A x \in Idents : /\ VarInMain(x) => m[x].type = "var"
                          /\ ~VarInMain(x) => m[x] = NoSymbol
    BY <1>2, <1>9 DEF MainOk
  <2> HIDE DEF k, m, g
  <2>10. \A x \in Idents : /\ VarInMain(x)' => k[x].type = "var"
                           /\ ~VarInMain(x)' => k[x] = NoSymbol
    BY <1>8, <2>5, <2>8, <2>9
  <2> QED
    BY <1>14, <2>4, <2>7, <2>8, <2>10
<1> QED
  BY <1>16, <1>17, <1>18

-----------------------------------------------------------------------------
(***************************************************************************)
(* One more statement.                                                     *)
(***************************************************************************)
TagKinds == {"tag", "if", "to"}

\* The scopes of main resolve the names of the next statement.
LEMMA MainResolves ==
    ASSUME SrcOk, NEW g, NEW m, NEW sc, sc = <<g, m>>, GlobalOk(g), MainOk(m), NEW i, i = Here
    PROVE  Resolves(sc, MainVars, MainCalls(i))
<1>1. DOMAIN m = Idents
  BY DEF MainOk
<1>2. \A n \in Idents : n \in MainVars <=> VarInMain(n)
  BY DEF MainVars
<1>3. ASSUME NEW n \in Idents, NEW k \in Nat
      PROVE  <<n, k>> \in MainCalls(i) <=> /\ ~VarInMain(n) /\ ~TagBefore(n, i)
                                           /\ \E d \in FuncDefs(n) : Arity(d) = k
  BY ArityFacts DEF MainCalls, CallsOf, FuncInMain
<1>4. ASSUME NEW n \in Idents
      PROVE  LET s == get_symbol(sc, n)
             IN  /\ s.type \in {"none", "var", "func", "tag"}
                 /\ s.type = "var" <=> n \in MainVars
                 /\ \A k \in Nat : <<n, k>> \in MainCalls(i) <=> s.type = "func" /\ s.count = k
  <2>1. get_symbol(sc, n) = IF m[n] # NoSymbol THEN m[n] ELSE g[n]
    BY <1>1, GetTwo
  <2>2. /\ VarInMain(n) => m[n].type = "var"
        /\ ~VarInMain(n) /\ TagBefore(n, i) => m[n].type = "tag"
        /\ ~VarInMain(n) /\ ~TagBefore(n, i) => m[n] = NoSymbol
    BY DEF MainOk
  <2>3. CASE VarInMain(n) \/ TagBefore(n, i)
    <3>1. m[n] # NoSymbol
      BY <2>2, <2>3 DEF NoSymbol
    <3> QED
      BY <1>2, <1>3, <2>1, <2>2, <2>3, <3>1
  <2>4. CASE ~VarInMain(n) /\ ~TagBefore(n, i) /\ FuncDefs(n) = {}
    <3>1. get_symbol(sc, n).type = "none"
      BY <2>1, <2>2, <2>4 DEF GlobalOk, NoSymbol
    <3> QED
      BY <1>2, <1>3, <2>4, <3>1
  <2>5. CASE ~VarInMain(n) /\ ~TagBefore(n, i) /\ FuncDefs(n) # {}
    <3>1. PICK d : d \in FuncDefs(n)
      BY <2>5
    <3>2. \A c \in FuncDefs(n) : c = d
      BY <3>1, FirstDef
    <3>3. get_symbol(sc, n).type = "func" /\ get_symbol(sc, n).count = Arity(d)
      BY <2>1, <2>2, <2>5, <3>1 DEF GlobalOk
    <3> QED
      BY <1>2, <1>3, <2>5, <3>1, <3>2, <3>3
  <2> QED
    BY <2>3, <2>4, <2>5
<1> QED
  BY <1>4 DEF Resolves

LEMMA StmtAdded ==
    ASSUME SrcOk, NEW s, Visit(s), phase' \in {"stmts", "crashed"}
    PROVE  /\ SrcOk' /\ Visiting
           /\ src'.funcs = src.funcs /\ src'.decls = src.decls
           /\ Len(src'.stmts) = Here /\ DOMAIN src'.stmts = 1 .. Here
           /\ src'.stmts[Here] = s
           /\ \A i \in 1 .. (Here - 1) : src'.stmts[i] = src.stmts[i]
<1>1. Visiting /\ src' = [src EXCEPT !.stmts = Append(@, s)]
  BY DEF Visit, Visiting
<1>2. src' = [funcs |-> src.funcs, decls |-> src.decls, stmts |-> Append(src.stmts, s)]
  BY <1>1 DEF SrcOk
<1>3. /\ src'.funcs = src.funcs /\ src'.decls = src.decls
      /\ src'.stmts = Append(src.stmts, s)
  BY <1>2
<1>4. IsSeq(src.stmts) /\ Here = Len(src.stmts) + 1 /\ Len(src.stmts) \in Nat
      /\ DOMAIN src.stmts = 1 .. (Here - 1)
  BY SeqFacts DEF SrcOk, Here
<1>5. /\ IsSeq(src'.stmts) /\ Len(src'.stmts) = Here /\ src'.stmts[Here] = s
      /\ \A i \in DOMAIN src.stmts : src'.stmts[i] = src.stmts[i]
  BY <1>3, <1>4, AppendFacts
<1>6. DOMAIN src'.stmts = 1 .. Here
  BY <1>5, SeqFacts
<1>7. src' = [funcs |-> src'.funcs, decls |-> src'.decls, stmts |-> src'.stmts]
  BY <1>2
<1>8. SrcOk'
  BY <1>3, <1>5, <1>7 DEF SrcOk
<1> QED
  BY <1>1, <1>3, <1>4, <1>5, <1>6, <1>8

\* What was a tag before an earlier statement still is; the new one makes its
\* name a tag unless it is at fault.
LEMMA TagsAfter ==
    ASSUME SrcOk, ErrorsOk, NEW s, Visit(s), phase' = "stmts",
           NEW kinds, errors' = Report(StmtPlace, kinds), NEW n
    PROVE  /\ \A i \in 1 .. Here : TagBefore(n, i)' <=> TagBefore(n, i)
           /\ TagBefore(n, Here)' <=> \/ TagBefore(n, Here)
                                      \/ s.k \in TagKinds /\ s.n = n /\ kinds = {}
<1>1. PICK new : new = Here
  OBVIOUS
<1>2. /\ Len(src'.stmts) = new /\ src'.stmts[new] = s
      /\ \A i \in 1 .. (new - 1) : src'.stmts[i] = src.stmts[i]
  BY <1>1, StmtAdded
<1>3. Len(src.stmts) \in Nat /\ new = Len(src.stmts) + 1 /\ StmtPlace = <<"stmt", new>>
  BY <1>1, SrcFacts DEF Here, StmtPlace
<1>4. \A p : ErrorAt(p)' <=> ErrorAt(p) \/ (p = StmtPlace /\ kinds # {})
  BY Reported
<1>5. ~ErrorAt(<<"stmt", new>>)
  BY <1>3, NoneThere
<1>6. ASSUME NEW j \in 1 .. (new - 1) PROVE ErrorAt(<<"stmt", j>>)' <=> ErrorAt(<<"stmt", j>>)
  <2>1. <<"stmt", j>> # StmtPlace
    BY <1>3
  <2> QED
    BY <1>4, <2>1
<1>7. ErrorAt(<<"stmt", new>>)' <=> kinds # {}
  BY <1>3, <1>4, <1>5
<1>8. Here' = new + 1
  BY <1>2 DEF Here
<1>9. ASSUME NEW i \in 1 .. new PROVE TagBefore(n, i)' <=> TagBefore(n, i)
  <2>1. \A j \in 1 .. (i - 1) : j \in 1 .. (new - 1)
    BY <1>3
  <2> QED
    BY <1>2, <1>6, <2>1 DEF TagBefore
<1>10. TagBefore(n, Here)' <=> \/ TagBefore(n, new)
                               \/ s.k \in TagKinds /\ s.n = n /\ kinds = {}
  <2>1. TagBefore(n, Here)' <=>
           \E j \in 1 .. new : /\ src'.stmts[j].k \in TagKinds /\ src'.stmts[j].n = n
                               /\ ~ErrorAt(<<"stmt", j>>)'
    <3>1. Here' - 1 = new
      BY <1>3, <1>8
    <3>2. TagBefore(n, Here)' <=>
             \E j \in 1 .. (Here' - 1) : /\ src'.stmts[j].k \in TagKinds /\ src'.stmts[j].n = n
                                         /\ ~ErrorAt(<<"stmt", j>>)'
      BY DEF TagBefore, TagKinds
    <3> QED
      BY <3>1, <3>2
  <2>2. TagBefore(n, new) <=>
           \E j \in 1 .. (new - 1) : /\ src.stmts[j].k \in TagKinds /\ src.stmts[j].n = n
                                     /\ ~ErrorAt(<<"stmt", j>>)
    BY DEF TagBefore, TagKinds
  <2>3. \A j : j \in 1 .. new <=> j \in 1 .. (new - 1) \/ j = new
    BY <1>3
  <2> QED
    BY <1>2, <1>6, <1>7, <2>1, <2>2, <2>3
<1> QED
  BY <1>1, <1>9, <1>10

LEMMA StmtNames ==
    ASSUME SrcOk, ErrorsOk, NEW s, Visit(s), phase' = "stmts",
           NEW kinds, errors' = Report(StmtPlace, kinds), NEW i \in 1 .. Here
    PROVE  /\ \A n : VarInMain(n)' <=> VarInMain(n)
           /\ MainVars' = MainVars /\ MainCalls(i)' = MainCalls(i)
<1>1. src'.funcs = src.funcs /\ src'.decls = src.decls
  BY StmtAdded
<1>2. \A n : VarInMain(n)' <=> VarInMain(n)
  BY <1>1 DEF VarInMain
<1>3. ASSUME NEW n, NEW k PROVE FuncInMain(n, k, i)' <=> FuncInMain(n, k, i)
  <2>1. TagBefore(n, i)' <=> TagBefore(n, i)
    BY TagsAfter
  <2>2. FuncDefs(n)' = FuncDefs(n) /\ \A d : Arity(d)' = Arity(d)
    BY <1>1, SameFuncs
  <2> QED
    BY <1>2, <2>1, <2>2 DEF FuncInMain
<1> QED
  BY <1>2, <1>3 DEF MainVars, MainCalls

\* When a statement is at fault.
Faulty(s, i) ==
    \/ s.k # "put" /\ s.n = NoIdent
    \/ s.k \in {"get", "let"} /\ ~VarInMain(s.n)
    \/ s.k \in TagKinds /\ VarInMain(s.n)
    \/ s.k \in {"put", "let", "if"} /\ FaultyExp(s.e, MainVars, MainCalls(i))

LEMMA FaultyThere ==
    ASSUME NEW i
    PROVE  FaultyStmt(i) <=> Faulty(src.stmts[i], i)
BY DEF FaultyStmt, Faulty, MainVars, MainCalls, TagKinds

LEMMA FaultyAfter ==
    ASSUME SrcOk, ErrorsOk, NEW s, Visit(s), phase' = "stmts",
           NEW kinds, errors' = Report(StmtPlace, kinds), NEW i \in 1 .. Here
    PROVE  FaultyStmt(i)' <=> IF i = Here THEN Faulty(s, i) ELSE FaultyStmt(i)
<1>1. /\ \A n : VarInMain(n)' <=> VarInMain(n)
      /\ MainVars' = MainVars /\ MainCalls(i)' = MainCalls(i)
  BY StmtNames
<1>2. src'.stmts[i] = IF i = Here THEN s ELSE src.stmts[i]
  BY StmtAdded
<1>3. FaultyStmt(i)' <=> Faulty(src'.stmts[i], i)
  BY <1>1 DEF FaultyStmt, Faulty, MainVars, MainCalls, TagKinds
<1>4. CASE i = Here
  BY <1>2, <1>3, <1>4
<1>5. CASE i # Here
  BY <1>2, <1>3, <1>5, FaultyThere
<1> QED
  BY <1>4, <1>5

LEMMA StmtErrors ==
    ASSUME SrcOk, ErrorsOk, NEW s, Visit(s), phase' = "stmts",
           NEW kinds, errors' = Report(StmtPlace, kinds),
           NEW new, new = Here, kinds # {} <=> Faulty(s, new)
    PROVE  ErrorsOk'
<1>1. /\ src'.funcs = src.funcs /\ src'.decls = src.decls /\ DOMAIN src'.stmts = 1 .. new
  BY StmtAdded
<1>2. /\ Len(src.stmts) \in Nat /\ new = Len(src.stmts) + 1 /\ DOMAIN src.stmts = 1 .. (new - 1)
      /\ StmtPlace = <<"stmt", new>>
  BY SrcFacts DEF Here, StmtPlace
<1>3. /\ \A p : ErrorAt(p)' <=> ErrorAt(p) \/ (p = StmtPlace /\ kinds # {})
      /\ \A e \in errors' : e \in errors \/ e.at = StmtPlace
  BY Reported
<1>4. ~ErrorAt(StmtPlace)
  BY NoneThere
<1>5. \A e \in errors' : \/ \E j \in DOMAIN src'.funcs : e.at = <<"fn", j>>
                         \/ \E j \in DOMAIN src'.decls : e.at = <<"var", j>>
                         \/ \E i \in DOMAIN src'.stmts : e.at = <<"stmt", i>>
  BY <1>1, <1>2, <1>3 DEF ErrorsOk
<1>6. ASSUME NEW j \in DOMAIN src'.funcs PROVE ErrorAt(<<"fn", j>>)' <=> FaultyFunc(j)'
  <2>1. <<"fn", j>> # StmtPlace
    BY <1>2
  <2>2. ErrorAt(<<"fn", j>>) <=> FaultyFunc(j)
    BY <1>1 DEF ErrorsOk
  <2> QED
    BY <1>1, <1>3, <2>1, <2>2, SameFuncs
<1>7. ASSUME NEW j \in DOMAIN src'.decls PROVE ErrorAt(<<"var", j>>)' <=> FaultyDecl(j)'
  <2>1. <<"var", j>> # StmtPlace
    BY <1>2
  <2>2. ErrorAt(<<"var", j>>) <=> FaultyDecl(j)
    BY <1>1 DEF ErrorsOk
  <2>3. FaultyDecl(j)' <=> FaultyDecl(j)
    BY <1>1 DEF FaultyDecl
  <2> QED
    BY <1>3, <2>1, <2>2, <2>3
<1>8. ASSUME NEW i \in 1 .. new PROVE ErrorAt(<<"stmt", i>>)' <=> FaultyStmt(i)'
  <2>1. FaultyStmt(i)' <=> IF i = new THEN Faulty(s, i) ELSE FaultyStmt(i)
    BY FaultyAfter
  <2>2. CASE i = new
    BY <1>2, <1>3, <1>4, <2>1, <2>2
  <2>3. CASE i # new
    <3>1. <<"stmt", i>> # StmtPlace /\ i \in DOMAIN src.stmts
      BY <1>2, <2>3
    <3>2. ErrorAt(<<"stmt", i>>) <=> FaultyStmt(i)
      BY <3>1 DEF ErrorsOk
    <3> QED
      BY <1>3, <2>1, <2>3, <3>1, <3>2
  <2> QED
    BY <2>2, <2>3
<1>9. \A i \in DOMAIN src'.stmts : ErrorAt(<<"stmt", i>>)' <=> FaultyStmt(i)'
  BY <1>1, <1>8
<1> QED
  BY <1>5, <1>6, <1>7, <1>9 DEF ErrorsOk

LEMMA MainFacts ==
    ASSUME NamesInv, Visiting
    PROVE  /\ SrcOk /\ ErrorsOk
           /\ \E g, m : scopes = <<g, m>> /\ GlobalOk(g) /\ MainOk(m) /\ DOMAIN m = Idents
BY DEF NamesInv, Visiting, MainOk

\* A statement that makes no name a tag.
LEMMA StmtKept ==
    ASSUME NamesInv, NEW s, Visit(s), phase' = "stmts", UNCHANGED scopes,
           NEW kinds, errors' = Report(StmtPlace, kinds),
           NEW new, new = Here, kinds # {} <=> Faulty(s, new),
           kinds # {} \/ s.k \notin TagKinds
    PROVE  NamesInv'
<1>1. Visiting
  BY DEF Visit, Visiting
<1>2. PICK g, m : scopes = <<g, m>> /\ GlobalOk(g) /\ MainOk(m) /\ DOMAIN m = Idents
  BY <1>1, MainFacts
<1>3. SrcOk /\ ErrorsOk
  BY <1>1, MainFacts
<1>4. SrcOk' /\ src'.funcs = src.funcs
  BY <1>3, StmtAdded
<1>5. ErrorsOk'
  BY <1>3, StmtErrors
<1>6. scopes'[1] = g /\ scopes'[2] = m /\ scopes' = <<g, m>>
  BY <1>2
<1>7. GlobalOk(scopes[1])'
  BY <1>2, <1>4, <1>6, SameGlobal
<1>8. MainOk(scopes[2])'
  <2>1. \A n : VarInMain(n)' <=> VarInMain(n)
    BY <1>3, StmtAdded DEF VarInMain
  <2>2. \A n : TagBefore(n, Here)' <=> TagBefore(n, Here)
    BY <1>3, TagsAfter
  <2>3. \A n \in Idents : /\ VarInMain(n)' => m[n].type = "var"
                          /\ ~VarInMain(n)' /\ TagBefore(n, Here)' => m[n].type = "tag"
                          /\ ~VarInMain(n)' /\ ~TagBefore(n, Here)' => m[n] = NoSymbol
    BY <1>2, <2>1, <2>2 DEF MainOk
  <2> QED
    BY <1>2, <1>6, <2>3 DEF MainOk
<1> QED
  BY <1>4, <1>5, <1>6, <1>7, <1>8 DEF NamesInv, Visiting

\* And one that does.
LEMMA StmtTagged ==
    ASSUME NamesInv, NEW s, Visit(s), phase' = "stmts", UNCHANGED errors,
           s.k \in TagKinds, s.n \in Idents, ~VarInMain(s.n),
           NEW new, new = Here, ~Faulty(s, new),
           NEW t, t.type = "tag", scopes' = add_symbol(scopes, s.n, t)
    PROVE  NamesInv'
<1>1. Visiting
  BY DEF Visit, Visiting
<1>2. PICK g, m : scopes = <<g, m>> /\ GlobalOk(g) /\ MainOk(m) /\ DOMAIN m = Idents
  BY <1>1, MainFacts
<1>3. SrcOk /\ ErrorsOk /\ errors' = Report(StmtPlace, {})
  BY <1>1, MainFacts, NoReport
<1>4. SrcOk' /\ src'.funcs = src.funcs
  BY <1>3, StmtAdded
<1>5. ErrorsOk'
  <2>1. PICK kinds : kinds = {}
    OBVIOUS
  <2>2. errors' = Report(StmtPlace, kinds) /\ (kinds # {} <=> Faulty(s, new))
    BY <1>3, <2>1
  <2> QED
    BY <1>3, <2>2, StmtErrors
<1> DEFINE k == WithName(m, s.n, t)
<1>6. scopes' = <<g, k>>
  BY <1>2, AddTwo
<1>7. DOMAIN k = Idents /\ k[s.n] = t /\ \A n \in Idents : n # s.n => k[n] = m[n]
  BY <1>2, NameFacts
<1> HIDE DEF k
<1>8. scopes'[1] = g /\ scopes'[2] = k /\ scopes' = <<scopes'[1], scopes'[2]>>
  BY <1>6
<1>9. GlobalOk(scopes[1])'
  BY <1>2, <1>4, <1>8, SameGlobal
<1>10. MainOk(scopes[2])'
  <2>1. \A n : VarInMain(n)' <=> VarInMain(n)
    BY <1>3, StmtAdded DEF VarInMain
  <2>2. \A n : TagBefore(n, Here)' <=> TagBefore(n, Here) \/ s.n = n
    BY <1>3, TagsAfter
  <2>3. \A n \in Idents : /\ VarInMain(n)' => k[n].type = "var"
                          /\ ~VarInMain(n)' /\ TagBefore(n, Here)' => k[n].type = "tag"
                          /\ ~VarInMain(n)' /\ ~TagBefore(n, Here)' => k[n] = NoSymbol
    <3> TAKE n \in Idents
    <3>1. CASE n = s.n
      BY <1>7, <2>1, <2>2, <3>1
    <3>2. CASE n # s.n
      BY <1>2, <1>7, <2>1, <2>2, <3>2 DEF MainOk
    <3> QED
      BY <3>1, <3>2
  <2> QED
    BY <1>7, <1>8, <2>3 DEF MainOk
<1> QED
  BY <1>4, <1>5, <1>8, <1>9, <1>10 DEF NamesInv, Visiting

\* One given up, for a reason and rightly so.
LEMMA GaveUp ==
    ASSUME NamesInv, NEW s, Visit(s), NEW kinds, NEW names, NEW es, GiveUp(kinds, names, es),
           \/ kinds # {}
           \/ NoIdent \in names
           \/ \E e \in es : Bad \in SubExps(e),
           Faulty(s, Here)
    PROVE  NamesInv'
<1> DEFINE all == kinds \cup Syntax(names, es)
<1>1. phase' = "stmts" /\ UNCHANGED scopes /\ errors' = Report(StmtPlace, all)
  BY DEF GiveUp
<1>2. all # {}
  BY SyntaxFacts
<1>3. PICK new : new = Here
  OBVIOUS
<1> HIDE DEF all
<1> QED
  BY <1>1, <1>2, <1>3, StmtKept

\* One translated that makes no name a tag.
LEMMA Accepted ==
    ASSUME NamesInv, NEW s, Visit(s), NEW bs, Accept(bs), UNCHANGED scopes,
           s.k \notin TagKinds, ~Faulty(s, Here)
    PROVE  NamesInv'
<1>1. phase' = "stmts" /\ errors' = Report(StmtPlace, {})
  BY NoReport DEF Accept
<1>2. PICK kinds, new : kinds = {} /\ new = Here
  OBVIOUS
<1> QED
  BY <1>1, <1>2, StmtKept

LEMMA CrashNames == ASSUME NamesInv, NEW s, Visit(s), Crash PROVE NamesInv'
<1>1. phase' = "crashed"
  BY DEF Crash
<1>2. SrcOk
  BY DEF NamesInv
<1>3. SrcOk'
  BY <1>1, <1>2, StmtAdded
<1> QED
  BY <1>1, <1>3 DEF NamesInv, Visiting

\* What main's scopes say of a name, and of an expression.
LEMMA LookUp ==
    ASSUME NamesInv, Visiting, NEW n \in Idents
    PROVE  /\ get_symbol(scopes, n).type \in {"none", "var", "func", "tag"}
           /\ get_symbol(scopes, n).type = "var" <=> VarInMain(n)
           /\ TagOf(n).type = "tag" <=> ~VarInMain(n)
<1>1. PICK g, m : scopes = <<g, m>> /\ GlobalOk(g) /\ MainOk(m) /\ DOMAIN m = Idents
  BY MainFacts
<1>2. SrcOk
  BY MainFacts
<1>3. PICK i : i = Here
  OBVIOUS
<1>4. Resolves(scopes, MainVars, MainCalls(i))
  BY <1>1, <1>2, <1>3, MainResolves
<1>5. /\ get_symbol(scopes, n).type \in {"none", "var", "func", "tag"}
      /\ get_symbol(scopes, n).type = "var" <=> VarInMain(n)
  BY <1>4 DEF Resolves, MainVars
<1>6. exist_in_scope(scopes, n) <=> m[n] # NoSymbol
  BY <1>1, AddTwo
<1>7. scopes[Len(scopes)] = m
  BY <1>1
<1>8. TagOf(n) = IF m[n] # NoSymbol THEN m[n] ELSE TagSymbol(0, {})
  BY <1>6, <1>7 DEF TagOf
<1>9. TagSymbol(0, {}).type = "tag"
  BY DEF TagSymbol
<1>10. /\ VarInMain(n) => m[n].type = "var"
       /\ ~VarInMain(n) => m[n].type = "tag" \/ m[n] = NoSymbol
  BY <1>1 DEF MainOk
<1>11. TagOf(n).type = "tag" <=> ~VarInMain(n)
  <2>1. CASE VarInMain(n)
    <3>1. m[n].type = "var" /\ m[n] # NoSymbol
      BY <1>10, <2>1 DEF NoSymbol
    <3> QED
      BY <1>8, <2>1, <3>1
  <2>2. CASE ~VarInMain(n)
    BY <1>8, <1>9, <1>10, <2>2
  <2> QED
    BY <2>1, <2>2
<1> QED
  BY <1>5, <1>11

LEMMA ExpHere ==
    ASSUME NamesInv, Visiting, NEW e \in Exps \cup Conds, NEW r, r = _visit_exp(e, scopes)
    PROVE  /\ r.val = NoVal <=> FaultyExp(e, MainVars, MainCalls(Here))
           /\ r.val = NoVal => r.errs # {} \/ Bad \in SubExps(e)
<1>1. PICK g, m : scopes = <<g, m>> /\ GlobalOk(g) /\ MainOk(m)
  BY MainFacts
<1>2. SrcOk
  BY MainFacts
<1>3. PICK i : i = Here
  OBVIOUS
<1>4. Resolves(scopes, MainVars, MainCalls(i))
  BY <1>1, <1>2, <1>3, MainResolves
<1>5. Tree(e)
  BY VisitorTreeAssumption
<1>6. PICK sc, vars, calls : sc = scopes /\ vars = MainVars /\ calls = MainCalls(i)
  OBVIOUS
<1>7. Resolves(sc, vars, calls) /\ r = _visit_exp(e, sc)
  BY <1>4, <1>6
<1>8. /\ r.val = NoVal <=> FaultyExp(e, vars, calls)
      /\ r.val = NoVal /\ Bad \notin SubExps(e) => r.errs # {}
  BY <1>5, <1>7, ExpExact
<1> QED
  BY <1>3, <1>6, <1>8

LEMMA GetNames ==
    ASSUME NamesInv, NEW n \in Idents \cup {NoIdent}, _visit_get_stmt(n) PROVE NamesInv'
<1> DEFINE s == get_symbol(scopes, n)
           S == [k |-> "get", n |-> n]
<1>1. Visit(S) /\ Visiting /\ S.k = "get" /\ S.n = n
  BY DEF _visit_get_stmt, Visit, Visiting
<1>2. Faulty(S, Here) <=> n = NoIdent \/ ~VarInMain(n)
  BY <1>1 DEF Faulty, TagKinds
<1>3. CASE n = NoIdent
  <2>1. GiveUp({}, {n}, {})
    BY <1>3 DEF _visit_get_stmt
  <2> HIDE DEF S
  <2> QED
    BY <1>1, <1>2, <1>3, <2>1, GaveUp
<1>4. CASE n # NoIdent
  <2>1. /\ s.type \in {"none", "var", "func", "tag"}
        /\ s.type = "var" <=> VarInMain(n)
    BY <1>1, <1>4, LookUp
  <2>2. \/ s.type = "none" /\ GiveUp({"undefined symbol"}, {n}, {})
        \/ s.type = "var" /\ Accept(Emit(Input(Here, s.cell))) /\ UNCHANGED scopes
        \/ Crash
    BY <1>4 DEF _visit_get_stmt
  <2> DEFINE bs == Emit(Input(Here, s.cell))
  <2> HIDE DEF S, s, bs
  <2>3. CASE s.type = "none" /\ GiveUp({"undefined symbol"}, {n}, {})
    <3>1. {"undefined symbol"} # {} /\ Faulty(S, Here)
      BY <1>2, <2>1, <2>3
    <3> QED
      BY <1>1, <2>3, <3>1, GaveUp
  <2>4. CASE s.type = "var" /\ Accept(bs) /\ UNCHANGED scopes
    <3>1. ~Faulty(S, Here) /\ S.k \notin TagKinds
      BY <1>1, <1>2, <1>4, <2>1, <2>4 DEF TagKinds
    <3> QED
      BY <1>1, <2>4, <3>1, Accepted
  <2>5. CASE Crash
    BY <1>1, <2>5, CrashNames
  <2> QED
    BY <2>2, <2>3, <2>4, <2>5 DEF bs
<1> QED
  BY <1>3, <1>4

LEMMA PutNames == ASSUME NamesInv, NEW e \in Exps, _visit_put_stmt(e) PROVE NamesInv'
<1> DEFINE r  == _visit_exp(e, scopes)
           S  == [k |-> "put", e |-> e]
           bs == Emit(Output(Here, r.val))
<1>1. Visit(S) /\ Visiting /\ S.k = "put" /\ S.e = e
  BY DEF _visit_put_stmt, Visit, Visiting
<1>2. Faulty(S, Here) <=> FaultyExp(e, MainVars, MainCalls(Here))
  BY <1>1 DEF Faulty, TagKinds
<1>3. \/ r.val = NoVal /\ GiveUp(r.errs, {}, {e})
      \/ r.val # NoVal /\ Accept(bs) /\ UNCHANGED scopes
  BY DEF _visit_put_stmt
<1>4. /\ r.val = NoVal <=> FaultyExp(e, MainVars, MainCalls(Here))
      /\ r.val = NoVal => r.errs # {} \/ Bad \in SubExps(e)
  BY <1>1, ExpHere
<1> HIDE DEF S, r, bs
<1>5. CASE r.val = NoVal /\ GiveUp(r.errs, {}, {e})
  BY <1>1, <1>2, <1>4, <1>5, GaveUp
<1>6. CASE r.val # NoVal /\ Accept(bs) /\ UNCHANGED scopes
  BY <1>1, <1>2, <1>4, <1>6, Accepted DEF TagKinds
<1> QED
  BY <1>3, <1>5, <1>6

LEMMA LetNames ==
    ASSUME NamesInv, NEW n \in Idents \cup {NoIdent}, NEW e \in Exps, _visit_let_stmt(n, e)
    PROVE  NamesInv'
<1> DEFINE s  == get_symbol(scopes, n)
           r  == _visit_exp(e, scopes)
           S  == [k |-> "let", n |-> n, e |-> e]
           bs == Emit(Store(Here, r.val, s.cell))
<1>1. Visit(S) /\ Visiting /\ S.k = "let" /\ S.n = n /\ S.e = e
  BY DEF _visit_let_stmt, Visit, Visiting
<1>2. Faulty(S, Here) <=> \/ n = NoIdent \/ ~VarInMain(n)
                          \/ FaultyExp(e, MainVars, MainCalls(Here))
  BY <1>1 DEF Faulty, TagKinds
<1>3. \/ n = NoIdent /\ GiveUp({}, {n}, {e})
      \/ n # NoIdent /\ s.type = "none" /\ GiveUp({"undefined symbol"}, {n}, {e})
      \/ n # NoIdent /\ s.type \in {"func", "tag"} /\ GiveUp({"not a variable"}, {n}, {e})
      \/ n # NoIdent /\ s.type = "var" /\ r.val = NoVal /\ GiveUp(r.errs, {n}, {e})
      \/ n # NoIdent /\ s.type = "var" /\ r.val # NoVal /\ Accept(bs) /\ UNCHANGED scopes
  BY DEF _visit_let_stmt
<1>4. /\ r.val = NoVal <=> FaultyExp(e, MainVars, MainCalls(Here))
      /\ r.val = NoVal => r.errs # {} \/ Bad \in SubExps(e)
  BY <1>1, ExpHere
<1>5. n # NoIdent => (s.type = "var" <=> VarInMain(n))
  BY <1>1, LookUp
<1> HIDE DEF S, r, s, bs
<1>6. CASE n = NoIdent /\ GiveUp({}, {n}, {e})
  BY <1>1, <1>2, <1>6, GaveUp
<1>7. CASE n # NoIdent /\ s.type = "none" /\ GiveUp({"undefined symbol"}, {n}, {e})
  <2>1. {"undefined symbol"} # {} /\ Faulty(S, Here)
    BY <1>2, <1>5, <1>7
  <2> QED
    BY <1>1, <1>7, <2>1, GaveUp
<1>8. CASE n # NoIdent /\ s.type \in {"func", "tag"} /\ GiveUp({"not a variable"}, {n}, {e})
  <2>1. {"not a variable"} # {} /\ Faulty(S, Here)
    BY <1>2, <1>5, <1>8
  <2> QED
    BY <1>1, <1>8, <2>1, GaveUp
<1>9. CASE n # NoIdent /\ s.type = "var" /\ r.val = NoVal /\ GiveUp(r.errs, {n}, {e})
  BY <1>1, <1>2, <1>4, <1>9, GaveUp
<1>10. CASE n # NoIdent /\ s.type = "var" /\ r.val # NoVal /\ Accept(bs) /\ UNCHANGED scopes
  BY <1>1, <1>2, <1>4, <1>5, <1>10, Accepted DEF TagKinds
<1> QED
  BY <1>3, <1>6, <1>7, <1>8, <1>9, <1>10

LEMMA TagNames ==
    ASSUME NamesInv, NEW n \in Idents \cup {NoIdent}, _visit_tag_stmt(n) PROVE NamesInv'
<1> DEFINE t   == TagOf(n)
           new == Cur + 1
           u   == [t EXCEPT !.target = new]
           S   == [k |-> "tag", n |-> n]
<1>1. Visit(S) /\ Visiting /\ S.k = "tag" /\ S.n = n
  BY DEF _visit_tag_stmt, Visit, Visiting
<1>2. Faulty(S, Here) <=> n = NoIdent \/ VarInMain(n)
  BY <1>1 DEF Faulty, TagKinds
<1>3. \/ n = NoIdent /\ GiveUp({}, {n}, {})
      \/ n # NoIdent /\ t.type # "tag" /\ GiveUp({"not a tag"}, {n}, {})
      \/ /\ n # NoIdent /\ t.type = "tag" /\ phase' = "stmts" /\ UNCHANGED errors
         /\ scopes' = add_symbol(scopes, n, u)
  BY DEF _visit_tag_stmt, Accept
<1>4. n # NoIdent => (t.type = "tag" <=> ~VarInMain(n))
  BY <1>1, LookUp
<1>5. t.type = "tag" => u.type = "tag"
  OBVIOUS
<1> HIDE DEF S, t, u
<1>6. CASE n = NoIdent /\ GiveUp({}, {n}, {})
  BY <1>1, <1>2, <1>6, GaveUp
<1>7. CASE n # NoIdent /\ t.type # "tag" /\ GiveUp({"not a tag"}, {n}, {})
  <2>1. {"not a tag"} # {} /\ Faulty(S, Here)
    BY <1>2, <1>4, <1>7
  <2> QED
    BY <1>1, <1>7, <2>1, GaveUp
<1>8. CASE /\ n # NoIdent /\ t.type = "tag" /\ phase' = "stmts" /\ UNCHANGED errors
           /\ scopes' = add_symbol(scopes, n, u)
  <2>1. PICK i : i = Here
    OBVIOUS
  <2>2. S.k \in TagKinds /\ S.n \in Idents /\ ~VarInMain(S.n) /\ ~Faulty(S, i)
    BY <1>1, <1>2, <1>4, <1>8, <2>1 DEF TagKinds
  <2> QED
    BY <1>1, <1>5, <1>8, <2>1, <2>2, StmtTagged
<1> QED
  BY <1>3, <1>6, <1>7, <1>8

LEMMA ToNames ==
    ASSUME NamesInv, NEW n \in Idents \cup {NoIdent}, _visit_to_stmt(n) PROVE NamesInv'
<1> DEFINE t == TagOf(n)
           u == Waiting(t)
           S == [k |-> "to", n |-> n]
<1>1. Visit(S) /\ Visiting /\ S.k = "to" /\ S.n = n
  BY DEF _visit_to_stmt, Visit, Visiting
<1>2. Faulty(S, Here) <=> n = NoIdent \/ VarInMain(n)
  BY <1>1 DEF Faulty, TagKinds
<1>3. \/ n = NoIdent /\ GiveUp({}, {n}, {})
      \/ n # NoIdent /\ t.type # "tag" /\ GiveUp({"not a tag"}, {n}, {})
      \/ /\ n # NoIdent /\ t.type = "tag" /\ phase' = "stmts" /\ UNCHANGED errors
         /\ scopes' = add_symbol(scopes, n, u)
  BY DEF _visit_to_stmt, Accept
<1>4. n # NoIdent => (t.type = "tag" <=> ~VarInMain(n))
  BY <1>1, LookUp
<1>5. t.type = "tag" => u.type = "tag"
  BY DEF Waiting
<1> HIDE DEF S, t, u
<1>6. CASE n = NoIdent /\ GiveUp({}, {n}, {})
  BY <1>1, <1>2, <1>6, GaveUp
<1>7. CASE n # NoIdent /\ t.type # "tag" /\ GiveUp({"not a tag"}, {n}, {})
  <2>1. {"not a tag"} # {} /\ Faulty(S, Here)
    BY <1>2, <1>4, <1>7
  <2> QED
    BY <1>1, <1>7, <2>1, GaveUp
<1>8. CASE /\ n # NoIdent /\ t.type = "tag" /\ phase' = "stmts" /\ UNCHANGED errors
           /\ scopes' = add_symbol(scopes, n, u)
  <2>1. PICK i : i = Here
    OBVIOUS
  <2>2. S.k \in TagKinds /\ S.n \in Idents /\ ~VarInMain(S.n) /\ ~Faulty(S, i)
    BY <1>1, <1>2, <1>4, <1>8, <2>1 DEF TagKinds
  <2> QED
    BY <1>1, <1>5, <1>8, <2>1, <2>2, StmtTagged
<1> QED
  BY <1>3, <1>6, <1>7, <1>8

LEMMA IfNames ==
    ASSUME NamesInv, NEW n \in Idents \cup {NoIdent}, NEW c \in Conds, _visit_if_stmt(c, n)
    PROVE  NamesInv'
<1> DEFINE t == TagOf(n)
           u == Waiting(t)
           r == _visit_exp(c, scopes)
           S == [k |-> "if", e |-> c, n |-> n]
<1>1. Visit(S) /\ Visiting /\ S.k = "if" /\ S.n = n /\ S.e = c
  BY DEF _visit_if_stmt, Visit, Visiting
<1>2. Faulty(S, Here) <=> \/ n = NoIdent \/ VarInMain(n)
                          \/ FaultyExp(c, MainVars, MainCalls(Here))
  BY <1>1 DEF Faulty, TagKinds
<1>3. \/ r.val = NoVal /\ GiveUp(r.errs, {n}, {c})
      \/ Crash
      \/ r.val # NoVal /\ n # NoIdent /\ t.type # "tag" /\ GiveUp({"not a tag"}, {n}, {c})
      \/ /\ r.val # NoVal /\ n # NoIdent /\ t.type = "tag" /\ phase' = "stmts"
         /\ UNCHANGED errors /\ scopes' = add_symbol(scopes, n, u)
  BY DEF _visit_if_stmt, Accept
<1>4. n # NoIdent => (t.type = "tag" <=> ~VarInMain(n))
  BY <1>1, LookUp
<1>5. t.type = "tag" => u.type = "tag"
  BY DEF Waiting
<1>6. /\ r.val = NoVal <=> FaultyExp(c, MainVars, MainCalls(Here))
      /\ r.val = NoVal => r.errs # {} \/ Bad \in SubExps(c)
  BY <1>1, ExpHere
<1> HIDE DEF S, t, u, r
<1>7. CASE r.val = NoVal /\ GiveUp(r.errs, {n}, {c})
  BY <1>1, <1>2, <1>6, <1>7, GaveUp
<1>8. CASE Crash
  BY <1>1, <1>8, CrashNames
<1>9. CASE r.val # NoVal /\ n # NoIdent /\ t.type # "tag" /\ GiveUp({"not a tag"}, {n}, {c})
  <2>1. {"not a tag"} # {} /\ Faulty(S, Here)
    BY <1>2, <1>4, <1>9
  <2> QED
    BY <1>1, <1>9, <2>1, GaveUp
<1>10. CASE /\ r.val # NoVal /\ n # NoIdent /\ t.type = "tag" /\ phase' = "stmts"
            /\ UNCHANGED errors /\ scopes' = add_symbol(scopes, n, u)
  <2>1. PICK i : i = Here
    OBVIOUS
  <2>2. S.k \in TagKinds /\ S.n \in Idents /\ ~VarInMain(S.n) /\ ~Faulty(S, i)
    BY <1>1, <1>2, <1>4, <1>6, <1>10, <2>1 DEF TagKinds
  <2> QED
    BY <1>1, <1>5, <1>10, <2>1, <2>2, StmtTagged
<1> QED
  BY <1>3, <1>7, <1>8, <1>9, <1>10

LEMMA NamesInit == Init => NamesInv
<1> SUFFICES ASSUME Init PROVE NamesInv
  OBVIOUS
<1>1. /\ src = [funcs |-> <<>>, decls |-> <<>>, stmts |-> <<>>]
      /\ phase = "funcs" /\ scopes = <<NewScope>> /\ errors = {}
  BY DEF Init, EmptyProgram
<1>2. src.funcs = <<>> /\ src.decls = <<>> /\ src.stmts = <<>> /\ scopes[1] = NewScope
  BY <1>1
<1>3. SrcOk
  BY <1>1, <1>2, EmptyFacts DEF SrcOk
<1>4. GlobalOk(scopes[1])
  <2>1. \A n : FuncDefs(n) = {}
    BY <1>2 DEF FuncDefs
  <2> QED
    BY <1>2, <2>1 DEF GlobalOk, NewScope
<1>5. ErrorsOk
  BY <1>1, <1>2 DEF ErrorsOk, ErrorAt
<1> QED
  BY <1>1, <1>2, <1>3, <1>4, <1>5 DEF NamesInv, Visiting

LEMMA NamesStep ==
    ASSUME NamesInv, "BadBody" \notin Sloppy, [VisitorNext]_visitorVars PROVE NamesInv'
<1>1. CASE \E n \in Idents \cup {NoIdent}, ps \in ParamLists, e \in Exps : _visit_func_def(n, ps, e)
  BY <1>1, FuncDefNames
<1>2. CASE BeginMain
  BY <1>2, BeginMainNames
<1>3. CASE \E n \in Idents \cup {NoIdent} : _visit_var_decl(n)
  BY <1>3, VarDeclNames
<1>4. CASE Stmt
  BY <1>4, GetNames, TagNames, ToNames, LetNames, IfNames, PutNames DEF Stmt
<1>5. CASE Finish
  BY <1>5, FinishNames
<1>6. CASE Stopped \/ UNCHANGED visitorVars
  BY <1>6, IdleNames DEF Stopped
<1> QED
  BY <1>1, <1>2, <1>3, <1>4, <1>5, <1>6 DEF VisitorNext

\* The symbol tables hold what the program says, and so errors are where it is
\* at fault.
LEMMA NamesCorrect == "BadBody" \notin Sloppy => (Spec => []NamesInv)
<1> SUFFICES ASSUME "BadBody" \notin Sloppy PROVE Spec => []NamesInv
  OBVIOUS
<1>1. NamesInv /\ [VisitorNext]_visitorVars => NamesInv'
  BY NamesStep
<1> QED
  BY NamesInit, <1>1, PTL DEF Spec

LEMMA ExactErrors == ASSUME NamesInv PROVE ErrorsExact
<1> SUFFICES ASSUME ErrorsOk
             PROVE  {e.at : e \in errors} =
                      {<<"fn", j>> : j \in {j \in DOMAIN src.funcs : FaultyFunc(j)}}
                      \cup {<<"var", j>> : j \in {j \in DOMAIN src.decls : FaultyDecl(j)}}
                      \cup {<<"stmt", i>> : i \in {i \in DOMAIN src.stmts : FaultyStmt(i)}}
  BY DEF NamesInv, ErrorsExact
<1> DEFINE Places == {<<"fn", j>> : j \in {j \in DOMAIN src.funcs : FaultyFunc(j)}}
                     \cup {<<"var", j>> : j \in {j \in DOMAIN src.decls : FaultyDecl(j)}}
                     \cup {<<"stmt", i>> : i \in {i \in DOMAIN src.stmts : FaultyStmt(i)}}
<1>1. \A p : p \in {e.at : e \in errors} <=> ErrorAt(p)
  BY DEF ErrorAt
<1>2. ASSUME NEW p, ErrorAt(p) PROVE p \in Places
  <2>1. \/ \E j \in DOMAIN src.funcs : p = <<"fn", j>>
        \/ \E j \in DOMAIN src.decls : p = <<"var", j>>
        \/ \E i \in DOMAIN src.stmts : p = <<"stmt", i>>
    <3>1. PICK e \in errors : e.at = p
      BY Zenon, <1>2 DEF ErrorAt
    <3>2. \A d \in errors : \/ \E j \in DOMAIN src.funcs : d.at = <<"fn", j>>
                            \/ \E j \in DOMAIN src.decls : d.at = <<"var", j>>
                            \/ \E i \in DOMAIN src.stmts : d.at = <<"stmt", i>>
      BY Zenon DEF ErrorsOk
    <3> QED
      BY Zenon, <3>1, <3>2
  <2>2. CASE \E j \in DOMAIN src.funcs : p = <<"fn", j>>
    BY <1>2, <2>2 DEF ErrorsOk
  <2>3. CASE \E j \in DOMAIN src.decls : p = <<"var", j>>
    BY <1>2, <2>3 DEF ErrorsOk
  <2>4. CASE \E i \in DOMAIN src.stmts : p = <<"stmt", i>>
    BY <1>2, <2>4 DEF ErrorsOk
  <2> QED
    BY <2>1, <2>2, <2>3, <2>4
<1>3. ASSUME NEW p \in Places PROVE ErrorAt(p)
  BY DEF ErrorsOk
<1> HIDE DEF Places
<1>4. {e.at : e \in errors} = Places
  BY <1>1, <1>2, <1>3
<1> QED
  BY <1>4 DEF Places

\* Errors are reported exactly where the program is at fault, however names
\* are shared and whichever declarations, statements and heads of functions
\* failed before, if no function's body is at fault: one that is leaves its
\* scope pushed, and what follows is looked up and defined there (visitor.cpp
\* _visit_func_def).  Repeated and undefined tags are no faults (FaultyStmt).
THEOREM ErrorsCorrect == "BadBody" \notin Sloppy => (Spec => []ErrorsExact)
<1> SUFFICES ASSUME "BadBody" \notin Sloppy PROVE Spec => []ErrorsExact
  OBVIOUS
<1>1. NamesInv => ErrorsExact
  BY ExactErrors
<1> QED
  BY <1>1, NamesCorrect, PTL

-----------------------------------------------------------------------------
(***************************************************************************)
(* The types of the visitor's variables.                                   *)
(***************************************************************************)
StmtsTyped  == \A i \in DOMAIN src.stmts : src.stmts[i].k \in Kinds
FuncsTyped  == \A i \in DOMAIN funcs : funcs[i].n \in Idents /\ funcs[i].count \in 0 .. MaxParams
ErrorsTyped == \A e \in errors : e.at[1] \in {"fn", "var", "stmt"} /\ e.at[2] \in Nat

\* What TypeOK says of all but the blocks, of which Ranged does.
Typed == /\ SrcOk /\ StmtsTyped /\ FuncsTyped /\ ErrorsTyped
         /\ scopes \in Seq([Idents -> Symbols])

\* The symbols of tags of a main of k blocks.
TagSymbols(k) == [type : {"tag"}, target : 0 .. k, jump_insts : SUBSET (1 .. k)]

\* Declarations, functions and blocks are only added.
More == /\ Len(src.decls) \in Nat /\ Len(src'.decls) \in Nat /\ Len(src.decls) <= Len(src'.decls)
        /\ DOMAIN src.decls = 1 .. Len(src.decls) /\ DOMAIN src'.decls = 1 .. Len(src'.decls)
        /\ Len(funcs) \in Nat /\ Len(funcs') \in Nat /\ Len(funcs) <= Len(funcs')
        /\ Cur \in Nat /\ Cur' \in Nat /\ Cur <= Cur'
        /\ DOMAIN blocks = 1 .. Cur /\ DOMAIN blocks' = 1 .. Cur'

\* A symbol stays one.
LEMMA SymbolsGrow == ASSUME More PROVE Symbols \subseteq Symbols'
<1>1. Cells \subseteq Cells'
  BY DEF More, Cells
<1>2. [type : {"var"}, cell : Cells] \subseteq [type : {"var"}, cell : Cells']
  BY <1>1
<1>3. [type : {"func"}, fn : 1 .. Len(funcs), count : 0 .. MaxParams]
          \subseteq [type : {"func"}, fn : 1 .. Len(funcs'), count : 0 .. MaxParams]
  BY DEF More
<1>4. [type : {"tag"}, target : 0 .. Len(blocks), jump_insts : SUBSET (DOMAIN blocks)]
          \subseteq [type : {"tag"}, target : 0 .. Len(blocks'), jump_insts : SUBSET (DOMAIN blocks')]
  BY DEF More, Cur
<1> QED
  BY <1>2, <1>3, <1>4 DEF Symbols

\* The scopes keep their type, when a symbol is added too.
LEMMA ScopesKeep ==
    ASSUME NEW S, NEW T, S \subseteq T, NEW sc \in Seq([Idents -> S])
    PROVE  sc \in Seq([Idents -> T])
<1>1. [Idents -> S] \subseteq [Idents -> T]
  OBVIOUS
<1> QED
  BY <1>1

LEMMA SymbolTyped ==
    ASSUME NEW T, NEW sc \in Seq([Idents -> T]), sc # <<>>, NEW n \in Idents, NEW s \in T
    PROVE  add_symbol(sc, n, s) \in Seq([Idents -> T])
<1> DEFINE top == [sc[Len(sc)] EXCEPT ![n] = s]
<1>1. Len(sc) \in 1 .. Len(sc) /\ sc[Len(sc)] \in [Idents -> T]
  OBVIOUS
<1>2. top \in [Idents -> T]
  BY <1>1
<1>3. add_symbol(sc, n, s) = [sc EXCEPT ![Len(sc)] = top]
  BY DEF add_symbol
<1> HIDE DEF top
<1> QED
  BY <1>1, <1>2, <1>3

\* The symbol of a tag, and after its list or its block has changed.
LEMMA TagTyped ==
    ASSUME scopes \in Seq([Idents -> Symbols]), scopes # <<>>, Cur \in Nat, DOMAIN blocks = 1 .. Cur,
           NEW n \in Idents, TagOf(n).type = "tag"
    PROVE  TagOf(n) \in TagSymbols(Cur)
<1>1. CASE exist_in_scope(scopes, n)
  <2>1. Len(scopes) \in 1 .. Len(scopes) /\ scopes[Len(scopes)] \in [Idents -> Symbols]
    OBVIOUS
  <2>2. TagOf(n) \in Symbols
    BY <1>1, <2>1 DEF TagOf
  <2> HIDE DEF TagOf
  <2> QED
    BY <2>2 DEF Symbols, NoSymbol, TagSymbols, Cur
<1>2. CASE ~exist_in_scope(scopes, n)
  BY <1>2 DEF TagOf, TagSymbol, TagSymbols
<1> QED
  BY <1>1, <1>2

LEMMA WaitingTyped ==
    ASSUME NEW k \in Nat, Cur = k, k > 0, NEW t \in TagSymbols(k)
    PROVE  Waiting(t) \in TagSymbols(k + 1)
<1>1. t.target \in 0 .. k /\ t.jump_insts \in SUBSET (1 .. k)
      /\ t = [type |-> "tag", target |-> t.target, jump_insts |-> t.jump_insts]
  BY DEF TagSymbols
<1>2. Waiting(t) = [type |-> "tag", target |-> t.target,
                    jump_insts |-> IF t.target # 0 THEN t.jump_insts ELSE t.jump_insts \cup {Cur}]
  BY <1>1 DEF Waiting
<1>3. /\ t.target \in 0 .. (k + 1)
      /\ (IF t.target # 0 THEN t.jump_insts ELSE t.jump_insts \cup {Cur}) \in SUBSET (1 .. (k + 1))
  BY <1>1
<1> QED
  BY <1>2, <1>3 DEF TagSymbols

LEMMA DefinedTyped ==
    ASSUME NEW k \in Nat, NEW t \in TagSymbols(k)
    PROVE  [t EXCEPT !.target = k + 1] \in TagSymbols(k + 1)
<1>1. t.target \in 0 .. k /\ t.jump_insts \in SUBSET (1 .. k)
      /\ t = [type |-> "tag", target |-> t.target, jump_insts |-> t.jump_insts]
  BY DEF TagSymbols
<1>2. [t EXCEPT !.target = k + 1] = [type |-> "tag", target |-> k + 1, jump_insts |-> t.jump_insts]
  BY <1>1
<1>3. k + 1 \in 0 .. (k + 1) /\ t.jump_insts \in SUBSET (1 .. (k + 1))
  BY <1>1
<1> QED
  BY <1>2, <1>3 DEF TagSymbols

\* A message names the place it is given.
LEMMA ReportTyped ==
    ASSUME ErrorsTyped, NEW at, at[1] \in {"fn", "var", "stmt"}, at[2] \in Nat, NEW kinds,
           errors' = Report(at, kinds)
    PROVE  ErrorsTyped'
BY DEF ErrorsTyped, Report

LEMMA BlocksIndexed ==
    ASSUME NEW bs, AreSeqs(bs) PROVE Len(bs) \in Nat /\ DOMAIN bs = 1 .. Len(bs)
BY SeqFacts DEF AreSeqs

\* A statement: whatever became of it, its kind is one of the language's, and
\* the current scope has at most the symbol of a tag more.
LEMMA StmtTyped ==
    ASSUME VisitorInv, Ranged, Typed, NEW s, Visit(s), phase' \in {"stmts", "crashed"},
           AreSeqs(blocks'), Cur <= Cur',
           errors' = errors \/ \E kinds : errors' = Report(StmtPlace, kinds),
           \/ scopes' = scopes
           \/ \E n \in Idents : \E t \in TagSymbols(Cur') : scopes' = add_symbol(scopes, n, t)
    PROVE  Typed'
<1>1. SrcOk /\ StmtsTyped /\ FuncsTyped /\ ErrorsTyped /\ scopes \in Seq([Idents -> Symbols])
  BY DEF Typed
<1>2. /\ SrcOk' /\ Visiting
      /\ src'.funcs = src.funcs /\ src'.decls = src.decls
      /\ Len(src'.stmts) = Here /\ DOMAIN src'.stmts = 1 .. Here
      /\ src'.stmts[Here] = s
      /\ \A i \in 1 .. (Here - 1) : src'.stmts[i] = src.stmts[i]
  BY <1>1, StmtAdded
<1>3. /\ Len(src.stmts) \in Nat /\ DOMAIN src.stmts = 1 .. Len(src.stmts)
      /\ Len(src.decls) \in Nat /\ DOMAIN src.decls = 1 .. Len(src.decls)
  BY <1>1, SrcFacts
<1>4. funcs' = funcs /\ s.k \in Kinds
  BY DEF Visit
<1>5. StmtsTyped'
  <2>1. DOMAIN src'.stmts = DOMAIN src.stmts \cup {Here} /\ 1 .. (Here - 1) = DOMAIN src.stmts
    BY <1>2, <1>3 DEF Here
  <2> QED
    BY <1>1, <1>2, <1>4, <2>1 DEF StmtsTyped
<1>6. FuncsTyped'
  BY <1>1, <1>4 DEF FuncsTyped
<1>7. ErrorsTyped'
  <2>1. CASE errors' = errors
    BY <1>1, <2>1 DEF ErrorsTyped
  <2>2. CASE \E kinds : errors' = Report(StmtPlace, kinds)
    <3>1. StmtPlace[1] = "stmt" /\ StmtPlace[2] \in Nat
      BY <1>3 DEF StmtPlace
    <3> QED
      BY <1>1, <2>2, <3>1, ReportTyped
  <2> QED
    BY <2>1, <2>2
<1>8. Symbols \subseteq Symbols'
  <2>1. Cur \in Nat /\ DOMAIN blocks = 1 .. Cur /\ Cur' \in Nat /\ DOMAIN blocks' = 1 .. Cur'
    BY BlocksIndexed DEF VisitorInv, Shaped, Cur
  <2>2. Len(funcs) \in Nat
    BY SeqFacts DEF Ranged
  <2>3. More
    BY <1>2, <1>3, <1>4, <2>1, <2>2 DEF More
  <2> QED
    BY <2>3, SymbolsGrow
<1>9. scopes \in Seq([Idents -> Symbols'])
  BY <1>1, <1>8, ScopesKeep
<1>10. scopes' \in Seq([Idents -> Symbols'])
  <2>1. CASE scopes' = scopes
    BY <1>9, <2>1
  <2>2. ASSUME NEW n \in Idents, NEW t \in TagSymbols(Cur'), scopes' = add_symbol(scopes, n, t)
        PROVE  scopes' \in Seq([Idents -> Symbols'])
    <3>1. scopes # <<>>
      BY <1>2 DEF VisitorInv, Scoped, AreScopes, Visiting
    <3>2. DOMAIN blocks' = 1 .. Cur'
      BY BlocksIndexed DEF Cur
    <3>3. t \in Symbols'
      BY <3>2 DEF Symbols, TagSymbols, Cur
    <3> QED
      BY <1>9, <2>2, <3>1, <3>3, SymbolTyped
  <2> QED
    BY <2>1, <2>2
<1> QED
  BY <1>2, <1>5, <1>6, <1>7, <1>10 DEF Typed

\* A statement that is given up, one that ends the compiler, and one that
\* adds an instruction.
LEMMA IdleTyped ==
    ASSUME VisitorInv, Ranged, Typed, NEW s, Visit(s),
           \/ \E kinds, names, es : GiveUp(kinds, names, es)
           \/ Crash
    PROVE  Typed'
<1>1. AreSeqs(blocks') /\ Cur' = Cur /\ Cur \in Nat
  BY BlocksIndexed DEF VisitorInv, Shaped, Cur, GiveUp, Crash
<1>2. /\ phase' \in {"stmts", "crashed"} /\ scopes' = scopes
      /\ errors' = errors \/ \E kinds : errors' = Report(StmtPlace, kinds)
  BY DEF GiveUp, Crash
<1> QED
  BY <1>1, <1>2, StmtTyped

LEMMA EmitTyped ==
    ASSUME VisitorInv, Ranged, Typed, NEW s, Visit(s), NEW inst, Accept(Emit(inst)), UNCHANGED scopes
    PROVE  Typed'
<1>1. Visiting /\ AreSeqs(blocks) /\ blocks # <<>> /\ Cur \in Nat
  BY VisitFacts, BlocksIndexed DEF VisitorInv, Shaped, Visiting, Cur
<1>2. Added(blocks', inst, Cur)
  BY <1>1, EmitFacts DEF Accept
<1>3. AreSeqs(blocks') /\ Cur' = Cur
  BY <1>2 DEF Added, Cur
<1>4. phase' = "stmts" /\ errors' = errors
  BY DEF Accept
<1> QED
  BY <1>1, <1>3, <1>4, StmtTyped

\* A jump to tag n, and the tag's definition.
LEMMA JumpTyped ==
    ASSUME VisitorInv, Ranged, Typed, NEW s, Visit(s), NEW n \in Idents, TagOf(n).type = "tag",
           NEW inst, Accept(EndBlock(inst)), scopes' = add_symbol(scopes, n, Waiting(TagOf(n)))
    PROVE  Typed'
<1>1. /\ Visiting /\ AreSeqs(blocks) /\ blocks # <<>> /\ Cur \in Nat /\ Cur > 0
      /\ DOMAIN blocks = 1 .. Cur /\ scopes # <<>> /\ scopes \in Seq([Idents -> Symbols])
  BY VisitFacts, BlockFacts DEF VisitorInv, Shaped, Visiting, Scoped, AreScopes, Typed
<1>2. Added(blocks', inst, Cur + 1)
  BY <1>1, EndBlockFacts DEF Accept
<1>3. AreSeqs(blocks') /\ Cur' = Cur + 1
  BY <1>2 DEF Added, Cur
<1>4. TagOf(n) \in TagSymbols(Cur)
  BY <1>1, TagTyped
<1>5. Waiting(TagOf(n)) \in TagSymbols(Cur')
  BY <1>1, <1>3, <1>4, WaitingTyped
<1>6. phase' = "stmts" /\ errors' = errors /\ Cur <= Cur'
  BY <1>1, <1>3 DEF Accept
<1> QED
  BY <1>3, <1>5, <1>6, StmtTyped

LEMMA TagStmtTyped ==
    ASSUME VisitorInv, Ranged, Typed, NEW s, Visit(s), NEW n \in Idents, TagOf(n).type = "tag",
           NEW inst, NEW S, Accept(Retarget(EndBlock(inst), S, Cur + 1)), AreSeqs(blocks'),
           scopes' = add_symbol(scopes, n, [TagOf(n) EXCEPT !.target = Cur + 1])
    PROVE  Typed'
<1>1. /\ Visiting /\ AreSeqs(blocks) /\ blocks # <<>> /\ Cur \in Nat /\ Cur > 0
      /\ DOMAIN blocks = 1 .. Cur /\ scopes # <<>> /\ scopes \in Seq([Idents -> Symbols])
  BY VisitFacts, BlockFacts DEF VisitorInv, Shaped, Visiting, Scoped, AreScopes, Typed
<1> DEFINE bs == EndBlock(inst)
           t  == [TagOf(n) EXCEPT !.target = Cur + 1]
<1>2. Added(bs, inst, Cur + 1)
  BY <1>1, EndBlockFacts
<1>3. DOMAIN bs = 1 .. (Cur + 1)
  BY <1>2, BlocksIndexed DEF Added
<1>4. DOMAIN blocks' = DOMAIN bs
  <2>1. blocks' = Retarget(bs, S, Cur + 1)
    BY DEF Accept
  <2> HIDE DEF bs
  <2> QED
    BY <2>1 DEF Retarget
<1>5. Cur' = Cur + 1
  BY <1>1, <1>3, <1>4, BlocksIndexed DEF Cur
<1>6. t \in TagSymbols(Cur')
  <2>1. TagOf(n) \in TagSymbols(Cur)
    BY <1>1, TagTyped
  <2>2. \A u \in TagSymbols(Cur) : [u EXCEPT !.target = Cur + 1] \in TagSymbols(Cur + 1)
    BY <1>1, DefinedTyped
  <2> QED
    BY <1>5, <2>1, <2>2
<1>7. phase' = "stmts" /\ errors' = errors /\ Cur <= Cur'
  BY <1>1, <1>5 DEF Accept
<1> HIDE DEF t
<1> QED
  BY <1>6, <1>7, StmtTyped DEF t

LEMMA StmtsTypes == ASSUME VisitorInv, VisitorInv', Ranged, Typed, Stmt PROVE Typed'
<1>1. AreSeqs(blocks')
  BY DEF VisitorInv, Shaped
<1>2. ASSUME NEW n \in Idents \cup {NoIdent}, _visit_get_stmt(n) PROVE Typed'
  <2> DEFINE st == [k |-> "get", n |-> n]
             inst == Input(Here, get_symbol(scopes, n).cell)
  <2>1. Visit(st)
    BY <1>2 DEF _visit_get_stmt
  <2> HIDE DEF st
  <2>2. \/ \E kinds, names, es : GiveUp(kinds, names, es)
        \/ Crash
        \/ Accept(Emit(inst)) /\ UNCHANGED scopes
    BY <1>2 DEF _visit_get_stmt
  <2> HIDE DEF inst
  <2> QED
    BY <2>1, <2>2, IdleTyped, EmitTyped
<1>3. ASSUME NEW e \in Exps, _visit_put_stmt(e) PROVE Typed'
  <2> DEFINE st   == [k |-> "put", e |-> e]
             inst == Output(Here, _visit_exp(e, scopes).val)
  <2>1. Visit(st)
    BY <1>3 DEF _visit_put_stmt
  <2> HIDE DEF st
  <2>2. \/ \E kinds, names, es : GiveUp(kinds, names, es)
        \/ Accept(Emit(inst)) /\ UNCHANGED scopes
    BY <1>3 DEF _visit_put_stmt
  <2> HIDE DEF inst
  <2> QED
    BY <2>1, <2>2, IdleTyped, EmitTyped
<1>4. ASSUME NEW n \in Idents \cup {NoIdent}, NEW e \in Exps, _visit_let_stmt(n, e) PROVE Typed'
  <2> DEFINE st   == [k |-> "let", n |-> n, e |-> e]
             inst == Store(Here, _visit_exp(e, scopes).val, get_symbol(scopes, n).cell)
  <2>1. Visit(st)
    BY <1>4 DEF _visit_let_stmt
  <2> HIDE DEF st
  <2>2. \/ \E kinds, names, es : GiveUp(kinds, names, es)
        \/ Accept(Emit(inst)) /\ UNCHANGED scopes
    BY <1>4 DEF _visit_let_stmt
  <2> HIDE DEF inst
  <2> QED
    BY <2>1, <2>2, IdleTyped, EmitTyped
<1>6. ASSUME NEW n \in Idents \cup {NoIdent}, _visit_to_stmt(n) PROVE Typed'
  <2> DEFINE st   == [k |-> "to", n |-> n]
             t    == TagOf(n)
             inst == JumpTo(t, JumpInst(Here))
  <2>1. Visit(st)
    BY <1>6 DEF _visit_to_stmt
  <2> HIDE DEF st
  <2>2. \/ \E kinds, names, es : GiveUp(kinds, names, es)
        \/ /\ n \in Idents /\ t.type = "tag" /\ Accept(EndBlock(inst))
           /\ scopes' = add_symbol(scopes, n, Waiting(t))
    BY <1>6 DEF _visit_to_stmt
  <2> HIDE DEF inst
  <2> QED
    BY <2>1, <2>2, IdleTyped, JumpTyped
<1>7. ASSUME NEW n \in Idents \cup {NoIdent}, NEW c \in Conds, _visit_if_stmt(c, n) PROVE Typed'
  <2> DEFINE st   == [k |-> "if", e |-> c, n |-> n]
             t    == TagOf(n)
             inst == JumpTo(t, BranchInst(Here, _visit_exp(c, scopes).val, Cur + 1))
  <2>1. Visit(st)
    BY <1>7 DEF _visit_if_stmt
  <2> HIDE DEF st
  <2>2. \/ \E kinds, names, es : GiveUp(kinds, names, es)
        \/ Crash
        \/ /\ n \in Idents /\ t.type = "tag" /\ Accept(EndBlock(inst))
           /\ scopes' = add_symbol(scopes, n, Waiting(t))
    BY <1>7 DEF _visit_if_stmt
  <2> HIDE DEF inst
  <2> QED
    BY <2>1, <2>2, IdleTyped, JumpTyped
<1>8. ASSUME NEW n \in Idents \cup {NoIdent}, _visit_tag_stmt(n) PROVE Typed'
  <2> DEFINE st   == [k |-> "tag", n |-> n]
             t    == TagOf(n)
             inst == SetTarget(JumpInst(Here), Cur + 1)
  <2>1. Visit(st)
    BY <1>8 DEF _visit_tag_stmt
  <2> HIDE DEF st
  <2>2. \/ \E kinds, names, es : GiveUp(kinds, names, es)
        \/ /\ n \in Idents /\ t.type = "tag"
           /\ Accept(Retarget(EndBlock(inst), t.jump_insts, Cur + 1))
           /\ scopes' = add_symbol(scopes, n, [t EXCEPT !.target = Cur + 1])
    BY <1>8 DEF _visit_tag_stmt
  <2> HIDE DEF inst
  <2> QED
    BY <1>1, <2>1, <2>2, IdleTyped, TagStmtTyped
<1> QED
  BY <1>2, <1>3, <1>4, <1>6, <1>7, <1>8 DEF Stmt

\* The symbols of a function and of its parameters.
LEMMA ParamTyped ==
    ASSUME NEW k \in Nat \ {0}, NEW ps, IsSeq(ps), Len(ps) <= MaxParams, NEW T,
           NoSymbol \in T, \A i \in 1 .. MaxParams : VarSymbol(k, i) \in T
    PROVE  ParamScope(k, ps) \in [Idents -> T]
<1>1. Len(ps) \in Nat /\ DOMAIN ps = 1 .. Len(ps) /\ MaxParams \in Nat
  BY SeqFacts, VisitorAssumption
<1>2. ASSUME NEW n \in Idents, NEW i \in DOMAIN ps, ps[i] = n
      PROVE  (CHOOSE j \in DOMAIN ps : ps[j] = n /\ \A l \in 1 .. (j - 1) : ps[l] # n) \in 1 .. MaxParams
  <2> DEFINE F == {j \in DOMAIN ps : ps[j] = n}
  <2>1. PICK j \in F : \A l \in F : j <= l
    <3>1. F \subseteq Nat /\ F # {}
      BY <1>1, <1>2
    <3> HIDE DEF F
    <3> QED
      BY <3>1, LeastNumber
  <2>2. ps[j] = n /\ j \in DOMAIN ps /\ \A l \in 1 .. (j - 1) : ps[l] # n
    <3>1. \A l \in 1 .. (j - 1) : l \in DOMAIN ps /\ ~(j <= l)
      BY <1>1, <2>1
    <3> QED
      BY <2>1, <3>1
  <2>3. (CHOOSE x \in DOMAIN ps : ps[x] = n /\ \A l \in 1 .. (x - 1) : ps[l] # n) \in DOMAIN ps
    BY <2>2
  <2> QED
    BY <1>1, <2>3
<1>3. \A n \in Idents : (\E i \in DOMAIN ps : ps[i] = n) =>
          VarSymbol(k, CHOOSE j \in DOMAIN ps : ps[j] = n /\ \A l \in 1 .. (j - 1) : ps[l] # n) \in T
  BY <1>2
<1> QED
  BY <1>3 DEF ParamScope

LEMMA FuncDefTyped ==
    ASSUME VisitorInv, Ranged, Typed, NEW n \in Idents \cup {NoIdent}, NEW params \in ParamLists,
           NEW e \in Exps, _visit_func_def(n, params, e)
    PROVE  Typed'
<1> DEFINE f     == [n |-> n, params |-> params, e |-> e]
           ps    == NotNull(params)
           fn    == Len(funcs) + 1
           sym   == FuncSymbol(fn, Len(ps))
           outer == add_symbol(scopes, n, sym)
           inner == Append(outer, ParamScope(fn, ps))
           body  == _visit_exp(e, inner)
           entry == [n |-> n, count |-> Len(ps), ret |-> body.val]
<1>1. /\ phase = "funcs" /\ phase' = phase /\ UNCHANGED blocks
      /\ src' = [src EXCEPT !.funcs = Append(@, f)]
  BY DEF _visit_func_def
<1>2. /\ n # NoIdent => n \in Idents
      /\ params \in Seq(Ident) /\ Len(params) <= MaxParams /\ Len(params) \in Nat
  BY ParamListFacts
<1>3. /\ SrcOk /\ StmtsTyped /\ FuncsTyped /\ ErrorsTyped /\ scopes \in Seq([Idents -> Symbols])
      /\ scopes # <<>> /\ IsSeq(funcs) /\ Len(funcs) \in Nat /\ MaxParams \in Nat
  BY <1>1, SeqFacts, VisitorAssumption DEF Typed, Ranged, VisitorInv, Scoped, AreScopes
<1>4. f \in AFunc /\ Another(f)
  BY <1>1, <1>2 DEF AFunc, Ident, Another
<1>5. SrcOk' /\ src'.decls = <<>> /\ src'.stmts = <<>> /\ src.decls = <<>>
  BY <1>1, <1>3, <1>4, FuncAdded DEF SrcOk
<1>6. StmtsTyped'
  BY <1>5 DEF StmtsTyped
<1>7. ErrorsTyped'
  <2>1. \E kinds : errors' = Report(FnPlace, kinds)
    BY DEF _visit_func_def
  <2>2. FnPlace[1] = "fn" /\ FnPlace[2] \in Nat
    BY <1>3, SrcFacts DEF FnPlace
  <2> QED
    BY <1>3, <2>1, <2>2, ReportTyped
<1>8. ASSUME IsSeq(funcs'), Len(funcs) <= Len(funcs') PROVE Symbols \subseteq Symbols'
  <2>1. Cur \in Nat /\ DOMAIN blocks = 1 .. Cur /\ Cur' = Cur
    BY <1>1, BlocksIndexed DEF VisitorInv, Shaped, Cur
  <2>2. Len(funcs') \in Nat
    BY <1>8, SeqFacts
  <2>3. /\ Len(src.decls) \in Nat /\ Len(src'.decls) = Len(src.decls)
        /\ DOMAIN src.decls = 1 .. Len(src.decls) /\ DOMAIN src'.decls = 1 .. Len(src'.decls)
    BY <1>5, EmptyFacts, SeqFacts
  <2>4. More
    BY <1>1, <1>3, <1>8, <2>1, <2>2, <2>3 DEF More
  <2> QED
    BY <2>4, SymbolsGrow
<1>9. CASE UNCHANGED <<scopes, funcs>>
  <2>1. scopes \in Seq([Idents -> Symbols'])
    BY <1>3, <1>8, <1>9, ScopesKeep
  <2>2. FuncsTyped'
    BY <1>3, <1>9 DEF FuncsTyped
  <2> QED
    BY <1>5, <1>6, <1>7, <1>9, <2>1, <2>2 DEF Typed
<1>10. CASE /\ n # NoIdent /\ funcs' = Append(funcs, entry)
            /\ scopes' = IF body.val = NoVal THEN inner ELSE outer
  <2>1. n \in Idents /\ IsSeq(ps) /\ Len(ps) \in 0 .. MaxParams
    <3>1. IsSeq(ps) /\ Len(ps) <= Len(params)
      BY <1>2, NotNullFacts
    <3> HIDE DEF ps
    <3> QED
      BY <1>2, <1>3, <1>10, <3>1, SeqFacts
  <2>2. entry.n = n /\ entry.count = Len(ps)
    OBVIOUS
  <2> HIDE DEF body, ps
  <2>3. /\ IsSeq(funcs') /\ Len(funcs') = Len(funcs) + 1
        /\ funcs'[Len(funcs) + 1] = entry /\ \A i \in DOMAIN funcs : funcs'[i] = funcs[i]
    <3> HIDE DEF entry
    <3> QED
      BY <1>3, <1>10, AppendFacts
  <2>4. FuncsTyped'
    <3>1. DOMAIN funcs' = DOMAIN funcs \cup {Len(funcs) + 1}
      BY <1>3, <2>3, SeqFacts
    <3> QED
      BY <1>3, <2>1, <2>2, <2>3, <3>1 DEF FuncsTyped
  <2>5. Symbols \subseteq Symbols' /\ fn \in 1 .. Len(funcs')
    BY <1>3, <1>8, <2>3
  <2>6. sym \in Symbols'
    BY <2>1, <2>5 DEF FuncSymbol, Symbols
  <2>7. NoSymbol \in Symbols' /\ \A i \in 1 .. MaxParams : VarSymbol(fn, i) \in Symbols'
    BY <2>5 DEF VarSymbol, Symbols, Cells
  <2>8. scopes \in Seq([Idents -> Symbols'])
    BY <1>3, <2>5, ScopesKeep
  <2> HIDE DEF sym
  <2>9. outer \in Seq([Idents -> Symbols'])
    BY <1>3, <2>1, <2>6, <2>8, SymbolTyped
  <2>10. ParamScope(fn, ps) \in [Idents -> Symbols']
    BY <1>3, <2>1, <2>7, ParamTyped
  <2> HIDE DEF outer, fn
  <2>11. inner \in Seq([Idents -> Symbols'])
    BY <2>9, <2>10
  <2>12. scopes' \in Seq([Idents -> Symbols'])
    BY <1>10, <2>9, <2>11
  <2> QED
    BY <1>5, <1>6, <1>7, <2>4, <2>12 DEF Typed
<1>11. \/ UNCHANGED <<scopes, funcs>>
       \/ /\ n # NoIdent /\ funcs' = Append(funcs, entry)
          /\ scopes' = IF body.val = NoVal THEN inner ELSE outer
  BY DEF _visit_func_def
<1> QED
  BY <1>9, <1>10, <1>11

LEMMA BeginMainTyped == ASSUME VisitorInv, Ranged, Typed, BeginMain PROVE Typed'
<1>1. /\ phase = "funcs" /\ phase' = "decls" /\ blocks' = <<<<>>>> /\ scopes' = Append(scopes, NewScope)
      /\ UNCHANGED <<src, funcs, errors>>
  BY DEF BeginMain
<1>2. /\ SrcOk /\ scopes \in Seq([Idents -> Symbols]) /\ blocks = <<>> /\ IsSeq(funcs)
  BY <1>1 DEF Typed, Ranged, VisitorInv, Shaped
<1>3. SrcOk'
  BY <1>1, <1>2 DEF SrcOk
<1>4. Symbols \subseteq Symbols'
  <2>1. Cur = 0 /\ DOMAIN blocks = 1 .. Cur /\ Cur' = 1 /\ DOMAIN blocks' = 1 .. Cur'
    BY <1>1, <1>2 DEF Cur
  <2>2. Len(funcs) \in Nat /\ Len(src.decls) \in Nat /\ DOMAIN src.decls = 1 .. Len(src.decls)
    BY <1>2, SrcFacts, SeqFacts
  <2>3. More
    BY <1>1, <2>1, <2>2 DEF More
  <2> QED
    BY <2>3, SymbolsGrow
<1>5. scopes \in Seq([Idents -> Symbols'])
  BY <1>2, <1>4, ScopesKeep
<1>6. NewScope \in [Idents -> Symbols']
  BY DEF NewScope, Symbols
<1>7. scopes' \in Seq([Idents -> Symbols'])
  BY <1>1, <1>5, <1>6
<1> QED
  BY <1>1, <1>3, <1>7 DEF Typed, StmtsTyped, FuncsTyped, ErrorsTyped

LEMMA VarDeclTyped ==
    ASSUME VisitorInv, Ranged, Typed, NEW n \in Idents \cup {NoIdent}, _visit_var_decl(n)
    PROVE  Typed'
<1> DEFINE ix   == Len(src.decls) + 1
           inst == Alloca([fn |-> 0, ix |-> ix])
<1>1. /\ phase = "decls" /\ phase' = phase /\ UNCHANGED funcs
      /\ src' = [src EXCEPT !.decls = Append(@, n)]
  BY DEF _visit_var_decl
<1>2. /\ SrcOk /\ StmtsTyped /\ FuncsTyped /\ ErrorsTyped /\ scopes \in Seq([Idents -> Symbols])
      /\ scopes # <<>> /\ Len(funcs) \in Nat /\ AreSeqs(blocks) /\ blocks # <<>> /\ Cur = 1
      /\ src.stmts = <<>>
  BY <1>1, SeqFacts DEF Typed, Ranged, VisitorInv, Scoped, AreScopes, Shaped, SrcOk
<1>3. src' = [funcs |-> src.funcs, decls |-> Append(src.decls, n), stmts |-> src.stmts]
  BY <1>1, <1>2 DEF SrcOk
<1>4. /\ src'.funcs = src.funcs /\ src'.decls = Append(src.decls, n) /\ src'.stmts = src.stmts
  BY <1>3
<1>5. src.decls \in Seq(Ident) /\ n \in Ident
  BY <1>2 DEF SrcOk, Ident
<1>6. /\ src'.decls \in Seq(Ident) /\ Len(src'.decls) = ix /\ DOMAIN src'.decls = 1 .. ix
      /\ Len(src.decls) \in Nat /\ DOMAIN src.decls = 1 .. Len(src.decls)
  BY <1>4, <1>5
<1>7. SrcOk'
  <2>1. src' = [funcs |-> src'.funcs, decls |-> src'.decls, stmts |-> src'.stmts]
    BY <1>3
  <2> QED
    BY <1>1, <1>2, <1>4, <1>6, <2>1 DEF SrcOk
<1>8. StmtsTyped' /\ FuncsTyped'
  BY <1>1, <1>2, <1>4 DEF StmtsTyped, FuncsTyped
<1>9. ErrorsTyped'
  <2>1. errors' = errors \/ \E kinds : errors' = Report(DeclPlace, kinds)
    BY DEF _visit_var_decl
  <2>2. DeclPlace[1] = "var" /\ DeclPlace[2] \in Nat
    BY <1>6 DEF DeclPlace
  <2>3. CASE errors' = errors
    BY <1>2, <2>3 DEF ErrorsTyped
  <2> QED
    BY <1>2, <2>1, <2>2, <2>3, ReportTyped
<1>10. /\ \/ UNCHANGED <<scopes, blocks>>
          \/ /\ n # NoIdent /\ scopes' = add_symbol(scopes, n, VarSymbol(0, ix))
             /\ blocks' = [blocks EXCEPT ![1] = Append(@, inst)]
  BY DEF _visit_var_decl
<1> HIDE DEF inst
<1>11. Cur' = 1 /\ DOMAIN blocks = 1 .. 1 /\ DOMAIN blocks' = 1 .. 1
  <2>1. DOMAIN blocks = 1 .. 1
    BY <1>2, BlocksIndexed DEF Cur
  <2>2. CASE blocks' = blocks
    BY <1>2, <2>1, <2>2 DEF Cur
  <2>3. CASE blocks' = [blocks EXCEPT ![1] = Append(@, inst)]
    <3>1. blocks' = Emit(inst)
      BY <1>2, <2>3 DEF Emit
    <3>2. Added(blocks', inst, Cur)
      BY <1>2, <3>1, EmitFacts
    <3> QED
      BY <1>2, <2>1, <3>2, BlocksIndexed DEF Added, Cur
  <2> QED
    BY <1>10, <2>2, <2>3
<1>12. Symbols \subseteq Symbols'
  <2>1. More
    BY <1>1, <1>2, <1>6, <1>11 DEF More
  <2> QED
    BY <2>1, SymbolsGrow
<1>13. scopes \in Seq([Idents -> Symbols'])
  BY <1>2, <1>12, ScopesKeep
<1>14. scopes' \in Seq([Idents -> Symbols'])
  <2>1. CASE scopes' = scopes
    BY <1>13, <2>1
  <2>2. CASE n # NoIdent /\ scopes' = add_symbol(scopes, n, VarSymbol(0, ix))
    <3>1. VarSymbol(0, ix) \in Symbols'
      BY <1>6 DEF VarSymbol, Symbols, Cells
    <3> HIDE DEF ix
    <3> QED
      BY <1>2, <1>13, <2>2, <3>1, SymbolTyped
  <2> QED
    BY <1>10, <2>1, <2>2
<1> QED
  BY <1>7, <1>8, <1>9, <1>14 DEF Typed

LEMMA FinishTyped == ASSUME VisitorInv, Ranged, Typed, Finish PROVE Typed'
<1>1. /\ Visiting /\ phase' = "done" /\ scopes' = SubSeq(scopes, 1, Len(scopes) - 1)
      /\ blocks' = Emit(Return(Here)) /\ UNCHANGED <<src, funcs, errors>>
  BY DEF Finish, Visiting
<1>2. /\ SrcOk /\ scopes \in Seq([Idents -> Symbols]) /\ scopes # <<>> /\ Len(funcs) \in Nat
      /\ AreSeqs(blocks) /\ blocks # <<>>
  BY <1>1, SeqFacts DEF Typed, Ranged, VisitorInv, Scoped, AreScopes, Shaped, Visiting
<1>3. SrcOk'
  BY <1>1, <1>2 DEF SrcOk
<1>4. Cur \in Nat /\ Cur' = Cur /\ DOMAIN blocks = 1 .. Cur /\ DOMAIN blocks' = 1 .. Cur
  <2>1. PICK inst : inst = Return(Here)
    OBVIOUS
  <2>2. Added(blocks', inst, Cur)
    BY <1>1, <1>2, <2>1, EmitFacts
  <2> QED
    BY <1>2, <2>2, BlocksIndexed DEF Added, Cur
<1>5. Symbols \subseteq Symbols'
  <2>1. Len(src.decls) \in Nat /\ DOMAIN src.decls = 1 .. Len(src.decls)
    BY <1>2, SrcFacts
  <2>2. More
    BY <1>1, <1>2, <1>4, <2>1 DEF More
  <2> QED
    BY <2>2, SymbolsGrow
<1>6. scopes \in Seq([Idents -> Symbols'])
  BY <1>2, <1>5, ScopesKeep
<1>7. scopes' \in Seq([Idents -> Symbols'])
  BY <1>1, <1>2, <1>6
<1> QED
  BY <1>1, <1>3, <1>7 DEF Typed, StmtsTyped, FuncsTyped, ErrorsTyped

LEMMA TypedInit == Init => Typed
<1> SUFFICES ASSUME Init PROVE Typed
  OBVIOUS
<1>1. /\ src = [funcs |-> <<>>, decls |-> <<>>, stmts |-> <<>>] /\ scopes = <<NewScope>>
      /\ funcs = <<>> /\ errors = {}
  BY DEF Init, EmptyProgram
<1>2. src.funcs = <<>> /\ src.decls = <<>> /\ src.stmts = <<>>
  BY <1>1
<1>3. SrcOk
  BY <1>1, <1>2, EmptyFacts DEF SrcOk
<1>4. NewScope \in [Idents -> Symbols]
  BY DEF NewScope, Symbols
<1> QED
  BY <1>1, <1>2, <1>3, <1>4 DEF Typed, StmtsTyped, FuncsTyped, ErrorsTyped

LEMMA TypedStep == ASSUME VisitorInv, Ranged, Typed, [VisitorNext]_visitorVars PROVE Typed'
<1>1. VisitorInv'
  BY VisitorStep DEF Fine
<1>2. CASE \E n \in Idents \cup {NoIdent}, ps \in ParamLists, e \in Exps : _visit_func_def(n, ps, e)
  BY <1>2, FuncDefTyped
<1>3. CASE \E n \in Idents \cup {NoIdent} : _visit_var_decl(n)
  BY <1>3, VarDeclTyped
<1>4. CASE Stmt
  BY <1>1, <1>4, StmtsTypes
<1>5. CASE Stopped \/ UNCHANGED visitorVars
  <2>1. UNCHANGED visitorVars
    BY <1>5 DEF Stopped
  <2> QED
    BY <2>1 DEF visitorVars, Typed, SrcOk, StmtsTyped, FuncsTyped, ErrorsTyped, Symbols, Cells
<1> QED
  BY <1>2, <1>3, <1>4, <1>5, BeginMainTyped, FinishTyped DEF VisitorNext

\* In every state of the visit, whatever faults and questionable things the
\* program has, each variable of the visitor has its type, and every symbol,
\* instruction and operand refers to a block, function or alloca that exists.
THEOREM TypesCorrect == Spec => []TypeOK
<1>1. VisitorInv /\ Ranged /\ Typed => TypeOK
  <2> SUFFICES ASSUME VisitorInv, Ranged, Typed PROVE TypeOK
    OBVIOUS
  <2>1. Here \in Nat /\ Here = Len(src.stmts) + 1
    BY SrcFacts DEF Typed, Here
  <2>2. DOMAIN blocks = 1 .. Len(blocks)
    BY BlocksIndexed DEF VisitorInv, Shaped
  <2>3. \A b \in DOMAIN blocks : \A k \in DOMAIN blocks[b] : Aimed(blocks[b][k], Cur)
    BY DEF Ranged, Aims, AllAimed
  <2>4. \A b \in DOMAIN blocks : \A k \in DOMAIN blocks[b] :
           /\ blocks[b][k].stmt \in 0 .. Len(src.stmts) + 1
           /\ blocks[b][k].op \in Jumps => /\ blocks[b][k].target \in 0 .. Len(blocks)
                                           /\ blocks[b][k].uses \in Seq(DOMAIN blocks)
    BY <2>1, <2>2, <2>3 DEF Aimed, Cur
  <2>5. phase \in {"funcs", "decls", "stmts", "done", "crashed"}
    BY DEF VisitorInv, Shaped
  <2>6. /\ src.funcs \in Seq([n : Ident, params : Seq(Ident), e : Exps])
        /\ src.decls \in Seq(Ident)
        /\ scopes \in Seq([Idents -> Symbols])
        /\ StmtsTyped /\ FuncsTyped /\ ErrorsTyped
    BY DEF Typed, SrcOk, AFunc
  <2> QED
    BY <2>4, <2>5, <2>6 DEF TypeOK, StmtsTyped, FuncsTyped, ErrorsTyped
<1>2. VisitorInv /\ Ranged /\ Typed /\ [VisitorNext]_visitorVars => Typed'
  BY TypedStep
<1> QED
  BY <1>1, <1>2, TypedInit, VisitorCorrect, RangedCorrect, PTL DEF Spec
=============================================================================
