------------------------------- MODULE PassSteps -------------------------------
(***************************************************************************)
(* What each step of the pass does to the code, the lanes and the layout,  *)
(* block by block, while the invariant of the pass holds.  The proofs      *)
(* about the result of the pass start from these lemmas.                   *)
(***************************************************************************)
EXTENDS BranchConversionProofs

(***************************************************************************)
(* Sequences changed at one place and extended.                            *)
(***************************************************************************)
LEMMA ChangeFacts ==
  ASSUME NEW S, NEW s \in Seq(S), NEW k \in 1 .. Len(s), NEW x \in S
  PROVE  /\ [s EXCEPT ![k] = x] \in Seq(S) /\ Len([s EXCEPT ![k] = x]) = Len(s)
         /\ \A i \in 1 .. Len(s) : [s EXCEPT ![k] = x][i] = IF i = k THEN x ELSE s[i]
OBVIOUS

LEMMA ExtendFacts ==
  ASSUME NEW S, NEW s \in Seq(S), NEW x \in S
  PROVE  /\ Append(s, x) \in Seq(S) /\ Len(Append(s, x)) = Len(s) + 1 /\ Len(s) \in Nat
         /\ \A i \in 1 .. Len(s) : Append(s, x)[i] = s[i]
         /\ Append(s, x)[Len(s) + 1] = x
OBVIOUS

LEMMA ChangeExtendFacts ==
  ASSUME NEW S, NEW s \in Seq(S), NEW k \in 1 .. Len(s), NEW x \in S, NEW y \in S,
         NEW t, t = Append([s EXCEPT ![k] = x], y)
  PROVE  /\ t \in Seq(S) /\ Len(t) = Len(s) + 1 /\ Len(s) \in Nat
         /\ \A i \in 1 .. Len(s) : t[i] = IF i = k THEN x ELSE s[i]
         /\ t[Len(s) + 1] = y
<1> DEFINE u == [s EXCEPT ![k] = x]
<1>1. /\ u \in Seq(S) /\ Len(u) = Len(s) /\ Len(s) \in Nat
      /\ \A i \in 1 .. Len(s) : u[i] = IF i = k THEN x ELSE s[i]
  BY ChangeFacts
<1>2. t = Append(u, y)
  OBVIOUS
<1> HIDE DEF u
<1> QED
  BY <1>1, <1>2, ExtendFacts

LEMMA ConcatFacts ==
  ASSUME NEW S, NEW s \in Seq(S), NEW v \in Seq(S)
  PROVE  /\ s \o v \in Seq(S) /\ Len(s \o v) = Len(s) + Len(v) /\ Len(s) \in Nat /\ Len(v) \in Nat
         /\ \A i \in 1 .. Len(s) + Len(v) : (s \o v)[i] = IF i <= Len(s) THEN s[i] ELSE v[i - Len(s)]
OBVIOUS

LEMMA ExtendTwoFacts ==
  ASSUME NEW S, NEW s \in Seq(S), NEW y \in S, NEW z \in S, NEW t, t = s \o <<y, z>>
  PROVE  /\ t \in Seq(S) /\ Len(t) = Len(s) + 2 /\ Len(s) \in Nat
         /\ \A i \in 1 .. Len(s) : t[i] = s[i]
         /\ t[Len(s) + 1] = y /\ t[Len(s) + 2] = z
<1> DEFINE v == <<y, z>>
<1>1. v \in Seq(S) /\ Len(v) = 2 /\ v[1] = y /\ v[2] = z /\ Len(s) \in Nat
  OBVIOUS
<1>2. t = s \o v
  OBVIOUS
<1> HIDE DEF v
<1>3. t \in Seq(S) /\ Len(t) = Len(s) + Len(v)
  BY <1>1, <1>2
<1>4. \A i \in 1 .. Len(t) : t[i] = IF i <= Len(s) THEN s[i] ELSE v[i - Len(s)]
  BY <1>1, <1>2, <1>3
<1> QED
  BY <1>1, <1>3, <1>4

LEMMA FrontFacts ==
  ASSUME NEW S, NEW s \in Seq(S), s # <<>>
  PROVE  /\ Len(s) \in Nat /\ Len(s) >= 1 /\ Last(s) = s[Len(s)] /\ Last(s) \in S
         /\ Front(s) \in Seq(S) /\ Len(Front(s)) = Len(s) - 1
         /\ \A i \in 1 .. Len(s) - 1 : Front(s)[i] = s[i]
<1>1. Len(s) \in Nat /\ Len(s) >= 1 /\ s[Len(s)] \in S /\ Last(s) = s[Len(s)]
  BY DEF Last
<1> DEFINE t == SubSeq(s, 1, Len(s) - 1)
<1>2. t = [i \in 1 .. Len(s) - 1 |-> s[i]]
  BY <1>1
<1>3. t \in Seq(S) /\ Len(t) = Len(s) - 1 /\ \A i \in 1 .. Len(s) - 1 : t[i] = s[i]
  <2> HIDE DEF t
  <2>1. t \in [1 .. Len(s) - 1 -> S] /\ Len(s) - 1 \in Nat
    BY <1>1, <1>2
  <2> QED
    BY <1>2, <2>1
<1> QED
  BY <1>1, <1>3 DEF Front

-----------------------------------------------------------------------------
\* The state of the pass over a supported function, as far as it is proved.
Good == TypeOK /\ Supported(fn) /\ PassInvariant

LEMMA GoodFacts ==
  ASSUME Good
  PROVE  /\ N \in Nat /\ N >= 1 /\ Len(code) \in Nat /\ N <= Len(code) /\ Blocks = 1 .. Len(code)
         /\ code \in Seq(Seq(Instr)) /\ \A b \in 1 .. Len(code) : code[b] \in Seq(Instr)
         /\ before \in Seq(Blocks) /\ after \in Seq(Blocks)
         /\ lanes \in Seq(Lane) /\ pending \in Seq(Lane) /\ Len(lanes) \in Nat /\ Len(pending) \in Nat
         /\ DOMAIN lanes = 1 .. Len(lanes) /\ DOMAIN pending = 1 .. Len(pending)
         /\ \A i \in 1 .. Len(lanes) : lanes[i] \in Lane /\ lanes[i].current \in 0 .. Len(code)
         /\ \A i \in 1 .. Len(pending) : pending[i] \in Lane /\ pending[i].current \in 0 .. Len(code)
<1>1. CodeOK(code, succ) /\ LanesOK(lanes, Len(code)) /\ LanesOK(pending, Len(code))
  BY DEF Good, TypeOK
<1>2. /\ Len(code) \in Nat /\ N <= Len(code) /\ code \in Seq(Seq(Instr))
      /\ \A b \in 1 .. Len(code) : code[b] \in Seq(Instr)
  BY <1>1, CodeAt DEF CodeOK
<1>3. /\ lanes \in Seq(Lane) /\ Len(lanes) \in Nat /\ DOMAIN lanes = 1 .. Len(lanes)
      /\ \A i \in 1 .. Len(lanes) : lanes[i] \in Lane /\ lanes[i].current \in 0 .. Len(code)
  BY <1>1 DEF LanesOK
<1>4. /\ pending \in Seq(Lane) /\ Len(pending) \in Nat /\ DOMAIN pending = 1 .. Len(pending)
      /\ \A i \in 1 .. Len(pending) : pending[i] \in Lane /\ pending[i].current \in 0 .. Len(code)
  BY <1>1 DEF LanesOK
<1> QED
  BY <1>2, <1>3, <1>4, NAssumption DEF Good, TypeOK, Blocks

LEMMA NextBlockEffect ==
  ASSUME Good, NextBlock
  PROVE  /\ pc = "block" /\ pc' = "lanes" /\ after # <<>>
         /\ mbb' = Head(after) /\ after' = Tail(after) /\ fn' = fn
         /\ originalFallThrough' = GetFallThrough(Head(after), Tail(after))
         /\ pending' = lanes /\ lanes' = <<>> /\ takenLane' = Null
         /\ \A b \in 1 .. Len(code) : code'[b] = code[b]
         /\ \/ /\ Len(code') = Len(code) + 1 /\ code'[Len(code) + 1] = <<JmpTarget>>
               /\ fakeBlock' = Len(code) + 1 /\ before' = before \o <<Head(after), Len(code) + 1>>
            \/ /\ Len(code') = Len(code)
               /\ fakeBlock' = Null /\ before' = Append(before, Head(after))
<1>1. code \in Seq(Seq(Instr)) /\ <<JmpTarget>> \in Seq(Instr)
  BY GoodFacts, InstrType
<1>2. CASE NeedsFakeBlock(Head(after), Tail(after))
  <2>1. /\ fakeBlock' = Len(code) + 1 /\ before' = before \o <<Head(after), Len(code) + 1>>
        /\ code' = Append(code, <<JmpTarget>>)
    BY <1>2 DEF NextBlock
  <2> QED
    BY <1>1, <2>1, ExtendFacts DEF NextBlock
<1>3. CASE ~NeedsFakeBlock(Head(after), Tail(after))
  BY <1>3 DEF NextBlock
<1> QED
  BY <1>2, <1>3

LEMMA ArrivesEffect ==
  ASSUME Good, LaneArrives
  PROVE  /\ pc = "lanes" /\ pc' = "lanes" /\ pending # <<>> /\ Arrives(lane)
         /\ UNCHANGED <<fn, before, after, mbb, fakeBlock, originalFallThrough>>
         /\ Len(code') = Len(code)
         /\ \A b \in 1 .. Len(code) :
              code'[b] = IF b = lane.current THEN Append(code[b], Jmp(mbb)) ELSE code[b]
         /\ pending' = Tail(pending)
         /\ IF takenLane = Null THEN takenLane' = Len(lanes) + 1 /\ lanes' = Append(lanes, lane)
            ELSE UNCHANGED <<lanes, takenLane>>
<1>1. /\ pc = "lanes" /\ pending # <<>> /\ Arrives(lane)
      /\ UNCHANGED <<fn, before, after, mbb, fakeBlock, originalFallThrough, pc>>
      /\ pending' = Tail(pending)
      /\ IF takenLane = Null THEN takenLane' = Len(lanes) + 1 /\ lanes' = Append(lanes, lane)
         ELSE UNCHANGED <<lanes, takenLane>>
  BY DEF LaneArrives, listVars, blockVars
<1>2. /\ lane.current \in 0 .. Len(code) /\ mbb \in 1 .. Len(code)
      /\ code \in Seq(Seq(Instr)) /\ \A b \in 1 .. Len(code) : code[b] \in Seq(Instr)
  BY <1>1, LaneFacts, GoodFacts DEF Good
<1>3. CASE lane.current # Null
  <2>1. code' = [code EXCEPT ![lane.current] = Append(code[lane.current], Jmp(mbb))]
    BY <1>3 DEF LaneArrives
  <2>2. lane.current \in 1 .. Len(code) /\ Append(code[lane.current], Jmp(mbb)) \in Seq(Instr)
    BY <1>2, <1>3, InstrType DEF Null
  <2> QED
    BY <1>1, <1>2, <2>1, <2>2, ChangeFacts
<1>4. CASE lane.current = Null
  BY <1>1, <1>4 DEF LaneArrives, Null
<1> QED
  BY <1>3, <1>4

LEMMA SkipsEffect ==
  ASSUME Good, LaneSkips
  PROVE  /\ pc = "lanes" /\ pc' = "lanes" /\ pending # <<>> /\ ~Arrives(lane)
         /\ lane.current # Null /\ fakeBlock # Null
         /\ UNCHANGED <<fn, after, mbb, fakeBlock, originalFallThrough, takenLane>>
         /\ Len(code') = Len(code) + 1 /\ code'[Len(code) + 1] = <<>>
         /\ \A b \in 1 .. Len(code) :
              code'[b] = IF b = lane.current
                         THEN code[b] \o Dummies \o <<Lea(Len(code) + 1), Jmp(fakeBlock)>> ELSE code[b]
         /\ before' = <<Len(code) + 1>> \o before
         /\ pending' = Tail(pending)
         /\ lanes' = Append(lanes, [lane EXCEPT !.current = Len(code) + 1])
<1> DEFINE is == code[lane.current] \o Dummies \o <<Lea(Len(code) + 1), Jmp(fakeBlock)>>
<1>1. /\ pc = "lanes" /\ pending # <<>> /\ ~Arrives(lane) /\ lane.current # Null /\ fakeBlock # Null
      /\ UNCHANGED <<fn, after, mbb, fakeBlock, originalFallThrough, takenLane, pc>>
      /\ before' = <<Len(code) + 1>> \o before
      /\ pending' = Tail(pending)
      /\ lanes' = Append(lanes, [lane EXCEPT !.current = Len(code) + 1])
      /\ code' = Append([code EXCEPT ![lane.current] = is], <<>>)
  BY DEF LaneSkips, blockVars
<1>2. /\ lane.current \in 1 .. Len(code) /\ mbb \in 1 .. Len(code) /\ Len(code) \in Nat
      /\ code \in Seq(Seq(Instr)) /\ \A b \in 1 .. Len(code) : code[b] \in Seq(Instr)
  BY <1>1, LaneFacts, GoodFacts DEF Good, Null
<1>3. is \in Seq(Instr)
  <2>1. Dummies \in Seq(Instr)
    BY <1>2, InstrType DEF Dummies
  <2>2. <<Lea(Len(code) + 1), Jmp(fakeBlock)>> \in Seq(Instr)
    BY <1>2, InstrType DEF Good, TypeOK
  <2> QED
    BY <1>2, <2>1, <2>2
<1>4. <<>> \in Seq(Instr)
  OBVIOUS
<1>5. /\ Len(code') = Len(code) + 1 /\ code'[Len(code) + 1] = <<>>
      /\ \A b \in 1 .. Len(code) : code'[b] = IF b = lane.current THEN is ELSE code[b]
  <2> HIDE DEF is
  <2> QED
    BY <1>1, <1>2, <1>3, <1>4, ChangeExtendFacts
<1> QED
  BY <1>1, <1>5

LEMMA LanesDoneEffect ==
  ASSUME Good, LanesDone
  PROVE  /\ pc = "lanes" /\ pc' = "term" /\ pending = <<>>
         /\ UNCHANGED <<fn, before, after, code, pending, mbb, fakeBlock, originalFallThrough>>
         /\ IF takenLane = Null THEN takenLane' = Len(lanes) + 1 /\ lanes' = Append(lanes, EmptyLane)
            ELSE UNCHANGED <<lanes, takenLane>>
BY DEF LanesDone, listVars, blockVars

LEMMA SplitEffect ==
  ASSUME Good, SplitJump
  PROVE  /\ pc = "term" /\ pc' = "term" /\ IsUnconditionalBranch(last)
         /\ Len(code[mbb]) > 1 /\ IsConditionalBranch(code[mbb][Len(code[mbb]) - 1])
         /\ UNCHANGED <<fn, before, lanes, pending, takenLane, mbb, fakeBlock, originalFallThrough>>
         /\ Len(code') = Len(code) + 1 /\ code'[Len(code) + 1] = <<last>>
         /\ \A b \in 1 .. Len(code) : code'[b] = IF b = mbb THEN Front(code[mbb]) ELSE code[b]
         /\ after' = <<Len(code) + 1>> \o after
<1>1. /\ pc = "term" /\ IsUnconditionalBranch(last)
      /\ Len(code[mbb]) > 1 /\ IsConditionalBranch(code[mbb][Len(code[mbb]) - 1])
      /\ UNCHANGED <<fn, before, lanes, pending, takenLane, mbb, fakeBlock, originalFallThrough, pc>>
      /\ code' = Append([code EXCEPT ![mbb] = Front(code[mbb])], <<last>>)
      /\ after' = <<Len(code) + 1>> \o after
  BY DEF SplitJump, laneVars, blockVars
<1>2. mbb \in 1 .. Len(code) /\ code \in Seq(Seq(Instr)) /\ code[mbb] # <<>> /\ code[mbb] \in Seq(Instr)
  BY <1>1, AtTerm DEF Good
<1>3. Front(code[mbb]) \in Seq(Instr) /\ <<last>> \in Seq(Instr)
  BY <1>2, FrontFacts DEF last
<1> QED
  BY <1>1, <1>2, <1>3, ChangeExtendFacts

\* What is common to the steps that replace the end of MBB.
TermUnchanged == UNCHANGED <<fn, after, processed, pending, takenLane, mbb, fakeBlock, originalFallThrough>>

LEMMA UnconditionalEffect ==
  ASSUME Good, ReplaceUnconditionalJump
  PROVE  /\ pc = "term" /\ pc' = "block" /\ TermUnchanged /\ IsUnconditionalBranch(last)
         /\ ~(Len(code[mbb]) > 1 /\ IsConditionalBranch(code[mbb][Len(code[mbb]) - 1]))
         /\ Len(code') = Len(code) + 1
         /\ before' = <<Len(code) + 1>> \o before
         /\ \A b \in 1 .. Len(code) :
              code'[b] = IF b = mbb THEN Append(Front(code[mbb]), Lea(Len(code) + 1)) ELSE code[b]
         /\ \E dst \in last.to :
              IF dst \in processed
              THEN code'[Len(code) + 1] = <<Jmp(dst)>> /\ lanes' = UpdateLane(DeadLane)
              ELSE /\ code'[Len(code) + 1] = <<>>
                   /\ lanes' = UpdateLane([current |-> Len(code) + 1, dest |-> dst, taken |-> FALSE])
<1>1. /\ pc = "term" /\ pc' = "block" /\ TermUnchanged /\ IsUnconditionalBranch(last)
      /\ ~(Len(code[mbb]) > 1 /\ IsConditionalBranch(code[mbb][Len(code[mbb]) - 1]))
  BY DEF ReplaceUnconditionalJump, TermUnchanged, blockVars
<1>2. PICK dst \in last.to :
        /\ before' = <<Len(code) + 1>> \o before
        /\ code' = Append([code EXCEPT ![mbb] = Append(Front(code[mbb]), Lea(Len(code) + 1))],
                          IF dst \in processed THEN <<Jmp(dst)>> ELSE <<>>)
        /\ lanes' = UpdateLane(IF dst \in processed THEN DeadLane
                               ELSE [current |-> Len(code) + 1, dest |-> dst, taken |-> FALSE])
  BY DEF ReplaceUnconditionalJump
<1>3. /\ mbb \in 1 .. Len(code) /\ code \in Seq(Seq(Instr)) /\ code[mbb] # <<>> /\ code[mbb] \in Seq(Instr)
      /\ last \in Instr /\ Len(code) \in Nat
  BY <1>1, AtTerm DEF Good, SourceInstr
<1>4. Append(Front(code[mbb]), Lea(Len(code) + 1)) \in Seq(Instr)
  <2>1. Lea(Len(code) + 1) \in Instr
    BY <1>3, InstrType
  <2>2. Front(code[mbb]) \in Seq(Instr)
    BY <1>3, FrontFacts
  <2> QED
    BY <2>1, <2>2
<1>5. (IF dst \in processed THEN <<Jmp(dst)>> ELSE <<>>) \in Seq(Instr)
  <2>1. dst \in Nat
    BY <1>3 DEF Instr
  <2>2. <<Jmp(dst)>> \in Seq(Instr) /\ <<>> \in Seq(Instr)
    BY <2>1, InstrType
  <2> QED
    BY <2>2
<1>6. /\ Len(code') = Len(code) + 1
      /\ \A b \in 1 .. Len(code) :
           code'[b] = IF b = mbb THEN Append(Front(code[mbb]), Lea(Len(code) + 1)) ELSE code[b]
      /\ code'[Len(code) + 1] = IF dst \in processed THEN <<Jmp(dst)>> ELSE <<>>
  BY <1>2, <1>3, <1>4, <1>5, ChangeExtendFacts
<1> QED
  BY <1>1, <1>2, <1>6

LEMMA ConditionalEffect ==
  ASSUME Good, ReplaceConditionalBranch
  PROVE  /\ pc = "term" /\ pc' = "block" /\ TermUnchanged /\ IsConditionalBranch(last)
         /\ Len(code') = Len(code) + 2
         /\ before' = <<Len(code) + 2, Len(code) + 1>> \o before
         /\ \A b \in 1 .. Len(code) :
              code'[b] = IF b = mbb
                         THEN Front(code[mbb]) \o <<Lea(Len(code) + 1), LeaTmp(Len(code) + 2), CMov(last.cc)>>
                         ELSE code[b]
         /\ code'[Len(code) + 1] = <<>>
         /\ \E dst \in last.to :
              LET fallLane == [current |-> Len(code) + 1, dest |-> Null, taken |-> TRUE]
                  jumpLane == [current |-> Len(code) + 2, dest |-> dst, taken |-> FALSE]
              IN IF dst \in processed
                 THEN code'[Len(code) + 2] = <<Jmp(dst)>> /\ lanes' = UpdateLane(fallLane)
                 ELSE code'[Len(code) + 2] = <<>> /\ lanes' = Append(UpdateLane(fallLane), jumpLane)
<1> DEFINE is == Front(code[mbb]) \o <<Lea(Len(code) + 1), LeaTmp(Len(code) + 2), CMov(last.cc)>>
           fallLane == [current |-> Len(code) + 1, dest |-> Null, taken |-> TRUE]
<1>1. pc = "term" /\ pc' = "block" /\ TermUnchanged /\ IsConditionalBranch(last)
  BY DEF ReplaceConditionalBranch, TermUnchanged, blockVars
<1>3. /\ mbb \in 1 .. Len(code) /\ code \in Seq(Seq(Instr)) /\ code[mbb] # <<>> /\ code[mbb] \in Seq(Instr)
      /\ last \in Instr /\ Len(code) \in Nat
  BY <1>1, AtTerm DEF Good, SourceInstr
<1>2. PICK dst \in last.to :
        /\ before' = <<Len(code) + 2, Len(code) + 1>> \o before
        /\ code' = [code EXCEPT ![mbb] = is] \o << <<>>, IF dst \in processed THEN <<Jmp(dst)>> ELSE <<>> >>
        /\ lanes' = IF dst \in processed THEN UpdateLane(fallLane)
                    ELSE Append(UpdateLane(fallLane), [current |-> Len(code) + 2, dest |-> dst, taken |-> FALSE])
  <2>1. Len(code) + 1 + 1 = Len(code) + 2
    BY <1>3
  <2> QED
    BY <2>1 DEF ReplaceConditionalBranch
<1>4. is \in Seq(Instr)
  <2>1. <<Lea(Len(code) + 1), LeaTmp(Len(code) + 2), CMov(last.cc)>> \in Seq(Instr)
    BY <1>3, InstrType DEF Instr
  <2>2. Front(code[mbb]) \in Seq(Instr)
    BY <1>3, FrontFacts
  <2> QED
    BY <2>1, <2>2
<1> DEFINE js == IF dst \in processed THEN <<Jmp(dst)>> ELSE <<>>
<1>5. js \in Seq(Instr) /\ <<>> \in Seq(Instr)
  <2>1. dst \in Nat
    BY <1>3 DEF Instr
  <2>2. <<Jmp(dst)>> \in Seq(Instr) /\ <<>> \in Seq(Instr)
    BY <2>1, InstrType
  <2> QED
    BY <2>2
<1>6. /\ Len(code') = Len(code) + 2
      /\ \A b \in 1 .. Len(code) : code'[b] = IF b = mbb THEN is ELSE code[b]
      /\ code'[Len(code) + 1] = <<>>
      /\ code'[Len(code) + 2] = js
  <2> DEFINE none == <<>>
  <2>1. code' = [code EXCEPT ![mbb] = is] \o <<none, js>> /\ none \in Seq(Instr)
    BY <1>2
  <2>2. none = <<>>
    OBVIOUS
  <2> HIDE DEF is, js, none
  <2> DEFINE c1 == [code EXCEPT ![mbb] = is]
  <2>3. /\ c1 \in Seq(Seq(Instr)) /\ Len(c1) = Len(code)
        /\ \A i \in 1 .. Len(code) : c1[i] = IF i = mbb THEN is ELSE code[i]
    BY <1>3, <1>4, ChangeFacts
  <2>4. code' = c1 \o <<none, js>>
    BY <2>1
  <2> HIDE DEF c1
  <2>5. /\ Len(code') = Len(code) + 2
        /\ \A i \in 1 .. Len(code) : code'[i] = c1[i]
        /\ code'[Len(code) + 1] = none /\ code'[Len(code) + 2] = js
    BY <2>1, <2>3, <2>4, <1>5, ExtendTwoFacts
  <2> QED
    BY <2>2, <2>3, <2>5
<1> QED
  BY <1>1, <1>2, <1>6

LEMMA NoBranchEffect ==
  ASSUME Good, ReplaceNoBranchBlock
  PROVE  /\ pc = "term" /\ pc' = "block" /\ TermUnchanged
         /\ last.op \in {"body", "keep", "ret", "call"}
         /\ IF originalFallThrough # Null
            THEN /\ Len(code') = Len(code) + 1 /\ code'[Len(code) + 1] = <<>>
                 /\ before' = <<Len(code) + 1>> \o before
                 /\ \A b \in 1 .. Len(code) :
                      code'[b] = IF b = mbb THEN Append(code[mbb], Lea(Len(code) + 1)) ELSE code[b]
                 /\ lanes' = UpdateLane([current |-> Len(code) + 1, dest |-> Null, taken |-> TRUE])
            ELSE UNCHANGED <<before, code>> /\ lanes' = UpdateLane(DeadLane)
<1>1. pc = "term" /\ pc' = "block" /\ TermUnchanged /\ NotABranch
  BY DEF ReplaceNoBranchBlock, NotABranch, TermUnchanged, blockVars
<1>2. /\ mbb \in 1 .. Len(code) /\ code \in Seq(Seq(Instr)) /\ code[mbb] \in Seq(Instr)
      /\ SourceInstr(last) /\ Len(code) \in Nat
  BY <1>1, AtTerm DEF Good
<1>3. last.op \in {"body", "keep", "ret", "call"}
  <2>1. last.op \in SourceOps /\ last.op # "stop"
    BY <1>1, <1>2 DEF SourceInstr, Good, PassInvariant, AtBlock, Visiting, last
  <2> QED
    BY <1>1, <2>1 DEF NotABranch, IsUnconditionalBranch, IsIndirectBranch, IsConditionalBranch, SourceOps
<1>4. CASE originalFallThrough # Null
  <2>1. /\ before' = <<Len(code) + 1>> \o before
        /\ code' = Append([code EXCEPT ![mbb] = Append(code[mbb], Lea(Len(code) + 1))], <<>>)
        /\ lanes' = UpdateLane([current |-> Len(code) + 1, dest |-> Null, taken |-> TRUE])
    BY <1>4 DEF ReplaceNoBranchBlock
  <2>2. Append(code[mbb], Lea(Len(code) + 1)) \in Seq(Instr) /\ <<>> \in Seq(Instr)
    BY <1>2, InstrType
  <2> QED
    BY <1>1, <1>2, <1>3, <1>4, <2>1, <2>2, ChangeExtendFacts
<1>5. CASE originalFallThrough = Null
  BY <1>1, <1>3, <1>5 DEF ReplaceNoBranchBlock
<1> QED
  BY <1>4, <1>5

LEMMA IndirectEffect ==
  ASSUME Good, ReplaceIndirectJump
  PROVE  /\ pc = "term" /\ pc' = "block" /\ TermUnchanged /\ last.op = "ind"
         /\ UNCHANGED <<before, code>> /\ lanes' = UpdateLane(DeadLane)
<1>1. /\ pc = "term" /\ pc' = "block" /\ TermUnchanged /\ IsIndirectBranch(last)
      /\ UNCHANGED <<before, code>> /\ lanes' = UpdateLane(DeadLane)
  BY DEF ReplaceIndirectJump, TermUnchanged, listVars, blockVars
<1>2. SourceInstr(last)
  BY <1>1, AtTerm DEF Good
<1> QED
  BY <1>1, <1>2 DEF IsIndirectBranch, SourceInstr, SourceOps

LEMMA FinishEffect ==
  ASSUME Good, Finish
  PROVE  /\ pc = "block" /\ pc' = "done" /\ after = <<>>
         /\ UNCHANGED <<fn, after, lanes, pending, takenLane, mbb, fakeBlock, originalFallThrough>>
         /\ Len(code') = Len(code) + 1 /\ code'[Len(code) + 1] = <<Jmp(1)>>
         /\ \A b \in 1 .. Len(code) : code'[b] = code[b]
         /\ before' = <<Len(code) + 1>> \o before
<1>1. <<Jmp(1)>> \in Seq(Instr) /\ code \in Seq(Seq(Instr))
  BY GoodFacts, InstrType
<1> QED
  BY <1>1, ExtendFacts DEF Finish, laneVars, blockVars

\* The lane at hand leaves pending.
LEMMA PendingTail ==
  ASSUME Good, pending # <<>>, pending' = Tail(pending)
  PROVE  /\ lane = pending[1] /\ Len(pending) >= 1 /\ Len(pending') = Len(pending) - 1
         /\ DOMAIN pending' = 1 .. Len(pending) - 1
         /\ \A i \in 1 .. Len(pending) - 1 : pending'[i] = pending[i + 1]
<1>1. pending \in Seq(Lane)
  BY GoodFacts
<1>2. /\ Head(pending) = pending[1] /\ Len(pending) >= 1 /\ Tail(pending) \in Seq(Lane)
      /\ Len(Tail(pending)) = Len(pending) - 1
      /\ \A i \in 1 .. Len(pending) - 1 : Tail(pending)[i] = pending[i + 1]
  BY <1>1, TailFacts
<1> QED
  BY <1>2 DEF lane

\* A lane is added behind the others.
LEMMA LanesExtended ==
  ASSUME Good, NEW l \in Lane, lanes' = Append(lanes, l)
  PROVE  /\ Len(lanes') = Len(lanes) + 1 /\ DOMAIN lanes' = 1 .. Len(lanes) + 1
         /\ \A i \in 1 .. Len(lanes) : lanes'[i] = lanes[i]
         /\ lanes'[Len(lanes) + 1] = l
<1>1. lanes \in Seq(Lane)
  BY GoodFacts
<1>2. lanes' \in Seq(Lane)
  BY <1>1
<1> QED
  BY <1>1, <1>2, ExtendFacts

\* The lane that arrived is replaced.
LEMMA LaneReplaced ==
  ASSUME Good, pc = "term", NEW l \in Lane
  PROVE  /\ takenLane \in 1 .. Len(lanes)
         /\ UpdateLane(l) \in Seq(Lane) /\ Len(UpdateLane(l)) = Len(lanes)
         /\ DOMAIN UpdateLane(l) = 1 .. Len(lanes)
         /\ \A i \in 1 .. Len(lanes) : UpdateLane(l)[i] = IF i = takenLane THEN l ELSE lanes[i]
<1>1. lanes \in Seq(Lane) /\ takenLane \in 1 .. Len(lanes)
  BY AtTerm DEF Good
<1>2. /\ UpdateLane(l) \in Seq(Lane) /\ Len(UpdateLane(l)) = Len(lanes)
      /\ \A i \in 1 .. Len(lanes) : UpdateLane(l)[i] = IF i = takenLane THEN l ELSE lanes[i]
  BY <1>1, ChangeFacts DEF UpdateLane
<1> QED
  BY <1>1, <1>2

\* The steps a supported function can take; each keeps the function's
\* invariant.
LEMMA StepCases ==
  ASSUME Good, [Next]_vars
  PROVE  /\ Good'
         /\ \/ NextBlock \/ LaneArrives \/ LaneSkips \/ LaneDies \/ LanesDone
            \/ SplitJump \/ ReplaceUnconditionalJump \/ ReplaceConditionalBranch
            \/ ReplaceNoBranchBlock \/ ReplaceIndirectJump \/ Finish \/ UNCHANGED vars
<1>1. Good'
  <2>1. TypeOK' /\ PassInvariant' /\ fn' = fn
    BY TypeStep, PassStepInvariant, FunctionFixed DEF Good
  <2> QED
    BY <2>1 DEF Good, Supported
<1>2. ~LaneCannotSkip
  BY LaneAlwaysSkips DEF Good, SkipHasFakeBlock, LaneCannotSkip
<1>3. ~EmptyBlock /\ ~UnsupportedBranch /\ ~NoWayOut
  BY NotTakenAtTerm DEF Good
<1> QED
  BY <1>1, <1>2, <1>3 DEF Next, PassStep, LaneStep, TermStep, Stopped

LEMMA SizeFacts ==
  ASSUME Good
  PROVE  /\ N \in Nat /\ N >= 1 /\ Len(code) \in Nat /\ N <= Len(code)
         /\ Len(lanes) \in Nat /\ Len(pending) \in Nat
         /\ DOMAIN lanes = 1 .. Len(lanes) /\ DOMAIN pending = 1 .. Len(pending)
         /\ takenLane \in 0 .. Len(lanes)
BY GoodFacts DEF Good, TypeOK

LEMMA DummiesType ==
  ASSUME Good, pc = "lanes"
  PROVE  Dummies \in Seq(Instr) /\ \A i \in DOMAIN Dummies : Dummies[i] = Add8Zero
<1>1. mbb \in 1 .. Len(code)
  BY GoodFacts DEF Good, TypeOK, Null
<1>2. code[mbb] \in Seq(Instr)
  BY <1>1, GoodFacts
<1>3. Len(code[mbb]) \in Nat
  BY <1>2
<1>4. (IF Len(code[mbb]) > 2 THEN Len(code[mbb]) - 2 ELSE 0) \in Nat
  BY <1>3
<1> QED
  BY <1>4, InstrType DEF Dummies

(***************************************************************************)
(* The ways the end of a block is rewritten.                               *)
(***************************************************************************)
LEMMA AppendOne ==
  ASSUME NEW c \in Seq(Instr), NEW i \in Instr
  PROVE  /\ Append(c, i) \in Seq(Instr) /\ Len(Append(c, i)) = Len(c) + 1 /\ Len(c) \in Nat
         /\ Append(c, i) # <<>> /\ Last(Append(c, i)) = i
         /\ \A q \in 1 .. Len(c) : Append(c, i)[q] = c[q]
         /\ Append(c, i)[Len(c) + 1] = i
<1> DEFINE t == Append(c, i)
<1>1. /\ t \in Seq(Instr) /\ Len(t) = Len(c) + 1 /\ Len(c) \in Nat
      /\ \A q \in 1 .. Len(c) : t[q] = c[q]
      /\ t[Len(c) + 1] = i
  BY ExtendFacts
<1>2. t # <<>> /\ Last(t) = i
  <2> HIDE DEF t
  <2> QED
    BY <1>1 DEF Last
<1> QED
  BY <1>1, <1>2

LEMMA ReplaceLast ==
  ASSUME NEW c \in Seq(Instr), c # <<>>, NEW i \in Instr
  PROVE  /\ Append(Front(c), i) \in Seq(Instr) /\ Len(Append(Front(c), i)) = Len(c)
         /\ Len(c) \in Nat /\ Len(c) >= 1
         /\ Append(Front(c), i) # <<>> /\ Last(Append(Front(c), i)) = i
         /\ \A q \in 1 .. Len(c) - 1 : Append(Front(c), i)[q] = c[q]
         /\ Append(Front(c), i)[Len(c)] = i
<1> DEFINE f == Front(c)
           u == Append(f, i)
<1>1. /\ f \in Seq(Instr) /\ Len(f) = Len(c) - 1 /\ Len(c) \in Nat /\ Len(c) >= 1
      /\ \A q \in 1 .. Len(c) - 1 : f[q] = c[q]
  BY FrontFacts
<1> HIDE DEF f
<1>3. /\ u \in Seq(Instr) /\ Len(u) = Len(f) + 1 /\ u # <<>> /\ Last(u) = i
      /\ \A q \in 1 .. Len(f) : u[q] = f[q]
      /\ u[Len(f) + 1] = i
  BY <1>1, AppendOne
<1> HIDE DEF u
<1>4. /\ u \in Seq(Instr) /\ Len(u) = Len(c) /\ u # <<>> /\ Last(u) = i
      /\ \A q \in 1 .. Len(c) - 1 : u[q] = c[q]
      /\ u[Len(c)] = i
  BY <1>1, <1>3
<1> QED
  BY <1>1, <1>4 DEF u, f

\* t is c with i, j and k in the place of its last instruction.
ByThree(t, c, i, j, k) ==
  /\ t \in Seq(Instr) /\ Len(t) = Len(c) + 2 /\ Len(c) \in Nat /\ Len(c) >= 1
  /\ t # <<>> /\ Last(t) = k
  /\ \A q \in 1 .. Len(c) - 1 : t[q] = c[q]
  /\ t[Len(c)] = i /\ t[Len(c) + 1] = j /\ t[Len(c) + 2] = k

LEMMA ReplaceLastByThree ==
  ASSUME NEW c \in Seq(Instr), c # <<>>, NEW i \in Instr, NEW j \in Instr, NEW k \in Instr
  PROVE  ByThree(Front(c) \o <<i, j, k>>, c, i, j, k)
<1> DEFINE f == Front(c)
           v == <<i, j, k>>
           u == f \o v
<1>1. /\ f \in Seq(Instr) /\ Len(f) = Len(c) - 1 /\ Len(c) \in Nat /\ Len(c) >= 1
      /\ \A q \in 1 .. Len(c) - 1 : f[q] = c[q]
  BY FrontFacts
<1>2. v \in Seq(Instr) /\ Len(v) = 3 /\ v[1] = i /\ v[2] = j /\ v[3] = k
  OBVIOUS
<1> HIDE DEF f, v
<1>4. /\ u \in Seq(Instr) /\ Len(u) = Len(f) + Len(v)
      /\ \A q \in 1 .. Len(f) + Len(v) : u[q] = IF q <= Len(f) THEN f[q] ELSE v[q - Len(f)]
  BY <1>1, <1>2, ConcatFacts
<1> HIDE DEF u
<1>5. /\ Len(u) = Len(c) + 2
      /\ \A q \in 1 .. Len(c) + 2 : u[q] = IF q <= Len(c) - 1 THEN f[q] ELSE v[q - (Len(c) - 1)]
  BY <1>1, <1>2, <1>4
<1>6. u[Len(c)] = v[1] /\ u[Len(c) + 1] = v[2] /\ u[Len(c) + 2] = v[3]
  <2>1. PICK m \in Nat : m = Len(c) /\ m >= 1
    BY <1>1
  <2>2. m - (m - 1) = 1 /\ (m + 1) - (m - 1) = 2 /\ (m + 2) - (m - 1) = 3
    BY <2>1
  <2>3. \A q \in {m, m + 1, m + 2} : q \in 1 .. m + 2 /\ ~(q <= m - 1)
    BY <2>1
  <2> QED
    BY <1>5, <2>1, <2>2, <2>3
<1>7. \A q \in 1 .. Len(c) - 1 : u[q] = c[q]
  BY <1>1, <1>5
<1>8. Last(u) = u[Len(c) + 2] /\ u # <<>>
  BY <1>1, <1>5 DEF Last
<1>9. Front(c) \o <<i, j, k>> = u /\ i = v[1] /\ j = v[2] /\ k = v[3]
  BY <1>2 DEF u, f, v
<1>10. ByThree(u, c, i, j, k)
  BY <1>1, <1>4, <1>5, <1>6, <1>7, <1>8, <1>9 DEF ByThree
<1> QED
  BY <1>9, <1>10

\* What a lane that skips adds to its block, which is empty so far.
LEMMA SkipCode ==
  ASSUME Good, pc = "lanes", NEW z \in Nat, NEW f \in Nat
  PROVE  LET t == <<>> \o Dummies \o <<Lea(z), Jmp(f)>>
         IN  /\ t \in Seq(Instr) /\ Len(t) = Len(Dummies) + 2 /\ Len(Dummies) \in Nat
             /\ t # <<>> /\ Last(t) = Jmp(f)
             /\ \A q \in 1 .. Len(Dummies) : t[q] = Add8Zero
             /\ t[Len(Dummies) + 1] = Lea(z) /\ t[Len(Dummies) + 2] = Jmp(f)
<1> DEFINE d == Dummies
           e == <<>> \o d
           i == Lea(z)
           j == Jmp(f)
           v == <<i, j>>
           u == e \o v
<1>1. d \in Seq(Instr) /\ i \in Instr /\ j \in Instr /\ \A q \in DOMAIN d : d[q] = Add8Zero
  BY DummiesType, InstrType
<1> HIDE DEF i, j, d
<1>2. v \in Seq(Instr) /\ Len(v) = 2 /\ v[1] = i /\ v[2] = j
  BY <1>1
<1>3. e \in Seq(Instr) /\ Len(e) = Len(d) /\ Len(d) \in Nat /\ \A q \in 1 .. Len(d) : e[q] = Add8Zero
  <2>1. DOMAIN d = 1 .. Len(d) /\ Len(d) \in Nat
    BY <1>1
  <2>2. e = d
    BY <1>1
  <2> HIDE DEF e
  <2> QED
    BY <1>1, <2>1, <2>2
<1>9. e \in Seq(Instr) /\ v \in Seq(Instr)
  BY <1>2, <1>3
<1> HIDE DEF e, v
<1>4. /\ u \in Seq(Instr) /\ Len(u) = Len(e) + Len(v)
      /\ \A q \in 1 .. Len(e) + Len(v) : u[q] = IF q <= Len(e) THEN e[q] ELSE v[q - Len(e)]
  BY <1>9, ConcatFacts
<1> HIDE DEF u
<1>5. /\ Len(u) = Len(d) + 2
      /\ \A q \in 1 .. Len(d) + 2 : u[q] = IF q <= Len(d) THEN e[q] ELSE v[q - Len(d)]
  BY <1>2, <1>3, <1>4
<1>6. u[Len(d) + 1] = i /\ u[Len(d) + 2] = j /\ \A q \in 1 .. Len(d) : u[q] = Add8Zero
  BY <1>2, <1>3, <1>5
<1>7. Last(u) = u[Len(d) + 2] /\ u # <<>>
  BY <1>3, <1>5 DEF Last
<1> QED
  BY <1>3, <1>4, <1>5, <1>6, <1>7 DEF u, e, v, d, i, j
=============================================================================
