------------------------ MODULE BranchConversionProofs ------------------------
(***************************************************************************)
(* Theorems about the pass, for every number of blocks and every set of    *)
(* source blocks.                                                          *)
(***************************************************************************)
EXTENDS BranchConversion, TLAPS

(***************************************************************************)
(* Sequences taken apart and put together at their ends.                   *)
(***************************************************************************)
LEMMA TailFacts ==
  ASSUME NEW S, NEW s \in Seq(S), s # <<>>
  PROVE  /\ Head(s) \in S /\ Head(s) = s[1] /\ Len(s) >= 1
         /\ Tail(s) \in Seq(S) /\ Len(Tail(s)) = Len(s) - 1
         /\ \A i \in 1 .. Len(s) - 1 : Tail(s)[i] = s[i + 1]
         /\ Range(s) = {Head(s)} \cup Range(Tail(s))
<1>1. /\ Head(s) \in S /\ Head(s) = s[1] /\ Len(s) >= 1
      /\ Tail(s) \in Seq(S) /\ Len(Tail(s)) = Len(s) - 1
      /\ \A i \in 1 .. Len(s) - 1 : Tail(s)[i] = s[i + 1]
  OBVIOUS
<1>2. Range(s) = {Head(s)} \cup Range(Tail(s))
  <2>1. ASSUME NEW x \in Range(s) PROVE x \in {Head(s)} \cup Range(Tail(s))
    <3>1. PICK i \in 1 .. Len(s) : x = s[i]
      BY <2>1 DEF Range
    <3>2. CASE i = 1
      BY <3>1, <3>2, <1>1
    <3>3. CASE i > 1
      <4>1. i - 1 \in 1 .. Len(Tail(s)) /\ Tail(s)[i - 1] = x
        BY <3>1, <3>3, <1>1
      <4>2. DOMAIN Tail(s) = 1 .. Len(Tail(s))
        BY <1>1
      <4>3. x \in Range(Tail(s))
        BY <4>1, <4>2 DEF Range
      <4> QED BY <4>3
    <3> QED BY <3>1, <3>2, <3>3
  <2>2. ASSUME NEW x \in {Head(s)} \cup Range(Tail(s)) PROVE x \in Range(s)
    <3>1. CASE x = Head(s)
      BY <3>1, <1>1 DEF Range
    <3>2. CASE x \in Range(Tail(s))
      <4>1. PICK i \in 1 .. Len(s) - 1 : x = Tail(s)[i]
        BY <3>2, <1>1 DEF Range
      <4>2. i + 1 \in 1 .. Len(s) /\ x = s[i + 1]
        BY <4>1, <1>1
      <4> QED BY <4>2 DEF Range
    <3> QED BY <2>2, <3>1, <3>2
  <2> QED BY <2>1, <2>2
<1> QED BY <1>1, <1>2

LEMMA ConsFacts ==
  ASSUME NEW S, NEW s \in Seq(S), NEW x \in S
  PROVE  /\ <<x>> \o s \in Seq(S) /\ Len(<<x>> \o s) = Len(s) + 1
         /\ (<<x>> \o s)[1] = x
         /\ \A i \in 1 .. Len(s) : (<<x>> \o s)[i + 1] = s[i]
         /\ Range(<<x>> \o s) = {x} \cup Range(s)
<1> DEFINE t == <<x>> \o s
<1>1. /\ t \in Seq(S) /\ Len(t) = Len(s) + 1
      /\ t[1] = x
      /\ \A i \in 1 .. Len(s) : t[i + 1] = s[i]
  OBVIOUS
<1>2. t # <<>> /\ Head(t) = x /\ Tail(t) = s
  BY <1>1
<1> QED BY <1>1, <1>2, TailFacts

(***************************************************************************)
(* Type correctness.                                                       *)
(***************************************************************************)
LEMMA InitType == Init => TypeOK
<1> SUFFICES ASSUME Init PROVE TypeOK
  OBVIOUS
<1> USE NAssumption, SourcesAssumption
<1>1. fn \in [1 .. N -> Sources] /\ WellFormed(fn)
  BY DEF Init
<1>2. code \in Seq(Seq(Instr)) /\ Len(code) = N
  BY <1>1 DEF Init
<1>3. succ \in Seq(SUBSET Nat) /\ Len(succ) = N
  <2>1. \A b \in 1 .. N : SourceSuccessors(fn, b) \in SUBSET Nat
    BY <1>1 DEF SourceSuccessors, Named, SourceInstr
  <2> QED BY <2>1 DEF Init
<1>4. before \in Seq(Blocks) /\ after \in Seq(Blocks) /\ processed \subseteq Blocks
  BY <1>2 DEF Init, Blocks
<1>5. LanesOK(lanes, Len(code)) /\ LanesOK(pending, Len(code))
  BY <1>2 DEF Init, Lane, EmptyLane, LanesOK, Null
<1> QED BY <1>1, <1>2, <1>3, <1>4, <1>5 DEF Init, TypeOK, CodeOK, Null

\* Block lists stay block lists when blocks are added.
LEMMA ListGrow ==
  ASSUME NEW n \in Nat, NEW m \in Nat, n <= m, NEW s \in Seq(1 .. n)
  PROVE  s \in Seq(1 .. m)
OBVIOUS

LEMMA ListPrepend ==
  ASSUME NEW n \in Nat, NEW s \in Seq(1 .. n), NEW t \in Seq(1 .. n)
  PROVE  t \o s \in Seq(1 .. n)
OBVIOUS

\* Lists of lanes: adding, dropping and replacing one; adding blocks.
LEMMA LanesAppend ==
  ASSUME NEW n \in Nat, NEW ls, LanesOK(ls, n),
         NEW l \in Lane, l.current \in 0 .. n
  PROVE  LanesOK(Append(ls, l), n) /\ Len(Append(ls, l)) = Len(ls) + 1 /\ Len(ls) \in Nat
BY DEF LanesOK

LEMMA LanesTail ==
  ASSUME NEW n \in Nat, NEW ls, LanesOK(ls, n), ls # <<>>
  PROVE  /\ Head(ls) \in Lane /\ LanesOK(Tail(ls), n)
         /\ Head(ls).current \in 0 .. n
<1>1. /\ Head(ls) \in Lane /\ Head(ls) = ls[1] /\ Len(ls) >= 1 /\ Len(ls) \in Nat
      /\ Tail(ls) \in Seq(Lane) /\ DOMAIN Tail(ls) = 1 .. Len(ls) - 1
      /\ \A i \in 1 .. Len(ls) - 1 : Tail(ls)[i] = ls[i + 1]
  BY TailFacts DEF LanesOK
<1> QED BY <1>1 DEF LanesOK

LEMMA LanesUpdate ==
  ASSUME NEW n \in Nat, NEW ls, LanesOK(ls, n), NEW i \in 1 .. Len(ls),
         NEW l \in Lane, l.current \in 0 .. n
  PROVE  LanesOK([ls EXCEPT ![i] = l], n) /\ Len([ls EXCEPT ![i] = l]) = Len(ls)
BY DEF LanesOK

LEMMA LanesGrow ==
  ASSUME NEW n \in Nat, NEW m \in Nat, n <= m, NEW ls, LanesOK(ls, n)
  PROVE  LanesOK(ls, m)
BY DEF LanesOK

LEMMA NoLanes == \A n \in Nat : LanesOK(<<>>, n)
BY DEF LanesOK

\* Code: changing a block, adding one.
LEMMA CodeAt ==
  ASSUME NEW c, NEW s, CodeOK(c, s)
  PROVE  /\ Len(c) \in Nat /\ Len(s) = Len(c) /\ N <= Len(c)
         /\ \A b \in 1 .. Len(c) : c[b] \in Seq(Instr) /\ s[b] \in SUBSET Nat
BY NAssumption DEF CodeOK

LEMMA CodeChange ==
  ASSUME NEW c, NEW s, CodeOK(c, s),
         NEW b \in 1 .. Len(c), NEW is \in Seq(Instr), NEW t \in SUBSET Nat
  PROVE  /\ CodeOK([c EXCEPT ![b] = is], [s EXCEPT ![b] = t])
         /\ Len([c EXCEPT ![b] = is]) = Len(c)
<1>1. /\ c \in Seq(Seq(Instr)) /\ s \in Seq(SUBSET Nat) /\ Len(c) >= N /\ Len(s) = Len(c)
      /\ Len(c) \in Nat
  BY DEF CodeOK
<1>2. [c EXCEPT ![b] = is] \in Seq(Seq(Instr)) /\ Len([c EXCEPT ![b] = is]) = Len(c)
  BY <1>1
<1>3. [s EXCEPT ![b] = t] \in Seq(SUBSET Nat) /\ Len([s EXCEPT ![b] = t]) = Len(s)
  BY <1>1
<1> QED BY <1>1, <1>2, <1>3 DEF CodeOK

LEMMA CodeAppend ==
  ASSUME NEW c, NEW s, CodeOK(c, s), NEW is \in Seq(Instr), NEW t \in SUBSET Nat
  PROVE  CodeOK(Append(c, is), Append(s, t)) /\ Len(Append(c, is)) = Len(c) + 1
<1>1. /\ c \in Seq(Seq(Instr)) /\ s \in Seq(SUBSET Nat) /\ Len(c) >= N /\ Len(s) = Len(c)
      /\ Len(c) \in Nat
  BY DEF CodeOK
<1>2. Append(c, is) \in Seq(Seq(Instr)) /\ Len(Append(c, is)) = Len(c) + 1
  BY <1>1
<1>3. Append(s, t) \in Seq(SUBSET Nat) /\ Len(Append(s, t)) = Len(s) + 1
  BY <1>1
<1> QED BY <1>1, <1>2, <1>3, NAssumption DEF CodeOK

LEMMA CodeAppendTwo ==
  ASSUME NEW c, NEW s, CodeOK(c, s), NEW is \in Seq(Instr), NEW js \in Seq(Instr),
         NEW t \in SUBSET Nat, NEW u \in SUBSET Nat
  PROVE  CodeOK(c \o <<is, js>>, s \o <<t, u>>) /\ Len(c \o <<is, js>>) = Len(c) + 2
<1>1. /\ c \in Seq(Seq(Instr)) /\ s \in Seq(SUBSET Nat) /\ Len(c) >= N /\ Len(s) = Len(c)
      /\ Len(c) \in Nat
  BY DEF CodeOK
<1>2. <<is, js>> \in Seq(Seq(Instr)) /\ <<t, u>> \in Seq(SUBSET Nat)
  OBVIOUS
<1>3. c \o <<is, js>> \in Seq(Seq(Instr)) /\ Len(c \o <<is, js>>) = Len(c) + 2
  BY <1>1, <1>2
<1>4. s \o <<t, u>> \in Seq(SUBSET Nat) /\ Len(s \o <<t, u>>) = Len(s) + 2
  BY <1>1, <1>2
<1> QED BY <1>1, <1>3, <1>4, NAssumption DEF CodeOK

LEMMA InstrType ==
  /\ \A b \in Nat : Jmp(b) \in Instr /\ Lea(b) \in Instr /\ LeaTmp(b) \in Instr
  /\ \A c \in Conds \cup {NoCond} : CMov(c) \in Instr
  /\ JmpTarget \in Instr /\ Add8Zero \in Instr
BY DEF Jmp, Lea, LeaTmp, CMov, JmpTarget, Add8Zero, Plain, Instr, Ops

LEMMA LanesDoneType == TypeOK /\ LanesDone => TypeOK'
<1> SUFFICES ASSUME TypeOK, LanesDone PROVE TypeOK'
  OBVIOUS
<1>1. EmptyLane \in Lane /\ EmptyLane.current = 0
  BY DEF EmptyLane, Lane, Null
<1>2. LanesOK(lanes, Len(code)) /\ Len(code) \in Nat
  BY CodeAt DEF TypeOK
<1>3. LanesOK(lanes', Len(code)) /\ takenLane' \in 0 .. Len(lanes') /\ takenLane' # Null
  <2>1. CASE takenLane = Null
    <3>1. LanesOK(Append(lanes, EmptyLane), Len(code)) /\ Len(Append(lanes, EmptyLane)) = Len(lanes) + 1
          /\ Len(lanes) \in Nat
      BY <1>1, <1>2, LanesAppend, NAssumption
    <3>2. lanes' = Append(lanes, EmptyLane) /\ takenLane' = Len(lanes) + 1
      BY <2>1 DEF LanesDone
    <3> QED BY <3>1, <3>2 DEF Null
  <2>2. CASE takenLane # Null
    BY <1>2, <2>2 DEF LanesDone, TypeOK
  <2> QED BY <2>1, <2>2
<1> QED BY <1>3 DEF TypeOK, LanesDone, Blocks, listVars, blockVars

LEMMA NextBlockType == TypeOK /\ NextBlock => TypeOK'
<1> SUFFICES ASSUME TypeOK, NextBlock PROVE TypeOK'
  OBVIOUS
<1> DEFINE b == Head(after)
           rest == Tail(after)
           n == Len(code)
<1>1. n \in Nat /\ N <= n /\ CodeOK(code, succ)
  BY CodeAt DEF TypeOK
<1>2. b \in 1 .. n /\ rest \in Seq(1 .. n) /\ (rest # <<>> => Head(rest) \in 1 .. n)
  BY TailFacts DEF TypeOK, NextBlock, Blocks
<1>3. /\ mbb' = b /\ after' = rest /\ processed' = processed \cup {b} /\ fn' = fn
      /\ originalFallThrough' = GetFallThrough(b, rest)
      /\ pending' = lanes /\ lanes' = <<>> /\ takenLane' = Null /\ pc' = "lanes"
  BY DEF NextBlock
<1>4. GetFallThrough(b, rest) \in 0 .. n
  BY <1>1, <1>2 DEF GetFallThrough, Null
<1>5. /\ CodeOK(code', succ') /\ Len(code') \in {n, n + 1}
      /\ fakeBlock' \in 0 .. Len(code') /\ before' \in Seq(1 .. Len(code'))
  <2>1. before \in Seq(1 .. n)
    BY DEF TypeOK, Blocks
  <2>2. CASE NeedsFakeBlock(b, rest)
    <3>1. /\ fakeBlock' = n + 1 /\ before' = before \o <<b, n + 1>>
          /\ code' = Append(code, <<JmpTarget>>) /\ succ' = Append(succ, {})
      BY <2>2 DEF NextBlock
    <3>2. <<JmpTarget>> \in Seq(Instr) /\ {} \in SUBSET Nat
      BY InstrType
    <3>3. CodeOK(code', succ') /\ Len(code') = n + 1
      BY <1>1, <3>1, <3>2, CodeAppend
    <3>4. before \o <<b, n + 1>> \in Seq(1 .. n + 1)
      BY <1>1, <1>2, <2>1
    <3> QED BY <1>1, <3>1, <3>3, <3>4
  <2>3. CASE ~NeedsFakeBlock(b, rest)
    <3>1. fakeBlock' = Null /\ before' = Append(before, b) /\ code' = code /\ succ' = succ
      BY <2>3 DEF NextBlock
    <3> QED BY <1>1, <1>2, <2>1, <3>1 DEF Null
  <2> QED BY <2>2, <2>3
<1>6. LanesOK(lanes', Len(code')) /\ LanesOK(pending', Len(code'))
  BY <1>1, <1>3, <1>5, LanesGrow, NoLanes DEF TypeOK
<1>7. after' \in Seq(1 .. Len(code')) /\ processed' \subseteq 1 .. Len(code')
  <2>1. processed \cup {b} \subseteq 1 .. n
    BY <1>1, <1>2 DEF TypeOK, Blocks
  <2> HIDE DEF b, rest, n
  <2>2. rest \in Seq(1 .. n + 1)
    BY <1>1, <1>2, ListGrow
  <2> QED BY <1>1, <1>2, <1>3, <1>5, <2>1, <2>2
<1>8. mbb' \in 0 .. Len(code') /\ mbb' # Null /\ originalFallThrough' \in 0 .. Len(code')
  BY <1>1, <1>2, <1>3, <1>4, <1>5 DEF Null
<1> QED BY <1>3, <1>5, <1>6, <1>7, <1>8 DEF TypeOK, Blocks, Null

LEMMA LaneArrivesType == TypeOK /\ LaneArrives => TypeOK'
<1> SUFFICES ASSUME TypeOK, LaneArrives PROVE TypeOK'
  OBVIOUS
<1>1. Len(code) \in Nat /\ CodeOK(code, succ) /\ N <= Len(code)
  BY CodeAt DEF TypeOK
<1>2. /\ lane \in Lane /\ LanesOK(Tail(pending), Len(code))
      /\ lane.current \in 0 .. Len(code)
  BY <1>1, LanesTail DEF TypeOK, LaneArrives, lane
<1>3. CodeOK(code', succ') /\ Len(code') = Len(code)
  <2>1. CASE lane.current # Null
    <3> DEFINE z == lane.current
    <3>1. /\ code' = [code EXCEPT ![z] = Append(code[z], Jmp(mbb))]
          /\ succ' = [succ EXCEPT ![z] = succ[z] \cup {mbb}]
          /\ z \in 1 .. Len(code)
      BY <2>1, <1>1, <1>2 DEF LaneArrives, Null
    <3>2. Append(code[z], Jmp(mbb)) \in Seq(Instr) /\ succ[z] \cup {mbb} \in SUBSET Nat
      BY <1>1, <3>1, CodeAt, InstrType DEF TypeOK
    <3> QED BY <1>1, <3>1, <3>2, CodeChange
  <2>2. CASE lane.current = Null
    BY <1>1, <2>2 DEF LaneArrives
  <2> QED BY <2>1, <2>2
<1>4. LanesOK(lanes', Len(code)) /\ takenLane' \in 0 .. Len(lanes')
  <2>1. CASE takenLane = Null
    <3>1. LanesOK(Append(lanes, lane), Len(code)) /\ Len(Append(lanes, lane)) = Len(lanes) + 1
          /\ Len(lanes) \in Nat
      BY <1>1, <1>2, LanesAppend DEF TypeOK
    <3>2. lanes' = Append(lanes, lane) /\ takenLane' = Len(lanes) + 1
      BY <2>1 DEF LaneArrives
    <3> QED BY <3>1, <3>2
  <2>2. CASE takenLane # Null
    BY <2>2 DEF LaneArrives, TypeOK
  <2> QED BY <2>1, <2>2
<1> QED BY <1>1, <1>2, <1>3, <1>4 DEF TypeOK, LaneArrives, Blocks, listVars, blockVars

LEMMA LaneSkipsType == TypeOK /\ LaneSkips => TypeOK'
<1> SUFFICES ASSUME TypeOK, LaneSkips PROVE TypeOK'
  OBVIOUS
<1> DEFINE z == Len(code) + 1
           c == lane.current
           is == code[c] \o Dummies \o <<Lea(z), Jmp(fakeBlock)>>
           s1 == [succ EXCEPT ![mbb] = succ[mbb] \cup {z}]
<1>1. Len(code) \in Nat /\ CodeOK(code, succ) /\ N <= Len(code)
  BY CodeAt DEF TypeOK
<1>2. /\ lane \in Lane /\ LanesOK(Tail(pending), Len(code))
      /\ c \in 1 .. Len(code) /\ mbb \in 1 .. Len(code)
  BY <1>1, LanesTail DEF TypeOK, LaneSkips, lane, Null
<1>3. is \in Seq(Instr)
  <2>1. code[c] \in Seq(Instr) /\ code[mbb] \in Seq(Instr)
    BY <1>1, <1>2, CodeAt
  <2>2. Dummies \in Seq(Instr)
    BY <2>1, InstrType DEF Dummies
  <2>3. <<Lea(z), Jmp(fakeBlock)>> \in Seq(Instr)
    BY <1>1, InstrType DEF TypeOK
  <2> QED BY <2>1, <2>2, <2>3
<1>4. CodeOK(code', succ') /\ Len(code') = z
  <2>1. CodeOK(code, s1)
    BY <1>1, <1>2 DEF CodeOK
  <2>2. s1[c] \cup {fakeBlock} \in SUBSET Nat
    BY <2>1, <1>2, CodeAt DEF TypeOK
  <2>3. /\ CodeOK([code EXCEPT ![c] = is], [s1 EXCEPT ![c] = s1[c] \cup {fakeBlock}])
        /\ Len([code EXCEPT ![c] = is]) = Len(code)
    BY <2>1, <2>2, <1>2, <1>3, CodeChange
  <2>4. /\ code' = Append([code EXCEPT ![c] = is], <<>>)
        /\ succ' = Append([s1 EXCEPT ![c] = s1[c] \cup {fakeBlock}], {})
    BY DEF LaneSkips
  <2> DEFINE c1 == [code EXCEPT ![c] = is]
             s2 == [s1 EXCEPT ![c] = s1[c] \cup {fakeBlock}]
  <2>5. CodeOK(c1, s2) /\ Len(c1) = Len(code) /\ code' = Append(c1, <<>>) /\ succ' = Append(s2, {})
    BY <2>3, <2>4
  <2>6. <<>> \in Seq(Instr) /\ {} \in SUBSET Nat
    OBVIOUS
  <2> HIDE DEF c1, s2
  <2> QED BY <2>5, <2>6, CodeAppend
<1>5. LanesOK(lanes', z) /\ Len(lanes') = Len(lanes) + 1 /\ Len(lanes) \in Nat
  <2> DEFINE l == [lane EXCEPT !.current = z]
  <2>1. l \in Lane /\ l.current = z
    BY <1>1, <1>2 DEF Lane
  <2>2. LanesOK(lanes, z)
    BY <1>1, LanesGrow DEF TypeOK
  <2>3. lanes' = Append(lanes, l)
    BY DEF LaneSkips
  <2>4. l.current \in 0 .. z /\ z \in Nat
    BY <1>1, <1>2, <2>1
  <2> HIDE DEF l, z
  <2> QED BY <2>1, <2>2, <2>3, <2>4, LanesAppend
<1>6. /\ before' \in Seq(1 .. z) /\ after' \in Seq(1 .. z) /\ processed' \subseteq 1 .. z
      /\ LanesOK(pending', z)
  <2>1. before' = <<z>> \o before /\ after' = after /\ processed' = processed /\ pending' = Tail(pending)
    BY DEF LaneSkips
  <2>2. before \in Seq(1 .. z) /\ after \in Seq(1 .. z) /\ z \in 1 .. z
    BY <1>1 DEF TypeOK, Blocks
  <2> QED BY <1>1, <1>2, <2>1, <2>2, ConsFacts, LanesGrow DEF TypeOK, Blocks
<1>7. UNCHANGED <<fn, takenLane, mbb, fakeBlock, originalFallThrough, pc>>
  BY DEF LaneSkips, blockVars
<1> QED BY <1>1, <1>4, <1>5, <1>6, <1>7 DEF TypeOK, Blocks

LEMMA LaneCannotSkipType == TypeOK /\ LaneCannotSkip => TypeOK'
<1> SUFFICES ASSUME TypeOK, LaneCannotSkip PROVE TypeOK'
  OBVIOUS
<1>1. Len(code) \in Nat
  BY CodeAt DEF TypeOK
<1>2. /\ lane \in Lane /\ LanesOK(Tail(pending), Len(code))
      /\ lane.current \in 0 .. Len(code)
  BY <1>1, LanesTail DEF TypeOK, LaneCannotSkip, lane
<1>3. LanesOK(Append(lanes, lane), Len(code)) /\ Len(Append(lanes, lane)) = Len(lanes) + 1
      /\ Len(lanes) \in Nat
  BY <1>1, <1>2, LanesAppend DEF TypeOK
<1>4. LanesOK(lanes', Len(code)) /\ LanesOK(pending', Len(code)) /\ pc' \in {"lanes", "abort"}
      /\ takenLane \in 0 .. Len(lanes')
  <2>1. CASE Asserts
    BY <2>1 DEF LaneCannotSkip, TypeOK
  <2>2. CASE ~Asserts
    <3>1. lanes' = Append(lanes, lane) /\ pending' = Tail(pending) /\ pc' = "lanes"
      BY <2>2 DEF LaneCannotSkip
    <3>2. takenLane \in 0 .. Len(lanes) + 1
      BY <1>3 DEF TypeOK
    <3> QED BY <1>2, <1>3, <3>1, <3>2
  <2> QED BY <2>1, <2>2
<1> QED BY <1>4 DEF TypeOK, LaneCannotSkip, Blocks, listVars, blockVars

LEMMA LaneDiesType == TypeOK /\ LaneDies => TypeOK'
<1> SUFFICES ASSUME TypeOK, LaneDies PROVE TypeOK'
  OBVIOUS
<1>1. Len(code) \in Nat
  BY CodeAt DEF TypeOK
<1>2. LanesOK(Tail(pending), Len(code))
  BY <1>1, LanesTail DEF TypeOK, LaneDies
<1> QED BY <1>2 DEF TypeOK, LaneDies, Blocks, listVars, blockVars

\* What every action at the end of a block starts from.
LEMMA TermFacts ==
  ASSUME TypeOK, pc = "term"
  PROVE  /\ Len(code) \in Nat /\ N <= Len(code) /\ CodeOK(code, succ)
         /\ mbb \in 1 .. Len(code) /\ takenLane \in 1 .. Len(lanes)
         /\ code[mbb] \in Seq(Instr) /\ succ[mbb] \in SUBSET Nat
         /\ code[mbb] # <<>> => /\ last \in Instr /\ Front(code[mbb]) \in Seq(Instr)
                                /\ last.to \in SUBSET Nat /\ last.cc \in Conds \cup {NoCond}
<1>1. /\ Len(code) \in Nat /\ N <= Len(code) /\ CodeOK(code, succ)
      /\ mbb \in 1 .. Len(code) /\ takenLane \in 1 .. Len(lanes)
  BY CodeAt, LanesAppend DEF TypeOK, Null, LanesOK
<1>2. code[mbb] \in Seq(Instr) /\ succ[mbb] \in SUBSET Nat
  BY <1>1, CodeAt
<1>3. ASSUME code[mbb] # <<>> PROVE last \in Instr /\ Front(code[mbb]) \in Seq(Instr)
  BY <1>2, <1>3 DEF last, Last, Front
<1>4. ASSUME last \in Instr PROVE last.to \in SUBSET Nat /\ last.cc \in Conds \cup {NoCond}
  BY <1>4 DEF Instr
<1> QED BY <1>1, <1>2, <1>3, <1>4

\* takenLane is replaced by a lane of the right type.
LEMMA UpdateLaneType ==
  ASSUME TypeOK, pc = "term", NEW m \in Nat, Len(code) <= m,
         NEW l \in Lane, l.current \in 0 .. m
  PROVE  LanesOK(UpdateLane(l), m) /\ Len(UpdateLane(l)) = Len(lanes)
<1>1. LanesOK(lanes, m) /\ takenLane \in 1 .. Len(lanes)
  BY TermFacts, LanesGrow DEF TypeOK
<1> QED BY <1>1, LanesUpdate DEF UpdateLane

LEMMA SplitJumpType == TypeOK /\ SplitJump => TypeOK'
<1> SUFFICES ASSUME TypeOK, SplitJump PROVE TypeOK'
  OBVIOUS
<1> DEFINE z == Len(code) + 1
<1>1. pc = "term" /\ code[mbb] # <<>>
  BY DEF SplitJump
<1>2. <<last>> \in Seq(Instr) /\ succ[mbb] \cup {z} \in SUBSET Nat /\ z \in Nat /\ {} \in SUBSET Nat
  BY <1>1, TermFacts
<1>3. CodeOK(code', succ') /\ Len(code') = z
  <2> DEFINE is == Front(code[mbb])
             t == succ[mbb] \cup {z}
             c1 == [code EXCEPT ![mbb] = is]
             s1 == [succ EXCEPT ![mbb] = t]
  <2>1. code' = Append(c1, <<last>>) /\ succ' = Append(s1, {})
    BY DEF SplitJump
  <2>2. is \in Seq(Instr) /\ t \in SUBSET Nat
    BY <1>1, <1>2, TermFacts
  <2> HIDE DEF is, t
  <2>3. CodeOK(c1, s1) /\ Len(c1) = Len(code)
    BY <1>1, <2>2, TermFacts, CodeChange
  <2> HIDE DEF c1, s1
  <2> QED BY <1>2, <2>1, <2>3, CodeAppend
<1>4. before' \in Seq(1 .. z) /\ after' \in Seq(1 .. z) /\ processed' \subseteq 1 .. z
  <2>1. before \in Seq(1 .. z) /\ after \in Seq(1 .. z) /\ processed \subseteq 1 .. z
        /\ <<z>> \in Seq(1 .. z) /\ z \in Nat
    BY <1>1, TermFacts, ListGrow DEF TypeOK, Blocks
  <2>2. after' = <<z>> \o after /\ before' = before /\ processed' = processed
    BY DEF SplitJump
  <2> DEFINE t == <<z>>
  <2>3. t \in Seq(1 .. z) /\ after' = t \o after
    BY <2>1, <2>2
  <2> HIDE DEF z, t
  <2> QED BY <2>1, <2>2, <2>3, ListPrepend
<1>5. LanesOK(lanes, z) /\ LanesOK(pending, z)
  BY <1>1, <1>2, TermFacts, LanesGrow DEF TypeOK
<1>6. UNCHANGED <<fn, lanes, pending, takenLane, mbb, fakeBlock, originalFallThrough, pc>>
  BY DEF SplitJump, laneVars, blockVars
<1>7. Len(code) \in Nat
  BY <1>1, TermFacts
<1> QED BY <1>3, <1>4, <1>5, <1>6, <1>7 DEF TypeOK, Blocks

LEMMA UnconditionalType == TypeOK /\ ReplaceUnconditionalJump => TypeOK'
<1> SUFFICES ASSUME TypeOK, ReplaceUnconditionalJump PROVE TypeOK'
  OBVIOUS
<1> DEFINE z == Len(code) + 1
<1>1. pc = "term" /\ code[mbb] # <<>>
  BY DEF ReplaceUnconditionalJump
<1>2. /\ Len(code) \in Nat /\ CodeOK(code, succ) /\ mbb \in 1 .. Len(code)
      /\ Front(code[mbb]) \in Seq(Instr) /\ succ[mbb] \in SUBSET Nat /\ last.to \in SUBSET Nat
      /\ takenLane \in 1 .. Len(lanes)
  BY <1>1, TermFacts
<1>3. PICK dst \in last.to :
        /\ before' = <<z>> \o before
        /\ code' = Append([code EXCEPT ![mbb] = Append(Front(code[mbb]), Lea(z))],
                          IF dst \in processed THEN <<Jmp(dst)>> ELSE <<>>)
        /\ succ' = Append([succ EXCEPT ![mbb] = succ[mbb] \cup {z}],
                          IF dst \in processed THEN {dst} ELSE {})
        /\ lanes' = UpdateLane(IF dst \in processed THEN DeadLane
                               ELSE [current |-> z, dest |-> dst, taken |-> FALSE])
  BY DEF ReplaceUnconditionalJump
<1>4. CodeOK(code', succ') /\ Len(code') = z
  <2> DEFINE is == Append(Front(code[mbb]), Lea(z))
             js == IF dst \in processed THEN <<Jmp(dst)>> ELSE <<>>
             t == succ[mbb] \cup {z}
             u == IF dst \in processed THEN {dst} ELSE {}
             c1 == [code EXCEPT ![mbb] = is]
             s1 == [succ EXCEPT ![mbb] = t]
  <2>1. is \in Seq(Instr) /\ js \in Seq(Instr) /\ t \in SUBSET Nat /\ u \in SUBSET Nat
    BY <1>2, InstrType
  <2>2. code' = Append(c1, js) /\ succ' = Append(s1, u)
    BY <1>3
  <2> HIDE DEF is, js, t, u
  <2>3. CodeOK(c1, s1) /\ Len(c1) = Len(code)
    BY <1>2, <2>1, CodeChange
  <2> HIDE DEF c1, s1
  <2> QED BY <2>1, <2>2, <2>3, CodeAppend
<1>5. LanesOK(lanes', z) /\ Len(lanes') = Len(lanes)
  <2> DEFINE l == IF dst \in processed THEN DeadLane
                  ELSE [current |-> z, dest |-> dst, taken |-> FALSE]
  <2>1. l \in Lane /\ l.current \in 0 .. z
    BY <1>2 DEF DeadLane, Lane, Null
  <2>2. z \in Nat /\ Len(code) <= z /\ lanes' = UpdateLane(l)
    BY <1>2, <1>3
  <2> HIDE DEF l, z
  <2> QED BY <1>1, <2>1, <2>2, UpdateLaneType
<1>6. before' \in Seq(1 .. z) /\ after \in Seq(1 .. z) /\ processed \subseteq 1 .. z
  <2>1. before \in Seq(1 .. z) /\ after \in Seq(1 .. z) /\ processed \subseteq 1 .. z
        /\ <<z>> \in Seq(1 .. z) /\ z \in Nat /\ before' = <<z>> \o before
    BY <1>2, <1>3, ListGrow DEF TypeOK, Blocks
  <2> DEFINE t == <<z>>
  <2>2. t \in Seq(1 .. z) /\ before' = t \o before
    BY <2>1
  <2> HIDE DEF z, t
  <2> QED BY <2>1, <2>2, ListPrepend
<1>7. LanesOK(pending, z)
  BY <1>2, LanesGrow DEF TypeOK
<1>8. /\ UNCHANGED <<fn, after, processed, pending, takenLane, mbb, fakeBlock, originalFallThrough>>
      /\ pc' = "block"
  BY DEF ReplaceUnconditionalJump, blockVars
<1> QED BY <1>2, <1>4, <1>5, <1>6, <1>7, <1>8 DEF TypeOK, Blocks

LEMMA ConditionalType == TypeOK /\ ReplaceConditionalBranch => TypeOK'
<1> SUFFICES ASSUME TypeOK, ReplaceConditionalBranch PROVE TypeOK'
  OBVIOUS
<1> DEFINE z == Len(code) + 1
           fallLane == [current |-> z, dest |-> Null, taken |-> TRUE]
           jumpLane(d) == [current |-> z + 1, dest |-> d, taken |-> FALSE]
<1>1. pc = "term" /\ code[mbb] # <<>>
  BY DEF ReplaceConditionalBranch
<1>2. /\ Len(code) \in Nat /\ CodeOK(code, succ) /\ mbb \in 1 .. Len(code)
      /\ Front(code[mbb]) \in Seq(Instr) /\ succ[mbb] \in SUBSET Nat /\ last.to \in SUBSET Nat
      /\ takenLane \in 1 .. Len(lanes) /\ last.cc \in Conds \cup {NoCond}
  BY <1>1, TermFacts
<1>3. PICK dst \in last.to :
        /\ before' = <<z + 1, z>> \o before
        /\ code' = [code EXCEPT ![mbb] = Front(code[mbb]) \o <<Lea(z), LeaTmp(z + 1), CMov(last.cc)>>]
                     \o << <<>>, IF dst \in processed THEN <<Jmp(dst)>> ELSE <<>> >>
        /\ succ' = [succ EXCEPT ![mbb] = succ[mbb] \cup {z, z + 1}]
                     \o << {}, IF dst \in processed THEN {dst} ELSE {} >>
        /\ lanes' = IF dst \in processed THEN UpdateLane(fallLane)
                    ELSE Append(UpdateLane(fallLane), jumpLane(dst))
  BY DEF ReplaceConditionalBranch
<1>4. CodeOK(code', succ') /\ Len(code') = z + 1
  <2> DEFINE is == Front(code[mbb]) \o <<Lea(z), LeaTmp(z + 1), CMov(last.cc)>>
             js == IF dst \in processed THEN <<Jmp(dst)>> ELSE <<>>
             t == succ[mbb] \cup {z, z + 1}
             u == IF dst \in processed THEN {dst} ELSE {}
             c1 == [code EXCEPT ![mbb] = is]
             s1 == [succ EXCEPT ![mbb] = t]
  <2>1. <<Lea(z), LeaTmp(z + 1), CMov(last.cc)>> \in Seq(Instr)
    BY <1>2, InstrType
  <2>2. is \in Seq(Instr) /\ js \in Seq(Instr) /\ t \in SUBSET Nat /\ u \in SUBSET Nat
    BY <1>2, <2>1, InstrType
  <2>3. code' = c1 \o << <<>>, js >> /\ succ' = s1 \o << {}, u >>
    BY <1>3
  <2> HIDE DEF is, js, t, u
  <2>4. CodeOK(c1, s1) /\ Len(c1) = Len(code)
    BY <1>2, <2>2, CodeChange
  <2>5. <<>> \in Seq(Instr) /\ {} \in SUBSET Nat
    OBVIOUS
  <2> HIDE DEF c1, s1
  <2>6. CodeOK(code', succ') /\ Len(code') = Len(code) + 2
    BY <2>2, <2>3, <2>4, <2>5, CodeAppendTwo
  <2> QED BY <1>2, <2>6
<1>5. LanesOK(lanes', z + 1) /\ Len(lanes') \in Nat /\ Len(lanes') >= Len(lanes)
  <2>1. fallLane \in Lane /\ fallLane.current \in 0 .. z + 1
    BY <1>2 DEF Lane, Null
  <2>2. jumpLane(dst) \in Lane /\ jumpLane(dst).current \in 0 .. z + 1
    BY <1>2 DEF Lane
  <2>3. z + 1 \in Nat /\ Len(code) <= z + 1
    BY <1>2
  <2> DEFINE ls == UpdateLane(fallLane)
             l == jumpLane(dst)
             m == z + 1
  <2>4. lanes' = ls \/ lanes' = Append(ls, l)
    BY <1>3
  <2>5. l \in Lane /\ l.current \in 0 .. m
    BY <2>2
  <2> HIDE DEF fallLane, jumpLane, z, l
  <2>6. LanesOK(ls, m) /\ Len(ls) = Len(lanes)
    BY <1>1, <2>1, <2>3, UpdateLaneType
  <2> HIDE DEF ls
  <2>7. LanesOK(Append(ls, l), m) /\ Len(Append(ls, l)) = Len(ls) + 1 /\ Len(ls) \in Nat
    BY <2>3, <2>5, <2>6, LanesAppend
  <2> DEFINE al == Append(ls, l)
  <2>8. lanes' = ls \/ lanes' = al
    BY <2>4
  <2>9. LanesOK(al, m) /\ Len(al) = Len(ls) + 1
    BY <2>7
  <2> HIDE DEF al, m
  <2>10. LanesOK(lanes', m) /\ Len(lanes') \in Nat /\ Len(lanes') >= Len(lanes)
    BY <2>6, <2>7, <2>8, <2>9
  <2> QED BY <2>10 DEF m
<1>6. before' \in Seq(1 .. z + 1) /\ after \in Seq(1 .. z + 1) /\ processed \subseteq 1 .. z + 1
  <2>1. /\ before \in Seq(1 .. z + 1) /\ after \in Seq(1 .. z + 1) /\ processed \subseteq 1 .. z + 1
        /\ <<z + 1, z>> \in Seq(1 .. z + 1) /\ z + 1 \in Nat
    BY <1>2, ListGrow DEF TypeOK, Blocks
  <2>2. before' = <<z + 1, z>> \o before
    BY <1>3
  <2> DEFINE t == <<z + 1, z>>
  <2>3. t \in Seq(1 .. z + 1) /\ before' = t \o before
    BY <2>1, <2>2
  <2> HIDE DEF z, t
  <2> QED BY <2>1, <2>2, <2>3, ListPrepend
<1>7. LanesOK(pending, z + 1)
  BY <1>2, LanesGrow DEF TypeOK
<1>8. /\ UNCHANGED <<fn, after, processed, pending, takenLane, mbb, fakeBlock, originalFallThrough>>
      /\ pc' = "block"
  BY DEF ReplaceConditionalBranch, blockVars
<1> QED BY <1>2, <1>4, <1>5, <1>6, <1>7, <1>8 DEF TypeOK, Blocks

LEMMA NoBranchType == TypeOK /\ ReplaceNoBranchBlock => TypeOK'
<1> SUFFICES ASSUME TypeOK, ReplaceNoBranchBlock PROVE TypeOK'
  OBVIOUS
<1> DEFINE z == Len(code) + 1
<1>1. pc = "term" /\ code[mbb] # <<>>
  BY DEF ReplaceNoBranchBlock, NotABranch
<1>2. /\ Len(code) \in Nat /\ CodeOK(code, succ) /\ mbb \in 1 .. Len(code)
      /\ code[mbb] \in Seq(Instr) /\ succ[mbb] \in SUBSET Nat /\ takenLane \in 1 .. Len(lanes)
  BY <1>1, TermFacts
<1>3. /\ UNCHANGED <<fn, after, processed, pending, takenLane, mbb, fakeBlock, originalFallThrough>>
      /\ pc' = "block"
  BY DEF ReplaceNoBranchBlock, blockVars
<1>4. CASE originalFallThrough # Null
  <2> DEFINE is == Append(code[mbb], Lea(z))
             t == succ[mbb] \cup {z}
             c1 == [code EXCEPT ![mbb] = is]
             s1 == [succ EXCEPT ![mbb] = t]
             l == [current |-> z, dest |-> Null, taken |-> TRUE]
             zs == <<z>>
  <2>1. /\ code' = Append(c1, <<>>) /\ succ' = Append(s1, {})
        /\ lanes' = UpdateLane(l) /\ before' = zs \o before
    BY <1>4 DEF ReplaceNoBranchBlock
  <2>2. /\ is \in Seq(Instr) /\ t \in SUBSET Nat /\ <<>> \in Seq(Instr) /\ {} \in SUBSET Nat
        /\ z \in Nat /\ Len(code) <= z /\ zs \in Seq(1 .. z)
    BY <1>2, InstrType
  <2>3. l \in Lane /\ l.current \in 0 .. z
    BY <1>2 DEF Lane, Null
  <2>4. /\ before \in Seq(1 .. z) /\ after \in Seq(1 .. z) /\ processed \subseteq 1 .. z
        /\ LanesOK(pending, z)
    BY <1>2, <2>2, ListGrow, LanesGrow DEF TypeOK, Blocks
  <2> HIDE DEF is, t, l, zs
  <2>5. CodeOK(c1, s1) /\ Len(c1) = Len(code)
    BY <1>2, <2>2, CodeChange
  <2> HIDE DEF c1, s1
  <2>6. CodeOK(code', succ') /\ Len(code') = z
    BY <2>1, <2>2, <2>5, CodeAppend
  <2> HIDE DEF z
  <2>7. LanesOK(lanes', z) /\ Len(lanes') = Len(lanes)
    BY <1>1, <2>1, <2>2, <2>3, UpdateLaneType
  <2>8. before' \in Seq(1 .. z)
    BY <2>1, <2>2, <2>4, ListPrepend
  <2>9. mbb \in 0 .. z /\ fakeBlock \in 0 .. z /\ originalFallThrough \in 0 .. z
    BY <1>2, <2>2 DEF TypeOK
  <2> QED BY <1>2, <1>3, <2>4, <2>6, <2>7, <2>8, <2>9 DEF TypeOK, Blocks
<1>5. CASE originalFallThrough = Null
  <2>1. lanes' = UpdateLane(DeadLane) /\ UNCHANGED <<before, code, succ>>
    BY <1>5 DEF ReplaceNoBranchBlock
  <2>2. DeadLane \in Lane /\ DeadLane.current \in 0 .. Len(code)
    BY <1>2 DEF DeadLane, Lane, Null
  <2>3. LanesOK(lanes', Len(code)) /\ Len(lanes') = Len(lanes)
    BY <1>1, <1>2, <2>1, <2>2, UpdateLaneType
  <2> QED BY <1>3, <2>1, <2>3 DEF TypeOK, Blocks
<1> QED BY <1>4, <1>5

LEMMA IndirectType == TypeOK /\ ReplaceIndirectJump => TypeOK'
<1> SUFFICES ASSUME TypeOK, ReplaceIndirectJump PROVE TypeOK'
  OBVIOUS
<1>1. pc = "term" /\ lanes' = UpdateLane(DeadLane)
  BY DEF ReplaceIndirectJump
<1>2. DeadLane \in Lane /\ DeadLane.current \in 0 .. Len(code) /\ Len(code) \in Nat
  BY <1>1, TermFacts DEF DeadLane, Lane, Null
<1>3. LanesOK(lanes', Len(code)) /\ Len(lanes') = Len(lanes)
  BY <1>1, <1>2, UpdateLaneType
<1> QED BY <1>3 DEF ReplaceIndirectJump, TypeOK, Blocks, listVars, blockVars

LEMMA FinishType == TypeOK /\ Finish => TypeOK'
<1> SUFFICES ASSUME TypeOK, Finish PROVE TypeOK'
  OBVIOUS
<1> DEFINE z == Len(code) + 1
           zs == <<z>>
<1>1. Len(code) \in Nat /\ CodeOK(code, succ)
  BY CodeAt DEF TypeOK
<1>2. CodeOK(code', succ') /\ Len(code') = z
  <2>1. <<Jmp(1)>> \in Seq(Instr) /\ {1} \in SUBSET Nat
    BY InstrType
  <2> QED BY <1>1, <2>1, CodeAppend DEF Finish
<1>3. before \in Seq(1 .. z) /\ after \in Seq(1 .. z) /\ processed \subseteq 1 .. z
      /\ zs \in Seq(1 .. z) /\ z \in Nat /\ LanesOK(lanes, z) /\ LanesOK(pending, z)
  BY <1>1, ListGrow, LanesGrow DEF TypeOK, Blocks
<1>4. /\ before' = zs \o before /\ pc' = "done"
      /\ UNCHANGED <<fn, after, processed, lanes, pending, takenLane, mbb, fakeBlock, originalFallThrough>>
  BY DEF Finish, laneVars, blockVars
<1>5. mbb \in 0 .. z /\ fakeBlock \in 0 .. z /\ originalFallThrough \in 0 .. z
  BY <1>1 DEF TypeOK
<1> HIDE DEF zs, z
<1>6. before' \in Seq(1 .. z)
  BY <1>3, <1>4, ListPrepend
<1> QED BY <1>2, <1>3, <1>4, <1>5, <1>6 DEF TypeOK, Blocks

\* The other actions at the end of a block change only the control state.
LEMMA OtherTermType ==
  TypeOK /\ (EmptyBlock \/ UnsupportedBranch \/ NoWayOut) => TypeOK'
BY DEF TypeOK, EmptyBlock, UnsupportedBranch, NoWayOut, NotABranch, Blocks, listVars, laneVars, blockVars

LEMMA TypeStep == TypeOK /\ [Next]_vars => TypeOK'
<1> SUFFICES ASSUME TypeOK, [Next]_vars PROVE TypeOK'
  OBVIOUS
<1>1. CASE NextBlock
  BY <1>1, NextBlockType
<1>2. CASE LaneStep
  BY <1>2, LaneArrivesType, LaneSkipsType, LaneCannotSkipType, LaneDiesType, LanesDoneType DEF LaneStep
<1>3. CASE TermStep
  BY <1>3, SplitJumpType, UnconditionalType, IndirectType, ConditionalType, NoBranchType,
     OtherTermType DEF TermStep
<1>4. CASE Finish
  BY <1>4, FinishType
<1>5. CASE UNCHANGED vars
  BY <1>5 DEF vars, TypeOK, Blocks
<1> QED BY <1>1, <1>2, <1>3, <1>4, <1>5 DEF Next, PassStep, Stopped

\* The pass stays within its data types: every block number it handles is
\* that of an existing block, whatever the function.
THEOREM TypeCorrect == Spec => []TypeOK
BY InitType, TypeStep, PTL DEF Spec

-----------------------------------------------------------------------------
(***************************************************************************)
(* The assertions.  The invariant is shown part by part.                   *)
(***************************************************************************)
LEMMA RangeFacts ==
  ASSUME NEW S, NEW s \in Seq(S)
  PROVE  /\ Range(s) \subseteq S /\ Range(<<>>) = {}
         /\ \A i \in DOMAIN s : s[i] \in Range(s)
BY DEF Range

LEMMA AppendFacts ==
  ASSUME NEW S, NEW s \in Seq(S), NEW e \in S
  PROVE  /\ \A i \in DOMAIN Append(s, e) :
              \/ i \in DOMAIN s /\ Append(s, e)[i] = s[i]
              \/ i = Len(s) + 1 /\ Append(s, e)[i] = e
         /\ Range(Append(s, e)) = Range(s) \cup {e}
<1>1. /\ DOMAIN s = 1 .. Len(s) /\ DOMAIN Append(s, e) = 1 .. Len(s) + 1 /\ Len(s) \in Nat
      /\ \A i \in 1 .. Len(s) : Append(s, e)[i] = s[i]
      /\ Append(s, e)[Len(s) + 1] = e
  OBVIOUS
<1>2. Range(Append(s, e)) \subseteq Range(s) \cup {e}
  BY <1>1 DEF Range
<1>3. Range(s) \cup {e} \subseteq Range(Append(s, e))
  <2>1. ASSUME NEW i \in 1 .. Len(s) PROVE s[i] \in Range(Append(s, e))
    BY <1>1 DEF Range
  <2>2. e \in Range(Append(s, e))
    BY <1>1 DEF Range
  <2> QED BY <1>1, <2>1, <2>2 DEF Range
<1> QED BY <1>1, <1>2, <1>3

LEMMA UpdateFacts ==
  ASSUME NEW S, NEW s \in Seq(S), NEW e \in S, NEW k \in 1 .. Len(s)
  PROVE  /\ DOMAIN [s EXCEPT ![k] = e] = DOMAIN s
         /\ \A i \in DOMAIN s : [s EXCEPT ![k] = e][i] = IF i = k THEN e ELSE s[i]
         /\ Range([s EXCEPT ![k] = e]) \subseteq Range(s) \cup {e}
BY DEF Range

LEMMA InitInvariant == Init /\ Supported(fn) => PassInvariant
<1> SUFFICES ASSUME Init, Supported(fn) PROVE PassInvariant
  OBVIOUS
<1> USE NAssumption
<1>1. /\ DOMAIN after = 1 .. N /\ Len(after) = N /\ \A k \in 1 .. N : after[k] = k
      /\ Range(after) = 1 .. N /\ pc = "block" /\ ~Visiting
  BY DEF Init, Range, Visiting
<1>2. AfterInOrder
  BY <1>1 DEF AfterInOrder
<1>3. AfterUntouched
  BY <1>1 DEF AfterUntouched, Untouched, Init
<1>4. VisitedOrAhead
  BY <1>1 DEF VisitedOrAhead
<1>5. \A l \in Range(lanes) \cup Range(pending) : l = EmptyLane
  BY DEF Range, Init
<1>6. LanesApart /\ LanesLeadAhead
  BY <1>1, <1>5 DEF LanesApart, LanesLeadAhead, Bound, Init, EmptyLane, Null, Range
<1> QED BY <1>1, <1>2, <1>3, <1>4, <1>6 DEF PassInvariant, AtBlock

\* A step that keeps the iterator where it is, and changes neither the blocks
\* ahead nor the block at hand, keeps the parts about blocks.
LEMMA BlocksFrame ==
  ASSUME PassInvariant, UNCHANGED <<fn, after, processed, mbb, fakeBlock, originalFallThrough>>,
         Visiting' => Visiting,
         \A x \in Range(after) : code'[x] = code[x] /\ succ'[x] = succ[x],
         Visiting' => code'[mbb] = code[mbb]
  PROVE  AfterInOrder' /\ AfterUntouched' /\ VisitedOrAhead' /\ AtBlock'
<1>1. AfterInOrder'
  BY DEF PassInvariant, AfterInOrder
<1>2. AfterUntouched'
  BY DEF PassInvariant, AfterUntouched, Untouched
<1>3. VisitedOrAhead'
  BY DEF PassInvariant, VisitedOrAhead
<1>4. AtBlock'
  BY DEF PassInvariant, AtBlock, last
<1> QED BY <1>1, <1>2, <1>3, <1>4

LEMMA NextBlockInvariant ==
  TypeOK /\ Supported(fn) /\ PassInvariant /\ NextBlock => PassInvariant'
<1> SUFFICES ASSUME TypeOK, Supported(fn), PassInvariant, NextBlock PROVE PassInvariant'
  OBVIOUS
<1> DEFINE b == Head(after)
           rest == Tail(after)
<1>1. /\ mbb' = b /\ after' = rest /\ processed' = processed \cup {b} /\ fn' = fn
      /\ originalFallThrough' = GetFallThrough(b, rest)
      /\ pending' = lanes /\ lanes' = <<>> /\ pc' = "lanes" /\ pc = "block" /\ after # <<>>
      /\ fakeBlock' = Null => ~NeedsFakeBlock(b, rest)
      /\ ~Visiting /\ Visiting'
  <2>1. NeedsFakeBlock(b, rest) => fakeBlock' = Len(code) + 1
    BY DEF NextBlock
  <2>2. Len(code) + 1 # Null
    BY CodeAt DEF TypeOK, Null
  <2> QED BY <2>1, <2>2 DEF NextBlock, Visiting
<1>2. /\ after \in Seq(Blocks) /\ b = after[1] /\ b \in Blocks /\ Len(after) \in Nat /\ Len(after) >= 1
      /\ rest \in Seq(Blocks) /\ Len(rest) = Len(after) - 1
      /\ \A k \in 1 .. Len(rest) : rest[k] = after[k + 1]
      /\ Range(after) = {b} \cup Range(rest)
  BY <1>1, TailFacts DEF TypeOK
<1>3. \A x \in Blocks : code'[x] = code[x] /\ succ'[x] = succ[x]
  <2>1. code \in Seq(Seq(Instr)) /\ succ \in Seq(SUBSET Nat) /\ Len(succ) = Len(code) /\ Len(code) \in Nat
    BY CodeAt DEF TypeOK, CodeOK
  <2>2. \/ code' = Append(code, <<JmpTarget>>) /\ succ' = Append(succ, {})
        \/ code' = code /\ succ' = succ
    BY DEF NextBlock
  <2>3. CASE code' = Append(code, <<JmpTarget>>) /\ succ' = Append(succ, {})
    BY <2>1, <2>3, InstrType DEF Blocks
  <2> QED BY <2>2, <2>3
<1> HIDE DEF b, rest
<1>4. AfterInOrder'
  <2>1. ASSUME NEW j \in DOMAIN rest, NEW k \in DOMAIN rest, rest[j] = rest[k] PROVE j = k
    <3>1. j + 1 \in DOMAIN after /\ k + 1 \in DOMAIN after /\ after[j + 1] = after[k + 1]
      BY <1>2, <2>1
    <3>2. j + 1 = k + 1
      BY <3>1 DEF PassInvariant, AfterInOrder
    <3> QED BY <3>2, <1>2
  <2>2. ASSUME NEW k \in DOMAIN rest, rest[k] < N PROVE k < Len(rest) /\ rest[k + 1] = rest[k] + 1
    <3>1. k + 1 \in DOMAIN after /\ after[k + 1] < N
      BY <1>2, <2>2
    <3>2. k + 1 < Len(after) /\ after[k + 1 + 1] = after[k + 1] + 1
      BY <3>1 DEF PassInvariant, AfterInOrder
    <3>3. k < Len(rest) /\ k + 1 \in 1 .. Len(rest) /\ k \in 1 .. Len(rest)
      BY <1>2, <3>2
    <3> QED BY <1>2, <3>2, <3>3
  <2>3. b \notin Range(rest)
    <3>1. SUFFICES ASSUME b \in Range(rest) PROVE FALSE
      OBVIOUS
    <3>2. PICK k \in DOMAIN rest : rest[k] = b
      BY <3>1 DEF Range
    <3>3. k + 1 \in DOMAIN after /\ 1 \in DOMAIN after /\ after[k + 1] = after[1] /\ k + 1 # 1
      BY <1>2, <3>2
    <3> QED BY <3>3 DEF PassInvariant, AfterInOrder
  <2> QED BY <1>1, <2>1, <2>2, <2>3 DEF AfterInOrder
<1>5. AfterUntouched'
  <2>1. ASSUME NEW x \in Range(rest) PROVE Untouched(x)'
    <3>1. x \in Range(after) /\ x \in Blocks
      BY <1>2, RangeFacts
    <3>2. code'[x] = code[x] /\ succ'[x] = succ[x] /\ fn' = fn
      BY <1>1, <1>3, <3>1
    <3> QED BY <3>1, <3>2 DEF PassInvariant, AfterUntouched, Untouched
  <2> QED BY <1>1, <2>1 DEF AfterUntouched
<1>6. VisitedOrAhead'
  BY <1>1, <1>2 DEF PassInvariant, VisitedOrAhead
<1>7. LanesApart' /\ LanesLeadAhead'
  <2>1. Ahead' = Range(after) /\ Ahead = Range(after)
    BY <1>1, <1>2 DEF Ahead
  <2>2. Range(<<>>) = {} /\ lanes \in Seq(Lane)
    BY RangeFacts DEF TypeOK, LanesOK
  <2>3. LanesApart'
    BY <1>1, <2>1, <2>2 DEF PassInvariant, LanesApart
  <2>4. LanesLeadAhead'
    <3>1. \A l \in Range(lanes) : Bound(l) => l.dest \in Range(after)
      BY <1>1, <2>2 DEF PassInvariant, LanesLeadAhead, Range
    <3> QED BY <1>1, <2>1, <3>1 DEF LanesLeadAhead
  <2> QED BY <2>3, <2>4
<1>8. AtBlock'
  <2>1. /\ code'[b] = code[b] /\ 1 \in DOMAIN after /\ after[1] = b /\ b \in Nat /\ N \in Nat
    BY <1>2, <1>3, NAssumption DEF Blocks
  <2>2. IF b <= N THEN code[b] = fn[b] /\ SourceSuccessors(fn, b) \subseteq succ[b]
        ELSE Len(code[b]) = 1 /\ code[b][1].op = "jmp" /\ SourceInstr(code[b][1])
    BY <1>2 DEF PassInvariant, AfterUntouched, Untouched
  <2>3. code[b] \in Seq(Instr)
    BY <1>2, CodeAt DEF TypeOK, Blocks
  <2>4. fakeBlock' = Null => after' = <<>> /\ IsReturn(last)'
    BY <1>1, <2>1 DEF NeedsFakeBlock, IsReturnBlock, last, IsReturn
  <2>5. CASE b <= N
    <3>1. /\ code[b] # <<>> /\ Last(code[b]).op # "stop"
          /\ \A i \in DOMAIN code[b] : code[b][i].op # "tailcc" /\ SourceInstr(code[b][i])
          /\ \A i \in DOMAIN code[b] : code[b][i].op = "jcc" => code[b][i].cc # NoCond
      <4>1. b \in 1 .. N /\ fn[b] \in Sources
        BY <2>5, <1>2, NAssumption DEF Blocks, TypeOK
      <4> QED BY <4>1, <2>2, <2>5, SourcesAssumption DEF Supported
    <3>2. ASSUME Last(code[b]).op \in {"body", "keep"} PROVE originalFallThrough' # Null
      <4>1. MayFall(fn[b]) /\ fn[b] # <<>>
        BY <3>1, <3>2, <2>2, <2>5 DEF MayFall
      <4>2. b < N
        BY <4>1, <2>1, <2>5 DEF TypeOK, WellFormed
      <4>3. 1 < Len(after) /\ after[1 + 1] = b + 1
        BY <4>2, <2>1 DEF PassInvariant, AfterInOrder
      <4>4. rest # <<>> /\ Head(rest) = b + 1
        BY <4>3, <1>2
      <4>5. b + 1 \in succ[b]
        BY <4>1, <4>2, <2>2, <2>5 DEF SourceSuccessors
      <4>6. ~IsBarrier(Last(code[b]))
        BY <3>2 DEF IsBarrier
      <4> QED BY <1>1, <2>1, <4>4, <4>5, <4>6 DEF GetFallThrough, Null
    <3> QED BY <1>1, <2>1, <2>4, <3>1, <3>2 DEF AtBlock
  <2>6. CASE b > N
    <3>1. /\ code[b] # <<>> /\ Last(code[b]) = code[b][1]
          /\ \A i \in DOMAIN code[b] : i = 1
      BY <2>1, <2>2, <2>3, <2>6 DEF Last
    <3> QED BY <1>1, <2>1, <2>2, <2>4, <2>6, <3>1 DEF AtBlock
  <2> QED BY <2>1, <2>5, <2>6
<1> QED BY <1>1, <1>4, <1>5, <1>6, <1>7, <1>8 DEF PassInvariant

\* The lane at hand, and the lanes behind it.
LEMMA LaneFacts ==
  ASSUME TypeOK, PassInvariant, pc = "lanes", pending # <<>>
  PROVE  /\ lane \in Lane /\ lane.current \in 0 .. Len(code) /\ Len(code) \in Nat
         /\ Visiting /\ mbb \in 1 .. Len(code) /\ mbb \in Ahead
         /\ lane \in Range(pending) /\ Range(Tail(pending)) \subseteq Range(pending)
         /\ lanes \in Seq(Lane) /\ Len(lanes) \in Nat
         /\ \A x \in Ahead : x \in 1 .. Len(code) /\ x # lane.current
<1>1. Len(code) \in Nat /\ Visiting /\ mbb \in 1 .. Len(code) /\ lanes \in Seq(Lane) /\ Len(lanes) \in Nat
  BY CodeAt DEF TypeOK, Visiting, Null, LanesOK
<1>2. lane \in Lane /\ lane.current \in 0 .. Len(code)
  BY <1>1, LanesTail DEF TypeOK, lane
<1>3. lane \in Range(pending) /\ Range(Tail(pending)) \subseteq Range(pending)
  BY TailFacts DEF TypeOK, LanesOK, lane
<1>4. Ahead \subseteq 1 .. Len(code) /\ mbb \in Ahead
  BY <1>1, RangeFacts DEF Ahead, TypeOK, Blocks
<1>5. lane.current # Null => lane.current \notin Ahead
  BY <1>3 DEF PassInvariant, LanesApart
<1> QED BY <1>1, <1>2, <1>3, <1>4, <1>5 DEF Null

\* While the lanes are gone through, the parts about lanes follow from what
\* becomes of the lane at hand.
LEMMA LanesFrame ==
  ASSUME TypeOK, PassInvariant, pc = "lanes", pending # <<>>,
         pc' = "lanes", pending' = Tail(pending), UNCHANGED <<after, mbb>>,
         \/ lanes' = lanes /\ takenLane' = takenLane
         \/ \E l \in Lane :
              /\ lanes' = Append(lanes, l)
              /\ l.current # Null => l.current > N /\ l.current \notin Ahead
              /\ \/ takenLane' = Len(lanes) + 1 /\ takenLane = Null
                 \/ takenLane' = takenLane /\ (Bound(l) => l.dest \in Range(after))
  PROVE  LanesApart' /\ LanesLeadAhead'
<1>1. /\ Visiting /\ Visiting' /\ lanes \in Seq(Lane) /\ Len(lanes) \in Nat
      /\ Range(pending') \subseteq Range(pending) /\ Ahead' = Ahead /\ Range(after') = Range(after)
  BY LaneFacts DEF Visiting, Ahead
<1>2. CASE lanes' = lanes /\ takenLane' = takenLane
  BY <1>1, <1>2 DEF PassInvariant, LanesApart, LanesLeadAhead
<1>3. ASSUME NEW l \in Lane, lanes' = Append(lanes, l),
             l.current # Null => l.current > N /\ l.current \notin Ahead,
             \/ takenLane' = Len(lanes) + 1 /\ takenLane = Null
             \/ takenLane' = takenLane /\ (Bound(l) => l.dest \in Range(after))
      PROVE  LanesApart' /\ LanesLeadAhead'
  <2>1. /\ Range(lanes') = Range(lanes) \cup {l}
        /\ \A i \in DOMAIN lanes' : \/ i \in DOMAIN lanes /\ lanes'[i] = lanes[i] /\ i # Null
                                    \/ i = Len(lanes) + 1 /\ lanes'[i] = l
    BY <1>1, <1>3, AppendFacts DEF Null
  <2>2. LanesApart'
    BY <1>1, <1>3, <2>1 DEF PassInvariant, LanesApart
  <2>3. ASSUME NEW i \in DOMAIN lanes', Bound(lanes'[i]), i # takenLane'
        PROVE  lanes'[i].dest \in Range(after)
    BY <1>3, <2>1, <2>3 DEF PassInvariant, LanesLeadAhead
  <2>4. LanesLeadAhead'
    BY <1>1, <2>3 DEF PassInvariant, LanesLeadAhead, Bound
  <2> QED BY <2>2, <2>4
<1> QED BY <1>2, <1>3

LEMMA LaneArrivesInvariant ==
  TypeOK /\ PassInvariant /\ LaneArrives => PassInvariant'
<1> SUFFICES ASSUME TypeOK, PassInvariant, LaneArrives PROVE PassInvariant'
  OBVIOUS
<1>1. /\ pc = "lanes" /\ pending # <<>> /\ pc' = "lanes" /\ Visiting' /\ pending' = Tail(pending)
      /\ UNCHANGED <<fn, before, after, processed, mbb, fakeBlock, originalFallThrough>>
  BY DEF LaneArrives, listVars, blockVars, Visiting
<1>2. ASSUME NEW x \in Ahead PROVE code'[x] = code[x] /\ succ'[x] = succ[x]
  <2>1. /\ code \in Seq(Seq(Instr)) /\ succ \in Seq(SUBSET Nat) /\ Len(succ) = Len(code)
        /\ x \in 1 .. Len(code) /\ x # lane.current
    BY <1>1, LaneFacts DEF TypeOK, CodeOK
  <2>2. CASE lane.current # Null
    <3>1. /\ code' = [code EXCEPT ![lane.current] = Append(code[lane.current], Jmp(mbb))]
          /\ succ' = [succ EXCEPT ![lane.current] = succ[lane.current] \cup {mbb}]
      BY <2>2 DEF LaneArrives
    <3> QED BY <2>1, <3>1
  <2>3. CASE lane.current = Null
    BY <2>3 DEF LaneArrives
  <2> QED BY <2>2, <2>3
<1>3. AfterInOrder' /\ AfterUntouched' /\ VisitedOrAhead' /\ AtBlock'
  BY <1>1, <1>2, LaneFacts, BlocksFrame DEF Ahead
<1>4. LanesApart' /\ LanesLeadAhead'
  <2>1. lane.current # Null => lane.current > N /\ lane.current \notin Ahead
    BY <1>1, LaneFacts DEF PassInvariant, LanesApart
  <2> QED BY <1>1, <2>1, LaneFacts, LanesFrame DEF LaneArrives
<1> QED BY <1>1, <1>3, <1>4 DEF PassInvariant

LEMMA LaneSkipsInvariant ==
  TypeOK /\ PassInvariant /\ LaneSkips => PassInvariant'
<1> SUFFICES ASSUME TypeOK, PassInvariant, LaneSkips PROVE PassInvariant'
  OBVIOUS
<1> DEFINE z == Len(code) + 1
           l == [lane EXCEPT !.current = z]
<1>1. /\ pc = "lanes" /\ pending # <<>> /\ pc' = "lanes" /\ Visiting' /\ pending' = Tail(pending)
      /\ UNCHANGED <<fn, after, processed, mbb, fakeBlock, originalFallThrough, takenLane>>
      /\ lanes' = Append(lanes, l) /\ ~Arrives(lane) /\ lane.current # Null
  BY DEF LaneSkips, blockVars, Visiting
<1>2. ASSUME NEW x \in Ahead PROVE code'[x] = code[x] /\ (x # mbb => succ'[x] = succ[x])
  <2>1. /\ code \in Seq(Seq(Instr)) /\ succ \in Seq(SUBSET Nat) /\ Len(succ) = Len(code)
        /\ x \in 1 .. Len(code) /\ x # lane.current
    BY <1>1, LaneFacts DEF TypeOK, CodeOK
  <2> QED BY <2>1 DEF LaneSkips
<1>3. AfterInOrder' /\ AfterUntouched' /\ VisitedOrAhead' /\ AtBlock'
  <2>1. mbb \notin Range(after) /\ Range(after) \subseteq Ahead /\ mbb \in Ahead /\ Visiting
    BY <1>1, LaneFacts DEF Ahead, PassInvariant, AfterInOrder
  <2> QED BY <1>1, <1>2, <2>1, BlocksFrame
<1>4. LanesApart' /\ LanesLeadAhead'
  <2>1. l \in Lane /\ l.current = z /\ l.dest = lane.dest /\ l.taken = lane.taken
    BY <1>1, LaneFacts DEF Lane
  <2>2. z > N /\ z \notin Ahead
    BY <1>1, LaneFacts, CodeAt, NAssumption DEF TypeOK
  <2>3. lane.dest \in Range(after)
    BY <1>1, LaneFacts DEF PassInvariant, LanesLeadAhead, Bound, Arrives, Ahead
  <2> HIDE DEF l
  <2> QED BY <1>1, <2>1, <2>2, <2>3, LanesFrame
<1> QED BY <1>1, <1>3, <1>4 DEF PassInvariant

\* The assertion on fakeBlock: when there is no block left, every lane that
\* is still under way is bound for the block at hand.
LEMMA LaneAlwaysSkips == TypeOK /\ PassInvariant => SkipHasFakeBlock
<1> SUFFICES ASSUME TypeOK, PassInvariant, pc = "lanes", pending # <<>>, ~Arrives(lane),
                    lane.current # Null, fakeBlock = Null
             PROVE FALSE
  BY DEF SkipHasFakeBlock
<1>1. after = <<>> /\ Range(<<>>) = {}
  BY RangeFacts DEF PassInvariant, AtBlock, Visiting, TypeOK
<1>2. lane.dest \in Ahead
  BY LaneFacts DEF PassInvariant, LanesLeadAhead, Bound, Arrives
<1> QED BY <1>1, <1>2, LaneFacts DEF Ahead, Arrives

LEMMA OtherLaneInvariant ==
  TypeOK /\ PassInvariant /\ (LaneCannotSkip \/ LaneDies \/ LanesDone) => PassInvariant'
<1> SUFFICES ASSUME TypeOK, PassInvariant, LaneCannotSkip \/ LaneDies \/ LanesDone PROVE PassInvariant'
  OBVIOUS
<1>1. CASE LaneCannotSkip
  BY <1>1, LaneAlwaysSkips DEF SkipHasFakeBlock, LaneCannotSkip
<1>2. CASE LaneDies
  <2>1. /\ pc = "lanes" /\ pending # <<>> /\ pc' = "lanes" /\ Visiting' /\ pending' = Tail(pending)
        /\ UNCHANGED <<fn, after, processed, mbb, fakeBlock, originalFallThrough, takenLane, lanes, code, succ>>
    BY <1>2 DEF LaneDies, listVars, blockVars, Visiting
  <2>2. AfterInOrder' /\ AfterUntouched' /\ VisitedOrAhead' /\ AtBlock'
    BY <2>1, LaneFacts, BlocksFrame
  <2>3. LanesApart' /\ LanesLeadAhead'
    BY <2>1, LanesFrame
  <2> QED BY <2>1, <2>2, <2>3 DEF PassInvariant
<1>3. CASE LanesDone
  <2>1. /\ pc = "lanes" /\ pending = <<>> /\ pc' = "term" /\ Visiting' /\ Visiting /\ pending' = pending
        /\ UNCHANGED <<fn, after, processed, mbb, fakeBlock, originalFallThrough, code, succ>>
        /\ lanes \in Seq(Lane) /\ Ahead' = Ahead /\ Range(after') = Range(after)
    BY <1>3 DEF LanesDone, listVars, blockVars, Visiting, TypeOK, LanesOK, Ahead
  <2>2. AfterInOrder' /\ AfterUntouched' /\ VisitedOrAhead' /\ AtBlock'
    BY <2>1, BlocksFrame
  <2>3. CASE takenLane # Null
    <3>1. lanes' = lanes /\ takenLane' = takenLane
      BY <1>3, <2>3 DEF LanesDone
    <3>2. LanesApart' /\ LanesLeadAhead'
      BY <2>1, <3>1 DEF PassInvariant, LanesApart, LanesLeadAhead
    <3> QED BY <2>1, <2>2, <3>2 DEF PassInvariant
  <2>4. CASE takenLane = Null
    <3>1. lanes' = Append(lanes, EmptyLane) /\ takenLane' = Len(lanes) + 1 /\ EmptyLane \in Lane
      BY <1>3, <2>4 DEF LanesDone, EmptyLane, Lane, Null
    <3>2. /\ Range(lanes') = Range(lanes) \cup {EmptyLane}
          /\ \A i \in DOMAIN lanes' : \/ i \in DOMAIN lanes /\ lanes'[i] = lanes[i] /\ i # Null
                                      \/ i = Len(lanes) + 1 /\ lanes'[i] = EmptyLane
      BY <2>1, <3>1, AppendFacts DEF Null
    <3>3. LanesApart'
      BY <2>1, <3>2 DEF PassInvariant, LanesApart, EmptyLane
    <3>4. LanesLeadAhead'
      BY <2>1, <2>4, <3>1, <3>2 DEF PassInvariant, LanesLeadAhead
    <3> QED BY <2>1, <2>2, <3>3, <3>4 DEF PassInvariant
  <2> QED BY <2>3, <2>4
<1> QED BY <1>1, <1>2, <1>3

\* When the last instruction of the block has been replaced, the parts about
\* lanes follow from what the lane *takenLane became.
LEMMA TermFrame ==
  ASSUME TypeOK, PassInvariant, pc = "term", pc' = "block",
         UNCHANGED <<fn, after, processed, pending, mbb, fakeBlock, originalFallThrough>>,
         \A x \in Range(after) : code'[x] = code[x] /\ succ'[x] = succ[x],
         \A i \in DOMAIN lanes' :
            \/ i \in DOMAIN lanes /\ i # takenLane /\ lanes'[i] = lanes[i]
            \/ /\ lanes'[i].current # Null => lanes'[i].current > N /\ lanes'[i].current \notin Range(after)
               /\ Bound(lanes'[i]) => lanes'[i].dest \in Range(after)
  PROVE  PassInvariant'
<1>1. /\ Visiting /\ ~Visiting' /\ pending = <<>> /\ pending' = <<>> /\ Range(<<>>) = {}
      /\ Range(after) \subseteq Ahead /\ Ahead' = Range(after) /\ Range(after') = Range(after)
  BY RangeFacts DEF Visiting, PassInvariant, LanesLeadAhead, Ahead, TypeOK
<1>2. AfterInOrder' /\ AfterUntouched' /\ VisitedOrAhead' /\ AtBlock'
  BY <1>1, BlocksFrame
<1>3. ASSUME NEW i \in DOMAIN lanes'
      PROVE  /\ lanes'[i].current # Null => lanes'[i].current > N /\ lanes'[i].current \notin Range(after)
             /\ Bound(lanes'[i]) => lanes'[i].dest \in Range(after)
  <2>1. CASE i \in DOMAIN lanes /\ i # takenLane /\ lanes'[i] = lanes[i]
    <3>1. lanes[i] \in Range(lanes)
      BY <2>1 DEF Range
    <3> QED BY <1>1, <2>1, <3>1 DEF PassInvariant, LanesApart, LanesLeadAhead
  <2> QED BY <2>1
<1>4. LanesApart'
  BY <1>1, <1>3 DEF LanesApart, Range
<1>5. LanesLeadAhead'
  BY <1>1, <1>3 DEF LanesLeadAhead, Bound
<1> QED BY <1>2, <1>4, <1>5 DEF PassInvariant

\* What the end of a block knows before it changes anything.
LEMMA AtTerm ==
  ASSUME TypeOK, PassInvariant, pc = "term"
  PROVE  /\ Visiting /\ Len(code) \in Nat /\ N \in Nat /\ Len(code) >= N /\ mbb \in 1 .. Len(code)
         /\ code \in Seq(Seq(Instr)) /\ succ \in Seq(SUBSET Nat) /\ Len(succ) = Len(code)
         /\ lanes \in Seq(Lane) /\ takenLane \in 1 .. Len(lanes)
         /\ \A x \in Range(after) : x \in 1 .. Len(code) /\ x # mbb
         /\ code[mbb] # <<>> /\ code[mbb] \in Seq(Instr) /\ SourceInstr(last)
         /\ \A b \in 1 .. N : b \in processed \/ b \in Range(after)
<1>1. Visiting
  BY DEF Visiting
<1>2. /\ Len(code) \in Nat /\ mbb \in 1 .. Len(code) /\ code[mbb] \in Seq(Instr)
      /\ takenLane \in 1 .. Len(lanes) /\ CodeOK(code, succ)
  <2>1. code[mbb] # <<>>
    BY <1>1 DEF PassInvariant, AtBlock
  <2> QED BY <2>1, TermFacts
<1>3. \A x \in Range(after) : x \in 1 .. Len(code) /\ x # mbb
  BY <1>1, RangeFacts DEF TypeOK, Blocks, PassInvariant, AfterInOrder
<1>4. code[mbb] # <<>> /\ SourceInstr(last)
  <2>1. code[mbb] # <<>> /\ \A i \in DOMAIN code[mbb] : SourceInstr(code[mbb][i])
    BY <1>1 DEF PassInvariant, AtBlock
  <2>2. Len(code[mbb]) \in DOMAIN code[mbb]
    BY <1>2, <2>1
  <2> QED BY <2>1, <2>2 DEF last, Last
<1> QED BY <1>1, <1>2, <1>3, <1>4, NAssumption DEF CodeOK, TypeOK, LanesOK, PassInvariant, VisitedOrAhead

\* The block list and the lanes after the usual change: a new last block, a
\* new tail of the block at hand, and the lane *takenLane led elsewhere.
LEMMA OneTrampoline ==
  ASSUME TypeOK, PassInvariant, pc = "term", pc' = "block",
         UNCHANGED <<fn, after, processed, pending, mbb, fakeBlock, originalFallThrough>>,
         NEW is \in Seq(Instr), NEW js \in Seq(Instr), NEW t \in SUBSET Nat, NEW u \in SUBSET Nat,
         code' = Append([code EXCEPT ![mbb] = is], js),
         succ' = Append([succ EXCEPT ![mbb] = t], u),
         NEW l \in Lane, lanes' = UpdateLane(l),
         l.current # Null => l.current > N /\ l.current \notin Range(after),
         Bound(l) => l.dest \in Range(after)
  PROVE  PassInvariant'
<1>1. ASSUME NEW x \in Range(after) PROVE code'[x] = code[x] /\ succ'[x] = succ[x]
  <2> DEFINE c1 == [code EXCEPT ![mbb] = is]
             s1 == [succ EXCEPT ![mbb] = t]
  <2>1. x \in 1 .. Len(code) /\ x # mbb /\ CodeOK(code, succ) /\ mbb \in 1 .. Len(code)
    BY AtTerm DEF TypeOK
  <2>2. /\ c1 \in Seq(Seq(Instr)) /\ s1 \in Seq(SUBSET Nat) /\ Len(c1) = Len(code) /\ Len(s1) = Len(code)
        /\ c1[x] = code[x] /\ s1[x] = succ[x]
    BY <2>1, AtTerm
  <2>3. code' = Append(c1, js) /\ succ' = Append(s1, u)
    OBVIOUS
  <2> HIDE DEF c1, s1
  <2> QED BY <2>1, <2>2, <2>3
<1>2. ASSUME NEW i \in DOMAIN lanes'
      PROVE  \/ i \in DOMAIN lanes /\ i # takenLane /\ lanes'[i] = lanes[i]
             \/ lanes'[i] = l
  BY AtTerm, UpdateFacts DEF UpdateLane
<1> QED BY <1>1, <1>2, TermFrame

LEMMA IndirectInvariant ==
  TypeOK /\ PassInvariant /\ ReplaceIndirectJump => PassInvariant'
<1> SUFFICES ASSUME TypeOK, PassInvariant, ReplaceIndirectJump PROVE PassInvariant'
  OBVIOUS
<1>1. /\ pc = "term" /\ pc' = "block" /\ lanes' = UpdateLane(DeadLane)
      /\ UNCHANGED <<fn, after, processed, pending, mbb, fakeBlock, originalFallThrough, code, succ>>
  BY DEF ReplaceIndirectJump, listVars, blockVars
<1>2. DeadLane \in Lane /\ DeadLane.current = Null /\ ~Bound(DeadLane)
  BY DEF DeadLane, Lane, Null, Bound
<1>3. ASSUME NEW i \in DOMAIN lanes'
      PROVE  \/ i \in DOMAIN lanes /\ i # takenLane /\ lanes'[i] = lanes[i]
             \/ lanes'[i] = DeadLane
  BY <1>1, <1>2, AtTerm, UpdateFacts DEF UpdateLane
<1> QED BY <1>1, <1>2, <1>3, TermFrame

LEMMA UnconditionalInvariant ==
  TypeOK /\ PassInvariant /\ ReplaceUnconditionalJump => PassInvariant'
<1> SUFFICES ASSUME TypeOK, PassInvariant, ReplaceUnconditionalJump PROVE PassInvariant'
  OBVIOUS
<1> DEFINE z == Len(code) + 1
<1>1. /\ pc = "term" /\ pc' = "block"
      /\ UNCHANGED <<fn, after, processed, pending, mbb, fakeBlock, originalFallThrough>>
  BY DEF ReplaceUnconditionalJump, blockVars
<1>2. PICK dst \in last.to :
        /\ code' = Append([code EXCEPT ![mbb] = Append(Front(code[mbb]), Lea(z))],
                          IF dst \in processed THEN <<Jmp(dst)>> ELSE <<>>)
        /\ succ' = Append([succ EXCEPT ![mbb] = succ[mbb] \cup {z}],
                          IF dst \in processed THEN {dst} ELSE {})
        /\ lanes' = UpdateLane(IF dst \in processed THEN DeadLane
                                ELSE [current |-> z, dest |-> dst, taken |-> FALSE])
  BY DEF ReplaceUnconditionalJump
<1> DEFINE is == Append(Front(code[mbb]), Lea(z))
           js == IF dst \in processed THEN <<Jmp(dst)>> ELSE <<>>
           t == succ[mbb] \cup {z}
           u == IF dst \in processed THEN {dst} ELSE {}
           l == IF dst \in processed THEN DeadLane ELSE [current |-> z, dest |-> dst, taken |-> FALSE]
<1>3. dst \in 1 .. N /\ dst \in Nat /\ z \in Nat /\ z > N /\ z \notin Range(after) /\ z # Null
  BY <1>1, AtTerm DEF SourceInstr, Null
<1>4. is \in Seq(Instr) /\ js \in Seq(Instr) /\ t \in SUBSET Nat /\ u \in SUBSET Nat
  BY <1>1, <1>3, AtTerm, TermFacts, InstrType
<1>5. /\ l \in Lane /\ (l.current # Null => l.current = z)
      /\ (Bound(l) => l.dest \in Range(after))
  BY <1>1, <1>3, AtTerm DEF Lane, DeadLane, Bound, Null
<1>6. /\ code' = Append([code EXCEPT ![mbb] = is], js) /\ succ' = Append([succ EXCEPT ![mbb] = t], u)
      /\ lanes' = UpdateLane(l)
  BY <1>2
<1> HIDE DEF is, js, t, u, l, z
<1> QED BY <1>1, <1>3, <1>4, <1>5, <1>6, OneTrampoline

LEMMA NoBranchInvariant ==
  TypeOK /\ PassInvariant /\ ReplaceNoBranchBlock => PassInvariant'
<1> SUFFICES ASSUME TypeOK, PassInvariant, ReplaceNoBranchBlock PROVE PassInvariant'
  OBVIOUS
<1> DEFINE z == Len(code) + 1
<1>1. /\ pc = "term" /\ pc' = "block"
      /\ UNCHANGED <<fn, after, processed, pending, mbb, fakeBlock, originalFallThrough>>
  BY DEF ReplaceNoBranchBlock, NotABranch, blockVars
<1>2. CASE originalFallThrough # Null
  <2> DEFINE is == Append(code[mbb], Lea(z))
             js == <<>>
             t == succ[mbb] \cup {z}
             u == {}
             l == [current |-> z, dest |-> Null, taken |-> TRUE]
  <2>1. z \in Nat /\ z > N /\ z \notin Range(after) /\ z # Null
    BY <1>1, AtTerm DEF Null
  <2>2. is \in Seq(Instr) /\ js \in Seq(Instr) /\ t \in SUBSET Nat /\ u \in SUBSET Nat
    BY <1>1, <2>1, AtTerm, InstrType
  <2>3. l \in Lane /\ l.current = z /\ ~Bound(l)
    BY <2>1 DEF Lane, Bound, Null
  <2>4. /\ code' = Append([code EXCEPT ![mbb] = is], js) /\ succ' = Append([succ EXCEPT ![mbb] = t], u)
        /\ lanes' = UpdateLane(l)
    BY <1>2 DEF ReplaceNoBranchBlock
  <2> HIDE DEF is, js, t, u, l, z
  <2> QED BY <1>1, <2>1, <2>2, <2>3, <2>4, OneTrampoline
<1>3. CASE originalFallThrough = Null
  <2>1. lanes' = UpdateLane(DeadLane) /\ UNCHANGED <<code, succ>>
    BY <1>3 DEF ReplaceNoBranchBlock
  <2>2. DeadLane \in Lane /\ DeadLane.current = Null /\ ~Bound(DeadLane)
    BY DEF DeadLane, Lane, Null, Bound
  <2>3. ASSUME NEW i \in DOMAIN lanes'
        PROVE  \/ i \in DOMAIN lanes /\ i # takenLane /\ lanes'[i] = lanes[i]
               \/ lanes'[i] = DeadLane
    BY <1>1, <2>1, <2>2, AtTerm, UpdateFacts DEF UpdateLane
  <2> QED BY <1>1, <2>1, <2>2, <2>3, TermFrame
<1> QED BY <1>2, <1>3

LEMMA ConditionalInvariant ==
  TypeOK /\ PassInvariant /\ ReplaceConditionalBranch => PassInvariant'
<1> SUFFICES ASSUME TypeOK, PassInvariant, ReplaceConditionalBranch PROVE PassInvariant'
  OBVIOUS
<1> DEFINE z == Len(code) + 1
           fallLane == [current |-> z, dest |-> Null, taken |-> TRUE]
<1>1. /\ pc = "term" /\ pc' = "block"
      /\ UNCHANGED <<fn, after, processed, pending, mbb, fakeBlock, originalFallThrough>>
  BY DEF ReplaceConditionalBranch, blockVars
<1>2. PICK dst \in last.to :
        /\ code' = [code EXCEPT ![mbb] = Front(code[mbb]) \o <<Lea(z), LeaTmp(z + 1), CMov(last.cc)>>]
                      \o << <<>>, IF dst \in processed THEN <<Jmp(dst)>> ELSE <<>> >>
        /\ succ' = [succ EXCEPT ![mbb] = succ[mbb] \cup {z, z + 1}]
                      \o << {}, IF dst \in processed THEN {dst} ELSE {} >>
        /\ lanes' = IF dst \in processed THEN UpdateLane(fallLane)
                     ELSE Append(UpdateLane(fallLane), [current |-> z + 1, dest |-> dst, taken |-> FALSE])
  BY DEF ReplaceConditionalBranch
<1> DEFINE jumpLane == [current |-> z + 1, dest |-> dst, taken |-> FALSE]
<1>3. /\ dst \in 1 .. N /\ dst \in Nat /\ z \in Nat /\ z > N /\ z \notin Range(after) /\ z # Null
      /\ z + 1 > N /\ z + 1 \notin Range(after)
  BY <1>1, AtTerm DEF SourceInstr, Null
<1>4. ASSUME NEW x \in Range(after) PROVE code'[x] = code[x] /\ succ'[x] = succ[x]
  <2> DEFINE is == Front(code[mbb]) \o <<Lea(z), LeaTmp(z + 1), CMov(last.cc)>>
             js == IF dst \in processed THEN <<Jmp(dst)>> ELSE <<>>
             t == succ[mbb] \cup {z, z + 1}
             u == IF dst \in processed THEN {dst} ELSE {}
             c1 == [code EXCEPT ![mbb] = is]
             s1 == [succ EXCEPT ![mbb] = t]
             c2 == << <<>>, js >>
             s2 == << {}, u >>
  <2>1. /\ x \in 1 .. Len(code) /\ x # mbb /\ mbb \in 1 .. Len(code) /\ Len(code) \in Nat
        /\ code \in Seq(Seq(Instr)) /\ succ \in Seq(SUBSET Nat) /\ Len(succ) = Len(code)
    BY <1>1, AtTerm
  <2>2. <<Lea(z), LeaTmp(z + 1), CMov(last.cc)>> \in Seq(Instr)
    BY <1>1, <1>3, AtTerm, TermFacts, InstrType
  <2>3. Front(code[mbb]) \in Seq(Instr)
    BY <1>1, AtTerm, TermFacts
  <2>4. is \in Seq(Instr)
    BY <2>2, <2>3
  <2>5. js \in Seq(Instr) /\ t \in SUBSET Nat /\ u \in SUBSET Nat
    BY <1>1, <1>3, TermFacts, InstrType
  <2>6. code' = c1 \o c2 /\ succ' = s1 \o s2
    BY <1>2
  <2> HIDE DEF is, js, t, u
  <2>7. /\ c1 \in Seq(Seq(Instr)) /\ s1 \in Seq(SUBSET Nat) /\ Len(c1) = Len(code) /\ Len(s1) = Len(code)
        /\ c1[x] = code[x] /\ s1[x] = succ[x]
    BY <2>1, <2>4, <2>5
  <2>8. c2 \in Seq(Seq(Instr)) /\ s2 \in Seq(SUBSET Nat)
    BY <2>5
  <2> HIDE DEF c1, s1, c2, s2
  <2>9. (c1 \o c2)[x] = c1[x] /\ (s1 \o s2)[x] = s1[x]
    BY <2>1, <2>7, <2>8
  <2> QED BY <2>6, <2>7, <2>9
<1>5. /\ fallLane \in Lane /\ fallLane.current = z /\ ~Bound(fallLane)
      /\ jumpLane \in Lane /\ jumpLane.current = z + 1 /\ jumpLane.dest = dst
  BY <1>3 DEF Lane, Bound, Null
<1>6. dst \notin processed => dst \in Range(after)
  BY <1>1, <1>3, AtTerm
<1>7. \/ lanes' = UpdateLane(fallLane)
      \/ dst \notin processed /\ lanes' = Append(UpdateLane(fallLane), jumpLane)
  BY <1>2
<1> HIDE DEF fallLane, jumpLane, z
<1>8. ASSUME NEW i \in DOMAIN lanes'
      PROVE  \/ i \in DOMAIN lanes /\ i # takenLane /\ lanes'[i] = lanes[i]
             \/ lanes'[i] = fallLane
             \/ dst \notin processed /\ lanes'[i] = jumpLane
  <2> DEFINE ls == UpdateLane(fallLane)
  <2>1. /\ ls \in Seq(Lane) /\ DOMAIN ls = DOMAIN lanes
        /\ \A j \in DOMAIN lanes : ls[j] = IF j = takenLane THEN fallLane ELSE lanes[j]
    BY <1>1, <1>5, AtTerm, UpdateFacts DEF UpdateLane
  <2>2. lanes' = ls \/ (dst \notin processed /\ lanes' = Append(ls, jumpLane))
    BY <1>7
  <2> HIDE DEF ls
  <2>3. CASE lanes' = ls
    BY <2>1, <2>3
  <2>4. CASE dst \notin processed /\ lanes' = Append(ls, jumpLane)
    <3>1. (i \in DOMAIN ls /\ lanes'[i] = ls[i]) \/ lanes'[i] = jumpLane
      BY <1>5, <2>1, <2>4, AppendFacts
    <3> QED BY <2>1, <2>4, <3>1
  <2> QED BY <2>2, <2>3, <2>4
<1> QED BY <1>1, <1>3, <1>4, <1>5, <1>6, <1>8, TermFrame

LEMMA SplitJumpInvariant ==
  TypeOK /\ PassInvariant /\ SplitJump => PassInvariant'
<1> SUFFICES ASSUME TypeOK, PassInvariant, SplitJump PROVE PassInvariant'
  OBVIOUS
<1> DEFINE z == Len(code) + 1
           is == Front(code[mbb])
<1>1. /\ pc = "term" /\ pc' = "term" /\ Visiting /\ Visiting'
      /\ UNCHANGED <<fn, processed, lanes, pending, takenLane, mbb, fakeBlock, originalFallThrough>>
      /\ after' = <<z>> \o after /\ last.op = "jmp"
      /\ Len(code[mbb]) > 1 /\ IsConditionalBranch(code[mbb][Len(code[mbb]) - 1])
  BY DEF SplitJump, laneVars, blockVars, Visiting, IsUnconditionalBranch
<1>2. /\ z \in Nat /\ z > N /\ z \notin Ahead /\ mbb # z /\ mbb \notin Range(after)
      /\ Ahead = Range(after) \cup {mbb}
  BY <1>1, AtTerm DEF Ahead
<1>3. /\ Range(after') = {z} \cup Range(after) /\ Len(after') = Len(after) + 1 /\ after'[1] = z
      /\ \A i \in 1 .. Len(after) : after'[i + 1] = after[i]
      /\ Len(after) \in Nat /\ DOMAIN after = 1 .. Len(after) /\ DOMAIN after' = 1 .. Len(after) + 1
      /\ \A i \in DOMAIN after : after[i] \in Range(after) /\ after[i] \in Nat
  <2>1. after \in Seq(1 .. z) /\ z \in 1 .. z
    BY <1>1, <1>2, AtTerm, ListGrow DEF TypeOK, Blocks
  <2>2. after' \in Seq(1 .. z)
    BY <1>1, <2>1, ConsFacts
  <2> HIDE DEF z
  <2>3. \A i \in DOMAIN after : after[i] \in Range(after) /\ after[i] \in Nat
    BY <2>1, RangeFacts
  <2> QED BY <1>1, <2>1, <2>2, <2>3, ConsFacts
<1>4. /\ code'[z] = <<last>> /\ code'[mbb] = is
      /\ \A x \in Range(after) : code'[x] = code[x] /\ succ'[x] = succ[x]
  <2> DEFINE t == succ[mbb] \cup {z}
             c1 == [code EXCEPT ![mbb] = is]
             s1 == [succ EXCEPT ![mbb] = t]
  <2>1. /\ is \in Seq(Instr) /\ t \in SUBSET Nat /\ <<last>> \in Seq(Instr)
        /\ code \in Seq(Seq(Instr)) /\ succ \in Seq(SUBSET Nat) /\ Len(succ) = Len(code)
        /\ mbb \in 1 .. Len(code)
    BY <1>1, AtTerm, TermFacts
  <2>2. code' = Append(c1, <<last>>) /\ succ' = Append(s1, {})
    BY DEF SplitJump
  <2> HIDE DEF is, t
  <2>3. /\ c1 \in Seq(Seq(Instr)) /\ s1 \in Seq(SUBSET Nat) /\ Len(c1) = Len(code) /\ Len(s1) = Len(code)
        /\ c1[mbb] = is /\ \A x \in 1 .. Len(code) : x # mbb => c1[x] = code[x] /\ s1[x] = succ[x]
    BY <2>1
  <2> HIDE DEF c1, s1
  <2> DEFINE js == <<last>>
  <2>4. js \in Seq(Instr) /\ code' = Append(c1, js) /\ {} \in SUBSET Nat
    BY <2>1, <2>2
  <2> HIDE DEF js
  <2>5. code'[z] = js /\ \A x \in 1 .. Len(code) : code'[x] = c1[x]
    BY <2>4, <2>3
  <2>6. \A x \in 1 .. Len(code) : succ'[x] = s1[x]
    BY <2>4, <2>2, <2>3
  <2>7. /\ code'[z] = <<last>> /\ \A x \in 1 .. Len(code) : code'[x] = c1[x] /\ succ'[x] = s1[x]
    BY <2>5, <2>6 DEF js
  <2> QED BY <1>1, <2>1, <2>3, <2>7, AtTerm
<1>5. AfterInOrder'
  <2> HIDE DEF z
  <2>1. ASSUME NEW j \in DOMAIN after', NEW k \in DOMAIN after', after'[j] = after'[k] PROVE j = k
    <3>1. ASSUME NEW i \in DOMAIN after', i # 1
          PROVE  i - 1 \in DOMAIN after /\ after'[i] = after[i - 1] /\ after'[i] # z /\ i \in Nat
      BY <1>2, <1>3, <3>1
    <3>2. CASE j = 1 \/ k = 1
      BY <1>3, <2>1, <3>1, <3>2
    <3>3. CASE j # 1 /\ k # 1
      <4>1. j - 1 = k - 1
        BY <2>1, <3>1, <3>3 DEF PassInvariant, AfterInOrder
      <4> QED BY <4>1, <3>1, <3>3
    <3> QED BY <3>2, <3>3
  <2>2. ASSUME NEW k \in DOMAIN after', after'[k] < N
        PROVE  k < Len(after') /\ after'[k + 1] = after'[k] + 1
    <3>1. k # 1 /\ k - 1 \in DOMAIN after /\ after'[k] = after[k - 1]
      BY <1>2, <1>3, <2>2, NAssumption
    <3>2. k - 1 < Len(after) /\ after[k - 1 + 1] = after[k - 1] + 1
      BY <2>2, <3>1 DEF PassInvariant, AfterInOrder
    <3>3. k \in 1 .. Len(after) /\ after[k] = after[k - 1] + 1
      BY <1>3, <3>1, <3>2
    <3> QED BY <1>3, <3>1, <3>3
  <2> QED BY <1>1, <1>2, <1>3, <2>1, <2>2 DEF AfterInOrder
<1>6. AfterUntouched'
  <2>1. ASSUME NEW x \in Range(after) PROVE Untouched(x)'
    BY <1>1, <1>4, <2>1 DEF PassInvariant, AfterUntouched, Untouched
  <2>2. ASSUME NEW x \in {z} PROVE Untouched(x)'
    <3>1. SourceInstr(last) /\ ~(x <= N)
      BY <1>1, <1>2, AtTerm, NAssumption
    <3>2. Len(<<last>>) = 1 /\ <<last>>[1] = last
      OBVIOUS
    <3>3. Len(code'[x]) = 1 /\ code'[x][1] = last
      BY <1>4, <3>2
    <3> HIDE DEF z
    <3> QED BY <1>1, <3>1, <3>3 DEF Untouched
  <2> QED BY <1>3, <2>1, <2>2 DEF AfterUntouched
<1>7. VisitedOrAhead'
  BY <1>1, <1>3 DEF PassInvariant, VisitedOrAhead
<1>8. LanesApart' /\ LanesLeadAhead'
  <2>1. Ahead' = Ahead \cup {z}
    BY <1>1, <1>2, <1>3 DEF Ahead
  <2>2. \A l \in Range(lanes) \cup Range(pending) : l.current # z
    <3>1. ASSUME NEW i \in DOMAIN lanes PROVE lanes[i].current # z
      <4>1. lanes[i].current \in 0 .. Len(code) /\ Len(code) \in Nat
        BY <1>1, AtTerm DEF TypeOK, LanesOK
      <4> QED BY <4>1
    <3>2. pending = <<>>
      BY <1>1 DEF PassInvariant, LanesLeadAhead
    <3> QED BY <3>1, <3>2 DEF Range
  <2> QED BY <1>1, <1>3, <2>1, <2>2 DEF PassInvariant, LanesApart, LanesLeadAhead
<1>9. AtBlock'
  <2> DEFINE n == Len(code[mbb])
  <2>1. /\ code[mbb] \in Seq(Instr) /\ n \in Nat /\ n > 1 /\ DOMAIN code[mbb] = 1 .. n
        /\ \A i \in DOMAIN code[mbb] : SourceInstr(code[mbb][i]) /\ code[mbb][i].op # "tailcc"
        /\ \A i \in DOMAIN code[mbb] : code[mbb][i].op = "jcc" => code[mbb][i].cc # NoCond
        /\ fakeBlock # Null
    <3>1. ~IsReturn(last)
      BY <1>1 DEF IsReturn
    <3> QED BY <1>1, <3>1, AtTerm DEF PassInvariant, AtBlock
  <2>2. Len(is) = n - 1 /\ DOMAIN is = 1 .. n - 1 /\ \A i \in 1 .. n - 1 : is[i] = code[mbb][i]
    BY <2>1 DEF Front
  <2>3. Last(is) = code[mbb][n - 1] /\ is # <<>>
    BY <2>1, <2>2 DEF Last
  <2>4. Last(is).op = "jcc"
    <3>1. n - 1 \in DOMAIN code[mbb]
      BY <2>1
    <3> QED BY <1>1, <2>1, <2>3, <3>1 DEF IsConditionalBranch
  <2>5. \A i \in DOMAIN is : SourceInstr(is[i]) /\ is[i].op # "tailcc" /\ (is[i].op = "jcc" => is[i].cc # NoCond)
    BY <2>1, <2>2
  <2> HIDE DEF is, n
  <2> QED BY <1>1, <1>4, <2>1, <2>3, <2>4, <2>5 DEF AtBlock
<1> QED BY <1>1, <1>5, <1>6, <1>7, <1>8, <1>9 DEF PassInvariant

\* No block of a supported function is empty, ends in a conditional tail
\* call or in a branch that tests no flag, or does not branch and has no
\* way out.
LEMMA NotTakenAtTerm ==
  TypeOK /\ PassInvariant => ~EmptyBlock /\ ~UnsupportedBranch /\ ~NoWayOut
<1> SUFFICES ASSUME TypeOK, PassInvariant, pc = "term"
             PROVE  ~EmptyBlock /\ ~UnsupportedBranch /\ ~NoWayOut
  BY DEF EmptyBlock, UnsupportedBranch, NoWayOut, NotABranch
<1>1. code[mbb] # <<>> /\ SourceInstr(last) /\ Visiting
  BY AtTerm
<1>2. last.op # "tailcc" /\ (last.op = "jcc" => last.cc # NoCond)
  <2>1. Len(code[mbb]) \in DOMAIN code[mbb]
    BY <1>1, AtTerm
  <2> QED BY <1>1, <2>1 DEF PassInvariant, AtBlock, last, Last
<1>3. last.op # "stop" /\ (last.op \in {"body", "keep"} => originalFallThrough # Null)
  BY <1>1 DEF PassInvariant, AtBlock, last
<1>4. ~EmptyBlock
  BY <1>1 DEF EmptyBlock
<1>5. ~UnsupportedBranch
  BY <1>1, <1>2 DEF UnsupportedBranch, IsConditionalBranch, SourceInstr
<1>6. ~NoWayOut
  BY <1>1, <1>2, <1>3 DEF NoWayOut, NotABranch, LeavesBlock, IsUnconditionalBranch, IsIndirectBranch,
     IsConditionalBranch, IsReturn, IsCall, SourceInstr, SourceOps
<1> QED BY <1>4, <1>5, <1>6

LEMMA FinishInvariant == TypeOK /\ PassInvariant /\ Finish => PassInvariant'
<1> SUFFICES ASSUME TypeOK, PassInvariant, Finish PROVE PassInvariant'
  OBVIOUS
<1>1. /\ pc = "block" /\ pc' = "done" /\ after = <<>> /\ ~Visiting /\ ~Visiting' /\ Range(<<>>) = {}
      /\ UNCHANGED <<fn, after, processed, lanes, pending, takenLane, mbb, fakeBlock, originalFallThrough>>
  BY RangeFacts DEF Finish, laneVars, blockVars, Visiting, TypeOK
<1>2. AfterInOrder' /\ AfterUntouched' /\ VisitedOrAhead' /\ AtBlock'
  BY <1>1, BlocksFrame
<1>3. LanesApart' /\ LanesLeadAhead'
  BY <1>1 DEF PassInvariant, LanesApart, LanesLeadAhead, Ahead
<1> QED BY <1>1, <1>2, <1>3 DEF PassInvariant

LEMMA PassStepInvariant ==
  TypeOK /\ Supported(fn) /\ PassInvariant /\ [Next]_vars => PassInvariant'
<1> SUFFICES ASSUME TypeOK, Supported(fn), PassInvariant, [Next]_vars PROVE PassInvariant'
  OBVIOUS
<1>1. CASE NextBlock
  BY <1>1, NextBlockInvariant
<1>2. CASE LaneStep
  BY <1>2, LaneArrivesInvariant, LaneSkipsInvariant, OtherLaneInvariant DEF LaneStep
<1>3. CASE TermStep
  BY <1>3, SplitJumpInvariant, UnconditionalInvariant, IndirectInvariant, ConditionalInvariant,
     NoBranchInvariant, NotTakenAtTerm DEF TermStep
<1>4. CASE Finish
  BY <1>4, FinishInvariant
<1>5. CASE UNCHANGED vars
  BY <1>5 DEF vars, PassInvariant, AfterInOrder, AfterUntouched, Untouched, VisitedOrAhead, Ahead,
     LanesApart, LanesLeadAhead, AtBlock, Visiting, Bound, last
<1> QED BY <1>1, <1>2, <1>3, <1>4, <1>5 DEF Next, PassStep, Stopped

\* The pass never looks at fn again: whether it is supported does not change.
LEMMA FunctionFixed == [Next]_vars => fn' = fn
BY DEF Next, PassStep, LaneStep, TermStep, NextBlock, LaneArrives, LaneSkips, LaneCannotSkip, LaneDies,
   LanesDone, EmptyBlock, SplitJump, ReplaceUnconditionalJump, ReplaceIndirectJump,
   ReplaceConditionalBranch, UnsupportedBranch, NoWayOut, ReplaceNoBranchBlock, Finish, Stopped, vars

\* The inductive invariant holds throughout every run of the pass.
THEOREM InvariantHolds == Spec => []ConversionInvariant
<1>1. Init => ConversionInvariant
  BY InitType, InitInvariant DEF ConversionInvariant
<1>2. ConversionInvariant /\ [Next]_vars => ConversionInvariant'
  BY TypeStep, PassStepInvariant, FunctionFixed DEF ConversionInvariant, Supported
<1> QED BY <1>1, <1>2, PTL DEF Spec

\* Neither assertion of runOnMachineFunction fails, and no operand is found
\* unsupported, unless the function has an empty block, a block that ends in
\* a trap, or a conditional tail call.
THEOREM RefusesNothingElse == Spec => []RefusesOnlyUnsupported
<1>1. ConversionInvariant => RefusesOnlyUnsupported
  BY DEF ConversionInvariant, PassInvariant, RefusesOnlyUnsupported
<1> QED BY <1>1, InvariantHolds, PTL

\* The two conditions themselves, also for a build in which they are not
\* evaluated: a lane that must skip finds its fake block, and a block that
\* does not branch has a way out.
THEOREM AssertionsNeverFail == Spec => []AssertionsHold
<1>1. ConversionInvariant => AssertionsHold
  <2> SUFFICES ASSUME TypeOK, PassInvariant PROVE SkipHasFakeBlock /\ FallsThroughOrReturns
    BY DEF ConversionInvariant, AssertionsHold
  <2>1. SkipHasFakeBlock
    BY LaneAlwaysSkips
  <2>2. FallsThroughOrReturns
    <3> SUFFICES ASSUME NotABranch PROVE LeavesBlock
      BY DEF FallsThroughOrReturns
    <3>1. pc = "term" /\ Visiting
      BY DEF NotABranch, Visiting
    <3>2. SourceInstr(last) /\ last.op # "stop" /\ (last.op \in {"body", "keep"} => originalFallThrough # Null)
      BY <3>1, AtTerm DEF PassInvariant, AtBlock, last
    <3> QED BY <3>2 DEF NotABranch, LeavesBlock, IsUnconditionalBranch, IsIndirectBranch,
          IsConditionalBranch, IsReturn, IsCall, SourceInstr, SourceOps
  <2> QED BY <2>1, <2>2
<1> QED BY <1>1, InvariantHolds, PTL
=============================================================================
