------------------------------ MODULE PathProofs ------------------------------
(***************************************************************************)
(* Every path the pass builds for a supported function leads where the     *)
(* source went.  A goal g gives each block the source block it is on the   *)
(* way to: a source block is its own goal, a trampoline has the goal it    *)
(* was made for, and a split-off jump the target of that jump.  The goal   *)
(* of a block is fixed when the block is made and never changes.  The last *)
(* part is about the successors the pass records: they are enough for the  *)
(* labels of the blocks that the code names to be emitted.                 *)
(***************************************************************************)
EXTENDS LayoutProofs

\* Source block b, left after its first k instructions without a branch
\* taken, continues in t.
Continues(b, k, t) ==
  \/ k = Len(fn[b]) /\ t = b + 1
  \/ k < Len(fn[b]) /\ fn[b][k + 1].op = "jmp" /\ fn[b][k + 1].to = {t}

\* z is a block made by the pass that leads to t.
Leads(g, z, t) == z \in N + 1 .. Len(code) /\ ~Fake(z) /\ g[z] = t

\* A trampoline: on its way it loads only blocks with its own goal, and at
\* its end it jumps to its goal or to a fake block, having loaded R15.
Hop(g, b, i) == \E z \in N + 1 .. Len(code) : code[b][i] = Lea(z) /\ Leads(g, z, g[b])
Arrival(g, b, i) ==
  /\ i = Len(code[b])
  /\ \E t \in 1 .. Len(code) :
       /\ code[b][i] = Jmp(t)
       /\ IF Fake(t) THEN i > 1 /\ code[b][i - 1].op = "lea" ELSE g[t] = g[b]
Path(g, b) ==
  /\ code[b] # <<>> /\ Last(code[b]).op \in {"jmp", "lea"}
  /\ \A i \in 1 .. Len(code[b]) :
       (DummyInstr /\ code[b][i] = Add8Zero) \/ Hop(g, b, i) \/ Arrival(g, b, i)

\* A source block after its end has been converted: what it keeps of the
\* source, and where the addresses it loads lead.
Keeps(b, k) == k <= Len(fn[b]) /\ k <= Len(code[b]) /\ \A i \in 1 .. k : code[b][i] = fn[b][i]
EndsAsBefore(b) ==
  Keeps(b, Len(fn[b])) /\ Len(code[b]) = Len(fn[b]) /\ Last(fn[b]).op \in {"ret", "call", "ind"}
EndsInLea(g, b) ==
  \E k \in 0 .. Len(fn[b]), z \in N + 1 .. Len(code) :
    /\ Keeps(b, k) /\ Len(code[b]) = k + 1 /\ code[b][k + 1] = Lea(z)
    /\ (k > 0 => fn[b][k].op # "jcc") /\ (k = Len(fn[b]) => Last(fn[b]).op # "jmp")
    /\ \E t \in 1 .. N : Leads(g, z, t) /\ Continues(b, k, t)
EndsInCMov(g, b) ==
  \E k \in 1 .. Len(fn[b]), z, y \in N + 1 .. Len(code) :
    /\ Keeps(b, k - 1) /\ fn[b][k].op = "jcc" /\ Len(code[b]) = k + 2
    /\ code[b][k] = Lea(z) /\ code[b][k + 1] = LeaTmp(y) /\ code[b][k + 2] = CMov(fn[b][k].cc)
    /\ \E t, u \in 1 .. N : Leads(g, z, t) /\ Continues(b, k, t) /\ Leads(g, y, u) /\ fn[b][k].to = {u}
Converted(g, b) == EndsAsBefore(b) \/ EndsInLea(g, b) \/ EndsInCMov(g, b)

(***************************************************************************)
(* The parts of the invariant.                                             *)
(*  GoalOK: a source block is its own goal, and no fake block.             *)
(*  PathsOK, ConvertedOK: what is done is right.                           *)
(*  SplitGoals: a split-off jump still to be visited jumps to its goal.    *)
(*  AtSource: the source block at hand is the source's, except that the    *)
(*    jump behind a conditional one may have been split off.               *)
(*  LaneGoals: a lane is bound for the goal of the block it completes.     *)
(***************************************************************************)
GoalOK(g) ==
  /\ g \in [1 .. Len(code) -> 1 .. N]
  /\ \A b \in 1 .. N : g[b] = b /\ ~Fake(b)
PathsOK(g) ==
  \A b \in N + 1 .. Len(code) : b \in Ahead \/ code[b] = <<>> \/ Fake(b) \/ Path(g, b)
ConvertedOK(g) == \A b \in 1 .. N : b \in Ahead \/ Converted(g, b)
SplitGoals(g) ==
  \A b \in N + 1 .. Len(code) : b \in Ahead =>
    Len(code[b]) = 1 /\ code[b][1].op = "jmp" /\ code[b][1].to = {g[b]}
AtSource(g) ==
  Visiting /\ mbb <= N =>
    /\ Keeps(mbb, Len(code[mbb]))
    /\ after # <<>> => Continues(mbb, Len(code[mbb]), g[after[1]])
    /\ Last(code[mbb]).op = "jcc" => after # <<>>
    /\ Len(code[mbb]) < Len(fn[mbb]) => Last(code[mbb]).op = "jcc"
LaneGoals(g) ==
  /\ \A i \in OpenLanes :
       IF lanes[i].taken THEN ~Visiting /\ after # <<>> /\ g[lanes[i].current] = g[after[1]]
       ELSE g[lanes[i].current] = lanes[i].dest
  /\ \A i \in OpenPending :
       g[pending[i].current] = IF pending[i].taken THEN g[mbb] ELSE pending[i].dest
PathGoals(g) ==
  GoalOK(g) /\ PathsOK(g) /\ ConvertedOK(g) /\ SplitGoals(g) /\ AtSource(g) /\ LaneGoals(g)
PathInvariant == \E g : PathGoals(g)

-----------------------------------------------------------------------------
LEMMA FnFacts ==
  ASSUME Good, NEW b \in 1 .. N
  PROVE  /\ fn[b] \in Seq(Instr) /\ fn[b] # <<>> /\ Len(fn[b]) \in Nat /\ Len(fn[b]) >= 1
         /\ \A i \in 1 .. Len(fn[b]) : SourceInstr(fn[b][i]) /\ fn[b][i].op # "tailcc"
         /\ Last(fn[b]) = fn[b][Len(fn[b])] /\ Last(fn[b]).op # "stop"
<1>1. fn[b] \in Sources /\ fn[b] # <<>> /\ Last(fn[b]).op # "stop" /\ \A i \in DOMAIN fn[b] : fn[b][i].op # "tailcc"
  BY DEF Good, TypeOK, Supported
<1>2. fn[b] \in Seq(Instr) /\ \A i \in DOMAIN fn[b] : SourceInstr(fn[b][i])
  BY <1>1, SourcesAssumption
<1>3. Len(fn[b]) \in Nat /\ Len(fn[b]) >= 1 /\ Last(fn[b]) = fn[b][Len(fn[b])] /\ DOMAIN fn[b] = 1 .. Len(fn[b])
  <2> DEFINE c == fn[b]
  <2>1. c \in Seq(Instr) /\ c # <<>>
    BY <1>1, <1>2
  <2> HIDE DEF c
  <2>2. Len(c) \in Nat /\ Len(c) >= 1 /\ Last(c) = c[Len(c)] /\ DOMAIN c = 1 .. Len(c)
    BY <2>1 DEF Last
  <2> QED
    BY <2>2 DEF c
<1> QED
  BY <1>1, <1>2, <1>3

\* A goal h after the step that agrees with g on the blocks there were.
Kept(g, h) ==
  /\ Len(code') \in Nat /\ Len(code') >= Len(code) /\ FakesKept /\ fn' = fn
  /\ h \in [1 .. Len(code') -> 1 .. N]
  /\ \A b \in 1 .. Len(code) : h[b] = g[b]

LEMMA ExtendGoal ==
  ASSUME Good, NEW g, GoalOK(g), NEW x \in 1 .. N, NEW y \in 1 .. N,
         Len(code') \in Nat, Len(code') >= Len(code), FakesKept, fn' = fn
  PROVE  \E h : /\ Kept(g, h) /\ GoalOK(h)'
                /\ Len(code') >= Len(code) + 1 => h[Len(code) + 1] = x
                /\ Len(code') >= Len(code) + 2 => h[Len(code) + 2] = y
<1>1. PICK h : h = [b \in 1 .. Len(code') |-> IF b <= Len(code) THEN g[b]
                                              ELSE IF b = Len(code) + 1 THEN x ELSE y]
  OBVIOUS
<1>2. Len(code) \in Nat /\ N \in Nat /\ N <= Len(code) /\ g \in [1 .. Len(code) -> 1 .. N]
  BY SizeFacts DEF GoalOK
<1>3. /\ h \in [1 .. Len(code') -> 1 .. N] /\ \A b \in 1 .. Len(code) : h[b] = g[b]
      /\ Len(code') >= Len(code) + 1 => h[Len(code) + 1] = x
      /\ Len(code') >= Len(code) + 2 => h[Len(code) + 2] = y
  BY <1>1, <1>2
<1>4. \A b \in 1 .. N : h[b] = b /\ ~Fake(b)'
  BY <1>2, <1>3 DEF GoalOK, FakesKept
<1> QED
  BY <1>3, <1>4 DEF Kept, GoalOK

LEMMA LeadsFrame ==
  ASSUME Good, NEW g, NEW h, Kept(g, h), NEW z, NEW t, Leads(g, z, t)
  PROVE  Leads(h, z, t)' /\ z \in 1 .. Len(code)
<1>1. z \in 1 .. Len(code) /\ z \in N + 1 .. Len(code')
  BY SizeFacts DEF Leads, Kept
<1> QED
  BY <1>1 DEF Leads, Kept, FakesKept

LEMMA PathFrame ==
  ASSUME Good, NEW g, NEW h, Kept(g, h), NEW b \in 1 .. Len(code), code'[b] = code[b], Path(g, b)
  PROVE  Path(h, b)'
<1>1. h[b] = g[b] /\ N + 1 .. Len(code) \subseteq N + 1 .. Len(code') /\ 1 .. Len(code) \subseteq 1 .. Len(code')
  BY SizeFacts DEF Kept
<1>2. ASSUME NEW i \in 1 .. Len(code[b]), Hop(g, b, i) PROVE Hop(h, b, i)'
  <2>1. PICK z \in N + 1 .. Len(code) : code[b][i] = Lea(z) /\ Leads(g, z, g[b])
    BY <1>2 DEF Hop
  <2>2. Leads(h, z, g[b])'
    <3>1. PICK t : t = g[b]
      OBVIOUS
    <3> QED
      BY <2>1, <3>1, LeadsFrame
  <2>3. z \in N + 1 .. Len(code')
    BY <1>1
  <2> QED
    BY <1>1, <2>1, <2>2, <2>3 DEF Hop
<1>3. ASSUME NEW i \in 1 .. Len(code[b]), Arrival(g, b, i) PROVE Arrival(h, b, i)'
  <2>1. PICK t \in 1 .. Len(code) :
          /\ code[b][i] = Jmp(t)
          /\ IF Fake(t) THEN i > 1 /\ code[b][i - 1].op = "lea" ELSE g[t] = g[b]
    BY <1>3 DEF Arrival
  <2>2. t \in 1 .. Len(code') /\ (Fake(t)' <=> Fake(t)) /\ h[t] = g[t]
    BY <1>1, <2>1 DEF Kept, FakesKept
  <2> QED
    BY <1>1, <1>3, <2>1, <2>2 DEF Arrival
<1> QED
  BY <1>2, <1>3 DEF Path

LEMMA ConvertedFrame ==
  ASSUME Good, NEW g, NEW h, Kept(g, h), NEW b \in 1 .. N, code'[b] = code[b], Converted(g, b)
  PROVE  Converted(h, b)'
<1>1. fn' = fn /\ N + 1 .. Len(code) \subseteq N + 1 .. Len(code')
  BY SizeFacts DEF Kept
<1>2. \A k : Keeps(b, k)' <=> Keeps(b, k)
  BY <1>1 DEF Keeps
<1>3. \A k, t : Continues(b, k, t)' <=> Continues(b, k, t)
  BY <1>1 DEF Continues
<1>4. CASE EndsAsBefore(b)
  BY <1>1, <1>2, <1>4 DEF EndsAsBefore, Keeps, Converted
<1>5. CASE EndsInLea(g, b)
  <2>1. PICK k \in 0 .. Len(fn[b]), z \in N + 1 .. Len(code), t \in 1 .. N :
          /\ Keeps(b, k) /\ Len(code[b]) = k + 1 /\ code[b][k + 1] = Lea(z)
          /\ (k > 0 => fn[b][k].op # "jcc") /\ (k = Len(fn[b]) => Last(fn[b]).op # "jmp")
          /\ Leads(g, z, t) /\ Continues(b, k, t)
    BY <1>5 DEF EndsInLea
  <2>2. Leads(h, z, t)' /\ z \in N + 1 .. Len(code')
    BY <1>1, <2>1, LeadsFrame
  <2>3. EndsInLea(h, b)'
    BY <1>1, <1>2, <1>3, <2>1, <2>2 DEF EndsInLea
  <2> QED
    BY <2>3 DEF Converted
<1>6. CASE EndsInCMov(g, b)
  <2>1. PICK k \in 1 .. Len(fn[b]), z \in N + 1 .. Len(code), y \in N + 1 .. Len(code), t \in 1 .. N, u \in 1 .. N :
          /\ Keeps(b, k - 1) /\ fn[b][k].op = "jcc" /\ Len(code[b]) = k + 2
          /\ code[b][k] = Lea(z) /\ code[b][k + 1] = LeaTmp(y) /\ code[b][k + 2] = CMov(fn[b][k].cc)
          /\ Leads(g, z, t) /\ Continues(b, k, t) /\ Leads(g, y, u) /\ fn[b][k].to = {u}
    BY <1>6 DEF EndsInCMov
  <2>2. Leads(h, z, t)' /\ z \in N + 1 .. Len(code') /\ Leads(h, y, u)' /\ y \in N + 1 .. Len(code')
    BY <1>1, <2>1, LeadsFrame
  <2>3. EndsInCMov(h, b)'
    BY <1>1, <1>2, <1>3, <2>1, <2>2 DEF EndsInCMov
  <2> QED
    BY <2>3 DEF Converted
<1> QED
  BY <1>4, <1>5, <1>6 DEF Converted

LEMMA PathsStep ==
  ASSUME Good, NEW g, NEW h, Kept(g, h), PathsOK(g),
         \A b \in N + 1 .. Len(code) : b \in Ahead => b \in Ahead' \/ Path(h, b)',
         \A b \in N + 1 .. Len(code) :
           code'[b] = code[b] \/ b \in Ahead' \/ code'[b] = <<>> \/ Path(h, b)',
         \A b \in Len(code) + 1 .. Len(code') :
           b \in Ahead' \/ code'[b] = <<>> \/ code'[b] = <<JmpTarget>> \/ Path(h, b)'
  PROVE  PathsOK(h)'
<1> SUFFICES ASSUME NEW b \in N + 1 .. Len(code')
             PROVE  b \in Ahead' \/ code'[b] = <<>> \/ Fake(b)' \/ Path(h, b)'
  BY DEF PathsOK
<1>1. CASE b \in Len(code) + 1 .. Len(code')
  BY <1>1 DEF Fake
<1>2. CASE b \in N + 1 .. Len(code)
  <2>1. b \in 1 .. Len(code)
    BY <1>2, SizeFacts
  <2>2. CASE code'[b] = code[b]
    BY <1>2, <2>1, <2>2, PathFrame DEF PathsOK, Fake
  <2> QED
    BY <1>2, <2>2
<1> QED
  BY <1>1, <1>2, SizeFacts DEF Kept

LEMMA ConvertedStep ==
  ASSUME Good, NEW g, NEW h, Kept(g, h), ConvertedOK(g),
         \A b \in 1 .. N : b \in Ahead => b \in Ahead' \/ Converted(h, b)',
         \A b \in 1 .. N : b \in Ahead \/ code'[b] = code[b]
  PROVE  ConvertedOK(h)'
<1> SUFFICES ASSUME NEW b \in 1 .. N PROVE b \in Ahead' \/ Converted(h, b)'
  BY DEF ConvertedOK
<1>1. CASE b \in Ahead
  BY <1>1
<1>2. CASE b \notin Ahead
  BY <1>2, ConvertedFrame DEF ConvertedOK
<1> QED
  BY <1>1, <1>2

LEMMA SplitGoalsStep ==
  ASSUME Good, NEW g, NEW h, Kept(g, h), SplitGoals(g),
         \A b \in N + 1 .. Len(code) : b \in Ahead' => b \in Ahead /\ code'[b] = code[b],
         \A b \in Len(code) + 1 .. Len(code') : b \in Ahead' =>
           Len(code'[b]) = 1 /\ code'[b][1].op = "jmp" /\ code'[b][1].to = {h[b]}
  PROVE  SplitGoals(h)'
<1> SUFFICES ASSUME NEW b \in N + 1 .. Len(code'), b \in Ahead'
             PROVE  Len(code'[b]) = 1 /\ code'[b][1].op = "jmp" /\ code'[b][1].to = {h[b]}
  BY DEF SplitGoals
<1>1. CASE b \in N + 1 .. Len(code)
  <2>1. b \in 1 .. Len(code) /\ b \in Ahead /\ code'[b] = code[b]
    BY <1>1, SizeFacts
  <2> QED
    BY <1>1, <2>1 DEF SplitGoals, Kept
<1>2. CASE b \in Len(code) + 1 .. Len(code')
  BY <1>2
<1> QED
  BY <1>1, <1>2, SizeFacts DEF Kept

LEMMA InitGoals == Init /\ Good => PathInvariant
<1> SUFFICES ASSUME Init, Good PROVE \E g : PathGoals(g)
  BY DEF PathInvariant
<1>1. PICK g : g = [b \in 1 .. N |-> b]
  OBVIOUS
<1>2. N \in Nat /\ Len(code) = N /\ code = fn /\ ~Visiting /\ N + 1 .. N = {}
  BY NAssumption DEF Init, Visiting
<1>3. Ahead = 1 .. N
  <2>1. Range(after) = 1 .. N
    BY NAssumption DEF Init, Range
  <2> QED
    BY <1>2, <2>1 DEF Ahead
<1>4. OpenLanes = {} /\ OpenPending = {}
  BY DEF Init, OpenLanes, OpenPending, EmptyLane
<1>5. \A b \in 1 .. N : ~Fake(b)
  <2> SUFFICES ASSUME NEW b \in 1 .. N, Fake(b) PROVE FALSE
    OBVIOUS
  <2>1. Len(fn[b]) \in 1 .. Len(fn[b]) /\ Last(fn[b]).op = "jmpreg" /\ Last(fn[b]) = fn[b][Len(fn[b])]
    BY <1>2, FnFacts, FakeEnd
  <2>2. SourceInstr(Last(fn[b]))
    BY <2>1, FnFacts
  <2> QED
    BY <2>1, <2>2 DEF SourceInstr, SourceOps
<1>6. GoalOK(g)
  BY <1>1, <1>2, <1>5 DEF GoalOK
<1>7. PathsOK(g) /\ ConvertedOK(g) /\ SplitGoals(g)
  BY <1>2, <1>3 DEF PathsOK, ConvertedOK, SplitGoals
<1>8. AtSource(g) /\ LaneGoals(g)
  BY <1>2, <1>4 DEF AtSource, LaneGoals
<1> QED
  BY <1>6, <1>7, <1>8 DEF PathGoals

LEMMA NextBlockGoals == Good /\ Good' /\ LayoutOK /\ PathInvariant /\ NextBlock => PathInvariant'
<1> SUFFICES ASSUME Good, Good', LayoutOK, NextBlock, NEW g, PathGoals(g) PROVE \E h : PathGoals(h)'
  BY DEF PathInvariant
<1> DEFINE b == Head(after)
<1>1. /\ pc = "block" /\ pc' = "lanes" /\ after # <<>> /\ mbb' = b /\ after' = Tail(after) /\ fn' = fn
      /\ pending' = lanes /\ lanes' = <<>>
      /\ \A c \in 1 .. Len(code) : code'[c] = code[c]
      /\ \/ Len(code') = Len(code) + 1 /\ code'[Len(code) + 1] = <<JmpTarget>>
         \/ Len(code') = Len(code)
  BY NextBlockEffect
<1>2. FakesKept
  BY NextBlockKept
<1>3. 1 \in 1 .. N /\ Len(code') \in Nat /\ Len(code') >= Len(code) /\ Len(code) \in Nat /\ N \in Nat
  BY <1>1, SizeFacts
<1>4. PICK h : Kept(g, h) /\ GoalOK(h)'
  BY <1>1, <1>2, <1>3, ExtendGoal DEF PathGoals
<1>5. /\ b = after[1] /\ Len(after) >= 1 /\ Len(Tail(after)) = Len(after) - 1 /\ Len(after) \in Nat
      /\ \A i \in 1 .. Len(after) - 1 : Tail(after)[i] = after[i + 1]
      /\ Range(after) = {b} \cup Range(Tail(after)) /\ b \in 1 .. Len(code)
  BY <1>1, ListFacts, TailFacts
<1>6. Visiting' /\ ~Visiting
  BY <1>1 DEF Visiting
<1>6a. b <= N => b \in 1 .. N
  <2>1. \A x \in 1 .. Len(code) : x <= N => x \in 1 .. N
    BY <1>3
  <2> QED
    BY <1>5, <2>1
<1>7. Ahead' = Ahead
  BY <1>1, <1>5, <1>6 DEF Ahead
<1>8. Len(code) + 1 .. Len(code') \subseteq {Len(code) + 1} /\ N + 1 .. Len(code) \subseteq 1 .. Len(code)
      /\ 1 .. N \subseteq 1 .. Len(code)
  BY <1>1, <1>3, SizeFacts
<1>9. PathsOK(h)'
  <2>1. \A c \in Len(code) + 1 .. Len(code') : code'[c] = <<JmpTarget>>
    BY <1>1, <1>3, <1>8
  <2>2. \A c \in N + 1 .. Len(code) : code'[c] = code[c]
    BY <1>1, <1>8
  <2> QED
    BY <1>4, <1>7, <2>1, <2>2, PathsStep DEF PathGoals
<1>10. ConvertedOK(h)'
  <2>1. \A c \in 1 .. N : code'[c] = code[c]
    BY <1>1, <1>8
  <2> QED
    BY <1>4, <1>7, <2>1, ConvertedStep DEF PathGoals
<1>11. \A c \in Ahead : c \in 1 .. Len(code)
  BY <1>6, ListFacts, RangeFacts DEF Ahead, Blocks
<1>12. SplitGoals(h)'
  <2>1. \A c \in N + 1 .. Len(code) : code'[c] = code[c]
    BY <1>1, <1>8
  <2>2. \A c \in Len(code) + 1 .. Len(code') : c \notin Ahead'
    BY <1>3, <1>7, <1>11
  <2> QED
    BY <1>4, <1>7, <2>1, <2>2, SplitGoalsStep DEF PathGoals
<1>13. AtSource(h)'
  <2> SUFFICES ASSUME b <= N
               PROVE  /\ Keeps(b, Len(fn[b])) /\ code[b] = fn[b]
                      /\ after' # <<>> => after'[1] = b + 1 /\ after'[1] \in 1 .. N
                      /\ Last(code[b]).op = "jcc" => after' # <<>>
    <3>1. ASSUME after' # <<>>, after'[1] = b + 1, after'[1] \in 1 .. N
          PROVE  h[after'[1]] = b + 1
      BY <1>4, <3>1 DEF GoalOK
    <3>2. code'[b] = code[b]
      BY <1>1, <1>5
    <3> HIDE DEF b
    <3> QED
      BY <1>1, <1>6a, <3>1, <3>2, FnFacts DEF AtSource, Keeps, Continues
  <2>1. b \in 1 .. N /\ b \in Range(after)
    BY <1>5, <1>6a
  <2>2. code[b] = fn[b]
    BY <2>1 DEF Good, PassInvariant, AfterUntouched, Untouched
  <2>3. Keeps(b, Len(fn[b]))
    BY <2>1, <2>2, FnFacts DEF Keeps
  <2>4. CASE b < N
    <3>1. 1 < Len(after) /\ after[2] = b + 1
      <4>1. 1 \in DOMAIN after /\ after[1] < N
        BY <1>5, <2>4, ListFacts
      <4> QED
        BY <1>5, <4>1 DEF Good, PassInvariant, AfterInOrder
    <3>2. after' # <<>> /\ after'[1] = b + 1
      <4>1. 1 \in 1 .. Len(after) - 1 /\ 1 + 1 = 2 /\ Len(Tail(after)) >= 1
        BY <1>5, <3>1
      <4>2. Tail(after)[1] = after[2]
        BY <1>5, <4>1
      <4>3. Tail(after) # <<>>
        <5>1. PICK t : t = Tail(after)
          OBVIOUS
        <5>2. Len(t) >= 1
          BY <4>1, <5>1
        <5>3. t # <<>>
          BY <5>2
        <5> QED
          BY <5>1, <5>3
      <4> QED
        BY <1>1, <3>1, <4>2, <4>3
    <3> QED
      BY <2>1, <2>2, <2>3, <2>4, <3>2, <1>3
  <2>5. CASE b = N
    <3>1. Len(after) = 1
      <4>1. 1 \in 1 .. Len(after) /\ after[1] = N
        BY <1>5, <2>5
      <4> QED
        BY <1>5, <4>1, ListFacts DEF LayoutOK, EndsAtN
    <3>2. after' = <<>>
      BY <1>1, <1>5, <3>1, ListFacts, TailFacts
    <3>3. Last(fn[b]).op # "jcc"
      <4>1. ~MayFall(fn[N]) \/ fn[N] = <<>>
        BY DEF Good, TypeOK, WellFormed
      <4> QED
        BY <2>1, <2>5, <4>1, FnFacts DEF MayFall
    <3> QED
      BY <2>2, <2>3, <3>2, <3>3
  <2> QED
    BY <1>3, <2>1, <2>4, <2>5
<1>14. LaneGoals(h)'
  <2>1. OpenLanes' = {} /\ OpenPending' = OpenLanes
    BY <1>1 DEF OpenLanes, OpenPending
  <2>2. ASSUME NEW i \in OpenLanes
        PROVE  h[lanes[i].current] = IF lanes[i].taken THEN h[b] ELSE lanes[i].dest
    <3>1. lanes[i].current \in 1 .. Len(code)
      BY OpenFacts, SizeFacts
    <3>2. h[lanes[i].current] = g[lanes[i].current] /\ h[b] = g[b]
      BY <1>4, <1>5, <3>1 DEF Kept
    <3> QED
      BY <1>5, <3>2 DEF PathGoals, LaneGoals
  <2> QED
    BY <1>1, <2>1, <2>2 DEF LaneGoals
<1> QED
  BY <1>4, <1>9, <1>10, <1>12, <1>13, <1>14 DEF PathGoals
(***************************************************************************)
(* The steps at the lanes: block c is completed, new blocks are empty, and *)
(* the block at hand stays as it is.                                       *)
(***************************************************************************)
AtLanes(c) ==
  /\ pc = "lanes" /\ Visiting /\ Visiting' /\ UNCHANGED <<fn, after, mbb>>
  /\ c = Null \/ (c \in N + 1 .. Len(code) /\ c \notin Ahead)
  /\ \A b \in 1 .. Len(code) : b # c => code'[b] = code[b]
  /\ Len(code') \in Nat /\ Len(code') >= Len(code)
  /\ \A b \in Len(code) + 1 .. Len(code') : code'[b] = <<>>

LEMMA AheadFacts ==
  ASSUME Good
  PROVE  \A b \in Ahead : b \in 1 .. Len(code)
<1>1. \A b \in Range(after) : b \in 1 .. Len(code)
  BY ListFacts, RangeFacts DEF Blocks
<1>2. Visiting => mbb \in 1 .. Len(code)
  BY AtHand
<1> QED
  BY <1>1, <1>2 DEF Ahead

LEMMA AtLanesGoals ==
  ASSUME Good, Good', NEW g, NEW h, PathGoals(g), Kept(g, h), GoalOK(h)', NEW c, AtLanes(c),
         c # Null => Path(h, c)'
  PROVE  PathsOK(h)' /\ ConvertedOK(h)' /\ SplitGoals(h)' /\ AtSource(h)'
<1>1. N \in Nat /\ Len(code) \in Nat /\ N <= Len(code) /\ 1 .. N \subseteq 1 .. Len(code)
      /\ N + 1 .. Len(code) \subseteq 1 .. Len(code)
  BY SizeFacts
<1>2. /\ pc = "lanes" /\ Visiting /\ Visiting' /\ fn' = fn /\ after' = after /\ mbb' = mbb
      /\ c = Null \/ (c \in N + 1 .. Len(code) /\ c \notin Ahead)
      /\ \A b \in 1 .. Len(code) : b # c => code'[b] = code[b]
      /\ Len(code') \in Nat /\ Len(code') >= Len(code)
      /\ \A b \in Len(code) + 1 .. Len(code') : code'[b] = <<>>
  BY DEF AtLanes
<1>3. Ahead' = Ahead
  BY <1>2 DEF Ahead
<1>4. \A b \in 1 .. N : code'[b] = code[b]
  <2>1. c \notin 1 .. N
    BY <1>1, <1>2 DEF Null
  <2> QED
    BY <1>1, <1>2, <2>1
<1>5. PathsOK(h)'
  <2>1. \A b \in N + 1 .. Len(code) : code'[b] = code[b] \/ Path(h, b)'
    BY <1>1, <1>2 DEF Null
  <2> QED
    BY <1>2, <1>3, <2>1, PathsStep DEF PathGoals
<1>6. ConvertedOK(h)'
  BY <1>3, <1>4, ConvertedStep DEF PathGoals
<1>7. SplitGoals(h)'
  <2>1. \A b \in N + 1 .. Len(code) : b \in Ahead => code'[b] = code[b]
    BY <1>1, <1>2 DEF Null
  <2>2. \A b \in Len(code) + 1 .. Len(code') : b \notin Ahead
    BY <1>1, <1>2, AheadFacts
  <2> QED
    BY <1>3, <2>1, <2>2, SplitGoalsStep DEF PathGoals
<1>8. AtSource(h)'
  <2> SUFFICES ASSUME mbb <= N PROVE AtSource(h)'
    BY <1>2 DEF AtSource
  <2>1. mbb \in 1 .. N /\ code'[mbb] = code[mbb]
    <3>1. mbb \in 1 .. Len(code)
      BY <1>2, AtHand
    <3> QED
      BY <1>1, <1>4, <3>1
  <2>2. after # <<>> => h[after[1]] = g[after[1]]
    <3>1. after # <<>> => 1 \in 1 .. Len(after)
      BY ListFacts
    <3> QED
      BY <3>1, ListFacts DEF Kept
  <2> QED
    BY <1>2, <2>1, <2>2 DEF PathGoals, AtSource, Keeps, Continues
<1> QED
  BY <1>5, <1>6, <1>7, <1>8

LEMMA AtLanesLanes ==
  ASSUME Good, Good', NEW g, NEW h, PathGoals(g), Kept(g, h), NEW c, AtLanes(c),
         \A i \in OpenLanes' : \/ i \in OpenLanes /\ lanes'[i] = lanes[i]
                               \/ ~lanes'[i].taken /\ h[lanes'[i].current] = lanes'[i].dest,
         \A i \in OpenPending' : i + 1 \in OpenPending /\ pending'[i] = pending[i + 1]
  PROVE  LaneGoals(h)'
<1>1. /\ Visiting /\ Visiting' /\ after' = after /\ mbb' = mbb
      /\ LaneGoals(g)
  BY DEF AtLanes, PathGoals
<1>2. \A b \in N + 1 .. Len(code) : h[b] = g[b]
  BY SizeFacts DEF Kept
<1>3. h[mbb] = g[mbb]
  BY <1>1, AtHand DEF Kept
<1>4. ASSUME NEW i \in OpenLanes'
      PROVE  ~lanes'[i].taken /\ h[lanes'[i].current] = lanes'[i].dest
  <2>1. CASE i \in OpenLanes /\ lanes'[i] = lanes[i]
    BY <1>1, <1>2, <2>1, OpenFacts DEF LaneGoals
  <2> QED
    BY <2>1
<1>5. ASSUME NEW i \in OpenPending'
      PROVE  h[pending'[i].current] = IF pending'[i].taken THEN h[mbb] ELSE pending'[i].dest
  <2>1. i + 1 \in OpenPending /\ pending'[i] = pending[i + 1]
    OBVIOUS
  <2>2. PICK j : j = i + 1
    OBVIOUS
  <2> QED
    BY <1>1, <1>2, <1>3, <2>1, <2>2, OpenFacts DEF LaneGoals
<1> QED
  BY <1>1, <1>4, <1>5 DEF LaneGoals

LEMMA LaneAtHand ==
  ASSUME Good, OneLane, NEW g, PathGoals(g), pc = "lanes", pending # <<>>, pending' = Tail(pending)
  PROVE  lane.current # Null =>
           /\ lane.current \in N + 1 .. Len(code) /\ lane.current \notin Ahead
           /\ code[lane.current] = <<>>
           /\ g[lane.current] = IF lane.taken THEN g[mbb] ELSE lane.dest
           /\ Arrives(lane) => g[lane.current] = g[mbb]
<1> SUFFICES ASSUME lane.current # Null
             PROVE  /\ lane.current \in N + 1 .. Len(code) /\ lane.current \notin Ahead
                    /\ code[lane.current] = <<>>
                    /\ g[lane.current] = IF lane.taken THEN g[mbb] ELSE lane.dest
                    /\ Arrives(lane) => g[lane.current] = g[mbb]
  OBVIOUS
<1>1. lane.current \in N + 1 .. Len(code) /\ code[lane.current] = <<>> /\ lane.current \notin Ahead
  BY PendingOpen DEF PendingShift
<1>2. lane = pending[1] /\ 1 \in OpenPending
  <2>1. lane = pending[1] /\ Len(pending) >= 1
    BY PendingTail
  <2>2. 1 \in DOMAIN pending
    BY <2>1, SizeFacts
  <2> QED
    BY <2>1, <2>2 DEF OpenPending
<1>3. g[lane.current] = IF lane.taken THEN g[mbb] ELSE lane.dest
  BY <1>2 DEF PathGoals, LaneGoals
<1>4. g[lane.current] \in 1 .. N
  <2>1. lane.current \in 1 .. Len(code)
    BY <1>1, SizeFacts
  <2> QED
    BY <2>1 DEF PathGoals, GoalOK
<1>5. Arrives(lane) => g[lane.current] = g[mbb]
  BY <1>3, <1>4 DEF PathGoals, GoalOK, Arrives
<1> QED
  BY <1>1, <1>3, <1>5

LEMMA ArrivesGoals ==
  Good /\ Good' /\ OneLane /\ PathInvariant /\ LaneArrives => PathInvariant'
<1> SUFFICES ASSUME Good, Good', OneLane, LaneArrives, NEW g, PathGoals(g) PROVE \E h : PathGoals(h)'
  BY DEF PathInvariant
<1>1. /\ pc = "lanes" /\ pc' = "lanes" /\ pending # <<>> /\ Arrives(lane) /\ pending' = Tail(pending)
      /\ UNCHANGED <<fn, after, mbb>> /\ Len(code') = Len(code)
      /\ \A b \in 1 .. Len(code) :
           code'[b] = IF b = lane.current THEN Append(code[b], Jmp(mbb)) ELSE code[b]
      /\ IF takenLane = Null THEN takenLane' = Len(lanes) + 1 /\ lanes' = Append(lanes, lane)
         ELSE UNCHANGED <<lanes, takenLane>>
  BY ArrivesEffect
<1>2. 1 \in 1 .. N /\ Len(code) \in Nat /\ N \in Nat /\ N <= Len(code)
  BY SizeFacts
<1>3. PICK h : Kept(g, h) /\ GoalOK(h)'
  BY <1>1, <1>2, ArrivesKept, ExtendGoal DEF PathGoals
<1>4. PendingShift
  BY <1>1, PendingOpen
<1>0. PICK c : c = lane.current
  OBVIOUS
<1>5. AtLanes(c)
  <2>1. Visiting /\ Visiting'
    BY <1>1 DEF Visiting
  <2>2. Len(code) + 1 .. Len(code') = {}
    BY <1>1, <1>2
  <2> QED
    BY <1>0, <1>1, <1>2, <2>1, <2>2, <1>4 DEF AtLanes, PendingShift
<1>6. c # Null => Path(h, c)'
  <2> SUFFICES ASSUME c # Null PROVE Path(h, c)'
    OBVIOUS
  <2>2. /\ c \in N + 1 .. Len(code) /\ code[c] = <<>> /\ g[c] = g[mbb]
    BY <1>0, <1>1, LaneAtHand
  <2>3. c \in 1 .. Len(code) /\ mbb \in 1 .. Len(code) /\ ~Fake(mbb)
    BY <1>1, <1>2, <2>2, AtHand DEF Visiting
  <2>4. code'[c] = <<Jmp(mbb)>>
    <3>1. Append(<<>>, Jmp(mbb)) = <<Jmp(mbb)>>
      OBVIOUS
    <3> QED
      BY <1>0, <1>1, <2>2, <2>3, <3>1
  <2>5. h[c] = h[mbb] /\ ~Fake(mbb)' /\ mbb \in 1 .. Len(code')
    <3>1. h[c] = h[mbb] /\ ~(code'[mbb] = <<JmpTarget>>)
      BY <1>3, <2>2, <2>3 DEF Kept, FakesKept, Fake
    <3> QED
      BY <1>1, <2>3, <3>1 DEF Fake
  <2>6. \A i \in 1 .. Len(code'[c]) : Arrival(h, c, i)'
    BY <1>1, <2>4, <2>5 DEF Arrival
  <2>7. code'[c] # <<>> /\ Last(code'[c]).op = "jmp"
    BY <2>4 DEF Last, Jmp
  <2> QED
    BY <2>6, <2>7 DEF Path
<1>7. \A i \in OpenLanes' : i \in OpenLanes /\ lanes'[i] = lanes[i]
  <2>1. CASE takenLane = Null
    <3>1. lane \in Lane
      BY <1>1, PendingTail, GoodFacts
    <3>2. /\ DOMAIN lanes' = 1 .. Len(lanes) + 1 /\ \A i \in 1 .. Len(lanes) : lanes'[i] = lanes[i]
      BY <1>1, <2>1, <3>1, LanesExtended
    <3>3. \A i \in OpenLanes' : i \in 1 .. Len(lanes)
      BY <1>1, <2>1, <3>2, SizeFacts DEF OpenLanes
    <3> QED
      BY <2>1, <3>2, <3>3, SizeFacts DEF OpenLanes, Null
  <2>2. CASE takenLane # Null
    BY <1>1, <2>2 DEF OpenLanes
  <2> QED
    BY <2>1, <2>2
<1>8. LaneGoals(h)'
  BY <1>3, <1>4, <1>5, <1>7, AtLanesLanes DEF PendingShift
<1> QED
  BY <1>3, <1>5, <1>6, <1>8, AtLanesGoals DEF PathGoals

LEMMA SkipsGoals ==
  Good /\ Good' /\ OneLane /\ LayoutOK /\ PathInvariant /\ LaneSkips => PathInvariant'
<1> SUFFICES ASSUME Good, Good', OneLane, LayoutOK, LaneSkips, NEW g, PathGoals(g)
             PROVE  \E h : PathGoals(h)'
  BY DEF PathInvariant
<1>0. PICK c, z : c = lane.current /\ z = Len(code) + 1
  OBVIOUS
<1>1. /\ pc = "lanes" /\ pc' = "lanes" /\ pending # <<>> /\ ~Arrives(lane) /\ pending' = Tail(pending)
      /\ c # Null /\ fakeBlock # Null /\ fakeBlock' = fakeBlock /\ takenLane' = takenLane
      /\ UNCHANGED <<fn, after, mbb>> /\ Len(code') = z /\ code'[z] = <<>>
      /\ \A b \in 1 .. Len(code) :
           code'[b] = IF b = c THEN code[b] \o Dummies \o <<Lea(z), Jmp(fakeBlock)>> ELSE code[b]
      /\ lanes' = Append(lanes, [lane EXCEPT !.current = z])
  BY <1>0, SkipsEffect
<1>2. Len(code) \in Nat /\ N \in Nat /\ N <= Len(code) /\ z \in Nat /\ z \in N + 1 .. z
  BY <1>0, SizeFacts
<1>3. /\ c \in N + 1 .. Len(code) /\ c \notin Ahead /\ code[c] = <<>> /\ g[c] = lane.dest /\ ~lane.taken
      /\ c \in 1 .. Len(code)
  BY <1>0, <1>1, <1>2, LaneAtHand DEF Arrives
<1>4. g[c] \in 1 .. N
  BY <1>3 DEF PathGoals, GoalOK
<1>5. PICK h : Kept(g, h) /\ GoalOK(h)' /\ h[z] = g[c]
  <2>1. Len(code') \in Nat /\ Len(code') >= Len(code) /\ Len(code') >= Len(code) + 1
    BY <1>0, <1>1, <1>2
  <2> QED
    BY <1>0, <1>1, <1>4, <2>1, SkipsKept, ExtendGoal DEF PathGoals
<1>6. PendingShift
  BY <1>1, PendingOpen
<1>7. AtLanes(c)
  <2>1. Visiting /\ Visiting'
    BY <1>1 DEF Visiting
  <2>2. Len(code) + 1 .. Len(code') = {z} /\ Len(code') \in Nat /\ Len(code') >= Len(code)
    BY <1>0, <1>1, <1>2
  <2> QED
    BY <1>1, <1>3, <2>1, <2>2 DEF AtLanes
<1>8. Path(h, c)'
  <2>0. PICK d : d = Len(Dummies)
    OBVIOUS
  <2> DEFINE t == <<>> \o Dummies \o <<Lea(z), Jmp(fakeBlock)>>
  <2>1. fakeBlock \in 1 .. Len(code) /\ fakeBlock \in Nat
    BY <1>1 DEF Good, TypeOK, Null
  <2>2. /\ t \in Seq(Instr) /\ Len(t) = d + 2 /\ d \in Nat
        /\ t # <<>> /\ Last(t) = Jmp(fakeBlock)
        /\ \A q \in 1 .. d : t[q] = Add8Zero
        /\ t[d + 1] = Lea(z) /\ t[d + 2] = Jmp(fakeBlock)
    BY <1>1, <1>2, <2>0, <2>1, SkipCode
  <2>3. code'[c] = t
    BY <1>1, <1>3
  <2> HIDE DEF t
  <2>4. Fake(fakeBlock) /\ Fake(fakeBlock)'
    <3>1. Fake(fakeBlock)
      BY <1>1 DEF LayoutOK, FakeBehind, Visiting
    <3>2. code'[fakeBlock] = <<JmpTarget>>
      BY <1>5, <2>1, <3>1 DEF Kept, FakesKept, Fake
    <3> QED
      BY <1>1, <3>1, <3>2 DEF Fake
  <2>5. h[c] = g[c] /\ ~Fake(z)'
    <3>1. <<>> # <<JmpTarget>>
      OBVIOUS
    <3> QED
      BY <1>1, <1>3, <1>5, <3>1 DEF Kept, Fake
  <2>6. Hop(h, c, d + 1)'
    BY <1>1, <1>2, <1>5, <2>2, <2>3, <2>5 DEF Hop, Leads
  <2>7. Arrival(h, c, d + 2)'
    <3>1. d + 2 = Len(t) /\ d + 2 > 1 /\ (d + 2) - 1 = d + 1 /\ t[d + 1].op = "lea"
      BY <2>2 DEF Lea
    <3>2. fakeBlock \in 1 .. Len(code')
      BY <1>0, <1>1, <1>2, <2>1
    <3> QED
      BY <1>1, <2>2, <2>3, <2>4, <3>1, <3>2 DEF Arrival
  <2>8. \A i \in 1 .. Len(t) : i \in 1 .. d \/ i = d + 1 \/ i = d + 2
    BY <2>2
  <2>9. \A i \in 1 .. d : DummyInstr /\ t[i] = Add8Zero
    <3>1. ~DummyInstr => d = 0
      BY <2>0 DEF Dummies
    <3> QED
      BY <2>2, <3>1
  <2>10. Last(t).op = "jmp"
    BY <2>2 DEF Jmp
  <2> QED
    BY <2>2, <2>3, <2>6, <2>7, <2>8, <2>9, <2>10 DEF Path
<1>9. \A i \in OpenLanes' : \/ i \in OpenLanes /\ lanes'[i] = lanes[i]
                            \/ ~lanes'[i].taken /\ h[lanes'[i].current] = lanes'[i].dest
  <2> DEFINE l == [lane EXCEPT !.current = z]
  <2>1. lane \in Lane
    BY <1>1, PendingTail, GoodFacts
  <2>2. l \in Lane /\ l.current = z /\ l.dest = lane.dest /\ l.taken = lane.taken
    BY <1>2, <2>1 DEF Lane
  <2> HIDE DEF l
  <2>3. /\ DOMAIN lanes' = 1 .. Len(lanes) + 1 /\ \A i \in 1 .. Len(lanes) : lanes'[i] = lanes[i]
        /\ lanes'[Len(lanes) + 1] = l
    <3>1. lanes' = Append(lanes, l)
      BY <1>1 DEF l
    <3> QED
      BY <2>2, <3>1, LanesExtended
  <2>4. \A i \in 1 .. Len(lanes) + 1 : i \in 1 .. Len(lanes) \/ i = Len(lanes) + 1
    BY SizeFacts
  <2>5. \A i \in OpenLanes' : i \in 1 .. Len(lanes) => i \in OpenLanes /\ lanes'[i] = lanes[i]
    BY <1>1, <2>3, SizeFacts DEF OpenLanes
  <2>6. \A i \in OpenLanes' : i \in 1 .. Len(lanes) + 1
    BY <2>3 DEF OpenLanes
  <2> QED
    BY <1>3, <1>5, <2>2, <2>3, <2>4, <2>5, <2>6
<1>10. LaneGoals(h)'
  BY <1>5, <1>6, <1>7, <1>9, AtLanesLanes DEF PendingShift
<1> QED
  BY <1>5, <1>7, <1>8, <1>10, AtLanesGoals DEF PathGoals

LEMMA OtherLaneGoals ==
  Good /\ Good' /\ OneLane /\ PathInvariant /\ (LaneDies \/ LanesDone) => PathInvariant'
<1> SUFFICES ASSUME Good, Good', OneLane, LaneDies \/ LanesDone, NEW g, PathGoals(g)
             PROVE  PathGoals(g)'
  BY DEF PathInvariant
<1>1. /\ pc = "lanes" /\ Visiting /\ Visiting' /\ UNCHANGED <<fn, after, mbb, code>>
  BY DEF LaneDies, LanesDone, Visiting, listVars, blockVars
<1>2. Kept(g, g) /\ GoalOK(g)'
  BY <1>1, SizeFacts DEF PathGoals, GoalOK, Kept, FakesKept, Fake
<1>3. AtLanes(Null)
  <2>1. Len(code) + 1 .. Len(code') = {} /\ Len(code') \in Nat /\ Len(code') >= Len(code)
    BY <1>1, SizeFacts
  <2> QED
    BY <1>1, <2>1 DEF AtLanes
<1>4. LaneGoals(g)'
  <2>1. CASE LaneDies
    <3>1. /\ pending # <<>> /\ pending' = Tail(pending) /\ UNCHANGED <<lanes, takenLane, pc>>
      BY <2>1 DEF LaneDies
    <3>2. OpenLanes' = OpenLanes /\ PendingShift
      BY <1>1, <3>1, PendingOpen DEF OpenLanes
    <3> QED
      BY <1>2, <1>3, <3>1, <3>2, AtLanesLanes DEF PendingShift
  <2>2. CASE LanesDone
    <3>1. /\ pending = <<>> /\ pending' = pending /\ pc' = "term"
          /\ IF takenLane = Null THEN takenLane' = Len(lanes) + 1 /\ lanes' = Append(lanes, EmptyLane)
             ELSE UNCHANGED <<lanes, takenLane>>
      BY <2>2, LanesDoneEffect
    <3>2. OpenPending' = {}
      BY <3>1 DEF OpenPending
    <3>3. \A i \in OpenLanes' : i \in OpenLanes /\ lanes'[i] = lanes[i]
      <4>1. CASE takenLane = Null
        <5>1. EmptyLane \in Lane
          BY DEF EmptyLane, Lane, Null
        <5>2. /\ DOMAIN lanes' = 1 .. Len(lanes) + 1 /\ \A i \in 1 .. Len(lanes) : lanes'[i] = lanes[i]
          BY <3>1, <4>1, <5>1, LanesExtended
        <5>3. \A i \in OpenLanes' : i \in 1 .. Len(lanes)
          BY <3>1, <4>1, <5>2, SizeFacts DEF OpenLanes
        <5> QED
          BY <4>1, <5>2, <5>3, SizeFacts DEF OpenLanes, Null
      <4>2. CASE takenLane # Null
        BY <1>1, <3>1, <4>2 DEF OpenLanes
      <4> QED
        BY <4>1, <4>2
    <3> QED
      BY <1>2, <1>3, <3>2, <3>3, AtLanesLanes
  <2> QED
    BY <2>1, <2>2
<1> QED
  BY <1>2, <1>3, <1>4, AtLanesGoals DEF PathGoals

(***************************************************************************)
(* The steps at the end of the block at hand, m.                           *)
(***************************************************************************)
AtEnd(m) ==
  /\ pc = "term" /\ pc' = "block" /\ m = mbb /\ UNCHANGED <<fn, after, pending>>
  /\ Len(code') \in Nat /\ Len(code') >= Len(code)
  /\ \A b \in 1 .. Len(code) : b # m => code'[b] = code[b]

LEMMA TermVisiting == pc = "term" => Visiting
BY DEF Visiting

LEMMA AtEndGoals ==
  ASSUME Good, Good', NEW g, NEW h, PathGoals(g), Kept(g, h), NEW m, AtEnd(m),
         m <= N => Converted(h, m)', m > N => Path(h, m)',
         \A b \in Len(code) + 1 .. Len(code') : code'[b] = <<>> \/ Path(h, b)'
  PROVE  PathsOK(h)' /\ ConvertedOK(h)' /\ SplitGoals(h)' /\ AtSource(h)'
<1>1. N \in Nat /\ Len(code) \in Nat /\ N <= Len(code) /\ 1 .. N \subseteq 1 .. Len(code)
      /\ N + 1 .. Len(code) \subseteq 1 .. Len(code)
  BY SizeFacts
<1>2. /\ pc = "term" /\ pc' = "block" /\ m = mbb /\ fn' = fn /\ after' = after
      /\ Len(code') \in Nat /\ Len(code') >= Len(code)
      /\ \A b \in 1 .. Len(code) : b # m => code'[b] = code[b]
  BY DEF AtEnd
<1>3. Visiting /\ ~Visiting'
  BY <1>2 DEF Visiting
<1>4. Ahead = Ahead' \cup {m} /\ m \notin Ahead'
  BY <1>2, <1>3 DEF Ahead, Good, PassInvariant, AfterInOrder
<1>5. m \in Nat
  BY <1>1, <1>2, <1>3, AtHand
<1>6. PathsOK(h)'
  <2>1. \A b \in N + 1 .. Len(code) : b = m => Path(h, b)'
    BY <1>1, <1>5
  <2>2. \A b \in N + 1 .. Len(code) : b \in Ahead => b \in Ahead' \/ Path(h, b)'
    BY <1>4, <2>1
  <2>3. \A b \in N + 1 .. Len(code) : code'[b] = code[b] \/ Path(h, b)'
    BY <1>1, <1>2, <2>1
  <2> QED
    BY <2>2, <2>3, PathsStep DEF PathGoals
<1>7. ConvertedOK(h)'
  <2>1. \A b \in 1 .. N : b = m => Converted(h, b)'
    BY <1>1, <1>5
  <2>2. \A b \in 1 .. N : b \in Ahead => b \in Ahead' \/ Converted(h, b)'
    BY <1>4, <2>1
  <2>3. \A b \in 1 .. N : b \in Ahead \/ code'[b] = code[b]
    BY <1>1, <1>2, <1>4
  <2> QED
    BY <2>2, <2>3, ConvertedStep DEF PathGoals
<1>8. SplitGoals(h)'
  <2>1. \A b \in N + 1 .. Len(code) : b \in Ahead' => b \in Ahead /\ code'[b] = code[b]
    BY <1>1, <1>2, <1>4
  <2>2. \A b \in Len(code) + 1 .. Len(code') : b \notin Ahead'
    BY <1>1, <1>2, <1>4, AheadFacts
  <2> QED
    BY <2>1, <2>2, SplitGoalsStep DEF PathGoals
<1>9. AtSource(h)'
  BY <1>3 DEF AtSource
<1> QED
  BY <1>6, <1>7, <1>8, <1>9

LEMMA AtEndLanes ==
  ASSUME Good, Good', NEW g, NEW h, PathGoals(g), Kept(g, h), NEW m, AtEnd(m),
         \A i \in OpenLanes' :
           \/ i \in OpenLanes /\ lanes'[i] = lanes[i]
           \/ IF lanes'[i].taken THEN after # <<>> /\ h[lanes'[i].current] = h[after[1]]
              ELSE h[lanes'[i].current] = lanes'[i].dest
  PROVE  LaneGoals(h)'
<1>1. /\ pc = "term" /\ pc' = "block" /\ after' = after /\ pending' = pending /\ LaneGoals(g)
      /\ Visiting /\ ~Visiting'
  BY DEF AtEnd, PathGoals, Visiting
<1>2. OpenPending' = {}
  BY <1>1 DEF OpenPending, Good, PassInvariant, LanesLeadAhead
<1>3. \A b \in N + 1 .. Len(code) : h[b] = g[b]
  BY SizeFacts DEF Kept
<1>4. ASSUME NEW i \in OpenLanes'
      PROVE  IF lanes'[i].taken THEN after # <<>> /\ h[lanes'[i].current] = h[after[1]]
             ELSE h[lanes'[i].current] = lanes'[i].dest
  <2>1. CASE i \in OpenLanes /\ lanes'[i] = lanes[i]
    BY <1>1, <1>3, <2>1, OpenFacts DEF LaneGoals
  <2> QED
    BY <2>1
<1> QED
  BY <1>1, <1>2, <1>4 DEF LaneGoals

\* The lane that arrived is replaced by l, and further ones may follow.
LEMMA ReplacedOpen ==
  ASSUME Good, pc = "term", pc' = "block", NEW l \in Lane, lanes' = UpdateLane(l)
  PROVE  \A i \in OpenLanes' : \/ i \in OpenLanes /\ lanes'[i] = lanes[i]
                               \/ l.current # Null /\ lanes'[i] = l
<1>1. /\ DOMAIN lanes' = 1 .. Len(lanes) /\ DOMAIN lanes = 1 .. Len(lanes)
      /\ \A i \in 1 .. Len(lanes) : lanes'[i] = IF i = takenLane THEN l ELSE lanes[i]
  BY LaneReplaced, SizeFacts
<1> QED
  BY <1>1 DEF OpenLanes

\* The block at hand, at its end: either a split-off jump, or a source block
\* up to a conditional branch or to its end.
LEMMA SplitOff ==
  ASSUME Good, NEW g, PathGoals(g), pc = "term", NEW m, m = mbb, m > N
  PROVE  Len(code[m]) = 1 /\ last = code[m][1] /\ last.op = "jmp" /\ last.to = {g[m]}
<1>1. m \in N + 1 .. Len(code) /\ m \in Ahead
  BY AtHand, TermVisiting, SizeFacts DEF Ahead
<1>2. Len(code[m]) = 1 /\ code[m][1].op = "jmp" /\ code[m][1].to = {g[m]}
  BY <1>1 DEF PathGoals, SplitGoals
<1>3. last = code[m][1]
  BY <1>2, AtHand, TermVisiting DEF last
<1> QED
  BY <1>2, <1>3

LEMMA OfSource ==
  ASSUME Good, NEW g, PathGoals(g), pc = "term", NEW m, m = mbb, m <= N
  PROVE  /\ m \in 1 .. N /\ code[m] \in Seq(Instr) /\ code[m] # <<>>
         /\ Len(code[m]) \in Nat /\ Len(code[m]) >= 1 /\ Len(code[m]) <= Len(fn[m]) /\ Len(fn[m]) \in Nat
         /\ \A i \in 1 .. Len(code[m]) : code[m][i] = fn[m][i]
         /\ last = fn[m][Len(code[m])] /\ last = code[m][Len(code[m])]
         /\ after # <<>> => Continues(m, Len(code[m]), g[after[1]])
         /\ last.op = "jcc" => after # <<>>
         /\ last.op # "jcc" => Len(code[m]) = Len(fn[m]) /\ last = Last(fn[m])
<1>1. /\ m \in 1 .. Len(code) /\ code[m] \in Seq(Instr) /\ code[m] # <<>> /\ last = code[m][Len(code[m])]
      /\ Len(code[m]) \in Nat /\ Len(code[m]) >= 1
  BY AtHand, TermVisiting DEF last
<1>2. m \in 1 .. N
  BY <1>1, SizeFacts
<1>3. /\ Keeps(m, Len(code[m]))
      /\ last.op = "jcc" => after # <<>>
      /\ after # <<>> => Continues(m, Len(code[m]), g[after[1]])
      /\ Len(code[m]) < Len(fn[m]) => last.op = "jcc"
  BY TermVisiting DEF PathGoals, AtSource, last
<1>4. Len(fn[m]) \in Nat /\ Last(fn[m]) = fn[m][Len(fn[m])]
  BY <1>2, FnFacts
<1>5. Len(code[m]) <= Len(fn[m]) /\ \A i \in 1 .. Len(code[m]) : code[m][i] = fn[m][i]
  BY <1>3 DEF Keeps
<1>6. Len(code[m]) \in 1 .. Len(code[m])
  BY <1>1
<1>7. last.op # "jcc" => Len(code[m]) = Len(fn[m])
  BY <1>1, <1>3, <1>4, <1>5
<1> QED
  BY <1>1, <1>2, <1>3, <1>4, <1>5, <1>6, <1>7

\* A new block is empty or a jump to its goal.
LEMMA NewBlock ==
  ASSUME Good, NEW h, GoalOK(h)', NEW z \in N + 1 .. Len(code'), NEW t \in 1 .. N, h[z] = t,
         code'[z] = <<>> \/ code'[z] = <<Jmp(t)>>, Len(code') \in Nat, Len(code') >= Len(code)
  PROVE  Leads(h, z, t)' /\ (code'[z] = <<>> \/ Path(h, z)')
<1>1. ~Fake(z)'
  BY NoLoad DEF Fake
<1>2. Leads(h, z, t)'
  BY <1>1 DEF Leads
<1>3. CASE code'[z] = <<Jmp(t)>>
  <2>1. t \in 1 .. Len(code') /\ ~Fake(t)' /\ h[t] = t
    BY SizeFacts DEF GoalOK
  <2>2. Len(code'[z]) = 1 /\ code'[z][1] = Jmp(t) /\ code'[z] # <<>> /\ Last(code'[z]).op = "jmp"
    BY <1>3 DEF Last, Jmp
  <2>3. \A i \in 1 .. Len(code'[z]) : Arrival(h, z, i)'
    BY <2>1, <2>2 DEF Arrival
  <2> QED
    BY <1>2, <2>2, <2>3 DEF Path
<1> QED
  BY <1>2, <1>3

LEMMA UnconditionalGoals ==
  Good /\ Good' /\ LayoutOK /\ PathInvariant /\ ReplaceUnconditionalJump => PathInvariant'
<1> SUFFICES ASSUME Good, Good', LayoutOK, ReplaceUnconditionalJump, NEW g, PathGoals(g)
             PROVE  \E h : PathGoals(h)'
  BY DEF PathInvariant
<1>0. PICK m, z : m = mbb /\ z = Len(code) + 1
  OBVIOUS
<1> DEFINE x == Append(Front(code[m]), Lea(z))
<1>1. PICK dst \in last.to :
        /\ pc = "term" /\ pc' = "block" /\ UNCHANGED <<fn, after, pending>>
        /\ last.op = "jmp" /\ Len(code') = z
        /\ ~(Len(code[m]) > 1 /\ IsConditionalBranch(code[m][Len(code[m]) - 1]))
        /\ \A b \in 1 .. Len(code) : code'[b] = IF b = m THEN x ELSE code[b]
        /\ IF dst \in processed
           THEN code'[z] = <<Jmp(dst)>> /\ lanes' = UpdateLane(DeadLane)
           ELSE code'[z] = <<>> /\ lanes' = UpdateLane([current |-> z, dest |-> dst, taken |-> FALSE])
  BY <1>0, UnconditionalEffect DEF TermUnchanged, IsUnconditionalBranch
<1>2. /\ Len(code) \in Nat /\ N \in Nat /\ N <= Len(code) /\ z \in Nat /\ z \in N + 1 .. Len(code')
      /\ Len(code') \in Nat /\ Len(code') >= Len(code) /\ Len(code') >= Len(code) + 1
      /\ Len(code) + 1 .. Len(code') = {z}
  BY <1>0, <1>1, SizeFacts
<1>3. /\ m \in 1 .. Len(code) /\ code[m] \in Seq(Instr) /\ code[m] # <<>> /\ SourceInstr(last) /\ Visiting
      /\ m \in Nat
  BY <1>0, <1>1, <1>2, AtHand, TermVisiting DEF last
<1>4. dst \in 1 .. N /\ last.to = {dst}
  BY <1>1, <1>3 DEF SourceInstr
<1>5. /\ x \in Seq(Instr) /\ Len(x) = Len(code[m]) /\ Len(code[m]) \in Nat /\ Len(code[m]) >= 1
      /\ x # <<>> /\ Last(x) = Lea(z)
      /\ \A q \in 1 .. Len(code[m]) - 1 : x[q] = code[m][q]
      /\ x[Len(code[m])] = Lea(z)
  <2>1. Lea(z) \in Instr
    BY <1>2, InstrType
  <2> QED
    BY <1>3, <2>1, ReplaceLast
<1>6. code'[m] = x
  BY <1>1, <1>3
<1> HIDE DEF x
<1>7. FakesKept
  <2>1. Last(x).op # "jmpreg"
    BY <1>5 DEF Lea
  <2> QED
    BY <1>0, <1>1, <1>3, <1>5, <2>1, TermKept
<1>8. PICK h : Kept(g, h) /\ GoalOK(h)' /\ h[z] = dst
  BY <1>0, <1>1, <1>2, <1>4, <1>7, ExtendGoal DEF PathGoals
<1>9. Leads(h, z, dst)' /\ (code'[z] = <<>> \/ Path(h, z)')
  BY <1>1, <1>2, <1>4, <1>8, NewBlock
<1>10. AtEnd(m)
  BY <1>0, <1>1, <1>2 DEF AtEnd
<1>11. ASSUME m <= N PROVE Converted(h, m)'
  <2>1. /\ m \in 1 .. N /\ Len(code[m]) = Len(fn[m]) /\ last = fn[m][Len(fn[m])]
        /\ \A i \in 1 .. Len(code[m]) : code[m][i] = fn[m][i]
    BY <1>0, <1>1, <1>11, OfSource
  <2>2. PICK k : k = Len(fn[m]) - 1
    OBVIOUS
  <2>3. k \in 0 .. Len(fn[m]) /\ k < Len(fn[m]) /\ k + 1 = Len(fn[m]) /\ k <= Len(x) /\ k <= Len(fn[m])
        /\ Len(x) = k + 1 /\ \A i \in 1 .. k : i \in 1 .. Len(code[m]) /\ i \in 1 .. Len(code[m]) - 1
    BY <1>5, <2>1, <2>2
  <2>4. Keeps(m, k)'
    BY <1>1, <1>5, <1>6, <2>1, <2>3 DEF Keeps
  <2>5. Continues(m, k, dst)'
    BY <1>1, <1>4, <2>1, <2>3 DEF Continues
  <2>6. x[k + 1] = Lea(z)
    BY <1>5, <2>1, <2>3
  <2>7. k > 0 => fn[m][k].op # "jcc"
    <3>1. k > 0 => Len(code[m]) > 1 /\ k = Len(code[m]) - 1 /\ k \in 1 .. Len(code[m])
      BY <1>5, <2>1, <2>2
    <3> QED
      BY <1>1, <2>1, <3>1 DEF IsConditionalBranch
  <2>8. EndsInLea(h, m)'
    <3>1. /\ Keeps(m, k)' /\ Len(code'[m]) = k + 1 /\ code'[m][k + 1] = Lea(z) /\ k \in 0 .. Len(fn'[m])
          /\ (k > 0 => fn'[m][k].op # "jcc") /\ (k = Len(fn'[m]) => Last(fn'[m]).op # "jmp")
          /\ Leads(h, z, dst)' /\ Continues(m, k, dst)'
      BY <1>1, <1>6, <1>9, <2>3, <2>4, <2>5, <2>6, <2>7
    <3> QED
      BY <1>2, <1>4, <3>1, Zenon DEF EndsInLea
  <2> QED
    BY <2>8 DEF Converted
<1>12. ASSUME m > N PROVE Path(h, m)'
  <2>1. Len(code[m]) = 1 /\ last.to = {g[m]}
    BY <1>0, <1>1, <1>12, SplitOff
  <2>2. h[m] = dst
    BY <1>3, <1>4, <1>8, <2>1 DEF Kept
  <2>3. Len(x) = 1 /\ x[1] = Lea(z) /\ Last(x).op = "lea"
    BY <1>5, <2>1 DEF Lea
  <2>4. \A i \in 1 .. Len(x) : Hop(h, m, i)'
    BY <1>2, <1>6, <1>9, <2>2, <2>3 DEF Hop
  <2> QED
    BY <1>5, <1>6, <2>3, <2>4 DEF Path
<1>13. LaneGoals(h)'
  <2> DEFINE l == IF dst \in processed THEN DeadLane ELSE [current |-> z, dest |-> dst, taken |-> FALSE]
  <2>1. l \in Lane /\ (l.current # Null => ~l.taken /\ l.current = z /\ l.dest = dst)
    BY <1>2, <1>4 DEF Lane, DeadLane, Null
  <2>2. lanes' = UpdateLane(l)
    BY <1>1
  <2> HIDE DEF l
  <2>3. \A i \in OpenLanes' : \/ i \in OpenLanes /\ lanes'[i] = lanes[i]
                              \/ l.current # Null /\ lanes'[i] = l
    BY <1>1, <2>1, <2>2, ReplacedOpen
  <2> QED
    BY <1>8, <1>10, <2>1, <2>3, AtEndLanes
<1>14. PathsOK(h)' /\ ConvertedOK(h)' /\ SplitGoals(h)' /\ AtSource(h)'
  BY <1>2, <1>8, <1>9, <1>10, <1>11, <1>12, AtEndGoals
<1> QED
  BY <1>8, <1>13, <1>14 DEF PathGoals

\* The block that is next to be visited has a goal.
LEMMA NextGoal ==
  ASSUME Good, NEW g, PathGoals(g), after # <<>>
  PROVE  after[1] \in 1 .. Len(code) /\ g[after[1]] \in 1 .. N
<1>1. 1 \in 1 .. Len(after)
  BY ListFacts
<1>2. after[1] \in 1 .. Len(code)
  BY <1>1, ListFacts
<1> QED
  BY <1>2 DEF PathGoals, GoalOK

LEMMA ConditionalGoals ==
  Good /\ Good' /\ LayoutOK /\ PathInvariant /\ ReplaceConditionalBranch => PathInvariant'
<1> SUFFICES ASSUME Good, Good', LayoutOK, ReplaceConditionalBranch, NEW g, PathGoals(g)
             PROVE  \E h : PathGoals(h)'
  BY DEF PathInvariant
<1>0. PICK m, z, y : m = mbb /\ z = Len(code) + 1 /\ y = Len(code) + 2
  OBVIOUS
<1> DEFINE x == Front(code[m]) \o <<Lea(z), LeaTmp(y), CMov(last.cc)>>
           fall == [current |-> z, dest |-> Null, taken |-> TRUE]
<1>1. PICK dst \in last.to :
        /\ pc = "term" /\ pc' = "block" /\ UNCHANGED <<fn, after, pending>>
        /\ IsConditionalBranch(last) /\ Len(code') = y /\ code'[z] = <<>>
        /\ \A b \in 1 .. Len(code) : code'[b] = IF b = m THEN x ELSE code[b]
        /\ IF dst \in processed
           THEN code'[y] = <<Jmp(dst)>> /\ lanes' = UpdateLane(fall)
           ELSE /\ code'[y] = <<>>
                /\ lanes' = Append(UpdateLane(fall), [current |-> y, dest |-> dst, taken |-> FALSE])
  BY <1>0, ConditionalEffect DEF TermUnchanged
<1>2. /\ Len(code) \in Nat /\ N \in Nat /\ N <= Len(code) /\ z \in Nat /\ y \in Nat
      /\ z \in N + 1 .. Len(code') /\ y \in N + 1 .. Len(code') /\ Len(code') \in Nat
      /\ Len(code') >= Len(code) /\ Len(code') >= Len(code) + 1 /\ Len(code') >= Len(code) + 2
      /\ \A b \in Len(code) + 1 .. Len(code') : b = z \/ b = y
  BY <1>0, <1>1, SizeFacts
<1>3. /\ m \in 1 .. Len(code) /\ code[m] \in Seq(Instr) /\ code[m] # <<>> /\ SourceInstr(last) /\ Visiting
      /\ m \in Nat /\ last.op # "tailcc"
  BY <1>0, <1>1, <1>2, AtHand, TermVisiting DEF last
<1>4. last.op = "jcc" /\ dst \in 1 .. N /\ last.to = {dst} /\ last.cc \in Conds \cup {NoCond}
  BY <1>1, <1>3 DEF SourceInstr, IsConditionalBranch, Instr
<1>5. m <= N
  BY <1>0, <1>1, <1>2, <1>3, <1>4, SplitOff
<1>6. /\ x \in Seq(Instr) /\ Len(x) = Len(code[m]) + 2 /\ Len(code[m]) \in Nat /\ Len(code[m]) >= 1
      /\ x # <<>> /\ Last(x) = CMov(last.cc)
      /\ \A q \in 1 .. Len(code[m]) - 1 : x[q] = code[m][q]
      /\ x[Len(code[m])] = Lea(z) /\ x[Len(code[m]) + 1] = LeaTmp(y) /\ x[Len(code[m]) + 2] = CMov(last.cc)
  <2>1. Lea(z) \in Instr /\ LeaTmp(y) \in Instr /\ CMov(last.cc) \in Instr
    BY <1>2, <1>4, InstrType
  <2>0. PICK i, j, k, c : i = Lea(z) /\ j = LeaTmp(y) /\ k = CMov(last.cc) /\ c = code[m]
    OBVIOUS
  <2>2. ByThree(Front(c) \o <<i, j, k>>, c, i, j, k)
    <3>1. c \in Seq(Instr) /\ c # <<>> /\ i \in Instr /\ j \in Instr /\ k \in Instr
      BY <1>3, <2>0, <2>1
    <3> QED
      BY <3>1, ReplaceLastByThree
  <2>3. ByThree(x, c, i, j, k)
    BY <2>0, <2>2
  <2> HIDE DEF x
  <2> QED
    BY <2>0, <2>3, Zenon DEF ByThree
<1>7. code'[m] = x
  BY <1>1, <1>3
<1>8. FakesKept
  <2>1. Last(x).op # "jmpreg"
    BY <1>6 DEF CMov
  <2> HIDE DEF x
  <2> QED
    BY <1>0, <1>1, <1>3, <1>6, <2>1, TermKept
<1> HIDE DEF x, fall
<1>9. /\ m \in 1 .. N /\ Len(code[m]) <= Len(fn[m]) /\ Len(fn[m]) \in Nat
      /\ \A i \in 1 .. Len(code[m]) : code[m][i] = fn[m][i]
      /\ last = fn[m][Len(code[m])] /\ after # <<>>
      /\ Continues(m, Len(code[m]), g[after[1]])
  BY <1>0, <1>1, <1>4, <1>5, OfSource
<1>10. PICK t \in 1 .. N : t = g[after[1]]
  BY <1>9, NextGoal
<1>11. PICK h : Kept(g, h) /\ GoalOK(h)' /\ h[z] = t /\ h[y] = dst
  BY <1>0, <1>1, <1>2, <1>4, <1>8, ExtendGoal, SMTT(30) DEF PathGoals
<1>12. Leads(h, z, t)' /\ Leads(h, y, dst)' /\ (code'[y] = <<>> \/ Path(h, y)')
  BY <1>1, <1>2, <1>4, <1>11, NewBlock
<1>13. AtEnd(m)
  BY <1>0, <1>1, <1>2 DEF AtEnd
<1>14. Converted(h, m)'
  <2>1. PICK k : k = Len(code[m])
    OBVIOUS
  <2>2. /\ k \in 1 .. Len(fn[m]) /\ k - 1 <= Len(x) /\ k - 1 <= Len(fn[m]) /\ Len(x) = k + 2
        /\ \A i \in 1 .. k - 1 : i \in 1 .. Len(code[m]) /\ i \in 1 .. Len(code[m]) - 1
    BY <1>6, <1>9, <2>1
  <2>3. Keeps(m, k - 1)'
    BY <1>1, <1>6, <1>7, <1>9, <2>2 DEF Keeps
  <2>4. Continues(m, k, t)'
    BY <1>1, <1>9, <1>10, <2>1 DEF Continues
  <2>5. fn[m][k].op = "jcc" /\ fn[m][k].to = {dst} /\ x[k] = Lea(z) /\ x[k + 1] = LeaTmp(y)
        /\ x[k + 2] = CMov(fn[m][k].cc)
    BY <1>4, <1>6, <1>9, <2>1
  <2>6. EndsInCMov(h, m)'
    <3>1. /\ Keeps(m, k - 1)' /\ fn'[m][k].op = "jcc" /\ Len(code'[m]) = k + 2
          /\ code'[m][k] = Lea(z) /\ code'[m][k + 1] = LeaTmp(y) /\ code'[m][k + 2] = CMov(fn'[m][k].cc)
          /\ Leads(h, z, t)' /\ Continues(m, k, t)' /\ Leads(h, y, dst)' /\ fn'[m][k].to = {dst}
          /\ k \in 1 .. Len(fn'[m])
      BY <1>1, <1>7, <1>12, <2>2, <2>3, <2>4, <2>5
    <3> QED
      BY <1>2, <1>4, <3>1, Zenon DEF EndsInCMov
  <2> QED
    BY <2>6 DEF Converted
<1>15. LaneGoals(h)'
  <2> DEFINE j == [current |-> y, dest |-> dst, taken |-> FALSE]
  <2>1. fall \in Lane /\ fall.taken /\ fall.current = z
    BY <1>2 DEF Lane, Null, fall
  <2>2. j \in Lane /\ ~j.taken /\ j.current = y /\ j.dest = dst
    BY <1>2, <1>4 DEF Lane
  <2>3. h[after[1]] = t
    BY <1>9, <1>10, <1>11, NextGoal DEF Kept
  <2>4. lanes' = UpdateLane(fall) \/ lanes' = Append(UpdateLane(fall), j)
    BY <1>1
  <2> HIDE DEF j
  <2>5. \A i \in OpenLanes' : (i \in OpenLanes /\ lanes'[i] = lanes[i]) \/ lanes'[i] = fall \/ lanes'[i] = j
    <3>1. CASE lanes' = UpdateLane(fall)
      BY <1>1, <2>1, <3>1, ReplacedOpen
    <3>2. CASE lanes' = Append(UpdateLane(fall), j)
      <4> DEFINE u == UpdateLane(fall)
      <4>1. /\ u \in Seq(Lane) /\ Len(u) = Len(lanes) /\ DOMAIN lanes = 1 .. Len(lanes) /\ Len(lanes) \in Nat
            /\ \A i \in 1 .. Len(lanes) : u[i] = IF i = takenLane THEN fall ELSE lanes[i]
        BY <1>1, <2>1, LaneReplaced, SizeFacts
      <4> HIDE DEF u
      <4>2. /\ lanes' \in Seq(Lane) /\ Len(lanes') = Len(u) + 1 /\ \A i \in 1 .. Len(u) : lanes'[i] = u[i]
            /\ lanes'[Len(u) + 1] = j
        <5>1. lanes' = Append(u, j)
          BY <3>2 DEF u
        <5> QED
          BY <2>2, <4>1, <5>1, ExtendFacts
      <4>3. \A i \in DOMAIN lanes' : i \in 1 .. Len(lanes) \/ i = Len(lanes) + 1
        BY <4>1, <4>2
      <4>4. \A i \in OpenLanes' : i \in DOMAIN lanes' /\ lanes'[i].current # Null
        BY DEF OpenLanes
      <4> QED
        BY <1>1, <4>1, <4>2, <4>3, <4>4 DEF OpenLanes
    <3> QED
      BY <2>4, <3>1, <3>2
  <2> QED
    BY <1>9, <1>11, <1>13, <2>1, <2>2, <2>3, <2>5, AtEndLanes
<1>16. PathsOK(h)' /\ ConvertedOK(h)' /\ SplitGoals(h)' /\ AtSource(h)'
  <2>1. ~(m > N)
    BY <1>2, <1>3, <1>5
  <2> QED
    BY <1>1, <1>2, <1>11, <1>12, <1>13, <1>14, <2>1, AtEndGoals
<1> QED
  BY <1>11, <1>15, <1>16 DEF PathGoals

LEMMA NoBranchGoals ==
  Good /\ Good' /\ LayoutOK /\ PathInvariant /\ ReplaceNoBranchBlock => PathInvariant'
<1> SUFFICES ASSUME Good, Good', LayoutOK, ReplaceNoBranchBlock, NEW g, PathGoals(g)
             PROVE  \E h : PathGoals(h)'
  BY DEF PathInvariant
<1>0. PICK m, z : m = mbb /\ z = Len(code) + 1
  OBVIOUS
<1> DEFINE falls == originalFallThrough # Null
           x == IF falls THEN Append(code[m], Lea(z)) ELSE code[m]
           l == IF falls THEN [current |-> z, dest |-> Null, taken |-> TRUE] ELSE DeadLane
<1>1. /\ pc = "term" /\ pc' = "block" /\ UNCHANGED <<fn, after, pending>>
      /\ last.op \in {"body", "keep", "ret", "call"}
      /\ Len(code') = IF falls THEN z ELSE Len(code)
      /\ falls => code'[z] = <<>>
      /\ \A b \in 1 .. Len(code) : code'[b] = IF b = m THEN x ELSE code[b]
      /\ lanes' = UpdateLane(l)
  BY <1>0, NoBranchEffect DEF TermUnchanged
<1>2. /\ Len(code) \in Nat /\ N \in Nat /\ N <= Len(code) /\ z \in Nat /\ Len(code') \in Nat
      /\ Len(code') >= Len(code)
      /\ falls => z \in N + 1 .. Len(code') /\ Len(code') >= Len(code) + 1
      /\ \A b \in Len(code) + 1 .. Len(code') : falls /\ b = z
  BY <1>0, <1>1, SizeFacts
<1>3. /\ m \in 1 .. Len(code) /\ code[m] \in Seq(Instr) /\ code[m] # <<>> /\ SourceInstr(last) /\ Visiting
      /\ m \in Nat
  BY <1>0, <1>1, <1>2, AtHand, TermVisiting DEF last
<1>4. m <= N
  BY <1>0, <1>1, <1>2, <1>3, SplitOff
<1>5. /\ m \in 1 .. N /\ Len(code[m]) \in Nat /\ Len(code[m]) = Len(fn[m]) /\ Len(fn[m]) \in Nat
      /\ \A i \in 1 .. Len(code[m]) : code[m][i] = fn[m][i]
      /\ last = Last(fn[m])
      /\ after # <<>> => Continues(m, Len(code[m]), g[after[1]])
  BY <1>0, <1>1, <1>4, OfSource
<1>6. falls => after # <<>>
  BY <1>3 DEF LayoutOK, FallThroughAhead
<1>7. PICK t \in 1 .. N : after # <<>> => t = g[after[1]]
  BY <1>5, NextGoal
<1>8. /\ x # <<>> /\ Last(x).op # "jmpreg" /\ code'[m] = x
      /\ falls => /\ Len(x) = Len(code[m]) + 1 /\ x[Len(code[m]) + 1] = Lea(z)
                  /\ \A q \in 1 .. Len(code[m]) : x[q] = code[m][q]
      /\ ~falls => x = code[m]
  <2>1. Lea(z) \in Instr /\ Lea(z).op # "jmpreg"
    BY <1>2, InstrType DEF Lea
  <2>2. CASE falls
    BY <1>1, <1>3, <2>1, <2>2, AppendOne
  <2>3. CASE ~falls
    <3>1. Last(code[m]).op # "jmpreg"
      BY <1>0, <1>1 DEF last
    <3> QED
      BY <1>1, <1>3, <2>3, <3>1
  <2> QED
    BY <2>2, <2>3
<1> HIDE DEF x
<1>9. FakesKept
  BY <1>0, <1>1, <1>3, <1>8, TermKept
<1>10. PICK h : Kept(g, h) /\ GoalOK(h)' /\ (falls => h[z] = t)
  BY <1>0, <1>1, <1>2, <1>9, ExtendGoal DEF PathGoals
<1>11. falls => Leads(h, z, t)'
  BY <1>1, <1>2, <1>10, NewBlock
<1>12. AtEnd(m)
  BY <1>0, <1>1, <1>2 DEF AtEnd
<1>13. Converted(h, m)'
  <2>1. CASE falls
    <3>1. PICK k : k = Len(code[m])
      OBVIOUS
    <3>2. k \in 0 .. Len(fn[m]) /\ k <= Len(x) /\ k <= Len(fn[m])
      BY <1>5, <1>8, <2>1, <3>1
    <3>3. Keeps(m, k)'
      BY <1>1, <1>5, <1>8, <2>1, <3>1, <3>2 DEF Keeps
    <3>4. Continues(m, k, t)'
      BY <1>1, <1>5, <1>6, <1>7, <2>1, <3>1 DEF Continues
    <3>5. fn[m][k].op # "jcc" /\ Last(fn[m]).op # "jmp"
      BY <1>1, <1>5, <3>1, FnFacts
    <3>6. EndsInLea(h, m)'
      BY <1>1, <1>2, <1>8, <1>11, <2>1, <3>1, <3>2, <3>3, <3>4, <3>5 DEF EndsInLea
    <3> QED
      BY <3>6 DEF Converted
  <2>2. CASE ~falls
    <3>1. last.op \in {"ret", "call"}
      BY <1>1, <1>3, <2>2 DEF Good, PassInvariant, AtBlock, last
    <3>2. Keeps(m, Len(fn[m]))'
      BY <1>1, <1>5, <1>8, <2>2 DEF Keeps
    <3>3. EndsAsBefore(m)'
      BY <1>1, <1>5, <1>8, <2>2, <3>1, <3>2 DEF EndsAsBefore
    <3> QED
      BY <3>3 DEF Converted
  <2> QED
    BY <2>1, <2>2
<1>14. LaneGoals(h)'
  <2>1. l \in Lane /\ (l.current # Null => l.taken /\ l.current = z /\ falls)
    BY <1>2 DEF Lane, DeadLane, Null
  <2>2. falls => h[after[1]] = t
    BY <1>6, <1>7, <1>10, NextGoal DEF Kept
  <2> HIDE DEF l, falls
  <2>3. \A i \in OpenLanes' : \/ i \in OpenLanes /\ lanes'[i] = lanes[i]
                              \/ l.current # Null /\ lanes'[i] = l
    BY <1>1, <2>1, ReplacedOpen
  <2> QED
    BY <1>6, <1>10, <1>12, <2>1, <2>2, <2>3, AtEndLanes
<1>15. PathsOK(h)' /\ ConvertedOK(h)' /\ SplitGoals(h)' /\ AtSource(h)'
  <2>1. ~(m > N)
    BY <1>2, <1>3, <1>4
  <2> HIDE DEF l, falls
  <2> QED
    BY <1>1, <1>2, <1>10, <1>12, <1>13, <2>1, AtEndGoals
<1> QED
  BY <1>10, <1>14, <1>15 DEF PathGoals

LEMMA IndirectGoals ==
  Good /\ Good' /\ PathInvariant /\ ReplaceIndirectJump => PathInvariant'
<1> SUFFICES ASSUME Good, Good', ReplaceIndirectJump, NEW g, PathGoals(g)
             PROVE  PathGoals(g)'
  BY DEF PathInvariant
<1>0. PICK m : m = mbb
  OBVIOUS
<1>1. /\ pc = "term" /\ pc' = "block" /\ UNCHANGED <<fn, after, pending, code>> /\ last.op = "ind"
      /\ lanes' = UpdateLane(DeadLane)
  BY IndirectEffect DEF TermUnchanged
<1>2. Kept(g, g) /\ GoalOK(g)'
  BY <1>1, SizeFacts DEF PathGoals, GoalOK, Kept, FakesKept, Fake
<1>3. AtEnd(m)
  BY <1>0, <1>1, SizeFacts DEF AtEnd
<1>4. m <= N
  BY <1>0, <1>1, SplitOff, SizeFacts, AtHand, TermVisiting
<1>5. /\ m \in 1 .. N /\ Len(code[m]) \in Nat /\ Len(code[m]) = Len(fn[m]) /\ Len(fn[m]) \in Nat
      /\ \A i \in 1 .. Len(code[m]) : code[m][i] = fn[m][i]
      /\ last = Last(fn[m])
  BY <1>0, <1>1, <1>4, OfSource
<1>6. Converted(g, m)'
  <2>1. Keeps(m, Len(fn[m]))'
    BY <1>1, <1>5 DEF Keeps
  <2>2. EndsAsBefore(m)'
    BY <1>1, <1>5, <2>1 DEF EndsAsBefore
  <2> QED
    BY <2>2 DEF Converted
<1>7. LaneGoals(g)'
  <2>1. DeadLane \in Lane /\ DeadLane.current = Null
    BY DEF DeadLane, Lane, Null
  <2>2. \A i \in OpenLanes' : i \in OpenLanes /\ lanes'[i] = lanes[i]
    BY <1>1, <2>1, ReplacedOpen
  <2> QED
    BY <1>2, <1>3, <2>2, AtEndLanes
<1>8. PathsOK(g)' /\ ConvertedOK(g)' /\ SplitGoals(g)' /\ AtSource(g)'
  <2>1. ~(m > N) /\ Len(code) + 1 .. Len(code') = {}
    BY <1>1, <1>4, <1>5, SizeFacts
  <2> QED
    BY <1>2, <1>3, <1>6, <2>1, AtEndGoals
<1> QED
  BY <1>2, <1>7, <1>8 DEF PathGoals

LEMMA SplitStepGoals ==
  Good /\ Good' /\ PathInvariant /\ SplitJump => PathInvariant'
<1> SUFFICES ASSUME Good, Good', SplitJump, NEW g, PathGoals(g)
             PROVE  \E h : PathGoals(h)'
  BY DEF PathInvariant
<1>0. PICK m, z : m = mbb /\ z = Len(code) + 1
  OBVIOUS
<1> DEFINE s == code[m]
           x == Front(s)
<1>1. /\ pc = "term" /\ pc' = "term" /\ last.op = "jmp" /\ Len(s) > 1 /\ IsConditionalBranch(s[Len(s) - 1])
      /\ UNCHANGED <<fn, lanes, pending, takenLane, mbb>>
      /\ Len(code') = z /\ code'[z] = <<last>>
      /\ \A b \in 1 .. Len(code) : code'[b] = IF b = m THEN x ELSE code[b]
      /\ after' = <<z>> \o after
  BY <1>0, SplitEffect DEF IsUnconditionalBranch
<1>2. /\ Len(code) \in Nat /\ N \in Nat /\ N <= Len(code) /\ z \in Nat /\ z \in N + 1 .. Len(code')
      /\ Len(code') \in Nat /\ Len(code') >= Len(code) /\ Len(code') >= Len(code) + 1
      /\ Len(code) + 1 .. Len(code') = {z} /\ 1 .. N \subseteq 1 .. Len(code)
      /\ N + 1 .. Len(code) \subseteq 1 .. Len(code) /\ z \notin 1 .. Len(code)
  BY <1>0, <1>1, SizeFacts
<1>3. /\ m \in 1 .. Len(code) /\ s \in Seq(Instr) /\ s # <<>> /\ SourceInstr(last) /\ Visiting /\ Visiting'
      /\ m \in Nat /\ Len(s) \in Nat
      /\ \A i \in 1 .. Len(s) : SourceInstr(s[i]) /\ s[i].op # "tailcc"
  BY <1>0, <1>1, <1>2, AtHand, TermVisiting DEF last, Visiting
<1>4. m \in 1 .. N
  <2>1. m > N => Len(code[m]) = 1
    BY <1>0, <1>1, SplitOff
  <2>2. Len(code[m]) > 1
    BY <1>1
  <2> QED
    BY <1>2, <1>3, <2>1, <2>2
<1>5. /\ Len(s) = Len(fn[m]) /\ Len(fn[m]) \in Nat /\ last = fn[m][Len(s)]
      /\ \A i \in 1 .. Len(s) : s[i] = fn[m][i]
  BY <1>0, <1>1, <1>2, <1>4, OfSource
<1>6. /\ x \in Seq(Instr) /\ Len(x) = Len(s) - 1
      /\ \A i \in 1 .. Len(s) - 1 : x[i] = s[i]
  BY <1>3, FrontFacts
<1>7. code'[m] = x
  BY <1>1, <1>3
<1> HIDE DEF x, s
<1>8. /\ Len(s) - 1 \in 1 .. Len(s) /\ Len(s) - 1 \in 1 .. Len(s) - 1 /\ Len(x) >= 1
  BY <1>1, <1>3, <1>6
<1>9. x # <<>> /\ Last(x) = x[Len(s) - 1] /\ Last(x).op = "jcc"
  <2>1. x # <<>>
    BY <1>6, <1>8
  <2>2. Last(x) = x[Len(s) - 1]
    BY <1>6 DEF Last
  <2>3. s[Len(s) - 1].op = "jcc"
    BY <1>1, <1>3, <1>8 DEF IsConditionalBranch
  <2> QED
    BY <1>6, <1>8, <2>1, <2>2, <2>3
<1>10. FakesKept
  <2>1. Last(x).op # "jmpreg"
    BY <1>9
  <2> QED
    BY <1>0, <1>1, <1>3, <1>9, <2>1, TermKept
<1>11. PICK dst \in 1 .. N : last.to = {dst}
  BY <1>1, <1>3 DEF SourceInstr
<1>12. PICK h : Kept(g, h) /\ GoalOK(h)' /\ h[z] = dst
  <2>1. fn' = fn /\ GoalOK(g)
    BY <1>1 DEF PathGoals
  <2> QED
    BY <1>0, <1>2, <1>10, <2>1, ExtendGoal
<1>13. /\ Range(after') = {z} \cup Range(after) /\ after' # <<>> /\ after'[1] = z
  <2>1. after \in Seq(Nat)
    BY ListFacts, <1>2 DEF Blocks
  <2>2. /\ Len(<<z>> \o after) = Len(after) + 1 /\ (<<z>> \o after)[1] = z /\ <<z>> \o after \in Seq(Nat)
        /\ Range(<<z>> \o after) = {z} \cup Range(after)
    BY <1>2, <2>1, ConsFacts, SMTT(30)
  <2>3. <<z>> \o after # <<>>
    BY <2>1
  <2> QED
    BY <1>1, <2>2, <2>3
<1>14. Ahead' = Ahead \cup {z}
  BY <1>1, <1>3, <1>13 DEF Ahead
<1>15. m \in Ahead
  BY <1>0, <1>3 DEF Ahead
<1>16. \A b \in N + 1 .. Len(code) : code'[b] = code[b]
  <2>1. m \notin N + 1 .. Len(code)
    BY <1>2, <1>4
  <2> QED
    BY <1>1, <1>2, <2>1
<1>17. PathsOK(h)'
  BY <1>2, <1>12, <1>14, <1>16, PathsStep DEF PathGoals
<1>18. ConvertedOK(h)'
  <2>1. \A b \in 1 .. N : b \in Ahead \/ code'[b] = code[b]
    BY <1>1, <1>2, <1>15
  <2> QED
    BY <1>12, <1>14, <2>1, ConvertedStep DEF PathGoals
<1>19. SplitGoals(h)'
  <2>1. Len(<<last>>) = 1 /\ <<last>>[1] = last
    OBVIOUS
  <2>2. \A b \in N + 1 .. Len(code) : b \in Ahead' => b \in Ahead /\ code'[b] = code[b]
    BY <1>2, <1>14, <1>16
  <2>3. Len(code'[z]) = 1 /\ code'[z][1].op = "jmp" /\ code'[z][1].to = {h[z]}
    BY <1>1, <1>11, <1>12, <2>1
  <2> QED
    BY <1>2, <1>12, <2>2, <2>3, SplitGoalsStep DEF PathGoals
<1>20. AtSource(h)'
  <2>0. PICK k : k = Len(s) - 1
    OBVIOUS
  <2>1. Keeps(m, k)'
    <3>1. k <= Len(fn[m]) /\ k <= Len(x) /\ \A i \in 1 .. k : i \in 1 .. Len(s) - 1 /\ i \in 1 .. Len(s)
      BY <1>3, <1>5, <1>6, <2>0
    <3>2. \A i \in 1 .. k : x[i] = fn[m][i]
      BY <1>5, <1>6, <3>1
    <3> QED
      BY <1>1, <1>7, <3>1, <3>2 DEF Keeps
  <2>2. Continues(m, k, dst)'
    <3>1. k < Len(fn[m]) /\ k + 1 = Len(s)
      BY <1>3, <1>5, <2>0
    <3>2. fn[m][k + 1] = last
      BY <1>5, <3>1
    <3>3. fn'[m][k + 1].op = "jmp" /\ fn'[m][k + 1].to = {dst} /\ k < Len(fn'[m])
      BY <1>1, <1>11, <3>1, <3>2
    <3> QED
      BY <3>3 DEF Continues
  <2>3. h[after'[1]] = dst /\ Len(code'[m]) = k
    BY <1>6, <1>7, <1>12, <1>13, <2>0
  <2>4. Last(code'[m]).op = "jcc" /\ mbb' = m
    BY <1>0, <1>1, <1>7, <1>9
  <2> QED
    BY <1>13, <2>1, <2>2, <2>3, <2>4 DEF AtSource
<1>21. LaneGoals(h)'
  <2>1. OpenLanes' = OpenLanes /\ OpenPending' = {}
    BY <1>1 DEF OpenLanes, OpenPending, Good, PassInvariant, LanesLeadAhead
  <2>2. ASSUME NEW i \in OpenLanes PROVE ~lanes[i].taken /\ h[lanes[i].current] = lanes[i].dest
    <3>1. ~lanes[i].taken /\ g[lanes[i].current] = lanes[i].dest
      BY <1>3 DEF PathGoals, LaneGoals
    <3>2. lanes[i].current \in 1 .. Len(code)
      BY <1>2, OpenFacts
    <3> QED
      BY <1>12, <3>1, <3>2 DEF Kept
  <2> QED
    BY <1>1, <2>1, <2>2 DEF LaneGoals
<1> QED
  BY <1>12, <1>17, <1>18, <1>19, <1>20, <1>21 DEF PathGoals

LEMMA FinishGoals ==
  Good /\ Good' /\ PathInvariant /\ Finish => PathInvariant'
<1> SUFFICES ASSUME Good, Good', Finish, NEW g, PathGoals(g)
             PROVE  \E h : PathGoals(h)'
  BY DEF PathInvariant
<1>0. PICK z : z = Len(code) + 1
  OBVIOUS
<1>1. /\ pc = "block" /\ pc' = "done" /\ UNCHANGED <<fn, after, lanes, pending, takenLane, mbb>>
      /\ Len(code') = z /\ code'[z] = <<Jmp(1)>>
      /\ \A b \in 1 .. Len(code) : code'[b] = code[b]
  BY <1>0, FinishEffect
<1>2. /\ Len(code) \in Nat /\ N \in Nat /\ N <= Len(code) /\ z \in Nat /\ z \in N + 1 .. Len(code')
      /\ Len(code') \in Nat /\ Len(code') >= Len(code) /\ Len(code') >= Len(code) + 1
      /\ Len(code) + 1 .. Len(code') = {z} /\ 1 .. N \subseteq 1 .. Len(code) /\ 1 \in 1 .. N
      /\ N + 1 .. Len(code) \subseteq 1 .. Len(code) /\ z \notin 1 .. Len(code)
  BY <1>0, <1>1, SizeFacts
<1>3. FakesKept
  BY <1>1 DEF FakesKept, Fake
<1>4. PICK h : Kept(g, h) /\ GoalOK(h)' /\ h[z] = 1
  BY <1>0, <1>1, <1>2, <1>3, ExtendGoal DEF PathGoals
<1>5. ~Visiting /\ ~Visiting' /\ Ahead' = Ahead
  BY <1>1 DEF Visiting, Ahead
<1>6. Path(h, z)'
  <2>1. <<Jmp(1)>> # <<>>
    OBVIOUS
  <2> QED
    BY <1>1, <1>2, <1>4, <2>1, NewBlock
<1>7. PathsOK(h)'
  <2>1. \A b \in N + 1 .. Len(code) : code'[b] = code[b]
    BY <1>1, <1>2
  <2> QED
    BY <1>2, <1>4, <1>5, <1>6, <2>1, PathsStep DEF PathGoals
<1>8. ConvertedOK(h)'
  <2>1. \A b \in 1 .. N : code'[b] = code[b]
    BY <1>1, <1>2
  <2> QED
    BY <1>4, <1>5, <2>1, ConvertedStep DEF PathGoals
<1>9. SplitGoals(h)'
  <2>1. z \notin Ahead
    BY <1>2, AheadFacts
  <2>2. \A b \in N + 1 .. Len(code) : code'[b] = code[b]
    BY <1>1, <1>2
  <2> QED
    BY <1>2, <1>4, <1>5, <2>1, <2>2, SplitGoalsStep DEF PathGoals
<1>10. AtSource(h)'
  BY <1>5 DEF AtSource
<1>11. LaneGoals(h)'
  <2>1. OpenLanes' = OpenLanes /\ OpenPending' = {}
    BY <1>1 DEF OpenLanes, OpenPending, Good, PassInvariant, LanesLeadAhead
  <2>2. ASSUME NEW i \in OpenLanes
        PROVE  IF lanes[i].taken THEN after # <<>> /\ h[lanes[i].current] = h[after[1]]
               ELSE h[lanes[i].current] = lanes[i].dest
    <3>1. h[lanes[i].current] = g[lanes[i].current]
      BY <1>2, <1>4, OpenFacts DEF Kept
    <3>2. after # <<>> => h[after[1]] = g[after[1]]
      BY <1>4, NextGoal DEF Kept
    <3> QED
      BY <3>1, <3>2 DEF PathGoals, LaneGoals
  <2> QED
    BY <1>1, <1>5, <2>1, <2>2 DEF LaneGoals
<1> QED
  BY <1>4, <1>7, <1>8, <1>9, <1>10, <1>11 DEF PathGoals

LEMMA SameGoals ==
  ASSUME Good, NEW g, PathGoals(g), UNCHANGED vars
  PROVE  PathGoals(g)'
<1>1. fn' = fn /\ code' = code /\ after' = after /\ mbb' = mbb /\ lanes' = lanes /\ pending' = pending
  BY DEF vars
<1>2. Ahead' = Ahead /\ (Visiting' <=> Visiting) /\ OpenLanes' = OpenLanes /\ OpenPending' = OpenPending
  BY DEF vars, Ahead, Visiting, OpenLanes, OpenPending
<1>3. \A b : Fake(b)' <=> Fake(b)
  BY <1>1 DEF Fake
<1>4. Kept(g, g) /\ GoalOK(g)'
  BY <1>1, <1>3, SizeFacts DEF PathGoals, GoalOK, Kept, FakesKept
<1>5. N + 1 .. Len(code) \subseteq 1 .. Len(code) /\ Len(code) + 1 .. Len(code) = {}
  BY SizeFacts
<1>6. PathsOK(g)'
  BY <1>1, <1>2, <1>4, <1>5, PathsStep DEF PathGoals
<1>7. ConvertedOK(g)'
  BY <1>1, <1>2, <1>4, ConvertedStep DEF PathGoals
<1>8. SplitGoals(g)'
  BY <1>1, <1>2 DEF PathGoals, SplitGoals
<1>9. AtSource(g)'
  BY <1>1, <1>2 DEF PathGoals, AtSource, Keeps, Continues
<1>10. LaneGoals(g)'
  BY <1>1, <1>2 DEF PathGoals, LaneGoals
<1> QED
  BY <1>4, <1>6, <1>7, <1>8, <1>9, <1>10 DEF PathGoals

LEMMA PathStep ==
  Good /\ Good' /\ OneLane /\ LayoutOK /\ PathInvariant /\ [Next]_vars => PathInvariant'
<1> SUFFICES ASSUME Good, Good', OneLane, LayoutOK, PathInvariant, [Next]_vars PROVE PathInvariant'
  OBVIOUS
<1>1. CASE UNCHANGED vars
  BY <1>1, SameGoals DEF PathInvariant
<1> QED
  BY <1>1, StepCases, NextBlockGoals, ArrivesGoals, SkipsGoals, OtherLaneGoals, SplitStepGoals,
     UnconditionalGoals, ConditionalGoals, NoBranchGoals, IndirectGoals, FinishGoals

(***************************************************************************)
(* The theorems.                                                           *)
(***************************************************************************)
PathsInvariant == Supported(fn) => PathInvariant

\* Whatever blocks a supported function consists of, every trampoline and
\* every address loaded by a block of the result leads where the source block
\* went: to the target of its jump or to the block it ran into.
THEOREM PathsHold == Spec => []PathsInvariant
<1> DEFINE Inv == (Supported(fn) => Good) /\ LayoutInvariant
<1>1. Init /\ Inv => PathsInvariant
  BY InitGoals DEF PathsInvariant
<1>2. PathsInvariant /\ Inv /\ Inv' /\ [Next]_vars => PathsInvariant'
  <2> SUFFICES ASSUME PathsInvariant, Inv, Inv', [Next]_vars PROVE PathsInvariant'
    OBVIOUS
  <2>1. fn' = fn
    BY FunctionFixed
  <2>2. ASSUME Supported(fn) PROVE PathInvariant'
    <3>1. Supported(fn)'
      BY <2>1, <2>2 DEF Supported
    <3>2. Good /\ Good' /\ OneLane /\ LayoutOK /\ PathInvariant
      BY <2>2, <3>1 DEF LayoutInvariant, PathsInvariant
    <3> QED
      BY <3>2, PathStep
  <2> QED
    BY <2>1, <2>2 DEF PathsInvariant, Supported
<1>3. TypeOK /\ (Supported(fn) => Good) /\ LayoutInvariant => Inv
  OBVIOUS
<1> QED
  BY <1>1, <1>2, <1>3, LayoutHolds, PTL DEF Spec

\* What is left to do when the pass is done: nothing.
LEMMA DoneFacts ==
  ASSUME Good, OneLane, LayoutOK, NEW g, PathGoals(g), pc = "done"
  PROVE  /\ after = <<>> /\ Ahead = {}
         /\ \A b \in 1 .. N : Converted(g, b)
         /\ \A b \in N + 1 .. Len(code) : code[b] # <<>> /\ (Fake(b) \/ Path(g, b))
<1>1. after = <<>> /\ ~Visiting
  BY DEF LayoutOK, Visiting
<1>2. Range(after) = {} /\ Ahead = {}
  BY <1>1, RangeFacts, ListFacts DEF Ahead
<1>3. OpenPending = {}
  BY DEF OpenPending, Good, PassInvariant, LanesLeadAhead
<1>4. OpenLanes = {}
  <2> SUFFICES ASSUME NEW i \in OpenLanes PROVE FALSE
    OBVIOUS
  <2>1. ~lanes[i].taken
    BY <1>1 DEF PathGoals, LaneGoals
  <2>2. i \in DOMAIN lanes /\ Bound(lanes[i])
    BY <2>1 DEF OpenLanes, Bound
  <2>3. lanes[i].dest \in Range(after)
    BY <1>1, <2>2 DEF Good, PassInvariant, LanesLeadAhead
  <2> QED
    BY <1>2, <2>3
<1>5. \A b \in N + 1 .. Len(code) : code[b] # <<>>
  BY <1>3, <1>4 DEF OneLane
<1> QED
  BY <1>1, <1>2, <1>5 DEF PathGoals, PathsOK, ConvertedOK

\* How a converted source block ends.
LEMMA ConvertedEnd ==
  ASSUME Good, NEW g, NEW b \in 1 .. N, Converted(g, b)
  PROVE  code[b] # <<>> /\ Last(code[b]).op \in {"ind", "ret", "call", "lea", "cmov"}
<1>1. code[b] \in Seq(Instr)
  BY GoodFacts, SizeFacts
<1>2. Len(fn[b]) \in Nat /\ Len(fn[b]) >= 1 /\ Last(fn[b]) = fn[b][Len(fn[b])]
  BY FnFacts
<1>3. CASE EndsAsBefore(b)
  <2>1. Len(code[b]) = Len(fn[b]) /\ Last(fn[b]).op \in {"ret", "call", "ind"} /\ Keeps(b, Len(fn[b]))
    BY <1>3 DEF EndsAsBefore
  <2>2. Len(fn[b]) \in 1 .. Len(fn[b])
    BY <1>2
  <2>3. code[b][Len(fn[b])] = Last(fn[b])
    BY <1>2, <2>1, <2>2 DEF Keeps
  <2>4. code[b] # <<>> /\ Last(code[b]) = code[b][Len(code[b])]
    BY <1>1, <1>2, <2>1 DEF Last
  <2> QED
    BY <2>1, <2>3, <2>4
<1>4. CASE EndsInLea(g, b)
  <2>1. PICK k, z : k \in 0 .. Len(fn[b]) /\ Len(code[b]) = k + 1 /\ code[b][k + 1] = Lea(z)
    BY <1>4 DEF EndsInLea
  <2>2. code[b] # <<>> /\ Last(code[b]) = code[b][Len(code[b])]
    BY <1>1, <1>2, <2>1 DEF Last
  <2> QED
    BY <2>1, <2>2 DEF Lea
<1>5. CASE EndsInCMov(g, b)
  <2>1. PICK k \in 1 .. Len(fn[b]) : Len(code[b]) = k + 2 /\ code[b][k + 2] = CMov(fn[b][k].cc)
    BY <1>5 DEF EndsInCMov
  <2>2. code[b] # <<>> /\ Last(code[b]) = code[b][Len(code[b])]
    BY <1>1, <1>2, <2>1 DEF Last
  <2> QED
    BY <2>1, <2>2 DEF CMov
<1> QED
  BY <1>3, <1>4, <1>5 DEF Converted

\* When the pass is done with a supported function, no block of the result
\* runs off its end: it ends in a jump, a return or a call, or it has loaded
\* R15 and the next block in the list is the fake block that jumps there.
THEOREM BlocksLeave == Spec => [](Supported(fn) => EveryBlockLeaves)
<1>1. ASSUME Supported(fn) => Good, LayoutInvariant, PathsInvariant
      PROVE  Supported(fn) => EveryBlockLeaves
  <2> SUFFICES ASSUME Supported(fn), pc = "done", NEW p \in DOMAIN Layout
               PROVE  LET s == code[Layout[p]]
                      IN s # <<>> /\ \/ Last(s).op \in {"jmp", "ind", "jmpreg", "ret", "call", "stop"}
                                     \/ Last(s).op \in {"lea", "cmov"} /\ FollowedByFake(p)
    BY DEF EveryBlockLeaves
  <2>1. Good /\ OneLane /\ LayoutOK
    BY <1>1 DEF LayoutInvariant
  <2>2. PICK g : PathGoals(g)
    BY <1>1 DEF PathsInvariant, PathInvariant
  <2>3. /\ after = <<>>
        /\ \A b \in 1 .. N : Converted(g, b)
        /\ \A b \in N + 1 .. Len(code) : code[b] # <<>> /\ (Fake(b) \/ Path(g, b))
    BY <2>1, <2>2, DoneFacts
  <2>4. Layout = before /\ p \in 1 .. Len(before)
    BY <2>1, <2>3, ListFacts DEF Layout
  <2>5. PICK b : b = before[p] /\ b \in 1 .. Len(code)
    BY <2>1, <2>4, ListFacts
  <2>6. b \in 1 .. N \/ b \in N + 1 .. Len(code)
    BY <2>1, <2>5, SizeFacts
  <2>7. code[b] # <<>> /\ Last(code[b]).op \in {"jmp", "ind", "jmpreg", "ret", "call", "lea", "cmov"}
    <3>1. CASE b \in 1 .. N
      BY <2>1, <2>3, <3>1, ConvertedEnd
    <3>2. CASE b \in N + 1 .. Len(code)
      BY <2>3, <3>2, FakeEnd DEF Path
    <3> QED
      BY <2>6, <3>1, <3>2
  <2>8. Last(code[b]).op \in {"lea", "cmov"} => FollowedByFake(p)
    BY <2>1, <2>4, <2>5, <2>7 DEF LayoutOK, LeaBeforeFake, EndsInLoad, Loads, FollowedByFake, Fake
  <2> QED
    BY <2>4, <2>5, <2>7, <2>8
<1>2. (Supported(fn) => Good) /\ LayoutInvariant /\ PathsInvariant => (Supported(fn) => EveryBlockLeaves)
  BY <1>1
<1> QED
  BY <1>2, LayoutHolds, PathsHold, PTL

(***************************************************************************)
(* The functions all of whose branches the pass converts: no indirect      *)
(* jump, and a conditional branch only as the last instruction of a block  *)
(* or in front of a last unconditional one, as analyzeBranch finds it.     *)
(***************************************************************************)
BranchesAtEnd(s) ==
  \A i \in DOMAIN s :
    /\ s[i].op # "ind"
    /\ s[i].op = "jcc" => i = Len(s) \/ (i = Len(s) - 1 /\ Last(s).op = "jmp")
AllAtEnd(f) == \A b \in 1 .. N : BranchesAtEnd(f[b])

LEMMA NothingLeft ==
  ASSUME Good, AllAtEnd(fn), NEW g, NEW b \in 1 .. N, Converted(g, b), NEW i \in DOMAIN code[b]
  PROVE  code[b][i].op \notin {"jcc", "ind"}
<1>1. code[b] \in Seq(Instr)
  BY GoodFacts, SizeFacts
<1>2. i \in 1 .. Len(code[b]) /\ Len(code[b]) \in Nat
  BY <1>1
<1>3. /\ Len(fn[b]) \in Nat /\ Len(fn[b]) >= 1 /\ Last(fn[b]) = fn[b][Len(fn[b])]
      /\ \A q \in 1 .. Len(fn[b]) :
           /\ fn[b][q].op # "ind"
           /\ fn[b][q].op = "jcc" => q = Len(fn[b]) \/ (q = Len(fn[b]) - 1 /\ Last(fn[b]).op = "jmp")
  BY FnFacts DEF AllAtEnd, BranchesAtEnd
<1>4. CASE EndsAsBefore(b)
  <2>1. /\ Len(code[b]) = Len(fn[b]) /\ Last(fn[b]).op \in {"ret", "call", "ind"}
        /\ \A q \in 1 .. Len(fn[b]) : code[b][q] = fn[b][q]
    BY <1>4 DEF EndsAsBefore, Keeps
  <2> QED
    BY <1>2, <1>3, <2>1
<1>5. CASE EndsInLea(g, b)
  <2>1. PICK k, z, t :
          /\ k \in 0 .. Len(fn[b]) /\ Len(code[b]) = k + 1 /\ code[b][k + 1] = Lea(z) /\ Keeps(b, k) /\ Continues(b, k, t)
          /\ (k > 0 => fn[b][k].op # "jcc") /\ (k = Len(fn[b]) => Last(fn[b]).op # "jmp")
    BY <1>5 DEF EndsInLea
  <2>2. CASE i = k + 1
    BY <2>1, <2>2 DEF Lea
  <2>3. CASE i \in 1 .. k
    <3>1. code[b][i] = fn[b][i] /\ i \in 1 .. Len(fn[b]) /\ k > 0
      BY <1>3, <2>1, <2>3 DEF Keeps
    <3>2. CASE k = Len(fn[b])
      <4>1. Last(fn[b]).op # "jcc" /\ (i = Len(fn[b]) => fn[b][i].op # "jcc")
        BY <1>3, <2>1, <3>1, <3>2
      <4>2. Last(fn[b]).op # "jmp"
        BY <2>1, <3>2
      <4> QED
        BY <1>3, <3>1, <4>1, <4>2
    <3>3. CASE k < Len(fn[b])
      BY <1>3, <2>1, <2>3, <3>1, <3>3
    <3> QED
      BY <1>3, <2>1, <3>2, <3>3
  <2> QED
    BY <1>2, <1>3, <2>1, <2>2, <2>3
<1>6. CASE EndsInCMov(g, b)
  <2>1. PICK k, z, y :
          /\ k \in 1 .. Len(fn[b]) /\ Len(code[b]) = k + 2 /\ Keeps(b, k - 1) /\ fn[b][k].op = "jcc"
          /\ code[b][k] = Lea(z) /\ code[b][k + 1] = LeaTmp(y) /\ code[b][k + 2] = CMov(fn[b][k].cc)
    BY <1>6 DEF EndsInCMov
  <2>2. CASE i \in 1 .. k - 1
    <3>1. code[b][i] = fn[b][i] /\ i \in 1 .. Len(fn[b]) /\ i < k
      BY <1>3, <2>1, <2>2 DEF Keeps
    <3>2. fn[b][i].op # "jcc"
      <4>1. i # Len(fn[b]) /\ (i = Len(fn[b]) - 1 => k = Len(fn[b]))
        BY <1>3, <2>1, <3>1
      <4>2. i = Len(fn[b]) - 1 => Last(fn[b]).op = "jcc"
        BY <1>3, <2>1, <4>1
      <4> QED
        BY <1>3, <3>1, <4>1, <4>2
    <3> QED
      BY <1>3, <3>1, <3>2
  <2>3. CASE i = k \/ i = k + 1 \/ i = k + 2
    <3>1. Lea(z).op = "lea" /\ LeaTmp(y).op = "leatmp" /\ CMov(fn[b][k].cc).op = "cmov"
      BY DEF Lea, LeaTmp, CMov
    <3> QED
      BY <2>1, <2>3, <3>1
  <2> QED
    BY <1>2, <1>3, <2>1, <2>2, <2>3
<1> QED
  BY <1>4, <1>5, <1>6 DEF Converted

\* "convert all branch instructions into unconditional branches" (README.md)
\* is true of every supported function without an indirect jump whose
\* conditional branches end their blocks.
THEOREM AllConverted == Spec => [](Supported(fn) /\ AllAtEnd(fn) => NoBranchLeft)
<1>1. ASSUME Supported(fn) => Good, LayoutInvariant, PathsInvariant
      PROVE  Supported(fn) /\ AllAtEnd(fn) => NoBranchLeft
  <2> SUFFICES ASSUME Supported(fn), AllAtEnd(fn), pc = "done", NEW b \in Blocks, NEW i \in DOMAIN code[b]
               PROVE  code[b][i].op \notin {"jcc", "ind"}
    BY DEF NoBranchLeft
  <2>1. Good /\ OneLane /\ LayoutOK
    BY <1>1 DEF LayoutInvariant
  <2>2. PICK g : PathGoals(g)
    BY <1>1 DEF PathsInvariant, PathInvariant
  <2>3. /\ \A c \in 1 .. N : Converted(g, c)
        /\ \A c \in N + 1 .. Len(code) : code[c] # <<>> /\ (Fake(c) \/ Path(g, c))
    BY <2>1, <2>2, DoneFacts
  <2>4. CASE b \in 1 .. N
    BY <2>1, <2>3, <2>4, NothingLeft
  <2>5. CASE b \in N + 1 .. Len(code)
    <3>1. CASE Fake(b)
      BY <3>1 DEF Fake, JmpTarget, Plain
    <3>2. CASE Path(g, b)
      <4>1. code[b] \in Seq(Instr)
        BY <2>1, <2>5, GoodFacts, SizeFacts
      <4>2. i \in 1 .. Len(code[b])
        BY <4>1
      <4>3. code[b][i].op = "dummy" \/ Hop(g, b, i) \/ Arrival(g, b, i)
        BY <3>2, <4>2 DEF Path, Add8Zero, Plain
      <4>4. Hop(g, b, i) => code[b][i].op = "lea"
        BY DEF Hop, Lea
      <4>5. Arrival(g, b, i) => code[b][i].op = "jmp"
        BY DEF Arrival, Jmp
      <4> QED
        BY <4>3, <4>4, <4>5
    <3> QED
      BY <2>3, <2>5, <3>1, <3>2
  <2> QED
    BY <2>1, <2>4, <2>5, SizeFacts DEF Blocks
<1>2. (Supported(fn) => Good) /\ LayoutInvariant /\ PathsInvariant
        => (Supported(fn) /\ AllAtEnd(fn) => NoBranchLeft)
  BY <1>1
<1> QED
  BY <1>2, LayoutHolds, PathsHold, PTL

-----------------------------------------------------------------------------
(***************************************************************************)
(* The recorded successors.  AsmPrinter asks them which blocks need their  *)
(* labels, so every block that is named must be recorded somewhere.        *)
(*  BlocksLinked: a block made by the pass, other than a fake one, is a    *)
(*    recorded successor of a block that has been visited.                 *)
(*  JumpsLinked: the target of the jump a trampoline ends in is a          *)
(*    recorded successor of the trampoline.                                *)
(*  SourcesLinked: so are the blocks a source block named.                 *)
(*  FakeFollows: what follows a visited block in the list is its fake      *)
(*    block.                                                               *)
(***************************************************************************)
Linked(t) == \E p \in processed : t \in succ[p]
BlocksLinked == \A z \in N + 1 .. Len(code) : Fake(z) \/ Linked(z)
EndsInJump(b) == code[b] # <<>> /\ Last(code[b]).op = "jmp"
JumpLinked(b) == EndsInJump(b) => Last(code[b]).to \subseteq succ[b]
JumpsLinked == \A b \in N + 1 .. Len(code) : b \in Ahead \/ JumpLinked(b)
SourcesLinked == \A b \in 1 .. N : Named(fn[b]) \subseteq succ[b]
FakeFollows ==
  \A p \in 1 .. Len(before) : before[p] \in processed =>
    IF p < Len(before) THEN Fake(before[p + 1])
    ELSE after = <<>> /\ (Visiting => fakeBlock = Null)
LinksOK ==
  BlocksLinked /\ JumpsLinked /\ SourcesLinked /\ FakeFollows /\ (Visiting => mbb \in processed)

\* No successor is ever removed.
SuccKept == \A b \in 1 .. Len(code) : succ[b] \subseteq succ'[b]

LEMMA SuccFacts ==
  ASSUME Good
  PROVE  /\ succ \in Seq(SUBSET Nat) /\ Len(succ) = Len(code) /\ processed \subseteq 1 .. Len(code)
         /\ \A b \in 1 .. Len(code) : succ[b] \in SUBSET Nat
<1>1. CodeOK(code, succ) /\ processed \subseteq 1 .. Len(code)
  BY DEF Good, TypeOK, Blocks
<1>2. succ \in Seq(SUBSET Nat) /\ Len(succ) = Len(code)
  BY <1>1 DEF CodeOK
<1> QED
  BY <1>1, <1>2

LEMMA NextBlockSucc == ASSUME Good, NextBlock PROVE SuccKept /\ processed' = processed \cup {mbb'}
<1>1. processed' = processed \cup {mbb'}
  BY DEF NextBlock
<1>2. succ' = succ \/ succ' = Append(succ, {})
  BY DEF NextBlock
<1>3. SuccKept
  BY <1>2, SuccFacts, ExtendFacts DEF SuccKept
<1> QED
  BY <1>1, <1>3

LEMMA ArrivesSucc ==
  ASSUME Good, LaneArrives
  PROVE  SuccKept /\ processed' = processed /\ (lane.current # Null => mbb \in succ'[lane.current])
<1>1. pc = "lanes" /\ pending # <<>> /\ processed' = processed
  BY DEF LaneArrives
<1>2. lane.current \in 0 .. Len(code) /\ mbb \in 1 .. Len(code) /\ Len(code) \in Nat
  BY <1>1, LaneFacts DEF Good
<1>3. PICK c : c = lane.current
  OBVIOUS
<1>4. CASE c # Null
  <2>1. succ' = [succ EXCEPT ![c] = succ[c] \cup {mbb}] /\ c \in 1 .. Len(succ)
    BY <1>2, <1>3, <1>4, SuccFacts DEF LaneArrives, Null
  <2>2. succ[c] \cup {mbb} \in SUBSET Nat
    BY <1>2, <2>1, SuccFacts
  <2>3. \A i \in 1 .. Len(succ) : succ'[i] = IF i = c THEN succ[c] \cup {mbb} ELSE succ[i]
    BY <2>1, <2>2, SuccFacts, ChangeFacts
  <2> QED
    BY <1>1, <1>3, <2>1, <2>3, SuccFacts DEF SuccKept
<1>5. CASE c = Null
  BY <1>1, <1>3, <1>5 DEF LaneArrives, SuccKept
<1> QED
  BY <1>4, <1>5

LEMMA SkipsSucc ==
  ASSUME Good, LaneSkips
  PROVE  /\ SuccKept /\ processed' = processed
         /\ Len(code) + 1 \in succ'[mbb] /\ fakeBlock \in succ'[lane.current]
<1>1. pc = "lanes" /\ pending # <<>> /\ processed' = processed /\ lane.current # Null
  BY DEF LaneSkips
<1>2. /\ lane.current \in 1 .. Len(code) /\ mbb \in 1 .. Len(code) /\ Len(code) \in Nat
      /\ fakeBlock \in Nat
  BY <1>1, LaneFacts DEF Good, Null, TypeOK
<1>3. PICK c, m, z, f : c = lane.current /\ m = mbb /\ z = Len(code) + 1 /\ f = fakeBlock
  OBVIOUS
<1> DEFINE s1 == [succ EXCEPT ![m] = succ[m] \cup {z}]
           s2 == [s1 EXCEPT ![c] = s1[c] \cup {f}]
<1>4. succ' = Append(s2, {})
  BY <1>3 DEF LaneSkips
<1>5. /\ s1 \in Seq(SUBSET Nat) /\ Len(s1) = Len(code)
      /\ \A i \in 1 .. Len(code) : s1[i] = IF i = m THEN succ[m] \cup {z} ELSE succ[i]
  <2>1. succ[m] \cup {z} \in SUBSET Nat
    BY <1>2, <1>3, SuccFacts
  <2> QED
    BY <1>2, <1>3, <2>1, SuccFacts, ChangeFacts
<1> HIDE DEF s1
<1>6. s1[c] \cup {f} \in SUBSET Nat
  BY <1>2, <1>3, <1>5
<1>7. /\ Len(s2) = Len(code) /\ succ' = Append(s2, {}) /\ s2 \in Seq(SUBSET Nat)
      /\ \A i \in 1 .. Len(code) : s2[i] = IF i = c THEN s1[c] \cup {f} ELSE s1[i]
  BY <1>2, <1>3, <1>4, <1>5, <1>6, ChangeFacts
<1> HIDE DEF s2
<1>8. \A i \in 1 .. Len(code) : succ'[i] = s2[i]
  BY <1>7, ExtendFacts
<1>9. SuccKept
  BY <1>5, <1>7, <1>8 DEF SuccKept
<1> QED
  BY <1>1, <1>2, <1>3, <1>5, <1>7, <1>8, <1>9

\* The steps that make one block, a successor of the block at hand.
LEMMA OneSucc ==
  ASSUME Good, Visiting, NEW u \in SUBSET Nat,
         succ' = Append([succ EXCEPT ![mbb] = succ[mbb] \cup {Len(code) + 1}], u)
  PROVE  SuccKept /\ Len(code) + 1 \in succ'[mbb] /\ succ'[Len(code) + 1] = u
<1>1. mbb \in 1 .. Len(code) /\ Len(code) \in Nat
  BY AtHand, SizeFacts
<1>2. PICK m, z : m = mbb /\ z = Len(code) + 1
  OBVIOUS
<1>3. PICK x, t : x = succ[m] \cup {z} /\ t = succ'
  OBVIOUS
<1>4. t = Append([succ EXCEPT ![m] = x], u) /\ x \in SUBSET Nat /\ m \in 1 .. Len(succ)
  BY <1>1, <1>2, <1>3, SuccFacts
<1>5. /\ \A i \in 1 .. Len(succ) : t[i] = IF i = m THEN x ELSE succ[i]
      /\ t[Len(succ) + 1] = u
  BY <1>4, SuccFacts, ChangeExtendFacts
<1> QED
  BY <1>1, <1>2, <1>3, <1>5, SuccFacts DEF SuccKept

LEMMA SplitSucc ==
  ASSUME Good, SplitJump
  PROVE  SuccKept /\ processed' = processed /\ Len(code) + 1 \in succ'[mbb]
<1>1. /\ pc = "term" /\ processed' = processed
      /\ succ' = Append([succ EXCEPT ![mbb] = succ[mbb] \cup {Len(code) + 1}], {}) /\ {} \in SUBSET Nat
  BY DEF SplitJump
<1> QED
  BY <1>1, TermVisiting, OneSucc

LEMMA UnconditionalSucc ==
  ASSUME Good, ReplaceUnconditionalJump
  PROVE  /\ SuccKept /\ processed' = processed /\ Len(code) + 1 \in succ'[mbb]
         /\ \A dst \in last.to : dst \in processed => dst \in succ'[Len(code) + 1]
<1>1. pc = "term" /\ processed' = processed /\ last.op = "jmp"
  BY DEF ReplaceUnconditionalJump, IsUnconditionalBranch
<1>2. PICK dst \in last.to :
        succ' = Append([succ EXCEPT ![mbb] = succ[mbb] \cup {Len(code) + 1}],
                       IF dst \in processed THEN {dst} ELSE {})
  BY DEF ReplaceUnconditionalJump
<1>3. SourceInstr(last) /\ Visiting
  BY <1>1, AtHand, TermVisiting DEF last
<1>4. last.to = {dst} /\ dst \in Nat
  BY <1>1, <1>2, <1>3 DEF SourceInstr
<1>5. (IF dst \in processed THEN {dst} ELSE {}) \in SUBSET Nat
  BY <1>4
<1>6. /\ SuccKept /\ Len(code) + 1 \in succ'[mbb]
      /\ succ'[Len(code) + 1] = IF dst \in processed THEN {dst} ELSE {}
  BY <1>2, <1>3, <1>5, OneSucc
<1> QED
  BY <1>1, <1>4, <1>6

LEMMA ConditionalSucc ==
  ASSUME Good, ReplaceConditionalBranch
  PROVE  /\ SuccKept /\ processed' = processed
         /\ Len(code) + 1 \in succ'[mbb] /\ Len(code) + 2 \in succ'[mbb]
         /\ \A dst \in last.to : dst \in processed => dst \in succ'[Len(code) + 2]
<1>1. pc = "term" /\ processed' = processed /\ IsConditionalBranch(last)
  BY DEF ReplaceConditionalBranch
<1>2. SourceInstr(last) /\ Visiting /\ mbb \in 1 .. Len(code) /\ Len(code) \in Nat /\ last.op # "tailcc"
  BY <1>1, AtHand, SizeFacts, TermVisiting DEF last
<1>3. PICK m, z, y : m = mbb /\ z = Len(code) + 1 /\ y = Len(code) + 2
  OBVIOUS
<1> DEFINE s1 == [succ EXCEPT ![m] = succ[m] \cup {z, y}]
<1>4. PICK dst \in last.to : succ' = s1 \o <<{}, IF dst \in processed THEN {dst} ELSE {}>>
  <2>1. Len(code) + 1 + 1 = Len(code) + 2
    BY <1>2
  <2> QED
    BY <1>3, <2>1 DEF ReplaceConditionalBranch
<1>5. last.to = {dst} /\ dst \in Nat
  BY <1>1, <1>2, <1>4 DEF SourceInstr, IsConditionalBranch
<1>6. PICK u, v : u = {} /\ v = IF dst \in processed THEN {dst} ELSE {}
  OBVIOUS
<1>7. u \in SUBSET Nat /\ v \in SUBSET Nat /\ succ' = s1 \o <<u, v>>
  BY <1>4, <1>5, <1>6
<1>8. /\ s1 \in Seq(SUBSET Nat) /\ Len(s1) = Len(code)
      /\ \A i \in 1 .. Len(code) : s1[i] = IF i = m THEN succ[m] \cup {z, y} ELSE succ[i]
  <2>1. succ[m] \cup {z, y} \in SUBSET Nat
    BY <1>2, <1>3, SuccFacts
  <2> QED
    BY <1>2, <1>3, <2>1, SuccFacts, ChangeFacts
<1> HIDE DEF s1
<1>9. /\ \A i \in 1 .. Len(code) : succ'[i] = s1[i]
      /\ succ'[Len(code) + 2] = v
  BY <1>7, <1>8, ExtendTwoFacts
<1> QED
  BY <1>1, <1>2, <1>3, <1>5, <1>6, <1>8, <1>9 DEF SuccKept

LEMMA NoBranchSucc ==
  ASSUME Good, ReplaceNoBranchBlock
  PROVE  /\ SuccKept /\ processed' = processed
         /\ originalFallThrough # Null => Len(code) + 1 \in succ'[mbb]
<1>1. pc = "term" /\ processed' = processed
  BY DEF ReplaceNoBranchBlock, NotABranch
<1>2. CASE originalFallThrough # Null
  <2>1. succ' = Append([succ EXCEPT ![mbb] = succ[mbb] \cup {Len(code) + 1}], {}) /\ {} \in SUBSET Nat
    BY <1>2 DEF ReplaceNoBranchBlock
  <2> QED
    BY <1>1, <2>1, TermVisiting, OneSucc
<1>3. CASE originalFallThrough = Null
  BY <1>1, <1>3 DEF ReplaceNoBranchBlock, SuccKept
<1> QED
  BY <1>2, <1>3

LEMMA FinishSucc ==
  ASSUME Good, Finish
  PROVE  SuccKept /\ processed' = processed /\ 1 \in succ'[Len(code) + 1]
<1>1. processed' = processed /\ succ' = Append(succ, {1}) /\ {1} \in SUBSET Nat
  BY DEF Finish
<1> QED
  BY <1>1, SuccFacts, ExtendFacts DEF SuccKept

\* What is linked stays so.  A step answers for the blocks it makes and for
\* the ends of the blocks it changes.
LEMMA LinksFrame ==
  ASSUME Good, Good', LinksOK, FakesKept, SuccKept, processed \subseteq processed', fn' = fn,
         Len(code') >= Len(code),
         \A z \in Len(code) + 1 .. Len(code') : Fake(z)' \/ Linked(z)',
         \A b \in N + 1 .. Len(code') :
           b \in Ahead' \/ (b <= Len(code) /\ b \notin Ahead /\ code'[b] = code[b]) \/ JumpLinked(b)'
  PROVE  BlocksLinked' /\ JumpsLinked' /\ SourcesLinked'
<1>1. N \in Nat /\ Len(code) \in Nat /\ N <= Len(code) /\ Len(code') \in Nat
  BY SizeFacts
<1>2. \A p \in processed : p \in 1 .. Len(code) /\ p \in processed' /\ succ[p] \subseteq succ'[p]
  BY SuccFacts DEF SuccKept
<1>3. BlocksLinked'
  <2> SUFFICES ASSUME NEW z \in N + 1 .. Len(code') PROVE Fake(z)' \/ Linked(z)'
    BY DEF BlocksLinked
  <2>1. CASE z <= Len(code)
    <3>1. z \in N + 1 .. Len(code) /\ z \in 1 .. Len(code)
      BY <1>1, <2>1
    <3>2. Fake(z) \/ Linked(z)
      BY <3>1 DEF LinksOK, BlocksLinked
    <3>3. Linked(z) => Linked(z)'
      BY <1>2 DEF Linked
    <3> QED
      BY <3>1, <3>2, <3>3 DEF FakesKept
  <2>2. CASE ~(z <= Len(code))
    BY <1>1, <2>2
  <2> QED
    BY <2>1, <2>2
<1>4. JumpsLinked'
  <2> SUFFICES ASSUME NEW b \in N + 1 .. Len(code'), b \notin Ahead' PROVE JumpLinked(b)'
    BY DEF JumpsLinked
  <2>1. CASE b <= Len(code) /\ b \notin Ahead /\ code'[b] = code[b]
    <3>1. b \in N + 1 .. Len(code) /\ b \in 1 .. Len(code)
      BY <1>1, <2>1
    <3>2. JumpLinked(b) /\ succ[b] \subseteq succ'[b]
      BY <2>1, <3>1 DEF LinksOK, JumpsLinked, SuccKept
    <3> QED
      BY <2>1, <3>2 DEF JumpLinked, EndsInJump
  <2> QED
    BY <2>1
<1>5. SourcesLinked'
  <2>1. \A b \in 1 .. N : b \in 1 .. Len(code)
    BY <1>1
  <2> QED
    BY <2>1 DEF LinksOK, SourcesLinked, SuccKept
<1> QED
  BY <1>3, <1>4, <1>5

\* Blocks are placed in front of the list.
LEMMA FakesFrame ==
  ASSUME Good, Good', LinksOK, FakesKept, NEW n \in Nat, Placed(n), processed' = processed,
         UNCHANGED after \/ (fakeBlock # Null /\ Visiting),
         Visiting' => Visiting /\ fakeBlock' = fakeBlock
  PROVE  FakeFollows'
<1> SUFFICES ASSUME NEW p \in 1 .. Len(before'), before'[p] \in processed
             PROVE  IF p < Len(before') THEN Fake(before[p + 1])'
                    ELSE after' = <<>> /\ (Visiting' => fakeBlock' = Null)
  BY DEF FakeFollows
<1>1. /\ Len(before) \in Nat /\ Len(code) \in Nat /\ Len(before') = Len(before) + n
      /\ \A q \in 1 .. Len(before) : before[q] \in 1 .. Len(code)
  BY ListFacts, SizeFacts DEF Placed
<1>2. p \notin 1 .. n
  BY <1>1, SuccFacts DEF Placed
<1>3. PICK q : q = p - n
  OBVIOUS
<1>4. q \in 1 .. Len(before) /\ p = q + n /\ (p < Len(before') <=> q < Len(before))
  BY <1>1, <1>2, <1>3
<1>5. before'[p] = before[q]
  BY <1>4 DEF Placed
<1>6. IF q < Len(before) THEN Fake(before[q + 1]) ELSE after = <<>> /\ (Visiting => fakeBlock = Null)
  BY <1>4, <1>5 DEF LinksOK, FakeFollows
<1>7. CASE q < Len(before)
  <2>1. q + 1 \in 1 .. Len(before) /\ p + 1 = (q + 1) + n
    BY <1>1, <1>4, <1>7
  <2>2. before'[p + 1] = before[q + 1] /\ before[q + 1] \in 1 .. Len(code)
    BY <1>1, <2>1 DEF Placed
  <2>3. Fake(before[p + 1])'
    BY <1>6, <1>7, <2>2 DEF FakesKept, Fake
  <2> QED
    BY <1>4, <1>7, <2>3
<1>8. CASE ~(q < Len(before))
  BY <1>4, <1>6, <1>8
<1> QED
  BY <1>7, <1>8

LEMMA NextBlockLinks == Good /\ Good' /\ LayoutOK /\ LinksOK /\ NextBlock => LinksOK'
<1> SUFFICES ASSUME Good, Good', LayoutOK, LinksOK, NextBlock PROVE LinksOK'
  OBVIOUS
<1>0. PICK f, n : f = Len(code) + 1 /\ n = Len(before)
  OBVIOUS
<1>1. /\ pc = "block" /\ pc' = "lanes" /\ after # <<>> /\ mbb' = Head(after) /\ after' = Tail(after) /\ fn' = fn
      /\ \A b \in 1 .. Len(code) : code'[b] = code[b]
      /\ \/ /\ Len(code') = f /\ code'[f] = <<JmpTarget>>
            /\ fakeBlock' = f /\ before' = before \o <<Head(after), f>>
         \/ /\ Len(code') = Len(code)
            /\ fakeBlock' = Null /\ before' = Append(before, Head(after))
  BY <1>0, NextBlockEffect
<1>2. FakesKept /\ SuccKept /\ processed' = processed \cup {mbb'}
  BY NextBlockKept, NextBlockSucc
<1>3. /\ N \in Nat /\ Len(code) \in Nat /\ N <= Len(code) /\ f \in Nat /\ n \in Nat
      /\ Len(code') >= Len(code) /\ before \in Seq(Nat)
  BY <1>0, <1>1, SizeFacts, BeforeIsNat
<1>4. /\ Head(after) = after[1] /\ after[1] \in Range(after) /\ after[1] \in 1 .. Len(code) /\ after[1] \in Nat
      /\ Range(after) = {after[1]} \cup Range(Tail(after))
  <2>1. after \in Seq(Blocks) /\ after # <<>>
    BY <1>1, ListFacts
  <2>2. Head(after) = after[1] /\ 1 \in 1 .. Len(after)
    BY <2>1
  <2>3. Range(after) = {Head(after)} \cup Range(Tail(after))
    BY <2>1, TailFacts
  <2> QED
    BY <2>2, <2>3, ListFacts, <1>3
<1>5. Ahead' = Ahead
  BY <1>1, <1>4 DEF Ahead, Visiting
<1>6. ASSUME NEW b \in N + 1 .. Len(code')
      PROVE  b \in Ahead' \/ (b <= Len(code) /\ b \notin Ahead /\ code'[b] = code[b]) \/ JumpLinked(b)'
  <2>1. CASE b <= Len(code)
    BY <1>1, <1>3, <1>5, <2>1
  <2>2. CASE ~(b <= Len(code))
    <3>1. b = f /\ code'[b] = <<JmpTarget>>
      BY <1>0, <1>1, <1>3, <2>2
    <3>2. ~EndsInJump(b)'
      BY <3>1 DEF EndsInJump, Last, JmpTarget, Plain
    <3> QED
      BY <3>2 DEF JumpLinked
  <2> QED
    BY <2>1, <2>2
<1>7. \A z \in Len(code) + 1 .. Len(code') : Fake(z)' \/ Linked(z)'
  BY <1>0, <1>1, <1>3 DEF Fake
<1>8. BlocksLinked' /\ JumpsLinked' /\ SourcesLinked'
  BY <1>1, <1>2, <1>3, <1>6, <1>7, LinksFrame
<1>9. ASSUME NEW p \in 1 .. n, before[p] \in processed'
      PROVE  p < n /\ code'[before[p + 1]] = <<JmpTarget>>
  <2>1. before[p] \in processed
    BY <1>0, <1>1, <1>2, <1>4, <1>9 DEF LayoutOK, PlacedOrAhead
  <2>2. p < n /\ Fake(before[p + 1])
    BY <1>0, <1>1, <1>9, <2>1 DEF LinksOK, FakeFollows
  <2>3. p + 1 \in 1 .. n
    BY <1>3, <2>2
  <2>4. before[p + 1] \in 1 .. Len(code)
    BY <1>0, <2>3, ListFacts
  <2> QED
    BY <1>1, <2>2, <2>4 DEF Fake
<1>10. f \notin processed'
  BY <1>0, <1>1, <1>2, <1>3, <1>4, SuccFacts
<1>11. fakeBlock' = Null => after' = <<>>
  BY <1>1 DEF Good, PassInvariant, AtBlock, Visiting
<1>12. FakeFollows'
  <2> SUFFICES ASSUME NEW p \in 1 .. Len(before'), before'[p] \in processed'
               PROVE  IF p < Len(before') THEN Fake(before[p + 1])'
                      ELSE after' = <<>> /\ (Visiting' => fakeBlock' = Null)
    BY DEF FakeFollows
  <2>1. CASE fakeBlock' = f
    <3>0. f # Null
      BY <1>0, <1>3 DEF Null
    <3>1. PICK a : a = after[1] /\ before' = before \o <<a, f>> /\ a \in Nat /\ code'[f] = <<JmpTarget>>
      BY <1>1, <1>4, <2>1, <3>0
    <3>2. /\ Len(before') = n + 2 /\ \A i \in 1 .. n : before'[i] = before[i]
          /\ before'[n + 1] = a /\ before'[n + 2] = f
      BY <1>0, <1>3, <3>1, ExtendTwoFacts
    <3>3. CASE p \in 1 .. n
      <4>0. before'[p] = before[p] /\ before[p] \in processed'
        BY <3>2, <3>3
      <4>1. p < n /\ code'[before[p + 1]] = <<JmpTarget>>
        BY <1>9, <3>3, <4>0
      <4>2. p + 1 \in 1 .. n /\ p < Len(before')
        BY <1>3, <3>2, <3>3, <4>1
      <4> QED
        BY <3>2, <4>1, <4>2 DEF Fake
    <3>4. CASE p = n + 1
      <4>1. p + 1 = n + 2 /\ p < n + 2
        BY <1>3, <3>4
      <4> QED
        BY <3>1, <3>2, <4>1 DEF Fake
    <3>5. p # n + 2
      BY <1>10, <3>2
    <3> QED
      BY <1>3, <3>2, <3>3, <3>4, <3>5
  <2>2. CASE fakeBlock' = Null
    <3>1. PICK a : a = after[1] /\ before' = Append(before, a) /\ a \in Nat
      BY <1>0, <1>1, <1>3, <1>4, <2>2 DEF Null
    <3>2. Len(before') = n + 1 /\ \A i \in 1 .. n : before'[i] = before[i]
      BY <1>0, <1>3, <3>1, ExtendFacts
    <3>3. CASE p \in 1 .. n
      <4>0. before'[p] = before[p] /\ before[p] \in processed'
        BY <3>2, <3>3
      <4>1. p < n /\ code'[before[p + 1]] = <<JmpTarget>>
        BY <1>9, <3>3, <4>0
      <4>2. p + 1 \in 1 .. n /\ p < Len(before')
        BY <1>3, <3>2, <3>3, <4>1
      <4> QED
        BY <3>2, <4>1, <4>2 DEF Fake
    <3>4. CASE p = n + 1
      BY <1>3, <1>11, <2>2, <3>2, <3>4
    <3> QED
      BY <1>3, <3>2, <3>3, <3>4
  <2> QED
    BY <1>1, <2>1, <2>2
<1> QED
  BY <1>2, <1>8, <1>12 DEF LinksOK

\* A block that is empty, or ends in anything but a jump, owes no successor.
LEMMA NoJumpLinked ==
  ASSUME NEW b, code'[b] = <<>> \/ Last(code'[b]).op # "jmp"
  PROVE  JumpLinked(b)'
BY DEF JumpLinked, EndsInJump

LEMMA JumpsTo ==
  ASSUME NEW b, NEW t, t \in succ'[b], code'[b] # <<>>, Last(code'[b]) = Jmp(t)
  PROVE  JumpLinked(b)'
BY DEF JumpLinked, Jmp

LEMMA OnlyJumpsTo ==
  ASSUME NEW b, NEW t, t \in succ'[b], code'[b] = <<Jmp(t)>>
  PROVE  JumpLinked(b)'
<1>1. <<Jmp(t)>> # <<>> /\ Last(<<Jmp(t)>>) = Jmp(t)
  BY DEF Last
<1> QED
  BY <1>1, JumpsTo

\* The lanes' steps leave the block at hand and what is ahead of it alone.
LEMMA SameAhead ==
  ASSUME Visiting, Visiting', UNCHANGED <<after, mbb>>
  PROVE  Ahead' = Ahead
BY DEF Ahead

LEMMA ArrivesLinks == Good /\ Good' /\ OneLane /\ LinksOK /\ LaneArrives => LinksOK'
<1> SUFFICES ASSUME Good, Good', OneLane, LinksOK, LaneArrives PROVE LinksOK'
  OBVIOUS
<1>0. PICK c : c = lane.current
  OBVIOUS
<1>1. /\ pc = "lanes" /\ pc' = "lanes" /\ pending # <<>> /\ pending' = Tail(pending)
      /\ UNCHANGED <<fn, before, after, mbb, fakeBlock>> /\ Len(code') = Len(code)
      /\ \A b \in 1 .. Len(code) : code'[b] = IF b = c THEN Append(code[b], Jmp(mbb)) ELSE code[b]
  BY <1>0, ArrivesEffect
<1>2. SuccKept /\ processed' = processed /\ (c # Null => mbb \in succ'[c])
  BY <1>0, ArrivesSucc
<1>3. FakesKept /\ Visiting /\ Visiting' /\ Placed(0) /\ Ahead' = Ahead
  BY <1>1, ArrivesKept, PlacedNone, SameAhead DEF Visiting
<1>4. N \in Nat /\ Len(code) \in Nat /\ N <= Len(code)
  BY SizeFacts
<1>5. c # Null => c \in N + 1 .. Len(code) /\ code[c] = <<>>
  BY <1>0, <1>1, PendingOpen DEF PendingShift
<1>6. c # Null => JumpLinked(c)'
  <2> SUFFICES ASSUME c # Null PROVE JumpLinked(c)'
    OBVIOUS
  <2>1. c \in 1 .. Len(code)
    BY <1>4, <1>5
  <2>2. Append(<<>>, Jmp(mbb)) = <<Jmp(mbb)>>
    OBVIOUS
  <2>3. code'[c] = <<Jmp(mbb)>>
    BY <1>1, <1>5, <2>1, <2>2
  <2>4. code'[c] # <<>> /\ Last(code'[c]) = Jmp(mbb)
    BY <2>3 DEF Last
  <2> QED
    BY <1>2, <2>4, JumpsTo
<1>7. \A b \in N + 1 .. Len(code') :
        b \in Ahead' \/ (b <= Len(code) /\ b \notin Ahead /\ code'[b] = code[b]) \/ JumpLinked(b)'
  <2> SUFFICES ASSUME NEW b \in N + 1 .. Len(code'), b \notin Ahead, b # c PROVE code'[b] = code[b] /\ b <= Len(code)
    BY <1>3, <1>4, <1>6 DEF Null
  <2> QED
    BY <1>1, <1>4
<1>8. Len(code) + 1 .. Len(code') = {} /\ Len(code') >= Len(code)
  BY <1>1, <1>4
<1>9. BlocksLinked' /\ JumpsLinked' /\ SourcesLinked'
  BY <1>1, <1>2, <1>3, <1>7, <1>8, LinksFrame
<1>10. FakeFollows'
  BY <1>1, <1>2, <1>3, FakesFrame
<1> QED
  BY <1>1, <1>2, <1>3, <1>9, <1>10 DEF LinksOK

LEMMA SkipsLinks == Good /\ Good' /\ OneLane /\ LinksOK /\ LaneSkips => LinksOK'
<1> SUFFICES ASSUME Good, Good', OneLane, LinksOK, LaneSkips PROVE LinksOK'
  OBVIOUS
<1>0. PICK c, z, m : c = lane.current /\ z = Len(code) + 1 /\ m = mbb
  OBVIOUS
<1> DEFINE x == <<>> \o Dummies \o <<Lea(z), Jmp(fakeBlock)>>
<1>1. /\ pc = "lanes" /\ pc' = "lanes" /\ pending # <<>> /\ pending' = Tail(pending) /\ c # Null
      /\ UNCHANGED <<fn, after, mbb, fakeBlock>> /\ before' = <<z>> \o before
      /\ Len(code') = z /\ code'[z] = <<>>
      /\ \A b \in 1 .. Len(code) :
           code'[b] = IF b = c THEN code[b] \o Dummies \o <<Lea(z), Jmp(fakeBlock)>> ELSE code[b]
  BY <1>0, SkipsEffect
<1>2. SuccKept /\ processed' = processed /\ z \in succ'[m] /\ fakeBlock \in succ'[c]
  BY <1>0, SkipsSucc
<1>4. N \in Nat /\ Len(code) \in Nat /\ N <= Len(code) /\ z \in Nat /\ fakeBlock \in Nat
  <2>1. N \in Nat /\ Len(code) \in Nat /\ N <= Len(code)
    BY SizeFacts
  <2>2. fakeBlock \in 0 .. Len(code)
    BY DEF Good, TypeOK
  <2> QED
    BY <1>0, <2>1, <2>2
<1>3. FakesKept /\ Visiting /\ Visiting' /\ Placed(1) /\ Ahead' = Ahead
  BY <1>0, <1>1, <1>4, SkipsKept, PlacedOne, SameAhead DEF Visiting
<1>5. c \in N + 1 .. Len(code) /\ code[c] = <<>>
  BY <1>0, <1>1, PendingOpen DEF PendingShift
<1>6. JumpLinked(c)'
  <2>1. c \in 1 .. Len(code)
    BY <1>4, <1>5
  <2>2. x # <<>> /\ Last(x) = Jmp(fakeBlock)
    BY <1>1, <1>4, SkipCode
  <2>3. code'[c] = x
    BY <1>1, <1>5, <2>1
  <2> HIDE DEF x
  <2> QED
    BY <1>2, <2>2, <2>3, JumpsTo
<1>7. JumpLinked(z)'
  BY <1>1, NoJumpLinked
<1>8. \A b \in N + 1 .. Len(code') :
        b \in Ahead' \/ (b <= Len(code) /\ b \notin Ahead /\ code'[b] = code[b]) \/ JumpLinked(b)'
  <2> SUFFICES ASSUME NEW b \in N + 1 .. Len(code'), b \notin Ahead, b # c, b # z
               PROVE  code'[b] = code[b] /\ b <= Len(code)
    BY <1>3, <1>6, <1>7
  <2> QED
    BY <1>0, <1>1, <1>4
<1>9. \A b \in Len(code) + 1 .. Len(code') : Linked(b)'
  <2>1. Linked(z)'
    BY <1>0, <1>2, <1>3 DEF Linked, LinksOK
  <2>2. \A b \in Len(code) + 1 .. Len(code') : b = z
    BY <1>0, <1>1, <1>4
  <2> QED
    BY <2>1, <2>2
<1>10. Len(code') >= Len(code)
  BY <1>0, <1>1, <1>4
<1>11. BlocksLinked' /\ JumpsLinked' /\ SourcesLinked'
  BY <1>1, <1>2, <1>3, <1>8, <1>9, <1>10, LinksFrame
<1>12. FakeFollows'
  BY <1>1, <1>2, <1>3, FakesFrame
<1> QED
  BY <1>1, <1>2, <1>3, <1>11, <1>12 DEF LinksOK

LEMMA OtherLaneLinks == Good /\ LinksOK /\ (LaneDies \/ LanesDone) => LinksOK'
<1> SUFFICES ASSUME Good, LinksOK, LaneDies \/ LanesDone PROVE LinksOK'
  OBVIOUS
<1>1. /\ pc = "lanes" /\ pc' \in {"lanes", "term"}
      /\ UNCHANGED <<fn, before, after, code, succ, processed, mbb, fakeBlock>>
  BY DEF LaneDies, LanesDone, listVars, blockVars
<1>2. Visiting /\ Visiting' /\ Ahead' = Ahead
  BY <1>1, SameAhead DEF Visiting
<1> QED
  BY <1>1, <1>2 DEF LinksOK, BlocksLinked, JumpsLinked, JumpLinked, EndsInJump, SourcesLinked,
                    FakeFollows, Linked, Fake

\* The steps at the end of the block at hand: it ends in no jump any more,
\* and every new block is one of its successors.
LEMMA TermLinks ==
  ASSUME Good, Good', LinksOK, NEW n \in Nat, Placed(n), pc = "term", pc' = "block",
         UNCHANGED <<fn, after, mbb, fakeBlock, processed>>, FakesKept, SuccKept, Len(code') >= Len(code),
         \A b \in 1 .. Len(code) : b # mbb => code'[b] = code[b],
         code'[mbb] = <<>> \/ Last(code'[mbb]).op # "jmp",
         \A z \in Len(code) + 1 .. Len(code') : z \in succ'[mbb] /\ JumpLinked(z)'
  PROVE  LinksOK'
<1>1. N \in Nat /\ Len(code) \in Nat /\ N <= Len(code) /\ Visiting /\ ~Visiting'
  BY SizeFacts DEF Visiting
<1>2. Ahead = Ahead' \cup {mbb}
  BY <1>1 DEF Ahead
<1>3. JumpLinked(mbb)'
  <2>1. PICK m : m = mbb
    OBVIOUS
  <2>2. JumpLinked(m)'
    BY <2>1, NoJumpLinked
  <2> QED
    BY <2>1, <2>2
<1>4. \A b \in N + 1 .. Len(code') :
        b \in Ahead' \/ (b <= Len(code) /\ b \notin Ahead /\ code'[b] = code[b]) \/ JumpLinked(b)'
  <2> SUFFICES ASSUME NEW b \in N + 1 .. Len(code'), b \notin Ahead', b # mbb, b <= Len(code)
               PROVE  code'[b] = code[b]
    BY <1>1, <1>2, <1>3
  <2> QED
    BY <1>1
<1>5. \A b \in Len(code) + 1 .. Len(code') : Linked(b)'
  BY <1>1 DEF Linked, LinksOK
<1>6. BlocksLinked' /\ JumpsLinked' /\ SourcesLinked'
  BY <1>4, <1>5, LinksFrame
<1>7. FakeFollows'
  BY <1>1, FakesFrame
<1> QED
  BY <1>1, <1>6, <1>7 DEF LinksOK

LEMMA UnconditionalLinks == Good /\ Good' /\ LinksOK /\ ReplaceUnconditionalJump => LinksOK'
<1> SUFFICES ASSUME Good, Good', LinksOK, ReplaceUnconditionalJump PROVE LinksOK'
  OBVIOUS
<1>0. PICK m, z : m = mbb /\ z = Len(code) + 1
  OBVIOUS
<1> DEFINE x == Append(Front(code[m]), Lea(z))
<1>1. PICK dst \in last.to :
        /\ pc = "term" /\ pc' = "block" /\ UNCHANGED <<fn, after, mbb, fakeBlock, processed>>
        /\ Len(code') = z /\ before' = <<z>> \o before
        /\ \A b \in 1 .. Len(code) : code'[b] = IF b = m THEN x ELSE code[b]
        /\ IF dst \in processed THEN code'[z] = <<Jmp(dst)>> ELSE code'[z] = <<>>
  BY <1>0, UnconditionalEffect DEF TermUnchanged
<1>2. /\ SuccKept /\ z \in succ'[m] /\ (dst \in processed => dst \in succ'[z])
  BY <1>0, UnconditionalSucc
<1>3. /\ Len(code) \in Nat /\ z \in Nat /\ Len(code') >= Len(code) /\ Len(code') \in Nat /\ Len(code') >= Len(code) + 1
      /\ \A b \in Len(code) + 1 .. Len(code') : b = z
      /\ m \in 1 .. Len(code) /\ code[m] \in Seq(Instr) /\ code[m] # <<>> /\ Visiting
  BY <1>0, <1>1, SizeFacts, AtHand, TermVisiting
<1>4. x # <<>> /\ Last(x) = Lea(z)
  <2>1. Lea(z) \in Instr
    BY <1>3, InstrType
  <2> QED
    BY <1>3, <2>1, ReplaceLast
<1> HIDE DEF x
<1>5. Last(x).op = "lea"
  BY <1>4 DEF Lea
<1>6. FakesKept
  BY <1>0, <1>1, <1>3, <1>4, <1>5, TermKept
<1>7. Placed(1)
  BY <1>0, <1>1, <1>3, PlacedOne
<1>8. JumpLinked(z)'
  <2>1. CASE dst \in processed
    <3>1. code'[z] = <<Jmp(dst)>> /\ dst \in succ'[z]
      BY <1>1, <1>2, <2>1
    <3> QED
      BY <3>1, OnlyJumpsTo
  <2>2. CASE dst \notin processed
    BY <1>1, <2>2, NoJumpLinked
  <2> QED
    BY <2>1, <2>2
<1>9. Last(code'[mbb]).op # "jmp"
  BY <1>0, <1>1, <1>3, <1>5
<1>10. \A b \in 1 .. Len(code) : b # mbb => code'[b] = code[b]
  BY <1>0, <1>1
<1>11. \A b \in Len(code) + 1 .. Len(code') : b \in succ'[mbb] /\ JumpLinked(b)'
  BY <1>0, <1>2, <1>3, <1>8
<1> QED
  BY <1>1, <1>2, <1>3, <1>6, <1>7, <1>9, <1>10, <1>11, TermLinks

LEMMA ConditionalLinks == Good /\ Good' /\ LinksOK /\ ReplaceConditionalBranch => LinksOK'
<1> SUFFICES ASSUME Good, Good', LinksOK, ReplaceConditionalBranch PROVE LinksOK'
  OBVIOUS
<1>0. PICK m, z, y : m = mbb /\ z = Len(code) + 1 /\ y = Len(code) + 2
  OBVIOUS
<1> DEFINE x == Front(code[m]) \o <<Lea(z), LeaTmp(y), CMov(last.cc)>>
<1>1. PICK dst \in last.to :
        /\ pc = "term" /\ pc' = "block" /\ UNCHANGED <<fn, after, mbb, fakeBlock, processed>>
        /\ Len(code') = y /\ before' = <<y, z>> \o before /\ code'[z] = <<>>
        /\ \A b \in 1 .. Len(code) : code'[b] = IF b = m THEN x ELSE code[b]
        /\ IF dst \in processed THEN code'[y] = <<Jmp(dst)>> ELSE code'[y] = <<>>
  BY <1>0, ConditionalEffect DEF TermUnchanged
<1>2. /\ SuccKept /\ z \in succ'[m] /\ y \in succ'[m] /\ (dst \in processed => dst \in succ'[y])
  BY <1>0, ConditionalSucc
<1>3. /\ Len(code) \in Nat /\ z \in Nat /\ y \in Nat /\ Len(code') >= Len(code) /\ Len(code') \in Nat
      /\ \A b \in Len(code) + 1 .. Len(code') : b = z \/ b = y
      /\ m \in 1 .. Len(code) /\ code[m] \in Seq(Instr) /\ code[m] # <<>> /\ Visiting
  <2>1. Len(code) \in Nat /\ m \in 1 .. Len(code) /\ code[m] \in Seq(Instr) /\ code[m] # <<>> /\ Visiting
    BY <1>0, <1>1, SizeFacts, AtHand, TermVisiting
  <2>2. PICK k \in Nat : k = Len(code) /\ z = k + 1 /\ y = k + 2 /\ Len(code') = y
    BY <1>0, <1>1, <2>1
  <2>3. z \in Nat /\ y \in Nat /\ y >= k /\ \A b \in k + 1 .. y : b = z \/ b = y
    BY <2>2
  <2> QED
    BY <2>1, <2>2, <2>3
<1>4. x # <<>> /\ Last(x) = CMov(last.cc)
  <2>1. Lea(z) \in Instr /\ LeaTmp(y) \in Instr /\ CMov(last.cc) \in Instr
    <3>1. last \in Instr
      BY <1>3, AtHand DEF last, SourceInstr
    <3>2. last.cc \in Conds \cup {NoCond}
      BY <3>1 DEF Instr
    <3> QED
      BY <1>3, <3>2, InstrType DEF CMov, LeaTmp, Instr, Ops
  <2>2. ByThree(x, code[m], Lea(z), LeaTmp(y), CMov(last.cc))
    BY <1>3, <2>1, ReplaceLastByThree
  <2> QED
    BY <2>2 DEF ByThree
<1> HIDE DEF x
<1>5. Last(x).op = "cmov"
  BY <1>4 DEF CMov
<1>6. FakesKept
  BY <1>0, <1>1, <1>3, <1>4, <1>5, TermKept
<1>7. Placed(2)
  BY <1>0, <1>1, <1>3, PlacedTwo
<1>8. JumpLinked(z)' /\ JumpLinked(y)'
  <2>1. CASE dst \in processed
    <3>1. code'[y] = <<Jmp(dst)>> /\ dst \in succ'[y]
      BY <1>1, <1>2, <2>1
    <3> QED
      BY <1>1, <3>1, OnlyJumpsTo, NoJumpLinked
  <2>2. CASE dst \notin processed
    BY <1>1, <2>2, NoJumpLinked
  <2> QED
    BY <2>1, <2>2
<1>9. Last(code'[mbb]).op # "jmp"
  BY <1>0, <1>1, <1>3, <1>5
<1>10. \A b \in 1 .. Len(code) : b # mbb => code'[b] = code[b]
  BY <1>0, <1>1
<1>11. \A b \in Len(code) + 1 .. Len(code') : b \in succ'[mbb] /\ JumpLinked(b)'
  BY <1>0, <1>2, <1>3, <1>8
<1> QED
  BY <1>1, <1>2, <1>3, <1>6, <1>7, <1>9, <1>10, <1>11, TermLinks

LEMMA NoBranchLinks == Good /\ Good' /\ LinksOK /\ ReplaceNoBranchBlock => LinksOK'
<1> SUFFICES ASSUME Good, Good', LinksOK, ReplaceNoBranchBlock PROVE LinksOK'
  OBVIOUS
<1>0. PICK m, z : m = mbb /\ z = Len(code) + 1
  OBVIOUS
<1> DEFINE x == Append(code[m], Lea(z))
<1>1. /\ pc = "term" /\ pc' = "block" /\ UNCHANGED <<fn, after, mbb, fakeBlock, processed>>
      /\ last.op \in {"body", "keep", "ret", "call"}
      /\ IF originalFallThrough # Null
         THEN /\ Len(code') = z /\ code'[z] = <<>> /\ before' = <<z>> \o before
              /\ \A b \in 1 .. Len(code) : code'[b] = IF b = m THEN x ELSE code[b]
         ELSE UNCHANGED <<before, code>>
  BY <1>0, NoBranchEffect DEF TermUnchanged
<1>2. SuccKept /\ (originalFallThrough # Null => z \in succ'[m])
  BY <1>0, NoBranchSucc
<1>3. /\ Len(code) \in Nat /\ z \in Nat
      /\ m \in 1 .. Len(code) /\ code[m] \in Seq(Instr) /\ code[m] # <<>> /\ Visiting
  BY <1>0, <1>1, SizeFacts, AtHand, TermVisiting
<1>4. CASE originalFallThrough # Null
  <2>1. x # <<>> /\ Last(x) = Lea(z)
    <3>1. Lea(z) \in Instr
      BY <1>3, InstrType
    <3> QED
      BY <1>3, <3>1, AppendOne
  <2> HIDE DEF x
  <2>2. Last(x).op = "lea"
    BY <2>1 DEF Lea
  <2>3. FakesKept
    BY <1>0, <1>1, <1>3, <1>4, <2>1, <2>2, TermKept
  <2>4. Len(code') >= Len(code) + 1 /\ Len(code') >= Len(code) /\ Len(code') \in Nat /\ \A b \in Len(code) + 1 .. Len(code') : b = z
    BY <1>0, <1>1, <1>3, <1>4
  <2>5. Placed(1)
    BY <1>0, <1>1, <1>4, <2>4, PlacedOne
  <2>6. Last(code'[mbb]).op # "jmp"
    BY <1>0, <1>1, <1>3, <1>4, <2>2
  <2>7. \A b \in 1 .. Len(code) : b # mbb => code'[b] = code[b]
    BY <1>0, <1>1, <1>4
  <2>8. JumpLinked(z)'
    BY <1>1, <1>4, NoJumpLinked
  <2>9. \A b \in Len(code) + 1 .. Len(code') : b \in succ'[mbb] /\ JumpLinked(b)'
    BY <1>0, <1>2, <1>4, <2>4, <2>8
  <2> QED
    BY <1>1, <1>2, <2>3, <2>4, <2>5, <2>6, <2>7, <2>9, TermLinks
<1>5. CASE originalFallThrough = Null
  <2>1. before' = before /\ code' = code /\ Len(code') >= Len(code)
    BY <1>1, <1>3, <1>5
  <2>2. Placed(0) /\ FakesKept
    BY <2>1, PlacedNone DEF FakesKept, Fake
  <2>3. Last(code'[mbb]).op # "jmp"
    BY <1>1, <2>1 DEF last
  <2>4. Len(code) + 1 .. Len(code') = {}
    BY <1>3, <2>1
  <2> QED
    BY <1>1, <1>2, <2>1, <2>2, <2>3, <2>4, TermLinks
<1> QED
  BY <1>4, <1>5

LEMMA IndirectLinks == Good /\ Good' /\ LinksOK /\ ReplaceIndirectJump => LinksOK'
<1> SUFFICES ASSUME Good, Good', LinksOK, ReplaceIndirectJump PROVE LinksOK'
  OBVIOUS
<1>1. /\ pc = "term" /\ pc' = "block" /\ UNCHANGED <<fn, after, mbb, fakeBlock, processed, before, code>>
      /\ last.op = "ind"
  BY IndirectEffect DEF TermUnchanged
<1>2. succ' = succ
  BY DEF ReplaceIndirectJump
<1>3. Len(code) \in Nat
  BY SizeFacts
<1>4. Placed(0) /\ FakesKept /\ SuccKept /\ Len(code') >= Len(code) /\ Len(code) + 1 .. Len(code') = {}
  BY <1>1, <1>2, <1>3, PlacedNone DEF FakesKept, Fake, SuccKept
<1>5. Last(code'[mbb]).op # "jmp"
  BY <1>1 DEF last
<1> QED
  BY <1>1, <1>4, <1>5, TermLinks

LEMMA SplitLinks == Good /\ Good' /\ LayoutOK /\ LinksOK /\ SplitJump => LinksOK'
<1> SUFFICES ASSUME Good, Good', LayoutOK, LinksOK, SplitJump PROVE LinksOK'
  OBVIOUS
<1>0. PICK m, z : m = mbb /\ z = Len(code) + 1
  OBVIOUS
<1> DEFINE x == Front(code[m])
<1>1. /\ pc = "term" /\ pc' = "term" /\ last.op = "jmp" /\ Len(code[m]) > 1
      /\ IsConditionalBranch(code[m][Len(code[m]) - 1])
      /\ UNCHANGED <<fn, before, mbb, fakeBlock>>
      /\ Len(code') = z /\ after' = <<z>> \o after
      /\ \A b \in 1 .. Len(code) : code'[b] = IF b = m THEN x ELSE code[b]
  BY <1>0, SplitEffect DEF IsUnconditionalBranch
<1>2. SuccKept /\ processed' = processed /\ z \in succ'[m]
  BY <1>0, SplitSucc
<1>3. /\ N \in Nat /\ N <= Len(code) /\ Len(code) \in Nat /\ z \in Nat /\ Len(code') >= Len(code)
      /\ \A b \in Len(code) + 1 .. Len(code') : b = z
      /\ m \in 1 .. Len(code) /\ code[m] \in Seq(Instr) /\ code[m] # <<>> /\ Visiting /\ Visiting'
  BY <1>0, <1>1, SizeFacts, AtHand DEF Visiting
<1>4. x # <<>> /\ Last(x) = code[m][Len(code[m]) - 1]
  <2>1. x \in Seq(Instr) /\ Len(x) = Len(code[m]) - 1 /\ \A i \in 1 .. Len(code[m]) - 1 : x[i] = code[m][i]
    BY <1>3, FrontFacts
  <2>2. Len(code[m]) \in Nat
    BY <1>3
  <2> HIDE DEF x
  <2>3. Len(x) \in 1 .. Len(code[m]) - 1
    BY <1>1, <2>1, <2>2
  <2> QED
    BY <2>1, <2>3 DEF Last
<1> HIDE DEF x
<1>5. Last(x).op # "jmpreg"
  BY <1>1, <1>4 DEF IsConditionalBranch
<1>6. FakesKept
  BY <1>0, <1>1, <1>3, <1>4, <1>5, TermKept
<1>7. Placed(0) /\ fakeBlock # Null
  BY <1>1, <1>3, PlacedNone, FakeUnlessReturn
<1>8. Ahead' = Ahead \cup {z}
  <2>1. after \in Seq(Nat) /\ z \in Nat
    BY <1>3, ListFacts DEF Blocks
  <2>2. Range(after') = {z} \cup Range(after)
    BY <1>1, <2>1, ConsFacts
  <2> QED
    BY <1>1, <1>3, <2>2 DEF Ahead
<1>9. \A b \in N + 1 .. Len(code') :
        b \in Ahead' \/ (b <= Len(code) /\ b \notin Ahead /\ code'[b] = code[b]) \/ JumpLinked(b)'
  <2> SUFFICES ASSUME NEW b \in N + 1 .. Len(code'), b \notin Ahead, b # z
               PROVE  code'[b] = code[b] /\ b <= Len(code)
    BY <1>8
  <2>1. b # m
    BY <1>0, <1>3 DEF Ahead
  <2> QED
    BY <1>0, <1>1, <1>3, <2>1
<1>10. \A b \in Len(code) + 1 .. Len(code') : Linked(b)'
  BY <1>0, <1>2, <1>3 DEF Linked, LinksOK
<1>11. BlocksLinked' /\ JumpsLinked' /\ SourcesLinked'
  BY <1>1, <1>2, <1>3, <1>6, <1>9, <1>10, LinksFrame
<1>12. FakeFollows'
  BY <1>1, <1>2, <1>3, <1>6, <1>7, FakesFrame
<1> QED
  BY <1>1, <1>2, <1>3, <1>11, <1>12 DEF LinksOK

LEMMA InitLinks == Init /\ Good => LinksOK
<1> SUFFICES ASSUME Init, Good PROVE LinksOK
  OBVIOUS
<1>1. N \in Nat /\ Len(code) = N /\ ~Visiting /\ N + 1 .. N = {} /\ before = <<>> /\ Len(before) = 0
  BY NAssumption DEF Init, Visiting
<1>2. SourcesLinked
  BY DEF Init, SourcesLinked, SourceSuccessors
<1> QED
  BY <1>1, <1>2 DEF LinksOK, BlocksLinked, JumpsLinked, FakeFollows

(***************************************************************************)
(* Once every block is done, whatever an instruction names is recorded: as *)
(* the target of the jump that its block ends in, or as a successor of a   *)
(* visited block without being the fake block behind it.                   *)
(***************************************************************************)
Recorded(b, i, t) ==
  \/ t \in 1 .. Len(code) /\ Linked(t) /\ ~Fake(t)
  \/ i = Len(code[b]) /\ code[b][i].op = "jmp" /\ t \in succ[b]
NamesRecorded ==
  \A b \in 1 .. Len(code) : \A i \in 1 .. Len(code[b]) : \A t \in code[b][i].to : Recorded(b, i, t)

LEMMA AllVisited ==
  ASSUME Good, OneLane, NEW g, PathGoals(g), pc = "block", after = <<>>
  PROVE  /\ Ahead = {} /\ 1 .. N \subseteq processed
         /\ \A b \in 1 .. N : Converted(g, b) /\ ~Fake(b)
         /\ \A b \in N + 1 .. Len(code) : code[b] # <<>> /\ (Fake(b) \/ Path(g, b))
<1>1. ~Visiting
  BY DEF Visiting
<1>2. Range(after) = {} /\ Ahead = {}
  BY <1>1, RangeFacts, ListFacts DEF Ahead
<1>3. OpenPending = {}
  BY DEF OpenPending, Good, PassInvariant, LanesLeadAhead
<1>4. OpenLanes = {}
  <2> SUFFICES ASSUME NEW i \in OpenLanes PROVE FALSE
    OBVIOUS
  <2>1. ~lanes[i].taken
    BY <1>1 DEF PathGoals, LaneGoals
  <2>2. i \in DOMAIN lanes /\ Bound(lanes[i])
    BY <2>1 DEF OpenLanes, Bound
  <2>3. lanes[i].dest \in Range(after)
    BY <1>1, <2>2 DEF Good, PassInvariant, LanesLeadAhead
  <2> QED
    BY <1>2, <2>3
<1>5. \A b \in N + 1 .. Len(code) : code[b] # <<>>
  BY <1>3, <1>4 DEF OneLane
<1>6. 1 .. N \subseteq processed
  BY <1>2 DEF Good, PassInvariant, VisitedOrAhead
<1> QED
  BY <1>2, <1>5, <1>6 DEF PathGoals, PathsOK, ConvertedOK, GoalOK

LEMMA SourceNames ==
  ASSUME Good, LinksOK, NEW b \in 1 .. N, 1 .. N \subseteq processed, \A t \in 1 .. N : ~Fake(t),
         NEW i \in 1 .. Len(fn[b]), NEW t \in fn[b][i].to
  PROVE  t \in 1 .. Len(code) /\ Linked(t) /\ ~Fake(t)
<1>1. SourceInstr(fn[b][i]) /\ fn[b] \in Seq(Instr)
  BY FnFacts
<1>2. t \in 1 .. N
  BY <1>1 DEF SourceInstr
<1>3. i \in DOMAIN fn[b]
  BY <1>1
<1>4. t \in Named(fn[b])
  BY <1>3 DEF Named
<1>5. t \in 1 .. Len(code)
  BY <1>2, SizeFacts
<1> QED
  BY <1>2, <1>4, <1>5 DEF LinksOK, SourcesLinked, Linked

LEMMA LoadedNames ==
  ASSUME Good, LinksOK, NEW g, NEW z, NEW t, Leads(g, z, t)
  PROVE  z \in 1 .. Len(code) /\ Linked(z) /\ ~Fake(z)
<1>1. z \in N + 1 .. Len(code) /\ ~Fake(z)
  BY DEF Leads
<1>2. z \in 1 .. Len(code)
  BY <1>1, SizeFacts
<1> QED
  BY <1>1, <1>2 DEF LinksOK, BlocksLinked

LEMMA AllRecorded ==
  ASSUME Good, OneLane, LinksOK, NEW g, PathGoals(g), pc = "block", after = <<>>
  PROVE  NamesRecorded
<1> SUFFICES ASSUME NEW b \in 1 .. Len(code), NEW i \in 1 .. Len(code[b]), NEW t \in code[b][i].to
             PROVE  Recorded(b, i, t)
  BY DEF NamesRecorded
<1>1. /\ Ahead = {} /\ 1 .. N \subseteq processed
      /\ \A a \in 1 .. N : Converted(g, a) /\ ~Fake(a)
      /\ \A a \in N + 1 .. Len(code) : code[a] # <<>> /\ (Fake(a) \/ Path(g, a))
  BY AllVisited
<1>2. b \in 1 .. N \/ b \in N + 1 .. Len(code)
  BY SizeFacts
<1>3. code[b] \in Seq(Instr) /\ Len(code[b]) \in Nat
  BY GoodFacts
<1>4. \A z : Lea(z).to = {z} /\ LeaTmp(z).to = {z}
  BY DEF Lea, LeaTmp
<1>5. CASE b \in 1 .. N
  <2>1. \A j : j \in 1 .. Len(fn[b]) /\ i = j /\ code[b][i] = fn[b][j] => t \in 1 .. Len(code) /\ Linked(t) /\ ~Fake(t)
    BY <1>1, <1>5, SourceNames
  <2>2. CASE EndsAsBefore(b)
    <3>1. i \in 1 .. Len(fn[b]) /\ code[b][i] = fn[b][i]
      BY <2>2 DEF EndsAsBefore, Keeps
    <3> QED
      BY <2>1, <3>1 DEF Recorded
  <2>3. CASE EndsInLea(g, b)
    <3>1. PICK k \in 0 .. Len(fn[b]), z \in N + 1 .. Len(code), u \in 1 .. N :
            /\ Keeps(b, k) /\ Len(code[b]) = k + 1 /\ code[b][k + 1] = Lea(z) /\ Leads(g, z, u)
      BY <2>3 DEF EndsInLea
    <3>2. i \in 1 .. k \/ i = k + 1
      BY <1>3, <3>1
    <3>3. CASE i \in 1 .. k
      <4>1. i \in 1 .. Len(fn[b]) /\ code[b][i] = fn[b][i]
        BY <3>1, <3>3, <1>5, FnFacts DEF Keeps
      <4> QED
        BY <2>1, <4>1 DEF Recorded
    <3>4. CASE i = k + 1
      BY <1>4, <3>1, <3>4, LoadedNames DEF Recorded
    <3> QED
      BY <3>2, <3>3, <3>4
  <2>4. CASE EndsInCMov(g, b)
    <3>1. PICK k \in 1 .. Len(fn[b]), z \in N + 1 .. Len(code), y \in N + 1 .. Len(code), u \in 1 .. N, v \in 1 .. N :
            /\ Keeps(b, k - 1) /\ Len(code[b]) = k + 2
            /\ code[b][k] = Lea(z) /\ code[b][k + 1] = LeaTmp(y) /\ code[b][k + 2] = CMov(fn[b][k].cc)
            /\ Leads(g, z, u) /\ Leads(g, y, v)
      BY <2>4 DEF EndsInCMov
    <3>2. k \in Nat /\ (i \in 1 .. k - 1 \/ i = k \/ i = k + 1 \/ i = k + 2)
      <4>1. Len(fn[b]) \in Nat /\ Len(code[b]) = k + 2
        BY <1>5, <3>1, FnFacts
      <4> QED
        BY <4>1
    <3>3. CASE i \in 1 .. k - 1
      <4>1. code[b][i] = fn[b][i]
        BY <3>1, <3>3 DEF Keeps
      <4>2. i \in 1 .. Len(fn[b])
        BY <3>1, <3>2, <3>3, <1>5, FnFacts
      <4> QED
        BY <2>1, <4>1, <4>2 DEF Recorded
    <3>4. CASE i = k
      <4>1. t = z /\ Leads(g, z, u)
        BY <1>4, <3>1, <3>4
      <4> QED
        BY <4>1, LoadedNames DEF Recorded
    <3>5. CASE i = k + 1
      <4>1. t = y /\ Leads(g, y, v)
        BY <1>4, <3>1, <3>5
      <4> QED
        BY <4>1, LoadedNames DEF Recorded
    <3>6. CASE i = k + 2
      BY <3>1, <3>6 DEF CMov
    <3> QED
      BY <3>2, <3>3, <3>4, <3>5, <3>6
  <2> QED
    BY <1>1, <1>5, <2>2, <2>3, <2>4 DEF Converted
<1>6. CASE b \in N + 1 .. Len(code)
  <2>1. CASE Fake(b)
    <3>1. code[b][i] = JmpTarget
      BY <2>1 DEF Fake
    <3> QED
      BY <3>1 DEF JmpTarget, Plain
  <2>2. CASE Path(g, b)
    <3>1. code[b][i] = Add8Zero \/ Hop(g, b, i) \/ Arrival(g, b, i)
      BY <2>2 DEF Path
    <3>2. code[b][i] # Add8Zero
      BY DEF Add8Zero, Plain
    <3>3. CASE Hop(g, b, i)
      BY <1>4, <3>3, LoadedNames DEF Hop, Recorded
    <3>4. CASE Arrival(g, b, i)
      <4>1. i = Len(code[b]) /\ code[b][i] = Jmp(t)
        BY <3>4 DEF Arrival, Jmp
      <4>2. code[b] # <<>> /\ Last(code[b]) = Jmp(t)
        BY <1>1, <1>6, <4>1 DEF Last
      <4>3. JumpLinked(b)
        BY <1>1, <1>6 DEF LinksOK, JumpsLinked
      <4> QED
        BY <4>1, <4>2, <4>3 DEF JumpLinked, EndsInJump, Jmp, Recorded
    <3> QED
      BY <3>1, <3>2, <3>3, <3>4
  <2> QED
    BY <1>1, <1>6, <2>1, <2>2
<1> QED
  BY <1>2, <1>5, <1>6

LEMMA FinishLinks ==
  Good /\ Good' /\ OneLane /\ PathInvariant /\ LinksOK /\ Finish => NamesRecorded' /\ FakeFollows'
<1> SUFFICES ASSUME Good, Good', OneLane, NEW g, PathGoals(g), LinksOK, Finish
             PROVE  NamesRecorded' /\ FakeFollows'
  BY DEF PathInvariant
<1>0. PICK z : z = Len(code) + 1
  OBVIOUS
<1>1. /\ pc = "block" /\ pc' = "done" /\ after = <<>> /\ UNCHANGED <<fn, after, fakeBlock>>
      /\ Len(code') = z /\ code'[z] = <<Jmp(1)>>
      /\ \A b \in 1 .. Len(code) : code'[b] = code[b]
      /\ before' = <<z>> \o before
  BY <1>0, FinishEffect
<1>2. SuccKept /\ processed' = processed /\ 1 \in succ'[z]
  BY <1>0, FinishSucc
<1>3. Len(code) \in Nat /\ z \in Nat /\ Len(code') >= Len(code) + 1 /\ Len(code') \in Nat
  BY <1>0, <1>1, SizeFacts
<1>4. FakesKept /\ Placed(1) /\ ~Visiting'
  BY <1>0, <1>1, <1>3, PlacedOne DEF FakesKept, Fake, Visiting
<1>5. FakeFollows'
  <2>1. 1 \in Nat /\ processed' = processed /\ after' = after
    BY <1>1, <1>2
  <2>2. UNCHANGED after \/ (fakeBlock # Null /\ Visiting)
    BY <2>1
  <2>3. Visiting' => Visiting /\ fakeBlock' = fakeBlock
    BY <1>4
  <2> QED
    BY <1>4, <2>1, <2>2, <2>3, FakesFrame
<1>6. NamesRecorded
  BY <1>1, AllRecorded
<1>7. ASSUME NEW b \in 1 .. Len(code'), NEW i \in 1 .. Len(code'[b]), NEW t \in code'[b][i].to
      PROVE  Recorded(b, i, t)'
  <2>1. CASE b <= Len(code)
    <3>1. b \in 1 .. Len(code) /\ code'[b] = code[b] /\ Recorded(b, i, t)
      BY <1>1, <1>3, <1>6, <2>1 DEF NamesRecorded
    <3>2. CASE t \in 1 .. Len(code) /\ Linked(t) /\ ~Fake(t)
      <4>1. PICK p \in processed : t \in succ[p]
        BY <3>2 DEF Linked
      <4>2. t \in succ'[p]
        BY <1>2, <4>1, SuccFacts DEF SuccKept
      <4>3. Linked(t)'
        BY <1>2, <4>1, <4>2 DEF Linked
      <4>4. t \in 1 .. Len(code') /\ ~Fake(t)'
        BY <1>3, <1>4, <3>2 DEF FakesKept
      <4> QED
        BY <4>3, <4>4 DEF Recorded
    <3>3. CASE i = Len(code[b]) /\ code[b][i].op = "jmp" /\ t \in succ[b]
      BY <1>2, <3>1, <3>3 DEF Recorded, SuccKept
    <3> QED
      BY <3>1, <3>2, <3>3 DEF Recorded
  <2>2. CASE ~(b <= Len(code))
    <3>1. b = z
      BY <1>0, <1>1, <1>3, <2>2
    <3>2. Len(code'[b]) = 1 /\ code'[b][1] = Jmp(1)
      BY <1>1, <3>1
    <3>3. i = 1 /\ t = 1
      BY <3>2 DEF Jmp
    <3> QED
      BY <1>2, <3>1, <3>2, <3>3 DEF Recorded, Jmp
  <2> QED
    BY <2>1, <2>2
<1> QED
  BY <1>5, <1>7 DEF NamesRecorded

LabelState == IF pc = "done" THEN NamesRecorded /\ FakeFollows ELSE LinksOK

LEMMA SameLabels == Good /\ LabelState /\ UNCHANGED vars => LabelState'
<1> SUFFICES ASSUME Good, LabelState, UNCHANGED vars PROVE LabelState'
  OBVIOUS
<1>1. /\ UNCHANGED <<fn, before, after, code, succ, processed, mbb, fakeBlock, pc>>
      /\ Ahead' = Ahead /\ (Visiting' <=> Visiting)
  BY DEF vars, Ahead, Visiting
<1>2. (FakeFollows' <=> FakeFollows) /\ (\A t : Linked(t)' <=> Linked(t)) /\ (\A t : Fake(t)' <=> Fake(t))
  BY <1>1 DEF FakeFollows, Linked, Fake
<1>3. NamesRecorded => NamesRecorded'
  BY <1>1, <1>2 DEF NamesRecorded, Recorded
<1>4. LinksOK => LinksOK'
  BY <1>1, <1>2 DEF LinksOK, BlocksLinked, JumpsLinked, JumpLinked, EndsInJump, SourcesLinked
<1> QED
  BY <1>1, <1>2, <1>3, <1>4 DEF LabelState

LEMMA LabelStep ==
  ASSUME Good, Good', OneLane, LayoutOK, PathInvariant, LabelState, [Next]_vars
  PROVE  LabelState'
<1>1. CASE UNCHANGED vars
  BY <1>1, SameLabels
<1>2. CASE Finish
  BY <1>2, FinishEffect, FinishLinks DEF LabelState
<1>3. CASE ~Finish /\ ~UNCHANGED vars
  <2>1. \/ NextBlock \/ LaneArrives \/ LaneSkips \/ LaneDies \/ LanesDone
        \/ SplitJump \/ ReplaceUnconditionalJump \/ ReplaceConditionalBranch
        \/ ReplaceNoBranchBlock \/ ReplaceIndirectJump
    BY <1>3, StepCases
  <2>2. pc # "done" /\ pc' # "done"
    BY <2>1 DEF NextBlock, LaneArrives, LaneSkips, LaneDies, LanesDone, SplitJump, ReplaceUnconditionalJump,
                ReplaceConditionalBranch, ReplaceNoBranchBlock, ReplaceIndirectJump, NotABranch
  <2>3. LinksOK
    BY <2>2 DEF LabelState
  <2>4. LinksOK'
    BY <2>1, <2>3, NextBlockLinks, ArrivesLinks, SkipsLinks, OtherLaneLinks, SplitLinks,
       UnconditionalLinks, ConditionalLinks, NoBranchLinks, IndirectLinks
  <2> QED
    BY <2>2, <2>4 DEF LabelState
<1> QED
  BY <1>1, <1>2, <1>3

\* A recorded name has its label.
LEMMA RecordedLabel ==
  ASSUME Good, LayoutOK, pc = "done", FakeFollows, NEW b \in 1 .. Len(code), NEW i \in 1 .. Len(code[b]),
         NEW t \in code[b][i].to, Recorded(b, i, t)
  PROVE  LabelEmitted(t)
<1>1. after = <<>> /\ ~Visiting /\ Blocks = 1 .. Len(code)
  BY DEF LayoutOK, Visiting, Blocks
<1>2. Layout = before /\ Len(before) \in Nat
  BY <1>1, ListFacts DEF Layout
<1>3. CASE Linked(t) /\ ~Fake(t)
  <2>1. PICK p \in processed : t \in succ[p]
    BY <1>3 DEF Linked
  <2>2. p \in Preds(t)
    BY <1>1, <2>1, SuccFacts DEF Preds
  <2>3. ASSUME LayoutSuccessor(p, t) PROVE FALSE
    <3>1. PICK k \in 1 .. Len(before) - 1 : before[k] = p /\ before[k + 1] = t
      BY <1>2, <2>3 DEF LayoutSuccessor
    <3>2. k \in 1 .. Len(before) /\ k < Len(before)
      BY <1>2, <3>1
    <3>3. Fake(before[k + 1])
      BY <2>1, <3>1, <3>2 DEF FakeFollows
    <3> QED
      BY <1>3, <3>1, <3>3
  <2> QED
    BY <2>2, <2>3 DEF LabelEmitted, OnlyReachableByFallthrough
<1>4. CASE i = Len(code[b]) /\ code[b][i].op = "jmp" /\ t \in succ[b]
  <2>1. b \in Preds(t)
    BY <1>1, <1>4 DEF Preds
  <2>2. code[b] \in Seq(Instr) /\ Len(code[b]) \in Nat
    BY GoodFacts
  <2>3. i \in DOMAIN code[b] /\ \A j \in i .. Len(code[b]) : j = i
    BY <1>4, <2>2
  <2>4. i \in Terminators(code[b])
    BY <1>4, <2>3 DEF Terminators, IsBranch
  <2> QED
    BY <2>1, <2>4 DEF LabelEmitted, OnlyReachableByFallthrough
<1> QED
  BY <1>3, <1>4 DEF Recorded

LabelsInvariant == Supported(fn) => LabelState

\* When the pass is done with a supported function, AsmPrinter emits the
\* label of every block that an instruction of the result names: what the
\* pass has told addSuccessor is enough for the code to assemble.
THEOREM LabelsEmitted == Spec => [](Supported(fn) => NamedBlocksHaveLabels)
<1> DEFINE Inv == (Supported(fn) => Good) /\ LayoutInvariant /\ PathsInvariant
<1>1. Init /\ Inv => LabelsInvariant
  <2> SUFFICES ASSUME Init, Good PROVE LabelState
    BY DEF LabelsInvariant
  <2>1. pc # "done"
    BY DEF Init
  <2> QED
    BY <2>1, InitLinks DEF LabelState
<1>2. LabelsInvariant /\ Inv /\ Inv' /\ [Next]_vars => LabelsInvariant'
  <2> SUFFICES ASSUME LabelsInvariant, Inv, Inv', [Next]_vars, Supported(fn)' PROVE LabelState'
    BY DEF LabelsInvariant
  <2>1. Supported(fn)
    BY FunctionFixed DEF Supported
  <2>2. Good /\ Good' /\ OneLane /\ LayoutOK /\ PathInvariant /\ LabelState
    BY <2>1 DEF LayoutInvariant, PathsInvariant, LabelsInvariant
  <2> QED
    BY <2>2, LabelStep
<1>3. Inv /\ LabelsInvariant => (Supported(fn) => NamedBlocksHaveLabels)
  <2> SUFFICES ASSUME Inv, LabelsInvariant, Supported(fn), pc = "done",
                      NEW b \in Blocks, NEW t \in Named(code[b])
               PROVE  LabelEmitted(t)
    BY DEF NamedBlocksHaveLabels
  <2>1. Good /\ LayoutOK /\ NamesRecorded /\ FakeFollows
    BY DEF LayoutInvariant, LabelsInvariant, LabelState
  <2>2. b \in 1 .. Len(code) /\ code[b] \in Seq(Instr)
    BY <2>1, GoodFacts DEF Blocks
  <2>3. PICK i \in 1 .. Len(code[b]) : t \in code[b][i].to
    BY <2>2 DEF Named
  <2>4. Recorded(b, i, t)
    BY <2>1, <2>2, <2>3 DEF NamesRecorded
  <2> QED
    BY <2>1, <2>2, <2>3, <2>4, RecordedLabel
<1>4. TypeOK /\ (Supported(fn) => Good) /\ LayoutInvariant /\ PathsInvariant => Inv
  OBVIOUS
<1> QED
  BY <1>1, <1>2, <1>3, <1>4, LayoutHolds, PathsHold, PTL DEF Spec
=============================================================================
