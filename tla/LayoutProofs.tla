----------------------------- MODULE LayoutProofs -----------------------------
(***************************************************************************)
(* What the pass keeps of a supported function while it works: every       *)
(* trampoline without a jump has one lane that will complete it, and a     *)
(* block that ends by loading R15 is followed by a fake block.             *)
(***************************************************************************)
EXTENDS PassSteps

(***************************************************************************)
(* OpenTrampolinesHaveOneLane, lane by lane.                               *)
(***************************************************************************)
OneLane ==
  /\ \A b \in N + 1 .. Len(code) : code[b] = <<>> =>
       \/ \E i \in OpenLanes : lanes[i].current = b
       \/ \E i \in OpenPending : pending[i].current = b
  /\ \A i \in OpenLanes : code[lanes[i].current] = <<>>
  /\ \A i \in OpenPending : code[pending[i].current] = <<>>
  /\ \A i, j \in OpenLanes : lanes[i].current = lanes[j].current => i = j
  /\ \A i, j \in OpenPending : pending[i].current = pending[j].current => i = j
  /\ \A i \in OpenLanes, j \in OpenPending : lanes[i].current # pending[j].current

\* A lane that is still open writes to a block of its own, beyond the source.
LEMMA OpenFacts ==
  ASSUME Good
  PROVE  /\ \A i \in OpenLanes : /\ i \in 1 .. Len(lanes) /\ lanes[i].current # Null
                                 /\ ~(pc \in {"lanes", "term"} /\ i = takenLane)
                                 /\ lanes[i].current \in N + 1 .. Len(code) /\ lanes[i].current \notin Ahead
         /\ \A i \in OpenPending : /\ i \in 1 .. Len(pending) /\ pending[i].current # Null
                                   /\ pending[i].current \in N + 1 .. Len(code)
                                   /\ pending[i].current \notin Ahead
<1>1. \A i \in 1 .. Len(lanes) : lanes[i] \in Range(lanes) /\ lanes[i].current \in 0 .. Len(code)
  BY GoodFacts DEF Range
<1>2. \A i \in 1 .. Len(pending) : pending[i] \in Range(pending) /\ pending[i].current \in 0 .. Len(code)
  BY GoodFacts DEF Range
<1>3. /\ \A i \in OpenLanes : /\ i \in 1 .. Len(lanes) /\ lanes[i].current # Null
                              /\ ~(pc \in {"lanes", "term"} /\ i = takenLane)
      /\ \A i \in OpenPending : i \in 1 .. Len(pending) /\ pending[i].current # Null
  BY GoodFacts DEF OpenLanes, OpenPending
<1>4. \A i \in OpenLanes : lanes[i].current > N /\ lanes[i].current \notin Ahead
  BY <1>1, <1>3 DEF Good, PassInvariant, LanesApart
<1>5. \A i \in OpenPending : pending[i].current > N /\ pending[i].current \notin Ahead
  BY <1>2, <1>3 DEF Good, PassInvariant, LanesApart
<1> QED
  BY <1>1, <1>2, <1>3, <1>4, <1>5, GoodFacts

LEMMA OneLaneIsIt == Good => (OpenTrampolinesHaveOneLane <=> OneLane)
<1> SUFFICES ASSUME Good PROVE OpenTrampolinesHaveOneLane <=> OneLane
  OBVIOUS
<1> DEFINE empty == {b \in Blocks : b > N /\ code[b] = <<>>}
           led == {lanes[i].current : i \in OpenLanes} \cup {pending[i].current : i \in OpenPending}
<1>1. \A b : b \in empty <=> b \in N + 1 .. Len(code) /\ code[b] = <<>>
  BY GoodFacts DEF Blocks
<1>2. \A b : b \in led <=> \/ \E i \in OpenLanes : lanes[i].current = b
                           \/ \E i \in OpenPending : pending[i].current = b
  OBVIOUS
<1>3. empty = led <=>
        /\ \A b \in N + 1 .. Len(code) : code[b] = <<>> =>
             \/ \E i \in OpenLanes : lanes[i].current = b
             \/ \E i \in OpenPending : pending[i].current = b
        /\ \A i \in OpenLanes : code[lanes[i].current] = <<>>
        /\ \A i \in OpenPending : code[pending[i].current] = <<>>
  <2> HIDE DEF empty, led
  <2>1. empty = led <=> \A b : b \in empty <=> b \in led
    OBVIOUS
  <2> QED
    BY <1>1, <1>2, <2>1, OpenFacts
<1> HIDE DEF empty, led
<1>4. OpenTrampolinesHaveOneLane <=>
        /\ empty = led
        /\ \A i, j \in OpenLanes : lanes[i].current = lanes[j].current => i = j
        /\ \A i, j \in OpenPending : pending[i].current = pending[j].current => i = j
        /\ \A i \in OpenLanes, j \in OpenPending : lanes[i].current # pending[j].current
  BY DEF OpenTrampolinesHaveOneLane, empty, led
<1> QED
  BY <1>3, <1>4 DEF OneLane

LEMMA InitOneLane == Init /\ Good => OneLane
<1> SUFFICES ASSUME Init, Good PROVE OneLane
  OBVIOUS
<1>1. OpenLanes = {} /\ OpenPending = {}
  BY DEF Init, OpenLanes, OpenPending, EmptyLane
<1>2. Len(code) = N
  BY NAssumption DEF Init
<1> QED
  BY <1>1, <1>2, GoodFacts DEF OneLane

\* The lanes still to be looked at, once the first has been dealt with.
PendingShift ==
  /\ \A i \in OpenPending' : /\ i + 1 \in OpenPending /\ pending'[i] = pending[i + 1]
                             /\ pending'[i].current \in N + 1 .. Len(code)
                             /\ pending'[i].current # lane.current
  /\ \A b : b # lane.current /\ (\E i \in OpenPending : pending[i].current = b)
       => \E i \in OpenPending' : pending'[i].current = b
  /\ \A i, j \in OpenPending' : pending'[i].current = pending'[j].current => i = j
  /\ \A i \in OpenLanes, j \in OpenPending' : lanes[i].current # pending'[j].current
  /\ lane.current # Null =>
       /\ lane.current \in N + 1 .. Len(code) /\ code[lane.current] = <<>> /\ lane.current \notin Ahead
  /\ \A i \in OpenLanes : lanes[i].current # lane.current /\ lanes[i].current \in N + 1 .. Len(code)

LEMMA PendingOpen ==
  ASSUME Good, OneLane, pc = "lanes", pending # <<>>, pending' = Tail(pending)
  PROVE  PendingShift
<1>1. /\ lane = pending[1] /\ Len(pending) >= 1 /\ DOMAIN pending' = 1 .. Len(pending) - 1
      /\ \A i \in 1 .. Len(pending) - 1 : pending'[i] = pending[i + 1]
  BY PendingTail
<1>2. Len(pending) \in Nat /\ DOMAIN pending = 1 .. Len(pending)
  BY GoodFacts
<1>3. lane.current # Null => 1 \in OpenPending
  BY <1>1, <1>2 DEF OpenPending
<1>4. ASSUME NEW i \in OpenPending'
      PROVE  /\ i \in 1 .. Len(pending) - 1 /\ i + 1 \in OpenPending /\ pending'[i] = pending[i + 1]
             /\ pending'[i].current \in N + 1 .. Len(code) /\ pending'[i].current # lane.current
  <2>1. i \in 1 .. Len(pending) - 1 /\ pending'[i].current # Null
    BY <1>1 DEF OpenPending
  <2>2. i + 1 \in 1 .. Len(pending) /\ i + 1 # 1 /\ pending'[i] = pending[i + 1]
    BY <1>1, <1>2, <2>1
  <2>3. i + 1 \in OpenPending
    BY <1>2, <2>1, <2>2 DEF OpenPending
  <2> QED
    BY <1>1, <1>3, <2>1, <2>2, <2>3, OpenFacts DEF OneLane
<1>5. ASSUME NEW b, b # lane.current, NEW i \in OpenPending, pending[i].current = b
      PROVE  \E k \in OpenPending' : pending'[k].current = b
  <2>1. i \in 1 .. Len(pending) /\ i # 1 /\ b # Null
    BY <1>1, <1>5, OpenFacts
  <2>2. i - 1 \in 1 .. Len(pending) - 1 /\ (i - 1) + 1 = i
    BY <1>2, <2>1
  <2>3. pending'[i - 1] = pending[i]
    BY <1>1, <2>2
  <2>4. i - 1 \in OpenPending'
    BY <1>1, <1>5, <2>1, <2>2, <2>3 DEF OpenPending
  <2> QED
    BY <1>5, <2>3, <2>4
<1>6. ASSUME NEW i \in OpenPending', NEW j \in OpenPending', pending'[i].current = pending'[j].current
      PROVE  i = j
  <2>1. i \in Nat /\ j \in Nat /\ i + 1 = j + 1
    BY <1>2, <1>4, <1>6 DEF OneLane
  <2> QED
    BY <2>1
<1>7. \A i \in OpenLanes, j \in OpenPending' : lanes[i].current # pending'[j].current
  BY <1>4 DEF OneLane
<1>8. lane.current # Null =>
        /\ lane.current \in N + 1 .. Len(code) /\ code[lane.current] = <<>> /\ lane.current \notin Ahead
  BY <1>1, <1>3, OpenFacts DEF OneLane
<1>9. \A i \in OpenLanes : lanes[i].current # lane.current /\ lanes[i].current \in N + 1 .. Len(code)
  BY <1>1, <1>3, OpenFacts DEF OneLane
<1> QED
  BY <1>4, <1>5, <1>6, <1>7, <1>8, <1>9 DEF PendingShift

LEMMA NextBlockOneLane == Good /\ Good' /\ OneLane /\ NextBlock => OneLane'
<1> SUFFICES ASSUME Good, Good', OneLane, NextBlock PROVE OneLane'
  OBVIOUS
<1>1. /\ pc = "block" /\ pc' = "lanes" /\ pending' = lanes /\ lanes' = <<>>
      /\ \A b \in 1 .. Len(code) : code'[b] = code[b]
      /\ \/ Len(code') = Len(code) + 1 /\ code'[Len(code) + 1] = <<JmpTarget>>
         \/ Len(code') = Len(code)
  BY NextBlockEffect
<1>2. OpenPending = {}
  BY <1>1 DEF OpenPending, Good, PassInvariant, LanesLeadAhead
<1>3. OpenLanes' = {}
  BY <1>1 DEF OpenLanes
<1>4. OpenPending' = OpenLanes
  BY <1>1 DEF OpenPending, OpenLanes
<1>5. <<JmpTarget>> # <<>>
  OBVIOUS
<1>6. ASSUME NEW b \in N + 1 .. Len(code'), code'[b] = <<>>
      PROVE  b \in N + 1 .. Len(code) /\ code[b] = <<>>
  <2>1. CASE Len(code') = Len(code) + 1 /\ code'[Len(code) + 1] = <<JmpTarget>>
    <3>1. b # Len(code) + 1
      BY <1>5, <1>6, <2>1
    <3>2. b \in N + 1 .. Len(code) /\ b \in 1 .. Len(code)
      BY <2>1, <3>1, SizeFacts
    <3> QED
      BY <1>1, <1>6, <3>2
  <2>2. CASE Len(code') = Len(code)
    <3>1. b \in N + 1 .. Len(code) /\ b \in 1 .. Len(code)
      BY <2>2, SizeFacts
    <3> QED
      BY <1>1, <1>6, <3>1
  <2> QED
    BY <1>1, <2>1, <2>2
<1>7. \A i \in OpenLanes : code'[lanes[i].current] = code[lanes[i].current]
  <2>1. \A i \in OpenLanes : lanes[i].current \in 1 .. Len(code)
    BY OpenFacts, SizeFacts
  <2> QED
    BY <1>1, <2>1
<1> QED
  BY <1>1, <1>2, <1>3, <1>4, <1>6, <1>7 DEF OneLane

LEMMA ArrivesOneLane == Good /\ Good' /\ OneLane /\ LaneArrives => OneLane'
<1> SUFFICES ASSUME Good, Good', OneLane, LaneArrives PROVE OneLane'
  OBVIOUS
<1>1. /\ pc = "lanes" /\ pc' = "lanes" /\ pending # <<>> /\ pending' = Tail(pending)
      /\ Len(code') = Len(code)
      /\ \A b \in 1 .. Len(code) :
           code'[b] = IF b = lane.current THEN Append(code[b], Jmp(mbb)) ELSE code[b]
      /\ IF takenLane = Null THEN takenLane' = Len(lanes) + 1 /\ lanes' = Append(lanes, lane)
         ELSE UNCHANGED <<lanes, takenLane>>
  BY ArrivesEffect
<1>2. OpenLanes' = OpenLanes /\ \A i \in OpenLanes : lanes'[i] = lanes[i]
  <2>1. CASE takenLane = Null
    <3>1. lane \in Lane
      BY <1>1, LaneFacts DEF Good
    <3>2. /\ DOMAIN lanes' = 1 .. Len(lanes) + 1 /\ takenLane' = Len(lanes) + 1
          /\ \A i \in 1 .. Len(lanes) : lanes'[i] = lanes[i]
      BY <1>1, <2>1, <3>1, LanesExtended
    <3> QED
      BY <1>1, <2>1, <3>2, SizeFacts DEF OpenLanes, Null
  <2>2. CASE takenLane # Null
    BY <1>1, <2>2 DEF OpenLanes
  <2> QED
    BY <2>1, <2>2
<1>p. PendingShift
  BY <1>1, PendingOpen
<1>3. ASSUME NEW b \in N + 1 .. Len(code)
      PROVE  /\ b # lane.current => code'[b] = code[b]
             /\ code'[b] = <<>> => code[b] = <<>> /\ b # lane.current
  <2>1. code[b] \in Seq(Instr) /\ b \in 1 .. Len(code)
    BY GoodFacts
  <2>2. Append(code[b], Jmp(mbb)) # <<>>
    BY <2>1
  <2> QED
    BY <1>1, <2>1, <2>2
<1>4. ASSUME NEW b \in N + 1 .. Len(code), code'[b] = <<>>
      PROVE  \/ \E i \in OpenLanes' : lanes'[i].current = b
             \/ \E i \in OpenPending' : pending'[i].current = b
  <2>1. code[b] = <<>> /\ b # lane.current
    BY <1>3, <1>4
  <2> QED
    BY <1>2, <1>p, <2>1 DEF OneLane, PendingShift
<1>5. \A i \in OpenLanes' : code'[lanes'[i].current] = <<>>
  BY <1>2, <1>3, <1>p DEF OneLane, PendingShift
<1>6. \A i \in OpenPending' : code'[pending'[i].current] = <<>>
  BY <1>3, <1>p DEF OneLane, PendingShift
<1>7. \A i, j \in OpenPending' : pending'[i].current = pending'[j].current => i = j
  BY <1>p DEF PendingShift
<1>8. \A i \in OpenLanes', j \in OpenPending' : lanes'[i].current # pending'[j].current
  BY <1>2, <1>p DEF PendingShift
<1>9. \A i, j \in OpenLanes' : lanes'[i].current = lanes'[j].current => i = j
  BY <1>2 DEF OneLane
<1> QED
  BY <1>1, <1>4, <1>5, <1>6, <1>7, <1>8, <1>9 DEF OneLane

LEMMA SkipsOneLane == Good /\ Good' /\ OneLane /\ LaneSkips => OneLane'
<1> SUFFICES ASSUME Good, Good', OneLane, LaneSkips PROVE OneLane'
  OBVIOUS
<1> DEFINE z == Len(code) + 1
<1>1. /\ pc = "lanes" /\ pc' = "lanes" /\ pending # <<>> /\ pending' = Tail(pending)
      /\ lane.current # Null /\ takenLane' = takenLane
      /\ Len(code') = z /\ code'[z] = <<>>
      /\ \A b \in 1 .. Len(code) :
           code'[b] = IF b = lane.current THEN code[b] \o Dummies \o <<Lea(z), Jmp(fakeBlock)>> ELSE code[b]
      /\ lanes' = Append(lanes, [lane EXCEPT !.current = z])
  BY SkipsEffect
<1>0. z \in Nat /\ z # Null /\ z \notin N + 1 .. Len(code) /\ N + 1 .. z = (N + 1 .. Len(code)) \cup {z}
  BY SizeFacts DEF Null
<1>2. /\ DOMAIN lanes' = 1 .. Len(lanes) + 1 /\ lanes'[Len(lanes) + 1].current = z
      /\ \A i \in 1 .. Len(lanes) : lanes'[i] = lanes[i]
  <2>1. lane \in Lane
    BY <1>1, LaneFacts DEF Good
  <2>3. [lane EXCEPT !.current = z] \in Lane /\ [lane EXCEPT !.current = z].current = z
    BY <1>0, <2>1 DEF Lane
  <2> HIDE DEF z
  <2> QED
    BY <1>1, <2>3, LanesExtended
<1>p. PendingShift
  BY <1>1, PendingOpen
<1> HIDE DEF z
<1>4. /\ OpenLanes' = OpenLanes \cup {Len(lanes) + 1} /\ Len(lanes) + 1 \notin OpenLanes
      /\ \A i \in OpenLanes : lanes'[i] = lanes[i]
  <2>1. Len(lanes) + 1 \in OpenLanes' /\ Len(lanes) + 1 \notin OpenLanes
    BY <1>0, <1>1, <1>2, SizeFacts DEF OpenLanes
  <2>2. \A i \in 1 .. Len(lanes) : i \in OpenLanes' <=> i \in OpenLanes
    BY <1>1, <1>2, SizeFacts DEF OpenLanes
  <2>3. \A i \in OpenLanes' : i \in 1 .. Len(lanes) + 1
    BY <1>2 DEF OpenLanes
  <2>4. \A i \in OpenLanes : i \in 1 .. Len(lanes)
    BY OpenFacts
  <2>5. 1 .. Len(lanes) + 1 = (1 .. Len(lanes)) \cup {Len(lanes) + 1}
    BY SizeFacts
  <2> QED
    BY <1>2, <2>1, <2>2, <2>3, <2>4, <2>5
<1>7. ASSUME NEW b \in N + 1 .. Len(code)
      PROVE  /\ b # lane.current => code'[b] = code[b]
             /\ code'[b] = <<>> => code[b] = <<>> /\ b # lane.current
  <2>1. code[b] \in Seq(Instr) /\ b \in 1 .. Len(code) /\ Dummies \in Seq(Instr)
    BY <1>1, GoodFacts, DummiesType
  <2>2. code[b] \o Dummies \o <<Lea(z), Jmp(fakeBlock)>> # <<>>
    <3> DEFINE u == code[b] \o Dummies
               x == Lea(z)
               y == Jmp(fakeBlock)
    <3>1. u \in Seq(Instr) /\ x \in Instr /\ y \in Instr
      BY <1>0, <2>1, InstrType DEF Good, TypeOK
    <3> HIDE DEF u, x, y
    <3>2. Len(u \o <<x, y>>) = Len(u) + 2 /\ Len(u) \in Nat
      BY <3>1, ExtendTwoFacts
    <3>3. u \o <<x, y>> # <<>>
      BY <3>2
    <3> QED
      BY <3>3 DEF u, x, y
  <2> QED
    BY <1>1, <2>1, <2>2
<1>8. ASSUME NEW b \in N + 1 .. z, code'[b] = <<>>
      PROVE  \/ \E i \in OpenLanes' : lanes'[i].current = b
             \/ \E i \in OpenPending' : pending'[i].current = b
  <2>1. CASE b = z
    BY <1>2, <1>4, <2>1
  <2>2. CASE b # z
    <3>1. b \in N + 1 .. Len(code)
      BY <1>0, <2>2
    <3>2. code[b] = <<>> /\ b # lane.current
      BY <1>7, <1>8, <3>1
    <3> QED
      BY <1>4, <1>p, <3>1, <3>2 DEF OneLane, PendingShift
  <2> QED
    BY <2>1, <2>2
<1>9. \A i \in OpenLanes' : code'[lanes'[i].current] = <<>>
  <2>1. \A i \in OpenLanes : code'[lanes[i].current] = <<>>
    BY <1>7, <1>p DEF OneLane, PendingShift
  <2> QED
    BY <1>1, <1>2, <1>4, <2>1
<1>10. \A i \in OpenPending' : code'[pending'[i].current] = <<>>
  BY <1>7, <1>p DEF OneLane, PendingShift
<1>11. \A i, j \in OpenPending' : pending'[i].current = pending'[j].current => i = j
  BY <1>p DEF PendingShift
<1>12. \A i \in OpenLanes', j \in OpenPending' : lanes'[i].current # pending'[j].current
  BY <1>0, <1>2, <1>4, <1>p DEF PendingShift
<1>13. \A i, j \in OpenLanes' : lanes'[i].current = lanes'[j].current => i = j
  BY <1>0, <1>2, <1>4, <1>p DEF OneLane, PendingShift
<1> QED
  BY <1>1, <1>8, <1>9, <1>10, <1>11, <1>12, <1>13 DEF OneLane

LEMMA OtherLaneOneLane == Good /\ Good' /\ OneLane /\ (LaneDies \/ LanesDone) => OneLane'
<1>1. ASSUME Good, Good', OneLane, LaneDies PROVE OneLane'
  <2>1. /\ pc = "lanes" /\ pending # <<>> /\ pending' = Tail(pending) /\ lane.current = Null
        /\ UNCHANGED <<code, lanes, takenLane, pc>>
    BY <1>1 DEF LaneDies
  <2>2. PendingShift
    BY <1>1, <2>1, PendingOpen
  <2>3. OpenLanes' = OpenLanes
    BY <2>1 DEF OpenLanes
  <2>4. \A b \in N + 1 .. Len(code) : b # lane.current
    BY <1>1, <2>1, SizeFacts DEF Null
  <2>5. \A b \in N + 1 .. Len(code) : code[b] = <<>> =>
          \/ \E i \in OpenLanes' : lanes'[i].current = b
          \/ \E i \in OpenPending' : pending'[i].current = b
    BY <1>1, <2>1, <2>2, <2>3, <2>4 DEF OneLane, PendingShift
  <2>6. \A i \in OpenPending' : code[pending'[i].current] = <<>>
    BY <1>1, <2>2 DEF OneLane, PendingShift
  <2>7. /\ \A i, j \in OpenPending' : pending'[i].current = pending'[j].current => i = j
        /\ \A i \in OpenLanes', j \in OpenPending' : lanes'[i].current # pending'[j].current
    BY <2>1, <2>2, <2>3 DEF PendingShift
  <2>8. /\ \A i \in OpenLanes' : code'[lanes'[i].current] = <<>>
        /\ \A i, j \in OpenLanes' : lanes'[i].current = lanes'[j].current => i = j
    BY <1>1, <2>1, <2>3 DEF OneLane
  <2>9. code' = code
    BY <2>1
  <2> QED
    BY <2>5, <2>6, <2>7, <2>8, <2>9 DEF OneLane
<1>2. ASSUME Good, Good', OneLane, LanesDone PROVE OneLane'
  <2>1. /\ pc = "lanes" /\ pc' = "term" /\ UNCHANGED <<code, pending>>
        /\ IF takenLane = Null THEN takenLane' = Len(lanes) + 1 /\ lanes' = Append(lanes, EmptyLane)
           ELSE UNCHANGED <<lanes, takenLane>>
    BY <1>2, LanesDoneEffect
  <2>2. OpenPending' = OpenPending
    BY <2>1 DEF OpenPending
  <2>3. OpenLanes' = OpenLanes /\ \A i \in OpenLanes : lanes'[i] = lanes[i]
    <3>1. CASE takenLane = Null
      <4>1. EmptyLane \in Lane
        BY DEF EmptyLane, Lane, Null
      <4>2. /\ DOMAIN lanes' = 1 .. Len(lanes) + 1 /\ takenLane' = Len(lanes) + 1
            /\ \A i \in 1 .. Len(lanes) : lanes'[i] = lanes[i]
        BY <1>2, <2>1, <3>1, <4>1, LanesExtended
      <4> QED
        BY <1>2, <2>1, <3>1, <4>2, SizeFacts DEF OpenLanes, Null
    <3>2. CASE takenLane # Null
      BY <2>1, <3>2 DEF OpenLanes
    <3> QED
      BY <3>1, <3>2
  <2> QED
    BY <1>2, <2>1, <2>2, <2>3 DEF OneLane
<1> QED
  BY <1>1, <1>2

\* The steps that end a block: the lane that arrived there is replaced, and
\* every trampoline that is made without a jump has a lane of its own.
LEMMA TermOneLane ==
  ASSUME Good, Good', OneLane, pc = "term", pc' = "block", pending' = pending,
         Len(code') >= Len(code), Len(lanes') >= Len(lanes),
         \A b \in 1 .. Len(code) : code'[b] = <<>> <=> code[b] = <<>>,
         NEW New, New = {i \in DOMAIN lanes' : (i = takenLane \/ i > Len(lanes)) /\ lanes'[i].current # Null},
         \A b \in Len(code) + 1 .. Len(code') : code'[b] = <<>> => \E i \in New : lanes'[i].current = b,
         \A i \in New : lanes'[i].current > Len(code) /\ code'[lanes'[i].current] = <<>>,
         \A i, j \in New : lanes'[i].current = lanes'[j].current => i = j,
         \A i \in 1 .. Len(lanes) : i # takenLane => lanes'[i] = lanes[i]
  PROVE  OneLane'
<1>1. pending = <<>> /\ OpenPending = {} /\ OpenPending' = {}
  BY DEF OpenPending, Good, PassInvariant, LanesLeadAhead
<1>2. /\ Len(code) \in Nat /\ Len(code') \in Nat /\ Len(lanes) \in Nat /\ Len(lanes') \in Nat
      /\ N \in Nat /\ N <= Len(code)
      /\ DOMAIN lanes = 1 .. Len(lanes) /\ DOMAIN lanes' = 1 .. Len(lanes')
  BY SizeFacts
<1>3. \A i \in OpenLanes : /\ i # takenLane /\ i \in 1 .. Len(lanes) /\ lanes'[i] = lanes[i]
                           /\ lanes[i].current \in N + 1 .. Len(code)
  BY OpenFacts
<1>4. OpenLanes' = OpenLanes \cup New
  <2>1. \A i \in OpenLanes \cup New : i \in OpenLanes'
    BY <1>2, <1>3 DEF OpenLanes
  <2>2. \A i \in OpenLanes' : i \in OpenLanes \cup New
    <3>1. ASSUME NEW i \in OpenLanes', i \notin New PROVE i \in OpenLanes
      <4>1. i \in 1 .. Len(lanes') /\ lanes'[i].current # Null /\ i # takenLane /\ ~(i > Len(lanes))
        BY <1>2, <3>1 DEF OpenLanes
      <4>2. i \in 1 .. Len(lanes) /\ lanes'[i] = lanes[i]
        BY <1>2, <4>1
      <4> QED
        BY <1>2, <4>1, <4>2 DEF OpenLanes
    <3> QED
      BY <3>1
  <2> QED
    BY <2>1, <2>2
<1>5. ASSUME NEW b \in N + 1 .. Len(code'), code'[b] = <<>>
      PROVE  \E i \in OpenLanes' : lanes'[i].current = b
  <2>1. CASE b \in Len(code) + 1 .. Len(code')
    BY <1>4, <1>5, <2>1
  <2>2. CASE b \in N + 1 .. Len(code)
    <3>1. code[b] = <<>>
      BY <1>2, <1>5, <2>2
    <3> QED
      BY <1>1, <1>3, <1>4, <2>2, <3>1 DEF OneLane
  <2> QED
    BY <1>2, <2>1, <2>2
<1>6. \A i \in OpenLanes' : code'[lanes'[i].current] = <<>>
  <2>1. \A i \in OpenLanes : code[lanes[i].current] = <<>> /\ lanes[i].current \in 1 .. Len(code)
    BY <1>2, <1>3 DEF OneLane
  <2> QED
    BY <1>3, <1>4, <2>1
<1>7. \A i, j \in OpenLanes' : lanes'[i].current = lanes'[j].current => i = j
  <2>1. \A i \in OpenLanes, j \in New : lanes'[i].current # lanes'[j].current
    BY <1>2, <1>3
  <2>2. \A i, j \in OpenLanes : lanes'[i].current = lanes'[j].current => i = j
    BY <1>3 DEF OneLane
  <2> QED
    BY <1>4, <2>1, <2>2
<1> QED
  BY <1>1, <1>5, <1>6, <1>7 DEF OneLane

\* The block at hand is empty neither before nor after its end is replaced.
LEMMA TermNonEmpty ==
  ASSUME Good, pc = "term", NEW x \in Seq(Instr), x # <<>>,
         \A b \in 1 .. Len(code) : code'[b] = IF b = mbb THEN x ELSE code[b]
  PROVE  \A b \in 1 .. Len(code) : code'[b] = <<>> <=> code[b] = <<>>
BY AtTerm DEF Good

LEMMA EndsOfBlock ==
  ASSUME Good, pc = "term"
  PROVE  /\ \A i \in Instr : /\ Append(Front(code[mbb]), i) \in Seq(Instr)
                             /\ Append(Front(code[mbb]), i) # <<>>
                             /\ Append(code[mbb], i) \in Seq(Instr) /\ Append(code[mbb], i) # <<>>
         /\ \A i, j, k \in Instr : /\ Front(code[mbb]) \o <<i, j, k>> \in Seq(Instr)
                                   /\ Front(code[mbb]) \o <<i, j, k>> # <<>>
<1>1. code[mbb] \in Seq(Instr) /\ Front(code[mbb]) \in Seq(Instr)
  BY AtTerm, FrontFacts DEF Good
<1> DEFINE f == Front(code[mbb])
<1> HIDE DEF f
<1>2. ASSUME NEW i \in Instr
      PROVE  Append(f, i) \in Seq(Instr) /\ Append(f, i) # <<>> /\ Append(code[mbb], i) \in Seq(Instr) /\ Append(code[mbb], i) # <<>>
  BY <1>1 DEF f
<1>3. ASSUME NEW i \in Instr, NEW j \in Instr, NEW k \in Instr
      PROVE  f \o <<i, j, k>> \in Seq(Instr) /\ f \o <<i, j, k>> # <<>>
  <2> DEFINE v == <<i, j, k>>
  <2>1. v \in Seq(Instr) /\ Len(v) = 3
    OBVIOUS
  <2> HIDE DEF v
  <2>2. f \in Seq(Instr) /\ Len(f) \in Nat
    BY <1>1 DEF f
  <2>3. f \o v \in Seq(Instr) /\ Len(f \o v) = Len(f) + Len(v)
    BY <2>1, <2>2, ConcatFacts
  <2>4. f \o v # <<>>
    BY <2>1, <2>2, <2>3
  <2> QED
    BY <2>3, <2>4 DEF v
<1> QED
  BY <1>2, <1>3 DEF f

LEMMA UnconditionalOneLane == Good /\ Good' /\ OneLane /\ ReplaceUnconditionalJump => OneLane'
<1> SUFFICES ASSUME Good, Good', OneLane, ReplaceUnconditionalJump PROVE OneLane'
  OBVIOUS
<1> DEFINE z == Len(code) + 1
<1>1. PICK dst \in last.to :
        /\ pc = "term" /\ pc' = "block" /\ pending' = pending
        /\ Len(code') = z
        /\ \A b \in 1 .. Len(code) : code'[b] = IF b = mbb THEN Append(Front(code[mbb]), Lea(z)) ELSE code[b]
        /\ IF dst \in processed
           THEN code'[z] = <<Jmp(dst)>> /\ lanes' = UpdateLane(DeadLane)
           ELSE code'[z] = <<>> /\ lanes' = UpdateLane([current |-> z, dest |-> dst, taken |-> FALSE])
  BY UnconditionalEffect DEF TermUnchanged
<1>2. z \in Nat /\ z # Null /\ z > Len(code) /\ Len(code) \in Nat /\ Len(code) + 1 .. z = {z} /\ Lea(z) \in Instr
  BY SizeFacts, InstrType DEF Null
<1>3. last \in Instr /\ dst \in Nat
  BY <1>1, AtTerm DEF Good, SourceInstr, Instr
<1> DEFINE x == Append(Front(code[mbb]), Lea(z))
<1>4. \A b \in 1 .. Len(code) : code'[b] = <<>> <=> code[b] = <<>>
  <2>1. x \in Seq(Instr) /\ x # <<>>
    BY <1>1, <1>2, EndsOfBlock
  <2>2. \A b \in 1 .. Len(code) : code'[b] = IF b = mbb THEN x ELSE code[b]
    BY <1>1
  <2> HIDE DEF x, z
  <2> QED
    BY <1>1, <2>1, <2>2, TermNonEmpty
<1> DEFINE l == IF dst \in processed THEN DeadLane ELSE [current |-> z, dest |-> dst, taken |-> FALSE]
           New == {i \in DOMAIN lanes' : (i = takenLane \/ i > Len(lanes)) /\ lanes'[i].current # Null}
<1>5. l \in Lane /\ l.current = IF dst \in processed THEN Null ELSE z
  BY <1>2, <1>3 DEF DeadLane, Lane, Null
<1> HIDE DEF z
<1>6. /\ takenLane \in 1 .. Len(lanes) /\ Len(lanes') = Len(lanes) /\ DOMAIN lanes' = 1 .. Len(lanes)
      /\ \A i \in 1 .. Len(lanes) : lanes'[i] = IF i = takenLane THEN l ELSE lanes[i]
  <2>1. lanes' = UpdateLane(l)
    BY <1>1
  <2> HIDE DEF l
  <2> QED
    BY <1>1, <1>5, <2>1, LaneReplaced
<1> HIDE DEF l
<1>7. New = IF dst \in processed THEN {} ELSE {takenLane}
  BY <1>2, <1>5, <1>6, SizeFacts
<1>8. dst \in processed => code'[z] # <<>>
  BY <1>1
<1> HIDE DEF New
<1>9. \A b \in Len(code) + 1 .. Len(code') : code'[b] = <<>> => \E i \in New : lanes'[i].current = b
  BY <1>1, <1>2, <1>5, <1>6, <1>7, <1>8
<1>10. \A i \in New : lanes'[i].current > Len(code) /\ code'[lanes'[i].current] = <<>>
  BY <1>1, <1>2, <1>5, <1>6, <1>7
<1>11. \A i, j \in New : lanes'[i].current = lanes'[j].current => i = j
  BY <1>7
<1>12. Len(code') >= Len(code) /\ Len(lanes') >= Len(lanes)
  BY <1>1, <1>2, <1>6, SizeFacts
<1> QED
  BY <1>1, <1>4, <1>6, <1>9, <1>10, <1>11, <1>12, TermOneLane DEF New

LEMMA NoBranchOneLane == Good /\ Good' /\ OneLane /\ ReplaceNoBranchBlock => OneLane'
<1> SUFFICES ASSUME Good, Good', OneLane, ReplaceNoBranchBlock PROVE OneLane'
  OBVIOUS
<1> DEFINE z == Len(code) + 1
           falls == originalFallThrough # Null
           x == IF falls THEN Append(code[mbb], Lea(z)) ELSE code[mbb]
           l == IF falls THEN [current |-> z, dest |-> Null, taken |-> TRUE] ELSE DeadLane
           New == {i \in DOMAIN lanes' : (i = takenLane \/ i > Len(lanes)) /\ lanes'[i].current # Null}
<1>1. /\ pc = "term" /\ pc' = "block" /\ pending' = pending /\ lanes' = UpdateLane(l)
      /\ Len(code') = IF falls THEN z ELSE Len(code)
      /\ falls => code'[z] = <<>>
      /\ \A b \in 1 .. Len(code) : code'[b] = IF b = mbb THEN x ELSE code[b]
  BY NoBranchEffect DEF TermUnchanged
<1>2. z \in Nat /\ z # Null /\ z > Len(code) /\ Len(code) \in Nat /\ Len(code) + 1 .. z = {z} /\ Lea(z) \in Instr
  BY SizeFacts, InstrType DEF Null
<1>3. \A b \in 1 .. Len(code) : code'[b] = <<>> <=> code[b] = <<>>
  <2>1. x \in Seq(Instr) /\ x # <<>>
    BY <1>1, <1>2, EndsOfBlock, AtTerm DEF Good
  <2> HIDE DEF x
  <2> QED
    BY <1>1, <2>1, TermNonEmpty
<1>5. l \in Lane /\ l.current = IF falls THEN z ELSE Null
  BY <1>2 DEF DeadLane, Lane, Null
<1> HIDE DEF z, l, falls
<1>6. /\ takenLane \in 1 .. Len(lanes) /\ Len(lanes') = Len(lanes) /\ DOMAIN lanes' = 1 .. Len(lanes)
      /\ \A i \in 1 .. Len(lanes) : lanes'[i] = IF i = takenLane THEN l ELSE lanes[i]
  BY <1>1, <1>5, LaneReplaced
<1>7. New = IF falls THEN {takenLane} ELSE {}
  BY <1>2, <1>5, <1>6, SizeFacts
<1> HIDE DEF New
<1>8. Len(code) + 1 .. Len(code') = IF falls THEN {z} ELSE {}
  <2>1. Len(code) + 1 .. Len(code) = {}
    BY <1>2
  <2> QED
    BY <1>1, <1>2, <2>1
<1>9. \A b \in Len(code) + 1 .. Len(code') : code'[b] = <<>> => \E i \in New : lanes'[i].current = b
  BY <1>5, <1>6, <1>7, <1>8
<1>10. \A i \in New : lanes'[i].current > Len(code) /\ code'[lanes'[i].current] = <<>>
  BY <1>1, <1>2, <1>5, <1>6, <1>7
<1>11. \A i, j \in New : lanes'[i].current = lanes'[j].current => i = j
  BY <1>7
<1>12. Len(code') >= Len(code) /\ Len(lanes') >= Len(lanes)
  BY <1>1, <1>2, <1>6, SizeFacts
<1>13. \A i \in 1 .. Len(lanes) : i # takenLane => lanes'[i] = lanes[i]
  BY <1>6
<1> QED
  BY <1>1, <1>3, <1>9, <1>10, <1>11, <1>12, <1>13, TermOneLane DEF New

LEMMA IndirectOneLane == Good /\ Good' /\ OneLane /\ ReplaceIndirectJump => OneLane'
<1> SUFFICES ASSUME Good, Good', OneLane, ReplaceIndirectJump PROVE OneLane'
  OBVIOUS
<1> DEFINE New == {i \in DOMAIN lanes' : (i = takenLane \/ i > Len(lanes)) /\ lanes'[i].current # Null}
<1>1. pc = "term" /\ pc' = "block" /\ pending' = pending /\ code' = code /\ lanes' = UpdateLane(DeadLane)
  BY IndirectEffect DEF TermUnchanged
<1>2. DeadLane \in Lane /\ DeadLane.current = Null
  BY DEF DeadLane, Lane, Null
<1>3. /\ takenLane \in 1 .. Len(lanes) /\ Len(lanes') = Len(lanes) /\ DOMAIN lanes' = 1 .. Len(lanes)
      /\ \A i \in 1 .. Len(lanes) : lanes'[i] = IF i = takenLane THEN DeadLane ELSE lanes[i]
  BY <1>1, <1>2, LaneReplaced
<1>4. New = {}
  BY <1>2, <1>3, SizeFacts
<1>5. Len(code) \in Nat /\ Len(lanes) \in Nat /\ Len(code) + 1 .. Len(code') = {}
  BY <1>1, SizeFacts
<1> HIDE DEF New
<1>6. Len(code') >= Len(code) /\ Len(lanes') >= Len(lanes)
  BY <1>1, <1>3, <1>5
<1>7. \A b \in Len(code) + 1 .. Len(code') : code'[b] = <<>> => \E i \in New : lanes'[i].current = b
  BY <1>5
<1>8. /\ \A i \in New : lanes'[i].current > Len(code) /\ code'[lanes'[i].current] = <<>>
      /\ \A i, j \in New : lanes'[i].current = lanes'[j].current => i = j
  BY <1>4
<1>9. /\ \A i \in 1 .. Len(lanes) : i # takenLane => lanes'[i] = lanes[i]
      /\ \A b \in 1 .. Len(code) : code'[b] = <<>> <=> code[b] = <<>>
  BY <1>1, <1>3
<1> QED
  BY <1>1, <1>6, <1>7, <1>8, <1>9, TermOneLane DEF New

LEMMA ConditionalOneLane == Good /\ Good' /\ OneLane /\ ReplaceConditionalBranch => OneLane'
<1> SUFFICES ASSUME Good, Good', OneLane, ReplaceConditionalBranch PROVE OneLane'
  OBVIOUS
<1> DEFINE z == Len(code) + 1
           y == Len(code) + 2
           x == Front(code[mbb]) \o <<Lea(z), LeaTmp(y), CMov(last.cc)>>
           fall == [current |-> z, dest |-> Null, taken |-> TRUE]
           New == {i \in DOMAIN lanes' : (i = takenLane \/ i > Len(lanes)) /\ lanes'[i].current # Null}
<1>0. /\ pc = "term" /\ pc' = "block" /\ pending' = pending
      /\ Len(code') = y /\ code'[z] = <<>>
      /\ \A b \in 1 .. Len(code) : code'[b] = IF b = mbb THEN x ELSE code[b]
  BY ConditionalEffect DEF TermUnchanged
<1>1. PICK dst \in last.to :
        LET jump == [current |-> y, dest |-> dst, taken |-> FALSE]
        IN IF dst \in processed
           THEN code'[y] = <<Jmp(dst)>> /\ lanes' = UpdateLane(fall)
           ELSE code'[y] = <<>> /\ lanes' = Append(UpdateLane(fall), jump)
  BY ConditionalEffect
<1> DEFINE jump == [current |-> y, dest |-> dst, taken |-> FALSE]
           back == dst \in processed
<1>2. /\ z \in Nat /\ z # Null /\ z > Len(code) /\ y \in Nat /\ y > z /\ y # Null
      /\ Len(code) \in Nat /\ Len(code) + 1 .. y = {z, y}
  BY SizeFacts DEF Null
<1>3. last \in Instr /\ dst \in Nat /\ last.cc \in Conds \cup {NoCond}
  BY <1>0, <1>1, AtTerm DEF Good, SourceInstr, Instr
<1>4. \A b \in 1 .. Len(code) : code'[b] = <<>> <=> code[b] = <<>>
  <2>1. x \in Seq(Instr) /\ x # <<>>
    BY <1>0, <1>2, <1>3, InstrType, EndsOfBlock
  <2> HIDE DEF x
  <2> QED
    BY <1>0, <2>1, TermNonEmpty
<1>5. fall \in Lane /\ fall.current = z /\ jump \in Lane /\ jump.current = y
  BY <1>2, <1>3 DEF Lane, Null
<1>6. /\ back => code'[y] # <<>> /\ lanes' = UpdateLane(fall)
      /\ ~back => code'[y] = <<>> /\ lanes' = Append(UpdateLane(fall), jump)
  <2>1. <<Jmp(dst)>> # <<>>
    OBVIOUS
  <2> QED
    BY <1>1, <2>1
<1> HIDE DEF z, y, fall, jump, back
<1>7. /\ takenLane \in 1 .. Len(lanes) /\ Len(lanes) \in Nat
      /\ Len(lanes') = IF back THEN Len(lanes) ELSE Len(lanes) + 1
      /\ DOMAIN lanes' = 1 .. Len(lanes')
      /\ \A i \in 1 .. Len(lanes) : lanes'[i] = IF i = takenLane THEN fall ELSE lanes[i]
      /\ ~back => lanes'[Len(lanes) + 1] = jump
  <2> DEFINE u == UpdateLane(fall)
  <2>1. /\ takenLane \in 1 .. Len(lanes) /\ u \in Seq(Lane) /\ Len(u) = Len(lanes)
        /\ \A i \in 1 .. Len(lanes) : u[i] = IF i = takenLane THEN fall ELSE lanes[i]
    BY <1>0, <1>5, LaneReplaced
  <2>2. (back => lanes' = u) /\ (~back => lanes' = Append(u, jump))
    BY <1>6
  <2> HIDE DEF u
  <2>3. /\ Len(Append(u, jump)) = Len(lanes) + 1 /\ Append(u, jump)[Len(lanes) + 1] = jump
        /\ \A i \in 1 .. Len(lanes) : Append(u, jump)[i] = u[i]
    BY <1>5, <2>1, ExtendFacts
  <2>4. Len(lanes) \in Nat /\ DOMAIN lanes' = 1 .. Len(lanes')
    BY SizeFacts
  <2> QED
    BY <2>1, <2>2, <2>3, <2>4
<1>8. New = {takenLane} \cup (IF back THEN {} ELSE {Len(lanes) + 1})
  <2>1. \A i \in New : i = takenLane \/ (~back /\ i = Len(lanes) + 1)
    BY <1>7
  <2>2. takenLane \in New /\ (~back => Len(lanes) + 1 \in New)
    BY <1>2, <1>5, <1>7
  <2> HIDE DEF New
  <2> QED
    BY <2>1, <2>2
<1> HIDE DEF New
<1>9. lanes'[takenLane].current = z /\ (~back => lanes'[Len(lanes) + 1].current = y)
  BY <1>5, <1>7
<1>10. \A b \in Len(code) + 1 .. Len(code') : code'[b] = <<>> => \E i \in New : lanes'[i].current = b
  BY <1>0, <1>2, <1>6, <1>8, <1>9
<1>11. \A i \in New : lanes'[i].current > Len(code) /\ code'[lanes'[i].current] = <<>>
  BY <1>0, <1>2, <1>6, <1>8, <1>9
<1>12. \A i, j \in New : lanes'[i].current = lanes'[j].current => i = j
  BY <1>2, <1>8, <1>9
<1>13. Len(code') >= Len(code) /\ Len(lanes') >= Len(lanes)
  BY <1>0, <1>2, <1>7
<1>14. \A i \in 1 .. Len(lanes) : i # takenLane => lanes'[i] = lanes[i]
  BY <1>7
<1> QED
  BY <1>0, <1>4, <1>10, <1>11, <1>12, <1>13, <1>14, TermOneLane DEF New

LEMMA SplitOneLane == Good /\ Good' /\ OneLane /\ SplitJump => OneLane'
<1> SUFFICES ASSUME Good, Good', OneLane, SplitJump PROVE OneLane'
  OBVIOUS
<1>1. /\ pc = "term" /\ pc' = "term" /\ Len(code[mbb]) > 1
      /\ UNCHANGED <<lanes, pending, takenLane>>
      /\ Len(code') = Len(code) + 1 /\ code'[Len(code) + 1] = <<last>>
      /\ \A b \in 1 .. Len(code) : code'[b] = IF b = mbb THEN Front(code[mbb]) ELSE code[b]
  BY SplitEffect
<1>2. OpenLanes' = OpenLanes /\ OpenPending' = OpenPending
  BY <1>1 DEF OpenLanes, OpenPending
<1>3. \A b \in 1 .. Len(code) : code'[b] = <<>> <=> code[b] = <<>>
  <2>1. code[mbb] \in Seq(Instr) /\ code[mbb] # <<>>
    BY <1>1, AtTerm DEF Good
  <2>2. Front(code[mbb]) \in Seq(Instr) /\ Front(code[mbb]) # <<>>
    BY <1>1, <2>1, FrontFacts
  <2> QED
    BY <1>1, <2>2, TermNonEmpty
<1>4. ASSUME NEW b \in N + 1 .. Len(code'), code'[b] = <<>> PROVE b \in N + 1 .. Len(code) /\ code[b] = <<>>
  <2>0. code'[Len(code) + 1] # <<>>
    BY <1>1
  <2>1. b # Len(code) + 1
    BY <1>4, <2>0
  <2>2. b \in N + 1 .. Len(code) /\ b \in 1 .. Len(code)
    BY <1>1, <2>1, SizeFacts
  <2> QED
    BY <1>3, <1>4, <2>2
<1>5. /\ \A i \in OpenLanes : lanes[i].current \in 1 .. Len(code)
      /\ \A i \in OpenPending : pending[i].current \in 1 .. Len(code)
  BY OpenFacts, SizeFacts
<1>6. /\ \A i \in OpenLanes : code'[lanes[i].current] = <<>>
      /\ \A i \in OpenPending : code'[pending[i].current] = <<>>
  BY <1>3, <1>5 DEF OneLane
<1>7. lanes' = lanes /\ pending' = pending
  BY <1>1
<1> QED
  BY <1>2, <1>4, <1>6, <1>7 DEF OneLane

LEMMA FinishOneLane == Good /\ Good' /\ OneLane /\ Finish => OneLane'
<1> SUFFICES ASSUME Good, Good', OneLane, Finish PROVE OneLane'
  OBVIOUS
<1>1. /\ pc = "block" /\ pc' = "done" /\ lanes' = lanes /\ pending' = pending
      /\ Len(code') = Len(code) + 1 /\ code'[Len(code) + 1] = <<Jmp(1)>>
      /\ \A b \in 1 .. Len(code) : code'[b] = code[b]
  BY FinishEffect
<1>2. OpenLanes' = OpenLanes /\ OpenPending' = OpenPending
  BY <1>1 DEF OpenLanes, OpenPending
<1>4. ASSUME NEW b \in N + 1 .. Len(code'), code'[b] = <<>> PROVE b \in N + 1 .. Len(code) /\ code[b] = <<>>
  <2>0. code'[Len(code) + 1] # <<>>
    BY <1>1
  <2>1. b # Len(code) + 1
    BY <1>4, <2>0
  <2>2. b \in N + 1 .. Len(code) /\ b \in 1 .. Len(code)
    BY <1>1, <2>1, SizeFacts
  <2> QED
    BY <1>1, <1>4, <2>2
<1>5. /\ \A i \in OpenLanes : lanes[i].current \in 1 .. Len(code)
      /\ \A i \in OpenPending : pending[i].current \in 1 .. Len(code)
  BY OpenFacts, SizeFacts
<1>6. /\ \A i \in OpenLanes : code'[lanes[i].current] = <<>>
      /\ \A i \in OpenPending : code'[pending[i].current] = <<>>
  BY <1>1, <1>5 DEF OneLane
<1> QED
  BY <1>1, <1>2, <1>4, <1>6 DEF OneLane

LEMMA OneLaneStep == Good /\ OneLane /\ [Next]_vars => Good' /\ OneLane'
<1> SUFFICES ASSUME Good, OneLane, [Next]_vars PROVE Good' /\ OneLane'
  OBVIOUS
<1>1. Good'
  BY StepCases
<1>2. CASE UNCHANGED vars
  BY <1>1, <1>2 DEF OneLane, OpenLanes, OpenPending, vars
<1> QED
  BY <1>1, <1>2, StepCases, NextBlockOneLane, ArrivesOneLane, SkipsOneLane, OtherLaneOneLane, SplitOneLane,
     UnconditionalOneLane, ConditionalOneLane, NoBranchOneLane, IndirectOneLane, FinishOneLane

-----------------------------------------------------------------------------
(***************************************************************************)
(* The layout.  Fake blocks stay what they are and no other block becomes  *)
(* one; a block that ends by loading R15 is followed by its fake block.    *)
(***************************************************************************)
Fake(b) == code[b] = <<JmpTarget>>
FakesKept == \A b \in 1 .. Len(code) : Fake(b)' <=> Fake(b)
Loads(s) == s # <<>> /\ Last(s).op \in {"lea", "cmov"}
EndsInLoad(b) == Loads(code[b])
LoadsKept == \A b \in 1 .. Len(code) : EndsInLoad(b)' => EndsInLoad(b)

LEMMA FakeEnd == \A b : Fake(b) => code[b] # <<>> /\ Last(code[b]).op = "jmpreg"
BY DEF Fake, JmpTarget, Plain, Last

\* The block at hand is not a fake block, and ends in an instruction of the
\* source.
LEMMA AtHand ==
  ASSUME Good, Visiting
  PROVE  /\ mbb \in 1 .. Len(code) /\ code[mbb] \in Seq(Instr) /\ code[mbb] # <<>> /\ ~Fake(mbb)
         /\ \A i \in 1 .. Len(code[mbb]) : SourceInstr(code[mbb][i]) /\ code[mbb][i].op # "tailcc"
         /\ Last(code[mbb]) = code[mbb][Len(code[mbb])] /\ Len(code[mbb]) \in Nat /\ Len(code[mbb]) >= 1
         /\ SourceInstr(Last(code[mbb])) /\ Last(code[mbb]).op \notin {"stop", "tailcc"}
<1>1. mbb \in 1 .. Len(code)
  BY GoodFacts DEF Good, TypeOK, Visiting, Null
<1>2. code[mbb] \in Seq(Instr) /\ code[mbb] # <<>>
  BY <1>1, GoodFacts DEF Good, PassInvariant, AtBlock
<1>3. Last(code[mbb]) = code[mbb][Len(code[mbb])] /\ Len(code[mbb]) \in Nat /\ Len(code[mbb]) >= 1
  BY <1>2, FrontFacts
<1>4. DOMAIN code[mbb] = 1 .. Len(code[mbb])
  BY <1>2
<1>5. \A i \in 1 .. Len(code[mbb]) : SourceInstr(code[mbb][i]) /\ code[mbb][i].op # "tailcc"
  BY <1>4 DEF Good, PassInvariant, AtBlock
<1>6. SourceInstr(Last(code[mbb])) /\ Last(code[mbb]).op \notin {"stop", "tailcc"}
  BY <1>3, <1>5 DEF Good, PassInvariant, AtBlock
<1>7. ~Fake(mbb)
  BY <1>6, FakeEnd DEF SourceInstr, SourceOps
<1> QED
  BY <1>1, <1>2, <1>3, <1>5, <1>6, <1>7

LEMMA NextBlockKept == Good /\ NextBlock => FakesKept /\ LoadsKept
BY NextBlockEffect DEF FakesKept, LoadsKept, Fake, EndsInLoad, Loads

LEMMA ArrivesKept == Good /\ OneLane /\ LaneArrives => FakesKept /\ LoadsKept
<1> SUFFICES ASSUME Good, OneLane, LaneArrives PROVE FakesKept /\ LoadsKept
  OBVIOUS
<1>1. /\ pc = "lanes" /\ pending # <<>> /\ pending' = Tail(pending)
      /\ \A b \in 1 .. Len(code) :
           code'[b] = IF b = lane.current THEN Append(code[b], Jmp(mbb)) ELSE code[b]
  BY ArrivesEffect
<1>2. lane.current # Null => code[lane.current] = <<>>
  BY <1>1, PendingOpen DEF PendingShift
<1>3. Visiting /\ mbb \in Nat
  BY <1>1, LaneFacts DEF Good
<1> DEFINE x == Append(<<>>, Jmp(mbb))
<1>4. x # <<>> /\ Last(x) = Jmp(mbb)
  <2> DEFINE e == <<>>
             j == Jmp(mbb)
  <2>1. e \in Seq(Instr) /\ j \in Instr
    BY <1>3, InstrType
  <2> HIDE DEF e, j
  <2>2. Append(e, j) # <<>> /\ Last(Append(e, j)) = j
    BY <2>1, AppendOne
  <2> QED
    BY <2>2 DEF e, j
<1>5. ASSUME NEW b \in 1 .. Len(code) PROVE code'[b] = code[b] \/ (code[b] = <<>> /\ code'[b] = x)
  <2>1. CASE b = lane.current
    <3>1. code[b] = <<>>
      BY <1>2, <2>1, SizeFacts DEF Null
    <3>2. code'[b] = Append(code[b], Jmp(mbb))
      BY <1>1, <2>1
    <3> QED
      BY <3>1, <3>2
  <2>2. CASE b # lane.current
    BY <1>1, <2>2
  <2> QED
    BY <2>1, <2>2
<1> HIDE DEF x
<1>6. Jmp(mbb).op = "jmp"
  BY DEF Jmp
<1>7. ASSUME NEW b \in 1 .. Len(code) PROVE (Fake(b)' <=> Fake(b)) /\ (EndsInLoad(b)' => EndsInLoad(b))
  <2>1. CASE code'[b] = code[b]
    BY <2>1 DEF Fake, EndsInLoad, Loads
  <2>2. CASE code[b] = <<>> /\ code'[b] = x
    <3>1. ~Fake(b)
      BY <2>2, FakeEnd
    <3>2. x # <<JmpTarget>>
      BY <1>4, <1>6 DEF JmpTarget, Plain, Last
    <3> QED
      BY <1>4, <1>6, <2>2, <3>1, <3>2 DEF Fake, EndsInLoad, Loads
  <2> QED
    BY <1>5, <2>1, <2>2
<1> QED
  BY <1>7 DEF FakesKept, LoadsKept

LEMMA SkipsKept == Good /\ OneLane /\ LaneSkips => FakesKept /\ LoadsKept
<1> SUFFICES ASSUME Good, OneLane, LaneSkips PROVE FakesKept /\ LoadsKept
  OBVIOUS
<1> DEFINE z == Len(code) + 1
           x == <<>> \o Dummies \o <<Lea(z), Jmp(fakeBlock)>>
<1>1. /\ pc = "lanes" /\ pending # <<>> /\ pending' = Tail(pending) /\ lane.current # Null
      /\ \A b \in 1 .. Len(code) :
           code'[b] = IF b = lane.current THEN code[b] \o Dummies \o <<Lea(z), Jmp(fakeBlock)>> ELSE code[b]
  BY SkipsEffect
<1>2. code[lane.current] = <<>>
  BY <1>1, PendingOpen DEF PendingShift
<1>3. z \in Nat /\ fakeBlock \in Nat
  BY SizeFacts DEF Good, TypeOK
<1>4. x # <<>> /\ Last(x) = Jmp(fakeBlock)
  BY <1>1, <1>3, SkipCode
<1>5. ASSUME NEW b \in 1 .. Len(code) PROVE code'[b] = code[b] \/ (code[b] = <<>> /\ code'[b] = x)
  BY <1>1, <1>2
<1> HIDE DEF x
<1>6. Jmp(fakeBlock).op = "jmp"
  BY DEF Jmp
<1>7. ASSUME NEW b \in 1 .. Len(code) PROVE (Fake(b)' <=> Fake(b)) /\ (EndsInLoad(b)' => EndsInLoad(b))
  <2>1. CASE code'[b] = code[b]
    BY <2>1 DEF Fake, EndsInLoad, Loads
  <2>2. CASE code[b] = <<>> /\ code'[b] = x
    <3>1. ~Fake(b)
      BY <2>2, FakeEnd
    <3>2. x # <<JmpTarget>>
      BY <1>4, <1>6 DEF JmpTarget, Plain, Last
    <3> QED
      BY <1>4, <1>6, <2>2, <3>1, <3>2 DEF Fake, EndsInLoad, Loads
  <2> QED
    BY <1>5, <2>1, <2>2
<1> QED
  BY <1>7 DEF FakesKept, LoadsKept

\* A step that only changes the block at hand, and does not make it end in
\* `jmp *r15'.
LEMMA TermKept ==
  ASSUME Good, Visiting, NEW x, x # <<>>, Last(x).op # "jmpreg",
         \A b \in 1 .. Len(code) : code'[b] = IF b = mbb THEN x ELSE code[b]
  PROVE  /\ FakesKept
         /\ \A b \in 1 .. Len(code) : EndsInLoad(b)' => EndsInLoad(b) \/ b = mbb
<1>1. ~Fake(mbb)
  BY AtHand
<1>2. x # <<JmpTarget>>
  BY DEF JmpTarget, Plain, Last
<1> QED
  BY <1>1, <1>2 DEF FakesKept, Fake, EndsInLoad, Loads

EndsAtN == \A k \in 1 .. Len(after) : after[k] = N => k = Len(after)
FallThroughAhead == Visiting /\ originalFallThrough # Null => after # <<>>
LeaBeforeFake ==
  \A p \in 1 .. Len(before) : EndsInLoad(before[p]) => p < Len(before) /\ Fake(before[p + 1])
FakeBehind ==
  Visiting /\ fakeBlock # Null =>
    /\ Fake(fakeBlock)
    /\ \A p \in 1 .. Len(before) : before[p] = mbb => p < Len(before) /\ before[p + 1] = fakeBlock
PlacedOrAhead == \A p \in 1 .. Len(before) : before[p] \notin Range(after)
LayoutOK ==
  /\ EndsAtN /\ FallThroughAhead /\ LeaBeforeFake /\ FakeBehind /\ PlacedOrAhead
  /\ pc = "done" => after = <<>>

LEMMA ListFacts ==
  ASSUME Good
  PROVE  /\ Len(before) \in Nat /\ Len(after) \in Nat /\ before \in Seq(Blocks) /\ after \in Seq(Blocks)
         /\ \A p \in 1 .. Len(before) : before[p] \in 1 .. Len(code)
         /\ \A p \in 1 .. Len(after) : after[p] \in 1 .. Len(code) /\ after[p] \in Range(after)
<1>1. before \in Seq(Blocks) /\ after \in Seq(Blocks) /\ Blocks = 1 .. Len(code)
  BY GoodFacts
<1> QED
  BY <1>1 DEF Range

\* n blocks are placed in front of the list; none of them ends in a load.
Placed(n) ==
  /\ Len(before') = Len(before) + n
  /\ \A p \in 1 .. Len(before) : before'[p + n] = before[p]
  /\ \A p \in 1 .. n : before'[p] \in Len(code) + 1 .. Len(code') /\ ~Loads(code'[before'[p]])

\* Loads are kept, but for the block at hand, which gets one only in front of
\* its fake block.
LEMMA PlacedLayout ==
  ASSUME Good, LayoutOK, NEW n \in Nat, Placed(n), FakesKept,
         \A b \in 1 .. Len(code) :
           EndsInLoad(b)' => EndsInLoad(b) \/ (Visiting /\ fakeBlock # Null /\ b = mbb)
  PROVE  LeaBeforeFake'
<1> SUFFICES ASSUME NEW p \in 1 .. Len(before'), EndsInLoad(before[p])'
             PROVE  p < Len(before') /\ Fake(before[p + 1])'
  BY DEF LeaBeforeFake
<1>1. Len(before) \in Nat /\ \A q \in 1 .. Len(before) : before[q] \in 1 .. Len(code)
  BY ListFacts
<1>2. p > n /\ p - n \in 1 .. Len(before) /\ (p - n) + n = p
  <2>1. Loads(code'[before'[p]])
    BY DEF EndsInLoad
  <2>2. p \notin 1 .. n
    BY <2>1 DEF Placed
  <2>3. Len(before') = Len(before) + n
    BY DEF Placed
  <2> QED
    BY <1>1, <2>2, <2>3
<1> DEFINE q == p - n
<1>3. before'[p] = before[q] /\ q \in 1 .. Len(before) /\ q + n = p /\ q \in Nat
  BY <1>1, <1>2 DEF Placed
<1> HIDE DEF q
<1>4. q < Len(before) /\ Fake(before[q + 1])
  <2>1. CASE EndsInLoad(before[q])
    BY <1>3, <2>1 DEF LayoutOK, LeaBeforeFake
  <2>2. CASE Visiting /\ fakeBlock # Null /\ before[q] = mbb
    BY <1>3, <2>2 DEF LayoutOK, FakeBehind
  <2>3. EndsInLoad(before[q]) \/ (Visiting /\ fakeBlock # Null /\ before[q] = mbb)
    BY <1>1, <1>3 DEF EndsInLoad, Loads
  <2> QED
    BY <2>1, <2>2, <2>3
<1>5. q + 1 \in 1 .. Len(before) /\ p + 1 = (q + 1) + n
  BY <1>1, <1>3, <1>4
<1>6. before'[p + 1] = before[q + 1] /\ before[q + 1] \in 1 .. Len(code)
  BY <1>1, <1>5 DEF Placed
<1>7. p < Len(before')
  BY <1>1, <1>3, <1>4 DEF Placed
<1> QED
  BY <1>4, <1>6, <1>7 DEF FakesKept, Fake

\* The rest of the layout, while the block at hand stays the same.
LEMMA SameBlockLayout ==
  ASSUME Good, Good', LayoutOK, NEW n \in Nat, Placed(n), FakesKept, Visiting,
         UNCHANGED <<after, mbb, fakeBlock, originalFallThrough, fn>>
  PROVE  EndsAtN' /\ FallThroughAhead' /\ FakeBehind' /\ PlacedOrAhead'
<1>0. /\ Len(before) \in Nat /\ Len(code) \in Nat /\ \A q \in 1 .. Len(before) : before[q] \in 1 .. Len(code)
      /\ mbb \in 1 .. Len(code) /\ after' = after /\ mbb' = mbb /\ fakeBlock' = fakeBlock
      /\ \A x \in Range(after) : x \in 1 .. Len(code)
  BY ListFacts, AtHand, SizeFacts, RangeFacts DEF Blocks
<1>1. EndsAtN' /\ FallThroughAhead'
  BY DEF LayoutOK, EndsAtN, FallThroughAhead
<1>2. ASSUME NEW p \in 1 .. Len(before'), p > n
      PROVE  p - n \in 1 .. Len(before) /\ (p - n) + n = p /\ before'[p] = before[p - n]
  BY <1>0, <1>2 DEF Placed
<1>3. ASSUME NEW p \in 1 .. Len(before') PROVE before'[p] \notin Range(after)
  <2>1. CASE p > n
    BY <1>2, <2>1 DEF LayoutOK, PlacedOrAhead
  <2>2. CASE ~(p > n)
    BY <1>0, <2>2 DEF Placed
  <2> QED
    BY <2>1, <2>2
<1>4. ASSUME fakeBlock # Null PROVE Fake(fakeBlock)'
  <2>1. Fake(fakeBlock) /\ fakeBlock \in 1 .. Len(code)
    BY <1>0, <1>4 DEF LayoutOK, FakeBehind, Good, TypeOK, Null
  <2> QED
    BY <1>0, <2>1 DEF FakesKept, Fake
<1>5. ASSUME fakeBlock # Null, NEW p \in 1 .. Len(before'), before'[p] = mbb
      PROVE  p < Len(before') /\ before'[p + 1] = fakeBlock
  <2>1. p > n
    BY <1>0, <1>5 DEF Placed
  <2>2. p - n < Len(before) /\ before[(p - n) + 1] = fakeBlock
    BY <1>2, <1>5, <2>1 DEF LayoutOK, FakeBehind
  <2>3. (p - n) + 1 \in 1 .. Len(before) /\ ((p - n) + 1) + n = p + 1 /\ p - n + 1 = (p - n) + 1
    BY <1>0, <1>2, <2>1, <2>2
  <2>4. before'[p + 1] = before[(p - n) + 1]
    BY <2>3 DEF Placed
  <2> QED
    BY <1>0, <1>2, <2>1, <2>2, <2>4 DEF Placed
<1> QED
  BY <1>0, <1>1, <1>3, <1>4, <1>5 DEF FakeBehind, PlacedOrAhead

\* A block that is empty or jumps does not end in a load.
LEMMA NoLoad ==
  ASSUME NEW s, s = <<>> \/ \E t : s = <<Jmp(t)>>
  PROVE  ~Loads(s) /\ s # <<JmpTarget>>
<1>1. CASE s = <<>>
  BY <1>1 DEF Loads
<1>2. CASE \E t : s = <<Jmp(t)>>
  <2>1. PICK t : s = <<Jmp(t)>>
    BY <1>2
  <2>2. Last(s) = Jmp(t) /\ s[1] = Jmp(t)
    BY <2>1 DEF Last
  <2> QED
    BY <2>2 DEF Loads, Jmp, JmpTarget, Plain
<1> QED
  BY <1>1, <1>2

LEMMA BeforeIsNat == Good => before \in Seq(Nat) /\ Len(before) \in Nat
BY ListFacts, SizeFacts DEF Blocks

LEMMA PlacedNone == ASSUME Good, before' = before PROVE Placed(0)
BY ListFacts DEF Placed

LEMMA PlacedOne ==
  ASSUME Good, before' = <<Len(code) + 1>> \o before, Len(code') >= Len(code) + 1, Len(code') \in Nat,
         code'[Len(code) + 1] = <<>> \/ \E t : code'[Len(code) + 1] = <<Jmp(t)>>
  PROVE  Placed(1)
<1> DEFINE z == Len(code) + 1
<1>1. z \in Nat /\ before \in Seq(Nat) /\ Len(before) \in Nat /\ Len(code) \in Nat
  BY SizeFacts, BeforeIsNat
<1>2. ~Loads(code'[z])
  BY NoLoad
<1>3. z \in Len(code) + 1 .. Len(code')
  BY <1>1
<1>4. before' = <<z>> \o before
  OBVIOUS
<1>5. /\ Len(before') = Len(before) + 1 /\ before'[1] = z
      /\ \A p \in 1 .. Len(before) : before'[p + 1] = before[p]
  <2> HIDE DEF z
  <2> QED
    BY <1>1, <1>4, ConsFacts
<1>6. ~Loads(code'[before'[1]])
  BY <1>2, <1>5
<1>7. \A p \in 1 .. 1 : p = 1
  OBVIOUS
<1> QED
  BY <1>3, <1>5, <1>6, <1>7 DEF Placed

LEMMA PlacedTwo ==
  ASSUME Good, before' = <<Len(code) + 2, Len(code) + 1>> \o before, Len(code') = Len(code) + 2,
         code'[Len(code) + 1] = <<>>,
         code'[Len(code) + 2] = <<>> \/ \E t : code'[Len(code) + 2] = <<Jmp(t)>>
  PROVE  Placed(2)
<1> DEFINE z == Len(code) + 1
           y == Len(code) + 2
           v == <<y, z>>
<1>1. /\ z \in Nat /\ y \in Nat /\ before \in Seq(Nat) /\ Len(before) \in Nat /\ Len(code) \in Nat
      /\ z \in Len(code) + 1 .. Len(code') /\ y \in Len(code) + 1 .. Len(code')
  BY SizeFacts, BeforeIsNat
<1>2. code'[z] = <<>> /\ (code'[y] = <<>> \/ \E t : code'[y] = <<Jmp(t)>>) /\ before' = v \o before
  OBVIOUS
<1> HIDE DEF z, y
<1>3. v \in Seq(Nat) /\ Len(v) = 2 /\ v[1] = y /\ v[2] = z
  BY <1>1
<1> HIDE DEF v
<1>4. v \in Seq(Nat)
  BY <1>3
<1> DEFINE u == v \o before
<1>5. /\ Len(u) = Len(v) + Len(before)
      /\ \A p \in 1 .. Len(v) + Len(before) : u[p] = IF p <= Len(v) THEN v[p] ELSE before[p - Len(v)]
  BY <1>1, <1>4, ConcatFacts
<1>6. before' = u
  BY <1>2
<1> HIDE DEF u
<1>7. Len(before') = Len(before) + 2 /\ before'[1] = y /\ before'[2] = z
  BY <1>1, <1>3, <1>5, <1>6
<1>8. ASSUME NEW p \in 1 .. Len(before) PROVE before'[p + 2] = before[p]
  <2>1. p + 2 \in 1 .. Len(v) + Len(before) /\ ~(p + 2 <= Len(v)) /\ (p + 2) - Len(v) = p
    BY <1>1, <1>3
  <2> QED
    BY <1>5, <1>6, <2>1
<1>9. ~Loads(code'[before'[1]]) /\ ~Loads(code'[before'[2]])
  BY <1>2, <1>7, NoLoad
<1>10. \A p \in 1 .. 2 : p = 1 \/ p = 2
  OBVIOUS
<1> QED
  BY <1>1, <1>7, <1>8, <1>9, <1>10 DEF Placed

LEMMA ArrivesLayout == Good /\ Good' /\ OneLane /\ LayoutOK /\ LaneArrives => LayoutOK'
<1> SUFFICES ASSUME Good, Good', OneLane, LayoutOK, LaneArrives PROVE LayoutOK'
  OBVIOUS
<1>1. /\ pc = "lanes" /\ pc' = "lanes" /\ before' = before
      /\ UNCHANGED <<fn, after, mbb, fakeBlock, originalFallThrough>>
  BY ArrivesEffect
<1>2. FakesKept /\ LoadsKept
  BY ArrivesKept
<1>3. Placed(0) /\ Visiting
  BY <1>1, PlacedNone DEF Visiting
<1>4. LeaBeforeFake'
  BY <1>2, <1>3, PlacedLayout DEF LoadsKept
<1> QED
  BY <1>1, <1>2, <1>3, <1>4, SameBlockLayout DEF LayoutOK

LEMMA SkipsLayout == Good /\ Good' /\ OneLane /\ LayoutOK /\ LaneSkips => LayoutOK'
<1> SUFFICES ASSUME Good, Good', OneLane, LayoutOK, LaneSkips PROVE LayoutOK'
  OBVIOUS
<1>1. /\ pc = "lanes" /\ pc' = "lanes" /\ before' = <<Len(code) + 1>> \o before
      /\ Len(code') = Len(code) + 1 /\ code'[Len(code) + 1] = <<>>
      /\ UNCHANGED <<fn, after, mbb, fakeBlock, originalFallThrough>>
  BY SkipsEffect
<1>2. FakesKept /\ LoadsKept
  BY SkipsKept
<1>3. Placed(1) /\ Visiting
  BY <1>1, PlacedOne, SizeFacts DEF Visiting
<1>4. LeaBeforeFake'
  BY <1>2, <1>3, PlacedLayout DEF LoadsKept
<1> QED
  BY <1>1, <1>2, <1>3, <1>4, SameBlockLayout DEF LayoutOK

LEMMA OtherLaneLayout == Good /\ Good' /\ LayoutOK /\ (LaneDies \/ LanesDone) => LayoutOK'
<1> SUFFICES ASSUME Good, Good', LayoutOK, LaneDies \/ LanesDone PROVE LayoutOK'
  OBVIOUS
<1>1. /\ pc = "lanes" /\ pc' \in {"lanes", "term"}
      /\ UNCHANGED <<fn, before, after, code, mbb, fakeBlock, originalFallThrough>>
  BY DEF LaneDies, LanesDone, listVars, blockVars
<1>2. Visiting /\ Visiting'
  BY <1>1 DEF Visiting
<1> QED
  BY <1>1, <1>2 DEF LayoutOK, EndsAtN, FallThroughAhead, LeaBeforeFake, FakeBehind, PlacedOrAhead, EndsInLoad, Loads, Fake

\* The block at hand ends in a load only when it has a fake block.
LEMMA TermLayout ==
  ASSUME Good, Good', LayoutOK, NEW n \in Nat, Placed(n), pc = "term", pc' = "block",
         UNCHANGED <<after, mbb, fakeBlock, originalFallThrough, fn>>,
         NEW x, x # <<>>, Last(x).op # "jmpreg",
         \A b \in 1 .. Len(code) : code'[b] = IF b = mbb THEN x ELSE code[b],
         Loads(x) => fakeBlock # Null
  PROVE  LayoutOK'
<1>1. Visiting
  BY DEF Visiting
<1>2. FakesKept /\ \A b \in 1 .. Len(code) : EndsInLoad(b)' => EndsInLoad(b) \/ b = mbb
  BY <1>1, TermKept
<1>3. \A b \in 1 .. Len(code) : EndsInLoad(b)' => EndsInLoad(b) \/ (Visiting /\ fakeBlock # Null /\ b = mbb)
  BY <1>1, <1>2 DEF EndsInLoad
<1>4. LeaBeforeFake'
  BY <1>2, <1>3, PlacedLayout
<1> QED
  BY <1>1, <1>2, <1>4, SameBlockLayout DEF LayoutOK

LEMMA FakeUnlessReturn ==
  ASSUME Good, LayoutOK, Visiting, last.op # "ret" \/ originalFallThrough # Null
  PROVE  fakeBlock # Null
<1>1. Last(code[mbb]).op # "tailcc"
  BY AtHand
<1> QED
  BY <1>1 DEF LayoutOK, FallThroughAhead, Good, PassInvariant, AtBlock, IsReturn, last

LEMMA UnconditionalLayout == Good /\ Good' /\ LayoutOK /\ ReplaceUnconditionalJump => LayoutOK'
<1> SUFFICES ASSUME Good, Good', LayoutOK, ReplaceUnconditionalJump PROVE LayoutOK'
  OBVIOUS
<1> DEFINE z == Len(code) + 1
           x == Append(Front(code[mbb]), Lea(z))
<1>1. /\ pc = "term" /\ pc' = "block" /\ IsUnconditionalBranch(last)
      /\ UNCHANGED <<after, mbb, fakeBlock, originalFallThrough, fn>>
      /\ Len(code') = z /\ before' = <<z>> \o before
      /\ \A b \in 1 .. Len(code) : code'[b] = IF b = mbb THEN x ELSE code[b]
      /\ code'[z] = <<>> \/ \E t : code'[z] = <<Jmp(t)>>
  BY UnconditionalEffect DEF TermUnchanged
<1>2. Visiting
  BY <1>1 DEF Visiting
<1>3. Placed(1)
  BY <1>1, PlacedOne, SizeFacts
<1>4. x # <<>> /\ Last(x) = Lea(z)
  BY <1>2, AtHand, ReplaceLast, InstrType, SizeFacts
<1>5. fakeBlock # Null
  BY <1>1, <1>2, FakeUnlessReturn DEF IsUnconditionalBranch
<1>6. Last(x).op # "jmpreg"
  BY <1>4 DEF Lea
<1> HIDE DEF x, z
<1> QED
  BY <1>1, <1>3, <1>4, <1>5, <1>6, TermLayout

LEMMA ConditionalLayout == Good /\ Good' /\ LayoutOK /\ ReplaceConditionalBranch => LayoutOK'
<1> SUFFICES ASSUME Good, Good', LayoutOK, ReplaceConditionalBranch PROVE LayoutOK'
  OBVIOUS
<1> DEFINE z == Len(code) + 1
           y == Len(code) + 2
           x == Front(code[mbb]) \o <<Lea(z), LeaTmp(y), CMov(last.cc)>>
<1>1. /\ pc = "term" /\ pc' = "block" /\ IsConditionalBranch(last)
      /\ UNCHANGED <<after, mbb, fakeBlock, originalFallThrough, fn>>
      /\ Len(code') = y /\ before' = <<y, z>> \o before
      /\ \A b \in 1 .. Len(code) : code'[b] = IF b = mbb THEN x ELSE code[b]
      /\ code'[z] = <<>>
      /\ code'[y] = <<>> \/ \E t : code'[y] = <<Jmp(t)>>
  BY ConditionalEffect DEF TermUnchanged
<1>2. Visiting
  BY <1>1 DEF Visiting
<1>3. Placed(2)
  BY <1>1, PlacedTwo, SizeFacts
<1>4. x # <<>> /\ Last(x) = CMov(last.cc)
  <2>1. last.cc \in Conds \cup {NoCond}
    BY <1>2, AtHand DEF last, SourceInstr, Instr
  <2>2. Lea(z) \in Instr /\ LeaTmp(y) \in Instr /\ CMov(last.cc) \in Instr
    BY <2>1, InstrType, SizeFacts
  <2>3. PICK c, i, j, k, t : /\ c = code[mbb] /\ i = Lea(z) /\ j = LeaTmp(y) /\ k = CMov(last.cc)
                             /\ t = x
    OBVIOUS
  <2>6. t = Front(c) \o <<i, j, k>>
    BY <2>3
  <2>4. c \in Seq(Instr) /\ c # <<>> /\ i \in Instr /\ j \in Instr /\ k \in Instr
    BY <1>2, <2>2, <2>3, AtHand
  <2>5. t # <<>> /\ Last(t) = k
    <3>1. ByThree(Front(c) \o <<i, j, k>>, c, i, j, k)
      BY <2>4, ReplaceLastByThree
    <3> QED
      BY <2>6, <3>1 DEF ByThree
  <2> HIDE DEF x
  <2> QED
    BY <2>3, <2>5
<1>5. fakeBlock # Null
  BY <1>1, <1>2, FakeUnlessReturn DEF IsConditionalBranch
<1>6. Last(x).op # "jmpreg"
  BY <1>4 DEF CMov
<1> HIDE DEF x, z, y
<1> QED
  BY <1>1, <1>3, <1>4, <1>5, <1>6, TermLayout

LEMMA NoBranchLayout == Good /\ Good' /\ LayoutOK /\ ReplaceNoBranchBlock => LayoutOK'
<1> SUFFICES ASSUME Good, Good', LayoutOK, ReplaceNoBranchBlock PROVE LayoutOK'
  OBVIOUS
<1> DEFINE z == Len(code) + 1
           x == Append(code[mbb], Lea(z))
<1>1. /\ pc = "term" /\ pc' = "block" /\ last.op \in {"body", "keep", "ret", "call"}
      /\ UNCHANGED <<after, mbb, fakeBlock, originalFallThrough, fn>>
  BY NoBranchEffect DEF TermUnchanged
<1>2. Visiting
  BY <1>1 DEF Visiting
<1>3. CASE originalFallThrough # Null
  <2>1. /\ Len(code') = z /\ code'[z] = <<>> /\ before' = <<z>> \o before
        /\ \A b \in 1 .. Len(code) : code'[b] = IF b = mbb THEN x ELSE code[b]
    BY <1>3, NoBranchEffect
  <2>2. Placed(1)
    BY <2>1, PlacedOne, SizeFacts
  <2>3. x # <<>> /\ Last(x) = Lea(z)
    BY <1>2, AtHand, AppendOne, InstrType, SizeFacts
  <2>4. fakeBlock # Null
    BY <1>2, <1>3, FakeUnlessReturn
  <2>5. Last(x).op # "jmpreg"
    BY <2>3 DEF Lea
  <2> HIDE DEF x, z
  <2> QED
    BY <1>1, <2>1, <2>2, <2>3, <2>4, <2>5, TermLayout
<1>4. CASE originalFallThrough = Null
  <2>1. before' = before /\ code' = code
    BY <1>4, NoBranchEffect
  <2>2. Placed(0)
    BY <2>1, PlacedNone
  <2>3. \A b \in 1 .. Len(code) : code'[b] = IF b = mbb THEN code[mbb] ELSE code[b]
    BY <2>1
  <2>4. code[mbb] # <<>> /\ Last(code[mbb]).op # "jmpreg" /\ ~Loads(code[mbb])
    BY <1>1, <1>2, AtHand DEF last, Loads
  <2> QED
    BY <1>1, <2>2, <2>3, <2>4, TermLayout
<1> QED
  BY <1>3, <1>4

LEMMA IndirectLayout == Good /\ Good' /\ LayoutOK /\ ReplaceIndirectJump => LayoutOK'
<1> SUFFICES ASSUME Good, Good', LayoutOK, ReplaceIndirectJump PROVE LayoutOK'
  OBVIOUS
<1>1. /\ pc = "term" /\ pc' = "block" /\ last.op = "ind" /\ before' = before /\ code' = code
      /\ UNCHANGED <<after, mbb, fakeBlock, originalFallThrough, fn>>
  BY IndirectEffect DEF TermUnchanged
<1>2. Placed(0)
  BY <1>1, PlacedNone
<1>3. \A b \in 1 .. Len(code) : code'[b] = IF b = mbb THEN code[mbb] ELSE code[b]
  BY <1>1
<1>4. code[mbb] # <<>> /\ Last(code[mbb]).op # "jmpreg" /\ ~Loads(code[mbb])
  <2>1. Visiting
    BY <1>1 DEF Visiting
  <2> QED
    BY <1>1, <2>1, AtHand DEF last, Loads
<1> QED
  BY <1>1, <1>2, <1>3, <1>4, TermLayout

LEMMA SplitLayout == Good /\ Good' /\ LayoutOK /\ SplitJump => LayoutOK'
<1> SUFFICES ASSUME Good, Good', LayoutOK, SplitJump PROVE LayoutOK'
  OBVIOUS
<1> DEFINE z == Len(code) + 1
           x == Front(code[mbb])
<1>1. /\ pc = "term" /\ pc' = "term" /\ Len(code[mbb]) > 1
      /\ UNCHANGED <<fn, before, mbb, fakeBlock>>
      /\ Len(code') = z
      /\ \A b \in 1 .. Len(code) : code'[b] = IF b = mbb THEN x ELSE code[b]
      /\ after' = <<z>> \o after
  BY SplitEffect
<1>2. Visiting /\ Visiting'
  BY <1>1 DEF Visiting
<1>3. z \in Nat /\ z > N /\ z > Len(code) /\ Len(code) \in Nat /\ after \in Seq(Nat) /\ Len(after) \in Nat
  BY SizeFacts, ListFacts DEF Blocks
<1>4. /\ Len(after') = Len(after) + 1 /\ after'[1] = z
      /\ \A i \in 1 .. Len(after) : after'[i + 1] = after[i]
      /\ Range(after') = {z} \cup Range(after)
  <2> HIDE DEF z
  <2> QED
    BY <1>1, <1>3, ConsFacts
<1>5. EndsAtN'
  <2> SUFFICES ASSUME NEW k \in 1 .. Len(after'), after'[k] = N PROVE k = Len(after')
    BY DEF EndsAtN
  <2>1. k # 1
    BY <1>3, <1>4
  <2>2. k - 1 \in 1 .. Len(after) /\ (k - 1) + 1 = k
    BY <1>3, <1>4, <2>1
  <2>3. after[k - 1] = N
    BY <1>4, <2>2
  <2>4. k - 1 = Len(after)
    BY <2>2, <2>3 DEF LayoutOK, EndsAtN
  <2> QED
    BY <1>4, <2>2, <2>4
<1>6. FallThroughAhead'
  BY <1>3, <1>4 DEF FallThroughAhead
<1>7. x # <<>> /\ Last(x).op # "jmpreg" /\ ~Loads(x)
  <2>1. /\ x \in Seq(Instr) /\ Len(x) = Len(code[mbb]) - 1 /\ Len(code[mbb]) \in Nat
        /\ \A i \in 1 .. Len(code[mbb]) - 1 : x[i] = code[mbb][i]
        /\ \A i \in 1 .. Len(code[mbb]) : SourceInstr(code[mbb][i])
    BY <1>2, AtHand, FrontFacts
  <2> HIDE DEF x
  <2>2. Len(x) \in 1 .. Len(code[mbb]) - 1 /\ Len(x) \in 1 .. Len(code[mbb])
    BY <1>1, <2>1
  <2>3. Last(x) = x[Len(x)] /\ SourceInstr(x[Len(x)]) /\ x # <<>>
    BY <2>1, <2>2 DEF Last
  <2> QED
    BY <2>3 DEF SourceInstr, SourceOps, Loads
<1> HIDE DEF x
<1>8. FakesKept /\ \A b \in 1 .. Len(code) : EndsInLoad(b)' => EndsInLoad(b)
  <2>1. FakesKept /\ \A b \in 1 .. Len(code) : EndsInLoad(b)' => EndsInLoad(b) \/ b = mbb
    BY <1>1, <1>2, <1>7, TermKept
  <2>2. mbb \in 1 .. Len(code) /\ code'[mbb] = x
    BY <1>1, <1>2, AtHand
  <2> QED
    BY <1>7, <2>1, <2>2 DEF EndsInLoad
<1>9. Placed(0)
  BY <1>1, PlacedNone
<1>10. LeaBeforeFake'
  BY <1>8, <1>9, PlacedLayout
<1>11. PlacedOrAhead'
  <2>1. \A p \in 1 .. Len(before) : before[p] # z /\ before[p] \notin Range(after)
    BY <1>3, ListFacts DEF LayoutOK, PlacedOrAhead
  <2> HIDE DEF z
  <2> QED
    BY <1>1, <1>4, <2>1 DEF PlacedOrAhead
<1>12. FakeBehind'
  <2>1. fakeBlock # Null => Fake(fakeBlock)'
    <3>1. fakeBlock # Null => fakeBlock \in 1 .. Len(code) /\ Fake(fakeBlock)
      BY <1>2 DEF LayoutOK, FakeBehind, Good, TypeOK, Null
    <3> QED
      BY <1>1, <1>8, <3>1 DEF FakesKept, Fake
  <2> QED
    BY <1>1, <1>2, <2>1 DEF LayoutOK, FakeBehind
<1> QED
  BY <1>1, <1>5, <1>6, <1>10, <1>11, <1>12 DEF LayoutOK

LEMMA NextBlockLayout == Good /\ Good' /\ LayoutOK /\ NextBlock => LayoutOK'
<1> SUFFICES ASSUME Good, Good', LayoutOK, NextBlock PROVE LayoutOK'
  OBVIOUS
<1> DEFINE f == Len(code) + 1
           b == Head(after)
<1>1. /\ pc' = "lanes" /\ after # <<>> /\ after' = Tail(after) /\ mbb' = b
      /\ originalFallThrough' = GetFallThrough(b, Tail(after))
      /\ \A c \in 1 .. Len(code) : code'[c] = code[c]
      /\ \/ /\ Len(code') = f /\ code'[f] = <<JmpTarget>>
            /\ fakeBlock' = f /\ before' = before \o <<b, f>>
         \/ fakeBlock' = Null /\ before' = Append(before, b)
  BY NextBlockEffect
<1>2. /\ b = after[1] /\ Len(after) >= 1 /\ Len(Tail(after)) = Len(after) - 1
      /\ \A i \in 1 .. Len(after) - 1 : Tail(after)[i] = after[i + 1]
      /\ Range(after) = {b} \cup Range(Tail(after))
  BY <1>1, ListFacts, TailFacts
<1>3. /\ Len(after) \in Nat /\ Len(before) \in Nat /\ Len(code) \in Nat
      /\ \A p \in 1 .. Len(before) : before[p] \in 1 .. Len(code)
      /\ b \in 1 .. Len(code) /\ f \in Nat /\ f # b /\ before \in Seq(Nat) /\ b \in Nat
      /\ \A c \in Range(after) : c \in 1 .. Len(code)
  BY <1>2, ListFacts, SizeFacts, BeforeIsNat, RangeFacts DEF Blocks
<1>4. Visiting' /\ b \notin Range(after')
  <2>1. Visiting'
    BY <1>1 DEF Visiting
  <2> QED
    BY <1>1, <2>1 DEF Good, PassInvariant, AfterInOrder
<1>5. ~Loads(code'[b])
  <2>0. code'[b] \in Seq(Instr) /\ code'[b] # <<>>
    BY <1>1, <1>3, <1>4, GoodFacts DEF Good, PassInvariant, AtBlock
  <2>2. Len(code'[b]) \in DOMAIN code'[b] /\ Last(code'[b]) = code'[b][Len(code'[b])]
    <3> DEFINE c == code'[b]
    <3>1. c \in Seq(Instr) /\ c # <<>>
      BY <2>0
    <3> HIDE DEF c
    <3>2. Len(c) \in DOMAIN c /\ Last(c) = c[Len(c)]
      BY <3>1 DEF Last
    <3> QED
      BY <3>2 DEF c
  <2>1. SourceInstr(Last(code'[b]))
    BY <1>1, <1>4, <2>2, ZenonT(60) DEF Good, PassInvariant, AtBlock, SourceInstr
  <2> QED
    BY <2>1 DEF Loads, SourceInstr, SourceOps
<1> HIDE DEF b, f
<1>6. EndsAtN'
  <2> SUFFICES ASSUME NEW k \in 1 .. Len(after'), after'[k] = N PROVE k = Len(after')
    BY DEF EndsAtN
  <2>0. Len(after') = Len(after) - 1
    BY <1>1, <1>2
  <2>1. k \in Nat /\ k + 1 \in 1 .. Len(after) /\ after[k + 1] = N
    BY <1>1, <1>2, <1>3, <2>0
  <2>2. k + 1 = Len(after)
    BY <2>1 DEF LayoutOK, EndsAtN
  <2> QED
    BY <1>3, <2>0, <2>1, <2>2
<1>7. FallThroughAhead'
  BY <1>1 DEF FallThroughAhead, GetFallThrough
<1>8. /\ Len(before') \in {Len(before) + 1, Len(before) + 2}
      /\ \A p \in 1 .. Len(before) : before'[p] = before[p]
      /\ before'[Len(before) + 1] = b
      /\ fakeBlock' # Null => Len(before') = Len(before) + 2
      /\ Len(before') = Len(before) + 2 => /\ before'[Len(before) + 2] = f /\ fakeBlock' = f
                                           /\ code'[f] = <<JmpTarget>>
  <2>1. CASE /\ Len(code') = f /\ code'[f] = <<JmpTarget>>
             /\ fakeBlock' = f /\ before' = before \o <<b, f>>
    <3> DEFINE u == before \o <<b, f>>
    <3>1. /\ Len(u) = Len(before) + 2 /\ \A p \in 1 .. Len(before) : u[p] = before[p]
          /\ u[Len(before) + 1] = b /\ u[Len(before) + 2] = f
      BY <1>3, ExtendTwoFacts
    <3>2. before' = u
      BY <2>1
    <3> HIDE DEF u
    <3> QED
      BY <2>1, <3>1, <3>2
  <2>2. CASE fakeBlock' = Null /\ before' = Append(before, b)
    <3> DEFINE u == Append(before, b)
    <3>1. /\ Len(u) = Len(before) + 1 /\ \A p \in 1 .. Len(before) : u[p] = before[p]
          /\ u[Len(before) + 1] = b
      BY <1>3, ExtendFacts
    <3>2. before' = u
      BY <2>2
    <3> HIDE DEF u
    <3> QED
      BY <1>3, <2>2, <3>1, <3>2
  <2> QED
    BY <1>1, <2>1, <2>2
<1>9. \A p \in 1 .. Len(before') :
        \/ p \in 1 .. Len(before) \/ p = Len(before) + 1
        \/ (p = Len(before) + 2 /\ Len(before') = Len(before) + 2)
  BY <1>3, <1>8
<1>10. Loads(<<JmpTarget>>) = FALSE
  BY DEF Loads, JmpTarget, Plain, Last
<1>11. LeaBeforeFake'
  <2> SUFFICES ASSUME NEW p \in 1 .. Len(before'), Loads(code'[before'[p]])
               PROVE  p < Len(before') /\ code'[before'[p + 1]] = <<JmpTarget>>
    BY DEF LeaBeforeFake, EndsInLoad, Fake
  <2>1. p \in 1 .. Len(before)
    BY <1>5, <1>8, <1>9, <1>10
  <2>2. before'[p] = before[p] /\ Loads(code[before[p]])
    BY <1>1, <1>3, <1>8, <2>1
  <2>3. p < Len(before) /\ code[before[p + 1]] = <<JmpTarget>>
    BY <2>1, <2>2 DEF LayoutOK, LeaBeforeFake, EndsInLoad, Fake
  <2>6. p < Len(before) /\ Len(before) < Len(before')
    BY <1>3, <1>8, <2>3
  <2>4. p + 1 \in 1 .. Len(before) /\ p < Len(before')
    BY <1>3, <1>8, <2>1, <2>6
  <2>5. before'[p + 1] = before[p + 1] /\ before[p + 1] \in 1 .. Len(code)
    BY <1>3, <1>8, <2>4
  <2> QED
    BY <1>1, <2>3, <2>4, <2>5
<1>12. \A p \in 1 .. Len(before) : before[p] \notin Range(after)
  BY DEF LayoutOK, PlacedOrAhead
<1>13. FakeBehind'
  <2> SUFFICES ASSUME fakeBlock' # Null
               PROVE  /\ code'[fakeBlock'] = <<JmpTarget>>
                      /\ \A p \in 1 .. Len(before') : before'[p] = mbb' =>
                           p < Len(before') /\ before'[p + 1] = fakeBlock'
    BY DEF FakeBehind, Fake
  <2>1. Len(before') = Len(before) + 2 /\ fakeBlock' = f /\ mbb' = b /\ before'[Len(before) + 2] = f
    BY <1>1, <1>8
  <2>2. ASSUME NEW p \in 1 .. Len(before'), before'[p] = b PROVE p = Len(before) + 1
    <3>1. p # Len(before) + 2
      BY <1>3, <2>1, <2>2
    <3>2. p \notin 1 .. Len(before)
      BY <1>2, <1>8, <1>12, <2>2
    <3> QED
      BY <1>9, <3>1, <3>2
  <2>3. Len(before) + 1 < Len(before') /\ (Len(before) + 1) + 1 = Len(before) + 2
    BY <1>3, <2>1
  <2> QED
    BY <1>8, <2>1, <2>2, <2>3
<1>14. PlacedOrAhead'
  <2> SUFFICES ASSUME NEW p \in 1 .. Len(before') PROVE before'[p] \notin Range(after')
    BY DEF PlacedOrAhead
  <2>1. \A c \in Range(after') : c \in Range(after) /\ c \in 1 .. Len(code) /\ c # b
    BY <1>1, <1>2, <1>3, <1>4
  <2>2. f \notin 1 .. Len(code)
    BY <1>3 DEF f
  <2> QED
    BY <1>8, <1>9, <1>12, <2>1, <2>2
<1> QED
  BY <1>1, <1>6, <1>7, <1>11, <1>13, <1>14 DEF LayoutOK

LEMMA FinishLayout == Good /\ Good' /\ LayoutOK /\ Finish => LayoutOK'
<1> SUFFICES ASSUME Good, Good', LayoutOK, Finish PROVE LayoutOK'
  OBVIOUS
<1>1. /\ pc = "block" /\ pc' = "done" /\ after = <<>> /\ after' = after
      /\ Len(code') = Len(code) + 1 /\ code'[Len(code) + 1] = <<Jmp(1)>>
      /\ \A b \in 1 .. Len(code) : code'[b] = code[b]
      /\ before' = <<Len(code) + 1>> \o before
  BY FinishEffect
<1>2. Placed(1)
  BY <1>1, PlacedOne, SizeFacts
<1>3. FakesKept /\ \A b \in 1 .. Len(code) : EndsInLoad(b)' => EndsInLoad(b)
  BY <1>1 DEF FakesKept, Fake, EndsInLoad
<1>4. LeaBeforeFake'
  BY <1>2, <1>3, PlacedLayout
<1>5. Range(<<>>) = {}
  BY DEF Range
<1>6. EndsAtN' /\ FallThroughAhead' /\ FakeBehind' /\ PlacedOrAhead'
  BY <1>1, <1>5 DEF EndsAtN, FallThroughAhead, FakeBehind, PlacedOrAhead, Visiting
<1> QED
  BY <1>1, <1>4, <1>6 DEF LayoutOK

LEMMA InitLayout == Init /\ Good => LayoutOK
<1> SUFFICES ASSUME Init, Good PROVE LayoutOK
  OBVIOUS
<1>1. before = <<>> /\ pc = "block" /\ Len(after) = N /\ \A k \in 1 .. N : after[k] = k
  BY NAssumption DEF Init
<1> QED
  BY <1>1, NAssumption DEF LayoutOK, EndsAtN, FallThroughAhead, LeaBeforeFake, FakeBehind, PlacedOrAhead, Visiting

LEMMA LayoutStep == Good /\ Good' /\ OneLane /\ LayoutOK /\ [Next]_vars => LayoutOK'
<1> SUFFICES ASSUME Good, Good', OneLane, LayoutOK, [Next]_vars PROVE LayoutOK'
  OBVIOUS
<1>1. CASE UNCHANGED vars
  BY <1>1 DEF vars, LayoutOK, EndsAtN, FallThroughAhead, LeaBeforeFake, FakeBehind, PlacedOrAhead, Visiting,
              EndsInLoad, Fake
<1> QED
  BY <1>1, StepCases, NextBlockLayout, ArrivesLayout, SkipsLayout, OtherLaneLayout, SplitLayout,
     UnconditionalLayout, ConditionalLayout, NoBranchLayout, IndirectLayout, FinishLayout

\* Both parts, for a supported function.
LayoutInvariant == Supported(fn) => OneLane /\ LayoutOK

\* In every state of the pass over a supported function, what the pass keeps
\* true of its lanes and of the order of its block list holds.
THEOREM LayoutHolds == Spec => [](TypeOK /\ (Supported(fn) => Good) /\ LayoutInvariant)
<1> DEFINE Inv == ConversionInvariant /\ LayoutInvariant
<1>1. Init => Inv
  <2> SUFFICES ASSUME Init PROVE Inv
    OBVIOUS
  <2>1. ConversionInvariant
    BY InitType, InitInvariant DEF ConversionInvariant
  <2>2. Supported(fn) => Good
    BY <2>1 DEF ConversionInvariant, Good
  <2> QED
    BY <2>1, <2>2, InitOneLane, InitLayout DEF LayoutInvariant
<1>2. Inv /\ [Next]_vars => Inv'
  <2> SUFFICES ASSUME Inv, [Next]_vars PROVE Inv'
    OBVIOUS
  <2>1. ConversionInvariant' /\ fn' = fn
    BY TypeStep, PassStepInvariant, FunctionFixed DEF ConversionInvariant, Supported
  <2>2. ASSUME Supported(fn) PROVE OneLane' /\ LayoutOK'
    <3>1. Good /\ OneLane /\ LayoutOK
      BY <2>2 DEF ConversionInvariant, Good, LayoutInvariant
    <3> QED
      BY <3>1, OneLaneStep, LayoutStep
  <2>3. LayoutInvariant'
    BY <2>1, <2>2 DEF LayoutInvariant, Supported
  <2> QED
    BY <2>1, <2>3
<1>3. Inv => TypeOK /\ (Supported(fn) => Good) /\ LayoutInvariant
  BY DEF ConversionInvariant, Good
<1> QED
  BY <1>1, <1>2, <1>3, PTL DEF Spec

\* No trampoline of a supported function is forgotten, and none is completed
\* twice: throughout the pass the blocks still without a jump are exactly the
\* ones some lane is going to complete, each by one lane.
THEOREM TrampolinesCompleted == Spec => [](Supported(fn) => OpenTrampolinesHaveOneLane)
<1>1. (Supported(fn) => Good) /\ LayoutInvariant => (Supported(fn) => OpenTrampolinesHaveOneLane)
  BY OneLaneIsIt DEF LayoutInvariant
<1> QED
  BY <1>1, LayoutHolds, PTL
=============================================================================
