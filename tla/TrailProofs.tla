------------------------------ MODULE TrailProofs ------------------------------
(***************************************************************************)
(* What the conversion is for: on the way from one source block to a later *)
(* one control runs through the fake block behind every block in between,  *)
(* in the order of the list.  Two maps describe the blocks.  The owner o   *)
(* of a block is the source block it was made for.  A trampoline z is      *)
(* entered through the fake block v[z] only; v[b] = Null says that b is    *)
(* not a trampoline but a source block, a jump split off one, or fake.     *)
(* First come the maps and the pass, up to theorem TrailsLaid, then a run  *)
(* of the finished code, up to theorem TrailIsLeft.                        *)
(***************************************************************************)
EXTENDS ExecutionProofs

\* In the list, y stands directly behind x.
Behind(x, y) == \E p \in 1 .. Len(before) : p < Len(before) /\ before[p] = x /\ before[p + 1] = y

\* Block b is a source block ahead of the owner of x, or a jump split off it.
AheadOf(o, x, b) == IF b <= N THEN o[x] < b ELSE o[b] = o[x]

(***************************************************************************)
(* A block that loads an address loads that of a trampoline of its owner,  *)
(* entered through the fake block behind it.  A trampoline passes control  *)
(* on to the next fake block, or ends at the next block of the list or at  *)
(* a source block not ahead of its owner.                                  *)
(***************************************************************************)
LoadsBehind(v, o, b) ==
  \A i \in 1 .. Len(code[b]) : code[b][i].op \in {"lea", "leatmp"} =>
    \A z \in code[b][i].to : z \in 1 .. Len(code) /\ o[z] = o[b] /\ Behind(b, v[z])
PassesOn(v, o, b) ==
  /\ Len(code[b]) >= 2 /\ \A i \in 1 .. Len(code[b]) - 2 : code[b][i] = Add8Zero
  /\ \E z, m, f \in 1 .. Len(code) :
       /\ code[b][Len(code[b]) - 1] = Lea(z) /\ code[b][Len(code[b])] = Jmp(f)
       /\ o[z] = o[b] /\ v[z] = f /\ Fake(f)
       /\ ~Fake(m) /\ Behind(v[b], m) /\ Behind(m, f)
EndsAt(v, o, b) ==
  \E t \in 1 .. Len(code) :
    /\ code[b] = <<Jmp(t)>> /\ ~Fake(t) /\ v[t] = Null
    /\ t <= o[b] \/ (Behind(v[b], t) /\ AheadOf(o, b, t))
SplitDone(v, o, b) == v[b] = Null /\ Len(code[b]) = 1 /\ code[b][1].op = "lea" /\ LoadsBehind(v, o, b)
Route(v, o, b) == SplitDone(v, o, b) \/ (v[b] # Null /\ (PassesOn(v, o, b) \/ EndsAt(v, o, b)))

(***************************************************************************)
(* The parts of the invariant.                                             *)
(*  MapsOK: what the maps are on the blocks that are no trampolines.       *)
(*  RoutesOK, LoadsOK: what is done is right.                              *)
(*  ListOK: no block is in the list twice, the visited ones are in it, and *)
(*    the block at hand and its fake block are its end.                    *)
(*  OrderOK: the source blocks are visited in their order, and a split-off *)
(*    jump directly after the block it was part of.                        *)
(*  LanesOnWay: the lanes are entered through the fake block at the end of *)
(*    the list, and bound for blocks ahead of their owners.                *)
(***************************************************************************)
MapsOK(v, o) ==
  /\ v \in [1 .. Len(code) -> 0 .. Len(code)] /\ o \in [1 .. Len(code) -> 1 .. N]
  /\ \A b \in 1 .. N : o[b] = b
  /\ \A b \in 1 .. Len(code) : b <= N \/ Fake(b) \/ b \in Ahead => v[b] = Null
RoutesOK(v, o) ==
  \A b \in N + 1 .. Len(code) : b \in Ahead \/ code[b] = <<>> \/ Fake(b) \/ Route(v, o, b)
LoadsOK(v, o) == \A b \in 1 .. N : b \in Ahead \/ LoadsBehind(v, o, b)
Once == \A p, q \in 1 .. Len(before) : before[p] = before[q] => p = q
VisitedPlaced == \A b \in processed : \E p \in 1 .. Len(before) : before[p] = b
AtTheEndOf == Visiting /\ fakeBlock # Null => Behind(mbb, fakeBlock) /\ before[Len(before)] = fakeBlock
ListOK == Once /\ VisitedPlaced /\ AtTheEndOf
OrderOK(o) ==
  /\ \A j, k \in 1 .. Len(after) : j < k => after[k] <= N /\ o[after[j]] < after[k]
  /\ Visiting => \A k \in 1 .. Len(after) : AheadOf(o, mbb, after[k])
  /\ Visiting /\ after # <<>> /\ after[1] > N => ~IsUnconditionalBranch(last)
  /\ \A b \in processed : b <= N =>
       IF Visiting THEN b <= o[mbb] ELSE \A k \in 1 .. Len(after) : b <= o[after[k]]
LanesOnWay(v, o) ==
  /\ \A i \in OpenLanes :
       /\ before # <<>> /\ v[lanes[i].current] = before[Len(before)]
       /\ IF lanes[i].taken
          THEN ~Visiting /\ after # <<>> /\ AheadOf(o, lanes[i].current, after[1])
          ELSE lanes[i].dest \in 1 .. N /\ o[lanes[i].current] < lanes[i].dest
  /\ \A i \in OpenPending :
       /\ Behind(v[pending[i].current], mbb)
       /\ IF pending[i].taken THEN AheadOf(o, pending[i].current, mbb)
          ELSE pending[i].dest \in 1 .. N /\ o[pending[i].current] < pending[i].dest
TrailMaps(v, o) ==
  MapsOK(v, o) /\ RoutesOK(v, o) /\ LoadsOK(v, o) /\ ListOK /\ OrderOK(o) /\ LanesOnWay(v, o)
TrailInvariant == \E v, o : TrailMaps(v, o)

-----------------------------------------------------------------------------
BehindKept == \A x, y : Behind(x, y) => Behind(x, y)'

\* Maps w and r after the step that agree with v and o on the blocks there were.
Grown(v, o, w, r) ==
  /\ Len(code') \in Nat /\ Len(code') >= Len(code) /\ FakesKept /\ BehindKept
  /\ w \in [1 .. Len(code') -> 0 .. Len(code')] /\ r \in [1 .. Len(code') -> 1 .. N]
  /\ \A b \in 1 .. Len(code) : w[b] = v[b] /\ r[b] = o[b]

LEMMA ExtendMaps ==
  ASSUME Good, NEW v, NEW o, MapsOK(v, o), Len(code') \in Nat, Len(code') >= Len(code),
         FakesKept, BehindKept, NEW x \in 0 .. Len(code'), NEW y \in 1 .. N,
         \A b \in 1 .. Len(code) : b \in Ahead' => b \in Ahead,
         \A b \in Len(code) + 1 .. Len(code') : Fake(b)' \/ b \in Ahead' => x = Null
  PROVE  \E w, r : /\ Grown(v, o, w, r) /\ MapsOK(w, r)'
                   /\ \A b \in Len(code) + 1 .. Len(code') : w[b] = x /\ r[b] = y
<1>1. PICK w : w = [b \in 1 .. Len(code') |-> IF b <= Len(code) THEN v[b] ELSE x]
  OBVIOUS
<1>2. PICK r : r = [b \in 1 .. Len(code') |-> IF b <= Len(code) THEN o[b] ELSE y]
  OBVIOUS
<1>3. /\ Len(code) \in Nat /\ N \in Nat /\ N <= Len(code)
      /\ v \in [1 .. Len(code) -> 0 .. Len(code)] /\ o \in [1 .. Len(code) -> 1 .. N]
  BY SizeFacts DEF MapsOK
<1>4. /\ w \in [1 .. Len(code') -> 0 .. Len(code')]
      /\ \A b \in 1 .. Len(code) : w[b] = v[b]
      /\ \A b \in Len(code) + 1 .. Len(code') : w[b] = x
  <2>1. \A b \in 1 .. Len(code') : b <= Len(code) => v[b] \in 0 .. Len(code')
    BY <1>3
  <2> QED
    BY <1>1, <1>3, <2>1
<1>5. /\ r \in [1 .. Len(code') -> 1 .. N]
      /\ \A b \in 1 .. Len(code) : r[b] = o[b]
      /\ \A b \in Len(code) + 1 .. Len(code') : r[b] = y
  <2>1. \A b \in 1 .. Len(code') : b <= Len(code) => o[b] \in 1 .. N
    BY <1>3
  <2> QED
    BY <1>2, <1>3, <2>1
<1>6. Grown(v, o, w, r)
  BY <1>4, <1>5 DEF Grown
<1>7. \A b \in 1 .. N : r[b] = b
  BY <1>3, <1>5 DEF MapsOK
<1>8. ASSUME NEW b \in 1 .. Len(code'), b <= N \/ Fake(b)' \/ b \in Ahead' PROVE w[b] = Null
  <2>1. CASE b \in 1 .. Len(code)
    BY <1>4, <1>8, <2>1 DEF MapsOK, FakesKept
  <2>2. CASE b \in Len(code) + 1 .. Len(code')
    BY <1>3, <1>4, <1>8, <2>2
  <2> QED
    BY <1>3, <2>1, <2>2
<1>9. MapsOK(w, r)'
  BY <1>4, <1>5, <1>7, <1>8 DEF MapsOK
<1> QED
  BY <1>4, <1>5, <1>6, <1>9

LEMMA AheadOfFrame ==
  ASSUME NEW v, NEW o, NEW w, NEW r, Grown(v, o, w, r), NEW x \in 1 .. Len(code), NEW b \in 1 .. Len(code)
  PROVE  AheadOf(r, x, b) <=> AheadOf(o, x, b)
BY DEF Grown, AheadOf

LEMMA LoadsFrame ==
  ASSUME Good, NEW v, NEW o, NEW w, NEW r, Grown(v, o, w, r), NEW b \in 1 .. Len(code), code'[b] = code[b],
         LoadsBehind(v, o, b)
  PROVE  LoadsBehind(w, r, b)'
<1> SUFFICES ASSUME NEW i \in 1 .. Len(code[b]), code[b][i].op \in {"lea", "leatmp"}, NEW z \in code[b][i].to
             PROVE  z \in 1 .. Len(code') /\ r[z] = r[b] /\ Behind(b, w[z])'
  BY DEF LoadsBehind
<1>1. z \in 1 .. Len(code) /\ o[z] = o[b] /\ Behind(b, v[z])
  BY DEF LoadsBehind
<1>2. z \in 1 .. Len(code')
  BY <1>1, SizeFacts DEF Grown
<1> QED
  BY <1>1, <1>2 DEF Grown, BehindKept

LEMMA RouteFrame ==
  ASSUME Good, NEW v, NEW o, NEW w, NEW r, Grown(v, o, w, r), NEW b \in 1 .. Len(code), code'[b] = code[b],
         Route(v, o, b)
  PROVE  Route(w, r, b)'
<1>1. \A x \in 1 .. Len(code) : /\ x \in 1 .. Len(code') /\ w[x] = v[x] /\ r[x] = o[x]
                                /\ (Fake(x)' <=> Fake(x))
  BY SizeFacts DEF Grown, FakesKept
<1>2. CASE SplitDone(v, o, b)
  BY <1>1, <1>2, LoadsFrame DEF SplitDone, Route
<1>3. CASE v[b] # Null /\ PassesOn(v, o, b)
  <2>1. PICK z, m, f \in 1 .. Len(code) :
       /\ code[b][Len(code[b]) - 1] = Lea(z) /\ code[b][Len(code[b])] = Jmp(f)
       /\ o[z] = o[b] /\ v[z] = f /\ Fake(f)
       /\ ~Fake(m) /\ Behind(v[b], m) /\ Behind(m, f)
    BY <1>3 DEF PassesOn
  <2>2. Behind(w[b], m)' /\ Behind(m, f)' /\ Fake(f)' /\ ~Fake(m)'
    BY <1>1, <2>1 DEF Grown, BehindKept
  <2>3. r[z] = r[b] /\ w[z] = f /\ w[b] # Null
    BY <1>1, <1>3, <2>1
  <2>4. PassesOn(w, r, b)'
    BY <1>1, <1>3, <2>1, <2>2, <2>3 DEF PassesOn
  <2> QED
    BY <2>3, <2>4 DEF Route
<1>4. CASE v[b] # Null /\ EndsAt(v, o, b)
  <2>1. PICK t \in 1 .. Len(code) :
          /\ code[b] = <<Jmp(t)>> /\ ~Fake(t) /\ v[t] = Null
          /\ t <= o[b] \/ (Behind(v[b], t) /\ AheadOf(o, b, t))
    BY <1>4 DEF EndsAt
  <2>2. t <= r[b] \/ (Behind(w[b], t)' /\ AheadOf(r, b, t))
    BY <1>1, <2>1, AheadOfFrame, ZenonT(60) DEF Grown, BehindKept
  <2>3. EndsAt(w, r, b)'
    BY <1>1, <2>1, <2>2 DEF EndsAt, AheadOf
  <2> QED
    BY <1>1, <1>4, <2>3 DEF Route
<1> QED
  BY <1>2, <1>3, <1>4 DEF Route

LEMMA RoutesStep ==
  ASSUME Good, NEW v, NEW o, NEW w, NEW r, Grown(v, o, w, r), RoutesOK(v, o),
         \A b \in N + 1 .. Len(code) : b \in Ahead => b \in Ahead' \/ Route(w, r, b)',
         \A b \in N + 1 .. Len(code) :
           code'[b] = code[b] \/ b \in Ahead' \/ code'[b] = <<>> \/ Route(w, r, b)',
         \A b \in Len(code) + 1 .. Len(code') :
           b \in Ahead' \/ code'[b] = <<>> \/ code'[b] = <<JmpTarget>> \/ Route(w, r, b)'
  PROVE  RoutesOK(w, r)'
<1> SUFFICES ASSUME NEW b \in N + 1 .. Len(code')
             PROVE  b \in Ahead' \/ code'[b] = <<>> \/ Fake(b)' \/ Route(w, r, b)'
  BY DEF RoutesOK
<1>1. CASE b \in Len(code) + 1 .. Len(code')
  BY <1>1 DEF Fake
<1>2. CASE b \in N + 1 .. Len(code)
  <2>1. b \in 1 .. Len(code)
    BY <1>2, SizeFacts
  <2>2. CASE code'[b] = code[b]
    BY <1>2, <2>1, <2>2, RouteFrame DEF RoutesOK, Fake
  <2> QED
    BY <1>2, <2>2
<1> QED
  BY <1>1, <1>2, SizeFacts DEF Grown

LEMMA LoadsStep ==
  ASSUME Good, NEW v, NEW o, NEW w, NEW r, Grown(v, o, w, r), LoadsOK(v, o),
         \A b \in 1 .. N : b \in Ahead => b \in Ahead' \/ LoadsBehind(w, r, b)',
         \A b \in 1 .. N : b \in Ahead \/ code'[b] = code[b]
  PROVE  LoadsOK(w, r)'
<1> SUFFICES ASSUME NEW b \in 1 .. N PROVE b \in Ahead' \/ LoadsBehind(w, r, b)'
  BY DEF LoadsOK
<1>1. CASE b \in Ahead
  BY <1>1
<1>2. CASE b \notin Ahead
  <2>1. b \in 1 .. Len(code)
    BY SizeFacts
  <2> QED
    BY <1>2, <2>1, LoadsFrame DEF LoadsOK
<1> QED
  BY <1>1, <1>2

\* Blocks placed in front of the list, each of them new.
InFront(n) ==
  Placed(n) /\ \A p, q \in 1 .. n : before'[p] = before'[q] => p = q

LEMMA InFrontList ==
  ASSUME Good, NEW n \in Nat, InFront(n)
  PROVE  /\ BehindKept
         /\ Once => Once'
         /\ \A x : (\E p \in 1 .. Len(before) : before[p] = x) => \E p \in 1 .. Len(before') : before'[p] = x
         /\ before # <<>> => before' # <<>> /\ before'[Len(before')] = before[Len(before)]
<1>1. /\ Len(before) \in Nat /\ Len(code) \in Nat /\ \A p \in 1 .. Len(before) : before[p] \in 1 .. Len(code)
      /\ Len(before') = Len(before) + n
      /\ \A p \in 1 .. Len(before) : before'[p + n] = before[p]
      /\ \A p \in 1 .. n : before'[p] \in Len(code) + 1 .. Len(code')
      /\ \A p, q \in 1 .. n : before'[p] = before'[q] => p = q
  BY ListFacts, SizeFacts DEF InFront, Placed
<1>2. \A p \in 1 .. Len(before) : p + n \in 1 .. Len(before')
  BY <1>1
<1>3. BehindKept
  <2> SUFFICES ASSUME NEW x, NEW y, Behind(x, y) PROVE Behind(x, y)'
    BY DEF BehindKept
  <2>1. PICK p \in 1 .. Len(before) : p < Len(before) /\ before[p] = x /\ before[p + 1] = y
    BY DEF Behind
  <2>2. PICK q : q = p + n
    OBVIOUS
  <2>3. /\ p + 1 \in 1 .. Len(before) /\ q \in 1 .. Len(before') /\ q < Len(before') /\ q + 1 = (p + 1) + n
    BY <1>1, <2>1, <2>2
  <2>4. before'[q] = x /\ before'[q + 1] = y
    BY <1>1, <2>1, <2>2, <2>3
  <2> QED
    BY <2>3, <2>4 DEF Behind
<1>4. ASSUME Once PROVE Once'
  <2> SUFFICES ASSUME NEW p \in 1 .. Len(before'), NEW q \in 1 .. Len(before'), before'[p] = before'[q]
               PROVE  p = q
    BY DEF Once
  <2>1. \A i \in 1 .. Len(before') :
          \/ i \in 1 .. n /\ before'[i] \in Len(code) + 1 .. Len(code')
          \/ i - n \in 1 .. Len(before) /\ before'[i] = before[i - n] /\ before'[i] \in 1 .. Len(code)
    <3> SUFFICES ASSUME NEW i \in 1 .. Len(before'), ~(i \in 1 .. n)
                 PROVE  i - n \in 1 .. Len(before) /\ before'[i] = before[i - n] /\ before'[i] \in 1 .. Len(code)
      BY <1>1
    <3>1. PICK j : j = i - n
      OBVIOUS
    <3>2. j \in 1 .. Len(before) /\ j + n = i
      BY <1>1, <3>1
    <3>3. before'[i] = before[j]
      BY <1>1, <3>2
    <3> QED
      BY <1>1, <3>1, <3>2, <3>3
  <2>2. \A c : ~(c \in 1 .. Len(code) /\ c \in Len(code) + 1 .. Len(code'))
    BY <1>1
  <2>3. CASE p \in 1 .. n /\ q \in 1 .. n
    BY <1>1, <2>3
  <2>4. CASE p - n \in 1 .. Len(before) /\ q - n \in 1 .. Len(before) /\ before'[p] = before[p - n] /\ before'[q] = before[q - n]
    <3>1. p - n = q - n
      BY <1>4, <2>4 DEF Once
    <3>2. p \in Nat /\ q \in Nat
      BY <1>1
    <3> QED
      BY <3>1, <3>2
  <2> QED
    BY <2>1, <2>2, <2>3, <2>4
<1>5. ASSUME NEW x, NEW p \in 1 .. Len(before), before[p] = x PROVE \E q \in 1 .. Len(before') : before'[q] = x
  BY <1>1, <1>2, <1>5
<1>6. ASSUME before # <<>> PROVE before' # <<>> /\ before'[Len(before')] = before[Len(before)]
  <2>1. before \in Seq(Blocks)
    BY ListFacts
  <2>2. Len(before) \in 1 .. Len(before)
    BY <1>1, <1>6, <2>1
  <2>3. before'[Len(before) + n] = before[Len(before)] /\ Len(before') # 0
    BY <1>1, <2>2
  <2> QED
    BY <1>1, <2>3
<1> QED
  BY <1>3, <1>4, <1>5, <1>6

-----------------------------------------------------------------------------
(***************************************************************************)
(* The steps at the lanes.                                                 *)
(***************************************************************************)
LEMMA ListStep ==
  ASSUME Good, ListOK, NEW n \in Nat, InFront(n), processed' = processed,
         Visiting' => Visiting /\ UNCHANGED <<mbb, fakeBlock>>
  PROVE  ListOK' /\ BehindKept
<1>1. /\ BehindKept /\ Once'
      /\ \A x : (\E p \in 1 .. Len(before) : before[p] = x) => \E p \in 1 .. Len(before') : before'[p] = x
      /\ before # <<>> => before' # <<>> /\ before'[Len(before')] = before[Len(before)]
  BY InFrontList DEF ListOK
<1>2. VisitedPlaced'
  BY <1>1 DEF ListOK, VisitedPlaced
<1>3. ASSUME Visiting', fakeBlock' # Null
      PROVE  Behind(mbb, fakeBlock)' /\ before'[Len(before')] = fakeBlock'
  <2>1. Behind(mbb, fakeBlock) /\ before[Len(before)] = fakeBlock /\ mbb' = mbb /\ fakeBlock' = fakeBlock
    BY <1>3 DEF ListOK, AtTheEndOf
  <2>2. before # <<>>
    <3>1. Len(before) # 0
      BY <2>1, ListFacts DEF Behind
    <3> QED
      BY <3>1
  <2>3. Behind(mbb, fakeBlock)'
    <3>1. \A x, y : Behind(x, y) => Behind(x, y)'
      BY <1>1 DEF BehindKept
    <3>2. PICK x, y : x = mbb /\ y = fakeBlock
      OBVIOUS
    <3>3. Behind(x, y)'
      BY <2>1, <3>1, <3>2
    <3> QED
      BY <2>1, <3>2, <3>3 DEF Behind
  <2> QED
    BY <1>1, <2>1, <2>2, <2>3
<1>4. AtTheEndOf'
  BY <1>3 DEF AtTheEndOf
<1> QED
  BY <1>1, <1>2, <1>4 DEF ListOK

LEMMA AtLanesTrail ==
  ASSUME Good, Good', NEW v, NEW o, NEW w, NEW r, TrailMaps(v, o), Grown(v, o, w, r), NEW c, AtLanes(c),
         UNCHANGED <<processed, fakeBlock>>, NEW n \in Nat, InFront(n), c # Null => Route(w, r, c)'
  PROVE  RoutesOK(w, r)' /\ LoadsOK(w, r)' /\ ListOK' /\ OrderOK(r)'
<1>1. N \in Nat /\ Len(code) \in Nat /\ N <= Len(code) /\ 1 .. N \subseteq 1 .. Len(code)
      /\ N + 1 .. Len(code) \subseteq 1 .. Len(code)
  BY SizeFacts
<1>2. /\ pc = "lanes" /\ Visiting /\ Visiting' /\ after' = after /\ mbb' = mbb
      /\ c = Null \/ (c \in N + 1 .. Len(code) /\ c \notin Ahead)
      /\ \A b \in 1 .. Len(code) : b # c => code'[b] = code[b]
      /\ Len(code') \in Nat /\ Len(code') >= Len(code)
      /\ \A b \in Len(code) + 1 .. Len(code') : code'[b] = <<>>
      /\ processed' = processed /\ fakeBlock' = fakeBlock
  BY DEF AtLanes
<1>3. Ahead' = Ahead
  BY <1>2 DEF Ahead
<1>4. RoutesOK(w, r)'
  <2>1. \A b \in N + 1 .. Len(code) : code'[b] = code[b] \/ Route(w, r, b)'
    BY <1>1, <1>2 DEF Null
  <2> QED
    BY <1>2, <1>3, <2>1, RoutesStep DEF TrailMaps
<1>5. LoadsOK(w, r)'
  <2>1. \A b \in 1 .. N : code'[b] = code[b]
    <3>1. c \notin 1 .. N
      BY <1>1, <1>2 DEF Null
    <3> QED
      BY <1>1, <1>2, <3>1
  <2> QED
    BY <1>3, <2>1, LoadsStep DEF TrailMaps
<1>6. ListOK'
  BY <1>2, ListStep DEF TrailMaps
<1>7. OrderOK(r)'
  <2>1. mbb \in 1 .. Len(code) /\ mbb # c /\ \A k \in 1 .. Len(after) : after[k] \in 1 .. Len(code)
    BY <1>2, AtHand, ListFacts DEF Ahead, Null
  <2>2. r[mbb] = o[mbb] /\ \A k \in 1 .. Len(after) : r[after[k]] = o[after[k]]
    BY <2>1 DEF Grown
  <2>3. code'[mbb] = code[mbb] /\ last' = last
    BY <1>2, <2>1 DEF last
  <2>4. \A k \in 1 .. Len(after) : AheadOf(r, mbb, after[k]) <=> AheadOf(o, mbb, after[k])
    BY <2>1, AheadOfFrame
  <2>5. /\ \A j, k \in 1 .. Len(after) : j < k => after[k] <= N /\ o[after[j]] < after[k]
        /\ \A k \in 1 .. Len(after) : AheadOf(o, mbb, after[k])
        /\ after # <<>> /\ after[1] > N => ~IsUnconditionalBranch(last)
        /\ \A b \in processed : b <= N => b <= o[mbb]
    BY <1>2 DEF TrailMaps, OrderOK
  <2>6. /\ \A j, k \in 1 .. Len(after) : j < k => after[k] <= N /\ r[after[j]] < after[k]
        /\ \A k \in 1 .. Len(after) : AheadOf(r, mbb, after[k])
        /\ after # <<>> /\ after[1] > N => ~IsUnconditionalBranch(last')
        /\ \A b \in processed : b <= N => b <= r[mbb]
    BY <2>2, <2>3, <2>4, <2>5
  <2> QED
    BY <1>2, <2>6 DEF OrderOK, AheadOf
<1> QED
  BY <1>4, <1>5, <1>6, <1>7

LEMMA AtLanesWay ==
  ASSUME Good, Good', NEW v, NEW o, NEW w, NEW r, TrailMaps(v, o), Grown(v, o, w, r), NEW c, AtLanes(c),
         NEW n \in Nat, InFront(n),
         \A i \in OpenLanes' : \/ i \in OpenLanes /\ lanes'[i] = lanes[i]
                               \/ /\ ~lanes'[i].taken /\ lanes'[i].dest \in 1 .. N
                                  /\ before' # <<>> /\ w[lanes'[i].current] = before'[Len(before')]
                                  /\ r[lanes'[i].current] < lanes'[i].dest,
         \A i \in OpenPending' : i + 1 \in OpenPending /\ pending'[i] = pending[i + 1]
  PROVE  LanesOnWay(w, r)'
<1>1. /\ Visiting /\ Visiting' /\ after' = after /\ mbb' = mbb /\ LanesOnWay(v, o)
  BY DEF AtLanes, TrailMaps
<1>2. \A b \in N + 1 .. Len(code) : b \in 1 .. Len(code) /\ w[b] = v[b] /\ r[b] = o[b]
  BY SizeFacts DEF Grown
<1>3. mbb \in 1 .. Len(code)
  BY <1>1, AtHand
<1>4. before # <<>> => before' # <<>> /\ before'[Len(before')] = before[Len(before)]
  BY InFrontList
<1>5. ASSUME NEW i \in OpenLanes'
      PROVE  /\ ~lanes'[i].taken /\ lanes'[i].dest \in 1 .. N
             /\ before' # <<>> /\ w[lanes'[i].current] = before'[Len(before')]
             /\ r[lanes'[i].current] < lanes'[i].dest
  <2>1. CASE i \in OpenLanes /\ lanes'[i] = lanes[i]
    <3>1. /\ before # <<>> /\ v[lanes[i].current] = before[Len(before)] /\ ~lanes[i].taken
          /\ lanes[i].dest \in 1 .. N /\ o[lanes[i].current] < lanes[i].dest
      BY <1>1, <2>1 DEF LanesOnWay
    <3>2. lanes[i].current \in N + 1 .. Len(code)
      BY <2>1, OpenFacts
    <3> QED
      BY <1>2, <1>4, <2>1, <3>1, <3>2
  <2> QED
    BY <2>1
<1>6. ASSUME NEW i \in OpenPending'
      PROVE  /\ Behind(w[pending[i].current], mbb)'
             /\ IF pending'[i].taken THEN AheadOf(r, pending'[i].current, mbb)
                ELSE pending'[i].dest \in 1 .. N /\ r[pending'[i].current] < pending'[i].dest
  <2>1. PICK j \in OpenPending : pending'[i] = pending[j]
    OBVIOUS
  <2>2. PICK x : x = pending[j].current
    OBVIOUS
  <2>3. /\ Behind(v[x], mbb) /\ x \in 1 .. Len(code) /\ w[x] = v[x] /\ r[x] = o[x]
        /\ IF pending[j].taken THEN AheadOf(o, x, mbb)
           ELSE pending[j].dest \in 1 .. N /\ o[x] < pending[j].dest
    BY <1>1, <1>2, <2>1, <2>2, OpenFacts DEF LanesOnWay
  <2>4. AheadOf(r, x, mbb) <=> AheadOf(o, x, mbb)
    BY <1>3, <2>3, AheadOfFrame
  <2>5. Behind(w[x], mbb)'
    <3>1. PICK y, e : y = mbb /\ e = w[x]
      OBVIOUS
    <3>2. Behind(e, y)'
      BY <2>3, <3>1 DEF Grown, BehindKept
    <3> QED
      BY <1>1, <3>1, <3>2 DEF Behind
  <2> QED
    BY <2>1, <2>2, <2>3, <2>4, <2>5
<1>7. \A i \in OpenPending' :
         /\ Behind(w[pending[i].current], mbb)'
         /\ IF pending'[i].taken THEN AheadOf(r, pending'[i].current, mbb')
            ELSE pending'[i].dest \in 1 .. N /\ r[pending'[i].current] < pending'[i].dest
  BY <1>1, <1>6
<1> QED
  BY <1>5, <1>7 DEF LanesOnWay, AheadOf

LEMMA NothingPlaced ==
  ASSUME Good, before' = before
  PROVE  InFront(0)
<1>1. \A p \in 1 .. 0 : FALSE
  OBVIOUS
<1> QED
  BY <1>1, PlacedNone DEF InFront

LEMMA OnePlaced ==
  ASSUME Good, before' = <<Len(code) + 1>> \o before, Len(code') >= Len(code) + 1, Len(code') \in Nat,
         code'[Len(code) + 1] = <<>> \/ \E t : code'[Len(code) + 1] = <<Jmp(t)>>
  PROVE  InFront(1)
<1>1. \A p, q \in 1 .. 1 : p = q
  OBVIOUS
<1> QED
  BY <1>1, PlacedOne DEF InFront

\* The lane at hand.
LEMMA LaneOnWay ==
  ASSUME Good, OneLane, NEW v, NEW o, TrailMaps(v, o), pc = "lanes", pending # <<>>, pending' = Tail(pending),
         NEW c, c = lane.current, c # Null
  PROVE  /\ c \in N + 1 .. Len(code) /\ c \in 1 .. Len(code) /\ c \notin Ahead /\ code[c] = <<>>
         /\ Behind(v[c], mbb) /\ v[c] # Null
         /\ IF lane.taken THEN AheadOf(o, c, mbb) ELSE lane.dest \in 1 .. N /\ o[c] < lane.dest
         /\ Arrives(lane) => AheadOf(o, c, mbb)
<1>1. c \in N + 1 .. Len(code) /\ c \in 1 .. Len(code) /\ c \notin Ahead /\ code[c] = <<>>
  BY PendingOpen, SizeFacts DEF PendingShift
<1>2. lane = pending[1] /\ 1 \in OpenPending
  <2>1. lane = pending[1] /\ Len(pending) >= 1
    BY PendingTail
  <2>2. 1 \in DOMAIN pending
    BY <2>1, SizeFacts
  <2> QED
    BY <2>1, <2>2 DEF OpenPending
<1>3. /\ Behind(v[c], mbb)
      /\ IF lane.taken THEN AheadOf(o, c, mbb) ELSE lane.dest \in 1 .. N /\ o[c] < lane.dest
  BY <1>2 DEF TrailMaps, LanesOnWay
<1>4. v[c] # Null
  BY <1>3, ListFacts DEF Behind, Null
<1>5. Arrives(lane) => AheadOf(o, c, mbb)
  BY <1>3, SizeFacts DEF Arrives, AheadOf
<1> QED
  BY <1>1, <1>3, <1>4, <1>5

LEMMA ArrivesTrail ==
  ASSUME Good, Good', OneLane, TrailInvariant, LaneArrives
  PROVE  TrailInvariant'
<1>0. PICK v, o : TrailMaps(v, o)
  BY DEF TrailInvariant
<1>a. PICK c : c = lane.current
  OBVIOUS
<1>1. /\ pc = "lanes" /\ pc' = "lanes" /\ pending # <<>> /\ Arrives(lane) /\ pending' = Tail(pending)
      /\ UNCHANGED <<fn, before, after, mbb, fakeBlock>> /\ Len(code') = Len(code)
      /\ \A b \in 1 .. Len(code) : code'[b] = IF b = c THEN Append(code[b], Jmp(mbb)) ELSE code[b]
      /\ IF takenLane = Null THEN takenLane' = Len(lanes) + 1 /\ lanes' = Append(lanes, lane)
         ELSE UNCHANGED <<lanes, takenLane>>
  BY <1>a, ArrivesEffect
<1>b. processed' = processed
  BY DEF LaneArrives
<1>2. 1 \in 1 .. N /\ Len(code) \in Nat /\ N \in Nat /\ N <= Len(code) /\ Len(code) + 1 .. Len(code') = {}
      /\ Null \in 0 .. Len(code')
  BY <1>1, SizeFacts DEF Null
<1>3. Visiting /\ Visiting' /\ Ahead' = Ahead /\ InFront(0) /\ BehindKept /\ FakesKept
  BY <1>1, <1>b, NothingPlaced, InFrontList, ArrivesKept DEF Visiting, Ahead
<1>4. PICK w, r : Grown(v, o, w, r) /\ MapsOK(w, r)'
  BY <1>0, <1>1, <1>2, <1>3, ExtendMaps DEF TrailMaps
<1>5. PendingShift
  BY <1>1, PendingOpen
<1>6. AtLanes(c)
  BY <1>1, <1>2, <1>3, <1>5, <1>a DEF AtLanes, PendingShift
<1>7. c # Null => Route(w, r, c)'
  <2> SUFFICES ASSUME c # Null PROVE Route(w, r, c)'
    OBVIOUS
  <2>1. /\ c \in 1 .. Len(code) /\ code[c] = <<>> /\ Behind(v[c], mbb) /\ v[c] # Null /\ AheadOf(o, c, mbb)
    BY <1>0, <1>1, <1>a, LaneOnWay
  <2>2. mbb \in 1 .. Len(code) /\ ~Fake(mbb) /\ v[mbb] = Null
    BY <1>0, <1>3, AtHand DEF TrailMaps, MapsOK, Ahead
  <2>3. code'[c] = <<Jmp(mbb)>>
    <3>1. Append(<<>>, Jmp(mbb)) = <<Jmp(mbb)>>
      OBVIOUS
    <3> QED
      BY <1>1, <2>1, <3>1
  <2>4. PICK t : t = mbb
    OBVIOUS
  <2>5. w[c] = v[c] /\ w[t] = Null /\ ~Fake(t)' /\ t \in 1 .. Len(code') /\ Behind(w[c], t)'
    BY <1>1, <1>4, <2>1, <2>2, <2>4 DEF Grown, FakesKept, BehindKept
  <2>6. AheadOf(r, c, t)
    BY <1>4, <2>1, <2>2, <2>4, AheadOfFrame
  <2>7. EndsAt(w, r, c)'
    BY <2>3, <2>4, <2>5, <2>6 DEF EndsAt, AheadOf
  <2> QED
    BY <2>1, <2>5, <2>7 DEF Route
<1>8. \A i \in OpenLanes' : i \in OpenLanes /\ lanes'[i] = lanes[i]
  <2>1. CASE takenLane = Null
    <3>1. lane \in Lane
      BY <1>1, PendingTail, GoodFacts
    <3>2. /\ DOMAIN lanes' = 1 .. Len(lanes) + 1 /\ \A i \in 1 .. Len(lanes) : lanes'[i] = lanes[i]
      BY <1>1, <2>1, <3>1, LanesExtended
    <3>3. \A i \in OpenLanes' : i \in 1 .. Len(lanes)
      BY <1>1, <2>1, <3>2, SizeFacts DEF OpenLanes
    <3> QED
      BY <2>1, <3>2, <3>3, SizeFacts DEF OpenLanes, Null
  <2>2. CASE takenLane # Null
    BY <1>1, <2>2 DEF OpenLanes
  <2> QED
    BY <2>1, <2>2
<1>9. LanesOnWay(w, r)'
  BY <1>0, <1>3, <1>4, <1>5, <1>6, <1>8, AtLanesWay DEF PendingShift
<1>10. RoutesOK(w, r)' /\ LoadsOK(w, r)' /\ ListOK' /\ OrderOK(r)'
  BY <1>0, <1>1, <1>b, <1>3, <1>4, <1>6, <1>7, AtLanesTrail
<1> QED
  BY <1>4, <1>9, <1>10 DEF TrailMaps, TrailInvariant

LEMMA SkipsTrail ==
  ASSUME Good, Good', OneLane, LayoutOK, TrailInvariant, LaneSkips
  PROVE  TrailInvariant'
<1>0. PICK v, o : TrailMaps(v, o)
  BY DEF TrailInvariant
<1>a. PICK c, z : c = lane.current /\ z = Len(code) + 1
  OBVIOUS
<1>1. /\ pc = "lanes" /\ pc' = "lanes" /\ pending # <<>> /\ ~Arrives(lane) /\ pending' = Tail(pending)
      /\ c # Null /\ fakeBlock # Null /\ fakeBlock' = fakeBlock /\ takenLane' = takenLane
      /\ UNCHANGED <<fn, after, mbb>> /\ Len(code') = z /\ code'[z] = <<>>
      /\ \A b \in 1 .. Len(code) :
           code'[b] = IF b = c THEN code[b] \o Dummies \o <<Lea(z), Jmp(fakeBlock)>> ELSE code[b]
      /\ lanes' = Append(lanes, [lane EXCEPT !.current = z])
      /\ before' = <<z>> \o before
  BY <1>a, SkipsEffect
<1>b. processed' = processed
  BY DEF LaneSkips
<1>2. /\ Len(code) \in Nat /\ N \in Nat /\ N <= Len(code) /\ z \in Nat /\ z \in N + 1 .. z
      /\ Len(code) + 1 .. Len(code') = {z} /\ Len(code') >= Len(code) + 1 /\ Len(code') \in Nat
      /\ Len(code') >= Len(code)
  BY <1>1, <1>a, SizeFacts
<1>3. Visiting /\ Visiting' /\ Ahead' = Ahead
  BY <1>1 DEF Visiting, Ahead
<1>3a. InFront(1) /\ BehindKept /\ FakesKept
  BY <1>1, <1>2, <1>a, OnePlaced, InFrontList, SkipsKept
<1>4. /\ c \in N + 1 .. Len(code) /\ c \in 1 .. Len(code) /\ c \notin Ahead /\ code[c] = <<>>
      /\ Behind(v[c], mbb) /\ v[c] # Null /\ ~lane.taken /\ lane.dest \in 1 .. N /\ o[c] < lane.dest
  BY <1>0, <1>1, <1>a, LaneOnWay DEF Arrives
<1>5. fakeBlock \in 0 .. Len(code') /\ o[c] \in 1 .. N /\ fakeBlock \in 1 .. Len(code)
  <2>1. fakeBlock \in 0 .. Len(code)
    BY DEF Good, TypeOK
  <2>2. fakeBlock \in 1 .. Len(code)
    BY <1>1, <1>2, <2>1 DEF Null
  <2>3. o \in [1 .. Len(code) -> 1 .. N]
    BY <1>0 DEF TrailMaps, MapsOK
  <2> QED
    BY <1>2, <1>4, <2>1, <2>2, <2>3
<1>6. PICK w, r : Grown(v, o, w, r) /\ MapsOK(w, r)' /\ w[z] = fakeBlock /\ r[z] = o[c]
  <2>1. ~Fake(z)'
    BY <1>1, NoLoad DEF Fake
  <2>2. z \notin Ahead'
    BY <1>2, <1>3, <1>a, AheadFacts
  <2>3. PICK x, y : x = fakeBlock /\ y = o[c]
    OBVIOUS
  <2>4. \A b \in Len(code) + 1 .. Len(code') : ~Fake(b)' /\ b \notin Ahead'
    BY <1>2, <2>1, <2>2 DEF Fake
  <2>5. MapsOK(v, o) /\ \A b \in 1 .. Len(code) : b \in Ahead' => b \in Ahead
    BY <1>0, <1>3 DEF TrailMaps
  <2>6. x \in 0 .. Len(code') /\ y \in 1 .. N
    BY <1>5, <2>3
  <2>7. \E w, r : /\ Grown(v, o, w, r) /\ MapsOK(w, r)'
                  /\ \A b \in Len(code) + 1 .. Len(code') : w[b] = x /\ r[b] = y
    BY <1>2, <1>3a, <2>4, <2>5, <2>6, ExtendMaps
  <2> QED
    BY <1>2, <2>3, <2>7
<1>7. PendingShift
  BY <1>1, PendingOpen
<1>8. AtLanes(c)
  BY <1>1, <1>2, <1>3, <1>4 DEF AtLanes
<1>9. Behind(mbb, fakeBlock) /\ before[Len(before)] = fakeBlock /\ before # <<>>
  <2>1. Behind(mbb, fakeBlock) /\ before[Len(before)] = fakeBlock
    BY <1>0, <1>1, <1>3 DEF TrailMaps, ListOK, AtTheEndOf
  <2>2. Len(before) # 0
    BY <2>1, ListFacts DEF Behind
  <2> QED
    BY <2>1, <2>2
<1>10. Route(w, r, c)'
  <2>0. PICK d : d = Len(Dummies)
    OBVIOUS
  <2>a. PICK m, f : m = mbb /\ f = fakeBlock
    OBVIOUS
  <2> DEFINE t == <<>> \o Dummies \o <<Lea(z), Jmp(f)>>
  <2>1. pc = "lanes" /\ z \in Nat /\ f \in Nat
    BY <1>1, <1>2, <1>5, <2>a
  <2>2. /\ t \in Seq(Instr) /\ Len(t) = d + 2 /\ d \in Nat
        /\ \A q \in 1 .. d : t[q] = Add8Zero
        /\ t[d + 1] = Lea(z) /\ t[d + 2] = Jmp(f)
    BY <2>0, <2>1, SkipCode
  <2>3. code'[c] = t
    BY <1>1, <1>4, <2>a
  <2> HIDE DEF t
  <2>4. Fake(f)' /\ ~Fake(m)' /\ m \in 1 .. Len(code) /\ f \in 1 .. Len(code)
    <3>1. Fake(fakeBlock) /\ mbb \in 1 .. Len(code) /\ ~Fake(mbb)
      BY <1>1, <1>3, AtHand DEF LayoutOK, FakeBehind
    <3> QED
      BY <1>3a, <1>5, <2>a, <3>1 DEF FakesKept
  <2>5. w[c] = v[c] /\ r[c] = o[c] /\ Behind(w[c], m)' /\ Behind(m, f)'
    BY <1>4, <1>6, <1>9, <2>a DEF Grown, BehindKept
  <2>6. /\ Len(code'[c]) >= 2 /\ Len(code'[c]) - 2 = d /\ Len(code'[c]) - 1 = d + 1 /\ Len(code'[c]) = d + 2
    BY <2>2, <2>3
  <2>7. z \in 1 .. Len(code') /\ m \in 1 .. Len(code') /\ f \in 1 .. Len(code')
    BY <1>1, <1>2, <2>4
  <2>8. PassesOn(w, r, c)'
    BY <1>6, <2>a, <2>2, <2>3, <2>4, <2>5, <2>6, <2>7 DEF PassesOn
  <2> QED
    BY <1>4, <2>5, <2>8 DEF Route
<1>11. \A i \in OpenLanes' : \/ i \in OpenLanes /\ lanes'[i] = lanes[i]
                             \/ /\ ~lanes'[i].taken /\ lanes'[i].dest \in 1 .. N
                                /\ before' # <<>> /\ w[lanes'[i].current] = before'[Len(before')]
                                /\ r[lanes'[i].current] < lanes'[i].dest
  <2> DEFINE l == [lane EXCEPT !.current = z]
  <2>1. lane \in Lane
    BY <1>1, PendingTail, GoodFacts
  <2>2. l \in Lane /\ l.current = z /\ l.dest = lane.dest /\ l.taken = lane.taken
    BY <1>2, <2>1 DEF Lane
  <2> HIDE DEF l
  <2>3. /\ DOMAIN lanes' = 1 .. Len(lanes) + 1 /\ \A i \in 1 .. Len(lanes) : lanes'[i] = lanes[i]
        /\ lanes'[Len(lanes) + 1] = l
    <3>1. lanes' = Append(lanes, l)
      BY <1>1 DEF l
    <3> QED
      BY <2>2, <3>1, LanesExtended
  <2>4. \A i \in 1 .. Len(lanes) + 1 : i \in 1 .. Len(lanes) \/ i = Len(lanes) + 1
    BY SizeFacts
  <2>5. \A i \in OpenLanes' : i \in 1 .. Len(lanes) => i \in OpenLanes /\ lanes'[i] = lanes[i]
    BY <1>1, <2>3, SizeFacts DEF OpenLanes
  <2>6. \A i \in OpenLanes' : i \in 1 .. Len(lanes) + 1
    BY <2>3 DEF OpenLanes
  <2>7. before' # <<>> /\ w[z] = before'[Len(before')] /\ r[z] < lane.dest
    BY <1>3a, <1>4, <1>6, <1>9, InFrontList
  <2> QED
    BY <1>4, <2>2, <2>3, <2>4, <2>5, <2>6, <2>7
<1>12. LanesOnWay(w, r)'
  BY <1>0, <1>3a, <1>6, <1>7, <1>8, <1>11, AtLanesWay DEF PendingShift
<1>13. RoutesOK(w, r)' /\ LoadsOK(w, r)' /\ ListOK' /\ OrderOK(r)'
  BY <1>0, <1>1, <1>b, <1>3a, <1>6, <1>8, <1>10, AtLanesTrail
<1> QED
  BY <1>6, <1>12, <1>13 DEF TrailMaps, TrailInvariant

LEMMA OtherLaneTrail ==
  ASSUME Good, Good', OneLane, TrailInvariant, LaneDies \/ LanesDone
  PROVE  TrailInvariant'
<1>0. PICK v, o : TrailMaps(v, o)
  BY DEF TrailInvariant
<1>1. /\ pc = "lanes" /\ Visiting /\ Visiting' /\ UNCHANGED <<fn, before, after, mbb, fakeBlock, code, processed>>
  BY DEF LaneDies, LanesDone, Visiting, listVars, blockVars
<1>2. InFront(0) /\ BehindKept /\ FakesKept /\ Ahead' = Ahead
  BY <1>1, NothingPlaced, InFrontList DEF FakesKept, Fake, Ahead
<1>3. Len(code) + 1 .. Len(code') = {} /\ Len(code') \in Nat /\ Len(code') >= Len(code) /\ 1 \in 1 .. N
      /\ Null \in 0 .. Len(code')
  BY <1>1, SizeFacts DEF Null
<1>4. PICK w, r : Grown(v, o, w, r) /\ MapsOK(w, r)'
  BY <1>0, <1>2, <1>3, ExtendMaps DEF TrailMaps
<1>5. AtLanes(Null)
  BY <1>1, <1>3 DEF AtLanes
<1>6. LanesOnWay(w, r)'
  <2>1. CASE LaneDies
    <3>1. /\ pending # <<>> /\ pending' = Tail(pending) /\ UNCHANGED <<lanes, takenLane, pc>>
      BY <2>1 DEF LaneDies
    <3>2. OpenLanes' = OpenLanes /\ PendingShift
      BY <1>1, <3>1, PendingOpen DEF OpenLanes
    <3> QED
      BY <1>0, <1>2, <1>4, <1>5, <3>1, <3>2, AtLanesWay DEF PendingShift
  <2>2. CASE LanesDone
    <3>1. /\ pending = <<>> /\ pending' = pending /\ pc' = "term"
          /\ IF takenLane = Null THEN takenLane' = Len(lanes) + 1 /\ lanes' = Append(lanes, EmptyLane)
             ELSE UNCHANGED <<lanes, takenLane>>
      BY <2>2, LanesDoneEffect
    <3>2. OpenPending' = {}
      BY <3>1 DEF OpenPending
    <3>3. \A i \in OpenLanes' : i \in OpenLanes /\ lanes'[i] = lanes[i]
      <4>1. CASE takenLane = Null
        <5>1. EmptyLane \in Lane
          BY DEF EmptyLane, Lane, Null
        <5>2. /\ DOMAIN lanes' = 1 .. Len(lanes) + 1 /\ \A i \in 1 .. Len(lanes) : lanes'[i] = lanes[i]
          BY <3>1, <4>1, <5>1, LanesExtended
        <5>3. \A i \in OpenLanes' : i \in 1 .. Len(lanes)
          BY <3>1, <4>1, <5>2, SizeFacts DEF OpenLanes
        <5> QED
          BY <4>1, <5>2, <5>3, SizeFacts DEF OpenLanes, Null
      <4>2. CASE takenLane # Null
        BY <1>1, <3>1, <4>2 DEF OpenLanes
      <4> QED
        BY <4>1, <4>2
    <3> QED
      BY <1>0, <1>2, <1>4, <1>5, <3>2, <3>3, AtLanesWay
  <2> QED
    BY <2>1, <2>2
<1>7. RoutesOK(w, r)' /\ LoadsOK(w, r)' /\ ListOK' /\ OrderOK(r)'
  BY <1>0, <1>1, <1>2, <1>4, <1>5, AtLanesTrail
<1> QED
  BY <1>4, <1>6, <1>7 DEF TrailMaps, TrailInvariant

-----------------------------------------------------------------------------
(***************************************************************************)
(* The steps at the end of the block at hand, m.                           *)
(***************************************************************************)
LEMMA AtEndTrail ==
  ASSUME Good, Good', NEW v, NEW o, NEW w, NEW r, TrailMaps(v, o), Grown(v, o, w, r), NEW m, AtEnd(m),
         processed' = processed, NEW n \in Nat, InFront(n),
         m <= N => LoadsBehind(w, r, m)', m > N => Route(w, r, m)',
         \A b \in Len(code) + 1 .. Len(code') : code'[b] = <<>> \/ Route(w, r, b)'
  PROVE  RoutesOK(w, r)' /\ LoadsOK(w, r)' /\ ListOK' /\ OrderOK(r)'
<1>1. N \in Nat /\ Len(code) \in Nat /\ N <= Len(code) /\ 1 .. N \subseteq 1 .. Len(code)
      /\ N + 1 .. Len(code) \subseteq 1 .. Len(code)
  BY SizeFacts
<1>2. /\ pc = "term" /\ pc' = "block" /\ m = mbb /\ fn' = fn /\ after' = after
      /\ Len(code') \in Nat /\ Len(code') >= Len(code)
      /\ \A b \in 1 .. Len(code) : b # m => code'[b] = code[b]
  BY DEF AtEnd
<1>3. Visiting /\ ~Visiting'
  BY <1>2 DEF Visiting
<1>4. Ahead = Ahead' \cup {m} /\ m \notin Ahead'
  BY <1>2, <1>3 DEF Ahead, Good, PassInvariant, AfterInOrder
<1>5. m \in Nat /\ m \in 1 .. Len(code)
  BY <1>1, <1>2, <1>3, AtHand
<1>6. RoutesOK(w, r)'
  <2>1. \A b \in N + 1 .. Len(code) : b = m => Route(w, r, b)'
    BY <1>1, <1>5
  <2>2. \A b \in N + 1 .. Len(code) : b \in Ahead => b \in Ahead' \/ Route(w, r, b)'
    BY <1>4, <2>1
  <2>3. \A b \in N + 1 .. Len(code) : code'[b] = code[b] \/ Route(w, r, b)'
    BY <1>1, <1>2, <2>1
  <2> QED
    BY <2>2, <2>3, RoutesStep DEF TrailMaps
<1>7. LoadsOK(w, r)'
  <2>1. \A b \in 1 .. N : b = m => LoadsBehind(w, r, b)'
    BY <1>1, <1>5
  <2>2. \A b \in 1 .. N : b \in Ahead => b \in Ahead' \/ LoadsBehind(w, r, b)'
    BY <1>4, <2>1
  <2>3. \A b \in 1 .. N : b \in Ahead \/ code'[b] = code[b]
    BY <1>1, <1>2, <1>4
  <2> QED
    BY <2>2, <2>3, LoadsStep DEF TrailMaps
<1>8. ListOK'
  BY <1>3, ListStep DEF TrailMaps
<1>9. OrderOK(r)'
  <2>1. \A k \in 1 .. Len(after) : after[k] \in 1 .. Len(code)
    BY ListFacts
  <2>2. r[m] = o[m] /\ \A k \in 1 .. Len(after) : r[after[k]] = o[after[k]]
    BY <1>5, <2>1 DEF Grown
  <2>3. /\ \A j, k \in 1 .. Len(after) : j < k => after[k] <= N /\ o[after[j]] < after[k]
        /\ \A k \in 1 .. Len(after) : AheadOf(o, m, after[k])
        /\ \A b \in processed : b <= N => b <= o[m]
    BY <1>2, <1>3 DEF TrailMaps, OrderOK
  <2>4. /\ \A b \in 1 .. N : o[b] = b
        /\ \A b \in 1 .. Len(code) : o[b] \in 1 .. N
        /\ \A b \in processed : b \in 1 .. Len(code)
    BY DEF TrailMaps, MapsOK, Good, TypeOK, Blocks
  <2>5. ASSUME NEW b \in processed, b <= N, NEW k \in 1 .. Len(after) PROVE b <= r[after[k]]
    <3>1. PICK a \in 1 .. Len(code) : a = after[k]
      BY <2>1
    <3>2. b \in Nat /\ o[m] \in Nat /\ o[a] \in Nat /\ b <= o[m] /\ AheadOf(o, m, a) /\ r[a] = o[a]
      BY <1>1, <1>5, <2>2, <2>3, <2>4, <2>5, <3>1
    <3>3. o[m] <= o[a]
      <4>1. CASE a <= N
        <5>1. a \in 1 .. N
          BY <1>1, <4>1
        <5> QED
          BY <2>4, <3>2, <4>1, <5>1 DEF AheadOf
      <4>2. CASE ~(a <= N)
        BY <3>2, <4>2 DEF AheadOf
      <4> QED
        BY <4>1, <4>2
    <3> QED
      BY <3>1, <3>2, <3>3
  <2>6. \A j, k \in 1 .. Len(after) : j < k => after[k] <= N /\ r[after[j]] < after[k]
    BY <2>2, <2>3
  <2> QED
    BY <1>2, <1>3, <2>5, <2>6 DEF OrderOK
<1> QED
  BY <1>6, <1>7, <1>8, <1>9

LEMMA AtEndWay ==
  ASSUME Good, Good', NEW v, NEW o, NEW w, NEW r, TrailMaps(v, o), Grown(v, o, w, r), NEW m, AtEnd(m),
         NEW n \in Nat, InFront(n),
         \A i \in OpenLanes' :
           \/ i \in OpenLanes /\ lanes'[i] = lanes[i]
           \/ /\ before # <<>> /\ w[lanes'[i].current] = before[Len(before)]
              /\ IF lanes'[i].taken THEN after # <<>> /\ AheadOf(r, lanes'[i].current, after[1])
                 ELSE lanes'[i].dest \in 1 .. N /\ r[lanes'[i].current] < lanes'[i].dest
  PROVE  LanesOnWay(w, r)'
<1>1. /\ pc = "term" /\ pc' = "block" /\ after' = after /\ pending' = pending /\ LanesOnWay(v, o)
      /\ Visiting /\ ~Visiting'
  BY DEF AtEnd, TrailMaps, Visiting
<1>2. OpenPending' = {}
  BY <1>1 DEF OpenPending, Good, PassInvariant, LanesLeadAhead
<1>3. \A b \in N + 1 .. Len(code) : b \in 1 .. Len(code) /\ w[b] = v[b] /\ r[b] = o[b]
  BY SizeFacts DEF Grown
<1>4. before # <<>> => before' # <<>> /\ before'[Len(before')] = before[Len(before)]
  BY InFrontList
<1>5. ASSUME NEW i \in OpenLanes'
      PROVE  /\ before' # <<>> /\ w[lanes'[i].current] = before'[Len(before')]
             /\ IF lanes'[i].taken THEN after # <<>> /\ AheadOf(r, lanes'[i].current, after[1])
                ELSE lanes'[i].dest \in 1 .. N /\ r[lanes'[i].current] < lanes'[i].dest
  <2>1. CASE i \in OpenLanes /\ lanes'[i] = lanes[i]
    <3>1. /\ before # <<>> /\ v[lanes[i].current] = before[Len(before)] /\ ~lanes[i].taken
          /\ lanes[i].dest \in 1 .. N /\ o[lanes[i].current] < lanes[i].dest
      BY <1>1, <2>1 DEF LanesOnWay
    <3>2. lanes[i].current \in N + 1 .. Len(code)
      BY <2>1, OpenFacts
    <3> QED
      BY <1>3, <1>4, <2>1, <3>1, <3>2
  <2> QED
    BY <1>4, <2>1
<1> QED
  BY <1>1, <1>2, <1>5 DEF LanesOnWay, AheadOf

\* New trampolines are entered through the fake block at hand.
LEMMA EndMaps ==
  ASSUME Good, NEW v, NEW o, TrailMaps(v, o), NEW m, AtEnd(m), FakesKept, BehindKept,
         \A b \in Len(code) + 1 .. Len(code') : code'[b] = <<>> \/ \E t : code'[b] = <<Jmp(t)>>
  PROVE  \E w, r : /\ Grown(v, o, w, r) /\ MapsOK(w, r)'
                   /\ \A b \in Len(code) + 1 .. Len(code') : w[b] = fakeBlock /\ r[b] = o[m]
<1>1. /\ pc = "term" /\ pc' = "block" /\ m = mbb /\ after' = after
      /\ Len(code') \in Nat /\ Len(code') >= Len(code) /\ Visiting /\ ~Visiting'
  BY DEF AtEnd, Visiting
<1>2. Len(code) \in Nat /\ m \in 1 .. Len(code) /\ o \in [1 .. Len(code) -> 1 .. N] /\ MapsOK(v, o)
  BY <1>1, AtHand, SizeFacts DEF TrailMaps, MapsOK
<1>3. PICK x, y : x = fakeBlock /\ y = o[m]
  OBVIOUS
<1>4. x \in 0 .. Len(code') /\ y \in 1 .. N
  <2>1. fakeBlock \in 0 .. Len(code)
    BY DEF Good, TypeOK
  <2> QED
    BY <1>1, <1>2, <1>3, <2>1
<1>5. \A b \in 1 .. Len(code) : b \in Ahead' => b \in Ahead
  BY <1>1 DEF Ahead
<1>6. \A b \in Len(code) + 1 .. Len(code') : ~Fake(b)' /\ b \notin Ahead'
  <2>1. \A b \in Ahead' : b \in Ahead
    BY <1>1 DEF Ahead
  <2>2. \A b \in Len(code) + 1 .. Len(code') : b \notin Ahead'
    BY <1>1, <1>2, <2>1, AheadFacts
  <2> QED
    BY <2>2, NoLoad DEF Fake
<1>7. \E w, r : /\ Grown(v, o, w, r) /\ MapsOK(w, r)'
                /\ \A b \in Len(code) + 1 .. Len(code') : w[b] = x /\ r[b] = y
  BY <1>1, <1>2, <1>4, <1>5, <1>6, ExtendMaps
<1> QED
  BY <1>3, <1>7

\* The block at hand loads new trampolines only.
LEMMA EndLoads ==
  ASSUME Good, NEW v, NEW o, NEW w, NEW r, TrailMaps(v, o), Grown(v, o, w, r), NEW m, AtEnd(m),
         \A b \in Len(code) + 1 .. Len(code') : w[b] = fakeBlock /\ r[b] = o[m],
         \A i \in 1 .. Len(code'[m]) : code'[m][i].op \in {"lea", "leatmp"} =>
           fakeBlock # Null /\ \A z \in code'[m][i].to : z \in Len(code) + 1 .. Len(code')
  PROVE  LoadsBehind(w, r, m)'
<1>1. /\ m = mbb /\ Visiting /\ Len(code') \in Nat /\ Len(code) \in Nat
  BY SizeFacts DEF AtEnd, Visiting
<1>2. m \in 1 .. Len(code) /\ r[m] = o[m]
  BY <1>1, AtHand DEF Grown
<1>3. ASSUME NEW i \in 1 .. Len(code'[m]), code'[m][i].op \in {"lea", "leatmp"}, NEW z \in code'[m][i].to
      PROVE  z \in 1 .. Len(code') /\ r[z] = r[m] /\ Behind(m, w[z])'
  <2>1. z \in Len(code) + 1 .. Len(code') /\ fakeBlock # Null
    BY <1>3
  <2>2. z \in 1 .. Len(code')
    BY <1>1, <2>1
  <2>3. w[z] = fakeBlock /\ r[z] = r[m]
    BY <1>2, <2>1
  <2>4. Behind(mbb, fakeBlock)
    BY <1>1, <2>1 DEF TrailMaps, ListOK, AtTheEndOf
  <2>5. Behind(m, w[z])'
    <3>1. PICK f : f = w[z]
      OBVIOUS
    <3>2. Behind(m, f)
      BY <1>1, <2>3, <2>4, <3>1
    <3> QED
      BY <3>1, <3>2 DEF Grown, BehindKept
  <2> QED
    BY <2>2, <2>3, <2>5
<1> QED
  BY <1>3 DEF LoadsBehind

\* The owner of the block at hand and the target of a branch at its end.
LEMMA BranchTarget ==
  ASSUME Good, NEW v, NEW o, TrailMaps(v, o), Visiting, NEW dst \in 1 .. N
  PROVE  IF dst \in processed THEN dst <= o[mbb] ELSE o[mbb] < dst
<1>1. CASE dst \in processed
  <2>1. dst <= N
    BY SizeFacts
  <2> QED
    BY <1>1, <2>1 DEF TrailMaps, OrderOK
<1>2. CASE dst \notin processed
  <2>1. dst \in Range(after)
    BY <1>2 DEF Good, PassInvariant, VisitedOrAhead
  <2>2. PICK k \in 1 .. Len(after) : after[k] = dst
    BY <2>1, ListFacts DEF Range
  <2>3. AheadOf(o, mbb, dst)
    BY <2>2 DEF TrailMaps, OrderOK
  <2>4. dst <= N
    BY SizeFacts
  <2> QED
    BY <1>2, <2>3, <2>4 DEF AheadOf
<1> QED
  BY <1>1, <1>2

\* A trampoline back to a block that has been visited.
LEMMA BackRoute ==
  ASSUME Good, NEW g, PathGoals(g), NEW v, NEW o, NEW w, NEW r, TrailMaps(v, o), Grown(v, o, w, r), MapsOK(w, r)',
         NEW z, NEW dst \in 1 .. N, code'[z] = <<Jmp(dst)>>, w[z] # Null, dst <= r[z]
  PROVE  Route(w, r, z)'
<1>1. N <= Len(code) /\ Len(code) <= Len(code') /\ N \in Nat /\ Len(code) \in Nat /\ Len(code') \in Nat
  BY SizeFacts DEF Grown
<1>2. dst \in 1 .. Len(code') /\ dst \in 1 .. Len(code) /\ dst <= N
  BY <1>1
<1>3. w[dst] = Null
  BY <1>2 DEF MapsOK
<1>4. ~Fake(dst)'
  BY <1>2 DEF PathGoals, GoalOK, Grown, FakesKept
<1>5. EndsAt(w, r, z)'
  BY <1>2, <1>3, <1>4 DEF EndsAt
<1> QED
  BY <1>5 DEF Route

LEMMA EndOfList ==
  ASSUME Good, NEW v, NEW o, TrailMaps(v, o), Visiting, fakeBlock # Null
  PROVE  before # <<>> /\ before[Len(before)] = fakeBlock
<1>1. Behind(mbb, fakeBlock) /\ before[Len(before)] = fakeBlock
  BY DEF TrailMaps, ListOK, AtTheEndOf
<1>2. Len(before) # 0
  BY <1>1, ListFacts DEF Behind
<1> QED
  BY <1>1, <1>2

\* The lane that arrived is replaced by l, and j may be added.
LEMMA TwoReplaced ==
  ASSUME Good, pc = "term", pc' = "block", NEW l \in Lane, NEW j \in Lane, NEW new \in BOOLEAN,
         lanes' = UpdateLane(l) \/ (lanes' = Append(UpdateLane(l), j) /\ new)
  PROVE  \A i \in OpenLanes' : (i \in OpenLanes /\ lanes'[i] = lanes[i]) \/ lanes'[i] = l \/ (lanes'[i] = j /\ new)
<1>1. CASE lanes' = UpdateLane(l)
  BY <1>1, ReplacedOpen
<1>2. CASE lanes' = Append(UpdateLane(l), j) /\ new
  <2> DEFINE u == UpdateLane(l)
  <2>1. /\ u \in Seq(Lane) /\ Len(u) = Len(lanes) /\ DOMAIN lanes = 1 .. Len(lanes) /\ Len(lanes) \in Nat
        /\ \A i \in 1 .. Len(lanes) : u[i] = IF i = takenLane THEN l ELSE lanes[i]
    BY LaneReplaced, SizeFacts
  <2> HIDE DEF u
  <2>2. /\ lanes' \in Seq(Lane) /\ Len(lanes') = Len(u) + 1 /\ \A i \in 1 .. Len(u) : lanes'[i] = u[i]
        /\ lanes'[Len(u) + 1] = j
    <3>1. lanes' = Append(u, j)
      BY <1>2 DEF u
    <3> QED
      BY <2>1, <3>1, ExtendFacts
  <2>3. \A i \in DOMAIN lanes' : i \in 1 .. Len(lanes) \/ i = Len(lanes) + 1
    BY <2>1, <2>2
  <2>4. \A i \in OpenLanes' : i \in DOMAIN lanes' /\ lanes'[i].current # Null
    BY DEF OpenLanes
  <2> QED
    BY <1>2, <2>1, <2>2, <2>3, <2>4 DEF OpenLanes
<1> QED
  BY <1>1, <1>2

LEMMA UnconditionalTrail ==
  ASSUME Good, Good', LayoutOK, PathInvariant, TrailInvariant, ReplaceUnconditionalJump
  PROVE  TrailInvariant'
<1>a. PICK v, o, g : TrailMaps(v, o) /\ PathGoals(g)
  BY DEF TrailInvariant, PathInvariant
<1>0. PICK m, z : m = mbb /\ z = Len(code) + 1
  OBVIOUS
<1> DEFINE x == Append(Front(code[m]), Lea(z))
<1>1. PICK dst \in last.to :
        /\ pc = "term" /\ pc' = "block" /\ UNCHANGED <<fn, after, pending, processed>>
        /\ last.op = "jmp" /\ Len(code') = z /\ before' = <<z>> \o before
        /\ \A b \in 1 .. Len(code) : code'[b] = IF b = m THEN x ELSE code[b]
        /\ IF dst \in processed
           THEN code'[z] = <<Jmp(dst)>> /\ lanes' = UpdateLane(DeadLane)
           ELSE code'[z] = <<>> /\ lanes' = UpdateLane([current |-> z, dest |-> dst, taken |-> FALSE])
  BY <1>0, UnconditionalEffect DEF TermUnchanged, IsUnconditionalBranch
<1>2. /\ Len(code) \in Nat /\ N \in Nat /\ N <= Len(code) /\ z \in Nat
      /\ Len(code') \in Nat /\ Len(code') >= Len(code) /\ Len(code') >= Len(code) + 1
      /\ Len(code) + 1 .. Len(code') = {z} /\ z \in 1 .. Len(code')
  BY <1>0, <1>1, SizeFacts
<1>3. /\ m \in 1 .. Len(code) /\ code[m] \in Seq(Instr) /\ code[m] # <<>> /\ SourceInstr(last) /\ Visiting
      /\ m \in Nat /\ \A i \in 1 .. Len(code[m]) : SourceInstr(code[m][i])
  BY <1>0, <1>1, <1>2, AtHand, TermVisiting DEF last
<1>4. dst \in 1 .. N
  BY <1>1, <1>3 DEF SourceInstr
<1>5. /\ x \in Seq(Instr) /\ Len(x) = Len(code[m]) /\ Len(code[m]) \in Nat /\ Len(code[m]) >= 1
      /\ x # <<>> /\ Last(x) = Lea(z)
      /\ \A q \in 1 .. Len(code[m]) - 1 : x[q] = code[m][q]
      /\ x[Len(code[m])] = Lea(z)
  <2>1. Lea(z) \in Instr
    BY <1>2, InstrType
  <2> QED
    BY <1>3, <2>1, ReplaceLast
<1>6. code'[m] = x
  BY <1>1, <1>3
<1> HIDE DEF x
<1>7. FakesKept
  <2>1. Last(x).op # "jmpreg"
    BY <1>5 DEF Lea
  <2> QED
    BY <1>0, <1>1, <1>3, <1>5, <2>1, TermKept
<1>8. InFront(1) /\ BehindKept
  <2>1. InFront(1)
    BY <1>0, <1>1, <1>2, OnePlaced
  <2> QED
    BY <2>1, InFrontList
<1>9. AtEnd(m)
  BY <1>0, <1>1, <1>2 DEF AtEnd
<1>10. PICK w, r : Grown(v, o, w, r) /\ MapsOK(w, r)' /\ w[z] = fakeBlock /\ r[z] = o[m]
  <2>1. \A b \in Len(code) + 1 .. Len(code') : code'[b] = <<>> \/ \E t : code'[b] = <<Jmp(t)>>
    BY <1>1, <1>2
  <2> QED
    BY <1>2, <1>7, <1>8, <1>9, <1>a, <2>1, EndMaps
<1>11. fakeBlock # Null
  BY <1>1, <1>3, FakeUnlessReturn
<1>12. IF dst \in processed THEN dst <= r[z] ELSE r[z] < dst
  BY <1>0, <1>3, <1>4, <1>10, <1>a, BranchTarget
<1>13. LoadsBehind(w, r, m)'
  <2>1. \A i \in 1 .. Len(x) : x[i].op \in {"lea", "leatmp"} => \A y \in x[i].to : y = z
    <3>1. \A i \in 1 .. Len(x) : i \in 1 .. Len(code[m]) - 1 \/ i = Len(code[m])
      BY <1>5
    <3>2. \A i \in 1 .. Len(code[m]) - 1 : i \in 1 .. Len(code[m])
      BY <1>5
    <3>3. \A i \in 1 .. Len(code[m]) - 1 : x[i].op \notin {"lea", "leatmp"}
      BY <1>3, <1>5, <3>2 DEF SourceInstr, SourceOps
    <3> QED
      BY <1>5, <3>1, <3>3 DEF Lea
  <2> QED
    BY <1>2, <1>6, <1>9, <1>10, <1>11, <1>a, <2>1, EndLoads
<1>14. ASSUME m > N PROVE Route(w, r, m)'
  <2>1. Len(code[m]) = 1
    BY <1>0, <1>1, <1>14, <1>a, SplitOff
  <2>2. Len(x) = 1 /\ x[1].op = "lea"
    BY <1>5, <2>1 DEF Lea
  <2>3. w[m] = Null
    BY <1>0, <1>3, <1>10, <1>a DEF Grown, TrailMaps, MapsOK, Ahead
  <2>4. SplitDone(w, r, m)'
    BY <1>6, <1>13, <2>2, <2>3 DEF SplitDone
  <2> QED
    BY <2>4 DEF Route
<1>15. code'[z] = <<>> \/ Route(w, r, z)'
  <2> SUFFICES ASSUME dst \in processed PROVE Route(w, r, z)'
    BY <1>1
  <2>1. code'[z] = <<Jmp(dst)>> /\ dst <= r[z] /\ w[z] # Null
    BY <1>1, <1>10, <1>11, <1>12
  <2> QED
    BY <1>4, <1>10, <1>a, <2>1, BackRoute
<1>16. LanesOnWay(w, r)'
  <2> DEFINE l == IF dst \in processed THEN DeadLane ELSE [current |-> z, dest |-> dst, taken |-> FALSE]
  <2>1. l \in Lane /\ (l.current # Null => ~l.taken /\ l.current = z /\ l.dest = dst /\ dst \notin processed)
    BY <1>2, <1>4 DEF Lane, DeadLane, Null
  <2>2. lanes' = UpdateLane(l)
    BY <1>1
  <2> HIDE DEF l
  <2>3. \A i \in OpenLanes' : \/ i \in OpenLanes /\ lanes'[i] = lanes[i]
                              \/ l.current # Null /\ lanes'[i] = l
    BY <1>1, <2>1, <2>2, ReplacedOpen
  <2>4. before # <<>> /\ before[Len(before)] = fakeBlock
    BY <1>3, <1>11, <1>a, EndOfList
  <2> QED
    BY <1>4, <1>8, <1>9, <1>10, <1>12, <1>a, <2>1, <2>3, <2>4, AtEndWay
<1>17. RoutesOK(w, r)' /\ LoadsOK(w, r)' /\ ListOK' /\ OrderOK(r)'
  BY <1>1, <1>2, <1>8, <1>9, <1>10, <1>13, <1>14, <1>15, <1>a, AtEndTrail
<1> QED
  BY <1>10, <1>16, <1>17 DEF TrailMaps, TrailInvariant

LEMMA TwoPlaced ==
  ASSUME Good, before' = <<Len(code) + 2, Len(code) + 1>> \o before, Len(code') = Len(code) + 2,
         code'[Len(code) + 1] = <<>>,
         code'[Len(code) + 2] = <<>> \/ \E t : code'[Len(code) + 2] = <<Jmp(t)>>
  PROVE  InFront(2)
<1>1. Placed(2)
  BY PlacedTwo
<1>2. before'[1] = Len(code) + 2 /\ before'[2] = Len(code) + 1
  <2> DEFINE y == Len(code) + 2
             z == Len(code) + 1
             u == <<y, z>>
  <2>1. before \in Seq(Nat) /\ y \in Nat /\ z \in Nat
    BY BeforeIsNat, SizeFacts
  <2>2. u \in Seq(Nat) /\ Len(u) = 2 /\ u[1] = y /\ u[2] = z /\ before' = u \o before
    BY <2>1
  <2> HIDE DEF y, z, u
  <2>3. before'[1] = u[1] /\ before'[2] = u[2]
    BY <2>1, <2>2, ConcatFacts
  <2> QED
    BY <2>2, <2>3 DEF y, z
<1>3. before'[1] # before'[2]
  BY <1>2, SizeFacts
<1>4. \A p, q \in 1 .. 2 : before'[p] = before'[q] => p = q
  <2>1. \A p \in 1 .. 2 : p = 1 \/ p = 2
    OBVIOUS
  <2> QED
    BY <1>3, <2>1
<1> QED
  BY <1>1, <1>4 DEF InFront

LEMMA ConditionalTrail ==
  ASSUME Good, Good', LayoutOK, PathInvariant, TrailInvariant, ReplaceConditionalBranch
  PROVE  TrailInvariant'
<1>a. PICK v, o, g : TrailMaps(v, o) /\ PathGoals(g)
  BY DEF TrailInvariant, PathInvariant
<1>0. PICK m, z, y : m = mbb /\ z = Len(code) + 1 /\ y = Len(code) + 2
  OBVIOUS
<1> DEFINE x == Front(code[m]) \o <<Lea(z), LeaTmp(y), CMov(last.cc)>>
           fall == [current |-> z, dest |-> Null, taken |-> TRUE]
<1>1. PICK dst \in last.to :
        /\ pc = "term" /\ pc' = "block" /\ UNCHANGED <<fn, after, pending, processed>>
        /\ IsConditionalBranch(last) /\ Len(code') = y /\ code'[z] = <<>> /\ before' = <<y, z>> \o before
        /\ \A b \in 1 .. Len(code) : code'[b] = IF b = m THEN x ELSE code[b]
        /\ IF dst \in processed
           THEN code'[y] = <<Jmp(dst)>> /\ lanes' = UpdateLane(fall)
           ELSE /\ code'[y] = <<>>
                /\ lanes' = Append(UpdateLane(fall), [current |-> y, dest |-> dst, taken |-> FALSE])
  BY <1>0, ConditionalEffect DEF TermUnchanged
<1>2. /\ Len(code) \in Nat /\ N \in Nat /\ N <= Len(code) /\ z \in Nat /\ y \in Nat
      /\ z \in 1 .. Len(code') /\ y \in 1 .. Len(code') /\ Len(code') \in Nat
      /\ z \in Len(code) + 1 .. Len(code') /\ y \in Len(code) + 1 .. Len(code')
      /\ Len(code') >= Len(code) /\ Len(code') = Len(code) + 2
      /\ \A b \in Len(code) + 1 .. Len(code') : b = z \/ b = y
  BY <1>0, <1>1, SizeFacts
<1>3. /\ m \in 1 .. Len(code) /\ code[m] \in Seq(Instr) /\ code[m] # <<>> /\ SourceInstr(last) /\ Visiting
      /\ m \in Nat /\ last.op # "tailcc" /\ \A i \in 1 .. Len(code[m]) : SourceInstr(code[m][i])
  BY <1>0, <1>1, <1>2, AtHand, TermVisiting DEF last
<1>4. last.op = "jcc" /\ dst \in 1 .. N /\ last.cc \in Conds \cup {NoCond}
  BY <1>1, <1>3 DEF SourceInstr, IsConditionalBranch, Instr
<1>5. m <= N
  BY <1>0, <1>1, <1>2, <1>3, <1>4, <1>a, SplitOff
<1>6. /\ x \in Seq(Instr) /\ Len(x) = Len(code[m]) + 2 /\ Len(code[m]) \in Nat /\ Len(code[m]) >= 1
      /\ x # <<>> /\ Last(x) = CMov(last.cc)
      /\ \A q \in 1 .. Len(code[m]) - 1 : x[q] = code[m][q]
      /\ x[Len(code[m])] = Lea(z) /\ x[Len(code[m]) + 1] = LeaTmp(y) /\ x[Len(code[m]) + 2] = CMov(last.cc)
  <2>1. Lea(z) \in Instr /\ LeaTmp(y) \in Instr /\ CMov(last.cc) \in Instr
    BY <1>2, <1>4, InstrType
  <2>0. PICK i, j, k, c : i = Lea(z) /\ j = LeaTmp(y) /\ k = CMov(last.cc) /\ c = code[m]
    OBVIOUS
  <2>2. ByThree(Front(c) \o <<i, j, k>>, c, i, j, k)
    <3>1. c \in Seq(Instr) /\ c # <<>> /\ i \in Instr /\ j \in Instr /\ k \in Instr
      BY <1>3, <2>0, <2>1
    <3> QED
      BY <3>1, ReplaceLastByThree
  <2>3. ByThree(x, c, i, j, k)
    BY <2>0, <2>2
  <2> HIDE DEF x
  <2> QED
    BY <2>0, <2>3, Zenon DEF ByThree
<1>7. code'[m] = x
  BY <1>1, <1>3
<1>8. FakesKept
  <2>1. Last(x).op # "jmpreg"
    BY <1>6 DEF CMov
  <2> HIDE DEF x
  <2> QED
    BY <1>0, <1>1, <1>3, <1>6, <2>1, TermKept
<1> HIDE DEF x, fall
<1>9. after # <<>>
  BY <1>0, <1>1, <1>4, <1>5, <1>a, OfSource
<1>10. InFront(2) /\ BehindKept
  <2>1. InFront(2)
    BY <1>0, <1>1, <1>2, TwoPlaced
  <2> QED
    BY <2>1, InFrontList
<1>11. AtEnd(m)
  BY <1>0, <1>1, <1>2 DEF AtEnd
<1>12. PICK w, r : Grown(v, o, w, r) /\ MapsOK(w, r)' /\ w[z] = fakeBlock /\ r[z] = o[m]
                   /\ w[y] = fakeBlock /\ r[y] = o[m]
                   /\ \A b \in Len(code) + 1 .. Len(code') : w[b] = fakeBlock /\ r[b] = o[m]
  <2>1. \A b \in Len(code) + 1 .. Len(code') : code'[b] = <<>> \/ \E t : code'[b] = <<Jmp(t)>>
    BY <1>1, <1>2
  <2>2. PICK w, r : /\ Grown(v, o, w, r) /\ MapsOK(w, r)'
                    /\ \A b \in Len(code) + 1 .. Len(code') : w[b] = fakeBlock /\ r[b] = o[m]
    BY <1>8, <1>10, <1>11, <1>a, <2>1, EndMaps
  <2> QED
    BY <1>2, <2>2
<1>13. fakeBlock # Null
  BY <1>3, <1>4, FakeUnlessReturn
<1>14. IF dst \in processed THEN dst <= r[y] ELSE r[y] < dst
  BY <1>0, <1>3, <1>4, <1>12, <1>a, BranchTarget
<1>15. LoadsBehind(w, r, m)'
  <2>1. \A i \in 1 .. Len(x) : x[i].op \in {"lea", "leatmp"} => \A b \in x[i].to : b = z \/ b = y
    <3>1. \A i \in 1 .. Len(x) : \/ i \in 1 .. Len(code[m]) - 1 \/ i = Len(code[m])
                                 \/ i = Len(code[m]) + 1 \/ i = Len(code[m]) + 2
      BY <1>6
    <3>2. \A i \in 1 .. Len(code[m]) - 1 : i \in 1 .. Len(code[m])
      BY <1>6
    <3>3. \A i \in 1 .. Len(code[m]) - 1 : x[i].op \notin {"lea", "leatmp"}
      BY <1>3, <1>6, <3>2 DEF SourceInstr, SourceOps
    <3> QED
      BY <1>6, <3>1, <3>3, SMTT(30) DEF Lea, LeaTmp, CMov
  <2>2. \A i \in 1 .. Len(x) : x[i].op \in {"lea", "leatmp"} =>
          fakeBlock # Null /\ \A b \in x[i].to : b \in Len(code) + 1 .. Len(code')
    BY <1>2, <1>13, <2>1
  <2> QED
    BY <1>7, <1>11, <1>12, <1>a, <2>2, EndLoads
<1>16. code'[y] = <<>> \/ Route(w, r, y)'
  <2> SUFFICES ASSUME dst \in processed PROVE Route(w, r, y)'
    BY <1>1
  <2>1. code'[y] = <<Jmp(dst)>> /\ dst <= r[y] /\ w[y] # Null
    BY <1>1, <1>12, <1>13, <1>14
  <2> QED
    BY <1>4, <1>12, <1>a, <2>1, BackRoute
<1>17. LanesOnWay(w, r)'
  <2> DEFINE j == [current |-> y, dest |-> dst, taken |-> FALSE]
  <2>1. fall \in Lane /\ fall.taken /\ fall.current = z
    BY <1>2 DEF Lane, Null, fall
  <2>2. j \in Lane /\ ~j.taken /\ j.current = y /\ j.dest = dst
    BY <1>2, <1>4 DEF Lane
  <2>4. lanes' = UpdateLane(fall) \/ (lanes' = Append(UpdateLane(fall), j) /\ dst \notin processed)
    BY <1>1
  <2> HIDE DEF j
  <2>5. \A i \in OpenLanes' : \/ i \in OpenLanes /\ lanes'[i] = lanes[i]
                              \/ lanes'[i] = fall \/ (lanes'[i] = j /\ dst \notin processed)
    <3>1. PICK new \in BOOLEAN : new = (dst \notin processed)
      OBVIOUS
    <3>2. \A i \in OpenLanes' : (i \in OpenLanes /\ lanes'[i] = lanes[i]) \/ lanes'[i] = fall \/ (lanes'[i] = j /\ new)
      <4>1. lanes' = UpdateLane(fall) \/ (lanes' = Append(UpdateLane(fall), j) /\ new)
        BY <2>4, <3>1, Zenon
      <4>2. pc = "term" /\ pc' = "block"
        BY <1>1
      <4> QED
        BY <2>1, <2>2, <4>1, <4>2, TwoReplaced, ZenonT(60)
    <3> QED
      BY <3>1, <3>2
  <2>6. before # <<>> /\ before[Len(before)] = fakeBlock
    BY <1>3, <1>13, <1>a, EndOfList
  <2>7. AheadOf(r, z, after[1])
    <3>1. 1 \in 1 .. Len(after)
      BY <1>9, ListFacts
    <3>2. AheadOf(o, m, after[1]) /\ after[1] \in 1 .. Len(code)
      BY <1>0, <1>3, <1>a, <3>1, ListFacts DEF TrailMaps, OrderOK
    <3> QED
      BY <1>12, <3>2 DEF AheadOf, Grown
  <2> QED
    BY <1>4, <1>9, <1>10, <1>11, <1>12, <1>14, <1>a, <2>1, <2>2, <2>5, <2>6, <2>7, AtEndWay
<1>18. RoutesOK(w, r)' /\ LoadsOK(w, r)' /\ ListOK' /\ OrderOK(r)'
  <2>1. ~(m > N)
    BY <1>2, <1>3, <1>5
  <2> QED
    BY <1>1, <1>2, <1>10, <1>11, <1>12, <1>15, <1>16, <1>a, <2>1, AtEndTrail
<1> QED
  BY <1>12, <1>17, <1>18 DEF TrailMaps, TrailInvariant

LEMMA NoBranchTrail ==
  ASSUME Good, Good', LayoutOK, PathInvariant, TrailInvariant, ReplaceNoBranchBlock
  PROVE  TrailInvariant'
<1>a. PICK v, o, g : TrailMaps(v, o) /\ PathGoals(g)
  BY DEF TrailInvariant, PathInvariant
<1>0. PICK m, z : m = mbb /\ z = Len(code) + 1
  OBVIOUS
<1> DEFINE falls == originalFallThrough # Null
           x == IF falls THEN Append(code[m], Lea(z)) ELSE code[m]
           l == IF falls THEN [current |-> z, dest |-> Null, taken |-> TRUE] ELSE DeadLane
<1>1. /\ pc = "term" /\ pc' = "block" /\ UNCHANGED <<fn, after, pending, processed>>
      /\ last.op \in {"body", "keep", "ret", "call"}
      /\ Len(code') = IF falls THEN z ELSE Len(code)
      /\ IF falls THEN code'[z] = <<>> /\ before' = <<z>> \o before ELSE before' = before
      /\ \A b \in 1 .. Len(code) : code'[b] = IF b = m THEN x ELSE code[b]
      /\ lanes' = UpdateLane(l)
  BY <1>0, NoBranchEffect DEF TermUnchanged
<1>2. /\ Len(code) \in Nat /\ N \in Nat /\ N <= Len(code) /\ z \in Nat /\ Len(code') \in Nat
      /\ Len(code') >= Len(code)
      /\ falls => z \in 1 .. Len(code') /\ Len(code') >= Len(code) + 1 /\ z \in Len(code) + 1 .. Len(code')
      /\ \A b \in Len(code) + 1 .. Len(code') : falls /\ b = z
  BY <1>0, <1>1, SizeFacts
<1>3. /\ m \in 1 .. Len(code) /\ code[m] \in Seq(Instr) /\ code[m] # <<>> /\ SourceInstr(last) /\ Visiting
      /\ m \in Nat /\ Len(code[m]) \in Nat /\ \A i \in 1 .. Len(code[m]) : SourceInstr(code[m][i])
  BY <1>0, <1>1, <1>2, AtHand, TermVisiting DEF last
<1>4. m <= N
  BY <1>0, <1>1, <1>2, <1>3, <1>a, SplitOff
<1>5. falls => after # <<>>
  BY <1>3 DEF LayoutOK, FallThroughAhead
<1>6. /\ x # <<>> /\ Last(x).op # "jmpreg" /\ code'[m] = x
      /\ falls => /\ Len(x) = Len(code[m]) + 1 /\ x[Len(code[m]) + 1] = Lea(z)
                  /\ \A q \in 1 .. Len(code[m]) : x[q] = code[m][q]
      /\ ~falls => x = code[m]
  <2>1. Lea(z) \in Instr /\ Lea(z).op # "jmpreg"
    BY <1>2, InstrType DEF Lea
  <2>2. CASE falls
    BY <1>1, <1>3, <2>1, <2>2, AppendOne
  <2>3. CASE ~falls
    <3>1. Last(code[m]).op # "jmpreg"
      BY <1>0, <1>1 DEF last
    <3> QED
      BY <1>1, <1>3, <2>3, <3>1
  <2> QED
    BY <2>2, <2>3
<1> HIDE DEF x
<1>7. FakesKept
  BY <1>0, <1>1, <1>3, <1>6, TermKept
<1>8. PICK n \in Nat : InFront(n) /\ BehindKept
  <2>1. CASE falls
    <3>1. InFront(1) /\ 1 \in Nat
      BY <1>0, <1>1, <1>2, <2>1, OnePlaced
    <3> QED
      BY <3>1, InFrontList
  <2>2. CASE ~falls
    <3>1. InFront(0) /\ 0 \in Nat
      BY <1>1, <2>2, NothingPlaced
    <3> QED
      BY <3>1, InFrontList
  <2> QED
    BY <2>1, <2>2
<1>9. AtEnd(m)
  BY <1>0, <1>1, <1>2 DEF AtEnd
<1>10. PICK w, r : Grown(v, o, w, r) /\ MapsOK(w, r)'
                   /\ \A b \in Len(code) + 1 .. Len(code') : w[b] = fakeBlock /\ r[b] = o[m]
  <2>1. \A b \in Len(code) + 1 .. Len(code') : code'[b] = <<>> \/ \E t : code'[b] = <<Jmp(t)>>
    BY <1>1, <1>2
  <2> HIDE DEF falls, l
  <2> QED
    BY <1>7, <1>8, <1>9, <1>a, <2>1, EndMaps
<1>11. falls => fakeBlock # Null
  BY <1>3, FakeUnlessReturn
<1>12. LoadsBehind(w, r, m)'
  <2>1. \A i \in 1 .. Len(x) : x[i].op \in {"lea", "leatmp"} =>
          falls /\ \A b \in x[i].to : b = z
    <3>1. \A i \in 1 .. Len(x) : i \in 1 .. Len(code[m]) \/ (falls /\ i = Len(code[m]) + 1)
      <4>1. CASE falls
        BY <1>3, <1>6, <4>1
      <4>2. CASE ~falls
        BY <1>6, <4>2
      <4> QED
        BY <4>1, <4>2
    <3>2. \A i \in 1 .. Len(code[m]) : x[i] = code[m][i]
      BY <1>6
    <3>3. \A i \in 1 .. Len(code[m]) : x[i].op \notin {"lea", "leatmp"}
      BY <1>3, <3>2 DEF SourceInstr, SourceOps
    <3> QED
      BY <1>6, <3>1, <3>3 DEF Lea
  <2>2. \A i \in 1 .. Len(x) : x[i].op \in {"lea", "leatmp"} =>
          fakeBlock # Null /\ \A b \in x[i].to : b \in Len(code) + 1 .. Len(code')
    BY <1>2, <1>11, <2>1
  <2> HIDE DEF falls, l
  <2> QED
    BY <1>6, <1>9, <1>10, <1>a, <2>2, EndLoads
<1>13. LanesOnWay(w, r)'
  <2>1. l \in Lane /\ (l.current # Null => l.taken /\ l.current = z /\ falls)
    BY <1>2 DEF Lane, DeadLane, Null
  <2>2. falls => before # <<>> /\ before[Len(before)] = fakeBlock
    BY <1>3, <1>11, <1>a, EndOfList
  <2>3. falls => AheadOf(r, z, after[1]) /\ w[z] = fakeBlock
    <3> SUFFICES ASSUME falls PROVE AheadOf(r, z, after[1]) /\ w[z] = fakeBlock
      OBVIOUS
    <3>1. 1 \in 1 .. Len(after)
      BY <1>5, ListFacts
    <3>2. AheadOf(o, m, after[1]) /\ after[1] \in 1 .. Len(code)
      BY <1>0, <1>3, <1>a, <3>1, ListFacts DEF TrailMaps, OrderOK
    <3>3. w[z] = fakeBlock /\ r[z] = o[m]
      BY <1>2, <1>10
    <3> QED
      BY <1>10, <3>2, <3>3 DEF AheadOf, Grown
  <2> HIDE DEF l, falls
  <2>4. \A i \in OpenLanes' : \/ i \in OpenLanes /\ lanes'[i] = lanes[i]
                              \/ l.current # Null /\ lanes'[i] = l
    BY <1>1, <2>1, ReplacedOpen
  <2> QED
    BY <1>5, <1>8, <1>9, <1>10, <1>a, <2>1, <2>2, <2>3, <2>4, AtEndWay
<1>14. RoutesOK(w, r)' /\ LoadsOK(w, r)' /\ ListOK' /\ OrderOK(r)'
  <2>1. ~(m > N)
    BY <1>2, <1>3, <1>4
  <2>2. \A b \in Len(code) + 1 .. Len(code') : code'[b] = <<>>
    BY <1>1, <1>2
  <2> HIDE DEF l, falls
  <2> QED
    BY <1>1, <1>8, <1>9, <1>10, <1>12, <1>a, <2>1, <2>2, AtEndTrail
<1> QED
  BY <1>10, <1>13, <1>14 DEF TrailMaps, TrailInvariant

LEMMA IndirectTrail ==
  ASSUME Good, Good', PathInvariant, TrailInvariant, ReplaceIndirectJump
  PROVE  TrailInvariant'
<1>a. PICK v, o, g : TrailMaps(v, o) /\ PathGoals(g)
  BY DEF TrailInvariant, PathInvariant
<1>0. PICK m : m = mbb
  OBVIOUS
<1>1. /\ pc = "term" /\ pc' = "block" /\ UNCHANGED <<fn, after, pending, code, before, processed>>
      /\ last.op = "ind" /\ lanes' = UpdateLane(DeadLane)
  BY IndirectEffect DEF TermUnchanged
<1>2. /\ N \in Nat /\ Len(code) \in Nat /\ Len(code') \in Nat /\ Len(code') >= Len(code)
      /\ Len(code) + 1 .. Len(code') = {}
  BY <1>1, SizeFacts
<1>3. /\ m \in 1 .. Len(code) /\ m \in Nat /\ Len(code[m]) \in Nat
      /\ \A i \in 1 .. Len(code[m]) : SourceInstr(code[m][i])
  BY <1>0, <1>1, AtHand, TermVisiting
<1>4. m <= N
  BY <1>0, <1>1, <1>2, <1>3, <1>a, SplitOff
<1>5. InFront(0) /\ BehindKept /\ FakesKept /\ AtEnd(m)
  BY <1>0, <1>1, <1>2, NothingPlaced, InFrontList DEF FakesKept, Fake, AtEnd
<1>6. PICK w, r : /\ Grown(v, o, w, r) /\ MapsOK(w, r)'
                  /\ \A b \in Len(code) + 1 .. Len(code') : w[b] = fakeBlock /\ r[b] = o[m]
  BY <1>2, <1>5, <1>a, EndMaps
<1>7. LoadsBehind(w, r, m)'
  <2>1. \A i \in 1 .. Len(code'[m]) : code'[m][i].op \notin {"lea", "leatmp"}
    BY <1>1, <1>3 DEF SourceInstr, SourceOps
  <2> QED
    BY <1>5, <1>6, <1>a, <2>1, EndLoads
<1>8. LanesOnWay(w, r)'
  <2>1. DeadLane \in Lane /\ DeadLane.current = Null
    BY DEF Lane, DeadLane, Null
  <2>2. \A i \in OpenLanes' : i \in OpenLanes /\ lanes'[i] = lanes[i]
    BY <1>1, <2>1, ReplacedOpen
  <2> QED
    BY <1>5, <1>6, <1>a, <2>2, AtEndWay
<1>9. RoutesOK(w, r)' /\ LoadsOK(w, r)' /\ ListOK' /\ OrderOK(r)'
  <2>1. ~(m > N)
    BY <1>2, <1>3, <1>4
  <2> QED
    BY <1>1, <1>2, <1>5, <1>6, <1>7, <1>a, <2>1, AtEndTrail
<1> QED
  BY <1>6, <1>8, <1>9 DEF TrailMaps, TrailInvariant

(***************************************************************************)
(* The other steps.                                                        *)
(***************************************************************************)
\* A block is added to the list, and its fake block behind it.
LEMMA NextBlockList ==
  ASSUME Good, LayoutOK, NextBlock, NEW b, b = Head(after), NEW f, f = Len(code) + 1, NEW k, k = Len(before)
  PROVE  /\ k \in Nat /\ f \in Nat /\ b \in 1 .. Len(code) /\ b = after[1]
         /\ Len(before') \in {k + 1, k + 2} /\ Len(before') \in Nat
         /\ \A p \in 1 .. k : before'[p] = before[p] /\ before[p] \in 1 .. Len(code) /\ before[p] # b
         /\ before'[k + 1] = b
         /\ fakeBlock' # Null => Len(before') = k + 2 /\ fakeBlock' = before'[k + 2]
         /\ Len(before') = k + 2 => before'[k + 2] = f
<1>1. /\ after # <<>>
      /\ \/ fakeBlock' = f /\ before' = before \o <<b, f>>
         \/ fakeBlock' = Null /\ before' = Append(before, b)
  BY NextBlockEffect
<1>2. /\ b = after[1] /\ b \in Range(after)
  BY <1>1, ListFacts, TailFacts
<1>3. /\ k \in Nat /\ f \in Nat /\ \A p \in 1 .. k : before[p] \in 1 .. Len(code)
      /\ b \in 1 .. Len(code) /\ before \in Seq(Nat) /\ b \in Nat
  BY <1>2, ListFacts, SizeFacts, BeforeIsNat, RangeFacts DEF Blocks
<1>4. \A p \in 1 .. k : before[p] # b
  BY <1>2 DEF LayoutOK, PlacedOrAhead
<1>5. /\ Len(before') \in {k + 1, k + 2} /\ Len(before') \in Nat
      /\ \A p \in 1 .. k : before'[p] = before[p]
      /\ before'[k + 1] = b
      /\ fakeBlock' # Null => Len(before') = k + 2 /\ fakeBlock' = before'[k + 2]
      /\ Len(before') = k + 2 => before'[k + 2] = f
  <2>1. CASE fakeBlock' = f /\ before' = before \o <<b, f>>
    <3> DEFINE u == before \o <<b, f>>
    <3>1. /\ Len(u) = k + 2 /\ \A p \in 1 .. k : u[p] = before[p]
          /\ u[k + 1] = b /\ u[k + 2] = f
      BY <1>3, ExtendTwoFacts
    <3>2. before' = u
      BY <2>1
    <3> HIDE DEF u
    <3> QED
      BY <1>3, <2>1, <3>1, <3>2
  <2>2. CASE fakeBlock' = Null /\ before' = Append(before, b)
    <3> DEFINE u == Append(before, b)
    <3>1. /\ Len(u) = k + 1 /\ \A p \in 1 .. k : u[p] = before[p]
          /\ u[k + 1] = b
      BY <1>3, ExtendFacts
    <3>2. before' = u
      BY <2>2
    <3> HIDE DEF u
    <3> QED
      BY <1>3, <2>2, <3>1, <3>2
  <2> QED
    BY <1>1, <2>1, <2>2
<1> QED
  BY <1>2, <1>3, <1>4, <1>5

LEMMA NextBlockListOK ==
  ASSUME Good, LayoutOK, ListOK, NextBlock
  PROVE  ListOK' /\ BehindKept
<1>1. PICK b, f, k : b = Head(after) /\ f = Len(code) + 1 /\ k = Len(before)
  OBVIOUS
<1>2. /\ k \in Nat /\ f \in Nat /\ b \in 1 .. Len(code)
      /\ Len(before') \in {k + 1, k + 2} /\ Len(before') \in Nat
      /\ \A p \in 1 .. k : before'[p] = before[p] /\ before[p] \in 1 .. Len(code) /\ before[p] # b
      /\ before'[k + 1] = b
      /\ fakeBlock' # Null => Len(before') = k + 2 /\ fakeBlock' = before'[k + 2]
      /\ Len(before') = k + 2 => before'[k + 2] = f
  BY <1>1, NextBlockList
<1>3. \A p \in 1 .. Len(before') : \/ p \in 1 .. k \/ p = k + 1
                                   \/ (p = k + 2 /\ Len(before') = k + 2)
  BY <1>2
<1>4. \A p \in 1 .. k : p \in 1 .. Len(before') /\ p # k + 1 /\ p # k + 2
  BY <1>2
<1>5. f \notin 1 .. Len(code)
  BY <1>1, SizeFacts
<1>6. BehindKept
  <2> SUFFICES ASSUME NEW x, NEW y, Behind(x, y) PROVE Behind(x, y)'
    BY DEF BehindKept
  <2>1. PICK p \in 1 .. k : p < k /\ before[p] = x /\ before[p + 1] = y
    BY <1>1 DEF Behind
  <2>2. p + 1 \in 1 .. k /\ p < Len(before')
    BY <1>2, <2>1
  <2> QED
    BY <1>2, <1>4, <2>1, <2>2 DEF Behind
<1>7. Once'
  <2> SUFFICES ASSUME NEW p \in 1 .. Len(before'), NEW q \in 1 .. Len(before'), before'[p] = before'[q]
               PROVE  p = q
    BY DEF Once
  <2>1. ASSUME NEW i \in 1 .. k, NEW j \in 1 .. k, before'[i] = before'[j] PROVE i = j
    BY <1>1, <1>2, <2>1 DEF ListOK, Once
  <2>2. \A i \in 1 .. k : before'[i] \in 1 .. Len(code) /\ before'[i] # b
    BY <1>2
  <2>3. before'[k + 1] = b /\ b \in 1 .. Len(code)
    BY <1>2
  <2>4. Len(before') = k + 2 => before'[k + 2] \notin 1 .. Len(code)
    BY <1>2, <1>5
  <2>5. CASE p \in 1 .. k
    BY <1>3, <2>1, <2>2, <2>3, <2>4, <2>5
  <2>6. CASE p = k + 1
    BY <1>3, <2>2, <2>3, <2>4, <2>6
  <2>7. CASE p = k + 2 /\ Len(before') = k + 2
    BY <1>3, <2>2, <2>3, <2>4, <2>7
  <2> QED
    BY <1>3, <2>5, <2>6, <2>7
<1>8. VisitedPlaced'
  <2>1. processed' = processed \cup {b}
    BY <1>1 DEF NextBlock
  <2>2. ASSUME NEW x \in processed PROVE \E p \in 1 .. Len(before') : before'[p] = x
    <3>1. PICK p \in 1 .. k : before[p] = x
      BY <1>1 DEF ListOK, VisitedPlaced
    <3> QED
      BY <1>2, <1>4, <3>1
  <2>3. \E p \in 1 .. Len(before') : before'[p] = b
    <3>1. k + 1 \in 1 .. Len(before')
      BY <1>2
    <3> QED
      BY <1>2, <3>1
  <2> QED
    BY <2>1, <2>2, <2>3 DEF VisitedPlaced
<1>9. AtTheEndOf'
  <2> SUFFICES ASSUME fakeBlock' # Null
               PROVE  /\ \E p \in 1 .. Len(before') : p < Len(before') /\ before'[p] = mbb' /\ before'[p + 1] = fakeBlock'
                      /\ before'[Len(before')] = fakeBlock'
    BY DEF AtTheEndOf, Behind
  <2>1. mbb' = b
    BY <1>1, NextBlockEffect
  <2>2. k + 1 \in 1 .. Len(before') /\ k + 1 < Len(before') /\ (k + 1) + 1 = Len(before')
    BY <1>2
  <2> QED
    BY <1>2, <2>1, <2>2
<1> QED
  BY <1>6, <1>7, <1>8, <1>9 DEF ListOK

LEMMA NextBlockTrail ==
  ASSUME Good, Good', LayoutOK, TrailInvariant, NextBlock
  PROVE  TrailInvariant'
<1>a. PICK v, o : TrailMaps(v, o)
  BY DEF TrailInvariant
<1>b. PICK b : b = Head(after)
  OBVIOUS
<1>1. /\ pc = "block" /\ pc' = "lanes" /\ after # <<>> /\ mbb' = b /\ after' = Tail(after) /\ fn' = fn
      /\ pending' = lanes /\ lanes' = <<>>
      /\ \A c \in 1 .. Len(code) : code'[c] = code[c]
      /\ \/ Len(code') = Len(code) + 1 /\ code'[Len(code) + 1] = <<JmpTarget>>
         \/ Len(code') = Len(code)
  BY <1>b, NextBlockEffect
<1>c. processed' = processed \cup {b}
  BY <1>b DEF NextBlock
<1>2. FakesKept
  BY NextBlockKept
<1>3. /\ Len(code') \in Nat /\ Len(code') >= Len(code) /\ Len(code) \in Nat /\ N \in Nat /\ N <= Len(code)
      /\ Len(code) + 1 .. Len(code') \subseteq {Len(code) + 1} /\ N + 1 .. Len(code) \subseteq 1 .. Len(code)
      /\ 1 .. N \subseteq 1 .. Len(code) /\ Null \in 0 .. Len(code') /\ 1 \in 1 .. N
  BY <1>1, SizeFacts DEF Null
<1>4. /\ b = after[1] /\ Len(after) >= 1 /\ Len(after') = Len(after) - 1 /\ Len(after) \in Nat
      /\ \A i \in 1 .. Len(after) - 1 : after'[i] = after[i + 1]
      /\ Range(after) = {b} \cup Range(after') /\ b \in 1 .. Len(code)
      /\ \A k \in 1 .. Len(after) : after[k] \in 1 .. Len(code)
  BY <1>1, <1>b, ListFacts, TailFacts
<1>5. Visiting' /\ ~Visiting /\ Ahead' = Ahead
  BY <1>1, <1>4 DEF Visiting, Ahead
<1>6. ListOK' /\ BehindKept
  BY <1>a, NextBlockListOK DEF TrailMaps
<1>7. PICK w, r : Grown(v, o, w, r) /\ MapsOK(w, r)'
  <2>1. MapsOK(v, o) /\ \A c \in 1 .. Len(code) : c \in Ahead' => c \in Ahead
    BY <1>a, <1>5 DEF TrailMaps
  <2>2. PICK x \in 0 .. Len(code') : x = Null
    BY <1>3
  <2> QED
    BY <1>2, <1>3, <1>6, <2>1, <2>2, ExtendMaps
<1>8. RoutesOK(w, r)'
  <2>1. \A c \in Len(code) + 1 .. Len(code') : code'[c] = <<JmpTarget>>
    BY <1>1, <1>3
  <2>2. \A c \in N + 1 .. Len(code) : code'[c] = code[c]
    BY <1>1, <1>3
  <2> QED
    BY <1>5, <1>7, <1>a, <2>1, <2>2, RoutesStep DEF TrailMaps
<1>9. LoadsOK(w, r)'
  <2>1. \A c \in 1 .. N : code'[c] = code[c]
    BY <1>1, <1>3
  <2> QED
    BY <1>5, <1>7, <1>a, <2>1, LoadsStep DEF TrailMaps
<1>10. OrderOK(r)'
  <2>1. \A k \in 1 .. Len(after') : k + 1 \in 1 .. Len(after) /\ after'[k] = after[k + 1] /\ after'[k] \in 1 .. Len(code)
    BY <1>4
  <2>2. \A k \in 1 .. Len(after) : r[after[k]] = o[after[k]]
    BY <1>4, <1>7 DEF Grown
  <2>3. r[b] = o[b] /\ \A c \in processed : c <= N => c <= o[b]
    <3>1. 1 \in 1 .. Len(after)
      BY <1>4
    <3> QED
      BY <1>4, <1>5, <1>a, <2>2, <3>1 DEF TrailMaps, OrderOK
  <2>4. \A j, k \in 1 .. Len(after) : j < k => after[k] <= N /\ o[after[j]] < after[k]
    BY <1>a DEF TrailMaps, OrderOK
  <2>5. \A j, k \in 1 .. Len(after') : j < k => after'[k] <= N /\ r[after'[j]] < after'[k]
    <3> SUFFICES ASSUME NEW j \in 1 .. Len(after'), NEW k \in 1 .. Len(after'), j < k
                 PROVE  after'[k] <= N /\ r[after'[j]] < after'[k]
      OBVIOUS
    <3>1. PICK i, h \in 1 .. Len(after) : i = j + 1 /\ h = k + 1 /\ i < h /\ after'[j] = after[i] /\ after'[k] = after[h]
      BY <1>4, <2>1
    <3> QED
      BY <2>2, <2>4, <3>1
  <2>6. \A k \in 1 .. Len(after') : after'[k] <= N /\ o[b] < after'[k]
    <3> SUFFICES ASSUME NEW k \in 1 .. Len(after') PROVE after'[k] <= N /\ o[b] < after'[k]
      OBVIOUS
    <3>1. PICK i, h \in 1 .. Len(after) : i = 1 /\ h = k + 1 /\ i < h /\ b = after[i] /\ after'[k] = after[h]
      BY <1>4, <2>1
    <3> QED
      BY <2>4, <3>1
  <2>7. \A k \in 1 .. Len(after') : AheadOf(r, mbb', after'[k])
    BY <1>1, <2>3, <2>6 DEF AheadOf
  <2>8. after' # <<>> => ~(after'[1] > N)
    <3>1. after' # <<>> => 1 \in 1 .. Len(after')
      BY <1>1, ListFacts, TailFacts
    <3> QED
      BY <1>3, <1>4, <2>1, <2>6, <3>1
  <2>9. \A c \in processed' : c <= N => c <= r[mbb']
    <3>1. b <= N => o[b] = b
      BY <1>3, <1>4, <1>a DEF TrailMaps, MapsOK
    <3>2. b <= N => b <= o[b]
      BY <1>3, <1>4, <3>1
    <3> QED
      BY <1>1, <1>c, <2>3, <3>2
  <2> QED
    BY <1>5, <2>5, <2>7, <2>8, <2>9 DEF OrderOK, AheadOf
<1>11. LanesOnWay(w, r)'
  <2>1. OpenLanes' = {} /\ OpenPending' = OpenLanes
    BY <1>1 DEF OpenLanes, OpenPending
  <2>2. ASSUME NEW i \in OpenLanes
        PROVE  /\ \E k \in 1 .. Len(before') : /\ k < Len(before') /\ before'[k] = w[lanes[i].current]
                                             /\ before'[k + 1] = b
               /\ IF lanes[i].taken THEN AheadOf(r, lanes[i].current, b)
                  ELSE lanes[i].dest \in 1 .. N /\ r[lanes[i].current] < lanes[i].dest
    <3>1. PICK c \in 1 .. Len(code) : c = lanes[i].current
      BY OpenFacts, SizeFacts
    <3>2. /\ before # <<>> /\ v[c] = before[Len(before)]
          /\ IF lanes[i].taken THEN AheadOf(o, c, b) ELSE lanes[i].dest \in 1 .. N /\ o[c] < lanes[i].dest
      BY <1>4, <1>a, <3>1 DEF TrailMaps, LanesOnWay
    <3>3. w[c] = v[c] /\ r[c] = o[c]
      BY <1>7 DEF Grown
    <3>4. AheadOf(r, c, b) <=> AheadOf(o, c, b)
      BY <1>4, <1>7, AheadOfFrame
    <3>5. \E k \in 1 .. Len(before') : k < Len(before') /\ before'[k] = w[c] /\ before'[k + 1] = b
      <4>1. PICK k, f : k = Len(before) /\ f = Len(code) + 1
        OBVIOUS
      <4>2. k \in Nat /\ k # 0
        BY <3>2, <4>1, ListFacts
      <4>3. /\ Len(before') \in {k + 1, k + 2} /\ Len(before') \in Nat
            /\ \A p \in 1 .. k : before'[p] = before[p]
            /\ before'[k + 1] = b
        BY <1>b, <4>1, NextBlockList
      <4>4. k \in 1 .. k /\ k \in 1 .. Len(before') /\ k < Len(before')
        BY <4>2, <4>3
      <4>5. before'[k] = w[c]
        BY <3>2, <3>3, <4>1, <4>3, <4>4
      <4> QED
        BY <4>3, <4>4, <4>5
    <3>6. IF lanes[i].taken THEN AheadOf(r, c, b) ELSE lanes[i].dest \in 1 .. N /\ r[c] < lanes[i].dest
      BY <3>2, <3>3, <3>4
    <3> QED
      BY <3>1, <3>5, <3>6
  <2>3. pending' = lanes /\ mbb' = b
    BY <1>1
  <2>4. \A i \in OpenPending' : /\ Behind(w[pending[i].current], mbb)'
                                /\ IF pending'[i].taken THEN AheadOf(r, pending'[i].current, mbb')
                                   ELSE pending'[i].dest \in 1 .. N /\ r[pending'[i].current] < pending'[i].dest
    <3> SUFFICES ASSUME NEW i \in OpenPending'
                 PROVE  /\ Behind(w[pending[i].current], mbb)'
                        /\ IF pending'[i].taken THEN AheadOf(r, pending'[i].current, mbb')
                           ELSE pending'[i].dest \in 1 .. N /\ r[pending'[i].current] < pending'[i].dest
      OBVIOUS
    <3>1. i \in OpenLanes
      BY <2>1
    <3>2. \E k \in 1 .. Len(before') : /\ k < Len(before') /\ before'[k] = w[lanes[i].current]
                                         /\ before'[k + 1] = b
      BY <2>2, <3>1
    <3>3. Behind(w[pending[i].current], mbb)'
      BY <2>3, <3>2 DEF Behind
    <3> QED
      BY <2>2, <2>3, <3>1, <3>3
  <2> QED
    BY <2>1, <2>4 DEF LanesOnWay, AheadOf
<1> QED
  BY <1>6, <1>7, <1>8, <1>9, <1>10, <1>11 DEF TrailMaps, TrailInvariant

LEMMA SplitTrail ==
  ASSUME Good, Good', PathInvariant, TrailInvariant, SplitJump
  PROVE  TrailInvariant'
<1>a. PICK v, o, g : TrailMaps(v, o) /\ PathGoals(g)
  BY DEF TrailInvariant, PathInvariant
<1>0. PICK m, z : m = mbb /\ z = Len(code) + 1
  OBVIOUS
<1> DEFINE s == code[m]
           x == Front(s)
<1>1. /\ pc = "term" /\ pc' = "term" /\ last.op = "jmp" /\ Len(s) > 1 /\ IsConditionalBranch(s[Len(s) - 1])
      /\ UNCHANGED <<fn, before, lanes, pending, takenLane, mbb, fakeBlock>>
      /\ Len(code') = z /\ code'[z] = <<last>>
      /\ \A b \in 1 .. Len(code) : code'[b] = IF b = m THEN x ELSE code[b]
      /\ after' = <<z>> \o after
  BY <1>0, SplitEffect DEF IsUnconditionalBranch
<1>p. processed' = processed
  BY DEF SplitJump
<1>2. /\ Len(code) \in Nat /\ N \in Nat /\ N <= Len(code) /\ z \in Nat /\ z \in N + 1 .. Len(code')
      /\ Len(code') \in Nat /\ Len(code') >= Len(code) /\ Len(code') >= Len(code) + 1
      /\ Len(code) + 1 .. Len(code') = {z} /\ 1 .. N \subseteq 1 .. Len(code)
      /\ N + 1 .. Len(code) \subseteq 1 .. Len(code) /\ z \notin 1 .. Len(code)
      /\ Null \in 0 .. Len(code')
  BY <1>0, <1>1, SizeFacts DEF Null
<1>3. /\ m \in 1 .. Len(code) /\ s \in Seq(Instr) /\ s # <<>> /\ SourceInstr(last) /\ Visiting /\ Visiting'
      /\ m \in Nat /\ Len(s) \in Nat
  BY <1>0, <1>1, <1>2, AtHand, TermVisiting DEF last, Visiting
<1>4. m \in 1 .. N
  <2>1. m > N => Len(code[m]) = 1
    BY <1>0, <1>1, <1>a, SplitOff
  <2>2. PICK n \in Nat : n = Len(code[m]) /\ n > 1
    BY <1>1, <1>3
  <2>3. ASSUME m > N PROVE FALSE
    <3>1. Len(code[m]) = 1
      BY <2>1, <2>3
    <3>2. n = 1
      BY <2>2, <3>1
    <3> QED
      BY <2>2, <3>2
  <2>4. N \in Nat /\ Len(code) \in Nat /\ m \in 1 .. Len(code)
    BY <1>2, <1>3
  <2> QED
    BY <2>3, <2>4
<1>5. /\ x \in Seq(Instr) /\ Len(x) = Len(s) - 1
      /\ \A i \in 1 .. Len(s) - 1 : x[i] = s[i]
  BY <1>3, FrontFacts
<1>6. code'[m] = x
  BY <1>1, <1>3
<1> HIDE DEF x, s
<1>7. /\ Len(s) - 1 \in 1 .. Len(s) /\ Len(s) - 1 \in 1 .. Len(s) - 1 /\ Len(x) >= 1
  BY <1>1, <1>3, <1>5
<1>8. x # <<>> /\ Last(x) = x[Len(s) - 1] /\ Last(x).op = "jcc"
  <2>1. x # <<>>
    BY <1>5, <1>7
  <2>2. Last(x) = x[Len(s) - 1]
    BY <1>5 DEF Last
  <2>3. s[Len(s) - 1].op = "jcc"
    <3>1. \A i \in 1 .. Len(s) : s[i].op # "tailcc"
      BY <1>0, <1>3, AtHand DEF s
    <3>2. IsConditionalBranch(s[Len(s) - 1]) /\ Len(s) - 1 \in 1 .. Len(s)
      BY <1>1, <1>7
    <3> QED
      BY <3>1, <3>2 DEF IsConditionalBranch
  <2> QED
    BY <1>5, <1>7, <2>1, <2>2, <2>3
<1>9. FakesKept
  <2>1. Last(x).op # "jmpreg"
    BY <1>8
  <2> QED
    BY <1>0, <1>1, <1>3, <1>8, <2>1, TermKept
<1>10. /\ Range(after') = {z} \cup Range(after) /\ after' # <<>> /\ after'[1] = z
       /\ Len(after') = Len(after) + 1 /\ Len(after) \in Nat
       /\ \A i \in 1 .. Len(after) : after'[i + 1] = after[i]
  <2>1. after \in Seq(Nat)
    BY ListFacts, <1>2 DEF Blocks
  <2> DEFINE u == <<z>> \o after
  <2>2. /\ Len(u) = Len(after) + 1 /\ u[1] = z /\ u \in Seq(Nat)
        /\ Range(u) = {z} \cup Range(after)
        /\ \A i \in 1 .. Len(after) : u[i + 1] = after[i]
    BY <1>2, <2>1, ConsFacts
  <2>3. u # <<>>
    BY <2>1
  <2>4. after' = u
    BY <1>1
  <2> HIDE DEF u
  <2> QED
    BY <2>1, <2>2, <2>3, <2>4, ListFacts
<1>11. Ahead' = Ahead \cup {z} /\ m \in Ahead
  BY <1>0, <1>1, <1>3, <1>10 DEF Ahead
<1>12. ListOK' /\ BehindKept
  BY <1>1, <1>3, <1>a, <1>p, NothingPlaced, ListStep DEF TrailMaps
<1>13. PICK w, r : Grown(v, o, w, r) /\ MapsOK(w, r)' /\ w[z] = Null /\ r[z] = m
  <2>1. \A b \in 1 .. Len(code) : b \in Ahead' => b \in Ahead
    BY <1>2, <1>11
  <2>2. PICK e \in 0 .. Len(code') : e = Null
    BY <1>2
  <2>3. MapsOK(v, o)
    BY <1>a DEF TrailMaps
  <2> QED
    BY <1>2, <1>4, <1>9, <1>12, <2>1, <2>2, <2>3, ExtendMaps
<1>14. o[m] = m /\ r[m] = m
  BY <1>3, <1>4, <1>13, <1>a DEF TrailMaps, MapsOK, Grown
<1>15. RoutesOK(w, r)'
  <2>1. \A b \in N + 1 .. Len(code) : b # m
    BY <1>2, <1>4
  <2>2. \A b \in N + 1 .. Len(code) : code'[b] = code[b]
    BY <1>1, <1>2, <2>1
  <2>3. \A b \in Len(code) + 1 .. Len(code') : b \in Ahead'
    BY <1>2, <1>11
  <2> QED
    BY <1>11, <1>13, <1>a, <2>2, <2>3, RoutesStep DEF TrailMaps
<1>16. LoadsOK(w, r)'
  <2>1. \A b \in 1 .. N : b \in Ahead \/ code'[b] = code[b]
    BY <1>1, <1>2, <1>11
  <2> QED
    BY <1>11, <1>13, <1>a, <2>1, LoadsStep DEF TrailMaps
<1>17. \A k \in 1 .. Len(after) : after[k] \in 1 .. Len(code) /\ r[after[k]] = o[after[k]]
  BY <1>13, ListFacts DEF Grown
<1>18. /\ \A j, k \in 1 .. Len(after) : j < k => after[k] <= N /\ o[after[j]] < after[k]
       /\ \A k \in 1 .. Len(after) : AheadOf(o, m, after[k])
       /\ after # <<>> /\ after[1] > N => ~IsUnconditionalBranch(last)
       /\ \A b \in processed : b <= N => b <= o[m]
  BY <1>0, <1>3, <1>a DEF TrailMaps, OrderOK
<1>19. \A k \in 1 .. Len(after) : after[k] <= N /\ m < after[k]
  <2>1. \A k \in 1 .. Len(after) : after[k] <= N
    <3>1. after # <<>> => after[1] <= N
      <4>1. after # <<>> => after[1] \in Nat /\ ~(after[1] > N)
        BY <1>1, <1>10, <1>18, ListFacts, <1>2 DEF IsUnconditionalBranch
      <4> QED
        BY <1>2, <4>1
    <3>2. \A k \in 1 .. Len(after) : k = 1 \/ (1 \in 1 .. Len(after) /\ 1 < k)
      BY <1>10
    <3>3. \A k \in 1 .. Len(after) : after # <<>>
      BY <1>10
    <3> QED
      BY <1>18, <3>1, <3>2, <3>3
  <2> QED
    BY <1>14, <1>18, <2>1 DEF AheadOf
<1>20. OrderOK(r)'
  <2>1. \A k \in 1 .. Len(after') : \/ k = 1 /\ after'[k] = z /\ r[after'[k]] = m
                                    \/ \E h \in 1 .. Len(after) : /\ k = h + 1 /\ after'[k] = after[h]
                                                                  /\ r[after'[k]] = o[after[h]]
    <3> SUFFICES ASSUME NEW k \in 1 .. Len(after'), k # 1
                 PROVE  \E h \in 1 .. Len(after) : /\ k = h + 1 /\ after'[k] = after[h]
                                                   /\ r[after'[k]] = o[after[h]]
      BY <1>10, <1>13
    <3>1. PICK h : h = k - 1
      OBVIOUS
    <3>2. h \in 1 .. Len(after) /\ k = h + 1
      BY <1>10, <3>1
    <3> QED
      BY <1>10, <1>17, <3>2
  <2>2. ASSUME NEW j \in 1 .. Len(after'), NEW k \in 1 .. Len(after'), j < k
        PROVE  after'[k] <= N /\ r[after'[j]] < after'[k]
    <3>1. PICK h \in 1 .. Len(after) : k = h + 1 /\ after'[k] = after[h]
      BY <1>10, <2>1, <2>2
    <3>2. CASE j = 1
      BY <1>10, <1>13, <1>19, <3>1, <3>2
    <3>3. CASE \E i \in 1 .. Len(after) : /\ j = i + 1 /\ after'[j] = after[i] /\ r[after'[j]] = o[after[i]]
      <4>1. PICK i \in 1 .. Len(after) : j = i + 1 /\ after'[j] = after[i] /\ r[after'[j]] = o[after[i]]
        BY <3>3
      <4>2. i < h
        BY <1>10, <2>2, <3>1, <4>1
      <4> QED
        BY <1>18, <3>1, <4>1, <4>2
    <3> QED
      BY <2>1, <3>2, <3>3
  <2>3. \A k \in 1 .. Len(after') : AheadOf(r, m, after'[k])
    <3> SUFFICES ASSUME NEW k \in 1 .. Len(after') PROVE AheadOf(r, m, after'[k])
      OBVIOUS
    <3>1. CASE k = 1
      BY <1>2, <1>10, <1>13, <1>14, <3>1 DEF AheadOf
    <3>2. CASE \E h \in 1 .. Len(after) : k = h + 1 /\ after'[k] = after[h]
      BY <1>14, <1>19, <3>2 DEF AheadOf
    <3> QED
      BY <2>1, <3>1, <3>2
  <2>4. ~IsUnconditionalBranch(last)'
    <3>1. last'.op = "jcc"
      BY <1>0, <1>1, <1>6, <1>8 DEF last
    <3> QED
      BY <3>1 DEF IsUnconditionalBranch
  <2>5. \A b \in processed' : b <= N => b <= r[m]
    BY <1>14, <1>18, <1>p
  <2>6. mbb' = m
    BY <1>0, <1>1
  <2>7. \A k \in 1 .. Len(after') : AheadOf(r, mbb', after'[k])
    BY <2>3, <2>6
  <2>8. \A b \in processed' : b <= N => b <= r[mbb']
    BY <2>5, <2>6
  <2> QED
    BY <1>3, <2>2, <2>4, <2>7, <2>8 DEF OrderOK, AheadOf
<1>21. LanesOnWay(w, r)'
  <2>1. OpenLanes' = OpenLanes /\ OpenPending' = {}
    BY <1>1 DEF OpenLanes, OpenPending, Good, PassInvariant, LanesLeadAhead
  <2>2. ASSUME NEW i \in OpenLanes
        PROVE  /\ before # <<>> /\ w[lanes[i].current] = before[Len(before)]
               /\ ~lanes[i].taken /\ lanes[i].dest \in 1 .. N /\ r[lanes[i].current] < lanes[i].dest
    <3>1. /\ before # <<>> /\ v[lanes[i].current] = before[Len(before)]
          /\ ~lanes[i].taken /\ lanes[i].dest \in 1 .. N /\ o[lanes[i].current] < lanes[i].dest
      BY <1>3, <1>a DEF TrailMaps, LanesOnWay
    <3>2. lanes[i].current \in 1 .. Len(code)
      BY <1>2, OpenFacts
    <3> QED
      BY <1>13, <3>1, <3>2 DEF Grown
  <2> QED
    BY <1>1, <2>1, <2>2 DEF LanesOnWay
<1> QED
  BY <1>12, <1>13, <1>15, <1>16, <1>20, <1>21 DEF TrailMaps, TrailInvariant

LEMMA FinishTrail ==
  ASSUME Good, Good', PathInvariant, TrailInvariant, Finish
  PROVE  TrailInvariant'
<1>a. PICK v, o, g : TrailMaps(v, o) /\ PathGoals(g)
  BY DEF TrailInvariant, PathInvariant
<1>0. PICK z : z = Len(code) + 1
  OBVIOUS
<1>1. /\ pc = "block" /\ pc' = "done" /\ UNCHANGED <<fn, after, lanes, pending, takenLane, mbb, fakeBlock>>
      /\ after = <<>> /\ Len(code') = z /\ code'[z] = <<Jmp(1)>>
      /\ \A b \in 1 .. Len(code) : code'[b] = code[b]
      /\ before' = <<z>> \o before
  BY <1>0, FinishEffect
<1>p. processed' = processed
  BY DEF Finish
<1>2. /\ Len(code) \in Nat /\ N \in Nat /\ N <= Len(code) /\ z \in Nat /\ z \in N + 1 .. Len(code')
      /\ Len(code') \in Nat /\ Len(code') >= Len(code) /\ Len(code') >= Len(code) + 1
      /\ Len(code) + 1 .. Len(code') = {z} /\ 1 .. N \subseteq 1 .. Len(code) /\ 1 \in 1 .. N
      /\ N + 1 .. Len(code) \subseteq 1 .. Len(code) /\ z \notin 1 .. Len(code)
      /\ z \in 0 .. Len(code') /\ z # Null
  BY <1>0, <1>1, SizeFacts DEF Null
<1>3. FakesKept
  BY <1>1 DEF FakesKept, Fake
<1>4. InFront(1) /\ BehindKept
  <2>1. InFront(1)
    BY <1>0, <1>1, <1>2, OnePlaced
  <2> QED
    BY <2>1, InFrontList
<1>5. ~Visiting /\ ~Visiting' /\ Ahead' = Ahead
  BY <1>1 DEF Visiting, Ahead
<1>6. ListOK'
  BY <1>4, <1>5, <1>a, <1>p, ListStep DEF TrailMaps
<1>7. PICK w, r : Grown(v, o, w, r) /\ MapsOK(w, r)' /\ w[z] = z /\ r[z] = 1
  <2>1. \A b \in 1 .. Len(code) : b \in Ahead' => b \in Ahead
    BY <1>5
  <2>2. ~Fake(z)' /\ z \notin Ahead'
    <3>1. z \notin Ahead
      BY <1>2, AheadFacts
    <3>2. ~Fake(z)'
      BY <1>1, NoLoad DEF Fake
    <3> QED
      BY <1>5, <3>1, <3>2
  <2>3. \A b \in Len(code) + 1 .. Len(code') : ~(Fake(b)' \/ b \in Ahead')
    BY <1>2, <2>2
  <2>4. MapsOK(v, o)
    BY <1>a DEF TrailMaps
  <2>5. PICK e \in 0 .. Len(code') : e = z
    BY <1>2
  <2>6. \A b \in Len(code) + 1 .. Len(code') : Fake(b)' \/ b \in Ahead' => e = Null
    BY <2>3
  <2> QED
    BY <1>2, <1>3, <1>4, <2>1, <2>4, <2>5, <2>6, ExtendMaps
<1>8. Route(w, r, z)'
  <2>1. code'[z] = <<Jmp(1)>> /\ 1 \in 1 .. N
    BY <1>1, <1>2
  <2>2. w[z] # Null /\ 1 <= r[z]
    BY <1>2, <1>7 DEF Null
  <2> QED
    BY <1>7, <1>a, <2>1, <2>2, BackRoute
<1>9. RoutesOK(w, r)'
  <2>1. \A b \in N + 1 .. Len(code) : code'[b] = code[b]
    BY <1>1, <1>2
  <2> QED
    BY <1>2, <1>5, <1>7, <1>8, <1>a, <2>1, RoutesStep DEF TrailMaps
<1>10. LoadsOK(w, r)'
  <2>1. \A b \in 1 .. N : code'[b] = code[b]
    BY <1>1, <1>2
  <2> QED
    BY <1>5, <1>7, <1>a, <2>1, LoadsStep DEF TrailMaps
<1>11. OrderOK(r)'
  <2>1. after' = <<>> /\ Len(after') = 0
    BY <1>1
  <2>2. \A k \in 1 .. Len(after') : FALSE
    BY <2>1
  <2> QED
    BY <1>5, <2>2 DEF OrderOK
<1>12. LanesOnWay(w, r)'
  <2>1. OpenLanes' = OpenLanes /\ OpenPending' = {}
    BY <1>1 DEF OpenLanes, OpenPending, Good, PassInvariant, LanesLeadAhead
  <2>2. before # <<>> => before' # <<>> /\ before'[Len(before')] = before[Len(before)]
    BY <1>4, InFrontList
  <2>3. ASSUME NEW i \in OpenLanes
        PROVE  /\ before' # <<>> /\ w[lanes[i].current] = before'[Len(before')]
               /\ ~lanes[i].taken /\ lanes[i].dest \in 1 .. N /\ r[lanes[i].current] < lanes[i].dest
    <3>1. /\ before # <<>> /\ v[lanes[i].current] = before[Len(before)]
          /\ ~lanes[i].taken /\ lanes[i].dest \in 1 .. N /\ o[lanes[i].current] < lanes[i].dest
      BY <1>1, <1>a DEF TrailMaps, LanesOnWay
    <3>2. lanes[i].current \in 1 .. Len(code)
      BY <1>2, OpenFacts
    <3> QED
      BY <1>7, <2>2, <3>1, <3>2 DEF Grown
  <2> QED
    BY <1>1, <2>1, <2>3 DEF LanesOnWay
<1> QED
  BY <1>6, <1>7, <1>9, <1>10, <1>11, <1>12 DEF TrailMaps, TrailInvariant

LEMMA InitTrail == Init /\ Good => TrailInvariant
<1> SUFFICES ASSUME Init, Good PROVE \E v, o : TrailMaps(v, o)
  BY DEF TrailInvariant
<1>1. PICK v, o : v = [b \in 1 .. N |-> Null] /\ o = [b \in 1 .. N |-> b]
  OBVIOUS
<1>2. /\ N \in Nat /\ Len(code) = N /\ ~Visiting /\ N + 1 .. N = {}
      /\ before = <<>> /\ Len(before) = 0 /\ processed = {} /\ Null \in 0 .. N
      /\ Len(after) = N /\ \A k \in 1 .. N : after[k] = k
  BY NAssumption DEF Init, Visiting, Null
<1>3. Ahead = 1 .. N
  <2>1. Range(after) = 1 .. N
    BY NAssumption DEF Init, Range
  <2> QED
    BY <1>2, <2>1 DEF Ahead
<1>4. OpenLanes = {} /\ OpenPending = {}
  BY DEF Init, OpenLanes, OpenPending, EmptyLane
<1>5. MapsOK(v, o)
  BY <1>1, <1>2 DEF MapsOK
<1>6. RoutesOK(v, o) /\ LoadsOK(v, o)
  BY <1>2, <1>3 DEF RoutesOK, LoadsOK
<1>7. ListOK
  BY <1>2 DEF ListOK, Once, VisitedPlaced, AtTheEndOf
<1>8. OrderOK(o)
  <2>1. \A k \in 1 .. Len(after) : after[k] = k /\ o[after[k]] = k /\ k <= N
    BY <1>1, <1>2
  <2> QED
    BY <1>2, <2>1 DEF OrderOK
<1>9. LanesOnWay(v, o)
  BY <1>4 DEF LanesOnWay
<1> QED
  BY <1>5, <1>6, <1>7, <1>8, <1>9 DEF TrailMaps

LEMMA SameMaps ==
  ASSUME Good, NEW v, NEW o, TrailMaps(v, o), UNCHANGED vars
  PROVE  TrailMaps(v, o)'
<1>1. /\ UNCHANGED <<fn, before, after, code, processed, lanes, pending, mbb, fakeBlock>>
      /\ Ahead' = Ahead /\ (Visiting' <=> Visiting) /\ OpenLanes' = OpenLanes /\ OpenPending' = OpenPending
  BY DEF vars, Ahead, Visiting, OpenLanes, OpenPending
<1>2. FakesKept /\ BehindKept
  BY <1>1 DEF FakesKept, BehindKept, Fake, Behind
<1>3. /\ Len(code) \in Nat /\ Len(code') = Len(code) /\ Len(code) + 1 .. Len(code') = {}
      /\ N + 1 .. Len(code) \subseteq 1 .. Len(code)
  BY <1>1, SizeFacts
<1>4. Grown(v, o, v, o) /\ MapsOK(v, o)'
  <2>1. MapsOK(v, o)
    BY DEF TrailMaps
  <2>2. \A b \in 1 .. Len(code) : Fake(b)' <=> Fake(b)
    BY <1>2 DEF FakesKept
  <2>3. MapsOK(v, o)'
    BY <1>1, <1>3, <2>1, <2>2 DEF MapsOK
  <2> QED
    BY <1>2, <1>3, <2>1, <2>3 DEF Grown, MapsOK
<1>5. RoutesOK(v, o)'
  BY <1>1, <1>3, <1>4, RoutesStep DEF TrailMaps
<1>6. LoadsOK(v, o)'
  BY <1>1, <1>4, LoadsStep DEF TrailMaps
<1>7. ListOK'
  BY <1>1 DEF TrailMaps, ListOK, Once, VisitedPlaced, AtTheEndOf, Behind
<1>8. OrderOK(o)'
  BY <1>1 DEF TrailMaps, OrderOK, AheadOf, last
<1>9. LanesOnWay(v, o)'
  BY <1>1 DEF TrailMaps, LanesOnWay, AheadOf, Behind
<1> QED
  BY <1>4, <1>5, <1>6, <1>7, <1>8, <1>9 DEF TrailMaps

LEMMA SameTrail ==
  ASSUME Good, TrailInvariant, UNCHANGED vars
  PROVE  TrailInvariant'
<1>1. PICK v, o : TrailMaps(v, o)
  BY DEF TrailInvariant
<1> QED
  BY <1>1, SameMaps DEF TrailInvariant

LEMMA TrailStep ==
  Good /\ Good' /\ OneLane /\ LayoutOK /\ PathInvariant /\ TrailInvariant /\ [Next]_vars => TrailInvariant'
<1> SUFFICES ASSUME Good, Good', OneLane, LayoutOK, PathInvariant, TrailInvariant, [Next]_vars
             PROVE  TrailInvariant'
  OBVIOUS
<1>1. CASE NextBlock
  BY <1>1, NextBlockTrail
<1>2. CASE LaneArrives \/ LaneSkips
  BY <1>2, ArrivesTrail, SkipsTrail
<1>3. CASE LaneDies \/ LanesDone
  BY <1>3, OtherLaneTrail
<1>4. CASE SplitJump \/ Finish
  BY <1>4, SplitTrail, FinishTrail
<1>5. CASE ReplaceUnconditionalJump \/ ReplaceConditionalBranch
  BY <1>5, UnconditionalTrail, ConditionalTrail
<1>6. CASE ReplaceNoBranchBlock \/ ReplaceIndirectJump
  BY <1>6, NoBranchTrail, IndirectTrail
<1>7. CASE UNCHANGED vars
  BY <1>7, SameTrail
<1> QED
  BY <1>1, <1>2, <1>3, <1>4, <1>5, <1>6, <1>7, StepCases

TrailsInvariant == Supported(fn) => TrailInvariant

\* Whatever blocks a supported function consists of, every trampoline is
\* entered through the fake block of a block before its destination and
\* hands control to the next fake block, or ends at the next block.
THEOREM TrailsLaid == Spec => []TrailsInvariant
<1> DEFINE Inv == (Supported(fn) => Good) /\ LayoutInvariant /\ PathsInvariant
<1>1. Init /\ Inv => TrailsInvariant
  BY InitTrail DEF TrailsInvariant
<1>2. TrailsInvariant /\ Inv /\ Inv' /\ [Next]_vars => TrailsInvariant'
  <2> SUFFICES ASSUME TrailsInvariant, Inv, Inv', [Next]_vars PROVE TrailsInvariant'
    OBVIOUS
  <2>1. fn' = fn
    BY FunctionFixed
  <2>2. ASSUME Supported(fn) PROVE TrailInvariant'
    <3>1. Supported(fn)'
      BY <2>1, <2>2 DEF Supported
    <3>2. Good /\ Good' /\ OneLane /\ LayoutOK /\ PathInvariant /\ TrailInvariant
      BY <2>2, <3>1 DEF LayoutInvariant, PathsInvariant, TrailsInvariant
    <3> QED
      BY <3>2, TrailStep
  <2> QED
    BY <2>1, <2>2 DEF TrailsInvariant, Supported
<1>3. TypeOK /\ (Supported(fn) => Good) /\ LayoutInvariant /\ PathsInvariant => Inv
  OBVIOUS
<1> QED
  BY <1>1, <1>2, <1>3, LayoutHolds, PathsHold, PTL DEF Spec

-----------------------------------------------------------------------------
(***************************************************************************)
(* The finished code.  A jump ends its block; this, and that a conditional *)
(* branch is at the end of a block, is a condition on the function.        *)
(***************************************************************************)
JumpsLast(f) == \A b \in 1 .. N : \A i \in DOMAIN f[b] : f[b][i].op = "jmp" => i = Len(f[b])
Laid(v, o, g) == Finished(g) /\ TrailMaps(v, o) /\ AllAtEnd(fn) /\ JumpsLast(fn)

LEMMA NoJumpLeft ==
  ASSUME Good, JumpsLast(fn), NEW g, NEW b \in 1 .. N, Converted(g, b), NEW i \in 1 .. Len(code[b])
  PROVE  code[b][i].op # "jmp"
<1>1. code[b] \in Seq(Instr) /\ Len(code[b]) \in Nat
  BY GoodFacts, SizeFacts
<1>2. /\ Len(fn[b]) \in Nat /\ Last(fn[b]) = fn[b][Len(fn[b])]
      /\ \A q \in 1 .. Len(fn[b]) : fn[b][q].op = "jmp" => q = Len(fn[b])
  BY FnFacts DEF JumpsLast
<1>3. CASE EndsAsBefore(b)
  <2>1. /\ Len(code[b]) = Len(fn[b]) /\ Last(fn[b]).op \in {"ret", "call", "ind"}
        /\ \A q \in 1 .. Len(fn[b]) : code[b][q] = fn[b][q]
    BY <1>3 DEF EndsAsBefore, Keeps
  <2> QED
    BY <1>2, <2>1
<1>4. CASE EndsInLea(g, b)
  <2>1. PICK k, z :
          /\ k \in 0 .. Len(fn[b]) /\ Len(code[b]) = k + 1 /\ code[b][k + 1] = Lea(z) /\ Keeps(b, k)
          /\ (k = Len(fn[b]) => Last(fn[b]).op # "jmp")
    BY <1>4 DEF EndsInLea
  <2>2. CASE i = k + 1
    BY <2>1, <2>2, OpFacts
  <2>3. CASE i \in 1 .. k
    <3>1. code[b][i] = fn[b][i] /\ i \in 1 .. Len(fn[b])
      BY <1>2, <2>1, <2>3 DEF Keeps
    <3>2. i = Len(fn[b]) => k = Len(fn[b])
      BY <1>2, <2>1, <2>3
    <3> QED
      BY <1>2, <2>1, <3>1, <3>2
  <2> QED
    BY <1>2, <2>1, <2>2, <2>3
<1>5. CASE EndsInCMov(g, b)
  <2>1. PICK k, z, y :
          /\ k \in 1 .. Len(fn[b]) /\ Len(code[b]) = k + 2 /\ Keeps(b, k - 1)
          /\ code[b][k] = Lea(z) /\ code[b][k + 1] = LeaTmp(y) /\ code[b][k + 2] = CMov(fn[b][k].cc)
    BY <1>5 DEF EndsInCMov
  <2>2. CASE i \in 1 .. k - 1
    <3>1. code[b][i] = fn[b][i] /\ i \in 1 .. Len(fn[b]) /\ i # Len(fn[b])
      BY <1>2, <2>1, <2>2 DEF Keeps
    <3> QED
      BY <1>2, <3>1
  <2>3. CASE i = k \/ i = k + 1 \/ i = k + 2
    BY <2>1, <2>3, OpFacts
  <2> QED
    BY <1>2, <2>1, <2>2, <2>3
<1> QED
  BY <1>3, <1>4, <1>5 DEF Converted

LEMMA LaidFacts ==
  ASSUME NEW v, NEW o, NEW g, Laid(v, o, g)
  PROVE  /\ Good /\ Layout = before /\ Len(before) \in Nat /\ Once
         /\ N \in Nat /\ N >= 1 /\ Len(code) \in Nat /\ N <= Len(code)
         /\ \A p \in 1 .. Len(before) : before[p] \in 1 .. Len(code)
         /\ \A b \in 1 .. N : /\ LoadsBehind(v, o, b) /\ o[b] = b /\ v[b] = Null /\ ~Fake(b)
                              /\ \E p \in 1 .. Len(before) : before[p] = b
         /\ \A b \in N + 1 .. Len(code) : Fake(b) \/ Route(v, o, b)
         /\ \A b \in 1 .. Len(code) : /\ b \in 1 .. N \/ b \in N + 1 .. Len(code)
                                      /\ b <= N <=> b \in 1 .. N
                                      /\ Fake(b) => v[b] = Null
                                      /\ o[b] \in 1 .. N
                                      /\ code[b] \in Seq(Instr) /\ Len(code[b]) \in Nat
<1>1. Finished(g) /\ TrailMaps(v, o)
  BY DEF Laid
<1>2. /\ Good /\ Layout = before /\ Len(before) \in Nat /\ GoalOK(g)
      /\ N \in Nat /\ N >= 1 /\ Len(code) \in Nat /\ N <= Len(code)
      /\ \A b \in 1 .. Len(code) : /\ b \in 1 .. N \/ b \in N + 1 .. Len(code)
                                   /\ code[b] \in Seq(Instr) /\ Len(code[b]) \in Nat
  BY <1>1, FinishedFacts
<1>3. after = <<>> /\ Ahead = {} /\ \A b \in N + 1 .. Len(code) : code[b] # <<>>
  BY <1>1, DoneFacts DEF Finished
<1>4. /\ \A b \in 1 .. N : LoadsBehind(v, o, b)
      /\ \A b \in N + 1 .. Len(code) : Fake(b) \/ Route(v, o, b)
  BY <1>1, <1>3 DEF TrailMaps, LoadsOK, RoutesOK
<1>5. /\ o \in [1 .. Len(code) -> 1 .. N]
      /\ \A b \in 1 .. N : o[b] = b
      /\ \A b \in 1 .. Len(code) : b <= N \/ Fake(b) => v[b] = Null
  BY <1>1 DEF TrailMaps, MapsOK
<1>6. \A b \in 1 .. N : \E p \in 1 .. Len(before) : before[p] = b
  <2>1. Range(after) = {}
    BY <1>2, <1>3, RangeFacts, ListFacts
  <2>2. \A b \in 1 .. N : b \in processed
    BY <1>2, <2>1 DEF Good, PassInvariant, VisitedOrAhead
  <2> QED
    BY <1>1, <2>2 DEF TrailMaps, ListOK, VisitedPlaced
<1>7. Once /\ \A p \in 1 .. Len(before) : before[p] \in 1 .. Len(code)
  BY <1>1, <1>2, ListFacts DEF TrailMaps, ListOK
<1>8. \A b \in 1 .. N : b \in 1 .. Len(code) /\ b <= N /\ v[b] = Null /\ ~Fake(b)
  BY <1>2, <1>5 DEF GoalOK
<1>9. \A b \in 1 .. Len(code) : (b <= N <=> b \in 1 .. N) /\ o[b] \in 1 .. N
  BY <1>2, <1>5
<1> QED
  BY <1>2, <1>4, <1>5, <1>6, <1>7, <1>8, <1>9

\* A block stands in one place only.
LEMMA PlaceOf ==
  ASSUME NEW v, NEW o, NEW g, Laid(v, o, g), NEW p \in 1 .. Len(before)
  PROVE  Position(before[p]) = p
<1>1. Layout = before /\ DOMAIN Layout = 1 .. Len(before) /\ Once
  <2>1. Layout = before /\ Once /\ Good
    BY LaidFacts
  <2>2. DOMAIN before = 1 .. Len(before)
    BY <2>1, ListFacts
  <2> QED
    BY <2>1, <2>2
<1>2. PICK b : b = before[p]
  OBVIOUS
<1>3. \A q \in DOMAIN Layout : Layout[q] = b <=> q = p
  BY <1>1, <1>2 DEF Once
<1>4. p \in DOMAIN Layout /\ Layout[p] = b
  BY <1>1, <1>2
<1>5. Position(b) = p
  BY <1>3, <1>4 DEF Position
<1> QED
  BY <1>2, <1>5

LEMMA BehindAt ==
  ASSUME NEW v, NEW o, NEW g, Laid(v, o, g), NEW x, NEW y, Behind(x, y),
         NEW p \in 1 .. Len(before), before[p] = x
  PROVE  p + 1 \in 1 .. Len(before) /\ before[p + 1] = y
<1>1. Once /\ Len(before) \in Nat
  BY LaidFacts
<1>2. PICK q \in 1 .. Len(before) : q < Len(before) /\ before[q] = x /\ before[q + 1] = y
  BY DEF Behind
<1>3. p = q
  BY <1>1, <1>2 DEF Once
<1> QED
  BY <1>1, <1>2, <1>3

-----------------------------------------------------------------------------
(***************************************************************************)
(* The run.  Since it left source block at, in place s of the list, it has *)
(* passed the fake blocks in every second place, n of them.  In a fake     *)
(* block R15 holds the trampoline entered through it; in a trampoline the  *)
(* last fake block passed is the one it is entered through.                *)
(***************************************************************************)
Ladder(s, n) ==
  /\ Len(trail) = n
  /\ \A j \in 1 .. n : /\ trail[j] = before[s + 2 * j - 1] /\ Fake(trail[j])
                       /\ ~Fake(before[s + 2 * j - 2])
SentTo(v, o, f) == regs["R15"] \in 1 .. Len(code) /\ o[regs["R15"]] = at /\ v[regs["R15"]] = f
AtFake(v, o, s, n) ==
  /\ s + 2 * n + 1 <= Len(before) /\ before[s + 2 * n + 1] = blk /\ ~Fake(before[s + 2 * n])
  /\ ip = 1 /\ SentTo(v, o, blk)
AtOther(v, o, s, n) ==
  /\ o[blk] = at
  /\ IF v[blk] = Null THEN s + 2 * n <= Len(before) /\ before[s + 2 * n] = blk
     ELSE n >= 1 /\ s + 2 * n - 1 <= Len(before) /\ before[s + 2 * n - 1] = v[blk]
OnLadder(v, o, s, n) ==
  before[s] = at /\ Ladder(s, n) /\ IF Fake(blk) THEN AtFake(v, o, s, n) ELSE AtOther(v, o, s, n)
Climbing(v, o) == \E s \in 1 .. Len(before), n \in 0 .. Len(before) : OnLadder(v, o, s, n)

\* Only instructions that leave control in the block lie behind, and after
\* the conditional move R15 holds the address of a trampoline of this block.
Selected(v, o) ==
  regs["R15"] \in 1 .. Len(code) /\ o[regs["R15"]] = o[blk] /\ Behind(blk, v[regs["R15"]])
Passed(v, o) ==
  ip > 1 => /\ code[blk][ip - 1].op \in {"body", "keep", "dummy", "lea", "leatmp", "cmov"}
            /\ code[blk][ip - 1].op = "cmov" => Selected(v, o)
RunOnTrail(v, o) ==
  /\ blk \in 1 .. Len(code) /\ ip \in 1 .. Len(code[blk]) + 1 /\ at \in 0 .. N
  /\ Loaded /\ Passed(v, o)
  /\ IF at = 0 THEN blk = before[1] /\ ip = 1 ELSE Climbing(v, o)

\* Every place up to the one reached holds a fake block that was passed, or
\* no fake block.
LEMMA EverySecond ==
  ASSUME NEW s \in Nat, NEW n \in Nat, NEW k \in s .. s + 2 * n
  PROVE  \/ \E i \in 0 .. n : k = s + 2 * i
         \/ \E i \in 1 .. n : k = s + 2 * i - 1
<1>1. PICK d \in 0 .. 2 * n : k = s + d
  <2>1. k - s \in 0 .. 2 * n /\ k = s + (k - s)
    OBVIOUS
  <2> QED
    BY <2>1
<1>2. PICK q \in Nat, r \in 0 .. 1 : d = 2 * q + r
  <2>1. d = 2 * (d \div 2) + (d % 2) /\ d % 2 \in 0 .. 1 /\ d \div 2 \in Nat
    OBVIOUS
  <2> QED
    BY <2>1
<1>3. CASE r = 0
  <2>1. q \in 0 .. n /\ k = s + 2 * q
    BY <1>1, <1>2, <1>3
  <2> QED
    BY <2>1
<1>4. CASE r = 1
  <2>1. q + 1 \in 1 .. n /\ k = s + 2 * (q + 1) - 1
    BY <1>1, <1>2, <1>4
  <2> QED
    BY <2>1
<1> QED
  BY <1>2, <1>3, <1>4

LEMMA ForwardTrail ==
  ASSUME NEW v, NEW o, NEW g, Laid(v, o, g), NEW s \in 1 .. Len(before), NEW n \in 0 .. Len(before),
         trail \in Seq(Blocks), Ladder(s, n), s + 2 * n <= Len(before),
         NEW a, before[s] = a, NEW b, before[s + 2 * n] = b, ~Fake(b)
  PROVE  Range(trail) = FakesBetween(a, b) /\ InLayoutOrder(trail)
<1>1. Layout = before /\ Len(before) \in Nat
  BY LaidFacts
<1>2. s \in Nat /\ n \in Nat /\ s + 2 * n \in 1 .. Len(before) /\ s >= 1
  BY <1>1
<1>3. Position(a) = s /\ Position(b) = s + 2 * n
  BY <1>2, PlaceOf
<1>4. DOMAIN trail = 1 .. n
  BY <1>2 DEF Ladder
<1>5. ASSUME NEW j \in 1 .. n
      PROVE  /\ s + 2 * j - 1 \in 1 .. Len(before) /\ s + 2 * j - 1 \in s .. s + 2 * n
             /\ trail[j] = before[s + 2 * j - 1] /\ Fake(trail[j])
             /\ ~Fake(before[s + 2 * j - 2])
  <2>1. s + 2 * j - 1 \in 1 .. Len(before) /\ s + 2 * j - 1 \in s .. s + 2 * n
    BY <1>1, <1>2
  <2> QED
    BY <2>1 DEF Ladder
<1>6. ASSUME NEW j \in 1 .. n PROVE trail[j] \in FakesBetween(a, b)
  <2>1. PICK k : k = s + 2 * j - 1
    OBVIOUS
  <2>2. k \in Position(a) .. Position(b) /\ IsFake(Layout[k]) /\ trail[j] = Layout[k]
    BY <1>1, <1>3, <1>5, <2>1 DEF IsFake, Fake
  <2> QED
    BY <2>2 DEF FakesBetween
<1>7. ASSUME NEW x \in FakesBetween(a, b) PROVE \E j \in 1 .. n : trail[j] = x
  <2>1. PICK k \in s .. s + 2 * n : x = before[k] /\ Fake(x)
    BY <1>1, <1>3 DEF FakesBetween, IsFake, Fake
  <2>2. CASE \E i \in 0 .. n : k = s + 2 * i
    <3>1. PICK i \in 0 .. n : k = s + 2 * i
      BY <2>2
    <3>2. CASE i = n
      BY <2>1, <3>1, <3>2
    <3>3. CASE i # n
      <4>1. PICK j \in 1 .. n : j = i + 1
        BY <1>2, <3>3
      <4>2. s + 2 * j - 2 = k
        BY <1>2, <3>1, <4>1
      <4> QED
        BY <1>5, <2>1, <4>2
    <3> QED
      BY <3>2, <3>3
  <2>3. CASE \E i \in 1 .. n : k = s + 2 * i - 1
    BY <1>5, <2>1, <2>3
  <2> QED
    BY <1>2, <2>2, <2>3, EverySecond
<1>8. Range(trail) = FakesBetween(a, b)
  BY <1>4, <1>6, <1>7 DEF Range
<1>9. InLayoutOrder(trail)
  <2> SUFFICES ASSUME NEW i \in 1 .. n, NEW j \in 1 .. n, i < j PROVE Position(trail[i]) < Position(trail[j])
    BY <1>4 DEF InLayoutOrder
  <2>1. Position(trail[i]) = s + 2 * i - 1 /\ Position(trail[j]) = s + 2 * j - 1
    BY <1>5, PlaceOf
  <2> QED
    BY <1>2, <2>1
<1> QED
  BY <1>8, <1>9

\* The state of the run, and what a step of it may do.
OnTrail(v, o, g) ==
  /\ Laid(v, o, g) /\ RunOnTrail(v, o) /\ run = "on"
  /\ regs \in [Regs -> Values] /\ trail \in Seq(Blocks)
Uniform == tick' # tick /\ at # 0 => TrailIsUniform(at, at')
StaysOn(v, o) == RunOnTrail(v, o)' /\ Uniform

\* The instructions of the finished code, by the block they are in.
LEMMA Operations ==
  ASSUME NEW v, NEW o, NEW g, Laid(v, o, g), NEW b \in 1 .. Len(code), NEW i \in 1 .. Len(code[b])
  PROVE  /\ code[b][i].op \notin {"jcc", "ind"}
         /\ code[b][i].op = "jmpreg" <=> Fake(b)
         /\ Fake(b) => Len(code[b]) = 1 /\ b \in N + 1 .. Len(code)
         /\ code[b][i].op \in {"leatmp", "cmov"} => b \in 1 .. N
         /\ code[b][i].op = "jmp" =>
              v[b] # Null /\ ((i = Len(code[b]) /\ PassesOn(v, o, b)) \/ (i = 1 /\ EndsAt(v, o, b)))
         /\ code[b][i].op \in {"lea", "leatmp"} /\ v[b] = Null => LoadsBehind(v, o, b)
<1>1. /\ Good /\ Finished(g) /\ (b \in 1 .. N \/ b \in N + 1 .. Len(code))
      /\ Len(code[b]) \in Nat /\ AllAtEnd(fn) /\ JumpsLast(fn) /\ code[b] \in Seq(Instr)
      /\ N \in Nat /\ Len(code) \in Nat
  BY LaidFacts DEF Laid
<1>2. CASE b \in 1 .. N
  <2>1. Converted(g, b) /\ ~Fake(b) /\ LoadsBehind(v, o, b)
    BY <1>1, <1>2, LaidFacts, FinishedFacts
  <2>2. code[b][i].op \notin {"jcc", "ind"}
    <3>1. i \in DOMAIN code[b]
      BY <1>1
    <3> QED
      BY <1>1, <1>2, <2>1, <3>1, NothingLeft
  <2>3. code[b][i].op # "jmp"
    BY <1>1, <1>2, <2>1, NoJumpLeft
  <2>4. code[b][i].op # "jmpreg"
    <3>1. SourceInstr(code[b][i]) => code[b][i].op # "jmpreg"
      BY DEF SourceInstr, SourceOps
    <3> QED
      BY <1>1, <1>2, <3>1, ConvertedInsn
  <2> QED
    BY <1>2, <2>1, <2>2, <2>3, <2>4
<1>3. CASE Fake(b) /\ b \in N + 1 .. Len(code)
  <2>1. Len(code[b]) = 1 /\ code[b][1] = JmpTarget
    <3>1. code[b] = <<JmpTarget>>
      BY <1>3 DEF Fake
    <3> QED
      BY <3>1
  <2>2. code[b][i] = JmpTarget
    BY <2>1
  <2> QED
    BY <1>3, <2>1, <2>2, OpFacts
<1>4. CASE ~Fake(b) /\ b \in N + 1 .. Len(code)
  <2>1. Route(v, o, b)
    BY <1>4, LaidFacts
  <2>2. CASE SplitDone(v, o, b)
    <3>1. code[b][i].op = "lea" /\ LoadsBehind(v, o, b)
      BY <2>2 DEF SplitDone
    <3> QED
      BY <1>4, <3>1
  <2>3. CASE v[b] # Null /\ PassesOn(v, o, b)
    <3>1. PICK n : n = Len(code[b])
      OBVIOUS
    <3>2. /\ n >= 2 /\ \A q \in 1 .. n - 2 : code[b][q] = Add8Zero
          /\ \E z, f : code[b][n - 1] = Lea(z) /\ code[b][n] = Jmp(f)
      BY <2>3, <3>1 DEF PassesOn
    <3>3. i \in 1 .. n - 2 \/ i = n - 1 \/ i = n
      BY <1>1, <3>1, <3>2
    <3>4. Add8Zero.op = "dummy"
      BY DEF Add8Zero, Plain
    <3>5. code[b][i].op \in {"dummy", "lea", "jmp"} /\ (code[b][i].op = "jmp" => i = n)
      BY <3>2, <3>3, <3>4, OpFacts
    <3> QED
      BY <1>4, <2>3, <3>1, <3>5
  <2>4. CASE v[b] # Null /\ EndsAt(v, o, b)
    <3>1. PICK t : code[b] = <<Jmp(t)>>
      BY <2>4 DEF EndsAt
    <3>2. Len(code[b]) = 1 /\ code[b][1] = Jmp(t)
      BY <3>1
    <3>3. i = 1 /\ code[b][i].op = "jmp"
      BY <3>2, OpFacts
    <3> QED
      BY <1>4, <2>4, <3>3
  <2> QED
    BY <2>1, <2>2, <2>3, <2>4 DEF Route
<1> QED
  BY <1>1, <1>2, <1>3, <1>4

\* The instruction at hand; and the first block of the function.
LEMMA AtHandInsn ==
  ASSUME NEW v, NEW o, NEW g, OnTrail(v, o, g)
  PROVE  /\ Laid(v, o, g) /\ blk \in 1 .. Len(code) /\ Len(code[blk]) \in Nat /\ ip \in Nat /\ ip >= 1
         /\ Executing => ip \in 1 .. Len(code[blk]) /\ insn = code[blk][ip]
         /\ ~Executing => ip = Len(code[blk]) + 1
         /\ at = 0 => Executing /\ insn = Jmp(1) /\ ~Fake(blk) /\ blk \in N + 1 .. Len(code)
         /\ at # 0 => at \in 1 .. N /\ Climbing(v, o)
         /\ Fake(blk) => Executing /\ at # 0
<1>1. /\ Laid(v, o, g) /\ blk \in 1 .. Len(code) /\ ip \in 1 .. Len(code[blk]) + 1 /\ at \in 0 .. N
      /\ run = "on" /\ IF at = 0 THEN blk = before[1] /\ ip = 1 ELSE Climbing(v, o)
  BY DEF OnTrail, RunOnTrail
<1>2. Len(code[blk]) \in Nat /\ N \in Nat
  BY <1>1, LaidFacts
<1>3. at = 0 => code[blk] = <<Jmp(1)>> /\ ip = 1 /\ blk \in N + 1 .. Len(code)
  BY <1>1 DEF Laid, Finished, Entry
<1>4. at = 0 => Len(code[blk]) = 1 /\ code[blk][1] = Jmp(1) /\ ip = 1
  <2>1. \A s : s = <<Jmp(1)>> => Len(s) = 1 /\ s[1] = Jmp(1)
    OBVIOUS
  <2> QED
    BY <1>3, <2>1
<1>5. at = 0 => Executing /\ insn = Jmp(1)
  BY <1>1, <1>4 DEF Executing, insn
<1>6. at = 0 => ~Fake(blk)
  <2>1. Fake(blk) => code[blk][1] = JmpTarget
    BY DEF Fake
  <2> QED
    BY <1>4, <2>1, OpFacts
<1>7. Fake(blk) => ip = 1 /\ Len(code[blk]) = 1
  <2>1. Fake(blk) => Len(code[blk]) = 1
    BY DEF Fake
  <2>2. Fake(blk) => Climbing(v, o)
    BY <1>1, <1>6
  <2> QED
    BY <2>1, <2>2 DEF Climbing, OnLadder, AtFake
<1>8. ip \in Nat /\ ip >= 1 /\ (Executing <=> ip <= Len(code[blk])) /\ insn = code[blk][ip]
  BY <1>1, <1>2 DEF Executing, insn
<1>9. /\ Executing => ip \in 1 .. Len(code[blk])
      /\ ~Executing => ip = Len(code[blk]) + 1
  BY <1>1, <1>2, <1>8
<1>10. at # 0 => at \in 1 .. N /\ Climbing(v, o)
  BY <1>1, <1>2
<1>11. Fake(blk) => Executing /\ at # 0
  BY <1>6, <1>7, <1>8
<1> QED
  BY <1>1, <1>2, <1>3, <1>5, <1>6, <1>8, <1>9, <1>10, <1>11

\* An instruction that leaves control in its block.
LEMMA StepsOn ==
  ASSUME NEW v, NEW o, NEW g, OnTrail(v, o, g), UNCHANGED vars, Executing, Advance,
         insn.op \in {"body", "keep", "dummy", "lea", "leatmp", "cmov"},
         insn.op = "lea" => regs'["R15"] \in insn.to,
         insn.op = "leatmp" => regs'["R13"] \in insn.to /\ regs'["R15"] = regs["R15"],
         insn.op = "cmov" => \E z \in 1 .. Len(code) : regs'["R15"] = z /\ o[z] = o[blk] /\ Behind(blk, v[z])
  PROVE  StaysOn(v, o)
<1>1. UNCHANGED <<fn, code, before, blk, at, flags, tick, trail>> /\ ip' = ip + 1
  BY DEF vars, Advance
<1>2. /\ Laid(v, o, g) /\ blk \in 1 .. Len(code) /\ Len(code[blk]) \in Nat /\ ip \in Nat /\ ip >= 1
      /\ ip \in 1 .. Len(code[blk]) /\ insn = code[blk][ip] /\ at # 0 /\ at \in 1 .. N /\ Climbing(v, o)
  BY AtHandInsn, OpFacts
<1>3. ~Fake(blk)
  BY <1>2, Operations
<1>4. PICK n : n = ip /\ ip' = n + 1
  BY <1>1
<1>5. /\ n + 1 \in 1 .. Len(code[blk]) + 1 /\ (n + 1) - 1 = n /\ (n + 1) - 2 = n - 1
      /\ n + 1 > 1 /\ (n + 1 > 2 <=> n > 1) /\ insn = code[blk][n]
  BY <1>2, <1>4
<1>6. Loaded'
  <2>1. Loaded
    BY DEF OnTrail, RunOnTrail
  <2>2. code'[blk'][ip' - 1] = code[blk][n] /\ code'[blk'][ip' - 2] = code[blk][n - 1] /\ (ip' > 2 <=> n > 1)
    BY <1>1, <1>4, <1>5
  <2>3. n > 1 /\ code[blk][n - 1].op = "lea" => regs["R15"] \in code[blk][n - 1].to
    BY <1>4, <2>1 DEF Loaded
  <2> QED
    BY <1>5, <2>2, <2>3 DEF Loaded
<1>7. Passed(v, o)'
  <2>1. code'[blk'][ip' - 1] = insn
    BY <1>1, <1>4, <1>5
  <2>2. ASSUME insn.op = "cmov" PROVE Selected(v, o)'
    <3>1. PICK z \in 1 .. Len(code) : regs'["R15"] = z /\ o[z] = o[blk] /\ Behind(blk, v[z])
      BY <2>2
    <3>2. PICK y : y = v[z]
      OBVIOUS
    <3>3. \E p \in 1 .. Len(before) : p < Len(before) /\ before[p] = blk /\ before[p + 1] = y
      BY <3>1, <3>2 DEF Behind
    <3> QED
      BY <1>1, <3>1, <3>2, <3>3 DEF Selected, Behind
  <2> QED
    BY <2>1, <2>2 DEF Passed
<1>8. Climbing(v, o)'
  <2>1. PICK s \in 1 .. Len(before), q \in 0 .. Len(before) : before[s] = at /\ Ladder(s, q) /\ AtOther(v, o, s, q)
    BY <1>2, <1>3 DEF Climbing, OnLadder
  <2>2. before'[s] = at' /\ Ladder(s, q)' /\ AtOther(v, o, s, q)'
    BY <1>1, <2>1 DEF Ladder, AtOther, Fake
  <2>3. ~Fake(blk)'
    BY <1>1, <1>3 DEF Fake
  <2> QED
    BY <1>1, <2>2, <2>3 DEF Climbing, OnLadder
<1>9. Uniform
  BY <1>1 DEF Uniform
<1>10. at \in 0 .. N
  BY <1>2, LaidFacts
<1> QED
  BY <1>1, <1>2, <1>4, <1>5, <1>6, <1>7, <1>8, <1>9, <1>10 DEF StaysOn, RunOnTrail

LEMMA BodyOn == ASSUME NEW v, NEW o, NEW g, OnTrail(v, o, g), UNCHANGED vars, ExecBody PROVE StaysOn(v, o)
BY StepsOn DEF ExecBody

LEMMA DummyOn == ASSUME NEW v, NEW o, NEW g, OnTrail(v, o, g), UNCHANGED vars, ExecDummy PROVE StaysOn(v, o)
BY StepsOn DEF ExecDummy

LEMMA LeaOn == ASSUME NEW v, NEW o, NEW g, OnTrail(v, o, g), UNCHANGED vars, ExecLea PROVE StaysOn(v, o)
<1>1. /\ insn.op = "lea" => regs'["R15"] \in insn.to
      /\ insn.op = "leatmp" => regs'["R13"] \in insn.to /\ regs'["R15"] = regs["R15"]
  <2>1. regs \in [Regs -> Values] /\ "R15" \in Regs /\ "R13" \in Regs
    BY DEF OnTrail, Regs
  <2>2. PICK b \in insn.to : regs' = [regs EXCEPT ![IF insn.op = "lea" THEN "R15" ELSE "R13"] = b]
    BY DEF ExecLea
  <2> QED
    BY <2>1, <2>2
<1> QED
  BY <1>1, StepsOn DEF ExecLea

\* The conditional move chooses between two trampolines of this block.
LEMMA CMovOn == ASSUME NEW v, NEW o, NEW g, OnTrail(v, o, g), UNCHANGED vars, ExecCMov PROVE StaysOn(v, o)
<1>0. Executing /\ insn.op = "cmov" /\ Advance
  BY DEF ExecCMov
<1>1. /\ Laid(v, o, g) /\ blk \in 1 .. Len(code) /\ Len(code[blk]) \in Nat
      /\ ip \in 1 .. Len(code[blk]) /\ insn = code[blk][ip]
  BY <1>0, AtHandInsn
<1>2. blk \in 1 .. N /\ v[blk] = Null /\ LoadsBehind(v, o, blk)
  BY <1>0, <1>1, Operations, LaidFacts
<1>3. Good /\ Converted(g, blk) /\ Len(fn[blk]) \in Nat /\ \A i \in 1 .. Len(fn[blk]) : fn[blk][i].op # "cmov"
  <2>1. Good /\ Converted(g, blk)
    BY <1>1, <1>2, LaidFacts, FinishedFacts DEF Laid
  <2> QED
    BY <1>2, <2>1, FnFacts DEF SourceInstr, SourceOps
<1>4. EndsInCMov(g, blk)
  <2>1. ASSUME EndsAsBefore(blk) PROVE FALSE
    BY <1>0, <1>1, <1>3, <2>1 DEF EndsAsBefore, Keeps
  <2>2. ASSUME EndsInLea(g, blk) PROVE FALSE
    <3>1. PICK k, z : /\ k \in 0 .. Len(fn[blk]) /\ Keeps(blk, k)
                      /\ Len(code[blk]) = k + 1 /\ code[blk][k + 1] = Lea(z)
      BY <2>2 DEF EndsInLea
    <3>2. ip = k + 1 \/ (ip \in 1 .. k /\ ip \in 1 .. Len(fn[blk]))
      BY <1>1, <1>3, <3>1
    <3> QED
      BY <1>0, <1>1, <1>3, <3>1, <3>2, OpFacts DEF Keeps
  <2> QED
    BY <1>3, <2>1, <2>2 DEF Converted
<1>5. PICK k \in 1 .. Len(fn[blk]), z \in N + 1 .. Len(code), y \in N + 1 .. Len(code) :
        /\ Keeps(blk, k - 1) /\ Len(code[blk]) = k + 2
        /\ code[blk][k] = Lea(z) /\ code[blk][k + 1] = LeaTmp(y) /\ code[blk][k + 2] = CMov(fn[blk][k].cc)
  BY <1>4, Zenon DEF EndsInCMov
<1>6. k \in Nat /\ k >= 1 /\ k <= Len(fn[blk]) /\ ip \in 1 .. k + 2
  BY <1>1, <1>3, <1>5
<1>7. ip = k + 2
  <2>1. PICK q \in Nat : q = Len(fn[blk])
    BY <1>3
  <2>2. ip = k + 2 \/ ip = k + 1 \/ ip = k \/ (ip \in 1 .. k - 1 /\ ip \in 1 .. q)
    BY <1>6, <2>1
  <2>3. \A i \in 1 .. k - 1 : code[blk][i] = fn[blk][i]
    BY <1>5 DEF Keeps
  <2>4. code[blk][k].op # "cmov" /\ code[blk][k + 1].op # "cmov"
    BY <1>5, OpFacts
  <2> QED
    BY <1>0, <1>1, <1>3, <2>1, <2>2, <2>3, <2>4
<1>8. /\ ip > 1 /\ ip - 1 = k + 1 /\ ip > 2 /\ ip - 2 = k
      /\ k \in 1 .. Len(code[blk]) /\ k + 1 \in 1 .. Len(code[blk])
  <2>1. Len(code[blk]) = k + 2
    BY <1>5
  <2>2. PICK q \in Nat : q = Len(code[blk])
    BY <1>1
  <2>3. ip > 1 /\ ip - 1 = k + 1 /\ ip > 2 /\ ip - 2 = k /\ k \in 1 .. q /\ k + 1 \in 1 .. q
    BY <1>6, <1>7, <2>1, <2>2
  <2> QED
    BY <2>2, <2>3
<1>9. regs["R13"] = y /\ regs["R15"] = z
  <2>1. Loaded
    BY DEF OnTrail, RunOnTrail
  <2>2. regs["R13"] \in LeaTmp(y).to /\ regs["R15"] \in Lea(z).to
    BY <1>5, <1>8, <2>1, OpFacts DEF Loaded
  <2> QED
    BY <2>2, OpFacts
<1>10. \A x \in {y, z} : x \in 1 .. Len(code) /\ o[x] = o[blk] /\ Behind(blk, v[x])
  <2>1. code[blk][k].op = "lea" /\ z \in code[blk][k].to
    BY <1>5, OpFacts
  <2>2. code[blk][k + 1].op = "leatmp" /\ y \in code[blk][k + 1].to
    BY <1>5, OpFacts
  <2>3. z \in 1 .. Len(code) /\ o[z] = o[blk] /\ Behind(blk, v[z])
    BY <1>2, <1>8, <2>1 DEF LoadsBehind
  <2>4. y \in 1 .. Len(code) /\ o[y] = o[blk] /\ Behind(blk, v[y])
    BY <1>2, <1>8, <2>2 DEF LoadsBehind
  <2> QED
    BY <2>3, <2>4
<1>11. regs'["R15"] \in {y, z}
  <2>1. regs \in [Regs -> Values] /\ "R15" \in Regs
    BY DEF OnTrail, Regs
  <2>2. regs' = regs \/ regs' = [regs EXCEPT ![CMovDest] = regs["R13"]]
    BY DEF ExecCMov
  <2> QED
    BY <1>9, <2>1, <2>2
<1>12. \E x \in 1 .. Len(code) : regs'["R15"] = x /\ o[x] = o[blk] /\ Behind(blk, v[x])
  BY <1>10, <1>11
<1> QED
  BY <1>0, <1>12, StepsOn

-----------------------------------------------------------------------------
(***************************************************************************)
(* Control leaves its block.                                               *)
(***************************************************************************)
LEMMA EntersSourceOn ==
  ASSUME NEW v, NEW o, NEW g, Laid(v, o, g), UNCHANGED vars, NEW b \in 1 .. N, NEW tr, GoTo(b, tr),
         at = 0 \/ TrailIsUniform(at, b)
  PROVE  StaysOn(v, o)
<1>1. /\ blk' = b /\ ip' = 1 /\ at' = b /\ trail' = <<>> /\ code' = code /\ before' = before
  <2>1. b <= N
    BY LaidFacts
  <2> QED
    BY <2>1 DEF GoTo, vars
<1>2. /\ Len(before) \in Nat /\ b \in 1 .. Len(code) /\ b \in 0 .. N /\ b # 0
      /\ o[b] = b /\ v[b] = Null /\ ~Fake(b) /\ 1 \in 1 .. Len(code[b]) + 1
  <2>1. N \in Nat /\ Len(code) \in Nat /\ N <= Len(code) /\ Len(before) \in Nat
    BY LaidFacts
  <2>2. b \in 1 .. Len(code) /\ b \in 0 .. N /\ b # 0
    BY <2>1
  <2>3. Len(code[b]) \in Nat
    BY <2>2, LaidFacts
  <2> QED
    BY <2>1, <2>2, <2>3, LaidFacts
<1>3. PICK s \in 1 .. Len(before) : before[s] = b
  BY LaidFacts
<1>4. /\ s + 2 * 0 = s /\ s <= Len(before) /\ 0 \in 0 .. Len(before) /\ 1 .. 0 = {}
      /\ Len(<<>>) = 0
  BY <1>2, <1>3
<1>5. Climbing(v, o)'
  <2>1. Ladder(s, 0)'
    BY <1>1, <1>4 DEF Ladder
  <2>2. AtOther(v, o, s, 0)'
    BY <1>1, <1>2, <1>3, <1>4 DEF AtOther
  <2>3. ~Fake(blk)'
    BY <1>1, <1>2 DEF Fake
  <2>4. OnLadder(v, o, s, 0)'
    BY <1>1, <1>3, <2>1, <2>2, <2>3 DEF OnLadder
  <2>5. s \in 1 .. Len(before') /\ 0 \in 0 .. Len(before')
    BY <1>1, <1>4
  <2> QED
    BY <2>4, <2>5 DEF Climbing
<1>6. Uniform
  BY <1>1 DEF Uniform
<1>7. Loaded' /\ Passed(v, o)'
  <2>1. ~(ip' > 1)
    BY <1>1
  <2> QED
    BY <2>1 DEF Loaded, Passed
<1>8. RunOnTrail(v, o)'
  BY <1>1, <1>2, <1>5, <1>7 DEF RunOnTrail
<1> QED
  BY <1>6, <1>8 DEF StaysOn

LEMMA MovedOn ==
  ASSUME NEW v, NEW o, NEW g, Laid(v, o, g), UNCHANGED vars, NEW b \in N + 1 .. Len(code), NEW tr,
         GoTo(b, tr), at \in 1 .. N, Climbing(v, o)'
  PROVE  StaysOn(v, o)
<1>1. /\ N \in Nat /\ Len(code) \in Nat
      /\ blk' = b /\ ip' = 1 /\ at' = at /\ tick' = tick /\ code' = code
  <2>1. N \in Nat /\ Len(code) \in Nat
    BY LaidFacts
  <2>2. ~(b <= N)
    BY <2>1
  <2> QED
    BY <2>1, <2>2 DEF GoTo, vars
<1>2. b \in 1 .. Len(code) /\ at \in 0 .. N /\ at # 0
  BY <1>1
<1>3. 1 \in 1 .. Len(code[b]) + 1
  <2>1. Len(code[b]) \in Nat
    BY <1>2, LaidFacts
  <2> QED
    BY <2>1
<1>4. Loaded' /\ Passed(v, o)'
  <2>1. ~(ip' > 1)
    BY <1>1
  <2> QED
    BY <2>1 DEF Loaded, Passed
<1> QED
  BY <1>1, <1>2, <1>3, <1>4 DEF StaysOn, RunOnTrail, Uniform

\* The last block that is no fake block on the way, and what is behind it.
LEMMA UpTheLadder ==
  ASSUME NEW v, NEW o, NEW g, Laid(v, o, g), NEW s \in 1 .. Len(before), NEW n \in 0 .. Len(before),
         n >= 1, Ladder(s, n), s + 2 * n - 1 <= Len(before), NEW x, before[s + 2 * n - 1] = x, NEW m, Behind(x, m)
  PROVE  s + 2 * n \in 1 .. Len(before) /\ before[s + 2 * n] = m
<1>1. Len(before) \in Nat
  BY LaidFacts
<1>2. PICK p \in 1 .. Len(before) : p = s + 2 * n - 1 /\ p + 1 = s + 2 * n
  BY <1>1
<1> QED
  BY <1>2, BehindAt

LEMMA PassOnStep ==
  ASSUME NEW v, NEW o, NEW g, OnTrail(v, o, g), UNCHANGED vars, at # 0, Executing, ~Fake(blk),
         v[blk] # Null, PassesOn(v, o, blk), ip = Len(code[blk]), regs' = regs,
         NEW b \in insn.to, GoTo(b, trail)
  PROVE  StaysOn(v, o)
<1>1. /\ Laid(v, o, g) /\ blk \in 1 .. Len(code) /\ Len(code[blk]) \in Nat
      /\ insn = code[blk][ip] /\ at \in 1 .. N /\ Climbing(v, o)
  BY AtHandInsn
<1>2. /\ Len(before) \in Nat /\ N \in Nat /\ Len(code) \in Nat /\ N <= Len(code)
  BY <1>1, LaidFacts
<1>3. PICK s \in 1 .. Len(before), n \in 0 .. Len(before) : before[s] = at /\ Ladder(s, n) /\ AtOther(v, o, s, n)
  BY <1>1 DEF Climbing, OnLadder
<1>4. /\ o[blk] = at /\ n >= 1 /\ s + 2 * n - 1 <= Len(before) /\ before[s + 2 * n - 1] = v[blk]
  BY <1>3 DEF AtOther
<1>5. PICK k : k = Len(code[blk])
  OBVIOUS
<1>6. PICK z \in 1 .. Len(code), m \in 1 .. Len(code), f \in 1 .. Len(code) :
        /\ code[blk][k - 1] = Lea(z) /\ code[blk][k] = Jmp(f)
        /\ o[z] = o[blk] /\ v[z] = f /\ Fake(f) /\ ~Fake(m) /\ Behind(v[blk], m) /\ Behind(m, f)
  BY <1>5 DEF PassesOn
<1>7. k \in Nat /\ k >= 2 /\ ip = k
  BY <1>1, <1>5 DEF PassesOn
<1>8. b = f
  BY <1>1, <1>6, <1>7, OpFacts
<1>9. regs["R15"] = z
  <2>1. Loaded
    BY DEF OnTrail, RunOnTrail
  <2>2. ip > 1 /\ ip - 1 = k - 1
    BY <1>7
  <2>3. regs["R15"] \in Lea(z).to
    BY <1>6, <2>1, <2>2, OpFacts DEF Loaded
  <2> QED
    BY <2>3, OpFacts
<1>10. f \in N + 1 .. Len(code)
  BY <1>1, <1>6, LaidFacts
<1>11. s + 2 * n \in 1 .. Len(before) /\ before[s + 2 * n] = m
  <2>1. PICK x : x = v[blk]
    OBVIOUS
  <2>2. Behind(x, m) /\ before[s + 2 * n - 1] = x
    BY <1>4, <1>6, <2>1
  <2> QED
    BY <1>1, <1>3, <1>4, <2>2, UpTheLadder
<1>12. s + 2 * n + 1 <= Len(before) /\ before[s + 2 * n + 1] = f
  <2>1. PICK p \in 1 .. Len(before) : p = s + 2 * n
    BY <1>11
  <2>2. before[p] = m
    BY <1>11, <2>1
  <2>3. Behind(m, f)
    BY <1>6
  <2>4. p + 1 \in 1 .. Len(before) /\ before[p + 1] = f
    BY <1>1, <2>2, <2>3, BehindAt
  <2> QED
    BY <1>2, <2>1, <2>4
<1>13. ip' = 1 /\ blk' = f /\ at' = at /\ trail' = trail /\ code' = code /\ before' = before
  <2>1. ~(f <= N)
    BY <1>2, <1>10
  <2> QED
    BY <1>8, <2>1 DEF GoTo, vars
<1>14. Climbing(v, o)'
  <2>1. Ladder(s, n)'
    BY <1>3, <1>13 DEF Ladder, Fake
  <2>2. SentTo(v, o, blk)'
    BY <1>4, <1>6, <1>9, <1>13 DEF SentTo
  <2>3. AtFake(v, o, s, n)'
    BY <1>6, <1>11, <1>12, <1>13, <2>2 DEF AtFake, Fake
  <2>4. Fake(blk)'
    BY <1>6, <1>13 DEF Fake
  <2>5. OnLadder(v, o, s, n)'
    BY <1>3, <1>13, <2>1, <2>3, <2>4 DEF OnLadder
  <2> QED
    BY <1>13, <2>5 DEF Climbing
<1> QED
  BY <1>1, <1>8, <1>10, <1>14, MovedOn

LEMMA EndAtStep ==
  ASSUME NEW v, NEW o, NEW g, OnTrail(v, o, g), UNCHANGED vars, at # 0, Executing, ~Fake(blk),
         v[blk] # Null, EndsAt(v, o, blk), ip = 1, regs' = regs,
         NEW b \in insn.to, GoTo(b, trail)
  PROVE  StaysOn(v, o)
<1>1. /\ Laid(v, o, g) /\ blk \in 1 .. Len(code) /\ Len(code[blk]) \in Nat
      /\ insn = code[blk][ip] /\ at \in 1 .. N /\ Climbing(v, o) /\ trail \in Seq(Blocks)
  BY AtHandInsn DEF OnTrail
<1>2. /\ Len(before) \in Nat /\ N \in Nat /\ Len(code) \in Nat /\ N <= Len(code) /\ Layout = before
  BY <1>1, LaidFacts
<1>3. PICK s \in 1 .. Len(before), n \in 0 .. Len(before) : before[s] = at /\ Ladder(s, n) /\ AtOther(v, o, s, n)
  BY <1>1 DEF Climbing, OnLadder
<1>4. /\ o[blk] = at /\ n >= 1 /\ s + 2 * n - 1 <= Len(before) /\ before[s + 2 * n - 1] = v[blk]
  BY <1>3 DEF AtOther
<1>5. PICK t \in 1 .. Len(code) :
        /\ code[blk] = <<Jmp(t)>> /\ ~Fake(t) /\ v[t] = Null
        /\ t <= o[blk] \/ (Behind(v[blk], t) /\ AheadOf(o, blk, t))
  BY DEF EndsAt
<1>6. b = t
  <2>1. insn = Jmp(t)
    BY <1>1, <1>5
  <2> QED
    BY <2>1, OpFacts
<1>7. PICK x : x = v[blk] /\ before[s + 2 * n - 1] = x
  BY <1>4
<1>8. ASSUME Behind(x, t) PROVE s + 2 * n \in 1 .. Len(before) /\ before[s + 2 * n] = t
  BY <1>1, <1>3, <1>4, <1>7, <1>8, UpTheLadder
<1>9. CASE t <= N
  <2>1. t \in 1 .. N
    BY <1>2, <1>9
  <2>2. CASE t <= at
    <3>1. Position(at) = s
      BY <1>1, <1>3, PlaceOf
    <3>2. Len(trail) = n /\ 1 \in 1 .. n /\ trail[1] = before[s + 2 * 1 - 1]
      BY <1>3, <1>4 DEF Ladder
    <3>3. trail # <<>> /\ Layout[Position(at) + 1] = trail[1]
      <4>1. Len(<<>>) = 0 /\ s + 2 * 1 - 1 = s + 1
        OBVIOUS
      <4> QED
        BY <1>2, <1>4, <3>1, <3>2, <4>1
    <3>4. ~(t > at)
      BY <1>1, <1>2, <2>1, <2>2
    <3>5. TrailIsUniform(at, t)
      BY <3>3, <3>4 DEF TrailIsUniform
    <3> QED
      BY <1>1, <1>6, <2>1, <3>5, EntersSourceOn
  <2>3. CASE ~(t <= at)
    <3>1. Behind(x, t)
      BY <1>4, <1>5, <1>7, <2>3
    <3>2. s + 2 * n <= Len(before) /\ before[s + 2 * n] = t
      BY <1>2, <1>8, <3>1
    <3>3. Range(trail) = FakesBetween(at, t) /\ InLayoutOrder(trail)
      BY <1>1, <1>3, <1>5, <3>2, ForwardTrail
    <3>4. TrailIsUniform(at, t)
      BY <3>3, <1>1, <1>2, <2>1, <2>3 DEF TrailIsUniform
    <3> QED
      BY <1>1, <1>6, <2>1, <3>4, EntersSourceOn
  <2> QED
    BY <2>2, <2>3
<1>10. CASE t > N
  <2>1. t \in N + 1 .. Len(code) /\ ~(t <= N)
    BY <1>2, <1>10
  <2>2. Behind(x, t) /\ o[t] = at
    BY <1>1, <1>2, <1>4, <1>5, <1>7, <2>1 DEF AheadOf
  <2>3. s + 2 * n <= Len(before) /\ before[s + 2 * n] = t
    BY <1>2, <1>8, <2>2
  <2>4. blk' = t /\ at' = at /\ trail' = trail /\ code' = code /\ before' = before
    BY <1>6, <2>1 DEF GoTo, vars
  <2>5. Climbing(v, o)'
    <3>1. Ladder(s, n)'
      BY <1>3, <2>4 DEF Ladder, Fake
    <3>2. AtOther(v, o, s, n)'
      BY <1>5, <2>2, <2>3, <2>4 DEF AtOther
    <3>3. ~Fake(blk)'
      BY <1>5, <2>4 DEF Fake
    <3>4. OnLadder(v, o, s, n)'
      BY <1>3, <2>4, <3>1, <3>2, <3>3 DEF OnLadder
    <3> QED
      BY <2>4, <3>4 DEF Climbing
  <2> QED
    BY <1>1, <1>6, <2>1, <2>5, MovedOn
<1> QED
  BY <1>2, <1>9, <1>10

LEMMA JumpOn == ASSUME NEW v, NEW o, NEW g, OnTrail(v, o, g), UNCHANGED vars, ExecJump PROVE StaysOn(v, o)
<1>1. Executing /\ insn.op \in {"jmp", "ind"} /\ regs' = regs
  BY DEF ExecJump
<1>2. PICK b \in insn.to : GoTo(b, trail)
  BY DEF ExecJump
<1>3. /\ Laid(v, o, g) /\ blk \in 1 .. Len(code) /\ ip \in 1 .. Len(code[blk]) /\ insn = code[blk][ip]
      /\ at = 0 => insn = Jmp(1)
  BY <1>1, AtHandInsn
<1>4. CASE at = 0
  <2>1. b = 1 /\ 1 \in 1 .. N
    BY <1>3, <1>4, OpFacts, LaidFacts
  <2> QED
    BY <1>2, <1>3, <1>4, <2>1, EntersSourceOn
<1>5. CASE at # 0
  <2>1. /\ ~Fake(blk) /\ v[blk] # Null
        /\ (ip = Len(code[blk]) /\ PassesOn(v, o, blk)) \/ (ip = 1 /\ EndsAt(v, o, blk))
    BY <1>1, <1>3, Operations
  <2> QED
    BY <1>1, <1>2, <1>5, <2>1, PassOnStep, EndAtStep
<1> QED
  BY <1>4, <1>5

\* Through a fake block control comes to the trampoline it is the way into.
LEMMA JmpTargetOn ==
  ASSUME NEW v, NEW o, NEW g, OnTrail(v, o, g), UNCHANGED vars, ExecJmpTarget
  PROVE  StaysOn(v, o)
<1>1. Executing /\ insn.op = "jmpreg" /\ GoTo(regs["R15"], Append(trail, blk)) /\ regs' = regs
  BY DEF ExecJmpTarget
<1>2. /\ Laid(v, o, g) /\ blk \in 1 .. Len(code) /\ ip \in 1 .. Len(code[blk]) /\ insn = code[blk][ip]
      /\ at # 0 => at \in 1 .. N /\ Climbing(v, o)
      /\ Fake(blk) => at # 0
  BY <1>1, AtHandInsn
<1>3. Fake(blk) /\ at \in 1 .. N /\ Climbing(v, o) /\ blk \in Blocks /\ trail \in Seq(Blocks)
  BY <1>1, <1>2, Operations DEF OnTrail, Blocks
<1>4. PICK s \in 1 .. Len(before), n \in 0 .. Len(before) : before[s] = at /\ Ladder(s, n) /\ AtFake(v, o, s, n)
  BY <1>3 DEF Climbing, OnLadder
<1>5. /\ Len(before) \in Nat /\ N \in Nat /\ Len(code) \in Nat /\ N <= Len(code)
  BY <1>2, LaidFacts
<1>6. PICK z \in 1 .. Len(code) : z = regs["R15"] /\ o[z] = at /\ v[z] = blk
  BY <1>4 DEF AtFake, SentTo
<1>7. z \in N + 1 .. Len(code) /\ ~Fake(z) /\ v[z] # Null
  <2>1. v[z] # Null
    BY <1>2, <1>5, <1>6 DEF Null
  <2>2. z \notin 1 .. N /\ ~Fake(z)
    BY <1>2, <2>1, LaidFacts
  <2> QED
    BY <1>5, <2>1, <2>2
<1>8. blk' = z /\ at' = at /\ trail' = Append(trail, blk) /\ code' = code /\ before' = before
  <2>1. ~(z <= N)
    BY <1>5, <1>7
  <2> QED
    BY <1>1, <1>6, <2>1 DEF GoTo, vars
<1>9. PICK q \in 1 .. Len(before) : q = n + 1
  <2>1. s + 2 * n + 1 <= Len(before)
    BY <1>4 DEF AtFake
  <2>2. n + 1 \in 1 .. Len(before)
    BY <1>5, <2>1
  <2> QED
    BY <2>2
<1>10. /\ s + 2 * q - 1 = s + 2 * n + 1 /\ s + 2 * q - 2 = s + 2 * n /\ q >= 1
       /\ \A j \in 1 .. q : j = q \/ j \in 1 .. n
  BY <1>5, <1>9
<1>11. /\ s + 2 * q - 1 <= Len(before) /\ before[s + 2 * q - 1] = blk /\ ~Fake(before[s + 2 * q - 2])
  BY <1>4, <1>10 DEF AtFake
<1>12. Ladder(s, q)'
  <2>1. PICK tr \in Seq(Blocks) : tr = trail /\ Len(tr) = n
    BY <1>3, <1>4 DEF Ladder
  <2>2. /\ Len(Append(tr, blk)) = q /\ Append(tr, blk)[q] = blk
        /\ \A j \in 1 .. n : Append(tr, blk)[j] = tr[j]
    BY <1>3, <1>9, <2>1
  <2>3. PICK w : w = Append(tr, blk)
    OBVIOUS
  <2>4. ASSUME NEW j \in 1 .. q
        PROVE  w[j] = before[s + 2 * j - 1] /\ Fake(w[j]) /\ ~Fake(before[s + 2 * j - 2])
    BY <1>3, <1>4, <1>10, <1>11, <2>1, <2>2, <2>3 DEF Ladder
  <2>5. trail' = w /\ Len(w) = q
    BY <1>8, <2>1, <2>2, <2>3
  <2> QED
    BY <1>8, <2>4, <2>5 DEF Ladder, Fake
<1>13. AtOther(v, o, s, q)'
  BY <1>6, <1>7, <1>8, <1>10, <1>11 DEF AtOther
<1>14. Climbing(v, o)'
  <2>1. ~Fake(blk)'
    BY <1>7, <1>8 DEF Fake
  <2>2. OnLadder(v, o, s, q)'
    BY <1>4, <1>8, <1>12, <1>13, <2>1 DEF OnLadder
  <2>3. q \in 0 .. Len(before')
    BY <1>5, <1>8
  <2> QED
    BY <1>8, <2>2, <2>3 DEF Climbing
<1> QED
  BY <1>1, <1>2, <1>3, <1>6, <1>7, <1>14, MovedOn

LEMMA JccOn == ASSUME NEW v, NEW o, NEW g, OnTrail(v, o, g), ExecJcc PROVE FALSE
<1>1. Executing /\ insn.op = "jcc"
  BY DEF ExecJcc
<1>2. /\ Laid(v, o, g) /\ blk \in 1 .. Len(code) /\ ip \in 1 .. Len(code[blk]) /\ insn = code[blk][ip]
  BY <1>1, AtHandInsn
<1> QED
  BY <1>1, <1>2, Operations

\* At the end of a block R15 holds the address of a trampoline of this block.
LEMMA EndSelects ==
  ASSUME NEW v, NEW o, NEW g, OnTrail(v, o, g), ip > Len(code[blk])
  PROVE  ~Fake(blk) /\ at # 0 /\ v[blk] = Null /\ EndsInLoad(blk) /\ Selected(v, o)
<1>1. /\ Laid(v, o, g) /\ Finished(g) /\ Good /\ blk \in 1 .. Len(code) /\ Len(code[blk]) \in Nat /\ ip \in Nat
      /\ Loaded /\ Passed(v, o)
  BY AtHandInsn, LaidFacts DEF OnTrail, RunOnTrail, Laid
<1>2. ~Executing /\ ip = Len(code[blk]) + 1 /\ ~Fake(blk) /\ at # 0
  <2>1. ~Executing
    BY <1>1 DEF Executing
  <2> QED
    BY <2>1, AtHandInsn
<1>3. PICK n \in Nat : n = Len(code[blk])
  BY <1>1
<1>4. code[blk] \in Seq(Instr) /\ (blk \in 1 .. N \/ blk \in N + 1 .. Len(code))
  BY <1>1, LaidFacts
<1>5. ip - 1 = n /\ (n >= 1 => ip > 1 /\ n \in 1 .. Len(code[blk]))
  BY <1>2, <1>3
<1>6. n >= 1 => code[blk] # <<>> /\ Last(code[blk]) = code[blk][n]
  <2>1. PICK s \in Seq(Instr) : s = code[blk]
    BY <1>4
  <2>2. Len(s) >= 1 => s # <<>> /\ Last(s) = s[Len(s)]
    BY <2>1 DEF Last
  <2> QED
    BY <1>3, <2>1, <2>2
<1>7. ASSUME n >= 1, code[blk][n].op = "lea", v[blk] = Null PROVE EndsInLoad(blk) /\ Selected(v, o)
  <2>1. LoadsBehind(v, o, blk)
    BY <1>1, <1>5, <1>7, Operations
  <2>2. PICK z : z = regs["R15"] /\ z \in code[blk][n].to
    BY <1>1, <1>5, <1>7 DEF Loaded
  <2>3. z \in 1 .. Len(code) /\ o[z] = o[blk] /\ Behind(blk, v[z])
    BY <1>5, <1>7, <2>1, <2>2 DEF LoadsBehind
  <2> QED
    BY <1>6, <1>7, <2>2, <2>3 DEF EndsInLoad, Loads, Selected
<1>8. ASSUME n >= 1, code[blk][n].op = "cmov" PROVE EndsInLoad(blk) /\ Selected(v, o)
  BY <1>1, <1>5, <1>6, <1>8 DEF EndsInLoad, Loads, Passed
<1>9. ASSUME n >= 1 PROVE code[blk][n].op \in {"body", "keep", "dummy", "lea", "leatmp", "cmov"}
  BY <1>1, <1>5, <1>9 DEF Passed
<1>10. CASE blk \in 1 .. N
  <2>1. Converted(g, blk) /\ v[blk] = Null /\ Len(fn[blk]) \in Nat /\ Len(fn[blk]) >= 1
        /\ Last(fn[blk]) = fn[blk][Len(fn[blk])]
    BY <1>1, <1>10, FinishedFacts, LaidFacts, FnFacts
  <2>2. CASE EndsAsBefore(blk)
    <3>1. n >= 1 /\ code[blk][n] = Last(fn[blk]) /\ Last(fn[blk]).op \in {"ret", "call", "ind"}
      BY <1>3, <2>1, <2>2 DEF EndsAsBefore, Keeps
    <3> QED
      BY <1>9, <3>1
  <2>3. CASE EndsInLea(g, blk)
    <3>1. PICK k, z : k \in 0 .. Len(fn[blk]) /\ Len(code[blk]) = k + 1 /\ code[blk][k + 1] = Lea(z)
      BY <2>3 DEF EndsInLea
    <3>2. n = k + 1 /\ n >= 1 /\ code[blk][n].op = "lea"
      BY <1>3, <2>1, <3>1, OpFacts
    <3> QED
      BY <1>2, <1>7, <2>1, <3>2
  <2>4. CASE EndsInCMov(g, blk)
    <3>1. PICK k \in 1 .. Len(fn[blk]) : Len(code[blk]) = k + 2 /\ code[blk][k + 2] = CMov(fn[blk][k].cc)
      BY <2>4, Zenon DEF EndsInCMov
    <3>2. n >= 1 /\ code[blk][n].op = "cmov"
      BY <1>3, <2>1, <3>1, OpFacts
    <3> QED
      BY <1>2, <1>8, <2>1, <3>2
  <2> QED
    BY <2>1, <2>2, <2>3, <2>4 DEF Converted
<1>11. CASE blk \in N + 1 .. Len(code)
  <2>1. Route(v, o, blk)
    BY <1>1, <1>2, <1>11, LaidFacts
  <2>2. CASE SplitDone(v, o, blk)
    <3>1. n >= 1 /\ code[blk][n].op = "lea" /\ v[blk] = Null
      BY <1>3, <2>2 DEF SplitDone
    <3> QED
      BY <1>2, <1>7, <3>1
  <2>3. CASE PassesOn(v, o, blk)
    <3>1. n >= 2 /\ \E f : code[blk][n] = Jmp(f)
      BY <1>3, <2>3 DEF PassesOn
    <3>2. n >= 1 /\ code[blk][n].op = "jmp"
      BY <3>1, OpFacts
    <3> QED
      BY <1>9, <3>2
  <2>4. CASE EndsAt(v, o, blk)
    <3>1. PICK t : code[blk] = <<Jmp(t)>>
      BY <2>4 DEF EndsAt
    <3>2. n = 1 /\ code[blk][1] = Jmp(t)
      BY <1>3, <3>1
    <3> QED
      BY <1>9, <3>2, OpFacts
  <2> QED
    BY <2>1, <2>2, <2>3, <2>4 DEF Route
<1> QED
  BY <1>4, <1>10, <1>11

LEMMA FallThroughOn ==
  ASSUME NEW v, NEW o, NEW g, OnTrail(v, o, g), UNCHANGED vars, FallThrough
  PROVE  StaysOn(v, o)
<1>1. ip > Len(code[blk]) /\ regs' = regs
  BY DEF FallThrough
<1>2. ~Fake(blk) /\ at # 0 /\ v[blk] = Null /\ EndsInLoad(blk) /\ Selected(v, o)
  BY <1>1, EndSelects
<1>3. /\ Laid(v, o, g) /\ Finished(g) /\ blk \in 1 .. Len(code) /\ at \in 1 .. N /\ Climbing(v, o)
  BY <1>2, AtHandInsn DEF Laid
<1>4. /\ Layout = before /\ Len(before) \in Nat /\ LeaBeforeFake /\ Good /\ Once
      /\ N \in Nat /\ Len(code) \in Nat /\ N <= Len(code)
  BY <1>3, FinishedFacts, LaidFacts
<1>5. PICK k \in 1 .. Len(before) - 1 : before[k] = blk /\ GoTo(before[k + 1], trail)
  BY <1>4 DEF FallThrough
<1>6. k \in 1 .. Len(before) /\ k + 1 \in 1 .. Len(before)
  BY <1>4, <1>5
<1>7. PICK f : f = before[k + 1]
  OBVIOUS
<1>8. Fake(f) /\ f \in N + 1 .. Len(code)
  <2>1. Fake(f) /\ f \in 1 .. Len(code)
    BY <1>2, <1>4, <1>5, <1>6, <1>7, ListFacts DEF LeaBeforeFake
  <2> QED
    BY <1>3, <2>1, LaidFacts
<1>9. PICK z \in 1 .. Len(code) : z = regs["R15"] /\ o[z] = o[blk] /\ Behind(blk, v[z])
  BY <1>2 DEF Selected
<1>10. v[z] = f
  <2>1. PICK y : y = v[z]
    OBVIOUS
  <2>2. Behind(blk, y)
    BY <1>9, <2>1
  <2>3. before[k + 1] = y
    BY <1>3, <1>5, <1>6, <2>2, BehindAt
  <2> QED
    BY <1>7, <2>1, <2>3
<1>11. PICK s \in 1 .. Len(before), n \in 0 .. Len(before) : before[s] = at /\ Ladder(s, n) /\ AtOther(v, o, s, n)
  BY <1>2, <1>3 DEF Climbing, OnLadder
<1>12. o[blk] = at /\ s + 2 * n <= Len(before) /\ before[s + 2 * n] = blk
  BY <1>2, <1>11 DEF AtOther
<1>13. s + 2 * n = k
  <2>1. s + 2 * n \in 1 .. Len(before)
    BY <1>4, <1>12
  <2> QED
    BY <1>4, <1>5, <1>6, <1>12, <2>1 DEF Once
<1>14. s + 2 * n + 1 <= Len(before) /\ before[s + 2 * n + 1] = f /\ ~Fake(before[s + 2 * n])
  BY <1>2, <1>4, <1>5, <1>7, <1>12, <1>13
<1>15. ip' = 1 /\ blk' = f /\ at' = at /\ trail' = trail /\ code' = code /\ before' = before
  <2>1. ~(f <= N)
    BY <1>4, <1>8
  <2> QED
    BY <1>5, <1>7, <2>1 DEF GoTo, vars
<1>16. Climbing(v, o)'
  <2>1. Ladder(s, n)'
    BY <1>11, <1>15 DEF Ladder, Fake
  <2>2. SentTo(v, o, blk)'
    BY <1>1, <1>9, <1>10, <1>12, <1>15 DEF SentTo
  <2>3. AtFake(v, o, s, n)'
    BY <1>14, <1>15, <2>2 DEF AtFake, Fake
  <2>4. Fake(blk)'
    BY <1>8, <1>15 DEF Fake
  <2>5. OnLadder(v, o, s, n)'
    BY <1>11, <1>15, <2>1, <2>3, <2>4 DEF OnLadder
  <2> QED
    BY <1>15, <2>5 DEF Climbing
<1> QED
  BY <1>3, <1>5, <1>7, <1>8, <1>16, MovedOn

\* The function is entered.
LEMMA StartOn ==
  ASSUME NEW v, NEW o, NEW g, Laid(v, o, g), Idle, run = "off", UNCHANGED vars, Start
  PROVE  StaysOn(v, o)
<1>1. /\ before[1] \in N + 1 .. Len(code) /\ Layout = before /\ N \in Nat /\ Len(code) \in Nat
  BY LaidFacts DEF Laid, Finished, Entry
<1>2. PICK b \in N + 1 .. Len(code) : b = before[1]
  BY <1>1
<1>3. blk' = b /\ ip' = 1 /\ at' = at /\ tick' = tick /\ at = 0 /\ code' = code /\ before' = before
  <2>1. ~(b <= N)
    BY <1>1
  <2> QED
    BY <1>1, <1>2, <2>1 DEF Start, GoTo, vars, Idle
<1>4. b \in 1 .. Len(code) /\ 0 \in 0 .. N /\ 1 \in 1 .. Len(code[b]) + 1
  <2>1. b \in 1 .. Len(code) /\ 0 \in 0 .. N
    BY <1>1
  <2>2. Len(code[b]) \in Nat
    BY <2>1, LaidFacts
  <2> QED
    BY <2>1, <2>2
<1>5. Loaded' /\ Passed(v, o)'
  <2>1. ~(ip' > 1)
    BY <1>3
  <2> QED
    BY <2>1 DEF Loaded, Passed
<1> QED
  BY <1>2, <1>3, <1>4, <1>5 DEF StaysOn, RunOnTrail, Uniform

(***************************************************************************)
(* The run goes through every fake block on the way.                       *)
(***************************************************************************)
Ordinary == Supported(fn) /\ AllAtEnd(fn) /\ JumpsLast(fn)
TrailRun ==
  Ordinary /\ run = "on" => \E v, o, g : TrailMaps(v, o) /\ PathGoals(g) /\ RunOnTrail(v, o)

LEMMA ExecOnTrail ==
  ASSUME Ordinary, CodeKnown, Idle, XTypeOK, TrailsInvariant, TrailRun, Exec, UNCHANGED vars
  PROVE  TrailRun' /\ Uniform
<1>1. pc = "done" /\ Good /\ OneLane /\ LayoutOK /\ Entry /\ PathInvariant /\ TrailInvariant
  BY DEF Exec, Start, ExecBody, ExecLea, ExecCMov, ExecDummy, ExecJump, ExecJcc, ExecJmpTarget,
     ExecLeave, FallThrough, Executing, Idle, Ordinary, CodeKnown, TrailsInvariant
<1>2. ASSUME NEW v, NEW o, NEW g, TrailMaps(v, o), PathGoals(g) PROVE Laid(v, o, g)
  BY <1>1, <1>2 DEF Laid, Finished, Ordinary
<1>3. ASSUME NEW v, NEW o, NEW g, TrailMaps(v, o), PathGoals(g), StaysOn(v, o) PROVE TrailRun' /\ Uniform
  <2>1. TrailMaps(v, o)' /\ PathGoals(g)'
    BY <1>1, <1>3, SameMaps, SameGoals
  <2> QED
    BY <1>3, <2>1 DEF TrailRun, StaysOn
<1>4. CASE Start
  <2>1. PICK v, o : TrailMaps(v, o)
    BY <1>1 DEF TrailInvariant
  <2>2. PICK g : PathGoals(g)
    BY <1>1 DEF PathInvariant
  <2>3. run = "off"
    BY <1>4 DEF Start
  <2>4. StaysOn(v, o)
    BY <1>2, <1>4, <2>1, <2>2, <2>3, StartOn
  <2> QED
    BY <1>3, <2>1, <2>2, <2>4
<1>5. CASE ~Start
  <2>1. run = "on"
    BY <1>5 DEF Exec, ExecBody, ExecLea, ExecCMov, ExecDummy, ExecJump, ExecJcc, ExecJmpTarget,
       ExecLeave, FallThrough, Executing
  <2>2. PICK v, o, g : TrailMaps(v, o) /\ PathGoals(g) /\ RunOnTrail(v, o)
    BY <2>1 DEF TrailRun
  <2>3. OnTrail(v, o, g)
    BY <1>2, <2>1, <2>2 DEF OnTrail, XTypeOK, Values
  <2>4. CASE ExecLeave
    BY <2>4 DEF ExecLeave, TrailRun, Uniform, history
  <2>5. CASE ~ExecLeave
    <3>1. StaysOn(v, o)
      BY <1>5, <2>3, <2>5, BodyOn, LeaOn, CMovOn, DummyOn, JumpOn, JccOn, JmpTargetOn, FallThroughOn DEF Exec
    <3> QED
      BY <1>3, <2>2, <3>1
  <2> QED
    BY <2>4, <2>5
<1> QED
  BY <1>4, <1>5

\* A supported function whose jumps and conditional branches are at the ends
\* of its blocks, once converted, goes to a later block through the jumps
\* behind all the blocks in between, in the order of the list, and to an
\* earlier one, or back to the block it is in, through the jump behind that
\* block first; for every number of blocks, every shape of the control flow,
\* and with or without the dummy instructions.
THEOREM TrailIsLeft ==
  XSpec /\ Supported(fn) /\ AllAtEnd(fn) /\ JumpsLast(fn) => ForwardJumpsVisitEveryBlock
<1> DEFINE Known == CodeKnown /\ Idle /\ (Supported(fn) => XTypeOK) /\ TrailsInvariant
           Step == [tick' # tick /\ at # 0 => TrailIsUniform(at, at')]_xvars
<1>1. XInit => TrailRun
  BY DEF XInit, TrailRun
<1>2. Ordinary /\ [XNext]_allvars => Ordinary'
  <2>1. [XNext]_allvars => fn' = fn
    BY XStepIsStep, FunctionFixed
  <2> QED
    BY <2>1 DEF Ordinary, Supported, AllAtEnd, JumpsLast
<1>3. Known /\ Ordinary /\ TrailRun /\ [XNext]_allvars => TrailRun' /\ Step
  <2> SUFFICES ASSUME Known, Ordinary, TrailRun, [XNext]_allvars PROVE TrailRun' /\ Step
    OBVIOUS
  <2>1. Supported(fn) /\ XTypeOK /\ CodeKnown /\ Idle /\ TrailsInvariant /\ fn' = fn
    BY XStepIsStep, FunctionFixed DEF Ordinary
  <2>2. Uniform => Step
    BY DEF Uniform
  <2>3. CASE UNCHANGED allvars
    <3>1. UNCHANGED vars /\ UNCHANGED <<run, blk, ip, regs, at, trail, tick>>
      BY <2>3 DEF allvars, xvars
    <3>2. Uniform
      BY <3>1 DEF Uniform
    <3>3. ASSUME run' = "on" PROVE TrailRun'
      <4>1. PICK v, o, g : TrailMaps(v, o) /\ PathGoals(g) /\ RunOnTrail(v, o)
        BY <3>1, <3>3 DEF TrailRun
      <4>2. Good
        BY <2>1 DEF CodeKnown
      <4>3. TrailMaps(v, o)' /\ PathGoals(g)'
        BY <3>1, <4>1, <4>2, SameMaps, SameGoals
      <4>4. RunOnTrail(v, o)'
        <5>1. code' = code /\ before' = before
          BY <3>1 DEF vars
        <5>2. Climbing(v, o)' <=> Climbing(v, o)
          BY <3>1, <5>1 DEF Climbing, OnLadder, Ladder, AtFake, AtOther, SentTo, Fake
        <5>3. Passed(v, o)' <=> Passed(v, o)
          BY <3>1, <5>1 DEF Passed, Selected, Behind
        <5>4. Loaded' <=> Loaded
          BY <3>1, <5>1 DEF Loaded
        <5> QED
          BY <3>1, <4>1, <5>1, <5>2, <5>3, <5>4 DEF RunOnTrail
      <4> QED
        BY <4>3, <4>4 DEF TrailRun
    <3> QED
      BY <2>2, <3>2, <3>3 DEF TrailRun
  <2>4. CASE PassStep /\ UNCHANGED xvars
    <3>1. run' = "off" /\ UNCHANGED xvars
      BY <2>1, <2>4, PassStepRuns DEF Idle, xvars
    <3> QED
      BY <3>1 DEF TrailRun
  <2>5. CASE Exec /\ UNCHANGED vars
    <3>1. TrailRun' /\ Uniform
      BY <2>1, <2>5, ExecOnTrail
    <3> QED
      BY <2>2, <3>1
  <2> QED
    BY <2>3, <2>4, <2>5, XSteps
<1>4. Supported(fn) /\ AllAtEnd(fn) /\ JumpsLast(fn) => Ordinary
  BY DEF Ordinary
<1> HIDE DEF Known
<1>5. CodeKnown /\ Idle /\ (Supported(fn) => XTypeOK) /\ TrailsInvariant => Known
  BY DEF Known
<1> QED
  BY <1>1, <1>2, <1>3, <1>4, <1>5, CodeIsKnown, IdleHolds, RunTyped, PassRuns, TrailsLaid, PTL
  DEF XSpec, ForwardJumpsVisitEveryBlock
=============================================================================
