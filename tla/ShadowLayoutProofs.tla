-------------------------- MODULE ShadowLayoutProofs --------------------------
(***************************************************************************)
(* Theorems about the code builder, for every src and dst within           *)
(* AddressAssumption and wherever mmap puts the memory.                    *)
(***************************************************************************)
EXTENDS ShadowLayout, WellFoundedInduction, TLAPS

-----------------------------------------------------------------------------
(***************************************************************************)
(* Sums over a list.                                                       *)
(***************************************************************************)
LEMMA LeastElement ==
  ASSUME NEW S \in SUBSET Nat, S # {}
  PROVE  \E x \in S : \A y \in S : x <= y
<1> DEFINE R == {ss \in Nat \X Nat : ss[1] < ss[2]}
<1>1. IsWellFoundedOn(R, Nat)
  BY NatLessThanWellFounded DEF OpToRel
<1>2. PICK x \in S : \A y \in S : ~(<<y, x>> \in R)
  <2> HIDE DEF R
  <2> QED
    BY <1>1, WFMin
<1>3. ASSUME NEW y \in S PROVE x <= y
  <2>1. ~(<<y, x>> \in {ss \in Nat \X Nat : ss[1] < ss[2]})
    BY <1>2
  <2>2. <<y, x>>[1] = y /\ <<y, x>>[2] = x /\ <<y, x>> \in Nat \X Nat
    OBVIOUS
  <2>3. ~(y < x)
    BY <2>1, <2>2
  <2> QED
    BY <2>3
<1> QED
  BY <1>3

LEMMA AllNumbers ==
  ASSUME NEW S, 0 \in S, \A n \in Nat : n \in S => n + 1 \in S
  PROVE  \A n \in Nat : n \in S
<1> DEFINE T == {n \in Nat : n \notin S}
<1> SUFFICES ASSUME T # {} PROVE FALSE
  OBVIOUS
<1>1. PICK x \in T : \A y \in T : x <= y
  BY LeastElement
<1>2. x - 1 \in Nat /\ x - 1 \in S
  BY <1>1
<1> QED
  BY <1>1, <1>2

\* f[k] is the sum of w[1] .. w[k].
Sums(f, w, n) ==
  f \in [0 .. n -> Nat] /\ f[0] = 0 /\ \A k \in 1 .. n : f[k] = f[k - 1] + w[k]

LEMMA SumsExist ==
  ASSUME NEW w \in [Nat -> Nat]
  PROVE  \A n \in Nat : \E f : Sums(f, w, n)
<1> DEFINE S == {n \in Nat : \E f : Sums(f, w, n)}
<1>1. 0 \in S
  <2>1. Sums([k \in 0 .. 0 |-> 0], w, 0)
    BY DEF Sums
  <2> QED
    BY <2>1
<1>2. ASSUME NEW n \in Nat, n \in S PROVE n + 1 \in S
  <2>1. PICK f : Sums(f, w, n)
    BY <1>2
  <2> DEFINE g == [k \in 0 .. n + 1 |-> IF k = n + 1 THEN f[n] + w[n + 1] ELSE f[k]]
  <2>2. Sums(g, w, n + 1)
    <3>1. f \in [0 .. n -> Nat] /\ f[0] = 0 /\ (\A k \in 1 .. n : f[k] = f[k - 1] + w[k])
      BY <2>1 DEF Sums
    <3>2. n \in 0 .. n /\ n + 1 \in Nat /\ f[n] \in Nat /\ w[n + 1] \in Nat
      BY <3>1
    <3>3. \A k \in 0 .. n + 1 : k = n + 1 \/ k \in 0 .. n
      OBVIOUS
    <3>4. g \in [0 .. n + 1 -> Nat] /\ g[0] = 0 /\ g[n + 1] = f[n] + w[n + 1]
          /\ \A k \in 0 .. n : g[k] = f[k]
      BY <3>1, <3>2, <3>3, SMTT(30)
    <3> HIDE DEF g
    <3>5. ASSUME NEW k \in 1 .. n + 1 PROVE g[k] = g[k - 1] + w[k]
      <4>1. k - 1 \in 0 .. n /\ (k = n + 1 \/ (k \in 1 .. n /\ k \in 0 .. n))
        OBVIOUS
      <4>2. CASE k = n + 1
        <5>1. k - 1 = n
          BY <4>2
        <5> QED
          BY <3>2, <3>4, <4>2, <5>1
      <4> QED
        BY <3>1, <3>4, <4>1, <4>2
    <3> QED
      BY <3>4, <3>5 DEF Sums
  <2> QED
    BY <2>2
<1>3. \A n \in Nat : n \in S
  <2> HIDE DEF S
  <2> QED
    BY <1>1, <1>2, AllNumbers
<1> QED
  BY <1>3

LEMMA SumsGrow ==
  ASSUME NEW w \in [Nat -> Nat], NEW n \in Nat, NEW f, Sums(f, w, n)
  PROVE  \A i, j \in 0 .. n : i <= j => f[i] <= f[j]
<1> DEFINE S == {m \in Nat : m <= n => \A i \in 0 .. m : f[i] <= f[m]}
<1>1. 0 \in S
  BY DEF Sums
<1>2. ASSUME NEW m \in Nat, m \in S PROVE m + 1 \in S
  <2> SUFFICES ASSUME m + 1 <= n, NEW i \in 0 .. m + 1 PROVE f[i] <= f[m + 1]
    OBVIOUS
  <2>1. f[m + 1] = f[m] + w[m + 1] /\ w[m + 1] \in Nat /\ f[m] \in Nat /\ f[i] \in Nat /\ f[m + 1] \in Nat
    <3>1. m + 1 \in 1 .. n /\ m \in 0 .. n /\ i \in 0 .. n /\ m + 1 \in 0 .. n /\ (m + 1) - 1 = m
      OBVIOUS
    <3>2. f[m + 1] = f[(m + 1) - 1] + w[m + 1]
      BY <3>1 DEF Sums
    <3>3. f \in [0 .. n -> Nat]
      BY DEF Sums
    <3>4. f[m] \in Nat /\ f[i] \in Nat /\ f[m + 1] \in Nat
      BY <3>1, <3>3
    <3>5. w[m + 1] \in Nat
      OBVIOUS
    <3> QED
      BY <3>1, <3>2, <3>4, <3>5
  <2>2. i = m + 1 \/ f[i] <= f[m]
    BY <1>2
  <2> QED
    BY <2>1, <2>2
<1>3. \A m \in Nat : m \in S
  <2> HIDE DEF S
  <2> QED
    BY <1>1, <1>2, AllNumbers
<1> QED
  BY <1>3

\* Going back from e over elements of sizes w that sum up to T, a distance d
\* apart.
BackFrom(T, n, e, d) == [k \in 1 .. n |-> e - (T[n] - T[k - 1]) - (n - k + 1) * d]
Backwards(g, w, n, e, d) ==
  \A k \in 1 .. n : g[k] = (IF k = n THEN e ELSE g[k + 1]) - w[k] - d /\ g[k] \in Int

LEMMA BackSums ==
  ASSUME NEW n \in Nat, NEW e \in Int, NEW d \in Int, NEW w \in [Nat -> Nat], NEW T, Sums(T, w, n),
         NEW g, g = BackFrom(T, n, e, d)
  PROVE  Backwards(g, w, n, e, d)
<1> SUFFICES ASSUME NEW k \in 1 .. n
             PROVE  g[k] = (IF k = n THEN e ELSE g[k + 1]) - w[k] - d /\ g[k] \in Int
  BY DEF Backwards
<1>1. (n - k + 1) * d = (n - k) * d + d /\ (n - k) * d \in Int /\ (n - k = 0 => (n - k) * d = 0)
  OBVIOUS
<1>2. PICK q \in Int : q = (n - k) * d
  BY <1>1
<1>3. k = n => q = 0
  BY <1>1, <1>2
<1>4. k - 1 \in 0 .. n /\ k \in 0 .. n /\ n \in 0 .. n
  OBVIOUS
<1>5. PICK a, b, c, z \in Nat : a = T[k - 1] /\ b = T[k] /\ c = T[n] /\ z = w[k] /\ b = a + z
  <2>1. T[k] = T[k - 1] + w[k] /\ T[k - 1] \in Nat /\ T[k] \in Nat /\ T[n] \in Nat
    BY <1>4 DEF Sums
  <2> QED
    BY <2>1
<1>6. g[k] = e - (c - a) - (q + d)
  BY <1>1, <1>2, <1>5 DEF BackFrom
<1>7. ASSUME k # n PROVE g[k + 1] = e - (c - b) - q
  <2>1. k + 1 \in 1 .. n /\ (k + 1) - 1 = k /\ n - (k + 1) + 1 = n - k
    BY <1>7
  <2> QED
    BY <1>2, <1>5, <2>1 DEF BackFrom
<1>8. k = n => b = c
  BY <1>5
<1>9. ASSUME NEW x, x = e - (c - a) - (q + d), NEW y, k # n => y = e - (c - b) - q
      PROVE  x = (IF k = n THEN e ELSE y) - z - d /\ x \in Int
  BY <1>3, <1>5, <1>8, <1>9
<1> QED
  BY <1>5, <1>6, <1>7, <1>9

-----------------------------------------------------------------------------
(***************************************************************************)
(* Segments and the loops over them.                                       *)
(***************************************************************************)
Inputs == builder \in Builders /\ indirect \in BOOLEAN /\ src \in Sources /\ dst - src \in Distances /\ dst \in Int

LEMMA Sizes ==
  ASSUME Inputs, NEW s \in Names
  PROVE  /\ Size(s) \in Nat /\ Size(s) >= 1 /\ Size(s) <= 121 /\ (s \notin {"end_if", "end_else"} => Size(s) <= 10)
         /\ Size("if") = 5 /\ Size("src") \in Nat /\ Size("src") <= 4
<1>1. Kind(s) \in {"Nop", "SetPosInReg", "EaxAndOne", "EaxAndOneIndir", "JneEaxZero", "Jump", "JumpR13",
                   "LongJump", "EaxWrite", "Retq"}
  BY DEF Kind, Names
<1>2. Kind(s) = "Retq" => s \in {"end_if", "end_else"}
  BY DEF Kind, Names
<1>3. Kind("if") = "EaxWrite" /\ Kind("src") \in {"JneEaxZero", "Jump", "JumpR13"}
  BY DEF Kind
<1> QED
  BY <1>1, <1>2, <1>3 DEF Size, KindSize

\* The sizes of the loose segments, summed up.
LooseSums(T) ==
  /\ T \in [0 .. Len(loose) -> Nat] /\ T[0] = 0
  /\ \A k \in 1 .. Len(loose) : T[k] = T[k - 1] + Size(loose[k])
  /\ \A i, j \in 0 .. Len(loose) : i <= j => T[i] <= T[j]

LEMMA LooseSumsExist == ASSUME Inputs, loose \in Seq(Names) PROVE \E T : LooseSums(T)
<1> DEFINE w == [k \in Nat |-> IF k \in 1 .. Len(loose) THEN Size(loose[k]) ELSE 0]
<1>1. \A k \in 1 .. Len(loose) : Size(loose[k]) \in Nat
  <2> SUFFICES ASSUME NEW k \in 1 .. Len(loose) PROVE Size(loose[k]) \in Nat
    OBVIOUS
  <2>1. loose[k] \in Names
    OBVIOUS
  <2> QED
    BY <2>1, Sizes
<1>2. w \in [Nat -> Nat] /\ Len(loose) \in Nat
  BY <1>1
<1>3. PICK T : Sums(T, w, Len(loose))
  BY <1>2, SumsExist
<1>4. \A i, j \in 0 .. Len(loose) : i <= j => T[i] <= T[j]
  BY <1>2, <1>3, SumsGrow
<1>5. \A k \in 1 .. Len(loose) : w[k] = Size(loose[k])
  OBVIOUS
<1> HIDE DEF w
<1>6. LooseSums(T)
  BY <1>2, <1>3, <1>4, <1>5 DEF Sums, LooseSums
<1> QED
  BY <1>6

LEMMA TotalIs ==
  ASSUME Inputs, loose \in Seq(Names), NEW T, LooseSums(T)
  PROVE  Total = T[Len(loose)]
<1> DEFINE n == Len(loose)
           F == CHOOSE f : f = [k \in 0 .. n |-> IF k = 0 THEN 0 ELSE f[k - 1] + Size(loose[k])]
<1>1. T = [k \in 0 .. n |-> IF k = 0 THEN 0 ELSE T[k - 1] + Size(loose[k])]
  BY DEF LooseSums
<1>2. F = [k \in 0 .. n |-> IF k = 0 THEN 0 ELSE F[k - 1] + Size(loose[k])]
  BY <1>1
<1>3. Total = F[n]
  BY DEF Total
<1> HIDE DEF F
<1> DEFINE S == {m \in Nat : m <= n => F[m] = T[m]}
<1>4. n \in Nat
  OBVIOUS
<1>5. 0 \in S
  BY <1>1, <1>2, <1>4
<1>6. ASSUME NEW m \in Nat, m \in S PROVE m + 1 \in S
  BY <1>1, <1>2, <1>4, <1>6
<1>7. \A m \in Nat : m \in S
  <2> HIDE DEF S
  <2> QED
    BY <1>5, <1>6, AllNumbers
<1> QED
  BY <1>3, <1>4, <1>7

\* The loop of place_segment that sets the loose segments' positions.
LEMMA BackIs ==
  ASSUME Inputs, loose \in Seq(Names), NEW T, LooseSums(T), NEW s, pos[s] \in Int, Spacing(s) \in Int,
         pos \in [Names -> Int], \A i, j \in 1 .. Len(loose) : loose[i] = loose[j] => i = j
  PROVE  /\ \A k \in 1 .. Len(loose) : PosBefore(s)[loose[k]] =
              pos[s] - (T[Len(loose)] - T[k - 1]) - (Len(loose) - k + 1) * Spacing(s)
         /\ \A t \in Names : (\A k \in 1 .. Len(loose) : loose[k] # t) => PosBefore(s)[t] = pos[t]
         /\ PosBefore(s) \in [Names -> Int]
<1>0. PICK n, e, d : n = Len(loose) /\ e = pos[s] /\ d = Spacing(s)
  OBVIOUS
<1>1. n \in Nat /\ e \in Int /\ d \in Int /\ DOMAIN loose = 1 .. n
  BY <1>0
<1> DEFINE F == CHOOSE f : f = [k \in 1 .. Len(loose) |->
                  (IF k = Len(loose) THEN pos[s] ELSE f[k + 1]) - Size(loose[k]) - Spacing(s)]
           G == BackFrom(T, n, e, d)
<1>2. PosBefore(s) = [t \in Names |-> IF \E k \in DOMAIN loose : loose[k] = t
                      THEN F[CHOOSE k \in DOMAIN loose : loose[k] = t]
                      ELSE pos[t]]
  BY DEF PosBefore
<1>3. \A k \in 1 .. n : /\ T[k] = T[k - 1] + Size(loose[k]) /\ T[k - 1] \in Nat /\ T[k] \in Nat
                        /\ Size(loose[k]) \in Nat
  <2> SUFFICES ASSUME NEW k \in 1 .. n
               PROVE  /\ T[k] = T[k - 1] + Size(loose[k]) /\ T[k - 1] \in Nat /\ T[k] \in Nat
                      /\ Size(loose[k]) \in Nat
    OBVIOUS
  <2>1. k - 1 \in 0 .. n /\ k \in 0 .. n /\ loose[k] \in Names
    BY <1>0, <1>1
  <2> QED
    BY <1>0, <2>1, Sizes DEF LooseSums
<1>4. T[n] \in Nat
  BY <1>0, <1>1 DEF LooseSums
<1>5. \A k \in 1 .. n : G[k] = (IF k = n THEN e ELSE G[k + 1]) - Size(loose[k]) - d /\ G[k] \in Int
  <2>1. PICK w : w = [k \in Nat |-> IF k \in 1 .. n THEN Size(loose[k]) ELSE 0]
    OBVIOUS
  <2>2. PICK g : g = G
    OBVIOUS
  <2>3. w \in [Nat -> Nat] /\ \A k \in 1 .. n : w[k] = Size(loose[k])
    BY <1>1, <1>3, <2>1
  <2>4. Sums(T, w, n)
    BY <1>0, <2>3 DEF LooseSums, Sums
  <2>5. g = BackFrom(T, n, e, d)
    BY <2>2
  <2> HIDE DEF G, F
  <2>6. Backwards(g, w, n, e, d)
    BY <1>1, <2>3, <2>4, <2>5, BackSums
  <2> QED
    BY <2>2, <2>3, <2>6 DEF Backwards
<1>6. G = [k \in 1 .. Len(loose) |-> (IF k = Len(loose) THEN pos[s] ELSE G[k + 1]) - Size(loose[k]) - Spacing(s)]
  <2>1. G = [k \in 1 .. n |-> G[k]]
    BY DEF BackFrom
  <2> HIDE DEF G
  <2>2. G = [k \in 1 .. n |-> (IF k = n THEN e ELSE G[k + 1]) - Size(loose[k]) - d]
    BY <1>5, <2>1
  <2> QED
    BY <1>0, <2>2
<1>7. F = [k \in 1 .. Len(loose) |-> (IF k = Len(loose) THEN pos[s] ELSE F[k + 1]) - Size(loose[k]) - Spacing(s)]
  <2> HIDE DEF G
  <2> QED
    BY <1>6
<1> HIDE DEF F
<1>8. \A k \in 1 .. n : F[k] = (IF k = n THEN e ELSE F[k + 1]) - Size(loose[k]) - d
  BY <1>0, <1>7
<1>9. \A k \in 1 .. n : F[k] = G[k]
  <2> HIDE DEF G
  <2> DEFINE S == {m \in Nat : m < n => F[n - m] = G[n - m]}
  <2>1. 0 \in S
    <3>1. n > 0 => n - 0 \in 1 .. n /\ n - 0 = n
      BY <1>1
    <3> QED
      BY <1>1, <1>5, <1>8, <3>1
  <2>2. ASSUME NEW m \in Nat, m \in S PROVE m + 1 \in S
    <3> SUFFICES ASSUME m + 1 < n PROVE F[n - (m + 1)] = G[n - (m + 1)]
      OBVIOUS
    <3>1. PICK k \in 1 .. n : k = n - (m + 1) /\ k + 1 = n - m /\ k # n
      BY <1>1
    <3>2. F[k + 1] = G[k + 1]
      BY <1>1, <2>2, <3>1
    <3> QED
      BY <1>5, <1>8, <3>1, <3>2
  <2>3. \A m \in Nat : m \in S
    <3> HIDE DEF S
    <3> QED
      BY <2>1, <2>2, AllNumbers
  <2>4. ASSUME NEW k \in 1 .. n PROVE F[k] = G[k]
    <3>1. PICK m \in Nat : m = n - k /\ m < n /\ n - m = k
      BY <1>1
    <3>2. m \in S
      BY <2>3
    <3> QED
      BY <3>1, <3>2
  <2> QED
    BY <2>4
<1>10. ASSUME NEW k \in 1 .. n PROVE PosBefore(s)[loose[k]] = G[k]
  <2>1. loose[k] \in Names /\ k \in DOMAIN loose /\ (CHOOSE j \in DOMAIN loose : loose[j] = loose[k]) = k
    BY <1>0, <1>1
  <2> HIDE DEF G
  <2> QED
    BY <1>2, <1>9, <2>1
<1>11. \A t \in Names : (\A k \in 1 .. n : loose[k] # t) => PosBefore(s)[t] = pos[t]
  BY <1>1, <1>2
<1>12. PosBefore(s) \in [Names -> Int]
  <2>1. ASSUME NEW t \in Names PROVE PosBefore(s)[t] \in Int
    <3>1. CASE \E k \in 1 .. n : loose[k] = t
      <4>1. PICK k \in 1 .. n : loose[k] = t
        BY <3>1
      <4> HIDE DEF G
      <4> QED
        BY <1>5, <1>10, <4>1
    <3>2. CASE \A k \in 1 .. n : loose[k] # t
      BY <1>11, <3>2
    <3> QED
      BY <3>1, <3>2
  <2> QED
    BY <1>2, <2>1
<1>13. \A k \in 1 .. n : G[k] = e - (T[n] - T[k - 1]) - (n - k + 1) * d
  BY DEF BackFrom
<1> HIDE DEF G
<1> QED
  BY <1>0, <1>10, <1>11, <1>12, <1>13

LEMMA AheadStep ==
  ASSUME NEW k \in Int, NEW a \in Nat, NEW b \in Nat, NEW z \in Nat, NEW e \in Int, a = b + z,
         NEW x, NEW y, x = e + a + 2 * k, y = e + b + 2 * (k - 1)
  PROVE  x = y + z + 2 /\ x \in Int
OBVIOUS

\* The loop of finalize that puts the remaining segments behind the others.
LEMMA AheadIs ==
  ASSUME Inputs, loose \in Seq(Names), NEW T, LooseSums(T), pos \in [Names -> Int],
         NEW e \in Int, e = End(Last(segments)), PlaceRest,
         \A i, j \in 1 .. Len(loose) : loose[i] = loose[j] => i = j
  PROVE  /\ \A k \in 1 .. Len(loose) : pos'[loose[k]] = e + T[k - 1] + 2 * k
         /\ \A t \in Names : (\A k \in 1 .. Len(loose) : loose[k] # t) => pos'[t] = pos[t]
         /\ pos' \in [Names -> Int]
<1>0. PICK n : n = Len(loose)
  OBVIOUS
<1>1. n \in Nat /\ DOMAIN loose = 1 .. n
  BY <1>0
<1> DEFINE F == CHOOSE f : f = [k \in 1 .. Len(loose) |->
                  (IF k = 1 THEN End(Last(segments)) ELSE f[k - 1] + Size(loose[k - 1])) + SegmentSpacing]
           G == [k \in 1 .. n |-> e + T[k - 1] + 2 * k]
<1>2. pos' = [t \in Names |-> IF \E k \in DOMAIN loose : loose[k] = t
              THEN F[CHOOSE k \in DOMAIN loose : loose[k] = t]
              ELSE pos[t]]
  BY DEF PlaceRest
<1>3. \A k \in 1 .. n : k - 1 \in 0 .. n /\ T[k - 1] \in Nat /\ G[k] = e + T[k - 1] + 2 * k
  BY <1>0, <1>1, SMTT(30) DEF LooseSums
<1>4. \A k \in 1 .. n : k # 1 => T[k - 1] = T[k - 2] + Size(loose[k - 1]) /\ Size(loose[k - 1]) \in Nat
  <2> SUFFICES ASSUME NEW k \in 1 .. n, k # 1
               PROVE  T[k - 1] = T[k - 2] + Size(loose[k - 1]) /\ Size(loose[k - 1]) \in Nat
    OBVIOUS
  <2>1. PICK j \in 1 .. n : j = k - 1 /\ j - 1 = k - 2 /\ loose[j] \in Names
    BY <1>0, <1>1
  <2>2. T[j] = T[j - 1] + Size(loose[j]) /\ Size(loose[j]) \in Nat
    BY <1>0, <2>1, Sizes DEF LooseSums
  <2> QED
    BY <2>1, <2>2
<1>5. ASSUME NEW k \in 1 .. n
      PROVE  G[k] = (IF k = 1 THEN e ELSE G[k - 1] + Size(loose[k - 1])) + 2 /\ G[k] \in Int
  <2>1. CASE k = 1
    <3>1. T[k - 1] = 0
      BY <2>1 DEF LooseSums
    <3> QED
      BY <1>3, <2>1, <3>1
  <2>2. CASE k # 1
    <3>1. PICK a, b, z : a = T[k - 1] /\ b = T[k - 2] /\ z = Size(loose[k - 1])
      OBVIOUS
    <3>2. k - 1 \in 1 .. n /\ (k - 1) - 1 = k - 2
      BY <1>1, <2>2
    <3>3. G[k] = e + a + 2 * k /\ G[k - 1] = e + b + 2 * (k - 1) /\ a \in Nat /\ b \in Nat
      BY <1>3, <3>1, <3>2
    <3>4. a = b + z /\ z \in Nat
      BY <1>4, <2>2, <3>1
    <3> HIDE DEF G, F
    <3>5. G[k] = G[k - 1] + z + 2 /\ G[k] \in Int
      <4>1. k \in Int
        BY <1>1
      <4> QED
        BY <3>3, <3>4, <4>1, AheadStep, SMTT(30)
    <3> QED
      BY <2>2, <3>1, <3>5
  <2> QED
    BY <2>1, <2>2
<1>6. G = [k \in 1 .. Len(loose) |->
            (IF k = 1 THEN End(Last(segments)) ELSE G[k - 1] + Size(loose[k - 1])) + SegmentSpacing]
  <2>1. G = [k \in 1 .. n |-> G[k]]
    OBVIOUS
  <2> HIDE DEF G
  <2>2. G = [k \in 1 .. n |-> (IF k = 1 THEN e ELSE G[k - 1] + Size(loose[k - 1])) + 2]
    BY <1>5, <2>1
  <2> QED
    BY <1>0, <2>2 DEF SegmentSpacing
<1>7. F = [k \in 1 .. Len(loose) |->
            (IF k = 1 THEN End(Last(segments)) ELSE F[k - 1] + Size(loose[k - 1])) + SegmentSpacing]
  <2> HIDE DEF G
  <2> QED
    BY <1>6
<1> HIDE DEF F
<1>8. \A k \in 1 .. n : F[k] = (IF k = 1 THEN e ELSE F[k - 1] + Size(loose[k - 1])) + 2
  BY <1>0, <1>7 DEF SegmentSpacing
<1>9. \A k \in 1 .. n : F[k] = G[k]
  <2> HIDE DEF G
  <2> DEFINE S == {m \in Nat : m < n => F[m + 1] = G[m + 1]}
  <2>1. 0 \in S
    <3>1. 0 < n => 0 + 1 \in 1 .. n /\ 0 + 1 = 1
      BY <1>1
    <3> QED
      BY <1>5, <1>8, <3>1
  <2>2. ASSUME NEW m \in Nat, m \in S PROVE m + 1 \in S
    <3> SUFFICES ASSUME m + 1 < n PROVE F[(m + 1) + 1] = G[(m + 1) + 1]
      OBVIOUS
    <3>1. PICK k \in 1 .. n : k = (m + 1) + 1 /\ k - 1 = m + 1 /\ k # 1
      BY <1>1
    <3>2. F[k - 1] = G[k - 1]
      BY <1>1, <2>2, <3>1
    <3> QED
      BY <1>5, <1>8, <3>1, <3>2
  <2>3. \A m \in Nat : m \in S
    <3> HIDE DEF S
    <3> QED
      BY <2>1, <2>2, AllNumbers
  <2>4. ASSUME NEW k \in 1 .. n PROVE F[k] = G[k]
    <3>1. PICK m \in Nat : m + 1 = k /\ m < n
      BY <1>1
    <3>2. m \in S
      BY <2>3
    <3> QED
      BY <3>1, <3>2
  <2> QED
    BY <2>4
<1>10. ASSUME NEW k \in 1 .. n PROVE pos'[loose[k]] = G[k]
  <2>1. loose[k] \in Names /\ k \in DOMAIN loose /\ (CHOOSE j \in DOMAIN loose : loose[j] = loose[k]) = k
    BY <1>0, <1>1
  <2> HIDE DEF G
  <2> QED
    BY <1>2, <1>9, <2>1
<1>11. \A t \in Names : (\A k \in 1 .. n : loose[k] # t) => pos'[t] = pos[t]
  BY <1>1, <1>2
<1>12. pos' \in [Names -> Int]
  <2>1. ASSUME NEW t \in Names PROVE pos'[t] \in Int
    <3>1. CASE \E k \in 1 .. n : loose[k] = t
      <4>1. PICK k \in 1 .. n : loose[k] = t
        BY <3>1
      <4> HIDE DEF G
      <4> QED
        BY <1>5, <1>10, <4>1
    <3>2. CASE \A k \in 1 .. n : loose[k] # t
      BY <1>11, <3>2
    <3> QED
      BY <3>1, <3>2
  <2> QED
    BY <1>2, <2>1
<1> HIDE DEF G
<1> QED
  BY <1>0, <1>3, <1>10, <1>11, <1>12

-----------------------------------------------------------------------------
(***************************************************************************)
(* The plans.                                                              *)
(***************************************************************************)
\* The two segments that are given positions.
Fixed == {"src", DstSegment}

\* What the proofs need of the order in which the segments are added.
PlanOK ==
  /\ Plan \in Seq(Names) /\ Len(Plan) >= 8
  /\ \A i, j \in 1 .. Len(Plan) : Plan[i] = Plan[j] => i = j
  /\ \E i \in 1 .. Len(Plan) : Plan[i] = "src"
  /\ \E i \in 1 .. Len(Plan) : Plan[i] = DstSegment
  /\ \E i \in 1 .. Len(Plan) : Plan[i] = "entry"
  /\ \A i \in 1 .. Len(Plan) - 1 : Plan[i] \in Fixed /\ Plan[i + 1] \in Fixed =>
       builder = "jmp_rev" /\ Plan[i] = "src" /\ Plan[i + 1] = "if"
  /\ \A i \in 1 .. Len(Plan) : (\A j \in 1 .. i : Plan[j] \notin Fixed) =>
       i <= 5 /\ Plan[i] \notin {"end_if", "end_else"}
  /\ Plan[Len(Plan)] = "end_else"

LEMMA PlanFacts == ASSUME Inputs PROVE PlanOK
<1> USE DEF Inputs, Builders
<1>0. builder # "jmp_rev" => DstSegment = "else"
  BY DEF DstSegment
<1>1. builder = "jmp_rev" => DstSegment = "if"
  BY DEF DstSegment
<1>2. CASE builder = "jne" /\ Forward
  <2>1. PICK p : p = Plan
    OBVIOUS
  <2>2. /\ p \in Seq(Names) /\ Len(p) = 10
        /\ p[1] = "entry" /\ p[2] = "pretest" /\ p[3] = "goto_src" /\ p[4] = "src" /\ p[5] = "if"
        /\ p[6] = "goto_end_if" /\ p[7] = "else" /\ p[8] = "goto_end_else" /\ p[9] = "end_if" /\ p[10] = "end_else"
    BY <1>2, <2>1 DEF Plan, BranchesPlan, EndPlan, Names
  <2>3. \A i, j \in 1 .. Len(p) : p[i] = p[j] => i = j
    BY <2>2
  <2>4. \A i \in 1 .. Len(p) : p[i] \in Fixed <=> i = 4 \/ i = 7
    BY <1>0, <1>2, <2>2 DEF Fixed
  <2>5. \A i \in 1 .. Len(p) : p[i] \in {"end_if", "end_else"} => i > 4
    BY <2>2
  <2> QED
    BY <1>0, <1>2, <2>1, <2>2, <2>3, <2>4, <2>5 DEF PlanOK
<1>3. CASE builder = "jne" /\ ~Forward
  <2>1. PICK p : p = Plan
    OBVIOUS
  <2>2. /\ p \in Seq(Names) /\ Len(p) = 11
        /\ p[1] = "entry" /\ p[2] = "pretest" /\ p[3] = "goto_src" /\ p[4] = "if" /\ p[5] = "goto_end_if"
        /\ p[6] = "else" /\ p[7] = "goto_end_else" /\ p[8] = "src" /\ p[9] = "goto_if" /\ p[10] = "end_if"
        /\ p[11] = "end_else"
    BY <1>3, <2>1 DEF Plan, BranchesPlan, EndPlan, Names
  <2>3. \A i, j \in 1 .. Len(p) : p[i] = p[j] => i = j
    BY <2>2
  <2>4. \A i \in 1 .. Len(p) : p[i] \in Fixed <=> i = 6 \/ i = 8
    BY <1>0, <1>3, <2>2 DEF Fixed
  <2>5. \A i \in 1 .. Len(p) : p[i] \in {"end_if", "end_else"} => i > 6
    BY <2>2
  <2> QED
    BY <1>0, <1>3, <2>1, <2>2, <2>3, <2>4, <2>5 DEF PlanOK
<1>4. CASE builder # "jne" /\ Forward
  <2>1. PICK p : p = Plan
    OBVIOUS
  <2>2. /\ p \in Seq(Names) /\ Len(p) = 8
        /\ p[1] = "entry" /\ p[2] = "src" /\ p[3] = "if" /\ p[4] = "goto_end_if" /\ p[5] = "else"
        /\ p[6] = "goto_end_else" /\ p[7] = "end_if" /\ p[8] = "end_else"
    BY <1>4, <2>1 DEF Plan, BranchesPlan, EndPlan, Names
  <2>3. \A i, j \in 1 .. Len(p) : p[i] = p[j] => i = j
    BY <2>2
  <2>4. \A i \in 1 .. Len(p) : p[i] \in Fixed <=> i = 2 \/ (i = 3 /\ builder = "jmp_rev") \/ (i = 5 /\ builder = "jmp")
    BY <1>0, <1>1, <1>4, <2>2 DEF Fixed
  <2>5. \A i \in 1 .. Len(p) : p[i] \in {"end_if", "end_else"} => i > 4
    BY <2>2
  <2> QED
    BY <1>0, <1>1, <1>4, <2>1, <2>2, <2>3, <2>4, <2>5 DEF PlanOK
<1>5. CASE builder # "jne" /\ ~Forward
  <2>1. PICK p : p = Plan
    OBVIOUS
  <2>2. /\ p \in Seq(Names) /\ Len(p) = 8
        /\ p[1] = "if" /\ p[2] = "goto_end_if" /\ p[3] = "else" /\ p[4] = "goto_end_else" /\ p[5] = "entry"
        /\ p[6] = "src" /\ p[7] = "end_if" /\ p[8] = "end_else"
    BY <1>5, <2>1 DEF Plan, BranchesPlan, EndPlan, Names
  <2>3. \A i, j \in 1 .. Len(p) : p[i] = p[j] => i = j
    BY <2>2
  <2>4. \A i \in 1 .. Len(p) : p[i] \in Fixed <=> i = 6 \/ (i = 1 /\ builder = "jmp_rev") \/ (i = 3 /\ builder = "jmp")
    BY <1>0, <1>1, <1>5, <2>2 DEF Fixed
  <2>5. \A i \in 1 .. Len(p) : p[i] \in {"end_if", "end_else"} => i > 6
    BY <2>2
  <2> QED
    BY <1>0, <1>1, <1>5, <2>1, <2>2, <2>3, <2>4, <2>5 DEF PlanOK
<1> QED
  BY <1>2, <1>3, <1>4, <1>5

-----------------------------------------------------------------------------
(***************************************************************************)
(* What place_segment does to the positions.                               *)
(***************************************************************************)
LEMMA SumsBound ==
  ASSUME NEW n \in Nat, NEW T \in [0 .. n -> Nat], NEW w, T[0] = 0,
         \A k \in 1 .. n : T[k] = T[k - 1] + w[k] /\ w[k] \in Nat /\ w[k] <= 10
  PROVE  T[n] <= 10 * n
<1> DEFINE S == {m \in Nat : m <= n => T[m] <= 10 * m}
<1>1. 0 \in S
  OBVIOUS
<1>2. ASSUME NEW m \in Nat, m \in S PROVE m + 1 \in S
  <2> SUFFICES ASSUME m + 1 <= n PROVE T[m + 1] <= 10 * (m + 1)
    OBVIOUS
  <2>1. m + 1 \in 1 .. n /\ (m + 1) - 1 = m /\ m \in 0 .. n
    OBVIOUS
  <2>2. PICK k \in 1 .. n : k = m + 1
    BY <2>1
  <2>3. T[k] = T[m] + w[k] /\ w[k] \in Nat /\ w[k] <= 10 /\ T[m] \in Nat
    BY <2>1, <2>2
  <2>4. T[m] <= 10 * m
    BY <1>2
  <2> QED
    BY <2>2, <2>3, <2>4
<1>3. \A m \in Nat : m \in S
  <2> HIDE DEF S
  <2> QED
    BY <1>1, <1>2, AllNumbers
<1> QED
  BY <1>3

LEMMA DivFacts ==
  ASSUME NEW x \in Nat, NEW n \in Nat \ {0}
  PROVE  x \div n \in Nat /\ n * (x \div n) <= x
OBVIOUS

LEMMA TimesGrows ==
  ASSUME NEW d \in Nat, NEW a \in Int, NEW b \in Int, a <= b
  PROVE  a * d <= b * d /\ a * d \in Int /\ b * d \in Int
OBVIOUS

\* The positions P once the loose segments are placed before s.
PlacedBefore(s, P) ==
  /\ P \in [Names -> Int]
  /\ \A t \in Names : (\A k \in 1 .. Len(loose) : loose[k] # t) => P[t] = pos[t]
  /\ \A k, l \in 1 .. Len(loose) : k < l => P[loose[k]] + Size(loose[k]) <= P[loose[l]]
  /\ \A k \in 1 .. Len(loose) : P[loose[k]] + Size(loose[k]) <= pos[s]
  /\ segments # <<>> => \A k \in 1 .. Len(loose) : End(Last(segments)) <= P[loose[k]]
  /\ segments = <<>> /\ Len(loose) <= 5 /\ (\A k \in 1 .. Len(loose) : Size(loose[k]) <= 10) =>
       \A k \in 1 .. Len(loose) : P[loose[k]] >= pos[s] - 60

LEMMA PlaceFacts ==
  ASSUME Inputs, loose \in Seq(Names), segments \in Seq(Names), pos \in [Names -> Int], NEW s \in Names,
         \A i, j \in 1 .. Len(loose) : loose[i] = loose[j] => i = j, Fits(s),
         NEW P, P = PosBefore(s)
  PROVE  PlacedBefore(s, P)
<1>1. CASE Len(loose) = 0
  <2>1. DOMAIN loose = {}
    BY <1>1
  <2>2. P = [t \in Names |-> pos[t]]
    BY <2>1 DEF PosBefore
  <2> QED
    BY <1>1, <2>2 DEF PlacedBefore
<1>2. CASE Len(loose) # 0
  <2>1. PICK n, e, d, f : n = Len(loose) /\ e = pos[s] /\ d = Spacing(s) /\ f = Space(s)
    OBVIOUS
  <2>2. PICK T : LooseSums(T)
    BY LooseSumsExist
  <2>3. n \in Nat \ {0} /\ e \in Int /\ loose # <<>>
    BY <1>2, <2>1
  <2>4. Total = T[n] /\ T[n] \in Nat
    <3>1. Total = T[Len(loose)]
      BY <2>2, TotalIs
    <3>2. T[n] \in Nat
      BY <2>1, <2>2, <2>3 DEF LooseSums
    <3> QED
      BY <2>1, <3>1, <3>2
  <2>5. ASSUME segments # <<>> PROVE f = e - End(Last(segments)) /\ End(Last(segments)) \in Int /\ f \in Int
    <3>1. Last(segments) \in Names
      BY <2>5 DEF Last
    <3>2. Size(Last(segments)) \in Nat
      BY <3>1, Sizes
    <3> QED
      BY <2>1, <2>3, <3>1, <3>2 DEF End, Space
  <2>6. ASSUME segments # <<>> PROVE d \in Nat /\ n * d <= f - T[n]
    <3>1. T[n] <= f
      BY <2>1, <2>3, <2>4, <2>6 DEF Fits
    <3>2. PICK x \in Nat : x = f - T[n]
      BY <2>4, <2>5, <2>6, <3>1
    <3>3. d = x \div n
      BY <2>1, <2>4, <2>6, <3>2 DEF Spacing
    <3> QED
      BY <2>3, <3>2, <3>3, DivFacts
  <2>7. segments = <<>> => d = 2
    BY <2>1 DEF Spacing, SegmentSpacing
  <2>8. d \in Nat
    BY <2>6, <2>7
  <2>9. /\ \A k \in 1 .. n : P[loose[k]] = e - (T[n] - T[k - 1]) - (n - k + 1) * d
        /\ \A t \in Names : (\A k \in 1 .. n : loose[k] # t) => P[t] = pos[t]
        /\ P \in [Names -> Int]
    BY <2>1, <2>2, <2>3, <2>8, BackIs, SMTT(30)
  <2>10. \A k \in 1 .. n : /\ k - 1 \in 0 .. n /\ k \in 0 .. n /\ T[k - 1] \in Nat /\ T[k] \in Nat /\ loose[k] \in Names
                           /\ T[k] = T[k - 1] + Size(loose[k]) /\ Size(loose[k]) \in Nat /\ T[k] <= T[n]
    <3> SUFFICES ASSUME NEW k \in 1 .. n
                 PROVE  /\ k - 1 \in 0 .. n /\ k \in 0 .. n /\ T[k - 1] \in Nat /\ T[k] \in Nat /\ loose[k] \in Names
                        /\ T[k] = T[k - 1] + Size(loose[k]) /\ Size(loose[k]) \in Nat /\ T[k] <= T[n]
      OBVIOUS
    <3>1. k - 1 \in 0 .. n /\ k \in 0 .. n /\ n \in 0 .. n /\ k <= n /\ loose[k] \in Names
      BY <2>1, <2>3
    <3> QED
      BY <2>1, <2>2, <3>1, Sizes DEF LooseSums
  <2>11. ASSUME NEW k \in 1 .. n, NEW l \in 1 .. n, k < l PROVE P[loose[k]] + Size(loose[k]) <= P[loose[l]]
    <3>1. T[k] <= T[l - 1] /\ T[l - 1] \in Nat
      <4>1. k <= l - 1 /\ k \in 0 .. n /\ l - 1 \in 0 .. n
        BY <2>3, <2>11
      <4> QED
        BY <2>1, <2>2, <4>1 DEF LooseSums
    <3>2. PICK x, y : x = (n - k + 1) * d /\ y = (n - l + 1) * d
      OBVIOUS
    <3>3. n - l + 1 <= n - k + 1 /\ n - l + 1 \in Int /\ n - k + 1 \in Int
      BY <2>3, <2>11
    <3>4. y <= x /\ x \in Int /\ y \in Int
      BY <2>8, <3>2, <3>3, TimesGrows
    <3>5. P[loose[k]] = e - (T[n] - T[k - 1]) - x /\ P[loose[l]] = e - (T[n] - T[l - 1]) - y
      BY <2>9, <3>2
    <3>6. PICK a, b, c, z, u : a = T[n] /\ b = T[k - 1] /\ c = T[l - 1] /\ z = Size(loose[k]) /\ u = T[k]
      OBVIOUS
    <3>7. a \in Nat /\ b \in Nat /\ c \in Nat /\ z \in Nat /\ u = b + z /\ u <= c
      BY <2>4, <2>10, <3>1, <3>6
    <3>8. (e - (a - b) - x) + z <= e - (a - c) - y
      BY <2>3, <3>4, <3>7
    <3> QED
      BY <3>5, <3>6, <3>8
  <2>12. ASSUME NEW k \in 1 .. n PROVE P[loose[k]] + Size(loose[k]) <= e /\ e - T[n] - n * d <= P[loose[k]]
    <3>2. PICK x, y : x = (n - k + 1) * d /\ y = n * d
      OBVIOUS
    <3>3. 0 <= n - k + 1 /\ n - k + 1 \in Int /\ 0 * d = 0 /\ n - k + 1 <= n /\ n \in Int
      BY <2>3, <2>8
    <3>4. 0 <= x /\ x \in Int /\ x <= y /\ y \in Int
      BY <2>8, <3>2, <3>3, TimesGrows
    <3>5. P[loose[k]] = e - (T[n] - T[k - 1]) - x
      BY <2>9, <3>2
    <3>6. PICK a, b, z, u : a = T[n] /\ b = T[k - 1] /\ z = Size(loose[k]) /\ u = T[k]
      OBVIOUS
    <3>7. a \in Nat /\ b \in Nat /\ z \in Nat /\ u = b + z /\ u <= a
      BY <2>4, <2>10, <3>6
    <3>8. (e - (a - b) - x) + z <= e /\ e - a - y <= e - (a - b) - x
      BY <2>3, <3>4, <3>7
    <3> QED
      BY <3>2, <3>5, <3>6, <3>8
  <2>13. ASSUME segments # <<>>, NEW k \in 1 .. n PROVE End(Last(segments)) <= P[loose[k]]
    <3>1. PICK x, y, z : x = n * d /\ y = End(Last(segments)) /\ z = P[loose[k]]
      OBVIOUS
    <3>2. x \in Int
      BY <2>3, <2>8, <3>1
    <3>3. z \in Int
      BY <2>9, <2>10, <3>1
    <3>4. x <= f - T[n] /\ f = e - y /\ y \in Int
      BY <2>5, <2>6, <2>13, <3>1
    <3>5. e - T[n] - x <= z
      BY <2>12, <3>1
    <3>6. y <= z
      BY <2>3, <2>4, <3>2, <3>3, <3>4, <3>5
    <3> QED
      BY <3>1, <3>6
  <2>14. ASSUME segments = <<>>, n <= 5, \A k \in 1 .. n : Size(loose[k]) <= 10, NEW k \in 1 .. n
         PROVE  P[loose[k]] >= e - 60
    <3>1. T[n] <= 10 * n
      <4>1. PICK w : w = [i \in 1 .. n |-> Size(loose[i])]
        OBVIOUS
      <4>2. T \in [0 .. n -> Nat] /\ T[0] = 0
        BY <2>1, <2>2 DEF LooseSums
      <4>3. \A i \in 1 .. n : T[i] = T[i - 1] + w[i] /\ w[i] \in Nat /\ w[i] <= 10
        BY <2>10, <2>14, <4>1
      <4> QED
        BY <2>3, <4>2, <4>3, SumsBound
    <3>2. d = 2 /\ e - T[n] - n * d <= P[loose[k]] /\ P[loose[k]] \in Int
      BY <2>7, <2>9, <2>10, <2>12, <2>14
    <3> QED
      BY <2>3, <2>4, <2>14, <3>1, <3>2, SMTT(30)
  <2> QED
    BY <2>1, <2>9, <2>11, <2>12, <2>13, <2>14 DEF PlacedBefore
<1> QED
  BY <1>1, <1>2

-----------------------------------------------------------------------------
(***************************************************************************)
(* The invariant.                                                          *)
(***************************************************************************)
\* src and dst are given so close together that the jump reaches over dst.
Close(s, t) == builder = "jmp_rev" /\ s = "src" /\ t = "if" /\ dst - src < Size("src")

\* The segments of list q are in order and apart, at the positions p.
ApartAt(q, p) ==
  \A i, j \in 1 .. Len(q) : i < j =>
    p[q[i]] < p[q[j]] /\ (p[q[i]] + Size(q[i]) <= p[q[j]] \/ Close(q[i], q[j]))

\* The segments x, at p2, go behind the segments q, which stay where they are.
Behind(q, x, p, p2) ==
  /\ \A i \in 1 .. Len(q) : p2[q[i]] = p[q[i]]
  /\ \A k, l \in 1 .. Len(x) : k < l => p2[x[k]] + Size(x[k]) <= p2[x[l]]
  /\ \A k \in 1 .. Len(x) : q # <<>> =>
       /\ p[q[Len(q)]] < p2[x[k]]
       /\ p[q[Len(q)]] + Size(q[Len(q)]) <= p2[x[k]] \/ Close(q[Len(q)], x[k])

LEMMA ExtendApart ==
  ASSUME Inputs, NEW q \in Seq(Names), NEW x \in Seq(Names), NEW p \in [Names -> Int], NEW p2 \in [Names -> Int],
         NEW r, r = q \o x, ApartAt(q, p), Behind(q, x, p, p2)
  PROVE  ApartAt(r, p2)
<1>1. PICK a, b : a = Len(q) /\ b = Len(x)
  OBVIOUS
<1>2. /\ r \in Seq(Names) /\ Len(r) = a + b
      /\ \A i \in 1 .. a : r[i] = q[i] /\ q[i] \in Names
      /\ \A i \in 1 .. b : r[a + i] = x[i] /\ x[i] \in Names
  BY <1>1
<1>3. a \in Nat /\ b \in Nat
  BY <1>1
<1> SUFFICES ASSUME NEW i \in 1 .. a + b, NEW j \in 1 .. a + b, i < j
             PROVE  p2[r[i]] < p2[r[j]] /\ (p2[r[i]] + Size(r[i]) <= p2[r[j]] \/ Close(r[i], r[j]))
  BY <1>2 DEF ApartAt
<1>4. CASE j <= a
  <2>1. i \in 1 .. a /\ j \in 1 .. a
    BY <1>3, <1>4
  <2>2. r[i] = q[i] /\ r[j] = q[j] /\ p2[q[i]] = p[q[i]] /\ p2[q[j]] = p[q[j]]
    BY <1>1, <1>2, <2>1 DEF Behind
  <2> QED
    BY <1>1, <2>1, <2>2 DEF ApartAt
<1>5. CASE i > a
  <2>1. PICK k, l \in 1 .. b : i = a + k /\ j = a + l /\ k < l
    BY <1>3, <1>5
  <2>2. PICK s, t \in Names : s = r[i] /\ t = r[j] /\ s = x[k] /\ t = x[l]
    BY <1>2, <2>1
  <2>3. p2[s] + Size(s) <= p2[t]
    BY <1>1, <2>1, <2>2 DEF Behind
  <2>4. Size(s) \in Nat /\ Size(s) >= 1 /\ p2[s] \in Int /\ p2[t] \in Int
    BY Sizes
  <2>5. p2[s] < p2[t]
    BY <2>3, <2>4
  <2> QED
    BY <2>2, <2>3, <2>5
<1>6. CASE i <= a /\ j > a
  <2>1. PICK k \in 1 .. b : j = a + k
    BY <1>3, <1>6
  <2>2. i \in 1 .. a /\ a \in 1 .. a /\ (i = a \/ i < a)
    BY <1>3, <1>6
  <2>3. PICK s, l, t \in Names : s = q[i] /\ l = q[a] /\ t = x[k] /\ s = r[i] /\ t = r[j]
    BY <1>2, <2>1, <2>2
  <2>4. p[l] < p2[t] /\ (p[l] + Size(l) <= p2[t] \/ Close(l, t)) /\ p2[s] = p[s]
    <3>1. q # <<>>
      BY <1>1, <2>2
    <3> QED
      BY <1>1, <2>1, <2>2, <2>3, <3>1 DEF Behind
  <2>5. CASE i = a
    BY <2>3, <2>4, <2>5
  <2>6. CASE i < a
    <3>1. p[s] < p[l] /\ (p[s] + Size(s) <= p[l] \/ Close(s, l))
      BY <1>1, <2>2, <2>3, <2>6 DEF ApartAt
    <3>2. PICK u, v, w, m, n : u = p[s] /\ v = p[l] /\ w = p2[t] /\ m = Size(s) /\ n = Size(l)
      OBVIOUS
    <3>3. u \in Int /\ v \in Int /\ w \in Int /\ m \in Nat /\ n \in Nat
      BY <3>2, Sizes
    <3>4. u < w
      BY <2>4, <3>1, <3>2, <3>3
    <3>5. ASSUME u + m <= v PROVE u + m <= w
      BY <2>4, <3>2, <3>3, <3>5
    <3>6. ASSUME Close(s, l) PROVE u + m <= w
      <4>1. ~Close(l, t) /\ s = "src" /\ l = "if"
        BY <3>6 DEF Close
      <4>2. n = 5 /\ m <= 4
        BY <3>2, <4>1, Sizes
      <4>3. v + n <= w /\ u < v
        BY <2>4, <3>1, <3>2, <4>1
      <4> QED
        BY <3>3, <4>2, <4>3
    <3>7. u + m <= w
      BY <3>1, <3>2, <3>5, <3>6
    <3> QED
      BY <2>3, <2>4, <3>2, <3>4, <3>7
  <2> QED
    BY <2>2, <2>5, <2>6
<1>7. j <= a \/ i > a \/ (i <= a /\ j > a)
  BY <1>3
<1> QED
  BY <1>4, <1>5, <1>6, <1>7

\* segments, loose and plan are the plan, in this order.
Order ==
  /\ loose \in Seq(Names) /\ plan \in Seq(Names)
  /\ Len(segments) + Len(loose) + Len(plan) = Len(Plan)
  /\ \A i \in 1 .. Len(segments) : segments[i] = Plan[i]
  /\ \A i \in 1 .. Len(loose) : loose[i] = Plan[Len(segments) + i]
  /\ \A i \in 1 .. Len(plan) : plan[i] = Plan[Len(segments) + Len(loose) + i]

Adding ==
  /\ Order
  /\ \A i \in Len(segments) + 1 .. Len(Plan) : pos[Plan[i]] = GivenPos(Plan[i])
  /\ \A i \in 1 .. Len(loose) : loose[i] \notin Fixed
  /\ segments # <<>> => Last(segments) \in Fixed

\* Before the segments are moved.
Unmoved ==
  /\ \A s \in Fixed : pos[s] = GivenPos(s)
  /\ \A i \in 1 .. Len(segments) : pos[segments[i]] > 0

\* At every step, also after an assertion has failed.
Standing ==
  /\ Inputs /\ pos \in [Names -> Nat] /\ segments \in Seq(Names) /\ ApartAt(segments, pos)
  /\ \A t \in Names : pos[t] = 0 \/ t \in Fixed \/ \E i \in 1 .. Len(segments) : segments[i] = t
  /\ segments # <<>> => \E s \in Fixed : pos[segments[1]] >= pos[s] - 60

PlacementOK ==
  /\ Standing
  /\ step = "add" => Adding
  /\ step \in {"add", "map", "move"} => Unmoved
  /\ step \in {"map", "move", "wild", "fill", "finalize", "write", "done"} => segments = Plan /\ plan = <<>>

LEMMA GivenFacts ==
  ASSUME Inputs
  PROVE  /\ Fixed \subseteq Names
         /\ \A s \in Names : GivenPos(s) \in Nat /\ (s \notin Fixed => GivenPos(s) = 0)
         /\ \A s \in Fixed : GivenPos(s) > 590
         /\ builder = "jmp_rev" => GivenPos("src") = src /\ GivenPos("if") = dst
         /\ src \in Nat /\ dst \in Nat
<1>1. src \in Nat /\ dst \in Nat /\ src > 600 /\ dst > 600
  <2>1. PICK d \in Distances : d = dst - src
    BY DEF Inputs
  <2>2. src \in Nat /\ src > 600 /\ src + d > 600
    BY AddressAssumption DEF Inputs
  <2> QED
    BY <2>1, <2>2 DEF Inputs
<1>2. DstSegment \in {"if", "else"} /\ (builder = "jmp_rev" => DstSegment = "if")
  BY DEF DstSegment
<1> QED
  BY <1>1, <1>2 DEF Fixed, Names, GivenPos, JneOffset, Nullptr

LEMMA InputFrame ==
  ASSUME UNCHANGED input
  PROVE  /\ Plan' = Plan /\ Fixed' = Fixed /\ Inputs' = Inputs
         /\ \A s : Size(s)' = Size(s) /\ GivenPos(s)' = GivenPos(s)
         /\ \A q, p : ApartAt(q, p)' <=> ApartAt(q, p)
<1>1. builder' = builder /\ indirect' = indirect /\ src' = src /\ dst' = dst
  BY DEF input
<1>2. Plan' = Plan /\ Fixed' = Fixed /\ Inputs' = Inputs
  BY <1>1 DEF Plan, Forward, Fixed, DstSegment, Inputs
<1>3. \A s : Kind(s)' = Kind(s)
  BY <1>1 DEF Kind, Forward
<1>4. \A s : Size(s)' = Size(s)
  BY <1>3 DEF Size
<1>5. \A s : GivenPos(s)' = GivenPos(s)
  BY <1>1 DEF GivenPos, DstSegment
<1>6. \A s, t : Close(s, t)' = Close(s, t)
  BY <1>1, <1>4 DEF Close
<1>7. \A q, p : ApartAt(q, p)' <=> ApartAt(q, p)
  BY <1>4, <1>6 DEF ApartAt
<1> QED
  BY <1>2, <1>4, <1>5, <1>7

LEMMA HeadFacts ==
  ASSUME PlacementOK, step = "add", plan # <<>>
  PROVE  LET s == Head(plan)
             m == Len(segments) + Len(loose) + 1
         IN /\ s \in Names /\ s = Plan[m] /\ m \in 1 .. Len(Plan) /\ pos[s] = GivenPos(s)
            /\ \A i \in 1 .. Len(segments) : segments[i] # s
            /\ \A i \in 1 .. Len(loose) : loose[i] # s
            /\ \A i, j \in 1 .. Len(loose) : loose[i] = loose[j] => i = j
            /\ \A i \in 1 .. Len(segments), k \in 1 .. Len(loose) : segments[i] # loose[k]
<1>1. PlanOK /\ Adding /\ Order /\ segments \in Seq(Names)
  BY PlanFacts DEF PlacementOK, Standing, Adding
<1>2. PICK a, n, b : a = Len(segments) /\ n = Len(loose) /\ b = Len(plan)
  OBVIOUS
<1>3. a \in Nat /\ n \in Nat /\ b \in Nat /\ b > 0 /\ a + n + b = Len(Plan)
  BY <1>1, <1>2 DEF Order
<1>4. Head(plan) = plan[1] /\ plan[1] = Plan[a + n + 1] /\ plan[1] \in Names
  BY <1>1, <1>2, <1>3 DEF Order
<1>5. \A i, j \in 1 .. Len(Plan) : Plan[i] = Plan[j] => i = j
  BY <1>1 DEF PlanOK
<1>6. a + n + 1 \in 1 .. Len(Plan) /\ a + n + 1 \in a + 1 .. Len(Plan)
  BY <1>3
<1>7. pos[Plan[a + n + 1]] = GivenPos(Plan[a + n + 1])
  BY <1>1, <1>2, <1>6 DEF Adding
<1>8. ASSUME NEW i \in 1 .. a PROVE segments[i] = Plan[i] /\ i \in 1 .. Len(Plan) /\ i < a + n + 1
  BY <1>1, <1>2, <1>3 DEF Order
<1>9. ASSUME NEW k \in 1 .. n PROVE loose[k] = Plan[a + k] /\ a + k \in 1 .. Len(Plan) /\ a + k < a + n + 1 /\ a + k > a
  BY <1>1, <1>2, <1>3 DEF Order
<1>10. ASSUME NEW i \in 1 .. a PROVE segments[i] # Plan[a + n + 1]
  BY <1>3, <1>5, <1>6, <1>8
<1>11. ASSUME NEW k \in 1 .. n PROVE loose[k] # Plan[a + n + 1]
  BY <1>3, <1>5, <1>6, <1>9
<1>12. ASSUME NEW i \in 1 .. n, NEW j \in 1 .. n, loose[i] = loose[j] PROVE i = j
  BY <1>3, <1>5, <1>9, <1>12
<1>13. ASSUME NEW i \in 1 .. a, NEW k \in 1 .. n PROVE segments[i] # loose[k]
  <2>1. i # a + k
    BY <1>3
  <2> QED
    BY <1>5, <1>8, <1>9, <2>1
<1> QED
  BY <1>2, <1>4, <1>6, <1>7, <1>10, <1>11, <1>12, <1>13

\* Add keeps the positions and the segments placed.
LEMMA AddLooseStep == ASSUME PlacementOK, AddLoose PROVE PlacementOK'
<1>1. /\ UNCHANGED input /\ pos' = pos /\ segments' = segments /\ step' = step /\ step = "add" /\ plan # <<>>
      /\ pos[Head(plan)] = 0 /\ loose' = Append(loose, Head(plan)) /\ plan' = Tail(plan)
  BY DEF AddLoose, Nullptr
<1>2. PICK s, a, n, b : s = Head(plan) /\ a = Len(segments) /\ n = Len(loose) /\ b = Len(plan)
  OBVIOUS
<1>3. s \in Names /\ s = Plan[a + n + 1] /\ pos[s] = GivenPos(s)
  BY <1>1, <1>2, HeadFacts
<1>4. Inputs /\ Adding /\ Order /\ segments \in Seq(Names)
  BY <1>1 DEF PlacementOK, Standing, Adding
<1>5. s \notin Fixed
  BY <1>1, <1>2, <1>3, <1>4, GivenFacts
<1>6. a \in Nat /\ n \in Nat /\ b \in Nat /\ b > 0 /\ a + n + b = Len(Plan)
  BY <1>1, <1>2, <1>4 DEF Order
<1>7. Plan' = Plan /\ Fixed' = Fixed /\ Inputs' = Inputs /\ \A t : GivenPos(t)' = GivenPos(t)
  BY <1>1, InputFrame
<1>8. /\ loose' \in Seq(Names) /\ Len(loose') = n + 1 /\ plan' \in Seq(Names) /\ Len(plan') = b - 1
      /\ \A i \in 1 .. n : loose'[i] = loose[i]
      /\ loose'[n + 1] = s
      /\ \A i \in 1 .. b - 1 : plan'[i] = plan[i + 1]
  BY <1>1, <1>2, <1>3, <1>4, <1>6 DEF Order
<1>9. ASSUME NEW i \in 1 .. n + 1 PROVE loose'[i] = Plan[a + i] /\ loose'[i] \notin Fixed
  <2>1. i = n + 1 \/ i \in 1 .. n
    BY <1>6
  <2>2. CASE i = n + 1
    <3>1. a + i = a + n + 1
      BY <1>6, <2>2
    <3> QED
      BY <1>3, <1>5, <1>8, <2>2, <3>1
  <2>3. CASE i \in 1 .. n
    BY <1>2, <1>4, <1>8, <2>3 DEF Order, Adding
  <2> QED
    BY <2>1, <2>2, <2>3
<1>10. ASSUME NEW i \in 1 .. b - 1 PROVE plan'[i] = Plan[a + (n + 1) + i]
  <2>1. i + 1 \in 1 .. b /\ a + n + (i + 1) = a + (n + 1) + i
    BY <1>6
  <2>2. plan[i + 1] = Plan[a + n + (i + 1)]
    BY <1>2, <1>4, <2>1 DEF Order
  <2> QED
    BY <1>8, <2>1, <2>2
<1>11. Order'
  <2>1. a + (n + 1) + (b - 1) = Len(Plan)
    BY <1>6
  <2> QED
    BY <1>1, <1>2, <1>4, <1>7, <1>8, <1>9, <1>10, <2>1 DEF Order
<1>12. Adding'
  BY <1>1, <1>4, <1>7, <1>8, <1>9, <1>11 DEF Adding, Last
<1>13. ApartAt(segments, pos)' /\ ApartAt(segments, pos)
  <2>1. PICK q, p : q = segments /\ p = pos
    OBVIOUS
  <2>2. ApartAt(q, p) /\ ApartAt(q, p)'
    BY <1>1, <2>1, InputFrame DEF PlacementOK, Standing
  <2> QED
    BY <1>1, <2>1, <2>2 DEF ApartAt
<1>14. Unmoved'
  BY <1>1, <1>7 DEF PlacementOK, Standing, Unmoved
<1> QED
  BY <1>1, <1>7, <1>12, <1>13, <1>14 DEF PlacementOK, Standing

\* P differs from pos in the segments x, which are put behind the others.
Adds(x, P) ==
  /\ P \in [Names -> Int] /\ Behind(segments, x, pos, P)
  /\ \A k \in 1 .. Len(x) : P[x[k]] > 0
  /\ \A t \in Names : (\A k \in 1 .. Len(x) : x[k] # t) => P[t] = pos[t]

LEMMA PlaceSegmentBehind ==
  ASSUME PlacementOK, PlaceSegment, NEW s, s = Head(plan), NEW x, x = Append(loose, s), NEW P, P = pos'
  PROVE  Adds(x, P) /\ s \in Fixed /\ P[s] = pos[s] /\ (segments = <<>> => P[x[1]] >= P[s] - 60)
<1>1. /\ step = "add" /\ plan # <<>> /\ pos[s] # 0 /\ InOrder(s) /\ Fits(s) /\ P = PosBefore(s)
  BY DEF PlaceSegment, Nullptr
<1>2. Inputs /\ Adding /\ Order /\ segments \in Seq(Names) /\ loose \in Seq(Names) /\ pos \in [Names -> Nat] /\ Unmoved
  BY <1>1 DEF PlacementOK, Standing, Adding, Order
<1>3. PICK a, n : a = Len(segments) /\ n = Len(loose) /\ a \in Nat /\ n \in Nat
  <2>1. Len(segments) \in Nat /\ Len(loose) \in Nat
    BY <1>2
  <2> QED
    BY <2>1
<1>4. /\ s \in Names /\ s = Plan[a + n + 1] /\ a + n + 1 \in 1 .. Len(Plan) /\ pos[s] = GivenPos(s)
      /\ \A i \in 1 .. a : segments[i] # s
      /\ \A i \in 1 .. n : loose[i] # s
      /\ \A i, j \in 1 .. n : loose[i] = loose[j] => i = j
      /\ \A i \in 1 .. a, k \in 1 .. n : segments[i] # loose[k]
  BY <1>1, <1>3, HeadFacts
<1>5. s \in Fixed /\ pos[s] > 590
  BY <1>1, <1>2, <1>4, GivenFacts
<1>6. PlacedBefore(s, P)
  <2>1. pos \in [Names -> Int]
    BY <1>2
  <2> QED
    BY <1>1, <1>2, <1>3, <1>4, <2>1, PlaceFacts
<1>7. P \in [Names -> Int] /\ P[s] = pos[s] /\ \A i \in 1 .. a : P[segments[i]] = pos[segments[i]]
  <2>1. P \in [Names -> Int] /\ \A t \in Names : (\A k \in 1 .. n : loose[k] # t) => P[t] = pos[t]
    BY <1>3, <1>6 DEF PlacedBefore
  <2>2. \A i \in 1 .. a : segments[i] \in Names
    BY <1>2, <1>3
  <2> QED
    BY <1>4, <2>1, <2>2
<1>8. x \in Seq(Names) /\ Len(x) = n + 1 /\ x[n + 1] = s /\ \A k \in 1 .. n : x[k] = loose[k]
  BY <1>2, <1>3, <1>4
<1>9. \A k \in 1 .. n + 1 : k = n + 1 \/ k \in 1 .. n
  BY <1>3
<1>10. ASSUME NEW k \in 1 .. n + 1, NEW l \in 1 .. n + 1, k < l PROVE P[x[k]] + Size(x[k]) <= P[x[l]]
  <2>1. k \in 1 .. n
    BY <1>3, <1>10
  <2>2. CASE l = n + 1
    BY <1>3, <1>6, <1>7, <1>8, <2>1, <2>2 DEF PlacedBefore
  <2>3. CASE l \in 1 .. n
    BY <1>3, <1>6, <1>8, <1>10, <2>1, <2>3 DEF PlacedBefore
  <2> QED
    BY <1>9, <2>2, <2>3
<1>11. ASSUME NEW k \in 1 .. n + 1, segments # <<>>
       PROVE  /\ pos[segments[a]] < P[x[k]]
              /\ pos[segments[a]] + Size(segments[a]) <= P[x[k]] \/ Close(segments[a], x[k])
  <2>1. a \in 1 .. a /\ segments[a] \in Names /\ Last(segments) = segments[a]
    BY <1>2, <1>3, <1>11 DEF Last
  <2>2. PICK u, v, m : u = pos[segments[a]] /\ v = P[x[k]] /\ m = Size(segments[a])
    OBVIOUS
  <2>3. x[k] \in Names
    BY <1>8
  <2>4. u \in Int /\ v \in Int /\ m \in Nat /\ m >= 1
    BY <1>2, <1>7, <2>1, <2>2, <2>3, Sizes
  <2>5. CASE n > 0
    <3>1. 1 \in 1 .. n /\ loose[1] \in Names
      BY <1>2, <1>3, <2>5
    <3>2. End(Last(segments)) = u + m
      BY <2>1, <2>2 DEF End
    <3>3. k \in 1 .. n => u + m <= v
      BY <1>3, <1>6, <1>8, <1>11, <2>2, <3>2 DEF PlacedBefore
    <3>4. ASSUME k = n + 1 PROVE u + m <= v
      <4>1. PICK w, z : w = P[loose[1]] /\ z = Size(loose[1])
        OBVIOUS
      <4>2. u + m <= w /\ w + z <= v
        BY <1>3, <1>6, <1>7, <1>8, <1>11, <2>2, <3>1, <3>2, <3>4, <4>1 DEF PlacedBefore
      <4>3. w \in Int /\ z \in Nat
        BY <1>2, <1>7, <3>1, <4>1, Sizes
      <4> QED
        BY <2>4, <4>2, <4>3
    <3>5. u + m <= v
      BY <1>9, <3>3, <3>4
    <3>6. u < v
      BY <2>4, <3>5
    <3> QED
      BY <2>2, <3>5, <3>6
  <2>6. CASE n = 0
    <3>1. k = n + 1 /\ x[k] = s /\ v = pos[s]
      BY <1>7, <1>8, <2>2, <2>6
    <3>2. u < v
      BY <1>1, <1>11, <2>1, <2>2, <3>1 DEF InOrder, Nullptr
    <3>3. builder = "jmp_rev" /\ segments[a] = "src" /\ s = "if"
      <4>1. a + n + 1 = a + 1 /\ a \in 1 .. Len(Plan) - 1
        BY <1>3, <1>4, <2>1, <2>6 DEF PlanOK
      <4>2. segments[a] = Plan[a] /\ segments[a] \in Fixed
        BY <1>2, <1>3, <1>11, <2>1 DEF Order, Adding
      <4>3. PlanOK
        BY <1>2, PlanFacts
      <4> QED
        BY <1>4, <1>5, <4>1, <4>2, <4>3 DEF PlanOK
    <3>4. u = src /\ v = dst
      BY <1>2, <1>5, <2>2, <3>1, <3>3, GivenFacts DEF Unmoved, Fixed
    <3>5. u + m <= v \/ Close(segments[a], x[k])
      <4>1. m = Size("src") /\ (u + m <= v \/ dst - src < m)
        BY <2>2, <2>4, <3>3, <3>4
      <4> QED
        BY <3>1, <3>3, <4>1 DEF Close
    <3> QED
      BY <2>2, <3>2, <3>5
  <2> QED
    BY <1>3, <2>5, <2>6
<1>12. Behind(segments, x, pos, P)
  BY <1>3, <1>7, <1>8, <1>10, <1>11 DEF Behind
<1>13. ASSUME NEW k \in 1 .. n + 1 PROVE P[x[k]] > 0 /\ (segments = <<>> => P[x[k]] >= P[s] - 60)
  <2>1. PICK v, u : v = P[x[k]] /\ u = pos[s] /\ v \in Int /\ u \in Int /\ u > 590
    <3>1. x[k] \in Names
      BY <1>8
    <3>2. P[x[k]] \in Int /\ pos[s] \in Int
      BY <1>2, <1>4, <1>7, <3>1
    <3> QED
      BY <1>5, <3>2
  <2>2. v \in Int /\ u \in Int /\ u > 590
    BY <2>1
  <2>3. CASE segments # <<>>
    <3>1. a \in 1 .. a /\ segments[a] \in Names
      BY <1>2, <1>3, <2>3
    <3>2. pos[segments[a]] > 0 /\ pos[segments[a]] \in Int
      BY <1>2, <1>3, <3>1 DEF Unmoved
    <3>3. PICK w : w = pos[segments[a]]
      OBVIOUS
    <3>4. w < v /\ w > 0 /\ w \in Int
      BY <1>11, <2>1, <2>3, <3>2, <3>3
    <3>5. v > 0
      BY <2>2, <3>4
    <3> QED
      BY <2>1, <2>3, <3>5
  <2>4. CASE segments = <<>>
    <3>0. a = 0
      BY <1>3, <2>4
    <3>1. ASSUME NEW i \in 1 .. n PROVE n <= 5 /\ Size(loose[i]) <= 10
      <4>1. PlanOK
        BY <1>2, PlanFacts
      <4>2. \A j \in 1 .. n : loose[j] = Plan[j] /\ Plan[j] \notin Fixed /\ Plan[j] \in Names /\ j \in 1 .. Len(Plan)
        <5> SUFFICES ASSUME NEW j \in 1 .. n
                     PROVE  loose[j] = Plan[j] /\ Plan[j] \notin Fixed /\ Plan[j] \in Names /\ j \in 1 .. Len(Plan)
          OBVIOUS
        <5>1. 0 + j = j /\ j \in 1 .. Len(Plan)
          BY <1>3, <1>4, <3>0
        <5> QED
          BY <1>2, <1>3, <3>0, <5>1 DEF Order, Adding
      <4>3. \A j \in 1 .. i : Plan[j] \notin Fixed
        BY <1>3, <4>2
      <4>4. \A j \in 1 .. n : Plan[j] \notin Fixed
        BY <4>2
      <4>5. n \in 1 .. n
        BY <1>3
      <4>6. Plan[i] \notin {"end_if", "end_else"} /\ n <= 5
        BY <4>1, <4>2, <4>3, <4>4, <4>5 DEF PlanOK
      <4> QED
        BY <1>2, <4>2, <4>6, Sizes
    <3>2. CASE k \in 1 .. n
      <4>1. P[loose[k]] >= pos[s] - 60
        BY <1>3, <1>6, <2>4, <3>1, <3>2 DEF PlacedBefore
      <4>2. x[k] = loose[k] /\ pos[s] \in Int
        BY <1>2, <1>4, <1>8, <3>2
      <4>3. v >= u - 60
        BY <2>1, <4>1, <4>2
      <4>4. v > 0
        BY <2>2, <4>3
      <4> QED
        BY <1>7, <2>1, <4>3, <4>4
    <3>3. CASE k = n + 1
      <4>1. v = u
        BY <1>7, <1>8, <2>1, <3>3
      <4>2. v > 0 /\ v >= u - 60
        BY <2>2, <4>1
      <4> QED
        BY <1>7, <2>1, <4>2
    <3> QED
      BY <1>9, <3>2, <3>3
  <2> QED
    BY <2>3, <2>4
<1>14. ASSUME NEW t \in Names, \A k \in 1 .. Len(x) : x[k] # t PROVE P[t] = pos[t]
  <2>1. \A k \in 1 .. n : loose[k] # t
    BY <1>3, <1>8, <1>14
  <2> QED
    BY <1>3, <1>6, <2>1 DEF PlacedBefore
<1>15. 1 \in 1 .. n + 1
  BY <1>3
<1> QED
  BY <1>5, <1>7, <1>8, <1>12, <1>13, <1>14, <1>15 DEF Adds

\* More segments, x, are added to the list, at the positions P.
LEMMA GrowStep ==
  ASSUME PlacementOK, UNCHANGED input, step = "add", NEW x \in Seq(Names), NEW P, P = pos',
         segments' = segments \o x, Adds(x, P), \A s \in Fixed : P[s] = pos[s],
         segments = <<>> => x # <<>> /\ \E s \in Fixed : P[x[1]] >= P[s] - 60
  PROVE  Standing' /\ Unmoved'
<1>0. /\ P \in [Names -> Int] /\ Behind(segments, x, pos, P)
      /\ \A k \in 1 .. Len(x) : P[x[k]] > 0
      /\ \A t \in Names : (\A k \in 1 .. Len(x) : x[k] # t) => P[t] = pos[t]
  BY DEF Adds
<1>1. /\ Inputs /\ segments \in Seq(Names) /\ pos \in [Names -> Nat] /\ ApartAt(segments, pos) /\ Unmoved
      /\ \A t \in Names : pos[t] = 0 \/ t \in Fixed \/ \E i \in 1 .. Len(segments) : segments[i] = t
  BY DEF PlacementOK, Standing
<1>2. PICK q, p, r : q = segments /\ p = pos /\ r = segments'
  OBVIOUS
<1>3. PICK a, b : a = Len(q) /\ b = Len(x)
  OBVIOUS
<1>4. /\ a \in Nat /\ b \in Nat /\ q \in Seq(Names) /\ r \in Seq(Names) /\ Len(r) = a + b /\ r = q \o x
      /\ \A i \in 1 .. a : r[i] = q[i] /\ q[i] \in Names
      /\ \A i \in 1 .. b : r[a + i] = x[i] /\ x[i] \in Names
  BY <1>1, <1>2, <1>3
<1>5. ApartAt(segments, pos)'
  <2>1. p \in [Names -> Int] /\ ApartAt(q, p) /\ Behind(q, x, p, P) /\ P \in [Names -> Int]
    BY <1>0, <1>1, <1>2
  <2>2. ApartAt(r, P)
    BY <1>1, <1>4, <2>1, ExtendApart
  <2>3. ApartAt(r, P)'
    BY <2>2, InputFrame
  <2>4. r = segments' /\ P = pos'
    BY <1>2
  <2> QED
    BY <2>3, <2>4 DEF ApartAt
<1>6. ASSUME NEW t \in Names
      PROVE  P[t] \in Nat /\ (P[t] = 0 \/ t \in Fixed \/ \E i \in 1 .. a + b : r[i] = t)
  <2>1. CASE \E k \in 1 .. b : x[k] = t
    <3>1. PICK k \in 1 .. b : x[k] = t
      BY <2>1
    <3>2. P[t] > 0 /\ P[t] \in Int
      BY <1>0, <1>3, <3>1
    <3>3. a + k \in 1 .. a + b /\ r[a + k] = t
      <4>1. a \in Nat /\ b \in Nat /\ r[a + k] = t
        BY <1>4, <3>1
      <4>2. a + k \in 1 .. a + b
        BY <4>1
      <4> QED
        BY <4>1, <4>2
    <3> QED
      BY <3>2, <3>3
  <2>2. CASE \A k \in 1 .. b : x[k] # t
    <3>1. P[t] = pos[t] /\ pos[t] \in Nat
      BY <1>0, <1>1, <1>3, <2>2
    <3>2. CASE \E i \in 1 .. a : q[i] = t
      <4>1. PICK i \in 1 .. a : q[i] = t
        BY <3>2
      <4>2. r[i] = t /\ a \in Nat /\ b \in Nat
        BY <1>4, <4>1
      <4>3. i \in 1 .. a + b
        BY <4>2
      <4> QED
        BY <3>1, <4>2, <4>3
    <3> QED
      BY <1>1, <1>2, <1>3, <3>1, <3>2
  <2> QED
    BY <2>1, <2>2
<1>7. pos' \in [Names -> Nat]
  BY <1>0, <1>6
<1>8. Fixed' = Fixed /\ Inputs' /\ \A t : GivenPos(t)' = GivenPos(t)
  BY <1>1, InputFrame
<1>9. ASSUME NEW i \in 1 .. a + b PROVE P[r[i]] > 0
  <2>1. CASE i \in 1 .. a
    BY <1>0, <1>1, <1>2, <1>3, <1>4, <2>1 DEF Unmoved, Behind
  <2>2. CASE i \notin 1 .. a
    <3>1. i - a \in 1 .. b /\ i = a + (i - a)
      <4>1. a \in Nat /\ b \in Nat
        BY <1>4
      <4> QED
        BY <2>2, <4>1
    <3>2. PICK k \in 1 .. b : i = a + k
      BY <3>1
    <3> QED
      BY <1>0, <1>3, <1>4, <3>2
  <2> QED
    BY <2>1, <2>2
<1>10. Unmoved'
  BY <1>1, <1>2, <1>4, <1>8, <1>9 DEF Unmoved
<1>11. \E s \in Fixed : P[r[1]] >= P[s] - 60
  <2>1. CASE segments = <<>>
    <3>1. a = 0 /\ b > 0
      BY <1>2, <1>3, <2>1
    <3>2. a + 1 = 1 /\ 1 \in 1 .. b
      BY <1>4, <3>1
    <3>3. r[1] = x[1]
      BY <1>4, <3>2
    <3> QED
      BY <2>1, <3>3
  <2>2. CASE segments # <<>>
    <3>1. 1 \in 1 .. a
      <4>1. a # 0 /\ a \in Nat
        BY <1>1, <1>2, <1>3, <1>4, <2>2
      <4> QED
        BY <4>1
    <3>2. P[r[1]] = pos[segments[1]]
      BY <1>0, <1>2, <1>3, <1>4, <3>1 DEF Behind
    <3>3. PICK s \in Fixed : pos[segments[1]] >= pos[s] - 60
      BY <2>2 DEF PlacementOK, Standing
    <3> QED
      BY <3>2, <3>3
  <2> QED
    BY <2>1, <2>2
<1> QED
  BY <1>2, <1>4, <1>5, <1>6, <1>7, <1>8, <1>10, <1>11 DEF Standing

LEMMA PlaceSegmentStep == ASSUME PlacementOK, PlaceSegment PROVE PlacementOK'
<1>1. /\ UNCHANGED input /\ step' = step /\ step = "add" /\ plan # <<>>
      /\ segments' = segments \o Append(loose, Head(plan)) /\ loose' = <<>> /\ plan' = Tail(plan)
  BY DEF PlaceSegment
<1>2. PICK s, x, P : s = Head(plan) /\ x = Append(loose, s) /\ P = pos'
  OBVIOUS
<1>3. Adds(x, P) /\ s \in Fixed /\ P[s] = pos[s] /\ (segments = <<>> => P[x[1]] >= P[s] - 60)
  BY <1>2, PlaceSegmentBehind
<1>4. Inputs /\ Adding /\ Order /\ segments \in Seq(Names) /\ loose \in Seq(Names) /\ plan \in Seq(Names) /\ PlanOK
  BY <1>1, PlanFacts DEF PlacementOK, Standing, Adding, Order
<1>5. PICK a, n, b : a = Len(segments) /\ n = Len(loose) /\ b = Len(plan)
  OBVIOUS
<1>6. a \in Nat /\ n \in Nat /\ b \in Nat /\ b > 0 /\ a + n + b = Len(Plan)
  BY <1>1, <1>4, <1>5 DEF Order
<1>7. s \in Names /\ s = Plan[a + n + 1] /\ \A i \in 1 .. n : loose[i] # s
  BY <1>1, <1>2, <1>5, HeadFacts
<1>8. x \in Seq(Names) /\ Len(x) = n + 1 /\ x[n + 1] = s /\ \A k \in 1 .. n : x[k] = loose[k]
  BY <1>2, <1>4, <1>5, <1>7
<1>9. ASSUME NEW t \in Fixed PROVE P[t] = pos[t]
  <2>1. CASE t = s
    BY <1>3, <2>1
  <2>2. CASE t # s
    <3>1. t \in Names
      BY <1>4, GivenFacts
    <3>2. \A k \in 1 .. n : loose[k] # t
      BY <1>4, <1>5 DEF Adding
    <3>3. \A k \in 1 .. n + 1 : k = n + 1 \/ k \in 1 .. n
      BY <1>6
    <3>4. \A k \in 1 .. Len(x) : x[k] # t
      BY <1>8, <2>2, <3>2, <3>3
    <3> QED
      BY <1>3, <3>1, <3>4 DEF Adds
  <2> QED
    BY <2>1, <2>2
<1>10. Standing' /\ Unmoved'
  <2>1. segments' = segments \o x /\ x # <<>>
    BY <1>1, <1>2, <1>4
  <2> QED
    BY <1>1, <1>2, <1>3, <1>8, <1>9, <2>1, GrowStep
<1>11. Plan' = Plan /\ Fixed' = Fixed /\ \A t : GivenPos(t)' = GivenPos(t)
  BY <1>1, InputFrame
<1>12. PICK r : r = segments'
  OBVIOUS
<1>13. /\ r \in Seq(Names) /\ Len(r) = a + n + 1
       /\ \A i \in 1 .. a : r[i] = segments[i]
       /\ \A i \in 1 .. n + 1 : r[a + i] = x[i]
  BY <1>1, <1>2, <1>4, <1>5, <1>6, <1>8, <1>12
<1>14. ASSUME NEW i \in 1 .. a + n + 1 PROVE r[i] = Plan[i]
  <2>1. CASE i \in 1 .. a
    BY <1>4, <1>5, <1>13, <2>1 DEF Order
  <2>2. CASE i = a + n + 1
    <3>1. n + 1 \in 1 .. n + 1 /\ i = a + (n + 1)
      BY <1>6, <2>2
    <3> QED
      BY <1>7, <1>8, <1>13, <2>2, <3>1
  <2>3. CASE i \notin 1 .. a /\ i # a + n + 1
    <3>1. PICK k \in 1 .. n : i = a + k /\ k \in 1 .. n + 1
      BY <1>6, <2>3
    <3>2. loose[k] = Plan[a + k]
      BY <1>4, <1>5, <3>1 DEF Order
    <3> QED
      BY <1>8, <1>13, <3>1, <3>2
  <2> QED
    BY <2>1, <2>2, <2>3
<1>15. Order'
  <2>1. plan' \in Seq(Names) /\ Len(plan') = b - 1 /\ \A i \in 1 .. b - 1 : plan'[i] = plan[i + 1]
    BY <1>1, <1>4, <1>5, <1>6
  <2>2. ASSUME NEW i \in 1 .. b - 1 PROVE plan'[i] = Plan[(a + n + 1) + 0 + i]
    <3>1. i + 1 \in 1 .. b /\ a + n + (i + 1) = (a + n + 1) + 0 + i
      BY <1>6
    <3>2. plan[i + 1] = Plan[a + n + (i + 1)]
      BY <1>4, <1>5, <3>1 DEF Order
    <3> QED
      BY <2>1, <3>1, <3>2
  <2>3. loose' \in Seq(Names) /\ Len(loose') = 0 /\ (a + n + 1) + 0 + (b - 1) = Len(Plan)
    BY <1>1, <1>6
  <2> QED
    BY <1>11, <1>12, <1>13, <1>14, <2>1, <2>2, <2>3 DEF Order
<1>16. Adding'
  <2>1. Last(r) = s
    <3>1. a + n + 1 = a + (n + 1) /\ n + 1 \in 1 .. n + 1
      BY <1>6
    <3> QED
      BY <1>8, <1>13, <3>1 DEF Last
  <2>2. ASSUME NEW i \in (a + n + 1) + 1 .. Len(Plan) PROVE P[Plan[i]] = GivenPos(Plan[i])
    <3>1. i \in a + 1 .. Len(Plan) /\ i \in 1 .. Len(Plan) /\ i > a + n + 1 /\ Len(Plan) \in Nat
      BY <1>6
    <3>2. pos[Plan[i]] = GivenPos(Plan[i]) /\ Plan[i] \in Names
      BY <1>4, <1>5, <3>1 DEF Adding, PlanOK
    <3>3. ASSUME NEW k \in 1 .. n + 1 PROVE x[k] # Plan[i]
      <4>1. a + k \in 1 .. a + n + 1 /\ a + k \in 1 .. Len(Plan) /\ a + k # i
        BY <1>6, <3>1
      <4>2. x[k] = Plan[a + k]
        BY <1>13, <1>14, <4>1
      <4>3. \A j, l \in 1 .. Len(Plan) : Plan[j] = Plan[l] => j = l
        BY <1>4 DEF PlanOK
      <4> QED
        BY <3>1, <4>1, <4>2, <4>3
    <3> QED
      BY <1>3, <1>8, <3>2, <3>3 DEF Adds
  <2>3. Last(segments)' = s
    BY <1>12, <2>1 DEF Last
  <2>4. \A i \in 1 .. Len(loose') : loose'[i] \notin Fixed
    BY <1>1
  <2> QED
    BY <1>2, <1>3, <1>11, <1>12, <1>13, <1>15, <2>2, <2>3, <2>4 DEF Adding
<1> QED
  BY <1>1, <1>10, <1>16 DEF PlacementOK, Standing

LEMMA PlaceRestBehind ==
  ASSUME PlacementOK, PlaceRest, NEW P, P = pos'
  PROVE  Adds(loose, P) /\ segments # <<>>
<1>1. step = "add" /\ plan = <<>>
  BY DEF PlaceRest
<1>2. /\ Inputs /\ Adding /\ Order /\ segments \in Seq(Names) /\ loose \in Seq(Names) /\ pos \in [Names -> Nat]
      /\ Unmoved /\ PlanOK
  BY <1>1, PlanFacts DEF PlacementOK, Standing, Adding, Order
<1>3. PICK a, n : a = Len(segments) /\ n = Len(loose)
  OBVIOUS
<1>4. a \in Nat /\ n \in Nat /\ a + n = Len(Plan)
  BY <1>1, <1>2, <1>3 DEF Order
<1>5. ASSUME NEW k \in 1 .. n PROVE loose[k] = Plan[a + k] /\ a + k \in 1 .. Len(Plan) /\ loose[k] \notin Fixed
  <2>1. a + k \in 1 .. Len(Plan)
    BY <1>4
  <2> QED
    BY <1>2, <1>3, <2>1 DEF Order, Adding
<1>6. a > 0
  <2>1. PICK i \in 1 .. Len(Plan) : Plan[i] = "src"
    BY <1>2 DEF PlanOK
  <2>2. ASSUME a = 0 PROVE FALSE
    <3>1. i \in 1 .. n /\ a + i = i
      BY <1>4, <2>2
    <3>2. loose[i] = "src" /\ loose[i] \notin Fixed
      BY <1>5, <2>1, <3>1
    <3> QED
      BY <3>2 DEF Fixed
  <2> QED
    BY <1>4, <2>2
<1>7. PICK l : l = segments[a]
  OBVIOUS
<1>8. l \in Names /\ Last(segments) = l /\ pos[l] \in Nat /\ pos[l] > 0 /\ Size(l) \in Nat /\ Size(l) >= 1 /\ segments # <<>>
  <2>1. a \in 1 .. a
    BY <1>4, <1>6
  <2>2. l \in Names /\ Last(segments) = l /\ pos[l] > 0 /\ segments # <<>>
    BY <1>2, <1>3, <1>7, <2>1 DEF Last, Unmoved
  <2> QED
    BY <1>2, <2>2, Sizes
<1>9. PICK e : e = pos[l] + Size(l)
  OBVIOUS
<1>10. e \in Nat /\ e > pos[l] /\ e = End(Last(segments))
  BY <1>8, <1>9 DEF End
<1>11. PICK T : LooseSums(T)
  BY <1>2, LooseSumsExist
<1>12. \A i, j \in 1 .. n : loose[i] = loose[j] => i = j
  <2> SUFFICES ASSUME NEW i \in 1 .. n, NEW j \in 1 .. n, loose[i] = loose[j] PROVE i = j
    OBVIOUS
  <2>1. \A u, v \in 1 .. Len(Plan) : Plan[u] = Plan[v] => u = v
    BY <1>2 DEF PlanOK
  <2>2. a + i = a + j
    BY <1>5, <2>1
  <2> QED
    BY <1>4, <2>2
<1>13. /\ \A k \in 1 .. n : P[loose[k]] = e + T[k - 1] + 2 * k
       /\ \A t \in Names : (\A k \in 1 .. n : loose[k] # t) => P[t] = pos[t]
       /\ P \in [Names -> Int]
  <2>1. pos \in [Names -> Int] /\ e \in Int
    BY <1>2, <1>10
  <2> QED
    BY <1>2, <1>3, <1>10, <1>11, <1>12, <2>1, AheadIs, SMTT(30)
<1>14. ASSUME NEW k \in 1 .. n
       PROVE  /\ k - 1 \in 0 .. n /\ k \in 0 .. n /\ T[k - 1] \in Nat /\ T[k] \in Nat /\ loose[k] \in Names
              /\ T[k] = T[k - 1] + Size(loose[k]) /\ Size(loose[k]) \in Nat
  <2>1. k - 1 \in 0 .. n /\ k \in 0 .. n /\ loose[k] \in Names
    BY <1>2, <1>3, <1>4
  <2> QED
    BY <1>2, <1>3, <1>11, <2>1, Sizes DEF LooseSums
<1>15. ASSUME NEW k \in 1 .. n PROVE P[loose[k]] >= e /\ P[loose[k]] \in Int
  <2>1. PICK u, v : u = P[loose[k]] /\ v = T[k - 1]
    OBVIOUS
  <2>2. u = e + v + 2 * k /\ v \in Nat
    BY <1>13, <1>14, <2>1
  <2>3. u >= e /\ u \in Int
    BY <1>4, <1>10, <2>2
  <2> QED
    BY <2>1, <2>3
<1>16. ASSUME NEW k \in 1 .. n, NEW j \in 1 .. n, k < j PROVE P[loose[k]] + Size(loose[k]) <= P[loose[j]]
  <2>1. PICK u, v, m, x, y, z : /\ u = P[loose[k]] /\ v = P[loose[j]] /\ m = Size(loose[k])
                                /\ x = T[k - 1] /\ y = T[j - 1] /\ z = T[k]
    OBVIOUS
  <2>2. k \in 0 .. n /\ j - 1 \in 0 .. n /\ k <= j - 1
    BY <1>4, <1>16
  <2>3. z <= y
    BY <1>3, <1>11, <2>1, <2>2 DEF LooseSums
  <2>4. u = e + x + 2 * k /\ v = e + y + 2 * j /\ z = x + m
    BY <1>13, <1>14, <2>1
  <2>5. x \in Nat /\ y \in Nat /\ m \in Nat
    BY <1>14, <2>1
  <2>6. u + m <= v
    BY <1>4, <1>10, <1>16, <2>3, <2>4, <2>5, SMTT(30)
  <2> QED
    BY <2>1, <2>6
<1>17. ASSUME NEW i \in 1 .. a PROVE P[segments[i]] = pos[segments[i]]
  <2>1. segments[i] \in Names /\ segments[i] = Plan[i] /\ i \in 1 .. Len(Plan)
    BY <1>2, <1>3, <1>4 DEF Order
  <2>2. ASSUME NEW k \in 1 .. n PROVE loose[k] # segments[i]
    <3>1. a + k # i
      BY <1>4
    <3>2. \A u, v \in 1 .. Len(Plan) : Plan[u] = Plan[v] => u = v
      BY <1>2 DEF PlanOK
    <3> QED
      BY <1>5, <2>1, <3>1, <3>2
  <2> QED
    BY <1>13, <2>1, <2>2
<1>18. ASSUME NEW k \in 1 .. n
       PROVE  pos[segments[a]] < P[loose[k]] /\ pos[segments[a]] + Size(segments[a]) <= P[loose[k]] /\ P[loose[k]] > 0
  <2>1. PICK u, v : u = P[loose[k]] /\ v = pos[l]
    OBVIOUS
  <2>2. u >= e /\ u \in Int /\ e \in Nat /\ e > v /\ v \in Nat
    BY <1>8, <1>10, <1>15, <2>1
  <2>3. v < u /\ e <= u /\ u > 0
    BY <2>2
  <2> QED
    BY <1>7, <1>9, <2>1, <2>3
<1>19. Behind(segments, loose, pos, P)
  BY <1>3, <1>16, <1>17, <1>18 DEF Behind
<1> QED
  BY <1>3, <1>8, <1>13, <1>18, <1>19 DEF Adds

LEMMA PlaceRestStep == ASSUME PlacementOK, PlaceRest PROVE PlacementOK'
<1>1. /\ UNCHANGED input /\ step' = "map" /\ step = "add" /\ plan = <<>> /\ plan' = <<>>
      /\ segments' = segments \o loose
  BY DEF PlaceRest, Goto
<1>2. PICK P, x : P = pos' /\ x = loose
  OBVIOUS
<1>3. Adds(x, P) /\ segments # <<>>
  BY <1>2, PlaceRestBehind
<1>4. Inputs /\ Adding /\ Order /\ segments \in Seq(Names) /\ loose \in Seq(Names) /\ PlanOK
  BY <1>1, PlanFacts DEF PlacementOK, Standing, Adding, Order
<1>5. ASSUME NEW t \in Fixed PROVE P[t] = pos[t]
  <2>1. t \in Names
    BY <1>4, GivenFacts
  <2>2. \A k \in 1 .. Len(x) : x[k] # t
    BY <1>2, <1>4 DEF Adding
  <2> QED
    BY <1>3, <2>1, <2>2 DEF Adds
<1>6. Standing' /\ Unmoved'
  <2>1. segments' = segments \o x /\ x \in Seq(Names)
    BY <1>1, <1>2, <1>4
  <2> QED
    BY <1>1, <1>2, <1>3, <1>5, <2>1, GrowStep
<1>7. Plan' = Plan
  BY <1>1, InputFrame
<1>8. segments' = Plan
  <2>1. PICK a, n, r : a = Len(segments) /\ n = Len(loose) /\ r = segments'
    OBVIOUS
  <2>2. a \in Nat /\ n \in Nat /\ a + n = Len(Plan)
    BY <1>1, <1>4, <2>1 DEF Order
  <2>3. /\ r \in Seq(Names) /\ Len(r) = a + n
        /\ \A i \in 1 .. a : r[i] = segments[i]
        /\ \A i \in 1 .. n : r[a + i] = loose[i]
    BY <1>1, <1>4, <2>1
  <2>4. ASSUME NEW i \in 1 .. a + n PROVE r[i] = Plan[i]
    <3>1. CASE i \in 1 .. a
      BY <1>4, <2>1, <2>3, <3>1 DEF Order
    <3>2. CASE i \notin 1 .. a
      <4>1. i - a \in 1 .. n /\ i = a + (i - a)
        BY <2>2, <3>2
      <4>2. PICK k \in 1 .. n : i = a + k
        BY <4>1
      <4> QED
        BY <1>4, <2>1, <2>3, <4>2 DEF Order
    <3> QED
      BY <3>1, <3>2
  <2>5. Plan \in Seq(Names) /\ Len(Plan) = Len(r)
    BY <1>4, <2>2, <2>3 DEF PlanOK
  <2>6. r = Plan
    <3>1. PICK p : p = Plan
      OBVIOUS
    <3>2. p \in Seq(Names) /\ r \in Seq(Names) /\ Len(p) = Len(r) /\ \A i \in 1 .. Len(r) : r[i] = p[i]
      BY <2>3, <2>4, <2>5, <3>1
    <3>3. p = r
      BY <3>2
    <3> QED
      BY <3>1, <3>3
  <2> QED
    BY <2>1, <2>6
<1> QED
  BY <1>1, <1>6, <1>7, <1>8 DEF PlacementOK

-----------------------------------------------------------------------------
(***************************************************************************)
(* Moving the segments to the mapping.                                     *)
(***************************************************************************)
LEMMA DivMod ==
  ASSUME NEW A \in Nat \ {0}, NEW x \in Int
  PROVE  x \div A \in Int /\ x % A \in Nat /\ x % A < A /\ x = A * (x \div A) + (x % A)
OBVIOUS

LEMMA SmallMultiple == ASSUME NEW A \in Nat \ {0}, NEW k \in Int, A * k < A, A * k > -A PROVE k = 0
<1>1. ASSUME k >= 1 PROVE FALSE
  <2>1. A * k >= A * 1
    BY <1>1
  <2> QED
    BY <2>1
<1>2. ASSUME k <= -1 PROVE FALSE
  <2>1. A * k <= A * (-1)
    BY <1>2
  <2> QED
    BY <2>1
<1> QED
  BY <1>1, <1>2

\* A number has one remainder.
LEMMA ModIs ==
  ASSUME NEW A \in Nat \ {0}, NEW x \in Int, NEW c \in Int, NEW q \in Nat, q < A, x = A * c + q
  PROVE  x % A = q
<1>1. PICK r, s : r = x \div A /\ s = x % A
  OBVIOUS
<1>2. r \in Int /\ s \in Nat /\ s < A /\ x = A * r + s
  BY <1>1, DivMod
<1>3. A * (r - c) = A * r - A * c /\ A * r \in Int /\ A * c \in Int
  BY <1>2
<1>4. A * (r - c) = q - s
  <2>1. PICK u, w : u = A * r /\ w = A * c
    OBVIOUS
  <2>2. u \in Int /\ w \in Int /\ u - w = q - s
    BY <1>2, <1>3, <2>1
  <2> QED
    BY <1>3, <2>1, <2>2
<1>5. r - c = 0
  <2>1. q - s < A /\ q - s > -A /\ r - c \in Int
    BY <1>2
  <2> QED
    BY <1>4, <2>1, SmallMultiple
<1>6. q - s = 0
  BY <1>4, <1>5
<1> QED
  BY <1>1, <1>2, <1>6

Splits(x, A, c, q) == x = A * c + q

LEMMA RemainderIs ==
  ASSUME NEW A \in Nat \ {0}, NEW x \in Int, NEW c \in Int, NEW q \in Nat, q < A, Splits(x, A, c, q)
  PROVE  x % A = q
BY ModIs DEF Splits

LEMMA ModShift ==
  ASSUME NEW A \in Nat \ {0}, NEW x \in Int, NEW c \in Int, NEW y \in Int, y = x + A * c
  PROVE  y % A = x % A
<1>1. PICK p, q : p = x \div A /\ q = x % A
  OBVIOUS
<1>2. p \in Int /\ q \in Nat /\ q < A /\ x = A * p + q
  BY <1>1, DivMod
<1>3. A * (p + c) = A * p + A * c /\ A * p \in Int /\ A * c \in Int
  BY <1>2
<1>4. y = A * (p + c) + q
  <2>1. PICK u, v, w : u = A * p /\ v = A * c /\ w = A * (p + c)
    OBVIOUS
  <2>2. u \in Int /\ v \in Int /\ w = u + v /\ x = u + q /\ y = x + v
    BY <1>2, <1>3, <2>1
  <2>3. y = w + q
    BY <1>2, <2>2
  <2> QED
    BY <2>1, <2>3
<1>5. p + c \in Int
  BY <1>2
<1> QED
  BY <1>1, <1>2, <1>4, <1>5, ModIs

LEMMA BaseFacts ==
  ASSUME NEW x \in Nat
  PROVE  Base(x) \in Nat /\ Base(x) <= x /\ x < Base(x) + Align /\ \E c \in Int : Base(x) = Align * c
<1>0. Align \in Nat \ {0}
  BY AlignAssumption
<1>1. PICK p, q : p = x \div Align /\ q = x % Align
  OBVIOUS
<1>2. p \in Int /\ q \in Nat /\ q < Align /\ x = Align * p + q
  BY <1>0, <1>1, DivMod
<1>3. PICK w : w = Align * p
  OBVIOUS
<1>4. w \in Int /\ x = w + q /\ Base(x) = x - q
  BY <1>0, <1>1, <1>2, <1>3 DEF Base
<1>5. Base(x) = w
  BY <1>2, <1>4
<1>6. x % Align <= x
  BY <1>0
<1>7. w \in Nat /\ w <= x /\ x < w + Align
  BY <1>0, <1>1, <1>2, <1>4, <1>6
<1> QED
  BY <1>2, <1>3, <1>5, <1>7

\* The moved segments are a multiple of Align away from where they were given.
Moved == \E c \in Int : \A s \in Fixed : pos[s] = GivenPos(s) + Align * c

LEMMA MoveShifts ==
  ASSUME PlacementOK, Move, mem.entry \in Nat
  PROVE  \E c \in Int : /\ segments # <<>> /\ \A i \in 1 .. Len(segments) : pos[segments[i]] >= pos[segments[1]]
                        /\ \A i \in 1 .. Len(segments) : pos'[segments[i]] = pos[segments[i]] + Align * c
                        /\ \A t \in Names : (\A i \in 1 .. Len(segments) : segments[i] # t) => pos'[t] = 0
                        /\ pos'[segments[1]] = Base(mem.entry) + (pos[segments[1]] % Align)
                        /\ \A s \in Fixed : \E i \in 1 .. Len(segments) : segments[i] = s
                        /\ pos' \in [Names -> Int]
<1>1. step = "move" /\ segments = Plan /\ Standing /\ Unmoved
  BY DEF Move, PlacementOK
<1>2. PlanOK /\ Inputs /\ pos \in [Names -> Nat] /\ segments \in Seq(Names) /\ ApartAt(segments, pos)
  BY <1>1, PlanFacts DEF Standing
<1>3. PICK n, f, e, off : /\ n = Len(segments) /\ f = pos[segments[1]] /\ e = Base(mem.entry)
                          /\ off = ApplyBase(segments[1]) - pos[segments[1]]
  OBVIOUS
<1>4. n \in Nat /\ n >= 8 /\ 1 \in 1 .. n /\ segments # <<>>
  BY <1>1, <1>2, <1>3 DEF PlanOK
<1>5. \A i \in 1 .. n : segments[i] \in Names /\ pos[segments[i]] \in Nat /\ pos[segments[i]] > 0
  BY <1>1, <1>2, <1>3 DEF Unmoved
<1>6. ASSUME NEW i \in 1 .. n PROVE pos[segments[i]] >= f
  <2>1. CASE i = 1
    BY <1>3, <1>4, <1>5, <2>1
  <2>2. CASE i # 1
    <3>1. 1 < i
      BY <1>4, <2>2
    <3>2. f < pos[segments[i]]
      BY <1>2, <1>3, <1>4, <3>1 DEF ApartAt
    <3>3. f \in Nat /\ pos[segments[i]] \in Nat
      BY <1>3, <1>4, <1>5
    <3> QED
      BY <3>2, <3>3
  <2> QED
    BY <2>1, <2>2
<1>7. Align \in Nat \ {0} /\ f \in Nat
  BY <1>3, <1>4, <1>5, AlignAssumption
<1>8. f % Align \in Nat /\ off = (f % Align) + e - f /\ e \in Nat
  <2>1. f % Align \in Nat
    BY <1>7, DivMod
  <2>2. e \in Nat
    BY <1>3, BaseFacts
  <2>3. off = (f % Align) + e - f
    <3>1. ApplyBase(segments[1]) = (f % Align) + e
      BY <1>3, Zenon DEF ApplyBase
    <3>2. off = ApplyBase(segments[1]) - f
      BY <1>3
    <3> QED
      BY <1>7, <2>1, <2>2, <3>1, <3>2
  <2> QED
    BY <2>1, <2>2, <2>3
<1>9. PICK c \in Int : off = Align * c
  <2>1. PICK x \in Int : e = Align * x
    BY <1>3, BaseFacts
  <2>2. PICK y \in Int : Base(f) = Align * y
    BY <1>7, BaseFacts
  <2>3. PICK b, m : b = Base(f) /\ m = f % Align
    OBVIOUS
  <2>4. b = f - m /\ m \in Nat
    BY <1>7, <1>8, <2>3 DEF Base
  <2>5. off = e - b
    BY <1>7, <1>8, <2>3, <2>4
  <2>6. off = Align * (x - y)
    <3>1. Align * (x - y) = Align * x - Align * y
      BY <1>7
    <3> QED
      BY <2>1, <2>2, <2>3, <2>5, <3>1
  <2>7. x - y \in Int
    OBVIOUS
  <2> QED
    BY <2>6, <2>7
<1>10. off \in Int
  BY <1>7, <1>8
<1>11. pos' = [t \in Names |-> IF pos[t] = 0 THEN 0 ELSE pos[t] + off]
  BY <1>3 DEF Move, Nullptr
<1>12. \A i \in 1 .. n : pos'[segments[i]] = pos[segments[i]] + off
  <2> SUFFICES ASSUME NEW i \in 1 .. n PROVE pos'[segments[i]] = pos[segments[i]] + off
    OBVIOUS
  <2>1. pos[segments[i]] # 0 /\ segments[i] \in Names
    BY <1>5
  <2> QED
    BY <1>11, <2>1
<1>13. ASSUME NEW s \in Fixed PROVE \E i \in 1 .. n : segments[i] = s
  BY <1>1, <1>2, <1>3 DEF PlanOK, Fixed
<1>14. ASSUME NEW t \in Names, \A i \in 1 .. n : segments[i] # t PROVE pos'[t] = 0
  <2>1. pos[t] = 0
    BY <1>1, <1>3, <1>13, <1>14 DEF Standing
  <2> QED
    BY <1>11, <2>1
<1>15. pos'[segments[1]] = e + (f % Align)
  <2>1. pos'[segments[1]] = f + off
    BY <1>3, <1>4, <1>12
  <2>2. f + off = e + (f % Align)
    BY <1>7, <1>8
  <2> QED
    BY <2>1, <2>2
<1>16. pos' \in [Names -> Int]
  BY <1>2, <1>10, <1>11
<1> QED
  BY <1>3, <1>4, <1>6, <1>9, <1>12, <1>13, <1>14, <1>15, <1>16

LEMMA MoveStep ==
  ASSUME PlacementOK, Move, mem.entry \in Nat
  PROVE  /\ PlacementOK' /\ Moved' /\ pos'[segments[1]] = Base(mem.entry) + (pos[segments[1]] % Align)
         /\ pos'[Last(segments)] - pos'[segments[1]] = pos[Last(segments)] - pos[segments[1]]
<1>1. /\ step = "move" /\ segments = Plan /\ plan = <<>> /\ Standing /\ Unmoved
      /\ UNCHANGED <<input, segments, plan>> /\ step' = "fill"
  BY DEF Move, PlacementOK, Goto
<1>2. Inputs /\ pos \in [Names -> Nat] /\ segments \in Seq(Names) /\ ApartAt(segments, pos)
  BY <1>1 DEF Standing
<1>3. PICK c \in Int :
        /\ segments # <<>> /\ \A i \in 1 .. Len(segments) : pos[segments[i]] >= pos[segments[1]]
        /\ \A i \in 1 .. Len(segments) : pos'[segments[i]] = pos[segments[i]] + Align * c
        /\ \A t \in Names : (\A i \in 1 .. Len(segments) : segments[i] # t) => pos'[t] = 0
        /\ pos'[segments[1]] = Base(mem.entry) + (pos[segments[1]] % Align)
        /\ \A s \in Fixed : \E i \in 1 .. Len(segments) : segments[i] = s
        /\ pos' \in [Names -> Int]
  BY MoveShifts
<1>4. PICK off, n, q, p, P : off = Align * c /\ n = Len(segments) /\ q = segments /\ p = pos /\ P = pos'
  OBVIOUS
<1>5. Align \in Nat \ {0} /\ off \in Int
  BY <1>4, AlignAssumption
<1>6. n \in Nat /\ 1 \in 1 .. n /\ n \in 1 .. n
  BY <1>2, <1>3, <1>4
<1>7. \A i \in 1 .. n : q[i] \in Names /\ p[q[i]] \in Nat /\ P[q[i]] = p[q[i]] + off /\ P[q[i]] \in Int
  BY <1>2, <1>3, <1>4
<1>8. P[q[1]] \in Nat
  <2>1. pos[segments[1]] \in Nat
    BY <1>4, <1>6, <1>7
  <2>2. Base(mem.entry) \in Nat
    BY BaseFacts
  <2>3. pos[segments[1]] % Align \in Nat
    BY <1>5, <2>1, DivMod
  <2> QED
    BY <1>3, <1>4, <2>2, <2>3
<1>9. ASSUME NEW i \in 1 .. n PROVE P[q[i]] \in Nat
  <2>1. PICK u, v, w, z : u = p[q[i]] /\ v = p[q[1]] /\ w = P[q[i]] /\ z = P[q[1]]
    OBVIOUS
  <2>2. u \in Nat /\ v \in Nat /\ w = u + off /\ z = v + off /\ z \in Nat
    BY <1>6, <1>7, <1>8, <2>1
  <2>3. u >= v
    BY <1>3, <1>4, <2>1
  <2>4. w \in Nat
    BY <1>5, <2>2, <2>3
  <2> QED
    BY <2>1, <2>4
<1>10. pos' \in [Names -> Nat]
  <2>1. ASSUME NEW t \in Names PROVE P[t] \in Nat
    <3>1. CASE \E i \in 1 .. n : q[i] = t
      BY <1>9, <3>1
    <3>2. CASE \A i \in 1 .. n : q[i] # t
      BY <1>3, <1>4, <3>2
    <3> QED
      BY <3>1, <3>2
  <2> QED
    BY <1>3, <1>4, <2>1
<1>11. ApartAt(segments, pos)'
  <2>1. ApartAt(q, P)
    <3> SUFFICES ASSUME NEW i \in 1 .. n, NEW j \in 1 .. n, i < j
                 PROVE  P[q[i]] < P[q[j]] /\ (P[q[i]] + Size(q[i]) <= P[q[j]] \/ Close(q[i], q[j]))
      BY <1>4 DEF ApartAt
    <3>1. PICK u, v, w, z, m : u = p[q[i]] /\ v = p[q[j]] /\ w = P[q[i]] /\ z = P[q[j]] /\ m = Size(q[i])
      OBVIOUS
    <3>2. u \in Nat /\ v \in Nat /\ w = u + off /\ z = v + off /\ m \in Nat
      BY <1>2, <1>7, <3>1, Sizes
    <3>3. u < v /\ (u + m <= v \/ Close(q[i], q[j]))
      BY <1>2, <1>4, <3>1 DEF ApartAt
    <3>4. w < z /\ (u + m <= v => w + m <= z)
      BY <1>5, <3>2, <3>3
    <3> QED
      BY <3>1, <3>3, <3>4
  <2>2. ApartAt(q, P)'
    BY <1>1, <2>1, InputFrame
  <2>3. segments' = q /\ pos' = P
    BY <1>1, <1>4
  <2> QED
    BY <2>2, <2>3 DEF ApartAt
<1>12. Fixed' = Fixed /\ Plan' = Plan /\ Inputs' /\ \A s : GivenPos(s)' = GivenPos(s)
  BY <1>1, <1>2, InputFrame
<1>13. \E s \in Fixed : P[q[1]] >= P[s] - 60
  <2>1. PICK s \in Fixed : p[q[1]] >= p[s] - 60
    BY <1>1, <1>3, <1>4 DEF Standing
  <2>2. PICK i \in 1 .. n : q[i] = s
    BY <1>3, <1>4
  <2>3. PICK u, v, w, z : u = p[q[1]] /\ v = p[s] /\ w = P[q[1]] /\ z = P[s]
    OBVIOUS
  <2>4. u \in Nat /\ v \in Nat /\ w = u + off /\ z = v + off /\ u >= v - 60
    BY <1>6, <1>7, <2>1, <2>2, <2>3
  <2>5. w >= z - 60
    BY <1>5, <2>4
  <2> QED
    BY <2>3, <2>5
<1>14. Standing'
  <2>1. \A t \in Names : P[t] = 0 \/ \E i \in 1 .. n : q[i] = t
    BY <1>3, <1>4
  <2> QED
    BY <1>1, <1>2, <1>4, <1>10, <1>11, <1>12, <1>13, <2>1 DEF Standing
<1>15. Moved'
  <2>1. ASSUME NEW s \in Fixed PROVE P[s] = GivenPos(s) + off
    <3>1. PICK i \in 1 .. n : q[i] = s
      BY <1>3, <1>4
    <3> QED
      BY <1>1, <1>4, <1>7, <3>1 DEF Unmoved
  <2> QED
    BY <1>4, <1>12, <2>1 DEF Moved
<1>16. PlacementOK'
  BY <1>1, <1>12, <1>14 DEF PlacementOK
<1>17. P[q[n]] - P[q[1]] = p[q[n]] - p[q[1]]
  <2>1. PICK u, v, w, z : u = p[q[1]] /\ v = p[q[n]] /\ w = P[q[1]] /\ z = P[q[n]]
    OBVIOUS
  <2>2. u \in Nat /\ v \in Nat /\ w = u + off /\ z = v + off
    BY <1>6, <1>7, <2>1
  <2>3. z - w = v - u
    BY <1>5, <2>2
  <2> QED
    BY <2>1, <2>3
<1> QED
  BY <1>3, <1>4, <1>15, <1>16, <1>17 DEF Last

-----------------------------------------------------------------------------
(***************************************************************************)
(* The mapping and the jumps.                                              *)
(***************************************************************************)
\* Where the area begins, S, in a mapping at m.
InMapping(m, S) == S < m + Align /\ (S < m <=> S % Align = 0 /\ m % Align # 0)

EntryIs(e) == IF e < mem.addr THEN e + Align - 1 ELSE e

MemOK ==
  /\ mem.addr \in Mems \cup {Nullptr, MapFailed} /\ mem.size \in Nat /\ mem.entry \in Nat \cup {MapFailed}
  /\ step \in {"move", "fill", "finalize", "write", "done"} => mem.addr \in Mems /\ mem.size = Align + GetSize
  /\ step = "move" => mem.entry = EntryIs(Base(mem.addr) + (pos[segments[1]] % Align))
  /\ step \in {"fill", "finalize", "write", "done"} => InMapping(mem.addr, pos[segments[1]])

JumpOK ==
  /\ jump \in [Names -> Int]
  /\ step \in {"write", "done"} =>
       \A s \in Jumps : Lands(s) = pos[Target(s)] <=> ~(Kind(s) = "JneEaxZero" /\ Diff(s) \notin -128 .. 127)

(***************************************************************************)
(* The inductive invariant of the builder.                                 *)
(***************************************************************************)
LayoutInvariant ==
  /\ PlacementOK /\ MemOK /\ JumpOK
  /\ step \in {"fill", "finalize", "write", "done"} => Moved
  /\ step \in {"add", "map", "move", "fill", "finalize", "write", "done", "aborted", "wild"}

LEMMA StandingFrame ==
  ASSUME UNCHANGED <<input, segments, pos>>
  PROVE  /\ (Standing => Standing') /\ (Moved => Moved')
         /\ Plan' = Plan /\ GetSize' = GetSize /\ (Unmoved => Unmoved')
<1>1. /\ UNCHANGED input /\ segments' = segments /\ pos' = pos
      /\ builder' = builder /\ indirect' = indirect /\ src' = src /\ dst' = dst
  BY DEF input
<1>2. /\ Plan' = Plan /\ Fixed' = Fixed /\ Inputs' = Inputs
      /\ \A s : Size(s)' = Size(s) /\ GivenPos(s)' = GivenPos(s)
      /\ \A q, p : ApartAt(q, p)' <=> ApartAt(q, p)
  BY <1>1, InputFrame
<1>3. ApartAt(segments, pos)' <=> ApartAt(segments, pos)
  <2>1. PICK q, p : q = segments /\ p = pos
    OBVIOUS
  <2>2. ApartAt(q, p)' <=> ApartAt(q, p)
    BY <1>2
  <2>3. q = segments' /\ p = pos'
    BY <1>1, <2>1
  <2> QED
    BY <2>1, <2>2, <2>3 DEF ApartAt
<1>4. GetSize' = GetSize
  BY <1>1, <1>2 DEF GetSize, Last, End
<1>5. Moved => Moved'
  BY <1>1, <1>2 DEF Moved
<1> QED
  BY <1>1, <1>2, <1>3, <1>4, <1>5 DEF Standing, Unmoved

LEMMA AbortStep == ASSUME LayoutInvariant, Abort PROVE LayoutInvariant'
<1>1. step' = "aborted" /\ UNCHANGED <<input, segments, pos>> /\ mem' = mem /\ jump' = jump
  BY DEF Abort, Goto
<1>2. PlacementOK'
  BY <1>1, StandingFrame DEF LayoutInvariant, PlacementOK
<1>3. MemOK' /\ JumpOK'
  BY <1>1 DEF LayoutInvariant, MemOK, JumpOK
<1> QED
  BY <1>1, <1>2, <1>3 DEF LayoutInvariant

LEMMA AddStep ==
  ASSUME LayoutInvariant, AddLoose \/ PlaceSegment \/ PlaceRest
  PROVE  LayoutInvariant'
<1>1. PlacementOK'
  BY AddLooseStep, PlaceSegmentStep, PlaceRestStep DEF LayoutInvariant
<1>2. step' \in {"add", "map"} /\ mem' = mem /\ jump' = jump
  BY DEF AddLoose, PlaceSegment, PlaceRest, Goto
<1>3. MemOK' /\ JumpOK'
  BY <1>2 DEF LayoutInvariant, MemOK, JumpOK
<1> QED
  BY <1>1, <1>2, <1>3 DEF LayoutInvariant

\* The whole list, placed.
LEMMA AreaFacts ==
  ASSUME PlacementOK, segments = Plan
  PROVE  /\ segments # <<>> /\ segments[1] \in Names /\ Last(segments) = "end_else" /\ "end_else" \in Names
         /\ GetSize \in Nat /\ pos[segments[1]] \in Nat
         /\ \A s \in Range(segments) : End(s) <= End(Last(segments)) /\ End(s) \in Nat
         /\ Last(segments) \in Range(segments)
<1>1. Standing /\ Inputs /\ PlanOK /\ pos \in [Names -> Nat] /\ segments \in Seq(Names) /\ ApartAt(segments, pos)
  BY PlanFacts DEF PlacementOK, Standing
<1>2. PICK n : n = Len(segments)
  OBVIOUS
<1>3. n \in Nat /\ n >= 8 /\ segments[n] = "end_else" /\ Last(segments) = segments[n]
  BY <1>1, <1>2 DEF PlanOK, Last
<1>4. \A i \in 1 .. n : segments[i] \in Names
  BY <1>1, <1>2
<1>5. 1 \in 1 .. n /\ n \in 1 .. n /\ 1 < n
  BY <1>3
<1>6. segments # <<>> /\ segments[1] \in Names /\ "end_else" \in Names /\ pos[segments[1]] \in Nat
  BY <1>1, <1>2, <1>3, <1>4, <1>5
<1>7. ASSUME NEW s \in Names PROVE pos[s] \in Nat /\ Size(s) \in Nat /\ End(s) \in Nat /\ End(s) = pos[s] + Size(s)
  BY <1>1, Sizes DEF End
<1>8. ASSUME NEW i \in 1 .. n, i < n PROVE End(segments[i]) <= pos["end_else"]
  <2>1. pos[segments[i]] + Size(segments[i]) <= pos[segments[n]] \/ Close(segments[i], segments[n])
    BY <1>1, <1>2, <1>5, <1>8 DEF ApartAt
  <2>2. ~Close(segments[i], segments[n])
    BY <1>3 DEF Close
  <2> QED
    BY <1>3, <2>1, <2>2 DEF End
<1>9. GetSize \in Nat
  <2>1. PICK u, v : u = pos["end_else"] /\ v = End(segments[1])
    OBVIOUS
  <2>2. u \in Nat /\ v \in Nat /\ v <= u /\ GetSize = u - v
    BY <1>3, <1>5, <1>6, <1>7, <1>8, <2>1 DEF GetSize
  <2> QED
    BY <2>2
<1>10. ASSUME NEW s \in Range(segments) PROVE End(s) <= End(Last(segments)) /\ End(s) \in Nat
  <2>1. PICK i \in 1 .. n : segments[i] = s
    BY <1>1, <1>2 DEF Range
  <2>2. s \in Names /\ "end_else" \in Names
    BY <1>4, <1>6, <2>1
  <2>3. CASE i = n
    BY <1>3, <1>7, <2>1, <2>2, <2>3
  <2>4. CASE i # n
    <3>1. i < n
      BY <1>3, <2>4
    <3>2. End(s) <= pos["end_else"]
      BY <1>8, <2>1, <3>1
    <3>3. PICK u, v, w, z : u = End(s) /\ v = pos["end_else"] /\ w = Size("end_else") /\ z = End("end_else")
      OBVIOUS
    <3>4. u \in Nat /\ v \in Nat /\ w \in Nat /\ z = v + w /\ u <= v
      BY <1>7, <2>2, <3>2, <3>3
    <3>5. u <= z /\ u \in Nat
      BY <3>4
    <3> QED
      BY <1>3, <3>3, <3>5
  <2> QED
    BY <2>3, <2>4
<1>11. Last(segments) \in Range(segments)
  BY <1>1, <1>2, <1>3, <1>5 DEF Range
<1> QED
  BY <1>3, <1>6, <1>9, <1>10, <1>11

\* The entry x into a mapping at m and the start S of the area, for low bits r.
Enters(m, r, x, S) ==
  x = (IF Base(m) + r < m THEN Base(m) + r + Align - 1 ELSE Base(m) + r) /\ S = Base(x) + r

LEMMA MappingFacts ==
  ASSUME NEW m \in Nat, NEW r \in Nat, r < Align, NEW x, NEW S, Enters(m, r, x, S)
  PROVE  x \in Nat /\ InMapping(m, S)
<1>0. PICK A, b, e : A = Align /\ b = Base(m) /\ e = b + r
  OBVIOUS
<1>1. A \in Nat \ {0} /\ r \in Nat /\ r < A
  BY <1>0, AlignAssumption
<1>2. b \in Nat /\ b <= m /\ m < b + A
  BY <1>0, BaseFacts
<1>3. PICK c \in Int : b = A * c
  BY <1>0, BaseFacts
<1>4. e = b + r /\ x = (IF e < m THEN (e + A) - 1 ELSE e)
  BY <1>0, <1>1, <1>2 DEF Enters
<1>5. x \in Nat /\ x \in Int
  BY <1>1, <1>2, <1>4
<1>6. ASSUME NEW q \in Int, x % A = q PROVE S = (x - q) + r
  BY <1>0, <1>6 DEF Base, Enters
<1>7. m % A = m - b /\ m - b \in Nat
  <2>1. Base(m) = m - (m % A) /\ m % A \in Nat
    BY <1>0, <1>1, DivMod DEF Base
  <2> QED
    BY <1>0, <1>2, <2>1
<1>8. CASE e >= m
  <2>1. Splits(x, A, c, r)
    BY <1>1, <1>2, <1>3, <1>4, <1>8 DEF Splits
  <2>2. x % A = r
    BY <1>1, <1>5, <2>1, RemainderIs
  <2>3. S = x /\ S = e
    <3>1. S = (x - r) + r
      BY <1>1, <1>6, <2>2
    <3> QED
      BY <1>1, <1>2, <1>4, <1>5, <1>8, <3>1
  <2>4. S % A = r
    BY <2>2, <2>3
  <2>5. S < m + A /\ ~(S < m) /\ (r = 0 => m = b)
    BY <1>1, <1>2, <1>4, <1>8, <2>3
  <2> QED
    BY <1>0, <1>2, <1>5, <1>7, <2>4, <2>5 DEF InMapping
<1>9. CASE e < m /\ r = 0
  <2>1. PICK q \in Nat : q = A - 1 /\ q < A
    BY <1>1
  <2>2. x = b + q
    BY <1>1, <1>2, <1>4, <1>9, <2>1
  <2>3. Splits(x, A, c, q)
    BY <1>3, <2>2 DEF Splits
  <2>4. x % A = q
    BY <1>1, <1>5, <2>1, <2>3, RemainderIs
  <2>5. S = b
    <3>1. S = (x - q) + r
      BY <1>6, <2>4
    <3> QED
      BY <1>2, <1>9, <2>2, <3>1
  <2>6. S % A = 0
    <3>1. Splits(S, A, c, 0)
      BY <1>2, <1>3, <2>5 DEF Splits
    <3>2. S \in Int /\ 0 \in Nat /\ 0 < A
      BY <1>1, <1>2, <2>5
    <3> QED
      BY <1>1, <3>1, <3>2, RemainderIs
  <2>7. S < m + A /\ S < m /\ m - b # 0
    BY <1>1, <1>2, <1>4, <1>9, <2>5
  <2> QED
    BY <1>0, <1>5, <1>7, <2>6, <2>7 DEF InMapping
<1>10. CASE e < m /\ r # 0
  <2>1. PICK q \in Nat : q = r - 1 /\ q < A
    BY <1>1, <1>10
  <2>2. PICK k \in Int : A * k = b + A
    <3>1. A * (c + 1) = b + A /\ c + 1 \in Int
      BY <1>1, <1>3
    <3> QED
      BY <3>1
  <2>3. x = (b + A) + q
    BY <1>1, <1>2, <1>4, <1>10, <2>1
  <2>4. x % A = q
    <3>1. Splits(x, A, k, q)
      BY <2>2, <2>3 DEF Splits
    <3> QED
      BY <1>1, <1>5, <2>1, <3>1, RemainderIs
  <2>5. S = (b + A) + r
    <3>1. S = (x - q) + r
      BY <1>6, <2>4
    <3> QED
      BY <1>1, <1>2, <2>3, <3>1
  <2>6. S % A = r
    <3>1. Splits(S, A, k, r)
      BY <2>2, <2>5 DEF Splits
    <3>2. S \in Int
      BY <1>1, <1>2, <2>5
    <3> QED
      BY <1>1, <3>1, <3>2, RemainderIs
  <2>7. S < m + A /\ ~(S < m)
    BY <1>1, <1>2, <1>4, <1>10, <2>5
  <2> QED
    BY <1>0, <1>5, <1>10, <2>6, <2>7 DEF InMapping
<1> QED
  BY <1>1, <1>2, <1>4, <1>8, <1>9, <1>10

LEMMA AllocateStep == ASSUME LayoutInvariant, Allocate PROVE LayoutInvariant'
<1>1. step = "map" /\ step' = "move" /\ UNCHANGED <<input, segments, pos>> /\ plan' = plan /\ jump' = jump
  BY DEF Allocate, Goto
<1>2. PICK m \in Mems :
        mem' = [addr |-> m, size |-> MapSize,
                entry |-> IF Base(m) + (pos[segments[1]] % Align) < m
                          THEN Base(m) + (pos[segments[1]] % Align) + Align - 1
                          ELSE Base(m) + (pos[segments[1]] % Align)]
  BY DEF Allocate
<1>3. segments = Plan /\ PlacementOK /\ Standing /\ Unmoved /\ plan = <<>>
  BY <1>1 DEF LayoutInvariant, PlacementOK
<1>4. GetSize \in Nat /\ pos[segments[1]] \in Nat
  BY <1>3, AreaFacts
<1>5. PlacementOK'
  BY <1>1, <1>3, StandingFrame DEF PlacementOK
<1>6. PICK e, x, f : /\ f = pos[segments[1]] /\ e = Base(m) + (f % Align)
                     /\ x = (IF e < m THEN e + Align - 1 ELSE e)
  OBVIOUS
<1>7. mem'.addr = m /\ mem'.size = Align + GetSize /\ mem'.entry = x
  BY <1>2, <1>6 DEF MapSize
<1>8. m \in Nat /\ Align \in Nat
  BY AddressAssumption, AlignAssumption
<1>9. x \in Nat
  <2>1. PICK r : r = f % Align
    OBVIOUS
  <2>2. r \in Nat /\ r < Align
    BY <1>4, <1>6, <2>1, AlignAssumption, DivMod
  <2>3. PICK S : S = Base(x) + r
    OBVIOUS
  <2>4. Enters(m, r, x, S)
    BY <1>6, <2>1, <2>3 DEF Enters
  <2> QED
    BY <1>8, <2>2, <2>4, MappingFacts
<1>10. MemOK'
  <2>1. GetSize' = GetSize
    BY <1>1, StandingFrame
  <2>2. Align + GetSize \in Nat
    BY <1>4, <1>8
  <2>3. mem'.entry = EntryIs(Base(mem.addr) + (pos[segments[1]] % Align))'
    BY <1>1, <1>6, <1>7 DEF EntryIs, Base
  <2> QED
    BY <1>1, <1>7, <1>9, <2>1, <2>2, <2>3 DEF MemOK
<1>11. JumpOK'
  BY <1>1 DEF LayoutInvariant, JumpOK
<1> QED
  BY <1>1, <1>5, <1>10, <1>11 DEF LayoutInvariant

LEMMA AllocateFailsStep == ASSUME LayoutInvariant, AllocateFails PROVE LayoutInvariant'
<1>1. /\ step = "map" /\ step' = "wild" /\ UNCHANGED <<input, segments, pos>> /\ plan' = plan /\ jump' = jump
      /\ mem' = [addr |-> MapFailed, size |-> MapSize, entry |-> MapFailed]
  BY DEF AllocateFails, Goto
<1>2. segments = Plan /\ PlacementOK /\ Standing /\ plan = <<>>
  BY <1>1 DEF LayoutInvariant, PlacementOK
<1>3. PlacementOK'
  BY <1>1, <1>2, StandingFrame DEF PlacementOK
<1>4. Align + GetSize \in Nat
  BY <1>2, AreaFacts, AlignAssumption
<1>5. MemOK'
  BY <1>1, <1>4 DEF MemOK, MapSize
<1>6. JumpOK'
  BY <1>1 DEF LayoutInvariant, JumpOK
<1> QED
  BY <1>1, <1>3, <1>5, <1>6 DEF LayoutInvariant

LEMMA EntryIsNat == ASSUME LayoutInvariant, step = "move" PROVE mem.entry \in Nat
<1>1. segments = Plan /\ PlacementOK /\ MemOK
  BY DEF LayoutInvariant, PlacementOK
<1>2. PICK m, f, e, x : m = mem.addr /\ f = pos[segments[1]] /\ e = Base(m) + (f % Align) /\ x = mem.entry
  OBVIOUS
<1>3. m \in Nat /\ f \in Nat /\ x = (IF e < m THEN e + Align - 1 ELSE e) /\ m \in Mems
  BY <1>1, <1>2, AreaFacts, AddressAssumption DEF MemOK, EntryIs
<1>4. PICK r : r = f % Align
  OBVIOUS
<1>5. r \in Nat /\ r < Align
  BY <1>3, <1>4, AlignAssumption, DivMod
<1>6. PICK z : z = Base(x) + r
  OBVIOUS
<1>7. Enters(m, r, x, z)
  BY <1>2, <1>3, <1>4, <1>6 DEF Enters
<1> QED
  BY <1>2, <1>3, <1>5, <1>7, MappingFacts

LEMMA MoveKeeps == ASSUME LayoutInvariant, Move PROVE LayoutInvariant'
<1>1. /\ step = "move" /\ step' = "fill" /\ UNCHANGED input /\ segments' = segments /\ mem' = mem /\ jump' = jump
  BY DEF Move, Goto
<1>2. segments = Plan /\ PlacementOK /\ MemOK
  BY <1>1 DEF LayoutInvariant, PlacementOK
<1>3. PICK m, f, e, x, S : /\ m = mem.addr /\ f = pos[segments[1]] /\ e = Base(m) + (f % Align) /\ x = mem.entry
                           /\ S = pos'[segments[1]]
  OBVIOUS
<1>4. m \in Nat /\ f \in Nat /\ x = (IF e < m THEN e + Align - 1 ELSE e) /\ mem.size = Align + GetSize /\ m \in Mems
  BY <1>1, <1>2, <1>3, AreaFacts, AddressAssumption DEF MemOK, EntryIs
<1>5. x \in Nat
  BY <1>1, <1>3, EntryIsNat
<1>6. /\ PlacementOK' /\ Moved' /\ S = Base(x) + (f % Align)
      /\ pos'[Last(segments)] - pos'[segments[1]] = pos[Last(segments)] - pos[segments[1]]
  BY <1>2, <1>3, <1>5, MoveStep
<1>7. InMapping(m, S)
  <2>1. PICK r : r = f % Align
    OBVIOUS
  <2>2. r \in Nat /\ r < Align
    BY <1>4, <2>1, AlignAssumption, DivMod
  <2>3. Enters(m, r, x, S)
    BY <1>3, <1>4, <1>6, <2>1 DEF Enters
  <2> QED
    BY <1>4, <2>2, <2>3, MappingFacts
<1>8. GetSize' = GetSize
  <2>1. PICK u, v, w, z, k : /\ u = pos[Last(segments)] /\ v = pos[segments[1]] /\ w = pos'[Last(segments)]
                             /\ z = pos'[segments[1]] /\ k = Size(segments[1])
    OBVIOUS
  <2>2. /\ u \in Nat /\ v \in Nat /\ k \in Nat /\ segments[1] \in Names /\ Last(segments) \in Names
    BY <1>2, <2>1, AreaFacts, Sizes DEF PlacementOK, Standing
  <2>3. w \in Nat /\ z \in Nat
    BY <1>6, <2>1, <2>2 DEF PlacementOK, Standing
  <2>4. Size(segments[1])' = k
    <3>1. PICK s : s = segments[1]
      OBVIOUS
    <3>2. Size(s)' = Size(s)
      BY <1>1, InputFrame
    <3> QED
      BY <1>1, <2>1, <3>1, <3>2 DEF Size, Kind, Forward
  <2>5. GetSize = u - (v + k) /\ GetSize' = w - (z + k)
    BY <1>1, <2>1, <2>4 DEF GetSize, End, Last
  <2>6. w - z = u - v
    BY <1>6, <2>1
  <2> QED
    BY <2>2, <2>3, <2>5, <2>6
<1>9. MemOK'
  BY <1>1, <1>2, <1>3, <1>4, <1>7, <1>8 DEF MemOK, InMapping
<1>10. JumpOK'
  BY <1>1 DEF LayoutInvariant, JumpOK
<1> QED
  BY <1>1, <1>6, <1>9, <1>10 DEF LayoutInvariant

LEMMA TargetFacts ==
  ASSUME Inputs, NEW s \in Names
  PROVE  /\ Kind(s) \in {"Jump", "JneEaxZero", "LongJump", "JumpR13", "SetPosInReg"} => Target(s) \in Names
         /\ Kind(s) = "JumpR13" =>
              /\ Kind("entry") = "SetPosInReg" /\ builder # "jne" /\ Target("entry") = Target(s) /\ "entry" \in Names
<1>1. DstSegment \in {"if", "else"}
  BY DEF DstSegment
<1>2. Target("src") = DstSegment /\ Target("entry") = DstSegment
  BY DEF Target
<1>3. Kind(s) = "JumpR13" => s = "src" /\ indirect /\ builder # "jne"
  BY DEF Kind, Names
<1>4. indirect => Kind("entry") = "SetPosInReg"
  BY DEF Kind
<1>5. Kind(s) \in {"Jump", "JneEaxZero", "LongJump", "JumpR13", "SetPosInReg"} =>
        s \in {"src", "entry", "goto_src", "goto_if", "goto_end_if", "goto_end_else"}
  BY DEF Kind, Names
<1>6. s \in {"src", "entry", "goto_src", "goto_if", "goto_end_if", "goto_end_else"} => Target(s) \in Names
  BY <1>1 DEF Target, Names
<1> QED
  BY <1>2, <1>3, <1>4, <1>5, <1>6 DEF Names

LEMMA ToCharIs == ASSUME NEW n \in Int PROVE ToChar(n) \in Int /\ (ToChar(n) = n <=> n \in -128 .. 127)
BY DEF ToChar

LEMMA FinalizeStep == ASSUME LayoutInvariant, FinalizeSegments PROVE LayoutInvariant'
<1>1. /\ step = "finalize" /\ step' = "write" /\ UNCHANGED <<input, segments, pos>> /\ plan' = plan /\ mem' = mem
      /\ \A s \in Range(segments) : Kind(s) = "Jump" => Diff(s) \in ShortRange
      /\ jump' = [s \in Names |->
           IF s \notin Range(segments) THEN 0 ELSE
           CASE Kind(s) \in {"Jump", "JneEaxZero"} -> ToChar(Diff(s))
             [] Kind(s) = "LongJump" -> Diff(s)
             [] Kind(s) = "SetPosInReg" /\ builder # "jne" -> pos[Target(s)]
             [] OTHER -> 0]
  BY DEF FinalizeSegments, Goto
<1>2. segments = Plan /\ plan = <<>> /\ Standing /\ MemOK /\ Moved /\ PlacementOK
  BY <1>1 DEF LayoutInvariant, PlacementOK
<1>3. Inputs /\ pos \in [Names -> Nat] /\ segments \in Seq(Names) /\ PlanOK
  BY <1>2, PlanFacts DEF Standing
<1>4. PlacementOK' /\ Moved'
  BY <1>1, <1>2, StandingFrame DEF PlacementOK
<1>5. MemOK'
  <2>1. GetSize' = GetSize
    BY <1>1, StandingFrame
  <2> QED
    BY <1>1, <1>2, <2>1 DEF MemOK, InMapping
<1>6. /\ builder' = builder /\ indirect' = indirect /\ src' = src /\ dst' = dst /\ segments' = segments /\ pos' = pos
      /\ \A s : Kind(s)' = Kind(s) /\ Target(s)' = Target(s) /\ Size(s)' = Size(s)
  BY <1>1 DEF input, Kind, Forward, Target, DstSegment, Size
<1>7. \A s : Diff(s)' = Diff(s) /\ End(s)' = End(s)
  BY <1>6 DEF Diff, End
<1>8. Range(segments) \subseteq Names /\ Range(segments)' = Range(segments)
  BY <1>3, <1>6 DEF Range
<1>9. ASSUME NEW s \in Names, Kind(s) \in {"Jump", "JneEaxZero", "LongJump"}
      PROVE  Diff(s) \in Int /\ End(s) \in Int /\ End(s) + Diff(s) = pos[Target(s)]
  <2>1. PICK u, v, w : u = pos[Target(s)] /\ v = pos[s] /\ w = Size(s)
    OBVIOUS
  <2>2. u \in Nat /\ v \in Nat /\ w \in Nat
    BY <1>3, <1>9, <2>1, TargetFacts, Sizes
  <2>3. End(s) = v + w /\ Diff(s) = u - (v + w)
    BY <2>1 DEF End, Diff
  <2> QED
    BY <2>1, <2>2, <2>3
<1>10. jump' \in [Names -> Int]
  <2> SUFFICES ASSUME NEW s \in Names PROVE jump'[s] \in Int
    BY <1>1
  <2>1. CASE s \notin Range(segments)
    BY <1>1, <2>1
  <2>2. CASE s \in Range(segments)
    <3>1. CASE Kind(s) \in {"Jump", "JneEaxZero"}
      BY <1>1, <1>9, <2>2, <3>1, ToCharIs
    <3>2. CASE Kind(s) = "LongJump"
      BY <1>1, <1>9, <2>2, <3>2
    <3>3. CASE Kind(s) = "SetPosInReg" /\ builder # "jne"
      <4>1. pos[Target(s)] \in Int
        BY <1>3, <3>3, TargetFacts
      <4> QED
        BY <1>1, <2>2, <3>3, <4>1
    <3>4. CASE Kind(s) \notin {"Jump", "JneEaxZero", "LongJump"} /\ ~(Kind(s) = "SetPosInReg" /\ builder # "jne")
      BY <1>1, <2>2, <3>4
    <3> QED
      BY <3>1, <3>2, <3>3, <3>4
  <2> QED
    BY <2>1, <2>2
<1>11. ASSUME NEW s \in Jumps
       PROVE  Lands(s)' = pos[Target(s)] <=> ~(Kind(s) = "JneEaxZero" /\ Diff(s) \notin -128 .. 127)
  <2>1. s \in Range(segments) /\ s \in Names /\ Kind(s) \in {"Jump", "LongJump", "JneEaxZero", "JumpR13"}
    BY <1>8 DEF Jumps
  <2>2. Lands(s)' = IF Kind(s) = "JumpR13" THEN jump'["entry"] ELSE End(s) + jump'[s]
    BY <1>6, <1>7 DEF Lands
  <2>6. Kind(s) = "Jump" => Diff(s) \in -128 .. 127
    <3>1. Kind(s) = "Jump" => Diff(s) \in -127 .. 127
      BY <1>1, <2>1 DEF ShortRange
    <3> QED
      BY <3>1
  <2>3. CASE Kind(s) = "JumpR13"
    <3>1. /\ Kind("entry") = "SetPosInReg" /\ builder # "jne" /\ Target("entry") = Target(s) /\ "entry" \in Names
      BY <1>3, <2>1, <2>3, TargetFacts
    <3>2. "entry" \in Range(segments)
      BY <1>2, <1>3 DEF PlanOK, Range
    <3>3. jump'["entry"] = pos[Target("entry")]
      BY <1>1, <3>1, <3>2
    <3> QED
      BY <2>2, <2>3, <3>1, <3>3
  <2>4. CASE Kind(s) = "LongJump"
    <3>1. jump'[s] = Diff(s)
      BY <1>1, <2>1, <2>4
    <3> QED
      BY <1>9, <2>1, <2>2, <2>4, <3>1
  <2>5. CASE Kind(s) \in {"Jump", "JneEaxZero"}
    <3>1. jump'[s] = ToChar(Diff(s))
      BY <1>1, <2>1, <2>5
    <3>2. PICK e, d \in Int : e = End(s) /\ d = Diff(s) /\ e + d = pos[Target(s)]
      BY <1>9, <2>1, <2>5
    <3>3. Lands(s)' = e + ToChar(d)
      BY <2>2, <2>5, <3>1, <3>2
    <3>4. e + ToChar(d) = e + d <=> d \in -128 .. 127
      <4>1. PICK c \in Int : c = ToChar(d)
        BY ToCharIs
      <4>2. c = d <=> d \in -128 .. 127
        BY <4>1, ToCharIs
      <4> QED
        BY <4>1, <4>2
    <3> QED
      BY <2>5, <2>6, <3>2, <3>3, <3>4
  <2> QED
    BY <2>1, <2>3, <2>4, <2>5
<1>12. JumpOK'
  <2>1. Jumps' = Jumps
    BY <1>6, <1>8 DEF Jumps
  <2>2. \A s : pos[Target(s)]' = pos[Target(s)]
    BY <1>6
  <2> QED
    BY <1>6, <1>7, <1>10, <1>11, <2>1, <2>2 DEF JumpOK
<1> QED
  BY <1>1, <1>4, <1>5, <1>12 DEF LayoutInvariant

LEMMA WriteStep == ASSUME LayoutInvariant, Write PROVE LayoutInvariant'
<1>1. /\ step = "write" /\ step' = "done" /\ UNCHANGED <<input, segments, pos>> /\ plan' = plan /\ mem' = mem
      /\ jump' = jump
  BY DEF Write, Goto
<1>2. segments = Plan /\ plan = <<>> /\ Standing /\ MemOK /\ Moved /\ JumpOK
  BY <1>1 DEF LayoutInvariant, PlacementOK
<1>3. PlacementOK' /\ Moved' /\ GetSize' = GetSize
  BY <1>1, <1>2, StandingFrame DEF PlacementOK
<1>4. MemOK'
  BY <1>1, <1>2, <1>3 DEF MemOK, InMapping
<1>5. /\ builder' = builder /\ indirect' = indirect /\ src' = src /\ dst' = dst /\ segments' = segments /\ pos' = pos
      /\ \A s : Kind(s)' = Kind(s) /\ Target(s)' = Target(s) /\ Size(s)' = Size(s)
  BY <1>1 DEF input, Kind, Forward, Target, DstSegment, Size
<1>6. Jumps' = Jumps /\ (\A s : Lands(s)' = Lands(s) /\ Diff(s)' = Diff(s) /\ pos'[Target(s)'] = pos[Target(s)])
  BY <1>1, <1>5 DEF Jumps, Lands, Diff, End, Range
<1>7. JumpOK'
  BY <1>1, <1>2, <1>5, <1>6 DEF JumpOK
<1> QED
  BY <1>1, <1>3, <1>4, <1>7 DEF LayoutInvariant

\* Filling the area with nops changes nothing of the layout.
LEMMA FillStep == ASSUME LayoutInvariant, FillWithNops PROVE LayoutInvariant'
<1>1. /\ step = "fill" /\ step' = "finalize" /\ UNCHANGED <<input, segments, pos>> /\ plan' = plan /\ mem' = mem
      /\ jump' = jump
  BY DEF FillWithNops, Goto
<1>2. segments = Plan /\ plan = <<>> /\ Standing /\ MemOK /\ Moved /\ JumpOK
  BY <1>1 DEF LayoutInvariant, PlacementOK
<1>3. PlacementOK' /\ Moved' /\ GetSize' = GetSize
  BY <1>1, <1>2, StandingFrame DEF PlacementOK
<1>4. MemOK'
  BY <1>1, <1>2, <1>3 DEF MemOK, InMapping
<1>5. JumpOK'
  BY <1>1, <1>2 DEF JumpOK
<1> QED
  BY <1>1, <1>3, <1>4, <1>5 DEF LayoutInvariant

LEMMA LayoutInit == Init => LayoutInvariant
<1> SUFFICES ASSUME Init PROVE LayoutInvariant
  OBVIOUS
<1>1. Inputs
  <2>1. PICK d \in Distances : dst = src + d
    BY DEF Init
  <2>2. src \in Nat /\ d \in Int /\ src \in Sources
    BY AddressAssumption DEF Init
  <2>3. dst \in Int /\ dst - src = d
    BY <2>1, <2>2
  <2> QED
    BY <2>2, <2>3 DEF Init, Inputs
<1>2. PlanOK
  BY <1>1, PlanFacts
<1>3. /\ plan = Plan /\ segments = <<>> /\ loose = <<>> /\ pos = [s \in Names |-> GivenPos(s)] /\ step = "add"
      /\ mem = NoMem /\ jump = [s \in Names |-> 0]
  BY DEF Init
<1>4. /\ Fixed \subseteq Names
      /\ \A s \in Names : GivenPos(s) \in Nat /\ (s \notin Fixed => GivenPos(s) = 0)
  BY <1>1, GivenFacts
<1>5. Standing
  BY <1>1, <1>3, <1>4 DEF Standing, ApartAt
<1>6. Order
  <2>1. PICK p : p = Plan
    OBVIOUS
  <2>2. p \in Seq(Names) /\ plan = p /\ Len(segments) = 0 /\ Len(loose) = 0
    BY <1>2, <1>3, <2>1 DEF PlanOK
  <2> QED
    BY <1>3, <2>1, <2>2 DEF Order
<1>7. Adding
  <2>1. \A i \in 1 .. Len(Plan) : Plan[i] \in Names
    BY <1>2 DEF PlanOK
  <2>2. Len(segments) + 1 = 1 /\ 1 .. Len(loose) = {}
    BY <1>3
  <2> QED
    BY <1>3, <1>6, <2>1, <2>2 DEF Adding
<1>8. Unmoved
  BY <1>3, <1>4 DEF Unmoved
<1>9. PlacementOK
  BY <1>3, <1>5, <1>7, <1>8 DEF PlacementOK
<1>10. MemOK /\ JumpOK
  BY <1>3 DEF MemOK, JumpOK, NoMem, Nullptr
<1> QED
  BY <1>3, <1>9, <1>10 DEF LayoutInvariant

LEMMA LayoutNext == LayoutInvariant /\ [Next]_vars => LayoutInvariant'
<1> SUFFICES ASSUME LayoutInvariant, [Next]_vars PROVE LayoutInvariant'
  OBVIOUS
<1>1. CASE UNCHANGED vars
  <2>1. /\ UNCHANGED <<input, segments, pos>> /\ UNCHANGED <<plan, loose, mem, jump, step>>
        /\ builder' = builder /\ indirect' = indirect /\ src' = src /\ dst' = dst
    BY <1>1 DEF vars, input
  <2>2. /\ (Standing => Standing') /\ (Moved => Moved')
        /\ Plan' = Plan /\ GetSize' = GetSize /\ (Unmoved => Unmoved')
    BY <2>1, StandingFrame
  <2>3. Adding => Adding'
    BY <2>1, <2>2 DEF Adding, Order, Last, Fixed, DstSegment, GivenPos
  <2>4. PlacementOK'
    BY <2>1, <2>2, <2>3 DEF LayoutInvariant, PlacementOK
  <2>5. MemOK'
    BY <2>1, <2>2 DEF LayoutInvariant, MemOK, InMapping, EntryIs
  <2>6. \A s : Kind(s)' = Kind(s) /\ Target(s)' = Target(s) /\ Size(s)' = Size(s)
    BY <2>1 DEF Kind, Forward, Target, DstSegment, Size
  <2>7. JumpOK'
    BY <2>1, <2>6 DEF LayoutInvariant, JumpOK, Jumps, Lands, Diff, End, Range
  <2> QED
    BY <2>1, <2>2, <2>4, <2>5, <2>7 DEF LayoutInvariant
<1>2. CASE OutOfOrder \/ DoesNotFit \/ JumpTooFar
  BY <1>2, AbortStep DEF OutOfOrder, DoesNotFit, JumpTooFar
<1>3. CASE AddLoose \/ PlaceSegment \/ PlaceRest
  BY <1>3, AddStep
<1>4. CASE Allocate
  BY <1>4, AllocateStep
<1>5. CASE AllocateFails
  BY <1>5, AllocateFailsStep
<1>6. CASE Move
  BY <1>6, MoveKeeps
<1>7. CASE FinalizeSegments
  BY <1>7, FinalizeStep
<1>8. CASE Write
  BY <1>8, WriteStep
<1>9. CASE FillWithNops
  BY <1>9, FillStep
<1> QED
  BY <1>1, <1>2, <1>3, <1>4, <1>5, <1>6, <1>7, <1>8, <1>9 DEF Next

LEMMA LayoutHolds == Spec => []LayoutInvariant
BY LayoutInit, LayoutNext, PTL DEF Spec

-----------------------------------------------------------------------------
(***************************************************************************)
(* place_segment and finalize keep the segments apart, for every src and   *)
(* dst: the comment "TODO: Detect bad placements where segments overwrite  *)
(* each-other" has one case to detect, which SegmentsDisjoint names.       *)
(***************************************************************************)
THEOREM SegmentsApart == Spec => []SegmentsDisjoint
<1>1. LayoutInvariant => SegmentsDisjoint
  <2> SUFFICES ASSUME LayoutInvariant, NEW i \in DOMAIN segments, NEW j \in DOMAIN segments, i < j
               PROVE  \/ pos[segments[i]] + Size(segments[i]) <= pos[segments[j]]
                      \/ /\ builder = "jmp_rev" /\ segments[i] = "src" /\ segments[j] = "if"
                         /\ dst - src < Size("src")
    BY DEF SegmentsDisjoint
  <2>1. segments \in Seq(Names) /\ ApartAt(segments, pos)
    BY DEF LayoutInvariant, PlacementOK, Standing
  <2>2. i \in 1 .. Len(segments) /\ j \in 1 .. Len(segments)
    BY <2>1
  <2>3. pos[segments[i]] + Size(segments[i]) <= pos[segments[j]] \/ Close(segments[i], segments[j])
    BY <2>1, <2>2 DEF ApartAt
  <2> QED
    BY <2>3 DEF Close
<1> QED
  BY <1>1, LayoutHolds, PTL

(***************************************************************************)
(* Whatever address mmap returns, the jump at src and the segment at dst   *)
(* end up with the low bits they were given.                               *)
(***************************************************************************)
THEOREM BitsKept == Spec => []LowBitsKept
<1>1. LayoutInvariant => LowBitsKept
  <2> SUFFICES ASSUME LayoutInvariant, step = "done", NEW s \in {"src", DstSegment}
               PROVE  pos[s] % Align = GivenPos(s) % Align
    BY DEF LowBitsKept
  <2>1. Inputs /\ pos \in [Names -> Nat] /\ Moved /\ s \in Fixed
    BY DEF LayoutInvariant, PlacementOK, Standing, Fixed
  <2>2. PICK c \in Int : pos[s] = GivenPos(s) + Align * c
    BY <2>1 DEF Moved
  <2>3. s \in Names /\ GivenPos(s) \in Int
    BY <2>1, GivenFacts
  <2>4. pos[s] \in Int
    BY <2>1, <2>3
  <2>5. Align \in Nat \ {0}
    BY AlignAssumption
  <2> QED
    BY <2>2, <2>3, <2>4, <2>5, ModShift
<1> QED
  BY <1>1, LayoutHolds, PTL

(***************************************************************************)
(* Type correctness: positions stay natural numbers though segments are    *)
(* placed backwards and moved, and no segment of the plan gets lost or     *)
(* changes its place in the list.                                          *)
(***************************************************************************)
THEOREM LayoutTyped == Spec => []LayoutTypeOK
<1>1. LayoutInvariant => LayoutTypeOK
  <2> SUFFICES ASSUME LayoutInvariant PROVE LayoutTypeOK
    OBVIOUS
  <2>1. Inputs /\ pos \in [Names -> Nat] /\ segments \in Seq(Names) /\ PlanOK /\ PlacementOK
    BY PlanFacts DEF LayoutInvariant, PlacementOK, Standing
  <2>2. ASSUME step = "add" PROVE (segments \o loose) \o plan = Plan
    <3>1. PICK p, q : p = Plan /\ q = (segments \o loose) \o plan
      OBVIOUS
    <3>2. Order
      BY <2>1, <2>2 DEF PlacementOK, Adding
    <3>3. PICK a, n, b : a = Len(segments) /\ n = Len(loose) /\ b = Len(plan)
      OBVIOUS
    <3>4. a \in Nat /\ n \in Nat /\ b \in Nat /\ Len(p) = a + n + b /\ p \in Seq(Names)
      BY <2>1, <3>1, <3>2, <3>3 DEF Order, PlanOK
    <3>5. PICK r : r = segments \o loose
      OBVIOUS
    <3>6. /\ r \in Seq(Names) /\ Len(r) = a + n
          /\ \A i \in 1 .. a : r[i] = segments[i]
          /\ \A i \in 1 .. n : r[a + i] = loose[i]
      BY <2>1, <3>2, <3>3, <3>5 DEF Order
    <3>7. /\ q \in Seq(Names) /\ Len(q) = (a + n) + b
          /\ \A i \in 1 .. a + n : q[i] = r[i]
          /\ \A i \in 1 .. b : q[(a + n) + i] = plan[i]
      BY <3>1, <3>2, <3>3, <3>5, <3>6 DEF Order
    <3>8. ASSUME NEW i \in 1 .. (a + n) + b PROVE q[i] = p[i]
      <4>1. CASE i \in 1 .. a
        <5>1. i \in 1 .. a + n
          BY <3>4, <4>1
        <5> QED
          BY <3>1, <3>2, <3>3, <3>6, <3>7, <4>1, <5>1 DEF Order
      <4>2. CASE i \in a + 1 .. a + n
        <5>1. i - a \in 1 .. n /\ i \in 1 .. a + n /\ i = a + (i - a)
          BY <3>4, <4>2
        <5>2. PICK k \in 1 .. n : i = a + k
          BY <5>1
        <5> QED
          BY <3>1, <3>2, <3>3, <3>6, <3>7, <5>1, <5>2 DEF Order
      <4>3. CASE i \in (a + n) + 1 .. (a + n) + b
        <5>1. i - (a + n) \in 1 .. b /\ i = (a + n) + (i - (a + n))
          BY <3>4, <4>3
        <5>2. PICK k \in 1 .. b : i = (a + n) + k
          BY <5>1
        <5> QED
          BY <3>1, <3>2, <3>3, <3>7, <5>2 DEF Order
      <4> QED
        BY <3>4, <4>1, <4>2, <4>3
    <3>9. q = p
      BY <3>4, <3>7, <3>8
    <3> QED
      BY <3>1, <3>9
  <2>3. ASSUME step \notin {"add", "aborted"} PROVE (segments \o <<>>) \o plan = Plan
    <3>1. segments = Plan /\ plan = <<>>
      BY <2>1, <2>3 DEF LayoutInvariant, PlacementOK
    <3>2. segments \o <<>> = segments
      BY <2>1
    <3> QED
      BY <2>1, <3>1, <3>2
  <2>4. step # "aborted" => (segments \o (IF step = "add" THEN loose ELSE <<>>)) \o plan = Plan
    BY <2>2, <2>3
  <2> QED
    BY <2>1, <2>4 DEF LayoutTypeOK, LayoutInvariant, MemOK, JumpOK, Inputs
<1> QED
  BY <1>1, LayoutHolds, PTL

-----------------------------------------------------------------------------
\* q is the number of [S, S + A) with the low bits of t.
LEMMA UniqueInWindow ==
  ASSUME NEW A \in Nat \ {0}, NEW S \in Int, NEW t \in Int, NEW q \in Int, NEW k \in Int, t - q = A * k,
         S <= t, t < S + A, S <= q, q < S + A
  PROVE  q = t
<1>1. A * k < A /\ A * k > -A
  <2>1. t - q < A /\ t - q > -A
    OBVIOUS
  <2> QED
    BY <2>1
<1>2. k = 0
  BY <1>1, SmallMultiple
<1>3. t - q = 0
  BY <1>2
<1> QED
  BY <1>3

(***************************************************************************)
(* "expecting a jne at aligned src address" (t1_run_jne): get_aligned_ptr  *)
(* finds the jump again from the address it was made for, also when the    *)
(* area crosses a multiple of Align.                                       *)
(***************************************************************************)
THEOREM JneFound == Spec => []JneAtAlignedSrc
<1>1. LayoutInvariant => JneAtAlignedSrc
  <2> SUFFICES ASSUME LayoutInvariant, step = "done", builder = "jne"
               PROVE  GetAlignedPtr(src) = pos["src"] + JneOffset
    BY DEF JneAtAlignedSrc
  <2>1. /\ Inputs /\ pos \in [Names -> Nat] /\ segments \in Seq(Names) /\ PlanOK /\ PlacementOK /\ segments = Plan
        /\ Moved /\ ApartAt(segments, pos) /\ Standing
    BY PlanFacts DEF LayoutInvariant, PlacementOK, Standing
  <2>2. segments[1] = "entry"
    <3>1. CASE Forward
      BY <2>1, <3>1 DEF Plan, BranchesPlan, EndPlan
    <3>2. CASE ~Forward
      BY <2>1, <3>2 DEF Plan, BranchesPlan, EndPlan
    <3> QED
      BY <3>1, <3>2
  <2>3. /\ segments # <<>> /\ Last(segments) = "end_else" /\ "end_else" \in Names
        /\ GetSize \in Nat /\ End("src") <= End("end_else") /\ End("src") \in Nat
    <3>1. "src" \in Range(segments)
      BY <2>1 DEF PlanOK, Range
    <3> QED
      BY <2>1, <3>1, AreaFacts
  <2>4. PICK A, S, u, t, E : /\ A = Align /\ S = pos["entry"] /\ u = pos["src"] /\ t = u + 2
                             /\ E = End(Last(segments))
    OBVIOUS
  <2>5. /\ A \in Nat \ {0} /\ S \in Nat /\ u \in Nat /\ t \in Nat
    BY <2>1, <2>4, AlignAssumption, SMTT(30) DEF Names
  <2>6. Size("src") = 4 /\ u + 4 <= E /\ E \in Nat
    <3>1. Kind("src") = "JneEaxZero"
      BY DEF Kind
    <3>2. Size("src") = 4
      BY <3>1 DEF Size, KindSize
    <3>3. End("src") = u + 4
      BY <2>4, <3>2 DEF End
    <3>4. End("end_else") \in Nat
      BY <2>1, <2>3, Sizes DEF End
    <3> QED
      BY <2>3, <2>4, <3>2, <3>3, <3>4
  <2>7. PICK c \in Int : \A s \in Fixed : pos[s] = GivenPos(s) + A * c
    BY <2>1, <2>4 DEF Moved
  <2>8. DstSegment = "else" /\ Fixed = {"src", "else"} /\ GivenPos("src") = src - 2 /\ GivenPos("else") = dst
    BY DEF DstSegment, Fixed, GivenPos, JneOffset
  <2>9. PICK w, v : w = A * c /\ v = pos["else"]
    OBVIOUS
  <2>10. w \in Int /\ v \in Nat /\ u = (src - 2) + w /\ v = dst + w /\ src \in Nat /\ dst \in Nat
    BY <2>1, <2>4, <2>5, <2>7, <2>8, <2>9, GivenFacts DEF Names
  <2>11. t = src + w
    BY <2>4, <2>10
  <2>12. S <= u
    <3>1. PICK i \in 1 .. Len(segments) : segments[i] = "src"
      BY <2>1 DEF PlanOK
    <3>2. 1 \in 1 .. Len(segments) /\ i # 1 /\ 1 < i
      <4>1. Len(segments) \in Nat /\ Len(segments) >= 8
        BY <2>1 DEF PlanOK
      <4>2. i # 1
        BY <2>2, <3>1
      <4> QED
        BY <4>1, <4>2
    <3>3. S < u
      BY <2>1, <2>2, <2>4, <3>1, <3>2 DEF ApartAt
    <3> QED
      BY <2>5, <3>3
  <2>13. A > 600 /\ src - dst < A - 600
    <3>1. PICK d \in Distances : d = dst - src
      BY <2>1 DEF Inputs
    <3>2. d \in Int /\ d - 600 > -A /\ d + 600 < A
      BY <2>1, <2>4, AddressAssumption DEF Inputs
    <3> QED
      BY <2>5, <2>10, <3>1, <3>2
  <2>14. t < S + A
    <3>1. PICK s \in Fixed : S >= pos[s] - 60
      BY <2>1, <2>2, <2>3, <2>4 DEF Standing
    <3>2. S >= u - 60 \/ S >= v - 60
      BY <2>4, <2>8, <2>9, <3>1
    <3> QED
      BY <2>4, <2>5, <2>10, <2>13, <3>2
  <2>15. PICK r, b : r = src % A /\ b = Base(pos["entry"])
    OBVIOUS
  <2>16. r \in Nat /\ r < A /\ b \in Nat /\ b <= S /\ S < b + A
    BY <2>4, <2>5, <2>10, <2>15, DivMod, BaseFacts
  <2>17. PICK x, y, z \in Int : b = A * x /\ src = A * y + r /\ z = y + c
    <3>1. PICK x \in Int : b = A * x
      BY <2>4, <2>5, <2>15, BaseFacts
    <3>2. PICK y \in Int : y = src \div A
      BY <2>5, <2>10, DivMod
    <3>3. src = A * y + r
      BY <2>5, <2>10, <2>15, <3>2, DivMod
    <3>4. y + c \in Int
      OBVIOUS
    <3> QED
      BY <3>1, <3>3, <3>4
  <2>18. PICK q : q = IF r + b < S THEN r + b + A ELSE r + b
    OBVIOUS
  <2>19. q \in Int /\ S <= q /\ q < S + A
    BY <2>5, <2>16, <2>18
  <2>20. \E k \in Int : t - q = A * k
    <3>1. A * (z - x) = A * y + A * c - A * x /\ A * (z - x - 1) = A * y + A * c - A * x - A
      BY <2>5, <2>17
    <3>2. z - x \in Int /\ z - x - 1 \in Int
      BY <2>17
    <3>3. PICK m, n : m = A * y /\ n = A * c
      OBVIOUS
    <3>4. m \in Int /\ n \in Int
      BY <2>5, <2>17, <3>3
    <3>5. t = m + r + n
      BY <2>9, <2>10, <2>11, <2>17, <3>3, <3>4
    <3>6. CASE q = r + b
      <4>1. t - q = m + n - b
        BY <2>16, <3>4, <3>5, <3>6
      <4>2. t - q = A * (z - x)
        BY <2>17, <3>1, <3>3, <4>1
      <4> QED
        BY <3>2, <4>2
    <3>7. CASE q = r + b + A
      <4>1. t - q = m + n - b - A
        BY <2>5, <2>16, <3>4, <3>5, <3>7
      <4>2. t - q = A * (z - x - 1)
        BY <2>17, <3>1, <3>3, <4>1
      <4> QED
        BY <3>2, <4>2
    <3> QED
      BY <2>18, <3>6, <3>7
  <2>21. q = t
    <3>1. PICK k \in Int : t - q = A * k
      BY <2>20
    <3>2. S <= t /\ S \in Int /\ t \in Int
      BY <2>4, <2>5, <2>12
    <3> QED
      BY <2>5, <2>14, <2>19, <3>1, <3>2, UniqueInWindow
  <2>22. GetAlignedPtr(src) = IF q < S \/ q > E THEN 0 ELSE q
    BY <2>2, <2>4, <2>15, <2>18 DEF GetAlignedPtr, Nullptr
  <2>23. ~(q < S) /\ ~(q > E)
    BY <2>4, <2>5, <2>6, <2>19, <2>21
  <2> QED
    BY <2>4, <2>21, <2>22, <2>23 DEF JneOffset
<1> QED
  BY <1>1, LayoutHolds, PTL

LEMMA RoundUpGrows == ASSUME NEW n \in Nat PROVE RoundUp(n) \in Nat /\ RoundUp(n) >= n
<1>1. PICK P, x : P = PageSize /\ x = (n + P) - 1
  OBVIOUS
<1>2. P \in Nat \ {0} /\ x \in Nat
  BY <1>1, AlignAssumption
<1>3. PICK q, r, w : q = x \div P /\ r = x % P /\ w = P * q
  OBVIOUS
<1>4. q \in Int /\ r \in Nat /\ r < P /\ x = w + r
  BY <1>2, <1>3, DivMod
<1>5. q \in Nat
  BY <1>2, <1>3
<1>6. w \in Nat /\ q * P = w
  BY <1>2, <1>3, <1>5
<1>7. RoundUp(n) = w
  <2>1. n + PageSize - 1 = x
    BY <1>1, <1>2
  <2> QED
    BY <1>1, <1>3, <1>6, <2>1 DEF RoundUp
<1>8. w >= n
  BY <1>1, <1>2, <1>4, <1>6
<1> QED
  BY <1>6, <1>7, <1>8

(***************************************************************************)
(* AlignedMem::allocate and get_size: the area is written outside the      *)
(* mapping in the two cases AreaMapped names and in no other, for every    *)
(* src, dst, alignment and page size.                                      *)
(***************************************************************************)
THEOREM AreaInMapping == Spec => []AreaMapped
<1>1. LayoutInvariant => AreaMapped
  <2> SUFFICES ASSUME LayoutInvariant, step \in {"fill", "finalize", "write", "done"}
               PROVE  /\ AreaStart < mem.addr <=> AreaStart % Align = 0 /\ mem.addr % Align # 0
                      /\ AreaEnd > mem.addr + RoundUp(mem.size) => Slack > Align
    BY DEF AreaMapped
  <2>1. PlacementOK /\ segments = Plan /\ Inputs /\ pos \in [Names -> Nat]
    BY DEF LayoutInvariant, PlacementOK, Standing
  <2>2. /\ mem.addr \in Mems /\ mem.size = Align + GetSize /\ InMapping(mem.addr, pos[segments[1]])
    BY DEF LayoutInvariant, MemOK
  <2>3. /\ segments[1] \in Names /\ Last(segments) = "end_else" /\ "end_else" \in Names
        /\ GetSize \in Nat /\ pos[segments[1]] \in Nat
        /\ \A s \in Range(segments) : End(s) <= End(Last(segments)) /\ End(s) \in Nat
        /\ Last(segments) \in Range(segments)
    BY <2>1, AreaFacts
  <2>4. PICK m, S, E, g, x, y, A, z : /\ m = mem.addr /\ S = pos[segments[1]] /\ E = End(Last(segments)) /\ g = GetSize
                                      /\ x = Size(segments[1]) /\ y = Size(Last(segments)) /\ A = Align
                                      /\ z = pos[Last(segments)]
    OBVIOUS
  <2>5. /\ m \in Nat /\ S \in Nat /\ g \in Nat /\ x \in Nat /\ y \in Nat /\ A \in Nat \ {0} /\ x <= 121 /\ y <= 121
        /\ z \in Nat
    BY <2>1, <2>2, <2>3, <2>4, Sizes, AlignAssumption, AddressAssumption
  <2>6. S < m + A /\ (S < m <=> S % A = 0 /\ m % A # 0)
    BY <2>2, <2>4 DEF InMapping
  <2>7. AreaStart = S
    BY <2>4 DEF AreaStart
  <2>8. E = S + x + g + y
    <3>1. E = z + y /\ g = z - (S + x)
      BY <2>4 DEF End, GetSize
    <3> QED
      BY <2>5, <3>1
  <2>9. AreaEnd = E
    <3>1. PICK T : T = {End(s) : s \in Range(segments)}
      OBVIOUS
    <3>2. E \in T /\ (\A v \in T : E >= v) /\ T \subseteq Nat
      BY <2>3, <2>4, <3>1
    <3>3. PICK e : e = CHOOSE u \in T : \A v \in T : u >= v
      OBVIOUS
    <3>4. e \in T /\ \A v \in T : e >= v
      BY <3>2, <3>3
    <3>5. e >= E /\ E >= e /\ e \in Nat /\ E \in Nat
      BY <3>2, <3>4
    <3>6. e = E
      BY <3>5
    <3> QED
      BY <3>1, <3>3, <3>6 DEF AreaEnd, Max
  <2>10. A > 600
    <3>1. PICK d \in Distances : d = dst - src
      BY <2>1 DEF Inputs
    <3>2. d \in Int /\ d - 600 > -A /\ d + 600 < A
      BY <2>1, <2>4, AddressAssumption DEF Inputs
    <3> QED
      BY <2>5, <3>2
  <2>11. ASSUME E > m + RoundUp(mem.size) PROVE Slack > A
    <3>1. PICK k : k = RoundUp(mem.size)
      OBVIOUS
    <3>2. k \in Nat /\ k >= A + g
      <4>1. PICK n : n = mem.size
        OBVIOUS
      <4>2. n = A + g /\ n \in Nat
        BY <2>2, <2>4, <2>5, <4>1
      <4> QED
        BY <3>1, <4>1, <4>2, RoundUpGrows
    <3>3. S + x + y > m + A
      BY <2>5, <2>8, <2>11, <3>1, <3>2
    <3>4. S - m \in Nat /\ S - m < A
      BY <2>5, <2>6, <2>10, <3>3
    <3>5. (S - m) % A = S - m
      <4>1. PICK q : q = S - m
        OBVIOUS
      <4>2. Splits(q, A, 0, q)
        BY <2>5, <3>4, <4>1 DEF Splits
      <4>3. q \in Int /\ q \in Nat /\ q < A /\ 0 \in Int
        BY <3>4, <4>1
      <4>4. q % A = q
        BY <2>5, <4>2, <4>3, RemainderIs
      <4> QED
        BY <4>1, <4>4
    <3>6. Slack = (S - m) + x + y
      BY <2>4, <2>7, <3>5 DEF Slack
    <3> QED
      BY <2>5, <3>3, <3>6
  <2> QED
    BY <2>4, <2>6, <2>7, <2>9, <2>11
<1> QED
  BY <1>1, LayoutHolds, PTL

-----------------------------------------------------------------------------
(***************************************************************************)
(* The distances that are supported.                                       *)
(***************************************************************************)
\* The two segments with given positions in the order they are added in, the
\* number and the size of the ones between them, and the room there is.
First == IF Forward THEN "src" ELSE DstSegment
Second == IF Forward THEN DstSegment ELSE "src"
FirstIndex == CASE builder = "jne" -> IF Forward THEN 4 ELSE 6
                [] builder = "jmp" -> IF Forward THEN 2 ELSE 3
                [] builder = "jmp_rev" -> IF Forward THEN 2 ELSE 1
SecondIndex == CASE builder = "jne" -> IF Forward THEN 7 ELSE 8
                 [] builder = "jmp" -> IF Forward THEN 5 ELSE 6
                 [] builder = "jmp_rev" -> IF Forward THEN 3 ELSE 6
MidLen == SecondIndex - FirstIndex - 1
MidSize == CASE builder = "jne" -> IF Forward THEN 7 ELSE 5
             [] builder = "jmp" -> IF Forward THEN 10 ELSE IF indirect THEN 15 ELSE 6
             [] builder = "jmp_rev" -> IF Forward THEN 0 ELSE IF indirect THEN 25 ELSE 16
Gap == GivenPos(Second) - (GivenPos(First) + Size(First))

\* The assertions of place_segment hold for the second one.
Room ==
  /\ GivenPos(First) < GivenPos(Second)
  /\ MidLen # 0 => MidSize <= Gap /\ (Gap - MidSize) \div MidLen < 10000

\* The assertion of SegJump holds for every short jump.
Reach ==
  IF builder = "jne"
  THEN IF Forward THEN (Gap - 7) \div 2 <= 116 ELSE src - dst <= 107
  ELSE indirect \/ dst - src - 2 \in ShortRange

\* What the distances of the short jumps of setup_jne_shadow depend on: the
\* segments placed before the first one, between the two and behind them.
BeforeFirst == builder = "jne" /\ ~Forward => pos["if"] = pos["else"] - 14
Between == builder = "jne" /\ Forward => pos["goto_end_if"] = pos["else"] - (2 + ((Gap - 7) \div 2))
BehindSecond ==
  builder = "jne" =>
    IF Forward
    THEN /\ pos["goto_end_else"] = pos["else"] + 7
         /\ pos["end_if"] = pos["else"] + 11 /\ pos["end_else"] = pos["else"] + 134
    ELSE pos["goto_if"] = pos["src"] + 6

\* place_segment has accepted the second one.
SecondPlaced == \E i \in 1 .. Len(segments) : segments[i] = Second

SupportInvariant ==
  /\ LayoutInvariant
  /\ step = "add" /\ segments # <<>> => BeforeFirst
  /\ step = "add" /\ SecondPlaced => Room /\ Between
  /\ step \in {"map", "move", "fill", "finalize"} => Room /\ BeforeFirst /\ Between /\ BehindSecond
  /\ step = "aborted" => ~Supported
  /\ step \in {"write", "done"} => Supported

LEMMA SizeIs ==
  ASSUME Inputs
  PROVE  /\ Size("if") = 5 /\ Size("else") = 5 /\ Size("goto_src") = 5 /\ Size("goto_if") = 2
         /\ Size("end_if") = 121 /\ Size("end_else") = 121
         /\ (builder = "jne" \/ indirect) => Size("src") = 4
         /\ (builder # "jne" /\ ~indirect) => Size("src") = 2
         /\ Size("entry") = IF indirect THEN 10 ELSE 1
         /\ (builder = "jne" /\ Forward) => Size("goto_end_if") = 2 /\ Size("goto_end_else") = 2
         /\ ~(builder = "jne" /\ Forward) => Size("goto_end_if") = 5 /\ Size("goto_end_else") = 5
<1>1. /\ Kind("if") = "EaxWrite" /\ Kind("else") = "EaxWrite" /\ Kind("goto_src") = "LongJump" /\ Kind("goto_if") = "Jump"
      /\ Kind("end_if") = "Retq" /\ Kind("end_else") = "Retq"
  BY DEF Kind
<1>2. /\ builder = "jne" => Kind("src") = "JneEaxZero"
      /\ (builder # "jne" /\ indirect) => Kind("src") = "JumpR13"
      /\ (builder # "jne" /\ ~indirect) => Kind("src") = "Jump"
  BY DEF Kind
<1>3. Kind("entry") = IF indirect THEN "SetPosInReg" ELSE "Nop"
  BY DEF Kind
<1>4. /\ (builder = "jne" /\ Forward) => Kind("goto_end_if") = "Jump" /\ Kind("goto_end_else") = "Jump"
      /\ ~(builder = "jne" /\ Forward) => Kind("goto_end_if") = "LongJump" /\ Kind("goto_end_else") = "LongJump"
  BY DEF Kind
<1> QED
  BY <1>1, <1>2, <1>3, <1>4 DEF Size, KindSize

\* The plans, written out.
PlanEntries ==
  LET p == Plan
  IN /\ builder = "jne" /\ Forward =>
          /\ Len(p) = 10
          /\ p[1] = "entry" /\ p[2] = "pretest" /\ p[3] = "goto_src" /\ p[4] = "src" /\ p[5] = "if"
          /\ p[6] = "goto_end_if" /\ p[7] = "else" /\ p[8] = "goto_end_else" /\ p[9] = "end_if" /\ p[10] = "end_else"
     /\ builder = "jne" /\ ~Forward =>
          /\ Len(p) = 11
          /\ p[1] = "entry" /\ p[2] = "pretest" /\ p[3] = "goto_src" /\ p[4] = "if" /\ p[5] = "goto_end_if"
          /\ p[6] = "else" /\ p[7] = "goto_end_else" /\ p[8] = "src" /\ p[9] = "goto_if" /\ p[10] = "end_if"
          /\ p[11] = "end_else"
     /\ builder # "jne" /\ Forward =>
          /\ Len(p) = 8
          /\ p[1] = "entry" /\ p[2] = "src" /\ p[3] = "if" /\ p[4] = "goto_end_if" /\ p[5] = "else"
          /\ p[6] = "goto_end_else" /\ p[7] = "end_if" /\ p[8] = "end_else"
     /\ builder # "jne" /\ ~Forward =>
          /\ Len(p) = 8
          /\ p[1] = "if" /\ p[2] = "goto_end_if" /\ p[3] = "else" /\ p[4] = "goto_end_else" /\ p[5] = "entry"
          /\ p[6] = "src" /\ p[7] = "end_if" /\ p[8] = "end_else"

LEMMA PlanIs == ASSUME Inputs PROVE PlanEntries
<1>1. PICK p : p = Plan
  OBVIOUS
<1>2. builder = "jne" /\ Forward =>
        /\ Len(p) = 10
        /\ p[1] = "entry" /\ p[2] = "pretest" /\ p[3] = "goto_src" /\ p[4] = "src" /\ p[5] = "if"
        /\ p[6] = "goto_end_if" /\ p[7] = "else" /\ p[8] = "goto_end_else" /\ p[9] = "end_if" /\ p[10] = "end_else"
  BY <1>1 DEF Plan, BranchesPlan, EndPlan
<1>3. builder = "jne" /\ ~Forward =>
        /\ Len(p) = 11
        /\ p[1] = "entry" /\ p[2] = "pretest" /\ p[3] = "goto_src" /\ p[4] = "if" /\ p[5] = "goto_end_if"
        /\ p[6] = "else" /\ p[7] = "goto_end_else" /\ p[8] = "src" /\ p[9] = "goto_if" /\ p[10] = "end_if"
        /\ p[11] = "end_else"
  BY <1>1 DEF Plan, BranchesPlan, EndPlan
<1>4. builder # "jne" /\ Forward =>
        /\ Len(p) = 8
        /\ p[1] = "entry" /\ p[2] = "src" /\ p[3] = "if" /\ p[4] = "goto_end_if" /\ p[5] = "else"
        /\ p[6] = "goto_end_else" /\ p[7] = "end_if" /\ p[8] = "end_else"
  BY <1>1 DEF Plan, BranchesPlan, EndPlan
<1>5. builder # "jne" /\ ~Forward =>
        /\ Len(p) = 8
        /\ p[1] = "if" /\ p[2] = "goto_end_if" /\ p[3] = "else" /\ p[4] = "goto_end_else" /\ p[5] = "entry"
        /\ p[6] = "src" /\ p[7] = "end_if" /\ p[8] = "end_else"
  BY <1>1 DEF Plan, BranchesPlan, EndPlan
<1> QED
  BY <1>1, <1>2, <1>3, <1>4, <1>5 DEF PlanEntries

\* Where the two are in the plan.
FixedAt ==
  /\ FirstIndex \in 1 .. Len(Plan) /\ SecondIndex \in 1 .. Len(Plan) /\ FirstIndex < SecondIndex
  /\ Plan[FirstIndex] = First /\ Plan[SecondIndex] = Second /\ First # Second /\ Fixed = {First, Second}
  /\ \A i \in 1 .. Len(Plan) : Plan[i] \in Fixed => i = FirstIndex \/ i = SecondIndex

LEMMA FixedIs == ASSUME Inputs PROVE FixedAt
<1>1. PICK p, n : p = Plan /\ n = Len(Plan)
  OBVIOUS
<1>2. PlanEntries /\ builder \in {"jmp", "jmp_rev", "jne"}
  BY PlanIs DEF Inputs, Builders
<1>3. Fixed = {First, Second} /\ First # Second
  BY DEF Fixed, First, Second, DstSegment
<1>4. /\ FirstIndex \in 1 .. n /\ SecondIndex \in 1 .. n /\ FirstIndex < SecondIndex
      /\ p[FirstIndex] = First /\ p[SecondIndex] = Second
  BY <1>1, <1>2 DEF PlanEntries, FirstIndex, SecondIndex, First, Second, DstSegment
<1>5. \A i, j \in 1 .. n : p[i] = p[j] => i = j
  BY <1>1, PlanFacts DEF PlanOK
<1>6. ASSUME NEW i \in 1 .. n, p[i] \in Fixed PROVE i = FirstIndex \/ i = SecondIndex
  BY <1>3, <1>4, <1>5, <1>6
<1> QED
  BY <1>1, <1>3, <1>4, <1>6 DEF FixedAt

LEMMA GivenIs ==
  ASSUME Inputs
  PROVE  /\ builder = "jne" => GivenPos("src") = src - 2 /\ GivenPos("else") = dst /\ DstSegment = "else"
         /\ builder = "jmp" => GivenPos("src") = src /\ GivenPos("else") = dst /\ DstSegment = "else"
         /\ builder = "jmp_rev" => GivenPos("src") = src /\ GivenPos("if") = dst /\ DstSegment = "if"
         /\ src \in Int /\ dst \in Int
<1>1. src \in Int /\ dst \in Int
  BY GivenFacts
<1> QED
  BY <1>1 DEF GivenPos, DstSegment, JneOffset

LEMMA HalfBelow == ASSUME NEW x \in Int, NEW c \in Int PROVE (x \div 2 < c <=> x < 2 * c) /\ (x \div 2 <= c <=> x <= 2 * c + 1)
OBVIOUS

LEMMA QuarterBelow == ASSUME NEW x \in Int, NEW c \in Int PROVE x \div 4 < c <=> x < 4 * c
OBVIOUS

\* The distances supported are the ones for which every assertion holds.
LEMMA SupportedIs == ASSUME Inputs PROVE Supported <=> Room /\ Reach
<1>1. PICK s, t \in Int : s = src /\ t = dst
  BY GivenIs
<1>2. builder \in {"jmp", "jmp_rev", "jne"}
  BY DEF Inputs, Builders
<1>3. CASE builder = "jne" /\ Forward
  <2>1. s < t /\ First = "src" /\ Second = "else" /\ MidLen = 2 /\ MidSize = 7
    BY <1>1, <1>3, GivenIs DEF Forward, First, Second, MidLen, MidSize, FirstIndex, SecondIndex
  <2>2. GivenPos(First) = s - 2 /\ GivenPos(Second) = t /\ Gap = t - ((s - 2) + 4)
    BY <1>1, <1>3, <2>1, GivenIs, SizeIs DEF Gap
  <2>3. PICK g \in Int : g = Gap - 7 /\ g = t - s - 9
    BY <1>1, <2>2
  <2>4. Room <=> 0 <= g /\ g \div 2 < 10000
    <3>1. s - 2 < t /\ (7 <= Gap <=> 0 <= g)
      BY <1>1, <2>1, <2>2, <2>3
    <3> QED
      BY <2>1, <2>2, <2>3, <3>1 DEF Room
  <2>5. Reach <=> g \div 2 <= 116
    BY <1>3, <2>3 DEF Reach
  <2>6. Supported <=> t - s \in 9 .. 242
    BY <1>1, <1>3, SMTT(60) DEF Supported
  <2>7. 0 <= g /\ g < 20000 /\ g <= 233 <=> t - s \in 9 .. 242
    BY <1>1, <2>3
  <2>8. (g \div 2 < 10000 <=> g < 2 * 10000) /\ (g \div 2 <= 116 <=> g <= 2 * 116 + 1)
    BY HalfBelow
  <2> QED
    BY <2>4, <2>5, <2>6, <2>7, <2>8
<1>4. CASE builder = "jne" /\ ~Forward
  <2>1. ~(s < t) /\ First = "else" /\ Second = "src" /\ MidLen = 1 /\ MidSize = 5
    BY <1>1, <1>4, GivenIs DEF Forward, First, Second, MidLen, MidSize, FirstIndex, SecondIndex
  <2>2. GivenPos(First) = t /\ GivenPos(Second) = s - 2 /\ Gap = (s - 2) - (t + 5)
    BY <1>1, <1>4, <2>1, GivenIs, SizeIs DEF Gap
  <2>3. PICK g \in Int : g = Gap - 5 /\ g = s - t - 12
    BY <1>1, <2>2
  <2>4. Room <=> t < s - 2 /\ 0 <= g /\ g \div 1 < 10000
    <3>1. 5 <= Gap <=> 0 <= g
      BY <1>1, <2>1, <2>2, <2>3
    <3> QED
      BY <2>1, <2>2, <2>3, <3>1 DEF Room
  <2>5. Reach <=> s - t <= 107
    BY <1>1, <1>4 DEF Reach
  <2>6. Supported <=> -(t - s) \in 12 .. 107
    BY <1>1, <1>4, SMTT(60) DEF Supported
  <2>7. g \div 1 = g
    OBVIOUS
  <2>8. t < s - 2 /\ 0 <= g /\ g < 10000 /\ s - t <= 107 <=> -(t - s) \in 12 .. 107
    BY <1>1, <2>3
  <2> QED
    BY <2>4, <2>5, <2>6, <2>7, <2>8
<1>5. CASE builder = "jmp" /\ Forward
  <2>0. PICK z \in {2, 4} : z = Size("src") /\ (z = 4 <=> indirect)
    BY <1>5, SizeIs DEF Inputs
  <2>1. s < t /\ First = "src" /\ Second = "else" /\ MidLen = 2 /\ MidSize = 10
    BY <1>1, <1>5, GivenIs DEF Forward, First, Second, MidLen, MidSize, FirstIndex, SecondIndex
  <2>2. GivenPos(First) = s /\ GivenPos(Second) = t /\ Gap = t - (s + z)
    BY <1>1, <1>5, <2>0, <2>1, GivenIs DEF Gap
  <2>3. PICK g \in Int : g = Gap - 10 /\ g = t - s - z - 10
    BY <1>1, <2>2
  <2>4. Room <=> 0 <= g /\ g \div 2 < 10000
    <3>1. 10 <= Gap <=> 0 <= g
      BY <1>1, <2>0, <2>2, <2>3
    <3> QED
      BY <2>1, <2>2, <2>3, <3>1 DEF Room
  <2>5. Reach <=> z = 4 \/ (t - s - 2 >= -127 /\ t - s - 2 <= 127)
    BY <1>1, <1>5, <2>0 DEF Reach, ShortRange
  <2>6. ASSUME indirect PROVE Supported <=> t - s >= 14 /\ t - s <= 20013
    <3> DEFINE Within(x) == x \in 14 .. 20013
    <3>1. Supported <=> Within(t - s)
      BY <1>1, <1>5, <2>6, SMTT(60) DEF Supported
    <3>2. ASSUME NEW x \in Int PROVE Within(x) <=> x >= 14 /\ x <= 20013
      BY SMTT(60)
    <3> HIDE DEF Within
    <3>3. PICK x \in Int : x = t - s
      OBVIOUS
    <3> QED
      BY <3>1, <3>2, <3>3
  <2>7. ASSUME ~indirect PROVE Supported <=> t - s \in 12 .. 129
    BY <1>1, <1>5, <2>7, SMTT(60) DEF Supported
  <2>8. g \div 2 < 10000 <=> g < 2 * 10000
    BY HalfBelow
  <2>9. ASSUME z = 4 PROVE 0 <= g /\ g < 20000 <=> t - s >= 14 /\ t - s <= 20013
    BY <2>1, <2>3, <2>9
  <2>10. ASSUME z = 2
         PROVE  0 <= g /\ g < 20000 /\ t - s - 2 >= -127 /\ t - s - 2 <= 127 <=> t - s \in 12 .. 129
    BY <2>1, <2>3, <2>10
  <2>11. CASE z = 4
    BY <2>0, <2>4, <2>5, <2>6, <2>8, <2>9, <2>11
  <2>12. CASE z = 2
    BY <2>0, <2>4, <2>5, <2>7, <2>8, <2>10, <2>12
  <2> QED
    BY <2>0, <2>11, <2>12
<1>6. CASE builder = "jmp" /\ ~Forward
  <2>0. PICK z \in {6, 15} : z = MidSize /\ (z = 15 <=> indirect)
    BY <1>6 DEF MidSize, Inputs
  <2>1. ~(s < t) /\ First = "else" /\ Second = "src" /\ MidLen = 2
    BY <1>1, <1>6, GivenIs DEF Forward, First, Second, MidLen, FirstIndex, SecondIndex
  <2>2. GivenPos(First) = t /\ GivenPos(Second) = s /\ Gap = s - (t + 5)
    BY <1>1, <1>6, <2>1, GivenIs, SizeIs DEF Gap
  <2>3. PICK g \in Int : g = Gap - z /\ g = s - t - 5 - z
    BY <1>1, <2>2
  <2>4. Room <=> t < s /\ 0 <= g /\ g \div 2 < 10000
    <3>1. z <= Gap <=> 0 <= g
      BY <1>1, <2>2, <2>3
    <3> QED
      BY <2>0, <2>1, <2>2, <2>3, <3>1 DEF Room
  <2>5. Reach <=> z = 15 \/ (t - s - 2 >= -127 /\ t - s - 2 <= 127)
    BY <1>1, <1>6, <2>0 DEF Reach, ShortRange
  <2>6. ASSUME indirect PROVE Supported <=> s - t >= 20 /\ s - t <= 20019
    <3> DEFINE Within(x) == x \in 20 .. 20019
    <3>1. Supported <=> Within(-(t - s))
      BY <1>1, <1>6, <2>6, SMTT(60) DEF Supported
    <3>2. ASSUME NEW x \in Int PROVE Within(x) <=> x >= 20 /\ x <= 20019
      BY SMTT(60)
    <3> HIDE DEF Within
    <3>3. PICK x \in Int : x = s - t /\ x = -(t - s)
      OBVIOUS
    <3> QED
      BY <3>1, <3>2, <3>3
  <2>7. ASSUME ~indirect PROVE Supported <=> -(t - s) \in 11 .. 125
    BY <1>1, <1>6, <2>7, SMTT(60) DEF Supported
  <2>8. g \div 2 < 10000 <=> g < 2 * 10000
    BY HalfBelow
  <2>9. ASSUME z = 15 PROVE t < s /\ 0 <= g /\ g < 20000 <=> s - t >= 20 /\ s - t <= 20019
    BY <2>1, <2>3, <2>9
  <2>10. ASSUME z = 6
         PROVE  t < s /\ 0 <= g /\ g < 20000 /\ t - s - 2 >= -127 /\ t - s - 2 <= 127 <=> -(t - s) \in 11 .. 125
    BY <2>1, <2>3, <2>10
  <2>11. CASE z = 15
    BY <2>0, <2>4, <2>5, <2>6, <2>8, <2>9, <2>11
  <2>12. CASE z = 6
    BY <2>0, <2>4, <2>5, <2>7, <2>8, <2>10, <2>12
  <2> QED
    BY <2>0, <2>11, <2>12
<1>7. CASE builder = "jmp_rev" /\ Forward
  <2>1. s < t /\ First = "src" /\ Second = "if" /\ MidLen = 0
    BY <1>1, <1>7, GivenIs DEF Forward, First, Second, MidLen, FirstIndex, SecondIndex
  <2>2. GivenPos(First) = s /\ GivenPos(Second) = t
    BY <1>1, <1>7, <2>1, GivenIs
  <2>3. Room
    BY <2>1, <2>2 DEF Room
  <2>4. Reach <=> indirect \/ (t - s - 2 >= -127 /\ t - s - 2 <= 127)
    BY <1>1, <1>7 DEF Reach, ShortRange
  <2>5. Supported <=> indirect \/ t - s <= 129
    BY <1>1, <1>7, SMTT(60) DEF Supported
  <2> QED
    BY <1>1, <2>1, <2>3, <2>4, <2>5
<1>8. CASE builder = "jmp_rev" /\ ~Forward
  <2>0. PICK z \in {16, 25} : z = MidSize /\ (z = 25 <=> indirect)
    BY <1>8 DEF MidSize, Inputs
  <2>1. ~(s < t) /\ First = "if" /\ Second = "src" /\ MidLen = 4
    BY <1>1, <1>8, GivenIs DEF Forward, First, Second, MidLen, FirstIndex, SecondIndex
  <2>2. GivenPos(First) = t /\ GivenPos(Second) = s /\ Gap = s - (t + 5)
    BY <1>1, <1>8, <2>1, GivenIs, SizeIs DEF Gap
  <2>3. PICK g \in Int : g = Gap - z /\ g = s - t - 5 - z
    BY <1>1, <2>2
  <2>4. Room <=> t < s /\ 0 <= g /\ g \div 4 < 10000
    <3>1. z <= Gap <=> 0 <= g
      BY <1>1, <2>2, <2>3
    <3> QED
      BY <2>0, <2>1, <2>2, <2>3, <3>1 DEF Room
  <2>5. Reach <=> z = 25 \/ (t - s - 2 >= -127 /\ t - s - 2 <= 127)
    BY <1>1, <1>8, <2>0 DEF Reach, ShortRange
  <2>6. ASSUME indirect PROVE Supported <=> s - t >= 30 /\ s - t <= 40029
    <3> DEFINE Within(x) == x \in 30 .. 40029
    <3>1. Supported <=> Within(-(t - s))
      BY <1>1, <1>8, <2>6, SMTT(60) DEF Supported
    <3>2. ASSUME NEW x \in Int PROVE Within(x) <=> x >= 30 /\ x <= 40029
      BY SMTT(60)
    <3> HIDE DEF Within
    <3>3. PICK x \in Int : x = s - t /\ x = -(t - s)
      OBVIOUS
    <3> QED
      BY <3>1, <3>2, <3>3
  <2>7. ASSUME ~indirect PROVE Supported <=> -(t - s) \in 21 .. 125
    BY <1>1, <1>8, <2>7, SMTT(60) DEF Supported
  <2>8. g \div 4 < 10000 <=> g < 4 * 10000
    BY QuarterBelow
  <2>9. ASSUME z = 25 PROVE t < s /\ 0 <= g /\ g < 40000 <=> s - t >= 30 /\ s - t <= 40029
    BY <2>1, <2>3, <2>9
  <2>10. ASSUME z = 16
         PROVE  t < s /\ 0 <= g /\ g < 40000 /\ t - s - 2 >= -127 /\ t - s - 2 <= 127 <=> -(t - s) \in 21 .. 125
    BY <2>1, <2>3, <2>10
  <2>11. CASE z = 25
    BY <2>0, <2>4, <2>5, <2>6, <2>8, <2>9, <2>11
  <2>12. CASE z = 16
    BY <2>0, <2>4, <2>5, <2>7, <2>8, <2>10, <2>12
  <2> QED
    BY <2>0, <2>11, <2>12
<1> QED
  BY <1>2, <1>3, <1>4, <1>5, <1>6, <1>7, <1>8

\* Where place_segment is in the plan when it is called for the first of the
\* two, for the second, and when finalize is called.
LEMMA SecondAt ==
  ASSUME PlacementOK, step = "add", plan # <<>>, pos[Head(plan)] # 0, segments # <<>>
  PROVE  /\ Len(segments) = FirstIndex /\ Len(loose) = MidLen /\ Head(plan) = Second /\ Last(segments) = First
         /\ \A k \in 1 .. MidLen : loose[k] = Plan[FirstIndex + k]
<1>1. Inputs /\ Adding /\ Order /\ segments \in Seq(Names) /\ FixedAt
  BY FixedIs DEF PlacementOK, Standing, Adding
<1>2. PICK a, n, s, f, g : /\ a = Len(segments) /\ n = Len(loose) /\ s = Head(plan) /\ f = FirstIndex /\ g = SecondIndex
                           /\ a \in Nat /\ n \in Nat
  <2>1. Len(segments) \in Nat /\ Len(loose) \in Nat
    BY <1>1 DEF Order
  <2> QED
    BY <2>1
<1>3. s \in Names /\ s = Plan[a + n + 1] /\ a + n + 1 \in 1 .. Len(Plan) /\ pos[s] = GivenPos(s)
  BY <1>2, HeadFacts
<1>4. s \in Fixed
  BY <1>1, <1>2, <1>3, GivenFacts
<1>5. a \in 1 .. a /\ a \in 1 .. Len(Plan) /\ segments[a] = Plan[a] /\ Last(segments) = Plan[a] /\ Plan[a] \in Fixed
  <2>1. a \in 1 .. a /\ Len(Plan) \in Nat
    BY <1>1, <1>2, PlanFacts DEF PlanOK
  <2>2. a \in 1 .. Len(Plan)
    BY <1>2, <1>3, <2>1
  <2> QED
    BY <1>1, <1>2, <2>1, <2>2 DEF Order, Adding, Last
<1>6. f \in Int /\ g \in Int /\ f < g /\ (a = f \/ a = g) /\ (a + n + 1 = f \/ a + n + 1 = g)
  BY <1>1, <1>2, <1>3, <1>4, <1>5 DEF FixedAt
<1>7. a = f /\ a + n + 1 = g /\ n = g - f - 1
  BY <1>2, <1>6
<1>8. n = MidLen /\ s = Second /\ Plan[a] = First
  BY <1>1, <1>2, <1>3, <1>7 DEF FixedAt, MidLen
<1>9. ASSUME NEW k \in 1 .. n PROVE loose[k] = Plan[f + k]
  BY <1>1, <1>2, <1>7 DEF Order
<1> QED
  BY <1>2, <1>5, <1>7, <1>8, <1>9

LEMMA FirstAt ==
  ASSUME PlacementOK, step = "add", plan # <<>>, pos[Head(plan)] # 0, segments = <<>>
  PROVE  /\ Len(loose) = FirstIndex - 1 /\ Head(plan) = First
         /\ \A k \in 1 .. Len(loose) : loose[k] = Plan[k]
<1>1. Inputs /\ Adding /\ Order /\ FixedAt
  BY FixedIs DEF PlacementOK, Standing, Adding
<1>2. PICK n, s, f, g : n = Len(loose) /\ s = Head(plan) /\ f = FirstIndex /\ g = SecondIndex /\ n \in Nat
  <2>1. Len(loose) \in Nat
    BY <1>1 DEF Order
  <2> QED
    BY <2>1
<1>3. s \in Names /\ s = Plan[n + 1] /\ n + 1 \in 1 .. Len(Plan) /\ pos[s] = GivenPos(s)
  <2>1. Len(segments) = 0
    OBVIOUS
  <2>2. 0 + n + 1 = n + 1
    BY <1>2
  <2> QED
    BY <1>2, <2>1, <2>2, HeadFacts
<1>4. s \in Fixed
  BY <1>1, <1>2, <1>3, GivenFacts
<1>5. ASSUME NEW k \in 1 .. n PROVE loose[k] = Plan[k] /\ Plan[k] \notin Fixed
  <2>1. Len(segments) = 0 /\ 0 + k = k
    BY <1>2
  <2> QED
    BY <1>1, <1>2, <2>1 DEF Order, Adding
<1>6. f \in Int /\ g \in Int /\ f < g /\ f >= 1 /\ (n + 1 = f \/ n + 1 = g) /\ Plan[f] \in Fixed
  BY <1>1, <1>2, <1>3, <1>4 DEF FixedAt
<1>7. n + 1 = f
  BY <1>2, <1>5, <1>6
<1>8. n = f - 1
  BY <1>2, <1>7
<1> QED
  BY <1>1, <1>2, <1>3, <1>5, <1>7, <1>8 DEF FixedAt

LEMMA RestAt ==
  ASSUME PlacementOK, step = "add", plan = <<>>
  PROVE  /\ Len(segments) = SecondIndex /\ Last(segments) = Second /\ segments # <<>> /\ Len(loose) = Len(Plan) - SecondIndex
         /\ \A k \in 1 .. Len(loose) : loose[k] = Plan[SecondIndex + k]
<1>1. Inputs /\ Adding /\ Order /\ FixedAt /\ segments \in Seq(Names)
  BY FixedIs DEF PlacementOK, Standing, Adding
<1>2. PICK a, n, l, f, g : /\ a = Len(segments) /\ n = Len(loose) /\ l = Len(Plan) /\ f = FirstIndex /\ g = SecondIndex
                           /\ a \in Nat /\ n \in Nat
  <2>1. Len(segments) \in Nat /\ Len(loose) \in Nat
    BY <1>1 DEF Order
  <2> QED
    BY <2>1
<1>3. a + n = l /\ f \in 1 .. l /\ g \in 1 .. l /\ f < g
  <2>1. Len(plan) = 0
    OBVIOUS
  <2>2. a + n + 0 = l
    BY <1>1, <1>2, <2>1 DEF Order
  <2>3. f \in 1 .. l /\ g \in 1 .. l /\ f < g
    BY <1>1, <1>2 DEF FixedAt
  <2> QED
    BY <1>2, <2>2, <2>3
<1>4. ASSUME NEW k \in 1 .. n PROVE loose[k] = Plan[a + k] /\ Plan[a + k] \notin Fixed
  BY <1>1, <1>2 DEF Order, Adding
<1>5. g <= a
  <2> SUFFICES ASSUME g > a PROVE FALSE
    BY <1>2, <1>3
  <2>1. PICK k \in 1 .. n : a + k = g
    <3>1. g - a \in 1 .. n /\ a + (g - a) = g
      BY <1>2, <1>3
    <3> QED
      BY <3>1
  <2>2. Plan[g] \in Fixed
    BY <1>1, <1>2 DEF FixedAt
  <2> QED
    BY <1>4, <2>1, <2>2
<1>6. a \in 1 .. a /\ a \in 1 .. l /\ segments # <<>>
  BY <1>1, <1>2, <1>3, <1>5
<1>7. Last(segments) = Plan[a] /\ Plan[a] \in Fixed
  BY <1>1, <1>2, <1>6 DEF Order, Adding, Last
<1>8. a = f \/ a = g
  BY <1>1, <1>2, <1>6, <1>7 DEF FixedAt
<1>9. a = g /\ n = l - g
  BY <1>2, <1>3, <1>5, <1>8
<1> QED
  BY <1>1, <1>2, <1>4, <1>6, <1>7, <1>9 DEF FixedAt

\* The size of the segments between the two.
LEMMA MiddleTotal ==
  ASSUME Inputs, loose \in Seq(Names), Len(loose) = MidLen, \A k \in 1 .. MidLen : loose[k] = Plan[FirstIndex + k]
  PROVE  Total = MidSize
<1>1. PICK T : LooseSums(T)
  BY LooseSumsExist
<1>2. Total = T[MidLen]
  BY <1>1, TotalIs
<1>3. T[0] = 0 /\ \A k \in 1 .. MidLen : T[k] = T[k - 1] + Size(loose[k])
  BY <1>1 DEF LooseSums
<1>4. PlanEntries /\ builder \in {"jmp", "jmp_rev", "jne"}
  BY PlanIs DEF Inputs, Builders
<1>5. CASE builder = "jne" /\ Forward
  <2>1. MidLen = 2 /\ FirstIndex = 4 /\ MidSize = 7
    BY <1>5 DEF MidLen, MidSize, FirstIndex, SecondIndex
  <2>2. 1 \in 1 .. 2 /\ 2 \in 1 .. 2 /\ 4 + 1 = 5 /\ 4 + 2 = 6
    OBVIOUS
  <2>3. loose[1] = Plan[5] /\ loose[2] = Plan[6]
    BY <2>1, <2>2
  <2>4. loose[1] = "if" /\ loose[2] = "goto_end_if"
    BY <1>4, <1>5, <2>3 DEF PlanEntries
  <2>5. Size(loose[1]) = 5 /\ Size(loose[2]) = 2
    BY <1>5, <2>4, SizeIs
  <2>6. T[1] = T[0] + Size(loose[1]) /\ T[2] = T[1] + Size(loose[2])
    BY <1>3, <2>1
  <2> QED
    BY <1>2, <1>3, <2>1, <2>5, <2>6
<1>6. CASE builder = "jne" /\ ~Forward
  <2>1. MidLen = 1 /\ FirstIndex = 6 /\ MidSize = 5
    BY <1>6 DEF MidLen, MidSize, FirstIndex, SecondIndex
  <2>2. 1 \in 1 .. 1 /\ 6 + 1 = 7
    OBVIOUS
  <2>3. loose[1] = Plan[7]
    BY <2>1, <2>2
  <2>4. loose[1] = "goto_end_else"
    BY <1>4, <1>6, <2>3 DEF PlanEntries
  <2>5. Size(loose[1]) = 5
    BY <1>6, <2>4, SizeIs
  <2>6. T[1] = T[0] + Size(loose[1])
    BY <1>3, <2>1
  <2> QED
    BY <1>2, <1>3, <2>1, <2>5, <2>6
<1>7. CASE builder = "jmp" /\ Forward
  <2>1. MidLen = 2 /\ FirstIndex = 2 /\ MidSize = 10
    BY <1>7 DEF MidLen, MidSize, FirstIndex, SecondIndex
  <2>2. 1 \in 1 .. 2 /\ 2 \in 1 .. 2 /\ 2 + 1 = 3 /\ 2 + 2 = 4
    OBVIOUS
  <2>3. loose[1] = Plan[3] /\ loose[2] = Plan[4]
    BY <2>1, <2>2
  <2>4. loose[1] = "if" /\ loose[2] = "goto_end_if"
    BY <1>4, <1>7, <2>3 DEF PlanEntries
  <2>5. Size(loose[1]) = 5 /\ Size(loose[2]) = 5
    BY <1>7, <2>4, SizeIs
  <2>6. T[1] = T[0] + Size(loose[1]) /\ T[2] = T[1] + Size(loose[2])
    BY <1>3, <2>1
  <2> QED
    BY <1>2, <1>3, <2>1, <2>5, <2>6
<1>8. CASE builder = "jmp" /\ ~Forward
  <2>1. MidLen = 2 /\ FirstIndex = 3 /\ MidSize = IF indirect THEN 15 ELSE 6
    BY <1>8 DEF MidLen, MidSize, FirstIndex, SecondIndex
  <2>2. 1 \in 1 .. 2 /\ 2 \in 1 .. 2 /\ 3 + 1 = 4 /\ 3 + 2 = 5
    OBVIOUS
  <2>3. loose[1] = Plan[4] /\ loose[2] = Plan[5]
    BY <2>1, <2>2
  <2>4. loose[1] = "goto_end_else" /\ loose[2] = "entry"
    BY <1>4, <1>8, <2>3 DEF PlanEntries
  <2>5. Size(loose[1]) = 5 /\ Size(loose[2]) = IF indirect THEN 10 ELSE 1
    BY <1>8, <2>4, SizeIs
  <2>6. T[1] = T[0] + Size(loose[1]) /\ T[2] = T[1] + Size(loose[2])
    BY <1>3, <2>1
  <2> QED
    BY <1>2, <1>3, <2>1, <2>5, <2>6
<1>9. CASE builder = "jmp_rev" /\ Forward
  <2>1. MidLen = 0 /\ MidSize = 0
    BY <1>9 DEF MidLen, MidSize, FirstIndex, SecondIndex
  <2> QED
    BY <1>2, <1>3, <2>1
<1>10. CASE builder = "jmp_rev" /\ ~Forward
  <2>1. MidLen = 4 /\ FirstIndex = 1 /\ MidSize = IF indirect THEN 25 ELSE 16
    BY <1>10 DEF MidLen, MidSize, FirstIndex, SecondIndex
  <2>2. /\ 1 \in 1 .. 4 /\ 2 \in 1 .. 4 /\ 3 \in 1 .. 4 /\ 4 \in 1 .. 4
        /\ 1 + 1 = 2 /\ 1 + 2 = 3 /\ 1 + 3 = 4 /\ 1 + 4 = 5
    OBVIOUS
  <2>3. loose[1] = Plan[2] /\ loose[2] = Plan[3] /\ loose[3] = Plan[4] /\ loose[4] = Plan[5]
    BY <2>1, <2>2
  <2>4. loose[1] = "goto_end_if" /\ loose[2] = "else" /\ loose[3] = "goto_end_else" /\ loose[4] = "entry"
    BY <1>4, <1>10, <2>3 DEF PlanEntries
  <2>5. /\ Size(loose[1]) = 5 /\ Size(loose[2]) = 5 /\ Size(loose[3]) = 5
        /\ Size(loose[4]) = IF indirect THEN 10 ELSE 1
    BY <1>10, <2>4, SizeIs
  <2>6. /\ T[1] = T[0] + Size(loose[1]) /\ T[2] = T[1] + Size(loose[2])
        /\ T[3] = T[2] + Size(loose[3]) /\ T[4] = T[3] + Size(loose[4])
    BY <1>3, <2>1
  <2> QED
    BY <1>2, <1>3, <2>1, <2>5, <2>6
<1> QED
  BY <1>4, <1>5, <1>6, <1>7, <1>8, <1>9, <1>10

\* The second one is placed if and only if there is room.
LEMMA RoomIs ==
  ASSUME PlacementOK, step = "add", plan # <<>>, pos[Head(plan)] # 0, segments # <<>>
  PROVE  /\ InOrder(Head(plan)) /\ Fits(Head(plan)) <=> Room
         /\ MidLen # 0 => Spacing(Head(plan)) = (Gap - MidSize) \div MidLen
<1>1. Inputs /\ loose \in Seq(Names) /\ Unmoved /\ FixedAt
  BY FixedIs DEF PlacementOK, Standing, Adding, Order
<1>2. /\ Len(loose) = MidLen /\ Head(plan) = Second /\ Last(segments) = First
      /\ \A k \in 1 .. MidLen : loose[k] = Plan[FirstIndex + k]
  BY SecondAt
<1>3. Total = MidSize
  BY <1>1, <1>2, MiddleTotal
<1>4. pos[First] = GivenPos(First) /\ pos[Second] = GivenPos(Second) /\ pos[Second] # 0
  BY <1>1, <1>2 DEF FixedAt, Unmoved
<1>5. Space(Second) = Gap
  BY <1>2, <1>4 DEF Space, End, Gap
<1>6. loose = <<>> <=> MidLen = 0
  BY <1>1, <1>2
<1>7. Spacing(Second) = (Gap - MidSize) \div MidLen
  BY <1>2, <1>3, <1>5 DEF Spacing
<1>8. InOrder(Second) <=> GivenPos(First) < GivenPos(Second)
  BY <1>2, <1>4 DEF InOrder, Nullptr
<1>9. Fits(Second) <=> (MidLen # 0 => MidSize <= Gap /\ (Gap - MidSize) \div MidLen < 10000)
  BY <1>3, <1>5, <1>6, <1>7 DEF Fits
<1> QED
  BY <1>2, <1>7, <1>8, <1>9 DEF Room

LEMMA SupportFrame ==
  ASSUME UNCHANGED input
  PROVE  /\ Forward' = Forward /\ builder' = builder /\ Second' = Second /\ Gap' = Gap
         /\ (Room' <=> Room) /\ (Supported' <=> Supported)
<1>1. builder' = builder /\ indirect' = indirect /\ src' = src /\ dst' = dst
  BY DEF input
<1>2. Forward' = Forward
  BY <1>1 DEF Forward
<1>3. First' = First /\ Second' = Second /\ MidLen' = MidLen /\ MidSize' = MidSize
  BY <1>1, <1>2 DEF First, Second, MidLen, MidSize, FirstIndex, SecondIndex, DstSegment
<1>4. \A s : Size(s)' = Size(s) /\ GivenPos(s)' = GivenPos(s)
  BY InputFrame
<1>5. GivenPos(First)' = GivenPos(First) /\ GivenPos(Second)' = GivenPos(Second) /\ Size(First)' = Size(First)
  <2>1. PICK a, b : a = First /\ b = Second /\ a = First' /\ b = Second'
    BY <1>3
  <2>2. GivenPos(a)' = GivenPos(a) /\ GivenPos(b)' = GivenPos(b) /\ Size(a)' = Size(a)
    BY <1>4
  <2>3. GivenPos(a)' = GivenPos(First)' /\ GivenPos(b)' = GivenPos(Second)' /\ Size(a)' = Size(First)'
    BY <2>1 DEF GivenPos, Size, Kind
  <2> QED
    BY <2>1, <2>2, <2>3
<1>6. Gap' = Gap
  BY <1>5 DEF Gap
<1>7. Room' <=> Room
  BY <1>3, <1>5, <1>6 DEF Room
<1>8. Supported' <=> Supported
  BY <1>1, <1>2, SMTT(60) DEF Supported
<1> QED
  BY <1>1, <1>2, <1>3, <1>6, <1>7, <1>8

LEMMA FirstStep ==
  ASSUME PlacementOK, PlaceSegment, segments = <<>>
  PROVE  BeforeFirst' /\ ~SecondPlaced'
<1>1. /\ step = "add" /\ plan # <<>> /\ pos[Head(plan)] # 0 /\ UNCHANGED input
      /\ pos' = PosBefore(Head(plan)) /\ segments' = segments \o Append(loose, Head(plan))
  BY DEF PlaceSegment, Nullptr
<1>2. Inputs /\ loose \in Seq(Names) /\ Adding /\ FixedAt /\ pos \in [Names -> Int]
  BY <1>1, FixedIs DEF PlacementOK, Standing, Adding, Order
<1>3. /\ Len(loose) = FirstIndex - 1 /\ Head(plan) = First
      /\ \A k \in 1 .. Len(loose) : loose[k] = Plan[k]
  BY <1>1, FirstAt
<1>4. Forward' = Forward /\ builder' = builder /\ Second' = Second
  BY <1>1, SupportFrame
<1>5. ~SecondPlaced'
  <2>1. PICK q, n, r : q = loose /\ n = Len(loose) /\ r = segments'
    OBVIOUS
  <2>2. PICK f \in Names : f = First
    BY <1>2, GivenFacts DEF FixedAt
  <2>3. q \in Seq(Names) /\ n \in Nat /\ n = Len(q) /\ r = <<>> \o Append(q, f)
    BY <1>1, <1>2, <1>3, <2>1, <2>2
  <2>4. PICK x \in Seq(Names) : x = Append(q, f) /\ Len(x) = n + 1 /\ x[n + 1] = f /\ \A i \in 1 .. n : x[i] = q[i]
    BY <2>3
  <2>5. r = x
    BY <2>3, <2>4
  <2>6. Len(r) = n + 1 /\ r[n + 1] = First /\ \A i \in 1 .. n : r[i] = q[i]
    BY <2>2, <2>4, <2>5
  <2>7. \A i \in 1 .. n : q[i] # Second
    BY <1>2, <2>1 DEF Adding, FixedAt
  <2>8. ASSUME NEW i \in 1 .. n + 1 PROVE r[i] # Second
    <3>1. i = n + 1 \/ i \in 1 .. n
      BY <2>3
    <3> QED
      BY <1>2, <2>6, <2>7, <3>1 DEF FixedAt
  <2> QED
    BY <1>4, <2>1, <2>6, <2>8 DEF SecondPlaced
<1>6. ASSUME builder = "jne", ~Forward PROVE pos'["if"] = pos'["else"] - 14
  <2>1. FirstIndex = 6 /\ First = "else"
    BY <1>2, <1>6, GivenIs DEF FirstIndex, First
  <2>2. Len(loose) = 5
    BY <1>3, <2>1
  <2>3. /\ Plan[1] = "entry" /\ Plan[2] = "pretest" /\ Plan[3] = "goto_src" /\ Plan[4] = "if"
        /\ Plan[5] = "goto_end_if"
    BY <1>2, <1>6, PlanIs DEF PlanEntries
  <2>4. 1 \in 1 .. 5 /\ 2 \in 1 .. 5 /\ 3 \in 1 .. 5 /\ 4 \in 1 .. 5 /\ 5 \in 1 .. 5
    OBVIOUS
  <2>5. /\ loose[1] = "entry" /\ loose[2] = "pretest" /\ loose[3] = "goto_src" /\ loose[4] = "if"
        /\ loose[5] = "goto_end_if"
    BY <1>3, <2>2, <2>3, <2>4
  <2>6. PICK T : LooseSums(T)
    BY <1>2, LooseSumsExist
  <2>7. T[4] = T[3] + 5 /\ T[5] = T[4] + 5 /\ T[3] \in Nat /\ T[4] \in Nat /\ T[5] \in Nat
    <3>1. 4 \in 1 .. 5 /\ 5 \in 1 .. 5 /\ 3 \in 0 .. 5 /\ 4 \in 0 .. 5 /\ 5 \in 0 .. 5 /\ 4 - 1 = 3 /\ 5 - 1 = 4
      OBVIOUS
    <3>2. T[4] = T[3] + Size(loose[4]) /\ T[5] = T[4] + Size(loose[5]) /\ T[3] \in Nat /\ T[4] \in Nat /\ T[5] \in Nat
      BY <2>2, <2>6, <3>1 DEF LooseSums
    <3>3. Size(loose[4]) = 5 /\ Size(loose[5]) = 5
      BY <1>2, <1>6, <2>5, SizeIs
    <3> QED
      BY <3>2, <3>3
  <2>8. Spacing("else") = 2 /\ "else" \in Names /\ pos["else"] \in Int
    BY <1>2 DEF Spacing, SegmentSpacing, Names
  <2>9. \A i, j \in 1 .. Len(loose) : loose[i] = loose[j] => i = j
    BY <1>1, HeadFacts
  <2>10. /\ \A k \in 1 .. Len(loose) : PosBefore("else")[loose[k]] =
              pos["else"] - (T[Len(loose)] - T[k - 1]) - (Len(loose) - k + 1) * Spacing("else")
         /\ \A t \in Names : (\A k \in 1 .. Len(loose) : loose[k] # t) => PosBefore("else")[t] = pos[t]
    <3>1. Spacing("else") \in Int /\ pos["else"] \in Int
      BY <2>8
    <3> QED
      BY <1>2, <2>6, <2>9, <3>1, BackIs
  <2>11. PosBefore("else")["else"] = pos["else"]
    <3>1. \A k \in 1 .. Len(loose) : loose[k] # "else"
      BY <2>2, <2>5
    <3> QED
      BY <2>8, <2>10, <3>1
  <2>12. PosBefore("else")["if"] = pos["else"] - (T[5] - T[3]) - (5 - 4 + 1) * 2
    BY <2>2, <2>4, <2>5, <2>8, <2>10
  <2>13. pos'["else"] = pos["else"] /\ pos'["if"] = pos["else"] - (T[5] - T[3]) - (5 - 4 + 1) * 2
    BY <1>1, <1>3, <2>1, <2>11, <2>12
  <2>14. T[5] - T[3] = 10 /\ (5 - 4 + 1) * 2 = 4
    BY <2>7
  <2> QED
    BY <2>8, <2>13, <2>14
<1> QED
  BY <1>4, <1>5, <1>6 DEF BeforeFirst

LEMMA SecondStep ==
  ASSUME PlacementOK, PlaceSegment, segments # <<>>, BeforeFirst
  PROVE  BeforeFirst' /\ Between' /\ Room'
<1>1. /\ step = "add" /\ plan # <<>> /\ pos[Head(plan)] # 0 /\ UNCHANGED input
      /\ pos' = PosBefore(Head(plan)) /\ InOrder(Head(plan)) /\ Fits(Head(plan))
  BY DEF PlaceSegment, Nullptr
<1>2. Inputs /\ loose \in Seq(Names) /\ FixedAt /\ pos \in [Names -> Int]
  BY <1>1, FixedIs DEF PlacementOK, Standing, Adding, Order
<1>3. Len(loose) = MidLen /\ Head(plan) = Second /\ \A k \in 1 .. MidLen : loose[k] = Plan[FirstIndex + k]
  BY <1>1, SecondAt
<1>4. Forward' = Forward /\ builder' = builder /\ Gap' = Gap /\ (Room' <=> Room)
  BY <1>1, SupportFrame
<1>5. Room /\ (MidLen # 0 => Spacing(Second) = (Gap - MidSize) \div MidLen)
  BY <1>1, <1>3, RoomIs
<1>6. \A i, j \in 1 .. Len(loose) : loose[i] = loose[j] => i = j
  BY <1>1, HeadFacts
<1>7. PICK T : LooseSums(T)
  BY <1>2, LooseSumsExist
<1>8. GivenPos("src") \in Int /\ GivenPos("else") \in Int /\ "src" \in Names /\ "else" \in Names /\ "if" \in Names
  BY <1>2, GivenFacts DEF Names
<1>9. ASSUME builder = "jne", ~Forward PROVE pos'["if"] = pos'["else"] - 14
  <2>1. FirstIndex = 6 /\ MidLen = 1 /\ MidSize = 5 /\ Second = "src" /\ First = "else"
    BY <1>2, <1>9, GivenIs DEF FirstIndex, SecondIndex, MidLen, MidSize, First, Second
  <2>2. loose[1] = "goto_end_else" /\ Len(loose) = 1
    <3>1. 1 \in 1 .. 1 /\ 6 + 1 = 7
      OBVIOUS
    <3>2. loose[1] = Plan[7]
      BY <1>3, <2>1, <3>1
    <3> QED
      BY <1>2, <1>3, <1>9, <2>1, <3>2, PlanIs DEF PlanEntries
  <2>3. Gap \in Int
    BY <1>2, <1>8, <2>1, SizeIs DEF Gap
  <2>4. Spacing("src") \in Int /\ pos["src"] \in Int
    BY <1>2, <1>5, <1>8, <2>1, <2>3
  <2>5. \A t \in Names : (\A k \in 1 .. Len(loose) : loose[k] # t) => PosBefore("src")[t] = pos[t]
    BY <1>2, <1>6, <1>7, <2>4, BackIs
  <2>6. PosBefore("src")["if"] = pos["if"] /\ PosBefore("src")["else"] = pos["else"]
    BY <1>8, <2>2, <2>5
  <2> QED
    BY <1>1, <1>3, <1>9, <2>1, <2>6 DEF BeforeFirst
<1>10. ASSUME builder = "jne", Forward PROVE pos'["goto_end_if"] = pos'["else"] - (2 + ((Gap - 7) \div 2))
  <2>1. FirstIndex = 4 /\ MidLen = 2 /\ MidSize = 7 /\ Second = "else" /\ First = "src"
    BY <1>2, <1>10, GivenIs DEF FirstIndex, SecondIndex, MidLen, MidSize, First, Second
  <2>2. loose[1] = "if" /\ loose[2] = "goto_end_if" /\ Len(loose) = 2
    <3>1. 1 \in 1 .. 2 /\ 2 \in 1 .. 2 /\ 4 + 1 = 5 /\ 4 + 2 = 6
      OBVIOUS
    <3>2. loose[1] = Plan[5] /\ loose[2] = Plan[6]
      BY <1>3, <2>1, <3>1
    <3> QED
      BY <1>2, <1>3, <1>10, <2>1, <3>2, PlanIs DEF PlanEntries
  <2>3. Gap \in Int
    BY <1>2, <1>8, <1>10, <2>1, SizeIs DEF Gap
  <2>4. PICK d \in Int : d = (Gap - 7) \div 2 /\ d = Spacing("else")
    <3>1. Spacing("else") = (Gap - 7) \div 2
      BY <1>5, <2>1
    <3>2. (Gap - 7) \div 2 \in Int
      BY <2>3
    <3> QED
      BY <3>1, <3>2
  <2>5. Spacing("else") \in Int /\ pos["else"] \in Int
    BY <1>2, <1>8, <2>4
  <2>6. /\ \A k \in 1 .. Len(loose) : PosBefore("else")[loose[k]] =
             pos["else"] - (T[Len(loose)] - T[k - 1]) - (Len(loose) - k + 1) * Spacing("else")
        /\ \A t \in Names : (\A k \in 1 .. Len(loose) : loose[k] # t) => PosBefore("else")[t] = pos[t]
    BY <1>2, <1>6, <1>7, <2>5, BackIs
  <2>7. PosBefore("else")["else"] = pos["else"]
    BY <1>8, <2>2, <2>6
  <2>8. T[2] = T[1] + 2 /\ T[1] \in Nat /\ T[2] \in Nat
    <3>1. 2 \in 1 .. 2 /\ 1 \in 0 .. 2 /\ 2 \in 0 .. 2 /\ 2 - 1 = 1
      OBVIOUS
    <3>2. T[2] = T[1] + Size(loose[2]) /\ T[1] \in Nat /\ T[2] \in Nat
      BY <1>7, <2>2, <3>1 DEF LooseSums
    <3>3. Size(loose[2]) = 2
      BY <1>2, <1>10, <2>2, SizeIs
    <3> QED
      BY <3>2, <3>3
  <2>9. PosBefore("else")["goto_end_if"] = pos["else"] - (T[2] - T[1]) - (2 - 2 + 1) * d
    <3>1. 2 \in 1 .. 2 /\ 2 - 1 = 1
      OBVIOUS
    <3> QED
      BY <2>2, <2>4, <2>6, <3>1
  <2>10. PICK u \in Int : u = pos["else"]
    BY <2>5
  <2>11. T[2] - T[1] = 2 /\ (2 - 2 + 1) * d = d
    BY <2>8
  <2>12. pos'["goto_end_if"] = u - 2 - d /\ pos'["else"] = u
    BY <1>1, <1>3, <2>1, <2>7, <2>9, <2>10, <2>11
  <2>13. u - 2 - d = u - (2 + d)
    OBVIOUS
  <2> QED
    BY <2>4, <2>12, <2>13
<1> QED
  BY <1>4, <1>5, <1>9, <1>10 DEF BeforeFirst, Between

LEMMA RestStep ==
  ASSUME PlacementOK, PlaceRest, BeforeFirst, Between
  PROVE  BeforeFirst' /\ Between' /\ BehindSecond'
<1>1. step = "add" /\ plan = <<>> /\ UNCHANGED input
  BY DEF PlaceRest
<1>2. Inputs /\ loose \in Seq(Names) /\ FixedAt /\ pos \in [Names -> Int] /\ PlanOK
  BY <1>1, FixedIs, PlanFacts DEF PlacementOK, Standing, Adding, Order
<1>3. /\ Last(segments) = Second /\ Len(loose) = Len(Plan) - SecondIndex
      /\ \A k \in 1 .. Len(loose) : loose[k] = Plan[SecondIndex + k]
  BY <1>1, RestAt
<1>4. Forward' = Forward /\ builder' = builder /\ Gap' = Gap
  BY <1>1, SupportFrame
<1>5. PICK T : LooseSums(T)
  BY <1>2, LooseSumsExist
<1>6. "src" \in Names /\ "else" \in Names /\ "if" \in Names /\ "goto_end_if" \in Names
  BY DEF Names
<1>7. ASSUME builder = "jne", Forward
      PROVE  /\ pos'["goto_end_if"] = pos'["else"] - (2 + ((Gap - 7) \div 2)) /\ pos'["goto_end_else"] = pos'["else"] + 7
             /\ pos'["end_if"] = pos'["else"] + 11 /\ pos'["end_else"] = pos'["else"] + 134
  <2>1. SecondIndex = 7 /\ Second = "else" /\ Len(Plan) = 10
    BY <1>2, <1>7, GivenIs, PlanIs DEF SecondIndex, Second, PlanEntries
  <2>2. Len(loose) = 3 /\ loose[1] = "goto_end_else" /\ loose[2] = "end_if" /\ loose[3] = "end_else"
    <3>1. 1 \in 1 .. 3 /\ 2 \in 1 .. 3 /\ 3 \in 1 .. 3 /\ 7 + 1 = 8 /\ 7 + 2 = 9 /\ 7 + 3 = 10 /\ 10 - 7 = 3
      OBVIOUS
    <3>2. Len(loose) = 3 /\ loose[1] = Plan[8] /\ loose[2] = Plan[9] /\ loose[3] = Plan[10]
      BY <1>3, <2>1, <3>1
    <3> QED
      BY <1>2, <1>7, <3>2, PlanIs DEF PlanEntries
  <2>3. PICK u \in Int : u = pos["else"] /\ u + 5 = End(Last(segments))
    BY <1>2, <1>3, <1>6, <2>1, SizeIs DEF End
  <2>4. \A i, j \in 1 .. Len(loose) : loose[i] = loose[j] => i = j
    BY <2>2
  <2>5. PICK e \in Int : e = End(Last(segments)) /\ e = u + 5
    BY <2>3
  <2>6. /\ \A k \in 1 .. Len(loose) : pos'[loose[k]] = e + T[k - 1] + 2 * k
        /\ \A t \in Names : (\A k \in 1 .. Len(loose) : loose[k] # t) => pos'[t] = pos[t]
    BY <1>2, <1>5, <2>4, <2>5, AheadIs
  <2>7. pos'["else"] = u /\ pos'["goto_end_if"] = pos["goto_end_if"]
    BY <1>6, <2>2, <2>3, <2>6
  <2>8. T[0] = 0 /\ T[1] = 2 /\ T[2] = 123
    <3>1. T[0] = 0 /\ T[1] = T[0] + Size(loose[1]) /\ T[2] = T[1] + Size(loose[2])
      <4>1. 1 \in 1 .. 3 /\ 2 \in 1 .. 3 /\ 1 - 1 = 0 /\ 2 - 1 = 1
        OBVIOUS
      <4> QED
        BY <1>5, <2>2, <4>1 DEF LooseSums
    <3>2. Size(loose[1]) = 2 /\ Size(loose[2]) = 121
      BY <1>2, <1>7, <2>2, SizeIs
    <3> QED
      BY <3>1, <3>2
  <2>9. /\ pos'["goto_end_else"] = e + T[0] + 2 * 1 /\ pos'["end_if"] = e + T[1] + 2 * 2
        /\ pos'["end_else"] = e + T[2] + 2 * 3
    <3>1. 1 \in 1 .. 3 /\ 2 \in 1 .. 3 /\ 3 \in 1 .. 3 /\ 1 - 1 = 0 /\ 2 - 1 = 1 /\ 3 - 1 = 2
      OBVIOUS
    <3> QED
      BY <2>2, <2>6, <3>1
  <2>10. pos'["goto_end_else"] = u + 7 /\ pos'["end_if"] = u + 11 /\ pos'["end_else"] = u + 134
    BY <2>5, <2>8, <2>9
  <2> QED
    BY <1>7, <2>3, <2>7, <2>10 DEF Between
<1>8. ASSUME builder = "jne", ~Forward
      PROVE  pos'["if"] = pos'["else"] - 14 /\ pos'["goto_if"] = pos'["src"] + 6
  <2>1. SecondIndex = 8 /\ Second = "src" /\ Len(Plan) = 11
    BY <1>2, <1>8, GivenIs, PlanIs DEF SecondIndex, Second, PlanEntries
  <2>2. Len(loose) = 3 /\ loose[1] = "goto_if" /\ loose[2] = "end_if" /\ loose[3] = "end_else"
    <3>1. 1 \in 1 .. 3 /\ 2 \in 1 .. 3 /\ 3 \in 1 .. 3 /\ 8 + 1 = 9 /\ 8 + 2 = 10 /\ 8 + 3 = 11 /\ 11 - 8 = 3
      OBVIOUS
    <3>2. Len(loose) = 3 /\ loose[1] = Plan[9] /\ loose[2] = Plan[10] /\ loose[3] = Plan[11]
      BY <1>3, <2>1, <3>1
    <3> QED
      BY <1>2, <1>8, <3>2, PlanIs DEF PlanEntries
  <2>3. PICK u \in Int : u = pos["src"] /\ u + 4 = End(Last(segments))
    BY <1>2, <1>3, <1>6, <1>8, <2>1, SizeIs DEF End
  <2>4. \A i, j \in 1 .. Len(loose) : loose[i] = loose[j] => i = j
    BY <2>2
  <2>5. PICK e \in Int : e = End(Last(segments)) /\ e = u + 4
    BY <2>3
  <2>6. /\ \A k \in 1 .. Len(loose) : pos'[loose[k]] = e + T[k - 1] + 2 * k
        /\ \A t \in Names : (\A k \in 1 .. Len(loose) : loose[k] # t) => pos'[t] = pos[t]
    BY <1>2, <1>5, <2>4, <2>5, AheadIs
  <2>7. pos'["src"] = u /\ pos'["if"] = pos["if"] /\ pos'["else"] = pos["else"]
    BY <1>6, <2>2, <2>3, <2>6
  <2>8. pos'["goto_if"] = e + T[0] + 2 * 1 /\ T[0] = 0
    <3>1. 1 \in 1 .. 3 /\ 1 - 1 = 0
      OBVIOUS
    <3> QED
      BY <1>5, <2>2, <2>6, <3>1 DEF LooseSums
  <2>9. pos'["goto_if"] = u + 6
    BY <2>5, <2>8
  <2> QED
    BY <1>8, <2>7, <2>9 DEF BeforeFirst
<1> QED
  BY <1>4, <1>7, <1>8 DEF BeforeFirst, Between, BehindSecond

\* Moving the segments changes no distance between them.
LEMMA MoveSpread ==
  ASSUME PlacementOK, Move, mem.entry \in Nat, BeforeFirst, Between, BehindSecond
  PROVE  BeforeFirst' /\ Between' /\ BehindSecond'
<1>1. step = "move" /\ segments = Plan /\ UNCHANGED input
  BY DEF Move, PlacementOK
<1>2. Inputs /\ pos \in [Names -> Int]
  BY DEF PlacementOK, Standing
<1>3. PICK c \in Int : \A i \in 1 .. Len(segments) : pos'[segments[i]] = pos[segments[i]] + Align * c
  BY MoveShifts
<1>4. PICK off \in Int : off = Align * c
  BY AlignAssumption
<1>5. \A i \in 1 .. Len(Plan) : pos'[Plan[i]] = pos[Plan[i]] + off
  BY <1>1, <1>3, <1>4
<1>6. Forward' = Forward /\ builder' = builder /\ Gap' = Gap
  BY <1>1, SupportFrame
<1>7. PlanEntries
  BY <1>2, PlanIs
<1>8. ASSUME builder = "jne", Forward
      PROVE  /\ pos'["goto_end_if"] = pos'["else"] - (2 + ((Gap - 7) \div 2)) /\ pos'["goto_end_else"] = pos'["else"] + 7
             /\ pos'["end_if"] = pos'["else"] + 11 /\ pos'["end_else"] = pos'["else"] + 134
  <2>1. /\ Len(Plan) = 10 /\ Plan[6] = "goto_end_if" /\ Plan[7] = "else" /\ Plan[8] = "goto_end_else"
        /\ Plan[9] = "end_if" /\ Plan[10] = "end_else"
    BY <1>7, <1>8 DEF PlanEntries
  <2>2. 6 \in 1 .. 10 /\ 7 \in 1 .. 10 /\ 8 \in 1 .. 10 /\ 9 \in 1 .. 10 /\ 10 \in 1 .. 10
    OBVIOUS
  <2>3. /\ pos'["goto_end_if"] = pos["goto_end_if"] + off /\ pos'["else"] = pos["else"] + off
        /\ pos'["goto_end_else"] = pos["goto_end_else"] + off /\ pos'["end_if"] = pos["end_if"] + off
        /\ pos'["end_else"] = pos["end_else"] + off
    BY <1>5, <2>1, <2>2
  <2>4. PICK u \in Int : u = pos["else"]
    BY <1>2 DEF Names
  <2>5. PICK d \in Int : d = 2 + ((Gap - 7) \div 2)
    <3>1. GivenPos("src") \in Int /\ GivenPos("else") \in Int /\ Second = "else" /\ First = "src" /\ Size("src") = 4
      BY <1>2, <1>8, GivenIs, SizeIs DEF First, Second
    <3>2. Gap \in Int
      BY <3>1 DEF Gap
    <3>3. 2 + ((Gap - 7) \div 2) \in Int
      BY <3>2
    <3> QED
      BY <3>3
  <2>6. /\ pos["goto_end_if"] = u - d /\ pos["goto_end_else"] = u + 7 /\ pos["end_if"] = u + 11
        /\ pos["end_else"] = u + 134
    BY <1>8, <2>4, <2>5 DEF Between, BehindSecond
  <2>7. /\ (u - d) + off = (u + off) - d /\ (u + 7) + off = (u + off) + 7 /\ (u + 11) + off = (u + off) + 11
        /\ (u + 134) + off = (u + off) + 134
    OBVIOUS
  <2> QED
    BY <2>3, <2>4, <2>5, <2>6, <2>7
<1>9. ASSUME builder = "jne", ~Forward
      PROVE  pos'["if"] = pos'["else"] - 14 /\ pos'["goto_if"] = pos'["src"] + 6
  <2>1. Len(Plan) = 11 /\ Plan[4] = "if" /\ Plan[6] = "else" /\ Plan[8] = "src" /\ Plan[9] = "goto_if"
    BY <1>7, <1>9 DEF PlanEntries
  <2>2. 4 \in 1 .. 11 /\ 6 \in 1 .. 11 /\ 8 \in 1 .. 11 /\ 9 \in 1 .. 11
    OBVIOUS
  <2>3. /\ pos'["if"] = pos["if"] + off /\ pos'["else"] = pos["else"] + off
        /\ pos'["src"] = pos["src"] + off /\ pos'["goto_if"] = pos["goto_if"] + off
    BY <1>5, <2>1, <2>2
  <2>4. PICK u, v \in Int : u = pos["else"] /\ v = pos["src"]
    BY <1>2 DEF Names
  <2>5. pos["if"] = u - 14 /\ pos["goto_if"] = v + 6
    BY <1>9, <2>4 DEF BeforeFirst, BehindSecond
  <2>6. (u - 14) + off = (u + off) - 14 /\ (v + 6) + off = (v + off) + 6
    OBVIOUS
  <2> QED
    BY <2>3, <2>4, <2>5, <2>6
<1> QED
  BY <1>6, <1>8, <1>9 DEF BeforeFirst, Between, BehindSecond

\* finalize: the assertion of SegJump holds for every short jump.
LEMMA ReachIs ==
  ASSUME PlacementOK, step = "finalize", Moved, Room, BeforeFirst, Between, BehindSecond
  PROVE  (\A s \in Range(segments) : Kind(s) = "Jump" => Diff(s) \in ShortRange) <=> Reach
<1>1. Inputs /\ segments = Plan /\ PlanEntries /\ pos \in [Names -> Int] /\ builder \in {"jmp", "jmp_rev", "jne"}
  BY PlanIs DEF PlacementOK, Standing, Inputs, Builders
<1>2. \A s : s \in Range(segments) <=> \E i \in 1 .. Len(Plan) : Plan[i] = s
  <2>1. DOMAIN Plan = 1 .. Len(Plan)
    BY <1>1, PlanFacts DEF PlanOK
  <2> QED
    BY <1>1, <2>1 DEF Range
<1>3. PICK c \in Int : \A s \in Fixed : pos[s] = GivenPos(s) + Align * c
  BY DEF Moved
<1>4. PICK off \in Int : off = Align * c
  BY AlignAssumption
<1>5. PICK s, t \in Int : s = src /\ t = dst
  BY <1>1, GivenIs
<1>6. PlanEntries
  BY <1>1
<1>7. CASE builder = "jne" /\ Forward
  <2>1. \A i \in 1 .. Len(Plan) : Kind(Plan[i]) = "Jump" <=> Plan[i] \in {"goto_end_if", "goto_end_else"}
    <3>1. \A x \in Names : Kind(x) = "Jump" <=> x \in {"goto_end_if", "goto_end_else", "goto_if"}
      BY <1>7 DEF Kind, Names
    <3>2. \A i \in 1 .. Len(Plan) : Plan[i] # "goto_if"
      <4>1. PICK p : p = Plan
        OBVIOUS
      <4>2. /\ Len(p) = 10
            /\ p[1] = "entry" /\ p[2] = "pretest" /\ p[3] = "goto_src" /\ p[4] = "src" /\ p[5] = "if"
            /\ p[6] = "goto_end_if" /\ p[7] = "else" /\ p[8] = "goto_end_else" /\ p[9] = "end_if" /\ p[10] = "end_else"
        BY <1>7, <1>6, <4>1 DEF PlanEntries
      <4>3. \A i \in 1 .. 10 : p[i] # "goto_if"
        BY <4>2
      <4> QED
        BY <4>1, <4>2, <4>3
    <3>3. \A i \in 1 .. Len(Plan) : Plan[i] \in Names
      BY <1>1, PlanFacts DEF PlanOK
    <3> QED
      BY <3>1, <3>2, <3>3
  <2>2. "goto_end_if" \in Range(segments) /\ "goto_end_else" \in Range(segments)
    <3>1. 6 \in 1 .. Len(Plan) /\ 8 \in 1 .. Len(Plan) /\ Plan[6] = "goto_end_if" /\ Plan[8] = "goto_end_else"
      BY <1>7, <1>6 DEF PlanEntries
    <3> QED
      BY <1>2, <3>1
  <2>3. PICK u \in Int : u = pos["else"]
    BY <1>1 DEF Names
  <2>4. PICK d \in Int : d = (Gap - 7) \div 2 /\ 0 <= d
    <3>1. GivenPos("src") \in Int /\ GivenPos("else") \in Int /\ Second = "else" /\ First = "src" /\ Size("src") = 4
      BY <1>1, <1>7, GivenIs, SizeIs DEF First, Second
    <3>2. Gap \in Int
      BY <3>1 DEF Gap
    <3>3. MidLen = 2 /\ MidSize = 7
      BY <1>7 DEF MidLen, MidSize, FirstIndex, SecondIndex
    <3>4. 7 <= Gap
      BY <3>3 DEF Room
    <3>5. (Gap - 7) \div 2 \in Int /\ 0 <= (Gap - 7) \div 2
      BY <3>2, <3>4
    <3> QED
      BY <3>5
  <2>5. Diff("goto_end_if") = 11 + d /\ Diff("goto_end_else") = 125
    <3>1. Target("goto_end_if") = "end_if" /\ Target("goto_end_else") = "end_else"
      BY DEF Target
    <3>2. Size("goto_end_if") = 2 /\ Size("goto_end_else") = 2
      BY <1>1, <1>7, SizeIs
    <3>3. pos["goto_end_if"] = u - (2 + d) /\ pos["goto_end_else"] = u + 7 /\ pos["end_if"] = u + 11 /\ pos["end_else"] = u + 134
      BY <1>7, <2>3, <2>4 DEF Between, BehindSecond
    <3> QED
      BY <3>1, <3>2, <3>3 DEF Diff, End
  <2>6. Diff("goto_end_else") \in ShortRange /\ (Diff("goto_end_if") \in ShortRange <=> d <= 116)
    BY <2>4, <2>5 DEF ShortRange
  <2>7. Reach <=> d <= 116
    BY <1>7, <2>4 DEF Reach
  <2> QED
    BY <1>2, <2>1, <2>2, <2>6, <2>7
<1>8. CASE builder = "jne" /\ ~Forward
  <2>1. \A i \in 1 .. Len(Plan) : Kind(Plan[i]) = "Jump" <=> Plan[i] = "goto_if"
    <3>1. \A x \in Names : Kind(x) = "Jump" <=> x = "goto_if"
      BY <1>8 DEF Kind, Names
    <3>2. \A i \in 1 .. Len(Plan) : Plan[i] \in Names
      BY <1>1, PlanFacts DEF PlanOK
    <3> QED
      BY <3>1, <3>2
  <2>2. "goto_if" \in Range(segments)
    BY <1>1, <1>2, <1>8 DEF PlanEntries
  <2>3. pos["else"] = t + off /\ pos["src"] = (s - 2) + off
    <3>1. GivenPos("src") = s - 2 /\ GivenPos("else") = t /\ Fixed = {"src", "else"}
      BY <1>1, <1>5, <1>8, GivenIs DEF Fixed
    <3> QED
      BY <1>3, <1>4, <3>1
  <2>4. pos["if"] = (t + off) - 14 /\ pos["goto_if"] = ((s - 2) + off) + 6
    BY <1>8, <2>3 DEF BeforeFirst, BehindSecond
  <2>5. Target("goto_if") = "if" /\ Size("goto_if") = 2
    BY <1>1, SizeIs DEF Target
  <2>6. Diff("goto_if") = t - s - 20
    BY <2>4, <2>5 DEF Diff, End
  <2>7. ~(s < t)
    BY <1>5, <1>8 DEF Forward
  <2>8. Diff("goto_if") \in ShortRange <=> s - t <= 107
    BY <2>6, <2>7 DEF ShortRange
  <2>9. Reach <=> s - t <= 107
    BY <1>5, <1>8 DEF Reach
  <2> QED
    BY <1>2, <2>1, <2>2, <2>8, <2>9
<1>9. CASE builder # "jne"
  <2>1. \A i \in 1 .. Len(Plan) : Kind(Plan[i]) = "Jump" <=> Plan[i] = "src" /\ ~indirect
    <3>1. \A x \in Names : x # "goto_if" => (Kind(x) = "Jump" <=> x = "src" /\ ~indirect)
      BY <1>9 DEF Kind, Names
    <3>2. \A i \in 1 .. Len(Plan) : Plan[i] # "goto_if"
      BY <1>1, <1>9 DEF PlanEntries
    <3>3. \A i \in 1 .. Len(Plan) : Plan[i] \in Names
      BY <1>1, PlanFacts DEF PlanOK
    <3> QED
      BY <3>1, <3>2, <3>3
  <2>2. "src" \in Range(segments)
    BY <1>1, <1>2, <1>9 DEF PlanEntries
  <2>3. pos[DstSegment] = t + off /\ pos["src"] = s + off
    <3>1. GivenPos("src") = s /\ GivenPos(DstSegment) = t
      BY <1>1, <1>5, <1>9, GivenIs
    <3> QED
      BY <1>3, <1>4, <3>1 DEF Fixed
  <2>4. ASSUME ~indirect PROVE Diff("src") = t - s - 2
    <3>1. Target("src") = DstSegment /\ Size("src") = 2
      BY <1>1, <1>9, <2>4, SizeIs DEF Target
    <3> QED
      BY <2>3, <3>1 DEF Diff, End
  <2>5. Reach <=> indirect \/ t - s - 2 \in ShortRange
    BY <1>5, <1>9 DEF Reach
  <2> QED
    BY <1>2, <2>1, <2>2, <2>4, <2>5
<1> QED
  BY <1>1, <1>7, <1>8, <1>9

LEMMA SupportInit == Init => SupportInvariant
<1>1. ASSUME Init PROVE step = "add" /\ segments = <<>> /\ ~SecondPlaced
  BY <1>1 DEF Init, SecondPlaced
<1> QED
  BY <1>1, LayoutInit DEF SupportInvariant

LEMMA SupportNext == SupportInvariant /\ [Next]_vars => SupportInvariant'
<1> SUFFICES ASSUME SupportInvariant, [Next]_vars PROVE SupportInvariant'
  OBVIOUS
<1>1. LayoutInvariant' /\ LayoutInvariant /\ PlacementOK /\ Inputs
  BY LayoutNext DEF SupportInvariant, LayoutInvariant, PlacementOK, Standing
<1>2. Supported <=> Room /\ Reach
  BY <1>1, SupportedIs
<1>3. CASE OutOfOrder
  <2>1. /\ step = "add" /\ plan # <<>> /\ segments # <<>> /\ pos[Head(plan)] # 0 /\ ~InOrder(Head(plan))
        /\ step' = "aborted" /\ UNCHANGED input
    BY <1>3 DEF OutOfOrder, Abort, Goto, InOrder, Nullptr
  <2>2. ~Room
    BY <1>1, <2>1, RoomIs
  <2> QED
    BY <1>1, <1>2, <2>1, <2>2, SupportFrame DEF SupportInvariant
<1>4. CASE AddLoose
  <2>1. step = "add" /\ step' = step /\ UNCHANGED input /\ pos' = pos /\ segments' = segments
    BY <1>4 DEF AddLoose
  <2>2. Forward' = Forward /\ builder' = builder /\ Second' = Second /\ Gap' = Gap /\ (Room' <=> Room)
    BY <2>1, SupportFrame
  <2>3. (BeforeFirst' <=> BeforeFirst) /\ (Between' <=> Between) /\ (SecondPlaced' <=> SecondPlaced)
    BY <2>1, <2>2 DEF BeforeFirst, Between, SecondPlaced
  <2> QED
    BY <1>1, <2>1, <2>2, <2>3 DEF SupportInvariant
<1>5. CASE PlaceSegment
  <2>1. step = "add" /\ step' = step /\ UNCHANGED input
    BY <1>5 DEF PlaceSegment
  <2>2. CASE segments = <<>>
    BY <1>1, <1>5, <2>1, <2>2, FirstStep DEF SupportInvariant
  <2>3. CASE segments # <<>>
    <3>1. BeforeFirst' /\ Between' /\ Room'
      BY <1>1, <1>5, <2>1, <2>3, SecondStep DEF SupportInvariant
    <3> QED
      BY <1>1, <2>1, <3>1 DEF SupportInvariant
  <2> QED
    BY <2>2, <2>3
<1>6. CASE DoesNotFit
  <2>1. /\ step = "add" /\ plan # <<>> /\ pos[Head(plan)] # 0 /\ ~Fits(Head(plan))
        /\ step' = "aborted" /\ UNCHANGED input
    BY <1>6 DEF DoesNotFit, Abort, Goto, Nullptr
  <2>2. segments # <<>>
    BY <2>1 DEF Fits, Spacing, SegmentSpacing
  <2>3. ~Room
    BY <1>1, <2>1, <2>2, RoomIs
  <2> QED
    BY <1>1, <1>2, <2>1, <2>3, SupportFrame DEF SupportInvariant
<1>7. CASE PlaceRest
  <2>1. step = "add" /\ plan = <<>> /\ step' = "map" /\ UNCHANGED input
    BY <1>7 DEF PlaceRest, Goto
  <2>2. SecondPlaced /\ segments # <<>>
    <3>1. Len(segments) = SecondIndex /\ Last(segments) = Second /\ segments # <<>>
      BY <1>1, <2>1, RestAt
    <3>2. Len(segments) \in 1 .. Len(segments)
      BY <1>1, <3>1 DEF PlacementOK, Standing
    <3> QED
      BY <3>1, <3>2 DEF SecondPlaced, Last
  <2>3. Room /\ BeforeFirst /\ Between
    BY <2>1, <2>2 DEF SupportInvariant
  <2>4. BeforeFirst' /\ Between' /\ BehindSecond'
    BY <1>1, <1>7, <2>3, RestStep
  <2> QED
    BY <1>1, <2>1, <2>3, <2>4, SupportFrame DEF SupportInvariant
<1>8. CASE Allocate \/ AllocateFails
  <2>1. step = "map" /\ step' \in {"move", "wild"} /\ UNCHANGED input /\ pos' = pos
    BY <1>8 DEF Allocate, AllocateFails, Goto
  <2>2. Forward' = Forward /\ builder' = builder /\ Gap' = Gap /\ (Room' <=> Room)
    BY <2>1, SupportFrame
  <2>3. (BeforeFirst' <=> BeforeFirst) /\ (Between' <=> Between) /\ (BehindSecond' <=> BehindSecond)
    BY <2>1, <2>2 DEF BeforeFirst, Between, BehindSecond
  <2> QED
    BY <1>1, <2>1, <2>2, <2>3 DEF SupportInvariant
<1>9. CASE Move
  <2>1. step = "move" /\ step' = "fill" /\ UNCHANGED input
    BY <1>9 DEF Move, Goto
  <2>2. Room /\ BeforeFirst /\ Between /\ BehindSecond
    BY <2>1 DEF SupportInvariant
  <2>3. mem.entry \in Nat
    BY <1>1, <2>1, EntryIsNat
  <2>4. BeforeFirst' /\ Between' /\ BehindSecond'
    BY <1>1, <1>9, <2>2, <2>3, MoveSpread
  <2> QED
    BY <1>1, <2>1, <2>2, <2>4, SupportFrame DEF SupportInvariant
<1>10. CASE JumpTooFar
  <2>1. step = "finalize" /\ step' = "aborted" /\ UNCHANGED input
    BY <1>10 DEF JumpTooFar, Abort, Goto
  <2>2. Room /\ BeforeFirst /\ Between /\ BehindSecond /\ Moved
    BY <1>1, <2>1 DEF SupportInvariant, LayoutInvariant
  <2>3. ~(\A s \in Range(segments) : Kind(s) = "Jump" => Diff(s) \in ShortRange)
    BY <1>10 DEF JumpTooFar
  <2>4. ~Reach
    BY <1>1, <2>1, <2>2, <2>3, ReachIs
  <2> QED
    BY <1>1, <1>2, <2>1, <2>4, SupportFrame DEF SupportInvariant
<1>11. CASE FinalizeSegments
  <2>1. /\ step = "finalize" /\ step' = "write" /\ UNCHANGED input
        /\ \A s \in Range(segments) : Kind(s) = "Jump" => Diff(s) \in ShortRange
    BY <1>11 DEF FinalizeSegments, Goto
  <2>2. Room /\ BeforeFirst /\ Between /\ BehindSecond /\ Moved
    BY <1>1, <2>1 DEF SupportInvariant, LayoutInvariant
  <2>3. Reach
    BY <1>1, <2>1, <2>2, ReachIs
  <2> QED
    BY <1>1, <1>2, <2>1, <2>2, <2>3, SupportFrame DEF SupportInvariant
<1>12. CASE Write
  <2>1. step = "write" /\ step' = "done" /\ UNCHANGED input
    BY <1>12 DEF Write, Goto
  <2> QED
    BY <1>1, <2>1, SupportFrame DEF SupportInvariant
<1>13. CASE FillWithNops
  <2>1. step = "fill" /\ step' = "finalize" /\ UNCHANGED input /\ pos' = pos
    BY <1>13 DEF FillWithNops, Goto
  <2>2. Forward' = Forward /\ builder' = builder /\ Gap' = Gap /\ (Room' <=> Room)
    BY <2>1, SupportFrame
  <2>3. (BeforeFirst' <=> BeforeFirst) /\ (Between' <=> Between) /\ (BehindSecond' <=> BehindSecond)
    BY <2>1, <2>2 DEF BeforeFirst, Between, BehindSecond
  <2> QED
    BY <1>1, <2>1, <2>2, <2>3 DEF SupportInvariant
<1>14. CASE UNCHANGED vars
  <2>1. step' = step /\ UNCHANGED input /\ pos' = pos /\ segments' = segments
    BY <1>14 DEF vars, input
  <2>2. Forward' = Forward /\ builder' = builder /\ Second' = Second /\ Gap' = Gap /\ (Room' <=> Room) /\ (Supported' <=> Supported)
    BY <2>1, SupportFrame
  <2>3. /\ (BeforeFirst' <=> BeforeFirst) /\ (Between' <=> Between) /\ (SecondPlaced' <=> SecondPlaced)
        /\ (BehindSecond' <=> BehindSecond)
    BY <2>1, <2>2 DEF BeforeFirst, Between, SecondPlaced, BehindSecond
  <2> QED
    BY <1>1, <2>1, <2>2, <2>3 DEF SupportInvariant
<1> QED
  BY <1>3, <1>4, <1>5, <1>6, <1>7, <1>8, <1>9, <1>10, <1>11, <1>12, <1>13, <1>14 DEF Next

(***************************************************************************)
(* AbortsOnlyUnsupported: an assertion of place_segment or of SegJump      *)
(* fails only for distances that are not in the table Supported, and the   *)
(* builder finishes only for distances that are.  The table is exactly     *)
(* what the assertions admit: room between the two given segments for the  *)
(* ones between them, and every short jump within its range wherever       *)
(* place_segment's spacing has put it.                                     *)
(***************************************************************************)
THEOREM AbortsAreUnsupported == Spec => []AbortsOnlyUnsupported
<1>1. SupportInvariant => AbortsOnlyUnsupported
  BY DEF SupportInvariant, AbortsOnlyUnsupported
<1> QED
  BY <1>1, SupportInit, SupportNext, PTL DEF Spec

-----------------------------------------------------------------------------
(***************************************************************************)
(* The jumps that land.                                                    *)
(***************************************************************************)
\* The jne spans the distance it was given, wherever the area was moved.
LEMMA JneSpan ==
  ASSUME PlacementOK, Moved, NEW s \in Names, Kind(s) = "JneEaxZero"
  PROVE  builder = "jne" /\ src \in Int /\ dst \in Int /\ Diff(s) = dst - src - 2
<1>1. s = "src" /\ builder = "jne"
  BY DEF Kind, Names
<1>2. Inputs
  BY DEF PlacementOK, Standing
<1>3. GivenPos("src") = src - 2 /\ GivenPos("else") = dst /\ DstSegment = "else" /\ src \in Int /\ dst \in Int
  BY <1>1, <1>2, GivenIs
<1>4. PICK c \in Int : \A r \in Fixed : pos[r] = GivenPos(r) + Align * c
  BY DEF Moved
<1>5. PICK off \in Int : off = Align * c
  BY AlignAssumption
<1>6. pos["src"] = (src - 2) + off /\ pos["else"] = dst + off
  BY <1>3, <1>4, <1>5 DEF Fixed
<1>7. Target("src") = "else" /\ Size("src") = 4
  BY <1>1, <1>2, <1>3, SizeIs DEF Target
<1> QED
  BY <1>1, <1>3, <1>6, <1>7 DEF Diff, End

(***************************************************************************)
(* Every jump the builder writes lands on its target, but for the jne      *)
(* whose target is more than 129 bytes ahead, which never does: the        *)
(* assertion SegJump makes of its range is missing in SegJneEaxZero.       *)
(***************************************************************************)
THEOREM JumpsArrive == Spec => []JumpsLand
<1>1. SupportInvariant => JumpsLand
  <2> SUFFICES ASSUME SupportInvariant, step = "done", NEW s \in Jumps
               PROVE  Lands(s) = pos[Target(s)] <=> ~(Kind(s) = "JneEaxZero" /\ dst - src > 129)
    BY DEF JumpsLand
  <2>1. PlacementOK /\ Moved /\ JumpOK /\ Supported /\ segments \in Seq(Names)
    BY DEF SupportInvariant, LayoutInvariant, PlacementOK, Standing
  <2>2. s \in Names
    BY <2>1 DEF Jumps, Range
  <2>3. Lands(s) = pos[Target(s)] <=> ~(Kind(s) = "JneEaxZero" /\ Diff(s) \notin -128 .. 127)
    BY <2>1 DEF JumpOK
  <2>4. ASSUME Kind(s) = "JneEaxZero" PROVE Diff(s) \notin -128 .. 127 <=> dst - src > 129
    <3>1. builder = "jne" /\ src \in Int /\ dst \in Int /\ Diff(s) = dst - src - 2
      BY <2>1, <2>2, <2>4, JneSpan
    <3>2. PICK d \in Int : d = dst - src
      BY <3>1
    <3>3. d \in 9 .. 242 \/ -d \in 12 .. 107
      <4>1. CASE Forward
        <5>1. dst - src \in 9 .. 242
          BY <2>1, <3>1, <4>1 DEF Supported
        <5> QED
          BY <3>2, <5>1
      <4>2. CASE ~Forward
        <5>1. -(dst - src) \in 12 .. 107
          BY <2>1, <3>1, <4>2 DEF Supported
        <5> QED
          BY <3>2, <5>1
      <4> QED
        BY <4>1, <4>2
    <3>4. Diff(s) = d - 2
      BY <3>1, <3>2
    <3> QED
      BY <3>2, <3>3, <3>4
  <2> QED
    BY <2>3, <2>4
<1> QED
  BY <1>1, SupportInit, SupportNext, PTL DEF Spec
=============================================================================
