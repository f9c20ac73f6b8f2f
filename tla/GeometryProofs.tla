--------------------------- MODULE GeometryProofs ---------------------------
(* What internal/geo, offline/route.go, internal/territory and mvt.go        *)
(* promise of a call, for any input: the overlap report, the corridor of a   *)
(* route, the accounts of a dissolve and the commands of a tile's feature.   *)
(*                                                                           *)
(* A recursive function over numbers is a CHOOSE: it exists by induction     *)
(* (Recursion), and induction over a set of numbers is one application of    *)
(* the well-foundedness of < (Induction).                                    *)
(*                                                                           *)
(* The overlap report: the boxes are swept in the order of their western     *)
(* edges, so that no box behind the first that begins east of the one in     *)
(* hand overlaps it.                                                         *)
(*                                                                           *)
(* The corridor: the error of the line of a leg says how far it is, so that  *)
(* column and row arrive at the end together; of the keys passed over once,  *)
(* those kept are distinct, and a smaller budget keeps a prefix of what a    *)
(* larger one does.                                                          *)
(*                                                                           *)
(* The accounts: placed is one entry for each join.  Two orders of the       *)
(* features give sequences that are rearrangements of each other, and every  *)
(* value a territory has but those defined by an order is a function of what *)
(* is in a sequence and how often: a set, a sum, or a value of the sorted    *)
(* numbers, which are the same for both.                                     *)
(*                                                                           *)
(* The commands: of the fractions at which a segment is cut the greatest and *)
(* the least exist, and a point between them is in the tile; steps from      *)
(* point to point lead back to the points, ring after ring.                  *)
EXTENDS Geometry, FiniteSetTheorems, WellFoundedInduction, TLAPS

-----------------------------------------------------------------------------
(* Sequences                                                                 *)

LEMMA Induction ==
  ASSUME NEW S, 0 \in S, \A k \in Nat \cap S : k + 1 \in S
  PROVE  \A k \in Nat : k \in S
<1> SUFFICES ASSUME Nat \ S # {} PROVE FALSE
  OBVIOUS
<1>1. IsWellFoundedOn(OpToRel(<, Nat), Nat)
  BY NatLessThanWellFounded
<1>2. PICK k \in Nat \ S : \A m \in Nat \ S : <<m, k>> \notin OpToRel(<, Nat)
  BY <1>1, WFMin
<1>3. k \in Nat /\ k # 0
  BY <1>2
<1>4. k - 1 \in Nat /\ k - 1 < k /\ k = (k - 1) + 1
  BY <1>3
<1>5. k - 1 \notin Nat \ S
  BY <1>2, <1>4 DEF OpToRel
<1> QED BY <1>2, <1>4, <1>5

\* What is kept of the beginnings of s.
KeptBy(f, s, S, m) ==
  /\ DOMAIN f = 0..m /\ f[0] = <<>>
  /\ \A i \in 1..m : f[i] = IF s[i] \in S THEN Append(f[i - 1], s[i]) ELSE f[i - 1]

LEMMA KeptExists ==
  ASSUME NEW T, NEW s \in Seq(T), NEW S
  PROVE  \E f \in [0..Len(s) -> Seq(T)] : KeptBy(f, s, S, Len(s))
<1> DEFINE D == {m \in Nat : m <= Len(s) => \E f \in [0..m -> Seq(T)] : KeptBy(f, s, S, m)}
<1>1. 0 \in D
  <2> DEFINE f == [i \in 0..0 |-> <<>>]
  <2>1. f \in [0..0 -> Seq(T)] /\ KeptBy(f, s, S, 0)
    BY DEF KeptBy
  <2> QED BY <2>1
<1>2. ASSUME NEW m \in Nat \cap D PROVE m + 1 \in D
  <2> SUFFICES ASSUME m + 1 <= Len(s) PROVE \E f \in [0..(m + 1) -> Seq(T)] : KeptBy(f, s, S, m + 1)
    OBVIOUS
  <2>1. m \in Nat /\ m <= Len(s) /\ s[m + 1] \in T
    OBVIOUS
  <2>2. PICK f \in [0..m -> Seq(T)] : KeptBy(f, s, S, m)
    BY <2>1
  <2> DEFINE last == IF s[m + 1] \in S THEN Append(f[m], s[m + 1]) ELSE f[m]
             h == [i \in 0..(m + 1) |-> IF i = m + 1 THEN last ELSE f[i]]
  <2>3. last \in Seq(T)
    BY <2>1, <2>2
  <2>4. h \in [0..(m + 1) -> Seq(T)]
    <3> HIDE DEF last
    <3> QED BY <2>1, <2>2, <2>3
  <2>5. ASSUME NEW i \in 1..(m + 1)
        PROVE  h[i] = IF s[i] \in S THEN Append(h[i - 1], s[i]) ELSE h[i - 1]
    <3>1. CASE i = m + 1
      <4>1. h[i] = last /\ h[i - 1] = f[m]
        BY <2>1, <3>1
      <4> QED BY <3>1, <4>1
    <3>2. CASE i # m + 1
      <4>1. h[i] = f[i] /\ h[i - 1] = f[i - 1] /\ i \in 1..m
        BY <2>1, <3>2
      <4> QED BY <4>1, <2>2 DEF KeptBy
    <3> QED BY <3>1, <3>2
  <2>6. h[0] = <<>> /\ DOMAIN h = 0..(m + 1)
    BY <2>1, <2>2 DEF KeptBy
  <2>7. KeptBy(h, s, S, m + 1)
    <3> HIDE DEF h
    <3> QED BY <2>5, <2>6 DEF KeptBy
  <2> QED BY <2>4, <2>7
<1>3. \A i \in Nat : i \in D
  <2> HIDE DEF D
  <2> QED BY <1>1, <1>2, Induction
<1> QED BY <1>3

LEMMA KeptIs ==
  ASSUME NEW s, Len(s) \in Nat, NEW S, NEW f, KeptBy(f, s, S, Len(s))
  PROVE  Kept(s, S) = f[Len(s)]
<1> DEFINE Rec(g) == g = [i \in 0..Len(s) |-> IF i = 0 THEN <<>>
                                              ELSE IF s[i] \in S THEN Append(g[i - 1], s[i]) ELSE g[i - 1]]
           kept == CHOOSE g : Rec(g)
<1>1. Rec(f)
  <2> DEFINE body == [i \in 0..Len(s) |-> IF i = 0 THEN <<>>
                                          ELSE IF s[i] \in S THEN Append(f[i - 1], s[i]) ELSE f[i - 1]]
  <2>1. ASSUME NEW i \in 0..Len(s) PROVE f[i] = body[i]
    <3>1. CASE i = 0
      BY <3>1 DEF KeptBy
    <3>2. CASE i # 0
      <4>1. i \in 1..Len(s)
        BY <3>2
      <4> QED BY <3>2, <4>1 DEF KeptBy
    <3> QED BY <3>1, <3>2
  <2>2. f = [i \in 0..Len(s) |-> f[i]] /\ body = [i \in 0..Len(s) |-> body[i]]
    <3>1. DOMAIN f = 0..Len(s)
      BY DEF KeptBy
    <3> QED BY <3>1
  <2> QED BY <2>1, <2>2
<1>2. Rec(kept)
  BY <1>1
<1> HIDE DEF kept
<1>3. \A i \in 0..Len(s) : kept[i] = IF i = 0 THEN <<>>
                                     ELSE IF s[i] \in S THEN Append(kept[i - 1], s[i]) ELSE kept[i - 1]
  BY <1>2
<1> DEFINE D == {i \in Nat : i <= Len(s) => kept[i] = f[i]}
<1>4. 0 \in D
  BY <1>3 DEF KeptBy
<1>5. ASSUME NEW i \in Nat \cap D PROVE i + 1 \in D
  <2> SUFFICES ASSUME i + 1 <= Len(s) PROVE kept[i + 1] = f[i + 1]
    OBVIOUS
  <2>1. i + 1 \in 1..Len(s) /\ (i + 1) - 1 = i /\ kept[i] = f[i]
    OBVIOUS
  <2> QED BY <1>3, <2>1 DEF KeptBy
<1>6. \A i \in Nat : i \in D
  <2> HIDE DEF D
  <2> QED BY <1>4, <1>5, Induction
<1>7. kept[Len(s)] = f[Len(s)]
  BY <1>6
<1>8. Kept(s, S) = kept[Len(s)]
  BY DEF Kept, kept
<1> QED BY <1>7, <1>8

LEMMA KeptFunction ==
  ASSUME NEW T, NEW s \in Seq(T), NEW S
  PROVE  \E f \in [0..Len(s) -> Seq(T)] : KeptBy(f, s, S, Len(s)) /\ Kept(s, S) = f[Len(s)]
<1>1. PICK f \in [0..Len(s) -> Seq(T)] : KeptBy(f, s, S, Len(s))
  BY KeptExists
<1>2. Kept(s, S) = f[Len(s)]
  BY <1>1, KeptIs
<1> QED BY <1>1, <1>2

LEMMA KeptType ==
  ASSUME NEW T, NEW s \in Seq(T), NEW S
  PROVE  Kept(s, S) \in Seq(T)
<1>1. PICK f \in [0..Len(s) -> Seq(T)] : KeptBy(f, s, S, Len(s)) /\ Kept(s, S) = f[Len(s)]
  BY KeptFunction
<1>2. Len(s) \in 0..Len(s)
  OBVIOUS
<1> QED BY <1>1, <1>2

\* r is s without some of its elements: g is where the others were.
Selects(g, r, s, m, S) ==
  /\ g \in [1..Len(r) -> 1..m]
  /\ \A i \in 1..Len(r) : r[i] = s[g[i]] /\ s[g[i]] \in S
  /\ \A i, j \in 1..Len(r) : i < j => g[i] < g[j]
  /\ \A j \in 1..m : s[j] \in S => \E i \in 1..Len(r) : g[i] = j

LEMMA KeptSelects ==
  ASSUME NEW T, NEW s \in Seq(T), NEW S
  PROVE  \E g : Selects(g, Kept(s, S), s, Len(s), S)
<1>1. PICK f \in [0..Len(s) -> Seq(T)] : KeptBy(f, s, S, Len(s)) /\ Kept(s, S) = f[Len(s)]
  BY KeptFunction
<1> DEFINE D == {m \in Nat : m <= Len(s) => \E g : Selects(g, f[m], s, m, S)}
<1>2. 0 \in D
  <2> DEFINE g == [i \in {} |-> i]
  <2>1. f[0] = <<>>
    BY <1>1 DEF KeptBy
  <2>2. Selects(g, <<>>, s, 0, S)
    BY DEF Selects
  <2> QED BY <2>1, <2>2
<1>3. ASSUME NEW m \in Nat \cap D PROVE m + 1 \in D
  <2> SUFFICES ASSUME m + 1 <= Len(s) PROVE \E g : Selects(g, f[m + 1], s, m + 1, S)
    OBVIOUS
  <2>1. m \in Nat /\ m \in 0..Len(s) /\ m + 1 \in 1..Len(s) /\ (m + 1) - 1 = m
    OBVIOUS
  <2>2. PICK g : Selects(g, f[m], s, m, S)
    BY <2>1
  <2>3. f[m] \in Seq(T) /\ Len(f[m]) \in Nat
    BY <1>1, <2>1
  <2>4. f[m + 1] = IF s[m + 1] \in S THEN Append(f[m], s[m + 1]) ELSE f[m]
    BY <1>1, <2>1 DEF KeptBy
  <2>5. CASE s[m + 1] \notin S
    <3>1. Selects(g, f[m], s, m + 1, S)
      <4>1. g \in [1..Len(f[m]) -> 1..(m + 1)]
        BY <2>1, <2>2 DEF Selects
      <4>2. \A j \in 1..(m + 1) : s[j] \in S => \E i \in 1..Len(f[m]) : g[i] = j
        BY <2>1, <2>2, <2>5 DEF Selects
      <4> QED BY <2>2, <4>1, <4>2 DEF Selects
    <3> QED BY <2>4, <2>5, <3>1
  <2>6. CASE s[m + 1] \in S
    <3> DEFINE r == Append(f[m], s[m + 1])
               h == [i \in 1..Len(r) |-> IF i = Len(r) THEN m + 1 ELSE g[i]]
    <3>1. /\ Len(r) = Len(f[m]) + 1 /\ r[Len(r)] = s[m + 1]
          /\ \A i \in 1..Len(f[m]) : r[i] = f[m][i]
      BY <2>1, <2>3
    <3> HIDE DEF r
    <3>2. /\ h \in [1..Len(r) -> 1..(m + 1)] /\ h[Len(r)] = m + 1
          /\ \A i \in 1..Len(f[m]) : h[i] = g[i] /\ h[i] \in 1..m
      BY <2>1, <2>2, <2>3, <3>1 DEF Selects
    <3>3. \A i \in 1..Len(r) : i = Len(r) \/ i \in 1..Len(f[m])
      BY <2>3, <3>1
    <3> HIDE DEF h
    <3>4. \A i \in 1..Len(r) : r[i] = s[h[i]] /\ s[h[i]] \in S
      BY <2>2, <2>6, <3>1, <3>2, <3>3 DEF Selects
    <3>5. ASSUME NEW i \in 1..Len(r), NEW j \in 1..Len(r), i < j PROVE h[i] < h[j]
      <4>1. i \in 1..Len(f[m])
        BY <2>3, <3>1, <3>5
      <4>2. CASE j = Len(r)
        BY <2>1, <3>2, <4>1, <4>2
      <4>3. CASE j \in 1..Len(f[m])
        BY <2>2, <3>2, <3>5, <4>1, <4>3 DEF Selects
      <4> QED BY <3>3, <4>2, <4>3
    <3>6. ASSUME NEW j \in 1..(m + 1), s[j] \in S PROVE \E i \in 1..Len(r) : h[i] = j
      <4>1. CASE j = m + 1
        BY <2>3, <3>1, <3>2, <4>1
      <4>2. CASE j # m + 1
        <5>1. j \in 1..m
          BY <2>1, <4>2
        <5>2. PICK i \in 1..Len(f[m]) : g[i] = j
          BY <2>2, <3>6, <5>1 DEF Selects
        <5>3. i \in 1..Len(r)
          BY <2>3, <3>1
        <5> QED BY <3>2, <5>2, <5>3
      <4> QED BY <4>1, <4>2
    <3>7. Selects(h, r, s, m + 1, S)
      BY <3>2, <3>4, <3>5, <3>6 DEF Selects
    <3> QED BY <2>4, <2>6, <3>7 DEF r
  <2> QED BY <2>5, <2>6
<1>4. \A m \in Nat : m \in D
  <2> HIDE DEF D
  <2> QED BY <1>2, <1>3, Induction
<1>5. \E g : Selects(g, f[Len(s)], s, Len(s), S)
  BY <1>4
<1> QED BY <1>1, <1>5

LEMMA KeptElements ==
  ASSUME NEW T, NEW s \in Seq(T), NEW S
  PROVE  /\ \A i \in 1..Len(Kept(s, S)) : Kept(s, S)[i] \in S /\ \E j \in 1..Len(s) : Kept(s, S)[i] = s[j]
         /\ \A j \in 1..Len(s) : s[j] \in S => \E i \in 1..Len(Kept(s, S)) : Kept(s, S)[i] = s[j]
<1>1. PICK g : Selects(g, Kept(s, S), s, Len(s), S)
  BY KeptSelects
<1> QED BY <1>1, SMTT(30) DEF Selects

\* The sequences of ss, one after the other.
FlattenedBy(f, ss, m) ==
  /\ DOMAIN f = 1..m
  /\ \A i \in 1..m : f[i] = IF i = 1 THEN ss[i] ELSE f[i - 1] \o ss[i]

LEMMA FlattenExists ==
  ASSUME NEW T, NEW ss \in Seq(Seq(T))
  PROVE  \E f \in [1..Len(ss) -> Seq(T)] : FlattenedBy(f, ss, Len(ss))
<1> DEFINE D == {m \in Nat : m <= Len(ss) => \E f \in [1..m -> Seq(T)] : FlattenedBy(f, ss, m)}
<1>1. 0 \in D
  <2> DEFINE f == [i \in 1..0 |-> <<>>]
  <2>1. f \in [1..0 -> Seq(T)] /\ FlattenedBy(f, ss, 0)
    BY DEF FlattenedBy
  <2> QED BY <2>1
<1>2. ASSUME NEW m \in Nat \cap D PROVE m + 1 \in D
  <2> SUFFICES ASSUME m + 1 <= Len(ss) PROVE \E f \in [1..(m + 1) -> Seq(T)] : FlattenedBy(f, ss, m + 1)
    OBVIOUS
  <2>1. m \in Nat /\ m <= Len(ss) /\ ss[m + 1] \in Seq(T)
    OBVIOUS
  <2>2. PICK f \in [1..m -> Seq(T)] : FlattenedBy(f, ss, m)
    BY <2>1
  <2> DEFINE last == IF m = 0 THEN ss[m + 1] ELSE f[m] \o ss[m + 1]
             h == [i \in 1..(m + 1) |-> IF i = m + 1 THEN last ELSE f[i]]
  <2>3. last \in Seq(T)
    <3>1. CASE m = 0
      BY <2>1, <3>1
    <3>2. CASE m # 0
      <4>1. f[m] \in Seq(T)
        BY <2>1, <2>2, <3>2
      <4> QED BY <2>1, <3>2, <4>1
    <3> QED BY <3>1, <3>2
  <2>4. h \in [1..(m + 1) -> Seq(T)]
    <3> HIDE DEF last
    <3> QED BY <2>1, <2>2, <2>3
  <2>5. ASSUME NEW i \in 1..(m + 1)
        PROVE  h[i] = IF i = 1 THEN ss[i] ELSE h[i - 1] \o ss[i]
    <3>1. CASE i = m + 1 /\ m = 0
      BY <3>1
    <3>2. CASE i = m + 1 /\ m # 0
      <4>1. h[i] = last /\ h[i - 1] = f[m] /\ i # 1
        <5> HIDE DEF last
        <5> QED BY <2>1, <3>2
      <4> HIDE DEF h
      <4> QED BY <3>2, <4>1
    <3>3. CASE i # m + 1 /\ i # 1
      <4>1. h[i] = f[i] /\ h[i - 1] = f[i - 1] /\ i \in 1..m
        BY <2>1, <3>3
      <4>2. f[i] = f[i - 1] \o ss[i]
        BY <4>1, <2>2, <3>3 DEF FlattenedBy
      <4> QED BY <3>3, <4>1, <4>2
    <3>4. CASE i # m + 1 /\ i = 1
      <4>1. h[i] = f[i] /\ i \in 1..m
        BY <2>1, <3>4
      <4>2. f[i] = ss[i]
        BY <4>1, <2>2, <3>4 DEF FlattenedBy
      <4> QED BY <3>4, <4>1, <4>2
    <3> QED BY <3>1, <3>2, <3>3, <3>4
  <2>6. DOMAIN h = 1..(m + 1)
    OBVIOUS
  <2>7. FlattenedBy(h, ss, m + 1)
    <3> HIDE DEF h
    <3> QED BY <2>5, <2>6 DEF FlattenedBy
  <2> QED BY <2>4, <2>7
<1>3. \A i \in Nat : i \in D
  <2> HIDE DEF D
  <2> QED BY <1>1, <1>2, Induction
<1> QED BY <1>3

-----------------------------------------------------------------------------
(* Numbers                                                                   *)

LEMMA GreatestExists ==
  ASSUME NEW N \in Nat \ {0}, NEW f, \A i \in 1..N : f[i] \in Int
  PROVE  \E m \in 1..N : \A i \in 1..N : f[i] <= f[m]
<1> DEFINE D == {k \in Nat : k + 1 <= N => \E m \in 1..(k + 1) : \A i \in 1..(k + 1) : f[i] <= f[m]}
<1>1. 0 \in D
  OBVIOUS
<1>2. ASSUME NEW k \in Nat \cap D PROVE k + 1 \in D
  <2> SUFFICES ASSUME (k + 1) + 1 <= N
               PROVE  \E m \in 1..((k + 1) + 1) : \A i \in 1..((k + 1) + 1) : f[i] <= f[m]
    OBVIOUS
  <2>1. PICK m \in 1..(k + 1) : \A i \in 1..(k + 1) : f[i] <= f[m]
    OBVIOUS
  <2>2. f[m] \in Int /\ f[k + 2] \in Int /\ \A i \in 1..(k + 2) : f[i] \in Int
    OBVIOUS
  <2>3. CASE f[k + 2] <= f[m]
    BY <2>1, <2>3
  <2>4. CASE f[m] < f[k + 2]
    <3>1. \A i \in 1..(k + 2) : f[i] <= f[k + 2]
      BY <2>1, <2>2, <2>4
    <3> QED BY <3>1
  <2> QED BY <2>2, <2>3, <2>4
<1>3. \A k \in Nat : k \in D
  <2> HIDE DEF D
  <2> QED BY <1>1, <1>2, Induction
<1>4. N - 1 \in D
  BY <1>3
<1> QED BY <1>4

LEMMA MaxOf ==
  ASSUME NEW N \in Nat \ {0}, NEW f, \A i \in 1..N : f[i] \in Int,
         NEW S, S = {f[i] : i \in 1..N}
  PROVE  Max(S) \in S /\ \A x \in S : x <= Max(S)
<1>1. PICK m \in 1..N : \A i \in 1..N : f[i] <= f[m]
  BY GreatestExists
<1>2. S \subseteq Int /\ f[m] \in S /\ \A x \in S : f[m] >= x
  BY <1>1
<1> QED BY <1>2 DEF Max

LEMMA MinOf ==
  ASSUME NEW N \in Nat \ {0}, NEW f, \A i \in 1..N : f[i] \in Int,
         NEW S, S = {f[i] : i \in 1..N}
  PROVE  Min(S) \in S /\ \A x \in S : Min(S) <= x
<1> DEFINE h == [i \in 1..N |-> 0 - f[i]]
<1>1. \A i \in 1..N : h[i] \in Int
  OBVIOUS
<1>2. PICK m \in 1..N : \A i \in 1..N : h[i] <= h[m]
  <2> HIDE DEF h
  <2> QED BY <1>1, GreatestExists
<1>3. S \subseteq Int /\ f[m] \in S /\ \A x \in S : f[m] <= x
  BY <1>2
<1> QED BY <1>3 DEF Min

LEMMA PairMinMax ==
  ASSUME NEW a \in Int, NEW b \in Int
  PROVE  /\ Min({a, b}) = IF a <= b THEN a ELSE b
         /\ Max({a, b}) = IF a <= b THEN b ELSE a
BY DEF Min, Max

LEMMA SideFacts ==
  ASSUME NEW z \in Nat
  PROVE  Side(z) \in Nat \ {0}
<1> DEFINE D1 == {m \in Nat : \E f \in [0..m -> Nat \ {0}] :
                    f = [k \in 0..m |-> IF k = 0 THEN 1 ELSE 2 * f[k - 1]]}
<1>1. 0 \in D1
  <2> DEFINE f == [k \in 0..0 |-> 1]
  <2>1. f \in [0..0 -> Nat \ {0}] /\ f = [k \in 0..0 |-> IF k = 0 THEN 1 ELSE 2 * f[k - 1]]
    OBVIOUS
  <2> QED BY <2>1
<1>2. ASSUME NEW m \in Nat \cap D1 PROVE m + 1 \in D1
  <2>1. PICK f \in [0..m -> Nat \ {0}] : f = [k \in 0..m |-> IF k = 0 THEN 1 ELSE 2 * f[k - 1]]
    OBVIOUS
  <2> DEFINE h == [k \in 0..(m + 1) |-> IF k = m + 1 THEN 2 * f[m] ELSE f[k]]
             body == [k \in 0..(m + 1) |-> IF k = 0 THEN 1 ELSE 2 * h[k - 1]]
  <2>2. h \in [0..(m + 1) -> Nat \ {0}]
    <3>1. f[m] \in Nat \ {0}
      OBVIOUS
    <3> QED BY <3>1
  <2>3. ASSUME NEW k \in 0..(m + 1) PROVE h[k] = body[k]
    <3>1. CASE k = m + 1
      BY <3>1
    <3>2. CASE k # m + 1 /\ k # 0
      <4>1. k \in 0..m /\ k - 1 \in 0..m /\ f[k] = 2 * f[k - 1]
        BY <2>1, <3>2
      <4> QED BY <3>2, <4>1
    <3>3. CASE k = 0
      <4>1. f[0] = 1
        BY <2>1
      <4> QED BY <3>3, <4>1
    <3> QED BY <3>1, <3>2, <3>3
  <2>4. h = body
    BY <2>2, <2>3
  <2> HIDE DEF h
  <2> QED BY <2>2, <2>4, SMTT(30)
<1>3. \A m \in Nat : m \in D1
  <2> HIDE DEF D1
  <2> QED BY <1>1, <1>2, Induction
<1> DEFINE Rec(f) == f = [k \in 0..z |-> IF k = 0 THEN 1 ELSE 2 * f[k - 1]]
           side == CHOOSE f : Rec(f)
<1>4. \E f : Rec(f)
  BY <1>3
<1>5. Rec(side)
  BY <1>4
<1> HIDE DEF side
<1>6. \A k \in 0..z : side[k] = IF k = 0 THEN 1 ELSE 2 * side[k - 1]
  BY <1>5
<1> DEFINE D2 == {k \in Nat : k <= z => side[k] \in Nat \ {0}}
<1>7. 0 \in D2
  BY <1>6
<1>8. ASSUME NEW k \in Nat \cap D2 PROVE k + 1 \in D2
  BY <1>6
<1>9. \A k \in Nat : k \in D2
  <2> HIDE DEF D2
  <2> QED BY <1>7, <1>8, Induction
<1>10. Side(z) = side[z]
  BY DEF Side, side
<1> QED BY <1>9, <1>10

-----------------------------------------------------------------------------
(* Tiles                                                                     *)

LEMMA DivisionPlace ==
  ASSUME NEW N \in Nat \ {0}, NEW x \in 0..(N - 1), NEW y \in 0..(N - 1)
  PROVE  (x * N + y) \div N = x /\ (x * N + y) % N = y /\ x * N + y \in 0..(N * N - 1)
OBVIOUS

LEMMA DivisionRange ==
  ASSUME NEW N \in Nat \ {0}, NEW i \in 0..(N * N - 1)
  PROVE  i \div N \in 0..(N - 1) /\ i % N \in 0..(N - 1)
OBVIOUS

-----------------------------------------------------------------------------
(* The overlap report                                                        *)

LEMMA FiniteImage ==
  ASSUME NEW S, IsFiniteSet(S), NEW f
  PROVE  IsFiniteSet({f[x] : x \in S})
<1> DEFINE T == {f[x] : x \in S}
           g == [x \in S |-> f[x]]
<1>1. g \in Surjection(S, T)
  BY DEF Surjection
<1> HIDE DEF g
<1> QED BY <1>1, FS_Surjection

\* A finite set of integers has a least and a greatest one.
LEMMA FiniteBounds ==
  ASSUME NEW S \in SUBSET Int, IsFiniteSet(S), S # {}
  PROVE  Min(S) \in S /\ Max(S) \in S /\ \A x \in S : Min(S) <= x /\ x <= Max(S)
<1>1. PICK N \in Nat : ExistsBijection(1..N, S)
  BY FS_CardinalityType
<1>2. PICK f : f \in Bijection(1..N, S)
  BY <1>1 DEF ExistsBijection
<1>3. S = {f[i] : i \in 1..N} /\ \A i \in 1..N : f[i] \in Int
  BY <1>2 DEF Bijection, Surjection
<1>4. N # 0
  BY <1>3
<1>5. N \in Nat \ {0}
  BY <1>4
<1>6. Min(S) \in S /\ \A x \in S : Min(S) <= x
  BY <1>3, <1>5, MinOf
<1>7. Max(S) \in S /\ \A x \in S : x <= Max(S)
  BY <1>3, <1>5, MaxOf
<1> QED BY <1>6, <1>7

IsGeometry(mp) == mp \in Seq(Seq(Seq(Int \X Int)))

LEMMA CornersType ==
  ASSUME NEW mp, IsGeometry(mp)
  PROVE  Corners(mp) \subseteq Int \X Int /\ IsFiniteSet(Corners(mp))
<1> DEFINE P == {p \in DOMAIN mp : mp[p] # <<>>}
           first == [p \in P |-> ToSet(mp[p][1])]
<1>1. IsFiniteSet(DOMAIN mp) /\ IsFiniteSet(P)
  <2>1. DOMAIN mp = 1..Len(mp) /\ Len(mp) \in Nat
    BY DEF IsGeometry
  <2>2. IsFiniteSet(DOMAIN mp)
    BY <2>1, FS_Interval
  <2> QED BY <2>2, FS_Subset
<1>2. ASSUME NEW p \in P PROVE ToSet(mp[p][1]) \subseteq Int \X Int /\ IsFiniteSet(ToSet(mp[p][1]))
  <2>1. mp[p] \in Seq(Seq(Int \X Int)) /\ mp[p] # <<>>
    BY DEF IsGeometry
  <2>2. mp[p][1] \in Seq(Int \X Int)
    BY <2>1
  <2>3. DOMAIN mp[p][1] = 1..Len(mp[p][1]) /\ Len(mp[p][1]) \in Nat /\ \A i \in DOMAIN mp[p][1] : mp[p][1][i] \in Int \X Int
    BY <2>2
  <2>4. IsFiniteSet(DOMAIN mp[p][1])
    BY <2>3, FS_Interval
  <2> QED BY <2>3, <2>4, FiniteImage DEF ToSet
<1>3. Corners(mp) = UNION {first[p] : p \in P}
  BY DEF Corners
<1>4. IsFiniteSet({first[p] : p \in P})
  <2> HIDE DEF first, P
  <2> QED BY <1>1, FiniteImage
<1>5. \A T \in {first[p] : p \in P} : IsFiniteSet(T) /\ T \subseteq Int \X Int
  BY <1>2
<1> HIDE DEF first, P
<1> QED BY <1>3, <1>4, <1>5, FS_UNION

LEMMA BBoxType ==
  ASSUME NEW mp, IsGeometry(mp), Corners(mp) # {}
  PROVE  BBox(mp) \in Int \X Int \X Int \X Int
<1> DEFINE C == Corners(mp)
           first == [c \in C |-> c[1]]
           second == [c \in C |-> c[2]]
           X == {first[c] : c \in C}
           Y == {second[c] : c \in C}
<1>1. C \subseteq Int \X Int /\ IsFiniteSet(C) /\ C # {}
  BY CornersType
<1>2. IsFiniteSet(X) /\ IsFiniteSet(Y)
  <2> HIDE DEF C, first, second
  <2> QED BY <1>1, FiniteImage
<1>3. X \in SUBSET Int /\ Y \in SUBSET Int /\ X # {} /\ Y # {}
  BY <1>1
<1>4. X = {c[1] : c \in C} /\ Y = {c[2] : c \in C}
  OBVIOUS
<1>5. BBox(mp) = <<Min(X), Min(Y), Max(X), Max(Y)>>
  BY <1>4 DEF BBox
<1> HIDE DEF X, Y
<1>6. Min(X) \in Int /\ Max(X) \in Int /\ Min(Y) \in Int /\ Max(Y) \in Int
  BY <1>2, <1>3, FiniteBounds
<1> QED BY <1>5, <1>6

\* What two boxes with an area in common have to do with a sweep eastwards.
LEMMA OverlapMeans ==
  ASSUME NEW a \in Int \X Int \X Int \X Int, NEW b \in Int \X Int \X Int \X Int
  PROVE  /\ bboxAreaOverlap(a, b) => a[1] < b[3] /\ b[1] < a[3]
         /\ bboxAreaOverlap(a, b) <=> bboxAreaOverlap(b, a)
<1>1. a[1] \in Int /\ b[1] \in Int /\ a[3] \in Int /\ b[3] \in Int
  OBVIOUS
<1>2. /\ Max({a[1], b[1]}) = IF a[1] <= b[1] THEN b[1] ELSE a[1]
      /\ Min({a[3], b[3]}) = IF a[3] <= b[3] THEN a[3] ELSE b[3]
  BY <1>1, PairMinMax
<1>3. bboxAreaOverlap(a, b) => a[1] < b[3] /\ b[1] < a[3]
  BY <1>1, <1>2 DEF bboxAreaOverlap
<1>4. \A i \in 1..4 : {a[i], b[i]} = {b[i], a[i]}
  OBVIOUS
<1> QED BY <1>3, <1>4 DEF bboxAreaOverlap

LEMMA SortedAlong ==
  ASSUME NEW N \in Nat, NEW w, \A i \in 1..N : w[i] \in Int, \A i \in 1..(N - 1) : w[i] <= w[i + 1]
  PROVE  \A i, k \in 1..N : i <= k => w[i] <= w[k]
<1> DEFINE D == {k \in Nat : k <= N => \A i \in 1..k : w[i] <= w[k]}
<1>1. 0 \in D
  OBVIOUS
<1>2. ASSUME NEW k \in Nat \cap D PROVE k + 1 \in D
  <2> SUFFICES ASSUME k + 1 <= N, NEW i \in 1..(k + 1) PROVE w[i] <= w[k + 1]
    OBVIOUS
  <2>1. w[i] \in Int /\ w[k + 1] \in Int
    OBVIOUS
  <2>2. CASE i = k + 1
    BY <2>1, <2>2
  <2>3. CASE i # k + 1
    <3>1. i \in 1..k /\ k \in 1..(N - 1) /\ w[k] \in Int
      BY <2>3
    <3>2. w[i] <= w[k] /\ w[k] <= w[k + 1]
      BY <3>1
    <3> QED BY <2>1, <3>1, <3>2
  <2> QED BY <2>2, <2>3
<1>3. \A k \in Nat : k \in D
  <2> HIDE DEF D
  <2> QED BY <1>1, <1>2, Induction
<1> QED BY <1>3

Boxed(fs) == {f \in DOMAIN fs : Corners(fs[f].geometry) # {}}

BoxOf(fs, f) == BBox(fs[f].geometry)

LEMMA SweepFindsOverlaps ==
  ASSUME NEW fs, IsFiniteSet(DOMAIN fs), \A f \in DOMAIN fs : IsGeometry(fs[f].geometry),
         NEW order \in SweepOrders(fs)
  PROVE  detectOverlaps(fs, order) =
           {{pair[1], pair[2]} : pair \in {pair \in Boxed(fs) \X Boxed(fs) :
              pair[1] # pair[2] /\ bboxAreaOverlap(BoxOf(fs, pair[1]), BoxOf(fs, pair[2]))}}
<1> DEFINE boxed == Boxed(fs)
           N == Cardinality(boxed)
           box == [i \in DOMAIN order |-> BoxOf(fs, order[i])]
           w == [i \in DOMAIN order |-> box[i][1]]
           Scanned(i, j) == i < j /\ \A k \in (i + 1)..j : box[k][1] < box[i][3]
           pairs == {pair \in (DOMAIN order) \X (DOMAIN order) :
                       Scanned(pair[1], pair[2]) /\ bboxAreaOverlap(box[pair[1]], box[pair[2]])}
           found == {{order[pair[1]], order[pair[2]]} : pair \in pairs}
           overlapping == {pair \in boxed \X boxed :
                             pair[1] # pair[2] /\ bboxAreaOverlap(BoxOf(fs, pair[1]), BoxOf(fs, pair[2]))}
<1>1. detectOverlaps(fs, order) = found
  BY DEF detectOverlaps, BoxOf
<1>2. IsFiniteSet(boxed) /\ N \in Nat
  BY FS_Subset, FS_CardinalityType DEF Boxed
<1>3. /\ order \in [1..N -> boxed] /\ ToSet(order) = boxed
      /\ \A i \in 1..(Len(order) - 1) : BoxOf(fs, order[i])[1] <= BoxOf(fs, order[i + 1])[1]
  BY DEF SweepOrders, Boxed, BoxOf
<1>4. DOMAIN order = 1..N /\ Len(order) = N
  BY <1>2, <1>3
<1>5. ASSUME NEW i \in 1..N, NEW j \in 1..N, order[i] = order[j] PROVE i = j
  <2>1. order \in Surjection(1..N, boxed)
    BY <1>3, <1>4 DEF Surjection, ToSet
  <2>2. IsFiniteSet(1..N) /\ Cardinality(1..N) = Cardinality(boxed)
    BY <1>2, FS_Interval
  <2>3. order \in Injection(1..N, boxed)
    BY <2>1, <2>2, FS_SurjSameCardinalityImpliesInj
  <2> QED BY <1>5, <2>3 DEF Injection, IsInjective
<1>6. \A f \in boxed : BoxOf(fs, f) \in Int \X Int \X Int \X Int
  BY BBoxType DEF Boxed, BoxOf
<1>7. \A i \in 1..N : box[i] \in Int \X Int \X Int \X Int /\ box[i] = BoxOf(fs, order[i]) /\ w[i] = box[i][1]
  BY <1>3, <1>4, <1>6
<1>8. \A i, k \in 1..N : i <= k => w[i] <= w[k]
  <2>1. \A i \in 1..N : w[i] \in Int
    BY <1>7
  <2>2. \A i \in 1..(N - 1) : w[i] <= w[i + 1]
    BY <1>2, <1>3, <1>4, <1>7
  <2> HIDE DEF w
  <2> QED BY <1>2, <2>1, <2>2, SortedAlong
<1>9. \A i, k \in 1..N : i <= k => box[i][1] <= box[k][1]
  BY <1>7, <1>8
<1>10. \A i \in DOMAIN order : order[i] \in boxed
  BY <1>3
<1> HIDE DEF box, w, boxed, N
<1>11. ASSUME NEW i \in 1..N, NEW j \in 1..N, i < j, bboxAreaOverlap(box[i], box[j])
       PROVE  {order[i], order[j]} \in found
  <2>1. box[j][1] < box[i][3]
    BY <1>7, <1>11, OverlapMeans
  <2>2. ASSUME NEW k \in (i + 1)..j PROVE box[k][1] < box[i][3]
    <3>1. k \in 1..N /\ k <= j
      BY <1>2
    <3>2. box[k][1] <= box[j][1] /\ box[k][1] \in Int /\ box[j][1] \in Int /\ box[i][3] \in Int
      BY <1>7, <1>9, <3>1
    <3> QED BY <2>1, <3>2
  <2>3. Scanned(i, j)
    BY <1>11, <2>2
  <2>4. <<i, j>> \in pairs
    BY <1>4, <1>11, <2>3
  <2> QED BY <2>4
<1>12. found \subseteq {{pair[1], pair[2]} : pair \in overlapping}
  <2> SUFFICES ASSUME NEW pair \in pairs
               PROVE  {order[pair[1]], order[pair[2]]} \in {{p[1], p[2]} : p \in overlapping}
    OBVIOUS
  <2>1. /\ pair[1] \in 1..N /\ pair[2] \in 1..N /\ pair[1] < pair[2]
        /\ bboxAreaOverlap(box[pair[1]], box[pair[2]])
    BY <1>4
  <2>2. pair[1] # pair[2]
    BY <1>2, <2>1
  <2>3. order[pair[1]] # order[pair[2]] /\ order[pair[1]] \in boxed /\ order[pair[2]] \in boxed
    BY <1>4, <1>5, <1>10, <2>1, <2>2
  <2>4. <<order[pair[1]], order[pair[2]]>> \in overlapping
    BY <1>7, <2>1, <2>3
  <2> HIDE DEF overlapping
  <2> QED BY <2>4
<1>13. {{pair[1], pair[2]} : pair \in overlapping} \subseteq found
  <2> SUFFICES ASSUME NEW pair \in overlapping PROVE {pair[1], pair[2]} \in found
    OBVIOUS
  <2>1. /\ pair[1] \in boxed /\ pair[2] \in boxed /\ pair[1] # pair[2]
        /\ bboxAreaOverlap(BoxOf(fs, pair[1]), BoxOf(fs, pair[2]))
    OBVIOUS
  <2>2. PICK i \in 1..N : order[i] = pair[1]
    BY <1>3, <1>4, <2>1 DEF ToSet
  <2>3. PICK j \in 1..N : order[j] = pair[2]
    BY <1>3, <1>4, <2>1 DEF ToSet
  <2>4. i \in Int /\ j \in Int /\ i # j
    BY <1>2, <2>1, <2>2, <2>3
  <2>5. bboxAreaOverlap(box[i], box[j]) /\ bboxAreaOverlap(box[j], box[i])
    BY <1>7, <2>1, <2>2, <2>3, OverlapMeans
  <2>6. {pair[1], pair[2]} = {order[i], order[j]} /\ {pair[1], pair[2]} = {order[j], order[i]}
    BY <2>2, <2>3
  <2>7. CASE i < j
    <3> HIDE DEF found
    <3> QED BY <1>11, <2>5, <2>6, <2>7
  <2>8. CASE j < i
    <3> HIDE DEF found
    <3> QED BY <1>11, <2>5, <2>6, <2>8
  <2> QED BY <2>4, <2>7, <2>8
<1> QED BY <1>1, <1>12, <1>13 DEF boxed

\* A validation that has answered answered for one of the orders.
ReportInv ==
  /\ job \in Jobs
  /\ Done("territory") => \E order \in SweepOrders(job.call.features) : result = Validate(job.call, order)

LEMMA ReportInvInit == GeometryInit => ReportInv
BY DEF GeometryInit, ReportInv, Done

LEMMA ReportInvNext == ReportInv /\ [GeometryNext]_geometryVars => ReportInv'
<1> SUFFICES ASSUME ReportInv, [GeometryNext]_geometryVars PROVE ReportInv'
  OBVIOUS
<1> USE DEF ReportInv, Done
<1>1. ASSUME UNCHANGED <<job, result>> PROVE ReportInv'
  BY <1>1
<1>2. ASSUME UNCHANGED job, job.kind # "territory" PROVE ReportInv'
  BY <1>2
<1>3. CASE PlanRoute
  BY <1>2, <1>3 DEF PlanRoute, Answer
<1>4. CASE AssembleRings
  BY <1>2, <1>4 DEF AssembleRings, Answer
<1>5. CASE CollectBoundaries
  BY <1>2, <1>5 DEF CollectBoundaries, Answer
<1>6. CASE ValidateTerritories
  BY <1>6 DEF ValidateTerritories, Answer
<1>7. CASE EncodeFeature
  BY <1>2, <1>7 DEF EncodeFeature, Answer
<1>8. CASE SignRings
  BY <1>2, <1>8 DEF SignRings, Answer
<1>9. CASE SimplifyStep
  BY <1>1, <1>9 DEF SimplifyStep
<1>10. CASE UNCHANGED geometryVars
  BY <1>1, <1>10 DEF geometryVars
<1> QED BY <1>3, <1>4, <1>5, <1>6, <1>7, <1>8, <1>9, <1>10 DEF GeometryNext

LEMMA ReportInvImplies == ReportInv => OverlapsAreFound
<1> SUFFICES ASSUME ReportInv, Done("territory"), ~result.err PROVE OverlapsAreFound
  BY DEF OverlapsAreFound
<1> DEFINE opts == job.call
<1>1. PICK order \in SweepOrders(opts.features) : result = Validate(opts, order)
  BY DEF ReportInv
<1>2. result.overlaps = detectOverlaps(opts.features, order)
  BY <1>1 DEF Validate, Report
<1>3. IsFiniteSet(DOMAIN opts.features) /\ \A f \in DOMAIN opts.features : IsGeometry(opts.features[f].geometry)
  <2>1. opts.features \in Seq(ToSet(opts.features)) /\ \A f \in DOMAIN opts.features : IsGeometry(opts.features[f].geometry)
    BY JobsAssumption DEF ReportInv, Done, IsGeometry
  <2>2. DOMAIN opts.features = 1..Len(opts.features) /\ Len(opts.features) \in Nat
    BY <2>1
  <2> QED BY <2>1, <2>2, FS_Interval
<1> HIDE DEF opts
<1>4. detectOverlaps(opts.features, order) =
        {{pair[1], pair[2]} : pair \in {pair \in Boxed(opts.features) \X Boxed(opts.features) :
           pair[1] # pair[2] /\ bboxAreaOverlap(BoxOf(opts.features, pair[1]), BoxOf(opts.features, pair[2]))}}
  BY <1>1, <1>3, SweepFindsOverlaps
<1> QED BY <1>2, <1>4 DEF OverlapsAreFound, Boxed, BoxOf, opts

(* The overlap report has every pair of features whose boxes have an area in *)
(* common and no other, for any number of features of any geometry, however  *)
(* the sort leaves equal western edges.                                      *)
THEOREM SweepIsComplete == GeometrySpec => []OverlapsAreFound
<1> QED BY ReportInvInit, ReportInvNext, ReportInvImplies, PTL DEF GeometrySpec

-----------------------------------------------------------------------------
(* The identity of rings                                                     *)

LEMMA DivisionIsUnique ==
  ASSUME NEW d \in Nat \ {0}, NEW q \in Int, NEW r \in 0..(d - 1)
  PROVE  (d * q + r) \div d = q /\ (d * q + r) % d = r
<1> DEFINE N == d * q + r
           q1 == N \div d
           r1 == N % d
<1>1. N \in Int /\ q1 \in Int /\ r1 \in 0..(d - 1) /\ N = d * q1 + r1
  OBVIOUS
<1>2. N = d * q + r
  OBVIOUS
<1> HIDE DEF N, q1, r1
<1>3. d * (q1 - q) = r - r1
  BY <1>1, <1>2
<1>4. q1 - q \in Int /\ r - r1 < d /\ r - r1 > -d
  BY <1>1
<1>5. q1 - q < 1
  <2> SUFFICES ASSUME q1 - q >= 1 PROVE FALSE
    BY <1>4
  <2>1. d * (q1 - q) >= d
    BY <1>4
  <2> QED BY <1>3, <1>4, <2>1
<1>6. q1 - q > -1
  <2> SUFFICES ASSUME q1 - q <= -1 PROVE FALSE
    BY <1>4
  <2>1. d * (q1 - q) <= -d
    BY <1>4
  <2> QED BY <1>3, <1>4, <2>1
<1>7. q1 = q
  BY <1>1, <1>5, <1>6
<1> QED BY <1>1, <1>2, <1>7 DEF q1, r1, N

LEMMA DivisionIs ==
  ASSUME NEW d \in Nat \ {0}, NEW N \in Int
  PROVE  N \div d \in Int /\ N % d \in 0..(d - 1) /\ N = d * (N \div d) + (N % d)
OBVIOUS

LEMMA SmallRemainder ==
  ASSUME NEW d \in Nat \ {0}, NEW N \in 0..(d - 1)
  PROVE  N % d = N
<1>1. N = d * 0 + N
  OBVIOUS
<1>2. (d * 0 + N) % d = N
  BY DivisionIsUnique
<1> QED BY <1>1, <1>2

LEMMA RemainderOfTurn ==
  ASSUME NEW N \in Nat \ {0}, NEW a \in Int
  PROVE  (a + N) % N = a % N
<1> DEFINE r == a % N
           A == a \div N
<1>1. A \in Int /\ r \in 0..(N - 1) /\ a = N * A + r
  BY DivisionIs
<1> HIDE DEF r, A
<1>2. a + N = N * (A + 1) + r
  BY <1>1
<1>3. (a + N) % N = r
  BY <1>1, <1>2, DivisionIsUnique
<1> QED BY <1>3 DEF r

-----------------------------------------------------------------------------
(* Recursive functions                                                       *)

\* A recursion over numbers has values; its steps are given as a function.
Recurs(T, b, N, G) == \E f \in [0..N -> T] : f[0] = b /\ \A i \in 1..N : f[i] = G[i][f[i - 1]]

LEMMA Recursion ==
  ASSUME NEW T, NEW b \in T, NEW N \in Nat, NEW G \in [1..N -> [T -> T]]
  PROVE  Recurs(T, b, N, G)
<1> DEFINE Fits(k, f) == f \in [0..k -> T] /\ f[0] = b /\ \A i \in 1..k : f[i] = G[i][f[i - 1]]
           D == {k \in Nat : k <= N => \E f : Fits(k, f)}
<1>1. 0 \in D
  <2> DEFINE f == [i \in 0..0 |-> b]
  <2>1. Fits(0, f)
    OBVIOUS
  <2> HIDE DEF Fits
  <2> QED BY <2>1
<1>2. ASSUME NEW k \in Nat \cap D PROVE k + 1 \in D
  <2> SUFFICES ASSUME k + 1 <= N PROVE \E f : Fits(k + 1, f)
    <3> HIDE DEF Fits
    <3> QED OBVIOUS
  <2>1. PICK f : Fits(k, f)
    <3> HIDE DEF Fits
    <3> QED OBVIOUS
  <2> DEFINE g == [i \in 0..(k + 1) |-> IF i <= k THEN f[i] ELSE G[k + 1][f[k]]]
  <2>2. k + 1 \in 1..N /\ f[k] \in T /\ G[k + 1][f[k]] \in T
    BY <2>1
  <2>3. g \in [0..(k + 1) -> T] /\ g[0] = b
    BY <2>1, <2>2
  <2>4. ASSUME NEW i \in 1..(k + 1) PROVE g[i] = G[i][g[i - 1]]
    <3>1. CASE i <= k
      <4>1. g[i] = f[i] /\ g[i - 1] = f[i - 1] /\ i \in 1..k
        BY <3>1
      <4> QED BY <2>1, <4>1
    <3>2. CASE i = k + 1
      <4>1. g[i] = G[k + 1][f[k]] /\ g[i - 1] = f[k]
        BY <3>2
      <4> QED BY <3>2, <4>1
    <3> QED BY <3>1, <3>2
  <2> HIDE DEF g
  <2>5. Fits(k + 1, g)
    BY <2>3, <2>4
  <2> HIDE DEF Fits
  <2> QED BY <2>5
<1>3. \A k \in Nat : k \in D
  <2> HIDE DEF D
  <2> QED BY <1>1, <1>2, Induction
<1>4. \E f : Fits(N, f)
  <2> HIDE DEF Fits
  <2> QED BY <1>3
<1> QED BY <1>4 DEF Recurs

-----------------------------------------------------------------------------
(* The cells of a segment                                                    *)

\* D cells along the longer axis, E along the other; i and j steps are done.
ErrorOf(D, E, i, j) == D * (1 + j) - E * (1 + i)

OnLine(D, E, i, j) ==
  /\ i \in 0..D /\ j \in 0..E
  /\ 0 - E <= 2 * ErrorOf(D, E, i, j) /\ 2 * ErrorOf(D, E, i, j) <= 3 * D - 2 * E

\* Every step is one along the longer axis, and both ends are met at once.
LEMMA LineSteps ==
  ASSUME NEW D \in Nat, NEW E \in Nat, E <= D, NEW i, NEW j, OnLine(D, E, i, j)
  PROVE  LET e == ErrorOf(D, E, i, j)
             k == IF 2 * e <= D THEN j + 1 ELSE j
         IN  /\ e \in Int /\ 2 * e >= 0 - E
             /\ ErrorOf(D, E, i + 1, k) = e - E + (IF 2 * e <= D THEN D ELSE 0)
             /\ i = D => j = E
             /\ i # D => OnLine(D, E, i + 1, k)
<1> DEFINE e == ErrorOf(D, E, i, j)
           k == IF 2 * e <= D THEN j + 1 ELSE j
<1>1. i \in 0..D /\ j \in 0..E /\ 0 - E <= 2 * e /\ 2 * e <= 3 * D - 2 * E
  BY DEF OnLine
<1>2. e \in Int /\ e = D * (1 + j - E) + E * (D - 1 - i)
  BY <1>1 DEF ErrorOf
<1>3. e = D * (1 + j) - E * (1 + i)
  BY DEF ErrorOf
<1> HIDE DEF e
<1>4. ASSUME i = D PROVE j = E
  <2> SUFFICES ASSUME j <= E - 1 PROVE FALSE
    BY <1>1
  <2>1. 1 + j - E <= 0 /\ 1 + j - E \in Int
    BY <1>1
  <2>2. D * (1 + j - E) <= 0
    BY <2>1
  <2>3. E * (D - 1 - i) = 0 - E
    <3>1. D - 1 - i = 0 - 1
      BY <1>1, <1>4
    <3>2. E * (0 - 1) = 0 - E
      OBVIOUS
    <3> QED BY <3>1, <3>2
  <2>4. e <= 0 - E /\ (E > 0 => e < 0)
    <3> DEFINE x == D * (1 + j - E)
               y == E * (D - 1 - i)
    <3>1. x \in Int /\ x <= 0 /\ y = 0 - E /\ e = x + y
      BY <1>1, <1>2, <2>2, <2>3
    <3> HIDE DEF x, y
    <3> QED BY <3>1
  <2>5. E > 0
    BY <1>1
  <2> QED BY <1>1, <1>2, <2>4, <2>5
<1>5. ErrorOf(D, E, i + 1, k) = e - E + (IF 2 * e <= D THEN D ELSE 0)
  <2>1. CASE 2 * e <= D
    <3>1. D * (1 + (j + 1)) = D * (1 + j) + D /\ E * (1 + (i + 1)) = E * (1 + i) + E
      BY <1>1
    <3> QED BY <1>1, <1>2, <1>3, <2>1, <3>1 DEF ErrorOf
  <2>2. CASE ~(2 * e <= D)
    <3>1. E * (1 + (i + 1)) = E * (1 + i) + E
      BY <1>1
    <3> QED BY <1>1, <1>2, <1>3, <2>2, <3>1 DEF ErrorOf
  <2> QED BY <2>1, <2>2
<1>6. ASSUME i # D PROVE OnLine(D, E, i + 1, k)
  <2>1. i + 1 \in 0..D
    BY <1>1, <1>6
  <2>2. k \in 0..E
    <3>1. CASE j = E
      <4>1. E * (D - 1 - i) >= 0
        BY <1>1, <2>1
      <4>2. e >= D /\ D > 0
        BY <1>1, <1>2, <2>1, <3>1, <4>1
      <4> QED BY <1>1, <1>2, <3>1, <4>2
    <3> QED BY <1>1, <3>1
  <2> DEFINE f == ErrorOf(D, E, i + 1, k)
  <2>3. f = e - E + (IF 2 * e <= D THEN D ELSE 0)
    BY <1>5
  <2> HIDE DEF f, k
  <2>4. 0 - E <= 2 * f /\ 2 * f <= 3 * D - 2 * E
    BY <1>1, <1>2, <2>3
  <2> QED BY <2>1, <2>2, <2>4 DEF OnLine, f
<1> QED BY <1>1, <1>2, <1>4, <1>5, <1>6 DEF e

Cells == [x : Int, y : Int]

LineStates == [cells : Seq(Cells), err : Int]

Toward(a, b) == IF a < b THEN 1 ELSE -1

\* The cell after i steps along x and j along y.
CellAt(start, end, i, j) ==
  [x |-> start.x + Toward(start.x, end.x) * i, y |-> start.y + Toward(start.y, end.y) * j]

Wide(start, end) == absInt(end.x - start.x)

High(start, end) == absInt(end.y - start.y)

Longer(start, end) == IF High(start, end) <= Wide(start, end) THEN Wide(start, end) ELSE High(start, end)

\* The cells lead away from the start, one step along the longer axis each.
Traced(start, end, cells) ==
  /\ cells # <<>> /\ cells[1] = start
  /\ \A p \in 1..Len(cells) : \E i \in 0..Wide(start, end), j \in 0..High(start, end) :
       /\ cells[p] = CellAt(start, end, i, j)
       /\ IF High(start, end) <= Wide(start, end) THEN i = p - 1 ELSE j = p - 1
  /\ \A p \in 1..(Len(cells) - 1) : /\ absInt(cells[p + 1].x - cells[p].x) <= 1
                                    /\ absInt(cells[p + 1].y - cells[p].y) <= 1

\* The last cell and the error agree.
Balanced(start, end, cell, err, m) ==
  LET D == Wide(start, end)
      E == High(start, end)
  IN  IF E <= D
      THEN \E j \in Int : /\ OnLine(D, E, m, j) /\ err = ErrorOf(D, E, m, j)
                          /\ cell = CellAt(start, end, m, j)
      ELSE \E i \in Int : /\ OnLine(E, D, m, i) /\ err = 0 - ErrorOf(E, D, m, i)
                          /\ cell = CellAt(start, end, i, m)

Drawn(start, end, line, m) ==
  /\ line \in LineStates /\ Len(line.cells) = m + 1
  /\ Traced(start, end, line.cells)
  /\ Balanced(start, end, line.cells[m + 1], line.err, m)

LEMMA SpanFacts ==
  ASSUME NEW start \in Cells, NEW end \in Cells
  PROVE  /\ Wide(start, end) \in Nat /\ High(start, end) \in Nat /\ Longer(start, end) \in Nat
         /\ Longer(start, end) <= Wide(start, end) + High(start, end)
         /\ CellAt(start, end, Wide(start, end), High(start, end)) = end
         /\ CellAt(start, end, 0, 0) = start
         /\ \A i, j \in Int : CellAt(start, end, i, j) \in Cells
         /\ \A i, j \in Int : CellAt(start, end, i, j) = end => i = Wide(start, end) /\ j = High(start, end)
<1>1. /\ start = [x |-> start.x, y |-> start.y] /\ start.x \in Int /\ start.y \in Int
      /\ end = [x |-> end.x, y |-> end.y] /\ end.x \in Int /\ end.y \in Int
  BY DEF Cells
<1>2. Wide(start, end) \in Nat /\ High(start, end) \in Nat
  BY <1>1 DEF Wide, High, absInt
<1>3. /\ start.x + Toward(start.x, end.x) * Wide(start, end) = end.x
      /\ start.y + Toward(start.y, end.y) * High(start, end) = end.y
  BY <1>1 DEF Wide, High, absInt, Toward
<1>4. ASSUME NEW i \in Int, NEW j \in Int
      PROVE  /\ CellAt(start, end, i, j) \in Cells
             /\ CellAt(start, end, i, j) = end => i = Wide(start, end) /\ j = High(start, end)
  BY <1>1, <1>2, <1>3 DEF CellAt, Cells, Toward
<1> QED BY <1>1, <1>2, <1>3, <1>4 DEF CellAt, Longer, Toward

LEMMA SegmentBegins ==
  ASSUME NEW start \in Cells, NEW end \in Cells
  PROVE  Drawn(start, end, [cells |-> <<start>>, err |-> Wide(start, end) - High(start, end)], 0)
<1> DEFINE D == Wide(start, end)
           E == High(start, end)
           line == [cells |-> <<start>>, err |-> D - E]
<1>1. D \in Nat /\ E \in Nat /\ CellAt(start, end, 0, 0) = start
  BY SpanFacts
<1> HIDE DEF D, E
<1>2. line \in LineStates /\ Len(line.cells) = 0 + 1 /\ line.cells[0 + 1] = start /\ line.err = D - E
  BY <1>1 DEF LineStates
<1>3. Traced(start, end, line.cells)
  <2>1. \A p \in 1..Len(line.cells) : line.cells[p] = start /\ p = 1
    BY <1>2
  <2>2. 0 \in 0..D /\ 0 \in 0..E
    BY <1>1
  <2> QED BY <1>1, <1>2, <2>1, <2>2 DEF Traced, D, E
<1>4. Balanced(start, end, start, D - E, 0)
  <2>1. CASE E <= D
    <3>1. ErrorOf(D, E, 0, 0) = D - E /\ OnLine(D, E, 0, 0)
      BY <1>1, <2>1 DEF ErrorOf, OnLine
    <3> QED BY <1>1, <2>1, <3>1 DEF Balanced, D, E
  <2>2. CASE ~(E <= D)
    <3>1. D - E = 0 - ErrorOf(E, D, 0, 0) /\ OnLine(E, D, 0, 0)
      BY <1>1, <2>2 DEF ErrorOf, OnLine
    <3> QED BY <1>1, <2>2, <3>1 DEF Balanced, D, E
  <2> QED BY <2>1, <2>2
<1> HIDE DEF line
<1>5. Drawn(start, end, line, 0)
  BY <1>2, <1>3, <1>4 DEF Drawn
<1> QED BY <1>5 DEF line, D, E

\* A cell more.
LEMMA TracedOn ==
  ASSUME NEW start \in Cells, NEW end \in Cells, NEW cells \in Seq(Cells), Traced(start, end, cells),
         NEW i \in 0..Wide(start, end), NEW j \in 0..High(start, end),
         NEW cell, cell = CellAt(start, end, i, j),
         IF High(start, end) <= Wide(start, end) THEN i = Len(cells) ELSE j = Len(cells),
         absInt(cell.x - cells[Len(cells)].x) <= 1, absInt(cell.y - cells[Len(cells)].y) <= 1
  PROVE  Append(cells, cell) \in Seq(Cells) /\ Traced(start, end, Append(cells, cell))
<1> DEFINE r == Append(cells, cell)
           len == Len(cells)
<1>1. cell \in Cells
  BY SpanFacts
<1>2. /\ len \in Nat /\ r \in Seq(Cells) /\ Len(r) = len + 1 /\ r[len + 1] = cell
      /\ \A p \in 1..len : r[p] = cells[p]
  BY <1>1
<1>3. len # 0
  BY DEF Traced
<1> HIDE DEF r
<1>4. ASSUME NEW p \in 1..Len(r)
      PROVE  \E a \in 0..Wide(start, end), b \in 0..High(start, end) :
               /\ r[p] = CellAt(start, end, a, b)
               /\ IF High(start, end) <= Wide(start, end) THEN a = p - 1 ELSE b = p - 1
  <2>1. CASE p \in 1..len
    BY <1>2, <2>1 DEF Traced
  <2>2. CASE p = len + 1
    <3>1. p - 1 = Len(cells) /\ r[p] = cell
      BY <1>2, <2>2
    <3> QED BY <3>1
  <2> QED BY <1>2, <2>1, <2>2
<1>5. ASSUME NEW p \in 1..(Len(r) - 1)
      PROVE  absInt(r[p + 1].x - r[p].x) <= 1 /\ absInt(r[p + 1].y - r[p].y) <= 1
  <2>1. CASE p = len
    BY <1>2, <1>3, <2>1
  <2>2. CASE p # len
    <3>1. p \in 1..(len - 1) /\ p \in 1..len /\ p + 1 \in 1..len
      BY <1>2, <2>2
    <3> QED BY <1>2, <3>1 DEF Traced
  <2> QED BY <2>1, <2>2
<1>6. r # <<>> /\ r[1] = start
  BY <1>2, <1>3 DEF Traced
<1> QED BY <1>2, <1>4, <1>5, <1>6 DEF Traced, r

\* What Onward does, the error compared as the code compares it.
LEMMA OnwardIs ==
  ASSUME NEW start \in Cells, NEW end \in Cells, NEW line \in LineStates, line.cells # <<>>
  PROVE  LET D == Wide(start, end)
             E == High(start, end)
             cell == line.cells[Len(line.cells)]
             alongX == 2 * line.err >= 0 - E
             alongY == 2 * line.err <= D
             cell2 == [x |-> IF alongX THEN cell.x + Toward(start.x, end.x) ELSE cell.x,
                       y |-> IF alongY THEN cell.y + Toward(start.y, end.y) ELSE cell.y]
         IN  /\ cell = end => Onward(start, end, line) = line
             /\ cell # end => Onward(start, end, line) =
                  [cells |-> Append(line.cells, cell2),
                   err |-> line.err + (IF alongX THEN 0 - E ELSE 0) + (IF alongY THEN D ELSE 0)]
<1>1. /\ -absInt(end.y - start.y) = 0 - High(start, end)
      /\ line.err + (-absInt(end.y - start.y)) = line.err + (0 - High(start, end))
  BY DEF High, absInt, Cells, LineStates
<1> QED BY <1>1 DEF Onward, Last, Wide, High, Toward

LEMMA NextCell ==
  ASSUME NEW start \in Cells, NEW end \in Cells, NEW i \in Int, NEW j \in Int, NEW a \in {0, 1}, NEW b \in {0, 1},
         NEW cell, cell = CellAt(start, end, i, j),
         NEW cell2, cell2 = [x |-> IF a = 1 THEN cell.x + Toward(start.x, end.x) ELSE cell.x,
                             y |-> IF b = 1 THEN cell.y + Toward(start.y, end.y) ELSE cell.y]
  PROVE  /\ cell2 = CellAt(start, end, i + a, j + b)
         /\ absInt(cell2.x - cell.x) <= 1 /\ absInt(cell2.y - cell.y) <= 1
<1>1. start.x \in Int /\ start.y \in Int
  BY DEF Cells
<1> DEFINE sx == Toward(start.x, end.x)
           sy == Toward(start.y, end.y)
<1>2. sx \in {-1, 1} /\ sy \in {-1, 1}
  BY DEF Toward
<1>3. cell = [x |-> start.x + sx * i, y |-> start.y + sy * j]
  BY DEF CellAt
<1>4. cell2.x = cell.x + sx * a /\ cell2.y = cell.y + sy * b /\ cell2 = [x |-> cell2.x, y |-> cell2.y]
  <2> HIDE DEF sx, sy
  <2>1. cell.x \in Int /\ cell.y \in Int
    BY <1>1, <1>2, <1>3
  <2> QED BY <1>2, <2>1 DEF sx, sy
<1>5. CellAt(start, end, i + a, j + b) = [x |-> start.x + sx * (i + a), y |-> start.y + sy * (j + b)]
  BY DEF CellAt
<1> HIDE DEF sx, sy
<1>6. start.x + sx * (i + a) = cell.x + sx * a /\ start.y + sy * (j + b) = cell.y + sy * b /\ cell.x \in Int /\ cell.y \in Int
  BY <1>1, <1>2, <1>3
<1>7. absInt(sx * a) <= 1 /\ absInt(sy * b) <= 1
  BY <1>2 DEF absInt
<1>8. cell2.x - cell.x = sx * a /\ cell2.y - cell.y = sy * b
  BY <1>2, <1>4, <1>6
<1> QED BY <1>4, <1>5, <1>6, <1>7, <1>8

LEMMA OnwardStep ==
  ASSUME NEW start \in Cells, NEW end \in Cells, NEW m \in 0..Longer(start, end), NEW line, Drawn(start, end, line, m)
  PROVE  /\ m = Longer(start, end) => line.cells[m + 1] = end /\ Onward(start, end, line) = line
         /\ m # Longer(start, end) => Drawn(start, end, Onward(start, end, line), m + 1)
<1> DEFINE D == Wide(start, end)
           E == High(start, end)
           cell == line.cells[m + 1]
           e == line.err
           a == IF 2 * e >= 0 - E THEN 1 ELSE 0
           b == IF 2 * e <= D THEN 1 ELSE 0
           cell2 == [x |-> IF a = 1 THEN cell.x + Toward(start.x, end.x) ELSE cell.x,
                     y |-> IF b = 1 THEN cell.y + Toward(start.y, end.y) ELSE cell.y]
           e2 == e - a * E + b * D
           next == [cells |-> Append(line.cells, cell2), err |-> e2]
<1>1. /\ line \in LineStates /\ Len(line.cells) = m + 1 /\ m \in Nat /\ e \in Int /\ line.cells \in Seq(Cells)
      /\ Traced(start, end, line.cells) /\ Balanced(start, end, cell, e, m)
  BY SpanFacts DEF Drawn, LineStates
<1>2. D \in Nat /\ E \in Nat
  BY SpanFacts
<1>3. /\ cell = end => Onward(start, end, line) = line
      /\ cell # end => Onward(start, end, line) = next
  <2>1. line.cells # <<>> /\ cell = line.cells[Len(line.cells)]
    BY <1>1
  <2>2. e + (IF 2 * e >= 0 - E THEN 0 - E ELSE 0) + (IF 2 * e <= D THEN D ELSE 0) = e2
    BY <1>1, <1>2
  <2> QED BY <1>1, <2>1, <2>2, OnwardIs
<1>4. a \in {0, 1} /\ b \in {0, 1} /\ e2 \in Int
  BY <1>1, <1>2
<1>5. ASSUME NEW i \in 0..D, NEW j \in 0..E, cell = CellAt(start, end, i, j),
             i + a \in 0..D, j + b \in 0..E,
             IF E <= D THEN i + a = m + 1 ELSE j + b = m + 1,
             cell # end,
             Balanced(start, end, CellAt(start, end, i + a, j + b), e2, m + 1)
      PROVE  Drawn(start, end, Onward(start, end, line), m + 1)
  <2>1. /\ cell2 = CellAt(start, end, i + a, j + b)
        /\ absInt(cell2.x - cell.x) <= 1 /\ absInt(cell2.y - cell.y) <= 1
    <3> HIDE DEF a, b
    <3> QED BY <1>2, <1>4, <1>5, NextCell
  <2> HIDE DEF a, b, cell2, e2
  <2>2. Append(line.cells, cell2) \in Seq(Cells) /\ Traced(start, end, Append(line.cells, cell2))
    BY <1>1, <1>5, <2>1, TracedOn
  <2>3. cell2 \in Cells
    BY <1>5, <2>1, <1>4, SpanFacts
  <2>4. Len(Append(line.cells, cell2)) = m + 2 /\ Append(line.cells, cell2)[m + 2] = cell2
    BY <1>1, <2>3
  <2>5. next \in LineStates
    BY <1>4, <2>2 DEF LineStates
  <2>6. /\ Onward(start, end, line) = next /\ next.cells = Append(line.cells, cell2) /\ next.err = e2
        /\ (m + 1) + 1 = m + 2
    <3>1. Onward(start, end, line) = next
      BY <1>3, <1>5
    <3>2. next.cells = Append(line.cells, cell2)
      OBVIOUS
    <3>3. next.err = e2
      OBVIOUS
    <3>4. (m + 1) + 1 = m + 2
      BY <1>1
    <3> QED BY <3>1, <3>2, <3>3, <3>4
  <2> HIDE DEF next
  <2>7. Len(next.cells) = (m + 1) + 1 /\ next.cells[(m + 1) + 1] = CellAt(start, end, i + a, j + b)
    BY <2>1, <2>4, <2>6
  <2> QED BY <1>5, <2>2, <2>5, <2>6, <2>7 DEF Drawn
<1> HIDE DEF cell, e, e2, next, cell2
<1>6. CASE E <= D
  <2>1. PICK j \in Int : OnLine(D, E, m, j) /\ e = ErrorOf(D, E, m, j) /\ cell = CellAt(start, end, m, j)
    BY <1>1, <1>6 DEF Balanced
  <2>2. /\ 2 * e >= 0 - E
        /\ ErrorOf(D, E, m + 1, j + b) = e - E + (IF 2 * e <= D THEN D ELSE 0)
        /\ m = D => j = E
        /\ m # D => OnLine(D, E, m + 1, j + b)
    BY <1>2, <1>6, <2>1, LineSteps
  <2>3. a = 1 /\ m \in 0..D /\ j \in 0..E /\ Longer(start, end) = D
    BY <1>2, <1>6, <2>1, <2>2 DEF OnLine, Longer
  <2>4. ErrorOf(D, E, m + 1, j + b) = e2
    BY <1>1, <1>2, <2>2, <2>3 DEF e2
  <2>5. CASE m = D
    <3>1. cell = end
      BY <2>1, <2>2, <2>5, SpanFacts
    <3> QED BY <1>3, <2>3, <2>5, <3>1 DEF cell
  <2>6. CASE m # D
    <3>1. cell # end
      BY <2>1, <2>6, <2>3, SpanFacts
    <3>2. OnLine(D, E, m + 1, j + b) /\ m + 1 \in 0..D /\ j + b \in 0..E
      BY <2>2, <2>6 DEF OnLine
    <3>3. Balanced(start, end, CellAt(start, end, m + 1, j + b), e2, m + 1)
      BY <1>6, <2>4, <3>2 DEF Balanced
    <3> QED BY <1>5, <1>6, <2>1, <2>3, <2>6, <3>1, <3>2, <3>3
  <2> QED BY <2>5, <2>6
<1>7. CASE ~(E <= D)
  <2>1. PICK i \in Int : OnLine(E, D, m, i) /\ e = 0 - ErrorOf(E, D, m, i) /\ cell = CellAt(start, end, i, m)
    BY <1>1, <1>7 DEF Balanced
  <2> DEFINE f == ErrorOf(E, D, m, i)
  <2>2. /\ f \in Int /\ 2 * f >= 0 - D
        /\ ErrorOf(E, D, m + 1, IF 2 * f <= E THEN i + 1 ELSE i) = f - D + (IF 2 * f <= E THEN E ELSE 0)
        /\ m = E => i = D
        /\ m # E => OnLine(E, D, m + 1, IF 2 * f <= E THEN i + 1 ELSE i)
    BY <1>2, <1>7, <2>1, LineSteps
  <2> HIDE DEF f
  <2>3. e = 0 - f /\ (2 * f <= E <=> 2 * e >= 0 - E) /\ 2 * e <= D
    BY <1>1, <1>2, <2>1, <2>2 DEF f
  <2>4. b = 1 /\ m \in 0..E /\ i \in 0..D /\ Longer(start, end) = E /\ (IF 2 * f <= E THEN i + 1 ELSE i) = i + a
    BY <1>2, <1>7, <2>1, <2>3 DEF OnLine, Longer
  <2>5. 0 - ErrorOf(E, D, m + 1, i + a) = e2
    BY <1>1, <1>2, <2>2, <2>3, <2>4 DEF e2
  <2>6. CASE m = E
    <3>1. cell = end
      BY <2>1, <2>2, <2>6, SpanFacts
    <3> QED BY <1>3, <2>4, <2>6, <3>1 DEF cell
  <2>7. CASE m # E
    <3>1. cell # end
      BY <2>1, <2>7, <2>4, SpanFacts
    <3>2. OnLine(E, D, m + 1, i + a) /\ m + 1 \in 0..E /\ i + a \in 0..D
      BY <2>2, <2>4, <2>7 DEF OnLine
    <3>3. Balanced(start, end, CellAt(start, end, i + a, m + 1), e2, m + 1)
      BY <1>7, <2>5, <3>2 DEF Balanced
    <3> QED BY <1>5, <1>7, <2>1, <2>4, <2>7, <3>1, <3>2, <3>3
  <2> QED BY <2>6, <2>7
<1> QED BY <1>6, <1>7

\* A segment leads from its start to its end, along the longer axis.
LEMMA SegmentFacts ==
  ASSUME NEW start \in Cells, NEW end \in Cells
  PROVE  LET s == rasterizeRouteSegment(start, end)
         IN  /\ s \in Seq(Cells) /\ Len(s) = Longer(start, end) + 1
             /\ Traced(start, end, s)
             /\ s[Len(s)] = end
<1> DEFINE K == Longer(start, end)
           N == absInt(end.x - start.x) - (-absInt(end.y - start.y))
           b == [cells |-> <<start>>, err |-> absInt(end.x - start.x) + (-absInt(end.y - start.y))]
           Rec(g) == g = [k \in 0..N |-> IF k = 0 THEN b ELSE Onward(start, end, g[k - 1])]
           after == CHOOSE g : Rec(g)
           T == {l \in LineStates : \E m \in 0..K : Drawn(start, end, l, m)}
<1>1. K \in Nat /\ N \in Nat /\ K <= N
  <2>1. N = Wide(start, end) + High(start, end)
    BY DEF Wide, High, absInt, Cells
  <2> QED BY <2>1, SpanFacts
<1>2. Drawn(start, end, b, 0)
  <2>1. absInt(end.x - start.x) + (-absInt(end.y - start.y)) = Wide(start, end) - High(start, end)
    BY DEF Wide, High, absInt, Cells
  <2> QED BY <2>1, SegmentBegins
<1>3. rasterizeRouteSegment(start, end) = after[N].cells
  BY DEF rasterizeRouteSegment
<1> HIDE DEF K, N, b
<1>4. b \in T
  <2>1. b \in LineStates
    BY <1>2 DEF Drawn
  <2>2. 0 \in 0..K
    BY <1>1
  <2> QED BY <1>2, <2>1, <2>2
<1>5. ASSUME NEW l \in T PROVE Onward(start, end, l) \in T
  <2>1. PICK m \in 0..K : Drawn(start, end, l, m)
    OBVIOUS
  <2>2. CASE m = K
    BY <2>1, <2>2, OnwardStep DEF K
  <2>3. CASE m # K
    <3>1. Drawn(start, end, Onward(start, end, l), m + 1) /\ m + 1 \in 0..K
      BY <1>1, <2>1, <2>3, OnwardStep DEF K
    <3> QED BY <3>1 DEF Drawn
  <2> QED BY <2>2, <2>3
<1> HIDE DEF T
<1>6. \E g : Rec(g)
  <2> DEFINE G == [k \in 1..N |-> [l \in T |-> Onward(start, end, l)]]
  <2>1. G \in [1..N -> [T -> T]]
    BY <1>5
  <2> HIDE DEF G
  <2>2. Recurs(T, b, N, G)
    BY <1>1, <1>4, <2>1, Recursion
  <2>3. PICK g \in [0..N -> T] : g[0] = b /\ \A k \in 1..N : g[k] = G[k][g[k - 1]]
    BY <2>2 DEF Recurs
  <2>4. ASSUME NEW k \in 1..N PROVE g[k] = Onward(start, end, g[k - 1])
    <3>1. g[k - 1] \in T
      BY <1>1
    <3> QED BY <2>3, <3>1 DEF G
  <2>5. \A k \in 0..N : g[k] = IF k = 0 THEN b ELSE Onward(start, end, g[k - 1])
    BY <1>1, <2>3, <2>4
  <2> QED BY <2>5
<1>7. Rec(after)
  <2> HIDE DEF Rec
  <2> QED BY <1>6
<1> HIDE DEF after
<1>8. \A k \in 0..N : after[k] = IF k = 0 THEN b ELSE Onward(start, end, after[k - 1])
  BY <1>7
<1> DEFINE S == {k \in Nat : k <= N => Drawn(start, end, after[k], IF k <= K THEN k ELSE K)}
<1>9. \A k \in Nat : k \in S
  <2>1. 0 \in S
    BY <1>1, <1>2, <1>8
  <2>2. ASSUME NEW k \in Nat \cap S PROVE k + 1 \in S
    <3> SUFFICES ASSUME k + 1 <= N PROVE Drawn(start, end, after[k + 1], IF k + 1 <= K THEN k + 1 ELSE K)
      OBVIOUS
    <3>1. k + 1 \in 0..N /\ k + 1 # 0 /\ (k + 1) - 1 = k /\ k <= N
      BY <1>1
    <3>2. after[k + 1] = Onward(start, end, after[k]) /\ Drawn(start, end, after[k], IF k <= K THEN k ELSE K)
      BY <1>8, <3>1
    <3>3. CASE k < K
      <4>1. k \in 0..K /\ k # K /\ k + 1 <= K /\ k <= K
        BY <1>1, <3>3
      <4> QED BY <3>2, <4>1, OnwardStep DEF K
    <3>4. CASE ~(k < K)
      <4>1. K \in 0..K /\ ~(k + 1 <= K) /\ (IF k <= K THEN k ELSE K) = K
        BY <1>1, <3>4
      <4> QED BY <3>2, <4>1, OnwardStep DEF K
    <3> QED BY <3>3, <3>4
  <2> HIDE DEF S
  <2> QED BY <2>1, <2>2, Induction
<1>10. Drawn(start, end, after[N], K)
  <2>1. (IF N <= K THEN N ELSE K) = K
    BY <1>1
  <2> QED BY <1>1, <1>9, <2>1
<1>11. after[N].cells[K + 1] = end
  BY <1>1, <1>10, OnwardStep DEF K
<1> QED BY <1>3, <1>10, <1>11 DEF Drawn, K, LineStates

\* Its cells are distinct along one axis, and none is outside of its ends.
LEMMA SegmentCells ==
  ASSUME NEW start \in Cells, NEW end \in Cells
  PROVE  LET s == rasterizeRouteSegment(start, end)
         IN  \A p \in 1..Len(s) :
               /\ s[p].x \in Int /\ s[p].y \in Int
               /\ (start.y <= s[p].y /\ s[p].y <= end.y) \/ (end.y <= s[p].y /\ s[p].y <= start.y)
               /\ \A q \in 1..Len(s) : p < q =>
                    \/ /\ Longer(start, end) = Wide(start, end)
                       /\ s[q].x - s[p].x = Toward(start.x, end.x) * (q - p)
                    \/ s[q].y # s[p].y
<1> DEFINE s == rasterizeRouteSegment(start, end)
           D == Wide(start, end)
           E == High(start, end)
           sx == Toward(start.x, end.x)
           sy == Toward(start.y, end.y)
<1>1. /\ s \in Seq(Cells) /\ Len(s) = Longer(start, end) + 1 /\ Traced(start, end, s)
      /\ D \in Nat /\ E \in Nat /\ start.x \in Int /\ start.y \in Int /\ end.y \in Int
  BY SegmentFacts, SpanFacts DEF Cells
<1>2. sx \in {-1, 1} /\ sy \in {-1, 1} /\ end.y = start.y + sy * E
  BY DEF Toward, High, absInt, Cells
<1> HIDE DEF s
<1>3. ASSUME NEW p \in 1..Len(s)
      PROVE  \E i \in 0..D, j \in 0..E : /\ s[p].x = start.x + sx * i /\ s[p].y = start.y + sy * j
                                         /\ IF E <= D THEN i = p - 1 ELSE j = p - 1
  <2>1. PICK i \in 0..D, j \in 0..E : /\ s[p] = CellAt(start, end, i, j)
                                      /\ IF E <= D THEN i = p - 1 ELSE j = p - 1
    BY <1>1 DEF Traced
  <2>2. s[p].x = start.x + sx * i /\ s[p].y = start.y + sy * j
    BY <2>1 DEF CellAt
  <2> QED BY <2>1, <2>2
<1> HIDE DEF D, E, sx, sy
<1>4. ASSUME NEW p \in 1..Len(s)
      PROVE  /\ s[p].x \in Int /\ s[p].y \in Int
             /\ (start.y <= s[p].y /\ s[p].y <= end.y) \/ (end.y <= s[p].y /\ s[p].y <= start.y)
  <2>1. PICK i \in 0..D, j \in 0..E : s[p].x = start.x + sx * i /\ s[p].y = start.y + sy * j
    BY <1>3
  <2>2. CASE sy = 1
    BY <1>1, <1>2, <2>1, <2>2
  <2>3. CASE sy = -1
    BY <1>1, <1>2, <2>1, <2>3
  <2> QED BY <1>2, <2>2, <2>3
<1>5. ASSUME NEW p \in 1..Len(s), NEW q \in 1..Len(s), p < q
      PROVE  \/ Longer(start, end) = D /\ s[q].x - s[p].x = sx * (q - p)
             \/ s[q].y # s[p].y
  <2>1. PICK i \in 0..D, j \in 0..E : /\ s[p].x = start.x + sx * i /\ s[p].y = start.y + sy * j
                                      /\ IF E <= D THEN i = p - 1 ELSE j = p - 1
    BY <1>3
  <2>2. PICK k \in 0..D, l \in 0..E : /\ s[q].x = start.x + sx * k /\ s[q].y = start.y + sy * l
                                      /\ IF E <= D THEN k = q - 1 ELSE l = q - 1
    BY <1>3
  <2>3. CASE E <= D
    <3>1. i = p - 1 /\ k = q - 1 /\ Longer(start, end) = D
      BY <2>1, <2>2, <2>3 DEF Longer, D, E
    <3>2. sx = 1 \/ sx = -1
      BY <1>2
    <3> QED BY <1>1, <2>1, <2>2, <3>1, <3>2
  <2>4. CASE ~(E <= D)
    <3>1. j = p - 1 /\ l = q - 1
      BY <2>1, <2>2, <2>4
    <3>2. sy = 1 \/ sy = -1
      BY <1>2
    <3> QED BY <1>1, <1>5, <2>1, <2>2, <3>1, <3>2
  <2> QED BY <2>3, <2>4
<1> QED BY <1>4, <1>5 DEF s, sx, D

-----------------------------------------------------------------------------
(* The keys that fit a budget                                                *)

Begins(s, t) == Len(s) <= Len(t) /\ \A i \in 1..Len(s) : s[i] = t[i]

LEMMA BeginsIsPrefix ==
  ASSUME NEW T, NEW s \in Seq(T), NEW t \in Seq(T), Begins(s, t)
  PROVE  IsPrefix(s, t)
<1> DEFINE u == SubSeq(s, 1, Len(s))
           v == SubSeq(t, 1, Len(s))
<1>1. Len(s) \in Nat /\ Len(t) \in Nat /\ Len(s) <= Len(t)
  BY DEF Begins
<1>2. u \in Seq(T) /\ Len(u) = Len(s) /\ \A i \in 1..Len(s) : u[i] = s[i]
  BY <1>1
<1>3. v \in Seq(T) /\ Len(v) = Len(s) /\ \A i \in 1..Len(s) : v[i] = t[i]
  BY <1>1
<1> HIDE DEF u, v
<1>4. u = v
  BY <1>1, <1>2, <1>3 DEF Begins
<1> QED BY <1>1, <1>4 DEF IsPrefix, u, v

LEMMA BeginsAppend ==
  ASSUME NEW T, NEW s \in Seq(T), NEW x \in T
  PROVE  Begins(s, Append(s, x)) /\ Begins(s, s)
BY DEF Begins

LEMMA BeginsTransitive ==
  ASSUME NEW T, NEW s \in Seq(T), NEW t \in Seq(T), NEW u \in Seq(T), Begins(s, t), Begins(t, u)
  PROVE  Begins(s, u)
BY DEF Begins

CorridorStates(T) == [keys : Seq(T), truncated : BOOLEAN, err : {FALSE}]

Has(s, x) == \E i \in 1..Len(s) : s[i] = x

\* The corridor after each key.
EmittedBy(c, keys, budget) ==
  /\ c[0] = Corridor(<<>>, FALSE, FALSE)
  /\ \A k \in 1..Len(keys) : c[k] = Emit(c[k - 1], keys[k], budget)

LEMMA EmitCases ==
  ASSUME NEW T, NEW c \in CorridorStates(T), NEW key \in T, NEW budget \in Nat,
         NEW r, r = Emit(c, key, budget)
  PROVE  /\ r \in CorridorStates(T)
         /\ (c.truncated \/ Has(c.keys, key)) => r = c
         /\ (~c.truncated /\ ~Has(c.keys, key) /\ Len(c.keys) = budget) => r.keys = c.keys /\ r.truncated
         /\ (~c.truncated /\ ~Has(c.keys, key) /\ Len(c.keys) # budget) =>
              r.keys = Append(c.keys, key) /\ ~r.truncated
<1>1. key \in ToSet(c.keys) <=> Has(c.keys, key)
  BY DEF ToSet, Has, CorridorStates
<1>2. c.keys \in Seq(T) /\ c.truncated \in BOOLEAN /\ c.err = FALSE
      /\ c = [keys |-> c.keys, truncated |-> c.truncated, err |-> c.err]
  BY DEF CorridorStates
<1> DEFINE d == [c EXCEPT !.truncated = TRUE]
           e == [c EXCEPT !.keys = Append(c.keys, key)]
<1>3. d \in CorridorStates(T) /\ d.keys = c.keys /\ d.truncated
  BY DEF CorridorStates
<1>4. Append(c.keys, key) \in Seq(T)
  BY <1>2
<1>5. e \in CorridorStates(T) /\ e.keys = Append(c.keys, key) /\ e.truncated = c.truncated
  BY <1>4 DEF CorridorStates
<1>6. Emit(c, key, budget) = IF c.truncated \/ Has(c.keys, key) THEN c ELSE IF Len(c.keys) = budget THEN d ELSE e
  BY <1>1 DEF Emit
<1> HIDE DEF d, e
<1>7. CASE c.truncated \/ Has(c.keys, key)
  BY <1>6, <1>7
<1>8. CASE ~(c.truncated \/ Has(c.keys, key)) /\ Len(c.keys) = budget
  BY <1>3, <1>6, <1>8
<1>9. CASE ~(c.truncated \/ Has(c.keys, key)) /\ Len(c.keys) # budget
  BY <1>5, <1>6, <1>9
<1> QED BY <1>7, <1>8, <1>9

LEMMA EmittedFunction ==
  ASSUME NEW T, NEW keys \in Seq(T), NEW budget \in Nat
  PROVE  \E c \in [0..Len(keys) -> CorridorStates(T)] :
           EmittedBy(c, keys, budget) /\ Emitted(keys, budget) = c[Len(keys)]
<1> DEFINE N == Len(keys)
           b == Corridor(<<>>, FALSE, FALSE)
           Rec(g) == g = [k \in 0..N |-> IF k = 0 THEN b ELSE Emit(g[k - 1], keys[k], budget)]
           corridor == CHOOSE g : Rec(g)
           C == CorridorStates(T)
<1>1. N \in Nat /\ \A k \in 1..N : keys[k] \in T
  OBVIOUS
<1>2. b \in C
  BY DEF Corridor, CorridorStates
<1>3. \A c \in C, k \in 1..N : Emit(c, keys[k], budget) \in C
  BY <1>1, EmitCases
<1>4. Emitted(keys, budget) = corridor[N]
  BY DEF Emitted
<1> HIDE DEF N, b, C
<1>5. PICK f \in [0..N -> C] : f[0] = b /\ \A k \in 1..N : f[k] = Emit(f[k - 1], keys[k], budget)
  <2> DEFINE G == [k \in 1..N |-> [c \in C |-> Emit(c, keys[k], budget)]]
  <2>1. G \in [1..N -> [C -> C]]
    BY <1>3
  <2> HIDE DEF G
  <2>2. Recurs(C, b, N, G)
    BY <1>1, <1>2, <2>1, Recursion
  <2>3. PICK g \in [0..N -> C] : g[0] = b /\ \A k \in 1..N : g[k] = G[k][g[k - 1]]
    BY <2>2 DEF Recurs
  <2>4. ASSUME NEW k \in 1..N PROVE g[k] = Emit(g[k - 1], keys[k], budget)
    <3>1. g[k - 1] \in C
      BY <1>1
    <3> QED BY <2>3, <3>1 DEF G
  <2> QED BY <2>3, <2>4
<1>6. Rec(f)
  <2>1. \A k \in 0..N : f[k] = IF k = 0 THEN b ELSE Emit(f[k - 1], keys[k], budget)
    BY <1>1, <1>5
  <2> QED BY <2>1
<1>7. Rec(corridor)
  <2> HIDE DEF Rec
  <2> QED BY <1>6
<1> HIDE DEF corridor
<1>8. \A k \in 0..N : corridor[k] = IF k = 0 THEN b ELSE Emit(corridor[k - 1], keys[k], budget)
  BY <1>7
<1> DEFINE S == {k \in Nat : k <= N => corridor[k] = f[k]}
<1>9. 0 \in S
  BY <1>1, <1>5, <1>8
<1>10. ASSUME NEW k \in Nat \cap S PROVE k + 1 \in S
  <2> SUFFICES ASSUME k + 1 <= N PROVE corridor[k + 1] = f[k + 1]
    OBVIOUS
  <2>1. k + 1 \in 0..N /\ k + 1 \in 1..N /\ k + 1 # 0 /\ (k + 1) - 1 = k /\ k <= N
    BY <1>1
  <2> QED BY <1>5, <1>8, <2>1
<1>11. \A k \in Nat : k \in S
  <2> HIDE DEF S
  <2> QED BY <1>9, <1>10, Induction
<1>12. corridor[N] = f[N]
  BY <1>1, <1>11
<1>13. EmittedBy(f, keys, budget)
  BY <1>5 DEF EmittedBy, b, N
<1> QED BY <1>4, <1>5, <1>12, <1>13 DEF N, C

\* The recursion has one solution.
LEMMA EmittedUnique ==
  ASSUME NEW T, NEW keys \in Seq(T), NEW budget, NEW c, NEW d,
         EmittedBy(c, keys, budget), EmittedBy(d, keys, budget)
  PROVE  \A k \in 0..Len(keys) : c[k] = d[k]
<1> DEFINE S == {k \in Nat : k <= Len(keys) => c[k] = d[k]}
<1>1. 0 \in S
  BY DEF EmittedBy
<1>2. ASSUME NEW k \in Nat \cap S PROVE k + 1 \in S
  <2> SUFFICES ASSUME k + 1 <= Len(keys) PROVE c[k + 1] = d[k + 1]
    OBVIOUS
  <2>1. k + 1 \in 1..Len(keys) /\ (k + 1) - 1 = k /\ c[k] = d[k]
    OBVIOUS
  <2> QED BY <2>1 DEF EmittedBy
<1>3. \A k \in Nat : k \in S
  <2> HIDE DEF S
  <2> QED BY <1>1, <1>2, Induction
<1> QED BY <1>3

LEMMA EmittedFacts ==
  ASSUME NEW T, NEW keys \in Seq(T), NEW budget \in Nat, NEW c \in [0..Len(keys) -> CorridorStates(T)],
         EmittedBy(c, keys, budget), NEW k \in 0..Len(keys)
  PROVE  /\ IsInjective(c[k].keys) /\ Len(c[k].keys) <= budget
         /\ \A i \in 1..Len(c[k].keys) : \E p \in 1..k : c[k].keys[i] = keys[p]
         /\ ~c[k].truncated => \A p \in 1..k : Has(c[k].keys, keys[p])
         /\ c[k].truncated => \E s \in Seq(T) : IsInjective(s) /\ Len(s) = budget + 1
<1> DEFINE P(j) == /\ IsInjective(c[j].keys) /\ Len(c[j].keys) <= budget
                   /\ \A i \in 1..Len(c[j].keys) : \E p \in 1..j : c[j].keys[i] = keys[p]
                   /\ ~c[j].truncated => \A p \in 1..j : Has(c[j].keys, keys[p])
                   /\ c[j].truncated => \E s \in Seq(T) : IsInjective(s) /\ Len(s) = budget + 1
           S == {j \in Nat : j <= Len(keys) => P(j)}
<1>1. P(0)
  <2>1. c[0].keys = <<>> /\ ~c[0].truncated
    BY DEF EmittedBy, Corridor
  <2> QED BY <2>1 DEF IsInjective
<1>2. ASSUME NEW j \in Nat, j + 1 <= Len(keys), P(j) PROVE P(j + 1)
  <2>1. j \in 0..Len(keys) /\ j + 1 \in 1..Len(keys) /\ (j + 1) - 1 = j
    BY <1>2
  <2> DEFINE r == c[j + 1]
             o == c[j]
             key == keys[j + 1]
  <2>2. o \in CorridorStates(T) /\ key \in T
    BY <2>1
  <2>3. r = Emit(o, key, budget)
    BY <2>1 DEF EmittedBy
  <2>8. P(j)
    BY <1>2
  <2> HIDE DEF P, r, o, key
  <2>4. /\ r \in CorridorStates(T)
        /\ (o.truncated \/ Has(o.keys, key)) => r = o
        /\ (~o.truncated /\ ~Has(o.keys, key) /\ Len(o.keys) = budget) => r.keys = o.keys /\ r.truncated
        /\ (~o.truncated /\ ~Has(o.keys, key) /\ Len(o.keys) # budget) =>
             r.keys = Append(o.keys, key) /\ ~r.truncated
    BY <2>2, <2>3, EmitCases
  <2>5. o.keys \in Seq(T) /\ Len(o.keys) \in Nat
    BY <2>2 DEF CorridorStates
  <2>6. \A p \in 1..(j + 1) : p \in 1..j \/ p = j + 1
    BY <2>1
  <2>7. \A p \in 1..j : p \in 1..(j + 1)
    BY <2>1
  <2> USE DEF P, o, key
  <2>9. j + 1 \in 1..(j + 1)
    BY <2>1
  <2>10. CASE o.truncated
    BY <2>4, <2>7, <2>8, <2>10 DEF r
  <2>11. CASE ~o.truncated /\ Has(o.keys, key)
    <3>1. r = o
      BY <2>4, <2>11
    <3>2. \A p \in 1..(j + 1) : Has(o.keys, keys[p])
      BY <2>6, <2>8, <2>11
    <3> QED BY <2>7, <2>8, <2>11, <3>1, <3>2 DEF r
  <2> DEFINE a == Append(o.keys, key)
             len == Len(o.keys)
  <2>12. a \in Seq(T) /\ Len(a) = len + 1 /\ a[len + 1] = key /\ \A i \in 1..len : a[i] = o.keys[i]
    BY <2>2, <2>5
  <2>13. ASSUME ~Has(o.keys, key) PROVE IsInjective(a)
    <3>1. DOMAIN a = 1..(len + 1) /\ DOMAIN o.keys = 1..len
      BY <2>5, <2>12
    <3>2. \A i \in 1..(len + 1) : i \in 1..len \/ i = len + 1
      BY <2>5
    <3>3. \A i \in 1..len : a[i] # key
      BY <2>12, <2>13 DEF Has
    <3>4. IsInjective(o.keys)
      BY <2>8
    <3> HIDE DEF a
    <3> QED BY <2>12, <3>1, <3>2, <3>3, <3>4 DEF IsInjective
  <2> HIDE DEF a
  <2>14. CASE ~o.truncated /\ ~Has(o.keys, key) /\ Len(o.keys) = budget
    <3>1. r.keys = o.keys /\ r.truncated
      BY <2>4, <2>14
    <3>2. \E s \in Seq(T) : IsInjective(s) /\ Len(s) = budget + 1
      BY <2>12, <2>13, <2>14
    <3> QED BY <2>7, <2>8, <3>1, <3>2 DEF r
  <2>15. CASE ~o.truncated /\ ~Has(o.keys, key) /\ Len(o.keys) # budget
    <3>1. r.keys = a /\ ~r.truncated
      BY <2>4, <2>15 DEF a
    <3>2. Len(a) <= budget
      BY <2>5, <2>8, <2>12, <2>15
    <3>3. \A i \in 1..Len(a) : \E p \in 1..(j + 1) : a[i] = keys[p]
      <4>1. \A i \in 1..Len(a) : i \in 1..len \/ i = len + 1
        BY <2>5, <2>12
      <4> QED BY <2>7, <2>8, <2>9, <2>12, <4>1
    <3>4. \A p \in 1..(j + 1) : Has(a, keys[p])
      <4>1. len + 1 \in 1..Len(a) /\ \A i \in 1..len : i \in 1..Len(a)
        BY <2>5, <2>12
      <4> QED BY <2>6, <2>8, <2>12, <2>15, <4>1 DEF Has
    <3> QED BY <2>13, <2>15, <3>1, <3>2, <3>3, <3>4 DEF r
  <2> QED BY <2>10, <2>11, <2>14, <2>15
<1>3. 0 \in S
  BY <1>1
<1>4. ASSUME NEW j \in Nat \cap S PROVE j + 1 \in S
  <2> SUFFICES ASSUME j + 1 <= Len(keys) PROVE P(j + 1)
    OBVIOUS
  <2>1. P(j)
    OBVIOUS
  <2> HIDE DEF P
  <2> QED BY <1>2, <2>1
<1>5. \A j \in Nat : j \in S
  <2> HIDE DEF S
  <2> QED BY <1>3, <1>4, Induction
<1>6. k \in S /\ k <= Len(keys)
  BY <1>5
<1>7. P(k)
  <2> HIDE DEF P
  <2> QED BY <1>6
<1> QED BY <1>7

LEMMA EmitGrows ==
  ASSUME NEW T, NEW c \in CorridorStates(T), NEW key \in T, NEW budget \in Nat,
         NEW r, r = Emit(c, key, budget)
  PROVE  Begins(c.keys, r.keys) /\ (c.truncated => r.truncated)
<1>1. /\ r \in CorridorStates(T)
      /\ (c.truncated \/ Has(c.keys, key)) => r = c
      /\ (~c.truncated /\ ~Has(c.keys, key) /\ Len(c.keys) = budget) => r.keys = c.keys /\ r.truncated
      /\ (~c.truncated /\ ~Has(c.keys, key) /\ Len(c.keys) # budget) =>
           r.keys = Append(c.keys, key) /\ ~r.truncated
  BY EmitCases
<1>2. c.keys \in Seq(T)
  BY DEF CorridorStates
<1>3. Begins(c.keys, Append(c.keys, key)) /\ Begins(c.keys, c.keys)
  BY <1>2, BeginsAppend
<1> QED BY <1>1, <1>3

\* What is emitted stays, and so does the end of it.
LEMMA EmittedGrows ==
  ASSUME NEW T, NEW keys \in Seq(T), NEW budget \in Nat, NEW c \in [0..Len(keys) -> CorridorStates(T)],
         EmittedBy(c, keys, budget), NEW j \in 0..Len(keys), NEW k \in j..Len(keys)
  PROVE  Begins(c[j].keys, c[k].keys) /\ (c[j].truncated => c[k].truncated)
<1> DEFINE P(i) == Begins(c[j].keys, c[i].keys) /\ (c[j].truncated => c[i].truncated)
           S == {i \in Nat : j + i <= Len(keys) => P(j + i)}
<1>0. \A i \in 0..Len(keys) : c[i].keys \in Seq(T)
  BY DEF CorridorStates
<1>1. 0 \in S
  <2>1. j + 0 = j /\ P(j)
    BY <1>0 DEF Begins
  <2> QED BY <2>1
<1>2. ASSUME NEW i \in Nat \cap S PROVE i + 1 \in S
  <2> SUFFICES ASSUME j + (i + 1) <= Len(keys) PROVE P(j + (i + 1))
    OBVIOUS
  <2> DEFINE m == j + i
             key == keys[m + 1]
             o == c[m]
             r == c[m + 1]
  <2>1. m \in 0..Len(keys) /\ m + 1 \in 1..Len(keys) /\ (m + 1) - 1 = m /\ j + (i + 1) = m + 1
    OBVIOUS
  <2>2. P(m)
    BY <2>1
  <2>3. o.keys \in Seq(T) /\ r.keys \in Seq(T)
    BY <1>0, <2>1
  <2>10. o \in CorridorStates(T) /\ key \in T
    BY <2>1
  <2>4. r = Emit(o, key, budget)
    BY <2>1 DEF EmittedBy
  <2> HIDE DEF P, o, r, key, m, S
  <2>5. Begins(o.keys, r.keys) /\ (o.truncated => r.truncated)
    BY <2>4, <2>10, EmitGrows
  <2>7. Begins(c[j].keys, o.keys) /\ (c[j].truncated => o.truncated)
    BY <2>2 DEF P, o
  <2>8. Begins(c[j].keys, r.keys)
    BY <1>0, <2>3, <2>5, <2>7, BeginsTransitive
  <2>9. c[j].truncated => r.truncated
    BY <2>5, <2>7
  <2> QED BY <2>1, <2>8, <2>9 DEF P, r
<1>3. \A i \in Nat : i \in S
  <2> HIDE DEF S
  <2> QED BY <1>1, <1>2, Induction
<1>4. k - j \in Nat /\ j + (k - j) = k
  OBVIOUS
<1>5. k - j \in S
  BY <1>3, <1>4
<1>6. P(j + (k - j))
  BY <1>4, <1>5
<1> QED BY <1>4, <1>6

\* A smaller budget gets the keys that come first, and notices that there are more.
LEMMA EmittedWithin ==
  ASSUME NEW T, NEW keys \in Seq(T), NEW budget \in Nat, NEW c \in [0..Len(keys) -> CorridorStates(T)],
         EmittedBy(c, keys, budget),
         NEW large \in Nat, NEW f \in [0..Len(keys) -> CorridorStates(T)],
         EmittedBy(f, keys, large), ~f[Len(keys)].truncated, NEW k \in 0..Len(keys)
  PROVE  /\ Begins(c[k].keys, f[k].keys)
         /\ c[k].truncated <=> Len(c[k].keys) < Len(f[k].keys)
<1> DEFINE P(j) == /\ Begins(c[j].keys, f[j].keys)
                   /\ c[j].truncated => Len(c[j].keys) < Len(f[j].keys)
                   /\ ~c[j].truncated => c[j].keys = f[j].keys
           S == {j \in Nat : j <= Len(keys) => P(j)}
<1>1. \A i \in 0..Len(keys) : c[i].keys \in Seq(T) /\ f[i].keys \in Seq(T)
  BY DEF CorridorStates
<1>2. \A i \in 0..Len(keys) : ~f[i].truncated
  <2>1. \A i \in 0..Len(keys) : Len(keys) \in i..Len(keys)
    OBVIOUS
  <2> QED BY <2>1, EmittedGrows
<1>3. P(0)
  <2>1. c[0] = Corridor(<<>>, FALSE, FALSE) /\ f[0] = Corridor(<<>>, FALSE, FALSE)
    BY DEF EmittedBy
  <2> QED BY <2>1 DEF Corridor, Begins
<1>4. ASSUME NEW j \in Nat, j + 1 <= Len(keys), P(j) PROVE P(j + 1)
  <2> DEFINE key == keys[j + 1]
             o == c[j]
             r == c[j + 1]
             p == f[j]
             q == f[j + 1]
  <2>1. j \in 0..Len(keys) /\ j + 1 \in 1..Len(keys) /\ j + 1 \in 0..Len(keys) /\ (j + 1) - 1 = j
    BY <1>4
  <2>2. o \in CorridorStates(T) /\ p \in CorridorStates(T) /\ key \in T
    BY <2>1
  <2>3. o.keys \in Seq(T) /\ r.keys \in Seq(T) /\ p.keys \in Seq(T) /\ q.keys \in Seq(T) /\ ~p.truncated /\ ~q.truncated
    BY <1>1, <1>2, <2>1
  <2>4. r = Emit(o, key, budget) /\ q = Emit(p, key, large)
    BY <2>1 DEF EmittedBy
  <2>5. /\ Begins(o.keys, p.keys)
        /\ o.truncated => Len(o.keys) < Len(p.keys)
        /\ ~o.truncated => o.keys = p.keys
    BY <1>4
  <2>6. o.truncated \in BOOLEAN
    BY <2>2 DEF CorridorStates
  <2> HIDE DEF key, o, r, p, q
  <2>7. /\ (o.truncated \/ Has(o.keys, key)) => r = o
        /\ (~o.truncated /\ ~Has(o.keys, key) /\ Len(o.keys) = budget) => r.keys = o.keys /\ r.truncated
        /\ (~o.truncated /\ ~Has(o.keys, key) /\ Len(o.keys) # budget) => r.keys = Append(o.keys, key) /\ ~r.truncated
    BY <2>2, <2>4, EmitCases, SMTT(30)
  <2>8. /\ Has(p.keys, key) => q = p
        /\ ~Has(p.keys, key) => q.keys = Append(p.keys, key)
    <3>1. /\ (p.truncated \/ Has(p.keys, key)) => q = p
          /\ (~p.truncated /\ ~Has(p.keys, key) /\ Len(p.keys) = large) => q.keys = p.keys /\ q.truncated
          /\ (~p.truncated /\ ~Has(p.keys, key) /\ Len(p.keys) # large) => q.keys = Append(p.keys, key)
      BY <2>2, <2>4, EmitCases, SMTT(30)
    <3> QED BY <2>3, <3>1
  <2>9. Begins(p.keys, q.keys) /\ Len(p.keys) \in Nat /\ Len(p.keys) <= Len(q.keys) /\ Len(q.keys) \in Nat
    <3>1. Begins(p.keys, Append(p.keys, key)) /\ Begins(p.keys, p.keys)
      BY <2>2, <2>3, BeginsAppend
    <3>2. Begins(p.keys, q.keys)
      BY <2>8, <3>1
    <3>3. Len(p.keys) \in Nat /\ Len(q.keys) \in Nat
      BY <2>3
    <3> QED BY <3>2, <3>3 DEF Begins
  <2>10. Begins(o.keys, q.keys)
    BY <2>3, <2>5, <2>9, BeginsTransitive
  <2>11. CASE o.truncated
    <3>1. r = o
      BY <2>7, <2>11
    <3>2. Len(o.keys) \in Nat /\ Len(o.keys) < Len(q.keys)
      BY <2>3, <2>5, <2>9, <2>11
    <3> QED BY <2>10, <2>11, <3>1, <3>2 DEF r, q, o
  <2>12. CASE ~o.truncated /\ Has(o.keys, key)
    BY <2>5, <2>7, <2>8, <2>10, <2>12 DEF r, q
  <2>13. CASE ~o.truncated /\ ~Has(o.keys, key) /\ Len(o.keys) = budget
    <3>1. r.keys = o.keys /\ r.truncated
      BY <2>7, <2>13
    <3>2. q.keys = Append(o.keys, key)
      BY <2>5, <2>8, <2>13
    <3>3. Len(o.keys) < Len(q.keys)
      BY <2>2, <2>3, <3>2
    <3> QED BY <2>10, <3>1, <3>3 DEF r, q
  <2>14. CASE ~o.truncated /\ ~Has(o.keys, key) /\ Len(o.keys) # budget
    <3>1. r.keys = q.keys /\ ~r.truncated
      BY <2>5, <2>7, <2>8, <2>14
    <3>2. Begins(r.keys, q.keys)
      BY <2>3, <3>1 DEF Begins
    <3> QED BY <3>1, <3>2 DEF r, q
  <2> QED BY <2>6, <2>11, <2>12, <2>13, <2>14
<1>5. 0 \in S
  BY <1>3
<1>6. ASSUME NEW j \in Nat \cap S PROVE j + 1 \in S
  <2> SUFFICES ASSUME j + 1 <= Len(keys) PROVE P(j + 1)
    OBVIOUS
  <2>1. P(j)
    OBVIOUS
  <2> HIDE DEF P
  <2> QED BY <1>4, <2>1
<1>7. \A j \in Nat : j \in S
  <2> HIDE DEF S
  <2> QED BY <1>5, <1>6, Induction
<1>8. k \in S /\ k <= Len(keys)
  BY <1>7
<1>9. P(k)
  <2> HIDE DEF P
  <2> QED BY <1>8
<1>10. c[k].truncated \in BOOLEAN /\ Len(f[k].keys) \in Nat
  <2>1. c[k] \in CorridorStates(T) /\ f[k].keys \in Seq(T)
    BY <1>1
  <2> QED BY <2>1 DEF CorridorStates
<1> QED BY <1>9, <1>10

\* Distinct tiles are not more than the grid has.
LEMMA GridHoldsThem ==
  ASSUME NEW z \in Nat, NEW s \in Seq(TilesOf(z)), IsInjective(s)
  PROVE  Len(s) # Side(z) * Side(z) + 1
<1> SUFFICES ASSUME Len(s) = Side(z) * Side(z) + 1 PROVE FALSE
  OBVIOUS
<1> DEFINE len == Side(z)
           q == len * len
           place == [i \in 1..(q + 1) |-> s[i].x * len + s[i].y]
<1>1. len \in Nat \ {0}
  BY SideFacts
<1>2. q \in Nat
  BY <1>1
<1>3. \A i \in 1..(q + 1) : s[i] \in TilesOf(z)
  OBVIOUS
<1>4. \A i \in 1..(q + 1) : s[i].x \in 0..(len - 1) /\ s[i].y \in 0..(len - 1) /\ s[i] = [z |-> z, x |-> s[i].x, y |-> s[i].y]
  BY <1>3 DEF TilesOf
<1> HIDE DEF len
<1>5. \A i \in 1..(q + 1) : /\ place[i] \in 0..(q - 1)
                            /\ place[i] \div len = s[i].x /\ place[i] % len = s[i].y
  <2> TAKE i \in 1..(q + 1)
  <2> DEFINE x == s[i].x
             y == s[i].y
  <2>1. x \in 0..(len - 1) /\ y \in 0..(len - 1)
    BY <1>4
  <2>2. place[i] = x * len + y
    OBVIOUS
  <2> HIDE DEF x, y, place
  <2>3. (x * len + y) \div len = x /\ (x * len + y) % len = y /\ x * len + y \in 0..(len * len - 1)
    BY <1>1, <2>1, DivisionPlace
  <2> QED BY <2>2, <2>3 DEF x, y
<1> HIDE DEF q
<1>6. place \in [1..(q + 1) -> 0..(q - 1)]
  BY <1>5
<1>7. IsFiniteSet(1..(q + 1)) /\ IsFiniteSet(0..(q - 1)) /\ Cardinality(0..(q - 1)) < Cardinality(1..(q + 1))
  <2>1. IsFiniteSet(1..(q + 1)) /\ Cardinality(1..(q + 1)) = IF 1 > q + 1 THEN 0 ELSE (q + 1) - 1 + 1
    <3>1. 1 \in Int /\ q + 1 \in Int
      BY <1>2
    <3> QED BY <3>1, FS_Interval
  <2>2. IsFiniteSet(0..(q - 1)) /\ Cardinality(0..(q - 1)) = IF 0 > q - 1 THEN 0 ELSE (q - 1) - 0 + 1
    <3>1. 0 \in Int /\ q - 1 \in Int
      BY <1>2
    <3> QED BY <3>1, FS_Interval
  <2> QED BY <1>2, <2>1, <2>2
<1> HIDE DEF place
<1>8. PICK i, j \in 1..(q + 1) : i # j /\ place[i] = place[j]
  BY <1>6, <1>7, FS_PigeonHole
<1>9. s[i] = s[j]
  <2>1. s[i].x = s[j].x /\ s[i].y = s[j].y
    BY <1>5, <1>8
  <2> QED BY <1>4, <2>1
<1>10. DOMAIN s = 1..(q + 1)
  BY DEF q, len
<1> QED BY <1>8, <1>9, <1>10 DEF IsInjective

LEMMA ConcatFacts ==
  ASSUME NEW T, NEW s \in Seq(T), NEW t \in Seq(T)
  PROVE  /\ s \o t \in Seq(T) /\ Len(s \o t) = Len(s) + Len(t)
         /\ \A i \in 1..Len(s) : (s \o t)[i] = s[i]
         /\ \A i \in 1..Len(t) : (s \o t)[Len(s) + i] = t[i]
         /\ Begins(s, s \o t)
         /\ \A x : Has(s \o t, x) <=> Has(s, x) \/ Has(t, x)
<1>1. /\ s \o t \in Seq(T) /\ Len(s \o t) = Len(s) + Len(t)
      /\ \A i \in 1..Len(s) : (s \o t)[i] = s[i]
      /\ \A i \in 1..Len(t) : (s \o t)[Len(s) + i] = t[i]
  OBVIOUS
<1> DEFINE u == s \o t
           m == Len(s)
           len == Len(t)
<1>2. m \in Nat /\ len \in Nat
  OBVIOUS
<1>3. Len(u) = m + len /\ (\A i \in 1..m : u[i] = s[i]) /\ \A i \in 1..len : u[m + i] = t[i]
  BY <1>1
<1> HIDE DEF u
<1>4. Begins(s, u)
  BY <1>2, <1>3 DEF Begins
<1>5. ASSUME NEW x PROVE Has(u, x) <=> Has(s, x) \/ Has(t, x)
  <2>1. ASSUME Has(u, x) PROVE Has(s, x) \/ Has(t, x)
    <3>1. PICK i \in 1..Len(u) : u[i] = x
      BY <2>1 DEF Has
    <3>2. CASE i <= m
      BY <1>2, <1>3, <3>1, <3>2 DEF Has
    <3>3. CASE ~(i <= m)
      <4>1. i - m \in 1..len /\ m + (i - m) = i
        BY <1>2, <1>3, <3>3
      <4>2. t[i - m] = u[i]
        BY <1>3, <4>1
      <4> QED BY <3>1, <4>1, <4>2 DEF Has
    <3> QED BY <3>2, <3>3
  <2>2. ASSUME Has(s, x) PROVE Has(u, x)
    <3>1. PICK i \in 1..m : s[i] = x
      BY <2>2 DEF Has
    <3>2. i \in 1..Len(u) /\ u[i] = x
      BY <1>2, <1>3, <3>1
    <3> QED BY <3>2 DEF Has
  <2>3. ASSUME Has(t, x) PROVE Has(u, x)
    <3>1. PICK i \in 1..len : t[i] = x
      BY <2>3 DEF Has
    <3>2. m + i \in 1..Len(u) /\ u[m + i] = x
      BY <1>2, <1>3, <3>1
    <3> QED BY <3>2 DEF Has
  <2> QED BY <2>1, <2>2, <2>3
<1> QED BY <1>1, <1>4, <1>5 DEF u

LEMMA SequencesEqual ==
  ASSUME NEW T, NEW s \in Seq(T), NEW t \in Seq(T), Len(s) = Len(t), \A i \in 1..Len(s) : s[i] = t[i]
  PROVE  s = t
OBVIOUS

\* The sequences of ss so far.
Concatenates(f, ss) ==
  /\ f[0] = <<>>
  /\ \A i \in 1..Len(ss) : f[i] = f[i - 1] \o ss[i]

LEMMA FlattenChain ==
  ASSUME NEW T, NEW ss \in Seq(Seq(T))
  PROVE  \E f \in [0..Len(ss) -> Seq(T)] : Concatenates(f, ss) /\ FlattenSeq(ss) = f[Len(ss)]
<1> DEFINE N == Len(ss)
           E == <<>>
           Q == Seq(T)
           G == [i \in 1..N |-> [s \in Q |-> s \o ss[i]]]
<1>1. N \in Nat /\ \A i \in 1..N : ss[i] \in Q
  OBVIOUS
<1>2. E \in Q
  OBVIOUS
<1>3. G \in [1..N -> [Q -> Q]]
  <2>1. \A i \in 1..N, s \in Q : s \o ss[i] \in Q
    BY <1>1, ConcatFacts
  <2> HIDE DEF N, Q
  <2> QED BY <2>1
<1> HIDE DEF G, N, Q, E
<1>4. PICK f \in [0..N -> Q] : f[0] = E /\ \A i \in 1..N : f[i] = G[i][f[i - 1]]
  <2>1. Recurs(Q, E, N, G)
    BY <1>1, <1>2, <1>3, Recursion
  <2> QED BY <2>1 DEF Recurs
<1>5. ASSUME NEW i \in 1..N PROVE f[i] = f[i - 1] \o ss[i]
  <2>1. f[i - 1] \in Q
    BY <1>1
  <2> QED BY <1>4, <2>1 DEF G
<1>6. Concatenates(f, ss)
  BY <1>4, <1>5 DEF Concatenates, N, E
<1>7. CASE N = 0
  <2>1. ss = <<>> /\ FlattenSeq(ss) = ss
    BY <1>7 DEF FlattenSeq, N
  <2> QED BY <1>4, <1>6, <1>7, <2>1 DEF N, Q, E
<1>8. CASE N # 0
  <2>0. N \in 1..N
    BY <1>1, <1>8
  <2> DEFINE Rec(g) == g = [i \in 1..N |-> IF i = 1 THEN ss[i] ELSE g[i - 1] \o ss[i]]
             flat == CHOOSE g : Rec(g)
  <2>1. PICK g \in [1..N -> Q] : FlattenedBy(g, ss, N)
    BY FlattenExists DEF N, Q
  <2>2. Rec(g)
    BY <2>1 DEF FlattenedBy
  <2>3. Rec(flat)
    <3> HIDE DEF Rec
    <3> QED BY <2>2
  <2> HIDE DEF flat
  <2>4. \A i \in 1..N : flat[i] = IF i = 1 THEN ss[i] ELSE flat[i - 1] \o ss[i]
    BY <2>3
  <2> DEFINE D == {i \in Nat : i \in 1..N => flat[i] = f[i]}
  <2>5. 0 \in D
    OBVIOUS
  <2>6. ASSUME NEW i \in Nat \cap D PROVE i + 1 \in D
    <3> SUFFICES ASSUME i + 1 \in 1..N PROVE flat[i + 1] = f[i + 1]
      OBVIOUS
    <3>1. ss[i + 1] \in Q /\ (i + 1) - 1 = i
      BY <1>1
    <3>2. CASE i = 0
      <4>1. E \o ss[i + 1] = ss[i + 1]
        <5>0. ss[i + 1] \in Seq(T) /\ <<>> \in Seq(T)
          BY <3>1 DEF Q
        <5> HIDE DEF E
        <5>1. <<>> \o ss[i + 1] = ss[i + 1]
          <6> DEFINE r == ss[i + 1]
          <6> HIDE DEF r
          <6>1. r \in Seq(T)
            BY <5>0 DEF r
          <6>2. <<>> \o r \in Seq(T) /\ Len(<<>> \o r) = Len(r) /\ \A k \in 1..Len(r) : (<<>> \o r)[k] = r[k]
            BY <6>1
          <6>3. <<>> \o r = r
            BY <6>1, <6>2, SequencesEqual
          <6> QED BY <6>3 DEF r
        <5> QED BY <5>1 DEF E
      <4>2. f[i + 1] = f[0] \o ss[i + 1]
        <5>1. i + 1 \in 1..N /\ (i + 1) - 1 = 0
          BY <3>2
        <5> QED BY <1>5, <5>1
      <4>3. flat[i + 1] = ss[i + 1]
        BY <2>4, <3>2
      <4> QED BY <1>4, <4>1, <4>2, <4>3
    <3>3. CASE i # 0
      <4>1. i \in 1..N /\ i + 1 # 1
        BY <1>1, <3>3
      <4>2. flat[i] = f[i]
        BY <4>1
      <4>3. flat[i + 1] = flat[(i + 1) - 1] \o ss[i + 1]
        BY <2>4, <4>1
      <4>4. f[i + 1] = f[(i + 1) - 1] \o ss[i + 1]
        BY <1>5
      <4> QED BY <3>1, <4>2, <4>3, <4>4
    <3> QED BY <3>2, <3>3
  <2>7. \A i \in Nat : i \in D
    <3> HIDE DEF D
    <3> QED BY <2>5, <2>6, Induction
  <2>8. flat[N] = f[N]
    BY <2>0, <2>7
  <2>9. FlattenSeq(ss) = flat[N]
    BY <1>8 DEF FlattenSeq, flat, N
  <2> QED BY <1>6, <2>8, <2>9 DEF N, Q
<1> QED BY <1>7, <1>8

LEMMA ChainElements ==
  ASSUME NEW T, NEW ss \in Seq(Seq(T)), NEW f \in [0..Len(ss) -> Seq(T)], Concatenates(f, ss),
         NEW x, NEW k \in 0..Len(ss)
  PROVE  Has(f[k], x) <=> \E i \in 1..k : Has(ss[i], x)
<1> DEFINE P(j) == Has(f[j], x) <=> \E i \in 1..j : Has(ss[i], x)
           S == {j \in Nat : j <= Len(ss) => P(j)}
<1>1. 0 \in S
  <2>1. f[0] = <<>>
    BY DEF Concatenates
  <2>2. ~Has(<<>>, x)
    BY DEF Has
  <2>3. P(0)
    BY <2>1, <2>2
  <2> HIDE DEF P
  <2>4. 0 \in Nat /\ (0 <= Len(ss) => P(0))
    BY <2>3
  <2> QED BY <2>4
<1>2. ASSUME NEW j \in Nat \cap S PROVE j + 1 \in S
  <2> HIDE DEF P
  <2>a. j \in Nat /\ (j <= Len(ss) => P(j)) /\ j + 1 \in Nat
    OBVIOUS
  <2>b. (j + 1 <= Len(ss) => P(j + 1)) => j + 1 \in S
    BY <2>a
  <2> HIDE DEF S
  <2> SUFFICES ASSUME j + 1 <= Len(ss) PROVE P(j + 1)
    BY <2>b
  <2>c. P(j)
    BY <2>a
  <2> USE DEF P
  <2>1. j + 1 \in 1..Len(ss) /\ (j + 1) - 1 = j /\ P(j)
    BY <2>c
  <2>2. f[j] \in Seq(T) /\ ss[j + 1] \in Seq(T)
    <3> DEFINE Q == Seq(T)
               len == Len(ss)
    <3>1. j \in 0..len /\ j + 1 \in 1..len /\ f \in [0..len -> Q]
      BY <2>1, <2>a
    <3>2. \A h \in 1..len : ss[h] \in Q
      OBVIOUS
    <3> HIDE DEF Q, len, P
    <3>3. f[j] \in Q /\ ss[j + 1] \in Q
      BY <3>1, <3>2
    <3> QED BY <3>3 DEF Q
  <2>3. f[j + 1] = f[j] \o ss[j + 1]
    BY <2>1 DEF Concatenates
  <2>4. Has(f[j + 1], x) <=> Has(f[j], x) \/ Has(ss[j + 1], x)
    <3> DEFINE a == f[j]
               b == ss[j + 1]
    <3>1. a \in Seq(T) /\ b \in Seq(T)
      BY <2>2
    <3> HIDE DEF a, b
    <3>2. Has(a \o b, x) <=> Has(a, x) \/ Has(b, x)
      BY <3>1, ConcatFacts
    <3> QED BY <2>3, <3>2 DEF a, b
  <2>5. \A i : i \in 1..(j + 1) <=> i \in 1..j \/ i = j + 1
    BY <2>a
  <2> QED BY <2>1, <2>4, <2>5
<1>3. \A j \in Nat : j \in S
  <2> HIDE DEF S
  <2> QED BY <1>1, <1>2, Induction
<1>4. k \in S /\ k <= Len(ss)
  <2>1. k \in Nat /\ k <= Len(ss)
    OBVIOUS
  <2> HIDE DEF S
  <2> QED BY <1>3, <2>1
<1>5. P(k)
  <2> HIDE DEF P
  <2> QED BY <1>4
<1> QED BY <1>5

LEMMA ChainGrows ==
  ASSUME NEW T, NEW ss \in Seq(Seq(T)), NEW f \in [0..Len(ss) -> Seq(T)], Concatenates(f, ss),
         NEW j \in 0..Len(ss), NEW k \in j..Len(ss)
  PROVE  Begins(f[j], f[k])
<1> DEFINE S == {i \in Nat : j + i <= Len(ss) => Begins(f[j], f[j + i])}
<1>1. 0 \in S
  <2>1. f[j] \in Seq(T) /\ j + 0 = j
    OBVIOUS
  <2> QED BY <2>1 DEF Begins
<1>2. ASSUME NEW i \in Nat \cap S PROVE i + 1 \in S
  <2> SUFFICES ASSUME j + (i + 1) <= Len(ss) PROVE Begins(f[j], f[j + (i + 1)])
    OBVIOUS
  <2>0. Begins(f[j], f[j + i])
    OBVIOUS
  <2> DEFINE m == j + i
  <2>1. m \in 0..Len(ss) /\ m + 1 \in 1..Len(ss) /\ (m + 1) - 1 = m /\ j + (i + 1) = m + 1
    OBVIOUS
  <2>2. Begins(f[j], f[m])
    BY <2>0
  <2> HIDE DEF m, S
  <2>3. f[j] \in Seq(T) /\ f[m] \in Seq(T) /\ ss[m + 1] \in Seq(T)
    <3> DEFINE len == Len(ss)
               Q == Seq(T)
    <3>1. f \in [0..len -> Q] /\ j \in 0..len /\ m \in 0..len /\ m + 1 \in 1..len /\ ss \in Seq(Q)
      BY <2>1
    <3>2. \A h \in 1..len : ss[h] \in Q
      OBVIOUS
    <3> HIDE DEF len, Q
    <3>3. f[j] \in Q /\ f[m] \in Q /\ ss[m + 1] \in Q
      BY <3>1, <3>2
    <3> QED BY <3>3 DEF Q
  <2>4. f[m + 1] = f[m] \o ss[m + 1]
    BY <2>1 DEF Concatenates
  <2> DEFINE a == f[j]
             b == f[m]
             c == ss[m + 1]
  <2>5. a \in Seq(T) /\ b \in Seq(T) /\ c \in Seq(T) /\ Begins(a, b)
    BY <2>2, <2>3
  <2> HIDE DEF a, b, c
  <2>6. Begins(b, b \o c) /\ b \o c \in Seq(T)
    BY <2>5, ConcatFacts
  <2>7. Begins(a, b \o c)
    BY <2>5, <2>6, BeginsTransitive
  <2> QED BY <2>1, <2>4, <2>7 DEF a, b, c
<1>3. \A i \in Nat : i \in S
  <2> HIDE DEF S
  <2> QED BY <1>1, <1>2, Induction
<1>4. k - j \in Nat /\ j + (k - j) = k
  OBVIOUS
<1>5. k - j \in S
  BY <1>3, <1>4
<1> QED BY <1>4, <1>5

LEMMA FlattenBegins ==
  ASSUME NEW T, NEW ss \in Seq(Seq(T)), NEW tt \in Seq(Seq(T)), Begins(ss, tt)
  PROVE  Begins(FlattenSeq(ss), FlattenSeq(tt))
<1>1. PICK f \in [0..Len(ss) -> Seq(T)] : Concatenates(f, ss) /\ FlattenSeq(ss) = f[Len(ss)]
  BY FlattenChain
<1>2. PICK g \in [0..Len(tt) -> Seq(T)] : Concatenates(g, tt) /\ FlattenSeq(tt) = g[Len(tt)]
  BY FlattenChain
<1> DEFINE S == {j \in Nat : j <= Len(ss) => f[j] = g[j]}
<1>3. 0 \in S
  BY <1>1, <1>2 DEF Concatenates
<1>4. ASSUME NEW j \in Nat \cap S PROVE j + 1 \in S
  <2> SUFFICES ASSUME j + 1 <= Len(ss) PROVE f[j + 1] = g[j + 1]
    OBVIOUS
  <2>1. j + 1 \in 1..Len(ss) /\ (j + 1) - 1 = j /\ f[j] = g[j] /\ ss[j + 1] = tt[j + 1] /\ j + 1 \in 1..Len(tt)
    BY DEF Begins
  <2> QED BY <1>1, <1>2, <2>1 DEF Concatenates
<1>5. \A j \in Nat : j \in S
  <2> HIDE DEF S
  <2> QED BY <1>3, <1>4, Induction
<1>6. Len(ss) \in Nat /\ Len(tt) \in Nat /\ Len(ss) <= Len(tt)
  BY DEF Begins
<1>7. f[Len(ss)] = g[Len(ss)]
  BY <1>5, <1>6
<1>8. Len(ss) \in 0..Len(tt) /\ Len(tt) \in Len(ss)..Len(tt)
  BY <1>6
<1> HIDE DEF S
<1>9. Begins(g[Len(ss)], g[Len(tt)])
  BY <1>2, <1>8, ChainGrows
<1> QED BY <1>1, <1>2, <1>7, <1>9

LEMMA ChainSingles ==
  ASSUME NEW T, NEW ss \in Seq(Seq(T)), NEW f \in [0..Len(ss) -> Seq(T)], Concatenates(f, ss),
         \A i \in 1..Len(ss) : Len(ss[i]) = 1, NEW k \in 0..Len(ss)
  PROVE  Len(f[k]) = k /\ \A i \in 1..k : f[k][i] = ss[i][1]
<1> DEFINE P(j) == Len(f[j]) = j /\ \A i \in 1..j : f[j][i] = ss[i][1]
           S == {j \in Nat : j <= Len(ss) => P(j)}
<1>1. 0 \in S
  BY DEF Concatenates
<1>2. ASSUME NEW j \in Nat \cap S PROVE j + 1 \in S
  <2> SUFFICES ASSUME j + 1 <= Len(ss) PROVE P(j + 1)
    OBVIOUS
  <2> DEFINE a == f[j]
             b == ss[j + 1]
             u == f[j + 1]
  <2>1. j + 1 \in 1..Len(ss) /\ (j + 1) - 1 = j /\ P(j)
    OBVIOUS
  <2>2. a \in Seq(T) /\ b \in Seq(T) /\ Len(b) = 1
    <3>1. j \in 0..Len(ss) /\ j + 1 \in 1..Len(ss)
      BY <2>1
    <3> DEFINE len == Len(ss)
               Q == Seq(T)
    <3>2. f \in [0..len -> Q] /\ j \in 0..len /\ j + 1 \in 1..len
      BY <3>1
    <3>3. \A h \in 1..len : ss[h] \in Q /\ Len(ss[h]) = 1
      OBVIOUS
    <3> HIDE DEF len, Q
    <3>4. f[j] \in Q /\ ss[j + 1] \in Q /\ Len(ss[j + 1]) = 1
      BY <3>2, <3>3
    <3> QED BY <3>4 DEF Q
  <2>3. u = a \o b
    BY <2>1 DEF Concatenates
  <2> HIDE DEF a, b, u
  <2>4. Len(u) = Len(a) + 1 /\ (\A i \in 1..Len(a) : u[i] = a[i]) /\ u[Len(a) + 1] = b[1]
    <3>1. /\ Len(a \o b) = Len(a) + Len(b) /\ \A i \in 1..Len(a) : (a \o b)[i] = a[i]
          /\ \A i \in 1..Len(b) : (a \o b)[Len(a) + i] = b[i]
      <4>1. a \in Seq(T) /\ b \in Seq(T)
        BY <2>2
      <4> QED BY <4>1
    <3> QED BY <2>2, <2>3, <3>1
  <2>5. Len(a) = j /\ \A i \in 1..j : a[i] = ss[i][1]
    BY <2>1 DEF a
  <2>6. ASSUME NEW i \in 1..(j + 1) PROVE u[i] = ss[i][1]
    <3>1. i \in 1..j \/ i = j + 1
      OBVIOUS
    <3> QED BY <2>4, <2>5, <3>1 DEF b
  <2> QED BY <2>4, <2>5, <2>6 DEF u
<1>3. \A j \in Nat : j \in S
  <2> HIDE DEF S
  <2> QED BY <1>1, <1>2, Induction
<1>4. k \in S /\ k <= Len(ss)
  <2>1. k \in Nat /\ k <= Len(ss)
    OBVIOUS
  <2> HIDE DEF S
  <2> QED BY <1>3, <2>1
<1>5. P(k)
  <2> HIDE DEF P
  <2> QED BY <1>4
<1> QED BY <1>5

LEMMA SequenceOf ==
  ASSUME NEW T, NEW s \in Seq(T), NEW S, \A i \in 1..Len(s) : s[i] \in S
  PROVE  s \in Seq(S)
<1> DEFINE side == Len(s)
<1>1. side \in Nat /\ s = [i \in 1..side |-> s[i]] /\ \A i \in 1..side : s[i] \in S
  OBVIOUS
<1> HIDE DEF side
<1> QED BY <1>1

\* The cells of a grid and their tiles.
GridCells(side) == [x : 0..(side - 1), y : 0..(side - 1)]

Centre(cell, z) == [z |-> z, x |-> cell.x, y |-> Side(z) - 1 - cell.y]

Near(a, b, radius) == absInt(a.x - b.x) <= radius /\ absInt(a.y - b.y) <= radius

LEMMA CentreFacts ==
  ASSUME NEW z \in Nat, NEW cell \in GridCells(Side(z))
  PROVE  /\ Centre(cell, z) \in TilesOf(z)
         /\ \A other \in GridCells(Side(z)) : Centre(cell, z) = Centre(other, z) => cell = other
<1> DEFINE side == Side(z)
<1>1. side \in Nat \ {0}
  BY SideFacts
<1> HIDE DEF side
<1>2. cell.x \in 0..(side - 1) /\ cell.y \in 0..(side - 1) /\ cell = [x |-> cell.x, y |-> cell.y]
  BY DEF GridCells, side
<1>3. side - 1 - cell.y \in 0..(side - 1)
  BY <1>1, <1>2
<1>4. Centre(cell, z) \in TilesOf(z)
  BY <1>2, <1>3 DEF Centre, TilesOf, side
<1>5. ASSUME NEW other \in GridCells(side), Centre(cell, z) = Centre(other, z) PROVE cell = other
  <2>1. other.x \in 0..(side - 1) /\ other.y \in 0..(side - 1) /\ other = [x |-> other.x, y |-> other.y]
    BY DEF GridCells
  <2>2. cell.x = other.x /\ side - 1 - cell.y = side - 1 - other.y
    BY <1>5 DEF Centre, side
  <2>3. cell.y = other.y
    BY <1>1, <1>2, <2>1, <2>2
  <2> QED BY <1>2, <2>1, <2>2, <2>3
<1> QED BY <1>4, <1>5 DEF side

LEMMA WindowFacts ==
  ASSUME NEW z \in Nat, NEW radius \in Nat, NEW cell \in GridCells(Side(z))
  PROVE  LET w == Window(cell, z, radius)
         IN  /\ w \in Seq(TilesOf(z))
             /\ \A key : Has(w, key) <=> key \in TilesOf(z) /\ Near(Centre(cell, z), key, radius)
             /\ radius = 0 => Len(w) = 1 /\ w[1] = Centre(cell, z)
<1> DEFINE side == Side(z)
           width == 2 * radius + 1
           q == width * width
           x == cell.x
           y == cell.y
           Key(i) == [z |-> z, x |-> x - radius + ((i - 1) % width),
                      y |-> side - 1 - (y - radius + ((i - 1) \div width))]
           raw == [i \in 1..q |-> Key(i)]
           Raw == [z : {z}, x : Int, y : Int]
           w == Window(cell, z, radius)
           c == Centre(cell, z)
<1>1. side \in Nat \ {0} /\ x \in 0..(side - 1) /\ y \in 0..(side - 1)
  BY SideFacts DEF GridCells
<1>2. width \in Nat \ {0} /\ q \in Nat /\ 2 * radius = width - 1
  OBVIOUS
<1>3. w = Kept(raw, TilesOf(z))
  BY DEF Window
<1>4. c = [z |-> z, x |-> x, y |-> side - 1 - y]
  BY DEF Centre
<1> HIDE DEF side, width, x, y, w, c
<1>5. \A i \in 1..q : (i - 1) \div width \in 0..(width - 1) /\ (i - 1) % width \in 0..(width - 1)
  <2> TAKE i \in 1..q
  <2>1. i - 1 \in 0..(width * width - 1)
    <3> HIDE DEF q
    <3>1. i - 1 \in 0..(q - 1)
      BY <1>2
    <3> QED BY <3>1 DEF q
  <2> QED BY <1>2, <2>1, DivisionRange
<1> HIDE DEF q
<1>6. \A i \in 1..q : Key(i) \in Raw /\ Near(c, Key(i), radius)
  <2> TAKE i \in 1..q
  <2> DEFINE a == (i - 1) % width
             b == (i - 1) \div width
  <2>1. a \in 0..(width - 1) /\ b \in 0..(width - 1)
    BY <1>5
  <2>2. Key(i) = [z |-> z, x |-> x - radius + a, y |-> side - 1 - (y - radius + b)]
    OBVIOUS
  <2> HIDE DEF a, b, Key
  <2>3. Key(i) \in Raw
    BY <1>1, <2>1, <2>2, <1>2
  <2>4. absInt(x - (x - radius + a)) <= radius /\ absInt((side - 1 - y) - (side - 1 - (y - radius + b))) <= radius
    BY <1>1, <1>2, <2>1 DEF absInt
  <2> QED BY <1>4, <2>2, <2>3, <2>4 DEF Near
<1>7. \A key \in TilesOf(z) : Near(c, key, radius) => \E i \in 1..q : Key(i) = key
  <2> SUFFICES ASSUME NEW key \in TilesOf(z), Near(c, key, radius) PROVE \E i \in 1..q : Key(i) = key
    OBVIOUS
  <2> DEFINE a == key.x - x + radius
             b == side - 1 - key.y - y + radius
  <2>1. key.x \in 0..(side - 1) /\ key.y \in 0..(side - 1) /\ key = [z |-> z, x |-> key.x, y |-> key.y]
    BY DEF TilesOf, side
  <2>2. absInt(x - key.x) <= radius /\ absInt((side - 1 - y) - key.y) <= radius
    BY <1>4 DEF Near
  <2>3. a \in 0..(width - 1) /\ b \in 0..(width - 1)
    BY <1>1, <1>2, <2>1, <2>2 DEF absInt
  <2>4. key.x = x - radius + a /\ key.y = side - 1 - (y - radius + b)
    BY <1>1, <2>1
  <2> HIDE DEF a, b
  <2> DEFINE p == b * width + a
  <2>5. p \div width = b /\ p % width = a /\ p \in 0..(width * width - 1)
    BY <1>2, <2>3, DivisionPlace
  <2> HIDE DEF p
  <2>6. p + 1 \in 1..q /\ (p + 1) - 1 = p
    <3>1. p \in 0..(q - 1)
      BY <2>5 DEF q
    <3> QED BY <1>2, <3>1
  <2>7. Key(p + 1) = key
    BY <2>1, <2>4, <2>5, <2>6
  <2> QED BY <2>6, <2>7
<1> HIDE DEF Key, Raw
<1>8. raw \in Seq(Raw) /\ Len(raw) = q /\ \A i \in 1..q : raw[i] = Key(i)
  BY <1>2, <1>6
<1> HIDE DEF raw
<1>9. w \in Seq(Raw)
  BY <1>3, <1>8, KeptType
<1>10. /\ \A i \in 1..Len(w) : w[i] \in TilesOf(z) /\ \E j \in 1..q : w[i] = Key(j)
       /\ \A j \in 1..q : Key(j) \in TilesOf(z) => \E i \in 1..Len(w) : w[i] = Key(j)
  <2>1. /\ \A i \in 1..Len(w) : w[i] \in TilesOf(z) /\ \E j \in 1..Len(raw) : w[i] = raw[j]
        /\ \A j \in 1..Len(raw) : raw[j] \in TilesOf(z) => \E i \in 1..Len(w) : w[i] = raw[j]
    <3>1. raw \in Seq(Raw) /\ w = Kept(raw, TilesOf(z))
      BY <1>3, <1>8
    <3> HIDE DEF w
    <3> QED BY <3>1, KeptElements
  <2> HIDE DEF w, q
  <2>2. ASSUME NEW i \in 1..Len(w) PROVE w[i] \in TilesOf(z) /\ \E j \in 1..q : w[i] = Key(j)
    <3>1. PICK j \in 1..Len(raw) : w[i] = raw[j]
      BY <2>1
    <3>2. j \in 1..q /\ raw[j] = Key(j)
      BY <1>8
    <3> QED BY <2>1, <3>1, <3>2
  <2>3. ASSUME NEW j \in 1..q, Key(j) \in TilesOf(z) PROVE \E i \in 1..Len(w) : w[i] = Key(j)
    <3>1. j \in 1..Len(raw) /\ raw[j] = Key(j)
      BY <1>8
    <3> QED BY <2>1, <2>3, <3>1
  <2> QED BY <2>2, <2>3
<1>11. w \in Seq(TilesOf(z))
  BY <1>9, <1>10, SequenceOf
<1>12. ASSUME NEW key PROVE Has(w, key) <=> key \in TilesOf(z) /\ Near(c, key, radius)
  BY <1>6, <1>7, <1>10 DEF Has
<1>13. ASSUME radius = 0 PROVE Len(w) = 1 /\ w[1] = c
  <2>1. q = 1
    BY <1>13 DEF q, width
  <2>2. c \in TilesOf(z)
    BY CentreFacts DEF c
  <2>3. Near(c, c, 0)
    BY <1>1, <1>4 DEF Near, absInt
  <2>4. Has(w, c)
    BY <1>12, <1>13, <2>2, <2>3
  <2>5. PICK g : Selects(g, w, raw, Len(raw), TilesOf(z))
    BY <1>3, <1>8, KeptSelects
  <2>6. \A i \in 1..Len(w) : g[i] = 1
    BY <1>8, <2>1, <2>5 DEF Selects
  <2>7. Len(w) \in Nat
    BY <1>9
  <2>8. ~(Len(w) >= 2)
    <3> SUFFICES ASSUME Len(w) >= 2 PROVE FALSE
      OBVIOUS
    <3>1. 1 \in 1..Len(w) /\ 2 \in 1..Len(w)
      BY <2>7
    <3>2. g[1] < g[2]
      BY <2>5, <3>1 DEF Selects
    <3> QED BY <2>6, <3>1, <3>2
  <2> QED BY <2>4, <2>7, <2>8 DEF Has
<1> QED BY <1>11, <1>12, <1>13 DEF w, c

-----------------------------------------------------------------------------
(* The cells of a route                                                      *)

LEMMA FewerThanARound ==
  ASSUME NEW side \in Nat \ {0}, NEW u \in Int, NEW v \in Int, 0 < v - u, v - u < side
  PROVE  u % side # v % side
<1> SUFFICES ASSUME u % side = v % side PROVE FALSE
  OBVIOUS
<1> DEFINE p == u \div side
           q == v \div side
           r == u % side
<1>1. p \in Int /\ r \in 0..(side - 1) /\ u = side * p + r
  BY DivisionIs
<1>2. q \in Int /\ v = side * q + r
  BY DivisionIs
<1> HIDE DEF p, q, r
<1> DEFINE a == side * p
           b == side * q
<1>3. a \in Int /\ b \in Int /\ 0 < b - a /\ b - a < side
  BY <1>1, <1>2
<1>4. q <= p => b <= a
  BY <1>1, <1>2
<1>5. q >= p + 1 => b >= a + side
  BY <1>1, <1>2
<1> HIDE DEF a, b
<1> QED BY <1>1, <1>2, <1>3, <1>4, <1>5

LEMMA NeighboursRound ==
  ASSUME NEW side \in Nat \ {0}, NEW u \in Int, NEW v \in Int, absInt(v - u) <= 1
  PROVE  Apart(v % side, u % side, side) <= 1
<1>1. ASSUME NEW a \in Int, NEW b \in Int, b = a + 1
      PROVE  LET r == a % side
                 s == b % side
             IN  r \in 0..(side - 1) /\ s = IF r = side - 1 THEN 0 ELSE r + 1
  <2> DEFINE p == a \div side
             r == a % side
  <2>1. p \in Int /\ r \in 0..(side - 1) /\ a = side * p + r
    BY DivisionIs
  <2> HIDE DEF p, r
  <2>2. CASE r = side - 1
    <3>1. b = side * (p + 1) + 0
      BY <1>1, <2>1, <2>2
    <3>2. p + 1 \in Int /\ 0 \in 0..(side - 1)
      BY <2>1
    <3>3. (side * (p + 1) + 0) % side = 0
      BY <3>2, DivisionIsUnique
    <3>4. b % side = 0
      BY <3>1, <3>3
    <3> QED BY <2>1, <2>2, <3>4 DEF r
  <2>3. CASE r # side - 1
    <3>1. b = side * p + (r + 1)
      BY <1>1, <2>1
    <3>2. r + 1 \in 0..(side - 1)
      BY <2>1, <2>3
    <3>3. (side * p + (r + 1)) % side = r + 1
      BY <2>1, <3>2, DivisionIsUnique
    <3>4. b % side = r + 1
      BY <3>1, <3>3
    <3> QED BY <2>1, <2>3, <3>4 DEF r
  <2> QED BY <2>2, <2>3
<1>2. u % side \in 0..(side - 1) /\ v % side \in 0..(side - 1)
  BY DivisionIs
<1>3. v = u \/ v = u + 1 \/ u = v + 1
  BY DEF absInt
<1> DEFINE r == u % side
           s == v % side
<1>4. \/ s = r
      \/ s = IF r = side - 1 THEN 0 ELSE r + 1
      \/ r = IF s = side - 1 THEN 0 ELSE s + 1
  BY <1>1, <1>3
<1>5. r \in 0..(side - 1) /\ s \in 0..(side - 1)
  BY <1>2
<1> HIDE DEF r, s
<1>6. absInt(s - r) \in Int /\ (absInt(s - r) <= 1 \/ side - absInt(s - r) <= 1)
  BY <1>4, <1>5 DEF absInt
<1> DEFINE d == absInt(s - r)
<1> HIDE DEF d
<1>7. d \in Int /\ side - d \in Int /\ (d <= 1 \/ side - d <= 1)
  BY <1>6 DEF d
<1>8. Min({d, side - d}) <= 1
  BY <1>7, PairMinMax
<1> QED BY <1>8 DEF Apart, d, r, s

LEMMA ShortWayFacts ==
  ASSUME NEW side \in Nat \ {0}, NEW a \in GridCells(side), NEW b \in GridCells(side)
  PROVE  LET e == ShortWay(a, b, side)
         IN  /\ a \in Cells /\ e \in Cells /\ e.y = b.y /\ e.x % side = b.x
             /\ Wide(a, e) = Apart(a.x, b.x, side) /\ Wide(a, e) < side
<1> DEFINE d == absInt(b.x - a.x)
           e == ShortWay(a, b, side)
           h == side \div 2
<1>1. a.x \in 0..(side - 1) /\ a.y \in 0..(side - 1) /\ b.x \in 0..(side - 1) /\ b.y \in 0..(side - 1)
      /\ a = [x |-> a.x, y |-> a.y] /\ b = [x |-> b.x, y |-> b.y]
  BY DEF GridCells
<1>2. d \in 0..(side - 1) /\ absInt(a.x - b.x) = d
  BY <1>1 DEF absInt
<1>3. h \in Int /\ 2 * h <= side /\ side <= 2 * h + 1
  OBVIOUS
<1>4. e = IF ~(d > h) THEN b ELSE [x |-> IF b.x > a.x THEN b.x - side ELSE b.x + side, y |-> b.y]
  BY <1>1 DEF ShortWay, IsLongWay
<1> HIDE DEF d, h, e
<1>5. a \in Cells /\ b \in Cells
  BY <1>1 DEF Cells
<1>6. Apart(a.x, b.x, side) = IF d <= side - d THEN d ELSE side - d
  <2>1. d \in Int /\ side - d \in Int
    BY <1>2
  <2>2. Min({d, side - d}) = IF d <= side - d THEN d ELSE side - d
    BY <2>1, PairMinMax
  <2> QED BY <1>2, <2>2 DEF Apart
<1>7. b.x % side = b.x
  BY <1>1, SmallRemainder
<1>8. CASE ~(d > h)
  <2>1. d <= side - d
    BY <1>2, <1>3, <1>8
  <2>2. e = b /\ Wide(a, e) = d
    BY <1>4, <1>8 DEF Wide, d
  <2> QED BY <1>2, <1>5, <1>6, <1>7, <2>1, <2>2 DEF e
<1>9. CASE d > h
  <2>1. d >= side - d /\ d > 0
    BY <1>2, <1>3, <1>9
  <2>2. CASE b.x > a.x
    <3>1. e = [x |-> b.x - side, y |-> b.y]
      BY <1>4, <1>9, <2>2
    <3>2. e \in Cells /\ e.y = b.y /\ e.x = b.x - side
      BY <1>1, <3>1 DEF Cells
    <3>3. (e.x + side) % side = e.x % side
      BY <3>2, RemainderOfTurn DEF Cells
    <3>4. e.x + side = b.x
      BY <1>1, <3>2
    <3>5. Wide(a, e) = side - d
      BY <1>1, <2>2, <3>2 DEF Wide, absInt, d
    <3>6. side - d < side /\ (IF d <= side - d THEN d ELSE side - d) = side - d
      BY <1>2, <2>1
    <3> QED BY <1>5, <1>6, <1>7, <3>2, <3>3, <3>4, <3>5, <3>6 DEF e
  <2>3. CASE ~(b.x > a.x)
    <3>1. e = [x |-> b.x + side, y |-> b.y]
      BY <1>4, <1>9, <2>3
    <3>2. e \in Cells /\ e.y = b.y /\ e.x = b.x + side
      BY <1>1, <3>1 DEF Cells
    <3>3. (b.x + side) % side = b.x % side
      BY <1>1, RemainderOfTurn
    <3>5. Wide(a, e) = side - d
      BY <1>1, <2>3, <3>2 DEF Wide, absInt, d
    <3>6. side - d < side /\ (IF d <= side - d THEN d ELSE side - d) = side - d
      BY <1>2, <2>1
    <3> QED BY <1>5, <1>6, <1>7, <3>2, <3>3, <3>5, <3>6 DEF e
  <2> QED BY <2>2, <2>3
<1> QED BY <1>8, <1>9

\* The cells from one to the other by the shorter way.
OnGrid(cell, side) == [x |-> cell.x % side, y |-> cell.y]

LegCells(a, b, side) ==
  LET s == rasterizeRouteSegment(a, ShortWay(a, b, side)) IN [i \in 1..Len(s) |-> OnGrid(s[i], side)]

LEMMA LegFacts ==
  ASSUME NEW side \in Nat \ {0}, NEW a \in GridCells(side), NEW b \in GridCells(side)
  PROVE  LET c == LegCells(a, b, side)
         IN  /\ c \in Seq(GridCells(side))
             /\ Len(c) = Max({Apart(a.x, b.x, side), absInt(a.y - b.y)}) + 1 /\ Len(c) >= 1
             /\ c[1] = a /\ c[Len(c)] = b /\ IsInjective(c)
             /\ \A i \in 2..Len(c) : Apart(c[i].x, c[i - 1].x, side) <= 1 /\ absInt(c[i].y - c[i - 1].y) <= 1
<1> DEFINE e == ShortWay(a, b, side)
           s == rasterizeRouteSegment(a, e)
           m == Len(s)
           c == LegCells(a, b, side)
           W == Wide(a, e)
           H == High(a, e)
           L == Longer(a, e)
<1>1. a.x \in 0..(side - 1) /\ a.y \in 0..(side - 1) /\ b.x \in 0..(side - 1) /\ b.y \in 0..(side - 1)
      /\ a = [x |-> a.x, y |-> a.y] /\ b = [x |-> b.x, y |-> b.y]
  BY DEF GridCells
<1>2. a \in Cells /\ e \in Cells /\ e.y = b.y /\ e.x % side = b.x /\ W = Apart(a.x, b.x, side) /\ W < side
  BY ShortWayFacts
<1> HIDE DEF e
<1>3. s \in Seq(Cells) /\ m = L + 1 /\ Traced(a, e, s) /\ s[m] = e
  BY <1>2, SegmentFacts
<1>4. \A p \in 1..m :
        /\ s[p].x \in Int /\ s[p].y \in Int
        /\ (a.y <= s[p].y /\ s[p].y <= e.y) \/ (e.y <= s[p].y /\ s[p].y <= a.y)
        /\ \A q \in 1..m : p < q =>
             \/ L = W /\ s[q].x - s[p].x = Toward(a.x, e.x) * (q - p)
             \/ s[q].y # s[p].y
  BY <1>2, SegmentCells
<1>5. W \in Nat /\ H \in Nat /\ L \in Nat
  BY <1>2, SpanFacts
<1>6. c = [i \in 1..m |-> OnGrid(s[i], side)]
  BY DEF LegCells, e
<1>7. s[1] = a /\ \A p \in 1..(m - 1) : absInt(s[p + 1].x - s[p].x) <= 1 /\ absInt(s[p + 1].y - s[p].y) <= 1
  BY <1>3 DEF Traced
<1>8. H = absInt(a.y - b.y) /\ L = IF H <= W THEN W ELSE H
  BY <1>1, <1>2 DEF High, Longer, absInt
<1> HIDE DEF s, m, W, H, L, c
<1>9. m \in Nat /\ m >= 1
  BY <1>3, <1>5
<1>10. \A i \in 1..m : OnGrid(s[i], side) \in GridCells(side)
  <2> TAKE i \in 1..m
  <2>1. s[i].x % side \in 0..(side - 1)
    BY <1>4, DivisionIs
  <2>2. s[i].y \in 0..(side - 1)
    BY <1>1, <1>2, <1>4
  <2> QED BY <2>1, <2>2 DEF OnGrid, GridCells
<1>11. c \in Seq(GridCells(side)) /\ Len(c) = m /\ \A i \in 1..m : c[i] = OnGrid(s[i], side)
  BY <1>6, <1>9, <1>10
<1>12. m = Max({Apart(a.x, b.x, side), absInt(a.y - b.y)}) + 1
  <2>1. Max({W, H}) = IF W <= H THEN H ELSE W
    BY <1>5, PairMinMax
  <2>2. L = Max({W, H})
    BY <1>5, <1>8, <2>1
  <2> QED BY <1>2, <1>3, <1>8, <2>2
<1>13. c[1] = a
  <2>1. a.x % side = a.x
    BY <1>1, SmallRemainder
  <2> QED BY <1>1, <1>7, <1>9, <1>11, <2>1 DEF OnGrid
<1>14. c[m] = b
  BY <1>1, <1>2, <1>3, <1>9, <1>11 DEF OnGrid
<1>15. ASSUME NEW p \in 1..m, NEW q \in 1..m, p < q PROVE c[p] # c[q]
  <2>1. CASE s[q].y # s[p].y
    BY <1>11, <2>1 DEF OnGrid
  <2>2. CASE L = W /\ s[q].x - s[p].x = Toward(a.x, e.x) * (q - p)
    <3>1. 0 < q - p /\ q - p < side
      BY <1>2, <1>3, <1>5, <1>15, <2>2
    <3>2. s[q].x \in Int /\ s[p].x \in Int
      BY <1>4
    <3>3. s[q].x % side # s[p].x % side
      <4>1. s[q].x - s[p].x = q - p \/ s[p].x - s[q].x = q - p
        BY <2>2, <3>2 DEF Toward
      <4>2. CASE s[q].x - s[p].x = q - p
        BY <3>1, <3>2, <4>2, FewerThanARound
      <4>3. CASE s[p].x - s[q].x = q - p
        BY <3>1, <3>2, <4>3, FewerThanARound
      <4> QED BY <4>1, <4>2, <4>3
    <3> QED BY <1>11, <3>3 DEF OnGrid
  <2> QED BY <1>4, <1>15, <2>1, <2>2
<1>16. IsInjective(c)
  <2>1. DOMAIN c = 1..m
    BY <1>6
  <2>2. \A p, q \in 1..m : p < q \/ q < p \/ p = q
    BY <1>9
  <2> QED BY <1>15, <2>1, <2>2 DEF IsInjective
<1>17. ASSUME NEW i \in 2..m PROVE Apart(c[i].x, c[i - 1].x, side) <= 1 /\ absInt(c[i].y - c[i - 1].y) <= 1
  <2>1. i - 1 \in 1..(m - 1) /\ i - 1 \in 1..m /\ i \in 1..m /\ (i - 1) + 1 = i
    BY <1>9
  <2>2. s[i].x \in Int /\ s[i - 1].x \in Int
    BY <1>4, <2>1
  <2>3. absInt(s[i].x - s[i - 1].x) <= 1 /\ absInt(s[i].y - s[i - 1].y) <= 1
    BY <1>7, <2>1
  <2>4. Apart(s[i].x % side, s[i - 1].x % side, side) <= 1
    BY <2>2, <2>3, NeighboursRound
  <2>5. c[i] = OnGrid(s[i], side) /\ c[i - 1] = OnGrid(s[i - 1], side)
    BY <1>11, <2>1
  <2> QED BY <2>3, <2>4, <2>5 DEF OnGrid
<1> QED BY <1>9, <1>11, <1>12, <1>13, <1>14, <1>16, <1>17 DEF c

\* The segments of a route, before their columns are put on the grid.
SegmentsOf(points, side) ==
  [i \in 1..(Len(points) - 1) |-> rasterizeRouteSegment(points[i], ShortWay(points[i], points[i + 1], side))]

LEMMA SegmentsType ==
  ASSUME NEW side \in Nat \ {0}, NEW points \in Seq(GridCells(side)), points # <<>>
  PROVE  /\ SegmentsOf(points, side) \in Seq(Seq(Cells)) /\ Len(SegmentsOf(points, side)) = Len(points) - 1
         /\ \A i \in 1..(Len(points) - 1) :
              LET s == SegmentsOf(points, side)[i]
              IN  /\ s # <<>> /\ s[1] = points[i]
                  /\ Len(LegCells(points[i], points[i + 1], side)) = Len(s)
                  /\ \A k \in 1..Len(s) : LegCells(points[i], points[i + 1], side)[k] = OnGrid(s[k], side)
<1> DEFINE m == Len(points) - 1
           Seg(i) == rasterizeRouteSegment(points[i], ShortWay(points[i], points[i + 1], side))
<1>1. m \in Nat
  OBVIOUS
<1>2. ASSUME NEW i \in 1..m
      PROVE  /\ Seg(i) \in Seq(Cells) /\ Seg(i) # <<>> /\ Seg(i)[1] = points[i]
             /\ LegCells(points[i], points[i + 1], side) = [k \in 1..Len(Seg(i)) |-> OnGrid(Seg(i)[k], side)]
  <2> DEFINE a == points[i]
             b == points[i + 1]
             e == ShortWay(a, b, side)
  <2>1. a \in GridCells(side) /\ b \in GridCells(side)
    <3>1. i \in 1..Len(points) /\ i + 1 \in 1..Len(points)
      BY <1>1
    <3> QED BY <3>1
  <2> HIDE DEF a, b
  <2>2. a \in Cells /\ e \in Cells
    BY <2>1, ShortWayFacts
  <2> HIDE DEF e
  <2>3. rasterizeRouteSegment(a, e) \in Seq(Cells) /\ Traced(a, e, rasterizeRouteSegment(a, e))
    BY <2>2, SegmentFacts
  <2>4. Seg(i) = rasterizeRouteSegment(a, e)
    BY DEF a, b, e
  <2> HIDE DEF Seg
  <2>5. LegCells(a, b, side) = [k \in 1..Len(Seg(i)) |-> OnGrid(Seg(i)[k], side)]
    BY <2>4 DEF LegCells, e
  <2> QED BY <2>3, <2>4, <2>5 DEF Traced, a, b
<1>3. SegmentsOf(points, side) = [i \in 1..m |-> Seg(i)]
  BY DEF SegmentsOf
<1> HIDE DEF Seg, m
<1>4. SegmentsOf(points, side) \in Seq(Seq(Cells)) /\ Len(SegmentsOf(points, side)) = m
  <2> DEFINE Q == Seq(Cells)
  <2>1. \A i \in 1..m : Seg(i) \in Q
    BY <1>2
  <2> HIDE DEF Q
  <2>2. SegmentsOf(points, side) \in Seq(Q) /\ Len(SegmentsOf(points, side)) = m
    BY <1>1, <1>3, <2>1
  <2> QED BY <2>2 DEF Q
<1>5. ASSUME NEW i \in 1..m
      PROVE  LET s == SegmentsOf(points, side)[i]
             IN  /\ s # <<>> /\ s[1] = points[i]
                 /\ Len(LegCells(points[i], points[i + 1], side)) = Len(s)
                 /\ \A k \in 1..Len(s) : LegCells(points[i], points[i + 1], side)[k] = OnGrid(s[k], side)
  <2> DEFINE s == Seg(i)
  <2>1. /\ s \in Seq(Cells) /\ s # <<>> /\ s[1] = points[i]
        /\ LegCells(points[i], points[i + 1], side) = [k \in 1..Len(s) |-> OnGrid(s[k], side)]
    BY <1>2
  <2> HIDE DEF s
  <2>2. Len(s) \in Nat
    BY <2>1
  <2>3. Len(LegCells(points[i], points[i + 1], side)) = Len(s)
    BY <2>1, <2>2
  <2> QED BY <1>3, <2>1, <2>3 DEF s
<1> QED BY <1>4, <1>5 DEF m

\* The cells visited before their columns are put on the grid.
Crossed(points, side) == IF Len(points) = 1 THEN points ELSE FlattenSeq(SegmentsOf(points, side))

LEMMA VisitedIs ==
  ASSUME NEW side \in Nat \ {0}, NEW points \in Seq(GridCells(side)), points # <<>>
  PROVE  Visited(points, side) = [c \in DOMAIN Crossed(points, side) |-> OnGrid(Crossed(points, side)[c], side)]
BY DEF Visited, Crossed, SegmentsOf, OnGrid

LEMMA GridIsCells ==
  ASSUME NEW side \in Nat \ {0}, NEW c \in GridCells(side)
  PROVE  c \in Cells /\ OnGrid(c, side) = c
<1>1. c.x \in 0..(side - 1) /\ c.y \in 0..(side - 1) /\ c = [x |-> c.x, y |-> c.y]
  BY DEF GridCells
<1>2. c.x % side = c.x
  BY <1>1, SmallRemainder
<1> QED BY <1>1, <1>2 DEF Cells, OnGrid

\* What is crossed comes from the segments; the first point is the first cell.
LEMMA CrossedFacts ==
  ASSUME NEW side \in Nat \ {0}, NEW points \in Seq(GridCells(side)), points # <<>>
  PROVE  LET c == Crossed(points, side)
             ss == SegmentsOf(points, side)
         IN  /\ c \in Seq(Cells) /\ c # <<>> /\ c[1] = points[1]
             /\ Len(points) # 1 => \A x : Has(c, x) <=> \E i \in 1..(Len(points) - 1) : Has(ss[i], x)
             /\ Len(points) = 2 => c = ss[1]
<1> DEFINE c == Crossed(points, side)
           ss == SegmentsOf(points, side)
           N == Len(points)
<1>1. N \in Nat \ {0} /\ \A i \in 1..N : points[i] \in GridCells(side)
  OBVIOUS
<1>2. ss \in Seq(Seq(Cells)) /\ Len(ss) = N - 1 /\ \A i \in 1..(N - 1) : ss[i] # <<>> /\ ss[i][1] = points[i]
  BY SegmentsType
<1>3. c = IF N = 1 THEN points ELSE FlattenSeq(ss)
  BY DEF Crossed
<1> HIDE DEF c, ss, N
<1>4. CASE N = 1
  <2>1. points \in Seq(Cells)
    <3>1. \A i \in 1..Len(points) : points[i] \in Cells
      BY <1>1, GridIsCells DEF N
    <3> QED BY <3>1, SequenceOf
  <2> QED BY <1>3, <1>4, <2>1 DEF c, N
<1>5. CASE N # 1
  <2>1. PICK f \in [0..Len(ss) -> Seq(Cells)] : Concatenates(f, ss) /\ FlattenSeq(ss) = f[Len(ss)]
    BY <1>2, FlattenChain
  <2>2. c = f[N - 1] /\ N - 1 \in 0..(N - 1) /\ 1 \in 0..(N - 1) /\ N - 1 \in 1..(N - 1) /\ 1 \in 1..(N - 1)
    BY <1>1, <1>2, <1>3, <1>5, <2>1
  <2>3. c \in Seq(Cells)
    BY <1>2, <2>1, <2>2
  <2>4. ASSUME NEW x PROVE Has(c, x) <=> \E i \in 1..(N - 1) : Has(ss[i], x)
    <3>1. N - 1 \in 0..Len(ss)
      BY <1>2, <2>2
    <3> DEFINE k == N - 1
    <3>2. k \in 0..Len(ss) /\ c = f[k]
      BY <2>2, <3>1
    <3> HIDE DEF k
    <3>3. Has(f[k], x) <=> \E i \in 1..k : Has(ss[i], x)
      BY <1>2, <2>1, <3>2, ChainElements
    <3> QED BY <3>2, <3>3 DEF k
  <2>5. f[1] = ss[1]
    <3> DEFINE s == ss[1]
    <3>1. s \in Seq(Cells)
      BY <1>2, <2>2
    <3>2. f[1] = f[0] \o ss[1] /\ f[0] = <<>>
      <4>1. 1 \in 1..Len(ss) /\ 1 - 1 = 0
        BY <1>2, <2>2
      <4> QED BY <2>1, <4>1 DEF Concatenates
    <3> HIDE DEF s
    <3>3. <<>> \o s \in Seq(Cells) /\ Len(<<>> \o s) = Len(s) /\ \A k \in 1..Len(s) : (<<>> \o s)[k] = s[k]
      BY <3>1
    <3>4. <<>> \o s = s
      BY <3>1, <3>3, SequencesEqual
    <3> QED BY <3>2, <3>4 DEF s
  <2>6. Begins(f[1], f[N - 1])
    <3>1. 1 \in 0..Len(ss) /\ N - 1 \in 1..Len(ss)
      BY <1>2, <2>2
    <3> QED BY <1>2, <2>1, <3>1, ChainGrows
  <2>7. c # <<>> /\ c[1] = points[1]
    <3> DEFINE s == ss[1]
    <3>1. s \in Seq(Cells) /\ s # <<>> /\ s[1] = points[1]
      BY <1>2, <2>2
    <3> HIDE DEF s
    <3>2. 1 \in 1..Len(s)
      BY <3>1
    <3>3. Begins(s, c)
      BY <2>2, <2>5, <2>6 DEF s
    <3> QED BY <2>3, <3>1, <3>2, <3>3 DEF Begins
  <2>8. N = 2 => c = ss[1]
    BY <2>2, <2>5
  <2> QED BY <1>5, <2>3, <2>4, <2>7, <2>8 DEF c, ss, N
<1> QED BY <1>4, <1>5

LEMMA LegStarts ==
  ASSUME NEW side \in Nat \ {0}, NEW a \in GridCells(side), NEW b \in GridCells(side)
  PROVE  /\ LegCells(a, b, side) \in Seq(GridCells(side))
         /\ Len(LegCells(a, b, side)) >= 1
         /\ LegCells(a, b, side)[1] = a
<1> DEFINE c == LegCells(a, b, side)
           LastIs == c[Len(c)] = b
           NoneTwice == IsInjective(c)
           LengthIs == Len(c) = Max({Apart(a.x, b.x, side), absInt(a.y - b.y)}) + 1
           NoJumps == \A i \in 2..Len(c) : Apart(c[i].x, c[i - 1].x, side) <= 1 /\ absInt(c[i].y - c[i - 1].y) <= 1
<1>1. /\ c \in Seq(GridCells(side))
      /\ LengthIs /\ Len(c) >= 1
      /\ c[1] = a /\ LastIs /\ NoneTwice
      /\ NoJumps
  BY LegFacts, Zenon
<1> HIDE DEF LastIs, NoneTwice, LengthIs, NoJumps
<1> QED BY <1>1

\* A route's cells are those of its legs.
LEMMA VisitedFacts ==
  ASSUME NEW side \in Nat \ {0}, NEW points \in Seq(GridCells(side)), points # <<>>
  PROVE  LET v == Visited(points, side)
         IN  /\ v \in Seq(GridCells(side)) /\ v # <<>> /\ v[1] = points[1]
             /\ \A x : Has(v, x) <=> \/ x = points[1]
                                     \/ \E i \in 1..(Len(points) - 1) : Has(LegCells(points[i], points[i + 1], side), x)
             /\ Len(points) = 2 => v = LegCells(points[1], points[2], side)
<1> DEFINE c == Crossed(points, side)
           ss == SegmentsOf(points, side)
           N == Len(points)
           v == Visited(points, side)
           Leg(i) == LegCells(points[i], points[i + 1], side)
<1>1. N \in Nat \ {0} /\ \A i \in 1..N : points[i] \in GridCells(side)
  OBVIOUS
<1>2. ss \in Seq(Seq(Cells)) /\ Len(ss) = N - 1
  BY SegmentsType
<1>3. \A i \in 1..(N - 1) : Len(Leg(i)) = Len(ss[i]) /\ \A k \in 1..Len(ss[i]) : Leg(i)[k] = OnGrid(ss[i][k], side)
  BY SegmentsType
<1>4. /\ c \in Seq(Cells) /\ c # <<>> /\ c[1] = points[1]
      /\ N # 1 => \A x : Has(c, x) <=> \E i \in 1..(N - 1) : Has(ss[i], x)
      /\ N = 2 => c = ss[1]
  BY CrossedFacts
<1>5. v = [k \in DOMAIN c |-> OnGrid(c[k], side)]
  BY VisitedIs
<1>6. N = 1 => c = points
  BY DEF Crossed
<1>7. \A i \in 1..(N - 1) : Leg(i) \in Seq(GridCells(side)) /\ Len(Leg(i)) >= 1 /\ Leg(i)[1] = points[i]
  <2> TAKE i \in 1..(N - 1)
  <2>1. points[i] \in GridCells(side) /\ points[i + 1] \in GridCells(side)
    <3>1. i \in 1..N /\ i + 1 \in 1..N
      BY <1>1
    <3> QED BY <1>1, <3>1
  <2> DEFINE a == points[i]
             b == points[i + 1]
  <2>2. a \in GridCells(side) /\ b \in GridCells(side)
    BY <2>1
  <2> HIDE DEF a, b, c, ss, v, Leg
  <2>3. LegCells(a, b, side) \in Seq(GridCells(side)) /\ Len(LegCells(a, b, side)) >= 1
    BY <2>2, LegStarts
  <2>4. LegCells(a, b, side)[1] = a
    BY <2>2, LegStarts
  <2> QED BY <2>3, <2>4 DEF a, b, Leg
<1> HIDE DEF c, ss, N, v, Leg
<1>8. DOMAIN c = 1..Len(c) /\ Len(c) \in Nat
  BY <1>4
<1>9. \A i \in 1..(N - 1) : Len(ss[i]) \in Nat /\ ss[i] \in Seq(Cells)
  BY <1>2
\* A cell of what is visited is one of a leg, or the only point.
<1>10. \A i \in 1..(N - 1) : \A x : Has(Leg(i), x) <=> \E y : Has(ss[i], y) /\ x = OnGrid(y, side)
  BY <1>3 DEF Has
<1>11. \A x : Has(v, x) <=> \E y : Has(c, y) /\ x = OnGrid(y, side)
  <2>1. Len(v) = Len(c) /\ \A k \in 1..Len(c) : v[k] = OnGrid(c[k], side)
    BY <1>5, <1>8
  <2> QED BY <2>1 DEF Has
<1>12. points[1] \in GridCells(side) /\ OnGrid(points[1], side) = points[1]
  <2>1. points[1] \in GridCells(side)
    BY <1>1
  <2> QED BY <2>1, GridIsCells
<1>13. CASE N = 1
  <2>1. Len(c) = 1
    BY <1>6, <1>13 DEF N
  <2>2. \A y : Has(c, y) <=> y = points[1]
    BY <1>4, <2>1 DEF Has
  <2>3. \A x : Has(v, x) <=> x = points[1]
    BY <1>11, <1>12, <2>2
  <2>4. v \in Seq(GridCells(side)) /\ v # <<>> /\ v[1] = points[1]
    BY <1>4, <1>5, <1>8, <1>12, <2>1
  <2>5. 1..(N - 1) = {}
    BY <1>13
  <2> QED BY <1>13, <2>3, <2>4, <2>5 DEF v, N, Leg
<1>14. CASE N # 1
  <2>1. 1 \in 1..(N - 1)
    BY <1>1, <1>14
  <2>2. \A x : Has(v, x) <=> \E i \in 1..(N - 1) : Has(Leg(i), x)
    BY <1>4, <1>10, <1>11, <1>14
  <2>3. Has(Leg(1), points[1])
    <3>1. Len(Leg(1)) \in Nat /\ Len(Leg(1)) >= 1 /\ Leg(1)[1] = points[1]
      BY <1>7, <2>1
    <3> QED BY <3>1 DEF Has
  <2>4. \A k \in 1..Len(c) : OnGrid(c[k], side) \in GridCells(side)
    <3> TAKE k \in 1..Len(c)
    <3>1. Has(v, OnGrid(c[k], side))
      BY <1>11 DEF Has
    <3>2. PICK i \in 1..(N - 1) : Has(Leg(i), OnGrid(c[k], side))
      BY <2>2, <3>1
    <3> QED BY <1>7, <3>2 DEF Has
  <2>5. v \in Seq(GridCells(side)) /\ Len(v) = Len(c) /\ \A k \in 1..Len(c) : v[k] = OnGrid(c[k], side)
    BY <1>5, <1>8, <2>4
  <2>6. Len(c) >= 1
    BY <1>4, <1>8
  <2>7. v # <<>> /\ v[1] = points[1]
    BY <1>4, <1>8, <1>12, <2>5, <2>6
  <2>8. \A x : Has(v, x) <=> x = points[1] \/ \E i \in 1..(N - 1) : Has(Leg(i), x)
    BY <2>1, <2>2, <2>3
  <2>9. ASSUME N = 2 PROVE v = Leg(1)
    <3>1. c = ss[1]
      BY <1>4, <2>9
    <3>2. Leg(1) \in Seq(GridCells(side)) /\ Len(Leg(1)) = Len(c) /\ \A k \in 1..Len(c) : Leg(1)[k] = OnGrid(c[k], side)
      BY <1>3, <1>7, <2>1, <3>1
    <3> QED BY <2>5, <3>2, SequencesEqual
  <2> QED BY <2>5, <2>7, <2>8, <2>9 DEF v, N, Leg
<1> QED BY <1>13, <1>14

\* The cells of a route that stops earlier come first.
LEMMA VisitedBegins ==
  ASSUME NEW side \in Nat \ {0}, NEW points \in Seq(GridCells(side)),
         NEW first \in Seq(GridCells(side)), first # <<>>, Begins(first, points)
  PROVE  Begins(Visited(first, side), Visited(points, side))
<1>1. points # <<>> /\ Len(points) \in Nat /\ Len(first) \in Nat \ {0} /\ Len(first) <= Len(points)
  BY DEF Begins
<1> DEFINE c == Crossed(points, side)
           d == Crossed(first, side)
           M == Len(first)
           N == Len(points)
           ss == SegmentsOf(points, side)
           tt == SegmentsOf(first, side)
<1>2. c \in Seq(Cells) /\ c # <<>> /\ c[1] = points[1] /\ d \in Seq(Cells) /\ d # <<>> /\ d[1] = first[1]
  BY <1>1, CrossedFacts
<1>3. Begins(d, c)
  <2>1. CASE M = 1
    <3>1. d = first /\ Len(d) = 1
      BY <2>1 DEF Crossed
    <3>2. first[1] = points[1]
      BY <1>1, <2>1 DEF Begins
    <3> HIDE DEF c, d
    <3>3. Len(c) \in Nat /\ Len(c) >= 1
      BY <1>2
    <3> QED BY <1>2, <3>1, <3>2, <3>3 DEF Begins
  <2>2. CASE M # 1
    <3>1. c = FlattenSeq(ss) /\ d = FlattenSeq(tt)
      BY <1>1, <2>2 DEF Crossed
    <3>2. ss \in Seq(Seq(Cells)) /\ Len(ss) = N - 1 /\ tt \in Seq(Seq(Cells)) /\ Len(tt) = M - 1
      BY <1>1, SegmentsType
    <3>3. \A i \in 1..(M - 1) : tt[i] = ss[i]
      <4> TAKE i \in 1..(M - 1)
      <4>1. first[i] = points[i] /\ first[i + 1] = points[i + 1] /\ i \in 1..(N - 1)
        <5>1. i \in 1..M /\ i + 1 \in 1..M /\ i \in 1..(N - 1)
          BY <1>1
        <5> QED BY <5>1 DEF Begins
      <4> QED BY <4>1 DEF SegmentsOf
    <3> HIDE DEF ss, tt, M, N
    <3>4. Begins(tt, ss)
      <4>1. Len(tt) = M - 1 /\ M - 1 <= Len(ss)
        BY <1>1, <3>2 DEF M, N
      <4> QED BY <3>3, <4>1 DEF Begins
    <3> QED BY <3>1, <3>2, <3>4, FlattenBegins
  <2> QED BY <2>1, <2>2
<1> DEFINE v == Visited(points, side)
           u == Visited(first, side)
<1>4. v = [k \in DOMAIN c |-> OnGrid(c[k], side)] /\ u = [k \in DOMAIN d |-> OnGrid(d[k], side)]
  BY <1>1, VisitedIs
<1> HIDE DEF c, d, u, v
<1>5. /\ Len(v) = Len(c) /\ \A k \in 1..Len(c) : v[k] = OnGrid(c[k], side)
      /\ Len(u) = Len(d) /\ \A k \in 1..Len(d) : u[k] = OnGrid(d[k], side)
      /\ Len(c) \in Nat /\ Len(d) \in Nat
  BY <1>2, <1>4
<1> QED BY <1>3, <1>5 DEF Begins, u, v

-----------------------------------------------------------------------------
(* The keys of a route                                                       *)

LEMMA HasIsIn ==
  ASSUME NEW T, NEW s \in Seq(T), NEW x
  PROVE  x \in ToSet(s) <=> Has(s, x)
BY DEF ToSet, Has

LEMMA EmitAppends ==
  ASSUME NEW T, NEW c \in CorridorStates(T), NEW key \in T, NEW budget \in Nat,
         NEW r, r = Emit(c, key, budget), ~c.truncated, ~r.truncated, ~Has(c.keys, key)
  PROVE  r.keys = Append(c.keys, key)
<1>1. /\ r \in CorridorStates(T)
      /\ (c.truncated \/ Has(c.keys, key)) => r = c
      /\ (~c.truncated /\ ~Has(c.keys, key) /\ Len(c.keys) = budget) => r.keys = c.keys /\ r.truncated
      /\ (~c.truncated /\ ~Has(c.keys, key) /\ Len(c.keys) # budget) =>
           r.keys = Append(c.keys, key) /\ ~r.truncated
  BY EmitCases
<1> QED BY <1>1

LEMMA EmittedPart ==
  ASSUME NEW z \in Nat, NEW keys \in Seq(TilesOf(z)), NEW budget \in Nat
  PROVE  LET part == Emitted(keys, budget)
             all == Emitted(keys, Side(z) * Side(z))
         IN  /\ part.keys \in Seq(TilesOf(z)) /\ all.keys \in Seq(TilesOf(z))
             /\ part.truncated \in BOOLEAN /\ part.err = FALSE
             /\ IsInjective(part.keys) /\ Len(part.keys) <= budget
             /\ Begins(part.keys, all.keys)
             /\ part.truncated <=> Len(part.keys) < Len(all.keys)
             /\ \A x : Has(all.keys, x) <=> Has(keys, x)
<1> DEFINE T == TilesOf(z)
           side == Side(z)
           B == side * side
           N == Len(keys)
<1>1. side \in Nat \ {0}
  BY SideFacts
<1>2. B \in Nat /\ N \in Nat /\ N \in 0..N
  BY <1>1
<1>3. PICK c \in [0..N -> CorridorStates(T)] : EmittedBy(c, keys, budget) /\ Emitted(keys, budget) = c[N]
  BY EmittedFunction
<1>4. PICK f \in [0..N -> CorridorStates(T)] : EmittedBy(f, keys, B) /\ Emitted(keys, B) = f[N]
  <2> HIDE DEF B
  <2> QED BY <1>2, EmittedFunction
<1>5. c[N] \in CorridorStates(T) /\ f[N] \in CorridorStates(T)
  BY <1>2
<1> HIDE DEF side, B, T
<1> USE DEF N
<1>6. IsInjective(c[N].keys) /\ Len(c[N].keys) <= budget
  <2> HIDE DEF N
  <2>1. keys \in Seq(T)
    BY DEF T
  <2> USE DEF N
  <2> QED BY <1>2, <1>3, <2>1, EmittedFacts
<1>7. /\ \A i \in 1..Len(f[N].keys) : \E p \in 1..N : f[N].keys[i] = keys[p]
      /\ ~f[N].truncated => \A p \in 1..N : Has(f[N].keys, keys[p])
      /\ f[N].truncated => \E s \in Seq(T) : IsInjective(s) /\ Len(s) = B + 1
  <2>1. keys \in Seq(T)
    BY DEF T
  <2>2. /\ IsInjective(f[N].keys) /\ Len(f[N].keys) <= B
        /\ \A i \in 1..Len(f[N].keys) : \E p \in 1..N : f[N].keys[i] = keys[p]
        /\ ~f[N].truncated => \A p \in 1..N : Has(f[N].keys, keys[p])
        /\ f[N].truncated => \E s \in Seq(T) : IsInjective(s) /\ Len(s) = B + 1
    BY <1>2, <1>4, <2>1, EmittedFacts, SMTT(30)
  <2> QED BY <2>2
<1>8. ~f[N].truncated
  <2>1. \A s \in Seq(T) : IsInjective(s) => Len(s) # B + 1
    BY GridHoldsThem DEF T, B, side
  <2> QED BY <1>7, <2>1
<1>9. Begins(c[N].keys, f[N].keys) /\ (c[N].truncated <=> Len(c[N].keys) < Len(f[N].keys))
  <2>1. keys \in Seq(T)
    BY DEF T
  <2> QED BY <1>2, <1>3, <1>4, <1>8, <2>1, EmittedWithin
<1>10. \A x : Has(f[N].keys, x) <=> Has(keys, x)
  BY <1>7, <1>8 DEF Has
<1> QED BY <1>3, <1>4, <1>5, <1>6, <1>9, <1>10 DEF T, B, side, CorridorStates

\* Keys that come first are emitted first.
LEMMA EmittedBegins ==
  ASSUME NEW T, NEW first \in Seq(T), NEW keys \in Seq(T), Begins(first, keys), NEW budget \in Nat
  PROVE  Begins(Emitted(first, budget).keys, Emitted(keys, budget).keys)
<1> DEFINE N == Len(keys)
           M == Len(first)
<1>1. N \in Nat /\ M \in Nat /\ M <= N /\ \A i \in 1..M : first[i] = keys[i]
  BY DEF Begins
<1>2. PICK c \in [0..N -> CorridorStates(T)] : EmittedBy(c, keys, budget) /\ Emitted(keys, budget) = c[N]
  BY EmittedFunction
<1>3. PICK d \in [0..M -> CorridorStates(T)] : EmittedBy(d, first, budget) /\ Emitted(first, budget) = d[M]
  BY EmittedFunction
<1>4. EmittedBy(c, first, budget)
  <2>1. \A k \in 1..M : k \in 1..N
    BY <1>1
  <2> QED BY <1>1, <1>2, <2>1 DEF EmittedBy
<1>5. d[M] = c[M]
  <2>1. M \in 0..M
    BY <1>1
  <2> QED BY <1>3, <1>4, <2>1, EmittedUnique
<1>6. Begins(c[M].keys, c[N].keys)
  <2>1. M \in 0..N /\ N \in M..N
    BY <1>1
  <2> QED BY <1>2, <2>1, EmittedGrows
<1> QED BY <1>2, <1>3, <1>5, <1>6

\* Distinct keys are emitted as they are.
LEMMA EmittedDistinct ==
  ASSUME NEW z \in Nat, NEW keys \in Seq(TilesOf(z)), IsInjective(keys)
  PROVE  Emitted(keys, Side(z) * Side(z)).keys = keys
<1> DEFINE T == TilesOf(z)
           side == Side(z)
           B == side * side
           N == Len(keys)
<1>1. side \in Nat \ {0}
  BY SideFacts
<1>2. B \in Nat /\ N \in Nat /\ N \in 0..N /\ DOMAIN keys = 1..N
  BY <1>1
<1>3. PICK f \in [0..N -> CorridorStates(T)] : EmittedBy(f, keys, B) /\ Emitted(keys, B) = f[N]
  <2> HIDE DEF B
  <2> QED BY <1>2, EmittedFunction
<1>4. \A k \in 0..N : ~f[k].truncated
  <2>1. ~f[N].truncated
    <3>1. f[N].truncated => \E s \in Seq(T) : IsInjective(s) /\ Len(s) = B + 1
      <4> HIDE DEF B, T
      <4>1. keys \in Seq(T)
        BY DEF T
      <4> QED BY <1>2, <1>3, <4>1, EmittedFacts
    <3>2. \A s \in Seq(T) : IsInjective(s) => Len(s) # B + 1
      BY GridHoldsThem
    <3> QED BY <3>1, <3>2
  <2>2. \A k \in 0..N : N \in k..N
    BY <1>2
  <2> HIDE DEF B, T
  <2>3. keys \in Seq(T)
    BY DEF T
  <2>4. \A k \in 0..N : f[k].truncated => f[N].truncated
    BY <1>2, <1>3, <2>2, <2>3, EmittedGrows
  <2> QED BY <2>1, <2>4
<1> DEFINE P(k) == Len(f[k].keys) = k /\ \A i \in 1..k : f[k].keys[i] = keys[i]
           S == {k \in Nat : k <= N => P(k)}
<1>5. 0 \in S
  BY <1>3 DEF EmittedBy, Corridor
<1> HIDE DEF B, T
<1>6. ASSUME NEW k \in Nat \cap S PROVE k + 1 \in S
  <2> SUFFICES ASSUME k + 1 <= N PROVE P(k + 1)
    OBVIOUS
  <2> DEFINE key == keys[k + 1]
             o == f[k]
             r == f[k + 1]
  <2>1. k \in 0..N /\ k + 1 \in 1..N /\ k + 1 \in 0..N /\ (k + 1) - 1 = k
    BY <1>2
  <2>2. P(k)
    BY <2>1
  <2>3. o \in CorridorStates(T) /\ key \in T /\ ~o.truncated /\ ~r.truncated
    BY <1>3, <1>4, <2>1 DEF T
  <2>4. r = Emit(o, key, B)
    BY <1>3, <2>1 DEF EmittedBy
  <2>5. ~Has(o.keys, key)
    <3> SUFFICES ASSUME NEW i \in 1..k, o.keys[i] = key PROVE FALSE
      BY <2>2 DEF Has
    <3>1. keys[i] = keys[k + 1] /\ i \in 1..N /\ i # k + 1
      BY <2>1, <2>2
    <3> QED BY <1>2, <2>1, <3>1 DEF IsInjective
  <2> HIDE DEF key, o, r, S, P, N
  <2>7. r.keys = Append(o.keys, key)
    BY <1>2, <2>3, <2>4, <2>5, EmitAppends
  <2>8. o.keys \in Seq(T) /\ Len(o.keys) = k /\ \A i \in 1..k : o.keys[i] = keys[i]
    BY <2>2, <2>3 DEF P, o, CorridorStates
  <2>9. Len(r.keys) = k + 1 /\ r.keys[k + 1] = key /\ \A i \in 1..k : r.keys[i] = o.keys[i]
    BY <2>3, <2>7, <2>8
  <2>10. \A i \in 1..(k + 1) : i \in 1..k \/ i = k + 1
    BY <2>1
  <2>11. \A i \in 1..(k + 1) : r.keys[i] = keys[i]
    BY <2>8, <2>9, <2>10 DEF key
  <2> QED BY <2>9, <2>11 DEF P, r
<1>7. \A k \in Nat : k \in S
  <2> HIDE DEF S
  <2> QED BY <1>5, <1>6, Induction
<1>8. P(N)
  <2>1. N \in S
    BY <1>2, <1>7
  <2> HIDE DEF P
  <2> QED BY <1>2, <2>1
<1>9. f[N].keys \in Seq(T) /\ keys \in Seq(T)
  BY <1>2, <1>3 DEF CorridorStates, T
<1>10. f[N].keys = keys
  BY <1>8, <1>9, SequencesEqual
<1> QED BY <1>3, <1>10 DEF B

KeysOf(points, z, radius) ==
  FlattenSeq([c \in DOMAIN Visited(points, Side(z)) |-> Window(Visited(points, Side(z))[c], z, radius)])

LEMMA KeysFacts ==
  ASSUME NEW z \in Nat, NEW radius \in Nat, NEW points \in Seq(GridCells(Side(z))), points # <<>>
  PROVE  LET v == Visited(points, Side(z))
             keys == KeysOf(points, z, radius)
         IN  /\ keys \in Seq(TilesOf(z))
             /\ \A x : Has(keys, x) <=> \E cell : Has(v, cell) /\ x \in TilesOf(z) /\ Near(Centre(cell, z), x, radius)
             /\ radius = 0 => Len(keys) = Len(v) /\ \A i \in 1..Len(v) : keys[i] = Centre(v[i], z)
<1> DEFINE side == Side(z)
           v == Visited(points, side)
           Win(c) == Window(v[c], z, radius)
           ss == [c \in DOMAIN v |-> Win(c)]
           T == TilesOf(z)
           keys == KeysOf(points, z, radius)
<1>1. v \in Seq(GridCells(side)) /\ Len(v) \in Nat /\ DOMAIN v = 1..Len(v)
  <2>1. side \in Nat \ {0}
    BY SideFacts
  <2> HIDE DEF side
  <2>2. points \in Seq(GridCells(side))
    BY DEF side
  <2>3. v \in Seq(GridCells(side))
    BY <2>1, <2>2, VisitedFacts
  <2> HIDE DEF v
  <2> QED BY <2>3
<1>2. keys = FlattenSeq(ss)
  BY DEF KeysOf
<1> HIDE DEF v, keys
<1>3. \A c \in 1..Len(v) :
        /\ Win(c) \in Seq(T)
        /\ \A x : Has(Win(c), x) <=> x \in T /\ Near(Centre(v[c], z), x, radius)
        /\ radius = 0 => Len(Win(c)) = 1 /\ Win(c)[1] = Centre(v[c], z)
  <2> TAKE c \in 1..Len(v)
  <2> DEFINE cell == v[c]
  <2>1. cell \in GridCells(Side(z))
    BY <1>1
  <2> HIDE DEF cell
  <2>2. /\ Window(cell, z, radius) \in Seq(TilesOf(z))
        /\ \A x : Has(Window(cell, z, radius), x) <=> x \in TilesOf(z) /\ Near(Centre(cell, z), x, radius)
        /\ radius = 0 => Len(Window(cell, z, radius)) = 1 /\ Window(cell, z, radius)[1] = Centre(cell, z)
    BY <2>1, WindowFacts
  <2> QED BY <2>2 DEF cell
<1> HIDE DEF Win, T, side
<1>4. ss \in Seq(Seq(T)) /\ Len(ss) = Len(v) /\ \A c \in 1..Len(v) : ss[c] = Win(c)
  <2> DEFINE Q == Seq(T)
  <2>1. \A c \in 1..Len(v) : Win(c) \in Q
    BY <1>3
  <2> HIDE DEF Q
  <2>2. ss \in Seq(Q)
    BY <1>1, <2>1
  <2> QED BY <1>1, <2>2 DEF Q
<1> HIDE DEF ss
<1>5. PICK f \in [0..Len(ss) -> Seq(T)] : Concatenates(f, ss) /\ FlattenSeq(ss) = f[Len(ss)]
  BY <1>4, FlattenChain
<1> DEFINE m == Len(ss)
<1>6. m \in 0..Len(ss) /\ m = Len(v) /\ keys = f[m]
  BY <1>1, <1>2, <1>4, <1>5
<1> HIDE DEF m
<1>7. keys \in Seq(T)
  BY <1>5, <1>6
<1>8. ASSUME NEW x PROVE Has(keys, x) <=> \E cell : Has(v, cell) /\ x \in T /\ Near(Centre(cell, z), x, radius)
  <2>1. Has(f[m], x) <=> \E i \in 1..m : Has(ss[i], x)
    BY <1>4, <1>5, <1>6, ChainElements
  <2>2. \A i \in 1..m : Has(ss[i], x) <=> x \in T /\ Near(Centre(v[i], z), x, radius)
    BY <1>3, <1>4, <1>6
  <2> QED BY <1>6, <2>1, <2>2 DEF Has
<1>9. ASSUME radius = 0 PROVE Len(keys) = Len(v) /\ \A i \in 1..Len(v) : keys[i] = Centre(v[i], z)
  <2>1. \A i \in 1..Len(ss) : Len(ss[i]) = 1
    BY <1>3, <1>4, <1>9
  <2>2. Len(f[m]) = m /\ \A i \in 1..m : f[m][i] = ss[i][1]
    BY <1>4, <1>5, <1>6, <2>1, ChainSingles
  <2> QED BY <1>3, <1>4, <1>6, <1>9, <2>2
<1> QED BY <1>7, <1>8, <1>9 DEF v, keys, T, side

LEMMA KeysBegin ==
  ASSUME NEW z \in Nat, NEW radius \in Nat, NEW points \in Seq(GridCells(Side(z))),
         NEW first \in Seq(GridCells(Side(z))), first # <<>>, Begins(first, points)
  PROVE  Begins(KeysOf(first, z, radius), KeysOf(points, z, radius))
<1> DEFINE side == Side(z)
           u == Visited(first, side)
           v == Visited(points, side)
           ss == [c \in DOMAIN u |-> Window(u[c], z, radius)]
           tt == [c \in DOMAIN v |-> Window(v[c], z, radius)]
           Q == Seq(TilesOf(z))
<1>0. points # <<>>
  <2>1. Len(first) \in Nat \ {0} /\ Len(first) <= Len(points)
    BY DEF Begins
  <2> QED BY <2>1
<1>1. u \in Seq(GridCells(side)) /\ v \in Seq(GridCells(side)) /\ Begins(u, v)
  BY <1>0, SideFacts, VisitedFacts, VisitedBegins
<1> HIDE DEF u, v
<1>2. \A cell \in GridCells(side) : Window(cell, z, radius) \in Q
  BY WindowFacts
<1> HIDE DEF Q, side
<1>3. ss \in Seq(Q) /\ tt \in Seq(Q) /\ Len(ss) = Len(u) /\ Len(tt) = Len(v)
  <2>1. \A c \in 1..Len(u) : u[c] \in GridCells(side)
    BY <1>1
  <2>2. \A c \in 1..Len(v) : v[c] \in GridCells(side)
    BY <1>1
  <2>3. DOMAIN u = 1..Len(u) /\ DOMAIN v = 1..Len(v) /\ Len(u) \in Nat /\ Len(v) \in Nat
    BY <1>1
  <2> QED BY <1>2, <2>1, <2>2, <2>3
<1>4. Begins(ss, tt)
  <2>1. DOMAIN u = 1..Len(u) /\ DOMAIN v = 1..Len(v) /\ Len(u) \in Nat /\ Len(v) \in Nat
    BY <1>1
  <2> QED BY <1>1, <1>3, <2>1 DEF Begins
<1>5. KeysOf(first, z, radius) = FlattenSeq(ss) /\ KeysOf(points, z, radius) = FlattenSeq(tt)
  BY DEF KeysOf, u, v, side
<1> HIDE DEF ss, tt
<1> QED BY <1>3, <1>4, <1>5, FlattenBegins DEF Q

\* The coordinates of routes.
Places == [x : Int, y : Int] \ {OutsideWGS84}

PointsOf(route, z) == [i \in DOMAIN route |-> routePointXY(route[i], z)]

LEMMA ClampFacts ==
  ASSUME NEW value \in Int, NEW limit \in Nat
  PROVE  Clamp(value, limit) \in 0..limit
<1> DEFINE m == Max({value, 0})
<1>1. m \in Nat
  <2>1. m = IF value <= 0 THEN 0 ELSE value
    BY PairMinMax
  <2> QED BY <2>1
<1> HIDE DEF m
<1>2. Min({m, limit}) = IF m <= limit THEN m ELSE limit
  BY <1>1, PairMinMax
<1> QED BY <1>1, <1>2 DEF Clamp, m

LEMMA PointsType ==
  ASSUME NEW z \in Nat, NEW route \in Seq(Places), route # <<>>
  PROVE  /\ PointsOf(route, z) \in Seq(GridCells(Side(z))) /\ PointsOf(route, z) # <<>>
         /\ Len(PointsOf(route, z)) = Len(route)
         /\ \A i \in 1..Len(route) : PointsOf(route, z)[i] = routePointXY(route[i], z)
<1> DEFINE side == Side(z)
<1>1. side - 1 \in Nat
  BY SideFacts
<1> HIDE DEF side
<1>2. \A i \in 1..Len(route) : routePointXY(route[i], z) \in GridCells(side)
  <2> TAKE i \in 1..Len(route)
  <2> DEFINE p == route[i]
  <2>1. p.x \in Int /\ p.y \in Int
    BY DEF Places
  <2> HIDE DEF p
  <2>2. Clamp(p.x, side - 1) \in 0..(side - 1) /\ Clamp(p.y, side - 1) \in 0..(side - 1)
    BY <1>1, <2>1, ClampFacts
  <2> QED BY <2>2 DEF routePointXY, GridCells, p, side
<1>3. DOMAIN route = 1..Len(route) /\ Len(route) \in Nat /\ Len(route) # 0
  OBVIOUS
<1> HIDE DEF side
<1> QED BY <1>2, <1>3 DEF PointsOf, side

LEMMA CorridorIs ==
  ASSUME NEW z \in 0..maxRouteZoom, NEW radius \in 0..maxRouteRadius, NEW budget \in Nat \ {0},
         NEW route \in Seq(Places), route # <<>>
  PROVE  RouteTileKeys(route, z, radius, budget) = Emitted(KeysOf(PointsOf(route, z), z, radius), budget)
<1>1. OutsideWGS84 \notin ToSet(route)
  BY DEF ToSet, Places
<1>2. ~Refused(route, z, radius, budget)
  BY <1>1 DEF Refused
<1> QED BY <1>2 DEF RouteTileKeys, KeysOf, PointsOf

\* The tiles of a whole corridor.
LEMMA WholeFacts ==
  ASSUME NEW z \in 0..maxRouteZoom, NEW radius \in 0..maxRouteRadius, NEW route \in Seq(Places), route # <<>>
  PROVE  /\ Whole(route, z, radius) = Emitted(KeysOf(PointsOf(route, z), z, radius), Side(z) * Side(z)).keys
         /\ Whole(route, z, radius) \in Seq(TilesOf(z))
         /\ \A x : Has(Whole(route, z, radius), x) <=>
              \E cell : /\ Has(Visited(PointsOf(route, z), Side(z)), cell)
                        /\ x \in TilesOf(z) /\ Near(Centre(cell, z), x, radius)
<1>1. z \in Nat /\ radius \in Nat
  BY RouteAssumption
<1> DEFINE side == Side(z)
           B == side * side
           points == PointsOf(route, z)
           keys == KeysOf(points, z, radius)
<1>2. side \in Nat \ {0}
  BY <1>1, SideFacts
<1>3. B \in Nat \ {0}
  <2> HIDE DEF side
  <2> QED BY <1>2
<1>4. Whole(route, z, radius) = Emitted(keys, B).keys
  <2> HIDE DEF B, keys
  <2>1. RouteTileKeys(route, z, radius, B) = Emitted(keys, B)
    BY <1>3, CorridorIs DEF keys
  <2> QED BY <2>1 DEF Whole, B
<1>5. points \in Seq(GridCells(Side(z))) /\ points # <<>>
  BY <1>1, PointsType
<1> HIDE DEF points
<1>6. /\ keys \in Seq(TilesOf(z))
      /\ \A x : Has(keys, x) <=> \E cell : /\ Has(Visited(points, Side(z)), cell)
                                           /\ x \in TilesOf(z) /\ Near(Centre(cell, z), x, radius)
  BY <1>1, <1>5, KeysFacts
<1> HIDE DEF keys
<1>7. Emitted(keys, B).keys \in Seq(TilesOf(z)) /\ \A x : Has(Emitted(keys, B).keys, x) <=> Has(keys, x)
  <2>1. 0 \in Nat
    OBVIOUS
  <2> QED BY <1>1, <1>6, <2>1, EmittedPart
<1> HIDE DEF side, B
<1>8. \A x : Has(Whole(route, z, radius), x) <=>
              \E cell : /\ Has(Visited(points, Side(z)), cell)
                        /\ x \in TilesOf(z) /\ Near(Centre(cell, z), x, radius)
  BY <1>4, <1>6, <1>7
<1> QED BY <1>4, <1>7, <1>8 DEF keys, points, B, side

\* A corridor without radius has the tiles of the cells.
LEMMA BareFacts ==
  ASSUME NEW z \in 0..maxRouteZoom, NEW route \in Seq(Places), route # <<>>
  PROVE  \A x : Has(Whole(route, z, 0), x) <=>
           \E cell : Has(Visited(PointsOf(route, z), Side(z)), cell) /\ x = Centre(cell, z)
<1> DEFINE side == Side(z)
           v == Visited(PointsOf(route, z), side)
<1>1. z \in Nat /\ 0 \in 0..maxRouteRadius
  BY RouteAssumption
<1>2. side \in Nat \ {0} /\ PointsOf(route, z) \in Seq(GridCells(side)) /\ PointsOf(route, z) # <<>>
  BY <1>1, SideFacts, PointsType
<1>3. v \in Seq(GridCells(side))
  <2> HIDE DEF side
  <2> QED BY <1>2, VisitedFacts
<1>4. \A x : Has(Whole(route, z, 0), x) <=>
        \E cell : Has(v, cell) /\ x \in TilesOf(z) /\ Near(Centre(cell, z), x, 0)
  BY <1>1, WholeFacts
<1> HIDE DEF v, side
<1>5. ASSUME NEW cell, Has(v, cell)
      PROVE  \A x : (x \in TilesOf(z) /\ Near(Centre(cell, z), x, 0)) <=> x = Centre(cell, z)
  <2>1. cell \in GridCells(side)
    BY <1>3, <1>5 DEF Has
  <2> DEFINE c == Centre(cell, z)
  <2>2. c \in TilesOf(z)
    BY <1>1, <2>1, CentreFacts DEF side
  <2> HIDE DEF c
  <2>3. \A x \in TilesOf(z) : x.x \in Int /\ x.y \in Int /\ x = [z |-> z, x |-> x.x, y |-> x.y]
    <3> DEFINE m == Side(z)
    <3>1. m \in Nat
      BY <1>1, SideFacts
    <3> HIDE DEF m
    <3> QED BY <3>1 DEF TilesOf, m
  <2>4. \A a, b \in Int : absInt(a - b) <= 0 <=> a = b
    BY DEF absInt
  <2>5. \A x \in TilesOf(z) : Near(c, x, 0) <=> x = c
    <3> TAKE x \in TilesOf(z)
    <3>1. Near(c, x, 0) <=> c.x = x.x /\ c.y = x.y
      BY <2>2, <2>3, <2>4 DEF Near
    <3> QED BY <2>2, <2>3, <3>1
  <2> QED BY <2>2, <2>5 DEF c
<1>6. \A x : Has(Whole(route, z, 0), x) <=> \E cell : Has(v, cell) /\ x = Centre(cell, z)
  BY <1>4, <1>5
<1> QED BY <1>6 DEF v, side

\* Where a place is on the grid.
TileAt(p, z) ==
  [z |-> z, x |-> Clamp(p.x, Side(z) - 1), y |-> Side(z) - 1 - Clamp(p.y, Side(z) - 1)]

\* The tiles from one place to the next.
LEMMA LegTiles ==
  ASSUME NEW z \in 0..maxRouteZoom, NEW p \in Places, NEW q \in Places
  PROVE  LET leg == Whole(<<p, q>>, z, 0)
             cells == LegCells(routePointXY(p, z), routePointXY(q, z), Side(z))
         IN  /\ IsLeg(leg, TileAt(p, z), TileAt(q, z), Side(z))
             /\ leg \in Seq(TilesOf(z)) /\ Len(leg) = Len(cells)
             /\ \A i \in 1..Len(cells) : leg[i] = Centre(cells[i], z)
<1> DEFINE side == Side(z)
           route == <<p, q>>
           a == routePointXY(p, z)
           b == routePointXY(q, z)
           cells == LegCells(a, b, side)
           points == PointsOf(route, z)
           keys == KeysOf(points, z, 0)
           leg == Whole(route, z, 0)
<1>1. z \in Nat /\ 0 \in 0..maxRouteRadius /\ 0 \in Nat
  BY RouteAssumption
<1>2. side \in Nat \ {0}
  BY <1>1, SideFacts
<1>3. route \in Seq(Places) /\ route # <<>> /\ Len(route) = 2 /\ route[1] = p /\ route[2] = q
  OBVIOUS
<1> HIDE DEF route
<1>4. points \in Seq(GridCells(side)) /\ points # <<>> /\ Len(points) = 2 /\ points[1] = a /\ points[2] = b
  <2>1. /\ points \in Seq(GridCells(side)) /\ points # <<>> /\ Len(points) = Len(route)
        /\ \A i \in 1..Len(route) : points[i] = routePointXY(route[i], z)
    BY <1>1, <1>3, PointsType
  <2>2. 1 \in 1..Len(route) /\ 2 \in 1..Len(route)
    BY <1>3
  <2> QED BY <1>3, <2>1, <2>2
<1>5. a \in GridCells(side) /\ b \in GridCells(side)
  <2> HIDE DEF points, a, b
  <2>1. 1 \in 1..Len(points) /\ 2 \in 1..Len(points)
    BY <1>4
  <2> DEFINE grid == GridCells(side)
  <2> HIDE DEF grid
  <2>2. points \in Seq(grid)
    BY <1>4 DEF grid
  <2>3. points[1] \in grid /\ points[2] \in grid
    BY <2>1, <2>2
  <2> QED BY <1>4, <2>3 DEF grid
<1> HIDE DEF points, a, b
<1>6. Visited(points, side) = cells
  <2> HIDE DEF side
  <2>1. Visited(points, side) = LegCells(points[1], points[2], side)
    BY <1>2, <1>4, VisitedFacts
  <2> QED BY <1>4, <2>1
<1>7. /\ cells \in Seq(GridCells(side))
      /\ Len(cells) = Max({Apart(a.x, b.x, side), absInt(a.y - b.y)}) + 1 /\ Len(cells) >= 1
      /\ cells[1] = a /\ cells[Len(cells)] = b /\ IsInjective(cells)
      /\ \A i \in 2..Len(cells) : Apart(cells[i].x, cells[i - 1].x, side) <= 1 /\ absInt(cells[i].y - cells[i - 1].y) <= 1
  <2> HIDE DEF side
  <2> QED BY <1>2, <1>5, LegFacts
<1>8. keys \in Seq(TilesOf(z)) /\ Len(keys) = Len(cells) /\ \A i \in 1..Len(cells) : keys[i] = Centre(cells[i], z)
  <2> DEFINE v == Visited(points, Side(z))
  <2>1. v = cells
    BY <1>6
  <2>2. keys \in Seq(TilesOf(z)) /\ Len(keys) = Len(v) /\ \A i \in 1..Len(v) : keys[i] = Centre(v[i], z)
    BY <1>1, <1>4, KeysFacts
  <2> QED BY <2>1, <2>2
<1> DEFINE m == Len(cells)
<1>9. m \in Nat /\ DOMAIN cells = 1..m /\ DOMAIN keys = 1..m /\ \A i \in 1..m : cells[i] \in GridCells(side)
  <2> HIDE DEF cells, keys, side
  <2>1. cells \in Seq(GridCells(side)) /\ keys \in Seq(TilesOf(z)) /\ Len(keys) = Len(cells)
    BY <1>7, <1>8
  <2> QED BY <2>1
<1> HIDE DEF cells, keys
<1>10. IsInjective(keys)
  <2>1. \A i, j \in 1..m : keys[i] = keys[j] => cells[i] = cells[j]
    BY <1>1, <1>8, <1>9, CentreFacts
  <2> QED BY <1>7, <1>9, <2>1 DEF IsInjective
<1>11. leg = keys
  <2>1. leg = Emitted(keys, side * side).keys
    BY <1>1, <1>3, WholeFacts DEF keys, points
  <2>2. Emitted(keys, side * side).keys = keys
    BY <1>1, <1>8, <1>10, EmittedDistinct
  <2> QED BY <2>1, <2>2
<1>12. TileAt(p, z) = Centre(a, z) /\ TileAt(q, z) = Centre(b, z)
  BY DEF TileAt, Centre, routePointXY, a, b
<1>13. IsLeg(keys, Centre(a, z), Centre(b, z), side)
  <2>1. \A c, d \in GridCells(side) :
          /\ Centre(c, z).x = c.x /\ Centre(d, z).x = d.x
          /\ absInt(Centre(c, z).y - Centre(d, z).y) = absInt(c.y - d.y)
    <3> TAKE c, d \in GridCells(side)
    <3>1. c.y \in Int /\ d.y \in Int
      <4> HIDE DEF side
      <4> QED BY <1>2 DEF GridCells
    <3>2. Centre(c, z).y = side - 1 - c.y /\ Centre(d, z).y = side - 1 - d.y
      BY DEF Centre
    <3>3. absInt((side - 1 - c.y) - (side - 1 - d.y)) = absInt(c.y - d.y)
      <4> HIDE DEF side
      <4> QED BY <1>2, <3>1 DEF absInt
    <3> QED BY <3>2, <3>3 DEF Centre
  <2>2. Len(keys) = m /\ m >= 1 /\ 1 \in 1..m /\ m \in 1..m
    BY <1>7, <1>8, <1>9
  <2>3. keys[1] = Centre(a, z) /\ Last(keys) = Centre(b, z)
    BY <1>7, <1>8, <2>2 DEF Last
  <2>4. Len(keys) = Max({Apart(Centre(a, z).x, Centre(b, z).x, side),
                         absInt(Centre(a, z).y - Centre(b, z).y)}) + 1
    BY <1>5, <1>7, <2>1, <2>2
  <2>5. ASSUME NEW i \in 2..Len(keys)
        PROVE  Apart(keys[i].x, keys[i - 1].x, side) <= 1 /\ absInt(keys[i].y - keys[i - 1].y) <= 1
    <3>1. i \in 1..m /\ i - 1 \in 1..m /\ i \in 2..m
      BY <1>9, <2>2
    <3>2. keys[i] = Centre(cells[i], z) /\ keys[i - 1] = Centre(cells[i - 1], z)
      BY <1>8, <3>1
    <3>3. cells[i] \in GridCells(side) /\ cells[i - 1] \in GridCells(side)
      BY <1>9, <3>1
    <3> QED BY <1>7, <2>1, <3>1, <3>2, <3>3
  <2> QED BY <2>3, <2>4, <2>5 DEF IsLeg
<1> QED BY <1>8, <1>11, <1>12, <1>13 DEF leg, cells, keys, a, b, route, side, m

\* What is asked of the keys of a route, with and without a radius.
LEMMA WholeNear ==
  ASSUME NEW z \in 0..maxRouteZoom, NEW radius \in 0..maxRouteRadius, NEW route \in Seq(Places), route # <<>>
  PROVE  ToSet(Whole(route, z, radius)) =
           {key \in TilesOf(z) : \E near \in ToSet(Whole(route, z, 0)) : Near(near, key, radius)}
<1> DEFINE full == Whole(route, z, radius)
           bare == Whole(route, z, 0)
           v == Visited(PointsOf(route, z), Side(z))
<1>1. 0 \in 0..maxRouteRadius
  BY RouteAssumption
<1>2. full \in Seq(TilesOf(z)) /\ bare \in Seq(TilesOf(z))
  BY <1>1, WholeFacts
<1>3. \A x : Has(full, x) <=> \E cell : Has(v, cell) /\ x \in TilesOf(z) /\ Near(Centre(cell, z), x, radius)
  BY WholeFacts
<1>4. \A x : Has(bare, x) <=> \E cell : Has(v, cell) /\ x = Centre(cell, z)
  BY BareFacts
<1> HIDE DEF full, bare, v
<1>5. \A x : (x \in ToSet(full) <=> Has(full, x)) /\ (x \in ToSet(bare) <=> Has(bare, x))
  BY <1>2, HasIsIn
<1>6. \A x : x \in ToSet(full) <=> x \in TilesOf(z) /\ \E near \in ToSet(bare) : Near(near, x, radius)
  BY <1>3, <1>4, <1>5
<1>7. ToSet(full) = {key \in TilesOf(z) : \E near \in ToSet(bare) : Near(near, key, radius)}
  BY <1>6
<1> QED BY <1>7 DEF full, bare

LEMMA BareIsLegs ==
  ASSUME NEW z \in 0..maxRouteZoom, NEW route \in Seq(Places), route # <<>>
  PROVE  ToSet(Whole(route, z, 0)) =
           {TileAt(route[1], z)}
             \cup UNION {ToSet(Whole(<<route[i], route[i + 1]>>, z, 0)) : i \in 1..(Len(route) - 1)}
<1> DEFINE side == Side(z)
           N == Len(route)
           points == PointsOf(route, z)
           v == Visited(points, side)
           bare == Whole(route, z, 0)
           Leg(i) == Whole(<<route[i], route[i + 1]>>, z, 0)
           LegC(i) == LegCells(points[i], points[i + 1], side)
<1>1. z \in Nat /\ 0 \in 0..maxRouteRadius /\ side \in Nat \ {0}
  BY RouteAssumption, SideFacts
<1>2. /\ points \in Seq(GridCells(side)) /\ points # <<>> /\ Len(points) = N
      /\ \A i \in 1..N : points[i] = routePointXY(route[i], z)
  BY <1>1, PointsType
<1>3. N \in Nat \ {0} /\ \A i \in 1..N : route[i] \in Places
  OBVIOUS
<1>4. bare \in Seq(TilesOf(z)) /\ \A x : Has(bare, x) <=> \E cell : Has(v, cell) /\ x = Centre(cell, z)
  BY <1>1, WholeFacts, BareFacts
<1> HIDE DEF points
<1>5. \A x : Has(v, x) <=> x = points[1] \/ \E i \in 1..(N - 1) : Has(LegC(i), x)
  <2> HIDE DEF side
  <2>1. \A x : Has(v, x) <=> \/ x = points[1]
                             \/ \E i \in 1..(Len(points) - 1) : Has(LegCells(points[i], points[i + 1], side), x)
    BY <1>1, <1>2, VisitedFacts
  <2> QED BY <1>2, <2>1
<1>6. \A i \in 1..(N - 1) :
        /\ Leg(i) \in Seq(TilesOf(z)) /\ Len(Leg(i)) = Len(LegC(i))
        /\ \A k \in 1..Len(LegC(i)) : Leg(i)[k] = Centre(LegC(i)[k], z)
  <2> TAKE i \in 1..(N - 1)
  <2> DEFINE p == route[i]
             q == route[i + 1]
             c == LegCells(routePointXY(p, z), routePointXY(q, z), side)
             w == Whole(<<p, q>>, z, 0)
  <2>1. i \in 1..N /\ i + 1 \in 1..N
    BY <1>3
  <2>2. p \in Places /\ q \in Places
    BY <1>3, <2>1
  <2>3. LegC(i) = c
    BY <1>2, <2>1
  <2> HIDE DEF p, q
  <2>4. w \in Seq(TilesOf(z)) /\ Len(w) = Len(c) /\ \A k \in 1..Len(c) : w[k] = Centre(c[k], z)
    BY <2>2, LegTiles
  <2>5. Leg(i) = w
    BY DEF p, q
  <2> HIDE DEF c, w, Leg, LegC
  <2> QED BY <2>3, <2>4, <2>5
<1>7. TileAt(route[1], z) = Centre(points[1], z)
  <2>1. points[1] = routePointXY(route[1], z)
    BY <1>2, <1>3
  <2> QED BY <2>1 DEF TileAt, Centre, routePointXY
<1> HIDE DEF bare, v, Leg, LegC, side
<1>8. \A i \in 1..(N - 1) : \A x : Has(Leg(i), x) <=> \E cell : Has(LegC(i), cell) /\ x = Centre(cell, z)
  BY <1>6 DEF Has
<1>9. \A x : x \in ToSet(bare) <=> Has(bare, x)
  BY <1>4, HasIsIn
<1>10. \A i \in 1..(N - 1) : \A x : x \in ToSet(Leg(i)) <=> Has(Leg(i), x)
  BY <1>6, HasIsIn
<1>11. \A x : x \in ToSet(bare) <=> x = Centre(points[1], z) \/ \E i \in 1..(N - 1) : x \in ToSet(Leg(i))
  BY <1>4, <1>5, <1>8, <1>9, <1>10
<1>12. ToSet(bare) = {TileAt(route[1], z)} \cup UNION {ToSet(Leg(i)) : i \in 1..(N - 1)}
  BY <1>7, <1>11
<1> QED BY <1>12 DEF bare, Leg, N

\* What lies ahead does not change what came before.
LEMMA WholeBegins ==
  ASSUME NEW z \in 0..maxRouteZoom, NEW radius \in 0..maxRouteRadius, NEW route \in Seq(Places), NEW i \in DOMAIN route
  PROVE  IsPrefix(Whole(SubSeq(route, 1, i), z, radius), Whole(route, z, radius))
<1> DEFINE first == SubSeq(route, 1, i)
           side == Side(z)
<1>1. i \in 1..Len(route) /\ Len(route) \in Nat /\ route # <<>>
  OBVIOUS
<1>2. first \in Seq(Places) /\ Len(first) = i /\ first # <<>> /\ \A k \in 1..i : first[k] = route[k]
  BY <1>1
<1> HIDE DEF first
<1>3. z \in Nat /\ radius \in Nat
  BY RouteAssumption
<1> DEFINE points == PointsOf(route, z)
           fewer == PointsOf(first, z)
<1>4. /\ points \in Seq(GridCells(side)) /\ Len(points) = Len(route)
      /\ \A k \in 1..Len(route) : points[k] = routePointXY(route[k], z)
  BY <1>1, <1>3, PointsType
<1>5. /\ fewer \in Seq(GridCells(side)) /\ fewer # <<>> /\ Len(fewer) = i
      /\ \A k \in 1..i : fewer[k] = routePointXY(first[k], z)
  BY <1>2, <1>3, PointsType
<1> HIDE DEF points, fewer, side
<1>6. Begins(fewer, points)
  <2>1. \A k \in 1..i : k \in 1..Len(route)
    BY <1>1
  <2> QED BY <1>1, <1>2, <1>4, <1>5, <2>1 DEF Begins
<1> DEFINE keys == KeysOf(points, z, radius)
           less == KeysOf(fewer, z, radius)
           T == TilesOf(z)
           B == Side(z) * Side(z)
<1>7. Begins(less, keys) /\ keys \in Seq(T) /\ less \in Seq(T)
  <2>1. points # <<>>
    BY <1>1, <1>4
  <2> QED BY <1>3, <1>4, <1>5, <1>6, <2>1, KeysBegin, KeysFacts DEF side
<1>8. /\ Whole(route, z, radius) = Emitted(keys, B).keys /\ Whole(route, z, radius) \in Seq(T)
      /\ Whole(first, z, radius) = Emitted(less, B).keys /\ Whole(first, z, radius) \in Seq(T)
  BY <1>1, <1>2, WholeFacts DEF points, fewer
<1>9. B \in Nat
  <2> DEFINE m == Side(z)
  <2>1. m \in Nat
    BY <1>3, SideFacts
  <2> HIDE DEF m
  <2>2. m * m \in Nat
    BY <2>1
  <2> QED BY <2>2 DEF m
<1> HIDE DEF keys, less, T, B
<1>10. Begins(Emitted(less, B).keys, Emitted(keys, B).keys)
  BY <1>7, <1>9, EmittedBegins
<1>11. IsPrefix(Whole(first, z, radius), Whole(route, z, radius))
  BY <1>8, <1>10, BeginsIsPrefix
<1> QED BY <1>11 DEF first

\* The route of an answer that is no refusal.
LEMMA AnsweredRoute ==
  ASSUME NEW route \in Seq([x : Int, y : Int] \cup {OutsideWGS84}), NEW options \in [zoom : Int, radius : Int, maxTiles : Int],
         ~RouteSyncRequest(route, options).err
  PROVE  LET budget == IF options.maxTiles = 0 THEN DefaultRouteSyncMaxTiles ELSE options.maxTiles
         IN  /\ route \in Seq(Places) /\ route # <<>>
             /\ options.zoom \in 0..maxRouteZoom /\ options.radius \in 0..maxRouteRadius
             /\ budget \in Nat \ {0}
             /\ RouteSyncRequest(route, options) = RouteTileKeys(route, options.zoom, options.radius, budget)
<1> DEFINE budget == IF options.maxTiles = 0 THEN DefaultRouteSyncMaxTiles ELSE options.maxTiles
           z == options.zoom
           radius == options.radius
<1>1. RouteSyncRequest(route, options) = RouteTileKeys(route, z, radius, budget)
  BY DEF RouteSyncRequest
<1>2. z \in Int /\ radius \in Int /\ budget \in Int /\ budget # 0
  BY RouteAssumption
<1> HIDE DEF budget, z, radius
<1>3. ~Refused(route, z, radius, budget)
  BY <1>1 DEF RouteTileKeys, Corridor
<1>4. z \in 0..maxRouteZoom /\ radius \in 0..maxRouteRadius /\ budget > 0 /\ route # <<>> /\ OutsideWGS84 \notin ToSet(route)
  BY <1>2, <1>3 DEF Refused
<1>5. route \in Seq(Places)
  <2>1. \A i \in 1..Len(route) : route[i] \in Places
    <3> TAKE i \in 1..Len(route)
    <3>1. route[i] # OutsideWGS84
      BY <1>4 DEF ToSet
    <3>2. route[i] \in [x : Int, y : Int] \cup {OutsideWGS84}
      OBVIOUS
    <3> QED BY <3>1, <3>2 DEF Places
  <2> QED BY <2>1, SequenceOf
<1> QED BY <1>1, <1>2, <1>4, <1>5 DEF budget, z, radius

\* The corridor of a job is the one RouteSyncRequest returns for its route.
RouteInv ==
  /\ job \in Jobs
  /\ Done("route") => result = RouteSyncRequest(job.call.route, job.call.options)

LEMMA RouteInvInit == GeometryInit => RouteInv
BY DEF GeometryInit, RouteInv, Done

LEMMA RouteInvNext == RouteInv /\ [GeometryNext]_geometryVars => RouteInv'
<1> SUFFICES ASSUME RouteInv, [GeometryNext]_geometryVars PROVE RouteInv'
  OBVIOUS
<1> USE DEF RouteInv, Done
<1>1. ASSUME UNCHANGED <<job, result>> PROVE RouteInv'
  BY <1>1
<1>2. ASSUME UNCHANGED job, job.kind # "route" PROVE RouteInv'
  BY <1>2
<1>3. CASE PlanRoute
  BY <1>3 DEF PlanRoute, Answer
<1>4. CASE AssembleRings
  BY <1>2, <1>4 DEF AssembleRings, Answer
<1>5. CASE CollectBoundaries
  BY <1>2, <1>5 DEF CollectBoundaries, Answer
<1>6. CASE ValidateTerritories
  BY <1>2, <1>6 DEF ValidateTerritories, Answer
<1>7. CASE EncodeFeature
  BY <1>2, <1>7 DEF EncodeFeature, Answer
<1>8. CASE SignRings
  BY <1>2, <1>8 DEF SignRings, Answer
<1>9. CASE SimplifyStep
  BY <1>1, <1>9 DEF SimplifyStep
<1>10. CASE UNCHANGED geometryVars
  BY <1>1, <1>10 DEF geometryVars
<1> QED BY <1>3, <1>4, <1>5, <1>6, <1>7, <1>8, <1>9, <1>10 DEF GeometryNext

LEMMA RouteInvImplies == RouteInv => CorridorFollowsRoute
<1> SUFFICES ASSUME RouteInv, Done("route"), ~result.err PROVE CorridorFollowsRoute
  BY DEF CorridorFollowsRoute
<1> DEFINE route == job.call.route
           options == job.call.options
           z == options.zoom
           radius == options.radius
           side == Side(z)
           full == Whole(route, z, radius)
           bare == Whole(route, z, 0)
           At(p) == [z |-> z, x |-> Clamp(p.x, side - 1), y |-> side - 1 - Clamp(p.y, side - 1)]
           Leg(i) == Whole(<<route[i], route[i + 1]>>, z, 0)
           budget == IF options.maxTiles = 0 THEN DefaultRouteSyncMaxTiles ELSE options.maxTiles
           T == TilesOf(z)
<1>1. route \in Seq([x : Int, y : Int] \cup {OutsideWGS84}) /\ options \in [zoom : Int, radius : Int, maxTiles : Int]
  BY JobsAssumption DEF RouteInv, Done
<1>2. result = RouteSyncRequest(route, options)
  BY DEF RouteInv
<1>3. /\ route \in Seq(Places) /\ route # <<>> /\ z \in 0..maxRouteZoom /\ radius \in 0..maxRouteRadius
      /\ budget \in Nat \ {0} /\ result = RouteTileKeys(route, z, radius, budget)
  <2> HIDE DEF route, options
  <2> QED BY <1>1, <1>2, AnsweredRoute
<1>4. z \in Nat /\ radius \in Nat /\ 0 \in 0..maxRouteRadius
  BY <1>3, RouteAssumption
<1> HIDE DEF route, z, radius, budget
<1>5. /\ result.keys \in Seq(T) /\ full \in Seq(T)
      /\ IsInjective(result.keys) /\ Len(result.keys) <= budget
      /\ Begins(result.keys, full)
      /\ result.truncated <=> Len(result.keys) < Len(full)
  <2> DEFINE points == PointsOf(route, z)
             keys == KeysOf(points, z, radius)
  <2>1. result = Emitted(keys, budget)
    BY <1>3, CorridorIs
  <2>2. full = Emitted(keys, Side(z) * Side(z)).keys
    BY <1>3, WholeFacts
  <2>3. points \in Seq(GridCells(Side(z))) /\ points # <<>>
    BY <1>3, <1>4, PointsType
  <2> HIDE DEF points
  <2>4. keys \in Seq(TilesOf(z))
    BY <1>4, <2>3, KeysFacts
  <2> HIDE DEF keys, full, T
  <2> DEFINE part == Emitted(keys, budget)
             all == Emitted(keys, Side(z) * Side(z))
  <2>5. /\ part.keys \in Seq(TilesOf(z)) /\ all.keys \in Seq(TilesOf(z))
        /\ IsInjective(part.keys) /\ Len(part.keys) <= budget
        /\ Begins(part.keys, all.keys)
        /\ part.truncated <=> Len(part.keys) < Len(all.keys)
    BY <1>3, <1>4, <2>4, EmittedPart
  <2> QED BY <2>1, <2>2, <2>5 DEF T
<1>6. ToSet(result.keys) \subseteq T
  BY <1>5 DEF ToSet
<1>7. IsPrefix(result.keys, full)
  <2> HIDE DEF full, T
  <2> QED BY <1>5, BeginsIsPrefix
<1>8. \A i \in DOMAIN route : IsPrefix(Whole(SubSeq(route, 1, i), z, radius), full)
  BY <1>3, WholeBegins
<1>9. ToSet(full) = {key \in T : \E near \in ToSet(bare) : /\ absInt(near.x - key.x) <= radius
                                                           /\ absInt(near.y - key.y) <= radius}
  <2>1. ToSet(full) = {key \in T : \E near \in ToSet(bare) : Near(near, key, radius)}
    BY <1>3, WholeNear
  <2> HIDE DEF full, bare, T
  <2> QED BY <2>1 DEF Near
<1>10. \A p : At(p) = TileAt(p, z)
  BY DEF TileAt
<1>11. ToSet(bare) = {At(route[1])} \cup UNION {ToSet(Leg(i)) : i \in 1..(Len(route) - 1)}
  <2>1. ToSet(bare) = {TileAt(route[1], z)} \cup UNION {ToSet(Leg(i)) : i \in 1..(Len(route) - 1)}
    BY <1>3, BareIsLegs
  <2> QED BY <1>10, <2>1
<1>12. \A i \in 1..(Len(route) - 1) : IsLeg(Leg(i), At(route[i]), At(route[i + 1]), side)
  <2> TAKE i \in 1..(Len(route) - 1)
  <2>1. i \in 1..Len(route) /\ i + 1 \in 1..Len(route)
    BY <1>3
  <2> DEFINE p == route[i]
             q == route[i + 1]
  <2>2. p \in Places /\ q \in Places
    BY <1>3, <2>1
  <2>3. Leg(i) = Whole(<<p, q>>, z, 0) /\ At(route[i]) = TileAt(p, z) /\ At(route[i + 1]) = TileAt(q, z)
    BY <1>10
  <2> HIDE DEF p, q, Leg, At
  <2>4. IsLeg(Whole(<<p, q>>, z, 0), TileAt(p, z), TileAt(q, z), Side(z))
    BY <1>3, <2>2, LegTiles
  <2> QED BY <2>3, <2>4
<1> HIDE DEF full, bare, At, Leg, T
<1>13. CorridorFollowsRoute
  <2>1. /\ ToSet(result.keys) \subseteq T
        /\ IsInjective(result.keys)
        /\ Len(result.keys) <= budget
        /\ IsPrefix(result.keys, full)
        /\ result.truncated <=> Len(result.keys) < Len(full)
        /\ \A i \in DOMAIN route : IsPrefix(Whole(SubSeq(route, 1, i), z, radius), full)
        /\ ToSet(full) = {key \in T : \E near \in ToSet(bare) : /\ absInt(near.x - key.x) <= radius
                                                                /\ absInt(near.y - key.y) <= radius}
        /\ ToSet(bare) = {At(route[1])} \cup UNION {ToSet(Leg(i)) : i \in 1..(Len(route) - 1)}
        /\ \A i \in 1..(Len(route) - 1) : IsLeg(Leg(i), At(route[i]), At(route[i + 1]), side)
    BY <1>5, <1>6, <1>7, <1>8, <1>9, <1>11, <1>12
  <2> QED BY <2>1 DEF CorridorFollowsRoute, full, bare, At, Leg, T, route, z, radius, budget
<1> QED BY <1>13

(* Whatever the routes, the projected coordinates and the limits: a corridor *)
(* is its legs by the shorter way round the world and the tiles about them,  *)
(* each once, and the budget cuts it off at the end and says so.             *)
THEOREM CorridorsFollowRoutes == GeometrySpec => []CorridorFollowsRoute
<1> QED BY RouteInvInit, RouteInvNext, RouteInvImplies, PTL DEF GeometrySpec

LEMMA TotalSums ==
  ASSUME NEW T, 0 \in T, \A x, y \in T : x + y \in T, NEW c \in Seq(T)
  PROVE  \E f \in [0..Len(c) -> T] :
           f[0] = 0 /\ (\A k \in 1..Len(c) : f[k] = f[k - 1] + c[k]) /\ Total(c) = f[Len(c)]
<1> DEFINE N == Len(c)
           Rec(g) == g = [k \in 0..N |-> IF k = 0 THEN 0 ELSE g[k - 1] + c[k]]
           sum == CHOOSE g : Rec(g)
<1>1. N \in Nat /\ \A k \in 1..N : c[k] \in T
  OBVIOUS
<1>2. Total(c) = sum[N]
  BY DEF Total
<1> HIDE DEF N
<1>3. PICK f \in [0..N -> T] : f[0] = 0 /\ \A k \in 1..N : f[k] = f[k - 1] + c[k]
  <2> DEFINE G == [k \in 1..N |-> [m \in T |-> m + c[k]]]
  <2>1. G \in [1..N -> [T -> T]]
    BY <1>1
  <2> HIDE DEF G
  <2>2. Recurs(T, 0, N, G)
    BY <1>1, <2>1, Recursion
  <2>3. PICK g \in [0..N -> T] : g[0] = 0 /\ \A k \in 1..N : g[k] = G[k][g[k - 1]]
    BY <2>2 DEF Recurs
  <2>4. ASSUME NEW k \in 1..N PROVE g[k] = g[k - 1] + c[k]
    <3>1. g[k - 1] \in T
      BY <1>1
    <3> QED BY <2>3, <3>1 DEF G
  <2> QED BY <2>3, <2>4
<1>4. Rec(f)
  <2>1. \A k \in 0..N : f[k] = IF k = 0 THEN 0 ELSE f[k - 1] + c[k]
    BY <1>1, <1>3
  <2> QED BY <2>1
<1>5. Rec(sum)
  <2> HIDE DEF Rec
  <2> QED BY <1>4
<1> HIDE DEF sum
<1>6. \A k \in 0..N : sum[k] = IF k = 0 THEN 0 ELSE sum[k - 1] + c[k]
  BY <1>5
<1> DEFINE S == {k \in Nat : k <= N => sum[k] = f[k]}
<1>7. 0 \in S
  BY <1>1, <1>3, <1>6
<1>8. ASSUME NEW k \in Nat \cap S PROVE k + 1 \in S
  <2> SUFFICES ASSUME k + 1 <= N PROVE sum[k + 1] = f[k + 1]
    OBVIOUS
  <2>1. k + 1 \in 0..N /\ k + 1 \in 1..N /\ k + 1 # 0 /\ (k + 1) - 1 = k /\ k <= N
    BY <1>1
  <2>2. sum[k] = f[k]
    BY <2>1
  <2> HIDE DEF S
  <2> QED BY <1>3, <1>6, <2>1, <2>2
<1>9. \A k \in Nat : k \in S
  <2> HIDE DEF S
  <2> QED BY <1>7, <1>8, Induction
<1>10. sum[N] = f[N]
  BY <1>1, <1>9
<1> QED BY <1>2, <1>3, <1>10 DEF N

LEMMA TotalFunction ==
  ASSUME NEW c \in Seq(Nat)
  PROVE  \E f \in [0..Len(c) -> Nat] :
           f[0] = 0 /\ (\A k \in 1..Len(c) : f[k] = f[k - 1] + c[k]) /\ Total(c) = f[Len(c)]
<1>1. 0 \in Nat /\ \A x, y \in Nat : x + y \in Nat
  OBVIOUS
<1> QED BY <1>1, TotalSums

LEMMA TotalCovers ==
  ASSUME NEW c \in Seq(Nat), NEW D, D \subseteq 1..Len(c), \A i \in D : c[i] >= 1
  PROVE  IsFiniteSet(D) /\ Total(c) \in Nat /\ Cardinality(D) <= Total(c)
<1> DEFINE N == Len(c)
           Upto(k) == D \cap (1..k)
<1>1. PICK f \in [0..N -> Nat] : f[0] = 0 /\ (\A k \in 1..N : f[k] = f[k - 1] + c[k]) /\ Total(c) = f[N]
  BY TotalFunction
<1>2. N \in Nat /\ \A k \in 1..N : c[k] \in Nat
  OBVIOUS
<1> HIDE DEF N
<1>3. \A k \in Nat : IsFiniteSet(1..k)
  BY FS_Interval
<1>4. \A k \in Nat : IsFiniteSet(Upto(k)) /\ Cardinality(Upto(k)) \in Nat
  BY <1>3, FS_Subset, FS_CardinalityType
<1> DEFINE S == {k \in Nat : k <= N => Cardinality(Upto(k)) <= f[k]}
<1>5. 0 \in S
  <2>1. Upto(0) = {}
    OBVIOUS
  <2>2. Cardinality(Upto(0)) = 0
    BY <2>1, FS_EmptySet
  <2> HIDE DEF Upto
  <2> QED BY <1>1, <2>2
<1>6. ASSUME NEW k \in Nat \cap S PROVE k + 1 \in S
  <2> SUFFICES ASSUME k + 1 <= N PROVE Cardinality(Upto(k + 1)) <= f[k + 1]
    OBVIOUS
  <2>1. k \in Nat /\ k \in 0..N /\ k + 1 \in 0..N /\ k + 1 \in 1..N /\ (k + 1) - 1 = k /\ k <= N
    BY <1>2
  <2>2. Cardinality(Upto(k)) <= f[k]
    BY <2>1
  <2> HIDE DEF S
  <2>3. f[k + 1] = f[k] + c[k + 1] /\ c[k + 1] \in Nat /\ f[k] \in Nat
    BY <1>1, <1>2, <2>1
  <2>4. Upto(k + 1) = IF k + 1 \in D THEN Upto(k) \cup {k + 1} ELSE Upto(k)
    BY <2>1
  <2>5. IsFiniteSet(Upto(k)) /\ Cardinality(Upto(k)) \in Nat
    BY <1>4, <2>1
  <2> HIDE DEF Upto
  <2>6. CASE k + 1 \in D
    <3>0. Cardinality(Upto(k) \cup {k + 1}) = IF k + 1 \in Upto(k) THEN Cardinality(Upto(k)) ELSE Cardinality(Upto(k)) + 1
      BY <2>5, FS_AddElement
    <3>1. Cardinality(Upto(k) \cup {k + 1}) <= Cardinality(Upto(k)) + 1
      BY <2>5, <3>0
    <3>2. Cardinality(Upto(k + 1)) <= Cardinality(Upto(k)) + 1
      BY <2>4, <2>6, <3>1
    <3>3. c[k + 1] >= 1 /\ Cardinality(Upto(k + 1)) \in Nat
      BY <1>4, <2>1, <2>6
    <3> QED BY <2>2, <2>3, <2>5, <3>2, <3>3
  <2>7. CASE k + 1 \notin D
    BY <2>2, <2>3, <2>4, <2>5, <2>7
  <2> QED BY <2>6, <2>7
<1>7. \A k \in Nat : k \in S
  <2> HIDE DEF S
  <2> QED BY <1>5, <1>6, Induction
<1>8. Upto(N) = D
  BY DEF N
<1>9. Cardinality(Upto(N)) <= f[N]
  <2> HIDE DEF Upto
  <2> QED BY <1>2, <1>7
<1>10. IsFiniteSet(D)
  <2> HIDE DEF Upto
  <2> QED BY <1>2, <1>4, <1>8
<1>11. Total(c) \in Nat /\ Total(c) = f[N]
  BY <1>1, <1>2
<1> QED BY <1>8, <1>9, <1>10, <1>11

LEMMA KeptLength ==
  ASSUME NEW T, NEW s \in Seq(T), NEW S, NEW D, D = {i \in 1..Len(s) : s[i] \in S}
  PROVE  IsFiniteSet(D) /\ Cardinality(D) = Len(Kept(s, S)) /\ Len(Kept(s, S)) \in Nat
<1> DEFINE r == Kept(s, S)
<1>1. PICK g : Selects(g, r, s, Len(s), S)
  BY KeptSelects
<1>2. r \in Seq(T)
  BY KeptType
<1>3. Len(r) \in Nat
  BY <1>2
<1> HIDE DEF r
<1> DEFINE m == Len(r)
<1>4. g \in [1..m -> D]
  BY <1>1 DEF Selects
<1>5. \A i, j \in 1..m : i # j => g[i] # g[j]
  <2> SUFFICES ASSUME NEW i \in 1..m, NEW j \in 1..m, i # j PROVE g[i] # g[j]
    OBVIOUS
  <2>1. i < j \/ j < i
    BY <1>3
  <2>2. g[i] < g[j] \/ g[j] < g[i]
    BY <1>1, <2>1 DEF Selects
  <2>3. g[i] \in Nat /\ g[j] \in Nat
    BY <1>4
  <2> QED BY <2>2, <2>3
<1>6. \A j \in D : \E i \in 1..m : g[i] = j
  BY <1>1 DEF Selects
<1> HIDE DEF m
<1>7. g \in Bijection(1..m, D)
  BY <1>4, <1>5, <1>6 DEF Bijection, Injection, IsInjective, Surjection
<1>8. ExistsBijection(1..m, D)
  BY <1>7 DEF ExistsBijection
<1>9. IsFiniteSet(1..m) /\ Cardinality(1..m) = m
  <2>1. m \in Nat
    BY <1>3 DEF m
  <2> QED BY <2>1, FS_Interval
<1>10. IsFiniteSet(D) /\ Cardinality(D) = m
  BY <1>8, <1>9, FS_Bijection
<1> QED BY <1>3, <1>10 DEF m, r

LEMMA RepairPolygonWarns ==
  ASSUME NEW T, NEW poly \in Seq(T)
  PROVE  /\ RepairPolygon(poly).warnings \in Nat
         /\ poly # <<>> /\ RepairPolygon(poly).rings = <<>> => RepairPolygon(poly).warnings >= 1
<1> DEFINE repaired == [i \in DOMAIN poly |-> repairRing(poly[i])]
           read == IF poly # <<>> /\ ~repaired[1].ok THEN <<repaired[1]>> ELSE repaired
           fine == {ring \in ToSet(read) : ring.ok}
           bad == {ring \in ToSet(read) : ring.warned}
           kept == Kept(read, fine)
           R == {repaired[i] : i \in DOMAIN poly}
<1>1. RepairPolygon(poly) = [rings |-> [i \in DOMAIN kept |-> kept[i].ring], warnings |-> Len(Kept(read, bad))]
  BY DEF RepairPolygon, KeptRings
<1>2. repaired \in Seq(R) /\ DOMAIN repaired = DOMAIN poly /\ Len(poly) \in Nat /\ DOMAIN poly = 1..Len(poly)
  OBVIOUS
<1>3. poly # <<>> => 1 \in DOMAIN poly /\ repaired[1] \in R
  BY <1>2
<1>4. \A i \in DOMAIN poly : repaired[i].ok \/ repaired[i].warned
  BY DEF repairRing
<1> HIDE DEF repaired
<1>5. read \in Seq(R)
  <2> HIDE DEF R
  <2>1. CASE poly # <<>> /\ ~repaired[1].ok
    <3>1. <<repaired[1]>> \in Seq(R)
      BY <1>3, <2>1
    <3> QED BY <2>1, <3>1
  <2> QED BY <1>2, <2>1
<1>6. poly # <<>> => read[1] = repaired[1] /\ 1 \in 1..Len(read)
  <2> SUFFICES ASSUME poly # <<>> PROVE read[1] = repaired[1] /\ 1 \in 1..Len(read)
    OBVIOUS
  <2>1. CASE repaired[1].ok
    BY <1>2, <1>3, <2>1
  <2>2. CASE ~repaired[1].ok
    <3>1. read = <<repaired[1]>>
      BY <2>2
    <3> QED BY <3>1
  <2> QED BY <2>1, <2>2
<1>7. poly # <<>> => read[1] \in fine \/ read[1] \in bad
  <2>1. \A i \in 1..Len(read) : read[i] \in ToSet(read)
    BY <1>5 DEF ToSet
  <2> QED BY <1>3, <1>4, <1>6, <2>1
<1> HIDE DEF read, fine, bad, R
<1>8. kept \in Seq(R) /\ Kept(read, bad) \in Seq(R)
  BY <1>5, KeptType
<1>9. poly # <<>> => Len(kept) >= 1 \/ Len(Kept(read, bad)) >= 1
  <2> SUFFICES ASSUME poly # <<>> PROVE Len(kept) >= 1 \/ Len(Kept(read, bad)) >= 1
    OBVIOUS
  <2>1. CASE read[1] \in fine
    <3>1. \E i \in 1..Len(kept) : kept[i] = read[1]
      BY <1>5, <1>6, <2>1, KeptElements
    <3> QED BY <1>8, <3>1
  <2>2. CASE read[1] \in bad
    <3> DEFINE warned == Kept(read, bad)
    <3>1. \E i \in 1..Len(warned) : warned[i] = read[1]
      BY <1>5, <1>6, <2>2, KeptElements
    <3>2. warned \in Seq(R)
      BY <1>8
    <3> HIDE DEF warned
    <3>3. Len(warned) >= 1
      BY <3>1, <3>2
    <3> QED BY <3>3 DEF warned
  <2> QED BY <1>7, <2>1, <2>2
<1> HIDE DEF kept
<1>10. RepairPolygon(poly).rings = <<>> => Len(kept) = 0
  <2>1. DOMAIN RepairPolygon(poly).rings = DOMAIN kept
    BY <1>1
  <2>2. DOMAIN kept = 1..Len(kept) /\ Len(kept) \in Nat
    BY <1>8
  <2>3. SUFFICES ASSUME RepairPolygon(poly).rings = <<>> PROVE Len(kept) = 0
    OBVIOUS
  <2>4. DOMAIN RepairPolygon(poly).rings = {}
    BY <2>3
  <2>5. 1..Len(kept) = {}
    BY <2>1, <2>2, <2>4
  <2>6. 1 \notin 1..Len(kept)
    BY <2>5
  <2> QED BY <2>2, <2>6
<1>11. RepairPolygon(poly).warnings = Len(Kept(read, bad))
  BY <1>1
<1>12. Len(Kept(read, bad)) \in Nat
  BY <1>8
<1> QED BY <1>9, <1>10, <1>11, <1>12

LEMMA RepairWarns ==
  ASSUME NEW T, NEW mp \in Seq(Seq(T))
  PROVE  /\ Repair(mp).warnings \in Nat
         /\ (\E p \in DOMAIN mp : mp[p] # <<>>) /\ Repair(mp).geometry = <<>> => Repair(mp).warnings >= 1
<1> DEFINE repaired == [p \in DOMAIN mp |-> RepairPolygon(mp[p])]
           full == {poly \in ToSet(repaired) : poly.rings # <<>>}
           kept == Kept(repaired, full)
           counts == [p \in DOMAIN mp |-> repaired[p].warnings]
           R == {repaired[p] : p \in DOMAIN mp}
<1>1. Repair(mp) = [geometry |-> Normalize([p \in DOMAIN kept |-> kept[p].rings]), warnings |-> Total(counts)]
  BY DEF Repair, KeptPolygons
<1>2. DOMAIN mp = 1..Len(mp) /\ Len(mp) \in Nat /\ \A p \in DOMAIN mp : mp[p] \in Seq(T)
  OBVIOUS
<1> DEFINE Vanished(p) == mp[p] # <<>> /\ repaired[p].rings = <<>>
           W(p) == repaired[p].warnings
<1>3. \A p \in DOMAIN mp : W(p) \in Nat /\ (Vanished(p) => W(p) >= 1)
  BY <1>2, RepairPolygonWarns
<1>4. repaired \in Seq(R) /\ Len(repaired) = Len(mp)
  BY <1>2
<1>5. \A p \in DOMAIN mp : repaired[p] \in ToSet(repaired)
  BY DEF ToSet
<1> HIDE DEF repaired
<1>6. counts \in Seq(Nat) /\ Len(counts) = Len(mp)
  <2>2. counts = [p \in 1..Len(mp) |-> W(p)]
    BY <1>2
  <2> HIDE DEF counts, Vanished, W
  <2>1. \A p \in 1..Len(mp) : W(p) \in Nat
    BY <1>2, <1>3
  <2> QED BY <1>2, <2>1, <2>2
<1>7. Total(counts) \in Nat
  <2> HIDE DEF counts
  <2> DEFINE D == {}
  <2>1. D \subseteq 1..Len(counts) /\ \A i \in D : counts[i] >= 1
    OBVIOUS
  <2> HIDE DEF D
  <2> QED BY <1>6, <2>1, TotalCovers
<1>8. ASSUME NEW p \in DOMAIN mp, mp[p] # <<>>, Repair(mp).geometry = <<>> PROVE Total(counts) >= 1
  <2>1. repaired[p].rings = <<>>
    <3> SUFFICES ASSUME repaired[p].rings # <<>> PROVE FALSE
      OBVIOUS
    <3>1. repaired[p] \in full /\ p \in 1..Len(repaired)
      BY <1>2, <1>4, <1>5
    <3> HIDE DEF full, R
    <3>2. PICK i \in 1..Len(kept) : kept[i] = repaired[p]
      BY <1>4, <3>1, KeptElements
    <3>3. kept \in Seq(R)
      BY <1>4, KeptType
    <3> HIDE DEF kept
    <3>4. DOMAIN Normalize([q \in DOMAIN kept |-> kept[q].rings]) = DOMAIN kept
      BY DEF Normalize
    <3>5. DOMAIN Repair(mp).geometry = DOMAIN kept
      BY <1>1, <3>4
    <3>6. i \in DOMAIN kept /\ DOMAIN <<>> = {}
      BY <3>3
    <3> QED BY <1>8, <3>5, <3>6
  <2>2. counts[p] >= 1
    <3>1. counts[p] = W(p) /\ Vanished(p)
      BY <1>8, <2>1
    <3> HIDE DEF counts, W, Vanished
    <3>2. W(p) >= 1
      BY <1>3, <3>1
    <3> QED BY <3>1, <3>2
  <2> HIDE DEF counts
  <2>3. {p} \subseteq 1..Len(counts) /\ \A i \in {p} : counts[i] >= 1
    BY <1>2, <1>6, <2>2
  <2>4. Cardinality({p}) <= Total(counts)
    BY <1>6, <2>3, TotalCovers
  <2>5. Cardinality({p}) = 1
    BY FS_Singleton
  <2> QED BY <1>7, <2>4, <2>5
<1>9. Repair(mp).warnings = Total(counts)
  BY <1>1
<1> HIDE DEF counts
<1> QED BY <1>7, <1>8, <1>9

-----------------------------------------------------------------------------
(* The accounts of a dissolve                                                *)

\* The rows of a mapping that join a key to a group.
JoinsOf(mapping, key) ==
  {[row |-> row, group |-> TrimSpace(mapping[row].group)] :
     row \in {row \in DOMAIN mapping : normalizeKey(mapping[row].key) = key /\ TrimSpace(mapping[row].group) # <<>>}}

\* The members placed are those of the joins, one each.
PlacedFor(h, placed, joins, key) ==
  /\ h \in [1..Len(placed) -> joins]
  /\ \A i, j \in 1..Len(placed) : h[i] = h[j] => i = j
  /\ \A r \in joins : \E i \in 1..Len(placed) : h[i] = r
  /\ \A i \in 1..Len(placed) : placed[i].group = h[i].group /\ placed[i].key = key

\* What Join makes of a feature with these rows and joins.
JoinAccounts(joined, rows, joins, key) ==
  /\ joined.placed \in Seq({joined.placed[i] : i \in DOMAIN joined.placed})
  /\ \E h : PlacedFor(h, joined.placed, joins, key)
  /\ joined.emptyKeys \in Nat
  /\ rows # <<>> /\ joins = {} => joined.emptyKeys >= 1
  /\ rows = <<>> => joins = {}

LEMMA SelectsInjective ==
  ASSUME NEW g, NEW r, NEW s, NEW m \in Nat, NEW S, Selects(g, r, s, m, S), Len(r) \in Nat
  PROVE  \A i, j \in 1..Len(r) : g[i] = g[j] => i = j
<1> SUFFICES ASSUME NEW i \in 1..Len(r), NEW j \in 1..Len(r), g[i] = g[j], i # j PROVE FALSE
  OBVIOUS
<1>1. i < j \/ j < i
  OBVIOUS
<1>2. g[i] < g[j] \/ g[j] < g[i]
  BY <1>1 DEF Selects
<1>3. g[i] \in 1..m /\ g[j] \in 1..m
  BY DEF Selects
<1> QED BY <1>2, <1>3

LEMMA JoinPlaces ==
  ASSUME NEW T, NEW mapping \in Seq(T), NEW opts, NEW feature, NEW geometry, NEW key,
         NEW rows, rows = Index(mapping, key), NEW joined, joined = Join(opts, feature, geometry, rows)
  PROVE  JoinAccounts(joined, rows, JoinsOf(mapping, key), stringify(feature.key))
<1> DEFINE A == {row \in ToSet(mapping) : normalizeKey(row.key) = key}
           B == {row \in ToSet(rows) : TrimSpace(row.group) # <<>>}
           grouped == Kept(rows, B)
           J == JoinsOf(mapping, key)
<1>1. rows = Kept(mapping, A)
  BY DEF Index
<1>2. rows \in Seq(T)
  <2> HIDE DEF A
  <2> QED BY <1>1, KeptType
<1>3. PICK g : Selects(g, rows, mapping, Len(mapping), A)
  <2> HIDE DEF A
  <2> QED BY <1>1, KeptSelects
<1>4. PICK k : Selects(k, grouped, rows, Len(rows), B)
  <2> HIDE DEF B
  <2> QED BY <1>2, KeptSelects
<1>5. grouped \in Seq(T)
  <2> HIDE DEF B
  <2> QED BY <1>2, KeptType
<1>6. joined.placed = [i \in DOMAIN grouped |->
                         Placed(TrimSpace(grouped[i].group), feature, geometry, Overridden(grouped[i].fields, feature.fields))]
      /\ joined.emptyKeys = Len(rows) - Len(grouped)
  BY DEF Join
<1>a. \A j \in 1..Len(mapping) : mapping[j] \in ToSet(mapping)
  BY DEF ToSet
<1>b. \A j \in 1..Len(rows) : rows[j] \in ToSet(rows)
  BY <1>2 DEF ToSet
<1>7. /\ \A j \in 1..Len(mapping) : mapping[j] \in A <=> normalizeKey(mapping[j].key) = key
      /\ \A j \in 1..Len(rows) : rows[j] \in B <=> TrimSpace(rows[j].group) # <<>>
  BY <1>a, <1>b
<1> HIDE DEF A, B, grouped
<1>8. /\ Len(mapping) \in Nat /\ DOMAIN mapping = 1..Len(mapping)
      /\ Len(rows) \in Nat /\ Len(grouped) \in Nat /\ DOMAIN grouped = 1..Len(grouped)
  BY <1>2, <1>5
<1> DEFINE size == Len(grouped)
           placed == joined.placed
<1>9. placed \in Seq({placed[i] : i \in DOMAIN placed}) /\ Len(placed) = size
  BY <1>6, <1>8
<1>10. \A i \in 1..size : placed[i].group = TrimSpace(grouped[i].group) /\ placed[i].key = stringify(feature.key)
  BY <1>6, <1>8 DEF Placed
<1> HIDE DEF placed
<1> DEFINE h == [i \in 1..size |-> [row |-> g[k[i]], group |-> TrimSpace(grouped[i].group)]]
<1>11. \A i \in 1..size : /\ k[i] \in 1..Len(rows) /\ grouped[i] = rows[k[i]] /\ rows[k[i]] \in B
                       /\ g[k[i]] \in 1..Len(mapping) /\ rows[k[i]] = mapping[g[k[i]]] /\ mapping[g[k[i]]] \in A
  <2>1. ASSUME NEW i \in 1..size PROVE k[i] \in 1..Len(rows) /\ grouped[i] = rows[k[i]] /\ rows[k[i]] \in B
    BY <1>4 DEF Selects
  <2>2. ASSUME NEW j \in 1..Len(rows) PROVE g[j] \in 1..Len(mapping) /\ rows[j] = mapping[g[j]] /\ mapping[g[j]] \in A
    BY <1>3 DEF Selects
  <2> HIDE DEF size
  <2> QED BY <2>1, <2>2
<1>12. h \in [1..size -> J]
  <2> SUFFICES ASSUME NEW i \in 1..size PROVE h[i] \in J
    OBVIOUS
  <2> DEFINE w == g[k[i]]
  <2>1. w \in DOMAIN mapping /\ grouped[i] = mapping[w] /\ normalizeKey(mapping[w].key) = key
    BY <1>7, <1>8, <1>11
  <2>2. TrimSpace(mapping[w].group) # <<>>
    BY <1>7, <1>11, <2>1
  <2>3. h[i] = [row |-> w, group |-> TrimSpace(mapping[w].group)]
    BY <2>1
  <2> HIDE DEF h, w
  <2> QED BY <2>1, <2>2, <2>3 DEF JoinsOf
<1>13. \A i, j \in 1..size : h[i] = h[j] => i = j
  <2> SUFFICES ASSUME NEW i \in 1..size, NEW j \in 1..size, h[i] = h[j] PROVE i = j
    OBVIOUS
  <2>1. g[k[i]] = g[k[j]]
    <3>1. h[i].row = h[j].row
      OBVIOUS
    <3> QED BY <3>1
  <2>2. k[i] = k[j]
    <3> DEFINE v == k[i]
               w == k[j]
    <3>1. v \in 1..Len(rows) /\ w \in 1..Len(rows) /\ g[v] = g[w]
      BY <1>11, <2>1
    <3> HIDE DEF v, w, h
    <3>2. \A a, b \in 1..Len(rows) : g[a] = g[b] => a = b
      BY <1>3, <1>8, SelectsInjective
    <3>3. v = w
      BY <3>1, <3>2
    <3> QED BY <3>3 DEF v, w
  <2> QED BY <1>4, <1>8, <2>2, SelectsInjective
<1>14. \A r \in J : \E i \in 1..size : h[i] = r
  <2> SUFFICES ASSUME NEW r \in J PROVE \E i \in 1..size : h[i] = r
    OBVIOUS
  <2>1. PICK w \in DOMAIN mapping : /\ r = [row |-> w, group |-> TrimSpace(mapping[w].group)]
                                    /\ normalizeKey(mapping[w].key) = key /\ TrimSpace(mapping[w].group) # <<>>
    BY DEF JoinsOf
  <2>2. mapping[w] \in A /\ w \in 1..Len(mapping)
    BY <1>7, <1>8, <2>1
  <2>3. PICK j \in 1..Len(rows) : g[j] = w
    BY <1>3, <2>2 DEF Selects
  <2>4. rows[j] = mapping[w]
    BY <1>3, <2>3 DEF Selects
  <2>5. rows[j] \in B
    BY <1>7, <2>1, <2>4
  <2>6. PICK i \in 1..size : k[i] = j
    BY <1>4, <2>5 DEF Selects
  <2>7. h[i] = [row |-> w, group |-> TrimSpace(mapping[w].group)]
    BY <1>11, <2>3, <2>4, <2>6
  <2> HIDE DEF h
  <2> QED BY <2>1, <2>7
<1>15. \A i \in 1..size : placed[i].group = h[i].group /\ placed[i].key = stringify(feature.key)
  BY <1>10
<1>16. PlacedFor(h, placed, J, stringify(feature.key))
  <2> HIDE DEF h, J, size
  <2> QED BY <1>9, <1>12, <1>13, <1>14, <1>15 DEF PlacedFor
<1>17. Len(grouped) <= Len(rows)
  <2> DEFINE D == {i \in 1..Len(rows) : rows[i] \in B}
  <2>1. Cardinality(D) = Len(grouped)
    BY <1>2, KeptLength DEF grouped
  <2>2. IsFiniteSet(1..Len(rows)) /\ Cardinality(1..Len(rows)) = Len(rows)
    <3> DEFINE len == Len(rows)
    <3>1. len \in Nat
      BY <1>8
    <3> HIDE DEF len
    <3>2. IsFiniteSet(1..len) /\ Cardinality(1..len) = len
      BY <3>1, FS_Interval
    <3> QED BY <3>2 DEF len
  <2>3. D \in SUBSET (1..Len(rows))
    OBVIOUS
  <2> HIDE DEF D
  <2> QED BY <2>1, <2>2, <2>3, FS_Subset
<1>18. joined.emptyKeys \in Nat
  BY <1>6, <1>8, <1>17
<1>19. ASSUME rows # <<>>, J = {} PROVE joined.emptyKeys >= 1
  <2>1. size = 0
    <3>1. 1 \notin 1..size
      <4> HIDE DEF h, J
      <4> QED BY <1>12, <1>19
    <3> QED BY <1>8, <3>1
  <2>2. Len(rows) >= 1
    BY <1>2, <1>19
  <2> QED BY <1>6, <1>8, <2>1, <2>2
<1>20. ASSUME rows = <<>> PROVE J = {}
  <2> SUFFICES ASSUME NEW r \in J PROVE FALSE
    OBVIOUS
  <2>1. PICK i \in 1..size : h[i] = r
    BY <1>14
  <2>2. k[i] \in 1..Len(rows)
    BY <1>11
  <2>3. Len(rows) = 0
    BY <1>20
  <2> QED BY <2>2, <2>3
<1> HIDE DEF h
<1> QED BY <1>9, <1>16, <1>18, <1>19, <1>20 DEF placed, JoinAccounts

AreOptions(opts) ==
  /\ opts.features \in Seq(ToSet(opts.features))
  /\ \A f \in DOMAIN opts.features : opts.features[f].geometry \in Seq(Seq(Seq(Int \X Int)))
  /\ opts.mapping # NoMapping => opts.mapping \in Seq(ToSet(opts.mapping))

HasRing(feature) == \E p \in DOMAIN feature.geometry : feature.geometry[p] # <<>>

\* What Build makes of a feature with these joins.
Accounts(fate, feature, joins) ==
  /\ fate.placed \in Seq({fate.placed[i] : i \in DOMAIN fate.placed})
  /\ \E h : PlacedFor(h, fate.placed, joins, stringify(feature.key))
  /\ fate.emptyKeys \in Nat /\ fate.warnings \in Nat
  /\ joins = {} /\ HasRing(feature) =>
       fate.emptyKeys >= 1 \/ fate.warnings >= 1 \/ feature.key \in fate.unmatched
  /\ joins # {} => stringify(feature.key) = feature.key

LEMMA NothingPlaced ==
  ASSUME NEW key
  PROVE  /\ <<>> \in Seq({<<>>[i] : i \in DOMAIN <<>>})
         /\ \E h : PlacedFor(h, <<>>, {}, key)
<1>1. PlacedFor([i \in {} |-> i], <<>>, {}, key)
  BY DEF PlacedFor
<1> QED BY <1>1

LEMMA FateAccounts ==
  ASSUME NEW opts, AreOptions(opts), NEW f \in DOMAIN opts.features
  PROVE  Accounts(Fate(opts, opts.features[f]), opts.features[f], RowsJoining(opts, f))
<1> DEFINE feature == opts.features[f]
           key == stringify(feature.key)
           repaired == Repair(feature.geometry)
           rows == Index(opts.mapping, normalizeKey(key))
           joined == Join(opts, feature, repaired.geometry, rows)
           warned == [Nothing EXCEPT !.warnings = repaired.warnings]
           fate == Fate(opts, feature)
           joins == RowsJoining(opts, f)
           Own == [row |-> 1, group |-> PrefixGroup(key, opts.prefix)]
<1>1. /\ repaired.warnings \in Nat
      /\ HasRing(feature) /\ repaired.geometry = <<>> => repaired.warnings >= 1
  <2>1. feature.geometry \in Seq(Seq(Seq(Int \X Int)))
    BY DEF AreOptions
  <2> QED BY <2>1, RepairWarns DEF HasRing
<1>2. key # <<>> => key = feature.key
  BY DEF stringify
<1>3. fate = IF key = <<>> THEN [Nothing EXCEPT !.emptyKeys = 1]
             ELSE IF repaired.geometry = <<>> THEN warned
             ELSE IF opts.mapping = NoMapping
                  THEN [warned EXCEPT !.placed =
                          <<Placed(PrefixGroup(key, opts.prefix), feature, repaired.geometry, feature.fields)>>]
             ELSE IF normalizeKey(key) = <<>> \/ rows = <<>> THEN [warned EXCEPT !.unmatched = {key}]
             ELSE [warned EXCEPT !.used = {normalizeKey(key)},
                                 !.emptyKeys = joined.emptyKeys, !.placed = joined.placed]
  BY DEF Fate, FateOf
<1>4. joins = IF key = <<>> \/ repaired.geometry = <<>> THEN {}
              ELSE IF opts.mapping = NoMapping THEN {Own}
              ELSE IF normalizeKey(key) = <<>> THEN {} ELSE JoinsOf(opts.mapping, normalizeKey(key))
  <2> DEFINE m == opts.mapping
             k == normalizeKey(key)
             Row(w) == [row |-> w, group |-> TrimSpace(m[w].group)]
             Fits(w) == normalizeKey(m[w].key) = k /\ TrimSpace(m[w].group) # <<>>
  <2>1. joins = IF key = <<>> \/ repaired.geometry = <<>> THEN {}
                ELSE IF m = NoMapping THEN {Own}
                ELSE {Row(w) : w \in {w \in DOMAIN m : k # <<>> /\ normalizeKey(m[w].key) = k /\ TrimSpace(m[w].group) # <<>>}}
    BY DEF RowsJoining
  <2>2. JoinsOf(m, k) = {Row(w) : w \in {w \in DOMAIN m : Fits(w)}}
    BY DEF JoinsOf
  <2>3. k = <<>> => {Row(w) : w \in {w \in DOMAIN m : k # <<>> /\ Fits(w)}} = {}
    <3> HIDE DEF Fits, Row, m, k
    <3> QED OBVIOUS
  <2>4. k # <<>> => {w \in DOMAIN m : k # <<>> /\ Fits(w)} = {w \in DOMAIN m : Fits(w)}
    <3> HIDE DEF Fits, Row, m, k
    <3> QED OBVIOUS
  <2>5. {w \in DOMAIN m : k # <<>> /\ Fits(w)} =
        {w \in DOMAIN m : k # <<>> /\ normalizeKey(m[w].key) = k /\ TrimSpace(m[w].group) # <<>>}
    <3> HIDE DEF m, k
    <3> QED OBVIOUS
  <2> HIDE DEF m, k, Fits, Row, Own, repaired, key, joins
  <2>6. {Row(w) : w \in {w \in DOMAIN m : k # <<>> /\ normalizeKey(m[w].key) = k /\ TrimSpace(m[w].group) # <<>>}} =
        {Row(w) : w \in {w \in DOMAIN m : k # <<>> /\ Fits(w)}}
    BY <2>5
  <2>7. k # <<>> => {Row(w) : w \in {w \in DOMAIN m : k # <<>> /\ Fits(w)}} = JoinsOf(m, k)
    BY <2>2, <2>4
  <2>8. joins = IF key = <<>> \/ repaired.geometry = <<>> THEN {}
                ELSE IF m = NoMapping THEN {Own}
                ELSE IF k = <<>> THEN {} ELSE JoinsOf(m, k)
    BY <2>1, <2>3, <2>6, <2>7
  <2> QED BY <2>8 DEF m, k
<1>5. Nothing = [emptyKeys |-> 0, warnings |-> 0, unmatched |-> {}, used |-> {}, placed |-> <<>>]
  BY DEF Nothing
<1>6. /\ <<>> \in Seq({<<>>[i] : i \in DOMAIN <<>>})
      /\ \E h : PlacedFor(h, <<>>, {}, key)
  BY NothingPlaced
<1> SUFFICES Accounts(fate, feature, joins)
  OBVIOUS
<1> HIDE DEF feature, key, repaired, rows, joined, fate, joins
<1>7. ASSUME fate.placed = <<>>, joins = {}, fate.emptyKeys \in Nat, fate.warnings \in Nat,
             HasRing(feature) => fate.emptyKeys >= 1 \/ fate.warnings >= 1 \/ feature.key \in fate.unmatched
      PROVE  Accounts(fate, feature, joins)
  BY <1>6, <1>7 DEF Accounts, key
<1>8. CASE key = <<>>
  <2>1. fate = [emptyKeys |-> 1, warnings |-> 0, unmatched |-> {}, used |-> {}, placed |-> <<>>]
    BY <1>3, <1>5, <1>8
  <2>2. joins = {}
    BY <1>4, <1>8
  <2> QED BY <1>7, <2>1, <2>2
<1>9. CASE key # <<>> /\ repaired.geometry = <<>>
  <2>1. fate = [emptyKeys |-> 0, warnings |-> repaired.warnings, unmatched |-> {}, used |-> {}, placed |-> <<>>]
    BY <1>3, <1>5, <1>9
  <2>2. joins = {}
    BY <1>4, <1>9
  <2> QED BY <1>1, <1>7, <1>9, <2>1, <2>2
<1>10. CASE key # <<>> /\ repaired.geometry # <<>> /\ opts.mapping = NoMapping
  <2> DEFINE member == Placed(PrefixGroup(key, opts.prefix), feature, repaired.geometry, feature.fields)
             h == [i \in 1..1 |-> Own]
  <2>1. fate = [emptyKeys |-> 0, warnings |-> repaired.warnings, unmatched |-> {}, used |-> {}, placed |-> <<member>>]
    BY <1>3, <1>5, <1>10
  <2>2. joins = {Own}
    BY <1>4, <1>10
  <2>3. member.group = Own.group /\ member.key = key
    BY DEF Placed, key
  <2> HIDE DEF member, Own
  <2>4. PlacedFor(h, <<member>>, {Own}, key)
    BY <2>3 DEF PlacedFor
  <2>5. <<member>> \in Seq({<<member>>[i] : i \in DOMAIN <<member>>})
    OBVIOUS
  <2>6. fate.placed = <<member>> /\ fate.emptyKeys = 0 /\ fate.warnings = repaired.warnings
    BY <2>1
  <2> HIDE DEF h
  <2> QED BY <1>1, <1>2, <1>10, <2>2, <2>4, <2>5, <2>6 DEF Accounts, key
<1>11. CASE key # <<>> /\ repaired.geometry # <<>> /\ opts.mapping # NoMapping
  <2> DEFINE m == opts.mapping
             k == normalizeKey(key)
  <2>1. JoinAccounts(joined, rows, JoinsOf(m, k), key)
    <3>1. m \in Seq(ToSet(m))
      BY <1>11 DEF AreOptions
    <3> DEFINE T == ToSet(m)
               geometry == repaired.geometry
    <3>2. rows = Index(m, k) /\ joined = Join(opts, feature, geometry, rows) /\ key = stringify(feature.key)
      BY DEF rows, joined, key
    <3> HIDE DEF m, k, T, geometry
    <3>3. m \in Seq(T)
      BY <3>1 DEF T
    <3> QED BY <3>2, <3>3, JoinPlaces
  <2>2. joins = IF k = <<>> THEN {} ELSE JoinsOf(m, k)
    BY <1>4, <1>11
  <2>3. CASE k = <<>> \/ rows = <<>>
    <3>1. fate = [emptyKeys |-> 0, warnings |-> repaired.warnings, unmatched |-> {key}, used |-> {}, placed |-> <<>>]
      BY <1>3, <1>5, <1>11, <2>3
    <3>2. joins = {}
      BY <2>1, <2>2, <2>3 DEF JoinAccounts
    <3>3. feature.key \in fate.unmatched /\ fate.placed = <<>> /\ fate.emptyKeys = 0 /\ fate.warnings = repaired.warnings
      BY <1>2, <1>11, <3>1
    <3> QED BY <1>1, <1>7, <3>2, <3>3
  <2>4. CASE k # <<>> /\ rows # <<>>
    <3>1. fate = [emptyKeys |-> joined.emptyKeys, warnings |-> repaired.warnings, unmatched |-> {},
                  used |-> {k}, placed |-> joined.placed]
      BY <1>3, <1>5, <1>11, <2>4
    <3>2. joins = JoinsOf(m, k)
      BY <2>2, <2>4
    <3>3. fate.placed = joined.placed /\ fate.emptyKeys = joined.emptyKeys /\ fate.warnings = repaired.warnings
      BY <3>1
    <3> HIDE DEF m, k
    <3> QED BY <1>1, <1>2, <1>11, <2>1, <2>4, <3>2, <3>3 DEF Accounts, JoinAccounts, key
  <2> QED BY <2>3, <2>4
<1> QED BY <1>8, <1>9, <1>10, <1>11

\* The joins of the first k features.
Tag(f, j) == [feature |-> f, row |-> j.row, group |-> j.group]

Tagged(joins, k) == UNION {{Tag(f, j) : j \in joins[f]} : f \in 1..k}

\* The members placed are those of the joins of the first k features.
AllPlaced(h, s, joins, k, key) ==
  /\ h \in [1..Len(s) -> Tagged(joins, k)]
  /\ \A i, j \in 1..Len(s) : h[i] = h[j] => i = j
  /\ \A r \in Tagged(joins, k) : \E i \in 1..Len(s) : h[i] = r
  /\ \A i \in 1..Len(s) : s[i].group = h[i].group /\ s[i].key = key[h[i].feature]

\* Each feature has its members, and joins are pairs.
EachPlaced(ss, joins, key) ==
  \A i \in 1..Len(ss) : /\ \E h : PlacedFor(h, ss[i], joins[i], key[i])
                        /\ \A j \in joins[i] : j = [row |-> j.row, group |-> j.group]

LEMMA TaggedNext ==
  ASSUME NEW joins, NEW k \in Nat
  PROVE  \A r : r \in Tagged(joins, k + 1) <=> r \in Tagged(joins, k) \/ \E j \in joins[k + 1] : r = Tag(k + 1, j)
<1>1. \A f : f \in 1..(k + 1) <=> f \in 1..k \/ f = k + 1
  OBVIOUS
<1>2. ASSUME NEW r PROVE r \in Tagged(joins, k + 1) <=> \E f \in 1..(k + 1) : \E j \in joins[f] : r = Tag(f, j)
  BY DEF Tagged
<1>3. ASSUME NEW r PROVE r \in Tagged(joins, k) <=> \E f \in 1..k : \E j \in joins[f] : r = Tag(f, j)
  BY DEF Tagged
<1> QED BY <1>1, <1>2, <1>3

LEMMA TaggedFeature ==
  ASSUME NEW joins, NEW k \in Nat, NEW r \in Tagged(joins, k)
  PROVE  r.feature \in 1..k /\ \E j \in joins[r.feature] : r = Tag(r.feature, j)
<1>1. PICK f \in 1..k : \E j \in joins[f] : r = Tag(f, j)
  BY DEF Tagged
<1>2. r.feature = f
  BY <1>1 DEF Tag
<1> QED BY <1>1, <1>2

LEMMA AppendPlaces ==
  ASSUME NEW T, NEW s \in Seq(T), NEW t \in Seq(T), NEW joins, NEW key, NEW k \in Nat,
         NEW h, AllPlaced(h, s, joins, k, key),
         NEW e, PlacedFor(e, t, joins[k + 1], key[k + 1]),
         \A j \in joins[k + 1] : j = [row |-> j.row, group |-> j.group]
  PROVE  \E g : AllPlaced(g, s \o t, joins, k + 1, key)
<1> DEFINE u == s \o t
           m == Len(s)
           size == Len(t)
           x(i) == Tag(k + 1, e[i - m])
           g == [i \in 1..Len(u) |-> IF i <= m THEN h[i] ELSE x(i)]
           A == Tagged(joins, k)
           B == Tagged(joins, k + 1)
           J == joins[k + 1]
<1>1. /\ u \in Seq(T) /\ Len(u) = m + size
      /\ \A i \in 1..m : u[i] = s[i]
      /\ \A i \in 1..size : u[m + i] = t[i]
  BY ConcatFacts
<1>2. m \in Nat /\ size \in Nat
  OBVIOUS
<1>3. \A r : r \in B <=> r \in A \/ \E j \in J : r = Tag(k + 1, j)
  BY TaggedNext
<1>4. /\ h \in [1..m -> A]
      /\ \A i, j \in 1..m : h[i] = h[j] => i = j
      /\ \A r \in A : \E i \in 1..m : h[i] = r
      /\ \A i \in 1..m : s[i].group = h[i].group /\ s[i].key = key[h[i].feature]
  BY DEF AllPlaced
<1>5. /\ e \in [1..size -> J]
      /\ \A i, j \in 1..size : e[i] = e[j] => i = j
      /\ \A r \in J : \E i \in 1..size : e[i] = r
      /\ \A i \in 1..size : t[i].group = e[i].group /\ t[i].key = key[k + 1]
  BY DEF PlacedFor
<1>6. \A r \in A : r.feature # k + 1
  <2>1. \A r \in A : r.feature \in 1..k
    BY TaggedFeature
  <2> HIDE DEF A
  <2> QED BY <2>1
<1> HIDE DEF u, A, B, m, size
<1>7. \A i \in 1..(m + size) : (i <= m => i \in 1..m) /\ (~(i <= m) => i - m \in 1..size /\ i = m + (i - m))
  <2> SUFFICES ASSUME NEW i \in 1..(m + size)
               PROVE  (i <= m => i \in 1..m) /\ (~(i <= m) => i - m \in 1..size /\ i = m + (i - m))
    OBVIOUS
  <2>1. i \in Int /\ 1 <= i /\ i <= m + size
    BY <1>2
  <2> QED BY <1>2, <2>1
<1>8. \A j \in J : Tag(k + 1, j).feature = k + 1 /\ Tag(k + 1, j).row = j.row /\ Tag(k + 1, j).group = j.group
  BY DEF Tag
<1>9. \A i, j \in J : Tag(k + 1, i) = Tag(k + 1, j) => i = j
  <2> SUFFICES ASSUME NEW i \in J, NEW j \in J, Tag(k + 1, i) = Tag(k + 1, j) PROVE i = j
    OBVIOUS
  <2>1. i.row = j.row /\ i.group = j.group
    BY <1>8
  <2>2. i = [row |-> i.row, group |-> i.group] /\ j = [row |-> j.row, group |-> j.group]
    OBVIOUS
  <2> QED BY <2>1, <2>2
<1> HIDE DEF J
<1>10. \A i \in 1..(m + size) : g[i] = IF i <= m THEN h[i] ELSE x(i)
  BY <1>1
<1>11. DOMAIN g = 1..(m + size)
  BY <1>1
<1>g. g = [i \in 1..(m + size) |-> g[i]]
  BY <1>1
<1> HIDE DEF g
<1>12. ASSUME NEW i \in 1..(m + size), i <= m
       PROVE  /\ g[i] \in A /\ g[i].feature # k + 1 /\ g[i] = h[i] /\ i \in 1..m
              /\ u[i].group = g[i].group /\ u[i].key = key[g[i].feature]
  <2>1. i \in 1..m
    BY <1>7, <1>12
  <2>2. g[i] = h[i]
    BY <1>10, <1>12
  <2> QED BY <1>1, <1>4, <1>6, <2>1, <2>2
<1>13. ASSUME NEW i \in 1..(m + size), ~(i <= m)
       PROVE  /\ i - m \in 1..size /\ e[i - m] \in J /\ g[i] = Tag(k + 1, e[i - m]) /\ g[i].feature = k + 1
              /\ u[i].group = g[i].group /\ u[i].key = key[g[i].feature]
  <2>1. i - m \in 1..size /\ u[i] = t[i - m]
    BY <1>1, <1>7, <1>13
  <2>2. g[i] = Tag(k + 1, e[i - m]) /\ e[i - m] \in J
    BY <1>5, <1>10, <1>13, <2>1
  <2> QED BY <1>5, <1>8, <2>1, <2>2
<1>14. g \in [1..(m + size) -> B]
  <2>1. \A i \in 1..(m + size) : g[i] \in B
    BY <1>3, <1>12, <1>13
  <2> QED BY <1>g, <2>1
<1>15. \A i, j \in 1..(m + size) : g[i] = g[j] => i = j
  <2> SUFFICES ASSUME NEW i \in 1..(m + size), NEW j \in 1..(m + size), g[i] = g[j] PROVE i = j
    OBVIOUS
  <2>1. CASE i <= m /\ j <= m
    BY <1>4, <1>12, <2>1
  <2>2. CASE ~(i <= m) /\ ~(j <= m)
    <3>1. e[i - m] = e[j - m] /\ i - m \in 1..size /\ j - m \in 1..size
      BY <1>9, <1>13, <2>2
    <3>2. i - m = j - m
      BY <1>5, <3>1
    <3> QED BY <1>2, <3>2
  <2>3. CASE (i <= m) # (j <= m)
    BY <1>12, <1>13, <2>3
  <2> QED BY <2>1, <2>2, <2>3
<1>16. \A r \in B : \E i \in 1..(m + size) : g[i] = r
  <2> SUFFICES ASSUME NEW r \in B PROVE \E i \in 1..(m + size) : g[i] = r
    OBVIOUS
  <2>1. CASE r \in A
    <3>1. PICK i \in 1..m : h[i] = r
      BY <1>4, <2>1
    <3>2. i \in 1..(m + size) /\ i <= m
      BY <1>2
    <3> QED BY <1>10, <3>1, <3>2
  <2>2. ASSUME NEW j \in J, r = Tag(k + 1, j) PROVE \E i \in 1..(m + size) : g[i] = r
    <3>1. PICK i \in 1..size : e[i] = j
      BY <1>5
    <3>2. m + i \in 1..(m + size) /\ ~(m + i <= m) /\ (m + i) - m = i
      BY <1>2
    <3>3. g[m + i] = r
      BY <1>13, <2>2, <3>1, <3>2
    <3> QED BY <3>2, <3>3
  <2> QED BY <1>3, <2>1, <2>2
<1>17. AllPlaced(g, u, joins, k + 1, key)
  <2>1. \A i \in 1..(m + size) : u[i].group = g[i].group /\ u[i].key = key[g[i].feature]
    BY <1>12, <1>13
  <2> QED BY <1>1, <1>14, <1>15, <1>16, <2>1 DEF AllPlaced, B
<1> QED BY <1>17 DEF u

LEMMA ChainPlaces ==
  ASSUME NEW T, NEW ss \in Seq(Seq(T)), NEW f \in [0..Len(ss) -> Seq(T)], Concatenates(f, ss),
         NEW joins, NEW key, EachPlaced(ss, joins, key)
  PROVE  \E h : AllPlaced(h, f[Len(ss)], joins, Len(ss), key)
<1> DEFINE N == Len(ss)
           Q == Seq(T)
           P(k) == \E h : AllPlaced(h, f[k], joins, k, key)
           S == {k \in Nat : k <= N => P(k)}
<1>1. N \in Nat /\ f[0] = <<>> /\ \A i \in 1..N : ss[i] \in Q /\ f[i] = f[i - 1] \o ss[i]
  <2>1. N \in Nat /\ \A i \in 1..N : ss[i] \in Q
    OBVIOUS
  <2> QED BY <2>1 DEF Concatenates
<1>2. P(0)
  <2>1. Tagged(joins, 0) = {}
    BY DEF Tagged
  <2>2. AllPlaced([i \in {} |-> i], <<>>, joins, 0, key)
    BY <2>1 DEF AllPlaced
  <2> QED BY <1>1, <2>2
<1>3. 0 \in S
  BY <1>2
<1>4. ASSUME NEW k \in Nat \cap S PROVE k + 1 \in S
  <2>1. k \in Nat /\ k + 1 \in Nat /\ (k <= N => P(k))
    OBVIOUS
  <2>2. (k + 1 <= N => P(k + 1)) => k + 1 \in S
    BY <2>1
  <2> HIDE DEF P, S
  <2> SUFFICES ASSUME k + 1 <= N PROVE P(k + 1)
    BY <2>2
  <2>3. k + 1 \in 1..N /\ (k + 1) - 1 = k /\ k \in 0..N /\ k <= N
    BY <1>1, <2>1
  <2>4. f[k + 1] = f[k] \o ss[k + 1] /\ f[k] \in Q /\ ss[k + 1] \in Q
    BY <1>1, <2>3 DEF N, Q
  <2>5. PICK h : AllPlaced(h, f[k], joins, k, key)
    BY <2>1, <2>3 DEF P
  <2>6. /\ \E e : PlacedFor(e, ss[k + 1], joins[k + 1], key[k + 1])
        /\ \A j \in joins[k + 1] : j = [row |-> j.row, group |-> j.group]
    BY <2>3 DEF EachPlaced, N
  <2>7. PICK e : PlacedFor(e, ss[k + 1], joins[k + 1], key[k + 1])
    BY <2>6
  <2>8. \E g : AllPlaced(g, f[k] \o ss[k + 1], joins, k + 1, key)
    <3> DEFINE a == f[k]
               b == ss[k + 1]
    <3>1. a \in Seq(T) /\ b \in Seq(T) /\ AllPlaced(h, a, joins, k, key) /\ PlacedFor(e, b, joins[k + 1], key[k + 1])
      BY <2>4, <2>5, <2>7 DEF Q
    <3> HIDE DEF a, b
    <3> QED BY <2>1, <2>6, <3>1, AppendPlaces DEF a, b
  <2> QED BY <2>4, <2>8 DEF P
<1>5. \A k \in Nat : k \in S
  <2> HIDE DEF S
  <2> QED BY <1>3, <1>4, Induction
<1>6. P(N)
  <2> HIDE DEF P
  <2> QED BY <1>1, <1>5
<1> QED BY <1>6

Fates(opts) == [f \in DOMAIN opts.features |-> Fate(opts, opts.features[f])]

Members(opts) == FlattenSeq([f \in DOMAIN Fates(opts) |-> Fates(opts)[f].placed])

\* The members are the joins of the options, one each.
MembersPlaced(h, s, opts) ==
  /\ s \in Seq(ToSet(s)) /\ Len(s) \in Nat
  /\ h \in [1..Len(s) -> Joins(opts)]
  /\ \A i, j \in 1..Len(s) : h[i] = h[j] => i = j
  /\ \A r \in Joins(opts) : \E i \in 1..Len(s) : h[i] = r
  /\ \A i \in 1..Len(s) : s[i].group = h[i].group /\ s[i].key = opts.features[h[i].feature].key

InGroup(s, g) == {p \in ToSet(s) : p.group = g}

JoinsTo(opts, g) == {j \in Joins(opts) : j.group = g}

Names(members) == {members[m].key : m \in DOMAIN members}

NamesOf(opts, g) == {opts.features[j.feature].key : j \in JoinsTo(opts, g)}

LEMMA RowsArePairs ==
  ASSUME NEW opts, NEW f, NEW j \in RowsJoining(opts, f)
  PROVE  j = [row |-> j.row, group |-> j.group]
BY DEF RowsJoining

LEMMA SequencesOver ==
  ASSUME NEW X, NEW T, X \subseteq T, NEW s \in Seq(X)
  PROVE  s \in Seq(T)
OBVIOUS

LEMMA BuildPlaces ==
  ASSUME NEW opts, AreOptions(opts)
  PROVE  \E h : MembersPlaced(h, Members(opts), opts)
<1> DEFINE fs == opts.features
           N == Len(fs)
           fate == Fates(opts)
           ss == [f \in 1..N |-> fate[f].placed]
           joins == [f \in 1..N |-> RowsJoining(opts, f)]
           key == [f \in 1..N |-> stringify(fs[f].key)]
           X(f) == {fate[f].placed[i] : i \in DOMAIN fate[f].placed}
           T == UNION {X(f) : f \in 1..N}
           placed == Members(opts)
<1>1. N \in Nat /\ DOMAIN fs = 1..N
  BY DEF AreOptions
<1>2. DOMAIN fate = 1..N /\ \A f \in 1..N : fate[f] = Fate(opts, fs[f])
  BY <1>1 DEF Fates
<1>3. placed = FlattenSeq(ss)
  BY <1>2 DEF Members
<1>4. \A f \in 1..N : Accounts(fate[f], fs[f], RowsJoining(opts, f))
  BY <1>1, <1>2, FateAccounts
<1> HIDE DEF fs, N, fate, placed
<1>5. \A f \in 1..N : fate[f].placed \in Seq(T)
  <2> SUFFICES ASSUME NEW f \in 1..N PROVE fate[f].placed \in Seq(T)
    OBVIOUS
  <2>1. fate[f].placed \in Seq(X(f))
    BY <1>4 DEF Accounts
  <2>2. X(f) \subseteq T
    OBVIOUS
  <2> HIDE DEF X, T
  <2> QED BY <2>1, <2>2, SequencesOver
<1> HIDE DEF X, T
<1>6. ss \in Seq(Seq(T)) /\ Len(ss) = N
  BY <1>1, <1>5
<1>7. EachPlaced(ss, joins, key)
  <2> SUFFICES ASSUME NEW f \in 1..N
               PROVE  /\ \E h : PlacedFor(h, ss[f], joins[f], key[f])
                      /\ \A j \in joins[f] : j = [row |-> j.row, group |-> j.group]
    BY <1>6 DEF EachPlaced
  <2>1. ss[f] = fate[f].placed /\ joins[f] = RowsJoining(opts, f) /\ key[f] = stringify(fs[f].key)
    OBVIOUS
  <2>2. \E h : PlacedFor(h, fate[f].placed, RowsJoining(opts, f), stringify(fs[f].key))
    BY <1>4 DEF Accounts
  <2> HIDE DEF ss, joins, key
  <2> QED BY <2>1, <2>2, RowsArePairs
<1>8. \A f \in 1..N : joins[f] = RowsJoining(opts, f) /\ (joins[f] # {} => key[f] = fs[f].key)
  BY <1>4 DEF Accounts
<1> HIDE DEF ss, joins, key
<1>9. PICK c \in [0..Len(ss) -> Seq(T)] : Concatenates(c, ss) /\ FlattenSeq(ss) = c[Len(ss)]
  BY <1>6, FlattenChain
<1>10. PICK h : AllPlaced(h, c[Len(ss)], joins, Len(ss), key)
  BY <1>6, <1>7, <1>9, ChainPlaces
<1>11. AllPlaced(h, placed, joins, N, key)
  BY <1>3, <1>6, <1>9, <1>10
<1>12. placed \in Seq(T)
  BY <1>1, <1>3, <1>6, <1>9
<1>13. Tagged(joins, N) = Joins(opts)
  <2>1. Tagged(joins, N) = UNION {{Tag(f, j) : j \in RowsJoining(opts, f)} : f \in 1..N}
    BY <1>8 DEF Tagged
  <2>2. Joins(opts) = UNION {{Tag(f, j) : j \in RowsJoining(opts, f)} : f \in DOMAIN fs}
    BY DEF Joins, Tag, fs
  <2> QED BY <1>1, <2>1, <2>2 DEF fs, N
<1>14. \A i \in 1..Len(placed) : h[i] \in Joins(opts) /\ key[h[i].feature] = fs[h[i].feature].key
  <2> SUFFICES ASSUME NEW i \in 1..Len(placed) PROVE h[i] \in Joins(opts) /\ key[h[i].feature] = fs[h[i].feature].key
    OBVIOUS
  <2>1. h[i] \in Tagged(joins, N)
    BY <1>11 DEF AllPlaced
  <2>2. h[i].feature \in 1..N /\ joins[h[i].feature] # {}
    BY <1>1, <2>1, TaggedFeature DEF fs, N
  <2> QED BY <1>8, <1>13, <2>1, <2>2
<1>15. placed \in Seq(ToSet(placed)) /\ Len(placed) \in Nat
  BY <1>12 DEF ToSet
<1>16. MembersPlaced(h, placed, opts)
  BY <1>11, <1>13, <1>14, <1>15 DEF AllPlaced, MembersPlaced, fs
<1> QED BY <1>16 DEF placed

LEMMA MembersCounted ==
  ASSUME NEW opts, NEW s, NEW h, MembersPlaced(h, s, opts), NEW g
  PROVE  Len(Kept(s, InGroup(s, g))) = Cardinality(JoinsTo(opts, g))
<1> DEFINE S == InGroup(s, g)
           size == Len(s)
           D == {i \in 1..size : s[i] \in S}
           Of == JoinsTo(opts, g)
           b == [i \in D |-> h[i]]
           T == ToSet(s)
<1>1. size \in Nat /\ s \in Seq(T)
  BY DEF MembersPlaced
<1>2. \A i \in 1..size : s[i] \in S <=> s[i].group = g
  BY <1>1 DEF ToSet, InGroup
<1> HIDE DEF S, T
<1>3. IsFiniteSet(D) /\ Cardinality(D) = Len(Kept(s, S))
  BY <1>1, KeptLength
<1>4. \A i \in D : i \in 1..size /\ h[i] \in Of
  BY <1>2 DEF MembersPlaced, JoinsTo
<1>5. \A j \in Of : \E i \in D : h[i] = j
  BY <1>2 DEF MembersPlaced, JoinsTo
<1>6. \A i, j \in D : h[i] = h[j] => i = j
  BY <1>4 DEF MembersPlaced
<1> HIDE DEF D, Of
<1>7. b \in Bijection(D, Of)
  BY <1>4, <1>5, <1>6 DEF Bijection, Injection, IsInjective, Surjection
<1>8. Cardinality(Of) = Cardinality(D)
  BY <1>3, <1>7, FS_Bijection DEF ExistsBijection
<1> QED BY <1>3, <1>8 DEF S, Of

LEMMA MembersNamed ==
  ASSUME NEW opts, NEW s, NEW h, MembersPlaced(h, s, opts), NEW g,
         NEW members, members = Kept(s, InGroup(s, g))
  PROVE  Names(members) = NamesOf(opts, g)
<1> DEFINE S == InGroup(s, g)
           size == Len(s)
           T == ToSet(s)
<1>1. size \in Nat /\ s \in Seq(T)
  BY DEF MembersPlaced
<1>2. \A i \in 1..size : s[i] \in S <=> s[i].group = g
  BY <1>1 DEF ToSet, InGroup
<1>3. members = Kept(s, S)
  OBVIOUS
<1> HIDE DEF S, T
<1>4. members \in Seq(T)
  BY <1>1, <1>3, KeptType
<1>5. /\ \A m \in 1..Len(members) : members[m] \in S /\ \E i \in 1..size : members[m] = s[i]
      /\ \A i \in 1..size : s[i] \in S => \E m \in 1..Len(members) : members[m] = s[i]
  <2> HIDE DEF size
  <2>1. s \in Seq(T)
    BY <1>1
  <2>2. /\ \A i \in 1..Len(Kept(s, S)) : Kept(s, S)[i] \in S /\ \E j \in 1..Len(s) : Kept(s, S)[i] = s[j]
        /\ \A j \in 1..Len(s) : s[j] \in S => \E i \in 1..Len(Kept(s, S)) : Kept(s, S)[i] = s[j]
    BY <2>1, KeptElements
  <2> QED BY <1>3, <2>2 DEF size
<1>6. DOMAIN members = 1..Len(members)
  BY <1>4
<1>7. ASSUME NEW m \in DOMAIN members
      PROVE  \E j \in Joins(opts) : j.group = g /\ members[m].key = opts.features[j.feature].key
  <2>1. PICK i \in 1..size : members[m] = s[i] /\ s[i].group = g
    BY <1>2, <1>5, <1>6
  <2>2. h[i] \in Joins(opts) /\ s[i].group = h[i].group /\ s[i].key = opts.features[h[i].feature].key
    BY <2>1 DEF MembersPlaced
  <2>3. members[m].key = opts.features[h[i].feature].key /\ h[i].group = g
    BY <2>1, <2>2
  <2> QED BY <2>2, <2>3
<1>8. ASSUME NEW j \in Joins(opts), j.group = g
      PROVE  \E m \in DOMAIN members : members[m].key = opts.features[j.feature].key
  <2>1. PICK i \in 1..size : h[i] = j
    BY DEF MembersPlaced
  <2>2. s[i].group = g /\ s[i].key = opts.features[j.feature].key
    BY <1>8, <2>1 DEF MembersPlaced
  <2>3. PICK m \in 1..Len(members) : members[m] = s[i]
    BY <1>2, <1>5, <2>2
  <2> QED BY <1>6, <2>2, <2>3
<1> DEFINE left == Names(members)
           right == NamesOf(opts, g)
<1>9. left \subseteq right
  BY <1>7 DEF JoinsTo, Names, NamesOf
<1>10. right \subseteq left
  BY <1>8 DEF JoinsTo, Names, NamesOf
<1> QED BY <1>9, <1>10

\* In no territory and not among the unmatched keys, although it has a ring.
Lost(opts, unmatched, f) ==
  /\ RowsJoining(opts, f) = {}
  /\ HasRing(opts.features[f])
  /\ opts.features[f].key \notin unmatched

LEMMA LostAreCounted ==
  ASSUME NEW opts, AreOptions(opts), NEW fate, fate = Fates(opts), NEW unmatched,
         unmatched = UNION {fate[f].unmatched : f \in DOMAIN fate}, NEW e, NEW w,
         e = [f \in DOMAIN fate |-> fate[f].emptyKeys], w = [f \in DOMAIN fate |-> fate[f].warnings]
  PROVE  Cardinality({f \in DOMAIN opts.features : Lost(opts, unmatched, f)}) <= Total(e) + Total(w)
<1> DEFINE fs == opts.features
           N == Len(fs)
           D == {f \in 1..N : Lost(opts, unmatched, f)}
           D1 == {f \in D : e[f] >= 1}
           D2 == {f \in D : w[f] >= 1}
<1>1. N \in Nat /\ DOMAIN fs = 1..N
  BY DEF AreOptions
<1>2. DOMAIN fate = 1..N /\ \A f \in 1..N : fate[f] = Fate(opts, fs[f])
  BY <1>1 DEF Fates
<1>3. \A f \in 1..N : Accounts(fate[f], fs[f], RowsJoining(opts, f))
  BY <1>1, <1>2, FateAccounts
<1> HIDE DEF fs, N
<1>4. \A f \in 1..N : e[f] = fate[f].emptyKeys /\ w[f] = fate[f].warnings
  BY <1>2
<1>5. \A f \in 1..N : e[f] \in Nat /\ w[f] \in Nat
  BY <1>3, <1>4 DEF Accounts
<1>6. e \in Seq(Nat) /\ Len(e) = N /\ w \in Seq(Nat) /\ Len(w) = N
  <2>1. e = [f \in 1..N |-> e[f]] /\ w = [f \in 1..N |-> w[f]]
    BY <1>2
  <2>2. e \in [1..N -> Nat] /\ w \in [1..N -> Nat]
    BY <1>5, <2>1
  <2> QED BY <1>1, <2>2
<1>7. \A f \in D : e[f] >= 1 \/ w[f] >= 1
  <2> SUFFICES ASSUME NEW f \in D PROVE e[f] >= 1 \/ w[f] >= 1
    OBVIOUS
  <2>1. f \in 1..N /\ RowsJoining(opts, f) = {} /\ HasRing(fs[f]) /\ fs[f].key \notin unmatched
    BY DEF Lost, fs
  <2>2. fs[f].key \notin fate[f].unmatched
    BY <1>2, <2>1
  <2>3. fate[f].emptyKeys >= 1 \/ fate[f].warnings >= 1
    BY <1>3, <2>1, <2>2 DEF Accounts
  <2> QED BY <1>4, <2>1, <2>3
<1>8. D1 \subseteq 1..Len(e) /\ (\A i \in D1 : e[i] >= 1) /\ D2 \subseteq 1..Len(w) /\ (\A i \in D2 : w[i] >= 1) /\ D = D1 \cup D2
  BY <1>6, <1>7
<1> HIDE DEF D1, D2, D
<1>9. IsFiniteSet(D1) /\ Total(e) \in Nat /\ Cardinality(D1) <= Total(e)
  BY <1>6, <1>8, TotalCovers
<1>10. IsFiniteSet(D2) /\ Total(w) \in Nat /\ Cardinality(D2) <= Total(w)
  BY <1>6, <1>8, TotalCovers
<1>11. Cardinality(D) = Cardinality(D1) + Cardinality(D2) - Cardinality(D1 \cap D2)
  BY <1>8, <1>9, <1>10, FS_Union
<1>12. Cardinality(D1 \cap D2) \in Nat
  BY <1>9, FS_Intersection, FS_CardinalityType
<1>13. Cardinality(D1) \in Nat /\ Cardinality(D2) \in Nat
  BY <1>9, <1>10, FS_CardinalityType
<1>14. Cardinality(D) <= Total(e) + Total(w)
  BY <1>9, <1>10, <1>11, <1>12, <1>13
<1> QED BY <1>1, <1>14 DEF D, fs

WellAccounted(opts, built) ==
  /\ ~built.err
  /\ {t.id : t \in built.territories} = {j.group : j \in Joins(opts)}
  /\ \A t \in built.territories :
       /\ t.count = Cardinality({j \in Joins(opts) : j.group = t.id})
       /\ t.members = {opts.features[j.feature].key : j \in {j \in Joins(opts) : j.group = t.id}}
  /\ Cardinality({f \in DOMAIN opts.features : Lost(opts, built.unmatched, f)}) <= built.emptyKeys + built.warnings

LEMMA BuildAccounts ==
  ASSUME NEW opts, AreOptions(opts), NEW built, built = Build(opts), ~Rejected(opts)
  PROVE  WellAccounted(opts, built)
<1> DEFINE fate == Fates(opts)
           placed == Members(opts)
           groups == {placed[p].group : p \in DOMAIN placed}
           Of(group) == Kept(placed, InGroup(placed, group))
           e == [f \in DOMAIN fate |-> fate[f].emptyKeys]
           w == [f \in DOMAIN fate |-> fate[f].warnings]
           unmatched == UNION {fate[f].unmatched : f \in DOMAIN fate}
<1>1. built = Collected(opts, fate)
  BY DEF Build, Fates
<1>2. placed = FlattenSeq([f \in DOMAIN fate |-> fate[f].placed])
  BY DEF Members
<1> HIDE DEF fate, placed
<1>3. /\ ~built.err
      /\ built.territories = {buildTerritory(group, Of(group), opts.aggregation) : group \in groups}
      /\ built.emptyKeys = Total(e) /\ built.warnings = Total(w) /\ built.unmatched = unmatched
  BY <1>1, <1>2 DEF Collected, InGroup
<1>4. PICK h : MembersPlaced(h, placed, opts)
  BY BuildPlaces DEF placed
<1>5. groups = {j.group : j \in Joins(opts)}
  <2>1. DOMAIN placed = 1..Len(placed)
    BY <1>4 DEF MembersPlaced
  <2>2. ASSUME NEW p \in DOMAIN placed PROVE \E j \in Joins(opts) : placed[p].group = j.group
    BY <1>4, <2>1 DEF MembersPlaced
  <2>3. ASSUME NEW j \in Joins(opts) PROVE \E p \in DOMAIN placed : j.group = placed[p].group
    <3>1. PICK p \in 1..Len(placed) : h[p] = j
      BY <1>4 DEF MembersPlaced
    <3>2. placed[p].group = j.group
      BY <1>4, <3>1 DEF MembersPlaced
    <3> QED BY <2>1, <3>1, <3>2
  <2> QED BY <2>2, <2>3
<1> HIDE DEF groups, e, w, unmatched, Of
<1>6. \A group : buildTerritory(group, Of(group), opts.aggregation).id = group
  BY DEF buildTerritory
<1>7. {t.id : t \in built.territories} = groups
  BY <1>3, <1>6
<1>8. ASSUME NEW t \in built.territories
      PROVE  /\ t.count = Cardinality({j \in Joins(opts) : j.group = t.id})
             /\ t.members = {opts.features[j.feature].key : j \in {j \in Joins(opts) : j.group = t.id}}
  <2>1. PICK group \in groups : t = buildTerritory(group, Of(group), opts.aggregation)
    BY <1>3
  <2> DEFINE members == Of(group)
  <2>2. t.id = group /\ t.count = Len(members) /\ t.members = {members[m].key : m \in DOMAIN members}
    BY <2>1 DEF buildTerritory
  <2>3. members = Kept(placed, InGroup(placed, group))
    BY DEF Of
  <2>4. Len(Kept(placed, InGroup(placed, group))) = Cardinality(JoinsTo(opts, group))
    BY <1>4, MembersCounted
  <2> HIDE DEF members
  <2>5. Names(members) = NamesOf(opts, group)
    BY <1>4, <2>3, MembersNamed
  <2> QED BY <2>2, <2>3, <2>4, <2>5 DEF JoinsTo, Names, NamesOf
<1>9. Cardinality({f \in DOMAIN opts.features : Lost(opts, unmatched, f)}) <= Total(e) + Total(w)
  BY LostAreCounted DEF fate, e, w, unmatched
<1> QED BY <1>3, <1>5, <1>7, <1>8, <1>9 DEF WellAccounted

-----------------------------------------------------------------------------
(* The order of the features                                                *)

\* q pairs the elements of A off with those of B.
Pairing(q, A, B) ==
  /\ q \in [A -> B]
  /\ \A i, j \in A : q[i] = q[j] => i = j
  /\ \A k \in B : \E i \in A : q[i] = k

LEMMA PairingInverse ==
  ASSUME NEW q, NEW A, NEW B, Pairing(q, A, B)
  PROVE  \E r : Pairing(r, B, A) /\ (\A k \in B : q[r[k]] = k) /\ \A i \in A : r[q[i]] = i
<1> DEFINE r == [k \in B |-> CHOOSE i \in A : q[i] = k]
<1>1. \A k \in B : r[k] \in A /\ q[r[k]] = k
  BY DEF Pairing
<1>2. r \in [B -> A]
  BY <1>1
<1> HIDE DEF r
<1>3. \A i \in A : r[q[i]] = i
  <2> SUFFICES ASSUME NEW i \in A PROVE r[q[i]] = i
    OBVIOUS
  <2>1. q[i] \in B
    BY DEF Pairing
  <2>2. r[q[i]] \in A /\ q[r[q[i]]] = q[i]
    BY <1>1, <2>1
  <2> QED BY <2>2 DEF Pairing
<1>4. \A k, m \in B : r[k] = r[m] => k = m
  BY <1>1
<1>5. \A i \in A : \E k \in B : r[k] = i
  BY <1>3 DEF Pairing
<1> QED BY <1>1, <1>2, <1>3, <1>4, <1>5 DEF Pairing

LEMMA PairingChain ==
  ASSUME NEW q, NEW r, NEW A, NEW B, NEW C, Pairing(q, A, B), Pairing(r, B, C)
  PROVE  Pairing([i \in A |-> r[q[i]]], A, C)
<1> DEFINE h == [i \in A |-> r[q[i]]]
<1>1. \A i \in A : q[i] \in B /\ h[i] = r[q[i]] /\ r[q[i]] \in C
  BY DEF Pairing
<1>2. h \in [A -> C]
  BY <1>1
<1> HIDE DEF h
<1>3. \A i, j \in A : h[i] = h[j] => i = j
  BY <1>1 DEF Pairing
<1>4. ASSUME NEW k \in C PROVE \E i \in A : h[i] = k
  <2>1. PICK b \in B : r[b] = k
    BY DEF Pairing
  <2>2. PICK i \in A : q[i] = b
    BY DEF Pairing
  <2> QED BY <1>1, <2>1, <2>2
<1>5. Pairing(h, A, C)
  BY <1>2, <1>3, <1>4 DEF Pairing
<1> QED BY <1>5 DEF h

\* t has the elements of s in another order.
Rearranged(s, t) == \E q : Pairing(q, 1..Len(t), 1..Len(s)) /\ \A i \in 1..Len(t) : t[i] = s[q[i]]

LEMMA FirstNumbers ==
  ASSUME NEW m \in Nat
  PROVE  IsFiniteSet(1..m) /\ Cardinality(1..m) = m
<1>1. Cardinality(1..m) = IF 1 <= m THEN m - 1 + 1 ELSE 0
  BY FS_Interval
<1>2. IsFiniteSet(1..m)
  BY FS_Interval
<1> QED BY <1>1, <1>2

LEMMA RearrangedLength ==
  ASSUME NEW s, NEW t, Len(s) \in Nat, Len(t) \in Nat, Rearranged(s, t)
  PROVE  Len(s) = Len(t)
<1> DEFINE a == Len(s)
           b == Len(t)
<1>1. PICK q : Pairing(q, 1..b, 1..a)
  BY DEF Rearranged
<1> HIDE DEF a, b
<1>2. a \in Nat /\ b \in Nat
  BY DEF a, b
<1>3. IsFiniteSet(1..a) /\ Cardinality(1..a) = a /\ IsFiniteSet(1..b) /\ Cardinality(1..b) = b
  BY <1>2, FirstNumbers
<1>4. q \in Bijection(1..b, 1..a)
  BY <1>1 DEF Pairing, Bijection, Injection, Surjection, IsInjective
<1>5. Cardinality(1..a) = Cardinality(1..b)
  BY <1>3, <1>4, FS_Bijection DEF ExistsBijection
<1> QED BY <1>3, <1>5 DEF a, b

LEMMA RearrangedSets ==
  ASSUME NEW T, NEW s \in Seq(T), NEW t \in Seq(T), Rearranged(s, t)
  PROVE  ToSet(s) = ToSet(t)
<1>1. PICK q : Pairing(q, 1..Len(t), 1..Len(s)) /\ \A i \in 1..Len(t) : t[i] = s[q[i]]
  BY DEF Rearranged
<1>2. DOMAIN s = 1..Len(s) /\ DOMAIN t = 1..Len(t)
  OBVIOUS
<1> DEFINE a == Len(s)
           b == Len(t)
<1> HIDE DEF a, b
<1>3. Pairing(q, 1..b, 1..a) /\ (\A i \in 1..b : t[i] = s[q[i]]) /\ DOMAIN s = 1..a /\ DOMAIN t = 1..b
  BY <1>1, <1>2 DEF a, b
<1>4. ASSUME NEW x \in ToSet(t) PROVE x \in ToSet(s)
  BY <1>3 DEF ToSet, Pairing
<1>5. ASSUME NEW x \in ToSet(s) PROVE x \in ToSet(t)
  <2>1. PICK k \in 1..a : s[k] = x
    BY <1>3 DEF ToSet
  <2>2. PICK i \in 1..b : q[i] = k
    BY <1>3 DEF Pairing
  <2> QED BY <1>3, <2>1, <2>2 DEF ToSet
<1> QED BY <1>4, <1>5

\* The elements of s are the values of A, one each.
Lists(h, s, A, v) == Pairing(h, 1..Len(s), A) /\ \A i \in 1..Len(s) : s[i] = v[h[i]]

LEMMA RearrangedBy ==
  ASSUME NEW s, NEW t, NEW A, NEW h, NEW k, NEW v, Lists(h, s, A, v), Lists(k, t, A, v)
  PROVE  Rearranged(s, t)
<1> DEFINE m == 1..Len(s)
           w == 1..Len(t)
           q(g) == [i \in w |-> g[k[i]]]
<1>1. /\ Pairing(h, m, A) /\ Pairing(k, w, A)
      /\ (\A i \in m : s[i] = v[h[i]]) /\ \A i \in w : t[i] = v[k[i]]
  BY DEF Lists
<1> HIDE DEF m, w
<1>2. PICK g : Pairing(g, A, m) /\ (\A x \in A : h[g[x]] = x)
  BY <1>1, PairingInverse
<1>3. Pairing(q(g), w, m)
  BY <1>1, <1>2, PairingChain
<1>4. ASSUME NEW i \in w PROVE t[i] = s[q(g)[i]]
  <2>1. k[i] \in A /\ q(g)[i] = g[k[i]]
    BY <1>1 DEF Pairing
  <2>2. h[g[k[i]]] = k[i] /\ g[k[i]] \in m
    BY <1>2, <2>1 DEF Pairing
  <2> HIDE DEF q
  <2> QED BY <1>1, <2>1, <2>2
<1> HIDE DEF q
<1> QED BY <1>3, <1>4 DEF Rearranged, m, w

\* A pairing of the positions pairs what is chosen from them.
LEMMA PairingRestricts ==
  ASSUME NEW q, NEW A, NEW B, Pairing(q, A, B), NEW D \in SUBSET A, NEW E \in SUBSET B,
         \A i \in A : i \in D <=> q[i] \in E
  PROVE  Pairing([i \in D |-> q[i]], D, E)
<1> DEFINE h == [i \in D |-> q[i]]
<1>1. h \in [D -> E] /\ \A i \in D : h[i] = q[i] /\ i \in A
  OBVIOUS
<1> HIDE DEF h
<1>2. \A i, j \in D : h[i] = h[j] => i = j
  BY <1>1 DEF Pairing
<1>3. \A k \in E : \E i \in D : h[i] = k
  BY <1>1 DEF Pairing
<1>4. Pairing(h, D, E)
  BY <1>1, <1>2, <1>3 DEF Pairing
<1> QED BY <1>4 DEF h

\* The positions of what is kept.
Keeps(s, S) == {i \in 1..Len(s) : s[i] \in S}

LEMMA KeptListed ==
  ASSUME NEW T, NEW s \in Seq(T), NEW S
  PROVE  \E g : Lists(g, Kept(s, S), Keeps(s, S), s)
<1> DEFINE r == Kept(s, S)
           m == Len(s)
           D == Keeps(s, S)
<1>1. PICK g : Selects(g, r, s, m, S)
  BY KeptSelects
<1>2. r \in Seq(T)
  BY KeptType
<1>3. Len(r) \in Nat /\ m \in Nat
  BY <1>2
<1>4. D = {i \in 1..m : s[i] \in S}
  BY DEF Keeps
<1> HIDE DEF r, m, D
<1>5. \A i, j \in 1..Len(r) : g[i] = g[j] => i = j
  BY <1>1, <1>3, SelectsInjective
<1>6. g \in [1..Len(r) -> D] /\ \A i \in 1..Len(r) : r[i] = s[g[i]]
  BY <1>1, <1>4 DEF Selects
<1>7. \A j \in D : \E i \in 1..Len(r) : g[i] = j
  BY <1>1, <1>4 DEF Selects
<1>8. Lists(g, r, D, s)
  BY <1>5, <1>6, <1>7 DEF Pairing, Lists
<1> QED BY <1>8 DEF r, D

LEMMA KeptRearranged ==
  ASSUME NEW T, NEW s \in Seq(T), NEW t \in Seq(T), Rearranged(s, t), NEW S
  PROVE  Rearranged(Kept(s, S), Kept(t, S))
<1> DEFINE D == Keeps(s, S)
           E == Keeps(t, S)
           u == Kept(s, S)
           w == Kept(t, S)
<1>1. PICK q : Pairing(q, 1..Len(t), 1..Len(s)) /\ \A i \in 1..Len(t) : t[i] = s[q[i]]
  BY DEF Rearranged
<1>2. PICK g : Lists(g, u, D, s)
  BY KeptListed
<1>3. PICK k : Lists(k, w, E, t)
  BY KeptListed
<1> DEFINE b == [i \in E |-> q[i]]
           c == [i \in 1..Len(w) |-> b[k[i]]]
<1>4. Pairing(b, E, D)
  <2>1. \A i \in 1..Len(t) : q[i] \in 1..Len(s) /\ (i \in E <=> q[i] \in D)
    BY <1>1 DEF Pairing, Keeps
  <2>2. E \in SUBSET (1..Len(t)) /\ D \in SUBSET (1..Len(s))
    BY DEF Keeps
  <2> HIDE DEF D, E
  <2> QED BY <1>1, <2>1, <2>2, PairingRestricts
<1>5. \A x \in E : b[x] = q[x] /\ x \in 1..Len(t)
  BY DEF Keeps
<1> HIDE DEF b, u, w, D, E
<1>6. Pairing(c, 1..Len(w), D)
  BY <1>3, <1>4, PairingChain DEF Lists
<1>7. ASSUME NEW i \in 1..Len(w) PROVE w[i] = s[c[i]]
  <2>1. k[i] \in E /\ w[i] = t[k[i]]
    BY <1>3 DEF Pairing, Lists
  <2>2. c[i] = b[k[i]]
    OBVIOUS
  <2> HIDE DEF c
  <2> QED BY <1>1, <1>5, <2>1, <2>2
<1> HIDE DEF c
<1>8. Lists(c, w, D, s)
  BY <1>6, <1>7 DEF Lists
<1>9. Rearranged(u, w)
  BY <1>2, <1>8, RearrangedBy
<1> QED BY <1>9 DEF u, w

LEMMA MapRearranged ==
  ASSUME NEW s, NEW t, Rearranged(s, t), NEW u, NEW w, Len(u) = Len(s), Len(w) = Len(t),
         \A i \in 1..Len(s), j \in 1..Len(t) : s[i] = t[j] => u[i] = w[j]
  PROVE  Rearranged(u, w)
<1>1. PICK q : Pairing(q, 1..Len(t), 1..Len(s)) /\ \A i \in 1..Len(t) : t[i] = s[q[i]]
  BY DEF Rearranged
<1>2. \A i \in 1..Len(t) : q[i] \in 1..Len(s)
  BY <1>1 DEF Pairing
<1>3. \A i \in 1..Len(w) : w[i] = u[q[i]]
  BY <1>1, <1>2
<1> QED BY <1>1, <1>3 DEF Rearranged

\* The positions in the first m sequences of ss.
Slots(ss, m) == {slot \in (1..m) \X Nat : slot[2] \in 1..Len(ss[slot[1]])}

InSlots(h, s, ss, m) ==
  /\ Pairing(h, 1..Len(s), Slots(ss, m))
  /\ \A i \in 1..Len(s) : s[i] = ss[h[i][1]][h[i][2]]

LEMMA NextSlots ==
  ASSUME NEW T, NEW ss \in Seq(Seq(T)), NEW m \in Nat, m + 1 <= Len(ss), NEW s \in Seq(T), NEW h, InSlots(h, s, ss, m)
  PROVE  \E k : InSlots(k, s \o ss[m + 1], ss, m + 1)
<1> DEFINE t == ss[m + 1]
           u == s \o t
           a == Len(s)
           b == Len(t)
           k == [i \in 1..(a + b) |-> IF i <= a THEN h[i] ELSE <<m + 1, i - a>>]
           A == Slots(ss, m)
           B == Slots(ss, m + 1)
<1>1. t \in Seq(T) /\ a \in Nat /\ b \in Nat
  OBVIOUS
<1>2. Len(u) = a + b /\ (\A i \in 1..a : u[i] = s[i]) /\ \A i \in 1..b : u[a + i] = t[i]
  BY <1>1, ConcatFacts
<1>3. Pairing(h, 1..a, A) /\ \A i \in 1..a : s[i] = ss[h[i][1]][h[i][2]]
  BY DEF InSlots
<1>4. \A x : x \in B <=> x \in A \/ \E i \in 1..b : x = <<m + 1, i>>
  <2>1. ASSUME NEW x \in B PROVE x \in A \/ \E i \in 1..b : x = <<m + 1, i>>
    <3>1. /\ x \in (1..(m + 1)) \X Nat /\ x[2] \in 1..Len(ss[x[1]]) /\ x = <<x[1], x[2]>>
      BY <2>1 DEF Slots
    <3>2. CASE x[1] = m + 1
      BY <3>1, <3>2
    <3>3. CASE x[1] # m + 1
      <4>1. x[1] \in 1..m /\ x[2] \in Nat
        BY <3>1, <3>3
      <4> QED BY <3>1, <4>1 DEF Slots
    <3> QED BY <3>2, <3>3
  <2>2. ASSUME NEW x \in A PROVE x \in B
    BY DEF Slots
  <2>3. ASSUME NEW i \in 1..b PROVE <<m + 1, i>> \in B
    BY <1>1 DEF Slots
  <2> QED BY <2>1, <2>2, <2>3
<1>5. \A x \in A : x[1] # m + 1
  BY DEF Slots
<1> HIDE DEF t, u, a, b, A, B
<1>6. \A i \in 1..a : h[i] \in A
  BY <1>3 DEF Pairing
<1>7. /\ \A i \in 1..a : i \in 1..(a + b) /\ k[i] = h[i]
      /\ \A i \in 1..b : a + i \in 1..(a + b) /\ k[a + i] = <<m + 1, i>>
  BY <1>1
<1>8. \A i \in 1..(a + b) : i \in 1..a \/ \E j \in 1..b : i = a + j
  <2> SUFFICES ASSUME NEW i \in 1..(a + b), i \notin 1..a PROVE \E j \in 1..b : i = a + j
    OBVIOUS
  <2>1. i - a \in 1..b /\ i = a + (i - a)
    BY <1>1
  <2> QED BY <2>1
<1>9. k \in [1..(a + b) -> B]
  <2>1. DOMAIN k = 1..(a + b) /\ k = [i \in 1..(a + b) |-> k[i]]
    OBVIOUS
  <2> HIDE DEF k
  <2>2. \A i \in 1..(a + b) : k[i] \in B
    BY <1>4, <1>6, <1>7, <1>8
  <2> QED BY <2>1, <2>2
<1> HIDE DEF k
<1>10. ASSUME NEW i \in 1..(a + b), NEW j \in 1..(a + b), k[i] = k[j] PROVE i = j
  <2>1. CASE i \in 1..a /\ j \in 1..a
    BY <1>3, <1>7, <1>10, <2>1 DEF Pairing
  <2>2. CASE i \in 1..a /\ j \notin 1..a
    <3>1. PICK y \in 1..b : j = a + y
      BY <1>8, <2>2
    <3>2. h[i] = <<m + 1, y>>
      BY <1>7, <1>10, <2>2, <3>1
    <3>3. h[i][1] = m + 1
      BY <3>2
    <3> QED BY <1>5, <1>6, <2>2, <3>3
  <2>3. CASE i \notin 1..a /\ j \in 1..a
    <3>1. PICK y \in 1..b : i = a + y
      BY <1>8, <2>3
    <3>2. h[j] = <<m + 1, y>>
      BY <1>7, <1>10, <2>3, <3>1
    <3>3. h[j][1] = m + 1
      BY <3>2
    <3> QED BY <1>5, <1>6, <2>3, <3>3
  <2>4. CASE i \notin 1..a /\ j \notin 1..a
    <3>1. PICK x \in 1..b : i = a + x
      BY <1>8, <2>4
    <3>2. PICK y \in 1..b : j = a + y
      BY <1>8, <2>4
    <3>3. <<m + 1, x>> = <<m + 1, y>>
      BY <1>7, <1>10, <3>1, <3>2
    <3> QED BY <3>1, <3>2, <3>3
  <2> QED BY <2>1, <2>2, <2>3, <2>4
<1>11. ASSUME NEW x \in B PROVE \E i \in 1..(a + b) : k[i] = x
  <2>1. CASE x \in A
    <3>1. PICK i \in 1..a : h[i] = x
      BY <1>3, <2>1 DEF Pairing
    <3> QED BY <1>7, <3>1
  <2>2. CASE x \notin A
    BY <1>4, <1>7, <2>2
  <2> QED BY <2>1, <2>2
<1>12. ASSUME NEW i \in 1..(a + b) PROVE u[i] = ss[k[i][1]][k[i][2]]
  <2>1. CASE i \in 1..a
    BY <1>2, <1>3, <1>7, <2>1
  <2>2. CASE i \notin 1..a
    <3>1. PICK j \in 1..b : i = a + j
      BY <1>8, <2>2
    <3>2. k[i] = <<m + 1, j>> /\ u[i] = t[j]
      BY <1>2, <1>7, <3>1
    <3>3. k[i][1] = m + 1 /\ k[i][2] = j
      BY <3>2
    <3> QED BY <3>2, <3>3 DEF t
  <2> QED BY <2>1, <2>2
<1>13. Pairing(k, 1..(a + b), B)
  BY <1>9, <1>10, <1>11 DEF Pairing
<1>14. InSlots(k, u, ss, m + 1)
  BY <1>2, <1>12, <1>13 DEF InSlots, B
<1> QED BY <1>14 DEF u, t

LEMMA FlattenSlots ==
  ASSUME NEW T, NEW ss \in Seq(Seq(T))
  PROVE  FlattenSeq(ss) \in Seq(T) /\ \E h : InSlots(h, FlattenSeq(ss), ss, Len(ss))
<1> DEFINE N == Len(ss)
<1>1. PICK f \in [0..N -> Seq(T)] : Concatenates(f, ss) /\ FlattenSeq(ss) = f[N]
  BY FlattenChain
<1>2. N \in Nat /\ N \in 0..N
  OBVIOUS
<1> DEFINE S == {m \in Nat : m <= N => \E h : InSlots(h, f[m], ss, m)}
<1>3. 0 \in S
  <2> DEFINE h == [i \in {} |-> i]
  <2>1. Slots(ss, 0) = {}
    BY DEF Slots
  <2>2. Len(<<>>) = 0 /\ 1..0 = {}
    OBVIOUS
  <2>3. Pairing(h, {}, {})
    BY DEF Pairing
  <2>4. f[0] = <<>>
    BY <1>1 DEF Concatenates
  <2> HIDE DEF h
  <2>5. InSlots(h, f[0], ss, 0)
    BY <2>1, <2>2, <2>3, <2>4 DEF InSlots
  <2> QED BY <2>5
<1>4. ASSUME NEW m \in Nat \cap S PROVE m + 1 \in S
  <2> SUFFICES ASSUME m + 1 <= N PROVE \E h : InSlots(h, f[m + 1], ss, m + 1)
    OBVIOUS
  <2>1. m \in Nat /\ m \in 0..N /\ m + 1 \in 1..N /\ (m + 1) - 1 = m /\ m <= N
    BY <1>2
  <2>2. PICK h : InSlots(h, f[m], ss, m)
    BY <2>1
  <2>3. f[m] \in Seq(T)
    BY <1>1, <2>1
  <2>4. f[m + 1] = f[m] \o ss[m + 1]
    BY <1>1, <2>1 DEF Concatenates
  <2> HIDE DEF S
  <2>5. \E k : InSlots(k, f[m] \o ss[m + 1], ss, m + 1)
    BY <2>1, <2>2, <2>3, NextSlots
  <2> QED BY <2>4, <2>5
<1>5. \A m \in Nat : m \in S
  <2> HIDE DEF S
  <2> QED BY <1>3, <1>4, Induction
<1>6. \E h : InSlots(h, f[N], ss, N)
  BY <1>2, <1>5
<1> HIDE DEF S
<1>7. f[N] \in Seq(T)
  BY <1>1, <1>2
<1> QED BY <1>1, <1>6, <1>7

LEMMA FlattenRearranged ==
  ASSUME NEW T, NEW ss \in Seq(Seq(T)), NEW p, Pairing(p, 1..Len(ss), 1..Len(ss)),
         NEW tt, tt = [f \in 1..Len(ss) |-> ss[p[f]]]
  PROVE  /\ Rearranged(FlattenSeq(ss), FlattenSeq(tt))
         /\ FlattenSeq(ss) \in Seq(T) /\ FlattenSeq(tt) \in Seq(T)
<1> DEFINE N == Len(ss)
           A == Slots(ss, N)
           B == Slots(tt, N)
           b == [x \in B |-> <<p[x[1]], x[2]>>]
           v == [x \in A |-> ss[x[1]][x[2]]]
           s == FlattenSeq(ss)
           t == FlattenSeq(tt)
<1>1. \A f \in 1..N : p[f] \in 1..N /\ ss[p[f]] \in Seq(T)
  <2>1. \A f \in 1..N : p[f] \in 1..N
    <3> HIDE DEF N
    <3> QED BY DEF Pairing, N
  <2>2. \A f \in 1..N : ss[f] \in Seq(T)
    OBVIOUS
  <2> QED BY <2>1, <2>2
<1>2. tt \in Seq(Seq(T)) /\ Len(tt) = N /\ \A f \in 1..N : tt[f] = ss[p[f]]
  BY <1>1
<1>3. s \in Seq(T) /\ \E h : InSlots(h, s, ss, N)
  BY FlattenSlots
<1>4. t \in Seq(T) /\ \E h : InSlots(h, t, tt, N)
  BY <1>2, FlattenSlots
<1> HIDE DEF s, t
<1>5. PICK h : Pairing(h, 1..Len(s), A) /\ \A i \in 1..Len(s) : s[i] = ss[h[i][1]][h[i][2]]
  BY <1>3 DEF InSlots
<1>6. PICK k : Pairing(k, 1..Len(t), B) /\ \A i \in 1..Len(t) : t[i] = tt[k[i][1]][k[i][2]]
  BY <1>4 DEF InSlots
<1>7. ASSUME NEW x \in B
      PROVE  /\ x = <<x[1], x[2]>> /\ x[1] \in 1..N /\ x[2] \in Nat /\ x[2] \in 1..Len(ss[p[x[1]]])
             /\ b[x] = <<p[x[1]], x[2]>> /\ b[x][1] = p[x[1]] /\ b[x][2] = x[2] /\ b[x] \in A
             /\ tt[x[1]] = ss[p[x[1]]]
  <2>1. x \in (1..N) \X Nat /\ x[2] \in 1..Len(tt[x[1]])
    BY DEF Slots
  <2>2. x = <<x[1], x[2]>> /\ x[1] \in 1..N /\ x[2] \in Nat
    BY <2>1
  <2>3. tt[x[1]] = ss[p[x[1]]] /\ p[x[1]] \in 1..N
    BY <1>1, <1>2, <2>2
  <2>4. b[x] = <<p[x[1]], x[2]>>
    OBVIOUS
  <2>5. <<p[x[1]], x[2]>> \in A
    BY <2>1, <2>2, <2>3 DEF Slots
  <2> HIDE DEF b, A, B
  <2>6. b[x][1] = p[x[1]] /\ b[x][2] = x[2]
    BY <2>4
  <2> QED BY <2>1, <2>2, <2>3, <2>4, <2>5, <2>6
<1>8. b \in [B -> A]
  <2>1. \A x \in B : <<p[x[1]], x[2]>> \in A
    BY <1>7
  <2> HIDE DEF A, B
  <2> QED BY <2>1
<1>9. \A x \in A : v[x] = ss[x[1]][x[2]]
  OBVIOUS
<1>10. \A x \in A : x = <<x[1], x[2]>> /\ x[1] \in 1..N /\ x[2] \in Nat /\ x[2] \in 1..Len(ss[x[1]])
  BY DEF Slots
<1>11. \A f \in 1..N, i \in Nat : i \in 1..Len(ss[p[f]]) => <<f, i>> \in B
  BY <1>2 DEF Slots
<1> HIDE DEF b, v, A, B
<1>12. ASSUME NEW x \in B, NEW y \in B, b[x] = b[y] PROVE x = y
  <2>1. p[x[1]] = p[y[1]] /\ x[2] = y[2] /\ x[1] \in 1..N /\ y[1] \in 1..N
    BY <1>7, <1>12
  <2>2. x[1] = y[1]
    BY <2>1, SMTT(30) DEF Pairing, N
  <2> QED BY <1>7, <2>1, <2>2
<1>13. ASSUME NEW x \in A PROVE \E y \in B : b[y] = x
  <2>1. PICK f \in 1..N : p[f] = x[1]
    BY <1>10 DEF Pairing, N
  <2>2. <<f, x[2]>> \in B
    BY <1>10, <1>11, <2>1
  <2>3. b[<<f, x[2]>>] = <<p[f], x[2]>>
    <3> DEFINE y == <<f, x[2]>>
    <3>1. y[1] = f /\ y[2] = x[2] /\ y \in B
      BY <2>2
    <3> HIDE DEF y
    <3>2. b[y] = <<p[f], x[2]>>
      BY <1>7, <3>1
    <3> QED BY <3>2 DEF y
  <2> QED BY <1>10, <2>1, <2>2, <2>3
<1>14. Pairing(b, B, A)
  BY <1>8, <1>12, <1>13 DEF Pairing
<1> DEFINE c == [i \in 1..Len(t) |-> b[k[i]]]
<1>15. Lists(h, s, A, v)
  <2>1. ASSUME NEW i \in 1..Len(s) PROVE s[i] = v[h[i]]
    <3>1. h[i] \in A
      BY <1>5 DEF Pairing
    <3> QED BY <1>5, <1>9, <3>1
  <2> QED BY <1>5, <2>1 DEF Lists
<1>16. Lists(c, t, A, v)
  <2>1. ASSUME NEW i \in 1..Len(t) PROVE t[i] = v[c[i]]
    <3>1. k[i] \in B /\ c[i] = b[k[i]]
      BY <1>6 DEF Pairing
    <3> HIDE DEF c
    <3>2. v[b[k[i]]] = ss[p[k[i][1]]][k[i][2]]
      BY <1>7, <1>9, <3>1
    <3>3. tt[k[i][1]] = ss[p[k[i][1]]]
      BY <1>7, <3>1
    <3> QED BY <1>6, <3>1, <3>2, <3>3
  <2>2. Pairing(c, 1..Len(t), A)
    BY <1>6, <1>14, PairingChain
  <2> HIDE DEF c
  <2> QED BY <2>1, <2>2 DEF Lists
<1> HIDE DEF c
<1>17. Rearranged(s, t)
  BY <1>15, <1>16, RearrangedBy
<1> QED BY <1>3, <1>4, <1>17 DEF s, t

\* The totals of the beginnings of c.
Sums(f, c, N) == f \in [0..N -> Int] /\ f[0] = 0 /\ \A k \in 1..N : f[k] = f[k - 1] + c[k]

LEMMA TotalIs ==
  ASSUME NEW c \in Seq(Int)
  PROVE  \E f : Sums(f, c, Len(c)) /\ Total(c) = f[Len(c)]
BY TotalSums DEF Sums

LEMMA SumsExist ==
  ASSUME NEW N \in Nat, NEW c \in [1..N -> Int]
  PROVE  \E f : Sums(f, c, N)
<1>1. c \in Seq(Int) /\ Len(c) = N
  OBVIOUS
<1> QED BY <1>1, TotalIs

\* The totals up to the last place of d and of c, which differ at place k.
DifferAt(k, c, d, N) ==
  /\ c \in [1..N -> Int] /\ d \in [1..N -> Int]
  /\ k \in 1..N /\ \A i \in 1..N : i # k => d[i] = c[i]

LEMMA SumsApart ==
  ASSUME NEW N \in Nat, NEW c, NEW d, NEW k, DifferAt(k, c, d, N), NEW f, NEW g, Sums(f, c, N), Sums(g, d, N)
  PROVE  g[N] - d[k] = f[N] - c[k]
<1>0. /\ c \in [1..N -> Int] /\ d \in [1..N -> Int]
      /\ k \in 1..N /\ \A i \in 1..N : i # k => d[i] = c[i]
  BY DEF DifferAt
<1> DEFINE Ok(m) == g[m] = IF m < k THEN f[m] ELSE (f[m] - c[k]) + d[k]
           S == {m \in Nat : m <= N => Ok(m)}
<1>1. 0 \in S
  BY <1>0 DEF Sums
<1>2. ASSUME NEW m \in Nat \cap S PROVE m + 1 \in S
  <2> SUFFICES ASSUME m + 1 <= N PROVE Ok(m + 1)
    OBVIOUS
  <2>1. m \in Nat /\ m \in 0..N /\ m + 1 \in 1..N /\ (m + 1) - 1 = m /\ m <= N
    OBVIOUS
  <2>2. Ok(m)
    BY <2>1
  <2>3. /\ g[m + 1] = g[m] + d[m + 1] /\ f[m + 1] = f[m] + c[m + 1]
        /\ g[m] \in Int /\ f[m] \in Int /\ d[m + 1] \in Int /\ c[m + 1] \in Int /\ c[k] \in Int /\ d[k] \in Int
    BY <1>0, <2>1 DEF Sums
  <2>4. CASE m + 1 < k
    BY <1>0, <2>1, <2>2, <2>3, <2>4
  <2>5. CASE m + 1 = k
    BY <1>0, <2>1, <2>2, <2>3, <2>5
  <2>6. CASE m + 1 > k
    BY <1>0, <2>1, <2>2, <2>3, <2>6
  <2> HIDE DEF Ok
  <2>7. m + 1 < k \/ m + 1 = k \/ m + 1 > k
    BY <1>0, <2>1
  <2> QED BY <2>4, <2>5, <2>6, <2>7
<1>3. \A m \in Nat : m \in S
  <2> HIDE DEF S
  <2> QED BY <1>1, <1>2, Induction
<1>4. Ok(N)
  BY <1>3
<1>5. g[N] \in Int /\ f[N] \in Int /\ c[k] \in Int /\ d[k] \in Int
  BY <1>0 DEF Sums
<1> QED BY <1>0, <1>4, <1>5

\* The first m of a rearrangement, with what came last in its place.
Filled(p, m) == [i \in 1..m |-> IF p[i] = m + 1 THEN p[m + 1] ELSE p[i]]

LEMMA PairingFilled ==
  ASSUME NEW m \in Nat, NEW p, Pairing(p, 1..(m + 1), 1..(m + 1))
  PROVE  Pairing(Filled(p, m), 1..m, 1..m)
<1> DEFINE q == Filled(p, m)
           A == 1..(m + 1)
<1>1. /\ \A i \in A : p[i] \in A
      /\ \A i, j \in A : p[i] = p[j] => i = j
      /\ \A k \in A : \E i \in A : p[i] = k
  BY DEF Pairing
<1>2. DOMAIN q = 1..m /\ q = [i \in 1..m |-> q[i]] /\ \A i \in 1..m : q[i] = IF p[i] = m + 1 THEN p[m + 1] ELSE p[i]
  BY DEF Filled
<1>3. m + 1 \in A /\ \A i \in 1..m : i \in A /\ i # m + 1
  OBVIOUS
<1>4. \A i \in A : i = m + 1 \/ i \in 1..m
  OBVIOUS
<1> HIDE DEF q, A
<1>5. \A i \in 1..m : q[i] \in A /\ q[i] # m + 1
  BY <1>1, <1>2, <1>3
<1>6. q \in [1..m -> 1..m]
  <2>1. \A i \in 1..m : q[i] \in 1..m
    BY <1>4, <1>5
  <2> QED BY <1>2, <2>1
<1>7. ASSUME NEW i \in 1..m, NEW j \in 1..m, q[i] = q[j] PROVE i = j
  BY <1>1, <1>2, <1>3, <1>7
<1>8. ASSUME NEW k \in 1..m PROVE \E i \in 1..m : q[i] = k
  <2>1. PICK i \in A : p[i] = k
    BY <1>1, <1>3
  <2>2. PICK j \in A : p[j] = m + 1
    BY <1>1, <1>3
  <2>3. CASE i = m + 1
    <3>1. j \in 1..m
      BY <1>3, <1>4, <2>1, <2>2, <2>3
    <3>2. q[j] = k
      BY <1>2, <2>1, <2>2, <2>3, <3>1
    <3> QED BY <3>1, <3>2
  <2>4. CASE i # m + 1
    <3>1. i \in 1..m /\ p[i] # m + 1
      BY <1>3, <1>4, <2>1, <2>4
    <3>2. q[i] = k
      BY <1>2, <2>1, <3>1
    <3> QED BY <3>1, <3>2
  <2> QED BY <2>3, <2>4
<1>9. Pairing(q, 1..m, 1..m)
  BY <1>6, <1>7, <1>8 DEF Pairing
<1> QED BY <1>9 DEF q

\* The total of N values is that of their rearrangements.
Shuffled(p, c, d, N) ==
  /\ c \in [1..N -> Int] /\ d \in [1..N -> Int]
  /\ Pairing(p, 1..N, 1..N) /\ \A i \in 1..N : d[i] = c[p[i]]

SameSums(N) == \A c, d, p, f, g : Shuffled(p, c, d, N) /\ Sums(f, c, N) /\ Sums(g, d, N) => g[N] = f[N]

LEMMA NextSums ==
  ASSUME NEW m \in Nat, SameSums(m)
  PROVE  SameSums(m + 1)
<1> SUFFICES ASSUME NEW c, NEW d, NEW p, NEW f, NEW g, Shuffled(p, c, d, m + 1),
                    Sums(f, c, m + 1), Sums(g, d, m + 1)
             PROVE  g[m + 1] = f[m + 1]
  BY DEF SameSums
<1>0. /\ c \in [1..(m + 1) -> Int] /\ d \in [1..(m + 1) -> Int]
      /\ Pairing(p, 1..(m + 1), 1..(m + 1)) /\ \A i \in 1..(m + 1) : d[i] = c[p[i]]
  BY DEF Shuffled
<1> DEFINE q == Filled(p, m)
           a == [i \in 1..m |-> c[i]]
           b == [i \in 1..m |-> a[q[i]]]
           e == [i \in 1..m |-> d[i]]
           fa == [i \in 0..m |-> f[i]]
           ge == [i \in 0..m |-> g[i]]
<1>1. Pairing(q, 1..m, 1..m)
  BY <1>0, PairingFilled
<1>2. \A i \in 1..m : q[i] \in 1..m
  <2> HIDE DEF q
  <2> QED BY <1>1 DEF Pairing
<1>3. \A i \in 1..m : p[i] \in 1..(m + 1) /\ q[i] = IF p[i] = m + 1 THEN p[m + 1] ELSE p[i]
  <2>1. \A i \in 1..m : i \in 1..(m + 1)
    OBVIOUS
  <2>2. \A i \in 1..(m + 1) : p[i] \in 1..(m + 1)
    BY <1>0 DEF Pairing
  <2> QED BY <2>1, <2>2 DEF Filled
<1> HIDE DEF q
<1>4. a \in [1..m -> Int] /\ (\A i \in 1..m : a[i] = c[i]) /\ e \in [1..m -> Int] /\ \A i \in 1..m : e[i] = d[i]
  BY <1>0
<1>5. b \in [1..m -> Int] /\ \A i \in 1..m : b[i] = a[q[i]]
  BY <1>2, <1>4
<1>6. Sums(fa, a, m) /\ fa[m] = f[m]
  BY <1>4 DEF Sums
<1>7. Sums(ge, e, m) /\ ge[m] = g[m]
  BY <1>4 DEF Sums
<1> HIDE DEF a, b, e, fa, ge
<1>8. PICK h : Sums(h, b, m)
  BY <1>5, SumsExist
<1>9. h[m] = fa[m]
  <2>1. Shuffled(q, a, b, m)
    BY <1>1, <1>4, <1>5 DEF Shuffled
  <2> QED BY <1>6, <1>8, <2>1 DEF SameSums
<1>10. /\ f[m + 1] = f[m] + c[m + 1] /\ g[m + 1] = g[m] + d[m + 1]
       /\ f[m] \in Int /\ g[m] \in Int /\ h[m] \in Int /\ c[m + 1] \in Int /\ d[m + 1] \in Int
  <2>1. /\ m + 1 \in 1..(m + 1) /\ (m + 1) - 1 = m /\ m \in 0..(m + 1)
        /\ c[m + 1] \in Int /\ d[m + 1] \in Int
    BY <1>0
  <2>2. f[m + 1] = f[m] + c[m + 1] /\ f[m] \in Int
    BY <2>1 DEF Sums
  <2>3. g[m + 1] = g[m] + d[m + 1] /\ g[m] \in Int
    BY <2>1 DEF Sums
  <2>4. h[m] \in Int
    BY <1>8 DEF Sums
  <2> QED BY <2>1, <2>2, <2>3, <2>4
<1>11. PICK k \in 1..(m + 1) : p[k] = m + 1
  BY <1>0 DEF Pairing
<1>12. p[m + 1] \in 1..(m + 1) /\ d[m + 1] = c[p[m + 1]] /\ d[k] = c[m + 1]
  BY <1>0, <1>11 DEF Pairing
<1>13. CASE k = m + 1
  <2>1. \A i \in 1..m : p[i] # m + 1
    BY <1>0, <1>11, <1>13 DEF Pairing
  <2>2. \A i \in 1..m : e[i] = a[q[i]]
    <3> SUFFICES ASSUME NEW i \in 1..m PROVE e[i] = a[q[i]]
      OBVIOUS
    <3>1. q[i] = p[i] /\ q[i] \in 1..m
      BY <1>2, <1>3, <2>1
    <3>2. d[i] = c[p[i]]
      BY <1>0
    <3> QED BY <1>4, <3>1, <3>2
  <2>3. Shuffled(q, a, e, m)
    BY <1>1, <1>4, <2>2 DEF Shuffled
  <2>4. ge[m] = fa[m]
    BY <1>6, <1>7, <2>3 DEF SameSums
  <2> QED BY <1>6, <1>7, <1>10, <1>12, <1>13, <2>4
<1>14. CASE k # m + 1
  <2>1. k \in 1..m
    BY <1>14
  <2>2. \A i \in 1..m : i # k => p[i] # m + 1
    BY <1>0, <1>11 DEF Pairing
  <2>3. \A i \in 1..m : i # k => e[i] = b[i]
    <3> SUFFICES ASSUME NEW i \in 1..m, i # k PROVE e[i] = b[i]
      OBVIOUS
    <3>1. q[i] = p[i] /\ q[i] \in 1..m
      BY <1>2, <1>3, <2>2
    <3>2. d[i] = c[p[i]]
      BY <1>0
    <3> QED BY <1>4, <1>5, <3>1, <3>2
  <2>4. q[k] = p[m + 1]
    BY <1>3, <1>11, <2>1
  <2>5. b[k] = d[m + 1] /\ e[k] = c[m + 1]
    BY <1>2, <1>4, <1>5, <1>12, <2>1, <2>4
  <2>6. ge[m] - e[k] = h[m] - b[k]
    <3>1. DifferAt(k, b, e, m)
      BY <1>4, <1>5, <2>1, <2>3 DEF DifferAt
    <3> QED BY <1>7, <1>8, <3>1, SumsApart
  <2>7. g[m] - c[m + 1] = f[m] - d[m + 1]
    BY <1>6, <1>7, <1>9, <2>5, <2>6
  <2>8. \A i, j, v, w \in Int : i - v = j - w => i + w = j + v
    OBVIOUS
  <2>9. g[m] + d[m + 1] = f[m] + c[m + 1]
    BY <1>10, <2>7, <2>8
  <2> QED BY <1>10, <2>9
<1> QED BY <1>13, <1>14

LEMMA TotalRearranged ==
  ASSUME NEW c \in Seq(Int), NEW d \in Seq(Int), Rearranged(c, d)
  PROVE  Total(c) = Total(d)
<1> DEFINE N == Len(c)
<1>1. Len(c) \in Nat /\ Len(d) \in Nat
  OBVIOUS
<1>2. Len(d) = N
  BY <1>1, RearrangedLength
<1>3. c \in [1..N -> Int] /\ d \in [1..N -> Int] /\ N \in Nat
  BY <1>2
<1>4. PICK p : Pairing(p, 1..N, 1..N) /\ \A i \in 1..N : d[i] = c[p[i]]
  BY <1>2 DEF Rearranged
<1>5. PICK f : Sums(f, c, N) /\ Total(c) = f[N]
  BY TotalIs
<1>6. PICK g : Sums(g, d, N) /\ Total(d) = g[N]
  BY <1>2, TotalIs
<1> HIDE DEF N
<1> DEFINE S == {m \in Nat : SameSums(m)}
<1>7. 0 \in S
  <2>1. SameSums(0)
    BY DEF SameSums, Sums
  <2> QED BY <2>1
<1>8. \A m \in Nat \cap S : m + 1 \in S
  BY NextSums
<1>9. \A m \in Nat : m \in S
  <2> HIDE DEF S
  <2> QED BY <1>7, <1>8, Induction
<1>10. SameSums(N)
  BY <1>3, <1>9
<1>11. Shuffled(p, c, d, N)
  BY <1>3, <1>4 DEF Shuffled
<1> QED BY <1>5, <1>6, <1>10, <1>11 DEF SameSums

\* p puts the N values of c in order.
Sorts(p, c, N) == Pairing(p, 1..N, 1..N) /\ \A i, j \in 1..N : i < j => c[p[i]] <= c[p[j]]

\* The greatest value last, and what was last in its place.
Raised(p, k, m) == [i \in 1..(m + 1) |-> IF i = m + 1 THEN k ELSE IF p[i] = k THEN m + 1 ELSE p[i]]

LEMMA PairingRaised ==
  ASSUME NEW m \in Nat, NEW p, Pairing(p, 1..m, 1..m), NEW k \in 1..(m + 1)
  PROVE  Pairing(Raised(p, k, m), 1..(m + 1), 1..(m + 1))
<1> DEFINE q == Raised(p, k, m)
           A == 1..(m + 1)
           B == 1..m
<1>1. /\ \A i \in B : p[i] \in B
      /\ \A i, j \in B : p[i] = p[j] => i = j
      /\ \A x \in B : \E i \in B : p[i] = x
  BY DEF Pairing
<1>2. q = [i \in A |-> q[i]] /\ \A i \in A : q[i] = IF i = m + 1 THEN k ELSE IF p[i] = k THEN m + 1 ELSE p[i]
  BY DEF Raised
<1>3. m + 1 \in A /\ m + 1 \notin B /\ B \subseteq A /\ \A i \in A : i = m + 1 \/ i \in B
  OBVIOUS
<1> HIDE DEF q, A, B
<1>4. k \in A
  BY DEF A
<1>5. q \in [A -> A]
  <2>1. \A i \in A : q[i] \in A
    BY <1>1, <1>2, <1>3, <1>4
  <2> QED BY <1>2, <2>1
<1>6. ASSUME NEW i \in A, NEW j \in A, q[i] = q[j] PROVE i = j
  BY <1>1, <1>2, <1>3, <1>4, <1>6
<1>7. ASSUME NEW x \in A PROVE \E i \in A : q[i] = x
  <2>1. CASE x = k
    BY <1>2, <1>3, <2>1
  <2>2. CASE x # k /\ x = m + 1
    <3>1. PICK i \in B : p[i] = k
      BY <1>1, <1>3, <1>4, <2>2
    <3> QED BY <1>2, <1>3, <2>2, <3>1
  <2>3. CASE x # k /\ x # m + 1
    <3>1. PICK i \in B : p[i] = x
      BY <1>1, <1>3, <2>3
    <3> QED BY <1>2, <1>3, <2>3, <3>1
  <2> QED BY <2>1, <2>2, <2>3
<1>8. Pairing(q, A, A)
  BY <1>5, <1>6, <1>7 DEF Pairing
<1> QED BY <1>8 DEF q, A

CanSort(N) == \A c : c \in [1..N -> Int] => \E p : Sorts(p, c, N)

LEMMA NextSorts ==
  ASSUME NEW m \in Nat, CanSort(m)
  PROVE  CanSort(m + 1)
<1> SUFFICES ASSUME NEW c, c \in [1..(m + 1) -> Int] PROVE \E p : Sorts(p, c, m + 1)
  BY DEF CanSort
<1>0. m + 1 \in Nat \ {0}
  OBVIOUS
<1>1. PICK k \in 1..(m + 1) : \A i \in 1..(m + 1) : c[i] <= c[k]
  <2>1. \A i \in 1..(m + 1) : c[i] \in Int
    OBVIOUS
  <2> QED BY <1>0, <2>1, GreatestExists
<1> DEFINE a == [i \in 1..m |-> IF i = k THEN c[m + 1] ELSE c[i]]
<1>2. a \in [1..m -> Int] /\ \A i \in 1..m : a[i] = IF i = k THEN c[m + 1] ELSE c[i]
  OBVIOUS
<1> HIDE DEF a
<1>3. PICK p : Sorts(p, a, m)
  BY <1>2 DEF CanSort
<1> DEFINE q == Raised(p, k, m)
<1>4. Pairing(q, 1..(m + 1), 1..(m + 1))
  BY <1>3, PairingRaised DEF Sorts
<1>5. \A i \in 1..m : p[i] \in 1..m
  BY <1>3 DEF Sorts, Pairing
<1>6. q[m + 1] = k /\ \A i \in 1..m : q[i] = IF p[i] = k THEN m + 1 ELSE p[i]
  BY DEF Raised
<1> HIDE DEF q
<1>7. \A i \in 1..m : c[q[i]] = a[p[i]]
  BY <1>2, <1>5, <1>6
<1>8. ASSUME NEW i \in 1..(m + 1), NEW j \in 1..(m + 1), i < j PROVE c[q[i]] <= c[q[j]]
  <2>1. CASE j = m + 1
    <3>1. q[i] \in 1..(m + 1)
      BY <1>4 DEF Pairing
    <3> QED BY <1>1, <1>6, <2>1, <3>1
  <2>2. CASE j # m + 1
    <3>1. i \in 1..m /\ j \in 1..m
      BY <1>8, <2>2
    <3> QED BY <1>3, <1>7, <1>8, <3>1 DEF Sorts
  <2> QED BY <2>1, <2>2
<1>9. Sorts(q, c, m + 1)
  BY <1>4, <1>8 DEF Sorts
<1> QED BY <1>9

LEMMA SortExists ==
  ASSUME NEW N \in Nat, NEW c \in [1..N -> Int]
  PROVE  \E p : Sorts(p, c, N)
<1> DEFINE S == {m \in Nat : CanSort(m)}
<1>1. 0 \in S
  <2>1. Pairing([i \in {} |-> i], {}, {})
    BY DEF Pairing
  <2>2. 1..0 = {}
    OBVIOUS
  <2>3. \A a : Sorts([i \in {} |-> i], a, 0)
    BY <2>1, <2>2 DEF Sorts
  <2>4. CanSort(0)
    BY <2>3 DEF CanSort
  <2> QED BY <2>4
<1>2. \A m \in Nat \cap S : m + 1 \in S
  BY NextSorts
<1>3. \A m \in Nat : m \in S
  <2> HIDE DEF S
  <2> QED BY <1>1, <1>2, Induction
<1> QED BY <1>3 DEF CanSort

InOrder(r) == \A i, j \in 1..Len(r) : i < j => r[i] <= r[j]

LEMMA SortedFacts ==
  ASSUME NEW c \in Seq(Int)
  PROVE  Sorted(c) \in Seq(Int) /\ Rearranged(c, Sorted(c)) /\ InOrder(Sorted(c))
<1> DEFINE N == Len(c)
           Fits(p) == \A i, j \in DOMAIN c : i < j => c[p[i]] <= c[p[j]]
           order == CHOOSE p \in Bijection(DOMAIN c, DOMAIN c) : Fits(p)
           r == Sorted(c)
<1>1. N \in Nat /\ DOMAIN c = 1..N /\ c \in [1..N -> Int]
  OBVIOUS
<1>2. r = [i \in DOMAIN c |-> c[order[i]]]
  BY DEF Sorted
<1>3. \E p \in Bijection(DOMAIN c, DOMAIN c) : Fits(p)
  <2> HIDE DEF N
  <2>1. PICK p : Sorts(p, c, N)
    BY <1>1, SortExists
  <2>2. p \in Bijection(1..N, 1..N)
    BY <2>1 DEF Sorts, Pairing, Bijection, Injection, Surjection, IsInjective
  <2>3. Fits(p)
    BY <1>1, <2>1 DEF Sorts
  <2> HIDE DEF Fits
  <2> QED BY <1>1, <2>2, <2>3
<1>4. order \in Bijection(DOMAIN c, DOMAIN c) /\ Fits(order)
  <2> HIDE DEF Fits
  <2> QED BY <1>3
<1> HIDE DEF order, r, N
<1>5. Pairing(order, 1..N, 1..N)
  <2>1. order \in Bijection(1..N, 1..N)
    BY <1>1, <1>4
  <2> QED BY <2>1 DEF Pairing, Bijection, Injection, Surjection, IsInjective
<1>6. \A i \in 1..N : order[i] \in 1..N
  BY <1>5 DEF Pairing
<1>7. r \in Seq(Int) /\ Len(r) = N /\ \A i \in 1..N : r[i] = c[order[i]]
  BY <1>1, <1>2, <1>6
<1>8. Rearranged(c, r)
  <2>1. Pairing(order, 1..Len(r), 1..Len(c)) /\ \A i \in 1..Len(r) : r[i] = c[order[i]]
    BY <1>5, <1>7 DEF N
  <2> QED BY <2>1 DEF Rearranged
<1>9. InOrder(r)
  BY <1>1, <1>4, <1>7, SMTT(30) DEF InOrder
<1> QED BY <1>7, <1>8, <1>9 DEF r

LEMMA SortedEnds ==
  ASSUME NEW c \in Seq(Int), NEW d \in Seq(Int), Rearranged(c, d), c # <<>>
  PROVE  /\ d # <<>> /\ Sorted(c) # <<>> /\ Sorted(d) # <<>>
         /\ Sorted(c)[1] = Sorted(d)[1] /\ Last(Sorted(c)) = Last(Sorted(d))
         /\ Total(Sorted(c)) = Total(Sorted(d))
<1> DEFINE r == Sorted(c)
           w == Sorted(d)
           N == Len(c)
<1>1. r \in Seq(Int) /\ Rearranged(c, r) /\ InOrder(r)
  BY SortedFacts
<1>2. w \in Seq(Int) /\ Rearranged(d, w) /\ InOrder(w)
  BY SortedFacts
<1> HIDE DEF r, w
<1>3. Total(r) = Total(c) /\ Total(w) = Total(d) /\ Total(c) = Total(d)
  BY <1>1, <1>2, TotalRearranged
<1>4. ToSet(c) = ToSet(r) /\ ToSet(d) = ToSet(w) /\ ToSet(c) = ToSet(d)
  BY <1>1, <1>2, RearrangedSets
<1>5. Len(c) \in Nat /\ Len(d) \in Nat /\ Len(r) \in Nat /\ Len(w) \in Nat
  BY <1>1, <1>2
<1>6. Len(d) = N /\ Len(r) = N /\ Len(w) = N
  BY <1>1, <1>2, <1>5, RearrangedLength
<1>7. N \in Nat /\ N # 0
  OBVIOUS
<1> HIDE DEF N
<1>8. 1 \in 1..N /\ N \in 1..N
  BY <1>7
<1>9. \A x : (x \in ToSet(r) <=> \E i \in 1..N : r[i] = x) /\ (x \in ToSet(w) <=> \E i \in 1..N : w[i] = x)
  <2>1. DOMAIN r = 1..N /\ DOMAIN w = 1..N
    BY <1>1, <1>2, <1>6
  <2> QED BY <2>1 DEF ToSet
<1>10. \A i \in 1..N : r[1] <= r[i] /\ r[i] <= r[N] /\ r[i] \in Int /\ w[1] <= w[i] /\ w[i] <= w[N] /\ w[i] \in Int
  <2> SUFFICES ASSUME NEW i \in 1..N
               PROVE  r[1] <= r[i] /\ r[i] <= r[N] /\ r[i] \in Int /\ w[1] <= w[i] /\ w[i] <= w[N] /\ w[i] \in Int
    OBVIOUS
  <2>1. (i = 1 \/ 1 < i) /\ (i = N \/ i < N)
    BY <1>7
  <2>2. /\ \A j, k \in 1..N : j < k => r[j] <= r[k]
        /\ \A j, k \in 1..N : j < k => w[j] <= w[k]
    BY <1>1, <1>2, <1>6 DEF InOrder
  <2>3. \A j \in 1..N : r[j] \in Int /\ w[j] \in Int
    BY <1>1, <1>2, <1>6
  <2>4. r[1] <= r[i] /\ w[1] <= w[i]
    BY <1>8, <2>1, <2>2, <2>3
  <2>5. r[i] <= r[N] /\ w[i] <= w[N]
    BY <1>8, <2>1, <2>2, <2>3
  <2> QED BY <2>3, <2>4, <2>5
<1>11. \A x : x \in ToSet(r) <=> x \in ToSet(w)
  BY <1>4
<1>12. r[1] = w[1]
  <2>1. PICK i \in 1..N : w[i] = r[1]
    BY <1>8, <1>9, <1>11
  <2>2. PICK j \in 1..N : r[j] = w[1]
    BY <1>8, <1>9, <1>11
  <2>3. w[1] <= r[1] /\ r[1] <= w[1] /\ r[1] \in Int /\ w[1] \in Int
    BY <1>8, <1>10, <2>1, <2>2
  <2> QED BY <2>3
<1>13. r[N] = w[N]
  <2>1. PICK i \in 1..N : w[i] = r[N]
    BY <1>8, <1>9, <1>11
  <2>2. PICK j \in 1..N : r[j] = w[N]
    BY <1>8, <1>9, <1>11
  <2>3. w[N] <= r[N] /\ r[N] <= w[N] /\ r[N] \in Int /\ w[N] \in Int
    BY <1>8, <1>10, <2>1, <2>2
  <2> QED BY <2>3
<1>14. Last(r) = r[N] /\ Last(w) = w[N] /\ d # <<>> /\ r # <<>> /\ w # <<>>
  BY <1>6, <1>7 DEF Last
<1> QED BY <1>3, <1>12, <1>13, <1>14 DEF r, w

LEMMA NumericSame ==
  ASSUME NEW s \in Seq(Int), NEW t \in Seq(Int), Rearranged(s, t), NEW agg
  PROVE  numericAggregate(agg, s) = numericAggregate(agg, t)
<1> DEFINE S == {value \in ToSet(s) : IsNumber(value)}
           c == Numbers(s)
           d == Numbers(t)
<1>1. ToSet(s) = ToSet(t)
  BY RearrangedSets
<1>2. c = Kept(s, S) /\ d = Kept(t, S)
  BY <1>1 DEF Numbers
<1> HIDE DEF S, c, d
<1>3. Rearranged(c, d) /\ c \in Seq(Int) /\ d \in Seq(Int)
  BY <1>2, KeptRearranged, KeptType
<1>4. /\ numericAggregate(agg, s) =
           IF Sorted(c) = <<>> THEN Omitted
           ELSE IF agg = "sum" THEN Scalar(Total(Sorted(c)))
           ELSE Scalar(IF agg = "min" THEN Sorted(c)[1] ELSE Last(Sorted(c)))
      /\ numericAggregate(agg, t) =
           IF Sorted(d) = <<>> THEN Omitted
           ELSE IF agg = "sum" THEN Scalar(Total(Sorted(d)))
           ELSE Scalar(IF agg = "min" THEN Sorted(d)[1] ELSE Last(Sorted(d)))
  BY DEF numericAggregate, c, d
<1>5. CASE c = <<>>
  <2>1. Len(c) \in Nat /\ Len(d) \in Nat
    BY <1>3
  <2>2. Len(c) = Len(d)
    BY <1>3, <2>1, RearrangedLength
  <2>3. d = <<>>
    BY <1>3, <1>5, <2>2
  <2> QED BY <1>3, <1>4, <1>5, <2>3
<1>6. CASE c # <<>>
  <2>1. /\ Sorted(c) # <<>> /\ Sorted(d) # <<>>
        /\ Sorted(c)[1] = Sorted(d)[1] /\ Last(Sorted(c)) = Last(Sorted(d))
        /\ Total(Sorted(c)) = Total(Sorted(d))
    BY <1>3, <1>6, SortedEnds
  <2> QED BY <1>4, <2>1
<1> QED BY <1>5, <1>6

LEMMA AggregateSame ==
  ASSUME NEW s \in Seq(Int), NEW t \in Seq(Int), Rearranged(s, t), NEW agg, agg \notin {"first", "list"}
  PROVE  Aggregate(agg, s) = Aggregate(agg, t)
<1> DEFINE S == {value \in ToSet(s) : value # Empty}
           c == Kept(s, S)
           d == Kept(t, S)
           unique == SortedUnique(s)
<1>1. ToSet(s) = ToSet(t)
  BY RearrangedSets
<1>2. SortedUnique(t) = unique
  BY <1>1 DEF SortedUnique
<1>3. Rearranged(c, d) /\ c \in Seq(Int) /\ d \in Seq(Int)
  BY KeptRearranged, KeptType
<1>4. numericAggregate(agg, c) = numericAggregate(agg, d)
  BY <1>3, NumericSame
<1>5. d = Kept(t, {value \in ToSet(t) : value # Empty})
  BY <1>1
<1> HIDE DEF unique
<1>6. CASE agg = "discard"
  BY <1>6 DEF Aggregate
<1>7. CASE agg = "count"
  BY <1>2, <1>7 DEF Aggregate, unique
<1>8. CASE agg \in {"sum", "min", "max"}
  <2>1. Aggregate(agg, s) = numericAggregate(agg, c)
    BY <1>8 DEF Aggregate
  <2>2. Aggregate(agg, t) = numericAggregate(agg, d)
    BY <1>5, <1>8 DEF Aggregate
  <2> QED BY <1>4, <2>1, <2>2
<1>9. CASE agg \notin {"discard", "count", "sum", "min", "max"}
  <2>1. Aggregate(agg, s) = IF Len(unique) = 1 THEN Scalar(unique[1]) ELSE List(unique)
    BY <1>9 DEF Aggregate, unique
  <2>2. Aggregate(agg, t) = IF Len(unique) = 1 THEN Scalar(unique[1]) ELSE List(unique)
    BY <1>2, <1>9 DEF Aggregate
  <2> QED BY <2>1, <2>2
<1> QED BY <1>6, <1>7, <1>8, <1>9

-----------------------------------------------------------------------------
(* The order of the members                                                *)

\* The values of a member's fields.
HasNumbers(member) == \A field \in DOMAIN member.fields : member.fields[field] \in Int

FieldsOf(members) == UNION {DOMAIN members[m].fields : m \in DOMAIN members}

LEMMA RearrangedNames ==
  ASSUME NEW T, NEW s \in Seq(T), NEW t \in Seq(T), Rearranged(s, t)
  PROVE  FieldsOf(s) = FieldsOf(t) /\ Names(s) = Names(t) /\ Len(s) = Len(t)
<1>1. ToSet(s) = ToSet(t)
  BY RearrangedSets
<1>2. FieldsOf(s) = UNION {DOMAIN m.fields : m \in ToSet(s)} /\ FieldsOf(t) = UNION {DOMAIN m.fields : m \in ToSet(t)}
  BY DEF FieldsOf, ToSet
<1>3. Names(s) = {m.key : m \in ToSet(s)} /\ Names(t) = {m.key : m \in ToSet(t)}
  BY DEF Names, ToSet
<1>4. Len(s) \in Nat /\ Len(t) \in Nat
  OBVIOUS
<1>5. Len(s) = Len(t)
  BY <1>4, RearrangedLength
<1> QED BY <1>1, <1>2, <1>3, <1>5

LEMMA ValuesRearranged ==
  ASSUME NEW T, \A x \in T : HasNumbers(x), NEW s \in Seq(T), NEW t \in Seq(T), Rearranged(s, t), NEW field
  PROVE  /\ Rearranged(Values(s, field), Values(t, field))
         /\ Values(s, field) \in Seq(Int) /\ Values(t, field) \in Seq(Int)
<1> DEFINE S == {member \in ToSet(s) : field \in DOMAIN member.fields}
           c == Kept(s, S)
           d == Kept(t, S)
           u == Values(s, field)
           w == Values(t, field)
<1>1. ToSet(s) = ToSet(t)
  BY RearrangedSets
<1>2. S = {member \in ToSet(t) : field \in DOMAIN member.fields}
  BY <1>1
<1>3. u = [m \in DOMAIN c |-> c[m].fields[field]] /\ w = [m \in DOMAIN d |-> d[m].fields[field]]
  BY <1>2 DEF Values
<1>4. \A x \in S : field \in DOMAIN x.fields
  OBVIOUS
<1> HIDE DEF S, u, w
<1>5. Rearranged(c, d) /\ c \in Seq(T) /\ d \in Seq(T)
  BY KeptRearranged, KeptType
<1>6. (\A i \in 1..Len(c) : c[i] \in S) /\ \A i \in 1..Len(d) : d[i] \in S
  <2>1. \A i \in 1..Len(c) : c[i] \in S
    BY KeptElements
  <2>2. \A i \in 1..Len(d) : d[i] \in S
    BY KeptElements
  <2> QED BY <2>1, <2>2
<1> HIDE DEF c, d
<1>7. DOMAIN c = 1..Len(c) /\ DOMAIN d = 1..Len(d) /\ Len(c) \in Nat /\ Len(d) \in Nat
  BY <1>5
<1>8. \A i \in 1..Len(c) : c[i] \in T /\ c[i].fields[field] \in Int
  BY <1>4, <1>5, <1>6 DEF HasNumbers
<1>9. \A i \in 1..Len(d) : d[i] \in T /\ d[i].fields[field] \in Int
  BY <1>4, <1>5, <1>6 DEF HasNumbers
<1>10. u \in Seq(Int) /\ Len(u) = Len(c) /\ w \in Seq(Int) /\ Len(w) = Len(d)
  BY <1>3, <1>7, <1>8, <1>9
<1>11. \A i \in 1..Len(c), j \in 1..Len(d) : c[i] = d[j] => u[i] = w[j]
  BY <1>3, <1>7
<1>12. Rearranged(u, w)
  BY <1>5, <1>10, <1>11, MapRearranged
<1> QED BY <1>10, <1>12 DEF u, w

LEMMA TerritorySame ==
  ASSUME NEW T, \A x \in T : HasNumbers(x), NEW s \in Seq(T), NEW t \in Seq(T), Rearranged(s, t), NEW group, NEW agg
  PROVE  Unordered(agg, buildTerritory(group, s, agg)) = Unordered(agg, buildTerritory(group, t, agg))
<1> DEFINE b == buildTerritory(group, s, agg)
           c == buildTerritory(group, t, agg)
           fields == FieldsOf(s)
           shown == {field \in fields : resolve(agg, field) \notin {"first", "list"}}
<1>1. FieldsOf(t) = fields /\ Names(s) = Names(t) /\ Len(s) = Len(t)
  BY RearrangedNames
<1>2. /\ b.id = group /\ b.members = Names(s) /\ b.count = Len(s)
      /\ b.properties = [field \in fields |-> Aggregate(resolve(agg, field), Values(s, field))]
  BY DEF buildTerritory, Names, FieldsOf
<1>3. /\ c.id = group /\ c.members = Names(t) /\ c.count = Len(t)
      /\ c.properties = [field \in fields |-> Aggregate(resolve(agg, field), Values(t, field))]
  <2>1. c.properties = [field \in FieldsOf(t) |-> Aggregate(resolve(agg, field), Values(t, field))]
    BY DEF buildTerritory, FieldsOf
  <2>2. c.id = group /\ c.members = Names(t) /\ c.count = Len(t)
    BY DEF buildTerritory, Names
  <2> QED BY <1>1, <2>1, <2>2
<1> HIDE DEF b, c, fields
<1>4. DOMAIN b.properties = fields /\ DOMAIN c.properties = fields
  BY <1>2, <1>3
<1>5. ASSUME NEW field \in shown PROVE b.properties[field] = c.properties[field]
  <2>1. /\ Rearranged(Values(s, field), Values(t, field))
        /\ Values(s, field) \in Seq(Int) /\ Values(t, field) \in Seq(Int)
    BY ValuesRearranged
  <2>2. Aggregate(resolve(agg, field), Values(s, field)) = Aggregate(resolve(agg, field), Values(t, field))
    BY <2>1, AggregateSame
  <2> QED BY <1>2, <1>3, <2>2
<1>6. [field \in shown |-> b.properties[field]] = [field \in shown |-> c.properties[field]]
  BY <1>5
<1>7. Unordered(agg, b) = [id |-> group, members |-> Names(s), count |-> Len(s), fields |-> fields,
                           properties |-> [field \in shown |-> b.properties[field]]]
  BY <1>2, <1>4 DEF Unordered
<1>8. Unordered(agg, c) = [id |-> group, members |-> Names(s), count |-> Len(s), fields |-> fields,
                           properties |-> [field \in shown |-> c.properties[field]]]
  BY <1>1, <1>3, <1>4 DEF Unordered
<1> QED BY <1>6, <1>7, <1>8 DEF b, c

GroupsOf(placed) == {placed[p].group : p \in DOMAIN placed}

TerritoriesOf(placed, agg) ==
  {buildTerritory(group, Kept(placed, InGroup(placed, group)), agg) : group \in GroupsOf(placed)}

\* The territories of these members, but for the order.
Outlines(placed, agg) == {Unordered(agg, x) : x \in TerritoriesOf(placed, agg)}

LEMMA TerritoriesSame ==
  ASSUME NEW T, \A x \in T : HasNumbers(x), NEW s \in Seq(T), NEW t \in Seq(T), Rearranged(s, t), NEW agg
  PROVE  Outlines(t, agg) = Outlines(s, agg)
<1> DEFINE Of(placed, group) == Unordered(agg, buildTerritory(group, Kept(placed, InGroup(placed, group)), agg))
<1>1. ToSet(s) = ToSet(t)
  BY RearrangedSets
<1>2. GroupsOf(s) = {x.group : x \in ToSet(s)} /\ GroupsOf(t) = {x.group : x \in ToSet(t)}
  BY DEF GroupsOf, ToSet
<1>3. ASSUME NEW group PROVE Of(s, group) = Of(t, group)
  <2> DEFINE S == InGroup(s, group)
  <2>1. InGroup(t, group) = S
    BY <1>1 DEF InGroup
  <2> HIDE DEF S
  <2>2. Rearranged(Kept(s, S), Kept(t, S)) /\ Kept(s, S) \in Seq(T) /\ Kept(t, S) \in Seq(T)
    BY KeptRearranged, KeptType
  <2>3. Unordered(agg, buildTerritory(group, Kept(s, S), agg)) = Unordered(agg, buildTerritory(group, Kept(t, S), agg))
    BY <2>2, TerritorySame
  <2> QED BY <2>1, <2>3 DEF S
<1>4. Outlines(t, agg) = {Of(t, group) : group \in GroupsOf(t)}
  BY DEF Outlines, TerritoriesOf
<1>5. Outlines(s, agg) = {Of(s, group) : group \in GroupsOf(s)}
  BY DEF Outlines, TerritoriesOf
<1> HIDE DEF Of
<1> QED BY <1>1, <1>2, <1>3, <1>4, <1>5

FieldsAreNumbers(opts) ==
  /\ \A f \in DOMAIN opts.features : HasNumbers(opts.features[f])
  /\ opts.mapping # NoMapping => \A row \in ToSet(opts.mapping) : HasNumbers(row)

LEMMA JoinHasNumbers ==
  ASSUME NEW mapping, mapping \in Seq(ToSet(mapping)), \A row \in ToSet(mapping) : HasNumbers(row),
         NEW opts, NEW feature, HasNumbers(feature), NEW geometry, NEW key,
         NEW joined, joined = Join(opts, feature, geometry, Index(mapping, key))
  PROVE  \A i \in DOMAIN joined.placed : HasNumbers(joined.placed[i])
<1> DEFINE T == ToSet(mapping)
           A == {row \in ToSet(mapping) : normalizeKey(row.key) = key}
           rows == Index(mapping, key)
           B == {row \in ToSet(rows) : TrimSpace(row.group) # <<>>}
           grouped == Kept(rows, B)
<1>1. rows = Kept(mapping, A)
  BY DEF Index
<1>2. joined.placed = [i \in DOMAIN grouped |->
                         Placed(TrimSpace(grouped[i].group), feature, geometry, Overridden(grouped[i].fields, feature.fields))]
  BY DEF Join
<1> HIDE DEF A, rows
<1>3. rows \in Seq(T)
  BY <1>1, KeptType
<1> HIDE DEF B
<1>4. grouped \in Seq(T)
  BY <1>3, KeptType
<1> HIDE DEF grouped
<1>5. ASSUME NEW i \in DOMAIN joined.placed PROVE HasNumbers(joined.placed[i])
  <2> DEFINE fields == grouped[i].fields
             own == feature.fields
  <2>1. i \in DOMAIN grouped /\ joined.placed[i].fields = Overridden(fields, own)
    BY <1>2 DEF Placed
  <2>2. grouped[i] \in T
    BY <1>4, <2>1
  <2>3. (\A field \in DOMAIN fields : fields[field] \in Int) /\ \A field \in DOMAIN own : own[field] \in Int
    BY <2>2 DEF HasNumbers
  <2> HIDE DEF fields, own
  <2>4. ASSUME NEW field \in DOMAIN Overridden(fields, own) PROVE Overridden(fields, own)[field] \in Int
    BY <2>3 DEF Overridden
  <2> QED BY <2>1, <2>4 DEF HasNumbers
<1> QED BY <1>5

LEMMA FateHasNumbers ==
  ASSUME NEW opts, AreOptions(opts), FieldsAreNumbers(opts), NEW f \in DOMAIN opts.features
  PROVE  \A i \in DOMAIN Fate(opts, opts.features[f]).placed : HasNumbers(Fate(opts, opts.features[f]).placed[i])
<1> DEFINE feature == opts.features[f]
           key == stringify(feature.key)
           repaired == Repair(feature.geometry)
           rows == Index(opts.mapping, normalizeKey(key))
           joined == Join(opts, feature, repaired.geometry, rows)
           warned == [Nothing EXCEPT !.warnings = repaired.warnings]
           alone == Placed(PrefixGroup(key, opts.prefix), feature, repaired.geometry, feature.fields)
           placed == Fate(opts, feature).placed
<1>1. HasNumbers(feature)
  BY DEF FieldsAreNumbers
<1>2. placed = <<>> \/ (opts.mapping = NoMapping /\ placed = <<alone>>) \/ (opts.mapping # NoMapping /\ placed = joined.placed)
  BY DEF Fate, FateOf, Nothing
<1>3. HasNumbers(alone)
  BY <1>1 DEF HasNumbers, Placed
<1>4. ASSUME opts.mapping # NoMapping PROVE \A i \in DOMAIN joined.placed : HasNumbers(joined.placed[i])
  <2>1. opts.mapping \in Seq(ToSet(opts.mapping)) /\ \A row \in ToSet(opts.mapping) : HasNumbers(row)
    BY <1>4 DEF AreOptions, FieldsAreNumbers
  <2> HIDE DEF feature
  <2> QED BY <1>1, <2>1, JoinHasNumbers
<1> HIDE DEF alone, joined
<1>5. \A i \in DOMAIN placed : HasNumbers(placed[i])
  <2> HIDE DEF placed
  <2>1. CASE placed = <<>>
    BY <2>1
  <2>2. CASE placed = <<alone>>
    BY <1>3, <2>2
  <2>3. CASE opts.mapping # NoMapping /\ placed = joined.placed
    BY <1>4, <2>3
  <2> QED BY <1>2, <2>1, <2>2, <2>3
<1> QED BY <1>5

LEMMA BijectionPairs ==
  ASSUME NEW p, NEW A, NEW B, p \in Bijection(A, B)
  PROVE  Pairing(p, A, B) /\ DOMAIN p = A
BY DEF Pairing, Bijection, Injection, Surjection, IsInjective

LEMMA ReorderedFate ==
  ASSUME NEW opts, NEW p, NEW feature
  PROVE  Fate(Reordered(opts, p), feature) = Fate(opts, feature)
<1> DEFINE again == Reordered(opts, p)
<1>1. again.mapping = opts.mapping /\ again.prefix = opts.prefix
  BY DEF Reordered
<1>2. \A geometry, rows : Join(again, feature, geometry, rows) = Join(opts, feature, geometry, rows)
  BY DEF Join
<1> HIDE DEF again
<1>3. Fate(again, feature) = Fate(opts, feature)
  BY <1>1, <1>2 DEF Fate, FateOf
<1> QED BY <1>3 DEF again

LEMMA ReorderedFates ==
  ASSUME NEW opts, AreOptions(opts), NEW p, Pairing(p, DOMAIN opts.features, DOMAIN opts.features),
         DOMAIN p = DOMAIN opts.features
  PROVE  Fates(Reordered(opts, p)) = [f \in DOMAIN opts.features |-> Fates(opts)[p[f]]]
<1> DEFINE again == Reordered(opts, p)
           F == DOMAIN opts.features
<1>1. again.features = [f \in F |-> opts.features[p[f]]]
  BY DEF Reordered
<1>2. \A f \in F : p[f] \in F
  BY DEF Pairing
<1>3. \A x : Fate(again, x) = Fate(opts, x)
  BY ReorderedFate
<1> HIDE DEF again
<1>4. DOMAIN again.features = F /\ \A f \in F : again.features[f] = opts.features[p[f]]
  BY <1>1
<1>5. Fates(again) = [f \in F |-> Fate(again, again.features[f])]
  BY <1>4 DEF Fates
<1>6. Fates(opts) = [f \in F |-> Fate(opts, opts.features[f])]
  BY DEF Fates
<1> HIDE DEF F
<1>7. \A f \in F : Fate(again, again.features[f]) = Fates(opts)[p[f]]
  BY <1>2, <1>3, <1>4, <1>6
<1>8. Fates(again) = [f \in F |-> Fates(opts)[p[f]]]
  BY <1>5, <1>7
<1> QED BY <1>8 DEF again, F

EmptyKeysOf(fate) == [f \in DOMAIN fate |-> fate[f].emptyKeys]

WarningsOf(fate) == [f \in DOMAIN fate |-> fate[f].warnings]

PlacedOf(fate) == [f \in DOMAIN fate |-> fate[f].placed]

UnmatchedOf(fate) == UNION {fate[f].unmatched : f \in DOMAIN fate}

UsedOf(fate) == UNION {fate[f].used : f \in DOMAIN fate}

\* What Build collects, from the fates of the features and the rest of the options.
BuiltFrom(built, fate, mapping, agg) ==
  /\ ~built.err
  /\ built.territories = TerritoriesOf(FlattenSeq(PlacedOf(fate)), agg)
  /\ built.emptyKeys = Total(EmptyKeysOf(fate)) /\ built.warnings = Total(WarningsOf(fate))
  /\ built.unmatched = UnmatchedOf(fate)
  /\ built.unused = (IF mapping = NoMapping THEN {} ELSE MappingKeys(mapping) \ UsedOf(fate))
  /\ built.duplicates = (IF mapping = NoMapping THEN {} ELSE DuplicateKeys(mapping))

LEMMA BuildIs ==
  ASSUME NEW opts, ~Rejected(opts)
  PROVE  BuiltFrom(Build(opts), Fates(opts), opts.mapping, opts.aggregation)
<1> DEFINE fate == Fates(opts)
           built == Build(opts)
<1>1. built = Collected(opts, fate)
  BY DEF Build, Fates
<1> HIDE DEF fate, built
<1>2. /\ ~built.err
      /\ built.emptyKeys = Total(EmptyKeysOf(fate)) /\ built.warnings = Total(WarningsOf(fate))
  BY <1>1 DEF Collected, EmptyKeysOf, WarningsOf
<1>3. /\ built.unmatched = UnmatchedOf(fate)
      /\ built.unused = (IF opts.mapping = NoMapping THEN {} ELSE MappingKeys(opts.mapping) \ UsedOf(fate))
      /\ built.duplicates = (IF opts.mapping = NoMapping THEN {} ELSE DuplicateKeys(opts.mapping))
  BY <1>1 DEF Collected, UnmatchedOf, UsedOf
<1>4. built.territories = TerritoriesOf(FlattenSeq(PlacedOf(fate)), opts.aggregation)
  <2> DEFINE placed == FlattenSeq(PlacedOf(fate))
             Of(group) == buildTerritory(group, Kept(placed, {x \in ToSet(placed) : x.group = group}), opts.aggregation)
  <2>1. built.territories = {Of(group) : group \in {placed[i].group : i \in DOMAIN placed}}
    BY <1>1 DEF Collected, PlacedOf
  <2>2. TerritoriesOf(placed, opts.aggregation) = {Of(group) : group \in {placed[i].group : i \in DOMAIN placed}}
    BY DEF TerritoriesOf, GroupsOf, InGroup
  <2> HIDE DEF Of, placed
  <2>3. built.territories = TerritoriesOf(placed, opts.aggregation)
    BY <2>1, <2>2
  <2> QED BY <2>3 DEF placed
<1> QED BY <1>2, <1>3, <1>4 DEF BuiltFrom, fate, built

\* The fates of the features in two orders.
MovedFates(moved, fate, p, N) ==
  /\ DOMAIN fate = 1..N /\ Pairing(p, 1..N, 1..N) /\ moved = [f \in 1..N |-> fate[p[f]]]
  /\ \A f \in 1..N : fate[f].emptyKeys \in Nat /\ fate[f].warnings \in Nat

LEMMA FatesRearranged ==
  ASSUME NEW N \in Nat, NEW fate, NEW p, NEW moved, MovedFates(moved, fate, p, N)
  PROVE  /\ Total(EmptyKeysOf(moved)) = Total(EmptyKeysOf(fate)) /\ Total(WarningsOf(moved)) = Total(WarningsOf(fate))
         /\ UnmatchedOf(moved) = UnmatchedOf(fate) /\ UsedOf(moved) = UsedOf(fate)
<1>0. /\ DOMAIN fate = 1..N /\ Pairing(p, 1..N, 1..N) /\ moved = [f \in 1..N |-> fate[p[f]]]
      /\ \A f \in 1..N : fate[f].emptyKeys \in Nat /\ fate[f].warnings \in Nat
  BY DEF MovedFates
<1> DEFINE e == EmptyKeysOf(fate)
           w == WarningsOf(fate)
           f1 == EmptyKeysOf(moved)
           f2 == WarningsOf(moved)
<1>1. \A f \in 1..N : p[f] \in 1..N
  BY <1>0 DEF Pairing
<1>2. \A k \in 1..N : \E f \in 1..N : p[f] = k
  BY <1>0 DEF Pairing
<1>3. DOMAIN moved = 1..N /\ \A f \in 1..N : moved[f] = fate[p[f]]
  BY <1>0
<1>4. e = [f \in 1..N |-> fate[f].emptyKeys] /\ w = [f \in 1..N |-> fate[f].warnings]
  BY <1>0 DEF EmptyKeysOf, WarningsOf
<1>5. f1 = [f \in 1..N |-> moved[f].emptyKeys] /\ f2 = [f \in 1..N |-> moved[f].warnings]
  BY <1>3 DEF EmptyKeysOf, WarningsOf
<1> HIDE DEF e, w, f1, f2
<1>6. \A f \in 1..N : moved[f].emptyKeys \in Int /\ moved[f].warnings \in Int
  BY <1>0, <1>1, <1>3
<1>7. e \in Seq(Int) /\ Len(e) = N /\ w \in Seq(Int) /\ Len(w) = N
  <2>1. e \in [1..N -> Int] /\ w \in [1..N -> Int]
    BY <1>0, <1>4
  <2> QED BY <2>1
<1>8. f1 \in Seq(Int) /\ Len(f1) = N /\ f2 \in Seq(Int) /\ Len(f2) = N
  <2>1. f1 \in [1..N -> Int] /\ f2 \in [1..N -> Int]
    BY <1>5, <1>6
  <2> QED BY <2>1
<1>9. Rearranged(e, f1)
  <2>1. \A f \in 1..N : f1[f] = e[p[f]]
    BY <1>1, <1>3, <1>4, <1>5
  <2> QED BY <1>0, <1>7, <1>8, <2>1 DEF Rearranged
<1>10. Rearranged(w, f2)
  <2>1. \A f \in 1..N : f2[f] = w[p[f]]
    BY <1>1, <1>3, <1>4, <1>5
  <2> QED BY <1>0, <1>7, <1>8, <2>1 DEF Rearranged
<1>11. Total(e) = Total(f1) /\ Total(w) = Total(f2)
  BY <1>7, <1>8, <1>9, <1>10, TotalRearranged
<1>12. \A x : x \in UnmatchedOf(moved) <=> x \in UnmatchedOf(fate)
  <2>1. \A x : x \in UnmatchedOf(moved) <=> \E f \in 1..N : x \in fate[p[f]].unmatched
    BY <1>3 DEF UnmatchedOf
  <2>2. \A x : x \in UnmatchedOf(fate) <=> \E f \in 1..N : x \in fate[f].unmatched
    BY <1>0 DEF UnmatchedOf
  <2> QED BY <1>1, <1>2, <2>1, <2>2
<1>13. \A x : x \in UsedOf(moved) <=> x \in UsedOf(fate)
  <2>1. \A x : x \in UsedOf(moved) <=> \E f \in 1..N : x \in fate[p[f]].used
    BY <1>3 DEF UsedOf
  <2>2. \A x : x \in UsedOf(fate) <=> \E f \in 1..N : x \in fate[f].used
    BY <1>0 DEF UsedOf
  <2> QED BY <1>1, <1>2, <2>1, <2>2
<1>14. UnmatchedOf(moved) = UnmatchedOf(fate)
  BY <1>12 DEF UnmatchedOf
<1>15. UsedOf(moved) = UsedOf(fate)
  BY <1>13 DEF UsedOf
<1> QED BY <1>11, <1>14, <1>15 DEF e, w, f1, f2

LEMMA BuildSame ==
  ASSUME NEW opts, AreOptions(opts), FieldsAreNumbers(opts), ~Rejected(opts),
         NEW p \in Bijection(DOMAIN opts.features, DOMAIN opts.features)
  PROVE  SameButForOrder(opts.aggregation, Build(opts), Build(Reordered(opts, p)))
<1> DEFINE N == Len(opts.features)
           fs == opts.features
           fate == Fates(opts)
           again == Reordered(opts, p)
           moved == Fates(again)
           ss == PlacedOf(fate)
           tt == PlacedOf(moved)
           agg == opts.aggregation
           b == Build(opts)
           c == Build(again)
           X(f) == {fate[f].placed[i] : i \in DOMAIN fate[f].placed}
           T == UNION {X(f) : f \in 1..N}
<1>1. N \in Nat /\ DOMAIN fs = 1..N
  BY DEF AreOptions
<1>2. DOMAIN fate = 1..N /\ \A f \in 1..N : fate[f] = Fate(opts, fs[f])
  BY <1>1 DEF Fates
<1>3. Pairing(p, 1..N, 1..N) /\ DOMAIN p = 1..N
  BY <1>1, BijectionPairs
<1>4. moved = [f \in 1..N |-> fate[p[f]]]
  BY <1>1, <1>3, ReorderedFates
<1>5. \A f \in 1..N : Accounts(fate[f], fs[f], RowsJoining(opts, f))
  BY <1>1, <1>2, FateAccounts
<1>6. ASSUME NEW f \in 1..N PROVE \A x \in X(f) : HasNumbers(x)
  BY <1>1, <1>2, FateHasNumbers
<1>7. again.mapping = opts.mapping /\ again.aggregation = agg /\ (Rejected(again) <=> Rejected(opts))
  BY DEF Reordered, Rejected
<1>8. BuiltFrom(b, fate, opts.mapping, agg)
  BY BuildIs
<1>9. BuiltFrom(c, moved, opts.mapping, agg)
  <2>1. BuiltFrom(c, moved, again.mapping, again.aggregation)
    <3> HIDE DEF again
    <3> QED BY <1>7, BuildIs
  <2> HIDE DEF again, moved, c
  <2> QED BY <1>7, <2>1
<1> HIDE DEF fs, N, fate, again, moved, b, c, agg
<1>10. /\ Total(EmptyKeysOf(moved)) = Total(EmptyKeysOf(fate)) /\ Total(WarningsOf(moved)) = Total(WarningsOf(fate))
       /\ UnmatchedOf(moved) = UnmatchedOf(fate) /\ UsedOf(moved) = UsedOf(fate)
  <2>1. \A f \in 1..N : fate[f].emptyKeys \in Nat /\ fate[f].warnings \in Nat
    BY <1>5 DEF Accounts
  <2>2. MovedFates(moved, fate, p, N)
    BY <1>2, <1>3, <1>4, <2>1 DEF MovedFates
  <2> QED BY <1>1, <2>2, FatesRearranged
<1>11. \A f \in 1..N : fate[f].placed \in Seq(T)
  <2> SUFFICES ASSUME NEW f \in 1..N PROVE fate[f].placed \in Seq(T)
    OBVIOUS
  <2>1. fate[f].placed \in Seq(X(f))
    BY <1>5 DEF Accounts
  <2>2. X(f) \subseteq T
    OBVIOUS
  <2> HIDE DEF X, T
  <2> QED BY <2>1, <2>2, SequencesOver
<1>12. \A x \in T : HasNumbers(x)
  <2> HIDE DEF X
  <2> QED BY <1>6
<1> HIDE DEF X, T
<1>13. \A f \in 1..N : p[f] \in 1..N
  BY <1>3 DEF Pairing
<1>14. ss \in Seq(Seq(T)) /\ Len(ss) = N /\ tt = [f \in 1..N |-> ss[p[f]]]
  <2>1. ss = [f \in 1..N |-> fate[f].placed]
    BY <1>2 DEF PlacedOf
  <2>2. DOMAIN moved = 1..N /\ \A f \in 1..N : moved[f] = fate[p[f]]
    BY <1>4
  <2>3. tt = [f \in 1..N |-> moved[f].placed]
    BY <2>2 DEF PlacedOf
  <2> HIDE DEF ss, tt
  <2>4. ss \in Seq(Seq(T)) /\ Len(ss) = N
    <3>1. ss \in [1..N -> Seq(T)]
      BY <1>11, <2>1
    <3> QED BY <1>1, <3>1
  <2>5. \A f \in 1..N : moved[f].placed = ss[p[f]]
    BY <1>13, <2>1, <2>2
  <2> QED BY <2>3, <2>4, <2>5
<1> HIDE DEF ss, tt
<1>15. Rearranged(FlattenSeq(ss), FlattenSeq(tt)) /\ FlattenSeq(ss) \in Seq(T) /\ FlattenSeq(tt) \in Seq(T)
  BY <1>3, <1>14, FlattenRearranged
<1>16. Outlines(FlattenSeq(tt), agg) = Outlines(FlattenSeq(ss), agg)
  BY <1>12, <1>15, TerritoriesSame
<1>17. {Unordered(agg, x) : x \in c.territories} = {Unordered(agg, x) : x \in b.territories}
  BY <1>8, <1>9, <1>16 DEF BuiltFrom, Outlines, ss, tt
<1>18. /\ ~c.err /\ c.emptyKeys = b.emptyKeys /\ c.warnings = b.warnings
       /\ c.unmatched = b.unmatched /\ c.unused = b.unused /\ c.duplicates = b.duplicates
  BY <1>8, <1>9, <1>10 DEF BuiltFrom
<1>19. SameButForOrder(agg, b, c)
  BY <1>17, <1>18 DEF SameButForOrder
<1> QED BY <1>19 DEF agg, b, c, again

-----------------------------------------------------------------------------
(* The report of a dissolve                                                *)

LEMMA ReportAccounts == ReportInv => MembersAreAccounted
<1> SUFFICES ASSUME ReportInv, Done("territory"), ~result.err PROVE MembersAreAccounted
  BY DEF MembersAreAccounted
<1> DEFINE opts == job.call
           built == result.built
<1>1. PICK order \in SweepOrders(opts.features) : result = Validate(opts, order)
  BY DEF ReportInv
<1>2. AreOptions(opts)
  BY JobsAssumption DEF ReportInv, Done, AreOptions
<1>3. ~Build(opts).err /\ built = Build(opts)
  BY <1>1 DEF Validate, Report
<1>4. ~Rejected(opts)
  BY <1>3 DEF Build
<1> HIDE DEF opts, built
<1>5. WellAccounted(opts, built)
  BY <1>2, <1>3, <1>4, BuildAccounts
<1>6. {f \in DOMAIN opts.features : Lost(opts, built.unmatched, f)} =
      {f \in DOMAIN opts.features : /\ RowsJoining(opts, f) = {}
                                    /\ \E p \in DOMAIN opts.features[f].geometry : opts.features[f].geometry[p] # <<>>
                                    /\ opts.features[f].key \notin built.unmatched}
  BY DEF Lost, HasRing
<1>7. FieldsAreNumbers(opts)
  BY JobsAssumption DEF ReportInv, Done, FieldsAreNumbers, HasNumbers, opts
<1>8. \A p \in Bijection(DOMAIN opts.features, DOMAIN opts.features) :
        SameButForOrder(opts.aggregation, built, Build(Reordered(opts, p)))
  BY <1>2, <1>3, <1>4, <1>7, BuildSame
<1>9. \A p \in Bijection(DOMAIN opts.features, DOMAIN opts.features) :
        \E again \in {Build(Reordered(opts, p))} : SameButForOrder(opts.aggregation, built, again)
  BY <1>8
<1> QED BY <1>5, <1>6, <1>9 DEF WellAccounted, MembersAreAccounted, opts, built

(* There is a territory for every group a feature is joined to and no other, *)
(* with a member counted for each join and named; and every feature lost has *)
(* an entry of its own in the diagnostics: for any number of features of any *)
(* geometry and key, with any mapping or prefix.                             *)
THEOREM MembersAccounted == GeometrySpec => []MembersAreAccounted
<1>1. ReportInv => MembersAreAccounted
  BY ReportAccounts
<1>2. GeometrySpec => []ReportInv
  BY ReportInvInit, ReportInvNext, PTL DEF GeometrySpec
<1> QED BY <1>1, <1>2, PTL

-----------------------------------------------------------------------------
(* The clipping of a segment                                                 *)

Fractions == Int \X (Nat \ {0})

LEMMA TimesKeepsOrder ==
  ASSUME NEW x \in Int, NEW y \in Int, NEW k \in Nat \ {0}
  PROVE  x <= y <=> x * k <= y * k
<1>1. x <= y => x * k <= y * k
  <2> SUFFICES ASSUME x <= y PROVE x * k <= y * k
    OBVIOUS
  <2>1. (y - x) * k >= 0
    OBVIOUS
  <2>2. (y - x) * k = y * k - x * k
    OBVIOUS
  <2>3. x * k \in Int /\ y * k \in Int
    OBVIOUS
  <2> QED BY <2>1, <2>2, <2>3
<1>2. y < x => y * k < x * k
  <2> SUFFICES ASSUME y < x PROVE y * k < x * k
    OBVIOUS
  <2>1. (x - y) * k >= 1
    OBVIOUS
  <2>2. (x - y) * k = x * k - y * k
    OBVIOUS
  <2>3. x * k \in Int /\ y * k \in Int
    OBVIOUS
  <2> QED BY <2>1, <2>2, <2>3
<1>3. x * k \in Int /\ y * k \in Int
  OBVIOUS
<1> QED BY <1>1, <1>2, <1>3

LEMMA AtMostTransitive ==
  ASSUME NEW r \in Fractions, NEW s \in Fractions, NEW t \in Fractions, AtMost(r, s), AtMost(s, t)
  PROVE  AtMost(r, t)
<1>1. PICK r1 \in Int, r2 \in Nat \ {0} : r[1] = r1 /\ r[2] = r2
  BY DEF Fractions
<1>2. PICK s1 \in Int, s2 \in Nat \ {0} : s[1] = s1 /\ s[2] = s2
  BY DEF Fractions
<1>3. PICK t1 \in Int, t2 \in Nat \ {0} : t[1] = t1 /\ t[2] = t2
  BY DEF Fractions
<1> DEFINE rs == r1 * s2
           sr == s1 * r2
           st == s1 * t2
           ts == t1 * s2
           rt == r1 * t2
           tr == t1 * r2
<1>4. rs <= sr /\ st <= ts
  BY <1>1, <1>2, <1>3 DEF AtMost
<1>5. rs \in Int /\ sr \in Int /\ st \in Int /\ ts \in Int /\ rt \in Int /\ tr \in Int
  OBVIOUS
<1>6. rs * t2 = rt * s2 /\ sr * t2 = st * r2 /\ ts * r2 = tr * s2
  OBVIOUS
<1> HIDE DEF rs, sr, st, ts, rt, tr
<1>7. rs * t2 <= sr * t2 /\ st * r2 <= ts * r2
  BY <1>4, <1>5, TimesKeepsOrder
<1>8. rt * s2 <= tr * s2
  <2>1. rt * s2 \in Int /\ st * r2 \in Int /\ tr * s2 \in Int
    BY <1>5
  <2> QED BY <1>6, <1>7, <2>1
<1>9. rt <= tr
  BY <1>5, <1>8, TimesKeepsOrder
<1> QED BY <1>1, <1>3, <1>9 DEF AtMost, rt, tr

LEMMA AtMostTotal ==
  ASSUME NEW r \in Fractions, NEW s \in Fractions
  PROVE  (AtMost(r, s) \/ AtMost(s, r)) /\ AtMost(r, r)
<1>1. r[1] * s[2] \in Int /\ s[1] * r[2] \in Int /\ r[1] * r[2] \in Int
  BY DEF Fractions
<1> QED BY <1>1 DEF AtMost

HasGreatest(S) == S \subseteq Fractions /\ \E r \in S : \A s \in S : AtMost(s, r)

HasLeast(S) == S \subseteq Fractions /\ \E r \in S : \A s \in S : AtMost(r, s)

LEMMA GreatestOfMore ==
  ASSUME NEW S, HasGreatest(S), NEW x \in Fractions
  PROVE  HasGreatest(S \cup {x})
<1>1. S \subseteq Fractions
  BY DEF HasGreatest
<1>2. PICK r \in S : \A s \in S : AtMost(s, r)
  BY DEF HasGreatest
<1>3. CASE AtMost(x, r)
  BY <1>1, <1>2, <1>3 DEF HasGreatest
<1>4. CASE AtMost(r, x)
  <2>1. AtMost(x, x)
    BY AtMostTotal
  <2>2. \A s \in S : AtMost(s, x)
    BY <1>1, <1>2, <1>4, AtMostTransitive
  <2> QED BY <1>1, <2>1, <2>2 DEF HasGreatest
<1> QED BY <1>1, <1>2, <1>3, <1>4, AtMostTotal

LEMMA LeastOfMore ==
  ASSUME NEW S, HasLeast(S), NEW x \in Fractions
  PROVE  HasLeast(S \cup {x})
<1>1. S \subseteq Fractions
  BY DEF HasLeast
<1>2. PICK r \in S : \A s \in S : AtMost(r, s)
  BY DEF HasLeast
<1>3. CASE AtMost(r, x)
  BY <1>1, <1>2, <1>3 DEF HasLeast
<1>4. CASE AtMost(x, r)
  <2>1. AtMost(x, x)
    BY AtMostTotal
  <2>2. \A s \in S : AtMost(x, s)
    BY <1>1, <1>2, <1>4, AtMostTransitive
  <2> QED BY <1>1, <2>1, <2>2 DEF HasLeast
<1> QED BY <1>1, <1>2, <1>3, <1>4, AtMostTotal

\* The parameters at which limits are met, on the way in and on the way out.
Met(l) == Fraction(l[2], l[1])

Entries(L) == {<<0, 1>>} \cup {Met(l) : l \in {l \in L : l[1] < 0}}

Exits(L) == {<<1, 1>>} \cup {Met(l) : l \in {l \in L : l[1] > 0}}

LEMMA MetIsFraction ==
  ASSUME NEW l \in Int \X Int, l[1] # 0
  PROVE  Met(l) \in Fractions /\ Met(l) = IF l[1] < 0 THEN <<-l[2], -l[1]>> ELSE <<l[2], l[1]>>
BY DEF Met, Fraction, Fractions

LEMMA ParametersExist ==
  ASSUME NEW l1 \in Int \X Int, NEW l2 \in Int \X Int, NEW l3 \in Int \X Int, NEW l4 \in Int \X Int
  PROVE  HasGreatest(Entries({l1, l2, l3, l4})) /\ HasLeast(Exits({l1, l2, l3, l4}))
<1>1. HasGreatest(Entries({})) /\ HasLeast(Exits({}))
  <2>1. Entries({}) = {<<0, 1>>} /\ Exits({}) = {<<1, 1>>}
    BY DEF Entries, Exits
  <2>2. <<0, 1>> \in Fractions /\ <<1, 1>> \in Fractions
    BY DEF Fractions
  <2> QED BY <2>1, <2>2, AtMostTotal DEF HasGreatest, HasLeast
<1>2. ASSUME NEW L, NEW l \in Int \X Int, HasGreatest(Entries(L)), HasLeast(Exits(L))
      PROVE  HasGreatest(Entries(L \cup {l})) /\ HasLeast(Exits(L \cup {l}))
  <2>1. Entries(L \cup {l}) = IF l[1] < 0 THEN Entries(L) \cup {Met(l)} ELSE Entries(L)
    BY DEF Entries
  <2>2. Exits(L \cup {l}) = IF l[1] > 0 THEN Exits(L) \cup {Met(l)} ELSE Exits(L)
    BY DEF Exits
  <2>3. l[1] # 0 => Met(l) \in Fractions
    BY MetIsFraction
  <2>4. l[1] \in Int
    OBVIOUS
  <2> QED BY <1>2, <2>1, <2>2, <2>3, <2>4, GreatestOfMore, LeastOfMore
<1>3. HasGreatest(Entries({l1})) /\ HasLeast(Exits({l1}))
  <2>1. {} \cup {l1} = {l1}
    OBVIOUS
  <2> QED BY <1>1, <1>2, <2>1
<1>4. HasGreatest(Entries({l1, l2})) /\ HasLeast(Exits({l1, l2}))
  <2>1. {l1} \cup {l2} = {l1, l2}
    OBVIOUS
  <2> QED BY <1>2, <1>3, <2>1
<1>5. HasGreatest(Entries({l1, l2, l3})) /\ HasLeast(Exits({l1, l2, l3}))
  <2>1. {l1, l2} \cup {l3} = {l1, l2, l3}
    OBVIOUS
  <2> QED BY <1>2, <1>4, <2>1
<1>6. {l1, l2, l3} \cup {l4} = {l1, l2, l3, l4}
  OBVIOUS
<1> QED BY <1>2, <1>5, <1>6

LEMMA RoundIs ==
  ASSUME NEW n1 \in Int, NEW d \in Nat \ {0}
  PROVE  /\ Round(<<n1, d>>) \in Int
         /\ n1 >= 0 => Round(<<n1, d>>) = (2 * n1 + d) \div (2 * d)
         /\ n1 < 0 => Round(<<n1, d>>) = -((2 * (-n1) + d) \div (2 * d))
<1>1. 2 * d \in Nat \ {0} /\ 2 * n1 + d \in Int /\ 2 * (-n1) + d \in Int
  OBVIOUS
<1>2. (2 * n1 + d) \div (2 * d) \in Int /\ (2 * (-n1) + d) \div (2 * d) \in Int
  BY <1>1, DivisionIs
<1> QED BY <1>2 DEF Round

LEMMA RoundWhole ==
  ASSUME NEW x \in Int, NEW d \in Nat \ {0}
  PROVE  Round(<<x * d, d>>) = x
<1>1. 2 * d \in Nat \ {0} /\ d \in 0..(2 * d - 1) /\ x * d \in Int
  OBVIOUS
<1>2. CASE x >= 0
  <2>1. x * d >= 0
    BY <1>2
  <2>2. ((2 * d) * x + d) \div (2 * d) = x
    BY <1>1, DivisionIsUnique
  <2>3. 2 * (x * d) + d = (2 * d) * x + d
    OBVIOUS
  <2> QED BY <1>1, <2>1, <2>2, <2>3, RoundIs
<1>3. CASE x < 0
  <2>1. x * d < 0
    BY <1>3
  <2>2. ((2 * d) * (-x) + d) \div (2 * d) = -x
    BY <1>1, DivisionIsUnique
  <2>3. 2 * (-(x * d)) + d = (2 * d) * (-x) + d
    OBVIOUS
  <2>4. Round(<<x * d, d>>) = -(-x)
    BY <1>1, <2>1, <2>2, <2>3, RoundIs
  <2> QED BY <2>4
<1> QED BY <1>2, <1>3

LEMMA RoundInside ==
  ASSUME NEW w \in Nat, NEW d \in Nat \ {0}, NEW n1 \in Int, 0 <= n1, n1 <= w * d
  PROVE  Round(<<n1, d>>) \in 0..w
<1>0. n1 >= 0
  OBVIOUS
<1> DEFINE q == (2 * n1 + d) \div (2 * d)
           r == (2 * n1 + d) % (2 * d)
<1>1. 2 * d \in Nat \ {0} /\ 2 * n1 + d \in Int
  OBVIOUS
<1>2. q \in Int /\ r \in 0..(2 * d - 1) /\ 2 * n1 + d = (2 * d) * q + r
  BY <1>1, DivisionIs
<1>3. Round(<<n1, d>>) = q
  BY <1>0, RoundIs, Zenon
<1> HIDE DEF q, r
<1>4. q >= 0
  <2> SUFFICES ASSUME q <= -1 PROVE FALSE
    BY <1>2
  <2>1. (2 * d) * q <= -(2 * d)
    BY <1>2
  <2> QED BY <1>2, <2>1
<1>5. q <= w
  <2> SUFFICES ASSUME q >= w + 1 PROVE FALSE
    BY <1>2
  <2> DEFINE p == (2 * d) * q
             e == w * d
  <2>1. p >= (2 * d) * (w + 1)
    BY <1>2
  <2>2. (2 * d) * (w + 1) = 2 * e + 2 * d
    OBVIOUS
  <2>3. p \in Int /\ e \in Int /\ n1 <= e /\ 2 * n1 + d = p + r
    BY <1>2
  <2> HIDE DEF p, e
  <2> QED BY <1>2, <2>1, <2>2, <2>3
<1> QED BY <1>2, <1>3, <1>4, <1>5

Starts(t) == t[1] = 0

\* The pixel at a parameter of a segment.
Along(a, b, t) ==
  <<Round(<<a[1] * t[2] + t[1] * (b[1] - a[1]), t[2]>>), Round(<<a[2] * t[2] + t[1] * (b[2] - a[2]), t[2]>>)>>

Meets(t, l) == t[1] * l[1] <= l[2] * t[2]

LEMMA AlongInside ==
  ASSUME NEW a \in Int \X Int, NEW b \in Int \X Int, NEW t \in Fractions, \A l \in Limits(a, b) : Meets(t, l)
  PROVE  Along(a, b, t) \in Int \X Int /\ InTile(Along(a, b, t))
<1> USE ExtentAssumption
<1>1. PICK m \in Int, d \in Nat \ {0} : t[1] = m /\ t[2] = d
  BY DEF Fractions
<1>2. ASSUME NEW x \in Int, NEW y \in Int, m * (x - y) <= x * d, m * (y - x) <= (tileExtent - x) * d
      PROVE  Round(<<x * d + m * (y - x), d>>) \in 0..tileExtent
  <2> DEFINE k == x * d + m * (y - x)
  <2>1. k \in Int
    OBVIOUS
  <2>2. 0 <= k
    <3>1. m * (x - y) = -(m * (y - x)) /\ m * (y - x) \in Int /\ x * d \in Int
      OBVIOUS
    <3> QED BY <1>2, <3>1
  <2>3. k <= tileExtent * d
    <3>1. (tileExtent - x) * d = tileExtent * d - x * d /\ m * (y - x) \in Int /\ x * d \in Int /\ tileExtent * d \in Int
      OBVIOUS
    <3> QED BY <1>2, <3>1
  <2> HIDE DEF k
  <2> QED BY <2>1, <2>2, <2>3, RoundInside DEF k
<1>3. /\ m * (a[1] - b[1]) <= a[1] * d /\ m * (b[1] - a[1]) <= (tileExtent - a[1]) * d
      /\ m * (a[2] - b[2]) <= a[2] * d /\ m * (b[2] - a[2]) <= (tileExtent - a[2]) * d
  BY <1>1 DEF Limits, Meets
<1>4. a[1] \in Int /\ a[2] \in Int /\ b[1] \in Int /\ b[2] \in Int
  OBVIOUS
<1>5. Round(<<a[1] * d + m * (b[1] - a[1]), d>>) \in 0..tileExtent /\ Round(<<a[2] * d + m * (b[2] - a[2]), d>>) \in 0..tileExtent
  BY <1>2, <1>3, <1>4
<1>6. Along(a, b, t) = <<Round(<<a[1] * d + m * (b[1] - a[1]), d>>), Round(<<a[2] * d + m * (b[2] - a[2]), d>>)>>
  BY <1>1 DEF Along
<1> QED BY <1>5, <1>6 DEF InTile

LEMMA AlongEnds ==
  ASSUME NEW a \in Int \X Int, NEW b \in Int \X Int, NEW t \in Fractions
  PROVE  /\ Starts(t) => Along(a, b, t) = a
         /\ t[1] = t[2] => Along(a, b, t) = b
         /\ Along(a, b, t) \in Int \X Int
<1>1. PICK m \in Int, d \in Nat \ {0} : t[1] = m /\ t[2] = d
  BY DEF Fractions
<1>2. a[1] \in Int /\ a[2] \in Int /\ b[1] \in Int /\ b[2] \in Int /\ a = <<a[1], a[2]>> /\ b = <<b[1], b[2]>>
  OBVIOUS
<1>3. ASSUME NEW x \in Int, NEW y \in Int
      PROVE  /\ m = 0 => Round(<<x * d + m * (y - x), d>>) = x
             /\ m = d => Round(<<x * d + m * (y - x), d>>) = y
             /\ Round(<<x * d + m * (y - x), d>>) \in Int
  <2>1. m = 0 => x * d + m * (y - x) = x * d
    OBVIOUS
  <2>2. m = d => x * d + m * (y - x) = y * d
    OBVIOUS
  <2>3. x * d + m * (y - x) \in Int
    OBVIOUS
  <2> QED BY <2>1, <2>2, <2>3, RoundWhole, RoundIs
<1> QED BY <1>1, <1>2, <1>3 DEF Along, Starts

LEMMA LimitsFacts ==
  ASSUME NEW a \in Int \X Int, NEW b \in Int \X Int
  PROVE  /\ Limits(a, b) \subseteq Int \X Int
         /\ HasGreatest(Entries(Limits(a, b))) /\ HasLeast(Exits(Limits(a, b)))
         /\ InTile(a) => \A l \in Limits(a, b) : l[2] >= 0
         /\ InTile(b) => \A l \in Limits(a, b) : l[2] >= l[1]
<1> USE ExtentAssumption
<1> DEFINE l1 == <<a[1] - b[1], a[1]>>
           l2 == <<b[1] - a[1], tileExtent - a[1]>>
           l3 == <<a[2] - b[2], a[2]>>
           l4 == <<b[2] - a[2], tileExtent - a[2]>>
<1>1. a[1] \in Int /\ a[2] \in Int /\ b[1] \in Int /\ b[2] \in Int
  OBVIOUS
<1>2. l1 \in Int \X Int /\ l2 \in Int \X Int /\ l3 \in Int \X Int /\ l4 \in Int \X Int
  BY <1>1
<1>3. Limits(a, b) = {l1, l2, l3, l4}
  BY DEF Limits
<1>4. InTile(a) => l1[2] >= 0 /\ l2[2] >= 0 /\ l3[2] >= 0 /\ l4[2] >= 0
  BY <1>1 DEF InTile
<1>5. InTile(b) => l1[2] >= l1[1] /\ l2[2] >= l2[1] /\ l3[2] >= l3[1] /\ l4[2] >= l4[1]
  BY <1>1 DEF InTile
<1> HIDE DEF l1, l2, l3, l4
<1>6. HasGreatest(Entries({l1, l2, l3, l4})) /\ HasLeast(Exits({l1, l2, l3, l4}))
  BY <1>2, ParametersExist
<1> QED BY <1>2, <1>3, <1>4, <1>5, <1>6

LEMMA MeetsFacts ==
  ASSUME NEW l \in Int \X Int, NEW t \in Fractions
  PROVE  /\ (l[1] < 0 /\ AtMost(Met(l), t)) => Meets(t, l)
         /\ (l[1] > 0 /\ AtMost(t, Met(l))) => Meets(t, l)
         /\ (l[1] = 0 /\ l[2] >= 0) => Meets(t, l)
<1>1. PICK m \in Int, d \in Nat \ {0} : t[1] = m /\ t[2] = d
  BY DEF Fractions
<1>2. PICK p \in Int, q \in Int : l[1] = p /\ l[2] = q
  OBVIOUS
<1>3. ASSUME p < 0, AtMost(Met(l), t) PROVE m * p <= q * d
  <2>1. Met(l) = <<-q, -p>>
    BY <1>2, <1>3, MetIsFraction
  <2>2. (-q) * d <= m * (-p)
    BY <1>1, <1>3, <2>1 DEF AtMost
  <2>3. (-q) * d = -(q * d) /\ m * (-p) = -(m * p) /\ q * d \in Int /\ m * p \in Int
    OBVIOUS
  <2> QED BY <2>2, <2>3
<1>4. ASSUME p > 0, AtMost(t, Met(l)) PROVE m * p <= q * d
  <2>1. Met(l) = <<q, p>>
    BY <1>2, <1>4, MetIsFraction
  <2> QED BY <1>1, <1>4, <2>1 DEF AtMost
<1>5. ASSUME p = 0, q >= 0 PROVE m * p <= q * d
  <2>1. m * p = 0 /\ q * d >= 0
    BY <1>5
  <2> QED BY <2>1
<1> QED BY <1>1, <1>2, <1>3, <1>4, <1>5 DEF Meets

\* Where a segment enters and leaves the tile.
Entry(a, b) == Greatest(Entries(Limits(a, b)))

Exit(a, b) == Least(Exits(Limits(a, b)))

LEMMA EntryExit ==
  ASSUME NEW a \in Int \X Int, NEW b \in Int \X Int
  PROVE  /\ Entry(a, b) \in Fractions /\ Entry(a, b) \in Entries(Limits(a, b))
         /\ \A t \in Entries(Limits(a, b)) : AtMost(t, Entry(a, b))
         /\ Exit(a, b) \in Fractions /\ Exit(a, b) \in Exits(Limits(a, b))
         /\ \A t \in Exits(Limits(a, b)) : AtMost(Exit(a, b), t)
<1>1. HasGreatest(Entries(Limits(a, b))) /\ HasLeast(Exits(Limits(a, b)))
  BY LimitsFacts
<1> DEFINE S == Entries(Limits(a, b))
           T == Exits(Limits(a, b))
<1>2. S \subseteq Fractions /\ T \subseteq Fractions
  BY <1>1 DEF HasGreatest, HasLeast
<1>3. \E r \in S : \A s \in S : AtMost(s, r)
  BY <1>1 DEF HasGreatest
<1>4. \E r \in T : \A s \in T : AtMost(r, s)
  BY <1>1 DEF HasLeast
<1> HIDE DEF S, T
<1>5. Greatest(S) \in S /\ \A s \in S : AtMost(s, Greatest(S))
  BY <1>3 DEF Greatest
<1>6. Least(T) \in T /\ \A s \in T : AtMost(Least(T), s)
  BY <1>4 DEF Least
<1> QED BY <1>2, <1>5, <1>6 DEF Entry, Exit, S, T

LEMMA ClipSegmentIs ==
  ASSUME NEW a, NEW b
  PROVE  LET t0 == Entry(a, b)
             t1 == Exit(a, b)
             ok == AtMost(t0, t1) /\ \A l \in Limits(a, b) : ~(l[1] = 0 /\ l[2] < 0)
         IN  clipSegment(a, b) = IF ok THEN [ok |-> TRUE, a |-> Along(a, b, t0), b |-> Along(a, b, t1)]
                                 ELSE [ok |-> FALSE, a |-> a, b |-> b]
<1>1. Entry(a, b) = Greatest({<<0, 1>>} \cup {Fraction(l[2], l[1]) : l \in {l \in Limits(a, b) : l[1] < 0}})
  BY DEF Entry, Entries, Met
<1>2. Exit(a, b) = Least({<<1, 1>>} \cup {Fraction(l[2], l[1]) : l \in {l \in Limits(a, b) : l[1] > 0}})
  BY DEF Exit, Exits, Met
<1> QED BY <1>1, <1>2 DEF clipSegment, Along

LEMMA EntryInside ==
  ASSUME NEW a \in Int \X Int, NEW b \in Int \X Int, AtMost(Entry(a, b), Exit(a, b)),
         \A l \in Limits(a, b) : ~(l[1] = 0 /\ l[2] < 0), NEW l \in Limits(a, b)
  PROVE  Meets(Entry(a, b), l) /\ Meets(Exit(a, b), l)
<1> DEFINE t0 == Entry(a, b)
           t1 == Exit(a, b)
           L == Limits(a, b)
<1>1. L \subseteq Int \X Int
  BY LimitsFacts
<1>2. t0 \in Fractions /\ t1 \in Fractions /\ (\A t \in Entries(L) : AtMost(t, t0)) /\ \A t \in Exits(L) : AtMost(t1, t)
  BY EntryExit
<1>3. AtMost(t0, t1) /\ l \in L /\ l \in Int \X Int /\ l[1] \in Int /\ l[2] \in Int /\ ~(l[1] = 0 /\ l[2] < 0)
  BY <1>1
<1> HIDE DEF t0, t1, L
<1>4. CASE l[1] < 0
  <2>1. Met(l) \in Entries(L) /\ Met(l) \in Fractions
    BY <1>3, <1>4, MetIsFraction DEF Entries
  <2>2. AtMost(Met(l), t0)
    BY <1>2, <2>1
  <2>3. AtMost(Met(l), t1)
    BY <1>2, <1>3, <2>1, <2>2, AtMostTransitive
  <2> QED BY <1>2, <1>3, <1>4, <2>2, <2>3, MeetsFacts DEF t0, t1
<1>5. CASE l[1] > 0
  <2>1. Met(l) \in Exits(L) /\ Met(l) \in Fractions
    BY <1>3, <1>5, MetIsFraction DEF Exits
  <2>2. AtMost(t1, Met(l))
    BY <1>2, <2>1
  <2>3. AtMost(t0, Met(l))
    BY <1>2, <1>3, <2>1, <2>2, AtMostTransitive
  <2> QED BY <1>2, <1>3, <1>5, <2>2, <2>3, MeetsFacts DEF t0, t1
<1>6. CASE l[1] = 0
  BY <1>2, <1>3, <1>6, MeetsFacts DEF t0, t1
<1> QED BY <1>3, <1>4, <1>5, <1>6

LEMMA EntryAtStart ==
  ASSUME NEW a \in Int \X Int, NEW b \in Int \X Int, InTile(a)
  PROVE  Entry(a, b)[1] = 0 /\ AtMost(Entry(a, b), Exit(a, b))
<1> DEFINE t0 == Entry(a, b)
           t1 == Exit(a, b)
           L == Limits(a, b)
<1>1. L \subseteq Int \X Int /\ \A l \in L : l[1] \in Int /\ l[2] \in Nat
  BY LimitsFacts
<1>2. t0 \in Fractions /\ t0 \in Entries(L) /\ (\A t \in Entries(L) : AtMost(t, t0)) /\ t1 \in Fractions /\ t1 \in Exits(L)
  BY EntryExit
<1> HIDE DEF t0, t1, L
<1>3. t0[1] \in Int /\ t0[2] \in Nat \ {0} /\ t1[1] \in Int /\ t1[2] \in Nat \ {0}
  BY <1>2 DEF Fractions
<1>4. t0[1] >= 0
  <2>1. AtMost(<<0, 1>>, t0)
    BY <1>2 DEF Entries
  <2>2. 0 * t0[2] = 0 /\ t0[1] * 1 = t0[1]
    BY <1>3
  <2> QED BY <2>1, <2>2 DEF AtMost
<1>5. t0[1] <= 0
  <2>1. CASE t0 = <<0, 1>>
    BY <2>1
  <2>2. CASE \E l \in L : l[1] < 0 /\ t0 = Met(l)
    <3>1. PICK l \in L : l[1] < 0 /\ t0 = Met(l)
      BY <2>2
    <3>2. l \in Int \X Int /\ l[2] \in Nat /\ l[1] # 0
      BY <1>1, <3>1
    <3>3. Met(l) = <<-l[2], -l[1]>>
      BY <3>1, <3>2, MetIsFraction
    <3> QED BY <3>1, <3>2, <3>3
  <2> QED BY <1>2, <2>1, <2>2 DEF Entries
<1>6. t1[1] >= 0
  <2>1. CASE t1 = <<1, 1>>
    BY <2>1
  <2>2. CASE \E l \in L : l[1] > 0 /\ t1 = Met(l)
    <3>1. PICK l \in L : l[1] > 0 /\ t1 = Met(l)
      BY <2>2
    <3>2. l \in Int \X Int /\ l[1] \in Int /\ l[2] \in Nat /\ l[1] # 0
      BY <1>1, <3>1
    <3>3. Met(l) = <<l[2], l[1]>>
      BY <3>1, <3>2, MetIsFraction
    <3> QED BY <3>1, <3>2, <3>3
  <2> QED BY <1>2, <2>1, <2>2 DEF Exits
<1>7. t0[1] = 0
  BY <1>3, <1>4, <1>5
<1>8. AtMost(t0, t1)
  <2>1. 0 * t1[2] = 0 /\ t1[1] * t0[2] >= 0
    BY <1>3, <1>6
  <2> QED BY <1>7, <2>1 DEF AtMost
<1> QED BY <1>7, <1>8 DEF t0, t1

LEMMA ExitAtEnd ==
  ASSUME NEW a \in Int \X Int, NEW b \in Int \X Int, InTile(b)
  PROVE  Exit(a, b)[1] = Exit(a, b)[2] /\ AtMost(Entry(a, b), Exit(a, b))
<1> DEFINE t0 == Entry(a, b)
           t1 == Exit(a, b)
           L == Limits(a, b)
<1>1. L \subseteq Int \X Int /\ \A l \in L : l[1] \in Int /\ l[2] \in Int /\ l[2] >= l[1]
  BY LimitsFacts
<1>2. t0 \in Fractions /\ t0 \in Entries(L) /\ (\A t \in Exits(L) : AtMost(t1, t)) /\ t1 \in Fractions /\ t1 \in Exits(L)
  BY EntryExit
<1> HIDE DEF t0, t1, L
<1>3. t0[1] \in Int /\ t0[2] \in Nat \ {0} /\ t1[1] \in Int /\ t1[2] \in Nat \ {0}
  BY <1>2 DEF Fractions
<1>4. t1[1] <= t1[2]
  <2>1. AtMost(t1, <<1, 1>>)
    BY <1>2 DEF Exits
  <2>2. 1 * t1[2] = t1[2] /\ t1[1] * 1 = t1[1]
    BY <1>3
  <2> QED BY <2>1, <2>2 DEF AtMost
<1>5. t1[1] >= t1[2]
  <2>1. CASE t1 = <<1, 1>>
    BY <2>1
  <2>2. CASE \E l \in L : l[1] > 0 /\ t1 = Met(l)
    <3>1. PICK l \in L : l[1] > 0 /\ t1 = Met(l)
      BY <2>2
    <3>2. l \in Int \X Int /\ l[2] \in Int /\ l[1] \in Int /\ l[2] >= l[1] /\ l[1] # 0
      BY <1>1, <3>1
    <3>3. Met(l) = <<l[2], l[1]>>
      BY <3>1, <3>2, MetIsFraction
    <3> QED BY <3>1, <3>2, <3>3
  <2> QED BY <1>2, <2>1, <2>2 DEF Exits
<1>6. t0[1] <= t0[2]
  <2>1. CASE t0 = <<0, 1>>
    BY <2>1
  <2>2. CASE \E l \in L : l[1] < 0 /\ t0 = Met(l)
    <3>1. PICK l \in L : l[1] < 0 /\ t0 = Met(l)
      BY <2>2
    <3>2. l \in Int \X Int /\ l[1] \in Int /\ l[2] \in Int /\ l[2] >= l[1] /\ l[1] # 0
      BY <1>1, <3>1
    <3>3. Met(l) = <<-l[2], -l[1]>>
      BY <3>1, <3>2, MetIsFraction
    <3> QED BY <3>1, <3>2, <3>3
  <2> QED BY <1>2, <2>1, <2>2 DEF Entries
<1>7. t1[1] = t1[2]
  BY <1>3, <1>4, <1>5
<1>8. AtMost(t0, t1)
  <2>1. t0[1] * t1[2] <= t0[2] * t1[2] /\ t0[2] * t1[2] = t1[2] * t0[2]
    BY <1>3, <1>6, TimesKeepsOrder
  <2> QED BY <1>7, <2>1 DEF AtMost
<1> QED BY <1>7, <1>8 DEF t0, t1

LEMMA ClipSegmentFacts ==
  ASSUME NEW a \in Int \X Int, NEW b \in Int \X Int, NEW c, c = clipSegment(a, b)
  PROVE  /\ c.ok \in BOOLEAN /\ c.a \in Int \X Int /\ c.b \in Int \X Int
         /\ c.ok => InTile(c.a) /\ InTile(c.b)
         /\ InTile(a) => c.ok /\ c.a = a
         /\ InTile(b) => c.ok /\ c.b = b
<1> DEFINE t0 == Entry(a, b)
           t1 == Exit(a, b)
           L == Limits(a, b)
           free == \A l \in L : ~(l[1] = 0 /\ l[2] < 0)
           ok == AtMost(t0, t1) /\ free
<1>1. c = IF ok THEN [ok |-> TRUE, a |-> Along(a, b, t0), b |-> Along(a, b, t1)] ELSE [ok |-> FALSE, a |-> a, b |-> b]
  BY ClipSegmentIs
<1>2. t0 \in Fractions /\ t1 \in Fractions
  BY EntryExit
<1>3. Along(a, b, t0) \in Int \X Int /\ Along(a, b, t1) \in Int \X Int
  BY <1>2, AlongEnds
<1>4. ok => InTile(Along(a, b, t0)) /\ InTile(Along(a, b, t1))
  <2> SUFFICES ASSUME ok PROVE InTile(Along(a, b, t0)) /\ InTile(Along(a, b, t1))
    OBVIOUS
  <2>1. \A l \in L : Meets(t0, l) /\ Meets(t1, l)
    BY EntryInside
  <2> QED BY <1>2, <2>1, AlongInside
<1>5. InTile(a) => ok /\ Along(a, b, t0) = a
  <2> SUFFICES ASSUME InTile(a) PROVE ok /\ Along(a, b, t0) = a
    OBVIOUS
  <2>1. t0[1] = 0 /\ AtMost(t0, t1)
    BY EntryAtStart
  <2>2. free
    <3>1. \A l \in L : l[2] >= 0 /\ l[2] \in Int
      BY LimitsFacts
    <3> QED BY <3>1
  <2>3. Along(a, b, t0) = a
    <3>1. Starts(t0)
      BY <2>1 DEF Starts
    <3> HIDE DEF t0, t1, L, free
    <3> QED BY <1>2, <3>1, AlongEnds
  <2> QED BY <2>1, <2>2, <2>3
<1>6. InTile(b) => ok /\ Along(a, b, t1) = b
  <2> SUFFICES ASSUME InTile(b) PROVE ok /\ Along(a, b, t1) = b
    OBVIOUS
  <2>1. t1[1] = t1[2] /\ AtMost(t0, t1)
    BY ExitAtEnd
  <2>2. free
    <3>1. \A l \in L : l[2] >= l[1] /\ l[2] \in Int /\ l[1] \in Int
      BY LimitsFacts
    <3> QED BY <3>1
  <2>3. Along(a, b, t1) = b
    <3> HIDE DEF t0, t1, L, free
    <3> QED BY <1>2, <2>1, AlongEnds
  <2> QED BY <2>1, <2>2, <2>3
<1> HIDE DEF ok, t0, t1, L, free
<1> QED BY <1>1, <1>3, <1>4, <1>5, <1>6

-----------------------------------------------------------------------------
(* Lines and rings in the tile                                               *)

TilePoints == {p \in Int \X Int : InTile(p)}

LEMMA AppendNewFacts ==
  ASSUME NEW T, NEW s \in Seq(T), NEW p \in T
  PROVE  /\ AppendNew(s, p) \in Seq(T) /\ Has(AppendNew(s, p), p)
         /\ \A x : Has(s, x) => Has(AppendNew(s, p), x)
<1>1. Len(s) \in Nat /\ (s # <<>> => Len(s) \in 1..Len(s))
  OBVIOUS
<1>2. CASE s # <<>> /\ Last(s) = p
  <2>1. s[Len(s)] = p
    BY <1>2 DEF Last
  <2>2. AppendNew(s, p) = s
    BY <1>2 DEF AppendNew
  <2> QED BY <1>1, <1>2, <2>1, <2>2 DEF Has
<1>3. CASE ~(s # <<>> /\ Last(s) = p)
  <2> DEFINE t == Append(s, p)
  <2>1. t \in Seq(T) /\ Len(t) = Len(s) + 1 /\ t[Len(s) + 1] = p /\ \A i \in 1..Len(s) : t[i] = s[i]
    OBVIOUS
  <2>2. AppendNew(s, p) = t
    BY <1>3 DEF AppendNew
  <2>3. Len(s) + 1 \in 1..Len(t) /\ \A i \in 1..Len(s) : i \in 1..Len(t)
    BY <1>1, <2>1
  <2> HIDE DEF t
  <2> QED BY <2>1, <2>2, <2>3 DEF Has
<1> QED BY <1>2, <1>3

\* A line with the part of a segment that is in the tile.
Onto(out, s) == IF s.ok THEN AppendNew(AppendNew(out, s.a), s.b) ELSE out

Lengthened(out, a, b) == Onto(out, clipSegment(a, b))

LEMMA OntoFacts ==
  ASSUME NEW out \in Seq(TilePoints), NEW a \in Int \X Int, NEW b \in Int \X Int
  PROVE  /\ Lengthened(out, a, b) \in Seq(TilePoints)
         /\ \A x : Has(out, x) => Has(Lengthened(out, a, b), x)
         /\ InTile(a) => Has(Lengthened(out, a, b), a)
         /\ InTile(b) => Has(Lengthened(out, a, b), b)
<1> DEFINE c == clipSegment(a, b)
<1>1. /\ c.ok \in BOOLEAN /\ c.a \in Int \X Int /\ c.b \in Int \X Int
      /\ c.ok => InTile(c.a) /\ InTile(c.b)
      /\ InTile(a) => c.ok /\ c.a = a
      /\ InTile(b) => c.ok /\ c.b = b
  BY ClipSegmentFacts
<1>2. Lengthened(out, a, b) = IF c.ok THEN AppendNew(AppendNew(out, c.a), c.b) ELSE out
  BY DEF Lengthened, Onto
<1> HIDE DEF c
<1>3. CASE ~c.ok
  BY <1>1, <1>2, <1>3
<1>4. CASE c.ok
  <2>1. c.a \in TilePoints /\ c.b \in TilePoints
    BY <1>1, <1>4 DEF TilePoints
  <2> DEFINE s == AppendNew(out, c.a)
  <2>2. s \in Seq(TilePoints) /\ Has(s, c.a) /\ \A x : Has(out, x) => Has(s, x)
    BY <2>1, AppendNewFacts
  <2>3. Lengthened(out, a, b) = AppendNew(s, c.b)
    BY <1>2, <1>4
  <2> HIDE DEF s
  <2>4. /\ Lengthened(out, a, b) \in Seq(TilePoints) /\ Has(Lengthened(out, a, b), c.b)
        /\ \A x : Has(s, x) => Has(Lengthened(out, a, b), x)
    BY <2>1, <2>2, <2>3, AppendNewFacts
  <2> QED BY <1>1, <2>2, <2>4
<1> QED BY <1>1, <1>3, <1>4

LEMMA LineFunction ==
  ASSUME NEW in \in Seq(Int \X Int)
  PROVE  \E f \in [0..Len(in) -> Seq(TilePoints)] :
           /\ \A i \in 0..Len(in) : f[i] = IF i <= 1 THEN <<>> ELSE Lengthened(f[i - 1], in[i - 1], in[i])
           /\ clipLine(in) = f[Len(in)]
<1> DEFINE N == Len(in)
           T == Seq(TilePoints)
           Rec(g) == g = [i \in 0..N |-> IF i <= 1 THEN <<>> ELSE Lengthened(g[i - 1], in[i - 1], in[i])]
           out == CHOOSE g : Rec(g)
<1>1. N \in Nat /\ \A i \in 1..N : in[i] \in Int \X Int
  OBVIOUS
<1>2. clipLine(in) = out[N]
  BY DEF clipLine, Onto, Lengthened
<1>3. <<>> \in T
  OBVIOUS
<1>4. \A s \in T, i \in 2..N : Lengthened(s, in[i - 1], in[i]) \in T
  <2> SUFFICES ASSUME NEW s \in T, NEW i \in 2..N PROVE Lengthened(s, in[i - 1], in[i]) \in T
    OBVIOUS
  <2>1. in[i - 1] \in Int \X Int /\ in[i] \in Int \X Int
    BY <1>1
  <2> QED BY <2>1, OntoFacts
<1> HIDE DEF N, T
<1>5. PICK f \in [0..N -> T] : \A i \in 0..N : f[i] = IF i <= 1 THEN <<>> ELSE Lengthened(f[i - 1], in[i - 1], in[i])
  <2> DEFINE G == [i \in 1..N |-> [s \in T |-> IF i <= 1 THEN <<>> ELSE Lengthened(s, in[i - 1], in[i])]]
  <2>1. G \in [1..N -> [T -> T]]
    BY <1>1, <1>3, <1>4
  <2> HIDE DEF G
  <2>2. Recurs(T, <<>>, N, G)
    BY <1>1, <1>3, <2>1, Recursion
  <2>3. PICK g \in [0..N -> T] : g[0] = <<>> /\ \A i \in 1..N : g[i] = G[i][g[i - 1]]
    BY <2>2 DEF Recurs
  <2>4. ASSUME NEW i \in 1..N PROVE g[i] = IF i <= 1 THEN <<>> ELSE Lengthened(g[i - 1], in[i - 1], in[i])
    <3>1. g[i - 1] \in T
      BY <1>1
    <3> QED BY <2>3, <3>1 DEF G
  <2>5. ASSUME NEW i \in 0..N PROVE g[i] = IF i <= 1 THEN <<>> ELSE Lengthened(g[i - 1], in[i - 1], in[i])
    <3>1. i = 0 \/ i \in 1..N
      BY <1>1
    <3>2. i = 0 => i <= 1
      OBVIOUS
    <3> QED BY <2>3, <2>4, <3>1, <3>2
  <2> QED BY <2>3, <2>5
<1>6. Rec(f)
  BY <1>5
<1>7. Rec(out)
  <2> HIDE DEF Rec
  <2> QED BY <1>6
<1> HIDE DEF out
<1>8. \A i \in 0..N : out[i] = IF i <= 1 THEN <<>> ELSE Lengthened(out[i - 1], in[i - 1], in[i])
  BY <1>7
<1> DEFINE S == {k \in Nat : k <= N => out[k] = f[k]}
<1>9. 0 \in S
  <2>1. 0 \in 0..N /\ 0 <= 1
    BY <1>1
  <2>2. out[0] = <<>> /\ f[0] = <<>>
    BY <1>5, <1>8, <2>1
  <2> QED BY <2>2
<1>10. ASSUME NEW k \in Nat \cap S PROVE k + 1 \in S
  <2> SUFFICES ASSUME k + 1 <= N PROVE out[k + 1] = f[k + 1]
    OBVIOUS
  <2>1. k + 1 \in 0..N /\ (k + 1) - 1 = k /\ k <= N
    BY <1>1
  <2>2. out[k] = f[k]
    BY <2>1
  <2> HIDE DEF S
  <2>3. out[k + 1] = IF k + 1 <= 1 THEN <<>> ELSE Lengthened(out[k], in[k], in[k + 1])
    BY <1>8, <2>1
  <2>4. f[k + 1] = IF k + 1 <= 1 THEN <<>> ELSE Lengthened(f[k], in[k], in[k + 1])
    BY <1>5, <2>1
  <2> QED BY <2>2, <2>3, <2>4
<1>11. \A k \in Nat : k \in S
  <2> HIDE DEF S
  <2> QED BY <1>9, <1>10, Induction
<1>12. out[N] = f[N]
  BY <1>1, <1>11
<1> QED BY <1>2, <1>5, <1>12 DEF N, T

LEMMA ClippedLineFacts ==
  ASSUME NEW in \in Seq(Int \X Int)
  PROVE  /\ clipLine(in) \in Seq(TilePoints)
         /\ Len(clipLine(in)) >= 2 => \A i \in 1..Len(in) : InTile(in[i]) => Has(clipLine(in), in[i])
<1> DEFINE N == Len(in)
<1>1. PICK f \in [0..N -> Seq(TilePoints)] :
        /\ \A i \in 0..N : f[i] = IF i <= 1 THEN <<>> ELSE Lengthened(f[i - 1], in[i - 1], in[i])
        /\ clipLine(in) = f[N]
  BY LineFunction
<1>2. N \in Nat /\ \A i \in 1..N : in[i] \in Int \X Int
  OBVIOUS
<1> HIDE DEF N
<1>3. ASSUME NEW k \in Nat, k >= 1, k + 1 <= N
      PROVE  /\ \A x : Has(f[k], x) => Has(f[k + 1], x)
             /\ InTile(in[k]) => Has(f[k + 1], in[k])
             /\ InTile(in[k + 1]) => Has(f[k + 1], in[k + 1])
  <2>1. k + 1 \in 0..N /\ k \in 0..N /\ (k + 1) - 1 = k /\ ~(k + 1 <= 1)
    BY <1>2, <1>3
  <2>2. f[k + 1] = Lengthened(f[k], in[k], in[k + 1]) /\ f[k] \in Seq(TilePoints)
    BY <1>1, <2>1
  <2>3. in[k] \in Int \X Int /\ in[k + 1] \in Int \X Int
    BY <1>2, <1>3
  <2> QED BY <2>2, <2>3, OntoFacts
<1> DEFINE S == {k \in Nat : (k >= 2 /\ k <= N) => \A i \in 1..k : InTile(in[i]) => Has(f[k], in[i])}
<1>4. 0 \in S
  OBVIOUS
<1>5. ASSUME NEW k \in Nat \cap S PROVE k + 1 \in S
  <2> SUFFICES ASSUME k + 1 >= 2, k + 1 <= N, NEW i \in 1..(k + 1), InTile(in[i]) PROVE Has(f[k + 1], in[i])
    OBVIOUS
  <2>1. k \in Nat /\ k >= 1 /\ k <= N
    BY <1>2
  <2>2. k >= 2 => \A m \in 1..k : InTile(in[m]) => Has(f[k], in[m])
    BY <2>1
  <2> HIDE DEF S
  <2>3. i = k + 1 \/ i = k \/ (k >= 2 /\ i \in 1..k)
    BY <2>1
  <2> QED BY <1>3, <2>1, <2>2, <2>3
<1>6. \A k \in Nat : k \in S
  <2> HIDE DEF S
  <2> QED BY <1>4, <1>5, Induction
<1>7. Len(clipLine(in)) >= 2 => N >= 2
  <2> SUFFICES ASSUME ~(N >= 2) PROVE ~(Len(clipLine(in)) >= 2)
    OBVIOUS
  <2>1. N \in 0..N /\ N <= 1
    BY <1>2
  <2>2. clipLine(in) = <<>>
    BY <1>1, <2>1
  <2> QED BY <2>2
<1>8. N >= 2 => \A i \in 1..N : InTile(in[i]) => Has(f[N], in[i])
  BY <1>2, <1>6
<1>9. f[N] \in Seq(TilePoints)
  BY <1>2
<1> HIDE DEF S
<1> QED BY <1>1, <1>7, <1>8, <1>9 DEF N

LEMMA NextCorner ==
  ASSUME NEW T, NEW points \in Seq(T), NEW i \in 1..Len(points)
  PROVE  (i % Len(points)) + 1 \in 1..Len(points) /\ points[i] \in T /\ points[(i % Len(points)) + 1] \in T
<1>1. Len(points) \in Nat \ {0} /\ i \in Int
  OBVIOUS
<1>2. i % Len(points) \in 0..(Len(points) - 1)
  BY <1>1, DivisionIs
<1>3. (i % Len(points)) + 1 \in 1..Len(points)
  BY <1>1, <1>2
<1> QED BY <1>3

\* Where what is left of a ring may lie.
Room(T) == T \subseteq Int \X Int /\ TilePoints \subseteq T

LEMMA CutStays ==
  ASSUME NEW T, Room(T), NEW a \in T, NEW b \in T
  PROVE  clipSegment(a, b).a \in T /\ clipSegment(a, b).b \in T
<1> DEFINE c == clipSegment(a, b)
<1>1. a \in Int \X Int /\ b \in Int \X Int
  BY DEF Room
<1>2. CASE c.ok
  <2>1. c.a \in TilePoints /\ c.b \in TilePoints
    BY <1>1, <1>2, ClipSegmentFacts DEF TilePoints
  <2> QED BY <2>1 DEF Room
<1>3. CASE ~c.ok
  <2> DEFINE ok == AtMost(Entry(a, b), Exit(a, b)) /\ \A l \in Limits(a, b) : ~(l[1] = 0 /\ l[2] < 0)
             cut == [ok |-> TRUE, a |-> Along(a, b, Entry(a, b)), b |-> Along(a, b, Exit(a, b))]
             same == [ok |-> FALSE, a |-> a, b |-> b]
  <2>1. c = IF ok THEN cut ELSE same
    BY ClipSegmentIs
  <2>2. cut.ok /\ same.a = a /\ same.b = b
    OBVIOUS
  <2> HIDE DEF ok, cut, same, c
  <2>3. c = same
    BY <1>3, <2>1, <2>2
  <2> QED BY <2>2, <2>3 DEF c
<1> QED BY <1>2, <1>3

LEMMA PiecesFacts ==
  ASSUME NEW T, Room(T), NEW points \in Seq(T), NEW edge, NEW i \in 1..Len(points)
  PROVE  /\ Pieces(points, edge, i) \in Seq(T)
         /\ inside(points[(i % Len(points)) + 1], edge) => Has(Pieces(points, edge, i), points[(i % Len(points)) + 1])
<1> DEFINE a == points[i]
           b == points[(i % Len(points)) + 1]
           cut == clipSegment(a, b)
<1>1. a \in T /\ b \in T
  BY NextCorner
<1>2. cut.a \in T /\ cut.b \in T
  BY <1>1, CutStays
<1>3. /\ Pieces(points, edge, i) \in {<<b>>, <<cut.b>>, <<cut.a, b>>, <<>>}
      /\ inside(b, edge) => Pieces(points, edge, i) \in {<<b>>, <<cut.a, b>>}
  BY DEF Pieces
<1> HIDE DEF a, b, cut
<1>4. <<b>> \in Seq(T) /\ <<cut.b>> \in Seq(T) /\ <<cut.a, b>> \in Seq(T) /\ <<>> \in Seq(T)
  BY <1>1, <1>2
<1>5. Has(<<b>>, b)
  <2>1. 1 \in 1..Len(<<b>>) /\ <<b>>[1] = b
    OBVIOUS
  <2> QED BY <2>1 DEF Has
<1>6. Has(<<cut.a, b>>, b)
  <2>1. 2 \in 1..Len(<<cut.a, b>>) /\ <<cut.a, b>>[2] = b
    OBVIOUS
  <2> QED BY <2>1 DEF Has
<1> QED BY <1>3, <1>4, <1>5, <1>6 DEF b

LEMMA CornerBefore ==
  ASSUME NEW N \in Nat, NEW j \in 1..N
  PROVE  \E i \in 1..N : (i % N) + 1 = j
<1>1. CASE j = 1
  <2>1. N % N = 0 /\ N \in 1..N
    <3>1. N \in Nat \ {0} /\ N = N * 1 + 0 /\ 0 \in 0..(N - 1)
      OBVIOUS
    <3>2. (N * 1 + 0) % N = 0
      BY <3>1, DivisionIsUnique
    <3> QED BY <3>1, <3>2
  <2> QED BY <1>1, <2>1
<1>2. CASE j # 1
  <2>1. N \in Nat \ {0} /\ j - 1 \in 0..(N - 1) /\ j - 1 \in 1..N
    BY <1>2
  <2>2. (j - 1) % N = j - 1
    BY <2>1, SmallRemainder
  <2>3. ((j - 1) % N) + 1 = j
    BY <2>2
  <2> QED BY <2>1, <2>3
<1> QED BY <1>1, <1>2

LEMMA ClipToEdgeIs ==
  ASSUME NEW points, NEW edge
  PROVE  ClipToEdge(points, edge) =
           (CHOOSE g : g = [i \in 0..Len(points) |-> IF i = 0 THEN <<>> ELSE g[i - 1] \o Pieces(points, edge, i)])[Len(points)]
BY DEF ClipToEdge

LEMMA ClipToEdgeFacts ==
  ASSUME NEW T, Room(T), NEW points \in Seq(T), NEW edge
  PROVE  /\ ClipToEdge(points, edge) \in Seq(T)
         /\ \A x : Has(points, x) /\ inside(x, edge) => Has(ClipToEdge(points, edge), x)
<1> DEFINE N == Len(points)
           T1 == Seq(T)
           Rec(g) == g = [i \in 0..N |-> IF i = 0 THEN <<>> ELSE g[i - 1] \o Pieces(points, edge, i)]
           next == CHOOSE g : Rec(g)
           P(i) == Pieces(points, edge, i)
<1>1. N \in Nat /\ <<>> \in T1
  OBVIOUS
<1>2. ClipToEdge(points, edge) = next[N]
  BY ClipToEdgeIs
<1>3. \A s \in T1, i \in 1..N : s \o P(i) \in T1 /\ \A x : Has(s \o P(i), x) <=> Has(s, x) \/ Has(P(i), x)
  <2> SUFFICES ASSUME NEW s \in T1, NEW i \in 1..N PROVE s \o P(i) \in T1 /\ \A x : Has(s \o P(i), x) <=> Has(s, x) \/ Has(P(i), x)
    OBVIOUS
  <2>1. P(i) \in T1
    BY PiecesFacts
  <2> HIDE DEF P
  <2> QED BY <2>1, ConcatFacts
<1> HIDE DEF N, T1
<1>4. PICK f \in [0..N -> T1] : f[0] = <<>> /\ \A i \in 1..N : f[i] = f[i - 1] \o P(i)
  <2> DEFINE G == [i \in 1..N |-> [s \in T1 |-> s \o P(i)]]
  <2>1. G \in [1..N -> [T1 -> T1]]
    BY <1>3
  <2> HIDE DEF G
  <2>2. Recurs(T1, <<>>, N, G)
    BY <1>1, <2>1, Recursion
  <2>3. PICK g \in [0..N -> T1] : g[0] = <<>> /\ \A i \in 1..N : g[i] = G[i][g[i - 1]]
    BY <2>2 DEF Recurs
  <2>4. ASSUME NEW i \in 1..N PROVE g[i] = g[i - 1] \o P(i)
    <3>1. g[i - 1] \in T1
      BY <1>1
    <3> QED BY <2>3, <3>1 DEF G
  <2> QED BY <2>3, <2>4
<1>5. Rec(f)
  <2>1. \A i \in 0..N : f[i] = IF i = 0 THEN <<>> ELSE f[i - 1] \o P(i)
    BY <1>1, <1>4, SMTT(30)
  <2> QED BY <2>1
<1>6. Rec(next)
  <2> HIDE DEF Rec
  <2> QED BY <1>5
<1> HIDE DEF next
<1>7. \A i \in 0..N : next[i] = IF i = 0 THEN <<>> ELSE next[i - 1] \o P(i)
  BY <1>6
<1> DEFINE S == {k \in Nat : k <= N => next[k] \in T1 /\ \A i \in 1..k : \A x : Has(P(i), x) => Has(next[k], x)}
<1>8. 0 \in S
  BY <1>1, <1>7
<1> HIDE DEF P
<1>9. ASSUME NEW k \in Nat \cap S PROVE k + 1 \in S
  <2> SUFFICES ASSUME k + 1 <= N
               PROVE  next[k + 1] \in T1 /\ \A i \in 1..(k + 1) : \A x : Has(P(i), x) => Has(next[k + 1], x)
    OBVIOUS
  <2>1. k + 1 \in 0..N /\ k + 1 \in 1..N /\ k + 1 # 0 /\ (k + 1) - 1 = k /\ k <= N
    BY <1>1
  <2>2. next[k] \in T1 /\ \A i \in 1..k : \A x : Has(P(i), x) => Has(next[k], x)
    BY <2>1
  <2> HIDE DEF S
  <2>3. next[k + 1] = next[k] \o P(k + 1)
    BY <1>7, <2>1
  <2>4. next[k + 1] \in T1 /\ \A x : Has(next[k + 1], x) <=> Has(next[k], x) \/ Has(P(k + 1), x)
    BY <1>3, <2>1, <2>2, <2>3
  <2>5. \A i \in 1..(k + 1) : i \in 1..k \/ i = k + 1
    OBVIOUS
  <2> QED BY <2>2, <2>4, <2>5
<1>10. \A k \in Nat : k \in S
  <2> HIDE DEF S
  <2> QED BY <1>8, <1>9, Induction
<1>11. next[N] \in T1 /\ \A i \in 1..N : \A x : Has(P(i), x) => Has(next[N], x)
  BY <1>1, <1>10
<1>12. ASSUME NEW x, Has(points, x), inside(x, edge) PROVE Has(next[N], x)
  <2>1. PICK j \in 1..N : points[j] = x
    BY <1>12 DEF Has, N
  <2>2. PICK i \in 1..N : (i % N) + 1 = j
    BY <1>1, <2>1, CornerBefore
  <2>3. Has(P(i), x)
    BY <1>12, <2>1, <2>2, PiecesFacts DEF P, N
  <2> QED BY <1>11, <2>3
<1> QED BY <1>2, <1>11, <1>12 DEF T1

LEMMA OpenedRing ==
  ASSUME NEW T, NEW points \in Seq(T)
  PROVE  WithoutClosing(points) \in Seq(T)
<1> DEFINE N == Len(points)
<1>1. N \in Nat
  OBVIOUS
<1>2. CASE N > 1 /\ points[1] = Last(points)
  <2> DEFINE p == [i \in 1..(N - 1) |-> points[i]]
  <2>1. WithoutClosing(points) = p
    BY <1>2 DEF WithoutClosing, Front
  <2>2. p \in Seq(T) /\ Len(p) = N - 1 /\ \A i \in 1..(N - 1) : p[i] = points[i]
    BY <1>1, <1>2
  <2> QED BY <2>1, <2>2
<1>3. CASE ~(N > 1 /\ points[1] = Last(points))
  BY <1>3 DEF WithoutClosing
<1> QED BY <1>2, <1>3

LEMMA KeptPixels ==
  ASSUME NEW T, NEW points \in Seq(T), NEW kept \in Seq(1..Len(points))
  PROVE  simplifyPixels(points, kept) \in Seq(T)
<1>1. /\ Len(kept) \in Nat /\ DOMAIN kept = 1..Len(kept)
      /\ \A i \in 1..Len(kept) : kept[i] \in 1..Len(points)
  OBVIOUS
<1>2. \A k \in 1..Len(points) : points[k] \in T
  OBVIOUS
<1> DEFINE pixels == [i \in 1..Len(kept) |-> points[kept[i]]]
<1>3. pixels \in [1..Len(kept) -> T]
  BY <1>1, <1>2
<1> HIDE DEF pixels
<1>4. ASSUME NEW size \in Nat, NEW seq \in [1..size -> T] PROVE seq \in Seq(T)
  OBVIOUS
<1>5. pixels \in Seq(T)
  BY <1>1, <1>3, <1>4
<1> QED BY <1>1, <1>5 DEF pixels, simplifyPixels

LEMMA TileIsInside ==
  ASSUME NEW x \in Int \X Int, InTile(x)
  PROVE  inside(x, 0) /\ inside(x, 1) /\ inside(x, 2) /\ inside(x, 3)
BY ExtentAssumption DEF InTile, inside

LEMMA ClippedFrom ==
  ASSUME NEW T, Room(T), NEW points \in Seq(T)
  PROVE  /\ clipPolygon(points) \in Seq(T)
         /\ \A x : Has(points, x) /\ InTile(x) => Has(clipPolygon(points), x)
<1> DEFINE p0 == ClipToEdge(points, 0)
           p1 == ClipToEdge(p0, 1)
           p2 == ClipToEdge(p1, 2)
           p3 == ClipToEdge(p2, 3)
<1>1. clipPolygon(points) = p3
  BY DEF clipPolygon
<1>2. p0 \in Seq(T) /\ \A x : Has(points, x) /\ inside(x, 0) => Has(p0, x)
  BY ClipToEdgeFacts
<1> HIDE DEF p0
<1>3. p1 \in Seq(T) /\ \A x : Has(p0, x) /\ inside(x, 1) => Has(p1, x)
  BY <1>2, ClipToEdgeFacts
<1> HIDE DEF p1
<1>4. p2 \in Seq(T) /\ \A x : Has(p1, x) /\ inside(x, 2) => Has(p2, x)
  BY <1>3, ClipToEdgeFacts
<1> HIDE DEF p2
<1>5. p3 \in Seq(T) /\ \A x : Has(p2, x) /\ inside(x, 3) => Has(p3, x)
  BY <1>4, ClipToEdgeFacts
<1> HIDE DEF p3
<1>6. ASSUME NEW x, Has(points, x), InTile(x) PROVE Has(p3, x)
  <2>1. x \in Int \X Int
    BY <1>6 DEF Has, Room
  <2>2. inside(x, 0) /\ inside(x, 1) /\ inside(x, 2) /\ inside(x, 3)
    BY <1>6, <2>1, TileIsInside
  <2> QED BY <1>2, <1>3, <1>4, <1>5, <1>6, <2>2
<1> QED BY <1>1, <1>5, <1>6

LEMMA DrawsFacts ==
  ASSUME NEW T, NEW path \in Seq(T), NEW U, NEW points \in Seq(U)
  PROVE  Draws(path, points) <=> /\ \A x : Has(points, x) /\ InTile(x) => Has(path, x)
                                 /\ \A x : Has(path, x) => InTile(x) \/ Has(points, x)
<1>1. DOMAIN path = 1..Len(path) /\ DOMAIN points = 1..Len(points)
  OBVIOUS
<1>2. \A x : (x \in ToSet(path) <=> Has(path, x)) /\ (x \in ToSet(points) <=> Has(points, x))
  BY <1>1 DEF ToSet, Has
<1> QED BY <1>1, <1>2 DEF Draws, Has

LEMMA ReversedHas ==
  ASSUME NEW T, NEW path \in Seq(T)
  PROVE  Reverse(path) \in Seq(T) /\ \A x : Has(Reverse(path), x) <=> Has(path, x)
<1> DEFINE N == Len(path)
           r == [i \in 1..N |-> path[N - i + 1]]
<1>1. N \in Nat /\ Reverse(path) = r
  BY DEF Reverse
<1>2. \A i \in 1..N : N - i + 1 \in 1..N /\ N - (N - i + 1) + 1 = i
  BY <1>1
<1>3. r \in Seq(T) /\ Len(r) = N /\ \A i \in 1..N : r[i] = path[N - i + 1]
  BY <1>1, <1>2
<1> HIDE DEF r
<1>4. ASSUME NEW x, Has(path, x) PROVE Has(r, x)
  <2>1. PICK i \in 1..N : path[i] = x
    BY <1>4 DEF Has
  <2>2. r[N - i + 1] = path[N - (N - i + 1) + 1]
    BY <1>2, <1>3
  <2> QED BY <1>2, <1>3, <2>1, <2>2 DEF Has
<1>5. ASSUME NEW x, Has(r, x) PROVE Has(path, x)
  <2>1. PICK i \in 1..N : r[i] = x
    BY <1>3, <1>5 DEF Has
  <2> QED BY <1>2, <1>3, <2>1 DEF Has
<1> QED BY <1>1, <1>3, <1>4, <1>5

\* What is left of a ring draws it, either way round.
LEMMA ClippedDraws ==
  ASSUME NEW points \in Seq(Int \X Int), NEW c, c = clipPolygon(points)
  PROVE  c \in Seq(Int \X Int) /\ Draws(c, points) /\ Draws(Reverse(c), points)
<1> DEFINE T == TilePoints \cup {x \in Int \X Int : Has(points, x)}
<1>1. Room(T)
  BY DEF Room, TilePoints
<1>2. points \in Seq(T)
  <2>1. \A i \in 1..Len(points) : points[i] \in T
    BY DEF Has
  <2> HIDE DEF T
  <2> QED BY <2>1, SMTT(30)
<1> HIDE DEF T
<1>4. c \in Seq(T) /\ \A x : Has(points, x) /\ InTile(x) => Has(c, x)
  BY <1>1, <1>2, ClippedFrom
<1>5. \A x : Has(c, x) => x \in T
  BY <1>4 DEF Has
<1>6. \A x \in T : InTile(x) \/ Has(points, x)
  BY DEF T, TilePoints
<1>7. Draws(c, points)
  BY <1>2, <1>4, <1>5, <1>6, DrawsFacts
<1>8. Reverse(c) \in Seq(T) /\ \A x : Has(Reverse(c), x) <=> Has(c, x)
  BY <1>4, ReversedHas
<1>9. Draws(Reverse(c), points)
  BY <1>2, <1>4, <1>5, <1>6, <1>8, DrawsFacts
<1>10. c \in Seq(Int \X Int)
  BY <1>1, <1>4 DEF Room
<1> QED BY <1>7, <1>9, <1>10

-----------------------------------------------------------------------------
(* The winding of rings                                                      *)

\* The sum of the first terms.
AreaBy(f, points) ==
  f[0] = 0 /\ \A i \in 1..Len(points) : f[i] = f[i - 1] + Cross(points[i], points[(i % Len(points)) + 1])

LEMMA CrossFacts ==
  ASSUME NEW a \in Int \X Int, NEW b \in Int \X Int
  PROVE  Cross(a, b) \in Int /\ Cross(b, a) = -Cross(a, b)
<1>1. a[1] \in Int /\ a[2] \in Int /\ b[1] \in Int /\ b[2] \in Int
  OBVIOUS
<1>2. a[1] * b[2] \in Int /\ b[1] * a[2] \in Int
  BY <1>1
<1> QED BY <1>2 DEF Cross

LEMMA AreaFunction ==
  ASSUME NEW points \in Seq(Int \X Int)
  PROVE  \E f \in [0..Len(points) -> Int] : AreaBy(f, points) /\ signedArea(points) = f[Len(points)]
<1> DEFINE N == Len(points)
           Term(i) == Cross(points[i], points[(i % N) + 1])
           Rec(g) == g = [i \in 0..N |-> IF i = 0 THEN 0 ELSE g[i - 1] + Term(i)]
           sum == CHOOSE g : Rec(g)
<1>1. N \in Nat
  OBVIOUS
<1>2. signedArea(points) = sum[N]
  BY DEF signedArea
<1>3. \A i \in 1..N : Term(i) \in Int
  <2> SUFFICES ASSUME NEW i \in 1..N PROVE Term(i) \in Int
    OBVIOUS
  <2>1. points[i] \in Int \X Int /\ points[(i % N) + 1] \in Int \X Int
    BY NextCorner
  <2> QED BY <2>1, CrossFacts
<1> HIDE DEF N, Term
<1>4. PICK f \in [0..N -> Int] : f[0] = 0 /\ \A i \in 1..N : f[i] = f[i - 1] + Term(i)
  <2> DEFINE G == [i \in 1..N |-> [m \in Int |-> m + Term(i)]]
  <2>1. G \in [1..N -> [Int -> Int]]
    BY <1>3
  <2> HIDE DEF G
  <2>2. Recurs(Int, 0, N, G)
    <3>1. 0 \in Int
      OBVIOUS
    <3> QED BY <1>1, <2>1, <3>1, Recursion, Zenon
  <2>3. PICK g \in [0..N -> Int] : g[0] = 0 /\ \A i \in 1..N : g[i] = G[i][g[i - 1]]
    BY <2>2 DEF Recurs
  <2>4. ASSUME NEW i \in 1..N PROVE g[i] = g[i - 1] + Term(i)
    <3>1. g[i - 1] \in Int
      BY <1>1
    <3> QED BY <2>3, <3>1 DEF G
  <2> QED BY <2>3, <2>4
<1>5. Rec(f)
  <2>1. \A i \in 0..N : f[i] = IF i = 0 THEN 0 ELSE f[i - 1] + Term(i)
    BY <1>1, <1>4
  <2> QED BY <2>1
<1>6. Rec(sum)
  <2> HIDE DEF Rec
  <2> QED BY <1>5
<1> HIDE DEF sum
<1>7. \A i \in 0..N : sum[i] = IF i = 0 THEN 0 ELSE sum[i - 1] + Term(i)
  BY <1>6
<1> DEFINE S == {k \in Nat : k <= N => sum[k] = f[k]}
<1>8. 0 \in S
  BY <1>1, <1>4, <1>7
<1>9. ASSUME NEW k \in Nat \cap S PROVE k + 1 \in S
  <2> SUFFICES ASSUME k + 1 <= N PROVE sum[k + 1] = f[k + 1]
    OBVIOUS
  <2>1. k + 1 \in 0..N /\ k + 1 \in 1..N /\ k + 1 # 0 /\ (k + 1) - 1 = k /\ k <= N
    BY <1>1
  <2>2. sum[k] = f[k]
    BY <2>1
  <2> HIDE DEF S
  <2> QED BY <1>4, <1>7, <2>1, <2>2
<1>10. \A k \in Nat : k \in S
  <2> HIDE DEF S
  <2> QED BY <1>8, <1>9, Induction
<1>11. sum[N] = f[N]
  BY <1>1, <1>10
<1>12. AreaBy(f, points)
  BY <1>4 DEF AreaBy, Term, N
<1> QED BY <1>2, <1>4, <1>11, <1>12 DEF N

LEMMA ReverseFacts ==
  ASSUME NEW T, NEW points \in Seq(T)
  PROVE  /\ Reverse(points) \in Seq(T) /\ Len(Reverse(points)) = Len(points)
         /\ \A i \in 1..Len(points) : Reverse(points)[i] = points[Len(points) + 1 - i]
<1> DEFINE N == Len(points)
<1>1. N \in Nat
  OBVIOUS
<1>2. Reverse(points) = [i \in 1..N |-> points[(N - i) + 1]]
  BY DEF Reverse
<1>3. \A i \in 1..N : (N - i) + 1 \in 1..N /\ (N - i) + 1 = N + 1 - i
  BY <1>1
<1>4. \A i \in 1..N : points[(N - i) + 1] \in T
  BY <1>3
<1>5. [i \in 1..N |-> points[(N - i) + 1]] \in Seq(T)
  BY <1>1, <1>4
<1> QED BY <1>1, <1>2, <1>3, <1>5

\* A ring read backwards has its area the other way.
LEMMA AreaOfReverse ==
  ASSUME NEW points \in Seq(Int \X Int), Len(points) >= 1
  PROVE  signedArea(points) \in Int /\ signedArea(Reverse(points)) = -signedArea(points)
<1> DEFINE N == Len(points)
           back == Reverse(points)
<1>1. N \in Nat \ {0} /\ \A i \in 1..N : points[i] \in Int \X Int
  OBVIOUS
<1>2. back \in Seq(Int \X Int) /\ Len(back) = N /\ \A i \in 1..N : back[i] = points[N + 1 - i]
  BY ReverseFacts
<1>3. PICK f \in [0..N -> Int] : AreaBy(f, points) /\ signedArea(points) = f[N]
  BY AreaFunction
<1>4. PICK g \in [0..N -> Int] : AreaBy(g, back) /\ signedArea(back) = g[N]
  BY <1>2, AreaFunction
<1> HIDE DEF N, back
<1>5. N \in Int /\ N % N = 0
  <2>1. N = N * 1 + 0 /\ 0 \in 0..(N - 1)
    BY <1>1
  <2>2. (N * 1 + 0) % N = 0
    BY <1>1, <2>1, DivisionIsUnique
  <2> QED BY <1>1, <2>1, <2>2
<1>6. \A i \in 1..(N - 1) : i % N = i
  <2> SUFFICES ASSUME NEW i \in 1..(N - 1) PROVE i % N = i
    OBVIOUS
  <2>1. i \in 0..(N - 1)
    OBVIOUS
  <2> QED BY <1>1, <2>1, SmallRemainder
<1>7. \A i \in 1..(N - 1) : f[i] = f[i - 1] + Cross(points[i], points[i + 1]) /\ g[i] = g[i - 1] + Cross(back[i], back[i + 1])
  <2> SUFFICES ASSUME NEW i \in 1..(N - 1)
               PROVE  f[i] = f[i - 1] + Cross(points[i], points[i + 1]) /\ g[i] = g[i - 1] + Cross(back[i], back[i + 1])
    OBVIOUS
  <2>1. i \in 1..N /\ i % N = i
    BY <1>1, <1>6
  <2> QED BY <1>2, <1>3, <1>4, <2>1 DEF AreaBy, N
<1>8. f[N] = f[N - 1] + Cross(points[N], points[1]) /\ g[N] = g[N - 1] + Cross(back[N], back[1])
  <2>1. N \in 1..N /\ (N % N) + 1 = 1
    BY <1>1, <1>5
  <2> QED BY <1>2, <1>3, <1>4, <2>1 DEF AreaBy, N
<1>9. f[0] = 0 /\ g[0] = 0
  BY <1>3, <1>4 DEF AreaBy
<1> DEFINE S == {k \in Nat : k <= N - 1 => g[k] = f[N - 1 - k] - f[N - 1]}
<1>10. 0 \in S
  <2>1. N - 1 - 0 = N - 1 /\ f[N - 1] \in Int
    BY <1>1
  <2> QED BY <1>9, <2>1
<1>11. ASSUME NEW k \in Nat \cap S PROVE k + 1 \in S
  <2> SUFFICES ASSUME k + 1 <= N - 1 PROVE g[k + 1] = f[N - 1 - (k + 1)] - f[N - 1]
    OBVIOUS
  <2>1. /\ k + 1 \in 1..(N - 1) /\ (k + 1) - 1 = k /\ k <= N - 1
        /\ N - 1 - k \in 1..(N - 1) /\ (N - 1 - k) - 1 = N - 1 - (k + 1) /\ (N - 1 - k) + 1 = N - k
    BY <1>1
  <2>2. g[k] = f[N - 1 - k] - f[N - 1]
    BY <2>1
  <2> HIDE DEF S
  <2> DEFINE m == N - 1 - k
             c == Cross(points[m], points[m + 1])
  <2>3. g[k + 1] = g[k] + Cross(back[k + 1], back[(k + 1) + 1]) /\ f[m] = f[m - 1] + c
    BY <1>7, <2>1
  <2>4. back[k + 1] = points[m + 1] /\ back[(k + 1) + 1] = points[m]
    <3>1. k + 1 \in 1..N /\ (k + 1) + 1 \in 1..N /\ N + 1 - (k + 1) = m + 1 /\ N + 1 - ((k + 1) + 1) = m
      BY <1>1, <2>1
    <3> QED BY <1>2, <3>1
  <2>5. points[m] \in Int \X Int /\ points[m + 1] \in Int \X Int
    <3>1. m \in 1..N /\ m + 1 \in 1..N
      BY <1>1, <2>1
    <3> QED BY <1>1, <3>1
  <2>6. c \in Int /\ Cross(back[k + 1], back[(k + 1) + 1]) = -c
    BY <2>4, <2>5, CrossFacts
  <2>7. m - 1 = N - 1 - (k + 1) /\ m = N - 1 - k
    BY <2>1
  <2>8. g[k] \in Int /\ f[m] \in Int /\ f[m - 1] \in Int /\ f[N - 1] \in Int /\ g[k + 1] \in Int
    <3>1. k \in 0..N /\ k + 1 \in 0..N /\ m \in 0..N /\ m - 1 \in 0..N /\ N - 1 \in 0..N
      BY <1>1, <2>1
    <3> HIDE DEF m
    <3> QED BY <3>1
  <2> HIDE DEF m, c
  <2>9. g[k] = f[m] - f[N - 1]
    BY <2>2, <2>7
  <2>10. g[k + 1] = f[m - 1] - f[N - 1]
    <3>1. g[k + 1] = g[k] + (-c) /\ c \in Int
      BY <2>3, <2>6
    <3>2. f[m] = f[m - 1] + c
      BY <2>3
    <3> DEFINE gk == g[k]
               gn == g[k + 1]
               fm == f[m]
               fp == f[m - 1]
               fn == f[N - 1]
    <3>3. gk \in Int /\ gn \in Int /\ fm \in Int /\ fp \in Int /\ fn \in Int /\ c \in Int
      BY <2>8, <3>1
    <3>4. gn = gk + (-c) /\ fm = fp + c /\ gk = fm - fn
      BY <2>9, <3>1, <3>2
    <3> HIDE DEF gk, gn, fm, fp, fn
    <3>5. gn = fp - fn
      BY <3>3, <3>4
    <3> QED BY <3>5 DEF gn, fp, fn
  <2> QED BY <2>7, <2>10
<1>12. \A k \in Nat : k \in S
  <2> HIDE DEF S
  <2> QED BY <1>10, <1>11, Induction
<1>13. g[N - 1] = -f[N - 1] /\ f[N - 1] \in Int
  <2>1. N - 1 \in Nat /\ N - 1 <= N - 1 /\ N - 1 - (N - 1) = 0 /\ N - 1 \in 0..N
    BY <1>1
  <2>2. g[N - 1] = f[0] - f[N - 1]
    BY <1>12, <2>1
  <2> QED BY <1>9, <2>1, <2>2
<1> HIDE DEF S
<1>14. back[N] = points[1] /\ back[1] = points[N] /\ points[1] \in Int \X Int /\ points[N] \in Int \X Int
  <2>1. N \in 1..N /\ 1 \in 1..N /\ N + 1 - N = 1 /\ N + 1 - 1 = N
    BY <1>1
  <2> QED BY <1>1, <1>2, <2>1
<1>15. Cross(points[N], points[1]) \in Int /\ Cross(back[N], back[1]) = -Cross(points[N], points[1])
  BY <1>14, CrossFacts
<1>16. g[N] = -f[N] /\ f[N] \in Int
  BY <1>1, <1>8, <1>13, <1>15
<1> QED BY <1>3, <1>4, <1>16 DEF back

-----------------------------------------------------------------------------
(* The reading of commands                                                   *)

\* The step to a point of a list from the one before it.
StepTo(points, at, k) ==
  LET from == IF k = 1 THEN at ELSE points[k - 1] IN <<points[k][1] - from[1], points[k][2] - from[2]>>

\* Steps from point to point lead back to the points.
LEMMA WalkedIs ==
  ASSUME NEW points \in Seq(Int \X Int), NEW at \in Int \X Int, NEW steps, Len(steps) = Len(points),
         \A k \in 1..Len(points) : steps[k] = StepTo(points, at, k)
  PROVE  Walked(at, steps) = points
<1> DEFINE N == Len(points)
           Further(s, k) == LET from == IF k = 1 THEN at ELSE Last(s)
                         IN  Append(s, <<from[1] + steps[k][1], from[2] + steps[k][2]>>)
           Rec(g) == g = [k \in 0..N |-> IF k = 0 THEN <<>> ELSE Further(g[k - 1], k)]
           path == CHOOSE g : Rec(g)
           f == [k \in 0..N |-> SubSeq(points, 1, k)]
<1>1. N \in Nat /\ \A k \in 1..N : points[k] \in Int \X Int
  OBVIOUS
<1>2. Walked(at, steps) = path[N]
  BY DEF Walked
<1>3. \A k \in 0..N : /\ f[k] \in Seq(Int \X Int) /\ Len(f[k]) = k
                      /\ \A i \in 1..k : f[k][i] = points[i]
  OBVIOUS
<1>4. f[0] = <<>> /\ f[N] = points
  <2>1. 0 \in 0..N /\ N \in 0..N
    BY <1>1
  <2>2. f[0] \in Seq(Int \X Int) /\ Len(f[0]) = 0 /\ f[N] \in Seq(Int \X Int) /\ Len(f[N]) = N
        /\ \A i \in 1..N : f[N][i] = points[i]
    BY <1>3, <2>1
  <2> HIDE DEF f
  <2>3. f[0] = <<>>
    BY <2>2
  <2>4. f[N] = points
    BY <2>2, SequencesEqual
  <2> QED BY <2>3, <2>4
<1>5. ASSUME NEW k \in 1..N PROVE f[k] = Further(f[k - 1], k)
  <2>1. k - 1 \in 0..N /\ k \in 0..N /\ k \in Nat /\ k >= 1
    BY <1>1
  <2>2. f[k] \in Seq(Int \X Int) /\ Len(f[k]) = k /\ \A i \in 1..k : f[k][i] = points[i]
    BY <1>3, <2>1
  <2>3. f[k - 1] \in Seq(Int \X Int) /\ Len(f[k - 1]) = k - 1 /\ \A i \in 1..(k - 1) : f[k - 1][i] = points[i]
    BY <1>3, <2>1
  <2> DEFINE from == IF k = 1 THEN at ELSE points[k - 1]
             s == f[k - 1]
             t == Append(s, points[k])
  <2>4. from \in Int \X Int /\ points[k] \in Int \X Int
    BY <1>1, <2>1
  <2>5. from = IF k = 1 THEN at ELSE Last(s)
    <3>1. k # 1 => k - 1 \in 1..(k - 1)
      BY <2>1
    <3> QED BY <2>3, <3>1 DEF Last
  <2>6. steps[k] = <<points[k][1] - from[1], points[k][2] - from[2]>>
    BY DEF StepTo
  <2> HIDE DEF f, from, s
  <2>7. <<from[1] + steps[k][1], from[2] + steps[k][2]>> = points[k]
    <3>1. steps[k][1] = points[k][1] - from[1] /\ steps[k][2] = points[k][2] - from[2]
      BY <2>6
    <3>2. <<from[1] + (points[k][1] - from[1]), from[2] + (points[k][2] - from[2])>> = points[k]
      BY <2>4
    <3> QED BY <3>1, <3>2
  <2>8. Further(s, k) = t
    BY <2>5, <2>7
  <2>9. t \in Seq(Int \X Int) /\ Len(t) = k /\ \A i \in 1..k : t[i] = points[i]
    <3>1. s \in Seq(Int \X Int) /\ Len(s) = k - 1 /\ \A i \in 1..(k - 1) : s[i] = points[i]
      BY <2>3 DEF s
    <3>2. t \in Seq(Int \X Int) /\ Len(t) = k /\ t[k] = points[k] /\ \A i \in 1..(k - 1) : t[i] = s[i]
      BY <2>1, <2>4, <3>1
    <3>3. \A i \in 1..k : i = k \/ i \in 1..(k - 1)
      BY <2>1
    <3> HIDE DEF t
    <3> QED BY <3>1, <3>2, <3>3
  <2> HIDE DEF t
  <2>10. f[k] = t
    <3>1. Len(f[k]) = Len(t) /\ \A i \in 1..Len(f[k]) : f[k][i] = t[i]
      BY <2>2, <2>9
    <3> QED BY <2>2, <2>9, <3>1, SequencesEqual
  <2> QED BY <2>8, <2>10 DEF s
<1> HIDE DEF Further, N
<1>6. Rec(f)
  <2>1. \A k \in 0..N : f[k] = IF k = 0 THEN <<>> ELSE Further(f[k - 1], k)
    <3>1. \A k \in 0..N : k = 0 \/ k \in 1..N
      BY <1>1
    <3> HIDE DEF f
    <3> QED BY <1>4, <1>5, <3>1
  <2>2. f = [k \in 0..N |-> f[k]]
    OBVIOUS
  <2> HIDE DEF f
  <2> QED BY <2>1, <2>2
<1> HIDE DEF f
<1>7. Rec(path)
  <2> HIDE DEF Rec
  <2> QED BY <1>6
<1> HIDE DEF path
<1>8. \A k \in 0..N : path[k] = IF k = 0 THEN <<>> ELSE Further(path[k - 1], k)
  BY <1>7
<1> DEFINE S == {k \in Nat : k <= N => path[k] = f[k]}
<1>9. 0 \in S
  BY <1>1, <1>4, <1>8
<1>10. ASSUME NEW k \in Nat \cap S PROVE k + 1 \in S
  <2> SUFFICES ASSUME k + 1 <= N PROVE path[k + 1] = f[k + 1]
    OBVIOUS
  <2>1. k + 1 \in 0..N /\ k + 1 \in 1..N /\ k + 1 # 0 /\ (k + 1) - 1 = k /\ k <= N
    BY <1>1
  <2>2. path[k] = f[k]
    BY <2>1
  <2> HIDE DEF S
  <2>3. path[k + 1] = Further(path[k], k + 1)
    BY <1>8, <2>1
  <2>4. f[k + 1] = Further(f[k], k + 1)
    BY <1>5, <2>1
  <2> QED BY <2>2, <2>3, <2>4
<1>11. \A k \in Nat : k \in S
  <2> HIDE DEF S
  <2> QED BY <1>9, <1>10, Induction
<1> QED BY <1>1, <1>2, <1>4, <1>11

Unread == [at |-> <<0, 0>>, paths |-> <<>>]

\* The states of a reader up to the m-th command.
ReadBy(f, commands, m) == f = [i \in 0..m |-> IF i = 0 THEN Unread ELSE Obeyed(f[i - 1], commands[i])]

LEMMA ReadExists ==
  ASSUME NEW commands, NEW m \in Nat
  PROVE  \E f : ReadBy(f, commands, m)
<1> DEFINE By(f, k) == f = [i \in 0..k |-> f[i]] /\ f[0] = Unread /\ \A i \in 1..k : f[i] = Obeyed(f[i - 1], commands[i])
           D == {k \in Nat : \E f : By(f, k)}
<1>1. 0 \in D
  <2> DEFINE f == [i \in 0..0 |-> Unread]
  <2>1. By(f, 0)
    OBVIOUS
  <2> QED BY <2>1
<1>2. ASSUME NEW k \in Nat \cap D PROVE k + 1 \in D
  <2>1. PICK f : By(f, k)
    OBVIOUS
  <2> DEFINE last == Obeyed(f[k], commands[k + 1])
             h == [i \in 0..(k + 1) |-> IF i = k + 1 THEN last ELSE f[i]]
  <2>2. h = [i \in 0..(k + 1) |-> h[i]] /\ h[0] = Unread /\ h[k + 1] = last /\ \A i \in 0..k : h[i] = f[i]
    BY <2>1
  <2> HIDE DEF h
  <2>3. \A i \in 1..(k + 1) : h[i] = Obeyed(h[i - 1], commands[i])
    <3> SUFFICES ASSUME NEW i \in 1..(k + 1) PROVE h[i] = Obeyed(h[i - 1], commands[i])
      OBVIOUS
    <3>1. CASE i = k + 1
      <4>1. i - 1 = k /\ k \in 0..k
        BY <3>1
      <4> QED BY <2>2, <3>1, <4>1
    <3>2. CASE i \in 1..k
      <4>1. i - 1 \in 0..k /\ i \in 0..k
        BY <3>2
      <4> QED BY <2>1, <2>2, <3>2, <4>1
    <3> QED BY <3>1, <3>2
  <2>4. By(h, k + 1)
    BY <2>2, <2>3
  <2> HIDE DEF By
  <2> QED BY <2>4
<1>3. m \in D
  <2>1. \A k \in Nat : k \in D
    <3> HIDE DEF D
    <3> QED BY <1>1, <1>2, Induction
  <2> QED BY <2>1
<1>4. PICK f : By(f, m)
  BY <1>3
<1>5. \A i \in 0..m : f[i] = IF i = 0 THEN Unread ELSE Obeyed(f[i - 1], commands[i])
  <2>1. \A i \in 0..m : i = 0 \/ i \in 1..m
    OBVIOUS
  <2> QED BY <1>4, <2>1
<1>6. ReadBy(f, commands, m)
  BY <1>4, <1>5 DEF ReadBy
<1> QED BY <1>6

LEMMA ReadByFacts ==
  ASSUME NEW f, NEW commands, NEW m \in Nat, ReadBy(f, commands, m)
  PROVE  f[0] = Unread /\ \A i \in 1..m : f[i] = Obeyed(f[i - 1], commands[i])
<1>1. \A i \in 0..m : f[i] = IF i = 0 THEN Unread ELSE Obeyed(f[i - 1], commands[i])
  BY DEF ReadBy
<1>2. 0 \in 0..m /\ \A i \in 1..m : i \in 0..m /\ i # 0
  OBVIOUS
<1> QED BY <1>1, <1>2

LEMMA ReadingIs ==
  ASSUME NEW commands, Len(commands) \in Nat
  PROVE  \E f : ReadBy(f, commands, Len(commands)) /\ Reading(commands) = f[Len(commands)]
<1> DEFINE N == Len(commands)
           state == CHOOSE f : ReadBy(f, commands, N)
<1>1. Reading(commands) = state[N]
  BY DEF Reading, ReadBy, Unread
<1>2. \E f : ReadBy(f, commands, N)
  BY ReadExists
<1> HIDE DEF N
<1>3. ReadBy(state, commands, N)
  BY <1>2
<1> HIDE DEF state
<1> QED BY <1>1, <1>3 DEF N

LEMMA ReadingAppend ==
  ASSUME NEW T, NEW commands \in Seq(T), NEW c \in T
  PROVE  Reading(<<>>) = Unread /\ Reading(Append(commands, c)) = Obeyed(Reading(commands), c)
<1> DEFINE N == Len(commands)
           more == Append(commands, c)
<1>1. N \in Nat /\ Len(more) = N + 1 /\ more[N + 1] = c /\ \A i \in 1..N : more[i] = commands[i]
  OBVIOUS
<1>2. PICK f : ReadBy(f, commands, N) /\ Reading(commands) = f[N]
  BY <1>1, ReadingIs
<1> HIDE DEF more
<1>3. PICK g : ReadBy(g, more, N + 1) /\ Reading(more) = g[N + 1]
  BY <1>1, ReadingIs
<1> HIDE DEF N
<1>4. f[0] = Unread /\ \A i \in 1..N : f[i] = Obeyed(f[i - 1], commands[i])
  BY <1>1, <1>2, ReadByFacts
<1>5. g[0] = Unread /\ \A i \in 1..(N + 1) : g[i] = Obeyed(g[i - 1], more[i])
  <2>1. N + 1 \in Nat
    BY <1>1
  <2> QED BY <1>3, <2>1, ReadByFacts
<1> DEFINE S == {k \in Nat : k <= N => f[k] = g[k]}
<1>6. 0 \in S
  BY <1>4, <1>5
<1>7. ASSUME NEW k \in Nat \cap S PROVE k + 1 \in S
  <2> SUFFICES ASSUME k + 1 <= N PROVE f[k + 1] = g[k + 1]
    OBVIOUS
  <2>1. k + 1 \in 1..N /\ k + 1 \in 1..(N + 1) /\ (k + 1) - 1 = k /\ k <= N
    BY <1>1
  <2>2. f[k] = g[k]
    BY <2>1
  <2> HIDE DEF S
  <2>3. f[k + 1] = Obeyed(f[k], commands[k + 1]) /\ g[k + 1] = Obeyed(g[k], more[k + 1])
    BY <1>4, <1>5, <2>1
  <2> QED BY <1>1, <2>1, <2>2, <2>3
<1>8. \A k \in Nat : k \in S
  <2> HIDE DEF S
  <2> QED BY <1>6, <1>7, Induction
<1>9. f[N] = g[N]
  BY <1>1, <1>8
<1>10. g[N + 1] = Obeyed(g[N], c)
  <2>1. N + 1 \in 1..(N + 1) /\ (N + 1) - 1 = N
    BY <1>1
  <2> QED BY <1>1, <1>5, <2>1
<1>11. Reading(<<>>) = Unread
  <2>1. Len(<<>>) = 0 /\ 0 \in Nat
    OBVIOUS
  <2>2. PICK e : ReadBy(e, <<>>, 0) /\ Reading(<<>>) = e[0]
    BY <2>1, ReadingIs
  <2> QED BY <2>1, <2>2, ReadByFacts
<1> QED BY <1>2, <1>3, <1>9, <1>10, <1>11 DEF more

Commands == [op : {"MoveTo", "LineTo", "ClosePath"}, steps : Seq(Int \X Int)]

LEMMA StepsAre ==
  ASSUME NEW points \in Seq(Int \X Int), NEW last \in Int \X Int
  PROVE  /\ Steps(points, last) \in Seq(Int \X Int) /\ Len(Steps(points, last)) = Len(points)
         /\ \A k \in 1..Len(points) : Steps(points, last)[k] = StepTo(points, last, k)
<1> DEFINE N == Len(points)
<1>1. N \in Nat /\ DOMAIN points = 1..N /\ \A k \in 1..N : points[k] \in Int \X Int
  OBVIOUS
<1>2. Steps(points, last) = [k \in 1..N |-> StepTo(points, last, k)]
  BY <1>1 DEF Steps, StepTo
<1>3. ASSUME NEW k \in 1..N PROVE StepTo(points, last, k) \in Int \X Int
  <2> DEFINE from == IF k = 1 THEN last ELSE points[k - 1]
  <2>1. k # 1 => k - 1 \in 1..N
    BY <1>1
  <2>2. from \in Int \X Int /\ points[k] \in Int \X Int
    BY <1>1, <2>1
  <2>3. StepTo(points, last, k) = <<points[k][1] - from[1], points[k][2] - from[2]>>
    BY DEF StepTo
  <2> HIDE DEF from
  <2>4. points[k][1] \in Int /\ points[k][2] \in Int /\ from[1] \in Int /\ from[2] \in Int
    BY <2>2
  <2> QED BY <2>3, <2>4, SMTT(30)
<1>4. [k \in 1..N |-> StepTo(points, last, k)] \in Seq(Int \X Int)
  BY <1>1, <1>3
<1> QED BY <1>1, <1>2, <1>4

\* The first step leads to the first point, the others to the rest.
LEMMA RingWalks ==
  ASSUME NEW points \in Seq(Int \X Int), Len(points) >= 1, NEW at \in Int \X Int
  PROVE  /\ <<Steps(points, at)[1]>> \in Seq(Int \X Int) /\ Tail(Steps(points, at)) \in Seq(Int \X Int)
         /\ Walked(at, <<Steps(points, at)[1]>>) = <<points[1]>>
         /\ Walked(points[1], Tail(Steps(points, at))) = Tail(points)
<1> DEFINE N == Len(points)
           steps == Steps(points, at)
           one == <<points[1]>>
           rest == Tail(points)
<1>1. N \in Nat /\ N >= 1 /\ \A k \in 1..N : points[k] \in Int \X Int
  OBVIOUS
<1>2. steps \in Seq(Int \X Int) /\ Len(steps) = N /\ \A k \in 1..N : steps[k] = StepTo(points, at, k)
  BY StepsAre
<1>3. one \in Seq(Int \X Int) /\ Len(one) = 1 /\ one[1] = points[1]
  BY <1>1
<1>4. rest \in Seq(Int \X Int) /\ Len(rest) = N - 1 /\ \A k \in 1..(N - 1) : rest[k] = points[k + 1]
  BY <1>1
<1> HIDE DEF steps
<1>5. <<steps[1]>> \in Seq(Int \X Int) /\ Len(<<steps[1]>>) = 1 /\ <<steps[1]>>[1] = steps[1]
  BY <1>1, <1>2
<1>6. Tail(steps) \in Seq(Int \X Int) /\ Len(Tail(steps)) = N - 1 /\ \A k \in 1..(N - 1) : Tail(steps)[k] = steps[k + 1]
  BY <1>1, <1>2
<1> HIDE DEF N, one, rest
<1>7. Walked(at, <<steps[1]>>) = one
  <2>1. \A k \in 1..1 : <<steps[1]>>[k] = StepTo(one, at, k)
    <3>1. steps[1] = StepTo(points, at, 1)
      BY <1>1, <1>2
    <3>2. StepTo(points, at, 1) = StepTo(one, at, 1)
      BY <1>3 DEF StepTo
    <3> QED BY <1>5, <3>1, <3>2
  <2>2. Len(<<steps[1]>>) = Len(one) /\ \A k \in 1..Len(one) : <<steps[1]>>[k] = StepTo(one, at, k)
    BY <1>3, <1>5, <2>1
  <2> QED BY <1>3, <2>2, WalkedIs
<1>8. Walked(points[1], Tail(steps)) = rest
  <2>1. ASSUME NEW k \in 1..(N - 1) PROVE Tail(steps)[k] = StepTo(rest, points[1], k)
    <3>1. k + 1 \in 1..N /\ k + 1 # 1 /\ (k + 1) - 1 = k /\ (k # 1 => k - 1 \in 1..(N - 1) /\ (k - 1) + 1 = k)
      BY <1>1
    <3>2. Tail(steps)[k] = StepTo(points, at, k + 1)
      BY <1>2, <1>6, <3>1
    <3>3. rest[k] = points[k + 1] /\ (k # 1 => rest[k - 1] = points[k])
      BY <1>4, <3>1
    <3>4. StepTo(points, at, k + 1) = <<points[k + 1][1] - points[k][1], points[k + 1][2] - points[k][2]>>
      BY <3>1 DEF StepTo
    <3>5. StepTo(rest, points[1], k) = <<points[k + 1][1] - points[k][1], points[k + 1][2] - points[k][2]>>
      BY <3>3 DEF StepTo
    <3> QED BY <3>2, <3>4, <3>5
  <2>2. points[1] \in Int \X Int
    BY <1>1
  <2>3. Len(Tail(steps)) = Len(rest) /\ \A k \in 1..Len(rest) : Tail(steps)[k] = StepTo(rest, points[1], k)
    BY <1>4, <1>6, <2>1
  <2> QED BY <1>4, <2>2, <2>3, WalkedIs
<1> QED BY <1>5, <1>6, <1>7, <1>8 DEF steps, one, rest

\* The state of a reader that has read these paths and stands at a position.
At(at, paths) == [at |-> at, paths |-> paths]

LEMMA TakenFacts ==
  ASSUME NEW at, NEW paths, NEW steps
  PROVE  /\ Obeyed(At(at, paths), Command("MoveTo", steps))
              = At(Last(Walked(at, steps)), Append(paths, Walked(at, steps)))
         /\ Obeyed(At(at, paths), Command("ClosePath", steps)) = At(at, paths)
BY DEF Obeyed, At, Command

LEMMA TakenLine ==
  ASSUME NEW at, NEW paths, NEW steps
  PROVE  Obeyed(At(at, paths), Command("LineTo", steps))
           = At(Last(Walked(at, steps)), Append(Front(paths), Last(paths) \o Walked(at, steps)))
BY DEF Obeyed, At, Command

LEMMA OneOrMore ==
  ASSUME NEW k \in Nat, k >= 1
  PROVE  k > 1 \/ k = 1
OBVIOUS

LEMMA AppendEnds ==
  ASSUME NEW T, NEW s \in Seq(T), NEW x \in T
  PROVE  Front(Append(s, x)) = s /\ Last(Append(s, x)) = x /\ s \o <<x>> = Append(s, x)
<1> DEFINE t == Append(s, x)
           u == SubSeq(t, 1, Len(s))
           v == s \o <<x>>
<1>1. Len(s) \in Nat /\ t \in Seq(T) /\ Len(t) = Len(s) + 1 /\ t[Len(s) + 1] = x /\ \A i \in 1..Len(s) : t[i] = s[i]
  OBVIOUS
<1>2. Front(t) = u
  BY <1>1 DEF Front
<1>3. Last(t) = x
  BY <1>1 DEF Last
<1>4. v \in Seq(T) /\ Len(v) = Len(s) + 1 /\ v[Len(s) + 1] = x /\ \A i \in 1..Len(s) : v[i] = s[i]
  OBVIOUS
<1> HIDE DEF t, v
<1>5. u \in Seq(T) /\ Len(u) = Len(s) /\ \A i \in 1..Len(s) : u[i] = s[i]
  BY <1>1
<1> HIDE DEF u
<1>6. u = s
  BY <1>5, SequencesEqual
<1>7. v = t
  <2>1. \A i \in 1..(Len(s) + 1) : i \in 1..Len(s) \/ i = Len(s) + 1
    BY <1>1
  <2>2. \A i \in 1..(Len(s) + 1) : v[i] = t[i]
    BY <1>1, <1>4, <2>1
  <2> QED BY <1>1, <1>4, <2>2, SequencesEqual
<1> QED BY <1>2, <1>3, <1>6, <1>7 DEF t, v

LEMMA HeadAndTail ==
  ASSUME NEW T, NEW s \in Seq(T), Len(s) >= 1
  PROVE  /\ <<s[1]>> \o Tail(s) = s
         /\ Len(s) > 1 => Last(Tail(s)) = Last(s)
         /\ Len(s) = 1 => Last(s) = s[1]
<1> DEFINE t == Tail(s)
           v == <<s[1]>> \o t
<1>1. Len(s) \in Nat /\ s[1] \in T /\ <<s[1]>> \in Seq(T) /\ Len(<<s[1]>>) = 1
  OBVIOUS
<1>2. t \in Seq(T) /\ Len(t) = Len(s) - 1 /\ \A i \in 1..(Len(s) - 1) : t[i] = s[i + 1]
  BY <1>1
<1> HIDE DEF t
<1>3. v \in Seq(T) /\ Len(v) = Len(s) /\ v[1] = s[1] /\ \A i \in 1..(Len(s) - 1) : v[i + 1] = t[i]
  BY <1>1, <1>2
<1> HIDE DEF v
<1>4. \A i \in 1..Len(s) : v[i] = s[i]
  <2> SUFFICES ASSUME NEW i \in 1..Len(s) PROVE v[i] = s[i]
    OBVIOUS
  <2>1. i = 1 \/ (i - 1 \in 1..(Len(s) - 1) /\ (i - 1) + 1 = i)
    BY <1>1
  <2> QED BY <1>2, <1>3, <2>1
<1>5. v = s
  BY <1>3, <1>4, SequencesEqual
<1>6. Len(s) > 1 => Last(t) = Last(s)
  <2> SUFFICES ASSUME Len(s) > 1 PROVE Last(t) = Last(s)
    OBVIOUS
  <2>1. Len(s) - 1 \in 1..(Len(s) - 1) /\ (Len(s) - 1) + 1 = Len(s)
    BY <1>1
  <2> QED BY <1>2, <2>1 DEF Last
<1>7. Len(s) = 1 => Last(s) = s[1]
  BY DEF Last
<1> QED BY <1>5, <1>6, <1>7 DEF t, v

\* A reader of a ring or a line has its points and stands on the last.
LEMMA RingIsRead ==
  ASSUME NEW out \in Seq(Commands), NEW points \in Seq(Int \X Int), Len(points) >= 1, NEW at \in Int \X Int,
         NEW paths \in Seq(Seq(Int \X Int)), Reading(out) = At(at, paths), NEW close
  PROVE  /\ appendRing(out, points, at, close) \in Seq(Commands)
         /\ Reading(appendRing(out, points, at, close)) = At(Last(points), Append(paths, points))
<1>4. Len(points) \in Nat /\ (Len(points) > 1 \/ Len(points) = 1)
  <2>1. Len(points) \in Nat /\ Len(points) >= 1
    OBVIOUS
  <2> QED BY <2>1, OneOrMore
<1> DEFINE steps == Steps(points, at)
           move == Command("MoveTo", <<steps[1]>>)
           line == Command("LineTo", Tail(steps))
           end == Command("ClosePath", <<>>)
           one == <<points[1]>>
           out1 == Append(out, move)
           out2 == IF Len(points) > 1 THEN Append(out1, line) ELSE out1
           out3 == IF close THEN Append(out2, end) ELSE out2
<1>1. /\ <<steps[1]>> \in Seq(Int \X Int) /\ Tail(steps) \in Seq(Int \X Int)
      /\ Walked(at, <<steps[1]>>) = one /\ Walked(points[1], Tail(steps)) = Tail(points)
  BY RingWalks
<1>2. one \in Seq(Int \X Int) /\ points[1] \in Int \X Int /\ Last(one) = points[1]
  BY DEF Last
<1>3. /\ <<points[1]>> \o Tail(points) = points
      /\ Len(points) > 1 => Last(Tail(points)) = Last(points)
      /\ Len(points) = 1 => Last(points) = points[1]
  BY HeadAndTail
<1>5. appendRing(out, points, at, close)
        = out \o <<move>> \o (IF Len(points) > 1 THEN <<line>> ELSE <<>>) \o (IF close THEN <<end>> ELSE <<>>)
  BY DEF appendRing
<1> HIDE DEF steps
<1>6. move \in Commands /\ line \in Commands /\ end \in Commands
  BY <1>1 DEF Command, Commands
<1>7. Reading(out1) = At(points[1], Append(paths, one))
  <2> DEFINE w == Walked(at, <<steps[1]>>)
  <2>1. Reading(out1) = Obeyed(At(at, paths), move)
    BY <1>6, ReadingAppend
  <2>2. Obeyed(At(at, paths), move) = At(Last(w), Append(paths, w))
    BY TakenFacts
  <2> QED BY <1>1, <1>2, <2>1, <2>2
<1>12. \A a, ps : Obeyed(At(a, ps), end) = At(a, ps)
  BY TakenFacts
<1>13. \A a, ps : Obeyed(At(a, ps), line)
                   = At(Last(Walked(a, Tail(steps))), Append(Front(ps), Last(ps) \o Walked(a, Tail(steps))))
  BY TakenLine
<1> HIDE DEF move, line, end, one
<1>8. out1 \in Seq(Commands) /\ out \o <<move>> = out1
  BY <1>6, AppendEnds
<1> HIDE DEF out1
<1>9. out2 \in Seq(Commands) /\ out1 \o (IF Len(points) > 1 THEN <<line>> ELSE <<>>) = out2
      /\ Reading(out2) = At(Last(points), Append(paths, points))
  <2>1. CASE Len(points) > 1
    <3>1. out2 = Append(out1, line) /\ out1 \o <<line>> = Append(out1, line) /\ out2 \in Seq(Commands)
      BY <1>6, <1>8, <2>1, AppendEnds
    <3>2. Reading(Append(out1, line)) = Obeyed(Reading(out1), line)
      BY <1>6, <1>8, ReadingAppend
    <3> DEFINE q == Append(paths, one)
               w == Walked(points[1], Tail(steps))
    <3>3. Obeyed(At(points[1], q), line) = At(Last(w), Append(Front(q), Last(q) \o w))
      BY <1>13
    <3>4. Front(q) = paths /\ Last(q) = one
      BY <1>2, AppendEnds
    <3>5. w = Tail(points) /\ Last(w) = Last(points) /\ one \o w = points
      BY <1>1, <1>3, <2>1 DEF one
    <3> HIDE DEF q, w
    <3>6. Reading(out2) = At(Last(points), Append(paths, points))
      BY <1>7, <3>1, <3>2, <3>3, <3>4, <3>5 DEF q
    <3> QED BY <2>1, <3>1, <3>6
  <2>2. CASE Len(points) = 1
    <3>1. out2 = out1 /\ ~(Len(points) > 1)
      BY <2>2
    <3>2. out1 \o <<>> = out1
      BY <1>8
    <3>3. one = points /\ points[1] = Last(points)
      <4>1. <<points[1]>> \in Seq(Int \X Int) /\ Len(<<points[1]>>) = 1 /\ \A i \in 1..1 : <<points[1]>>[i] = points[i]
        BY <1>2, <2>2
      <4>2. <<points[1]>> = points
        BY <2>2, <4>1, SequencesEqual
      <4> QED BY <1>3, <2>2, <4>2 DEF one
    <3> QED BY <1>7, <1>8, <3>1, <3>2, <3>3
  <2> QED BY <1>4, <2>1, <2>2
<1> HIDE DEF out2
<1>10. out3 \in Seq(Commands) /\ out2 \o (IF close THEN <<end>> ELSE <<>>) = out3
       /\ Reading(out3) = At(Last(points), Append(paths, points))
  <2>1. CASE close
    <3>1. out3 = Append(out2, end) /\ out2 \o <<end>> = out3 /\ out3 \in Seq(Commands)
      BY <1>6, <1>9, <2>1, AppendEnds
    <3>2. Reading(Append(out2, end)) = Obeyed(Reading(out2), end)
      BY <1>6, <1>9, ReadingAppend
    <3>3. Obeyed(At(Last(points), Append(paths, points)), end) = At(Last(points), Append(paths, points))
      BY <1>12
    <3> QED BY <1>9, <2>1, <3>1, <3>2, <3>3
  <2>2. CASE ~close
    <3>1. out2 \o <<>> = out2
      BY <1>9
    <3> QED BY <1>9, <2>2, <3>1
  <2> QED BY <2>1, <2>2
<1> HIDE DEF out3
<1>11. appendRing(out, points, at, close) = out3
  BY <1>5, <1>8, <1>9, <1>10
<1> QED BY <1>10, <1>11

LEMMA AppendRingType ==
  ASSUME NEW out \in Seq(Commands), NEW points \in Seq(Int \X Int), Len(points) >= 1, NEW at \in Int \X Int, NEW close
  PROVE  appendRing(out, points, at, close) \in Seq(Commands)
<1> DEFINE steps == Steps(points, at)
           move == Command("MoveTo", <<steps[1]>>)
           line == Command("LineTo", Tail(steps))
           end == Command("ClosePath", <<>>)
           out1 == out \o <<move>>
           out2 == out1 \o (IF Len(points) > 1 THEN <<line>> ELSE <<>>)
           out3 == out2 \o (IF close THEN <<end>> ELSE <<>>)
<1>1. <<steps[1]>> \in Seq(Int \X Int) /\ Tail(steps) \in Seq(Int \X Int)
  BY RingWalks
<1>2. appendRing(out, points, at, close) = out3
  BY DEF appendRing
<1> HIDE DEF steps
<1>3. move \in Commands /\ line \in Commands /\ end \in Commands
  BY <1>1 DEF Command, Commands
<1> HIDE DEF move, line, end
<1>4. out1 \in Seq(Commands)
  BY <1>3
<1> HIDE DEF out1
<1>5. out2 \in Seq(Commands)
  BY <1>3, <1>4
<1> HIDE DEF out2
<1>6. out3 \in Seq(Commands)
  BY <1>3, <1>5
<1> QED BY <1>2, <1>6

-----------------------------------------------------------------------------
(* The rings of a polygon, one after the other                               *)

\* Where the cursor stands before ring r of w.
CursorAt(w, r) == IF r = 1 THEN <<0, 0>> ELSE Last(w[r - 1])

\* encodeRings from the wound rings on.
WrittenRings(w) ==
  LET Cursor(r) == IF r = 1 THEN <<0, 0>> ELSE Last(w[r - 1])
      out[r \in 0..Len(w)] == IF r = 0 THEN <<>> ELSE appendRing(out[r - 1], w[r], Cursor(r), TRUE)
  IN  out[Len(w)]

LEMMA EncodeWrites == \A rings : encodeRings(rings) = WrittenRings(Wound(rings))
BY DEF encodeRings, WrittenRings

LEMMA CursorType ==
  ASSUME NEW w \in Seq(Seq(Int \X Int)), \A r \in 1..Len(w) : Len(w[r]) >= 1, NEW r \in 1..(Len(w) + 1)
  PROVE  CursorAt(w, r) \in Int \X Int
<1>1. CASE r = 1
  BY <1>1 DEF CursorAt
<1>2. CASE r # 1
  <2>1. r - 1 \in 1..Len(w)
    BY <1>2
  <2>2. w[r - 1] \in Seq(Int \X Int) /\ Len(w[r - 1]) >= 1
    BY <2>1
  <2>3. Last(w[r - 1]) \in Int \X Int
    BY <2>2 DEF Last
  <2> QED BY <1>2, <2>3 DEF CursorAt
<1> QED BY <1>1, <1>2

LEMMA WrittenFunction ==
  ASSUME NEW w \in Seq(Seq(Int \X Int)), \A r \in 1..Len(w) : Len(w[r]) >= 1
  PROVE  \E f \in [0..Len(w) -> Seq(Commands)] :
           /\ f[0] = <<>> /\ \A i \in 1..Len(w) : f[i] = appendRing(f[i - 1], w[i], CursorAt(w, i), TRUE)
           /\ WrittenRings(w) = f[Len(w)]
<1> DEFINE N == Len(w)
           T == Seq(Commands)
           Rec(g) == g = [i \in 0..N |-> IF i = 0 THEN <<>> ELSE appendRing(g[i - 1], w[i], CursorAt(w, i), TRUE)]
           out == CHOOSE g : Rec(g)
<1>1. N \in Nat /\ \A i \in 1..N : w[i] \in Seq(Int \X Int) /\ Len(w[i]) >= 1
  OBVIOUS
<1>2. WrittenRings(w) = out[N]
  BY DEF WrittenRings, CursorAt
<1>3. <<>> \in T
  OBVIOUS
<1>4. \A s \in T, i \in 1..N : appendRing(s, w[i], CursorAt(w, i), TRUE) \in T
  <2> SUFFICES ASSUME NEW s \in T, NEW i \in 1..N PROVE appendRing(s, w[i], CursorAt(w, i), TRUE) \in T
    OBVIOUS
  <2>1. CursorAt(w, i) \in Int \X Int
    <3>1. i \in 1..(Len(w) + 1)
      BY <1>1
    <3> QED BY <3>1, CursorType
  <2>2. w[i] \in Seq(Int \X Int) /\ Len(w[i]) >= 1
    BY <1>1
  <2> QED BY <2>1, <2>2, AppendRingType
<1> HIDE DEF N, T
<1>5. PICK f \in [0..N -> T] : f[0] = <<>> /\ \A i \in 1..N : f[i] = appendRing(f[i - 1], w[i], CursorAt(w, i), TRUE)
  <2> DEFINE G == [i \in 1..N |-> [s \in T |-> appendRing(s, w[i], CursorAt(w, i), TRUE)]]
  <2>1. G \in [1..N -> [T -> T]]
    BY <1>1, <1>4
  <2> HIDE DEF G
  <2>2. Recurs(T, <<>>, N, G)
    BY <1>1, <1>3, <2>1, Recursion
  <2>3. PICK g \in [0..N -> T] : g[0] = <<>> /\ \A i \in 1..N : g[i] = G[i][g[i - 1]]
    BY <2>2 DEF Recurs
  <2>4. ASSUME NEW i \in 1..N PROVE g[i] = appendRing(g[i - 1], w[i], CursorAt(w, i), TRUE)
    <3>1. g[i - 1] \in T
      BY <1>1
    <3> QED BY <2>3, <3>1 DEF G
  <2> QED BY <2>3, <2>4
<1>6. Rec(f)
  <2>1. \A i \in 0..N : f[i] = IF i = 0 THEN <<>> ELSE appendRing(f[i - 1], w[i], CursorAt(w, i), TRUE)
    <3>1. \A i \in 0..N : i = 0 \/ (i \in 1..N /\ i # 0)
      BY <1>1
    <3> QED BY <1>5, <3>1
  <2> QED BY <2>1
<1>7. Rec(out)
  <2> HIDE DEF Rec
  <2> QED BY <1>6
<1> HIDE DEF out
<1>8. \A i \in 0..N : out[i] = IF i = 0 THEN <<>> ELSE appendRing(out[i - 1], w[i], CursorAt(w, i), TRUE)
  BY <1>7
<1> DEFINE S == {k \in Nat : k <= N => out[k] = f[k]}
<1>9. 0 \in S
  <2>1. 0 \in 0..N
    BY <1>1
  <2> QED BY <1>5, <1>8, <2>1
<1>10. ASSUME NEW k \in Nat \cap S PROVE k + 1 \in S
  <2> SUFFICES ASSUME k + 1 <= N PROVE out[k + 1] = f[k + 1]
    OBVIOUS
  <2>1. k + 1 \in 0..N /\ k + 1 \in 1..N /\ k + 1 # 0 /\ (k + 1) - 1 = k /\ k <= N
    BY <1>1
  <2>2. out[k] = f[k]
    BY <2>1
  <2> HIDE DEF S
  <2>3. out[k + 1] = appendRing(out[k], w[k + 1], CursorAt(w, k + 1), TRUE)
    BY <1>8, <2>1
  <2>4. f[k + 1] = appendRing(f[k], w[k + 1], CursorAt(w, k + 1), TRUE)
    BY <1>5, <2>1
  <2> QED BY <2>2, <2>3, <2>4
<1>11. \A k \in Nat : k \in S
  <2> HIDE DEF S
  <2> QED BY <1>9, <1>10, Induction
<1>12. out[N] = f[N]
  BY <1>1, <1>11
<1> QED BY <1>2, <1>5, <1>12 DEF N, T

LEMMA LongerPrefix ==
  ASSUME NEW T, NEW w \in Seq(T), NEW k \in Nat, k + 1 <= Len(w)
  PROVE  SubSeq(w, 1, k) \in Seq(T) /\ Append(SubSeq(w, 1, k), w[k + 1]) = SubSeq(w, 1, k + 1)
<1> DEFINE s == SubSeq(w, 1, k)
           t == SubSeq(w, 1, k + 1)
<1>1. s \in Seq(T) /\ Len(s) = k /\ \A i \in 1..k : s[i] = w[i]
  OBVIOUS
<1>2. t \in Seq(T) /\ Len(t) = k + 1 /\ \A i \in 1..(k + 1) : t[i] = w[i]
  OBVIOUS
<1>3. w[k + 1] \in T
  OBVIOUS
<1> HIDE DEF s, t
<1> DEFINE u == Append(s, w[k + 1])
<1>4. u \in Seq(T) /\ Len(u) = k + 1 /\ u[k + 1] = w[k + 1] /\ \A i \in 1..k : u[i] = s[i]
  BY <1>1, <1>3
<1> HIDE DEF u
<1>5. \A i \in 1..(k + 1) : u[i] = t[i]
  <2>1. \A i \in 1..(k + 1) : i \in 1..k \/ i = k + 1
    OBVIOUS
  <2> QED BY <1>1, <1>2, <1>4, <2>1
<1>6. u = t
  BY <1>2, <1>4, <1>5, SequencesEqual
<1> QED BY <1>1, <1>6 DEF s, t, u

LEMMA ReadWithRing ==
  ASSUME NEW out \in Seq(Commands), NEW points \in Seq(Int \X Int), Len(points) >= 1, NEW at \in Int \X Int,
         NEW paths \in Seq(Seq(Int \X Int)), Reading(out) = At(at, paths), NEW close
  PROVE  Reading(appendRing(out, points, at, close)) = At(Last(points), Append(paths, points))
BY RingIsRead

\* A reader of the written rings has these rings.
LEMMA WrittenIsRead ==
  ASSUME NEW w \in Seq(Seq(Int \X Int)), \A r \in 1..Len(w) : Len(w[r]) >= 1
  PROVE  Read(WrittenRings(w)) = w
<1> DEFINE N == Len(w)
<1>1. PICK f \in [0..N -> Seq(Commands)] :
        /\ f[0] = <<>> /\ \A i \in 1..N : f[i] = appendRing(f[i - 1], w[i], CursorAt(w, i), TRUE)
        /\ WrittenRings(w) = f[N]
  BY WrittenFunction
<1>2. N \in Nat /\ \A i \in 1..N : w[i] \in Seq(Int \X Int) /\ Len(w[i]) >= 1
  OBVIOUS
<1> HIDE DEF N
<1> DEFINE S == {k \in Nat : k <= N => Reading(f[k]) = At(CursorAt(w, k + 1), SubSeq(w, 1, k))}
<1>3. 0 \in S
  <2>1. Reading(<<>>) = Unread
    <3>1. <<>> \in Seq({0}) /\ 0 \in {0}
      OBVIOUS
    <3> QED BY <3>1, ReadingAppend
  <2>2. SubSeq(w, 1, 0) = <<>>
    OBVIOUS
  <2>3. CursorAt(w, 0 + 1) = <<0, 0>>
    BY DEF CursorAt
  <2> QED BY <1>1, <2>1, <2>2, <2>3 DEF Unread, At
<1>4. ASSUME NEW k \in Nat \cap S PROVE k + 1 \in S
  <2> SUFFICES ASSUME k + 1 <= N PROVE Reading(f[k + 1]) = At(CursorAt(w, k + 2), SubSeq(w, 1, k + 1))
    OBVIOUS
  <2> DEFINE at == CursorAt(w, k + 1)
             paths == SubSeq(w, 1, k)
             points == w[k + 1]
  <2>1. k \in Nat /\ k <= N /\ k \in 0..N /\ k + 1 \in 1..N /\ (k + 1) - 1 = k /\ k + 2 # 1 /\ (k + 2) - 1 = k + 1
    BY <1>2
  <2>2. Reading(f[k]) = At(at, paths)
    BY <2>1
  <2> HIDE DEF S
  <2>3. f[k] \in Seq(Commands) /\ f[k + 1] = appendRing(f[k], points, at, TRUE)
    BY <1>1, <2>1
  <2>4. points \in Seq(Int \X Int) /\ Len(points) >= 1
    BY <1>2, <2>1
  <2>5. at \in Int \X Int
    <3>1. k + 1 \in 1..(Len(w) + 1)
      BY <1>2, <2>1 DEF N
    <3> QED BY <3>1, CursorType
  <2>6. paths \in Seq(Seq(Int \X Int)) /\ Append(paths, points) = SubSeq(w, 1, k + 1)
    <3>1. k + 1 <= Len(w)
      BY DEF N
    <3> QED BY <2>1, <3>1, LongerPrefix
  <2>7. CursorAt(w, k + 2) = Last(points)
    BY <2>1 DEF CursorAt
  <2> HIDE DEF at, paths, points
  <2>8. Reading(appendRing(f[k], points, at, TRUE)) = At(Last(points), Append(paths, points))
    <3>1. f[k] \in Seq(Commands) /\ Reading(f[k]) = At(at, paths) /\ paths \in Seq(Seq(Int \X Int))
      BY <2>2, <2>3, <2>6
    <3> DEFINE before == f[k]
               yes == TRUE
    <3>2. before \in Seq(Commands) /\ Reading(before) = At(at, paths)
      BY <3>1
    <3> HIDE DEF before, yes
    <3>3. Reading(appendRing(before, points, at, yes)) = At(Last(points), Append(paths, points))
      BY <2>4, <2>5, <3>1, <3>2, ReadWithRing
    <3> QED BY <3>3 DEF before, yes
  <2> QED BY <2>3, <2>6, <2>7, <2>8
<1>5. \A k \in Nat : k \in S
  <2> HIDE DEF S
  <2> QED BY <1>3, <1>4, Induction
<1>6. Reading(f[N]) = At(CursorAt(w, N + 1), SubSeq(w, 1, N))
  BY <1>2, <1>5
<1>7. SubSeq(w, 1, N) = w
  <2>1. SubSeq(w, 1, N) \in Seq(Seq(Int \X Int)) /\ Len(SubSeq(w, 1, N)) = Len(w) /\ \A i \in 1..Len(w) : SubSeq(w, 1, N)[i] = w[i]
    BY DEF N
  <2> QED BY <2>1, SequencesEqual
<1> QED BY <1>1, <1>6, <1>7 DEF Read, At

-----------------------------------------------------------------------------
(* Which rings are left                                                      *)

CountTo(m) == [i \in 1..m |-> i]

\* The sequence r is s at the places that ids names.
PicksOut(ids, r, s, D) ==
  /\ Len(r) = Len(ids)
  /\ \A p \in 1..Len(ids) : ids[p] \in D /\ r[p] = s[ids[p]]

LEMMA NamesOneMore ==
  ASSUME NEW T, NEW s \in Seq(T), NEW D, NEW ids \in Seq(Int), NEW r \in Seq(T), PicksOut(ids, r, s, D),
         NEW i \in Int, i \in D, s[i] \in T
  PROVE  PicksOut(Append(ids, i), Append(r, s[i]), s, D)
<1> DEFINE one == Append(ids, i)
           more == Append(r, s[i])
<1>1. Len(ids) \in Nat /\ Len(one) = Len(ids) + 1 /\ one[Len(ids) + 1] = i /\ \A p \in 1..Len(ids) : one[p] = ids[p]
  OBVIOUS
<1>2. Len(more) = Len(r) + 1 /\ more[Len(r) + 1] = s[i] /\ \A p \in 1..Len(r) : more[p] = r[p]
  OBVIOUS
<1>3. \A p \in 1..Len(one) : p \in 1..Len(ids) \/ p = Len(ids) + 1
  BY <1>1
<1> HIDE DEF one, more
<1> QED BY <1>1, <1>2, <1>3 DEF PicksOut

LEMMA KeptNames ==
  ASSUME NEW T, NEW s \in Seq(T), NEW S, NEW D, \A i \in 1..Len(s) : i \in D <=> s[i] \in S
  PROVE  PicksOut(Kept(CountTo(Len(s)), D), Kept(s, S), s, D)
<1> DEFINE m == Len(s)
           ids == CountTo(m)
<1>1. m \in Nat /\ \A i \in 1..m : s[i] \in T
  OBVIOUS
<1>2. ids \in Seq(Int) /\ Len(ids) = m /\ \A i \in 1..m : ids[i] = i
  BY <1>1 DEF CountTo
<1>3. \A i \in 1..m : i \in D <=> s[i] \in S
  OBVIOUS
<1>4. PICK f \in [0..m -> Seq(T)] : KeptBy(f, s, S, m) /\ Kept(s, S) = f[m]
  BY KeptFunction
<1> HIDE DEF ids
<1>5. PICK g \in [0..m -> Seq(Int)] : KeptBy(g, ids, D, m) /\ Kept(ids, D) = g[m]
  <2>1. \E g \in [0..Len(ids) -> Seq(Int)] : KeptBy(g, ids, D, Len(ids)) /\ Kept(ids, D) = g[Len(ids)]
    BY <1>2, KeptFunction
  <2> QED BY <1>2, <2>1
<1> HIDE DEF m
<1> DEFINE W == {k \in Nat : k <= m => PicksOut(g[k], f[k], s, D)}
<1>6. 0 \in W
  <2>1. f[0] = <<>> /\ g[0] = <<>>
    BY <1>4, <1>5 DEF KeptBy
  <2> QED BY <2>1 DEF PicksOut
<1>7. ASSUME NEW k \in Nat \cap W PROVE k + 1 \in W
  <2> SUFFICES ASSUME k + 1 <= m PROVE PicksOut(g[k + 1], f[k + 1], s, D)
    OBVIOUS
  <2>1. k \in Nat /\ k <= m /\ k \in 0..m /\ k + 1 \in 1..m /\ (k + 1) - 1 = k /\ k + 1 \in Int
    BY <1>1
  <2>2. PicksOut(g[k], f[k], s, D)
    BY <2>1
  <2> HIDE DEF W
  <2>3. f[k + 1] = IF s[k + 1] \in S THEN Append(f[k], s[k + 1]) ELSE f[k]
    BY <1>4, <2>1 DEF KeptBy
  <2>4. g[k + 1] = IF k + 1 \in D THEN Append(g[k], k + 1) ELSE g[k]
    <3>1. g[k + 1] = IF ids[k + 1] \in D THEN Append(g[k], ids[k + 1]) ELSE g[k]
      BY <1>5, <2>1 DEF KeptBy
    <3> QED BY <1>2, <2>1, <3>1
  <2>5. CASE k + 1 \in D
    <3>1. f[k + 1] = Append(f[k], s[k + 1]) /\ g[k + 1] = Append(g[k], k + 1)
      BY <1>3, <2>1, <2>3, <2>4, <2>5
    <3>2. f[k] \in Seq(T) /\ g[k] \in Seq(Int) /\ s[k + 1] \in T
      BY <1>1, <1>4, <1>5, <2>1
    <3>3. PicksOut(Append(g[k], k + 1), Append(f[k], s[k + 1]), s, D)
      BY <2>1, <2>2, <2>5, <3>2, NamesOneMore
    <3> QED BY <3>1, <3>3
  <2>6. CASE k + 1 \notin D
    <3>1. f[k + 1] = f[k] /\ g[k + 1] = g[k]
      BY <1>3, <2>1, <2>3, <2>4, <2>6
    <3> QED BY <2>2, <3>1
  <2> QED BY <2>5, <2>6
<1>8. \A k \in Nat : k \in W
  <2> HIDE DEF W
  <2> QED BY <1>6, <1>7, Induction
<1>9. PicksOut(g[m], f[m], s, D)
  BY <1>1, <1>8
<1> QED BY <1>4, <1>5, <1>9 DEF m, ids

RingRecords == [points : Seq(Int \X Int), hole : BOOLEAN]

\* The rings of a feature, with what is kept of them.
IsRings(rings) ==
  /\ Len(rings) \in Nat /\ DOMAIN rings = 1..Len(rings)
  /\ \A r \in 1..Len(rings) : /\ rings[r].points \in Seq(Int \X Int) /\ rings[r].hole \in BOOLEAN
                              /\ rings[r].kept \in Seq(1..Len(WithoutClosing(rings[r].points)))

LEMMA RingPixelsType ==
  ASSUME NEW ring, ring.points \in Seq(Int \X Int), ring.kept \in Seq(1..Len(WithoutClosing(ring.points)))
  PROVE  RingPixels(ring) \in Seq(Int \X Int)
<1> DEFINE points == ring.points
           kept == ring.kept
           open == WithoutClosing(points)
<1>1. open \in Seq(Int \X Int)
  BY OpenedRing
<1> HIDE DEF open
<1>2. simplifyPixels(open, kept) \in Seq(Int \X Int)
  BY <1>1, KeptPixels DEF open
<1> QED BY <1>2 DEF RingPixels, open

\* A ring clipped to the tile.
Clipped(rings, r) == clipPolygon(RingPixels(rings[r]))

\* The rings of which a triangle is left.
Leaves(rings) == {r \in DOMAIN rings : Len(Clipped(rings, r)) >= 3}

LEMMA RingsLeft ==
  ASSUME NEW rings, IsRings(rings)
  PROVE  LET left == Kept(CountTo(Len(rings)), Leaves(rings))
         IN  /\ Len(left) \in Nat /\ DOMAIN ClippedRings(rings) = 1..Len(left)
             /\ \A p \in 1..Len(left) : /\ left[p] \in 1..Len(rings)
                                        /\ ClippedRings(rings)[p] = [points |-> Clipped(rings, left[p]), hole |-> rings[left[p]].hole]
                                        /\ Clipped(rings, left[p]) \in Seq(Int \X Int) /\ Len(Clipped(rings, left[p])) >= 3
<1> DEFINE m == Len(rings)
           s == [r \in DOMAIN rings |-> [points |-> clipPolygon(RingPixels(rings[r])), hole |-> rings[r].hole]]
           S == {ring \in ToSet(s) : Len(ring.points) >= 3}
           D == Leaves(rings)
           left == Kept(CountTo(m), D)
<1>1. m \in Nat /\ DOMAIN rings = 1..m /\ \A r \in 1..m : RingPixels(rings[r]) \in Seq(Int \X Int) /\ rings[r].hole \in BOOLEAN
  BY RingPixelsType DEF IsRings
<1>2. \A r \in 1..m : Clipped(rings, r) \in Seq(Int \X Int)
  BY <1>1, ClippedDraws DEF Clipped
<1>3. \A r \in 1..m : s[r] = [points |-> Clipped(rings, r), hole |-> rings[r].hole]
  BY <1>1 DEF Clipped
<1>4. s \in Seq(RingRecords) /\ Len(s) = m /\ DOMAIN s = 1..m
  <2>1. s = [r \in 1..m |-> [points |-> Clipped(rings, r), hole |-> rings[r].hole]]
    BY <1>1 DEF Clipped
  <2>2. \A r \in 1..m : [points |-> Clipped(rings, r), hole |-> rings[r].hole] \in RingRecords
    BY <1>1, <1>2 DEF RingRecords
  <2> HIDE DEF m, s
  <2> QED BY <1>1, <2>1, <2>2
<1>5. ClippedRings(rings) = Kept(s, S)
  BY DEF ClippedRings
<1> HIDE DEF s
<1>6. \A r \in 1..m : r \in D <=> s[r] \in S
  <2> SUFFICES ASSUME NEW r \in 1..m PROVE r \in D <=> s[r] \in S
    OBVIOUS
  <2>1. s[r] \in ToSet(s)
    BY <1>4 DEF ToSet
  <2>2. s[r].points = Clipped(rings, r)
    <3>1. \A a, b : [points |-> a, hole |-> b].points = a
      OBVIOUS
    <3>2. s[r] = [points |-> Clipped(rings, r), hole |-> rings[r].hole]
      BY <1>3
    <3> QED BY <3>1, <3>2
  <2> QED BY <1>1, <2>1, <2>2 DEF Leaves
<1> HIDE DEF S, D
<1>7. PicksOut(left, Kept(s, S), s, D)
  <2>1. \A r \in 1..Len(s) : r \in D <=> s[r] \in S
    BY <1>4, <1>6
  <2>2. PicksOut(Kept(CountTo(Len(s)), D), Kept(s, S), s, D)
    BY <1>4, <2>1, KeptNames
  <2> QED BY <1>4, <2>2
<1>8. Kept(s, S) \in Seq(RingRecords)
  BY <1>4, KeptType
<1> HIDE DEF left, m
<1>9. ASSUME NEW p \in 1..Len(left)
      PROVE  /\ left[p] \in 1..m
             /\ ClippedRings(rings)[p] = [points |-> Clipped(rings, left[p]), hole |-> rings[left[p]].hole]
             /\ Clipped(rings, left[p]) \in Seq(Int \X Int) /\ Len(Clipped(rings, left[p])) >= 3
  <2>1. left[p] \in D /\ Kept(s, S)[p] = s[left[p]]
    BY <1>7 DEF PicksOut
  <2>2. left[p] \in 1..m /\ Len(Clipped(rings, left[p])) >= 3
    BY <1>1, <2>1 DEF D, Leaves
  <2> QED BY <1>2, <1>3, <1>5, <2>1, <2>2
<1>10. Len(left) \in Nat /\ DOMAIN ClippedRings(rings) = 1..Len(left)
  BY <1>5, <1>7, <1>8 DEF PicksOut
<1> QED BY <1>9, <1>10 DEF left, m, D

\* A ring turned by its role.
LEMMA WindingFacts ==
  ASSUME NEW points \in Seq(Int \X Int), Len(points) >= 3, NEW hole \in BOOLEAN
  PROVE  /\ ensureWinding(points, ~hole) \in Seq(Int \X Int) /\ Len(ensureWinding(points, ~hole)) >= 3
         /\ ensureWinding(points, ~hole) \in {points, Reverse(points)}
         /\ \/ signedArea(ensureWinding(points, ~hole)) = 0
            \/ (signedArea(ensureWinding(points, ~hole)) > 0) # hole
<1> DEFINE ring == ensureWinding(points, ~hole)
           area == signedArea(points)
<1>1. area \in Int /\ signedArea(Reverse(points)) = -area
  BY AreaOfReverse
<1>2. Reverse(points) \in Seq(Int \X Int) /\ Len(Reverse(points)) = Len(points)
  BY ReverseFacts
<1>3. ring = IF (area > 0) = ~hole THEN points ELSE Reverse(points)
  BY DEF ensureWinding
<1> HIDE DEF ring, area
<1>4. CASE (area > 0) = ~hole
  <2>1. ring = points
    BY <1>3, <1>4
  <2>2. (area > 0) # hole
    BY <1>4
  <2> QED BY <2>1, <2>2 DEF ring, area
<1>5. CASE (area > 0) # ~hole
  <2>1. ring = Reverse(points)
    BY <1>3, <1>5
  <2>2. hole = TRUE \/ hole = FALSE
    OBVIOUS
  <2>3. -area = 0 \/ (-area > 0) # hole
    BY <1>1, <1>5, <2>2
  <2> QED BY <1>1, <1>2, <2>1, <2>3 DEF ring, area
<1> QED BY <1>4, <1>5

-----------------------------------------------------------------------------
(* What a tile shows of a feature                                            *)

LEMMA NothingRead == Read(<<>>) = <<>>
<1>1. <<>> \in Seq({0}) /\ 0 \in {0}
  OBVIOUS
<1>2. Reading(<<>>) = Unread
  BY <1>1, ReadingAppend
<1> QED BY <1>2 DEF Read, Unread

\* One line or one ring is read as it was.
LEMMA OneIsRead ==
  ASSUME NEW points \in Seq(Int \X Int), Len(points) >= 1, NEW polygon
  PROVE  Read(commandGeometry(points, polygon)) = <<points>>
<1> DEFINE none == <<>>
           at == <<0, 0>>
<1>1. none \in Seq(Commands) /\ at \in Int \X Int /\ none \in Seq(Seq(Int \X Int))
  OBVIOUS
<1>2. Reading(none) = At(at, none)
  <2>1. <<>> \in Seq({0}) /\ 0 \in {0}
    OBVIOUS
  <2>2. Reading(<<>>) = Unread
    BY <2>1, ReadingAppend
  <2> QED BY <2>2 DEF Unread, At
<1>3. commandGeometry(points, polygon) = appendRing(none, points, at, polygon)
  BY DEF commandGeometry
<1>4. Append(none, points) = <<points>>
  OBVIOUS
<1> HIDE DEF none, at
<1>5. Reading(appendRing(none, points, at, polygon)) = At(Last(points), Append(none, points))
  BY <1>1, <1>2, RingIsRead
<1>6. Read(commandGeometry(points, polygon)) = Append(none, points)
  BY <1>3, <1>5 DEF Read, At
<1> QED BY <1>4, <1>6

LEMMA RingsAreRead ==
  ASSUME NEW rings, IsRings(rings)
  PROVE  LET left == Kept(CountTo(Len(rings)), Leaves(rings))
             paths == Read(encodeRings(rings))
         IN  /\ Len(left) \in Nat /\ DOMAIN paths = 1..Len(left) /\ Len(paths) = Len(left)
             /\ \A p \in 1..Len(left) :
                  /\ left[p] \in 1..Len(rings)
                  /\ paths[p] \in {Clipped(rings, left[p]), Reverse(Clipped(rings, left[p]))}
                  /\ signedArea(paths[p]) = 0 \/ (signedArea(paths[p]) > 0) # rings[left[p]].hole
<1> DEFINE left == Kept(CountTo(Len(rings)), Leaves(rings))
           clipped == ClippedRings(rings)
           w == Wound(rings)
           M == Len(left)
           read == Read(encodeRings(rings))
           Turned(p) == ensureWinding(Clipped(rings, left[p]), ~rings[left[p]].hole)
<1>1. /\ M \in Nat /\ DOMAIN clipped = 1..M
      /\ \A p \in 1..M : /\ left[p] \in 1..Len(rings)
                         /\ clipped[p] = [points |-> Clipped(rings, left[p]), hole |-> rings[left[p]].hole]
                         /\ Clipped(rings, left[p]) \in Seq(Int \X Int) /\ Len(Clipped(rings, left[p])) >= 3
  BY RingsLeft
<1>2. w = [p \in DOMAIN clipped |-> ensureWinding(clipped[p].points, ~clipped[p].hole)]
  BY DEF Wound
<1>3. \A p \in 1..M : rings[left[p]].hole \in BOOLEAN
  <2>1. \A r \in 1..Len(rings) : rings[r].hole \in BOOLEAN
    BY DEF IsRings
  <2> HIDE DEF M, left
  <2> QED BY <1>1, <2>1
<1>4. read = Read(WrittenRings(w))
  BY EncodeWrites
<1> HIDE DEF left, clipped, w, M, read
<1>5. ASSUME NEW p \in 1..M PROVE w[p] = Turned(p)
  <2>1. w[p] = ensureWinding(clipped[p].points, ~clipped[p].hole)
    BY <1>1, <1>2
  <2>2. \A a, b : [points |-> a, hole |-> b].points = a /\ [points |-> a, hole |-> b].hole = b
    OBVIOUS
  <2>3. clipped[p] = [points |-> Clipped(rings, left[p]), hole |-> rings[left[p]].hole]
    BY <1>1
  <2>4. clipped[p].points = Clipped(rings, left[p])
    BY <2>2, <2>3
  <2>5. clipped[p].hole = rings[left[p]].hole
    BY <2>2, <2>3
  <2> QED BY <2>1, <2>4, <2>5
<1>6. ASSUME NEW p \in 1..M
      PROVE  /\ w[p] \in Seq(Int \X Int) /\ Len(w[p]) >= 3
             /\ w[p] \in {Clipped(rings, left[p]), Reverse(Clipped(rings, left[p]))}
             /\ signedArea(w[p]) = 0 \/ (signedArea(w[p]) > 0) # rings[left[p]].hole
  <2> DEFINE points == Clipped(rings, left[p])
             hole == rings[left[p]].hole
  <2>1. points \in Seq(Int \X Int) /\ Len(points) >= 3 /\ hole \in BOOLEAN
    BY <1>1, <1>3
  <2>2. w[p] = ensureWinding(points, ~hole)
    BY <1>5
  <2> HIDE DEF points, hole
  <2>3. /\ ensureWinding(points, ~hole) \in Seq(Int \X Int) /\ Len(ensureWinding(points, ~hole)) >= 3
        /\ ensureWinding(points, ~hole) \in {points, Reverse(points)}
        /\ \/ signedArea(ensureWinding(points, ~hole)) = 0
           \/ (signedArea(ensureWinding(points, ~hole)) > 0) # hole
    BY <2>1, WindingFacts
  <2> QED BY <2>2, <2>3 DEF points, hole
<1> HIDE DEF Turned
<1>7. w \in Seq(Seq(Int \X Int)) /\ Len(w) = M /\ DOMAIN w = 1..M
  <2>1. DOMAIN w = 1..M /\ w = [p \in 1..M |-> w[p]]
    BY <1>1, <1>2
  <2>2. w \in [1..M -> Seq(Int \X Int)]
    BY <1>6, <2>1
  <2> QED BY <1>1, <2>1, <2>2
<1>8. read = w
  <2>1. \A r \in 1..Len(w) : Len(w[r]) >= 1
    <3> SUFFICES ASSUME NEW r \in 1..Len(w) PROVE Len(w[r]) >= 1
      OBVIOUS
    <3>1. w[r] \in Seq(Int \X Int) /\ Len(w[r]) >= 3
      BY <1>6, <1>7
    <3>2. Len(w[r]) \in Nat
      BY <3>1
    <3> QED BY <3>1, <3>2
  <2>2. Read(WrittenRings(w)) = w
    BY <1>7, <2>1, WrittenIsRead
  <2> QED BY <1>4, <2>2
<1> QED BY <1>1, <1>6, <1>7, <1>8 DEF left, M, read

\* A feature that has been encoded was encoded by encodeGeometry.
TileInv ==
  /\ job \in Jobs
  /\ Done("tile") => result = encodeGeometry(job.call)

LEMMA TileInvInit == GeometryInit => TileInv
BY DEF GeometryInit, TileInv, Done

LEMMA TileInvNext == TileInv /\ [GeometryNext]_geometryVars => TileInv'
<1> SUFFICES ASSUME TileInv, [GeometryNext]_geometryVars PROVE TileInv'
  OBVIOUS
<1> USE DEF TileInv, Done
<1>1. ASSUME UNCHANGED <<job, result>> PROVE TileInv'
  BY <1>1
<1>2. ASSUME UNCHANGED job, job.kind # "tile" PROVE TileInv'
  BY <1>2
<1>3. CASE PlanRoute
  BY <1>2, <1>3 DEF PlanRoute, Answer
<1>4. CASE AssembleRings
  BY <1>2, <1>4 DEF AssembleRings, Answer
<1>5. CASE CollectBoundaries
  BY <1>2, <1>5 DEF CollectBoundaries, Answer
<1>6. CASE ValidateTerritories
  BY <1>2, <1>6 DEF ValidateTerritories, Answer
<1>7. CASE EncodeFeature
  BY <1>7 DEF EncodeFeature, Answer
<1>8. CASE SignRings
  BY <1>2, <1>8 DEF SignRings, Answer
<1>9. CASE SimplifyStep
  BY <1>1, <1>9 DEF SimplifyStep
<1>10. CASE UNCHANGED geometryVars
  BY <1>1, <1>10 DEF geometryVars
<1> QED BY <1>3, <1>4, <1>5, <1>6, <1>7, <1>8, <1>9, <1>10 DEF GeometryNext

LEMMA LineIsShown ==
  ASSUME NEW f, LinePixels(f) \in Seq(Int \X Int), f.kind = "line"
  PROVE  LET paths == Read(encodeGeometry(f))
         IN  /\ \A p \in DOMAIN paths : \A i \in DOMAIN paths[p] : InTile(paths[p][i])
             /\ paths # <<>> => \A i \in DOMAIN LinePixels(f) : InTile(LinePixels(f)[i]) => LinePixels(f)[i] \in ToSet(paths[1])
<1> DEFINE points == LinePixels(f)
           line == clipLine(points)
           paths == Read(encodeGeometry(f))
<1>1. /\ line \in Seq(TilePoints)
      /\ Len(line) >= 2 => \A i \in 1..Len(points) : InTile(points[i]) => Has(line, points[i])
  BY ClippedLineFacts
<1>2. encodeGeometry(f) = IF Len(line) < 2 THEN <<>> ELSE commandGeometry(line, FALSE)
  BY DEF encodeGeometry
<1>3. DOMAIN points = 1..Len(points)
  OBVIOUS
<1> HIDE DEF line, points
<1>4. Len(line) \in Nat /\ DOMAIN line = 1..Len(line) /\ \A i \in 1..Len(line) : line[i] \in Int \X Int /\ InTile(line[i])
  BY <1>1 DEF TilePoints
<1>5. CASE Len(line) < 2
  <2>1. paths = <<>>
    BY <1>2, <1>5, NothingRead
  <2> QED BY <2>1
<1>6. CASE ~(Len(line) < 2)
  <2>1. line \in Seq(Int \X Int) /\ Len(line) >= 1 /\ Len(line) >= 2
    BY <1>1, <1>4, <1>6
  <2> DEFINE no == FALSE
  <2>2. encodeGeometry(f) = commandGeometry(line, no)
    BY <1>2, <1>6
  <2> HIDE DEF no
  <2>3. Read(commandGeometry(line, no)) = <<line>>
    BY <2>1, OneIsRead
  <2>4. paths = <<line>>
    BY <2>2, <2>3
  <2>5. DOMAIN paths = {1} /\ paths[1] = line
    <3> HIDE DEF paths
    <3> QED BY <2>4
  <2> HIDE DEF paths
  <2>6. \A i \in 1..Len(points) : InTile(points[i]) => points[i] \in ToSet(line)
    BY <1>1, <1>4, <2>1 DEF Has, ToSet
  <2> QED BY <1>3, <1>4, <2>5, <2>6 DEF paths, points
<1> QED BY <1>5, <1>6

LEMMA RingIsShown ==
  ASSUME NEW f, RingPixels(f) \in Seq(Int \X Int), f.kind = "polygon", f.rings = <<>>
  PROVE  LET ring == clipPolygon(RingPixels(f))
             paths == Read(encodeGeometry(f))
         IN  /\ paths = (IF Len(ring) >= 3 THEN <<ring>> ELSE <<>>)
             /\ paths # <<>> => Draws(paths[1], RingPixels(f))
<1> DEFINE ring == clipPolygon(RingPixels(f))
           paths == Read(encodeGeometry(f))
<1>1. ring \in Seq(Int \X Int) /\ Draws(ring, RingPixels(f))
  BY ClippedDraws
<1>2. encodeGeometry(f) = IF Len(ring) < 3 THEN <<>> ELSE commandGeometry(ring, TRUE)
  BY DEF encodeGeometry
<1> HIDE DEF ring
<1>3. Len(ring) \in Nat
  BY <1>1
<1>4. CASE Len(ring) < 3
  <2>1. paths = <<>>
    BY <1>2, <1>4, NothingRead
  <2> QED BY <1>3, <1>4, <2>1 DEF ring
<1>5. CASE ~(Len(ring) < 3)
  <2> DEFINE yes == TRUE
  <2>1. encodeGeometry(f) = commandGeometry(ring, yes) /\ Len(ring) >= 3 /\ Len(ring) >= 1
    BY <1>2, <1>3, <1>5
  <2> HIDE DEF yes
  <2>2. Read(commandGeometry(ring, yes)) = <<ring>>
    BY <1>1, <2>1, OneIsRead
  <2>3. paths = <<ring>> /\ <<ring>>[1] = ring
    BY <2>1, <2>2
  <2> HIDE DEF paths
  <2> QED BY <1>1, <2>1, <2>3 DEF ring, paths
<1> QED BY <1>4, <1>5

LEMMA TileInvImplies == TileInv => CommandsDrawTheFeature
<1> SUFFICES ASSUME TileInv, Done("tile") PROVE CommandsDrawTheFeature
  BY DEF CommandsDrawTheFeature
<1> DEFINE f == job.call
           rings == f.rings
           paths == Read(encodeGeometry(f))
           clipped == [r \in DOMAIN rings |-> clipPolygon(RingPixels(rings[r]))]
           left == Kept([r \in DOMAIN rings |-> r], {r \in DOMAIN rings : Len(clipped[r]) >= 3})
<1>1. result = encodeGeometry(f)
  BY DEF TileInv
<1>2. /\ IsRings(rings)
      /\ f.kind = "line" => LinePixels(f) \in Seq(Int \X Int)
      /\ f.kind = "polygon" => RingPixels(f) \in Seq(Int \X Int)
  <2>1. /\ f.points \in Seq(Int \X Int)
        /\ f.kept \in Seq(1..Len(IF f.kind = "polygon" THEN WithoutClosing(f.points) ELSE f.points))
        /\ rings \in Seq([points : Seq(Int \X Int), kept : Seq(Nat), hole : BOOLEAN])
        /\ \A r \in DOMAIN rings : rings[r].kept \in Seq(1..Len(WithoutClosing(rings[r].points)))
    BY JobsAssumption DEF TileInv, Done
  <2>2. f.kind = "line" => LinePixels(f) \in Seq(Int \X Int)
    <3> DEFINE points == f.points
               kept == f.kept
    <3> SUFFICES ASSUME f.kind = "line" PROVE simplifyPixels(points, kept) \in Seq(Int \X Int)
      BY DEF LinePixels
    <3>1. points \in Seq(Int \X Int) /\ kept \in Seq(1..Len(points))
      BY <2>1
    <3> HIDE DEF points, kept
    <3> QED BY <3>1, KeptPixels
  <2>3. f.kind = "polygon" => RingPixels(f) \in Seq(Int \X Int)
    BY <2>1, RingPixelsType
  <2>4. IsRings(rings)
    <3> HIDE DEF rings
    <3> DEFINE Ring == [points : Seq(Int \X Int), kept : Seq(Nat), hole : BOOLEAN]
    <3>1. \A ring \in Ring : ring.points \in Seq(Int \X Int) /\ ring.hole \in BOOLEAN
      OBVIOUS
    <3>2. rings \in Seq(Ring)
      BY <2>1
    <3> HIDE DEF Ring
    <3>3. Len(rings) \in Nat /\ DOMAIN rings = 1..Len(rings) /\ \A r \in 1..Len(rings) : rings[r] \in Ring
      BY <3>2
    <3> QED BY <2>1, <3>1, <3>3 DEF IsRings
  <2> QED BY <2>2, <2>3, <2>4
<1>3. f.kind = "line" =>
        /\ \A p \in DOMAIN paths : \A i \in DOMAIN paths[p] : InTile(paths[p][i])
        /\ paths # <<>> => \A i \in DOMAIN LinePixels(f) : InTile(LinePixels(f)[i]) => LinePixels(f)[i] \in ToSet(paths[1])
  BY <1>2, LineIsShown
<1>4. (f.kind = "polygon" /\ rings = <<>>) =>
        /\ paths = (IF Len(clipPolygon(RingPixels(f))) >= 3 THEN <<clipPolygon(RingPixels(f))>> ELSE <<>>)
        /\ paths # <<>> => Draws(paths[1], RingPixels(f))
  BY <1>2, RingIsShown
<1>5. (f.kind = "polygon" /\ rings # <<>>) =>
        /\ Len(paths) = Len(left)
        /\ \A p \in DOMAIN paths :
             /\ paths[p] \in {clipped[left[p]], Reverse(clipped[left[p]])}
             /\ signedArea(paths[p]) = 0 \/ (signedArea(paths[p]) > 0) # rings[left[p]].hole
             /\ Draws(paths[p], RingPixels(rings[left[p]]))
  <2> SUFFICES ASSUME f.kind = "polygon", rings # <<>>
               PROVE  /\ Len(paths) = Len(left)
                      /\ \A p \in DOMAIN paths :
                           /\ paths[p] \in {clipped[left[p]], Reverse(clipped[left[p]])}
                           /\ signedArea(paths[p]) = 0 \/ (signedArea(paths[p]) > 0) # rings[left[p]].hole
                           /\ Draws(paths[p], RingPixels(rings[left[p]]))
    OBVIOUS
  <2> DEFINE kept == Kept(CountTo(Len(rings)), Leaves(rings))
  <2>1. encodeGeometry(f) = encodeRings(rings)
    BY DEF encodeGeometry
  <2>2. DOMAIN rings = 1..Len(rings)
    BY <1>2 DEF IsRings
  <2>3. \A r \in DOMAIN rings : clipped[r] = Clipped(rings, r)
    BY DEF Clipped
  <2>4. left = kept
    <3>1. [r \in DOMAIN rings |-> r] = CountTo(Len(rings))
      BY <2>2 DEF CountTo
    <3>2. {r \in DOMAIN rings : Len(clipped[r]) >= 3} = Leaves(rings)
      <4> HIDE DEF clipped, rings
      <4> QED BY <2>3 DEF Leaves
    <3> QED BY <3>1, <3>2
  <2>5. paths = Read(encodeRings(rings))
    BY <2>1
  <2>6. ASSUME NEW r \in DOMAIN rings
        PROVE  Draws(Clipped(rings, r), RingPixels(rings[r])) /\ Draws(Reverse(Clipped(rings, r)), RingPixels(rings[r]))
    <3>1. RingPixels(rings[r]) \in Seq(Int \X Int)
      <4> HIDE DEF rings
      <4> QED BY <1>2, <2>2, RingPixelsType DEF IsRings
    <3> QED BY <3>1, ClippedDraws DEF Clipped
  <2> HIDE DEF left, clipped, rings, paths, kept
  <2>7. /\ Len(kept) \in Nat /\ DOMAIN paths = 1..Len(kept) /\ Len(paths) = Len(kept)
        /\ \A p \in 1..Len(kept) :
             /\ kept[p] \in DOMAIN rings
             /\ paths[p] \in {Clipped(rings, kept[p]), Reverse(Clipped(rings, kept[p]))}
             /\ signedArea(paths[p]) = 0 \/ (signedArea(paths[p]) > 0) # rings[kept[p]].hole
    BY <1>2, <2>2, <2>5, RingsAreRead DEF kept
  <2>8. \A p \in 1..Len(kept) : Draws(paths[p], RingPixels(rings[kept[p]]))
    BY <2>6, <2>7
  <2> QED BY <2>3, <2>4, <2>7, <2>8
<1> HIDE DEF paths, left, clipped
<1> QED BY <1>1, <1>3, <1>4, <1>5 DEF CommandsDrawTheFeature, paths, left, clipped

(* A renderer reads from the commands of a feature the line or the rings     *)
(* that clipping left: a line stays in the tile and keeps its points in it,  *)
(* each ring of three points or more has its place and its winding, keeps    *)
(* its points in the tile and leaves the tile only at points of its own.     *)
THEOREM CommandsAreFaithful == GeometrySpec => []CommandsDrawTheFeature
<1> QED BY TileInvInit, TileInvNext, TileInvImplies, PTL DEF GeometrySpec

=============================================================================
