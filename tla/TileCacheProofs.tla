---------------------------- MODULE TileCacheProofs ----------------------------
(***************************************************************************)
(* Proofs about TileCache for any set of keys and clients, any budget and  *)
(* any number of shards: the lists are well formed, and the front pointer  *)
(* never weakens their order.                                              *)
(***************************************************************************)
EXTENDS TileCache, SequenceTheorems, WellFoundedInduction, TLAPS

-----------------------------------------------------------------------------
(* Induction and sums                                                      *)

\* A non-empty set of natural numbers has a least element.
LEMMA LeastElement ==
  ASSUME NEW S \in SUBSET Nat, S # {}
  PROVE  \E n \in S : \A m \in S : n <= m
<1>1. IsWellFoundedOn(OpToRel(<, Nat), Nat)
  BY NatLessThanWellFounded
<1>2. PICK n \in S : \A m \in S : <<m, n>> \notin OpToRel(<, Nat)
  BY <1>1, WFMin
<1>3. \A m \in S : ~(m < n)
  BY <1>2 DEF OpToRel
<1> QED BY <1>3

\* Induction, over a set of numbers instead of a predicate.
LEMMA Induction ==
  ASSUME NEW S, 0 \in S, \A n \in Nat \cap S : n + 1 \in S
  PROVE  \A n \in Nat : n \in S
<1> SUFFICES ASSUME Nat \ S # {} PROVE FALSE
  OBVIOUS
<1>1. PICK n \in Nat \ S : \A m \in Nat \ S : n <= m
  BY LeastElement
<1>2. n # 0 /\ n - 1 \in Nat /\ n - 1 \notin Nat \ S
  BY <1>1
<1> QED BY <1>1, <1>2

\* f holds the partial sums of the first n numbers of w.
IsSum(f, w, n) ==
  /\ f \in [0 .. n -> Int] /\ f[0] = 0
  /\ \A i \in 1 .. n : f[i] = w[i] + f[i - 1]

LEMMA SumExists ==
  ASSUME NEW w, NEW n \in Nat, \A i \in 1 .. n : w[i] \in Int
  PROVE  \E f : IsSum(f, w, n)
<1> DEFINE S == {m \in Nat : m <= n => \E f : IsSum(f, w, m)}
<1>1. 0 \in S
  BY IsSum([i \in 0 .. 0 |-> 0], w, 0) DEF IsSum
<1>2. ASSUME NEW m \in Nat \cap S PROVE m + 1 \in S
  <2> SUFFICES ASSUME m + 1 <= n PROVE \E f : IsSum(f, w, m + 1)
    OBVIOUS
  <2>1. m \in Nat /\ w[m + 1] \in Int
    OBVIOUS
  <2>2. PICK f : IsSum(f, w, m)
    BY <2>1
  <2> DEFINE h == [i \in 0 .. m + 1 |-> IF i = m + 1 THEN w[m + 1] + f[m] ELSE f[i]]
  <2>3. IsSum(h, w, m + 1)
    <3>1. h \in [0 .. m + 1 -> Int] /\ h[0] = 0
      <4>1. f \in [0 .. m -> Int] /\ f[0] = 0 /\ f[m] \in Int
        BY <2>1, <2>2 DEF IsSum
      <4> QED BY <2>1, <4>1
    <3>2. ASSUME NEW i \in 1 .. m + 1 PROVE h[i] = w[i] + h[i - 1]
      BY <2>1, <2>2 DEF IsSum
    <3> QED BY <3>1, <3>2 DEF IsSum
  <2> QED BY <2>3
<1>3. \A i \in Nat : i \in S
  <2> HIDE DEF S
  <2> QED BY <1>1, <1>2, Induction
<1> QED BY <1>3

LEMMA SumUnique ==
  ASSUME NEW w, NEW n \in Nat, NEW f, NEW h, IsSum(f, w, n), NEW m \in 0 .. n, IsSum(h, w, m)
  PROVE  \A i \in 0 .. m : f[i] = h[i]
<1> DEFINE S == {i \in Nat : i <= m => f[i] = h[i]}
<1>1. 0 \in S
  BY DEF IsSum
<1>2. ASSUME NEW i \in Nat \cap S PROVE i + 1 \in S
  BY DEF IsSum
<1>3. \A i \in Nat : i \in S
  <2> HIDE DEF S
  <2> QED BY <1>1, <1>2, Induction
<1> QED BY <1>3

\* What the sum of the model is.
LEMMA SumIs ==
  ASSUME NEW w, NEW n \in Nat, NEW f, IsSum(f, w, n)
  PROVE  SumTo(w, n) = f[n]
<1> DEFINE Rec(g) == g = [i \in 0 .. n |-> IF i = 0 THEN 0 ELSE w[i] + g[i - 1]]
           s == CHOOSE g : Rec(g)
<1>1. Rec(f)
  BY DEF IsSum
<1>2. Rec(s)
  BY <1>1
<1> HIDE DEF s
<1>3. \A i \in 0 .. n : s[i] = IF i = 0 THEN 0 ELSE w[i] + s[i - 1]
  BY <1>2
<1> DEFINE S == {i \in Nat : i <= n => s[i] = f[i]}
<1>4. 0 \in S
  BY <1>3 DEF IsSum
<1>5. ASSUME NEW i \in Nat \cap S PROVE i + 1 \in S
  BY <1>3 DEF IsSum
<1>6. \A i \in Nat : i \in S
  <2> HIDE DEF S
  <2> QED BY <1>4, <1>5, Induction
<1>7. s[n] = f[n]
  BY <1>6
<1>8. SumTo(w, n) = s[n]
  BY DEF SumTo, s
<1> QED BY <1>7, <1>8

\* The two equations of a sum.
LEMMA SumStep ==
  ASSUME NEW w, NEW n \in Nat, \A i \in 1 .. n : w[i] \in Int
  PROVE  /\ SumTo(w, 0) = 0
         /\ SumTo(w, n) \in Int
         /\ n > 0 => SumTo(w, n) = w[n] + SumTo(w, n - 1)
<1>1. PICK f : IsSum(f, w, n)
  BY SumExists
<1>2. SumTo(w, n) = f[n] /\ f[n] \in Int
  BY <1>1, SumIs DEF IsSum
<1>3. SumTo(w, 0) = 0
  <2>1. IsSum([i \in 0 .. 0 |-> 0], w, 0)
    BY DEF IsSum
  <2> QED BY <2>1, SumIs
<1>4. ASSUME n > 0 PROVE SumTo(w, n) = w[n] + SumTo(w, n - 1)
  <2>1. IsSum([i \in 0 .. n - 1 |-> f[i]], w, n - 1)
    BY <1>1, <1>4 DEF IsSum
  <2>2. SumTo(w, n - 1) = f[n - 1]
    BY <2>1, <1>4, SumIs
  <2> QED BY <1>1, <1>2, <1>4, <2>2 DEF IsSum
<1> QED BY <1>2, <1>3, <1>4
\* Sums of the same numbers are equal.
LEMMA SumCong ==
  ASSUME NEW w, NEW v, NEW n \in Nat, \A i \in 1 .. n : w[i] \in Int /\ v[i] = w[i]
  PROVE  SumTo(v, n) = SumTo(w, n)
<1> DEFINE S == {m \in Nat : m <= n => SumTo(v, m) = SumTo(w, m)}
<1>1. 0 \in S
  BY SumStep
<1>2. ASSUME NEW m \in Nat \cap S PROVE m + 1 \in S
  <2> SUFFICES ASSUME m + 1 <= n PROVE SumTo(v, m + 1) = SumTo(w, m + 1)
    OBVIOUS
  <2>1. m + 1 \in Nat /\ (m + 1) - 1 = m /\ \A i \in 1 .. m + 1 : w[i] \in Int /\ v[i] = w[i]
    OBVIOUS
  <2>2. SumTo(w, m + 1) = w[m + 1] + SumTo(w, m) /\ SumTo(v, m + 1) = v[m + 1] + SumTo(v, m)
    BY <2>1, SumStep
  <2> QED BY <2>1, <2>2
<1>3. \A i \in Nat : i \in S
  <2> HIDE DEF S
  <2> QED BY <1>1, <1>2, Induction
<1> QED BY <1>3

\* One number in front.
LEMMA SumCons ==
  ASSUME NEW w, NEW v, NEW n \in Nat, \A i \in 1 .. n : w[i] \in Int /\ v[i + 1] = w[i], v[1] \in Int
  PROVE  SumTo(v, n + 1) = v[1] + SumTo(w, n)
<1> DEFINE S == {m \in Nat : m <= n => SumTo(v, m + 1) = v[1] + SumTo(w, m)}
<1>0. \A i \in 1 .. n + 1 : v[i] \in Int
  <2> TAKE i \in 1 .. n + 1
  <2>1. CASE i = 1
    BY <2>1
  <2>2. CASE i # 1
    <3>1. i - 1 \in 1 .. n /\ (i - 1) + 1 = i
      BY <2>2
    <3> QED BY <3>1
  <2> QED BY <2>1, <2>2
<1>1. 0 \in S
  <2>1. SumTo(v, 1) = v[1] + SumTo(v, 0) /\ SumTo(v, 0) = 0 /\ SumTo(w, 0) = 0
    BY SumStep
  <2> QED BY <2>1
<1>2. ASSUME NEW m \in Nat \cap S PROVE m + 1 \in S
  <2> SUFFICES ASSUME m + 1 <= n PROVE SumTo(v, m + 2) = v[1] + SumTo(w, m + 1)
    OBVIOUS
  <2>1. m + 1 \in Nat /\ (m + 1) - 1 = m /\ m + 2 \in Nat /\ (m + 2) - 1 = m + 1 /\ m + 1 \in 1 .. n
    OBVIOUS
  <2>2. SumTo(w, m + 1) = w[m + 1] + SumTo(w, m) /\ SumTo(w, m) \in Int
    BY <2>1, SumStep
  <2>3. SumTo(v, m + 2) = v[m + 2] + SumTo(v, m + 1) /\ SumTo(v, m + 1) \in Int
    BY <1>0, <2>1, SumStep
  <2>4. v[m + 2] = w[m + 1]
    <3>1. v[(m + 1) + 1] = w[m + 1]
      BY <2>1
    <3> QED BY <3>1
  <2> QED BY <2>1, <2>2, <2>3, <2>4
<1>3. \A i \in Nat : i \in S
  <2> HIDE DEF S
  <2> QED BY <1>1, <1>2, Induction
<1> QED BY <1>3

\* One number replaced.
LEMMA SumUpdate ==
  ASSUME NEW w, NEW v, NEW n \in Nat, NEW p \in 1 .. n, \A i \in 1 .. n : w[i] \in Int /\ v[i] \in Int,
         \A i \in 1 .. n : i # p => v[i] = w[i]
  PROVE  SumTo(v, n) = SumTo(w, n) - w[p] + v[p]
<1> DEFINE S == {m \in Nat : m <= n => SumTo(v, m) = IF m < p THEN SumTo(w, m) ELSE SumTo(w, m) - w[p] + v[p]}
<1>1. 0 \in S
  BY SumStep
<1>2. ASSUME NEW m \in Nat \cap S PROVE m + 1 \in S
  <2> SUFFICES ASSUME m + 1 <= n
               PROVE  SumTo(v, m + 1) = IF m + 1 < p THEN SumTo(w, m + 1) ELSE SumTo(w, m + 1) - w[p] + v[p]
    OBVIOUS
  <2>1. m + 1 \in Nat /\ (m + 1) - 1 = m /\ m + 1 \in 1 .. n
    OBVIOUS
  <2>2. SumTo(w, m + 1) = w[m + 1] + SumTo(w, m) /\ SumTo(w, m) \in Int
    BY <2>1, SumStep
  <2>3. SumTo(v, m + 1) = v[m + 1] + SumTo(v, m) /\ SumTo(v, m) \in Int
    BY <2>1, SumStep
  <2>4. w[m + 1] \in Int /\ v[m + 1] \in Int /\ w[p] \in Int /\ v[p] \in Int
    BY <2>1
  <2>5. CASE m + 1 = p
    BY <2>1, <2>2, <2>3, <2>4, <2>5
  <2>6. CASE m + 1 # p
    <3>1. v[m + 1] = w[m + 1]
      BY <2>1, <2>6
    <3> QED BY <2>1, <2>2, <2>3, <2>4, <2>6, <3>1
  <2> QED BY <2>5, <2>6
<1>3. \A i \in Nat : i \in S
  <2> HIDE DEF S
  <2> QED BY <1>1, <1>2, Induction
<1> QED BY <1>3

\* One number left out.
LEMMA SumRemove ==
  ASSUME NEW w, NEW v, NEW n \in Nat, NEW p \in 1 .. n + 1, \A i \in 1 .. n + 1 : w[i] \in Int,
         \A i \in 1 .. n : v[i] = IF i < p THEN w[i] ELSE w[i + 1]
  PROVE  SumTo(v, n) = SumTo(w, n + 1) - w[p]
<1> DEFINE S == {m \in Nat : m <= n => SumTo(v, m) = IF m < p THEN SumTo(w, m) ELSE SumTo(w, m + 1) - w[p]}
<1>0. \A i \in 1 .. n : v[i] \in Int
  OBVIOUS
<1>1. 0 \in S
  BY SumStep
<1>2. ASSUME NEW m \in Nat \cap S PROVE m + 1 \in S
  <2> SUFFICES ASSUME m + 1 <= n
               PROVE  SumTo(v, m + 1) = IF m + 1 < p THEN SumTo(w, m + 1) ELSE SumTo(w, m + 2) - w[p]
    OBVIOUS
  <2>1. m \in Nat /\ m + 1 \in Nat /\ (m + 1) - 1 = m /\ m + 1 \in 1 .. n /\ m + 2 \in 1 .. n + 1 /\ (m + 2) - 1 = m + 1
        /\ (m + 1) + 1 = m + 2
    OBVIOUS
  <2>2. SumTo(w, m + 1) = w[m + 1] + SumTo(w, m) /\ SumTo(w, m) \in Int /\ SumTo(w, m + 1) \in Int
    BY <2>1, SumStep
  <2>3. SumTo(v, m + 1) = v[m + 1] + SumTo(v, m) /\ SumTo(v, m) \in Int
    BY <1>0, <2>1, SumStep
  <2>4. SumTo(w, m + 2) = w[m + 2] + SumTo(w, m + 1)
    BY <2>1, SumStep
  <2>5. w[m + 1] \in Int /\ w[m + 2] \in Int /\ w[p] \in Int
    BY <2>1
  <2>6. v[m + 1] = IF m + 1 < p THEN w[m + 1] ELSE w[m + 2]
    BY <2>1
  <2>7. SumTo(v, m) = IF m < p THEN SumTo(w, m) ELSE SumTo(w, m + 1) - w[p]
    BY <2>1
  <2>8. CASE m + 1 < p
    BY <2>1, <2>2, <2>3, <2>5, <2>6, <2>7, <2>8
  <2>9. CASE m + 1 = p
    BY <2>1, <2>2, <2>3, <2>4, <2>5, <2>6, <2>7, <2>9
  <2>10. CASE m + 1 > p
    BY <2>1, <2>2, <2>3, <2>4, <2>5, <2>6, <2>7, <2>10
  <2> QED BY <2>1, <2>8, <2>9, <2>10
<1>3. \A i \in Nat : i \in S
  <2> HIDE DEF S
  <2> QED BY <1>1, <1>2, Induction
<1>4. CASE p <= n
  <2>1. SumTo(v, n) = SumTo(w, n + 1) - w[p]
    BY <1>3, <1>4
  <2> QED BY <2>1
<1>5. CASE p = n + 1
  <2>1. SumTo(v, n) = SumTo(w, n)
    BY <1>3, <1>5
  <2>2. SumTo(w, n + 1) = w[n + 1] + SumTo(w, n) /\ SumTo(w, n) \in Int
    BY SumStep
  <2> QED BY <2>1, <2>2, <1>5
<1> QED BY <1>4, <1>5

-----------------------------------------------------------------------------
(* Facts about the lists                                                   *)

\* Removing the element at i from a list without repetitions leaves a list
\* without repetitions of the other keys.
LEMMA RemoveAtProperties ==
  ASSUME NEW s \in Seq(Key), IsInjective(s), NEW i \in DOMAIN s
  PROVE  /\ RemoveAt(s, i) \in Seq(Key)
         /\ IsInjective(RemoveAt(s, i))
         /\ ToSet(RemoveAt(s, i)) = ToSet(s) \ {s[i]}
         /\ Len(RemoveAt(s, i)) = Len(s) - 1
         /\ \A j \in 1 .. Len(s) - 1 : RemoveAt(s, i)[j] = IF j < i THEN s[j] ELSE s[j + 1]
<1> DEFINE r == RemoveAt(s, i)
           n == Len(s)
           left == SubSeq(s, 1, i - 1)
           right == SubSeq(s, i + 1, n)
<1>1. n \in Nat /\ DOMAIN s = 1 .. n /\ i \in 1 .. n
  BY LenProperties
<1>2. left \in Seq(Key) /\ Len(left) = i - 1 /\ \A j \in 1 .. i - 1 : left[j] = s[j]
  BY <1>1, SubSeqProperties
<1>3. right \in Seq(Key) /\ Len(right) = n - i /\ \A j \in 1 .. n - i : right[j] = s[i + j]
  BY <1>1, SubSeqProperties
<1>4. r = left \o right
  BY DEF RemoveAt
<1> HIDE DEF r, left, right
<1>5. r \in Seq(Key) /\ Len(r) = n - 1
  <2>1. r \in Seq(Key) /\ Len(r) = Len(left) + Len(right)
    BY <1>2, <1>3, <1>4, ConcatProperties
  <2> HIDE DEF n
  <2> QED BY <2>1, <1>1, <1>2, <1>3
<1>6. \A j \in 1 .. n - 1 : r[j] = IF j < i THEN s[j] ELSE s[j + 1]
  <2>1. \A j \in 1 .. Len(left) + Len(right) :
          r[j] = IF j <= Len(left) THEN left[j] ELSE right[j - Len(left)]
    BY <1>2, <1>3, <1>4, ConcatProperties
  <2>2. ASSUME NEW j \in 1 .. n - 1, j < i PROVE r[j] = s[j]
    <3> HIDE DEF n
    <3>1. j \in 1 .. i - 1 /\ j \in 1 .. Len(left) + Len(right)
      BY <2>2, <1>1, <1>2, <1>3
    <3> QED BY <2>1, <3>1, <1>2, <1>1
  <2>3. ASSUME NEW j \in 1 .. n - 1, j >= i PROVE r[j] = s[j + 1]
    <3>1. r[j] = right[j - (i - 1)]
      BY <2>1, <2>3, <1>1, <1>2, <1>3
    <3>2. j - (i - 1) \in 1 .. n - i
      BY <2>3, <1>1
    <3> QED BY <3>1, <3>2, <2>3, <1>1, <1>3
  <2> QED BY <2>2, <2>3, <1>1
<1>7. DOMAIN r = 1 .. n - 1
  BY <1>5, LenProperties
<1>8. IsInjective(r)
  BY <1>1, <1>6, <1>7 DEF IsInjective
<1>9. ASSUME NEW k PROVE k \in ToSet(r) => k \in ToSet(s) \ {s[i]}
  BY <1>1, <1>6, <1>7 DEF ToSet, IsInjective
<1>10. ASSUME NEW k \in ToSet(s) \ {s[i]} PROVE k \in ToSet(r)
  <2>1. PICK j \in 1 .. n : s[j] = k /\ j # i
    BY <1>1 DEF ToSet
  <2>2. CASE j < i
    BY <2>1, <2>2, <1>1, <1>6, <1>7 DEF ToSet
  <2>3. CASE j > i
    <3>1. j - 1 \in 1 .. n - 1 /\ r[j - 1] = k
      BY <2>1, <2>3, <1>1, <1>6
    <3> QED BY <3>1, <1>7 DEF ToSet
  <2> QED BY <2>1, <2>2, <2>3, <1>1
<1> QED BY <1>5, <1>6, <1>8, <1>9, <1>10 DEF r

\* Putting a key in front of a list that does not hold it.
LEMMA ConsProperties ==
  ASSUME NEW s \in Seq(Key), IsInjective(s), NEW k \in Key \ ToSet(s)
  PROVE  /\ <<k>> \o s \in Seq(Key)
         /\ IsInjective(<<k>> \o s)
         /\ ToSet(<<k>> \o s) = ToSet(s) \cup {k}
         /\ Head(<<k>> \o s) = k /\ <<k>> \o s # <<>>
         /\ Len(<<k>> \o s) = Len(s) + 1
         /\ (<<k>> \o s)[1] = k /\ \A j \in 1 .. Len(s) : (<<k>> \o s)[j + 1] = s[j]
<1> DEFINE t == <<k>> \o s
           n == Len(s)
<1>1. n \in Nat /\ DOMAIN s = 1 .. n
  BY LenProperties
<1>2. t \in Seq(Key) /\ Len(t) = n + 1 /\ DOMAIN t = 1 .. n + 1
  BY <1>1, ConcatProperties, LenProperties
<1>3. t[1] = k /\ \A j \in 2 .. n + 1 : t[j] = s[j - 1]
  BY <1>1, ConcatProperties
<1>4. Head(t) = k /\ t # <<>>
  BY <1>2, <1>3, <1>1
<1> HIDE DEF t
<1>5. \A j \in DOMAIN t : j = 1 \/ (j \in 2 .. n + 1 /\ j - 1 \in DOMAIN s /\ t[j] = s[j - 1])
  BY <1>1, <1>2, <1>3
<1>6. IsInjective(t)
  BY <1>1, <1>2, <1>3, <1>5 DEF IsInjective, ToSet
<1>7. ASSUME NEW x PROVE x \in ToSet(t) => x \in ToSet(s) \cup {k}
  BY <1>3, <1>5 DEF ToSet
<1>8. ASSUME NEW x \in ToSet(s) PROVE x \in ToSet(t)
  <2>1. PICK j \in DOMAIN s : s[j] = x
    BY DEF ToSet
  <2>2. j + 1 \in DOMAIN t /\ t[j + 1] = x
    BY <2>1, <1>1, <1>2, <1>3
  <2> QED BY <2>2 DEF ToSet
<1>9. k \in ToSet(t)
  BY <1>1, <1>2, <1>3 DEF ToSet
<1>10. \A j \in 1 .. n : t[j + 1] = s[j]
  BY <1>1, <1>3
<1> QED BY <1>2, <1>3, <1>4, <1>6, <1>7, <1>8, <1>9, <1>10 DEF t

\* Dropping the last key of a list without repetitions.
LEMMA FrontProperties ==
  ASSUME NEW s \in Seq(Key), IsInjective(s), s # <<>>
  PROVE  /\ Front(s) \in Seq(Key)
         /\ IsInjective(Front(s))
         /\ ToSet(Front(s)) = ToSet(s) \ {Last(s)}
         /\ Last(s) # Head(s) => Front(s) # <<>> /\ Head(Front(s)) = Head(s)
         /\ Len(Front(s)) = Len(s) - 1 /\ \A j \in 1 .. Len(s) - 1 : Front(s)[j] = s[j]
<1> DEFINE f == Front(s)
           n == Len(s)
<1>1. n \in Nat \ {0} /\ DOMAIN s = 1 .. n /\ Head(s) = s[1] /\ Last(s) = s[n]
  BY LenProperties DEF Last
<1>2. f \in Seq(Key) /\ Len(f) = n - 1 /\ \A j \in 1 .. n - 1 : f[j] = s[j]
  BY <1>1, SubSeqProperties DEF Front
<1>3. DOMAIN f = 1 .. n - 1
  BY <1>2, LenProperties
<1> HIDE DEF f
<1>4. IsInjective(f)
  BY <1>1, <1>2, <1>3 DEF IsInjective
<1>5. ToSet(f) = ToSet(s) \ {s[n]}
  <2>1. ASSUME NEW k PROVE k \in ToSet(f) => k \in ToSet(s) \ {s[n]}
    BY <1>1, <1>2, <1>3 DEF ToSet, IsInjective
  <2>2. ASSUME NEW k PROVE k \in ToSet(s) \ {s[n]} => k \in ToSet(f)
    BY <1>1, <1>2, <1>3 DEF ToSet
  <2> QED BY <2>1, <2>2
<1>6. Last(s) # Head(s) => f # <<>> /\ Head(f) = Head(s)
  BY <1>1, <1>2
<1> QED BY <1>1, <1>2, <1>4, <1>5, <1>6 DEF f

\* What MoveToFront and PushFront make of a lane's list.
LEMMA MovedToFrontProperties ==
  ASSUME TypeOK, NEW l \in Lane, NEW k \in Key
  PROVE  /\ MovedToFront(l, k) \in Seq(Key)
         /\ IsInjective(MovedToFront(l, k))
         /\ ToSet(MovedToFront(l, k)) = ToSet(lru[l]) \cup {k}
         /\ Head(MovedToFront(l, k)) = k /\ MovedToFront(l, k) # <<>>
<1>1. lru[l] \in Seq(Key) /\ IsInjective(lru[l])
  BY DEF TypeOK, ListsOK
<1>2. CASE Has(l, k)
  <2>1. Element(l, k) \in DOMAIN lru[l] /\ lru[l][Element(l, k)] = k
    BY <1>2 DEF Has, Element
  <2> DEFINE rest == RemoveAt(lru[l], Element(l, k))
  <2>2. rest \in Seq(Key) /\ IsInjective(rest) /\ ToSet(rest) = ToSet(lru[l]) \ {k}
    BY <1>1, <2>1, RemoveAtProperties
  <2>3. k \in ToSet(lru[l])
    BY <2>1 DEF ToSet
  <2>4. MovedToFront(l, k) = <<k>> \o rest
    BY <1>2 DEF MovedToFront
  <2> HIDE DEF rest
  <2> QED BY <2>2, <2>3, <2>4, ConsProperties
<1>3. CASE ~Has(l, k)
  <2>1. k \notin ToSet(lru[l])
    BY <1>3 DEF Has, ToSet
  <2>2. MovedToFront(l, k) = <<k>> \o lru[l]
    BY <1>3 DEF MovedToFront
  <2> QED BY <1>1, <2>1, <2>2, ConsProperties
<1> QED BY <1>2, <1>3
-----------------------------------------------------------------------------
(* Type correctness                                                        *)

LEMMA LaneFacts ==
  ASSUME NEW k \in Key
  PROVE  /\ Home[k] \in Lane /\ Large \in Lane /\ PutLane(k) \in Lane
         /\ Size(k) \in Int /\ DigestSize \in Int /\ Length[k] \in Int
         /\ \A l \in Lane : EntrySize(l, k) \in Int
         /\ \A i \in 1 .. 6 : GetProbes(k)[i].lane \in Lane
  BY CacheAssumption DEF Lane, Shard, PutLane, Size, EntrySize, GetProbes

\* A client that does not evict holds no lane.
LEMMA HolderFacts ==
  ASSUME TypeOK, NEW g \in Client, pc[g] # "evict"
  PROVE  \A l \in Lane : holder[l] # g
  BY DEF TypeOK, LocksOK

LEMMA InitType == Init => TypeOK
  BY EmptySeq, CacheAssumption DEF Init, TypeOK, ListsOK, CallsOK, LocksOK, IsInjective

LEMMA CallType ==
  ASSUME TypeOK, NEW g \in Client, NEW k \in Key, Get(g, k) \/ Put(g, k)
  PROVE  TypeOK'
<1> USE DEF TypeOK, Get, Put, laneVars
<1>1. CallsOK'
  BY DEF CallsOK
<1>2. LocksOK'
  BY DEF CallsOK, LocksOK
<1>3. ListsOK'
  BY DEF ListsOK
<1> QED BY <1>1, <1>2, <1>3

\* A probe looks into a lane for a key.
LEMMA ProbeFacts ==
  ASSUME TypeOK, NEW g \in Client, pc[g] = "get"
  PROVE  arg[g] \in Key /\ step[g] \in 1 .. 6 /\ Probe(g).lane \in Lane
<1>1. arg[g] \in Key /\ step[g] \in 1 .. 6
  BY DEF TypeOK, CallsOK
<1>2. Probe(g).lane \in Lane
  BY <1>1, LaneFacts DEF Probe
<1> QED BY <1>1, <1>2

\* Whatever a probe ends in, the client stays in range and holds no lock.
LEMMA ProbeReturns ==
  ASSUME TypeOK, NEW g \in Client, pc[g] = "get", Return(g, "hit") \/ NextProbe(g),
         holder' = holder
  PROVE  CallsOK' /\ LocksOK'
<1>1. step[g] \in 1 .. 6
  BY ProbeFacts
<1>2. CallsOK'
  BY <1>1 DEF TypeOK, CallsOK, Return, NextProbe
<1>3. LocksOK'
  BY DEF TypeOK, CallsOK, LocksOK, Return, NextProbe
<1> QED BY <1>2, <1>3

LEMMA FastProbeType ==
  ASSUME TypeOK, NEW g \in Client, FastProbe(g)
  PROVE  TypeOK'
<1>1. CallsOK' /\ LocksOK'
  BY ProbeReturns DEF FastProbe, laneVars
<1> QED BY <1>1 DEF TypeOK, ListsOK, FastProbe, laneVars

LEMMA LockedProbeType ==
  ASSUME TypeOK, NEW g \in Client, LockedProbe(g)
  PROVE  TypeOK'
<1> DEFINE l == Probe(g).lane
           k == arg[g]
           m == MovedToFront(l, k)
<1>1. k \in Key /\ l \in Lane
  BY ProbeFacts DEF LockedProbe
<1>2. CallsOK' /\ LocksOK'
  BY ProbeReturns DEF LockedProbe
<1>3. m \in Seq(Key) /\ IsInjective(m) /\ ToSet(m) = ToSet(lru[l]) \cup {k}
  BY <1>1, MovedToFrontProperties
<1>4. /\ \/ lru' = [lru EXCEPT ![l] = m] /\ front' = [front EXCEPT ![l] = k]
         \/ UNCHANGED <<lru, front>>
      /\ UNCHANGED <<full, used>>
  BY DEF LockedProbe
<1> HIDE DEF l, m
<1>5. ListsOK' /\ front' \in [Lane -> Key \cup {Nobody}]
  BY <1>1, <1>3, <1>4 DEF TypeOK, ListsOK
<1> QED BY <1>2, <1>4, <1>5 DEF TypeOK

\* What an insertion has to keep of the type: the entries it leaves payloads in
\* are entries, its front pointer names a key.
LEMMA InsertType ==
  ASSUME TypeOK, NEW g \in Client, NEW l \in Lane, NEW F, NEW v \in Key \cup {Nobody},
         F \subseteq full[l] \cup {arg[g]}, Insert(g, l, F, v), used' \in [Lane -> Int]
  PROVE  TypeOK'
<1> DEFINE k == arg[g]
           m == MovedToFront(l, k)
<1>1. k \in Key /\ pc[g] = "put" /\ holder[l] = Nobody
  BY DEF TypeOK, CallsOK, Insert
<1>2. m \in Seq(Key) /\ IsInjective(m) /\ ToSet(m) = ToSet(lru[l]) \cup {k}
  BY <1>1, MovedToFrontProperties
<1>3. lru' = [lru EXCEPT ![l] = m]
  BY DEF Insert
<1> HIDE DEF m
<1>4. ListsOK'
  BY <1>1, <1>2, <1>3 DEF TypeOK, ListsOK, Insert
<1>5. CallsOK'
  BY <1>1 DEF TypeOK, CallsOK, Insert
<1>6. LocksOK'
  BY <1>1, CacheAssumption DEF TypeOK, CallsOK, LocksOK, Insert
<1> QED BY <1>4, <1>5, <1>6 DEF TypeOK, Insert

LEMMA PutType ==
  ASSUME TypeOK, NEW g \in Client, PutInto(g) \/ PutChecksum(g) \/ PutNothing(g)
  PROVE  TypeOK'
<1>1. pc[g] = "put" /\ arg[g] \in Key
  BY DEF TypeOK, CallsOK, PutInto, PutChecksum, PutNothing
<1>2. CASE PutInto(g)
  <2>1. PutLane(arg[g]) \in Lane /\ used' \in [Lane -> Int]
    BY <1>1, <1>2, LaneFacts DEF TypeOK, PutInto
  <2>2. Insert(g, PutLane(arg[g]), full[PutLane(arg[g])] \cup {arg[g]}, arg[g])
    BY <1>2 DEF PutInto
  <2> QED BY <1>1, <2>1, <2>2, InsertType
<1>3. CASE PutChecksum(g)
  <2>1. Home[arg[g]] \in Lane /\ used' \in [Lane -> Int]
    BY <1>1, <1>3, LaneFacts DEF TypeOK, PutChecksum
  <2>2. Insert(g, Home[arg[g]], full[Home[arg[g]]], Nobody)
    BY <1>3 DEF PutChecksum
  <2> QED BY <1>1, <2>1, <2>2, InsertType
<1>4. CASE PutNothing(g)
  BY <1>4 DEF TypeOK, ListsOK, CallsOK, LocksOK, PutNothing, Return, laneVars
<1> QED BY <1>2, <1>3, <1>4

LEMMA EvictType ==
  ASSUME TypeOK, NEW g \in Client, NEW l \in Lane,
         DropPayload(g, l) \/ DropEntry(g, l) \/ Unlock(g, l)
  PROVE  TypeOK'
<1>1. CASE DropPayload(g, l)
  <2>1. full[l] \subseteq Key /\ Last(lru[l]) \in full[l]
    BY <1>1 DEF TypeOK, ListsOK, DropPayload
  <2>2. Length[Last(lru[l])] \in Int
    BY <2>1, LaneFacts
  <2>3. ListsOK'
    BY <1>1 DEF TypeOK, ListsOK, DropPayload
  <2>4. CallsOK' /\ LocksOK'
    BY <1>1 DEF TypeOK, CallsOK, LocksOK, DropPayload
  <2> QED BY <1>1, <2>2, <2>3, <2>4 DEF TypeOK, DropPayload
<1>2. CASE DropEntry(g, l)
  <2>1. /\ lru[l] \in Seq(Key) /\ IsInjective(lru[l]) /\ lru[l] # <<>>
        /\ Last(lru[l]) \notin full[l]
    BY <1>2 DEF TypeOK, ListsOK, DropEntry, Overfull
  <2> DEFINE f == Front(lru[l])
  <2>2. f \in Seq(Key) /\ IsInjective(f) /\ full[l] \subseteq ToSet(f)
    BY <2>1, FrontProperties DEF TypeOK, ListsOK
  <2>3. lru' = [lru EXCEPT ![l] = f]
    BY <1>2 DEF DropEntry
  <2> HIDE DEF f
  <2>4. ListsOK'
    BY <1>2, <2>2, <2>3 DEF TypeOK, ListsOK, DropEntry
  <2>5. CallsOK' /\ LocksOK'
    BY <1>2 DEF TypeOK, CallsOK, LocksOK, DropEntry
  <2>6. DigestSize \in Int
    BY CacheAssumption
  <2> QED BY <1>2, <2>4, <2>5, <2>6 DEF TypeOK, DropEntry
<1>3. CASE Unlock(g, l)
  <2>1. LocksOK'
    BY <1>3, CacheAssumption DEF TypeOK, CallsOK, LocksOK, Unlock, Evicting, Return
  <2>2. CallsOK'
    BY <1>3 DEF TypeOK, CallsOK, Unlock, Return
  <2> QED BY <1>3, <2>1, <2>2 DEF TypeOK, ListsOK, Unlock
<1> QED BY <1>1, <1>2, <1>3

LEMMA TypeStep ==
  ASSUME TypeOK, [Next]_vars
  PROVE  TypeOK'
<1>1. CASE UNCHANGED vars
  BY <1>1 DEF TypeOK, ListsOK, CallsOK, LocksOK, vars, laneVars
<1>2. CASE Next
  <2>1. PICK g \in Client :
          (\E k \in Key : Get(g, k) \/ Put(g, k)) \/ GetStep(g) \/ PutStep(g)
    BY <1>2 DEF Next
  <2> QED BY <2>1, CallType, FastProbeType, LockedProbeType, PutType, EvictType
            DEF GetStep, PutStep
<1> QED BY <1>1, <1>2

\* The lists are well formed, calls are in range, and every path through get
\* and put gives the lock back: a client holds one only while it evicts.
THEOREM TypeCorrect == Spec => []TypeOK
<1>1. Init => TypeOK
  BY InitType
<1>2. TypeOK /\ [Next]_vars => TypeOK'
  BY TypeStep
<1> QED BY <1>1, <1>2, PTL DEF Spec

-----------------------------------------------------------------------------
(* The front pointer                                                       *)

LEMMA FrontLocked ==
  ASSUME TypeOK, FrontIsMostRecent, NEW g \in Client, LockedProbe(g)
  PROVE  FrontIsMostRecent'
<1> DEFINE l == Probe(g).lane
           k == arg[g]
           m == MovedToFront(l, k)
<1>1. k \in Key /\ l \in Lane
  BY ProbeFacts DEF LockedProbe
<1>2. m # <<>> /\ Head(m) = k
  BY <1>1, MovedToFrontProperties
<1>3. /\ \/ lru' = [lru EXCEPT ![l] = m] /\ front' = [front EXCEPT ![l] = k] /\ k \in full[l]
         \/ UNCHANGED <<lru, front>>
      /\ UNCHANGED full
  BY DEF LockedProbe
<1> HIDE DEF l, m
<1> QED BY <1>1, <1>2, <1>3 DEF FrontIsMostRecent, TypeOK, ListsOK

LEMMA FrontInsert ==
  ASSUME TypeOK, FrontIsMostRecent, NEW g \in Client, NEW l \in Lane, NEW F, NEW v,
         Insert(g, l, F, v), v = Nobody \/ (v = arg[g] /\ v \in F)
  PROVE  FrontIsMostRecent'
<1> DEFINE m == MovedToFront(l, arg[g])
<1>1. arg[g] \in Key
  BY DEF TypeOK, CallsOK, Insert
<1>2. m # <<>> /\ Head(m) = arg[g]
  BY <1>1, MovedToFrontProperties
<1>3. lru' = [lru EXCEPT ![l] = m]
  BY DEF Insert
<1> HIDE DEF m
<1> QED BY <1>2, <1>3 DEF FrontIsMostRecent, TypeOK, ListsOK, Insert

LEMMA FrontPut ==
  ASSUME TypeOK, FrontIsMostRecent, NEW g \in Client,
         PutInto(g) \/ PutChecksum(g) \/ PutNothing(g)
  PROVE  FrontIsMostRecent'
<1>1. arg[g] \in Key
  BY DEF TypeOK, CallsOK, PutInto, PutChecksum, PutNothing
<1>2. CASE PutInto(g)
  <2>1. PutLane(arg[g]) \in Lane
    BY <1>1, LaneFacts
  <2>2. Insert(g, PutLane(arg[g]), full[PutLane(arg[g])] \cup {arg[g]}, arg[g])
    BY <1>2 DEF PutInto
  <2> QED BY <2>1, <2>2, FrontInsert
<1>3. CASE PutChecksum(g)
  <2>1. Home[arg[g]] \in Lane
    BY <1>1, LaneFacts
  <2>2. Insert(g, Home[arg[g]], full[Home[arg[g]]], Nobody)
    BY <1>3 DEF PutChecksum
  <2> QED BY <2>1, <2>2, FrontInsert
<1>4. CASE PutNothing(g)
  BY <1>4 DEF FrontIsMostRecent, PutNothing, laneVars
<1> QED BY <1>2, <1>3, <1>4

\* A removed entry has no payload, so it is not the published one; a dropped
\* payload is cleared from the front pointer.
LEMMA FrontEvict ==
  ASSUME TypeOK, FrontIsMostRecent, NEW g \in Client, NEW l \in Lane,
         DropPayload(g, l) \/ DropEntry(g, l) \/ Unlock(g, l)
  PROVE  FrontIsMostRecent'
<1>1. CASE DropPayload(g, l)
  BY <1>1 DEF FrontIsMostRecent, TypeOK, ListsOK, DropPayload
<1>2. CASE DropEntry(g, l)
  <2> DEFINE f == Front(lru[l])
  <2>1. /\ lru[l] \in Seq(Key) /\ IsInjective(lru[l]) /\ lru[l] # <<>>
        /\ Last(lru[l]) \notin full[l]
    BY <1>2 DEF TypeOK, ListsOK, DropEntry, Overfull
  <2>2. Last(lru[l]) # Head(lru[l]) => f # <<>> /\ Head(f) = Head(lru[l])
    BY <2>1, FrontProperties
  <2>3. lru' = [lru EXCEPT ![l] = f] /\ UNCHANGED <<full, front>>
    BY <1>2 DEF DropEntry
  <2> HIDE DEF f
  <2> QED BY <2>1, <2>2, <2>3 DEF FrontIsMostRecent, TypeOK, ListsOK
<1>3. CASE Unlock(g, l)
  BY <1>3 DEF FrontIsMostRecent, Unlock
<1> QED BY <1>1, <1>2, <1>3

LEMMA FrontStep ==
  ASSUME TypeOK, FrontIsMostRecent, [Next]_vars
  PROVE  FrontIsMostRecent'
<1>1. CASE UNCHANGED vars
  BY <1>1 DEF FrontIsMostRecent, vars, laneVars
<1>2. CASE Next
  <2>1. PICK g \in Client :
          (\E k \in Key : Get(g, k) \/ Put(g, k)) \/ GetStep(g) \/ PutStep(g)
    BY <1>2 DEF Next
  <2>2. CASE (\E k \in Key : Get(g, k) \/ Put(g, k)) \/ FastProbe(g)
    BY <2>2 DEF FrontIsMostRecent, Get, Put, FastProbe, laneVars
  <2> QED BY <2>1, <2>2, FrontLocked, FrontPut, FrontEvict DEF GetStep, PutStep
<1> QED BY <1>1, <1>2

\* The payload in the front pointer is always that of the most recently used
\* entry of its lane: it is never one that was evicted or overtaken.
THEOREM FrontPublishesMostRecent == Spec => []FrontIsMostRecent
<1>1. Init => FrontIsMostRecent
  BY DEF Init, FrontIsMostRecent
<1>2. TypeOK /\ FrontIsMostRecent /\ [Next]_vars => FrontIsMostRecent'
  BY FrontStep
<1> QED BY <1>1, <1>2, TypeCorrect, PTL DEF Spec

\* A hit without a lock reads the front pointer, a hit with one moves its entry.
LEMMA HitStep ==
  ASSUME TypeOK, FrontIsMostRecent, [Next]_vars,
         NEW g \in Client, pc[g] = "get", pc'[g] = "hit"
  PROVE  Head(lru'[Probe(g).lane]) = arg[g]
<1>1. PICK h \in Client :
        (\E k \in Key : Get(h, k) \/ Put(h, k)) \/ GetStep(h) \/ PutStep(h)
  BY DEF Next, vars
<1>2. h = g /\ (FastProbe(g) \/ LockedProbe(g))
  BY <1>1 DEF TypeOK, CallsOK, Get, Put, GetStep, PutStep, FastProbe, LockedProbe, NextProbe,
              Return, PutInto, PutChecksum, PutNothing, Insert, DropPayload, DropEntry, Unlock, Evicting
<1>3. arg[g] \in Key /\ Probe(g).lane \in Lane
  BY ProbeFacts
<1>4. CASE FastProbe(g)
  <2>1. front[Probe(g).lane] = arg[g] /\ lru' = lru
    BY <1>4 DEF TypeOK, CallsOK, FastProbe, NextProbe, Return, laneVars
  <2> QED BY <2>1, <1>3, CacheAssumption DEF FrontIsMostRecent
<1>5. CASE LockedProbe(g)
  <2> DEFINE l == Probe(g).lane
             m == MovedToFront(l, arg[g])
  <2>1. lru' = [lru EXCEPT ![l] = m]
    BY <1>5 DEF TypeOK, CallsOK, LockedProbe, NextProbe, Return
  <2>2. Head(m) = arg[g]
    BY <1>3, MovedToFrontProperties
  <2> HIDE DEF m
  <2> QED BY <2>1, <2>2, <1>3 DEF TypeOK, ListsOK
<1> QED BY <1>2, <1>4, <1>5

\* Every hit, with or without the lock, leaves its key at the head of its list.
THEOREM FastPathKeepsOrder == Spec => HitsRefreshRecency
<1>1. TypeOK /\ FrontIsMostRecent /\ [Next]_vars =>
        [\A g \in Client : pc[g] = "get" /\ pc'[g] = "hit" =>
           Head(lru'[Probe(g).lane]) = arg[g]]_vars
  BY HitStep
<1> QED BY <1>1, TypeCorrect, FrontPublishesMostRecent, PTL DEF Spec, HitsRefreshRecency

-----------------------------------------------------------------------------
(* The bytes of a list                                                     *)

\* What an entry weighs in a lane whose payloads are F, and a list of entries.
Weight(F, k) == IF k \in F THEN Size(k) ELSE DigestSize
Weights(F, s) == [i \in 1 .. Len(s) |-> Weight(F, s[i])]
ListWeight(F, s) == SumTo(Weights(F, s), Len(s))

LEMMA ListWeightIsSum ==
  ASSUME NEW l \in Lane
  PROVE  SumOfEntries(l) = ListWeight(full[l], lru[l])
  BY DEF SumOfEntries, ListWeight, Weights, Weight, EntrySize

LEMMA WeightsType ==
  ASSUME NEW F, NEW s \in Seq(Key)
  PROVE  /\ Len(s) \in Nat
         /\ \A k \in Key : Weight(F, k) \in Int
         /\ \A i \in 1 .. Len(s) : s[i] \in Key /\ Weights(F, s)[i] = Weight(F, s[i]) /\ Weights(F, s)[i] \in Int
         /\ ListWeight(F, s) \in Int
<1>1. Len(s) \in Nat /\ \A i \in 1 .. Len(s) : s[i] \in Key
  BY LenProperties, ElementOfSeq
<1>2. \A k \in Key : Weight(F, k) \in Int
  BY LaneFacts DEF Weight
<1>3. \A i \in 1 .. Len(s) : Weights(F, s)[i] = Weight(F, s[i]) /\ Weights(F, s)[i] \in Int
  BY <1>1, <1>2 DEF Weights
<1>4. ListWeight(F, s) \in Int
  BY <1>1, <1>3, SumStep DEF ListWeight
<1> QED BY <1>1, <1>2, <1>3, <1>4

LEMMA EmptyWeight ==
  ASSUME NEW F
  PROVE  ListWeight(F, <<>>) = 0
<1>1. SumTo(Weights(F, <<>>), 0) = 0
  BY SumStep
<1> QED BY <1>1, EmptySeq DEF ListWeight

\* A list whose first entry is the only one.
LEMMA SingleWeight ==
  ASSUME NEW F, NEW s \in Seq(Key), Len(s) = 1
  PROVE  ListWeight(F, s) = Weight(F, s[1])
<1>1. SumTo(Weights(F, s), 1) = Weights(F, s)[1] + SumTo(Weights(F, s), 0) /\ SumTo(Weights(F, s), 0) = 0
  BY WeightsType, SumStep
<1> QED BY <1>1, WeightsType DEF ListWeight

LEMMA ConsWeight ==
  ASSUME NEW F, NEW s \in Seq(Key), IsInjective(s), NEW k \in Key \ ToSet(s)
  PROVE  ListWeight(F, <<k>> \o s) = Weight(F, k) + ListWeight(F, s)
<1> DEFINE t == <<k>> \o s
           w == Weights(F, s)
           v == Weights(F, t)
           n == Len(s)
<1>1. t \in Seq(Key) /\ Len(t) = n + 1 /\ t[1] = k /\ \A i \in 1 .. n : t[i + 1] = s[i]
  BY ConsProperties
<1> HIDE DEF t
<1>2. n \in Nat /\ \A i \in 1 .. n : w[i] = Weight(F, s[i]) /\ w[i] \in Int
  BY WeightsType
<1>3. \A i \in 1 .. n + 1 : v[i] = Weight(F, t[i]) /\ v[i] \in Int
  BY <1>1, WeightsType
<1> HIDE DEF n, v, w
<1>4. v[1] = Weight(F, k) /\ v[1] \in Int
  BY <1>1, <1>2, <1>3
<1>5. \A i \in 1 .. n : v[i + 1] = w[i]
  BY <1>1, <1>2, <1>3
<1>6. SumTo(v, n + 1) = v[1] + SumTo(w, n)
  BY <1>2, <1>4, <1>5, SumCons
<1> QED BY <1>1, <1>4, <1>6 DEF ListWeight, n, v, w, t

LEMMA RemoveWeight ==
  ASSUME NEW F, NEW s \in Seq(Key), IsInjective(s), NEW p \in DOMAIN s
  PROVE  ListWeight(F, RemoveAt(s, p)) = ListWeight(F, s) - Weight(F, s[p])
<1> DEFINE r == RemoveAt(s, p)
           w == Weights(F, s)
           v == Weights(F, r)
           n == Len(s) - 1
<1>1. Len(s) \in Nat /\ DOMAIN s = 1 .. Len(s)
  BY LenProperties
<1>2. r \in Seq(Key) /\ Len(r) = n /\ \A j \in 1 .. n : r[j] = IF j < p THEN s[j] ELSE s[j + 1]
  BY RemoveAtProperties
<1> HIDE DEF r
<1>3. n \in Nat /\ p \in 1 .. n + 1 /\ Len(s) = n + 1
  BY <1>1
<1>4. \A i \in 1 .. n + 1 : w[i] = Weight(F, s[i]) /\ w[i] \in Int
  BY <1>3, WeightsType
<1>5. \A i \in 1 .. n : v[i] = Weight(F, r[i])
  BY <1>2, WeightsType
<1> HIDE DEF n, v, w
<1>6. \A i \in 1 .. n : v[i] = IF i < p THEN w[i] ELSE w[i + 1]
  BY <1>2, <1>3, <1>4, <1>5
<1>7. SumTo(v, n) = SumTo(w, n + 1) - w[p]
  BY <1>3, <1>4, <1>6, SumRemove
<1> QED BY <1>2, <1>3, <1>4, <1>7 DEF ListWeight, v, w, r

LEMMA FrontWeight ==
  ASSUME NEW F, NEW s \in Seq(Key), IsInjective(s), s # <<>>
  PROVE  ListWeight(F, Front(s)) = ListWeight(F, s) - Weight(F, Last(s))
<1> DEFINE f == Front(s)
           w == Weights(F, s)
           v == Weights(F, f)
           n == Len(s)
<1>1. n \in Nat \ {0} /\ Last(s) = s[n]
  BY LenProperties DEF Last
<1>2. f \in Seq(Key) /\ Len(f) = n - 1 /\ \A j \in 1 .. n - 1 : f[j] = s[j]
  BY FrontProperties
<1> HIDE DEF f
<1>3. \A i \in 1 .. n : w[i] = Weight(F, s[i]) /\ w[i] \in Int
  BY WeightsType
<1>4. \A i \in 1 .. n - 1 : v[i] = Weight(F, f[i])
  BY <1>2, WeightsType
<1> HIDE DEF n, v, w
<1>5. \A i \in 1 .. n - 1 : w[i] \in Int /\ v[i] = w[i]
  BY <1>1, <1>2, <1>3, <1>4
<1>6. SumTo(v, n - 1) = SumTo(w, n - 1) /\ SumTo(w, n - 1) \in Int
  BY <1>1, <1>5, SumCong, SumStep
<1>7. SumTo(w, n) = w[n] + SumTo(w, n - 1) /\ w[n] = Weight(F, Last(s)) /\ w[n] \in Int
  BY <1>1, <1>3, SumStep
<1> QED BY <1>2, <1>6, <1>7 DEF ListWeight, n, v, w, f

\* A payload that comes or goes elsewhere changes nothing.
LEMMA OtherPayload ==
  ASSUME NEW F, NEW G, NEW s \in Seq(Key), \A k \in ToSet(s) : k \in F <=> k \in G
  PROVE  ListWeight(F, s) = ListWeight(G, s)
<1>1. \A i \in 1 .. Len(s) : s[i] \in ToSet(s)
  BY LenProperties DEF ToSet
<1>2. \A i \in 1 .. Len(s) : Weights(F, s)[i] \in Int /\ Weights(G, s)[i] = Weights(F, s)[i]
  BY <1>1, WeightsType DEF Weight
<1>3. Len(s) \in Nat
  BY WeightsType
<1> QED BY <1>2, <1>3, SumCong DEF ListWeight

\* Without its payload an entry weighs its digest.
LEMMA DroppedPayload ==
  ASSUME NEW F, NEW s \in Seq(Key), IsInjective(s), NEW p \in DOMAIN s, s[p] \in F
  PROVE  ListWeight(F \ {s[p]}, s) = ListWeight(F, s) - Length[s[p]]
<1> DEFINE w == Weights(F, s)
           v == Weights(F \ {s[p]}, s)
           n == Len(s)
<1>1. n \in Nat /\ DOMAIN s = 1 .. n /\ s[p] \in Key
  BY LenProperties, ElementOfSeq
<1>2. \A i \in 1 .. n : w[i] = Weight(F, s[i]) /\ w[i] \in Int
  BY WeightsType
<1>3. \A i \in 1 .. n : v[i] = Weight(F \ {s[p]}, s[i]) /\ v[i] \in Int
  BY WeightsType
<1> HIDE DEF n, v, w
<1>4. \A i \in 1 .. n : i # p => v[i] = w[i]
  BY <1>1, <1>2, <1>3 DEF Weight, IsInjective
<1>5. SumTo(v, n) = SumTo(w, n) - w[p] + v[p]
  BY <1>1, <1>2, <1>3, <1>4, SumUpdate
<1>6. w[p] = DigestSize + Length[s[p]] /\ v[p] = DigestSize
  BY <1>1, <1>2, <1>3 DEF Weight, Size
<1>7. SumTo(w, n) \in Int /\ Length[s[p]] \in Int /\ DigestSize \in Int
  BY <1>1, <1>2, SumStep, LaneFacts
<1> QED BY <1>5, <1>6, <1>7 DEF ListWeight, n, v, w

\* The bytes after an insertion, with the payloads G then.
LEMMA MovedWeight ==
  ASSUME TypeOK, NEW l \in Lane, NEW k \in Key, NEW G, G = full[l] \/ G = full[l] \cup {k}
  PROVE  ListWeight(G, MovedToFront(l, k)) =
           Weight(G, k) + ListWeight(full[l], lru[l]) - (IF Has(l, k) THEN EntrySize(l, k) ELSE 0)
<1> DEFINE s == lru[l]
           F == full[l]
<1>1. s \in Seq(Key) /\ IsInjective(s)
  BY DEF TypeOK, ListsOK
<1>2. ListWeight(F, s) \in Int /\ Weight(F, k) \in Int /\ Weight(G, k) \in Int
  BY <1>1, WeightsType
<1>3. CASE Has(l, k)
  <2> DEFINE p == Element(l, k)
             r == RemoveAt(s, p)
  <2>1. p \in DOMAIN s /\ s[p] = k
    BY <1>3 DEF Has, Element
  <2>2. r \in Seq(Key) /\ IsInjective(r) /\ ToSet(r) = ToSet(s) \ {k}
    BY <1>1, <2>1, RemoveAtProperties
  <2>3. ListWeight(F, r) = ListWeight(F, s) - Weight(F, k)
    BY <1>1, <2>1, RemoveWeight
  <2>4. MovedToFront(l, k) = <<k>> \o r
    BY <1>3 DEF MovedToFront
  <2> HIDE DEF p, r, s, F
  <2>5. ListWeight(G, r) = ListWeight(F, r)
    BY <2>2, OtherPayload DEF F
  <2>6. ListWeight(G, <<k>> \o r) = Weight(G, k) + ListWeight(G, r)
    BY <2>2, ConsWeight
  <2>7. EntrySize(l, k) = Weight(F, k)
    BY DEF EntrySize, Weight, F
  <2> QED BY <1>2, <1>3, <2>3, <2>4, <2>5, <2>6, <2>7 DEF s, F
<1>4. CASE ~Has(l, k)
  <2>1. k \notin ToSet(s)
    BY <1>4 DEF Has, ToSet
  <2>2. MovedToFront(l, k) = <<k>> \o s
    BY <1>4 DEF MovedToFront
  <2> HIDE DEF s, F
  <2>3. ListWeight(G, s) = ListWeight(F, s)
    BY <1>1, <2>1, OtherPayload DEF F
  <2>4. ListWeight(G, <<k>> \o s) = Weight(G, k) + ListWeight(G, s)
    BY <1>1, <2>1, ConsWeight
  <2> QED BY <1>2, <1>4, <2>2, <2>3, <2>4 DEF s, F
<1> QED BY <1>3, <1>4

-----------------------------------------------------------------------------
(* The byte budget                                                         *)

\* newTileCache deals out exactly the budget it was given.
LEMMA BudgetFacts ==
  /\ \A l \in Lane : Budget(l) \in Nat
  /\ SumOfBudgets = MaxBytes
<1> DEFINE large == MaxBytes \div LargeFraction
           normal == MaxBytes - large
           q == normal \div ShardCount
           r == normal % ShardCount
           w == [i \in 1 .. ShardCount |-> Budget(i - 1)]
<1>1. large \in Nat /\ large <= MaxBytes /\ normal \in Nat
  <2>1. MaxBytes \in Nat /\ LargeFraction \in Nat \ {0}
    BY CacheAssumption
  <2> QED BY <2>1
<1>2. q \in Nat /\ r \in 0 .. ShardCount - 1 /\ normal = ShardCount * q + r
  <2>1. ShardCount \in Nat \ {0}
    BY CacheAssumption
  <2> HIDE DEF normal
  <2> QED BY <1>1, <2>1
<1>3. Budget(Large) = large
  BY DEF Budget
<1>4. \A i \in 0 .. ShardCount - 1 : Budget(i) = q + (IF i < r THEN 1 ELSE 0)
  BY CacheAssumption DEF Budget
<1> HIDE DEF large, normal, q, r
<1>5. \A l \in Lane : Budget(l) \in Nat
  BY <1>1, <1>2, <1>3, <1>4 DEF Lane, Shard
<1>6. ShardCount \in Nat /\ \A i \in 1 .. ShardCount : w[i] = q + (IF i <= r THEN 1 ELSE 0) /\ w[i] \in Int
  BY <1>2, <1>4, CacheAssumption
<1> HIDE DEF w
<1> DEFINE S == {m \in Nat : m <= ShardCount => SumTo(w, m) = m * q + (IF m <= r THEN m ELSE r)}
<1>7. 0 \in S
  BY <1>2, <1>6, SumStep
<1>8. ASSUME NEW m \in Nat \cap S PROVE m + 1 \in S
  <2> SUFFICES ASSUME m + 1 <= ShardCount
               PROVE  SumTo(w, m + 1) = (m + 1) * q + (IF m + 1 <= r THEN m + 1 ELSE r)
    OBVIOUS
  <2>1. m \in Nat /\ m + 1 \in Nat /\ (m + 1) - 1 = m /\ m + 1 \in 1 .. ShardCount
    BY <1>6
  <2>2. SumTo(w, m) = m * q + (IF m <= r THEN m ELSE r)
    BY <2>1, <1>6
  <2>3. SumTo(w, m + 1) = w[m + 1] + SumTo(w, m)
    BY <1>6, <2>1, SumStep
  <2>4. w[m + 1] = q + (IF m + 1 <= r THEN 1 ELSE 0)
    BY <1>6, <2>1
  <2>5. (m + 1) * q = m * q + q /\ m * q \in Int
    BY <1>2, <2>1
  <2> HIDE DEF S
  <2> QED BY <1>2, <2>1, <2>2, <2>3, <2>4, <2>5
<1>9. \A i \in Nat : i \in S
  <2> HIDE DEF S
  <2> QED BY <1>7, <1>8, Induction
<1>10. SumTo(w, ShardCount) = ShardCount * q + r
  BY <1>2, <1>6, <1>9
<1>11. SumOfBudgets = SumTo(w, ShardCount) + large
  BY <1>3 DEF SumOfBudgets, w
<1>12. normal + large = MaxBytes
  BY <1>1, CacheAssumption DEF normal
<1> QED BY <1>2, <1>5, <1>10, <1>11, <1>12

\* The counter of a lane is the weight of its list, and of a lane nobody works
\* on it is within the budget.
Accounted ==
  \A l \in Lane :
    /\ used[l] = ListWeight(full[l], lru[l])
    /\ holder[l] = Nobody => used[l] <= Budget(l)

\* A payload is only where put would put it, and fits there.
PayloadsFit == \A l \in Lane : \A k \in full[l] : Fits(k) /\ PutLane(k) = l

\* While a client evicts, what it stored is at the head and fits by itself.
Retains(g, l) ==
  /\ lru[l] # <<>> /\ Head(lru[l]) = arg[g]
  /\ IF Fits(arg[g]) THEN PutLane(arg[g]) = l /\ arg[g] \in full[l] ELSE DigestSize <= Budget(l)

BytesInv ==
  /\ Accounted /\ PayloadsFit
  /\ \A g \in Client : \A l \in Lane : holder[l] = g => Retains(g, l)

\* The steps that leave the lists, the counters and the locks alone.
LEMMA BytesUnchanged ==
  ASSUME TypeOK, BytesInv, UNCHANGED laneVars, \A g \in Client : pc[g] = "evict" => arg'[g] = arg[g]
  PROVE  BytesInv'
<1>1. Accounted' /\ PayloadsFit'
  BY DEF BytesInv, Accounted, PayloadsFit, laneVars
<1>2. ASSUME NEW g \in Client, NEW l \in Lane, holder'[l] = g PROVE Retains(g, l)'
  <2>1. holder[l] = g /\ pc[g] = "evict" /\ arg'[g] = arg[g]
    BY <1>2 DEF laneVars, TypeOK, LocksOK
  <2>2. Retains(g, l)
    BY <2>1 DEF BytesInv
  <2> QED BY <2>1, <2>2 DEF Retains, laneVars
<1> QED BY <1>1, <1>2 DEF BytesInv

LEMMA BytesLocked ==
  ASSUME TypeOK, BytesInv, NEW g \in Client, LockedProbe(g)
  PROVE  BytesInv'
<1> DEFINE l == Probe(g).lane
           k == arg[g]
           m == MovedToFront(l, k)
<1>1. k \in Key /\ l \in Lane /\ holder[l] = Nobody /\ pc[g] = "get"
  BY ProbeFacts DEF LockedProbe
<1>2. UNCHANGED <<full, used, holder>> /\ \A h \in Client \ {g} : arg'[h] = arg[h]
  BY DEF LockedProbe, Return, NextProbe, TypeOK, CallsOK
<1>3. CASE UNCHANGED lru
  <2>1. Accounted' /\ PayloadsFit'
    BY <1>2, <1>3 DEF BytesInv, Accounted, PayloadsFit
  <2>2. ASSUME NEW h \in Client, NEW j \in Lane, holder'[j] = h PROVE Retains(h, j)'
    <3>1. holder[j] = h /\ arg'[h] = arg[h]
      BY <1>1, <1>2, <2>2 DEF TypeOK, LocksOK
    <3> QED BY <1>2, <1>3, <3>1 DEF BytesInv, Retains
  <2> QED BY <2>1, <2>2 DEF BytesInv
<1>4. CASE lru' = [lru EXCEPT ![l] = m] /\ k \in full[l]
  <2>1. ListWeight(full[l], m) = ListWeight(full[l], lru[l])
    <3>1. Has(l, k)
      BY <1>1, <1>4 DEF TypeOK, ListsOK, ToSet, Has
    <3>2. ListWeight(full[l], m)
            = Weight(full[l], k) + ListWeight(full[l], lru[l]) - EntrySize(l, k)
      BY <1>1, <3>1, MovedWeight
    <3>3. Weight(full[l], k) = EntrySize(l, k)
      BY DEF Weight, EntrySize
    <3>4. ListWeight(full[l], lru[l]) \in Int /\ EntrySize(l, k) \in Int
      BY <1>1, LaneFacts, WeightsType DEF TypeOK, ListsOK
    <3> HIDE DEF l, k, m
    <3> QED BY <3>2, <3>3, <3>4
  <2> HIDE DEF l, m
  <2>2. Accounted'
    BY <1>1, <1>2, <1>4, <2>1 DEF BytesInv, Accounted, TypeOK, ListsOK
  <2>3. PayloadsFit'
    BY <1>2 DEF BytesInv, PayloadsFit
  <2>4. ASSUME NEW h \in Client, NEW j \in Lane, holder'[j] = h PROVE Retains(h, j)'
    <3>1. holder[j] = h /\ j # l /\ h # g /\ arg'[h] = arg[h]
      BY <1>1, <1>2, <2>4, CacheAssumption DEF TypeOK, LocksOK
    <3>2. lru'[j] = lru[j] /\ full' = full
      BY <1>1, <1>2, <1>4, <3>1 DEF TypeOK, ListsOK
    <3> QED BY <3>1, <3>2 DEF BytesInv, Retains
  <2> QED BY <2>2, <2>3, <2>4 DEF BytesInv
<1> QED BY <1>3, <1>4 DEF LockedProbe

\* An insertion: its lane is held by the client, whose key is at the head.
LEMMA BytesInsert ==
  ASSUME TypeOK, BytesInv, NEW g \in Client, NEW l \in Lane, NEW F, NEW v,
         Insert(g, l, F, v), F = full[l] \/ F = full[l] \cup {arg[g]},
         \A k \in F : Fits(k) /\ PutLane(k) = l,
         used' = [used EXCEPT ![l] = ListWeight(F, MovedToFront(l, arg[g]))],
         IF Fits(arg[g]) THEN PutLane(arg[g]) = l /\ arg[g] \in F ELSE DigestSize <= Budget(l)
  PROVE  BytesInv'
<1> DEFINE k == arg[g]
           m == MovedToFront(l, k)
<1>1. k \in Key /\ pc[g] = "put" /\ holder[l] = Nobody
  BY DEF TypeOK, CallsOK, Insert
<1>2. m # <<>> /\ Head(m) = k
  BY <1>1, MovedToFrontProperties
<1>3. /\ lru' = [lru EXCEPT ![l] = m] /\ full' = [full EXCEPT ![l] = F]
      /\ used' = [used EXCEPT ![l] = ListWeight(F, m)]
      /\ holder' = [holder EXCEPT ![l] = g] /\ arg' = arg
  BY DEF Insert
<1> HIDE DEF m
<1>4. Accounted'
  BY <1>1, <1>3, CacheAssumption DEF BytesInv, Accounted, TypeOK, ListsOK, LocksOK
<1>5. PayloadsFit'
  BY <1>3 DEF BytesInv, PayloadsFit, TypeOK, ListsOK, Fits, PutLane, Size, Budget
<1>6. ASSUME NEW h \in Client, NEW j \in Lane, holder'[j] = h PROVE Retains(h, j)'
  <2>1. CASE j = l
    <3>1. h = g
      BY <1>3, <1>6, <2>1 DEF TypeOK, LocksOK
    <3>2. lru'[l] = m /\ full'[l] = F
      BY <1>3 DEF TypeOK, ListsOK
    <3>3. IF Fits(arg'[g]) THEN PutLane(arg'[g]) = l /\ arg'[g] \in F ELSE DigestSize <= Budget(l)
      BY <1>3
    <3> QED BY <1>2, <1>3, <2>1, <3>1, <3>2, <3>3 DEF Retains
  <2>2. CASE j # l
    <3>1. holder[j] = h
      BY <1>3, <1>6, <2>2 DEF TypeOK, LocksOK
    <3>2. lru'[j] = lru[j] /\ full'[j] = full[j]
      BY <1>3, <2>2 DEF TypeOK, ListsOK
    <3> QED BY <1>3, <3>1, <3>2 DEF BytesInv, Retains
  <2> QED BY <2>1, <2>2
<1> QED BY <1>4, <1>5, <1>6 DEF BytesInv

LEMMA BytesPut ==
  ASSUME TypeOK, BytesInv, NEW g \in Client, PutInto(g) \/ PutChecksum(g) \/ PutNothing(g)
  PROVE  BytesInv'
<1> DEFINE k == arg[g]
<1>1. k \in Key /\ pc[g] = "put" /\ Size(k) \in Int /\ DigestSize \in Int
  BY LaneFacts DEF TypeOK, CallsOK, PutInto, PutChecksum, PutNothing
<1>2. CASE PutInto(g)
  <2> DEFINE l == PutLane(k)
             F == full[l] \cup {k}
             old == IF Has(l, k) THEN EntrySize(l, k) ELSE 0
  <2>1. l \in Lane /\ Fits(k) /\ Insert(g, l, F, k) /\ used' = [used EXCEPT ![l] = @ - old + Size(k)]
    BY <1>1, <1>2, LaneFacts DEF PutInto
  <2>2. used[l] = ListWeight(full[l], lru[l]) /\ used[l] \in Int /\ old \in Int
    BY <1>1, <2>1, LaneFacts DEF BytesInv, Accounted, TypeOK
  <2>3. ListWeight(F, MovedToFront(l, k)) = Weight(F, k) + ListWeight(full[l], lru[l]) - old
    BY <1>1, <2>1, MovedWeight
  <2>4. Weight(F, k) = Size(k)
    BY DEF Weight
  <2>5. \A x \in F : Fits(x) /\ PutLane(x) = l
    BY <2>1 DEF BytesInv, PayloadsFit
  <2> HIDE DEF l, old
  <2>6. used[l] - old + Size(k) = ListWeight(F, MovedToFront(l, k))
    BY <1>1, <2>2, <2>3, <2>4
  <2>7. used' = [used EXCEPT ![l] = ListWeight(F, MovedToFront(l, k))]
    BY <2>1, <2>6 DEF TypeOK
  <2>8. PutLane(k) = l
    BY DEF l
  <2> QED BY <1>1, <2>1, <2>5, <2>7, <2>8, BytesInsert
<1>3. CASE PutChecksum(g)
  <2> DEFINE l == Home[k]
             F == full[l]
  <2>1. /\ l \in Lane /\ ~Fits(k) /\ DigestSize <= Budget(l) /\ Insert(g, l, F, Nobody)
        /\ used' = [used EXCEPT ![l] = IF Has(l, k) THEN @ ELSE @ + DigestSize]
    BY <1>1, <1>3, LaneFacts DEF PutChecksum
  <2>2. k \notin F
    BY <2>1 DEF BytesInv, PayloadsFit
  <2>3. used[l] = ListWeight(F, lru[l]) /\ used[l] \in Int
    BY <2>1 DEF BytesInv, Accounted, TypeOK
  <2>4. ListWeight(F, MovedToFront(l, k))
          = DigestSize + ListWeight(F, lru[l]) - (IF Has(l, k) THEN DigestSize ELSE 0)
    BY <1>1, <2>1, <2>2, MovedWeight DEF Weight, EntrySize
  <2>5. \A x \in F : Fits(x) /\ PutLane(x) = l
    BY <2>1 DEF BytesInv, PayloadsFit
  <2> HIDE DEF l
  <2>6. (IF Has(l, k) THEN used[l] ELSE used[l] + DigestSize) = ListWeight(F, MovedToFront(l, k))
    BY <1>1, <2>3, <2>4
  <2>7. used' = [used EXCEPT ![l] = ListWeight(F, MovedToFront(l, k))]
    BY <2>1, <2>6 DEF TypeOK
  <2> QED BY <1>1, <2>1, <2>5, <2>7, BytesInsert
<1>4. CASE PutNothing(g)
  <2>1. UNCHANGED laneVars /\ \A h \in Client : pc[h] = "evict" => arg'[h] = arg[h]
    BY <1>1, <1>4 DEF PutNothing, Return, TypeOK, CallsOK
  <2> QED BY <2>1, BytesUnchanged
<1> QED BY <1>2, <1>3, <1>4

\* An overfull lane holds more than what its client has just stored: the last
\* entry is another one.
LEMMA VictimIsOlder ==
  ASSUME TypeOK, BytesInv, NEW g \in Client, NEW l \in Lane, Evicting(g, l), Overfull(l)
  PROVE  Last(lru[l]) # Head(lru[l])
<1> DEFINE s == lru[l]
           k == arg[g]
<1>1. s \in Seq(Key) /\ IsInjective(s) /\ s # <<>> /\ full[l] \subseteq ToSet(s)
  BY DEF TypeOK, ListsOK, Overfull
<1>2. Len(s) \in Nat \ {0} /\ DOMAIN s = 1 .. Len(s) /\ Head(s) = s[1] /\ Last(s) = s[Len(s)]
  BY <1>1, LenProperties DEF Last
<1>3. Retains(g, l)
  BY DEF BytesInv, Evicting
<1>4. k \in Key /\ used[l] > Budget(l) /\ used[l] = ListWeight(full[l], s)
  BY DEF TypeOK, CallsOK, Evicting, Overfull, BytesInv, Accounted
<1>5. Budget(l) \in Int /\ Size(k) \in Int /\ DigestSize \in Int
  BY <1>4, BudgetFacts, LaneFacts
<1> SUFFICES ASSUME Last(s) = Head(s) PROVE FALSE
  OBVIOUS
<1>6. Len(s) = 1 /\ s[1] = k
  <2>1. 1 \in DOMAIN s /\ Len(s) \in DOMAIN s /\ s[1] = s[Len(s)]
    BY <1>2
  <2>2. \A i, j \in DOMAIN s : s[i] = s[j] => i = j
    BY <1>1 DEF IsInjective
  <2>3. s[1] = k
    BY <1>2, <1>3 DEF Retains
  <2> HIDE DEF s
  <2> QED BY <2>1, <2>2, <2>3
<1>7. used[l] = Weight(full[l], k)
  BY <1>1, <1>4, <1>6, SingleWeight
<1>8. CASE Fits(k)
  <2>1. k \in full[l] /\ Size(k) <= Budget(l)
    BY <1>3, <1>8 DEF Retains, Fits
  <2> QED BY <2>1, <1>4, <1>5, <1>7 DEF Weight
<1>9. CASE ~Fits(k)
  <2>1. k \notin full[l] /\ DigestSize <= Budget(l)
    BY <1>3, <1>9 DEF Retains, BytesInv, PayloadsFit
  <2> QED BY <2>1, <1>4, <1>5, <1>7 DEF Weight
<1> QED BY <1>8, <1>9

\* What eviction leaves alone: other lanes, and the head of this one.
LEMMA RetainsKept ==
  ASSUME TypeOK, BytesInv, NEW g \in Client, NEW l \in Lane, holder[l] = g, UNCHANGED <<holder, arg>>,
         \A j \in Lane \ {l} : lru'[j] = lru[j] /\ full'[j] = full[j],
         lru'[l] # <<>>, Head(lru'[l]) = Head(lru[l]),
         arg[g] \in full[l] => arg[g] \in full'[l]
  PROVE  \A h \in Client : \A j \in Lane : holder'[j] = h => Retains(h, j)'
<1> SUFFICES ASSUME NEW h \in Client, NEW j \in Lane, holder[j] = h
             PROVE  Retains(h, j)'
  OBVIOUS
<1>1. Retains(h, j)
  BY DEF BytesInv
<1>2. CASE j = l
  BY <1>1, <1>2 DEF Retains
<1>3. CASE j # l
  BY <1>1, <1>3 DEF Retains
<1> QED BY <1>2, <1>3

LEMMA BytesDropPayload ==
  ASSUME TypeOK, BytesInv, NEW g \in Client, NEW l \in Lane, DropPayload(g, l)
  PROVE  BytesInv'
<1> DEFINE s == lru[l]
           victim == Last(s)
<1>1. s \in Seq(Key) /\ IsInjective(s) /\ s # <<>> /\ holder[l] = g /\ victim \in full[l]
  BY DEF TypeOK, ListsOK, DropPayload, Evicting, Overfull
<1>2. Len(s) \in DOMAIN s /\ victim = s[Len(s)]
  BY <1>1, LenProperties DEF Last
<1>3. victim # Head(s) /\ Head(s) = arg[g]
  BY <1>1, VictimIsOlder DEF DropPayload, BytesInv, Retains
<1>4. ListWeight(full[l] \ {victim}, s) = ListWeight(full[l], s) - Length[victim]
  BY <1>1, <1>2, DroppedPayload
<1>5. /\ full' = [full EXCEPT ![l] = @ \ {victim}] /\ used' = [used EXCEPT ![l] = @ - Length[victim]]
      /\ UNCHANGED <<lru, holder, arg>>
  BY DEF DropPayload
<1> HIDE DEF victim
<1>6. Accounted'
  <2> SUFFICES ASSUME NEW j \in Lane
               PROVE  /\ used'[j] = ListWeight(full'[j], lru'[j])
                      /\ holder'[j] = Nobody => used'[j] <= Budget(j)
    BY DEF Accounted
  <2>1. CASE j = l
    <3>1. used'[l] = used[l] - Length[victim] /\ full'[l] = full[l] \ {victim}
      BY <1>5 DEF TypeOK, ListsOK
    <3>2. holder'[l] # Nobody
      BY <1>1, <1>5, CacheAssumption
    <3> QED BY <1>4, <1>5, <2>1, <3>1, <3>2 DEF BytesInv, Accounted
  <2>2. CASE j # l
    <3>1. used'[j] = used[j] /\ full'[j] = full[j]
      BY <1>5, <2>2 DEF TypeOK, ListsOK
    <3> QED BY <1>5, <3>1 DEF BytesInv, Accounted
  <2> QED BY <2>1, <2>2
<1>7. PayloadsFit'
  BY <1>5 DEF BytesInv, PayloadsFit, TypeOK, ListsOK
<1>8. /\ \A j \in Lane \ {l} : lru'[j] = lru[j] /\ full'[j] = full[j]
      /\ lru'[l] # <<>> /\ Head(lru'[l]) = Head(lru[l])
      /\ arg[g] \in full[l] => arg[g] \in full'[l]
  BY <1>1, <1>3, <1>5 DEF TypeOK, ListsOK
<1>9. \A h \in Client : \A j \in Lane : holder'[j] = h => Retains(h, j)'
  BY <1>1, <1>5, <1>8, RetainsKept
<1> QED BY <1>6, <1>7, <1>9 DEF BytesInv

LEMMA BytesDropEntry ==
  ASSUME TypeOK, BytesInv, NEW g \in Client, NEW l \in Lane, DropEntry(g, l)
  PROVE  BytesInv'
<1> DEFINE s == lru[l]
           f == Front(s)
<1>1. s \in Seq(Key) /\ IsInjective(s) /\ s # <<>> /\ holder[l] = g /\ Last(s) \notin full[l]
  BY DEF TypeOK, ListsOK, DropEntry, Evicting, Overfull
<1>2. Last(s) # Head(s)
  BY <1>1, VictimIsOlder DEF DropEntry
<1>3. f # <<>> /\ Head(f) = Head(s)
  BY <1>1, <1>2, FrontProperties
<1>4. ListWeight(full[l], f) = ListWeight(full[l], s) - DigestSize
  BY <1>1, FrontWeight DEF Weight
<1>5. /\ lru' = [lru EXCEPT ![l] = f] /\ used' = [used EXCEPT ![l] = @ - DigestSize]
      /\ UNCHANGED <<full, holder, arg>>
  BY DEF DropEntry
<1> HIDE DEF f
<1>6. Accounted'
  <2> SUFFICES ASSUME NEW j \in Lane
               PROVE  /\ used'[j] = ListWeight(full'[j], lru'[j])
                      /\ holder'[j] = Nobody => used'[j] <= Budget(j)
    BY DEF Accounted
  <2>1. CASE j = l
    <3>1. used'[l] = used[l] - DigestSize /\ lru'[l] = f
      BY <1>5 DEF TypeOK, ListsOK
    <3>2. holder'[l] # Nobody
      BY <1>1, <1>5, CacheAssumption
    <3> QED BY <1>4, <1>5, <2>1, <3>1, <3>2 DEF BytesInv, Accounted
  <2>2. CASE j # l
    <3>1. used'[j] = used[j] /\ lru'[j] = lru[j]
      BY <1>5, <2>2 DEF TypeOK, ListsOK
    <3> QED BY <1>5, <3>1 DEF BytesInv, Accounted
  <2> QED BY <2>1, <2>2
<1>7. PayloadsFit'
  BY <1>5 DEF BytesInv, PayloadsFit
<1>8. /\ \A j \in Lane \ {l} : lru'[j] = lru[j] /\ full'[j] = full[j]
      /\ lru'[l] # <<>> /\ Head(lru'[l]) = Head(lru[l])
      /\ arg[g] \in full[l] => arg[g] \in full'[l]
  BY <1>3, <1>5 DEF TypeOK, ListsOK
<1>9. \A h \in Client : \A j \in Lane : holder'[j] = h => Retains(h, j)'
  BY <1>1, <1>5, <1>8, RetainsKept
<1> QED BY <1>6, <1>7, <1>9 DEF BytesInv

\* The loop ends with the lane within its budget.
LEMMA BytesUnlock ==
  ASSUME TypeOK, BytesInv, NEW g \in Client, NEW l \in Lane, Unlock(g, l)
  PROVE  BytesInv'
<1>1. /\ holder[l] = g /\ ~Overfull(l) /\ UNCHANGED <<lru, full, used>>
      /\ holder' = [holder EXCEPT ![l] = Nobody]
      /\ \A h \in Client \ {g} : arg'[h] = arg[h]
  BY DEF Unlock, Evicting, Return, TypeOK, CallsOK
<1>2. lru[l] # <<>>
  BY <1>1 DEF BytesInv, Retains
<1>3. used[l] <= Budget(l)
  <2>1. Budget(l) \in Int /\ used[l] \in Int
    BY BudgetFacts DEF TypeOK
  <2> QED BY <1>1, <1>2, <2>1 DEF Overfull
<1>4. Accounted' /\ PayloadsFit'
  BY <1>1, <1>3 DEF BytesInv, Accounted, PayloadsFit, TypeOK, LocksOK
<1>5. ASSUME NEW h \in Client, NEW j \in Lane, holder'[j] = h PROVE Retains(h, j)'
  <2>1. j # l /\ holder[j] = h
    BY <1>1, <1>5, CacheAssumption DEF TypeOK, LocksOK
  <2>2. h # g
    BY <1>1, <2>1 DEF TypeOK, LocksOK
  <2> QED BY <1>1, <2>1, <2>2 DEF BytesInv, Retains
<1> QED BY <1>4, <1>5 DEF BytesInv

LEMMA BytesInit == Init => BytesInv
<1> SUFFICES ASSUME Init PROVE BytesInv
  OBVIOUS
<1>1. Accounted
  BY EmptyWeight, BudgetFacts DEF Init, Accounted
<1>2. PayloadsFit /\ \A g \in Client : \A l \in Lane : holder[l] # g
  BY CacheAssumption DEF Init, PayloadsFit
<1> QED BY <1>1, <1>2 DEF BytesInv

LEMMA BytesStep ==
  ASSUME TypeOK, BytesInv, [Next]_vars
  PROVE  BytesInv'
<1>1. CASE UNCHANGED vars
  BY <1>1, BytesUnchanged DEF vars
<1>2. CASE Next
  <2>1. PICK g \in Client :
          (\E k \in Key : Get(g, k) \/ Put(g, k)) \/ GetStep(g) \/ PutStep(g)
    BY <1>2 DEF Next
  <2>2. CASE (\E k \in Key : Get(g, k) \/ Put(g, k)) \/ FastProbe(g)
    <3>1. UNCHANGED laneVars /\ \A h \in Client : pc[h] = "evict" => arg'[h] = arg[h]
      BY <2>2 DEF Get, Put, FastProbe, Return, NextProbe, TypeOK, CallsOK
    <3> QED BY <3>1, BytesUnchanged
  <2> QED BY <2>1, <2>2, BytesLocked, BytesPut, BytesDropPayload, BytesDropEntry, BytesUnlock
            DEF GetStep, PutStep
<1> QED BY <1>1, <1>2

\* The counters are the bytes of the lists, in every state.
LEMMA BytesAccounted == Spec => []BytesInv
<1>1. TypeOK /\ BytesInv /\ [Next]_vars => BytesInv'
  BY BytesStep
<1> QED BY <1>1, BytesInit, TypeCorrect, PTL DEF Spec

\* The entries of every lane that nobody works on fit the lane's share, and the
\* shares are together the budget of the cache, whatever the keys, their sizes
\* and the number of shards.
THEOREM CacheStaysWithinBudget == Spec => []WithinBudget
<1>1. BytesInv => WithinBudget
  <2> SUFFICES ASSUME BytesInv PROVE WithinBudget
    OBVIOUS
  <2>1. MaxBytes \in Int
    BY CacheAssumption
  <2> QED BY <2>1, BudgetFacts, ListWeightIsSum DEF WithinBudget, BytesInv, Accounted
<1> QED BY <1>1, BytesAccounted, PTL

\* Only Unlock gives a lane back.
LEMMA RetainStep ==
  ASSUME TypeOK, BytesInv, [Next]_vars, NEW g \in Client, NEW l \in Lane,
         holder[l] = g, holder'[l] = Nobody
  PROVE  /\ lru'[l] # <<>> /\ Head(lru'[l]) = arg[g]
         /\ PutLane(arg[g]) = l /\ Fits(arg[g]) => arg[g] \in full'[l]
<1>1. holder'[l] # holder[l]
  BY CacheAssumption
<1>2. PICK h \in Client :
        (\E k \in Key : Get(h, k) \/ Put(h, k)) \/ GetStep(h) \/ PutStep(h)
  BY <1>1 DEF Next, vars, laneVars
<1>3. \E j \in Lane : Unlock(h, j)
  <2>1. ~(\E k \in Key : Get(h, k) \/ Put(h, k)) /\ ~GetStep(h) /\ ~PutNothing(h)
    BY <1>1 DEF Get, Put, GetStep, FastProbe, LockedProbe, PutNothing, laneVars
  <2>2. ~PutInto(h) /\ ~PutChecksum(h)
    BY <1>1, CacheAssumption DEF PutInto, PutChecksum, Insert, TypeOK, LocksOK
  <2>3. \A j \in Lane : ~DropPayload(h, j) /\ ~DropEntry(h, j)
    BY <1>1 DEF DropPayload, DropEntry
  <2> QED BY <1>2, <2>1, <2>2, <2>3 DEF PutStep
<1>4. UNCHANGED <<lru, full>>
  BY <1>3 DEF Unlock
<1>5. Retains(g, l)
  BY DEF BytesInv
<1> QED BY <1>4, <1>5 DEF Retains

\* When put lets go of its lane, what it stored is still at the head of the
\* list, with its payload if that fits the lane: the eviction it caused never
\* reached it.
THEOREM EvictionSparesTheNewEntry == Spec => PutIsRetained
<1>1. TypeOK /\ BytesInv /\ [Next]_vars =>
        [\A g \in Client : \A l \in Lane :
           holder[l] = g /\ holder'[l] = Nobody =>
             /\ lru'[l] # <<>> /\ Head(lru'[l]) = arg[g]
             /\ PutLane(arg[g]) = l /\ Fits(arg[g]) => arg[g] \in full'[l]]_vars
  BY RetainStep
<1> QED BY <1>1, TypeCorrect, BytesAccounted, PTL DEF Spec, PutIsRetained
=============================================================================
