-------------------------- MODULE ResourceFolderProofs --------------------------
(***************************************************************************)
(* Proofs about ResourceFolder: the index of the list matches its rows, a  *)
(* scan is applied as a whole, and the variables keep their types.         *)
(*                                                                         *)
(* Rows are erased by a recursive function over their places.  What it     *)
(* leaves is proved by induction, in the form of a set of numbers that     *)
(* contains 0 and the successors of its elements: it contains all.         *)
(***************************************************************************)
EXTENDS ResourceFolder, FiniteSetTheorems, SequenceTheorems, WellFoundedInduction, TLAPS

\* A set of numbers that is not empty has a least element.
LEMMA LeastNat ==
  ASSUME NEW T, T \subseteq Nat, T # {}
  PROVE  \E m \in T : \A n \in T : m <= n
<1>1. PICK m \in T : \A n \in T : ~ (<<n, m>> \in OpToRel(<, Nat))
  BY NatLessThanWellFounded, WFMin
<1>2. \A n \in T : ~ (n < m)
  BY <1>1 DEF OpToRel
<1> QED BY <1>2

\* A set that contains 0 and the successors of its numbers contains them all.
LEMMA NatSet ==
  ASSUME NEW T, 0 \in T, \A n \in Nat : n \in T => n + 1 \in T
  PROVE  Nat \subseteq T
<1> DEFINE B == Nat \ T
<1>1. CASE B # {}
  <2>1. PICK m \in B : \A n \in B : m <= n
    BY <1>1, LeastNat
  <2>2. m # 0 /\ m - 1 \in Nat /\ m - 1 \notin B
    BY <2>1
  <2> QED BY <2>1, <2>2
<1> QED BY <1>1
-----------------------------------------------------------------------------
\* m leads from the places of t to those of s in K, all of them and in order,
\* where the same elements are: t is what is left of s when only K is kept.
Embeds(m, t, s, K) ==
  /\ m \in [1 .. Len(t) -> K]
  /\ \A a, b \in 1 .. Len(t) : a < b => m[a] < m[b]
  /\ \A j \in K : \E a \in 1 .. Len(t) : m[a] = j
  /\ \A a \in 1 .. Len(t) : t[a] = s[m[a]]

\* A sequence without its i-th element.
LEMMA Removed ==
  ASSUME NEW D, NEW t \in Seq(D), NEW i \in 1 .. Len(t)
  PROVE  /\ RemoveAt(t, i) \in Seq(D) /\ Len(RemoveAt(t, i)) = Len(t) - 1
         /\ \A a \in 1 .. Len(t) - 1 : RemoveAt(t, i)[a] = IF a < i THEN t[a] ELSE t[a + 1]
<1> DEFINE u == SubSeq(t, 1, i - 1)
           v == SubSeq(t, i + 1, Len(t))
<1>1. Len(t) \in Nat /\ i \in Int
  BY LenProperties
<1>2. \A a \in 1 .. Len(t) : t[a] \in D
  BY ElementOfSeq
<1>3. /\ u \in Seq(D) /\ Len(u) = i - 1
      /\ \A a \in 1 .. i - 1 : u[a] = t[a]
  BY <1>1, <1>2, SubSeqProperties
<1>4. /\ v \in Seq(D) /\ Len(v) = Len(t) - i
      /\ \A a \in 1 .. Len(t) - i : v[a] = t[a + i]
  BY <1>1, <1>2, SubSeqProperties
<1> HIDE DEF u, v
<1>5. /\ u \o v \in Seq(D) /\ Len(u \o v) = Len(t) - 1
      /\ \A a \in 1 .. Len(t) - 1 : (u \o v)[a] = IF a <= i - 1 THEN u[a] ELSE v[a - (i - 1)]
  <2>1. /\ u \o v \in Seq(D) /\ Len(u \o v) = Len(u) + Len(v)
        /\ \A a \in 1 .. Len(u) + Len(v) :
             (u \o v)[a] = IF a <= Len(u) THEN u[a] ELSE v[a - Len(u)]
    BY <1>3, <1>4, ConcatProperties
  <2>2. Len(u) + Len(v) = Len(t) - 1
    BY <1>1, <1>3, <1>4
  <2> QED BY <1>3, <2>1, <2>2
<1>6. RemoveAt(t, i) = u \o v
  BY DEF RemoveAt, u, v
<1>7. ASSUME NEW a \in 1 .. Len(t) - 1
      PROVE  RemoveAt(t, i)[a] = IF a < i THEN t[a] ELSE t[a + 1]
  <2>1. CASE a < i
    BY <1>1, <1>3, <1>5, <1>6, <2>1
  <2>2. CASE ~(a < i)
    <3>1. a - (i - 1) \in 1 .. Len(t) - i /\ a - (i - 1) + i = a + 1
      BY <1>1, <2>2
    <3>2. v[a - (i - 1)] = t[a + 1]
      BY <1>4, <3>1
    <3> QED BY <1>1, <1>5, <1>6, <2>2, <3>2
  <2> QED BY <2>1, <2>2
<1> QED BY <1>5, <1>6, <1>7

SameBelow(w, m, i) == \A a \in 1 .. i - 1 : w[a] = m[a]
\* One row less, and one place less that is kept.
LEMMA RowRemoved ==
  ASSUME NEW D, NEW s, NEW t \in Seq(D), NEW K, K \subseteq Nat, NEW i \in 1 .. Len(t),
         NEW m, Embeds(m, t, s, K), NEW u, u = RemoveAt(t, i), NEW L, L = K \ {m[i]}
  PROVE  \E w : Embeds(w, u, s, L) /\ SameBelow(w, m, i)
<1> DEFINE w == [a \in 1 .. Len(t) - 1 |-> IF a < i THEN m[a] ELSE m[a + 1]]
<1>1. Len(t) \in Nat /\ i \in Nat
  BY LenProperties
<1>0. /\ m \in [1 .. Len(t) -> K]
      /\ \A a, b \in 1 .. Len(t) : a < b => m[a] < m[b]
      /\ \A j \in K : \E a \in 1 .. Len(t) : m[a] = j
      /\ \A a \in 1 .. Len(t) : t[a] = s[m[a]]
  BY DEF Embeds
<1>2. /\ Len(u) = Len(t) - 1
      /\ \A a \in 1 .. Len(t) - 1 : u[a] = IF a < i THEN t[a] ELSE t[a + 1]
  BY Removed
<1>3. ASSUME NEW a \in 1 .. Len(t), NEW b \in 1 .. Len(t), a # b
      PROVE  m[a] \in Nat /\ m[a] # m[b]
  <2>1. m[a] \in Nat /\ m[b] \in Nat
    BY <1>0
  <2>2. a < b \/ b < a
    BY <1>1, <1>3
  <2> QED BY <1>0, <2>1, <2>2
<1>4. w \in [1 .. Len(u) -> K \ {m[i]}]
  BY <1>0, <1>1, <1>2, <1>3
<1>5. \A a, b \in 1 .. Len(u) : a < b => w[a] < w[b]
  BY <1>0, <1>1, <1>2
<1>6. ASSUME NEW j \in K \ {m[i]} PROVE \E a \in 1 .. Len(u) : w[a] = j
  <2>1. PICK a \in 1 .. Len(t) : m[a] = j
    BY <1>0
  <2>2. CASE a < i
    BY <1>1, <1>2, <2>1, <2>2
  <2>3. CASE ~(a < i)
    <3>1. a - 1 \in 1 .. Len(u) /\ w[a - 1] = j
      BY <1>1, <1>2, <1>6, <2>1, <2>3
    <3> QED BY <3>1
  <2> QED BY <2>2, <2>3
<1>7. \A a \in 1 .. Len(u) : u[a] = s[w[a]]
  BY <1>0, <1>1, <1>2
<1>8. SameBelow(w, m, i)
  BY <1>1 DEF SameBelow
<1> HIDE DEF w
<1> QED BY <1>4, <1>5, <1>6, <1>7, <1>8 DEF Embeds

\* The places that are kept when the rows after the q-th have been looked at.
Kept(n, S, q) == {j \in 1 .. n : j <= q \/ j \notin S}
\* The list at that moment: its first q rows have not moved.
Stage(t, s, S, q, D) ==
  /\ t \in Seq(D) /\ q <= Len(t)
  /\ \E m : Embeds(m, t, s, Kept(Len(s), S, q)) /\ \A a \in 1 .. q : m[a] = a

LEMMA FirstStage ==
  ASSUME NEW D, NEW s \in Seq(D), NEW S
  PROVE  Stage(s, s, S, Len(s), D)
<1> DEFINE n == Len(s)
           m == [a \in 1 .. n |-> a]
<1>1. n \in Nat
  BY LenProperties
<1>2. Kept(n, S, n) = 1 .. n
  BY <1>1 DEF Kept
<1>3. /\ m \in [1 .. n -> Kept(n, S, n)]
      /\ \A a, b \in 1 .. n : a < b => m[a] < m[b]
      /\ \A j \in Kept(n, S, n) : \E a \in 1 .. n : m[a] = j
      /\ \A a \in 1 .. n : s[a] = s[m[a]]
      /\ \A a \in 1 .. n : m[a] = a
  BY <1>2
<1> HIDE DEF m
<1>4. Embeds(m, s, s, Kept(n, S, n))
  BY <1>3 DEF Embeds
<1> QED BY <1>1, <1>3, <1>4 DEF Stage

LEMMA NextStage ==
  ASSUME NEW D, NEW s \in Seq(D), NEW S, NEW t, NEW q \in 1 .. Len(s), Stage(t, s, S, q, D)
  PROVE  Stage(EraseRow(t, S, q), s, S, q - 1, D)
<1> DEFINE n == Len(s)
           u == EraseRow(t, S, q)
<1>1. n \in Nat /\ q \in Nat /\ t \in Seq(D) /\ q <= Len(t) /\ Len(t) \in Nat
  BY LenProperties DEF Stage
<1>2. PICK m : Embeds(m, t, s, Kept(n, S, q)) /\ \A a \in 1 .. q : m[a] = a
  BY DEF Stage
<1>3. CASE q \notin S
  <2>1. u = t /\ Kept(n, S, q - 1) = Kept(n, S, q)
    BY <1>1, <1>3 DEF EraseRow, Kept
  <2>2. q - 1 <= Len(t) /\ \A a \in 1 .. q - 1 : m[a] = a
    BY <1>1, <1>2
  <2> QED BY <1>1, <1>2, <2>1, <2>2 DEF Stage
<1>4. CASE q \in S
  <2>1. u = RemoveAt(t, q) /\ q \in 1 .. Len(t) /\ m[q] = q
    BY <1>1, <1>2, <1>4 DEF EraseRow
  <2>2. Kept(n, S, q - 1) = Kept(n, S, q) \ {q}
    BY <1>1, <1>4 DEF Kept
  <2>3. u \in Seq(D) /\ Len(u) = Len(t) - 1 /\ q - 1 <= Len(u)
    BY <1>1, <2>1, Removed
  <2>4. Kept(n, S, q) \subseteq Nat
    BY <1>1 DEF Kept
  <2>5. PICK w : Embeds(w, u, s, Kept(n, S, q - 1)) /\ \A a \in 1 .. q - 1 : w[a] = m[a]
    <3> HIDE DEF u
    <3>1. PICK K, L : K = Kept(n, S, q) /\ L = Kept(n, S, q - 1)
      OBVIOUS
    <3>2. K \subseteq Nat /\ q \in 1 .. Len(t) /\ t \in Seq(D) /\ Embeds(m, t, s, K) /\ L = K \ {m[q]}
      BY <1>1, <1>2, <2>1, <2>2, <2>4, <3>1
    <3>3. \E w : Embeds(w, u, s, L) /\ SameBelow(w, m, q)
      BY <2>1, <3>2, RowRemoved, Zenon
    <3> QED BY <3>1, <3>3 DEF SameBelow
  <2>6. \A a \in 1 .. q - 1 : w[a] = a
    BY <1>1, <1>2, <2>5
  <2> QED BY <2>3, <2>5, <2>6 DEF Stage
<1> QED BY <1>3, <1>4

\* The first k steps of erasing, and what they leave.
Walk(f, k, s, S, D) ==
  /\ f \in [0 .. k -> Seq(D)] /\ f[0] = s
  /\ \A j \in 1 .. k : f[j] = EraseRow(f[j - 1], S, Downwards(Len(s), j))
  /\ \A j \in 0 .. k : Stage(f[j], s, S, Len(s) - j, D)

LEMMA NoWalk ==
  ASSUME NEW D, NEW s \in Seq(D), NEW S
  PROVE  \E f : Walk(f, 0, s, S, D)
<1> DEFINE f == [j \in 0 .. 0 |-> s]
<1>1. f \in [0 .. 0 -> Seq(D)] /\ f[0] = s /\ Len(s) \in Nat
  BY LenProperties
<1> HIDE DEF f
<1>2. \A j \in 0 .. 0 : j = 0
  OBVIOUS
<1>3. Len(s) - 0 = Len(s)
  BY <1>1
<1>4. \A j \in 0 .. 0 : Stage(f[j], s, S, Len(s) - j, D)
  BY <1>1, <1>2, <1>3, FirstStage
<1>5. \A j \in 1 .. 0 : FALSE
  OBVIOUS
<1> QED BY <1>1, <1>4, <1>5 DEF Walk

LEMMA LongerWalk ==
  ASSUME NEW D, NEW s \in Seq(D), NEW S, NEW k \in Nat, k < Len(s), NEW f, Walk(f, k, s, S, D)
  PROVE  \E g : Walk(g, k + 1, s, S, D)
<1> DEFINE n == Len(s)
           x == EraseRow(f[k], S, Downwards(n, k + 1))
           g == [j \in 0 .. k + 1 |-> IF j = k + 1 THEN x ELSE f[j]]
<1>1. n \in Nat
  BY LenProperties
<1>2. /\ f \in [0 .. k -> Seq(D)] /\ f[0] = s
      /\ \A j \in 1 .. k : f[j] = EraseRow(f[j - 1], S, Downwards(n, j))
      /\ \A j \in 0 .. k : Stage(f[j], s, S, n - j, D)
  BY DEF Walk
<1>3. Downwards(n, k + 1) = n - k /\ n - k \in 1 .. n /\ (n - k) - 1 = n - (k + 1)
  BY <1>1 DEF Downwards
<1>4. Stage(x, s, S, n - (k + 1), D)
  <2>1. Stage(f[k], s, S, n - k, D)
    BY <1>2
  <2> QED BY <1>3, <2>1, NextStage
<1>5. x \in Seq(D)
  BY <1>4 DEF Stage
<1> HIDE DEF x
<1>6. g \in [0 .. k + 1 -> Seq(D)] /\ g[0] = s
  BY <1>2, <1>5
<1>7. g[k + 1] = x /\ \A j \in 0 .. k : g[j] = f[j]
  OBVIOUS
<1> HIDE DEF g
<1>8. ASSUME NEW j \in 1 .. k + 1 PROVE g[j] = EraseRow(g[j - 1], S, Downwards(n, j))
  <2>1. CASE j = k + 1
    BY <1>7, <2>1 DEF x
  <2>2. CASE j \in 1 .. k
    <3>1. f[j] = EraseRow(f[j - 1], S, Downwards(n, j)) /\ j - 1 \in 0 .. k
      BY <1>2, <2>2
    <3> QED BY <1>7, <2>2, <3>1
  <2> QED BY <2>1, <2>2
<1>9. ASSUME NEW j \in 0 .. k + 1 PROVE Stage(g[j], s, S, n - j, D)
  <2>1. CASE j = k + 1
    BY <1>4, <1>7, <2>1
  <2>2. CASE j \in 0 .. k
    BY <1>2, <1>7, <2>2
  <2> QED BY <2>1, <2>2
<1> QED BY <1>6, <1>8, <1>9 DEF Walk

\* What erasing leaves, for every list and every set of rows: the rows that are
\* not in the set, in their order.
THEOREM Erasure ==
  ASSUME NEW D, NEW s \in Seq(D), NEW S
  PROVE  /\ Erase(s, S) \in Seq(D)
         /\ \E m : Embeds(m, Erase(s, S), s, DOMAIN s \ S)
<1> DEFINE n == Len(s)
           T == {k \in Nat : k <= n => \E f : Walk(f, k, s, S, D)}
           Step(f) == [k \in 0 .. n |-> IF k = 0 THEN s ELSE EraseRow(f[k - 1], S, Downwards(n, k))]
           left == CHOOSE f : f = Step(f)
<1>1. n \in Nat /\ DOMAIN s = 1 .. n
  BY LenProperties
<1>2. 0 \in T
  BY NoWalk
<1>3. \A k \in Nat : k \in T => k + 1 \in T
  BY <1>1, LongerWalk
<1>4. PICK f : Walk(f, n, s, S, D)
  <2> HIDE DEF T
  <2>1. n \in T
    BY <1>1, <1>2, <1>3, NatSet
  <2> QED BY <1>1, <2>1 DEF T
<1>5. f = Step(f)
  <2>1. /\ f \in [0 .. n -> Seq(D)] /\ f[0] = s
        /\ \A j \in 1 .. n : f[j] = EraseRow(f[j - 1], S, Downwards(n, j))
    BY <1>4 DEF Walk
  <2>2. \A k \in 0 .. n : f[k] = IF k = 0 THEN s ELSE EraseRow(f[k - 1], S, Downwards(n, k))
    BY <1>1, <2>1
  <2> QED BY <2>1, <2>2
<1>6. left = Step(left)
  BY <1>5
<1>7. Erase(s, S) = left[n]
  BY DEF Erase
<1> HIDE DEF left
<1>8. /\ left[0] = s /\ f[0] = s
      /\ \A k \in 1 .. n : left[k] = EraseRow(left[k - 1], S, Downwards(n, k))
      /\ \A k \in 1 .. n : f[k] = EraseRow(f[k - 1], S, Downwards(n, k))
  <2>1. /\ 0 \in 0 .. n
        /\ \A k \in 1 .. n : k \in 0 .. n /\ k # 0
    BY <1>1
  <2>2. \A x : x = Step(x) => x[0] = s
    BY <2>1
  <2>3. \A x : x = Step(x) => \A k \in 1 .. n : x[k] = EraseRow(x[k - 1], S, Downwards(n, k))
    BY <2>1
  <2> HIDE DEF Step
  <2> QED BY <1>5, <1>6, <2>2, <2>3
<1> DEFINE U == {k \in Nat : k <= n => left[k] = f[k]}
<1>9. Nat \subseteq U
  <2>1. 0 \in U
    BY <1>8
  <2>2. ASSUME NEW k \in Nat, k \in U PROVE k + 1 \in U
    <3>1. CASE k + 1 <= n
      <4>1. k + 1 \in 1 .. n /\ (k + 1) - 1 = k /\ left[k] = f[k]
        BY <1>1, <2>2, <3>1
      <4> QED BY <1>8, <4>1
    <3>2. CASE ~(k + 1 <= n)
      BY <3>2
    <3> QED BY <3>1, <3>2
  <2> HIDE DEF U
  <2> QED BY <2>1, <2>2, NatSet
<1>10. Erase(s, S) = f[n]
  BY <1>1, <1>7, <1>9
<1>11. Stage(f[n], s, S, n - n, D)
  BY <1>1, <1>4 DEF Walk
<1>12. Kept(n, S, n - n) = DOMAIN s \ S
  BY <1>1 DEF Kept
<1> QED BY <1>10, <1>11, <1>12 DEF Stage
-----------------------------------------------------------------------------
\* The elements of a finite set, each once, as a sequence.
LEMMA SetInOrder ==
  ASSUME NEW D, NEW S \in SUBSET D, IsFiniteSet(S), NEW o, o = SetToSeq(S)
  PROVE  /\ o \in Seq(D) /\ Cardinality(S) \in Nat /\ Len(o) = Cardinality(S)
         /\ \A k \in 1 .. Len(o) : o[k] \in S
         /\ \A j, k \in 1 .. Len(o) : o[j] = o[k] => j = k
         /\ \A x \in S : \E k \in 1 .. Len(o) : o[k] = x
<1> DEFINE n == Cardinality(S)
<1>1. n \in Nat /\ ExistsBijection(1 .. n, S)
  BY FS_CardinalityType
<1>3. \E f \in [1 .. n -> S] : IsInjective(f)
  BY <1>1 DEF ExistsBijection, Bijection, Injection
<1>4. o \in [1 .. n -> S] /\ IsInjective(o)
  BY <1>3 DEF SetToSeq
<1> HIDE DEF n
<1>5. o \in Injection(1 .. n, S)
  BY <1>4 DEF Injection
<1>6. IsFiniteSet(1 .. n) /\ Cardinality(1 .. n) = n
  BY <1>1, FS_Interval
<1>7. o \in Surjection(1 .. n, S)
  BY <1>1, <1>5, <1>6, FS_Injection DEF n
<1>8. o \in Seq(D) /\ Len(o) = n
  <2>1. \A k \in 1 .. n : o[k] \in D
    BY <1>4
  <2>2. o \in [1 .. n -> D]
    BY <1>4, <2>1
  <2>3. o \in Seq(D)
    BY <1>1, <2>2
  <2> QED BY <1>1, <2>2, <2>3, LenProperties
<1>9. \A x \in S : \E k \in 1 .. n : o[k] = x
  BY <1>7 DEF Surjection
<1>10. \A j, k \in 1 .. n : o[j] = o[k] => j = k
  BY <1>4 DEF IsInjective
<1>11. \A k \in 1 .. n : o[k] \in S
  BY <1>4
<1> QED BY <1>1, <1>8, <1>9, <1>10, <1>11 DEF n

\* A sequence of numbers has a bound.
LEMMA SeqBounded ==
  ASSUME NEW n \in Nat, NEW f \in [1 .. n -> Nat]
  PROVE  \E b \in Nat : \A k \in 1 .. n : f[k] <= b
<1> DEFINE T == {k \in Nat : k <= n => \E b \in Nat : \A j \in 1 .. k : f[j] <= b}
<1>1. 0 \in T
  OBVIOUS
<1>2. ASSUME NEW k \in Nat, k \in T PROVE k + 1 \in T
  <2>1. CASE k + 1 <= n
    <3>1. PICK b \in Nat : \A j \in 1 .. k : f[j] <= b
      BY <1>2, <2>1
    <3>2. f[k + 1] \in Nat
      BY <2>1
    <3>3. PICK c \in Nat : c >= b /\ c >= f[k + 1]
      BY <3>1, <3>2
    <3>4. ASSUME NEW j \in 1 .. k + 1 PROVE f[j] <= c
      <4>1. j = k + 1 \/ j \in 1 .. k
        OBVIOUS
      <4>2. f[j] \in Nat
        BY <2>1
      <4> QED BY <3>1, <3>2, <3>3, <4>1, <4>2
    <3> QED BY <3>3, <3>4
  <2>2. CASE ~(k + 1 <= n)
    BY <2>2
  <2> QED BY <2>1, <2>2
<1> HIDE DEF T
<1>3. n \in T
  BY <1>1, <1>2, NatSet
<1> QED BY <1>3 DEF T

\* The greatest of a set of numbers that is not empty and has a bound.
LEMMA MaxOfBounded ==
  ASSUME NEW S \in SUBSET Nat, S # {}, NEW b \in Nat, \A x \in S : x <= b
  PROVE  Max(S) \in S /\ \A x \in S : x <= Max(S)
<1> DEFINE T == {c \in Nat : \A x \in S : x <= c}
<1>1. PICK m \in T : \A c \in T : m <= c
  <2>1. T \subseteq Nat /\ b \in T
    OBVIOUS
  <2> HIDE DEF T
  <2> QED BY <2>1, LeastNat
<1>2. m \in S
  <2>1. m \in Nat /\ \A x \in S : x \in Nat /\ x <= m
    BY <1>1
  <2>2. CASE m = 0
    <3>1. PICK x \in S : TRUE
      OBVIOUS
    <3>2. x = m
      BY <2>1, <2>2, <3>1
    <3> QED BY <3>2
  <2>3. CASE m # 0 /\ m \notin S
    <3>1. m - 1 \in Nat
      BY <2>1, <2>3
    <3>2. \A x \in S : x <= m - 1
      BY <2>1, <2>3
    <3>3. m <= m - 1
      BY <1>1, <3>1, <3>2
    <3> QED BY <2>1, <3>3
  <2> QED BY <2>2, <2>3
<1>3. \E x \in S : \A y \in S : x >= y
  BY <1>1, <1>2
<1> QED BY <1>3 DEF Max
-----------------------------------------------------------------------------
Row == [id : Name, stamp : Nat, details : Nat, hidden : BOOLEAN, ticket : Nat]
Task == [ticket : Nat, id : Name, path : Name, aborted : BOOLEAN,
         outcome : {"none", "aborted", "failed", "succeeded"}, details : Nat]

\* A file has one of its two names, and a row under one of them.
SingleNamed(d) == \A n \in Name : d[n] = 0 \/ d[Other(n)] = 0
OneRowEach(s) == \A i, j \in DOMAIN s : s[i].id[1] = s[j].id[1] => i = j
\* x leads from the names in s to their places, and knows all of them.
Leads(x, s) == DOMAIN x = Ids(s) /\ \A n \in DOMAIN x : x[n] \in DOMAIN s /\ s[x[n]].id = n

Flags ==
  /\ mods \in BOOLEAN /\ notify \in BOOLEAN /\ watching \in BOOLEAN /\ launched \in BOOLEAN
  /\ misfired \in BOOLEAN /\ changes \in 0 .. MaxChanges
Folder == disk \in [Name -> Nat] /\ SingleNamed(disk)
Scanned ==
  /\ update \in {"none", "running", "scanned", "applied", "stuck"} /\ scheduled \in BOOLEAN
  /\ found \in [Name -> Nat] /\ SingleNamed(found)
List == rows \in Seq(Row) /\ OneRowEach(rows) /\ Leads(index, rows)
Tasks == parses \in Seq(Task)
\* The inductive invariant.
IInv == Flags /\ Folder /\ Scanned /\ List /\ Tasks

LEMMA NameParts ==
  /\ IsFiniteSet(Name)
  /\ \A n \in Name : Other(n) \in Name /\ Other(n)[1] = n[1] /\ Other(Other(n)) = n /\ Other(n) # n
  /\ \A n, k \in Name : n[1] = k[1] => k = n \/ k = Other(n)
<1>1. IsFiniteSet(BOOLEAN)
  <2>1. IsFiniteSet({TRUE}) /\ {TRUE} \cup {FALSE} = BOOLEAN
    BY FS_Singleton
  <2> QED BY <2>1, FS_AddElement
<1>2. IsFiniteSet(Name)
  BY <1>1, ResourceFolderAssumption, FS_Product DEF Name
<1>3. \A n \in Name : Other(n) \in Name /\ Other(n)[1] = n[1] /\ Other(Other(n)) = n /\ Other(n) # n
  <2>1. TAKE n \in Name
  <2>2. PICK f \in File, b \in BOOLEAN : n = <<f, b>>
    BY DEF Name
  <2>3. n[1] = f /\ n[2] = b
    BY <2>2
  <2>4. CASE b = TRUE
    <3>1. Other(n) = <<f, FALSE>>
      BY <2>3, <2>4 DEF Other
    <3>2. Other(Other(n)) = <<f, TRUE>>
      BY <3>1 DEF Other
    <3>3. <<f, FALSE>> \in Name /\ <<f, FALSE>>[1] = f
      BY DEF Name
    <3>4. <<f, TRUE>> # <<f, FALSE>>
      OBVIOUS
    <3>5. n = <<f, TRUE>>
      BY <2>2, <2>4
    <3> QED BY <2>3, <3>1, <3>2, <3>3, <3>4, <3>5
  <2>5. CASE b = FALSE
    <3>1. Other(n) = <<f, TRUE>>
      BY <2>3, <2>5 DEF Other
    <3>2. Other(Other(n)) = <<f, FALSE>>
      BY <3>1 DEF Other
    <3>3. <<f, TRUE>> \in Name /\ <<f, TRUE>>[1] = f
      BY DEF Name
    <3>4. <<f, FALSE>> # <<f, TRUE>>
      OBVIOUS
    <3>5. n = <<f, FALSE>>
      BY <2>2, <2>5
    <3> QED BY <2>3, <3>1, <3>2, <3>3, <3>4, <3>5
  <2> QED BY <2>4, <2>5
<1>4. \A n, k \in Name : n[1] = k[1] => k = n \/ k = Other(n)
  BY DEF Name, Other
<1> QED BY <1>2, <1>3, <1>4

LEMMA EmptyList == <<>> \in Seq(Row) /\ DOMAIN <<>> = {} /\ <<>> \in Seq(Task)
BY EmptySeq, LenProperties

LEMMA Initially == Init => IInv
<1> SUFFICES ASSUME Init PROVE IInv
  OBVIOUS
<1>1. Flags
  <2>1. changes \in 0 .. MaxChanges
    BY ResourceFolderAssumption DEF Init
  <2>2. mods \in BOOLEAN /\ notify = FALSE /\ watching = FALSE /\ launched = FALSE /\ misfired = FALSE
    BY DEF Init
  <2> QED BY <2>1, <2>2 DEF Flags
<1>2. Folder
  <2>1. PICK S \in SUBSET File : disk = [n \in Name |-> IF n[1] \in S /\ n[2] THEN 1 ELSE 0]
    BY DEF Init
  <2>2. \A n \in Name : ~(n[2] /\ Other(n)[2])
    BY DEF Name, Other
  <2> QED BY <2>1, <2>2, NameParts DEF Folder, SingleNamed
<1>3. Scanned
  BY NameParts DEF Init, Scanned, Nothing, SingleNamed
<1>4. List
  BY EmptyList DEF Init, List, OneRowEach, Leads, Ids
<1> QED BY <1>1, <1>2, <1>3, <1>4, EmptyList DEF Init, IInv, Tasks
-----------------------------------------------------------------------------
\* Changes of the folder keep it a folder.
LEMMA WriteKeeps ==
  ASSUME Folder, Flags, Change, NEW n \in Name, Write(n)
  PROVE  Folder'
<1>1. changes + 2 \in Nat
  BY DEF Flags
<1> QED BY <1>1, NameParts DEF Folder, SingleNamed, Write

LEMMA DeleteKeeps ==
  ASSUME Folder, NEW n \in Name, disk' = [disk EXCEPT ![n] = 0]
  PROVE  Folder'
BY NameParts DEF Folder, SingleNamed

LEMMA MoveKeeps ==
  ASSUME Folder, NEW n \in Name, disk' = [disk EXCEPT ![n] = 0, ![Other(n)] = disk[n]]
  PROVE  Folder'
BY NameParts DEF Folder, SingleNamed

LEMMA UpdateKeeps == ASSUME Scanned, Update PROVE Scanned'
BY DEF Scanned, Update, Remembered

LEMMA ChangeCounts == ASSUME Flags, Change PROVE changes' \in 0 .. MaxChanges
BY ResourceFolderAssumption DEF Flags, Change
-----------------------------------------------------------------------------
\* A row and a parse task by their parts.
MakeRow(n, s, d, h, t) == [id |-> n, stamp |-> s, details |-> d, hidden |-> h, ticket |-> t]
MakeTask(t, n, p, a, o, d) ==
  [ticket |-> t, id |-> n, path |-> p, aborted |-> a, outcome |-> o, details |-> d]

LEMMA RowParts ==
  ASSUME NEW r \in Row, NEW n \in Name, NEW b \in BOOLEAN, NEW d \in Nat
  PROVE  /\ Renamed(r, n, b) \in Row /\ Renamed(r, n, b).id = n
         /\ [r EXCEPT !.details = d] \in Row /\ [r EXCEPT !.details = d].id = r.id
<1>1. r = MakeRow(r.id, r.stamp, r.details, r.hidden, r.ticket)
  BY DEF Row, MakeRow
<1>2. Renamed(r, n, b) = MakeRow(n, r.stamp, r.details, r.hidden \/ b, r.ticket)
  <2> DEFINE e == MakeRow(n, r.stamp, r.details, r.hidden, r.ticket)
  <2>1. [r EXCEPT !.id = n] = e /\ e.hidden = r.hidden
    BY <1>1 DEF MakeRow
  <2>2. [e EXCEPT !.hidden = r.hidden \/ b] = MakeRow(n, r.stamp, r.details, r.hidden \/ b, r.ticket)
    BY DEF MakeRow
  <2>3. Renamed(r, n, b) = [[r EXCEPT !.id = n] EXCEPT !.hidden = @ \/ b]
    BY DEF Renamed
  <2> HIDE DEF e
  <2>4. Renamed(r, n, b) = [e EXCEPT !.hidden = @ \/ b]
    BY <2>1, <2>3
  <2> QED BY <2>1, <2>2, <2>4
<1>3. [r EXCEPT !.details = d] = MakeRow(r.id, r.stamp, d, r.hidden, r.ticket)
  BY <1>1 DEF MakeRow
<1>4. /\ r.id \in Name /\ r.stamp \in Nat /\ r.details \in Nat /\ r.ticket \in Nat
      /\ r.hidden \in BOOLEAN /\ (r.hidden \/ b) \in BOOLEAN
  BY DEF Row
<1> QED BY <1>2, <1>3, <1>4 DEF Row, MakeRow

LEMMA TaskParts ==
  ASSUME NEW p \in Task, NEW n \in Name, NEW a \in BOOLEAN, NEW d \in Nat,
         NEW o \in {"none", "aborted", "failed", "succeeded"}
  PROVE  /\ [p EXCEPT !.id = n] \in Task
         /\ [p EXCEPT !.aborted = a] \in Task
         /\ [p EXCEPT !.details = d, !.outcome = o] \in Task
<1>1. p = MakeTask(p.ticket, p.id, p.path, p.aborted, p.outcome, p.details)
  BY DEF Task, MakeTask
<1>2. [p EXCEPT !.id = n] = MakeTask(p.ticket, n, p.path, p.aborted, p.outcome, p.details)
  BY <1>1 DEF MakeTask
<1>3. [p EXCEPT !.aborted = a] = MakeTask(p.ticket, p.id, p.path, a, p.outcome, p.details)
  BY <1>1 DEF MakeTask
<1>4. [p EXCEPT !.details = d, !.outcome = o] = MakeTask(p.ticket, p.id, p.path, p.aborted, o, d)
  <2> DEFINE e == MakeTask(p.ticket, p.id, p.path, p.aborted, p.outcome, d)
  <2>1. [p EXCEPT !.details = d] = e
    BY <1>1 DEF MakeTask
  <2>2. [e EXCEPT !.outcome = o] = MakeTask(p.ticket, p.id, p.path, p.aborted, o, d)
    BY DEF MakeTask
  <2> HIDE DEF e
  <2>3. [p EXCEPT !.details = d, !.outcome = o] = [e EXCEPT !.outcome = o]
    BY <2>1
  <2> QED BY <2>2, <2>3
<1>5. /\ p.ticket \in Nat /\ p.id \in Name /\ p.path \in Name /\ p.aborted \in BOOLEAN
      /\ p.outcome \in {"none", "aborted", "failed", "succeeded"} /\ p.details \in Nat
  BY DEF Task
<1> QED BY <1>2, <1>3, <1>4, <1>5 DEF Task, MakeTask

\* The parts of the state, of a row and of a task in it.
LEMMA Members ==
  ASSUME IInv
  PROVE  /\ \A i \in DOMAIN rows : rows[i] \in Row /\ rows[i].id \in Name
         /\ \A k \in DOMAIN parses : parses[k] \in Task /\ parses[k].id \in Name
                                     /\ parses[k].path \in Name /\ parses[k].details \in Nat
         /\ Len(rows) \in Nat /\ DOMAIN rows = 1 .. Len(rows)
         /\ Len(parses) \in Nat /\ DOMAIN parses = 1 .. Len(parses)
         /\ DOMAIN index \subseteq Name
<1>1. rows \in Seq(Row) /\ parses \in Seq(Task) /\ Leads(index, rows)
  BY DEF IInv, List, Tasks
<1>2. /\ Len(rows) \in Nat /\ DOMAIN rows = 1 .. Len(rows)
      /\ Len(parses) \in Nat /\ DOMAIN parses = 1 .. Len(parses)
  BY <1>1, LenProperties
<1>3. \A i \in DOMAIN rows : rows[i] \in Row /\ rows[i].id \in Name
  <2>1. \A r \in Row : r.id \in Name
    BY DEF Row
  <2>2. \A i \in DOMAIN rows : rows[i] \in Row
    BY <1>1, <1>2, ElementOfSeq
  <2> QED BY <2>1, <2>2
<1>4. \A k \in DOMAIN parses : parses[k] \in Task /\ parses[k].id \in Name
                               /\ parses[k].path \in Name /\ parses[k].details \in Nat
  <2>1. \A p \in Task : p.id \in Name /\ p.path \in Name /\ p.details \in Nat
    BY DEF Task
  <2>2. \A k \in DOMAIN parses : parses[k] \in Task
    BY <1>1, <1>2, ElementOfSeq
  <2> QED BY <2>1, <2>2
<1>5. DOMAIN index \subseteq Name
  BY <1>1, <1>3 DEF Leads, Ids
<1> QED BY <1>2, <1>3, <1>4, <1>5

\* Renaming a resource keeps its row and the way to it, and its parse task.
LEMMA ToggleKeeps ==
  ASSUME IInv, NEW i \in DOMAIN rows, Toggle(i)
  PROVE  Folder' /\ List' /\ Tasks'
<1> DEFINE old == rows[i].id
           new == Other(old)
           pending == \E k \in DOMAIN parses : parses[k].ticket = rows[i].ticket
           r == Renamed(rows[i], new, pending)
<1>1. /\ rows[i] \in Row /\ old \in Name /\ new \in Name /\ new[1] = old[1] /\ new # old
      /\ DOMAIN rows = 1 .. Len(rows) /\ rows \in Seq(Row) /\ parses \in Seq(Task)
  BY Members, NameParts DEF IInv, List, Tasks
<1>2. /\ disk' = [disk EXCEPT ![old] = 0, ![new] = disk[old]]
      /\ rows' = [rows EXCEPT ![i] = r]
      /\ index' = [n \in (DOMAIN index \ {old}) \cup {new} |-> IF n = new THEN i ELSE index[n]]
      /\ parses' = [k \in DOMAIN parses |->
                      IF parses[k].ticket = rows[i].ticket THEN [parses[k] EXCEPT !.id = new]
                                                           ELSE parses[k]]
  <2>1. disk' = [disk EXCEPT ![old] = 0, ![new] = disk[old]]
    BY DEF Toggle
  <2>2. rows' = [rows EXCEPT ![i] = r]
    BY DEF Toggle
  <2>3. index' = [n \in (DOMAIN index \ {old}) \cup {new} |-> IF n = new THEN i ELSE index[n]]
    BY DEF Toggle, Reindex
  <2>4. parses' = [k \in DOMAIN parses |->
                     IF parses[k].ticket = rows[i].ticket THEN [parses[k] EXCEPT !.id = new]
                                                          ELSE parses[k]]
    BY DEF Toggle
  <2> QED BY <2>1, <2>2, <2>3, <2>4
<1>3. Folder'
  BY <1>1, <1>2, MoveKeeps DEF IInv
<1>4. r \in Row /\ r.id = new
  <2>1. pending \in BOOLEAN
    OBVIOUS
  <2> HIDE DEF pending, new
  <2> QED BY <1>1, <2>1, RowParts
<1> HIDE DEF r, new
<1>5. /\ rows' \in Seq(Row) /\ DOMAIN rows' = DOMAIN rows
      /\ \A j \in DOMAIN rows : rows'[j] = IF j = i THEN r ELSE rows[j]
  BY <1>1, <1>2, <1>4, ExceptSeq, LenProperties
<1>6. OneRowEach(rows')
  BY <1>1, <1>4, <1>5 DEF IInv, List, OneRowEach
<1>7. Leads(index', rows')
  <2>1. /\ DOMAIN index = Ids(rows)
        /\ \A n \in DOMAIN index : index[n] \in DOMAIN rows /\ rows[index[n]].id = n
    BY DEF IInv, List, Leads
  <2>2. \A j \in DOMAIN rows : rows[j].id = old => j = i
    BY DEF IInv, List, OneRowEach
  <2>3. DOMAIN index' = Ids(rows')
    <3>1. DOMAIN index' = (Ids(rows) \ {old}) \cup {new}
      BY <1>2, <2>1
    <3>2. ASSUME NEW n \in Ids(rows') PROVE n \in (Ids(rows) \ {old}) \cup {new}
      BY <1>4, <1>5, <2>2 DEF Ids
    <3>3. new \in Ids(rows')
      BY <1>4, <1>5 DEF Ids
    <3>4. ASSUME NEW n \in Ids(rows) \ {old} PROVE n \in Ids(rows')
      <4>1. PICK j \in DOMAIN rows : rows[j].id = n
        BY DEF Ids
      <4>2. j # i
        BY <4>1
      <4> QED BY <1>5, <4>1, <4>2 DEF Ids
    <3> QED BY <3>1, <3>2, <3>3, <3>4
  <2>4. ASSUME NEW n \in DOMAIN index' PROVE index'[n] \in DOMAIN rows' /\ rows'[index'[n]].id = n
    <3>1. CASE n = new
      BY <1>2, <1>4, <1>5, <3>1
    <3>2. CASE n # new
      <4>1. n \in DOMAIN index /\ n # old /\ index'[n] = index[n]
        BY <1>2, <3>2
      <4>2. index[n] # i
        BY <2>1, <4>1
      <4> QED BY <1>5, <2>1, <4>1, <4>2
    <3> QED BY <3>1, <3>2
  <2> QED BY <2>3, <2>4 DEF Leads
<1>8. parses' \in Seq(Task)
  <2>1. \A k \in DOMAIN parses : parses[k] \in Task /\ [parses[k] EXCEPT !.id = new] \in Task
    BY <1>1, Members, TaskParts
  <2>2. Len(parses) \in Nat /\ DOMAIN parses = 1 .. Len(parses)
    BY Members
  <2>3. parses' \in [1 .. Len(parses) -> Task]
    BY <1>2, <2>1, <2>2
  <2> QED BY <2>2, <2>3
<1> QED BY <1>3, <1>5, <1>6, <1>7, <1>8 DEF List, Tasks
-----------------------------------------------------------------------------
NewNames == Found \ DOMAIN index

\* What is new is put in an order: first what changed, then what is added.
ChangedFirst(c, a) ==
  /\ c \in Nat /\ a \in Nat /\ Ordered \in Seq(Name) /\ Len(Ordered) = c + a
  /\ \A k \in 1 .. c + a : Ordered[k] \in Changed \cup NewNames
  /\ \A n \in Changed \cup NewNames : \E k \in 1 .. c + a : Ordered[k] = n
  /\ \A k \in 1 .. a : Ordered[c + k] \in NewNames
  /\ \A j, k \in 1 .. a : Ordered[c + j] = Ordered[c + k] => j = k
  /\ \A n \in NewNames : \E k \in 1 .. a : Ordered[c + k] = n
LEMMA OrderedCovers ==
  ASSUME IInv, NEW c, c = Cardinality(Changed), NEW a, a = Cardinality(NewNames)
  PROVE  ChangedFirst(c, a)
<1>1. /\ Changed \in SUBSET Name /\ NewNames \in SUBSET Name
      /\ IsFiniteSet(Changed) /\ IsFiniteSet(NewNames)
  <2>1. Changed \in SUBSET Name /\ NewNames \in SUBSET Name
    BY Members DEF Changed, NewNames, Found
  <2> QED BY <2>1, NameParts, FS_Subset
<1>2. PICK p, q : p = SetToSeq(Changed) /\ q = SetToSeq(NewNames)
  OBVIOUS
<1>3. /\ p \in Seq(Name) /\ c \in Nat /\ Len(p) = c
      /\ \A k \in 1 .. c : p[k] \in Changed
      /\ \A x \in Changed : \E k \in 1 .. c : p[k] = x
  BY <1>1, <1>2, SetInOrder
<1>4. /\ q \in Seq(Name) /\ a \in Nat /\ Len(q) = a
      /\ \A k \in 1 .. a : q[k] \in NewNames
      /\ \A j, k \in 1 .. a : q[j] = q[k] => j = k
      /\ \A x \in NewNames : \E k \in 1 .. a : q[k] = x
  BY <1>1, <1>2, SetInOrder
<1>5. Ordered = p \o q
  BY <1>2 DEF Ordered, NewNames
<1>6. /\ Ordered \in Seq(Name) /\ Len(Ordered) = c + a
      /\ \A k \in 1 .. c + a : Ordered[k] = IF k <= c THEN p[k] ELSE q[k - c]
  <2>1. /\ p \o q \in Seq(Name) /\ Len(p \o q) = Len(p) + Len(q)
        /\ \A k \in 1 .. Len(p) + Len(q) : (p \o q)[k] = IF k <= Len(p) THEN p[k] ELSE q[k - Len(p)]
    <3>1. p \in Seq(Name) /\ q \in Seq(Name)
      BY <1>3, <1>4
    <3> QED BY <3>1, ConcatProperties
  <2> QED BY <1>3, <1>4, <1>5, <2>1
<1>7. ASSUME NEW k \in 1 .. a PROVE Ordered[c + k] = q[k]
  <2>1. c + k \in 1 .. c + a /\ ~(c + k <= c) /\ (c + k) - c = k
    BY <1>3, <1>4
  <2> QED BY <1>6, <2>1
<1>8. ASSUME NEW k \in 1 .. c PROVE k \in 1 .. c + a /\ Ordered[k] = p[k]
  BY <1>3, <1>4, <1>6
<1>9. \A k \in 1 .. c + a : k \in 1 .. c \/ k - c \in 1 .. a
  BY <1>3, <1>4
<1>10. ASSUME NEW k \in 1 .. c + a PROVE Ordered[k] \in Changed \cup NewNames
  <2>1. CASE k \in 1 .. c
    BY <1>3, <1>8, <2>1
  <2>2. CASE ~(k <= c) /\ k - c \in 1 .. a
    BY <1>4, <1>6, <2>2
  <2> QED BY <1>3, <1>9, <2>1, <2>2
<1>11. ASSUME NEW n \in Changed \cup NewNames PROVE \E k \in 1 .. c + a : Ordered[k] = n
  <2>1. CASE n \in Changed
    BY <1>3, <1>8, <2>1
  <2>2. CASE n \in NewNames
    <3>1. PICK k \in 1 .. a : q[k] = n
      BY <1>4, <2>2
    <3>2. c + k \in 1 .. c + a
      BY <1>3, <1>4
    <3> QED BY <1>7, <3>1, <3>2
  <2> QED BY <2>1, <2>2
<1>12. \A n \in NewNames : \E k \in 1 .. a : Ordered[c + k] = n
  BY <1>4, <1>7
<1>13. \A k \in 1 .. a : Ordered[c + k] \in NewNames
  BY <1>4, <1>7
<1>14. \A j, k \in 1 .. a : Ordered[c + j] = Ordered[c + k] => j = k
  BY <1>4, <1>7
<1> QED BY <1>3, <1>4, <1>6, <1>10, <1>11, <1>12, <1>13, <1>14 DEF ChangedFirst

\* The same without the numbers.
LEMMA OrderedIsNew ==
  ASSUME IInv
  PROVE  /\ Ordered \in Seq(Name)
         /\ \A k \in 1 .. Len(Ordered) : Ordered[k] \in Changed \cup NewNames
         /\ \A n \in Changed \cup NewNames : \E k \in 1 .. Len(Ordered) : Ordered[k] = n
<1> DEFINE c == Cardinality(Changed)
           a == Cardinality(NewNames)
<1>1. c = Cardinality(Changed) /\ a = Cardinality(NewNames)
  OBVIOUS
<1> HIDE DEF c, a
<1>2. ChangedFirst(c, a)
  BY <1>1, OrderedCovers
<1> QED BY <1>2 DEF ChangedFirst

\* There is a greatest ticket.
LEMMA TicketsBounded == ASSUME IInv PROVE Max(Tickets \cup {0}) \in Nat
<1> DEFINE f == [i \in 1 .. Len(rows) |-> rows[i].ticket]
           g == [k \in 1 .. Len(parses) |-> parses[k].ticket]
           S == Tickets \cup {0}
<1>1. Len(rows) \in Nat /\ Len(parses) \in Nat /\ DOMAIN rows = 1 .. Len(rows) /\ DOMAIN parses = 1 .. Len(parses)
  BY Members
<1>2. f \in [1 .. Len(rows) -> Nat]
  BY <1>1, Members DEF Row
<1>3. g \in [1 .. Len(parses) -> Nat]
  BY <1>1, Members DEF Task
<1>4. PICK b \in Nat : \A i \in 1 .. Len(rows) : f[i] <= b
  <2> HIDE DEF f
  <2> QED BY <1>1, <1>2, SeqBounded
<1>5. PICK d \in Nat : \A k \in 1 .. Len(parses) : g[k] <= d
  <2> HIDE DEF g
  <2> QED BY <1>1, <1>3, SeqBounded
<1>6. PICK e \in Nat : e >= b /\ e >= d
  OBVIOUS
<1>7. ASSUME NEW x \in S PROVE x \in Nat /\ x <= e
  <2>1. CASE x = 0
    BY <2>1
  <2>2. CASE \E i \in DOMAIN rows : x = rows[i].ticket
    <3>1. PICK i \in 1 .. Len(rows) : x = f[i]
      BY <1>1, <2>2
    <3> HIDE DEF f
    <3> QED BY <1>2, <1>4, <1>6, <3>1
  <2>3. CASE \E k \in DOMAIN parses : x = parses[k].ticket
    <3>1. PICK k \in 1 .. Len(parses) : x = g[k]
      BY <1>1, <2>3
    <3> HIDE DEF g
    <3> QED BY <1>3, <1>5, <1>6, <3>1
  <2> QED BY <2>1, <2>2, <2>3 DEF Tickets
<1>8. S \in SUBSET Nat /\ S # {} /\ \A x \in S : x <= e
  BY <1>7
<1> HIDE DEF S
<1>9. Max(S) \in S
  BY <1>8, MaxOfBounded
<1> QED BY <1>8, <1>9 DEF S

LEMMA FreshRow ==
  ASSUME IInv, NEW n \in Changed \cup NewNames, NEW r, r = Fresh(n)
  PROVE  r \in Row /\ r.id = n /\ r.stamp = found[n] /\ n \in Found
<1>1. n \in Found /\ n \in Name /\ found[n] \in Nat
  BY DEF Changed, NewNames, Found, IInv, Scanned
<1> DEFINE k == CHOOSE k \in DOMAIN Ordered : Ordered[k] = n
<1>2. k \in Nat
  <2>1. Ordered \in Seq(Name) /\ \E j \in 1 .. Len(Ordered) : Ordered[j] = n
    BY OrderedIsNew
  <2>2. DOMAIN Ordered = 1 .. Len(Ordered) /\ Len(Ordered) \in Nat
    BY <2>1, LenProperties
  <2> QED BY <2>1, <2>2
<1>3. Fresh(n) = New(n, k)
  BY DEF Fresh
<1> HIDE DEF k
<1>4. (IF launched THEN 0 ELSE Max(Tickets \cup {0}) + k) \in Nat
  BY <1>2, TicketsBounded
<1> QED BY <1>1, <1>3, <1>4 DEF New, Row

\* s lists the names of N, each once and with what the scan has found.
Lists(s, N) ==
  /\ s \in Seq(Row)
  /\ \A i \in 1 .. Len(s) : s[i].id \in N /\ s[i].stamp = found[s[i].id]
  /\ \A i, j \in 1 .. Len(s) : s[i].id = s[j].id => i = j
  /\ \A n \in N : \E i \in 1 .. Len(s) : s[i].id = n

\* What the index says, turned round.
LEMMA IndexTurned ==
  ASSUME IInv, NEW i \in DOMAIN rows
  PROVE  /\ rows[i].id \in DOMAIN index /\ index[rows[i].id] = i
         /\ \A n \in DOMAIN index : index[n] = i => n = rows[i].id
<1>1. DOMAIN index = Ids(rows) /\ \A n \in DOMAIN index : index[n] \in DOMAIN rows /\ rows[index[n]].id = n
  BY DEF IInv, List, Leads
<1>2. rows[i].id \in DOMAIN index
  BY <1>1 DEF Ids
<1>3. \A j \in DOMAIN rows : rows[j].id = rows[i].id => j = i
  BY DEF IInv, List, OneRowEach
<1> QED BY <1>1, <1>2, <1>3

\* Rows that changed are replaced where they are.
LEMMA SwappedRows ==
  ASSUME IInv, NEW s, s = Swapped
  PROVE  /\ s \in Seq(Row) /\ Len(s) = Len(rows) /\ DOMAIN s = DOMAIN rows
         /\ \A i \in DOMAIN rows : /\ s[i].id = rows[i].id
                                   /\ rows[i].id \in Found => s[i].stamp = found[rows[i].id]
<1>1. Len(rows) \in Nat /\ DOMAIN rows = 1 .. Len(rows) /\ \A i \in DOMAIN rows : rows[i] \in Row
  BY Members
<1>2. ASSUME NEW i \in DOMAIN rows
      PROVE  /\ s[i] \in Row /\ s[i].id = rows[i].id
             /\ rows[i].id \in Found => s[i].stamp = found[rows[i].id]
  <2>1. PICK n : n = rows[i].id /\ n \in DOMAIN index /\ index[n] = i
    BY IndexTurned
  <2>2. CASE n \in Changed
    <3>1. s[i] = Fresh(n)
      BY <2>1, <2>2 DEF Swapped
    <3> QED BY <2>1, <2>2, <3>1, FreshRow
  <2>3. CASE n \notin Changed
    <3>1. ~ \E k \in Changed : index[k] = i
      <4>1. Changed \subseteq DOMAIN index
        BY DEF Changed
      <4> QED BY <2>1, <2>3, <4>1, IndexTurned
    <3>2. s[i] = rows[i]
      BY <3>1 DEF Swapped
    <3>3. n \in Found => found[n] = rows[i].stamp
      BY <2>1, <2>3 DEF Changed
    <3> QED BY <1>1, <2>1, <3>2, <3>3
  <2> QED BY <2>2, <2>3
<1>3. s \in [1 .. Len(rows) -> Row]
  BY <1>1, <1>2 DEF Swapped
<1>4. s \in Seq(Row)
  BY <1>1, <1>3
<1>5. DOMAIN s = 1 .. Len(s) /\ Len(s) \in Nat
  BY <1>4, LenProperties
<1>6. Len(s) = Len(rows)
  BY <1>1, <1>3, <1>5
<1> QED BY <1>1, <1>2, <1>4, <1>5, <1>6

\* What is left of the list is what has been found again.
LEMMA RowsLeft ==
  ASSUME IInv, NEW t, t = Erase(Swapped, {index[n] : n \in Gone})
  PROVE  Lists(t, DOMAIN index \cap Found)
<1> DEFINE S == {index[n] : n \in Gone}
<1>1. PICK s : s = Swapped
  OBVIOUS
<1>2. /\ s \in Seq(Row) /\ DOMAIN s = DOMAIN rows
      /\ \A i \in DOMAIN rows : /\ s[i].id = rows[i].id
                                /\ rows[i].id \in Found => s[i].stamp = found[rows[i].id]
  BY <1>1, SwappedRows
<1>3. \A i \in DOMAIN rows : i \in S <=> rows[i].id \notin Found
  <2>1. ASSUME NEW i \in DOMAIN rows, i \in S PROVE rows[i].id \notin Found
    <3>1. PICK n \in Gone : index[n] = i
      BY <2>1
    <3> QED BY <3>1, IndexTurned DEF Gone
  <2>2. ASSUME NEW i \in DOMAIN rows, rows[i].id \notin Found PROVE i \in S
    BY <2>2, IndexTurned DEF Gone
  <2> QED BY <2>1, <2>2
<1>4. t = Erase(s, S)
  BY <1>1
<1> HIDE DEF S
<1>5. t \in Seq(Row) /\ \E m : Embeds(m, t, s, DOMAIN s \ S)
  BY <1>2, <1>4, Erasure
<1>6. PICK m : Embeds(m, t, s, DOMAIN rows \ S)
  BY <1>2, <1>5
<1>7. /\ m \in [1 .. Len(t) -> DOMAIN rows \ S]
      /\ \A a, b \in 1 .. Len(t) : a < b => m[a] < m[b]
      /\ \A j \in DOMAIN rows \ S : \E a \in 1 .. Len(t) : m[a] = j
      /\ \A a \in 1 .. Len(t) : t[a] = s[m[a]]
  BY <1>6 DEF Embeds
<1>8. ASSUME NEW a \in 1 .. Len(t)
      PROVE  t[a].id \in DOMAIN index \cap Found /\ t[a].stamp = found[t[a].id] /\ t[a].id = rows[m[a]].id
  <2>1. m[a] \in DOMAIN rows /\ m[a] \notin S /\ t[a] = s[m[a]]
    BY <1>7
  <2> QED BY <1>2, <1>3, <2>1, IndexTurned
<1>9. ASSUME NEW a \in 1 .. Len(t), NEW b \in 1 .. Len(t), t[a].id = t[b].id PROVE a = b
  <2>1. m[a] \in DOMAIN rows /\ m[b] \in DOMAIN rows /\ rows[m[a]].id = rows[m[b]].id
    BY <1>7, <1>8, <1>9
  <2>2. m[a] = m[b]
    BY <2>1, IndexTurned
  <2>3. Len(t) \in Nat /\ m[a] \in Nat
    BY <1>5, <2>1, LenProperties, Members
  <2>4. a < b \/ b < a \/ a = b
    BY <2>3
  <2> QED BY <1>7, <2>2, <2>3, <2>4
<1>10. ASSUME NEW n \in DOMAIN index \cap Found PROVE \E a \in 1 .. Len(t) : t[a].id = n
  <2>1. index[n] \in DOMAIN rows /\ rows[index[n]].id = n
    BY DEF IInv, List, Leads
  <2>2. PICK a \in 1 .. Len(t) : m[a] = index[n]
    BY <1>3, <1>7, <2>1
  <2>3. t[a].id = rows[m[a]].id
    BY <1>8, <2>2
  <2>4. t[a].id = n
    BY <2>1, <2>2, <2>3
  <2> QED BY <2>4
<1> QED BY <1>5, <1>8, <1>9, <1>10 DEF Lists

\* What is added is what has been found and was not known.
LEMMA RowsAdded ==
  ASSUME IInv, NEW t, t = Added
  PROVE  Lists(t, NewNames)
<1> DEFINE c == Cardinality(Changed)
           a == Cardinality(NewNames)
<1>1. c = Cardinality(Changed) /\ a = Cardinality(NewNames)
  OBVIOUS
<1> HIDE DEF c, a
<1>2. /\ c \in Nat /\ a \in Nat
      /\ \A k \in 1 .. a : Ordered[c + k] \in NewNames
      /\ \A j, k \in 1 .. a : Ordered[c + j] = Ordered[c + k] => j = k
      /\ \A n \in NewNames : \E k \in 1 .. a : Ordered[c + k] = n
  <2>1. ChangedFirst(c, a)
    BY <1>1, OrderedCovers
  <2> QED BY <2>1 DEF ChangedFirst
<1>3. t = [k \in 1 .. a |-> Fresh(Ordered[c + k])]
  BY <1>1 DEF Added, NewNames
<1>4. ASSUME NEW k \in 1 .. a
      PROVE  t[k] \in Row /\ t[k].id = Ordered[c + k] /\ t[k].stamp = found[t[k].id]
  <2>1. t[k] = Fresh(Ordered[c + k]) /\ Ordered[c + k] \in Changed \cup NewNames
    BY <1>2, <1>3
  <2> QED BY <2>1, FreshRow
<1>5. t \in [1 .. a -> Row]
  BY <1>3, <1>4
<1>6. t \in Seq(Row) /\ Len(t) = a
  <2>1. t \in Seq(Row) /\ DOMAIN t = 1 .. a
    BY <1>2, <1>5
  <2>2. DOMAIN t = 1 .. Len(t) /\ Len(t) \in Nat
    BY <2>1, LenProperties
  <2>3. a \in Nat
    BY <1>2
  <2> QED BY <1>5, <2>1, <2>2, <2>3
<1>7. \A i, j \in 1 .. a : t[i].id = t[j].id => i = j
  BY <1>2, <1>4
<1>8. \A n \in NewNames : \E i \in 1 .. a : t[i].id = n
  BY <1>2, <1>4
<1>9. \A i \in 1 .. a : t[i].id \in NewNames /\ t[i].stamp = found[t[i].id]
  BY <1>2, <1>4
<1> QED BY <1>6, <1>7, <1>8, <1>9 DEF Lists

LEMMA Joined ==
  ASSUME NEW M, NEW N, M \cap N = {}, NEW s, Lists(s, M), NEW t, Lists(t, N), NEW u, u = s \o t
  PROVE  Lists(u, M \cup N)
<1>1. /\ s \in Seq(Row) /\ t \in Seq(Row) /\ Len(s) \in Nat /\ Len(t) \in Nat
  BY LenProperties DEF Lists
<1>2. /\ u \in Seq(Row) /\ Len(u) = Len(s) + Len(t)
      /\ \A i \in 1 .. Len(s) + Len(t) : u[i] = IF i <= Len(s) THEN s[i] ELSE t[i - Len(s)]
  BY <1>1, ConcatProperties
<1>3. ASSUME NEW i \in 1 .. Len(u)
      PROVE  \/ i <= Len(s) /\ i \in 1 .. Len(s) /\ u[i] = s[i] /\ u[i].id \in M
             \/ ~(i <= Len(s)) /\ i - Len(s) \in 1 .. Len(t) /\ u[i] = t[i - Len(s)] /\ u[i].id \in N
  <2>1. CASE i <= Len(s)
    <3>1. i \in 1 .. Len(s) /\ u[i] = s[i]
      BY <1>1, <1>2, <2>1
    <3> QED BY <2>1, <3>1 DEF Lists
  <2>2. CASE ~(i <= Len(s))
    <3>1. i - Len(s) \in 1 .. Len(t) /\ u[i] = t[i - Len(s)]
      BY <1>1, <1>2, <2>2
    <3> QED BY <2>2, <3>1 DEF Lists
  <2> QED BY <2>1, <2>2
<1>4. ASSUME NEW i \in 1 .. Len(u) PROVE u[i].id \in M \cup N /\ u[i].stamp = found[u[i].id]
  <2>1. CASE i \in 1 .. Len(s) /\ u[i] = s[i] /\ u[i].id \in M
    BY <2>1 DEF Lists
  <2>2. CASE i - Len(s) \in 1 .. Len(t) /\ u[i] = t[i - Len(s)] /\ u[i].id \in N
    BY <2>2 DEF Lists
  <2> QED BY <1>3, <2>1, <2>2
<1>5. ASSUME NEW i \in 1 .. Len(u), NEW j \in 1 .. Len(u), u[i].id = u[j].id PROVE i = j
  <2>1. CASE i <= Len(s) /\ j <= Len(s)
    <3>1. i \in 1 .. Len(s) /\ j \in 1 .. Len(s) /\ s[i].id = s[j].id
      BY <1>3, <1>5, <2>1
    <3> QED BY <3>1 DEF Lists
  <2>2. CASE ~(i <= Len(s)) /\ ~(j <= Len(s))
    <3>1. i - Len(s) \in 1 .. Len(t) /\ j - Len(s) \in 1 .. Len(t) /\ t[i - Len(s)].id = t[j - Len(s)].id
      BY <1>3, <1>5, <2>2
    <3>2. i - Len(s) = j - Len(s)
      BY <3>1 DEF Lists
    <3> QED BY <1>1, <1>2, <3>2
  <2>3. ASSUME i <= Len(s), ~(j <= Len(s)) PROVE FALSE
    BY <1>3, <1>5, <2>3
  <2>4. ASSUME j <= Len(s), ~(i <= Len(s)) PROVE FALSE
    BY <1>3, <1>5, <2>4
  <2> QED BY <2>1, <2>2, <2>3, <2>4
<1>6. ASSUME NEW n \in M \cup N PROVE \E i \in 1 .. Len(u) : u[i].id = n
  <2>1. CASE n \in M
    <3>1. PICK i \in 1 .. Len(s) : s[i].id = n
      BY <2>1 DEF Lists
    <3>2. i \in 1 .. Len(u) /\ u[i] = s[i]
      BY <1>1, <1>2
    <3> QED BY <3>1, <3>2
  <2>2. CASE n \in N
    <3>1. PICK i \in 1 .. Len(t) : t[i].id = n
      BY <2>2 DEF Lists
    <3>2. Len(s) + i \in 1 .. Len(u) /\ ~(Len(s) + i <= Len(s)) /\ (Len(s) + i) - Len(s) = i
      BY <1>1, <1>2
    <3>3. u[Len(s) + i] = t[i]
      BY <1>2, <3>2
    <3> QED BY <3>1, <3>2, <3>3
  <2> QED BY <2>1, <2>2
<1> QED BY <1>2, <1>4, <1>5, <1>6 DEF Lists

\* Counting the rows again leads to them.
LEMMA IndexedLeads == ASSUME NEW s PROVE Leads(Indexed(s), s)
<1>1. ASSUME NEW n \in Ids(s) PROVE Indexed(s)[n] \in DOMAIN s /\ s[Indexed(s)[n]].id = n
  <2>1. Indexed(s)[n] = CHOOSE i \in DOMAIN s : s[i].id = n
    BY DEF Indexed
  <2>2. \E i \in DOMAIN s : s[i].id = n
    BY DEF Ids
  <2> QED BY <2>1, <2>2
<1>2. DOMAIN Indexed(s) = Ids(s)
  BY DEF Indexed
<1> QED BY <1>1, <1>2 DEF Leads

\* After a scan has been applied the list is what was found.
LEMMA ApplyLists == ASSUME IInv, ApplyUpdates PROVE Lists(rows', Found)
<1>1. PICK s, t : s = Erase(Swapped, {index[n] : n \in Gone}) /\ t = Added
  OBVIOUS
<1>2. Lists(s, DOMAIN index \cap Found) /\ Lists(t, NewNames)
  BY <1>1, RowsLeft, RowsAdded
<1>3. (DOMAIN index \cap Found) \cap NewNames = {} /\ (DOMAIN index \cap Found) \cup NewNames = Found
  BY DEF NewNames
<1>4. rows' = s \o t
  BY <1>1 DEF ApplyUpdates
<1>5. Lists(s \o t, (DOMAIN index \cap Found) \cup NewNames)
  BY <1>2, <1>3, Joined
<1> QED BY <1>3, <1>4, <1>5

LEMMA ApplyKeeps == ASSUME IInv, ApplyUpdates PROVE Scanned' /\ List' /\ Tasks'
<1>1. Lists(rows', Found) /\ index' = Indexed(rows')
  BY ApplyLists DEF ApplyUpdates
<1>2. rows' \in Seq(Row) /\ DOMAIN rows' = 1 .. Len(rows')
  BY <1>1, LenProperties DEF Lists
<1>3. OneRowEach(rows')
  <2>1. ASSUME NEW i \in DOMAIN rows', NEW j \in DOMAIN rows', rows'[i].id[1] = rows'[j].id[1]
        PROVE  i = j
    <3>1. PICK n, k : n = rows'[i].id /\ k = rows'[j].id
      OBVIOUS
    <3>2. n \in Found /\ k \in Found /\ n[1] = k[1]
      BY <1>1, <1>2, <2>1, <3>1 DEF Lists
    <3>3. n = k
      BY <3>2, NameParts DEF Found, IInv, Scanned, SingleNamed
    <3>4. \A a, b \in 1 .. Len(rows') : rows'[a].id = rows'[b].id => a = b
      BY <1>1 DEF Lists
    <3>5. rows'[i].id = rows'[j].id
      BY <3>1, <3>3
    <3> QED BY <1>2, <3>4, <3>5
  <2> QED BY <2>1 DEF OneRowEach
<1>4. Leads(index', rows')
  BY <1>1, IndexedLeads
<1>5. Scanned'
  BY DEF IInv, Scanned, ApplyUpdates
<1>6. parses' \in Seq(Task)
  <2> DEFINE p == [k \in DOMAIN parses |-> Aborted(parses[k])]
             q == IF launched THEN <<>> ELSE [k \in DOMAIN Ordered |-> Parse(Fresh(Ordered[k]))]
  <2>1. p \in Seq(Task)
    <3>1. ASSUME NEW k \in DOMAIN parses PROVE Aborted(parses[k]) \in Task
      <4>1. parses[k] \in Task
        BY Members
      <4> DEFINE b == parses[k].ticket \in {rows[index[n]].ticket : n \in Changed \cup Gone} \ {0}
      <4>2. Aborted(parses[k]) = [parses[k] EXCEPT !.aborted = parses[k].aborted \/ b]
        BY DEF Aborted
      <4>3. (parses[k].aborted \/ b) \in BOOLEAN
        BY <4>1 DEF Task
      <4>4. PICK x \in BOOLEAN : x = (parses[k].aborted \/ b)
        BY <4>3
      <4>5. Aborted(parses[k]) = [parses[k] EXCEPT !.aborted = x]
        BY <4>2, <4>4
      <4> HIDE DEF b
      <4>6. /\ parses[k].id \in Name /\ parses[k].details \in Nat
            /\ "none" \in {"none", "aborted", "failed", "succeeded"}
        BY Members
      <4> QED BY <4>1, <4>5, <4>6, TaskParts
    <3>2. p \in [1 .. Len(parses) -> Task] /\ Len(parses) \in Nat
      BY <3>1, Members
    <3> QED BY <3>2
  <2>2. q \in Seq(Task)
    <3>1. Ordered \in Seq(Name) /\ \A k \in 1 .. Len(Ordered) : Ordered[k] \in Changed \cup NewNames
      BY OrderedIsNew
    <3>2. Len(Ordered) \in Nat /\ DOMAIN Ordered = 1 .. Len(Ordered)
      BY <3>1, LenProperties
    <3>3. ASSUME NEW k \in 1 .. Len(Ordered) PROVE Parse(Fresh(Ordered[k])) \in Task
      <4>1. PICK r : r = Fresh(Ordered[k])
        OBVIOUS
      <4>2. r \in Row
        BY <3>1, <4>1, FreshRow
      <4>3. Parse(r) \in Task
        BY <4>2 DEF Parse, Task, Row
      <4> QED BY <4>1, <4>3
    <3>4. [k \in DOMAIN Ordered |-> Parse(Fresh(Ordered[k]))] \in [1 .. Len(Ordered) -> Task]
      BY <3>2, <3>3
    <3>5. [k \in DOMAIN Ordered |-> Parse(Fresh(Ordered[k]))] \in Seq(Task)
      BY <3>2, <3>4
    <3> QED BY <3>5, EmptyList
  <2>3. parses' = p \o q
    BY DEF ApplyUpdates
  <2> HIDE DEF p, q
  <2> QED BY <2>1, <2>2, <2>3, ConcatProperties
<1> QED BY <1>2, <1>3, <1>4, <1>5, <1>6 DEF List, Tasks

\* A parse task that reads the file stays a task.
LEMMA ParseFileKeeps == ASSUME IInv, ParseFile PROVE Tasks'
<1>1. PICK k \in DOMAIN parses : parses' = [parses EXCEPT ![k] = Outcome(parses[k])]
  BY DEF ParseFile
<1>2. parses[k] \in Task /\ k \in 1 .. Len(parses) /\ parses \in Seq(Task)
  BY Members DEF IInv, Tasks
<1>3. Outcome(parses[k]) \in Task
  <2>1. PICK p : p = parses[k]
    OBVIOUS
  <2>2. p \in Task /\ p.id \in Name /\ p.path \in Name
    BY <2>1, Members
  <2>3. PICK d : d = disk[IF mods THEN p.path ELSE p.id]
    OBVIOUS
  <2>4. PICK o : o = CASE ~mods /\ (d = 0 \/ d \in Broken) -> "failed"
                       [] mods /\ p.aborted -> "aborted"
                       [] OTHER -> "succeeded"
    OBVIOUS
  <2>5. o \in {"none", "aborted", "failed", "succeeded"}
    BY <2>4
  <2>6. d \in Nat
    BY <2>2, <2>3 DEF IInv, Folder
  <2>7. Outcome(p) = [p EXCEPT !.details = d, !.outcome = o]
    BY <2>3, <2>4 DEF Outcome
  <2>8. FALSE \in BOOLEAN
    OBVIOUS
  <2>9. [p EXCEPT !.details = d, !.outcome = o] \in Task
    BY <2>2, <2>5, <2>6, <2>8, TaskParts
  <2> QED BY <2>1, <2>7, <2>9
<1> QED BY <1>1, <1>2, <1>3, ExceptSeq DEF Tasks

\* A row that is given details keeps its name.
LEMMA GiveDetailsKeeps ==
  ASSUME IInv, NEW p \in Task, p.id \in DOMAIN index, GiveDetails(p)
  PROVE  List'
<1>1. PICK i : i = index[p.id]
  OBVIOUS
<1>2. i \in 1 .. Len(rows) /\ rows[i] \in Row /\ rows \in Seq(Row) /\ DOMAIN rows = 1 .. Len(rows)
  BY <1>1, Members DEF IInv, List, Leads
<1>3. PICK r : r = [rows[i] EXCEPT !.details = p.details]
  OBVIOUS
<1>4. r \in Row /\ r.id = rows[i].id
  <2>1. p.details \in Nat /\ rows[i].id \in Name /\ FALSE \in BOOLEAN
    BY <1>2 DEF Task, Row
  <2> QED BY <1>2, <1>3, <2>1, RowParts
<1>5. rows' = [rows EXCEPT ![i] = r] /\ index' = index
  BY <1>1, <1>3 DEF GiveDetails
<1>6. /\ rows' \in Seq(Row) /\ Len(rows') = Len(rows) /\ DOMAIN rows' = DOMAIN rows
      /\ \A j \in DOMAIN rows : rows'[j] = IF j = i THEN r ELSE rows[j]
  BY <1>2, <1>4, <1>5, ExceptSeq, LenProperties
<1>7. \A j \in DOMAIN rows : rows'[j].id = rows[j].id
  BY <1>4, <1>6
<1>8. OneRowEach(rows')
  BY <1>6, <1>7 DEF IInv, List, OneRowEach
<1>9. Leads(index', rows')
  <2>1. Ids(rows') = Ids(rows)
    BY <1>6, <1>7 DEF Ids
  <2> QED BY <1>5, <1>6, <1>7, <2>1 DEF IInv, List, Leads
<1> QED BY <1>6, <1>8, <1>9 DEF List

\* Without one of its rows the list is right when the index is made again.
LEMMA RemoveFailedKeeps ==
  ASSUME IInv, NEW p, p.id \in DOMAIN index, RemoveFailed(p)
  PROVE  List'
<1>1. PICK i : i = index[p.id]
  OBVIOUS
<1>2. i \in 1 .. Len(rows) /\ rows \in Seq(Row) /\ DOMAIN rows = 1 .. Len(rows) /\ Len(rows) \in Nat
  BY <1>1, Members DEF IInv, List, Leads
<1>3. rows' = RemoveAt(rows, i) /\ index' = Indexed(rows')
  BY <1>1 DEF RemoveFailed
<1>4. /\ rows' \in Seq(Row) /\ Len(rows') = Len(rows) - 1
      /\ \A a \in 1 .. Len(rows) - 1 : rows'[a] = IF a < i THEN rows[a] ELSE rows[a + 1]
  BY <1>2, <1>3, Removed
<1>5. DOMAIN rows' = 1 .. Len(rows) - 1
  BY <1>4, LenProperties
<1>6. OneRowEach(rows')
  <2>1. ASSUME NEW a \in DOMAIN rows', NEW b \in DOMAIN rows', rows'[a].id[1] = rows'[b].id[1]
        PROVE  a = b
    <3>1. PICK j, k : j = (IF a < i THEN a ELSE a + 1) /\ k = (IF b < i THEN b ELSE b + 1)
      OBVIOUS
    <3>2. j \in DOMAIN rows /\ k \in DOMAIN rows /\ rows'[a] = rows[j] /\ rows'[b] = rows[k]
      BY <1>2, <1>4, <1>5, <3>1
    <3>3. j = k
      BY <2>1, <3>2 DEF IInv, List, OneRowEach
    <3> QED BY <1>2, <1>5, <3>1, <3>3
  <2> QED BY <2>1 DEF OneRowEach
<1> QED BY <1>3, <1>4, <1>6, IndexedLeads DEF List

LEMMA ParseFinishedKeeps == ASSUME IInv, ParseFinished PROVE List' /\ Tasks' /\ misfired' \in BOOLEAN
<1>1. PICK p : p = Head(parses)
  OBVIOUS
<1>2. parses # <<>> /\ parses' = Tail(parses) /\ parses \in Seq(Task)
  BY DEF ParseFinished, IInv, Tasks
<1>3. p \in Task /\ parses' \in Seq(Task)
  BY <1>1, <1>2, HeadTailProperties
<1>4. \/ p.id \in DOMAIN index /\ GiveDetails(p)
      \/ p.id \in DOMAIN index /\ RemoveFailed(p)
      \/ UNCHANGED <<rows, index, misfired>>
  BY <1>1 DEF ParseFinished
<1>5. CASE p.id \in DOMAIN index /\ GiveDetails(p)
  BY <1>3, <1>5, GiveDetailsKeeps DEF GiveDetails, Tasks, IInv, Flags
<1>6. CASE p.id \in DOMAIN index /\ RemoveFailed(p)
  <2>1. List'
    BY <1>6, RemoveFailedKeeps
  <2>2. misfired' \in BOOLEAN
    BY <1>6 DEF RemoveFailed, IInv, Flags
  <2> QED BY <1>3, <2>1, <2>2 DEF Tasks
<1>7. CASE UNCHANGED <<rows, index, misfired>>
  BY <1>3, <1>7 DEF IInv, List, Tasks, Flags
<1> QED BY <1>4, <1>5, <1>6, <1>7
-----------------------------------------------------------------------------
LEMMA Invariance == IInv /\ [Next]_vars => IInv'
<1> SUFFICES ASSUME IInv, [Next]_vars PROVE IInv'
  OBVIOUS
<1> USE DEF IInv
<1>1. ASSUME NEW n \in Name, ExternalChange(n) PROVE IInv'
  <2>1. Folder'
    BY <1>1, WriteKeeps, DeleteKeeps DEF ExternalChange, Delete
  <2>2. Flags'
    BY <1>1, ChangeCounts DEF ExternalChange, Flags, table
  <2> QED BY <1>1, <2>1, <2>2 DEF ExternalChange, scan, table, Scanned, List, Tasks
<1>2. ASSUME NEW f \in File, Install(f) PROVE IInv'
  <2>1. <<f, TRUE>> \in Name
    BY DEF Name
  <2>2. Folder'
    BY <1>2, <2>1, WriteKeeps DEF Install
  <2>3. Flags'
    BY <1>2, ChangeCounts DEF Install, Flags, table
  <2>4. Scanned'
    BY <1>2, UpdateKeeps DEF Install, scan, Scanned
  <2> QED BY <1>2, <2>2, <2>3, <2>4 DEF Install, table, List, Tasks
<1>3. ASSUME NEW i \in DOMAIN rows, Uninstall(i) PROVE IInv'
  <2>1. rows[i].id \in Name
    BY Members
  <2>2. Folder'
    BY <1>3, <2>1, DeleteKeeps DEF Uninstall
  <2>3. Flags'
    <3>1. (notify \/ (watching /\ disk' # disk)) \in BOOLEAN
      OBVIOUS
    <3> QED BY <1>3, <3>1, ChangeCounts DEF Uninstall, Flags, table
  <2>4. Scanned'
    BY <1>3, UpdateKeeps DEF Uninstall
  <2> QED BY <1>3, <2>2, <2>3, <2>4 DEF Uninstall, table, List, Tasks
<1>4. ASSUME NEW i \in DOMAIN rows, Toggle(i) PROVE IInv'
  <2>1. Folder' /\ List' /\ Tasks'
    BY <1>4, ToggleKeeps
  <2>2. Flags'
    BY <1>4, ChangeCounts DEF Toggle, Flags
  <2> QED BY <1>4, <2>1, <2>2 DEF Toggle, scan, Scanned
<1>5. CASE StartWatching
  <2>1. Flags'
    BY <1>5, ChangeCounts DEF StartWatching, Flags, table
  <2>2. Scanned'
    BY <1>5, UpdateKeeps DEF StartWatching
  <2> QED BY <1>5, <2>1, <2>2 DEF StartWatching, table, Folder, List, Tasks
<1>6. CASE StopWatching
  <2>1. Flags'
    BY <1>6, ChangeCounts DEF StopWatching, Flags, table
  <2> QED BY <1>6, <2>1 DEF StopWatching, table, scan, Folder, Scanned, List, Tasks
<1>7. CASE LaunchInstance
  BY <1>7 DEF LaunchInstance, Flags, table, scan, Folder, Scanned, List, Tasks
<1>8. CASE DirectoryChanged
  <2>1. Scanned'
    BY <1>8, UpdateKeeps DEF DirectoryChanged
  <2> QED BY <1>8, <2>1 DEF DirectoryChanged, table, Flags, Folder, List, Tasks
<1>9. CASE Scan
  <2>1. Scanned'
    BY <1>9 DEF Scan, Scanned, Folder
  <2> QED BY <1>9, <2>1 DEF Scan, table, Flags, Folder, List, Tasks
<1>10. CASE ApplyUpdates
  <2>1. Scanned' /\ List' /\ Tasks'
    BY <1>10, ApplyKeeps
  <2> QED BY <1>10, <2>1 DEF ApplyUpdates, Flags, Folder
<1>11. CASE UpdateFinished
  <2>1. Scanned'
    BY <1>11, NameParts DEF UpdateFinished, Scanned, Nothing, SingleNamed
  <2> QED BY <1>11, <2>1 DEF UpdateFinished, table, Flags, Folder, List, Tasks
<1>12. CASE ParseFile
  <2>1. Tasks'
    BY <1>12, ParseFileKeeps
  <2> QED BY <1>12, <2>1 DEF ParseFile, scan, Flags, Folder, Scanned, List
<1>13. CASE ParseFinished
  <2>1. List' /\ Tasks' /\ misfired' \in BOOLEAN
    BY <1>13, ParseFinishedKeeps
  <2> QED BY <1>13, <2>1 DEF ParseFinished, scan, Flags, Folder, Scanned
<1>14. CASE UNCHANGED vars
  BY <1>14 DEF vars, scan, table, Flags, Folder, Scanned, List, Tasks
<1> QED BY <1>1, <1>2, <1>3, <1>4, <1>5, <1>6, <1>7, <1>8, <1>9, <1>10, <1>11, <1>12, <1>13, <1>14
        DEF Next

LEMMA Invariant == Spec => []IInv
<1>1. Init => IInv
  BY Initially
<1>2. IInv /\ [Next]_vars => IInv'
  BY Invariance
<1> QED BY <1>1, <1>2, PTL DEF Spec

\* Every variable keeps its type; in particular the watcher, the update task and
\* the parse tasks have nothing but the states that the code knows.
THEOREM TypeCorrect == Spec => []TypeOK
<1>1. IInv => TypeOK
  <2> SUFFICES ASSUME IInv PROVE TypeOK
    OBVIOUS
  <2>1. DOMAIN index \subseteq Name
    BY Members
  <2> QED BY <2>1 DEF IInv, Flags, Folder, Scanned, List, TypeOK, Row
<1> QED BY <1>1, Invariant, PTL

\* The index of the list leads from every name to its row, and every row is
\* under a name of its own: renames, scans of an older state of the folder and
\* failed parse tasks may come in any order.
THEOREM IndexRight == Spec => []IndexMatchesRows
<1>1. IInv => IndexMatchesRows
  <2> SUFFICES ASSUME IInv PROVE IndexMatchesRows
    OBVIOUS
  <2>1. Leads(index, rows) /\ OneRowEach(rows)
    BY DEF IInv, List
  <2> DEFINE n == Len(rows)
             f == [i \in 1 .. n |-> rows[i].id]
  <2>2. n \in Nat /\ DOMAIN rows = 1 .. n
    BY Members
  <2>3. f \in [1 .. n -> Ids(rows)] /\ \A i \in 1 .. n : f[i] = rows[i].id
    BY <2>2 DEF Ids
  <2> HIDE DEF f
  <2>4. \A i, j \in 1 .. n : f[i] = f[j] => i = j
    BY <2>1, <2>2, <2>3 DEF OneRowEach
  <2>5. \A x \in Ids(rows) : \E i \in 1 .. n : f[i] = x
    BY <2>2, <2>3 DEF Ids
  <2>6. f \in Injection(1 .. n, Ids(rows)) /\ f \in Surjection(1 .. n, Ids(rows))
    <3>1. DOMAIN f = 1 .. n
      BY <2>3
    <3>2. IsInjective(f)
      BY <2>4, <3>1 DEF IsInjective
    <3>3. f \in Injection(1 .. n, Ids(rows))
      BY <2>3, <3>2 DEF Injection
    <3>4. f \in Surjection(1 .. n, Ids(rows))
      BY <2>3, <2>5 DEF Surjection
    <3> QED BY <3>3, <3>4
  <2>7. IsFiniteSet(1 .. n) /\ Cardinality(1 .. n) = n
    <3> HIDE DEF n
    <3>1. 1 \in Int /\ n \in Int /\ (IF 1 > n THEN 0 ELSE n - 1 + 1) = n
      BY <2>2
    <3> QED BY <3>1, FS_Interval
  <2>8. Cardinality(Ids(rows)) = n
    BY <2>6, <2>7, FS_Surjection
  <2> QED BY <2>1, <2>8 DEF IndexMatchesRows, Leads
<1> QED BY <1>1, Invariant, PTL

\* When a scan is applied, the list becomes what the scan has found, whatever
\* the rows, the index and the parse tasks have become since it started.
THEOREM ScanRight == Spec => ScanApplied
<1> DEFINE A == update = "scanned" /\ update' = "applied" =>
                  Listing(rows') = {<<n, found[n]>> : n \in Found}
<1>1. IInv /\ [Next]_vars => [A]_vars
  <2> SUFFICES ASSUME IInv, [Next]_vars, update = "scanned", update' = "applied"
               PROVE  Listing(rows') = {<<n, found[n]>> : n \in Found}
    BY DEF vars
  <2>1. ApplyUpdates
    BY DEF Next, vars, scan, table, ExternalChange, Install, Uninstall, Toggle, StartWatching,
           StopWatching, LaunchInstance, DirectoryChanged, Update, Remembered, Scan, UpdateFinished,
           ParseFile, ParseFinished
  <2>2. Lists(rows', Found)
    BY <2>1, ApplyLists
  <2>3. DOMAIN rows' = 1 .. Len(rows')
    BY <2>2, LenProperties DEF Lists
  <2>4. ASSUME NEW i \in DOMAIN rows'
        PROVE  <<rows'[i].id, rows'[i].stamp>> \in {<<n, found[n]>> : n \in Found}
    BY <2>2, <2>3 DEF Lists
  <2>5. ASSUME NEW n \in Found PROVE <<n, found[n]>> \in Listing(rows')
    <3>1. PICK i \in DOMAIN rows' : rows'[i].id = n
      BY <2>2, <2>3 DEF Lists
    <3>2. rows'[i].stamp = found[n]
      BY <2>2, <2>3, <3>1 DEF Lists
    <3> QED BY <3>1, <3>2 DEF Listing
  <2> QED BY <2>4, <2>5 DEF Listing
<1> QED BY <1>1, Invariant, PTL DEF Spec, ScanApplied
=============================================================================
