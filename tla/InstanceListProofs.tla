------------------------- MODULE InstanceListProofs -------------------------
(***************************************************************************)
(* Proofs about InstanceList, for any finite set of instances, any groups, *)
(* folders and bounds: the list shows what is on disk or will be loaded    *)
(* again, the groups are counted and kept in the file, and an instance     *)
(* leaves its group only when the user says so.                            *)
(*                                                                         *)
(* The rows of the dead instances are removed by a walk over the list from *)
(* its end.  What the walk leaves is proved by induction, in the form of a *)
(* set of numbers that contains 0 and the successors of its elements.      *)
(***************************************************************************)
EXTENDS InstanceList, FiniteSetTheorems, SequenceTheorems, WellFoundedInduction, TLAPS

\* A set of numbers that is not empty has a least element.
LEMMA LeastNat ==
  ASSUME NEW T, T \subseteq Nat, T # {}
  PROVE  \E m \in T : \A n \in T : m <= n
<1>1. PICK m \in T : \A n \in T : ~ (<<n, m>> \in OpToRel(<, Nat))
  BY NatLessThanWellFounded, WFMin
<1>2. \A n \in T : ~ (n < m)
  BY <1>1 DEF OpToRel
<1> QED BY <1>2

\* A set that contains 0 and the successors of its numbers contains them all.
LEMMA NatSet ==
  ASSUME NEW T, 0 \in T, \A n \in Nat : n \in T => n + 1 \in T
  PROVE  Nat \subseteq T
<1> DEFINE B == Nat \ T
<1>1. CASE B # {}
  <2>1. PICK m \in B : \A n \in B : m <= n
    BY <1>1, LeastNat
  <2>2. m # 0 /\ m - 1 \in Nat /\ m - 1 \notin B
    BY <2>1
  <2> QED BY <2>1, <2>2
<1> QED BY <1>1
-----------------------------------------------------------------------------
\* m leads from the places of t to those of s in K, all of them and in order,
\* where the same elements are: t is what is left of s when only K is kept.
Embeds(m, t, s, K) ==
  /\ m \in [1 .. Len(t) -> K]
  /\ \A a, b \in 1 .. Len(t) : a < b => m[a] < m[b]
  /\ \A j \in K : \E a \in 1 .. Len(t) : m[a] = j
  /\ \A a \in 1 .. Len(t) : t[a] = s[m[a]]

\* u is t without n elements from the i-th on.
Gap(u, t, i, n) ==
  /\ Len(u) = Len(t) - n
  /\ \A a \in 1 .. Len(t) - n : u[a] = IF a < i THEN t[a] ELSE t[a + n]
LEMMA Shortened ==
  ASSUME NEW D, NEW t \in Seq(D), NEW i \in 1 .. Len(t), NEW j \in i .. Len(t), NEW n, n = j + 1 - i,
         NEW w, w = Cut(t, i, j)
  PROVE  w \in Seq(D) /\ Gap(w, t, i, n)
<1> DEFINE u == SubSeq(t, 1, i - 1)
           v == SubSeq(t, j + 1, Len(t))
<1>1. Len(t) \in Nat /\ i \in Int /\ j \in Int /\ i <= j /\ j <= Len(t) /\ 1 <= i
  BY LenProperties
<1>2. \A a \in 1 .. Len(t) : t[a] \in D
  BY ElementOfSeq
<1>3. /\ u \in Seq(D) /\ Len(u) = i - 1
      /\ \A a \in 1 .. i - 1 : u[a] = t[a]
  BY <1>1, <1>2, SubSeqProperties
<1>4. /\ v \in Seq(D) /\ Len(v) = Len(t) - j
      /\ \A a \in 1 .. Len(t) - j : v[a] = t[a + j]
  BY <1>1, <1>2, SubSeqProperties
<1> HIDE DEF u, v
<1>5. /\ u \o v \in Seq(D) /\ Len(u \o v) = Len(t) - n
      /\ \A a \in 1 .. Len(t) - n : (u \o v)[a] = IF a <= i - 1 THEN u[a] ELSE v[a - (i - 1)]
  <2>1. /\ u \o v \in Seq(D) /\ Len(u \o v) = Len(u) + Len(v)
        /\ \A a \in 1 .. Len(u) + Len(v) :
             (u \o v)[a] = IF a <= Len(u) THEN u[a] ELSE v[a - Len(u)]
    BY <1>3, <1>4, ConcatProperties
  <2>2. Len(u) + Len(v) = Len(t) - n
    BY <1>1, <1>3, <1>4
  <2> QED BY <1>3, <2>1, <2>2
<1>6. Cut(t, i, j) = u \o v
  BY DEF Cut, u, v
<1>7. ASSUME NEW a \in 1 .. Len(t) - n
      PROVE  Cut(t, i, j)[a] = IF a < i THEN t[a] ELSE t[a + n]
  <2>1. CASE a < i
    BY <1>1, <1>3, <1>5, <1>6, <2>1
  <2>2. CASE ~(a < i)
    <3>1. a - (i - 1) \in 1 .. Len(t) - j /\ a - (i - 1) + j = a + n
      BY <1>1, <2>2
    <3>2. v[a - (i - 1)] = t[a + n]
      BY <1>4, <3>1
    <3>3. ~(a <= i - 1)
      BY <1>1, <2>2
    <3>4. Cut(t, i, j)[a] = v[a - (i - 1)]
      BY <1>5, <1>6, <3>3
    <3> QED BY <2>2, <3>2, <3>4
  <2> QED BY <2>1, <2>2
<1> QED BY <1>5, <1>6, <1>7 DEF Gap

\* The first q rows have not moved.
Unmoved(m, q) == \A a \in 1 .. q : m[a] = a
\* A range less, of rows that have not moved.
LEMMA RangeRemoved ==
  ASSUME NEW D, NEW s, NEW t \in Seq(D), NEW K, K \subseteq Nat,
         NEW i \in 1 .. Len(t), NEW j \in i .. Len(t),
         NEW m, Embeds(m, t, s, K), Unmoved(m, j), NEW u, u = Cut(t, i, j), NEW L, L = K \ (i .. j)
  PROVE  \E w : Embeds(w, u, s, L) /\ Unmoved(w, i - 1)
<1> DEFINE n == j + 1 - i
           w == [a \in 1 .. Len(t) - n |-> IF a < i THEN m[a] ELSE m[a + n]]
<1>1. /\ Len(t) \in Nat /\ i \in Nat /\ j \in Nat /\ i <= j /\ j <= Len(t) /\ 1 <= i
      /\ n \in Nat /\ n >= 1 /\ i + n = j + 1
  BY LenProperties
<1>0. /\ m \in [1 .. Len(t) -> K]
      /\ \A a, b \in 1 .. Len(t) : a < b => m[a] < m[b]
      /\ \A x \in K : \E a \in 1 .. Len(t) : m[a] = x
      /\ \A a \in 1 .. Len(t) : t[a] = s[m[a]]
      /\ \A a \in 1 .. j : m[a] = a
  BY DEF Embeds, Unmoved
<1>2. /\ Len(u) = Len(t) - n
      /\ \A a \in 1 .. Len(t) - n : u[a] = IF a < i THEN t[a] ELSE t[a + n]
  <2> HIDE DEF w, n
  <2>1. PICK c : c = n
    OBVIOUS
  <2>2. c = j + 1 - i
    BY <2>1 DEF n
  <2>3. u \in Seq(D) /\ Gap(u, t, i, c)
    BY <2>2, Shortened
  <2> QED BY <2>1, <2>3 DEF Gap
<1> HIDE DEF n
<1>3. ASSUME NEW a \in 1 .. Len(t) PROVE m[a] \in i .. j <=> a \in i .. j
  <2>1. CASE a \in 1 .. j
    BY <1>0, <2>1
  <2>2. CASE a > j
    <3>0. j \in 1 .. Len(t) /\ j \in 1 .. j /\ j < a
      BY <1>1, <2>2
    <3>1. m[j] = j /\ m[j] < m[a] /\ m[a] \in Nat
      BY <1>0, <3>0
    <3> QED BY <1>1, <2>2, <3>1
  <2> QED BY <1>1, <2>1, <2>2
<1>4. w \in [1 .. Len(u) -> L]
  <2>1. ASSUME NEW a \in 1 .. Len(u) PROVE w[a] \in L
    <3>1. CASE a < i
      BY <1>0, <1>1, <1>2, <1>3, <3>1
    <3>2. CASE ~(a < i)
      <4>1. a + n \in 1 .. Len(t) /\ a + n \notin i .. j
        BY <1>1, <1>2, <3>2
      <4> QED BY <1>0, <1>2, <1>3, <3>2, <4>1
    <3> QED BY <3>1, <3>2
  <2> QED BY <1>2, <2>1
<1>5. ASSUME NEW a \in 1 .. Len(u), NEW b \in 1 .. Len(u), a < b PROVE w[a] < w[b]
  <2>1. /\ w[a] = IF a < i THEN m[a] ELSE m[a + n]
        /\ w[b] = IF b < i THEN m[b] ELSE m[b + n]
    BY <1>2
  <2>2. CASE b < i
    BY <1>0, <1>1, <1>2, <1>5, <2>1, <2>2
  <2>3. CASE a < i /\ ~(b < i)
    <3>1. a \in 1 .. Len(t) /\ b + n \in 1 .. Len(t) /\ a < b + n
      BY <1>1, <1>2, <2>3
    <3> QED BY <1>0, <2>1, <2>3, <3>1
  <2>4. CASE ~(a < i)
    <3>1. a + n \in 1 .. Len(t) /\ b + n \in 1 .. Len(t) /\ a + n < b + n /\ ~(b < i)
      BY <1>1, <1>2, <1>5, <2>4
    <3> QED BY <1>0, <2>1, <2>4, <3>1
  <2> QED BY <1>1, <1>5, <2>2, <2>3, <2>4
<1>6. ASSUME NEW x \in L PROVE \E a \in 1 .. Len(u) : w[a] = x
  <2>1. PICK a \in 1 .. Len(t) : m[a] = x
    BY <1>0
  <2>2. a \notin i .. j
    BY <1>3, <2>1
  <2>3. CASE a < i
    BY <1>1, <1>2, <2>1, <2>3
  <2>4. CASE a > j
    <3>1. a - n \in 1 .. Len(u) /\ ~(a - n < i) /\ a - n + n = a
      BY <1>1, <1>2, <2>4
    <3>2. w[a - n] = x
      BY <1>2, <2>1, <3>1
    <3> QED BY <3>1, <3>2
  <2>5. a < i \/ a > j
    BY <1>1, <2>2
  <2> QED BY <2>3, <2>4, <2>5
<1>7. \A a \in 1 .. Len(u) : u[a] = s[w[a]]
  BY <1>0, <1>1, <1>2
<1>8. Unmoved(w, i - 1)
  BY <1>0, <1>1 DEF Unmoved
<1> HIDE DEF w
<1> QED BY <1>4, <1>5, <1>6, <1>7, <1>8 DEF Embeds

\* The places that are kept when the dead rows after the q-th are removed.
Kept(n, S, q) == {j \in 1 .. n : j <= q \/ j \notin S}
\* The rows f .. b of t are dead and yet to be removed, and the next above q; up to
\* b no row has moved.
Hanging(t, b, f, s, S, q) ==
  /\ f \in q + 1 .. b /\ b <= Len(t) /\ f .. b \subseteq S
  /\ \A j \in q + 1 .. f - 1 : j \notin S
  /\ \E m : Embeds(m, t, s, Kept(Len(s), S, b)) /\ Unmoved(m, b)
\* The walk when the first q rows are yet to be looked at.
Met(a, s, S, q, D) ==
  /\ a = [s |-> a.s, back |-> a.back, front |-> a.front] /\ a.s \in Seq(D) /\ a.back \in Nat
  /\ IF a.back = 0 THEN a.s = s /\ \A j \in q + 1 .. Len(s) : j \notin S
                   ELSE Hanging(a.s, a.back, a.front, s, S, q)

\* A sequence is all that is left of itself.
LEMMA Itself ==
  ASSUME NEW D, NEW s \in Seq(D)
  PROVE  \E m : Embeds(m, s, s, 1 .. Len(s)) /\ Unmoved(m, Len(s))
<1> DEFINE m == [a \in 1 .. Len(s) |-> a]
<1>1. Len(s) \in Nat
  BY LenProperties
<1>2. /\ m \in [1 .. Len(s) -> 1 .. Len(s)]
      /\ \A a, b \in 1 .. Len(s) : a < b => m[a] < m[b]
      /\ \A j \in 1 .. Len(s) : \E a \in 1 .. Len(s) : m[a] = j
      /\ \A a \in 1 .. Len(s) : s[a] = s[m[a]]
      /\ \A a \in 1 .. Len(s) : m[a] = a
  OBVIOUS
<1> HIDE DEF m
<1> QED BY <1>2 DEF Embeds, Unmoved

\* What is left when the range that was met is removed.
LEMMA RangeGone ==
  ASSUME NEW D, NEW s \in Seq(D), NEW S, NEW q \in Nat, NEW a, Met(a, s, S, q, D), a.back # 0,
         NEW u, u = Cut(a.s, a.front, a.back)
  PROVE  /\ u \in Seq(D) /\ q <= Len(u)
         /\ \E w : Embeds(w, u, s, Kept(Len(s), S, q)) /\ Unmoved(w, q)
<1>1. PICK t, i, j : t = a.s /\ i = a.front /\ j = a.back
  OBVIOUS
<1>2. /\ t \in Seq(D) /\ Len(t) \in Nat /\ j \in Nat /\ i \in q + 1 .. j /\ j <= Len(t)
      /\ i .. j \subseteq S /\ \A x \in q + 1 .. i - 1 : x \notin S
      /\ \E m : Embeds(m, t, s, Kept(Len(s), S, j)) /\ Unmoved(m, j)
  BY <1>1, LenProperties DEF Met, Hanging
<1>3. PICK m : Embeds(m, t, s, Kept(Len(s), S, j)) /\ Unmoved(m, j)
  BY <1>2
<1>4. i \in 1 .. Len(t) /\ j \in i .. Len(t) /\ u = Cut(t, i, j)
  BY <1>1, <1>2
<1>5. u \in Seq(D) /\ Len(u) = Len(t) - (j + 1 - i)
  <2>1. PICK n : n = j + 1 - i
    OBVIOUS
  <2>2. t \in Seq(D)
    BY <1>2
  <2>3. u \in Seq(D) /\ Gap(u, t, i, n)
    BY <1>4, <2>1, <2>2, Shortened
  <2> QED BY <2>1, <2>3 DEF Gap
<1>6. PICK K, L : K = Kept(Len(s), S, j) /\ L = Kept(Len(s), S, q)
  OBVIOUS
<1>7. K \subseteq Nat /\ L = K \ (i .. j)
  <2>1. Len(s) \in Nat
    BY LenProperties
  <2>2. ASSUME NEW x \in 1 .. Len(s), x \notin i .. j PROVE x <= j \/ x \notin S <=> x <= q \/ x \notin S
    BY <1>2, <2>1, <2>2
  <2>3. ASSUME NEW x \in i .. j PROVE ~(x <= q \/ x \notin S)
    BY <1>2, <2>3
  <2> QED BY <1>6, <2>1, <2>2, <2>3 DEF Kept
<1>8. \E w : Embeds(w, u, s, L) /\ Unmoved(w, i - 1)
  <2>1. Embeds(m, t, s, K) /\ Unmoved(m, j)
    BY <1>3, <1>6
  <2> QED BY <1>2, <1>4, <1>7, <2>1, RangeRemoved, Zenon
<1>9. q <= Len(u) /\ \A w : Unmoved(w, i - 1) => Unmoved(w, q)
  BY <1>2, <1>5 DEF Unmoved
<1> QED BY <1>5, <1>6, <1>8, <1>9

LEMMA FirstLook ==
  ASSUME NEW D, NEW s \in Seq(D), NEW S
  PROVE  Met([s |-> s, back |-> 0, front |-> 0], s, S, Len(s), D)
<1>1. Len(s) \in Nat
  BY LenProperties
<1> QED BY <1>1 DEF Met

LEMMA NextLook ==
  ASSUME NEW D, NEW s \in Seq(D), NEW S, NEW q \in 1 .. Len(s),
         NEW a, Met(a, s, S, q, D), NEW z, z = LookAtRow(a, S, q)
  PROVE  Met(z, s, S, q - 1, D)
<1> DEFINE n == Len(s)
<1>1. n \in Nat /\ q \in Nat /\ q - 1 \in Nat /\ a.s \in Seq(D) /\ a.back \in Nat
  BY LenProperties DEF Met
<1>0. PICK p \in Nat : p = q - 1
  BY <1>1
<1>2. CASE q \notin S
  <2>1. z = a
    BY <1>2 DEF LookAtRow
  <2>2. CASE a.back = 0
    BY <1>1, <1>2, <2>1, <2>2 DEF Met, Hanging
  <2>3. CASE a.back # 0
    <3>1. a.front \in q + 1 .. a.back /\ \A j \in q + 1 .. a.front - 1 : j \notin S
      BY <2>3 DEF Met, Hanging
    <3>2. a.front \in (q - 1) + 1 .. a.back /\ \A j \in (q - 1) + 1 .. a.front - 1 : j \notin S
      BY <1>1, <1>2, <3>1
    <3> QED BY <2>1, <2>3, <3>2 DEF Met, Hanging
  <2> QED BY <2>2, <2>3
<1>3. CASE q \in S /\ a.back = 0
  <2>1. z = [s |-> s, back |-> q, front |-> q] /\ \A j \in q + 1 .. n : j \notin S
    BY <1>3 DEF LookAtRow, DeadRow, Met
  <2>2. PICK m : Embeds(m, s, s, 1 .. n) /\ Unmoved(m, n)
    BY Itself
  <2>3. Kept(n, S, q) = 1 .. n
    BY <1>1, <2>1 DEF Kept
  <2>4. Unmoved(m, q)
    BY <1>1, <2>2 DEF Unmoved
  <2>5. /\ q \in p + 1 .. q /\ q .. q \subseteq S /\ q <= Len(s)
        /\ \A j \in p + 1 .. q - 1 : j \notin S
    BY <1>0, <1>1, <1>3
  <2>6. Embeds(m, s, s, Kept(Len(s), S, q))
    BY <2>2, <2>3
  <2>7. Unmoved(m, q) /\ q \in Nat /\ s \in Seq(D)
    BY <1>1, <2>4
  <2>8. Hanging(s, q, q, s, S, p)
    BY <2>5, <2>6, <2>7 DEF Hanging
  <2> QED BY <1>0, <1>1, <2>1, <2>7, <2>8 DEF Met
<1>4. CASE q \in S /\ a.back # 0 /\ q = a.front - 1
  <2>1. z = [s |-> a.s, back |-> a.back, front |-> q]
    BY <1>1, <1>4 DEF LookAtRow, DeadRow, Met
  <2>2. a.front \in q + 1 .. a.back /\ a.back <= Len(a.s) /\ a.front .. a.back \subseteq S
    BY <1>4 DEF Met, Hanging
  <2>3. PICK m : Embeds(m, a.s, s, Kept(Len(s), S, a.back)) /\ Unmoved(m, a.back)
    BY <1>4 DEF Met, Hanging
  <2>4. /\ q \in p + 1 .. a.back /\ q .. a.back \subseteq S
        /\ \A j \in p + 1 .. q - 1 : j \notin S
    BY <1>0, <1>1, <1>4, <2>2
  <2>5. PICK t, b : t = a.s /\ b = a.back
    OBVIOUS
  <2>6. /\ t \in Seq(D) /\ b \in Nat /\ q \in p + 1 .. b /\ b <= Len(t) /\ q .. b \subseteq S
        /\ Embeds(m, t, s, Kept(Len(s), S, b)) /\ Unmoved(m, b)
        /\ z = [s |-> t, back |-> b, front |-> q]
    BY <1>1, <2>1, <2>2, <2>3, <2>4, <2>5
  <2>7. Hanging(t, b, q, s, S, p)
    BY <2>4, <2>6 DEF Hanging
  <2> QED BY <1>0, <1>4, <2>5, <2>6, <2>7 DEF Met
<1>5. CASE q \in S /\ a.back # 0 /\ q # a.front - 1
  <2>1. PICK u : u = Cut(a.s, a.front, a.back)
    OBVIOUS
  <2>2. z = [s |-> u, back |-> q, front |-> q]
    BY <1>5, <2>1 DEF LookAtRow, DeadRow
  <2>3. /\ u \in Seq(D) /\ q <= Len(u)
        /\ \E w : Embeds(w, u, s, Kept(Len(s), S, q)) /\ Unmoved(w, q)
    BY <1>1, <1>5, <2>1, RangeGone, Zenon
  <2>4. PICK w : Embeds(w, u, s, Kept(Len(s), S, q)) /\ Unmoved(w, q)
    BY <2>3
  <2>5. /\ q \in p + 1 .. q /\ q .. q \subseteq S
        /\ \A j \in p + 1 .. q - 1 : j \notin S
    BY <1>0, <1>1, <1>5
  <2>6. q \in Nat /\ u \in Seq(D) /\ q <= Len(u)
    BY <1>1, <2>3
  <2>7. Hanging(u, q, q, s, S, p)
    BY <2>4, <2>5, <2>6 DEF Hanging
  <2> QED BY <1>0, <1>1, <2>2, <2>6, <2>7 DEF Met
<1> QED BY <1>2, <1>3, <1>4, <1>5

\* The first k steps of the walk, and what they have met.
Walk(f, k, s, S, D) ==
  /\ f[0] = [s |-> s, back |-> 0, front |-> 0] /\ DOMAIN f = 0 .. k
  /\ f = [j \in 0 .. k |-> f[j]]
  /\ \A j \in 1 .. k : f[j] = LookAtRow(f[j - 1], S, Len(s) + 1 - j)
  /\ \A j \in 0 .. k : Met(f[j], s, S, Len(s) - j, D)

LEMMA NoWalk ==
  ASSUME NEW D, NEW s \in Seq(D), NEW S
  PROVE  \E f : Walk(f, 0, s, S, D)
<1> DEFINE a == [s |-> s, back |-> 0, front |-> 0]
           f == [j \in 0 .. 0 |-> a]
<1>1. f[0] = a /\ DOMAIN f = 0 .. 0 /\ f = [j \in 0 .. 0 |-> f[j]] /\ Len(s) \in Nat
  BY LenProperties
<1>2. Met(a, s, S, Len(s), D)
  BY FirstLook
<1> HIDE DEF f
<1>3. \A j \in 0 .. 0 : Met(f[j], s, S, Len(s) - j, D)
  <2>1. \A j \in 0 .. 0 : j = 0
    OBVIOUS
  <2>2. Len(s) - 0 = Len(s)
    BY <1>1
  <2> HIDE DEF a
  <2> QED BY <1>1, <1>2, <2>1, <2>2
<1>4. \A j \in 1 .. 0 : FALSE
  OBVIOUS
<1> QED BY <1>1, <1>3, <1>4 DEF Walk

LEMMA LongerWalk ==
  ASSUME NEW D, NEW s \in Seq(D), NEW S, NEW k \in Nat, k < Len(s), NEW f, Walk(f, k, s, S, D)
  PROVE  \E g : Walk(g, k + 1, s, S, D)
<1> DEFINE n == Len(s)
           x == LookAtRow(f[k], S, n + 1 - (k + 1))
           g == [j \in 0 .. k + 1 |-> IF j = k + 1 THEN x ELSE f[j]]
<1>1. n \in Nat
  BY LenProperties
<1>2. /\ f[0] = [s |-> s, back |-> 0, front |-> 0]
      /\ \A j \in 1 .. k : f[j] = LookAtRow(f[j - 1], S, n + 1 - j)
      /\ \A j \in 0 .. k : Met(f[j], s, S, n - j, D)
  BY DEF Walk
<1>3. n + 1 - (k + 1) = n - k /\ n - k \in 1 .. n /\ (n - k) - 1 = n - (k + 1)
  BY <1>1
<1>4. Met(x, s, S, n - (k + 1), D)
  <2>1. Met(f[k], s, S, n - k, D)
    BY <1>2
  <2> QED BY <1>3, <2>1, NextLook
<1> HIDE DEF x
<1>5. /\ DOMAIN g = 0 .. k + 1 /\ g = [j \in 0 .. k + 1 |-> g[j]]
      /\ g[k + 1] = x /\ \A j \in 0 .. k : g[j] = f[j]
  OBVIOUS
<1> HIDE DEF g
<1>6. g[0] = [s |-> s, back |-> 0, front |-> 0]
  <2>1. 0 \in 0 .. k
    OBVIOUS
  <2> QED BY <1>2, <1>5, <2>1
<1>7. ASSUME NEW j \in 1 .. k + 1 PROVE g[j] = LookAtRow(g[j - 1], S, n + 1 - j)
  <2>1. CASE j = k + 1
    <3>1. j - 1 = k /\ k \in 0 .. k
      BY <2>1
    <3> QED BY <1>5, <2>1, <3>1 DEF x
  <2>2. CASE j \in 1 .. k
    <3>1. f[j] = LookAtRow(f[j - 1], S, n + 1 - j) /\ j - 1 \in 0 .. k
      BY <1>2, <2>2
    <3> QED BY <1>5, <2>2, <3>1
  <2> QED BY <2>1, <2>2
<1>8. ASSUME NEW j \in 0 .. k + 1 PROVE Met(g[j], s, S, n - j, D)
  <2>1. CASE j = k + 1
    BY <1>4, <1>5, <2>1
  <2>2. CASE j \in 0 .. k
    BY <1>2, <1>5, <2>2
  <2> QED BY <2>1, <2>2
<1> QED BY <1>5, <1>6, <1>7, <1>8 DEF Walk

\* Removing the dead rows in ranges, from last to first, leaves the rows that are
\* not dead, all of them and in their order (InstanceList::loadList).
THEOREM RowsRemoved ==
  ASSUME NEW D, NEW s \in Seq(D), NEW S, NEW u, u = RemoveRows(s, S)
  PROVE  u \in Seq(D) /\ \E m : Embeds(m, u, s, DOMAIN s \ S)
<1> DEFINE n == Len(s)
           start == [s |-> s, back |-> 0, front |-> 0]
           T == {k \in Nat : k <= n => \E f : Walk(f, k, s, S, D)}
           Step(f) == [k \in 0 .. n |-> IF k = 0 THEN start ELSE LookAtRow(f[k - 1], S, n + 1 - k)]
           seen == CHOOSE f : f = Step(f)
<1>1. n \in Nat /\ DOMAIN s = 1 .. n
  BY LenProperties
<1>2. 0 \in T
  BY NoWalk
<1>3. \A k \in Nat : k \in T => k + 1 \in T
  BY <1>1, LongerWalk
<1>4. PICK f : Walk(f, n, s, S, D)
  <2> HIDE DEF T
  <2>1. n \in T
    BY <1>1, <1>2, <1>3, NatSet
  <2> QED BY <1>1, <2>1 DEF T
<1> HIDE DEF start
<1>5. f = Step(f)
  <2>1. /\ f = [j \in 0 .. n |-> f[j]] /\ f[0] = start
        /\ \A j \in 1 .. n : f[j] = LookAtRow(f[j - 1], S, n + 1 - j)
    BY <1>4 DEF Walk, start
  <2>2. \A k \in 0 .. n : f[k] = IF k = 0 THEN start ELSE LookAtRow(f[k - 1], S, n + 1 - k)
    <3>1. \A k \in 0 .. n : k = 0 \/ k \in 1 .. n
      BY <1>1
    <3>2. \A k \in 1 .. n : k # 0
      BY <1>1
    <3> QED BY <2>1, <3>1, <3>2
  <2>3. Step(f) = [k \in 0 .. n |-> f[k]]
    BY <2>2
  <2> QED BY <2>1, <2>3
<1>6. seen = Step(seen)
  BY <1>5
<1>7. u = IF seen[n].back = 0 THEN seen[n].s ELSE Cut(seen[n].s, seen[n].front, seen[n].back)
  BY DEF RemoveRows, start
<1> HIDE DEF seen
<1>8. /\ seen[0] = start /\ f[0] = start
      /\ \A k \in 1 .. n : seen[k] = LookAtRow(seen[k - 1], S, n + 1 - k)
      /\ \A k \in 1 .. n : f[k] = LookAtRow(f[k - 1], S, n + 1 - k)
  <2>1. /\ 0 \in 0 .. n
        /\ \A k \in 1 .. n : k \in 0 .. n /\ k # 0
    BY <1>1
  <2>2. \A x : x = Step(x) => x[0] = start
    BY <2>1
  <2>3. \A x : x = Step(x) => \A k \in 1 .. n : x[k] = LookAtRow(x[k - 1], S, n + 1 - k)
    BY <2>1
  <2> HIDE DEF Step
  <2> QED BY <1>5, <1>6, <2>2, <2>3
<1> DEFINE U == {k \in Nat : k <= n => seen[k] = f[k]}
<1>9. Nat \subseteq U
  <2>1. 0 \in U
    BY <1>8
  <2>2. ASSUME NEW k \in Nat, k \in U PROVE k + 1 \in U
    <3>1. CASE k + 1 <= n
      <4>1. k + 1 \in 1 .. n /\ (k + 1) - 1 = k /\ seen[k] = f[k]
        BY <1>1, <2>2, <3>1
      <4> QED BY <1>8, <4>1
    <3>2. CASE ~(k + 1 <= n)
      BY <3>2
    <3> QED BY <3>1, <3>2
  <2> HIDE DEF U
  <2> QED BY <2>1, <2>2, NatSet
<1>10. PICK a : a = f[n] /\ a = seen[n]
  BY <1>1, <1>9
<1>11. Met(a, s, S, 0, D)
  <2>1. Met(f[n], s, S, n - n, D) /\ n - n = 0
    BY <1>1, <1>4 DEF Walk
  <2> QED BY <1>10, <2>1
<1>12. DOMAIN s \ S = Kept(n, S, 0)
  BY <1>1 DEF Kept
<1>13. CASE a.back = 0
  <2>1. u = s /\ \A j \in 0 + 1 .. n : j \notin S
    BY <1>7, <1>10, <1>11, <1>13 DEF Met
  <2>2. Kept(n, S, 0) = 1 .. n
    BY <1>1, <2>1 DEF Kept
  <2> QED BY <1>12, <2>1, <2>2, Itself
<1>14. CASE a.back # 0
  <2>1. u = Cut(a.s, a.front, a.back)
    BY <1>7, <1>10, <1>14
  <2>2. /\ u \in Seq(D) /\ 0 <= Len(u)
        /\ \E w : Embeds(w, u, s, Kept(Len(s), S, 0)) /\ Unmoved(w, 0)
    BY <1>11, <1>14, <2>1, RangeGone, Zenon
  <2> QED BY <1>12, <2>2
<1> QED BY <1>13, <1>14
-----------------------------------------------------------------------------
\* o is a sequence of the elements of S, each of them once.
Lists(o, S) ==
  /\ \A k \in 1 .. Len(o) : o[k] \in S
  /\ \A x \in S : \E k \in 1 .. Len(o) : o[k] = x
  /\ \A j, k \in 1 .. Len(o) : o[j] = o[k] => j = k
LEMMA SetInOrder ==
  ASSUME NEW D, NEW S \in SUBSET D, IsFiniteSet(S), NEW o, o = SetToSeq(S)
  PROVE  o \in Seq(D) /\ Lists(o, S)
<1> DEFINE n == Cardinality(S)
<1>1. n \in Nat /\ ExistsBijection(1 .. n, S)
  BY FS_CardinalityType
<1>2. \E f \in [1 .. n -> S] : IsInjective(f)
  BY <1>1 DEF ExistsBijection, Bijection, Injection
<1>3. o \in [1 .. n -> S] /\ IsInjective(o)
  BY <1>2 DEF SetToSeq
<1> HIDE DEF n
<1>4. o \in Injection(1 .. n, S)
  BY <1>3 DEF Injection
<1>5. IsFiniteSet(1 .. n) /\ Cardinality(1 .. n) = n
  BY <1>1, FS_Interval
<1>6. o \in Surjection(1 .. n, S)
  BY <1>1, <1>4, <1>5, FS_Injection DEF n
<1>7. o \in Seq(D) /\ Len(o) = n
  <2>1. \A k \in 1 .. n : o[k] \in D
    BY <1>3
  <2>2. o \in [1 .. n -> D]
    BY <1>3, <2>1
  <2>3. o \in Seq(D)
    BY <1>1, <2>2
  <2> QED BY <1>1, <2>2, <2>3, LenProperties
<1>8. \A x \in S : \E k \in 1 .. n : o[k] = x
  BY <1>6 DEF Surjection
<1>9. \A j, k \in 1 .. n : o[j] = o[k] => j = k
  BY <1>3 DEF IsInjective
<1>10. \A k \in 1 .. n : o[k] \in S
  BY <1>3
<1> QED BY <1>7, <1>8, <1>9, <1>10 DEF Lists
-----------------------------------------------------------------------------
Groups == Group \cup {NoGroup}

IsList(l) ==
  /\ l = [rows |-> l.rows, of |-> l.of, counts |-> l.counts,
          collapsed |-> l.collapsed, loaded |-> l.loaded]
  /\ l.of \in [Id -> Groups] /\ l.counts \in [Group -> Nat]
  /\ l.collapsed \in SUBSET Group
IsFile(f) ==
  /\ f = [place |-> f.place, of |-> f.of, hidden |-> f.hidden, behind |-> f.behind]
  /\ f.of \in [Id -> Groups] /\ f.hidden \in SUBSET Group

\* What the user sees of the groups is what the file says, if it could be written.
SameGroups(l, f) ==
  /\ l.of = f.of
  /\ \A i \in Id : l.of[i] \in l.collapsed <=> l.of[i] \in f.hidden
NoGroups(l) == l.of = [i \in Id |-> NoGroup] /\ l.collapsed = {}
Recorded(l, f) ==
  \/ f.place # "none" /\ SameGroups(l, f)
  \/ f.place = "none" /\ NoGroups(l)
  \/ l.rows = <<>> /\ ~l.loaded
  \/ f.behind

Exact(l) == \A g \in Group : l.counts[g] = Cardinality(Members(l.of, g))

\* The groups and places that are remembered elsewhere: for an undo, and for a commit.
EntryOK(e) == e.group \in Groups /\ e.at \in Roots \X Id
TrashOK(s) == s \in Seq({e \in Range(s) : EntryOK(e)})
StageOK ==
  stage.state # "none" =>
    /\ stage = [state |-> stage.state, target |-> stage.target, update |-> stage.update,
                group |-> stage.group, backoff |-> stage.backoff]
    /\ stage.group \in Groups /\ stage.target \in Range(roots)

\* The folders on disk are some of those that may be listed, and the rows are of
\* instances in the folders that are listed.
Folders == roots \in RootLists /\ disk \subseteq Roots \X Id /\ IsFiniteSet(disk)
\* An instance has one row.
OneRowEach(s) == \A j, k \in DOMAIN s : s[j][2] = s[k][2] => j = k
Shelf == list.rows \in Seq(Range(roots) \X Id) /\ OneRowEach(list.rows) /\ ReloadDue

Books == IsList(list) /\ IsFile(file) /\ Recorded(list, file) /\ CountsExact
\* The inductive invariant.
IInv == Books /\ Folders /\ Shelf /\ TrashOK(trash) /\ StageOK
-----------------------------------------------------------------------------
\* A list with one of its parts replaced.
Build(r, o, c, k, d) == [rows |-> r, of |-> o, counts |-> c, collapsed |-> k, loaded |-> d]
LEMMA Parts ==
  ASSUME NEW l, IsList(l), NEW x
  PROVE  /\ l = Build(l.rows, l.of, l.counts, l.collapsed, l.loaded)
         /\ [l EXCEPT !.rows = x] = Build(x, l.of, l.counts, l.collapsed, l.loaded)
         /\ [l EXCEPT !.of = x] = Build(l.rows, x, l.counts, l.collapsed, l.loaded)
         /\ [l EXCEPT !.counts = x] = Build(l.rows, l.of, x, l.collapsed, l.loaded)
         /\ [l EXCEPT !.collapsed = x] = Build(l.rows, l.of, l.counts, x, l.loaded)
<1>1. l = Build(l.rows, l.of, l.counts, l.collapsed, l.loaded)
  BY DEF IsList, Build
<1> QED BY <1>1 DEF Build

LEMMA Emptied ==
  ASSUME NEW l, IsList(l), NEW x, NEW y
  PROVE  [l EXCEPT !.rows = x, !.loaded = y] = Build(x, l.of, l.counts, l.collapsed, y)
<1> DEFINE e == Build(x, l.of, l.counts, l.collapsed, l.loaded)
<1>1. [l EXCEPT !.rows = x] = e
  BY Parts
<1>2. [e EXCEPT !.loaded = y] = Build(x, l.of, l.counts, l.collapsed, y)
  BY DEF Build
<1> HIDE DEF e
<1>3. [l EXCEPT !.rows = x, !.loaded = y] = [e EXCEPT !.loaded = y]
  BY <1>1
<1> QED BY <1>2, <1>3

LEMMA Regrouped ==
  ASSUME NEW l, IsList(l), NEW x, NEW y, NEW z
  PROVE  [l EXCEPT !.counts = x, !.collapsed = y, !.of = z] = Build(l.rows, z, x, y, l.loaded)
<1> DEFINE d == Build(l.rows, l.of, x, l.collapsed, l.loaded)
           e == Build(l.rows, l.of, x, y, l.loaded)
<1>1. [l EXCEPT !.counts = x] = d
  BY Parts
<1>2. [d EXCEPT !.collapsed = y] = e
  BY DEF Build
<1>3. [e EXCEPT !.of = z] = Build(l.rows, z, x, y, l.loaded)
  BY DEF Build
<1> HIDE DEF d, e
<1>4. [l EXCEPT !.counts = x, !.collapsed = y, !.of = z] = [d EXCEPT !.collapsed = y, !.of = z]
  BY <1>1
<1>5. [d EXCEPT !.collapsed = y, !.of = z] = [e EXCEPT !.of = z]
  BY <1>2
<1> QED BY <1>3, <1>4, <1>5

LEMMA Built ==
  ASSUME NEW r, NEW o \in [Id -> Groups], NEW c \in [Group -> Nat], NEW k \in SUBSET Group, NEW d
  PROVE  IsList(Build(r, o, c, k, d))
BY DEF IsList, Build

\* The sets that are counted are finite.
LEMMA MembersFinite ==
  ASSUME NEW of, NEW g
  PROVE  /\ IsFiniteSet(Members(of, g)) /\ Cardinality(Members(of, g)) \in Nat
         /\ Cardinality(Members(of, g)) = 0 <=> Members(of, g) = {}
<1>1. Members(of, g) \in SUBSET Id
  BY DEF Members
<1> QED BY <1>1, InstanceListAssumption, FS_Subset, FS_CardinalityType, FS_EmptySet

LEMMA UnloadedExact == IsList(Unloaded) /\ Exact(Unloaded) /\ (\A f : Recorded(Unloaded, f))
<1>1. \A g \in Group : Members([i \in Id |-> NoGroup], g) = {}
  BY InstanceListAssumption DEF Members
<1>2. Cardinality({}) = 0
  BY FS_EmptySet
<1> QED BY <1>1, <1>2 DEF IsList, Exact, Recorded, Unloaded, Groups

\* The file differs in whether its last write failed.
LEMMA Marked ==
  ASSUME NEW f, IsFile(f), NEW b, NEW g, g = [f EXCEPT !.behind = b]
  PROVE  IsFile(g) /\ g.place = f.place /\ g.of = f.of /\ g.hidden = f.hidden /\ g.behind = b
<1>1. g = [place |-> f.place, of |-> f.of, hidden |-> f.hidden, behind |-> b]
  BY DEF IsFile
<1> QED BY <1>1 DEF IsFile

\* What is saved is recorded, or known not to be (saveGroupList).
LEMMA WrittenRecorded ==
  ASSUME NEW l, IsList(l)
  PROVE  IsFile(Written(l)) /\ Written(l).place = "current" /\ SameGroups(l, Written(l))
BY DEF IsList, IsFile, SameGroups, Written

LEMMA SavedRecorded ==
  ASSUME NEW l, NEW f, IsList(l), IsFile(f), NEW g \in Saved(l, f)
  PROVE  IsFile(g) /\ Recorded(l, g)
<1>1. CASE g = Written(l)
  BY <1>1, WrittenRecorded DEF Recorded
<1>2. CASE g = [f EXCEPT !.behind = TRUE]
  BY <1>2, Marked DEF Recorded
<1> QED BY <1>1, <1>2 DEF Saved

\* What a change of groups leaves alone.
SameRows(l, m) == m.rows = l.rows /\ m.loaded = l.loaded
\* decreaseGroupCount().
Lowered(l, d, h) ==
  /\ d.of = l.of /\ SameRows(l, d)
  /\ d.counts = IF h = NoGroup THEN l.counts
                ELSE [l.counts EXCEPT ![h] = IF @ > 1 THEN @ - 1 ELSE 0]
LEMMA Decreased ==
  ASSUME NEW l, IsList(l), NEW h \in Groups, NEW d, d = Decrease(l, h)
  PROVE  IsList(d) /\ Lowered(l, d, h)
<1>1. /\ l.of \in [Id -> Groups] /\ l.counts \in [Group -> Nat] /\ l.collapsed \in SUBSET Group
      /\ h \in Group \/ h = NoGroup
  BY DEF IsList, Groups
<1>2. CASE h = NoGroup
  BY <1>2 DEF Decrease, Lowered, SameRows
<1>3. CASE h # NoGroup /\ l.counts[h] > 1
  <2> DEFINE c == [l.counts EXCEPT ![h] = @ - 1]
  <2>1. c \in [Group -> Nat] /\ c = [l.counts EXCEPT ![h] = IF @ > 1 THEN @ - 1 ELSE 0]
    BY <1>1, <1>3
  <2>2. d = Build(l.rows, l.of, c, l.collapsed, l.loaded)
    <3>1. d = [l EXCEPT !.counts = c]
      BY <1>3 DEF Decrease
    <3> QED BY <3>1, Parts
  <2> HIDE DEF c
  <2>3. IsList(d)
    BY <1>1, <2>1, <2>2, Built
  <2> QED BY <1>3, <2>1, <2>2, <2>3 DEF Build, Lowered, SameRows
<1>4. CASE h # NoGroup /\ ~(l.counts[h] > 1)
  <2> DEFINE c == [l.counts EXCEPT ![h] = 0]
             k == l.collapsed \ {h}
             e == Build(l.rows, l.of, c, l.collapsed, l.loaded)
  <2>1. c \in [Group -> Nat] /\ c = [l.counts EXCEPT ![h] = IF @ > 1 THEN @ - 1 ELSE 0]
    BY <1>1, <1>4
  <2>2. [l EXCEPT !.counts = c] = e
    BY Parts
  <2>3. [e EXCEPT !.collapsed = k] = Build(l.rows, l.of, c, k, l.loaded)
    BY DEF Build
  <2>4. d = [[l EXCEPT !.counts = c] EXCEPT !.collapsed = k]
    BY <1>4 DEF Decrease
  <2> HIDE DEF c, k, e
  <2>5. d = [e EXCEPT !.collapsed = k]
    BY <2>2, <2>4
  <2>6. d = Build(l.rows, l.of, c, k, l.loaded)
    BY <2>3, <2>5
  <2>7. IsList(d)
    BY <1>1, <2>1, <2>6, Built DEF k
  <2> QED BY <1>4, <2>1, <2>6, <2>7 DEF Build, Lowered, SameRows
<1> QED BY <1>1, <1>2, <1>3, <1>4

\* Changing the group of an instance in the index.
Grouped(l, i, g) == [l EXCEPT !.of[i] = g]
LEMMA Indexed ==
  ASSUME NEW l, IsList(l), NEW i \in Id, NEW g \in Groups, NEW m, m = Grouped(l, i, g)
  PROVE  IsList(m) /\ m.of = [l.of EXCEPT ![i] = g] /\ m.counts = l.counts /\ SameRows(l, m)
<1> DEFINE o == [l.of EXCEPT ![i] = g]
<1>1. /\ l.of \in [Id -> Groups] /\ l.counts \in [Group -> Nat] /\ l.collapsed \in SUBSET Group
      /\ o \in [Id -> Groups]
  BY DEF IsList
<1>2. m = Build(l.rows, o, l.counts, l.collapsed, l.loaded)
  BY Parts DEF Grouped
<1> HIDE DEF o
<1>3. IsList(m)
  BY <1>1, <1>2, Built
<1> QED BY <1>2, <1>3 DEF Build, o, SameRows

\* The later of two changes is the one that counts.
LEMMA Overwritten ==
  ASSUME NEW l, IsList(l), NEW i \in Id, NEW m, m = Grouped(l, i, NoGroup), NEW g \in Groups
  PROVE  Grouped(m, i, g) = Grouped(l, i, g)
<1> DEFINE o == [l.of EXCEPT ![i] = NoGroup]
<1>1. m = Build(l.rows, o, l.counts, l.collapsed, l.loaded)
  BY Parts DEF Grouped
<1>2. Grouped(l, i, g) = Build(l.rows, [l.of EXCEPT ![i] = g], l.counts, l.collapsed, l.loaded)
  BY Parts DEF Grouped
<1>3. IsList(m)
  <2>1. /\ l.of \in [Id -> Groups] /\ l.counts \in [Group -> Nat] /\ l.collapsed \in SUBSET Group
        /\ o \in [Id -> Groups]
    BY DEF IsList, Groups
  <2> HIDE DEF o
  <2> QED BY <1>1, <2>1, Built
<1>4. Grouped(m, i, g) = Build(m.rows, [m.of EXCEPT ![i] = g], m.counts, m.collapsed, m.loaded)
  <2>1. PICK x : x = [m.of EXCEPT ![i] = g]
    OBVIOUS
  <2>2. Grouped(m, i, g) = [m EXCEPT !.of = x]
    BY <2>1 DEF Grouped
  <2> HIDE DEF o
  <2>3. [m EXCEPT !.of = x] = Build(m.rows, x, m.counts, m.collapsed, m.loaded)
    BY <1>3, Parts
  <2> QED BY <2>1, <2>2, <2>3
<1>5. [o EXCEPT ![i] = g] = [l.of EXCEPT ![i] = g]
  BY DEF IsList
<1> HIDE DEF o
<1> QED BY <1>1, <1>2, <1>4, <1>5 DEF Build

\* An instance leaves its group.
LEMMA Leaves ==
  ASSUME NEW l, IsList(l), NEW i \in Id,
         NEW h, h = l.of[i], NEW d, IsList(d), Lowered(l, d, h), NEW m, m = Grouped(d, i, NoGroup)
  PROVE  /\ IsList(m) /\ m.of[i] = NoGroup /\ (Exact(l) => Exact(m))
         /\ m.of = [l.of EXCEPT ![i] = NoGroup] /\ SameRows(l, m)
<1>1. h \in Groups /\ l.of \in [Id -> Groups] /\ l.counts \in [Group -> Nat]
  BY DEF IsList
<1>3. IsList(m) /\ m.of = [l.of EXCEPT ![i] = NoGroup] /\ m.counts = d.counts /\ SameRows(l, m)
  <2>1. NoGroup \in Groups
    BY DEF Groups
  <2>2. /\ IsList(m) /\ m.of = [d.of EXCEPT ![i] = NoGroup] /\ m.counts = d.counts
        /\ SameRows(d, m)
    BY <2>1, Indexed
  <2>3. d.of = l.of /\ SameRows(l, d)
    BY DEF Lowered
  <2> QED BY <2>2, <2>3 DEF SameRows
<1>4. CASE h = NoGroup
  <2>1. d.counts = l.counts
    BY <1>4 DEF Lowered
  <2>2. m.of = l.of /\ m.counts = l.counts /\ m.of[i] = NoGroup
    BY <1>1, <1>3, <1>4, <2>1
  <2> QED BY <1>3, <2>2 DEF Exact
<1>5. CASE h # NoGroup
  <2>1. h \in Group
    BY <1>1, <1>5 DEF Groups
  <2>2. /\ m.of = [l.of EXCEPT ![i] = NoGroup]
        /\ m.counts = [l.counts EXCEPT ![h] = IF @ > 1 THEN @ - 1 ELSE 0]
    <3>1. d.counts = IF h = NoGroup THEN l.counts
                     ELSE [l.counts EXCEPT ![h] = IF @ > 1 THEN @ - 1 ELSE 0]
      BY DEF Lowered
    <3> QED BY <1>3, <1>5, <3>1
  <2>3. IsList(m) /\ m.of[i] = NoGroup
    BY <1>1, <1>3
  <2>4. ASSUME Exact(l), NEW g \in Group PROVE m.counts[g] = Cardinality(Members(m.of, g))
    <3>1. Members(m.of, g) = Members(l.of, g) \ (IF g = h THEN {i} ELSE {})
      BY <1>1, <2>2, InstanceListAssumption DEF Members
    <3>2. i \in Members(l.of, h)
      BY DEF Members
    <3>3. Cardinality(Members(l.of, h) \ {i}) = Cardinality(Members(l.of, h)) - 1
      BY <3>2, MembersFinite, FS_RemoveElement
    <3>4. l.counts[g] = Cardinality(Members(l.of, g))
      BY <2>4 DEF Exact
    <3>5. CASE g # h
      BY <1>1, <2>2, <3>1, <3>4, <3>5
    <3>6. CASE g = h
      <4>1. l.counts[h] \in Nat /\ l.counts[h] # 0
        BY <1>1, <2>1, <3>2, <3>4, <3>6, MembersFinite
      <4>2. m.counts[h] = l.counts[h] - 1
        BY <1>1, <2>1, <2>2, <4>1
      <4> QED BY <3>1, <3>3, <3>4, <3>6, <4>2
    <3> QED BY <3>5, <3>6
  <2> QED BY <1>3, <2>3, <2>4 DEF Exact
<1> QED BY <1>4, <1>5

Moved(l, m, i, g) == m.of = [l.of EXCEPT ![i] = g] /\ SameRows(l, m)
\* An instance joins a group (increaseGroupCount).
LEMMA Joins ==
  ASSUME NEW l, IsList(l), NEW i \in Id, NEW g \in Groups,
         NEW m, m = Increase(Grouped(l, i, g), g)
  PROVE  /\ IsList(m) /\ (Exact(l) /\ l.of[i] = NoGroup => Exact(m))
         /\ Moved(l, m, i, g)
<1>1. l.of \in [Id -> Groups] /\ l.counts \in [Group -> Nat]
  BY DEF IsList
<1>2. CASE g = NoGroup
  <2>1. m = Grouped(l, i, g)
    BY <1>2 DEF Increase
  <2>2. /\ IsList(m) /\ m.of = [l.of EXCEPT ![i] = g] /\ m.counts = l.counts
        /\ SameRows(l, m)
    BY <2>1, Indexed
  <2>3. l.of[i] = NoGroup => m.of = l.of
    BY <1>1, <1>2, <2>2
  <2> QED BY <2>2, <2>3 DEF Exact, Moved
<1>3. CASE g # NoGroup
  <2>1. g \in Group
    BY <1>3 DEF Groups
  <2>2. /\ m.of = [l.of EXCEPT ![i] = g]
        /\ m.counts = [l.counts EXCEPT ![g] = @ + 1]
        /\ IsList(m) /\ SameRows(l, m)
    <3> DEFINE o == [l.of EXCEPT ![i] = g]
               c == [l.counts EXCEPT ![g] = @ + 1]
    <3>1. PICK e : e = Grouped(l, i, g)
      OBVIOUS
    <3>2. IsList(e)
      BY <3>1, Indexed
    <3>0. e = Build(l.rows, o, l.counts, l.collapsed, l.loaded)
      BY <3>1, Parts DEF Grouped
    <3>3. m = [e EXCEPT !.counts = [e.counts EXCEPT ![g] = @ + 1]]
      BY <1>3, <3>1 DEF Increase
    <3>4. m = Build(e.rows, e.of, [e.counts EXCEPT ![g] = @ + 1], e.collapsed, e.loaded)
      <4>1. PICK x : x = [e.counts EXCEPT ![g] = @ + 1]
        OBVIOUS
      <4> QED BY <3>2, <3>3, <4>1, Parts
    <3>5. m = Build(l.rows, o, c, l.collapsed, l.loaded)
      BY <3>0, <3>4 DEF Build
    <3>6. c \in [Group -> Nat] /\ o \in [Id -> Groups]
      BY <1>1, <2>1
    <3>7. l.collapsed \in SUBSET Group
      BY DEF IsList
    <3>8. IsList(m)
      BY <3>5, <3>6, <3>7, Built
    <3> QED BY <3>5, <3>8 DEF Build, SameRows
  <2>3. ASSUME Exact(l), l.of[i] = NoGroup, NEW h \in Group
        PROVE  m.counts[h] = Cardinality(Members(m.of, h))
    <3>1. Members(m.of, h) = Members(l.of, h) \cup (IF h = g THEN {i} ELSE {})
      BY <1>1, <2>2, <2>3, InstanceListAssumption DEF Members
    <3>2. i \notin Members(l.of, g)
      BY <1>3, <2>3 DEF Members
    <3>3. Cardinality(Members(l.of, g) \cup {i}) = Cardinality(Members(l.of, g)) + 1
      BY <3>2, MembersFinite, FS_AddElement
    <3>4. l.counts[h] = Cardinality(Members(l.of, h))
      BY <2>3 DEF Exact
    <3>5. m.counts[h] = IF h = g THEN l.counts[g] + 1 ELSE l.counts[h]
      BY <1>1, <2>1, <2>2
    <3> QED BY <3>1, <3>3, <3>4, <3>5
  <2> QED BY <2>2, <2>3 DEF Exact, Moved
<1> QED BY <1>2, <1>3
-----------------------------------------------------------------------------
\* Nothing is added where nothing was found.
LEMMA NothingAdded == SetToSeq({}) = <<>>
<1>1. Cardinality({}) = 0
  BY FS_EmptySet
<1>2. <<>> \in [1 .. 0 -> {}] /\ IsInjective(<<>>)
  BY DEF IsInjective
<1>3. \A f \in [1 .. 0 -> {}] : f = <<>>
  OBVIOUS
<1> QED BY <1>1, <1>2, <1>3 DEF SetToSeq

\* loadGroupList().
LEMMA GroupsRead ==
  ASSUME NEW l, NEW f, IsList(l), IsFile(f)
  PROVE  LET m == LoadGroups(l, f) IN
         /\ IsList(m) /\ Exact(m)
         /\ IF f.place = "none" THEN NoGroups(m) ELSE SameGroups(m, f)
<1> DEFINE m == LoadGroups(l, f)
<1>1. CASE f.place = "none"
  <2>1. m = Build(l.rows, Unloaded.of, Unloaded.counts, Unloaded.collapsed, Unloaded.loaded)
    <3>1. m = [Unloaded EXCEPT !.rows = l.rows]
      BY <1>1 DEF LoadGroups
    <3> HIDE DEF m
    <3> QED BY <3>1, UnloadedExact, Parts
  <2>2. IsList(m)
    <3>1. /\ Unloaded.of \in [Id -> Groups] /\ Unloaded.counts \in [Group -> Nat]
          /\ Unloaded.collapsed \in SUBSET Group
      BY UnloadedExact DEF IsList
    <3> QED BY <2>1, <3>1, Built
  <2>3. m.of = Unloaded.of /\ m.counts = Unloaded.counts /\ m.collapsed = Unloaded.collapsed
    BY <2>1 DEF Build
  <2> HIDE DEF m
  <2>4. Exact(m)
    BY <2>3, UnloadedExact DEF Exact
  <2>5. NoGroups(m)
    BY <2>3 DEF NoGroups, Unloaded
  <2> QED BY <1>1, <2>2, <2>4, <2>5 DEF m
<1>2. CASE f.place # "none"
  <2> DEFINE c == [g \in Group |-> Cardinality(Members(f.of, g))]
  <2>1. m = Build(l.rows, f.of, c, f.hidden, TRUE)
    BY <1>2 DEF LoadGroups, Build
  <2>2. c \in [Group -> Nat]
    BY MembersFinite
  <2>3. IsList(m)
    BY <2>1, <2>2, Built DEF IsFile
  <2>4. Exact(m)
    BY <2>1 DEF Exact, Build
  <2>5. SameGroups(m, f)
    BY <2>1 DEF SameGroups, Build
  <2> QED BY <1>2, <2>3, <2>4, <2>5
<1> QED BY <1>1, <1>2

\* g is a file that loading leaves when the list was l, and is m.
Fits(g, m, l, f) == IsFile(g) /\ (Recorded(l, f) => Recorded(m, g))
\* loadList() keeps the groups, or reads what the file has of them.
LEMMA LoadKeeps ==
  ASSUME NEW l, NEW f, NEW d, NEW rs, IsList(l), IsFile(f)
  PROVE  LET r == LoadList(l, f, d, rs) IN
         /\ IsList(r.list)
         /\ \A g \in r.files : Fits(g, r.list, l, f)
         /\ Exact(l) => Exact(r.list)
         /\ l = Unloaded /\ r.list.rows # <<>> =>
              IF f.place = "none" THEN NoGroups(r.list)
              ELSE r.list.of = f.of /\ r.list.collapsed = f.hidden
<1> DEFINE found == Discovered(d, rs)
           new == {p \in found : p[2] \notin Ids(l.rows)}
           dead == {k \in DOMAIN l.rows : \A p \in found : p[2] # l.rows[k][2]}
           read == new # {} /\ GroupsUnread(l)
           m == IF read THEN LoadGroups(l, f) ELSE l
           rows == RemoveRows(m.rows, dead) \o SetToSeq(new)
           r == LoadList(l, f, d, rs)
<1>1. r = [list |-> [m EXCEPT !.rows = rows],
           files |-> IF read /\ f.place = "legacy" THEN {f, Written(m)} ELSE {f}]
  BY DEF LoadList
<1>2. IsList(m) /\ (Exact(l) => Exact(m))
  <2>1. CASE read
    BY <2>1, GroupsRead
  <2>2. CASE ~read
    BY <2>2
  <2> QED BY <2>1, <2>2
<1>3. r.list = Build(rows, m.of, m.counts, m.collapsed, m.loaded)
  <2> HIDE DEF m, rows, read
  <2>1. r.list = [m EXCEPT !.rows = rows]
    BY <1>1
  <2> HIDE DEF r
  <2> QED BY <1>2, <2>1, Parts
<1>4. r.files = IF read /\ f.place = "legacy" THEN {f, Written(m)} ELSE {f}
  BY <1>1
<1>5. /\ r.list.rows = rows /\ r.list.of = m.of /\ r.list.counts = m.counts
      /\ r.list.collapsed = m.collapsed /\ r.list.loaded = m.loaded
  <2> HIDE DEF m, rows, r
  <2> QED BY <1>3 DEF Build
<1>6. IsList(r.list) /\ (Exact(l) => Exact(r.list))
  <2> HIDE DEF m, rows, r
  <2>1. IsList(r.list)
    <3>1. m.of \in [Id -> Groups] /\ m.counts \in [Group -> Nat] /\ m.collapsed \in SUBSET Group
      BY <1>2 DEF IsList
    <3> QED BY <1>3, <3>1, Built
  <2>2. Exact(m) => Exact(r.list)
    BY <1>5 DEF Exact
  <2> QED BY <1>2, <2>1, <2>2
<1>7. CASE read
  <2>1. m = LoadGroups(l, f)
    BY <1>7
  <2>2. IF f.place = "none" THEN NoGroups(m) ELSE SameGroups(m, f)
    BY <2>1, GroupsRead
  <2>3. f.place # "none" => m.collapsed = f.hidden
    BY <2>1 DEF LoadGroups
  <2>4. IsFile(Written(m)) /\ Written(m).place = "current" /\ SameGroups(m, Written(m))
    BY <1>2, WrittenRecorded
  <2>5. \A g : SameGroups(m, g) => SameGroups(r.list, g)
    BY <1>5 DEF SameGroups
  <2>6. NoGroups(m) => NoGroups(r.list)
    BY <1>5 DEF NoGroups
  <2>7. ASSUME NEW g \in r.files PROVE Fits(g, r.list, l, f)
    <3> HIDE DEF m, r, read
    <3>1. g = f \/ g = Written(m)
      BY <1>4
    <3> QED BY <2>2, <2>4, <2>5, <2>6, <3>1 DEF Recorded, Fits
  <2>8. IF f.place = "none" THEN NoGroups(r.list)
        ELSE r.list.of = f.of /\ r.list.collapsed = f.hidden
    BY <1>5, <2>2, <2>3, <2>6 DEF SameGroups
  <2> QED BY <1>6, <2>7, <2>8
<1>8. CASE ~read
  <2>1. m = l /\ r.files = {f}
    BY <1>4, <1>8
  <2>2. ASSUME l.rows = <<>>, ~l.loaded PROVE r.list.rows = <<>>
    <3>1. Ids(l.rows) = {}
      BY <2>2 DEF Ids
    <3>2. new = {}
      BY <1>8, <2>2 DEF GroupsUnread
    <3>3. found = {}
      BY <3>1, <3>2
    <3>4. dead = {}
      BY <2>2
    <3>5. rows = RemoveRows(<<>>, {}) \o SetToSeq({})
      <4> HIDE DEF m, new, dead
      <4> QED BY <2>1, <2>2, <3>2, <3>4
    <3>6. RemoveRows(<<>>, {}) = <<>>
      <4>1. PICK u : u = RemoveRows(<<>>, {})
        OBVIOUS
      <4>2. u \in Seq({})
        BY <4>1, EmptySeq, RowsRemoved
      <4> QED BY <4>1, <4>2, EmptySeq, ElementOfSeq, LenProperties
    <3>7. rows = <<>>
      <4> HIDE DEF rows
      <4> QED BY <3>5, <3>6, NothingAdded
    <3> QED BY <1>5, <3>7
  <2>3. \A g \in r.files : Fits(g, r.list, l, f)
    <3>1. Recorded(l, f) => Recorded(r.list, f)
      BY <1>5, <2>1, <2>2 DEF Recorded, SameGroups, NoGroups
    <3> QED BY <2>1, <3>1 DEF Fits
  <2>4. l = Unloaded => r.list.rows = <<>>
    BY <2>2 DEF Unloaded
  <2> QED BY <1>6, <2>1, <2>3, <2>4
<1> QED BY <1>7, <1>8
-----------------------------------------------------------------------------
\* What loadList() adds, and the rows that it removes.
NewIn(l, d, rs) == {p \in Discovered(d, rs) : p[2] \notin Ids(l.rows)}
DeadIn(l, d, rs) == {k \in DOMAIN l.rows : \A p \in Discovered(d, rs) : p[2] # l.rows[k][2]}
LEMMA LoadParts ==
  ASSUME NEW l, NEW f, NEW d, NEW rs, IsList(l), IsFile(f), NEW r, r = LoadList(l, f, d, rs).list
  PROVE  /\ r.rows = RemoveRows(l.rows, DeadIn(l, d, rs)) \o SetToSeq(NewIn(l, d, rs))
         /\ r.of = IF NewIn(l, d, rs) # {} /\ ~l.loaded THEN LoadGroups(l, f).of ELSE l.of
<1> DEFINE read == NewIn(l, d, rs) # {} /\ GroupsUnread(l)
           m == IF read THEN LoadGroups(l, f) ELSE l
           rows == RemoveRows(m.rows, DeadIn(l, d, rs)) \o SetToSeq(NewIn(l, d, rs))
<1>1. r = [m EXCEPT !.rows = rows]
  BY DEF LoadList, NewIn, DeadIn
<1>2. IsList(m)
  BY GroupsRead
<1>3. m.rows = l.rows
  BY DEF LoadGroups, Unloaded
<1>4. m.of = IF NewIn(l, d, rs) # {} /\ ~l.loaded THEN LoadGroups(l, f).of ELSE l.of
  BY DEF GroupsUnread
<1>5. r = Build(rows, m.of, m.counts, m.collapsed, m.loaded)
  <2> HIDE DEF m, rows
  <2> QED BY <1>1, <1>2, Parts
<1>6. r.rows = rows /\ r.of = m.of
  <2> HIDE DEF m, rows
  <2> QED BY <1>5 DEF Build
<1>7. rows = RemoveRows(l.rows, DeadIn(l, d, rs)) \o SetToSeq(NewIn(l, d, rs))
  <2> HIDE DEF m
  <2> QED BY <1>3
<1> QED BY <1>4, <1>6, <1>7

\* What is discovered is on disk, and in the folders.
LEMMA Found ==
  ASSUME NEW d, d \subseteq Roots \X Id, NEW rs
  PROVE  Discovered(d, rs) \subseteq d /\ Discovered(d, rs) \subseteq Range(rs) \X Id
<1>1. ASSUME NEW p \in d, p[1] \in Range(rs) PROVE p \in Range(rs) \X Id
  <2>1. p \in Roots \X Id
    OBVIOUS
  <2> QED BY <1>1, <2>1
<1> QED BY <1>1 DEF Discovered

LEMMA IdsJoin ==
  ASSUME NEW D, NEW u \in Seq(D), NEW v \in Seq(D)
  PROVE  /\ u \o v \in Seq(D) /\ Ids(u \o v) = Ids(u) \cup Ids(v)
         /\ OneRowEach(u) /\ OneRowEach(v) /\ Ids(u) \cap Ids(v) = {} => OneRowEach(u \o v)
<1>1. /\ u \o v \in Seq(D) /\ Len(u \o v) = Len(u) + Len(v)
      /\ \A a \in 1 .. Len(u) + Len(v) : (u \o v)[a] = IF a <= Len(u) THEN u[a] ELSE v[a - Len(u)]
  BY ConcatProperties
<1> DEFINE w == u \o v
<1> HIDE DEF w
<1>2. /\ Len(u) \in Nat /\ DOMAIN u = 1 .. Len(u) /\ Len(v) \in Nat /\ DOMAIN v = 1 .. Len(v)
      /\ DOMAIN w = 1 .. Len(u) + Len(v)
  BY <1>1, LenProperties DEF w
<1>3. \A a \in DOMAIN u : a \in DOMAIN w /\ w[a] = u[a]
  BY <1>1, <1>2 DEF w
<1>4. \A a \in DOMAIN v : a + Len(u) \in DOMAIN w /\ w[a + Len(u)] = v[a]
  <2>1. ASSUME NEW a \in DOMAIN v PROVE a + Len(u) \in DOMAIN w /\ w[a + Len(u)] = v[a]
    <3>1. a + Len(u) \in 1 .. Len(u) + Len(v) /\ ~(a + Len(u) <= Len(u)) /\ a + Len(u) - Len(u) = a
      BY <1>2
    <3> QED BY <1>1, <1>2, <3>1 DEF w
  <2> QED BY <2>1
<1>5. ASSUME NEW a \in DOMAIN w PROVE w[a][2] \in Ids(u) \cup Ids(v)
  <2>1. CASE a <= Len(u)
    <3>1. a \in DOMAIN u /\ w[a] = u[a]
      BY <1>1, <1>2, <2>1 DEF w
    <3> QED BY <3>1 DEF Ids
  <2>2. CASE ~(a <= Len(u))
    <3>1. a - Len(u) \in DOMAIN v /\ w[a] = v[a - Len(u)]
      BY <1>1, <1>2, <2>2 DEF w
    <3> QED BY <3>1 DEF Ids
  <2> QED BY <2>1, <2>2
<1>6. Ids(w) = Ids(u) \cup Ids(v)
  BY <1>3, <1>4, <1>5 DEF Ids
<1>7. ASSUME OneRowEach(u), OneRowEach(v), Ids(u) \cap Ids(v) = {},
             NEW j \in DOMAIN w, NEW k \in DOMAIN w, w[j][2] = w[k][2]
      PROVE  j = k
  <2>1. ASSUME NEW a \in DOMAIN w, a <= Len(u)
        PROVE  a \in DOMAIN u /\ w[a] = u[a] /\ w[a][2] \in Ids(u)
    <3>1. a \in DOMAIN u /\ w[a] = u[a]
      BY <1>1, <1>2, <2>1 DEF w
    <3> QED BY <3>1 DEF Ids
  <2>2. ASSUME NEW a \in DOMAIN w, ~(a <= Len(u))
        PROVE  a - Len(u) \in DOMAIN v /\ w[a] = v[a - Len(u)] /\ w[a][2] \in Ids(v)
    <3>1. a - Len(u) \in DOMAIN v /\ w[a] = v[a - Len(u)]
      BY <1>1, <1>2, <2>2 DEF w
    <3> QED BY <3>1 DEF Ids
  <2>3. CASE j <= Len(u) /\ k <= Len(u)
    BY <1>7, <2>1, <2>3 DEF OneRowEach
  <2>4. CASE ~(j <= Len(u)) /\ ~(k <= Len(u))
    <3>1. j - Len(u) = k - Len(u)
      BY <1>7, <2>2, <2>4 DEF OneRowEach
    <3> QED BY <1>2, <3>1
  <2>5. CASE j <= Len(u) /\ ~(k <= Len(u))
    BY <1>7, <2>1, <2>2, <2>5
  <2>6. CASE ~(j <= Len(u)) /\ k <= Len(u)
    BY <1>7, <2>1, <2>2, <2>6
  <2> QED BY <2>3, <2>4, <2>5, <2>6
<1>8. OneRowEach(u) /\ OneRowEach(v) /\ Ids(u) \cap Ids(v) = {} => OneRowEach(w)
  BY <1>7 DEF OneRowEach
<1> QED BY <1>1, <1>6, <1>8 DEF w

\* Of one instance one folder is found.
LEMMA FoundOnce ==
  ASSUME NEW d, d \subseteq Roots \X Id, NEW rs \in RootLists,
         NEW p \in Discovered(d, rs), NEW q \in Discovered(d, rs), p[2] = q[2]
  PROVE  p = q
<1> DEFINE first(x) == CHOOSE n \in DOMAIN rs : rs[n] = x
<1>1. DOMAIN rs = 1 .. Len(rs) /\ Len(rs) \in Nat
  BY InstanceListAssumption, LenProperties
<1>2. ASSUME NEW x \in Range(rs)
      PROVE  first(x) \in DOMAIN rs /\ rs[first(x)] = x
  BY <1>2 DEF Range
<1>3. \A x : Before(rs, x) = {rs[k] : k \in 1 .. first(x) - 1}
  BY DEF Before
<1> HIDE DEF first
<1>4. ASSUME NEW x \in Discovered(d, rs), NEW y \in Discovered(d, rs), x[2] = y[2]
      PROVE  ~(first(x[1]) < first(y[1]))
  <2>1. /\ x \in d /\ x[1] \in Range(rs) /\ y[1] \in Range(rs) /\ x = <<x[1], x[2]>>
        /\ \A r \in Before(rs, y[1]) : <<r, y[2]>> \notin d
    BY DEF Discovered
  <2>2. CASE first(x[1]) < first(y[1])
    <3>1. first(x[1]) \in 1 .. first(y[1]) - 1 /\ rs[first(x[1])] = x[1]
      BY <1>1, <1>2, <2>1, <2>2
    <3>2. x[1] \in Before(rs, y[1])
      BY <1>3, <3>1
    <3> QED BY <1>4, <2>1, <3>2
  <2> QED BY <2>2
<1>5. p[1] \in Range(rs) /\ q[1] \in Range(rs) /\ p = <<p[1], p[2]>> /\ q = <<q[1], q[2]>>
  BY DEF Discovered
<1>6. first(p[1]) \in Nat /\ first(q[1]) \in Nat
  BY <1>1, <1>2, <1>5
<1>7. first(p[1]) = first(q[1])
  BY <1>4, <1>6
<1>8. p[1] = q[1]
  BY <1>2, <1>5, <1>7
<1> QED BY <1>5, <1>8

FoundIds(d, rs) == {p[2] : p \in Discovered(d, rs)}
InFolders(s, rs) == s \in Seq(Range(rs) \X Id)
\* A loaded list has the instances that are found, and no other: those that are
\* still there keep their rows, the new ones come after them.
LEMMA LoadRows ==
  ASSUME NEW l, NEW f, IsList(l), IsFile(f), NEW d, d \subseteq Roots \X Id, IsFiniteSet(d),
         NEW rs \in RootLists, InFolders(l.rows, rs), OneRowEach(l.rows),
         NEW r, r = LoadList(l, f, d, rs).list
  PROVE  InFolders(r.rows, rs) /\ OneRowEach(r.rows) /\ Ids(r.rows) = FoundIds(d, rs)
<1> DEFINE P == Range(rs) \X Id
           found == Discovered(d, rs)
<1>0. PICK s, new, dead : s = l.rows /\ new = NewIn(l, d, rs) /\ dead = DeadIn(l, d, rs)
  OBVIOUS
<1>1. found \subseteq P /\ IsFiniteSet(new) /\ new \in SUBSET P
  BY <1>0, Found, FS_Subset DEF NewIn
<1>2. PICK kept : kept = RemoveRows(s, dead)
  OBVIOUS
<1>3. PICK order : order = SetToSeq(new)
  OBVIOUS
<1>4. s \in Seq(P) /\ r.rows = kept \o order
  BY <1>0, <1>2, <1>3, LoadParts DEF InFolders
<1> HIDE DEF P, found
<1>5. kept \in Seq(P) /\ \E m : Embeds(m, kept, s, DOMAIN s \ dead)
  BY <1>2, <1>4, RowsRemoved
<1>6. order \in Seq(P) /\ Lists(order, new)
  BY <1>1, <1>3, SetInOrder
<1>7. /\ r.rows \in Seq(P) /\ Ids(r.rows) = Ids(kept) \cup Ids(order)
      /\ OneRowEach(kept) /\ OneRowEach(order) /\ Ids(kept) \cap Ids(order) = {}
           => OneRowEach(r.rows)
  BY <1>4, <1>5, <1>6, IdsJoin
<1>8. Ids(kept) = {s[k][2] : k \in DOMAIN s \ dead}
  <2>1. PICK m : Embeds(m, kept, s, DOMAIN s \ dead)
    BY <1>5
  <2>2. DOMAIN kept = 1 .. Len(kept)
    BY <1>5, LenProperties
  <2> QED BY <2>1, <2>2 DEF Embeds, Ids
<1>9. Ids(order) = {p[2] : p \in new}
  <2>1. DOMAIN order = 1 .. Len(order)
    BY <1>6, LenProperties
  <2> QED BY <1>6, <2>1 DEF Ids, Lists
<1>10. ASSUME NEW k \in DOMAIN s PROVE k \notin dead <=> \E p \in found : p[2] = s[k][2]
  BY <1>0 DEF DeadIn, found
<1>11. ASSUME NEW p \in found PROVE p \in new \/ \E k \in DOMAIN s : s[k][2] = p[2]
  BY <1>0 DEF NewIn, found, Ids
<1>12. new \subseteq found
  BY <1>0 DEF NewIn, found
<1>13. Ids(kept) \cup Ids(order) = {p[2] : p \in found}
  BY <1>8, <1>9, <1>10, <1>11, <1>12
<1>14. OneRowEach(kept)
  <2>1. PICK m : Embeds(m, kept, s, DOMAIN s \ dead)
    BY <1>5
  <2>2. DOMAIN kept = 1 .. Len(kept) /\ Len(kept) \in Nat /\ DOMAIN s = 1 .. Len(s) /\ Len(s) \in Nat
    BY <1>4, <1>5, LenProperties
  <2>3. ASSUME NEW j \in DOMAIN kept, NEW k \in DOMAIN kept, j # k PROVE m[j] # m[k]
    <3>1. m[j] \in Nat /\ m[k] \in Nat /\ (j < k \/ k < j)
      BY <2>1, <2>2, <2>3 DEF Embeds
    <3>2. (j < k => m[j] < m[k]) /\ (k < j => m[k] < m[j])
      BY <2>1, <2>2 DEF Embeds
    <3> QED BY <3>1, <3>2
  <2>4. ASSUME NEW j \in DOMAIN kept PROVE m[j] \in DOMAIN s /\ kept[j] = s[m[j]]
    BY <2>1, <2>2 DEF Embeds
  <2>5. OneRowEach(s)
    BY <1>0
  <2> QED BY <2>3, <2>4, <2>5 DEF OneRowEach
<1>15. OneRowEach(order)
  <2>1. DOMAIN order = 1 .. Len(order)
    BY <1>6, LenProperties
  <2>2. ASSUME NEW j \in DOMAIN order, NEW k \in DOMAIN order, order[j][2] = order[k][2]
        PROVE  j = k
    <3>1. order[j] \in Discovered(d, rs) /\ order[k] \in Discovered(d, rs)
      BY <1>6, <1>12, <2>1 DEF Lists, found
    <3>2. order[j] = order[k]
      BY <2>2, <3>1, FoundOnce
    <3> QED BY <1>6, <2>1, <3>2 DEF Lists
  <2> QED BY <2>2 DEF OneRowEach
<1>16. Ids(kept) \cap Ids(order) = {}
  <2>1. \A p \in new : p[2] \notin Ids(s)
    BY <1>0 DEF NewIn
  <2>2. Ids(kept) \subseteq Ids(s)
    BY <1>8 DEF Ids
  <2> QED BY <1>9, <2>1, <2>2
<1> QED BY <1>7, <1>13, <1>14, <1>15, <1>16 DEF P, found, InFolders, FoundIds

\* A folder that is not listed hides nothing.
LEMMA Elsewhere ==
  ASSUME NEW rs \in RootLists, NEW d, NEW e, NEW r, r \notin Range(rs), NEW i,
         e = d \cup {<<r, i>>} \/ e = d \ {<<r, i>>}
  PROVE  Discovered(e, rs) = Discovered(d, rs)
<1>1. rs \in Seq(Range(rs)) /\ Len(rs) \in Nat /\ DOMAIN rs = 1 .. Len(rs)
  BY InstanceListAssumption, LenProperties
<1>2. ASSUME NEW x \in Range(rs) PROVE Before(rs, x) \subseteq Range(rs)
  <2>1. \E n \in DOMAIN rs : rs[n] = x
    BY DEF Range
  <2>2. PICK n : n = CHOOSE k \in DOMAIN rs : rs[k] = x
    OBVIOUS
  <2>3. n \in DOMAIN rs
    BY <2>1, <2>2
  <2>4. ASSUME NEW k \in 1 .. n - 1 PROVE rs[k] \in Range(rs)
    BY <1>1, <2>3 DEF Range
  <2>5. Before(rs, x) = {rs[k] : k \in 1 .. n - 1}
    BY <2>2 DEF Before
  <2> QED BY <2>4, <2>5
<1>3. \A x \in Range(rs) : \A y : <<x, y>> \in e <=> <<x, y>> \in d
  OBVIOUS
<1>4. ASSUME NEW p, p[1] \in Range(rs) PROVE p \in e <=> p \in d
  <2>1. p # <<r, i>>
    BY <1>4
  <2> QED BY <2>1
<1>5. ASSUME NEW p, p[1] \in Range(rs)
      PROVE  (\A x \in Before(rs, p[1]) : <<x, p[2]>> \notin e)
               <=> (\A x \in Before(rs, p[1]) : <<x, p[2]>> \notin d)
  BY <1>2, <1>3, <1>5
<1> QED BY <1>4, <1>5 DEF Discovered
-----------------------------------------------------------------------------
\* The three ways in which a step leaves the list and the file: loaded, loaded
\* unless a game runs, and saved.
LEMMA AfterLoad ==
  ASSUME NEW l, NEW f, IsList(l), IsFile(f), Recorded(l, f), outlived' \/ Exact(l),
         NEW d, NEW rs, list' = LoadList(l, f, d, rs).list, file' \in LoadList(l, f, d, rs).files
  PROVE  Books'
<1>0. Fits(file', list', l, f) /\ IsList(list') /\ (Exact(l) => Exact(list'))
  BY LoadKeeps
<1>1. IsList(list') /\ IsFile(file') /\ Recorded(list', file') /\ (Exact(l) => Exact(list'))
  BY <1>0 DEF Fits
<1>2. outlived' \/ Exact(list')
  BY <1>1
<1> QED BY <1>1, <1>2 DEF Books, CountsExact, Exact, IsList, IsFile, Recorded, SameGroups, NoGroups

LEMMA AfterProvided ==
  ASSUME NEW l, NEW f, IsList(l), IsFile(f), Recorded(l, f), outlived' \/ Exact(l),
         list' = Provided(l, f).list, file' \in Provided(l, f).files
  PROVE  Books'
<1>1. CASE suspended
  <2>1. list' = l /\ file' = f
    BY <1>1 DEF Provided
  <2> QED BY <2>1 DEF Books, CountsExact, Exact, IsList, IsFile, Recorded, SameGroups, NoGroups
<1>2. CASE ~suspended
  BY <1>2, AfterLoad DEF Provided
<1> QED BY <1>1, <1>2

LEMMA AfterSave ==
  ASSUME NEW l, NEW f, IsList(l), IsFile(f), outlived' \/ Exact(l), list' = l, file' \in Saved(l, f)
  PROVE  Books'
<1>1. IsFile(file') /\ Recorded(list', file')
  BY SavedRecorded
<1> QED BY <1>1 DEF Books, CountsExact, Exact, IsList, IsFile, Recorded, SameGroups, NoGroups

LEMMA BooksStay ==
  ASSUME Books, UNCHANGED <<list, file, outlived>>
  PROVE  Books'
BY DEF Books, CountsExact, IsList, IsFile, Recorded, SameGroups, NoGroups

LEMMA StartExact ==
  ASSUME NEW f, NEW d, NEW rs, IsFile(f),
         NEW l, l = LoadList(Unloaded, f, d, rs).list, NEW g \in LoadList(Unloaded, f, d, rs).files
  PROVE  IsList(l) /\ IsFile(g) /\ Recorded(l, g) /\ Exact(l)
<1>1. IsList(Unloaded) /\ Recorded(Unloaded, f) /\ Exact(Unloaded)
  BY UnloadedExact
<1>2. IsList(l) /\ Fits(g, l, Unloaded, f) /\ Exact(l)
  BY <1>1, LoadKeeps
<1> QED BY <1>1, <1>2 DEF Fits

LEMMA StartShown ==
  ASSUME NEW f, IsFile(f), NEW d, d \subseteq Roots \X Id, IsFiniteSet(d), NEW rs \in RootLists,
         NEW l, l = LoadList(Unloaded, f, d, rs).list
  PROVE  InFolders(l.rows, rs) /\ OneRowEach(l.rows) /\ Ids(l.rows) = FoundIds(d, rs)
<1>1. PICK u : u = Unloaded
  OBVIOUS
<1>2. IsList(u) /\ u.rows = <<>>
  BY <1>1, UnloadedExact DEF Unloaded
<1>3. InFolders(u.rows, rs) /\ OneRowEach(u.rows)
  BY <1>2, EmptySeq DEF InFolders, OneRowEach
<1> QED BY <1>1, <1>2, <1>3, LoadRows

LEMMA ListExact == IInv => IsList(list) /\ IsFile(file) /\ Recorded(list, file) /\ (outlived \/ Exact(list))
BY DEF IInv, Books, CountsExact, Exact
-----------------------------------------------------------------------------
\* The steps that load the list again, or do not touch it.
LEMMA LoadSteps ==
  ASSUME IInv, \/ Restart \/ Refresh \/ Suspend \/ Resume
               \/ \E r \in Roots :
                    \/ DirectoryChanged(r)
                    \/ \E i \in Id, whole \in BOOLEAN :
                         ExternalAdd(r, i, whole) \/ ExternalRemove(r, i, whole)
               \/ \E rs \in RootLists : ChangeRoots(rs)
               \/ \E i \in Id : ChildUpdates(i)
               \/ StageNew \/ StageUpdate \/ ChildFails \/ CommitFails
               \/ UNCHANGED vars
  PROVE  Books'
<1> USE ListExact
<1>1. CASE Restart
  <2>1. IsList(Unloaded) /\ (outlived' \/ Exact(Unloaded))
    BY UnloadedExact
  <2>2. PICK f : f = [file EXCEPT !.behind = FALSE]
    OBVIOUS
  <2>3. IsFile(f) /\ Recorded(Unloaded, f)
    BY <2>2, Marked, UnloadedExact
  <2>4. list' = LoadList(Unloaded, f, disk, roots).list /\ file' \in LoadList(Unloaded, f, disk, roots).files
    BY <1>1, <2>2 DEF Restart, Started
  <2> QED BY <2>1, <2>3, <2>4, AfterLoad
<1>2. CASE Refresh
  BY <1>2, AfterLoad DEF Refresh
<1>3. CASE \/ Suspend \/ StageNew \/ StageUpdate \/ ChildFails \/ CommitFails \/ UNCHANGED vars
           \/ \E i \in Id : ChildUpdates(i)
  <2>1. UNCHANGED <<list, file, outlived>>
    BY <1>3 DEF Suspend, StageNew, StageUpdate, Stage, ChildUpdates, ChildFails, CommitFails, vars
  <2> QED BY <2>1, BooksStay DEF IInv
<1>4. CASE Resume
  <2>1. CASE dirty
    BY <1>4, <2>1, AfterLoad DEF Resume
  <2>2. CASE ~dirty
    BY <1>4, <2>2, BooksStay DEF Resume, IInv
  <2> QED BY <2>1, <2>2
<1>5. ASSUME NEW r \in Roots, DirectoryChanged(r) PROVE Books'
  <2>1. list' = Provided(list, file).list /\ file' \in Provided(list, file).files /\ outlived' = outlived
    BY <1>5 DEF DirectoryChanged, ProviderUpdated
  <2> QED BY <2>1, AfterProvided
<1>6. ASSUME NEW r \in Roots, NEW i \in Id, NEW whole \in BOOLEAN,
             ExternalAdd(r, i, whole) \/ ExternalRemove(r, i, whole)
      PROVE  Books'
  BY <1>6, BooksStay DEF ExternalAdd, ExternalRemove, IInv
<1>7. ASSUME NEW rs \in RootLists, ChangeRoots(rs) PROVE Books'
  <2> DEFINE l == [list EXCEPT !.rows = <<>>, !.loaded = FALSE]
  <2>1. PICK f \in IF list.loaded THEN Saved(list, file) ELSE {file} :
          list' = Provided(l, f).list /\ file' \in Provided(l, f).files /\ outlived' = outlived
    BY <1>7 DEF ChangeRoots, ProviderUpdated
  <2>2. l = Build(<<>>, list.of, list.counts, list.collapsed, FALSE)
    BY Emptied
  <2>3. IsFile(f)
    BY SavedRecorded
  <2> HIDE DEF l
  <2>4. /\ list.of \in [Id -> Groups] /\ list.counts \in [Group -> Nat]
        /\ list.collapsed \in SUBSET Group
    BY DEF IsList
  <2>5. IsList(l)
    BY <2>2, <2>4, Built
  <2>6. l.rows = <<>> /\ l.loaded = FALSE /\ l.of = list.of /\ l.counts = list.counts
    BY <2>2 DEF Build
  <2>7. Recorded(l, f) /\ (Exact(list) => Exact(l))
    BY <2>6 DEF Recorded, Exact
  <2> QED BY <2>1, <2>3, <2>5, <2>7, AfterProvided
<1> QED BY <1>1, <1>2, <1>3, <1>4, <1>5, <1>6, <1>7
-----------------------------------------------------------------------------
\* What the user does to groups: no row moves, and of one instance the group.
RowsStay == list'.rows = list.rows
Regroups(i) == RowsStay /\ \A j \in Id : j # i => list'.of[j] = list.of[j]
LEMMA SetGroupKeeps ==
  ASSUME IInv, NEW i \in Id, NEW g \in Groups, SetGroup(i, g)
  PROVE  Books' /\ Regroups(i)
<1> USE ListExact
<1>0. PICK h : h = list.of[i]
  OBVIOUS
<1>1. PICK d : d = Decrease(list, h)
  OBVIOUS
<1>8. h \in Groups
  BY <1>0 DEF IsList
<1>9. IsList(d) /\ Lowered(list, d, h)
  BY <1>1, <1>8, Decreased
<1>2. PICK m : m = Grouped(d, i, NoGroup)
  OBVIOUS
<1>3. PICK l : l = Increase(Grouped(d, i, g), g)
  OBVIOUS
<1>4. /\ IsList(m) /\ m.of[i] = NoGroup /\ (Exact(list) => Exact(m))
      /\ m.of = [list.of EXCEPT ![i] = NoGroup] /\ SameRows(list, m)
  BY <1>0, <1>2, <1>9, Leaves
<1>5. l = Increase(Grouped(m, i, g), g)
  <2>2. IsList(d)
    BY <1>9
  <2>3. Grouped(m, i, g) = Grouped(d, i, g)
    BY <1>2, <2>2, Overwritten
  <2> QED BY <1>3, <2>3
<1>6. /\ IsList(l) /\ (Exact(m) => Exact(l))
      /\ Moved(m, l, i, g)
  BY <1>4, <1>5, Joins
<1>7. list' = l /\ file' \in Saved(l, file) /\ outlived' = outlived
  BY <1>0, <1>1, <1>3 DEF SetGroup, GroupOf, Grouped
<1>10. Regroups(i)
  BY <1>4, <1>6, <1>7 DEF Regroups, RowsStay, Moved, SameRows, IsList
<1> QED BY <1>4, <1>6, <1>7, <1>10, AfterSave

LEMMA DeleteGroupKeeps ==
  ASSUME IInv, NEW g \in Group, DeleteGroup(g)
  PROVE  Books' /\ RowsStay
<1> USE ListExact
<1> DEFINE c == [list.counts EXCEPT ![g] = 0]
           k == list.collapsed \ {g}
           of == [i \in Id |-> IF i \in Listed /\ list.of[i] = g THEN NoGroup ELSE list.of[i]]
           l == [list EXCEPT !.counts[g] = 0, !.collapsed = @ \ {g}, !.of = of]
<1>1. list' = l /\ file' \in Saved(l, file) /\ Outlives(Members(list.of, g))
  BY DEF DeleteGroup
<1>2. list.of \in [Id -> Groups] /\ list.counts \in [Group -> Nat] /\ list.collapsed \in SUBSET Group
  BY DEF IsList
<1>3. l = Build(list.rows, of, c, k, list.loaded)
  <2>1. l = [list EXCEPT !.counts = c, !.collapsed = k, !.of = of]
    OBVIOUS
  <2> HIDE DEF l, of, c, k
  <2> QED BY <2>1, Regrouped
<1>4. of \in [Id -> Groups] /\ c \in [Group -> Nat] /\ k \in SUBSET Group
  BY <1>2 DEF Groups
<1>5. IsList(l)
  <2> HIDE DEF l, of, c, k
  <2> QED BY <1>3, <1>4, Built
<1>6. ASSUME ~outlived', NEW h \in Group PROVE l.counts[h] = Cardinality(Members(l.of, h))
  <2>1. Exact(list) /\ Members(list.of, g) \subseteq Listed
    BY <1>1, <1>6 DEF Outlives
  <2>2. Members(of, h) = IF h = g THEN {} ELSE Members(list.of, h)
    BY <1>2, <2>1, InstanceListAssumption DEF Members
  <2>3. c[h] = IF h = g THEN 0 ELSE Cardinality(Members(list.of, h))
    BY <1>2, <2>1 DEF Exact
  <2>4. l.counts = c /\ l.of = of
    BY <1>3 DEF Build
  <2> HIDE DEF l, of, c
  <2> QED BY <2>2, <2>3, <2>4, FS_EmptySet
<1>7. outlived' \/ Exact(l)
  BY <1>6 DEF Exact
<1>8. RowsStay
  BY <1>1, <1>3 DEF Build, RowsStay
<1> HIDE DEF l
<1> QED BY <1>1, <1>5, <1>7, <1>8, AfterSave

LEMMA RenameGroupKeeps ==
  ASSUME IInv, NEW g \in Group, NEW h \in Group, RenameGroup(g, h)
  PROVE  Books' /\ RowsStay
<1> USE ListExact
<1> DEFINE moved == Members(list.of, g) \cap Listed
           c0 == [list.counts EXCEPT ![g] = 0]
           c == [c0 EXCEPT ![h] = @ + Cardinality(moved)]
           k == IF g \in list.collapsed THEN (list.collapsed \ {g}) \cup {h} ELSE list.collapsed
           of == [i \in Id |-> IF i \in moved THEN h ELSE list.of[i]]
           e == [list EXCEPT !.counts[g] = 0, !.collapsed = IF g \in @ THEN (@ \ {g}) \cup {h} ELSE @,
                             !.of = of]
           l == Counted(e, moved, h)
<1>1. list' = l /\ file' \in Saved(l, file) /\ Outlives(Members(list.of, g)) /\ h \notin GetGroups \cup {g}
  BY DEF RenameGroup
<1>2. list.of \in [Id -> Groups] /\ list.counts \in [Group -> Nat] /\ list.collapsed \in SUBSET Group
  BY DEF IsList
<1>3. moved \subseteq Members(list.of, g) /\ Cardinality(moved) \in Nat
  BY MembersFinite, FS_Subset, FS_CardinalityType
<1>4. of \in [Id -> Groups] /\ c0 \in [Group -> Nat] /\ k \in SUBSET Group
  BY <1>2 DEF Groups
<1>5. e = Build(list.rows, of, c0, k, list.loaded)
  <2>1. e = [list EXCEPT !.counts = c0, !.collapsed = k, !.of = of]
    OBVIOUS
  <2> HIDE DEF e, of, c0, k
  <2> QED BY <2>1, Regrouped
<1>6. c \in [Group -> Nat]
  BY <1>3, <1>4
<1>7. l = Build(list.rows, of, c, k, list.loaded)
  <2>1. l = [e EXCEPT !.counts = [e.counts EXCEPT ![h] = @ + Cardinality(moved)]]
    BY DEF Counted
  <2> HIDE DEF e, of, c0, k, l, moved
  <2>2. IsList(e)
    BY <1>4, <1>5, Built
  <2>3. l = Build(e.rows, e.of, [e.counts EXCEPT ![h] = @ + Cardinality(moved)], e.collapsed, e.loaded)
    BY <2>1, <2>2, Parts
  <2> QED BY <1>5, <2>3 DEF Build
<1>8. IsList(l)
  <2> HIDE DEF l, of, c, k
  <2> QED BY <1>4, <1>6, <1>7, Built
<1>9. ASSUME ~outlived', NEW x \in Group PROVE l.counts[x] = Cardinality(Members(l.of, x))
  <2>1. Exact(list) /\ moved = Members(list.of, g)
    BY <1>1, <1>9 DEF Outlives
  <2>2. g # h /\ list.counts[h] = 0
    BY <1>1, <1>2 DEF GetGroups
  <2>3. Members(list.of, h) = {}
    BY <2>1, <2>2, MembersFinite DEF Exact
  <2>4. \A i \in Id : of[i] = IF i \in moved THEN h ELSE list.of[i]
    OBVIOUS
  <2>5. \A i \in Id : i \in moved <=> list.of[i] = g
    BY <2>1 DEF Members
  <2>6. \A i \in Id : list.of[i] # h
    BY <2>3 DEF Members
  <2>7. Members(of, x) = IF x = g THEN {} ELSE IF x = h THEN moved ELSE Members(list.of, x)
    <3> HIDE DEF of, moved
    <3>1. \A i \in Id : of[i] = x <=> IF list.of[i] = g THEN x = h ELSE list.of[i] = x
      BY <2>4, <2>5
    <3>2. moved = {i \in Id : list.of[i] = g}
      BY <2>1 DEF Members
    <3> QED BY <2>2, <2>6, <3>1, <3>2 DEF Members
  <2>8. c[x] = IF x = g THEN 0 ELSE IF x = h THEN Cardinality(moved) ELSE Cardinality(Members(list.of, x))
    <3>1. c0[x] = IF x = g THEN 0 ELSE list.counts[x]
      BY <1>2
    <3>2. c[x] = IF x = h THEN c0[h] + Cardinality(moved) ELSE c0[x]
      BY <1>4
    <3>3. c0[h] = 0
      BY <1>2, <2>2
    <3> HIDE DEF c, c0, moved
    <3> QED BY <1>3, <2>1, <2>2, <3>1, <3>2, <3>3 DEF Exact
  <2>9. l.counts = c /\ l.of = of
    <3> HIDE DEF l, of, c
    <3> QED BY <1>7 DEF Build
  <2> HIDE DEF l, of, c, moved
  <2> QED BY <2>7, <2>8, <2>9, FS_EmptySet
<1>10. outlived' \/ Exact(l)
  BY <1>9 DEF Exact
<1> HIDE DEF l
<1>11. RowsStay
  <2> HIDE DEF of, c, k
  <2> QED BY <1>1, <1>7 DEF Build, RowsStay
<1> QED BY <1>1, <1>8, <1>10, <1>11, AfterSave

LEMMA CollapseKeeps ==
  ASSUME IInv, NEW g \in Group, Collapse(g)
  PROVE  Books' /\ RowsStay /\ list'.of = list.of
<1> USE ListExact
<1> DEFINE k == IF g \in list.collapsed THEN list.collapsed \ {g} ELSE list.collapsed \cup {g}
           l == [list EXCEPT !.collapsed = IF g \in @ THEN @ \ {g} ELSE @ \cup {g}]
<1>1. list' = l /\ file' \in Saved(l, file) /\ outlived' = outlived
  BY DEF Collapse
<1>2. list.of \in [Id -> Groups] /\ list.counts \in [Group -> Nat] /\ k \in SUBSET Group
  BY DEF IsList
<1>3. l = Build(list.rows, list.of, list.counts, k, list.loaded)
  BY Parts
<1> HIDE DEF l, k
<1>4. IsList(l) /\ l.of = list.of /\ l.counts = list.counts /\ l.rows = list.rows
  BY <1>2, <1>3, Built DEF Build
<1>5. outlived' \/ Exact(l)
  BY <1>1, <1>4 DEF Exact
<1> QED BY <1>1, <1>4, <1>5, AfterSave DEF RowsStay

\* A removal, with or without the trash.
LEMMA RemovalKeeps ==
  ASSUME IInv, NEW i \in Id, list' = Ungrouped(i), file' \in Saved(Ungrouped(i), file),
         outlived' = outlived
  PROVE  Books' /\ Regroups(i)
<1> USE ListExact
<1>1. PICK h : h = list.of[i]
  OBVIOUS
<1>2. PICK d : d = Decrease(list, h)
  OBVIOUS
<1>3. PICK m : m = Grouped(d, i, NoGroup)
  OBVIOUS
<1>4. h \in Groups
  BY <1>1 DEF IsList
<1>5. IsList(d) /\ Lowered(list, d, h)
  BY <1>2, <1>4, Decreased
<1>6. /\ IsList(m) /\ (Exact(list) => Exact(m))
      /\ m.of = [list.of EXCEPT ![i] = NoGroup] /\ SameRows(list, m)
  BY <1>1, <1>3, <1>5, Leaves
<1>7. Ungrouped(i) = m
  BY <1>1, <1>2, <1>3 DEF Ungrouped, GroupOf, Grouped
<1>8. Regroups(i)
  BY <1>6, <1>7 DEF Regroups, RowsStay, SameRows, IsList
<1> QED BY <1>6, <1>7, <1>8, AfterSave

LEMMA LastEntry ==
  ASSUME TrashOK(trash), trash # <<>>
  PROVE  EntryOK(Last(trash))
<1>1. trash \in Seq({e \in Range(trash) : EntryOK(e)})
  BY DEF TrashOK
<1>2. trash[Len(trash)] \in {e \in Range(trash) : EntryOK(e)}
  BY <1>1
<1> QED BY <1>2 DEF Last

LEMMA UndoKeeps ==
  ASSUME IInv, Undo
  PROVE  Books'
<1> USE ListExact
<1>1. CASE UNCHANGED <<list, file, outlived>>
  BY <1>1, BooksStay DEF IInv
<1>2. ASSUME NEW i \in Id, NEW l, l = Increase(Grouped(list, i, Last(trash).group), Last(trash).group),
             NEW f \in Saved(l, file), list' = Provided(l, f).list, file' \in Provided(l, f).files,
             outlived' = (outlived \/ GroupOf(i) # NoGroup), trash # <<>>
      PROVE  Books'
  <2>1. PICK g : g = Last(trash).group
    OBVIOUS
  <2>2. g \in Groups
    <3>1. EntryOK(Last(trash))
      BY <1>2, LastEntry DEF IInv
    <3> QED BY <2>1, <3>1 DEF EntryOK
  <2>3. IsList(l) /\ (Exact(list) /\ list.of[i] = NoGroup => Exact(l))
    BY <1>2, <2>1, <2>2, Joins
  <2>4. outlived' \/ Exact(l)
    BY <1>2, <2>3 DEF GroupOf
  <2>5. IsFile(f) /\ Recorded(l, f)
    BY <1>2, <2>3, SavedRecorded
  <2> QED BY <1>2, <2>3, <2>4, <2>5, AfterProvided
<1> QED BY <1>1, <1>2 DEF Undo, ProviderUpdated, Grouped

LEMMA CommitKeeps ==
  ASSUME IInv, Commit
  PROVE  Books'
<1> USE ListExact
<1>1. PICK l, i, f :
        /\ i \in Id
        /\ l = IF stage.update = {} THEN Increase(Grouped(list, i, stage.group), stage.group) ELSE list
        /\ stage.state # "none"
        /\ list' = Provided(l, file).list
        /\ f \in Provided(l, file).files /\ file' \in Saved(list', f)
        /\ outlived' = (outlived \/ (stage.update = {} /\ GroupOf(i) # NoGroup))
  BY DEF Commit, ProviderUpdated, Grouped
<1>2. IsList(l) /\ (outlived' \/ Exact(l))
  <2>1. CASE stage.update = {}
    <3>1. PICK g : g = stage.group
      OBVIOUS
    <3>2. g \in Groups
      BY <1>1, <3>1 DEF IInv, StageOK
    <3>3. l = Increase(Grouped(list, i, g), g)
      BY <1>1, <2>1, <3>1
    <3>4. IsList(l) /\ (Exact(list) /\ list.of[i] = NoGroup => Exact(l))
      <4>1. i \in Id
        BY <1>1
      <4> QED BY <3>2, <3>3, <4>1, Joins
    <3> QED BY <1>1, <2>1, <3>4 DEF GroupOf
  <2>2. CASE stage.update # {}
    BY <1>1, <2>2
  <2> QED BY <2>1, <2>2
<1>3. PICK m : m = Provided(l, file).list
  OBVIOUS
<1>4. IsList(m) /\ IsFile(f) /\ (Exact(l) => Exact(m))
  <2>1. CASE suspended
    BY <1>1, <1>2, <1>3, <2>1 DEF Provided
  <2>2. CASE ~suspended
    <3>1. m = LoadList(l, file, disk', roots').list /\ f \in LoadList(l, file, disk', roots').files
      BY <1>1, <1>3, <2>2 DEF Provided
    <3>2. IsList(m) /\ (Exact(l) => Exact(m)) /\ Fits(f, m, l, file)
      BY <1>2, <3>1, LoadKeeps
    <3> QED BY <3>2 DEF Fits
  <2> QED BY <2>1, <2>2
<1> QED BY <1>1, <1>2, <1>3, <1>4, AfterSave
-----------------------------------------------------------------------------
\* A row is of an instance in a listed folder.
LEMMA RowListed ==
  ASSUME IInv, NEW i \in Listed
  PROVE  /\ RowOf(i) \in Range(roots) \X Id /\ RowOf(i) \in Roots \X Id
         /\ RowOf(i)[2] = i /\ RowOf(i)[1] \in Range(roots)
<1>1. list.rows \in Seq(Range(roots) \X Id) /\ Range(roots) \subseteq Roots
  BY DEF IInv, Shelf, Folders, Roots
<1>2. \A k \in DOMAIN list.rows : list.rows[k] \in Range(roots) \X Id
  BY <1>1, ElementOfSeq, LenProperties
<1>3. \E row \in Range(list.rows) : row[2] = i
  BY DEF Listed, Ids, Range
<1>4. RowOf(i) \in Range(list.rows) /\ RowOf(i)[2] = i
  BY <1>3 DEF RowOf
<1>5. RowOf(i) \in Range(roots) \X Id
  BY <1>2, <1>4 DEF Range
<1>6. \A x \in Range(roots) \X Id : x[1] \in Range(roots) /\ x \in Roots \X Id
  BY <1>1
<1> HIDE DEF RowOf
<1> QED BY <1>4, <1>5, <1>6

LEMMA TrashAppend ==
  ASSUME NEW s, TrashOK(s), NEW e, EntryOK(e)
  PROVE  TrashOK(Append(s, e))
<1> DEFINE a == Append(s, e)
           S == {x \in Range(s) : EntryOK(x)}
           T == {x \in Range(a) : EntryOK(x)}
<1>1. s \in Seq(S)
  BY DEF TrashOK
<1>2. a \in Seq(S \cup {e}) /\ Len(a) = Len(s) + 1
  BY <1>1
<1>3. \A k \in 1 .. Len(a) : a[k] \in Range(a) /\ EntryOK(a[k])
  <2>1. \A k \in 1 .. Len(a) : a[k] \in S \cup {e}
    BY <1>2
  <2>2. DOMAIN a = 1 .. Len(a)
    BY <1>2
  <2> QED BY <2>1, <2>2 DEF Range
<1>4. a \in Seq(T)
  <2>1. a = [k \in 1 .. Len(a) |-> a[k]] /\ Len(a) \in Nat
    <3> HIDE DEF a
    <3> QED BY <1>2
  <2> HIDE DEF a
  <2> QED BY <1>3, <2>1
<1> QED BY <1>4 DEF TrashOK

LEMMA TrashFront ==
  ASSUME NEW s, TrashOK(s), s # <<>>
  PROVE  TrashOK(Front(s))
<1> DEFINE a == Front(s)
           S == {x \in Range(s) : EntryOK(x)}
           T == {x \in Range(a) : EntryOK(x)}
<1>1. s \in Seq(S)
  BY DEF TrashOK
<1>2. a \in Seq(S)
  BY <1>1 DEF Front
<1>3. \A k \in 1 .. Len(a) : a[k] \in Range(a) /\ EntryOK(a[k])
  <2>1. \A k \in 1 .. Len(a) : a[k] \in S
    BY <1>2
  <2>2. DOMAIN a = 1 .. Len(a)
    BY <1>2
  <2> QED BY <2>1, <2>2 DEF Range
<1>4. a \in Seq(T)
  <2>1. a = [k \in 1 .. Len(a) |-> a[k]] /\ Len(a) \in Nat
    BY <1>2
  <2> HIDE DEF a
  <2> QED BY <1>3, <2>1
<1> QED BY <1>4 DEF TrashOK

\* The groups that are kept for an undo and for a commit are groups.
LEMMA TrashKept ==
  ASSUME IInv, [Next]_vars
  PROVE  TrashOK(trash')
<1>1. TrashOK(trash) /\ IsList(list)
  BY ListExact DEF IInv
<1>2. ASSUME NEW i \in Id, Trash(i) PROVE TrashOK(trash')
  <2>1. PICK e : e = [at |-> RowOf(i), group |-> GroupOf(i)]
    OBVIOUS
  <2>2. EntryOK(e)
    <3>1. RowOf(i) \in Roots \X Id
      BY <1>2, RowListed DEF Trash
    <3> QED BY <1>1, <2>1, <3>1 DEF GroupOf, IsList, EntryOK
  <2> QED BY <1>1, <1>2, <2>1, <2>2, TrashAppend DEF Trash
<1>3. CASE Undo
  BY <1>1, <1>3, TrashFront DEF Undo
<1>4. CASE Restart
  <2>1. trash' = <<>>
    BY <1>4 DEF Restart, Started
  <2> QED BY <2>1 DEF TrashOK
<1>5. CASE UNCHANGED trash
  BY <1>1, <1>5
<1>6. \/ Undo \/ Restart \/ (\E i \in Id : Trash(i)) \/ UNCHANGED trash
  BY DEF Next, vars, Refresh, Suspend, Resume, DirectoryChanged, ExternalAdd, ExternalRemove,
         ChangeRoots, Delete, SetGroup, DeleteGroup, Collapse, RenameGroup, StageNew, StageUpdate,
         Stage, ChildUpdates, ChildFails, Commit, CommitFails
<1> QED BY <1>2, <1>3, <1>4, <1>5, <1>6

LEMMA StageKept ==
  ASSUME IInv, [Next]_vars
  PROVE  StageOK'
<1>1. IsList(list) /\ StageOK
  BY ListExact DEF IInv
<1>2. ASSUME NEW r \in Range(roots), NEW of, NEW g \in Groups, Stage(r, of, g) PROVE StageOK'
  BY <1>2 DEF Stage, StageOK
<1>3. CASE StageNew
  BY <1>2, <1>3 DEF StageNew, Groups
<1>4. CASE StageUpdate
  <2>1. PICK i \in Id \cap Listed : Stage(Head(roots), {i}, GroupOf(i))
    BY <1>4 DEF StageUpdate
  <2>2. Head(roots) \in Range(roots)
    <3>1. roots \in Seq(Range(roots))
      BY InstanceListAssumption DEF IInv, Folders
    <3>2. Range(roots) # {}
      BY RowListed
    <3>3. Len(roots) \in Nat /\ DOMAIN roots = 1 .. Len(roots)
      BY <3>1, LenProperties
    <3>4. 1 \in DOMAIN roots
      BY <3>2, <3>3 DEF Range
    <3> QED BY <3>1, <3>3, <3>4, HeadTailProperties DEF Range
  <2> QED BY <1>1, <1>2, <2>1, <2>2 DEF GroupOf, IsList
<1>5. CASE stage' = NoStage
  BY <1>5 DEF StageOK, NoStage
<1>6. CASE /\ stage.state # "none" /\ roots' = roots
           /\ stage' = [stage EXCEPT !.state = "retrying", !.backoff = 2 * @]
  BY <1>1, <1>6 DEF StageOK
<1>7. CASE UNCHANGED <<stage, roots>>
  BY <1>1, <1>7 DEF StageOK
<1>9. ASSUME NEW i \in Id, ChildUpdates(i) PROVE StageOK'
  BY <1>1, <1>9 DEF ChildUpdates, StageOK
<1>8. \/ StageNew \/ StageUpdate \/ stage' = NoStage \/ UNCHANGED <<stage, roots>>
      \/ \E i \in Id : ChildUpdates(i)
      \/ /\ stage.state # "none" /\ roots' = roots
         /\ stage' = [stage EXCEPT !.state = "retrying", !.backoff = 2 * @]
  BY DEF Next, vars, Restart, Started, Undo, Refresh, Suspend, Resume, DirectoryChanged, ExternalAdd,
         ExternalRemove, ChangeRoots, Trash, Delete, SetGroup, DeleteGroup, Collapse, RenameGroup,
         ChildFails, Commit, CommitFails, UserOp
<1> QED BY <1>3, <1>4, <1>5, <1>6, <1>7, <1>8, <1>9
-----------------------------------------------------------------------------
\* The folders stay what they may be.
LEMMA FoldersKept ==
  ASSUME IInv, [Next]_vars
  PROVE  Folders'
<1>1. roots \in RootLists /\ disk \subseteq Roots \X Id /\ IsFiniteSet(disk)
  BY DEF IInv, Folders
<1>2. Range(roots) \subseteq Roots
  BY <1>1 DEF Roots
<1> DEFINE Adds == \E p \in Roots \X Id : disk' = disk \cup {p}
           Drops == \E p : disk' = disk \ {p}
           Fine == disk' \subseteq Roots \X Id /\ IsFiniteSet(disk')
<1>3. ASSUME Adds PROVE Fine
  <2>1. PICK p \in Roots \X Id : disk' = disk \cup {p}
    BY <1>3
  <2>2. IsFiniteSet(disk \cup {p})
    BY <1>1, FS_AddElement
  <2> QED BY <1>1, <2>1, <2>2
<1>4. ASSUME Drops PROVE Fine
  <2>1. disk' \subseteq disk
    BY <1>4
  <2>2. IsFiniteSet(disk')
    BY <1>1, <2>1, FS_Subset
  <2> QED BY <1>1, <2>1, <2>2
<1>5. Fine
  <2>1. ASSUME NEW r \in Roots, NEW i \in Id, NEW whole \in BOOLEAN, ExternalAdd(r, i, whole) PROVE Adds
    BY <2>1 DEF ExternalAdd
  <2>2. ASSUME NEW r \in Roots, NEW i \in Id, NEW whole \in BOOLEAN, ExternalRemove(r, i, whole)
        PROVE  Drops
    BY <2>2 DEF ExternalRemove
  <2>3. ASSUME NEW i \in Id, Trash(i) \/ Delete(i)
        PROVE  Drops \/ disk' = disk
    BY <2>3 DEF Trash, Delete
  <2>4. CASE Undo
    <3>1. EntryOK(Last(trash))
      BY <2>4, LastEntry DEF Undo, IInv
    <3>2. Last(trash).at[1] \in Roots
      BY <3>1 DEF EntryOK
    <3>3. \/ disk' = disk
          \/ \E i \in Id : disk' = disk \cup {<<Last(trash).at[1], i>>}
      BY <2>4 DEF Undo
    <3>4. disk' = disk \/ Adds
      BY <3>2, <3>3
    <3> QED BY <1>1, <1>3, <3>4
  <2>5. CASE Commit \/ CommitFails
    <3>1. stage.target \in Roots
      BY <1>2, <2>5 DEF Commit, CommitFails, IInv, StageOK
    <3>2. \/ disk' = disk
          \/ \E i \in Id : disk' = disk \cup {<<stage.target, i>>}
      BY <2>5 DEF Commit, CommitFails
    <3>3. disk' = disk \/ Adds
      BY <3>1, <3>2
    <3> QED BY <1>1, <1>3, <3>3
  <2>6. CASE disk' = disk
    BY <1>1, <2>6
  <2>7. \/ Undo \/ Commit \/ CommitFails \/ disk' = disk
        \/ \E r \in Roots, i \in Id, whole \in BOOLEAN :
             ExternalAdd(r, i, whole) \/ ExternalRemove(r, i, whole)
        \/ \E i \in Id : Trash(i) \/ Delete(i)
    BY DEF Next, vars, Restart, Refresh, Suspend, Resume, DirectoryChanged, ChangeRoots, ChildUpdates,
           SetGroup, DeleteGroup, Collapse, RenameGroup, StageNew, StageUpdate, Stage, ChildFails
  <2>8. disk' = disk => Fine
    BY <1>1
  <2> HIDE DEF Adds, Drops, Fine
  <2> QED BY <2>8, <1>3, <1>4, <2>1, <2>2, <2>3, <2>4, <2>5, <2>6, <2>7
<1>6. roots' \in RootLists
  <2>1. roots' = roots \/ \E rs \in RootLists : roots' = rs
    BY DEF Next, vars, Restart, Refresh, Suspend, Resume, DirectoryChanged, ChangeRoots, Undo,
           ExternalAdd, ExternalRemove, Trash, Delete, SetGroup, DeleteGroup, Collapse, RenameGroup,
           StageNew, StageUpdate, Stage, ChildUpdates, ChildFails, Commit, CommitFails
  <2> QED BY <1>1, <2>1
<1> QED BY <1>5, <1>6 DEF Folders
-----------------------------------------------------------------------------
\* The ways in which a step leaves the rows: loaded, loaded unless a game runs, and
\* as they were, on a disk that did not change, or in a folder that tells of it.
LEMMA ShelfLoaded ==
  ASSUME Folders', NEW l, NEW f, IsList(l), IsFile(f), InFolders(l.rows, roots'), OneRowEach(l.rows),
         list' = LoadList(l, f, disk', roots').list
  PROVE  Shelf'
<1>1. PICK d, rs, r : d = disk' /\ rs = roots' /\ r = list'
  OBVIOUS
<1>2. InFolders(r.rows, rs) /\ OneRowEach(r.rows) /\ Ids(r.rows) = FoundIds(d, rs)
  <2>1. d \subseteq Roots \X Id /\ IsFiniteSet(d) /\ InFolders(l.rows, rs) /\ rs \in RootLists
    BY <1>1 DEF Folders
  <2>2. r = LoadList(l, f, d, rs).list
    BY <1>1
  <2> QED BY <2>1, <2>2, LoadRows
<1> QED BY <1>1, <1>2 DEF Shelf, ReloadDue, Listed, InFolders, FoundIds

LEMMA ShelfProvided ==
  ASSUME Folders', NEW l, NEW f, IsList(l), IsFile(f), InFolders(l.rows, roots'), OneRowEach(l.rows),
         ProviderUpdated(l, f)
  PROVE  Shelf'
<1>1. CASE suspended
  BY <1>1 DEF ProviderUpdated, Provided, Shelf, ReloadDue, InFolders
<1>2. CASE ~suspended
  BY <1>2, ShelfLoaded DEF ProviderUpdated, Provided
<1> QED BY <1>1, <1>2

LEMMA ShelfStays ==
  ASSUME Shelf, RowsStay, UNCHANGED <<disk, roots>>,
         dirty => dirty', missed => missed', notify # {} => notify' # {} \/ missed'
  PROVE  Shelf'
BY DEF Shelf, RowsStay, ReloadDue, Listed

LEMMA ShelfChanged ==
  ASSUME Shelf, Folders, RowsStay, roots' = roots, NEW r, NEW i, NEW whole \in BOOLEAN,
         FolderChanged(r, whole),
         disk' = disk \cup {<<r, i>>} \/ disk' = disk \ {<<r, i>>}
  PROVE  Shelf'
<1>1. PICK rs, d, e : rs = roots /\ d = disk /\ e = disk'
  OBVIOUS
<1>2. CASE whole /\ r \in watched
  BY <1>2 DEF FolderChanged, Shelf, RowsStay, ReloadDue
<1>3. CASE r \in Range(roots) /\ ~(whole /\ r \in watched)
  BY <1>3 DEF FolderChanged, Shelf, RowsStay, ReloadDue
<1>4. CASE r \notin Range(roots)
  <2>1. rs \in RootLists /\ r \notin Range(rs) /\ (e = d \cup {<<r, i>>} \/ e = d \ {<<r, i>>})
    BY <1>1, <1>4 DEF Folders
  <2>2. Discovered(e, rs) = Discovered(d, rs)
    BY <2>1, Elsewhere
  <2>3. /\ dirty' = dirty /\ (missed => missed') /\ (notify # {} => notify' # {})
    BY DEF FolderChanged
  <2> QED BY <1>1, <2>2, <2>3 DEF Shelf, RowsStay, ReloadDue, Listed
<1> QED BY <1>2, <1>3, <1>4

\* A list that lost its rows.
LEMMA NoRows ==
  ASSUME NEW l, IsList(l), NEW m, m = [l EXCEPT !.rows = <<>>, !.loaded = FALSE]
  PROVE  IsList(m) /\ m.rows = <<>> /\ m.loaded = FALSE /\ m.of = l.of
<1>1. m = Build(<<>>, l.of, l.counts, l.collapsed, FALSE)
  BY Emptied
<1>2. l.of \in [Id -> Groups] /\ l.counts \in [Group -> Nat] /\ l.collapsed \in SUBSET Group
  BY DEF IsList
<1>3. IsList(m)
  BY <1>1, <1>2 DEF IsList, Build
<1> QED BY <1>1, <1>3 DEF Build

LEMMA ShelfKept ==
  ASSUME IInv, [Next]_vars
  PROVE  Shelf'
<1>1. /\ Shelf /\ Folders /\ IsList(list) /\ IsFile(file) /\ Folders'
      /\ InFolders(list.rows, roots) /\ OneRowEach(list.rows)
  BY ListExact, FoldersKept DEF IInv, Shelf, InFolders
<1>2. CASE Restart
  <2>0. PICK f : f = [file EXCEPT !.behind = FALSE]
    OBVIOUS
  <2>1. list' = LoadList(Unloaded, f, disk', roots').list /\ IsFile(f)
    BY <1>1, <1>2, <2>0, Marked DEF Restart, Started
  <2>2. PICK u : u = Unloaded
    OBVIOUS
  <2>3. IsList(u) /\ u.rows = <<>>
    BY <2>2, UnloadedExact DEF Unloaded
  <2>4. InFolders(u.rows, roots') /\ OneRowEach(u.rows)
    BY <2>3, EmptySeq DEF InFolders, OneRowEach
  <2> QED BY <1>1, <2>1, <2>2, <2>3, <2>4, ShelfLoaded
<1>3. CASE Refresh
  <2>1. list' = LoadList(list, file, disk', roots').list /\ roots' = roots
    BY <1>3 DEF Refresh
  <2> QED BY <1>1, <2>1, ShelfLoaded
<1>4. CASE Suspend
  BY <1>1, <1>4, ShelfStays DEF Suspend, RowsStay
<1>5. CASE Resume
  <2>1. CASE dirty
    <3>1. list' = LoadList(list, file, disk', roots').list /\ roots' = roots
      BY <1>5, <2>1 DEF Resume
    <3> QED BY <1>1, <3>1, ShelfLoaded
  <2>2. CASE ~dirty
    BY <1>1, <1>5, <2>2, ShelfStays DEF Resume, RowsStay
  <2> QED BY <2>1, <2>2
<1>6. ASSUME NEW r \in Roots, DirectoryChanged(r) PROVE Shelf'
  <2>1. ProviderUpdated(list, file) /\ roots' = roots
    BY <1>6 DEF DirectoryChanged
  <2> QED BY <1>1, <2>1, ShelfProvided
<1>7. ASSUME NEW r \in Roots, NEW i \in Id, NEW whole \in BOOLEAN,
             ExternalAdd(r, i, whole) \/ ExternalRemove(r, i, whole)
      PROVE  Shelf'
  <2>1. /\ FolderChanged(r, whole) /\ RowsStay /\ roots' = roots
        /\ disk' = disk \cup {<<r, i>>} \/ disk' = disk \ {<<r, i>>}
    BY <1>7 DEF ExternalAdd, ExternalRemove, RowsStay
  <2> QED BY <1>1, <2>1, ShelfChanged
<1>8. ASSUME NEW rs \in RootLists, ChangeRoots(rs) PROVE Shelf'
  <2>1. PICK l : l = [list EXCEPT !.rows = <<>>, !.loaded = FALSE]
    OBVIOUS
  <2>2. PICK f \in IF list.loaded THEN Saved(list, file) ELSE {file} : ProviderUpdated(l, f)
    BY <1>8, <2>1 DEF ChangeRoots
  <2>3. IsList(l) /\ l.rows = <<>> /\ IsFile(f)
    BY <1>1, <2>1, NoRows, SavedRecorded
  <2>4. InFolders(l.rows, roots') /\ OneRowEach(l.rows)
    BY <2>3, EmptySeq DEF InFolders, OneRowEach
  <2> QED BY <1>1, <2>2, <2>3, <2>4, ShelfProvided
<1>9. ASSUME RowsStay, UNCHANGED <<disk, roots, dirty, notify, missed>> PROVE Shelf'
  BY <1>1, <1>9, ShelfStays
<1>10. ASSUME NEW i \in Id, NEW g \in Groups, SetGroup(i, g) PROVE Shelf'
  BY <1>9, <1>10, SetGroupKeeps DEF SetGroup, watch, Regroups
<1>11. ASSUME NEW g \in Group, DeleteGroup(g) \/ Collapse(g) \/ \E h \in Group : RenameGroup(g, h)
       PROVE  Shelf'
  <2>1. UNCHANGED <<disk, roots, dirty, notify, missed>>
    BY <1>11 DEF DeleteGroup, Collapse, RenameGroup, watch
  <2> QED BY <1>9, <1>11, <2>1, DeleteGroupKeeps, CollapseKeeps, RenameGroupKeeps
<1>12. ASSUME NEW i \in Id, Trash(i) \/ Delete(i) PROVE Shelf'
  <2>1. /\ list' = Ungrouped(i) /\ file' \in Saved(Ungrouped(i), file) /\ outlived' = outlived
        /\ i \in Listed /\ roots' = roots
    BY <1>12 DEF Trash, Delete
  <2>2. RowsStay
    BY <2>1, RemovalKeeps DEF Regroups
  <2>3. CASE UNCHANGED <<disk, watch, missed>>
    BY <1>9, <2>1, <2>2, <2>3 DEF watch
  <2>4. ASSUME NEW whole \in BOOLEAN, disk' = disk \ {RowOf(i)}, FolderChanged(RowOf(i)[1], whole)
        PROVE  Shelf'
    <3>1. PICK r, j : RowOf(i) = <<r, j>>
      BY <2>1, RowListed
    <3>2. FolderChanged(r, whole) /\ disk' = disk \ {<<r, j>>}
      BY <2>4, <3>1
    <3> QED BY <1>1, <2>1, <2>2, <3>2, ShelfChanged
  <2> QED BY <1>12, <2>3, <2>4 DEF Trash, Delete
<1>13. CASE Undo
  <2>1. CASE UNCHANGED <<disk, list, file, dirty, notify, missed, outlived>>
    BY <1>9, <1>13, <2>1 DEF Undo, RowsStay
  <2>2. ASSUME NEW i \in Id, NEW l, l = Increase(Grouped(list, i, Last(trash).group), Last(trash).group),
               NEW f \in Saved(l, file), ProviderUpdated(l, f), trash # <<>>, roots' = roots
        PROVE  Shelf'
    <3>1. PICK g : g = Last(trash).group
      OBVIOUS
    <3>2. g \in Groups
      BY <2>2, <3>1, LastEntry DEF IInv, EntryOK
    <3>3. IsList(l) /\ l.rows = list.rows
      <4>1. l = Increase(Grouped(list, i, g), g)
        BY <2>2, <3>1
      <4>2. IsList(l) /\ Moved(list, l, i, g)
        BY <1>1, <3>2, <4>1, Joins
      <4> QED BY <4>2 DEF Moved, SameRows
    <3>4. IsFile(f)
      BY <1>1, <2>2, <3>3, SavedRecorded
    <3> QED BY <1>1, <2>2, <3>3, <3>4, ShelfProvided
  <2> QED BY <1>13, <2>1, <2>2 DEF Undo, Grouped
<1>14. CASE Commit
  <2>1. PICK l, i :
          /\ i \in Id
          /\ l = IF stage.update = {} THEN Increase(Grouped(list, i, stage.group), stage.group) ELSE list
          /\ stage.state # "none" /\ ProviderUpdated(l, file) /\ roots' = roots
    BY <1>14 DEF Commit, Grouped
  <2>2. IsList(l) /\ l.rows = list.rows
    <3>1. PICK g : g = stage.group
      OBVIOUS
    <3>2. g \in Groups
      BY <2>1, <3>1 DEF IInv, StageOK
    <3>3. CASE stage.update = {}
      <4>1. l = Increase(Grouped(list, i, g), g) /\ i \in Id
        BY <2>1, <3>1, <3>3
      <4>2. IsList(l) /\ Moved(list, l, i, g)
        BY <1>1, <3>2, <4>1, Joins
      <4> QED BY <4>2 DEF Moved, SameRows
    <3>4. CASE stage.update # {}
      BY <1>1, <2>1, <3>4
    <3> QED BY <3>3, <3>4
  <2> QED BY <1>1, <2>1, <2>2, ShelfProvided
<1>15. CASE CommitFails
  <2>1. CASE missed'
    BY <1>1, <1>15, <2>1 DEF CommitFails, Shelf, ReloadDue
  <2>2. CASE UNCHANGED disk
    <3>1. notify # {} => notify' # {} \/ missed'
      BY <1>15, <2>2 DEF CommitFails, Unlock
    <3> QED BY <1>1, <1>15, <2>2, <3>1, ShelfStays DEF CommitFails, RowsStay
  <2> QED BY <1>15, <2>1, <2>2 DEF CommitFails
<1>16. CASE StageNew \/ StageUpdate \/ ChildFails \/ UNCHANGED vars \/ \E i \in Id : ChildUpdates(i)
  BY <1>9, <1>16 DEF StageNew, StageUpdate, Stage, ChildUpdates, ChildFails, vars, watch, RowsStay
<1> QED BY <1>2, <1>3, <1>4, <1>5, <1>6, <1>7, <1>8, <1>10, <1>11, <1>12, <1>13, <1>14, <1>15, <1>16
        DEF Next, Groups
-----------------------------------------------------------------------------
LEMMA Initially == Init => IInv
<1> SUFFICES ASSUME Init PROVE IInv
  OBVIOUS
<1>1. PICK f : IsFile(f) /\ list = LoadList(Unloaded, f, disk, roots).list
                         /\ file \in LoadList(Unloaded, f, disk, roots).files
  <2>1. PICK g \in Group, place \in {"none", "legacy", "current"} :
          LET of == [i \in Id |-> IF place # "none" /\ (\E p \in disk : p[2] = i) THEN g ELSE NoGroup]
              f == [place |-> place, of |-> of, hidden |-> {}, behind |-> FALSE]
              loaded == LoadList(Unloaded, f, disk, roots)
          IN file \in loaded.files /\ list = loaded.list
    BY DEF Init
  <2> DEFINE of == [i \in Id |-> IF place # "none" /\ (\E p \in disk : p[2] = i) THEN g ELSE NoGroup]
  <2>2. PICK f : f = [place |-> place, of |-> of, hidden |-> {}, behind |-> FALSE]
    OBVIOUS
  <2>3. IsFile(f)
    BY <2>2 DEF IsFile, Groups
  <2> QED BY <2>1, <2>2, <2>3
<1>2. IsList(list) /\ IsFile(file) /\ Recorded(list, file) /\ Exact(list)
  BY <1>1, StartExact
<1>3. trash = <<>> /\ stage = NoStage
  BY DEF Init
<1>4. Folders
  BY InstanceListAssumption DEF Init, Folders
<1>5. Shelf
  BY <1>1, <1>4, StartShown DEF Shelf, ReloadDue, Listed, Folders, InFolders, FoundIds
<1> QED BY <1>2, <1>3, <1>4, <1>5 DEF IInv, Books, CountsExact, Exact, TrashOK, StageOK, NoStage

LEMMA Invariance == IInv /\ [Next]_vars => IInv'
<1> SUFFICES ASSUME IInv, [Next]_vars PROVE Books'
  BY TrashKept, StageKept, FoldersKept, ShelfKept DEF IInv
<1>1. ASSUME NEW i \in Id, NEW g \in Group \cup {NoGroup}, SetGroup(i, g) PROVE Books'
  BY <1>1, SetGroupKeeps DEF Groups
<1>2. ASSUME NEW g \in Group, DeleteGroup(g) \/ Collapse(g) \/ \E h \in Group : RenameGroup(g, h)
      PROVE  Books'
  BY <1>2, DeleteGroupKeeps, CollapseKeeps, RenameGroupKeeps
<1>3. ASSUME NEW i \in Id, Trash(i) \/ Delete(i) PROVE Books'
  <2>1. list' = Ungrouped(i) /\ file' \in Saved(Ungrouped(i), file) /\ outlived' = outlived
    BY <1>3 DEF Trash, Delete
  <2> QED BY <2>1, RemovalKeeps
<1> QED BY <1>1, <1>2, <1>3, LoadSteps, UndoKeeps, CommitKeeps DEF Next

LEMMA Invariant == Spec => []IInv
BY Initially, Invariance, PTL DEF Spec

\* The groups that getGroups() offers are those in use, and their counts are
\* right, for any edits of groups, removals, undos, commits, reloads and restarts
\* (increaseGroupCount and decreaseGroupCount of InstanceList.cpp).
THEOREM CountsRight == Spec => []CountsExact
<1>1. IInv => CountsExact
  BY DEF IInv, Books
<1> QED BY <1>1, Invariant, PTL

\* What a start that finds instances reads of their groups.
LEMMA NextStart ==
  ASSUME IsFile(file), Restart, list'.rows # <<>>
  PROVE  IF file.place = "none" THEN NoGroups(list')
         ELSE list'.of = file.of /\ list'.collapsed = file.hidden
<1>1. PICK f : f = [file EXCEPT !.behind = FALSE]
  OBVIOUS
<1>2. IsFile(f) /\ f.place = file.place /\ f.of = file.of /\ f.hidden = file.hidden
  <2>1. file = [place |-> file.place, of |-> file.of, hidden |-> file.hidden, behind |-> file.behind]
    BY DEF IsFile
  <2>2. f = [place |-> file.place, of |-> file.of, hidden |-> file.hidden, behind |-> FALSE]
    BY <1>1, <2>1
  <2> QED BY <2>2 DEF IsFile
<1>3. PICK u : u = Unloaded
  OBVIOUS
<1>4. list' = LoadList(u, f, disk, roots).list /\ IsList(u)
  BY <1>1, <1>3, UnloadedExact DEF Restart, Started
<1>5. IF f.place = "none" THEN NoGroups(list') ELSE list'.of = f.of /\ list'.collapsed = f.hidden
  BY <1>2, <1>3, <1>4, LoadKeeps
<1> QED BY <1>2, <1>5

\* Whenever the process ends, its next start finds every instance in its group,
\* and every group as collapsed as it was, if the last write of the file, which is
\* not repeated, did not fail (saveGroupList, loadGroupList).
THEOREM GroupsSurvive == Spec => RestartKeepsGroups
<1>1. ASSUME IInv, Restart, ~file.behind, NEW i \in Id \cap Listed \cap Ids(list'.rows)
      PROVE  /\ list'.of[i] = GroupOf(i)
             /\ GroupOf(i) \in list.collapsed <=> GroupOf(i) \in list'.collapsed
  <2>1. IsList(list) /\ IsFile(file) /\ Recorded(list, file)
    BY <1>1, ListExact
  <2>2. list.rows # <<>> /\ list'.rows # <<>>
    <3>1. Ids(<<>>) = {}
      BY DEF Ids
    <3> QED BY <1>1, <3>1 DEF Listed
  <2>4. IF file.place = "none" THEN NoGroups(list')
        ELSE list'.of = file.of /\ list'.collapsed = file.hidden
    BY <1>1, <2>1, <2>2, NextStart
  <2>5. CASE file.place = "none"
    BY <1>1, <2>1, <2>2, <2>4, <2>5 DEF Recorded, NoGroups, GroupOf
  <2>6. CASE file.place # "none"
    BY <1>1, <2>1, <2>2, <2>4, <2>6 DEF Recorded, SameGroups, GroupOf
  <2> QED BY <2>5, <2>6
<1>2. IInv => [Restart /\ ~file.behind => \A i \in Id \cap Listed \cap Ids(list'.rows) :
                 /\ list'.of[i] = GroupOf(i)
                 /\ GroupOf(i) \in list.collapsed <=> GroupOf(i) \in list'.collapsed]_vars
  BY <1>1
<1> QED BY <1>2, Invariant, PTL DEF RestartKeepsGroups

\* No instance is listed twice, though it may be in several folders, and though its
\* row may be there already when it is found again (discoverInstances, loadList).
THEOREM ListedOnce == Spec => []OneRowEach(list.rows)
<1>1. IInv => OneRowEach(list.rows)
  BY DEF IInv, Shelf
<1> QED BY <1>1, Invariant, PTL

\* A list that does not show what is on disk will be loaded again, whatever the
\* user, other programs and games do, and in whatever order their changes are
\* delivered, unless an instance came or went where no watcher looks (instanceDirContentsChanged, setGameplaySuspension, providerUpdated).
THEOREM ReloadRight == Spec => []ReloadDue
<1>1. IInv => ReloadDue
  BY DEF IInv, Shelf
<1> QED BY <1>1, Invariant, PTL
-----------------------------------------------------------------------------
\* The group that the file has for an instance.
Knows(f, i, g) == IF f.place = "none" THEN g = NoGroup ELSE f.of[i] = g

LEMMA FileKnows ==
  ASSUME NEW l, NEW f, Recorded(l, f), ~f.behind, l.rows # <<>>, NEW i \in Id
  PROVE  Knows(f, i, l.of[i])
BY DEF Recorded, SameGroups, NoGroups, Knows

\* Loading the list changes no group of which the list and the file agree, and
\* the list has the last word once it has read its groups.
LEMMA GroupStays ==
  ASSUME NEW l, NEW f, IsList(l), IsFile(f), NEW d, NEW rs, NEW i \in Id,
         Knows(f, i, l.of[i]) \/ l.loaded, NEW r, r = LoadList(l, f, d, rs).list
  PROVE  r.of[i] = l.of[i]
<1>1. r.of = IF NewIn(l, d, rs) # {} /\ ~l.loaded THEN LoadGroups(l, f).of ELSE l.of
  BY LoadParts
<1>2. CASE r.of = l.of
  BY <1>2
<1>3. CASE r.of = LoadGroups(l, f).of /\ ~l.loaded
  <2>1. CASE f.place = "none"
    <3>1. NoGroups(LoadGroups(l, f))
      BY <2>1, GroupsRead
    <3> QED BY <1>3, <2>1, <3>1 DEF NoGroups, Knows
  <2>2. CASE f.place # "none"
    <3>1. LoadGroups(l, f).of = f.of
      BY <2>2, GroupsRead DEF SameGroups
    <3> QED BY <1>3, <2>2, <3>1 DEF Knows
  <2> QED BY <2>1, <2>2
<1> QED BY <1>1, <1>2, <1>3

LEMMA ProvidedStays ==
  ASSUME NEW l, NEW f, IsList(l), IsFile(f), NEW i \in Id, Knows(f, i, l.of[i]) \/ l.loaded \/ suspended,
         ProviderUpdated(l, f)
  PROVE  list'.of[i] = l.of[i]
<1>1. CASE suspended
  BY <1>1 DEF ProviderUpdated, Provided
<1>2. CASE ~suspended
  BY <1>2, GroupStays DEF ProviderUpdated, Provided
<1> QED BY <1>1, <1>2

\* What a commit of a new instance does to the groups.
LEMMA CommitGroups ==
  ASSUME IInv, Commit
  PROVE  /\ \A i \in Id \cap Listed :
              RowOf(i) \in disk => list'.of[i] = GroupOf(i) \/ file.behind
         /\ stage.update = {} /\ (list.loaded \/ suspended) =>
              \E p \in disk' \ disk : list'.of[p[2]] = stage.group
<1>1. /\ IsList(list) /\ IsFile(file) /\ Recorded(list, file) /\ list.of \in [Id -> Groups]
  BY ListExact DEF IsList
<1>2. PICK j \in Id :
        LET l == IF stage.update = {} THEN Increase(Grouped(list, j, stage.group), stage.group)
                 ELSE list
        IN  /\ stage.state # "none" /\ Destination(j) /\ disk' = disk \cup {<<stage.target, j>>}
            /\ ProviderUpdated(l, file)
  BY DEF Commit, Grouped
<1>3. PICK l : /\ l = IF stage.update = {} THEN Increase(Grouped(list, j, stage.group), stage.group)
                      ELSE list
               /\ ProviderUpdated(l, file)
  BY <1>2
<1>4. PICK g : g = stage.group
  OBVIOUS
<1>5. g \in Groups /\ stage.target \in Range(roots)
  BY <1>2, <1>4 DEF IInv, StageOK
<1>6. CASE stage.update # {}
  <2>1. l = list
    BY <1>3, <1>6
  <2>2. ASSUME NEW i \in Id \cap Listed, ~file.behind PROVE list'.of[i] = GroupOf(i)
    <3>1. list.rows # <<>>
      <4>1. Ids(<<>>) = {}
        BY DEF Ids
      <4> QED BY <2>2, <4>1 DEF Listed
    <3>2. Knows(file, i, list.of[i])
      BY <1>1, <2>2, <3>1, FileKnows
    <3> QED BY <1>1, <1>3, <2>1, <3>2, ProvidedStays DEF GroupOf
  <2> QED BY <1>6, <2>2
<1>7. CASE stage.update = {}
  <2>1. l = Increase(Grouped(list, j, g), g)
    BY <1>3, <1>4, <1>7
  <2>2. IsList(l) /\ Moved(list, l, j, g)
    BY <1>1, <1>5, <2>1, Joins
  <2>3. l.of = [list.of EXCEPT ![j] = g] /\ l.loaded = list.loaded
    BY <2>2 DEF Moved, SameRows
  <2>4. \A r \in Range(roots) : <<r, j>> \notin disk
    BY <1>2, <1>7 DEF Destination
  <2>5. ASSUME NEW i \in Id \cap Listed, RowOf(i) \in disk, ~file.behind
        PROVE  list'.of[i] = GroupOf(i)
    <3>1. i # j
      <4>1. PICK row : row = RowOf(i)
        OBVIOUS
      <4>2. row \in Range(roots) \X Id /\ row[2] = i /\ row[1] \in Range(roots)
        BY <2>5, <4>1, RowListed
      <4>3. row = <<row[1], i>>
        BY <4>2
      <4> QED BY <2>4, <2>5, <4>1, <4>2, <4>3
    <3>2. list.rows # <<>>
      <4>1. Ids(<<>>) = {}
        BY DEF Ids
      <4> QED BY <2>5, <4>1 DEF Listed
    <3>3. Knows(file, i, list.of[i]) /\ l.of[i] = list.of[i]
      BY <1>1, <2>3, <2>5, <3>1, <3>2, FileKnows
    <3>4. i \in Id /\ Knows(file, i, l.of[i])
      BY <3>3
    <3>5. list'.of[i] = l.of[i]
      BY <1>1, <1>3, <2>2, <3>4, ProvidedStays
    <3> QED BY <3>3, <3>5 DEF GroupOf
  <2>6. ASSUME list.loaded \/ suspended
        PROVE  \E p \in disk' \ disk : list'.of[p[2]] = stage.group
    <3>1. <<stage.target, j>> \in disk' \ disk
      BY <1>2, <1>5, <2>4
    <3>2. l.of[j] = g
      BY <1>1, <2>3
    <3>3. list'.of[j] = l.of[j]
      BY <1>1, <1>3, <2>2, <2>3, <2>6, ProvidedStays
    <3>4. <<stage.target, j>>[2] = j
      OBVIOUS
    <3> QED BY <1>4, <3>1, <3>2, <3>3, <3>4
  <2> QED BY <2>5, <2>6
<1> QED BY <1>6, <1>7

\* A step leaves an instance in its group, unless it is the user's.
LEMMA GroupKept ==
  ASSUME IInv, [Next]_vars, ~file.behind,
         NEW i \in Id \cap Listed, RowOf(i) \in disk, i \in Ids(list'.rows)
  PROVE  list'.of[i] = GroupOf(i) \/ ByUser(i)
<1>1. IsList(list) /\ IsFile(file) /\ Recorded(list, file) /\ GroupOf(i) = list.of[i]
  BY ListExact DEF GroupOf
<1>2. list.rows # <<>> /\ list'.rows # <<>>
  <2>1. Ids(<<>>) = {}
    BY DEF Ids
  <2> QED BY <2>1 DEF Listed
<1>3. Knows(file, i, list.of[i])
  BY <1>1, <1>2, FileKnows
<1>4. CASE Restart
  <2>2. IF file.place = "none" THEN NoGroups(list') ELSE list'.of = file.of
    BY <1>1, <1>2, <1>4, NextStart
  <2> QED BY <1>1, <1>3, <2>2 DEF Knows, NoGroups
<1>5. CASE Refresh \/ (Resume /\ dirty)
  <2>1. list' = LoadList(list, file, disk, roots).list
    BY <1>5 DEF Refresh, Resume
  <2> QED BY <1>1, <1>3, <2>1, GroupStays
<1>6. CASE list' = list
  BY <1>1, <1>6
<1>7. ASSUME NEW r \in Roots, DirectoryChanged(r) PROVE list'.of[i] = GroupOf(i)
  BY <1>1, <1>3, <1>7, ProvidedStays DEF DirectoryChanged
<1>8. ASSUME NEW rs \in RootLists, ChangeRoots(rs) PROVE list'.of[i] = GroupOf(i)
  <2>1. PICK l : l = [list EXCEPT !.rows = <<>>, !.loaded = FALSE]
    OBVIOUS
  <2>2. PICK f \in IF list.loaded THEN Saved(list, file) ELSE {file} : ProviderUpdated(l, f)
    BY <1>8, <2>1 DEF ChangeRoots
  <2>3. IsList(l) /\ l.of = list.of /\ IsFile(f)
    BY <1>1, <2>1, NoRows, SavedRecorded
  <2>4. Knows(f, i, l.of[i])
    <3>1. CASE f = Written(list)
      BY <2>3, <3>1 DEF Written, Knows
    <3>2. CASE f = file
      BY <1>3, <2>3, <3>2
    <3>3. CASE f = [file EXCEPT !.behind = TRUE]
      BY <1>1, <1>3, <2>3, <3>3, Marked DEF Knows
    <3> QED BY <2>2, <3>1, <3>2, <3>3 DEF Saved
  <2> QED BY <1>1, <2>2, <2>3, <2>4, ProvidedStays
<1>9. CASE Commit
  BY <1>9, CommitGroups
<1>10. ASSUME NEW j \in Id, NEW g \in Group \cup {NoGroup}, SetGroup(j, g)
       PROVE  list'.of[i] = GroupOf(i) \/ ByUser(i)
  <2>1. CASE j = i
    BY <1>10, <2>1 DEF ByUser
  <2>2. CASE j # i
    BY <1>1, <1>10, <2>2, SetGroupKeeps DEF Regroups, Groups
  <2> QED BY <2>1, <2>2
<1>11. ASSUME NEW j \in Id, Trash(j) \/ Delete(j)
       PROVE  list'.of[i] = GroupOf(i) \/ ByUser(i)
  <2>1. CASE j = i
    BY <1>11, <2>1 DEF ByUser
  <2>2. CASE j # i
    <3>1. list' = Ungrouped(j) /\ file' \in Saved(Ungrouped(j), file) /\ outlived' = outlived
      BY <1>11 DEF Trash, Delete
    <3>2. Regroups(j)
      BY <3>1, RemovalKeeps
    <3> QED BY <1>1, <2>2, <3>2 DEF Regroups
  <2> QED BY <2>1, <2>2
<1>12. ASSUME NEW g \in Group, DeleteGroup(g) \/ \E h \in Group : RenameGroup(g, h)
       PROVE  ByUser(i)
  BY <1>12 DEF ByUser
<1>13. ASSUME NEW g \in Group, Collapse(g) PROVE list'.of[i] = GroupOf(i)
  BY <1>1, <1>13, CollapseKeeps
<1>14. CASE Undo
  BY <1>14 DEF ByUser
<1>15. \/ Restart \/ Refresh \/ (Resume /\ dirty) \/ list' = list \/ Undo \/ Commit
       \/ \E r \in Roots : DirectoryChanged(r)
       \/ \E rs \in RootLists : ChangeRoots(rs)
       \/ \E j \in Id : \/ Trash(j) \/ Delete(j)
                        \/ \E g \in Group \cup {NoGroup} : SetGroup(j, g)
       \/ \E g \in Group : DeleteGroup(g) \/ Collapse(g) \/ \E h \in Group : RenameGroup(g, h)
  BY DEF Next, vars, Suspend, Resume, ExternalAdd, ExternalRemove, StageNew, StageUpdate, Stage,
         ChildUpdates, ChildFails, CommitFails
<1> QED BY <1>4, <1>5, <1>6, <1>7, <1>8, <1>9, <1>10, <1>11, <1>12, <1>13, <1>14, <1>15

\* An instance leaves its group only when the user says so, through every reload,
\* restart, change of folders and commit that reads the file, if its last write did
\* not fail; and a new instance is in the group that the user chose (setInstanceGroup, loadGroupList, commitStagedInstance).
THEOREM GroupsRight == Spec => GroupByUser
<1>1. ASSUME IInv, [Next]_vars
      PROVE  /\ \A i \in Listed \cap Ids(list'.rows) :
                  RowOf(i) \in disk /\ list'.of[i] # GroupOf(i) => ByUser(i) \/ file.behind
             /\ Commit /\ stage.update = {} /\ (list.loaded \/ suspended) =>
                  \E p \in disk' \ disk : list'.of[p[2]] = stage.group
  <2>1. Listed \subseteq Id
    <3>1. \A i \in Listed : RowOf(i) \in Range(roots) \X Id /\ RowOf(i)[2] = i
      BY <1>1, RowListed
    <3> QED BY <3>1
  <2> QED BY <1>1, <2>1, GroupKept, CommitGroups
<1>2. IInv /\ [Next]_vars =>
        [/\ \A i \in Listed \cap Ids(list'.rows) :
              RowOf(i) \in disk /\ list'.of[i] # GroupOf(i) => ByUser(i) \/ file.behind
         /\ Commit /\ stage.update = {} /\ (list.loaded \/ suspended) =>
              \E p \in disk' \ disk : list'.of[p[2]] = stage.group]_vars
  BY <1>1
<1> QED BY <1>2, Invariant, PTL DEF GroupByUser, Spec
=============================================================================
