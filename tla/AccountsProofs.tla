--------------------------- MODULE AccountsProofs ---------------------------
(* What Accounts promises for any set of accounts and any bounds.  The queue *)
(* itself is only model-checked: fillQueue() is written with SelectSeq,      *)
(* which takes an operator.                                                  *)
EXTENDS Accounts, FiniteSetTheorems, SequenceTheorems, TLAPS

TaskType == task \in [Account -> {"none", "created", "running"}]
ListType == accounts \in Seq(Account) /\ default \in Account \cup {"none"}

-----------------------------------------------------------------------------
(* The changes of the list, as sequences without repetition. *)

LEMMA RangeInSet ==
  ASSUME NEW S, NEW s \in Seq(S)
  PROVE  /\ Range(s) \subseteq S /\ Len(s) \in Nat /\ DOMAIN s = 1 .. Len(s)
         /\ \A i \in 1 .. Len(s) : s[i] \in S
BY LenProperties, ElementOfSeq DEF Range

\* How two sequences are joined, with the places of their elements.
LEMMA Joined ==
  ASSUME NEW S, NEW s \in Seq(S), NEW t \in Seq(S)
  PROVE  /\ s \o t \in Seq(S)
         /\ Range(s \o t) = Range(s) \cup Range(t)
         /\ IsInjective(s) /\ IsInjective(t) /\ Range(s) \cap Range(t) = {}
              => IsInjective(s \o t)
<1> DEFINE p == s \o t
<1>1. /\ p \in Seq(S) /\ Len(p) = Len(s) + Len(t)
      /\ \A i \in 1 .. Len(s) + Len(t) : p[i] = IF i <= Len(s) THEN s[i] ELSE t[i - Len(s)]
  BY ConcatProperties
<1>2. /\ Len(s) \in Nat /\ DOMAIN s = 1 .. Len(s) /\ Len(t) \in Nat /\ DOMAIN t = 1 .. Len(t)
      /\ DOMAIN p = 1 .. Len(p)
  BY <1>1, LenProperties
<1> HIDE DEF p
<1>3. ASSUME NEW i \in DOMAIN s PROVE i \in DOMAIN p /\ p[i] = s[i]
  <2>1. i \in 1 .. Len(s) + Len(t) /\ i <= Len(s)
    BY <1>2, <1>3
  <2> QED BY <2>1, <1>1, <1>2
<1>4. ASSUME NEW i \in DOMAIN t PROVE Len(s) + i \in DOMAIN p /\ p[Len(s) + i] = t[i]
  <2>1. Len(s) + i \in 1 .. Len(s) + Len(t) /\ ~(Len(s) + i <= Len(s))
        /\ Len(s) + i - Len(s) = i
    BY <1>2, <1>4
  <2> QED BY <2>1, <1>1, <1>2
<1>5. ASSUME NEW i \in DOMAIN p, i \notin DOMAIN s
      PROVE i - Len(s) \in DOMAIN t /\ p[i] = t[i - Len(s)] /\ i \in Nat
  <2>1. i \in 1 .. Len(s) + Len(t) /\ ~(i <= Len(s)) /\ i - Len(s) \in 1 .. Len(t) /\ i \in Nat
    BY <1>1, <1>2, <1>5
  <2> QED BY <2>1, <1>1, <1>2
<1>6. Range(p) = Range(s) \cup Range(t)
  <2>1. Range(s) \cup Range(t) \subseteq Range(p)
    BY <1>3, <1>4 DEF Range
  <2>2. Range(p) \subseteq Range(s) \cup Range(t)
    BY <1>3, <1>5 DEF Range
  <2> QED BY <2>1, <2>2
<1>7. ASSUME IsInjective(s), IsInjective(t), Range(s) \cap Range(t) = {}
      PROVE IsInjective(p)
  <2> SUFFICES ASSUME NEW i \in DOMAIN p, NEW j \in DOMAIN p, p[i] = p[j] PROVE i = j
    BY DEF IsInjective
  <2>1. CASE i \in DOMAIN s /\ j \in DOMAIN s
    BY <2>1, <1>3, <1>7 DEF IsInjective
  <2>2. CASE i \notin DOMAIN s /\ j \notin DOMAIN s
    <3>1. i - Len(s) = j - Len(s)
      BY <2>2, <1>5, <1>7 DEF IsInjective
    <3>2. i \in Nat /\ j \in Nat
      BY <2>2, <1>5
    <3> QED BY <3>1, <3>2, <1>2
  <2>3. CASE i \in DOMAIN s /\ j \notin DOMAIN s
    BY <2>3, <1>3, <1>5, <1>7 DEF Range
  <2>4. CASE i \notin DOMAIN s /\ j \in DOMAIN s
    BY <2>4, <1>3, <1>5, <1>7 DEF Range
  <2> QED BY <2>1, <2>2, <2>3, <2>4
<1> QED BY <1>1, <1>6, <1>7 DEF p

LEMMA Single ==
  ASSUME NEW S, NEW e \in S
  PROVE  <<e>> \in Seq(S) /\ Range(<<e>>) = {e} /\ IsInjective(<<e>>)
BY DEF Range, IsInjective

\* A part of a sequence, with the places of its elements.
LEMMA Part ==
  ASSUME NEW S, NEW s \in Seq(S), NEW m \in 1 .. Len(s) + 1, NEW n \in 0 .. Len(s)
  PROVE  /\ SubSeq(s, m, n) \in Seq(S)
         /\ Range(SubSeq(s, m, n)) = {s[k] : k \in m .. n}
         /\ IsInjective(s) => IsInjective(SubSeq(s, m, n))
<1> DEFINE p == SubSeq(s, m, n)
<1>1. /\ Len(s) \in Nat /\ DOMAIN s = 1 .. Len(s) /\ m \in Int /\ n \in Int
      /\ m .. n \subseteq 1 .. Len(s)
  BY LenProperties
<1>2. \A i \in m .. n : s[i] \in S
  BY <1>1, ElementOfSeq
<1>3. /\ p \in Seq(S) /\ Len(p) = IF m <= n THEN n - m + 1 ELSE 0
      /\ \A i \in 1 .. n - m + 1 : p[i] = s[m + i - 1]
  BY <1>1, <1>2, SubSeqProperties
<1>4. DOMAIN p = 1 .. Len(p)
  BY <1>3, LenProperties
<1> HIDE DEF p
<1>5. ASSUME NEW i \in DOMAIN p
      PROVE m + i - 1 \in m .. n /\ p[i] = s[m + i - 1] /\ i \in Nat
  <2>1. i \in 1 .. n - m + 1
    BY <1>1, <1>3, <1>4, <1>5
  <2> QED BY <2>1, <1>1, <1>3
<1>6. ASSUME NEW k \in m .. n
      PROVE k - m + 1 \in DOMAIN p /\ p[k - m + 1] = s[k]
  <2>1. k - m + 1 \in 1 .. n - m + 1 /\ m + (k - m + 1) - 1 = k /\ m <= n
    BY <1>1, <1>6
  <2> QED BY <2>1, <1>3, <1>4
<1>7. Range(p) = {s[k] : k \in m .. n}
  <2>1. Range(p) \subseteq {s[k] : k \in m .. n}
    BY <1>5 DEF Range
  <2>2. {s[k] : k \in m .. n} \subseteq Range(p)
    BY <1>6 DEF Range
  <2> QED BY <2>1, <2>2
<1>8. ASSUME IsInjective(s) PROVE IsInjective(p)
  <2> SUFFICES ASSUME NEW i \in DOMAIN p, NEW j \in DOMAIN p, p[i] = p[j] PROVE i = j
    BY DEF IsInjective
  <2>1. m + i - 1 \in DOMAIN s /\ m + j - 1 \in DOMAIN s /\ s[m + i - 1] = s[m + j - 1]
    BY <1>1, <1>5
  <2>2. m + i - 1 = m + j - 1
    BY <2>1, <1>8 DEF IsInjective
  <2> QED BY <2>2, <1>5, <1>1
<1> QED BY <1>3, <1>7, <1>8 DEF p

LEMMA Appended ==
  ASSUME NEW S, NEW s \in Seq(S), NEW e \in S
  PROVE  /\ Append(s, e) \in Seq(S)
         /\ Range(Append(s, e)) = Range(s) \cup {e}
         /\ IsInjective(s) /\ e \notin Range(s) => IsInjective(Append(s, e))
<1> DEFINE m == <<e>>
<1>1. Append(s, e) = s \o m
  BY AppendIsConcat
<1>2. m \in Seq(S) /\ Range(m) = {e} /\ IsInjective(m)
  BY Single
<1> HIDE DEF m
<1>3. /\ s \o m \in Seq(S) /\ Range(s \o m) = Range(s) \cup Range(m)
      /\ IsInjective(s) /\ Range(s) \cap Range(m) = {} => IsInjective(s \o m)
  BY <1>2, Joined
<1>4. e \notin Range(s) => Range(s) \cap Range(m) = {}
  BY <1>2
<1> QED BY <1>1, <1>2, <1>3, <1>4

LEMMA Removed ==
  ASSUME NEW S, NEW s \in Seq(S), NEW i \in DOMAIN s, IsInjective(s)
  PROVE  /\ RemoveAt(s, i) \in Seq(S)
         /\ Range(RemoveAt(s, i)) = Range(s) \ {s[i]}
         /\ IsInjective(RemoveAt(s, i))
<1> DEFINE b == SubSeq(s, 1, i - 1)
           c == SubSeq(s, i + 1, Len(s))
<1>1. Len(s) \in Nat /\ DOMAIN s = 1 .. Len(s) /\ i \in 1 .. Len(s)
  BY LenProperties
<1>2. /\ 1 \in 1 .. Len(s) + 1 /\ i - 1 \in 0 .. Len(s)
      /\ i + 1 \in 1 .. Len(s) + 1 /\ Len(s) \in 0 .. Len(s)
  BY <1>1
<1>3. b \in Seq(S) /\ Range(b) = {s[k] : k \in 1 .. i - 1} /\ IsInjective(b)
  BY <1>2, Part
<1>4. c \in Seq(S) /\ Range(c) = {s[k] : k \in i + 1 .. Len(s)} /\ IsInjective(c)
  BY <1>2, Part
<1>5. RemoveAt(s, i) = b \o c
  BY DEF RemoveAt
<1> HIDE DEF b, c
<1>6. ASSUME NEW k \in 1 .. i - 1, NEW l \in i + 1 .. Len(s) PROVE s[k] # s[l]
  <2>1. k \in DOMAIN s /\ l \in DOMAIN s /\ k # l
    BY <1>1, <1>6
  <2> QED BY <2>1 DEF IsInjective
<1>7. Range(b) \cap Range(c) = {}
  BY <1>3, <1>4, <1>6
<1>8. Range(b) \cup Range(c) = Range(s) \ {s[i]}
  <2>1. ASSUME NEW k \in DOMAIN s, k # i
        PROVE k \in 1 .. i - 1 \/ k \in i + 1 .. Len(s)
    BY <1>1, <2>1
  <2>2. ASSUME NEW k \in (1 .. i - 1) \cup (i + 1 .. Len(s))
        PROVE k \in DOMAIN s /\ k # i
    BY <1>1, <2>2
  <2>3. ASSUME NEW k \in (1 .. i - 1) \cup (i + 1 .. Len(s))
        PROVE s[k] \in Range(s) /\ s[k] # s[i]
    BY <2>2 DEF IsInjective, Range
  <2>4. Range(b) \cup Range(c) \subseteq Range(s) \ {s[i]}
    BY <1>3, <1>4, <2>3
  <2>5. Range(s) \ {s[i]} \subseteq Range(b) \cup Range(c)
    BY <1>3, <1>4, <2>1 DEF Range
  <2> QED BY <2>4, <2>5
<1>9. b \o c \in Seq(S) /\ Range(b \o c) = Range(b) \cup Range(c) /\ IsInjective(b \o c)
  BY <1>3, <1>4, <1>7, Joined
<1> QED BY <1>5, <1>8, <1>9

LEMMA Inserted ==
  ASSUME NEW S, NEW s \in Seq(S), NEW i \in 1 .. Len(s) + 1, NEW e \in S,
         IsInjective(s), e \notin Range(s)
  PROVE  /\ InsertAt(s, i, e) \in Seq(S)
         /\ Range(InsertAt(s, i, e)) = Range(s) \cup {e}
         /\ IsInjective(InsertAt(s, i, e))
<1> DEFINE b == SubSeq(s, 1, i - 1)
           c == SubSeq(s, i, Len(s))
           m == <<e>>
<1>1. Len(s) \in Nat /\ DOMAIN s = 1 .. Len(s)
  BY LenProperties
<1>2. 1 \in 1 .. Len(s) + 1 /\ i - 1 \in 0 .. Len(s) /\ Len(s) \in 0 .. Len(s)
  BY <1>1
<1>3. b \in Seq(S) /\ Range(b) = {s[k] : k \in 1 .. i - 1} /\ IsInjective(b)
  BY <1>2, Part
<1>4. c \in Seq(S) /\ Range(c) = {s[k] : k \in i .. Len(s)} /\ IsInjective(c)
  BY <1>2, Part
<1>5. m \in Seq(S) /\ Range(m) = {e} /\ IsInjective(m)
  BY Single
<1>6. InsertAt(s, i, e) = b \o m \o c
  BY DEF InsertAt
<1> HIDE DEF b, c, m
<1>7. ASSUME NEW k \in 1 .. i - 1, NEW l \in i .. Len(s) PROVE s[k] # s[l]
  <2>1. k \in DOMAIN s /\ l \in DOMAIN s /\ k # l
    BY <1>1, <1>7
  <2> QED BY <2>1 DEF IsInjective
<1>8. Range(b) \cap Range(c) = {}
  BY <1>3, <1>4, <1>7
<1>9. Range(b) \cup Range(c) = Range(s)
  <2>1. ASSUME NEW k \in DOMAIN s PROVE k \in 1 .. i - 1 \/ k \in i .. Len(s)
    BY <1>1, <2>1
  <2>2. ASSUME NEW k \in (1 .. i - 1) \cup (i .. Len(s)) PROVE k \in DOMAIN s
    BY <1>1, <2>2
  <2> QED BY <1>3, <1>4, <2>1, <2>2 DEF Range
<1>10. /\ b \o m \in Seq(S) /\ Range(b \o m) = Range(b) \cup {e} /\ IsInjective(b \o m)
  BY <1>3, <1>5, <1>9, Joined
<1>11. /\ (b \o m) \o c \in Seq(S) /\ IsInjective((b \o m) \o c)
       /\ Range((b \o m) \o c) = Range(b \o m) \cup Range(c)
  <2> DEFINE q == b \o m
  <2>1. q \in Seq(S) /\ IsInjective(q) /\ Range(q) \cap Range(c) = {}
    BY <1>8, <1>9, <1>4, <1>10
  <2> HIDE DEF q
  <2>2. q \o c \in Seq(S) /\ IsInjective(q \o c) /\ Range(q \o c) = Range(q) \cup Range(c)
    BY <2>1, <1>4, Joined
  <2> QED BY <2>2 DEF q
<1> QED BY <1>6, <1>9, <1>10, <1>11

-----------------------------------------------------------------------------
(* The inductive invariant. *)

InFlight == {a \in Listed : task[a] # "none"} \cup lost

\* No account is listed twice, and one that is gone does not come back.
ListOK ==
  /\ ListType /\ IsInjective(accounts)
  /\ gone \subseteq Account /\ lost \subseteq gone /\ Listed \cap gone = {}
\* Only accounts that are or were listed have a flow: one that is added brings none.
Known == \A a \in Account : task[a] # "none" => a \in Listed \cup gone
FlowOK == TaskType /\ Known /\ ActivityIsCounted /\ WorkingHasFlow
\* Of the flows the list listens to it is the one it holds that goes on.
Expecting ==
  \/ refreshTimer \/ nextTimer \/ orphan # "no"
  \/ current \in heard \cap Account /\ task[current] = "running"
IInv == ListOK /\ FlowOK /\ Expecting

LEMMA ListedKnown ==
  ASSUME ListOK
  PROVE  Listed \subseteq Account /\ IsFiniteSet(InFlight) /\ Cardinality(InFlight) \in Nat
<1>1. Listed \subseteq Account
  BY RangeInSet DEF ListOK, ListType, Listed
<1>2. InFlight \subseteq Account
  BY <1>1 DEF InFlight, ListOK
<1> QED BY <1>1, <1>2, FS_Subset, FS_CardinalityType, AccountAssumption

LEMMA Initial == Init => IInv
<1> SUFFICES ASSUME Init PROVE IInv
  OBVIOUS
<1>1. accounts \in Seq(Account) /\ IsInjective(accounts)
  BY DEF Init
<1>2. ListOK
  BY <1>1, RangeInSet DEF Init, ListOK, ListType, Listed
<1>3. TaskType /\ Known /\ WorkingHasFlow
  BY DEF Init, TaskType, Known, WorkingHasFlow
<1>4. ActivityIsCounted
  <2>1. {a \in Listed : task[a] # "none"} \cup lost = {}
    BY <1>2, ListedKnown DEF Init
  <2> QED BY <2>1, FS_EmptySet DEF Init, ActivityIsCounted
<1> QED BY <1>2, <1>3, <1>4 DEF Init, IInv, FlowOK, Expecting

\* What a change of one flow does to the count.
LEMMA Counting ==
  ASSUME ListOK, TaskType, ActivityIsCounted, UNCHANGED list,
         NEW a \in Account, NEW t, task' = [task EXCEPT ![a] = t],
         \/ task[a] = "none" /\ t # "none" /\ Begin(a)
         \/ task[a] # "none" /\ t = "none" /\ End(a)
         \/ (task[a] = "none" <=> t = "none") /\ UNCHANGED activity
  PROVE  ActivityIsCounted'
<1>1. /\ Listed' = Listed /\ lost' = lost
      /\ activity = Cardinality(InFlight) /\ activity \in Nat /\ IsFiniteSet(InFlight)
  BY ListedKnown DEF list, Listed, ActivityIsCounted, InFlight
<1>2. task'[a] = t /\ \A b \in Account \ {a} : task'[b] = task[b]
  BY DEF TaskType
<1>3. a \in Listed => a \notin lost
  BY DEF ListOK
<1>4. Listed \subseteq Account
  BY ListedKnown
<1>5. activity' = Cardinality(InFlight')
  <2>1. CASE task[a] = "none" /\ t # "none" /\ Begin(a) /\ a \in Listed
    <3>1. InFlight' = InFlight \cup {a} /\ a \notin InFlight
      BY <1>1, <1>2, <1>3, <1>4, <2>1 DEF InFlight
    <3>2. Cardinality(InFlight \cup {a}) = Cardinality(InFlight) + 1
      BY <3>1, <1>1, FS_AddElement
    <3> QED BY <3>1, <3>2, <2>1, <1>1 DEF Begin
  <2>2. CASE task[a] # "none" /\ t = "none" /\ End(a) /\ a \in Listed
    <3>1. InFlight' = InFlight \ {a} /\ a \in InFlight
      BY <1>1, <1>2, <1>3, <1>4, <2>2 DEF InFlight
    <3>2. Cardinality(InFlight \ {a}) = Cardinality(InFlight) - 1
      BY <3>1, <1>1, FS_RemoveElement
    <3>3. activity > 0
      BY <3>1, <1>1, FS_EmptySet
    <3> QED BY <3>1, <3>2, <3>3, <2>2, <1>1 DEF End
  <2>3. CASE a \notin Listed \/ (task[a] = "none" <=> t = "none")
    <3>1. InFlight' = InFlight
      BY <1>1, <1>2, <1>4, <2>3 DEF InFlight
    <3>2. activity' = activity
      BY <2>3 DEF Begin, End
    <3> QED BY <3>1, <3>2, <1>1
  <2> QED BY <2>1, <2>2, <2>3
<1> QED BY <1>5 DEF ActivityIsCounted, InFlight

LEMMA FlowStartsKeeps ==
  ASSUME ListOK, FlowOK, UNCHANGED list, haunted' = haunted,
         NEW a \in Account, a \in Listed \cup gone, task[a] # "running",
         NEW now, FlowStarts(a, now)
  PROVE  /\ FlowOK'
         /\ now = "Working" => task'[a] = "running"
         /\ \A b \in Account \ {a} : task'[b] = task[b]
<1>1. \E t \in {"none", "running"} :
        /\ task' = [task EXCEPT ![a] = t]
        /\ t = "running" <=> now = "Working"
        /\ \/ task[a] = "none" /\ t # "none" /\ Begin(a)
           \/ task[a] # "none" /\ t = "none" /\ End(a)
           \/ (task[a] = "none" <=> t = "none") /\ UNCHANGED activity
  BY DEF FlowStarts, Outcome
<1>2. TaskType' /\ ActivityIsCounted'
  BY <1>1, Counting DEF FlowOK, TaskType
<1>3. /\ now = "Working" => task'[a] = "running"
      /\ \A b \in Account \ {a} : task'[b] = task[b]
  BY <1>1 DEF FlowOK, TaskType
<1>4. Listed' = Listed /\ gone' = gone
  BY DEF list, Listed
<1>5. Known'
  BY <1>3, <1>4 DEF FlowOK, Known
<1>6. WorkingHasFlow'
  <2>1. CASE now = "Working"
    BY <2>1, <1>3 DEF FlowStarts, FlowOK, WorkingHasFlow
  <2>2. CASE now # "Working"
    BY <2>2, <1>3 DEF FlowStarts, Outcome, FlowOK, WorkingHasFlow
  <2> QED BY <2>1, <2>2
<1> QED BY <1>2, <1>3, <1>5, <1>6 DEF FlowOK

LEMMA FlowUnchanged ==
  ASSUME FlowOK, UNCHANGED list, UNCHANGED account, haunted' = haunted
  PROVE  FlowOK'
<1>1. Listed' = Listed /\ gone' = gone /\ lost' = lost /\ task' = task /\ activity' = activity
      /\ working' = working
  BY DEF list, account, Listed
<1>2. ActivityIsCounted'
  BY <1>1 DEF FlowOK, ActivityIsCounted
<1> QED BY <1>1, <1>2 DEF FlowOK, TaskType, Known, WorkingHasFlow

LEMMA ListUnchanged ==
  ASSUME ListOK, UNCHANGED list
  PROVE  ListOK'
BY DEF ListOK, list, ListType, Listed

LEMMA TryNextKeeps ==
  ASSUME ListOK, FlowOK, UNCHANGED list, haunted' = haunted,
         NEW q, NEW ex, NEW hourly, NEW soon, TryNext(q, ex, hourly, soon)
  PROVE  FlowOK' /\ Expecting'
<1>1. CASE refreshTimer' = TRUE /\ UNCHANGED account
  BY <1>1, FlowUnchanged DEF Expecting
<1>2. ASSUME NEW a \in Listed, Refresh(a, soon)
      PROVE  FlowOK' /\ Expecting'
  <2>1. a \in Account
    BY ListedKnown
  <2>2. CASE task[a] = "running" /\ current' = a /\ heard' = heard \cup {a} /\ UNCHANGED account
    <3>1. current' \in heard' \cap Account /\ task'[current'] = "running"
      BY <2>1, <2>2 DEF account
    <3> QED BY <2>2, <3>1, FlowUnchanged DEF Expecting
  <2>3. ASSUME task[a] # "running", NEW now, FlowStarts(a, now),
               IF now = "Working"
                 THEN current' = a /\ heard' = heard \cup {a}
                 ELSE nextTimer' = TRUE
        PROVE  FlowOK' /\ Expecting'
    BY <2>1, <2>3, FlowStartsKeeps DEF Expecting
  <2> QED BY <1>2, <2>2, <2>3 DEF Refresh, Heard
<1> QED BY <1>1, <1>2 DEF TryNext, Due

\* The list changes, and the flows do not.
LEMMA EditKeeps ==
  ASSUME ListOK, FlowOK, ListOK', task' = task, activity' = activity,
         haunted' = haunted, working' \subseteq working,
         {a \in Account : task[a] # "none"} \cap (Listed \cup gone) \subseteq Listed' \cup gone',
         InFlight' = InFlight
  PROVE  FlowOK'
<1>1. TaskType'
  BY DEF FlowOK, TaskType
<1>2. Known'
  BY DEF FlowOK, Known
<1>3. ActivityIsCounted'
  BY DEF FlowOK, ActivityIsCounted, InFlight
<1>4. WorkingHasFlow'
  BY DEF FlowOK, WorkingHasFlow
<1> QED BY <1>1, <1>2, <1>3, <1>4 DEF FlowOK

LEMMA AddKeeps ==
  ASSUME IInv, NEW a \in Account, AddAccount(a)
  PROVE  IInv'
<1>1. a \notin Listed /\ a \notin gone /\ task[a] = "none" /\ task' = task /\ activity' = activity
  BY DEF AddAccount, IInv, FlowOK, Known
<1>2. working' \subseteq working /\ haunted' = haunted /\ Expecting'
  BY DEF AddAccount, Edited, waiting, held, IInv, Expecting
<1>3. accounts \in Seq(Account) /\ IsInjective(accounts) /\ default \in Account \cup {"none"}
  BY DEF IInv, ListOK, ListType
<1>4. CASE accounts' = Append(accounts, a) /\ UNCHANGED <<default, gone, lost>>
  <2>1. Listed' = Listed \cup {a} /\ accounts' \in Seq(Account) /\ IsInjective(accounts')
    BY <1>1, <1>3, <1>4, Appended DEF Listed
  <2>2. ListOK'
    BY <1>1, <1>4, <2>1 DEF IInv, ListOK, ListType
  <2>3. InFlight' = InFlight
    BY <1>1, <1>4, <2>1 DEF InFlight
  <2>4. FlowOK'
    BY <1>1, <1>2, <1>4, <2>1, <2>2, <2>3, EditKeeps DEF IInv
  <2> QED BY <1>2, <2>2, <2>4 DEF IInv
<1>5. ASSUME NEW i \in DOMAIN accounts, accounts' = [accounts EXCEPT ![i] = a],
             default' = IF default = accounts[i] THEN a ELSE default,
             Disconnected({accounts[i]})
      PROVE  IInv'
  <2>1. /\ Listed' = (Listed \ {accounts[i]}) \cup {a}
        /\ accounts' \in Seq(Account) /\ IsInjective(accounts')
    <3>1. a \notin Range(accounts)
      BY <1>1 DEF Listed
    <3>2. /\ accounts' \in Seq(Account) /\ IsInjective(accounts')
          /\ Range(accounts') = (Range(accounts) \ {accounts[i]}) \cup {a}
      <4>1. accounts' \in Seq(Account)
        BY <1>3, <1>5, ExceptSeq, LenProperties
      <4>2. /\ DOMAIN accounts' = DOMAIN accounts /\ accounts'[i] = a
            /\ \A k \in DOMAIN accounts \ {i} : accounts'[k] = accounts[k]
        BY <1>5
      <4>3. IsInjective(accounts')
        BY <4>2, <3>1, <1>3 DEF IsInjective, Range
      <4>4. \A k \in DOMAIN accounts \ {i} : accounts[k] # accounts[i]
        BY <1>3 DEF IsInjective
      <4>5. Range(accounts') = (Range(accounts) \ {accounts[i]}) \cup {a}
        BY <4>2, <4>4, <3>1 DEF Range
      <4> QED BY <4>1, <4>3, <4>5
    <3> QED BY <3>2 DEF Listed
  <2>2. accounts[i] \in Listed /\ Listed \subseteq Account
    BY ListedKnown DEF Listed, Range, IInv
  <2>3. gone' = gone \cup {accounts[i]}
        /\ lost' = lost \cup {b \in {accounts[i]} : task[b] # "none"}
    BY <1>5 DEF Disconnected
  <2>4. ListOK'
    BY <1>1, <1>3, <1>5, <2>1, <2>2, <2>3 DEF IInv, ListOK, ListType
  <2>5. InFlight' = InFlight
    BY <1>1, <2>1, <2>2, <2>3 DEF InFlight
  <2>6. FlowOK'
    BY <1>1, <1>2, <2>1, <2>3, <2>4, <2>5, EditKeeps DEF IInv
  <2> QED BY <1>2, <2>4, <2>6 DEF IInv
<1> QED BY <1>4, <1>5 DEF AddAccount

LEMMA RemoveKeeps ==
  ASSUME IInv, NEW i \in DOMAIN accounts, RemoveAccount(i)
  PROVE  IInv'
<1>1. /\ accounts' = RemoveAt(accounts, i) /\ task' = task /\ activity' = activity
      /\ working' = working /\ haunted' = haunted /\ Expecting'
      /\ default' \in {"none", default}
  BY DEF RemoveAccount, Edited, waiting, held, account, IInv, Expecting
<1>2. accounts \in Seq(Account) /\ IsInjective(accounts) /\ default \in Account \cup {"none"}
  BY DEF IInv, ListOK, ListType
<1>3. /\ Listed' = Listed \ {accounts[i]}
      /\ accounts' \in Seq(Account) /\ IsInjective(accounts')
  BY <1>1, <1>2, Removed DEF Listed
<1>4. accounts[i] \in Listed /\ Listed \subseteq Account
  BY ListedKnown DEF Listed, Range, IInv
<1>5. gone' = gone \cup {accounts[i]}
      /\ lost' = lost \cup {b \in {accounts[i]} : task[b] # "none"}
  BY DEF RemoveAccount, Disconnected
<1>6. ListOK'
  BY <1>1, <1>2, <1>3, <1>4, <1>5 DEF IInv, ListOK, ListType
<1>7. InFlight' = InFlight
  BY <1>1, <1>3, <1>4, <1>5 DEF InFlight
<1>8. FlowOK'
  BY <1>1, <1>3, <1>5, <1>6, <1>7, EditKeeps DEF IInv
<1> QED BY <1>1, <1>6, <1>8 DEF IInv

LEMMA MoveKeeps ==
  ASSUME IInv, NEW i \in DOMAIN accounts, NEW to \in DOMAIN accounts, MoveAccount(i, to)
  PROVE  IInv'
<1> DEFINE r == RemoveAt(accounts, i)
<1>1. /\ accounts' = InsertAt(r, to, accounts[i]) /\ UNCHANGED <<default, gone, lost, account>>
      /\ haunted' = haunted /\ Expecting'
  BY DEF MoveAccount, Edited, waiting, held, account, IInv, Expecting
<1>2. accounts \in Seq(Account) /\ IsInjective(accounts)
  BY DEF IInv, ListOK, ListType
<1>3. /\ Range(r) = Listed \ {accounts[i]} /\ r \in Seq(Account) /\ IsInjective(r)
  BY <1>2, Removed DEF Listed
<1>4. accounts[i] \in Listed /\ Listed \subseteq Account
  BY ListedKnown DEF Listed, Range, IInv
<1>5. to \in 1 .. Len(r) + 1
  <2> DEFINE b == SubSeq(accounts, 1, i - 1)
             c == SubSeq(accounts, i + 1, Len(accounts))
  <2>1. /\ Len(accounts) \in Nat /\ i \in 1 .. Len(accounts) /\ to \in 1 .. Len(accounts)
        /\ \A k \in 1 .. Len(accounts) : accounts[k] \in Account
    BY <1>2, RangeInSet
  <2>2. b \in Seq(Account) /\ Len(b) = i - 1
    <3>1. \A k \in 1 .. i - 1 : accounts[k] \in Account
      BY <2>1
    <3>2. /\ b \in Seq(Account) /\ Len(b) = IF 1 <= i - 1 THEN i - 1 - 1 + 1 ELSE 0
      BY <2>1, <3>1, SubSeqProperties
    <3> QED BY <3>2, <2>1
  <2>3. c \in Seq(Account) /\ Len(c) = Len(accounts) - i
    <3>1. \A k \in i + 1 .. Len(accounts) : accounts[k] \in Account
      BY <2>1
    <3>2. /\ c \in Seq(Account)
          /\ Len(c) = IF i + 1 <= Len(accounts) THEN Len(accounts) - (i + 1) + 1 ELSE 0
      BY <2>1, <3>1, SubSeqProperties
    <3> QED BY <3>2, <2>1
  <2> HIDE DEF b, c
  <2>4. Len(b \o c) = Len(b) + Len(c)
    BY <2>2, <2>3, ConcatProperties
  <2>5. r = b \o c
    BY DEF RemoveAt, b, c
  <2> QED BY <2>1, <2>2, <2>3, <2>4, <2>5
<1> HIDE DEF r
<1>6. /\ Listed' = Listed /\ accounts' \in Seq(Account) /\ IsInjective(accounts')
  <2>1. accounts[i] \in Account /\ accounts[i] \notin Range(r)
    BY <1>3, <1>4
  <2>2. LET t == InsertAt(r, to, accounts[i])
        IN  /\ t \in Seq(Account) /\ IsInjective(t)
            /\ Range(t) = Range(r) \cup {accounts[i]}
    BY <1>3, <1>5, <2>1, Inserted
  <2> QED BY <1>1, <1>3, <1>4, <2>2 DEF Listed
<1>7. ListOK'
  BY <1>1, <1>6 DEF IInv, ListOK, ListType
<1>8. FlowOK'
  <2>1. task' = task /\ activity' = activity /\ working' = working /\ gone' = gone
    BY <1>1 DEF account
  <2>2. InFlight' = InFlight
    BY <1>1, <1>6, <2>1 DEF InFlight
  <2> QED BY <1>1, <1>6, <1>7, <2>1, <2>2, EditKeeps DEF IInv
<1> QED BY <1>1, <1>7, <1>8 DEF IInv

LEMMA FlowEndsKeeps ==
  ASSUME IInv, UNCHANGED list, haunted' = haunted, NEW a \in Account,
         NEW outcome \in Outcomes \cup {"Unchecked"}, task[a] = "running",
         Outcome(a, outcome), End(a)
  PROVE  ListOK' /\ FlowOK' /\ \A b \in Account \ {a} : task'[b] = task[b]
<1>1. task' = [task EXCEPT ![a] = "none"] /\ working' = working \ {a}
  BY DEF Outcome, Outcomes
<1>2. TaskType' /\ ActivityIsCounted'
  BY <1>1, Counting DEF IInv, FlowOK, TaskType
<1>3. task'[a] = "none" /\ \A b \in Account \ {a} : task'[b] = task[b]
  BY <1>1 DEF IInv, FlowOK, TaskType
<1>4. Known'
  BY <1>3 DEF list, Listed, IInv, FlowOK, Known
<1>5. WorkingHasFlow'
  BY <1>1, <1>3 DEF IInv, FlowOK, WorkingHasFlow
<1> QED BY <1>2, <1>3, <1>4, <1>5, ListUnchanged DEF IInv, FlowOK

LEMMA NextKeeps == IInv /\ [Next]_vars => IInv'
<1> SUFFICES ASSUME IInv, [Next]_vars PROVE IInv'
  OBVIOUS
<1> USE DEF IInv
\* Most actions leave the list, and many leave the flows.
<1>1. ASSUME UNCHANGED list, haunted' = haunted, FlowOK', Expecting' PROVE IInv'
  BY <1>1, ListUnchanged
<1>2. ASSUME UNCHANGED list, UNCHANGED account, haunted' = haunted,
             UNCHANGED <<refreshTimer, held>>
      PROVE IInv'
  <2>1. Expecting'
    BY <1>2 DEF Expecting, held, account
  <2> QED BY <1>1, <1>2, <2>1, FlowUnchanged
<1>3. CASE RefreshTimeout
  <2>1. UNCHANGED list /\ haunted' = haunted
    BY <1>3 DEF RefreshTimeout, user
  <2> QED BY <1>1, <1>3, <2>1, TryNextKeeps DEF RefreshTimeout
<1>4. CASE NextTimeout
  <2>1. UNCHANGED list /\ haunted' = haunted
    BY <1>4 DEF NextTimeout, user
  <2> QED BY <1>1, <1>4, <2>1, TryNextKeeps DEF NextTimeout
<1>5. CASE OrphanStep
  <2>1. Expecting' /\ UNCHANGED list
    BY <1>5 DEF OrphanStep, Expecting
  <2>2. Listed' = Listed /\ gone' = gone /\ lost' = lost /\ task' = task /\ activity' = activity
    BY <1>5 DEF OrphanStep, list, Listed
  <2>3. TaskType' /\ Known' /\ ActivityIsCounted'
    BY <2>2 DEF FlowOK, TaskType, Known, ActivityIsCounted
  <2>4. WorkingHasFlow'
    BY <1>5, <2>2 DEF OrphanStep, FlowOK, WorkingHasFlow
  <2> QED BY <2>1, <2>3, <2>4, ListUnchanged DEF FlowOK
<1>6. ASSUME NEW a \in Account, RequestRefresh(a) PROVE IInv'
  <2>1. UNCHANGED list /\ haunted' = haunted
    BY <1>6 DEF RequestRefresh
  <2>2. CASE UNCHANGED <<refreshTimer, held, account>>
    BY <1>2, <2>1, <2>2
  <2>3. ASSUME NEW q, NEW ex, TryNext(q, ex, refreshTimer, nextTimer) PROVE IInv'
    BY <1>1, <2>1, <2>3, TryNextKeeps
  <2> QED BY <1>6, <2>2, <2>3 DEF RequestRefresh
<1>7. ASSUME NEW a \in Account, AskForFlow(a) PROVE IInv'
  <2>1. /\ UNCHANGED list /\ UNCHANGED <<refreshTimer, held, working, haunted>>
        /\ task' = [task EXCEPT ![a] = "created"] /\ task[a] = "none" /\ a \in Listed
        /\ Begin(a)
    BY <1>7 DEF AskForFlow, waiting, user
  <2>2. task'[a] = "created" /\ \A b \in Account \ {a} : task'[b] = task[b]
    BY <2>1 DEF FlowOK, TaskType
  <2>3. TaskType' /\ ActivityIsCounted'
    BY <2>1, Counting DEF FlowOK, TaskType
  <2>4. Known'
    BY <2>1, <2>2 DEF list, Listed, FlowOK, Known
  <2>5. WorkingHasFlow'
    BY <2>1, <2>2 DEF FlowOK, WorkingHasFlow
  <2>6. Expecting'
    <3>1. a = current => ~(task[current] = "running")
      BY <2>1
    <3>2. current \in Account /\ task[current] = "running" /\ a # current
          => task'[current] = "running"
      BY <2>1 DEF FlowOK, TaskType
    <3> QED BY <2>1, <3>1, <3>2 DEF Expecting, held
  <2> QED BY <1>1, <2>1, <2>3, <2>4, <2>5, <2>6 DEF FlowOK
<1>8. ASSUME NEW a \in Account, StartFlow(a) PROVE IInv'
  <2>1. UNCHANGED list /\ UNCHANGED <<refreshTimer, held, haunted>> /\ task[a] = "created"
    BY <1>8 DEF StartFlow, waiting, user
  <2>2. PICK now \in StartsAs(a) : FlowStarts(a, now)
    BY <1>8 DEF StartFlow
  <2>3. a \in Listed \cup gone
    BY <2>1 DEF FlowOK, Known
  <2>4. FlowOK'
    BY <2>1, <2>2, <2>3, FlowStartsKeeps
  <2>5. ASSUME current \in Account, task[current] = "running" PROVE task'[current] = "running"
    <3>1. current # a
      BY <2>1, <2>5
    <3> QED BY <2>1, <2>2, <2>3, <2>5, <3>1, FlowStartsKeeps
  <2>6. Expecting'
    BY <2>1, <2>5 DEF Expecting, held
  <2> QED BY <1>1, <2>1, <2>4, <2>6
<1>9. ASSUME NEW a \in Account, NEW o \in Outcomes, FlowEnds(a, o) PROVE IInv'
  <2>1. UNCHANGED list /\ UNCHANGED <<refreshTimer, haunted>> /\ heard' = heard \ {a}
        /\ IF a \in heard THEN Heard ELSE UNCHANGED <<current, orphan, nextTimer>>
    BY <1>9 DEF FlowEnds, waiting, user
  <2>2. FlowOK'
    BY <1>9, <2>1, FlowEndsKeeps DEF FlowEnds
  <2>3. current \in Account /\ task[current] = "running" /\ a # current
          => task'[current] = "running"
    BY <1>9 DEF FlowEnds, Outcome, FlowOK, TaskType
  <2>4. Expecting'
    BY <2>1, <2>3 DEF Expecting, Heard
  <2> QED BY <1>1, <2>1, <2>2, <2>4
<1>10. ASSUME NEW a \in Account, AbortFlow(a) PROVE IInv'
  <2>1. UNCHANGED list /\ UNCHANGED <<refreshTimer, haunted, current, nextTimer>>
        /\ heard' = heard \ {a}
        /\ orphan' = IF current = a /\ orphan = "no" THEN "pending" ELSE orphan
    BY <1>10 DEF AbortFlow, waiting
  <2>2. FlowOK'
    BY <1>10, <2>1, FlowEndsKeeps DEF AbortFlow, StateOfAbort
  <2>3. current \in Account /\ task[current] = "running" /\ a # current
          => task'[current] = "running"
    BY <1>10 DEF AbortFlow, Outcome, FlowOK, TaskType
  <2>4. Expecting'
    BY <2>1, <2>3 DEF Expecting
  <2> QED BY <1>1, <2>1, <2>2, <2>4
<1>11. ASSUME NEW a \in Account, AddAccount(a) PROVE IInv'
  BY <1>11, AddKeeps
<1>12. ASSUME NEW a \in Account, Claim(a) PROVE IInv'
  BY <1>2, <1>12 DEF Claim, Edited, waiting
<1>13. ASSUME NEW a \in Account, Expire(a) PROVE IInv'
  <2>1. UNCHANGED list
        /\ UNCHANGED <<refreshTimer, held, activity, task, working, haunted>>
    BY <1>13 DEF Expire, waiting, user
  <2>2. FlowOK'
    BY <2>1 DEF list, Listed, FlowOK, TaskType, Known, ActivityIsCounted, WorkingHasFlow
  <2>3. Expecting'
    BY <2>1 DEF Expecting, held
  <2> QED BY <1>1, <2>1, <2>2, <2>3
<1>14. ASSUME NEW a \in Listed \cup {"none"}, SetDefaultAccount(a) PROVE IInv'
  <2>1. /\ UNCHANGED <<accounts, gone, lost, refreshTimer, held, account, haunted>>
        /\ default' = a
    BY <1>14 DEF SetDefaultAccount, Edited, waiting
  <2>2. Listed \subseteq Account
    BY ListedKnown
  <2>3. ListOK'
    BY <2>1, <2>2 DEF ListOK, ListType, Listed
  <2>4. FlowOK'
    BY <2>1 DEF account, Listed, FlowOK, TaskType, Known, ActivityIsCounted, WorkingHasFlow
  <2>5. Expecting'
    BY <2>1 DEF Expecting, held, account
  <2> QED BY <2>3, <2>4, <2>5
<1>15. ASSUME NEW i \in DOMAIN accounts, RemoveAccount(i) PROVE IInv'
  BY <1>15, RemoveKeeps
<1>16. ASSUME NEW i \in DOMAIN accounts, NEW to \in DOMAIN accounts, MoveAccount(i, to)
       PROVE IInv'
  BY <1>16, MoveKeeps
<1>17. CASE UNCHANGED vars
  BY <1>2, <1>17 DEF vars, user, waiting
<1> QED
  BY <1>3, <1>4, <1>5, <1>6, <1>7, <1>8, <1>9, <1>10, <1>11, <1>12, <1>13, <1>14, <1>15,
     <1>16, <1>17 DEF Next, Ends

LEMMA Invariant == Spec => []IInv
BY Initial, NextKeeps, PTL DEF Spec

-----------------------------------------------------------------------------
\* The list's count of active accounts is right up to the accounts that were
\* removed with a flow, however the flows of refreshes, launches and dialogs
\* begin, end, fail and are aborted, and whatever happens to the list.
THEOREM ActivityRight == Spec => []ActivityIsCounted
<1>1. IInv => ActivityIsCounted
  BY DEF IInv, FlowOK
<1> QED BY <1>1, Invariant, PTL

\* The background refreshes never stop waiting for nothing, unless the flow
\* the list holds was aborted.
THEOREM RefreshesGoOn == Spec => []QueueGoesOn
<1>1. IInv => QueueGoesOn
  BY DEF IInv, Expecting, QueueGoesOn
<1> QED BY <1>1, Invariant, PTL

\* A launch finds the flow of an account in state Working, unless an aborted
\* flow that the list held has written the state again.
THEOREM WorkingIsSafe == Spec => []WorkingHasFlow
<1>1. IInv => WorkingHasFlow
  BY DEF IInv, FlowOK
<1> QED BY <1>1, Invariant, PTL

=============================================================================
