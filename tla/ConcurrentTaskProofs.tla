------------------------ MODULE ConcurrentTaskProofs ------------------------
(***************************************************************************)
(* What ConcurrentTask.tla claims, for every set of sub-tasks, every limit *)
(* and every number of starts and aborts.                                  *)
(***************************************************************************)
EXTENDS ConcurrentTask, FiniteSetTheorems, SequenceTheorems, TLAPS

(***************************************************************************)
(* Sequences: what Append, Tail and concatenation do to the range, and to  *)
(* how often an element occurs.                                            *)
(***************************************************************************)
AtMostOnce(s, x) == \A i, j \in 1 .. Len(s) : s[i] = x /\ s[j] = x => i = j

\* Posting one more event, or queueing one more task, adds it to the range.
LEMMA AppendRange ==
  ASSUME NEW S, NEW s \in Seq(S), NEW x \in S
  PROVE  /\ Append(s, x) \in Seq(S)
         /\ Range(Append(s, x)) = Range(s) \cup {x}
<1>1. /\ Append(s, x) \in Seq(S) /\ Len(Append(s, x)) = Len(s) + 1
      /\ \A i \in 1 .. Len(s) : Append(s, x)[i] = s[i]
      /\ Append(s, x)[Len(s) + 1] = x
  BY AppendProperties
<1>2. /\ Range(s) = {s[i] : i \in 1 .. Len(s)}
      /\ Range(Append(s, x)) = {Append(s, x)[i] : i \in 1 .. Len(Append(s, x))}
  BY <1>1, RangeEquality
<1>3. 1 .. Len(s) + 1 = (1 .. Len(s)) \cup {Len(s) + 1}
  BY LenProperties
<1> QED BY <1>1, <1>2, <1>3

\* Taking the head off a list leaves the rest of its range.
LEMMA TailRange ==
  ASSUME NEW S, NEW s \in Seq(S), s # <<>>
  PROVE  /\ Head(s) \in S /\ Tail(s) \in Seq(S)
         /\ Range(s) = {Head(s)} \cup Range(Tail(s))
<1>1. /\ Head(s) \in S /\ Tail(s) \in Seq(S)
      /\ Len(Tail(s)) = Len(s) - 1 /\ Len(s) \in Nat /\ Len(s) > 0
      /\ \A i \in 1 .. Len(Tail(s)) : Tail(s)[i] = s[i + 1]
      /\ Head(s) = s[1]
  BY HeadTailProperties, LenProperties, EmptySeq
<1>2. /\ Range(s) = {s[i] : i \in 1 .. Len(s)}
      /\ Range(Tail(s)) = {Tail(s)[i] : i \in 1 .. Len(Tail(s))}
  BY <1>1, RangeEquality
<1>3. ASSUME NEW i \in 1 .. Len(s) PROVE s[i] \in {Head(s)} \cup Range(Tail(s))
  <2>1. CASE i = 1 BY <2>1, <1>1
  <2>2. CASE i # 1
    <3>1. i - 1 \in 1 .. Len(Tail(s)) /\ s[i] = Tail(s)[i - 1]
      BY <2>2, <1>1
    <3> QED BY <3>1, <1>2
  <2> QED BY <2>1, <2>2
<1>4. ASSUME NEW i \in 1 .. Len(Tail(s)) PROVE Tail(s)[i] \in Range(s)
  <2>1. i + 1 \in 1 .. Len(s) /\ Tail(s)[i] = s[i + 1]
    BY <1>1
  <2> QED BY <2>1, <1>2
<1>5. Head(s) \in Range(s)
  BY <1>1, <1>2
<1> QED BY <1>1, <1>2, <1>3, <1>4, <1>5

\* An element that occurs once and is taken off the list is gone.
LEMMA OnceInTail ==
  ASSUME NEW S, NEW s \in Seq(S), s # <<>>, NEW x, AtMostOnce(s, x)
  PROVE  /\ AtMostOnce(Tail(s), x)
         /\ Head(s) = x => x \notin Range(Tail(s))
<1>1. /\ Tail(s) \in Seq(S)
      /\ Len(Tail(s)) = Len(s) - 1 /\ Len(s) \in Nat /\ Len(s) > 0
      /\ \A i \in 1 .. Len(Tail(s)) : Tail(s)[i] = s[i + 1]
      /\ Head(s) = s[1]
  BY HeadTailProperties, LenProperties, EmptySeq
<1>2. Range(Tail(s)) = {Tail(s)[i] : i \in 1 .. Len(Tail(s))}
  BY <1>1, RangeEquality
<1>3. \A i \in 1 .. Len(Tail(s)) : i + 1 \in 1 .. Len(s) /\ i + 1 # 1
  BY <1>1
<1>4. AtMostOnce(Tail(s), x)
  <2> SUFFICES ASSUME NEW i \in 1 .. Len(Tail(s)), NEW j \in 1 .. Len(Tail(s)),
                      Tail(s)[i] = x, Tail(s)[j] = x
               PROVE  i = j
    BY DEF AtMostOnce
  <2>1. i + 1 = j + 1 BY <1>1, <1>3 DEF AtMostOnce
  <2> QED BY <2>1
<1>5. ASSUME Head(s) = x, NEW i \in 1 .. Len(Tail(s)), Tail(s)[i] = x PROVE FALSE
  <2>1. 1 \in 1 .. Len(s) BY <1>1
  <2> QED BY <1>5, <1>1, <1>3, <2>1 DEF AtMostOnce
<1> QED BY <1>2, <1>4, <1>5

\* Appending something else, or something new, repeats nothing.
LEMMA OnceInAppend ==
  ASSUME NEW S, NEW s \in Seq(S), NEW y \in S, NEW x, AtMostOnce(s, x),
         x # y \/ x \notin Range(s)
  PROVE  AtMostOnce(Append(s, y), x)
<1>1. /\ Len(Append(s, y)) = Len(s) + 1 /\ Len(s) \in Nat
      /\ \A i \in 1 .. Len(s) : Append(s, y)[i] = s[i]
      /\ Append(s, y)[Len(s) + 1] = y
  BY AppendProperties, LenProperties
<1>2. Range(s) = {s[i] : i \in 1 .. Len(s)}
  BY RangeEquality
<1>3. \A i \in 1 .. Len(s) + 1 : i \in 1 .. Len(s) \/ i = Len(s) + 1
  BY <1>1
<1> QED BY <1>1, <1>2, <1>3 DEF AtMostOnce

\* Appending a list without an element does not repeat that element.
LEMMA OnceInConcat ==
  ASSUME NEW S, NEW s \in Seq(S), NEW u \in Seq(S), NEW x, AtMostOnce(s, x),
         x \notin Range(u)
  PROVE  AtMostOnce(s \o u, x)
<1>1. /\ Len(s \o u) = Len(s) + Len(u) /\ Len(s) \in Nat /\ Len(u) \in Nat
      /\ \A i \in 1 .. Len(s) + Len(u) :
           (s \o u)[i] = IF i <= Len(s) THEN s[i] ELSE u[i - Len(s)]
  BY ConcatProperties, LenProperties
<1>2. Range(u) = {u[i] : i \in 1 .. Len(u)}
  BY RangeEquality
<1>3. ASSUME NEW i \in 1 .. Len(s) + Len(u), (s \o u)[i] = x
      PROVE  i \in 1 .. Len(s) /\ s[i] = x
  <2>1. CASE i <= Len(s) BY <2>1, <1>1, <1>3
  <2>2. CASE ~(i <= Len(s))
    <3>1. i - Len(s) \in 1 .. Len(u) /\ u[i - Len(s)] = x
      BY <2>2, <1>1, <1>3
    <3> QED BY <3>1, <1>2
  <2> QED BY <2>1, <2>2
<1> QED BY <1>1, <1>3 DEF AtMostOnce

\* A queue without repetitions has each of its elements once.
LEMMA InjectiveQueue ==
  ASSUME NEW S, NEW s \in Seq(S)
  PROVE  IsInjective(s) <=> \A x \in S : AtMostOnce(s, x)
<1>1. DOMAIN s = 1 .. Len(s) /\ \A i \in 1 .. Len(s) : s[i] \in S
  BY LenProperties, ElementOfSeq
<1> QED BY <1>1 DEF IsInjective, AtMostOnce

(***************************************************************************)
(* The inductive invariant.                                                *)
(***************************************************************************)
\* A start of a sub-task is posted at most once, and not for a running one.
OncePosted ==
  \A t \in Task : /\ AtMostOnce(events, t)
                  /\ subState[t] = "Running" => ~Posted(t)

WithinLimit == Cardinality(doing) <= Limit

\* The two kinds that take one task at a time, which are never restarted.
OneAtATime ==
  /\ kind # "Concurrent" => \A t, u \in doing : t = u
  /\ kind = "Sequential" /\ state = "Running" => failed = {}
  /\ kind = "MultipleOptions" /\ state = "Running" =>
       /\ AtMostOnce(events, NextEvent)
       /\ NextEvent \in Range(events) => doing = {}
  /\ starts = 0 =>
       events = <<>> /\ doing = {} /\ done = {} /\ state = "Inactive"

\* Why nothing goes wrong before the first abort(): a container that is not
\* running is not doing anything, and has forgotten only what is over.
Undisturbed ==
  aborts = 0 =>
    /\ ~misfired /\ ~fault
    /\ ends = (IF state \in Outcomes THEN 1 ELSE 0)
    /\ state # "Running" => doing = {}
    /\ kind = "MultipleOptions" /\ state # "Running" =>
         NextEvent \notin Range(events)
    /\ \A t \in dropped :
         link[t] = "none" /\ subState[t] # "Running" /\ ~Posted(t)

IInv ==
  /\ TypeOK /\ Bookkeeping /\ OncePosted /\ WithinLimit /\ NeverStuck
  /\ OneAtATime /\ Undisturbed

\* m_doing is finite, and a limit that is reached is not reached by nothing.
LEMMA Doing ==
  ASSUME TypeOK
  PROVE  /\ IsFiniteSet(doing) /\ Cardinality(doing) \in Nat
         /\ Limit \in Nat \ {0}
         /\ kind # "Concurrent" => Limit = 1
         /\ Cardinality(doing) >= Limit => doing # {}
<1>1. IsFiniteSet(doing) /\ Cardinality(doing) \in Nat
  BY TaskAssumption, FS_Subset, FS_CardinalityType DEF TypeOK
<1>2. Cardinality(doing) = 0 <=> doing = {}
  BY <1>1, FS_EmptySet
<1>3. Limit \in Nat \ {0} /\ (kind # "Concurrent" => Limit = 1)
  BY MaxConcurrentAssumption DEF Limit
<1> QED BY <1>1, <1>2, <1>3

\* A new container is in order.
LEMMA Initially == Init => IInv
<1> SUFFICES ASSUME Init PROVE IInv
  OBVIOUS
<1>1. /\ <<>> \in Seq(Task) /\ <<>> \in Seq(Task \cup {NextEvent})
      /\ Len(<<>>) = 0 /\ DOMAIN <<>> = {} /\ Range(<<>>) = {}
  BY EmptySeq, LenProperties DEF Range
<1>2. TypeOK
  <2>1. starts \in 0 .. MaxStarts /\ aborts \in 0 .. MaxAborts /\ ends \in Nat
    BY BoundsAssumption DEF Init
  <2>2. misfired \in BOOLEAN /\ fault \in BOOLEAN
    BY DEF Init
  <2>3. subState \in [Task -> States] /\ link \in [Task -> Links]
    BY DEF Init, States, Links
  <2> QED BY <1>1, <2>1, <2>2, <2>3 DEF Init, TypeOK, States
<1>3. Bookkeeping /\ OncePosted
  BY <1>1 DEF Init, Bookkeeping, OncePosted, AtMostOnce, Posted, IsInjective
<1>4. WithinLimit
  BY <1>2, Doing, FS_EmptySet DEF Init, WithinLimit
<1>5. NeverStuck /\ OneAtATime /\ Undisturbed
  BY <1>1 DEF Init, NeverStuck, OneAtATime, Undisturbed, Outcomes
<1> QED BY <1>2, <1>3, <1>4, <1>5 DEF IInv

\* addTask(): the task is new, so the books and the events stay right.
LEMMA AddTaskStep ==
  ASSUME IInv, NEW t \in Task, AddTask(t)
  PROVE  IInv'
<1> USE DEF AddTask, Silent, subs
<1>1. /\ queue \in Seq(Task) /\ t \notin Range(queue)
      /\ queue' \in Seq(Task) /\ Range(queue') = Range(queue) \cup {t}
  BY AppendRange DEF IInv, TypeOK, Tracked
<1>2. TypeOK'
  BY <1>1 DEF IInv, TypeOK
<1>3. IsInjective(queue')
  <2>1. \A x \in Task : AtMostOnce(queue, x)
    BY <1>1, InjectiveQueue DEF IInv, Bookkeeping
  <2>2. \A x \in Task : AtMostOnce(Append(queue, t), x)
    BY <1>1, <2>1, OnceInAppend
  <2> QED BY <1>1, <2>2, InjectiveQueue
<1>4. Bookkeeping'
  BY <1>1, <1>3 DEF IInv, Bookkeeping, Posted, Tracked
<1>5. OncePosted' /\ WithinLimit' /\ NeverStuck' /\ OneAtATime' /\ Undisturbed'
  BY DEF IInv, OncePosted, WithinLimit, NeverStuck, OneAtATime, Undisturbed,
         Posted, AtMostOnce, Limit
<1> QED BY <1>2, <1>4, <1>5 DEF IInv

\* What posting n calls of executeNextSubTask() does to the posted events.
LEMMA PostingNext ==
  ASSUME NEW s \in Seq(Task \cup {NextEvent}), NEW n \in Nat,
         \A t \in Task : AtMostOnce(s, t)
  PROVE  LET r == s \o [i \in 1 .. n |-> NextEvent] IN
         /\ r \in Seq(Task \cup {NextEvent})
         /\ \A t \in Task : AtMostOnce(r, t) /\ (t \in Range(r) <=> t \in Range(s))
         /\ n > 0 => NextEvent \in Range(r)
         /\ NextEvent \in Range(s) => NextEvent \in Range(r)
<1> DEFINE u == [i \in 1 .. n |-> NextEvent]
<1>1. u \in Seq(Task \cup {NextEvent}) /\ Len(u) = n
  BY IsASeq, SMT
<1>2. Range(u) = {u[i] : i \in 1 .. n}
  BY <1>1, RangeEquality
<1>3. /\ \A x \in Range(u) : x = NextEvent
      /\ n > 0 => NextEvent \in Range(u)
  <2>1. n > 0 => 1 \in 1 .. n
    OBVIOUS
  <2> QED BY <1>2, <2>1
<1>4. Range(s \o u) = Range(s) \cup Range(u) /\ s \o u \in Seq(Task \cup {NextEvent})
  BY <1>1, RangeConcatenation, ConcatProperties
<1>5. ASSUME NEW t \in Task PROVE AtMostOnce(s \o u, t) /\ t \notin Range(u)
  <2>1. t \notin Range(u)
    BY <1>3, TaskAssumption
  <2> HIDE DEF u
  <2>2. AtMostOnce(s \o u, t)
    BY <1>1, <2>1, OnceInConcat
  <2> QED BY <2>1, <2>2
<1> QED BY <1>3, <1>4, <1>5

\* start(): the limit is at least one, so a call is posted.
LEMMA StartStep ==
  ASSUME IInv, Start
  PROVE  IInv'
<1>1. Limit \in Nat /\ Limit > 0 /\ (kind # "Concurrent" => Limit = 1) /\ Limit' = Limit
  BY Doing DEF IInv, Limit, Start
<1>2. /\ events' = events \o [i \in 1 .. Limit |-> NextEvent]
      /\ events \in Seq(Task \cup {NextEvent})
      /\ \A t \in Task : AtMostOnce(events, t)
  BY DEF Start, FirstEvents, IInv, TypeOK, OncePosted
<1>3. /\ events' \in Seq(Task \cup {NextEvent})
      /\ \A t \in Task : AtMostOnce(events', t) /\ (Posted(t)' <=> Posted(t))
      /\ NextEvent \in Range(events')
  BY <1>1, <1>2, PostingNext DEF Posted
<1>4. TypeOK'
  <2>1. starts' \in 0 .. MaxStarts /\ ends' \in Nat
    BY BoundsAssumption DEF Start, IInv, TypeOK
  <2> QED BY <1>3, <2>1 DEF Start, IInv, TypeOK, States, pool, subs
<1>5. Bookkeeping' /\ OncePosted'
  BY <1>3 DEF Start, IInv, Bookkeeping, OncePosted, pool, subs
<1>6. WithinLimit' /\ NeverStuck'
  BY <1>1, <1>3 DEF Start, Fresh, IInv, WithinLimit, NeverStuck, pool
<1>7. OneAtATime'
  <2>1. CASE kind = "MultipleOptions"
    <3>1. events = <<>>
      BY <2>1 DEF Start, Fresh, IInv, OneAtATime
    <3>2. events' = [i \in 1 .. 1 |-> NextEvent] /\ Len(events') = 1
      BY <3>1, <2>1, <1>1, <1>2
    <3>3. AtMostOnce(events', NextEvent)
      BY <3>2 DEF AtMostOnce
    <3> QED BY <2>1, <3>3 DEF Start, Fresh, IInv, OneAtATime, TypeOK, pool
  <2>2. CASE kind # "MultipleOptions"
    BY <2>2 DEF Start, Fresh, IInv, OneAtATime, TypeOK, Bookkeeping, pool
  <2> QED BY <2>1, <2>2
<1>8. Undisturbed'
  BY <1>3 DEF Start, IInv, Undisturbed, TypeOK, Outcomes, subs, pool
<1> QED BY <1>4, <1>5, <1>6, <1>7, <1>8 DEF IInv

\* clear(): what it forgets is over, unless there was an abort().
LEMMA ClearStep ==
  ASSUME IInv, Clear
  PROVE  IInv'
<1> USE DEF Clear, Silent, subs
<1>1. /\ <<>> \in Seq(Task) /\ DOMAIN <<>> = {} /\ Range(<<>>) = {}
      /\ Range(queue) \subseteq Task /\ Tracked \subseteq Task
  BY EmptySeq, RangeOfSeq, LenProperties DEF IInv, TypeOK, Tracked, Range
<1>2. TypeOK'
  BY <1>1 DEF IInv, TypeOK
<1>3. Bookkeeping'
  BY <1>1 DEF IInv, Bookkeeping, Tracked, Posted, IsInjective
<1>4. OncePosted' /\ NeverStuck'
  BY DEF IInv, OncePosted, NeverStuck, Posted, AtMostOnce
<1>5. WithinLimit'
  BY Doing, FS_EmptySet DEF IInv, WithinLimit, Limit
<1>6. OneAtATime'
  BY DEF IInv, OneAtATime
<1>7. Undisturbed'
  <2>1. ASSUME aborts = 0, NEW t \in Tracked
        PROVE  link[t] = "none" /\ subState[t] # "Running" /\ ~Posted(t)
    BY <1>1, <2>1 DEF IInv, Undisturbed, Bookkeeping, Tracked
  <2> QED BY <2>1 DEF IInv, Undisturbed, Posted
<1> QED BY <1>2, <1>3, <1>4, <1>5, <1>6, <1>7 DEF IInv

\* Consuming the posted event at the head of the list.
LEMMA TakingEvent ==
  ASSUME IInv, events # <<>>
  PROVE  /\ Tail(events) \in Seq(Task \cup {NextEvent})
         /\ Range(events) = {Head(events)} \cup Range(Tail(events))
         /\ Head(events) \in Task \cup {NextEvent}
         /\ \A t \in Task : /\ AtMostOnce(Tail(events), t)
                            /\ Head(events) = t => t \notin Range(Tail(events))
         /\ AtMostOnce(events, NextEvent) =>
              /\ AtMostOnce(Tail(events), NextEvent)
              /\ Head(events) = NextEvent => NextEvent \notin Range(Tail(events))
<1>1. events \in Seq(Task \cup {NextEvent}) /\ \A t \in Task : AtMostOnce(events, t)
  BY DEF IInv, TypeOK, OncePosted
<1>2. /\ Tail(events) \in Seq(Task \cup {NextEvent})
      /\ Range(events) = {Head(events)} \cup Range(Tail(events))
      /\ Head(events) \in Task \cup {NextEvent}
  BY <1>1, TailRange
<1>3. \A t \in Task : /\ AtMostOnce(Tail(events), t)
                      /\ Head(events) = t => t \notin Range(Tail(events))
  BY <1>1, OnceInTail
<1>4. AtMostOnce(events, NextEvent) =>
        /\ AtMostOnce(Tail(events), NextEvent)
        /\ Head(events) = NextEvent => NextEvent \notin Range(Tail(events))
  BY <1>1, OnceInTail
<1> QED BY <1>2, <1>3, <1>4

\* The branches of executeNextSubTask() that start nothing.
LEMMA NothingStartedStep ==
  ASSUME IInv, events # <<>>, Head(events) = NextEvent, events' = Tail(events),
         UNCHANGED <<kind, pool, subs, dropped, fault, starts, aborts>>,
         \/ Silent /\ (state = "Running" => doing # {})
         \/ /\ Emit("Succeeded") \/ Emit("Failed")
            /\ state = "Running" \/ kind = "MultipleOptions"
            /\ aborts = 0 => doing = {}
  PROVE  IInv'
<1> USE DEF pool, subs
<1>1. /\ \A t \in Task : Posted(t)' <=> Posted(t)
      /\ NextEvent \in Range(events)
  BY TakingEvent, TaskAssumption DEF Posted
<1>2. TypeOK'
  <2>1. ends' \in Nat /\ state' \in States
    BY DEF Emit, Silent, IInv, TypeOK, States
  <2>2. misfired' \in BOOLEAN
    BY DEF Emit, Silent, IInv, TypeOK
  <2> QED BY <2>1, <2>2, TakingEvent DEF IInv, TypeOK
<1>3. Bookkeeping' /\ OncePosted' /\ WithinLimit'
  BY <1>1, TakingEvent
  DEF IInv, TypeOK, Bookkeeping, OncePosted, WithinLimit, Limit
<1>4. state' = "Running" => state = "Running" /\ doing # {}
  BY DEF Emit, Silent
<1>5. NeverStuck'
  BY <1>1, <1>4 DEF IInv, NeverStuck, TypeOK
<1>6. OneAtATime'
  <2>1. starts # 0
    BY DEF IInv, OneAtATime
  <2>2. kind = "MultipleOptions" /\ state' = "Running" =>
          /\ AtMostOnce(events', NextEvent)
          /\ NextEvent \in Range(events') => doing' = {}
    BY <1>4, TakingEvent DEF IInv, OneAtATime
  <2> QED BY <1>4, <2>1, <2>2 DEF IInv, OneAtATime
<1>7. Undisturbed'
  <2> SUFFICES ASSUME aborts = 0
               PROVE  /\ ~misfired' /\ ~fault'
                      /\ ends' = (IF state' \in Outcomes THEN 1 ELSE 0)
                      /\ state' # "Running" => doing' = {}
                      /\ kind' = "MultipleOptions" /\ state' # "Running" =>
                           NextEvent \notin Range(events')
                      /\ \A t \in dropped' :
                           link'[t] = "none" /\ subState'[t] # "Running" /\ ~Posted(t)'
    BY DEF Undisturbed
  <2>1. kind = "MultipleOptions" => state = "Running"
    BY <1>1 DEF IInv, Undisturbed
  <2>2. /\ ~misfired' /\ ~fault'
        /\ ends' = (IF state' \in Outcomes THEN 1 ELSE 0)
    <3>1. ~misfired /\ ~fault /\ ends = (IF state \in Outcomes THEN 1 ELSE 0)
      BY DEF IInv, Undisturbed
    <3>2. CASE Silent
      BY <3>1, <3>2 DEF Silent
    <3>3. CASE ~Silent
      <4>1. state = "Running" /\ (Emit("Succeeded") \/ Emit("Failed"))
        BY <2>1, <3>3
      <4>2. ends = 0
        BY <3>1, <4>1 DEF Outcomes
      <4>3. ends' = 1 /\ state' \in Outcomes
        BY <4>1, <4>2 DEF Emit, Outcomes
      <4>4. ~misfired'
        BY <3>1, <4>1 DEF Emit
      <4> QED BY <3>1, <4>3, <4>4
    <3> QED BY <3>2, <3>3
  <2>3. state' # "Running" => doing' = {}
    BY DEF Emit, Silent, IInv, Undisturbed
  <2>4. kind' = "MultipleOptions" /\ state' # "Running" => NextEvent \notin Range(events')
    BY <2>1, TakingEvent DEF IInv, OneAtATime
  <2>5. \A t \in dropped' : link'[t] = "none" /\ subState'[t] # "Running" /\ ~Posted(t)'
    BY <1>1 DEF IInv, TypeOK, Undisturbed
  <2> QED BY <2>2, <2>3, <2>4, <2>5
<1> QED BY <1>2, <1>3, <1>5, <1>6, <1>7 DEF IInv

\* The branch that starts a sub-task.
LEMMA SubTaskStartedStep ==
  ASSUME IInv, events # <<>>, Head(events) = NextEvent,
         MayStartNext, StartSubTask(Head(queue)),
         UNCHANGED <<kind, dropped, fault, starts, aborts>>
  PROVE  IInv'
<1> DEFINE t == Head(queue)
<1> USE DEF Silent
<1>1. queue \in Seq(Task) /\ queue # <<>> /\ state = "Running"
  BY DEF IInv, TypeOK, MayStartNext
<1>2. /\ t \in Task /\ queue' \in Seq(Task)
      /\ Range(queue) = {t} \cup Range(queue')
  BY <1>1, TailRange DEF StartSubTask
<1>3. IsInjective(queue') /\ t \notin Range(queue')
  <2>1. \A x \in Task : AtMostOnce(queue, x)
    BY <1>1, InjectiveQueue DEF IInv, Bookkeeping
  <2>2. /\ \A x \in Task : AtMostOnce(Tail(queue), x)
        /\ Head(queue) \notin Range(Tail(queue))
    BY <1>1, <1>2, <2>1, OnceInTail
  <2> QED BY <1>2, <2>2, InjectiveQueue DEF StartSubTask
<1>4. /\ t \notin doing /\ t \notin done /\ t \notin dropped
      /\ link[t] = "none" /\ subState[t] # "Running" /\ ~Posted(t)
  BY <1>2 DEF IInv, Bookkeeping
<1>5. /\ events' \in Seq(Task \cup {NextEvent})
      /\ Range(events') = Range(Tail(events)) \cup {t}
  <2>1. Tail(events) \in Seq(Task \cup {NextEvent}) /\ t \in Task \cup {NextEvent}
    BY <1>2, TakingEvent
  <2>2. events' = Append(Tail(events), t)
    BY DEF StartSubTask
  <2> DEFINE E == Task \cup {NextEvent}
             s == Tail(events)
  <2>3. s \in Seq(E) /\ t \in E
    BY <2>1
  <2> HIDE DEF t, E, s
  <2>4. Append(s, t) \in Seq(E) /\ Range(Append(s, t)) = Range(s) \cup {t}
    BY <2>3, AppendRange
  <2> QED BY <2>2, <2>4 DEF E, s
<1>6. /\ \A x \in Task : Posted(x)' <=> Posted(x) \/ x = t
      /\ NextEvent \in Range(events)
      /\ NextEvent \in Range(events') => NextEvent \in Range(Tail(events))
  BY <1>2, <1>5, TakingEvent, TaskAssumption DEF Posted
<1>7. \A x \in Task : AtMostOnce(events', x)
  <2>1. t \notin Range(Tail(events))
    BY <1>4, TakingEvent DEF Posted
  <2> QED BY <1>2, <2>1, TakingEvent, OnceInAppend DEF StartSubTask
<1> HIDE DEF t
<1>8. TypeOK'
  <2>1. link' \in [Task -> Links]
    BY <1>2 DEF StartSubTask, IInv, TypeOK, Links, t
  <2> QED BY <1>2, <1>5, <2>1 DEF StartSubTask, IInv, TypeOK, t
<1>9. Bookkeeping'
  BY <1>2, <1>3, <1>4, <1>6 DEF StartSubTask, IInv, TypeOK, Bookkeeping, t
<1>10. OncePosted'
  BY <1>4, <1>6, <1>7 DEF StartSubTask, IInv, OncePosted
<1>11. WithinLimit'
  <2>1. /\ IsFiniteSet(doing) /\ Cardinality(doing) \in Nat /\ Limit \in Nat
        /\ Cardinality(doing) < Limit
    BY Doing DEF MayStartNext, IInv
  <2>2. Cardinality(doing \cup {t}) = Cardinality(doing) + 1
    BY <1>4, <2>1, FS_AddElement DEF t
  <2>3. Cardinality(doing \cup {t}) <= Limit
    BY <2>1, <2>2
  <2> QED BY <2>3 DEF StartSubTask, WithinLimit, Limit, t
<1>12. NeverStuck'
  BY <1>1, <1>2, <1>6 DEF StartSubTask, IInv, TypeOK, NeverStuck, t
<1>13. OneAtATime'
  <2>1. starts # 0
    BY DEF IInv, OneAtATime
  <2>2. kind # "Concurrent" => doing = {}
    BY Doing, FS_EmptySet DEF MayStartNext, IInv
  <2>3. kind = "MultipleOptions" =>
          AtMostOnce(events', NextEvent) /\ NextEvent \notin Range(events')
    <3>1. kind = "MultipleOptions" => /\ AtMostOnce(Tail(events), NextEvent)
                                      /\ NextEvent \notin Range(Tail(events))
      BY <1>1, TakingEvent DEF IInv, OneAtATime
    <3> QED BY <1>2, <1>6, <3>1, TakingEvent, OnceInAppend DEF StartSubTask, t
  <2> QED BY <1>1, <2>1, <2>2, <2>3 DEF StartSubTask, IInv, OneAtATime, t
<1>14. Undisturbed'
  BY <1>1, <1>4, <1>6 DEF StartSubTask, IInv, TypeOK, Undisturbed, Outcomes, t
<1> QED BY <1>8, <1>9, <1>10, <1>11, <1>12, <1>13, <1>14 DEF IInv

\* executeNextSubTask(), in whichever branch it takes.
LEMMA DeliverNextStep ==
  ASSUME IInv, DeliverNext
  PROVE  IInv'
<1> USE DEF DeliverNext
<1>1. events # <<>> /\ Head(events) = NextEvent /\ NextEvent \in Range(events)
  BY TakingEvent
<1>2. CASE ExecuteNextSubTask
  <2>1. CASE MayStartNext
    BY <1>1, <1>2, <2>1, SubTaskStartedStep DEF ExecuteNextSubTask
  <2>2. CASE ~MayStartNext /\ AllDone
    <3>1. Verdict \in {"Succeeded", "Failed"}
      BY DEF Verdict
    <3>2. /\ Emit("Succeeded") \/ Emit("Failed")
          /\ events' = Tail(events) /\ UNCHANGED <<pool, subs>>
      BY <1>2, <2>2, <3>1 DEF ExecuteNextSubTask
    <3> QED BY <1>1, <2>2, <3>2, NothingStartedStep DEF AllDone
  <2>3. CASE ~MayStartNext /\ ~AllDone
    <3>1. state = "Running" => doing # {}
      BY <2>3, Doing DEF MayStartNext, AllDone, IInv
    <3>2. Silent /\ events' = Tail(events) /\ UNCHANGED <<pool, subs>>
      BY <1>2, <2>3 DEF ExecuteNextSubTask
    <3> QED BY <1>1, <3>1, <3>2, NothingStartedStep
  <2> QED BY <2>1, <2>2, <2>3
<1>3. CASE kind = "MultipleOptions" /\ ~ExecuteNextSubTask
  <2>1. /\ Emit("Succeeded") \/ Emit("Failed")
        /\ events' = Tail(events) /\ UNCHANGED <<pool, subs>>
    BY <1>3 DEF ExecuteNextOption
  <2>2. aborts = 0 => doing = {}
    BY <1>1, <1>3 DEF IInv, OneAtATime, Undisturbed
  <2> QED BY <1>1, <1>3, <2>1, <2>2, NothingStartedStep
<1> QED BY <1>2, <1>3

\* The posted start() of a sub-task: it was posted once, and is now running.
LEMMA DeliverStartStep ==
  ASSUME IInv, NEW t \in Task, DeliverStart(t)
  PROVE  IInv'
<1> USE DEF DeliverStart, Silent, pool
<1>1. /\ Posted(t) /\ ~Posted(t)'
      /\ \A u \in Task : u # t => (Posted(u)' <=> Posted(u))
      /\ NextEvent \in Range(events') <=> NextEvent \in Range(events)
  BY TakingEvent, TaskAssumption DEF Posted
<1>2. t \in doing \cup dropped /\ t \notin done
  BY <1>1 DEF IInv, Bookkeeping
<1>3. /\ subState' \in [Task -> States] /\ subState'[t] = "Running"
      /\ \A u \in Task : u # t => subState'[u] = subState[u]
  BY DEF IInv, TypeOK, States
<1>4. TypeOK'
  BY <1>3, TakingEvent DEF IInv, TypeOK
<1>5. Bookkeeping' /\ OncePosted' /\ WithinLimit' /\ NeverStuck'
  BY <1>1, <1>2, <1>3, TakingEvent
  DEF IInv, TypeOK, Bookkeeping, OncePosted, WithinLimit, NeverStuck, Limit
<1>6. OneAtATime'
  BY <1>1, TakingEvent DEF IInv, OneAtATime
<1>7. Undisturbed'
  <2>1. aborts = 0 => t \notin dropped
    BY <1>1 DEF IInv, Undisturbed
  <2> QED BY <1>1, <1>3, <2>1 DEF IInv, TypeOK, Undisturbed
<1> QED BY <1>4, <1>5, <1>6, <1>7 DEF IInv

\* A sub-task ends and one of the container's slots is called for it.
LEMMA HeardEndStep ==
  ASSUME IInv, NEW t \in doing, NEW o \in Outcomes,
         SubTaskEnds(t, o), Heard(t, o)
  PROVE  IInv'
<1> USE DEF SubTaskEnds, SubTaskFinished
<1>1. t \in Task /\ t \notin done /\ t \notin dropped /\ ~Posted(t) /\ subState[t] = "Running"
  BY DEF IInv, TypeOK, Bookkeeping, OncePosted
<1>2. /\ events' \in Seq(Task \cup {NextEvent})
      /\ Range(events') = Range(events) \cup {NextEvent}
  <2> DEFINE E == Task \cup {NextEvent}
  <2>1. events \in Seq(E) /\ NextEvent \in E /\ events' = Append(events, NextEvent)
    BY DEF IInv, TypeOK, EventsAfterFinish
  <2> HIDE DEF E
  <2>2. Append(events, NextEvent) \in Seq(E)
        /\ Range(Append(events, NextEvent)) = Range(events) \cup {NextEvent}
    BY <2>1, AppendRange
  <2> QED BY <2>1, <2>2 DEF E
<1>3. \A u \in Task : (Posted(u)' <=> Posted(u)) /\ AtMostOnce(events', u)
  <2> DEFINE E == Task \cup {NextEvent}
  <2>1. /\ events \in Seq(E) /\ NextEvent \in E /\ events' = Append(events, NextEvent)
        /\ \A u \in Task : AtMostOnce(events, u) /\ u # NextEvent
    BY TaskAssumption DEF IInv, TypeOK, OncePosted, EventsAfterFinish
  <2> HIDE DEF E
  <2>2. \A u \in Task : AtMostOnce(events', u)
    BY <2>1, OnceInAppend
  <2> QED BY <1>2, <2>1, <2>2 DEF Posted
<1>4. /\ subState' \in [Task -> States] /\ subState'[t] = o
      /\ \A u \in Task : u # t => subState'[u] = subState[u]
  BY <1>1 DEF IInv, TypeOK, States, Outcomes
<1>5. /\ link' \in [Task -> Links] /\ link'[t] = "none"
      /\ \A u \in Task : u # t => link'[u] = link[u]
  BY <1>1 DEF IInv, TypeOK, Links
<1>6. Silent \/ (kind = "Sequential" /\ Emit("Failed"))
  OBVIOUS
<1>7. TypeOK'
  <2>1. ends' \in Nat /\ state' \in States
    BY <1>6 DEF Emit, Silent, IInv, TypeOK, States
  <2>2. misfired' \in BOOLEAN
    BY <1>6 DEF Emit, Silent, IInv, TypeOK
  <2>3. /\ doing' \in SUBSET Task /\ done' \in SUBSET Task
        /\ failed' \in SUBSET Task /\ succeeded' \in SUBSET Task
    BY <1>1 DEF IInv, TypeOK
  <2> QED BY <1>2, <1>4, <1>5, <2>1, <2>2, <2>3 DEF IInv, TypeOK
<1>8. Bookkeeping'
  BY <1>1, <1>3, <1>4, <1>5 DEF IInv, TypeOK, Bookkeeping, Good, Outcomes
<1>9. OncePosted'
  BY <1>3, <1>4 DEF IInv, OncePosted, Outcomes
<1>10. WithinLimit'
  <2>1. Cardinality(doing') <= Cardinality(doing) /\ Cardinality(doing') \in Nat
    BY Doing, FS_Subset, FS_CardinalityType DEF IInv
  <2> QED BY <2>1, Doing DEF IInv, WithinLimit, Limit
<1>11. NeverStuck'
  BY <1>2, <1>3, <1>4, <1>5, <1>6 DEF IInv, TypeOK, NeverStuck, Emit, Silent
<1>12. kind # "Concurrent" => doing = {t} /\ doing' = {}
  BY DEF IInv, OneAtATime
<1>13. OneAtATime'
  <2>1. starts # 0
    BY DEF IInv, OneAtATime
  <2>2. kind = "MultipleOptions" /\ state' = "Running" => AtMostOnce(events', NextEvent)
    <3> SUFFICES ASSUME kind = "MultipleOptions", state' = "Running"
                 PROVE  AtMostOnce(events', NextEvent)
      OBVIOUS
    <3> DEFINE E == Task \cup {NextEvent}
    <3>1. /\ AtMostOnce(events, NextEvent) /\ NextEvent \notin Range(events)
          /\ events \in Seq(E) /\ NextEvent \in E /\ events' = Append(events, NextEvent)
      BY <1>6 DEF IInv, TypeOK, OneAtATime, Silent, EventsAfterFinish
    <3> HIDE DEF E
    <3> QED BY <3>1, OnceInAppend
  <2>3. kind = "Sequential" /\ state' = "Running" => failed' = failed /\ state = "Running"
    BY <1>6 DEF Emit, Silent
  <2> QED BY <1>12, <2>1, <2>2, <2>3 DEF IInv, OneAtATime
<1>14. Undisturbed'
  <2> SUFFICES ASSUME aborts = 0
               PROVE  /\ ~misfired' /\ ~fault'
                      /\ ends' = (IF state' \in Outcomes THEN 1 ELSE 0)
                      /\ state' # "Running" => doing' = {} /\ kind = "Sequential"
                      /\ \A u \in dropped :
                           link'[u] = "none" /\ subState'[u] # "Running" /\ ~Posted(u)'
    BY DEF Undisturbed
  <2>1. state = "Running" /\ ~misfired /\ ~fault /\ ends = 0
    BY DEF IInv, Undisturbed, Outcomes
  <2>2. ~misfired' /\ ~fault' /\ ends' = (IF state' \in Outcomes THEN 1 ELSE 0)
    <3>1. fault' = fault
      OBVIOUS
    <3>2. CASE Silent
      BY <2>1, <3>1, <3>2 DEF Silent, Outcomes
    <3>3. CASE Emit("Failed")
      <4>1. ends' = 1 /\ state' = "Failed"
        BY <2>1, <3>3 DEF Emit
      <4>2. ~misfired'
        BY <2>1, <3>3 DEF Emit
      <4> QED BY <2>1, <3>1, <4>1, <4>2 DEF Outcomes
    <3> QED BY <1>6, <3>2, <3>3
  <2>3. state' # "Running" => doing' = {} /\ kind = "Sequential"
    BY <1>6, <1>12, <2>1 DEF Silent
  <2>4. \A u \in dropped : link'[u] = "none" /\ subState'[u] # "Running" /\ ~Posted(u)'
    BY <1>1, <1>3, <1>4, <1>5 DEF IInv, TypeOK, Undisturbed
  <2> QED BY <2>2, <2>3, <2>4
<1> QED BY <1>7, <1>8, <1>9, <1>10, <1>11, <1>13, <1>14 DEF IInv

\* A sub-task ends and nobody listens, or the container has forgotten it.
LEMMA UnheardEndStep ==
  ASSUME IInv, NEW t \in Task, NEW o \in Outcomes,
         SubTaskEnds(t, o), ~(Heard(t, o) /\ t \in doing)
  PROVE  IInv'
<1> USE DEF SubTaskEnds, Silent
<1>1. t \in doing \cup dropped /\ t \notin done
  BY DEF IInv, Bookkeeping
<1>2. aborts # 0 /\ ~(state = "Running" /\ t \in doing)
  BY <1>1 DEF IInv, Undisturbed, NeverStuck, Heard
<1>3. /\ subState' \in [Task -> States] /\ subState'[t] = o
      /\ \A u \in Task : u # t => subState'[u] = subState[u]
  BY DEF IInv, TypeOK, States, Outcomes
<1>4. TypeOK'
  <2>1. fault' \in BOOLEAN
    BY DEF Heard
  <2> QED BY <1>3, <2>1 DEF IInv, TypeOK
<1>5. Bookkeeping' /\ OncePosted' /\ NeverStuck'
  BY <1>1, <1>2, <1>3 DEF IInv, TypeOK, Bookkeeping, OncePosted, NeverStuck, Posted, Outcomes
<1>6. WithinLimit' /\ OneAtATime' /\ Undisturbed'
  BY <1>2 DEF IInv, WithinLimit, OneAtATime, Undisturbed, Limit
<1> QED BY <1>4, <1>5, <1>6 DEF IInv

\* abort() with nothing in m_doing.
LEMMA AbortIdleStep ==
  ASSUME IInv, AbortIdle
  PROVE  IInv'
<1> USE DEF AbortIdle, subs
<1>1. /\ <<>> \in Seq(Task) /\ DOMAIN <<>> = {} /\ Range(<<>>) = {}
      /\ Range(queue) \subseteq Task
  BY EmptySeq, RangeOfSeq, LenProperties DEF IInv, TypeOK, Range
<1>2. aborts' \in 0 .. MaxAborts /\ aborts' # 0 /\ ends' \in Nat
  BY BoundsAssumption DEF IInv, TypeOK
<1>3. TypeOK'
  BY <1>1, <1>2 DEF IInv, TypeOK
<1>4. Bookkeeping'
  BY <1>1 DEF IInv, Bookkeeping, Posted, IsInjective
<1>5. OncePosted' /\ WithinLimit' /\ NeverStuck' /\ OneAtATime'
  BY DEF IInv, OncePosted, WithinLimit, NeverStuck, OneAtATime, Posted, AtMostOnce, Limit
<1>6. Undisturbed'
  BY <1>2 DEF Undisturbed
<1> QED BY <1>3, <1>4, <1>5, <1>6 DEF IInv

\* abort() with tasks in m_doing, whatever each of them answers.
LEMMA AbortDoingStep ==
  ASSUME IInv, NEW reply \in [doing -> Replies], AbortDoing(reply)
  PROVE  IInv'
<1> DEFINE ending  == {t \in doing : reply[t] = "ended"}
           failing == {t \in doing : reply[t] = "failed"}
<1>1. /\ <<>> \in Seq(Task) /\ DOMAIN <<>> = {} /\ Range(<<>>) = {}
      /\ Range(queue) \subseteq Task /\ doing \subseteq Task
  BY EmptySeq, RangeOfSeq, LenProperties DEF IInv, TypeOK, Range
<1>2. /\ failing \subseteq doing /\ ending \subseteq doing /\ failing \cap ending = {}
      /\ \A t \in failing \cup ending : subState[t] = "Running" /\ ~Posted(t)
  BY <1>1 DEF AbortDoing, ReplyPossible, IInv, OncePosted
<1>3. Cardinality(failing) \in Nat
  BY <1>2, Doing, FS_Subset, FS_CardinalityType DEF IInv
<1>4. /\ events' \in Seq(Task \cup {NextEvent})
      /\ \A t \in Task : AtMostOnce(events', t) /\ (Posted(t)' <=> Posted(t))
      /\ NextEvent \in Range(events) => NextEvent \in Range(events')
  <2>1. /\ events \in Seq(Task \cup {NextEvent})
        /\ \A t \in Task : AtMostOnce(events, t)
        /\ events' = events \o [i \in 1 .. Cardinality(failing) |-> NextEvent]
    BY DEF IInv, TypeOK, OncePosted, AbortDoing
  <2> QED BY <1>3, <2>1, PostingNext DEF Posted
<1>5. /\ doing' = doing \ failing /\ done' = done \cup failing
      /\ failed' = failed \cup failing /\ succeeded' = succeeded
      /\ queue' = <<>> /\ dropped' = dropped \cup Range(queue)
      /\ kind' = kind /\ starts' = starts
      /\ aborts' \in 0 .. MaxAborts /\ aborts' # 0
  BY BoundsAssumption DEF AbortDoing, IInv, TypeOK
<1>6. state' # "Running" /\ state' \in States
  BY DEF AbortDoing, IInv, TypeOK, States
<1>7. /\ subState' \in [Task -> States]
      /\ \A t \in ending : subState'[t] = "AbortedByUser"
      /\ \A t \in failing : subState'[t] = "Failed"
      /\ \A t \in Task \ (ending \cup failing) : subState'[t] = subState[t]
  BY <1>1, <1>2 DEF AbortDoing, IInv, TypeOK, States
<1>8. /\ link' \in [Task -> Links]
      /\ \A t \in failing : link'[t] = "none"
      /\ \A t \in Task \ doing : link'[t] = link[t]
  BY <1>1, <1>2 DEF AbortDoing, IInv, TypeOK, Links
<1> HIDE DEF ending, failing
<1>9. TypeOK'
  <2>1. misfired' \in BOOLEAN /\ fault' \in BOOLEAN
    BY DEF AbortDoing, IInv, TypeOK
  <2>2. ends' \in Nat
    BY DEF AbortDoing, IInv, TypeOK
  <2>3. kind' \in Kinds /\ starts' \in 0 .. MaxStarts
    BY <1>5 DEF IInv, TypeOK
  <2>4. /\ doing' \in SUBSET Task /\ done' \in SUBSET Task /\ failed' \in SUBSET Task
        /\ succeeded' \in SUBSET Task /\ dropped' \in SUBSET Task
    BY <1>1, <1>2, <1>5 DEF IInv, TypeOK
  <2> QED BY <1>1, <1>4, <1>5, <1>6, <1>7, <1>8, <2>1, <2>2, <2>3, <2>4 DEF TypeOK
<1>10. Bookkeeping'
  <2>1. /\ IsInjective(queue')
        /\ Range(queue') \cap (doing' \cup done' \cup dropped') = {}
        /\ doing' \cap (done' \cup dropped') = {} /\ done' \cap dropped' = {}
        /\ done' = failed' \cup succeeded'
    BY <1>1, <1>2, <1>5 DEF IInv, Bookkeeping, IsInjective
  <2>2. /\ \A t \in succeeded' : subState'[t] = "Succeeded"
        /\ \A t \in failed' : subState'[t] \in {"Failed", "AbortedByUser"}
    BY <1>1, <1>2, <1>5, <1>7 DEF IInv, TypeOK, Bookkeeping
  <2>3. ASSUME NEW t \in Task \ (doing' \cup dropped')
        PROVE  link'[t] = "none" /\ subState'[t] # "Running" /\ ~Posted(t)'
    <3>1. CASE t \in failing
      BY <1>2, <1>4, <1>7, <1>8, <3>1
    <3>2. CASE t \notin failing
      BY <1>2, <1>4, <1>5, <1>7, <1>8, <3>2 DEF IInv, Bookkeeping
    <3> QED BY <3>1, <3>2
  <2> QED BY <2>1, <2>2, <2>3 DEF Bookkeeping
<1>11. OncePosted'
  BY <1>1, <1>2, <1>4, <1>7 DEF IInv, OncePosted
<1>12. WithinLimit'
  <2>1. Cardinality(doing') <= Cardinality(doing) /\ Cardinality(doing') \in Nat
    BY <1>5, Doing, FS_Subset, FS_CardinalityType DEF IInv
  <2> QED BY <1>5, <2>1, Doing DEF IInv, WithinLimit, Limit
<1>13. NeverStuck'
  BY <1>6 DEF NeverStuck
<1>14. OneAtATime'
  <2>1. starts # 0
    BY DEF IInv, OneAtATime, AbortDoing
  <2> QED BY <1>2, <1>5, <1>6, <2>1 DEF IInv, OneAtATime
<1>15. Undisturbed'
  BY <1>5 DEF Undisturbed
<1> QED BY <1>9, <1>10, <1>11, <1>12, <1>13, <1>14, <1>15 DEF IInv

\* No step leaves the invariant.
LEMMA Invariance == IInv /\ [Next]_vars => IInv'
<1> SUFFICES ASSUME IInv, [Next]_vars PROVE IInv'
  OBVIOUS
<1>1. CASE Start BY <1>1, StartStep
<1>2. CASE Clear BY <1>2, ClearStep
<1>3. CASE AbortIdle BY <1>3, AbortIdleStep
<1>4. ASSUME NEW reply \in [doing -> Replies], AbortDoing(reply) PROVE IInv'
  BY <1>4, AbortDoingStep
<1>5. CASE DeliverNext BY <1>5, DeliverNextStep
<1>6. ASSUME NEW t \in Task, DeliverStart(t) PROVE IInv'
  BY <1>6, DeliverStartStep
<1>7. ASSUME NEW t \in Task, AddTask(t) PROVE IInv'
  BY <1>7, AddTaskStep
<1>8. ASSUME NEW t \in Task, NEW o \in Outcomes, SubTaskEnds(t, o) PROVE IInv'
  BY <1>8, HeardEndStep, UnheardEndStep
<1>9. CASE UNCHANGED vars
  <2> USE <1>9 DEF vars, pool, subs
  <2>1. TypeOK' /\ Bookkeeping' /\ OncePosted'
    BY DEF IInv, TypeOK, Bookkeeping, OncePosted, Posted, AtMostOnce
  <2>2. WithinLimit' /\ NeverStuck' /\ OneAtATime' /\ Undisturbed'
    BY DEF IInv, WithinLimit, NeverStuck, OneAtATime, Undisturbed, Posted, Limit, AtMostOnce
  <2> QED BY <2>1, <2>2 DEF IInv
<1> QED
  BY <1>1, <1>2, <1>3, <1>4, <1>5, <1>6, <1>7, <1>8, <1>9 DEF Next, Abort, Deliver

(***************************************************************************)
(* The theorems about the reachable states.                                *)
(***************************************************************************)
\* The inductive invariant holds in every reachable state.
THEOREM Inductive == Spec => []IInv
<1> QED BY Initially, Invariance, PTL DEF Spec

\* The state of a container, its five collections and the posted events are
\* always of the types of the C++ members they stand for.
THEOREM TypeCorrect == Spec => []TypeOK
<1>1. IInv => TypeOK BY DEF IInv
<1> QED BY <1>1, Inductive, PTL

\* The collections of subTaskFinished(), startSubTask(), abort() and clear()
\* partition the tasks and agree with the outcomes the tasks really had.
THEOREM BooksRight == Spec => []Bookkeeping
<1>1. IInv => Bookkeeping BY DEF IInv
<1> QED BY <1>1, Inductive, PTL

\* A running container never waits for a call nobody will make: the number of
\* executeNextSubTask() calls that are posted never falls short.
THEOREM NoLostWakeUp == Spec => []NeverStuck
<1>1. IInv => NeverStuck BY DEF IInv
<1> QED BY <1>1, Inductive, PTL

\* m_total_max_size limits the sub-tasks that run or have their start posted,
\* also in a second run that finds events of the first one still posted.
THEOREM LimitKept == Spec => []ConcurrencyBound
<1>1. ASSUME IInv PROVE ConcurrencyBound
  <2> DEFINE busy == {t \in Task \ dropped : Posted(t) \/ subState[t] = "Running"}
  <2>1. busy \subseteq doing
    BY <1>1 DEF IInv, Bookkeeping
  <2>2. Cardinality(busy) <= Cardinality(doing) /\ Cardinality(busy) \in Nat
    BY <1>1, <2>1, Doing, FS_Subset, FS_CardinalityType DEF IInv
  <2> QED BY <1>1, <2>2, Doing DEF ConcurrencyBound, IInv, WithinLimit
<1> QED BY <1>1, Inductive, PTL

\* As long as abort() is never called, no run ends twice, the ASSERT_NEVERs of
\* the emit functions hold and no slot meets a forgotten task.
THEOREM CleanBeforeAbort == Spec => []CleanUnlessAborted
<1>1. ASSUME IInv PROVE CleanUnlessAborted
  <2> SUFFICES ASSUME aborts = 0 PROVE ~misfired /\ ~fault /\ ~(ends > 1)
    BY <1>1 DEF CleanUnlessAborted, IInv, TypeOK
  <2>1. ~misfired /\ ~fault
    BY <1>1 DEF IInv, Undisturbed
  <2>2. ends = 0 \/ ends = 1
    BY <1>1 DEF IInv, Undisturbed
  <2>3. ~(ends > 1)
    BY <2>2
  <2> QED BY <2>1, <2>3
<1> QED BY <1>1, Inductive, PTL

\* A container turns Succeeded only in executeNextSubTask(), and then the
\* sub-tasks it has not been told to forget have succeeded.
LEMMA SuccessStep ==
  ASSUME IInv, Next
  PROVE  EarnedSuccess
<1> SUFFICES ASSUME state = "Running", state' = "Succeeded"
             PROVE  /\ doing = {}
                    /\ IF kind = "MultipleOptions"
                         THEN \E t \in Tracked \ dropped : subState[t] = "Succeeded"
                         ELSE \A t \in Tracked \ dropped : subState[t] = "Succeeded"
  BY DEF EarnedSuccess
<1>1. DeliverNext
  <2>1. ~Start /\ ~Clear /\ ~AbortIdle
    BY DEF Start, Clear, AbortIdle
  <2>2. \A reply \in [doing -> Replies] : ~AbortDoing(reply)
    BY DEF AbortDoing
  <2>3. \A t \in Task : ~DeliverStart(t) /\ ~AddTask(t)
    BY DEF DeliverStart, AddTask, Silent
  <2>4. \A t \in Task : \A o \in Outcomes : ~SubTaskEnds(t, o)
    BY DEF SubTaskEnds, SubTaskFinished, Emit, Silent
  <2> QED BY <2>1, <2>2, <2>3, <2>4 DEF Next, Abort, Deliver
<1>2. CASE kind # "MultipleOptions" \/ (done = failed /\ queue # <<>>)
  <2>1. ExecuteNextSubTask
    BY <1>1, <1>2 DEF DeliverNext, ExecuteNextOption
  <2>2. AllDone /\ failed = {}
    BY <2>1 DEF ExecuteNextSubTask, StartSubTask, Emit, Silent, Verdict
  <2>3. Range(queue) = {} /\ kind # "MultipleOptions"
    BY <1>2, <2>2, EmptySeq DEF AllDone, Range
  <2> QED BY <2>2, <2>3 DEF AllDone, Tracked, IInv, Bookkeeping
<1>3. CASE kind = "MultipleOptions" /\ ~(done = failed /\ queue # <<>>)
  <2>1. done # failed /\ NextEvent \in Range(events)
    BY <1>1, <1>3, TakingEvent DEF DeliverNext, ExecuteNextOption, Emit
  <2>2. \E t \in succeeded : t \notin failed
    BY <2>1 DEF IInv, Bookkeeping
  <2>3. \A t \in succeeded : t \in Tracked \ dropped /\ subState[t] = "Succeeded"
    BY DEF IInv, Bookkeeping, Tracked
  <2>4. doing = {}
    BY <1>3, <2>1 DEF IInv, OneAtATime
  <2> QED BY <1>3, <2>2, <2>3, <2>4
<1> QED BY <1>2, <1>3

\* A container that turns Succeeded has nothing left to do, and what it was
\* given and not told to forget has succeeded (for options: one of them).
THEOREM SuccessEarned == Spec => SuccessIsEarned
<1>1. IInv /\ [Next]_vars => [EarnedSuccess]_vars
  BY SuccessStep
<1> QED BY <1>1, Inductive, PTL DEF Spec, SuccessIsEarned

(***************************************************************************)
(* The container implements TaskPool.                                      *)
(***************************************************************************)
LEMMA SameLimit == Pool!Limit = Limit /\ \A S : Pool!Cardinality(S) = Cardinality(S)
<1>1. Pool!Limit = Limit
  BY DEF Pool!Limit, Limit
<1>2. \A S : Pool!Cardinality(S) = Cardinality(S)
  BY DEF Pool!Cardinality, Cardinality
<1> QED BY <1>1, <1>2

\* The owner's calls are steps of the pool, or stutter.
LEMMA OwnerSteps ==
  ASSUME IInv
  PROVE  /\ \A t \in Task : AddTask(t) => Pool!Submit(t)
         /\ Start => Pool!Open
         /\ Clear => Pool!Reset
         /\ AbortIdle => Pool!Cancel
<1>1. ASSUME NEW t \in Task, AddTask(t) PROVE Pool!Submit(t)
  <2>1. Range(queue') = Range(queue) \cup {t}
    BY <1>1, AppendRange DEF AddTask, IInv, TypeOK
  <2>2. t \notin Range(queue) \cup doing \cup succeeded \cup failed
    BY <1>1 DEF AddTask, Tracked, IInv, Bookkeeping
  <2> QED BY <1>1, <2>1, <2>2 DEF AddTask, Silent, Pool!Submit
<1>2. ASSUME Start PROVE Pool!Open
  BY <1>2 DEF Start, Fresh, pool, Pool!Open, IInv, Bookkeeping
<1>3. Range(<<>>) = {}
  BY EmptySeq, LenProperties DEF Range
<1>4. ASSUME Clear PROVE Pool!Reset
  BY <1>3, <1>4 DEF Clear, Silent, Pool!Reset
<1>5. ASSUME AbortIdle PROVE Pool!Cancel
  BY <1>3, <1>5 DEF AbortIdle, Pool!Cancel
<1> QED BY <1>1, <1>2, <1>4, <1>5

\* A delivered call hands out a task, closes the pool, or stutters.
LEMMA DeliverySteps ==
  ASSUME IInv, DeliverNext
  PROVE  Pool!Progress \/ UNCHANGED Pool!vars
<1> USE DEF DeliverNext
<1>1. NextEvent \in Range(events)
  BY TakingEvent
<1>2. CASE MayStartNext /\ StartSubTask(Head(queue))
  <2>1. /\ Head(queue) \in Task
        /\ Range(queue) = {Head(queue)} \cup Range(Tail(queue))
        /\ \A x \in Task : AtMostOnce(queue, x)
    BY <1>2, TailRange, InjectiveQueue DEF MayStartNext, IInv, TypeOK, Bookkeeping
  <2>2. Head(queue) \notin Range(Tail(queue))
    BY <1>2, <2>1, OnceInTail DEF MayStartNext, IInv, TypeOK
  <2>3. Range(queue') = Range(queue) \ {Head(queue)}
    BY <1>2, <2>1, <2>2 DEF StartSubTask
  <2>4. kind = "Sequential" => failed = {}
    BY <1>2 DEF MayStartNext, IInv, OneAtATime
  <2>5. kind = "MultipleOptions" => succeeded = {}
    <3> SUFFICES ASSUME kind = "MultipleOptions", NEW t \in succeeded PROVE FALSE
      OBVIOUS
    <3>1. ExecuteNextOption
      BY DEF DeliverNext
    <3>2. done = failed
      BY <1>2, <3>1, <1>2 DEF ExecuteNextOption, Emit, MayStartNext, StartSubTask, Silent
    <3> QED BY <3>2 DEF IInv, Bookkeeping
  <2>6. Pool!Cardinality(doing) < Pool!Limit /\ state = "Running"
    BY <1>2, SameLimit DEF MayStartNext
  <2>7. Pool!HandOut(Head(queue))
    <3>1. /\ doing' = doing \cup {Head(queue)}
          /\ UNCHANGED <<kind, state, succeeded, failed>>
      BY <1>2 DEF StartSubTask, Silent
    <3>2. Head(queue) \in Range(queue)
      BY <2>1
    <3> QED BY <2>3, <2>4, <2>5, <2>6, <3>1, <3>2 DEF Pool!HandOut
  <2> QED BY <2>1, <2>7 DEF Pool!Progress
<1>3. CASE ~MayStartNext /\ AllDone /\ ExecuteNextSubTask
           /\ (kind = "MultipleOptions" => done = failed /\ queue # <<>>)
  <2>1. Range(queue) = {} /\ kind # "MultipleOptions"
    BY <1>3, EmptySeq, LenProperties DEF AllDone, Range
  <2>2. state = "Running" /\ doing = {} /\ state' = Verdict /\ UNCHANGED <<kind, pool>>
    BY <1>3 DEF AllDone, ExecuteNextSubTask, Emit
  <2> QED BY <2>1, <2>2 DEF Verdict, pool, Pool!Progress, Pool!CloseGood, Pool!CloseBad
<1>4. CASE ~MayStartNext /\ ~AllDone /\ ExecuteNextSubTask
  BY <1>4 DEF ExecuteNextSubTask, Silent, pool, Pool!vars
<1>5. CASE kind = "MultipleOptions" /\ ~(done = failed /\ queue # <<>>)
  <2>1. UNCHANGED <<kind, pool>> /\ Emit(IF done # failed THEN "Succeeded" ELSE "Failed")
    BY <1>5 DEF ExecuteNextOption
  <2>2. CASE state # "Running"
    BY <2>1, <2>2 DEF Emit, pool, Pool!vars
  <2>3. CASE state = "Running"
    <3>1. doing = {} /\ state' = (IF done # failed THEN "Succeeded" ELSE "Failed")
      BY <1>1, <1>5, <2>1, <2>3 DEF IInv, OneAtATime, Emit
    <3>2. done # failed => succeeded # {}
      BY DEF IInv, Bookkeeping
    <3>3. done = failed => Range(queue) = {} /\ succeeded = {}
      <4> SUFFICES ASSUME done = failed PROVE Range(queue) = {} /\ succeeded = {}
        OBVIOUS
      <4>1. Range(queue) = {}
        BY <1>5, EmptySeq, LenProperties DEF Range
      <4> QED BY <4>1 DEF IInv, Bookkeeping
    <3> QED
      BY <1>5, <2>1, <2>3, <3>1, <3>2, <3>3
      DEF pool, Pool!Progress, Pool!CloseGood, Pool!CloseBad
  <2> QED BY <2>2, <2>3
<1> QED BY <1>2, <1>3, <1>4, <1>5 DEF ExecuteNextOption, ExecuteNextSubTask

\* The end of a sub-task settles it in the pool, or stutters.
LEMMA EndSteps ==
  ASSUME IInv, NEW t \in Task, NEW o \in Outcomes, SubTaskEnds(t, o)
  PROVE  Pool!SettleGood(t) \/ Pool!SettleBad(t) \/ UNCHANGED Pool!vars
<1> USE DEF SubTaskEnds
<1>1. CASE ~(Heard(t, o) /\ t \in doing)
  BY <1>1 DEF Silent, Pool!vars
<1>2. CASE Heard(t, o) /\ t \in doing /\ Good(o)
  BY <1>2 DEF SubTaskFinished, Silent, Pool!SettleGood
<1>3. CASE Heard(t, o) /\ t \in doing /\ ~Good(o)
  BY <1>3 DEF SubTaskFinished, Silent, Emit, Pool!SettleBad
<1> QED BY <1>1, <1>2, <1>3

\* abort() is a cancellation of the pool.
LEMMA CancelStep ==
  ASSUME IInv, NEW reply \in [doing -> Replies], AbortDoing(reply)
  PROVE  Pool!Cancel
<1> DEFINE failing == {t \in doing : reply[t] = "failed"}
<1>1. Range(<<>>) = {}
  BY EmptySeq, LenProperties DEF Range
<1>2. /\ failing \in SUBSET doing /\ doing # {}
      /\ doing' = doing \ failing /\ failed' = failed \cup failing
      /\ queue' = <<>> /\ UNCHANGED <<kind, succeeded>>
  BY DEF AbortDoing
<1>3. state' \in IF doing # {} /\ state = "Running"
                   THEN {"AbortedByUser", "Failed"} ELSE {state}
  BY DEF AbortDoing
<1> HIDE DEF failing
<1> QED BY <1>1, <1>2, <1>3 DEF Pool!Cancel

\* Whatever the event loop delivers, the owner sees a TaskPool.
THEOREM Implementation == Spec => ImplementsPool
<1>1. Init => Pool!Init
  <2>1. Range(<<>>) = {}
    BY EmptySeq, LenProperties DEF Range
  <2> QED BY <2>1 DEF Init, Kinds, Pool!Init
<1>2. IInv /\ [Next]_vars => [Pool!Next]_(Pool!vars)
  <2> SUFFICES ASSUME IInv, [Next]_vars PROVE [Pool!Next]_(Pool!vars)
    OBVIOUS
  <2>1. CASE Start \/ Clear \/ AbortIdle
    BY <2>1, OwnerSteps DEF Pool!Next
  <2>2. ASSUME NEW t \in Task, AddTask(t) PROVE [Pool!Next]_(Pool!vars)
    BY <2>2, OwnerSteps DEF Pool!Next
  <2>3. ASSUME NEW reply \in [doing -> Replies], AbortDoing(reply)
        PROVE  [Pool!Next]_(Pool!vars)
    BY <2>3, CancelStep DEF Pool!Next
  <2>4. CASE DeliverNext
    BY <2>4, DeliverySteps DEF Pool!Next
  <2>5. ASSUME NEW t \in Task, DeliverStart(t) PROVE [Pool!Next]_(Pool!vars)
    BY <2>5 DEF DeliverStart, Silent, pool, Pool!vars
  <2>6. ASSUME NEW t \in Task, NEW o \in Outcomes, SubTaskEnds(t, o)
        PROVE  [Pool!Next]_(Pool!vars)
    BY <2>6, EndSteps DEF Pool!Next
  <2>7. CASE UNCHANGED vars
    BY <2>7 DEF vars, pool, Pool!vars
  <2> QED BY <2>1, <2>2, <2>3, <2>4, <2>5, <2>6, <2>7 DEF Next, Abort, Deliver
<1> QED BY <1>1, <1>2, Inductive, PTL DEF Spec, ImplementsPool, Pool!Spec
=============================================================================
