---------------------------- MODULE NetJobProofs ----------------------------
(***************************************************************************)
(* A download job keeps its books over retries, dialogs and aborts: proofs *)
(* for every set of requests, every limit, and any number of rounds,       *)
(* starts and aborts.  The books of a job are not those of its base class  *)
(* (a request that an abort finds in the queue counts as failed), so only  *)
(* the lemmas about sequences are taken from ConcurrentTaskProofs.         *)
(***************************************************************************)
EXTENDS NetJob, ConcurrentTaskProofs

Shape == JobTypeOK /\ kind = "Concurrent"

\* The job has every request it was given, and no other was ever started.
Kept ==
  /\ succeeded \subseteq done
  /\ given = Range(queue) \cup doing \cup done \cup failed
  /\ \A t \in Task \ given : attempts[t] = 0

\* Only a request in m_doing runs or is about to; after an abort, also one
\* that was being done.
Live(t) == Posted(t) \/ subState[t] = "Running"
Placed ==
  \A t \in Task : Live(t) =>
    /\ t \in doing \cup (done \cap failed)
    /\ state = "Running" => t \in doing

\* The rounds that were paid for: those of the dialogs that are closed, and
\* those of the present series.
Pending(t) == t \in Range(queue) \/ Posted(t)
Budget == MaxTry * (manual - dialogs) + try
Paid ==
  /\ try = 0 => dialogs < manual
  /\ \A t \in Task : attempts[t] + (IF Pending(t) THEN 1 ELSE 0) <= Budget

Truth == \A t \in succeeded : subState[t] = "Succeeded"

JobIInv == Shape /\ JobBooks /\ Kept /\ OncePosted /\ Placed /\ Paid /\ Truth
-----------------------------------------------------------------------------
\* Taking the first request of a queue.
LEMMA QueueHead ==
  ASSUME NEW q \in Seq(Task), q # <<>>, IsInjective(q)
  PROVE  /\ Head(q) \in Task /\ Tail(q) \in Seq(Task) /\ IsInjective(Tail(q))
         /\ Range(q) = {Head(q)} \cup Range(Tail(q)) /\ Head(q) \notin Range(Tail(q))
<1>1. Head(q) \in Task /\ Tail(q) \in Seq(Task) /\ Range(q) = {Head(q)} \cup Range(Tail(q))
  BY TailRange
<1>2. \A x \in Task : AtMostOnce(q, x)
  BY InjectiveQueue
<1>3. \A x \in Task : AtMostOnce(Tail(q), x) /\ (Head(q) = x => x \notin Range(Tail(q)))
  BY <1>2, OnceInTail
<1> QED BY <1>1, <1>3, InjectiveQueue

\* The hash is walked in some order that misses nothing.
LEMMA OrdersCover ==
  ASSUME NEW S \in SUBSET Task, S # {}, NEW q \in Orders(S)
  PROVE  q \in Seq(Task) /\ q # <<>> /\ IsInjective(q) /\ Range(q) = S
<1> DEFINE n == Cardinality(S)
<1>1. IsFiniteSet(S) /\ n \in Nat /\ n # 0
  BY TaskAssumption, FS_Subset, FS_CardinalityType, FS_EmptySet
<1>2. q \in [1 .. n -> S] /\ IsInjective(q)
  BY DEF Orders
<1>3. IsFiniteSet(1 .. n) /\ Cardinality(1 .. n) = n
  BY <1>1, FS_Interval
<1>4. q \in Injection(1 .. n, S)
  BY <1>2 DEF Injection
<1>5. q \in Surjection(1 .. n, S)
  BY <1>1, <1>3, <1>4, FS_Injection
<1> HIDE DEF n
<1>6. Range(q) = S
  BY <1>2, <1>5 DEF Surjection, Range
<1>7. q \in Seq(Task)
  BY <1>1, <1>2
<1>8. q # <<>>
  <2>1. Len(q) = n
    BY <1>1, <1>2, <1>7, LenProperties
  <2> QED BY <1>1, <2>1, EmptySeq
<1> QED BY <1>2, <1>6, <1>7, <1>8

LEMMA EmptyQueue == <<>> \in Seq(Task) /\ Range(<<>>) = {} /\ IsInjective(<<>>)
<1>1. <<>> \in Seq(Task) /\ DOMAIN <<>> = {}
  BY EmptySeq, LenProperties
<1> QED BY <1>1 DEF Range, IsInjective

LEMMA EmitShape ==
  ASSUME Shape, NEW o \in {"Succeeded", "Failed", "AbortedByUser"}, Emit(o)
  PROVE  state' \in {state, o} /\ state' \in States /\ ends' \in Nat /\ misfired' \in BOOLEAN
  BY DEF Shape, JobTypeOK, TypeOK, Emit, States

LEMMA SilentShape ==
  ASSUME Shape, Silent
  PROVE  state' = state /\ state' \in States /\ ends' \in Nat /\ misfired' \in BOOLEAN
  BY DEF Shape, JobTypeOK, TypeOK, Silent

\* The event list as it is after one call was taken off it, or none.
Remaining(rest) ==
  /\ rest \in Seq(Task \cup {NextEvent})
  /\ \A t \in Task : AtMostOnce(rest, t) /\ (t \in Range(rest) <=> Posted(t))

LEMMA EventsRemain == JobIInv => Remaining(events)
  BY DEF JobIInv, Shape, JobTypeOK, TypeOK, OncePosted, Posted, Remaining

LEMMA NextTaken ==
  ASSUME JobIInv, events # <<>>, Head(events) = NextEvent
  PROVE  Remaining(Tail(events))
<1>1. events \in Seq(Task \cup {NextEvent}) /\ \A t \in Task : AtMostOnce(events, t)
  BY DEF JobIInv, Shape, JobTypeOK, TypeOK, OncePosted
<1>2. Tail(events) \in Seq(Task \cup {NextEvent}) /\ Range(events) = {NextEvent} \cup Range(Tail(events))
  BY <1>1, TailRange
<1>3. \A t \in Task : AtMostOnce(Tail(events), t)
  BY <1>1, OnceInTail
<1> QED BY <1>2, <1>3, TaskAssumption DEF Posted, Remaining

\* The counters of a step.
Counters ==
  /\ try' \in 0 .. MaxTry /\ manual' \in 0 .. ManualRetries /\ dialogs' \in 0 .. manual'
  /\ try' = 0 => dialogs' < manual'
  /\ Budget <= Budget'
Others == UNCHANGED <<kind, dropped, fault, starts, aborts, askRetry, why, given, attempts>>

LEMMA BudgetIsNat == JobIInv => Budget \in Nat /\ \A t \in Task : attempts[t] \in Nat
<1> SUFFICES ASSUME JobIInv PROVE Budget \in Nat /\ \A t \in Task : attempts[t] \in Nat
  OBVIOUS
<1>1. /\ try \in Nat /\ manual \in Nat /\ dialogs \in Nat /\ dialogs <= manual
      /\ attempts \in [Task -> Nat] /\ MaxTry \in Nat
  BY TriesAssumption DEF JobIInv, Shape, JobTypeOK
<1>2. manual - dialogs \in Nat
  BY <1>1
<1>3. \A k \in Nat : MaxTry * k \in Nat
  BY <1>1
<1> QED BY <1>1, <1>2, <1>3 DEF Budget

\* A step that starts nothing and at most ends the job.
LEMMA NothingStarted ==
  ASSUME JobIInv, NEW rest, Remaining(rest), events' = rest, UNCHANGED <<pool, subs>>, Others,
         state' \in {state, "Succeeded", "Failed"}, state' \in States,
         ends' \in Nat, misfired' \in BOOLEAN, Counters
  PROVE  JobIInv'
<1> USE DEF Others, pool, subs
<1>1. \A t \in Task : Posted(t)' <=> Posted(t)
  BY DEF Remaining, Posted
<1>2. Shape'
  BY DEF JobIInv, Shape, JobTypeOK, TypeOK, Remaining, Counters
<1>3. JobBooks' /\ Kept' /\ Truth'
  BY DEF JobIInv, JobBooks, Kept, Truth
<1>4. OncePosted'
  BY <1>1 DEF JobIInv, OncePosted, Remaining
<1>5. Placed'
  BY <1>1 DEF JobIInv, Placed, Live
<1>6. Paid'
  <2>1. \A t \in Task : Pending(t)' <=> Pending(t)
    BY <1>1 DEF Pending
  <2> SUFFICES ASSUME NEW t \in Task PROVE attempts[t] + (IF Pending(t) THEN 1 ELSE 0) <= Budget'
    BY <2>1 DEF Paid, Counters
  <2>2. attempts[t] + (IF Pending(t) THEN 1 ELSE 0) <= Budget /\ Budget <= Budget'
    BY DEF JobIInv, Paid, Counters
  <2>3. Budget \in Nat /\ Budget' \in Int /\ attempts[t] \in Nat
    BY BudgetIsNat, TriesAssumption DEF Budget, Counters
  <2> QED BY <2>2, <2>3
<1> QED BY <1>2, <1>3, <1>4, <1>5, <1>6 DEF JobIInv

\* The first of the queue, or of what a new round has put into it, is started.
LEMMA HeadStarted ==
  ASSUME JobIInv, state = "Running", NEW rest, Remaining(rest), Others, Counters,
         NEW q \in Seq(Task), q # <<>>, IsInjective(q), StartHeadOf(q, rest),
         failed' = failed \ Range(q), done' = done \ Range(q),
         Range(queue) \subseteq Range(q), Range(q) \subseteq Range(queue) \cup failed,
         \A t \in Range(q) : ~Live(t) /\ attempts[t] + 1 <= Budget'
  PROVE  JobIInv'
<1> DEFINE h == Head(q)
<1>1. /\ h \in Task /\ Tail(q) \in Seq(Task) /\ IsInjective(Tail(q))
      /\ Range(q) = {h} \cup Range(Tail(q)) /\ h \notin Range(Tail(q))
  BY QueueHead
<1>2. /\ queue' = Tail(q) /\ doing' = doing \cup {h} /\ link' = [link EXCEPT ![h] = "all"]
      /\ events' = Append(rest, h) /\ UNCHANGED <<state, ends, misfired, succeeded, subState>>
  BY DEF StartHeadOf, Silent
<1>3. UNCHANGED <<kind, dropped, fault, starts, aborts, askRetry, why, given, attempts>>
  BY DEF Others
<1> HIDE DEF h
<1>4. /\ events' \in Seq(Task \cup {NextEvent})
      /\ \A t \in Task : Posted(t)' <=> Posted(t) \/ t = h
  BY <1>1, <1>2, AppendRange DEF Remaining, Posted
<1>5. \A t \in Task : AtMostOnce(events', t)
  <2> SUFFICES ASSUME NEW t \in Task PROVE AtMostOnce(Append(rest, h), t)
    BY <1>2
  <2>1. t # h \/ t \notin Range(rest)
    BY <1>1 DEF Remaining, Live
  <2> QED BY <1>1, <2>1, OnceInAppend DEF Remaining
<1>6. Range(q) \cap doing = {} /\ Range(q) \cap succeeded = {} /\ Range(queue) \cap done = {}
  BY DEF JobIInv, JobBooks, Kept
<1>7. Shape'
  BY <1>1, <1>2, <1>3, <1>4 DEF JobIInv, Shape, JobTypeOK, TypeOK, Counters, Links
<1>8. JobBooks'
  <2>1. /\ done' \subseteq failed' \cup succeeded
        /\ failed' \cup succeeded # done' => failed \cup succeeded # done
    BY <1>6 DEF JobIInv, JobBooks, Kept
  <2> QED BY <1>1, <1>2, <1>3, <1>6, <2>1 DEF JobIInv, JobBooks
<1>9. Kept'
  BY <1>1, <1>2, <1>3, <1>6 DEF JobIInv, Kept
<1>10. OncePosted'
  BY <1>1, <1>2, <1>4, <1>5 DEF JobIInv, OncePosted, Live
<1>11. Placed'
  BY <1>1, <1>2, <1>4 DEF JobIInv, Placed, Live
<1>12. Truth'
  BY <1>2 DEF JobIInv, Truth
<1>13. Paid'
  <2> SUFFICES ASSUME NEW t \in Task PROVE attempts[t] + (IF Pending(t)' THEN 1 ELSE 0) <= Budget'
    BY <1>3 DEF Paid, Counters
  <2>1. Budget \in Nat /\ Budget' \in Int /\ attempts[t] \in Nat
    BY BudgetIsNat, TriesAssumption DEF Budget, Counters
  <2>2. Pending(t)' => t \in Range(q) \/ Pending(t)
    BY <1>1, <1>2, <1>4 DEF Pending
  <2>3. attempts[t] + (IF Pending(t) THEN 1 ELSE 0) <= Budget /\ Budget <= Budget'
    BY DEF JobIInv, Paid, Counters
  <2> QED BY <2>1, <2>2, <2>3
<1> QED BY <1>7, <1>8, <1>9, <1>10, <1>11, <1>12, <1>13 DEF JobIInv

-----------------------------------------------------------------------------
\* What the override is entered with: a round, and the dialogs open by then.
Entered(round, open) ==
  /\ round \in 0 .. MaxTry /\ open \in 0 .. manual
  /\ round = 0 => open < manual
  /\ Budget <= MaxTry * (manual - open) + round

LEMMA CountersHold ==
  ASSUME JobIInv, NEW round, NEW open, Entered(round, open),
         try' \in {round, round + 1}, try' <= MaxTry,
         manual' \in 0 .. ManualRetries, dialogs' \in 0 .. manual',
         manual' - dialogs' = manual - open
  PROVE  Counters /\ (try' = round + 1 => Budget + 1 <= Budget')
<1>1. /\ MaxTry \in Nat /\ manual \in Nat /\ round \in Nat /\ open \in Nat /\ open <= manual
      /\ Budget \in Nat /\ manual' \in Nat /\ dialogs' \in Nat /\ try' \in Nat
  BY BudgetIsNat, TriesAssumption DEF JobIInv, Shape, JobTypeOK, Entered
<1>2. Budget' = MaxTry * (manual - open) + try'
  BY DEF Budget
<1> DEFINE paid == MaxTry * (manual - open)
           b == Budget
           c == Budget'
<1>3. paid \in Int /\ b \in Nat /\ c = paid + try' /\ b <= paid + round
  BY <1>1, <1>2 DEF Entered
<1> HIDE DEF paid, b, c
<1>4. b <= c /\ (try' = round + 1 => b + 1 <= c) /\ c \in Int
  <2>1. CASE try' = round
    BY <1>1, <1>3, <2>1
  <2>2. CASE try' = round + 1
    BY <1>1, <1>3, <2>2
  <2> QED BY <2>1, <2>2
<1>5. try' = 0 => dialogs' < manual'
  <2>1. round = 0 => open < manual
    BY DEF Entered
  <2>2. try' = 0 => round = 0
    BY <1>1
  <2> DEFINE m == manual'
             d == dialogs'
  <2>3. m \in Nat /\ d \in Nat /\ m - d = manual - open
    BY <1>1
  <2> HIDE DEF m, d
  <2>4. open < manual => d < m
    BY <1>1, <2>3
  <2> QED BY <2>1, <2>2, <2>4 DEF m, d
<1> QED BY <1>1, <1>4, <1>5 DEF Counters, b, c

LEMMA FailOrAskShape ==
  ASSUME JobIInv, NEW open, open \in 0 .. manual, FailOrAsk(open)
  PROVE  /\ manual' \in 0 .. ManualRetries /\ dialogs' \in 0 .. manual'
         /\ manual' - dialogs' = manual - open
         /\ state' \in {state, "Failed"} /\ state' \in States
         /\ ends' \in Nat /\ misfired' \in BOOLEAN
<1>1. manual \in 0 .. ManualRetries /\ ManualRetries \in Nat /\ Shape
  BY TriesAssumption DEF JobIInv, Shape, JobTypeOK
<1>2. CASE MayAsk
  <2>1. dialogs' = open + 1 /\ manual' = manual + 1 /\ Silent /\ manual < ManualRetries
    BY <1>2 DEF FailOrAsk, MayAsk
  <2> QED BY <1>1, <2>1, SilentShape
<1>3. CASE ~MayAsk
  <2>1. dialogs' = open /\ manual' = manual /\ Emit("Failed")
    BY <1>3 DEF FailOrAsk
  <2> QED BY <1>1, <2>1, EmitShape
<1> QED BY <1>2, <1>3

LEMMA ExecuteKeeps ==
  ASSUME JobIInv, NEW round, NEW rest, NEW open, Remaining(rest), Entered(round, open),
         ExecuteNext(round, rest, open), Others
  PROVE  JobIInv'
<1>1. /\ MaxTry \in Nat /\ round \in Nat /\ round <= MaxTry /\ open \in 0 .. manual
      /\ manual \in 0 .. ManualRetries /\ Shape /\ queue \in Seq(Task)
      /\ Budget \in Nat /\ \A t \in Task : attempts[t] \in Nat
  BY BudgetIsNat, TriesAssumption DEF JobIInv, Shape, JobTypeOK, TypeOK, Entered
<1>2. CASE AllDone /\ failed # {} /\ RoundLeft(round)
  <2>1. try' = round + 1 /\ try' <= MaxTry
    BY <1>1, <1>2 DEF ExecuteNext, RoundLeft
  <2>2. CASE Retriable = {}
    <3>1. FailOrAsk(open) /\ events' = rest /\ UNCHANGED <<pool, subs>>
      BY <1>2, <2>2 DEF ExecuteNext
    <3>2. /\ Counters /\ state' \in {state, "Failed"} /\ state' \in States
          /\ ends' \in Nat /\ misfired' \in BOOLEAN
      BY <1>1, <2>1, <3>1, FailOrAskShape, CountersHold
    <3> QED BY <3>1, <3>2, NothingStarted
  <2>3. CASE Retriable # {}
    <3>1. PICK q \in Orders(Retriable) : StartHeadOf(q, rest)
      BY <1>2, <2>3 DEF ExecuteNext
    <3>2. /\ failed' = failed \ Retriable /\ done' = done \ Retriable
          /\ dialogs' = open /\ manual' = manual
      BY <1>2, <2>3 DEF ExecuteNext, FailuresRetried
    <3>3. Retriable \in SUBSET Task /\ Retriable \subseteq failed
      BY <1>1 DEF Retriable, Shape, JobTypeOK, TypeOK
    <3>4. q \in Seq(Task) /\ q # <<>> /\ IsInjective(q) /\ Range(q) = Retriable
      BY <2>3, <3>3, OrdersCover
    <3>5. Counters /\ Budget + 1 <= Budget'
      BY <1>1, <2>1, <3>2, CountersHold
    <3>6. state = "Running" /\ doing = {} /\ Range(queue) = {}
      BY <1>2, EmptyQueue DEF AllDone
    <3>7. ASSUME NEW t \in Retriable PROVE ~Live(t) /\ attempts[t] + 1 <= Budget'
      <4>1. t \in Task
        BY <3>3
      <4>2. attempts[t] <= Budget
        BY <1>1, <4>1 DEF JobIInv, Paid
      <4>3. Budget' \in Int
        BY <1>1, <2>1, <3>2 DEF Budget
      <4> QED BY <1>1, <3>5, <3>6, <4>1, <4>2, <4>3 DEF JobIInv, Placed
    <3> QED BY <3>1, <3>2, <3>3, <3>4, <3>5, <3>6, <3>7, HeadStarted
  <2> QED BY <2>2, <2>3
<1>3. CASE ~(AllDone /\ failed # {} /\ RoundLeft(round))
  <2>1. try' = round
    BY <1>3 DEF ExecuteNext
  <2>2. CASE MayStartNext
    <3>1. /\ StartHeadOf(queue, rest) /\ dialogs' = open /\ UNCHANGED <<failed, done, manual>>
          /\ state = "Running" /\ queue # <<>>
      BY <1>3, <2>2 DEF ExecuteNext, MayStartNext
    <3>2. Counters
      BY <1>1, <2>1, <3>1, CountersHold
    <3>3. IsInjective(queue) /\ Range(queue) \cap (doing \cup done \cup failed) = {}
      BY DEF JobIInv, JobBooks
    <3>4. ASSUME NEW t \in Range(queue) PROVE ~Live(t) /\ attempts[t] + 1 <= Budget'
      <4>1. t \in Task
        BY <1>1, RangeOfSeq
      <4>2. attempts[t] + 1 <= Budget
        BY <4>1 DEF JobIInv, Paid, Pending
      <4>3. Budget <= Budget' /\ Budget' \in Int
        BY <1>1, <2>1, <3>1, <3>2 DEF Counters, Budget
      <4> QED BY <1>1, <3>3, <4>1, <4>2, <4>3 DEF JobIInv, Placed
    <3>5. failed' = failed \ Range(queue) /\ done' = done \ Range(queue)
      BY <3>1, <3>3
    <3> QED BY <1>1, <3>1, <3>2, <3>3, <3>4, <3>5, HeadStarted
  <2>3. CASE ~MayStartNext
    <3>1. events' = rest /\ UNCHANGED <<pool, subs>>
      BY <1>3, <2>3 DEF ExecuteNext
    <3>2. \/ FailOrAsk(open)
          \/ (Emit("Succeeded") \/ Silent) /\ dialogs' = open /\ manual' = manual
      BY <1>3, <2>3 DEF ExecuteNext
    <3>3. /\ manual' \in 0 .. ManualRetries /\ dialogs' \in 0 .. manual'
          /\ manual' - dialogs' = manual - open
          /\ state' \in {state, "Succeeded", "Failed"} /\ state' \in States
          /\ ends' \in Nat /\ misfired' \in BOOLEAN
      BY <1>1, <3>2, FailOrAskShape, EmitShape, SilentShape
    <3>4. Counters
      BY <1>1, <2>1, <3>3, CountersHold
    <3> QED BY <3>1, <3>3, <3>4, NothingStarted
  <2> QED BY <2>2, <2>3
<1> QED BY <1>2, <1>3

LEMMA DeliverNextKeeps ==
  ASSUME JobIInv, JobDeliverNext
  PROVE  JobIInv'
<1>1. /\ events # <<>> /\ Head(events) = NextEvent
      /\ ExecuteNext(try, Tail(events), dialogs) /\ Others
  BY DEF JobDeliverNext, Others
<1>2. Remaining(Tail(events))
  BY <1>1, NextTaken
<1>3. Entered(try, dialogs)
  BY BudgetIsNat DEF JobIInv, Shape, JobTypeOK, Paid, Entered, Budget
<1> QED BY <1>1, <1>2, <1>3, ExecuteKeeps

\* The answer to a dialog pays for a series of rounds.
LEMMA DialogRetryKeeps ==
  ASSUME JobIInv, DialogRetry
  PROVE  JobIInv'
<1>1. dialogs > 0 /\ ExecuteNext(0, events, dialogs - 1) /\ Others
  BY DEF DialogRetry, Others
<1>2. Entered(0, dialogs - 1)
  <2>1. /\ MaxTry \in Nat /\ try \in Nat /\ try <= MaxTry /\ manual \in Nat
        /\ dialogs \in Nat /\ dialogs <= manual
    BY TriesAssumption DEF JobIInv, Shape, JobTypeOK
  <2>2. MaxTry * (manual - (dialogs - 1)) = MaxTry * (manual - dialogs) + MaxTry
    BY <2>1
  <2>3. MaxTry * (manual - dialogs) \in Int
    BY <2>1
  <2>4. Budget <= MaxTry * (manual - (dialogs - 1)) + 0
    BY <2>1, <2>2, <2>3 DEF Budget
  <2> QED BY <1>1, <2>1, <2>4 DEF Entered
<1> QED BY <1>1, <1>2, EventsRemain, ExecuteKeeps

LEMMA DialogDismissKeeps ==
  ASSUME JobIInv, DialogDismiss
  PROVE  JobIInv'
<1>1. /\ dialogs > 0 /\ dialogs' = dialogs - 1 /\ Emit("Failed") /\ Others
      /\ UNCHANGED <<pool, subs, events, try, manual>>
  BY DEF DialogDismiss, Others
<1>2. /\ state' \in {state, "Succeeded", "Failed"} /\ state' \in States
      /\ ends' \in Nat /\ misfired' \in BOOLEAN
  BY <1>1, EmitShape DEF JobIInv
<1>3. Counters
  <2>1. /\ MaxTry \in Nat /\ try \in 0 .. MaxTry /\ manual \in 0 .. ManualRetries
        /\ ManualRetries \in Nat /\ dialogs \in 0 .. manual
    BY TriesAssumption DEF JobIInv, Shape, JobTypeOK
  <2>2. MaxTry * (manual - (dialogs - 1)) = MaxTry * (manual - dialogs) + MaxTry
    BY <2>1
  <2>3. MaxTry * (manual - dialogs) \in Int
    BY <2>1
  <2>4. Budget <= Budget'
    BY <1>1, <2>1, <2>2, <2>3 DEF Budget
  <2> QED BY <1>1, <2>1, <2>4 DEF Counters
<1> QED BY <1>1, <1>2, <1>3, EventsRemain, NothingStarted
-----------------------------------------------------------------------------
LEMMA AddKeeps ==
  ASSUME JobIInv, NEW t \in Task, AddNetAction(t)
  PROVE  JobIInv'
<1>1. /\ t \notin given /\ given' = given \cup {t} /\ queue' = Append(queue, t)
      /\ UNCHANGED <<state, ends, misfired, kind, doing, done, failed, succeeded, subState, link,
                     events, dropped, fault, starts, aborts, askRetry, why, try, manual,
                     dialogs, attempts>>
  BY DEF AddNetAction, AddTask, Silent, subs
<1>2. queue \in Seq(Task) /\ queue' \in Seq(Task) /\ Range(queue') = Range(queue) \cup {t}
  BY <1>1, AppendRange DEF JobIInv, Shape, JobTypeOK, TypeOK
<1>3. t \notin Range(queue) \cup doing \cup done \cup failed /\ t \notin succeeded
  BY <1>1 DEF JobIInv, Kept
<1>4. IsInjective(queue')
  <2>1. \A x \in Task : AtMostOnce(queue, x)
    BY <1>2, InjectiveQueue DEF JobIInv, JobBooks
  <2>2. \A x \in Task : AtMostOnce(Append(queue, t), x)
    BY <1>2, <1>3, <2>1, OnceInAppend
  <2> QED BY <1>1, <1>2, <2>2, InjectiveQueue
<1>5. Shape'
  BY <1>1, <1>2 DEF JobIInv, Shape, JobTypeOK, TypeOK
<1>6. JobBooks' /\ Kept'
  BY <1>1, <1>2, <1>3, <1>4 DEF JobIInv, JobBooks, Kept
<1>7. OncePosted' /\ Placed' /\ Truth'
  BY <1>1 DEF JobIInv, OncePosted, Placed, Truth, Live, Posted
<1>8. Paid'
  <2>1. Budget >= 1
    <3>1. /\ MaxTry \in Nat \ {0} /\ try \in Nat /\ manual \in Nat /\ dialogs \in 0 .. manual
          /\ try = 0 => dialogs < manual
      BY TriesAssumption DEF JobIInv, Shape, JobTypeOK, Paid
    <3>2. manual - dialogs \in Nat /\ (try = 0 => manual - dialogs >= 1)
      BY <3>1
    <3>3. \A k \in Nat : MaxTry * k \in Nat /\ (k >= 1 => MaxTry * k >= 1)
      BY <3>1
    <3> HIDE <1>1
    <3> QED BY <3>1, <3>2, <3>3 DEF Budget
  <2>2. attempts[t] = 0
    BY <1>1 DEF JobIInv, Kept
  <2>3. \A u \in Task : Pending(u)' => u = t \/ Pending(u)
    BY <1>1, <1>2 DEF Pending, Posted
  <2>4. \A u \in Task : attempts[u] + (IF Pending(u) THEN 1 ELSE 0) <= Budget
    BY DEF JobIInv, Paid
  <2>5. Budget' = Budget /\ Budget \in Nat /\ \A u \in Task : attempts[u] \in Nat
    BY <1>1, BudgetIsNat DEF Budget
  <2> SUFFICES ASSUME NEW u \in Task PROVE attempts[u] + (IF Pending(u)' THEN 1 ELSE 0) <= Budget
    BY <1>1, <2>5 DEF JobIInv, Paid
  <2> QED BY <2>1, <2>2, <2>3, <2>4, <2>5
<1> QED BY <1>5, <1>6, <1>7, <1>8 DEF JobIInv

LEMMA StartKeeps ==
  ASSUME JobIInv, StartJob
  PROVE  JobIInv'
<1>1. /\ doing = {} /\ done = {} /\ state' = "Running" /\ ends' = 0 /\ starts' = starts + 1
      /\ starts < MaxStarts
      /\ UNCHANGED <<kind, queue, doing, done, failed, succeeded, subState, link, dropped,
                     misfired, fault, aborts, askRetry, why, try, manual, dialogs, given, attempts>>
  BY DEF StartJob, Start, Fresh, pool, subs, jobVars
<1>2. /\ events' \in Seq(Task \cup {NextEvent})
      /\ \A t \in Task : AtMostOnce(events', t) /\ (Posted(t)' <=> Posted(t))
  <2>1. Limit \in Nat /\ events' = events \o [i \in 1 .. Limit |-> NextEvent]
    BY MaxConcurrentAssumption DEF StartJob, Start, FirstEvents, Limit
  <2> QED BY <2>1, PostingNext DEF JobIInv, Shape, JobTypeOK, TypeOK, OncePosted, Posted
<1>3. Shape'
  <2>1. starts' \in 0 .. MaxStarts
    BY <1>1, BoundsAssumption DEF JobIInv, Shape, JobTypeOK, TypeOK
  <2> QED BY <1>1, <1>2, <2>1 DEF JobIInv, Shape, JobTypeOK, TypeOK, States
<1>4. JobBooks' /\ Kept' /\ Truth'
  BY <1>1 DEF JobIInv, JobBooks, Kept, Truth
<1>5. OncePosted' /\ Placed'
  BY <1>1, <1>2 DEF JobIInv, OncePosted, Placed, Live
<1>6. Paid'
  BY <1>1, <1>2 DEF JobIInv, Paid, Pending, Budget
<1> QED BY <1>3, <1>4, <1>5, <1>6 DEF JobIInv

LEMMA DeliverStartKeeps ==
  ASSUME JobIInv, NEW t \in Task, JobDeliverStart(t)
  PROVE  JobIInv'
<1>1. /\ events # <<>> /\ Head(events) = t /\ subState' = [subState EXCEPT ![t] = "Running"]
      /\ events' = Tail(events) /\ attempts' = [attempts EXCEPT ![t] = @ + 1]
      /\ UNCHANGED <<state, ends, misfired, kind, queue, doing, done, failed, succeeded, link,
                     dropped, fault, starts, aborts, askRetry, why, try, manual, dialogs, given>>
  BY DEF JobDeliverStart, DeliverStart, Silent, pool
<1>2. events \in Seq(Task \cup {NextEvent}) /\ \A u \in Task : AtMostOnce(events, u)
  BY DEF JobIInv, Shape, JobTypeOK, TypeOK, OncePosted
<1>3. /\ events' \in Seq(Task \cup {NextEvent}) /\ \A u \in Task : AtMostOnce(events', u)
      /\ Posted(t) /\ ~Posted(t)' /\ \A u \in Task : u # t => (Posted(u)' <=> Posted(u))
  <2>1. Tail(events) \in Seq(Task \cup {NextEvent}) /\ Range(events) = {t} \cup Range(Tail(events))
    BY <1>1, <1>2, TailRange
  <2>2. \A u \in Task : AtMostOnce(Tail(events), u) /\ (Head(events) = u => u \notin Range(Tail(events)))
    BY <1>1, <1>2, OnceInTail
  <2> QED BY <1>1, <2>1, <2>2 DEF Posted
<1>4. attempts \in [Task -> Nat] /\ subState \in [Task -> States]
  BY DEF JobIInv, Shape, JobTypeOK, TypeOK
<1>5. Shape'
  BY <1>1, <1>3, <1>4 DEF JobIInv, Shape, JobTypeOK, TypeOK, States
<1>6. t \in doing \cup (done \cap failed)
  BY <1>3 DEF JobIInv, Placed, Live
<1>7. JobBooks' /\ Kept'
  BY <1>1, <1>4, <1>6 DEF JobIInv, JobBooks, Kept
<1>8. OncePosted' /\ Placed'
  BY <1>1, <1>3, <1>4 DEF JobIInv, OncePosted, Placed, Live
<1>9. Truth'
  BY <1>1, <1>4, <1>6 DEF JobIInv, Truth, JobBooks, Kept
<1>10. Paid'
  <2>1. t \notin Range(queue)
    BY <1>6 DEF JobIInv, JobBooks
  <2>2. Budget' = Budget
    BY <1>1 DEF Budget
  <2>3. \A u \in Task : attempts[u] + (IF Pending(u) THEN 1 ELSE 0) <= Budget
    BY DEF JobIInv, Paid
  <2>4. Pending(t) /\ ~Pending(t)' /\ \A u \in Task : u # t => (Pending(u)' <=> Pending(u))
    BY <1>1, <1>3, <2>1 DEF Pending
  <2>5. \A u \in Task : attempts'[u] + (IF Pending(u)' THEN 1 ELSE 0) <= Budget
    BY <1>1, <1>4, <2>3, <2>4
  <2> QED BY <1>1, <2>2, <2>5 DEF JobIInv, Paid
<1> QED BY <1>5, <1>7, <1>8, <1>9, <1>10 DEF JobIInv

\* A request ends; what the job does not hear changes only the request.
LEMMA EndKeeps ==
  ASSUME JobIInv, NEW t \in Task, SomeEnd(t)
  PROVE  JobIInv'
<1>1. PICK o \in {"Succeeded", "Failed"}, r \in Reasons : RequestEnds(t, o, r)
  BY DEF SomeEnd
<1>2. /\ subState[t] = "Running" /\ subState' = [subState EXCEPT ![t] = o]
      /\ why' = [why EXCEPT ![t] = r] /\ SubTaskEnds(t, o)
      /\ UNCHANGED <<kind, queue, dropped, starts, aborts, askRetry, try, manual, dialogs,
                     given, attempts>>
  BY <1>1 DEF RequestEnds, SubTaskEnds
<1>3. /\ subState \in [Task -> States] /\ o \in States /\ kind = "Concurrent"
      /\ why \in [Task -> Reasons] /\ events \in Seq(Task \cup {NextEvent}) /\ Shape
      /\ \A u \in Task : AtMostOnce(events, u)
  BY <1>1 DEF JobIInv, Shape, JobTypeOK, TypeOK, States, OncePosted
<1>4. ~Posted(t) /\ t \in doing \cup (done \cap failed)
  BY <1>2 DEF JobIInv, OncePosted, Placed, Live
<1>5. /\ subState'[t] = o /\ o # "Running" /\ \A u \in Task : u # t => subState'[u] = subState[u]
  BY <1>1, <1>2, <1>3
<1>6. CASE Heard(t, o) /\ t \in doing
  <2>1. /\ SubTaskFinished(t, o) /\ UNCHANGED fault
    BY <1>2, <1>6 DEF SubTaskEnds
  <2>2. /\ done' = done \cup {t} /\ doing' = doing \ {t} /\ link' = [link EXCEPT ![t] = "none"]
        /\ events' = Append(events, NextEvent) /\ UNCHANGED <<state, ends, misfired>>
        /\ \/ o = "Succeeded" /\ succeeded' = succeeded \cup {t} /\ failed' = failed
           \/ o = "Failed" /\ succeeded' = succeeded /\ failed' = failed \cup {t}
    BY <1>1, <1>3, <2>1 DEF SubTaskFinished, Good, EventsAfterFinish, Silent
  <2>3. /\ events' \in Seq(Task \cup {NextEvent})
        /\ \A u \in Task : AtMostOnce(events', u) /\ (Posted(u)' <=> Posted(u))
    <3>1. Append(events, NextEvent) \in Seq(Task \cup {NextEvent})
          /\ Range(Append(events, NextEvent)) = Range(events) \cup {NextEvent}
      BY <1>3, AppendRange
    <3>2. \A u \in Task : u # NextEvent
      BY TaskAssumption
    <3>3. \A u \in Task : AtMostOnce(Append(events, NextEvent), u)
      BY <1>3, <3>2, OnceInAppend
    <3> QED BY <2>2, <3>1, <3>2, <3>3 DEF Posted
  <2>4. Shape'
    BY <1>1, <1>2, <1>3, <2>1, <2>2, <2>3 DEF Shape, JobTypeOK, TypeOK, Links
  <2>5. t \notin failed \cup done \cup succeeded \cup Range(queue)
    BY <1>6 DEF JobIInv, JobBooks, Kept
  <2>6. JobBooks' /\ Kept'
    BY <1>2, <2>2, <2>5, <1>6 DEF JobIInv, JobBooks, Kept
  <2>7. OncePosted' /\ Placed'
    <3>1. \A u \in Task : /\ subState'[u] = "Running" => u # t /\ subState[u] = "Running"
                          /\ Live(u)' => u # t /\ Live(u)
      BY <1>4, <1>5, <2>3 DEF Live
    <3>2. OncePosted'
      BY <2>3, <3>1 DEF JobIInv, OncePosted
    <3>3. Placed'
      BY <2>2, <3>1 DEF JobIInv, Placed
    <3> QED BY <3>2, <3>3
  <2>8. Truth'
    <3>1. succeeded \subseteq Task
      BY <1>3 DEF Shape, JobTypeOK, TypeOK
    <3>2. \A u \in succeeded : subState[u] = "Succeeded"
      BY DEF JobIInv, Truth
    <3>3. \A u \in succeeded' : subState'[u] = "Succeeded"
      <4>1. CASE o = "Succeeded" /\ succeeded' = succeeded \cup {t}
        BY <1>5, <3>1, <3>2, <4>1
      <4>2. CASE succeeded' = succeeded
        <5>1. t \notin succeeded
          BY <2>5
        <5> QED BY <1>5, <3>1, <3>2, <4>2, <5>1
      <4> QED BY <2>2, <4>1, <4>2
    <3> QED BY <3>3 DEF Truth
  <2>9. Paid'
    BY <1>2, <2>3 DEF JobIInv, Paid, Pending, Budget
  <2> QED BY <2>4, <2>6, <2>7, <2>8, <2>9 DEF JobIInv
<1>7. CASE ~(Heard(t, o) /\ t \in doing)
  <2>1. /\ fault' \in BOOLEAN
        /\ UNCHANGED <<state, ends, misfired, doing, done, failed, succeeded, link, events>>
    BY <1>2, <1>7 DEF SubTaskEnds, Silent, Heard
  <2>2. Shape'
    BY <1>1, <1>2, <1>3, <2>1 DEF Shape, JobTypeOK, TypeOK
  <2>3. JobBooks' /\ Kept'
    BY <1>2, <2>1 DEF JobIInv, JobBooks, Kept
  <2>4. OncePosted' /\ Placed'
    BY <1>5, <2>1 DEF JobIInv, OncePosted, Placed, Live, Posted
  <2>5. Truth'
    BY <1>4, <1>5, <2>1 DEF JobIInv, Truth, JobBooks, Kept, Shape, JobTypeOK, TypeOK
  <2>6. Paid'
    BY <1>2, <2>1 DEF JobIInv, Paid, Pending, Posted, Budget
  <2> QED BY <2>2, <2>3, <2>4, <2>5, <2>6 DEF JobIInv
<1> QED BY <1>6, <1>7

LEMMA AbortIdleKeeps ==
  ASSUME JobIInv, JobAbortIdle
  PROVE  JobIInv'
<1>1. /\ doing = {} /\ aborts' = aborts + 1 /\ aborts < MaxAborts /\ queue' = <<>>
      /\ failed' = failed \cup Range(queue)
      /\ UNCHANGED <<kind, state, doing, done, succeeded, subState, link, events, dropped, ends,
                     misfired, fault, starts, askRetry, why, try, manual, dialogs, given, attempts>>
  BY DEF JobAbortIdle, QueueFailed, subs, jobVars
<1>2. <<>> \in Seq(Task) /\ Range(<<>>) = {} /\ IsInjective(<<>>) /\ Range(queue) \subseteq Task
  BY EmptyQueue, RangeOfSeq DEF JobIInv, Shape, JobTypeOK, TypeOK
<1>3. aborts' \in 0 .. MaxAborts /\ aborts' > 0
  BY <1>1, BoundsAssumption DEF JobIInv, Shape, JobTypeOK, TypeOK
<1>4. Shape'
  BY <1>1, <1>2, <1>3 DEF JobIInv, Shape, JobTypeOK, TypeOK
<1>5. JobBooks' /\ Kept'
  BY <1>1, <1>2, <1>3 DEF JobIInv, JobBooks, Kept
<1>6. OncePosted' /\ Placed' /\ Truth'
  BY <1>1 DEF JobIInv, OncePosted, Placed, Truth, Live, Posted
<1>7. Paid'
  <2>1. \A t \in Task : Pending(t)' => Pending(t)
    BY <1>1, <1>2 DEF Pending, Posted
  <2>2. \A t \in Task : attempts[t] + (IF Pending(t) THEN 1 ELSE 0) <= Budget
    BY DEF JobIInv, Paid
  <2>3. Budget' = Budget /\ Budget \in Nat /\ \A t \in Task : attempts[t] \in Nat
    BY <1>1, BudgetIsNat DEF Budget
  <2>4. \A t \in Task : attempts[t] + (IF Pending(t)' THEN 1 ELSE 0) <= Budget
    BY <2>1, <2>2, <2>3
  <2> QED BY <1>1, <2>3, <2>4 DEF JobIInv, Paid
<1> QED BY <1>4, <1>5, <1>6, <1>7 DEF JobIInv

\* The requests that signal an end are done, also those whose start is posted, and
\* failed, but for those that have succeeded.
LEMMA AbortDoingKeeps ==
  ASSUME JobIInv, NEW answer \in [doing -> Answers], NEW reason \in Reasons,
         JobAbortDoing(answer, reason)
  PROVE  JobIInv'
<1> DEFINE mute == {t \in doing : answer[t] = "mute"}
           good == {t \in doing : answer[t] = "Succeeded"}
           told == doing \ mute
<1>1. /\ \A t \in mute \cup good : subState[t] = "Running"
      /\ doing # {} /\ aborts' = aborts + 1 /\ aborts < MaxAborts /\ queue' = <<>>
      /\ doing' = mute /\ done' = done \cup told /\ succeeded' = succeeded \cup good
      /\ failed' = failed \cup Range(queue) \cup (told \ good)
      /\ link' = [t \in Task |-> IF t \in told THEN "none" ELSE link[t]]
      /\ events' = events \o [i \in 1 .. Cardinality(told) |-> NextEvent]
      /\ Emit("AbortedByUser")
      /\ UNCHANGED <<kind, dropped, fault, starts, askRetry, try, manual,
                     dialogs, given, attempts>>
  BY DEF JobAbortDoing, QueueFailed, jobVars
<1>0. /\ subState' \in [Task -> States] /\ why' \in [Task -> Reasons]
      /\ \A t \in Task \ doing : subState'[t] = subState[t] /\ why'[t] = why[t]
      /\ \A t \in doing : subState'[t] # "Running"
      /\ \A t \in good : subState'[t] = "Succeeded"
  BY DEF JobAbortDoing, Answers, JobIInv, Shape, JobTypeOK, TypeOK, States
<1>2. <<>> \in Seq(Task) /\ Range(<<>>) = {} /\ IsInjective(<<>>) /\ Range(queue) \subseteq Task
      /\ doing \in SUBSET Task
  BY EmptyQueue, RangeOfSeq DEF JobIInv, Shape, JobTypeOK, TypeOK
<1>3. /\ events' \in Seq(Task \cup {NextEvent})
      /\ \A t \in Task : AtMostOnce(events', t) /\ (Posted(t)' <=> Posted(t))
  <2>1. Cardinality(told) \in Nat
    BY <1>2, TaskAssumption, FS_Subset, FS_CardinalityType
  <2> HIDE DEF told
  <2> QED BY <1>1, <2>1, PostingNext DEF JobIInv, Shape, JobTypeOK, TypeOK, OncePosted, Posted
<1>4. aborts' \in 0 .. MaxAborts /\ aborts' > 0
  BY <1>1, BoundsAssumption DEF JobIInv, Shape, JobTypeOK, TypeOK
<1>5. /\ state' \in States /\ state' # "Running" /\ ends' \in Nat /\ misfired' \in BOOLEAN
  BY <1>1 DEF Emit, JobIInv, Shape, JobTypeOK, TypeOK, States
<1>6. Shape'
  <2>1. link' \in [Task -> Links]
    BY <1>1 DEF JobIInv, Shape, JobTypeOK, TypeOK, Links
  <2> QED BY <1>0, <1>1, <1>2, <1>3, <1>4, <1>5, <2>1 DEF JobIInv, Shape, JobTypeOK, TypeOK
<1>7. JobBooks' /\ Kept'
  BY <1>1, <1>2, <1>4 DEF JobIInv, JobBooks, Kept
<1>8. OncePosted' /\ Placed'
  <2>1. \A t \in Task : subState'[t] = "Running" => t \notin doing /\ subState[t] = "Running"
    BY <1>0
  <2>2. \A t \in mute : ~Posted(t)
    BY <1>1, <1>2 DEF JobIInv, OncePosted
  <2> QED BY <1>1, <1>3, <1>5, <2>1, <2>2 DEF JobIInv, OncePosted, Placed, Live
<1>9. Truth'
  BY <1>0, <1>1, <1>2 DEF JobIInv, Truth, JobBooks, Kept, Shape, JobTypeOK, TypeOK
<1>10. Paid'
  <2>1. \A t \in Task : Pending(t)' => Pending(t)
    BY <1>1, <1>2, <1>3 DEF Pending
  <2>2. \A t \in Task : attempts[t] + (IF Pending(t) THEN 1 ELSE 0) <= Budget
    BY DEF JobIInv, Paid
  <2>3. Budget' = Budget /\ Budget \in Nat /\ \A t \in Task : attempts[t] \in Nat
    BY <1>1, BudgetIsNat DEF Budget
  <2>4. \A t \in Task : attempts[t] + (IF Pending(t)' THEN 1 ELSE 0) <= Budget
    BY <2>1, <2>2, <2>3
  <2> QED BY <1>1, <2>3, <2>4 DEF JobIInv, Paid
<1> QED BY <1>6, <1>7, <1>8, <1>9, <1>10 DEF JobIInv
-----------------------------------------------------------------------------
LEMMA JobInitially == JobInit => JobIInv
<1> SUFFICES ASSUME JobInit PROVE JobIInv
  OBVIOUS
<1>1. TypeOK /\ OncePosted
  BY Initially DEF JobInit, IInv
<1>2. /\ queue = <<>> /\ doing = {} /\ done = {} /\ failed = {} /\ succeeded = {}
      /\ subState = [t \in Task |-> "Inactive"] /\ events = <<>> /\ kind = "Concurrent"
      /\ askRetry \in BOOLEAN /\ why = [t \in Task |-> "none"] /\ try = 1 /\ manual = 0
      /\ dialogs = 0 /\ given = {} /\ attempts = [t \in Task |-> 0]
  BY DEF JobInit, Init
<1>3. Range(<<>>) = {} /\ IsInjective(<<>>)
  BY EmptyQueue
<1>4. Shape
  BY <1>1, <1>2, TriesAssumption DEF Shape, JobTypeOK, Reasons
<1>5. JobBooks /\ Kept /\ Placed /\ Truth
  BY <1>2, <1>3 DEF JobBooks, Kept, Placed, Truth, Live, Posted
<1>6. Paid
  <2>1. Budget = 1
    BY <1>2, TriesAssumption DEF Budget
  <2> QED BY <1>2, <1>3, <2>1 DEF Paid, Pending, Posted
<1> QED BY <1>1, <1>4, <1>5, <1>6 DEF JobIInv

LEMMA JobInvariance == JobIInv /\ [JobNext]_allVars => JobIInv'
<1> SUFFICES ASSUME JobIInv, [JobNext]_allVars PROVE JobIInv'
  OBVIOUS
<1>1. CASE UNCHANGED allVars
  BY <1>1 DEF allVars, vars, jobVars, pool, subs, JobIInv, Shape, JobTypeOK, TypeOK, JobBooks,
              Kept, OncePosted, Placed, Paid, Truth, Live, Pending, Posted, Budget
<1>2. CASE StartJob \/ DialogRetry \/ DialogDismiss
  BY <1>2, StartKeeps, DialogRetryKeeps, DialogDismissKeeps
<1>3. CASE JobAbort
  BY <1>3, AbortIdleKeeps, AbortDoingKeeps DEF JobAbort
<1>4. CASE JobDeliver
  BY <1>4, DeliverNextKeeps, DeliverStartKeeps DEF JobDeliver
<1>5. ASSUME NEW t \in Task, AddNetAction(t) \/ SomeEnd(t) PROVE JobIInv'
  BY <1>5, AddKeeps, EndKeeps
<1> QED BY <1>1, <1>2, <1>3, <1>4, <1>5 DEF JobNext

LEMMA JobInvariant == JobSpec => []JobIInv
  BY JobInitially, JobInvariance, PTL DEF JobSpec

\* Type correctness of a job, its counters and its dialogs (NetJob.cpp).
THEOREM JobTypeCorrect == JobSpec => []JobTypeOK
<1>1. JobIInv => JobTypeOK
  BY DEF JobIInv, Shape
<1> QED BY <1>1, JobInvariant, PTL

\* A round of retries, an answer to a dialog and an abort leave no request in
\* two places (NetJob::executeNextSubTask, NetJob::abort).
THEOREM JobBooksRight == JobSpec => []JobBooks
<1>1. JobIInv => JobBooks
  BY DEF JobIInv
<1> QED BY <1>1, JobInvariant, PTL

\* No request is started more often than the rounds of the job and the user's
\* answers allow (m_try and m_manual_try of NetJob.cpp).
THEOREM RetriesBounded == JobSpec => []AttemptsBounded
<1>1. ASSUME JobIInv, NEW t \in Task PROVE attempts[t] <= MaxTry * (1 + manual)
  <2>1. /\ MaxTry \in Nat /\ try \in Nat /\ try <= MaxTry /\ manual \in Nat
        /\ dialogs \in Nat /\ dialogs <= manual
    BY <1>1, TriesAssumption DEF JobIInv, Shape, JobTypeOK
  <2>2. attempts[t] \in Nat /\ attempts[t] <= Budget /\ Budget \in Nat
    BY <1>1, BudgetIsNat DEF JobIInv, Paid
  <2>3. MaxTry * (1 + manual) = MaxTry * (manual - dialogs) + MaxTry * dialogs + MaxTry
    BY <2>1
  <2>4. MaxTry * dialogs \in Nat /\ MaxTry * (manual - dialogs) \in Int
    BY <2>1
  <2>5. Budget <= MaxTry * (1 + manual)
    BY <2>1, <2>3, <2>4 DEF Budget
  <2>6. MaxTry * (1 + manual) \in Int
    BY <2>1
  <2> QED BY <2>2, <2>5, <2>6
<1>2. JobIInv => AttemptsBounded
  BY <1>1 DEF AttemptsBounded
<1> QED BY <1>2, JobInvariant, PTL

\* What a request is moved by in the override.
LEMMA Moves ==
  ASSUME JobIInv, NEW round, NEW rest, NEW open, ExecuteNext(round, rest, open)
  PROVE  /\ \A t \in failed : why[t] = "notFound" => t \in failed' /\ t \notin doing'
         /\ state = "Running" /\ state' = "Succeeded" =>
              queue = <<>> /\ doing = {} /\ failed = {}
<1>1. queue \in Seq(Task) /\ failed \in SUBSET Task
  BY DEF JobIInv, Shape, JobTypeOK, TypeOK
<1>2. doing \cap failed = {} /\ Range(queue) \cap failed = {}
  BY DEF JobIInv, JobBooks
<1>3. CASE \E q \in Orders(Retriable) :
             StartHeadOf(q, rest) /\ failed' = failed \ Retriable /\ Retriable # {}
  <2>1. PICK q \in Orders(Retriable) :
               StartHeadOf(q, rest) /\ failed' = failed \ Retriable /\ Retriable # {}
    BY <1>3
  <2>2. Retriable \in SUBSET Task
    BY <1>1 DEF Retriable
  <2>3. q \in Seq(Task) /\ q # <<>> /\ IsInjective(q) /\ Range(q) = Retriable
    BY <2>1, <2>2, OrdersCover
  <2>4. Head(q) \in Retriable
    BY <2>3, QueueHead
  <2>5. doing' = doing \cup {Head(q)} /\ state' = state
    BY <2>1 DEF StartHeadOf, Silent
  <2> QED BY <1>2, <2>1, <2>4, <2>5 DEF Retriable
<1>4. CASE StartHeadOf(queue, rest) /\ queue # <<>> /\ failed' = failed
  <2>1. Head(queue) \in Range(queue)
    BY <1>1, <1>4, TailRange
  <2>2. doing' = doing \cup {Head(queue)} /\ state' = state
    BY <1>4 DEF StartHeadOf, Silent
  <2> QED BY <1>2, <1>4, <2>1, <2>2
<1>5. CASE /\ UNCHANGED <<pool, subs>>
           /\ \/ FailOrAsk(open) \/ Silent
              \/ AllDone /\ failed = {} /\ Emit("Succeeded")
  <2>1. state = "Running" /\ state' = "Succeeded" => AllDone /\ failed = {}
    BY <1>5 DEF FailOrAsk, Silent, Emit
  <2> QED BY <1>2, <1>5, <2>1 DEF AllDone, pool
<1>6. CASE AllDone /\ failed # {} /\ RoundLeft(round)
  <2>1. CASE Retriable = {}
    BY <1>5, <1>6, <2>1 DEF ExecuteNext
  <2>2. CASE Retriable # {}
    BY <1>3, <1>6, <2>2 DEF ExecuteNext, FailuresRetried
  <2> QED BY <2>1, <2>2
<1>7. CASE ~(AllDone /\ failed # {} /\ RoundLeft(round))
  <2>1. CASE MayStartNext
    BY <1>4, <1>7, <2>1 DEF ExecuteNext, MayStartNext
  <2>2. CASE ~MayStartNext
    BY <1>5, <1>7, <2>2 DEF ExecuteNext
  <2> QED BY <2>1, <2>2
<1> QED BY <1>6, <1>7

\* What was answered with 404 stays failed and is not started again
\* (the filter of NetJob::executeNextSubTask).
THEOREM NotFoundStays == JobSpec => NotFoundIsFinal
<1>1. ASSUME JobIInv, [JobNext]_allVars, NEW t \in Task, t \in failed, why[t] = "notFound"
      PROVE  t \in failed' /\ t \notin doing'
  <2>1. t \notin doing
    BY <1>1 DEF JobIInv, JobBooks
  <2>2. CASE JobDeliverNext \/ DialogRetry
    BY <1>1, <2>2, Moves DEF JobDeliverNext, DialogRetry
  <2>3. CASE JobAbort
    BY <1>1, <2>1, <2>3 DEF JobAbort, JobAbortIdle, JobAbortDoing, QueueFailed
  <2>4. ASSUME NEW u \in Task, AddNetAction(u) \/ SomeEnd(u) \/ JobDeliverStart(u)
        PROVE  t \in failed' /\ t \notin doing'
    BY <1>1, <2>1, <2>4 DEF AddNetAction, AddTask, SomeEnd, RequestEnds, SubTaskEnds,
                            SubTaskFinished, JobDeliverStart, DeliverStart, pool
  <2>5. CASE StartJob \/ DialogDismiss \/ UNCHANGED allVars
    BY <1>1, <2>1, <2>5 DEF StartJob, Start, DialogDismiss, allVars, vars, pool
  <2> QED BY <1>1, <2>2, <2>3, <2>4, <2>5 DEF JobNext, JobDeliver
<1>2. JobIInv /\ [JobNext]_allVars =>
        [\A t \in Task : t \in failed /\ why[t] = "notFound" =>
           t \in failed' /\ t \notin doing']_allVars
  BY <1>1
<1> QED BY <1>2, JobInvariant, PTL DEF JobSpec, NotFoundIsFinal

\* A job that succeeds has downloaded every request it was ever given, also
\* when an abort emptied its queue before (NetJob.cpp).
THEOREM SuccessIsComplete == JobSpec => AllDownloaded
<1>1. ASSUME JobIInv, [JobNext]_allVars, state = "Running", state' = "Succeeded"
      PROVE  queue = <<>> /\ doing = {} /\ failed = {}
  <2>1. CASE JobDeliverNext \/ DialogRetry
    BY <1>1, <2>1, Moves DEF JobDeliverNext, DialogRetry
  <2>2. CASE JobAbort
    BY <1>1, <2>2 DEF JobAbort, JobAbortIdle, JobAbortDoing, Emit
  <2>3. kind = "Concurrent"
    BY <1>1 DEF JobIInv, Shape
  <2>4. ASSUME NEW u \in Task, AddNetAction(u) \/ SomeEnd(u) \/ JobDeliverStart(u)
        PROVE  FALSE
    BY <1>1, <2>3, <2>4 DEF AddNetAction, AddTask, SomeEnd, RequestEnds, SubTaskEnds,
                            SubTaskFinished, JobDeliverStart, DeliverStart, Silent
  <2>5. CASE StartJob \/ DialogDismiss \/ UNCHANGED allVars
    BY <1>1, <2>5 DEF StartJob, Start, DialogDismiss, Emit, allVars, vars
  <2> QED BY <1>1, <2>1, <2>2, <2>4, <2>5 DEF JobNext, JobDeliver
<1>2. ASSUME JobIInv, queue = <<>>, doing = {}, failed = {}, NEW t \in given
      PROVE  subState[t] = "Succeeded"
  <2>1. Range(queue) = {}
    BY <1>2, EmptyQueue
  <2> QED BY <1>2, <2>1 DEF JobIInv, JobBooks, Kept, Truth
<1>3. JobIInv /\ [JobNext]_allVars =>
        [state = "Running" /\ state' = "Succeeded" =>
           \A t \in given : subState[t] = "Succeeded"]_allVars
  BY <1>1, <1>2
<1> QED BY <1>3, JobInvariant, PTL DEF JobSpec, AllDownloaded
=============================================================================
