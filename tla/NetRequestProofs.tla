-------------------------- MODULE NetRequestProofs --------------------------
(***************************************************************************)
(* What NetRequest.tla claims, for every limit on redirects and retries,   *)
(* every length of a body and every number of starts and aborts.           *)
(***************************************************************************)
EXTENDS NetRequest, SequenceTheorems, TLAPS

(***************************************************************************)
(* Bodies: n chunks of the reply x.                                        *)
(***************************************************************************)
Chunks(n, x) == [i \in 1 .. n |-> x]

\* Chunks of one reply are a sequence of serial numbers.
LEMMA ChunksType ==
  ASSUME NEW n \in Nat, NEW x \in Nat
  PROVE  Chunks(n, x) \in Seq(Nat) /\ Len(Chunks(n, x)) = n
  BY SMT DEF Chunks

\* The next chunk of the same reply.
LEMMA ChunksAppend ==
  ASSUME NEW n \in Nat, NEW x \in Nat
  PROVE  Append(Chunks(n, x), x) = Chunks(n + 1, x)
<1> DEFINE c == Chunks(n, x)  a == Append(c, x)  b == Chunks(n + 1, x)
<1>0. c \in Seq(Nat) /\ Len(c) = n
  BY ChunksType
<1>1. /\ a \in Seq(Nat) /\ Len(a) = n + 1
      /\ \A i \in 1 .. n : a[i] = c[i]
      /\ a[n + 1] = x
  <2> HIDE DEF c
  <2> QED BY <1>0, AppendProperties
<1>2. b \in Seq(Nat) /\ Len(b) = n + 1
  BY ChunksType
<1>3. ASSUME NEW i \in 1 .. n + 1 PROVE a[i] = b[i]
  <2>1. b[i] = x BY DEF Chunks
  <2>2. CASE i = n + 1 BY <1>1, <2>1, <2>2
  <2>3. CASE i # n + 1
    <3>1. i \in 1 .. n BY <2>3
    <3>2. c[i] = x BY <3>1 DEF Chunks
    <3> QED BY <3>1, <3>2, <2>1, <1>1
  <2> QED BY <2>2, <2>3
<1> HIDE DEF a, b
<1>4. a = b
  BY <1>1, <1>2, <1>3, SeqEqual
<1> QED BY <1>4 DEF a, b

\* The rest of the same reply.
LEMMA ChunksConcat ==
  ASSUME NEW n \in Nat, NEW k \in 0 .. n, NEW x \in Nat
  PROVE  Chunks(k, x) \o Chunks(n - k, x) = Chunks(n, x)
<1> DEFINE c == Chunks(k, x)  d == Chunks(n - k, x)
           a == c \o d        b == Chunks(n, x)
<1>1. k \in Nat /\ n - k \in Nat
  OBVIOUS
<1>0. /\ c \in Seq(Nat) /\ Len(c) = k
      /\ d \in Seq(Nat) /\ Len(d) = n - k
  BY <1>1, ChunksType
<1>2. /\ a \in Seq(Nat) /\ Len(a) = n
      /\ \A i \in 1 .. n : a[i] = IF i <= k THEN c[i] ELSE d[i - k]
  <2> HIDE DEF c, d
  <2> QED BY <1>0, <1>1, ConcatProperties
<1>3. b \in Seq(Nat) /\ Len(b) = n
  BY ChunksType
<1>4. ASSUME NEW i \in 1 .. n PROVE a[i] = b[i]
  <2>1. b[i] = x BY DEF Chunks
  <2>2. CASE i <= k
    <3>1. c[i] = x BY <2>2 DEF Chunks
    <3> QED BY <2>1, <2>2, <3>1, <1>2
  <2>3. CASE ~(i <= k)
    <3>1. i - k \in 1 .. n - k BY <2>3
    <3>2. d[i - k] = x BY <3>1 DEF Chunks
    <3> QED BY <2>1, <2>3, <3>2, <1>2
  <2> QED BY <2>2, <2>3
<1> HIDE DEF a, b
<1>5. a = b
  BY <1>2, <1>3, <1>4, SeqEqual
<1> QED BY <1>5 DEF a, b

(***************************************************************************)
(* The inductive invariant.                                                *)
(***************************************************************************)
Reply == [phase : Phases, status : Statuses, location : Locations,
          size : Nat, read : Nat]

Live == reply.phase \in {"sent", "open"}
Flags ==
  /\ timer \in BOOLEAN /\ misfired \in BOOLEAN /\ revived \in BOOLEAN
  /\ relimited \in BOOLEAN /\ fault \in BOOLEAN

\* TypeOK without the bounds of the two counters.
Types ==
  /\ options \subseteq {"AcceptLocalFiles", "AutoRetry"}
  /\ state \in States /\ reply \in Reply
  /\ save \in {"null", "open", "shut"}
  /\ temp \in Seq(Nat) /\ file \in Seq(Nat)
  /\ Flags /\ sent \in Nat
  /\ redirectCount \in Nat /\ retryCount \in Nat
  /\ heard \in Outcomes \cup {"none"} /\ ends \in Nat
  /\ starts \in 0 .. MaxStarts /\ aborts \in 0 .. MaxAborts

\* Every request on the wire, or about to be, was paid for with a start, one
\* of r redirects or one of t retries.
Paid(r, t) ==
  /\ r \in 0 .. RedirectLimit /\ r <= redirectCount
  /\ t \in 0 .. RetryLimit /\ t <= retryCount
  /\ sent <= starts + r + t
  /\ timer => sent < starts + r + t

\* A reply counts one redirect at most, when it finishes, and two retries, with
\* its error and when it finishes.
Counters ==
  /\ \E r, t \in Nat : Paid(r, t)
  /\ redirectCount <= sent /\ retryCount <= 2 * sent
  /\ Unfinished => redirectCount < sent /\ retryCount < 2 * sent
  /\ Live => retryCount + 1 < 2 * sent

\* A request with a reply or a retry to come has not signalled its end, unless
\* a retry outlived it; an error leaves a verdict or a timer.
Verdicts ==
  /\ (Unfinished \/ timer) =>
       (ends = 0 \/ relimited) /\ starts > 0 /\ state # "Inactive"
  /\ Unfinished => state # "AbortedByUser"
  /\ timer => relimited \/ state # "AbortedByUser"
  /\ Live => relimited \/ ~timer
  /\ ends = 0 => heard = "none"
  /\ ends > 0 => heard # "none" /\ (relimited \/ heard = state)
  /\ reply.phase = "errored" /\ ~timer => state # "Running"

\* A verdict of success before the end rests on the local file, which stays.
LocalData ==
  (Unfinished \/ timer) /\ state = "Succeeded" =>
    relimited \/ ("AcceptLocalFiles" \in options /\ HasLocalData)

\* While a reply is being read the open save file holds what was read of it.
Reading == Live /\ save = "open" /\ temp = Chunks(reply.read, sent)
Bodies ==
  /\ reply.read <= reply.size
  /\ reply.phase = "sent" => reply = FreshReply
  /\ Live /\ state = "Running" => Reading

IInv == Types /\ Counters /\ Verdicts /\ LocalData /\ Bodies /\ NoNullSaveFile
-----------------------------------------------------------------------------
\* The initial states.
LEMMA Initially == Init => IInv
<1> SUFFICES ASSUME Init PROVE IInv
  OBVIOUS
<1> USE LimitsAssumption, BoundsAssumption DEF Init, NoReply
<1>1. Types
  <2>1. <<>> \in Seq(Nat) /\ <<0>> \in Seq(Nat)
    OBVIOUS
  <2>2. temp \in Seq(Nat) /\ file \in Seq(Nat)
    BY <2>1
  <2>3. reply \in Reply
    BY DEF Reply, Phases, Statuses, Locations
  <2>4. Flags
    BY Zenon DEF Flags
  <2>5. starts \in 0 .. MaxStarts /\ aborts \in 0 .. MaxAborts
    OBVIOUS
  <2> QED BY <2>2, <2>3, <2>4, <2>5 DEF Types, States, Outcomes
<1>2. Counters
  <2>1. Paid(0, 0)
    BY DEF Paid, Live
  <2> QED BY <2>1 DEF Counters, Unfinished, Live
<1>3. Verdicts
  BY DEF Verdicts, Live, Unfinished
<1>4. Bodies
  BY DEF Bodies, Live
<1>5. LocalData
  BY DEF LocalData
<1> QED BY <1>1, <1>2, <1>3, <1>4, <1>5 DEF IInv, NoNullSaveFile

\* The headers arrive: the request was on the wire and stays there.
LEMMA HeadersStep ==
  ASSUME IInv, NEW s \in Statuses \ {"none"}, NEW l \in Locations,
         NEW k \in 0 .. MaxChunks, ReplyHeaders(s, l, k)
  PROVE  IInv'
<1> USE BoundsAssumption DEF IInv, ReplyHeaders, sink, counts, signals, calls
<1>1. Types'
  <2>1. Flags'
    BY Zenon DEF Types, Flags
  <2>2. reply' \in Reply
    BY DEF Reply, Phases, Statuses, Locations
  <2> QED BY <2>1, <2>2 DEF Types
<1>2. Live /\ Live' /\ Unfinished /\ Unfinished'
  BY DEF Live, Unfinished
<1>3. Counters'
  BY <1>2 DEF Counters, Paid
<1>4. Verdicts'
  BY <1>2 DEF Verdicts
<1>5. Bodies'
  BY <1>2 DEF Bodies, Reading, FreshReply, NoReply
<1>6. LocalData'
  BY <1>2 DEF LocalData, HasLocalData
<1> QED BY <1>1, <1>3, <1>4, <1>5, <1>6 DEF NoNullSaveFile

\* One more chunk, or the loss of the save file and with it the verdict.
LEMMA ReadStep ==
  ASSUME IInv, ReadyRead
  PROVE  IInv'
<1> USE DEF IInv, ReadyRead, MayRead, counts, signals, calls
<1>1. Live /\ Live' /\ Unfinished /\ Unfinished' /\ state = "Running"
  BY DEF Live, Unfinished, Types, Reply
<1>2. /\ reply \in Reply /\ reply' \in Reply /\ reply'.read = reply.read + 1
      /\ reply'.phase = "open" /\ reply'.size = reply.size
  <2>1. /\ reply \in Reply /\ reply.phase = "open"
        /\ reply' = [reply EXCEPT !.read = @ + 1]
    BY DEF Types
  <2> HIDE DEF IInv, ReadyRead
  <2> QED BY <2>1 DEF Reply
<1>3. save = "open" /\ temp = Chunks(reply.read, sent)
  BY <1>1 DEF Bodies, Reading
<1>4. /\ save' = "open" => temp' = Chunks(reply'.read, sent')
      /\ temp' \in Seq(Nat)
  <2>1. Chunks(reply.read + 1, sent) \in Seq(Nat)
    BY <1>2, ChunksType DEF Reply, Types
  <2>2. Append(temp, sent) = Chunks(reply.read + 1, sent)
    BY <1>2, <1>3, ChunksAppend DEF Reply, Types
  <2>3. <<>> \in Seq(Nat)
    BY EmptySeq
  <2>4. sent' = sent
    OBVIOUS
  <2> QED BY <1>2, <2>1, <2>2, <2>3, <2>4 DEF WriteLost
<1>5. Types'
  <2>1. fault' = FALSE
    BY <1>3 DEF NoNullSaveFile
  <2>2. Flags'
    BY <2>1, Zenon DEF Types, Flags
  <2> QED BY <1>2, <1>4, <2>2 DEF Types, States, WriteLost
<1>6. Counters'
  BY <1>1 DEF Counters, Paid
<1>7. Verdicts'
  BY <1>1, <1>2, <1>3 DEF Verdicts, WriteLost
<1>8. Bodies'
  BY <1>1, <1>2, <1>3, <1>4 DEF Bodies, Reading, Reply, Types, WriteLost
<1>9. NoNullSaveFile'
  BY <1>3 DEF NoNullSaveFile
<1>10. LocalData'
  BY <1>1, <1>2 DEF LocalData, HasLocalData, WriteLost
<1> QED BY <1>5, <1>6, <1>7, <1>8, <1>9, <1>10

\* An error leaves a verdict, or pays for a retry and starts the timer.
LEMMA ErrorStep ==
  ASSUME IInv, NEW cancelled \in BOOLEAN, NEW long \in BOOLEAN,
         ReplyError(cancelled, long)
  PROVE  IInv'
<1> USE LimitsAssumption, BoundsAssumption
    DEF IInv, ReplyError, AutoRetry, MayRetry, Emit, sink, calls
<1>1. /\ Live /\ ~Live' /\ Unfinished /\ Unfinished' /\ (relimited \/ ~timer)
      /\ reply \in Reply /\ reply' = [reply EXCEPT !.phase = "errored"]
      /\ reply'.phase = "errored" /\ reply' \in Reply
      /\ reply'.read = reply.read /\ reply'.size = reply.size
  BY DEF Live, Unfinished, Types, Reply, Verdicts, Phases
<1>c. /\ redirectCount < sent /\ retryCount + 1 < 2 * sent
      /\ redirectCount \in Nat /\ retryCount \in Nat /\ sent \in Nat
  BY <1>1 DEF Counters, Types
<1>2. /\ ErrorVerdict(cancelled) \in {"Succeeded", "Failed"}
      /\ ErrorVerdict(cancelled) = "Succeeded" =>
           "AcceptLocalFiles" \in options /\ HasLocalData
  BY DEF ErrorVerdict
<1>3. CASE retryCount' = retryCount + 1 /\ timer' = TRUE /\ UNCHANGED <<state, signals>>
           /\ retryCount + 1 <= RetryLimit
  <2>1. Types'
    <3>1. Flags'
      BY <1>3, Zenon DEF Types, Flags, signals
    <3> QED BY <1>1, <1>3, <3>1 DEF Types, signals
  <2>2. Counters'
    <3>1. PICK r \in Nat, t \in Nat : Paid(r, t)
      BY DEF Counters
    <3>2. UNCHANGED <<sent, starts, redirectCount>>
      OBVIOUS
    <3>3. Paid(r, t + 1)'
      <4>1. timer' = TRUE /\ retryCount' = retryCount + 1 /\ retryCount \in Nat
            /\ sent \in Nat /\ starts \in Nat /\ retryCount + 1 <= RetryLimit
        BY <1>3 DEF Types
      <4> HIDE DEF IInv, ReplyError
      <4> QED BY <1>1, <3>1, <3>2, <4>1 DEF Paid
    <3>4. /\ redirectCount' < sent' /\ retryCount' < 2 * sent'
          /\ redirectCount' <= sent' /\ retryCount' <= 2 * sent'
      <4> HIDE DEF IInv, ReplyError
      <4> QED BY <1>c, <1>3, <3>2
    <3>5. t + 1 \in Nat /\ ~Live'
      BY <1>1
    <3> HIDE DEF IInv, ReplyError
    <3> QED BY <3>3, <3>4, <3>5 DEF Counters
  <2>3. Verdicts'
    BY <1>1, <1>3 DEF Verdicts, signals
  <2>4. LocalData'
    BY <1>1, <1>3 DEF LocalData, HasLocalData
  <2> QED BY <1>1, <2>1, <2>2, <2>3, <2>4 DEF Bodies, NoNullSaveFile
<1>4. CASE /\ retryCount' \in {retryCount, retryCount + 1} /\ UNCHANGED timer
           /\ state' \in {"Succeeded", "Failed"} /\ misfired' \in BOOLEAN
           /\ ends' = ends /\ heard' = heard
           /\ state' = "Succeeded" => "AcceptLocalFiles" \in options /\ HasLocalData
  <2>1. Types'
    <3>1. Flags'
      BY <1>4, Zenon DEF Types, Flags
    <3> QED BY <1>1, <1>4, <3>1 DEF Types, States
  <2>2. Counters'
    <3>1. PICK r \in Nat, t \in Nat : Paid(r, t)
      BY DEF Counters
    <3>2. UNCHANGED <<sent, starts, redirectCount>>
      OBVIOUS
    <3>3. Paid(r, t)'
      BY <1>1, <1>4, <3>1, <3>2 DEF Paid, Types, Flags
    <3>4. /\ redirectCount' < sent' /\ retryCount' < 2 * sent'
          /\ redirectCount' <= sent' /\ retryCount' <= 2 * sent'
      <4> HIDE DEF IInv, ReplyError
      <4> QED BY <1>c, <1>4, <3>2
    <3>5. ~Live'
      BY <1>1
    <3> HIDE DEF IInv, ReplyError
    <3> QED BY <3>3, <3>4, <3>5 DEF Counters
  <2>3. Verdicts'
    BY <1>1, <1>4 DEF Verdicts
  <2>4. LocalData'
    BY <1>4 DEF LocalData, HasLocalData
  <2> QED BY <1>1, <2>1, <2>2, <2>3, <2>4 DEF Bodies, NoNullSaveFile
<1> QED
  <2>1. CASE ~cancelled /\ RateLimited
    <3>1. CASE MayRetry(long) BY <2>1, <3>1, <1>3
    <3>2. CASE ~MayRetry(long)
      <4>1. heard' = heard
        BY <2>1, <3>2, <1>1 DEF Verdicts
      <4> QED BY <2>1, <3>2, <4>1, <1>4 DEF Types, Flags
    <3> QED BY <3>1, <3>2
  <2>2. CASE ~(~cancelled /\ RateLimited)
    BY <2>2, <1>2, <1>4 DEF signals, Types, Flags
  <2> QED BY <2>1, <2>2
-----------------------------------------------------------------------------
(***************************************************************************)
(* The functions that several handlers call: executeTask() either sends    *)
(* the next request or is over, and so does downloadFinished().            *)
(***************************************************************************)
Resent(from, n) ==
  /\ from # "AbortedByUser" /\ Quiet(from, n)
  /\ sent' = sent + 1 /\ reply' = FreshReply /\ save' = "open" /\ temp' = <<>>

\* An outcome is emitted, or dropped because the task is not running.
Answered(from, n) ==
  /\ state' # "Running" /\ misfired' \in BOOLEAN
  /\ \/ from = "Running" /\ state' \in {"Succeeded", "Failed"} /\ heard' = state' /\ ends' = n + 1
     \/ /\ from # "Running" /\ state' = from /\ ends' = n
        /\ heard' = IF n = 0 THEN "none" ELSE heard

Over(from, n, left) ==
  /\ Answered(from, n)
  /\ sent' = sent /\ reply' = left
  /\ save' \in {"null", "open", "shut"} /\ temp' \in Seq(Nat)

Told ==
  /\ ends' = ends + 1 /\ state' \in Outcomes /\ heard' = state'
  /\ misfired' \in BOOLEAN

\* Emitting "AbortedByUser" happens only to a request that is aborted already.
LEMMA EmitCases ==
  ASSUME Types, NEW from, NEW n, NEW o \in Outcomes, Emit(o, from, n),
         o = "AbortedByUser" => from # "Running"
  PROVE  Answered(from, n)
BY DEF Emit, Answered, Outcomes, Types, Flags

\* executeTask() sends one request, or does nothing but emit an outcome.
LEMMA ExecuteCases ==
  ASSUME Types, NEW from, NEW n, NEW left, Execute(from, n, left)
  PROVE  file' = file /\ (Resent(from, n) \/ Over(from, n, left))
<1>2. temp \in Seq(Nat) /\ <<>> \in Seq(Nat) /\ save \in {"null", "open", "shut"}
  BY EmptySeq DEF Types
<1>3. CASE /\ MayNotStart(from)
           /\ Emit("AbortedByUser", from, n)
           /\ UNCHANGED <<sink, sent>> /\ reply' = left
  <2>1. Answered(from, n)
    BY <1>3, EmitCases DEF Outcomes, MayNotStart
  <2> QED BY <1>2, <1>3, <2>1 DEF Over, sink
<1>4. CASE /\ Emit("Succeeded", from, n) /\ UNCHANGED sink
           /\ UNCHANGED sent /\ reply' = left
  <2>1. Answered(from, n)
    BY <1>4, EmitCases DEF Outcomes
  <2> QED BY <1>2, <1>4, <2>1 DEF Over, sink
<1>5. CASE /\ Emit("Failed", from, n)
           /\ \/ UNCHANGED sink
              \/ save' = "shut" /\ temp' = <<>> /\ UNCHANGED file
              \/ SinkInit
           /\ UNCHANGED sent /\ reply' = left
  <2>1. Answered(from, n)
    BY <1>5, EmitCases DEF Outcomes
  <2> QED BY <1>2, <1>5, <2>1 DEF Over, sink, SinkInit
<1>6. CASE /\ ~MayNotStart(from) /\ Quiet(from, n) /\ SinkInit
           /\ sent' = sent + 1 /\ reply' = FreshReply
  BY <1>6 DEF Resent, SinkInit, MayNotStart
<1> QED BY <1>3, <1>4, <1>5, <1>6 DEF Execute

\* The reply that a request waits for afresh.
LEMMA Fresh ==
  /\ FreshReply \in Reply /\ FreshReply.phase = "sent"
  /\ FreshReply.read = 0 /\ FreshReply.size = 0
BY DEF FreshReply, NoReply, Reply, Phases, Statuses, Locations

\* Nothing has been read of it.
LEMMA NoChunks == ASSUME NEW x PROVE Chunks(0, x) = <<>>
BY SMT DEF Chunks

\* What downloadFinished() may do to the timer and to the count of retries.
NoRetry == timer' = FALSE /\ retryCount' = retryCount /\ relimited' = relimited
LateRetry ==
  /\ retryCount' = retryCount + 1 /\ timer' \in BOOLEAN /\ relimited' \in BOOLEAN
  /\ relimited => relimited'
  /\ timer' => relimited' /\ retryCount + 1 <= RetryLimit

Done == [reply EXCEPT !.phase = "finished"]

Followed(from) ==
  /\ Resent(from, ends) /\ UNCHANGED file /\ NoRetry
  /\ redirectCount' = redirectCount + 1 /\ redirectCount + 1 <= RedirectLimit
Refused(from) ==
  /\ Over(from, ends, Done) /\ UNCHANGED file /\ NoRetry
  /\ redirectCount' = redirectCount + 1
Finished ==
  /\ Told /\ file' \in Seq(Nat) /\ sent' = sent /\ redirectCount' = redirectCount
  /\ reply' = Done /\ (NoRetry \/ LateRetry)
  /\ save' \in {"null", "open", "shut"} /\ temp' \in Seq(Nat)

\* A Location that cannot be parsed ends the request, and may arrange a retry.
LEMMA BadLocationCases ==
  ASSUME IInv, NEW from \in States \ {"Inactive"}, BadLocation(from),
         from = "Running" => reply.status # "tooMany"
  PROVE  revived' = revived /\ fault' = fault /\ file' = file /\ Finished
<1> USE DEF IInv, BadLocation
<1>1. /\ save' \in {"null", "open", "shut"} /\ temp' \in Seq(Nat) /\ file' = file
      /\ file' \in Seq(Nat)
  BY DEF SinkAbort, Types
<1>2. timer' = FALSE \/ timer' = TRUE
  OBVIOUS
<1>3. ErrorVerdict(FALSE) \in Outcomes
  BY DEF ErrorVerdict, Outcomes
<1>4. CASE ~RateLimited
  <2>1. Told /\ NoRetry
    BY <1>3, <1>4 DEF Signal, Told, NoRetry, Types, Flags
  <2> QED BY <1>1, <2>1 DEF Finished, Ended, Done
<1>5. CASE RateLimited
  <2>1. from \in Outcomes
    BY <1>5 DEF RateLimited, States, Outcomes
  <2>2. PICK long \in BOOLEAN :
          IF MayRetry(long)
            THEN timer' = TRUE /\ relimited' = TRUE /\ Signal(from, from)
            ELSE /\ timer' = FALSE /\ UNCHANGED relimited
                 /\ state' = "Failed" /\ heard' = "Failed" /\ ends' = ends + 1
                 /\ misfired' = TRUE
    BY <1>5
  <2>3. Told
    BY <2>1, <2>2 DEF Signal, Told, Types, Flags, Outcomes
  <2>4. LateRetry
    <3>1. retryCount' = retryCount + 1
      BY <1>5
    <3>2. CASE MayRetry(long)
      BY <2>2, <3>1, <3>2 DEF LateRetry, MayRetry
    <3>3. CASE ~MayRetry(long)
      BY <2>2, <3>1, <3>3 DEF LateRetry, Types, Flags
    <3> QED BY <3>2, <3>3
  <2> QED BY <1>1, <2>3, <2>4 DEF Finished, Ended, Done
<1> QED BY <1>4, <1>5

\* downloadFinished() follows a redirect or signals what became of the request.
LEMMA ConcludeCases ==
  ASSUME IInv, Unfinished, NEW from \in States \ {"Inactive"}, Conclude(from),
         from = "Running" => save = "open" /\ reply.status # "tooMany"
  PROVE  /\ revived' \in BOOLEAN /\ ~fault'
         /\ Followed(from) \/ Refused(from) \/ Finished
<1> USE DEF IInv
<1>1. revived \in BOOLEAN /\ fault = FALSE /\ temp \in Seq(Nat) /\ file \in Seq(Nat)
      /\ <<>> \in Seq(Nat) /\ reply \in Reply /\ redirectCount \in Nat
      /\ save \in {"null", "open", "shut"} /\ misfired \in BOOLEAN
  BY EmptySeq DEF Types, Flags, NoNullSaveFile
<1>2. SinkAbort => save' \in {"null", "open", "shut"} /\ temp' = temp /\ file' = file
  BY <1>1 DEF SinkAbort
<1>3. CASE reply.location = "valid"
  <2>1. Redirect(from) /\ NoRetry
    BY <1>3 DEF Conclude, NoRetry
  <2>2. redirectCount' = redirectCount + 1 /\ revived' \in BOOLEAN /\ fault' = fault
    BY <2>1 DEF Redirect, RedirectCounted
  <2>3. CASE redirectCount + 1 > RedirectLimit
    <3>1. SinkAbort /\ Emit("Failed", from, ends) /\ Ended /\ UNCHANGED sent
      BY <2>1, <2>3 DEF Redirect
    <3>2. Answered(from, ends)
      BY <3>1, EmitCases DEF Outcomes
    <3>3. Over(from, ends, Done) /\ UNCHANGED file
      BY <1>1, <1>2, <3>1, <3>2 DEF Over, Ended, Done
    <3> QED BY <1>1, <2>1, <2>2, <3>3 DEF Refused
  <2>4. CASE ~(redirectCount + 1 > RedirectLimit)
    <3>1. Execute(from, ends, Done)
      BY <2>1, <2>4 DEF Redirect, Done
    <3>2. file' = file /\ (Resent(from, ends) \/ Over(from, ends, Done))
      BY <3>1, ExecuteCases
    <3>3. redirectCount + 1 <= RedirectLimit
      BY <1>1, <2>4, LimitsAssumption
    <3> QED BY <1>1, <2>1, <2>2, <3>2, <3>3 DEF Followed, Refused
  <2> QED BY <2>3, <2>4
<1>4. CASE reply.location = "invalid"
  <2>1. BadLocation(from)
    BY <1>4 DEF Conclude
  <2> QED BY <1>1, <2>1, BadLocationCases
<1>5. CASE reply.location \notin {"valid", "invalid"}
  <2>1. /\ Ended /\ UNCHANGED <<redirectCount, sent, revived>> /\ NoRetry
        /\ IF from = "Running" THEN Finalize
           ELSE Signal(from, from) /\ SinkAbort /\ UNCHANGED fault
    BY <1>5 DEF Conclude, NoRetry
  <2>2. from \in Outcomes \cup {"Running"}
    BY DEF Outcomes, States
  <2>4. CASE from # "Running"
    BY <1>1, <1>2, <2>1, <2>2, <2>4 DEF Signal, Told, Ended, Finished, Done
  <2>5. CASE from = "Running"
    <3>1. Finalize /\ save = "open"
      BY <2>1, <2>5
    <3>2. WriteFrom(reply.read) => temp' \in Seq(Nat)
      <4>1. reply.size - reply.read \in Nat /\ sent \in Nat
        BY <1>1 DEF Bodies, Reply, Types
      <4>2. Chunks(reply.size - reply.read, sent) \in Seq(Nat)
        BY <4>1, ChunksType
      <4> QED BY <1>1, <4>2, ConcatProperties DEF WriteFrom, Chunks
    <3>3. file' \in Seq(Nat) /\ temp' \in Seq(Nat) /\ save' \in {"null", "open", "shut"}
          /\ fault' = FALSE
      BY <1>1, <3>1, <3>2 DEF Finalize, WriteLost
    <3>4. Told
      BY <1>1, <3>1 DEF Finalize, Emit, Told, Outcomes
    <3> QED BY <1>1, <2>1, <3>3, <3>4 DEF Ended, Finished, Done
  <2> QED BY <2>4, <2>5
<1> QED BY <1>3, <1>4, <1>5
-----------------------------------------------------------------------------
\* What the reply of a handler that is done with it looks like.
LEMMA DoneReply ==
  ASSUME reply \in Reply
  PROVE  /\ Done \in Reply /\ Done.phase = "finished"
         /\ Done.read = reply.read /\ Done.size = reply.size
BY DEF Done, Reply, Phases

\* downloadFinished() keeps the invariant, whoever calls it.
LEMMA AfterConclude ==
  ASSUME IInv, Unfinished, NEW from \in States \ {"Inactive"}, Conclude(from),
         from = "Running" => save = "open" /\ reply.status # "tooMany",
         from = "Succeeded" =>
           relimited \/ ("AcceptLocalFiles" \in options /\ HasLocalData),
         UNCHANGED <<options, starts>>, aborts' \in 0 .. MaxAborts
  PROVE  IInv'
<1> USE DEF IInv
<1>1. /\ ends = 0 \/ relimited
      /\ ends = 0 => heard = "none"
      /\ ends > 0 => heard # "none"
      /\ starts \in Nat /\ starts > 0 /\ sent \in Nat /\ ends \in Nat
      /\ redirectCount \in Nat /\ retryCount \in Nat /\ reply \in Reply
      /\ starts \in 0 .. MaxStarts /\ starts' = starts
      /\ options' \subseteq {"AcceptLocalFiles", "AutoRetry"} /\ options' = options
      /\ file \in Seq(Nat) /\ misfired \in BOOLEAN /\ relimited \in BOOLEAN
      /\ reply.read <= reply.size /\ heard \in Outcomes \cup {"none"}
      /\ redirectCount < sent /\ retryCount < 2 * sent
  BY BoundsAssumption DEF Types, Flags, Verdicts, Bodies, Counters
<1>2. PICK r \in Nat, t \in Nat : Paid(r, t)
  BY DEF Counters
<1>4. revived' \in BOOLEAN /\ fault' = FALSE
  BY ConcludeCases
<1>d. /\ Done \in Reply /\ Done.phase = "finished"
      /\ Done.read = reply.read /\ Done.size = reply.size
  BY <1>1, DoneReply
<1> HIDE DEF IInv
<1>5. CASE Followed(from)
  <2>1. /\ sent' = sent + 1 /\ reply' = FreshReply /\ save' = "open" /\ temp' = <<>>
        /\ state' = from /\ ends' = ends /\ misfired' = misfired
        /\ heard' = (IF ends = 0 THEN "none" ELSE heard)
        /\ from # "AbortedByUser" /\ timer' = FALSE /\ retryCount' = retryCount
        /\ relimited' = relimited /\ redirectCount' = redirectCount + 1
        /\ redirectCount + 1 <= RedirectLimit /\ file' = file
    BY <1>5 DEF Followed, NoRetry, Resent, Quiet
  <2>2. Live' /\ Unfinished'
    BY <2>1, Fresh DEF Live, Unfinished
  <2>3. Types'
    <3>1. Flags'
      BY <1>1, <1>4, <2>1, Zenon DEF Flags
    <3> QED BY <1>1, <2>1, <3>1, Fresh, EmptySeq DEF Types
  <2>4. Paid(r + 1, t)'
    BY <1>1, <1>2, <2>1, LimitsAssumption DEF Paid
  <2>6. Counters'
    <3>1. r + 1 \in Nat
      OBVIOUS
    <3>2. redirectCount' < sent' /\ retryCount' + 1 < 2 * sent' /\ retryCount' < 2 * sent'
          /\ redirectCount' <= sent' /\ retryCount' <= 2 * sent'
      BY <1>1, <2>1
    <3> QED BY <2>4, <3>1, <3>2 DEF Counters
  <2>7. Verdicts'
    BY <1>1, <2>1, Fresh DEF Verdicts
  <2>8. Bodies'
    BY <2>1, <2>2, Fresh, NoChunks DEF Bodies, Reading
  <2>9. LocalData'
    BY <1>1, <2>1 DEF LocalData, HasLocalData
  <2> QED BY <1>4, <2>3, <2>6, <2>7, <2>8, <2>9 DEF IInv, NoNullSaveFile
<1>6. CASE Refused(from)
  <2>1. /\ sent' = sent /\ reply' = Done /\ timer' = FALSE /\ retryCount' = retryCount
        /\ relimited' = relimited /\ redirectCount' = redirectCount + 1
        /\ save' \in {"null", "open", "shut"} /\ temp' \in Seq(Nat) /\ file' = file
    BY <1>6 DEF Refused, NoRetry, Over
  <2>2. /\ state' \in States \ {"Inactive", "Running"} /\ misfired' \in BOOLEAN
        /\ \/ state' \in Outcomes /\ heard' = state' /\ ends' = ends + 1
           \/ heard' = "none" /\ ends' = 0 /\ ends = 0
           \/ heard' = heard /\ ends' = ends /\ ends > 0
    BY <1>1, <1>6 DEF Refused, Over, Answered, Outcomes, States
  <2>3. ~Live' /\ ~Unfinished'
    BY <1>d, <2>1 DEF Live, Unfinished
  <2>4. Types'
    <3>1. Flags'
      BY <1>1, <1>4, <2>1, <2>2, Zenon DEF Flags
    <3> QED BY <1>1, <1>d, <2>1, <2>2, <3>1 DEF Types, Outcomes
  <2>5. Paid(r, t)'
    BY <1>1, <1>2, <2>1 DEF Paid
  <2>6. Counters'
    BY <1>1, <2>1, <2>3, <2>5 DEF Counters
  <2>7. Verdicts'
    BY <1>1, <1>d, <2>1, <2>2, <2>3 DEF Verdicts, Outcomes
  <2>8. Bodies'
    BY <1>1, <1>d, <2>1, <2>3 DEF Bodies
  <2>9. LocalData'
    BY <2>1, <2>3 DEF LocalData
  <2> QED BY <1>4, <2>4, <2>6, <2>7, <2>8, <2>9 DEF IInv, NoNullSaveFile
<1>7. CASE Finished
  <2>1. /\ reply' = Done /\ sent' = sent /\ redirectCount' = redirectCount
        /\ ends' = ends + 1 /\ state' \in Outcomes /\ heard' = state'
        /\ misfired' \in BOOLEAN /\ file' \in Seq(Nat)
        /\ save' \in {"null", "open", "shut"} /\ temp' \in Seq(Nat)
    BY <1>7 DEF Finished, Told
  <2>2. ~Live' /\ ~Unfinished'
    BY <1>d, <2>1 DEF Live, Unfinished
  <2>r. /\ timer' \in BOOLEAN /\ relimited' \in BOOLEAN
        /\ timer' => relimited'
        /\ retryCount' \in {retryCount, retryCount + 1}
        /\ timer' => retryCount' = retryCount + 1 /\ retryCount + 1 <= RetryLimit
    BY <1>1, <1>7 DEF Finished, NoRetry, LateRetry
  <2>3. Types'
    <3>1. Flags'
      BY <1>4, <2>1, <2>r, Zenon DEF Flags
    <3>2. retryCount' \in Nat /\ ends' \in Nat
      BY <1>1, <2>1, <2>r
    <3> QED BY <1>1, <1>d, <2>1, <3>1, <3>2 DEF Types, Outcomes, States
  <2>5. Counters'
    <3>1. redirectCount' <= sent' /\ retryCount' <= 2 * sent'
      BY <1>1, <2>1, <2>r
    <3>2. CASE timer' = FALSE
      <4>1. Paid(r, t)'
        BY <1>1, <1>2, <2>1, <2>r, <3>2 DEF Paid
      <4> QED BY <2>2, <3>1, <4>1 DEF Counters
    <3>3. CASE timer' = TRUE
      <4>1. Paid(r, t + 1)'
        BY <1>1, <1>2, <2>1, <2>r, <3>3, LimitsAssumption DEF Paid
      <4>2. t + 1 \in Nat
        OBVIOUS
      <4> QED BY <2>2, <3>1, <4>1, <4>2 DEF Counters
    <3> QED BY <2>r, <3>2, <3>3
  <2>6. Verdicts'
    BY <1>1, <1>d, <2>1, <2>2, <2>r DEF Verdicts, Outcomes
  <2>7. Bodies'
    BY <1>1, <1>d, <2>1, <2>2 DEF Bodies
  <2>8. LocalData'
    BY <2>2, <2>r DEF LocalData
  <2> QED BY <1>4, <2>3, <2>5, <2>6, <2>7, <2>8 DEF IInv, NoNullSaveFile
<1> QED BY <1>5, <1>6, <1>7, ConcludeCases DEF IInv

\* The reply finishes: it is put aside for a retry, or it is concluded.
LEMMA FinishedStep ==
  ASSUME IInv, ReplyFinished
  PROVE  IInv'
<1> USE DEF IInv
<1>1. Unfinished /\ UNCHANGED <<options, starts, aborts>>
  BY DEF ReplyFinished, Unfinished, calls
<1>2. CASE timer
  <2>1. Ended /\ UNCHANGED <<state, save, temp, file, timer, retryCount, sent, heard,
                             ends, misfired, revived, relimited, redirectCount, fault>>
    BY <1>2 DEF ReplyFinished, sink, signals, counts
  <2>2. /\ reply' \in Reply /\ reply'.phase = "finished"
        /\ reply'.read = reply.read /\ reply'.size = reply.size
    BY <2>1 DEF Ended, Types, Reply, Phases
  <2>3. ~Live' /\ ~Unfinished'
    BY <2>2 DEF Live, Unfinished
  <2>4. Types'
    <3>1. Flags'
      BY <1>1, <2>1, Zenon DEF Types, Flags
    <3> QED BY <1>1, <2>1, <2>2, <3>1 DEF Types
  <2>5. Counters'
    <3>1. PICK r \in Nat, t \in Nat : Paid(r, t)
      BY DEF Counters
    <3>2. Paid(r, t)'
      BY <1>1, <2>1, <2>3, <3>1 DEF Paid, Types, Flags
    <3> QED BY <1>1, <1>2, <2>1, <2>3, <3>2 DEF Counters
  <2>6. Verdicts'
    BY <1>1, <1>2, <2>1, <2>2, <2>3 DEF Verdicts
  <2>7. Bodies'
    BY <2>1, <2>2, <2>3 DEF Bodies
  <2>8. LocalData'
    BY <1>1, <1>2, <2>1 DEF LocalData, HasLocalData
  <2> QED BY <2>1, <2>4, <2>5, <2>6, <2>7, <2>8 DEF NoNullSaveFile
<1>3. CASE ~timer
  <2>1. Conclude(state)
    BY <1>3 DEF ReplyFinished
  <2>2. state = "Running" => save = "open" /\ reply.status # "tooMany"
    BY <1>3 DEF ReplyFinished, Verdicts, Bodies, Reading, Live
  <2>3. state \in States \ {"Inactive"}
    BY <1>1 DEF Types, Verdicts
  <2>4. aborts' \in 0 .. MaxAborts
    BY <1>1, <1>3 DEF Types
  <2>5. state = "Succeeded" =>
          relimited \/ ("AcceptLocalFiles" \in options /\ HasLocalData)
    BY <1>1 DEF LocalData
  <2> QED BY <1>1, <2>1, <2>2, <2>3, <2>4, <2>5, AfterConclude
<1> QED BY <1>2, <1>3

\* Executing keeps the invariant if the counters allow one more request, or two
\* while the timer of an earlier end still runs.
\* (They do when the owner starts the request, and when a retry is due.)
LEMMA AfterExecute ==
  ASSUME IInv, NEW from \in States \ {"Inactive"}, NEW n \in Nat,
         Execute(from, n, reply),
         n = 0 \/ (n = ends /\ relimited),
         relimited \/ (~Unfinished /\ timer' = FALSE),
         from = "AbortedByUser" => ~Unfinished /\ timer' = FALSE,
         from = "Succeeded" =>
           relimited \/ ("AcceptLocalFiles" \in options /\ HasLocalData),
         UNCHANGED <<options, redirectCount, retryCount, relimited, fault>>,
         timer' \in BOOLEAN, revived' \in BOOLEAN,
         NEW k \in 1 .. MaxStarts, starts' = k, aborts' \in 0 .. MaxAborts,
         NEW r \in Nat, NEW t \in Nat, Paid(r, t),
         starts <= k, sent < k + r + t, timer' => sent + 1 < k + r + t
  PROVE  IInv'
<1> USE DEF IInv
<1>1. /\ starts \in Nat /\ k \in Nat /\ k > 0 /\ sent \in Nat
      /\ starts' \in 0 .. MaxStarts /\ starts' > 0 /\ starts' = k
      /\ redirectCount \in Nat /\ retryCount \in Nat /\ reply \in Reply
      /\ options' \subseteq {"AcceptLocalFiles", "AutoRetry"} /\ options' = options
      /\ file \in Seq(Nat) /\ misfired \in BOOLEAN /\ fault' = FALSE
      /\ reply.read <= reply.size /\ heard \in Outcomes \cup {"none"}
      /\ redirectCount <= sent /\ retryCount <= 2 * sent
      /\ redirectCount' = redirectCount /\ retryCount' = retryCount
      /\ relimited' = relimited /\ relimited \in BOOLEAN
      /\ n > 0 => heard # "none"
  BY BoundsAssumption DEF Types, Flags, Bodies, NoNullSaveFile, Counters, Verdicts
<1>c. /\ Unfinished => redirectCount < sent /\ retryCount < 2 * sent
      /\ Live => retryCount + 1 < 2 * sent
  BY DEF Counters
<1>b. reply.phase = "sent" => reply = FreshReply
  BY DEF Bodies
<1>2. file' = file /\ (Resent(from, n) \/ Over(from, n, reply))
  BY ExecuteCases
<1>v. Live => Unfinished
  BY DEF Live, Unfinished
<1> HIDE DEF IInv
<1>4. CASE Resent(from, n)
  <2>1. /\ sent' = sent + 1 /\ reply' = FreshReply /\ save' = "open" /\ temp' = <<>>
        /\ state' = from /\ ends' = n /\ misfired' = misfired
        /\ heard' = (IF n = 0 THEN "none" ELSE heard)
        /\ from # "AbortedByUser"
    BY <1>4 DEF Resent, Quiet
  <2>2. Live' /\ Unfinished'
    BY <2>1, Fresh DEF Live, Unfinished
  <2>3. Types'
    <3>1. Flags'
      BY <1>1, <2>1, Zenon DEF Flags
    <3>2. temp' \in Seq(Nat) /\ sent' \in Nat
      BY <1>1, <2>1, EmptySeq
    <3> QED BY <1>1, <1>2, <2>1, <3>1, <3>2, Fresh DEF Types
  <2>4. Paid(r, t)'
    BY <1>1, <2>1, LimitsAssumption DEF Paid
  <2>5. Counters'
    <3>1. redirectCount' < sent' /\ retryCount' + 1 < 2 * sent' /\ retryCount' < 2 * sent'
          /\ redirectCount' <= sent' /\ retryCount' <= 2 * sent'
      BY <1>1, <2>1
    <3> QED BY <2>4, <3>1 DEF Counters
  <2>6. Verdicts'
    BY <1>1, <2>1, Fresh DEF Verdicts
  <2>7. Bodies'
    BY <2>1, <2>2, Fresh, NoChunks DEF Bodies, Reading
  <2>8. LocalData'
    BY <1>1, <1>2, <2>1 DEF LocalData, HasLocalData
  <2> QED BY <1>1, <2>3, <2>5, <2>6, <2>7, <2>8 DEF IInv, NoNullSaveFile
<1>5. CASE Over(from, n, reply)
  <2>1. /\ sent' = sent /\ reply' = reply
        /\ save' \in {"null", "open", "shut"} /\ temp' \in Seq(Nat)
    BY <1>5 DEF Over
  <2>2. /\ state' \in States \ {"Inactive", "Running"} /\ misfired' \in BOOLEAN
        /\ state' = "AbortedByUser" => from = "AbortedByUser"
        /\ \/ state' \in Outcomes /\ heard' = state' /\ ends' = n + 1
           \/ heard' = "none" /\ ends' = 0 /\ n = 0
           \/ heard' = heard /\ ends' = n /\ n > 0
    BY <1>1, <1>5 DEF Over, Answered, Outcomes, States
  <2>3. Live' = Live /\ Unfinished' = Unfinished
    BY <2>1 DEF Live, Unfinished
  <2>4. Types'
    <3>1. Flags'
      BY <1>1, <2>2, Zenon DEF Flags
    <3> QED BY <1>1, <1>2, <2>1, <2>2, <3>1 DEF Types, Outcomes
  <2>5. Paid(r, t)'
    BY <1>1, <2>1, LimitsAssumption DEF Paid
  <2>6. Counters'
    BY <1>1, <1>c, <2>1, <2>3, <2>5 DEF Counters
  <2>7. Verdicts'
    BY <1>1, <1>v, <2>1, <2>2, <2>3 DEF Verdicts, Outcomes
  <2>8. Bodies'
    BY <1>1, <1>b, <2>1, <2>2, <2>3 DEF Bodies, Live
  <2>9. LocalData'
    BY <1>1, <2>3 DEF LocalData
  <2> QED BY <1>1, <2>4, <2>6, <2>7, <2>8, <2>9 DEF IInv, NoNullSaveFile
<1> QED BY <1>2, <1>4, <1>5

\* start() pays for one request.
LEMMA StartStep ==
  ASSUME IInv, Start
  PROVE  IInv'
<1> USE DEF IInv
<1>1. /\ starts \in Nat /\ starts + 1 \in 1 .. MaxStarts
      /\ relimited \/ (~Unfinished /\ timer = FALSE)
      /\ sent \in Nat /\ timer \in BOOLEAN
      /\ aborts \in 0 .. MaxAborts
  BY BoundsAssumption DEF Start, Types, Flags, Verdicts, Unfinished
<1>2. /\ starts' = starts + 1 /\ revived' = FALSE /\ Execute("Running", 0, reply)
      /\ UNCHANGED <<options, timer, redirectCount, retryCount, relimited, fault, aborts>>
  BY DEF Start, counts
<1>3. PICK r \in Nat, t \in Nat : Paid(r, t)
  BY DEF Counters
<1>4. sent < starts' + r + t /\ (timer' => sent + 1 < starts' + r + t)
  BY <1>1, <1>2, <1>3, LimitsAssumption DEF Paid
<1>6. "Running" \in States \ {"Inactive"}
  BY DEF States
<1>7. starts <= starts' /\ starts' \in 1 .. MaxStarts /\ aborts' \in 0 .. MaxAborts
  BY <1>1, <1>2
<1>8. revived' \in BOOLEAN /\ timer' \in BOOLEAN /\ timer' = timer
  BY <1>1, <1>2, Zenon
<1> QED BY <1>1, <1>2, <1>3, <1>4, <1>6, <1>7, <1>8, AfterExecute

\* A retry that is due was paid for when its timer was started.
LEMMA RetryStep ==
  ASSUME IInv, RetryTimeout
  PROVE  IInv'
<1> USE DEF IInv
<1>1. /\ timer /\ starts \in 1 .. MaxStarts
      /\ ends = 0 \/ relimited
      /\ relimited \/ ~Unfinished
      /\ state = "AbortedByUser" => ~Unfinished
      /\ state \in States \ {"Inactive"}
      /\ sent \in Nat /\ aborts \in 0 .. MaxAborts
  BY BoundsAssumption DEF RetryTimeout, Types, Flags, Verdicts, Unfinished
<1>2. /\ timer' = FALSE /\ Execute(state, ends, reply)
      /\ UNCHANGED <<options, redirectCount, retryCount, relimited, fault, starts, aborts>>
  BY DEF RetryTimeout, counts, calls
<1>3. revived' \in BOOLEAN
  BY DEF RetryTimeout
<1>4. PICK r \in Nat, t \in Nat : Paid(r, t)
  BY DEF Counters
<1>5. sent < starts' + r + t
  BY <1>1, <1>2, <1>4 DEF Paid
<1>8. ends \in Nat /\ starts <= starts' /\ starts' \in 1 .. MaxStarts
      /\ aborts' \in 0 .. MaxAborts
  BY <1>1, <1>2 DEF Types
<1>9. state = "Succeeded" =>
        relimited \/ ("AcceptLocalFiles" \in options /\ HasLocalData)
  BY <1>1 DEF LocalData
<1> QED BY <1>1, <1>2, <1>3, <1>4, <1>5, <1>8, <1>9, AfterExecute

\* abort() finishes the reply inside the call, or only signals.
LEMMA AbortStep ==
  ASSUME IInv, Abort
  PROVE  IInv'
<1> USE DEF IInv
<1>1. /\ aborts' \in 0 .. MaxAborts
      /\ UNCHANGED <<options, starts>>
  BY BoundsAssumption DEF Abort, Types
<1>2. CASE Unfinished
  <2>1. Conclude("AbortedByUser")
    BY <1>2 DEF Abort, StateOfAbort
  <2>2. "AbortedByUser" \in States \ {"Inactive"}
    BY DEF States
  <2> QED BY <1>1, <1>2, <2>1, <2>2, AfterConclude
<1>3. CASE ~Unfinished
  <2>1. /\ state' = "AbortedByUser" /\ heard' = state' /\ ends' = ends + 1
        /\ timer' = FALSE
        /\ UNCHANGED <<misfired, reply, save, temp, file, redirectCount, retryCount,
                       sent, revived, relimited, fault>>
    BY <1>3 DEF Abort, Signal, StateOfAbort, sink, counts
  <2>2. ~Unfinished' /\ ~Live'
    BY <1>3, <2>1 DEF Unfinished, Live
  <2>3. Types'
    <3>1. Flags'
      BY <1>1, <2>1, Zenon DEF Types, Flags
    <3> QED BY <1>1, <2>1, <3>1 DEF Types, States, Outcomes
  <2>4. Counters'
    <3>1. PICK r \in Nat, t \in Nat : Paid(r, t)
      BY DEF Counters
    <3>2. Paid(r, t)'
      BY <1>1, <2>1, <2>2, <3>1 DEF Paid
    <3> QED BY <1>1, <2>1, <2>2, <3>2 DEF Counters
  <2>5. Verdicts'
    <3>1. ends' > 0 /\ ends' # 0
      BY <2>1 DEF Types
    <3> QED BY <1>1, <1>3, <2>1, <2>2, <3>1 DEF Verdicts, Unfinished
  <2>6. Bodies'
    BY <2>1, <2>2 DEF Bodies
  <2>7. LocalData'
    BY <2>1 DEF LocalData
  <2> QED BY <2>1, <2>3, <2>4, <2>5, <2>6, <2>7 DEF NoNullSaveFile
<1> QED BY <1>2, <1>3

\* No step leaves the invariant.
LEMMA Invariance == IInv /\ [Next]_vars => IInv'
<1> SUFFICES ASSUME IInv, [Next]_vars PROVE IInv'
  OBVIOUS
<1>1. CASE Start BY <1>1, StartStep
<1>2. CASE ReadyRead BY <1>2, ReadStep
<1>3. CASE ReplyFinished BY <1>3, FinishedStep
<1>4. CASE RetryTimeout BY <1>4, RetryStep
<1>5. CASE Abort BY <1>5, AbortStep
<1>6. ASSUME NEW s \in Statuses \ {"none"}, NEW l \in Locations,
             NEW k \in 0 .. MaxChunks, ReplyHeaders(s, l, k)
      PROVE  IInv'
  BY <1>6, HeadersStep
<1>7. ASSUME NEW cancelled \in BOOLEAN, NEW long \in BOOLEAN,
             ReplyError(cancelled, long)
      PROVE  IInv'
  BY <1>7, ErrorStep
<1>8. CASE UNCHANGED vars
  <2>1. UNCHANGED <<options, state, reply, save, temp, file, timer, retryCount,
                    redirectCount, sent, heard, ends, misfired, revived,
                    relimited, fault, starts, aborts>>
    BY <1>8 DEF vars, sink, counts, signals, calls
  <2>2. UNCHANGED <<Types, Live, Unfinished>>
    BY <2>1 DEF Types, Flags, Live, Unfinished
  <2>3. UNCHANGED Counters
    BY <2>1, <2>2 DEF Counters, Paid
  <2>4. UNCHANGED <<Verdicts, LocalData, Bodies, NoNullSaveFile>>
    BY <2>1, <2>2 DEF Verdicts, LocalData, HasLocalData, Bodies, Reading, NoNullSaveFile
  <2> QED BY <2>2, <2>3, <2>4 DEF IInv
<1> QED BY <1>1, <1>2, <1>3, <1>4, <1>5, <1>6, <1>7, <1>8 DEF Next
-----------------------------------------------------------------------------
\* The strengthening holds in every behaviour.
THEOREM Inductive == Spec => []IInv
BY Initially, Invariance, PTL DEF Spec

\* Type correctness, and with it the bounds of the two counters.
THEOREM TypeCorrect == Spec => []TypeOK
<1>1. IInv => TypeOK
  <2> SUFFICES ASSUME IInv PROVE TypeOK
    OBVIOUS
  <2>1. PICK r \in Nat, t \in Nat : Paid(r, t)
    BY DEF IInv, Counters
  <2>2. Types
    BY DEF IInv
  <2>s. sent \in 0 .. Most /\ Most \in Nat
    BY <2>1, <2>2, LimitsAssumption, BoundsAssumption DEF Paid, Types, Most
  <2>3. redirectCount \in 0 .. Most
    BY <2>s, <2>2 DEF IInv, Counters, Types
  <2>4. retryCount \in 0 .. 2 * Most
    BY <2>s, <2>2 DEF IInv, Counters, Types
  <2>5. Flags
    BY <2>2 DEF Types
  <2>6. /\ timer \in BOOLEAN /\ misfired \in BOOLEAN /\ revived \in BOOLEAN
        /\ relimited \in BOOLEAN /\ fault \in BOOLEAN
    BY <2>5 DEF Flags
  <2> QED BY <2>2, <2>3, <2>4, <2>6 DEF Types, TypeOK, Reply
<1> QED BY <1>1, Inductive, PTL

\* A request object sends a bounded number of HTTP requests per start, plus one
\* for each redirect and retry its limits allow in its whole life.
THEOREM TrafficBounded == Spec => []BoundedTraffic
<1>1. IInv => BoundedTraffic
  <2> SUFFICES ASSUME IInv PROVE BoundedTraffic
    OBVIOUS
  <2>1. PICK r \in Nat, t \in Nat : Paid(r, t)
    BY DEF IInv, Counters
  <2>2. sent \in Nat /\ starts \in Nat
    BY BoundsAssumption DEF IInv, Types
  <2> QED BY <2>1, <2>2, LimitsAssumption DEF Paid, BoundedTraffic
<1> QED BY <1>1, Inductive, PTL

\* What the signals said and what getState() answers agree, unless a retry
\* outlived its request.
THEOREM SignalsAgree == Spec => []HeardIsState
<1>1. IInv => HeardIsState
  BY DEF IInv, Verdicts, HeardIsState
<1> QED BY <1>1, Inductive, PTL

\* The sink never uses the save file that a failed write has deleted.
THEOREM SaveFileThere == Spec => []NoNullSaveFile
<1>1. IInv => NoNullSaveFile
  BY DEF IInv
<1> QED BY <1>1, Inductive, PTL
-----------------------------------------------------------------------------
\* Only the finalize() of a whole, error-free reply changes the target file.
LEMMA ConcludeCommits ==
  ASSUME IInv, NEW from, Conclude(from), file' # file,
         from = "Running" => Reading
  PROVE  /\ from = "Running" /\ reply.location = "none"
         /\ file' = WholeBody(reply)
<1> USE DEF IInv
<1>1. ~SinkAbort /\ reply.location \notin {"valid", "invalid"}
  <2>1. SinkAbort => file' = file
    BY DEF SinkAbort
  <2>2. Execute(from, ends, Done) => file' = file
    BY ExecuteCases
  <2>3. ~BadLocation(from)
    BY <2>1 DEF BadLocation
  <2> QED BY <2>1, <2>2, <2>3 DEF Conclude, Redirect, Done
<1>2. Finalize /\ from = "Running"
  BY <1>1 DEF Conclude
<1>3. file' = temp' /\ WriteFrom(reply.read)
  BY <1>2 DEF Finalize
<1>4. temp = Chunks(reply.read, sent)
  BY <1>2 DEF Reading
<1>5. /\ reply.read \in 0 .. reply.size /\ reply.size \in Nat /\ sent \in Nat
      /\ WholeBody(reply) = Chunks(reply.size, sent)
      /\ temp' = temp \o Chunks(reply.size - reply.read, sent)
  BY <1>3 DEF Types, Reply, Bodies, WholeBody, Chunks, WriteFrom
<1>6. temp' = Chunks(reply.size, sent)
  BY <1>4, <1>5, ChunksConcat
<1>7. reply.location = "none"
  BY <1>1 DEF Types, Reply, Locations
<1> QED BY <1>2, <1>3, <1>5, <1>6, <1>7

\* Every change of the target file commits one whole body.
THEOREM CommitsWhole == Spec => CommitIsWhole
<1>1. IInv /\ [Next]_vars =>
        [file' # file => /\ reply.phase = "open"
                         /\ reply.status \in {"got", "other"}
                         /\ file' = WholeBody(reply)]_vars
  <2> SUFFICES ASSUME IInv, Next, file' # file
               PROVE  /\ reply.phase = "open" /\ reply.status \in {"got", "other"}
                      /\ file' = WholeBody(reply)
    BY DEF vars, sink
  <2> USE DEF IInv
  <2>1. ASSUME NEW from, NEW n PROVE ~Execute(from, n, reply)
    BY <2>1, ExecuteCases
  <2>2. ~Start /\ ~RetryTimeout
    BY <2>1 DEF Start, RetryTimeout
  <2>3. ~ReadyRead
    BY DEF ReadyRead
  <2>4. \A s, l, k : ~ReplyHeaders(s, l, k)
    BY DEF ReplyHeaders, sink
  <2>5. \A c, l : ~ReplyError(c, l)
    BY DEF ReplyError, sink
  <2>6. ~Abort
    <3>1. ~Conclude("AbortedByUser")
      BY ConcludeCommits
    <3> QED BY <3>1 DEF Abort, StateOfAbort, sink
  <2>7. CASE ReplyFinished
    <3>1. Conclude(state) /\ ~timer
      BY <2>7 DEF ReplyFinished, sink
    <3>2. state = "Running" => /\ reply.phase = "open" /\ Reading
                               /\ reply.status \in {"got", "other"}
      BY <2>7, <3>1 DEF ReplyFinished, Verdicts, Bodies, Live
    <3> QED BY <3>1, <3>2, ConcludeCommits
  <2> QED BY <2>2, <2>3, <2>4, <2>5, <2>6, <2>7 DEF Next
<1> QED BY <1>1, Inductive, PTL DEF Spec, CommitIsWhole

\* abort() itself sends and writes nothing and leaves no reply unfinished, and
\* is answered if no Location header has a say.
LEMMA AbortEnds ==
  ASSUME IInv, Abort
  PROVE  /\ sent' = sent /\ file' = file /\ ~Unfinished'
         /\ (Unfinished => reply.location = "none")
              => state' = "AbortedByUser" /\ heard' = state' /\ ends' = ends + 1
<1> USE DEF IInv
<1>1. CASE ~Unfinished
  BY <1>1 DEF Abort, Signal, StateOfAbort, sink, Unfinished
<1>2. CASE Unfinished
  <2>1. Conclude("AbortedByUser")
    BY <1>2 DEF Abort, StateOfAbort
  <2>2. "AbortedByUser" \in States \ {"Inactive"}
    BY DEF States
  <2>3. Refused("AbortedByUser") \/ Finished
    <3>1. ~Followed("AbortedByUser")
      BY DEF Followed, Resent
    <3> QED BY <1>2, <2>1, <2>2, <3>1, ConcludeCases
  <2>4. sent' = sent /\ reply' = Done
    BY <2>3 DEF Refused, Over, Finished
  <2>5. ~Unfinished'
    BY <2>4, DoneReply DEF Unfinished, Types
  <2>6. file' = file
    BY <2>1, ConcludeCommits
  <2>7. reply.location = "none" =>
          state' = "AbortedByUser" /\ heard' = state' /\ ends' = ends + 1
    BY <2>1 DEF Conclude, Signal
  <2> QED BY <1>2, <2>4, <2>5, <2>6, <2>7
<1> QED BY <1>1, <1>2

\* abort() sends and writes nothing and is answered unless a Location header has
\* a say, and what it leaves aborted stays so until the next start().
THEOREM AbortFinal == Spec => AbortStops
<1>1. IInv /\ [Next]_vars =>
        [/\ aborts' > aborts =>
              /\ sent' = sent /\ file' = file /\ ~Unfinished'
              /\ (Unfinished => reply.location = "none")
                 => state' = "AbortedByUser" /\ heard' = state' /\ ends' = ends + 1
         /\ state = "AbortedByUser" /\ starts' = starts =>
              /\ sent' = sent /\ file' = file
              /\ state' = "AbortedByUser" /\ heard' \in {heard, "AbortedByUser"}]_vars
  <2> SUFFICES ASSUME IInv, Next
               PROVE  /\ aborts' > aborts => Abort
                      /\ state = "AbortedByUser" /\ starts' = starts =>
                           /\ sent' = sent /\ file' = file
                           /\ state' = "AbortedByUser"
                           /\ heard' \in {heard, "AbortedByUser"}
    BY AbortEnds
  <2> USE DEF IInv
  <2>a. aborts' > aborts => Abort
    <3>1. aborts \in Nat
      BY BoundsAssumption DEF Types
    <3>2. aborts' # aborts => Abort
      BY DEF Next, Start, ReadyRead, ReplyFinished, RetryTimeout, ReplyHeaders,
             ReplyError, calls
    <3> QED BY <3>1, <3>2
  <2>b. ASSUME state = "AbortedByUser", starts' = starts
        PROVE  /\ sent' = sent /\ file' = file
               /\ state' = "AbortedByUser" /\ heard' \in {heard, "AbortedByUser"}
    <3>1. ~Unfinished /\ (ends = 0 => heard = "none")
      BY <2>b DEF Verdicts
    <3>2. ~ReadyRead /\ ~ReplyFinished
      BY <3>1 DEF ReadyRead, ReplyFinished, Unfinished
    <3>3. \A s, l, k : ~ReplyHeaders(s, l, k)
      BY <3>1 DEF ReplyHeaders, Unfinished
    <3>4. \A c, l : ~ReplyError(c, l)
      BY <3>1 DEF ReplyError, Unfinished
    <3>5. ~Start
      BY <2>b, BoundsAssumption DEF Start, Types
    <3>6. CASE Abort
      BY <3>1, <3>6 DEF Abort, Signal, StateOfAbort, sink
    <3>7. CASE RetryTimeout
      <4>1. Execute("AbortedByUser", ends, reply)
        BY <2>b, <3>7 DEF RetryTimeout
      <4>2. ~Resent("AbortedByUser", ends)
        BY DEF Resent
      <4>3. file' = file /\ Over("AbortedByUser", ends, reply)
        BY <4>1, <4>2, ExecuteCases
      <4> QED BY <2>b, <3>1, <4>3 DEF Over, Answered
    <3> QED BY <3>2, <3>3, <3>4, <3>5, <3>6, <3>7 DEF Next
  <2> QED BY <2>a, <2>b
<1> QED BY <1>1, Inductive, PTL DEF Spec, AbortStops

\* A request that has ended ends again only by another start() or abort(),
\* unless a retry outlived it.
THEOREM EndsOnce == Spec => OneEnd
<1>1. IInv /\ [Next]_vars =>
        [ends > 0 /\ ends' > ends => aborts' = aborts + 1 \/ relimited]_vars
  <2> SUFFICES ASSUME IInv, Next, ends > 0, ends' > ends, ~relimited
               PROVE  aborts' = aborts + 1
    OBVIOUS
  <2> USE DEF IInv
  <2>1. ~Unfinished /\ ~timer /\ ends \in Nat
    BY DEF Verdicts, Types
  <2>2. ~ReadyRead /\ ~ReplyFinished /\ ~RetryTimeout
    BY <2>1 DEF ReadyRead, ReplyFinished, RetryTimeout, Unfinished
  <2>3. \A s, l, k : ~ReplyHeaders(s, l, k)
    BY <2>1 DEF ReplyHeaders, Unfinished
  <2>4. \A c, l : ~ReplyError(c, l)
    BY <2>1 DEF ReplyError, Unfinished
  <2>5. ~Start
    <3>1. Execute("Running", 0, reply) => ends' \in {0, 1}
      BY DEF Execute, Emit, Quiet
    <3> QED BY <2>1, <3>1 DEF Start
  <2>6. CASE Abort
    BY <2>6 DEF Abort
  <2> QED BY <2>2, <2>3, <2>4, <2>5, <2>6 DEF Next
<1> QED BY <1>1, Inductive, PTL DEF Spec, OneEnd

\* What a reply that is concluded with success has put in place.
InPlace ==
  \/ file' = WholeBody(reply)
  \/ reply.status = "other" /\ reply.size = 0
  \/ "AcceptLocalFiles" \in options /\ HasLocalData
  \/ redirectCount' > redirectCount

LEMMA ConcludeInPlace ==
  ASSUME IInv, NEW from, Conclude(from), heard' = "Succeeded",
         from = "Running" => Reading /\ reply.status \in {"got", "other"},
         from = "Succeeded" => "AcceptLocalFiles" \in options /\ HasLocalData
  PROVE  InPlace
<1> USE DEF IInv
<1>1. CASE reply.location = "valid"
  <2>1. redirectCount' = redirectCount + 1
    BY <1>1 DEF Conclude, Redirect, RedirectCounted
  <2> QED BY <2>1 DEF InPlace, Types
<1>2. CASE reply.location = "invalid"
  <2>1. BadLocation(from)
    BY <1>2 DEF Conclude
  <2>2. CASE ~RateLimited
    <3>1. heard' = ErrorVerdict(FALSE)
      BY <2>1, <2>2 DEF BadLocation, Signal
    <3> QED BY <3>1 DEF ErrorVerdict, InPlace
  <2>3. CASE RateLimited
    <3>1. heard' \in {from, "Failed"}
      BY <2>1, <2>3 DEF BadLocation, Signal
    <3>2. from # "Running"
      BY <2>3 DEF RateLimited
    <3> QED BY <3>1, <3>2 DEF InPlace
  <2> QED BY <2>2, <2>3
<1>3. CASE reply.location \notin {"valid", "invalid"} /\ from # "Running"
  <2>1. heard' = from
    BY <1>3 DEF Conclude, Signal
  <2> QED BY <2>1 DEF InPlace
<1>4. CASE reply.location \notin {"valid", "invalid"} /\ from = "Running"
  <2>1. Finalize
    BY <1>4 DEF Conclude
  <2>2. WriteFrom(reply.read) /\ file' = IF GotFile THEN temp' ELSE file
    BY <2>1 DEF Finalize, Emit
  <2>3. temp = Chunks(reply.read, sent)
    BY <1>4 DEF Reading
  <2>4. /\ reply.read \in 0 .. reply.size /\ reply.size \in Nat /\ sent \in Nat
        /\ WholeBody(reply) = Chunks(reply.size, sent)
        /\ temp' = temp \o Chunks(reply.size - reply.read, sent)
    BY <2>2 DEF Types, Reply, Bodies, WholeBody, Chunks, WriteFrom
  <2>5. temp' = WholeBody(reply)
    BY <2>3, <2>4, ChunksConcat
  <2>6. CASE GotFile
    BY <2>2, <2>5, <2>6 DEF InPlace
  <2>7. CASE ~GotFile
    <3>1. temp' = <<>> /\ reply.status = "other"
      BY <1>4, <2>7 DEF GotFile
    <3>2. Len(Chunks(reply.size, sent)) = reply.size
      BY <2>4, ChunksType
    <3>3. reply.size = 0
      BY <2>4, <2>5, <3>1, <3>2, EmptySeq
    <3> QED BY <3>1, <3>3 DEF InPlace
  <2> QED BY <2>6, <2>7
<1> QED BY <1>1, <1>2, <1>3, <1>4

\* A request that its reply makes succeed has its data, unless a retry outlived it.
THEOREM SuccessIsData == Spec => SuccessHasData
<1>1. IInv /\ [Next]_vars =>
        [Unfinished /\ ends' > ends /\ heard' = "Succeeded" /\ ~relimited =>
           \/ file' = WholeBody(reply)
           \/ reply.status = "other" /\ reply.size = 0
           \/ "AcceptLocalFiles" \in options /\ HasLocalData
           \/ redirectCount' > redirectCount]_vars
  <2> SUFFICES ASSUME IInv, Next, Unfinished, ends' > ends,
                      heard' = "Succeeded", ~relimited
               PROVE  InPlace
    BY DEF InPlace
  <2> USE DEF IInv
  <2>1. ends \in Nat /\ ends = 0 /\ starts > 0 /\ heard = "none"
    BY DEF Verdicts, Types
  <2>2. ~Start
    BY <2>1, BoundsAssumption DEF Start, Types
  <2>3. ~ReadyRead
    BY <2>1 DEF ReadyRead, signals
  <2>4. ~RetryTimeout
    BY <2>1 DEF RetryTimeout, Unfinished
  <2>5. \A s, l, k : ~ReplyHeaders(s, l, k)
    BY <2>1 DEF ReplyHeaders, signals
  <2>6. \A c, l : ~ReplyError(c, l)
    BY <2>1 DEF ReplyError, AutoRetry, Emit, signals
  <2>7. CASE Abort
    <3>1. Conclude("AbortedByUser")
      BY <2>7 DEF Abort, StateOfAbort
    <3> QED BY <3>1, ConcludeInPlace
  <2>8. CASE ReplyFinished
    <3>1. Conclude(state) /\ ~timer
      BY <2>1, <2>8 DEF ReplyFinished, signals
    <3>2. state = "Running" => Reading /\ reply.status \in {"got", "other"}
      BY <2>8, <3>1 DEF ReplyFinished, Verdicts, Bodies, Live
    <3>3. state = "Succeeded" => "AcceptLocalFiles" \in options /\ HasLocalData
      BY DEF LocalData
    <3> QED BY <3>1, <3>2, <3>3, ConcludeInPlace
  <2> QED BY <2>2, <2>3, <2>4, <2>5, <2>6, <2>7, <2>8 DEF Next
<1> QED BY <1>1, Inductive, PTL DEF Spec, SuccessHasData
=============================================================================
