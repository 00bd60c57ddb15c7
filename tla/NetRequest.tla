----------------------------- MODULE NetRequest -----------------------------
(***************************************************************************)
(* net/Request.cpp downloading into net/FileSink.cpp: one HTTP request     *)
(* with its redirects and rate-limit retries, and the save file that       *)
(* becomes the target file when it is committed.                           *)
(*                                                                         *)
(* The reply object belongs to the network library: it reports headers,    *)
(* data, possibly an error, and then that it finished, each as an event of *)
(* its own; aborting an unfinished reply finishes it inside the call.  A   *)
(* body is a number of chunks, and a file is the sequence of its chunks,   *)
(* each known by the serial number of the reply it came from.              *)
(***************************************************************************)
EXTENDS Naturals, Sequences

CONSTANTS RedirectLimit, \* m_redirectCount may not exceed it (10)
          RetryLimit,    \* m_retryCount may not exceed it (4)
          MaxChunks,     \* bound: chunks of a body
          MaxStarts,     \* bound: how often the owner calls start()
          MaxAborts      \* bound: how often the owner calls abort()

ASSUME LimitsAssumption == RedirectLimit \in Nat /\ RetryLimit \in Nat
ASSUME BoundsAssumption ==
  MaxChunks \in Nat /\ MaxStarts \in Nat /\ MaxAborts \in Nat

VARIABLES
  options,       \* m_options: the two that matter here
  state,         \* m_state
  reply,         \* m_reply, as far as the handlers look at it
  save,          \* m_outputFile: null, open, or unable to commit
  temp,          \* what was written to it (m_wroteAnyData: it is not empty)
  file,          \* the target file; empty and missing are alike
  timer,         \* m_retryTimer.isActive()
  retryCount,    \* m_retryCount
  redirectCount, \* m_redirectCount
  sent,          \* history: requests handed to the network
  heard,         \* history: the last outcome signalled since start()
  ends,          \* history: finished() signals since start()
  misfired,      \* history: an emit...() was called while not running
  revived,       \* history: a redirect or a retry came after the verdict
  relimited,     \* history: a retry was arranged together with an end
  fault,         \* the sink used its null save file
  starts, aborts \* history: calls of start() and abort()

sink == <<save, temp, file>>
counts == <<retryCount, redirectCount>>
signals == <<heard, ends, misfired>>
calls == <<starts, aborts>>
vars == <<options, state, reply, sink, timer, counts, sent, signals, revived,
          relimited, fault, calls>>

States == {"Inactive", "Running", "Succeeded", "Failed", "AbortedByUser"}
Outcomes == {"Succeeded", "Failed", "AbortedByUser"}

\* "got" is 200 or 203, "other" any other status that is not an error.
Statuses == {"none", "got", "other", "tooMany", "error"}
Phases == {"none", "sent", "open", "errored", "finished"}
Locations == {"none", "valid", "invalid"}

NoReply == [phase |-> "none", status |-> "none", location |-> "none",
            size |-> 0, read |-> 0]
FreshReply == [NoReply EXCEPT !.phase = "sent"]

Init ==
  /\ options \in SUBSET {"AcceptLocalFiles", "AutoRetry"}
  /\ state = "Inactive" /\ reply = NoReply
  /\ save = "null" /\ temp = <<>> /\ file \in {<<>>, <<0>>}
  /\ timer = FALSE /\ retryCount = 0 /\ redirectCount = 0 /\ sent = 0
  /\ heard = "none" /\ ends = 0 /\ misfired = FALSE /\ revived = FALSE
  /\ relimited = FALSE /\ fault = FALSE /\ starts = 0 /\ aborts = 0
-----------------------------------------------------------------------------
(* The handlers call each other and assign m_state on the way, so that the *)
(* operators below take the m_state, and the count of finished() signals,  *)
(* with which their function is entered.                                   *)

NotSignalled(outcome, from) == state' = from /\ UNCHANGED signals  \* mutant
\* A finished() signal that is emitted without asking m_state.
Signal(outcome, from) ==
  /\ state' = from /\ heard' = outcome /\ ends' = ends + 1 /\ UNCHANGED misfired

EmitAnyway(outcome, from, n) ==                               \* mutant
  /\ state' = outcome /\ heard' = outcome /\ ends' = n + 1
  /\ misfired' = (misfired \/ from # "Running")
\* Task::emitSucceeded, emitFailed and emitAborted.
Emit(outcome, from, n) ==
  IF from = "Running"
    THEN /\ state' = outcome /\ heard' = outcome /\ ends' = n + 1
         /\ UNCHANGED misfired
    ELSE /\ state' = from /\ ends' = n /\ misfired' = TRUE
         /\ heard' = IF n = 0 THEN "none" ELSE heard

Quiet(from, n) ==
  /\ state' = from /\ ends' = n /\ UNCHANGED misfired
  /\ heard' = IF n = 0 THEN "none" ELSE heard

SinkAbort == save' = (IF save = "null" THEN save ELSE "shut") /\ UNCHANGED <<temp, file>>

KeepsOldData == save' = "open" /\ UNCHANGED <<temp, file>>    \* mutant
SinkInit == save' = "open" /\ temp' = <<>> /\ UNCHANGED file

AbortedToo(from) == FALSE                                     \* mutant
MayNotStart(from) == from = "AbortedByUser"

\* executeTask(): refused after an abort; ended by the sink (a fresh cache
\* entry, a file that cannot be opened) or by the body of the request, and then
\* m_reply is left as it is; or sent.
Execute(from, n, left) ==
  \/ /\ MayNotStart(from)
     /\ Emit("AbortedByUser", from, n)
     /\ UNCHANGED <<sink, sent>>
     /\ reply' = left
  \/ /\ ~MayNotStart(from)
     /\ \/ Emit("Succeeded", from, n) /\ UNCHANGED sink
        \/ /\ Emit("Failed", from, n)
           /\ \/ UNCHANGED sink
              \/ save' = "shut" /\ temp' = <<>> /\ UNCHANGED file
              \/ SinkInit
     /\ UNCHANGED sent
     /\ reply' = left
  \/ /\ ~MayNotStart(from)
     /\ Quiet(from, n)
     /\ SinkInit
     /\ sent' = sent + 1
     /\ reply' = FreshReply

\* The owner starts a new request, or one whose end it was told of.  A timer
\* that still runs is not stopped.
Start ==
  /\ state # "Running"
  /\ starts = 0 \/ ends > 0
  /\ starts < MaxStarts
  /\ starts' = starts + 1
  /\ revived' = FALSE
  /\ Execute("Running", 0, reply)
  /\ UNCHANGED <<options, timer, counts, relimited, fault, aborts>>
-----------------------------------------------------------------------------
ReplyHeaders(status, location, size) ==
  /\ reply.phase = "sent"
  /\ reply' = [phase |-> "open", status |-> status, location |-> location,
               size |-> size, read |-> 0]
  /\ UNCHANGED <<options, state, sink, timer, counts, sent, signals, revived,
                 relimited, fault, calls>>

\* FileSink::write of the chunks from the k-th on; a failure loses the file.
WriteFrom(k) == temp' = temp \o [i \in 1 .. reply.size - k |-> sent]
WriteLost == save' = "null" /\ temp' = <<>>

AnyState == TRUE                                              \* mutant
MayRead == state = "Running"

\* downloadReadyRead() for the next chunk.
ReadyRead ==
  /\ reply.phase = "open"
  /\ reply.read < reply.size
  /\ MayRead
  /\ reply' = [reply EXCEPT !.read = @ + 1]
  /\ fault' = (fault \/ save = "null")
  /\ \/ /\ save = "open" /\ temp' = Append(temp, sent)
        /\ UNCHANGED <<state, save>>
     \/ WriteLost /\ state' = "Failed"
  /\ UNCHANGED <<options, file, timer, counts, sent, signals, revived, relimited,
                 calls>>

HasLocalData == file # <<>>

RetryForever(long) == TRUE                                    \* mutant
MayRetry(long) == ~long /\ retryCount + 1 <= RetryLimit

\* downloadError() but for the rate limit: the verdict it leaves in m_state.
\* A transfer timeout cancels the operation.
ErrorVerdict(cancelled) ==
  IF ~cancelled /\ "AcceptLocalFiles" \in options /\ HasLocalData
    THEN "Succeeded" ELSE "Failed"

\* handleAutoRetry(): the failure it emits comes too late, m_state is Failed.
AutoRetry(long) ==
  /\ retryCount' = retryCount + 1
  /\ IF MayRetry(long)
       THEN timer' = TRUE /\ UNCHANGED <<state, signals>>
       ELSE Emit("Failed", "Failed", ends) /\ UNCHANGED timer

RateLimited == reply.status = "tooMany" /\ "AutoRetry" \in options

ReplyError(cancelled, long) ==
  /\ reply.phase \in {"sent", "open"}
  /\ reply' = [reply EXCEPT !.phase = "errored"]
  /\ IF ~cancelled /\ RateLimited
       THEN AutoRetry(long)
       ELSE /\ state' = ErrorVerdict(cancelled)
            /\ UNCHANGED <<timer, retryCount, signals>>
  /\ UNCHANGED <<options, sink, redirectCount, sent, revived, relimited, fault,
                 calls>>
-----------------------------------------------------------------------------
Ended == reply' = [reply EXCEPT !.phase = "finished"]

RedirectUncounted == UNCHANGED redirectCount                  \* mutant
RedirectCounted == redirectCount' = redirectCount + 1

\* handleRedirect() with a usable Location header.
Redirect(from) ==
  /\ RedirectCounted
  /\ IF redirectCount + 1 > RedirectLimit
       THEN SinkAbort /\ Emit("Failed", from, ends) /\ Ended /\ UNCHANGED sent
       ELSE Execute(from, ends, [reply EXCEPT !.phase = "finished"])
  /\ revived' = (revived \/ from # "Running")
  /\ UNCHANGED fault

EmptyIsNothing == temp' # <<>>                                \* mutant
GotFile == reply.status = "got" \/ temp' # <<>>

\* What is left of the body is written, then FileSink::finalize(): validators,
\* then commit.  Anything can fail, and then the request does.
Finalize ==
  \/ /\ save = "open"
     /\ WriteFrom(reply.read)
     /\ file' = IF GotFile THEN temp' ELSE file
     /\ save' = "null"
     /\ Emit("Succeeded", "Running", ends)
     /\ UNCHANGED fault
  \/ /\ fault' = (fault \/ save = "null")
     /\ \/ WriteFrom(reply.read) /\ save' = "shut"
        \/ reply.read < reply.size /\ WriteLost
     /\ UNCHANGED file
     /\ Emit("Failed", "Running", ends)

\* handleRedirect() reports a Location that it cannot parse as an error.  A
\* rate-limited reply is handled once more for it: a retry may be arranged
\* although the end is signalled right away, from is never "Running" here.
BadLocation(from) ==
  /\ Ended /\ SinkAbort
  /\ UNCHANGED <<redirectCount, sent, revived, fault>>
  /\ \/ /\ ~RateLimited
        /\ Signal(ErrorVerdict(FALSE), ErrorVerdict(FALSE))
        /\ timer' = FALSE
        /\ UNCHANGED <<retryCount, relimited>>
     \/ /\ RateLimited
        /\ retryCount' = retryCount + 1
        /\ \E long \in BOOLEAN :
             IF MayRetry(long)
               THEN timer' = TRUE /\ relimited' = TRUE /\ Signal(from, from)
               ELSE /\ timer' = FALSE /\ UNCHANGED relimited
                    /\ state' = "Failed" /\ heard' = "Failed" /\ ends' = ends + 1
                    /\ misfired' = TRUE

\* downloadFinished() once it is not waiting for a retry.
Conclude(from) ==
  IF reply.location = "invalid" THEN BadLocation(from)
  ELSE /\ timer' = FALSE
       /\ UNCHANGED <<retryCount, relimited>>
       /\ IF reply.location = "valid" THEN Redirect(from)
          ELSE /\ Ended
               /\ UNCHANGED <<redirectCount, sent, revived>>
               /\ IF from = "Running" THEN Finalize
                  ELSE Signal(from, from) /\ SinkAbort /\ UNCHANGED fault

ReplyFinished ==
  /\ \/ reply.phase = "errored"
     \/ reply.phase = "open" /\ reply.status \in {"got", "other"}
  /\ IF timer
       THEN /\ Ended
            /\ UNCHANGED <<state, sink, timer, counts, sent, signals, revived,
                           relimited, fault>>
       ELSE Conclude(state)
  /\ UNCHANGED <<options, calls>>

\* m_retryTimer runs for a second at least, the reply that arranged the retry
\* finishes before.  A timer that outlived its request fires at any time.
RetryTimeout ==
  /\ timer
  /\ reply.phase = "finished" \/ relimited
  /\ timer' = FALSE
  /\ Execute(state, ends, reply)
  /\ revived' = (revived \/ state # "Running")
  /\ UNCHANGED <<options, counts, relimited, fault, calls>>

Unfinished == reply.phase \in {"sent", "open", "errored"}

AbortKeepsState == state                                      \* mutant
StateOfAbort == "AbortedByUser"

\* The timer is stopped before the reply is.
Abort ==
  /\ aborts < MaxAborts
  /\ aborts' = aborts + 1
  /\ IF Unfinished
       THEN Conclude(StateOfAbort)
       ELSE /\ Signal("AbortedByUser", StateOfAbort)
            /\ timer' = FALSE
            /\ UNCHANGED <<reply, sink, counts, sent, revived, relimited, fault>>
  /\ UNCHANGED <<options, starts>>
-----------------------------------------------------------------------------
Next ==
  \/ Start \/ ReadyRead \/ ReplyFinished \/ RetryTimeout \/ Abort
  \/ \E s \in Statuses \ {"none"}, l \in Locations, k \in 0 .. MaxChunks :
       ReplyHeaders(s, l, k)
  \/ \E cancelled, long \in BOOLEAN : ReplyError(cancelled, long)

\* A transfer timeout is set on every request, and timers fire.
ReplyEnds ==
  ReplyFinished \/ \E cancelled, long \in BOOLEAN : ReplyError(cancelled, long)

Spec == Init /\ [][Next]_vars
FairSpec == Spec /\ WF_vars(ReplyEnds) /\ WF_vars(RetryTimeout)
-----------------------------------------------------------------------------
\* The types, and how far the two counters go over the life of an object:
\* each reply counts one redirect at most, and two retries.
Most == RedirectLimit + RetryLimit + MaxStarts
TypeOK ==
  /\ options \subseteq {"AcceptLocalFiles", "AutoRetry"}
  /\ state \in States
  /\ reply \in [phase : Phases, status : Statuses, location : Locations,
                size : Nat, read : Nat]
  /\ save \in {"null", "open", "shut"}
  /\ temp \in Seq(Nat) /\ file \in Seq(Nat)
  /\ timer \in BOOLEAN /\ sent \in Nat
  /\ redirectCount \in 0 .. Most
  /\ retryCount \in 0 .. 2 * Most
  /\ heard \in Outcomes \cup {"none"} /\ ends \in Nat
  /\ misfired \in BOOLEAN /\ revived \in BOOLEAN /\ relimited \in BOOLEAN
  /\ fault \in BOOLEAN
  /\ starts \in 0 .. MaxStarts /\ aborts \in 0 .. MaxAborts

\* The number of requests one object sends is limited over its whole life:
\* neither counter is ever reset, whatever redirects, rate limits and
\* restarts do together.
BoundedTraffic == sent <= starts + RedirectLimit + RetryLimit

\* The target file changes only to the whole body of one reply that ended
\* without an error: never to a part, and never to the pieces of two replies
\* when a redirect or a retry replaced the first.
WholeBody(r) == [i \in 1 .. r.size |-> sent]
CommitIsWhole ==
  [][file' # file => /\ reply.phase = "open"
                     /\ reply.status \in {"got", "other"}
                     /\ file' = WholeBody(reply)]_vars

\* A request that a reply makes succeed has its data in place: the body, the
\* file it had if the server sent none, or the local file it may accept.
\* Except once a retry outlived its request: a rate-limited reply whose
\* Location cannot be parsed both ends it and starts the timer, also in abort().
SuccessHasData ==
  [][Unfinished /\ ends' > ends /\ heard' = "Succeeded" /\ ~relimited =>
       \/ file' = WholeBody(reply)
       \/ reply.status = "other" /\ reply.size = 0
       \/ "AcceptLocalFiles" \in options /\ HasLocalData
       \/ redirectCount' > redirectCount]_vars

\* abort() sends nothing and writes nothing, leaves no reply unfinished, and
\* the owner hears that it aborted - except that a reply with a Location, which
\* finishes inside the call, is concluded first: one that is followed swallows
\* the answer, one that cannot be parsed lets downloadError() decide it (a
\* local file then makes even an aborted request succeed).  Until the next
\* start() the request that is left aborted stays aborted, sends and writes
\* nothing, and signals nothing else.
AbortStops ==
  [][/\ aborts' > aborts =>
          /\ sent' = sent /\ file' = file /\ ~Unfinished'
          /\ (Unfinished => reply.location = "none")
             => state' = "AbortedByUser" /\ heard' = state' /\ ends' = ends + 1
     /\ state = "AbortedByUser" /\ starts' = starts =>
          /\ sent' = sent /\ file' = file
          /\ state' = "AbortedByUser" /\ heard' \in {heard, "AbortedByUser"}]_vars

\* Who looks at getState() and who listens to the signals learns the same,
\* unless a retry outlived its request.
HeardIsState == ends > 0 /\ ~relimited => state = heard

\* After its end a request is ended again only by another abort() or start(),
\* unless a retry outlived it.
OneEnd == [][ends > 0 /\ ends' > ends => aborts' = aborts + 1 \/ relimited]_vars

\* The sink never touches the save file that a failed write has reset.
NoNullSaveFile == ~fault

\* Every start is answered by an end, unless a redirect or a retry came after
\* the verdict (a failed write, a refused redirect, an abort) was in m_state.
Settles == state = "Running" ~> (ends > 0 \/ revived)

\* "Don't fail twice." (Task.cpp:121): the emit functions are for a running task.
NoMisfire == ~misfired
=============================================================================
