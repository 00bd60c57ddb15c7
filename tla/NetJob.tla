------------------------------- MODULE NetJob -------------------------------
(***************************************************************************)
(* net/NetJob.cpp: the ConcurrentTask whose sub-tasks are HTTP requests.   *)
(* It overrides executeNextSubTask(), which retries what failed for up to  *)
(* three rounds, abort(), and emitFailed(), which asks the user in a       *)
(* dialog that does not block the event loop; the job is Running meanwhile.*)
(*                                                                         *)
(* A request appears here as NetRequest.tla describes it from outside: it  *)
(* ends as succeeded or failed; abort() ends it there and then, as aborted *)
(* unless its reply has a Location: one that is followed makes it end      *)
(* without a signal, one that cannot be parsed makes it fail, or succeed   *)
(* with the file that it has.                                              *)
(***************************************************************************)
EXTENDS ConcurrentTask

CONSTANTS MaxTry,        \* rounds before the job fails (3)
          ManualRetries  \* the setting NumberOfManualRetries

ASSUME TriesAssumption == MaxTry \in Nat \ {0} /\ ManualRetries \in Nat

VARIABLES
  askRetry, \* m_ask_retry
  why,      \* what the last reply of each request says about its failure
  try,      \* m_try
  manual,   \* m_manual_try
  dialogs,  \* failure dialogs that are open
  given,    \* history: every request the job was ever given
  attempts  \* history: how often each request was started

jobVars == <<askRetry, why, try, manual, dialogs, given, attempts>>
allVars == <<vars, jobVars>>

Reasons == {"none", "notFound", "offline", "other"}

JobInit ==
  /\ Init /\ kind = "Concurrent"
  /\ askRetry \in BOOLEAN
  /\ why = [t \in Task |-> "none"]
  /\ try = 1 /\ manual = 0 /\ dialogs = 0
  /\ given = {} /\ attempts = [t \in Task |-> 0]
-----------------------------------------------------------------------------
AddNetAction(t) ==
  /\ t \notin given
  /\ AddTask(t)
  /\ given' = given \cup {t}
  /\ UNCHANGED <<askRetry, why, try, manual, dialogs, attempts>>
StartJob == Start /\ UNCHANGED jobVars

NotOffline == \E t \in failed : why[t] # "offline"

AskForever == askRetry /\ NotOffline                          \* mutant
MayAsk == askRetry /\ manual < ManualRetries /\ NotOffline

\* The override of emitFailed(), with `open' dialogs open.
FailOrAsk(open) ==
  IF MayAsk
    THEN dialogs' = open + 1 /\ manual' = manual + 1 /\ Silent
    ELSE dialogs' = open /\ UNCHANGED manual /\ Emit("Failed")

EveryFailure == failed                                        \* mutant
Retriable == {t \in failed : why[t] # "notFound"}

\* m_failed is a hash: the order in which it is walked is arbitrary.
Orders(S) == {q \in [1 .. Cardinality(S) -> S] : IsInjective(q)}

StartHeadOf(q, rest) ==
  /\ queue' = Tail(q)
  /\ doing' = doing \cup {Head(q)}
  /\ link' = [link EXCEPT ![Head(q)] = "all"]
  /\ events' = Append(rest, Head(q))
  /\ Silent
  /\ UNCHANGED <<succeeded, subState>>

LastRoundToo(round) == round <= MaxTry                        \* mutant
RoundLeft(round) == round < MaxTry

StaleFailures == UNCHANGED failed                             \* mutant
FailuresRetried == failed' = failed \ Retriable

\* executeNextSubTask() entered with m_try = round, the events `rest' left to
\* deliver and `open' dialogs open.
ExecuteNext(round, rest, open) ==
  IF AllDone /\ failed # {} /\ RoundLeft(round)
    THEN /\ try' = round + 1
         /\ IF Retriable = {}
              THEN FailOrAsk(open) /\ events' = rest /\ UNCHANGED <<pool, subs>>
              ELSE /\ \E q \in Orders(Retriable) : StartHeadOf(q, rest)
                   /\ FailuresRetried
                   /\ done' = done \ Retriable
                   /\ dialogs' = open /\ UNCHANGED manual
    ELSE /\ try' = round
         /\ IF MayStartNext
              THEN /\ StartHeadOf(queue, rest)
                   /\ dialogs' = open /\ UNCHANGED <<failed, done, manual>>
              ELSE /\ events' = rest /\ UNCHANGED <<pool, subs>>
                   /\ IF AllDone /\ failed # {} THEN FailOrAsk(open)
                      ELSE /\ IF AllDone THEN Emit("Succeeded") ELSE Silent
                           /\ dialogs' = open /\ UNCHANGED manual

JobDeliverNext ==
  /\ Alive
  /\ events # <<>> /\ Head(events) = NextEvent
  /\ ExecuteNext(try, Tail(events), dialogs)
  /\ UNCHANGED <<kind, dropped, fault, starts, aborts, askRetry, why, given, attempts>>

JobDeliverStart(t) ==
  /\ DeliverStart(t)
  /\ attempts' = [attempts EXCEPT ![t] = @ + 1]
  /\ UNCHANGED <<askRetry, why, try, manual, dialogs, given>>

DialogRetry ==
  /\ Alive
  /\ dialogs > 0
  /\ ExecuteNext(0, events, dialogs - 1)
  /\ UNCHANGED <<kind, dropped, fault, starts, aborts, askRetry, why, given, attempts>>

DialogDismiss ==
  /\ Alive
  /\ dialogs > 0
  /\ dialogs' = dialogs - 1
  /\ Emit("Failed")
  /\ UNCHANGED <<kind, pool, subs, events, dropped, fault, starts, aborts,
                 askRetry, why, try, manual, given, attempts>>
-----------------------------------------------------------------------------
RequestEnds(t, outcome, reason) ==
  /\ outcome = "Succeeded" <=> reason = "none"
  /\ SubTaskEnds(t, outcome)
  /\ why' = [why EXCEPT ![t] = reason]
  /\ UNCHANGED <<askRetry, try, manual, dialogs, given, attempts>>

QueueForgotten == failed                                      \* mutant
QueueFailed == failed \cup Range(queue)

\* With nothing in m_doing, abort() answers true and leaves m_state alone.
JobAbortIdle ==
  /\ Alive
  /\ aborts < MaxAborts
  /\ doing = {}
  /\ aborts' = aborts + 1
  /\ failed' = QueueFailed
  /\ queue' = <<>>
  /\ UNCHANGED <<kind, state, doing, done, succeeded, subs, events, dropped,
                 ends, misfired, fault, starts, jobVars>>

\* Each request answers as it can, and those that signal an end are listened to.
\* The loop is over a copy of m_doing.
Answers == {"AbortedByUser", "Failed", "Succeeded", "mute"}
JobAbortDoing(answer, reason) ==
  LET Answering(a) == {t \in doing : answer[t] = a}
      ended == doing \ Answering("mute")
  IN
  /\ Alive
  /\ aborts < MaxAborts
  /\ doing # {}
  /\ \A t \in doing \ Answering("AbortedByUser") : subState[t] = "Running"
  /\ aborts' = aborts + 1
  /\ queue' = <<>>
  /\ doing' = Answering("mute")
  /\ done' = done \cup ended
  /\ succeeded' = succeeded \cup Answering("Succeeded")
  /\ failed' = QueueFailed \cup (ended \ Answering("Succeeded"))
  /\ subState' = [t \in Task |-> IF t \notin doing THEN subState[t]
                                 ELSE IF answer[t] = "mute" THEN "AbortedByUser" ELSE answer[t]]
  /\ why' = [t \in Task |-> IF t \in Answering("Failed") THEN reason ELSE why[t]]
  /\ link' = [t \in Task |-> IF t \in ended THEN "none" ELSE link[t]]
  /\ events' = events \o [i \in 1 .. Cardinality(ended) |-> NextEvent]
  /\ Emit("AbortedByUser")
  /\ UNCHANGED <<kind, dropped, fault, starts, askRetry, try, manual, dialogs, given,
                 attempts>>

JobAbort ==
  \/ JobAbortIdle
  \/ \E answer \in [doing -> Answers], reason \in Reasons \ {"none"} :
       JobAbortDoing(answer, reason)
-----------------------------------------------------------------------------
JobDeliver == JobDeliverNext \/ \E t \in Task : JobDeliverStart(t)
SomeEnd(t) ==
  \E o \in {"Succeeded", "Failed"}, r \in Reasons : RequestEnds(t, o, r)

JobNext ==
  \/ StartJob \/ JobAbort \/ JobDeliver \/ DialogRetry \/ DialogDismiss
  \/ \E t \in Task : AddNetAction(t) \/ SomeEnd(t)

JobSpec == JobInit /\ [][JobNext]_allVars
\* As for any container; the user need not answer a dialog.
JobFairSpec ==
  JobSpec /\ WF_allVars(JobDeliver) /\ \A t \in Task : WF_allVars(SomeEnd(t))
-----------------------------------------------------------------------------
JobTypeOK ==
  /\ TypeOK
  /\ askRetry \in BOOLEAN /\ why \in [Task -> Reasons]
  /\ try \in 0 .. MaxTry /\ manual \in 0 .. ManualRetries
  /\ dialogs \in 0 .. manual /\ given \subseteq Task
  /\ attempts \in [Task -> Nat]

\* A retry takes a request out of the books of the last round: no request is
\* queued twice, or queued while it is also done, being done, or counted as
\* failed; only abort() makes a request failed that was never done.
JobBooks ==
  /\ IsInjective(queue)
  /\ Range(queue) \cap (doing \cup done \cup failed) = {}
  /\ doing \cap (done \cup failed) = {}
  /\ failed \cap succeeded = {}
  /\ done \subseteq failed \cup succeeded
  /\ failed \cup succeeded # done => aborts > 0

\* "retry if we can (up to 3 times)": no request is started more often than
\* the rounds the job and the user's answers allow, however the posted events
\* of one round and the next are interleaved.
AttemptsBounded ==
  \A t \in Task : attempts[t] <= MaxTry * (1 + manual)

\* A request that was answered with 404 is not started again.
NotFoundIsFinal ==
  [][\A t \in Task : t \in failed /\ why[t] = "notFound" =>
       t \in failed' /\ t \notin doing']_allVars

\* A job succeeds only with every request it was ever given: also those that
\* were in the queue when abort() came too early to stop the job.
AllDownloaded ==
  [][state = "Running" /\ state' = "Succeeded" =>
       \A t \in given : subState[t] = "Succeeded"]_allVars

\* A started job ends, or waits for the user.
JobFinishes == state = "Running" ~> (state # "Running" \/ dialogs > 0)

\* "no downloads to abort, NetJob is not running" (NetJob.cpp): what abort()
\* says of a job with nothing in m_doing.
IdleIsNotRunning == [][JobAbortIdle => state # "Running"]_allVars
=============================================================================
