--------------------------- MODULE ConcurrentTask ---------------------------
(***************************************************************************)
(* tasks/ConcurrentTask.cpp with its base class tasks/Task.cpp and its two *)
(* direct specialisations, SequentialTask and MultipleOptionsTask.         *)
(*                                                                         *)
(* Everything runs on the thread of the event loop.  Calls that the code   *)
(* makes with Qt::QueuedConnection are entries of `events', the posted     *)
(* event list, which the loop delivers in order; calls by the owner of the *)
(* container (addTask, start, abort, clear) and the end of a running       *)
(* sub-task (a timer, a socket) can come between any two deliveries.       *)
(* A signal/slot call is direct, hence part of the step that emits it.     *)
(***************************************************************************)
EXTENDS Naturals, Sequences, FiniteSets, Functions

CONSTANTS Task,          \* the sub-task objects
          NextEvent,     \* a posted call of executeNextSubTask()
          MaxConcurrent, \* m_total_max_size of a plain ConcurrentTask
          MaxStarts,     \* bound: how often the owner calls start()
          MaxAborts      \* bound: how often the owner calls abort()

ASSUME TaskAssumption == IsFiniteSet(Task) /\ NextEvent \notin Task
ASSUME MaxConcurrentAssumption == MaxConcurrent \in Nat \ {0}
ASSUME BoundsAssumption == MaxStarts \in Nat /\ MaxAborts \in Nat

VARIABLES
  kind,      \* the dynamic class of the container
  state,     \* m_state of the container
  queue,     \* m_queue
  doing,     \* m_doing; m_task_progress always has the same keys
  done,      \* m_done
  failed,    \* m_failed
  succeeded, \* m_succeeded
  subState,  \* m_state of each sub-task
  link,      \* which signals of each sub-task the container listens to
  events,    \* the posted events: NextEvent, or t for a call of t->start()
  dropped,   \* history: tasks forgotten by abort() or clear()
  ends,      \* history: finished() signals since the last start()
  misfired,  \* history: an emit...() was called while not running
  fault,     \* a slot ran for a task without a progress record (null pointer)
  starts,    \* history: calls of start()
  aborts     \* history: calls of abort()

pool == <<queue, doing, done, failed, succeeded>>
subs == <<subState, link>>
vars == <<kind, state, pool, subs, events, dropped, ends, misfired, fault,
          starts, aborts>>

States == {"Inactive", "Running", "Succeeded", "Failed", "AbortedByUser"}
Outcomes == {"Succeeded", "Failed", "AbortedByUser"}
Kinds == {"Concurrent", "Sequential", "MultipleOptions"}
Links == {"none", "all", "notAborted"}

\* The constructors of the two specialisations pass 1 as max_concurrent.
Limit == IF kind = "Concurrent" THEN MaxConcurrent ELSE 1

Tracked == Range(queue) \cup doing \cup done \cup dropped

Init ==
  /\ kind \in Kinds
  /\ state = "Inactive"
  /\ queue = <<>> /\ doing = {} /\ done = {} /\ failed = {} /\ succeeded = {}
  /\ subState = [t \in Task |-> "Inactive"]
  /\ link = [t \in Task |-> "none"]
  /\ events = <<>>
  /\ dropped = {}
  /\ ends = 0 /\ misfired = FALSE /\ fault = FALSE /\ starts = 0 /\ aborts = 0
-----------------------------------------------------------------------------
(* Task::emitSucceeded, emitFailed, emitAborted: silent unless running.    *)
Emit(outcome) ==
  /\ state' = IF state = "Running" THEN outcome ELSE state
  /\ ends' = IF state = "Running" THEN ends + 1 ELSE ends
  /\ misfired' = (misfired \/ state # "Running")

Silent == UNCHANGED <<state, ends, misfired>>

\* After a null-pointer access the program is gone.
Alive == ~fault

(* The owner's calls. A container is filled and started when it is new or  *)
(* was cleared; tasks may also be added while it runs.  The owners that    *)
(* use a container again (ResourceModel::runInfoJob, the resolver of       *)
(* ResourceFolderModel) call clear() first, and theirs are plain ones.     *)
Fresh == doing = {} /\ done = {} /\ (starts = 0 \/ kind = "Concurrent")

AddTask(t) ==
  /\ Alive
  /\ t \notin Tracked
  /\ state = "Running" \/ Fresh
  /\ queue' = Append(queue, t)
  /\ Silent
  /\ UNCHANGED <<kind, doing, done, failed, succeeded, subs, events, dropped,
                 fault, starts, aborts>>

OneFewer == [i \in 1 .. Limit - 1 |-> NextEvent]  \* mutant
FirstEvents == [i \in 1 .. Limit |-> NextEvent]

\* Task::start and the executeTask of the container.
Start ==
  /\ Alive
  /\ state # "Running"
  /\ Fresh
  /\ starts < MaxStarts
  /\ starts' = starts + 1
  /\ state' = "Running"
  /\ ends' = 0
  /\ events' = events \o FirstEvents
  /\ UNCHANGED <<kind, pool, subs, dropped, misfired, fault, aborts>>

\* Nothing is disconnected, and posted events stay posted.
Clear ==
  /\ Alive
  /\ state # "Running"
  /\ kind = "Concurrent"
  /\ queue' = <<>> /\ doing' = {} /\ done' = {} /\ failed' = {} /\ succeeded' = {}
  /\ dropped' = Tracked
  /\ Tracked # dropped
  /\ Silent
  /\ UNCHANGED <<kind, subs, events, fault, starts, aborts>>
-----------------------------------------------------------------------------
(* The base executeNextSubTask, which has consumed one posted event.       *)
StartSubTask(t) ==
  /\ queue' = Tail(queue)
  /\ doing' = doing \cup {t}
  /\ link' = [link EXCEPT ![t] = "all"]
  /\ events' = Append(Tail(events), t)
  /\ Silent
  /\ UNCHANGED <<done, failed, succeeded, subState>>

NextWithoutLimit == state = "Running" /\ queue # <<>>   \* mutant
MayStartNext ==
  state = "Running" /\ Cardinality(doing) < Limit /\ queue # <<>>

DoneWhateverState == queue = <<>> /\ doing = {}         \* mutant
DoneWhileDoing == state = "Running" /\ queue = <<>>     \* mutant
AllDone == state = "Running" /\ queue = <<>> /\ doing = {}

VerdictForgetsFailures == "Succeeded"                   \* mutant
Verdict == IF failed = {} THEN "Succeeded" ELSE "Failed"

ExecuteNextSubTask ==
  IF MayStartNext
    THEN StartSubTask(Head(queue))
    ELSE /\ IF AllDone THEN Emit(Verdict) ELSE Silent
         /\ events' = Tail(events)
         /\ UNCHANGED <<pool, subs>>

\* MultipleOptionsTask's override has no test of isRunning().  failed is a
\* subset of done, so the sizes differ exactly when the sets do.
ExecuteNextOption ==
  IF done = failed /\ queue # <<>>
    THEN ExecuteNextSubTask
    ELSE /\ Emit(IF done # failed THEN "Succeeded" ELSE "Failed")
         /\ events' = Tail(events)
         /\ UNCHANGED <<pool, subs>>

DeliverNext ==
  /\ Alive
  /\ events # <<>> /\ Head(events) = NextEvent
  /\ IF kind = "MultipleOptions" THEN ExecuteNextOption ELSE ExecuteNextSubTask
  /\ UNCHANGED <<kind, dropped, fault, starts, aborts>>

\* Task::start of a sub-task, whatever became of its container meanwhile.
DeliverStart(t) ==
  /\ Alive
  /\ events # <<>> /\ Head(events) = t
  /\ subState' = [subState EXCEPT ![t] = "Running"]
  /\ events' = Tail(events)
  /\ Silent
  /\ UNCHANGED <<kind, pool, link, dropped, fault, starts, aborts>>
-----------------------------------------------------------------------------
(* A running sub-task ends; the connected slots run in the same step.      *)
Heard(t, outcome) ==
  \/ link[t] = "all"
  \/ link[t] = "notAborted" /\ outcome # "AbortedByUser"

NothingPosted == events                         \* mutant
EventsAfterFinish == Append(events, NextEvent)

AbortedIsGood(outcome) == outcome # "Failed"    \* mutant
Good(outcome) == outcome = "Succeeded"

\* subTaskFinished(), and SequentialTask's emitFailed() after a failure.
SubTaskFinished(t, outcome) ==
  /\ done' = done \cup {t}
  /\ succeeded' = IF Good(outcome) THEN succeeded \cup {t} ELSE succeeded
  /\ failed' = IF Good(outcome) THEN failed ELSE failed \cup {t}
  /\ doing' = doing \ {t}
  /\ link' = [link EXCEPT ![t] = "none"]
  /\ events' = EventsAfterFinish
  /\ IF kind = "Sequential" /\ ~Good(outcome) THEN Emit("Failed") ELSE Silent

SubTaskEnds(t, outcome) ==
  /\ Alive
  /\ subState[t] = "Running"
  /\ subState' = [subState EXCEPT ![t] = outcome]
  /\ IF Heard(t, outcome) /\ t \in doing
       THEN SubTaskFinished(t, outcome) /\ UNCHANGED fault
       ELSE /\ fault' = Heard(t, outcome)
            /\ Silent
            /\ UNCHANGED <<doing, done, failed, succeeded, link, events>>
  /\ UNCHANGED <<kind, queue, dropped, starts, aborts>>
-----------------------------------------------------------------------------
(* abort().  With nothing in m_doing it emits aborted() and finished() and *)
(* leaves m_state alone.                                                   *)
AbortIdle ==
  /\ Alive
  /\ aborts < MaxAborts
  /\ doing = {}
  /\ aborts' = aborts + 1
  /\ dropped' = dropped \cup Range(queue)
  /\ queue' = <<>>
  /\ ends' = ends + 1
  /\ UNCHANGED <<kind, state, doing, done, failed, succeeded, subs, events,
                 misfired, fault, starts>>

\* What abort() of one sub-task does: ends it; answers true and leaves it as
\* it is (it has not started, or is itself an idle container); answers false
\* and leaves it as it is; or fails it there and then (a nested container
\* that could not stop a task of its own), which takes it out of m_doing under
\* the iterator, so that the loop may miss others.
Replies == {"ended", "ignored", "refused", "failed", "missed"}

ReplyPossible(t, reply) ==
  reply \in {"ended", "failed"} => subState[t] = "Running"

AbortDoing(reply) ==
  LET ending  == {t \in doing : reply[t] = "ended"}
      failing == {t \in doing : reply[t] = "failed"}
      allOk   == \A t \in doing : reply[t] \in {"ended", "ignored", "missed"}
  IN /\ Alive
     /\ aborts < MaxAborts
     /\ doing # {}
     /\ \A t \in doing : ReplyPossible(t, reply[t])
     /\ (\E t \in doing : reply[t] = "missed") => failing # {}
     /\ aborts' = aborts + 1
     /\ dropped' = dropped \cup Range(queue)
     /\ queue' = <<>>
     /\ subState' = [t \in Task |-> IF t \in ending THEN "AbortedByUser"
                                    ELSE IF t \in failing THEN "Failed"
                                    ELSE subState[t]]
     /\ link' = [t \in Task |-> IF t \in failing THEN "none"
                                ELSE IF t \in doing /\ reply[t] # "missed" THEN "notAborted"
                                ELSE link[t]]
     /\ doing' = doing \ failing
     /\ done' = done \cup failing
     /\ failed' = failed \cup failing
     /\ events' = events \o [i \in 1 .. Cardinality(failing) |-> NextEvent]
     /\ state' = IF state # "Running" THEN state
                 ELSE IF allOk THEN "AbortedByUser" ELSE "Failed"
     /\ ends' = IF state = "Running" THEN ends + 1 ELSE ends
     /\ misfired' = \/ misfired
                    \/ state # "Running"
                    \/ kind = "Sequential" /\ failing # {}
     /\ UNCHANGED <<kind, succeeded, fault, starts>>

Abort == AbortIdle \/ \E reply \in [doing -> Replies] : AbortDoing(reply)
-----------------------------------------------------------------------------
Deliver == DeliverNext \/ \E t \in Task : DeliverStart(t)

Next ==
  \/ Start \/ Clear \/ Abort \/ Deliver
  \/ \E t \in Task : AddTask(t) \/ \E o \in Outcomes : SubTaskEnds(t, o)

\* The event loop delivers what was posted, and every sub-task that was
\* started ends; nothing obliges the owner to do anything.
Fairness ==
  /\ WF_vars(Deliver)
  /\ \A t \in Task : WF_vars(\E o \in Outcomes : SubTaskEnds(t, o))

Spec == Init /\ [][Next]_vars
FairSpec == Spec /\ Fairness
-----------------------------------------------------------------------------
Posted(t) == t \in Range(events)

TypeOK ==
  /\ kind \in Kinds /\ state \in States
  /\ queue \in Seq(Task)
  /\ doing \in SUBSET Task /\ done \in SUBSET Task
  /\ failed \in SUBSET Task /\ succeeded \in SUBSET Task
  /\ subState \in [Task -> States] /\ link \in [Task -> Links]
  /\ events \in Seq(Task \cup {NextEvent})
  /\ dropped \in SUBSET Task
  /\ ends \in Nat /\ starts \in 0 .. MaxStarts /\ aborts \in 0 .. MaxAborts
  /\ misfired \in BOOLEAN /\ fault \in BOOLEAN

\* A task is in one place only, and the books agree with what became of it:
\* m_done is split by the outcomes the tasks really had, a queued task has
\* not been touched, and only a task in m_doing, or one the container forgot,
\* can still call back or be called.
Bookkeeping ==
  /\ IsInjective(queue)
  /\ Range(queue) \cap (doing \cup done \cup dropped) = {}
  /\ doing \cap (done \cup dropped) = {} /\ done \cap dropped = {}
  /\ done = failed \cup succeeded
  /\ \A t \in succeeded : subState[t] = "Succeeded"
  /\ \A t \in failed : subState[t] \in {"Failed", "AbortedByUser"}
  /\ \A t \in Task \ (doing \cup dropped) :
       link[t] = "none" /\ subState[t] # "Running" /\ ~Posted(t)

\* No lost wake-up: while the container runs, either an executeNextSubTask()
\* is posted, or some task is being done; and every task being done has its
\* start posted or is running, and will be heard however it ends.
NeverStuck ==
  state = "Running" =>
    /\ doing # {} \/ NextEvent \in Range(events)
    /\ \A t \in doing : /\ link[t] = "all"
                        /\ Posted(t) \/ subState[t] = "Running"

\* m_total_max_size bounds the tasks that really run or are about to, in
\* every run of the container, whatever posted events an earlier one left.
\* (Tasks that clear() forgot while they ran are not counted.)
ConcurrencyBound ==
  Cardinality({t \in Task \ dropped : Posted(t) \/ subState[t] = "Running"}) <= Limit

\* A container that turns Succeeded has nothing left to do and every task it
\* was given, and that no abort() dropped, did succeed; for options, one did.
EarnedSuccess ==
  state = "Running" /\ state' = "Succeeded" =>
    LET mine == Tracked \ dropped IN
    /\ doing = {}
    /\ IF kind = "MultipleOptions"
         THEN \E t \in mine : subState[t] = "Succeeded"
         ELSE \A t \in mine : subState[t] = "Succeeded"

SuccessIsEarned == [][EarnedSuccess]_vars

\* Without abort(), a run ends at most once, no emit...() is called while not
\* running (the ASSERT_NEVERs of Task.cpp), and no slot runs for a task the
\* container has forgotten, also when the container is cleared and reused.
CleanUnlessAborted == (misfired \/ fault \/ ends > 1) => aborts > 0

\* "finished: called when a task has either succeeded, aborted or failed"
\* (Task.h:142): a run of a task is finished once.
OneOutcome == ends <= 1

\* A started container ends.
Finishes == state = "Running" ~> (state # "Running" \/ fault)

\* The container is the task pool that its owner sees.
Pool == INSTANCE TaskPool WITH
  Width <- MaxConcurrent,
  mode <- kind, status <- state, waiting <- Range(queue), active <- doing,
  good <- succeeded, bad <- failed

ImplementsPool == Pool!Spec
=============================================================================
