-------------------------------- MODULE Launch --------------------------------
(***************************************************************************)
(* The launch of an instance: Application (its count of running instances  *)
(* and its one controller per instance), LaunchController, LaunchTask with *)
(* its steps, and the process that a step runs (LoggedProcess).            *)
(*                                                                         *)
(* Three parties can end a launch: the user through Application::kill() or *)
(* through the progress dialog of a step, the profiler, and the launch     *)
(* itself.  A step is told apart by what an abort does to it:              *)
(*   check    goes on (CheckJava, ScanModFolders, EnsureAvailableMemory,   *)
(*            and the steps that end within their start)                   *)
(*   claim    ClaimAccount                                                 *)
(*   servers  fails at once (PrintServers)                                 *)
(*   lookup   succeeds inside the abort (LookupServerAddress): the launch  *)
(*            goes on, as Aborted                                          *)
(*   task     TaskStepWrapper and AutoInstallJava                          *)
(*   command  its process is killed (LaunchCommand)                        *)
(*   game     LauncherPartLaunch                                           *)
(***************************************************************************)
EXTENDS Naturals, Sequences, SequencesExt

CONSTANT MaxLaunches  \* bound on the launches asked for

ASSUME LaunchAssumption == MaxLaunches \in Nat

VARIABLES
  runningInstances, \* Application::m_runningInstances
  controller,       \* extras.controller: none, posted, login, or launched
  replaced,         \* history: controllers destroyed by another launch
  running,          \* BaseInstance::m_isRunning
  state,            \* LaunchTask::state
  steps, current,   \* m_steps and currentStep; 0 stands for none
  mode,             \* the launch mode of the session
  found,            \* m_account of ClaimAccount: an account has the player's name
  claimed,          \* the launch holds a UseLock of the account
  aborting,         \* LaunchTask::abort() waits for the dialog of a task to return
  process,          \* LoggedProcess of the current step: none, Starting or Running
  killed,           \* its m_is_aborting
  mayProceed,       \* of LauncherPartLaunch
  told,             \* what was written to the game: nothing, launch or abort
  profiler,         \* none, bad (its check fails), good
  profiling,        \* the profiler of the controller: no, busy or attached
  launches          \* counted for the bound

application == <<runningInstances, controller, replaced>>
progress == <<running, steps, current, mode, found, claimed, aborting>>
task == <<state, progress>>
game == <<process, killed, mayProceed, told>>
tool == <<profiler, profiling>>
vars == <<application, task, game, tool, launches>>

Modes == {"Normal", "Offline", "Demo"}
\* LaunchController::launchInstance() and MinecraftInstance::createLaunchTask():
\* the steps, one of a kind for each place where it matters what comes before.
\* Only the servers of a Microsoft account are looked up, and only a server to
\* join that has the default port.
Pipeline(m, servers, lookup, commands) ==
  LET Command == IF commands THEN <<"command">> ELSE <<>> IN
     (IF servers THEN <<"servers">> ELSE <<>>) \o (IF lookup THEN <<"lookup">> ELSE <<>>)
  \o Command \o <<"task", "check">>
  \o (IF m = "Offline" THEN <<>> ELSE <<"claim", "task">>) \o <<"check", "game">> \o Command

Init ==
  /\ runningInstances = 0 /\ controller = "none" /\ replaced = 0
  /\ running = FALSE /\ state = "NotStarted" /\ steps = <<>> /\ current = 0
  /\ mode = "Normal" /\ found = FALSE /\ claimed = FALSE /\ aborting = FALSE
  /\ process = "none" /\ killed = FALSE /\ mayProceed = FALSE /\ told = "nothing"
  /\ profiler = "none" /\ profiling = "no" /\ launches = 0
-----------------------------------------------------------------------------
NotSubtracted == controller' = "none" /\ UNCHANGED runningInstances       \* mutant
\* Application::controllerFinished(), which destroys the controller.
ControllerFinished == controller' = "none" /\ runningInstances' = runningInstances - 1

\* The slots onSucceeded() and onFailed(), if there is a controller to run them.
TellController ==
  /\ IF controller = "none" THEN UNCHANGED <<runningInstances, controller>> ELSE ControllerFinished
  /\ profiling' = "no" /\ UNCHANGED <<replaced, profiler>>

OnlyCurrent(n) == {n}                                                   \* mutant
\* The steps that finalizeSteps() finalizes: they were all started.
Finalized(n) == 1 .. n

\* finalizeSteps() and the end of the task; ClaimAccount::finalize() drops the lock.
EndLaunch ==
  /\ claimed' = (claimed /\ "claim" \notin {steps[k] : k \in Finalized(current)})
  /\ running' = FALSE
  /\ TellController
  /\ process' = "none"
  /\ aborting' = FALSE
  /\ UNCHANGED <<steps, current, mode, found, killed, mayProceed, told, launches>>

\* start() of step k.  A task asks for a progress dialog, the controller answers
\* with proceed(), and start() returns with that dialog: what a pending abort()
\* assigns comes after the first step that is no task has been started.
StartStep(k, pending) ==
  /\ current' = k
  /\ process' = IF steps[k] \in {"command", "game"} THEN "Starting" ELSE "none"
  /\ killed' = FALSE
  /\ state' = IF steps[k] = "task" THEN "Waiting" ELSE IF pending THEN "Aborted" ELSE state
  /\ aborting' = (pending /\ steps[k] = "task")
  /\ UNCHANGED <<mayProceed, told>>

\* onStepFinished()
Advance(pending) ==
  IF current = Len(steps)
    THEN EndLaunch /\ UNCHANGED state
    ELSE /\ StartStep(current + 1, pending)
         /\ claimed' = (claimed \/ (steps[current] = "claim" /\ found))
         /\ UNCHANGED <<application, running, steps, mode, found, tool, launches>>
StepSucceeds == Advance(aborting)
StepFails(s) == state' = (IF aborting THEN "Aborted" ELSE s) /\ EndLaunch
-----------------------------------------------------------------------------
\* Application::launch(): the instance is not running before its LaunchTask
\* exists, so a launch may meet the controller of another one, and replaces it.
AskLaunch(p) ==
  /\ ~running
  /\ launches < MaxLaunches
  /\ launches' = launches + 1
  /\ controller' = "posted"
  /\ replaced' = IF controller = "none" THEN replaced ELSE replaced + 1
  /\ runningInstances' = runningInstances + 1
  /\ profiler' = p /\ profiling' = "no"
  /\ UNCHANGED <<task, game>>

\* The posted start: it fails at once, or waits for the user and the account.
Login ==
  /\ controller = "posted"
  /\ \/ controller' = "login" /\ UNCHANGED runningInstances
     \/ ControllerFinished
  /\ UNCHANGED <<replaced, task, game, tool, launches>>

\* login() gives up.
GiveUp ==
  /\ controller = "login"
  /\ ControllerFinished
  /\ UNCHANGED <<replaced, task, game, tool, launches>>

\* launchInstance(): the task is made and started in one go.  ClaimAccount looks
\* its account up by the player's name, which need not be there (a profile that
\* was only just named, an account removed or replaced meanwhile).
LaunchInstance(m, named, servers, lookup, commands) ==
  /\ controller = "login"
  /\ named \/ servers => m = "Normal"
  /\ controller' = "launched"
  /\ running' = TRUE /\ state' = "Running" /\ mode' = m
  /\ steps' = Pipeline(m, servers, lookup, commands)
  /\ current' = 1
  /\ process' = IF steps'[1] = "command" THEN "Starting" ELSE "none"
  /\ killed' = FALSE /\ mayProceed' = FALSE /\ told' = "nothing"
  /\ found' = named /\ claimed' = FALSE /\ aborting' = FALSE
  /\ UNCHANGED <<runningInstances, replaced, tool, launches>>
-----------------------------------------------------------------------------
OfKind(K) == running /\ steps[current] \in K

\* A step without a process ends.
StepEnds ==
  \/ OfKind({"claim", "check", "servers", "lookup", "task"}) /\ StepSucceeds
  \/ OfKind({"check", "task"}) /\ StepFails(state)

\* The user aborts the task of the progress dialog, which is the step's.
DialogAbort == OfKind({"task"}) /\ StepFails(state)

\* LaunchTask::proceed(), in LauncherPartLaunch; nothing in any other step.
Proceed(s, may) ==
  IF s = "Waiting" /\ steps[current] = "game" /\ may
    THEN told' = "launch" /\ mayProceed' = FALSE
    ELSE UNCHANGED told /\ mayProceed' = may

OnlyRunning == {"Running"}                                              \* mutant
Abortable == {"Running", "Waiting"}
\* LaunchTask::abort() while a process runs: the game is told, or killed.
AbortProcess(s, may) ==
  IF s \notin Abortable THEN state' = s /\ mayProceed' = may /\ UNCHANGED <<told, killed>>
  ELSE /\ state' = "Aborted"
       /\ mayProceed' = (may /\ steps[current] # "game")
       /\ IF steps[current] = "game" /\ may
            THEN told' = "abort" /\ UNCHANGED killed
            ELSE killed' = TRUE /\ UNCHANGED told

\* Application::kill() and the user's confirmation.
Kill ==
  /\ running /\ controller = "launched" /\ state \in Abortable
  /\ \/ /\ OfKind({"servers", "task"})
        /\ StepFails("Aborted")
     \/ \* The lookup is told to stop and finishes inside the call: its step has
        \* succeeded and the next one runs when emitAborted() comes too late.
        /\ OfKind({"lookup"})
        /\ Advance(TRUE)
     \/ \* The task answers that it has aborted, and ends later: with a failure,
        \* or, having fallen back on what is on the disk, with a success.
        /\ OfKind({"task"})
        /\ state' = "Aborted"
        /\ UNCHANGED <<application, progress, game, tool, launches>>
     \/ /\ OfKind({"command", "game"})
        /\ AbortProcess(state, mayProceed)
        /\ UNCHANGED <<application, progress, process, tool, launches>>

\* The process runs.  Of the game, LauncherPartLaunch then emits
\* readyForLaunch(), whatever became of the launch meanwhile.
ProcessStarts ==
  /\ running /\ process = "Starting"
  /\ process' = "Running"
  /\ UNCHANGED <<replaced, progress, profiler, launches>>
  /\ \/ /\ steps[current] = "command" \/ controller = "none"
        /\ state' = IF steps[current] = "game" THEN "Waiting" ELSE state
        /\ mayProceed' = (mayProceed \/ steps[current] = "game")
        /\ UNCHANGED <<runningInstances, controller, killed, told, profiling>>
     \/ /\ steps[current] = "game" /\ controller # "none" /\ profiler = "none"
        /\ state' = "Waiting"
        /\ Proceed("Waiting", TRUE)
        /\ UNCHANGED <<runningInstances, controller, killed, profiling>>
     \/ /\ steps[current] = "game" /\ controller # "none" /\ profiler = "bad"
        /\ AbortProcess("Waiting", TRUE)
        /\ ControllerFinished
        /\ UNCHANGED profiling
     \/ /\ steps[current] = "game" /\ controller # "none" /\ profiler = "good"
        /\ state' = "Waiting" /\ mayProceed' = TRUE
        /\ profiling' = "busy"
        /\ UNCHANGED <<runningInstances, controller, killed, told>>

\* The profiler is ready, and the user presses the button.
ProfilerReady ==
  /\ profiling = "busy"
  /\ profiling' = "attached"
  /\ Proceed(state, mayProceed)
  /\ UNCHANGED <<application, task, process, killed, profiler, launches>>

\* The profiler crashes or could not start: the launch is aborted, and the
\* controller fails without waiting for its end.
ProfilerAborts ==
  /\ profiling \in {"busy", "attached"}
  /\ AbortProcess(state, mayProceed)
  /\ ControllerFinished
  /\ profiling' = "no"
  /\ UNCHANGED <<replaced, progress, process, profiler, launches>>

AnyExit == TRUE                                                         \* mutant
\* A process that is killed counts as failed; the game's entry point exits
\* with an error unless it was told to launch.
MayExitWell == ~killed /\ (steps[current] = "game" => told = "launch")

ProcessFailsToStart == running /\ process = "Starting" /\ StepFails(state)
ProcessExits ==
  /\ running /\ process = "Running"
  /\ \/ MayExitWell /\ StepSucceeds
     \/ StepFails(state)

Next ==
  \/ \E p \in {"none", "bad", "good"} : AskLaunch(p)
  \/ Login \/ GiveUp
  \/ \E m \in Modes, n, s, l, c \in BOOLEAN : LaunchInstance(m, n, s, l, c)
  \/ StepEnds \/ DialogAbort \/ Kill
  \/ ProcessStarts \/ ProcessFailsToStart \/ ProcessExits
  \/ ProfilerReady \/ ProfilerAborts

Spec == Init /\ [][Next]_vars
Dying == killed \/ told = "abort"
\* A process that is killed or told to abort comes to its end.
FairSpec == Spec /\ WF_vars(ProcessStarts \/ ProcessFailsToStart) /\ WF_vars(Dying /\ ProcessExits)
-----------------------------------------------------------------------------
TypeOK ==
  /\ runningInstances \in Nat /\ replaced \in Nat /\ launches \in 0 .. MaxLaunches
  /\ controller \in {"none", "posted", "login", "launched"}
  /\ running \in BOOLEAN /\ found \in BOOLEAN /\ claimed \in BOOLEAN /\ aborting \in BOOLEAN
  /\ killed \in BOOLEAN /\ mayProceed \in BOOLEAN
  /\ state \in {"NotStarted", "Running", "Waiting", "Aborted"}
  /\ steps \in Seq({"check", "claim", "servers", "lookup", "task", "command", "game"})
  /\ current \in 0 .. Len(steps) /\ (running => current # 0)
  /\ mode \in Modes
  /\ process \in {"none", "Starting", "Running"}
  /\ told \in {"nothing", "launch", "abort"}
  /\ profiler \in {"none", "bad", "good"} /\ profiling \in {"no", "busy", "attached"}

\* The count on which updates and the end of the application depend is that
\* of the controllers, and goes back to zero with them.  The exception is the
\* code's: a controller that another launch replaces is never counted off.
RunningIsCounted ==
  runningInstances = replaced + (IF controller = "none" THEN 0 ELSE 1)

\* While the game plays online its account is in use, so that it is not
\* refreshed under it; and an account is in use no longer than the launch.  The
\* exception is the code's: no account had the player's name when the launch
\* was made, and then the game plays without the lock.
AccountFollowsGame ==
  /\ running /\ steps[current] = "game" /\ mode = "Normal" /\ found => claimed
  /\ claimed => running

\* Application::kill() does nothing for a launch that has lost its controller:
\* such a launch is always one whose process is dying already.
OrphanDies == running /\ controller # "launched" => process # "none" /\ Dying

\* A process that was killed or told to abort takes the launch with it: no
\* further step goes on with it.  (A launch that is killed at the lookup of its
\* server, before it has a process, is not: Kill lets it go on.)
KilledEnds == (running /\ Dying) ~> ~running
=============================================================================
