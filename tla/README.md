# Formal models of PrismLauncher

TLA+ specifications of the launcher's asynchronous core: model-checked with
TLC on small instances, and proved with TLAPS where a claim can be stated for
every instance. The models are translated from `src/launcher/`; `PROJECT.json`
maps every definition to the lines it stands for, lists the hazards the
properties are written for, and names the runs, mutants, findings and theorems.

## 1. The system

The launcher is a Qt program. Nearly all of its logic runs on one thread under
one event loop, and is asynchronous all the same: long operations are `Task`
objects that are started, signal one outcome, and are composed of other tasks.
What makes it hard is not parallelism but the order of *deliveries*: a direct
signal runs its slots inside the statement that emits it, a queued call runs
some time later whatever has happened to its receiver, timers and sockets come
in between, and the user may press "Abort" or close a dialog between any two
of them.

| component | state it keeps | operations | talks to | what makes it hard | correct means |
|---|---|---|---|---|---|
| Task containers (`tasks/`) | `m_state`; the queue and the sets doing, done, failed, succeeded; posted calls | addTask, start, executeNextSubTask (posted), sub-task ended, abort, clear | every other task, by signals | posted calls outlive the run that posted them; abort re-enters its own loop | no lost wake-up, limit kept, success earned, one outcome |
| HTTP request and file sink (`net/Request`, `net/FileSink`) | `m_state`, reply, retry timer, two counters; save file and target file | start, header, data, error, finished, retry timer, abort | network library, sink, container | redirects and rate-limit retries restart the request from inside its handlers; abort finishes the reply inside the call | only whole bodies reach the target, an abort stops everything, bounded traffic |
| Other sinks and validators | a buffer; a checksum | init, write, finalize, abort | request | a validator has to restart with its sink | as for files |
| Download job (`net/NetJob`) | the container's, `m_try`, `m_manual_try`, an open dialog | addNetAction, start, round retry, dialog answer, abort | requests, user | two posted calls meet the same finished round; a dialog that does not block the loop | bounded attempts, nothing lost, ends |
| HTTP metadata cache (`net/HttpMetaCache`) | bases, entries, save timer; index on disk, cached files | resolveEntry, updateEntry, evict, stale, Load, Save | requests through a sink, files | files change behind the cache, the index is written 30 s late | a fresh entry describes the file |
| Metadata entities (`meta/`) | load status, shared load task | loadTask, executeTask, abort | download job | several callers share one task | loaded means local or remote data was parsed |
| Accounts (`minecraft/auth/`) | account states, use and activity counts, refresh queue, current refresh; list on disk | add, remove, move, default, login, refresh, queue, save | authentication steps, launch, timers | tokens are refreshed in the background while games use them | the queue goes on, a requested refresh is carried out, the activity count is right |
| Launch (`launch/`, `LaunchController`) | steps, current step, state; instance running | start, proceed, step finished, abort | accounts, steps, instance, log | a game may be ended by the user, by itself or by a failing step | started steps are finalized, the account is held as long as the game, nothing that runs is out of reach |
| Resource folders (`minecraft/mod/`) | resources by name, update and parse tickets | update, resolve, results of two worker threads, watcher | thread pool, file system | results for resources that have changed meanwhile | the newest scan wins, no update is lost |
| Instance list and staging (`InstanceList`) | instances, groups, trash history, staged paths; groups on disk | load, group, trash, undo, delete, stage, commit | file system, tasks | partial file operations; commit retried with a backoff | groups and disk agree, a staged path is committed or removed |
| Component list (`minecraft/PackProfile`, `ComponentUpdateTask`) | ordered components, save timer; update phases | insert, remove, move, load, save, resolve | metadata entities | delayed save, dependencies resolved in rounds | the resolution ends, dependencies are met |
| Settings, log model, file helpers, launch profile | local | | | mostly sequential | |

The remaining parts (user interface, platform APIs, parsers, Java detection,
themes, updater, vendored libraries) are listed in `PROJECT.json` with the
reason they are left out: they are input and output, presentation, data
formats without state, or the environment of the parts above.

## 2. Modules

| module | what it is |
|---|---|
| `TaskPool` | the abstract specification: what a container promises to whoever starts it, without events, signals and links |
| `ConcurrentTask` | `Task`, `ConcurrentTask`, `SequentialTask`, `MultipleOptionsTask`: one container, its sub-tasks and the posted events |
| `ConcurrentTaskProofs` | the inductive invariant and the theorems about it |
| `NetRequest` | `Net::Request` downloading into `Net::FileSink` |
| `NetRequestProofs` | the inductive invariant of a request and the theorems about it |
| `NetJob` | `NetJob`, which extends `ConcurrentTask` as the class derives from it |
| `NetJobProofs` | the inductive invariant of a download job and the theorems about it |
| `MetaCache` | `HttpMetaCache` and the sink that fills it, `MetaCacheSink` on `FileSink` |
| `MetaCacheProofs` | the inductive invariant of the cache and the theorems about it |
| `Accounts` | `AccountList`, `MinecraftAccount`, `AuthFlow`: the list, its refresh queue, the flows |
| `AccountsProofs` | the inductive invariant of the accounts and the theorems about it |
| `Launch` | `Application::launch`/`kill`, `LaunchController`, `LaunchTask` and its steps, `LoggedProcess` |
| `LaunchProofs` | the inductive invariant of a launch and the theorems about it |
| `ResourceFolder` | `ResourceFolderModel` with its load and parse tasks, as a model of mods or of packs |
| `ResourceFolderProofs` | the inductive invariant of the list and its scan and the theorems about them |
| `InstanceList` | `InstanceList` with its group file, its watcher and `InstanceStaging` |
| `InstanceListProofs` | the inductive invariant of the rows and the groups and the theorems about them |
| `MC...` | the modules TLC is run on |

### ConcurrentTask

One container object. `kind` is its dynamic class, so that one module has the
three variants of `executeNextSubTask()` and `subTaskFailed()`. The members
`m_queue`, `m_doing`, `m_done`, `m_failed` and `m_succeeded` are variables of
those names; `m_task_progress` has the keys of `m_doing` and is not separate,
but a slot that looks up a missing key sets `fault`, as the code dereferences a
null pointer there. `events` is the list of posted calls; `link` tells which signals of a
sub-task are still connected (`abort()` disconnects `aborted` first).

| action | code |
|---|---|
| `AddTask`, `Start`, `Clear` | the owner's calls; `Start` includes `executeTask()` and its posted calls |
| `DeliverNext` | `executeNextSubTask()` with `startSubTask()` or the verdict |
| `DeliverStart` | the posted `start()` of a sub-task |
| `SubTaskEnds` | the sub-task emits its outcome, with the slots that hear it |
| `AbortIdle`, `AbortDoing` | `abort()` without and with tasks in `m_doing`; what each sub-task's own `abort()` does is a choice of five replies |

A sub-task is opaque: once started it ends in any way, at any time.

### NetRequest

The members of a request, its reply as far as the handlers look at it, and the
file sink. `reply.phase` is what the network library has reported: headers,
error, finished. The handlers call each other, and assign `m_state` on the way
(`downloadFinished` to `handleRedirect` to `executeTask`); they are operators
that take the state with which they are entered, so that each action of the
module is one whole call from the event loop. `Abort` includes the
`downloadFinished()` that runs inside `m_reply->abort()`; `BadLocation` is what
it does with a `Location` that cannot be parsed, which enters `downloadError()`
again, so that a rate-limited reply can start its retry timer although its end is
signalled (`relimited`). A body is a sequence
of chunks and each chunk carries the number of the reply it came from, so that
a file mixed from two replies is visible. The cache variant of the sink, the
progress speed and the headers a caller adds are left out; a validator is the
choice of `Finalize` to refuse the body.

### NetJob

Extends `ConcurrentTask`, adds `m_try`, `m_manual_try`, the dialogs and the
reason each request failed for. `ExecuteNext` is the override, with the round
and the open dialogs it is entered with, as the answer to the dialog calls it
directly with `m_try = 0`. A request is what `NetRequest` shows from outside; its
`abort()` answers in one of four ways (`Answers`): as aborted, not at all when its
reply carries a redirect, and with a failure or a success when its `Location`
cannot be parsed. (A retry that outlives such a request is not heard by the job,
which has disconnected it, and is left to `NetRequest`.)

### MetaCache

A `MetaEntry` is a shared pointer that the list, and every request made with
it, hold at once, and that callers change in place; so entries live in a `heap`
and `listed` and `req` refer to them. `Resolve` is `resolveEntry()` with what a
caller does to the entry before it downloads (nothing, mark it stale, or clear
its validators as a forced reload of the metadata does); `InitCache`,
`FinishModified` and `FinishNotModified` are `MetaCacheSink`; `EvictEntry`,
`EvictAll`, `SaveTimeout`, `Quit`, `Crash` the rest. Files change by the
requests and by anybody else, and each write advances the clock, so that equal
time stamps mean the same write. Bodies stand for their checksums, versions for
their validators; `life` is the maximal less the current age.

### Accounts

`task` is the `AuthFlow` of each account, which anybody who asks for a refresh
shares: the list through `TryNext`, a launch or the skin dialog through
`AskForFlow` and `StartFlow`. `heard` has the flows the list is connected to
(`succeeded` and `failed`, not `aborted`), `current` the one it holds.
`TryNext` is the loop of `tryNext()`, which calls itself until an account is
due, in one action; the timers, `fillQueue()`, `requestRefresh()` and the
list's edits are the others. A flow that fails on the spot, inside its own
`start()`, is a case of `FlowStarts`.

### Launch

One instance, one controller slot, one task. `Pipeline` is the list of steps
that `createLaunchTask()` builds, one of a kind for every place where an abort
or a failure has another effect. Each action is a whole call from the event
loop with the slots it runs: a step that ends starts the next one; a step that
fails finalizes those that were started, ends the task, and the controller with
it. `ProcessStarts` includes `readyForLaunch()`, which may find a broken
profiler and abort the launch inside the same call. `found` says whether
`ClaimAccount` found an account of the player's name: without one there is no
lock. An abort at the `lookup` step finishes the lookup inside the call, so that
the next step starts and the launch goes on as Aborted; if that next step waits
for its dialog, `aborting` remembers that `abort()` has not returned yet.

### ResourceFolder

`disk` is the folder with enabled and disabled names, `rows` and `index` are
`m_resources` and `m_resourcesIndex`, `update` the state of the scan with its
two queued signals (`succeeded`, then `finished`), `parses` the queue of the
resolver thread with what each task has found and not yet reported. A row
carries the ticket of its resource, so that a late result that meets the
successor of its resource can be seen (`misfired`). `Erase` takes the rows of
files that are gone from the end of the list to its front, so that the places
still to be erased do not move. `Toggle` is the toggle of one row; the dialogs
that may come first and the mods that are toggled along are left out (section 5).

### InstanceList

`disk` has the folders that hold an `instance.cfg`, `file` is
`instgroups.json`, `list` the members that `loadList()` and `loadGroupList()`
replace. `Saved` is the set of files that a save may leave: a write that fails
leaves the file as it was and is only logged, and `file.behind` remembers that
the last one failed. Only the folders of instances are watched: another program
changes them in a `whole` step, which is notified, or by writing or removing an
`instance.cfg` inside of a folder that stays, which is not. An update goes to the
primary folder (`StageUpdate`), unless it began as an install of a pack that
turned out to be installed (`ChildUpdates`). `LoadList` is `loadList()` as a function of the list, the file and the
folders, because every other call ends in it at once or later. Dead rows are
removed range by range as in the code: a walk over the list from its end
(`LookAtRow`) keeps the range that is being collected, and cuts it out of the
list when the next dead row is not adjacent. `stage` is the
`InstanceStaging` task from its start through the retries of the commit.

## 3. What the runs show

| run | instance | states | what it shows |
|---|---|---|---|
| `concurrent_task` | 3 sub-tasks, limit 2, 2 starts, 1 abort, all three kinds | 39 thousand | the invariants, `SuccessIsEarned`, `Finishes`, and that the container implements `TaskPool` |
| `concurrent_task_outcome` | same | | finding 1: a run can end twice |
| `net_request` | 1 redirect, 2 retries, bodies of up to 2 chunks, 2 starts, 2 aborts | 1.51 million | only whole bodies are committed, success has its data, abort stops, bounded traffic, signals agree with the state, each start is answered |
| `net_request_misfire` | 1 redirect, 1 retry, 1 chunk, 1 start, no abort | | finding 2: the rate-limit failure is emitted too late |
| `net_job` | 3 requests, 2 at a time, 2 rounds, 1 manual retry, 1 abort | 504 thousand | books, bounded attempts, no retry after a 404, success means everything, the job ends or asks |
| `net_job_abort` | 2 requests, 3 rounds | | finding 3: abort of a running job that has nothing in `m_doing` |
| `meta_cache` | 1 path, 2 requests, 3 objects, 2 versions, 3 ticks of the clock | 907 thousand | a fresh entry that is handed out describes its file; what is known is in the index or about to be |
| `accounts` | 2 accounts, 1 request, 1 abort, 1 edit | 503 thousand | the activity count, the queue goes on, a Working account has its flow, a requested refresh is carried out |
| `launch` | 3 launches, all modes, with and without commands, servers, lookup and account, no, a bad or a good profiler | 27 thousand | the count of running instances, the account that was found held as long as the game, no launch out of reach that is not dying, a killed process takes its launch along |
| `resource_folder` | 2 files, 3 changes, mods or packs | 366 thousand | the index leads to the rows, a scan is applied as a whole, a watched folder settles on what is on disk |
| `instance_list` | 3 instances, 2 folders, 2 interchangeable groups, 3 operations | 2.73 million | a stale list is loaded again, group counts, groups that were written survive a crash, only the user changes a group |
| `instance_list_update` | same | | finding 4: an update in an additional folder makes a second instance |

The properties are in the modules, each with a comment that says what it means;
every one of them is broken by a small plausible change of the code's model
(`PROJECT.json`, "mutants"): one posted event too few, a limit not asked for, a
save file reused, a retry without limit, failures not taken out of the books.

### Bounds, and why they are enough

- Three sub-tasks at a limit of two are the smallest container with something
  queued while something else runs and a free place appears; both orders of
  finishing and of posted events occur. Two starts let posted events of the
  first run meet the second. The proofs remove all these bounds.
- `RedirectLimit` (10 in the code) and `RetryLimit` (4) only bound how often the
  same handlers are entered. With 1 and 2 a request is redirected and retried in
  either order, reaches both limits, and has state left over from each.
- Two chunks tell "nothing", "a part" and "all" of a body apart.
- `MaxTry` is 2 instead of 3 in `net_job`: a first round, a last round, and,
  with `m_try = 0` after the dialog, a round that follows an earlier "last" one.
- `MaxStarts` and `MaxAborts` bound the owner's calls, not the code.
- `MetaCache`: paths do not interact except in the index, which is written as a
  whole; two requests for one path overlap in every way, and three objects are
  one more than they can hold. Three ticks let a file change before, during and
  after a request; lifetimes expire within the run. `VIEW` hides the fields of
  objects that nobody holds any more.
- `Accounts`: two accounts are enough for "one runs, another is asked for", and
  one edit for each way an account leaves the list under a flow. More requests
  only lengthen the queue; the proofs remove the bounds for the invariants.
- `Launch`: a third launch meets what the second did to the controller of the
  first. The proofs remove the bound.
- `ResourceFolder`: three changes are a file, its replacement, and a change
  while the scan or the parse task of either is under way; erasing rows in the
  wrong order shows with two.
- `InstanceList`: three instances make the removal of rows in separate ranges
  possible; the two groups play the same part in every definition and are a
  symmetry set; three operations are, for example, a stage, a game, and a change of
  the folder before its end, or a removal, a namesake, and an undo.

The systems really stop (a job that has ended waits for its owner), so the
runs do not check for deadlock; that nothing gets stuck is what `NeverStuck`,
`Finishes`, `Settles` and `JobFinishes` say.

### Fairness

- *Deliveries* (`WF(Deliver)`, `WF(JobDeliver)`): the event loop delivers what
  is posted, in order. The code gives no other guarantee and needs no other.
- *Timers fire and flows end* (`FairSpec` of `Accounts`): the steps of a flow
  are requests with a timeout. Nothing is assumed of an orphaned step.
- *Killed processes end* (`FairSpec` of `Launch`): a process that is killed, or
  whose entry point has read "abort", exits. A game that plays may play forever.
- *Workers run* (`FairSpec` of `ResourceFolder`): the pool and the resolver
  thread make progress and queued signals are delivered.
- *Sub-tasks end*: each started task is assumed to end, which is what its own
  specification says: for requests, `Settles`.
- *Replies end* (`ReplyEnds`): `Request::executeTask` sets a transfer timeout on
  every request, so that a silent server becomes an error; and timers fire.
- Nothing is assumed of the owner or the user: they may never call abort() or
  answer a dialog, hence "or `dialogs > 0`" in `JobFinishes`.

`Settles` has an exception, and it is one of the code's: when a `Location`
header arrives after the verdict (a failed write, a refused redirect or an
abort has already set `m_state`), `downloadFinished()` follows the redirect
before it looks at the verdict, and the new execution may end without a signal.
The history variable `revived` marks exactly those runs.

### Exceptions that are the code's

A property that the code breaks on a narrow path is stated with that path as
an exception, which a history variable marks.

- `SuccessHasData`, `HeardIsState`, `OneEnd`, `relimited`: a rate-limited reply
  whose `Location` cannot be parsed is handled twice, and starts the retry timer
  although its end is signalled; when the timer fires later, another execution
  runs after the end.
- `AbortStops`: `abort()` concludes an unfinished reply as it would end by itself.
  One with a `Location` that is followed swallows the answer; for one that cannot
  be parsed `downloadError()` decides, which accepts a local file, so that the
  aborted request may succeed. Only without a `Location` is the
  answer surely `aborted()`. The second part of the property, what a request that
  is left aborted may still do, has no exception.
- `Settles`, `revived`: see above.
- `ServedIsTrue`, `tainted`: a reply without data (a 304, or an empty body) gives
  the entry the file's present time stamp without asking whether it is still
  the file that was resolved.
- `KnownIsSaved`, `failed`: a write of the index that fails is not tried again.
- `QueueGoesOn`, `RequestServed`, `orphan`: the list does not listen to
  `aborted()`, so that after an abort of the flow it waits for the queue stops
  until the user requests a refresh.
- `WorkingHasFlow`, `haunted`: the step of an aborted flow that is still held
  writes the state of its account; `decideLaunchMode()` then finds a Working
  account without a flow.
- `ActivityIsCounted`, `lost`: an account that is removed or replaced while its
  flow runs stays in the count for good, and further requests wait for a timer.
- `RunningIsCounted`, `replaced`: `launch()` refuses an instance that is
  running, which it is only from `launchInstance()` on. A second launch during
  the login replaces the first controller, whose place is never given back.
- `AccountFollowsGame`, `found`: `ClaimAccount` looks the account up by the
  player's name when the launch is made; when no account has it, the game plays
  online without a lock.
- `KilledEnds` is about processes: a launch that is killed at the lookup of its
  server goes on with the next step, although it is marked as Aborted, because the
  lookup finishes, and succeeds, inside its own abort.
- `SettlesOnDisk`, `stuck` and `misfired`: a failed migration of shader packs
  leaves the update task unfinished; a failed parse removes the row that now
  has the name. The row of a mod renamed under its parse task keeps empty
  details, and after the first launch of an instance nothing is parsed.
- `ReloadDue`, `missed`: what changes in a folder that is not watched (during a
  game, or under the lock of a commit that fails) waits for the next change. So
  does an `instance.cfg` that another program writes into, or removes from, a
  folder that is there before and after: a folder that is copied in slowly is
  notified when it is made, and has no `instance.cfg` yet when it is looked at.
- `RestartKeepsGroups`, `GroupByUser`, `file.behind`: a write of the group file that
  fails is only logged and not tried again before the next edit. When the file is
  read then, at a start or after a change of the settings, the groups are those of
  the last write that succeeded.
- `CountsExact`, `outlived`: a group that is deleted or renamed, or an instance
  that is added, while the index has an entry that nothing on disk stands for.
- `GroupByUser`: a removal that fails has dropped the group already; an undo that
  restores an instance under a name of another folder takes over its group; the
  first instance of a launcher whose groups were never read loses its group
  when the commit loads the list.

Some of these exceptions are the very path of a hazard in `PROJECT.json`, and
its property then does not catch it; it says that this path is the only one.
The hazards say so in their notes: the redirect after a verdict (`revived`), the
file that changes before a 304 (`tainted`), the refresh that is aborted
(`orphan`), the account that is removed under its flow (`lost`), the migration
that fails (`stuck`), a failed parse under a new name (`misfired`), a removal that
fails, the orphaned step (`haunted`), the replaced controller (`replaced`), the
first instance of a launcher that never read its groups, what is not watched
(`missed`), and the failed write of the groups (`file.behind`).

### Findings

1. `ConcurrentTask::abort()` with an empty `m_doing` emits `aborted()` and
   `finished()` but leaves the state at Running; the call that is still posted
   then ends the run again as succeeded (`OneOutcome`).
2. `Request::handleAutoRetry` assigns `Failed` before it calls `emitFailed()`,
   whose guard then holds back the message about the rate limit, and asserts in
   a debug build (`NoMisfire`).
3. `NetJob::abort()` answers "no downloads to abort, NetJob is not running" of
   a job that is running: before its first posted call, between two rounds, and
   while the retry dialog is open. The posted call goes on and retries what the
   abort had marked as failed (`IdleIsNotRunning`).

4. `commitStagedInstance()` overrides an instance in the folder the task names,
   and the update of a pack names none: of an instance in an additional folder
   a second one is made in the primary folder, and hides it
   (`UpdateMakesNoInstance`; the header says "we want to override it - for
   instance, when updating it").

## 4. What is proved

| module | theorems | for |
|---|---|---|
| `ConcurrentTaskProofs` | `TypeCorrect`, `BooksRight`, `NoLostWakeUp`, `LimitKept`, `CleanBeforeAbort`, `SuccessEarned`, `Implementation` | every set of sub-tasks, every limit, any number of starts and aborts, all three kinds of container |
| `NetRequestProofs` | `TypeCorrect`, `TrafficBounded`, `SignalsAgree`, `SaveFileThere`, `CommitsWhole`, `AbortFinal`, `EndsOnce`, `SuccessIsData` | every limit on redirects and retries, bodies of any length, any number of starts and aborts |
| `NetJobProofs` | `JobTypeCorrect`, `JobBooksRight`, `RetriesBounded`, `NotFoundStays`, `SuccessIsComplete` | every set of requests, every limit, any number of rounds, answers, starts and aborts |
| `MetaCacheProofs` | `TypeCorrect`, `SavedWhenKnown`, `ServedTrue` | any number of paths, overlapping requests, objects and versions, any lifetimes |
| `LaunchProofs` | `TypeCorrect`, `CountRight`, `AccountInUse`, `OrphansDie` | any number of launches, in any mode, with any profiler |
| `AccountsProofs` | `ActivityRight`, `RefreshesGoOn`, `WorkingIsSafe` | every finite set of accounts, any number of requests, aborts and edits |
| `ResourceFolderProofs` | `TypeCorrect`, `IndexRight`, `ScanRight`, `Erasure` | every finite set of files, any number of changes, scans and late results, mods or packs |
| `InstanceListProofs` | `CountsRight`, `GroupsSurvive`, `ReloadRight`, `GroupsRight`, `ListedOnce`, `RowsRemoved` | every finite set of instances, any groups, any lists of folders, any number of edits, reloads and restarts |

The assumptions are those of the modules: the limits and bounds are natural
numbers, the sets of sub-tasks, accounts, files and instances are finite, the
concurrency limit is not zero, the token for a posted call is not a sub-task, the
folders of the instances are a list, and the launcher starts with finitely many
instances in folders that the settings may name. Every safety and every action
property of a passing run is stated by a theorem, and the run shows it on a small
instance first; each follows from an inductive invariant, `IInv` or `JobIInv`.
No run checks the type correctness of a container, of a launch, of the cache and of a
resource folder, that an instance is listed once (`ListedOnce`), that `IInv` of the
container is inductive, and the two theorems that say what an operator computes
(`Erasure`, `RowsRemoved`).

*Container.* The types `TypeOK` and the invariants `Bookkeeping`, `NeverStuck` and
`ConcurrencyBound` are not inductive. What they need besides:

- `OncePosted`: a start of a sub-task is posted at most once and not for a
  running one. Otherwise a posted start could restart a task that is done.
- `WithinLimit`: `m_doing` itself is within the limit; `ConcurrencyBound` counts
  the tasks that run or are about to, which by `Bookkeeping` are in `m_doing`.
- `OneAtATime`: for the two kinds that take one task at a time, at most one is
  being done, a running sequence has no failure, and a running option container has at most
  one posted call, and none while an option is being tried. This is what
  makes up for the missing `isRunning()` in `MultipleOptionsTask`.
- `Undisturbed`: until `abort()` is called, nothing was forgotten that still runs, and
  no emit came at the wrong time.

`Implementation` is the refinement of `TaskPool`: `m_queue` as a set is what
waits, `m_doing` is active, `m_succeeded` and `m_failed` are good and bad;
deliveries of calls that do nothing, and posted starts, are stuttering steps.

*Request.* `IInv` is the conjunction of

- `Types`, and `Counters`: there are numbers `r` of redirects and `t` of
  retries, within their limits and counters, that together with the starts pay
  for every request sent and for one that a running timer is about to send;
- `Verdicts`: while a reply or a retry is to come no end was signalled, unless a
  retry outlived its request, and the state is not Inactive; an unfinished reply
  is never that of a request that was aborted, and an error leaves a verdict or a
  timer;
- `LocalData`: a verdict of success before the end rests on the local file, with
  the same exception;
- `Bodies`: while a running request is being read, its save file is open and holds
  exactly what was read of the present reply.

`Resent`, `Over` and `Told` summarise `executeTask()` and `downloadFinished()`,
so that each handler that calls them is proved from one lemma
(`AfterExecute`, `AfterConclude`).

*Job.* `Bookkeeping` of the container is not an invariant of a job: `abort()` puts
what still waits, and what it cannot abort, into `m_failed`. `JobIInv` is the
conjunction of

- `Shape`: the types, with a budget of attempts that is a number;
- `JobBooks`, which says only in which of the books a request is, and `OncePosted`
  as for the container;
- `Kept`: what was ever given to the job is in the queue, being done, done or
  failed, what succeeded is done, and what was not given was not tried;
- `Placed`: a live request is in `m_doing`, or after an abort in both `m_done`
  and `m_failed`; while the job runs it is in `m_doing` only;
- `Paid`: the rounds so far and the answered dialogs pay for every attempt of a
  request and for one that is pending; `m_try` is zero only after an answer;
- `Truth`: what is listed as succeeded is downloaded.

`ExecuteKeeps` serves both the posted calls and the answers to a dialog, and the
lemmas on sequences are those of `ConcurrentTaskProofs`.

*Cache.* What makes a fresh entry true is spread over the list, the index and
every request under way, as they share objects and the files change behind
them. `IInv` is the conjunction of the types, `KnownIsSaved` and

- `Held` and `Owned`: an object is of one path, for the list and for all
  requests that hold it;
- `Clock`: no time stamp of an entry, an index line, a file or a request is ahead
  of the clock, so that a new file has a time nobody knows;
- `Private`: a request that was made when there was no file has its object for
  itself, and that object has no validator. Hence a file that is deleted can
  not be mistaken for the one that was never there;
- `Answered`: only a validator that was sent is answered with 304;
- `IndexTrue`, `ListTrue` and `RequestsTrue`: outside the tainted paths every
  entry `Describes` its file (its checksum is that of the version it names, and a
  file with its time stamp has that body), and a request knows more (`Opened`):
  as long as the file is the one it was made for, the validator it sent is that
  file's.

`Soft` is the relation between an object before and after anything that only
takes knowledge away from it (stale, no validator, the time of a verified file);
`SoftKeeps` then serves all of `resolveEntry()` and `evictEntry()`,
`FinalizedKeeps` both ends of a request, `FilesKeep` every change of files from
outside, and `LoadKeeps` both kinds of restart.

*Launch.* `IInv` adds to the types and the three invariants

- `InPipeline`: a running launch is at one of its steps, has the claim before
  the game if it is online, and only commands after the game;
- `Locks`: an account that was found is held exactly when the claim step lies
  behind, and one that was not found never;
- `Owners`: an abort that waits for a dialog is at a task; a process and a profiler
  belong to a running launch at a step that can have them, and a profiler that works on a launch is the controller's;
- `Orphans`: a launch without its controller is at its game, or at the command
  after it, with a process that comes to a bad end.

*Accounts.* `IInv` is the conjunction of

- `ListOK`: no account is listed twice, those that are gone are not listed and do
  not come back, and the lost ones are among them;
- `FlowOK`: only accounts that are or were listed have a flow (one that is added
  brings none), with the activity count and `WorkingHasFlow`;
- `Expecting`: of the flows the list listens to, it is the one it holds that goes
  on, which is what `QueueGoesOn` needs to be inductive.

The count is the cardinality of a set that each step changes by at most one
element; `Counting` says so once. The lemmas on sequences (`RangeInSet`,
`Appended`, `Removed`, `Inserted`) say what the edits of the list do to the set
of its accounts. `TypeOK` of this module is not proved: `fillQueue()` filters
with `SelectSeq`, which takes an operator, and no library theorem types it.

*Resource folder.* `IndexMatchesRows` allows a file two rows, under its enabled and
its disabled name, and then to toggle one of them would make two rows of one
name. `IInv` is the conjunction of

- `Flags` and `Tasks`: the types of the flags, of the bound and of the parse tasks;
- `Folder` and `Scanned`: neither the folder nor the result of a scan has a file
  under both its names. In the model nobody puts a file beside its other name
  (`Write`), which is the case in which the code's scan renames the disabled one;
- `List`: a file has one row, under one of its names, and the index leads from the
  names of the rows to their places.

`Erasure` says what `Erase` computes for every list and every set of places: the
rows that are not erased, all of them and in their order. It is the induction
over the places: `Walk` says how far the recursive function has come after `k`
steps, and the set of the `k` for which this is right contains 0 and the
successors of its numbers (`NatSet`, from `LeastNat`, the well-foundedness of the
natural numbers). `Embeds` is the order-preserving map from what is left to what
there was.

*Instance list.* `IInv` is the conjunction of

- `Books`: the types of list and file, `CountsExact`, and `Recorded`: what the
  user sees of the groups is what the file says; or there is no file, and then
  there are no groups; or the list is empty and has not read the file; or the last
  write failed. Hence a list that finds nothing and has not read its groups must
  stay empty;
- `Folders`: the folders are a list the settings may have, and the instances on
  disk are finitely many, in such folders;
- `Shelf`: the rows are of instances in the listed folders, one row for each
  instance, and `ReloadDue`: rows that are not what is on disk will be looked at
  again. That an instance has one row is what makes the comparison by
  identifiers in `loadList()` find every row that is dead;
- `TrashOK` and `StageOK`: an undo knows a group and a place in a folder, and a
  commit a group and one of the present folders.

`RowsRemoved` says what the walk in `loadList()` computes: the rows that are not
dead. Between two rows the walk may hold a range that is not yet cut out
(`Hanging`), and `Met` says what it has done so far in both cases; `FirstLook`,
`NextLook` and `LongerWalk` are the steps, and the induction is that of `Erasure`.
`LoadRows` concludes that after a load the rows are what is on disk. A step
leaves the rows in one of four ways, each a lemma: `ShelfLoaded`, `ShelfProvided`,
`ShelfStays`, and `ShelfChanged`, where folders changed and something is still to
be noticed. In the same way `AfterLoad`, `AfterProvided` and `AfterSave` are the three
ways in which a step leaves groups and file; `Leaves` and `Joins` are the two
changes of a count. `GroupsRight` needs that the reload at the end of a step gives
an instance the group that the file has for it (`Knows`, `FileKnows`,
`GroupStays`), and of a restart that it has read what was saved, if it was.

## 5. What is left to TLC, and what is not modelled

- Liveness (`Finishes`, `Settles`, `JobFinishes`, `RequestServed`, `KilledEnds`,
  `SettlesOnDisk`) rests on fairness, which the proof system does not handle,
  and is model-checked only. So is ENABLED.
- Every other property of the passing runs is proved as well. A theorem with an
  operator as a parameter cannot be used with the installed provers, and so
  neither the library's induction theorems nor its facts about folds and
  filters; the modules that are proved about walk their lists with recursive
  functions, and the inductions are over sets of numbers. `Accounts.TypeOK`, whose
  queue is filtered by `SelectSeq`, is neither proved nor a property of a run.
- The four properties that are violated (findings 1 to 4) are TLC's alone.
- `MetaCache` has one base, folds Last-Modified with the ETag and takes
  `max-age` and `Age` as one lifetime. A 304 does not renew the time of the file,
  so that an entry that was revalidated expires at once; this is in the model
  and costs traffic, not truth.
- `Launch` leaves out play time, the crashed flag, log and censoring, and what
  steps do to files. `BaseInstance`'s flag for a running game is not separate.
- `ResourceFolder` leaves out downloads with platform metadata and the
  filtering of the table. Of a toggle it leaves out the confirmation dialogs
  (`ResourceFolderModel.cpp:267`, only while the game runs, and
  `ModFolderModel.cpp:558`), during which the list may change under the chosen rows:
  in the model any row is toggled at any time, which is what can happen to the
  row that is valid after the dialog, but not that a row is gone by then. Mods that
  are toggled because others depend on them are several toggles; that their names
  are looked up with `m_resourcesIndex[...]` (`ModFolderModel.cpp:473`, 520), which
  enters a name that is not listed as row 0, is outside of the model.
- `InstanceList` leaves out the group entries of instances without a group,
  shortcuts, files that cannot be read, and folders whose `instance.cfg` has an
  `InstanceType` that is not known (`InstanceList.cpp:742`): these claim their id
  and are never listed, while the model lists every folder that is found.
- Metadata entities, the component list and its resolution, settings, and the
  long sequential tasks that create, import and copy instances are not modelled:
  the components in `PROJECT.json` say why. Their asynchronous skeleton is that
  of the task containers and of download jobs.
- Object lifetime (`m_reply` is deleted while it is delivering a signal) is
  below the level of these models; it is listed as a hazard without a property.
- A start of a sub-task that is posted when its container is aborted runs all
  the same. The model has this behaviour (`DeliverStart` does not ask for the
  container); no document says that it should not happen, so there is a hazard
  and no property. In the same way an explicit refresh passes by the question
  whether a game uses the account, and the retries of a commit cannot be
  aborted.

## 6. State of the plan

Done, in this order: `TaskPool`, `ConcurrentTask`, `NetRequest`, `NetJob`,
`MetaCache`, `Accounts`, `Launch`, `ResourceFolder`, `InstanceList`; proofs of
the container, the request, the cache, the launch, the accounts, the job, the
resource folder, and the rows and groups of the instance list.

What would come next: the load task of `meta/BaseEntity`, shared by callers with
different modes, and the rounds of `ComponentUpdateTask` on top of it.
