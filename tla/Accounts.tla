------------------------------- MODULE Accounts -------------------------------
(***************************************************************************)
(* minecraft/auth: the account list with its queue of background refreshes *)
(* (AccountList.cpp), the accounts in it (MinecraftAccount.cpp) and the    *)
(* authentication flow of each of them (AuthFlow.cpp).                     *)
(*                                                                         *)
(* A flow is shared by everybody who asks for a refresh of its account:    *)
(* the list, a launch that waits for it in a dialog, where the user may    *)
(* abort it, and the skin dialog, which queues it behind its uploads and   *)
(* may never start it.  The list is connected to flows by signals, and it  *)
(* holds the last one it started, so that an aborted flow may outlive the  *)
(* account's interest in it and go on with its step.                       *)
(***************************************************************************)
EXTENDS Naturals, Sequences, SequencesExt

CONSTANTS
  Account,
  OfflineAccount, \* accounts without authentication steps
  MaxRequests,    \* bound on the refreshes the user requests
  MaxAborts,      \* bound on the flows the user aborts
  MaxEdits        \* bound on the changes of the list and of the accounts in use

ASSUME AccountAssumption ==
  /\ IsFiniteSet(Account) /\ OfflineAccount \subseteq Account /\ "none" \notin Account
  /\ MaxRequests \in Nat /\ MaxAborts \in Nat /\ MaxEdits \in Nat

VARIABLES
  accounts,     \* m_accounts
  default,      \* m_defaultAccount
  queue,        \* m_refreshQueue
  explicit,     \* m_explicitRefreshes
  current,      \* m_currentTask of the list: the account of the flow
  orphan,       \* that flow was aborted, and its step is pending or over
  refreshTimer, nextTimer, \* m_refreshTimer and m_nextTimer are running
  activity,     \* m_activityCount
  task,         \* m_currentTask of each account: none, created or running
  heard,        \* accounts whose flow the list listens to
  working,      \* accounts with data.accountState Working, the one the code waits on
  validity,     \* data.validity_; Aging is Certain with less than 12 hours left
  inUse,        \* accounts that a game uses
  gone,         \* accounts that were removed or replaced
  lost,         \* history: those of them that were active when they were
  haunted,      \* history: accounts whose aborted flow went on
  requests, aborts, edits \* counted for the bounds

list == <<accounts, default, gone, lost>>
waiting == <<queue, explicit, refreshTimer>>
held == <<current, orphan, nextTimer, heard>>
account == <<activity, task, working, validity>>
user == <<inUse, haunted, requests, aborts, edits>>
vars == <<list, waiting, held, account, user>>

Listed == Range(accounts)
\* How a flow ends.  Errored stands for every failure that leaves the token as
\* it was (also Offline and Disabled), Expired also for Gone.
Outcomes == {"Online", "Errored", "Expired"}

\* The list has just been loaded; that refreshTimer runs stands for the call
\* of fillQueue() with which the application goes on.
Init ==
  /\ \E n \in 0 .. 2 : accounts \in {s \in [1 .. n -> Account] : IsInjective(s)}
  /\ default \in Listed \cup {"none"} /\ gone = {} /\ lost = {}
  /\ queue = <<>> /\ explicit = {} /\ refreshTimer = TRUE
  /\ current = "none" /\ orphan = "no" /\ nextTimer = FALSE /\ heard = {}
  /\ activity = 0 /\ task = [a \in Account |-> "none"]
  /\ working = {}
  /\ validity \in {v \in [Account -> {"None", "Assumed"}] :
                     \A a \in Account \ Listed : v[a] = "Assumed"}
  /\ inUse = {} /\ haunted = {}
  /\ requests = 0 /\ aborts = 0 /\ edits = 0
-----------------------------------------------------------------------------
ShouldRefresh(a) ==
  /\ a \notin inUse
  /\ validity[a] \in {"Assumed", "Aging"}

\* The activity signal of an account reaches the list while it is listed.
Begin(a) == activity' = IF a \in Listed THEN activity + 1 ELSE activity
NotEnded(a) == UNCHANGED activity                             \* mutant
\* endActivity() refuses to go below zero.
End(a) == activity' = IF a \in Listed /\ activity > 0 THEN activity - 1 ELSE activity

\* MinecraftAccount::authSucceeded() and authFailed().
Outcome(a, outcome) ==
  /\ task' = [task EXCEPT ![a] = "none"]
  /\ working' = IF outcome = "Working" THEN working ELSE working \ {a}
  /\ validity' = [validity EXCEPT ![a] = CASE outcome = "Online" -> "Certain"
                                           [] outcome = "Expired" -> "None"
                                           [] OTHER -> @]

\* The flow of an account starts: it fails on the spot, it succeeds on the
\* spot if it has no steps, or its first step runs.
StartsAs(a) == IF a \in OfflineAccount THEN {"Online"} ELSE {"Errored", "Working"}
FlowStarts(a, now) ==
  IF now = "Working"
    THEN /\ task' = [task EXCEPT ![a] = "running"]
         /\ working' = working \cup {a}
         /\ IF task[a] = "none" THEN Begin(a) ELSE UNCHANGED activity
         /\ UNCHANGED validity
    ELSE /\ Outcome(a, now)
         /\ IF task[a] = "none" THEN UNCHANGED activity ELSE End(a)

TimerForgotten == current' = "none" /\ orphan' = "no" /\ UNCHANGED nextTimer  \* mutant
\* AccountList::authSucceeded() and authFailed(): whatever flow the list
\* holds is let go.
Heard == current' = "none" /\ orphan' = "no" /\ nextTimer' = TRUE

\* The places in q of the accounts the loop of tryNext() may settle for; it
\* takes the first.
Due(q, ex) == {i \in DOMAIN q : q[i] \in Listed /\ (q[i] \in ex \/ ShouldRefresh(q[i]))}

\* refresh() and start(), which does nothing to a flow that runs already.
Refresh(a, soon) ==
  \/ /\ task[a] = "running"
     /\ current' = a /\ orphan' = "no" /\ nextTimer' = soon /\ heard' = heard \cup {a}
     /\ UNCHANGED account
  \/ /\ task[a] # "running"
     /\ \E now \in StartsAs(a) :
          /\ FlowStarts(a, now)
          /\ IF now = "Working"
               THEN current' = a /\ orphan' = "no" /\ nextTimer' = soon /\ heard' = heard \cup {a}
               ELSE Heard /\ UNCHANGED heard

\* tryNext() on the queue q and the explicit requests ex; `hourly' and `soon'
\* tell whether the timers run when it is entered.
TryNext(q, ex, hourly, soon) ==
  \/ /\ Due(q, ex) = {}
     /\ queue' = <<>> /\ explicit' = ex \ Range(q) /\ refreshTimer' = TRUE
     /\ nextTimer' = soon
     /\ UNCHANGED <<current, orphan, heard, account>>
  \/ \E i \in Due(q, ex) :
        /\ \A j \in Due(q, ex) : i <= j
        /\ queue' = SubSeq(q, i + 1, Len(q))
        /\ explicit' = ex \ {q[j] : j \in 1 .. i}
        /\ refreshTimer' = hourly
        /\ Refresh(q[i], soon)
-----------------------------------------------------------------------------
\* fillQueue(): the default account first, whether or not it is queued.
Filled ==
  LET q == IF default # "none" /\ ShouldRefresh(default) THEN Append(queue, default) ELSE queue
      Missing(a) == a # default /\ ShouldRefresh(a) /\ a \notin Range(q)
  IN q \o SelectSeq(accounts, Missing)

RefreshTimeout ==
  /\ refreshTimer
  /\ TryNext(Filled, explicit, FALSE, nextTimer)
  /\ UNCHANGED <<list, user>>
NextTimeout ==
  /\ nextTimer
  /\ TryNext(queue, explicit, refreshTimer, FALSE)
  /\ UNCHANGED <<list, user>>

\* requestRefresh(), which the page offers for accounts that are not active.
RequestRefresh(a) ==
  LET q == <<a>> \o RemoveFirst(queue, a)
      ex == explicit \cup {a}
  IN
  /\ a \in Listed \ OfflineAccount /\ task[a] = "none"
  /\ requests < MaxRequests
  /\ requests' = requests + 1
  /\ IF activity = 0
       THEN TryNext(q, ex, refreshTimer, nextTimer)
       ELSE queue' = q /\ explicit' = ex /\ UNCHANGED <<refreshTimer, held, account>>
  /\ UNCHANGED <<list, inUse, haunted, aborts, edits>>

\* A launch or the skin dialog asks for a flow, and starts it later or never.
AskForFlow(a) ==
  /\ task[a] = "none" /\ a \in Listed
  /\ task' = [task EXCEPT ![a] = "created"]
  /\ Begin(a)
  /\ UNCHANGED <<list, waiting, held, working, validity, user>>
StartFlow(a) ==
  /\ task[a] = "created"
  /\ \E now \in StartsAs(a) : FlowStarts(a, now)
  /\ UNCHANGED <<list, waiting, held, user>>

\* The steps of a running flow have come to an end.
FlowEnds(a, outcome) ==
  /\ task[a] = "running"
  /\ Outcome(a, outcome)
  /\ End(a)
  /\ IF a \in heard THEN Heard ELSE UNCHANGED <<current, orphan, nextTimer>>
  /\ heard' = heard \ {a}
  /\ UNCHANGED <<list, waiting, user>>

StillWorking == "Working"                                     \* mutant
StateOfAbort == "Unchecked"
\* AuthFlow::abort() while somebody waits for the flow in a dialog.  The list
\* does not listen to aborted().
AbortFlow(a) ==
  /\ task[a] = "running"
  /\ aborts < MaxAborts
  /\ aborts' = aborts + 1
  /\ Outcome(a, StateOfAbort)
  /\ End(a)
  /\ orphan' = IF current = a /\ orphan = "no" THEN "pending" ELSE orphan
  /\ heard' = heard \ {a}
  /\ UNCHANGED <<list, waiting, current, nextTimer, inUse, haunted, requests, edits>>

\* The step of an aborted flow that the list still holds is over: the flow
\* writes the state of the account, and stops.
OrphanStep ==
  /\ orphan = "pending"
  /\ orphan' = "over"
  /\ working' \in {working \cup {current}, working \ {current}}
  /\ haunted' = haunted \cup {current}
  /\ UNCHANGED <<list, waiting, current, nextTimer, heard, activity, task,
                 validity, inUse, requests, aborts, edits>>
-----------------------------------------------------------------------------
Edited == edits < MaxEdits /\ edits' = edits + 1 /\ UNCHANGED <<haunted, requests, aborts>>

\* What becomes of the list's count when it is disconnected from an account.
Disconnected(S) ==
  /\ gone' = gone \cup S
  /\ lost' = lost \cup {a \in S : task[a] # "none"}

\* addAccount() of a new account, just logged in, perhaps with the profile of
\* one that is listed.
AddAccount(a) ==
  /\ a \notin Listed \cup gone
  /\ \/ /\ accounts' = Append(accounts, a) /\ UNCHANGED <<default, gone, lost>>
     \/ \E i \in DOMAIN accounts :
          /\ accounts' = [accounts EXCEPT ![i] = a]
          /\ default' = IF default = accounts[i] THEN a ELSE default
          /\ Disconnected({accounts[i]})
  /\ working' = working \ {a}
  /\ validity' = [validity EXCEPT ![a] = "Certain"]
  /\ Edited /\ UNCHANGED <<waiting, held, activity, task, inUse>>

RemoveAccount(i) ==
  /\ accounts' = RemoveAt(accounts, i)
  /\ default' = IF default = accounts[i] THEN "none" ELSE default
  /\ Disconnected({accounts[i]})
  /\ Edited /\ UNCHANGED <<waiting, held, account, inUse>>

MoveAccount(i, to) ==
  /\ to # i
  /\ accounts' = InsertAt(RemoveAt(accounts, i), to, accounts[i])
  /\ Edited /\ UNCHANGED <<default, gone, lost, waiting, held, account, inUse>>

SetDefaultAccount(a) ==
  /\ a # default
  /\ default' = a
  /\ Edited /\ UNCHANGED <<accounts, gone, lost, waiting, held, account, inUse>>

\* A game takes an account or is the last to let it go; a token ages.
Claim(a) ==
  /\ inUse' = IF a \in inUse THEN inUse \ {a} ELSE inUse \cup {a}
  /\ Edited /\ UNCHANGED <<list, waiting, held, account>>
Expire(a) ==
  /\ validity[a] = "Certain"
  /\ validity' = [validity EXCEPT ![a] = "Aging"]
  /\ UNCHANGED <<list, waiting, held, activity, task, working, user>>

Ends(a) == \E o \in Outcomes : FlowEnds(a, o)
Next ==
  \/ RefreshTimeout \/ NextTimeout \/ OrphanStep
  \/ \E a \in Account :
       \/ RequestRefresh(a) \/ AskForFlow(a) \/ StartFlow(a) \/ Ends(a) \/ AbortFlow(a)
       \/ AddAccount(a) \/ Claim(a) \/ Expire(a)
  \/ \E a \in Listed \cup {"none"} : SetDefaultAccount(a)
  \/ \E i \in DOMAIN accounts : RemoveAccount(i) \/ \E to \in DOMAIN accounts : MoveAccount(i, to)

Spec == Init /\ [][Next]_vars
\* Timers fire, and a flow that runs comes to its end: its steps are requests
\* with a timeout.
FairSpec ==
  Spec /\ WF_vars(RefreshTimeout) /\ WF_vars(NextTimeout)
       /\ \A a \in Account : WF_vars(Ends(a))
-----------------------------------------------------------------------------
TypeOK ==
  /\ accounts \in Seq(Account) /\ default \in Account \cup {"none"}
  /\ gone \subseteq Account /\ lost \subseteq gone
  /\ queue \in Seq(Account) /\ explicit \subseteq Account
  /\ refreshTimer \in BOOLEAN /\ nextTimer \in BOOLEAN
  /\ current \in Account \cup {"none"} /\ orphan \in {"no", "pending", "over"}
  /\ heard \subseteq Account
  /\ activity \in Nat /\ task \in [Account -> {"none", "created", "running"}]
  /\ working \subseteq Account
  /\ validity \in [Account -> {"None", "Assumed", "Certain", "Aging"}]
  /\ inUse \subseteq Account /\ haunted \subseteq Account
  /\ requests \in 0 .. MaxRequests /\ aborts \in 0 .. MaxAborts /\ edits \in 0 .. MaxEdits

\* The activity count, on which it depends whether a request starts the queue,
\* is the number of listed accounts with a flow, plus one for good for every
\* account that was removed or replaced while it had one.
ActivityIsCounted ==
  activity = Cardinality({a \in Listed : task[a] # "none"} \cup lost)

\* The refreshes go on: a timer runs, or the list waits for a flow that will
\* tell it of its end.  The exception is the code's: the list does not listen
\* to aborted(), and when the flow it holds is aborted everything stops until
\* the user requests a refresh.
QueueGoesOn ==
  refreshTimer \/ nextTimer \/ orphan # "no" \/ \E a \in heard : task[a] = "running"

\* LaunchController::decideLaunchMode() takes the flow of a Working account to
\* be there and dereferences it.  It is, unless an aborted flow that the list
\* still held wrote the state once more.
WorkingHasFlow ==
  \A a \in Account \ haunted : a \in working => task[a] = "running"

\* A refresh that the user requests is carried out, or its account is gone, or
\* the queue has met an abort.
RequestServed ==
  \A a \in Account : a \in explicit ~> (a \notin explicit \/ orphan # "no")
=============================================================================
