------------------------------ MODULE TaskPool ------------------------------
(***************************************************************************)
(* What a launcher task container promises to whoever starts it, without   *)
(* the event queue that implements it: tasks wait, at most Limit of them   *)
(* are active, each settles as good or bad, and a running pool closes.     *)
(*   "Concurrent"       closes when nothing waits and nothing is active;   *)
(*   "Sequential"       closes as Failed together with the first failure;  *)
(*   "MultipleOptions"  closes as Succeeded once one option is good.       *)
(***************************************************************************)
EXTENDS Naturals, FiniteSets

CONSTANTS Task,    \* the sub-tasks
          Width    \* how many a "Concurrent" pool may have active at once

VARIABLES mode,    \* which of the three kinds of container this is
          status,  \* the container's Task::State
          waiting, \* submitted and not yet handed out
          active,  \* handed out and not yet settled
          good,    \* settled with success
          bad      \* settled otherwise

vars == <<mode, status, waiting, active, good, bad>>

Limit == IF mode = "Concurrent" THEN Width ELSE 1

Init ==
  /\ mode \in {"Concurrent", "Sequential", "MultipleOptions"}
  /\ status = "Inactive"
  /\ waiting = {} /\ active = {} /\ good = {} /\ bad = {}

Submit(t) ==
  /\ t \notin waiting \cup active \cup good \cup bad
  /\ waiting' = waiting \cup {t}
  /\ UNCHANGED <<mode, status, active, good, bad>>

\* A pool opens with nothing active and nothing settled.
Open ==
  /\ status # "Running"
  /\ active = {} /\ good = {} /\ bad = {}
  /\ status' = "Running"
  /\ UNCHANGED <<mode, waiting, active, good, bad>>

\* One waiting task becomes active, if the limit allows it.
HandOut(t) ==
  /\ status = "Running"
  /\ t \in waiting
  /\ Cardinality(active) < Limit
  /\ mode = "MultipleOptions" => good = {}
  /\ mode = "Sequential" => bad = {}
  /\ waiting' = waiting \ {t}
  /\ active' = active \cup {t}
  /\ UNCHANGED <<mode, status, good, bad>>

SettleGood(t) ==
  /\ t \in active
  /\ active' = active \ {t}
  /\ good' = good \cup {t}
  /\ UNCHANGED <<mode, status, waiting, bad>>

\* A failure in a running sequence ends the sequence in the same step.
SettleBad(t) ==
  /\ t \in active
  /\ active' = active \ {t}
  /\ bad' = bad \cup {t}
  /\ status' = IF mode = "Sequential" /\ status = "Running" THEN "Failed"
                                                            ELSE status
  /\ UNCHANGED <<mode, waiting, good>>

CloseGood ==
  /\ status = "Running"
  /\ active = {}
  /\ IF mode = "MultipleOptions" THEN good # {} ELSE waiting = {} /\ bad = {}
  /\ status' = "Succeeded"
  /\ UNCHANGED <<mode, waiting, active, good, bad>>

CloseBad ==
  /\ status = "Running"
  /\ active = {} /\ waiting = {}
  /\ IF mode = "MultipleOptions" THEN good = {} ELSE bad # {}
  /\ status' = "Failed"
  /\ UNCHANGED <<mode, waiting, active, good, bad>>

\* Cancelling drops what waits; some active tasks may settle as bad at once.
\* The pool ends only if something was active: an idle cancel leaves it open.
Cancel ==
  /\ waiting' = {}
  /\ \E S \in SUBSET active : active' = active \ S /\ bad' = bad \cup S
  /\ status' \in IF active # {} /\ status = "Running"
                   THEN {"AbortedByUser", "Failed"} ELSE {status}
  /\ UNCHANGED <<mode, good>>

Reset ==
  /\ status # "Running"
  /\ waiting' = {} /\ active' = {} /\ good' = {} /\ bad' = {}
  /\ UNCHANGED <<mode, status>>

Progress == CloseGood \/ CloseBad \/ \E t \in Task : HandOut(t)

Next ==
  \/ Open \/ Cancel \/ Reset \/ Progress
  \/ \E t \in Task : Submit(t) \/ SettleGood(t) \/ SettleBad(t)

Spec == Init /\ [][Next]_vars
=============================================================================
