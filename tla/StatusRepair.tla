---------------------------- MODULE StatusRepair ----------------------------
(***************************************************************************)
(* What the status poller promises (spec section 4.4 and the comment of   *)
(* StatusPoller in pkg/operator/status.go), without ticks or walks: while *)
(* it runs, it asks for a status refresh of a workload only when the      *)
(* workload's reported status is degraded (replicas missing against the   *)
(* expected count, or an Available condition that is not True), and it    *)
(* eventually asks for every workload that stays degraded and unqueued;   *)
(* it stops only after the context is cancelled, and then surely stops.  *)
(*                                                                         *)
(* The work queue, the status reconciliation and the cluster are those of *)
(* StatusPoller: a refresh request puts the workload on the queue, a      *)
(* reconciliation reports its actual state, and the actual state changes  *)
(* with a watch event that may be lost.                                   *)
(***************************************************************************)
EXTENDS Naturals, FiniteSets

CONSTANTS Resources, Expected, MaxChanges

\* Reported status: updated and available replicas, Available condition.
Status(r) == [upd : 0..Expected[r], avail : 0..Expected[r],
              cond : {"True", "False", "None"}]

Reportable(r) == {s \in Status(r) : s.cond # "None"}

VARIABLES
  running,   \* the poller has not returned
  ctxDone,   \* the context has been cancelled
  queue,     \* workloads waiting for a status reconciliation
  reported,  \* the status subresources
  actual,    \* what a reconciliation would report
  changes    \* changes of the actual state so far

vars == <<running, ctxDone, queue, reported, actual, changes>>

\* Spec 4.4: replicas differ from the expected count, or the Available
\* condition has a status other than True.
Degraded(r) ==
  \/ reported[r].upd # Expected[r]
  \/ reported[r].avail # Expected[r]
  \/ reported[r].cond = "False"

Init ==
  /\ running = TRUE
  /\ ctxDone = FALSE
  /\ queue = {}
  /\ actual \in [Resources -> UNION {Reportable(r) : r \in Resources}]
  /\ \A r \in Resources : actual[r] \in Reportable(r)
  /\ reported \in [Resources -> UNION {Status(r) : r \in Resources}]
  /\ \A r \in Resources : reported[r] \in Status(r)
  /\ changes = 0

\* The poller asks for a refresh of a degraded workload.
RequestRefresh(r) ==
  /\ running
  /\ Degraded(r)
  /\ r \notin queue
  /\ queue' = queue \cup {r}
  /\ UNCHANGED <<running, ctxDone, reported, actual, changes>>

Halt ==
  /\ running
  /\ ctxDone
  /\ running' = FALSE
  /\ UNCHANGED <<ctxDone, queue, reported, actual, changes>>

Reconcile(r) ==
  /\ r \in queue
  /\ queue' = queue \ {r}
  /\ reported' = [reported EXCEPT ![r] = actual[r]]
  /\ UNCHANGED <<running, ctxDone, actual, changes>>

Change(r, s, delivered) ==
  /\ changes < MaxChanges
  /\ s # actual[r]
  /\ actual' = [actual EXCEPT ![r] = s]
  /\ queue' = IF delivered THEN queue \cup {r} ELSE queue
  /\ changes' = changes + 1
  /\ UNCHANGED <<running, ctxDone, reported>>

Cancel ==
  /\ ~ctxDone
  /\ ctxDone' = TRUE
  /\ UNCHANGED <<running, queue, reported, actual, changes>>

Next ==
  \/ \E r \in Resources : RequestRefresh(r) \/ Reconcile(r)
  \/ \E r \in Resources : \E s \in Reportable(r), d \in BOOLEAN : Change(r, s, d)
  \/ Halt
  \/ Cancel
  \/ (~running /\ UNCHANGED vars)

\* A degraded workload that nobody queued is eventually asked for; a
\* cancelled poller eventually returns; queued work is reconciled.
Spec ==
  /\ Init /\ [][Next]_vars
  /\ WF_vars(Halt)
  /\ \A r \in Resources : WF_vars(RequestRefresh(r)) /\ WF_vars(Reconcile(r))

====
