---------------------------- MODULE StatusPoller ----------------------------
(***************************************************************************)
(* StatusPoller of pkg/operator/status.go: a goroutine that, on every      *)
(* ticker tick, walks the workload resources (StatusReconciler.Iterate)    *)
(* and calls RefreshStatusFor on those whose reported status shows         *)
(* missing replicas or an Available condition that is not True.           *)
(*                                                                         *)
(* RefreshStatusFor enqueues the resource on the reconciler's work queue   *)
(* (a set: the queue de-duplicates keys); a status reconciliation later    *)
(* copies the cluster's actual state into the reported status. The        *)
(* cluster changes its actual state (pods becoming ready, a rollout        *)
(* progressing); the watch event that would trigger a reconciliation may   *)
(* be lost, which is the case the poller exists for.                       *)
(***************************************************************************)
EXTENDS Naturals, FiniteSets

CONSTANTS
  Resources,     \* the workload resources Iterate visits
  Expected,      \* [Resources -> Nat]: ExpectedReplicas() of each resource
  MaxChanges     \* bound on changes of the cluster's actual state

\* A workload's state as its status reports it: updated and available
\* replicas and the status of its Available condition ("None" when the
\* status has no Available condition yet).
Status(r) == [upd : 0..Expected[r], avail : 0..Expected[r],
              cond : {"True", "False", "None"}]

VARIABLES
  phase,       \* "wait" (in select), "scan" (inside Iterate), "stopped"
  ctxDone,     \* the context has been cancelled
  toVisit,     \* resources Iterate has not yet visited in this tick
  refreshes,   \* [Resources -> Nat]: RefreshStatusFor calls in this tick
  queue,       \* resources waiting for a status reconciliation
  reported,    \* [Resources -> Status]: the status subresource
  actual,      \* [Resources -> Status]: what a reconciliation would report
  changes      \* number of actual-state changes so far

vars == <<phase, ctxDone, toVisit, refreshes, queue, reported, actual, changes>>

----------------------------------------------------------------------------
(* The poller loop.                                                        *)

\* case <-ticker.C: start a walk over all resources. Go's select picks at
\* random among ready cases, so a tick may win over a cancelled context.
Tick ==
  /\ phase = "wait"
  /\ phase' = "scan"
  /\ toVisit' = Resources
  /\ refreshes' = [r \in Resources |-> 0]
  /\ UNCHANGED <<ctxDone, queue, reported, actual, changes>>

\* Mutant: the select has no ctx.Done() case (a `for range ticker.C` loop).
StopNeverSelected ==
  /\ FALSE
  /\ phase' = "stopped"
  /\ UNCHANGED <<ctxDone, toVisit, refreshes, queue, reported, actual, changes>>

\* case <-ctx.Done(): return (the deferred ticker.Stop()).
Stop ==
  /\ phase = "wait"
  /\ ctxDone
  /\ phase' = "stopped"
  /\ UNCHANGED <<ctxDone, toVisit, refreshes, queue, reported, actual, changes>>

\* Whether the replica counts differ from ExpectedReplicas().
ReplicasMismatch(r) ==
  reported[r].upd # Expected[r] \/ reported[r].avail # Expected[r]

\* Whether the loop over GetConditions() meets an Available condition whose
\* status is not True.
AvailableNotTrue(r) == reported[r].cond = "False"

\* Mutant: only the condition rule.
RefreshCallsConditionOnly(r) == IF AvailableNotTrue(r) THEN 1 ELSE 0

\* The visit callback for one resource: one RefreshStatusFor call for the
\* replica rule and, independently, one for the condition rule.
RefreshCalls(r) ==
  (IF ReplicasMismatch(r) THEN 1 ELSE 0) + (IF AvailableNotTrue(r) THEN 1 ELSE 0)

VisitResource(r) ==
  /\ phase = "scan"
  /\ r \in toVisit
  /\ toVisit' = toVisit \ {r}
  /\ refreshes' = [refreshes EXCEPT ![r] = RefreshCalls(r)]
  /\ queue' = IF RefreshCalls(r) > 0 THEN queue \cup {r} ELSE queue
  /\ UNCHANGED <<phase, ctxDone, reported, actual, changes>>

\* Mutant: the walk ends as if `return` in the callback left Iterate.
EndScanEarly ==
  /\ phase = "scan"
  /\ phase' = "wait"
  /\ UNCHANGED <<ctxDone, toVisit, refreshes, queue, reported, actual, changes>>

\* Iterate returns: back to the select.
EndScan ==
  /\ phase = "scan"
  /\ toVisit = {}
  /\ phase' = "wait"
  /\ UNCHANGED <<ctxDone, toVisit, refreshes, queue, reported, actual, changes>>

----------------------------------------------------------------------------
(* The reconciler and the cluster.                                         *)

\* A status reconciliation of a queued resource reports its actual state.
ReconcileStatus(r) ==
  /\ r \in queue
  /\ queue' = queue \ {r}
  /\ reported' = [reported EXCEPT ![r] = actual[r]]
  /\ UNCHANGED <<phase, ctxDone, toVisit, refreshes, actual, changes>>

\* The actual state changes; the watch event enqueues the resource, or is
\* lost.
ClusterChange(r, s, delivered) ==
  /\ changes < MaxChanges
  /\ s # actual[r]
  /\ actual' = [actual EXCEPT ![r] = s]
  /\ queue' = IF delivered THEN queue \cup {r} ELSE queue
  /\ changes' = changes + 1
  /\ UNCHANGED <<phase, ctxDone, toVisit, refreshes, reported>>

Cancel ==
  /\ ~ctxDone
  /\ ctxDone' = TRUE
  /\ UNCHANGED <<phase, toVisit, refreshes, queue, reported, actual, changes>>

----------------------------------------------------------------------------

\* A reported status a reconciliation can have written.
Reportable(r) == {s \in Status(r) : s.cond # "None"}

Init ==
  /\ phase = "wait"
  /\ ctxDone = FALSE
  /\ toVisit = {}
  /\ refreshes = [r \in Resources |-> 0]
  /\ queue = {}
  /\ actual \in [Resources -> UNION {Reportable(r) : r \in Resources}]
  /\ \A r \in Resources : actual[r] \in Reportable(r)
  /\ reported \in [Resources -> UNION {Status(r) : r \in Resources}]
  /\ \A r \in Resources : reported[r] \in Status(r)
  /\ changes = 0

Poller ==
  \/ Tick
  \/ Stop
  \/ \E r \in Resources : VisitResource(r)
  \/ EndScan

Next ==
  \/ Poller
  \/ \E r \in Resources : ReconcileStatus(r)
  \/ \E r \in Resources : \E s \in Reportable(r), delivered \in BOOLEAN :
       ClusterChange(r, s, delivered)
  \/ Cancel
  \/ (phase = "stopped" /\ UNCHANGED vars)

(* The ticker fires forever while the goroutine waits, a walk finishes,   *)
(* the work queue is drained by the reconciler's workers, and select      *)
(* chooses uniformly among ready cases, so a pending cancellation is      *)
(* eventually taken (strong fairness).                                    *)
Spec ==
  /\ Init /\ [][Next]_vars
  /\ WF_vars(Tick) /\ WF_vars(EndScan) /\ SF_vars(Stop)
  /\ \A r \in Resources : WF_vars(VisitResource(r)) /\ WF_vars(ReconcileStatus(r))

----------------------------------------------------------------------------
(* Properties.                                                             *)

TypeOK ==
  /\ phase \in {"wait", "scan", "stopped"}
  /\ toVisit \subseteq Resources
  /\ queue \subseteq Resources
  /\ refreshes \in [Resources -> 0..2]
  /\ \A r \in Resources : reported[r] \in Status(r) /\ actual[r] \in Status(r)
  \* the callback returns, never Iterate: a walk visits every resource
  /\ phase = "wait" => toVisit = {}

Unhealthy(r) == ReplicasMismatch(r) \/ AvailableNotTrue(r)

\* Drift repair for degraded workloads (status.go comment): while the
\* poller runs, a resource whose reported status shows missing replicas or
\* a non-True Available condition eventually reports its actual state,
\* even when the watch event of the change was lost.
DegradedStatusRepaired ==
  \A r \in Resources :
    (Unhealthy(r) /\ ~ctxDone) ~> (reported[r] = actual[r] \/ ctxDone)

\* Cancellation is honoured (spec section 5): once the context is
\* cancelled the goroutine eventually returns, although Go's select may
\* keep choosing a ready tick over the closed ctx.Done() channel and start
\* further walks after the cancellation.
CancellationHonoured == ctxDone ~> (phase = "stopped")

\* The poller implements the promise of StatusRepair: it enqueues a
\* workload only while its reported status is degraded, eventually
\* enqueues every workload that stays degraded and unqueued, and returns
\* only, and surely, after cancellation. Ticks, walks and the visits of
\* healthy workloads are internal steps.
Repair == INSTANCE StatusRepair WITH running <- phase # "stopped"

StatusRepairSpec == Repair!Spec

\* Spec 4.4: "A resource can be triggered by either rule but is refreshed
\* at most once per tick."
RefreshedAtMostOncePerTick == \A r \in Resources : refreshes[r] <= 1

\* Spec section 1: the loop detects and corrects every object whose actual
\* state has silently drifted from its reported status.
DriftEventuallyCorrected ==
  \A r \in Resources :
    (reported[r] # actual[r] /\ ~ctxDone) ~> (reported[r] = actual[r] \/ ctxDone)

=============================================================================
