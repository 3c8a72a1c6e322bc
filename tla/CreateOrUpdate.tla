--------------------------- MODULE CreateOrUpdate ---------------------------
(***************************************************************************)
(* The optimistic-concurrency create-or-update helpers of                  *)
(* pkg/k8sutil/k8sutil.go: CreateOrUpdateService, CreateOrUpdateEndpoints, *)
(* CreateOrUpdateEndpointSlice, UpdateStatefulSet, UpdateDaemonSet and     *)
(* CreateOrUpdateSecret, each a closure run by retry.RetryOnConflict.      *)
(*                                                                         *)
(* Every caller (a reconcile worker) runs one call against one object      *)
(* identity per kind. The API server is the function `store`; other actors *)
(* (users, kubectl, other controllers) edit labels, restart workloads and  *)
(* delete objects between the caller's Get and Update. The caller's        *)
(* desired object is the Go pointer the closure mutates: it is kept across *)
(* retries in `desired`, exactly as the code keeps it.                     *)
(*                                                                         *)
(* Labels and annotations go through the same mergeMaps call; only labels  *)
(* are modelled. Data is abstracted: keys, values, owners and payloads are *)
(* model values.                                                           *)
(***************************************************************************)
EXTENDS Naturals, Sequences, FiniteSets, TLC

LOCAL INSTANCE SequencesExt

CONSTANTS
  Kinds,           \* the resource kinds exercised, one object identity each
  Procs,           \* concurrent callers
  ProcKind,        \* [Procs -> Kinds]: which helper each caller runs
  Keys, Vals,      \* label keys and values
  TmplKeys,        \* pod-template annotation keys
  KubectlKeys,     \* those of TmplKeys carrying the "kubectl.kubernetes.io/" prefix
  Owners,          \* owner references
  Data,            \* spec / data payloads
  Desired,         \* [Procs -> SUBSET Obj]: objects a caller may pass in
  InitStore,       \* [Kinds -> SUBSET (Obj \cup {Absent})]: initial cluster state
  RetrySteps,      \* retry.DefaultRetry.Steps: attempts made by RetryOnConflict
  MaxExternal,     \* bound on edits by other actors
  TransportErrors, \* whether API calls may fail with a non-conflict error
  Nil              \* model value: a nil Go map

Absent == [absent |-> TRUE] \* no object stored under this identity
NoIP   == "none"          \* an unset spec.clusterIP
IP     == "10.0.0.5"      \* the address the server allocates
NoUID  == "none"          \* metadata.uid of an object never stored
UID    == "uid"           \* metadata.uid set by the server on create
Removed == "removed"      \* an external edit deleting a label

Workloads == {"StatefulSet", "DaemonSet"}

Maps(K, V) == UNION {[D -> V] : D \in SUBSET K}

Obj == [rv : Nat, uid : {NoUID, UID}, named : BOOLEAN,
        labels : Maps(Keys, Vals), owners : Seq(Owners), ip : {NoIP, IP},
        tmpl : Maps(TmplKeys, Vals) \cup {Nil}, data : Data]

ASSUME KubectlKeys \subseteq TmplKeys
ASSUME ProcKind \in [Procs -> Kinds]
ASSUME RetrySteps \in Nat \ {0}

VARIABLES
  store,     \* [Kinds -> Obj \cup {Absent}]: the API server's objects
  clock,     \* next resourceVersion the server hands out
  pc,        \* [Procs -> {"get", "create", "update", "done"}]
  desired,   \* [Procs -> Obj]: the caller's object, mutated by the closure
  input,     \* [Procs -> Obj]: the object the caller passed in (history)
  attempt,   \* [Procs -> 1..RetrySteps]: the current RetryOnConflict step
  result,    \* [Procs -> results]: the error returned, "OK" for nil
  external   \* number of edits made by other actors

vars == <<store, clock, pc, desired, input, attempt, result, external>>

Results == {"none", "OK", "NotFound", "AlreadyExists", "Conflict", "Error"}

K(p) == ProcKind[p]

----------------------------------------------------------------------------
(* Merge helpers, lines 500-548.                                           *)

\* mergeMapsByPrefix(from, to, prefix): entries of `from` whose key has the
\* prefix are written into `to` (a fresh map when `to` is nil); `from` wins.
mergeMapsByPrefix(from, to, prefixed) ==
  LET f == IF from = Nil THEN <<>> ELSE from
      t == IF to = Nil THEN <<>> ELSE to
  IN  [k \in {x \in DOMAIN f : x \in prefixed} |-> f[k]] @@ t

\* Mutant: from and to swapped, so the old object's entries win.
mergeMapsOldWins(new, old) == mergeMapsByPrefix(old, new, Keys)

\* mergeMaps(new, old): the new object's entries win, old ones fill the gaps.
mergeMaps(new, old) == mergeMapsByPrefix(new, old, Keys)

\* Mutant: every new reference appended, without the `existing` lookup.
mergeOwnerReferencesAppendAll(old, new) == old \o new

\* mergeOwnerReferences(old, new): old references, then those of new absent
\* from old (checked against old only, so repeats within new are kept).
mergeOwnerReferences(old, new) ==
  old \o SelectSeq(new, LAMBDA r : r \notin ToSet(old))

\* Mutant: only the resourceVersion copied, the labels left as desired.
mergeMetadataNoLabels(new, old) == [new EXCEPT !.rv = old.rv]

\* mergeMetadata(&new, old): copy the resourceVersion, merge the labels.
mergeMetadata(new, old) ==
  [new EXCEPT !.rv = old.rv, !.labels = mergeMaps(new.labels, old.labels)]

\* Mutant: the existing template's annotations are not carried over.
mergeKubectlAnnotationsDropped(existingTmpl, desiredTmpl) == desiredTmpl

\* mergeKubectlAnnotations(&existing.template, desired.template): the merged
\* map is stored into the EXISTING template; the desired template only sees
\* it when its own map was non-nil (the map is shared by reference).
mergeKubectlAnnotations(existingTmpl, desiredTmpl) ==
  IF desiredTmpl = Nil THEN Nil
  ELSE mergeMapsByPrefix(existingTmpl, desiredTmpl, KubectlKeys)

----------------------------------------------------------------------------
(* Per-kind merge of the fetched object `c` into the desired object `d`.   *)

\* CreateOrUpdateService: immutable fields, owner references, metadata.
MergeService(d, c) ==
  LET withIP == [d EXCEPT !.ip = c.ip,
                          !.owners = mergeOwnerReferences(c.owners, d.owners)]
  IN  mergeMetadata(withIP, c)

\* Mutant: the StatefulSet merge forgets mergeMetadata's label merge.
MergeStatefulSetNoLabels(d, c) ==
  [d EXCEPT !.rv = c.rv, !.tmpl = mergeKubectlAnnotations(c.tmpl, d.tmpl)]

\* UpdateStatefulSet: metadata, then kubectl annotations of the template.
MergeStatefulSet(d, c) ==
  [mergeMetadata(d, c) EXCEPT !.tmpl = mergeKubectlAnnotations(c.tmpl, d.tmpl)]

\* UpdateDaemonSet: the same two merges on the DaemonSet template.
MergeDaemonSet(d, c) ==
  [mergeMetadata(d, c) EXCEPT !.tmpl = mergeKubectlAnnotations(c.tmpl, d.tmpl)]

\* Mutant: the comparison covers labels and owner references only, so a
\* change of the secret's data is taken for a no-op.
SemanticDeepEqualMetaOnly(a, b) == a.labels = b.labels /\ a.owners = b.owners

\* apiequality.Semantic.DeepEqual(existing, desired): every field, the
\* server-set uid included.
SemanticDeepEqual(a, b) == a = b

----------------------------------------------------------------------------
(* The API server (spec section 6): get/create/update on one identity.     *)

\* An empty map is stored and read back as nil.
Norm(m) == IF m # Nil /\ DOMAIN m = {} THEN Nil ELSE m

ServerCreate(k, d) ==
  [d EXCEPT !.rv = clock, !.uid = UID, !.tmpl = Norm(d.tmpl),
            !.ip = IF k = "Service" /\ d.ip = NoIP THEN IP ELSE d.ip]

ServerUpdate(o, d) ==
  [d EXCEPT !.rv = clock, !.uid = o.uid, !.tmpl = Norm(d.tmpl)]

Write(k, obj) ==
  /\ store' = [store EXCEPT ![k] = obj]
  /\ clock' = clock + 1

----------------------------------------------------------------------------
(* Steps of one closure run.                                               *)

Done(p, r) ==
  /\ pc' = [pc EXCEPT ![p] = "done"]
  /\ result' = [result EXCEPT ![p] = r]

\* Mutant: the create path taken without the Get's NotFound.
NotFoundCreateUnguarded(p) ==
  /\ pc' = [pc EXCEPT ![p] = "create"]
  /\ UNCHANGED <<store, clock, desired, result>>

\* Get failed with NotFound and the helper creates the object.
NotFoundCreate(p) ==
  /\ store[K(p)] = Absent
  /\ pc' = [pc EXCEPT ![p] = "create"]
  /\ UNCHANGED <<store, clock, desired, result>>

\* Get failed with NotFound and the helper returns it (no create path).
NotFoundReturn(p) ==
  /\ store[K(p)] = Absent
  /\ Done(p, "NotFound")
  /\ UNCHANGED <<store, clock, desired>>

\* The merge each helper applies to its desired object d and the fetch c.
MergeFor(p, d, c) ==
  CASE K(p) = "Service"     -> MergeService(d, c)
    [] K(p) = "StatefulSet" -> MergeStatefulSet(d, c)
    [] K(p) = "DaemonSet"   -> MergeDaemonSet(d, c)
    [] OTHER                -> mergeMetadata(d, c)

\* Get succeeded: merge the fetched object into the desired one, then Update.
FetchAndMerge(p) ==
  /\ store[K(p)] # Absent
  /\ desired' = [desired EXCEPT ![p] = MergeFor(p, desired[p], store[K(p)])]
  /\ pc' = [pc EXCEPT ![p] = "update"]
  /\ UNCHANGED <<store, clock, result>>

ServiceAttempt(p) ==
  /\ pc[p] = "get"
  /\ \/ NotFoundCreate(p)
     \/ FetchAndMerge(p)

EndpointsAttempt(p) ==
  /\ pc[p] = "get"
  /\ \/ NotFoundCreate(p)
     \/ FetchAndMerge(p)

\* An unnamed slice is created (generateName) without a Get.
EndpointSliceAttempt(p) ==
  /\ pc[p] = "get"
  /\ \/ /\ ~desired[p].named
        /\ pc' = [pc EXCEPT ![p] = "create"]
        /\ UNCHANGED <<store, clock, desired, result>>
     \/ /\ desired[p].named
        /\ \/ NotFoundCreate(p)
           \/ FetchAndMerge(p)

StatefulSetAttempt(p) ==
  /\ pc[p] = "get"
  /\ \/ NotFoundReturn(p)
     \/ FetchAndMerge(p)

DaemonSetAttempt(p) ==
  /\ pc[p] = "get"
  /\ \/ NotFoundReturn(p)
     \/ FetchAndMerge(p)

\* The secret is merged into a deep copy and the Update is skipped when the
\* merged desired object deep-equals the fetched one.
SecretAttempt(p) ==
  /\ pc[p] = "get"
  /\ \/ NotFoundCreate(p)
     \/ LET c == store[K(p)]
            m == mergeMetadata(desired[p], c)
        IN  /\ c # Absent
            /\ desired' = [desired EXCEPT ![p] = m]
            /\ IF SemanticDeepEqual(c, m)
                 THEN Done(p, "OK")
                 ELSE /\ pc' = [pc EXCEPT ![p] = "update"]
                      /\ UNCHANGED result
            /\ UNCHANGED <<store, clock>>

Attempt(p) ==
  CASE K(p) = "Service"       -> ServiceAttempt(p)
    [] K(p) = "Endpoints"     -> EndpointsAttempt(p)
    [] K(p) = "EndpointSlice" -> EndpointSliceAttempt(p)
    [] K(p) = "StatefulSet"   -> StatefulSetAttempt(p)
    [] K(p) = "DaemonSet"     -> DaemonSetAttempt(p)
    [] K(p) = "Secret"        -> SecretAttempt(p)

\* Create(desired). A generateName slice always gets a fresh object outside
\* the modelled identity; a named object fails when one already exists, and
\* the server refuses an object that carries a resourceVersion.
Create(p) ==
  LET d == desired[p]  o == store[K(p)]
  IN  /\ pc[p] = "create"
      /\ \/ /\ ~d.named
            /\ Done(p, "OK")
            /\ UNCHANGED <<store, clock>>
         \/ /\ d.named /\ o = Absent /\ d.rv = 0
            /\ Write(K(p), ServerCreate(K(p), d))
            /\ Done(p, "OK")
         \/ /\ d.named /\ o = Absent /\ d.rv # 0
            /\ Done(p, "Error")
            /\ UNCHANGED <<store, clock>>
         \/ /\ d.named /\ o # Absent
            /\ Done(p, "AlreadyExists")
            /\ UNCHANGED <<store, clock>>
      /\ UNCHANGED <<desired, attempt>>

\* Mutant: off-by-one in the retry bound.
OnConflictOffByOne(p) ==
  \/ /\ attempt[p] <= RetrySteps
     /\ attempt' = [attempt EXCEPT ![p] = @ + 1]
     /\ pc' = [pc EXCEPT ![p] = "get"]
     /\ UNCHANGED result
  \/ /\ attempt[p] > RetrySteps
     /\ Done(p, "Conflict")
     /\ UNCHANGED attempt

\* RetryOnConflict: a conflict restarts the closure until Steps attempts
\* were made, then the conflict is returned unwrapped.
OnConflict(p) ==
  \/ /\ attempt[p] < RetrySteps
     /\ attempt' = [attempt EXCEPT ![p] = @ + 1]
     /\ pc' = [pc EXCEPT ![p] = "get"]
     /\ UNCHANGED result
  \/ /\ attempt[p] = RetrySteps
     /\ Done(p, "Conflict")
     /\ UNCHANGED attempt

\* Update(desired): conflict on a stale resourceVersion, NotFound when the
\* object is gone.
Update(p) ==
  LET d == desired[p]  o == store[K(p)]
  IN  /\ pc[p] = "update"
      /\ \/ /\ o = Absent
            /\ Done(p, "NotFound")
            /\ UNCHANGED <<store, clock, attempt>>
         \/ /\ o # Absent /\ o.rv # d.rv
            /\ OnConflict(p)
            /\ UNCHANGED <<store, clock>>
         \/ /\ o # Absent /\ o.rv = d.rv
            /\ Write(K(p), ServerUpdate(o, d))
            /\ Done(p, "OK")
            /\ UNCHANGED attempt
      /\ UNCHANGED desired

\* A Get, Create or Update failing with any other error (transport,
\* cancelled context) is returned at once, without a retry.
CallFails(p) ==
  /\ TransportErrors
  /\ pc[p] \in {"get", "create", "update"}
  /\ Done(p, "Error")
  /\ UNCHANGED <<store, clock, desired, attempt>>

----------------------------------------------------------------------------
(* Other actors writing the same objects.                                  *)

ExtEditLabel(k, key, v) ==
  /\ external < MaxExternal
  /\ store[k] # Absent
  /\ LET l == store[k].labels
         l2 == IF v = Removed
                 THEN [x \in DOMAIN l \ {key} |-> l[x]]
                 ELSE (key :> v) @@ l
     IN  /\ l2 # l
         /\ Write(k, [store[k] EXCEPT !.labels = l2, !.rv = clock])
  /\ external' = external + 1
  /\ UNCHANGED <<pc, desired, input, attempt, result>>

\* kubectl rollout restart: sets a kubectl annotation on the pod template.
ExtRestart(k, key, v) ==
  /\ external < MaxExternal
  /\ k \in Workloads
  /\ store[k] # Absent
  /\ LET t == IF store[k].tmpl = Nil THEN <<>> ELSE store[k].tmpl
     IN  /\ ~(key \in DOMAIN t /\ t[key] = v)
         /\ Write(k, [store[k] EXCEPT !.tmpl = (key :> v) @@ t, !.rv = clock])
  /\ external' = external + 1
  /\ UNCHANGED <<pc, desired, input, attempt, result>>

ExtDelete(k) ==
  /\ external < MaxExternal
  /\ store[k] # Absent
  /\ store' = [store EXCEPT ![k] = Absent]
  /\ external' = external + 1
  /\ UNCHANGED <<clock, pc, desired, input, attempt, result>>

----------------------------------------------------------------------------

Init ==
  /\ store \in {s \in [Kinds -> UNION {InitStore[k] : k \in Kinds}] :
                   \A k \in Kinds : s[k] \in InitStore[k]}
  /\ clock = 2
  /\ input \in {d \in [Procs -> UNION {Desired[p] : p \in Procs}] :
                   \A p \in Procs : d[p] \in Desired[p]}
  /\ desired = input
  /\ pc = [p \in Procs |-> "get"]
  /\ attempt = [p \in Procs |-> 1]
  /\ result = [p \in Procs |-> "none"]
  /\ external = 0

Caller(p) ==
  \/ Attempt(p) /\ UNCHANGED <<input, attempt, external>>
  \/ Create(p) /\ UNCHANGED <<input, external>>
  \/ Update(p) /\ UNCHANGED <<input, external>>
  \/ CallFails(p) /\ UNCHANGED <<input, external>>

Environment ==
  \E k \in Kinds :
    \/ \E key \in Keys, v \in Vals \cup {Removed} : ExtEditLabel(k, key, v)
    \/ \E key \in KubectlKeys, v \in Vals : ExtRestart(k, key, v)
    \/ ExtDelete(k)

\* Every call has returned: the system stops.
Finished ==
  /\ \A p \in Procs : pc[p] = "done"
  /\ UNCHANGED vars

Next ==
  \/ \E p \in Procs : Caller(p)
  \/ Environment
  \/ Finished

\* Each call runs in its own goroutine and every API call returns.
Spec == Init /\ [][Next]_vars /\ \A p \in Procs : WF_vars(Caller(p))

----------------------------------------------------------------------------
(* Properties.                                                             *)

TypeOK ==
  /\ \A k \in Kinds : store[k] = Absent \/ store[k].rv \in Nat
  /\ pc \in [Procs -> {"get", "create", "update", "done"}]
  /\ attempt \in [Procs -> 1..RetrySteps]
  /\ result \in [Procs -> Results]
  /\ external \in 0..MaxExternal

\* A step in which caller p's Update or Create writes the store.
Writes(p) ==
  /\ pc[p] \in {"create", "update"} /\ result'[p] = "OK"
  /\ store' # store

\* Label merge precedence (spec 4.1, mergeMetadata): whatever the store
\* held and however many retries were needed, the object p writes carries
\* every label p asked for with p's value, and keeps every label key the
\* stored object had just before the write.
LabelMergeSafe ==
  [][\A p \in Procs :
       Writes(p) =>
         LET new == store'[K(p)].labels  want == input[p].labels
         IN  /\ \A key \in DOMAIN want : key \in DOMAIN new /\ new[key] = want[key]
             /\ store[K(p)] # Absent =>
                  DOMAIN store[K(p)].labels \subseteq DOMAIN new]_vars

\* A label p does not ask for is written back exactly as the store held it
\* at the write: the Update never reverts or resurrects another actor's
\* label edit (spec 4.1 merges the object fetched in THIS attempt).
ForeignLabelsUntouched ==
  [][\A p \in Procs :
       (Writes(p) /\ store[K(p)] # Absent) =>
         LET new == store'[K(p)].labels  old == store[K(p)].labels
             mine == DOMAIN input[p].labels
         IN  /\ DOMAIN new \ mine = DOMAIN old \ mine
             /\ \A key \in DOMAIN old \ mine : new[key] = old[key]]_vars

\* Owner-reference union (CreateOrUpdateService): a write never drops an
\* owner reference the stored Service had, always adds the caller's own,
\* and never lists one twice; with two owners racing on the shared
\* governing Service this takes the conflict-retry path.
OwnerReferencesUnion ==
  [][\A p \in Procs :
       (Writes(p) /\ K(p) = "Service") =>
         LET new == store'[K(p)].owners
             before == IF store[K(p)] = Absent THEN {} ELSE ToSet(store[K(p)].owners)
         IN  /\ before \cup ToSet(input[p].owners) \subseteq ToSet(new)
             /\ Len(new) = Cardinality(ToSet(new))]_vars

\* kubectl annotations on the pod template (UpdateStatefulSet /
\* UpdateDaemonSet): an Update keeps every "kubectl.kubernetes.io/"
\* annotation the stored template had, with its value, so reconciliation
\* never undoes a `kubectl rollout restart`.
KubectlAnnotationsKept ==
  [][\A p \in Procs :
       (Writes(p) /\ K(p) \in Workloads /\ store[K(p)] # Absent) =>
         LET old == store[K(p)].tmpl  new == store'[K(p)].tmpl
         IN  old # Nil =>
               \A key \in DOMAIN old \cap KubectlKeys :
                 new # Nil /\ key \in DOMAIN new /\ new[key] = old[key]]_vars

\* Create races (CreateOrUpdateService, spec section 5): a call that gets
\* AlreadyExists lost a race, i.e. it saw NotFound and another caller of
\* the same object has since completed successfully; AlreadyExists never
\* reaches a caller whose object nobody else created.
CreateRaceLostOnlyToRacer ==
  [][\A p \in Procs :
       (result[p] # "AlreadyExists" /\ result'[p] = "AlreadyExists") =>
         \E q \in Procs \ {p} : K(q) = K(p) /\ result[q] = "OK"]_vars

\* The no-op shortcut of CreateOrUpdateSecret never loses an update: when
\* the call returns nil without an Update, the stored secret already has
\* the data and every label the caller passed in.
SecretSkipKeepsContent ==
  [][\A p \in Procs :
       (K(p) = "Secret" /\ pc[p] = "get" /\ pc'[p] = "done" /\ result'[p] = "OK") =>
         LET o == store[K(p)]  want == input[p]
         IN  /\ o # Absent /\ o.data = want.data
             /\ \A key \in DOMAIN want.labels :
                  key \in DOMAIN o.labels /\ o.labels[key] = want.labels[key]]_vars

\* Idempotence of CreateOrUpdateSecret (spec 4.1 step 6 and section 8):
\* when the merged secret has the content the store already holds (labels,
\* owners, data), the Update call is skipped.
Content(o) == [labels |-> o.labels, owners |-> o.owners, data |-> o.data]

SecretNoOpSkipped ==
  [][\A p \in Procs :
       (K(p) = "Secret" /\ pc[p] = "get" /\ pc'[p] = "update") =>
         Content(desired'[p]) # Content(store[K(p)])]_vars

\* Concurrent callers for one identity "each retry until one wins" (spec
\* section 5): with no transport errors and no other actors, every call
\* returns nil, the loser of the create race included.
RacersAllSucceed ==
  \A p \in Procs : pc[p] = "done" => result[p] = "OK"

\* A Get that reports NotFound leads to "create D as-is" (spec 4.1 step 2):
\* with no transport errors, a Create issued on an absent object succeeds,
\* even when an earlier attempt of the same call had found the object.
CreateOnNotFoundSucceeds ==
  [][\A p \in Procs :
       (pc[p] = "create" /\ pc'[p] = "done" /\ store[K(p)] = Absent) =>
         result'[p] = "OK"]_vars

=============================================================================
