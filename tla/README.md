# TLA+ models of prometheus-operator's k8sutil helpers and status poller

This directory holds TLA+ specifications of the parts of
`pkg/k8sutil/k8sutil.go` and `pkg/operator/status.go` that have design
content, and the TLC configurations that check them. `PROJECT.json` records:

- the source lines each definition models (`map`);
- every recorded run and its properties;
- the mutants that show each property can fail;
- the findings;
- the hazards of the code.

## The system

| Part | Source | State and operations | Interacts with |
|---|---|---|---|
| MergeUpdater | `k8sutil.go` 239-376, 500-548 | `CreateOrUpdateService`, `CreateOrUpdateEndpoints`, `CreateOrUpdateEndpointSlice`, `UpdateStatefulSet`, `UpdateDaemonSet`, `CreateOrUpdateSecret`: a Get / merge / Create-or-Update closure under `retry.RetryOnConflict`. The merge helpers are `mergeMetadata`, `mergeMaps`, `mergeMapsByPrefix`, `mergeOwnerReferences` and `mergeKubectlAnnotations`. | The API server (optimistic concurrency on resourceVersion); other workers calling the same helper; users, kubectl and other controllers editing the objects. |
| StatusPoller | `status.go` 56-79 | A `select` loop over `ctx.Done()` and a one-minute ticker. Each tick walks all workloads (`Iterate`) and calls `RefreshStatusFor` on those with missing replicas or a non-True Available condition. | The controller's work queue and status reconciliation; the cluster, whose watch events may be lost. |
| PermissionChecker | `k8sutil.go` 154-224 | `IsAllowed`: one SelfSubjectAccessReview per namespace × attribute × verb. It collects a reason per denial and aborts on the first API error. | The authorization endpoint (RBAC). |
| NameGenerator | `k8sutil.go` 398-476 | `sanitizedLabel`, `DNS1123Label` and `UniqueDNS1123Label`: pure string functions with a 63-character limit and a hash suffix. | None (pure). |
| Finalizer patches | `k8sutil.go` 607-652 | `FinalizerAddPatch` and `FinalizerDeletePatch` build JSON patches from the caller's copy of the finalizer list. `HasStatusCleanupFinalizer` is a read. | The API server applying the patch; other controllers patching the same list. |
| Cluster configuration and type tagging | `k8sutil.go` 90-136, 478-498 | `NewClusterConfig` picks the credentials: a kubeconfig (argument, else `$KUBECONFIG`), else in-cluster credentials, else a host with TLS settings for https URLs. `AddTypeInformationToObject` tags an object with a kind from the scheme. | The environment (`$KUBECONFIG`, kubeconfig files, in-cluster credentials); the runtime scheme. |
| Small predicates | `k8sutil.go` 60, 72-88, 226-237, 378-396, 550-606, 650-652 | `PodRunningAndReady`, `IsResourceNotFoundError`, `IsAPIGroupVersionResourceSupported`, `EnsureCustomGoverningService` and `HasStatusCleanupFinalizer` decide on one API answer; `UpdateDNSConfig`/`UpdateDNSPolicy` write a pod spec. | The API server's answers: a pod, a discovery list or error, a governing service. |
| Vendored clients | `src/vendor/...` | Generated typed clients, listers, apply-configuration builders, a tracing transport. | Not modelled. |

## Modules

### `CreateOrUpdate.tla` (MergeUpdater)

State:

| Variable | What it is |
|---|---|
| `store` | The API server: one object identity per kind, or `Absent`. |
| `clock` | The next resourceVersion. |
| `desired` | The caller's Go pointer, mutated by the closure and kept across retries exactly as in the code. |
| `input` | What the caller passed in. |
| `pc` | The next call of the closure: get, create or update. |
| `attempt` | The RetryOnConflict step. |
| `result` | The returned error. |
| `external` | Edits by other actors, bounded by `MaxExternal`. |

Objects are records. Labels, template annotations, owners and payloads are model values.

Actions:

| Action | Code it models |
|---|---|
| `Attempt(p)` | The Get and merge per kind, using `MergeFor`. It includes every NotFound branch, the `eps.Name == ""` branch and the Secret's DeepEqual skip. |
| `Create(p)` | `Create(desired)`. |
| `Update(p)` | `Update(desired)`. |
| `OnConflict(p)` | The retry loop. |
| `CallFails(p)` | Any non-conflict API error. |
| `ExtEditLabel`, `ExtRestart`, `ExtDelete` | Other actors (spec §1, §4.1, §6). |

### `StatusPoller.tla` (StatusPoller)

State:

| Variable | What it is |
|---|---|
| `phase` | wait, scan or stopped. |
| `ctxDone` | Whether the context has been cancelled. |
| `toVisit` | The resources the current Iterate has not visited yet. |
| `refreshes` | `RefreshStatusFor` calls per resource in the tick. |
| `queue` | The de-duplicating work queue. |
| `reported` | The status subresource. |
| `actual` | What a reconciliation would write. |
| `changes` | Changes so far, bounded by `MaxChanges`. |

Actions:

| Action | Code it models |
|---|---|
| `Tick` | `case <-ticker.C`. |
| `Stop` | `case <-ctx.Done()`. |
| `VisitResource(r)` | The callback, both rules included. |
| `EndScan` | `Iterate` returns. |
| `ReconcileStatus(r)` | A worker draining the queue. |
| `ClusterChange(r, s, delivered)` | The actual state changes; its watch event is delivered or lost. |
| `Cancel` | The context is cancelled. |

`StatusRepair.tla` is the abstract specification of the poller. It states the promise of spec §4.4 and the function's comment without ticks or walks:

- while running, the poller enqueues a workload only when its reported status is degraded;
- it eventually enqueues every workload that stays degraded and unqueued (weak fairness on `RequestRefresh`);
- it stops only after cancellation, and then surely stops.

The queue, the reconciliation and the cluster are shared with `StatusPoller`. `StatusPoller` instantiates it with `running <- phase # "stopped"`: `Tick`, `EndScan` and the visits of healthy workloads are stuttering steps, a visit of a degraded workload is `RequestRefresh`, and `Stop` is `Halt`. The poller run checks `StatusRepairSpec == Repair!Spec`.

### `IsAllowed.tla` and `PermissionCheck.tla` (PermissionChecker)

`IsAllowed` holds the arguments, the RBAC set `granted`, `pc`, the loop's remaining combinations `todo` (the three nested loops flattened in their order by `Loop`), `missingPermissions` and the return value.

| Action | Code it models |
|---|---|
| `Start` | The argument checks and the default to `NamespaceAll`. |
| `Review` | One `ssarClient.Create`: an error, an allow, or a denial that appends `Reason`. `ResourceAttributes` carries the namespaces special case. |
| `Return` | The final return. |

`PermissionCheck` is the abstract specification. It states the promise of spec §4.3 as one atomic step whose outcome is one of:

- InvalidArgument;
- a transport error with no partial list;
- the *bag* of reasons for the denied queries, with `allowed` iff the bag is empty.

`IsAllowed` instantiates it with `out <- [ret EXCEPT !.missing = ToBag(ret.missing)]`, and the run checks `Abstract!Spec`, including its weak fairness (the call returns).

### `Finalizers.tla` (Finalizer patches)

State:

| Variable | What it is |
|---|---|
| `fins` | The object's finalizer list. |
| `deleted` | Whether the object has a deletionTimestamp. |
| `pc` | Per controller: idle or sent. |
| `patch` | Per controller: the JSON patch in flight. |

`FinalizerAddPatch` and `FinalizerDeletePatch` are translated from the code. The rest is modelled from the spec, because the callers and the server are not code of this repository:

| Definition | What it models |
|---|---|
| `Reconcile(c)` | A controller reads the list, builds its patch and sends it. |
| `Apply(c)` | The server applies the patch by RFC 6902 (`Applied`, `Applies`): an add to `/-` fails on an absent list, and a remove at an index fails when the index is out of range. A failure is retried by the next reconciliation. |
| `ForeignRemove(x)` | The owner of a finalizer that no modelled controller owns drops it from the live object in one fresh read-and-patch. Its removals during deletion are not modelled in this run, because they race with the controllers' index patches; finalizer_stale_index shows that race. |
| `Delete` | A user deletes the object. |

### `NameGenerator.tla` (NameGenerator)

Strings are sequences of one-character strings. The operators are:

- `sanitizedLabel`, built from `ToLower`, `ReplaceInvalid` (one `-` per maximal run of invalid characters), `TrimLeft` and `TrimRight`, all RECURSIVE where needed;
- `DNS1123Label`;
- `UniqueDNS1123Label`, with `Hex` formatting the hash exactly like `%x` and the `h[:9]` slice modelled as a panic when the string is shorter.

`IsDNS1123Label` is the reference grammar of apimachinery's validation, which is vendored code. The state is one input (prefix, name, hash) and the two results.

The limits are scaled down consistently:

| In the code | In the model |
|---|---|
| Label limit 63 | `MaxLength` = 5 |
| Suffix of 9 characters (8 of 16 hex digits) | `SuffixLength` = 3 (2 of 4 hex digits) |
| Inputs | Every name of up to 6 characters over `a Z - .` |

### `Predicates.tla` (small predicates)

Each function is an operator translated from the code:

- `PodRunningAndReady`: a completed pod is an error; a running pod is ready when its first `Ready` condition is True, and an error when it has none;
- `IsResourceNotFoundError`: a plain type assertion to `*StatusError`, code 404 and reason NotFound;
- `IsAPIGroupVersionResourceSupported`: NotFound is "not supported", any other error is returned, otherwise list membership;
- `EnsureCustomGoverningService`: a failed Get is returned; otherwise the service's selector must match the pods' labels. `SelectorMatches` models apimachinery's `LabelSelectorAsSelector` and `Matches`, under which an empty selector matches everything;
- `UpdateDNSConfig` and `UpdateDNSPolicy`: a nil argument leaves the pod spec alone;
- `HasStatusCleanupFinalizer`;
- `NewClusterConfig`: the path falls back to `$KUBECONFIG`. With a path, `DefaultLoad` models client-go's default loading rules and deferred loader: the file named by `$KUBECONFIG`, else `~/.kube/config`, else the in-cluster credentials, else an error. The path itself is only used in the error text. Without a path, there are in-cluster credentials for an empty host; otherwise the host is parsed (`GetScheme` and `UrlParse` model `net/url` on hosts of lower-case characters) and gets the TLS settings only when its scheme is `https`. Every config gets QPS and Burst 100 and the impersonated user;
- `AddTypeInformationToObject`: an `ObjectKinds` error is returned. Otherwise `TaggedKind` picks the first kind with a name and a served version. The object keeps its kind when there is none (variable `objKind`, kept across calls). No property is checked on it: any invariant over `objKind` would only restate the two `continue` guards.

The state is the last call (`fn`), its arguments including the API answer (`arg`), its result (`ret`), the pod spec that the DNS updates write, and the kind of the tagged object. Each action calls one function on any input of the MC module's sets, so the state space is the sum of the inputs, not their product.

`MCCreateOrUpdate`, `MCStatusPoller`, `MCIsAllowed`, `MCFinalizers`, `MCNameGenerator` and `MCPredicates` define the model values and scenarios the `.cfg` files use.

## Recorded runs

### Passing runs

| Run (cfg) | Properties | What it shows |
|---|---|---|
| service_race (`MCService.cfg`) | TypeOK, LabelMergeSafe, OwnerReferencesUnion, CreateRaceLostOnlyToRacer | Two workers on one governing Service, with transport errors, two external edits or deletes, and an initially absent or stored object. Written labels keep the caller's values and every stored key; owner references are a duplicate-free union; the retry count stays within its bound. A caller gets AlreadyExists only when it lost the create race to the other caller, which has succeeded. |
| workloads (`MCWorkloads.cfg`) | LabelMergeSafe, KubectlAnnotationsKept | A StatefulSet and a DaemonSet with a non-nil desired template, under restarts, edits and deletes. |
| endpoints_secret (`MCEndpointsSecret.cfg`) | LabelMergeSafe, SecretSkipKeepsContent | Endpoints; an EndpointSlice, named or with generateName; a Secret, freshly built or copied. When `CreateOrUpdateSecret` skips the Update (only for a copy of the stored secret, see `MCSecretNoOp.cfg`), the store already holds the caller's data and labels. |
| poller (`MCStatusPoller.cfg`) | TypeOK, DegradedStatusRepaired, CancellationHonoured, StatusRepairSpec | A workload reported degraded eventually reports its actual state, even when its watch events are lost; every Iterate visits every resource. Once the context is cancelled the goroutine returns, although select may keep taking ticks. The poller refines StatusRepair. |
| isallowed_refines (`MCIsAllowed.cfg`) | PermissionCheckSpec | Covers the empty, one-namespace and two-namespace lists; the empty, pods-only, and namespace-object-plus-pods attribute lists; every RBAC assignment of six queries; and failing reviews. IsAllowed implements the abstract check. |
| finalizers (`MCFinalizers.cfg`) | OthersUntouched, FinalizerConverges | One controller adds, and after deletion removes, its finalizer next to every arrangement of three foreign finalizers. Their owners may drop them from the live object (`ForeignRemove`), so an append built from a non-empty list can be rejected on an emptied one. The controller never touches the others' finalizers and converges: the rejected append is rebuilt as a whole-list add. |
| names (`MCNameGenerator.cfg`) | ShortNamePreserved, UniqueLabelValid, DNS1123LabelFailsOnlyAtCut, PanicOnlyForShortHash | For all 5461 names, with and without a prefix: a name that fits comes back sanitized and unchanged, and the unique variant always yields a valid label when sanitizing leaves something. DNS1123Label fails only when sanitizing leaves nothing or the cut at the limit lands just after a `-`. `UniqueDNS1123Label` panics (the `h[:9]` slice of spec §4.2's suffix) exactly for hashes whose hex form is shorter than the slice: with 4, 2 and 1 hex digits, the 2-digit hash is the boundary, which fits. In the code that is a hash below 16^7, 2^-36 per name. |
| predicates (`MCPredicates.cfg`) | PodReadinessReported, DiscoveryDistinguishesUnsupported, GoverningServiceSelectsPods, ClusterConfigFromHost | Every pod phase with Ready and ContainersReady conditions in either order, every discovery answer (lists, NotFound, 403, 503, transport) and every two-key selector against every two-key label set. A pod is ready exactly when it runs with a True Ready condition; an unserved group version is "unsupported" while every other failure stays an error; the governing-service check passes exactly when the service exists and its selector picks the pods' labels. `NewClusterConfig` uses the host only when neither the argument nor `$KUBECONFIG` names a kubeconfig, and hands it the TLS settings exactly for `https://` URLs. Every config carries the limits and the impersonated user. |

### Violation runs (findings)

| Run | Property | What TLC shows |
|---|---|---|
| foreign_label_revert | ForeignLabelsUntouched | After a conflict the retry re-merges into the caller's already-mutated object and writes back a label another actor changed. |
| stale_rv_create | CreateOnNotFoundSucceeds | A retry that finds the object deleted creates it with the old resourceVersion, and the server refuses it. |
| finalizer_stale_index | OthersUntouched | Two controllers remove from `[f1, f2, g1]`. The second one's index patch, built before the first removal landed, removes `g1`, another owner's finalizer. |
| kubeconfig_ignored | KubeconfigPathHonoured | `NewClusterConfig` never hands the caller's kubeconfig path to the loading rules. With path `a`, `$KUBECONFIG=b`, no kubeconfig files and in-cluster credentials, it returns the in-cluster credentials. With `~/.kube/config` present, it returns that file's configuration instead of `a`'s. Spec §6 says the supplied path is what reaches the store. TLC 2.19 prints only the initial state of this trace under the full `Next`. With a `Next` restricted to `CallNewClusterConfig`, it prints the two-state trace described here. |

### Further counterexamples

These configurations are kept beside the recorded runs. Each checks one property that TLC finds violated; the hazards in `PROJECT.json` point to them.

| Cfg | Property | What TLC shows |
|---|---|---|
| `MCCreateRace.cfg` | RacersAllSucceed | Two callers both Create after NotFound; the loser's AlreadyExists is not retried (spec §5 says racers retry until one wins). |
| `MCSecretNoOp.cfg` | SecretNoOpSkipped | `Semantic.DeepEqual` compares the server-set uid, so an unchanged, freshly built secret is updated anyway (spec §4.1 step 6). |
| `MCPollerDoubleRefresh.cfg` | RefreshedAtMostOncePerTick | A workload matching both rules is refreshed twice per tick (spec §4.4: at most once). |
| `MCPollerDrift.cfg` | DriftEventuallyCorrected | A workload reported healthy whose degradation event was lost is never refreshed (spec §1 claims drift correction). |
| `MCFinalizerAddRace.cfg` | OthersUntouched | Two controllers add to an empty list; both build the whole-list add, and the second drops the first one's finalizer. |
| `MCNameTrailingDash.cfg` | DNS1123LabelValid | A name whose cut at the limit ends in `-` makes DNS1123Label fail (spec §2 says the output satisfies the grammar). |
| `MCNilTemplate.cfg` | KubectlAnnotationsKept | With a nil desired template annotation map, the update erases `kubectl.kubernetes.io/restartedAt`. `mergeKubectlAnnotations` stores the merge on the existing template, which the desired object never sees. The operator's own templates always carry annotations, which is why this is not a recorded run. |
| `MCNameShortHash.cfg` | UniqueNeverPanics | `h[:9]` panics when the hash has leading zero hex digits (hash < 16^7; 2^-36 per name). Spec §4.2 promises a label or an error. PanicOnlyForShortHash in the names run pins down exactly when it happens. |
| `MCHostTLSDropped.cfg` | HostTLSKept | A host given as `k` or `k:6` (no `https://`) loses the TLS settings: `k:6` parses with scheme `k`, `k` with none. client-go then speaks plain http to it. |
| `MCGoverningNoSelector.cfg` | AcceptedServiceHasSelector | A governing service without a selector passes `EnsureCustomGoverningService`: the empty selector becomes `labels.Everything()`. The function's comment says the check fails when the pods are not selected, and such a service selects none. |

## Bounds

**CreateOrUpdate.**
- `RetrySteps = 2` stands for the code's 5, so exhaustion is reachable with two conflicts.
- `MaxExternal = 2` allows an edit before the Get and one between Get and Update.
- Two keys, two values and two owners suffice to tell "mine" from "theirs".

**StatusPoller.** One workload with `MaxChanges = 2`. The rules are per resource. Two resources passed once but took 18 minutes.

**IsAllowed.** Up to 2 namespaces × 2 attributes × 2 verbs, which reaches:
- the default to all namespaces;
- the special case;
- repeated reasons;
- an error at any position.

**Finalizers.**
- One controller with three foreign finalizers, in every order: 65 lists.
- Two controllers on the list `[f1, f2, g1]`, or on an empty list, for the races.

**Predicates.** Every pod phase, with at most one Ready and one ContainersReady condition in either order (conditions are keyed by type in the API). Discovery answers: three lists, NotFound, 403, 503 and a transport error. Selectors and label sets: every map over two keys and two values, the empty map included. Two DNS configs and policies, nil included. Hosts: none, `https://k`, `http://k`, `k:6`, `1:6` (a parse error) and `k`, with and without TLS settings, impersonation and a kubeconfig path. Environments: `$KUBECONFIG` unset, equal to the path or different, every subset of the kubeconfig files {the path's, `~/.kube/config`}, and in or out of a cluster. Kind answers: an error, no kinds, an internal version before a served one, an unnamed kind first, an empty version.

**NameGenerator.**
- Names of up to 6 characters exceed the limit of 5.
- The prefix `a-` exercises `TrimRight(prefix)`.
- Hashes of 4, 2 and 1 hex digits reach the full suffix, the suffix of exactly the sliced width, and the panicking one. `MCNameTrailingDash.cfg` uses only the full-width hashes.

## Fairness

| Module | Fairness | Why the code justifies it |
|---|---|---|
| CreateOrUpdate | Weak fairness on each caller | Every API call returns. |
| StatusPoller | Weak fairness on `Tick`, `EndScan`, `VisitResource` and `ReconcileStatus`; strong fairness on `Stop` | Go's `select` picks uniformly among ready cases, so a cancellation that stays pending is eventually taken. |
| IsAllowed | Weak fairness on its steps | One goroutine whose API calls return. |
| Finalizers | Weak fairness on each controller's `Reconcile` and `Apply` | Work queues reconcile objects that have work left. |
| StatusRepair | Weak fairness on `RequestRefresh`, `Reconcile` and `Halt` | What the poller promises; its strong fairness on `Stop` implies the abstract `Halt`, because once cancelled the context stays done. |
| Predicates | None | Only safety is checked. |

Deletion and external edits have no fairness: they are other actors' choices.

## Not modelled

- **Annotations** share labels' `mergeMaps` call.
- **`ClusterIPs`/`IPFamilies`** are one `ip` field.
- **The resource attribute's version** is passed through untouched by `IsAllowed`.
- **xxhash** is not computed: the hash of a name is any value of a set. Because of this, spec §8's "two over-length names give different labels" holds only as far as the hashes' first 8 hex digits differ. The model does not check it.
- **Error wrapping.** `IsResourceNotFoundError` does not unwrap errors, and the discovery client returns its errors unwrapped, so the model's errors are never wrapped.
- **The scheme `init`** registers the monitoring API groups. `KindAnswers` enumerates the answers of the registered scheme instead.
- **URL parsing of upper-case schemes and of authorities (ports, IPv6)**: the model's hosts are lower case with valid authorities.
- **Vendored generated clients, listers and builders** are data shuttling; the API server they reach is the `store` of CreateOrUpdate.

## Plan

The following steps are left:

1. An abstract per-object merge specification, refined by CreateOrUpdate. The refinement is expected to fail exactly where foreign_label_revert does, so it needs a run of its own.
2. Two workloads in the poller run, with a coarser status domain so that the run fits the time budget. The status writes behind `RefreshStatusFor` are not code of this repository, so the poller is not composed with the MergeUpdater.
3. The scheme registration of `init`, feeding `AddTypeInformationToObject`'s answers instead of the enumerated `KindAnswers`.
