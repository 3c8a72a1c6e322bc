----------------------------- MODULE Predicates -----------------------------
(***************************************************************************)
(* The small decisions of pkg/k8sutil/k8sutil.go, each taken on one API    *)
(* answer: PodRunningAndReady, IsResourceNotFoundError,                    *)
(* IsAPIGroupVersionResourceSupported, EnsureCustomGoverningService,       *)
(* UpdateDNSConfig / UpdateDNSPolicy (which write a pod spec) and          *)
(* HasStatusCleanupFinalizer; and the two that set up what the core     *)
(* consumes: NewClusterConfig (where the API credentials come from) and   *)
(* AddTypeInformationToObject (the kind an object is tagged with).        *)
(*                                                                         *)
(* Each action is one call of one function on an answer the API server    *)
(* may give (a pod, a discovery answer, the Get of a governing service)   *)
(* and the caller's arguments; it records the call, its arguments and     *)
(* what it returns. The pod spec UpdateDNS* write persists across calls.  *)
(* Error texts are abstracted to the kind of error.                        *)
(***************************************************************************)
EXTENDS Naturals, Sequences, FiniteSets

LOCAL INSTANCE SequencesExt

CONSTANTS
  Pods,             \* pods the caller may look at: [phase, conds]
  DiscoveryAnswers, \* answers of ServerResourcesForGroupVersion
  Resources,        \* resource names asked for and listed
  GovAnswers,       \* answers of svcClient.Get for the governing service
  LabelSets,        \* the pods' selector labels
  DNSConfigs,       \* monitoringv1.PodDNSConfig arguments, Nil included
  DNSPolicies,      \* monitoringv1.DNSPolicy arguments, Nil included
  FinalizerLists,   \* finalizer lists of an object
  ClusterConfigs,   \* ClusterConfig arguments: [host, tls, asUser, kubeconfigPath]
  Environments,     \* [kubeconfigEnv, files, inCluster]: $KUBECONFIG, the
                    \* kubeconfig files that exist, in-cluster credentials
  KindAnswers,      \* answers of scheme.ObjectKinds: [err, gvks]
  Nil               \* model value: a nil pointer

StatusCleanupFinalizerName == "status-cleanup"

VARIABLES
  fn,       \* the function called last
  arg,      \* its arguments, the API answer included
  ret,      \* what it returned
  podSpec,  \* [dnsConfig, dnsPolicy]: the pod spec UpdateDNS* write
  objKind   \* the GroupVersionKind AddTypeInformationToObject sets

vars == <<fn, arg, ret, podSpec, objKind>>

\* An error value: a *StatusError with its HTTP code and reason, or any
\* other error.
StatusError(code, reason) == [kind |-> "StatusError", code |-> code, reason |-> reason]
OtherError == [kind |-> "other", code |-> 0, reason |-> ""]
NoError == [kind |-> "nil", code |-> 0, reason |-> ""]

Ret(b, e) == [ok |-> b, err |-> e]

----------------------------------------------------------------------------

\* Mutant: the `continue` dropped, so the first condition decides.
PodRunningAndReadyFirstCond(p) ==
  CASE p.phase \in {"Failed", "Succeeded"} -> Ret(FALSE, "completed")
    [] p.phase = "Running" ->
         IF p.conds = <<>> THEN Ret(FALSE, "no ready condition")
         ELSE Ret(p.conds[1].status = "True", "nil")
    [] OTHER -> Ret(FALSE, "nil")

\* A completed pod is an error; a running one is ready when its first
\* Ready condition is True, an error when it has none; otherwise not ready.
PodRunningAndReady(p) ==
  LET i == SelectInSeq(p.conds, LAMBDA c : c.type = "Ready")
  IN  CASE p.phase \in {"Failed", "Succeeded"} -> Ret(FALSE, "completed")
        [] p.phase = "Running" ->
             IF i = 0 THEN Ret(FALSE, "no ready condition")
             ELSE Ret(p.conds[i].status = "True", "nil")
        [] OTHER -> Ret(FALSE, "nil")

\* The error is a *StatusError (a plain type assertion, no unwrapping)
\* with code 404 and reason NotFound.
IsResourceNotFoundError(e) ==
  e.kind = "StatusError" /\ e.code = 404 /\ e.reason = "NotFound"

\* Mutant: the NotFound branch missing, every error surfaced.
IsAPIGroupVersionResourceSupportedNoNotFound(d, r) ==
  IF d.err # NoError THEN Ret(FALSE, d.err)
  ELSE Ret(r \in ToSet(d.resources), NoError)

\* An unknown group version (NotFound) is "not supported"; any other
\* error is returned; otherwise whether the list names the resource.
IsAPIGroupVersionResourceSupported(d, r) ==
  IF d.err # NoError
    THEN IF IsResourceNotFoundError(d.err) THEN Ret(FALSE, NoError)
         ELSE Ret(FALSE, d.err)
  ELSE Ret(r \in ToSet(d.resources), NoError)

\* metav1.LabelSelectorAsSelector of MatchLabels, then Matches(set): every
\* pair of the selector is in the set; an empty or nil selector becomes
\* labels.Everything() and matches every set.
SelectorMatches(sel, set) ==
  \A k \in DOMAIN sel : k \in DOMAIN set /\ set[k] = sel[k]

\* Mutant: the selector and the pod labels swapped.
EnsureCustomGoverningServiceSwapped(g, l) ==
  CASE g.err # NoError        -> "GetFailed"
    [] ~SelectorMatches(l, g.selector) -> "NotSelected"
    [] OTHER                  -> "nil"

\* Get the service (failure wrapped and returned), then require that its
\* selector selects the pods' labels.
EnsureCustomGoverningService(g, l) ==
  CASE g.err # NoError        -> "GetFailed"
    [] ~SelectorMatches(g.selector, l) -> "NotSelected"
    [] OTHER                  -> "nil"

\* A nil config leaves the pod spec alone; otherwise the spec gets a fresh
\* v1.PodDNSConfig with the nameservers, searches and options copied.
UpdateDNSConfig(spec, c) ==
  IF c = Nil THEN spec
  ELSE [spec EXCEPT !.dnsConfig = [nameservers |-> c.nameservers,
                                   searches |-> c.searches,
                                   options |-> c.options]]

UpdateDNSPolicy(spec, p) ==
  IF p = Nil THEN spec ELSE [spec EXCEPT !.dnsPolicy = p]

HasStatusCleanupFinalizer(f) == Contains(f, StatusCleanupFinalizerName)

\* net/url getScheme: a scheme is a letter followed by letters, digits,
\* "+", "-" or ".", up to the first ":"; a leading ":" is an error; any
\* other first character, or another character before a ":", means no
\* scheme. The model's hosts are lower case, as url.Parse makes a scheme.
Letters == {"a", "b", "c", "d", "e", "f", "g", "h", "i", "j", "k", "l", "m",
            "n", "o", "p", "q", "r", "s", "t", "u", "v", "w", "x", "y", "z"}
SchemeChars == Letters \cup {"0", "1", "2", "3", "4", "5", "6", "7", "8", "9",
                             "+", "-", "."}
GetScheme(s) ==
  LET i == SelectInSeq(s, LAMBDA c : c \notin SchemeChars)
  IN  CASE s # <<>> /\ s[1] = ":"                -> [err |-> TRUE, scheme |-> <<>>]
        [] s = <<>> \/ s[1] \notin Letters \/ i = 0 -> [err |-> FALSE, scheme |-> <<>>]
        [] s[i] = ":"                            -> [err |-> FALSE, scheme |-> SubSeq(s, 1, i - 1)]
        [] OTHER                                 -> [err |-> FALSE, scheme |-> <<>>]

\* url.Parse: without a scheme, a relative path whose first segment holds
\* a ":" is an error ("first path segment in URL cannot contain colon").
UrlParse(s) ==
  LET g == GetScheme(s)
      slash == SelectInSeq(s, LAMBDA c : c = "/")
      firstSegment == IF slash = 0 THEN s ELSE SubSeq(s, 1, slash - 1)
  IN  IF g.err \/ (g.scheme = <<>> /\ Contains(firstSegment, ":"))
        THEN [err |-> TRUE, scheme |-> <<>>] ELSE g

Https == <<"h", "t", "t", "p", "s">>

\* clientcmd.NewDefaultClientConfigLoadingRules with a non-interactive
\* deferred loader: the file named by $KUBECONFIG, else ~/.kube/config
\* ("home"), a missing one skipped; an empty result falls back to the
\* in-cluster credentials when they exist, and is an error otherwise.
DefaultLoad(env) ==
  LET path == IF env.kubeconfigEnv # "" THEN env.kubeconfigEnv ELSE "home"
  IN  CASE path \in env.files -> [err |-> FALSE, source |-> path]
        [] env.inCluster       -> [err |-> FALSE, source |-> "inCluster"]
        [] OTHER               -> [err |-> TRUE, source |-> Nil]

Config(source, tls, asUser) ==
  [err |-> "nil", source |-> source, tls |-> tls, qps |-> 100, burst |-> 100,
   asUser |-> asUser]
ConfigError(e) ==
  [err |-> e, source |-> Nil, tls |-> Nil, qps |-> 0, burst |-> 0, asUser |-> Nil]

\* Mutant: the scheme test dropped, TLS settings kept for every host.
NewClusterConfigAnyScheme(c, env) ==
  LET path == IF c.kubeconfigPath = "" THEN env.kubeconfigEnv ELSE c.kubeconfigPath
  IN  CASE path # "" ->
             LET l == DefaultLoad(env)
             IN  IF l.err THEN ConfigError("LoadFailed") ELSE Config(l.source, Nil, c.asUser)
        [] c.host = <<>> ->
             IF env.inCluster THEN Config("inCluster", Nil, c.asUser)
             ELSE ConfigError("NotInCluster")
        [] UrlParse(c.host).err -> ConfigError("ParseFailed")
        [] OTHER -> Config("host", c.tls, c.asUser)

\* The path falls back to $KUBECONFIG; with a path the default loading
\* rules are used (the path itself only names the error); otherwise the
\* in-cluster credentials without a host, or the host with the TLS
\* settings only for an https URL; then limits and impersonation.
NewClusterConfig(c, env) ==
  LET path == IF c.kubeconfigPath = "" THEN env.kubeconfigEnv ELSE c.kubeconfigPath
  IN  CASE path # "" ->
             LET l == DefaultLoad(env)
             IN  IF l.err THEN ConfigError("LoadFailed") ELSE Config(l.source, Nil, c.asUser)
        [] c.host = <<>> ->
             IF env.inCluster THEN Config("inCluster", Nil, c.asUser)
             ELSE ConfigError("NotInCluster")
        [] UrlParse(c.host).err -> ConfigError("ParseFailed")
        [] OTHER ->
             Config("host", IF UrlParse(c.host).scheme = Https THEN c.tls ELSE Nil,
                    c.asUser)

\* The first kind with a name and a version that is neither empty nor
\* runtime.APIVersionInternal; the object keeps its kind when none is.
TaggedKind(kind, gvks) ==
  LET i == SelectInSeq(gvks, LAMBDA g : g.kind # "" /\ g.version \notin {"", "__internal"})
  IN  IF i = 0 THEN kind ELSE gvks[i]

----------------------------------------------------------------------------

Init ==
  /\ fn = "none"
  /\ arg = <<>>
  /\ ret = <<>>
  /\ podSpec = [dnsConfig |-> Nil, dnsPolicy |-> "ClusterFirst"]
  /\ objKind = Nil

\* One call of function f on arguments a, returning v.
Call(f, a, v) == fn' = f /\ arg' = a /\ ret' = v

CallPodRunningAndReady ==
  /\ \E p \in Pods : Call("PodRunningAndReady", p, PodRunningAndReady(p))
  /\ UNCHANGED <<podSpec, objKind>>

CallIsAPIGroupVersionResourceSupported ==
  /\ \E d \in DiscoveryAnswers, r \in Resources :
       Call("IsAPIGroupVersionResourceSupported", [answer |-> d, resource |-> r],
            IsAPIGroupVersionResourceSupported(d, r))
  /\ UNCHANGED <<podSpec, objKind>>

CallEnsureCustomGoverningService ==
  /\ \E g \in GovAnswers, l \in LabelSets :
       Call("EnsureCustomGoverningService", [answer |-> g, labels |-> l],
            EnsureCustomGoverningService(g, l))
  /\ UNCHANGED <<podSpec, objKind>>

\* Both updates applied to one pod spec.
CallUpdateDNS ==
  \E c \in DNSConfigs, p \in DNSPolicies :
    /\ Call("UpdateDNS", [config |-> c, policy |-> p], <<>>)
    /\ podSpec' = UpdateDNSConfig(UpdateDNSPolicy(podSpec, p), c)
    /\ UNCHANGED objKind

CallNewClusterConfig ==
  /\ \E c \in ClusterConfigs, env \in Environments :
       Call("NewClusterConfig", [config |-> c, env |-> env], NewClusterConfig(c, env))
  /\ UNCHANGED <<podSpec, objKind>>

\* The object is the one tagged by earlier calls; ObjectKinds fails for a
\* type the scheme does not know, and the error is returned.
CallAddTypeInformationToObject ==
  /\ \E k \in KindAnswers :
       /\ Call("AddTypeInformationToObject", k, IF k.err THEN "Missing" ELSE "nil")
       /\ objKind' = IF k.err THEN objKind ELSE TaggedKind(objKind, k.gvks)
  /\ UNCHANGED podSpec

CallHasStatusCleanupFinalizer ==
  /\ \E f \in FinalizerLists :
       Call("HasStatusCleanupFinalizer", f, HasStatusCleanupFinalizer(f))
  /\ UNCHANGED <<podSpec, objKind>>

Next ==
  \/ CallPodRunningAndReady
  \/ CallIsAPIGroupVersionResourceSupported
  \/ CallEnsureCustomGoverningService
  \/ CallUpdateDNS
  \/ CallHasStatusCleanupFinalizer
  \/ CallNewClusterConfig
  \/ CallAddTypeInformationToObject

Spec == Init /\ [][Next]_vars

----------------------------------------------------------------------------
(* Properties.                                                             *)

\* PodRunningAndReady ("whether a pod is running and each container has
\* passed its ready state", which the kubelet's Ready condition reports):
\* a pod is reported ready exactly when it runs and its Ready condition is
\* True, whatever conditions precede it in the list; the call errs exactly
\* for a completed pod and for a running pod without a Ready condition.
PodReadinessReported ==
  fn = "PodRunningAndReady" =>
    LET types == {arg.conds[i].type : i \in DOMAIN arg.conds}
        ready == \E i \in DOMAIN arg.conds :
                   arg.conds[i].type = "Ready" /\ arg.conds[i].status = "True"
    IN  /\ ret.ok <=> (arg.phase = "Running" /\ ready)
        /\ (ret.err # "nil") <=>
             \/ arg.phase \in {"Failed", "Succeeded"}
             \/ arg.phase = "Running" /\ "Ready" \notin types

\* IsAPIGroupVersionResourceSupported: a group version the server does not
\* serve (NotFound) means "not supported" without an error; every other
\* failure of the discovery call is returned and never taken for "not
\* supported"; otherwise the resource is supported exactly when listed.
DiscoveryDistinguishesUnsupported ==
  fn = "IsAPIGroupVersionResourceSupported" =>
    LET e == arg.answer.err
        listed == \E i \in DOMAIN arg.answer.resources :
                    arg.answer.resources[i] = arg.resource
    IN  /\ e = StatusError(404, "NotFound") => ret = Ret(FALSE, NoError)
        /\ e \notin {NoError, StatusError(404, "NotFound")} => ret.err = e
        /\ e = NoError => ret = Ret(listed, NoError)

\* EnsureCustomGoverningService: the check passes exactly for a service
\* that exists and whose selector picks the pods: every key of the
\* selector carries the same value among the pods' labels (the pods may
\* have more labels than the selector names).
GoverningServiceSelectsPods ==
  fn = "EnsureCustomGoverningService" =>
    LET sel == arg.answer.selector  l == arg.labels
    IN  (ret = "nil") <=>
          /\ arg.answer.err = NoError
          /\ \A k \in DOMAIN sel : k \in DOMAIN l /\ l[k] = sel[k]

\* The function's comment: "ensure that the custom governing service's
\* selector matches the labels. If it is not selected, fail the
\* reconciliation." A service without a selector selects no pod (it gets
\* no endpoints), so the check should fail for it.
AcceptedServiceHasSelector ==
  (fn = "EnsureCustomGoverningService" /\ ret = "nil") =>
    DOMAIN arg.answer.selector # {}

\* NewClusterConfig reaches the API server at the given host only when
\* neither the argument nor $KUBECONFIG names a kubeconfig, and hands the
\* host the TLS settings exactly when the host is an https:// URL (a
\* host given as "name:port" parses with "name" as its scheme); every
\* config it returns carries the client limits and the impersonated user.
ClusterConfigFromHost ==
  (fn = "NewClusterConfig" /\ ret.err = "nil") =>
    LET c == arg.config
        httpsUrl == IsPrefix(Https \o <<":", "/", "/">>, c.host)
    IN  /\ ret.source = "host" =>
             /\ c.kubeconfigPath = "" /\ arg.env.kubeconfigEnv = ""
             /\ ret.tls = IF httpsUrl THEN c.tls ELSE Nil
        /\ ret.qps = 100 /\ ret.burst = 100 /\ ret.asUser = c.asUser

\* Spec section 6: the environment's "optional externally supplied path
\* ... for reaching the store; absence falls back to ambient/in-process
\* credentials". When the caller names a kubeconfig file, a config that
\* NewClusterConfig returns should come from that file.
KubeconfigPathHonoured ==
  (fn = "NewClusterConfig" /\ arg.config.kubeconfigPath # "" /\ ret.err = "nil") =>
    ret.source = arg.config.kubeconfigPath

\* TLS settings given with a host that is not a plain http:// URL should
\* not be dropped (the client would then fall back to plain http).
HostTLSKept ==
  LET c == arg.config
      http == <<"h", "t", "t", "p", ":", "/", "/">>
  IN  (fn = "NewClusterConfig" /\ ret.source = "host" /\ c.tls # Nil
       /\ ~IsPrefix(http, c.host)) => ret.tls = c.tls

====
