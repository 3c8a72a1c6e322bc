---------------------------- MODULE MCPredicates ----------------------------
(***************************************************************************)
(* The answers the API server can give: pods in every phase with their     *)
(* Ready and ContainersReady conditions in either order; discovery lists,  *)
(* an unknown group version, a server error and a transport error; a       *)
(* governing service with every selector over two keys, or a failed Get;  *)
(* cluster configs against every environment; the kinds of the scheme.    *)
(***************************************************************************)
EXTENDS Predicates

Cond(t, s) == [type |-> t, status |-> s]
CondLists ==
  {<<>>} \cup {<<Cond(t, s)>> : t \in {"Ready", "ContainersReady"}, s \in {"True", "False"}}
  \cup {<<Cond("ContainersReady", s1), Cond("Ready", s2)>> : s1, s2 \in {"True", "False"}}
  \cup {<<Cond("Ready", s1), Cond("ContainersReady", s2)>> : s1, s2 \in {"True", "False"}}

MCPods ==
  [phase : {"Pending", "Running", "Succeeded", "Failed", "Unknown"}, conds : CondLists]

MCResources == {"prometheuses", "alertmanagers"}

MCDiscoveryAnswers ==
  {[err |-> NoError, resources |-> l] : l \in {<<>>, <<"prometheuses">>,
                                               <<"alertmanagers", "prometheuses">>}}
  \cup {[err |-> e, resources |-> <<>>] :
          e \in {StatusError(404, "NotFound"), StatusError(503, "ServiceUnavailable"),
                 StatusError(403, "Forbidden"), OtherError}}

\* Label maps over two keys and two values.
LabelMaps == UNION {[D -> {"a", "b"}] : D \in SUBSET {"app", "name"}}

MCGovAnswers ==
  {[err |-> NoError, selector |-> s] : s \in LabelMaps}
  \cup {[err |-> StatusError(404, "NotFound"), selector |-> <<>>]}

MCDNSConfigs ==
  {Nil, [nameservers |-> <<"10.0.0.10">>, searches |-> <<"svc.local">>,
         options |-> <<[name |-> "ndots", value |-> "2"]>>]}

MCDNSPolicies == {Nil, "Default"}

MCFinalizerLists ==
  {<<>>, <<"other">>, <<StatusCleanupFinalizerName>>,
   <<"other", StatusCleanupFinalizerName>>}

\* Hosts: none, https and http URLs, "name:port", "ip:port", a bare name.
MCHosts ==
  {<<>>, <<"h", "t", "t", "p", "s", ":", "/", "/", "k">>,
   <<"h", "t", "t", "p", ":", "/", "/", "k">>, <<"k", ":", "6">>,
   <<"1", ":", "6">>, <<"k">>}

MCClusterConfigs ==
  [host : MCHosts, tls : {Nil, "t"}, asUser : {"", "u"}, kubeconfigPath : {"", "a"}]

MCEnvironments ==
  [kubeconfigEnv : {"", "a", "b"}, files : SUBSET {"a", "home"}, inCluster : BOOLEAN]

GVK(k, v) == [kind |-> k, version |-> v]
MCKindAnswers ==
  {[err |-> TRUE, gvks |-> <<>>]}
  \cup {[err |-> FALSE, gvks |-> l] :
         l \in {<<GVK("Prometheus", "v1")>>,
                <<GVK("Prometheus", "__internal"), GVK("Prometheus", "v1")>>,
                <<GVK("", "v1"), GVK("Probe", "v1alpha1")>>,
                <<GVK("Prometheus", "")>>, <<>>}}

====
