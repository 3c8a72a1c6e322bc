---------------------------- MODULE MCIsAllowed ----------------------------
(***************************************************************************)
(* IsAllowed as the operator calls it at start-up: pods get/list and the  *)
(* namespace object "ns1", for no namespace list (all namespaces), one    *)
(* namespace or two, under every RBAC assignment of six queries.          *)
(***************************************************************************)
EXTENDS IsAllowed

Pods  == [resource |-> "pods", name |-> "", group |-> "", verbs |-> <<"get", "list">>]
NsObj == [resource |-> "namespaces", name |-> "ns1", group |-> "", verbs |-> <<"get">>]

MCNsInputs   == {<<>>, <<"ns1">>, <<"ns1", "ns2">>}
MCAttrInputs == {<<>>, <<Pods>>, <<NsObj, Pods>>}

Q(verb, resource, name, ns) ==
  [verb |-> verb, group |-> "", resource |-> resource, name |-> name, ns |-> ns]

\* Cluster-wide pods grants, per-namespace pods grants, and the namespace
\* object queried in its own namespace or (without the special case)
\* cluster-wide.
MCGrantUniverse ==
  {Q("get", "pods", "", ""), Q("list", "pods", "", ""),
   Q("get", "pods", "", "ns1"), Q("list", "pods", "", "ns2"),
   Q("get", "namespaces", "ns1", "ns1"), Q("get", "namespaces", "ns1", "")}

=============================================================================
