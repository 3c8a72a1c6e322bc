--------------------------- MODULE PermissionCheck ---------------------------
(***************************************************************************)
(* What the permission checker promises (spec section 4.3), as one atomic *)
(* step: a call with namespaces N and resource attributes A returns        *)
(*   - InvalidArgument when A is empty;                                   *)
(*   - a transport error, with no partial result, when the API fails;     *)
(*   - otherwise one missing-permission reason per denied query of the    *)
(*     cross product (N, or "all namespaces" when N is empty) x A x verbs,*)
(*     and allowed exactly when there is none.                            *)
(* The order of the reasons is left open: the promise is about which      *)
(* reasons, and how many of each, are reported, so the result carries     *)
(* them as a bag.                                                         *)
(***************************************************************************)
EXTENDS Naturals, Sequences, FiniteSets

CONSTANTS
  NsInputs,       \* namespace lists a caller may pass
  AttrInputs,     \* resource attribute lists a caller may pass
  GrantUniverse,  \* the authorization queries RBAC may allow
  Errors,         \* whether the authorization endpoint may fail
  NamespaceAll    \* the empty namespace: "all namespaces"

VARIABLES namespaces, attributes, granted, out

vars == <<namespaces, attributes, granted, out>>

Pending         == [done |-> FALSE, allowed |-> FALSE, missing |-> <<>>, err |-> "none"]
InvalidArgument == [done |-> TRUE, allowed |-> FALSE, missing |-> <<>>, err |-> "InvalidArgument"]
TransportError  == [done |-> TRUE, allowed |-> FALSE, missing |-> <<>>, err |-> "Transport"]

\* The namespaces queried: the sentinel "all" when none are given.
Scope == IF namespaces = <<>> THEN <<NamespaceAll>> ELSE namespaces

\* Every (namespace, attribute, verb) combination, by position.
Combinations ==
  UNION { {<<i, j, k>> : k \in 1..Len(attributes[j].verbs)} :
          <<i, j>> \in (1..Len(Scope)) \X (1..Len(attributes)) }

\* The query for one combination; a "namespaces" object named n queried
\* cluster-wide is queried in namespace n (the self-referential rule).
Probe(c) ==
  LET ns == Scope[c[1]]  ra == attributes[c[2]]
  IN  [verb |-> ra.verbs[c[3]], group |-> ra.group, resource |-> ra.resource,
       name |-> ra.name,
       ns |-> IF ra.group = "" /\ ra.resource = "namespaces" /\ ra.name # ""
                 /\ ns = NamespaceAll
              THEN ra.name ELSE ns]

\* The reason reported for a denied combination: verb, resource[/name],
\* group, and the namespace or "all".
Deficiency(c) ==
  LET ns == Scope[c[1]]  ra == attributes[c[2]]
  IN  [verb |-> ra.verbs[c[3]], resource |-> <<ra.resource, ra.name>>,
       group |-> ra.group, scope |-> IF ns = NamespaceAll THEN "all" ELSE ns]

Denied == {c \in Combinations : Probe(c) \notin granted}

\* The bag of reasons the check must report.
Expected == [r \in {Deficiency(c) : c \in Denied} |->
               Cardinality({c \in Denied : Deficiency(c) = r})]

Outcomes ==
  IF attributes = <<>> THEN {InvalidArgument}
  ELSE {[done |-> TRUE, allowed |-> Denied = {}, missing |-> Expected, err |-> "none"]}
       \cup (IF Errors THEN {TransportError} ELSE {})

Init ==
  /\ namespaces \in NsInputs
  /\ attributes \in AttrInputs
  /\ granted \in SUBSET GrantUniverse
  /\ out = Pending

Check ==
  /\ ~out.done
  /\ out' \in Outcomes
  /\ UNCHANGED <<namespaces, attributes, granted>>

\* A call returns.
Spec == Init /\ [][Check]_vars /\ WF_vars(Check)

=============================================================================
