------------------------- MODULE MCCreateOrUpdate -------------------------
(***************************************************************************)
(* Instantiations of CreateOrUpdate for TLC. Each scenario fixes the kinds *)
(* exercised, the callers, what they pass in and what the cluster holds.   *)
(***************************************************************************)
EXTENDS CreateOrUpdate

CONSTANTS p1, p2, p3, k1, k2, v1, v2, o1, o2, d1, d2, restart, other

MCKeys == {k1, k2}
MCVals == {v1, v2}
MCOwners == {o1, o2}
MCData == {d1, d2}
MCTmplKeys == {restart, other}
MCKubectlKeys == {restart}

\* An object as a caller builds it: no resourceVersion, no uid.
Fresh(labels, owners, tmpl, data) ==
  [rv |-> 0, uid |-> NoUID, named |-> TRUE, labels |-> labels,
   owners |-> owners, ip |-> NoIP, tmpl |-> tmpl, data |-> data]

\* An object as the server holds it.
Stored(labels, owners, ip, tmpl, data) ==
  [rv |-> 1, uid |-> UID, named |-> TRUE, labels |-> labels,
   owners |-> owners, ip |-> ip, tmpl |-> tmpl, data |-> data]

(* Two Prometheus objects reconciled by two workers share the governing   *)
(* Service; each adds its owner reference and the same selector label.    *)
SvcKinds == {"Service"}
SvcProcs == {p1, p2}
SvcProcKind == [p \in SvcProcs |-> "Service"]
SvcDesired ==
  [p \in SvcProcs |->
     {Fresh(k1 :> v1, <<IF p = p1 THEN o1 ELSE o2>>, Nil, d1)}]
SvcInit ==
  [k \in SvcKinds |->
     {Absent, Stored(k2 :> v1, <<>>, IP, Nil, d2),
      Stored(k1 :> v2, <<o1>>, IP, Nil, d1)}]

(* A StatefulSet and a DaemonSet, each reconciled by one worker, while    *)
(* users restart them with kubectl and edit their labels. The desired pod *)
(* template carries annotations of its own (non-nil map).                 *)
WlKinds == {"StatefulSet", "DaemonSet"}
WlProcs == {p1, p2}
WlProcKind == (p1 :> "StatefulSet") @@ (p2 :> "DaemonSet")
WlDesired ==
  [p \in WlProcs |-> {Fresh(k1 :> v1, <<>>, other :> v1, d1)}]
WlInit ==
  [k \in WlKinds |->
     {Absent, Stored(k2 :> v1, <<>>, NoIP, restart :> v1, d1),
      Stored(k1 :> v2, <<>>, NoIP, Nil, d2)}]

(* The same, with a desired pod template whose annotation map is nil.     *)
WlNilDesired ==
  [p \in WlProcs |-> {Fresh(k1 :> v1, <<>>, Nil, d1)}]

(* Endpoints, an EndpointSlice (named, or created with generateName) and  *)
(* a Secret. The Secret caller may pass a fresh object or a copy of the   *)
(* stored one.                                                            *)
EsKinds == {"Endpoints", "EndpointSlice", "Secret"}
EsProcs == {p1, p2, p3}
EsProcKind == (p1 :> "Endpoints") @@ (p2 :> "EndpointSlice") @@ (p3 :> "Secret")
EsStoredSecret == Stored(k1 :> v1, <<>>, NoIP, Nil, d1)
EsDesired ==
  (p1 :> {Fresh(k1 :> v1, <<>>, Nil, d1)}) @@
  (p2 :> {Fresh(k1 :> v1, <<>>, Nil, d1),
          [Fresh(k1 :> v1, <<>>, Nil, d1) EXCEPT !.named = FALSE]}) @@
  (p3 :> {Fresh(k1 :> v1, <<>>, Nil, d2), EsStoredSecret})
EsInit ==
  (("Endpoints" :> {Absent, Stored(k2 :> v1, <<>>, NoIP, Nil, d2)}) @@
   ("EndpointSlice" :> {Stored(k1 :> v2, <<>>, NoIP, Nil, d2)}) @@
   ("Secret" :> {Absent, EsStoredSecret}))

(* One worker runs CreateOrUpdateEndpoints while users edit the labels   *)
(* and delete the object.                                                 *)
EpKinds == {"Endpoints"}
EpProcs == {p1}
EpProcKind == p1 :> "Endpoints"
EpDesired == p1 :> {Fresh(k1 :> v1, <<>>, Nil, d1)}
EpInit == "Endpoints" :> {Stored(k2 :> v1, <<>>, NoIP, Nil, d2)}

(* One worker runs CreateOrUpdateSecret with a freshly built secret whose *)
(* content the store already holds.                                       *)
SecKinds == {"Secret"}
SecProcs == {p1}
SecProcKind == p1 :> "Secret"
SecDesired == p1 :> {Fresh(k1 :> v1, <<>>, Nil, d1)}
SecInit == "Secret" :> {EsStoredSecret}

=============================================================================
