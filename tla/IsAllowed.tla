------------------------------ MODULE IsAllowed ------------------------------
(***************************************************************************)
(* IsAllowed of pkg/k8sutil/k8sutil.go (lines 154-224): the operator's    *)
(* service account asks the authorization endpoint, one                   *)
(* SelfSubjectAccessReview at a time, whether it may perform every verb   *)
(* of every resource attribute in every namespace, and collects a reason  *)
(* for each denied query.                                                 *)
(*                                                                         *)
(* The triple loop over namespaces, attributes and verbs is the sequence  *)
(* `todo` of the combinations still to query, in loop order. RBAC is the  *)
(* set `granted` of queries the endpoint allows; any query may instead    *)
(* fail (transport error, cancelled context) when Errors holds.           *)
(* The version of an attribute is passed through untouched and omitted;   *)
(* the reason's text is abstracted to the fields it is built from.        *)
(***************************************************************************)
EXTENDS Naturals, Sequences, FiniteSets

LOCAL INSTANCE SequencesExt

CONSTANTS NsInputs, AttrInputs, GrantUniverse, Errors, NamespaceAll

VARIABLES
  namespaces,  \* the namespaces argument
  attributes,  \* the attributes argument: <<[resource, name, group, verbs]>>
  granted,     \* the queries RBAC allows
  pc,          \* "start", "loop" (inside the triple loop), "done"
  todo,        \* combinations of the loop not yet queried
  missing,     \* missingPermissions
  ret          \* the returned (allowed, missing, err); not done while running

vars == <<namespaces, attributes, granted, pc, todo, missing, ret>>

Pending         == [done |-> FALSE, allowed |-> FALSE, missing |-> <<>>, err |-> "none"]
InvalidArgument == [done |-> TRUE, allowed |-> FALSE, missing |-> <<>>, err |-> "InvalidArgument"]
TransportError  == [done |-> TRUE, allowed |-> FALSE, missing |-> <<>>, err |-> "Transport"]

\* for ns / for ra / for verb, flattened in loop order.
Loop(nss, attrs) ==
  FlattenSeq([i \in 1..Len(nss) |->
    FlattenSeq([j \in 1..Len(attrs) |->
      [k \in 1..Len(attrs[j].verbs) |->
         [ns |-> nss[i], ra |-> attrs[j], verb |-> attrs[j].verbs[k]]]])])

\* authv1.ResourceAttributes of one iteration, with the special case for a
\* SAR on namespaces resources.
ResourceAttributes(t) ==
  LET q == [verb |-> t.verb, group |-> t.ra.group, resource |-> t.ra.resource,
            name |-> t.ra.name, ns |-> t.ns]
  IN  IF q.group = "" /\ q.resource = "namespaces" /\ q.name # ""
         /\ q.ns = NamespaceAll
      THEN [q EXCEPT !.ns = q.name] ELSE q

\* The reason appended for a denied query: resource/name, and "for all
\* namespaces" or "for namespace ns" by the loop's namespace.
Reason(t) ==
  [verb |-> t.verb, resource |-> <<t.ra.resource, t.ra.name>>,
   group |-> t.ra.group, scope |-> IF t.ns = NamespaceAll THEN "all" ELSE t.ns]

\* Mutant: an empty namespace list is not replaced by NamespaceAll.
StartNoDefault ==
  /\ pc = "start"
  /\ \/ /\ attributes = <<>>
        /\ ret' = InvalidArgument
        /\ pc' = "done"
        /\ UNCHANGED todo
     \/ /\ attributes # <<>>
        /\ todo' = Loop(namespaces, attributes)
        /\ pc' = "loop"
        /\ UNCHANGED ret
  /\ UNCHANGED missing

\* Argument checks and the start of the loop.
Start ==
  /\ pc = "start"
  /\ \/ /\ attributes = <<>>
        /\ ret' = InvalidArgument
        /\ pc' = "done"
        /\ UNCHANGED todo
     \/ /\ attributes # <<>>
        /\ todo' = Loop(IF namespaces = <<>> THEN <<NamespaceAll>> ELSE namespaces,
                        attributes)
        /\ pc' = "loop"
        /\ UNCHANGED ret
  /\ UNCHANGED missing

\* One ssarClient.Create: an error returns at once with no missing list;
\* a denial appends its reason.
Review ==
  LET t == Head(todo)
  IN  /\ pc = "loop"
      /\ todo # <<>>
      /\ \/ /\ Errors
            /\ ret' = TransportError
            /\ pc' = "done"
            /\ UNCHANGED <<todo, missing>>
         \/ /\ ResourceAttributes(t) \in granted
            /\ todo' = Tail(todo)
            /\ UNCHANGED <<pc, missing, ret>>
         \/ /\ ResourceAttributes(t) \notin granted
            /\ todo' = Tail(todo)
            /\ missing' = Append(missing, Reason(t))
            /\ UNCHANGED <<pc, ret>>

\* The loop is over: allowed when nothing is missing.
Return ==
  /\ pc = "loop"
  /\ todo = <<>>
  /\ ret' = [done |-> TRUE, allowed |-> missing = <<>>, missing |-> missing,
             err |-> "none"]
  /\ pc' = "done"
  /\ UNCHANGED <<todo, missing>>

Init ==
  /\ namespaces \in NsInputs
  /\ attributes \in AttrInputs
  /\ granted \in SUBSET GrantUniverse
  /\ pc = "start"
  /\ todo = <<>>
  /\ missing = <<>>
  /\ ret = Pending

Step == (Start \/ Review \/ Return) /\ UNCHANGED <<namespaces, attributes, granted>>

\* The call has returned.
Returned == pc = "done" /\ UNCHANGED vars

Next == Step \/ Returned

\* A single goroutine; every SubjectAccessReview call returns.
Spec == Init /\ [][Next]_vars /\ WF_vars(Step)

----------------------------------------------------------------------------
(* Properties.                                                             *)

\* The check implements the promise of spec section 4.3: every call
\* returns; an empty attribute list is InvalidArgument; an API error is
\* returned with no partial missing list (the FIXME at line 195: no retry);
\* otherwise one reason per denied query of the full cross product, the
\* "all namespaces" default and the namespaces special case included.
\* The abstract result lists the reasons as a bag.
Abstract == INSTANCE PermissionCheck
              WITH out <- [ret EXCEPT !.missing = ToBag(ret.missing)]

PermissionCheckSpec == Abstract!Spec

=============================================================================
