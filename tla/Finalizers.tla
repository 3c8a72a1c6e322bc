----------------------------- MODULE Finalizers -----------------------------
(***************************************************************************)
(* FinalizerAddPatch and FinalizerDeletePatch of pkg/k8sutil/k8sutil.go   *)
(* (lines 607-648) and the JSON patches they build, applied by the API    *)
(* server to one object's finalizer list while several controllers, each  *)
(* owning one finalizer, patch the same list.                             *)
(*                                                                         *)
(* A controller reads the list, builds its patch from what it read and    *)
(* sends it; other patches may land in between. The server applies a      *)
(* patch by RFC 6902: "add" to /metadata/finalizers sets the whole list,  *)
(* "add" to /metadata/finalizers/- appends and fails when the list is     *)
(* absent (an empty list is omitted from the object), "remove" at index i *)
(* fails when i is out of range. A failed patch is retried by a new       *)
(* reconciliation. The object is deleted at some point: controllers then  *)
(* remove their finalizers instead of adding them. Owners of the other    *)
(* finalizers may drop theirs from the live object, each in one fresh     *)
(* read-and-patch, so a list a controller read may have been emptied by   *)
(* the time its append lands.                                             *)
(***************************************************************************)
EXTENDS Naturals, Sequences, FiniteSets

LOCAL INSTANCE SequencesExt

CONSTANTS
  Controllers,  \* controllers patching the object
  Fin,          \* [Controllers -> finalizer names]: the finalizer each owns
  Names,        \* every finalizer name, those of other owners included
  InitLists,    \* finalizer lists the object may start with
  InitDeleted   \* whether the object may start out being deleted

VARIABLES
  fins,     \* the object's metadata.finalizers on the server
  deleted,  \* the object has a deletionTimestamp
  pc,       \* [Controllers -> {"idle", "sent"}]
  patch     \* [Controllers -> patch]: the patch in flight

vars == <<fins, deleted, pc, patch>>

\* A JSON patch: one operation on the finalizers.
Patch(op, path, value, index) ==
  [op |-> op, path |-> path, value |-> value, index |-> index]

NoPatch    == Patch("nil", "", <<>>, 0)    \* nil, nil: nothing to delete
EmptyPatch == Patch("empty", "", <<>>, 0)  \* []byte{}: already present

\* No patch when present; an "add" of the whole list when the list is
\* empty; an "add" at "/-" (append) otherwise.
FinalizerAddPatch(finalizers, finalizerName) ==
  IF Contains(finalizers, finalizerName) THEN EmptyPatch
  ELSE IF Len(finalizers) = 0 THEN Patch("add", "list", <<finalizerName>>, 0)
  ELSE Patch("add", "append", <<finalizerName>>, 0)

\* Mutant: the loop misses the first element.
FinalizerDeletePatchSkipFirst(finalizers, finalizerName) ==
  LET i == SelectInSeq(Tail(finalizers), LAMBDA f : f = finalizerName)
  IN  IF Len(finalizers) = 0 \/ i = 0 THEN NoPatch ELSE Patch("remove", "index", <<>>, i)

\* Mutant: the 1-based position used as the JSON-pointer index.
FinalizerDeletePatchOffByOne(finalizers, finalizerName) ==
  LET i == SelectInSeq(finalizers, LAMBDA f : f = finalizerName)
  IN  IF i = 0 THEN NoPatch ELSE Patch("remove", "index", <<>>, i)

\* A "remove" at the 0-based index of the first occurrence, nil when absent.
FinalizerDeletePatch(finalizers, finalizerName) ==
  LET i == SelectInSeq(finalizers, LAMBDA f : f = finalizerName)
  IN  IF i = 0 THEN NoPatch ELSE Patch("remove", "index", <<>>, i - 1)

----------------------------------------------------------------------------

\* The patch controller c builds from the list it read.
Build(c, l) ==
  IF deleted THEN FinalizerDeletePatch(l, Fin[c]) ELSE FinalizerAddPatch(l, Fin[c])

\* The list after the server applies patch p to l; l when p fails.
Applied(p, l) ==
  CASE p.path = "list"   -> p.value
    [] p.path = "append" -> l \o p.value
    [] p.path = "index"  -> RemoveAt(l, p.index + 1)

Applies(p, l) ==
  CASE p.path = "list"   -> TRUE
    [] p.path = "append" -> l # <<>>
    [] p.path = "index"  -> p.index < Len(l)

\* A reconciliation reads the object, builds its patch and sends it; it
\* returns without a call when the patch is empty or nil.
Reconcile(c) ==
  LET p == Build(c, fins)
  IN  /\ pc[c] = "idle"
      /\ p \notin {NoPatch, EmptyPatch}
      /\ patch' = [patch EXCEPT ![c] = p]
      /\ pc' = [pc EXCEPT ![c] = "sent"]
      /\ UNCHANGED <<fins, deleted>>

\* The server applies the patch, or rejects it and the controller requeues.
Apply(c) ==
  /\ pc[c] = "sent"
  /\ fins' = IF Applies(patch[c], fins) THEN Applied(patch[c], fins) ELSE fins
  /\ pc' = [pc EXCEPT ![c] = "idle"]
  /\ UNCHANGED <<deleted, patch>>

\* The owner of a finalizer no controller of the model owns drops it from
\* the live object. (Their removals during deletion race with the
\* controllers' index patches; finalizer_stale_index shows that race.)
ForeignRemove(x) ==
  /\ ~deleted
  /\ x \notin {Fin[c] : c \in Controllers}
  /\ Contains(fins, x)
  /\ fins' = RemoveAt(fins, SelectInSeq(fins, LAMBDA f : f = x))
  /\ UNCHANGED <<deleted, pc, patch>>

\* A user deletes the object.
Delete ==
  /\ ~deleted
  /\ deleted' = TRUE
  /\ UNCHANGED <<fins, pc, patch>>

Init ==
  /\ fins \in InitLists
  /\ deleted \in InitDeleted
  /\ pc = [c \in Controllers |-> "idle"]
  /\ patch = [c \in Controllers |-> NoPatch]

\* Nothing is left to do: every controller idle with nothing to patch.
Quiescent ==
  /\ \A c \in Controllers : pc[c] = "idle" /\ Build(c, fins) \in {NoPatch, EmptyPatch}
  /\ deleted
  /\ UNCHANGED vars

Next ==
  \/ \E c \in Controllers : Reconcile(c) \/ Apply(c)
  \/ \E x \in Names : ForeignRemove(x)
  \/ Delete
  \/ Quiescent

\* The controllers' work queues reconcile an object with work left and
\* every API call returns; the deletion is a user's choice (no fairness).
Spec ==
  /\ Init /\ [][Next]_vars
  /\ \A c \in Controllers : WF_vars(Reconcile(c)) /\ WF_vars(Apply(c))

----------------------------------------------------------------------------
(* Properties.                                                             *)

Count(l, x) == Cardinality({i \in 1..Len(l) : l[i] = x})

\* A finalizer blocks deletion until the controller that added it removes
\* it (spec, glossary): a patch sent by controller c adds or removes only
\* c's finalizer, whatever the others did between c's read and its patch.
OthersUntouched ==
  [][\A c \in Controllers :
       (pc[c] = "sent" /\ pc'[c] = "idle") =>
         \A x \in Names \ {Fin[c]} : Count(fins', x) = Count(fins, x)]_vars

\* Each controller's reconciliation converges: its finalizer is eventually
\* on a live object, and eventually gone from a deleted one.
FinalizerConverges ==
  \A c \in Controllers :
    /\ ~deleted ~> (Contains(fins, Fin[c]) \/ deleted)
    /\ deleted ~> ~Contains(fins, Fin[c])

=============================================================================
