---------------------------- MODULE MCFinalizers ----------------------------
(***************************************************************************)
(* Finalizer patching by one controller next to finalizers of other       *)
(* owners, and by two controllers racing on one object.                   *)
(***************************************************************************)
EXTENDS Finalizers, SequencesExt

CONSTANTS c1, c2, f1, f2, g1, g2, g3

\* Every list of distinct names drawn from S.
Lists(S) == UNION {SetToSeqs(T) : T \in SUBSET S}

(* One controller owning f1; g1, g2 and g3 belong to owners that are not     *)
(* patching the object now. The object may already be deleted.           *)
OneControllers == {c1}
OneFin         == c1 :> f1
OneNames       == {f1, g1, g2, g3}
OneInitLists   == Lists(OneNames)

(* Two controllers owning f1 and f2; g1 belongs to another owner.         *)
TwoControllers == {c1, c2}
TwoFin         == (c1 :> f1) @@ (c2 :> f2)
TwoNames       == {f1, f2, g1}
\* A deleted object whose finalizers both controllers remove.
TwoRemoveLists == {<<f1, f2, g1>>}
\* A fresh object both controllers add their finalizer to.
TwoAddLists    == {<<>>}

=============================================================================
