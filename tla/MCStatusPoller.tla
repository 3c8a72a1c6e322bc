-------------------------- MODULE MCStatusPoller --------------------------
(* One workload of one replica; the visit rules are per resource.         *)
EXTENDS StatusPoller

CONSTANTS r1

MCResources == {r1}
MCExpected == [r \in MCResources |-> 1]

=============================================================================
