-------------------------- MODULE MCProvisioning --------------------------
(* Small tenants for Provisioning. *)
EXTENDS Provisioning, TLC

CONSTANTS r1, r2, r3, r4, n1, m1

\* Every instance has a name of its own, or all share one.
OwnNames == [r \in Reqs |-> r]
OneName == [r \in Reqs |-> CHOOSE m \in Names : TRUE]

Symmetry == Permutations(Reqs)
=============================================================================
