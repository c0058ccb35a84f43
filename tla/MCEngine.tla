------------------------------ MODULE MCEngine ------------------------------
(* Instances of Engine for TLC: all jobs belong to one tenant.             *)
EXTENDS Engine

CONSTANTS
  t1,
  Kinds,    \* the receipts Meta sends of the messages in Full
  Others,   \* the receipts Meta sends of the other messages
  Full

MCTenantOf == [j \in Jobs |-> t1]

MCReportable == [m \in Wamids |-> IF m \in Full THEN Kinds ELSE Others]

\* Jobs and workers are interchangeable, and so are message identities that get
\* the same receipts.
JobSymmetry == Permutations(Jobs) \cup Permutations(Workers)
Symmetry == JobSymmetry \cup Permutations(Wamids)

\* A pause only keeps jobs from being claimed; runs about receipts leave it out.
Unpaused == \A t \in Tenants : ~paused[t]
=============================================================================
