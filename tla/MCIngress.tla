----------------------------- MODULE MCIngress -----------------------------
(* Instances of Ingress for TLC.                                           *)
EXTENDS Ingress, TLC

Symmetry == Permutations(Handlers) \cup Permutations(Jobs) \cup Permutations(Tenants)
              \cup Permutations(Keys)
=============================================================================
