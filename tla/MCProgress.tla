----------------------------- MODULE MCProgress -----------------------------
(* Instances of Progress for TLC: all jobs belong to one tenant, and all   *)
(* messages get the same receipts.                                         *)
EXTENDS Progress

CONSTANTS t1, Kinds

MCTenantOf == [j \in Jobs |-> t1]

MCReportable == [m \in Wamids |-> Kinds]
=============================================================================
