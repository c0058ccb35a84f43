----------------------------- MODULE EdgeState ------------------------------
(***************************************************************************)
(* State that more than one component of the engine reads or writes: the   *)
(* jobs table of the SQLite file, and, on Meta's side, which message Meta  *)
(* accepted for which job.  Components extend this module; Engine puts     *)
(* them together.                                                          *)
(***************************************************************************)
EXTENDS JobTable

CONSTANTS
  NoJob,       \* no job
  MaxFaults    \* bound: how many statements may fail although the database is open

ASSUME NoJobAssumption == NoJob \notin Jobs
ASSUME MaxFaultsAssumption == MaxFaults \in Nat

VARIABLES
  jobs,     \* table jobs
  sent,     \* external: sent[m] is the job for which Meta accepted message m
  faults    \* failed statements so far

edgeVars == <<jobs, sent, faults>>

EdgeInit ==
  /\ jobs = EmptyTable
  /\ sent = [m \in Wamids |-> NoJob]
  /\ faults = 0

EdgeTypeOK ==
  /\ jobs \in [Jobs -> Row]
  /\ sent \in [Wamids -> Jobs \cup {NoJob}]
  /\ faults \in 0..MaxFaults

Unbound(j) == jobs[j].wamid = NoWamid

\* A statement fails (disk full, I/O error, busy for more than 5 seconds).
Fault ==
  /\ faults < MaxFaults
  /\ faults' = faults + 1

=============================================================================
