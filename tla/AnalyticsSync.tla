--------------------------- MODULE AnalyticsSync ---------------------------
(***************************************************************************)
(* The way of a finished job out of the edge database: syncJobs of         *)
(* internal/engine/sync.go sends it to Supabase and marks it, and          *)
(* performCleanup of internal/engine/cleanup.go deletes it when it is      *)
(* marked and 7 days old.  The two run in goroutines of their own, beside  *)
(* everything that moves a job; the jobs table moves here as JobLifecycle  *)
(* allows, which Engine is shown to implement.                             *)
(*                                                                         *)
(* A batch is read, sent and marked in three separate steps.  An answer of *)
(* Supabase that is lost, a failed update, a shutdown and a crash all have *)
(* the same effect: the batch is given up without a mark, though Supabase  *)
(* may hold it.                                                            *)
(***************************************************************************)
EXTENDS JobLifecycle, FiniteSets

CONSTANTS
  BatchSize,    \* LIMIT of GetUnsyncedJobs (100 in the code)
  MaxGivenUp    \* bound: how many batches are stored by Supabase and not marked

ASSUME BatchSizeAssumption == BatchSize \in Nat \ {0}
ASSUME MaxGivenUpAssumption == MaxGivenUp \in Nat

VARIABLES
  synced,      \* column synced of table jobs
  old,         \* the rows created more than 7 days ago
  purged,      \* the rows that have been deleted
  batch,       \* what the sync worker holds: status by job as it was read
  pc,          \* where the sync worker is in syncJobs
  analytics,   \* external: the statuses Supabase has stored for each job
  givenUp      \* batches stored but not marked so far

syncVars == <<synced, old, purged, batch, pc, analytics, givenUp>>
vars == <<jobs, syncVars>>

\* The statuses that GetUnsyncedJobs selects.
Terminal == {"delivered", "read", "failed"}

SyncInit ==
  /\ Init
  /\ synced = {} /\ old = {} /\ purged = {}
  /\ batch = <<>> /\ pc = "idle"
  /\ analytics = [j \in Jobs |-> {}]
  /\ givenUp = 0

Unsynced == {j \in Jobs \ (purged \cup synced) : jobs[j].status \in Terminal}

----------------------------------------------------------------------------
(* The sync worker.                                                        *)

\* Mutant: accepted jobs are taken for finished.
GetUnsyncedAccepted ==
  /\ pc = "idle"
  /\ \E b \in SUBSET {j \in Jobs \ (purged \cup synced) : jobs[j].status \in Terminal \cup {"accepted"}} :
       /\ b # {} /\ Cardinality(b) <= BatchSize
       /\ batch' = [j \in b |-> jobs[j].status]
  /\ pc' = "post"
  /\ UNCHANGED <<jobs, synced, old, purged, analytics, givenUp>>

\* As many unsynced jobs as the limit allows, in no particular order.
GetUnsyncedJobs ==
  /\ pc = "idle"
  /\ \E b \in SUBSET Unsynced :
       /\ b # {}
       /\ Cardinality(b) = BatchSize \/ (Cardinality(b) < BatchSize /\ b = Unsynced)
       /\ batch' = [j \in b |-> jobs[j].status]
  /\ pc' = "post"
  /\ UNCHANGED <<jobs, synced, old, purged, analytics, givenUp>>

StoredBatch == [j \in Jobs |-> analytics[j] \cup IF j \in DOMAIN batch THEN {batch[j]} ELSE {}]

Drop == batch' = <<>> /\ pc' = "idle"

\* Mutant: the status code of the answer is not looked at.
PostRefusedUnchecked ==
  /\ pc = "post"
  /\ pc' = "mark"
  /\ UNCHANGED <<jobs, synced, old, purged, batch, analytics, givenUp>>

\* Supabase is not reached, or refuses.
PostRefused ==
  /\ pc = "post"
  /\ Drop
  /\ UNCHANGED <<jobs, synced, old, purged, analytics, givenUp>>

PostStored ==
  /\ pc = "post"
  /\ analytics' = StoredBatch
  /\ pc' = "mark"
  /\ UNCHANGED <<jobs, synced, old, purged, batch, givenUp>>

\* Supabase stores the batch but the worker does not learn it, is stopped, or
\* cannot mark the jobs.
PostStoredUnmarked ==
  /\ givenUp < MaxGivenUp
  /\ givenUp' = givenUp + 1
  /\ \/ pc = "post" /\ analytics' = StoredBatch
     \/ pc = "mark" /\ UNCHANGED analytics
  /\ Drop
  /\ UNCHANGED <<jobs, synced, old, purged>>

\* Mutant: every finished job is marked and not the batch.
MarkAllSynced ==
  /\ pc = "mark"
  /\ synced' = synced \cup Unsynced
  /\ Drop
  /\ UNCHANGED <<jobs, old, purged, analytics, givenUp>>

\* One transaction for the whole batch, whatever the rows hold by now.
MarkJobsSynced ==
  /\ pc = "mark"
  /\ synced' = synced \cup (DOMAIN batch \ purged)
  /\ Drop
  /\ UNCHANGED <<jobs, old, purged, analytics, givenUp>>

----------------------------------------------------------------------------
(* The cleanup janitor, and what happens around the two.                   *)

DeleteOldSyncedJobs ==
  /\ ~(synced \cap old \subseteq purged)
  /\ purged' = purged \cup (synced \cap old)
  /\ UNCHANGED <<jobs, synced, old, batch, pc, analytics, givenUp>>

BecomesOld(j) ==
  /\ jobs[j].status # "absent" /\ j \notin old
  /\ old' = old \cup {j}
  /\ UNCHANGED <<jobs, synced, purged, batch, pc, analytics, givenUp>>

\* Workers and receipts move a job that is still in the table.
TableStep ==
  /\ Next
  /\ \A j \in purged : jobs'[j] = jobs[j]
  /\ UNCHANGED syncVars

SyncWorker == GetUnsyncedJobs \/ PostRefused \/ PostStored \/ PostStoredUnmarked \/ MarkJobsSynced

SyncNext ==
  \/ SyncWorker
  \/ DeleteOldSyncedJobs
  \/ \E j \in Jobs : BecomesOld(j)
  \/ TableStep

SyncSpec == SyncInit /\ [][SyncNext]_vars

----------------------------------------------------------------------------
(***************************************************************************)
(* Fairness: the ticker fires and syncJobs runs to its end; among the      *)
(* batches sent again and again some is stored.                            *)
(***************************************************************************)
Fairness == WF_vars(SyncWorker) /\ SF_vars(PostStored) /\ WF_vars(MarkJobsSynced)

LiveSyncSpec == SyncSpec /\ Fairness

----------------------------------------------------------------------------
(***************************************************************************)
(* Properties.                                                             *)
(***************************************************************************)

SyncTypeOK ==
  /\ TypeOK
  /\ synced \subseteq Jobs /\ old \subseteq Jobs /\ purged \subseteq Jobs
  /\ DOMAIN batch \subseteq Jobs
  /\ pc \in {"idle", "post", "mark"}
  /\ analytics \in [Jobs -> SUBSET Terminal]
  /\ givenUp \in 0..MaxGivenUp

\* A job is not deleted before Supabase holds an outcome of it, whatever is
\* lost, fails or is stopped between the reading of a batch and its mark.
PurgedIsStored == \A j \in purged : analytics[j] # {}

\* A job that is deleted had come to its end: no worker holds it, and no
\* receipt that came after the batch was read has taken it back.
PurgedIsTerminal == \A j \in purged : jobs[j].status \in Terminal

\* Every job that ends is stored by Supabase at last, though batches are lost
\* on the way.
OutcomeIsStored == \A j \in Jobs : jobs[j].status \in Terminal ~> analytics[j] # {}

=============================================================================
