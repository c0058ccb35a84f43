------------------------- MODULE AnalyticsSyncProofs -------------------------
(***************************************************************************)
(* Proofs about AnalyticsSync, for any number of jobs and any batch size:  *)
(* what is deleted had ended and is stored by Supabase, and what is stored *)
(* is never ahead of the table.  They rest on the invariant of             *)
(* JobLifecycle and on one fact more about its rows: the end of a job is   *)
(* not taken back, because an ended job has the level of its outcome and   *)
(* only a higher level overwrites it.                                      *)
(***************************************************************************)
EXTENDS AnalyticsSync, JobLifecycleProofs

\* A job that has ended is at the level of its outcome or above.
EndsAreHigh ==
  \A j \in Jobs : jobs[j].status \in Terminal => jobs[j].level >= statusLevels[jobs[j].status]

\* What Supabase holds of a job, and what it will be sent of it, the job has
\* reached: the copy is never ahead of the table.
StoredIsReached == \A j \in Jobs : \A s \in analytics[j] : statusLevels[s] <= jobs[j].level
BatchIsReached == \A j \in DOMAIN batch : statusLevels[batch[j]] <= jobs[j].level

\* What the sync worker holds has ended, and between the answer of Supabase
\* and the mark it is stored.
BatchHasEnded ==
  \A j \in DOMAIN batch :
    /\ j \in Jobs /\ batch[j] \in Terminal /\ jobs[j].status \in Terminal
    /\ pc = "mark" => analytics[j] # {}

\* So has what it has marked.
SyncedHasEnded == \A j \in synced : jobs[j].status \in Terminal /\ analytics[j] # {}

SyncInv ==
  /\ IInv /\ EndsAreHigh
  /\ SyncTypeOK /\ BatchHasEnded /\ SyncedHasEnded /\ purged \subseteq synced

----------------------------------------------------------------------------
(* The rows.                                                               *)

LEMMA TerminalLevels ==
  /\ statusLevels["failed"] = 3
  /\ \A s \in Terminal : s \in Receipts /\ statusLevels[s] \in 3..5
BY DEF Terminal, Receipts, statusLevels

\* No step of the life cycle takes an outcome back.
LEMMA EndsStay ==
  ASSUME IInv, EndsAreHigh, Next
  PROVE  /\ EndsAreHigh'
         /\ \A j \in Jobs : jobs[j].status \in Terminal => jobs'[j].status \in Terminal
<1> USE DEF Terminal
<1>1. PICK j \in Jobs :
        \/ Submit(j) \/ Claim(j) \/ Requeue(j) \/ Fail(j) \/ AcceptUnbound(j)
        \/ \E m \in Wamids : Bind(j, m)
        \/ Advance(j, "accepted", 2)
        \/ \E s \in Receipts : Advance(j, s, statusLevels[s])
  BY DEF Next
<1>2. TypeOK /\ jobs[j].level \in Nat
  BY DEF IInv, TypeOK, Row
<1> DEFINE High == jobs[j].status \in Terminal => jobs[j].level >= 3
<1>h. High
  <2>1. jobs[j].status \in Terminal =>
          /\ jobs[j].level >= statusLevels[jobs[j].status]
          /\ statusLevels[jobs[j].status] \in 3..5
    BY TerminalLevels DEF EndsAreHigh
  <2>2. PICK l \in Nat : l = jobs[j].level
    BY <1>2
  <2> QED
    BY <2>1, <2>2
<1>3. CASE Submit(j) \/ Claim(j) \/ Requeue(j) \/ AcceptUnbound(j)
  <2>1. PICK s \in {"queued", "processing", "accepted"}, l \in 0..2 :
          jobs[j].status \notin Terminal /\ Becomes(j, s, l)
    BY <1>3 DEF Submit, Claim, Requeue, AcceptUnbound, InsertJob, ClaimNextJob,
                RequeueWithJitter, UpdateJobStatus, Becomes
  <2>2. s \in Statuses /\ l \in 0..6
    BY DEF Statuses
  <2> QED
    BY <1>2, <2>1, <2>2, BecomesRow DEF EndsAreHigh
<1>4. CASE Fail(j)
  <2>1. Becomes(j, "failed", 6) /\ "failed" \in Statuses
    BY <1>4 DEF Fail, MarkJobFailed, UpdateJobStatus, Becomes, Statuses, Receipts
  <2>2. /\ jobs'[j].status = "failed" /\ jobs'[j].level = 6
        /\ \A k \in Jobs \ {j} : jobs'[k] = jobs[k]
    BY <1>2, <2>1, BecomesRow
  <2> QED
    BY <2>2, TerminalLevels DEF EndsAreHigh
<1>5. CASE \E m \in Wamids : Bind(j, m)
  <2>1. PICK m \in Wamids : Bind(j, m)
    BY <1>5
  <2>2. /\ jobs'[j].status = jobs[j].status /\ jobs'[j].level = jobs[j].level
        /\ \A k \in Jobs \ {j} : jobs'[k] = jobs[k]
    BY <1>2, <2>1, BindRow DEF Bind, SetJobMetaID
  <2> QED
    BY <2>2 DEF EndsAreHigh
<1>6. CASE Advance(j, "accepted", 2)
  <2>1. jobs[j].level < 2 /\ Becomes(j, "accepted", 2) /\ "accepted" \in Statuses
    BY <1>6 DEF Advance, UpdateJobStatus, Becomes, Statuses
  <2>2. jobs[j].status \notin Terminal
    BY <1>2, <1>h, <2>1
  <2> QED
    BY <1>2, <2>1, <2>2, BecomesRow DEF EndsAreHigh
<1>7. CASE \E s \in Receipts : Advance(j, s, statusLevels[s])
  <2>1. PICK s \in Receipts : Advance(j, s, statusLevels[s])
    BY <1>7
  <2> DEFINE l == statusLevels[s]
  <2>2. l \in 3..5 /\ s \in Statuses /\ (s \notin Terminal => l = 3)
    BY ReceiptLevels DEF Statuses, Receipts, statusLevels
  <2>3. jobs[j].level < l /\ Becomes(j, s, l)
    BY <2>1 DEF Advance, UpdateJobStatus, Becomes
  <2> HIDE DEF l
  <2>4. /\ jobs'[j].status = s /\ jobs'[j].level = l
        /\ \A k \in Jobs \ {j} : jobs'[k] = jobs[k]
    <3>1. l \in 0..6
      BY <2>2
    <3> QED
      BY <1>2, <2>2, <2>3, <3>1, BecomesRow
  <2>5. jobs[j].status \in Terminal => s \in Terminal
    BY <1>2, <1>h, <2>2, <2>3
  <2>6. jobs'[j].level = statusLevels[jobs'[j].status]
    BY <2>4 DEF l
  <2>7. jobs'[j].level >= statusLevels[jobs'[j].status]
    BY <2>2, <2>4, <2>6
  <2> QED
    BY <2>4, <2>5, <2>7 DEF EndsAreHigh
<1> QED
  BY <1>1, <1>3, <1>4, <1>5, <1>6, <1>7

----------------------------------------------------------------------------
LEMMA InitSyncInv == SyncInit => SyncInv
<1> SUFFICES ASSUME SyncInit
             PROVE  SyncInv
  OBVIOUS
<1>1. IInv /\ TypeOK
  BY InitEstablishesIInv DEF SyncInit, IInv
<1>2. EndsAreHigh
  BY DEF SyncInit, Init, EmptyTable, EndsAreHigh, Terminal
<1>3. SyncTypeOK /\ BatchHasEnded /\ SyncedHasEnded /\ purged \subseteq synced
  BY <1>1, MaxGivenUpAssumption DEF SyncInit, SyncTypeOK, BatchHasEnded, SyncedHasEnded
<1> QED
  BY <1>1, <1>2, <1>3 DEF SyncInv

LEMMA SyncInvKept == SyncInv /\ [SyncNext]_vars => SyncInv'
<1> SUFFICES ASSUME SyncInv, [SyncNext]_vars
             PROVE  SyncInv'
  OBVIOUS
<1> USE DEF SyncInv
<1>0. UNCHANGED jobs => IInv' /\ EndsAreHigh' /\ TypeOK'
  BY StepPreservesIInv DEF EndsAreHigh, SyncTypeOK, IInv
<1>1. CASE GetUnsyncedJobs
  <2>1. PICK b \in SUBSET Unsynced : batch' = [j \in b |-> jobs[j].status]
    BY <1>1 DEF GetUnsyncedJobs
  <2>2. pc' = "post" /\ UNCHANGED <<jobs, synced, old, purged, analytics, givenUp>>
    BY <1>1 DEF GetUnsyncedJobs
  <2>3. BatchHasEnded' /\ DOMAIN batch' \subseteq Jobs
    BY <2>1, <2>2 DEF BatchHasEnded, Unsynced
  <2> QED
    BY <1>0, <2>2, <2>3 DEF SyncTypeOK, SyncedHasEnded
<1>2. CASE PostRefused
  BY <1>0, <1>2 DEF PostRefused, Drop, SyncTypeOK, SyncedHasEnded, BatchHasEnded
<1>3. ASSUME pc = "post", analytics' = StoredBatch
      PROVE  /\ analytics' \in [Jobs -> SUBSET Terminal]
             /\ \A j \in Jobs : analytics[j] \subseteq analytics'[j]
             /\ \A j \in DOMAIN batch : analytics'[j] # {}
  BY <1>3 DEF StoredBatch, SyncTypeOK, BatchHasEnded
<1>4. CASE PostStored
  <2>1. /\ pc = "post" /\ analytics' = StoredBatch /\ pc' = "mark"
        /\ UNCHANGED <<jobs, synced, old, purged, batch, givenUp>>
    BY <1>4 DEF PostStored
  <2>2. BatchHasEnded'
    BY <1>3, <2>1 DEF BatchHasEnded
  <2>3. SyncedHasEnded'
    BY <1>3, <2>1 DEF SyncedHasEnded, SyncTypeOK
  <2> QED
    BY <1>0, <1>3, <2>1, <2>2, <2>3 DEF SyncTypeOK
<1>5. CASE PostStoredUnmarked
  <2>1. /\ batch' = <<>> /\ pc' = "idle" /\ givenUp' \in 0..MaxGivenUp
        /\ UNCHANGED <<jobs, synced, old, purged>>
        /\ UNCHANGED analytics \/ (pc = "post" /\ analytics' = StoredBatch)
    BY <1>5, MaxGivenUpAssumption DEF PostStoredUnmarked, Drop, SyncTypeOK
  <2>2. SyncedHasEnded' /\ analytics' \in [Jobs -> SUBSET Terminal]
    BY <1>3, <2>1 DEF SyncedHasEnded, SyncTypeOK
  <2> QED
    BY <1>0, <2>1, <2>2 DEF SyncTypeOK, BatchHasEnded
<1>6. CASE MarkJobsSynced
  <2>1. /\ pc = "mark" /\ synced' = synced \cup (DOMAIN batch \ purged)
        /\ batch' = <<>> /\ pc' = "idle"
        /\ UNCHANGED <<jobs, old, purged, analytics, givenUp>>
    BY <1>6 DEF MarkJobsSynced, Drop
  <2>2. SyncedHasEnded'
    BY <2>1 DEF SyncedHasEnded, BatchHasEnded
  <2> QED
    BY <1>0, <2>1, <2>2 DEF SyncTypeOK, BatchHasEnded
<1>7. CASE DeleteOldSyncedJobs
  BY <1>0, <1>7 DEF DeleteOldSyncedJobs, SyncTypeOK, BatchHasEnded, SyncedHasEnded
<1>8. ASSUME NEW j \in Jobs, BecomesOld(j)
      PROVE  SyncInv'
  BY <1>0, <1>8 DEF BecomesOld, SyncTypeOK, BatchHasEnded, SyncedHasEnded
<1>9. CASE TableStep
  <2>1. Next /\ UNCHANGED <<synced, old, purged, batch, pc, analytics, givenUp>>
    BY <1>9 DEF TableStep, syncVars
  <2>2. IInv' /\ TypeOK'
    BY <2>1, StepPreservesIInv DEF IInv
  <2>3. /\ EndsAreHigh'
        /\ \A j \in Jobs : jobs[j].status \in Terminal => jobs'[j].status \in Terminal
    BY <2>1, EndsStay
  <2>4. BatchHasEnded' /\ SyncedHasEnded'
    BY <2>1, <2>3 DEF BatchHasEnded, SyncedHasEnded, SyncTypeOK
  <2> QED
    BY <2>1, <2>2, <2>3, <2>4 DEF SyncTypeOK
<1>10. CASE UNCHANGED vars
  BY <1>0, <1>10 DEF vars, syncVars, SyncTypeOK, BatchHasEnded, SyncedHasEnded
<1> QED
  BY <1>1, <1>2, <1>4, <1>5, <1>6, <1>7, <1>8, <1>9, <1>10 DEF SyncNext, SyncWorker

----------------------------------------------------------------------------
\* The inductive invariant holds over lost answers, failing updates and stops.
THEOREM SyncInvHolds == SyncSpec => []SyncInv
BY InitSyncInv, SyncInvKept, PTL DEF SyncSpec

\* The columns, the batch and what Supabase holds keep their shape.
THEOREM SyncTypeCorrect == SyncSpec => []SyncTypeOK
<1>1. SyncInv => SyncTypeOK
  BY DEF SyncInv
<1> QED
  BY <1>1, SyncInvHolds, PTL

\* DeleteOldSyncedJobs deletes no job of which Supabase does not hold an
\* outcome, whatever is lost between GetUnsyncedJobs and MarkJobsSynced.
THEOREM PurgedStaysStored == SyncSpec => []PurgedIsStored
<1>1. SyncInv => PurgedIsStored
  BY DEF SyncInv, SyncedHasEnded, PurgedIsStored
<1> QED
  BY <1>1, SyncInvHolds, PTL

\* It deletes only jobs that have come to their end.
THEOREM PurgedStaysTerminal == SyncSpec => []PurgedIsTerminal
<1>1. SyncInv => PurgedIsTerminal
  BY DEF SyncInv, SyncedHasEnded, PurgedIsTerminal
<1> QED
  BY <1>1, SyncInvHolds, PTL

----------------------------------------------------------------------------
(* The copy in Supabase beside the table.                                  *)

LEMMA InitReached == SyncInit => StoredIsReached /\ BatchIsReached
BY DEF SyncInit, StoredIsReached, BatchIsReached

LEMMA ReachedKept ==
  SyncInv /\ StoredIsReached /\ BatchIsReached /\ [SyncNext]_vars
    => StoredIsReached' /\ BatchIsReached'
<1> SUFFICES ASSUME SyncInv, StoredIsReached, BatchIsReached, [SyncNext]_vars
             PROVE  StoredIsReached' /\ BatchIsReached'
  OBVIOUS
<1> USE DEF StoredIsReached, BatchIsReached
<1>0. SyncTypeOK /\ TypeOK /\ DOMAIN batch \subseteq Jobs
  BY DEF SyncInv, SyncTypeOK
<1>1. CASE GetUnsyncedJobs
  <2>1. PICK b \in SUBSET Unsynced : batch' = [j \in b |-> jobs[j].status]
    BY <1>1 DEF GetUnsyncedJobs
  <2>2. \A j \in b : j \in Jobs /\ jobs[j].level >= statusLevels[jobs[j].status]
    BY DEF Unsynced, SyncInv, EndsAreHigh
  <2>3. ASSUME NEW j \in b
        PROVE  statusLevels[jobs[j].status] <= jobs[j].level
    <3>1. jobs[j].status \in Terminal /\ jobs[j] \in Row
      BY <1>0, <2>2 DEF Unsynced, TypeOK
    <3>2. PICK l \in 0..6, n \in 3..5 : l = jobs[j].level /\ n = statusLevels[jobs[j].status]
      BY <3>1, TerminalLevels DEF Row
    <3> QED
      BY <2>2, <3>2
  <2> QED
    BY <1>1, <2>1, <2>3 DEF GetUnsyncedJobs
<1>2. ASSUME analytics' = StoredBatch, UNCHANGED jobs
      PROVE  StoredIsReached'
  BY <1>2 DEF StoredBatch
<1>3. CASE PostRefused \/ PostStoredUnmarked \/ MarkJobsSynced
  <2>1. /\ batch' = <<>> /\ UNCHANGED jobs
        /\ UNCHANGED analytics \/ analytics' = StoredBatch
    BY <1>3 DEF PostRefused, PostStoredUnmarked, MarkJobsSynced, Drop
  <2> QED
    BY <1>2, <2>1
<1>4. CASE PostStored
  BY <1>2, <1>4 DEF PostStored
<1>5. CASE DeleteOldSyncedJobs \/ (\E j \in Jobs : BecomesOld(j)) \/ UNCHANGED vars
  BY <1>5 DEF DeleteOldSyncedJobs, BecomesOld, vars, syncVars
<1>6. CASE TableStep
  <2>1. Next /\ UNCHANGED <<batch, analytics>>
    BY <1>6 DEF TableStep, syncVars
  <2>2. \A j \in Jobs : jobs[j].level >= 2 => jobs'[j].level >= jobs[j].level
    BY <2>1, LevelsRise DEF SyncInv
  <2>3. TypeOK'
    BY <2>1, StepPreservesIInv DEF SyncInv, IInv
  <2>4. ASSUME NEW j \in Jobs, NEW s \in Terminal, statusLevels[s] <= jobs[j].level
        PROVE  statusLevels[s] <= jobs'[j].level
    <3>1. PICK n \in 3..5 : n = statusLevels[s]
      BY TerminalLevels
    <3>2. PICK l \in 0..6, k \in 0..6 : l = jobs[j].level /\ k = jobs'[j].level
      BY <1>0, <2>3 DEF TypeOK, Row
    <3>3. n <= l /\ (l >= 2 => k >= l)
      BY <2>2, <2>4, <3>1, <3>2
    <3>4. n <= k
      BY <3>3
    <3> QED
      BY <3>1, <3>2, <3>4
  <2>5. /\ \A j \in Jobs : analytics[j] \subseteq Terminal
        /\ \A j \in DOMAIN batch : batch[j] \in Terminal
    BY DEF SyncInv, SyncTypeOK, BatchHasEnded
  <2> QED
    BY <1>0, <2>1, <2>4, <2>5
<1> QED
  BY <1>1, <1>3, <1>4, <1>5, <1>6 DEF SyncNext, SyncWorker

\* Supabase is never told of an outcome that the job has not reached, or has
\* lost again, although a batch is posted some time after it was read.
THEOREM CopyIsNeverAhead == SyncSpec => []StoredIsReached
BY InitReached, ReachedKept, SyncInvHolds, PTL DEF SyncSpec

----------------------------------------------------------------------------
(* The table under the sync worker.                                        *)

LEMMA SyncStepIsLifecycleStep == [SyncNext]_vars => [Next]_jobs
BY DEF SyncNext, SyncWorker, GetUnsyncedJobs, PostRefused, PostStored, PostStoredUnmarked,
       MarkJobsSynced, DeleteOldSyncedJobs, BecomesOld, TableStep, vars

\* Sync and cleanup leave the rows to JobLifecycle: none of their statements
\* moves a job.
THEOREM SyncImplementsLifecycle == SyncSpec => Spec
<1>1. SyncInit => Init
  BY DEF SyncInit
<1> QED
  BY <1>1, SyncStepIsLifecycleStep, PTL DEF SyncSpec, Spec

\* So what JobLifecycle promises of a row holds beside sync and cleanup.
THEOREM SyncRowPromises ==
  SyncSpec => NeverRegresses /\ BindingIsPermanent /\ FailureIsFinal
BY SyncImplementsLifecycle, LevelsNeverRegress, BindingsArePermanent,
   FailuresAreFinal, PTL

\* No step takes the outcome of a job back: what GetUnsyncedJobs has seen as
\* ended has still ended when it is marked and when it is deleted.
OutcomesStay == [][\A j \in Jobs : jobs[j].status \in Terminal => jobs'[j].status \in Terminal]_vars

\* A later receipt may give a job another outcome (read after delivered), but
\* no receipt, worker or cleanup takes it back to a status that is none.
THEOREM OutcomesAreFinal == SyncSpec => OutcomesStay
<1> DEFINE Stays == \A j \in Jobs : jobs[j].status \in Terminal => jobs'[j].status \in Terminal
<1>1. SyncInv /\ [SyncNext]_vars => [Stays]_vars
  <2> SUFFICES ASSUME SyncInv, SyncNext PROVE Stays
    OBVIOUS
  <2>1. CASE Next
    BY <2>1, EndsStay DEF SyncInv
  <2>2. CASE UNCHANGED jobs
    BY <2>2
  <2> QED
    BY <2>1, <2>2, SyncStepIsLifecycleStep
<1> QED
  BY <1>1, SyncInvHolds, PTL DEF SyncSpec, OutcomesStay

=============================================================================
