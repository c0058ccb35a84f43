---------------------------- MODULE JobLifecycle ----------------------------
(***************************************************************************)
(* What the job engine promises about one row of the jobs table, whatever  *)
(* workers, receipts, crashes and restarts do: the steps a row may take.   *)
(* There are no workers here, no Meta and no faults.  Engine is shown to   *)
(* implement this specification; components that only read the table can  *)
(* be checked against it instead of against the whole engine.              *)
(***************************************************************************)
EXTENDS JobTable

VARIABLE jobs

Unbound(j) == jobs[j].wamid = NoWamid

Init == jobs = EmptyTable

----------------------------------------------------------------------------
Submit(j) ==
  /\ jobs[j].status = "absent"
  /\ jobs' = InsertJob(jobs, j)

Claim(j) ==
  /\ jobs[j].status = "queued"
  /\ jobs' = ClaimNextJob(jobs, j)

\* Mutant: a bound job is requeued too.
RequeueBound(j) ==
  /\ jobs[j].status = "processing"
  /\ jobs' = RequeueWithJitter(jobs, j)

\* A job goes back to the queue only while no message identity is bound to it.
Requeue(j) ==
  /\ jobs[j].status = "processing" /\ Unbound(j)
  /\ jobs' = RequeueWithJitter(jobs, j)

Fail(j) ==
  /\ jobs[j].status = "processing" /\ Unbound(j)
  /\ jobs' = MarkJobFailed(jobs, j)

\* The statement asks nothing of the other rows: that no two rows get the same
\* identity is Meta's and the workers' doing (OneRowPerWamid of Engine).
Bind(j, m) ==
  /\ jobs[j].status = "processing" /\ Unbound(j)
  /\ jobs' = SetJobMetaID(jobs, j, m)

\* The job was accepted by Meta but its identity could not be stored.
AcceptUnbound(j) ==
  /\ jobs[j].status = "processing" /\ Unbound(j)
  /\ jobs' = UpdateJobStatus(jobs, j, "accepted", 2)

\* Mutant: the level is not compared.
AdvanceUngated(j, s, l) ==
  /\ ~Unbound(j)
  /\ jobs' = UpdateJobStatus(jobs, j, s, l)

\* A bound job moves up by Meta's answer or by a receipt, and no other row
\* moves with it although the update goes by meta_message_id.
Advance(j, s, l) ==
  /\ ~Unbound(j)
  /\ jobs[j].level < l
  /\ jobs' = UpdateJobStatus(jobs, j, s, l)

Next ==
  \E j \in Jobs :
    \/ Submit(j) \/ Claim(j) \/ Requeue(j) \/ Fail(j) \/ AcceptUnbound(j)
    \/ \E m \in Wamids : Bind(j, m)
    \/ Advance(j, "accepted", 2)
    \/ \E s \in Receipts : Advance(j, s, statusLevels[s])

Spec == Init /\ [][Next]_jobs

----------------------------------------------------------------------------
(***************************************************************************)
(* Properties.                                                             *)
(***************************************************************************)

TypeOK == jobs \in [Jobs -> Row]

\* From "accepted" on the level never goes down: neither a late receipt, nor
\* the worker's own "accepted", nor a requeue overwrites a later status.
NeverRegresses ==
  [][\A j \in Jobs : jobs[j].level >= 2 => jobs'[j].level >= jobs[j].level]_jobs

\* Once an identity is bound it stays, and the job never returns to the queue
\* (from where it would be sent to Meta again).
BindingIsPermanent ==
  [][\A j \in Jobs : ~Unbound(j) => /\ jobs'[j].wamid = jobs[j].wamid
                                    /\ jobs'[j].status # "queued"]_jobs

\* A job failed by a worker (level 6) is never touched again.
FailureIsFinal ==
  [][\A j \in Jobs : jobs[j].level = 6 => jobs'[j] = jobs[j]]_jobs

=============================================================================
