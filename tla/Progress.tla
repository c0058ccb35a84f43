------------------------------ MODULE Progress ------------------------------
(***************************************************************************)
(* What the engine eventually does.                                        *)
(*                                                                         *)
(* The Go scheduler runs every goroutine that can run and time passes:     *)
(* weak fairness for every worker, for next_retry_at, for the goroutines   *)
(* of the webhook handler, for the work of the other goroutines, for the   *)
(* end of main and for the supervisor that starts the process again. When  *)
(* ctx is cancelled and a tick is due, select picks one of the two at      *)
(* random, so a loop that comes back to select leaves some time: strong    *)
(* fairness for Leave. Nothing obliges Meta to answer, so progress is      *)
(* claimed for the jobs in Lucky only: if such a job is tried again and    *)
(* again, GetTenant and the limiter let it through some time and Meta      *)
(* answers some time. The other jobs may be requeued for ever.             *)
(***************************************************************************)
EXTENDS Engine

CONSTANT Lucky    \* jobs that Meta answers if they are tried often enough

ASSUME LuckyAssumption == Lucky \subseteq Jobs

\* The worker has a lucky job, and what it waits for comes.
PassesWithLuck(w)   == worker[w].job \in Lucky /\ Proceed(w)
AnsweredWithLuck(w) == worker[w].job \in Lucky /\ (ReceiveWamid(w) \/ MetaRefuses(w))

InPool(A) == up /\ A /\ UNCHANGED <<hookVars, processVars>>
InHook(A) == up /\ A /\ UNCHANGED <<poolVars, processVars>>
InBackground(A) == up /\ A /\ UNCHANGED <<edgeVars, poolVars, hookVars, stopVars>>

Fairness ==
  /\ \A w \in Workers :
       /\ WF_vars(InPool(WorkerStep(w)))
       /\ SF_vars(InPool(PassesWithLuck(w)))
       /\ SF_vars(InPool(AnsweredWithLuck(w)))
  /\ \A j \in Jobs : WF_vars(InPool(BecomesDue(j)))
  /\ \A m \in Wamids, s \in Receipts : WF_vars(InHook(ApplyReceipt(m, s)))
  /\ \A r \in Applied : WF_vars(InHook(RecordEvent(r)))
  /\ WF_vars(JanitorStep)
  /\ \A b \in Background :
       WF_vars(InBackground(End(b))) /\ SF_vars(InBackground(Leave(b)))
  /\ WF_vars(Stop) /\ WF_vars(Boot)

LiveSpec == Spec /\ Fairness

----------------------------------------------------------------------------
(***************************************************************************)
(* Properties.                                                             *)
(***************************************************************************)

Settled(j) == jobs[j].status \in {"accepted"} \cup Receipts

\* A job in the queue reaches an outcome, unless its tenant is paused or the
\* process is shut down: other jobs of the same workers that are requeued for
\* ever do not starve it, because a requeued job is due later than every job
\* that waits (ORDER BY next_retry_at in ClaimNextJob).  Checked where no
\* statement fails and nothing is killed: either may leave the job in
\* processing for good (OrphansAreBounded).
QueuedJobSettles ==
  \A j \in Lucky :
    jobs[j].status = "queued" ~>
      Settled(j) \/ paused[TenantOf[j]] \/ ctx = "cancelled"

\* A signal ends the process: no worker is left in a statement, a wait or a
\* retry that keeps pool.Stop() from returning, and no webhook worker, janitor,
\* sync or cleanup in work or at a tick that keeps main waiting for it.
ShutdownCompletes == ctx = "cancelled" ~> ~up

----------------------------------------------------------------------------
(***************************************************************************)
(* What the documentation says of the engine and the code does not do.     *)
(***************************************************************************)

\* Unmatched events are selected every minute and reconciled with jobs (the
\* comments in janitor.go), because a receipt may come before the answer to
\* the request (the comment of UpdateJobMonotonic).
UnmatchedEventIsReconciled ==
  \A m \in Wamids, s \in Receipts :
    events[<<m, s>>] = "unmatched" /\ HasRow(m) ~> Reflected(m, s)

\* A job that Meta reports as failed becomes "failed" (docs/public-api.md,
\* Lifecycle Semantics).
FailedReceiptFailsJob ==
  \A j \in Jobs, m \in Wamids :
    <<m, "failed">> \in inbox /\ jobs[j].wamid = m ~> jobs[j].status = "failed"

=============================================================================
