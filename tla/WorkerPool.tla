----------------------------- MODULE WorkerPool -----------------------------
(***************************************************************************)
(* The message dispatch pool of internal/engine/worker.go: a fixed number  *)
(* of goroutines that claim the oldest due job, send it to Meta and record *)
(* the outcome.  One action is one statement on the database or one event  *)
(* of the HTTP exchange, because other workers, the API handlers and Meta  *)
(* may act between any two of them.                                        *)
(*                                                                         *)
(* next_retry_at is kept as the sequence "due": the queued jobs whose time *)
(* has come, oldest next_retry_at first.  A job enters it when its time    *)
(* comes, so later times enter later (the writer is assumed not to be      *)
(* blocked for longer than the granularity of CURRENT_TIMESTAMP between    *)
(* the computation of next_retry_at and the write).                        *)
(***************************************************************************)
EXTENDS EdgeState, MetaClient, FiniteSets, Sequences, SequencesExt

CONSTANTS
  Workers,     \* the goroutines of the pool
  Tenants,     \* rows of table tenants
  TenantOf     \* column tenant_id: the tenant of each job

ASSUME TenantOfAssumption == TenantOf \in [Jobs -> Tenants]
ASSUME WorkersAssumption == IsFiniteSet(Workers)

VARIABLES
  due,        \* the queued jobs with next_retry_at <= now, in that order
  paused,     \* column is_paused of table tenants
  ctx,        \* the context main.go hands to the pool
  worker,     \* what each goroutine is doing
  lateSends   \* history: messages Meta accepted for a tenant since it was paused

poolVars == <<due, paused, ctx, worker, lateSends>>

\* Where a worker is in workerLoop.
AtRest   == {"poll", "exited"}
Holding  == {"prepare", "send", "answer", "requeue", "fail", "failAndPause",
             "bind", "fallback"}
Closing  == {"pause", "accept"}

WorkerState == [pc    : AtRest \cup Holding \cup Closing,
                job   : Jobs \cup {NoJob},
                wamid : Wamids \cup {NoWamid}]

Idle == [pc |-> "poll", job |-> NoJob, wamid |-> NoWamid]

PoolInit ==
  /\ due = <<>>
  /\ paused = [t \in Tenants |-> FALSE]
  /\ ctx = "live"
  /\ worker = [w \in Workers |-> Idle]
  /\ lateSends = [t \in Tenants |-> 0]

PoolTypeOK ==
  /\ due \in Seq(Jobs)
  /\ paused \in [Tenants -> BOOLEAN]
  /\ ctx \in {"live", "cancelled"}
  /\ worker \in [Workers -> WorkerState]
  /\ lateSends \in [Tenants -> Nat]

----------------------------------------------------------------------------
(* Statements of a worker.                                                 *)

Goto(w, pc) == [worker EXCEPT ![w].pc = pc]
NextIteration(w) == [worker EXCEPT ![w] = Idle]

\* Every statement of a worker carries ctx, so once ctx is cancelled it fails.
StatementFails ==
  \/ ctx = "cancelled" /\ UNCHANGED faults
  \/ ctx = "live" /\ Fault

\* A statement that leaves the table as "table", or fails and leaves it alone.
Exec(table, onSuccess, onError) ==
  \/ /\ ctx = "live"
     /\ jobs' = table
     /\ worker' = onSuccess
     /\ UNCHANGED faults
  \/ /\ StatementFails
     /\ worker' = onError
     /\ UNCHANGED jobs

\* is_paused becomes p.
SetPaused(p) ==
  /\ paused' = p
  /\ lateSends' = [t \in Tenants |-> IF paused[t] /\ p[t] THEN lateSends[t] ELSE 0]

----------------------------------------------------------------------------
(* The loop.                                                               *)

\* Mutant: is_paused is not asked.
ClaimablePaused(j) == jobs[j].status = "queued"

Claimable(j) == jobs[j].status = "queued" /\ ~paused[TenantOf[j]]

\* The job that ORDER BY next_retry_at LIMIT 1 selects, by its place in due.
IsNext(i) ==
  /\ i \in 1..Len(due)
  /\ Claimable(due[i])
  /\ \A k \in 1..(i - 1) : ~Claimable(due[k])

Claim(w) ==
  /\ worker[w].pc = "poll"
  /\ ctx = "live"
  /\ \E i \in DOMAIN due :
       /\ IsNext(i)
       /\ jobs' = ClaimNextJob(jobs, due[i])
       /\ due' = RemoveAt(due, i)
       /\ worker' = [worker EXCEPT ![w] = [Idle EXCEPT !.pc = "prepare", !.job = due[i]]]
  /\ UNCHANGED <<sent, faults, paused, ctx, lateSends>>

\* GetTenant finds the tenant and the limiter lets the message through.
Proceed(w) ==
  /\ worker[w].pc = "prepare"
  /\ ctx = "live"
  /\ worker' = Goto(w, "send")
  /\ UNCHANGED <<edgeVars, due, paused, ctx, lateSends>>

\* Mutant: the worker goes on with the next job.
PutBackForgotten(w) ==
  /\ worker[w].pc = "prepare"
  /\ worker' = NextIteration(w)
  /\ UNCHANGED <<edgeVars, due, paused, ctx, lateSends>>

\* GetTenant fails, or the limiter has no token left.
PutBack(w) ==
  /\ worker[w].pc = "prepare"
  /\ worker' = Goto(w, "requeue")
  /\ UNCHANGED <<edgeVars, due, paused, ctx, lateSends>>

\* A sync gave the tenant's row another id after the claim: GetTenant finds none.
TenantGone(w) ==
  /\ worker[w].pc = "prepare"
  /\ ctx = "live"
  /\ worker' = Goto(w, "fail")
  /\ UNCHANGED <<edgeVars, due, paused, ctx, lateSends>>

\* Meta accepts the message of this request; the answer is on its way.
MetaAccepts(w) ==
  /\ worker[w].pc = "send"
  /\ \E m \in Wamids :
       /\ sent[m] = NoJob
       /\ sent' = [sent EXCEPT ![m] = worker[w].job]
       /\ worker' = [worker EXCEPT ![w].pc = "answer", ![w].wamid = m]
  /\ LET t == TenantOf[worker[w].job]
     IN  lateSends' = [lateSends EXCEPT ![t] = IF paused[t] THEN @ + 1 ELSE 0]
  /\ UNCHANGED <<jobs, faults, due, paused, ctx>>

\* Meta answers 4xx.
MetaRefuses(w) ==
  /\ worker[w].pc = "send"
  /\ \E pc \in {AfterError(err) : err \in Refusals} : worker' = Goto(w, pc)
  /\ UNCHANGED <<edgeVars, due, paused, ctx, lateSends>>

\* The request does not reach Meta, or Meta answers 5xx without accepting.
SendFails(w) ==
  /\ worker[w].pc = "send"
  /\ \E pc \in {AfterError(err) : err \in Failures} : worker' = Goto(w, pc)
  /\ UNCHANGED <<edgeVars, due, paused, ctx, lateSends>>

ReceiveWamid(w) ==
  /\ worker[w].pc = "answer"
  /\ worker' = Goto(w, "bind")
  /\ UNCHANGED <<edgeVars, due, paused, ctx, lateSends>>

\* The answer is late (15 s), broken off, not JSON, or its messages are empty: an
\* error like a lost connection, although Meta has the message.  (Meta is taken
\* to give every message an id: the code stores what a message entry has.)
LoseAnswer(w) ==
  /\ worker[w].pc = "answer"
  /\ worker' = [worker EXCEPT ![w].pc = AfterError(OtherError), ![w].wamid = NoWamid]
  /\ UNCHANGED <<edgeVars, due, paused, ctx, lateSends>>

\* Mutant: the statement is tried until it succeeds.
RequeueUntilDone(w) ==
  /\ worker[w].pc = "requeue"
  /\ Exec(RequeueWithJitter(jobs, worker[w].job), NextIteration(w), worker)
  /\ UNCHANGED <<sent, due, paused, ctx, lateSends>>

\* The job becomes due again 3 to 5 seconds later (BecomesDue).
Requeue(w) ==
  /\ worker[w].pc = "requeue"
  /\ Exec(RequeueWithJitter(jobs, worker[w].job), NextIteration(w), NextIteration(w))
  /\ UNCHANGED <<sent, due, paused, ctx, lateSends>>

Fail(w) ==
  /\ worker[w].pc \in {"fail", "failAndPause"}
  /\ LET next == IF worker[w].pc = "fail" THEN NextIteration(w) ELSE Goto(w, "pause")
     IN  Exec(MarkJobFailed(jobs, worker[w].job), next, next)
  /\ UNCHANGED <<sent, due, paused, ctx, lateSends>>

PauseTenant(w) ==
  /\ worker[w].pc = "pause"
  /\ worker' = NextIteration(w)
  /\ \/ /\ ctx = "live"
        /\ SetPaused([paused EXCEPT ![TenantOf[worker[w].job]] = TRUE])
        /\ UNCHANGED faults
     \/ StatementFails /\ UNCHANGED <<paused, lateSends>>
  /\ UNCHANGED <<jobs, sent, due, ctx>>

Bind(w) ==
  /\ worker[w].pc = "bind"
  /\ Exec(SetJobMetaID(jobs, worker[w].job, worker[w].wamid), Goto(w, "accept"), Goto(w, "fallback"))
  /\ UNCHANGED <<sent, due, paused, ctx, lateSends>>

Fallback(w) ==
  /\ worker[w].pc = "fallback"
  /\ Exec(UpdateJobStatus(jobs, worker[w].job, "accepted", 2), NextIteration(w), NextIteration(w))
  /\ UNCHANGED <<sent, due, paused, ctx, lateSends>>

\* Mutant: when the statement fails the job is requeued.
AcceptOrRequeue(w) ==
  /\ worker[w].pc = "accept"
  /\ Exec(UpdateJobMonotonic(jobs, worker[w].wamid, "accepted", 2), NextIteration(w), Goto(w, "requeue"))
  /\ UNCHANGED <<sent, due, paused, ctx, lateSends>>

\* Mutant: the status is written by job id, without comparing levels.
AcceptById(w) ==
  /\ worker[w].pc = "accept"
  /\ Exec(UpdateJobStatus(jobs, worker[w].job, "accepted", 2), NextIteration(w), NextIteration(w))
  /\ UNCHANGED <<sent, due, paused, ctx, lateSends>>

Accept(w) ==
  /\ worker[w].pc = "accept"
  /\ Exec(UpdateJobMonotonic(jobs, worker[w].wamid, "accepted", 2), NextIteration(w), NextIteration(w))
  /\ UNCHANGED <<sent, due, paused, ctx, lateSends>>

\* An iteration panics; workerLoop recovers and worker starts it anew.
Recover(w) ==
  /\ worker[w].pc \notin AtRest
  /\ Fault
  /\ worker' = NextIteration(w)
  /\ UNCHANGED <<jobs, sent, due, paused, ctx, lateSends>>

Exit(w) ==
  /\ worker[w].pc = "poll"
  /\ ctx = "cancelled"
  /\ worker' = Goto(w, "exited")
  /\ UNCHANGED <<edgeVars, due, paused, ctx, lateSends>>

----------------------------------------------------------------------------
(* What happens around the pool.                                           *)

\* HandleSendMessage inserts a job (whether it may is the subject of the API).
Submit(j) ==
  /\ jobs[j].status = "absent"
  /\ jobs' = InsertJob(jobs, j)
  /\ UNCHANGED <<sent, faults, poolVars>>

\* Mutant: the youngest job is claimed first.
BecomesDueFirst(j) ==
  /\ jobs[j].status = "queued"
  /\ ~Contains(due, j)
  /\ due' = <<j>> \o due
  /\ UNCHANGED <<edgeVars, paused, ctx, worker, lateSends>>

\* Time passes next_retry_at of a queued job.
BecomesDue(j) ==
  /\ jobs[j].status = "queued"
  /\ ~Contains(due, j)
  /\ due' = Append(due, j)
  /\ UNCHANGED <<edgeVars, paused, ctx, worker, lateSends>>

\* HandlePauseTenant (b is TRUE) or HandleSyncTenant (b comes with the payload).
ControlPlane(t, b) ==
  /\ paused[t] # b
  /\ SetPaused([paused EXCEPT ![t] = b])
  /\ UNCHANGED <<edgeVars, due, ctx, worker>>

\* main.go calls cancel().
Cancel ==
  /\ ctx = "live"
  /\ ctx' = "cancelled"
  /\ UNCHANGED <<edgeVars, due, paused, worker, lateSends>>

----------------------------------------------------------------------------
WorkerStep(w) ==
  \/ Claim(w) \/ Proceed(w) \/ PutBack(w) \/ TenantGone(w)
  \/ MetaAccepts(w) \/ MetaRefuses(w) \/ SendFails(w) \/ ReceiveWamid(w) \/ LoseAnswer(w)
  \/ Requeue(w) \/ Fail(w) \/ PauseTenant(w)
  \/ Bind(w) \/ Fallback(w) \/ Accept(w)
  \/ Recover(w) \/ Exit(w)

Surroundings ==
  \/ \E j \in Jobs : Submit(j) \/ BecomesDue(j)
  \/ \E t \in Tenants, b \in BOOLEAN : ControlPlane(t, b)

PoolNext == (\E w \in Workers : WorkerStep(w)) \/ Surroundings

PoolSpec ==
  EdgeInit /\ PoolInit /\ [][PoolNext \/ Cancel]_<<edgeVars, poolVars>>

----------------------------------------------------------------------------
(***************************************************************************)
(* Properties of the pool.                                                 *)
(***************************************************************************)

\* No two workers hold the same job between its claim and the statement that
\* gives it up (docs/concurrency/goroutine-model.md, Job Claiming Atomicity).
ExclusiveClaim ==
  \A v, w \in Workers :
    v # w /\ worker[v].pc \in Holding /\ worker[w].pc \in Holding
      => worker[v].job # worker[w].job

\* Pausing a tenant does not recall what workers already hold, but nothing
\* more is claimed: while the tenant stays paused Meta accepts at most one
\* message per worker for it.
PauseContained ==
  \A t \in Tenants : lateSends[t] <= Cardinality(Workers)

=============================================================================
