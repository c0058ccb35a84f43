---------------------------- MODULE EngineProofs ----------------------------
(***************************************************************************)
(* Proofs about Engine, for every number of jobs, workers, tenants and     *)
(* messages: first of the worker pool alone, then of the pool with the     *)
(* webhook handler, the janitor, shutdowns, kills and restarts.  The       *)
(* engine implements JobLifecycle, and with it every property proved of    *)
(* JobLifecycle holds of the engine; it implements WorkQueue; and what it  *)
(* loses track of is accounted for.                                        *)
(***************************************************************************)
EXTENDS Engine, FiniteSetTheorems, TLAPS

----------------------------------------------------------------------------
(***************************************************************************)
(* The pool.  The invariant PoolInv says what a worker may rely on while   *)
(* it holds a job: the row is "processing" and has no identity (Held), no  *)
(* other worker holds it (ExclusiveClaim), and the identity in its hands   *)
(* is the one Meta gave to this job (AnswerIsOwn).  RowShape is needed     *)
(* because Claim and Submit find their job by its status only.             *)
(***************************************************************************)

RowShape ==
  \A j \in Jobs :
    /\ jobs[j].status \in {"absent", "queued"} => jobs[j].level = 0 /\ Unbound(j)
    /\ jobs[j].status = "processing" => jobs[j].level = 1

Held ==
  \A w \in Workers :
    worker[w].pc \in Holding =>
      /\ worker[w].job \in Jobs
      /\ jobs[worker[w].job].status = "processing"
      /\ Unbound(worker[w].job)

AnswerIsOwn ==
  \A w \in Workers :
    worker[w].pc \in {"answer", "bind"} =>
      worker[w].wamid \in Wamids /\ sent[worker[w].wamid] = worker[w].job

Bound ==
  \A w \in Workers :
    /\ worker[w].pc = "accept" => worker[w].wamid \in Wamids
    /\ worker[w].pc = "pause" => worker[w].job \in Jobs

BoundToOwn == \A j \in Jobs : Unbound(j) \/ sent[jobs[j].wamid] = j

SafeInv == RowShape /\ Held /\ ExclusiveClaim /\ AnswerIsOwn /\ Bound /\ BoundToOwn

PoolInv == EdgeTypeOK /\ PoolTypeOK /\ SafeInv

----------------------------------------------------------------------------
(* The statements.                                                         *)

\* A statement that writes status and level of one row.
LEMMA StatusWritten ==
  ASSUME jobs \in [Jobs -> Row], NEW j \in Jobs, NEW s \in Statuses, NEW l \in 0..6
  PROVE  LET t == UpdateJobStatus(jobs, j, s, l)
         IN  /\ t \in [Jobs -> Row]
             /\ t[j].status = s /\ t[j].level = l /\ t[j].wamid = jobs[j].wamid
             /\ \A k \in Jobs \ {j} : t[k] = jobs[k]
BY DEF UpdateJobStatus, Row

LEMMA WamidWritten ==
  ASSUME jobs \in [Jobs -> Row], NEW j \in Jobs, NEW m \in Wamids
  PROVE  LET t == SetJobMetaID(jobs, j, m)
         IN  /\ t \in [Jobs -> Row]
             /\ t[j].wamid = m /\ t[j].status = jobs[j].status /\ t[j].level = jobs[j].level
             /\ \A k \in Jobs \ {j} : t[k] = jobs[k]
BY DEF SetJobMetaID, Row

\* UpdateJobMonotonic writes the rows that have the identity and a lower
\* level; these are bound, and no identity changes.
LEMMA MonotonicWritten ==
  ASSUME jobs \in [Jobs -> Row], NEW m \in Wamids, NEW s \in Statuses, NEW l \in 2..5
  PROVE  LET t == UpdateJobMonotonic(jobs, m, s, l)
         IN  /\ t \in [Jobs -> Row]
             /\ \A k \in Jobs :
                  /\ t[k].wamid = jobs[k].wamid
                  /\ \/ t[k] = jobs[k]
                     \/ /\ jobs[k].wamid = m /\ jobs[k].level < l
                        /\ t[k].status = s /\ t[k].level = l
<1> DEFINE t == UpdateJobMonotonic(jobs, m, s, l)
<1>1. ASSUME NEW k \in Jobs
      PROVE  t[k] = IF jobs[k].wamid = m /\ jobs[k].level < l
                    THEN UpdateJobStatus(jobs, k, s, l)[k]
                    ELSE jobs[k]
  BY DEF UpdateJobMonotonic, Below, UpdateJobStatus
<1>2. ASSUME NEW k \in Jobs
      PROVE  LET r == UpdateJobStatus(jobs, k, s, l)[k]
             IN  r \in Row /\ r.status = s /\ r.level = l /\ r.wamid = jobs[k].wamid
  <2>1. l \in 0..6
    OBVIOUS
  <2> QED
    BY <2>1, StatusWritten
<1>3. t \in [Jobs -> Row]
  <2>1. \A k \in Jobs : t[k] \in Row
    BY <1>1, <1>2
  <2> QED
    BY <2>1 DEF UpdateJobMonotonic
<1>4. ASSUME NEW k \in Jobs
      PROVE  /\ t[k].wamid = jobs[k].wamid
             /\ \/ t[k] = jobs[k]
                \/ /\ jobs[k].wamid = m /\ jobs[k].level < l
                   /\ t[k].status = s /\ t[k].level = l
  BY <1>1, <1>2
<1> QED
  BY <1>3, <1>4

----------------------------------------------------------------------------
(* due stays a sequence of jobs.                                           *)

LEMMA DueShrinks ==
  ASSUME NEW s \in Seq(Jobs), NEW i \in 1..Len(s)
  PROVE  RemoveAt(s, i) \in Seq(Jobs)
BY DEF RemoveAt

----------------------------------------------------------------------------
(* The places of a worker.                                                 *)

LEMMA WorkerPlaces ==
  ASSUME PoolTypeOK, NEW w \in Workers
  PROVE  /\ \A pc \in AtRest \cup Holding \cup Closing :
              /\ Goto(w, pc) \in [Workers -> WorkerState]
              /\ Goto(w, pc)[w].pc = pc
              /\ Goto(w, pc)[w].job = worker[w].job
              /\ Goto(w, pc)[w].wamid = worker[w].wamid
              /\ \A v \in Workers \ {w} : Goto(w, pc)[v] = worker[v]
         /\ NextIteration(w) \in [Workers -> WorkerState]
         /\ NextIteration(w)[w].pc = "poll"
         /\ \A v \in Workers \ {w} : NextIteration(w)[v] = worker[v]
<1>1. Idle \in WorkerState
  BY DEF Idle, WorkerState, AtRest
<1>2. ASSUME NEW pc \in AtRest \cup Holding \cup Closing
      PROVE  /\ Goto(w, pc) \in [Workers -> WorkerState]
             /\ Goto(w, pc)[w].pc = pc
             /\ Goto(w, pc)[w].job = worker[w].job
             /\ Goto(w, pc)[w].wamid = worker[w].wamid
             /\ \A v \in Workers \ {w} : Goto(w, pc)[v] = worker[v]
  BY DEF PoolTypeOK, WorkerState, Goto
<1>3. /\ NextIteration(w) \in [Workers -> WorkerState]
      /\ NextIteration(w)[w].pc = "poll"
      /\ \A v \in Workers \ {w} : NextIteration(w)[v] = worker[v]
  BY <1>1 DEF PoolTypeOK, NextIteration, Idle
<1> QED
  BY <1>2, <1>3

----------------------------------------------------------------------------
(* What a worker does after an error.                                      *)

LEMMA AfterErrors ==
  /\ AfterError(OtherError) = "requeue"
  /\ \A err \in Failures : AfterError(err) = "requeue"
  /\ \A err \in Refusals : AfterError(err) \in {"fail", "failAndPause"}
<1>1. \A s \in {400, 401, 429}, c \in Codes :
        AfterError(MetaAPIError(s, c)) \in {"fail", "failAndPause"}
  BY DEF AfterError, MetaAPIError, IsTransientError, IsPolicyError, Codes
<1>2. \A s \in {500, 503}, c \in Codes : AfterError(MetaAPIError(s, c)) = "requeue"
  BY DEF AfterError, MetaAPIError, IsTransientError, Codes
<1>3. AfterError(OtherError) = "requeue"
  BY DEF AfterError, OtherError, IsTransientError
<1> QED
  BY <1>1, <1>2, <1>3 DEF Failures, Refusals

----------------------------------------------------------------------------
(* Three kinds of steps that preserve the invariant.                       *)

\* A worker goes on, puts its job down or exits; the table stays.
LEMMA ControlStep ==
  ASSUME SafeInv, NEW w \in Workers,
         UNCHANGED <<jobs, sent>>,
         \A v \in Workers \ {w} : worker'[v] = worker[v],
         worker'[w].pc \in Holding \cup {"pause"} =>
           worker[w].pc \in Holding \cup {"pause"} /\ worker'[w].job = worker[w].job,
         worker'[w].pc \in Holding => worker[w].pc \in Holding,
         worker'[w].pc \in {"answer", "bind"} =>
           worker[w].pc \in {"answer", "bind"} /\ worker'[w].wamid = worker[w].wamid,
         worker'[w].pc # "accept"
  PROVE  SafeInv'
<1>1. RowShape' /\ BoundToOwn'
  BY DEF SafeInv, RowShape, BoundToOwn, Unbound
<1>2. Held'
  BY DEF SafeInv, Held, Unbound, Holding
<1>3. ExclusiveClaim'
  BY DEF SafeInv, ExclusiveClaim, Holding
<1>4. AnswerIsOwn'
  BY DEF SafeInv, AnswerIsOwn, Holding
<1>5. Bound'
  BY DEF SafeInv, Bound, Held
<1> QED
  BY <1>1, <1>2, <1>3, <1>4, <1>5 DEF SafeInv

\* A worker writes the row of the job it holds and puts the job down.
LEMMA HolderWrites ==
  ASSUME SafeInv, NEW w \in Workers, NEW k \in Jobs,
         worker[w].pc \in Holding, k = worker[w].job,
         UNCHANGED sent,
         \A v \in Workers \ {w} : worker'[v] = worker[v],
         \A j \in Jobs \ {k} : jobs'[j] = jobs[j],
         \/ jobs'[k].wamid = jobs[k].wamid
         \/ jobs'[k].wamid \in Wamids /\ sent[jobs'[k].wamid] = k,
         jobs'[k].status \in {"absent", "queued"} => jobs'[k].level = 0 /\ jobs'[k].wamid = NoWamid,
         jobs'[k].status = "processing" => jobs'[k].level = 1,
         worker'[w].pc \notin Holding,
         worker'[w].pc = "accept" => worker'[w].wamid \in Wamids,
         worker'[w].pc = "pause" => worker'[w].job = k
  PROVE  SafeInv'
<1>1. RowShape'
  BY DEF SafeInv, RowShape, Unbound
<1>2. BoundToOwn'
  BY DEF SafeInv, BoundToOwn, Unbound, Held
<1>3. \A v \in Workers \ {w} : worker[v].pc \in Holding => worker[v].job \in Jobs \ {k}
  BY DEF SafeInv, Held, ExclusiveClaim
<1>4. Held'
  BY <1>3 DEF SafeInv, Held, Unbound
<1>5. ExclusiveClaim'
  BY DEF SafeInv, ExclusiveClaim
<1>6. AnswerIsOwn'
  BY DEF SafeInv, AnswerIsOwn, Holding
<1>7. Bound'
  BY DEF SafeInv, Bound
<1> QED
  BY <1>1, <1>2, <1>4, <1>5, <1>6, <1>7 DEF SafeInv

\* Rows that are bound move up and keep their identity, while workers stay or
\* one of them puts its work down: Accept, and receipts (MetaWebhook).
LEMMA BoundRowsRise ==
  ASSUME SafeInv, UNCHANGED sent,
         \A v \in Workers : worker'[v] = worker[v] \/ worker'[v].pc = "poll",
         \A j \in Jobs :
           /\ jobs'[j].wamid = jobs[j].wamid
           /\ \/ jobs'[j] = jobs[j]
              \/ ~Unbound(j) /\ jobs'[j].status \in {"accepted"} \cup Receipts
  PROVE  SafeInv'
<1>1. RowShape'
  BY DEF SafeInv, RowShape, Unbound, Receipts
<1>2. BoundToOwn'
  BY DEF SafeInv, BoundToOwn, Unbound
<1>3. Held'
  BY DEF SafeInv, Held, Unbound, Holding
<1>4. ExclusiveClaim'
  BY DEF SafeInv, ExclusiveClaim, Holding
<1>5. AnswerIsOwn'
  BY DEF SafeInv, AnswerIsOwn
<1>6. Bound'
  BY DEF SafeInv, Bound
<1> QED
  BY <1>1, <1>2, <1>3, <1>4, <1>5, <1>6 DEF SafeInv

----------------------------------------------------------------------------
(* The type invariant.                                                     *)

LEMMA PoolStepTypes ==
  ASSUME PoolInv, PoolNext \/ Cancel
  PROVE  EdgeTypeOK' /\ PoolTypeOK'
<1> USE DEF PoolInv
<1>1. ASSUME NEW w \in Workers, Claim(w)
      PROVE  EdgeTypeOK' /\ PoolTypeOK'
  <2>1. PICK i \in DOMAIN due :
          /\ IsNext(i)
          /\ jobs' = ClaimNextJob(jobs, due[i])
          /\ due' = RemoveAt(due, i)
          /\ worker' = [worker EXCEPT ![w] = [Idle EXCEPT !.pc = "prepare", !.job = due[i]]]
    BY <1>1 DEF Claim
  <2>2. i \in 1..Len(due) /\ due[i] \in Jobs /\ due \in Seq(Jobs)
    BY <2>1 DEF PoolTypeOK, IsNext
  <2>3. jobs' \in [Jobs -> Row]
    BY <2>1, <2>2, StatusWritten DEF EdgeTypeOK, ClaimNextJob, Statuses
  <2>4. due' \in Seq(Jobs)
    BY <2>1, <2>2, DueShrinks
  <2>5. [Idle EXCEPT !.pc = "prepare", !.job = due[i]] \in WorkerState
    BY <2>2 DEF Idle, WorkerState, Holding
  <2>6. worker' \in [Workers -> WorkerState]
    BY <2>1, <2>5 DEF PoolTypeOK
  <2> QED
    BY <1>1, <2>3, <2>4, <2>6 DEF Claim, EdgeTypeOK, PoolTypeOK
<1>2. ASSUME NEW w \in Workers, Exit(w) \/ Proceed(w) \/ PutBack(w) \/ TenantGone(w)
                                \/ SendFails(w) \/ ReceiveWamid(w) \/ MetaRefuses(w)
      PROVE  EdgeTypeOK' /\ PoolTypeOK'
  <2>1. \E pc \in AtRest \cup Holding \cup Closing : worker' = Goto(w, pc)
    BY <1>2, AfterErrors DEF Exit, Proceed, PutBack, TenantGone, SendFails, ReceiveWamid,
                             MetaRefuses, AtRest, Holding, Closing
  <2>2. worker' \in [Workers -> WorkerState]
    BY <2>1, WorkerPlaces
  <2> QED
    BY <1>2, <2>2 DEF Exit, Proceed, PutBack, TenantGone, SendFails, ReceiveWamid, MetaRefuses,
                      EdgeTypeOK, PoolTypeOK, edgeVars
<1>3. ASSUME NEW w \in Workers, MetaAccepts(w)
      PROVE  EdgeTypeOK' /\ PoolTypeOK'
  <2>1. PICK m \in Wamids :
          /\ sent' = [sent EXCEPT ![m] = worker[w].job]
          /\ worker' = [worker EXCEPT ![w].pc = "answer", ![w].wamid = m]
    BY <1>3 DEF MetaAccepts
  <2>2. worker' \in [Workers -> WorkerState]
    BY <2>1 DEF PoolTypeOK, WorkerState, Holding
  <2>3. worker[w].job \in Jobs
    BY <1>3 DEF MetaAccepts, SafeInv, Held, Holding
  <2>4. sent' \in [Wamids -> Jobs \cup {NoJob}]
    BY <2>1, <2>3 DEF EdgeTypeOK
  <2>5. TenantOf[worker[w].job] \in Tenants
    BY <2>3, TenantOfAssumption
  <2>6. lateSends' \in [Tenants -> Nat]
    BY <1>3, <2>5 DEF MetaAccepts, PoolTypeOK
  <2> QED
    BY <1>3, <2>2, <2>4, <2>6 DEF MetaAccepts, EdgeTypeOK, PoolTypeOK
<1>4. ASSUME NEW w \in Workers, LoseAnswer(w)
      PROVE  EdgeTypeOK' /\ PoolTypeOK'
  BY <1>4, AfterErrors DEF LoseAnswer, EdgeTypeOK, PoolTypeOK, edgeVars, WorkerState, Holding
<1>5. Fault => faults' \in 0..MaxFaults
  BY MaxFaultsAssumption DEF Fault, EdgeTypeOK
<1>6. ASSUME NEW t, NEW next, NEW onError, Exec(t, next, onError),
             t \in [Jobs -> Row],
             next \in [Workers -> WorkerState], onError \in [Workers -> WorkerState],
             UNCHANGED <<sent, due, paused, ctx, lateSends>>
      PROVE  EdgeTypeOK' /\ PoolTypeOK'
  BY <1>5, <1>6 DEF Exec, StatementFails, EdgeTypeOK, PoolTypeOK
<1>7. ASSUME NEW w \in Workers, Requeue(w) \/ Fail(w) \/ Bind(w) \/ Fallback(w)
      PROVE  EdgeTypeOK' /\ PoolTypeOK'
  <2> DEFINE j == worker[w].job
  <2>1. j \in Jobs /\ worker[w].pc \in Holding
    BY <1>7 DEF Requeue, Fail, Bind, Fallback, SafeInv, Held, Holding
  <2>2. /\ RequeueWithJitter(jobs, j) \in [Jobs -> Row]
        /\ MarkJobFailed(jobs, j) \in [Jobs -> Row]
        /\ UpdateJobStatus(jobs, j, "accepted", 2) \in [Jobs -> Row]
    BY <2>1, StatusWritten DEF EdgeTypeOK, RequeueWithJitter, MarkJobFailed, Statuses, Receipts
  <2>3. worker[w].wamid \in Wamids => SetJobMetaID(jobs, j, worker[w].wamid) \in [Jobs -> Row]
    BY <2>1, WamidWritten DEF EdgeTypeOK
  <2>4. /\ NextIteration(w) \in [Workers -> WorkerState]
        /\ Goto(w, "pause") \in [Workers -> WorkerState]
        /\ Goto(w, "accept") \in [Workers -> WorkerState]
        /\ Goto(w, "fallback") \in [Workers -> WorkerState]
    BY WorkerPlaces DEF Holding, Closing
  <2>5. CASE Requeue(w)
    BY <1>6, <2>2, <2>4, <2>5 DEF Requeue
  <2>6. CASE Fail(w)
    BY <1>6, <2>2, <2>4, <2>6 DEF Fail
  <2>7. CASE Bind(w)
    <3>1. worker[w].wamid \in Wamids
      BY <2>7 DEF Bind, SafeInv, AnswerIsOwn
    <3> QED
      BY <1>6, <2>3, <2>4, <2>7, <3>1 DEF Bind
  <2>8. CASE Fallback(w)
    BY <1>6, <2>2, <2>4, <2>8 DEF Fallback
  <2> QED
    BY <1>7, <2>5, <2>6, <2>7, <2>8
<1>8. ASSUME NEW w \in Workers, Accept(w)
      PROVE  EdgeTypeOK' /\ PoolTypeOK'
  <2>1. worker[w].wamid \in Wamids
    BY <1>8 DEF Accept, SafeInv, Bound
  <2>2. UpdateJobMonotonic(jobs, worker[w].wamid, "accepted", 2) \in [Jobs -> Row]
    <3>1. "accepted" \in Statuses /\ 2 \in 2..5
      BY DEF Statuses
    <3> QED
      BY <2>1, <3>1, MonotonicWritten DEF EdgeTypeOK
  <2>3. NextIteration(w) \in [Workers -> WorkerState]
    BY WorkerPlaces
  <2> QED
    BY <1>6, <1>8, <2>2, <2>3 DEF Accept
<1>9. ASSUME NEW p \in [Tenants -> BOOLEAN], SetPaused(p)
      PROVE  paused' \in [Tenants -> BOOLEAN] /\ lateSends' \in [Tenants -> Nat]
  BY <1>9 DEF SetPaused, PoolTypeOK
<1>10. ASSUME NEW w \in Workers, PauseTenant(w)
       PROVE  EdgeTypeOK' /\ PoolTypeOK'
  <2>1. NextIteration(w) \in [Workers -> WorkerState]
    BY WorkerPlaces
  <2>2. [paused EXCEPT ![TenantOf[worker[w].job]] = TRUE] \in [Tenants -> BOOLEAN]
    BY DEF PoolTypeOK
  <2>3. paused' \in [Tenants -> BOOLEAN] /\ lateSends' \in [Tenants -> Nat]
    BY <1>9, <1>10, <2>2 DEF PauseTenant, PoolTypeOK
  <2>4. faults' \in 0..MaxFaults
    BY <1>5, <1>10 DEF PauseTenant, StatementFails, EdgeTypeOK
  <2> QED
    BY <1>10, <2>1, <2>3, <2>4 DEF PauseTenant, EdgeTypeOK, PoolTypeOK
<1>11. ASSUME NEW w \in Workers, Recover(w)
       PROVE  EdgeTypeOK' /\ PoolTypeOK'
  <2>1. NextIteration(w) \in [Workers -> WorkerState]
    BY WorkerPlaces
  <2> QED
    BY <1>5, <1>11, <2>1 DEF Recover, EdgeTypeOK, PoolTypeOK
<1>12. ASSUME NEW j \in Jobs, Submit(j) \/ BecomesDue(j)
       PROVE  EdgeTypeOK' /\ PoolTypeOK'
  <2>1. InsertJob(jobs, j) \in [Jobs -> Row]
    BY StatusWritten DEF EdgeTypeOK, InsertJob, Statuses
  <2>2. Append(due, j) \in Seq(Jobs)
    BY DEF PoolTypeOK
  <2> QED
    BY <1>12, <2>1, <2>2 DEF Submit, BecomesDue, EdgeTypeOK, PoolTypeOK, edgeVars, poolVars
<1>13. ASSUME NEW t \in Tenants, NEW b \in BOOLEAN, ControlPlane(t, b)
       PROVE  EdgeTypeOK' /\ PoolTypeOK'
  <2>1. [paused EXCEPT ![t] = b] \in [Tenants -> BOOLEAN]
    BY DEF PoolTypeOK
  <2> QED
    BY <1>9, <1>13, <2>1 DEF ControlPlane, EdgeTypeOK, PoolTypeOK, edgeVars
<1>14. CASE Cancel
  BY <1>14 DEF Cancel, EdgeTypeOK, PoolTypeOK, edgeVars
<1> QED
  BY <1>1, <1>2, <1>3, <1>4, <1>7, <1>8, <1>10, <1>11, <1>12, <1>13, <1>14
  DEF PoolNext, WorkerStep, Surroundings

----------------------------------------------------------------------------
(* The rest of the invariant.                                              *)

LEMMA WorkerStepSafe ==
  ASSUME PoolInv, NEW w \in Workers, WorkerStep(w)
  PROVE  SafeInv'
<1> USE DEF PoolInv
<1> DEFINE k == worker[w].job
<1>1. \A pc \in Holding : worker[w].pc = pc =>
        k \in Jobs /\ jobs[k].status = "processing" /\ Unbound(k)
  BY DEF SafeInv, Held
<1>2. CASE Claim(w)
  <2>1. PICK i \in DOMAIN due :
          /\ IsNext(i)
          /\ jobs' = ClaimNextJob(jobs, due[i])
          /\ worker' = [worker EXCEPT ![w] = [Idle EXCEPT !.pc = "prepare", !.job = due[i]]]
          /\ UNCHANGED sent
    BY <1>2 DEF Claim
  <2> DEFINE j == due[i]
  <2>2. j \in Jobs /\ jobs[j].status = "queued"
    BY <2>1 DEF PoolTypeOK, IsNext, Claimable
  <2>3. /\ jobs'[j].status = "processing" /\ jobs'[j].level = 1
        /\ jobs'[j].wamid = jobs[j].wamid
        /\ \A n \in Jobs \ {j} : jobs'[n] = jobs[n]
    BY <2>1, <2>2, StatusWritten DEF EdgeTypeOK, ClaimNextJob, Statuses
  <2>4. /\ worker'[w].pc = "prepare" /\ worker'[w].job = j
        /\ \A v \in Workers \ {w} : worker'[v] = worker[v]
    BY <2>1 DEF PoolTypeOK, Idle
  <2>5. jobs[j].wamid = NoWamid
    BY <2>2 DEF SafeInv, RowShape, Unbound
  <2>6. \A v \in Workers \ {w} : worker[v].pc \in Holding => worker[v].job # j
    BY <2>2 DEF SafeInv, Held
  <2>7. RowShape' /\ BoundToOwn'
    BY <2>1, <2>2, <2>3, <2>5 DEF SafeInv, RowShape, BoundToOwn, Unbound
  <2>8. Held'
    BY <2>2, <2>3, <2>4, <2>5, <2>6 DEF SafeInv, Held, Unbound
  <2>9. ExclusiveClaim'
    BY <2>4, <2>6 DEF SafeInv, ExclusiveClaim
  <2>10. AnswerIsOwn' /\ Bound'
    BY <2>1, <2>4 DEF SafeInv, AnswerIsOwn, Bound
  <2> QED
    BY <2>7, <2>8, <2>9, <2>10 DEF SafeInv
<1>3. CASE MetaAccepts(w)
  <2>1. PICK m \in Wamids :
          /\ sent[m] = NoJob
          /\ sent' = [sent EXCEPT ![m] = k]
          /\ worker' = [worker EXCEPT ![w].pc = "answer", ![w].wamid = m]
          /\ UNCHANGED jobs
    BY <1>3 DEF MetaAccepts
  <2>2. k \in Jobs /\ worker[w].pc \in Holding
    BY <1>1, <1>3 DEF MetaAccepts, Holding
  <2>3. /\ worker'[w].pc = "answer" /\ worker'[w].job = k /\ worker'[w].wamid = m
        /\ \A v \in Workers \ {w} : worker'[v] = worker[v]
    BY <2>1 DEF PoolTypeOK, WorkerState
  <2>4. sent'[m] = k /\ \A n \in Wamids \ {m} : sent'[n] = sent[n]
    BY <2>1 DEF EdgeTypeOK
  <2>5. \A v \in Workers \ {w} : worker[v].pc \in {"answer", "bind"} => worker[v].wamid # m
    <3>1. \A v \in Workers : worker[v].pc \in {"answer", "bind"} =>
            worker[v].job \in Jobs /\ sent[worker[v].wamid] = worker[v].job
      BY DEF SafeInv, AnswerIsOwn, Held, Holding
    <3> QED
      BY <2>1, <3>1, NoJobAssumption
  <2>6. RowShape'
    BY <2>1 DEF SafeInv, RowShape, Unbound
  <2>7. BoundToOwn'
    <3> SUFFICES ASSUME NEW j \in Jobs, jobs[j].wamid # NoWamid
                 PROVE  sent'[jobs[j].wamid] = j
      BY <2>1 DEF BoundToOwn, Unbound
    <3>1. jobs[j].wamid \in Wamids /\ sent[jobs[j].wamid] = j
      BY DEF SafeInv, BoundToOwn, Unbound, EdgeTypeOK, Row
    <3>2. jobs[j].wamid # m
      BY <2>1, <3>1, NoJobAssumption
    <3> QED
      BY <2>4, <3>1, <3>2
  <2>8. Held'
    BY <1>1, <2>1, <2>2, <2>3 DEF SafeInv, Held, Unbound
  <2>9. ExclusiveClaim'
    BY <2>2, <2>3 DEF SafeInv, ExclusiveClaim
  <2>10. AnswerIsOwn'
    BY <2>3, <2>4, <2>5 DEF SafeInv, AnswerIsOwn
  <2>11. Bound'
    BY <2>3 DEF SafeInv, Bound
  <2> QED
    BY <2>6, <2>7, <2>8, <2>9, <2>10, <2>11 DEF SafeInv
<1>4. CASE Proceed(w) \/ PutBack(w) \/ TenantGone(w) \/ MetaRefuses(w) \/ SendFails(w)
           \/ ReceiveWamid(w) \/ Exit(w)
  <2>1. PICK pc \in {"send", "requeue", "fail", "failAndPause", "bind", "exited"} :
          /\ worker' = Goto(w, pc)
          /\ pc # "exited" => worker[w].pc \in Holding
          /\ pc = "bind" => worker[w].pc = "answer"
          /\ UNCHANGED <<jobs, sent>>
    BY <1>4, AfterErrors DEF Proceed, PutBack, TenantGone, MetaRefuses, SendFails, ReceiveWamid, Exit,
                Holding, edgeVars
  <2>2. /\ worker'[w].pc = pc /\ worker'[w].job = k /\ worker'[w].wamid = worker[w].wamid
        /\ \A v \in Workers \ {w} : worker'[v] = worker[v]
    BY <2>1, WorkerPlaces DEF AtRest, Holding, Closing
  <2> QED
    BY <2>1, <2>2, ControlStep DEF Holding
<1>5. CASE LoseAnswer(w)
  <2>1. /\ worker'[w].pc = "requeue" /\ worker'[w].job = k
        /\ \A v \in Workers \ {w} : worker'[v] = worker[v]
    BY <1>5, AfterErrors DEF LoseAnswer, PoolTypeOK, WorkerState
  <2> QED
    BY <1>5, <2>1, ControlStep DEF LoseAnswer, Holding, edgeVars
<1>6. CASE Recover(w) \/ PauseTenant(w)
  <2>1. worker' = NextIteration(w) /\ UNCHANGED <<jobs, sent>>
    BY <1>6 DEF Recover, PauseTenant
  <2>2. worker'[w].pc = "poll" /\ \A v \in Workers \ {w} : worker'[v] = worker[v]
    BY <2>1, WorkerPlaces
  <2> QED
    BY <2>1, <2>2, ControlStep DEF Holding
<1>7. CASE Requeue(w) \/ Fail(w) \/ Fallback(w)
  <2>1. k \in Jobs /\ worker[w].pc \in Holding
    BY <1>1, <1>7 DEF Requeue, Fail, Fallback, Holding
  <2>2. PICK s \in {"queued", "failed", "accepted"}, l \in {0, 2, 6}, next \in {NextIteration(w), Goto(w, "pause")} :
          /\ s = "queued" => l = 0
          /\ Exec(UpdateJobStatus(jobs, k, s, l), next, next)
          /\ UNCHANGED sent
    BY <1>7 DEF Requeue, Fail, Fallback, RequeueWithJitter, MarkJobFailed
  <2>3. /\ worker' = next
        /\ worker'[w].pc \in {"poll", "pause"}
        /\ worker'[w].pc = "pause" => worker'[w].job = k
        /\ \A v \in Workers \ {w} : worker'[v] = worker[v]
    BY <2>2, WorkerPlaces DEF Exec, Closing
  <2>4. CASE UNCHANGED jobs
    BY <2>1, <2>2, <2>3, <2>4, ControlStep DEF Holding
  <2>5. CASE jobs' = UpdateJobStatus(jobs, k, s, l)
    <3>1. /\ jobs'[k].status = s /\ jobs'[k].level = l /\ jobs'[k].wamid = NoWamid
          /\ jobs[k].wamid = NoWamid
          /\ \A j \in Jobs \ {k} : jobs'[j] = jobs[j]
      <4>1. s \in Statuses /\ l \in 0..6
        BY DEF Statuses, Receipts
      <4>2. jobs[k].wamid = NoWamid
        BY <1>1, <2>1 DEF Unbound
      <4> QED
        BY <2>1, <2>5, <4>1, <4>2, StatusWritten DEF EdgeTypeOK
    <3> QED
      BY <2>1, <2>2, <2>3, <3>1, HolderWrites DEF Holding
  <2> QED
    BY <2>2, <2>4, <2>5 DEF Exec
<1>8. CASE Bind(w)
  <2> DEFINE m == worker[w].wamid
  <2>1. k \in Jobs /\ worker[w].pc \in Holding /\ worker[w].pc = "bind"
    BY <1>1, <1>8 DEF Bind, Holding
  <2>2. m \in Wamids /\ sent[m] = k
    BY <2>1 DEF SafeInv, AnswerIsOwn
  <2>3. CASE UNCHANGED jobs /\ worker' = Goto(w, "fallback")
    <3>1. /\ worker'[w].pc = "fallback" /\ worker'[w].job = k
          /\ \A v \in Workers \ {w} : worker'[v] = worker[v]
      BY <2>3, WorkerPlaces DEF Holding
    <3> QED
      BY <1>8, <2>1, <2>3, <3>1, ControlStep DEF Bind, Holding
  <2>4. CASE jobs' = SetJobMetaID(jobs, k, m) /\ worker' = Goto(w, "accept")
    <3>1. /\ worker'[w].pc = "accept" /\ worker'[w].wamid = m
          /\ \A v \in Workers \ {w} : worker'[v] = worker[v]
      BY <2>4, WorkerPlaces DEF Closing
    <3>2. /\ jobs'[k].wamid = m /\ jobs'[k].status = jobs[k].status /\ jobs'[k].level = jobs[k].level
          /\ \A j \in Jobs \ {k} : jobs'[j] = jobs[j]
      BY <2>1, <2>2, <2>4, WamidWritten DEF EdgeTypeOK
    <3>3. jobs[k].status = "processing" /\ jobs[k].level = 1
      BY <1>1, <2>1 DEF SafeInv, RowShape
    <3> QED
      BY <1>8, <2>1, <2>2, <3>1, <3>2, <3>3, HolderWrites DEF Bind, Holding
  <2> QED
    BY <1>8, <2>3, <2>4 DEF Bind, Exec
<1>9. CASE Accept(w)
  <2>1. worker[w].wamid \in Wamids
    BY <1>9 DEF Accept, SafeInv, Bound
  <2>2. worker'[w].pc = "poll" /\ \A v \in Workers \ {w} : worker'[v] = worker[v]
    BY <1>9, WorkerPlaces DEF Accept, Exec
  <2>3. CASE UNCHANGED jobs
    BY <1>9, <2>2, <2>3, BoundRowsRise DEF Accept
  <2>4. CASE jobs' = UpdateJobMonotonic(jobs, worker[w].wamid, "accepted", 2)
    <3>1. \A j \in Jobs :
            /\ jobs'[j].wamid = jobs[j].wamid
            /\ \/ jobs'[j] = jobs[j]
               \/ jobs[j].wamid = worker[w].wamid /\ jobs'[j].status = "accepted"
      <4>1. "accepted" \in Statuses /\ 2 \in 2..5
        BY DEF Statuses
      <4> QED
        BY <2>1, <2>4, <4>1, MonotonicWritten DEF EdgeTypeOK
    <3> QED
      BY <1>9, <2>1, <2>2, <3>1, BoundRowsRise, NoWamidAssumption DEF Accept, Unbound
  <2> QED
    BY <1>9, <2>3, <2>4 DEF Accept, Exec
<1> QED
  BY <1>2, <1>3, <1>4, <1>5, <1>6, <1>7, <1>8, <1>9 DEF WorkerStep

\* Inserting a job writes a row that no worker holds.
LEMMA SubmitSafe ==
  ASSUME PoolInv, NEW j \in Jobs, Submit(j)
  PROVE  SafeInv'
<1> USE DEF PoolInv
<1>1. /\ jobs[j].status = "absent" /\ jobs[j].wamid = NoWamid
      /\ UNCHANGED <<sent, worker>>
  BY DEF Submit, SafeInv, RowShape, Unbound, poolVars
<1>2. /\ jobs'[j].status = "queued" /\ jobs'[j].level = 0 /\ jobs'[j].wamid = NoWamid
      /\ \A n \in Jobs \ {j} : jobs'[n] = jobs[n]
  BY <1>1, StatusWritten DEF Submit, InsertJob, EdgeTypeOK, Statuses
<1>3. \A w \in Workers : worker[w].pc \in Holding => worker[w].job \in Jobs \ {j}
  BY <1>1 DEF SafeInv, Held
<1>4. RowShape' /\ BoundToOwn'
  BY <1>1, <1>2 DEF SafeInv, RowShape, BoundToOwn, Unbound
<1>5. Held'
  BY <1>1, <1>2, <1>3 DEF SafeInv, Held, Unbound
<1>6. ExclusiveClaim' /\ AnswerIsOwn' /\ Bound'
  BY <1>1 DEF SafeInv, ExclusiveClaim, AnswerIsOwn, Bound
<1> QED
  BY <1>4, <1>5, <1>6 DEF SafeInv

\* The invariant reads jobs, sent and worker only.
LEMMA SafeInvFrame ==
  ASSUME SafeInv, UNCHANGED <<jobs, sent, worker>>
  PROVE  SafeInv'
BY DEF SafeInv, RowShape, Held, ExclusiveClaim, AnswerIsOwn, Bound, BoundToOwn, Unbound

LEMMA PoolInit_Inv == EdgeInit /\ PoolInit => PoolInv
<1> SUFFICES ASSUME EdgeInit, PoolInit PROVE PoolInv
  OBVIOUS
<1>1. \A j \in Jobs : jobs[j] = [status |-> "absent", level |-> 0, wamid |-> NoWamid]
  BY DEF EdgeInit, EmptyTable
<1>2. EdgeTypeOK
  BY MaxFaultsAssumption DEF EdgeInit, EdgeTypeOK, EmptyTable, Row, Statuses
<1>3. \A w \in Workers : worker[w].pc = "poll"
  BY DEF PoolInit, Idle
<1>4. PoolTypeOK
  BY DEF PoolInit, PoolTypeOK, WorkerState, Idle, AtRest
<1>5. SafeInv
  BY <1>1, <1>3 DEF SafeInv, RowShape, Held, ExclusiveClaim, AnswerIsOwn, Bound, BoundToOwn,
                    Unbound, Holding
<1> QED
  BY <1>2, <1>4, <1>5 DEF PoolInv

LEMMA PoolStepInv == PoolInv /\ (PoolNext \/ Cancel) => PoolInv'
<1> SUFFICES ASSUME PoolInv, PoolNext \/ Cancel PROVE SafeInv'
  BY PoolStepTypes DEF PoolInv
<1>1. CASE \E w \in Workers : WorkerStep(w)
  BY <1>1, WorkerStepSafe
<1>2. CASE \E j \in Jobs : Submit(j)
  BY <1>2, SubmitSafe
<1>3. CASE \/ Cancel
           \/ \E j \in Jobs : BecomesDue(j)
           \/ \E t \in Tenants, b \in BOOLEAN : ControlPlane(t, b)
  <2>1. UNCHANGED <<jobs, sent, worker>>
    BY <1>3 DEF Cancel, BecomesDue, ControlPlane, edgeVars
  <2> QED
    BY <2>1, SafeInvFrame DEF PoolInv
<1> QED
  BY <1>1, <1>2, <1>3 DEF PoolNext, Surroundings

----------------------------------------------------------------------------
(* Pausing.  The messages that went out since a tenant was paused and the  *)
(* jobs of the tenant that workers still hold before the request are       *)
(* together no more than the workers, because no more are claimed.         *)

Sending(t) == {w \in Workers : worker[w].pc \in {"prepare", "send"} /\ TenantOf[worker[w].job] = t}

LateInv(t) ==
  /\ ~paused[t] => lateSends[t] = 0
  /\ lateSends[t] + Cardinality(Sending(t)) <= Cardinality(Workers)

LEMMA SendingIsFinite ==
  ASSUME NEW S \in SUBSET Workers
  PROVE  /\ IsFiniteSet(S) /\ Cardinality(S) \in Nat /\ Cardinality(Workers) \in Nat
         /\ Cardinality(S) <= Cardinality(Workers)
BY FS_Subset, FS_CardinalityType, WorkersAssumption

\* Nobody comes to send for the tenant, and nothing is sent or the count
\* starts anew.
LEMMA NoMoreSend ==
  ASSUME PoolTypeOK, NEW t \in Tenants, LateInv(t),
         Sending(t)' \subseteq Sending(t),
         lateSends'[t] \in {0, lateSends[t]},
         ~paused'[t] => lateSends'[t] = 0
  PROVE  LateInv(t)'
<1>1. Sending(t) \in SUBSET Workers
  BY DEF Sending
<1>2. /\ IsFiniteSet(Sending(t)) /\ Cardinality(Sending(t)) \in Nat
      /\ Cardinality(Workers) \in Nat
  BY <1>1, SendingIsFinite
<1>3. /\ Cardinality(Sending(t)') \in Nat
      /\ Cardinality(Sending(t)') <= Cardinality(Sending(t))
  BY <1>2, FS_Subset, FS_CardinalityType
<1>4. lateSends[t] \in Nat
  BY DEF PoolTypeOK
<1> QED
  BY <1>2, <1>3, <1>4 DEF LateInv

LEMMA SendersGone ==
  ASSUME NEW t \in Tenants,
         \A v \in Workers : worker'[v].pc \in {"prepare", "send"} =>
           worker[v].pc \in {"prepare", "send"} /\ worker'[v].job = worker[v].job
  PROVE  Sending(t)' \subseteq Sending(t)
BY DEF Sending

\* is_paused changes, and with it the count.
LEMMA PauseKeepsLate ==
  ASSUME PoolTypeOK, NEW t \in Tenants, LateInv(t), NEW p \in [Tenants -> BOOLEAN], SetPaused(p),
         \A v \in Workers : worker'[v] = worker[v] \/ worker'[v].pc = "poll"
  PROVE  LateInv(t)'
<1>1. lateSends'[t] = (IF paused[t] /\ p[t] THEN lateSends[t] ELSE 0) /\ paused'[t] = p[t]
  BY DEF SetPaused
<1>2. Sending(t)' \subseteq Sending(t)
  BY SendersGone
<1> QED
  BY <1>1, <1>2, NoMoreSend

LEMMA ClaimKeepsLate ==
  ASSUME PoolInv, NEW w \in Workers, NEW t \in Tenants, LateInv(t), Claim(w)
  PROVE  LateInv(t)'
<1> USE DEF PoolInv
<1>1. PICK i \in DOMAIN due :
        /\ IsNext(i)
        /\ worker' = [worker EXCEPT ![w] = [Idle EXCEPT !.pc = "prepare", !.job = due[i]]]
        /\ UNCHANGED <<paused, lateSends>>
  BY DEF Claim
<1>2. due[i] \in Jobs /\ ~paused[TenantOf[due[i]]]
  BY <1>1 DEF PoolTypeOK, IsNext, Claimable
<1>3. /\ worker'[w].pc = "prepare" /\ worker'[w].job = due[i]
      /\ \A v \in Workers \ {w} : worker'[v] = worker[v]
  BY <1>1 DEF PoolTypeOK, Idle
<1>4. CASE TenantOf[due[i]] = t
  <2>1. lateSends'[t] = 0 /\ ~paused'[t]
    BY <1>1, <1>2, <1>4 DEF LateInv
  <2>2. Sending(t)' \in SUBSET Workers
    BY DEF Sending
  <2>3. Cardinality(Sending(t)') \in Nat /\ Cardinality(Sending(t)') <= Cardinality(Workers)
    BY <2>2, SendingIsFinite
  <2> QED
    BY <2>1, <2>3 DEF LateInv
<1>5. CASE TenantOf[due[i]] # t
  <2>1. Sending(t)' \subseteq Sending(t)
    BY <1>3, <1>5 DEF Sending
  <2>2. lateSends'[t] = lateSends[t] /\ (~paused'[t] => lateSends'[t] = 0)
    BY <1>1 DEF LateInv
  <2> QED
    BY <2>1, <2>2, NoMoreSend
<1> QED
  BY <1>4, <1>5

\* The worker that has sent is one less that can send.
LEMMA AcceptKeepsLate ==
  ASSUME PoolInv, NEW w \in Workers, NEW t \in Tenants, LateInv(t), MetaAccepts(w)
  PROVE  LateInv(t)'
<1> USE DEF PoolInv
<1> DEFINE u == TenantOf[worker[w].job]
<1>1. /\ worker[w].pc = "send" /\ UNCHANGED paused
      /\ lateSends' = [lateSends EXCEPT ![u] = IF paused[u] THEN lateSends[u] + 1 ELSE 0]
  BY DEF MetaAccepts
<1>2. worker[w].job \in Jobs
  BY <1>1 DEF SafeInv, Held, Holding
<1>3. u \in Tenants
  BY <1>2, TenantOfAssumption
<1>4. /\ worker'[w].pc = "answer" /\ \A v \in Workers \ {w} : worker'[v] = worker[v]
  BY DEF MetaAccepts, PoolTypeOK, WorkerState
<1>5. Sending(t)' = Sending(t) \ {w}
  BY <1>4 DEF Sending
<1>6. CASE u = t
  <2>1. w \in Sending(t)
    BY <1>1, <1>6 DEF Sending
  <2>2. Sending(t) \in SUBSET Workers
    BY DEF Sending
  <2>3. /\ IsFiniteSet(Sending(t)) /\ Cardinality(Sending(t)) \in Nat
        /\ Cardinality(Workers) \in Nat
    BY <2>2, SendingIsFinite
  <2>4. Cardinality(Sending(t)') = Cardinality(Sending(t)) - 1
    BY <1>5, <2>1, <2>3, FS_RemoveElement
  <2>5. /\ lateSends'[t] = (IF paused[t] THEN lateSends[t] + 1 ELSE 0)
        /\ lateSends[t] \in Nat /\ paused'[t] = paused[t]
    BY <1>1, <1>3, <1>6 DEF PoolTypeOK
  <2>6. CASE paused[t]
    BY <2>3, <2>4, <2>5, <2>6 DEF LateInv
  <2>7. CASE ~paused[t]
    BY <2>3, <2>4, <2>5, <2>7 DEF LateInv
  <2> QED
    BY <2>6, <2>7
<1>7. CASE u # t
  <2>1. lateSends'[t] = lateSends[t] /\ paused'[t] = paused[t]
    BY <1>1, <1>3, <1>7 DEF PoolTypeOK
  <2> QED
    BY <1>5, <2>1, NoMoreSend DEF LateInv
<1> QED
  BY <1>6, <1>7

LEMMA WorkerKeepsLate ==
  ASSUME PoolInv, NEW w \in Workers, NEW t \in Tenants, LateInv(t), WorkerStep(w)
  PROVE  LateInv(t)'
<1> USE DEF PoolInv
<1>1. CASE PauseTenant(w)
  <2>1. worker' = NextIteration(w)
    BY <1>1 DEF PauseTenant
  <2>2. \A v \in Workers : worker'[v] = worker[v] \/ worker'[v].pc = "poll"
    BY <2>1, WorkerPlaces
  <2>3. CASE SetPaused([paused EXCEPT ![TenantOf[worker[w].job]] = TRUE])
    BY <2>2, <2>3, PauseKeepsLate DEF PoolTypeOK
  <2>4. CASE UNCHANGED <<paused, lateSends>>
    BY <2>2, <2>4, SendersGone, NoMoreSend DEF LateInv
  <2> QED
    BY <1>1, <2>3, <2>4 DEF PauseTenant
<1>2. CASE \/ Proceed(w) \/ PutBack(w) \/ TenantGone(w) \/ MetaRefuses(w) \/ SendFails(w)
           \/ ReceiveWamid(w) \/ LoseAnswer(w) \/ Requeue(w) \/ Fail(w) \/ Bind(w)
           \/ Fallback(w) \/ Accept(w) \/ Recover(w) \/ Exit(w)
  <2>1. UNCHANGED <<paused, lateSends>>
    BY <1>2 DEF Proceed, PutBack, TenantGone, MetaRefuses, SendFails, ReceiveWamid, LoseAnswer,
                Requeue, Fail, Bind, Fallback, Accept, Recover, Exit
  <2>2. /\ \A v \in Workers \ {w} : worker'[v] = worker[v]
        /\ worker'[w].pc \in {"prepare", "send"} =>
             worker[w].pc \in {"prepare", "send"} /\ worker'[w].job = worker[w].job
    <3>1. CASE Proceed(w)
      BY <3>1, WorkerPlaces DEF Proceed, Holding
    <3>2. CASE LoseAnswer(w)
      BY <3>2, AfterErrors DEF LoseAnswer, PoolTypeOK, WorkerState
    <3>3. CASE PutBack(w) \/ TenantGone(w) \/ MetaRefuses(w) \/ SendFails(w)
               \/ ReceiveWamid(w) \/ Exit(w)
      <4>1. PICK pc \in {"requeue", "fail", "failAndPause", "bind", "exited"} : worker' = Goto(w, pc)
        BY <3>3, AfterErrors DEF PutBack, TenantGone, MetaRefuses, SendFails, ReceiveWamid, Exit
      <4> QED
        BY <4>1, WorkerPlaces DEF AtRest, Holding
    <3>4. CASE Requeue(w) \/ Fail(w) \/ Bind(w) \/ Fallback(w) \/ Accept(w) \/ Recover(w)
      <4>1. worker' = NextIteration(w) \/ \E pc \in {"pause", "accept", "fallback"} : worker' = Goto(w, pc)
        BY <3>4 DEF Requeue, Fail, Bind, Fallback, Accept, Recover, Exec
      <4> QED
        BY <4>1, WorkerPlaces DEF Holding, Closing
    <3> QED
      BY <1>2, <3>1, <3>2, <3>3, <3>4
  <2>3. Sending(t)' \subseteq Sending(t)
    BY <2>2, SendersGone
  <2> QED
    BY <2>1, <2>3, NoMoreSend DEF LateInv
<1> QED
  BY <1>1, <1>2, ClaimKeepsLate, AcceptKeepsLate DEF WorkerStep

LEMMA PoolKeepsLate ==
  ASSUME PoolInv, NEW t \in Tenants, LateInv(t), PoolNext \/ Cancel
  PROVE  LateInv(t)'
<1>1. ASSUME NEW u \in Tenants, NEW b \in BOOLEAN, ControlPlane(u, b)
      PROVE  LateInv(t)'
  BY <1>1, PauseKeepsLate DEF ControlPlane, PoolInv, PoolTypeOK
<1>2. CASE Cancel \/ \E j \in Jobs : Submit(j) \/ BecomesDue(j)
  <2>1. UNCHANGED <<paused, worker, lateSends>>
    BY <1>2 DEF Cancel, Submit, BecomesDue, poolVars
  <2> QED
    BY <2>1, SendersGone, NoMoreSend DEF LateInv, PoolInv
<1> QED
  BY <1>1, <1>2, WorkerKeepsLate DEF PoolNext, Surroundings

----------------------------------------------------------------------------
\* Whatever the pool's surroundings do, every state of the pool is well typed
\* and satisfies what its workers rely on.
THEOREM PoolInvHolds == PoolSpec => []PoolInv
<1>1. PoolInv /\ UNCHANGED <<edgeVars, poolVars>> => PoolInv'
  <2> SUFFICES ASSUME PoolInv, UNCHANGED <<edgeVars, poolVars>> PROVE PoolInv'
    OBVIOUS
  <2>1. SafeInv'
    BY SafeInvFrame DEF PoolInv, edgeVars, poolVars
  <2> QED
    BY <2>1 DEF PoolInv, EdgeTypeOK, PoolTypeOK, edgeVars, poolVars
<1> QED
  BY <1>1, PoolInit_Inv, PoolStepInv, PTL DEF PoolSpec

\* Claiming is exclusive: no two workers of the pool hold the same job.
THEOREM ClaimIsExclusive == PoolSpec => []ExclusiveClaim
<1>1. PoolInv => ExclusiveClaim
  BY DEF PoolInv, SafeInv
<1> QED
  BY <1>1, PoolInvHolds, PTL

----------------------------------------------------------------------------
(***************************************************************************)
(* The engine: the pool's invariant survives receipts, shutdowns, kills    *)
(* and restarts, and receipts only write what Meta has reported.           *)
(***************************************************************************)

LP == INSTANCE JobLifecycleProofs

\* A receipt that waits to be applied is one that Meta has issued.
InboxIsReported == \A m \in Wamids, s \in Receipts : <<m, s>> \in inbox => s \in reported[m]

\* A receipt that moved a job and is not in webhook_events yet shows in the job.
MatchesAreReflected == \A r \in recording : r.matched => Reflected(r.wamid, r.status)

\* A receipt counts as answered only if its message has a row.
AnsweredHaveRows == \A e \in answered : HasRow(e[1])

StopTypeOK ==
  /\ up \in BOOLEAN /\ crashes \in 0..MaxCrashes /\ shutdowns \in 0..MaxShutdowns
  /\ background \in [Background -> {"select", "work", "left"}]

IInv ==
  /\ PoolInv /\ HookTypeOK /\ StopTypeOK
  /\ InboxIsReported /\ StatusIsReported
  /\ MatchesAreReflected /\ MatchedEventReflected
  /\ AnsweredHaveRows /\ AnsweredReceiptIsKept

----------------------------------------------------------------------------
\* Everything but the loops of the goroutines in Background.
mainVars == <<edgeVars, poolVars, hookVars, stopVars>>

\* No event gets past the janitor's parser, and what the other goroutines do is
\* not in these variables.
LEMMA OthersChangeNothing ==
  JanitorStep \/ BackgroundStep \/ UNCHANGED vars => UNCHANGED mainVars
BY DEF JanitorStep, BackgroundStep, ParkAndSweep, parseWebhookDummy, vars, mainVars, edgeVars,
       hookVars, processVars

----------------------------------------------------------------------------
(* A step of the engine is a step of the life cycle.                       *)

LEMMA Levels ==
  ASSUME NEW s \in Receipts
  PROVE  statusLevels[s] \in 3..5 /\ s \in Statuses
BY DEF Receipts, statusLevels, Statuses

\* The statements have the same meaning in Engine and in its abstraction.
LEMMA SameStatements ==
  /\ \A j \in Jobs :
       /\ Lifecycle!InsertJob(jobs, j) = InsertJob(jobs, j)
       /\ Lifecycle!ClaimNextJob(jobs, j) = ClaimNextJob(jobs, j)
       /\ Lifecycle!RequeueWithJitter(jobs, j) = RequeueWithJitter(jobs, j)
       /\ Lifecycle!MarkJobFailed(jobs, j) = MarkJobFailed(jobs, j)
       /\ \A m \in Wamids : Lifecycle!SetJobMetaID(jobs, j, m) = SetJobMetaID(jobs, j, m)
       /\ \A s \in Statuses, l \in 0..6 :
            Lifecycle!UpdateJobStatus(jobs, j, s, l) = UpdateJobStatus(jobs, j, s, l)
  /\ Lifecycle!Receipts = Receipts
  /\ Lifecycle!statusLevels = statusLevels
BY DEF Lifecycle!InsertJob, Lifecycle!ClaimNextJob, Lifecycle!RequeueWithJitter,
       Lifecycle!MarkJobFailed, Lifecycle!SetJobMetaID, Lifecycle!UpdateJobStatus,
       Lifecycle!Receipts, Lifecycle!statusLevels,
       InsertJob, ClaimNextJob, RequeueWithJitter, MarkJobFailed, SetJobMetaID,
       UpdateJobStatus, Receipts, statusLevels

\* At most one row has a given identity, so UpdateJobMonotonic is a step of at
\* most one row.
LEMMA MonotonicIsAdvance ==
  ASSUME PoolInv, NEW m \in Wamids, NEW s \in Statuses, NEW l \in 2..5,
         jobs' = UpdateJobMonotonic(jobs, m, s, l)
  PROVE  UNCHANGED jobs \/ \E j \in Jobs : jobs[j].wamid = m /\ Lifecycle!Advance(j, s, l)
<1>1. CASE Below(jobs, m, l) = {}
  <2>1. \A k \in Jobs : jobs'[k] = jobs[k]
    BY <1>1 DEF UpdateJobMonotonic
  <2> QED
    BY <2>1 DEF UpdateJobMonotonic, PoolInv, EdgeTypeOK
<1>2. CASE Below(jobs, m, l) # {}
  <2>1. PICK j \in Jobs : jobs[j].wamid = m /\ jobs[j].level < l
    BY <1>2 DEF Below
  <2>2. \A k \in Jobs : k \in Below(jobs, m, l) <=> k = j
    <3>1. \A k \in Jobs : jobs[k].wamid = m => sent[m] = k
      BY NoWamidAssumption DEF PoolInv, SafeInv, BoundToOwn, Unbound
    <3> QED
      BY <2>1, <3>1 DEF Below
  <2>3. jobs' = UpdateJobStatus(jobs, j, s, l)
    BY <2>1, <2>2 DEF UpdateJobMonotonic, UpdateJobStatus, PoolInv, EdgeTypeOK
  <2>4. ~Lifecycle!Unbound(j)
    BY <2>1, NoWamidAssumption DEF Lifecycle!Unbound
  <2> QED
    BY <2>1, <2>3, <2>4, SameStatements DEF Lifecycle!Advance
<1> QED
  BY <1>1, <1>2

LEMMA PoolStepIsLifecycleStep ==
  ASSUME PoolInv, PoolNext \/ Cancel
  PROVE  [Lifecycle!Next]_jobs
<1> USE DEF PoolInv
<1>1. ASSUME NEW w \in Workers, Claim(w)
      PROVE  Lifecycle!Next
  <2>1. PICK i \in DOMAIN due : IsNext(i) /\ jobs' = ClaimNextJob(jobs, due[i])
    BY <1>1 DEF Claim
  <2>2. due[i] \in Jobs /\ jobs[due[i]].status = "queued"
    BY <2>1 DEF PoolTypeOK, IsNext, Claimable
  <2> QED
    BY <2>1, <2>2, SameStatements DEF Lifecycle!Next, Lifecycle!Claim
<1>2. ASSUME NEW w \in Workers, Requeue(w) \/ Fail(w) \/ Bind(w) \/ Fallback(w)
      PROVE  [Lifecycle!Next]_jobs
  <2> DEFINE j == worker[w].job
  <2>1. j \in Jobs /\ jobs[j].status = "processing" /\ Lifecycle!Unbound(j)
    BY <1>2 DEF Requeue, Fail, Bind, Fallback, SafeInv, Held, Holding, Unbound, Lifecycle!Unbound
  <2>2. CASE Requeue(w)
    <3>1. jobs' = RequeueWithJitter(jobs, j) => Lifecycle!Requeue(j)
      BY <2>1, SameStatements DEF Lifecycle!Requeue
    <3> QED
      BY <2>1, <2>2, <3>1 DEF Requeue, Exec, Lifecycle!Next
  <2>3. CASE Fail(w)
    <3>1. jobs' = MarkJobFailed(jobs, j) => Lifecycle!Fail(j)
      BY <2>1, SameStatements DEF Lifecycle!Fail
    <3> QED
      BY <2>1, <2>3, <3>1 DEF Fail, Exec, Lifecycle!Next
  <2>4. CASE Fallback(w)
    <3>1. jobs' = UpdateJobStatus(jobs, j, "accepted", 2) => Lifecycle!AcceptUnbound(j)
      BY <2>1, SameStatements DEF Lifecycle!AcceptUnbound, Statuses
    <3> QED
      BY <2>1, <2>4, <3>1 DEF Fallback, Exec, Lifecycle!Next
  <2>5. CASE Bind(w)
    <3> DEFINE m == worker[w].wamid
    <3>1. m \in Wamids /\ sent[m] = j
      BY <2>5 DEF Bind, SafeInv, AnswerIsOwn
    <3>2. jobs' = SetJobMetaID(jobs, j, m) => Lifecycle!Bind(j, m)
      BY <2>1, <3>1, SameStatements DEF Lifecycle!Bind
    <3> QED
      BY <2>1, <2>5, <3>1, <3>2 DEF Bind, Exec, Lifecycle!Next
  <2> QED
    BY <1>2, <2>2, <2>3, <2>4, <2>5
<1>3. ASSUME NEW w \in Workers, Accept(w)
      PROVE  [Lifecycle!Next]_jobs
  <2>1. worker[w].wamid \in Wamids /\ "accepted" \in Statuses /\ 2 \in 2..5
    BY <1>3 DEF Accept, SafeInv, Bound, Statuses
  <2>2. jobs' = UpdateJobMonotonic(jobs, worker[w].wamid, "accepted", 2)
          => UNCHANGED jobs \/ \E j \in Jobs : Lifecycle!Advance(j, "accepted", 2)
    BY <2>1, MonotonicIsAdvance
  <2> QED
    BY <1>3, <2>2 DEF Accept, Exec, Lifecycle!Next
<1>4. ASSUME NEW j \in Jobs, Submit(j)
      PROVE  Lifecycle!Next
  BY <1>4, SameStatements DEF Submit, Lifecycle!Submit, Lifecycle!Next
<1>5. ASSUME NEW w \in Workers,
             \/ Proceed(w) \/ PutBack(w) \/ TenantGone(w) \/ MetaAccepts(w) \/ MetaRefuses(w)
             \/ SendFails(w) \/ ReceiveWamid(w) \/ LoseAnswer(w) \/ PauseTenant(w)
             \/ Recover(w) \/ Exit(w)
      PROVE  UNCHANGED jobs
  BY <1>5 DEF Proceed, PutBack, TenantGone, MetaAccepts, MetaRefuses, SendFails, ReceiveWamid,
              LoseAnswer, PauseTenant, Recover, Exit, edgeVars
<1>6. ASSUME \/ Cancel
             \/ \E j \in Jobs : BecomesDue(j)
             \/ \E t \in Tenants, b \in BOOLEAN : ControlPlane(t, b)
      PROVE  UNCHANGED jobs
  BY <1>6 DEF Cancel, BecomesDue, ControlPlane, edgeVars
<1> QED
  BY <1>1, <1>2, <1>3, <1>4, <1>5, <1>6 DEF PoolNext, WorkerStep, Surroundings

\* What a step of the webhook handler does to the table.
LEMMA HookStepTable ==
  ASSUME IInv, HookNext
  PROVE  /\ jobs' \in [Jobs -> Row]
         /\ sent' = sent
         /\ faults' \in 0..MaxFaults
         /\ [Lifecycle!Next]_jobs
         /\ \A j \in Jobs :
              /\ jobs'[j].wamid = jobs[j].wamid
              /\ \/ jobs'[j] = jobs[j]
                 \/ /\ ~Unbound(j)
                    /\ jobs'[j].status \in Receipts
                    /\ jobs'[j].status \in reported[jobs[j].wamid]
<1> USE DEF IInv, PoolInv
<1>1. ASSUME NEW m \in Wamids, NEW s \in Receipts, ApplyReceipt(m, s),
             jobs' = UpdateJobMonotonic(jobs, m, s, statusLevels[s])
      PROVE  /\ jobs' \in [Jobs -> Row]
             /\ [Lifecycle!Next]_jobs
             /\ \A j \in Jobs :
                  /\ jobs'[j].wamid = jobs[j].wamid
                  /\ \/ jobs'[j] = jobs[j]
                     \/ /\ ~Unbound(j)
                        /\ jobs'[j].status \in Receipts
                        /\ jobs'[j].status \in reported[jobs[j].wamid]
  <2>1. s \in Statuses /\ statusLevels[s] \in 2..5
    BY Levels
  <2>2. s \in reported[m]
    BY <1>1 DEF ApplyReceipt, InboxIsReported
  <2>3. /\ jobs' \in [Jobs -> Row]
        /\ \A j \in Jobs :
             /\ jobs'[j].wamid = jobs[j].wamid
             /\ jobs'[j] = jobs[j] \/ (jobs[j].wamid = m /\ jobs'[j].status = s)
    <3>1. PICK l \in 2..5 : l = statusLevels[s]
      BY <2>1
    <3> DEFINE t == UpdateJobMonotonic(jobs, m, s, l)
    <3>2. /\ t \in [Jobs -> Row]
          /\ \A j \in Jobs :
               /\ t[j].wamid = jobs[j].wamid
               /\ t[j] = jobs[j] \/ (jobs[j].wamid = m /\ t[j].status = s)
      BY <2>1, MonotonicWritten DEF EdgeTypeOK
    <3>3. jobs' = t
      BY <1>1, <3>1
    <3> QED
      BY <3>2, <3>3
  <2>4. UNCHANGED jobs \/ \E j \in Jobs : Lifecycle!Advance(j, s, statusLevels[s])
    BY <1>1, <2>1, MonotonicIsAdvance
  <2>5. [Lifecycle!Next]_jobs
    BY <2>4, SameStatements DEF Lifecycle!Next
  <2> QED
    BY <2>2, <2>3, <2>5, NoWamidAssumption DEF Unbound
<1>2. Fault => faults' \in 0..MaxFaults
  BY MaxFaultsAssumption DEF Fault, EdgeTypeOK
<1>3. sent' = sent /\ faults' \in 0..MaxFaults
  BY <1>2 DEF HookNext, MetaReports, PostV1MetaWebhook, ApplyReceipt, RecordEvent, edgeVars, EdgeTypeOK
<1>4. CASE UNCHANGED jobs
  BY <1>3, <1>4 DEF EdgeTypeOK
<1>5. CASE ~UNCHANGED jobs
  <2>1. PICK m \in Wamids, s \in Receipts :
          ApplyReceipt(m, s) /\ jobs' = UpdateJobMonotonic(jobs, m, s, statusLevels[s])
    BY <1>5 DEF HookNext, MetaReports, PostV1MetaWebhook, ApplyReceipt, RecordEvent, edgeVars
  <2> QED
    BY <1>1, <1>3, <2>1
<1> QED
  BY <1>4, <1>5

LEMMA StepIsLifecycleStep ==
  ASSUME IInv, [Next]_vars
  PROVE  [Lifecycle!Next]_jobs
<1>1. CASE PoolStep \/ Shutdown
  BY <1>1, PoolStepIsLifecycleStep DEF PoolStep, Shutdown, IInv
<1>2. CASE HookStep
  BY <1>2, HookStepTable DEF HookStep
<1>3. CASE Stop \/ Crash \/ Boot \/ UNCHANGED mainVars
  BY <1>3 DEF Stop, Crash, Boot, Halt, mainVars, edgeVars
<1> QED
  BY <1>1, <1>2, <1>3, OthersChangeNothing DEF Next

----------------------------------------------------------------------------
(* The invariant, part by part.                                            *)

LEMMA InitIInv == Init => IInv
<1> SUFFICES ASSUME Init PROVE IInv
  OBVIOUS
<1>1. PoolInv
  BY PoolInit_Inv DEF Init
<1>2. /\ HookTypeOK /\ InboxIsReported /\ MatchesAreReflected /\ MatchedEventReflected
      /\ AnsweredHaveRows /\ AnsweredReceiptIsKept
  BY DEF Init, HookInit, HookTypeOK, InboxIsReported, MatchesAreReflected, MatchedEventReflected,
         AnsweredHaveRows, AnsweredReceiptIsKept
<1>3. \A j \in Jobs : jobs[j].status = "absent"
  BY DEF Init, EdgeInit, EmptyTable
<1>4. StatusIsReported
  BY <1>3 DEF StatusIsReported, Receipts
<1>5. StopTypeOK
  BY MaxStopsAssumption DEF StopTypeOK, Init, AtSelect
<1> QED
  BY <1>1, <1>2, <1>4, <1>5 DEF IInv

LEMMA PoolInvKept == IInv /\ [Next]_vars => PoolInv'
<1> SUFFICES ASSUME IInv, [Next]_vars PROVE PoolInv'
  OBVIOUS
<1> USE DEF IInv
<1>1. CASE PoolStep \/ Shutdown
  BY <1>1, PoolStepInv DEF PoolStep, Shutdown
<1>2. CASE HookStep
  <2>1. EdgeTypeOK' /\ PoolTypeOK'
    BY <1>2, HookStepTable DEF HookStep, PoolInv, EdgeTypeOK, PoolTypeOK, poolVars
  <2>2. SafeInv'
    BY <1>2, HookStepTable, BoundRowsRise DEF HookStep, PoolInv, poolVars
  <2> QED
    BY <2>1, <2>2 DEF PoolInv
<1>3. CASE Stop \/ Crash
  <2>1. /\ UNCHANGED <<edgeVars, due, paused, lateSends>>
        /\ ctx' = "live"
        /\ worker' = [w \in Workers |-> Idle]
    BY <1>3 DEF Stop, Crash, Halt
  <2>2. \A w \in Workers : worker'[w].pc = "poll"
    BY <2>1 DEF Idle
  <2>3. SafeInv'
    BY <2>1, <2>2, BoundRowsRise DEF PoolInv, edgeVars
  <2>4. worker' \in [Workers -> WorkerState]
    BY <2>1 DEF Idle, WorkerState, AtRest
  <2> QED
    BY <2>1, <2>3, <2>4 DEF PoolInv, EdgeTypeOK, PoolTypeOK, edgeVars
<1>4. CASE Boot
  <2>1. SafeInv'
    BY <1>4, SafeInvFrame DEF Boot, PoolInv, edgeVars
  <2>2. paused' \in [Tenants -> BOOLEAN] /\ lateSends' \in [Tenants -> Nat]
    BY <1>4 DEF Boot, SetPaused, PoolInv, PoolTypeOK
  <2> QED
    BY <1>4, <2>1, <2>2 DEF Boot, PoolInv, EdgeTypeOK, PoolTypeOK, edgeVars
<1>5. CASE UNCHANGED mainVars
  <2>1. SafeInv'
    BY <1>5, SafeInvFrame DEF PoolInv, mainVars, edgeVars, poolVars
  <2> QED
    BY <1>5, <2>1 DEF PoolInv, EdgeTypeOK, PoolTypeOK, mainVars, edgeVars, poolVars
<1> QED
  BY <1>1, <1>2, <1>3, <1>4, <1>5, OthersChangeNothing DEF Next

LEMMA StopTypesKept == IInv /\ [Next]_vars => StopTypeOK'
<1> SUFFICES ASSUME IInv, [Next]_vars PROVE StopTypeOK'
  OBVIOUS
<1> USE DEF IInv, StopTypeOK
<1>1. CASE PoolStep \/ HookStep \/ JanitorStep \/ UNCHANGED vars
  <2>1. UNCHANGED <<up, crashes, shutdowns, background>>
    BY <1>1 DEF PoolStep, HookStep, JanitorStep, vars, processVars, stopVars
  <2> QED
    BY <2>1
<1>2. CASE BackgroundStep
  <2>1. UNCHANGED <<up, crashes, shutdowns>>
    BY <1>2 DEF BackgroundStep, stopVars
  <2>2. background' \in [Background -> {"select", "work", "left"}]
    BY <1>2 DEF BackgroundStep, Begin, End, Leave
  <2> QED
    BY <2>1, <2>2
<1>3. CASE Shutdown
  <2>1. UNCHANGED <<up, crashes, background>>
    BY <1>3 DEF Shutdown
  <2>2. shutdowns' \in 0..MaxShutdowns
    BY <1>3, MaxStopsAssumption DEF Shutdown
  <2> QED
    BY <2>1, <2>2
<1>4. CASE Stop \/ Crash
  <2>1. up' = FALSE /\ background' \in [Background -> {"select", "work", "left"}]
    BY <1>4 DEF Stop, Crash, Halt, AtSelect
  <2>2. crashes' \in 0..MaxCrashes /\ shutdowns' = shutdowns
    BY <1>4, MaxStopsAssumption DEF Stop, Crash
  <2> QED
    BY <2>1, <2>2
<1>5. CASE Boot
  BY <1>5 DEF Boot
<1> QED
  BY <1>1, <1>2, <1>3, <1>4, <1>5 DEF Next

LEMMA HookTypesKept ==
  ASSUME IInv, [Next]_vars
  PROVE  HookTypeOK' /\ InboxIsReported'
<1> USE DEF IInv
<1>1. CASE UNCHANGED hookVars
  BY <1>1 DEF hookVars, HookTypeOK, InboxIsReported
<1>2. CASE Stop \/ Crash
  <2>1. inbox' = {} /\ recording' = {} /\ answered' = {} /\ UNCHANGED <<reported, events>>
    BY <1>2 DEF Stop, Crash, Halt
  <2> QED
    BY <2>1 DEF HookTypeOK, InboxIsReported
<1>3. ASSUME NEW m \in Wamids, NEW s \in Receipts, MetaReports(m, s)
      PROVE  HookTypeOK' /\ InboxIsReported'
  <2>1. /\ reported' = [reported EXCEPT ![m] = @ \cup {s}]
        /\ UNCHANGED <<inbox, recording, events, answered>>
    BY <1>3 DEF MetaReports
  <2>2. reported' \in [Wamids -> SUBSET Receipts]
    BY <2>1 DEF HookTypeOK
  <2>3. \A n \in Wamids : reported[n] \subseteq reported'[n]
    BY <2>1 DEF HookTypeOK
  <2> QED
    BY <2>1, <2>2, <2>3 DEF HookTypeOK, InboxIsReported
<1>4. ASSUME NEW m \in Wamids, NEW s \in Receipts, PostV1MetaWebhook(m, s)
      PROVE  HookTypeOK' /\ InboxIsReported'
  BY <1>4 DEF PostV1MetaWebhook, HookTypeOK, InboxIsReported
<1>5. ASSUME NEW m \in Wamids, NEW s \in Receipts, ApplyReceipt(m, s)
      PROVE  HookTypeOK' /\ InboxIsReported'
  BY <1>5 DEF ApplyReceipt, HookTypeOK, InboxIsReported, Applied
<1>6. ASSUME NEW r \in recording, RecordEvent(r)
      PROVE  HookTypeOK' /\ InboxIsReported'
  <2>1. recording' \subseteq recording /\ answered' \subseteq answered /\ UNCHANGED <<reported, inbox>>
    BY <1>6 DEF RecordEvent
  <2>2. events' \in [Wamids \X Receipts -> {"absent", "unmatched", "matched"}]
    BY <1>6 DEF RecordEvent, HookTypeOK
  <2> QED
    BY <2>1, <2>2 DEF HookTypeOK, InboxIsReported
<1>7. CASE HookStep
  BY <1>3, <1>4, <1>5, <1>6, <1>7 DEF HookStep, HookNext
<1>8. CASE PoolStep \/ Shutdown \/ Boot \/ UNCHANGED mainVars
  BY <1>1, <1>8 DEF PoolStep, Shutdown, Boot, mainVars
<1> QED
  BY <1>2, <1>7, <1>8, OthersChangeNothing DEF Next

\* A worker never writes a status that only a receipt can give, except with
\* the level of its own failures.
LEMMA PoolStepRows ==
  ASSUME PoolInv, PoolNext \/ Cancel, NEW j \in Jobs
  PROVE  jobs'[j] = jobs[j] \/ jobs'[j].status \notin Receipts \/ jobs'[j].level = 6
<1> USE DEF PoolInv
<1>1. ASSUME NEW k \in Jobs, NEW s \in Statuses, NEW l \in 0..6,
             jobs' = UpdateJobStatus(jobs, k, s, l), s \notin Receipts \/ l = 6
      PROVE  jobs'[j] = jobs[j] \/ jobs'[j].status \notin Receipts \/ jobs'[j].level = 6
  BY <1>1, StatusWritten DEF EdgeTypeOK
<1>2. "accepted" \notin Receipts /\ "queued" \notin Receipts /\ "processing" \notin Receipts
  BY DEF Receipts
<1>3. {"accepted", "queued", "processing", "failed"} \subseteq Statuses
  BY DEF Statuses, Receipts
<1>4. ASSUME NEW w \in Workers, WorkerStep(w), ~UNCHANGED jobs
      PROVE  jobs'[j] = jobs[j] \/ jobs'[j].status \notin Receipts \/ jobs'[j].level = 6
  <2> DEFINE k == worker[w].job
  <2>1. CASE Claim(w)
    <3>1. PICK i \in DOMAIN due : IsNext(i) /\ jobs' = ClaimNextJob(jobs, due[i])
      BY <2>1 DEF Claim
    <3>2. due[i] \in Jobs
      BY <3>1 DEF PoolTypeOK, IsNext
    <3> QED
      BY <1>1, <1>2, <1>3, <3>1, <3>2 DEF ClaimNextJob
  <2>2. CASE Requeue(w) \/ Fail(w) \/ Fallback(w)
    <3>1. k \in Jobs
      BY <2>2 DEF Requeue, Fail, Fallback, SafeInv, Held, Holding
    <3>2. CASE Requeue(w)
      BY <1>1, <1>2, <1>3, <1>4, <3>1, <3>2 DEF Requeue, Exec, RequeueWithJitter
    <3>3. CASE Fail(w)
      BY <1>1, <1>3, <1>4, <3>1, <3>3 DEF Fail, Exec, MarkJobFailed
    <3>4. CASE Fallback(w)
      BY <1>1, <1>2, <1>3, <1>4, <3>1, <3>4 DEF Fallback, Exec
    <3> QED
      BY <2>2, <3>2, <3>3, <3>4
  <2>3. CASE Bind(w)
    <3>1. k \in Jobs /\ jobs[k].status = "processing" /\ worker[w].wamid \in Wamids
      BY <2>3 DEF Bind, SafeInv, Held, AnswerIsOwn, Holding
    <3>2. jobs' = SetJobMetaID(jobs, k, worker[w].wamid)
      BY <1>4, <2>3 DEF Bind, Exec
    <3> QED
      BY <1>2, <3>1, <3>2, WamidWritten DEF EdgeTypeOK
  <2>4. CASE Accept(w)
    <3>1. /\ worker[w].wamid \in Wamids
          /\ jobs' = UpdateJobMonotonic(jobs, worker[w].wamid, "accepted", 2)
      BY <1>4, <2>4 DEF Accept, Exec, SafeInv, Bound
    <3>2. "accepted" \in Statuses /\ 2 \in 2..5
      BY <1>3
    <3> QED
      BY <1>2, <3>1, <3>2, MonotonicWritten DEF EdgeTypeOK
  <2> QED
    BY <1>4, <2>1, <2>2, <2>3, <2>4
    DEF WorkerStep, Proceed, PutBack, TenantGone, MetaAccepts, MetaRefuses, SendFails,
        ReceiveWamid, LoseAnswer, PauseTenant, Recover, Exit, edgeVars
<1>5. ASSUME NEW k \in Jobs, Submit(k)
      PROVE  jobs'[j] = jobs[j] \/ jobs'[j].status \notin Receipts \/ jobs'[j].level = 6
  BY <1>1, <1>2, <1>3, <1>5 DEF Submit, InsertJob
<1> QED
  BY <1>4, <1>5
  DEF PoolNext, Surroundings, Cancel, BecomesDue, ControlPlane, edgeVars

\* What Meta has accepted and reported stays, for every message that is bound.
LEMMA MetaIsPermanent ==
  ASSUME IInv, [Next]_vars, NEW m \in Wamids
  PROVE  /\ sent[m] # NoJob => sent'[m] = sent[m]
         /\ reported[m] \subseteq reported'[m]
<1> USE DEF IInv, PoolInv
<1>1. ASSUME NEW w \in Workers, WorkerStep(w)
      PROVE  sent[m] # NoJob => sent'[m] = sent[m]
  <2>1. CASE MetaAccepts(w)
    BY <2>1 DEF MetaAccepts, EdgeTypeOK
  <2> QED
    BY <1>1, <2>1
    DEF WorkerStep, Claim, Proceed, PutBack, TenantGone, MetaRefuses, SendFails, ReceiveWamid,
        LoseAnswer, Requeue, Fail, PauseTenant, Bind, Fallback, Accept, Recover, Exit, edgeVars
<1>2. PoolStep \/ Shutdown => (sent[m] # NoJob => sent'[m] = sent[m])
  BY <1>1 DEF PoolStep, Shutdown, PoolNext, Surroundings, Submit, BecomesDue, ControlPlane,
              Cancel, edgeVars
<1>3. HookStep => sent' = sent
  BY HookStepTable DEF HookStep
<1>4. HookStep => reported[m] \subseteq reported'[m]
  BY DEF HookStep, HookNext, MetaReports, PostV1MetaWebhook, ApplyReceipt, RecordEvent, HookTypeOK
<1>5. PoolStep \/ Shutdown => reported' = reported
  BY DEF PoolStep, Shutdown, hookVars
<1>6. Stop \/ Crash \/ Boot \/ UNCHANGED mainVars => sent' = sent /\ reported' = reported
  BY DEF Stop, Crash, Boot, Halt, mainVars, edgeVars, hookVars
<1> QED
  BY <1>2, <1>3, <1>4, <1>5, <1>6, OthersChangeNothing DEF Next

----------------------------------------------------------------------------
(* What JobLifecycleProofs proves of its specification holds of Lifecycle. *)

LEMMA SameNext == Lifecycle!Next <=> LP!Next
BY DEF Lifecycle!Next, Lifecycle!Submit, Lifecycle!Claim, Lifecycle!Requeue, Lifecycle!Fail,
       Lifecycle!Bind, Lifecycle!AcceptUnbound, Lifecycle!Advance, Lifecycle!Unbound,
       Lifecycle!InsertJob, Lifecycle!ClaimNextJob, Lifecycle!RequeueWithJitter,
       Lifecycle!MarkJobFailed, Lifecycle!SetJobMetaID, Lifecycle!UpdateJobStatus,
       Lifecycle!statusLevels, Lifecycle!Receipts,
       LP!Next, LP!Submit, LP!Claim, LP!Requeue, LP!Fail,
       LP!Bind, LP!AcceptUnbound, LP!Advance, LP!Unbound,
       LP!InsertJob, LP!ClaimNextJob, LP!RequeueWithJitter,
       LP!MarkJobFailed, LP!SetJobMetaID, LP!UpdateJobStatus,
       LP!statusLevels, LP!Receipts

LEMMA SameInit == Lifecycle!Init <=> LP!Init
BY DEF Lifecycle!Init, LP!Init, Lifecycle!EmptyTable, LP!EmptyTable

LEMMA SameSpec == Lifecycle!Spec <=> LP!Spec
BY SameInit, SameNext, PTL DEF Lifecycle!Spec, LP!Spec

\* A bound row keeps its identity, and its level does not fall.
LEMMA BoundRowKept ==
  ASSUME IInv, [Next]_vars, NEW j \in Jobs, ~Unbound(j)
  PROVE  /\ jobs'[j].wamid = jobs[j].wamid
         /\ jobs[j].level \in 0..6 /\ jobs'[j].level \in 0..6
         /\ jobs'[j].level >= jobs[j].level
<1>1. jobs \in [Jobs -> Row] /\ jobs' \in [Jobs -> Row]
  BY PoolInvKept DEF IInv, PoolInv, EdgeTypeOK
<1>2. jobs[j].level \in 0..6 /\ jobs'[j].level \in 0..6
  BY <1>1 DEF Row
<1>3. CASE UNCHANGED jobs
  BY <1>2, <1>3
<1>4. CASE LP!Next
  <2>1. LP!TypeOK
    BY <1>1 DEF LP!TypeOK, LP!Row, LP!Statuses, LP!Receipts, Row, Statuses, Receipts
  <2>2. PICK k \in Jobs : LP!Moves(k) /\ \A i \in Jobs \ {k} : jobs'[i] = jobs[i]
    BY <1>4, <2>1, LP!StepMovesOneRow, NoWamidAssumption
  <2>3. CASE j # k
    BY <1>2, <2>2, <2>3
  <2>4. CASE j = k
    BY <1>2, <2>2, <2>4 DEF LP!Moves, LP!Unbound, Unbound, IInv, PoolInv, SafeInv, RowShape
  <2> QED
    BY <2>3, <2>4
<1> QED
  BY <1>3, <1>4, StepIsLifecycleStep, SameNext

----------------------------------------------------------------------------
(* Receipts and the rows they reach.                                       *)

LEMMA StatusKept == IInv /\ [Next]_vars => StatusIsReported'
<1> SUFFICES ASSUME IInv, [Next]_vars, NEW j \in Jobs,
                    jobs'[j].status \in Receipts, jobs'[j].level # 6
             PROVE  /\ jobs'[j].wamid # NoWamid
                    /\ sent'[jobs'[j].wamid] = j
                    /\ jobs'[j].status \in reported'[jobs'[j].wamid]
  BY DEF StatusIsReported, Unbound
<1>1. jobs[j].wamid # NoWamid /\ jobs'[j].wamid = jobs[j].wamid
      /\ jobs'[j].status \in reported[jobs[j].wamid]
  <2>1. CASE jobs'[j] = jobs[j]
    BY <2>1 DEF IInv, StatusIsReported, Unbound
  <2>2. CASE HookStep
    BY <2>1, <2>2, HookStepTable DEF HookStep, Unbound
  <2>3. CASE PoolStep \/ Shutdown
    BY <2>1, <2>3, PoolStepRows DEF PoolStep, Shutdown, IInv
  <2>4. CASE Stop \/ Crash \/ Boot \/ UNCHANGED mainVars
    BY <2>1, <2>4 DEF Stop, Crash, Boot, Halt, mainVars, edgeVars
  <2> QED
    BY <2>2, <2>3, <2>4, OthersChangeNothing DEF Next
<1>2. jobs[j].wamid \in Wamids /\ sent[jobs[j].wamid] = j
  BY <1>1 DEF IInv, PoolInv, EdgeTypeOK, SafeInv, BoundToOwn, Unbound, Row
<1> QED
  BY <1>1, <1>2, MetaIsPermanent, NoJobAssumption

\* Once a receipt shows in a row it shows there for ever.
LEMMA ReflectedStays ==
  ASSUME IInv, [Next]_vars, NEW m \in Wamids, NEW s \in Receipts, Reflected(m, s)
  PROVE  Reflected(m, s)'
<1>1. PICK j \in Jobs : jobs[j].wamid = m /\ jobs[j].level >= statusLevels[s]
  BY DEF Reflected
<1>2. ~Unbound(j)
  BY <1>1, NoWamidAssumption DEF Unbound
<1>3. jobs'[j].wamid = m /\ jobs'[j].level >= statusLevels[s]
  BY <1>1, <1>2, BoundRowKept, Levels
<1> QED
  BY <1>3 DEF Reflected

\* A receipt that finds a row below its level shows in that row afterwards.
LEMMA MatchIsReflected ==
  ASSUME IInv, NEW m \in Wamids, NEW s \in Receipts,
         Below(jobs, m, statusLevels[s]) # {},
         jobs' = UpdateJobMonotonic(jobs, m, s, statusLevels[s])
  PROVE  Reflected(m, s)'
<1>1. PICK j \in Jobs : j \in Below(jobs, m, statusLevels[s])
  BY DEF Below
<1>2. jobs[j].wamid = m /\ jobs[j] \in Row
  BY <1>1 DEF Below, IInv, PoolInv, EdgeTypeOK
<1>3. jobs'[j] = [jobs[j] EXCEPT !.status = s, !.level = statusLevels[s]]
  BY <1>1 DEF UpdateJobMonotonic
<1>4. jobs'[j].wamid = m /\ jobs'[j].level = statusLevels[s]
  BY <1>2, <1>3 DEF Row
<1>5. jobs'[j].level >= statusLevels[s]
  BY <1>4, Levels
<1> QED
  BY <1>4, <1>5 DEF Reflected

\* What is new in recording, and what is new in events.
LEMMA NewMatches ==
  ASSUME IInv, [Next]_vars
  PROVE  /\ \A r \in recording' \ recording :
              r \in Applied /\ (r.matched => Reflected(r.wamid, r.status)')
         /\ \A m \in Wamids, s \in Receipts :
              events'[<<m, s>>] = "matched" =>
                events[<<m, s>>] = "matched" \/
                \E r \in recording : r.matched /\ r.wamid = m /\ r.status = s
<1> USE DEF IInv
<1>1. CASE UNCHANGED <<recording, events>>
  BY <1>1
<1>2. CASE Stop \/ Crash
  BY <1>2 DEF Stop, Crash, Halt
<1>3. ASSUME NEW m \in Wamids, NEW s \in Receipts, ApplyReceipt(m, s),
             NEW r \in recording' \ recording
      PROVE  r \in Applied /\ (r.matched => Reflected(r.wamid, r.status)')
  <2>1. PICK b \in BOOLEAN :
          /\ recording' = recording \cup {[wamid |-> m, status |-> s, matched |-> b]}
          /\ \/ /\ b = (Below(jobs, m, statusLevels[s]) # {})
                /\ jobs' = UpdateJobMonotonic(jobs, m, s, statusLevels[s])
             \/ ~b
    BY <1>3 DEF ApplyReceipt
  <2>2. r = [wamid |-> m, status |-> s, matched |-> b]
    BY <1>3, <2>1
  <2>3. r \in Applied
    BY <2>2 DEF Applied
  <2>4. b => Reflected(m, s)'
    BY <2>1, MatchIsReflected
  <2> QED
    BY <2>2, <2>3, <2>4
<1>4. ASSUME NEW r \in recording, RecordEvent(r), NEW m \in Wamids, NEW s \in Receipts,
             events'[<<m, s>>] = "matched", events[<<m, s>>] # "matched"
      PROVE  r.matched /\ r.wamid = m /\ r.status = s
  <2>1. r \in Applied /\ events \in [Wamids \X Receipts -> {"absent", "unmatched", "matched"}]
    BY <1>4 DEF HookTypeOK
  <2>2. events' = [events EXCEPT ![<<r.wamid, r.status>>] = IF r.matched THEN "matched" ELSE "unmatched"]
    BY <1>4 DEF RecordEvent
  <2>3. <<m, s>> = <<r.wamid, r.status>> /\ r.matched
    BY <1>4, <2>1, <2>2 DEF Applied
  <2> QED
    BY <2>3
<1>5. CASE HookStep
  <2>1. ASSUME NEW m \in Wamids, NEW s \in Receipts, ApplyReceipt(m, s)
        PROVE  UNCHANGED events
    BY <2>1 DEF ApplyReceipt
  <2>2. ASSUME NEW r \in recording, RecordEvent(r)
        PROVE  recording' \subseteq recording
    BY <2>2 DEF RecordEvent
  <2>3. ASSUME NEW m \in Wamids, NEW s \in Receipts, MetaReports(m, s) \/ PostV1MetaWebhook(m, s)
        PROVE  UNCHANGED <<recording, events>>
    BY <2>3 DEF MetaReports, PostV1MetaWebhook
  <2>4. CASE \E m \in Wamids, s \in Receipts : ApplyReceipt(m, s)
    BY <1>3, <2>1, <2>4
  <2>5. CASE \E r \in recording : RecordEvent(r)
    BY <1>4, <2>2, <2>5
  <2> QED
    BY <1>1, <1>5, <2>3, <2>4, <2>5 DEF HookStep, HookNext
<1> QED
  BY <1>1, <1>2, <1>5, OthersChangeNothing DEF Next, PoolStep, Shutdown, Boot, mainVars, hookVars

LEMMA MatchesKept == IInv /\ [Next]_vars => MatchesAreReflected' /\ MatchedEventReflected'
<1> SUFFICES ASSUME IInv, [Next]_vars
             PROVE  MatchesAreReflected' /\ MatchedEventReflected'
  OBVIOUS
<1>1. recording \subseteq Applied
  BY DEF IInv, HookTypeOK
<1>2. \A r \in recording : r.wamid \in Wamids /\ r.status \in Receipts
  BY <1>1 DEF Applied
<1>3. \A r \in recording : r.matched => Reflected(r.wamid, r.status)'
  BY <1>2, ReflectedStays DEF IInv, MatchesAreReflected
<1>4. MatchesAreReflected'
  BY <1>3, NewMatches DEF MatchesAreReflected
<1>5. \A m \in Wamids, s \in Receipts : events'[<<m, s>>] = "matched" => Reflected(m, s)'
  <2> SUFFICES ASSUME NEW m \in Wamids, NEW s \in Receipts, events'[<<m, s>>] = "matched"
               PROVE  Reflected(m, s)'
    OBVIOUS
  <2>1. CASE events[<<m, s>>] = "matched"
    BY <2>1, ReflectedStays DEF IInv, MatchedEventReflected, Reflected
  <2>2. CASE \E r \in recording : r.matched /\ r.wamid = m /\ r.status = s
    BY <2>2, <1>3
  <2> QED
    BY <2>1, <2>2, NewMatches
<1>6. MatchedEventReflected'
  BY <1>5 DEF MatchedEventReflected, Reflected
<1> QED
  BY <1>4, <1>6

\* A message that has a row keeps it.
LEMMA RowStays ==
  ASSUME IInv, [Next]_vars, NEW m \in Wamids, HasRow(m)
  PROVE  HasRow(m)'
<1>1. PICK j \in Jobs : jobs[j].wamid = m
  BY DEF HasRow
<1>2. jobs'[j].wamid = m
  BY <1>1, BoundRowKept, NoWamidAssumption DEF Unbound
<1> QED
  BY <1>2 DEF HasRow

\* What AnsweredReceiptIsKept says of one receipt.
InWebhookEvents(m, s) ==
  \/ events[<<m, s>>] # "absent"
  \/ \E r \in recording : r.wamid = m /\ r.status = s

KeptSafe(m, s) == <<m, s>> \in inbox \/ (Reflected(m, s) /\ InWebhookEvents(m, s))

\* Applying a receipt to a message that has a row makes it show in that row, or
\* shows that it did already.
LEMMA AppliedIsReflected ==
  ASSUME IInv, [Next]_vars, NEW m \in Wamids, NEW s \in Receipts, HasRow(m),
         jobs' = UpdateJobMonotonic(jobs, m, s, statusLevels[s])
  PROVE  Reflected(m, s)'
<1>1. CASE Below(jobs, m, statusLevels[s]) # {}
  BY <1>1, MatchIsReflected
<1>2. CASE Below(jobs, m, statusLevels[s]) = {}
  <2>1. PICK j \in Jobs : jobs[j].wamid = m
    BY DEF HasRow
  <2>2. jobs[j].level \in 0..6 /\ statusLevels[s] \in 3..5
    BY Levels DEF IInv, PoolInv, EdgeTypeOK, Row
  <2>3. jobs[j].level >= statusLevels[s]
    BY <1>2, <2>1, <2>2 DEF Below
  <2> QED
    BY <2>1, <2>3, ReflectedStays DEF Reflected
<1> QED
  BY <1>1, <1>2

LEMMA AnsweredKept == IInv /\ [Next]_vars => AnsweredHaveRows' /\ AnsweredReceiptIsKept'
<1> SUFFICES ASSUME IInv, [Next]_vars PROVE AnsweredHaveRows' /\ AnsweredReceiptIsKept'
  OBVIOUS
<1> DEFINE Goal(m, s) == HasRow(m)' /\ KeptSafe(m, s)'
<1>1. /\ answered \subseteq Wamids \X Receipts /\ recording \subseteq Applied
      /\ answered' \subseteq Wamids \X Receipts /\ recording' \subseteq Applied
  BY HookTypesKept DEF IInv, HookTypeOK
<1>2. ASSUME NEW m \in Wamids, NEW s \in Receipts, <<m, s>> \in answered
      PROVE  /\ HasRow(m)' /\ HasRow(m) /\ KeptSafe(m, s)
             /\ Reflected(m, s) => Reflected(m, s)'
  <2>1. HasRow(m)
    BY <1>2 DEF IInv, AnsweredHaveRows
  <2>2. HasRow(m)'
    BY <2>1, RowStays
  <2>3. KeptSafe(m, s)
    <3>1. \/ <<m, s>> \in inbox
          \/ /\ Reflected(<<m, s>>[1], <<m, s>>[2])
             /\ \/ events[<<m, s>>] # "absent"
                \/ \E r \in recording : <<r.wamid, r.status>> = <<m, s>>
      BY <1>2 DEF IInv, AnsweredReceiptIsKept
    <3>2. <<m, s>>[1] = m /\ <<m, s>>[2] = s
      OBVIOUS
    <3> QED
      BY <3>1, <3>2 DEF KeptSafe, InWebhookEvents
  <2> QED
    BY <2>1, <2>2, <2>3, ReflectedStays
<1>3. ASSUME NEW m \in Wamids, NEW s \in Receipts, <<m, s>> \in answered',
             UNCHANGED <<inbox, recording, events, answered>>
      PROVE  Goal(m, s)
  BY <1>2, <1>3 DEF KeptSafe, InWebhookEvents
<1>4. ASSUME NEW m \in Wamids, NEW s \in Receipts, <<m, s>> \in answered',
             NEW n \in Wamids, NEW t \in Receipts, PostV1MetaWebhook(n, t)
      PROVE  Goal(m, s)
  <2>1. CASE <<m, s>> \in answered
    BY <1>2, <1>4, <2>1 DEF PostV1MetaWebhook, KeptSafe, InWebhookEvents
  <2>2. CASE <<m, s>> \notin answered
    <3>1. <<m, s>> = <<n, t>> /\ HasRow(n) /\ <<m, s>> \in inbox'
      BY <1>4, <2>2 DEF PostV1MetaWebhook
    <3>2. HasRow(m)'
      BY <3>1, RowStays
    <3> QED
      BY <3>1, <3>2 DEF KeptSafe
  <2> QED
    BY <2>1, <2>2
<1>5. ASSUME NEW m \in Wamids, NEW s \in Receipts, <<m, s>> \in answered',
             NEW n \in Wamids, NEW t \in Receipts, ApplyReceipt(n, t)
      PROVE  Goal(m, s)
  <2>1. PICK b \in BOOLEAN :
          /\ recording' = recording \cup {[wamid |-> n, status |-> t, matched |-> b]}
          /\ \/ /\ jobs' = UpdateJobMonotonic(jobs, n, t, statusLevels[t])
                /\ answered' = answered
             \/ answered' = answered \ {<<n, t>>}
    BY <1>5 DEF ApplyReceipt
  <2>2. <<m, s>> \in answered /\ UNCHANGED events /\ inbox' = inbox \ {<<n, t>>}
    BY <1>5, <2>1 DEF ApplyReceipt
  <2>3. CASE <<m, s>> # <<n, t>>
    BY <1>2, <2>1, <2>2, <2>3 DEF KeptSafe, InWebhookEvents
  <2>4. CASE <<m, s>> = <<n, t>>
    <3>1. m = n /\ s = t /\ jobs' = UpdateJobMonotonic(jobs, m, s, statusLevels[s])
      BY <1>5, <2>1, <2>4
    <3>2. HasRow(m)' /\ Reflected(m, s)'
      BY <1>2, <2>2, <3>1, AppliedIsReflected
    <3>3. InWebhookEvents(m, s)'
      <4> DEFINE r == [wamid |-> n, status |-> t, matched |-> b]
      <4>1. r \in recording' /\ r.wamid = m /\ r.status = s
        BY <2>1, <3>1
      <4> QED
        BY <4>1 DEF InWebhookEvents
    <3> QED
      BY <3>2, <3>3 DEF KeptSafe
  <2> QED
    BY <2>3, <2>4
<1>6. ASSUME NEW m \in Wamids, NEW s \in Receipts, <<m, s>> \in answered',
             NEW r \in recording, RecordEvent(r)
      PROVE  Goal(m, s)
  <2> DEFINE key == <<r.wamid, r.status>>
  <2>1. /\ recording' = recording \ {r} /\ UNCHANGED inbox
        /\ \/ /\ events' = [events EXCEPT ![key] = IF r.matched THEN "matched" ELSE "unmatched"]
              /\ answered' = answered
           \/ events[key] # "absent" /\ UNCHANGED <<events, answered>>
           \/ answered' = answered \ {key} /\ UNCHANGED events
    BY <1>6 DEF RecordEvent
  <2>2. <<m, s>> \in answered
    BY <1>6, <2>1
  <2>3. InWebhookEvents(m, s) => InWebhookEvents(m, s)'
    <3>1. r \in Applied /\ events \in [Wamids \X Receipts -> {"absent", "unmatched", "matched"}]
      BY <1>1 DEF IInv, HookTypeOK
    <3>2. events[<<m, s>>] # "absent" => events'[<<m, s>>] # "absent"
      BY <2>1, <3>1
    <3>3. CASE key = <<m, s>>
      <4>1. events'[<<m, s>>] # "absent"
        BY <1>6, <2>1, <3>1, <3>3
      <4> QED
        BY <4>1 DEF InWebhookEvents
    <3>4. CASE key # <<m, s>>
      BY <2>1, <3>2, <3>4 DEF InWebhookEvents
    <3> QED
      BY <3>3, <3>4
  <2> QED
    BY <1>2, <2>1, <2>2, <2>3 DEF KeptSafe
<1>7. ASSUME NEW m \in Wamids, NEW s \in Receipts, <<m, s>> \in answered'
      PROVE  Goal(m, s)
  <2>1. CASE HookStep
    BY <1>3, <1>4, <1>5, <1>6, <1>7, <2>1 DEF HookStep, HookNext, MetaReports
  <2>2. CASE Stop \/ Crash
    BY <1>7, <2>2 DEF Stop, Crash, Halt
  <2>3. CASE PoolStep \/ Shutdown \/ Boot \/ UNCHANGED mainVars
    BY <1>3, <1>7, <2>3 DEF PoolStep, Shutdown, Boot, mainVars, hookVars
  <2> QED
    BY <2>1, <2>2, <2>3, OthersChangeNothing DEF Next
<1>8. AnsweredReceiptIsKept'
  <2> SUFFICES ASSUME NEW e \in answered'
               PROVE  \/ e \in inbox'
                      \/ /\ Reflected(e[1], e[2])'
                         /\ \/ events'[e] # "absent"
                            \/ \E r \in recording' : <<r.wamid, r.status>> = e
    BY DEF AnsweredReceiptIsKept
  <2>1. PICK m \in Wamids, s \in Receipts : e = <<m, s>>
    BY <1>1
  <2>2. e[1] = m /\ e[2] = s
    BY <2>1
  <2>3. KeptSafe(m, s)'
    BY <1>7, <2>1
  <2>4. InWebhookEvents(m, s)' => \/ events'[e] # "absent"
                                 \/ \E r \in recording' : <<r.wamid, r.status>> = e
    BY <2>1 DEF InWebhookEvents
  <2> QED
    BY <2>1, <2>2, <2>3, <2>4 DEF KeptSafe
<1>9. AnsweredHaveRows'
  <2>1. \A e \in answered' : \E m \in Wamids, s \in Receipts : e = <<m, s>>
    BY <1>1
  <2> QED
    BY <1>7, <2>1 DEF AnsweredHaveRows
<1> QED
  BY <1>8, <1>9

LEMMA IInvKept == IInv /\ [Next]_vars => IInv'
BY PoolInvKept, HookTypesKept, StopTypesKept, StatusKept, MatchesKept, AnsweredKept DEF IInv

----------------------------------------------------------------------------
(* A step of the engine is a step of the queue.                            *)

\* What a worker holds, nobody else holds, and the queue has it as taken.
LEMMA HeldIsTaken ==
  ASSUME IInv, NEW w \in Workers, worker[w].pc \in Holding
  PROVE  /\ worker[w].job \in Jobs
         /\ QueueState[worker[w].job] = "taken"
         /\ QueueHolders[worker[w].job] = {w}
BY DEF IInv, PoolInv, SafeInv, Held, ExclusiveClaim, QueueState, QueueHolders

\* To the queue a row is the same after it has moved up by a receipt.
LEMMA RiseIsInvisible ==
  ASSUME IInv, NEW j \in Jobs,
         jobs'[j].wamid = jobs[j].wamid,
         \/ jobs'[j] = jobs[j]
         \/ ~Unbound(j) /\ jobs'[j].status \in {"accepted"} \cup Receipts
  PROVE  QueueState'[j] = QueueState[j]
<1>1. CASE jobs'[j] = jobs[j]
  BY <1>1 DEF QueueState, Unbound
<1>2. CASE ~Unbound(j) /\ jobs'[j].status \in {"accepted"} \cup Receipts
  <2>1. jobs'[j].status \notin {"absent", "queued", "processing"}
    BY <1>2 DEF Receipts
  <2>2. QueueState'[j] = "done"
    BY <2>1 DEF QueueState
  <2>3. jobs[j].status \notin {"absent", "queued"}
    BY <1>2 DEF IInv, PoolInv, SafeInv, RowShape
  <2>4. QueueState[j] = "done"
    BY <1>2, <2>3 DEF QueueState
  <2> QED
    BY <2>2, <2>4
<1> QED
  BY <1>1, <1>2

LEMMA RisesAreInvisible ==
  ASSUME IInv,
         \A j \in Jobs :
           /\ jobs'[j].wamid = jobs[j].wamid
           /\ \/ jobs'[j] = jobs[j]
              \/ ~Unbound(j) /\ jobs'[j].status \in {"accepted"} \cup Receipts
  PROVE  UNCHANGED QueueState
<1>1. \A j \in Jobs : QueueState'[j] = QueueState[j]
  BY RiseIsInvisible
<1> QED
  BY <1>1 DEF QueueState

\* A worker that keeps its job in hand, or has none before and after.
LEMMA HandsUnchanged ==
  ASSUME NEW w \in Workers,
         \A v \in Workers \ {w} : worker'[v] = worker[v],
         worker'[w].pc \in Holding <=> worker[w].pc \in Holding,
         worker[w].pc \in Holding => worker'[w].job = worker[w].job
  PROVE  UNCHANGED QueueHolders
BY DEF QueueHolders

\* A worker that puts its job down.
LEMMA HandsEmptied ==
  ASSUME IInv, NEW w \in Workers, worker[w].pc \in Holding,
         \A v \in Workers \ {w} : worker'[v] = worker[v],
         worker'[w].pc \notin Holding
  PROVE  QueueHolders' = [QueueHolders EXCEPT ![worker[w].job] = {}]
<1> DEFINE k == worker[w].job
<1>1. k \in Jobs /\ QueueHolders[k] = {w}
  BY HeldIsTaken
<1>2. \A j \in Jobs \ {k} : QueueHolders'[j] = QueueHolders[j]
  BY DEF QueueHolders
<1>3. QueueHolders'[k] = {}
  <2>1. \A v \in Workers \ {w} : worker[v].pc \in Holding => worker[v].job # k
    BY DEF IInv, PoolInv, SafeInv, ExclusiveClaim
  <2> QED
    BY <1>1, <2>1 DEF QueueHolders
<1> QED
  BY <1>1, <1>2, <1>3 DEF QueueHolders

\* A holder writes the row of its job and puts the job down, or only the
\* latter.
LEMMA HolderReleases ==
  ASSUME IInv, NEW w \in Workers, worker[w].pc \in Holding,
         \A v \in Workers \ {w} : worker'[v] = worker[v],
         worker'[w].pc \notin Holding,
         \A j \in Jobs \ {worker[w].job} : jobs'[j] = jobs[j],
         \/ jobs'[worker[w].job] = jobs[worker[w].job]
         \/ QueueState'[worker[w].job] \in {"waiting", "done"}
  PROVE  Queue!Next
<1> DEFINE k == worker[w].job
<1>1. k \in Jobs /\ QueueState[k] = "taken" /\ QueueHolders[k] = {w}
  BY HeldIsTaken
<1>2. QueueHolders' = [QueueHolders EXCEPT ![k] = {}]
  BY HandsEmptied
<1>3. \A j \in Jobs \ {k} : QueueState'[j] = QueueState[j]
  BY DEF QueueState, Unbound
<1>4. CASE jobs'[k] = jobs[k]
  <2>1. \A j \in Jobs : QueueState'[j] = QueueState[j]
    BY <1>3, <1>4 DEF QueueState, Unbound
  <2>2. UNCHANGED QueueState
    BY <2>1 DEF QueueState
  <2>3. Queue!LetGo(k, w)
    BY <1>1, <1>2, <2>2 DEF Queue!LetGo
  <2> QED
    BY <1>1, <2>3 DEF Queue!Next
<1>5. CASE QueueState'[k] \in {"waiting", "done"}
  <2>1. QueueState' = [QueueState EXCEPT ![k] = QueueState'[k]]
    BY <1>1, <1>3 DEF QueueState
  <2>2. Queue!Release(k, w, QueueState'[k])
    BY <1>1, <1>2, <2>1 DEF Queue!Release, Queue!Moves
  <2> QED
    BY <1>1, <1>5, <2>2 DEF Queue!Next
<1> QED
  BY <1>4, <1>5

LEMMA WorkerStepIsQueueStep ==
  ASSUME IInv, NEW w \in Workers, WorkerStep(w)
  PROVE  Queue!Next \/ UNCHANGED <<QueueState, QueueHolders>>
<1> USE DEF IInv, PoolInv
<1> DEFINE k == worker[w].job
<1>1. UNCHANGED jobs => UNCHANGED QueueState
  BY DEF QueueState, Unbound
<1>2. CASE Claim(w)
  <2>1. PICK i \in DOMAIN due :
          /\ IsNext(i)
          /\ jobs' = ClaimNextJob(jobs, due[i])
          /\ worker' = [worker EXCEPT ![w] = [Idle EXCEPT !.pc = "prepare", !.job = due[i]]]
    BY <1>2 DEF Claim
  <2> DEFINE j == due[i]
  <2>2. j \in Jobs /\ jobs[j].status = "queued" /\ worker[w].pc \notin Holding
    BY <1>2, <2>1 DEF Claim, PoolTypeOK, IsNext, Claimable, Holding
  <2>3. /\ jobs'[j].status = "processing" /\ jobs'[j].wamid = NoWamid
        /\ \A n \in Jobs \ {j} : jobs'[n] = jobs[n]
    <3>1. jobs[j].wamid = NoWamid
      BY <2>2 DEF SafeInv, RowShape, Unbound
    <3> QED
      BY <2>1, <2>2, <3>1, StatusWritten DEF EdgeTypeOK, ClaimNextJob, Statuses
  <2>4. /\ worker'[w].pc = "prepare" /\ worker'[w].job = j
        /\ \A v \in Workers \ {w} : worker'[v] = worker[v]
    BY <2>1 DEF PoolTypeOK, Idle
  <2>5. \A v \in Workers : worker[v].pc \in Holding => worker[v].job # j
    BY <2>2 DEF SafeInv, Held
  <2>6. QueueState[j] = "waiting" /\ QueueState' = [QueueState EXCEPT ![j] = "taken"]
    BY <2>2, <2>3 DEF QueueState, Unbound
  <2>7. QueueHolders[j] = {} /\ QueueHolders' = [QueueHolders EXCEPT ![j] = {w}]
    <3>1. QueueHolders[j] = {}
      BY <2>2, <2>5 DEF QueueHolders
    <3>2. QueueHolders'[j] = {w}
      BY <2>2, <2>4, <2>5 DEF QueueHolders, Holding
    <3>3. \A n \in Jobs \ {j} : QueueHolders'[n] = QueueHolders[n]
      BY <2>2, <2>4 DEF QueueHolders
    <3> QED
      BY <2>2, <3>1, <3>2, <3>3 DEF QueueHolders
  <2> QED
    BY <2>2, <2>6, <2>7 DEF Queue!Next, Queue!Take, Queue!Moves
<1>3. CASE Proceed(w) \/ PutBack(w) \/ TenantGone(w) \/ MetaRefuses(w) \/ SendFails(w)
           \/ ReceiveWamid(w) \/ MetaAccepts(w) \/ LoseAnswer(w)
  <2>1. /\ worker[w].pc \in Holding /\ worker'[w].pc \in Holding /\ worker'[w].job = k
        /\ \A v \in Workers \ {w} : worker'[v] = worker[v]
        /\ UNCHANGED jobs
    <3>1. CASE MetaAccepts(w)
      BY <3>1 DEF MetaAccepts, PoolTypeOK, WorkerState, Holding
    <3>2. CASE LoseAnswer(w)
      BY <3>2, AfterErrors DEF LoseAnswer, PoolTypeOK, WorkerState, Holding, edgeVars
    <3>3. CASE ~MetaAccepts(w) /\ ~LoseAnswer(w)
      <4>1. PICK pc \in {"send", "requeue", "fail", "failAndPause", "bind"} :
              worker' = Goto(w, pc) /\ worker[w].pc \in Holding /\ UNCHANGED jobs
        BY <1>3, <3>3, AfterErrors DEF Proceed, PutBack, TenantGone, MetaRefuses, SendFails,
                                       ReceiveWamid, Holding, edgeVars
      <4> QED
        BY <4>1, WorkerPlaces DEF Holding
    <3> QED
      BY <3>1, <3>2, <3>3
  <2> QED
    BY <1>1, <2>1, HandsUnchanged
<1>4. CASE Exit(w) \/ PauseTenant(w) \/ Recover(w)
  <2>1. /\ worker'[w].pc \notin Holding
        /\ \A v \in Workers \ {w} : worker'[v] = worker[v]
        /\ UNCHANGED jobs
    <3>1. worker' \in {Goto(w, "exited"), NextIteration(w)} /\ UNCHANGED jobs
      BY <1>4 DEF Exit, PauseTenant, Recover, edgeVars
    <3>2. worker'[w].pc \in {"exited", "poll"} /\ \A v \in Workers \ {w} : worker'[v] = worker[v]
      BY <3>1, WorkerPlaces DEF AtRest
    <3> QED
      BY <3>1, <3>2 DEF Holding
  <2>2. CASE worker[w].pc \in Holding
    BY <2>1, <2>2, HolderReleases
  <2>3. CASE worker[w].pc \notin Holding
    BY <1>1, <2>1, <2>3, HandsUnchanged
  <2> QED
    BY <2>2, <2>3
<1>5. CASE Requeue(w) \/ Fail(w) \/ Fallback(w)
  <2>1. worker[w].pc \in Holding
    BY <1>5 DEF Requeue, Fail, Fallback, Holding
  <2>2. k \in Jobs
    BY <2>1 DEF SafeInv, Held
  <2>3. PICK s \in {"queued", "failed", "accepted"}, l \in {0, 2, 6}, next \in {NextIteration(w), Goto(w, "pause")} :
          Exec(UpdateJobStatus(jobs, k, s, l), next, next)
    BY <1>5 DEF Requeue, Fail, Fallback, RequeueWithJitter, MarkJobFailed
  <2>4. worker'[w].pc \notin Holding /\ \A v \in Workers \ {w} : worker'[v] = worker[v]
    BY <2>3, WorkerPlaces DEF Exec, Closing, Holding
  <2>5. CASE UNCHANGED jobs
    BY <2>1, <2>4, <2>5, HolderReleases
  <2>6. CASE jobs' = UpdateJobStatus(jobs, k, s, l)
    <3>1. s \in Statuses /\ l \in 0..6
      BY DEF Statuses, Receipts
    <3>2. jobs'[k].status = s /\ \A j \in Jobs \ {k} : jobs'[j] = jobs[j]
      BY <2>2, <2>6, <3>1, StatusWritten DEF EdgeTypeOK
    <3>3. QueueState'[k] \in {"waiting", "done"}
      BY <2>2, <3>2 DEF QueueState
    <3> QED
      BY <2>1, <2>4, <3>2, <3>3, HolderReleases
  <2> QED
    BY <2>3, <2>5, <2>6 DEF Exec
<1>6. CASE Bind(w)
  <2>1. worker[w].pc \in Holding /\ worker[w].pc = "bind"
    BY <1>6 DEF Bind, Holding
  <2>2. k \in Jobs /\ worker[w].wamid \in Wamids
    BY <2>1 DEF SafeInv, Held, AnswerIsOwn
  <2>3. CASE UNCHANGED jobs /\ worker' = Goto(w, "fallback")
    <3>1. /\ worker'[w].pc \in Holding /\ worker'[w].job = k
          /\ \A v \in Workers \ {w} : worker'[v] = worker[v]
      BY <2>3, WorkerPlaces DEF Holding
    <3> QED
      BY <1>1, <2>1, <2>3, <3>1, HandsUnchanged
  <2>4. CASE jobs' = SetJobMetaID(jobs, k, worker[w].wamid) /\ worker' = Goto(w, "accept")
    <3>1. worker'[w].pc \notin Holding /\ \A v \in Workers \ {w} : worker'[v] = worker[v]
      BY <2>4, WorkerPlaces DEF Closing, Holding
    <3>2. /\ jobs'[k].wamid # NoWamid /\ jobs'[k].status = "processing"
          /\ \A j \in Jobs \ {k} : jobs'[j] = jobs[j]
      BY <2>1, <2>2, <2>4, WamidWritten, NoWamidAssumption DEF EdgeTypeOK, SafeInv, Held
    <3>3. QueueState'[k] = "done"
      BY <2>2, <3>2 DEF QueueState, Unbound
    <3> QED
      BY <2>1, <3>1, <3>2, <3>3, HolderReleases
  <2> QED
    BY <1>6, <2>3, <2>4 DEF Bind, Exec
<1>7. CASE Accept(w)
  <2>1. worker[w].pc \notin Holding /\ worker[w].wamid \in Wamids
    BY <1>7 DEF Accept, SafeInv, Bound, Holding
  <2>2. worker'[w].pc = "poll" /\ \A v \in Workers \ {w} : worker'[v] = worker[v]
    BY <1>7, WorkerPlaces DEF Accept, Exec
  <2>3. UNCHANGED QueueHolders
    BY <2>1, <2>2, HandsUnchanged DEF Holding
  <2>4. CASE jobs' = UpdateJobMonotonic(jobs, worker[w].wamid, "accepted", 2)
    <3>1. "accepted" \in Statuses /\ 2 \in 2..5
      BY DEF Statuses
    <3>2. \A j \in Jobs :
            /\ jobs'[j].wamid = jobs[j].wamid
            /\ \/ jobs'[j] = jobs[j]
               \/ jobs[j].wamid = worker[w].wamid /\ jobs'[j].status = "accepted"
      BY <2>1, <2>4, <3>1, MonotonicWritten DEF EdgeTypeOK
    <3>3. UNCHANGED QueueState
      BY <2>1, <3>2, RisesAreInvisible, NoWamidAssumption DEF Unbound
    <3> QED
      BY <2>3, <3>3
  <2> QED
    BY <1>1, <1>7, <2>3, <2>4 DEF Accept, Exec
<1> QED
  BY <1>2, <1>3, <1>4, <1>5, <1>6, <1>7 DEF WorkerStep

LEMMA StepIsQueueStep ==
  ASSUME IInv, [Next]_vars
  PROVE  Queue!Next \/ UNCHANGED <<QueueState, QueueHolders>>
<1> USE DEF IInv, PoolInv
<1>1. UNCHANGED jobs => UNCHANGED QueueState
  BY DEF QueueState, Unbound
<1>2. UNCHANGED worker => UNCHANGED QueueHolders
  BY DEF QueueHolders
<1>3. CASE \E w \in Workers : WorkerStep(w)
  BY <1>3, WorkerStepIsQueueStep
<1>4. ASSUME NEW j \in Jobs, Submit(j)
      PROVE  Queue!Next
  <2>1. jobs[j].status = "absent" /\ jobs' = InsertJob(jobs, j) /\ UNCHANGED worker
    BY <1>4 DEF Submit, poolVars
  <2>2. jobs'[j].status = "queued" /\ \A n \in Jobs \ {j} : jobs'[n] = jobs[n]
    BY <2>1, StatusWritten DEF InsertJob, EdgeTypeOK, Statuses
  <2>3. QueueState[j] = "absent" /\ QueueState' = [QueueState EXCEPT ![j] = "waiting"]
    BY <2>1, <2>2 DEF QueueState, Unbound
  <2> QED
    BY <1>2, <2>1, <2>3 DEF Queue!Next, Queue!Put, Queue!Moves
<1>5. CASE PoolStep \/ Shutdown
  BY <1>1, <1>2, <1>3, <1>4, <1>5 DEF PoolStep, Shutdown, PoolNext, Surroundings, BecomesDue,
                                      ControlPlane, Cancel, edgeVars
<1>6. CASE HookStep
  <2>1. UNCHANGED QueueState
    BY <1>6, HookStepTable, RisesAreInvisible DEF HookStep
  <2>2. UNCHANGED worker
    BY <1>6 DEF HookStep, poolVars
  <2> QED
    BY <1>2, <2>1, <2>2
<1>7. CASE Stop \/ Crash
  <2>1. UNCHANGED jobs /\ worker' = [w \in Workers |-> Idle]
    BY <1>7 DEF Stop, Crash, Halt, edgeVars
  <2>2. QueueHolders' = [j \in Jobs |-> {}]
    BY <2>1 DEF QueueHolders, Idle, Holding
  <2> QED
    BY <1>1, <2>1, <2>2 DEF Queue!Next, Queue!LetAllGo
<1>8. CASE Boot \/ JanitorStep \/ BackgroundStep \/ UNCHANGED vars
  <2>1. UNCHANGED <<jobs, worker>>
    BY <1>8, OthersChangeNothing DEF Boot, mainVars, edgeVars, poolVars
  <2> QED
    BY <1>1, <1>2, <2>1
<1> QED
  BY <1>5, <1>6, <1>7, <1>8 DEF Next

----------------------------------------------------------------------------
(* Pausing.                                                                *)

LateStays == \A t \in Tenants : LateInv(t)

LEMMA InitLate == Init => LateStays
<1> SUFFICES ASSUME Init, NEW t \in Tenants
             PROVE  LateInv(t)
  BY DEF LateStays
<1>1. lateSends[t] = 0 /\ Sending(t) = {}
  BY DEF Init, PoolInit, Sending, Idle
<1>2. Cardinality(Sending(t)) = 0 /\ Cardinality(Workers) \in Nat
  BY <1>1, FS_EmptySet, FS_CardinalityType, WorkersAssumption
<1> QED
  BY <1>1, <1>2 DEF LateInv

LEMMA LateKept == IInv /\ LateStays /\ [Next]_vars => LateStays'
<1> SUFFICES ASSUME IInv, [Next]_vars, NEW t \in Tenants, LateInv(t)
             PROVE  LateInv(t)'
  BY DEF LateStays
<1> USE DEF IInv
<1>1. PoolTypeOK
  BY DEF PoolInv
<1>2. CASE PoolStep \/ Shutdown
  BY <1>2, PoolKeepsLate DEF PoolStep, Shutdown
<1>3. CASE HookStep \/ JanitorStep \/ BackgroundStep \/ UNCHANGED vars
  <2>1. UNCHANGED <<paused, worker, lateSends>>
    BY <1>3, OthersChangeNothing DEF HookStep, mainVars, poolVars
  <2> QED
    BY <1>1, <2>1, SendersGone, NoMoreSend DEF LateInv
<1>4. CASE Stop \/ Crash
  <2>1. UNCHANGED <<paused, lateSends>> /\ worker' = [w \in Workers |-> Idle]
    BY <1>4 DEF Stop, Crash, Halt
  <2>2. \A v \in Workers : worker'[v].pc = "poll"
    BY <2>1 DEF Idle
  <2> QED
    BY <1>1, <2>1, <2>2, SendersGone, NoMoreSend DEF LateInv
<1>5. CASE Boot
  BY <1>1, <1>5, PauseKeepsLate DEF Boot
<1> QED
  BY <1>2, <1>3, <1>4, <1>5 DEF Next

----------------------------------------------------------------------------
(***************************************************************************)
(* Jobs that are left behind.  Every worker has a job of its own from its  *)
(* claim to the end of its iteration (OwnJobs).  A job becomes an orphan   *)
(* when its worker forgets it; workers that can still forget theirs        *)
(* without a further fault are AtRisk, and what they may lose is paid for  *)
(* when they come to be (LossesArePaid): by the statement that failed, or, *)
(* once the context is cancelled, by the shutdown.                         *)
(***************************************************************************)

OwnJobs ==
  /\ \A w \in Workers :
       /\ worker[w].job = NoJob <=> worker[w].pc \in AtRest
       /\ worker[w].pc \notin AtRest => jobs[worker[w].job].status \notin {"absent", "queued"}
       /\ worker[w].pc = "accept" => jobs[worker[w].job].wamid = worker[w].wamid
  /\ \A v, w \in Workers : v # w /\ worker[v].job = worker[w].job => worker[w].job = NoJob

AtRisk ==
  {w \in Workers : IF ctx = "cancelled" THEN worker[w].pc \notin AtRest
                   ELSE worker[w].pc = "pause" /\ jobs[worker[w].job].status = "processing"}

Budget == faults + Cardinality(Workers) * (crashes + shutdowns)

LossesArePaid ==
  /\ IsFiniteSet(Orphans)
  /\ Cardinality(Orphans) + Cardinality(AtRisk) <= Budget

LossInv == OwnJobs /\ LossesArePaid

\* The four ways in which a worker goes on, as far as jobs are concerned.
TakesJob(w) ==
  \E j \in Jobs :
    /\ worker[w].pc \in AtRest /\ ctx = "live"
    /\ jobs[j].status = "queued"
    /\ jobs'[j].status = "processing" /\ \A i \in Jobs \ {j} : jobs'[i] = jobs[i]
    /\ worker'[w].pc = "prepare" /\ worker'[w].job = j

StaysIdle(w) ==
  /\ worker[w].pc \in AtRest /\ worker'[w].pc \in AtRest
  /\ worker'[w].job = worker[w].job /\ jobs' = jobs

KeepsJob(w) ==
  /\ worker[w].pc \notin AtRest /\ worker'[w].pc \notin AtRest
  /\ worker'[w].job = worker[w].job
  /\ jobs[worker[w].job].status = "processing"
  /\ jobs'[worker[w].job].status \in {"processing", "failed"}
  /\ \A i \in Jobs \ {worker[w].job} : jobs'[i] = jobs[i]
  /\ worker'[w].pc = "accept" => jobs'[worker[w].job].wamid = worker'[w].wamid
  /\ worker'[w].pc = "pause" /\ ctx = "live" /\ jobs'[worker[w].job].status = "processing" =>
       faults' = faults + 1

PutsJobDown(w) ==
  /\ worker[w].pc \notin AtRest /\ worker'[w].pc \in AtRest /\ worker'[w].job = NoJob
  /\ \A i \in Jobs \ {worker[w].job} : jobs'[i] = jobs[i]
  /\ \/ jobs'[worker[w].job].status # "processing"
     \/ /\ jobs'[worker[w].job] = jobs[worker[w].job]
        /\ ctx = "cancelled" \/ faults' = faults + 1 \/ worker[w].pc = "pause"

WorkerGoesOn(w) ==
  /\ ctx' = ctx /\ faults' \in {faults, faults + 1}
  /\ \A v \in Workers \ {w} : worker'[v] = worker[v]
  /\ TakesJob(w) \/ StaysIdle(w) \/ KeepsJob(w) \/ PutsJobDown(w)

\* Every step of a worker is one of the four.
LEMMA WorkerSteps ==
  ASSUME PoolInv, OwnJobs, NEW w \in Workers, WorkerStep(w)
  PROVE  WorkerGoesOn(w)
<1> USE DEF PoolInv
<1> DEFINE k == worker[w].job
<1>1. /\ worker[w].pc \in Holding =>
           k \in Jobs /\ jobs[k].status = "processing" /\ Unbound(k)
      /\ worker[w].pc \in AtRest \cup Holding \cup Closing
      /\ worker[w].pc \notin AtRest => k \in Jobs
  BY DEF SafeInv, Held, PoolTypeOK, WorkerState, OwnJobs
<1>2. faults' \in {faults, faults + 1} /\ ctx' = ctx
  BY DEF WorkerStep, Claim, Proceed, PutBack, TenantGone, MetaAccepts, MetaRefuses, SendFails,
         ReceiveWamid, LoseAnswer, Requeue, Fail, PauseTenant, Bind, Fallback, Accept, Recover,
         Exit, Exec, StatementFails, Fault, edgeVars
<1>3. ASSUME Claim(w) PROVE WorkerGoesOn(w)
  <2>1. PICK i \in DOMAIN due :
          /\ IsNext(i) /\ jobs' = ClaimNextJob(jobs, due[i])
          /\ worker' = [worker EXCEPT ![w] = [Idle EXCEPT !.pc = "prepare", !.job = due[i]]]
    BY <1>3 DEF Claim
  <2> DEFINE j == due[i]
  <2>2. j \in Jobs /\ jobs[j].status = "queued"
    BY <2>1 DEF PoolTypeOK, IsNext, Claimable
  <2>3. jobs'[j].status = "processing" /\ \A n \in Jobs \ {j} : jobs'[n] = jobs[n]
    BY <2>1, <2>2, StatusWritten DEF EdgeTypeOK, ClaimNextJob, Statuses
  <2>4. /\ worker'[w].pc = "prepare" /\ worker'[w].job = j
        /\ \A v \in Workers \ {w} : worker'[v] = worker[v]
    BY <2>1 DEF PoolTypeOK, Idle
  <2>5. worker[w].pc \in AtRest /\ ctx = "live"
    BY <1>3 DEF Claim, AtRest
  <2> QED
    BY <1>2, <2>2, <2>3, <2>4, <2>5 DEF WorkerGoesOn, TakesJob
<1>4. ASSUME Exit(w) PROVE WorkerGoesOn(w)
  <2>1. /\ worker' = Goto(w, "exited") /\ jobs' = jobs /\ worker[w].pc \in AtRest
        /\ "exited" \in AtRest
    BY <1>4 DEF Exit, edgeVars, AtRest
  <2> QED
    BY <1>2, <2>1, WorkerPlaces DEF WorkerGoesOn, StaysIdle
<1>5. ASSUME \/ Proceed(w) \/ PutBack(w) \/ TenantGone(w) \/ MetaRefuses(w) \/ SendFails(w)
             \/ ReceiveWamid(w) \/ MetaAccepts(w) \/ LoseAnswer(w)
      PROVE  WorkerGoesOn(w)
  <2>1. /\ worker[w].pc \in Holding /\ worker'[w].pc \in Holding /\ worker'[w].job = k
        /\ \A v \in Workers \ {w} : worker'[v] = worker[v]
        /\ UNCHANGED jobs
    <3>1. CASE MetaAccepts(w)
      BY <3>1 DEF MetaAccepts, PoolTypeOK, WorkerState, Holding
    <3>2. CASE LoseAnswer(w)
      BY <3>2, AfterErrors DEF LoseAnswer, PoolTypeOK, WorkerState, Holding, edgeVars
    <3>3. CASE ~MetaAccepts(w) /\ ~LoseAnswer(w)
      <4>1. PICK pc \in {"send", "requeue", "fail", "failAndPause", "bind"} :
              worker' = Goto(w, pc) /\ worker[w].pc \in Holding /\ UNCHANGED jobs
        BY <1>5, <3>3, AfterErrors DEF Proceed, PutBack, TenantGone, MetaRefuses, SendFails,
                                       ReceiveWamid, Holding, edgeVars
      <4> QED
        BY <4>1, WorkerPlaces DEF Holding
    <3> QED
      BY <3>1, <3>2, <3>3
  <2>2. worker[w].pc \notin AtRest /\ worker'[w].pc \notin AtRest \cup {"accept", "pause"}
    BY <2>1 DEF Holding, AtRest
  <2> QED
    BY <1>1, <1>2, <2>1, <2>2 DEF WorkerGoesOn, KeepsJob
<1>6. ASSUME Recover(w) \/ PauseTenant(w) PROVE WorkerGoesOn(w)
  <2>1. /\ worker' = NextIteration(w) /\ UNCHANGED jobs /\ worker[w].pc \notin AtRest
        /\ worker[w].pc = "pause" \/ faults' = faults + 1
    BY <1>6 DEF Recover, PauseTenant, Fault, AtRest
  <2>2. /\ worker'[w].pc \in AtRest /\ worker'[w].job = NoJob
        /\ \A v \in Workers \ {w} : worker'[v] = worker[v]
    BY <2>1 DEF NextIteration, Idle, AtRest, PoolTypeOK
  <2> QED
    BY <1>2, <2>1, <2>2 DEF WorkerGoesOn, PutsJobDown
<1>7. ASSUME worker' = NextIteration(w), worker[w].pc \in Holding,
             NEW s \in Statuses \ {"processing"}, NEW l \in 0..6,
             \/ jobs' = UpdateJobStatus(jobs, k, s, l)
             \/ StatementFails /\ UNCHANGED jobs
      PROVE  WorkerGoesOn(w)
  <2>1. /\ worker'[w].pc \in AtRest /\ worker'[w].job = NoJob
        /\ \A v \in Workers \ {w} : worker'[v] = worker[v]
        /\ worker[w].pc \notin AtRest
    BY <1>7 DEF NextIteration, Idle, AtRest, Holding, PoolTypeOK
  <2>2. CASE jobs' = UpdateJobStatus(jobs, k, s, l)
    <3>1. jobs'[k].status # "processing" /\ \A i \in Jobs \ {k} : jobs'[i] = jobs[i]
      BY <1>1, <1>7, <2>2, StatusWritten DEF EdgeTypeOK
    <3> QED
      BY <1>2, <2>1, <3>1 DEF WorkerGoesOn, PutsJobDown
  <2>3. CASE StatementFails /\ UNCHANGED jobs
    <3>1. ctx = "cancelled" \/ faults' = faults + 1
      BY <2>3 DEF StatementFails, Fault
    <3> QED
      BY <1>2, <2>1, <2>3, <3>1 DEF WorkerGoesOn, PutsJobDown
  <2> QED
    BY <1>7, <2>2, <2>3
<1>8. /\ {"queued", "failed", "accepted"} \subseteq Statuses \ {"processing"}
      /\ {"requeue", "fail", "failAndPause", "bind", "fallback"} \subseteq Holding
  BY DEF Statuses, Receipts, Holding
<1>9. ASSUME Requeue(w) PROVE WorkerGoesOn(w)
  BY <1>7, <1>8, <1>9 DEF Requeue, Exec, RequeueWithJitter
<1>10. ASSUME Fallback(w) PROVE WorkerGoesOn(w)
  BY <1>7, <1>8, <1>10 DEF Fallback, Exec
<1>11. ASSUME Fail(w) PROVE WorkerGoesOn(w)
  <2>1. /\ worker[w].pc \in Holding
        /\ worker' = IF worker[w].pc = "fail" THEN NextIteration(w) ELSE Goto(w, "pause")
        /\ jobs' = UpdateJobStatus(jobs, k, "failed", 6) \/ (StatementFails /\ UNCHANGED jobs)
    BY <1>8, <1>11 DEF Fail, Exec, MarkJobFailed
  <2>2. CASE worker[w].pc = "fail"
    BY <1>7, <1>8, <2>1, <2>2
  <2>3. CASE worker[w].pc # "fail"
    <3>1. /\ worker'[w].pc = "pause" /\ worker'[w].job = k
          /\ \A v \in Workers \ {w} : worker'[v] = worker[v]
          /\ worker[w].pc \notin AtRest /\ worker'[w].pc \notin AtRest
      BY <2>1, <2>3, WorkerPlaces DEF Closing, Holding, AtRest
    <3>2. CASE jobs' = UpdateJobStatus(jobs, k, "failed", 6)
      <4>1. jobs'[k].status = "failed" /\ \A i \in Jobs \ {k} : jobs'[i] = jobs[i]
        BY <1>1, <1>8, <2>1, <3>2, StatusWritten DEF EdgeTypeOK
      <4> QED
        BY <1>1, <1>2, <2>1, <3>1, <4>1 DEF WorkerGoesOn, KeepsJob
    <3>3. CASE StatementFails /\ UNCHANGED jobs
      <4>1. ctx = "live" => faults' = faults + 1
        BY <3>3 DEF StatementFails, Fault
      <4> QED
        BY <1>1, <1>2, <2>1, <3>1, <3>3, <4>1 DEF WorkerGoesOn, KeepsJob
    <3> QED
      BY <2>1, <3>2, <3>3
  <2> QED
    BY <2>2, <2>3
<1>12. ASSUME Bind(w) PROVE WorkerGoesOn(w)
  <2>1. worker[w].pc \in Holding /\ worker[w].pc = "bind" /\ worker[w].wamid \in Wamids
    BY <1>8, <1>12 DEF Bind, SafeInv, AnswerIsOwn
  <2>2. CASE jobs' = SetJobMetaID(jobs, k, worker[w].wamid) /\ worker' = Goto(w, "accept")
    <3>1. /\ jobs'[k].wamid = worker[w].wamid /\ jobs'[k].status = "processing"
          /\ \A i \in Jobs \ {k} : jobs'[i] = jobs[i]
      BY <1>1, <2>1, <2>2, WamidWritten DEF EdgeTypeOK
    <3>2. /\ worker'[w].pc = "accept" /\ worker'[w].job = k /\ worker'[w].wamid = worker[w].wamid
          /\ \A v \in Workers \ {w} : worker'[v] = worker[v]
          /\ worker[w].pc \notin AtRest /\ worker'[w].pc \notin AtRest
      BY <2>1, <2>2, WorkerPlaces DEF Closing, Holding, AtRest
    <3> QED
      BY <1>1, <1>2, <2>1, <3>1, <3>2 DEF WorkerGoesOn, KeepsJob
  <2>3. CASE UNCHANGED jobs /\ worker' = Goto(w, "fallback")
    <3>1. /\ worker'[w].pc = "fallback" /\ worker'[w].job = k
          /\ \A v \in Workers \ {w} : worker'[v] = worker[v]
          /\ worker[w].pc \notin AtRest /\ worker'[w].pc \notin AtRest
      BY <2>1, <2>3, WorkerPlaces DEF Holding, AtRest
    <3> QED
      BY <1>1, <1>2, <2>1, <2>3, <3>1 DEF WorkerGoesOn, KeepsJob
  <2> QED
    BY <1>12, <2>2, <2>3 DEF Bind, Exec
<1>13. ASSUME Accept(w) PROVE WorkerGoesOn(w)
  <2> DEFINE m == worker[w].wamid
  <2>1. /\ worker[w].pc = "accept" /\ m \in Wamids /\ jobs[k].wamid = m
        /\ worker[w].pc \notin AtRest /\ worker' = NextIteration(w)
    BY <1>13 DEF Accept, Exec, SafeInv, Bound, OwnJobs, AtRest
  <2>2. /\ worker'[w].pc \in AtRest /\ worker'[w].job = NoJob
        /\ \A v \in Workers \ {w} : worker'[v] = worker[v]
    BY <2>1 DEF NextIteration, Idle, AtRest, PoolTypeOK
  <2>3. CASE jobs' = UpdateJobMonotonic(jobs, m, "accepted", 2)
    <3>1. \A i \in Jobs : jobs[i].wamid = m => i = k
      BY <1>1, <2>1, NoWamidAssumption DEF SafeInv, BoundToOwn, Unbound
    <3>2. "accepted" \in Statuses /\ 2 \in 2..5
      BY DEF Statuses
    <3>3. \A i \in Jobs :
            \/ jobs'[i] = jobs[i]
            \/ jobs[i].wamid = m /\ jobs'[i].status = "accepted"
      BY <2>1, <2>3, <3>2, MonotonicWritten DEF EdgeTypeOK
    <3>4. \A i \in Jobs \ {k} : jobs'[i] = jobs[i]
      BY <3>1, <3>3
    <3>5. jobs'[k].status # "processing"
      <4>1. CASE jobs[k].level < 2
        <5>1. jobs'[k] = [jobs[k] EXCEPT !.status = "accepted", !.level = 2]
          BY <1>1, <2>1, <2>3, <4>1 DEF UpdateJobMonotonic, Below
        <5>2. jobs[k] \in Row
          BY <1>1, <2>1 DEF EdgeTypeOK
        <5> QED
          BY <5>1, <5>2 DEF Row
      <4>2. CASE ~(jobs[k].level < 2)
        <5>1. jobs[k].status # "processing" /\ k \in Jobs
          BY <1>1, <2>1, <4>2 DEF SafeInv, RowShape
        <5> QED
          BY <3>3, <5>1
      <4> QED
        BY <4>1, <4>2
    <3> QED
      BY <1>2, <2>1, <2>2, <3>4, <3>5 DEF WorkerGoesOn, PutsJobDown
  <2>4. CASE StatementFails /\ UNCHANGED jobs
    <3>1. ctx = "cancelled" \/ faults' = faults + 1
      BY <2>4 DEF StatementFails, Fault
    <3> QED
      BY <1>2, <2>1, <2>2, <2>4, <3>1 DEF WorkerGoesOn, PutsJobDown
  <2> QED
    BY <1>13, <2>3, <2>4 DEF Accept, Exec
<1> QED
  BY <1>3, <1>4, <1>5, <1>6, <1>9, <1>10, <1>11, <1>12, <1>13 DEF WorkerStep

LEMMA SetsOfLosses ==
  /\ AtRisk \in SUBSET Workers /\ IsFiniteSet(AtRisk) /\ Cardinality(AtRisk) \in Nat
  /\ IsFiniteSet(Workers) /\ Cardinality(Workers) \in Nat
  /\ IsFiniteSet(Orphans) => Cardinality(Orphans) \in Nat
<1>1. AtRisk \in SUBSET Workers
  BY DEF AtRisk
<1> QED
  BY <1>1, FS_Subset, FS_CardinalityType, WorkersAssumption

\* Jobs stay with their workers.
LEMMA WorkerKeepsOwnJobs ==
  ASSUME PoolInv, OwnJobs, NEW w \in Workers, WorkerGoesOn(w)
  PROVE  OwnJobs'
<1> DEFINE k == worker[w].job
<1>1. /\ \A v \in Workers \ {w} : worker'[v] = worker[v]
      /\ \A v \in Workers : worker[v].pc \notin AtRest => worker[v].job \in Jobs
      /\ NoJob \notin Jobs
  BY NoJobAssumption DEF WorkerGoesOn, OwnJobs, PoolInv, PoolTypeOK, WorkerState
<1>2. CASE TakesJob(w)
  <2>1. PICK j \in Jobs :
          /\ worker[w].pc \in AtRest /\ jobs[j].status = "queued"
          /\ jobs'[j].status = "processing" /\ \A i \in Jobs \ {j} : jobs'[i] = jobs[i]
          /\ worker'[w].pc = "prepare" /\ worker'[w].job = j
    BY <1>2 DEF TakesJob
  <2>2. \A v \in Workers : worker[v].job # j
    BY <1>1, <2>1 DEF OwnJobs
  <2>3. "prepare" \notin AtRest
    BY DEF AtRest
  <2> QED
    BY <1>1, <2>1, <2>2, <2>3 DEF OwnJobs, AtRest
<1>3. CASE StaysIdle(w)
  BY <1>1, <1>3 DEF StaysIdle, OwnJobs, AtRest
<1>4. CASE KeepsJob(w)
  <2>1. /\ k \in Jobs /\ jobs'[k].status \notin {"absent", "queued"}
        /\ worker'[w].job = k /\ worker[w].pc \notin AtRest /\ worker'[w].pc \notin AtRest
        /\ worker'[w].pc = "accept" => jobs'[k].wamid = worker'[w].wamid
        /\ \A i \in Jobs \ {k} : jobs'[i] = jobs[i]
    BY <1>1, <1>4 DEF KeepsJob
  <2>2. \A v \in Workers \ {w} : worker[v].job # k
    BY <1>1, <2>1 DEF OwnJobs
  <2>3. \A v \in Workers \ {w} : worker[v].pc \notin AtRest => jobs'[worker[v].job] = jobs[worker[v].job]
    BY <1>1, <2>1, <2>2
  <2>4. "accept" \notin AtRest
    BY DEF AtRest
  <2> QED
    BY <1>1, <2>1, <2>2, <2>3, <2>4 DEF OwnJobs
<1>5. CASE PutsJobDown(w)
  BY <1>1, <1>5 DEF PutsJobDown, OwnJobs, AtRest
<1> QED
  BY <1>2, <1>3, <1>4, <1>5 DEF WorkerGoesOn

\* Rows that nobody claims do not come into processing, and workers keep what
\* they have, or forget it.
LEMMA NewOrphans ==
  ASSUME NEW k,
         \A j \in Jobs : jobs'[j].status = "processing" =>
           jobs[j].status = "processing" \/ \E w \in Workers : worker'[w].job = j,
         \A w \in Workers : worker'[w].job = worker[w].job \/ worker[w].job = k
  PROVE  /\ Orphans' \subseteq Orphans \cup {k}
         /\ k \notin Jobs \/ jobs'[k].status # "processing" \/ (\E w \in Workers : worker'[w].job = k) =>
              Orphans' \subseteq Orphans
BY DEF Orphans

\* The counts after a step that costs nothing, that a lost job was paid for,
\* or that costs a fault.
LEMMA LossesStayPaid ==
  ASSUME LossesArePaid, faults \in Nat, Budget \in Nat, Budget' \in Nat, NEW j, NEW w,
         \/ Orphans' \subseteq Orphans /\ AtRisk' \subseteq AtRisk /\ Budget' >= Budget
         \/ /\ Orphans' \subseteq Orphans \cup {j} /\ w \in AtRisk /\ AtRisk' \subseteq AtRisk \ {w}
            /\ Budget' >= Budget
         \/ /\ Orphans' \subseteq Orphans \cup {j} /\ AtRisk' \subseteq AtRisk
            /\ Budget' = Budget + 1
         \/ /\ Orphans' \subseteq Orphans /\ AtRisk' \subseteq AtRisk \cup {w}
            /\ Budget' = Budget + 1
  PROVE  LossesArePaid'
<1>1. /\ IsFiniteSet(Orphans) /\ IsFiniteSet(AtRisk)
      /\ Cardinality(Orphans) \in Nat /\ Cardinality(AtRisk) \in Nat
      /\ Cardinality(Orphans) + Cardinality(AtRisk) <= Budget
  BY SetsOfLosses DEF LossesArePaid
<1>2. ASSUME NEW S, IsFiniteSet(S), NEW x
      PROVE  /\ \A T : T \subseteq S => /\ IsFiniteSet(T) /\ Cardinality(T) \in Nat
                                        /\ Cardinality(T) <= Cardinality(S)
             /\ \A T : T \subseteq S \cup {x} => /\ IsFiniteSet(T) /\ Cardinality(T) \in Nat
                                                 /\ Cardinality(T) <= Cardinality(S) + 1
             /\ x \in S => \A T : T \subseteq S \ {x} => /\ Cardinality(T) \in Nat
                                                         /\ Cardinality(T) + 1 <= Cardinality(S)
  <2>1. /\ IsFiniteSet(S \cup {x}) /\ Cardinality(S \cup {x}) \in Nat /\ Cardinality(S) \in Nat
        /\ Cardinality(S \cup {x}) <= Cardinality(S) + 1
    <3>1. Cardinality(S) \in Nat
      BY <1>2, FS_CardinalityType
    <3>2. /\ IsFiniteSet(S \cup {x})
          /\ Cardinality(S \cup {x}) = Cardinality(S) \/ Cardinality(S \cup {x}) = Cardinality(S) + 1
      BY <1>2, FS_AddElement
    <3> QED
      BY <3>1, <3>2
  <2>2. x \in S => /\ IsFiniteSet(S \ {x}) /\ Cardinality(S \ {x}) \in Nat
                   /\ Cardinality(S \ {x}) = Cardinality(S) - 1
    BY <1>2, FS_RemoveElement, FS_CardinalityType
  <2>3. \A A, T : IsFiniteSet(A) /\ T \subseteq A =>
          /\ IsFiniteSet(T) /\ Cardinality(T) \in Nat /\ Cardinality(T) <= Cardinality(A)
    BY FS_Subset, FS_CardinalityType
  <2>4. \A T : T \subseteq S \cup {x} => /\ IsFiniteSet(T) /\ Cardinality(T) \in Nat
                                         /\ Cardinality(T) <= Cardinality(S) + 1
    <3> SUFFICES ASSUME NEW T, T \subseteq S \cup {x}
                 PROVE  /\ IsFiniteSet(T) /\ Cardinality(T) \in Nat
                        /\ Cardinality(T) <= Cardinality(S) + 1
      OBVIOUS
    <3>1. IsFiniteSet(T) /\ Cardinality(T) \in Nat /\ Cardinality(T) <= Cardinality(S \cup {x})
      BY <2>1, <2>3
    <3> QED
      BY <2>1, <3>1
  <2>5. ASSUME x \in S, NEW T, T \subseteq S \ {x}
        PROVE  Cardinality(T) \in Nat /\ Cardinality(T) + 1 <= Cardinality(S)
    <3>1. Cardinality(T) \in Nat /\ Cardinality(T) <= Cardinality(S \ {x})
      BY <2>2, <2>3, <2>5
    <3> QED
      BY <2>1, <2>2, <2>5, <3>1
  <2> QED
    BY <1>2, <2>3, <2>4, <2>5
<1>3. CASE Orphans' \subseteq Orphans /\ AtRisk' \subseteq AtRisk /\ Budget' >= Budget
  <2>1. /\ IsFiniteSet(Orphans') /\ Cardinality(Orphans') \in Nat /\ Cardinality(AtRisk') \in Nat
        /\ Cardinality(Orphans') <= Cardinality(Orphans) /\ Cardinality(AtRisk') <= Cardinality(AtRisk)
    BY <1>1, <1>2, <1>3
  <2> QED
    BY <1>1, <1>3, <2>1 DEF LossesArePaid
<1>4. CASE /\ Orphans' \subseteq Orphans \cup {j} /\ w \in AtRisk /\ AtRisk' \subseteq AtRisk \ {w}
           /\ Budget' >= Budget
  <2>1. /\ IsFiniteSet(Orphans') /\ Cardinality(Orphans') \in Nat /\ Cardinality(AtRisk') \in Nat
        /\ Cardinality(Orphans') <= Cardinality(Orphans) + 1
        /\ Cardinality(AtRisk') + 1 <= Cardinality(AtRisk)
    BY <1>1, <1>2, <1>4
  <2> QED
    BY <1>1, <1>4, <2>1 DEF LossesArePaid
<1>5. CASE /\ Orphans' \subseteq Orphans \cup {j} /\ AtRisk' \subseteq AtRisk
           /\ Budget' = Budget + 1
  <2>1. /\ IsFiniteSet(Orphans') /\ Cardinality(Orphans') \in Nat /\ Cardinality(AtRisk') \in Nat
        /\ Cardinality(Orphans') <= Cardinality(Orphans) + 1
        /\ Cardinality(AtRisk') <= Cardinality(AtRisk)
    BY <1>1, <1>2, <1>5
  <2> QED
    BY <1>1, <1>5, <2>1 DEF LossesArePaid
<1>6. CASE /\ Orphans' \subseteq Orphans /\ AtRisk' \subseteq AtRisk \cup {w}
           /\ Budget' = Budget + 1
  <2>1. /\ IsFiniteSet(Orphans') /\ Cardinality(Orphans') \in Nat /\ Cardinality(AtRisk') \in Nat
        /\ Cardinality(Orphans') <= Cardinality(Orphans)
        /\ Cardinality(AtRisk') <= Cardinality(AtRisk) + 1
    BY <1>1, <1>2, <1>6
  <2> QED
    BY <1>1, <1>6, <2>1 DEF LossesArePaid
<1> QED
  BY <1>3, <1>4, <1>5, <1>6

\* The budget is a number, grows with every fault, and by one for each worker
\* with every kill and shutdown.
LEMMA Products ==
  ASSUME NEW N \in Nat, NEW a \in Nat, NEW b \in Nat
  PROVE  /\ N * a \in Nat
         /\ b = a => N * b = N * a
         /\ b = a + 1 => N * b = N * a + N
<1>1. N * (a + 1) = N * a + N
  OBVIOUS
<1> QED
  BY <1>1

LEMMA Budgets ==
  ASSUME faults \in Nat, crashes \in Nat, shutdowns \in Nat,
         NEW f \in Nat, NEW c \in Nat, NEW d \in Nat,
         faults' = f, crashes' = c, shutdowns' = d
  PROVE  /\ Budget \in Nat /\ Budget' \in Nat
         /\ c + d = crashes + shutdowns => Budget' = Budget + f - faults
         /\ f = faults /\ c + d = crashes + shutdowns + 1 =>
              Budget' = Budget + Cardinality(Workers)
<1>1. PICK N \in Nat : N = Cardinality(Workers)
  BY SetsOfLosses
<1>2. PICK a \in Nat, b \in Nat : a = crashes + shutdowns /\ b = c + d
  OBVIOUS
<1>3. PICK p \in Nat, q \in Nat : p = N * a /\ q = N * b
  BY Products
<1>4. (b = a => q = p) /\ (b = a + 1 => q = p + N)
  BY <1>3, Products
<1>5. Budget = faults + p /\ Budget' = f + q
  BY <1>1, <1>2, <1>3 DEF Budget
<1> QED
  BY <1>1, <1>2, <1>4, <1>5

LEMMA WorkerPaysLosses ==
  ASSUME PoolInv, LossInv, NEW w \in Workers, WorkerGoesOn(w),
         crashes \in Nat, shutdowns \in Nat, UNCHANGED <<crashes, shutdowns>>
  PROVE  LossesArePaid'
<1> USE DEF LossInv
<1> DEFINE k == worker[w].job
<1>1. /\ ctx' = ctx /\ faults' \in {faults, faults + 1} /\ faults \in Nat
      /\ \A v \in Workers \ {w} : worker'[v] = worker[v]
      /\ \A v \in Workers : worker[v].pc \notin AtRest => worker[v].job \in Jobs
      /\ NoJob \notin Jobs
  BY NoJobAssumption DEF WorkerGoesOn, OwnJobs, PoolInv, EdgeTypeOK, PoolTypeOK, WorkerState
<1>2. /\ Budget \in Nat /\ Budget' \in Nat /\ Budget' >= Budget
      /\ faults' = faults + 1 => Budget' = Budget + 1
  <2>1. PICK f \in {faults, faults + 1} : faults' = f
    BY <1>1
  <2>2. Budget \in Nat /\ Budget' \in Nat /\ Budget' = Budget + f - faults
    BY <1>1, <2>1, Budgets
  <2> QED
    BY <1>1, <2>1, <2>2
\* What other workers have at stake does not change.
<1>3. ASSUME NEW v \in Workers \ {w}, v \in AtRisk'
      PROVE  v \in AtRisk
  <2>1. worker'[v] = worker[v]
    BY <1>1
  <2>2. CASE ctx = "cancelled"
    BY <1>1, <1>3, <2>1, <2>2 DEF AtRisk
  <2>3. CASE ctx # "cancelled"
    <3>1. worker[v].pc = "pause" /\ jobs'[worker[v].job].status = "processing"
      BY <1>1, <1>3, <2>1, <2>3 DEF AtRisk
    <3>2. /\ worker[v].job \in Jobs /\ worker[v].job # k
          /\ jobs[worker[v].job].status # "queued"
      BY <1>1, <3>1 DEF OwnJobs, AtRest
    <3>3. jobs'[worker[v].job] = jobs[worker[v].job]
      BY <3>2 DEF WorkerGoesOn, TakesJob, StaysIdle, KeepsJob, PutsJobDown
    <3> QED
      BY <2>3, <3>1, <3>3 DEF AtRisk
  <2> QED
    BY <2>2, <2>3
<1>4. AtRisk' \subseteq AtRisk \cup {w}
  BY <1>3 DEF AtRisk
<1>5. \A j \in Jobs : jobs'[j].status = "processing" =>
        jobs[j].status = "processing" \/ \E v \in Workers : worker'[v].job = j
  BY DEF WorkerGoesOn, TakesJob, StaysIdle, KeepsJob, PutsJobDown
<1>a. \A v \in Workers : worker'[v].job = worker[v].job \/ worker[v].job = k
  BY <1>1
<1>6. CASE TakesJob(w) \/ StaysIdle(w)
  <2>1. k \notin Jobs /\ (ctx = "live" \/ worker'[w].pc \in AtRest) /\ worker'[w].pc # "pause"
    BY <1>1, <1>6 DEF TakesJob, StaysIdle, OwnJobs, AtRest
  <2>2. Orphans' \subseteq Orphans
    BY <1>5, <1>a, <2>1, NewOrphans
  <2>3. w \notin AtRisk'
    BY <1>1, <2>1 DEF AtRisk
  <2> QED
    BY <1>1, <1>2, <1>4, <2>2, <2>3, LossesStayPaid
<1>7. CASE KeepsJob(w)
  <2>1. Orphans' \subseteq Orphans
    BY <1>5, <1>7, <1>a, NewOrphans DEF KeepsJob
  <2>2. w \in AtRisk' => w \in AtRisk \/ faults' = faults + 1
    BY <1>1, <1>7 DEF KeepsJob, AtRisk, PoolInv, PoolTypeOK
  <2> QED
    BY <1>1, <1>2, <1>4, <2>1, <2>2, LossesStayPaid
<1>8. CASE PutsJobDown(w)
  <2>1. w \notin AtRisk' /\ k \in Jobs
    BY <1>1, <1>8 DEF PutsJobDown, AtRisk, AtRest
  <2>2. AtRisk' \subseteq AtRisk \ {w}
    BY <1>4, <2>1
  <2>3. Orphans' \subseteq Orphans \cup {k}
    BY <1>5, <1>a, NewOrphans
  <2>4. CASE jobs'[k].status # "processing"
    <3>1. Orphans' \subseteq Orphans
      BY <1>5, <1>a, <2>4, NewOrphans
    <3> QED
      BY <1>1, <1>2, <2>2, <3>1, LossesStayPaid
  <2>5. CASE jobs[k].status = "processing" /\ (ctx = "cancelled" \/ worker[w].pc = "pause")
    <3>1. w \in AtRisk
      BY <1>8, <2>5 DEF PutsJobDown, AtRisk
    <3> QED
      BY <1>1, <1>2, <2>2, <2>3, <3>1, LossesStayPaid
  <2>6. CASE faults' = faults + 1
    BY <1>1, <1>2, <2>2, <2>3, <2>6, LossesStayPaid
  <2> QED
    BY <1>8, <2>4, <2>5, <2>6 DEF PutsJobDown
<1> QED
  BY <1>6, <1>7, <1>8 DEF WorkerGoesOn

\* Steps that leave workers and context alone, and take no row into processing
\* and no row out of a worker's hands.
LEMMA OthersKeepLosses ==
  ASSUME IInv, LossInv, UNCHANGED <<worker, ctx, crashes, shutdowns>>,
         faults' \in {faults, faults + 1},
         \A j \in Jobs :
           \/ jobs'[j] = jobs[j]
           \/ jobs[j].status = "absent" /\ jobs'[j].status = "queued"
           \/ /\ jobs'[j].wamid = jobs[j].wamid
              /\ jobs'[j].status \in Receipts
  PROVE  LossInv'
<1> USE DEF IInv, StopTypeOK, PoolInv, LossInv
<1>1. \A w \in Workers : worker[w].pc \notin AtRest => worker[w].job \in Jobs
  BY DEF OwnJobs, PoolTypeOK, WorkerState
<1>2. OwnJobs'
  <2>1. ASSUME NEW w \in Workers, worker[w].pc \notin AtRest
        PROVE  /\ jobs'[worker[w].job].status \notin {"absent", "queued"}
               /\ jobs'[worker[w].job].wamid = jobs[worker[w].job].wamid
    BY <1>1, <2>1 DEF OwnJobs, Receipts
  <2>2. "accept" \notin AtRest
    BY DEF AtRest
  <2> QED
    BY <2>1, <2>2 DEF OwnJobs
<1>3. \A j \in Jobs : jobs'[j].status = "processing" => jobs[j].status = "processing"
  BY DEF Receipts
<1>4. Orphans' \subseteq Orphans
  BY <1>3 DEF Orphans
<1>5. AtRisk' \subseteq AtRisk
  BY <1>1, <1>3 DEF AtRisk, AtRest
<1>6. Budget \in Nat /\ Budget' \in Nat /\ Budget' >= Budget
  <2>1. PICK f \in {faults, faults + 1} : faults' = f
    OBVIOUS
  <2>2. faults \in Nat
    BY DEF EdgeTypeOK
  <2>3. Budget \in Nat /\ Budget' \in Nat /\ Budget' = Budget + f - faults
    BY <2>1, <2>2, Budgets
  <2> QED
    BY <2>1, <2>2, <2>3
<1>7. LossesArePaid'
  BY <1>4, <1>5, <1>6, LossesStayPaid DEF EdgeTypeOK
<1> QED
  BY <1>2, <1>7

\* A stop of the process, or the end of its context, is charged with all that
\* its workers have in hand.
LEMMA StopsAreCharged ==
  ASSUME IInv, LossInv, UNCHANGED <<jobs, faults>>,
         \/ /\ UNCHANGED worker /\ ctx' = "cancelled"
            /\ crashes' = crashes /\ shutdowns' = shutdowns + 1
         \/ /\ worker' = [w \in Workers |-> Idle] /\ ctx' = "live"
            /\ shutdowns' = shutdowns
            /\ \/ crashes' = crashes + 1
               \/ crashes' = crashes /\ \A w \in Workers : worker[w].pc = "exited"
  PROVE  LossInv'
<1> USE DEF IInv, StopTypeOK, PoolInv, LossInv
<1> DEFINE N == Cardinality(Workers)
           R == Cardinality(AtRisk)
           O == Cardinality(Orphans)
<1>1. /\ faults \in Nat /\ crashes \in Nat /\ shutdowns \in Nat
      /\ N \in Nat /\ R \in Nat /\ O \in Nat /\ IsFiniteSet(Orphans) /\ O + R <= Budget
  BY SetsOfLosses DEF LossesArePaid, EdgeTypeOK
<1>2. CASE /\ UNCHANGED worker /\ ctx' = "cancelled"
           /\ crashes' = crashes /\ shutdowns' = shutdowns + 1
  <2>1. OwnJobs' /\ Orphans' = Orphans
    BY <1>2 DEF OwnJobs, Orphans
  <2>2. Budget \in Nat /\ Budget' \in Nat /\ Budget' = Budget + N
    BY <1>1, <1>2, Budgets
  <2>3. AtRisk' \in SUBSET Workers
    BY DEF AtRisk
  <2>4. Cardinality(AtRisk') \in Nat /\ Cardinality(AtRisk') <= N
    BY <2>3, SendingIsFinite
  <2>5. O + Cardinality(AtRisk') <= Budget'
    BY <1>1, <2>2, <2>4
  <2> QED
    BY <1>1, <2>1, <2>5 DEF LossesArePaid
<1>3. CASE worker' = [w \in Workers |-> Idle] /\ ctx' = "live" /\ shutdowns' = shutdowns
  <2>1. OwnJobs'
    BY <1>3 DEF OwnJobs, Idle, AtRest
  <2>2. AtRisk' = {}
    BY <1>3 DEF AtRisk, Idle
  <2>3. Cardinality(AtRisk') = 0
    BY <2>2, FS_EmptySet
  <2>4. CASE crashes' = crashes /\ \A w \in Workers : worker[w].pc = "exited"
    <3>1. Orphans' \subseteq Orphans
      BY <2>4, NoJobAssumption DEF Orphans, OwnJobs, AtRest
    <3>2. AtRisk' \subseteq AtRisk
      BY <2>2
    <3>3. Budget \in Nat /\ Budget' \in Nat /\ Budget' >= Budget
      BY <1>1, <1>3, <2>4, Budgets
    <3>4. LossesArePaid'
      BY <1>1, <3>1, <3>2, <3>3, LossesStayPaid
    <3> QED
      BY <2>1, <3>4
  <2>5. CASE crashes' = crashes + 1
    <3> DEFINE Dropped == {j \in Jobs : \E w \in Workers : worker[w].job = j}
               holders == {w \in Workers : worker[w].job \in Jobs}
               f == [w \in holders |-> worker[w].job]
    <3>1. IsFiniteSet(Dropped) /\ Cardinality(Dropped) \in Nat /\ Cardinality(Dropped) <= N
      <4>1. /\ holders \in SUBSET Workers /\ f \in [holders -> Dropped]
            /\ \A j \in Dropped : \E w \in holders : f[w] = j
        OBVIOUS
      <4>2. f \in Surjection(holders, Dropped)
        BY <4>1 DEF Surjection
      <4>3. IsFiniteSet(holders) /\ Cardinality(holders) \in Nat /\ Cardinality(holders) <= N
        BY <4>1, SendingIsFinite
      <4>4. IsFiniteSet(Dropped) /\ Cardinality(Dropped) <= Cardinality(holders)
        BY <4>2, <4>3, FS_Surjection
      <4> HIDE DEF Dropped, holders, f
      <4>5. Cardinality(Dropped) \in Nat
        BY <4>4, FS_CardinalityType
      <4> QED
        BY <1>1, <4>3, <4>4, <4>5
    <3>2. Orphans' \subseteq Orphans \cup Dropped
      BY DEF Orphans
    <3> HIDE DEF Dropped
    <3>3. /\ IsFiniteSet(Orphans \cup Dropped) /\ Cardinality(Orphans \cup Dropped) \in Nat
          /\ Cardinality(Orphans \cup Dropped) <= O + Cardinality(Dropped)
      <4>1. /\ IsFiniteSet(Orphans \cup Dropped) /\ IsFiniteSet(Orphans \cap Dropped)
            /\ Cardinality(Orphans \cup Dropped) =
                 Cardinality(Orphans) + Cardinality(Dropped) - Cardinality(Orphans \cap Dropped)
        BY <1>1, <3>1, FS_Union, FS_Intersection
      <4>2. Cardinality(Orphans \cup Dropped) \in Nat /\ Cardinality(Orphans \cap Dropped) \in Nat
        BY <4>1, FS_CardinalityType
      <4> QED
        BY <1>1, <3>1, <4>1, <4>2
    <3>4. /\ IsFiniteSet(Orphans') /\ Cardinality(Orphans') \in Nat
          /\ Cardinality(Orphans') <= Cardinality(Orphans \cup Dropped)
      BY <3>2, <3>3, FS_Subset, FS_CardinalityType
    <3>5. Budget \in Nat /\ Budget' \in Nat /\ Budget' = Budget + N
      BY <1>1, <1>3, <2>5, Budgets
    <3>6. Cardinality(Orphans') + Cardinality(AtRisk') <= Budget'
      BY <1>1, <2>3, <3>1, <3>3, <3>4, <3>5
    <3> QED
      BY <2>1, <3>4, <3>6 DEF LossesArePaid
  <2> QED
    BY <1>3, <2>4, <2>5
<1> QED
  BY <1>2, <1>3

LEMMA InitLosses == Init => LossInv
<1> SUFFICES ASSUME Init PROVE LossInv
  OBVIOUS
<1>1. \A w \in Workers : worker[w] = Idle
  BY DEF Init, PoolInit
<1>2. ctx = "live" /\ \A j \in Jobs : jobs[j].status = "absent"
  BY DEF Init, EdgeInit, PoolInit, EmptyTable
<1>3. Orphans = {} /\ AtRisk = {}
  BY <1>1, <1>2 DEF Orphans, AtRisk, Idle
<1>4. IsFiniteSet(Orphans) /\ Cardinality(Orphans) = 0 /\ Cardinality(AtRisk) = 0
  BY <1>3, FS_EmptySet
<1>5. Budget = 0
  <2>1. faults = 0 /\ crashes = 0 /\ shutdowns = 0
    BY DEF Init, EdgeInit
  <2>2. PICK N \in Nat : N = Cardinality(Workers)
    BY SetsOfLosses
  <2> QED
    BY <2>1, <2>2 DEF Budget
<1>6. OwnJobs
  BY <1>1 DEF OwnJobs, Idle, AtRest
<1> QED
  BY <1>4, <1>5, <1>6 DEF LossInv, LossesArePaid

LEMMA LossesKept == IInv /\ LossInv /\ [Next]_vars => LossInv'
<1> SUFFICES ASSUME IInv, LossInv, [Next]_vars PROVE LossInv'
  OBVIOUS
<1>1. ASSUME PoolStep, NEW w \in Workers, WorkerStep(w)
      PROVE  LossInv'
  <2>1. PoolInv /\ OwnJobs /\ crashes \in Nat /\ shutdowns \in Nat /\ UNCHANGED <<crashes, shutdowns>>
    BY <1>1 DEF IInv, StopTypeOK, LossInv, PoolStep, processVars, stopVars
  <2> QED
    BY <1>1, <2>1, WorkerSteps, WorkerKeepsOwnJobs, WorkerPaysLosses DEF LossInv
<1>2. ASSUME PoolStep, Surroundings
      PROVE  LossInv'
  <2>1. UNCHANGED <<worker, ctx, crashes, shutdowns, faults>>
    BY <1>2 DEF PoolStep, Surroundings, Submit, BecomesDue, ControlPlane, processVars, stopVars, poolVars, edgeVars
  <2>2. \A j \in Jobs : \/ jobs'[j] = jobs[j]
                        \/ jobs[j].status = "absent" /\ jobs'[j].status = "queued"
    <3>1. ASSUME NEW k \in Jobs, Submit(k)
          PROVE  \A j \in Jobs : \/ jobs'[j] = jobs[j]
                                 \/ jobs[j].status = "absent" /\ jobs'[j].status = "queued"
      <4>1. jobs' = UpdateJobStatus(jobs, k, "queued", 0) /\ jobs[k].status = "absent"
        BY <3>1 DEF Submit, InsertJob
      <4>2. jobs \in [Jobs -> Row] /\ "queued" \in Statuses
        BY DEF IInv, PoolInv, EdgeTypeOK, Statuses
      <4> QED
        BY <4>1, <4>2, StatusWritten
    <3>2. (\E j \in Jobs : BecomesDue(j)) \/ (\E t \in Tenants, b \in BOOLEAN : ControlPlane(t, b))
            => UNCHANGED jobs
      BY DEF BecomesDue, ControlPlane, edgeVars
    <3> QED
      BY <1>2, <3>1, <3>2 DEF Surroundings
  <2> QED
    BY <2>1, <2>2, OthersKeepLosses
<1>3. CASE HookStep
  <2>1. UNCHANGED <<worker, ctx, crashes, shutdowns>>
    BY <1>3 DEF HookStep, poolVars, processVars, stopVars
  <2>2. faults' \in {faults, faults + 1}
    BY <1>3 DEF HookStep, HookNext, MetaReports, PostV1MetaWebhook, ApplyReceipt, RecordEvent,
                Fault, edgeVars
  <2>3. \A j \in Jobs : \/ jobs'[j] = jobs[j]
                        \/ jobs'[j].wamid = jobs[j].wamid /\ jobs'[j].status \in Receipts
    BY <1>3, HookStepTable DEF HookStep
  <2> QED
    BY <2>1, <2>2, <2>3, OthersKeepLosses
<1>4. CASE Boot \/ JanitorStep \/ BackgroundStep \/ UNCHANGED vars
  <2>1. UNCHANGED <<jobs, faults, worker, ctx, crashes, shutdowns>>
    BY <1>4, OthersChangeNothing DEF Boot, mainVars, edgeVars, poolVars, stopVars
  <2> QED
    BY <2>1, OthersKeepLosses
<1>5. CASE Shutdown
  <2>1. /\ UNCHANGED <<jobs, faults, worker, crashes>> /\ ctx' = "cancelled"
        /\ shutdowns' = shutdowns + 1
    BY <1>5 DEF Shutdown, Cancel, edgeVars
  <2> QED
    BY <2>1, StopsAreCharged
<1>6. CASE Stop \/ Crash
  <2>1. /\ UNCHANGED <<jobs, faults>> /\ ctx' = "live" /\ worker' = [w \in Workers |-> Idle]
        /\ shutdowns' = shutdowns
        /\ \/ crashes' = crashes + 1
           \/ crashes' = crashes /\ \A w \in Workers : worker[w].pc = "exited"
    BY <1>6 DEF Stop, Crash, Halt, edgeVars
  <2> QED
    BY <2>1, StopsAreCharged
<1> QED
  BY <1>1, <1>2, <1>3, <1>4, <1>5, <1>6 DEF Next, PoolStep, PoolNext

----------------------------------------------------------------------------
(* The theorems.                                                           *)

\* The inductive invariant of the engine holds whatever workers, receipts,
\* shutdowns, kills and restarts do.
THEOREM IInvHolds == Spec => []IInv
BY InitIInv, IInvKept, PTL DEF Spec

\* The tables, the workers and the webhook handler keep the shape of their
\* state through crashes and restarts.
THEOREM TypeCorrect == Spec => []TypeOK
<1>1. IInv => TypeOK
  BY DEF IInv, PoolInv, StopTypeOK, TypeOK
<1> QED
  BY <1>1, IInvHolds, PTL

\* ClaimNextJob gives a job to one worker at a time, also when the job was
\* requeued, or the process was killed and started again, in between.
THEOREM ClaimStaysExclusive == Spec => []ExclusiveClaim
<1>1. IInv => ExclusiveClaim
  BY DEF IInv, PoolInv, SafeInv
<1> QED
  BY <1>1, IInvHolds, PTL

\* While a tenant stays paused Meta accepts at most one message per worker for
\* it: ClaimNextJob asks is_paused, and a pause survives nothing but a sync.
THEOREM PauseStaysContained == Spec => []PauseContained
<1>1. IInv /\ LateStays => PauseContained
  <2> SUFFICES ASSUME IInv, NEW t \in Tenants, LateInv(t)
               PROVE  lateSends[t] <= Cardinality(Workers)
    BY DEF LateStays, PauseContained
  <2>1. Sending(t) \in SUBSET Workers
    BY DEF Sending
  <2>2. lateSends[t] \in Nat /\ Cardinality(Sending(t)) \in Nat /\ Cardinality(Workers) \in Nat
    BY <2>1, SendingIsFinite DEF IInv, PoolInv, PoolTypeOK
  <2> QED
    BY <2>2 DEF LateInv
<1> QED
  BY <1>1, InitLate, LateKept, IInvHolds, PTL DEF Spec

\* SetJobMetaID never stores another job's message identity.
THEOREM BindingIsOwn == Spec => []BoundToOwnMessage
<1>1. IInv => BoundToOwnMessage
  BY DEF IInv, PoolInv, SafeInv, BoundToOwn, BoundToOwnMessage
<1> QED
  BY <1>1, IInvHolds, PTL

\* The id of a message is stored with one job only: SetJobMetaID does not look
\* at the other rows, but a worker stores the id of the answer to its own
\* request, and Meta gives every message an id of its own.
THEOREM OneRowPerWamidHolds == Spec => []OneRowPerWamid
<1>1. IInv => OneRowPerWamid
  BY DEF IInv, PoolInv, SafeInv, BoundToOwn, OneRowPerWamid, Unbound
<1> QED
  BY <1>1, IInvHolds, PTL

\* A status that only a receipt gives is one Meta reported for this job's message.
THEOREM StatusComesFromMeta == Spec => []StatusIsReported
<1>1. IInv => StatusIsReported
  BY DEF IInv
<1> QED
  BY <1>1, IInvHolds, PTL

\* An event that is recorded as matched is visible in the row of its job.
THEOREM MatchedEventsShow == Spec => []MatchedEventReflected
<1>1. IInv => MatchedEventReflected
  BY DEF IInv
<1> QED
  BY <1>1, IInvHolds, PTL

\* A receipt that was answered with 200 for a message whose id is stored takes
\* effect and is recorded, unless the process ends or its own statements fail.
THEOREM AnsweredReceiptsStay == Spec => []AnsweredReceiptIsKept
<1>1. IInv => AnsweredReceiptIsKept
  BY DEF IInv
<1> QED
  BY <1>1, IInvHolds, PTL

\* Meta accepts a message only from a worker that holds its job, and a held
\* job has no identity yet: a job whose identity is stored is not sent again.
THEOREM NeverResentAfterBind == Spec => NoResendAfterBind
<1> DEFINE NoResend == \A j \in Jobs : ~Unbound(j) =>
                         \A m \in Wamids : sent'[m] = j => sent[m] = j
<1>1. IInv /\ [Next]_vars => [NoResend]_vars
  <2> SUFFICES ASSUME IInv, Next, NEW j \in Jobs, ~Unbound(j), NEW m \in Wamids, sent'[m] = j
               PROVE  sent[m] = j
    OBVIOUS
  <2> USE DEF IInv, PoolInv
  <2>1. ASSUME NEW w \in Workers, MetaAccepts(w)
        PROVE  sent[m] = j
    <3>1. worker[w].job # j
      BY <2>1 DEF MetaAccepts, SafeInv, Held, Holding
    <3>2. PICK n \in Wamids : sent' = [sent EXCEPT ![n] = worker[w].job]
      BY <2>1 DEF MetaAccepts
    <3> QED
      BY <3>1, <3>2 DEF EdgeTypeOK
  <2>2. ASSUME NEW w \in Workers, WorkerStep(w)
        PROVE  sent[m] = j
    BY <2>1, <2>2
    DEF WorkerStep, Claim, Proceed, PutBack, TenantGone, MetaRefuses, SendFails, ReceiveWamid,
        LoseAnswer, Requeue, Fail, PauseTenant, Bind, Fallback, Accept, Recover, Exit, edgeVars
  <2>3. CASE PoolStep \/ Shutdown
    BY <2>2, <2>3 DEF PoolStep, Shutdown, PoolNext, Surroundings, Submit, BecomesDue,
                      ControlPlane, Cancel, edgeVars
  <2>4. CASE HookStep
    BY <2>4, HookStepTable DEF HookStep
  <2>5. CASE Stop \/ Crash \/ Boot
    BY <2>5 DEF Stop, Crash, Boot, Halt, edgeVars
  <2>6. CASE JanitorStep \/ BackgroundStep
    BY <2>6, OthersChangeNothing DEF mainVars, edgeVars
  <2> QED
    BY <2>3, <2>4, <2>5, <2>6 DEF Next
<1> QED
  BY <1>1, IInvHolds, PTL DEF Spec, NoResendAfterBind

\* A job stays behind in processing only by a statement that failed, or with
\* the workers of a process that was shut down or killed, one for each worker.
THEOREM LossesAreAccountedFor == Spec => []OrphansAreBounded
<1>1. IInv /\ LossInv => OrphansAreBounded
  <2> SUFFICES ASSUME IInv, LossInv PROVE OrphansAreBounded
    OBVIOUS
  <2>1. /\ Cardinality(Orphans) \in Nat /\ Cardinality(AtRisk) \in Nat
        /\ Cardinality(Orphans) + Cardinality(AtRisk) <= Budget
    BY SetsOfLosses DEF LossInv, LossesArePaid
  <2>2. Budget \in Nat
    <3>1. faults \in Nat /\ crashes \in Nat /\ shutdowns \in Nat /\ Cardinality(Workers) \in Nat
      BY SetsOfLosses DEF IInv, StopTypeOK, PoolInv, EdgeTypeOK
    <3>2. PICK a \in Nat : a = crashes + shutdowns
      BY <3>1
    <3>3. Cardinality(Workers) * a \in Nat
      BY <3>1, Products
    <3> QED
      BY <3>1, <3>2, <3>3 DEF Budget
  <2>3. Cardinality(Orphans) <= Budget
    BY <2>1, <2>2
  <2> QED
    BY <2>3 DEF OrphansAreBounded, Budget
<1> QED
  BY <1>1, InitLosses, LossesKept, IInvHolds, PTL DEF Spec

\* The engine implements the life cycle of a row.
THEOREM EngineImplementsLifecycle == Spec => ImplementsLifecycle
<1>1. Init => Lifecycle!Init
  BY DEF Init, EdgeInit, EmptyTable, Lifecycle!Init, Lifecycle!EmptyTable
<1>2. IInv /\ [Next]_vars => [Lifecycle!Next]_jobs
  BY StepIsLifecycleStep
<1> QED
  BY <1>1, <1>2, IInvHolds, PTL DEF Spec, ImplementsLifecycle, Lifecycle!Spec

\* The jobs table with its workers is a queue: a job is in the hands of one
\* worker, which alone puts it back or ends it, and what is ended stays so.
THEOREM EngineImplementsQueue == Spec => ImplementsQueue
<1>1. Init => Queue!Init
  <2> SUFFICES ASSUME Init PROVE Queue!Init
    OBVIOUS
  <2>1. \A j \in Jobs : jobs[j].status = "absent"
    BY DEF Init, EdgeInit, EmptyTable
  <2>2. \A w \in Workers : worker[w].pc \notin Holding
    BY DEF Init, PoolInit, Idle, Holding
  <2> QED
    BY <2>1, <2>2 DEF Queue!Init, QueueState, QueueHolders
<1>2. IInv /\ [Next]_vars => [Queue!Next]_(Queue!vars)
  BY StepIsQueueStep DEF Queue!vars
<1> QED
  BY <1>1, <1>2, IInvHolds, PTL DEF Spec, ImplementsQueue, Queue!Spec

\* What JobLifecycle promises of a row holds in the engine: the level of an
\* accepted job does not fall, a binding is permanent, a failure recorded by a
\* worker is final.
THEOREM EngineRowPromises ==
  Spec => LP!NeverRegresses /\ LP!BindingIsPermanent /\ LP!FailureIsFinal
<1>1. Spec => LP!Spec
  BY EngineImplementsLifecycle, SameSpec DEF ImplementsLifecycle
<1>2. LP!Spec => LP!NeverRegresses
  BY LP!LevelsNeverRegress, NoWamidAssumption
<1>3. LP!Spec => LP!BindingIsPermanent
  BY LP!BindingsArePermanent, NoWamidAssumption
<1>4. LP!Spec => LP!FailureIsFinal
  BY LP!FailuresAreFinal, NoWamidAssumption
<1> QED
  BY <1>1, <1>2, <1>3, <1>4

=============================================================================
