------------------------- MODULE JobLifecycleProofs -------------------------
(***************************************************************************)
(* Proofs about JobLifecycle, for every set of jobs and of identities.     *)
(* The properties of a step follow from what a status says of the rest of  *)
(* its row (RowShape): a job that can still be claimed, requeued or failed *)
(* has a level below 2, and one in the queue has no identity.              *)
(***************************************************************************)
EXTENDS JobLifecycle, TLAPS

RowShape ==
  \A j \in Jobs :
    /\ jobs[j].status \in {"absent", "queued"} => jobs[j].level = 0 /\ Unbound(j)
    /\ jobs[j].status = "processing" => jobs[j].level = 1

IInv == TypeOK /\ RowShape

----------------------------------------------------------------------------
(* The step of one row.                                                    *)

Becomes(j, s, l) == jobs' = [jobs EXCEPT ![j].status = s, ![j].level = l]

\* Next, with the statements expanded and the actions grouped by what they
\* need of the row.
RowStep(j) ==
  \/ jobs[j].status = "absent" /\ Becomes(j, "queued", 0)
  \/ jobs[j].status = "queued" /\ Becomes(j, "processing", 1)
  \/ /\ jobs[j].status = "processing" /\ Unbound(j)
     /\ \/ Becomes(j, "queued", 0) \/ Becomes(j, "failed", 6) \/ Becomes(j, "accepted", 2)
        \/ \E m \in Wamids : jobs' = [jobs EXCEPT ![j].wamid = m]
  \/ /\ ~Unbound(j)
     /\ \E s \in {"accepted"} \cup Receipts, l \in 2..5 : jobs[j].level < l /\ Becomes(j, s, l)

\* The level of every receipt is above that of "accepted" and below that of a
\* failure recorded by a worker.
LEMMA ReceiptLevels ==
  ASSUME NEW s \in Receipts
  PROVE  statusLevels[s] \in 3..5
BY DEF Receipts, statusLevels

LEMMA NextIsRowStep == Next => \E j \in Jobs : RowStep(j)
<1> SUFFICES ASSUME NEW j \in Jobs,
                    \/ Submit(j) \/ Claim(j) \/ Requeue(j) \/ Fail(j) \/ AcceptUnbound(j)
                    \/ \E m \in Wamids : Bind(j, m)
                    \/ Advance(j, "accepted", 2)
                    \/ \E s \in Receipts : Advance(j, s, statusLevels[s])
             PROVE  RowStep(j)
  BY DEF Next
<1>1. CASE Submit(j)
  BY <1>1 DEF RowStep, Becomes, Submit, InsertJob, UpdateJobStatus
<1>2. CASE Claim(j)
  BY <1>2 DEF RowStep, Becomes, Claim, ClaimNextJob, UpdateJobStatus
<1>3. CASE Requeue(j)
  BY <1>3 DEF RowStep, Becomes, Requeue, RequeueWithJitter, UpdateJobStatus
<1>4. CASE Fail(j)
  BY <1>4 DEF RowStep, Becomes, Fail, MarkJobFailed, UpdateJobStatus
<1>5. CASE AcceptUnbound(j)
  BY <1>5 DEF RowStep, Becomes, AcceptUnbound, UpdateJobStatus
<1>6. CASE \E m \in Wamids : Bind(j, m)
  BY <1>6 DEF RowStep, Bind, SetJobMetaID
<1>7. CASE Advance(j, "accepted", 2)
  <2>1. Becomes(j, "accepted", 2) /\ ~Unbound(j) /\ jobs[j].level < 2
    BY <1>7 DEF Becomes, Advance, UpdateJobStatus
  <2>2. 2 \in 2..5
    OBVIOUS
  <2> QED
    BY <2>1, <2>2 DEF RowStep
<1>8. CASE \E s \in Receipts : Advance(j, s, statusLevels[s])
  <2>1. PICK s \in Receipts : Advance(j, s, statusLevels[s])
    BY <1>8
  <2>2. statusLevels[s] \in 2..5
    BY ReceiptLevels
  <2> QED
    BY <2>1, <2>2 DEF RowStep, Becomes, Advance, UpdateJobStatus
<1> QED
  BY <1>1, <1>2, <1>3, <1>4, <1>5, <1>6, <1>7, <1>8

----------------------------------------------------------------------------
(* What a step does to the rows.                                           *)

LEMMA BecomesRow ==
  ASSUME TypeOK, NEW j \in Jobs, NEW s \in Statuses, NEW l \in 0..6, Becomes(j, s, l)
  PROVE  /\ TypeOK'
         /\ jobs'[j].status = s /\ jobs'[j].level = l /\ jobs'[j].wamid = jobs[j].wamid
         /\ \A k \in Jobs \ {j} : jobs'[k] = jobs[k]
BY DEF TypeOK, Becomes, Row

LEMMA BindRow ==
  ASSUME TypeOK, NEW j \in Jobs, NEW m \in Wamids, jobs' = [jobs EXCEPT ![j].wamid = m]
  PROVE  /\ TypeOK'
         /\ jobs'[j].wamid = m
         /\ jobs'[j].status = jobs[j].status /\ jobs'[j].level = jobs[j].level
         /\ \A k \in Jobs \ {j} : jobs'[k] = jobs[k]
BY DEF TypeOK, Row

\* The rows after a step, without EXCEPT: row j moves as RowStep says and the
\* others stay.
Moves(j) ==
  LET old == jobs[j]
      new == jobs'[j]
  IN  \/ old.status = "absent" /\ new.status = "queued" /\ new.level = 0 /\ new.wamid = old.wamid
      \/ old.status = "queued" /\ new.status = "processing" /\ new.level = 1 /\ new.wamid = old.wamid
      \/ /\ old.status = "processing" /\ old.wamid = NoWamid
         /\ \/ /\ new.wamid = NoWamid
               /\ \/ new.status = "queued" /\ new.level = 0
                  \/ new.status = "failed" /\ new.level = 6
                  \/ new.status = "accepted" /\ new.level = 2
            \/ new.status = old.status /\ new.level = old.level
      \/ /\ old.wamid # NoWamid /\ new.wamid = old.wamid
         /\ new.status \in {"accepted"} \cup Receipts
         /\ new.level \in 2..5 /\ old.level < new.level

LEMMA StepMovesOneRow ==
  ASSUME TypeOK, Next
  PROVE  TypeOK' /\ \E j \in Jobs : Moves(j) /\ \A k \in Jobs \ {j} : jobs'[k] = jobs[k]
<1>1. PICK j \in Jobs : RowStep(j)
  BY NextIsRowStep
<1>2. {"queued", "processing", "failed", "accepted"} \cup Receipts \subseteq Statuses
  BY DEF Statuses, Receipts
<1>3. CASE jobs[j].status = "absent" /\ Becomes(j, "queued", 0)
  BY <1>2, <1>3, BecomesRow DEF Moves
<1>4. CASE jobs[j].status = "queued" /\ Becomes(j, "processing", 1)
  BY <1>2, <1>4, BecomesRow DEF Moves
<1>5. CASE /\ jobs[j].status = "processing" /\ Unbound(j)
           /\ Becomes(j, "queued", 0) \/ Becomes(j, "failed", 6) \/ Becomes(j, "accepted", 2)
  <2>1. CASE Becomes(j, "queued", 0)
    BY <1>2, <1>5, <2>1, BecomesRow DEF Moves, Unbound
  <2>2. CASE Becomes(j, "failed", 6)
    BY <1>2, <1>5, <2>2, BecomesRow DEF Moves, Unbound
  <2>3. CASE Becomes(j, "accepted", 2)
    BY <1>2, <1>5, <2>3, BecomesRow DEF Moves, Unbound
  <2> QED
    BY <1>5, <2>1, <2>2, <2>3
<1>6. CASE /\ jobs[j].status = "processing" /\ Unbound(j)
           /\ \E m \in Wamids : jobs' = [jobs EXCEPT ![j].wamid = m]
  <2>1. PICK m \in Wamids : jobs' = [jobs EXCEPT ![j].wamid = m]
    BY <1>6
  <2>2. /\ TypeOK' /\ jobs'[j].wamid = m
        /\ jobs'[j].status = jobs[j].status /\ jobs'[j].level = jobs[j].level
        /\ \A k \in Jobs \ {j} : jobs'[k] = jobs[k]
    BY <2>1, BindRow
  <2> QED
    BY <1>6, <2>1, <2>2 DEF Moves, Unbound
<1>7. CASE /\ ~Unbound(j)
           /\ \E s \in {"accepted"} \cup Receipts, l \in 2..5 : jobs[j].level < l /\ Becomes(j, s, l)
  <2>1. PICK s \in {"accepted"} \cup Receipts, l \in 2..5 : jobs[j].level < l /\ Becomes(j, s, l)
    BY <1>7
  <2>2. s \in Statuses /\ l \in 0..6
    BY <1>2
  <2> QED
    BY <1>7, <2>1, <2>2, BecomesRow DEF Moves, Unbound
<1> QED
  BY <1>1, <1>3, <1>4, <1>5, <1>6, <1>7 DEF RowStep

----------------------------------------------------------------------------
(* The invariant.                                                          *)

LEMMA InitEstablishesIInv == Init => IInv
<1> SUFFICES ASSUME Init PROVE IInv
  OBVIOUS
<1>1. \A j \in Jobs : jobs[j] = [status |-> "absent", level |-> 0, wamid |-> NoWamid]
  BY DEF Init, EmptyTable
<1>2. TypeOK
  BY DEF Init, EmptyTable, TypeOK, Row, Statuses
<1> QED
  BY <1>1, <1>2 DEF IInv, RowShape, Unbound

LEMMA StepPreservesIInv == IInv /\ [Next]_jobs => IInv'
<1> SUFFICES ASSUME IInv, [Next]_jobs PROVE IInv'
  OBVIOUS
<1>1. CASE UNCHANGED jobs
  BY <1>1 DEF IInv, TypeOK, RowShape, Unbound
<1>2. CASE Next
  <2>1. TypeOK'
    BY <1>2, StepMovesOneRow DEF IInv
  <2>2. PICK j \in Jobs : Moves(j) /\ \A k \in Jobs \ {j} : jobs'[k] = jobs[k]
    BY <1>2, StepMovesOneRow DEF IInv
  <2>3. RowShape'
    BY <2>2 DEF IInv, RowShape, Unbound, Moves, Receipts
  <2> QED
    BY <2>1, <2>3 DEF IInv
<1> QED
  BY <1>1, <1>2

THEOREM IInvHolds == Spec => []IInv
BY InitEstablishesIInv, StepPreservesIInv, PTL DEF Spec

\* Every row keeps the shape of a row of table jobs.
THEOREM TypeCorrect == Spec => []TypeOK
<1>1. IInv => TypeOK
  BY DEF IInv
<1> QED
  BY <1>1, IInvHolds, PTL

----------------------------------------------------------------------------
(* The properties of a step.                                               *)

LEMMA LevelsRise ==
  ASSUME IInv, Next
  PROVE  \A j \in Jobs : jobs[j].level >= 2 => jobs'[j].level >= jobs[j].level
<1>1. PICK j \in Jobs : Moves(j) /\ \A k \in Jobs \ {j} : jobs'[k] = jobs[k]
  BY StepMovesOneRow DEF IInv
<1>2. \A k \in Jobs : jobs[k].level \in 0..6 /\ jobs'[k].level \in 0..6
  BY StepMovesOneRow DEF IInv, TypeOK, Row
<1> QED
  BY <1>1, <1>2 DEF IInv, RowShape, Moves

\* From "accepted" on, no step of any component lowers the level of a job.
THEOREM LevelsNeverRegress == Spec => NeverRegresses
<1> DEFINE Rises == \A j \in Jobs : jobs[j].level >= 2 => jobs'[j].level >= jobs[j].level
<1>1. IInv /\ [Next]_jobs => [Rises]_jobs
  BY LevelsRise
<1> QED
  BY <1>1, IInvHolds, PTL DEF Spec, NeverRegresses

\* A stored identity is never replaced, and its job never goes back to the
\* queue from where it would be sent again.
THEOREM BindingsArePermanent == Spec => BindingIsPermanent
<1> DEFINE Stays == \A j \in Jobs : ~Unbound(j) => /\ jobs'[j].wamid = jobs[j].wamid
                                                   /\ jobs'[j].status # "queued"
<1>1. IInv /\ [Next]_jobs => [Stays]_jobs
  <2> SUFFICES ASSUME IInv, Next PROVE Stays
    OBVIOUS
  <2>1. PICK j \in Jobs : Moves(j) /\ \A k \in Jobs \ {j} : jobs'[k] = jobs[k]
    BY StepMovesOneRow DEF IInv
  <2> QED
    BY <2>1 DEF IInv, RowShape, Unbound, Moves, Receipts
<1> QED
  BY <1>1, IInvHolds, PTL DEF Spec, BindingIsPermanent

\* A job that a worker has failed keeps its row.
THEOREM FailuresAreFinal == Spec => FailureIsFinal
<1> DEFINE Final == \A j \in Jobs : jobs[j].level = 6 => jobs'[j] = jobs[j]
<1>1. IInv /\ [Next]_jobs => [Final]_jobs
  <2> SUFFICES ASSUME IInv, Next PROVE Final
    OBVIOUS
  <2>1. PICK j \in Jobs : Moves(j) /\ \A k \in Jobs \ {j} : jobs'[k] = jobs[k]
    BY StepMovesOneRow DEF IInv
  <2> QED
    BY <2>1 DEF IInv, RowShape, Moves
<1> QED
  BY <1>1, IInvHolds, PTL DEF Spec, FailureIsFinal

=============================================================================
