------------------------- MODULE WebhookQueueProofs -------------------------
(***************************************************************************)
(* Proofs about WebhookQueue: it implements WorkQueue, retries are         *)
(* bounded, and what is marked as completed was delivered, for any number  *)
(* of events and workers, failing statements and restarts.                 *)
(***************************************************************************)
EXTENDS WebhookQueue, TLAPS

\* What a worker has in hand is claimed, and its copy of the retry counter is
\* the counter of the row.
Held ==
  \A w \in Workers :
    IF worker[w].pc = "poll"
    THEN worker[w] = Idle
    ELSE /\ worker[w].event \in Events
         /\ queue[worker[w].event].status = "processing"
         /\ queue[worker[w].event].retries = worker[w].retries

OneHolder ==
  \A v, w \in Workers :
    v # w /\ worker[v].event = worker[w].event => worker[v].event = NoEvent

\* The counter of a row counts its attempts but the one that is under way or
\* was not recorded.
Counted ==
  /\ \A e \in Events :
       /\ attempts[e] <= queue[e].retries + 1
       /\ queue[e].status \in {"absent", "queued"} => attempts[e] <= queue[e].retries
  /\ \A w \in Workers :
       worker[w].pc = "post" => attempts[worker[w].event] <= worker[w].retries

\* A worker that has heard of a success, or may hear of one, is right.
Truthful ==
  \A w \in Workers :
    worker[w].pc = "answer" \/ (worker[w].pc = "success" /\ worker[w].event \notin Unaddressed)
      => delivered[worker[w].event] > 0

IInv == TypeOK /\ Held /\ OneHolder /\ Counted /\ Truthful /\ CompletedIsDelivered

----------------------------------------------------------------------------
LEMMA InitIInv == Init => IInv
<1> SUFFICES ASSUME Init PROVE IInv
  OBVIOUS
<1> USE DEF Init, Idle
<1>1. TypeOK
  BY BoundsAssumption DEF TypeOK, Places
<1>2. Held /\ OneHolder /\ Truthful /\ CompletedIsDelivered
  BY DEF Held, OneHolder, Truthful, CompletedIsDelivered
<1>3. Counted
  BY DEF Counted
<1> QED
  BY <1>1, <1>2, <1>3 DEF IInv

\* A worker that goes on has its row and its copy as before.
LEMMA GoneOn ==
  ASSUME TypeOK, NEW w \in Workers, NEW pc \in Places, Goto(w, pc)
  PROVE  /\ worker' \in [Workers -> [pc : Places, event : Events \cup {NoEvent}, retries : 0..MaxRetries]]
         /\ worker'[w].pc = pc
         /\ worker'[w].event = worker[w].event
         /\ worker'[w].retries = worker[w].retries
         /\ \A v \in Workers \ {w} : worker'[v] = worker[v]
BY DEF TypeOK, Goto

LEMMA PutDown ==
  ASSUME TypeOK, NEW w \in Workers, NextIteration(w)
  PROVE  /\ worker' \in [Workers -> [pc : Places, event : Events \cup {NoEvent}, retries : 0..MaxRetries]]
         /\ worker'[w] = Idle
         /\ \A v \in Workers \ {w} : worker'[v] = worker[v]
BY BoundsAssumption DEF TypeOK, NextIteration, Idle, Places

\* A claim by a worker, with or without the row getting to it.
LEMMA Claimed ==
  ASSUME TypeOK, NEW w \in Workers, NEW e \in Events, worker[w].pc = "poll", Hold(w, e)
  PROVE  /\ worker' \in [Workers -> [pc : Places, event : Events \cup {NoEvent}, retries : 0..MaxRetries]]
         /\ worker'[w].pc = IF e \in Unaddressed THEN "success" ELSE "post"
         /\ worker'[w].event = e
         /\ worker'[w].retries = queue[e].retries
         /\ \A v \in Workers \ {w} : worker'[v] = worker[v]
BY DEF TypeOK, Hold, Places

LEMMA IInvKept == IInv /\ [Next]_vars => IInv'
<1> SUFFICES ASSUME IInv, [Next]_vars
             PROVE  IInv'
  OBVIOUS
<1> USE DEF IInv
<1>1. ASSUME NEW w \in Workers, ClaimClientWebhook(w)
      PROVE  IInv'
  <2>1. PICK e \in due :
          /\ queue[e].status = "queued"
          /\ queue' = [queue EXCEPT ![e].status = "processing"]
          /\ due' = due \ {e}
          /\ Hold(w, e)
    BY <1>1 DEF ClaimClientWebhook
  <2>2. e \in Events /\ worker[w].pc = "poll"
    BY <1>1, <2>1 DEF TypeOK, ClaimClientWebhook
  <2>3. /\ queue'[e].status = "processing" /\ queue'[e].retries = queue[e].retries
        /\ \A f \in Events \ {e} : queue'[f] = queue[f]
    BY <2>1, <2>2 DEF TypeOK
  <2>4. UNCHANGED <<delivered, attempts, faults, crashes>>
    BY <1>1 DEF ClaimClientWebhook
  <2>5. \A v \in Workers : worker[v].event # e
    BY <2>1, <2>2, NoEventAssumption DEF Held, Idle
  <2>6. TypeOK'
    BY <2>1, <2>2, <2>4, Claimed DEF TypeOK
  <2>7. Held'
    BY <2>1, <2>2, <2>3, <2>5, Claimed DEF Held, Idle
  <2>8. OneHolder'
    BY <2>1, <2>2, <2>5, Claimed DEF OneHolder
  <2>9. Counted'
    BY <2>1, <2>2, <2>3, <2>4, Claimed DEF Counted
  <2>10. Truthful' /\ CompletedIsDelivered'
    BY <2>1, <2>2, <2>3, <2>4, Claimed DEF Truthful, CompletedIsDelivered
  <2> QED
    BY <2>6, <2>7, <2>8, <2>9, <2>10
<1>2. ASSUME NEW w \in Workers, ClaimWithoutTenant(w)
      PROVE  IInv'
  <2>1. PICK e \in due :
          /\ queue[e].status = "queued"
          /\ queue' = [queue EXCEPT ![e].status = "processing"]
          /\ due' = due \ {e}
          /\ StatementFails \/ UNCHANGED faults
    BY <1>2 DEF ClaimWithoutTenant
  <2>2. /\ e \in Events
        /\ queue'[e].status = "processing" /\ queue'[e].retries = queue[e].retries
        /\ \A f \in Events \ {e} : queue'[f] = queue[f]
    BY <2>1 DEF TypeOK
  <2>3. UNCHANGED <<worker, delivered, attempts, crashes>>
    BY <1>2 DEF ClaimWithoutTenant
  <2>4. TypeOK'
    BY <2>1, <2>2, <2>3, BoundsAssumption DEF TypeOK, StatementFails
  <2>5. Held' /\ OneHolder' /\ Truthful' /\ CompletedIsDelivered'
    BY <2>1, <2>2, <2>3 DEF Held, OneHolder, Truthful, CompletedIsDelivered
  <2>6. Counted'
    BY <2>1, <2>2, <2>3 DEF Counted
  <2> QED
    BY <2>4, <2>5, <2>6
<1>3. ASSUME NEW w \in Workers, ClientAccepts(w) \/ ClientRefuses(w)
      PROVE  IInv'
  <2> DEFINE e == worker[w].event
  <2>1. worker[w].pc = "post" /\ attempts' = [attempts EXCEPT ![e] = @ + 1]
        /\ UNCHANGED <<queue, due, faults, crashes>>
    BY <1>3 DEF ClientAccepts, ClientRefuses
  <2>2. e \in Events /\ queue[e].status = "processing" /\ queue[e].retries = worker[w].retries
    BY <2>1 DEF Held
  <2>3. attempts[e] <= queue[e].retries /\ attempts[e] \in Nat /\ queue[e].retries \in Nat
    BY <2>1, <2>2, BoundsAssumption DEF Counted, TypeOK
  <2>4. attempts'[e] = attempts[e] + 1 /\ \A f \in Events \ {e} : attempts'[f] = attempts[f]
    BY <2>1, <2>2 DEF TypeOK
  <2>5. PICK pc \in {"answer", "failure"} :
          /\ Goto(w, pc)
          /\ \A f \in Events : delivered'[f] >= delivered[f]
          /\ pc = "answer" => delivered'[e] > 0
          /\ delivered' \in [Events -> Nat]
    <3>1. CASE ClientAccepts(w)
      BY <3>1, <2>2 DEF ClientAccepts, TypeOK
    <3>2. CASE ClientRefuses(w)
      BY <3>2 DEF ClientRefuses, TypeOK
    <3> QED
      BY <1>3, <3>1, <3>2
  <2>6. pc \in Places
    BY DEF Places
  <2>7. TypeOK'
    <3>1. attempts' \in [Events -> Nat]
      BY <2>1, <2>2, <2>3 DEF TypeOK
    <3> QED
      BY <2>1, <2>5, <2>6, <3>1, GoneOn DEF TypeOK
  <2>8. Held'
    BY <2>1, <2>2, <2>5, <2>6, GoneOn DEF Held
  <2>9. OneHolder'
    BY <2>5, <2>6, GoneOn DEF OneHolder
  <2>10. Counted'
    <3>1. \A v \in Workers \ {w} : worker[v].pc = "post" => worker[v].event # e
      BY <2>2, NoEventAssumption DEF OneHolder
    <3>2. \A v \in Workers : worker[v].pc = "post" => worker[v].event \in Events
      BY DEF Held
    <3> QED
      BY <2>1, <2>2, <2>3, <2>4, <2>5, <2>6, <3>1, <3>2, GoneOn DEF Counted
  <2>11. Truthful'
    <3>1. \A v \in Workers : worker[v].pc # "poll" => worker[v].event \in Events
      BY DEF Held
    <3>2. delivered \in [Events -> Nat]
      BY DEF TypeOK
    <3> QED
      BY <2>2, <2>5, <2>6, <3>1, <3>2, GoneOn DEF Truthful
  <2>12. CompletedIsDelivered'
    <3>1. \A f \in Events : delivered[f] \in Nat /\ delivered'[f] \in Nat /\ delivered'[f] >= delivered[f]
      BY <2>5 DEF TypeOK
    <3>2. UNCHANGED queue
      BY <2>1
    <3> QED
      BY <3>1, <3>2 DEF CompletedIsDelivered
  <2> QED
    BY <2>7, <2>8, <2>9, <2>10, <2>11, <2>12
<1>4. ASSUME NEW w \in Workers, ReceiveAnswer(w)
      PROVE  IInv'
  <2>1. PICK pc \in {"success", "failure"} : Goto(w, pc)
    BY <1>4 DEF ReceiveAnswer
  <2>2. worker[w].pc = "answer" /\ pc \in Places
        /\ UNCHANGED <<queue, due, delivered, attempts, faults, crashes>>
    BY <1>4 DEF ReceiveAnswer, Places
  <2>3. TypeOK'
    BY <2>1, <2>2, GoneOn DEF TypeOK
  <2>4. Held'
    BY <2>1, <2>2, GoneOn DEF Held
  <2>5. OneHolder' /\ Truthful' /\ CompletedIsDelivered'
    BY <2>1, <2>2, GoneOn DEF OneHolder, Truthful, CompletedIsDelivered
  <2>6. Counted'
    BY <2>1, <2>2, GoneOn DEF Counted
  <2> QED
    BY <2>3, <2>4, <2>5, <2>6
<1>5. ASSUME NEW w \in Workers, MarkClientWebhookSuccess(w) \/ HandleFailure(w) \/ Recover(w)
      PROVE  IInv'
  <2> DEFINE e == worker[w].event
  <2>1. /\ worker[w].pc # "poll" /\ NextIteration(w)
        /\ UNCHANGED <<delivered, attempts, crashes>>
    BY <1>5 DEF MarkClientWebhookSuccess, HandleFailure, Recover
  <2>2. e \in Events /\ queue[e].status = "processing" /\ queue[e].retries = worker[w].retries
    BY <2>1 DEF Held
  <2>3. \A v \in Workers \ {w} : worker[v].event # e
    BY <2>2, NoEventAssumption DEF OneHolder
  <2>4. /\ queue' \in [Events -> [status  : {"absent", "queued", "processing", "completed"},
                                  retries : 0..MaxRetries]]
        /\ due' \subseteq Events /\ faults' \in 0..MaxFaults
        /\ \A f \in Events \ {e} : queue'[f] = queue[f]
        /\ \/ queue'[e] = queue[e]
           \/ /\ queue'[e].status = "completed" /\ queue'[e].retries = queue[e].retries
              /\ worker[w].pc = "success"
           \/ queue'[e].status = "queued" /\ queue'[e].retries = queue[e].retries + 1
    <3>1. CASE MarkClientWebhookSuccess(w)
      BY <3>1, <2>2, BoundsAssumption DEF MarkClientWebhookSuccess, StatementFails, TypeOK
    <3>2. CASE HandleFailure(w)
      BY <3>2, <2>2, BoundsAssumption DEF HandleFailure, StatementFails, TypeOK
    <3>3. CASE Recover(w)
      BY <3>3, <2>2, BoundsAssumption DEF Recover, StatementFails, TypeOK
    <3> QED
      BY <1>5, <3>1, <3>2, <3>3
  <2>5. TypeOK'
    BY <2>1, <2>4, PutDown DEF TypeOK
  <2>6. Held'
    BY <2>1, <2>3, <2>4, PutDown DEF Held, Idle
  <2>7. OneHolder'
    BY <2>1, PutDown DEF OneHolder, Idle
  <2>8. Counted'
    <3>1. attempts[e] <= queue[e].retries + 1 /\ attempts[e] \in Nat /\ queue[e].retries \in Nat
      BY <2>2, BoundsAssumption DEF Counted, TypeOK
    <3>2. \A f \in Events : /\ attempts'[f] <= queue'[f].retries + 1
                            /\ queue'[f].status \in {"absent", "queued"} => attempts'[f] <= queue'[f].retries
      BY <2>1, <2>2, <2>4, <3>1 DEF Counted
    <3> QED
      BY <2>1, <3>2, PutDown DEF Counted, Idle
  <2>9. Truthful'
    BY <2>1, PutDown DEF Truthful, Idle
  <2>10. CompletedIsDelivered'
    BY <2>1, <2>2, <2>4 DEF Truthful, CompletedIsDelivered
  <2> QED
    BY <2>5, <2>6, <2>7, <2>8, <2>9, <2>10
<1>6. ASSUME NEW e \in Events, EnqueueClientWebhook(e)
      PROVE  IInv'
  <2>1. /\ queue'[e].status = "queued" /\ queue'[e].retries = queue[e].retries
        /\ queue[e].status = "absent"
        /\ \A f \in Events \ {e} : queue'[f] = queue[f]
        /\ UNCHANGED <<worker, delivered, attempts, faults, crashes>>
    BY <1>6 DEF EnqueueClientWebhook, TypeOK
  <2>2. TypeOK'
    BY <1>6 DEF EnqueueClientWebhook, TypeOK
  <2>3. Held' /\ OneHolder' /\ Truthful' /\ CompletedIsDelivered'
    BY <2>1 DEF Held, OneHolder, Truthful, CompletedIsDelivered
  <2>4. Counted'
    BY <2>1 DEF Counted
  <2> QED
    BY <2>2, <2>3, <2>4
<1>7. ASSUME NEW e \in Events, BecomesDue(e)
      PROVE  IInv'
  BY <1>7 DEF BecomesDue, TypeOK, Held, OneHolder, Counted, Truthful, CompletedIsDelivered
<1>8. CASE Restart
  <2>1. worker' = [w \in Workers |-> Idle] /\ UNCHANGED <<queue, due, delivered, attempts, faults>>
    BY <1>8 DEF Restart
  <2>2. TypeOK'
    BY <1>8, BoundsAssumption DEF Restart, TypeOK, Idle, Places
  <2>3. Held' /\ OneHolder' /\ Truthful' /\ CompletedIsDelivered'
    BY <2>1 DEF Held, OneHolder, Truthful, CompletedIsDelivered, Idle
  <2>4. Counted'
    BY <2>1 DEF Counted, Idle
  <2> QED
    BY <2>2, <2>3, <2>4
<1>9. CASE UNCHANGED vars
  BY <1>9 DEF vars, TypeOK, Held, OneHolder, Counted, Truthful, CompletedIsDelivered
<1> QED
  BY <1>1, <1>2, <1>3, <1>4, <1>5, <1>6, <1>7, <1>8, <1>9 DEF Next, WorkerStep

----------------------------------------------------------------------------
(* A step is a step of the queue.                                          *)

\* The worker that holds an event is its only holder.
LEMMA HeldIsTaken ==
  ASSUME IInv, NEW w \in Workers, worker[w].pc # "poll"
  PROVE  /\ worker[w].event \in Events
         /\ QueueState[worker[w].event] = "taken"
         /\ QueueHolders[worker[w].event] = {w}
<1>1. worker[w].event \in Events /\ queue[worker[w].event].status = "processing"
  BY DEF IInv, Held
<1> QED
  BY <1>1, NoEventAssumption DEF IInv, OneHolder, QueueState, QueueHolders

\* To the queue a row is what its status says.
LEMMA StatusSeen ==
  ASSUME NEW e \in Events, queue' \in [Events -> [status : {"absent", "queued", "processing", "completed"},
                                                  retries : 0..MaxRetries]],
         queue \in [Events -> [status : {"absent", "queued", "processing", "completed"},
                               retries : 0..MaxRetries]],
         NEW to,
         \A f \in Events \ {e} : queue'[f].status = queue[f].status,
         QueueState'[e] = to
  PROVE  QueueState' = [QueueState EXCEPT ![e] = to]
<1>1. \A f \in Events \ {e} : QueueState'[f] = QueueState[f]
  BY DEF QueueState
<1> QED
  BY <1>1 DEF QueueState

LEMMA StepIsQueueStep ==
  ASSUME IInv, IInv', [Next]_vars
  PROVE  Queue!Next \/ UNCHANGED <<QueueState, QueueHolders>>
<1> USE DEF IInv
<1>1. UNCHANGED queue => UNCHANGED QueueState
  BY DEF QueueState
<1>2. UNCHANGED worker => UNCHANGED QueueHolders
  BY DEF QueueHolders
<1>3. ASSUME NEW w \in Workers, ClaimClientWebhook(w)
      PROVE  Queue!Next
  <2>1. PICK e \in due :
          /\ queue[e].status = "queued"
          /\ queue' = [queue EXCEPT ![e].status = "processing"]
          /\ Hold(w, e)
    BY <1>3 DEF ClaimClientWebhook
  <2>2. e \in Events /\ worker[w].pc = "poll"
    BY <1>3, <2>1 DEF TypeOK, ClaimClientWebhook
  <2>3. QueueState[e] = "waiting" /\ QueueState'[e] = "taken"
    BY <2>1, <2>2 DEF QueueState, TypeOK
  <2>4. QueueState' = [QueueState EXCEPT ![e] = "taken"]
    BY <2>1, <2>2, <2>3, StatusSeen DEF TypeOK
  <2>5. \A v \in Workers : worker[v].event # e
    BY <2>1, <2>2, NoEventAssumption DEF Held, Idle
  <2>6. worker'[w].event = e /\ \A v \in Workers \ {w} : worker'[v] = worker[v]
    BY <2>1, <2>2, Claimed
  <2>7. worker[w].event = NoEvent
    BY <2>2 DEF Held, Idle
  <2>8. QueueHolders[e] = {} /\ QueueHolders' = [QueueHolders EXCEPT ![e] = {w}]
    <3>1. QueueHolders[e] = {} /\ QueueHolders'[e] = {w}
      BY <2>2, <2>5, <2>6 DEF QueueHolders
    <3>2. \A f \in Events \ {e} : QueueHolders'[f] = QueueHolders[f]
      BY <2>6, <2>7, NoEventAssumption DEF QueueHolders
    <3> QED
      BY <2>2, <3>1, <3>2 DEF QueueHolders
  <2> QED
    BY <2>2, <2>3, <2>4, <2>8 DEF Queue!Next, Queue!Take, Queue!Moves
<1>4. ASSUME NEW w \in Workers, ClaimWithoutTenant(w)
      PROVE  Queue!Next
  <2>1. PICK e \in due :
          /\ queue[e].status = "queued"
          /\ queue' = [queue EXCEPT ![e].status = "processing"]
    BY <1>4 DEF ClaimWithoutTenant
  <2>2. e \in Events
    BY <2>1 DEF TypeOK
  <2>3. QueueState[e] = "waiting" /\ QueueState'[e] = "taken"
    BY <2>1, <2>2 DEF QueueState, TypeOK
  <2>4. QueueState' = [QueueState EXCEPT ![e] = "taken"]
    BY <2>1, <2>2, <2>3, StatusSeen DEF TypeOK
  <2>5. UNCHANGED QueueHolders
    BY <1>2, <1>4 DEF ClaimWithoutTenant
  <2> QED
    BY <2>2, <2>3, <2>4, <2>5 DEF Queue!Next, Queue!TakeInVain, Queue!Moves
<1>5. ASSUME NEW w \in Workers, ClientAccepts(w) \/ ClientRefuses(w) \/ ReceiveAnswer(w)
      PROVE  UNCHANGED <<QueueState, QueueHolders>>
  <2>1. PICK pc \in Places : Goto(w, pc)
    BY <1>5 DEF ClientAccepts, ClientRefuses, ReceiveAnswer, Places
  <2>2. \A v \in Workers : worker'[v].event = worker[v].event
    BY <2>1, GoneOn
  <2>3. UNCHANGED QueueHolders
    BY <2>2 DEF QueueHolders
  <2> QED
    BY <1>1, <1>5, <2>3 DEF ClientAccepts, ClientRefuses, ReceiveAnswer
<1>6. ASSUME NEW w \in Workers, MarkClientWebhookSuccess(w) \/ HandleFailure(w) \/ Recover(w)
      PROVE  Queue!Next
  <2> DEFINE e == worker[w].event
  <2>1. worker[w].pc # "poll" /\ NextIteration(w)
    BY <1>6 DEF MarkClientWebhookSuccess, HandleFailure, Recover
  <2>2. e \in Events /\ QueueState[e] = "taken" /\ QueueHolders[e] = {w}
    BY <2>1, HeldIsTaken
  <2>3. QueueHolders' = [QueueHolders EXCEPT ![e] = {}]
    <3>1. worker'[w].event = NoEvent /\ \A v \in Workers \ {w} : worker'[v] = worker[v]
      BY <2>1, PutDown DEF Idle
    <3>2. QueueHolders'[e] = {}
      <4>1. \A v \in Workers \ {w} : worker[v].event # e
        BY <2>2 DEF QueueHolders
      <4>2. \A v \in Workers : worker'[v].event # e
        BY <2>2, <3>1, <4>1, NoEventAssumption
      <4> HIDE DEF e
      <4> QED
        BY <2>2, <4>2 DEF QueueHolders
    <3>3. \A f \in Events \ {e} : QueueHolders'[f] = QueueHolders[f]
      BY <3>1, NoEventAssumption DEF QueueHolders
    <3> QED
      BY <2>2, <3>2, <3>3 DEF QueueHolders
  <2>4. CASE UNCHANGED queue
    BY <1>1, <2>2, <2>3, <2>4 DEF Queue!Next, Queue!LetGo
  <2>5. CASE ~UNCHANGED queue
    <3>1. PICK s \in {"completed", "queued"}, n \in 0..MaxRetries :
            queue' = [queue EXCEPT ![e] = [status |-> s, retries |-> n]]
      <4>1. CASE MarkClientWebhookSuccess(w)
        <5>1. queue' = [queue EXCEPT ![e] = [status |-> "completed", retries |-> queue[e].retries]]
          BY <2>2, <2>5, <4>1 DEF MarkClientWebhookSuccess, TypeOK
        <5> QED
          BY <2>2, <5>1 DEF TypeOK
      <4>2. CASE HandleFailure(w)
        BY <2>5, <4>2, BoundsAssumption DEF HandleFailure, TypeOK
      <4> QED
        BY <1>6, <2>5, <4>1, <4>2 DEF Recover
    <3>2. QueueState'[e] \in {"done", "waiting"}
      BY <2>2, <3>1 DEF QueueState, TypeOK
    <3>3. QueueState' = [QueueState EXCEPT ![e] = QueueState'[e]]
      BY <2>2, <3>1, StatusSeen DEF TypeOK
    <3>4. Queue!Release(e, w, QueueState'[e])
      BY <2>2, <2>3, <3>3 DEF Queue!Release, Queue!Moves
    <3> QED
      BY <2>2, <3>2, <3>4 DEF Queue!Next
  <2> QED
    BY <2>4, <2>5
<1>7. ASSUME NEW e \in Events, EnqueueClientWebhook(e)
      PROVE  Queue!Next
  <2>1. queue[e].status = "absent" /\ queue' = [queue EXCEPT ![e].status = "queued"]
    BY <1>7 DEF EnqueueClientWebhook
  <2>2. QueueState[e] = "absent" /\ QueueState'[e] = "waiting"
    BY <2>1 DEF QueueState, TypeOK
  <2>3. QueueState' = [QueueState EXCEPT ![e] = "waiting"]
    BY <2>1, <2>2, StatusSeen DEF TypeOK
  <2>4. UNCHANGED QueueHolders
    BY <1>2, <1>7 DEF EnqueueClientWebhook
  <2> QED
    BY <2>2, <2>3, <2>4 DEF Queue!Next, Queue!Put, Queue!Moves
<1>8. CASE Restart
  <2>1. QueueHolders' = [e \in Events |-> {}]
    BY <1>8, NoEventAssumption DEF Restart, QueueHolders, Idle
  <2> QED
    BY <1>1, <1>8, <2>1 DEF Restart, Queue!Next, Queue!LetAllGo
<1>9. CASE UNCHANGED vars \/ \E e \in Events : BecomesDue(e)
  BY <1>1, <1>2, <1>9 DEF vars, BecomesDue
<1> QED
  BY <1>3, <1>4, <1>5, <1>6, <1>7, <1>8, <1>9 DEF Next, WorkerStep

----------------------------------------------------------------------------
(* The theorems.                                                           *)

\* The inductive invariant holds over failing statements and restarts.
THEOREM IInvHolds == Spec => []IInv
BY InitIInv, IInvKept, PTL DEF Spec

\* The table and the workers keep the shape of their state; the retry counter
\* of a row never passes MaxRetries (handleFailure).
THEOREM TypeCorrect == Spec => []TypeOK
<1>1. IInv => TypeOK
  BY DEF IInv
<1> QED
  BY <1>1, IInvHolds, PTL

\* A client is asked at most MaxRetries + 1 times for an event (processJob and
\* handleFailure).
THEOREM RetriesStayBounded == Spec => []RetriesAreBounded
<1>1. IInv => RetriesAreBounded
  <2> SUFFICES ASSUME IInv, NEW e \in Events
               PROVE  attempts[e] <= MaxRetries + 1
    BY DEF RetriesAreBounded
  <2>1. /\ attempts[e] <= queue[e].retries + 1 /\ attempts[e] \in Nat
        /\ queue[e].retries \in 0..MaxRetries
    BY DEF IInv, TypeOK, Counted
  <2> QED
    BY <2>1, BoundsAssumption
<1> QED
  BY <1>1, IInvHolds, PTL

\* MarkClientWebhookSuccess is called only for what a client has taken, or for
\* a tenant without a URL.
THEOREM CompletedWasDelivered == Spec => []CompletedIsDelivered
<1>1. IInv => CompletedIsDelivered
  BY DEF IInv
<1> QED
  BY <1>1, IInvHolds, PTL

\* The table client_webhook_queue and its pool are a queue: one holder at a
\* time, put back or completed by it alone, and final when completed.
THEOREM TableImplementsQueue == Spec => ImplementsQueue
<1>1. Init => Queue!Init
  BY NoEventAssumption DEF Init, Queue!Init, QueueState, QueueHolders, Idle
<1>2. IInv /\ IInv' /\ [Next]_vars => [Queue!Next]_Queue!vars
  BY StepIsQueueStep DEF Queue!vars
<1> QED
  BY <1>1, <1>2, IInvHolds, PTL DEF Spec, ImplementsQueue, Queue!Spec

=============================================================================
