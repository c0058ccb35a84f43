---------------------------- MODULE WebhookQueue ----------------------------
(***************************************************************************)
(* The egress queue: table client_webhook_queue and the pool of            *)
(* internal/engine/webhook_worker.go that posts its payloads to the        *)
(* tenants' webhook URLs.  The only code that fills the queue is           *)
(* HandleWebhookEvent of internal/api/webhook.go, which the router no      *)
(* longer mounts; the pool itself is started by main.go and polls the      *)
(* table.  As in WorkerPool, one action is one statement or one event of   *)
(* an HTTP exchange.                                                       *)
(***************************************************************************)
EXTENDS Naturals, FiniteSets

CONSTANTS
  Events,        \* rows of client_webhook_queue
  Workers,       \* the goroutines of the pool (10 in the code)
  NoEvent,       \* no row
  Unaddressed,   \* the rows whose tenant has no webhook_url
  Forsaken,      \* the rows whose tenant may be given up while they wait
  MaxRetries,    \* retries before a row is abandoned (5 in the code)
  MaxFaults,     \* bound: how many statements fail and iterations panic
  MaxCrashes     \* bound: how often the process is killed or shut down

ASSUME NoEventAssumption == NoEvent \notin Events
ASSUME UnaddressedAssumption == Unaddressed \subseteq Events
ASSUME ForsakenAssumption == Forsaken \subseteq Events
ASSUME BoundsAssumption == MaxRetries \in Nat /\ MaxFaults \in Nat /\ MaxCrashes \in Nat

VARIABLES
  queue,       \* status and retry_count of each row
  due,         \* the rows with next_retry_at <= now
  worker,      \* what each goroutine is doing
  delivered,   \* external: how often a client has answered 2xx to the event
  attempts,    \* history: how often an event was posted
  faults, crashes

vars == <<queue, due, worker, delivered, attempts, faults, crashes>>

Places == {"poll", "post", "answer", "success", "failure"}

Idle == [pc |-> "poll", event |-> NoEvent, retries |-> 0]

Init ==
  /\ queue = [e \in Events |-> [status |-> "absent", retries |-> 0]]
  /\ due = {}
  /\ worker = [w \in Workers |-> Idle]
  /\ delivered = [e \in Events |-> 0]
  /\ attempts = [e \in Events |-> 0]
  /\ faults = 0 /\ crashes = 0

----------------------------------------------------------------------------
Goto(w, pc) == worker' = [worker EXCEPT ![w].pc = pc]
NextIteration(w) == worker' = [worker EXCEPT ![w] = Idle]
StatementFails == faults < MaxFaults /\ faults' = faults + 1

\* HandleWebhookEvent, after it has matched a receipt or opened a session.
EnqueueClientWebhook(e) ==
  /\ queue[e].status = "absent"
  /\ queue' = [queue EXCEPT ![e].status = "queued"]
  /\ due' = due \cup {e}
  /\ UNCHANGED <<worker, delivered, attempts, faults, crashes>>

\* Time passes next_retry_at of a row.
BecomesDue(e) ==
  /\ queue[e].status # "absent" /\ e \notin due
  /\ due' = due \cup {e}
  /\ UNCHANGED <<queue, worker, delivered, attempts, faults, crashes>>

\* What the worker does with the row it has claimed; without a URL there is
\* nothing to post.
Hold(w, e) ==
  worker' = [worker EXCEPT ![w] =
    [pc      |-> IF e \in Unaddressed THEN "success" ELSE "post",
     event   |-> e,
     retries |-> queue[e].retries]]

\* Mutant: the time alone decides (the claim has set next_retry_at to one
\* minute ahead).
ClaimWhateverIsDue(w) ==
  /\ worker[w].pc = "poll"
  /\ \E e \in due :
       /\ queue' = [queue EXCEPT ![e].status = "processing"]
       /\ due' = due \ {e}
       /\ Hold(w, e)
  /\ UNCHANGED <<delivered, attempts, faults, crashes>>

\* ORDER BY created_at is left out: any row that is due may be the oldest.
ClaimClientWebhook(w) ==
  /\ worker[w].pc = "poll"
  /\ \E e \in due :
       /\ queue[e].status = "queued"
       /\ queue' = [queue EXCEPT ![e].status = "processing"]
       /\ due' = due \ {e}
       /\ Hold(w, e)
  /\ UNCHANGED <<delivered, attempts, faults, crashes>>

\* The row is claimed, but its tenant cannot be read or is gone (a sync or a
\* hydration gave the tenant's row another id): ClaimClientWebhook returns an
\* error and the worker polls again.
ClaimWithoutTenant(w) ==
  /\ worker[w].pc = "poll"
  /\ \E e \in due :
       /\ queue[e].status = "queued"
       /\ StatementFails \/ (e \in Forsaken /\ UNCHANGED faults)
       /\ queue' = [queue EXCEPT ![e].status = "processing"]
       /\ due' = due \ {e}
  /\ UNCHANGED <<worker, delivered, attempts, crashes>>

\* The client takes the event; its answer is on its way.
ClientAccepts(w) ==
  /\ worker[w].pc = "post"
  /\ delivered' = [delivered EXCEPT ![worker[w].event] = @ + 1]
  /\ attempts' = [attempts EXCEPT ![worker[w].event] = @ + 1]
  /\ Goto(w, "answer")
  /\ UNCHANGED <<queue, due, faults, crashes>>

\* Mutant: the status code of the answer is not looked at.
ClientRefusesUnnoticed(w) ==
  /\ worker[w].pc = "post"
  /\ attempts' = [attempts EXCEPT ![worker[w].event] = @ + 1]
  /\ Goto(w, "success")
  /\ UNCHANGED <<queue, due, delivered, faults, crashes>>

\* The client is not reached within 5 seconds or answers something else, or
\* its URL is not one.
ClientRefuses(w) ==
  /\ worker[w].pc = "post"
  /\ attempts' = [attempts EXCEPT ![worker[w].event] = @ + 1]
  /\ Goto(w, "failure")
  /\ UNCHANGED <<queue, due, delivered, faults, crashes>>

\* The 2xx arrives, or it is lost or comes too late.
ReceiveAnswer(w) ==
  /\ worker[w].pc = "answer"
  /\ \E pc \in {"success", "failure"} : Goto(w, pc)
  /\ UNCHANGED <<queue, due, delivered, attempts, faults, crashes>>

MarkClientWebhookSuccess(w) ==
  /\ worker[w].pc = "success"
  /\ \/ /\ queue' = [queue EXCEPT ![worker[w].event].status = "completed"]
        /\ UNCHANGED faults
     \/ StatementFails /\ UNCHANGED queue
  /\ NextIteration(w)
  /\ UNCHANGED <<due, delivered, attempts, crashes>>

\* Mutant: one retry too many.
HandleFailureLate(w) ==
  /\ worker[w].pc = "failure"
  /\ \/ worker[w].retries > MaxRetries /\ UNCHANGED <<queue, due>>
     \/ /\ worker[w].retries <= MaxRetries
        /\ queue' = [queue EXCEPT ![worker[w].event] =
                       [status |-> "queued", retries |-> worker[w].retries + 1]]
        /\ due' = due \ {worker[w].event}
  /\ NextIteration(w)
  /\ UNCHANGED <<delivered, attempts, faults, crashes>>

\* Mutant: the row is only put back, the retry is not counted.
HandleFailureUncounted(w) ==
  /\ worker[w].pc = "failure"
  /\ queue' = [queue EXCEPT ![worker[w].event].status = "queued"]
  /\ due' = due \ {worker[w].event}
  /\ NextIteration(w)
  /\ UNCHANGED <<delivered, attempts, faults, crashes>>

\* Mutant: a row is abandoned one retry too early.
HandleFailureEarly(w) ==
  /\ worker[w].pc = "failure"
  /\ \/ worker[w].retries + 1 >= MaxRetries /\ UNCHANGED <<queue, due>>
     \/ /\ worker[w].retries + 1 < MaxRetries
        /\ queue' = [queue EXCEPT ![worker[w].event] =
                       [status |-> "queued", retries |-> worker[w].retries + 1]]
        /\ due' = due \ {worker[w].event}
  /\ NextIteration(w)
  /\ UNCHANGED <<delivered, attempts, faults, crashes>>

\* handleFailure: abandon the row, or queue it for later with one retry more.
HandleFailure(w) ==
  /\ worker[w].pc = "failure"
  /\ \/ worker[w].retries >= MaxRetries /\ UNCHANGED <<queue, due, faults>>
     \/ /\ worker[w].retries < MaxRetries
        /\ queue' = [queue EXCEPT ![worker[w].event] =
                       [status |-> "queued", retries |-> worker[w].retries + 1]]
        /\ due' = due \ {worker[w].event}
        /\ UNCHANGED faults
     \/ worker[w].retries < MaxRetries /\ StatementFails /\ UNCHANGED <<queue, due>>
  /\ NextIteration(w)
  /\ UNCHANGED <<delivered, attempts, crashes>>

\* An iteration panics; workerLoop recovers and worker starts it anew.
Recover(w) ==
  /\ worker[w].pc # "poll"
  /\ StatementFails
  /\ NextIteration(w)
  /\ UNCHANGED <<queue, due, delivered, attempts, crashes>>

\* A kill, or a shutdown: every statement fails once the context is cancelled.
Restart ==
  /\ crashes < MaxCrashes
  /\ crashes' = crashes + 1
  /\ worker' = [w \in Workers |-> Idle]
  /\ UNCHANGED <<queue, due, delivered, attempts, faults>>

----------------------------------------------------------------------------
WorkerStep(w) ==
  \/ ClaimClientWebhook(w) \/ ClaimWithoutTenant(w)
  \/ ClientAccepts(w) \/ ClientRefuses(w) \/ ReceiveAnswer(w)
  \/ MarkClientWebhookSuccess(w) \/ HandleFailure(w) \/ Recover(w)

Next ==
  \/ \E w \in Workers : WorkerStep(w)
  \/ \E e \in Events : EnqueueClientWebhook(e) \/ BecomesDue(e)
  \/ Restart

Spec == Init /\ [][Next]_vars

\* Goroutines run and time passes.
Fairness ==
  /\ \A w \in Workers : WF_vars(WorkerStep(w))
  /\ \A e \in Events : WF_vars(BecomesDue(e))

LiveSpec == Spec /\ Fairness

----------------------------------------------------------------------------
(***************************************************************************)
(* Properties.                                                             *)
(***************************************************************************)

TypeOK ==
  /\ queue \in [Events -> [status  : {"absent", "queued", "processing", "completed"},
                           retries : 0..MaxRetries]]
  /\ due \subseteq Events
  /\ worker \in [Workers -> [pc : Places, event : Events \cup {NoEvent}, retries : 0..MaxRetries]]
  /\ delivered \in [Events -> Nat] /\ attempts \in [Events -> Nat]
  /\ faults \in 0..MaxFaults /\ crashes \in 0..MaxCrashes

\* A client gets an event once and at most MaxRetries times more
\* (docs/webhooks.md, Delivery Guarantees): every retry is counted, also over
\* restarts and lost answers.
RetriesAreBounded == \A e \in Events : attempts[e] <= MaxRetries + 1

\* An event marked as completed was taken by the client, if there is one.
CompletedIsDelivered ==
  \A e \in Events \ Unaddressed : queue[e].status = "completed" => delivered[e] > 0

\* What the columns and the workers say in the words of WorkQueue.
QueueState ==
  [e \in Events |-> [absent     |-> "absent",
                     queued     |-> "waiting",
                     processing |-> "taken",
                     completed  |-> "done"][queue[e].status]]

QueueHolders == [e \in Events |-> {w \in Workers : worker[w].event = e}]

Queue == INSTANCE WorkQueue WITH
  Items <- Events, Workers <- Workers, state <- QueueState, holders <- QueueHolders

\* The table is a queue: one worker at a time holds an event, only its holder
\* completes it or puts it back, and what is completed stays so, over late
\* answers, failing statements and restarts.
ImplementsQueue == Queue!Spec

\* The way of an event ends: it is completed, or has been tried as often as it
\* may be.  Nothing waits in the queue for ever.  This is so while no statement
\* fails, no iteration panics, the process runs on and the event's tenant is not
\* given up: an event that is lost with its holder, or claimed without a tenant,
\* stays in processing, which no statement selects.
EventEnds ==
  \A e \in Events \ Forsaken :
    queue[e].status = "queued" ~>
      \/ queue[e].status = "completed"
      \/ attempts[e] = MaxRetries + 1
      \/ faults + crashes > 0

=============================================================================
