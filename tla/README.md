# A verification project for Bhejna

Bhejna (Go, `src/`) is a proxy for the WhatsApp Cloud API: clients post
messages, the messages are queued in a SQLite file, a pool of workers sends them
to Meta, Meta reports on them through a webhook, and finished messages are
copied to Supabase. This directory holds TLA+ models of the parts of the program
that keep state, TLC configurations that check them on small instances, and
proofs, checked by TLAPS, of the safety properties the configurations check.

Contents: [the system](#1-the-system), [the models](#2-the-models),
[the runs](#3-the-runs), [bounds](#4-bounds), [fairness](#5-fairness),
[proofs](#6-proofs), [what the code does not do](#7-what-the-documentation-says-and-the-code-does-not-do),
[not modelled](#8-not-modelled), [plan](#9-plan).

## 1. The system

| Component | Code | State | Operations |
|---|---|---|---|
| Job table | `internal/db/repository.go`, `schema.sql` | table `jobs`: status, level, message id, next_retry_at, synced | one SQL statement per operation, one writer connection |
| Message workers | `internal/engine/worker.go`, `meta_client.go` | what each of 5 goroutines holds | claim, send, requeue, fail, bind, accept |
| Meta webhook | `internal/api/handlers/meta_webhook.go` | a detached goroutine per post; table `webhook_events` | apply a receipt, record it |
| Process | `cmd/bhejna/main.go` | the context, the goroutines | start, signal, end; it may be killed |
| Ingress API | `internal/api/client.go`, `middleware.go` | a copy of the tenant per request | look up the tenant, count, insert |
| Supabase sync, cleanup | `internal/engine/sync.go`, `cleanup.go` | a batch in memory; column `synced` | read, post, mark; delete |
| Tenant registry | `sync.go`, `internal/api/internal.go` | table `tenants`, a copy of Supabase's | hydrate at boot, sync, pause |
| Start of the database | `internal/db/db.go`, `schema.sql` | the columns of table `jobs` | execute the schema, look for a column, add it |
| Client webhook queue | `internal/engine/webhook_worker.go`, `internal/api/webhook.go` | table `client_webhook_queue`, 10 goroutines | claim, post, complete, retry |
| Webhook dispatcher | `internal/services/webhook_dispatcher.go` | a detached goroutine per post | read the tenant, post a payload once |
| Sessions of users | `meta_webhook.go` | a detached goroutine per post; table `active_sessions` | read the tenant of each message, write its session |
| Rate limiter | `internal/engine/limiter.go` | a map with a limiter per tenant and phone, under a lock | look up, create, ask |
| Janitor | `internal/engine/janitor.go` | none | select unmatched events, log stale jobs |

How they interact. All components share the SQLite file; there are no queues in
memory and no locks across statements (the one lock of the program is that of
the limiters' map). The database has one writer connection,
so each statement is atomic and everything between two statements is not. The
workers and the webhook handler meet in the rows of `jobs`: the worker writes by
job id, the handler by message id (`meta_message_id`), and both raise
`status_level`. Ingress and the control plane write what the workers read. The
process hands one context to the workers, janitors and pools; cancelling it
makes every statement of theirs fail.

What is hard:

* several workers claim from one table, with crashes in between;
* Meta's answer to a request and Meta's receipts for the same message travel
  separately, and either can be first, late, repeated or lost;
* a statement, a goroutine or the process can fail between any two statements;
* several components read a row, act on it later and write without looking again
  (quota, sync batch, pause, hydration).

What makes each component correct:

* *job engine*: a job is held by one worker at a time; a message id is stored with
  the job it was made for; a stored id is never lost and its job never sent again;
  a status never goes backwards; a receipt that is recorded as matched is visible,
  one that was answered is not lost; a pause takes effect; a job is not starved;
  no path through a worker's loop forgets its job; a signal ends the process;
* *ingress*: what is answered with 202 is stored, for the right tenant; the quota
  is exceeded by no more than the requests in flight;
* *sync and cleanup*: nothing is deleted that Supabase does not have or that is
  not finished; every finished job is sent;
* *registry and start*: keys stay unique; a boot writes what it fetched, leaves
  every stored job its tenant, and ends on a migrated table, also after kills in
  the middle of any of it;
* *client webhooks*: an event has one holder, a bounded number of attempts, is
  completed only if delivered and never posted again afterwards;
* *limiter*: goroutines that meet a new key at once end up with one limiter, what
  Meta sees of a phone number is bounded, nobody waits for the lock for ever;
* *dispatcher and sessions*: a payload that its tenant has confirmed is not passed
  on again, it goes to a tenant that has had the phone number of its first change,
  a session is opened for the tenant the user wrote to; what was answered with 200
  is handled.

The hazards behind these properties are listed in `PROJECT.json`, each at its
line of the code.

## 2. The models

```
WorkQueue            abstract: a table that serves as a queue
JobTable             the rows of table jobs and the SQL statements on them
 |-- JobLifecycle    abstract: the steps a row may take      (JobLifecycleProofs)
 |    `-- AnalyticsSync   sync worker and cleanup beside it  (AnalyticsSyncProofs)
 `-- EdgeState       table, Meta's side, failing statements
      |-- WorkerPool      the message workers, with MetaClient  (EngineProofs)
      `-- MetaWebhook     receipts and webhook_events
           `-- Janitor    parkAndSweep
                `-- Engine     all of these, with WorkerPool, over signals,
                    |          kills and restarts            (EngineProofs)
                    |          implements JobLifecycle and WorkQueue
                    `-- Progress   fairness and liveness
DatabaseInit
 `-- TenantRegistry  the start, hydration, posts and pauses  (TenantRegistryProofs)
WebhookQueue         implements WorkQueue                    (WebhookQueueProofs)
Ingress                                                      (IngressProofs)
Limiter                                                      (LimiterProofs)
Dispatch             the dispatcher and the sessions of users (DispatchProofs)
```

**JobTable** has one operator per statement of `repository.go` that writes the
columns `status`, `status_level` and `meta_message_id`, from a table to a table.
A row that is not there has the status `absent`. Phone numbers, payloads and
error texts are left out. `Below` is the `WHERE` clause of `UpdateJobMonotonic`;
whether it is empty is the statement's result (`RowsAffected`).

**WorkerPool** is `worker`/`workerLoop`, cut at each statement and at each event
of the HTTP exchange. `worker[w].pc` is the place in the loop:

| pc | the worker is about to | code (worker.go) |
|---|---|---|
| `poll` | claim | 76-92 |
| `prepare` | read the tenant, ask the limiter | 94-111 |
| `send` | be answered by Meta, or not | 114 |
| `answer` | receive Meta's acceptance | meta_client.go 152-190 |
| `requeue` | `RequeueWithJitter` | 98, 109, 130 |
| `fail`, `failAndPause`, `pause` | `MarkJobFailed`, `PauseTenant` | 103, 134-138 |
| `bind`, `fallback`, `accept` | `SetJobMetaID`, `UpdateJobStatus`, `UpdateJobMonotonic` | 146-158 |
| `exited` | nothing, ctx was cancelled | 48-58, 78-80 |

`Exec` is a statement with its error path: the code logs or ignores every error
of these statements and goes on, and so does the model. A statement fails when
the context is cancelled, or (at most `MaxFaults` times) for another reason. A
claim that takes effect although its caller sees an error, because the context
was cancelled while the row was on its way back, leaves the same state as
`Claim`, `PutBack`, `Cancel` and a failing `Requeue`. `Recover` is the recovered
panic. The order of `next_retry_at` is kept as the sequence `due` of the jobs
whose time has come; `RequeueWithJitter` takes a job out of it and
`BecomesDue` puts it at its end. The rate limiter and `GetTenant` are choices
between `Proceed`, `PutBack` and `TenantGone`. `SendMessage` is split where Meta
takes effect: from `MetaAccepts` on Meta has the message, whatever the worker
learns (`LoseAnswer`).

**MetaClient** is how an exchange with Meta is judged: the error `SendMessage`
makes of an answer, `IsTransientError` and `IsPolicyError`, and the place where
the worker goes on (`AfterError`). WorkerPool takes every refusal and failure from
here, so a job is requeued, failed, or failed with a pause exactly as the two
questions decide.

**MetaWebhook**: `MetaReports` is Meta, `PostV1MetaWebhook` the handler that
answers at once, `ApplyReceipt` and `RecordEvent` the two statements of
`processInternalLogic`. A post may be repeated for ever, delayed, reordered or
never made. `inbox` and `recording` are the detached goroutines. A payload with
several receipts is several posts. The history `answered` has the receipts that were
answered with 200 for a message that had a row by then, less those whose own
statements failed: what `AnsweredReceiptIsKept` speaks of.

**Janitor** is `parkAndSweep` with its parser as it stands: `parseWebhookDummy`
returns no message id, so the loop skips every event.

**Engine** puts workers, webhook handler and janitor on one table and adds the
process: `Shutdown` cancels the context, `Crash` kills the process, `Boot` starts it
again with what the database holds. `Stop` is the end of main: it waits for the
workers (`pool.Stop`) and for the goroutines in `Background`, the webhook workers
(`webhookPool.Stop`), the janitor, the sync and the cleanup (`bgWg.Wait`). Of these
only the loop is in Engine, `Begin`, `End` and `Leave`, because what they do to their
tables is in modules of their own: those in `Pollers` look at the context before each
round, the others choose between the context and a ticker.

**JobLifecycle** is the abstract specification of a row: nine steps, no workers. Like
the code, `Bind` asks nothing of other rows; that no two rows have one message id is a
fact about workers and Meta, and stated of the engine (`Engine!OneRowPerWamid`).
`Engine!ImplementsLifecycle` states that the engine implements it (the
refinement mapping is the identity on `jobs`), and it is proved. `AnalyticsSync`
is then checked against the abstract table (`TableStep`) and not against the whole
engine.

**WorkQueue** is the abstract specification of a table that serves as a queue: an
item waits, is taken by one worker, is given back or ended by that worker only,
and is never given out again once done. It does not promise that an item whose
holder is gone is given to another, because neither table does that. Two
components implement it. In `Engine!Queue` an item is a job, "taken" is
`processing` without a message id and "done" everything after, holders are the
workers whose `pc` is in `Holding`; a bound job is done although its row may
still say `processing`. In `WebhookQueue!Queue` an item is a row of
`client_webhook_queue`, and holders are the workers that have it in hand.

**AnalyticsSync**: `GetUnsyncedJobs`, the post and `MarkJobsSynced` are separate
steps, `DeleteOldSyncedJobs` runs beside them. Lost answers, failed marks,
shutdowns and kills are one action, `PostStoredUnmarked`. Supabase is assumed to
store a batch it has stored before.

**Ingress**: `APIKeyMiddleware` (the tenant is read), `CheckQuota` (the jobs are
counted), `Insert` (with the unique key), each a step. The clock, workers and
cleanup appear as `JobMoves`, the control plane as `TenantChanges`.

**DatabaseInit** is `InitDB`: `schema.sql` as a whole, the look at
`pragma_table_info`, the `ALTER TABLE`; `jobsTable` is which columns the file has.

**TenantRegistry** starts with it (`OpenDatabase`), goes on with the hydration and
then serves. Both upserts have SQLite's behaviour for both unique keys:
`INSERT ... ON CONFLICT(id)` fails when another row has the phone number,
`ON CONFLICT(phone_number_id)` fails when another row has the id, and in that
case a boot is fatal. `fetched` and `pending` are the loop of
`HydrateTenantsFromSupabase`, whose order is Supabase's and so arbitrary. `named`
are the tenant ids in table `jobs` (`AcceptJob`). A kill fits between any two
steps. The process answers nothing before the hydration has ended.

**WebhookQueue** is the pool main.go starts. The handler that fills its table
(`HandleWebhookEvent`) is no longer routed; its enqueueing is modelled so that
the pool has something to do. The tenant of an event in `Forsaken` may lose its row
while the event waits: the claim takes effect and returns an error
(`ClaimWithoutTenant`). `Recover` is the recovered panic.

**Limiter** is `Allow` cut at its lock operations, with Go's `RWMutex` (a waiting
writer keeps new readers out) in the program counters: a worker at `lookup` reads,
one at `create` writes. A limiter is a number of tokens, `Tick` a unit of time for
all of them. The key is made of the row that was read, and `SyncTenant` may change
the row meanwhile; `lost[p]` counts how often the number was taken from a tenant.
In WorkerPool the limiter's answer is a free choice (`Proceed`, `PutBack`), so
what is shown there holds for any limiter.

**Dispatch** is the other half of `PostV1MetaWebhook`: Meta posts a payload until
it hears 200 (`MetaPosts`, `Refuse`), the handler leaves two goroutines behind.
`egress[x]` is the dispatcher's (read the tenant of the first change, drop the
payload if no request can be made for its URL, post once, log what the client
says), `logic[x]` that of `processInternalLogic` for the messages of users (read
the tenant of each message's own change, write the session). Rows and URLs change
under both, statements fail, the process restarts. What clients were offered is
counted for each post and tenant (`offered`), and so is what they have confirmed,
with an answer below 400 that reached the dispatcher (`confirmed`): a client may
take a payload and its answer is lost (`NotConfirmed`).

## 3. The runs

Passing runs (each property also has a mutant of the code that breaks it, listed
in `PROJECT.json`; the mutants are the definitions marked "Mutant" in the modules):

| Run | Module, cfg | Properties | What it shows |
|---|---|---|---|
| Engine | MCEngine, MCEngine.cfg | TypeOK, ExclusiveClaim, BoundToOwnMessage, PauseContained, OrphansAreBounded, NoResendAfterBind, ImplementsQueue | claims are exclusive, an id is stored with its own job, a bound job is not sent again, a pause lets at most one message per worker through, a job is left behind by a fault or a stop only, and jobs and workers are a WorkQueue, over a failing statement, a kill and a shutdown |
| Receipts | MCEngine, MCReceipts.cfg | MatchedEventReflected, StatusIsReported, AnsweredReceiptIsKept, ImplementsLifecycle | two jobs, two messages, the receipts `delivered`, `read` and `failed` of one of them in all orders and repeated, with a fault and a kill: no receipt reaches another job's row, what is recorded as matched stays visible, what was answered with 200 and could be applied is not lost, rows follow the life cycle |
| Progress | MCProgress, MCProgress.cfg | QueuedJobSettles, ShutdownCompletes | without faults and kills, no starvation by a job that is requeued for ever; a signal ends the process, with two other goroutines that main waits for |
| Ingress | MCIngress, MCIngress.cfg | TypeOK, AcceptedIsStored, OvershootIsBounded | 202 means stored for this tenant; quota overshoot is at most the number of requests in flight less one |
| AnalyticsSync | AnalyticsSync, AnalyticsSync.cfg | SyncTypeOK, PurgedIsStored, PurgedIsTerminal, NeverRegresses, BindingIsPermanent, OutcomeIsStored | the promises of a row; nothing is purged unsynced or unfinished; every outcome is stored in the end |
| WebhookQueue | WebhookQueue, WebhookQueue.cfg | TypeOK, RetriesAreBounded, CompletedIsDelivered, ImplementsQueue, EventEnds | the table and its pool are a WorkQueue (one holder, final completion), attempts are bounded, completion is truthful, no event whose tenant stays waits for ever |
| TenantRegistry | TenantRegistry, TenantRegistry.cfg | TypeOK, HydratedRowsStay, JobsKeepTenant, BootEnds | unique keys, hydration does not undo itself and leaves every stored job its tenant, boots end on a migrated table unless a phone number has changed |
| Limiter | Limiter, Limiter.cfg | TypeOK, OneLimiterPerKey, PhoneRateIsBounded, AllowReturns | the double check gives one limiter per key; a phone number's messages are bounded by bursts, rate, and how often the number was taken from a tenant, also when it has gone to another tenant; no deadlock between readers and writers |
| Dispatch | MCDispatch, MCDispatch.cfg | TypeOK, ConfirmedOncePerPost, TenantsGetTheirOwn, AcknowledgedIsHandled | a batched payload, repeated posts and changing rows: of a post one tenant confirms the payload and once, payloads and sessions go to tenants that have had the number in question, and what was answered with 200 is handled although the request is over |

Runs that are expected to find a violation, each of one sentence of the
repository (section 7): EarlyReceipt (`UnmatchedEventIsReconciled`, MCProgress),
FailedReceipt (`FailedReceiptFailsJob`, MCProgress), AtLeastOnce (`AtLeastOnce`,
MCDispatch with MCAtLeastOnce.cfg).

`CHECK_DEADLOCK FALSE` is set in AnalyticsSync, TenantRegistry, WebhookQueue,
Limiter and Dispatch only, where everything can come to rest: all jobs deleted,
the registry no longer written, all events completed, no tenant (and so nobody to
ask a limiter for), all payloads posted.

## 4. Bounds

* Engine: three jobs and two workers, so that both workers hold jobs while a
  third waits; three messages, one more than the workers, so that a violation of
  `PauseContained` fits; one fault, one kill, one shutdown. Receipts and the other
  goroutines are left to the next two runs.
* Receipts: two jobs and two messages, so that a receipt could reach the row of the
  other job; one worker, which binds one job while the receipts of the other move.
  One message (`Full`) has the receipts in `Kinds`: `delivered` and `read`, which come
  in either order, and `failed`, of a lower level; `sent` has the level of `failed`.
  The other has none (`Others`): its row is the one that must not move. Pauses, which
  only keep jobs from being claimed, are cut off by the constraint `Unpaused`. One
  fault, one kill (470 784 states).
* Progress: `Lucky = {j1}`: Meta may never answer the other job. One message, no
  receipts, no faults and no kills, which may cost a job for good
  (`OrphansAreBounded` says how many). Two goroutines in `Background`, one of them a
  poller: any number of them leave independently of each other.
* Ingress: two requests in flight, limits 0 (none) and 1, one key shared by two
  tenants.
* AnalyticsSync: a batch of one, so that a second job has to wait for the next.
* WebhookQueue: `MaxRetries` 2 instead of 5; the counter is only compared. One of
  three events is in `Forsaken`, one has no URL.
* TenantRegistry: two tenants and two phone numbers exchange them in three
  writes; two kills, so that one fits into the migration and one into the
  hydration; a table of an older release, or none.
* Limiter: bursts of 1 at a rate of 1, so that a limiter runs dry and is filled
  again; two workers, so that one creates while the other looks; two moves, because a
  number goes from one tenant to another in two (the first tenant gets another number,
  then the second gets this one), so that it has two limiters at once; one tick and
  one restart. Each of them is a summand of `PhoneRateIsBounded`.
* Dispatch: one payload with messages to two phone numbers, posted at most twice
  (Meta's repeat), one change of a row and one mishap: the smallest instance in
  which goroutines of two posts see different rows (545 492 states).

`MaxFaults`, `MaxCrashes`, `MaxShutdowns`, `MaxGivenUp`, `MaxChanges`,
`MaxWrites`, `MaxTicks`, `MaxMoves`, `MaxRestarts`, `MaxPosts` and `MaxMishaps`
bound the environment, not the program; `Reportable` (in the configurations
`Kinds`, `Others` and `Full`) chooses Meta's receipts. The theorems of section 6
hold for every value of all of them. Symmetry is used in the safety runs Engine,
Receipts (jobs only, since the messages differ) and Ingress, never with liveness.

## 5. Fairness

The Go scheduler runs every goroutine that can run, tickers fire and time passes:
weak fairness for every worker's step, for `BecomesDue`, for the handler's
goroutines, for the janitor, for the end of main and for the supervisor's restart
(in TenantRegistry for every step of the start). The other goroutines main waits for
finish the round they are in (weak fairness of `End`): their statements carry the
context and their requests have a timeout. They leave some time (strong fairness of
`Leave`): when the context is cancelled and a ticker has fired, `select` picks one of
the two at random, at each round anew. In Limiter the calls of `Allow`
that have begun run on, whether there are jobs or not; in Dispatch the detached
goroutines run, and nothing else need happen. Nothing in the
code obliges Meta to answer; progress is claimed for the jobs in `Lucky`, for
which the limiter and Meta let one of infinitely many attempts through (strong
fairness of `PassesWithLuck` and `AnsweredWithLuck`). In AnalyticsSync, one of
infinitely many posts is stored by Supabase (strong fairness of `PostStored`). No
fairness is assumed for Meta's receipts, posts of the control plane, clients,
requests, faults or kills.

## 6. Proofs

The theorems hold for any sets of jobs, workers, messages, tenants, phone numbers,
events and requests and any bounds, from the assumptions on constants stated in
the modules: `NoJob`, `NoWamid`, `NoEvent`, `NoKey`, `NoTenant` are not members,
`TenantOf` is a function, `Reportable` gives each message a set of receipts, `Pollers`
are some of `Background` and `Forsaken` some of the events, `First` and
`Messages` give every payload its numbers, bounds, rates and limits are natural
numbers, there is a limit; and `Workers` (WorkerPool, Limiter), `Handlers` and
`Jobs` (Ingress) are finite, because `PauseContained`, `OrphansAreBounded`,
`PhoneRateIsBounded` and `OvershootIsBounded` count their members. The program has
5 workers; nothing else is asked of their number.

*JobLifecycleProofs.* `IInv` is `TypeOK` and `RowShape`: a row that is absent or
queued has level 0 and no message id, a row in processing has level 1. That part
is what makes the step properties provable: a claim, a requeue, a failure or a
bind looks only at the status and the id of a row, and `RowShape` says that such a
row is still below level 2 (nothing `accepted` or failed is lowered) and that a
queued one has no id (a bound row never goes back to the queue). From it:
`TypeCorrect`, `LevelsNeverRegress`, `BindingsArePermanent`, `FailuresAreFinal`.

*EngineProofs, the workers.* `ExclusiveClaim` alone is not inductive: a claim
looks at the row, not at the other workers. `PoolInv` ties the two together: a job
that is held is in `processing` and has no id (`Held`), a worker that has Meta's
answer holds an id that Meta gave to its own job (`AnswerIsOwn`), and an id stored
in a row was given to that row (`BoundToOwn`), so that no two rows have the same
(`OneRowPerWamid`); `RowShape` is as above. One step
per action, and a lemma for what each group of actions does. Result:
`ClaimIsExclusive`. For the pause, `LateInv` adds to the messages that went out
late the workers that may still send one (`Sending`): their sum is at most the
number of workers, because while a tenant is paused a worker can leave that set by
a late message and cannot enter it.

*EngineProofs, the engine.* `IInv` adds to `PoolInv` the types of the webhook side
and of the process counters, the parts on Meta (`InboxIsReported`: a receipt that
waits was issued by Meta; `StatusIsReported`), and those on receipts
(`MatchesAreReflected`: a receipt that moved a row, and is not in `webhook_events`
yet, shows in a row; `MatchedEventReflected`; `AnsweredHaveRows`, which says that
a receipt in `answered` is of a message that has a row, and
`AnsweredReceiptIsKept`: when such a receipt is applied, either it moves the row
or the row is at its level). A kill or a shutdown only takes workers out of the
states `Held` and `LateInv` speak of, so it keeps `IInv` and, beside it, `LateInv`
(`LateStays`). `StepIsLifecycleStep` shows that every step of the engine is a step
of JobLifecycle or leaves the table alone; the case that needs an invariant is
`UpdateJobMonotonic`, which moves one row because at most one has the id. Since
the engine implements JobLifecycle, what is proved of JobLifecycle holds of the
engine (`EngineRowPromises`) and is used inside the proof: a receipt once visible
stays visible because bound rows keep their id and their level does not fall. That
the engine implements WorkQueue rests on three facts: who holds a job holds one
that is taken (`HeldIsTaken`), a receipt or a later update changes nothing the
queue can see (`RiseIsInvisible`), and the only steps that change the state of a
held job are its holder's (`HolderReleases`). Results: `TypeCorrect`,
`ClaimStaysExclusive`, `PauseStaysContained`, `BindingIsOwn`,
`OneRowPerWamidHolds`, `StatusComesFromMeta`, `MatchedEventsShow`,
`AnsweredReceiptsStay`, `NeverResentAfterBind`, `EngineImplementsLifecycle`,
`EngineImplementsQueue`, `EngineRowPromises`.

*EngineProofs, the losses.* `OrphansAreBounded` counts rows that nobody holds, so
it needs to know who may let go of one. `OwnJobs`: a worker between its claim and
the end of its iteration has a job, no two the same. `AtRisk` are the workers that
may forget their job without a further fault: one that could not record a failure
and still pauses the tenant, and, once the context is cancelled, all that have a
job. When such a worker forgets it, there is one orphan more and one worker at
risk less. `LossesArePaid`: orphans and workers at risk are together at most
`Budget`, one for every fault and all workers for every kill and shutdown; it is
the fault that puts a worker at risk, and a stop that charges for every worker
(`StopsAreCharged`). What each of the worker's steps does to its job comes in four
kinds (`TakesJob`, `StaysIdle`, `KeepsJob`, `PutsJobDown`), so the counting is
done for these and not for twenty actions. Result: `LossesAreAccountedFor`.

*AnalyticsSyncProofs* use the invariant of JobLifecycle and one fact more: the end
of a job is not taken back, because an ended job is at the level of its outcome or
above (`EndsAreHigh`) and only a higher level overwrites it. So what the worker
read as ended still is when it marks it (`BatchHasEnded`), what is marked is
stored (`SyncedHasEnded`), and only marked jobs are deleted. That a level never
falls (`LevelsRise`) also keeps the copy in Supabase behind the table
(`StoredIsReached`), although a batch is posted some time after it was read. Sync
and cleanup leave the rows to JobLifecycle (`SyncImplementsLifecycle`), so its
promises hold here too. Results: `SyncTypeCorrect`, `PurgedStaysStored`,
`PurgedStaysTerminal`, `OutcomesAreFinal`, `CopyIsNeverAhead`, `SyncRowPromises`.

*IngressProofs.* `OvershootIsBounded` needs to know what a request in flight works
with: a limit the tenant has had (`Copies`), below the highest one unless there
was a time without any (`Ceilings`). The step that matters is `CheckQuota`: the
count it sees is below its limit, and with the other requests past their count, at
most all handlers but this one, the sum stays below (`Bounded`, with the
cardinalities of finite sets). `OneJobPerKey` is inductive by itself: the conflict
is found by the statement that would insert. Results: `TypeCorrect`,
`AcceptedStaysStored`, `OvershootStaysBounded`, `KeysHaveOneJob`.

*TenantRegistryProofs.* Each upsert keeps both keys unique unless it fails.
`HydratedRowsStay` is inductive once the fetched rows have unique keys. For
`JobsKeepTenant`: every row of the edge, of a post or of a hydration belongs to a
tenant the registry has or has given up (`AllKnown`), so the tenant of a stored
job is in what a hydration fetches (`NamedAreKept`), and the row is there when it
ends. For the migration, `Migrated` says at which step of the start the table is
of which release, so that a kill between two statements leaves a table that the
next start takes up where it was left. Results: `TypeCorrect`,
`HydrationKeepsRows`, `JobsNeverLoseTenant`, `ServesOnMigratedTable`.

*WebhookQueueProofs.* What a worker has in hand is in `processing` and its copy of
the counter is that of the row (`Held`), nobody else has it (`OneHolder`), the
counter counts all attempts but the one under way or lost (`Counted`), and a
worker that has heard of a success is right (`Truthful`). Results: `TypeCorrect`,
`RetriesStayBounded`, `CompletedWasDelivered`, `TableImplementsQueue`.

*LimiterProofs.* A worker inside `Allow` has a key and, when it asks, a limiter
(`Called`); the rest is `OneLimiterPerKey` itself: under the write lock a limiter
is made only for a key that has none. `MapIsNotRaced` is the lock's own invariant.
`PhoneRateIsBounded` bounds what has passed and says nothing of what may still
pass, so it is not inductive. `Paid` is an account for each number: what it has
had, one message for each worker that calls for a tenant which has lost the number
(`Stale`), and what the limiter of its present tenant holds (`Holds`) are together
at most `Limit`. A message that passes takes a token of that limiter, because
there is one limiter for a key, or makes a stale worker idle; the rest of the
steps add to the account what they add to the limit: a tick the rate, a restart a
burst, and a number that is taken from its tenant the callers of that tenant, who are
now stale, and the burst of the next owner, which a number without an owner pays in
advance (`LimitsGrow`). Results: `TypeCorrect`, `KeysHaveOneLimiter`,
`NumbersKeepTheirRate`, `MapIsNeverRaced`.

*DispatchProofs.* A goroutine that may still post or write belongs to a post that
Meta has made and that has left the wire (`Fresh`); so the post that sets it off
is its first, and a payload is offered once for a post however its rows and
goroutines end (`OfferedOnce`); what is confirmed was offered
(`ConfirmedIsOffered`). What a goroutine has read was true when it was read, not
when it is used: `RowsAreOwned` says that the history `owned` has every row,
`Addressed` and `Opening` that it has what the goroutines read, and it only grows.
Results: `TypeCorrect`, `ConfirmedOnceHolds`, `NobodyGetsAnothersMessages`.

With these, every invariant and every action property that a passing run checks is
a theorem. The inductive invariants of `OrphansAreBounded` and
`PhoneRateIsBounded`, and the statements that have no run of their own
(`OneRowPerWamid`, `StoredIsReached`, `OneJobPerKey`, `Migrated`, `MapIsNotRaced`),
were checked with TLC on the constants of their component's run before they were
proved.

Only model-checked: the liveness properties `QueuedJobSettles`,
`ShutdownCompletes`, `OutcomeIsStored`, `EventEnds`,
`BootEnds`, `AllowReturns` and `AcknowledgedIsHandled` (fairness and ENABLED are
out of TLAPS's reach). No module declares a RECURSIVE operator and nothing needs
induction over data.

## 7. What the documentation says and the code does not do

Shown by a run:

* `janitor.go:28`, unmatched events are reconciled: `parseWebhookDummy` finds no
  message id, so a receipt that overtakes the worker is never applied.
* `docs/public-api.md:123`, `failed` is the status of a permanent failure: the
  receipt `failed` has the level of `sent` and is dropped after it.
* `docs/webhooks.md:9`, up to 5 retries, and `:7`, at-least-once delivery: the
  dispatcher posts a payload once and logs what the client answers. (The queue
  that would retry is filled only by a handler that is not routed.)

Seen while modelling, not given a run:

* `docs/concurrency/goroutine-model.md:52`, "Workers finish their **in-flight**
  jobs": `main.go:165` cancels the context that the workers' statements carry, so
  a job in work stays in `processing`.
* `docs/internal/request-lifecycle.md:13`, the quota guard ensures the limit: two
  requests can both pass it (`OvershootIsBounded` says by how much).
* A kill leaves claimed jobs in `processing` for ever (`repository.go:26` claims
  `queued` only), against "zero message loss" (`README.md:7`);
  `OrphansAreBounded` says how many. So does an event of `client_webhook_queue`
  whose worker dies.
* A repeated request with a known `Idempotency-Key` is refused with 429 if the
  quota is used up, because the quota comes first (`client.go:57`), against
  `docs/public-api.md:131`; and the answer to a repeat is the literal `existing`.
* A job synced as `delivered` is never synced again as `read` (`synced` is never
  reset), against "reconciles the edge state" (`README.md:59`).
* A pause made by the edge never reaches Supabase and is undone by the next
  hydration (`repository.go:248`), against `README.md:13`.
* A tenant that the edge knows under another phone number than Supabase makes
  every boot fail (`UpsertTenantByPhone` against the primary key, `main.go:61`);
  the property `BootEnds` names the condition (`Moved`).
* When the registry gives a phone number to another tenant, the id of its row
  changes; jobs of the id that was given up are then neither claimed nor failed,
  and the foreign key of `schema.sql:36` is not enforced (`db.go:26`).
* `docs/internal/request-lifecycle.md:24`, a 4xx answer pauses the tenant: only
  status 400 and code 131048 do (`IsPolicyError`); 401 and 429 fail the job. So
  rate-limit answers of Meta (429) fail a job for good.
* `docs/internal/request-lifecycle.md:33`, a status update is put into
  `client_webhook_queue`: the routed handler does not.
* `limiter.go:35`, 75 a second is safe below Meta's 80: with the burst of 10, 85
  messages pass in a second after a pause, and one more burst for every change of
  the number's owner (`PhoneRateIsBounded`).
* A payload that batches changes of several phone numbers is passed on to the
  tenant of the first change only (`meta_webhook.go:40`).
* `HandleSyncTenant` takes a missing `messaging_limit` for 0, no limit, and a
  missing `is_paused` for false (`internal.go:67-86`); a URL that is withdrawn
  (null) is kept (`COALESCE`, `repository.go:221`).
* The goroutine of a receipt or a payload lives in memory only: a stop after the 200
  loses it, and so does a failing statement of its own, and Meta does not post again
  what was answered (`meta_webhook.go:91`). `AnsweredReceiptIsKept` and
  `AcknowledgedIsHandled` excuse these and nothing else.
* A client that takes a payload and answers after 5 seconds has it, but nobody knows;
  where a change of a batch names another tenant's number, the first tenant gets that
  message, too. `ConfirmedOncePerPost` and `TenantsGetTheirOwn` say what is kept.
* An answer of Meta whose message entry has an empty id is taken for a success and the
  empty id is stored (`meta_client.go:190`); the models take Meta to give every
  message an id.
* An event whose tenant is gone when it is claimed stays in `processing`
  (`repository.go:424`): `EventEnds` is not claimed for it.
* A job whose payload is not JSON fails in `SendMessage` with an error that counts
  as transient and is requeued for ever.

## 8. Not modelled

* The comparisons of signatures, tokens and API keys with their secrets: they keep
  no state. What they decide is an action (`Refuse` in Dispatch,
  `APIKeyMiddleware` in Ingress).
* Generated request decoding and the server's glue: no state, no decision.
* The indexes of the database, which change no answer.
* The expiry of `active_sessions`, which nothing reads.
* The envelope built for Meta, payloads, HMAC signatures, logging.
* The janitor's stale detector, which only logs.
* What Supabase does with a row it has already: the schema of its tables is not in
  the repository.

## 9. Plan

In the order in which the modules were written:

1. JobTable, JobLifecycle, EdgeState, WorkerPool, MetaWebhook, Engine, Progress,
   with the proofs of the first six in two modules: done.
2. Ingress, AnalyticsSync, WebhookQueue, TenantRegistry, with their runs: done.
3. MetaClient, Janitor, Limiter, Dispatch, DatabaseInit: done.
4. WorkQueue, which Engine and WebhookQueue implement, with both proofs: done.
5. The proofs of Ingress, AnalyticsSync, WebhookQueue, TenantRegistry, Limiter and
   of `PauseContained`: done.
6. The proofs of Dispatch, of `OrphansAreBounded` and `PhoneRateIsBounded`, and of
   the invariants that make Ingress, AnalyticsSync, Limiter and the start more than
   their runs say: done.
7. Next: Engine and AnalyticsSync as one specification on the table, from the proofs
   of both that they implement JobLifecycle; a specification of what Dispatch
   promises a client, which it implements.
