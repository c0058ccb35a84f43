------------------------------- MODULE Engine -------------------------------
(***************************************************************************)
(* The engine as cmd/bhejna/main.go puts it together: the worker pool and  *)
(* the webhook handler on one jobs table, started, shut down by a signal,  *)
(* or killed at any point, and started again on the same database file.    *)
(* Of the other goroutines main waits for (webhook workers, janitor, sync  *)
(* and cleanup) only the loop is kept: what they do to their tables is the *)
(* subject of modules of their own.                                        *)
(*                                                                         *)
(* What survives a stop is the database (jobs, due, paused, events) and    *)
(* what Meta did (sent, reported).  Workers and the goroutines of the      *)
(* webhook handler do not.                                                 *)
(***************************************************************************)
EXTENDS WorkerPool, Janitor

CONSTANTS
  Background,     \* the goroutines besides the pool that main waits for
  Pollers,        \* those of them that poll: their select has a default, no ticker
  MaxCrashes,     \* bound: how often the process is killed
  MaxShutdowns    \* bound: how often it is shut down by a signal

ASSUME PollersAssumption == Pollers \subseteq Background
ASSUME MaxStopsAssumption == MaxCrashes \in Nat /\ MaxShutdowns \in Nat

VARIABLES
  up,          \* the process is running
  crashes,     \* kills so far
  shutdowns,   \* signals so far
  background   \* where each goroutine of Background is in its loop

stopVars == <<up, crashes, shutdowns>>
processVars == <<stopVars, background>>

vars == <<edgeVars, poolVars, hookVars, processVars>>

AtSelect == [b \in Background |-> "select"]

Init ==
  /\ EdgeInit /\ PoolInit /\ HookInit
  /\ up = TRUE /\ crashes = 0 /\ shutdowns = 0
  /\ background = AtSelect

----------------------------------------------------------------------------
(* The other goroutines.                                                   *)

\* A job to poll for, or a tick.  When ctx is cancelled and a tick is due, too,
\* select may choose the tick.
Begin(b) ==
  /\ background[b] = "select"
  /\ ctx = "live" \/ b \notin Pollers
  /\ background' = [background EXCEPT ![b] = "work"]

\* Statements carry ctx, requests have a timeout (5 s webhooks, 10 s sync), and
\* a webhook worker that panics is recovered: all of it comes back to the loop.
End(b) ==
  /\ background[b] = "work"
  /\ background' = [background EXCEPT ![b] = "select"]

Leave(b) ==
  /\ background[b] = "select"
  /\ ctx = "cancelled"
  /\ background' = [background EXCEPT ![b] = "left"]

----------------------------------------------------------------------------
(* The process.                                                            *)

\* SIGTERM: cancel().  Requests in flight and the workers go on; srv.Shutdown
\* waits for the requests, but for 10 seconds only.
Shutdown ==
  /\ up
  /\ shutdowns < MaxShutdowns
  /\ shutdowns' = shutdowns + 1
  /\ Cancel
  /\ UNCHANGED <<hookVars, up, crashes, background>>

\* What lives in memory is gone; the next process starts with a new context.
Halt ==
  /\ up' = FALSE
  /\ ctx' = "live"
  /\ worker' = [w \in Workers |-> Idle]
  /\ background' = AtSelect
  /\ inbox' = {}
  /\ recording' = {}
  /\ answered' = {}
  /\ UNCHANGED <<edgeVars, due, paused, lateSends, reported, events>>

\* pool.Stop(), webhookPool.Stop() and bgWg.Wait() return and main ends; it
\* waits for no goroutine of the webhook handler.
Stop ==
  /\ up
  /\ \A w \in Workers : worker[w].pc = "exited"
  /\ \A b \in Background : background[b] = "left"
  /\ Halt
  /\ UNCHANGED <<crashes, shutdowns>>

Crash ==
  /\ up
  /\ crashes < MaxCrashes
  /\ crashes' = crashes + 1
  /\ Halt
  /\ UNCHANGED shutdowns

\* HydrateTenantsFromSupabase overwrites is_paused with what Supabase holds.
Boot ==
  /\ ~up
  /\ up' = TRUE
  /\ \E p \in [Tenants -> BOOLEAN] : SetPaused(p)
  /\ UNCHANGED <<edgeVars, due, ctx, worker, hookVars, crashes, shutdowns, background>>

----------------------------------------------------------------------------
PoolStep == up /\ PoolNext /\ UNCHANGED <<hookVars, processVars>>
HookStep == up /\ HookNext /\ UNCHANGED <<poolVars, processVars>>

\* The statements of the janitor carry the context, too.
JanitorStep ==
  /\ up /\ ctx = "live"
  /\ \E e \in Wamids \X Receipts : ParkAndSweep(e)
  /\ UNCHANGED <<poolVars, processVars>>

BackgroundStep ==
  /\ up
  /\ \E b \in Background : Begin(b) \/ End(b) \/ Leave(b)
  /\ UNCHANGED <<edgeVars, poolVars, hookVars, stopVars>>

Next ==
  \/ PoolStep \/ HookStep \/ JanitorStep \/ BackgroundStep
  \/ Shutdown \/ Stop \/ Crash \/ Boot

Spec == Init /\ [][Next]_vars

----------------------------------------------------------------------------
(***************************************************************************)
(* Properties.                                                             *)
(***************************************************************************)

TypeOK ==
  /\ EdgeTypeOK /\ PoolTypeOK /\ HookTypeOK
  /\ up \in BOOLEAN
  /\ crashes \in 0..MaxCrashes
  /\ shutdowns \in 0..MaxShutdowns
  /\ background \in [Background -> {"select", "work", "left"}]

\* The message identity stored with a job is that of a message Meta accepted
\* for this job (SetJobMetaID), never of another worker's message.
BoundToOwnMessage ==
  \A j \in Jobs : Unbound(j) \/ sent[jobs[j].wamid] = j

\* A message identity is stored with at most one job, although no statement
\* asks for that: an update by meta_message_id never moves two jobs.
OneRowPerWamid ==
  \A j, k \in Jobs : ~Unbound(j) /\ jobs[j].wamid = jobs[k].wamid => j = k

\* The job of message m is at the level of receipt s or above.
Reflected(m, s) == \E j \in Jobs : jobs[j].wamid = m /\ jobs[j].level >= statusLevels[s]

\* An event recorded as matched is visible in the row of its job, whatever
\* workers and later receipts have done to the row since: a matched event is
\* never looked at again (GetUnmatchedEvents).
MatchedEventReflected ==
  \A m \in Wamids, s \in Receipts :
    events[<<m, s>>] = "matched" => Reflected(m, s)

\* A receipt that Meta was told is taken (200), for a message whose id is
\* stored, is not lost while the process lives and the receipt's own statements
\* work: its goroutine has yet to apply it, or the job has its level and the
\* receipt is in webhook_events or about to be.  This holds although workers
\* and other receipts, repeated and out of order, write the same row meanwhile.
AnsweredReceiptIsKept ==
  \A e \in answered :
    \/ e \in inbox
    \/ /\ Reflected(e[1], e[2])
       /\ \/ events[e] # "absent"
          \/ \E r \in recording : <<r.wamid, r.status>> = e

\* A status that only a receipt can give is one Meta reported for a message
\* it accepted for this job: receipts are never applied to another job, and a
\* "failed" of a worker (level 6) is told from one of Meta (level 3).
StatusIsReported ==
  \A j \in Jobs : jobs[j].status \in Receipts /\ jobs[j].level # 6 =>
    /\ ~Unbound(j)
    /\ sent[jobs[j].wamid] = j
    /\ jobs[j].status \in reported[jobs[j].wamid]

\* Once a job's message identity is stored, the job is not sent again, also
\* not after a crash and a restart.
NoResendAfterBind ==
  [][\A j \in Jobs : ~Unbound(j) =>
       \A m \in Wamids : sent'[m] = j => sent[m] = j]_vars

Lifecycle == INSTANCE JobLifecycle WITH
  Jobs <- Jobs, NoWamid <- NoWamid, Wamids <- Wamids, jobs <- jobs

\* The engine implements the life cycle of a row.
ImplementsLifecycle == Lifecycle!Spec

\* Rows in processing that no worker has in hand.
Orphans == {j \in Jobs : jobs[j].status = "processing" /\ \A w \in Workers : worker[w].job # j}

\* No path through the worker's loop forgets its job: a job is left behind in
\* processing, from where nothing takes it up again, only by a failing
\* statement or with the workers of a process that is killed or shut down.
OrphansAreBounded ==
  Cardinality(Orphans) <= faults + Cardinality(Workers) * (crashes + shutdowns)

\* The jobs table and the workers as a queue: what becomes of a job after its
\* message was accepted or given up is no more the queue's business.
QueueState ==
  [j \in Jobs |-> IF jobs[j].status = "absent" THEN "absent"
                  ELSE IF jobs[j].status = "queued" THEN "waiting"
                  ELSE IF jobs[j].status = "processing" /\ Unbound(j) THEN "taken"
                  ELSE "done"]

QueueHolders ==
  [j \in Jobs |-> {w \in Workers : worker[w].pc \in Holding /\ worker[w].job = j}]

Queue == INSTANCE WorkQueue WITH
  Items <- Jobs, Workers <- Workers, state <- QueueState, holders <- QueueHolders

\* The engine implements a queue: a job is put back or ended by the worker that
\* holds it and by nobody else, and a job that is ended is never given out
\* again, whatever receipts, failing statements, kills and restarts do.
ImplementsQueue == Queue!Spec

=============================================================================
