------------------------------ MODULE Ingress ------------------------------
(***************************************************************************)
(* POST /v1/messages: APIKeyMiddleware (internal/api/middleware.go) and    *)
(* HandleSendMessage (internal/api/client.go).  Every request runs in a    *)
(* goroutine of its own and makes up to three separate statements: it      *)
(* reads the tenant, counts the tenant's jobs of the last 24 hours, and    *)
(* inserts the job.  Between them other requests, the control plane, the   *)
(* workers and the clock act, so what was read may be stale when used.     *)
(*                                                                         *)
(* Requests that are malformed (400) leave no trace and are left out.      *)
(***************************************************************************)
EXTENDS Naturals, FiniteSets

CONSTANTS
  Handlers,    \* bound: the requests that can be in flight at a time
  Tenants,
  Jobs,        \* the ULIDs of inserted jobs; bounds how many there can be
  Keys,        \* values of the header Idempotency-Key
  NoKey,       \* the header is missing
  NoTenant,    \* no tenant: a handler without a request
  Limits,      \* values of column messaging_limit
  MaxChanges   \* bound: how often the control plane changes a tenant

ASSUME NoKeyAssumption == NoKey \notin Keys
ASSUME NoTenantAssumption == NoTenant \notin Tenants
ASSUME LimitsAssumption == Limits \subseteq Nat /\ Limits # {}
ASSUME FiniteAssumption == IsFiniteSet(Handlers) /\ IsFiniteSet(Jobs)
ASSUME MaxChangesAssumption == MaxChanges \in Nat

VARIABLES
  tenants,   \* table tenants: messaging_limit and is_paused
  jobs,      \* table jobs: tenant, key, and what the quota asks of a row
  request,   \* the request of each handler
  ceiling,   \* history: the largest limit each tenant has had
  changes    \* changes by the control plane so far

vars == <<tenants, jobs, request, ceiling, changes>>

\* "none": not inserted.  "counted": created less than 24 hours ago and not
\* failed.  "failed": failed.  "old": created earlier.  "purged": deleted.
JobStates == {"none", "counted", "failed", "old", "purged"}

JobRow == [state : JobStates, tenant : Tenants \cup {NoTenant}, key : Keys \cup {NoKey}]

Answers == {"accepted", "existing", "quota", "error"}

Request == [pc     : {"free", "count", "insert", "done"},
            tenant : Tenants \cup {NoTenant},
            key    : Keys \cup {NoKey},
            limit  : Limits,
            answer : Answers \cup {"none"}]

NoLimit == CHOOSE l \in Limits : TRUE

Free == [pc |-> "free", tenant |-> NoTenant, key |-> NoKey, limit |-> NoLimit,
         answer |-> "none"]

InTable(j) == jobs[j].state \notin {"none", "purged"}

Init ==
  /\ tenants \in [Tenants -> [limit : Limits, paused : {FALSE}]]
  /\ jobs = [j \in Jobs |-> [state |-> "none", tenant |-> NoTenant, key |-> NoKey]]
  /\ request = [h \in Handlers |-> Free]
  /\ ceiling = [t \in Tenants |-> tenants[t].limit]
  /\ changes = 0

----------------------------------------------------------------------------
(* The statements.                                                         *)

CountTenantJobsInWindow(t) ==
  Cardinality({j \in Jobs : jobs[j].tenant = t /\ jobs[j].state = "counted"})

\* Mutant: the key alone is unique.
ConflictOfAnyTenant(t, k) == k # NoKey /\ \E j \in Jobs : InTable(j) /\ jobs[j].key = k

\* UNIQUE(tenant_id, idempotency_key); NULL conflicts with nothing.
Conflict(t, k) == k # NoKey /\ \E j \in Jobs : InTable(j) /\ jobs[j].tenant = t /\ jobs[j].key = k

InsertJob(j, t, k) ==
  /\ jobs[j].state = "none"
  /\ jobs' = [jobs EXCEPT ![j] = [state |-> "counted", tenant |-> t, key |-> k]]

----------------------------------------------------------------------------
(* A request.                                                              *)

Answer(h, a) ==
  request' = [request EXCEPT ![h].pc = "done", ![h].answer = a]

\* Mutant: the copy holds what is left of the quota after this request.
APIKeyMiddlewareCountingDown(h, t, k) ==
  /\ request[h].pc = "free"
  /\ ~tenants[t].paused
  /\ request' = [request EXCEPT ![h] =
       [pc     |-> IF tenants[t].limit > 0 THEN "count" ELSE "insert",
        tenant |-> t, key |-> k, limit |-> tenants[t].limit - 1, answer |-> "none"]]
  /\ UNCHANGED <<tenants, jobs, ceiling, changes>>

\* The middleware finds the tenant and lets it pass; the handler works with
\* this copy of the tenant's row from now on.  A quota of 0 is no quota.
APIKeyMiddleware(h, t, k) ==
  /\ request[h].pc = "free"
  /\ ~tenants[t].paused
  /\ request' = [request EXCEPT ![h] =
       [pc     |-> IF tenants[t].limit > 0 THEN "count" ELSE "insert",
        tenant |-> t, key |-> k, limit |-> tenants[t].limit, answer |-> "none"]]
  /\ UNCHANGED <<tenants, jobs, ceiling, changes>>

\* Mutant: the boundary is passed.
CheckQuotaLate(h) ==
  /\ request[h].pc = "count"
  /\ IF CountTenantJobsInWindow(request[h].tenant) > request[h].limit
     THEN Answer(h, "quota")
     ELSE request' = [request EXCEPT ![h].pc = "insert"]
  /\ UNCHANGED <<tenants, jobs, ceiling, changes>>

CheckQuota(h) ==
  /\ request[h].pc = "count"
  /\ IF CountTenantJobsInWindow(request[h].tenant) >= request[h].limit
     THEN Answer(h, "quota")
     ELSE request' = [request EXCEPT ![h].pc = "insert"]
  /\ UNCHANGED <<tenants, jobs, ceiling, changes>>

Insert(h) ==
  /\ request[h].pc = "insert"
  /\ LET t == request[h].tenant
         k == request[h].key
     IN  IF Conflict(t, k)
         THEN Answer(h, "existing") /\ UNCHANGED jobs
         ELSE (\E j \in Jobs : InsertJob(j, t, k)) /\ Answer(h, "accepted")
  /\ UNCHANGED <<tenants, ceiling, changes>>

\* The client goes away, which cancels the statement, or the statement fails.
StatementFails(h) ==
  /\ request[h].pc \in {"count", "insert"}
  /\ Answer(h, "error")
  /\ UNCHANGED <<tenants, jobs, ceiling, changes>>

\* The answer is written (or lost: the client may send the same key again).
Finish(h) ==
  /\ request[h].pc = "done"
  /\ request' = [request EXCEPT ![h] = Free]
  /\ UNCHANGED <<tenants, jobs, ceiling, changes>>

----------------------------------------------------------------------------
(* What happens around the requests.                                       *)

\* A job fails and leaves the quota, leaves the window of 24 hours, or is
\* deleted by the cleanup janitor once it is synced and old.  (A job that Meta
\* reported as failed would count again after a later receipt of the same
\* message; Meta sends none after "failed".)
JobMoves(j) ==
  /\ \E s \in JobStates :
       /\ \/ jobs[j].state = "counted" /\ s \in {"failed", "old"}
          \/ jobs[j].state = "failed" /\ s = "old"
          \/ jobs[j].state = "old" /\ s = "purged"
       /\ jobs' = [jobs EXCEPT ![j].state = s]
  /\ UNCHANGED <<tenants, request, ceiling, changes>>

\* HandleSyncTenant, HandlePauseTenant or a policy pause write the tenant.
TenantChanges(t) ==
  /\ changes < MaxChanges
  /\ changes' = changes + 1
  /\ \E l \in Limits, p \in BOOLEAN :
       /\ tenants' = [tenants EXCEPT ![t] = [limit |-> l, paused |-> p]]
       /\ ceiling' = [ceiling EXCEPT ![t] =
            IF @ = 0 \/ l = 0 THEN 0 ELSE IF l > @ THEN l ELSE @]
  /\ UNCHANGED <<jobs, request>>

Next ==
  \/ \E h \in Handlers :
       \/ \E t \in Tenants, k \in Keys \cup {NoKey} : APIKeyMiddleware(h, t, k)
       \/ CheckQuota(h) \/ Insert(h) \/ StatementFails(h) \/ Finish(h)
  \/ \E j \in Jobs : JobMoves(j)
  \/ \E t \in Tenants : TenantChanges(t)

Spec == Init /\ [][Next]_vars

----------------------------------------------------------------------------
(***************************************************************************)
(* Properties.                                                             *)
(***************************************************************************)

TypeOK ==
  /\ tenants \in [Tenants -> [limit : Limits, paused : BOOLEAN]]
  /\ jobs \in [Jobs -> JobRow]
  /\ request \in [Handlers -> Request]
  /\ ceiling \in [Tenants -> Limits \cup {0}]
  /\ changes \in 0..MaxChanges

\* A request that is told 202 has a job of its own tenant with its key, be it
\* the one it inserted or the one it met (until the job is deleted).
AcceptedIsStored ==
  \A h \in Handlers : request[h].answer \in {"accepted", "existing"} =>
    \E j \in Jobs :
      /\ jobs[j].state # "none"
      /\ jobs[j].tenant = request[h].tenant
      /\ jobs[j].key = request[h].key

\* Counting and inserting are two statements, so a tenant can go over its
\* quota, but by no more than the other requests in flight at the time.
OvershootIsBounded ==
  \A t \in Tenants : ceiling[t] > 0 =>
    CountTenantJobsInWindow(t)
      + Cardinality({h \in Handlers : request[h].pc = "insert" /\ request[h].tenant = t})
      <= ceiling[t] + Cardinality(Handlers) - 1

=============================================================================
