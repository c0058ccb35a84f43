------------------------------ MODULE Limiter -------------------------------
(***************************************************************************)
(* The rate limiter of internal/engine/limiter.go as the workers use it:   *)
(* a worker reads the tenant's row, makes the key tenant:phone, looks the  *)
(* key up under the read lock, creates the limiter under the write lock if *)
(* it was not there, and asks it.  The lock is in the program counters: a  *)
(* worker at "lookup" holds it for reading, one at "create" for writing.   *)
(*                                                                         *)
(* The row may change after it was read, and nothing takes a limiter out   *)
(* of the map but the end of the process.                                  *)
(***************************************************************************)
EXTENDS Naturals, Sequences, FiniteSets, Functions

CONSTANTS
  Workers,      \* the goroutines of the pool
  Tenants,
  Phones,       \* phone_number_ids
  Burst,        \* tokens a limiter holds at most (10 in the code)
  Rate,         \* tokens it gains in a unit of time (75 a second)
  MaxTicks,     \* bound: units of time
  MaxMoves,     \* bound: changes of a tenant's phone number
  MaxRestarts   \* bound: restarts of the process

ASSUME FiniteAssumption == IsFiniteSet(Workers)
ASSUME RatesAssumption == Burst \in Nat /\ Rate \in Nat
ASSUME BoundsAssumption == MaxTicks \in Nat /\ MaxMoves \in Nat /\ MaxRestarts \in Nat

VARIABLES
  rows,       \* table tenants: the phone number of each tenant that has a row
  limiters,   \* the map: the limiter of each key, 0 for none
  tokens,     \* what is left in each limiter that was created
  worker,     \* where each goroutine is, its key and its limiter
  allowed,    \* history: messages let through for each phone number
  lost,       \* history: how often a phone number was taken from a tenant
  ticks, moves, restarts

vars == <<rows, limiters, tokens, worker, allowed, ticks, lost, moves, restarts>>

MapKeys == Tenants \X Phones
NoKey == <<>>

Places == {"idle", "rlock", "lookup", "lock", "create", "ask"}
Idle == [pc |-> "idle", key |-> NoKey, limiter |-> 0]

\* phone_number_id is UNIQUE.
Assignments == UNION {Injection(T, Phones) : T \in SUBSET Tenants}

Init ==
  /\ rows \in Assignments
  /\ limiters = [k \in MapKeys |-> 0]
  /\ tokens = <<>>
  /\ worker = [w \in Workers |-> Idle]
  /\ allowed = [p \in Phones |-> 0]
  /\ lost = [p \in Phones |-> 0]
  /\ ticks = 0 /\ moves = 0 /\ restarts = 0

----------------------------------------------------------------------------
(* A worker.                                                               *)

At(w, pc) == worker[w].pc = pc
Goto(w, pc) == worker' = [worker EXCEPT ![w].pc = pc]
Have(w, l) == worker' = [worker EXCEPT ![w].pc = "ask", ![w].limiter = l]

\* The row of the job's tenant is read; Allow is called with what it says.
GetTenant(w) ==
  /\ At(w, "idle")
  /\ \E t \in DOMAIN rows :
       worker' = [worker EXCEPT ![w] = [pc |-> "rlock", key |-> <<t, rows[t]>>, limiter |-> 0]]
  /\ UNCHANGED <<rows, limiters, tokens, allowed, ticks, lost, moves, restarts>>

\* A goroutine that waits for the write lock keeps new readers out.
RLock(w) ==
  /\ At(w, "rlock")
  /\ \A v \in Workers : worker[v].pc \notin {"lock", "create"}
  /\ Goto(w, "lookup")
  /\ UNCHANGED <<rows, limiters, tokens, allowed, ticks, lost, moves, restarts>>

\* Mutant: the read lock is kept on the way to the write lock.
LookUpHoldingLock(w) ==
  /\ At(w, "lookup")
  /\ LET l == limiters[worker[w].key]
     IN  IF l # 0 THEN Have(w, l) ELSE UNCHANGED worker
  /\ UNCHANGED <<rows, limiters, tokens, allowed, ticks, lost, moves, restarts>>

\* The map is read and the read lock released.
LookUp(w) ==
  /\ At(w, "lookup")
  /\ LET l == limiters[worker[w].key]
     IN  IF l # 0 THEN Have(w, l) ELSE Goto(w, "lock")
  /\ UNCHANGED <<rows, limiters, tokens, allowed, ticks, lost, moves, restarts>>

Lock(w) ==
  /\ At(w, "lock")
  /\ \A v \in Workers : worker[v].pc \notin {"lookup", "create"}
  /\ Goto(w, "create")
  /\ UNCHANGED <<rows, limiters, tokens, allowed, ticks, lost, moves, restarts>>

NewLimiter(w) ==
  /\ tokens' = Append(tokens, Burst)
  /\ limiters' = [limiters EXCEPT ![worker[w].key] = Len(tokens')]
  /\ Have(w, Len(tokens'))

\* Mutant: the map is not looked at again under the write lock.
CreateUnchecked(w) ==
  /\ At(w, "create")
  /\ NewLimiter(w)
  /\ UNCHANGED <<rows, allowed, ticks, lost, moves, restarts>>

\* Mutant: the new limiter is not put into the map.
CreateUnstored(w) ==
  /\ At(w, "create")
  /\ LET l == limiters[worker[w].key]
     IN  IF l # 0
         THEN Have(w, l) /\ UNCHANGED tokens
         ELSE tokens' = Append(tokens, Burst) /\ Have(w, Len(tokens'))
  /\ UNCHANGED <<rows, limiters, allowed, ticks, lost, moves, restarts>>

\* The map is looked at again, because another goroutine may have been first.
Create(w) ==
  /\ At(w, "create")
  /\ LET l == limiters[worker[w].key]
     IN  IF l # 0
         THEN Have(w, l) /\ UNCHANGED <<limiters, tokens>>
         ELSE NewLimiter(w)
  /\ UNCHANGED <<rows, allowed, ticks, lost, moves, restarts>>

\* Mutant: a limiter goes one below zero.
AllowOverdrawn(w) ==
  /\ At(w, "ask")
  /\ LET l == worker[w].limiter
         p == worker[w].key[2]
     IN  IF tokens[l] >= 0
         THEN /\ tokens' = [tokens EXCEPT ![l] = @ - 1]
              /\ allowed' = [allowed EXCEPT ![p] = @ + 1]
         ELSE UNCHANGED <<tokens, allowed>>
  /\ worker' = [worker EXCEPT ![w] = Idle]
  /\ UNCHANGED <<rows, limiters, ticks, lost, moves, restarts>>

\* The limiter's own Allow: a token is taken, or the job goes back to the queue.
Allow(w) ==
  /\ At(w, "ask")
  /\ LET l == worker[w].limiter
         p == worker[w].key[2]
     IN  IF tokens[l] > 0
         THEN /\ tokens' = [tokens EXCEPT ![l] = @ - 1]
              /\ allowed' = [allowed EXCEPT ![p] = @ + 1]
         ELSE UNCHANGED <<tokens, allowed>>
  /\ worker' = [worker EXCEPT ![w] = Idle]
  /\ UNCHANGED <<rows, limiters, ticks, lost, moves, restarts>>

----------------------------------------------------------------------------
(* What happens around the workers.                                        *)

\* A unit of time passes for every limiter.
Tick ==
  /\ ticks < MaxTicks
  /\ ticks' = ticks + 1
  /\ tokens' = [l \in DOMAIN tokens |->
       IF tokens[l] + Rate > Burst THEN Burst ELSE tokens[l] + Rate]
  /\ UNCHANGED <<rows, limiters, worker, allowed, lost, moves, restarts>>

\* HandleSyncTenant gives a tenant a phone number that no other row has.
SyncTenant(t, p) ==
  /\ moves < MaxMoves
  /\ moves' = moves + 1
  /\ \A s \in DOMAIN rows : rows[s] # p
  /\ rows' = [s \in DOMAIN rows \cup {t} |-> IF s = t THEN p ELSE rows[s]]
  /\ lost' = IF t \in DOMAIN rows THEN [lost EXCEPT ![rows[t]] = @ + 1] ELSE lost
  /\ UNCHANGED <<limiters, tokens, worker, allowed, ticks, restarts>>

\* The process ends and comes up with an empty map; the hydration has written
\* whatever the registry holds.
Restart ==
  /\ restarts < MaxRestarts
  /\ restarts' = restarts + 1
  /\ rows' \in Assignments
  /\ limiters' = [k \in MapKeys |-> 0]
  /\ tokens' = <<>>
  /\ worker' = [w \in Workers |-> Idle]
  /\ UNCHANGED <<allowed, ticks, lost, moves>>

----------------------------------------------------------------------------
CallStep(w) == RLock(w) \/ LookUp(w) \/ Lock(w) \/ Create(w) \/ Allow(w)

Next ==
  \/ \E w \in Workers : GetTenant(w) \/ CallStep(w)
  \/ Tick
  \/ \E t \in Tenants, p \in Phones : SyncTenant(t, p)
  \/ Restart

Spec == Init /\ [][Next]_vars

\* Goroutines run.  Whether there are jobs to ask for is left open.
LiveSpec == Spec /\ \A w \in Workers : WF_vars(CallStep(w))

----------------------------------------------------------------------------
(***************************************************************************)
(* Properties.                                                             *)
(***************************************************************************)

TypeOK ==
  /\ rows \in Assignments
  /\ limiters \in [MapKeys -> 0..Len(tokens)]
  /\ tokens \in Seq(0..Burst)
  /\ worker \in [Workers -> [pc : Places, key : MapKeys \cup {NoKey}, limiter : 0..Len(tokens)]]
  /\ allowed \in [Phones -> Nat] /\ lost \in [Phones -> Nat]
  /\ ticks \in 0..MaxTicks /\ moves \in 0..MaxMoves /\ restarts \in 0..MaxRestarts

\* Goroutines that meet a new key at once end up with one limiter for it: who
\* asks, asks the limiter that the map has, and every limiter that was created
\* is in the map (the double check of Allow).
OneLimiterPerKey ==
  /\ \A w \in Workers : At(w, "ask") => worker[w].limiter = limiters[worker[w].key]
  /\ \A l \in DOMAIN tokens : \E k \in MapKeys : limiters[k] = l

\* What Meta sees of a phone number is bounded although limiters are kept by
\* tenant and phone, so that a number that goes from one tenant to another has
\* two: a burst for the first owner, one more each time the number is taken from
\* its tenant and for every restart, the rate, and each time it is taken at most
\* one message per worker that still has the old row.
PhoneRateIsBounded ==
  \A p \in Phones :
    allowed[p] <= (1 + lost[p] + restarts) * Burst + ticks * Rate + lost[p] * Cardinality(Workers)

\* Every call of Allow returns: goroutines do not wait for each other for ever.
AllowReturns == \A w \in Workers : ~At(w, "idle") ~> At(w, "idle")

=============================================================================
