---------------------------- MODULE LimiterProofs ----------------------------
(***************************************************************************)
(* Proofs about Limiter: the locking of Allow gives every key one limiter  *)
(* and keeps goroutines apart in the map, and what a phone number has had  *)
(* stays below its limit, for any number of workers, tenants and phone     *)
(* numbers, over changes of the tenants and restarts.                      *)
(***************************************************************************)
EXTENDS Limiter, FiniteSetTheorems, SequenceTheorems, TLAPS

\* A worker inside Allow has a key, and one that asks has a limiter.
Called ==
  /\ \A w \in Workers : ~At(w, "idle") => worker[w].key \in MapKeys
  /\ \A w \in Workers : At(w, "ask") => worker[w].limiter \in DOMAIN tokens

\* What a worker holds while there are n limiters.
CallOf(n) == [pc : Places, key : MapKeys \cup {NoKey}, limiter : 0..n]

IInv == TypeOK /\ Called /\ OneLimiterPerKey

----------------------------------------------------------------------------
\* An assignment stays one-to-one when a tenant takes a number nobody has.
LEMMA AssignmentsExtend ==
  ASSUME NEW r \in Assignments, NEW t \in Tenants, NEW p \in Phones,
         \A s \in DOMAIN r : r[s] # p
  PROVE  [s \in DOMAIN r \cup {t} |-> IF s = t THEN p ELSE r[s]] \in Assignments
<1> DEFINE new == [s \in DOMAIN r \cup {t} |-> IF s = t THEN p ELSE r[s]]
<1>1. PICK T \in SUBSET Tenants : r \in Injection(T, Phones)
  BY DEF Assignments
<1>2. /\ r \in [T -> Phones]
      /\ \A a, b \in T : r[a] = r[b] => a = b
  BY <1>1 DEF Injection, IsInjective
<1>3. new \in [T \cup {t} -> Phones]
  BY <1>2
<1>4. \A a, b \in T \cup {t} : new[a] = new[b] => a = b
  BY <1>2
<1>5. new \in Injection(T \cup {t}, Phones)
  BY <1>3, <1>4 DEF Injection, IsInjective
<1> QED
  BY <1>5 DEF Assignments

LEMMA InitIInv == Init => IInv
<1> SUFFICES ASSUME Init
             PROVE  IInv
  OBVIOUS
<1> USE DEF Init
<1>1. TypeOK
  BY BoundsAssumption, RatesAssumption DEF TypeOK, Idle, Places
<1>2. Called /\ OneLimiterPerKey
  BY DEF Called, OneLimiterPerKey, At, Idle
<1> QED
  BY <1>1, <1>2 DEF IInv

\* A worker that goes on keeps its key; the others keep everything.
LEMMA GoneOn ==
  ASSUME TypeOK, NEW w \in Workers, NEW pc \in Places, Goto(w, pc)
  PROVE  /\ worker'[w] = [worker[w] EXCEPT !.pc = pc]
         /\ worker'[w].pc = pc /\ worker'[w].key = worker[w].key
         /\ \A v \in Workers \ {w} : worker'[v] = worker[v]
         /\ worker' \in [Workers -> CallOf(Len(tokens))]
BY DEF TypeOK, Goto, CallOf

\* A worker that has its limiter keeps its key; n limiters there are now.
LEMMA Got ==
  ASSUME TypeOK, NEW w \in Workers, NEW n \in Nat, NEW l \in 0..n, Have(w, l),
         Len(tokens) <= n
  PROVE  /\ worker'[w].pc = "ask" /\ worker'[w].key = worker[w].key
         /\ worker'[w].limiter = l
         /\ \A v \in Workers \ {w} : worker'[v] = worker[v]
         /\ worker' \in [Workers -> CallOf(n)]
<1>1. worker' = [worker EXCEPT ![w] = [worker[w] EXCEPT !.pc = "ask", !.limiter = l]]
  BY DEF Have, TypeOK
<1>2. worker \in [Workers -> CallOf(n)]
  <2>1. Len(tokens) \in Nat
    BY DEF TypeOK
  <2>2. 0..Len(tokens) \subseteq 0..n
    BY <2>1
  <2> QED
    BY <2>2 DEF TypeOK, CallOf
<1>3. "ask" \in Places
  BY DEF Places
<1>4. [worker[w] EXCEPT !.pc = "ask", !.limiter = l] \in CallOf(n)
  BY <1>2, <1>3 DEF CallOf
<1> QED
  BY <1>1, <1>2, <1>4 DEF CallOf

LEMMA Idled ==
  ASSUME TypeOK, NEW w \in Workers, worker' = [worker EXCEPT ![w] = Idle]
  PROVE  /\ worker'[w].pc = "idle"
         /\ \A v \in Workers \ {w} : worker'[v] = worker[v]
         /\ worker' \in [Workers -> CallOf(Len(tokens))]
<1>1. Len(tokens) \in Nat
  BY DEF TypeOK
<1>2. Idle \in CallOf(Len(tokens))
  BY <1>1 DEF Idle, CallOf, Places
<1> QED
  BY <1>2 DEF TypeOK, CallOf, Idle

LEMMA IInvKept == IInv /\ [Next]_vars => IInv'
<1> SUFFICES ASSUME IInv, [Next]_vars
             PROVE  IInv'
  OBVIOUS
<1> USE DEF IInv
<1>0. Len(tokens) \in Nat /\ DOMAIN tokens = 1..Len(tokens)
  BY DEF TypeOK
<1>1. ASSUME NEW w \in Workers, GetTenant(w)
      PROVE  IInv'
  <2>1. PICK t \in DOMAIN rows :
          worker' = [worker EXCEPT ![w] = [pc |-> "rlock", key |-> <<t, rows[t]>>, limiter |-> 0]]
    BY <1>1 DEF GetTenant
  <2>2. <<t, rows[t]>> \in MapKeys
    BY <2>1 DEF TypeOK, Assignments, Injection, MapKeys
  <2>3. /\ worker'[w].pc = "rlock" /\ worker'[w].key \in MapKeys /\ worker'[w].limiter = 0
        /\ \A v \in Workers \ {w} : worker'[v] = worker[v]
        /\ worker' \in [Workers -> CallOf(Len(tokens))]
    <3>1. [pc |-> "rlock", key |-> <<t, rows[t]>>, limiter |-> 0] \in CallOf(Len(tokens))
      <4>1. 0 \in 0..Len(tokens) /\ "rlock" \in Places
        BY <1>0 DEF Places
      <4> DEFINE key == <<t, rows[t]>>
      <4>2. key \in MapKeys
        BY <2>2
      <4> HIDE DEF key
      <4>3. [pc |-> "rlock", key |-> key, limiter |-> 0] \in CallOf(Len(tokens))
        BY <4>1, <4>2 DEF CallOf
      <4> QED
        BY <4>3 DEF key
    <3> QED
      BY <2>1, <2>2, <3>1 DEF TypeOK, CallOf, Idle, Places
  <2>4. TypeOK'
    BY <1>1, <2>3 DEF GetTenant, TypeOK, CallOf
  <2> QED
    BY <1>1, <2>3, <2>4 DEF GetTenant, Called, OneLimiterPerKey, At
<1>2. ASSUME NEW w \in Workers, RLock(w) \/ Lock(w)
      PROVE  IInv'
  <2>1. /\ \E pc \in {"lookup", "create"} : Goto(w, pc)
        /\ worker[w].pc # "idle"
        /\ UNCHANGED <<rows, limiters, tokens, allowed, ticks, lost, moves, restarts>>
    BY <1>2 DEF RLock, Lock, At
  <2>2. PICK pc \in {"lookup", "create"} : Goto(w, pc)
    BY <2>1
  <2>3. pc \in Places
    BY DEF Places
  <2> QED
    <3>1. TypeOK'
      BY <2>1, <2>2, <2>3, GoneOn DEF TypeOK, CallOf
    <3>2. /\ worker'[w].pc = pc /\ pc \notin {"idle", "ask"} /\ worker'[w].key = worker[w].key
          /\ \A v \in Workers \ {w} : worker'[v] = worker[v]
      BY <2>2, <2>3, GoneOn
    <3> QED
      BY <2>1, <3>1, <3>2 DEF Called, OneLimiterPerKey, At
<1>3. ASSUME NEW w \in Workers, LookUp(w)
      PROVE  IInv'
  <2> DEFINE l == limiters[worker[w].key]
  <2>1. /\ At(w, "lookup") /\ worker[w].key \in MapKeys /\ l \in 0..Len(tokens)
        /\ UNCHANGED <<rows, limiters, tokens, allowed, ticks, lost, moves, restarts>>
    BY <1>3 DEF LookUp, Called, TypeOK, At
  <2>2. CASE l # 0 /\ Have(w, l)
    <3>1. TypeOK'
      BY <1>0, <2>1, <2>2, Got DEF TypeOK, CallOf
    <3> QED
      BY <1>0, <2>1, <2>2, <3>1, Got DEF Called, OneLimiterPerKey, At
  <2>3. CASE Goto(w, "lock")
    <3>1. "lock" \in Places
      BY DEF Places
    <3> QED
      <4>1. TypeOK'
        BY <2>1, <2>3, <3>1, GoneOn DEF TypeOK, CallOf
      <4>2. /\ worker'[w].pc = "lock" /\ worker'[w].key = worker[w].key
            /\ \A v \in Workers \ {w} : worker'[v] = worker[v]
        BY <2>3, <3>1, GoneOn
      <4> QED
        BY <2>1, <4>1, <4>2 DEF Called, OneLimiterPerKey, At
  <2> QED
    BY <1>3, <2>2, <2>3 DEF LookUp
<1>4. ASSUME NEW w \in Workers, Create(w)
      PROVE  IInv'
  <2> DEFINE l == limiters[worker[w].key]
  <2>1. /\ At(w, "create") /\ worker[w].key \in MapKeys /\ l \in 0..Len(tokens)
        /\ UNCHANGED <<rows, allowed, ticks, lost, moves, restarts>>
    BY <1>4 DEF Create, Called, TypeOK, At
  <2>2. CASE l # 0 /\ Have(w, l) /\ UNCHANGED <<limiters, tokens>>
    <3>1. TypeOK'
      BY <1>0, <2>1, <2>2, Got DEF TypeOK, CallOf
    <3> QED
      BY <1>0, <2>1, <2>2, <3>1, Got DEF Called, OneLimiterPerKey, At
  <2>3. CASE l = 0 /\ NewLimiter(w)
    <3> DEFINE n == Len(tokens) + 1
    <3>1. Burst \in 0..Burst
      BY RatesAssumption
    <3>2. /\ tokens' \in Seq(0..Burst) /\ Len(tokens') = n
          /\ DOMAIN tokens' = 1..n
      BY <2>3, <3>1, AppendProperties DEF NewLimiter, TypeOK
    <3>3. /\ limiters' = [limiters EXCEPT ![worker[w].key] = n]
          /\ Have(w, n)
      BY <2>3, <3>2 DEF NewLimiter
    <3>4. /\ limiters'[worker[w].key] = n
          /\ \A k \in MapKeys \ {worker[w].key} : limiters'[k] = limiters[k]
          /\ limiters' \in [MapKeys -> 0..n]
      BY <1>0, <2>1, <3>3 DEF TypeOK
    <3>5. TypeOK'
      <4>1. worker' \in [Workers -> CallOf(n)]
        BY <1>0, <3>3, Got
      <4> QED
        BY <2>1, <3>2, <3>4, <4>1 DEF TypeOK, CallOf
    <3>6. Called'
      BY <1>0, <2>1, <3>2, <3>3, Got DEF Called, At
    <3>7. ASSUME NEW v \in Workers, At(v, "ask")'
          PROVE  worker'[v].limiter = limiters'[worker'[v].key]
      <4>1. CASE v = w
        BY <3>3, <3>4, <4>1, Got
      <4>2. CASE v # w
        <5>1. worker'[v] = worker[v] /\ worker[v].limiter = limiters[worker[v].key]
          BY <3>3, <3>7, <4>2, Got DEF At, OneLimiterPerKey
        <5>2. worker[v].limiter # 0 /\ worker[v].key \in MapKeys
          BY <1>0, <3>7, <5>1 DEF Called, At
        <5> QED
          BY <2>3, <3>4, <5>1, <5>2
      <4> QED
        BY <4>1, <4>2
    <3>8. ASSUME NEW m \in DOMAIN tokens'
          PROVE  \E k \in MapKeys : limiters'[k] = m
      <4>1. CASE m = n
        BY <2>1, <3>4, <4>1
      <4>2. CASE m # n
        <5>1. m \in DOMAIN tokens
          BY <1>0, <3>2, <4>2
        <5>2. PICK k \in MapKeys : limiters[k] = m
          BY <5>1 DEF OneLimiterPerKey
        <5> QED
          BY <1>0, <2>3, <3>4, <5>1, <5>2
      <4> QED
        BY <4>1, <4>2
    <3> QED
      BY <3>5, <3>6, <3>7, <3>8 DEF OneLimiterPerKey
  <2> QED
    BY <1>4, <2>2, <2>3 DEF Create
<1>5. ASSUME NEW w \in Workers, Allow(w)
      PROVE  IInv'
  <2> DEFINE l == worker[w].limiter
             p == worker[w].key[2]
  <2>1. /\ l \in DOMAIN tokens /\ worker[w].key \in MapKeys /\ p \in Phones
        /\ UNCHANGED <<rows, limiters, ticks, lost, moves, restarts>>
        /\ worker' = [worker EXCEPT ![w] = Idle]
    BY <1>5 DEF Allow, Called, At, MapKeys
  <2>2. /\ tokens' \in Seq(0..Burst) /\ Len(tokens') = Len(tokens)
        /\ DOMAIN tokens' = DOMAIN tokens
    <3>1. CASE UNCHANGED tokens
      BY <3>1 DEF TypeOK
    <3>2. CASE tokens[l] > 0 /\ tokens' = [tokens EXCEPT ![l] = @ - 1]
      <4>1. tokens[l] - 1 \in 0..Burst
        BY <2>1, <3>2, RatesAssumption DEF TypeOK
      <4> QED
        BY <1>0, <2>1, <3>2, <4>1, ExceptSeq DEF TypeOK
    <3> QED
      BY <1>5, <3>1, <3>2 DEF Allow
  <2>3. allowed' \in [Phones -> Nat]
    <3>1. allowed \in [Phones -> Nat]
      BY DEF TypeOK
    <3>2. UNCHANGED allowed \/ allowed' = [allowed EXCEPT ![p] = @ + 1]
      BY <1>5 DEF Allow
    <3> QED
      BY <2>1, <3>1, <3>2
  <2>4. /\ worker'[w].pc = "idle"
        /\ \A v \in Workers \ {w} : worker'[v] = worker[v]
        /\ worker' \in [Workers -> CallOf(Len(tokens))]
    BY <2>1, Idled
  <2>5. TypeOK'
    BY <2>1, <2>2, <2>3, <2>4 DEF TypeOK, CallOf
  <2> QED
    BY <2>1, <2>2, <2>4, <2>5 DEF Called, OneLimiterPerKey, At
<1>6. ASSUME Tick
      PROVE  IInv'
  <2>1. /\ tokens' \in Seq(0..Burst) /\ Len(tokens') = Len(tokens)
        /\ DOMAIN tokens' = DOMAIN tokens
    <3> DEFINE f(l) == IF tokens[l] + Rate > Burst THEN Burst ELSE tokens[l] + Rate
    <3>1. \A l \in 1..Len(tokens) : f(l) \in 0..Burst
      BY <1>0, RatesAssumption DEF TypeOK
    <3>2. tokens' = [l \in 1..Len(tokens) |-> f(l)]
      BY <1>0, <1>6 DEF Tick
    <3> HIDE DEF f
    <3> QED
      BY <1>0, <3>1, <3>2
  <2> QED
    BY <1>6, <2>1, BoundsAssumption DEF Tick, TypeOK, Called, OneLimiterPerKey, At
<1>7. ASSUME NEW t \in Tenants, NEW p \in Phones, SyncTenant(t, p)
      PROVE  IInv'
  <2>1. rows' \in Assignments
    BY <1>7, AssignmentsExtend DEF SyncTenant, TypeOK
  <2>2. moves' \in 0..MaxMoves
    BY <1>7, BoundsAssumption DEF SyncTenant, TypeOK
  <2>3. lost' \in [Phones -> Nat]
    <3>1. lost \in [Phones -> Nat]
      BY DEF TypeOK
    <3>2. CASE t \notin DOMAIN rows
      BY <1>7, <3>1, <3>2 DEF SyncTenant
    <3>3. CASE t \in DOMAIN rows
      <4>1. lost' = [lost EXCEPT ![rows[t]] = @ + 1]
        BY <1>7, <3>3 DEF SyncTenant
      <4>2. rows[t] \in Phones
        BY <3>3 DEF TypeOK, Assignments, Injection
      <4> QED
        BY <3>1, <4>1, <4>2
    <3> QED
      BY <3>2, <3>3
  <2>4. TypeOK'
    BY <1>7, <2>1, <2>2, <2>3 DEF SyncTenant, TypeOK
  <2> QED
    BY <1>7, <2>4 DEF SyncTenant, Called, OneLimiterPerKey, At
<1>8. ASSUME Restart
      PROVE  IInv'
  <2>1. TypeOK'
    BY <1>8, BoundsAssumption DEF Restart, TypeOK, Idle, Places
  <2> QED
    BY <1>8, <2>1 DEF Restart, Called, OneLimiterPerKey, At, Idle
<1>9. ASSUME UNCHANGED vars
      PROVE  IInv'
  BY <1>9 DEF vars, TypeOK, Called, OneLimiterPerKey, At
<1> QED
  BY <1>1, <1>2, <1>3, <1>4, <1>5, <1>6, <1>7, <1>8, <1>9 DEF Next, CallStep

----------------------------------------------------------------------------
\* The inductive invariant holds over changes of the tenants and restarts.
THEOREM IInvHolds == Spec => []IInv
BY InitIInv, IInvKept, PTL DEF Spec

\* The map, the limiters and the workers keep their shape; no limiter is
\* overdrawn or holds more than its burst (Allow of the library).
THEOREM TypeCorrect == Spec => []TypeOK
<1>1. IInv => TypeOK
  BY DEF IInv
<1> QED
  BY <1>1, IInvHolds, PTL

\* Goroutines that meet a new key at once use one limiter for it, and the map
\* has every limiter that was created (the double check of Allow).
THEOREM KeysHaveOneLimiter == Spec => []OneLimiterPerKey
<1>1. IInv => OneLimiterPerKey
  BY DEF IInv
<1> QED
  BY <1>1, IInvHolds, PTL

----------------------------------------------------------------------------
(***************************************************************************)
(* The rate of a phone number.  A limiter belongs to a tenant and a number,*)
(* so the messages of a number p may come from several limiters: the one of*)
(* the tenant that has p, and those of workers that read the row when p    *)
(* was another tenant's.  What p has had, with what these may still let    *)
(* through, stays below the limit.                                         *)
(***************************************************************************)

\* Workers whose call is for p on behalf of a tenant that p is not the number of.
Stale(p) == {w \in Workers :
  /\ ~At(w, "idle")
  /\ worker[w].key[2] = p
  /\ \A t \in DOMAIN rows : worker[w].key # <<t, rows[t]>>}

\* What a key's limiter lets through at once; one not created yet will be full.
HoldsOf(lims, toks, k) == IF lims[k] = 0 THEN Burst ELSE toks[lims[k]]
Holds(k) == HoldsOf(limiters, tokens, k)

\* The bound of PhoneRateIsBounded for a number that was taken m times,
\* after r restarts and n ticks.
Limit(m, r, n) == (1 + m + r) * Burst + n * Rate + m * Cardinality(Workers)

\* At most one message for each stale worker, and what the owner's limiter holds,
\* or a new owner's will hold.
Paid(p) ==
  /\ allowed[p] + Cardinality(Stale(p)) <= Limit(lost[p], restarts, ticks)
  /\ \A t \in DOMAIN rows : rows[t] = p =>
       allowed[p] + Cardinality(Stale(p)) + Holds(<<t, p>>) <= Limit(lost[p], restarts, ticks)
  /\ (\A t \in DOMAIN rows : rows[t] # p) =>
       allowed[p] + Cardinality(Stale(p)) + Burst <= Limit(lost[p], restarts, ticks)

RateInv == IInv /\ \A p \in Phones : Paid(p)

LEMMA LimitsGrow ==
  ASSUME NEW m \in Nat, NEW r \in Nat, NEW n \in Nat
  PROVE  /\ Limit(m, r, n) \in Nat
         /\ Limit(m, r, n + 1) = Limit(m, r, n) + Rate
         /\ Limit(m, r + 1, n) = Limit(m, r, n) + Burst
         /\ Limit(m + 1, r, n) = Limit(m, r, n) + Burst + Cardinality(Workers)
<1>1. Cardinality(Workers) \in Nat
  BY FiniteAssumption, FS_CardinalityType
<1>2. ASSUME NEW a \in Nat, NEW b \in Nat, NEW c \in Nat
      PROVE  /\ (1 + m + r) * b + n * a + m * c \in Nat
             /\ (1 + m + r) * b + (n + 1) * a + m * c = (1 + m + r) * b + n * a + m * c + a
             /\ (1 + m + (r + 1)) * b + n * a + m * c = (1 + m + r) * b + n * a + m * c + b
             /\ (1 + (m + 1) + r) * b + n * a + (m + 1) * c
                  = (1 + m + r) * b + n * a + m * c + b + c
  <2>1. PICK x \in Nat, y \in Nat, z \in Nat : x = (1 + m + r) * b /\ y = n * a /\ z = m * c
    OBVIOUS
  <2>2. /\ (n + 1) * a = y + a /\ (m + 1) * c = z + c
        /\ (1 + m + (r + 1)) * b = x + b /\ (1 + (m + 1) + r) * b = x + b
    BY <2>1
  <2> QED
    BY <2>1, <2>2
<1> QED
  BY <1>1, <1>2, RatesAssumption DEF Limit

\* There are no more stale workers than workers.
LEMMA SomeWorkers ==
  ASSUME NEW S \in SUBSET Workers
  PROVE  IsFiniteSet(S) /\ Cardinality(S) \in Nat /\ Cardinality(S) <= Cardinality(Workers)
BY FiniteAssumption, FS_Subset, FS_CardinalityType

LEMMA HoldsUpToBurst ==
  ASSUME NEW toks \in Seq(0..Burst), NEW lims \in [MapKeys -> 0..Len(toks)], NEW k \in MapKeys
  PROVE  HoldsOf(lims, toks, k) \in 0..Burst
<1>1. CASE lims[k] = 0
  BY <1>1, RatesAssumption DEF HoldsOf
<1>2. CASE lims[k] # 0
  <2>1. PICK l \in 0..Len(toks) : l = lims[k]
    OBVIOUS
  <2>2. l \in 1..Len(toks)
    BY <1>2, <2>1
  <2>3. toks[l] \in 0..Burst
    BY <2>2, ElementOfSeq
  <2> QED
    BY <1>2, <2>1, <2>3 DEF HoldsOf
<1> QED
  BY <1>1, <1>2

\* The tenant of a number has a key for it.
LEMMA OwnersHaveKeys ==
  ASSUME TypeOK, NEW t \in DOMAIN rows
  PROVE  /\ t \in Tenants /\ rows[t] \in Phones /\ <<t, rows[t]>> \in MapKeys
         /\ \A s \in DOMAIN rows : rows[s] = rows[t] => s = t
<1>1. PICK T \in SUBSET Tenants : rows \in Injection(T, Phones)
  BY DEF TypeOK, Assignments
<1> QED
  BY <1>1 DEF Injection, IsInjective, MapKeys

\* The numbers of p's account, and what the limit grows by.
LEMMA Accounts ==
  ASSUME TypeOK, NEW p \in Phones
  PROVE  /\ allowed[p] \in Nat /\ Cardinality(Stale(p)) \in Nat
         /\ Limit(lost[p], restarts, ticks) \in Nat
         /\ Limit(lost[p], restarts, ticks + 1) = Limit(lost[p], restarts, ticks) + Rate
         /\ Limit(lost[p], restarts + 1, ticks) = Limit(lost[p], restarts, ticks) + Burst
         /\ Limit(lost[p] + 1, restarts, ticks)
              = Limit(lost[p], restarts, ticks) + Burst + Cardinality(Workers)
<1>1. lost[p] \in Nat /\ restarts \in Nat /\ ticks \in Nat
  BY BoundsAssumption DEF TypeOK
<1>2. allowed[p] \in Nat /\ Cardinality(Stale(p)) \in Nat
  <2>1. Stale(p) \in SUBSET Workers
    BY DEF Stale
  <2> QED
    BY <2>1, SomeWorkers DEF TypeOK
<1>3. PICK m \in Nat, k \in Nat, n \in Nat : m = lost[p] /\ k = restarts /\ n = ticks
  BY <1>1
<1>4. /\ Limit(m, k, n) \in Nat
      /\ Limit(m, k, n + 1) = Limit(m, k, n) + Rate
      /\ Limit(m, k + 1, n) = Limit(m, k, n) + Burst
      /\ Limit(m + 1, k, n) = Limit(m, k, n) + Burst + Cardinality(Workers)
  BY LimitsGrow
<1> QED
  BY <1>2, <1>3, <1>4

\* A step that lets nothing through for p, makes no worker stale and fills no
\* limiter leaves p's account in order.
LEMMA PaidKept ==
  ASSUME TypeOK, TypeOK', NEW p \in Phones, Paid(p),
         UNCHANGED <<rows, lost, moves, restarts, ticks>>, allowed'[p] = allowed[p],
         Stale(p)' \subseteq Stale(p),
         \A t \in DOMAIN rows : rows[t] = p => Holds(<<t, p>>)' <= Holds(<<t, p>>)
  PROVE  Paid(p)'
<1>1. Stale(p) \in SUBSET Workers /\ Stale(p)' \in SUBSET Workers
  BY DEF Stale
<1>2. /\ Cardinality(Stale(p)) \in Nat
      /\ Cardinality(Stale(p)') \in Nat
      /\ Cardinality(Stale(p)') <= Cardinality(Stale(p))
  BY <1>1, SomeWorkers, FS_Subset
<1>3. allowed[p] \in Nat /\ Limit(lost[p], restarts, ticks) \in Nat
  BY Accounts
<1>4. PICK a \in Nat, l \in Nat, c \in Nat, d \in Nat :
        /\ a = allowed[p] /\ l = Limit(lost[p], restarts, ticks)
        /\ c = Cardinality(Stale(p)) /\ d = Cardinality(Stale(p)') /\ d <= c
  BY <1>2, <1>3
<1>5. allowed'[p] = a /\ Limit(lost'[p], restarts', ticks') = l /\ Cardinality(Stale(p)') = d
  BY <1>4
<1>6. a + c <= l
  BY <1>4 DEF Paid
<1>7. a + d <= l
  BY <1>4, <1>6
<1>8. ASSUME NEW t \in DOMAIN rows, rows[t] = p
      PROVE  a + d + Holds(<<t, p>>)' <= l
  <2>1. <<t, p>> \in MapKeys
    BY <1>8, OwnersHaveKeys
  <2>2. Holds(<<t, p>>) \in 0..Burst /\ Holds(<<t, p>>)' \in 0..Burst
    <3>1. Holds(<<t, p>>) \in 0..Burst
      BY <2>1, HoldsUpToBurst DEF Holds, TypeOK
    <3>2. Holds(<<t, p>>)' \in 0..Burst
      BY <2>1, HoldsUpToBurst DEF Holds, TypeOK
    <3> QED
      BY <3>1, <3>2
  <2>3. PICK h \in 0..Burst, g \in 0..Burst : h = Holds(<<t, p>>) /\ g = Holds(<<t, p>>)'
    BY <2>2
  <2>4. g <= h /\ a + c + h <= l
    BY <1>4, <1>8, <2>3 DEF Paid
  <2>5. a + d + g <= l
    BY <1>4, <2>4, RatesAssumption
  <2> QED
    BY <2>3, <2>5
<1>9. ASSUME \A t \in DOMAIN rows : rows[t] # p
      PROVE  a + d + Burst <= l
  <2>1. a + c + Burst <= l
    BY <1>4, <1>9 DEF Paid
  <2> QED
    BY <1>4, <2>1, RatesAssumption
<1> QED
  BY <1>5, <1>7, <1>8, <1>9 DEF Paid

\* A worker that goes on with its key is as stale as it was.
LEMMA KeyKept ==
  ASSUME NEW w \in Workers, UNCHANGED rows, NEW p \in Phones,
         ~At(w, "idle"), worker'[w].key = worker[w].key,
         \A v \in Workers \ {w} : worker'[v] = worker[v]
  PROVE  Stale(p)' \subseteq Stale(p)
BY DEF Stale, At

LEMMA InitPaid == Init => \A p \in Phones : Paid(p)
<1> SUFFICES ASSUME Init, NEW p \in Phones
             PROVE  Paid(p)
  OBVIOUS
<1>1. TypeOK
  BY InitIInv DEF IInv
<1>2. Stale(p) = {} /\ allowed[p] = 0
  BY DEF Init, Stale, At, Idle
<1>3. Cardinality(Stale(p)) = 0
  BY <1>2, FS_EmptySet
<1>4. Limit(lost[p], restarts, ticks) = Burst
  <2>1. Cardinality(Workers) \in Nat
    BY FiniteAssumption, FS_CardinalityType
  <2>2. Limit(0, 0, 0) = Burst
    BY <2>1, RatesAssumption DEF Limit
  <2> QED
    BY <2>2 DEF Init
<1>5. ASSUME NEW t \in DOMAIN rows, rows[t] = p
      PROVE  Holds(<<t, p>>) = Burst
  BY <1>1, <1>5, OwnersHaveKeys DEF Init, Holds, HoldsOf
<1> QED
  BY <1>2, <1>3, <1>4, <1>5, RatesAssumption DEF Paid

\* A worker lets nothing through before it asks.
LEMMA CallsKeepPaid ==
  ASSUME IInv, IInv', NEW w \in Workers, GetTenant(w) \/ RLock(w) \/ LookUp(w) \/ Lock(w) \/ Create(w),
         NEW p \in Phones, Paid(p)
  PROVE  Paid(p)'
<1>0. TypeOK /\ TypeOK'
  BY DEF IInv
<1>1. UNCHANGED <<rows, allowed, lost, moves, restarts, ticks>>
  BY DEF GetTenant, RLock, LookUp, Lock, Create
<1>2. Stale(p)' \subseteq Stale(p)
  <2>1. CASE GetTenant(w)
    <3>1. PICK t \in DOMAIN rows :
            worker' = [worker EXCEPT ![w] = [pc |-> "rlock", key |-> <<t, rows[t]>>, limiter |-> 0]]
      BY <2>1 DEF GetTenant
    <3>2. worker'[w].key = <<t, rows[t]>> /\ \A v \in Workers \ {w} : worker'[v] = worker[v]
      BY <1>0, <3>1 DEF TypeOK
    <3> QED
      BY <1>1, <3>2 DEF Stale, At
  <2>2. CASE RLock(w) \/ LookUp(w) \/ Lock(w) \/ Create(w)
    <3>1. ~At(w, "idle")
      BY <2>2 DEF RLock, LookUp, Lock, Create, At
    <3>2. worker'[w].key = worker[w].key /\ \A v \in Workers \ {w} : worker'[v] = worker[v]
      <4>1. \/ \E pc \in {"lookup", "lock", "create"} : Goto(w, pc)
            \/ \E l \in Nat : Have(w, l)
        <5>1. CASE RLock(w) \/ Lock(w)
          BY <5>1 DEF RLock, Lock
        <5>2. CASE LookUp(w) \/ Create(w)
          <6>1. worker[w].key \in MapKeys
            BY <5>2 DEF LookUp, Create, IInv, Called, At
          <6>2. limiters[worker[w].key] \in Nat /\ Len(tokens') \in Nat
            BY <1>0, <6>1 DEF TypeOK
          <6> QED
            BY <5>2, <6>2 DEF LookUp, Create, NewLimiter
        <5> QED
          BY <2>2, <5>1, <5>2
      <4> QED
        BY <1>0, <4>1 DEF Goto, Have, TypeOK
    <3> QED
      BY <1>1, <3>1, <3>2, KeyKept
  <2> QED
    BY <2>1, <2>2
<1>3. ASSUME NEW k \in MapKeys
      PROVE  Holds(k)' = Holds(k)
  <2>1. CASE UNCHANGED <<limiters, tokens>>
    BY <2>1 DEF Holds
  <2>2. CASE Create(w) /\ NewLimiter(w) /\ limiters[worker[w].key] = 0
    <3>1. /\ Len(tokens) \in Nat /\ tokens \in Seq(0..Burst) /\ Burst \in 0..Burst
          /\ limiters \in [MapKeys -> 0..Len(tokens)]
      BY <1>0, RatesAssumption DEF TypeOK
    <3>2. tokens' = Append(tokens, Burst) /\ Len(tokens') = Len(tokens) + 1
      BY <2>2, <3>1, AppendProperties DEF NewLimiter
    <3>3. /\ tokens'[Len(tokens) + 1] = Burst
          /\ \A l \in 1..Len(tokens) : tokens'[l] = tokens[l]
      BY <3>1, <3>2, AppendProperties
    <3>4. limiters' = [limiters EXCEPT ![worker[w].key] = Len(tokens) + 1]
      BY <2>2, <3>2 DEF NewLimiter
    <3>5. CASE k = worker[w].key
      BY <2>2, <3>1, <3>3, <3>4, <3>5 DEF Holds, HoldsOf
    <3>6. CASE k # worker[w].key
      BY <3>1, <3>3, <3>4, <3>6 DEF Holds, HoldsOf
    <3> QED
      BY <3>5, <3>6
  <2> QED
    BY <2>1, <2>2 DEF GetTenant, RLock, LookUp, Lock, Create
<1>4. ASSUME NEW t \in DOMAIN rows, rows[t] = p
      PROVE  Holds(<<t, p>>)' <= Holds(<<t, p>>)
  <2>1. <<t, p>> \in MapKeys
    BY <1>0, <1>4, OwnersHaveKeys
  <2>2. Holds(<<t, p>>) \in 0..Burst
    BY <1>0, <2>1, HoldsUpToBurst DEF Holds, TypeOK
  <2>3. Holds(<<t, p>>)' = Holds(<<t, p>>)
    BY <1>3, <2>1
  <2> QED
    BY <2>2, <2>3, RatesAssumption
<1> QED
  BY <1>0, <1>1, <1>2, <1>4, PaidKept

\* A message that is let through is paid for by its limiter when the tenant
\* still has the number, and by its worker's being stale when it has not.
LEMMA AllowKeepsPaid ==
  ASSUME IInv, IInv', NEW w \in Workers, Allow(w), NEW p \in Phones, Paid(p)
  PROVE  Paid(p)'
<1> DEFINE l == worker[w].limiter
           key == worker[w].key
<1>1. /\ TypeOK /\ TypeOK' /\ key \in MapKeys /\ l \in DOMAIN tokens
      /\ l = limiters[key] /\ l # 0
      /\ DOMAIN tokens = 1..Len(tokens) /\ Len(tokens) \in Nat
  <2>1. l \in DOMAIN tokens /\ DOMAIN tokens = 1..Len(tokens) /\ Len(tokens) \in Nat
    BY DEF Allow, IInv, Called, At, TypeOK
  <2> QED
    BY <2>1 DEF Allow, IInv, Called, OneLimiterPerKey, At
<1>2. /\ UNCHANGED <<rows, limiters, lost, moves, restarts, ticks>>
      /\ worker' = [worker EXCEPT ![w] = Idle]
  BY DEF Allow
<1>3. /\ worker'[w].pc = "idle"
      /\ \A v \in Workers \ {w} : worker'[v] = worker[v]
  BY <1>1, <1>2, Idled
<1>4. Stale(p)' = Stale(p) \ {w}
  BY <1>2, <1>3 DEF Stale, At
<1>5. ASSUME NEW k \in MapKeys
      PROVE  Holds(k)' <= Holds(k)
  <2>1. Holds(k) \in 0..Burst
    BY <1>1, HoldsUpToBurst DEF Holds, TypeOK
  <2>2. CASE UNCHANGED tokens
    <3>1. Holds(k)' = Holds(k)
      BY <1>2, <2>2 DEF Holds
    <3> QED
      BY <2>1, <3>1, RatesAssumption
  <2>3. CASE tokens' = [tokens EXCEPT ![l] = @ - 1]
    <3>1. CASE limiters[k] # l
      <4>1. Holds(k)' = Holds(k)
        BY <1>1, <1>2, <2>3, <3>1 DEF Holds, HoldsOf, TypeOK
      <4> QED
        BY <2>1, <4>1, RatesAssumption
    <3>2. CASE limiters[k] = l
      <4>1. Holds(k) = tokens[l] /\ Holds(k)' = tokens[l] - 1
        BY <1>1, <1>2, <2>3, <3>2 DEF Holds, HoldsOf
      <4> QED
        BY <2>1, <4>1, RatesAssumption
    <3> QED
      BY <3>1, <3>2
  <2> QED
    BY <2>2, <2>3 DEF Allow
<1>6. CASE allowed'[p] = allowed[p]
  <2>1. \A t \in DOMAIN rows : rows[t] = p => Holds(<<t, p>>)' <= Holds(<<t, p>>)
    BY <1>1, <1>5, OwnersHaveKeys
  <2> QED
    BY <1>1, <1>2, <1>4, <1>6, <2>1, PaidKept
<1>7. CASE allowed'[p] # allowed[p]
  <2>1. /\ tokens[l] > 0 /\ p = key[2]
        /\ tokens' = [tokens EXCEPT ![l] = @ - 1]
        /\ allowed'[p] = allowed[p] + 1
    BY <1>1, <1>7 DEF Allow, TypeOK
  <2>2. Stale(p) \in SUBSET Workers
    BY DEF Stale
  <2>3. PICK a \in Nat, c \in Nat, m \in Nat :
          /\ a = allowed[p] /\ c = Cardinality(Stale(p)) /\ m = Limit(lost[p], restarts, ticks)
    BY <1>1, Accounts
  <2>4. allowed'[p] = a + 1 /\ Limit(lost'[p], restarts', ticks') = m
    BY <1>2, <2>1, <2>3
  <2>5. a + c <= m
    BY <2>3 DEF Paid
  <2>6. CASE w \in Stale(p)
    <3>1. Cardinality(Stale(p)') = c - 1 /\ c - 1 \in Nat
      BY <1>4, <2>2, <2>3, <2>6, SomeWorkers, FS_RemoveElement
    <3>2. PICK d \in Nat : d = c - 1 /\ Cardinality(Stale(p)') = d
      BY <3>1
    <3>3. a + 1 + d <= m
      BY <2>5, <3>2
    <3>4. ASSUME NEW t \in DOMAIN rows, rows[t] = p
          PROVE  a + 1 + d + Holds(<<t, p>>)' <= m
      <4>1. <<t, p>> \in MapKeys
        BY <1>1, <3>4, OwnersHaveKeys
      <4>2. PICK h \in 0..Burst, g \in 0..Burst : h = Holds(<<t, p>>) /\ g = Holds(<<t, p>>)'
        <5>1. Holds(<<t, p>>) \in 0..Burst
          BY <1>1, <4>1, HoldsUpToBurst DEF Holds, TypeOK
        <5>2. Holds(<<t, p>>)' \in 0..Burst
          BY <1>1, <4>1, HoldsUpToBurst DEF Holds, TypeOK
        <5> QED
          BY <5>1, <5>2
      <4>3. g <= h /\ a + c + h <= m
        BY <1>5, <2>3, <3>4, <4>1, <4>2 DEF Paid
      <4>4. a + 1 + d + g <= m
        BY <3>2, <4>3, RatesAssumption
      <4> QED
        BY <4>2, <4>4
    <3>5. ASSUME \A t \in DOMAIN rows : rows[t] # p
          PROVE  a + 1 + d + Burst <= m
      <4>1. a + c + Burst <= m
        BY <2>3, <3>5 DEF Paid
      <4> QED
        BY <3>2, <4>1, RatesAssumption
    <3> QED
      BY <1>2, <2>4, <3>2, <3>3, <3>4, <3>5 DEF Paid
  <2>7. CASE w \notin Stale(p)
    <3>1. PICK s \in DOMAIN rows : key = <<s, rows[s]>>
      BY <1>1, <2>1, <2>7 DEF Stale, Allow, At
    <3>2. rows[s] = p /\ key = <<s, p>>
      BY <2>1, <3>1
    <3>3. Cardinality(Stale(p)') = c
      <4>1. Stale(p)' = Stale(p)
        BY <1>4, <2>7
      <4> QED
        BY <2>3, <4>1
    <3>4. PICK k \in MapKeys, h \in 0..Burst : k = <<s, p>> /\ k = key /\ h = Holds(k)
      BY <1>1, <3>2, HoldsUpToBurst DEF Holds, TypeOK
    <3>5. Holds(k)' = h - 1 /\ h - 1 \in 0..Burst
      <4>1. h = tokens[l]
        BY <1>1, <3>4 DEF Holds, HoldsOf
      <4>2. Holds(k)' = tokens[l] - 1
        BY <1>1, <1>2, <2>1, <3>4 DEF Holds, HoldsOf
      <4> QED
        BY <2>1, <3>4, <4>1, <4>2, RatesAssumption
    <3>6. a + c + h <= m
      BY <2>3, <3>2, <3>4 DEF Paid
    <3>7. a + 1 + c + (h - 1) <= m /\ a + 1 + c <= m
      BY <3>5, <3>6, RatesAssumption
    <3>8. ASSUME NEW t \in DOMAIN rows, rows[t] = p
          PROVE  Holds(<<t, p>>)' = h - 1
      <4>1. t = s
        BY <1>1, <3>2, <3>8, OwnersHaveKeys
      <4> QED
        BY <3>4, <3>5, <4>1
    <3>9. s \in DOMAIN rows /\ rows[s] = p
      BY <3>1, <3>2
    <3> QED
      BY <1>2, <2>4, <3>3, <3>7, <3>8, <3>9 DEF Paid
  <2> QED
    BY <2>6, <2>7
<1> QED
  BY <1>6, <1>7

\* A unit of time adds the rate to what the owner's limiter holds.
LEMMA TickKeepsPaid ==
  ASSUME IInv, IInv', Tick, NEW p \in Phones, Paid(p)
  PROVE  Paid(p)'
<1>1. /\ TypeOK /\ TypeOK' /\ UNCHANGED <<rows, limiters, worker, allowed, lost, moves, restarts>>
      /\ ticks' = ticks + 1
      /\ DOMAIN tokens = 1..Len(tokens) /\ Len(tokens) \in Nat
  BY DEF Tick, IInv, TypeOK
<1>2. Stale(p) \in SUBSET Workers /\ Stale(p)' = Stale(p)
  BY <1>1 DEF Stale, At
<1>3. PICK a \in Nat, c \in Nat, m \in Nat :
        /\ a = allowed[p] /\ c = Cardinality(Stale(p)) /\ m = Limit(lost[p], restarts, ticks)
        /\ Limit(lost[p], restarts, ticks + 1) = m + Rate
  BY <1>1, Accounts
<1>4. /\ allowed'[p] = a /\ Limit(lost'[p], restarts', ticks') = m + Rate
      /\ Cardinality(Stale(p)') = c
  BY <1>1, <1>2, <1>3
<1>5. a + c <= m /\ a + c <= m + Rate
  BY <1>3, RatesAssumption DEF Paid
<1>6. ASSUME NEW t \in DOMAIN rows, rows[t] = p
      PROVE  a + c + Holds(<<t, p>>)' <= m + Rate
  <2>1. PICK k \in MapKeys, h \in 0..Burst, g \in 0..Burst :
          k = <<t, p>> /\ h = Holds(k) /\ g = Holds(k)'
    <3>1. PICK k \in MapKeys : k = <<t, p>>
      BY <1>1, <1>6, OwnersHaveKeys
    <3>2. Holds(k) \in 0..Burst
      BY <1>1, HoldsUpToBurst DEF Holds, TypeOK
    <3>3. Holds(k)' \in 0..Burst
      BY <1>1, HoldsUpToBurst DEF Holds, TypeOK
    <3> QED
      BY <3>1, <3>2, <3>3
  <2>2. a + c + h <= m
    BY <1>3, <1>6, <2>1 DEF Paid
  <2>3. g <= h + Rate
    <3>1. CASE limiters[k] = 0
      <4>1. Holds(k) = Burst
        BY <3>1 DEF Holds, HoldsOf
      <4> QED
        BY <2>1, <4>1, RatesAssumption
    <3>2. CASE limiters[k] # 0
      <4>1. PICK l \in DOMAIN tokens : l = limiters[k]
        BY <1>1, <3>2 DEF TypeOK
      <4>2. Holds(k) = tokens[l] /\ Holds(k)' = tokens'[l]
        BY <1>1, <3>2, <4>1 DEF Holds, HoldsOf
      <4>3. tokens'[l] = IF tokens[l] + Rate > Burst THEN Burst ELSE tokens[l] + Rate
        BY <4>1 DEF Tick
      <4>4. g = IF h + Rate > Burst THEN Burst ELSE h + Rate
        BY <2>1, <4>2, <4>3
      <4> QED
        BY <4>4, RatesAssumption
    <3> QED
      BY <3>1, <3>2
  <2>4. a + c + g <= m + Rate
    BY <2>2, <2>3, RatesAssumption
  <2> QED
    BY <2>1, <2>4
<1>7. ASSUME \A t \in DOMAIN rows : rows[t] # p
      PROVE  a + c + Burst <= m + Rate
  <2>1. a + c + Burst <= m
    BY <1>3, <1>7 DEF Paid
  <2> QED
    BY <2>1, RatesAssumption
<1> QED
  BY <1>1, <1>4, <1>5, <1>6, <1>7 DEF Paid

\* A change of number gives p a new limiter at most, when it is p's new tenant,
\* makes p's callers stale at most, when p is taken from its tenant, and does
\* nothing to the other numbers.
LEMMA SyncTenantKeepsPaid ==
  ASSUME IInv, IInv', NEW t \in Tenants, NEW q \in Phones, SyncTenant(t, q),
         NEW p \in Phones, Paid(p)
  PROVE  Paid(p)'
<1>1. /\ TypeOK /\ TypeOK' /\ UNCHANGED <<limiters, tokens, worker, allowed, ticks, restarts>>
      /\ DOMAIN rows' = DOMAIN rows \cup {t}
      /\ \A s \in DOMAIN rows : rows[s] # q
      /\ \A s \in DOMAIN rows' : rows'[s] = IF s = t THEN q ELSE rows[s]
      /\ lost'[p] = IF t \in DOMAIN rows /\ rows[t] = p THEN lost[p] + 1 ELSE lost[p]
  BY DEF SyncTenant, IInv, TypeOK
<1>2. Stale(p) \in SUBSET Workers /\ Stale(p)' \in SUBSET Workers
  BY DEF Stale
<1>3. PICK a \in Nat, c \in Nat, d \in Nat, n \in Nat, m \in Nat :
        /\ a = allowed[p] /\ c = Cardinality(Stale(p)) /\ d = Cardinality(Stale(p)')
        /\ n = Cardinality(Workers) /\ d <= n
        /\ m = Limit(lost[p], restarts, ticks)
        /\ Limit(lost[p] + 1, restarts, ticks) = m + Burst + n
  <2>1. /\ Cardinality(Workers) \in Nat /\ Cardinality(Stale(p)') \in Nat
        /\ Cardinality(Stale(p)') <= Cardinality(Workers)
    BY <1>2, SomeWorkers, FiniteAssumption, FS_CardinalityType
  <2> QED
    BY <1>1, <2>1, Accounts
<1>4. allowed'[p] = a /\ Cardinality(Stale(p)') = d
  BY <1>1, <1>3
<1>5. a + c <= m
  BY <1>3 DEF Paid
<1>6. CASE p = q
  <2>1. Limit(lost'[p], restarts', ticks') = m
    BY <1>1, <1>3, <1>6
  <2>2. d <= c
    <3>1. Stale(p)' \subseteq Stale(p)
      BY <1>1, <1>6 DEF Stale, At
    <3> QED
      BY <1>2, <1>3, <3>1, SomeWorkers, FS_Subset
  <2>3. a + c + Burst <= m
    BY <1>1, <1>3, <1>6 DEF Paid
  <2>4. a + d <= m
    BY <1>5, <2>2
  <2>5. ASSUME NEW s \in DOMAIN rows', rows'[s] = p
        PROVE  a + d + Holds(<<s, p>>)' <= m
    <3>1. PICK g \in 0..Burst : g = Holds(<<s, p>>)'
      <4>1. PICK k \in MapKeys : k = <<s, p>>
        BY <1>1, <2>5, OwnersHaveKeys DEF MapKeys
      <4>2. Holds(k)' \in 0..Burst
        BY <1>1, HoldsUpToBurst DEF Holds, TypeOK
      <4> QED
        BY <4>1, <4>2
    <3>2. a + d + g <= m
      BY <2>2, <2>3, RatesAssumption
    <3> QED
      BY <3>1, <3>2
  <2>6. t \in DOMAIN rows' /\ rows'[t] = p
    BY <1>1, <1>6
  <2> QED
    BY <1>4, <2>1, <2>4, <2>5, <2>6 DEF Paid
<1>7. CASE p # q /\ t \in DOMAIN rows /\ rows[t] = p
  <2>1. Limit(lost'[p], restarts', ticks') = m + Burst + n
    BY <1>1, <1>3, <1>7
  <2>2. a + d + Burst <= m + Burst + n /\ a + d <= m + Burst + n
    BY <1>3, <1>5, RatesAssumption
  <2>3. \A s \in DOMAIN rows' : rows'[s] # p
    BY <1>1, <1>7, OwnersHaveKeys
  <2> QED
    BY <1>4, <2>1, <2>2, <2>3 DEF Paid
<1>8. CASE p # q /\ ~(t \in DOMAIN rows /\ rows[t] = p)
  <2>2. Limit(lost'[p], restarts', ticks') = m
    BY <1>1, <1>3, <1>8
  <2>3. \A s \in DOMAIN rows' : rows'[s] = p => s \in DOMAIN rows /\ rows[s] = p
    BY <1>1, <1>8
  <2>4. \A s \in DOMAIN rows : rows[s] = p => s \in DOMAIN rows' /\ rows'[s] = p
    BY <1>1, <1>8
  <2>5. d = c
    <3>1. ASSUME NEW w \in Workers, worker[w].key \in MapKeys, worker[w].key[2] = p
          PROVE  (\A s \in DOMAIN rows : worker[w].key # <<s, rows[s]>>)
                   <=> (\A s \in DOMAIN rows' : worker[w].key # <<s, rows'[s]>>)
      <4>1. \A s : worker[w].key = <<s, rows[s]>> => rows[s] = p
        BY <3>1
      <4>2. \A s : worker[w].key = <<s, rows'[s]>> => rows'[s] = p
        BY <3>1
      <4> QED
        BY <2>3, <2>4, <4>1, <4>2
    <3>2. \A w \in Workers : ~At(w, "idle") => worker[w].key \in MapKeys
      BY DEF IInv, Called
    <3>3. Stale(p)' = Stale(p)
      BY <1>1, <3>1, <3>2 DEF Stale, At
    <3> QED
      BY <1>3, <3>3
  <2>6. ASSUME NEW s \in DOMAIN rows', rows'[s] = p
        PROVE  a + d + Holds(<<s, p>>)' <= m
    <3>1. Holds(<<s, p>>)' = Holds(<<s, p>>)
      BY <1>1 DEF Holds
    <3>2. a + c + Holds(<<s, p>>) <= m
      BY <1>3, <2>3, <2>6 DEF Paid
    <3> QED
      BY <2>5, <3>1, <3>2
  <2>7. ASSUME \A s \in DOMAIN rows' : rows'[s] # p
        PROVE  a + d + Burst <= m
    BY <1>3, <2>4, <2>5, <2>7 DEF Paid
  <2>8. a + d <= m
    BY <1>5, <2>5
  <2> QED
    BY <1>4, <2>2, <2>6, <2>7, <2>8 DEF Paid
<1> QED
  BY <1>6, <1>7, <1>8

\* After a restart nobody is stale and every limiter is new.
LEMMA RestartKeepsPaid ==
  ASSUME IInv, IInv', Restart, NEW p \in Phones, Paid(p)
  PROVE  Paid(p)'
<1>1. /\ TypeOK /\ TypeOK' /\ UNCHANGED <<allowed, ticks, lost, moves>>
      /\ restarts' = restarts + 1
      /\ worker' = [w \in Workers |-> Idle]
  BY DEF Restart, IInv
<1>2. Stale(p) \in SUBSET Workers /\ Stale(p)' = {}
  BY <1>1 DEF Stale, At, Idle
<1>3. PICK a \in Nat, c \in Nat, m \in Nat :
        /\ a = allowed[p] /\ c = Cardinality(Stale(p)) /\ m = Limit(lost[p], restarts, ticks)
        /\ Limit(lost[p], restarts + 1, ticks) = m + Burst
  BY <1>1, Accounts
<1>4. /\ allowed'[p] = a /\ Limit(lost'[p], restarts', ticks') = m + Burst
      /\ Cardinality(Stale(p)') = 0
  BY <1>1, <1>2, <1>3, FS_EmptySet
<1>5. a + c <= m /\ a <= m /\ a + 0 <= m + Burst
  <2>1. a + c <= m
    BY <1>3 DEF Paid
  <2> QED
    BY <2>1, RatesAssumption
<1>6. ASSUME NEW s \in DOMAIN rows', rows'[s] = p
      PROVE  a + 0 + Holds(<<s, p>>)' <= m + Burst
  <2>1. PICK k \in MapKeys, g \in 0..Burst : k = <<s, p>> /\ g = Holds(k)'
    <3>1. PICK k \in MapKeys : k = <<s, p>>
      BY <1>1, <1>6 DEF TypeOK, Assignments, Injection, MapKeys
    <3>2. Holds(k)' \in 0..Burst
      BY <1>1, HoldsUpToBurst DEF Holds, TypeOK
    <3> QED
      BY <3>1, <3>2
  <2>2. a + 0 + g <= m + Burst
    BY <1>5, <2>1, RatesAssumption
  <2> QED
    BY <2>1, <2>2
<1>7. a + 0 + Burst <= m + Burst
  BY <1>5, RatesAssumption
<1> QED
  BY <1>1, <1>4, <1>5, <1>6, <1>7 DEF Paid

LEMMA RateInvKept == RateInv /\ [Next]_vars => RateInv'
<1> SUFFICES ASSUME RateInv, [Next]_vars
             PROVE  RateInv'
  OBVIOUS
<1>1. IInv /\ IInv'
  BY IInvKept DEF RateInv
<1>2. ASSUME NEW p \in Phones
      PROVE  Paid(p)'
  <2>1. Paid(p)
    BY DEF RateInv
  <2>2. ASSUME NEW w \in Workers, GetTenant(w) \/ CallStep(w)
        PROVE  Paid(p)'
    BY <1>1, <2>1, <2>2, CallsKeepPaid, AllowKeepsPaid DEF CallStep
  <2>3. CASE Tick
    BY <1>1, <2>1, <2>3, TickKeepsPaid
  <2>4. ASSUME NEW t \in Tenants, NEW q \in Phones, SyncTenant(t, q)
        PROVE  Paid(p)'
    BY <1>1, <2>1, <2>4, SyncTenantKeepsPaid
  <2>5. CASE Restart
    BY <1>1, <2>1, <2>5, RestartKeepsPaid
  <2>6. CASE UNCHANGED vars
    BY <2>1, <2>6 DEF vars, Paid, Stale, At, Holds
  <2> QED
    BY <2>2, <2>3, <2>4, <2>5, <2>6 DEF Next
<1> QED
  BY <1>1, <1>2 DEF RateInv

\* What a phone number has had stays below a burst for its first owner, one for
\* every time it was taken from its tenant and every restart, the rate, and a
\* message per worker for every time it was taken: the limiters of limiter.go are
\* kept by tenant and phone, and a worker may still ask the one of a tenant that
\* has lost the number.
THEOREM NumbersKeepTheirRate == Spec => []PhoneRateIsBounded
<1>1. Init => RateInv
  BY InitIInv, InitPaid DEF RateInv
<1>2. ASSUME RateInv, NEW p \in Phones
      PROVE  allowed[p] <= Limit(lost[p], restarts, ticks)
  <2>1. TypeOK /\ Paid(p)
    BY <1>2 DEF RateInv, IInv
  <2>3. PICK a \in Nat, c \in Nat, m \in Nat :
          /\ a = allowed[p] /\ c = Cardinality(Stale(p)) /\ m = Limit(lost[p], restarts, ticks)
    BY <2>1, Accounts
  <2>4. a + c <= m
    BY <2>1, <2>3 DEF Paid
  <2>5. a <= m
    BY <2>4
  <2> QED
    BY <2>3, <2>5
<1>3. RateInv => PhoneRateIsBounded
  BY <1>2 DEF PhoneRateIsBounded, Limit
<1> QED
  BY <1>1, <1>3, RateInvKept, PTL DEF Spec

----------------------------------------------------------------------------
\* The map is never written while another goroutine reads or writes it.
MapIsNotRaced ==
  \A v, w \in Workers : At(w, "create") /\ v # w => worker[v].pc \notin {"lookup", "create"}

LEMMA MapStaysUnraced == IInv /\ MapIsNotRaced /\ [Next]_vars => MapIsNotRaced'
<1> SUFFICES ASSUME IInv, MapIsNotRaced, [Next]_vars
             PROVE  MapIsNotRaced'
  OBVIOUS
<1>0. TypeOK
  BY DEF IInv
<1>1. ASSUME NEW w \in Workers, GetTenant(w) \/ LookUp(w) \/ Create(w) \/ Allow(w)
      PROVE  MapIsNotRaced'
  <2>1. /\ worker'[w].pc \in {"idle", "rlock", "lock", "ask"}
        /\ \A v \in Workers \ {w} : worker'[v] = worker[v]
    <3>1. CASE GetTenant(w) \/ Allow(w)
      BY <1>0, <3>1 DEF GetTenant, Allow, TypeOK, Idle
    <3>2. CASE LookUp(w) \/ Create(w)
      BY <1>0, <3>2 DEF LookUp, Create, NewLimiter, Have, Goto, TypeOK
    <3> QED
      BY <1>1, <3>1, <3>2
  <2> QED
    BY <2>1 DEF MapIsNotRaced, At
<1>2. ASSUME NEW w \in Workers, RLock(w) \/ Lock(w)
      PROVE  MapIsNotRaced'
  <2>1. CASE RLock(w)
    <3>1. "lookup" \in Places
      BY DEF Places
    <3>2. /\ worker'[w].pc = "lookup"
          /\ \A v \in Workers \ {w} : worker'[v] = worker[v]
          /\ \A v \in Workers : worker[v].pc # "create"
      BY <1>0, <2>1, <3>1, GoneOn DEF RLock
    <3> QED
      BY <3>2 DEF MapIsNotRaced, At
  <2>2. CASE Lock(w)
    <3>1. "create" \in Places
      BY DEF Places
    <3>2. /\ worker'[w].pc = "create"
          /\ \A v \in Workers \ {w} : worker'[v] = worker[v]
          /\ \A v \in Workers : worker[v].pc \notin {"lookup", "create"}
      BY <1>0, <2>2, <3>1, GoneOn DEF Lock
    <3> QED
      BY <3>2 DEF MapIsNotRaced, At
  <2> QED
    BY <1>2, <2>1, <2>2
<1>3. CASE Tick \/ \E t \in Tenants, p \in Phones : SyncTenant(t, p)
  <2>1. UNCHANGED worker
    BY <1>3 DEF Tick, SyncTenant
  <2> QED
    BY <2>1 DEF MapIsNotRaced, At
<1>4. CASE Restart
  BY <1>4 DEF Restart, MapIsNotRaced, At, Idle
<1>5. CASE UNCHANGED vars
  BY <1>5 DEF vars, MapIsNotRaced, At
<1> QED
  BY <1>1, <1>2, <1>3, <1>4, <1>5 DEF Next, CallStep

\* The read and the write lock of Allow keep goroutines apart: no two use the
\* map at a time of which one writes it (which Go answers with a fatal error).
THEOREM MapIsNeverRaced == Spec => []MapIsNotRaced
<1>1. Init => MapIsNotRaced
  BY DEF Init, MapIsNotRaced, At, Idle
<1> QED
  BY <1>1, MapStaysUnraced, IInvHolds, PTL DEF Spec

==============================================================================
