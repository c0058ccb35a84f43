---------------------------- MODULE IngressProofs ----------------------------
(***************************************************************************)
(* Proofs about Ingress, for any number of requests, tenants and jobs: who *)
(* is told 202 has a job, requests with one key leave one job, and a       *)
(* tenant goes over its quota by no more than the other requests in        *)
(* flight.                                                                 *)
(***************************************************************************)
EXTENDS Ingress, FiniteSetTheorems, TLAPS

\* What CountTenantJobsInWindow counts, and the requests past the count.
CountedJobs(t) == {j \in Jobs : jobs[j].tenant = t /\ jobs[j].state = "counted"}
Inserting(t) == {h \in Handlers : request[h].pc = "insert" /\ request[h].tenant = t}

\* The history variable is above the limit of the row, or says that there was
\* none.
Ceilings == \A t \in Tenants : ceiling[t] = 0 \/ tenants[t].limit \in 1..ceiling[t]

\* A request that still has to count works with a limit the tenant has had.
Copies ==
  \A h \in Handlers : request[h].pc = "count" =>
    /\ request[h].tenant \in Tenants
    /\ ceiling[request[h].tenant] = 0 \/ request[h].limit <= ceiling[request[h].tenant]

\* A request that inserts, inserts for a tenant.
Addressed == \A h \in Handlers : request[h].pc = "insert" => request[h].tenant \in Tenants

Bounded(t) ==
  ceiling[t] > 0 =>
    Cardinality(CountedJobs(t)) + Cardinality(Inserting(t))
      <= ceiling[t] + Cardinality(Handlers) - 1

IInv ==
  /\ TypeOK /\ Ceilings /\ Copies /\ Addressed /\ AcceptedIsStored
  /\ \A t \in Tenants : Bounded(t)

----------------------------------------------------------------------------
(* Numbers and cardinalities.                                              *)

LEMMA LimitsAreNat == \A l \in Limits \cup {0} : l \in Nat
BY LimitsAssumption

LEMMA NumbersAreNat ==
  ASSUME TypeOK
  PROVE  /\ \A t \in Tenants : tenants[t].limit \in Nat /\ ceiling[t] \in Nat
         /\ \A h \in Handlers : request[h].limit \in Nat
<1>1. ASSUME NEW t \in Tenants
      PROVE  tenants[t].limit \in Nat /\ ceiling[t] \in Nat
  <2>1. tenants[t].limit \in Limits /\ ceiling[t] \in Limits \cup {0}
    BY DEF TypeOK
  <2> QED
    BY <2>1, LimitsAreNat
<1>2. ASSUME NEW h \in Handlers
      PROVE  request[h].limit \in Nat
  <2>1. request[h].limit \in Limits
    BY DEF TypeOK, Request
  <2> QED
    BY <2>1, LimitsAreNat
<1> QED
  BY <1>1, <1>2

LEMMA CardinalitiesAreNat ==
  /\ Cardinality(Handlers) \in Nat
  /\ \A t : /\ IsFiniteSet(CountedJobs(t)) /\ Cardinality(CountedJobs(t)) \in Nat
            /\ IsFiniteSet(Inserting(t)) /\ Cardinality(Inserting(t)) \in Nat
            /\ Cardinality(Inserting(t)) <= Cardinality(Handlers)
<1>1. Cardinality(Handlers) \in Nat
  BY FS_CardinalityType, FiniteAssumption
<1>2. ASSUME NEW t
      PROVE  IsFiniteSet(CountedJobs(t)) /\ Cardinality(CountedJobs(t)) \in Nat
  <2>1. CountedJobs(t) \in SUBSET Jobs
    BY DEF CountedJobs
  <2> QED
    BY <2>1, FS_Subset, FS_CardinalityType, FiniteAssumption
<1>3. ASSUME NEW t
      PROVE  /\ IsFiniteSet(Inserting(t)) /\ Cardinality(Inserting(t)) \in Nat
             /\ Cardinality(Inserting(t)) <= Cardinality(Handlers)
  <2>1. Inserting(t) \in SUBSET Handlers
    BY DEF Inserting
  <2> QED
    BY <2>1, FS_Subset, FS_CardinalityType, FiniteAssumption
<1> QED
  BY <1>1, <1>2, <1>3

\* The bound stays when the jobs and requests that count do not become more.
LEMMA FewerAreBounded ==
  ASSUME TypeOK, NEW t \in Tenants, Bounded(t), ceiling'[t] = ceiling[t],
         CountedJobs(t)' \subseteq CountedJobs(t), Inserting(t)' \subseteq Inserting(t)
  PROVE  Bounded(t)'
<1>1. /\ IsFiniteSet(CountedJobs(t)) /\ Cardinality(CountedJobs(t)) \in Nat
      /\ IsFiniteSet(Inserting(t)) /\ Cardinality(Inserting(t)) \in Nat
      /\ Cardinality(Handlers) \in Nat
  BY CardinalitiesAreNat
<1>2. /\ Cardinality(CountedJobs(t)') \in Nat /\ Cardinality(Inserting(t)') \in Nat
      /\ Cardinality(CountedJobs(t)') <= Cardinality(CountedJobs(t))
      /\ Cardinality(Inserting(t)') <= Cardinality(Inserting(t))
  BY <1>1, FS_Subset, FS_CardinalityType
<1>3. ceiling[t] \in Nat
  BY NumbersAreNat
<1> QED
  BY <1>1, <1>2, <1>3 DEF Bounded

----------------------------------------------------------------------------
LEMMA InitIInv == Init => IInv
<1> SUFFICES ASSUME Init
             PROVE  IInv
  OBVIOUS
<1> USE DEF Init
<1>1. NoLimit \in Limits
  BY LimitsAssumption DEF NoLimit
<1>2. TypeOK
  <2>1. Free \in Request
    BY <1>1 DEF Free, Request
  <2>2. request \in [Handlers -> Request]
    BY <2>1
  <2>3. tenants \in [Tenants -> [limit : Limits, paused : BOOLEAN]]
    OBVIOUS
  <2>4. ceiling \in [Tenants -> Limits \cup {0}]
    BY <2>3
  <2>5. jobs \in [Jobs -> JobRow]
    BY DEF JobRow, JobStates
  <2> QED
    BY <2>2, <2>3, <2>4, <2>5, MaxChangesAssumption DEF TypeOK
<1>3. Ceilings
  <2>1. \A t \in Tenants : tenants[t].limit \in Nat /\ ceiling[t] = tenants[t].limit
    BY <1>2, NumbersAreNat
  <2> QED
    BY <2>1 DEF Ceilings
<1>4. Copies /\ Addressed /\ AcceptedIsStored
  BY DEF Copies, Addressed, AcceptedIsStored, Free
<1>5. ASSUME NEW t \in Tenants
      PROVE  Bounded(t)
  <2>1. CountedJobs(t) = {} /\ Inserting(t) = {}
    BY DEF CountedJobs, Inserting, Free
  <2>2. Cardinality(CountedJobs(t)) = 0 /\ Cardinality(Inserting(t)) = 0
    BY <2>1, FS_EmptySet
  <2>3. Cardinality(Handlers) \in Nat /\ ceiling[t] \in Nat
    BY <1>2, CardinalitiesAreNat, NumbersAreNat
  <2> QED
    BY <2>2, <2>3 DEF Bounded
<1> QED
  BY <1>2, <1>3, <1>4, <1>5 DEF IInv

\* An answer ends the statements of a request and changes nothing else of it.
LEMMA Answered ==
  ASSUME TypeOK, NEW h \in Handlers, NEW a \in Answers, Answer(h, a)
  PROVE  /\ request' \in [Handlers -> Request]
         /\ request'[h].pc = "done" /\ request'[h].answer = a
         /\ request'[h].tenant = request[h].tenant /\ request'[h].key = request[h].key
         /\ \A g \in Handlers \ {h} : request'[g] = request[g]
BY DEF TypeOK, Answer, Request

\* A statement that is answered leaves a request less that inserts.
LEMMA AnsweredInserts ==
  ASSUME NEW h \in Handlers, NEW t,
         request'[h].pc # "insert",
         \A g \in Handlers \ {h} : request'[g] = request[g]
  PROVE  Inserting(t)' = Inserting(t) \ {h}
BY DEF Inserting

LEMMA IInvKept == IInv /\ [Next]_vars => IInv'
<1> SUFFICES ASSUME IInv, [Next]_vars
             PROVE  IInv'
  OBVIOUS
<1> USE DEF IInv
<1>1. ASSUME NEW h \in Handlers, NEW t \in Tenants, NEW k \in Keys \cup {NoKey},
             APIKeyMiddleware(h, t, k)
      PROVE  IInv'
  <2> DEFINE pc == IF tenants[t].limit > 0 THEN "count" ELSE "insert"
             new == [pc |-> pc, tenant |-> t, key |-> k, limit |-> tenants[t].limit,
                     answer |-> "none"]
  <2>1. /\ request' = [request EXCEPT ![h] = new]
        /\ request[h].pc = "free"
        /\ UNCHANGED <<tenants, jobs, ceiling, changes>>
    BY <1>1 DEF APIKeyMiddleware
  <2>2. /\ tenants[t].limit \in Limits /\ tenants[t].limit \in Nat /\ ceiling[t] \in Nat
        /\ new \in Request
    <3>1. tenants[t].limit \in Limits
      BY DEF TypeOK
    <3> QED
      BY <3>1, NumbersAreNat DEF Request
  <2>3. request' \in [Handlers -> Request] /\ request'[h] = new
        /\ \A g \in Handlers \ {h} : request'[g] = request[g]
    BY <2>1, <2>2 DEF TypeOK
  <2>4. TypeOK'
    BY <2>1, <2>3 DEF TypeOK
  <2>5. Ceilings' /\ Copies' /\ Addressed' /\ AcceptedIsStored'
    BY <2>1, <2>2, <2>3 DEF Ceilings, Copies, Addressed, AcceptedIsStored
  <2>6. ASSUME NEW s \in Tenants
        PROVE  Bounded(s)'
    <3>1. CASE s = t /\ pc = "insert"
      BY <2>1, <2>2, <3>1 DEF Ceilings, Bounded
    <3>2. CASE ~(s = t /\ pc = "insert")
      <4>1. CountedJobs(s)' \subseteq CountedJobs(s) /\ Inserting(s)' \subseteq Inserting(s)
        BY <2>1, <2>3, <3>2 DEF CountedJobs, Inserting
      <4> QED
        BY <2>1, <4>1, FewerAreBounded
    <3> QED
      BY <3>1, <3>2
  <2> QED
    BY <2>4, <2>5, <2>6
<1>2. ASSUME NEW h \in Handlers, CheckQuota(h)
      PROVE  IInv'
  <2> DEFINE t == request[h].tenant
  <2>1. /\ request[h].pc = "count" /\ UNCHANGED <<tenants, jobs, ceiling, changes>>
        /\ t \in Tenants
    BY <1>2 DEF CheckQuota, Copies
  <2>2. CASE Answer(h, "quota")
    <3>1. "quota" \in Answers
      BY DEF Answers
    <3>2. TypeOK' /\ Ceilings' /\ Copies' /\ Addressed' /\ AcceptedIsStored'
      BY <2>1, <2>2, <3>1, Answered
         DEF TypeOK, Ceilings, Copies, Addressed, AcceptedIsStored
    <3>3. ASSUME NEW s \in Tenants
          PROVE  Bounded(s)'
      <4>1. CountedJobs(s)' \subseteq CountedJobs(s) /\ Inserting(s)' \subseteq Inserting(s)
        BY <2>1, <2>2, <3>1, Answered, AnsweredInserts DEF CountedJobs
      <4> QED
        BY <2>1, <4>1, FewerAreBounded
    <3> QED
      BY <3>2, <3>3
  <2>3. CASE /\ ~(CountTenantJobsInWindow(t) >= request[h].limit)
             /\ request' = [request EXCEPT ![h].pc = "insert"]
    <3>1. /\ request'[h].pc = "insert" /\ request'[h].tenant = t
          /\ request'[h].answer = request[h].answer /\ request'[h].key = request[h].key
          /\ \A g \in Handlers \ {h} : request'[g] = request[g]
          /\ request' \in [Handlers -> Request]
      BY <2>3 DEF TypeOK, Request
    <3>2. TypeOK' /\ Ceilings' /\ Copies' /\ Addressed' /\ AcceptedIsStored'
      BY <2>1, <3>1 DEF TypeOK, Ceilings, Copies, Addressed, AcceptedIsStored
    <3>3. ASSUME NEW s \in Tenants
          PROVE  Bounded(s)'
      <4>1. CountedJobs(s)' = CountedJobs(s)
        BY <2>1 DEF CountedJobs
      <4>2. CASE s # t
        <5>1. Inserting(s)' \subseteq Inserting(s)
          BY <3>1, <4>2 DEF Inserting
        <5> QED
          BY <2>1, <4>1, <5>1, FewerAreBounded
      <4>3. CASE s = t
        <5>1. /\ Cardinality(CountedJobs(s)) \in Nat /\ Cardinality(Handlers) \in Nat
              /\ request[h].limit \in Nat /\ ceiling[s] \in Nat
          BY CardinalitiesAreNat, NumbersAreNat
        <5>2. Cardinality(CountedJobs(s)) < request[h].limit
          BY <2>3, <4>3, <5>1 DEF CountTenantJobsInWindow, CountedJobs
        <5>3. ceiling[s] = 0 \/ request[h].limit <= ceiling[s]
          BY <2>1, <4>3 DEF Copies
        <5>4. Cardinality(Inserting(s)') \in Nat
              /\ Cardinality(Inserting(s)') <= Cardinality(Handlers)
          <6>1. Inserting(s)' \in SUBSET Handlers
            BY DEF Inserting
          <6> QED
            BY <6>1, FS_Subset, FS_CardinalityType, FiniteAssumption
        <5> QED
          BY <2>1, <4>1, <5>1, <5>2, <5>3, <5>4 DEF Bounded
      <4> QED
        BY <4>2, <4>3
    <3> QED
      BY <3>2, <3>3
  <2> QED
    BY <1>2, <2>2, <2>3 DEF CheckQuota
<1>3. ASSUME NEW h \in Handlers, Insert(h)
      PROVE  IInv'
  <2> DEFINE t == request[h].tenant
             k == request[h].key
  <2>1. /\ request[h].pc = "insert" /\ UNCHANGED <<tenants, ceiling, changes>>
        /\ t \in Tenants
    BY <1>3 DEF Insert, Addressed
  <2>2. PICK a \in {"accepted", "existing"} : Answer(h, a)
    BY <1>3 DEF Insert
  <2>3. /\ request' \in [Handlers -> Request]
        /\ request'[h].pc = "done" /\ request'[h].answer = a
        /\ request'[h].tenant = t /\ request'[h].key = k
        /\ \A g \in Handlers \ {h} : request'[g] = request[g]
    <3>1. a \in Answers
      BY DEF Answers
    <3> QED
      BY <2>2, <3>1, Answered
  <2>4. Ceilings' /\ Copies' /\ Addressed'
    BY <2>1, <2>3 DEF Ceilings, Copies, Addressed
  <2>5. CASE Conflict(t, k) /\ UNCHANGED jobs
    <3>1. TypeOK'
      BY <2>1, <2>3, <2>5 DEF TypeOK
    <3>2. \E j \in Jobs : jobs[j].state # "none" /\ jobs[j].tenant = t /\ jobs[j].key = k
      BY <2>5 DEF Conflict, InTable
    <3>3. AcceptedIsStored'
      BY <2>3, <2>5, <3>2 DEF AcceptedIsStored
    <3>4. ASSUME NEW s \in Tenants
          PROVE  Bounded(s)'
      <4>1. CountedJobs(s)' \subseteq CountedJobs(s) /\ Inserting(s)' \subseteq Inserting(s)
        BY <2>3, <2>5, AnsweredInserts DEF CountedJobs
      <4> QED
        BY <2>1, <4>1, FewerAreBounded
    <3> QED
      BY <2>4, <3>1, <3>3, <3>4
  <2>6. CASE \E j \in Jobs : InsertJob(j, t, k)
    <3>1. PICK j \in Jobs : InsertJob(j, t, k)
      BY <2>6
    <3>2. k \in Keys \cup {NoKey}
      BY DEF TypeOK, Request
    <3>3. /\ jobs[j].state = "none"
          /\ jobs'[j].state = "counted" /\ jobs'[j].tenant = t /\ jobs'[j].key = k
          /\ \A i \in Jobs \ {j} : jobs'[i] = jobs[i]
          /\ jobs' \in [Jobs -> JobRow]
      BY <2>1, <3>1, <3>2 DEF InsertJob, TypeOK, JobRow, JobStates
    <3>4. TypeOK'
      BY <2>1, <2>3, <3>3 DEF TypeOK
    <3>5. AcceptedIsStored'
      <4>1. ASSUME NEW g \in Handlers, request'[g].answer \in {"accepted", "existing"}
            PROVE  \E i \in Jobs : /\ jobs'[i].state # "none"
                                   /\ jobs'[i].tenant = request'[g].tenant
                                   /\ jobs'[i].key = request'[g].key
        <5>1. CASE g = h
          BY <2>3, <3>3, <5>1
        <5>2. CASE g # h
          <6>1. PICK i \in Jobs : /\ jobs[i].state # "none"
                                  /\ jobs[i].tenant = request[g].tenant
                                  /\ jobs[i].key = request[g].key
            BY <2>3, <4>1, <5>2 DEF AcceptedIsStored
          <6>2. jobs'[i] = jobs[i] /\ request'[g] = request[g]
            BY <2>3, <3>3, <5>2, <6>1
          <6> QED
            BY <6>1, <6>2
        <5> QED
          BY <5>1, <5>2
      <4> QED
        BY <4>1 DEF AcceptedIsStored
    <3>6. ASSUME NEW s \in Tenants
          PROVE  Bounded(s)'
      <4>1. CASE s # t
        <5>1. CountedJobs(s)' \subseteq CountedJobs(s)
          BY <3>3, <4>1 DEF CountedJobs
        <5>2. Inserting(s)' \subseteq Inserting(s)
          BY <2>3, AnsweredInserts
        <5> QED
          BY <2>1, <5>1, <5>2, FewerAreBounded
      <4>2. CASE s = t
        <5>1. CountedJobs(s)' = CountedJobs(s) \cup {j} /\ j \notin CountedJobs(s)
          BY <3>3, <4>2 DEF CountedJobs
        <5>2. Inserting(s)' = Inserting(s) \ {h} /\ h \in Inserting(s)
          <6>1. h \in Inserting(s)
            BY <2>1, <4>2 DEF Inserting
          <6> QED
            BY <2>3, <6>1, AnsweredInserts
        <5>3. /\ Cardinality(CountedJobs(s)') = Cardinality(CountedJobs(s)) + 1
              /\ Cardinality(Inserting(s)') = Cardinality(Inserting(s)) - 1
              /\ Cardinality(CountedJobs(s)) \in Nat /\ Cardinality(Inserting(s)) \in Nat
              /\ Cardinality(Handlers) \in Nat
          <6>1. /\ IsFiniteSet(CountedJobs(s)) /\ IsFiniteSet(Inserting(s))
                /\ Cardinality(CountedJobs(s)) \in Nat /\ Cardinality(Inserting(s)) \in Nat
                /\ Cardinality(Handlers) \in Nat
            BY CardinalitiesAreNat
          <6>2. Cardinality(CountedJobs(s) \cup {j}) = Cardinality(CountedJobs(s)) + 1
            BY <5>1, <6>1, FS_AddElement
          <6>3. Cardinality(Inserting(s) \ {h}) = Cardinality(Inserting(s)) - 1
            BY <5>2, <6>1, FS_RemoveElement
          <6> QED
            BY <5>1, <5>2, <6>1, <6>2, <6>3
        <5>4. ceiling'[s] = ceiling[s] /\ ceiling[s] \in Nat
          BY <2>1, NumbersAreNat
        <5> QED
          BY <5>3, <5>4 DEF Bounded
      <4> QED
        BY <4>1, <4>2
    <3> QED
      BY <2>4, <3>4, <3>5, <3>6
  <2> QED
    BY <1>3, <2>5, <2>6 DEF Insert
<1>4. ASSUME NEW h \in Handlers, StatementFails(h) \/ Finish(h)
      PROVE  IInv'
  <2>1. /\ UNCHANGED <<tenants, jobs, ceiling, changes>>
        /\ request' \in [Handlers -> Request]
        /\ request'[h].pc \in {"free", "done"} /\ request'[h].answer \in {"error", "none"}
        /\ \A g \in Handlers \ {h} : request'[g] = request[g]
    <3>1. CASE StatementFails(h)
      <4>1. Answer(h, "error") /\ "error" \in Answers
        BY <3>1 DEF StatementFails, Answers
      <4> QED
        BY <3>1, <4>1, Answered DEF StatementFails
    <3>2. CASE Finish(h)
      <4>1. Free \in Request
        BY LimitsAssumption DEF Free, Request, NoLimit
      <4> QED
        BY <3>2, <4>1 DEF Finish, TypeOK, Free
    <3> QED
      BY <1>4, <3>1, <3>2
  <2>2. TypeOK' /\ Ceilings' /\ Copies' /\ Addressed' /\ AcceptedIsStored'
    BY <2>1 DEF TypeOK, Ceilings, Copies, Addressed, AcceptedIsStored
  <2>3. ASSUME NEW s \in Tenants
        PROVE  Bounded(s)'
    <3>1. CountedJobs(s)' \subseteq CountedJobs(s) /\ Inserting(s)' \subseteq Inserting(s)
      BY <2>1, AnsweredInserts DEF CountedJobs
    <3> QED
      BY <2>1, <3>1, FewerAreBounded
  <2> QED
    BY <2>2, <2>3
<1>5. ASSUME NEW j \in Jobs, JobMoves(j)
      PROVE  IInv'
  <2>1. PICK s \in JobStates :
          /\ jobs[j].state # "none" /\ s \notin {"none", "counted"}
          /\ jobs' = [jobs EXCEPT ![j].state = s]
          /\ UNCHANGED <<tenants, request, ceiling, changes>>
    BY <1>5 DEF JobMoves
  <2>2. /\ jobs' \in [Jobs -> JobRow]
        /\ jobs'[j].state = s
        /\ \A i \in Jobs : jobs'[i].tenant = jobs[i].tenant /\ jobs'[i].key = jobs[i].key
        /\ \A i \in Jobs \ {j} : jobs'[i] = jobs[i]
    BY <2>1 DEF TypeOK, JobRow
  <2>3. TypeOK' /\ Ceilings' /\ Copies' /\ Addressed'
    BY <2>1, <2>2 DEF TypeOK, Ceilings, Copies, Addressed
  <2>4. \A i \in Jobs : jobs[i].state # "none" => jobs'[i].state # "none"
    BY <2>1, <2>2
  <2>5. AcceptedIsStored'
    BY <2>1, <2>2, <2>4 DEF AcceptedIsStored
  <2>6. ASSUME NEW t \in Tenants
        PROVE  Bounded(t)'
    <3>1. CountedJobs(t)' \subseteq CountedJobs(t) /\ Inserting(t)' \subseteq Inserting(t)
      BY <2>1, <2>2 DEF CountedJobs, Inserting
    <3> QED
      BY <2>1, <3>1, FewerAreBounded
  <2> QED
    BY <2>3, <2>5, <2>6
<1>6. ASSUME NEW t \in Tenants, TenantChanges(t)
      PROVE  IInv'
  <2>1. PICK l \in Limits, p \in BOOLEAN :
          /\ tenants' = [tenants EXCEPT ![t] = [limit |-> l, paused |-> p]]
          /\ ceiling' = [ceiling EXCEPT ![t] =
               IF ceiling[t] = 0 \/ l = 0 THEN 0 ELSE IF l > ceiling[t] THEN l ELSE ceiling[t]]
    BY <1>6 DEF TenantChanges
  <2>2. UNCHANGED <<jobs, request>> /\ changes' \in 0..MaxChanges
    BY <1>6, MaxChangesAssumption DEF TenantChanges, TypeOK
  <2>3. l \in Nat /\ \A s \in Tenants : ceiling[s] \in Nat
    BY LimitsAreNat, NumbersAreNat
  <2>4. /\ tenants'[t].limit = l
        /\ \A s \in Tenants \ {t} : tenants'[s] = tenants[s] /\ ceiling'[s] = ceiling[s]
        /\ ceiling'[t] = 0 \/ (ceiling[t] > 0 /\ ceiling'[t] >= ceiling[t] /\ ceiling'[t] >= l /\ l > 0)
        /\ ceiling' \in [Tenants -> Limits \cup {0}]
    <3> DEFINE c == IF ceiling[t] = 0 \/ l = 0 THEN 0 ELSE IF l > ceiling[t] THEN l ELSE ceiling[t]
    <3>1. c \in Limits \cup {0}
      BY DEF TypeOK
    <3>2. c = 0 \/ (ceiling[t] > 0 /\ c >= ceiling[t] /\ c >= l /\ l > 0)
      <4>1. CASE ceiling[t] = 0 \/ l = 0
        BY <4>1
      <4>2. CASE ceiling[t] # 0 /\ l # 0 /\ l > ceiling[t]
        BY <2>3, <4>2
      <4>3. CASE ceiling[t] # 0 /\ l # 0 /\ ~(l > ceiling[t])
        BY <2>3, <4>3
      <4> QED
        BY <4>1, <4>2, <4>3
    <3>3. ceiling' = [ceiling EXCEPT ![t] = c]
      BY <2>1
    <3> HIDE DEF c
    <3> QED
      BY <2>1, <3>1, <3>2, <3>3 DEF TypeOK
  <2>5. TypeOK'
    BY <2>1, <2>2, <2>4 DEF TypeOK
  <2>6. Ceilings'
    BY <2>3, <2>4 DEF Ceilings
  <2>7. \A s \in Tenants : ceiling'[s] = 0 \/ (ceiling[s] > 0 /\ ceiling'[s] >= ceiling[s])
    BY <2>3, <2>4
  <2>8. \A h \in Handlers : request[h].limit \in Nat
    BY NumbersAreNat
  <2>9. Copies'
    <3>1. \A s \in Tenants : ceiling'[s] \in Nat
      BY <2>4, LimitsAreNat
    <3> QED
      BY <2>2, <2>3, <2>7, <2>8, <3>1 DEF Copies
  <2>10. Addressed' /\ AcceptedIsStored'
    BY <2>2 DEF Addressed, AcceptedIsStored
  <2>11. ASSUME NEW s \in Tenants
         PROVE  Bounded(s)'
    <3>1. CountedJobs(s)' = CountedJobs(s) /\ Inserting(s)' = Inserting(s)
      BY <2>2 DEF CountedJobs, Inserting
    <3>2. /\ Cardinality(CountedJobs(s)) \in Nat /\ Cardinality(Inserting(s)) \in Nat
          /\ Cardinality(Handlers) \in Nat /\ ceiling[s] \in Nat /\ ceiling'[s] \in Nat
      BY <2>4, <2>3, CardinalitiesAreNat, LimitsAreNat
    <3> QED
      BY <2>7, <3>1, <3>2 DEF Bounded
  <2> QED
    BY <2>5, <2>6, <2>9, <2>10, <2>11
<1>7. ASSUME UNCHANGED vars
      PROVE  IInv'
  BY <1>7 DEF vars, TypeOK, Ceilings, Copies, Addressed, AcceptedIsStored, Bounded, CountedJobs,
              Inserting
<1> QED
  BY <1>1, <1>2, <1>3, <1>4, <1>5, <1>6, <1>7 DEF Next

----------------------------------------------------------------------------
\* The inductive invariant holds whatever the requests and the control plane do.
THEOREM IInvHolds == Spec => []IInv
BY InitIInv, IInvKept, PTL DEF Spec

\* The tables and the requests keep their shape.
THEOREM TypeCorrect == Spec => []TypeOK
<1>1. IInv => TypeOK
  BY DEF IInv
<1> QED
  BY <1>1, IInvHolds, PTL

\* A request that is told 202 by HandleSendMessage has a job of its own tenant
\* with its key.
THEOREM AcceptedStaysStored == Spec => []AcceptedIsStored
<1>1. IInv => AcceptedIsStored
  BY DEF IInv
<1> QED
  BY <1>1, IInvHolds, PTL

\* The quota that HandleSendMessage checks before it inserts is passed by no
\* more than the other requests in flight, however many there are.
THEOREM OvershootStaysBounded == Spec => []OvershootIsBounded
<1>1. IInv => OvershootIsBounded
  BY DEF IInv, OvershootIsBounded, Bounded, CountTenantJobsInWindow, CountedJobs, Inserting
<1> QED
  BY <1>1, IInvHolds, PTL

----------------------------------------------------------------------------
\* No two jobs of a tenant in the table have the same Idempotency-Key.
OneJobPerKey ==
  \A i, j \in Jobs :
    (/\ InTable(i) /\ InTable(j)
     /\ jobs[i].tenant = jobs[j].tenant
     /\ jobs[i].key = jobs[j].key /\ jobs[i].key # NoKey) => i = j

LEMMA KeysStayUnique == TypeOK /\ OneJobPerKey /\ [Next]_vars => OneJobPerKey'
<1> SUFFICES ASSUME TypeOK, OneJobPerKey, [Next]_vars
             PROVE  OneJobPerKey'
  OBVIOUS
<1>1. CASE UNCHANGED jobs
  BY <1>1 DEF OneJobPerKey, InTable
<1>2. ASSUME NEW h \in Handlers, Insert(h)
      PROVE  OneJobPerKey'
  <2> DEFINE t == request[h].tenant
             k == request[h].key
  <2>1. CASE ~Conflict(t, k) /\ \E j \in Jobs : InsertJob(j, t, k)
    <3>1. PICK j \in Jobs : InsertJob(j, t, k)
      BY <2>1
    <3>2. /\ jobs'[j].tenant = t /\ jobs'[j].key = k
          /\ \A i \in Jobs \ {j} : jobs'[i] = jobs[i]
      BY <3>1 DEF InsertJob, TypeOK
    <3>3. k = NoKey \/ \A i \in Jobs : ~(InTable(i) /\ jobs[i].tenant = t /\ jobs[i].key = k)
      BY <2>1 DEF Conflict
    <3> QED
      BY <3>2, <3>3 DEF OneJobPerKey, InTable
  <2> QED
    BY <1>1, <1>2, <2>1 DEF Insert
<1>3. ASSUME NEW j \in Jobs, JobMoves(j)
      PROVE  OneJobPerKey'
  <2>1. PICK s \in JobStates :
          /\ jobs' = [jobs EXCEPT ![j].state = s]
          /\ jobs[j].state \notin {"none", "purged"}
    BY <1>3 DEF JobMoves
  <2>2. /\ jobs'[j].tenant = jobs[j].tenant /\ jobs'[j].key = jobs[j].key
        /\ \A i \in Jobs \ {j} : jobs'[i] = jobs[i]
    BY <2>1 DEF TypeOK, JobRow
  <2>3. \A i \in Jobs : /\ jobs'[i].tenant = jobs[i].tenant /\ jobs'[i].key = jobs[i].key
                        /\ InTable(i)' => InTable(i)
    BY <2>1, <2>2 DEF InTable
  <2> QED
    BY <2>3 DEF OneJobPerKey
<1> QED
  BY <1>1, <1>2, <1>3
     DEF Next, APIKeyMiddleware, CheckQuota, StatementFails, Finish, TenantChanges, vars

\* Requests of a tenant with the same key that race each other through
\* HandleSendMessage leave one job: the second insert meets the first one's row.
THEOREM KeysHaveOneJob == Spec => []OneJobPerKey
<1>1. Init => OneJobPerKey
  BY DEF Init, OneJobPerKey, InTable
<1> QED
  BY <1>1, KeysStayUnique, TypeCorrect, PTL DEF Spec

=============================================================================
