------------------------ MODULE TenantRegistryProofs ------------------------
(***************************************************************************)
(* Proofs about TenantRegistry, for any number of tenants and numbers, any *)
(* order and loss of posts, kills and restarts: hydration does not undo    *)
(* its own work, stored jobs keep their tenant while the process serves,   *)
(* and the migration ends what it began.                                   *)
(***************************************************************************)
EXTENDS TenantRegistry, TLAPS

Has(table, i) == \E s \in table : s.id = i

\* A row is of a tenant the registry has, or has given up.
Known(table) == \A s \in table : s.id \in dropped \/ Has(registry, s.id)

AllKnown == Known(tenants) /\ Known(posts) /\ Known(fetched)

\* The tenants of stored jobs are in the registry, so a hydration fetches them.
NamedAreKept ==
  /\ \A i \in named \ dropped : Has(registry, i)
  /\ pc = "hydrating" => \A i \in named \ dropped : Has(fetched, i)

IInv == TypeOK /\ HydratedRowsStay /\ AllKnown /\ NamedAreKept /\ JobsKeepTenant

USE DEF InitSteps

----------------------------------------------------------------------------
(* The statements keep the two keys of the table.                          *)

LEMMA InsertKeepsKeys ==
  ASSUME KeysAreUnique(tenants), NEW r \in Rows, ~InsertFails(r)
  PROVE  KeysAreUnique(InsertTenant(r))
BY DEF KeysAreUnique, InsertFails, InsertTenant

LEMMA UpsertKeepsKeys ==
  ASSUME KeysAreUnique(tenants), NEW r \in Rows, ~UpsertFails(r)
  PROVE  KeysAreUnique(UpsertTenantByPhone(r))
BY DEF KeysAreUnique, UpsertFails, UpsertTenantByPhone

\* A pause changes neither key.
LEMMA PauseKeepsKeys ==
  ASSUME NEW i, KeysAreUnique(tenants), tenants \subseteq Rows,
         tenants' = {[s EXCEPT !.paused = @ \/ s.id = i] : s \in tenants}
  PROVE  /\ tenants' \subseteq Rows /\ KeysAreUnique(tenants')
         /\ \A s \in tenants' : Has(tenants, s.id)
         /\ \A s \in tenants : Has(tenants', s.id)
<1> DEFINE Paused(s) == [s EXCEPT !.paused = @ \/ s.id = i]
<1>1. ASSUME NEW s \in tenants
      PROVE  Paused(s) \in Rows /\ Paused(s).id = s.id /\ Paused(s).phone = s.phone
  BY DEF Rows
<1>2. tenants' = {Paused(s) : s \in tenants}
  OBVIOUS
<1> HIDE DEF Paused
<1>3. tenants' \subseteq Rows /\ \A s \in tenants' : Has(tenants, s.id)
  BY <1>1, <1>2 DEF Has
<1>4. \A s \in tenants : Has(tenants', s.id)
  BY <1>1, <1>2 DEF Has
<1>5. ASSUME NEW a \in tenants', NEW b \in tenants', a.id = b.id \/ a.phone = b.phone
      PROVE  a = b
  <2>1. PICK r \in tenants, s \in tenants : a = Paused(r) /\ b = Paused(s)
    BY <1>2
  <2>2. r = s
    BY <1>1, <1>5, <2>1 DEF KeysAreUnique
  <2> QED
    BY <2>1, <2>2
<1> QED
  BY <1>3, <1>4, <1>5 DEF KeysAreUnique

\* A write of the registry gives nobody up whom it does not record as such.
LEMMA WriteKeepsKnown ==
  ASSUME NEW r \in Rows, RegistryWrite(r), registry \subseteq Rows, KeysAreUnique(registry)
  PROVE  /\ registry' \subseteq Rows /\ KeysAreUnique(registry')
         /\ \A i : Has(registry, i) => i \in dropped' \/ Has(registry', i)
         /\ dropped \subseteq dropped' /\ Has(registry', r.id)
         /\ dropped' \subseteq dropped \cup Ids
<1>1. /\ registry' = {s \in registry : s.id # r.id /\ s.phone # r.phone} \cup {r}
      /\ dropped' = dropped \cup {s.id : s \in {q \in registry : q.phone = r.phone /\ q.id # r.id}}
  BY DEF RegistryWrite
<1>2. registry' \subseteq Rows /\ KeysAreUnique(registry')
  BY <1>1 DEF KeysAreUnique
<1>3. ASSUME NEW s \in registry
      PROVE  s.id \in dropped' \/ Has(registry', s.id)
  BY <1>1 DEF Has
<1>4. dropped \subseteq dropped' /\ Has(registry', r.id)
  BY <1>1 DEF Has
<1>5. dropped' \subseteq dropped \cup Ids
  BY <1>1 DEF Rows
<1> QED
  BY <1>2, <1>3, <1>4, <1>5 DEF Has

----------------------------------------------------------------------------
LEMMA InitIInv == Init => IInv
<1> SUFFICES ASSUME Init
             PROVE  IInv
  OBVIOUS
<1> USE DEF Init, InitDBInit
<1>1. TypeOK
  BY BoundsAssumption DEF TypeOK, KeysAreUnique
<1>2. HydratedRowsStay /\ AllKnown /\ NamedAreKept /\ JobsKeepTenant
  BY DEF HydratedRowsStay, AllKnown, Known, NamedAreKept, JobsKeepTenant
<1> QED
  BY <1>1, <1>2 DEF IInv

LEMMA IInvKept == IInv /\ [Next]_vars => IInv'
<1> SUFFICES ASSUME IInv, [Next]_vars
             PROVE  IInv'
  OBVIOUS
<1> USE DEF IInv, fileVars, bootVars, cloudVars
<1>1. ASSUME NEW r \in Rows, RegistryWrite(r)
      PROVE  IInv'
  <2>1. /\ UNCHANGED <<pc, jobsTable, tenants, named, fetched, pending, crashes>>
        /\ writes' \in 0..MaxWrites /\ posts' = posts \cup {r}
    BY <1>1, BoundsAssumption DEF RegistryWrite, TypeOK
  <2>2. /\ registry' \subseteq Rows /\ KeysAreUnique(registry')
        /\ \A i : Has(registry, i) => i \in dropped' \/ Has(registry', i)
        /\ dropped \subseteq dropped' /\ Has(registry', r.id)
        /\ dropped' \subseteq dropped \cup Ids
    BY <1>1, WriteKeepsKnown DEF TypeOK
  <2>3. TypeOK'
    BY <2>1, <2>2 DEF TypeOK, KeysAreUnique
  <2>4. HydratedRowsStay' /\ JobsKeepTenant'
    BY <2>1, <2>2 DEF HydratedRowsStay, JobsKeepTenant
  <2>5. AllKnown'
    BY <2>1, <2>2 DEF AllKnown, Known
  <2>6. NamedAreKept'
    <3>1. \A i \in named \ dropped' : Has(registry', i)
      BY <2>2 DEF NamedAreKept
    <3>2. pc = "hydrating" => \A i \in named \ dropped' : Has(fetched, i)
      BY <2>2 DEF NamedAreKept
    <3> QED
      BY <2>1, <3>1, <3>2 DEF NamedAreKept, Has
  <2> QED
    BY <2>3, <2>4, <2>5, <2>6
<1>2. ASSUME NEW r \in Rows, LosePost(r)
      PROVE  IInv'
  <2>1. posts' \subseteq posts
        /\ UNCHANGED <<registry, dropped, writes, pc, jobsTable, tenants, named, fetched, pending, crashes>>
    BY <1>2 DEF LosePost
  <2>2. TypeOK' /\ HydratedRowsStay' /\ JobsKeepTenant' /\ NamedAreKept'
    BY <2>1 DEF TypeOK, KeysAreUnique, HydratedRowsStay, JobsKeepTenant, NamedAreKept, Has
  <2>3. AllKnown'
    BY <2>1 DEF AllKnown, Known, Has
  <2> QED
    BY <2>2, <2>3
<1>3. ASSUME NEW r \in Rows, HandleSyncTenant(r)
      PROVE  IInv'
  <2>1. /\ pc = "up" /\ r \in posts /\ posts' \subseteq posts
        /\ UNCHANGED <<registry, dropped, writes, pc, jobsTable, named, fetched, pending, crashes>>
        /\ tenants' = tenants \/ (~InsertFails(r) /\ tenants' = InsertTenant(r))
    BY <1>3 DEF HandleSyncTenant
  <2>2. tenants' \subseteq Rows /\ KeysAreUnique(tenants')
    BY <2>1, InsertKeepsKeys DEF TypeOK, InsertTenant
  <2>3. /\ \A s \in tenants' : s = r \/ s \in tenants
        /\ \A s \in tenants : Has(tenants', s.id)
    BY <2>1 DEF InsertTenant, Has
  <2>4. TypeOK'
    BY <2>1, <2>2 DEF TypeOK, KeysAreUnique
  <2>5. HydratedRowsStay' /\ NamedAreKept'
    BY <2>1 DEF HydratedRowsStay, NamedAreKept, Has
  <2>6. AllKnown'
    BY <2>1, <2>3 DEF AllKnown, Known, Has
  <2>7. JobsKeepTenant'
    BY <2>1, <2>3 DEF JobsKeepTenant, Has
  <2> QED
    BY <2>4, <2>5, <2>6, <2>7
<1>4. ASSUME NEW i \in Ids, PauseTenant(i)
      PROVE  IInv'
  <2>1. /\ pc = "up"
        /\ UNCHANGED <<registry, posts, dropped, writes, pc, jobsTable, named, fetched, pending, crashes>>
        /\ tenants' = {[s EXCEPT !.paused = @ \/ s.id = i] : s \in tenants}
    BY <1>4 DEF PauseTenant
  <2>2. /\ tenants' \subseteq Rows /\ KeysAreUnique(tenants')
        /\ \A s \in tenants' : Has(tenants, s.id)
        /\ \A s \in tenants : Has(tenants', s.id)
    BY <2>1, PauseKeepsKeys DEF TypeOK
  <2>3. TypeOK'
    BY <2>1, <2>2 DEF TypeOK, KeysAreUnique
  <2>4. HydratedRowsStay' /\ NamedAreKept'
    BY <2>1 DEF HydratedRowsStay, NamedAreKept, Has
  <2>5. AllKnown'
    BY <2>1, <2>2 DEF AllKnown, Known, Has
  <2>6. JobsKeepTenant'
    <3>1. ASSUME NEW n \in named \ dropped
          PROVE  Has(tenants', n)
      <4>1. PICK s \in tenants : s.id = n
        BY <2>1 DEF JobsKeepTenant
      <4> QED
        BY <2>2, <4>1
    <3> QED
      BY <2>1, <3>1 DEF JobsKeepTenant, Has
  <2> QED
    BY <2>3, <2>4, <2>5, <2>6
<1>5. ASSUME NEW i \in Ids, AcceptJob(i)
      PROVE  IInv'
  <2>1. /\ pc = "up" /\ Has(tenants, i) /\ named' = named \cup {i}
        /\ UNCHANGED <<registry, posts, dropped, writes, pc, jobsTable, tenants, fetched, pending, crashes>>
    BY <1>5 DEF AcceptJob, Has
  <2>2. TypeOK' /\ HydratedRowsStay' /\ AllKnown'
    BY <2>1 DEF TypeOK, KeysAreUnique, HydratedRowsStay, AllKnown, Known, Has
  <2>3. JobsKeepTenant'
    BY <2>1 DEF JobsKeepTenant, Has
  <2>4. i \in dropped \/ Has(registry, i)
    BY <2>1 DEF AllKnown, Known, Has
  <2>5. NamedAreKept'
    BY <2>1, <2>4 DEF NamedAreKept, Has
  <2> QED
    BY <2>2, <2>3, <2>5
<1>6. ASSUME Crash
      PROVE  IInv'
  <2>1. /\ pc' = "down" /\ fetched' = {} /\ pending' = {} /\ crashes' \in 0..MaxCrashes
        /\ UNCHANGED <<registry, posts, dropped, writes, jobsTable, tenants, named>>
    BY <1>6, BoundsAssumption DEF Crash, Halt, TypeOK
  <2> QED
    BY <2>1 DEF TypeOK, KeysAreUnique, HydratedRowsStay, AllKnown, Known, NamedAreKept,
                JobsKeepTenant, Has
<1>7. ASSUME OpenDatabase
      PROVE  IInv'
  <2>1. /\ pc' \in InitSteps \cup {"fetch", "down"} /\ jobsTable' \in {"none", "old", "new"}
        /\ UNCHANGED <<registry, posts, dropped, writes, tenants, named, fetched, pending, crashes>>
    BY <1>7 DEF OpenDatabase, InitDB, Open, ExecSchema, CheckColumn, AddColumn, TypeOK
  <2> QED
    BY <2>1 DEF TypeOK, KeysAreUnique, HydratedRowsStay, AllKnown, Known, NamedAreKept,
                JobsKeepTenant, Has
<1>8. ASSUME Fetch
      PROVE  IInv'
  <2>1. /\ pc' = "hydrating" /\ fetched' = registry /\ pending' = registry
        /\ UNCHANGED <<registry, posts, dropped, writes, jobsTable, tenants, named, crashes>>
    BY <1>8 DEF Fetch
  <2> QED
    BY <2>1 DEF TypeOK, KeysAreUnique, HydratedRowsStay, AllKnown, Known, NamedAreKept,
                JobsKeepTenant, Has
<1>9. ASSUME NEW r \in Rows, HydrateRow(r)
      PROVE  IInv'
  <2>1. /\ pc = "hydrating" /\ r \in pending
        /\ UNCHANGED <<registry, posts, dropped, writes, jobsTable, named, crashes>>
    BY <1>9 DEF HydrateRow
  <2>2. CASE /\ pc' = "down" /\ fetched' = {} /\ pending' = {}
             /\ UNCHANGED tenants
    BY <2>1, <2>2 DEF TypeOK, KeysAreUnique, HydratedRowsStay, AllKnown, Known, NamedAreKept,
                JobsKeepTenant, Has
  <2>3. CASE /\ ~UpsertFails(r) /\ tenants' = UpsertTenantByPhone(r)
             /\ pending' = pending \ {r} /\ UNCHANGED <<pc, fetched>>
    <3>1. KeysAreUnique(tenants') /\ tenants' \subseteq Rows
      BY <2>1, <2>3, UpsertKeepsKeys DEF TypeOK, UpsertTenantByPhone
    <3>2. TypeOK'
      BY <2>1, <2>3, <3>1 DEF TypeOK, KeysAreUnique
    <3>3. \A f \in fetched : f = r \/ f.phone # r.phone
      BY <2>1 DEF TypeOK, KeysAreUnique
    <3>4. HydratedRowsStay'
      BY <2>1, <2>3, <3>3 DEF HydratedRowsStay, UpsertTenantByPhone
    <3>5. r \in fetched
      BY <2>1 DEF TypeOK
    <3>6. AllKnown'
      BY <2>1, <2>3, <3>5 DEF AllKnown, Known, Has, UpsertTenantByPhone
    <3>7. NamedAreKept' /\ JobsKeepTenant'
      BY <2>1, <2>3 DEF NamedAreKept, JobsKeepTenant, Has
    <3> QED
      BY <3>2, <3>4, <3>6, <3>7
  <2> QED
    BY <1>9, <2>2, <2>3 DEF HydrateRow, Halt
<1>10. ASSUME HydrationEnds
       PROVE  IInv'
  <2>1. /\ pc = "hydrating" /\ pending = {} /\ pc' = "up"
        /\ UNCHANGED <<registry, posts, dropped, writes, jobsTable, tenants, named, fetched, pending, crashes>>
    BY <1>10 DEF HydrationEnds
  <2>2. fetched \subseteq tenants
    BY <2>1 DEF HydratedRowsStay
  <2>3. JobsKeepTenant'
    BY <2>1, <2>2 DEF NamedAreKept, JobsKeepTenant, Has
  <2> QED
    BY <2>1, <2>3 DEF TypeOK, KeysAreUnique, HydratedRowsStay, AllKnown, Known, NamedAreKept, Has
<1>11. ASSUME UNCHANGED vars
       PROVE  IInv'
  BY <1>11 DEF vars, TypeOK, KeysAreUnique, HydratedRowsStay, AllKnown, Known, NamedAreKept,
               JobsKeepTenant, Has
<1> QED
  BY <1>1, <1>2, <1>3, <1>4, <1>5, <1>6, <1>7, <1>8, <1>9, <1>10, <1>11 DEF Next, Start

----------------------------------------------------------------------------
\* The inductive invariant holds over lost and late posts, kills and restarts.
THEOREM IInvHolds == Spec => []IInv
BY InitIInv, IInvKept, PTL DEF Spec

\* Table tenants keeps its two keys, id and phone_number_id, over posts,
\* hydrations and pauses.
THEOREM TypeCorrect == Spec => []TypeOK
<1>1. IInv => TypeOK
  BY DEF IInv
<1> QED
  BY <1>1, IInvHolds, PTL

\* HydrateTenantsFromSupabase does not undo its own work: what it has written
\* is in the table until it ends.
THEOREM HydrationKeepsRows == Spec => []HydratedRowsStay
<1>1. IInv => HydratedRowsStay
  BY DEF IInv
<1> QED
  BY <1>1, IInvHolds, PTL

\* While the process serves, the tenant of every stored job is in the table,
\* unless the registry has given it up, although UpsertTenantByPhone rewrites
\* the ids of rows.
THEOREM JobsNeverLoseTenant == Spec => []JobsKeepTenant
<1>1. IInv => JobsKeepTenant
  BY DEF IInv
<1> QED
  BY <1>1, IInvHolds, PTL

----------------------------------------------------------------------------
\* Past InitDB table jobs has its new column, and the ALTER TABLE is reached
\* only with a table that lacks it.
Migrated ==
  /\ pc \in {"fetch", "hydrating", "up"} => jobsTable = "new"
  /\ pc = "check" => jobsTable \in {"old", "new"}
  /\ pc = "alter" => jobsTable = "old"

LEMMA StaysMigrated == TypeOK /\ Migrated /\ [Next]_vars => Migrated'
<1> SUFFICES ASSUME TypeOK, Migrated, [Next]_vars
             PROVE  Migrated'
  OBVIOUS
<1> USE DEF Migrated, fileVars, InitSteps
<1>1. CASE OpenDatabase
  <2>1. CASE Open
    BY <2>1 DEF Open
  <2>2. CASE ExecSchema
    BY <2>2 DEF ExecSchema, TypeOK
  <2>3. CASE CheckColumn
    BY <2>3 DEF CheckColumn
  <2>4. CASE AddColumn
    BY <2>4 DEF AddColumn
  <2> QED
    BY <1>1, <2>1, <2>2, <2>3, <2>4 DEF OpenDatabase, InitDB
<1>2. CASE Crash \/ Fetch \/ HydrationEnds \/ \E r \in Rows : HydrateRow(r)
  BY <1>2 DEF Crash, Fetch, HydrationEnds, HydrateRow, Halt
<1>3. CASE \/ \E r \in Rows : RegistryWrite(r) \/ LosePost(r) \/ HandleSyncTenant(r)
           \/ \E i \in Ids : PauseTenant(i) \/ AcceptJob(i)
           \/ UNCHANGED vars
  <2>1. UNCHANGED <<pc, jobsTable>>
    BY <1>3 DEF RegistryWrite, LosePost, HandleSyncTenant, PauseTenant, AcceptJob, vars
  <2> QED
    BY <2>1
<1> QED
  BY <1>1, <1>2, <1>3 DEF Next, Start

\* However often InitDB is killed between its statements, the migration never
\* adds a column that is there (which would end every start), and nothing is
\* fetched, hydrated or served on a table that lacks it.
THEOREM ServesOnMigratedTable == Spec => []Migrated
<1>1. Init => Migrated
  BY DEF Init, InitDBInit, Migrated
<1> QED
  BY <1>1, StaysMigrated, TypeCorrect, PTL DEF Spec

=============================================================================
