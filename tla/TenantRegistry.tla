--------------------------- MODULE TenantRegistry ---------------------------
(***************************************************************************)
(* The tenants table as a copy of the registry in Supabase.  The registry  *)
(* is written by the control plane, which posts every change to the edge   *)
(* (HandleSyncTenant: InsertTenant, by id); at boot, before anything else  *)
(* runs, the whole registry is fetched and written row by row              *)
(* (HydrateTenantsFromSupabase: UpsertTenantByPhone, by phone number), and *)
(* main.go gives up if one row cannot be written.  The edge itself only    *)
(* pauses tenants and stores jobs that name them by id.                    *)
(*                                                                         *)
(* Posts may be lost, late or out of order; they fail while the process is *)
(* down.  The columns that only travel along (token, limit, URL, secret)   *)
(* are left out.                                                           *)
(***************************************************************************)
EXTENDS Naturals, FiniteSets, DatabaseInit

CONSTANTS
  Ids,          \* tenant ids
  Phones,       \* phone_number_ids
  MaxWrites,    \* bound: writes of the registry
  MaxCrashes    \* bound: kills of the process

ASSUME BoundsAssumption == MaxWrites \in Nat /\ MaxCrashes \in Nat

VARIABLES
  registry,    \* external: table tenants of Supabase
  posts,       \* rows posted to the edge and not handled yet
  tenants,     \* table tenants of the edge
  named,       \* column tenant_id of table jobs: the ids that jobs name
  fetched,     \* the rows hydration works through
  pending,     \* those of them not written yet
  dropped,     \* history: ids the registry has given up
  writes, crashes

fileVars == <<jobsTable, tenants, named>>          \* what the edge stores
bootVars == <<fetched, pending>>
cloudVars == <<registry, posts, dropped, writes>>  \* what the control plane holds

vars == <<pc, fileVars, bootVars, cloudVars, crashes>>

Rows == [id : Ids, phone : Phones, paused : BOOLEAN]

\* id is the primary key of the table, phone is UNIQUE.
KeysAreUnique(table) ==
  \A r, s \in table : r.id = s.id \/ r.phone = s.phone => r = s

Init ==
  /\ InitDBInit
  /\ registry = {} /\ posts = {} /\ dropped = {} /\ writes = 0
  /\ tenants = {} /\ named = {}
  /\ fetched = {} /\ pending = {}
  /\ crashes = 0

----------------------------------------------------------------------------
(* The statements.  Each fails when the row it would leave shares the      *)
(* other key with a second row.                                            *)

\* Mutant: phone_number_id is not UNIQUE.
InsertNeverFails(r) == FALSE

InsertFails(r) == \E s \in tenants : s.id # r.id /\ s.phone = r.phone

InsertTenant(r) == {s \in tenants : s.id # r.id} \cup {r}

UpsertFails(r) == \E s \in tenants : s.phone # r.phone /\ s.id = r.id

\* Mutant: the id of the row stays.
UpsertTenantKeepingId(r) ==
  IF \E s \in tenants : s.phone = r.phone
  THEN {IF s.phone = r.phone THEN [s EXCEPT !.paused = r.paused] ELSE s : s \in tenants}
  ELSE tenants \cup {r}

UpsertTenantByPhone(r) == {s \in tenants : s.phone # r.phone} \cup {r}

----------------------------------------------------------------------------
(* The control plane.                                                      *)

\* A tenant is created or changed; a tenant that had the phone number before
\* is deleted.
RegistryWrite(r) ==
  /\ writes < MaxWrites
  /\ writes' = writes + 1
  /\ r \notin registry
  /\ registry' = {s \in registry : s.id # r.id /\ s.phone # r.phone} \cup {r}
  /\ dropped' = dropped \cup {s.id : s \in {q \in registry : q.phone = r.phone /\ q.id # r.id}}
  /\ posts' = posts \cup {r}
  /\ UNCHANGED <<pc, fileVars, bootVars, crashes>>

LosePost(r) ==
  /\ r \in posts
  /\ posts' = posts \ {r}
  /\ UNCHANGED <<registry, dropped, writes, pc, fileVars, bootVars, crashes>>

\* 200, or 500 if the statement fails.
HandleSyncTenant(r) ==
  /\ pc = "up"
  /\ r \in posts
  /\ posts' = posts \ {r}
  /\ tenants' = IF InsertFails(r) THEN tenants ELSE InsertTenant(r)
  /\ UNCHANGED <<registry, dropped, writes, pc, jobsTable, named, bootVars, crashes>>

----------------------------------------------------------------------------
(* The edge.                                                               *)

\* A policy error in a worker, or PUT /v1/internal/tenants/{id}/pause.
PauseTenant(i) ==
  /\ pc = "up"
  /\ \E s \in tenants : s.id = i /\ ~s.paused
  /\ tenants' = {[s EXCEPT !.paused = @ \/ s.id = i] : s \in tenants}
  /\ UNCHANGED <<pc, jobsTable, named, bootVars, cloudVars, crashes>>

\* HandleSendMessage stores a job of the tenant it has authenticated.
AcceptJob(i) ==
  /\ pc = "up"
  /\ \E s \in tenants : s.id = i
  /\ named' = named \cup {i}
  /\ UNCHANGED <<pc, jobsTable, tenants, bootVars, cloudVars, crashes>>

\* What the process kept in memory is gone.
Halt == pc' = "down" /\ fetched' = {} /\ pending' = {}

\* A kill, or an error of a statement or of the request for the registry
\* while the process starts: log.Fatalf.
Crash ==
  /\ pc # "down"
  /\ crashes < MaxCrashes
  /\ crashes' = crashes + 1
  /\ Halt
  /\ UNCHANGED <<fileVars, cloudVars>>

OpenDatabase ==
  /\ InitDB
  /\ UNCHANGED <<tenants, named, bootVars, cloudVars, crashes>>

\* The registry is fetched.
Fetch ==
  /\ pc = "fetch"
  /\ pc' = "hydrating"
  /\ fetched' = registry /\ pending' = registry
  /\ UNCHANGED <<fileVars, cloudVars, crashes>>

\* Mutant: a row that cannot be written is passed over.
HydrateRowOrSkip(r) ==
  /\ pc = "hydrating"
  /\ r \in pending
  /\ pending' = pending \ {r}
  /\ tenants' = IF UpsertFails(r) THEN tenants ELSE UpsertTenantByPhone(r)
  /\ UNCHANGED <<pc, fetched, jobsTable, named, cloudVars, crashes>>

\* One row is written, in the order of the answer; an error is fatal.
HydrateRow(r) ==
  /\ pc = "hydrating"
  /\ r \in pending
  /\ IF UpsertFails(r)
     THEN Halt /\ UNCHANGED tenants
     ELSE /\ tenants' = UpsertTenantByPhone(r)
          /\ pending' = pending \ {r}
          /\ UNCHANGED <<pc, fetched>>
  /\ UNCHANGED <<jobsTable, named, cloudVars, crashes>>

HydrationEnds ==
  /\ pc = "hydrating"
  /\ pending = {}
  /\ pc' = "up"
  /\ UNCHANGED <<fileVars, bootVars, cloudVars, crashes>>

Start == OpenDatabase \/ Fetch \/ HydrationEnds \/ \E r \in Rows : HydrateRow(r)

Next ==
  \/ \E r \in Rows : RegistryWrite(r) \/ LosePost(r) \/ HandleSyncTenant(r)
  \/ \E i \in Ids : PauseTenant(i) \/ AcceptJob(i)
  \/ Crash \/ Start

Spec == Init /\ [][Next]_vars

\* The supervisor starts the process again, and a boot runs to its end.
LiveSpec == Spec /\ WF_vars(Start)

----------------------------------------------------------------------------
(***************************************************************************)
(* Properties.                                                             *)
(***************************************************************************)

TypeOK ==
  /\ registry \subseteq Rows /\ KeysAreUnique(registry)
  /\ tenants \subseteq Rows /\ KeysAreUnique(tenants)
  /\ posts \subseteq Rows
  /\ pc \in InitSteps \cup {"down", "fetch", "hydrating", "up"}
  /\ jobsTable \in {"none", "old", "new"}
  /\ named \subseteq Ids /\ dropped \subseteq Ids
  /\ fetched \subseteq Rows /\ KeysAreUnique(fetched) /\ pending \subseteq fetched
  /\ writes \in 0..MaxWrites /\ crashes \in 0..MaxCrashes

\* Hydration does not undo its own work: no row takes back the id or the
\* phone number of a row written before it, so when it ends every row that
\* was fetched is in the table.
HydratedRowsStay == pc = "hydrating" => fetched \ pending \subseteq tenants

\* A process that serves has the row of every tenant that stored jobs name,
\* unless the registry has given that tenant up: hydration rewrites ids under
\* the jobs, and a job without its tenant is never claimed.
JobsKeepTenant ==
  pc = "up" => \A i \in named \ dropped : \E s \in tenants : s.id = i

\* A tenant is known to the edge under another phone number than to the
\* registry.
Moved == \E r \in registry, s \in tenants : r.id = s.id /\ r.phone # s.phone

\* The process comes up again after every kill, also one in the middle of the
\* migration, and serves on a migrated table; unless a tenant has changed its
\* phone number and the edge has missed it: then the row cannot be written, at
\* this and at every later boot.
BootEnds == pc = "down" ~> (pc = "up" /\ jobsTable = "new") \/ Moved

=============================================================================
