------------------------------ MODULE Dispatch ------------------------------
(***************************************************************************)
(* What becomes of a payload that Meta posts, apart from its receipts      *)
(* (MetaWebhook): PostV1MetaWebhook of internal/api/handlers/meta_webhook  *)
(* answers 200 and leaves a goroutine behind, which opens the session of   *)
(* each user who wrote, and another one, which passes the payload on to    *)
(* the tenant of its first change (internal/services/webhook_dispatcher).  *)
(* Nobody waits for either of them, and nothing is stored for them.        *)
(*                                                                         *)
(* Meta posts a payload until it is answered with 200; posts may be lost,  *)
(* late or out of order, and answers may be lost.                          *)
(***************************************************************************)
EXTENDS Naturals, FiniteSets, Functions

CONSTANTS
  Tenants, Phones, Users,
  Payloads,
  First,         \* phone_number_id of the first change of each payload
  Messages,      \* the messages of users in each payload: phone and user
  NoPhone,       \* the first change names no phone number
  NoSession,
  MaxRetries,    \* retries that are promised to a client (5 in the documentation)
  MaxPosts,      \* bound: posts of a payload
  MaxMoves,      \* bound: changes of table tenants
  MaxMishaps     \* bound: failing statements and restarts of the process

ASSUME NoPhoneAssumption == NoPhone \notin Phones
ASSUME NoSessionAssumption == NoSession \notin Tenants \X Users
ASSUME PayloadsAssumption ==
  /\ First \in [Payloads -> Phones \cup {NoPhone}]
  /\ Messages \in [Payloads -> SUBSET (Phones \X Users)]
ASSUME BoundsAssumption ==
  MaxRetries \in Nat /\ MaxPosts \in Nat /\ MaxMoves \in Nat /\ MaxMishaps \in Nat

VARIABLES
  rows,        \* table tenants: the phone number of each tenant that has a row
  urls,        \* the tenants whose webhook_url a request can be made for: one that
               \* is null, empty or not a URL has the payload dropped
  posted,      \* external: how often Meta has posted each payload
  wire,        \* posts on their way to the handler
  acked,       \* external: the payloads Meta knows to be taken
  egress,      \* the dispatcher's goroutine of each post
  logic,       \* the goroutine of processInternalLogic of each post
  sessions,    \* table active_sessions
  offered,     \* history: how often the payload of a post was posted to a tenant
  confirmed,   \* history: how often a tenant has confirmed the payload of a post,
               \* with an answer below 400 that reached the dispatcher
  owned,       \* history: which phone numbers a tenant has had
  changed,     \* history: phone numbers whose row was written or given up
  cut,         \* history: posts that lost a goroutine or a statement
  moves, mishaps

tables == <<rows, urls, owned, changed, moves>>
meta == <<posted, wire, acked>>
clients == <<offered, confirmed>>
vars == <<tables, meta, egress, logic, sessions, clients, cut, mishaps>>

Posts == Payloads \X (1..MaxPosts)

NoDispatch == [pc |-> "none", tenants |-> {}]
NoLogic == [left |-> {}, opening |-> NoSession]

Assignments == UNION {Injection(T, Phones) : T \in SUBSET Tenants}

\* GetTenantByPhoneNumberID: phone_number_id is UNIQUE, so there is one or none.
GetTenantByPhoneNumberID(ph) == {t \in DOMAIN rows : rows[t] = ph}

Running(x) == egress[x].pc \in {"lookup", "post"} \/ logic[x] # NoLogic

Init ==
  /\ rows \in Assignments
  /\ urls \in SUBSET DOMAIN rows
  /\ owned = {<<t, rows[t]>> : t \in DOMAIN rows}
  /\ changed = {}
  /\ posted = [p \in Payloads |-> 0] /\ wire = {} /\ acked = {}
  /\ egress = [x \in Posts |-> NoDispatch]
  /\ logic = [x \in Posts |-> NoLogic]
  /\ sessions = {}
  /\ offered = [x \in Posts |-> [t \in Tenants |-> 0]]
  /\ confirmed = [x \in Posts |-> [t \in Tenants |-> 0]]
  /\ cut = {}
  /\ moves = 0 /\ mishaps = 0

----------------------------------------------------------------------------
(* Meta and the handler.                                                   *)

MetaPosts(p) ==
  /\ p \notin acked
  /\ posted[p] < MaxPosts
  /\ posted' = [posted EXCEPT ![p] = @ + 1]
  /\ wire' = wire \cup {<<p, posted[p] + 1>>}
  /\ UNCHANGED <<tables, acked, egress, logic, sessions, clients, cut, mishaps>>

\* The post does not arrive, or MetaSignatureMiddleware or the decoder refuses
\* it: no signature that fits, a body that is broken off, too long or not JSON.
Refuse(x) ==
  /\ x \in wire
  /\ wire' = wire \ {x}
  /\ UNCHANGED <<tables, posted, acked, egress, logic, sessions, clients, cut, mishaps>>

\* 200, which Meta hears or not, and two goroutines.
PostV1MetaWebhook(x) ==
  /\ x \in wire
  /\ wire' = wire \ {x}
  /\ acked' \in {acked, acked \cup {x[1]}}
  /\ egress' = [egress EXCEPT ![x].pc = IF First[x[1]] = NoPhone THEN "done" ELSE "lookup"]
  /\ logic' = [logic EXCEPT ![x].left = Messages[x[1]]]
  /\ UNCHANGED <<tables, posted, sessions, clients, cut, mishaps>>

----------------------------------------------------------------------------
(* The dispatcher.                                                         *)

DispatchEnds(x) == egress' = [egress EXCEPT ![x] = [NoDispatch EXCEPT !.pc = "done"]]

\* Mutant: the goroutine keeps the context of the request, which has ended.
LookUpOnRequestContext(x) ==
  /\ egress[x].pc = "lookup"
  /\ DispatchEnds(x)
  /\ UNCHANGED <<tables, meta, logic, sessions, clients, cut, mishaps>>

\* Mutant: it is not asked whether there is a tenant.
LookUpUnchecked(x) ==
  /\ egress[x].pc = "lookup"
  /\ egress' = [egress EXCEPT ![x] =
       [pc |-> "post", tenants |-> GetTenantByPhoneNumberID(First[x[1]]) \cap urls]]
  /\ UNCHANGED <<tables, meta, logic, sessions, clients, cut, mishaps>>

\* The tenant of the first change is read; without a URL that a request can be
\* made for (http.NewRequestWithContext) the payload is dropped.
LookUp(x) ==
  /\ egress[x].pc = "lookup"
  /\ LET addressees == GetTenantByPhoneNumberID(First[x[1]]) \cap urls
     IN  IF addressees = {}
         THEN DispatchEnds(x)
         ELSE egress' = [egress EXCEPT ![x] = [pc |-> "post", tenants |-> addressees]]
  /\ UNCHANGED <<tables, meta, logic, sessions, clients, cut, mishaps>>

Offer(x, t) == offered' = [offered EXCEPT ![x][t] = @ + 1]
Confirm(x, t) == confirmed' = [confirmed EXCEPT ![x][t] = @ + 1]

\* Mutant: the goroutine does not end with the answer, and asks again.
ClientConfirmsAndIsAskedAgain(x) ==
  /\ egress[x].pc = "post"
  /\ \E t \in egress[x].tenants : Offer(x, t) /\ Confirm(x, t)
  /\ UNCHANGED <<tables, meta, egress, logic, sessions, cut, mishaps>>

\* The client takes the payload and answers in time and below 400.
ClientConfirms(x) ==
  /\ egress[x].pc = "post"
  /\ \E t \in egress[x].tenants : Offer(x, t) /\ Confirm(x, t)
  /\ DispatchEnds(x)
  /\ UNCHANGED <<tables, meta, logic, sessions, cut, mishaps>>

\* The client is not reached, answers 400 or more, or has taken the payload and
\* its answer does not come within 5 seconds: the dispatcher only logs it.
NotConfirmed(x) ==
  /\ egress[x].pc = "post"
  /\ \E t \in egress[x].tenants : Offer(x, t)
  /\ DispatchEnds(x)
  /\ UNCHANGED <<tables, meta, logic, sessions, confirmed, cut, mishaps>>

----------------------------------------------------------------------------
(* processInternalLogic, for the messages of users.                        *)

\* Mutant: the phone number of the first change is taken for all.
ReadOwnerOfFirst(x) ==
  /\ logic[x].opening = NoSession
  /\ \E m \in logic[x].left :
       \E s \in {<<t, m[2]>> : t \in GetTenantByPhoneNumberID(First[x[1]])} :
         logic' = [logic EXCEPT ![x] = [left |-> @.left \ {m}, opening |-> s]]
  /\ UNCHANGED <<tables, meta, egress, sessions, clients, cut, mishaps>>

\* The tenant of the message's own change is read; without one it is skipped.
\* (The order of the messages is left open.)
ReadOwner(x) ==
  /\ logic[x].opening = NoSession
  /\ \E m \in logic[x].left :
       LET owners == GetTenantByPhoneNumberID(m[1])
       IN  \E s \in IF owners = {} THEN {NoSession} ELSE owners \X {m[2]} :
             logic' = [logic EXCEPT ![x] = [left |-> @.left \ {m}, opening |-> s]]
  /\ UNCHANGED <<tables, meta, egress, sessions, clients, cut, mishaps>>

UpsertActiveSession(x) ==
  /\ logic[x].opening # NoSession
  /\ sessions' = sessions \cup {logic[x].opening}
  /\ logic' = [logic EXCEPT ![x].opening = NoSession]
  /\ UNCHANGED <<tables, meta, egress, clients, cut, mishaps>>

----------------------------------------------------------------------------
(* What goes wrong, and what happens around.                               *)

\* A statement of a goroutine fails: the dispatcher gives up, the other one
\* goes on with the next message.
StatementFails(x) ==
  /\ mishaps < MaxMishaps
  /\ mishaps' = mishaps + 1
  /\ cut' = cut \cup {x}
  /\ \/ /\ egress[x].pc = "lookup"
        /\ DispatchEnds(x)
        /\ UNCHANGED logic
     \/ /\ logic[x].opening # NoSession
        /\ logic' = [logic EXCEPT ![x].opening = NoSession]
        /\ UNCHANGED egress
     \/ /\ logic[x].opening = NoSession
        /\ \E m \in logic[x].left : logic' = [logic EXCEPT ![x].left = @ \ {m}]
        /\ UNCHANGED egress
  /\ UNCHANGED <<tables, meta, sessions, clients>>

\* The process is killed or shut down, and started again.
Restart ==
  /\ mishaps < MaxMishaps
  /\ mishaps' = mishaps + 1
  /\ cut' = cut \cup {x \in Posts : Running(x)}
  /\ egress' = [x \in Posts |-> NoDispatch]
  /\ logic' = [x \in Posts |-> NoLogic]
  /\ UNCHANGED <<tables, meta, sessions, clients>>

\* HandleSyncTenant gives a tenant a phone number that no other row has, and
\* leaves its URL (no value in the post: COALESCE), sets it, or empties it.
SyncTenant(t, ph) ==
  /\ moves < MaxMoves
  /\ moves' = moves + 1
  /\ GetTenantByPhoneNumberID(ph) \subseteq {t}
  /\ rows' = [s \in DOMAIN rows \cup {t} |-> IF s = t THEN ph ELSE rows[s]]
  /\ owned' = owned \cup {<<t, ph>>}
  /\ changed' = changed \cup {ph} \cup {rows[s] : s \in DOMAIN rows \cap {t}}
  /\ urls' \in {urls, urls \cup {t}, urls \ {t}}
  /\ UNCHANGED <<meta, egress, logic, sessions, clients, cut, mishaps>>

----------------------------------------------------------------------------
Dispatcher(x) == LookUp(x) \/ ClientConfirms(x) \/ NotConfirmed(x)
InternalLogic(x) == ReadOwner(x) \/ UpsertActiveSession(x)

Next ==
  \/ \E p \in Payloads : MetaPosts(p)
  \/ \E x \in Posts :
       \/ Refuse(x) \/ PostV1MetaWebhook(x)
       \/ Dispatcher(x) \/ InternalLogic(x) \/ StatementFails(x)
  \/ \E t \in Tenants, ph \in Phones : SyncTenant(t, ph)
  \/ Restart

Spec == Init /\ [][Next]_vars

\* Goroutines run.
LiveSpec == Spec /\ \A x \in Posts : WF_vars(Dispatcher(x)) /\ WF_vars(InternalLogic(x))

----------------------------------------------------------------------------
(***************************************************************************)
(* Properties.                                                             *)
(***************************************************************************)

TypeOK ==
  /\ rows \in Assignments /\ urls \subseteq DOMAIN rows /\ owned \subseteq Tenants \X Phones
  /\ changed \subseteq Phones
  /\ posted \in [Payloads -> 0..MaxPosts] /\ wire \subseteq Posts /\ acked \subseteq Payloads
  /\ egress \in [Posts -> [pc : {"none", "lookup", "post", "done"}, tenants : SUBSET Tenants]]
  /\ \A x \in Posts : egress[x].pc = "post" <=> Cardinality(egress[x].tenants) = 1
  /\ logic \in [Posts -> [left    : SUBSET (Phones \X Users),
                          opening : (Tenants \X Users) \cup {NoSession}]]
  /\ sessions \subseteq Tenants \X Users
  /\ offered \in [Posts -> [Tenants -> Nat]] /\ confirmed \in [Posts -> [Tenants -> Nat]]
  /\ cut \subseteq Posts
  /\ moves \in 0..MaxMoves /\ mishaps \in 0..MaxMishaps

\* Of every post of Meta at most one client confirms the payload, and confirms
\* it once: what was confirmed is not passed on again, also when Meta repeats a
\* post, goroutines overtake each other, the number changes its owner and the
\* process is restarted between the answer and the post to the client.  (What
\* was not confirmed may be passed on again; the documentation promises it.)
ConfirmedOncePerPost ==
  \A x \in Posts, t \in Tenants :
    /\ confirmed[x][t] <= (IF x[2] <= posted[x[1]] THEN 1 ELSE 0)
    /\ \A s \in Tenants \ {t} : confirmed[x][t] > 0 => confirmed[x][s] = 0

\* A payload goes to a tenant that has had the phone number of its first
\* change, and a session is opened for a tenant that has had the phone number
\* the user wrote to, however payloads are batched and rows change meanwhile.
TenantsGetTheirOwn ==
  /\ \A x \in Posts, t \in Tenants : offered[x][t] > 0 => <<t, First[x[1]]>> \in owned
  /\ \A s \in sessions : \E p \in Payloads : \E m \in Messages[p] :
       posted[p] > 0 /\ s[2] = m[2] /\ <<s[1], m[1]>> \in owned

\* What x asks for, as far as the rows it depends on are the same all along.
Handled(x) ==
  /\ First[x[1]] \notin changed =>
       \A t \in GetTenantByPhoneNumberID(First[x[1]]) \cap urls : offered[x][t] > 0
  /\ \A m \in Messages[x[1]] : m[1] \notin changed =>
       \A t \in GetTenantByPhoneNumberID(m[1]) : <<t, m[2]>> \in sessions

\* What was answered with 200 is done although the request is over: every
\* goroutine comes to its end, the tenant was then offered the payload and the
\* sessions are open, unless a row was changed, a statement failed or the
\* process ended meanwhile.
AcknowledgedIsHandled ==
  \A x \in Posts : Running(x) ~> ~Running(x) /\ (Handled(x) \/ x \in cut)

----------------------------------------------------------------------------
(***************************************************************************)
(* What the documentation says of the dispatcher and the code does not do. *)
(***************************************************************************)

\* Webhooks are delivered at least once, with up to MaxRetries retries if the
\* client does not answer 2xx (docs/webhooks.md, Delivery Guarantees): a tenant
\* that has a URL confirms the payload at last, or was asked as often as promised.
AtLeastOnce ==
  \A x \in Posts, t \in Tenants :
    egress[x].pc = "post" /\ t \in egress[x].tenants
      ~> confirmed[x][t] > 0 \/ offered[x][t] = MaxRetries + 1

=============================================================================
