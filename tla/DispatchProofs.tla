--------------------------- MODULE DispatchProofs ---------------------------
(***************************************************************************)
(* Proofs about Dispatch, for any tenants, phone numbers, users, payloads, *)
(* repeated posts, changes and mishaps: of every post at most one tenant    *)
(* confirms the payload, once, and payloads and sessions go to tenants that *)
(* have had the phone number in question.                                  *)
(***************************************************************************)
EXTENDS Dispatch, FiniteSetTheorems, TLAPS

\* The history of the rows covers the rows.
RowsAreOwned == \A t \in DOMAIN rows : <<t, rows[t]>> \in owned

\* A post that Meta has not made, or that is on its way, has no goroutine; and
\* a payload is posted on by the last step of a goroutine only.
Fresh ==
  \A x \in Posts :
    /\ x \in wire => x[2] <= posted[x[1]]
    /\ x \in wire \/ x[2] > posted[x[1]] => egress[x] = NoDispatch /\ logic[x] = NoLogic
    /\ x \in wire \/ x[2] > posted[x[1]] \/ egress[x].pc \in {"lookup", "post"} =>
         \A t \in Tenants : offered[x][t] = 0

\* Of every post one tenant is asked, once, as long as nobody retries.
OfferedOnce ==
  \A x \in Posts, t \in Tenants :
    /\ offered[x][t] <= 1
    /\ offered[x][t] > 0 => x[2] <= posted[x[1]]
    /\ \A s \in Tenants \ {t} : offered[x][t] > 0 => offered[x][s] = 0

\* Nothing is confirmed but what was offered.
ConfirmedIsOffered == \A x \in Posts, t \in Tenants : confirmed[x][t] <= offered[x][t]

\* The tenant a dispatcher has read.
Addressed == \A x \in Posts : \A t \in egress[x].tenants : <<t, First[x[1]]>> \in owned

\* A session of a post is for one who had the number some user wrote to.
MayOpen(s, p) == \E m \in Messages[p] : s[2] = m[2] /\ <<s[1], m[1]>> \in owned

Opening ==
  \A x \in Posts :
    /\ logic[x].left \subseteq Messages[x[1]]
    /\ logic[x].opening # NoSession => MayOpen(logic[x].opening, x[1])

IInv ==
  /\ TypeOK /\ RowsAreOwned /\ Fresh /\ Addressed /\ Opening
  /\ OfferedOnce /\ ConfirmedIsOffered /\ TenantsGetTheirOwn

----------------------------------------------------------------------------
(* The rows.                                                               *)

LEMMA AssignmentIsInjective ==
  ASSUME NEW r \in Assignments
  PROVE  /\ DOMAIN r \subseteq Tenants
         /\ r \in [DOMAIN r -> Phones]
         /\ \A s, t \in DOMAIN r : r[s] = r[t] => s = t
<1>1. PICK T \in SUBSET Tenants : r \in Injection(T, Phones)
  BY DEF Assignments
<1> QED
  BY <1>1 DEF Injection, IsInjective

\* An assignment stays one-to-one when a tenant takes a number nobody else has.
LEMMA AssignmentsExtend ==
  ASSUME NEW r \in Assignments, NEW t \in Tenants, NEW p \in Phones,
         \A s \in DOMAIN r : r[s] = p => s = t
  PROVE  [s \in DOMAIN r \cup {t} |-> IF s = t THEN p ELSE r[s]] \in Assignments
<1> DEFINE T == DOMAIN r \cup {t}
           new == [s \in T |-> IF s = t THEN p ELSE r[s]]
<1>1. T \in SUBSET Tenants /\ new \in [T -> Phones] /\ \A a, b \in T : new[a] = new[b] => a = b
  BY AssignmentIsInjective
<1>2. new \in Injection(T, Phones)
  BY <1>1 DEF Injection, IsInjective
<1> QED
  BY <1>1, <1>2 DEF Assignments

\* There is one tenant with a phone number, or none.
LEMMA OneAddressee ==
  ASSUME rows \in Assignments, NEW ph, NEW S \in SUBSET GetTenantByPhoneNumberID(ph)
  PROVE  /\ S \in SUBSET Tenants
         /\ S # {} => Cardinality(S) = 1
<1>1. S \in SUBSET Tenants /\ \A s, t \in S : s = t
  BY AssignmentIsInjective DEF GetTenantByPhoneNumberID
<1>2. ASSUME S # {} PROVE Cardinality(S) = 1
  <2>1. PICK s \in S : TRUE
    BY <1>2
  <2>2. S = {s}
    BY <1>1, <2>1
  <2> QED
    BY <2>2, FS_Singleton
<1> QED
  BY <1>1, <1>2

LEMMA NobodyCounts == Cardinality({}) = 0
BY FS_EmptySet

----------------------------------------------------------------------------
LEMMA InitIInv == Init => IInv
<1> SUFFICES ASSUME Init PROVE IInv
  OBVIOUS
<1>1. \A x \in Posts : egress[x] = NoDispatch /\ logic[x] = NoLogic
  BY DEF Init
<1>2. TypeOK
  <2>1. /\ owned \subseteq Tenants \X Phones /\ urls \subseteq DOMAIN rows
    BY AssignmentIsInjective DEF Init
  <2>2. /\ NoDispatch \in [pc : {"none", "lookup", "post", "done"}, tenants : SUBSET Tenants]
        /\ NoLogic \in [left : SUBSET (Phones \X Users), opening : (Tenants \X Users) \cup {NoSession}]
        /\ NoDispatch.pc # "post" /\ NoDispatch.tenants = {}
    BY DEF NoDispatch, NoLogic
  <2>3. /\ egress \in [Posts -> [pc : {"none", "lookup", "post", "done"}, tenants : SUBSET Tenants]]
        /\ logic \in [Posts -> [left    : SUBSET (Phones \X Users),
                                opening : (Tenants \X Users) \cup {NoSession}]]
    BY <2>2 DEF Init
  <2>4. \A x \in Posts : egress[x].pc = "post" <=> Cardinality(egress[x].tenants) = 1
    BY <1>1, <2>2, NobodyCounts
  <2>5. /\ posted \in [Payloads -> 0..MaxPosts]
        /\ offered \in [Posts -> [Tenants -> Nat]]
        /\ confirmed \in [Posts -> [Tenants -> Nat]]
        /\ moves \in 0..MaxMoves /\ mishaps \in 0..MaxMishaps
    BY BoundsAssumption DEF Init
  <2>6. /\ rows \in Assignments /\ changed = {} /\ wire = {} /\ acked = {} /\ sessions = {} /\ cut = {}
    BY DEF Init
  <2> QED
    BY <2>1, <2>3, <2>4, <2>5, <2>6 DEF TypeOK
<1>3. RowsAreOwned
  BY DEF Init, RowsAreOwned
<1>4. \A x \in Posts, t \in Tenants : offered[x][t] = 0 /\ confirmed[x][t] = 0
  BY DEF Init
<1>5. Fresh /\ OfferedOnce /\ ConfirmedIsOffered
  BY <1>1, <1>4 DEF Init, Fresh, OfferedOnce, ConfirmedIsOffered
<1>6. Addressed /\ Opening
  BY <1>1 DEF Addressed, Opening, NoDispatch, NoLogic
<1>7. TenantsGetTheirOwn
  BY <1>4 DEF Init, TenantsGetTheirOwn
<1> QED
  BY <1>2, <1>3, <1>5, <1>6, <1>7 DEF IInv

----------------------------------------------------------------------------
(* What each group of steps leaves true.                                   *)

\* Steps of Meta, the handler and the network keep what was offered and opened.
LEMMA WireStep ==
  ASSUME IInv,
         (\E p \in Payloads : MetaPosts(p)) \/ (\E x \in Posts : Refuse(x) \/ PostV1MetaWebhook(x))
  PROVE  IInv'
<1> USE DEF IInv
<1>1. UNCHANGED <<tables, offered, confirmed, sessions, cut, mishaps>>
  BY DEF MetaPosts, Refuse, PostV1MetaWebhook, clients
<1>2. RowsAreOwned' /\ ConfirmedIsOffered'
  BY <1>1 DEF RowsAreOwned, ConfirmedIsOffered, tables
<1>3. ASSUME NEW p \in Payloads, MetaPosts(p)
      PROVE  IInv'
  <2> DEFINE y == <<p, posted[p] + 1>>
  <2>1. /\ posted \in [Payloads -> 0..MaxPosts] /\ posted[p] < MaxPosts
        /\ posted' = [posted EXCEPT ![p] = @ + 1] /\ wire' = wire \cup {y}
        /\ UNCHANGED <<acked, egress, logic>>
    BY <1>3 DEF MetaPosts, TypeOK
  <2>2. y \in Posts /\ posted' \in [Payloads -> 0..MaxPosts]
    BY <2>1, BoundsAssumption DEF Posts
  <2>3. TypeOK'
    BY <1>1, <2>1, <2>2 DEF TypeOK, tables
  <2>4. ASSUME NEW x \in Posts
        PROVE  /\ x[1] \in Payloads /\ x[2] \in 1..MaxPosts
               /\ posted[x[1]] <= posted'[x[1]]
               /\ x \in wire' => x \in wire \/ (x[2] > posted[x[1]] /\ x[2] <= posted'[x[1]])
    BY <2>1, <2>2 DEF Posts
  <2>5. Fresh'
    <3> SUFFICES ASSUME NEW x \in Posts
                 PROVE  /\ x \in wire' => x[2] <= posted'[x[1]]
                        /\ x \in wire' \/ x[2] > posted'[x[1]] => egress[x] = NoDispatch /\ logic[x] = NoLogic
                        /\ x \in wire' \/ x[2] > posted'[x[1]] \/ egress[x].pc \in {"lookup", "post"} =>
                             \A t \in Tenants : offered[x][t] = 0
      BY <1>1, <2>1 DEF Fresh
    <3>1. posted[x[1]] \in Nat /\ posted'[x[1]] \in Nat /\ x[2] \in Nat
      BY <2>1, <2>2, <2>4
    <3> QED
      BY <2>4, <3>1 DEF Fresh
  <2>6. OfferedOnce'
    <3> SUFFICES ASSUME NEW x \in Posts, x[2] <= posted[x[1]]
                 PROVE  x[2] <= posted'[x[1]]
      BY <1>1 DEF OfferedOnce
    <3> QED
      BY <2>1, <2>2, <2>4
  <2>7. Addressed' /\ Opening'
    BY <1>1, <2>1 DEF Addressed, Opening, MayOpen, tables
  <2>8. TenantsGetTheirOwn'
    <3>1. \A q \in Payloads : posted[q] > 0 => posted'[q] > 0
      BY <2>1
    <3> QED
      BY <1>1, <3>1 DEF TenantsGetTheirOwn, tables
  <2> QED
    BY <1>2, <2>3, <2>5, <2>6, <2>7, <2>8
<1>4. ASSUME NEW x \in Posts, Refuse(x)
      PROVE  IInv'
  <2>1. wire' \subseteq wire /\ UNCHANGED <<posted, acked, egress, logic>>
    BY <1>4 DEF Refuse
  <2>2. TypeOK' /\ Fresh' /\ Addressed' /\ Opening'
    BY <1>1, <2>1 DEF TypeOK, Fresh, Addressed, Opening, MayOpen, tables
  <2>3. OfferedOnce' /\ TenantsGetTheirOwn'
    BY <1>1, <2>1 DEF OfferedOnce, TenantsGetTheirOwn, tables
  <2> QED
    BY <1>2, <2>2, <2>3
<1>5. ASSUME NEW x \in Posts, PostV1MetaWebhook(x)
      PROVE  IInv'
  <2>1. /\ x \in wire /\ wire' = wire \ {x} /\ posted' = posted
        /\ egress[x] = NoDispatch /\ logic[x] = NoLogic
        /\ x[1] \in Payloads /\ Messages[x[1]] \subseteq Phones \X Users
    BY <1>5, PayloadsAssumption DEF PostV1MetaWebhook, Fresh, Posts
  <2>2. PICK pc \in {"done", "lookup"} : egress' = [egress EXCEPT ![x] = [pc |-> pc, tenants |-> {}]]
    <3>1. egress' = [egress EXCEPT ![x].pc = IF First[x[1]] = NoPhone THEN "done" ELSE "lookup"]
      BY <1>5 DEF PostV1MetaWebhook
    <3>2. [NoDispatch EXCEPT !.pc = "done"] = [pc |-> "done", tenants |-> {}]
      BY DEF NoDispatch
    <3>3. [NoDispatch EXCEPT !.pc = "lookup"] = [pc |-> "lookup", tenants |-> {}]
      BY DEF NoDispatch
    <3>4. CASE First[x[1]] = NoPhone
      BY <2>1, <3>1, <3>2, <3>4
    <3>5. CASE First[x[1]] # NoPhone
      BY <2>1, <3>1, <3>3, <3>5
    <3> QED
      BY <3>4, <3>5
  <2>3. logic' = [logic EXCEPT ![x] = [left |-> Messages[x[1]], opening |-> NoSession]]
    <3>1. [logic[x] EXCEPT !.left = Messages[x[1]]] = [left |-> Messages[x[1]], opening |-> NoSession]
      BY <2>1 DEF NoLogic
    <3> QED
      BY <1>5, <3>1 DEF PostV1MetaWebhook
  <2>4. acked' \subseteq Payloads
    BY <1>5, <2>1 DEF PostV1MetaWebhook, TypeOK
  <2>5. TypeOK'
    <3>1. egress' \in [Posts -> [pc : {"none", "lookup", "post", "done"}, tenants : SUBSET Tenants]]
      BY <2>2 DEF TypeOK
    <3>2. \A z \in Posts : egress'[z].pc = "post" <=> Cardinality(egress'[z].tenants) = 1
      BY <2>2, NobodyCounts DEF TypeOK
    <3>3. logic' \in [Posts -> [left : SUBSET (Phones \X Users),
                                opening : (Tenants \X Users) \cup {NoSession}]]
      BY <2>1, <2>3 DEF TypeOK
    <3>4. wire' \subseteq Posts
      BY <2>1 DEF TypeOK
    <3> QED
      BY <1>1, <2>1, <2>4, <3>1, <3>2, <3>3, <3>4 DEF TypeOK, tables
  <2>6. Fresh'
    <3> SUFFICES ASSUME NEW z \in Posts
                 PROVE  /\ z \in wire' => z[2] <= posted[z[1]]
                        /\ z \in wire' \/ z[2] > posted[z[1]] => egress'[z] = NoDispatch /\ logic'[z] = NoLogic
                        /\ z \in wire' \/ z[2] > posted[z[1]] \/ egress'[z].pc \in {"lookup", "post"} =>
                             \A t \in Tenants : offered[z][t] = 0
      BY <1>1, <2>1 DEF Fresh
    <3>1. CASE z # x
      <4>1. egress'[z] = egress[z] /\ logic'[z] = logic[z] /\ (z \in wire' <=> z \in wire)
        BY <2>1, <2>2, <2>3, <3>1 DEF TypeOK
      <4> QED
        BY <4>1 DEF Fresh
    <3>2. CASE z = x
      <4>1. z \notin wire' /\ z[2] <= posted[z[1]] /\ \A t \in Tenants : offered[z][t] = 0
        BY <2>1, <3>2 DEF Fresh
      <4>2. z[2] \in Nat /\ posted[z[1]] \in Nat
        BY DEF Posts, TypeOK
      <4> QED
        BY <4>1, <4>2
    <3> QED
      BY <3>1, <3>2
  <2>7. Addressed' /\ Opening'
    BY <1>1, <2>2, <2>3 DEF Addressed, Opening, MayOpen, TypeOK, tables
  <2>8. OfferedOnce' /\ TenantsGetTheirOwn'
    BY <1>1, <2>1 DEF OfferedOnce, TenantsGetTheirOwn, tables
  <2> QED
    BY <1>2, <2>5, <2>6, <2>7, <2>8
<1> QED
  BY <1>3, <1>4, <1>5

----------------------------------------------------------------------------
\* A goroutine of post x goes on: only what was read, offered and opened for x
\* changes, and the rows and the posts stay.
Kept == UNCHANGED <<tables, meta>>

\* A dispatcher that goes on or ends, has posted what it has read or nothing,
\* and leaves the other goroutine alone.
LEMMA EgressStep ==
  ASSUME IInv, NEW x \in Posts, NEW e, Kept,
         egress[x].pc \in {"lookup", "post"},
         e \in [pc : {"post", "done"}, tenants : SUBSET Tenants],
         e.pc = "post" <=> Cardinality(e.tenants) = 1,
         \A t \in e.tenants : <<t, First[x[1]]>> \in owned,
         egress' = [egress EXCEPT ![x] = e],
         \/ clients' = clients
         \/ /\ egress[x].pc = "post" /\ e.pc = "done"
            /\ \E t \in egress[x].tenants :
                 /\ offered' = [offered EXCEPT ![x][t] = @ + 1]
                 /\ confirmed' \in {confirmed, [confirmed EXCEPT ![x][t] = @ + 1]},
         cut' \subseteq Posts, mishaps' \in 0..MaxMishaps,
         UNCHANGED <<logic, sessions>>
  PROVE  IInv'
<1> USE DEF IInv
<1>1. /\ UNCHANGED <<rows, urls, owned, changed, moves, posted, wire, acked, logic, sessions>>
      /\ egress'[x] = e /\ \A z \in Posts \ {x} : egress'[z] = egress[z]
      /\ x \notin wire /\ x[2] <= posted[x[1]]
      /\ \A t \in Tenants : offered[x][t] = 0 /\ confirmed[x][t] = 0
  <2>1. UNCHANGED <<rows, urls, owned, changed, moves, posted, wire, acked>>
    BY DEF Kept, tables, meta
  <2>2. egress'[x] = e /\ \A z \in Posts \ {x} : egress'[z] = egress[z]
    BY DEF TypeOK
  <2>3. egress[x] # NoDispatch /\ x[2] \in Nat /\ posted[x[1]] \in Nat
    BY DEF NoDispatch, Posts, TypeOK
  <2>4. x \notin wire /\ x[2] <= posted[x[1]] /\ \A t \in Tenants : offered[x][t] = 0
    BY <2>3 DEF Fresh
  <2>5. \A t \in Tenants : confirmed[x][t] \in Nat /\ confirmed[x][t] <= offered[x][t]
    BY DEF TypeOK, ConfirmedIsOffered
  <2> QED
    BY <2>1, <2>2, <2>4, <2>5
<1>2. /\ offered' \in [Posts -> [Tenants -> Nat]]
      /\ \A z \in Posts \ {x} : offered'[z] = offered[z]
      /\ \/ offered'[x] = offered[x]
         \/ /\ e.pc = "done"
            /\ \E t \in egress[x].tenants : \A s \in Tenants : offered'[x][s] = IF s = t THEN 1 ELSE 0
      /\ confirmed' \in [Posts -> [Tenants -> Nat]]
      /\ ConfirmedIsOffered'
  <2>1. CASE clients' = clients
    BY <2>1 DEF TypeOK, ConfirmedIsOffered, clients
  <2>2. ASSUME e.pc = "done", NEW t \in egress[x].tenants, offered' = [offered EXCEPT ![x][t] = @ + 1],
               confirmed' \in {confirmed, [confirmed EXCEPT ![x][t] = @ + 1]}
        PROVE  /\ offered' \in [Posts -> [Tenants -> Nat]]
               /\ \A z \in Posts \ {x} : offered'[z] = offered[z]
               /\ \A s \in Tenants : offered'[x][s] = IF s = t THEN 1 ELSE 0
               /\ confirmed' \in [Posts -> [Tenants -> Nat]]
               /\ ConfirmedIsOffered'
    <3>1. t \in Tenants /\ offered \in [Posts -> [Tenants -> Nat]]
      BY DEF TypeOK
    <3>2. /\ offered' \in [Posts -> [Tenants -> Nat]]
          /\ \A z \in Posts \ {x} : offered'[z] = offered[z]
          /\ \A s \in Tenants : offered'[x][s] = IF s = t THEN 1 ELSE 0
      BY <1>1, <2>2, <3>1
    <3>3. confirmed \in [Posts -> [Tenants -> Nat]]
      BY DEF TypeOK
    <3>4. /\ confirmed' \in [Posts -> [Tenants -> Nat]]
          /\ \A z \in Posts \ {x} : confirmed'[z] = confirmed[z]
          /\ \A s \in Tenants : confirmed'[x][s] = 0 \/ (s = t /\ confirmed'[x][s] = 1)
      <4>1. CASE confirmed' = confirmed
        BY <1>1, <3>3, <4>1
      <4>2. CASE confirmed' = [confirmed EXCEPT ![x][t] = @ + 1]
        BY <1>1, <3>1, <3>3, <4>2
      <4> QED
        BY <2>2, <4>1, <4>2
    <3>5. ASSUME NEW z \in Posts, NEW s \in Tenants
          PROVE  confirmed'[z][s] <= offered'[z][s]
      <4>1. CASE z # x
        BY <3>2, <3>4, <4>1 DEF ConfirmedIsOffered
      <4>2. CASE z = x
        BY <3>2, <3>4, <4>2
      <4> QED
        BY <4>1, <4>2
    <3> QED
      BY <3>2, <3>4, <3>5 DEF ConfirmedIsOffered
  <2> QED
    BY <2>1, <2>2
<1>3. TypeOK'
  <2>1. egress' \in [Posts -> [pc : {"none", "lookup", "post", "done"}, tenants : SUBSET Tenants]]
    BY DEF TypeOK
  <2>2. \A z \in Posts : egress'[z].pc = "post" <=> Cardinality(egress'[z].tenants) = 1
    BY <1>1 DEF TypeOK
  <2> QED
    BY <1>1, <1>2, <2>1, <2>2 DEF TypeOK
<1>4. RowsAreOwned' /\ Opening'
  BY <1>1 DEF RowsAreOwned, Opening, MayOpen
<1>5. Addressed'
  BY <1>1 DEF Addressed
<1>6. Fresh'
  <2> SUFFICES ASSUME NEW z \in Posts
               PROVE  /\ z \in wire => z[2] <= posted[z[1]]
                      /\ z \in wire \/ z[2] > posted[z[1]] => egress'[z] = NoDispatch /\ logic[z] = NoLogic
                      /\ z \in wire \/ z[2] > posted[z[1]] \/ egress'[z].pc \in {"lookup", "post"} =>
                           \A t \in Tenants : offered'[z][t] = 0
    BY <1>1 DEF Fresh
  <2>1. CASE z # x
    BY <1>1, <1>2, <2>1 DEF Fresh
  <2>2. CASE z = x
    <3>1. z[2] \in Nat /\ posted[z[1]] \in Nat
      BY DEF Posts, TypeOK
    <3> QED
      BY <1>1, <1>2, <2>2, <3>1
  <2> QED
    BY <2>1, <2>2
<1>7. OfferedOnce'
  <2> SUFFICES ASSUME NEW z \in Posts, NEW t \in Tenants
               PROVE  /\ offered'[z][t] <= 1
                      /\ offered'[z][t] > 0 => z[2] <= posted[z[1]]
                      /\ \A s \in Tenants \ {t} : offered'[z][t] > 0 => offered'[z][s] = 0
    BY <1>1 DEF OfferedOnce
  <2>1. CASE z # x
    BY <1>2, <2>1 DEF OfferedOnce
  <2>2. CASE z = x
    BY <1>1, <1>2, <2>2
  <2> QED
    BY <2>1, <2>2
<1>8. TenantsGetTheirOwn'
  <2>1. ASSUME NEW z \in Posts, NEW t \in Tenants, offered'[z][t] > 0
        PROVE  <<t, First[z[1]]>> \in owned
    <3>1. CASE z # x
      BY <1>2, <2>1, <3>1 DEF TenantsGetTheirOwn
    <3>2. CASE z = x
      <4>1. t \in egress[x].tenants
        BY <1>1, <1>2, <2>1, <3>2
      <4> QED
        BY <3>2, <4>1 DEF Addressed
    <3> QED
      BY <3>1, <3>2
  <2> QED
    BY <1>1, <2>1 DEF TenantsGetTheirOwn
<1> QED
  BY <1>2, <1>3, <1>4, <1>5, <1>6, <1>7, <1>8

\* The other goroutine of a post has messages of the payload left, of which it
\* opens a session for one who had the number, or none.
LEMMA LogicStep ==
  ASSUME IInv, NEW x \in Posts, NEW l, Kept,
         logic[x] # NoLogic,
         l \in [left    : SUBSET Messages[x[1]],
                opening : (Tenants \X Users) \cup {NoSession}],
         l.opening # NoSession => MayOpen(l.opening, x[1]),
         logic' = [logic EXCEPT ![x] = l],
         \/ sessions' = sessions
         \/ logic[x].opening # NoSession /\ sessions' = sessions \cup {logic[x].opening},
         cut' \subseteq Posts, mishaps' \in 0..MaxMishaps,
         UNCHANGED <<egress, clients>>
  PROVE  IInv'
<1> USE DEF IInv
<1>1. /\ UNCHANGED <<rows, urls, owned, changed, moves, posted, wire, acked, egress, offered, confirmed>>
      /\ logic'[x] = l /\ \A z \in Posts \ {x} : logic'[z] = logic[z]
  <2>1. UNCHANGED <<rows, urls, owned, changed, moves, posted, wire, acked, egress, offered, confirmed>>
    BY DEF Kept, tables, meta, clients
  <2> QED
    BY <2>1 DEF TypeOK
<1>2. x \notin wire /\ ~(x[2] > posted[x[1]]) /\ x[1] \in Payloads /\ posted[x[1]] > 0
  <2>1. x \notin wire /\ ~(x[2] > posted[x[1]])
    BY DEF Fresh
  <2>2. x[1] \in Payloads /\ x[2] \in Nat /\ x[2] > 0 /\ posted[x[1]] \in Nat
    BY DEF Posts, TypeOK
  <2> QED
    BY <2>1, <2>2
<1>3. TypeOK'
  <2>1. Messages[x[1]] \subseteq Phones \X Users
    BY <1>2, PayloadsAssumption
  <2>2. logic' \in [Posts -> [left    : SUBSET (Phones \X Users),
                              opening : (Tenants \X Users) \cup {NoSession}]]
    <3>1. l \in [left : SUBSET (Phones \X Users), opening : (Tenants \X Users) \cup {NoSession}]
      BY <2>1
    <3> QED
      BY <3>1 DEF TypeOK
  <2>3. logic[x].opening \in (Tenants \X Users) \cup {NoSession}
    BY DEF TypeOK
  <2>4. sessions' \subseteq Tenants \X Users
    BY <2>3 DEF TypeOK
  <2> QED
    BY <1>1, <2>2, <2>4 DEF TypeOK
<1>4. RowsAreOwned' /\ Addressed' /\ OfferedOnce' /\ ConfirmedIsOffered'
  BY <1>1 DEF RowsAreOwned, Addressed, OfferedOnce, ConfirmedIsOffered
<1>5. Fresh'
  BY <1>1, <1>2 DEF Fresh
<1>6. Opening'
  BY <1>1 DEF Opening, MayOpen
<1>7. TenantsGetTheirOwn'
  <2>1. ASSUME NEW s \in sessions'
        PROVE  \E p \in Payloads : \E m \in Messages[p] :
                 posted[p] > 0 /\ s[2] = m[2] /\ <<s[1], m[1]>> \in owned
    <3>1. CASE s \in sessions
      BY <3>1 DEF TenantsGetTheirOwn
    <3>2. CASE logic[x].opening # NoSession /\ s = logic[x].opening
      <4>1. MayOpen(s, x[1])
        BY <3>2 DEF Opening
      <4> QED
        BY <1>2, <4>1 DEF MayOpen
    <3> QED
      BY <2>1, <3>1, <3>2
  <2> QED
    BY <1>1, <2>1 DEF TenantsGetTheirOwn
<1> QED
  BY <1>3, <1>4, <1>5, <1>6, <1>7

----------------------------------------------------------------------------
(* The steps of the two goroutines.                                        *)

\* How every goroutine of the dispatcher ends.
Ended == [NoDispatch EXCEPT !.pc = "done"]

LEMMA EndedIsTyped ==
  /\ Ended \in [pc : {"post", "done"}, tenants : SUBSET Tenants]
  /\ Ended.pc = "done" /\ Ended.tenants = {} /\ Cardinality(Ended.tenants) # 1
BY NobodyCounts DEF Ended, NoDispatch

LEMMA DispatcherStep ==
  ASSUME IInv, NEW x \in Posts, Dispatcher(x)
  PROVE  IInv'
<1>1. cut \subseteq Posts /\ mishaps \in 0..MaxMishaps
  BY DEF IInv, TypeOK
<1>2. ASSUME LookUp(x) PROVE IInv'
  <2> DEFINE addressees == GetTenantByPhoneNumberID(First[x[1]]) \cap urls
             e == IF addressees = {} THEN Ended ELSE [pc |-> "post", tenants |-> addressees]
  <2>1. /\ egress[x].pc = "lookup" /\ egress' = [egress EXCEPT ![x] = e]
        /\ Kept /\ UNCHANGED <<logic, sessions, clients, cut, mishaps>>
    BY <1>2 DEF LookUp, DispatchEnds, Ended, Kept
  <2>2. addressees \in SUBSET Tenants /\ (addressees # {} => Cardinality(addressees) = 1)
    BY OneAddressee DEF IInv, TypeOK
  <2>3. /\ e \in [pc : {"post", "done"}, tenants : SUBSET Tenants]
        /\ e.pc = "post" <=> Cardinality(e.tenants) = 1
    <3>1. CASE addressees = {}
      BY <3>1, EndedIsTyped
    <3>2. CASE addressees # {}
      BY <2>2, <3>2
    <3> QED
      BY <3>1, <3>2
  <2>4. \A t \in e.tenants : <<t, First[x[1]]>> \in owned
    BY EndedIsTyped DEF IInv, RowsAreOwned, GetTenantByPhoneNumberID
  <2> HIDE DEF e
  <2> QED
    BY <1>1, <2>1, <2>3, <2>4, EgressStep
<1>3. ASSUME ClientConfirms(x) \/ NotConfirmed(x) PROVE IInv'
  <2>1. /\ egress[x].pc = "post" /\ egress' = [egress EXCEPT ![x] = Ended]
        /\ Kept /\ UNCHANGED <<logic, sessions, cut, mishaps>>
    BY <1>3 DEF ClientConfirms, NotConfirmed, DispatchEnds, Ended, Kept
  <2>2. \E t \in egress[x].tenants :
          /\ offered' = [offered EXCEPT ![x][t] = @ + 1]
          /\ confirmed' \in {confirmed, [confirmed EXCEPT ![x][t] = @ + 1]}
    BY <1>3 DEF ClientConfirms, NotConfirmed, Offer, Confirm
  <2>3. \A t \in Ended.tenants : <<t, First[x[1]]>> \in owned
    BY EndedIsTyped
  <2> QED
    BY <1>1, <2>1, <2>2, <2>3, EndedIsTyped, EgressStep
<1> QED
  BY <1>2, <1>3 DEF Dispatcher

LEMMA InternalLogicStep ==
  ASSUME IInv, NEW x \in Posts, InternalLogic(x)
  PROVE  IInv'
<1>1. /\ cut \subseteq Posts /\ mishaps \in 0..MaxMishaps
      /\ logic[x] \in [left : SUBSET Messages[x[1]], opening : (Tenants \X Users) \cup {NoSession}]
      /\ Messages[x[1]] \subseteq Phones \X Users
  BY PayloadsAssumption DEF IInv, TypeOK, Opening, Posts
<1>2. ASSUME ReadOwner(x) PROVE IInv'
  <2>1. /\ logic[x].opening = NoSession
        /\ Kept /\ UNCHANGED <<egress, sessions, clients, cut, mishaps>>
    BY <1>2 DEF ReadOwner, Kept
  <2>a. PICK m \in logic[x].left :
          \E s \in IF GetTenantByPhoneNumberID(m[1]) = {} THEN {NoSession}
                   ELSE GetTenantByPhoneNumberID(m[1]) \X {m[2]} :
            logic' = [logic EXCEPT ![x] = [left |-> @.left \ {m}, opening |-> s]]
    BY <1>2 DEF ReadOwner
  <2>2. PICK s \in IF GetTenantByPhoneNumberID(m[1]) = {} THEN {NoSession}
                   ELSE GetTenantByPhoneNumberID(m[1]) \X {m[2]} :
          logic' = [logic EXCEPT ![x] = [left |-> @.left \ {m}, opening |-> s]]
    BY <2>a
  <2> DEFINE l == [left |-> logic[x].left \ {m}, opening |-> s]
  <2>3. logic' = [logic EXCEPT ![x] = l]
    BY <2>2
  <2>4. logic[x] # NoLogic
    BY <2>2 DEF NoLogic
  <2>5. m \in Messages[x[1]] /\ m[2] \in Users
    BY <1>1
  <2>6. s # NoSession => s \in Tenants \X Users /\ MayOpen(s, x[1])
    <3> SUFFICES ASSUME s # NoSession
                 PROVE  s \in Tenants \X Users /\ MayOpen(s, x[1])
      OBVIOUS
    <3>1. s \in GetTenantByPhoneNumberID(m[1]) \X {m[2]}
      BY <2>2
    <3>2. s[1] \in GetTenantByPhoneNumberID(m[1]) /\ s[2] = m[2] /\ s = <<s[1], s[2]>>
      BY <3>1
    <3>3. s[1] \in Tenants /\ <<s[1], m[1]>> \in owned
      BY <3>2, AssignmentIsInjective DEF GetTenantByPhoneNumberID, IInv, RowsAreOwned, TypeOK
    <3> QED
      BY <2>5, <3>2, <3>3 DEF MayOpen
  <2>7. l \in [left : SUBSET Messages[x[1]], opening : (Tenants \X Users) \cup {NoSession}]
    BY <1>1, <2>6
  <2>8. l.opening # NoSession => MayOpen(l.opening, x[1])
    BY <2>6
  <2> HIDE DEF l
  <2> QED
    BY <1>1, <2>1, <2>3, <2>4, <2>7, <2>8, LogicStep
<1>3. ASSUME UpsertActiveSession(x) PROVE IInv'
  <2> DEFINE l == [left |-> logic[x].left, opening |-> NoSession]
  <2>1. /\ logic[x].opening # NoSession
        /\ sessions' = sessions \cup {logic[x].opening}
        /\ logic' = [logic EXCEPT ![x] = l]
        /\ Kept /\ UNCHANGED <<egress, clients, cut, mishaps>>
    <3>1. [logic[x] EXCEPT !.opening = NoSession] = l
      BY <1>1
    <3> QED
      BY <1>3, <3>1 DEF UpsertActiveSession, Kept
  <2>2. logic[x] # NoLogic
    BY <2>1 DEF NoLogic
  <2>3. /\ l \in [left : SUBSET Messages[x[1]], opening : (Tenants \X Users) \cup {NoSession}]
        /\ l.opening = NoSession
    BY <1>1
  <2> HIDE DEF l
  <2> QED
    BY <1>1, <2>1, <2>2, <2>3, LogicStep
<1> QED
  BY <1>2, <1>3 DEF InternalLogic

----------------------------------------------------------------------------
(* What goes wrong, and what happens around.                               *)

LEMMA StatementFailsStep ==
  ASSUME IInv, NEW x \in Posts, StatementFails(x)
  PROVE  IInv'
<1>1. /\ cut' \subseteq Posts /\ mishaps' \in 0..MaxMishaps
      /\ Kept /\ UNCHANGED <<sessions, clients>>
  BY BoundsAssumption DEF StatementFails, IInv, TypeOK, Kept
<1>2. logic[x] \in [left : SUBSET Messages[x[1]], opening : (Tenants \X Users) \cup {NoSession}]
  BY DEF IInv, TypeOK, Opening
<1>3. CASE egress[x].pc = "lookup" /\ DispatchEnds(x) /\ logic' = logic
  <2>1. egress' = [egress EXCEPT ![x] = Ended] /\ \A t \in Ended.tenants : <<t, First[x[1]]>> \in owned
    BY <1>3, EndedIsTyped DEF DispatchEnds, Ended
  <2> QED
    BY <1>1, <1>3, <2>1, EndedIsTyped, EgressStep
<1>4. CASE /\ egress' = egress
           /\ logic[x].opening # NoSession /\ logic' = [logic EXCEPT ![x].opening = NoSession]
  <2> DEFINE l == [left |-> logic[x].left, opening |-> NoSession]
  <2>1. logic' = [logic EXCEPT ![x] = l] /\ logic[x] # NoLogic
    <3>1. [logic[x] EXCEPT !.opening = NoSession] = l
      BY <1>2
    <3>2. logic' = [logic EXCEPT ![x] = l]
      BY <1>4, <3>1
    <3>3. logic[x] # NoLogic
      BY <1>4 DEF NoLogic
    <3> QED
      BY <3>2, <3>3
  <2>2. /\ l \in [left : SUBSET Messages[x[1]], opening : (Tenants \X Users) \cup {NoSession}]
        /\ l.opening = NoSession
    BY <1>2
  <2> HIDE DEF l
  <2> QED
    BY <1>1, <1>4, <2>1, <2>2, LogicStep
<1>5. CASE /\ egress' = egress /\ logic[x].opening = NoSession
           /\ \E m \in logic[x].left : logic' = [logic EXCEPT ![x].left = @ \ {m}]
  <2>1. PICK m \in logic[x].left : logic' = [logic EXCEPT ![x].left = @ \ {m}]
    BY <1>5
  <2> DEFINE l == [left |-> logic[x].left \ {m}, opening |-> NoSession]
  <2>2. logic' = [logic EXCEPT ![x] = l] /\ logic[x] # NoLogic
    <3>1. [logic[x] EXCEPT !.left = logic[x].left \ {m}] = l
      BY <1>2, <1>5
    <3>2. logic' = [logic EXCEPT ![x] = l]
      BY <2>1, <3>1
    <3>3. logic[x] # NoLogic
      BY <2>1 DEF NoLogic
    <3> QED
      BY <3>2, <3>3
  <2>3. /\ l \in [left : SUBSET Messages[x[1]], opening : (Tenants \X Users) \cup {NoSession}]
        /\ l.opening = NoSession
    BY <1>2
  <2> HIDE DEF l
  <2> QED
    BY <1>1, <1>5, <2>2, <2>3, LogicStep
<1> QED
  BY <1>3, <1>4, <1>5 DEF StatementFails

\* The goroutines end with the process; what they have done stays done, and the
\* next process starts none for a post of the last.
LEMMA RestartStep ==
  ASSUME IInv, Restart
  PROVE  IInv'
<1> USE DEF IInv
<1>1. /\ UNCHANGED <<rows, urls, owned, changed, moves, posted, wire, acked, sessions, offered, confirmed>>
      /\ cut' \subseteq Posts /\ mishaps' \in 0..MaxMishaps
      /\ egress' = [x \in Posts |-> NoDispatch] /\ logic' = [x \in Posts |-> NoLogic]
  BY BoundsAssumption DEF Restart, TypeOK, tables, meta, clients
<1>2. TypeOK'
  <2>1. /\ NoDispatch \in [pc : {"none", "lookup", "post", "done"}, tenants : SUBSET Tenants]
        /\ NoLogic \in [left : SUBSET (Phones \X Users), opening : (Tenants \X Users) \cup {NoSession}]
        /\ NoDispatch.pc # "post" /\ NoDispatch.tenants = {}
    BY DEF NoDispatch, NoLogic
  <2>2. \A x \in Posts : egress'[x].pc = "post" <=> Cardinality(egress'[x].tenants) = 1
    BY <1>1, <2>1, NobodyCounts
  <2> QED
    BY <1>1, <2>1, <2>2 DEF TypeOK
<1>3. RowsAreOwned' /\ OfferedOnce' /\ ConfirmedIsOffered' /\ TenantsGetTheirOwn'
  BY <1>1 DEF RowsAreOwned, OfferedOnce, ConfirmedIsOffered, TenantsGetTheirOwn
<1>4. Fresh' /\ Addressed' /\ Opening'
  BY <1>1 DEF Fresh, Addressed, Opening, NoDispatch, NoLogic
<1> QED
  BY <1>2, <1>3, <1>4

\* A tenant takes a number that no other row has; those who had it before are
\* still known to have had it.
LEMMA SyncTenantStep ==
  ASSUME IInv, NEW t \in Tenants, NEW ph \in Phones, SyncTenant(t, ph)
  PROVE  IInv'
<1> USE DEF IInv
<1>1. /\ UNCHANGED <<posted, wire, acked, egress, logic, sessions, offered, confirmed, cut, mishaps>>
      /\ owned' = owned \cup {<<t, ph>>}
      /\ moves' \in 0..MaxMoves
      /\ urls' \in {urls, urls \cup {t}, urls \ {t}}
      /\ changed' = changed \cup {ph} \cup {rows[s] : s \in DOMAIN rows \cap {t}}
      /\ rows' = [s \in DOMAIN rows \cup {t} |-> IF s = t THEN ph ELSE rows[s]]
      /\ \A s \in DOMAIN rows : rows[s] = ph => s = t
  BY BoundsAssumption DEF SyncTenant, TypeOK, meta, clients, GetTenantByPhoneNumberID
<1>2. rows \in Assignments /\ rows' \in Assignments
  <2>1. rows \in Assignments
    BY DEF TypeOK
  <2>2. [s \in DOMAIN rows \cup {t} |-> IF s = t THEN ph ELSE rows[s]] \in Assignments
    BY <1>1, <2>1, AssignmentsExtend
  <2> QED
    BY <1>1, <2>1, <2>2
<1>3. TypeOK'
  <2>1. owned' \subseteq Tenants \X Phones /\ urls' \subseteq DOMAIN rows'
    BY <1>1 DEF TypeOK
  <2>2. changed' \subseteq Phones
    BY <1>1, <1>2, AssignmentIsInjective DEF TypeOK
  <2> QED
    BY <1>1, <1>2, <2>1, <2>2 DEF TypeOK
<1>4. RowsAreOwned'
  BY <1>1 DEF RowsAreOwned
<1>5. Fresh' /\ OfferedOnce' /\ ConfirmedIsOffered'
  BY <1>1 DEF Fresh, OfferedOnce, ConfirmedIsOffered
<1>6. Addressed' /\ Opening' /\ TenantsGetTheirOwn'
  <2>1. Addressed'
    BY <1>1 DEF Addressed
  <2>2. \A s, p : MayOpen(s, p) => MayOpen(s, p)'
    BY <1>1 DEF MayOpen
  <2>3. Opening'
    BY <1>1, <2>2 DEF Opening
  <2>4. TenantsGetTheirOwn'
    BY <1>1 DEF TenantsGetTheirOwn
  <2> QED
    BY <2>1, <2>3, <2>4
<1> QED
  BY <1>3, <1>4, <1>5, <1>6

----------------------------------------------------------------------------
LEMMA StepIInv == IInv /\ [Next]_vars => IInv'
<1> SUFFICES ASSUME IInv, [Next]_vars PROVE IInv'
  OBVIOUS
<1>1. CASE UNCHANGED vars
  <2>1. UNCHANGED <<rows, urls, posted, wire, acked, egress, logic, sessions, offered, confirmed,
                    owned, changed, cut, moves, mishaps>>
    BY <1>1 DEF vars, tables, meta, clients
  <2>2. TypeOK' /\ RowsAreOwned' /\ Fresh'
    BY <2>1 DEF IInv, TypeOK, RowsAreOwned, Fresh
  <2>3. Addressed' /\ Opening'
    BY <2>1 DEF IInv, Addressed, Opening, MayOpen
  <2>4. OfferedOnce' /\ ConfirmedIsOffered' /\ TenantsGetTheirOwn'
    BY <2>1 DEF IInv, OfferedOnce, ConfirmedIsOffered, TenantsGetTheirOwn
  <2> QED
    BY <2>2, <2>3, <2>4 DEF IInv
<1>2. CASE \E p \in Payloads : MetaPosts(p)
  BY <1>2, WireStep
<1>3. ASSUME NEW x \in Posts,
             Refuse(x) \/ PostV1MetaWebhook(x) \/ Dispatcher(x) \/ InternalLogic(x) \/ StatementFails(x)
      PROVE  IInv'
  BY <1>3, WireStep, DispatcherStep, InternalLogicStep, StatementFailsStep
<1>4. CASE \E t \in Tenants, ph \in Phones : SyncTenant(t, ph)
  BY <1>4, SyncTenantStep
<1>5. CASE Restart
  BY <1>5, RestartStep
<1> QED
  BY <1>1, <1>2, <1>3, <1>4, <1>5 DEF Next

\* The inductive invariant: a goroutine that may still post or open something
\* belongs to a post that Meta has made and that is no longer on its way, and
\* has read a tenant that has had the number.
THEOREM IInvHolds == Spec => []IInv
BY InitIInv, StepIInv, PTL DEF Spec

\* Every variable has its type; in particular a dispatcher that posts has read
\* one tenant, as UNIQUE on phone_number_id promises.
THEOREM TypeCorrect == Spec => []TypeOK
<1>1. IInv => TypeOK
  BY DEF IInv
<1> QED
  BY <1>1, IInvHolds, PTL

\* Of every post of Meta at most one client confirms the payload, once, and none
\* confirms what Meta has not posted.
THEOREM ConfirmedOnceHolds == Spec => []ConfirmedOncePerPost
<1>1. IInv => ConfirmedOncePerPost
  <2> SUFFICES ASSUME IInv, NEW x \in Posts, NEW t \in Tenants
               PROVE  /\ confirmed[x][t] <= (IF x[2] <= posted[x[1]] THEN 1 ELSE 0)
                      /\ \A s \in Tenants \ {t} : confirmed[x][t] > 0 => confirmed[x][s] = 0
    BY DEF ConfirmedOncePerPost
  <2>1. \A s \in Tenants : /\ confirmed[x][s] \in Nat /\ offered[x][s] \in Nat
                           /\ confirmed[x][s] <= offered[x][s]
    BY DEF IInv, TypeOK, ConfirmedIsOffered
  <2>2. /\ offered[x][t] <= 1
        /\ offered[x][t] > 0 => x[2] <= posted[x[1]]
        /\ \A s \in Tenants \ {t} : offered[x][t] > 0 => offered[x][s] = 0
    BY DEF IInv, OfferedOnce
  <2> QED
    BY <2>1, <2>2
<1> QED
  BY <1>1, IInvHolds, PTL

\* Payloads and sessions go to tenants that have had the phone number in
\* question, whatever rows change meanwhile.
THEOREM NobodyGetsAnothersMessages == Spec => []TenantsGetTheirOwn
<1>1. IInv => TenantsGetTheirOwn
  BY DEF IInv
<1> QED
  BY <1>1, IInvHolds, PTL

=============================================================================
