---------------------------- MODULE MetaWebhook ----------------------------
(***************************************************************************)
(* Delivery receipts (internal/api/handlers/meta_webhook.go).  Meta posts  *)
(* a receipt to the webhook; the handler answers 200 at once and leaves    *)
(* the work to a goroutine that nobody waits for, which applies the        *)
(* receipt to the job and then records it in webhook_events.               *)
(*                                                                         *)
(* Meta may post receipts late, in any order, more than once, or never.  A *)
(* payload with several receipts is several posts here: the statements for *)
(* them are separate, and other goroutines run between them.               *)
(***************************************************************************)
EXTENDS EdgeState

CONSTANT Reportable    \* bound: the receipts Meta sends of each message in the instance

ASSUME ReportableAssumption == Reportable \in [Wamids -> SUBSET Receipts]

VARIABLES
  reported,    \* external: the receipts Meta has issued for each message
  inbox,       \* receipts answered with 200 and not yet applied
  recording,   \* receipts applied, about to be written to webhook_events
  events,      \* table webhook_events: is_matched, by idempotency_key
  answered     \* history: receipts answered with 200 since the process started, while
               \* their message was bound to a row; less those whose own statements failed

hookVars == <<reported, inbox, recording, events, answered>>

Applied == [wamid : Wamids, status : Receipts, matched : BOOLEAN]

HookInit ==
  /\ reported = [m \in Wamids |-> {}]
  /\ inbox = {}
  /\ recording = {}
  /\ events = [e \in Wamids \X Receipts |-> "absent"]
  /\ answered = {}

HookTypeOK ==
  /\ reported \in [Wamids -> SUBSET Receipts]
  /\ inbox \subseteq Wamids \X Receipts
  /\ recording \subseteq Applied
  /\ events \in [Wamids \X Receipts -> {"absent", "unmatched", "matched"}]
  /\ answered \subseteq Wamids \X Receipts

----------------------------------------------------------------------------
(* Meta.                                                                   *)

\* What Meta may report of message m, given what it has reported so far.
MayReport(m, s) ==
  /\ sent[m] # NoJob
  /\ s \in Reportable[m] \ reported[m]
  /\ s = "read" => "delivered" \in reported[m]
  /\ s = "failed" => reported[m] \cap {"delivered", "read"} = {}
  /\ s \in {"delivered", "read"} => "failed" \notin reported[m]

MetaReports(m, s) ==
  /\ MayReport(m, s)
  /\ reported' = [reported EXCEPT ![m] = @ \cup {s}]
  /\ UNCHANGED <<edgeVars, inbox, recording, events, answered>>

----------------------------------------------------------------------------
(* The handler and its goroutine.                                          *)

HasRow(m) == \E j \in Jobs : jobs[j].wamid = m

PostV1MetaWebhook(m, s) ==
  /\ s \in reported[m]
  /\ <<m, s>> \notin inbox
  /\ inbox' = inbox \cup {<<m, s>>}
  /\ answered' = IF HasRow(m) THEN answered \cup {<<m, s>>} ELSE answered
  /\ UNCHANGED <<edgeVars, reported, recording, events>>

\* UpdateJobMonotonic; an error is logged and counts as no match.
ApplyReceipt(m, s) ==
  /\ <<m, s>> \in inbox
  /\ inbox' = inbox \ {<<m, s>>}
  /\ \E matched \in BOOLEAN :
       /\ recording' = recording \cup {[wamid |-> m, status |-> s, matched |-> matched]}
       /\ \/ /\ matched = (Below(jobs, m, statusLevels[s]) # {})
             /\ jobs' = UpdateJobMonotonic(jobs, m, s, statusLevels[s])
             /\ UNCHANGED <<faults, answered>>
          \/ ~matched /\ Fault /\ answered' = answered \ {<<m, s>>} /\ UNCHANGED jobs
  /\ UNCHANGED <<sent, reported, events>>

\* InsertWebhookEvent; idempotency_key is UNIQUE, so a second insert fails.
RecordEvent(r) ==
  /\ r \in recording
  /\ recording' = recording \ {r}
  /\ LET key == <<r.wamid, r.status>>
     IN  \/ /\ events[key] = "absent"
            /\ events' = [events EXCEPT ![key] = IF r.matched THEN "matched" ELSE "unmatched"]
            /\ UNCHANGED <<faults, answered>>
         \/ events[key] # "absent" /\ UNCHANGED <<events, faults, answered>>
         \/ Fault /\ answered' = answered \ {key} /\ UNCHANGED events
  /\ UNCHANGED <<jobs, sent, reported, inbox>>

HookNext ==
  \/ \E m \in Wamids, s \in Receipts :
       MetaReports(m, s) \/ PostV1MetaWebhook(m, s) \/ ApplyReceipt(m, s)
  \/ \E r \in recording : RecordEvent(r)

=============================================================================
