------------------------------ MODULE Janitor ------------------------------
(***************************************************************************)
(* The janitor (internal/engine/janitor.go): every minute it selects the   *)
(* events that matched no job and tries to apply them again.  Its stale    *)
(* detector only logs.                                                     *)
(***************************************************************************)
EXTENDS MetaWebhook

\* The parser is a placeholder: it finds no message id in any payload.
parseWebhookDummy(e) == [wamid |-> NoWamid, status |-> "", level |-> 0]

\* parkAndSweep, for one event.  Update and mark are two statements, and are
\* one step here because the parser lets no event get that far.
ParkAndSweep(e) ==
  /\ events[e] = "unmatched"
  /\ LET parsed == parseWebhookDummy(e)
     IN  IF parsed.wamid = NoWamid
         THEN UNCHANGED <<jobs, events>>
         ELSE /\ jobs' = UpdateJobMonotonic(jobs, parsed.wamid, parsed.status, parsed.level)
              /\ events' = [events EXCEPT ![e] =
                   IF Below(jobs, parsed.wamid, parsed.level) # {} THEN "matched" ELSE @]
  /\ UNCHANGED <<sent, faults, reported, inbox, recording, answered>>

=============================================================================
