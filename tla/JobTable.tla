------------------------------ MODULE JobTable ------------------------------
(***************************************************************************)
(* The jobs table of the local SQLite database: what a row holds, as far   *)
(* as the message life cycle tells rows apart, and the effect on the table *)
(* of each statement of internal/db/repository.go that writes it.          *)
(*                                                                         *)
(* A statement is an operator from a table to a table.  The database has   *)
(* one writer connection, so a statement is atomic; which statement runs   *)
(* when, and what is read before it, is left to the modules that use them. *)
(***************************************************************************)
EXTENDS Naturals

CONSTANTS
  Jobs,      \* job identities (ULIDs)
  Wamids,    \* message identities that Meta hands out
  NoWamid    \* NULL in column meta_message_id

ASSUME NoWamidAssumption == NoWamid \notin Wamids

----------------------------------------------------------------------------
(***************************************************************************)
(* Rows.  The status "absent" stands for a job that has no row yet.  The   *)
(* status "failed" is written with level 6 by MarkJobFailed and with level *)
(* 3 by a receipt from Meta.                                               *)
(***************************************************************************)

\* The statuses a receipt can carry, and the level each is applied with.
Receipts == {"sent", "delivered", "read", "failed"}
statusLevels == [s \in Receipts |-> CASE s = "sent"      -> 3
                                      [] s = "delivered" -> 4
                                      [] s = "read"      -> 5
                                      [] s = "failed"    -> 3]

Statuses == {"absent", "queued", "processing", "accepted"} \cup Receipts

Row == [status : Statuses, level : 0..6, wamid : Wamids \cup {NoWamid}]

EmptyTable == [j \in Jobs |-> [status |-> "absent", level |-> 0, wamid |-> NoWamid]]

----------------------------------------------------------------------------
(* The statements.                                                         *)

UpdateJobStatus(t, j, s, l) == [t EXCEPT ![j].status = s, ![j].level = l]

InsertJob(t, j) == UpdateJobStatus(t, j, "queued", 0)

\* Mutant: the row is selected but not marked.
ClaimNextJobUnmarked(t, j) == UpdateJobStatus(t, j, "queued", 0)

ClaimNextJob(t, j) == UpdateJobStatus(t, j, "processing", 1)

RequeueWithJitter(t, j) == UpdateJobStatus(t, j, "queued", 0)

\* Mutant: the level is counted up instead of set.
MarkJobFailedCounting(t, j) == UpdateJobStatus(t, j, "failed", t[j].level + 6)

MarkJobFailed(t, j) == UpdateJobStatus(t, j, "failed", 6)

\* Mutant: the WHERE clause names the status and not the id.
SetJobMetaIDByStatus(t, j, m) ==
  [k \in Jobs |-> IF t[k].status = "processing" THEN [t[k] EXCEPT !.wamid = m] ELSE t[k]]

SetJobMetaID(t, j, m) == [t EXCEPT ![j].wamid = m]

\* Mutant: only the next level is accepted.
BelowNextOnly(t, m, l) == {j \in Jobs : t[j].wamid = m /\ t[j].level + 1 = l}

\* The rows that UPDATE ... WHERE meta_message_id = m AND status_level < l
\* changes; the statement reports whether there was one.
Below(t, m, l) == {j \in Jobs : t[j].wamid = m /\ t[j].level < l}

\* Mutant: the level is not compared.
UpdateJobUngated(t, m, s, l) ==
  [j \in Jobs |-> IF t[j].wamid = m THEN [t[j] EXCEPT !.status = s, !.level = l] ELSE t[j]]

UpdateJobMonotonic(t, m, s, l) ==
  [j \in Jobs |-> IF j \in Below(t, m, l)
                  THEN [t[j] EXCEPT !.status = s, !.level = l]
                  ELSE t[j]]

=============================================================================
