----------------------------- MODULE MetaClient -----------------------------
(***************************************************************************)
(* How an exchange with Meta is judged (internal/engine/meta_client.go):   *)
(* the error that SendMessage makes of what comes back, the two questions  *)
(* asked of an error, and what the worker does next.  HTTP statuses and    *)
(* codes are represented by those that the questions tell apart.           *)
(***************************************************************************)
EXTENDS Naturals

\* An error with what is known of the answer: a MetaAPIError has the status of
\* the answer, and the code its body gives (0 if it gives none).  All others (no
\* connection, 15 seconds passed, a body that is no answer, a payload that is
\* no JSON) are OtherError.
MetaAPIError(status, code) == [api |-> TRUE, status |-> status, code |-> code]
OtherError == [api |-> FALSE, status |-> 0, code |-> 0]

Codes == {0, 100, 131048}

\* Meta has refused the message, or it is not known to have arrived.
Refusals == {MetaAPIError(s, c) : s \in {400, 401, 429}, c \in Codes}
Failures == {OtherError} \cup {MetaAPIError(s, c) : s \in {500, 503}, c \in Codes}

IsTransientError(err) == err.api => err.status >= 500
IsPolicyError(err)    == err.api /\ (err.status = 400 \/ err.code = 131048)

\* The place in workerLoop where a worker goes on after an error.
AfterError(err) ==
  CASE IsTransientError(err)                        -> "requeue"
    [] ~IsTransientError(err) /\ IsPolicyError(err) -> "failAndPause"
    [] OTHER                                        -> "fail"

=============================================================================
