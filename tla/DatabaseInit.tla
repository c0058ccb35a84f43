---------------------------- MODULE DatabaseInit ----------------------------
(***************************************************************************)
(* The start of the process up to the open database (InitDB of             *)
(* internal/db/db.go).  schema.sql is executed as a whole, which gives     *)
(* table jobs its present columns only if there was no such table; a table *)
(* of an older release then gets the column it lacks by a migration that   *)
(* looks before it alters.  One action is one statement, and an error of   *)
(* any of them ends the process.                                           *)
(*                                                                         *)
(* The indexes are left out: they never fail and change no answer (and     *)
(* schema.sql has already made the one that the second migration makes).   *)
(***************************************************************************)
VARIABLES
  pc,          \* the process: "down", a step of its start, or "up"
  jobsTable    \* table jobs: "none", "old" (no meta_error_message) or "new"

InitSteps == {"schema", "check", "alter"}

\* A new file, or one of a release before the migration.
InitDBInit == pc = "down" /\ jobsTable \in {"none", "old"}

----------------------------------------------------------------------------
\* The process is started.
Open ==
  /\ pc = "down"
  /\ pc' = "schema"
  /\ UNCHANGED jobsTable

\* CREATE TABLE IF NOT EXISTS.
ExecSchema ==
  /\ pc = "schema"
  /\ pc' = "check"
  /\ jobsTable' = IF jobsTable = "none" THEN "new" ELSE jobsTable

\* Mutant: the column is added without looking.
CheckNothing ==
  /\ pc = "check"
  /\ pc' = "alter"
  /\ UNCHANGED jobsTable

\* pragma_table_info; "fetch" is the step that follows InitDB in main.go.
CheckColumn ==
  /\ pc = "check"
  /\ pc' = IF jobsTable = "old" THEN "alter" ELSE "fetch"
  /\ UNCHANGED jobsTable

\* ALTER TABLE; an error (duplicate column) is fatal.
AddColumn ==
  /\ pc = "alter"
  /\ jobsTable' = "new"
  /\ pc' = IF jobsTable = "old" THEN "fetch" ELSE "down"

InitDB == Open \/ ExecSchema \/ CheckColumn \/ AddColumn

=============================================================================
