----------------------------- MODULE DBManager -----------------------------
(***************************************************************************)
(* What a caller of DBManager sees of one statement (DBManager.cs).  Every *)
(* call opens a connection of its own and runs one autocommitted statement *)
(* on it: calls of two threads interleave between statements and nothing   *)
(* keeps the answer of the last one true.                                  *)
(***************************************************************************)
CONSTANT Faults  \* what may go wrong: "noConnection", "sqlError" or both

ASSUME FaultsAssumption == Faults \subseteq {"noConnection", "sqlError"}

Outcomes == {"ok"} \cup Faults

\* OpenMariaDB runs before the try block: its exception reaches the caller.
Throws(outcome) == outcome = "noConnection"

\* Select answers an exception of the statement with a DataSet without tables:
\* what indexes its Tables[0] throws in turn.
HasTable(outcome) == outcome = "ok"

\* ExecuteQuery swallows an exception of the statement: the caller goes on as
\* if the table had changed.
ExecuteQuery(outcome, table, changed) == IF outcome = "ok" THEN changed ELSE table
=============================================================================
