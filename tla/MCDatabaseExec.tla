--------------------------- MODULE MCDatabaseExec ---------------------------
(* Bounds for checking DatabaseExec: DB_MAX_RETRIES set to 2 (small budgets
   that are still spent and exceeded), queries of up to 3 rows, and limits
   below, at and above the row count, including the unlimited 0 and -1. *)
EXTENDS DatabaseExec

MCLimits == {-1, 0, 2, 3}

=============================================================================
