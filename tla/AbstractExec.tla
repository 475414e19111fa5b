---------------------------- MODULE AbstractExec ----------------------------
(***************************************************************************)
(* What Database::exec promises its callers (spec 4.2), with none of the  *)
(* engine's answers or retries: a call on a query producing the rows      *)
(* 1..nrows, with a limit and a reverse flag, either returns the first    *)
(* `limit` of those rows (all of them when limit <= 0), reversed when     *)
(* asked and no result when there are none; or returns no result because *)
(* the statement violated a constraint; or ends the process.  It always  *)
(* does one of them, once.                                                 *)
(***************************************************************************)
EXTENDS Integers, Sequences, SequencesExt

CONSTANTS
    MaxRows,            \* the most rows a query produces
    Limits,             \* the limit arguments of the callers
    ConstraintPossible  \* the statement may violate a constraint

VARIABLES
    status,   \* "running", "returned" or "died"
    result,   \* the ResultSet returned, [valid |-> FALSE] for none
    nrows,    \* the rows the query produces
    limit,
    reverse

vars == <<status, result, nrows, limit, reverse>>

NoResult == [valid |-> FALSE, data |-> <<>>]

\* The rows one uninterrupted run of the query returns.
Answer(n, l, r) ==
    LET k     == IF l > 0 /\ l < n THEN l ELSE n
        taken == [i \in 1..k |-> i]
    IN  IF k = 0 THEN NoResult
        ELSE [valid |-> TRUE, data |-> IF r THEN Reverse(taken) ELSE taken]

Init ==
    /\ status = "running"
    /\ result = NoResult
    /\ nrows \in 0..MaxRows
    /\ limit \in Limits
    /\ reverse \in BOOLEAN

Return ==
    /\ status = "running"
    /\ status' = "returned"
    /\ result' = Answer(nrows, limit, reverse)
    /\ UNCHANGED <<nrows, limit, reverse>>

Reject ==
    /\ ConstraintPossible
    /\ status = "running"
    /\ status' = "returned"
    /\ result' = NoResult
    /\ UNCHANGED <<nrows, limit, reverse>>

Die ==
    /\ status = "running"
    /\ status' = "died"
    /\ UNCHANGED <<result, nrows, limit, reverse>>

Next == Return \/ Reject \/ Die

\* A call does not hang: it returns or the process dies.
Spec == Init /\ [][Next]_vars /\ WF_vars(Next)

=============================================================================
