---------------------------- MODULE DatabaseExec ----------------------------
(***************************************************************************)
(* Database::exec and Database::prepare_stmt of src/src/database.cpp: one *)
(* SQL text compiled and stepped to completion by one process.  The       *)
(* engine is not modelled as a database: each call answers with any code  *)
(* sqlite3_prepare_v2 / sqlite3_step may return at that point, and the    *)
(* query's rows are the numbers 1..nrows, so that order and duplication   *)
(* of rows stay visible.  BUSY stands for SQLITE_BUSY and SQLITE_LOCKED,  *)
(* which the code handles by the same case.  ash_sleep, called before     *)
(* every retry, does not touch this state and is modelled in AshSleep.    *)
(***************************************************************************)
EXTENDS Integers, Sequences, SequencesExt

CONSTANTS
    MaxRetriesCfg,      \* ASH_CFG_DB_MAX_RETRIES as get_int returns it (-1 if unset)
    MaxRows,            \* the most rows the query can produce
    Limits,             \* the limit arguments exec can be called with
    MidStreamBusy,      \* TRUE: the engine may answer BUSY after it produced rows
    ConstraintPossible  \* TRUE: the statement may violate a constraint (INSERT)

ASSUME /\ MaxRetriesCfg \in Int
       /\ MaxRows \in Nat
       /\ Limits \subseteq Int
       /\ MidStreamBusy \in BOOLEAN
       /\ ConstraintPossible \in BOOLEAN

VARIABLES
    pc,        \* "prepare" (inside prepare_stmt), "step" (the for loop), "done", "fatal"
    rc,        \* the last code sqlite3_step returned (local `result`)
    tries,     \* exec's retry budget
    ptries,    \* prepare_stmt's retry budget (a fresh one per call)
    stmts,     \* prepared statements not yet finalized
    cursor,    \* rows the current prepared statement has produced
    nrows,     \* rows the query produces (fixed by the store's contents)
    limit,     \* exec's limit argument
    reverse,   \* exec's reverse argument
    headers,   \* TRUE once the column names were captured
    results,   \* the row buffer (ResultSet::DataType results)
    rows,      \* loop counter `rows`
    fetched,   \* loop counter `fetched`
    rs         \* what exec returned: [valid |-> FALSE] is the null pointer

vars == <<pc, rc, tries, ptries, stmts, cursor, nrows, limit, reverse,
          headers, results, rows, fetched, rs>>

\* `if (max_retries <= 0) max_retries = 5;` in both prepare_stmt and exec.
MaxRetries == IF MaxRetriesCfg <= 0 THEN 5 ELSE MaxRetriesCfg

NoResult == [valid |-> FALSE, data |-> <<>>]

StepCodes == {"NONE", "ROW", "DONE", "CONSTRAINT", "BUSY", "ERROR"}

(***************************************************************************)
(* exec starts: `tries = max_retries + 1`, empty buffers, and the first   *)
(* call of prepare_stmt, whose own `tries = max_retries + 1`.  The query  *)
(* and the arguments are any the callers can pass.                        *)
(***************************************************************************)
Init ==
    /\ pc = "prepare"
    /\ rc = "NONE"
    /\ tries = MaxRetries + 1
    /\ ptries = MaxRetries + 1
    /\ stmts = 0
    /\ cursor = 0
    /\ nrows \in 0..MaxRows
    /\ limit \in Limits
    /\ reverse \in BOOLEAN
    /\ headers = FALSE
    /\ results = <<>>
    /\ rows = 0
    /\ fetched = 0
    /\ rs = NoResult

-----------------------------------------------------------------------------
(* prepare_stmt *)

\* sqlite3_prepare_v2 returns a statement: prepare_stmt returns it and exec
\* continues at try_sql, which resets fetched and, by the for init, rows.
PrepareOk ==
    /\ pc = "prepare"
    /\ stmts' = stmts + 1
    /\ cursor' = 0
    /\ fetched' = 0
    /\ rows' = 0
    /\ pc' = "step"
    /\ UNCHANGED <<rc, tries, ptries, nrows, limit, reverse, headers,
                   results, rs>>

\* Mutant: the `--tries > 0` test dropped, prepare retried without bound.
PrepareBusyRetryUnbounded ==
    /\ pc = "prepare"
    /\ ptries' = ptries - 1
    /\ UNCHANGED <<pc, rc, tries, stmts, cursor, nrows, limit, reverse,
                   headers, results, rows, fetched, rs>>

\* BUSY/LOCKED while preparing: `if (--tries > 0)` sleep and goto try_prepare.
PrepareBusyRetry ==
    /\ pc = "prepare"
    /\ ptries - 1 > 0
    /\ ptries' = ptries - 1
    /\ UNCHANGED <<pc, rc, tries, stmts, cursor, nrows, limit, reverse,
                   headers, results, rows, fetched, rs>>

\* BUSY/LOCKED with the budget spent: LOG(FATAL) exits the process.
PrepareBusyGiveUp ==
    /\ pc = "prepare"
    /\ ~(ptries - 1 > 0)
    /\ ptries' = ptries - 1
    /\ pc' = "fatal"
    /\ UNCHANGED <<rc, tries, stmts, cursor, nrows, limit, reverse,
                   headers, results, rows, fetched, rs>>

\* Any other error code: LOG(FATAL), no retry.
PrepareError ==
    /\ pc = "prepare"
    /\ pc' = "fatal"
    /\ UNCHANGED <<rc, tries, ptries, stmts, cursor, nrows, limit, reverse,
                   headers, results, rows, fetched, rs>>

-----------------------------------------------------------------------------
(* exec: the for loop over sqlite3_step *)

\* Mutant: `fetched <= limit`, one row too many.
LoopOpenOffByOne == fetched <= limit \/ limit <= 0

\* The loop condition `fetched < limit || limit <= 0`.
LoopOpen == fetched < limit \/ limit <= 0

\* The finalize label: finalize the statement, reverse the buffer when asked
\* and rows were fetched, return a ResultSet only if rows != 0.
Finalize ==
    /\ stmts' = stmts - 1
    /\ pc' = "done"
    /\ rs' = IF rows # 0
               THEN [valid |-> TRUE,
                     data  |-> IF reverse THEN Reverse(results) ELSE results]
               ELSE NoResult

\* SQLITE_ROW: capture headers on the first row, append the row.
StepRow ==
    /\ pc = "step"
    /\ LoopOpen
    /\ cursor < nrows
    /\ rc' = "ROW"
    /\ headers' = TRUE
    /\ results' = Append(results, cursor + 1)
    /\ cursor' = cursor + 1
    /\ fetched' = fetched + 1
    /\ rows' = rows + 1
    /\ UNCHANGED <<pc, tries, ptries, stmts, nrows, limit, reverse, rs>>

\* SQLITE_DONE: goto finalize.
StepDone ==
    /\ pc = "step"
    /\ LoopOpen
    /\ cursor = nrows
    /\ rc' = "DONE"
    /\ Finalize
    /\ UNCHANGED <<tries, ptries, cursor, nrows, limit, reverse, headers,
                   results, rows, fetched>>

\* SQLITE_CONSTRAINT (a write that produces no rows): goto finalize.
StepConstraint ==
    /\ ConstraintPossible
    /\ pc = "step"
    /\ LoopOpen
    /\ cursor = 0
    /\ rc' = "CONSTRAINT"
    /\ Finalize
    /\ UNCHANGED <<tries, ptries, cursor, nrows, limit, reverse, headers,
                   results, rows, fetched>>

\* The engine answers BUSY/LOCKED before the first row, or at any step when
\* MidStreamBusy holds.
CanBeBusy == MidStreamBusy \/ cursor = 0

\* Mutant: the statement is not finalized before it is prepared again.
StepBusyRetryNoFinalize ==
    /\ pc = "step"
    /\ LoopOpen
    /\ CanBeBusy
    /\ ~(tries <= 0)
    /\ rc' = "BUSY"
    /\ ptries' = MaxRetries + 1
    /\ tries' = tries - 1
    /\ pc' = "prepare"
    /\ UNCHANGED <<stmts, cursor, nrows, limit, reverse, headers, results,
                   rows, fetched, rs>>

\* Mutant: `--tries` forgotten on the retry path.
StepBusyRetryNoDecrement ==
    /\ pc = "step"
    /\ LoopOpen
    /\ CanBeBusy
    /\ ~(tries <= 0)
    /\ rc' = "BUSY"
    /\ stmts' = stmts - 1
    /\ ptries' = MaxRetries + 1
    /\ pc' = "prepare"
    /\ UNCHANGED <<tries, cursor, nrows, limit, reverse, headers, results,
                   rows, fetched, rs>>

\* SQLITE_BUSY/LOCKED with tries left: ash_sleep, finalize, prepare_stmt
\* again (a fresh budget), --tries, goto try_sql.  headers and results are
\* left as they are.
StepBusyRetry ==
    /\ pc = "step"
    /\ LoopOpen
    /\ CanBeBusy
    /\ ~(tries <= 0)
    /\ rc' = "BUSY"
    /\ stmts' = stmts - 1
    /\ ptries' = MaxRetries + 1
    /\ tries' = tries - 1
    /\ pc' = "prepare"
    /\ UNCHANGED <<cursor, nrows, limit, reverse, headers, results, rows,
                   fetched, rs>>

\* SQLITE_BUSY/LOCKED with `tries <= 0`: LOG(FATAL) exits the process.
StepBusyGiveUp ==
    /\ pc = "step"
    /\ LoopOpen
    /\ CanBeBusy
    /\ tries <= 0
    /\ rc' = "BUSY"
    /\ pc' = "fatal"
    /\ UNCHANGED <<tries, ptries, stmts, cursor, nrows, limit, reverse,
                   headers, results, rows, fetched, rs>>

\* Any other step code: finalize, then LOG(FATAL).
StepError ==
    /\ pc = "step"
    /\ LoopOpen
    /\ rc' = "ERROR"
    /\ stmts' = stmts - 1
    /\ pc' = "fatal"
    /\ UNCHANGED <<tries, ptries, cursor, nrows, limit, reverse, headers,
                   results, rows, fetched, rs>>

\* `fetched < limit` fails: the loop ends and control falls into finalize.
LimitReached ==
    /\ pc = "step"
    /\ ~LoopOpen
    /\ Finalize
    /\ UNCHANGED <<rc, tries, ptries, cursor, nrows, limit, reverse, headers,
                   results, rows, fetched>>

Next ==
    \/ PrepareOk \/ PrepareBusyRetry \/ PrepareBusyGiveUp \/ PrepareError
    \/ StepRow \/ StepDone \/ StepConstraint
    \/ StepBusyRetry \/ StepBusyGiveUp \/ StepError \/ LimitReached

\* One process runs exec without waiting on anything but the engine, which
\* always answers: the process is weakly fair.
Spec == Init /\ [][Next]_vars /\ WF_vars(Next)

-----------------------------------------------------------------------------
(* Properties *)

TypeOK ==
    /\ pc \in {"prepare", "step", "done", "fatal"}
    /\ rc \in StepCodes
    /\ tries \in -1..MaxRetries + 1
    /\ ptries \in 0..MaxRetries + 1
    /\ stmts \in Nat
    /\ cursor \in 0..nrows
    /\ results \in Seq(1..MaxRows)
    /\ headers \in BOOLEAN
    /\ rows \in Nat /\ fetched \in Nat
    /\ rs.valid \in BOOLEAN /\ rs.data \in Seq(1..MaxRows)

\* exec as the abstract call it implements: running while it prepares or
\* steps, then returned with rs, or dead after LOG(FATAL).
AbsExec == INSTANCE AbstractExec WITH
    status <- CASE pc \in {"prepare", "step"} -> "running"
                [] pc = "done"                -> "returned"
                [] pc = "fatal"               -> "died",
    result <- rs

\* What the spec says exec returns for a query producing 1..nrows: the first
\* `limit` rows when limit > 0, reversed after truncation when asked, and
\* no result for zero rows.
Expected == AbsExec!Answer(nrows, limit, reverse)

\* Contention is absorbed: whenever exec returns (other than on a constraint
\* violation), its result is what one uninterrupted run of the query with
\* the same limit and reverse gives, however many BUSY/LOCKED answers to
\* prepare and step were retried on the way (the retry path of exec, the
\* limit test of the for loop and the reversal at finalize).
RetriesInvisible ==
    pc = "done" /\ rc # "CONSTRAINT" => rs = Expected

\* exec implements the call its callers rely on (spec 4.2): through every
\* interleaving of BUSY/LOCKED answers to prepare and step, retries and
\* give-ups, it returns once, with the rows of one uninterrupted run or no
\* result on a constraint violation, or ends the process; and it always
\* does one of them, because every retry loop of prepare_stmt and exec is
\* bounded by its tries counter.
ImplementsAbstractExec == AbsExec!Spec

\* At most one prepared statement is alive at a time, and none once exec
\* returned: the retry path finalizes before preparing again.
StatementsReleased ==
    /\ stmts <= 1
    /\ pc = "done" => stmts = 0

\* The retry budget of the step loop is the configured DB_MAX_RETRIES, as
\* in prepare_stmt and as the "Gave up after <max_retries> failures" message
\* says: exec never absorbs more BUSY/LOCKED step answers than that.
StepRetryBudget == (MaxRetries + 1) - tries <= MaxRetries

=============================================================================
