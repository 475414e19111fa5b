------------------------------ MODULE SleepLog ------------------------------
(***************************************************************************)
(* ash_sleep (AshSleep) writing its diagnostics through LOG (Logger): the *)
(* backoff exec and prepare_stmt take between two tries of a statement.   *)
(* Every LOG statement of ash_sleep is a temporary Logger, constructed,   *)
(* streamed into and destroyed before the next statement runs, and a      *)
(* Logger that cannot stamp its line ends the process with LOG(FATAL).     *)
(* A step of ash_sleep appends the levels of the LOG statements it runs   *)
(* to the Logger's program; the Logger then runs them before ash_sleep    *)
(* goes on.  Logger's Return is ash_sleep returning to its caller.        *)
(***************************************************************************)
EXTENDS Integers, Sequences

CONSTANTS
    RetriesCfg, FailMsCfg, RandomMsCfg, MsPerSec,
    Levels, ClockOk, FmtOk, LogLevels, NoValue, MaxCalls, MaxDepth

VARIABLES
    pc, ms, attempts, toSleep, remaining, elapsed, broke, diag,
    calls, next, clock, fmt, logLevel, stack, records, exited

sleepVars == <<pc, ms, attempts, toSleep, remaining, elapsed, broke, diag>>
logVars == <<calls, next, clock, fmt, logLevel, stack, records, exited>>
vars == <<sleepVars, logVars>>

S == INSTANCE AshSleep
L == INSTANCE Logger

\* The Logger has run every statement logged so far and the process lives.
Quiet == L!Running /\ stack = <<>> /\ next > Len(calls)

\* ash_sleep runs LOG statements of these levels, in this order.
Log(levels) ==
    /\ Quiet
    /\ calls' = calls \o levels
    /\ UNCHANGED <<next, clock, fmt, logLevel, stack, records, exited>>

\* LOG(DEBUG) "slept (...)" when to_sleep takes the remaining time.
Resumed == IF toSleep' # toSleep THEN <<"DEBUG">> ELSE <<>>

Init ==
    /\ S!Init
    /\ calls = <<>>
    /\ next = 1
    /\ clock \in ClockOk
    /\ fmt \in FmtOk
    /\ logLevel \in LogLevels
    /\ stack = <<>>
    /\ records = <<>>
    /\ exited = NoValue

\* LOG(INFO) "Sleeping N milliseconds." comes before `if (ms == 0) return;`.
BeginZero == S!BeginZero /\ Log(<<"INFO">>)
BeginSleep == S!BeginSleep /\ Log(<<"INFO">>)

\* rval 0 logs nothing; EINTR logs an ERROR.
SleepFull == S!SleepFull /\ Log(Resumed)
SleepInterrupted == S!SleepInterrupted /\ Log(<<"ERROR">> \o Resumed)

\* The break's WARNING, "Slept N milliseconds." and the two post-loop
\* errors.
LeaveLoop ==
    /\ S!LeaveLoop
    /\ Log(  (IF broke' THEN <<"WARNING">> ELSE <<>>)
          \o <<"INFO">>
          \o (IF "failed" \in diag' THEN <<"ERROR">> ELSE <<>>)
          \o (IF "major" \in diag' THEN <<"ERROR">> ELSE <<>>))

\* A step of the Logger running a statement.
LoggerStep ==
    /\ \/ L!Call \/ L!CtorNoClock \/ L!CtorBadFmt \/ L!CtorOk \/ L!Destroy
    /\ UNCHANGED sleepVars

\* ash_sleep returns to exec or prepare_stmt, which retries.
Return == pc = "done" /\ L!Return /\ UNCHANGED sleepVars

Next ==
    \/ BeginZero \/ BeginSleep \/ SleepFull \/ SleepInterrupted \/ LeaveLoop
    \/ LoggerStep \/ Return

Spec == Init /\ [][Next]_vars

-----------------------------------------------------------------------------
(* Properties *)

\* ash_sleep never sleeps longer than sleep_attempts times the delay,
\* garbage in the uninitialised `remaining` and late interruptions
\* notwithstanding.
SleepBounded == S!SleepBounded

\* A Logger that cannot stamp its line reports it with a nested LOG(FATAL),
\* which never reports its own failure: at most two Loggers are alive.
RecursionBounded == L!RecursionBounded

=============================================================================
