------------------------------ MODULE AshSleep ------------------------------
(***************************************************************************)
(* ash_sleep of src/src/database.cpp: the backoff taken before every      *)
(* retry of prepare_stmt and exec.  Time is counted in model units, with  *)
(* MsPerSec units to a second: the code only depends on how a duration    *)
(* splits into tv_sec and tv_nsec and on comparisons between them.        *)
(* clock_nanosleep either sleeps the whole request (rval 0, `remaining`   *)
(* not written) or is interrupted (EINTR, `remaining` written).  The      *)
(* struct `remaining` is uninitialised until the first EINTR: its content *)
(* is any pair, including out-of-range nanoseconds (MsPerSec stands for   *)
(* "above 999999999", -1 for negative).                                   *)
(***************************************************************************)
EXTENDS Integers

CONSTANTS
    RetriesCfg,    \* get_int("DB_MAX_RETRIES", -1)
    FailMsCfg,     \* get_int("DB_FAIL_TIMEOUT", -1)
    RandomMsCfg,   \* get_int("DB_FAIL_RANDOM_TIMEOUT", -1)
    MsPerSec       \* model units in one second

ASSUME /\ {RetriesCfg, FailMsCfg, RandomMsCfg} \subseteq Int
       /\ MsPerSec \in Nat \ {0}

VARIABLES
    pc,         \* "begin", "sleep" (the while loop), "done"
    ms,         \* the delay chosen
    attempts,   \* sleep_attempts
    toSleep,    \* to_sleep as [sec, nsec]
    remaining,  \* remaining as [sec, nsec]
    elapsed,    \* monotonic time slept so far
    broke,      \* the "Sleep break triggered" warning was logged
    diag        \* the errors logged by the checks after the loop

vars == <<pc, ms, attempts, toSleep, remaining, elapsed, broke, diag>>

\* The defaults: `if (x < 0) x = default;` for each configured value.
Retries  == IF RetriesCfg < 0 THEN 5 ELSE RetriesCfg
FailMs   == IF FailMsCfg < 0 THEN 0 ELSE FailMsCfg
RandomMs == IF RandomMsCfg < 0 THEN 0 ELSE RandomMsCfg

\* `rand() % random_ms` when random_ms > 0, nothing otherwise.
Jitters == IF RandomMs > 0 THEN 0..RandomMs - 1 ELSE {0}

Split(d) == [sec |-> d \div MsPerSec, nsec |-> d % MsPerSec]
Dur(t) == t.sec * MsPerSec + t.nsec

\* What an uninitialised struct timespec may hold.
Garbage == [sec : {0, 1}, nsec : {-1} \cup 0..MsPerSec]

\* What EINTR may leave in `remaining`: a positive part of the request.
Remainders(t) == {Split(d) : d \in 1..Dur(t)}

\* `while (to_sleep.tv_sec || to_sleep.tv_nsec)`
TimeLeft == toSleep.sec # 0 \/ toSleep.nsec # 0

\* Mutant: the `remaining.tv_nsec < to_sleep.tv_nsec` test dropped.
ResumeWithAnyRemaining(t, r) ==
    IF r.sec = 0 /\ r.nsec > 0 /\ r.nsec <= MsPerSec - 1 THEN r ELSE t

\* "If there is any time remaining, prepare to sleep again": to_sleep
\* becomes remaining only when remaining is a sub-second amount smaller
\* than to_sleep's nanoseconds.
Resume(t, r) ==
    IF /\ r.sec = 0
       /\ r.nsec > 0
       /\ r.nsec <= MsPerSec - 1
       /\ r.nsec < t.nsec
    THEN r ELSE t

Init ==
    /\ pc = "begin"
    /\ ms = 0
    /\ attempts = 0
    /\ toSleep = Split(0)
    /\ remaining = Split(0)
    /\ elapsed = 0
    /\ broke = FALSE
    /\ diag = {}

\* The delay is fail_ms plus the jitter; `if (ms == 0) return;`.
BeginZero ==
    /\ pc = "begin"
    /\ \E j \in Jitters : FailMs + j = 0
    /\ pc' = "done"
    /\ UNCHANGED <<ms, attempts, toSleep, remaining, elapsed, broke, diag>>

\* Otherwise sleep_attempts = retries * 2 and to_sleep = ms, while remaining
\* holds whatever the stack held.
BeginSleep ==
    /\ pc = "begin"
    /\ \E j \in Jitters :
         /\ FailMs + j # 0
         /\ ms' = FailMs + j
         /\ toSleep' = Split(FailMs + j)
    /\ attempts' = Retries * 2
    /\ remaining' \in Garbage
    /\ pc' = "sleep"
    /\ UNCHANGED <<elapsed, broke, diag>>

\* A duration in milliseconds, as `slept` computes it from two timespecs.
Millis(d) == (d * 1000) \div MsPerSec

\* The checks after the loop: the CLOCK_MONOTONIC time slept against the
\* delay, "Failed to sleep" below it and "Major clock problem" above
\* (ms + 1) * 100 milliseconds.
PostLoopErrors(delay, slept) ==
    {e \in {"failed", "major"} :
        \/ e = "failed" /\ Millis(delay) > Millis(slept)
        \/ e = "major" /\ Millis(slept) > (Millis(delay) + 1) * 100}

\* The loop ends: by its condition, or by the break once sleep_attempts is
\* 0, which logs the warning; then the time slept is checked.
LeaveLoop ==
    /\ pc = "sleep"
    /\ ~(TimeLeft /\ attempts # 0)
    /\ broke' = TimeLeft
    /\ diag' = PostLoopErrors(ms, elapsed)
    /\ pc' = "done"
    /\ UNCHANGED <<ms, attempts, toSleep, remaining, elapsed>>

\* Mutant: the `sleep_attempts == 0` break dropped.
SleepFullUnguarded ==
    /\ pc = "sleep"
    /\ TimeLeft
    /\ attempts' = attempts - 1
    /\ elapsed' = elapsed + Dur(toSleep)
    /\ toSleep' = Resume(toSleep, remaining)
    /\ UNCHANGED <<pc, ms, remaining, broke, diag>>

\* clock_nanosleep returns 0 after the whole request: remaining is not
\* written, and to_sleep is updated from what it holds.
SleepFull ==
    /\ pc = "sleep"
    /\ TimeLeft /\ attempts # 0
    /\ attempts' = attempts - 1
    /\ elapsed' = elapsed + Dur(toSleep)
    /\ toSleep' = Resume(toSleep, remaining)
    /\ UNCHANGED <<pc, ms, remaining, broke, diag>>

\* clock_nanosleep returns EINTR: remaining is written with what is left.
SleepInterrupted ==
    /\ pc = "sleep"
    /\ TimeLeft /\ attempts # 0
    /\ attempts' = attempts - 1
    /\ \E r \in Remainders(toSleep) :
         /\ remaining' = r
         /\ elapsed' = elapsed + Dur(toSleep) - Dur(r)
         /\ toSleep' = Resume(toSleep, r)
    /\ UNCHANGED <<pc, ms, broke, diag>>

Next == BeginZero \/ BeginSleep \/ LeaveLoop \/ SleepFull \/ SleepInterrupted

Spec == Init /\ [][Next]_vars

-----------------------------------------------------------------------------
(* Properties *)

TypeOK ==
    /\ pc \in {"begin", "sleep", "done"}
    /\ ms \in Nat
    /\ attempts \in 0..Retries * 2
    /\ toSleep \in [sec : Nat, nsec : 0..MsPerSec - 1]
    /\ remaining \in [sec : Nat, nsec : -1..MsPerSec]
    /\ elapsed \in Nat
    /\ broke \in BOOLEAN
    /\ diag \subseteq {"failed", "major"}

\* ash_sleep never sleeps longer than sleep_attempts times the delay: the
\* resume test keeps garbage read from the uninitialised `remaining` and
\* late interruptions from lengthening to_sleep, and every pass of the
\* loop spends an attempt.
SleepBounded == elapsed <= Retries * 2 * ms

\* The spec (4.3) has ash_sleep sleep the delay, resume an interrupted
\* sleep with what is left, and only ever under-delay: it never sleeps
\* longer than the delay it chose.
NeverOversleeps == pc = "done" => elapsed <= ms

\* After the loop, ash_sleep logs "Failed to sleep" when less than the
\* delay was slept, and its comment says "This should never happen because
\* of the while loop above": the whole delay is slept before the caller
\* retries.
SleepsWholeDelay == pc = "done" => elapsed >= ms

\* "Major clock problem detected" reports a CLOCK_MONOTONIC that ran far
\* past the request (spec 4.3: a deviation of more than 100x the delay);
\* with a clock that keeps time, as here, it is never logged.
NoFalseClockAlarm == "major" \notin diag

=============================================================================
