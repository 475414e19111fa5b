------------------------------- MODULE Logger -------------------------------
(***************************************************************************)
(* The diagnostics sink of src/src/logger.cpp: LOG(level) constructs a    *)
(* temporary Logger, whose constructor writes the prefix (the time from   *)
(* localtime and strftime, when they work), the message is streamed into  *)
(* it, and its destructor ends the line and, for FATAL, calls exit(1).    *)
(* A constructor that cannot get the time logs a FATAL message itself,    *)
(* unless it is a FATAL Logger, which writes its prefix without the time. *)
(*                                                                         *)
(* A program is a sequence of LOG calls; the Loggers alive form a stack.  *)
(* localtime failing and ASH_CFG_LOG_DATE_FMT being rejected by strftime  *)
(* are properties of the host and configuration, fixed for a run.         *)
(***************************************************************************)
EXTENDS Integers, Sequences, SequencesExt

CONSTANTS
    Levels,     \* the Severity values a call site uses
    ClockOk,    \* the values localtime's success may take
    FmtOk,      \* the values strftime's success with LOG_DATE_FMT may take
    LogLevels,  \* the values get_string("LOG_LEVEL", "DEBUG") may return
    NoValue,
    MaxCalls,   \* LOG calls in a program
    MaxDepth    \* Loggers alive at once (the call stack)

ASSUME /\ "FATAL" \in Levels
       /\ ClockOk \subseteq BOOLEAN /\ FmtOk \subseteq BOOLEAN
       /\ MaxCalls \in Nat /\ MaxDepth \in Nat

VARIABLES
    calls,     \* the levels of the program's LOG calls
    next,      \* the next call
    clock,     \* localtime returns non-NULL
    fmt,       \* strftime with the date format returns non-zero
    logLevel,  \* ASH_CFG_LOG_LEVEL, "DEBUG" when unset
    stack,     \* the Loggers alive, innermost last: level, message, pc
    records,   \* the lines written: level, message, time stamped or not
    exited     \* the exit status, NoValue while running

vars == <<calls, next, clock, fmt, logLevel, stack, records, exited>>

Init ==
    /\ calls \in BoundedSeq(Levels, MaxCalls)
    /\ next = 1
    /\ clock \in ClockOk
    /\ fmt \in FmtOk
    /\ logLevel \in LogLevels
    /\ stack = <<>>
    /\ records = <<>>
    /\ exited = NoValue

\* The Severity enum of logger.hpp, in its order.
Severity == <<"DEBUG", "INFO", "WARNING", "ERROR", "FATAL", "UNKNOWN">>

Rank(level) == CHOOSE i \in DOMAIN Severity : Severity[i] = level

\* parse: the level a LOG_LEVEL value names, UNKNOWN for any other text.
Parse(input) == IF \E i \in 1..5 : Severity[i] = input THEN input ELSE "UNKNOWN"

\* get_target, evaluated when the Logger's stream is opened: /dev/null
\* below the visible level, else ASH_CFG_LOG_FILE ("log").
GetTarget(level) ==
    IF Rank(level) < Rank(Parse(logLevel)) THEN "/dev/null" ELSE "log"

Running == exited = NoValue
Top == stack[Len(stack)]
SetTop(f) == [stack EXCEPT ![Len(stack)] = f]

\* A program statement `LOG(level) << message;`: a Logger is constructed.
Call ==
    /\ Running /\ stack = <<>> /\ next <= Len(calls)
    /\ stack' = <<[level |-> calls[next], msg |-> next, pc |-> "ctor",
                   stamped |-> FALSE, target |-> GetTarget(calls[next])]>>
    /\ next' = next + 1
    /\ UNCHANGED <<calls, clock, fmt, logLevel, records, exited>>

\* The program returns from main.
Return ==
    /\ Running /\ stack = <<>> /\ next > Len(calls)
    /\ exited' = 0
    /\ UNCHANGED <<calls, next, clock, fmt, logLevel, stack, records>>

\* A constructor that must report a failure with LOG(FATAL): the nested
\* Logger is constructed while this one waits.
Nest(reason) ==
    /\ Len(stack) < MaxDepth
    /\ stack' = Append(SetTop([Top EXCEPT !.pc = "nested"]),
                       [level |-> "FATAL", msg |-> reason, pc |-> "ctor",
                        stamped |-> FALSE, target |-> GetTarget("FATAL")])

\* The constructor returns with its prefix written.
Prefixed(stamped) ==
    stack' = SetTop([Top EXCEPT !.pc = "body", !.stamped = stamped])

\* localtime(&t) returns NULL.
CtorNoClock ==
    /\ Running /\ stack # <<>> /\ Top.pc = "ctor"
    /\ ~clock
    /\ IF Top.level # "FATAL" THEN Nest("localtime") ELSE Prefixed(FALSE)
    /\ UNCHANGED <<calls, next, clock, fmt, logLevel, records, exited>>

\* Mutant: the `level != FATAL` test of the strftime branch left out.
CtorBadFmtNoGuard ==
    /\ Running /\ stack # <<>> /\ Top.pc = "ctor"
    /\ clock /\ ~fmt
    /\ Nest("datefmt")
    /\ UNCHANGED <<calls, next, clock, fmt, logLevel, records, exited>>

\* strftime returns 0: the format is reported with LOG(FATAL), except by
\* a FATAL Logger ("avoids infinite recursion").
CtorBadFmt ==
    /\ Running /\ stack # <<>> /\ Top.pc = "ctor"
    /\ clock /\ ~fmt
    /\ IF Top.level # "FATAL" THEN Nest("datefmt") ELSE Prefixed(FALSE)
    /\ UNCHANGED <<calls, next, clock, fmt, logLevel, records, exited>>

\* The time is written before the session and level.
CtorOk ==
    /\ Running /\ stack # <<>> /\ Top.pc = "ctor"
    /\ clock /\ fmt
    /\ Prefixed(TRUE)
    /\ UNCHANGED <<calls, next, clock, fmt, logLevel, records, exited>>

\* The message is streamed and the temporary destroyed at the end of the
\* statement: `log << endl; log.close(); if (level == FATAL) exit(1);`.
Destroy ==
    /\ Running /\ stack # <<>> /\ Top.pc = "body"
    /\ records' = Append(records, [level |-> Top.level, msg |-> Top.msg,
                                   stamped |-> Top.stamped,
                                   target |-> Top.target])
    /\ exited' = IF Top.level = "FATAL" THEN 1 ELSE exited
    /\ stack' = Front(stack)
    /\ UNCHANGED <<calls, next, clock, fmt, logLevel>>

Next ==
    \/ Call \/ Return
    \/ CtorNoClock \/ CtorBadFmt \/ CtorOk \/ Destroy

Spec == Init /\ [][Next]_vars

-----------------------------------------------------------------------------
(* Properties *)

\* The constructor's LOG(FATAL) cannot recurse: a FATAL Logger never
\* reports its own failure, so at most one Logger is nested in another,
\* whatever the clock and the date format do.
RecursionBounded == Len(stack) <= 2

\* Only a FATAL message ends the process: a DEBUG..ERROR diagnostic, such
\* as a clock anomaly, is recorded and the program goes on.
OnlyFatalExits ==
    exited = 1 => \E i \in 1..(next - 1) : calls[i] = "FATAL"

\* get_target hides the lines below ASH_CFG_LOG_LEVEL; spec 4 has a FATAL
\* message recorded before the process ends, so whatever the level says,
\* a FATAL line goes to ASH_CFG_LOG_FILE.
FatalShown ==
    \A i \in DOMAIN records : records[i].level = "FATAL" => records[i].target = "log"

====
