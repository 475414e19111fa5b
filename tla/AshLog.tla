------------------------------- MODULE AshLog -------------------------------
(***************************************************************************)
(* The branches of _ash_log main (src/src/_ash_log.cpp) that a shell's    *)
(* hooks call over its lifetime: -S emits the session id, inserting a     *)
(* session when there is none; -c/-e/... logs a command into the session  *)
(* named by ASH_SESSION_ID; -E ends that session.  Each invocation is one *)
(* process with a fresh connection, and runs to completion: contention    *)
(* between processes is the subject of AshStore, so every statement here *)
(* reaches the engine.  The shell exports what -S prints as               *)
(* ASH_SESSION_ID (the integration scripts are not part of src/).         *)
(* The values of a Session, and whether the sessions table's NOT NULL     *)
(* constraints accept them, come from Session::Session (UnixMetadata) on  *)
(* the host the shell runs on.                                             *)
(***************************************************************************)
EXTENDS Integers, Sequences

CONSTANTS
    HasTty,        \* whether ttyname(0) names a terminal in this shell
    InheritedIds,  \* ASH_SESSION_ID values a new shell may inherit
    NoValue,       \* ASH_SESSION_ID unset
    MaxCalls,      \* invocations of _ash_log in one behaviour
    MaxTime,       \* the last second of the clock
    ProcFs, ShellNames, Addrs, Zones, MaxIfaces, Junk  \* see UnixMetadata

ASSUME /\ HasTty \in BOOLEAN
       /\ InheritedIds \subseteq Nat
       /\ MaxCalls \in Nat
       /\ MaxTime \in Nat

VARIABLES
    host,       \* the system the shell runs on
    sessions,   \* the sessions table: id -> its values, start_time,
                \* end_time and duration (Null until -E)
    commands,   \* the session_id column of each row of the commands table
    envId,      \* ASH_SESSION_ID in the shell's environment
    printed,    \* what the last invocation wrote to stdout if it was -S
    crashed,    \* an invocation died on a signal
    calls,      \* invocations so far
    now         \* ::time(0), in seconds

vars == <<host, sessions, commands, envId, printed, crashed, calls, now>>

U == INSTANCE UnixMetadata WITH session <- NoValue

\* The hosts of a shell with or without a terminal.
ShellHosts == {h \in U!Hosts : (h.tty # NoValue) = HasTty}

\* The NOT NULL columns of the sessions table (Session::register_table):
\* ppid, pid, start_time, uid and euid are rendered numbers; time_zone,
\* tty and shell are quoted text, null when empty or unknown.
SessionRowAccepted(v) ==
    /\ v.time_zone # U!Null
    /\ v.tty # U!Null
    /\ v.shell # U!Null

\* commands.tty is NOT NULL too, and is unix::tty of the same terminal.
CommandRowAccepted == U!TtyColumn(host) # U!Null

\* The ids of the rows of the sessions table.
Ids == DOMAIN sessions

\* "duration is null": the session has not been ended by -E.
Open(i) == sessions[i].duration = U!Null

\* The row Session::Session describes at second t: start_time is
\* unix::time(), end_time and duration are left null.
SessionRow(v, t) ==
    [values |-> v, start_time |-> t, end_time |-> U!Null, duration |-> U!Null]

\* sqlite's autoincrement: one more than the largest id used.
NewId == Len(sessions) + 1

Init ==
    /\ host \in ShellHosts
    /\ sessions = <<>>
    /\ commands = <<>>
    /\ envId \in {NoValue} \cup InheritedIds
    /\ printed = NoValue
    /\ crashed = FALSE
    /\ calls = 0
    /\ now = 0

\* Database::insert(&session) on a fresh connection: exec returns no result
\* on a constraint violation, and sqlite3_last_insert_rowid is then that
\* of the connection, 0.  The shell exports what is printed.
InsertSession ==
    \E v \in U!SessionValues(host) :
    IF SessionRowAccepted(v)
    THEN /\ sessions' = Append(sessions, SessionRow(v, now))
         /\ printed' = NewId
         /\ envId' = NewId
    ELSE /\ printed' = 0
         /\ envId' = 0
         /\ UNCHANGED sessions

\* -S with ASH_SESSION_ID set: "select count(*) ... where id = X and
\* duration is null" returns one row whatever the count, so `rs -> rows
\* != 1` never holds and X is printed back.
GetSessionIdKnown ==
    /\ calls < MaxCalls
    /\ envId # NoValue
    /\ printed' = envId
    /\ calls' = calls + 1
    /\ UNCHANGED <<host, sessions, commands, envId, crashed, now>>

\* -S with ASH_SESSION_ID unset: a new Session is inserted.
GetSessionIdNew ==
    /\ calls < MaxCalls
    /\ envId = NoValue
    /\ InsertSession
    /\ calls' = calls + 1
    /\ UNCHANGED <<host, commands, crashed, now>>

\* The command branch: Command::Command reads session_id with
\* unix::env_int, atoi(getenv("ASH_SESSION_ID")), which dereferences NULL
\* when the variable is unset; otherwise the row is inserted when tty is
\* known (commands.tty is NOT NULL too).
LogCommand ==
    /\ calls < MaxCalls
    /\ calls' = calls + 1
    /\ IF envId = NoValue
       THEN crashed' = TRUE /\ UNCHANGED commands
       ELSE /\ commands' = IF CommandRowAccepted
                            THEN Append(commands, envId) ELSE commands
            /\ UNCHANGED crashed
    /\ printed' = NoValue
    /\ UNCHANGED <<host, sessions, envId, now>>

\* Session::get_close_session_sql run on the sessions table: the UPDATE
\* sets end_time and duration of the row with id X, if there is one, from
\* two readings t1 and t2 of the clock.
CloseSessionSql(x, t1, t2) ==
    IF x \in Ids
    THEN [sessions EXCEPT ![x].end_time = t1,
                          ![x].duration = t2 - sessions[x].start_time]
    ELSE sessions

\* -E: with ASH_SESSION_ID unset only an error is logged; otherwise
\* "UPDATE sessions SET end_time = T1, duration = T2 - start_time WHERE id
\* == X", where T1 and T2 are two calls of unix::time() while the SQL is
\* put together, so the clock may pass a second between them.
EndSession ==
    /\ calls < MaxCalls
    /\ calls' = calls + 1
    /\ \E later \in {now, now + 1} \cap 0..MaxTime :
          /\ sessions' = CloseSessionSql(envId, now, later)
          /\ now' = later
    /\ printed' = NoValue
    /\ UNCHANGED <<host, commands, envId, crashed>>

\* Time passes between two invocations.  Not code: the clock.
Tick ==
    /\ now < MaxTime
    /\ now' = now + 1
    /\ UNCHANGED <<host, sessions, commands, envId, printed, crashed, calls>>

\* A new shell starts from the same environment (a subshell, a new window
\* of a terminal multiplexer): it inherits the exported ASH_SESSION_ID.
\* Not code: the caller of _ash_log.
NewShell ==
    /\ calls < MaxCalls
    /\ calls' = calls + 1
    /\ printed' = NoValue
    /\ UNCHANGED <<host, sessions, commands, envId, crashed, now>>

Next ==
    \/ GetSessionIdKnown \/ GetSessionIdNew
    \/ LogCommand \/ EndSession \/ NewShell \/ Tick

Spec == Init /\ [][Next]_vars

-----------------------------------------------------------------------------
(* Properties *)

\* What -S prints is the id of a row of the sessions table: the shell
\* logs its commands under it.
SessionIdNamesSession == printed # NoValue => printed \in Ids

\* -S "emits the session ID (or creates one)": the id it prints names a
\* session that has not ended, and a session id that is not found among
\* the open sessions is replaced by a new session (lines 115-119).
SessionIdIsOpen ==
    printed # NoValue => printed \in Ids /\ Open(printed)

\* Every row of the sessions table records the shell the session is of:
\* its pid, its parent's pid and its name, as Session::Session reads them
\* through /proc.
SessionRowsDescribeShell ==
    \A i \in Ids : U!DescribesShell(sessions[i].values, host)

\* The duration of an ended session is the time from its start to its
\* end_time: -E writes both from the same moment (session.cpp:103-104).
DurationIsElapsed ==
    \A i \in Ids : ~Open(i) =>
        sessions[i].duration = sessions[i].end_time - sessions[i].start_time

\* A session ends once: the end_time -E wrote is not rewritten by a later
\* -E of a shell that inherited or reused its id.
SessionEndKept ==
    [][\A i \in Ids : ~Open(i) => sessions'[i].end_time = sessions[i].end_time]_vars

====
