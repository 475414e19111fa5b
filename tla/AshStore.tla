------------------------------ MODULE AshStore ------------------------------
(***************************************************************************)
(* Concurrent _ash_log processes logging a command into one history file. *)
(* Each process runs main's command branch (src/src/_ash_log.cpp): it     *)
(* constructs a Database (stat, create the file, count the registered     *)
(* tables, init_db when some are missing), inserts its Command through    *)
(* exec, and destroys the Database, which closes the connection.          *)
(*                                                                         *)
(* The store is SQLite in its default rollback-journal mode, without a    *)
(* busy timeout (the code sets none), abstracted to what the code can     *)
(* observe:                                                                *)
(*  - a connection in a transaction holds a SHARED lock; a connection     *)
(*    that wrote holds the one RESERVED lock; a write by another          *)
(*    connection answers SQLITE_BUSY;                                      *)
(*  - a commit needs every other connection out of its transaction, and   *)
(*    answers SQLITE_BUSY otherwise (the EXCLUSIVE lock is refused);      *)
(*  - a failed statement inside BEGIN ... leaves the transaction open,    *)
(*    and closing a connection rolls its open transaction back;           *)
(*  - a connection sees the committed schema and rows plus its own        *)
(*    uncommitted ones (no commit can happen while it holds SHARED).      *)
(* A statement that only reads in autocommit mode holds no lock across    *)
(* steps.  Rows are identified by the process that inserted them.         *)
(***************************************************************************)
EXTENDS Integers, FiniteSets, Sequences

CONSTANTS
    Procs,          \* the _ash_log processes
    NoOwner,        \* no process holds the RESERVED lock
    MaxRetriesCfg,  \* ASH_CFG_DB_MAX_RETRIES as get_int returns it
    InitialFile     \* "absent", "empty" (created, no tables) or "ready"

ASSUME /\ NoOwner \notin Procs
       /\ MaxRetriesCfg \in Int
       /\ InitialFile \in {"absent", "empty", "ready"}

\* The tables registered by Session::register_table and
\* Command::register_table, in registration order.
Registered == <<"sessions", "commands">>
Tables == {Registered[i] : i \in 1..2}

MaxRetries == IF MaxRetriesCfg <= 0 THEN 5 ELSE MaxRetriesCfg

EmptyDb == [tables |-> {}, rows |-> {}]

VARIABLES
    file,       \* "absent" or "present"
    committed,  \* the committed database: [tables, rows]
    reserved,   \* holder of the RESERVED lock, or NoOwner
    conn,       \* per process: [txn, explicit, tables, rows] (uncommitted)
    pc,         \* per process: where main is
    tries,      \* per process: exec's tries counter
    idx,        \* per process: the CREATE statement init_db's script is at
    logged      \* rows that were committed at some point (history)

vars == <<file, committed, reserved, conn, pc, tries, idx, logged>>

NoConn == [txn |-> "none", explicit |-> FALSE, tables |-> {}, rows |-> {}]

\* What process p's connection sees.
ViewTables(p) == committed.tables \cup conn[p].tables

\* Another connection is inside a transaction and holds SHARED.
OthersReading(p) == \E q \in Procs \ {p} : conn[q].txn # "none"

CanReserve(p) == reserved \in {NoOwner, p}

\* A statement that read the schema inside BEGIN ... opened a read
\* transaction; outside one it held SHARED only while it ran.
AfterRead(c) ==
    IF c.explicit /\ c.txn = "none" THEN [c EXCEPT !.txn = "read"] ELSE c

\* Publishing p's transaction and releasing its locks.
Publish(p) ==
    /\ committed' = [tables |-> committed.tables \cup conn[p].tables,
                     rows   |-> committed.rows \cup conn[p].rows]
    /\ logged' = logged \cup conn[p].rows
    /\ reserved' = NoOwner
    /\ conn' = [conn EXCEPT ![p] = NoConn]

\* sqlite3_close, or the exit of the process: the open transaction is
\* rolled back and the locks released.
Rollback(p) ==
    /\ reserved' = IF reserved = p THEN NoOwner ELSE reserved
    /\ conn' = [conn EXCEPT ![p] = NoConn]

Init ==
    /\ file = IF InitialFile = "absent" THEN "absent" ELSE "present"
    /\ committed = IF InitialFile = "ready"
                     THEN [tables |-> Tables, rows |-> {}] ELSE EmptyDb
    /\ reserved = NoOwner
    /\ conn = [p \in Procs |-> NoConn]
    /\ pc = [p \in Procs |-> "stat"]
    /\ tries = [p \in Procs |-> MaxRetries + 1]
    /\ idx = [p \in Procs |-> 1]
    /\ logged = {}

-----------------------------------------------------------------------------
(* Database::Database *)

\* stat() the history file; create it if that fails.
Stat(p) ==
    /\ pc[p] = "stat"
    /\ pc' = [pc EXCEPT ![p] = IF file = "absent" THEN "create" ELSE "count"]
    /\ UNCHANGED <<file, committed, reserved, conn, tries, idx, logged>>

\* fopen(db_filename, "w+e") and fclose: creates the file, and truncates
\* it if another process created it in the meantime.
Create(p) ==
    /\ pc[p] = "create"
    /\ file' = "present"
    /\ committed' = EmptyDb
    /\ pc' = [pc EXCEPT ![p] = "count"]
    /\ UNCHANGED <<reserved, conn, tries, idx, logged>>

\* sqlite3_open, then exec of the count of registered tables in
\* sqlite_master: the normal case returns; otherwise init_db.
Count(p) ==
    /\ pc[p] = "count"
    /\ pc' = [pc EXCEPT ![p] =
                IF Cardinality(ViewTables(p) \cap Tables) = Cardinality(Tables)
                THEN "prepare" ELSE "init_begin"]
    /\ UNCHANGED <<file, committed, reserved, conn, tries, idx, logged>>

\* init_db's script: "PRAGMA foreign_keys=OFF;BEGIN TRANSACTION;".
InitBegin(p) ==
    /\ pc[p] = "init_begin"
    /\ conn' = [conn EXCEPT ![p].explicit = TRUE]
    /\ idx' = [idx EXCEPT ![p] = 1]
    /\ pc' = [pc EXCEPT ![p] = "init_create"]
    /\ UNCHANGED <<file, committed, reserved, tries, logged>>

NextCreate(p) == IF idx[p] < Len(Registered) THEN "init_create" ELSE "init_commit"

\* CREATE TABLE IF NOT EXISTS of a table the connection sees: a read.
InitCreateSkip(p) ==
    /\ pc[p] = "init_create"
    /\ Registered[idx[p]] \in ViewTables(p)
    /\ conn' = [conn EXCEPT ![p] = AfterRead(@)]
    /\ idx' = [idx EXCEPT ![p] = @ + 1]
    /\ pc' = [pc EXCEPT ![p] = NextCreate(p)]
    /\ UNCHANGED <<file, committed, reserved, tries, logged>>

\* CREATE TABLE of a missing table: takes RESERVED, writes the schema.
InitCreateWrite(p) ==
    /\ pc[p] = "init_create"
    /\ Registered[idx[p]] \notin ViewTables(p)
    /\ CanReserve(p)
    /\ reserved' = p
    /\ conn' = [conn EXCEPT ![p].txn = "write",
                            ![p].tables = @ \cup {Registered[idx[p]]}]
    /\ idx' = [idx EXCEPT ![p] = @ + 1]
    /\ pc' = [pc EXCEPT ![p] = NextCreate(p)]
    /\ UNCHANGED <<file, committed, tries, logged>>

\* CREATE TABLE answered SQLITE_BUSY: sqlite3_exec stops the script, the
\* error goes to cerr and the constructor carries on, the transaction
\* begun by the script still open.  A refused first access of the
\* transaction takes no lock (the engine drops the SHARED lock it took);
\* a transaction that has already read keeps its read.
InitCreateBusy(p) ==
    /\ pc[p] = "init_create"
    /\ Registered[idx[p]] \notin ViewTables(p)
    /\ ~CanReserve(p)
    /\ pc' = [pc EXCEPT ![p] = "prepare"]
    /\ UNCHANGED <<file, committed, reserved, conn, tries, idx, logged>>

\* "COMMIT;" succeeds: a write transaction is published, a read one ends.
InitCommitOk(p) ==
    /\ pc[p] = "init_commit"
    /\ conn[p].txn = "write" => ~OthersReading(p)
    /\ IF conn[p].txn = "write"
         THEN Publish(p)
         ELSE /\ conn' = [conn EXCEPT ![p] = NoConn]
              /\ UNCHANGED <<committed, reserved, logged>>
    /\ pc' = [pc EXCEPT ![p] = "prepare"]
    /\ UNCHANGED <<file, tries, idx>>

\* "COMMIT;" answered SQLITE_BUSY: reported on cerr, the transaction stays
\* open and the constructor returns.
InitCommitBusy(p) ==
    /\ pc[p] = "init_commit"
    /\ conn[p].txn = "write"
    /\ OthersReading(p)
    /\ pc' = [pc EXCEPT ![p] = "prepare"]
    /\ UNCHANGED <<file, committed, reserved, conn, tries, idx, logged>>

-----------------------------------------------------------------------------
(* Database::insert: exec of the Command's INSERT *)

\* prepare_stmt: the statement compiles only if the connection sees the
\* commands table; "no such table" is LOG(FATAL), and the exit rolls the
\* connection back.
PrepareInsert(p) ==
    /\ pc[p] = "prepare"
    /\ IF "commands" \in ViewTables(p)
         THEN /\ pc' = [pc EXCEPT ![p] = "step"]
              /\ UNCHANGED <<reserved, conn>>
         ELSE /\ pc' = [pc EXCEPT ![p] = "fatal"]
              /\ Rollback(p)
    /\ UNCHANGED <<file, committed, tries, idx, logged>>

\* sqlite3_step takes RESERVED and adds the row; in autocommit mode it
\* then commits, inside an explicit transaction it is done.
StepWrite(p) ==
    /\ pc[p] = "step"
    /\ CanReserve(p)
    /\ reserved' = p
    /\ conn' = [conn EXCEPT ![p].txn = "write", ![p].rows = @ \cup {p}]
    /\ pc' = [pc EXCEPT ![p] = IF conn[p].explicit THEN "done" ELSE "commit"]
    /\ UNCHANGED <<file, committed, tries, idx, logged>>

\* The retry path of exec on SQLITE_BUSY, c being the connection after the
\* failed step: LOG(FATAL) when `tries <= 0`, the exit closing the
\* connection; otherwise ash_sleep, finalize, prepare again and --tries.
BusyRetry(p, c) ==
    IF tries[p] <= 0
    THEN /\ pc' = [pc EXCEPT ![p] = "fatal"]
         /\ conn' = [conn EXCEPT ![p] = NoConn]
         /\ UNCHANGED tries
    ELSE /\ tries' = [tries EXCEPT ![p] = @ - 1]
         /\ pc' = [pc EXCEPT ![p] = "prepare"]
         /\ conn' = [conn EXCEPT ![p] = c]

\* Mutant: SQLITE_BUSY taken for SQLITE_DONE, goto finalize.
StepBusyAsDone(p) ==
    /\ pc[p] = "step"
    /\ ~CanReserve(p)
    /\ pc' = [pc EXCEPT ![p] = "done"]
    /\ UNCHANGED <<file, committed, reserved, conn, tries, idx, logged>>

\* Mutant: the `tries <= 0` test dropped.
StepBusyUnbounded(p) ==
    /\ pc[p] = "step"
    /\ ~CanReserve(p)
    /\ tries' = [tries EXCEPT ![p] = @ - 1]
    /\ pc' = [pc EXCEPT ![p] = "prepare"]
    /\ UNCHANGED <<file, committed, reserved, conn, idx, logged>>

\* sqlite3_step answers SQLITE_BUSY: another process holds RESERVED.  As
\* for InitCreateBusy, the refused access leaves the connection's locks as
\* they were.
StepBusy(p) ==
    /\ pc[p] = "step"
    /\ ~CanReserve(p)
    /\ BusyRetry(p, conn[p])
    /\ UNCHANGED <<file, committed, reserved, idx, logged>>

\* The autocommit commit ending sqlite3_step succeeds: SQLITE_DONE.
StepCommit(p) ==
    /\ pc[p] = "commit"
    /\ ~OthersReading(p)
    /\ Publish(p)
    /\ pc' = [pc EXCEPT ![p] = "done"]
    /\ UNCHANGED <<file, tries, idx>>

\* The autocommit commit is refused (SQLITE_BUSY): the statement's
\* transaction is rolled back and exec takes its retry path.
StepCommitBusy(p) ==
    /\ pc[p] = "commit"
    /\ OthersReading(p)
    /\ reserved' = NoOwner
    /\ BusyRetry(p, NoConn)
    /\ UNCHANGED <<file, committed, idx, logged>>

\* ~Database: sqlite3_close, rolling back a transaction left open.
Close(p) ==
    /\ pc[p] = "done"
    /\ Rollback(p)
    /\ pc' = [pc EXCEPT ![p] = "exit"]
    /\ UNCHANGED <<file, committed, tries, idx, logged>>

\* The steps of process p.
Proc(p) ==
    \/ Stat(p) \/ Create(p) \/ Count(p)
    \/ InitBegin(p) \/ InitCreateSkip(p) \/ InitCreateWrite(p)
    \/ InitCreateBusy(p) \/ InitCommitOk(p) \/ InitCommitBusy(p)
    \/ PrepareInsert(p) \/ StepWrite(p) \/ StepBusy(p)
    \/ StepCommit(p) \/ StepCommitBusy(p) \/ Close(p)

Next == \E p \in Procs : Proc(p)

Spec == Init /\ [][Next]_vars

-----------------------------------------------------------------------------
(* Properties *)

TypeOK ==
    /\ file \in {"absent", "present"}
    /\ committed \in [tables : SUBSET Tables, rows : SUBSET Procs]
    /\ reserved \in Procs \cup {NoOwner}
    /\ conn \in [Procs -> [txn : {"none", "read", "write"},
                           explicit : BOOLEAN,
                           tables : SUBSET Tables,
                           rows : SUBSET Procs]]
    /\ pc \in [Procs -> {"stat", "create", "count", "init_begin",
                         "init_create", "init_commit", "prepare", "step",
                         "commit", "done", "exit", "fatal"}]
    /\ tries \in [Procs -> -1..MaxRetries + 1]
    /\ idx \in [Procs -> 1..Len(Registered) + 1]
    /\ logged \subseteq Procs

\* A logged command stays logged: no process's open, bootstrap or insert
\* removes a row another process committed.
NoCommittedRowLost == logged \subseteq committed.rows

\* _ash_log exits normally only with its command committed: a command is
\* either in the history or the process died with a FATAL message, never
\* silently dropped.
NoSilentLoss == \A p \in Procs : pc[p] = "exit" => p \in committed.rows

\* The one way an insert ends unlogged: when exec returns from the insert
\* (SQLITE_DONE), the command is committed, unless the connection is still
\* inside the explicit transaction that init_db's script began and left
\* open, which the close at ~Database rolls back.  A BUSY or a refused
\* commit that exec took for success would end an insert unlogged outside
\* such a transaction.
InsertEndsLoggedOrInBootstrap ==
    \A p \in Procs : pc[p] = "done" => p \in logged \/ conn[p].explicit

=============================================================================
