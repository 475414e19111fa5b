# TLA+ models of advanced-shell-history

This directory holds TLA+ models of the C++ implementation under `src/src/`,
the TLC configurations that check them, and `PROJECT.json`. That file maps
every modelled definition to the source lines it translates. It also lists
the runs, the mutants that show each property can fail, the findings and the
hazards.

## The system

Advanced shell history has two binaries that share one SQLite file (`~/.ash/history.db`):

* **`_ash_log`** (`_ash_log.cpp`) runs from the shell's prompt hook once per
  command. Each shell is a separate process, so any number of them may write
  the file at once.
  * It registers the `sessions` and `commands` tables.
  * It opens the `Database`, and with `-S` inserts a session and prints its id.
  * With `-E` it updates the session's end time.
  * Otherwise it inserts one `Command` row.
* **`ash_query`** (`ash_query.cpp`) runs a saved query through `Database::exec`
  with `--limit` and `--reverse`, then prints the `ResultSet` through a
  `Formatter`.

The code they share lives in `database.cpp`:

| part | code | what it does |
|---|---|---|
| ConnectionManager | `Database::Database`, `init_db`, `~Database` | `stat`s the file and creates it with `fopen("w+")` if it is missing. It opens the connection, counts the registered tables in `sqlite_master`, and bootstraps the schema with one multi-statement script (`BEGIN; CREATE ...; COMMIT;`) through `sqlite3_exec`. Any error of the script is only printed. |
| StatementExecutor | `prepare_stmt`, `exec` | Prepares with its own BUSY retry budget. Then it steps the statement, buffering rows up to `limit`. On `SQLITE_BUSY`/`LOCKED` it sleeps, finalizes, prepares again and jumps back to stepping. When a budget runs out it ends with `LOG(FATAL)`, which exits the process. A constraint failure returns no result. |
| BackoffScheduler | `ash_sleep` | Sleeps `DB_FAIL_TIMEOUT` plus a random jitter, resuming after EINTR, with a safety break after `2 * DB_MAX_RETRIES` passes of the loop. |
| TableRegistry / EntityPersistence | `DBObject::register_table`, `get_create_tables`, `quote`, `get_sql`, `Session`, `Command` | Table definitions, the bootstrap script, and the `INSERT` text of a row. |

The other sources are as follows:
* `Config` reads the `ASH_CFG_*` environment variables.
* `Logger` (`logger.cpp`) writes diagnostics, and ends the process with `exit(1)` after a FATAL message.
* `Flags` (`flags.cpp`) registers the `DEFINE_*` flags and parses the command line with `getopt_long`.
* `Formatter` (`formatter.cpp`) prints a `ResultSet` as csv, null-separated, aligned or grouped ("auto") text.
* `Command` and `Session` (`command.cpp`, `session.cpp`) build the rows from the environment.
* `unix.cpp` and `util.cpp` read OS metadata.

The processes interact only through the database file and its SQLite locks.
There are no threads.

## Modules

### `DatabaseExec` — one call of `Database::exec` (with `prepare_stmt`)

**State.**
* The step `pc` and the last result code `rc`.
* The two retry budgets: `tries` in exec and `ptries` in prepare_stmt.
* The number of live prepared statements, `stmts`.
* `limit` and `reverse`.
* The row buffer `results`, the `rows` and `fetched` counters, and the returned `rs`.

**Abstraction.**
* Each answer of `sqlite3_prepare_v2` and `sqlite3_step` is a nondeterministic choice among the codes the `switch` handles.
* The query has `MaxRows` rows, and row *i* is the number *i*.

**Actions.**
* One action per branch:
  * `PrepareOk`, `PrepareBusyRetry`, `PrepareBusyGiveUp`, `PrepareError`
  * `StepRow`, `StepDone`, `StepConstraint`, `StepBusyRetry`, `StepBusyGiveUp`, `StepError`
  * `LimitReached`, `Finalize`
* `StepBusyRetry` is the whole retry path: sleep (its time is irrelevant here), finalize, prepare, decrement, `goto try_sql`.
* The constant `MidStreamBusy` says whether the engine may answer BUSY after a row has been returned. The `sqlite3_step` contract allows it. A read that must upgrade to a write, or a LOCKED answer from a shared cache, can cause it.

**Fairness.** The spec has weak fairness on `Next`. One process runs exec by itself, and every enabled branch is a local step of that process.

**Refinement.** `AbstractExec` states what exec promises its caller, with no
engine answers and no retries. A call either returns the first `limit` rows
of the query (all of them when `limit <= 0`), reversed when asked, or no
result when there are none (`Return`). It may instead return no result after
a constraint violation (`Reject`), or end the process (`Die`). It does one of
these once, and under weak fairness it does not hang. `DatabaseExec` maps onto
it: `prepare` and `step` are `"running"`, `done` is `"returned"`, `fatal` is
`"died"`, and `rs` is the result. Every retry is then a stuttering step of the
abstract spec. `ImplementsAbstractExec` checks `AbsExec!Spec` as a temporal
property, so the retries must stay invisible, the result must be one
uninterrupted run's, and the retry loop must end.

### `AshSleep` — `ash_sleep`

**State.**
* The delay `ms` and `sleep_attempts`.
* `to_sleep` and `remaining` as `[sec, nsec]`.
* The total time slept, and whether the "Sleep break" warning was logged.

**Abstraction.**
* Time is counted in units, with `MsPerSec` units to a second. The code depends only on the split into seconds and nanoseconds and on comparisons of those parts.
* `clock_nanosleep` can behave in two ways:
  * It completes and leaves `remaining` unwritten (`SleepFull`).
  * It is interrupted and writes a positive part of the request (`SleepInterrupted`).
* `remaining` starts as any value (`Garbage`), out-of-range nanoseconds included, because the code reads it uninitialised.

**Properties.**
* `SleepBounded`: the whole sleep is at most `2 * retries * ms`.
* `NeverOversleeps`: what spec 4.3 says. It never sleeps longer than the delay.
* `SleepsWholeDelay`: what the post-loop comment says. The whole delay is slept.
* `NoFalseClockAlarm`: on a clock that keeps time, as the model's is, "Major clock problem" is never logged. `LeaveLoop` computes the two post-loop errors (`PostLoopErrors`) from the time slept, in milliseconds as the code rounds it.

### `AshStore` — concurrent `_ash_log` processes logging a command

**State.**
* The file: `"absent"`, `"empty"`, or a database.
* The committed database: its tables and its rows. A row is the process that logged it.
* The process holding the RESERVED lock.
* Per process: its connection (the open transaction, whether it was opened by an explicit `BEGIN`, and its private view of tables and rows), its `pc`, and its retry budget.
* The processes whose command was committed (history, used by the properties).

**Locking.** SQLite's rollback-journal locking without a busy handler:
* A write needs the RESERVED lock, and is refused BUSY while another process holds it.
* A COMMIT is refused BUSY while another process holds an open read transaction.

These rules appear as engine helpers (`CanReserve`, `OthersReading`, `Publish`, `Rollback`), not as code.

**Actions.** They follow the constructor:
* `Stat`, then `Create` for the `fopen("w+")` branch.
* `Count`, then the bootstrap script one statement at a time: `InitBegin`, `InitCreateWrite`/`InitCreateSkip`, `InitCommitOk`. Either busy outcome (`InitCreateBusy`, `InitCommitBusy`) abandons the script. A refused first access of a transaction takes no lock, because the engine drops the SHARED lock it took; only a successful read (`AfterRead`) keeps one.
* The insert: `PrepareInsert`, `StepWrite`, `StepBusy` and, in autocommit, `StepCommit`/`StepCommitBusy`.
* `Close`, which rolls back an open transaction in `sqlite3_close`.

**Abstraction.**
* Sleeping is left out: only the interleaving of the processes matters, and any wait is some interleaving.
* Each process runs exec for its insert, so `StepBusy` uses the exec budget.

**Termination.** Among `_ash_log` processes alone there is no cycle of refused locks: a refused first access drops its lock, so some process always gets through. Termination therefore does not rest on the retry budgets here, and no liveness property is checked for this module.


### `UnixMetadata` — `Session::Session` and the `unix.cpp` readers it calls

`_ash_log -S` runs in a command substitution of the shell's prompt hook.
So, by pid, the processes are: 1, the terminal; 2, the shell; 3, the
subshell of the substitution, which has the shell's name; and 4, `_ash_log`.

**State.** The `host`, the system as the code reads it, is chosen in `Init`:
* whether `/proc` exists;
* whether the stack bytes a dangling `ps` result points to survived;
* the shell's name (comm) as a sequence of words;
* the interfaces `getifaddrs` lists (name, family, address), or its failure;
* the time zone abbreviation and its length;
* the terminal;
* the `SKIP_LOOPBACK`, `LOG_IPV4` and `LOG_IPV6` switches.

The other variable is the `session` values map.

**Operators.**
* `proc_stat` splits `/proc/<pid>/stat` at blanks. So the file is a sequence of tokens (`StatTokens`), and a comm with a blank is several tokens.
* `GetPpid`, `ShellPid`, `PpidColumn`, `PidColumn`, `ShellColumn`, `TtyColumn`, `TimeZoneColumns` and `HostIpColumn` translate the readers.
* `HostIpColumn` is a `FoldLeft` of `HostIpStep`, one pass of the interface loop.
* Memory the code reads without having written it is the model value `Junk`. This covers the strftime buffer when the zone does not fit, the stack buffer of `host_ip`, and the frame of `ps`.

**Action.** `NewSession` is the constructor. The columns that copy one system
value (start time, uids, login and host name, the `SUDO_`/`SSH_` variables)
are left out.

### `Entity` — a shell running commands, and the `INSERT` of each `Command`

**State.** The shell's `PWD` and `OLDPWD`, the command the prompt hook is
about to log, and the history of (command, directory it ran in, row stored).

**Abstraction.**
* Text is a sequence of character classes: a printable character, the single quote, tab, newline, and a byte `isprint` rejects.
* `DBObject::quote` and `get_sql` are operators over those sequences (`QuoteChar`, `Quote`, `JoinList`, `GetSql`).
* The SQL engine that reads the `INSERT` back is an SQL lexer written from the literal rules (`ScanLiteral`, `LexValue`, `ParseInsert`). It is the reference the rendering is checked against, not code.

**Actions.**
* `RunCommand`: the shell runs a command and `cd` changes `PWD`/`OLDPWD`.
* `LogCommand`: `Command::Command` (including the `cd` test on the command text) followed by `get_sql`.

### `AshLog` — the `-S`, command and `-E` branches of `_ash_log` over a shell's life

**State.** The `sessions` rows (open or closed, with the values inserted),
the `session_id` of each `commands` row, the shell's `ASH_SESSION_ID`, what
the last `-S` printed, whether an invocation crashed, the `host`, and the
clock `now` (`::time(0)` in seconds, up to `MaxTime`). A session row has
`start_time`, `end_time` and `duration`. It is open while `duration` is
null (`Open`), which is what the `-S` query tests.

**Composition with `UnixMetadata`.** `AshLog` instances `UnixMetadata` (as
`U`) for the values of the sessions row: `-S` inserts one of
`U!SessionValues(host)`, and `SessionRowAccepted` is the NOT NULL
constraints of `Session::register_table` on them (`time_zone`, `tty`,
`shell`). `U!Null` is SQL NULL, which `DBObject::quote` also renders for an
empty string. A `commands` row needs a tty (`CommandRowAccepted`). The hosts
are those of `UnixMetadata` with or without a terminal (`HasTty`).

**Actions.**
* `GetSessionIdKnown` and `GetSessionIdNew` are the two paths of `-S`.
* `LogCommand` is the command branch. `env_int` of an unset variable dereferences NULL.
* `EndSession` is `-E`. `CloseSessionSql` is the UPDATE that `get_close_session_sql` builds. Its end_time and duration come from two calls of `unix::time()`, and the clock may pass a second between them.
* `Tick` is the clock advancing between invocations.
* `NewShell` is the environment: a shell that inherits `ASH_SESSION_ID`.

Each invocation is one whole process. Contention between processes is left to `AshStore`.

### `Formatter` — `GroupedFormatter` (the "auto" format)

**State.** The `ResultSet`, `do_show_headings`, the grouped level count, the
row and column being printed, `prev`, and the sequence of printed cells
(printed or replaced by an indent).

**Abstraction.** A cell is a value with a width, and a header is a width. The
layout of the spaces is left out. Whether each cell is printed or indented is kept.

**Operators and actions.**
* `GetWidths`, `Changes` and the recursive `Simulate` translate `get_widths` and the loop of `get_grouped_level_count`.
* `Begin`, `PrintHeadings`, `GroupedPrinted`, `GroupedIndented`, `Ungrouped` and `EndRow` are the branches of `insert`.
* `AreaSim` is an independent recursive definition of the area the code's comment describes. `LevelsMinimizeArea` says the code's choice is the rightmost level count with the least area. `FormatterArea.cfg` checks it on long result sets of identical rows, where it fails (finding 21).

### `AshQuery` — `ash_query` main and `execute`

**State.** Whether there are arguments, the configuration (`DEFAULT_QUERY`,
`DEFAULT_FORMAT`, `HISTORY_DB`, `IGNORE_UNKNOWN_FLAGS`), the flags parse left,
the registered formatters, the SQL given to `execute`, the step, the exit
status, and the query and format actually executed.

**Actions.**
* `NoArgsDefaultQuery` and `NoArgsUsage` are the `argc == 1` branch.
* `ParseFlags` is the checks that run before the formatters are registered.
* `InitFormatters` is the four `init` calls and `--list_formats`.
* `ChooseQuery` is `--print_query` and the query lookup.
* `Execute` is `execute`.

`Queries::get_sql` has no implementation in the repository: a query is known
or not. Flag parsing is the subject of `Flags`, and here it is its result, chosen in `Init`.

### `Logger` — `LOG(level)` and its constructor and destructor

**State.** The program's sequence of `LOG` calls, whether `localtime` and
`strftime` with `ASH_CFG_LOG_DATE_FMT` work, and `ASH_CFG_LOG_LEVEL` (all
three fixed for a run). Also the stack of live `Logger` temporaries, the
lines written with the target each went to (the log file or `/dev/null`),
and the exit status.

**Actions.**
* `Call` constructs a Logger, and `Return` ends `main`. A Logger's target is `GetTarget`, which is `get_target` with `Parse` of the level text and the test of the enum positions in `Severity`.
* `CtorNoClock`, `CtorBadFmt` and `CtorOk` are the three outcomes of the constructor. The two failure paths construct a nested `LOG(FATAL)` unless the Logger is itself FATAL.
* `Destroy` is `~Logger`: end the line, close, and `exit(1)` for FATAL.

### `SleepLog` — `ash_sleep` writing through Loggers

`SleepLog` composes `AshSleep` (as `S`) and `Logger` (as `L`). Each step of
`ash_sleep` is the `AshSleep` action together with the `LOG` calls the code
makes on that path, appended to the Logger's call sequence (`Log`): INFO at
entry, ERROR on an interruption, DEBUG when it resumes a remainder, WARNING
on a sleep break, INFO at the end and the two post-loop ERRORs. A step of
`ash_sleep` is taken only when the Loggers of the previous one are done
(`Quiet`): a `LOG` statement is a full expression, so its Logger is
destroyed before the next statement runs. `LoggerStep` interleaves the
Logger actions, and a Logger may end the process, after which `ash_sleep`
takes no step. The hosts are those on which `localtime` or the date format
may fail, and `LOG_LEVEL` names any level.

### `Flags` — the `Flag` registry and `Flag::parse`

**State.** The registries that the `Flag` constructors fill (`short_names`,
`long_names`, `options` and `codes`), the `FLAGS_` values, argv, the
position of `getopt_long`, the arguments that are not options, the resulting
`argc`, and the exit status.

**Abstraction.**
* `getopt_long` is libc, not code of the repository. `Getopt` models what it returns for one token from `codes` and `options`: the short name, 0 for a long-only option, or `'?'`, together with `optarg`.
* GNU permutation is modelled by collecting the words that are not options.

**Actions.**
* `Construct` is one `DEFINE_*` static initialiser.
* `Word`, `LongOnly`, `Unknown` and `ShortName` are the cases of the `switch`.
* `Done` is the end of the loop.

## Runs

`PROJECT.json` lists twelve runs. Each asks one question.

| run | cfg | expect | what it shows |
|---|---|---|---|
| exec | DatabaseExec.cfg | pass | `RetriesInvisible`: a completed exec that was not a constraint failure returns the first `limit` rows (all rows if `limit <= 0`), reversed when asked, as one uninterrupted run would. BUSY is possible only before the first row here. `StatementsReleased`: at most one prepared statement is live, and none when exec returns. `ImplementsAbstractExec`: exec implements `AbstractExec`, returning once or dying, never hanging in its retries. Bounds: 2 retries, 3 rows, limits -1, 0, 2 and 3, both values of reverse. |
| exec_mid_stream | DatabaseExecMidStream.cfg | violation | With BUSY after a row, `RetriesInvisible` fails: the retry keeps `results`, so a 1-row query returns `<<1, 1>>`. |
| sleep_oversleep | AshSleepOversleep.cfg | violation | `NeverOversleeps` fails: a delay slept without interruption is slept `2 * DB_MAX_RETRIES` times. |
| store_steady | AshStore.cfg | pass | Three processes on a bootstrapped file. `NoSilentLoss`: a process that exits normally has its command committed, whatever the order of the other processes' inserts, commits and refused locks. With 1 retry and three processes, the budget does run out. |
| store_first_use | AshStoreFirstUse.cfg | pass | Three processes start before the file exists, in every order of stat, create, count, bootstrap, insert and commit. `InsertEndsLoggedOrInBootstrap`: when exec ends an insert as done, the command is committed, unless the insert sits in the bootstrap transaction that init_db left open. That open transaction is therefore the one way an insert is lost silently (finding 6). |
| store_bootstrap_race | AshStoreBootstrapRace.cfg | violation | `NoSilentLoss` fails: a process whose bootstrap script is abandoned after its `BEGIN` (its CREATE or its COMMIT refused BUSY) runs its insert inside the transaction still open, without a lock. The insert is rolled back at close and the process exits 0. |
| store_truncate | AshStoreTruncate.cfg | violation | `NoCommittedRowLost` fails: a process that saw no file truncates the file another process has created and logged into. |
| entity | Entity.cfg | pass | `InsertRoundTrip`: the `INSERT` that `get_sql` renders for any command text (quotes, tabs and unprintable bytes included) is read back by the SQL lexer as the stored values, with the unprintable bytes dropped. `CwdIsWhereItRan`: the stored `cwd` is the directory the command ran in, `OLDPWD` for `cd`. |
| formatter | Formatter.cfg | pass | `GroupingFaithful`: a grouped cell is indented exactly when its row repeats the row above in that column and all columns to its left. Result sets up to 3 rows by 3 columns. |
| flags | Flags.cfg | pass | `LastWins`: after `Flag::parse`, each `FLAGS_` value is set by the last option naming it, by its short or long name, and is its default when none does. The flags are those of `ash_query` (int, string and flag kinds), with argv of up to 3 tokens. |
| sleep_log | SleepLog.cfg | pass | `ash_sleep` (2 retries, a 6-unit delay) with its Loggers, on hosts where the clock or the date format may fail and `LOG_LEVEL` is DEBUG, ERROR or FATAL. `SleepBounded`: the total sleep stays at most `2 * retries * ms`, with garbage in `remaining`. `RecursionBounded`: a failing Logger's nested `LOG(FATAL)` never nests further. |
| ash_log | AshLog.cfg | pass | `SessionRowsDescribeShell`: every sessions row has the shell's pid, its parent's pid and its name, as `get_ppid` and `proc_stat` read them through `/proc`. A shell with a terminal, on Linux hosts with one-word shell names (bash or zsh) and a short zone, runs seven invocations: `-S`, commands, `-E`, a new shell, and `-S` again. The clock runs over 3 seconds. |

More cfgs are kept beside these. Each checks a related case of the same modules:
* `AshSleep.cfg` (pass) checks `SleepBounded`: even with garbage in `remaining`, the total sleep is at most `2 * retries * ms`.
* `AshSleepZeroRetries.cfg` reproduces finding 4.
* `AshSleepInterrupted.cfg` reproduces finding 12.
* `AshSleepManyRetries.cfg` reproduces finding 18 (and passes with 50 retries).
* `DatabaseExecBudget.cfg` reproduces finding 2.
* `EntityCdPrefix.cfg` reproduces finding 7.
* `AshLogStaleSession.cfg` reproduces finding 8.
* `AshLogNoTty.cfg` reproduces finding 9.
* `FormatterNull.cfg` reproduces finding 10.
* `AshQueryDefault.cfg` reproduces finding 11.
* `AshQuery.cfg` (pass) checks `ExitStatus` and `QueryRunsWhenNamed` with arguments.
* `AshQueryNoArgs.cfg` (pass) checks `ExitStatus` without arguments.
* `Logger.cfg` (pass) checks `RecursionBounded` (with `LOG_LEVEL` naming a level).
* `FormatterArea.cfg` reproduces finding 21.
* `LoggerLevel.cfg` reproduces finding 17.
* `LoggerBadFmt.cfg` reproduces finding 16.
* `UnixMetadata.cfg` (pass) checks `SessionDescribesShell` by itself, over every interface list up to 2 entries and every switch setting.
* `AshLogLongZone.cfg` reproduces finding 19.
* `AshLogDuration.cfg` reproduces finding 20.
* `AshLogEndTwice.cfg` finds `SessionEndKept` violated. A second `-E` with the same id, from the shell or from a shell that inherited the id, rewrites the `end_time` of an ended session. No comment or spec says which end a shared session should keep, so this is listed as a hazard, not a finding.
* `UnixMetadataHostIp.cfg` reproduces finding 13.
* `UnixMetadataTimeZone.cfg` reproduces finding 14.
* `UnixMetadataSpacedName.cfg` reproduces finding 15.

Every property of a passing listed run has a mutant in `PROJECT.json`: a
plausible bug in the mapped code that TLC finds violating it.

`MCAshStore` declares the processes as model values and uses symmetry. This
is sound because no action or property names a particular process. The
other MC modules give the constants small sets of strings or numbers.

**Deadlock.** Every cfg sets `CHECK_DEADLOCK FALSE`. Each model is one run of a
program that terminates, or a bounded number of invocations, so its final
state has no successor.

**Bounds.**
* The retry budgets are 1-2. That is enough for a budget to run out with two or three processes, and for a retry to follow a row.
* Row counts are 3, with limits below, equal to and above them.
* Result sets are up to 3x3, which is enough for every grouped level count 0-2 to be chosen and for a wrap at each level. `FormatterArea.cfg` uses 8 identical rows, the fewest for which grouping two columns saves area against the widths 2, 2 and 12.
* Command text is up to 2 characters after the word, which covers each special character alone and next to a quote.
* argv has up to 3 tokens, which is enough to name one flag twice by different names with a word between.
* `ash_log` runs seven invocations over 3 seconds of clock. That reaches a reused session id, a second `-E`, and a `-E` that ends in the next second.
* `sleep_log` has 2 retries and a 6-unit delay at 4 units to the second, so a remainder with whole seconds and one with only nanoseconds both occur. Each of its Loggers may find the clock or date format failing.

**Fairness.** One liveness check is made.
* `ImplementsAbstractExec`: its abstract spec requires that a call returns or dies. `DatabaseExec` assumes weak fairness on `Next`. That is justified because exec is a single-threaded loop of local steps.

`AshStore.cfg` and `AshStoreFirstUse.cfg` use symmetry because they check invariants only.

## Findings

1. **Duplicated rows after mid-stream contention** (`database.cpp:398`). `exec` does not clear `results` before `goto try_sql`. Run exec_mid_stream.
2. **One retry too many** (`database.cpp:382`). exec's budget is `max_retries + 1`. See `DatabaseExecBudget.cfg`.
3. **`ash_sleep` repeats completed sleeps** (`database.cpp:244`). `to_sleep` never reaches zero, so each call sleeps up to `2 * retries` times its delay. Run sleep_oversleep.
4. **`DB_MAX_RETRIES=0`** (`database.cpp:180`). The retries happen with no sleep between them. See `AshSleepZeroRetries.cfg`.
5. **`stat`/`fopen("w+")` race** (`database.cpp:84`). A process can truncate a file another process has just filled. Run store_truncate.
6. **Bootstrap race** (`database.cpp:156`). When a concurrent bootstrap makes the `sqlite3_exec` script fail after its `BEGIN`, the transaction stays open. The insert then runs inside it and is rolled back when the connection closes, and the process exits 0. Run store_bootstrap_race.
7. **`cd` prefix** (`command.cpp:67`). Any command whose text starts with "cd" (`cdrecord`) is logged with `OLDPWD`. See `EntityCdPrefix.cfg`.
8. **Ended sessions reused** (`_ash_log.cpp:115`). `select count(*)` always returns one row, so `-S` never replaces an ended session. See `AshLogStaleSession.cfg`.
9. **No terminal, session id 0** (`_ash_log.cpp:127`). A NULL tty fails the NOT NULL constraint silently. `-S` then prints 0, and every later command is dropped. See `AshLogNoTty.cfg`.
10. **NULL read as a repeat** (`formatter.cpp:331`). After a wrap, a NULL in a deeper grouped column is printed as an indent. See `FormatterNull.cfg`.
11. **`DEFAULT_QUERY`** (`ash_query.cpp:135`). It is used only when its value is the word `true`, which is then executed as SQL, and before the formatters are registered. See `AshQueryDefault.cfg`.
12. **Interrupted sleeps restarted** (`database.cpp:245`). A remainder with zero nanoseconds is not resumed, so two interruptions can use up the attempts before a delay of more than a second has been slept. The comment calls this impossible. See `AshSleepInterrupted.cfg`.
13. **`host_ip` logs skipped families** (`unix.cpp:236`). With `LOG_IPV4`/`LOG_IPV6` unset, each address is still counted. Its place in the list gets the previous address or uninitialised stack bytes. See `UnixMetadataHostIp.cfg`.
14. **Time zone buffer** (`unix.cpp:192`). An abbreviation of 5 characters, such as `+0545`, does not fit the 5-byte buffer, and its indeterminate content is logged. See `UnixMetadataTimeZone.cfg`.
15. **Shell names with a blank** (`unix.cpp:51`). `proc_stat` counts blank-separated words, so the ppid is read from the name. The session then gets pid 0, ppid 0 and an empty shell. See `UnixMetadataSpacedName.cfg`.
16. **Clock or date format failure** (`logger.cpp:105`). Every Logger below FATAL reports the failure with a nested `LOG(FATAL)`, so the first `LOG(DEBUG)` ends the process. See `LoggerBadFmt.cfg`.
17. **Misspelled `LOG_LEVEL` hides FATAL lines** (`logger.cpp:69`). Unknown text parses to `UNKNOWN`, which ranks above FATAL, so every line goes to `/dev/null`, including the one that explains a fatal exit. See `LoggerLevel.cfg`.
18. **False clock alarm** (`database.cpp:273`). Because of finding 3, with `DB_MAX_RETRIES` of 51 or more an uninterrupted 250 ms backoff sleeps over 100 times its delay and logs "Major clock problem" on a correct clock. See `AshSleepManyRetries.cfg`.
19. **Long zone, session id 0** (`unix.cpp:194`). When a five-character abbreviation leaves the zone buffer indeterminate and it starts with a NUL byte, `quote` renders it as null, the NOT NULL `time_zone` constraint rejects the session silently, and `-S` prints 0, as in finding 9. Every later command is dropped. See `AshLogLongZone.cfg`.
20. **Duration one second off** (`session.cpp:104`). `get_close_session_sql` reads the clock once for `end_time` and again for `duration`. A `-E` that straddles a second boundary stores a duration one more than `end_time - start_time`. See `AshLogDuration.cfg`.
21. **Grouping never chosen for long repeats** (`formatter.cpp:278`). `get_grouped_level_count` folds the area of grouping every column into `min_area` but never stores it in `areas`. When that area is strictly the least (8 or more identical rows, with a wide last column), no stored area equals `min_area` and the function returns 0, where 2 levels take the least area. See `FormatterArea.cfg`.

## Not modelled

What the models leave out, and why:
* **`AshQuery` composed with `Flags`.** `AshQuery` takes the outcome of `Flag::parse` from every combination of `FlagValues`. That is a superset of what `Flags` shows parse producing, so its properties also cover the real outcomes. Composing the two would add states without adding behaviours. One consequence is outside both models: `IGNORE_UNKNOWN_FLAGS` only forgives leftover words, because an unknown option already exits 1 inside `Flag::parse`, which `Flags` models (`Unknown`).
* **`UnixMetadata` on hosts without `/proc`.** The model has these hosts: `ps` returns a pointer into its own dead stack frame, and the read gives either the bytes `ps` wrote or `Junk`. The listed runs check Linux hosts only, because which of the two a build produces is not a property of the code.
* **The csv, null and aligned formatters, and the help text** of `Flag::show_help` and `Flag::insert`. Their output is layout only. The help padding cannot go negative, because `longest_long_name` counts `=VALUE`.
* **`Queries::get_sql`**, which has no implementation in the repository.
* **The Logger's file handling** (opening `ASH_CFG_LOG_FILE`), which is pure I/O.
* **`Config::instance`'s cache of the `ASH_CFG_` variables.** Every getter reads `getenv` again and nothing changes the environment, so the models take each setting as a constant.
* **Declarations in the headers** (`database.hpp`, `formatter.hpp`, `flags.hpp` apart from the `DEFINE_` macros), which have no behaviour of their own.
* **The overflow of `retries * 2` in `ash_sleep`.** It needs `DB_MAX_RETRIES` above 2^30, which is out of reach of TLC's integers.
