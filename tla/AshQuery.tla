------------------------------ MODULE AshQuery ------------------------------
(***************************************************************************)
(* ash_query main and execute (src/src/ash_query.cpp) with the Formatter  *)
(* registry (src/src/formatter.cpp): which of its outputs a run reaches   *)
(* for a given environment and command line.  The configuration and the   *)
(* flags Flag::parse sets are chosen in Init; a query or format name is    *)
(* known or not.  Queries::get_sql has no implementation in the           *)
(* repository: a name is found when it is in KnownQueries.                *)
(***************************************************************************)
EXTENDS Integers

CONSTANTS
    KnownQueries,   \* saved queries
    QueryNames,     \* names a user may give, known or not
    FormatNames,    \* format names a user may give, registered or not
    ArgsGiven,      \* whether ash_query has arguments (argc > 1)
    NoValue

\* The formatters the init functions register, in main's order:
\* CsvFormatter, NullFormatter, SpacedFormatter, GroupedFormatter.
Registered == <<"csv", "null", "aligned", "auto">>
RegisteredSet == {Registered[i] : i \in 1..4}

ASSUME /\ KnownQueries \subseteq QueryNames
       /\ ArgsGiven \subseteq BOOLEAN

\* The ASH_CFG_ settings main and execute read.  DEFAULT_QUERY is unset,
\* the word "true", or a query name; Config::sets holds only for "true",
\* so IGNORE_UNKNOWN_FLAGS is a boolean.  HIDE_USAGE_FOR_NO_ARGS only
\* hides the help text and is left out.
Configs == [defaultQuery : {NoValue, "true"} \cup QueryNames,
            defaultFormat : {NoValue} \cup FormatNames,
            historyDb : BOOLEAN,
            ignoreUnknown : BOOLEAN]

\* Config::sets(key): the variable is present and equals "true".
Sets(v) == v = "true"

\* What Flag::parse leaves: the FLAGS_ values and whether arguments that
\* are not flags remain in argv.
FlagValues == [version : BOOLEAN, listQueries : BOOLEAN, listFormats : BOOLEAN,
               printQuery : {""} \cup QueryNames, query : {""} \cup QueryNames,
               format : {""} \cup FormatNames, database : BOOLEAN,
               leftover : BOOLEAN]

VARIABLES
    args,        \* argc > 1
    cfg,         \* the configuration
    flags,       \* the parsed flags
    formatters,  \* the names in Formatter::instances
    sql,         \* the query execute was called with, NoValue before
    pc,          \* "main", "flags", "formats", "query", "execute", "done"
    exitCode,
    executed     \* the query and format db.exec ran and formatted, or NoValue

vars == <<args, cfg, flags, formatters, sql, pc, exitCode, executed>>

Init ==
    /\ args \in ArgsGiven
    /\ cfg \in Configs
    /\ flags \in FlagValues
    /\ formatters = {}
    /\ sql = NoValue
    /\ pc = "main"
    /\ exitCode = 0
    /\ executed = NoValue

Finish(code) == pc' = "done" /\ exitCode' = code

\* `if (argc == 1)`: when config.sets("DEFAULT_QUERY"), the string
\* get_string("DEFAULT_QUERY") returns is executed as the SQL at once.
NoArgsDefaultQuery ==
    /\ pc = "main" /\ ~args
    /\ Sets(cfg.defaultQuery)
    /\ sql' = cfg.defaultQuery
    /\ pc' = "execute"
    /\ UNCHANGED <<args, cfg, flags, formatters, exitCode, executed>>

\* Otherwise the help is shown unless hidden, and the run fails.
NoArgsUsage ==
    /\ pc = "main" /\ ~args
    /\ ~Sets(cfg.defaultQuery)
    /\ Finish(1)
    /\ UNCHANGED <<args, cfg, flags, formatters, sql, executed>>

\* Flag::parse, then the checks that end the run before the formatters
\* are initialised: leftover arguments, --version, --list_queries.
ParseFlags ==
    /\ pc = "main" /\ args
    /\ CASE flags.leftover /\ ~cfg.ignoreUnknown -> Finish(1)
         [] flags.version                        -> Finish(0)
         [] flags.listQueries                    -> Finish(0)
         [] OTHER -> pc' = "formats" /\ UNCHANGED exitCode
    /\ UNCHANGED <<args, cfg, flags, formatters, sql, executed>>

\* Mutant: GroupedFormatter::init() left out of main.
InitFormattersNoGrouped ==
    /\ pc = "formats"
    /\ formatters' = RegisteredSet \ {"auto"}
    /\ IF flags.listFormats THEN Finish(0)
       ELSE pc' = "query" /\ UNCHANGED exitCode
    /\ UNCHANGED <<args, cfg, flags, sql, executed>>

\* The four init functions, each constructing its static instance, whose
\* Formatter constructor enters the name into instances; then
\* --list_formats.
InitFormatters ==
    /\ pc = "formats"
    /\ formatters' = RegisteredSet
    /\ IF flags.listFormats THEN Finish(0)
       ELSE pc' = "query" /\ UNCHANGED exitCode
    /\ UNCHANGED <<args, cfg, flags, sql, executed>>

\* --print_query, then the lookup of --query.
ChooseQuery ==
    /\ pc = "query"
    /\ CASE flags.printQuery # "" ->
              Finish(IF flags.printQuery \in KnownQueries THEN 0 ELSE 1)
              /\ UNCHANGED sql
         [] flags.query \notin KnownQueries -> Finish(1) /\ UNCHANGED sql
         [] OTHER -> sql' = flags.query /\ pc' = "execute" /\ UNCHANGED exitCode
    /\ UNCHANGED <<args, cfg, flags, formatters, executed>>

\* The format execute looks up: --format, else DEFAULT_FORMAT, else
\* "aligned".
Format ==
    IF args /\ flags.format # "" THEN flags.format
    ELSE IF cfg.defaultFormat # NoValue THEN cfg.defaultFormat
    ELSE "aligned"

\* The text execute is given is SQL the engine prepares: the SQL of a
\* saved query, or, from DEFAULT_QUERY, the word "true", a syntax error.
ValidSql(q) == q \in KnownQueries

\* Mutant: an unknown format is reported but the run exits 0.
ExecuteUnknownFormatExitsZero ==
    /\ pc = "execute"
    /\ CASE ~(args /\ flags.database) /\ ~cfg.historyDb -> Finish(1) /\ UNCHANGED executed
         [] Format \notin formatters -> Finish(0) /\ UNCHANGED executed
         [] ~ValidSql(sql) -> Finish(1) /\ UNCHANGED executed
         [] OTHER -> Finish(0) /\ executed' = [query |-> sql, format |-> Format]
    /\ UNCHANGED <<args, cfg, flags, formatters, sql>>

\* execute: no database file is an error; then Formatter::lookup; then
\* db.exec, whose prepare_stmt ends the process with LOG(FATAL) (exit
\* status 1) on SQL it cannot prepare, and formatter -> insert.
Execute ==
    /\ pc = "execute"
    /\ CASE ~(args /\ flags.database) /\ ~cfg.historyDb -> Finish(1) /\ UNCHANGED executed
         [] Format \notin formatters -> Finish(1) /\ UNCHANGED executed
         [] ~ValidSql(sql) -> Finish(1) /\ UNCHANGED executed
         [] OTHER -> Finish(0) /\ executed' = [query |-> sql, format |-> Format]
    /\ UNCHANGED <<args, cfg, flags, formatters, sql>>

Next ==
    \/ NoArgsDefaultQuery \/ NoArgsUsage \/ ParseFlags
    \/ InitFormatters \/ ChooseQuery \/ Execute

Spec == Init /\ [][Next]_vars

-----------------------------------------------------------------------------
(* Properties *)

\* The listings a run with arguments is asked for and can give: the
\* version, the saved queries, the formats, or the text of a known query.
InfoShown ==
    /\ args
    /\ ~(flags.leftover /\ ~cfg.ignoreUnknown)
    /\ \/ flags.version \/ flags.listQueries \/ flags.listFormats
       \/ flags.printQuery \in KnownQueries

\* ash_query exits 0 exactly when it printed what it was asked for: the
\* results of the query or the listing; every failure (no arguments and
\* no default query, unknown flag, query or format, no database) exits 1.
ExitStatus ==
    pc = "done" => (exitCode = 0 <=> executed # NoValue \/ InfoShown)

\* The query a run is asked to execute: --query when there are
\* arguments and none of the other modes is asked for, DEFAULT_QUERY when
\* there are none.
Requested ==
    IF ~args THEN cfg.defaultQuery
    ELSE IF \/ flags.leftover /\ ~cfg.ignoreUnknown
            \/ flags.version \/ flags.listQueries \/ flags.listFormats
            \/ flags.printQuery # ""
         THEN NoValue
         ELSE flags.query

\* execute "executes a query, printing the results to stdout according to
\* the user-chosen output format": a known query, a database and the name
\* of one of the registered formats are all it takes for the run to
\* execute that query in that format and exit 0.
QueryRunsWhenNamed ==
    (/\ pc = "done"
     /\ Requested \in KnownQueries
     /\ (args /\ flags.database) \/ cfg.historyDb
     /\ Format \in RegisteredSet)
    => /\ executed = [query |-> Requested, format |-> Format]
       /\ exitCode = 0

====
