\* ash_query run without arguments, with and without ASH_CFG_DEFAULT_QUERY.
CONSTANTS
    KnownQueries <- MCKnownQueries
    QueryNames <- MCQueryNames
    FormatNames <- MCFormatNames
    ArgsGiven <- MCWithoutArgs
    NoValue = NoValue
SPECIFICATION Spec
INVARIANT ExitStatus
\* main returns.
CHECK_DEADLOCK FALSE
