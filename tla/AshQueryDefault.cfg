\* ash_query run without arguments, with ASH_CFG_DEFAULT_QUERY.
CONSTANTS
    KnownQueries <- MCKnownQueries
    QueryNames <- MCQueryNames
    FormatNames <- MCFormatNames
    ArgsGiven <- MCWithoutArgs
    NoValue = NoValue
SPECIFICATION Spec
INVARIANT QueryRunsWhenNamed
CHECK_DEADLOCK FALSE
