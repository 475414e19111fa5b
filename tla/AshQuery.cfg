\* ash_query run with arguments, every combination of the flags and the
\* configuration it reads.
CONSTANTS
    KnownQueries <- MCKnownQueries
    QueryNames <- MCQueryNames
    FormatNames <- MCFormatNames
    ArgsGiven <- MCWithArgs
    NoValue = NoValue
SPECIFICATION Spec
INVARIANTS QueryRunsWhenNamed ExitStatus
\* main returns.
CHECK_DEADLOCK FALSE
