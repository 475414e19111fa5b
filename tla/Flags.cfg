\* ash_query's flags, command lines of up to three tokens.
CONSTANTS
    Defs <- MCQueryDefs
    UnknownName = "z"
    ArgValues <- MCArgValues
    NoValue = NoValue
    MaxArgv = 3
SPECIFICATION Spec
INVARIANT LastWins
\* parse returns or exits: the final state has no successor.
CHECK_DEADLOCK FALSE
