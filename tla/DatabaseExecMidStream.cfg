\* exec against an engine that may report contention after producing rows.
CONSTANTS
    MaxRetriesCfg = 2
    MaxRows = 3
    Limits <- MCLimits
    MidStreamBusy = TRUE
    ConstraintPossible = FALSE
SPECIFICATION Spec
INVARIANT RetriesInvisible
CHECK_DEADLOCK FALSE
