\* exec against an engine that reports contention only before the first row.
CONSTANTS
    MaxRetriesCfg = 2
    MaxRows = 3
    Limits <- MCLimits
    MidStreamBusy = FALSE
    ConstraintPossible = TRUE
SPECIFICATION Spec
INVARIANTS TypeOK RetriesInvisible StatementsReleased
PROPERTIES ImplementsAbstractExec
\* exec returns and the process exits: terminal states are real.
CHECK_DEADLOCK FALSE
