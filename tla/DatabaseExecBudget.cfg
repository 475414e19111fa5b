\* exec's step loop against the configured retry budget.
CONSTANTS
    MaxRetriesCfg = 2
    MaxRows = 1
    Limits <- MCLimits
    MidStreamBusy = FALSE
    ConstraintPossible = FALSE
SPECIFICATION Spec
INVARIANT StepRetryBudget
CHECK_DEADLOCK FALSE
