\* Two processes bootstrap a history file that has no tables yet.
CONSTANTS
    p1 = p1
    p2 = p2
    p3 = p3
    Procs <- MCProcs2
    NoOwner = NoOwner
    MaxRetriesCfg = 1
    InitialFile = "empty"
SYMMETRY MCSymmetry
SPECIFICATION Spec
INVARIANT NoSilentLoss
\* Every invocation of _ash_log ends: the states where all have exited
\* or died are real final states.
CHECK_DEADLOCK FALSE
