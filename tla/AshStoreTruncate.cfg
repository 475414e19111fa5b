\* Two processes start logging before the history file exists.
CONSTANTS
    p1 = p1
    p2 = p2
    p3 = p3
    Procs <- MCProcs2
    NoOwner = NoOwner
    MaxRetriesCfg = 1
    InitialFile = "absent"
SYMMETRY MCSymmetry
SPECIFICATION Spec
INVARIANT NoCommittedRowLost
\* Every invocation of _ash_log ends: the states where all have exited
\* or died are real final states.
CHECK_DEADLOCK FALSE
