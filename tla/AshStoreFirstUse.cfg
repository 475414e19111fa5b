\* Three processes start logging before the history file exists: every
\* path through stat, the file creation and the bootstrap.
CONSTANTS
    p1 = p1
    p2 = p2
    p3 = p3
    Procs <- MCProcs3
    NoOwner = NoOwner
    MaxRetriesCfg = 1
    InitialFile = "absent"
SYMMETRY MCSymmetry
SPECIFICATION Spec
INVARIANT InsertEndsLoggedOrInBootstrap
\* Every invocation of _ash_log ends: the states where all have exited
\* or died are real final states.
CHECK_DEADLOCK FALSE
