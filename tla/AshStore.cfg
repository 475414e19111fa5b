\* Steady state: three processes log a command each into a history file
\* that already holds both tables; DB_MAX_RETRIES=1.
CONSTANTS
    p1 = p1
    p2 = p2
    p3 = p3
    Procs <- MCProcs3
    NoOwner = NoOwner
    MaxRetriesCfg = 1
    InitialFile = "ready"
SYMMETRY MCSymmetry
SPECIFICATION Spec
INVARIANTS TypeOK NoSilentLoss
\* Every invocation of _ash_log ends: the states where all have exited
\* or died are real final states.
CHECK_DEADLOCK FALSE
