\* ash_sleep with DB_MAX_RETRIES=0, which prepare_stmt and exec read as 5.
CONSTANTS
    RetriesCfg = 0
    FailMsCfg = 2
    RandomMsCfg = 4
    MsPerSec = 4
SPECIFICATION Spec
INVARIANT SleepsWholeDelay
CHECK_DEADLOCK FALSE
