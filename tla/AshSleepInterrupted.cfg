\* ash_sleep with DB_MAX_RETRIES=1 (two passes of the loop) and a delay of
\* 5 units, more than one second of 4 units, interrupted by signals.
CONSTANTS
    RetriesCfg = 1
    FailMsCfg = 5
    RandomMsCfg = 0
    MsPerSec = 4
SPECIFICATION Spec
INVARIANT SleepsWholeDelay
CHECK_DEADLOCK FALSE
