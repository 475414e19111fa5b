\* ash_sleep with DB_MAX_RETRIES=51 and a delay of one unit (250 ms, a
\* second being 4 units) on a clock that keeps time.
CONSTANTS
    RetriesCfg = 51
    FailMsCfg = 1
    RandomMsCfg = 0
    MsPerSec = 4
SPECIFICATION Spec
INVARIANT NoFalseClockAlarm
CHECK_DEADLOCK FALSE
