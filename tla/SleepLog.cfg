\* ash_sleep with DB_MAX_RETRIES=2, DB_FAIL_TIMEOUT=0 and
\* DB_FAIL_RANDOM_TIMEOUT=6 (delays of 0..5 units, a second being 4),
\* logging through Loggers on any host, with any ASH_CFG_LOG_DATE_FMT and
\* an ASH_CFG_LOG_LEVEL naming a level.
CONSTANTS
    RetriesCfg = 2
    FailMsCfg = 0
    RandomMsCfg = 6
    MsPerSec = 4
    Levels <- MCLevels
    ClockOk = {TRUE, FALSE}
    FmtOk = {TRUE, FALSE}
    LogLevels <- MCLogLevels
    NoValue = NoValue
    MaxCalls = 0
    MaxDepth = 3
SPECIFICATION Spec
INVARIANTS SleepBounded RecursionBounded
\* ash_sleep returns, or the process exits: final states are real.
CHECK_DEADLOCK FALSE
