\* ash_sleep with DB_MAX_RETRIES=2, DB_FAIL_TIMEOUT=0 and
\* DB_FAIL_RANDOM_TIMEOUT=6, a second being 4 units: delays of 0..5 units,
\* none, below, at and above one second.
CONSTANTS
    RetriesCfg = 2
    FailMsCfg = 0
    RandomMsCfg = 6
    MsPerSec = 4
SPECIFICATION Spec
INVARIANTS TypeOK SleepBounded
\* ash_sleep returns to its caller: terminal states are real.
CHECK_DEADLOCK FALSE
