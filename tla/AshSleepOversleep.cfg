\* ash_sleep with DB_MAX_RETRIES unset (the default of 5 applies) and a
\* delay of 2..5 units from DB_FAIL_TIMEOUT=2 and DB_FAIL_RANDOM_TIMEOUT=4.
CONSTANTS
    RetriesCfg <- Unset
    FailMsCfg = 2
    RandomMsCfg = 4
    MsPerSec = 4
SPECIFICATION Spec
INVARIANT NeverOversleeps
CHECK_DEADLOCK FALSE
