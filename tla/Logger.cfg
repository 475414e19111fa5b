\* Programs of up to three LOG calls, any level, on any host, with any
\* ASH_CFG_LOG_DATE_FMT and an ASH_CFG_LOG_LEVEL naming a level.
CONSTANTS
    Levels <- MCLevels
    ClockOk <- MCAny
    FmtOk <- MCAny
    LogLevels <- MCLogLevels
    NoValue = NoValue
    MaxCalls = 3
    MaxDepth = 3
SPECIFICATION Spec
INVARIANT RecursionBounded
\* The process ends: its final state has no successor.
CHECK_DEADLOCK FALSE
