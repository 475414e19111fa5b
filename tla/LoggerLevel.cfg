\* Programs of up to two LOG calls on a working host, with ASH_CFG_LOG_LEVEL
\* set to a text that names no level.
CONSTANTS
    Levels <- MCLevels
    ClockOk <- MCWorking
    FmtOk <- MCWorking
    LogLevels <- MCAnyLogLevel
    NoValue = NoValue
    MaxCalls = 2
    MaxDepth = 3
SPECIFICATION Spec
INVARIANT FatalShown
\* The process ends: its final state has no successor.
CHECK_DEADLOCK FALSE
