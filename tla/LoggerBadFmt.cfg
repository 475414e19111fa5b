\* Programs logging below FATAL, with a date format strftime rejects.
CONSTANTS
    Levels <- MCLevels
    ClockOk <- MCWorking
    FmtOk <- MCAny
    LogLevels <- MCLogLevels
    NoValue = NoValue
    MaxCalls = 2
    MaxDepth = 3
SPECIFICATION Spec
INVARIANT OnlyFatalExits
\* The process ends: its final state has no successor.
CHECK_DEADLOCK FALSE
