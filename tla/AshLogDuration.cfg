\* A shell with a terminal: -S, then -E while the clock reaches the next
\* second.
CONSTANTS
    HasTty = TRUE
    InheritedIds <- MCNoInheritedIds
    NoValue = NoValue
    MaxCalls = 4
    MaxTime = 1
    ProcFs = {TRUE}
    ShellNames <- MCOneWordNames
    Addrs <- MCAddrs
    Zones <- MCShortZones
    MaxIfaces = 0
    Junk = Junk
SPECIFICATION Spec
INVARIANT DurationIsElapsed
\* The shell stops after MaxCalls invocations.
CHECK_DEADLOCK FALSE
