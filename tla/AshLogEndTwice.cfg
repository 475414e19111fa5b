\* A shell with a terminal: -S, then -E from it and from a shell that
\* inherited its id, a second apart.
CONSTANTS
    HasTty = TRUE
    InheritedIds <- MCNoInheritedIds
    NoValue = NoValue
    MaxCalls = 4
    MaxTime = 1
    ProcFs = {TRUE}
    ShellNames <- MCOneWordNames
    Addrs <- MCAddrs
    Zones <- MCShortZones
    MaxIfaces = 0
    Junk = Junk
SPECIFICATION Spec
PROPERTY SessionEndKept
\* The shell stops after MaxCalls invocations.
CHECK_DEADLOCK FALSE
