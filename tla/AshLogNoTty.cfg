\* -S in a shell whose standard input is not a terminal.
CONSTANTS
    HasTty = FALSE
    InheritedIds <- MCNoInheritedIds
    NoValue = NoValue
    MaxCalls = 3
    MaxTime = 0
    ProcFs = {TRUE}
    ShellNames <- MCOneWordNames
    Addrs <- MCAddrs
    Zones <- MCShortZones
    MaxIfaces = 0
    Junk = Junk
SPECIFICATION Spec
INVARIANT SessionIdNamesSession
CHECK_DEADLOCK FALSE
