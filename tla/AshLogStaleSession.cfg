\* -S in a shell that inherited the id of a session that has ended.
CONSTANTS
    HasTty = TRUE
    InheritedIds <- MCNoInheritedIds
    NoValue = NoValue
    MaxCalls = 5
    MaxTime = 0
    ProcFs = {TRUE}
    ShellNames <- MCOneWordNames
    Addrs <- MCAddrs
    Zones <- MCShortZones
    MaxIfaces = 0
    Junk = Junk
SPECIFICATION Spec
INVARIANT SessionIdIsOpen
CHECK_DEADLOCK FALSE
