\* -S on a Linux host whose time zone abbreviation has five characters
\* (+0545), with a terminal.
CONSTANTS
    HasTty = TRUE
    InheritedIds <- MCNoInheritedIds
    NoValue = NoValue
    MaxCalls = 3
    MaxTime = 0
    ProcFs = {TRUE}
    ShellNames <- MCOneWordNames
    Addrs <- MCAddrs
    Zones <- MCLongZones
    MaxIfaces = 0
    Junk = Junk
SPECIFICATION Spec
INVARIANT SessionIdNamesSession
\* The shell stops after MaxCalls invocations.
CHECK_DEADLOCK FALSE
