\* A shell with a terminal that starts without ASH_SESSION_ID; seven
\* invocations reach -S, commands, -E, a new shell and -S again.  Linux
\* hosts with a one-word shell name and a short time zone abbreviation.
CONSTANTS
    HasTty = TRUE
    InheritedIds <- MCNoInheritedIds
    NoValue = NoValue
    MaxCalls = 7
    MaxTime = 2
    ProcFs = {TRUE}
    ShellNames <- MCOneWordNames
    Addrs <- MCAddrs
    Zones <- MCShortZones
    MaxIfaces = 0
    Junk = Junk
SPECIFICATION Spec
INVARIANT SessionRowsDescribeShell
\* The shell stops after MaxCalls invocations.
CHECK_DEADLOCK FALSE
