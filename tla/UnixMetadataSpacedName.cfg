\* A Linux host whose shell's name has a blank in it.
CONSTANTS
    ProcFs = {TRUE}
    ShellNames <- MCShellNames
    Addrs <- MCAddrs
    Zones <- MCShortZones
    MaxIfaces = 0
    NoValue = NoValue
    Junk = Junk
SPECIFICATION Spec
INVARIANT SessionDescribesShell
CHECK_DEADLOCK FALSE
