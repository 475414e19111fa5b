\* A host in a time zone whose abbreviation is a numeric offset.
CONSTANTS
    ProcFs = {TRUE}
    ShellNames <- MCOneWordNames
    Addrs <- MCAddrs
    Zones <- MCZones
    MaxIfaces = 0
    NoValue = NoValue
    Junk = Junk
SPECIFICATION Spec
INVARIANT TimeZoneIsZone
CHECK_DEADLOCK FALSE
