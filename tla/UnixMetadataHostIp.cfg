\* host_ip on Linux hosts with up to two interfaces, under every setting
\* of SKIP_LOOPBACK, LOG_IPV4 and LOG_IPV6 (by default none is set).
CONSTANTS
    ProcFs = {TRUE}
    ShellNames <- MCOneWordNames
    Addrs <- MCAddrs
    Zones <- MCShortZones
    MaxIfaces = 2
    NoValue = NoValue
    Junk = Junk
SPECIFICATION Spec
INVARIANT HostIpListsLogged
CHECK_DEADLOCK FALSE
