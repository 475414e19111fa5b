\* Linux hosts (/proc present) with a one-word shell name, up to two
\* interfaces of every family, every SKIP_LOOPBACK/LOG_IPV4/LOG_IPV6
\* setting.
CONSTANTS
    ProcFs = {TRUE}
    ShellNames <- MCOneWordNames
    Addrs <- MCAddrs
    Zones <- MCShortZones
    MaxIfaces = 2
    NoValue = NoValue
    Junk = Junk
SPECIFICATION Spec
INVARIANT SessionDescribesShell
\* _ash_log -S prints the id and exits.
CHECK_DEADLOCK FALSE
