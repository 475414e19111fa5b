---------------------------- MODULE UnixMetadata ----------------------------
(***************************************************************************)
(* Session::Session (src/src/session.cpp) and the helpers of              *)
(* src/src/unix.cpp it calls to describe the shell and the host: `_ash_log *)
(* -S` runs in the command substitution of the shell's hook, so the       *)
(* processes are, by pid, 1 the shell's parent (a terminal), 2 the shell, *)
(* 3 the subshell of the substitution (a fork of the shell, with its      *)
(* name) and 4 _ash_log itself.                                            *)
(*                                                                         *)
(* A host is what the program reads from the system: whether /proc        *)
(* exists, the name (comm) of the shell, a sequence of one or more words, *)
(* the network interfaces getifaddrs lists, the time zone abbreviation    *)
(* strftime writes, the terminal, and the ASH_CFG_ switches host_ip       *)
(* reads.  A word of /proc/<pid>/stat is a token: its text, whether it   *)
(* is a number, and whether it starts with "(" or ends with ")".  Junk    *)
(* stands for the content of memory the code reads without having        *)
(* written it.                                                             *)
(***************************************************************************)
EXTENDS Integers, Sequences, SequencesExt

CONSTANTS
    ProcFs,      \* whether /proc exists: TRUE on Linux, FALSE on OS X
    ShellNames,  \* comm values of the shell: sequences of words
    Addrs,       \* network addresses
    Zones,       \* time zone abbreviations: [name, len]
    MaxIfaces,   \* interfaces on the host
    NoValue,     \* a NULL pointer / getifaddrs failing
    Junk         \* bytes of memory never written

ASSUME ProcFs \subseteq BOOLEAN /\ MaxIfaces \in Nat

Pids == 1..4

Parent == [p \in Pids |-> p - 1]

Families == {"inet", "inet6", "packet", "none"}

Ifaces == [name : {"lo", "eth0"}, family : Families, addr : Addrs]

Hosts == [procfs : ProcFs,
          psIntact : BOOLEAN,
          shell : ShellNames,
          ifaces : BoundedSeq(Ifaces, MaxIfaces) \cup {NoValue},
          zone : Zones,
          tty : {NoValue, "pts/1"},
          skipLo : BOOLEAN, log4 : BOOLEAN, log6 : BOOLEAN]

\* SQL NULL: what DBObject::quote renders for a NULL or empty value.
Null == NoValue

Tok(x) == [text |-> x, num |-> FALSE, lp |-> FALSE, rp |-> FALSE]
Num(n) == [text |-> n, num |-> TRUE, lp |-> FALSE, rp |-> FALSE]
EmptyTok == Tok("")

\* The name of process p: the shell's, also for its subshell.
Comm(h, p) == IF p \in {2, 3} THEN h.shell ELSE <<"init">>

\* The words of /proc/<p>/stat up to the ppid: pid, "(comm)" split at its
\* blanks, state, ppid.
StatTokens(h, p) ==
    LET c == Comm(h, p) IN
    <<Num(p)>>
    \o [i \in 1..Len(c) |-> [text |-> c[i], num |-> FALSE,
                             lp |-> i = 1, rp |-> i = Len(c)]]
    \o <<Tok("S"), Num(Parent[p])>>

\* proc_stat(target, pid): the target'th word (from 0) read with `fin >>
\* token`; for a pid with no stat file the loop never runs and the token
\* stays empty.
ProcStat(h, target, p) ==
    IF p \in Pids THEN StatTokens(h, p)[target + 1] ELSE EmptyTok

\* atoi: the number a word starts with, 0 for a word that is not one.
Atoi(t) == IF t.num THEN t.text ELSE 0

\* get_ppid: proc_stat(3, pid) where /proc exists, else atoi of `ps ho
\* ppid`, whose result ps returns as a pointer into its own stack frame,
\* read after the frame is gone: the right pid when the bytes survive.
GetPpid(h, p) ==
    IF h.procfs THEN Atoi(ProcStat(h, 3, p))
    ELSE IF h.psIntact THEN Parent[p] ELSE Junk

\* Mutant: the shell taken to be _ash_log's parent.
ShellPidNoHop(h) == 3

\* shell_pid: the parent of _ash_log's parent (getppid() is 3).
ShellPid(h) == GetPpid(h, 3)

\* unix::ppid and unix::pid.
PpidColumn(h) == IF ShellPid(h) = Junk THEN Junk ELSE GetPpid(h, ShellPid(h))
PidColumn(h) == ShellPid(h)

\* unix::shell: word 1 of the shell's stat, its parentheses stripped when
\* it has both, quoted (DBObject::quote renders "" as null); without
\* /proc, the line `ps ho command` prints for the shell.  The column is
\* null or a token whose text is a sequence of words.
ShellColumn(h) ==
    IF h.procfs
    THEN LET sh == ProcStat(h, 1, ShellPid(h))
         IN  IF sh.text = "" THEN Null
             ELSE IF sh.lp /\ sh.rp THEN Tok(<<sh.text>>)
             ELSE [sh EXCEPT !.text = <<sh.text>>]
    ELSE IF h.psIntact THEN Tok(h.shell) ELSE Tok(Junk)

\* unix::tty: quote(ttyname(0)), "/dev/" found at 1 after the opening
\* quote is cut off.
TtyColumn(h) == IF h.tty = NoValue THEN Null ELSE h.tty

\* unix::time_zone: strftime "%Z" into a 5-byte buffer, quoted.  An
\* abbreviation longer than 4 does not fit: strftime returns 0 and the
\* buffer's content is indeterminate, which the code streams anyway: an
\* empty string, quoted as null, or bytes never written.
TimeZoneColumns(h) ==
    IF h.zone.len <= 4 THEN {h.zone.name} ELSE {Null, Junk}

\* One pass of host_ip's loop, acc being [buf, out]: a NULL address,
\* the loopback when SKIP_LOOPBACK is set and families other than
\* AF_INET/AF_INET6 are skipped by `continue`; an AF_INET (AF_INET6)
\* address is written to buffer only when LOG_IPV4 (LOG_IPV6) is set,
\* but either way the switch is left by `break`, ips is counted and
\* buffer is appended.
HostIpStep(h, acc, i) ==
    IF \/ i.family \in {"none", "packet"}
       \/ h.skipLo /\ i.name = "lo"
    THEN acc
    ELSE LET logged == IF i.family = "inet" THEN h.log4 ELSE h.log6
             buf    == IF logged THEN i.addr ELSE acc.buf
         IN  [buf |-> buf, out |-> Append(acc.out, buf)]

\* unix::host_ip: "null" when getifaddrs fails or no address was counted,
\* else the addresses separated by blanks (here: their sequence).
HostIpColumn(h) ==
    IF h.ifaces = NoValue THEN Null
    ELSE LET r == FoldLeft(LAMBDA acc, i : HostIpStep(h, acc, i),
                           [buf |-> Junk, out |-> <<>>], h.ifaces)
         IN  IF r.out = <<>> THEN Null ELSE r.out

VARIABLES
    host,     \* the system _ash_log -S runs on
    session   \* the values of the Session, NoValue before it is built

vars == <<host, session>>

Init ==
    /\ host \in Hosts
    /\ session = NoValue

\* Session::Session: the values map filled from unix::, one for each
\* content the time zone buffer may have.  The columns that copy one
\* system value (start_time, uid, euid, logname, hostname and the SUDO_
\* and SSH_ variables) are left out.
SessionValues(h) ==
    {[time_zone |-> tz,
      ppid      |-> PpidColumn(h),
      pid       |-> PidColumn(h),
      tty       |-> TtyColumn(h),
      host_ip   |-> HostIpColumn(h),
      shell     |-> ShellColumn(h)] : tz \in TimeZoneColumns(h)}

NewSession ==
    /\ session = NoValue
    /\ session' \in SessionValues(host)
    /\ UNCHANGED host

Next == NewSession

Spec == Init /\ [][Next]_vars

-----------------------------------------------------------------------------
(* Properties *)

\* Session values that name the shell of host h: its pid, its parent's
\* and its name.
DescribesShell(v, h) ==
    /\ v.pid = 2
    /\ v.ppid = 1
    /\ v.shell = Tok(h.shell)

\* The pid and ppid columns are the shell's pid and its parent's, and the
\* shell column the shell's name: get_ppid must step over the subshell and
\* read the right word of /proc/<pid>/stat twice, and shell must read the
\* name word and strip its parentheses.
SessionDescribesShell == session # NoValue => DescribesShell(session, host)

\* The addresses host_ip is asked to log: those of AF_INET interfaces when
\* LOG_IPV4 is set and of AF_INET6 when LOG_IPV6 is, the loopback left
\* out under SKIP_LOOPBACK.
LoggedAddrs(h) ==
    LET keep(i) == /\ \/ i.family = "inet" /\ h.log4
                      \/ i.family = "inet6" /\ h.log6
                   /\ ~(h.skipLo /\ i.name = "lo")
        s == SelectSeq(h.ifaces, keep)
    IN  IF s = <<>> THEN Null ELSE [k \in DOMAIN s |-> s[k].addr]

\* The host_ip column lists exactly the addresses of the families the
\* configuration asks for, each once, and "null" when there are none.
HostIpListsLogged ==
    session # NoValue /\ host.ifaces # NoValue =>
      session.host_ip = LoggedAddrs(host)

\* The time_zone column is the local zone's abbreviation.
TimeZoneIsZone ==
    session # NoValue => session.time_zone = host.zone.name

=============================================================================
