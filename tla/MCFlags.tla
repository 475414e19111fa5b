------------------------------- MODULE MCFlags -------------------------------
EXTENDS Flags

\* Flags of ash_query (ash_query.cpp lines 42-52) of each kind, and
\* --help of flags.cpp: a string and an int with a short name, a flag
\* with a short name, and flags with only a long name.
MCQueryDefs ==
    << [long |-> "format", short |-> "f", kind |-> "string", dflt |-> ""],
       [long |-> "limit", short |-> "l", kind |-> "int", dflt |-> 0],
       [long |-> "reverse", short |-> "R", kind |-> "flag", dflt |-> FALSE],
       [long |-> "version", short |-> "", kind |-> "flag", dflt |-> FALSE],
       [long |-> "help", short |-> "", kind |-> "flag", dflt |-> FALSE] >>

MCArgValues == {"1", "x"}
====
