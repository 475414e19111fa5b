\* Commands "cd" and "ls" with up to two characters of argument drawn from
\* a printable letter, a quote, a tab and an unprintable byte.
CONSTANTS
    Words <- MCWords
    CdPrefixed = {"cd"}
    Chars <- MCChars
    Dirs <- MCDirs
    NoValue = NoValue
    HasTty = TRUE
    MaxArgLen = 2
    MaxCommands = 2
SPECIFICATION Spec
INVARIANTS InsertRoundTrip CwdIsWhereItRan
\* The shell stops after MaxCommands commands.
CHECK_DEADLOCK FALSE
