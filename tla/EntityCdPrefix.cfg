\* A command other than cd whose text begins with "cd" (cdrecord).
CONSTANTS
    Words <- MCWordsWithCdPrefix
    CdPrefixed <- MCCdPrefixed
    Chars = {"a"}
    Dirs <- MCDirs
    NoValue = NoValue
    HasTty = TRUE
    MaxArgLen = 0
    MaxCommands = 2
SPECIFICATION Spec
INVARIANT CwdIsWhereItRan
CHECK_DEADLOCK FALSE
