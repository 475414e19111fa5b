------------------------------ MODULE MCLogger ------------------------------
EXTENDS Logger

\* The Severity enum of logger.hpp, UNKNOWN (a parse failure) excluded.
MCLevels == {"DEBUG", "INFO", "WARNING", "ERROR", "FATAL"}

\* ASH_CFG_LOG_LEVEL: unset (DEBUG) or naming a level.
MCLogLevels == {"DEBUG", "WARNING", "FATAL"}
\* A misspelled level as well.
MCAnyLogLevel == MCLogLevels \cup {"warn"}

\* A host where localtime and the date format both work.
MCWorking == {TRUE}
\* Any host and any configuration.
MCAny == BOOLEAN
====
