----------------------------- MODULE MCSleepLog -----------------------------
(* Configured values for checking SleepLog. *)
EXTENDS SleepLog

\* The Severity enum of logger.hpp, UNKNOWN (a parse failure) excluded.
MCLevels == {"DEBUG", "INFO", "WARNING", "ERROR", "FATAL"}

\* ASH_CFG_LOG_LEVEL: unset (DEBUG) or naming a level.
MCLogLevels == {"DEBUG", "ERROR", "FATAL"}

=============================================================================
