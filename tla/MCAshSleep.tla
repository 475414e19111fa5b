----------------------------- MODULE MCAshSleep -----------------------------
(* Configured values for checking AshSleep. *)
EXTENDS AshSleep

\* get_int's default when the variable is not set in the environment.
Unset == -1

=============================================================================
