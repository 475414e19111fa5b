----------------------------- MODULE MCAshStore -----------------------------
(* Processes and bounds for checking AshStore. *)
EXTENDS AshStore, TLC

CONSTANTS p1, p2, p3

MCProcs2 == {p1, p2}
MCProcs3 == {p1, p2, p3}
MCSymmetry == Permutations(Procs)

=============================================================================
