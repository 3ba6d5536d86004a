--------------------------- MODULE MCRecoveryCase ---------------------------
(* Small instances of RecoveryCase for TLC. *)
EXTENDS RecoveryCase, TLC

CONSTANTS p1, p2

OnePass == {p1}
TwoPasses == {p1, p2}

Interchangeable == Permutations(TwoPasses)
=============================================================================
