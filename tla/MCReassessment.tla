--------------------------- MODULE MCReassessment ---------------------------
(* Small instances of Reassessment for TLC. *)
EXTENDS Reassessment

CONSTANTS s1, i1, i2, w1, w2

OneSubject == {s1}
TwoInputs == {i1, i2}
OneOrBoth == {{i1}, {i1, i2}}
TwoLanes == {w1, w2}

=============================================================================
