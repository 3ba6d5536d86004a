------------------------ MODULE MCExternalExecution ------------------------
(***************************************************************************)
(* Model values, symmetry and the sets of lost-answer categories for the   *)
(* runs of ExternalExecution.                                              *)
(***************************************************************************)
EXTENDS ExternalExecution, TLC

CONSTANTS i1, i2, s1, s2, o1, o2

OneIntent == {i1}
TwoIntents == {i1, i2}
OneServer == {s1}
TwoServers == {s1, s2}
OneOrder == {o1}
TwoOrders == {o1, o2}

AnyError == {"TIMEOUT", "NETWORK", "PROVIDER_ERROR"}
TimeoutOnly == {"TIMEOUT"}

Interchangeable ==
  Permutations(TwoIntents) \cup Permutations(TwoServers) \cup Permutations(TwoOrders)
=============================================================================
