-------------------------- MODULE MCStayExecution --------------------------
(***************************************************************************)
(* The plan for the run of StayExecution: a replacement that is booked     *)
(* before the displaced stay is cancelled.                                 *)
(***************************************************************************)
EXTENDS StayExecution

CONSTANTS book, cancel, s1, s2

TwoServers == {s1, s2}
BookThenCancel == {book, cancel}
CancelOnly == {cancel}
CancelNeedsBook == [i \in BookThenCancel |-> IF i = cancel THEN {book} ELSE {}]
TimeoutOnly == {"TIMEOUT"}
=============================================================================
