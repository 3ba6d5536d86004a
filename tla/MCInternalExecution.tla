------------------------ MODULE MCInternalExecution ------------------------
(* A small instance of InternalExecution for TLC. *)
EXTENDS InternalExecution

CONSTANTS q1, q2, p1, p2, first, second, other

TwoPasses == {q1, q2}
TwoPlans == {p1, p2}

\* A plan of two intents, the second after the first; the other plan makes the
\* second change of the first.
ChainAndOther == {first, second, other}
OfPlans == [i \in Intents |-> IF i = other THEN p2 ELSE p1]
SecondNeedsFirst == {<<second, first>>}
Moves == [i \in Intents |-> IF i = first THEN "first" ELSE "second"]
=============================================================================
