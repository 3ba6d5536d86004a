--------------------------- MODULE MCBudgetHold ---------------------------
(* Small instances of BudgetHold for TLC. *)
EXTENDS BudgetHold, TLC

CONSTANTS a1, a2, i1, i2, i3

TwoApprovers == {a1, a2}
ThreeIntents == {i1, i2, i3}

\* Two strategies, one of them with two costed intents.
TwoPlans == {<<i1, i2>>, <<i3>>}

\* No budget takes every intent, and what one has left the order decides.
UnevenCost == i1 :> 2 @@ i2 :> 1 @@ i3 :> 1
TwoBudgets == <<3, 2>>

Interchangeable == Permutations(TwoApprovers)
=============================================================================
