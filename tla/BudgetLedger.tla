---------------------------- MODULE BudgetLedger ----------------------------
(***************************************************************************)
(* What holding the cost of intents against budgets promises, with no      *)
(* revision, snapshot, lock, retry or lost answer in it: a hold is decided *)
(* on all that the budget has promised at that moment, an intent is        *)
(* approved where it is held, and neither is taken back.                   *)
(***************************************************************************)
EXTENDS Naturals

CONSTANTS
  Intents,    \* costed action intents
  Budgets,    \* candidate budgets
  Limit,      \* the amount of each
  CostOf(_)   \* the cost of a set of intents

VARIABLES
  held,      \* intents held on each budget
  approved   \* intents with an approval

ledger == <<held, approved>>

Init ==
  /\ held = [b \in Budgets |-> {}]
  /\ approved = {}

\* The cost of i is held on b, once, if b has it left.
Hold(i, b) ==
  /\ i \notin held[b]
  /\ CostOf(held[b] \cup {i}) <= Limit[b]
  /\ held' = [held EXCEPT ![b] = @ \cup {i}]
  /\ UNCHANGED approved

Approve(i) ==
  /\ \E b \in Budgets : i \in held[b]
  /\ approved' = approved \cup {i}
  /\ UNCHANGED held

Next == \E i \in Intents : Approve(i) \/ \E b \in Budgets : Hold(i, b)

Spec == Init /\ [][Next]_ledger
=============================================================================
