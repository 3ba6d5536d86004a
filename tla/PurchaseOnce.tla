---------------------------- MODULE PurchaseOnce ----------------------------
(***************************************************************************)
(* What the execution of an external offer promises, with no worker, lease *)
(* or message in it.  Several approved intents (one per re-plan) may ask   *)
(* for the same logical operation, the purchase of one offer.  Each is     *)
(* reported NOTHING, then UNCERTAIN (a request may be at the provider),    *)
(* then SUCCEEDED or FAILED; its payment is NONE, STANDING or RETURNED.    *)
(***************************************************************************)
CONSTANT Intents      \* the intents that share one logical operation key

VARIABLES
  reported,           \* what the durable record of each intent says
  payment             \* what happened to each intent's money

purchaseVars == <<reported, payment>>

PurchaseTypeOK ==
  /\ reported \in [Intents -> {"NOTHING", "UNCERTAIN", "SUCCEEDED", "FAILED"}]
  /\ payment \in [Intents -> {"NONE", "STANDING", "RETURNED"}]

PurchaseInit ==
  /\ reported = [i \in Intents |-> "NOTHING"]
  /\ payment = [i \in Intents |-> "NONE"]

Report(i, from, to) ==
  /\ reported[i] = from
  /\ reported' = [reported EXCEPT ![i] = to]
  /\ UNCHANGED payment

\* A request may go out only when no other intent is uncertain or has bought.
Begin(i) ==
  /\ \A j \in Intents : reported[j] \notin {"UNCERTAIN", "SUCCEEDED"}
  /\ Report(i, "NOTHING", "UNCERTAIN")

\* The intent is given up before anything was sent.
Refuse(i) == Report(i, "NOTHING", "FAILED")

\* The provider takes the money; possible only while the outcome is uncertain.
Charge(i) ==
  /\ reported[i] = "UNCERTAIN"
  /\ payment[i] = "NONE"
  /\ payment' = [payment EXCEPT ![i] = "STANDING"]
  /\ UNCHANGED reported

\* The provider cancels a paid order, at any time.
Return(i) ==
  /\ payment[i] = "STANDING"
  /\ payment' = [payment EXCEPT ![i] = "RETURNED"]
  /\ UNCHANGED reported

Succeed(i) ==
  /\ payment[i] # "NONE"
  /\ Report(i, "UNCERTAIN", "SUCCEEDED")

\* A failure is reported only when no payment stands.
Fail(i) ==
  /\ payment[i] # "STANDING"
  /\ Report(i, "UNCERTAIN", "FAILED")

PurchaseNext ==
  \E i \in Intents :
    Begin(i) \/ Refuse(i) \/ Charge(i) \/ Return(i) \/ Succeed(i) \/ Fail(i)

PurchaseSpec == PurchaseInit /\ [][PurchaseNext]_purchaseVars

-----------------------------------------------------------------------------
(* At most one intent of the operation is ever being paid for: the abstract
   reason why the same offer is not bought twice. *)
SinglePurchase ==
  \A i, j \in Intents :
    payment[i] = "STANDING" /\ payment[j] = "STANDING" => i = j

(* A reported failure is final and means no payment stands. *)
FailureIsUnpaid ==
  \A i \in Intents : reported[i] = "FAILED" => payment[i] # "STANDING"
=============================================================================
