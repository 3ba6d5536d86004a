------------------------ MODULE PurchaseOnceProofs ------------------------
(***************************************************************************)
(* What the abstract purchase promises: the two facts for which it is      *)
(* worth implementing.                                                     *)
(***************************************************************************)
EXTENDS PurchaseOnce, TLAPS

\* The intent's outcome is open or it has bought: it excludes every other one.
Exclusive(i) == reported[i] \in {"UNCERTAIN", "SUCCEEDED"}

(* The inductive invariant: one intent at a time is uncertain or successful,
   and money stands for such an intent only. *)
PurchaseInv ==
  /\ PurchaseTypeOK
  /\ \A i, j \in Intents : Exclusive(i) /\ Exclusive(j) => i = j
  /\ \A i \in Intents : payment[i] = "STANDING" => Exclusive(i)

(* Every step of the abstract purchase keeps the inductive invariant. *)
LEMMA PurchaseInvariant == PurchaseSpec => []PurchaseInv
<1>1. PurchaseInit => PurchaseInv
  BY DEF PurchaseInit, PurchaseInv, PurchaseTypeOK, Exclusive
<1>2. PurchaseInv /\ [PurchaseNext]_purchaseVars => PurchaseInv'
  <2> SUFFICES ASSUME PurchaseInv, [PurchaseNext]_purchaseVars
               PROVE  PurchaseInv'
    OBVIOUS
  <2> USE DEF PurchaseInv, PurchaseTypeOK, Exclusive
  <2>1. CASE UNCHANGED purchaseVars
    BY <2>1 DEF purchaseVars
  <2>2. ASSUME NEW i \in Intents, Begin(i)
        PROVE  PurchaseInv'
    BY <2>2 DEF Begin, Report
  <2>3. ASSUME NEW i \in Intents, Refuse(i)
        PROVE  PurchaseInv'
    BY <2>3 DEF Refuse, Report
  <2>4. ASSUME NEW i \in Intents, Charge(i)
        PROVE  PurchaseInv'
    BY <2>4 DEF Charge
  <2>5. ASSUME NEW i \in Intents, Return(i)
        PROVE  PurchaseInv'
    BY <2>5 DEF Return
  <2>6. ASSUME NEW i \in Intents, Succeed(i)
        PROVE  PurchaseInv'
    BY <2>6 DEF Succeed, Report
  <2>7. ASSUME NEW i \in Intents, Fail(i)
        PROVE  PurchaseInv'
    BY <2>7 DEF Fail, Report
  <2>8. QED
    BY <2>1, <2>2, <2>3, <2>4, <2>5, <2>6, <2>7 DEF PurchaseNext
<1>3. QED
  BY <1>1, <1>2, PTL DEF PurchaseSpec

(* At most one intent of the operation ever has a standing payment: what the
   partial unique index on the logical operation and the stored gate are for. *)
THEOREM PurchasedOnce == PurchaseSpec => []SinglePurchase
<1>1. PurchaseInv => SinglePurchase
  BY DEF PurchaseInv, SinglePurchase
<1>2. QED
  BY <1>1, PurchaseInvariant, PTL

(* A purchase that is reported failed is not paid for: the reason why a
   re-plan may try again after OBSERVED_FAILURE or FAILED. *)
THEOREM FailedIsUnpaid == PurchaseSpec => []FailureIsUnpaid
<1>1. PurchaseInv => FailureIsUnpaid
  BY DEF PurchaseInv, FailureIsUnpaid, Exclusive
<1>2. QED
  BY <1>1, PurchaseInvariant, PTL
=============================================================================
