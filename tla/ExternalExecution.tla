------------------------- MODULE ExternalExecution -------------------------
(***************************************************************************)
(* One external offer (a flight) being bought by the server processes of   *)
(* the recovery engine: the cycle of src/app/target/externalOffer-         *)
(* Execution.ts, the attempt rows PgExecutionWorker compares and sets, and *)
(* the provider as the code uses it.                                       *)
(*                                                                         *)
(* Intents are the approved intents that share one logical operation key   *)
(* and request fingerprint, one for each re-plan of the same purchase; the *)
(* pass makes at most one attempt, number 1, for an intent.  Which intent  *)
(* is approved, current and within budget is decided by the stored gate,   *)
(* whose answer is free here.                                              *)
(***************************************************************************)
EXTENDS ExecutionStatus, Naturals, FiniteSets

CONSTANTS
  Intents,      \* intents that ask for the same purchase
  Workers,      \* server processes, each with one execution service
  Orders,       \* provider order numbers
  None,         \* SQL null
  Marker,       \* a request_ref that is not an order: atlas:clientref:..., atlas:duplicate-unproven:...
  LostAs,       \* the error categories as which a lost answer can surface
  MaxFaults     \* bound on crashes, escaped exceptions and lost sessions

ASSUME ValuesDiffer ==
  /\ None \notin Intents \cup Workers \cup Orders
  /\ Marker \notin Orders \cup {None}
ASSUME LostAsCategories == LostAs \subseteq {"TIMEOUT", "NETWORK", "PROVIDER_ERROR"}
ASSUME FaultBound == MaxFaults \in Nat

VARIABLES
  \* the attempt row of each intent
  status, holder,        \* holder stands for claim_token and fencing_token: the worker that made the last claim
  leaseLive,             \* lease_expires_at is in the future
  ref,                   \* request_ref
  observed,              \* rows of execution_observations
  \* the workspace operation lease (session advisory lock)
  lock,
  \* each server process: where its cycle is, the rows left in its loop, the
  \* row in hand, the order in hand, and what the dispatcher or lookup returned
  pc, todo, item, ord, verdict,
  \* the provider
  order, hold,           \* state and hold of each order
  payCall, payFor,       \* the /pay.do request of each intent's attempt
  faults

rows == <<status, holder, leaseLive, ref, observed>>
cycles == <<pc, todo, item, ord, verdict>>
provider == <<order, hold, payCall, payFor>>
vars == <<rows, lock, cycles, provider, faults>>

PassPcs == {"prepare", "prepared", "claimed", "gated"}
DispatchPcs == {"create", "validate", "checkpoint", "adopt", "payGate", "pay",
                "paying", "poll", "record"}
ReconcilePcs == {"lookup", "settle"}
NoItemPcs == {"idle", "pass", "reconcile"}
Verdicts == {"SUCCESS", "FAILURE", "LOST_ORDER", "LOST_MARKER", "THROWN", "NONE"}

Init ==
  /\ status = [i \in Intents |-> NoRow]
  /\ holder = [i \in Intents |-> None]
  /\ leaseLive = [i \in Intents |-> FALSE]
  /\ ref = [i \in Intents |-> None]
  /\ observed = [i \in Intents |-> 0]
  /\ lock = None
  /\ pc = [w \in Workers |-> "idle"]
  /\ todo = [w \in Workers |-> {}]
  /\ item = [w \in Workers |-> None]
  /\ ord = [w \in Workers |-> None]
  /\ verdict = [w \in Workers |-> "NONE"]
  /\ order = [o \in Orders |-> "NONE"]
  /\ hold = [o \in Orders |-> "OPEN"]
  /\ payCall = [i \in Intents |-> "NONE"]
  /\ payFor = [i \in Intents |-> None]
  /\ faults = 0

-----------------------------------------------------------------------------
(* Helpers *)

Goto(w, label) == pc' = [pc EXCEPT ![w] = label]

\* What a row needs for the worker's compare-and-set to apply.
Applies(i, w, from, to) ==
  /\ canTransitionExecutionStatus(from, to)
  /\ status[i] = from
  /\ holder[i] = w

\* transitionExecutionAttempt with no request_ref; a fenced call changes
\* nothing and its caller goes on.
transitionExecutionAttempt(i, w, from, to) ==
  status' = IF Applies(i, w, from, to) THEN [status EXCEPT ![i] = to] ELSE status

\* The loop goes on to its next row, in the pass or in the reconciliation.
NextItem(w, loop) ==
  /\ Goto(w, loop)
  /\ item' = [item EXCEPT ![w] = None]
  /\ ord' = [ord EXCEPT ![w] = None]
  /\ verdict' = [verdict EXCEPT ![w] = "NONE"]
  /\ UNCHANGED todo

\* The dispatcher or the lookup returns v.
Return(w, v, label) ==
  /\ Goto(w, label)
  /\ verdict' = [verdict EXCEPT ![w] = v]

-----------------------------------------------------------------------------
(* The execution pass *)

\* An intent with no attempt, or with one that was prepared and never claimed.
loadCandidates == {i \in Intents : status[i] \in {NoRow, "PREPARED"}}

StartCycle(w) ==
  /\ pc[w] = "idle"
  /\ lock = None
  /\ lock' = w
  /\ Goto(w, "pass")
  /\ \E candidates \in SUBSET loadCandidates : todo' = [todo EXCEPT ![w] = candidates]
  /\ UNCHANGED <<rows, item, ord, verdict, provider, faults>>

TakeCandidate(w) ==
  /\ pc[w] = "pass"
  /\ \E i \in todo[w] :
       /\ todo' = [todo EXCEPT ![w] = @ \ {i}]
       /\ item' = [item EXCEPT ![w] = i]
  /\ Goto(w, "prepare")
  /\ UNCHANGED <<rows, lock, ord, verdict, provider, faults>>

\* Refused by the inputs or the stored gate, or replayed: nothing is written.
SkipCandidate(w) ==
  /\ pc[w] = "prepare"
  /\ NextItem(w, "pass")
  /\ UNCHANGED <<rows, lock, provider, faults>>

LeftoverPrepared(w) ==
  /\ pc[w] = "prepare"
  /\ status[item[w]] = "PREPARED"
  /\ Goto(w, "prepared")
  /\ UNCHANGED <<rows, lock, todo, item, ord, verdict, provider, faults>>

\* Mutant: an unknown outcome does not block a new attempt.
UnknownDoesNotBlock ==
  \A j \in Intents :
    status[j] \notin BLOCKING_STATUSES \ {"OUTCOME_UNKNOWN", "RECONCILIATION_REQUIRED"}

\* No row of the logical operation may be live or successful.
NotBlocked == \A j \in Intents : status[j] \notin BLOCKING_STATUSES

createPreparedExecutionAttempt(w) ==
  /\ pc[w] = "prepare"
  /\ status[item[w]] = NoRow
  /\ NotBlocked
  /\ status' = [status EXCEPT ![item[w]] = "PREPARED"]
  /\ Goto(w, "prepared")
  /\ UNCHANGED <<holder, leaseLive, ref, observed, lock, todo, item, ord, verdict,
                 provider, faults>>

\* Mutant: the claim does not look at the status.
claimUnguarded(w) ==
  /\ pc[w] = "prepared"
  /\ status' = [status EXCEPT ![item[w]] = "CLAIMED"]
  /\ holder' = [holder EXCEPT ![item[w]] = w]
  /\ leaseLive' = [leaseLive EXCEPT ![item[w]] = TRUE]
  /\ Goto(w, "claimed")
  /\ UNCHANGED <<ref, observed, lock, todo, item, ord, verdict, provider, faults>>

claimPrepared(w) ==
  /\ pc[w] = "prepared"
  /\ IF status[item[w]] = "PREPARED"
     THEN /\ status' = [status EXCEPT ![item[w]] = "CLAIMED"]
          /\ holder' = [holder EXCEPT ![item[w]] = w]
          /\ leaseLive' = [leaseLive EXCEPT ![item[w]] = TRUE]
          /\ Goto(w, "claimed")
          /\ UNCHANGED <<todo, item, ord, verdict>>
     ELSE /\ NextItem(w, "pass")
          /\ UNCHANGED <<status, holder, leaseLive>>
  /\ UNCHANGED <<ref, observed, lock, provider, faults>>

\* Wrong principal, a gate that no longer allows it, or no capability.
GateDenies(w) ==
  /\ pc[w] = "claimed"
  /\ transitionExecutionAttempt(item[w], w, "CLAIMED", "FAILED")
  /\ NextItem(w, "pass")
  /\ UNCHANGED <<holder, leaseLive, ref, observed, lock, provider, faults>>

GateAllows(w) ==
  /\ pc[w] = "claimed"
  /\ Goto(w, "gated")
  /\ UNCHANGED <<rows, lock, todo, item, ord, verdict, provider, faults>>

EnterDispatching(w) ==
  /\ pc[w] = "gated"
  /\ transitionExecutionAttempt(item[w], w, "CLAIMED", "DISPATCHING")
  /\ IF Applies(item[w], w, "CLAIMED", "DISPATCHING")
     THEN Goto(w, "create") /\ UNCHANGED <<todo, item, ord, verdict>>
     ELSE NextItem(w, "pass")
  /\ UNCHANGED <<holder, leaseLive, ref, observed, lock, provider, faults>>

-----------------------------------------------------------------------------
(* The Atlas dispatcher *)

\* Verification or creation ends in a definite answer without an order.
CreateRefused(w) ==
  /\ pc[w] = "create"
  /\ Return(w, "FAILURE", "record")
  /\ UNCHANGED <<rows, lock, todo, item, ord, provider, faults>>

NewOrder(o) ==
  /\ order[o] = "NONE"
  /\ order' = [order EXCEPT ![o] = "HELD"]
  /\ UNCHANGED <<hold, payCall, payFor>>

CreateAnswered(w) ==
  /\ pc[w] = "create"
  /\ \E o \in Orders : NewOrder(o) /\ ord' = [ord EXCEPT ![w] = o]
  /\ Goto(w, "checkpoint")
  /\ UNCHANGED <<rows, lock, todo, item, verdict, faults>>

\* The answer to the create is lost: an order may or may not exist.
CreateLost(w) ==
  /\ pc[w] = "create"
  /\ \E category \in LostAs :
       Return(w, IF category = "TIMEOUT" THEN "LOST_MARKER" ELSE "FAILURE", "record")
  /\ (\E o \in Orders : NewOrder(o)) \/ UNCHANGED provider
  /\ UNCHANGED <<rows, lock, todo, item, ord, faults>>

\* Duplicate detection points at one existing order, which is read next.
CreateDuplicate(w) ==
  /\ pc[w] = "create"
  /\ \E o \in Orders : order[o] # "NONE" /\ ord' = [ord EXCEPT ![w] = o]
  /\ Goto(w, "validate")
  /\ UNCHANGED <<rows, lock, todo, item, verdict, provider, faults>>

\* Duplicate detection points at orders that cannot be told apart.
DuplicateUnproven(w) ==
  /\ pc[w] \in {"create", "validate"}
  /\ Return(w, "LOST_MARKER", "record")
  /\ UNCHANGED <<rows, lock, todo, item, ord, provider, faults>>

DuplicateMismatch(w) ==
  /\ pc[w] = "validate"
  /\ Return(w, "FAILURE", "record")
  /\ UNCHANGED <<rows, lock, todo, item, ord, provider, faults>>

\* validateExistingOrder answers MATCH: never for a cancelled order.
DuplicateMatch(w) ==
  /\ pc[w] = "validate"
  /\ \/ order[ord[w]] = "HELD" /\ Goto(w, "checkpoint")
     \/ order[ord[w]] \in {"PAID", "TICKETED"} /\ Goto(w, "adopt")
  /\ UNCHANGED <<rows, lock, todo, item, ord, verdict, provider, faults>>

CheckpointApplies(i, w, o) ==
  /\ status[i] = "DISPATCHING"
  /\ holder[i] = w
  /\ ref[i] \in {None, o}

WriteCheckpoint(i, o) ==
  /\ ref' = [ref EXCEPT ![i] = o]
  /\ leaseLive' = [leaseLive EXCEPT ![i] = TRUE]

\* The reference is on the row before any payment.
checkpointRequestRef(w) ==
  /\ pc[w] \in {"checkpoint", "adopt"}
  /\ CheckpointApplies(item[w], w, ord[w])
  /\ WriteCheckpoint(item[w], ord[w])
  /\ Goto(w, IF pc[w] = "adopt" THEN "poll" ELSE "payGate")
  /\ UNCHANGED <<status, holder, observed, lock, todo, item, ord, verdict, provider, faults>>

\* Mutant: the dispatcher pays although the checkpoint did not land.
CheckpointIgnored(w) ==
  /\ pc[w] \in {"checkpoint", "adopt"}
  /\ Goto(w, "payGate")
  /\ UNCHANGED <<rows, lock, todo, item, ord, verdict, provider, faults>>

\* The write is fenced, or it fails; a failed write may still have landed.
CheckpointFails(w) ==
  /\ pc[w] \in {"checkpoint", "adopt"}
  /\ \/ CheckpointApplies(item[w], w, ord[w]) /\ WriteCheckpoint(item[w], ord[w])
     \/ UNCHANGED <<ref, leaseLive>>
  /\ Return(w, "LOST_ORDER", "record")
  /\ UNCHANGED <<status, holder, observed, lock, todo, item, ord, provider, faults>>

\* The ceiling gate, or the adapter's pre-payment check, refuses.
PayGateRefuses(w) ==
  /\ pc[w] = "payGate"
  /\ Return(w, "FAILURE", "record")
  /\ UNCHANGED <<rows, lock, todo, item, ord, provider, faults>>

\* preCheckPayable: pay a HELD order only; one already paid is only observed.
PayGatePasses(w) ==
  /\ pc[w] = "payGate"
  /\ \/ order[ord[w]] = "HELD" /\ Goto(w, "pay")
     \/ order[ord[w]] \in {"PAID", "TICKETED"} /\ Goto(w, "poll")
  /\ UNCHANGED <<rows, lock, todo, item, ord, verdict, provider, faults>>

payOrder(w) ==
  /\ pc[w] = "pay"
  /\ payCall' = [payCall EXCEPT ![item[w]] = "SENT"]
  /\ payFor' = [payFor EXCEPT ![item[w]] = ord[w]]
  /\ Goto(w, "paying")
  /\ UNCHANGED <<rows, lock, todo, item, ord, verdict, order, hold, faults>>

PayAnswered(w) ==
  /\ pc[w] = "paying"
  /\ \/ /\ payCall[item[w]] \in {"ACCEPTED", "ALREADY"}
        /\ Goto(w, "poll")
        /\ UNCHANGED verdict
     \/ /\ payCall[item[w]] = "DECLINED"
        /\ Return(w, "FAILURE", "record")
  /\ UNCHANGED <<rows, lock, todo, item, ord, provider, faults>>

\* The provider says the payment is in progress: not an outcome, so observe.
PayInProgress(w) ==
  /\ pc[w] = "paying"
  /\ payCall[item[w]] = "SENT"
  /\ Goto(w, "poll")
  /\ UNCHANGED <<rows, lock, todo, item, ord, verdict, provider, faults>>

\* Mutant: a payment that timed out is a failed payment.
PayTimeoutFails(w) ==
  /\ pc[w] = "paying"
  /\ Return(w, "FAILURE", "record")
  /\ UNCHANGED <<rows, lock, todo, item, ord, provider, faults>>

\* No answer reaches the process, whatever the provider did or will do.
PayLost(w) ==
  /\ pc[w] = "paying"
  /\ \E category \in LostAs :
       Return(w, IF category = "TIMEOUT" THEN "LOST_ORDER" ELSE "FAILURE", "record")
  /\ UNCHANGED <<rows, lock, todo, item, ord, provider, faults>>

\* Up to six reads: ticketed, failed after payment, or not known in the end.
Poll(w) ==
  /\ pc[w] = "poll"
  /\ \/ order[ord[w]] = "TICKETED" /\ Return(w, "SUCCESS", "record")
     \/ order[ord[w]] = "CANCELLED" /\ Return(w, "FAILURE", "record")
     \/ Return(w, "LOST_ORDER", "record")
  /\ UNCHANGED <<rows, lock, todo, item, ord, provider, faults>>

DispatcherThrows(w) ==
  /\ pc[w] \in DispatchPcs \ {"record"}
  /\ Return(w, "THROWN", "record")
  /\ UNCHANGED <<rows, lock, todo, item, ord, provider, faults>>

\* What the worker makes of the dispatcher's answer.
OutcomeOf(v) ==
  CASE v = "SUCCESS" -> "OBSERVED_SUCCESS"
    [] v = "FAILURE" -> "OBSERVED_FAILURE"
    [] OTHER -> "OUTCOME_UNKNOWN"

\* request_ref = COALESCE(requestRef, request_ref)
RefAfter(w, v) ==
  CASE v = "LOST_ORDER" -> ord[w]
    [] v = "LOST_MARKER" -> Marker
    [] OTHER -> ref[item[w]]

\* An observation is inserted with OBSERVED_SUCCESS, in one transaction.
Observe(i, v) ==
  observed' = IF v = "SUCCESS" THEN [observed EXCEPT ![i] = @ + 1] ELSE observed

Record(w) ==
  /\ pc[w] = "record"
  /\ LET i == item[w]
         v == verdict[w]
     IN  IF Applies(i, w, "DISPATCHING", OutcomeOf(v))
         THEN /\ status' = [status EXCEPT ![i] = OutcomeOf(v)]
              /\ ref' = [ref EXCEPT ![i] = RefAfter(w, v)]
              /\ Observe(i, v)
         ELSE UNCHANGED <<status, ref, observed>>
  /\ NextItem(w, "pass")
  /\ UNCHANGED <<holder, leaseLive, lock, provider, faults>>

-----------------------------------------------------------------------------
(* Reconciliation: read-only, keyed by the reference on the row *)

\* Mutant: only unknown outcomes are reconciled.
ReconcilableUnknown(i) == status[i] \in {"OUTCOME_UNKNOWN", "RECONCILIATION_REQUIRED"}

\* Unknown outcomes, and dispatches whose lease has lapsed.
Reconcilable(i) ==
  \/ status[i] \in {"OUTCOME_UNKNOWN", "RECONCILIATION_REQUIRED"}
  \/ status[i] \in {"DISPATCHING", "DISPATCHED"} /\ ~leaseLive[i]

StartReconciliation(w) ==
  /\ pc[w] = "pass"
  /\ todo[w] = {}
  /\ todo' = [todo EXCEPT ![w] = {i \in Intents : Reconcilable(i)}]
  /\ Goto(w, "reconcile")
  /\ UNCHANGED <<rows, lock, item, ord, verdict, provider, faults>>

claimForReconciliation(w) ==
  /\ pc[w] = "reconcile"
  /\ \E i \in todo[w] :
       /\ todo' = [todo EXCEPT ![w] = @ \ {i}]
       /\ IF Reconcilable(i)
          THEN /\ status' = [status EXCEPT ![i] = "RECONCILIATION_REQUIRED"]
               /\ holder' = [holder EXCEPT ![i] = w]
               /\ leaseLive' = [leaseLive EXCEPT ![i] = TRUE]
               /\ item' = [item EXCEPT ![w] = i]
               /\ Goto(w, "lookup")
          ELSE UNCHANGED <<status, holder, leaseLive, item, pc>>
  /\ UNCHANGED <<ref, observed, lock, ord, verdict, provider, faults>>

\* Mutants: paid is taken for ticketed; a HELD order is a failure at once;
\* a HELD order is never a failure.
LookupTakesPaid(o) ==
  CASE order[o] \in {"PAID", "TICKETED"} -> "SUCCESS"
    [] order[o] = "CANCELLED" -> "FAILURE"
    [] order[o] = "HELD" /\ hold[o] = "PAST_MARGIN" -> "FAILURE"
    [] OTHER -> "NONE"

LookupFailsHeld(o) ==
  CASE order[o] = "TICKETED" -> "SUCCESS"
    [] order[o] \in {"CANCELLED", "HELD"} -> "FAILURE"
    [] OTHER -> "NONE"

LookupWaitsForHeld(o) ==
  CASE order[o] = "TICKETED" -> "SUCCESS"
    [] order[o] = "CANCELLED" -> "FAILURE"
    [] OTHER -> "NONE"

\* A HELD order is a failure only when its hold expired a margin ago.
LookupVerdict(o) ==
  CASE order[o] = "TICKETED" -> "SUCCESS"
    [] order[o] = "CANCELLED" -> "FAILURE"
    [] order[o] = "HELD" /\ hold[o] = "PAST_MARGIN" -> "FAILURE"
    [] OTHER -> "NONE"

LookupAnswered(w) ==
  /\ pc[w] = "lookup"
  /\ ref[item[w]] \in Orders
  /\ LET v == LookupVerdict(ref[item[w]])
     IN  IF v = "NONE" THEN NextItem(w, "reconcile")
                       ELSE Return(w, v, "settle") /\ UNCHANGED <<todo, item, ord>>
  /\ UNCHANGED <<rows, lock, provider, faults>>

\* No order to look up, the read failed, or its answer is not mapped.
LookupUnknown(w) ==
  /\ pc[w] = "lookup"
  /\ NextItem(w, "reconcile")
  /\ UNCHANGED <<rows, lock, provider, faults>>

Settle(w) ==
  /\ pc[w] = "settle"
  /\ LET i == item[w]
         v == verdict[w]
     IN  IF Applies(i, w, "RECONCILIATION_REQUIRED", OutcomeOf(v))
         THEN /\ status' = [status EXCEPT ![i] = OutcomeOf(v)]
              /\ Observe(i, v)
         ELSE UNCHANGED <<status, observed>>
  /\ NextItem(w, "reconcile")
  /\ UNCHANGED <<holder, leaseLive, ref, lock, provider, faults>>

ReleaseLock(w) == lock' = IF lock = w THEN None ELSE lock

EndCycle(w) ==
  /\ pc[w] = "reconcile"
  /\ todo[w] = {}
  /\ ReleaseLock(w)
  /\ Goto(w, "idle")
  /\ UNCHANGED <<rows, todo, item, ord, verdict, provider, faults>>

-----------------------------------------------------------------------------
(* Faults, time and the provider *)

\* The process dies, or an exception leaves the cycle: a new pass comes later.
Stop(w) ==
  /\ pc[w] # "idle"
  /\ faults < MaxFaults
  /\ faults' = faults + 1
  /\ ReleaseLock(w)
  /\ todo' = [todo EXCEPT ![w] = {}]
  /\ Goto(w, "idle")
  /\ item' = [item EXCEPT ![w] = None]
  /\ ord' = [ord EXCEPT ![w] = None]
  /\ verdict' = [verdict EXCEPT ![w] = "NONE"]
  /\ UNCHANGED <<rows, provider>>

\* The session that holds the advisory lock is lost; the cycle runs on.
LoseSession(w) ==
  /\ lock = w
  /\ faults < MaxFaults
  /\ faults' = faults + 1
  /\ lock' = None
  /\ UNCHANGED <<rows, cycles, provider>>

\* Nothing reads the lease of a row that is neither claimed nor dispatching.
LeaseLapses(i) ==
  /\ status[i] \in {"CLAIMED", "DISPATCHING"}
  /\ leaseLive[i]
  /\ leaseLive' = [leaseLive EXCEPT ![i] = FALSE]
  /\ UNCHANGED <<status, holder, ref, observed, lock, cycles, provider, faults>>

\* The hold expires; later HOLD_EXPIRY_MARGIN_MS have passed as well.
HoldLapses(o) ==
  /\ order[o] = "HELD"
  /\ \/ hold[o] = "OPEN" /\ hold' = [hold EXCEPT ![o] = "LAPSED"]
     \/ hold[o] = "LAPSED" /\ hold' = [hold EXCEPT ![o] = "PAST_MARGIN"]
  /\ UNCHANGED <<rows, lock, cycles, order, payCall, payFor, faults>>

ProviderAcceptsPay(i) ==
  /\ payCall[i] = "SENT"
  /\ order[payFor[i]] = "HELD"
  /\ hold[payFor[i]] = "OPEN"
  /\ order' = [order EXCEPT ![payFor[i]] = "PAID"]
  /\ payCall' = [payCall EXCEPT ![i] = "ACCEPTED"]
  /\ UNCHANGED <<rows, lock, cycles, hold, payFor, faults>>

ProviderAnswersPay(i) ==
  /\ payCall[i] = "SENT"
  /\ \/ /\ order[payFor[i]] \in {"PAID", "TICKETED"}
        /\ payCall' = [payCall EXCEPT ![i] = "ALREADY"]
     \/ payCall' = [payCall EXCEPT ![i] = "DECLINED"]
  /\ UNCHANGED <<rows, lock, cycles, order, hold, payFor, faults>>

ProviderTickets(o) ==
  /\ order[o] = "PAID"
  /\ order' = [order EXCEPT ![o] = "TICKETED"]
  /\ UNCHANGED <<rows, lock, cycles, hold, payCall, payFor, faults>>

ProviderCancels(o) ==
  /\ order[o] \in {"HELD", "PAID", "TICKETED"}
  /\ order' = [order EXCEPT ![o] = "CANCELLED"]
  /\ UNCHANGED <<rows, lock, cycles, hold, payCall, payFor, faults>>

-----------------------------------------------------------------------------
Dispatcher(w) ==
  \/ CreateRefused(w) \/ CreateAnswered(w) \/ CreateLost(w)
  \/ CreateDuplicate(w) \/ DuplicateUnproven(w) \/ DuplicateMismatch(w)
  \/ DuplicateMatch(w) \/ checkpointRequestRef(w) \/ CheckpointFails(w)
  \/ PayGateRefuses(w) \/ PayGatePasses(w) \/ payOrder(w)
  \/ PayAnswered(w) \/ PayInProgress(w) \/ PayLost(w) \/ Poll(w)
  \/ DispatcherThrows(w)

Pass(w) ==
  \/ StartCycle(w) \/ TakeCandidate(w) \/ SkipCandidate(w)
  \/ LeftoverPrepared(w) \/ createPreparedExecutionAttempt(w)
  \/ claimPrepared(w) \/ GateDenies(w) \/ GateAllows(w)
  \/ EnterDispatching(w) \/ Record(w)

Reconciliation(w) ==
  \/ StartReconciliation(w) \/ claimForReconciliation(w) \/ LookupAnswered(w)
  \/ LookupUnknown(w) \/ Settle(w) \/ EndCycle(w)

Step(w) == Pass(w) \/ Dispatcher(w) \/ Reconciliation(w)

Fault(w) == Stop(w) \/ LoseSession(w)

Provider ==
  \/ \E i \in Intents : ProviderAcceptsPay(i) \/ ProviderAnswersPay(i)
  \/ \E o \in Orders : HoldLapses(o) \/ ProviderTickets(o) \/ ProviderCancels(o)

Next ==
  \/ \E w \in Workers : Step(w) \/ Fault(w)
  \/ \E i \in Intents : LeaseLapses(i)
  \/ Provider

Spec == Init /\ [][Next]_vars

\* The execution service runs a pass again and again; expiry times pass; the
\* provider tickets what is paid, and a read of an order is answered some time.
Fairness ==
  /\ \A w \in Workers : WF_vars(Step(w))
  /\ \A i \in Intents : WF_vars(LeaseLapses(i))
  /\ \A o \in Orders : WF_vars(HoldLapses(o)) /\ WF_vars(ProviderTickets(o))
  /\ \A i \in Intents : SF_vars(\E w \in Workers : item[w] = i /\ LookupAnswered(w))

FairSpec == Spec /\ Fairness

-----------------------------------------------------------------------------
(* Properties *)

\* The statuses the external path writes: DISPATCHED, RECONCILED and
\* COMPLETED are in the state machine, and nothing on this path sets them.
WrittenStatuses ==
  { NoRow, "PREPARED", "CLAIMED", "DISPATCHING", "OUTCOME_UNKNOWN",
    "RECONCILIATION_REQUIRED", "OBSERVED_SUCCESS", "OBSERVED_FAILURE", "FAILED" }

(* The shape of the state.  Between two rows of a loop a cycle has none in
   hand, and inside the loop body it has one: NextItem clears what the last
   iteration left (the loops of runExternalOfferExecutionPass and
   runExternalReconciliation keep nothing across iterations). *)
TypeOK ==
  /\ status \in [Intents -> WrittenStatuses]
  /\ holder \in [Intents -> Workers \cup {None}]
  /\ leaseLive \in [Intents -> BOOLEAN]
  /\ ref \in [Intents -> Orders \cup {None, Marker}]
  /\ observed \in [Intents -> Nat]
  /\ lock \in Workers \cup {None}
  /\ pc \in [Workers -> NoItemPcs \cup PassPcs \cup DispatchPcs \cup ReconcilePcs]
  /\ todo \in [Workers -> SUBSET Intents]
  /\ item \in [Workers -> Intents \cup {None}]
  /\ \A w \in Workers : item[w] = None <=> pc[w] \in NoItemPcs
  /\ ord \in [Workers -> Orders \cup {None}]
  /\ verdict \in [Workers -> Verdicts]
  /\ order \in [Orders -> {"NONE", "HELD", "PAID", "TICKETED", "CANCELLED"}]
  /\ hold \in [Orders -> {"OPEN", "LAPSED", "PAST_MARGIN"}]
  /\ payCall \in [Intents -> {"NONE", "SENT", "ACCEPTED", "ALREADY", "DECLINED"}]
  /\ payFor \in [Intents -> Orders \cup {None}]
  /\ faults \in 0..MaxFaults

(* N1 of the dispatcher: whatever crashes, times out or is fenced later, an
   order for which payment was ever requested is the one whose reference is
   on the attempt row, so reconciliation can always find it. *)
PayOnlyCheckpointed ==
  \A i \in Intents : payCall[i] # "NONE" => payFor[i] \in Orders /\ ref[i] = payFor[i]

(* The observation row and OBSERVED_SUCCESS appear together, once, although
   a fenced dispatcher and a reconciliation may both see the ticket. *)
OneObservationPerSuccess ==
  \A i \in Intents : observed[i] = IF status[i] = "OBSERVED_SUCCESS" THEN 1 ELSE 0

(* Success is never assumed: the order the row names has been ticketed (it
   may have been cancelled by the provider since). *)
SuccessOnlyIfTicketed ==
  \A i \in Intents :
    status[i] = "OBSERVED_SUCCESS" =>
      ref[i] \in Orders /\ order[ref[i]] \in {"TICKETED", "CANCELLED"}

(* No blind retry: an attempt a dispatcher has touched never becomes eligible
   for a dispatch again, and one that has an outcome keeps it. *)
NoRedispatch ==
  [][\A i \in Intents :
       /\ status[i] \notin {NoRow, "PREPARED"} =>
            status'[i] \notin {NoRow, "PREPARED"}
              /\ (status[i] # "CLAIMED" => status'[i] # "CLAIMED")
       /\ status[i] \in {"OBSERVED_SUCCESS", "OBSERVED_FAILURE", "FAILED"} =>
            status'[i] = status[i]]_vars

\* The money of an intent: its own pay request was accepted and the order stands.
Standing(i) ==
  payCall[i] = "ACCEPTED" /\ order[payFor[i]] \in {"PAID", "TICKETED"}

(* A row that reports failure, and so lets a re-plan buy again, has no
   standing payment and never gets one: "OBSERVED_FAILURE / FAILED rows may
   coexist so a confirmed safe failure can retry" (migration 0113). *)
FailedAttemptNeverCharged ==
  \A i \in Intents : status[i] \in {"OBSERVED_FAILURE", "FAILED"} => ~Standing(i)

(* Across re-plans, crashes and lost answers the offer is not paid for twice. *)
AtMostOneStandingPurchase ==
  \A i, j \in Intents : Standing(i) /\ Standing(j) => i = j

\* What the rows and the provider look like to somebody who only asks whether
\* a purchase is reported and whether it is paid.
Reported(i) ==
  CASE status[i] \in {NoRow, "PREPARED", "CLAIMED"} -> "NOTHING"
    [] status[i] \in mayHaveBeenSent -> "UNCERTAIN"
    [] status[i] \in SUCCESS_STATUSES -> "SUCCEEDED"
    [] OTHER -> "FAILED"

Payment(i) ==
  CASE Standing(i) -> "STANDING"
    [] payCall[i] = "ACCEPTED" /\ ~Standing(i) -> "RETURNED"
    [] OTHER -> "NONE"

Purchase == INSTANCE PurchaseOnce
  WITH reported <- [i \in Intents |-> Reported(i)],
       payment <- [i \in Intents |-> Payment(i)]

(* The cycle, with its leases, fencing and lost answers, implements the
   purchase that is made once. *)
ImplementsPurchaseOnce == Purchase!PurchaseSpec

(* A dispatch that a crash or an exception cut short leaves DISPATCHING: some
   later cycle sweeps it into reconciliation once its lease has lapsed. *)
AbandonedDispatchIsSwept ==
  \A i \in Intents : status[i] = "DISPATCHING" ~> status[i] # "DISPATCHING"

(* An unknown outcome whose row carries an order is settled in the end: the
   order is ticketed, or cancelled, or its hold runs out unpaid. *)
CheckpointedOutcomeSettles ==
  \A i \in Intents :
    (status[i] \in {"OUTCOME_UNKNOWN", "RECONCILIATION_REQUIRED"} /\ ref[i] \in Orders)
      ~> status[i] \in {"OBSERVED_SUCCESS", "OBSERVED_FAILURE"}

(* A claim that was never dispatched is not lost: "Claims one PREPARED attempt
   (or reclaim expired CLAIMED that never dispatched)" (pgExecutionWorker.ts). *)
ClaimIsNotStranded ==
  \A i \in Intents : status[i] = "CLAIMED" ~> status[i] # "CLAIMED"
=============================================================================
