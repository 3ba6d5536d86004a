---------------------------- MODULE StayExecution ----------------------------
(***************************************************************************)
(* One selected plan of hotel stays, carried out by the server processes   *)
(* of the recovery engine: the cycle of src/app/target/externalStay-       *)
(* Execution.ts (dispatch, canonical application, reconciliation, and      *)
(* application again), the attempt rows PgExecutionWorker compares and     *)
(* sets, and the continuation checkpoints that let a later action of the   *)
(* plan run on a journey that earlier ones have changed.                   *)
(*                                                                         *)
(* The journey is the list of the changes made since the plan's base; a    *)
(* revision is a position in it.  It stands for everything the base read.  *)
(* Source and evidence of an application, which are inserted under keys of *)
(* their own, are left out, and so is the revision of the reservation,     *)
(* which only cancellations advance.                                       *)
(***************************************************************************)
EXTENDS ExecutionStatus, Naturals, Sequences

CONSTANTS
  Workers,     \* server processes, each with one externalExecution service
  Intents,     \* the stay actions of the plan
  Cancels,     \* those that cancel a displaced stay; the others book one
  Needs,       \* action_dependencies: the intents each intent needs
  LostAs,      \* the error categories as which a lost answer can surface
  MaxTrouble,  \* bound on stops, lost sessions, foreign changes and refusals
  Foreign,     \* a change of the journey by any other command
  None

ASSUME StayValuesDiffer == None \notin Intents \cup Workers \cup Nat /\ Foreign \notin Intents
ASSUME StayNeeds == Cancels \subseteq Intents /\ Needs \in [Intents -> SUBSET Intents]
ASSUME StayLostAs == LostAs \subseteq {"TIMEOUT", "NETWORK", "PROVIDER_ERROR"}
ASSUME StayTrouble == MaxTrouble \in Nat

VARIABLES
  \* the attempt row of each intent; holder stands for claim_token and
  \* fencing_token, ref tells whether request_ref is set
  status, holder, leaseLive, ref,
  \* the provider: the request of each intent, how often it was sent, and the
  \* booking made by it or, of a cancellation, to be cancelled by it; MISMATCH
  \* is a confirmed booking that does not show the approved terms
  request, asked, booking,
  \* canonical state: the journey, the revision of the provider connection,
  \* the connectionRevision in the receipt of each observed record (0: none),
  \* and the journey revision in the checkpoint of each intent
  journey, connection, recorded, checkpoint,
  based,       \* history: the journey revision for which the gate passed
  lock,        \* holder of the workspace operation lease
  \* each process: where its cycle is, the rows left in its loop, the row in
  \* hand, what dispatcher or lookup returned, the heads it has read, and
  \* whether its reconciliation is over
  pc, todo, item, verdict, heads, again,
  trouble

rows == <<status, holder, leaseLive, ref>>
provider == <<request, asked, booking>>
canonical == <<journey, connection, recorded, checkpoint>>
cycles == <<pc, todo, item, verdict, heads, again>>
vars == <<rows, provider, canonical, based, lock, cycles, trouble>>

NoHeads == [journey |-> 0, connection |-> 0]

Init ==
  /\ status = [i \in Intents |-> NoRow]
  /\ holder = [i \in Intents |-> None]
  /\ leaseLive = [i \in Intents |-> FALSE]
  /\ ref = [i \in Intents |-> FALSE]
  /\ request = [i \in Intents |-> "NONE"]
  /\ asked = [i \in Intents |-> 0]
  /\ booking = [i \in Intents |-> IF i \in Cancels THEN "CONFIRMED" ELSE "NONE"]
  /\ journey = <<>>
  /\ connection = 1
  /\ recorded = [i \in Intents |-> 0]
  /\ checkpoint = [i \in Intents |-> None]
  /\ based = [i \in Intents |-> None]
  /\ lock = None
  /\ pc = [w \in Workers |-> "idle"]
  /\ todo = [w \in Workers |-> {}]
  /\ item = [w \in Workers |-> None]
  /\ verdict = [w \in Workers |-> "NONE"]
  /\ heads = [w \in Workers |-> NoHeads]
  /\ again = [w \in Workers |-> FALSE]
  /\ trouble = 0

-----------------------------------------------------------------------------
(* Helpers *)

Goto(w, label) == pc' = [pc EXCEPT ![w] = label]
Trouble == trouble < MaxTrouble /\ trouble' = trouble + 1

\* The loop goes on to its next row.
NextItem(w, loop) ==
  /\ Goto(w, loop)
  /\ item' = [item EXCEPT ![w] = None]
  /\ verdict' = [verdict EXCEPT ![w] = "NONE"]
  /\ heads' = [heads EXCEPT ![w] = NoHeads]
  /\ UNCHANGED <<todo, again>>

\* i is taken from the loop.
Take(w, i, label) ==
  /\ Goto(w, label)
  /\ todo' = [todo EXCEPT ![w] = @ \ {i}]
  /\ item' = [item EXCEPT ![w] = i]
  /\ UNCHANGED <<verdict, heads, again>>

\* The dispatcher or the lookup returns v.
Return(w, v, label) ==
  /\ Goto(w, label)
  /\ verdict' = [verdict EXCEPT ![w] = v]
  /\ UNCHANGED <<todo, item, heads, again>>

Move(w, label) == Goto(w, label) /\ UNCHANGED <<todo, item, verdict, heads, again>>

\* What a row needs for the worker's compare-and-set to apply.
Applies(i, w, from, to) ==
  canTransitionExecutionStatus(from, to) /\ status[i] = from /\ holder[i] = w

transitionExecutionAttempt(i, w, from, to) ==
  status' = IF Applies(i, w, from, to) THEN [status EXCEPT ![i] = to] ELSE status

Succeeded(i) == status[i] \in SUCCESS_STATUSES

\* selected_plan_canonical_applications: inserted with the change itself.
Applied(i) == \E r \in DOMAIN journey : journey[r] = i

\* The intents that n needs, directly or through others.
Prerequisites(n) ==
  {p \in Intents :
     \A S \in SUBSET Intents :
       Needs[n] \subseteq S /\ (\A s \in S : Needs[s] \subseteq S) => p \in S}

Revision == Len(journey)

\* What the gate asks of the base: nothing has moved, or the checkpoint of
\* the intent was captured where the journey is now.
BaseHolds(i) == Revision = 0 \/ checkpoint[i] = Revision

-----------------------------------------------------------------------------
(* The execution pass *)

\* Mutant: a prerequisite that was observed need not be applied.
Observed(p) == Succeeded(p)

Done(p) == Succeeded(p) /\ Applied(p)

Ready(i) == \A p \in Needs[i] : Done(p)

loadCandidates == {i \in Intents : status[i] \in {NoRow, "PREPARED"} /\ Ready(i)}

StartCycle(w) ==
  /\ pc[w] = "idle"
  /\ lock = None
  /\ lock' = w
  /\ Goto(w, "pass")
  /\ \E candidates \in SUBSET loadCandidates : todo' = [todo EXCEPT ![w] = candidates]
  /\ again' = [again EXCEPT ![w] = FALSE]
  /\ UNCHANGED <<rows, provider, canonical, based, item, verdict, heads, trouble>>

\* Refused by the inputs, the ceiling or the stored gate: nothing is written.
SkipCandidate(w) ==
  /\ pc[w] = "pass"
  /\ \E i \in todo[w] : todo' = [todo EXCEPT ![w] = @ \ {i}]
  /\ UNCHANGED <<rows, provider, canonical, based, lock, pc, item, verdict, heads, again, trouble>>

LeftoverPrepared(w) ==
  /\ pc[w] = "pass"
  /\ \E i \in todo[w] : status[i] = "PREPARED" /\ Take(w, i, "prepared")
  /\ UNCHANGED <<rows, provider, canonical, based, lock, trouble>>

createPreparedExecutionAttempt(w) ==
  /\ pc[w] = "pass"
  /\ \E i \in todo[w] :
       /\ status[i] = NoRow
       /\ BaseHolds(i)
       /\ Ready(i)
       /\ status' = [status EXCEPT ![i] = "PREPARED"]
       /\ Take(w, i, "prepared")
  /\ UNCHANGED <<holder, leaseLive, ref, provider, canonical, based, lock, trouble>>

\* Mutant: the claim does not look at the status.
claimUnguarded(w) ==
  /\ pc[w] = "prepared"
  /\ status' = [status EXCEPT ![item[w]] = "CLAIMED"]
  /\ holder' = [holder EXCEPT ![item[w]] = w]
  /\ leaseLive' = [leaseLive EXCEPT ![item[w]] = TRUE]
  /\ Move(w, "claimed")
  /\ UNCHANGED <<ref, provider, canonical, based, lock, trouble>>

claimPrepared(w) ==
  /\ pc[w] = "prepared"
  /\ IF status[item[w]] = "PREPARED"
     THEN /\ status' = [status EXCEPT ![item[w]] = "CLAIMED"]
          /\ holder' = [holder EXCEPT ![item[w]] = w]
          /\ leaseLive' = [leaseLive EXCEPT ![item[w]] = TRUE]
          /\ Move(w, "claimed")
     ELSE NextItem(w, "pass") /\ UNCHANGED <<status, holder, leaseLive>>
  /\ UNCHANGED <<ref, provider, canonical, based, lock, trouble>>

\* The gate of the dispatch: the base has moved, or anything else is missing.
GateDenies(w) ==
  /\ pc[w] = "claimed"
  /\ transitionExecutionAttempt(item[w], w, "CLAIMED", "FAILED")
  /\ NextItem(w, "pass")
  /\ UNCHANGED <<holder, leaseLive, ref, provider, canonical, based, lock, trouble>>

GateAllows(w) ==
  /\ pc[w] = "claimed"
  /\ BaseHolds(item[w])
  /\ based' = [based EXCEPT ![item[w]] = Revision]
  /\ Move(w, "gated")
  /\ UNCHANGED <<rows, provider, canonical, lock, trouble>>

EnterDispatching(w) ==
  /\ pc[w] = "gated"
  /\ transitionExecutionAttempt(item[w], w, "CLAIMED", "DISPATCHING")
  /\ IF Applies(item[w], w, "CLAIMED", "DISPATCHING") THEN Move(w, "quote") ELSE NextItem(w, "pass")
  /\ UNCHANGED <<holder, leaseLive, ref, provider, canonical, based, lock, trouble>>

-----------------------------------------------------------------------------
(* The Nuitee dispatcher *)

\* Terms missing, or the refreshed quote failed, changed or is too high.
QuoteRefused(w) ==
  /\ pc[w] = "quote"
  /\ Return(w, "FAILURE", "record")
  /\ UNCHANGED <<rows, provider, canonical, based, lock, trouble>>

CheckpointApplies(w) == status[item[w]] = "DISPATCHING" /\ holder[item[w]] = w

WriteReference(w) ==
  /\ ref' = [ref EXCEPT ![item[w]] = TRUE]
  /\ leaseLive' = [leaseLive EXCEPT ![item[w]] = TRUE]

checkpointRequestRef(w) ==
  /\ pc[w] = "quote"
  /\ CheckpointApplies(w)
  /\ WriteReference(w)
  /\ Move(w, "send")
  /\ UNCHANGED <<status, holder, provider, canonical, based, lock, trouble>>

\* The write is fenced, or it fails; a failed write may still have landed.
CheckpointFails(w) ==
  /\ pc[w] = "quote"
  /\ \/ CheckpointApplies(w) /\ WriteReference(w)
     \/ UNCHANGED <<ref, leaseLive>>
  /\ Return(w, "LOST", "record")
  /\ UNCHANGED <<status, holder, provider, canonical, based, lock, trouble>>

\* bookStay or cancelStay leaves the process.
Send(w) ==
  /\ pc[w] = "send"
  /\ request' = [request EXCEPT ![item[w]] = "SENT"]
  /\ asked' = [asked EXCEPT ![item[w]] = @ + 1]
  /\ Move(w, "sent")
  /\ UNCHANGED <<rows, booking, canonical, based, lock, trouble>>

Answered(w) ==
  /\ pc[w] = "sent"
  /\ \/ request[item[w]] = "DONE" /\ Move(w, "retrieve")
     \/ request[item[w]] = "REFUSED" /\ Return(w, "FAILURE", "record")
  /\ UNCHANGED <<rows, provider, canonical, based, lock, trouble>>

\* Mutant: a lost answer is a failure whatever the category.
AnswerLostFails(w) ==
  /\ pc[w] = "sent"
  /\ Return(w, "FAILURE", "record")
  /\ UNCHANGED <<rows, provider, canonical, based, lock, trouble>>

\* No answer reaches the process, whatever the provider did or will do.
AnswerLost(w) ==
  /\ pc[w] = "sent"
  /\ \E category \in LostAs :
       Return(w, IF category = "TIMEOUT" THEN "LOST" ELSE "FAILURE", "record")
  /\ UNCHANGED <<rows, provider, canonical, based, lock, trouble>>

\* The status in which a booking shows that the action has succeeded.
Wanted(i) == IF i \in Cancels THEN "CANCELLED" ELSE "CONFIRMED"

ShowsSuccess(i) == booking[i] = Wanted(i)

\* Mutant: the answer to the request is proof enough.
RetrieveTrusts(w) ==
  /\ pc[w] = "retrieve"
  /\ Return(w, "SUCCESS", "record")
  /\ UNCHANGED <<rows, provider, canonical, based, lock, trouble>>

\* The booking is read back; unread, unlike the approved terms or not shown
\* to be like them, it leaves the outcome unknown.
Retrieve(w) ==
  /\ pc[w] = "retrieve"
  /\ \/ ShowsSuccess(item[w]) /\ Return(w, "SUCCESS", "record")
     \/ Return(w, "LOST", "record")
  /\ UNCHANGED <<rows, provider, canonical, based, lock, trouble>>

DispatcherThrows(w) ==
  /\ pc[w] \in {"quote", "send", "sent", "retrieve"}
  /\ Return(w, "THROWN", "record")
  /\ UNCHANGED <<rows, provider, canonical, based, lock, trouble>>

OutcomeOf(v) ==
  CASE v = "SUCCESS" -> "OBSERVED_SUCCESS"
    [] v = "FAILURE" -> "OBSERVED_FAILURE"
    [] OTHER -> "OUTCOME_UNKNOWN"

\* A lost response carries the reference; an observation is inserted together
\* with OBSERVED_SUCCESS.
Record(w) ==
  /\ pc[w] = "record"
  /\ LET i == item[w]
         to == OutcomeOf(verdict[w])
     IN  /\ transitionExecutionAttempt(i, w, "DISPATCHING", to)
         /\ ref' = IF Applies(i, w, "DISPATCHING", to) /\ verdict[w] = "LOST"
                   THEN [ref EXCEPT ![i] = TRUE] ELSE ref
  /\ NextItem(w, "pass")
  /\ UNCHANGED <<holder, leaseLive, provider, canonical, based, lock, trouble>>

-----------------------------------------------------------------------------
(* applyPendingCanonicalUpdates: after the pass, and after reconciliation *)

StartApplying(w) ==
  /\ \/ pc[w] = "pass"
     \/ pc[w] = "reconcile"
  /\ todo[w] = {}
  /\ Goto(w, "apply")
  /\ todo' = [todo EXCEPT ![w] = {i \in Intents : Succeeded(i)}]
  /\ again' = [again EXCEPT ![w] = pc[w] = "reconcile"]
  /\ UNCHANGED <<rows, provider, canonical, based, lock, item, verdict, heads, trouble>>

\* Mutant: the receipt of the record is taken for that of the attachment.
RecordExists(i) == recorded[i] # 0

hasExactCanonicalApplication(i) == Applied(i)

\* Nothing is left to do, and nothing is minted.
AlreadyApplied(w) ==
  /\ pc[w] = "apply"
  /\ \E i \in todo[w] :
       hasExactCanonicalApplication(i) /\ todo' = [todo EXCEPT ![w] = @ \ {i}]
  /\ UNCHANGED <<rows, provider, canonical, based, lock, pc, item, verdict, heads, again, trouble>>

TakeObserved(w) ==
  /\ pc[w] = "apply"
  /\ \E i \in todo[w] : ~hasExactCanonicalApplication(i) /\ Take(w, i, "heads")
  /\ UNCHANGED <<rows, provider, canonical, based, lock, trouble>>

\* Another process has attached the stay in between.
ItemExists(w) ==
  /\ pc[w] = "heads"
  /\ item[w] \notin Cancels
  /\ Applied(item[w])
  /\ Move(w, "mint")
  /\ UNCHANGED <<rows, provider, canonical, based, lock, trouble>>

loadHeads(w) ==
  /\ pc[w] = "heads"
  /\ heads' = [heads EXCEPT ![w] = [journey |-> Revision, connection |-> connection]]
  /\ Goto(w, IF item[w] \in Cancels THEN "cancel" ELSE "observe")
  /\ UNCHANGED <<rows, provider, canonical, based, lock, todo, item, verdict, again, trouble>>

\* A replay returns the receipt, with the revision of the first time.
observeExternalRecord(w) ==
  /\ pc[w] = "observe"
  /\ LET i == item[w]
     IN  \/ recorded[i] # 0 /\ Move(w, "attach") /\ UNCHANGED <<connection, recorded>>
         \/ /\ recorded[i] = 0
            /\ connection = heads[w].connection
            /\ connection' = connection + 1
            /\ recorded' = [recorded EXCEPT ![i] = connection + 1]
            /\ Move(w, "attach")
         \/ /\ recorded[i] = 0
            /\ connection # heads[w].connection
            /\ NextItem(w, "apply")
            /\ UNCHANGED <<connection, recorded>>
  /\ UNCHANGED <<rows, provider, journey, checkpoint, based, lock, trouble>>

\* Mutant: an attachment is a new one each time.
AttachAnyway(w) ==
  /\ pc[w] = "attach"
  /\ journey' = Append(journey, item[w])
  /\ connection' = connection + 1
  /\ Move(w, "mint")
  /\ UNCHANGED <<rows, provider, recorded, checkpoint, based, lock, trouble>>

\* Replayed, attached on the expected revisions, or refused.  The connection is
\* expected where the receipt of the record left it.
attachObservedStay(w) ==
  /\ pc[w] = "attach"
  /\ LET i == item[w]
         expected == Revision = heads[w].journey /\ connection = recorded[i]
     IN  \/ Applied(i) /\ Move(w, "mint") /\ UNCHANGED <<journey, connection>>
         \/ /\ ~Applied(i)
            /\ expected
            /\ journey' = Append(journey, i)
            /\ connection' = connection + 1
            /\ Move(w, "mint")
         \/ ~Applied(i) /\ ~expected /\ NextItem(w, "apply") /\ UNCHANGED <<journey, connection>>
  /\ UNCHANGED <<rows, provider, recorded, checkpoint, based, lock, trouble>>

\* The expected revisions are part of the payload: a replay is one only with
\* the heads that were read before the change.
applyObservedStayCancellation(w) ==
  /\ pc[w] = "cancel"
  /\ LET i == item[w]
         before == heads[w].journey
     IN  \/ /\ Applied(i)
            /\ IF before + 1 \in DOMAIN journey /\ journey[before + 1] = i
               THEN Move(w, "mint") ELSE NextItem(w, "apply")
            /\ UNCHANGED journey
         \/ /\ ~Applied(i)
            /\ Revision = before
            /\ journey' = Append(journey, i)
            /\ Move(w, "mint")
         \/ ~Applied(i) /\ Revision # before /\ NextItem(w, "apply") /\ UNCHANGED journey
  /\ UNCHANGED <<rows, provider, connection, recorded, checkpoint, based, lock, trouble>>

\* Inputs that are not ready, or any other conflict of these commands or of
\* those that record source and evidence.
ApplyRefused(w) ==
  /\ pc[w] \in {"heads", "observe", "attach", "cancel"}
  /\ Trouble
  /\ NextItem(w, "apply")
  /\ UNCHANGED <<rows, provider, canonical, based, lock>>

\* Mutant: changes since the base are not accounted for.
MintableAnyhow(n) == ~Applied(n) /\ \A p \in Prerequisites(n) : Done(p)

\* createSelectedPlanContinuationCheckpoint: all that n needs is applied, and
\* what has moved since the base was moved by these applications.
Mintable(n) ==
  /\ ~Applied(n)
  /\ \A p \in Prerequisites(n) : Done(p)
  /\ \A r \in DOMAIN journey : journey[r] \in Prerequisites(n)

\* A checkpoint for each next intent, if the rest of the plan is still viable
\* and nothing goes wrong; the result is not looked at.
mintContinuationCheckpoints(w) ==
  /\ pc[w] = "mint"
  /\ \E minted \in SUBSET {n \in Intents : item[w] \in Needs[n] /\ Mintable(n)} :
       checkpoint' = [n \in Intents |-> IF n \in minted THEN Revision ELSE checkpoint[n]]
  /\ NextItem(w, "apply")
  /\ UNCHANGED <<rows, provider, journey, connection, recorded, based, lock, trouble>>

ReleaseLock(w) == lock' = IF lock = w THEN None ELSE lock

EndCycle(w) ==
  /\ pc[w] = "apply"
  /\ todo[w] = {}
  /\ again[w]
  /\ ReleaseLock(w)
  /\ Move(w, "idle")
  /\ UNCHANGED <<rows, provider, canonical, based, trouble>>

-----------------------------------------------------------------------------
(* Reconciliation: by lookup only *)

\* Unknown outcomes, and dispatches whose lease has lapsed.
Reconcilable(i) ==
  \/ status[i] \in {"OUTCOME_UNKNOWN", "RECONCILIATION_REQUIRED"}
  \/ status[i] \in {"DISPATCHING", "DISPATCHED"} /\ ~leaseLive[i]

StartReconciliation(w) ==
  /\ pc[w] = "apply"
  /\ todo[w] = {}
  /\ ~again[w]
  /\ Goto(w, "reconcile")
  /\ todo' = [todo EXCEPT ![w] = {i \in Intents : Reconcilable(i)}]
  /\ UNCHANGED <<rows, provider, canonical, based, lock, item, verdict, heads, again, trouble>>

claimForReconciliation(w) ==
  /\ pc[w] = "reconcile"
  /\ \E i \in todo[w] :
       IF Reconcilable(i)
       THEN /\ status' = [status EXCEPT ![i] = "RECONCILIATION_REQUIRED"]
            /\ holder' = [holder EXCEPT ![i] = w]
            /\ leaseLive' = [leaseLive EXCEPT ![i] = TRUE]
            /\ Take(w, i, "lookup")
       ELSE /\ todo' = [todo EXCEPT ![w] = @ \ {i}]
            /\ UNCHANGED <<status, holder, leaseLive, pc, item, verdict, heads, again>>
  /\ UNCHANGED <<ref, provider, canonical, based, lock, trouble>>

\* Mutant: a booking that is confirmed with other terms stays unknown.
LookupKeepsMismatch(i) == IF ShowsSuccess(i) THEN {"SUCCESS"} ELSE {"NONE"}

\* What a lookup that is answered may return.  A cancellation that reads
\* anything but CANCELLED or CONFIRMED has failed.
LookupVerdicts(i) ==
  CASE i \in Cancels /\ booking[i] = "CANCELLED" -> {"SUCCESS", "FAILURE"}
    [] i \in Cancels /\ booking[i] # "CANCELLED" -> {"NONE", "FAILURE"}
    [] i \notin Cancels /\ ShowsSuccess(i) -> {"SUCCESS"}
    [] i \notin Cancels /\ booking[i] \in {"MISMATCH", "CANCELLED"} -> {"FAILURE"}
    [] OTHER -> {"NONE"}

LookupAnswered(w) ==
  /\ pc[w] = "lookup"
  /\ ref[item[w]]
  /\ \E v \in LookupVerdicts(item[w]) :
       IF v = "NONE" THEN NextItem(w, "reconcile") ELSE Return(w, v, "settle")
  /\ UNCHANGED <<rows, provider, canonical, based, lock, trouble>>

\* No reference, no answer, or a status that settles nothing.
LookupUnknown(w) ==
  /\ pc[w] = "lookup"
  /\ NextItem(w, "reconcile")
  /\ UNCHANGED <<rows, provider, canonical, based, lock, trouble>>

Settle(w) ==
  /\ pc[w] = "settle"
  /\ transitionExecutionAttempt(item[w], w, "RECONCILIATION_REQUIRED", OutcomeOf(verdict[w]))
  /\ NextItem(w, "reconcile")
  /\ UNCHANGED <<holder, leaseLive, ref, provider, canonical, based, lock, trouble>>

-----------------------------------------------------------------------------
(* What happens around the cycle *)

\* A crash, or an exception that ends the cycle: the session ends with it.
Stop(w) ==
  /\ pc[w] # "idle"
  /\ Trouble
  /\ ReleaseLock(w)
  /\ NextItem(w, "idle")
  /\ UNCHANGED <<rows, provider, canonical, based>>

\* PostgreSQL drops the session that holds the lease; the cycle goes on.
LoseSession(w) ==
  /\ lock = w
  /\ Trouble
  /\ lock' = None
  /\ UNCHANGED <<rows, provider, canonical, based, cycles>>

LeaseLapses(i) ==
  /\ status[i] \in {"CLAIMED", "DISPATCHING"}
  /\ leaseLive[i]
  /\ leaseLive' = [leaseLive EXCEPT ![i] = FALSE]
  /\ UNCHANGED <<status, holder, ref, provider, canonical, based, lock, cycles, trouble>>

\* Another command changes the journey, or observes something else over the
\* same provider connection.
ForeignChange ==
  /\ Trouble
  /\ \/ journey' = Append(journey, Foreign) /\ UNCHANGED connection
     \/ connection' = connection + 1 /\ UNCHANGED journey
  /\ UNCHANGED <<rows, provider, recorded, checkpoint, based, lock, cycles>>

\* expires_at, an hour after minting.
CheckpointExpires(n) ==
  /\ checkpoint[n] # None
  /\ checkpoint' = [checkpoint EXCEPT ![n] = None]
  /\ UNCHANGED <<rows, provider, journey, connection, recorded, based, lock, cycles, trouble>>

\* The provider carries out a request it was sent, or turns it down.
ProviderActs(i) ==
  /\ request[i] = "SENT"
  /\ \/ /\ request' = [request EXCEPT ![i] = "DONE"]
        /\ \E b \in IF i \in Cancels THEN {"CANCELLED"} ELSE {"CONFIRMED", "MISMATCH"} :
             booking' = [booking EXCEPT ![i] = b]
     \/ request' = [request EXCEPT ![i] = "REFUSED"] /\ UNCHANGED booking
  /\ UNCHANGED <<rows, asked, canonical, based, lock, cycles, trouble>>

\* The hotel cancels a booking of its own accord.
SupplierCancels(i) ==
  /\ booking[i] \in {"CONFIRMED", "MISMATCH"}
  /\ Trouble
  /\ booking' = [booking EXCEPT ![i] = "CANCELLED"]
  /\ UNCHANGED <<rows, request, asked, canonical, based, lock, cycles>>

Step(w) ==
  \/ StartCycle(w) \/ SkipCandidate(w) \/ LeftoverPrepared(w)
  \/ createPreparedExecutionAttempt(w) \/ claimPrepared(w)
  \/ GateDenies(w) \/ GateAllows(w) \/ EnterDispatching(w)
  \/ QuoteRefused(w) \/ checkpointRequestRef(w) \/ CheckpointFails(w)
  \/ Send(w) \/ Answered(w) \/ AnswerLost(w) \/ Retrieve(w)
  \/ DispatcherThrows(w) \/ Record(w)
  \/ StartApplying(w) \/ AlreadyApplied(w) \/ TakeObserved(w) \/ ItemExists(w)
  \/ loadHeads(w) \/ observeExternalRecord(w) \/ attachObservedStay(w)
  \/ applyObservedStayCancellation(w) \/ ApplyRefused(w)
  \/ mintContinuationCheckpoints(w) \/ EndCycle(w)
  \/ StartReconciliation(w) \/ claimForReconciliation(w)
  \/ LookupAnswered(w) \/ LookupUnknown(w) \/ Settle(w)

Next ==
  \/ \E w \in Workers : Step(w) \/ Stop(w) \/ LoseSession(w)
  \/ \E i \in Intents :
       LeaseLapses(i) \/ CheckpointExpires(i) \/ ProviderActs(i) \/ SupplierCancels(i)
  \/ ForeignChange

Spec == Init /\ [][Next]_vars

(* The periodic service runs its cycle again and again, and a lease has a date.
   Of the lookups that are tried for an intent at every cycle, one is answered
   in the end.  Nothing is assumed of the provider's work. *)
Fairness ==
  /\ \A w \in Workers : WF_vars(Step(w))
  /\ \A i \in Intents :
       WF_vars(LeaseLapses(i)) /\ SF_vars(\E w \in Workers : item[w] = i /\ LookupAnswered(w))

FairSpec == Spec /\ Fairness

-----------------------------------------------------------------------------
(* Properties *)

WrittenStatuses ==
  { NoRow, "PREPARED", "CLAIMED", "DISPATCHING", "OUTCOME_UNKNOWN",
    "RECONCILIATION_REQUIRED", "OBSERVED_SUCCESS", "OBSERVED_FAILURE", "FAILED" }

NoItemPcs == {"idle", "pass", "apply", "reconcile"}
PassPcs == {"prepared", "claimed", "gated", "quote", "send", "sent", "retrieve", "record"}
ApplyPcs == {"heads", "observe", "attach", "cancel", "mint"}
LookupPcs == {"lookup", "settle"}

(* The shape of the state: between two rows of a loop a cycle has none in
   hand, and inside the loop body it has one. *)
TypeOK ==
  /\ status \in [Intents -> WrittenStatuses]
  /\ holder \in [Intents -> Workers \cup {None}]
  /\ leaseLive \in [Intents -> BOOLEAN]
  /\ ref \in [Intents -> BOOLEAN]
  /\ request \in [Intents -> {"NONE", "SENT", "DONE", "REFUSED"}]
  /\ asked \in [Intents -> Nat]
  /\ booking \in [Intents -> {"NONE", "CONFIRMED", "MISMATCH", "CANCELLED"}]
  /\ journey \in Seq(Intents \cup {Foreign})
  /\ connection \in Nat
  /\ recorded \in [Intents -> Nat]
  /\ checkpoint \in [Intents -> Nat \cup {None}]
  /\ based \in [Intents -> Nat \cup {None}]
  /\ lock \in Workers \cup {None}
  /\ pc \in [Workers -> NoItemPcs \cup PassPcs \cup ApplyPcs \cup LookupPcs]
  /\ todo \in [Workers -> SUBSET Intents]
  /\ item \in [Workers -> Intents \cup {None}]
  /\ \A w \in Workers : item[w] = None <=> pc[w] \in NoItemPcs
  /\ verdict \in [Workers -> {"NONE", "SUCCESS", "FAILURE", "LOST", "THROWN"}]
  /\ heads \in [Workers -> [journey : Nat, connection : Nat]]
  /\ again \in [Workers -> BOOLEAN]
  /\ trouble \in 0..MaxTrouble

(* However cycles crash, overlap or lose their answers, no stay is booked or
   cancelled twice: "a prior unknown is never rebooked or re-cancelled"
   (runExternalStayReconciliation). *)
NeverAskedTwice == \A i \in Intents : asked[i] <= 1

(* A success is one that the provider has shown: the booking had the approved
   terms (the hotel may have cancelled it since), or the displaced stay is
   cancelled (buildNuiteeStayDispatcher and its lookup). *)
SuccessIsObserved ==
  \A i \in Intents :
    Succeeded(i) => booking[i] \in {Wanted(i), "CANCELLED"}

(* With answers lost only to timeouts, a booking whose attempt reports failure
   is not on its way and does not stand with the approved terms: a traveller
   is not sent to look for a second hotel while the first one is booked. *)
FailedBookingStandsNowhere ==
  \A i \in Intents \ Cancels :
    status[i] \in {"OBSERVED_FAILURE", "FAILED"} =>
      request[i] # "SENT" /\ booking[i] # "CONFIRMED"

(* "Replacement proven, then cancel": whatever a request needs has succeeded
   at the provider and is on the journey before the request goes out
   (loadCandidates and createPreparedExecutionAttempt). *)
ReplacementFirst ==
  \A i \in Intents :
    request[i] # "NONE" =>
      \A p \in Needs[i] :
        Succeeded(p) /\ Applied(p) /\ booking[p] \in {Wanted(p), "CANCELLED"}

(* Retries, replays and overlapping cycles put a stay on the journey, or take
   it off, once, and only one whose attempt has succeeded. *)
AppliedOnce ==
  \A r \in DOMAIN journey :
    journey[r] \in Intents =>
      /\ Succeeded(journey[r])
      /\ \A q \in DOMAIN journey : journey[q] = journey[r] => q = r

(* The plan that was approved is carried out on the world it was approved for:
   when the gate lets an action pass, the journey has been changed by what
   the action needs and by nobody else (STALE_BASE and the checkpoints). *)
OnOwnChanges ==
  \A i \in Intents :
    based[i] # None =>
      \A r \in DOMAIN journey : r <= based[i] => journey[r] \in Prerequisites(i)

Reported(i) ==
  CASE Succeeded(i) -> "SUCCEEDED"
    [] status[i] \in {"OBSERVED_FAILURE", "FAILED"} -> "FAILED"
    [] OTHER -> "OPEN"

Plan == INSTANCE StayPlan WITH
          outcome <- [i \in Intents |-> Reported(i)],
          admitted <- {i \in Intents : based[i] # None}

(* The cycles of all processes together do what StayPlan allows and nothing
   else: what is asked, reported and applied, and in which order, is as if one
   careful hand carried the plan out. *)
ImplementsStayPlan == Plan!Spec

\* Something else was recorded over the connection after the booking was and
\* before it was attached: its receipt is behind and stays so.
Overtaken(i) == recorded[i] # 0 /\ recorded[i] < connection

(* A paid booking reaches the journey, across crashes and stale revisions; only
   the one that was overtaken may not (applyPendingCanonicalUpdates). *)
SuccessIsApplied ==
  \A i \in Intents : Succeeded(i) ~> (Applied(i) \/ Overtaken(i))

\* The provider's record of the stay says how the request ended.
Readable(i) ==
  IF i \in Cancels THEN booking[i] = "CANCELLED" ELSE booking[i] # "NONE"

(* An unknown outcome is not unknown for ever: once its reference is on the row
   and the provider's record tells the end, some cycle settles it. *)
FoundOutcomeSettles ==
  \A i \in Intents :
    (status[i] \in {"OUTCOME_UNKNOWN", "RECONCILIATION_REQUIRED"} /\ ref[i] /\ Readable(i))
      ~> status[i] \in {"OBSERVED_SUCCESS", "OBSERVED_FAILURE"}
=============================================================================
