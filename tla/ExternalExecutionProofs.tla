---------------------- MODULE ExternalExecutionProofs ----------------------
(***************************************************************************)
(* Theorems about ExternalExecution for every number of intents, servers   *)
(* and orders, and for every bound on faults.                              *)
(***************************************************************************)
EXTENDS ExternalExecution, TLAPS

-----------------------------------------------------------------------------
(* The inductive invariant, in four parts *)

Undispatched == {NoRow, "PREPARED", "CLAIMED"}
Failed == {"OBSERVED_FAILURE", "FAILED"}
BeforePayPcs == {"create", "validate", "checkpoint", "adopt", "payGate", "pay"}
ReferencePcs == {"payGate", "pay", "paying", "poll"}
OrderPcs == {"validate", "checkpoint", "adopt"} \cup ReferencePcs

\* Part 1: who may write a row.  A claim has one owner until it is dispatched
\* or refused, a row has one dispatcher for ever, and a row that reached
\* reconciliation is not dispatching any more.
ClaimOwned ==
  \A w \in Workers :
    pc[w] \in {"claimed", "gated"} => status[item[w]] = "CLAIMED" /\ holder[item[w]] = w

DispatchFollowsClaim ==
  \A w \in Workers : pc[w] \in DispatchPcs => status[item[w]] \notin Undispatched

OneDispatcher ==
  \A w, v \in Workers :
    pc[w] \in DispatchPcs /\ pc[v] \in DispatchPcs /\ item[w] = item[v] => w = v

ReconciledIsSwept ==
  \A w \in Workers :
    pc[w] \in ReconcilePcs => status[item[w]] \notin Undispatched \cup {"DISPATCHING"}

Ownership == ClaimOwned /\ DispatchFollowsClaim /\ OneDispatcher /\ ReconciledIsSwept

\* Part 2: what is known of the order.  Nothing is paid before the checkpoint,
\* and from the checkpoint on the row and the dispatcher name the same order.
NothingPaidYet ==
  /\ \A i \in Intents : status[i] \in Undispatched => payCall[i] = "NONE"
  /\ \A w \in Workers :
       pc[w] \in BeforePayPcs \/ (pc[w] = "record" /\ verdict[w] = "LOST_MARKER")
         => payCall[item[w]] = "NONE"

ReferenceKept ==
  \A w \in Workers :
    /\ pc[w] \in OrderPcs => ord[w] \in Orders
    /\ pc[w] \in ReferencePcs => ref[item[w]] = ord[w]
    /\ pc[w] = "record" /\ verdict[w] = "LOST_ORDER" /\ payCall[item[w]] # "NONE"
         => ord[w] = payFor[item[w]]

TicketSeen ==
  \A w \in Workers :
    pc[w] \in {"record", "settle"} /\ verdict[w] = "SUCCESS"
      => ref[item[w]] \in Orders /\ order[ref[item[w]]] \in {"TICKETED", "CANCELLED"}

References ==
  NothingPaidYet /\ ReferenceKept /\ PayOnlyCheckpointed /\ TicketSeen /\ SuccessOnlyIfTicketed

\* Part 3, for lost answers that surface as a time-out: a failure is reported
\* only when no payment can stand.  Dead orders accept no payment any more.
Dead(o) == order[o] = "CANCELLED" \/ (order[o] = "HELD" /\ hold[o] = "PAST_MARGIN")

Closed(i) == ref[i] \in Orders /\ Dead(ref[i])

Unaccepted(i) == payCall[i] \in {"NONE", "DECLINED", "ALREADY"}

AcceptedIsPaid ==
  \A i \in Intents : payCall[i] = "ACCEPTED" => order[payFor[i]] \notin {"NONE", "HELD"}

FailureSeen ==
  \A w \in Workers :
    verdict[w] = "FAILURE" =>
      /\ pc[w] = "record" => Unaccepted(item[w]) \/ Closed(item[w])
      /\ pc[w] = "settle" => Closed(item[w])

FailedIsUnpaid ==
  \A i \in Intents : status[i] \in Failed =>
    \/ Closed(i)
    \/ Unaccepted(i) /\ \A w \in Workers : pc[w] \in DispatchPcs => item[w] # i

Failures == AcceptedIsPaid /\ FailureSeen /\ FailedIsUnpaid

\* Part 4: one live row, and every payment that stands belongs to it.
OneLive ==
  \A i, j \in Intents :
    status[i] \in BLOCKING_STATUSES /\ status[j] \in BLOCKING_STATUSES => i = j

PaidBySomeIntent ==
  \A o \in Orders : order[o] \in {"PAID", "TICKETED"} =>
    \E i \in Intents : payCall[i] = "ACCEPTED" /\ payFor[i] = o

SuccessIsPaid ==
  \A w \in Workers :
    /\ pc[w] \in {"record", "settle"}
    /\ verdict[w] = "SUCCESS"
    /\ status[item[w]] \in mayHaveBeenSent
    => payCall[item[w]] = "ACCEPTED"

Payments == OneLive /\ PaidBySomeIntent /\ SuccessIsPaid

-----------------------------------------------------------------------------
(* Type correctness *)

(* The initial state has the shape TypeOK states. *)
LEMMA TypeInit == Init => TypeOK
  BY ValuesDiffer, FaultBound
  DEF Init, TypeOK, WrittenStatuses, NoRow, NoItemPcs, Verdicts

(* Every step of the cycle, the faults and the provider keeps that shape. *)
LEMMA TypeStep ==
  ASSUME TypeOK, [Next]_vars
  PROVE  TypeOK'
<1> USE ValuesDiffer, FaultBound DEF TypeOK, WrittenStatuses, NoRow, NoItemPcs, PassPcs,
      DispatchPcs, ReconcilePcs, Verdicts
<1>1. ASSUME NEW w \in Workers, StartCycle(w) PROVE TypeOK'
  BY <1>1 DEF StartCycle, Goto, loadCandidates, rows, provider
<1>2. ASSUME NEW w \in Workers, TakeCandidate(w) PROVE TypeOK'
  BY <1>2 DEF TakeCandidate, Goto, rows, provider
<1>3. ASSUME NEW w \in Workers, SkipCandidate(w) PROVE TypeOK'
  BY <1>3 DEF SkipCandidate, NextItem, rows, provider, Goto
<1>4. ASSUME NEW w \in Workers, LeftoverPrepared(w) PROVE TypeOK'
  BY <1>4 DEF LeftoverPrepared, Goto, rows, provider
<1>5. ASSUME NEW w \in Workers, createPreparedExecutionAttempt(w) PROVE TypeOK'
  BY <1>5 DEF createPreparedExecutionAttempt, NotBlocked, Goto, provider,
      BLOCKING_STATUSES, SUCCESS_STATUSES
<1>6. ASSUME NEW w \in Workers, claimPrepared(w) PROVE TypeOK'
  <2>1. CASE status[item[w]] = "PREPARED"
    <3>1. /\ item[w] \in Intents
          /\ status' = [status EXCEPT ![item[w]] = "CLAIMED"]
          /\ holder' = [holder EXCEPT ![item[w]] = w]
          /\ leaseLive' = [leaseLive EXCEPT ![item[w]] = TRUE]
          /\ pc' = [pc EXCEPT ![w] = "claimed"]
          /\ pc[w] \notin NoItemPcs
          /\ UNCHANGED <<ref, observed, lock, todo, item, ord, verdict, provider, faults>>
      BY <1>6, <2>1 DEF claimPrepared, Goto
    <3>2. /\ status' \in [Intents -> WrittenStatuses]
          /\ holder' \in [Intents -> Workers \cup {None}]
      BY <3>1
    <3>3. leaseLive' \in [Intents -> BOOLEAN]
      BY <3>1
    <3>4. pc' \in [Workers -> NoItemPcs \cup PassPcs \cup DispatchPcs \cup ReconcilePcs]
      BY <3>1
    <3>5. \A v \in Workers : item'[v] = None <=> pc'[v] \in NoItemPcs
      BY <3>1
    <3>. QED  BY <3>1, <3>2, <3>3, <3>4, <3>5 DEF provider
  <2>2. CASE status[item[w]] # "PREPARED"
    BY <1>6, <2>2 DEF claimPrepared, NextItem, Goto, provider
  <2>. QED  BY <2>1, <2>2
<1>7. ASSUME NEW w \in Workers, GateDenies(w) PROVE TypeOK'
  BY <1>7 DEF GateDenies, transitionExecutionAttempt, NextItem, provider, Applies, Goto,
      canTransitionExecutionStatus, ALLOWED
<1>8. ASSUME NEW w \in Workers, GateAllows(w) PROVE TypeOK'
  BY <1>8 DEF GateAllows, Goto, rows, provider
<1>9. ASSUME NEW w \in Workers, EnterDispatching(w) PROVE TypeOK'
  BY <1>9 DEF EnterDispatching, transitionExecutionAttempt, Applies, Goto, NextItem,
      provider, canTransitionExecutionStatus, ALLOWED
<1>10. ASSUME NEW w \in Workers, CreateRefused(w) PROVE TypeOK'
  BY <1>10 DEF CreateRefused, Return, rows, provider, Goto
<1>11. ASSUME NEW w \in Workers, CreateAnswered(w) PROVE TypeOK'
  BY <1>11 DEF CreateAnswered, NewOrder, Goto, rows
<1>12. ASSUME NEW w \in Workers, CreateLost(w) PROVE TypeOK'
  BY <1>12 DEF CreateLost, Return, NewOrder, provider, rows, Goto
<1>13. ASSUME NEW w \in Workers, CreateDuplicate(w) PROVE TypeOK'
  BY <1>13 DEF CreateDuplicate, Goto, rows, provider
<1>14. ASSUME NEW w \in Workers, DuplicateUnproven(w) PROVE TypeOK'
  BY <1>14 DEF DuplicateUnproven, Return, rows, provider, Goto
<1>15. ASSUME NEW w \in Workers, DuplicateMismatch(w) PROVE TypeOK'
  BY <1>15 DEF DuplicateMismatch, Return, rows, provider, Goto
<1>16. ASSUME NEW w \in Workers, DuplicateMatch(w) PROVE TypeOK'
  BY <1>16 DEF DuplicateMatch, Goto, rows, provider
<1>17. ASSUME NEW w \in Workers, checkpointRequestRef(w) PROVE TypeOK'
  BY <1>17 DEF checkpointRequestRef, CheckpointApplies, WriteCheckpoint, Goto, provider
<1>18. ASSUME NEW w \in Workers, CheckpointFails(w) PROVE TypeOK'
  <2>1. CASE WriteCheckpoint(item[w], ord[w])
    BY <1>18, <2>1 DEF CheckpointFails, CheckpointApplies, WriteCheckpoint, Return, provider, Goto
  <2>2. CASE UNCHANGED <<ref, leaseLive>>
    BY <1>18, <2>2 DEF CheckpointFails, CheckpointApplies, WriteCheckpoint, Return, provider, Goto
  <2>. QED  BY <1>18, <2>1, <2>2 DEF CheckpointFails
<1>19. ASSUME NEW w \in Workers, PayGateRefuses(w) PROVE TypeOK'
  BY <1>19 DEF PayGateRefuses, Return, rows, provider, Goto
<1>20. ASSUME NEW w \in Workers, PayGatePasses(w) PROVE TypeOK'
  BY <1>20 DEF PayGatePasses, Goto, rows, provider
<1>21. ASSUME NEW w \in Workers, payOrder(w) PROVE TypeOK'
  BY <1>21 DEF payOrder, Goto, rows
<1>22. ASSUME NEW w \in Workers, PayAnswered(w) PROVE TypeOK'
  BY <1>22 DEF PayAnswered, Goto, Return, rows, provider
<1>23. ASSUME NEW w \in Workers, PayInProgress(w) PROVE TypeOK'
  BY <1>23 DEF PayInProgress, Goto, rows, provider
<1>24. ASSUME NEW w \in Workers, PayLost(w) PROVE TypeOK'
  BY <1>24 DEF PayLost, Return, rows, provider, Goto
<1>25. ASSUME NEW w \in Workers, Poll(w) PROVE TypeOK'
  BY <1>25 DEF Poll, Return, rows, provider, Goto
<1>26. ASSUME NEW w \in Workers, DispatcherThrows(w) PROVE TypeOK'
  BY <1>26 DEF DispatcherThrows, Return, rows, provider, Goto
<1>27. ASSUME NEW w \in Workers, Record(w) PROVE TypeOK'
  BY <1>27, SMTT(40) DEF Record, Applies, OutcomeOf, RefAfter, Observe, NextItem, provider,
      canTransitionExecutionStatus, Goto, ALLOWED
<1>28. ASSUME NEW w \in Workers, StartReconciliation(w) PROVE TypeOK'
  BY <1>28 DEF StartReconciliation, Reconcilable, Goto, rows, provider
<1>29. ASSUME NEW w \in Workers, claimForReconciliation(w) PROVE TypeOK'
  <2>1. PICK i \in todo[w] :
          /\ todo' = [todo EXCEPT ![w] = @ \ {i}]
          /\ IF Reconcilable(i)
             THEN /\ status' = [status EXCEPT ![i] = "RECONCILIATION_REQUIRED"]
                  /\ holder' = [holder EXCEPT ![i] = w]
                  /\ leaseLive' = [leaseLive EXCEPT ![i] = TRUE]
                  /\ item' = [item EXCEPT ![w] = i]
                  /\ Goto(w, "lookup")
             ELSE UNCHANGED <<status, holder, leaseLive, item, pc>>
    BY <1>29 DEF claimForReconciliation
  <2>2. CASE Reconcilable(i)
    <3>1. i \in Intents
      BY <2>1
    <3>2. UNCHANGED <<ref, observed, lock, ord, verdict, provider, faults>>
      BY <1>29 DEF claimForReconciliation
    <3>3. /\ status' \in [Intents -> WrittenStatuses]
          /\ holder' \in [Intents -> Workers \cup {None}]
      BY <2>1, <2>2, <3>1
    <3>4. leaseLive' \in [Intents -> BOOLEAN]
      BY <2>1, <2>2, <3>1
    <3>5. /\ pc' \in [Workers -> NoItemPcs \cup PassPcs \cup DispatchPcs \cup ReconcilePcs]
          /\ item' \in [Workers -> Intents \cup {None}]
          /\ \A v \in Workers : item'[v] = None <=> pc'[v] \in NoItemPcs
      BY <2>1, <2>2, <3>1 DEF Goto
    <3>6. todo' \in [Workers -> SUBSET Intents]
      BY <2>1
    <3>. QED  BY <3>2, <3>3, <3>4, <3>5, <3>6 DEF provider
  <2>3. CASE ~Reconcilable(i)
    BY <1>29, <2>1, <2>3 DEF claimForReconciliation, provider
  <2>. QED  BY <2>2, <2>3
<1>30. ASSUME NEW w \in Workers, LookupAnswered(w) PROVE TypeOK'
  BY <1>30 DEF LookupAnswered, LookupVerdict, NextItem, Return, rows, provider, Goto
<1>31. ASSUME NEW w \in Workers, LookupUnknown(w) PROVE TypeOK'
  BY <1>31 DEF LookupUnknown, NextItem, rows, provider, Goto
<1>32. ASSUME NEW w \in Workers, Settle(w) PROVE TypeOK'
  BY <1>32 DEF Settle, Applies, OutcomeOf, Observe, NextItem, provider,
      canTransitionExecutionStatus, Goto, ALLOWED
<1>33. ASSUME NEW w \in Workers, EndCycle(w) PROVE TypeOK'
  BY <1>33 DEF EndCycle, ReleaseLock, Goto, rows, provider
<1>34. ASSUME NEW w \in Workers, Stop(w) PROVE TypeOK'
  BY <1>34 DEF Stop, ReleaseLock, Goto, rows, provider
<1>35. ASSUME NEW w \in Workers, LoseSession(w) PROVE TypeOK'
  BY <1>35 DEF LoseSession, rows, cycles, provider
<1>36. ASSUME NEW i \in Intents, LeaseLapses(i) PROVE TypeOK'
  BY <1>36 DEF LeaseLapses, cycles, provider
<1>37. ASSUME NEW i \in Intents, ProviderAcceptsPay(i) PROVE TypeOK'
  BY <1>37 DEF ProviderAcceptsPay, rows, cycles
<1>38. ASSUME NEW i \in Intents, ProviderAnswersPay(i) PROVE TypeOK'
  BY <1>38 DEF ProviderAnswersPay, rows, cycles
<1>39. ASSUME NEW o \in Orders, HoldLapses(o) PROVE TypeOK'
  BY <1>39 DEF HoldLapses, rows, cycles
<1>40. ASSUME NEW o \in Orders, ProviderTickets(o) PROVE TypeOK'
  BY <1>40 DEF ProviderTickets, rows, cycles
<1>41. ASSUME NEW o \in Orders, ProviderCancels(o) PROVE TypeOK'
  BY <1>41 DEF ProviderCancels, rows, cycles
<1>42. CASE UNCHANGED vars
  BY <1>42 DEF vars, rows, cycles, provider
<1>. QED
  BY <1>1, <1>2, <1>3, <1>4, <1>5, <1>6, <1>7, <1>8, <1>9, <1>10, <1>11, <1>12,
     <1>13, <1>14, <1>15, <1>16, <1>17, <1>18, <1>19, <1>20, <1>21, <1>22, <1>23, <1>24,
     <1>25, <1>26, <1>27, <1>28, <1>29, <1>30, <1>31, <1>32, <1>33, <1>34, <1>35, <1>36,
     <1>37, <1>38, <1>39, <1>40, <1>41, <1>42
     DEF Next, Step, Pass, Dispatcher, Reconciliation, Fault, Provider

(* Type correctness of the whole specification. *)
THEOREM TypeCorrect == Spec => []TypeOK
<1>1. Init => TypeOK
  BY TypeInit
<1>2. TypeOK /\ [Next]_vars => TypeOK'
  BY TypeStep
<1>. QED  BY <1>1, <1>2, PTL DEF Spec

-----------------------------------------------------------------------------
(* Steps keep each part of the invariant *)

(* Claims, dispatchers and reconciliation keep to their rows. *)
LEMMA OwnershipStep ==
  ASSUME TypeOK, TypeOK', Ownership, [Next]_vars
  PROVE  Ownership'
<1> USE ValuesDiffer DEF TypeOK, WrittenStatuses, NoRow, NoItemPcs, PassPcs,
      DispatchPcs, ReconcilePcs, Verdicts, Ownership, ClaimOwned, DispatchFollowsClaim,
      OneDispatcher, ReconciledIsSwept, Undispatched
<1>1. ASSUME NEW w \in Workers, StartCycle(w) PROVE Ownership'
  BY <1>1 DEF StartCycle, Goto, loadCandidates, rows, provider
<1>2. ASSUME NEW w \in Workers, TakeCandidate(w) PROVE Ownership'
  BY <1>2 DEF TakeCandidate, Goto, rows, provider
<1>3. ASSUME NEW w \in Workers, SkipCandidate(w) PROVE Ownership'
  BY <1>3 DEF SkipCandidate, NextItem, rows, provider, Goto
<1>4. ASSUME NEW w \in Workers, LeftoverPrepared(w) PROVE Ownership'
  BY <1>4 DEF LeftoverPrepared, Goto, rows, provider
<1>5. ASSUME NEW w \in Workers, createPreparedExecutionAttempt(w) PROVE Ownership'
  BY <1>5 DEF createPreparedExecutionAttempt, NotBlocked, Goto, provider,
      BLOCKING_STATUSES, SUCCESS_STATUSES
<1>6. ASSUME NEW w \in Workers, claimPrepared(w) PROVE Ownership'
  <2>1. CASE status[item[w]] = "PREPARED"
    BY <1>6, <2>1, SMTT(40) DEF claimPrepared, Goto, NextItem, provider
  <2>2. CASE status[item[w]] # "PREPARED"
    BY <1>6, <2>2, SMTT(40) DEF claimPrepared, Goto, NextItem, provider
  <2>. QED  BY <2>1, <2>2
<1>7. ASSUME NEW w \in Workers, GateDenies(w) PROVE Ownership'
  BY <1>7 DEF GateDenies, transitionExecutionAttempt, NextItem, provider, Applies, Goto,
      canTransitionExecutionStatus, ALLOWED
<1>8. ASSUME NEW w \in Workers, GateAllows(w) PROVE Ownership'
  BY <1>8 DEF GateAllows, Goto, rows, provider
<1>9. ASSUME NEW w \in Workers, EnterDispatching(w) PROVE Ownership'
  BY <1>9 DEF EnterDispatching, transitionExecutionAttempt, Applies, Goto, NextItem,
      provider, canTransitionExecutionStatus, ALLOWED
<1>10. ASSUME NEW w \in Workers, CreateRefused(w) PROVE Ownership'
  BY <1>10 DEF CreateRefused, Return, rows, provider, Goto
<1>11. ASSUME NEW w \in Workers, CreateAnswered(w) PROVE Ownership'
  BY <1>11 DEF CreateAnswered, NewOrder, Goto, rows
<1>12. ASSUME NEW w \in Workers, CreateLost(w) PROVE Ownership'
  BY <1>12 DEF CreateLost, Return, NewOrder, provider, rows, Goto
<1>13. ASSUME NEW w \in Workers, CreateDuplicate(w) PROVE Ownership'
  BY <1>13 DEF CreateDuplicate, Goto, rows, provider
<1>14. ASSUME NEW w \in Workers, DuplicateUnproven(w) PROVE Ownership'
  BY <1>14 DEF DuplicateUnproven, Return, rows, provider, Goto
<1>15. ASSUME NEW w \in Workers, DuplicateMismatch(w) PROVE Ownership'
  BY <1>15 DEF DuplicateMismatch, Return, rows, provider, Goto
<1>16. ASSUME NEW w \in Workers, DuplicateMatch(w) PROVE Ownership'
  BY <1>16 DEF DuplicateMatch, Goto, rows, provider
<1>17. ASSUME NEW w \in Workers, checkpointRequestRef(w) PROVE Ownership'
  BY <1>17 DEF checkpointRequestRef, CheckpointApplies, WriteCheckpoint, Goto, provider
<1>18. ASSUME NEW w \in Workers, CheckpointFails(w) PROVE Ownership'
  BY <1>18 DEF CheckpointFails, CheckpointApplies, WriteCheckpoint, Return, provider,
      Goto
<1>19. ASSUME NEW w \in Workers, PayGateRefuses(w) PROVE Ownership'
  BY <1>19 DEF PayGateRefuses, Return, rows, provider, Goto
<1>20. ASSUME NEW w \in Workers, PayGatePasses(w) PROVE Ownership'
  BY <1>20 DEF PayGatePasses, Goto, rows, provider
<1>21. ASSUME NEW w \in Workers, payOrder(w) PROVE Ownership'
  BY <1>21 DEF payOrder, Goto, rows
<1>22. ASSUME NEW w \in Workers, PayAnswered(w) PROVE Ownership'
  BY <1>22 DEF PayAnswered, Goto, Return, rows, provider
<1>23. ASSUME NEW w \in Workers, PayInProgress(w) PROVE Ownership'
  BY <1>23 DEF PayInProgress, Goto, rows, provider
<1>24. ASSUME NEW w \in Workers, PayLost(w) PROVE Ownership'
  BY <1>24 DEF PayLost, Return, rows, provider, Goto
<1>25. ASSUME NEW w \in Workers, Poll(w) PROVE Ownership'
  BY <1>25 DEF Poll, Return, rows, provider, Goto
<1>26. ASSUME NEW w \in Workers, DispatcherThrows(w) PROVE Ownership'
  BY <1>26 DEF DispatcherThrows, Return, rows, provider, Goto
<1>27. ASSUME NEW w \in Workers, Record(w) PROVE Ownership'
  <2>1. CASE Applies(item[w], w, "DISPATCHING", OutcomeOf(verdict[w]))
    <3>1. /\ item[w] \in Intents /\ pc[w] = "record"
          /\ status[item[w]] = "DISPATCHING"
          /\ status' = [status EXCEPT ![item[w]] = OutcomeOf(verdict[w])]
          /\ ref' = [ref EXCEPT ![item[w]] = RefAfter(w, verdict[w])]
          /\ pc' = [pc EXCEPT ![w] = "pass"]
          /\ item' = [item EXCEPT ![w] = None]
          /\ ord' = [ord EXCEPT ![w] = None]
          /\ verdict' = [verdict EXCEPT ![w] = "NONE"]
          /\ UNCHANGED <<holder, order, hold, payCall, payFor>>
      BY <1>27, <2>1 DEF Record, Applies, NextItem, Goto, provider
    <3>2. ClaimOwned'
      BY <3>1 DEF OutcomeOf, RefAfter
    <3>3. DispatchFollowsClaim'
      BY <3>1 DEF OutcomeOf, RefAfter
    <3>4. OneDispatcher'
      BY <3>1 DEF OutcomeOf, RefAfter
    <3>5. ReconciledIsSwept'
      BY <3>1 DEF OutcomeOf, RefAfter
    <3>. QED  BY <3>2, <3>3, <3>4, <3>5
  <2>2. CASE ~Applies(item[w], w, "DISPATCHING", OutcomeOf(verdict[w]))
    BY <1>27, <2>2 DEF Record, NextItem, Goto, provider
  <2>. QED  BY <2>1, <2>2
<1>28. ASSUME NEW w \in Workers, StartReconciliation(w) PROVE Ownership'
  BY <1>28 DEF StartReconciliation, Reconcilable, Goto, rows, provider
<1>29. ASSUME NEW w \in Workers, claimForReconciliation(w) PROVE Ownership'
  <2>1. PICK i \in todo[w] :
          /\ todo' = [todo EXCEPT ![w] = @ \ {i}]
          /\ IF Reconcilable(i)
             THEN /\ status' = [status EXCEPT ![i] = "RECONCILIATION_REQUIRED"]
                  /\ holder' = [holder EXCEPT ![i] = w]
                  /\ leaseLive' = [leaseLive EXCEPT ![i] = TRUE]
                  /\ item' = [item EXCEPT ![w] = i]
                  /\ Goto(w, "lookup")
             ELSE UNCHANGED <<status, holder, leaseLive, item, pc>>
    BY <1>29 DEF claimForReconciliation
  <2>2. CASE Reconcilable(i)
    <3>1. /\ i \in Intents /\ pc[w] = "reconcile"
          /\ status[i] \in mayHaveBeenSent
          /\ status' = [status EXCEPT ![i] = "RECONCILIATION_REQUIRED"]
          /\ holder' = [holder EXCEPT ![i] = w]
          /\ item' = [item EXCEPT ![w] = i]
          /\ pc' = [pc EXCEPT ![w] = "lookup"]
          /\ UNCHANGED <<ref, ord, verdict, order, hold, payCall, payFor>>
      BY <1>29, <2>1, <2>2
      DEF claimForReconciliation, Reconcilable, Goto, provider, mayHaveBeenSent
    <3>2. ClaimOwned'
      BY <3>1 DEF mayHaveBeenSent
    <3>3. DispatchFollowsClaim'
      BY <3>1 DEF mayHaveBeenSent
    <3>4. OneDispatcher'
      BY <3>1 DEF mayHaveBeenSent
    <3>5. ReconciledIsSwept'
      BY <3>1 DEF mayHaveBeenSent
    <3>. QED  BY <3>2, <3>3, <3>4, <3>5
  <2>3. CASE ~Reconcilable(i)
    BY <1>29, <2>1, <2>3 DEF claimForReconciliation, provider
  <2>. QED  BY <2>2, <2>3
<1>30. ASSUME NEW w \in Workers, LookupAnswered(w) PROVE Ownership'
  <2>1. /\ pc[w] = "lookup"
        /\ UNCHANGED <<status, holder>>
    BY <1>30 DEF LookupAnswered, rows
  <2>2. CASE NextItem(w, "reconcile")
    BY <2>1, <2>2 DEF NextItem, Goto
  <2>3. CASE pc' = [pc EXCEPT ![w] = "settle"] /\ UNCHANGED item
    BY <2>1, <2>3
  <2>. QED  BY <1>30, <2>2, <2>3 DEF LookupAnswered, Return, Goto
<1>31. ASSUME NEW w \in Workers, LookupUnknown(w) PROVE Ownership'
  BY <1>31 DEF LookupUnknown, NextItem, rows, provider, Goto
<1>32. ASSUME NEW w \in Workers, Settle(w) PROVE Ownership'
  BY <1>32, SMTT(40) DEF Settle, Applies, OutcomeOf, Observe, NextItem, provider,
      canTransitionExecutionStatus, Goto, ALLOWED
<1>33. ASSUME NEW w \in Workers, EndCycle(w) PROVE Ownership'
  BY <1>33 DEF EndCycle, ReleaseLock, Goto, rows, provider
<1>34. ASSUME NEW w \in Workers, Stop(w) PROVE Ownership'
  BY <1>34 DEF Stop, ReleaseLock, Goto, rows, provider
<1>35. ASSUME NEW w \in Workers, LoseSession(w) PROVE Ownership'
  BY <1>35 DEF LoseSession, rows, cycles, provider
<1>36. ASSUME NEW i \in Intents, LeaseLapses(i) PROVE Ownership'
  BY <1>36 DEF LeaseLapses, cycles, provider
<1>37. ASSUME NEW i \in Intents, ProviderAcceptsPay(i) PROVE Ownership'
  BY <1>37 DEF ProviderAcceptsPay, rows, cycles
<1>38. ASSUME NEW i \in Intents, ProviderAnswersPay(i) PROVE Ownership'
  BY <1>38 DEF ProviderAnswersPay, rows, cycles
<1>39. ASSUME NEW o \in Orders, HoldLapses(o) PROVE Ownership'
  BY <1>39 DEF HoldLapses, rows, cycles
<1>40. ASSUME NEW o \in Orders, ProviderTickets(o) PROVE Ownership'
  BY <1>40 DEF ProviderTickets, rows, cycles
<1>41. ASSUME NEW o \in Orders, ProviderCancels(o) PROVE Ownership'
  BY <1>41 DEF ProviderCancels, rows, cycles
<1>42. CASE UNCHANGED vars
  BY <1>42 DEF vars, rows, cycles, provider
<1>. QED
  BY <1>1, <1>2, <1>3, <1>4, <1>5, <1>6, <1>7, <1>8, <1>9, <1>10, <1>11, <1>12,
     <1>13, <1>14, <1>15, <1>16, <1>17, <1>18, <1>19, <1>20, <1>21, <1>22, <1>23, <1>24,
     <1>25, <1>26, <1>27, <1>28, <1>29, <1>30, <1>31, <1>32, <1>33, <1>34, <1>35, <1>36,
     <1>37, <1>38, <1>39, <1>40, <1>41, <1>42
     DEF Next, Step, Pass, Dispatcher, Reconciliation, Fault, Provider

(* The reference on the row stays the order that is paid and observed. *)
LEMMA ReferencesStep ==
  ASSUME TypeOK, TypeOK', Ownership, References, [Next]_vars
  PROVE  References'
<1> USE ValuesDiffer DEF TypeOK, WrittenStatuses, NoRow, NoItemPcs, PassPcs,
      DispatchPcs, ReconcilePcs, Verdicts, Ownership, ClaimOwned, DispatchFollowsClaim,
      OneDispatcher, ReconciledIsSwept, Undispatched, References, NothingPaidYet,
      ReferenceKept, PayOnlyCheckpointed, TicketSeen, SuccessOnlyIfTicketed,
      BeforePayPcs, ReferencePcs, OrderPcs
<1>1. ASSUME NEW w \in Workers, StartCycle(w) PROVE References'
  BY <1>1 DEF StartCycle, Goto, loadCandidates, rows, provider
<1>2. ASSUME NEW w \in Workers, TakeCandidate(w) PROVE References'
  BY <1>2 DEF TakeCandidate, Goto, rows, provider
<1>3. ASSUME NEW w \in Workers, SkipCandidate(w) PROVE References'
  BY <1>3 DEF SkipCandidate, NextItem, rows, provider, Goto
<1>4. ASSUME NEW w \in Workers, LeftoverPrepared(w) PROVE References'
  BY <1>4 DEF LeftoverPrepared, Goto, rows, provider
<1>5. ASSUME NEW w \in Workers, createPreparedExecutionAttempt(w) PROVE References'
  BY <1>5 DEF createPreparedExecutionAttempt, NotBlocked, Goto, provider,
      BLOCKING_STATUSES, SUCCESS_STATUSES
<1>6. ASSUME NEW w \in Workers, claimPrepared(w) PROVE References'
  BY <1>6 DEF claimPrepared, Goto, NextItem, provider
<1>7. ASSUME NEW w \in Workers, GateDenies(w) PROVE References'
  BY <1>7 DEF GateDenies, transitionExecutionAttempt, NextItem, provider, Applies, Goto,
      canTransitionExecutionStatus, ALLOWED
<1>8. ASSUME NEW w \in Workers, GateAllows(w) PROVE References'
  BY <1>8 DEF GateAllows, Goto, rows, provider
<1>9. ASSUME NEW w \in Workers, EnterDispatching(w) PROVE References'
  BY <1>9 DEF EnterDispatching, transitionExecutionAttempt, Applies, Goto, NextItem,
      provider, canTransitionExecutionStatus, ALLOWED
<1>10. ASSUME NEW w \in Workers, CreateRefused(w) PROVE References'
  BY <1>10 DEF CreateRefused, Return, rows, provider, Goto
<1>11. ASSUME NEW w \in Workers, CreateAnswered(w) PROVE References'
  BY <1>11 DEF CreateAnswered, NewOrder, Goto, rows
<1>12. ASSUME NEW w \in Workers, CreateLost(w) PROVE References'
  BY <1>12 DEF CreateLost, Return, NewOrder, provider, rows, Goto
<1>13. ASSUME NEW w \in Workers, CreateDuplicate(w) PROVE References'
  BY <1>13 DEF CreateDuplicate, Goto, rows, provider
<1>14. ASSUME NEW w \in Workers, DuplicateUnproven(w) PROVE References'
  BY <1>14 DEF DuplicateUnproven, Return, rows, provider, Goto
<1>15. ASSUME NEW w \in Workers, DuplicateMismatch(w) PROVE References'
  BY <1>15 DEF DuplicateMismatch, Return, rows, provider, Goto
<1>16. ASSUME NEW w \in Workers, DuplicateMatch(w) PROVE References'
  BY <1>16 DEF DuplicateMatch, Goto, rows, provider
<1>17. ASSUME NEW w \in Workers, checkpointRequestRef(w) PROVE References'
  <2>1. /\ item[w] \in Intents /\ ord[w] \in Orders
        /\ pc[w] \in {"checkpoint", "adopt"}
        /\ status[item[w]] = "DISPATCHING"
        /\ ref' = [ref EXCEPT ![item[w]] = ord[w]]
        /\ pc' = [pc EXCEPT ![w] = IF pc[w] = "adopt" THEN "poll" ELSE "payGate"]
        /\ UNCHANGED <<status, item, ord, verdict, order, hold, payCall, payFor>>
    BY <1>17 DEF checkpointRequestRef, CheckpointApplies, WriteCheckpoint, Goto, provider
  <2>2. NothingPaidYet'
    BY <2>1
  <2>3. ReferenceKept'
    BY <2>1
  <2>4. PayOnlyCheckpointed'
    BY <2>1
  <2>5. TicketSeen'
    BY <2>1
  <2>6. SuccessOnlyIfTicketed'
    BY <2>1
  <2>. QED  BY <2>2, <2>3, <2>4, <2>5, <2>6
<1>18. ASSUME NEW w \in Workers, CheckpointFails(w) PROVE References'
  <2>1. /\ item[w] \in Intents /\ ord[w] \in Orders
        /\ pc[w] \in {"checkpoint", "adopt"}
        /\ pc' = [pc EXCEPT ![w] = "record"]
        /\ verdict' = [verdict EXCEPT ![w] = "LOST_ORDER"]
        /\ UNCHANGED <<status, item, ord, order, hold, payCall, payFor>>
    BY <1>18 DEF CheckpointFails, Return, Goto, provider
  <2>2. CASE UNCHANGED ref
    BY <2>1, <2>2
  <2>3. CASE CheckpointApplies(item[w], w, ord[w]) /\ WriteCheckpoint(item[w], ord[w])
    <3>1. status[item[w]] = "DISPATCHING" /\ ref' = [ref EXCEPT ![item[w]] = ord[w]]
      BY <2>3 DEF CheckpointApplies, WriteCheckpoint
    <3>2. NothingPaidYet'
      BY <2>1, <3>1
    <3>3. ReferenceKept'
      BY <2>1, <3>1
    <3>4. PayOnlyCheckpointed'
      BY <2>1, <3>1
    <3>5. TicketSeen'
      BY <2>1, <3>1
    <3>6. SuccessOnlyIfTicketed'
      BY <2>1, <3>1
    <3>. QED  BY <3>2, <3>3, <3>4, <3>5, <3>6
  <2>. QED  BY <1>18, <2>2, <2>3 DEF CheckpointFails
<1>19. ASSUME NEW w \in Workers, PayGateRefuses(w) PROVE References'
  BY <1>19 DEF PayGateRefuses, Return, rows, provider, Goto
<1>20. ASSUME NEW w \in Workers, PayGatePasses(w) PROVE References'
  BY <1>20 DEF PayGatePasses, Goto, rows, provider
<1>21. ASSUME NEW w \in Workers, payOrder(w) PROVE References'
  BY <1>21 DEF payOrder, Goto, rows
<1>22. ASSUME NEW w \in Workers, PayAnswered(w) PROVE References'
  BY <1>22 DEF PayAnswered, Goto, Return, rows, provider
<1>23. ASSUME NEW w \in Workers, PayInProgress(w) PROVE References'
  BY <1>23 DEF PayInProgress, Goto, rows, provider
<1>24. ASSUME NEW w \in Workers, PayLost(w) PROVE References'
  BY <1>24 DEF PayLost, Return, rows, provider, Goto
<1>25. ASSUME NEW w \in Workers, Poll(w) PROVE References'
  BY <1>25 DEF Poll, Return, rows, provider, Goto
<1>26. ASSUME NEW w \in Workers, DispatcherThrows(w) PROVE References'
  BY <1>26 DEF DispatcherThrows, Return, rows, provider, Goto
<1>27. ASSUME NEW w \in Workers, Record(w) PROVE References'
  <2>1. CASE Applies(item[w], w, "DISPATCHING", OutcomeOf(verdict[w]))
    <3>1. /\ item[w] \in Intents /\ pc[w] = "record"
          /\ status[item[w]] = "DISPATCHING"
          /\ status' = [status EXCEPT ![item[w]] = OutcomeOf(verdict[w])]
          /\ ref' = [ref EXCEPT ![item[w]] = RefAfter(w, verdict[w])]
          /\ pc' = [pc EXCEPT ![w] = "pass"]
          /\ item' = [item EXCEPT ![w] = None]
          /\ ord' = [ord EXCEPT ![w] = None]
          /\ verdict' = [verdict EXCEPT ![w] = "NONE"]
          /\ UNCHANGED <<holder, order, hold, payCall, payFor>>
      BY <1>27, <2>1 DEF Record, Applies, NextItem, Goto, provider
    <3>2. NothingPaidYet'
      BY <3>1 DEF OutcomeOf, RefAfter
    <3>3. ReferenceKept'
      BY <3>1 DEF OutcomeOf, RefAfter
    <3>4. PayOnlyCheckpointed'
      BY <3>1 DEF OutcomeOf, RefAfter
    <3>5. TicketSeen'
      BY <3>1 DEF OutcomeOf, RefAfter
    <3>6. SuccessOnlyIfTicketed'
      BY <3>1 DEF OutcomeOf, RefAfter
    <3>. QED  BY <3>2, <3>3, <3>4, <3>5, <3>6
  <2>2. CASE ~Applies(item[w], w, "DISPATCHING", OutcomeOf(verdict[w]))
    BY <1>27, <2>2 DEF Record, NextItem, Goto, provider
  <2>. QED  BY <2>1, <2>2
<1>28. ASSUME NEW w \in Workers, StartReconciliation(w) PROVE References'
  BY <1>28 DEF StartReconciliation, Reconcilable, Goto, rows, provider
<1>29. ASSUME NEW w \in Workers, claimForReconciliation(w) PROVE References'
  <2>1. PICK i \in todo[w] :
          /\ todo' = [todo EXCEPT ![w] = @ \ {i}]
          /\ IF Reconcilable(i)
             THEN /\ status' = [status EXCEPT ![i] = "RECONCILIATION_REQUIRED"]
                  /\ holder' = [holder EXCEPT ![i] = w]
                  /\ leaseLive' = [leaseLive EXCEPT ![i] = TRUE]
                  /\ item' = [item EXCEPT ![w] = i]
                  /\ Goto(w, "lookup")
             ELSE UNCHANGED <<status, holder, leaseLive, item, pc>>
    BY <1>29 DEF claimForReconciliation
  <2>2. CASE Reconcilable(i)
    BY <1>29, <2>1, <2>2, SMTT(40) DEF claimForReconciliation, Reconcilable, Goto, provider
  <2>3. CASE ~Reconcilable(i)
    BY <1>29, <2>1, <2>3 DEF claimForReconciliation, Reconcilable, Goto, provider
  <2>. QED  BY <2>2, <2>3
<1>30. ASSUME NEW w \in Workers, LookupAnswered(w) PROVE References'
  <2>1. CASE LookupVerdict(ref[item[w]]) = "NONE"
    BY <1>30, <2>1, SMTT(40) DEF LookupAnswered, NextItem, Goto, rows, provider
  <2>2. CASE LookupVerdict(ref[item[w]]) # "NONE"
    <3>1. /\ item[w] \in Intents /\ ref[item[w]] \in Orders /\ pc[w] = "lookup"
          /\ pc' = [pc EXCEPT ![w] = "settle"]
          /\ verdict' = [verdict EXCEPT ![w] = LookupVerdict(ref[item[w]])]
          /\ UNCHANGED <<status, holder, ref, item, ord, order, hold, payCall, payFor>>
      BY <1>30, <2>2 DEF LookupAnswered, Return, Goto, rows, provider
    <3>2. NothingPaidYet'
      BY <3>1 DEF LookupVerdict
    <3>3. ReferenceKept'
      BY <3>1 DEF LookupVerdict
    <3>4. PayOnlyCheckpointed'
      BY <3>1 DEF LookupVerdict
    <3>5. TicketSeen'
      BY <3>1 DEF LookupVerdict
    <3>6. SuccessOnlyIfTicketed'
      BY <3>1 DEF LookupVerdict
    <3>. QED  BY <3>2, <3>3, <3>4, <3>5, <3>6
  <2>. QED  BY <2>1, <2>2
<1>31. ASSUME NEW w \in Workers, LookupUnknown(w) PROVE References'
  BY <1>31 DEF LookupUnknown, NextItem, rows, provider, Goto
<1>32. ASSUME NEW w \in Workers, Settle(w) PROVE References'
  BY <1>32 DEF Settle, Applies, OutcomeOf, Observe, NextItem, provider,
      canTransitionExecutionStatus, Goto, ALLOWED
<1>33. ASSUME NEW w \in Workers, EndCycle(w) PROVE References'
  BY <1>33 DEF EndCycle, ReleaseLock, Goto, rows, provider
<1>34. ASSUME NEW w \in Workers, Stop(w) PROVE References'
  BY <1>34 DEF Stop, ReleaseLock, Goto, rows, provider
<1>35. ASSUME NEW w \in Workers, LoseSession(w) PROVE References'
  BY <1>35 DEF LoseSession, rows, cycles, provider
<1>36. ASSUME NEW i \in Intents, LeaseLapses(i) PROVE References'
  BY <1>36 DEF LeaseLapses, cycles, provider
<1>37. ASSUME NEW i \in Intents, ProviderAcceptsPay(i) PROVE References'
  BY <1>37 DEF ProviderAcceptsPay, rows, cycles
<1>38. ASSUME NEW i \in Intents, ProviderAnswersPay(i) PROVE References'
  BY <1>38 DEF ProviderAnswersPay, rows, cycles
<1>39. ASSUME NEW o \in Orders, HoldLapses(o) PROVE References'
  BY <1>39 DEF HoldLapses, rows, cycles
<1>40. ASSUME NEW o \in Orders, ProviderTickets(o) PROVE References'
  BY <1>40 DEF ProviderTickets, rows, cycles
<1>41. ASSUME NEW o \in Orders, ProviderCancels(o) PROVE References'
  BY <1>41 DEF ProviderCancels, rows, cycles
<1>42. CASE UNCHANGED vars
  BY <1>42 DEF vars, rows, cycles, provider
<1>. QED
  BY <1>1, <1>2, <1>3, <1>4, <1>5, <1>6, <1>7, <1>8, <1>9, <1>10, <1>11, <1>12,
     <1>13, <1>14, <1>15, <1>16, <1>17, <1>18, <1>19, <1>20, <1>21, <1>22, <1>23, <1>24,
     <1>25, <1>26, <1>27, <1>28, <1>29, <1>30, <1>31, <1>32, <1>33, <1>34, <1>35, <1>36,
     <1>37, <1>38, <1>39, <1>40, <1>41, <1>42
     DEF Next, Step, Pass, Dispatcher, Reconciliation, Fault, Provider

(* When lost answers surface as time-outs, a failure stays without payment. *)
LEMMA FailuresStep ==
  ASSUME TypeOK, TypeOK', Ownership, References, Failures, LostAs \subseteq {"TIMEOUT"},
         [Next]_vars
  PROVE  Failures'
<1> USE ValuesDiffer DEF TypeOK, WrittenStatuses, NoRow, NoItemPcs, PassPcs,
      DispatchPcs, ReconcilePcs, Verdicts, Ownership, ClaimOwned, DispatchFollowsClaim,
      OneDispatcher, ReconciledIsSwept, Undispatched, References, NothingPaidYet,
      ReferenceKept, PayOnlyCheckpointed, TicketSeen, SuccessOnlyIfTicketed,
      BeforePayPcs, ReferencePcs, OrderPcs, Failures, AcceptedIsPaid, FailureSeen,
      FailedIsUnpaid, Failed, Closed, Dead, Unaccepted
<1>1. ASSUME NEW w \in Workers, StartCycle(w) PROVE Failures'
  BY <1>1 DEF StartCycle, Goto, loadCandidates, rows, provider
<1>2. ASSUME NEW w \in Workers, TakeCandidate(w) PROVE Failures'
  BY <1>2 DEF TakeCandidate, Goto, rows, provider
<1>3. ASSUME NEW w \in Workers, SkipCandidate(w) PROVE Failures'
  BY <1>3 DEF SkipCandidate, NextItem, rows, provider, Goto
<1>4. ASSUME NEW w \in Workers, LeftoverPrepared(w) PROVE Failures'
  BY <1>4 DEF LeftoverPrepared, Goto, rows, provider
<1>5. ASSUME NEW w \in Workers, createPreparedExecutionAttempt(w) PROVE Failures'
  BY <1>5 DEF createPreparedExecutionAttempt, NotBlocked, Goto, provider,
      BLOCKING_STATUSES, SUCCESS_STATUSES
<1>6. ASSUME NEW w \in Workers, claimPrepared(w) PROVE Failures'
  <2>1. CASE status[item[w]] = "PREPARED"
    BY <1>6, <2>1 DEF claimPrepared, Goto, NextItem, provider
  <2>2. CASE status[item[w]] # "PREPARED"
    BY <1>6, <2>2 DEF claimPrepared, Goto, NextItem, provider
  <2>. QED  BY <2>1, <2>2
<1>7. ASSUME NEW w \in Workers, GateDenies(w) PROVE Failures'
  BY <1>7 DEF GateDenies, transitionExecutionAttempt, NextItem, provider, Applies, Goto,
      canTransitionExecutionStatus, ALLOWED
<1>8. ASSUME NEW w \in Workers, GateAllows(w) PROVE Failures'
  BY <1>8 DEF GateAllows, Goto, rows, provider
<1>9. ASSUME NEW w \in Workers, EnterDispatching(w) PROVE Failures'
  BY <1>9 DEF EnterDispatching, transitionExecutionAttempt, Applies, Goto, NextItem,
      provider, canTransitionExecutionStatus, ALLOWED
<1>10. ASSUME NEW w \in Workers, CreateRefused(w) PROVE Failures'
  BY <1>10 DEF CreateRefused, Return, rows, provider, Goto
<1>11. ASSUME NEW w \in Workers, CreateAnswered(w) PROVE Failures'
  BY <1>11 DEF CreateAnswered, NewOrder, Goto, rows
<1>12. ASSUME NEW w \in Workers, CreateLost(w) PROVE Failures'
  BY <1>12 DEF CreateLost, Return, NewOrder, provider, rows, Goto
<1>13. ASSUME NEW w \in Workers, CreateDuplicate(w) PROVE Failures'
  BY <1>13 DEF CreateDuplicate, Goto, rows, provider
<1>14. ASSUME NEW w \in Workers, DuplicateUnproven(w) PROVE Failures'
  BY <1>14 DEF DuplicateUnproven, Return, rows, provider, Goto
<1>15. ASSUME NEW w \in Workers, DuplicateMismatch(w) PROVE Failures'
  BY <1>15 DEF DuplicateMismatch, Return, rows, provider, Goto
<1>16. ASSUME NEW w \in Workers, DuplicateMatch(w) PROVE Failures'
  BY <1>16 DEF DuplicateMatch, Goto, rows, provider
<1>17. ASSUME NEW w \in Workers, checkpointRequestRef(w) PROVE Failures'
  BY <1>17 DEF checkpointRequestRef, CheckpointApplies, WriteCheckpoint, Goto, provider
<1>18. ASSUME NEW w \in Workers, CheckpointFails(w) PROVE Failures'
  BY <1>18 DEF CheckpointFails, CheckpointApplies, WriteCheckpoint, Return, provider,
      Goto
<1>19. ASSUME NEW w \in Workers, PayGateRefuses(w) PROVE Failures'
  BY <1>19 DEF PayGateRefuses, Return, rows, provider, Goto
<1>20. ASSUME NEW w \in Workers, PayGatePasses(w) PROVE Failures'
  BY <1>20 DEF PayGatePasses, Goto, rows, provider
<1>21. ASSUME NEW w \in Workers, payOrder(w) PROVE Failures'
  BY <1>21 DEF payOrder, Goto, rows
<1>22. ASSUME NEW w \in Workers, PayAnswered(w) PROVE Failures'
  BY <1>22 DEF PayAnswered, Goto, Return, rows, provider
<1>23. ASSUME NEW w \in Workers, PayInProgress(w) PROVE Failures'
  BY <1>23 DEF PayInProgress, Goto, rows, provider
<1>24. ASSUME NEW w \in Workers, PayLost(w) PROVE Failures'
  BY <1>24 DEF PayLost, Return, rows, provider, Goto
<1>25. ASSUME NEW w \in Workers, Poll(w) PROVE Failures'
  BY <1>25 DEF Poll, Return, rows, provider, Goto
<1>26. ASSUME NEW w \in Workers, DispatcherThrows(w) PROVE Failures'
  BY <1>26 DEF DispatcherThrows, Return, rows, provider, Goto
<1>27. ASSUME NEW w \in Workers, Record(w) PROVE Failures'
  <2>1. CASE Applies(item[w], w, "DISPATCHING", OutcomeOf(verdict[w]))
    BY <1>27, <2>1, SMTT(40) DEF Record, Applies, OutcomeOf, RefAfter, Observe, NextItem, provider, canTransitionExecutionStatus, Goto, ALLOWED
  <2>2. CASE ~Applies(item[w], w, "DISPATCHING", OutcomeOf(verdict[w]))
    BY <1>27, <2>2 DEF Record, Applies, OutcomeOf, RefAfter, Observe, NextItem, provider, canTransitionExecutionStatus, Goto, ALLOWED
  <2>. QED  BY <2>1, <2>2
<1>28. ASSUME NEW w \in Workers, StartReconciliation(w) PROVE Failures'
  BY <1>28 DEF StartReconciliation, Reconcilable, Goto, rows, provider
<1>29. ASSUME NEW w \in Workers, claimForReconciliation(w) PROVE Failures'
  <2>1. PICK i \in todo[w] :
          /\ todo' = [todo EXCEPT ![w] = @ \ {i}]
          /\ IF Reconcilable(i)
             THEN /\ status' = [status EXCEPT ![i] = "RECONCILIATION_REQUIRED"]
                  /\ holder' = [holder EXCEPT ![i] = w]
                  /\ leaseLive' = [leaseLive EXCEPT ![i] = TRUE]
                  /\ item' = [item EXCEPT ![w] = i]
                  /\ Goto(w, "lookup")
             ELSE UNCHANGED <<status, holder, leaseLive, item, pc>>
    BY <1>29 DEF claimForReconciliation
  <2>2. CASE Reconcilable(i)
    <3>1. /\ i \in Intents /\ pc[w] = "reconcile"
          /\ status[i] \in mayHaveBeenSent
          /\ status' = [status EXCEPT ![i] = "RECONCILIATION_REQUIRED"]
          /\ holder' = [holder EXCEPT ![i] = w]
          /\ item' = [item EXCEPT ![w] = i]
          /\ pc' = [pc EXCEPT ![w] = "lookup"]
          /\ UNCHANGED <<ref, ord, verdict, order, hold, payCall, payFor>>
      BY <1>29, <2>1, <2>2
      DEF claimForReconciliation, Reconcilable, Goto, provider, mayHaveBeenSent
    <3>2. AcceptedIsPaid'
      BY <3>1 DEF mayHaveBeenSent
    <3>3. FailureSeen'
      BY <3>1 DEF mayHaveBeenSent
    <3>4. FailedIsUnpaid'
      BY <3>1 DEF mayHaveBeenSent
    <3>. QED  BY <3>2, <3>3, <3>4
  <2>3. CASE ~Reconcilable(i)
    BY <1>29, <2>1, <2>3 DEF claimForReconciliation, provider
  <2>. QED  BY <2>2, <2>3
<1>30. ASSUME NEW w \in Workers, LookupAnswered(w) PROVE Failures'
  BY <1>30 DEF LookupAnswered, LookupVerdict, NextItem, Return, rows, provider, Goto
<1>31. ASSUME NEW w \in Workers, LookupUnknown(w) PROVE Failures'
  BY <1>31 DEF LookupUnknown, NextItem, rows, provider, Goto
<1>32. ASSUME NEW w \in Workers, Settle(w) PROVE Failures'
  BY <1>32 DEF Settle, Applies, OutcomeOf, Observe, NextItem, provider,
      canTransitionExecutionStatus, Goto, ALLOWED
<1>33. ASSUME NEW w \in Workers, EndCycle(w) PROVE Failures'
  BY <1>33 DEF EndCycle, ReleaseLock, Goto, rows, provider
<1>34. ASSUME NEW w \in Workers, Stop(w) PROVE Failures'
  BY <1>34 DEF Stop, ReleaseLock, Goto, rows, provider
<1>35. ASSUME NEW w \in Workers, LoseSession(w) PROVE Failures'
  BY <1>35 DEF LoseSession, rows, cycles, provider
<1>36. ASSUME NEW i \in Intents, LeaseLapses(i) PROVE Failures'
  BY <1>36 DEF LeaseLapses, cycles, provider
<1>37. ASSUME NEW i \in Intents, ProviderAcceptsPay(i) PROVE Failures'
  BY <1>37 DEF ProviderAcceptsPay, rows, cycles
<1>38. ASSUME NEW i \in Intents, ProviderAnswersPay(i) PROVE Failures'
  BY <1>38, SMTT(40) DEF ProviderAnswersPay, rows, cycles
<1>39. ASSUME NEW o \in Orders, HoldLapses(o) PROVE Failures'
  BY <1>39 DEF HoldLapses, rows, cycles
<1>40. ASSUME NEW o \in Orders, ProviderTickets(o) PROVE Failures'
  BY <1>40 DEF ProviderTickets, rows, cycles
<1>41. ASSUME NEW o \in Orders, ProviderCancels(o) PROVE Failures'
  BY <1>41 DEF ProviderCancels, rows, cycles
<1>42. CASE UNCHANGED vars
  BY <1>42 DEF vars, rows, cycles, provider
<1>. QED
  BY ZenonT(60), <1>1, <1>2, <1>3, <1>4, <1>5, <1>6, <1>7, <1>8, <1>9, <1>10, <1>11, <1>12,
     <1>13, <1>14, <1>15, <1>16, <1>17, <1>18, <1>19, <1>20, <1>21, <1>22, <1>23, <1>24,
     <1>25, <1>26, <1>27, <1>28, <1>29, <1>30, <1>31, <1>32, <1>33, <1>34, <1>35, <1>36,
     <1>37, <1>38, <1>39, <1>40, <1>41, <1>42
     DEF Next, Step, Pass, Dispatcher, Reconciliation, Fault, Provider

(* One row of the operation is live, and it is the one that pays. *)
LEMMA PaymentsStep ==
  ASSUME TypeOK, TypeOK', Ownership, References, Failures, Payments, [Next]_vars
  PROVE  Payments'
<1> USE ValuesDiffer DEF TypeOK, WrittenStatuses, NoRow, NoItemPcs, PassPcs,
      DispatchPcs, ReconcilePcs, Verdicts, Ownership, ClaimOwned, DispatchFollowsClaim,
      OneDispatcher, ReconciledIsSwept, Undispatched, References, NothingPaidYet,
      ReferenceKept, PayOnlyCheckpointed, TicketSeen, SuccessOnlyIfTicketed,
      BeforePayPcs, ReferencePcs, OrderPcs, Failures, AcceptedIsPaid, FailureSeen,
      FailedIsUnpaid, Failed, Closed, Dead, Unaccepted, Payments, OneLive,
      PaidBySomeIntent, SuccessIsPaid, BLOCKING_STATUSES, SUCCESS_STATUSES,
      mayHaveBeenSent
<1>1. ASSUME NEW w \in Workers, StartCycle(w) PROVE Payments'
  BY <1>1 DEF StartCycle, Goto, loadCandidates, rows, provider
<1>2. ASSUME NEW w \in Workers, TakeCandidate(w) PROVE Payments'
  BY <1>2 DEF TakeCandidate, Goto, rows, provider
<1>3. ASSUME NEW w \in Workers, SkipCandidate(w) PROVE Payments'
  BY <1>3 DEF SkipCandidate, NextItem, rows, provider, Goto
<1>4. ASSUME NEW w \in Workers, LeftoverPrepared(w) PROVE Payments'
  BY <1>4 DEF LeftoverPrepared, Goto, rows, provider
<1>5. ASSUME NEW w \in Workers, createPreparedExecutionAttempt(w) PROVE Payments'
  BY <1>5 DEF createPreparedExecutionAttempt, NotBlocked, Goto, provider
<1>6. ASSUME NEW w \in Workers, claimPrepared(w) PROVE Payments'
  <2>1. CASE status[item[w]] = "PREPARED"
    <3>1. /\ item[w] \in Intents /\ pc[w] = "prepared"
          /\ status[item[w]] = "PREPARED"
          /\ status' = [status EXCEPT ![item[w]] = "CLAIMED"]
          /\ pc' = [pc EXCEPT ![w] = "claimed"]
          /\ UNCHANGED <<ref, item, ord, verdict, order, hold, payCall, payFor>>
      BY <1>6, <2>1, SMTT(40) DEF claimPrepared, Goto, provider
    <3>2. OneLive'
      BY <3>1
    <3>3. PaidBySomeIntent'
      BY <3>1
    <3>4. SuccessIsPaid'
      BY <3>1
    <3>. QED  BY <3>2, <3>3, <3>4
  <2>2. CASE status[item[w]] # "PREPARED"
    BY <1>6, <2>2 DEF claimPrepared, NextItem, Goto, provider
  <2>. QED  BY <2>1, <2>2
<1>7. ASSUME NEW w \in Workers, GateDenies(w) PROVE Payments'
  BY <1>7 DEF GateDenies, transitionExecutionAttempt, NextItem, provider, Applies, Goto,
      canTransitionExecutionStatus, ALLOWED
<1>8. ASSUME NEW w \in Workers, GateAllows(w) PROVE Payments'
  BY <1>8 DEF GateAllows, Goto, rows, provider
<1>9. ASSUME NEW w \in Workers, EnterDispatching(w) PROVE Payments'
  BY <1>9 DEF EnterDispatching, transitionExecutionAttempt, Applies, Goto, NextItem,
      provider, canTransitionExecutionStatus, ALLOWED
<1>10. ASSUME NEW w \in Workers, CreateRefused(w) PROVE Payments'
  BY <1>10 DEF CreateRefused, Return, rows, provider, Goto
<1>11. ASSUME NEW w \in Workers, CreateAnswered(w) PROVE Payments'
  BY <1>11 DEF CreateAnswered, NewOrder, Goto, rows
<1>12. ASSUME NEW w \in Workers, CreateLost(w) PROVE Payments'
  BY <1>12 DEF CreateLost, Return, NewOrder, provider, rows, Goto
<1>13. ASSUME NEW w \in Workers, CreateDuplicate(w) PROVE Payments'
  BY <1>13 DEF CreateDuplicate, Goto, rows, provider
<1>14. ASSUME NEW w \in Workers, DuplicateUnproven(w) PROVE Payments'
  BY <1>14 DEF DuplicateUnproven, Return, rows, provider, Goto
<1>15. ASSUME NEW w \in Workers, DuplicateMismatch(w) PROVE Payments'
  BY <1>15 DEF DuplicateMismatch, Return, rows, provider, Goto
<1>16. ASSUME NEW w \in Workers, DuplicateMatch(w) PROVE Payments'
  BY <1>16 DEF DuplicateMatch, Goto, rows, provider
<1>17. ASSUME NEW w \in Workers, checkpointRequestRef(w) PROVE Payments'
  BY <1>17 DEF checkpointRequestRef, CheckpointApplies, WriteCheckpoint, Goto, provider
<1>18. ASSUME NEW w \in Workers, CheckpointFails(w) PROVE Payments'
  BY <1>18 DEF CheckpointFails, CheckpointApplies, WriteCheckpoint, Return, provider,
      Goto
<1>19. ASSUME NEW w \in Workers, PayGateRefuses(w) PROVE Payments'
  BY <1>19 DEF PayGateRefuses, Return, rows, provider, Goto
<1>20. ASSUME NEW w \in Workers, PayGatePasses(w) PROVE Payments'
  BY <1>20 DEF PayGatePasses, Goto, rows, provider
<1>21. ASSUME NEW w \in Workers, payOrder(w) PROVE Payments'
  BY <1>21 DEF payOrder, Goto, rows
<1>22. ASSUME NEW w \in Workers, PayAnswered(w) PROVE Payments'
  BY <1>22 DEF PayAnswered, Goto, Return, rows, provider
<1>23. ASSUME NEW w \in Workers, PayInProgress(w) PROVE Payments'
  BY <1>23 DEF PayInProgress, Goto, rows, provider
<1>24. ASSUME NEW w \in Workers, PayLost(w) PROVE Payments'
  BY <1>24 DEF PayLost, Return, rows, provider, Goto
<1>25. ASSUME NEW w \in Workers, Poll(w) PROVE Payments'
  BY <1>25, SMTT(40) DEF Poll, Return, rows, provider, Goto
<1>26. ASSUME NEW w \in Workers, DispatcherThrows(w) PROVE Payments'
  BY <1>26 DEF DispatcherThrows, Return, rows, provider, Goto
<1>27. ASSUME NEW w \in Workers, Record(w) PROVE Payments'
  <2>1. CASE Applies(item[w], w, "DISPATCHING", OutcomeOf(verdict[w]))
    <3>1. /\ item[w] \in Intents /\ pc[w] = "record"
          /\ status[item[w]] = "DISPATCHING"
          /\ status' = [status EXCEPT ![item[w]] = OutcomeOf(verdict[w])]
          /\ ref' = [ref EXCEPT ![item[w]] = RefAfter(w, verdict[w])]
          /\ pc' = [pc EXCEPT ![w] = "pass"]
          /\ item' = [item EXCEPT ![w] = None]
          /\ ord' = [ord EXCEPT ![w] = None]
          /\ verdict' = [verdict EXCEPT ![w] = "NONE"]
          /\ UNCHANGED <<holder, order, hold, payCall, payFor>>
      BY <1>27, <2>1, SMTT(40) DEF Record, Applies, NextItem, Goto, provider
    <3>2. OneLive'
      BY <3>1 DEF OutcomeOf, RefAfter
    <3>3. PaidBySomeIntent'
      BY <3>1 DEF OutcomeOf, RefAfter
    <3>4. SuccessIsPaid'
      BY <3>1 DEF OutcomeOf, RefAfter
    <3>. QED  BY <3>2, <3>3, <3>4
  <2>2. CASE ~Applies(item[w], w, "DISPATCHING", OutcomeOf(verdict[w]))
    BY <1>27, <2>2 DEF Record, NextItem, Goto, provider
  <2>. QED  BY <2>1, <2>2
<1>28. ASSUME NEW w \in Workers, StartReconciliation(w) PROVE Payments'
  BY <1>28 DEF StartReconciliation, Reconcilable, Goto, rows, provider
<1>29. ASSUME NEW w \in Workers, claimForReconciliation(w) PROVE Payments'
  <2>1. PICK i \in todo[w] :
          /\ todo' = [todo EXCEPT ![w] = @ \ {i}]
          /\ IF Reconcilable(i)
             THEN /\ status' = [status EXCEPT ![i] = "RECONCILIATION_REQUIRED"]
                  /\ holder' = [holder EXCEPT ![i] = w]
                  /\ leaseLive' = [leaseLive EXCEPT ![i] = TRUE]
                  /\ item' = [item EXCEPT ![w] = i]
                  /\ Goto(w, "lookup")
             ELSE UNCHANGED <<status, holder, leaseLive, item, pc>>
    BY <1>29 DEF claimForReconciliation
  <2>2. CASE Reconcilable(i)
    <3>1. /\ i \in Intents /\ pc[w] = "reconcile"
          /\ status[i] \in mayHaveBeenSent
          /\ status' = [status EXCEPT ![i] = "RECONCILIATION_REQUIRED"]
          /\ holder' = [holder EXCEPT ![i] = w]
          /\ item' = [item EXCEPT ![w] = i]
          /\ pc' = [pc EXCEPT ![w] = "lookup"]
          /\ UNCHANGED <<ref, ord, verdict, order, hold, payCall, payFor>>
      BY <1>29, <2>1, <2>2
      DEF claimForReconciliation, Reconcilable, Goto, provider, mayHaveBeenSent
    <3>2. OneLive'
      BY <3>1 DEF mayHaveBeenSent
    <3>3. PaidBySomeIntent'
      BY <3>1 DEF mayHaveBeenSent
    <3>4. SuccessIsPaid'
      BY <3>1 DEF mayHaveBeenSent
    <3>. QED  BY <3>2, <3>3, <3>4
  <2>3. CASE ~Reconcilable(i)
    BY <1>29, <2>1, <2>3 DEF claimForReconciliation, provider
  <2>. QED  BY <2>2, <2>3
<1>30. ASSUME NEW w \in Workers, LookupAnswered(w) PROVE Payments'
  <2>1. CASE LookupVerdict(ref[item[w]]) = "NONE"
    BY <1>30, <2>1 DEF LookupAnswered, NextItem, Goto, rows, provider
  <2>2. CASE LookupVerdict(ref[item[w]]) # "NONE"
    <3>1. /\ item[w] \in Intents /\ ref[item[w]] \in Orders /\ pc[w] = "lookup"
          /\ pc' = [pc EXCEPT ![w] = "settle"]
          /\ verdict' = [verdict EXCEPT ![w] = LookupVerdict(ref[item[w]])]
          /\ UNCHANGED <<status, holder, ref, item, ord, order, hold, payCall, payFor>>
      BY <1>30, <2>2 DEF LookupAnswered, Return, Goto, rows, provider
    <3>2. OneLive'
      BY <3>1 DEF LookupVerdict
    <3>3. PaidBySomeIntent'
      BY <3>1 DEF LookupVerdict
    <3>4. SuccessIsPaid'
      BY <3>1, SMTT(40) DEF LookupVerdict
    <3>. QED  BY <3>2, <3>3, <3>4
  <2>. QED  BY <2>1, <2>2
<1>31. ASSUME NEW w \in Workers, LookupUnknown(w) PROVE Payments'
  BY <1>31 DEF LookupUnknown, NextItem, rows, provider, Goto
<1>32. ASSUME NEW w \in Workers, Settle(w) PROVE Payments'
  <2>1. CASE Applies(item[w], w, "RECONCILIATION_REQUIRED", OutcomeOf(verdict[w]))
    <3>1. /\ item[w] \in Intents /\ pc[w] = "settle"
          /\ status[item[w]] = "RECONCILIATION_REQUIRED"
          /\ status' = [status EXCEPT ![item[w]] = OutcomeOf(verdict[w])]
          /\ pc' = [pc EXCEPT ![w] = "reconcile"]
          /\ item' = [item EXCEPT ![w] = None]
          /\ ord' = [ord EXCEPT ![w] = None]
          /\ verdict' = [verdict EXCEPT ![w] = "NONE"]
          /\ UNCHANGED <<holder, ref, order, hold, payCall, payFor>>
      BY <1>32, <2>1, SMTT(40) DEF Settle, Applies, NextItem, Goto, provider
    <3>2. OneLive'
      BY <3>1 DEF OutcomeOf
    <3>3. PaidBySomeIntent'
      BY <3>1 DEF OutcomeOf
    <3>4. SuccessIsPaid'
      BY <3>1 DEF OutcomeOf
    <3>. QED  BY <3>2, <3>3, <3>4
  <2>2. CASE ~Applies(item[w], w, "RECONCILIATION_REQUIRED", OutcomeOf(verdict[w]))
    BY <1>32, <2>2 DEF Settle, NextItem, Goto, provider
  <2>. QED  BY <2>1, <2>2
<1>33. ASSUME NEW w \in Workers, EndCycle(w) PROVE Payments'
  BY <1>33 DEF EndCycle, ReleaseLock, Goto, rows, provider
<1>34. ASSUME NEW w \in Workers, Stop(w) PROVE Payments'
  BY <1>34 DEF Stop, ReleaseLock, Goto, rows, provider
<1>35. ASSUME NEW w \in Workers, LoseSession(w) PROVE Payments'
  BY <1>35 DEF LoseSession, rows, cycles, provider
<1>36. ASSUME NEW i \in Intents, LeaseLapses(i) PROVE Payments'
  BY <1>36 DEF LeaseLapses, cycles, provider
<1>37. ASSUME NEW i \in Intents, ProviderAcceptsPay(i) PROVE Payments'
  BY <1>37 DEF ProviderAcceptsPay, rows, cycles
<1>38. ASSUME NEW i \in Intents, ProviderAnswersPay(i) PROVE Payments'
  BY <1>38 DEF ProviderAnswersPay, rows, cycles
<1>39. ASSUME NEW o \in Orders, HoldLapses(o) PROVE Payments'
  BY <1>39 DEF HoldLapses, rows, cycles
<1>40. ASSUME NEW o \in Orders, ProviderTickets(o) PROVE Payments'
  BY <1>40 DEF ProviderTickets, rows, cycles
<1>41. ASSUME NEW o \in Orders, ProviderCancels(o) PROVE Payments'
  BY <1>41 DEF ProviderCancels, rows, cycles
<1>42. CASE UNCHANGED vars
  BY <1>42 DEF vars, rows, cycles, provider
<1>. QED
  BY SMTT(40), <1>1, <1>2, <1>3, <1>4, <1>5, <1>6, <1>7, <1>8, <1>9, <1>10, <1>11, <1>12,
     <1>13, <1>14, <1>15, <1>16, <1>17, <1>18, <1>19, <1>20, <1>21, <1>22, <1>23, <1>24,
     <1>25, <1>26, <1>27, <1>28, <1>29, <1>30, <1>31, <1>32, <1>33, <1>34, <1>35, <1>36,
     <1>37, <1>38, <1>39, <1>40, <1>41, <1>42
     DEF Next, Step, Pass, Dispatcher, Reconciliation, Fault, Provider

-----------------------------------------------------------------------------
(* The invariants of the specification *)

(* The row and dispatcher facts that hold whatever a lost answer looks like. *)
LEMMA RowInvariant == Spec => [](TypeOK /\ Ownership /\ References)
<1>1. Init => TypeOK /\ Ownership /\ References
  <2>1. Init => TypeOK
    BY TypeInit
  <2>2. Init => Ownership
    BY DEF Init, Ownership, ClaimOwned, DispatchFollowsClaim, OneDispatcher,
      ReconciledIsSwept, DispatchPcs, ReconcilePcs
  <2>3. Init => References
    BY DEF Init, References, NothingPaidYet, ReferenceKept, PayOnlyCheckpointed, TicketSeen,
      SuccessOnlyIfTicketed, BeforePayPcs, ReferencePcs, OrderPcs, NoRow
  <2>. QED  BY <2>1, <2>2, <2>3
<1>2. TypeOK /\ Ownership /\ References /\ [Next]_vars
        => (TypeOK /\ Ownership /\ References)'
  BY TypeStep, OwnershipStep, ReferencesStep
<1>. QED  BY <1>1, <1>2, PTL DEF Spec

(* The payment facts, which need lost answers to surface as time-outs. *)
LEMMA PaymentInvariant ==
  ASSUME LostAs \subseteq {"TIMEOUT"}
  PROVE  Spec => [](TypeOK /\ Ownership /\ References /\ Failures /\ Payments)
<1>1. Init => Failures /\ Payments
  BY DEF Init, Failures, AcceptedIsPaid, FailureSeen, FailedIsUnpaid, Failed, Payments, OneLive,
    PaidBySomeIntent, SuccessIsPaid, BLOCKING_STATUSES, SUCCESS_STATUSES, NoRow
<1>2. TypeOK /\ TypeOK' /\ Ownership /\ References /\ Failures /\ Payments /\ [Next]_vars
        => (Failures /\ Payments)'
  BY FailuresStep, PaymentsStep
<1>. QED  BY <1>1, <1>2, RowInvariant, PTL DEF Spec

(* Every order that may have been paid is on its row: reconciliation can find
   it after any crash, lost answer or fenced write of the dispatcher. *)
THEOREM PaidOrderIsCheckpointed == Spec => []PayOnlyCheckpointed
<1>1. References => PayOnlyCheckpointed
  BY DEF References
<1>. QED  BY <1>1, RowInvariant, PTL

(* Success is recorded only for an order that the provider has ticketed. *)
THEOREM SuccessIsTicketed == Spec => []SuccessOnlyIfTicketed
<1>1. References => SuccessOnlyIfTicketed
  BY DEF References
<1>. QED  BY <1>1, RowInvariant, PTL

(* Only seven actions write the status of a row or its observations. *)
LEMMA QuietStep ==
  ASSUME [Next]_vars
  PROVE  \/ \E w \in Workers :
              \/ createPreparedExecutionAttempt(w)
              \/ claimPrepared(w)
              \/ GateDenies(w)
              \/ EnterDispatching(w)
              \/ Record(w)
              \/ claimForReconciliation(w)
              \/ Settle(w)
         \/ UNCHANGED <<status, observed>>
<1>1. ASSUME NEW w \in Workers,
             \/ StartCycle(w) \/ TakeCandidate(w) \/ SkipCandidate(w)
             \/ LeftoverPrepared(w) \/ GateAllows(w) \/ CreateRefused(w)
             \/ CreateAnswered(w) \/ CreateLost(w) \/ CreateDuplicate(w)
             \/ DuplicateUnproven(w) \/ DuplicateMismatch(w) \/ DuplicateMatch(w)
             \/ checkpointRequestRef(w) \/ CheckpointFails(w) \/ PayGateRefuses(w)
             \/ PayGatePasses(w) \/ payOrder(w) \/ PayAnswered(w)
             \/ PayInProgress(w) \/ PayLost(w) \/ Poll(w)
             \/ DispatcherThrows(w) \/ StartReconciliation(w) \/ LookupAnswered(w)
             \/ LookupUnknown(w) \/ EndCycle(w) \/ Stop(w)
             \/ LoseSession(w)
      PROVE  UNCHANGED <<status, observed>>
  BY <1>1 DEF StartCycle, TakeCandidate, SkipCandidate, LeftoverPrepared, GateAllows,
      CreateRefused, CreateAnswered, CreateLost, CreateDuplicate, DuplicateUnproven,
      DuplicateMismatch, DuplicateMatch, checkpointRequestRef, CheckpointFails,
      PayGateRefuses, PayGatePasses, payOrder, PayAnswered, PayInProgress, PayLost,
      Poll, DispatcherThrows, StartReconciliation, LookupAnswered, LookupUnknown,
      EndCycle, Stop, LoseSession, rows
<1>2. ASSUME NEW i \in Intents,
             \/ LeaseLapses(i) \/ ProviderAcceptsPay(i) \/ ProviderAnswersPay(i)
      PROVE  UNCHANGED <<status, observed>>
  BY <1>2 DEF LeaseLapses, ProviderAcceptsPay, ProviderAnswersPay, rows
<1>3. ASSUME NEW o \in Orders,
             \/ HoldLapses(o) \/ ProviderTickets(o) \/ ProviderCancels(o)
      PROVE  UNCHANGED <<status, observed>>
  BY <1>3 DEF HoldLapses, ProviderTickets, ProviderCancels, rows
<1>4. CASE UNCHANGED vars
  BY <1>4 DEF vars, rows
<1>. QED
  BY <1>1, <1>2, <1>3, <1>4 DEF Next, Step, Pass, Dispatcher, Reconciliation, Fault, Provider

(* The observation and the success status are written together and once, by
   whichever of dispatcher and reconciliation is not fenced. *)
THEOREM ObservedOnce == Spec => []OneObservationPerSuccess
<1>1. Init => OneObservationPerSuccess
  BY DEF Init, OneObservationPerSuccess, NoRow
<1>2. TypeOK /\ TypeOK' /\ Ownership /\ OneObservationPerSuccess /\ [Next]_vars
        => OneObservationPerSuccess'
  <2> SUFFICES ASSUME TypeOK, TypeOK', Ownership, OneObservationPerSuccess, [Next]_vars
               PROVE  OneObservationPerSuccess'
    OBVIOUS
  <2> USE DEF OneObservationPerSuccess, TypeOK, WrittenStatuses, NoRow, NoItemPcs
  <2>1. ASSUME NEW w \in Workers, createPreparedExecutionAttempt(w) PROVE OneObservationPerSuccess'
    BY <2>1 DEF createPreparedExecutionAttempt, NotBlocked, Goto, provider,
        BLOCKING_STATUSES, SUCCESS_STATUSES
  <2>2. ASSUME NEW w \in Workers, claimPrepared(w) PROVE OneObservationPerSuccess'
    BY <2>2 DEF claimPrepared, Goto, NextItem, provider
  <2>3. ASSUME NEW w \in Workers, GateDenies(w) PROVE OneObservationPerSuccess'
    BY <2>3 DEF GateDenies, transitionExecutionAttempt, NextItem, provider, Applies,
        Goto, canTransitionExecutionStatus, ALLOWED
  <2>4. ASSUME NEW w \in Workers, EnterDispatching(w) PROVE OneObservationPerSuccess'
    BY <2>4 DEF EnterDispatching, transitionExecutionAttempt, Applies, Goto, NextItem,
        provider, canTransitionExecutionStatus, ALLOWED
  <2>5. ASSUME NEW w \in Workers, Record(w) PROVE OneObservationPerSuccess'
    BY <2>5 DEF Record, Applies, OutcomeOf, RefAfter, Observe, NextItem, provider,
        canTransitionExecutionStatus, Goto, ALLOWED
  <2>6. ASSUME NEW w \in Workers, claimForReconciliation(w) PROVE OneObservationPerSuccess'
    BY <2>6 DEF claimForReconciliation, Reconcilable, Goto, provider
  <2>7. ASSUME NEW w \in Workers, Settle(w) PROVE OneObservationPerSuccess'
    BY <2>7 DEF Settle, Applies, OutcomeOf, Observe, NextItem, provider,
        canTransitionExecutionStatus, Goto, ALLOWED
  <2>8. CASE UNCHANGED <<status, observed>>
    BY <2>8
  <2>. QED
    BY <2>1, <2>2, <2>3, <2>4, <2>5, <2>6, <2>7, <2>8, QuietStep
<1>. QED  BY <1>1, <1>2, RowInvariant, PTL DEF Spec

(* No action takes a touched attempt back to where a dispatch could start
   again, and none changes a recorded outcome. *)
THEOREM NeverRedispatched == Spec => NoRedispatch
<1> DEFINE Kept ==
      \A i \in Intents :
        /\ status[i] \notin {NoRow, "PREPARED"} =>
             status'[i] \notin {NoRow, "PREPARED"}
               /\ (status[i] # "CLAIMED" => status'[i] # "CLAIMED")
        /\ status[i] \in {"OBSERVED_SUCCESS", "OBSERVED_FAILURE", "FAILED"} =>
             status'[i] = status[i]
<1>1. TypeOK /\ [Next]_vars => Kept
  <2> SUFFICES ASSUME TypeOK, [Next]_vars PROVE Kept
    OBVIOUS
  <2> USE DEF TypeOK, WrittenStatuses, NoRow, NoItemPcs
  <2>1. ASSUME NEW w \in Workers, createPreparedExecutionAttempt(w) PROVE Kept
    BY <2>1 DEF createPreparedExecutionAttempt, NotBlocked, Goto, provider,
        BLOCKING_STATUSES, SUCCESS_STATUSES
  <2>2. ASSUME NEW w \in Workers, claimPrepared(w) PROVE Kept
    BY <2>2 DEF claimPrepared, Goto, NextItem, provider
  <2>3. ASSUME NEW w \in Workers, GateDenies(w) PROVE Kept
    BY <2>3 DEF GateDenies, transitionExecutionAttempt, NextItem, provider, Applies,
        Goto, canTransitionExecutionStatus, ALLOWED
  <2>4. ASSUME NEW w \in Workers, EnterDispatching(w) PROVE Kept
    BY <2>4 DEF EnterDispatching, transitionExecutionAttempt, Applies, Goto, NextItem,
        provider, canTransitionExecutionStatus, ALLOWED
  <2>5. ASSUME NEW w \in Workers, Record(w) PROVE Kept
    BY <2>5 DEF Record, Applies, OutcomeOf, RefAfter, Observe, NextItem, provider,
        canTransitionExecutionStatus, Goto, ALLOWED
  <2>6. ASSUME NEW w \in Workers, claimForReconciliation(w) PROVE Kept
    BY <2>6 DEF claimForReconciliation, Reconcilable, Goto, provider
  <2>7. ASSUME NEW w \in Workers, Settle(w) PROVE Kept
    BY <2>7 DEF Settle, Applies, OutcomeOf, Observe, NextItem, provider,
        canTransitionExecutionStatus, Goto, ALLOWED
  <2>8. CASE UNCHANGED <<status, observed>>
    BY <2>8
  <2>. QED
    BY <2>1, <2>2, <2>3, <2>4, <2>5, <2>6, <2>7, <2>8, QuietStep
<1>. QED  BY <1>1, TypeCorrect, PTL DEF Spec, NoRedispatch

(* A standing payment belongs to a live or successful row. *)
LEMMA StandingIsLive ==
  ASSUME TypeOK, References, Failures, NEW i \in Intents, Standing(i)
  PROVE  status[i] \in BLOCKING_STATUSES
  BY DEF TypeOK, WrittenStatuses, References, NothingPaidYet, PayOnlyCheckpointed, Undispatched,
    Failures, FailedIsUnpaid, Failed, Closed, Dead, Unaccepted, Standing, NoRow,
    BLOCKING_STATUSES, SUCCESS_STATUSES

(* With time-outs as the only form of a lost answer, a reported failure has no
   standing payment and never gets one. *)
THEOREM FailureIsNeverCharged ==
  ASSUME LostAs \subseteq {"TIMEOUT"}
  PROVE  Spec => []FailedAttemptNeverCharged
<1>1. TypeOK /\ References /\ Failures => FailedAttemptNeverCharged
  BY DEF TypeOK, References, PayOnlyCheckpointed, Failures, FailedIsUnpaid, Failed, Closed, Dead,
    Unaccepted, FailedAttemptNeverCharged, Standing
<1>. QED  BY <1>1, PaymentInvariant, PTL

(* Under the same assumption the offer is not paid for twice, however many
   re-plans, servers, crashes and stale dispatchers there are. *)
THEOREM PaidAtMostOnce ==
  ASSUME LostAs \subseteq {"TIMEOUT"}
  PROVE  Spec => []AtMostOneStandingPurchase
<1>1. TypeOK /\ References /\ Failures /\ Payments => AtMostOneStandingPurchase
  BY StandingIsLive DEF AtMostOneStandingPurchase, Payments, OneLive
<1>. QED  BY <1>1, PaymentInvariant, PTL

-----------------------------------------------------------------------------
(* The cycle implements the purchase that is made once *)

(* What is reported of a row, before and after a step. *)
LEMMA ReportedIs ==
  ASSUME NEW i \in Intents
  PROVE  /\ status[i] \in Undispatched => Reported(i) = "NOTHING"
         /\ status[i] \in mayHaveBeenSent => Reported(i) = "UNCERTAIN"
         /\ status[i] = "OBSERVED_SUCCESS" => Reported(i) = "SUCCEEDED"
         /\ status[i] \in Failed => Reported(i) = "FAILED"
         /\ status'[i] \in Undispatched => Reported(i)' = "NOTHING"
         /\ status'[i] \in mayHaveBeenSent => Reported(i)' = "UNCERTAIN"
         /\ status'[i] = "OBSERVED_SUCCESS" => Reported(i)' = "SUCCEEDED"
         /\ status'[i] \in Failed => Reported(i)' = "FAILED"
  BY DEF Reported, NoRow, Undispatched, Failed, mayHaveBeenSent, SUCCESS_STATUSES

(* A step that changes neither what is reported nor what is paid stutters. *)
LEMMA StutterStep ==
  ASSUME \A i \in Intents : Reported(i)' = Reported(i) /\ Payment(i)' = Payment(i)
  PROVE  UNCHANGED Purchase!purchaseVars
  BY DEF Purchase!purchaseVars

(* A step that moves what is reported of one intent and leaves the payments. *)
LEMMA ReportStep ==
  ASSUME NEW i \in Intents, NEW from, NEW to, Reported(i) = from, Reported(i)' = to,
         \A j \in Intents \ {i} : Reported(j)' = Reported(j),
         \A j \in Intents : Payment(j)' = Payment(j)
  PROVE  Purchase!Report(i, from, to)
  BY DEF Purchase!Report

(* A step that moves the payment of one intent and leaves what is reported. *)
LEMMA PaymentStep ==
  ASSUME NEW i \in Intents, NEW to, Payment(i)' = to,
         \A j \in Intents \ {i} : Payment(j)' = Payment(j),
         \A j \in Intents : Reported(j)' = Reported(j)
  PROVE  /\ [j \in Intents |-> Payment(j)]' = [[j \in Intents |-> Payment(j)] EXCEPT ![i] = to]
         /\ UNCHANGED [j \in Intents |-> Reported(j)]
  OBVIOUS

(* Every step of the cycle, the faults and the provider is a step of the
   abstract purchase or leaves it alone. *)
LEMMA PurchaseStep ==
  ASSUME TypeOK, TypeOK', Ownership, References, References', Failures, Failures', Payments,
         [Next]_vars
  PROVE  [Purchase!PurchaseNext]_(Purchase!purchaseVars)
<1> DEFINE Stutter == UNCHANGED Purchase!purchaseVars
<1> DEFINE Simulated == Purchase!PurchaseNext \/ Stutter
<1>1. ASSUME UNCHANGED <<status, order, payCall, payFor>> PROVE Stutter
  BY <1>1, StutterStep DEF Reported, Payment, Standing
<1>2. ASSUME NEW w \in Workers,
             \/ StartCycle(w) \/ TakeCandidate(w) \/ SkipCandidate(w)
             \/ LeftoverPrepared(w) \/ GateAllows(w) \/ CreateRefused(w)
             \/ CreateDuplicate(w) \/ DuplicateUnproven(w) \/ DuplicateMismatch(w)
             \/ DuplicateMatch(w) \/ checkpointRequestRef(w) \/ CheckpointFails(w)
             \/ PayGateRefuses(w) \/ PayGatePasses(w) \/ PayAnswered(w)
             \/ PayInProgress(w) \/ PayLost(w) \/ Poll(w)
             \/ DispatcherThrows(w) \/ StartReconciliation(w) \/ LookupAnswered(w)
             \/ LookupUnknown(w) \/ EndCycle(w) \/ Stop(w)
             \/ LoseSession(w)
      PROVE  Stutter
  <2>1. UNCHANGED <<status, order, payCall, payFor>>
    BY <1>2 DEF StartCycle, TakeCandidate, SkipCandidate, LeftoverPrepared, GateAllows, CreateRefused,
        CreateDuplicate, DuplicateUnproven, DuplicateMismatch, DuplicateMatch,
        checkpointRequestRef, CheckpointFails, PayGateRefuses, PayGatePasses,
        PayAnswered, PayInProgress, PayLost, Poll, DispatcherThrows,
        StartReconciliation, LookupAnswered, LookupUnknown, EndCycle, Stop, LoseSession,
        rows, provider
  <2>. QED  BY <1>1, <2>1
<1>3. ASSUME NEW o \in Orders, NewOrder(o), UNCHANGED status PROVE Stutter
  <2>1. \A i \in Intents : Standing(i)' = Standing(i)
    BY <1>3 DEF NewOrder, Standing, TypeOK, References, PayOnlyCheckpointed
  <2>. QED  BY <1>3, <2>1, StutterStep DEF NewOrder, Reported, Payment
<1>4. ASSUME NEW w \in Workers, CreateAnswered(w) \/ CreateLost(w) PROVE Stutter
  <2>1. /\ UNCHANGED status
        /\ (\E o \in Orders : NewOrder(o)) \/ UNCHANGED provider
    BY <1>4 DEF CreateAnswered, CreateLost, rows
  <2>. QED  BY <1>1, <1>3, <2>1 DEF provider
<1>5. ASSUME NEW w \in Workers, payOrder(w) PROVE Stutter
  <2>1. /\ item[w] \in Intents
        /\ payCall[item[w]] = "NONE"
        /\ payCall' = [payCall EXCEPT ![item[w]] = "SENT"]
        /\ \A i \in Intents : i # item[w] => payFor'[i] = payFor[i]
        /\ UNCHANGED <<status, order>>
    BY <1>5 DEF payOrder, rows, TypeOK, NoItemPcs, References, NothingPaidYet, BeforePayPcs
  <2>2. \A i \in Intents : Payment(i)' = Payment(i)
    BY <2>1 DEF Payment, Standing, TypeOK
  <2>. QED  BY <2>1, <2>2, StutterStep DEF Reported
\* From here on the rows change and the payments do not.
<1>6. ASSUME UNCHANGED <<order, payCall, payFor>>
      PROVE  \A i \in Intents : Payment(i)' = Payment(i)
  BY <1>6 DEF Payment, Standing
<1>7. ASSUME NEW i \in Intents, NEW to \in WrittenStatuses,
             status' = [status EXCEPT ![i] = to],
             UNCHANGED <<order, payCall, payFor>>,
             \/ Reported(i)' = Reported(i)
             \/ Purchase!Begin(i) \/ Purchase!Refuse(i) \/ Purchase!Succeed(i) \/ Purchase!Fail(i)
      PROVE  Simulated
  <2>1. CASE Reported(i)' = Reported(i)
    <3>1. \A j \in Intents : Reported(j)' = Reported(j)
      BY <1>7, <2>1 DEF Reported, TypeOK
    <3>. QED  BY <1>6, <1>7, <3>1, StutterStep
  <2>. QED  BY <1>7, <2>1 DEF Purchase!PurchaseNext
<1>8. ASSUME NEW i \in Intents, NEW to \in WrittenStatuses,
             status' = [status EXCEPT ![i] = to],
             UNCHANGED <<order, payCall, payFor>>
      PROVE  \A from, new : Reported(i) = from /\ Reported(i)' = new => Purchase!Report(i, from, new)
  <2>1. \A j \in Intents \ {i} : Reported(j)' = Reported(j)
    BY <1>8 DEF Reported, TypeOK
  <2>. QED  BY <1>6, <1>8, <2>1, ReportStep
<1>9. ASSUME NEW w \in Workers, createPreparedExecutionAttempt(w) PROVE Simulated
  <2>0. /\ item[w] \in Intents /\ status[item[w]] = NoRow
        /\ status' = [status EXCEPT ![item[w]] = "PREPARED"]
        /\ UNCHANGED <<order, payCall, payFor>>
    BY <1>9 DEF createPreparedExecutionAttempt, provider, TypeOK, NoItemPcs
  <2>1. PICK i \in Intents :
          /\ status[i] = NoRow
          /\ status' = [status EXCEPT ![i] = "PREPARED"]
          /\ UNCHANGED <<order, payCall, payFor>>
    BY <2>0
  <2>2. Reported(i)' = Reported(i)
    BY <2>1, ReportedIs DEF TypeOK, Undispatched
  <2>. QED  BY <1>7, <2>1, <2>2 DEF WrittenStatuses
<1>10. ASSUME NEW w \in Workers, claimPrepared(w) PROVE Simulated
  <2>1. CASE status[item[w]] = "PREPARED"
    <3>1. PICK i \in Intents :
            /\ status[i] = "PREPARED"
            /\ status' = [status EXCEPT ![i] = "CLAIMED"]
            /\ UNCHANGED <<order, payCall, payFor>>
      BY <1>10, <2>1 DEF claimPrepared, provider, TypeOK, NoItemPcs
    <3>2. Reported(i)' = Reported(i)
      BY <3>1, ReportedIs DEF TypeOK, Undispatched
    <3>. QED  BY <1>7, <3>1, <3>2 DEF WrittenStatuses
  <2>2. CASE status[item[w]] # "PREPARED"
    BY <1>1, <1>10, <2>2 DEF claimPrepared, provider
  <2>. QED  BY <2>1, <2>2
<1>11. ASSUME NEW w \in Workers, GateDenies(w) PROVE Simulated
  <2>0. /\ item[w] \in Intents /\ status[item[w]] = "CLAIMED"
        /\ status' = [status EXCEPT ![item[w]] = "FAILED"]
        /\ UNCHANGED <<order, payCall, payFor>>
    BY <1>11 DEF GateDenies, transitionExecutionAttempt, Applies, canTransitionExecutionStatus,
      ALLOWED, provider, TypeOK, NoItemPcs, Ownership, ClaimOwned
  <2>1. PICK i \in Intents :
          /\ status[i] = "CLAIMED"
          /\ status' = [status EXCEPT ![i] = "FAILED"]
          /\ UNCHANGED <<order, payCall, payFor>>
    BY <2>0
  <2>2. Reported(i) = "NOTHING" /\ Reported(i)' = "FAILED"
    BY <2>1, ReportedIs DEF TypeOK, Undispatched, Failed
  <2>. QED  BY <1>7, <1>8, <2>1, <2>2 DEF WrittenStatuses, Purchase!Refuse
<1>12. ASSUME NEW w \in Workers, EnterDispatching(w) PROVE Simulated
  <2>0. /\ item[w] \in Intents /\ status[item[w]] = "CLAIMED"
        /\ status' = [status EXCEPT ![item[w]] = "DISPATCHING"]
        /\ UNCHANGED <<order, payCall, payFor>>
    BY <1>12 DEF EnterDispatching, transitionExecutionAttempt, Applies,
      canTransitionExecutionStatus, ALLOWED, provider, TypeOK, NoItemPcs, Ownership, ClaimOwned
  <2>1. PICK i \in Intents :
          /\ status[i] = "CLAIMED"
          /\ status' = [status EXCEPT ![i] = "DISPATCHING"]
          /\ UNCHANGED <<order, payCall, payFor>>
    BY <2>0
  <2>2. Reported(i) = "NOTHING" /\ Reported(i)' = "UNCERTAIN"
    BY <2>1, ReportedIs DEF TypeOK, Undispatched, mayHaveBeenSent
  <2>3. \A j \in Intents : status[j] \in Undispatched \cup Failed
    BY <2>1 DEF Payments, OneLive, BLOCKING_STATUSES, SUCCESS_STATUSES, TypeOK, WrittenStatuses,
      Undispatched, Failed
  <2>4. \A j \in Intents : Reported(j) \notin {"UNCERTAIN", "SUCCEEDED"}
    BY <2>3, ReportedIs
  <2>. QED  BY <1>7, <1>8, <2>1, <2>2, <2>4 DEF WrittenStatuses, Purchase!Begin
\* An uncertain row gets the outcome of a dispatcher or of a lookup.
<1>13. ASSUME NEW i \in Intents, NEW v \in Verdicts,
              status[i] \in {"DISPATCHING", "RECONCILIATION_REQUIRED"},
              status' = [status EXCEPT ![i] = OutcomeOf(v)],
              UNCHANGED <<order, payCall, payFor>>,
              v = "SUCCESS" => payCall[i] = "ACCEPTED"
       PROVE  Simulated
  <2>1. Reported(i) = "UNCERTAIN"
    BY <1>13, ReportedIs DEF mayHaveBeenSent
  <2>2. OutcomeOf(v) \in WrittenStatuses
    BY DEF OutcomeOf, WrittenStatuses
  <2>3. CASE v = "SUCCESS"
    <3>1. Reported(i)' = "SUCCEEDED"
      BY <1>13, <2>3, ReportedIs DEF OutcomeOf, TypeOK
    <3>2. Payment(i) # "NONE"
      BY <1>13, <2>3 DEF Payment, Standing
    <3>3. Purchase!Succeed(i)
      BY <1>8, <1>13, <2>1, <2>2, <3>1, <3>2 DEF Purchase!Succeed
    <3>. QED  BY <1>7, <1>13, <2>2, <3>3
  <2>4. CASE v = "FAILURE"
    <3>1. Reported(i)' = "FAILED" /\ status'[i] = "OBSERVED_FAILURE"
      BY <1>13, <2>4, ReportedIs DEF OutcomeOf, TypeOK, Failed
    <3>2. ~Standing(i)
      BY <1>13, <3>1 DEF Failures, FailedIsUnpaid, Failed, Closed, Dead, Unaccepted, Standing,
        References, PayOnlyCheckpointed, TypeOK
    <3>3. Payment(i) # "STANDING"
      BY <3>2 DEF Payment
    <3>4. Purchase!Fail(i)
      BY <1>8, <1>13, <2>1, <2>2, <3>1, <3>3 DEF Purchase!Fail
    <3>. QED  BY <1>7, <1>13, <2>2, <3>4
  <2>5. CASE v \notin {"SUCCESS", "FAILURE"}
    <3>1. Reported(i)' = "UNCERTAIN"
      BY <1>13, <2>5, ReportedIs DEF OutcomeOf, mayHaveBeenSent, TypeOK
    <3>. QED  BY <1>7, <1>13, <2>1, <2>2, <3>1
  <2>. QED  BY <2>3, <2>4, <2>5
<1>14. ASSUME NEW w \in Workers, Record(w) PROVE Simulated
  <2>1. CASE Applies(item[w], w, "DISPATCHING", OutcomeOf(verdict[w]))
    <3>1. /\ item[w] \in Intents /\ verdict[w] \in Verdicts
          /\ pc[w] = "record" /\ status[item[w]] = "DISPATCHING"
          /\ status' = [status EXCEPT ![item[w]] = OutcomeOf(verdict[w])]
          /\ UNCHANGED <<order, payCall, payFor>>
      BY <1>14, <2>1 DEF Record, Applies, provider, TypeOK, NoItemPcs
    <3>2. verdict[w] = "SUCCESS" => payCall[item[w]] = "ACCEPTED"
      BY <3>1 DEF Payments, SuccessIsPaid, mayHaveBeenSent
    <3>. QED  BY <1>13, <3>1, <3>2
  <2>2. CASE ~Applies(item[w], w, "DISPATCHING", OutcomeOf(verdict[w]))
    BY <1>1, <1>14, <2>2 DEF Record, provider
  <2>. QED  BY <2>1, <2>2
<1>15. ASSUME NEW w \in Workers, Settle(w) PROVE Simulated
  <2>1. CASE Applies(item[w], w, "RECONCILIATION_REQUIRED", OutcomeOf(verdict[w]))
    <3>1. /\ item[w] \in Intents /\ verdict[w] \in Verdicts
          /\ pc[w] = "settle" /\ status[item[w]] = "RECONCILIATION_REQUIRED"
          /\ status' = [status EXCEPT ![item[w]] = OutcomeOf(verdict[w])]
          /\ UNCHANGED <<order, payCall, payFor>>
      BY <1>15, <2>1 DEF Settle, Applies, provider, TypeOK, NoItemPcs
    <3>2. verdict[w] = "SUCCESS" => payCall[item[w]] = "ACCEPTED"
      BY <3>1 DEF Payments, SuccessIsPaid, mayHaveBeenSent
    <3>. QED  BY <1>13, <3>1, <3>2
  <2>2. CASE ~Applies(item[w], w, "RECONCILIATION_REQUIRED", OutcomeOf(verdict[w]))
    BY <1>1, <1>15, <2>2 DEF Settle, provider
  <2>. QED  BY <2>1, <2>2
<1>16. ASSUME NEW w \in Workers, claimForReconciliation(w) PROVE Simulated
  <2>1. PICK i \in todo[w] :
          IF Reconcilable(i) THEN status' = [status EXCEPT ![i] = "RECONCILIATION_REQUIRED"]
                             ELSE UNCHANGED status
    BY <1>16 DEF claimForReconciliation
  <2>2. i \in Intents /\ UNCHANGED <<order, payCall, payFor>>
    BY <1>16 DEF claimForReconciliation, provider, TypeOK
  <2>3. CASE Reconcilable(i)
    <3>1. Reported(i)' = Reported(i)
      BY <2>1, <2>2, <2>3, ReportedIs DEF Reconcilable, mayHaveBeenSent, TypeOK
    <3>. QED  BY <1>7, <2>1, <2>2, <2>3, <3>1 DEF WrittenStatuses
  <2>4. CASE ~Reconcilable(i)
    BY <1>1, <2>1, <2>2, <2>4
  <2>. QED  BY <2>3, <2>4
\* The provider moves the payments.
<1>17. ASSUME NEW i \in Intents, ProviderAcceptsPay(i) PROVE Simulated
  <2>1. /\ payCall[i] = "SENT" /\ payFor[i] \in Orders /\ ref[i] = payFor[i]
        /\ order[payFor[i]] = "HELD" /\ hold[payFor[i]] = "OPEN"
        /\ order' = [order EXCEPT ![payFor[i]] = "PAID"]
        /\ payCall' = [payCall EXCEPT ![i] = "ACCEPTED"]
        /\ UNCHANGED <<status, payFor>>
    BY <1>17 DEF ProviderAcceptsPay, rows, References, PayOnlyCheckpointed
  <2>2. status[i] \in mayHaveBeenSent
    BY <2>1, SMTT(40) DEF TypeOK, WrittenStatuses, mayHaveBeenSent, References, NothingPaidYet, Undispatched,
      SuccessOnlyIfTicketed, Failures, FailedIsUnpaid, Failed, Closed, Dead, Unaccepted
  <2>3. Reported(i) = "UNCERTAIN" /\ Payment(i) = "NONE"
    BY <2>1, <2>2, ReportedIs DEF Payment, Standing
  <2>4. Payment(i)' = "STANDING"
    BY <2>1 DEF Payment, Standing, TypeOK
  <2>5. \A j \in Intents \ {i} : Payment(j)' = Payment(j)
    BY <2>1 DEF Payment, Standing, TypeOK, Failures, AcceptedIsPaid
  <2>6. \A j \in Intents : Reported(j)' = Reported(j)
    BY <2>1 DEF Reported
  <2>7. Purchase!Charge(i)
    BY <2>3, <2>4, <2>5, <2>6, PaymentStep DEF Purchase!Charge
  <2>. QED  BY <2>7 DEF Purchase!PurchaseNext
<1>18. ASSUME NEW i \in Intents, ProviderAnswersPay(i) PROVE Simulated
  <2>1. \A j \in Intents : Payment(j)' = Payment(j)
    BY <1>18 DEF ProviderAnswersPay, Payment, Standing, TypeOK
  <2>2. \A j \in Intents : Reported(j)' = Reported(j)
    BY <1>18 DEF ProviderAnswersPay, Reported, rows
  <2>. QED  BY <2>1, <2>2, StutterStep
<1>19. ASSUME NEW o \in Orders, ProviderTickets(o) PROVE Simulated
  <2>1. \A j \in Intents : Payment(j)' = Payment(j)
    BY <1>19 DEF ProviderTickets, Payment, Standing, TypeOK
  <2>2. \A j \in Intents : Reported(j)' = Reported(j)
    BY <1>19 DEF ProviderTickets, Reported, rows
  <2>. QED  BY <2>1, <2>2, StutterStep
<1>20. ASSUME NEW o \in Orders, ProviderCancels(o) PROVE Simulated
  <2>1. /\ order' = [order EXCEPT ![o] = "CANCELLED"]
        /\ UNCHANGED <<status, payCall, payFor>>
    BY <1>20 DEF ProviderCancels, rows
  <2>2. \A j \in Intents : Reported(j)' = Reported(j)
    BY <2>1 DEF Reported
  <2>3. CASE \E i \in Intents : Standing(i) /\ payFor[i] = o
    <3>1. PICK i \in Intents : Standing(i) /\ payFor[i] = o
      BY <2>3
    <3>2. Payment(i) = "STANDING" /\ Payment(i)' = "RETURNED"
      BY <2>1, <3>1 DEF Payment, Standing, TypeOK
    <3>3. \A j \in Intents : Standing(j) => j = i
      BY <3>1, StandingIsLive DEF Payments, OneLive
    <3>4. \A j \in Intents \ {i} : Payment(j)' = Payment(j)
      BY <2>1, <3>3 DEF Payment, Standing, TypeOK
    <3>5. Purchase!Return(i)
      BY <2>2, <3>2, <3>4, PaymentStep DEF Purchase!Return
    <3>. QED  BY <3>5 DEF Purchase!PurchaseNext
  <2>4. CASE ~ \E i \in Intents : Standing(i) /\ payFor[i] = o
    <3>1. \A j \in Intents : Payment(j)' = Payment(j)
      BY <2>1, <2>4 DEF Payment, Standing, TypeOK
    <3>. QED  BY <2>2, <3>1, StutterStep
  <2>. QED  BY <2>3, <2>4
<1>21. ASSUME NEW i \in Intents, LeaseLapses(i) PROVE Stutter
  BY <1>1, <1>21 DEF LeaseLapses, provider
<1>22. ASSUME NEW o \in Orders, HoldLapses(o) PROVE Stutter
  BY <1>1, <1>22 DEF HoldLapses, rows
<1>23. CASE UNCHANGED vars
  BY <1>1, <1>23 DEF vars, rows, provider
<1>. QED
  BY <1>2, <1>4, <1>5, <1>9, <1>10, <1>11, <1>12, <1>14, <1>15, <1>16, <1>17, <1>18, <1>19,
     <1>20, <1>21, <1>22, <1>23
  DEF Next, Step, Pass, Dispatcher, Reconciliation, Fault, Provider

(* With time-outs as the only form of a lost answer, the cycle with its
   leases, fencing, crashes and reconciliation implements PurchaseOnce. *)
THEOREM CycleImplementsPurchaseOnce ==
  ASSUME LostAs \subseteq {"TIMEOUT"}
  PROVE  Spec => ImplementsPurchaseOnce
<1>1. Init => Purchase!PurchaseInit
  <2>1. Init => \A i \in Intents : Reported(i) = "NOTHING" /\ Payment(i) = "NONE"
    BY ReportedIs DEF Init, Undispatched, Payment, Standing
  <2>. QED  BY <2>1 DEF Purchase!PurchaseInit
<1>2. TypeOK /\ TypeOK' /\ Ownership /\ References /\ References' /\ Failures /\ Failures'
        /\ Payments /\ [Next]_vars
        => [Purchase!PurchaseNext]_(Purchase!purchaseVars)
  BY PurchaseStep
<1>. QED
  BY <1>1, <1>2, PaymentInvariant, PTL DEF Spec, ImplementsPurchaseOnce, Purchase!PurchaseSpec
=============================================================================
