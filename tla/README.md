# Verification of the recovery engine

Northstar (`qoder-atlas`) is a travel recovery engine in TypeScript: a modular
monolith on PostgreSQL that observes disruptions of booked trips, opens recovery
cases, plans and approves a recovery, and executes it against providers that
take real money. This directory holds TLA+ models of the parts whose
correctness depends on interleavings, failures and order, their TLC
configurations, and proofs checked by TLAPS. Paths below are relative to the
source tree (`src/src/...` is application code, `src/docs/...` its documents).

Contents: [1 Inventory](#1-inventory) · [2 Modules](#2-modules) ·
[3 Runs](#3-runs-and-bounds) · [4 Fairness](#4-fairness) ·
[5 Proofs](#5-proofs) · [6 Disagreements](#6-where-code-and-documents-disagree) ·
[7 Limits](#7-what-is-not-modelled) · [8 Plan](#8-plan)

## 1 Inventory

All durable state is in PostgreSQL. Several server processes may run at the
same time; each has periodic services (`createPeriodicService`) that run a pass,
wait, and run it again, and HTTP handlers that submit domain commands.

| part | where | state it keeps | operations | what makes it correct |
|---|---|---|---|---|
| Unit of work | `persistence/postgres/pgUnitOfWork.ts`, `pgIdempotencyLedger.ts`, `pgAggregateHeadReader.ts` | `command_receipts`, `aggregate_heads`, `scope_generations`, `change_records` | `execute(envelope, fn)`: lock key, look up receipt, lock heads, compare revisions and generations, run the handler, insert receipt, commit, retry | a command is applied once per key, in one step, on the revisions it expected |
| Execution state machine | `resolution/execution/stateMachine.ts` | none (pure) | `canTransitionExecutionStatus` and predicates | outcomes are final, nothing returns to a dispatchable status |
| Execution worker | `persistence/postgres/execution/pgExecutionWorker.ts` | `execution_attempts`, `execution_observations` | `claimPrepared`, `dispatchClaimed`, `checkpointRequestRef`, `claimForReconciliation`, `reconcileUnknown` | fenced writes change nothing; an attempt is dispatched once |
| External offer execution | `app/target/externalOfferExecution.ts` | uses the worker's rows and the provider's orders | the pass: candidates, prepare, claim, gate, dispatch (create, checkpoint, pay, poll), record; then reconciliation | an offer is paid for once across re-plans; a reported failure is unpaid; payment can always be traced |
| Workspace operation lease | `app/target/workspaceOperationLease.ts` | a session advisory lock | acquire, release, loss of the session | one cycle per workspace while the session lives |
| Stored execution gate | `persistence/postgres/execution/storedExecutionGate.ts`, `commands/m8AuthorityCommands.ts` | reads approvals, grants, assessments, holds | allow, deny, defer | nothing is dispatched without authority that is current |
| Authority and approvals | `commands/m8AuthorityCommands.ts` (`recordApproval`, `revokeApproval`) | approvals, grants, fingerprints | record, revoke | an approval binds to the exact plan that was shown |
| Budget holds | `app/target/recoveryApproval.ts`, `holdBudgetForIntent`, `resolution/budget/protect.ts` | `budget_commitments`, heads of budgets | hold on the first budget that admits it | the holds on a budget never exceed it; an approved intent is held |
| Recovery case | `app/target/caseEscalation.ts`, `recoveryProgressionPass.ts`, `recoveryCaseResolution.ts`, `commands/caseLifecycleCommands.ts`, `caseAttentionCommands.ts`, `m9CaseResolutionCommands.ts` | `recovery_cases`, their links, phases and attention | escalate (open or extend), progress, set phase, ask a person, resolve | a blocking failure is covered by an open case; a case is resolved only on a recovered trip and then asks nobody |
| Planning | `recoveryPlanningCoordinator.ts`, `recoveryPlanning.ts`, `commands/r1PlanningAttemptCommands.ts`, `replanIdentity.ts` | planning attempts, strategies, plans | plan, re-plan | one attempt for each basis; phase and options agree; re-plans of one purchase share its operation key |
| Selected-plan continuation | `persistence/postgres/execution/selectedPlanContinuation.ts` | checkpoints, canonical applications | mint, load, expire | an action runs after its prerequisites succeeded and were applied, on a journey that only the plan itself has changed |
| External stay execution | `app/target/externalStayExecution.ts` | the worker's rows, observed records, journey items | the cycle: pass (prepare, claim, gate, checkpoint, book or cancel, read back), apply, reconcile, apply | nothing is asked for twice; the replacement is proven before the cancellation; a success is applied once; an unknown outcome settles |
| Internal execution | `app/target/executionPass.ts`, `persistence/postgres/execution/internalProgrammeExecutor.ts`, `storedExecutionGate.ts`, `recoveryApproval.ts` | attempts and observations, revisions of the programme | approve intent by intent; pass: load, prepare, claim, schedule, observe or fail, a transaction each | each operation is applied once, only on what the plan itself changed after its base, and after what it depends on |
| Reassessment and currentness | `persistence/postgres/world/pgAssessments.ts`, `resolution/world/currentness.ts`, triggers of migrations 0091 and 0124 | assessments, scheduled reassessments | schedule, claim, complete, fail, requeue | a stale assessment has work or a failure on record; a late result supersedes nothing newer |
| Inbox, outbox, claim queue | `persistence/postgres/inbox.ts`, `claimQueue.ts` | inbox rows, work items, claims | receive, claim, complete, fail | each delivery becomes work once; a late completion is fenced |
| Evaluation kernel, change signals | `resolution/`, `domain/`, `ingest/` | none | pure functions | agree with their definitions |
| Provider adapters, intelligence, UI, importer, legacy engine | `providers/`, `intelligence/`, `ui/`, `migration/`, `engine/` | none shared | request mapping, prompting, presentation | outside the models |

**How they interact.** Handlers and passes change canonical state only through
the unit of work. Escalation opens a case, planning proposes a plan, authority
and budget approve it and leave approved intents; the execution pass turns an
intent into an attempt row and, through the worker, into provider requests. An
unknown outcome returns to the same service as reconciliation. A successful
observation is applied to canonical state, which bumps scope generations and
thereby invalidates assessments. Processes share nothing but the database, two
kinds of advisory locks (per command key, per workspace) and the provider.

**What is hard.** A payment request whose answer is lost; a process that stops
between any two writes; a dispatcher whose lease lapsed and that is still
running; a lost lock session that lets two cycles run in one workspace; re-plans
that ask for the same purchase while the first is unknown; a snapshot taken
before a lock is granted; retries after a commit whose acknowledgement was lost;
commands that expect what another one is about to change; assessments that are
superseded while someone decides on them; passes that read, decide and write in
three transactions. `PROJECT.json`
(`hazards`) lists each one at its line with the property that covers it, or the
reason why none does yet.

## 2 Modules

| module | what it is |
|---|---|
| `ExecutionStatus` | statuses, transition relation and predicates of the execution state machine |
| `ExternalExecution` | the execution of one external offer by several processes, with worker, lease and provider |
| `PurchaseOnce` | abstract: the same purchase with no worker, lease or message |
| `ExternalExecutionProofs`, `PurchaseOnceProofs` | their theorems |
| `UnitOfWork` | `PgUnitOfWork.execute` on serializable transactions |
| `AtomicCommands` | abstract: commands applied in one step |
| `UnitOfWorkProofs` | its theorems; the order in which heads are locked excludes circular waits |
| `AssessmentFeed` | abstract: what the rest of the engine may rely on about the assessments of one subject |
| `Reassessment`, `ReassessmentProofs` | assessments, their currentness and the durable work that replaces them; theorems, the refinement of `AssessmentFeed` among them |
| `RecoveryCase`, `RecoveryCaseProofs` | the cases of one subject from the first failure to the resolution, on an `AssessmentFeed`; theorems |
| `InternalExecution`, `InternalExecutionProofs` | the execution of approved schedule changes of one programme; theorems |
| `StayPlan` | abstract: a plan of hotel stays carried out with no process, row, lease or message |
| `StayExecution`, `StayExecutionProofs` | one selected plan of hotel stays, from the pass through canonical application to the continuation checkpoint; theorems, the refinement of `StayPlan` among them |
| `BudgetLedger` | abstract: holds and approvals decided in one step |
| `BudgetHold`, `BudgetHoldProofs` | approvals that hold the cost of their intents against the budgets of the organisation; theorems, the refinement of `BudgetLedger` among them |
| `MCExternalExecution`, `MCUnitOfWork`, `MCReassessment`, `MCRecoveryCase`, `MCInternalExecution`, `MCStayExecution`, `MCBudgetHold` | small instances, symmetry |

Operators whose comment starts with "Mutant" are plausible wrong versions of the
definition that follows them. They are not part of any specification;
`PROJECT.json` (`mutants`) pairs each with a property that fails when it is used.

### ExternalExecution

`Intents` are the approved intents that share one logical operation key and
request fingerprint: the original and its re-plans. The pass makes at most one
attempt (number 1) for an intent, so a row of `execution_attempts` is indexed by
its intent.

| state | in the code |
|---|---|
| `status`, `ref`, `observed` | `execution_attempts.status`, `request_ref`, rows of `execution_observations` |
| `holder` | `claim_token` with `fencing_token`: the worker of the last claim. A worker has one row in hand and claims a row for dispatch at most once, so the holder's identity is what the compare-and-set tells apart |
| `leaseLive` | `lease_expires_at > now()` |
| `lock` | the workspace advisory lock and the session that owns it |
| `pc`, `todo`, `item`, `ord`, `verdict` | the point a process has reached in its cycle, the rest of its loop, its row, its order, and what dispatcher or lookup returned |
| `order`, `hold`, `payCall`, `payFor` | the provider: state and hold of each order, and the pay request of each attempt, which may be acted on after the process stopped waiting |

Each action is what happens between two database writes or provider requests.
`StartCycle` … `EnterDispatching` are the pass and `claimPrepared` /
`dispatchClaimed` up to `DISPATCHING`; `Create*`, `Duplicate*`,
`checkpointRequestRef`, `CheckpointFails`, `PayGate*`, `payOrder`, `Pay*` and
`Poll` are the Atlas dispatcher; `Record` is what `dispatchClaimed` does with the
result; `StartReconciliation` … `EndCycle` are `runExternalReconciliation`.
`Stop` is the end of a process, or an exception that leaves the cycle;
`LoseSession` takes the advisory lock from a cycle that goes on. `LeaseLapses`
and `HoldLapses` are time. The `Provider` actions are external: the provider
accepts a payment for an open hold, answers, tickets, or cancels.

Modelled as a free choice: which intents are candidates, what the stored gate
says, every answer of the provider that its state allows, and the category as
which a lost answer surfaces (`LostAs`). A lookup reads and judges an order in
one step. This is exact enough because the client gives up a request after 30 s
while `HOLD_EXPIRY_MARGIN_MS` is 60 s: an order that was read `HELD` cannot be
paid by the time the margin has passed. `HOLD` states are therefore `OPEN`,
`LAPSED` (expired) and `PAST_MARGIN` (expired a margin ago), and every order has
an expiry, as the adapter's answers have.

`PurchaseOnce` promises: an intent is reported nothing, uncertain, then
succeeded or failed; a request may go out only while no other intent is
uncertain or has succeeded; the provider takes money only for an uncertain
intent; failure is reported only when no payment stands. The refinement maps a
row's status to what it reports and the pay request and order to what happened
to the money.

### UnitOfWork

A key is `(workspace, command type, idempotency key)`; a row is an aggregate
head or a scope generation, its version the revision or generation.

| state | in the code |
|---|---|
| `version`, `receipts`, `changes` | `aggregate_heads.revision` / `scope_generations.generation`, `command_receipts`, `change_records` |
| `receipts[k].before` | a history value: the versions the command replaced |
| `keyLock`, `rowLock` | `pg_advisory_xact_lock`, `FOR UPDATE` and write locks |
| `envelope`, `attempt`, `pc`, `todo`, `want`, `moves` | the call of a client: its command, the loop counter of `maxSerializationRetries`, where it is, the rows it still has to lock and the next one, the rows its handler moves |
| `snapshot` | the transaction's snapshot |
| `answer` | what the caller is told: `OK` (new or replayed), `CONFLICT`, or `ERROR` (an exception) |

`execute` … `Commit` follow `PgUnitOfWork.execute` and `runBody` statement by
statement. `BeginSerializable` precedes `LockKey`: PostgreSQL takes the snapshot
of a serializable transaction with its first statement, and here that statement
is the one that waits for the advisory lock. `Grantable` and `Serializable` are what the
isolation level of `BEGIN ISOLATION LEVEL SERIALIZABLE` buys: a row
changed since the snapshot cannot be locked, and of two concurrent
commands at least one saw the other. `insertCommandReceipt` is the primary key. `SerializationFailure`,
`DeadlockDetected` and `Throw` end a transaction as 40001, 40P01 or any other
error do; `Commit` may lose its acknowledgement. What a handler decides, and
which rows it moves, is free: it refuses, or moves any set of heads and scopes,
each once, in any order.

`AtomicCommands` has one step, `Apply`, in which a command takes effect if its
key is unused and the heads it expects are at the expected revisions; anything
else is a replay of an applied payload or leaves no trace.

### Reassessment

An input is an aggregate head or a scope generation; a capture of a subject reads
one of `Closures`.

| state | in the code |
|---|---|
| `version`, `clock` | what `PgCurrentStateReader` would load, and the evaluation clock |
| `latest` | the assessment of a subject that nothing supersedes: its number, the versions it read, its earliest expiry |
| `row`, `unavailable` | the open row of `scheduled_reassessments` (`PENDING` or `CLAIMED`, attempts, cause, lease holder), and the cause of the newest `UNAVAILABLE` one |
| `due` | the assessments that statements of `enqueueDueReassessments` have selected and not yet inserted work for |
| `baseline` | a first assessment between its evaluation and `saveAssessment` |
| `claim` | the row a lane works on, and what its pipeline returned |

`Change` is any command that advances an input, with the triggers that enqueue
work or coalesce it into the open row. `claimRow`, `Evaluate`, `completeOnce`,
`requeueAfterCompleteFailure`, `fail` and `failExhausted` are the worker;
`Abandon` is a process that stops, or a completion that ends in an error that is
not retried: the row stays claimed until its lease ends; a lane whose row was
taken over is `Fenced`. `View` is
`currentAssessmentView`.

### AssessmentFeed

The interface between `Reassessment` and `RecoveryCase`. A pass asks
`currentAssessmentView` with the time at which it began, so an assessment is in one of
three states: settled for every pass (`CURRENT`), for those that began before it
expired (`STALE`), for none (`PENDING`). `Reassessment` maps each subject to it
(`IdOf`, `Settledness`, `Feed(s)`); `RecoveryCase` takes its world from it, and its
actions `Age` and `Assess` are the feed's. Two steps of the feed are easy to miss, and
a world without them is too kind:

- `Resurface`: work against the expired latest assessment failed for good, and a row
  for an older one, selected by `enqueueDueReassessments` before it was superseded, is
  inserted afterwards. It is newer, so it hides the failure, and being of a superseded
  assessment it is obsolete for a pass that began before the expiry.
- `Assess` while the present assessment is `CURRENT`: such a row of older work is
  claimed and carried out like any other.

### RecoveryCase

The cases of one subject. A case that escalation opens is named by the assessment
it was opened for (`escalationCaseId`), so both have one numbering.

| state | in the code |
|---|---|
| `latest`, `verdict`, `view` | the assessments, and whether the newest one is settled: the variables of `AssessmentFeed`, with the verdict that each was stored with |
| `phase`, `openedAt`, `linked` | `lifecycle_status`, the time in the payload hash of the opening, the receipts of `attachCaseSubjects` |
| `attempt` | `recovery_planning_attempts.outcome` of a case and basis |
| `work` | the action plan of the strategies of a basis, and how its execution stands |
| `attention`, `cleared` | `recovery_case_attention` of a case and basis, receipts of its supersession |
| `approving` | approvals between `compileActionPlan` and `persistActionPlan` |
| `pass` | the point a pass of the `caseLifecycle` service has reached, with what it read |

Every command is a serializable transaction and one step (`UnitOfWork` shows
why); every read outside of them is a step of its own. `DecideEscalation`,
`OpenCase`, `LinkCase` are `runCaseEscalation`; `ReadBasis`, `SupersedeAttention`,
`Decide`, `ResolveCase`, `OpenAttention` are `progressCase`; `CaptureBasis`,
`PrepareEnds`, `StartPlanning`, `CompletePlan` are `planCase`; `CompileApproval`,
`PersistPlan`, `AdvanceToExecuting` are the operator's approval; `StartWork` and
`EndWork` stand for `ExternalExecution`, and the world changes at any time.

What is abstracted: a pass carries the time at which it began, so an assessment
that expires while it runs still counts for it (`Settled`), while planning and
approval look at the clock again (`CurrentFail`). The reason of attention is a
function of case and basis. `TIGHT` is a failure that is not eligible for
planning. `NO_RECOVERY_FOUND` stands for every outcome without options. The
strategies of one attempt are approved together. Preparation that outlives its
basis is detected by comparing the basis.

### InternalExecution

One programme; an intent moves an item of it to a new start. The programme is the
list of the changes that advanced its head, so a revision is a position in it, and
two intents with the same `Operation` make the same move.

| state | in the code |
|---|---|
| `changes` | `change_records` of the programme: who made each revision, an attempt `<<i, n>>` or anything else (`Foreign`) |
| `current` | whether the assessments of the affected subjects are `CURRENT` |
| `base` | the programme's revision among the expected revisions of a compiled plan |
| `approved`, `lapsed`, `closed` | intents with decision and approval; plans whose authority is not in force, or whose other inputs moved; plans whose case has ended |
| `row`, `observed` | the statuses of the `execution_attempts` of an intent in their order, and `programmeRevision` of its observation |
| `pass` | where a pass is, the candidates it has left with their attempt numbers, and the revision it loaded for the one in hand |

`Compile` and `Approve` are `recoveryApproval.ts`; `Begin` and `Load` the reads of
`executionPass.ts` and of the executor outside any transaction; `Prepare`,
`Refuse`, `Claim`, `Schedule`, `ScheduleRefused`, `RecordFailure` and `Observe`
the four transactions of `executeInternalProgrammeAction`. `Throw` is an error that
the loop of the pass catches, `Stop` the end of a process. `GateAllows` is
`evaluateStoredExecutionGate` evaluated inside `Prepare`, with `FreshBase` the rule
by which a moved base is explained by the observation of a prerequisite.

What is abstracted: every assessed subject reads the programme, so each change of
it invalidates them all, and the reassessment worker (`Reassessment` in detail)
makes them current again in one step. A known success and a fingerprint mismatch
both record no attempt, so fingerprints are left out. The order of candidates is
free. `CLAIMED`, `DISPATCHING` and `DISPATCHED` are written in one transaction and
are one status here. `MaxTrouble` bounds everything that is not the progress of
the plans: foreign changes, lapses, ended cases, errors and stops.

### StayExecution

The stay actions of one selected plan, some of which book and some of which cancel
a displaced stay. The journey is the list of the changes made since the plan's base,
so a revision is a position in it; it stands for everything the base read.

| state | in the code |
|---|---|
| `status`, `holder`, `leaseLive`, `ref` | the row of `execution_attempts`, as in `ExternalExecution`; `ref` only tells whether `request_ref` is set |
| `request`, `asked`, `booking` | the provider: the request of an intent, how often it was sent, and the booking it made or is to cancel (`MISMATCH`: confirmed with other terms than the approved ones) |
| `journey`, `connection` | the journey's changes, the revision of the provider connection |
| `recorded` | `connectionRevision` in the receipt of `observeExternalRecord` |
| `checkpoint` | the journey revision in the intent's continuation checkpoint |
| `based` | a history value: the revision for which the gate let the action pass |
| `lock` | the workspace operation lease |
| `pc`, `todo`, `item`, `verdict`, `heads`, `again` | where a process's cycle is, what its loop has left, its row, what dispatcher or lookup returned, the heads it read before its commands, whether it is past reconciliation |

`StartCycle` to `EnterDispatching` are the pass and the worker, `QuoteRefused` to
`DispatcherThrows` the dispatcher, `Record` what the worker writes.
`StartApplying` to `mintContinuationCheckpoints` are `applyPendingCanonicalUpdates`,
which runs after the pass and again after reconciliation; each command is a
transaction of its own on heads that were read before. `StartReconciliation` to
`Settle` are `runExternalStayReconciliation`. `Prerequisites` is the closure of
`Needs`, `Mintable` the accounting of `deriveCanonicalRevisionAccounting`: every
change since the base is the application of a prerequisite.

What is abstracted: source and evidence are inserted under keys of their own and
are left out, and so is the revision of the reservation, which only cancellations
advance. A checkpoint is captured and stored in one step. Whether the rest of the
plan is still viable, and whether a candidate passes the ceiling and the input
checks, is free. Prerequisites that are programme changes are left out.
`MaxTrouble` bounds stops, lost sessions, foreign changes, refused commands and
cancellations by the hotel; leases lapse and checkpoints expire without bound.
The journey may still change between the gate and the request: `OnOwnChanges`
speaks of the moment of the gate.

`StayPlan` promises: an action is let pass when what it needs is proven and applied
and nothing else has changed the journey; it is asked for once, after that; a success
is reported of what the provider has shown, a failure of a booking only when none is
on its way or stands; the first report is the last; a proven action changes the
journey once. The refinement maps a row's status to what it reports (`Reported`) and
`based` to the intents that were let pass. What the plan does not promise is part of
it too: a cancellation may still be sent after it was reported (section 6).

### BudgetHold

Approvals of stored plans, each a sequence of costed intents. Budgets are numbered
in the order in which `budgetCandidatesFor` returns them.

| state | in the code |
|---|---|
| `revision`, `headLock` | `aggregate_heads.revision` of a budget, and the transaction that has locked it |
| `held` | the intents with a `HELD` row in `budget_commitments`, and the receipts under `approval:hold:<intent>:<budget>`, which are committed with them |
| `approved` | intents with a decision and an approval |
| `call` | an approval: the intents it has left, the candidate it tries, the revision it read before the transaction (`expected`), and the snapshot and number of the transaction's attempt |

`StartApproval`, `ReadHead`, `RefuseApproval` and `ApproveIntent` are
`approveRecoveryStrategy` and the loop of `holdBudget`; `Begin` to `CommitHold` are
`holdBudgetForIntent` in its transaction, with `Admits` for `admitBudgetHold`.
`UnitOfWork` has the transaction in detail; here a hold waits for its head only,
because whoever waits for its key waits behind the same head. The compare of
`advanceHead` is left out, since a locked head does not move. `HoldFails` and the second outcome of
`CommitHold` are errors, which `submit` turns into conflicts; `Abandon` is a decision
or approval that is refused, an exception, or the end of the process.

Holds only grow: settlement and release have no production caller, and the amount of
a budget does not change. Costs are exact numbers in one currency, because candidates
have the currency of the offer. `MaxTrouble` bounds errors and stops.

`BudgetLedger` promises: an intent is held on a budget once, when all that the budget
has promised at that moment leaves room for it, is approved only where it is held, and
neither is taken back. It does not promise one hold per intent (section 6).

## 3 Runs and bounds

| run | shows |
|---|---|
| `once` | two processes, an intent and its re-plan, two orders, lost answers that surface as time-outs: a paid order is the one on the row (`PayOnlyCheckpointed`), success only after a ticket, no touched attempt is dispatched again, a failed attempt is never charged, the offer is bought once, and the cycle implements `PurchaseOnce` |
| `live` | an abandoned dispatch is swept into reconciliation; an unknown outcome with an order is settled |
| `commands` | two payloads under one key, with retries, lost acknowledgements and an aggregate that does not exist yet: applied once, `AtomicCommands` is implemented, and every call ends |
| `heads` | two commands on two aggregates or two scopes: no lost update, locking heads alone never deadlocks, and commands that each rely on the generation the other advances do not both commit |
| `reassessment` | two lanes on the row of one subject, while its inputs and the clock move: a stale assessment has work or a failure on record (`StaleHasWork`), no older capture supersedes a newer one, an assessment that verifies is shown, what passes see of the subject is an `AssessmentFeed` (`ImplementsAssessmentFeed`), every pending row ends |
| `cases` | two passes, an operator and the world on the cases of one subject: a failure recorded as covered is covered (`CoveredFailIsOpen`), a resolved case asks nobody, phases agree with options and plans, approved options stand, and a case is resolved only on a passing assessment that holds (`ResolvesOnlyRecovered`) |
| `internal` | two passes on a plan of two dependent moves and a second plan that makes the second move too: each move is made once (`OperationAppliedOnce`), records are true of the programme, only a plan's own changes follow its base (`ChainIsOwn`), and an approved plan with nothing in its way is carried out to the end, although each of its changes invalidates the assessments that the gate of the next one needs; in every state on the way a pass is at work on it or the gate has nothing against one of its intents (`NoPlanIsStuck`) |
| `stays` | two processes book a replacement and cancel the displaced stay: nothing is asked twice, a reported failure stands nowhere, the cancellation waits for the proven and applied replacement (`ReplacementFirst`), each stay is applied once, the gate passes only on the plan's own changes (`OnOwnChanges`), a success reaches the journey unless it is overtaken, a readable outcome settles, and the cycles together implement `StayPlan` |
| `holds` | two approvals of two plans over two budgets that cannot take all they ask for: no budget is promised away beyond its amount (`HoldsFit`), what is approved is held (`ApprovedIsFunded`), and the transactions implement `BudgetLedger` |
| `paid_failure`, `stranded`, `unplanned` | counterexamples, see section 6 |

Deadlock is checked in the runs of external execution, of the unit of work, of
hotel stays and of budget holds.
The others allow the system to stop: their worlds are bounded (versions, clock,
assessments, attempts, troubles), and once nothing changes any more, there is
rightly nothing left to do.

**External execution.** Two intents are the original and a re-plan, the case in
which a purchase could be made twice. A run needs two orders for that, and each
attempt creates at most one. Two processes suffice for a stale dispatcher and
its successor. `MaxFaults = 1`: one crash, escaped exception or lost session; a
second process can only enter while a first one runs after one of these, and
the lapse of leases and holds, fenced writes, lost answers and provider
cancellations are not counted as faults and occur without bound. The theorems
hold for every bound. `live` has one intent and one order, since other intents
only wait.

**Unit of work.** Two clients, and the smallest set of keys, rows and payloads in
which the question of the run can go wrong: one key and two payloads for
idempotency; two keys with two heads for lock order and lost updates and with two
scopes for write skew. `heads` has one attempt, one version to expect, and a
constraint, `OneKind`, that follows only commands that read and move heads alone or
scopes alone; what mixes the two is in `commands` and in the proofs. `MaxAttempts` is 2 where retries matter (the code has 3) and 1
where they cannot; `MaxVersion` bounds the versions a caller may expect, not the
versions rows can reach. The theorems hold for every number of each.

**Reassessment.** One subject: no step relates two. Two inputs and captures that
read one or both, so that a capture may miss what moved; each input moves once,
the clock ticks once, a row is tried twice (the code has three). Two lanes are a
stale worker and its successor.

**Recovery cases.** Two passes, because every process runs the service and the
demo control runs it as well. Two assessments are the one that opened a case and
its successor, in every combination of verdicts; two cases follow. One tick tells
two openings of a case apart. One stop between any two steps of a pass.
`unplanned` has one pass, no stop and no tick: its counterexample needs neither
concurrency nor failure. The theorems hold for every number of passes,
assessments, ticks and stops.

**Internal execution.** Two passes, because the service runs in every process
without a lease. Two dependent intents are the shortest chain in which a base
moves and must be explained; the intent of the other plan makes the second move
again, and its changes are foreign to the first plan. `MaxAttempts` is 2 (the code
has 3), so that a failed attempt is made again. Two troubles are a foreign change
or a lapse and a stop at the worst moment. The theorems hold for every number of
passes, plans, intents, dependencies, attempts and troubles.

**Hotel stays.** A booking and the cancellation that needs it are the shortest plan
with a dependency, a moved base and a checkpoint. Two processes are a stale
dispatcher and its successor, or two appliers. One trouble is a crash, a lost
session, a foreign change, a refused command or a cancellation by the hotel, at any
point; with two of them the safety properties were checked as well (2.6 million
states), at a cost that does not suit a regular run. `LostAs` is time-outs only,
because the disagreement `paid_failure` holds of stays too. The theorems hold for
every number of processes, intents, dependencies and troubles.

**Budget holds.** Two approvals may be of the same strategy or of two. The plan with
two intents holds the first before it asks for the second. Costs and amounts are such
that no budget takes everything, and what is left depends on the order. Two attempts
of a transaction (the code has three), two troubles. The
theorems hold for every number of approvals, plans, budgets, attempts and troubles.

## 4 Fairness

`ExternalExecution!Fairness`. A periodic service runs its pass again and again,
whether or not the last one failed, and a pass that began goes on (weak fairness
of each process's `Step`; a crash is a `Stop` and a new cycle). Leases and holds
are clock times, so they lapse. Two assumptions are about the provider: a paid
order is ticketed or cancelled in the end, and of the reads of an order made
again and again for an intent some are answered (strong fairness, since a read
may fail any finite number of times). Nothing says that a payment request is
ever answered or accepted.

`UnitOfWork!FairSpec` asks strong fairness of each client's `Step`: lock queues
are served in order, and a running call goes on. Without it a client could be
overtaken at a lock for ever.

`Reassessment!FairSpec` is what `startReassessmentDrainLoop` does: due work is
selected and inserted (weak), a row that can be claimed again and again is
claimed, a pipeline ends and is completed now and then although a lane may be
abandoned any finite number of times (strong), and a lane that is fenced out
stops. `PendingEnds` relies on the strong part: nothing bounds the attempts of a
run that is abandoned each time (section 6).

`RecoveryCase!FairSpec` is the `caseLifecycle` service: it wakes for ever, each
wake handles every candidate in turn, and a pass goes on with what it has begun
(weak). A candidate that is seen again and again in a current state is handled
(strong), since views change between wakes. No fairness is asked of the operator,
of execution or of the world.

`InternalExecution!FairSpec`: the execution service wakes for ever and a pass that
began goes on (weak, for each pass), and the reassessment worker drains (weak; this
is what `PendingEnds` of `Reassessment` gives). Approvals and troubles may never
come.

`StayExecution!FairSpec`: the service runs its cycle for ever (weak, for each
process), and leases lapse (weak). Of the lookups that are tried for an intent at
every cycle one is answered in the end (strong, since a lookup may fail any finite
number of times). Nothing is asked of the provider's work on a request.

## 5 Proofs

`tlapm` checks every proof to its leaves. No theorem bounds the number of
intents, servers, orders, faults, clients, keys, rows or attempts. The
assumptions are the named `ASSUME`s of the modules (constants are disjoint,
bounds are numbers), which TLC evaluates in the runs.

**External execution.** `TypeOK` is inductive by itself (`TypeCorrect`). None of
the other invariants is: whether a row's reference is the paid order depends on
what a running dispatcher holds. The strengthening has four parts.

1. `Ownership`: a claim has one owner, a row one dispatcher for ever, and a row in
   reconciliation is not dispatching. It is what keeps a stale dispatcher and a
   reconciler apart, and needs neither lock nor lease: only the compare-and-set.
2. `References`: nothing is paid before the checkpoint, and from then on row and
   dispatcher name the same order. It contains `PayOnlyCheckpointed` and
   `SuccessOnlyIfTicketed` and gives `PaidOrderIsCheckpointed`,
   `SuccessIsTicketed`.
3. `Failures`: a failure is reported of an order that can no longer be paid, or
   of an attempt whose pay request was never sent, was declined, or found the
   order paid already and has no dispatcher left. It gives
   `FailureIsNeverCharged`.
4. `Payments`: at most one row blocks its operation, and every paid order was paid
   for by some intent. It gives `PaidAtMostOnce` and, with the others, the
   refinement `CycleImplementsPurchaseOnce`.

Parts 3 and 4, and the three theorems that rest on them, assume
`LostAs \subseteq {"TIMEOUT"}`. The assumption is not a convenience: without it
they are false of the code (`paid_failure`). `ObservedOnce` uses the
first two parts (a success is recorded by whoever owns the row), and
`NeverRedispatched` only typing and the state machine. `PurchaseOnceProofs` proves of the
abstract purchase what it is for: one standing payment, and no failure that is
paid for.

**Unit of work.** `TypeOK` first (`UnitOfWorkTypes`). `Locking` says what a held
lock is worth: a row locked by a caller is as its snapshot shows it (`LockSound`),
and what a caller has locked at each point (`Held`). On it rest the results: an
inserted receipt excludes others under its key and effects come with it
(`CommandsApplyOnce`), versions replaced by committed commands lie below the
present ones (`UpdatesAreKept`), revisions compared are still current at the
commit (`CommitsAreCurrent`), and of two commands one saw the other
(`SkewIsExcluded`). With the answers (`OkAnswersAreTrue`) they give the
refinement `UnitOfWorkRefines`.

`SkewIsExcluded` follows from `Serializable`, which states what the code asks of
PostgreSQL. What the theorem adds is that this condition, evaluated once at each
commit against snapshots taken before locks were granted, is enough for every
pair of commands, whichever commits first.

The last part of `UnitOfWorkProofs` adds what the order of `lockHeads` is for. A caller that locks
heads holds only heads below all that it still asks for (`Ascending`), and key
locks are held from the claim on (`KeyHeld`); so whoever is waited for asks for a
higher head than the one who waits, and a circle would have no highest one. The
theorem assumes an upper bound of the ids, which are 128 bits wide, and nothing of
the number of callers. `CallsGoForward` is the other half of why calls end: a step of a
call ends it, or lowers what it has left of attempts, stages and rows, in this order.

**Reassessment.** `TypeOK`, and with it: assessments, baselines and captures read
versions that are past or present (`ReadsArePast`), a lane that still holds its row
read later than `latest` did (`LaneReadLater`), an old failure hides no newer
assessment (`NothingHides`), a baseline is only ever the first
(`BaselineIsFirst`), and `StaleHasWork`, which is inductive on top of these. The
other properties follow.

The refinement (`FeedIsImplemented`, `FeedOfEachSubject`) says of each step and subject
that it is a step of the feed or leaves its assessment and its settledness alone. The step that could fail is a
view that comes back: an assessment that lost its currentness cannot read as current
again, because versions and clock only grow (`ReadsArePast`), and a current one cannot
have own work, because `NothingHides` makes own work a witness that the assessment does
not verify. That the numbers follow one another rests on `BaselineIsFirst`.

**Reassessment and recovery cases together.** `WorldIsFeed` says that everything else in
`RecoveryCase` leaves the feed alone. With `FeedOfEachSubject` the theorems about
cases, which hold for every behaviour of the feed, hold of cases over the worker, the triggers
and the clock that `Reassessment` models, without an induction over both at once. What the
composition leaves open is the clock: `RecoveryCase` has its own, that tells openings
apart, and the feed lets an assessment expire at any time.

**Recovery cases.** `TypeOK`; the basis of every running pass is an assessment
that exists (`PastOnly`); options have moved the phase that the completion saw
(`OptionsMovePhase`); and the four invariants of the run, each of which needs the
others' company: that an escalation never attaches to a resolved case rests on
the lock of the case row, that phases tell the truth on the compare of each
transition. `ResolvedWasRecovered` needs only typing: the gate is evaluated in
the transaction that closes the case. Nothing is assumed of the number of passes
or assessments.

**Internal execution.** `TypeOK`; `Rows`: at most one live attempt for an
operation, and an attempt whose change stands stays live and is observed only with
the revision of that change; `Chains`, which says `ChainIsOwn` of the changes and of
every observation; `OneOwner`: an attempt in flight is worked on by the pass that
prepared it alone; `PassOK`: what a pass has loaded is still true when it writes, or
the compare of the expected revision refuses the write. The last is where the gate and
the revision that was loaded before it meet: the gate vouches for the head, the
load for the revision, and only when both are the same does `Schedule` happen.

`NoPlanIsStuck` is what `ClearPlanCompletes` rests on in each state, and
`ChainNeverStuck` proves it. The argument takes the first change of the plan that has not
succeeded. What it needs has succeeded; the head of the programme is a change of the
plan, and an observed one, or a pass is at work on it. It is not a later change, because
changes are made in the order of the chain (`ChainInOrder`, from `DependentsFollow`), and
not an earlier one than the last before it, because that one has its revision after it.
So the head is what the direct prerequisite left, which is what `FreshBase` asks for.
The theorem assumes that the changes of a plan form a chain (`Chained`), and without
that it is false: the gate looks at direct prerequisites only, and the base of an intent
that depends on nothing is stale for ever once another intent of its plan has moved the
programme. `defaultDependencies` (`compiler.ts:365-385`) makes that chain of all changes
whose programme it can tell. With `PassesGoForward`, which says that a pass takes up
each candidate once and ends, what `ClearPlanCompletes` has beyond the proofs is that
passes are begun and go on, and that the world settles in between.

**Hotel stays.** `TypeOK`, in three parts. A block of lemmas then says how each group
of variables can change in a step at all (`StatusPaths`, `JourneyPaths` and their
like), so that an invariant is shown step by step only for the actions that touch
what it speaks of. The invariant: `OneDispatcher`, a row has one process in its
dispatch for ever, by the compare-and-set and not by lease or lock; `Requests`, a
request was sent once, by that process, from a row that can not return to
`PREPARED`; `Successes` and `RowsReady`, what a success or a prepared row rests on
stays true; `ToApply` and `AppliedOnce`, what an applier has in hand has succeeded,
and its command is refused or replayed once the stay is applied; `Bases`, a
checkpoint, and with it the gate, vouches for a prefix of the journey that only
grows. `FailuresAreTrue` needs `LostAs \subseteq {"TIMEOUT"}`, for the reason given
for flights, and so does the refinement `StaysImplementPlan`. That every step is a
step of `StayPlan` rests on all of the invariant, on the truth of failures
(`FailsTruly`), and on `Gated`: what has been asked, or may still be, has passed the
gate. Its cases are few, because a step moves one row, or the provider, or the gate,
or the journey (`StepKinds`).

**Budget holds.** `Typed`: `TypeOK`, and what a call has at hand at each stage.
`Holding`: the snapshot of a transaction is past or present and, while its head has
not moved, shows the commitments there are; a locked head has not moved
(`SnapshotOK`); an intent is decided only where it is held (`Funded`). So the list a
hold was admitted from is complete when it is committed, and the commit is a step of
`BudgetLedger` (`HoldsAreALedger`). `ApprovalsGoForward` needs only the types: an
approval makes a bounded number of attempts on each budget for each intent, so no two of
them keep each other from ending. That sums are right is the definition of `CostOf`,
about which nothing has to be proved.

**Only model-checked.** Liveness (`AbandonedDispatchIsSwept`,
`CheckpointedOutcomeSettles`, `CallsEnd`, `PendingEnds`, `ClearPlanCompletes`,
`SuccessIsApplied`, `FoundOutcomeSettles`): it needs fairness and
`ENABLED`, which the prover does not handle. What is proved towards it is that steps
only go forward, that a plan is never stuck and that locks form no circle. Every safety property of a passing
run is a theorem.

**Only proved.** Some properties are theorems and in no run, because another property
of the run would fail with them or the proof says all there is: `OneObservationPerSuccess`,
`OkMeansCommitted`, `CommitsOnExpectedRevisions`, `CurrentOnlyExpires`,
`DependentsFollow`, `SuccessIsObserved`, `CallsOnlyAdvance`, `ApprovalsOnlyAdvance`,
`PassesOnlyAdvance`, and the `TypeOK` of every module that has one.

## 6 Where code and documents disagree

Three runs end in a counterexample; the quotations are in `PROJECT.json`
(`findings`).

- `paid_failure`: an answer to the payment that is lost as anything but a
  time-out (connection reset, 5xx, unparsable body) is recorded as a failure
  although the provider may have been paid. The documents ask for
  `OUTCOME_UNKNOWN` after a lost response.
- `stranded`: an attempt left `CLAIMED` by a process that stopped before the
  dispatch is in neither the candidates nor the reconciliation list; the
  function that would reclaim it has no caller. It blocks every re-plan.
- `unplanned`: a case that executes an approved plan and fails again under a new
  assessment is planned for at every wake, at the cost of a search, and the
  completion is refused every time, because planning is completed only in the
  phases `PLANNING` and `AWAITING_AUTHORITY` and nothing leads back from
  `EXECUTING`. No attempt is stored and no person is asked.

Found while modelling and not given a run of their own:

- A dispatcher that is fenced out while it creates an order reports the order's
  reference, and the write that would keep it is fenced as well
  (`pgExecutionWorker.ts:312`): the order is not paid, and no row carries it,
  although the comment of step 2b says that the attempt does.
- The receipt lookup uses a snapshot older than the advisory lock, so a caller that
  waited behind the same key runs its handler again. Nothing is applied twice
  (`commands`): the serialization failure or the primary key stops the duplicate,
  later than the comments say.
- The change of an internal action and its observation are two transactions, although
  the header of the pass says one. After a stop or an error between them the
  programme has moved and the attempt stays `DISPATCHED`: it is no candidate, nothing
  reconciles internal attempts, and what depends on it waits for ever.
- After a stop between `attachObservedStay` and the minting of checkpoints nothing is
  minted any more, because a stay that is applied counts as done
  (`hasExactCanonicalApplication`): the next action of the plan stays `STALE_BASE`.
- The attachment expects the connection's revision from the receipt of
  `observeExternalRecord`, which a replay returns unchanged. Once anything else was
  observed over the connection in between, a paid booking never reaches the journey
  (`Overtaken`, which `SuccessIsApplied` excepts).
- Reconciliation reports a failure for a booking that is confirmed with other terms
  (`externalStayExecution.ts:414-420`), where the dispatcher leaves it unknown; and for a
  cancellation that reads any status but cancelled or confirmed, although
  `docs/work/M10_ACTIVE_TASK.md:294` asks that an unknown outcome stays unknown. A
  cancellation that reads confirmed stays unknown for ever.
- A lost answer of the hotel provider that is no time-out is a failure, as in
  `paid_failure`.
- A dispatcher whose lease lapsed before it sent a cancellation still sends it, after
  another process has looked the stay up and settled the attempt: as a failure, for
  any status but cancelled or confirmed, or as a success, when the hotel had cancelled
  by itself. A cancellation that was reported as failed may then take effect
  (`Ask` in `StayPlan`). For bookings the proof excludes it: a lookup settles a
  booking only if there is one.
- Of two stays of a plan that do not depend on each other, the second gets no
  checkpoint once the first is applied, and is refused as `STALE_BASE`.
- `openRecoveryCase` hashes `openedAt`, the time of the pass. After a stop between
  the opening and the link, later passes present the same key with another hash and
  are refused; the failure is not linked (`caseEscalation.ts:143`, against its
  comment at line 31). `OpenCase` contains it.
- Two passes that decide on different assessments at the same time may open two
  cases for one subject, of which `policy.ts:16-19` speaks as one.
- An external action that failed for good keeps the resolution gate at
  `ACTION_INTENT_NOT_COMPLETE`, which progression takes for work in flight
  (`progressionFacts.ts:35-39`): the case waits.
- `persistActionPlan` does not read the case, so an approval that races the
  resolution may leave a plan on a resolved case; `advanceCasePhase` then stops at
  the terminal phase.
- The receipt of `attention-supersede` is keyed by case and basis: attention of an
  older basis that is opened afterwards is not cleared again for that basis.
- The gate is read after the basis and may see a newer view; a passing basis whose
  view has become pending in between is put to a person.
- Offer and stay bindings are stored after the completion command
  (`recoveryPlanningCoordinator.ts:575-595`): after a stop in between, strategies
  exist without a binding and the attempt is never redone.
- The execution gate does not read the case: a pass that loaded its candidates before
  the case was resolved executes them afterwards. An error in the middle of an
  approval leaves the intents approved so far, which are executed.
- A move that another plan has made already is a known success: the intent gets no
  attempt, stays a candidate at every wake, and what depends on it never runs. The
  same holds of dependents of an intent whose first attempt failed, although a
  later one succeeded (`bool_or`).
- The key of a hold and the check for a duplicate are per budget, and any conflict, a
  stale revision or a lost acknowledgement included, sends the approval to the next
  budget. The same approval, repeated, then holds the same cost on the first budget as
  well, and nothing releases either. `recoveryApproval.ts:271` and
  `docs/refactor/evidence/M8.md:54` promise one hold, on the first budget that admits
  it. `ApprovedIsFunded` therefore asks for at least one.
- For the same reason an approval is refused (`BUDGET_HOLD_REQUIRED`) when another hold
  moved its only budget between the read of the revision and the lock, although the
  budget has room.
- An intent's hold explains to the gate only a move of the budget it is held on
  (`storedExecutionGate.ts:602-620`). When the plan's base read several budgets and
  another intent's hold moved one of the others, the approved intent is refused as
  `STALE_BASE` from then on.
- An expired assessment whose reassessment failed for good reads as settled to a pass
  that began before the expiry, once a row for an older assessment is inserted late
  (`Resurface`): `currentAssessmentView` looks at the newest row only
  (`pgAssessments.ts:207`).
- `saveAssessment` stores a baseline without comparing its inputs again
  (`pgAssessments.ts:117`), which `StaleHasWork` therefore leaves out; and
  `attempts` is compared only in `fail`, so runs that are abandoned or requeued are
  claimed without bound.

## 7 What is not modelled

In the parts that are modelled: the application of a successful observation to
canonical state, the filters of the candidate query and the gate's own rules
(free choices), prerequisites of external intents, `claimNext` (it has no production
caller), wording, recording and replay of provider traffic; of the unit of work,
what handlers read and write beyond heads and scopes, collisions of 64-bit lock
keys, exhaustion of the connection pool, and serialization failures as anything
more precise than "may happen in any statement"; of reassessment, the recomputation
of migrated state and the provenance of change signals; of recovery cases, cases
with several subjects, cases opened by change requests or demo scripts, the frozen
original graph, authority within an approval, and the search itself; of
internal execution, plans over several programmes and the scopes of grants; of hotel
stays, programme changes among the prerequisites, the evaluation of the residual
plan, and the records and evidence an application inserts.

Inbox and claim queue are called by tests only; a model would say nothing of the
running program. Not modelled by intent: provider request mapping, language model
clients, user interface, legacy engine, importer and acceptance harness (no shared
state of their own, superseded, or presentation). Most of the repository by size is
of these kinds, with the evaluation kernel (pure rules over captured data) and
thousands of lines of mapping between rows, read models and views.

## 8 Plan

1. *done* `ExternalExecution`, `PurchaseOnce` and their proofs.
2. *done* `UnitOfWork`, `AtomicCommands` and their proofs, with the lock order.
3. *done* `Reassessment` and its proofs.
4. *done* `RecoveryCase` and its proofs; left: several subjects per case.
5. *done* `InternalExecution` and its proofs: dependencies, stored gate and pass, and
   that a chain never waits for itself.
6. *done* `StayExecution`, `StayPlan` and their proofs: booking, cancellation, canonical
   application, continuation checkpoints, reconciliation, and the refinement.
7. *done* `BudgetHold`, `BudgetLedger` and their proofs; left: settlement and release, once they have a
   caller.
8. `AuthorityGate`: approvals, revocation, grants that expire, currentness; composed
   with `ExternalExecution` in place of the gate's free choice. What matters there: no
   dispatch without an approval in force at the gate.
9. *done* The composition of `Reassessment` with `RecoveryCase` through
   `AssessmentFeed`, in place of a free choice of views.
