---------------------------- MODULE BudgetHold ----------------------------
(***************************************************************************)
(* Approvals that hold the stored cost of their intents against a budget   *)
(* of the organisation: the loop of approveRecoveryStrategy over the       *)
(* intents of a plan, holdBudget over the candidate budgets, and the       *)
(* command holdBudgetForIntent in a serializable transaction (UnitOfWork   *)
(* has the transaction itself; here it is one snapshot, one lock on the    *)
(* budget's head and a commit).                                            *)
(*                                                                         *)
(* A hold and its receipt are committed together under a key made of       *)
(* intent and budget, so "the receipt is there" is "the intent is held     *)
(* there".  Nothing in the program settles or releases a hold, and the     *)
(* amount of a budget does not change, so held only grows.  Intents        *)
(* without a cost take no hold and are left out.                           *)
(***************************************************************************)
EXTENDS Naturals, Sequences, FiniteSetsExt

CONSTANTS
  Approvers,    \* requests to approve a strategy, each server call one at a time
  Intents,      \* costed action intents
  Plans,        \* the stored plans: sequences of intents
  Cost,         \* stored cost of each intent, in one currency
  Limit,        \* amounts of the candidate budgets, in the order of creation
  MaxAttempts,  \* maxSerializationRetries
  MaxTrouble,   \* bound on lost connections, refused decisions and stops
  None

Budgets == DOMAIN Limit

ASSUME BudgetAssumption ==
  /\ Plans \subseteq Seq(Intents) \ {<<>>}
  /\ Cost \in [Intents -> Nat \ {0}] /\ Limit \in Seq(Nat)
  /\ MaxAttempts \in Nat \ {0} /\ MaxTrouble \in Nat
  /\ None \notin Approvers

VARIABLES
  revision,  \* aggregate head of each budget
  held,      \* intents with a HELD commitment on each budget
  headLock,  \* the transaction that has locked the head of each budget
  approved,  \* intents with a decision and an approval
  call,      \* what each approver is doing
  trouble

vars == <<revision, held, headLock, approved, call, trouble>>

Stages == {"idle", "head", "begin", "keyed", "locked", "deciding"}

\* at: stage; todo: intents not approved yet; budget: the candidate tried;
\* expected: its revision when read outside the transaction; attempt: of the
\* transaction; was, seen: revision and commitments in its snapshot.
Calls ==
  [at : Stages, todo : Seq(Intents), budget : Nat, expected : Nat,
   attempt : 0 .. MaxAttempts, was : Nat, seen : SUBSET Intents]

\* A plan of which todo is left, before the candidate b is tried.
Trying(todo, b) ==
  [at |-> "head", todo |-> todo, budget |-> b, expected |-> 0,
   attempt |-> 0, was |-> 0, seen |-> {}]

NoCall ==
  [at |-> "idle", todo |-> <<>>, budget |-> 1, expected |-> 0,
   attempt |-> 0, was |-> 0, seen |-> {}]

Init ==
  /\ revision = [b \in Budgets |-> 1]
  /\ held = [b \in Budgets |-> {}]
  /\ headLock = [b \in Budgets |-> None]
  /\ approved = {}
  /\ call = [a \in Approvers |-> NoCall]
  /\ trouble = 0

Intent(a) == Head(call[a].todo)
Budget(a) == call[a].budget

CostOf(S) == MapThenSumSet(LAMBDA i : Cost[i], S)

\* Mutant: the sum of the commitments is compared without the new one.
AdmitsUncounted(a) ==
  /\ Intent(a) \notin call[a].seen
  /\ CostOf(call[a].seen) <= Limit[Budget(a)]

\* admitBudgetHold on the commitments of the snapshot.
Admits(a) ==
  /\ Intent(a) \notin call[a].seen
  /\ CostOf(call[a].seen \cup {Intent(a)}) <= Limit[Budget(a)]

\* Mutant: the row is locked in whatever version it has.
AnyVersion(a) == TRUE

\* The head has not been replaced since the snapshot was taken.
Unmoved(a) == revision[Budget(a)] = call[a].was

Unlock(a) == headLock' = [b \in Budgets |-> IF headLock[b] = a THEN None ELSE headLock[b]]

\* Mutant: the last conflict is taken for a hold.
TryNextOrPass(a) ==
  call' = [call EXCEPT ![a] = [Trying(call[a].todo, Budget(a) + 1) EXCEPT
    !.at = IF Budget(a) + 1 \in Budgets THEN "head" ELSE "deciding"]]

\* Any conflict sends holdBudget to its next candidate.
TryNext(a) ==
  call' = [call EXCEPT ![a] = Trying(call[a].todo, Budget(a) + 1)]

Troubled == trouble < MaxTrouble /\ trouble' = trouble + 1

-----------------------------------------------------------------------------

StartApproval(a) ==
  /\ call[a].at = "idle"
  /\ \E plan \in Plans : call' = [call EXCEPT ![a] = Trying(plan, 1)]
  /\ UNCHANGED <<revision, held, headLock, approved, trouble>>

\* loadHead, outside any transaction.
ReadHead(a) ==
  /\ call[a].at = "head" /\ Budget(a) \in Budgets
  /\ call' = [call EXCEPT ![a] = [@ EXCEPT !.at = "begin", !.expected = revision[Budget(a)]]]
  /\ UNCHANGED <<revision, held, headLock, approved, trouble>>

\* BUDGET_HOLD_REQUIRED: no candidate is left, whatever turned each one down.
RefuseApproval(a) ==
  /\ call[a].at = "head" /\ Budget(a) \notin Budgets
  /\ call' = [call EXCEPT ![a] = NoCall]
  /\ UNCHANGED <<revision, held, headLock, approved, trouble>>

\* The first statement takes the snapshot of the attempt.  The wait for the
\* key's advisory lock comes after it, and ends like a wait for the head.
Begin(a) ==
  /\ call[a].at = "begin"
  /\ call' = [call EXCEPT ![a] = [@ EXCEPT !.at = "keyed", !.attempt = call[a].attempt + 1,
                                           !.was = revision[Budget(a)], !.seen = held[Budget(a)]]]
  /\ UNCHANGED <<revision, held, headLock, approved, trouble>>

Replay(a) ==
  /\ call[a].at = "keyed" /\ Intent(a) \in call[a].seen
  /\ call' = [call EXCEPT ![a] = [@ EXCEPT !.at = "deciding"]]
  /\ UNCHANGED <<revision, held, headLock, approved, trouble>>

LockHead(a) ==
  /\ call[a].at = "keyed" /\ Intent(a) \notin call[a].seen
  /\ headLock[Budget(a)] = None /\ Unmoved(a)
  /\ headLock' = [headLock EXCEPT ![Budget(a)] = a]
  /\ call' = [call EXCEPT ![a] = [@ EXCEPT !.at = "locked"]]
  /\ UNCHANGED <<revision, held, approved, trouble>>

\* 40001 on the head, or, as trouble, for any other reason PostgreSQL has: a
\* new attempt expects the revision read before the first one.
SerializationFails(a) ==
  /\ call[a].at = "keyed" /\ Intent(a) \notin call[a].seen
  /\ headLock[Budget(a)] = None
  /\ \/ ~Unmoved(a) /\ UNCHANGED trouble
     \/ Troubled
  /\ \/ call[a].attempt < MaxAttempts /\ call' = [call EXCEPT ![a] = [@ EXCEPT !.at = "begin"]]
     \/ call[a].attempt = MaxAttempts /\ TryNext(a)
  /\ UNCHANGED <<revision, held, headLock, approved>>

\* STALE_AGGREGATE_REVISION, INSUFFICIENT_BUDGET or DUPLICATE_COMMITMENT.
RefuseHold(a) ==
  /\ call[a].at = "locked"
  /\ call[a].was # call[a].expected \/ ~Admits(a)
  /\ TryNext(a)
  /\ Unlock(a)
  /\ UNCHANGED <<revision, held, approved, trouble>>

\* The hold, its receipt and the advanced head.  The commit is acknowledged,
\* or the connection is lost with the answer, which `submit` turns into a
\* conflict like any other error.
CommitHold(a) ==
  /\ call[a].at = "locked"
  /\ call[a].was = call[a].expected /\ Admits(a)
  /\ revision' = [revision EXCEPT ![Budget(a)] = @ + 1]
  /\ held' = [held EXCEPT ![Budget(a)] = @ \cup {Intent(a)}]
  /\ Unlock(a)
  /\ \/ call' = [call EXCEPT ![a] = [@ EXCEPT !.at = "deciding"]] /\ UNCHANGED trouble
     \/ TryNext(a) /\ Troubled
  /\ UNCHANGED approved

\* The command cannot get or keep its connection: rolled back, a conflict.
HoldFails(a) ==
  /\ call[a].at \in {"begin", "keyed", "locked"}
  /\ Troubled
  /\ TryNext(a)
  /\ Unlock(a)
  /\ UNCHANGED <<revision, held, approved>>

\* issueAuthorityDecision and recordApproval, both replayed on repetition.
ApproveIntent(a) ==
  /\ call[a].at = "deciding"
  /\ approved' = approved \cup {Intent(a)}
  /\ LET rest == Tail(call[a].todo)
     IN  call' = [call EXCEPT ![a] =
                    IF rest = <<>> THEN NoCall ELSE Trying(rest, 1)]
  /\ UNCHANGED <<revision, held, headLock, trouble>>

\* A refused decision or approval, an exception or the end of the process:
\* what is committed stays, the locks of an open transaction go.
Abandon(a) ==
  /\ call[a].at # "idle"
  /\ Troubled
  /\ call' = [call EXCEPT ![a] = NoCall]
  /\ Unlock(a)
  /\ UNCHANGED <<revision, held, approved>>

Step(a) ==
  \/ StartApproval(a) \/ ReadHead(a) \/ RefuseApproval(a)
  \/ Begin(a) \/ Replay(a) \/ LockHead(a) \/ SerializationFails(a)
  \/ RefuseHold(a) \/ CommitHold(a) \/ HoldFails(a)
  \/ ApproveIntent(a) \/ Abandon(a)

Next == \E a \in Approvers : Step(a)

Spec == Init /\ [][Next]_vars

-----------------------------------------------------------------------------

(* The rows and calls have their types, and the head of a budget is locked
   exactly by the call that is inside its transaction, whatever ended others. *)
TypeOK ==
  /\ revision \in [Budgets -> Nat \ {0}]
  /\ held \in [Budgets -> SUBSET Intents]
  /\ approved \subseteq Intents
  /\ call \in [Approvers -> Calls]
  /\ headLock \in [Budgets -> Approvers \cup {None}]
  /\ \A a \in Approvers, b \in Budgets :
       headLock[b] = a <=> call[a].at = "locked" /\ Budget(a) = b
  /\ trouble \in 0 .. MaxTrouble

(* Approvals that admit their holds at the same time, each from the list of
   commitments of its own snapshot, never promise more than a budget has. *)
HoldsFit == \A b \in Budgets : held[b] # {} => CostOf(held[b]) <= Limit[b]

(* The gate finds a hold for every costed intent that is approved: no refusal,
   retry or lost answer on the way through the candidates is taken for one. *)
ApprovedIsFunded == approved \subseteq UNION {held[b] : b \in Budgets}

\* The stages of an attempt; "begin" again is that of the next one.
NextStage ==
  {<<"head", "begin">>, <<"keyed", "begin">>, <<"keyed", "locked">>, <<"keyed", "deciding">>,
   <<"locked", "deciding">>}

(* An approval only goes forward: each step ends it, leaves an intent less,
   tries one more budget for it, makes one more attempt on the budget, or enters
   the next stage of the attempt.  Approvals that conflict with each other on
   every budget still end. *)
ApprovalsOnlyAdvance ==
  [][\A a \in Approvers : Step(a) /\ call[a].at # "idle" =>
       \/ call'[a].at = "idle"
       \/ call'[a].todo = Tail(call[a].todo)
       \/ /\ call'[a].todo = call[a].todo
          /\ \/ call'[a].budget = call[a].budget + 1 /\ call[a].budget \in Budgets
             \/ /\ call'[a].budget = call[a].budget
                /\ \/ call'[a].attempt = call[a].attempt + 1 /\ call'[a].attempt <= MaxAttempts
                   \/ /\ call'[a].attempt = call[a].attempt
                      /\ <<call[a].at, call'[a].at>> \in NextStage]_vars

Ledger == INSTANCE BudgetLedger

(* The transactions of all approvals do what BudgetLedger allows, one at a time:
   a hold admitted from a snapshot, behind a lock and after any retries, is one
   that all the commitments of that moment admit. *)
ImplementsBudgetLedger == Ledger!Spec

=============================================================================
