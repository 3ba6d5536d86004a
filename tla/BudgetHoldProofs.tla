------------------------- MODULE BudgetHoldProofs -------------------------
(***************************************************************************)
(* Theorems about holds: for any approvals at the same time, plans,        *)
(* budgets and costs, with any number of lost connections and stops.       *)
(***************************************************************************)
EXTENDS BudgetHold, TLAPS

-----------------------------------------------------------------------------
(* Types *)

\* A running call has an intent, outside "head" a budget, and attempts left
\* before it begins.
Busy(a) ==
  /\ call[a].at \in {"head", "begin"} => call[a].attempt < MaxAttempts
  /\ call[a].at # "idle" => call[a].todo # <<>>
  /\ call[a].at \notin {"idle", "head"} => Budget(a) \in Budgets

Typed == TypeOK /\ \A a \in Approvers : Busy(a)

LEMMA NoCallTyped == NoCall \in Calls
<1>1. <<>> \in Seq(Intents)
  OBVIOUS
<1>. QED  BY <1>1, BudgetAssumption DEF NoCall, Calls, Stages

LEMMA TypedInit == Init => Typed
<1>. SUFFICES ASSUME Init PROVE Typed
  OBVIOUS
<1>1. \A a \in Approvers : call[a] = NoCall
  BY DEF Init
<1>2. \A a \in Approvers : call[a].at = "idle"
  BY <1>1 DEF NoCall
<1>3. call \in [Approvers -> Calls]
  BY NoCallTyped DEF Init
<1>4. \A a \in Approvers, b \in Budgets : headLock[b] # a
  BY BudgetAssumption DEF Init
<1>5. TypeOK
  <2>1. revision \in [Budgets -> Nat \ {0}] /\ held \in [Budgets -> SUBSET Intents]
    BY DEF Init
  <2>2. approved \subseteq Intents /\ headLock \in [Budgets -> Approvers \cup {None}]
    BY DEF Init
  <2>3. trouble \in 0 .. MaxTrouble
    BY BudgetAssumption DEF Init
  <2>. QED  BY <1>2, <1>3, <1>4, <2>1, <2>2, <2>3 DEF TypeOK
<1>. QED  BY <1>2, <1>5 DEF Typed, Busy

\* What is left to show of a step of one approver.
LEMMA CallStep ==
  ASSUME Typed, NEW a \in Approvers, NEW c \in Calls,
         call' = [call EXCEPT ![a] = c],
         c.at # "idle" => c.todo # <<>>,
         c.at \notin {"idle", "head"} => c.budget \in Budgets,
         c.at \in {"head", "begin"} => c.attempt < MaxAttempts
  PROVE  /\ call' \in [Approvers -> Calls]
         /\ call'[a] = c
         /\ \A d \in Approvers : d # a => call'[d] = call[d]
         /\ \A d \in Approvers : Busy(d)'
<1>1. /\ call' \in [Approvers -> Calls]
      /\ call'[a] = c
      /\ \A d \in Approvers : d # a => call'[d] = call[d]
  BY DEF Typed, TypeOK
<1>2. ASSUME NEW d \in Approvers PROVE Busy(d)'
  <2>1. CASE d = a  BY <1>1, <2>1 DEF Busy, Budget, Budgets
  <2>2. CASE d # a  BY <1>1, <2>2 DEF Typed, Busy, Budget, Budgets
  <2>. QED  BY <2>1, <2>2
<1>. QED  BY <1>1, <1>2

\* A call outside its transaction holds no lock, inside it one.
LEMMA LocksKept ==
  ASSUME Typed, NEW a \in Approvers, UNCHANGED headLock,
         \A d \in Approvers : d # a => call'[d] = call[d],
         call[a].at # "locked", call'[a].at # "locked"
  PROVE  \A d \in Approvers, b \in Budgets :
           headLock'[b] = d <=> call'[d].at = "locked" /\ call'[d].budget = b
BY DEF Typed, TypeOK, Budget

LEMMA LocksFreed ==
  ASSUME Typed, NEW a \in Approvers, Unlock(a),
         \A d \in Approvers : d # a => call'[d] = call[d],
         call'[a].at # "locked"
  PROVE  /\ headLock' \in [Budgets -> Approvers \cup {None}]
         /\ \A d \in Approvers, b \in Budgets :
              headLock'[b] = d <=> call'[d].at = "locked" /\ call'[d].budget = b
<1>1. None \notin Approvers
  BY BudgetAssumption
<1>. QED  BY <1>1 DEF Typed, TypeOK, Budget, Unlock

\* The next candidate is tried with a fresh call.
LEMMA NextCandidate ==
  ASSUME Typed, NEW a \in Approvers, TryNext(a), call[a].at \notin {"idle", "head"}
  PROVE  /\ call' \in [Approvers -> Calls] /\ call'[a].at = "head"
         /\ \A d \in Approvers : d # a => call'[d] = call[d]
         /\ \A d \in Approvers : Busy(d)'
<1>. DEFINE c == Trying(call[a].todo, Budget(a) + 1)
<1>1. call[a] \in Calls /\ call[a].todo # <<>> /\ Budget(a) \in Nat
  BY DEF Typed, TypeOK, Busy, Calls, Budget
<1>2. c \in Calls /\ c.at = "head" /\ c.todo = call[a].todo /\ c.attempt = 0
  BY <1>1, BudgetAssumption DEF Trying, Calls, Stages
<1>3. call' = [call EXCEPT ![a] = c]
  BY DEF TryNext
<1>. HIDE DEF c
<1>4. c.attempt < MaxAttempts
  BY <1>2, BudgetAssumption
<1>5. c.at # "idle" => c.todo # <<>>
  BY <1>1, <1>2
<1>6. c.at \notin {"idle", "head"} => c.budget \in Budgets
  BY <1>2
<1>7. /\ call' \in [Approvers -> Calls] /\ call'[a] = c
      /\ \A d \in Approvers : d # a => call'[d] = call[d]
      /\ \A d \in Approvers : Busy(d)'
  BY <1>2, <1>3, <1>4, <1>5, <1>6, CallStep
<1>. QED  BY <1>2, <1>7

\* A call that ends leaves nothing behind.
LEMMA CallEnds ==
  ASSUME Typed, NEW a \in Approvers, call' = [call EXCEPT ![a] = NoCall]
  PROVE  /\ call' \in [Approvers -> Calls] /\ call'[a].at = "idle"
         /\ \A d \in Approvers : d # a => call'[d] = call[d]
         /\ \A d \in Approvers : Busy(d)'
<1>1. NoCall.at = "idle"
  BY DEF NoCall
<1>. QED  BY <1>1, NoCallTyped, CallStep

\* A step inside one candidate.
LEMMA CallGoesOn ==
  ASSUME Typed, NEW a \in Approvers, call[a].at # "idle", Budget(a) \in Budgets,
         NEW s \in Stages \ {"idle", "head"},
         s = "begin" => call[a].attempt < MaxAttempts,
         call' = [call EXCEPT ![a] = [@ EXCEPT !.at = s]]
  PROVE  /\ call' \in [Approvers -> Calls] /\ call'[a] = [call[a] EXCEPT !.at = s]
         /\ call'[a].at = s
         /\ \A d \in Approvers : d # a => call'[d] = call[d]
         /\ \A d \in Approvers : Busy(d)'
<1>. DEFINE c == [call[a] EXCEPT !.at = s]
<1>1. call[a] \in Calls /\ call[a].todo # <<>>
  BY DEF Typed, TypeOK, Busy
<1>2. /\ c \in Calls /\ c.at = s /\ c.todo = call[a].todo
      /\ c.budget = call[a].budget /\ c.attempt = call[a].attempt
  BY <1>1 DEF Calls
<1>3. call' = [call EXCEPT ![a] = c]
  BY DEF Typed, TypeOK
<1>. HIDE DEF c
<1>4. c.at \notin {"idle", "head"} => c.budget \in Budgets
  BY <1>2 DEF Budget
<1>5. c.at \in {"head", "begin"} => c.attempt < MaxAttempts
  BY <1>2
<1>6. /\ call' \in [Approvers -> Calls] /\ call'[a] = c
      /\ \A d \in Approvers : d # a => call'[d] = call[d]
      /\ \A d \in Approvers : Busy(d)'
  BY <1>1, <1>2, <1>3, <1>4, <1>5, CallStep
<1>. QED  BY <1>2, <1>6 DEF c

\* What the rows and locks have to be besides.
LEMMA TypedFrom ==
  ASSUME revision' \in [Budgets -> Nat \ {0}], held' \in [Budgets -> SUBSET Intents],
         approved' \subseteq Intents, trouble' \in 0 .. MaxTrouble,
         headLock' \in [Budgets -> Approvers \cup {None}],
         \A d \in Approvers, b \in Budgets :
           headLock'[b] = d <=> call'[d].at = "locked" /\ call'[d].budget = b,
         call' \in [Approvers -> Calls], \A d \in Approvers : Busy(d)'
  PROVE  Typed'
BY DEF Typed, TypeOK, Budget, Budgets

LEMMA TroubledTyped == Typed /\ Troubled => trouble' \in 0 .. MaxTrouble
BY BudgetAssumption DEF Typed, TypeOK, Troubled

LEMMA IntentTyped ==
  ASSUME Typed, NEW a \in Approvers, call[a].at # "idle"
  PROVE  Intent(a) \in Intents /\ Tail(call[a].todo) \in Seq(Intents)
<1>1. call[a].todo \in Seq(Intents) /\ call[a].todo # <<>>
  BY DEF Typed, TypeOK, Busy, Calls
<1>. QED  BY <1>1 DEF Intent

LEMMA TypedStep ==
  ASSUME Typed, NEW a \in Approvers, Step(a)
  PROVE  Typed'
<1>. USE DEF Typed, TypeOK
<1>. DEFINE Rows == /\ revision' \in [Budgets -> Nat \ {0}]
                    /\ held' \in [Budgets -> SUBSET Intents]
                    /\ approved' \subseteq Intents
                    /\ trouble' \in 0 .. MaxTrouble
<1>. DEFINE Locks == /\ headLock' \in [Budgets -> Approvers \cup {None}]
                     /\ \A d \in Approvers, b \in Budgets :
                          headLock'[b] = d <=> call'[d].at = "locked" /\ call'[d].budget = b
<1>. DEFINE Others == /\ call' \in [Approvers -> Calls]
                      /\ \A d \in Approvers : d # a => call'[d] = call[d]
                      /\ \A d \in Approvers : Busy(d)'
<1>0. call[a] \in Calls /\ Busy(a)
  OBVIOUS
<1>1. CASE StartApproval(a)
  <2>1. PICK plan \in Plans : call' = [call EXCEPT ![a] = Trying(plan, 1)]
    BY <1>1 DEF StartApproval
  <2>2. plan \in Seq(Intents) /\ plan # <<>>
    BY BudgetAssumption
  <2>3. /\ Trying(plan, 1) \in Calls /\ Trying(plan, 1).at = "head"
        /\ Trying(plan, 1).todo = plan /\ Trying(plan, 1).attempt < MaxAttempts
    BY <2>2, BudgetAssumption DEF Trying, Calls, Stages
  <2>4. Others /\ call'[a].at = "head"
    BY <2>1, <2>2, <2>3, CallStep
  <2>5. Rows /\ Locks
    BY <1>1, <2>4, LocksKept DEF StartApproval
  <2>. QED  BY <2>4, <2>5, TypedFrom
<1>2. CASE ReadHead(a)
  <2>. DEFINE c == [call[a] EXCEPT !.at = "begin", !.expected = revision[Budget(a)]]
  <2>1. revision[Budget(a)] \in Nat /\ Budget(a) \in Budgets /\ call[a].at = "head"
    BY <1>2 DEF ReadHead
  <2>2. /\ c \in Calls /\ c.at = "begin" /\ c.todo = call[a].todo
        /\ c.budget = Budget(a) /\ c.attempt = call[a].attempt
    BY <1>0, <2>1 DEF Calls, Stages, Budget
  <2>3. call' = [call EXCEPT ![a] = c]
    BY <1>2 DEF ReadHead
  <2>. HIDE DEF c
  <2>4. Others /\ call'[a].at = "begin"
    <3>1. c.todo # <<>> /\ c.budget \in Budgets /\ c.attempt < MaxAttempts
      BY <1>0, <2>1, <2>2 DEF Busy
    <3>. QED  BY <2>2, <2>3, <3>1, CallStep
  <2>5. Rows /\ Locks
    BY <1>2, <2>1, <2>4, LocksKept DEF ReadHead
  <2>. QED  BY <2>4, <2>5, TypedFrom
<1>3. CASE RefuseApproval(a)
  <2>1. Others /\ call'[a].at = "idle"
    BY <1>3, CallEnds DEF RefuseApproval
  <2>2. Rows /\ Locks
    BY <1>3, <2>1, LocksKept DEF RefuseApproval
  <2>. QED  BY <2>1, <2>2, TypedFrom
<1>4. CASE Begin(a)
  <2>. DEFINE c == [call[a] EXCEPT !.at = "keyed", !.attempt = call[a].attempt + 1,
                                   !.was = revision[Budget(a)], !.seen = held[Budget(a)]]
  <2>1. /\ call[a].at = "begin" /\ Budget(a) \in Budgets /\ call[a].attempt < MaxAttempts
        /\ revision[Budget(a)] \in Nat /\ held[Budget(a)] \in SUBSET Intents
    BY <1>0, <1>4 DEF Begin, Busy
  <2>2. call[a].attempt + 1 \in 0 .. MaxAttempts
    BY <1>0, <2>1, BudgetAssumption DEF Calls
  <2>3. /\ c \in Calls /\ c.at = "keyed" /\ c.todo = call[a].todo /\ c.budget = Budget(a)
    BY <1>0, <2>1, <2>2 DEF Calls, Stages, Budget
  <2>4. call' = [call EXCEPT ![a] = c]
    BY <1>4 DEF Begin
  <2>. HIDE DEF c
  <2>5. Others /\ call'[a].at = "keyed"
    <3>1. c.todo # <<>> /\ c.budget \in Budgets /\ c.at \notin {"head", "begin"}
      BY <1>0, <2>1, <2>3 DEF Busy
    <3>. QED  BY <2>3, <2>4, <3>1, CallStep
  <2>6. Rows /\ Locks
    BY <1>4, <2>1, <2>5, LocksKept DEF Begin
  <2>. QED  BY <2>5, <2>6, TypedFrom
<1>5. CASE Replay(a)
  <2>1. Budget(a) \in Budgets /\ call[a].at = "keyed"
    BY <1>0, <1>5 DEF Replay, Busy
  <2>2. Others /\ call'[a].at = "deciding"
    BY <1>5, <2>1, CallGoesOn DEF Replay, Stages
  <2>3. Rows /\ Locks
    BY <1>5, <2>1, <2>2, LocksKept DEF Replay
  <2>. QED  BY <2>2, <2>3, TypedFrom
<1>6. CASE LockHead(a)
  <2>1. Budget(a) \in Budgets /\ call[a].at = "keyed"
    BY <1>0, <1>6 DEF LockHead, Busy
  <2>2. /\ Others /\ call'[a].at = "locked"
        /\ call'[a] = [call[a] EXCEPT !.at = "locked"]
    BY <1>6, <2>1, CallGoesOn DEF LockHead, Stages
  <2>3. call'[a].budget = Budget(a)
    BY <1>0, <2>2 DEF Calls, Budget
  <2>4. Rows
    BY <1>6 DEF LockHead
  <2>5. Locks
    <3>1. headLock[Budget(a)] = None /\ headLock' = [headLock EXCEPT ![Budget(a)] = a]
      BY <1>6 DEF LockHead
    <3>2. None \notin Approvers
      BY BudgetAssumption
    <3>3. headLock' \in [Budgets -> Approvers \cup {None}]
      BY <3>1
    <3>4. \A b \in Budgets : headLock'[b] = a <=> b = Budget(a)
      BY <2>1, <3>1, <3>2 DEF Budget
    <3>5. \A d \in Approvers, b \in Budgets : d # a => (headLock'[b] = d <=> headLock[b] = d)
      BY <2>1, <3>1, <3>2
    <3>6. ASSUME NEW d \in Approvers, NEW b \in Budgets
          PROVE  headLock'[b] = d <=> call'[d].at = "locked" /\ call'[d].budget = b
      <4>1. CASE d = a
        BY <2>2, <2>3, <3>4, <4>1
      <4>2. CASE d # a
        <5>1. call'[d] = call[d]
          BY <2>2, <4>2
        <5>2. headLock[b] = d <=> call[d].at = "locked" /\ call[d].budget = b
          BY DEF Budget
        <5>. QED  BY <3>5, <4>2, <5>1, <5>2
      <4>. QED  BY <4>1, <4>2
    <3>. QED  BY <3>3, <3>6
  <2>. QED  BY <2>2, <2>4, <2>5, TypedFrom
<1>7. CASE SerializationFails(a)
  <2>1. Budget(a) \in Budgets /\ call[a].at = "keyed"
    BY <1>0, <1>7 DEF SerializationFails, Busy
  <2>2. Others /\ call'[a].at \in {"begin", "head"}
    <3>1. CASE call[a].attempt < MaxAttempts /\ call' = [call EXCEPT ![a] = [@ EXCEPT !.at = "begin"]]
      BY <2>1, <3>1, CallGoesOn DEF Stages
    <3>2. CASE TryNext(a)
      BY <2>1, <3>2, NextCandidate
    <3>. QED  BY <1>7, <3>1, <3>2 DEF SerializationFails
  <2>3. Rows
    BY <1>7, TroubledTyped DEF SerializationFails
  <2>4. Locks
    BY <1>7, <2>1, <2>2, LocksKept DEF SerializationFails
  <2>. QED  BY <2>2, <2>3, <2>4, TypedFrom
<1>8. CASE RefuseHold(a)
  <2>1. Others /\ call'[a].at = "head"
    BY <1>8, NextCandidate DEF RefuseHold
  <2>2. Rows
    BY <1>8 DEF RefuseHold
  <2>3. Locks
    BY <1>8, <2>1, LocksFreed DEF RefuseHold
  <2>. QED  BY <2>1, <2>2, <2>3, TypedFrom
<1>9. CASE CommitHold(a)
  <2>1. Budget(a) \in Budgets /\ call[a].at = "locked" /\ Intent(a) \in Intents
    BY <1>0, <1>9, IntentTyped DEF CommitHold, Busy
  <2>2. Others /\ call'[a].at \in {"deciding", "head"}
    <3>1. CASE call' = [call EXCEPT ![a] = [@ EXCEPT !.at = "deciding"]]
      BY <2>1, <3>1, CallGoesOn DEF Stages
    <3>2. CASE TryNext(a)
      BY <2>1, <3>2, NextCandidate
    <3>. QED  BY <1>9, <3>1, <3>2 DEF CommitHold
  <2>3. Rows
    <3>1. revision' \in [Budgets -> Nat \ {0}] /\ held' \in [Budgets -> SUBSET Intents]
      BY <1>9, <2>1 DEF CommitHold
    <3>2. approved' \subseteq Intents /\ trouble' \in 0 .. MaxTrouble
      BY <1>9, TroubledTyped DEF CommitHold
    <3>. QED  BY <3>1, <3>2
  <2>4. Locks
    BY <1>9, <2>2, LocksFreed DEF CommitHold
  <2>. QED  BY <2>2, <2>3, <2>4, TypedFrom
<1>10. CASE HoldFails(a)
  <2>1. Others /\ call'[a].at = "head"
    BY <1>10, NextCandidate DEF HoldFails
  <2>2. Rows
    BY <1>10, TroubledTyped DEF HoldFails
  <2>3. Locks
    BY <1>10, <2>1, LocksFreed DEF HoldFails
  <2>. QED  BY <2>1, <2>2, <2>3, TypedFrom
<1>11. CASE ApproveIntent(a)
  <2>. DEFINE rest == Tail(call[a].todo)
  <2>1. Intent(a) \in Intents /\ rest \in Seq(Intents)
    BY <1>11, IntentTyped DEF ApproveIntent
  <2>2. Others /\ call'[a].at \in {"idle", "head"}
    <3>1. CASE rest = <<>>
      <4>1. call' = [call EXCEPT ![a] = NoCall]
        BY <1>11, <3>1 DEF ApproveIntent
      <4>. QED  BY <4>1, CallEnds
    <3>2. CASE rest # <<>>
      <4>1. call' = [call EXCEPT ![a] = Trying(rest, 1)]
        BY <1>11, <3>2 DEF ApproveIntent
      <4>2. /\ Trying(rest, 1) \in Calls /\ Trying(rest, 1).at = "head"
            /\ Trying(rest, 1).todo = rest /\ Trying(rest, 1).attempt < MaxAttempts
        BY <2>1, BudgetAssumption DEF Trying, Calls, Stages
      <4>. HIDE DEF rest
      <4>. QED  BY <3>2, <4>1, <4>2, CallStep
    <3>. QED  BY <3>1, <3>2
  <2>3. Rows
    BY <1>11, <2>1 DEF ApproveIntent
  <2>4. Locks
    BY <1>11, <2>2, LocksKept DEF ApproveIntent
  <2>. QED  BY <2>2, <2>3, <2>4, TypedFrom
<1>12. CASE Abandon(a)
  <2>1. Others /\ call'[a].at = "idle"
    BY <1>12, CallEnds DEF Abandon
  <2>2. Rows
    BY <1>12, TroubledTyped DEF Abandon
  <2>3. Locks
    BY <1>12, <2>1, LocksFreed DEF Abandon
  <2>. QED  BY <2>1, <2>2, <2>3, TypedFrom
<1>. QED
  BY <1>1, <1>2, <1>3, <1>4, <1>5, <1>6, <1>7, <1>8, <1>9, <1>10, <1>11, <1>12 DEF Step

LEMMA TypedStutters == Typed /\ UNCHANGED vars => Typed'
BY DEF Typed, TypeOK, Busy, Budget, Budgets, vars

LEMMA TypedNext == Typed /\ [Next]_vars => Typed'
BY TypedStep, TypedStutters DEF Next

(* Rows, locks and calls have their types in every reachable state, and the
   head of a budget is locked by the call inside its transaction and no other. *)
THEOREM TypeCorrect == Spec => []TypeOK
<1>1. Typed => TypeOK
  BY DEF Typed
<1>. QED  BY <1>1, TypedInit, TypedNext, PTL DEF Spec

-----------------------------------------------------------------------------
(* Holds *)

\* A snapshot is past or present, and shows the commitments that are there as
\* long as the head has not moved; a locked head does not move.
SnapshotOK(a) ==
  call[a].at \in {"keyed", "locked"} =>
    /\ call[a].was <= revision[Budget(a)]
    /\ call[a].seen \subseteq held[Budget(a)]
    /\ Unmoved(a) => call[a].seen = held[Budget(a)]
    /\ call[a].at = "locked" => Unmoved(a)

\* An intent is decided only where it is held.
Funded(a) == call[a].at = "deciding" => Intent(a) \in held[Budget(a)]

Holding ==
  /\ HoldsFit
  /\ ApprovedIsFunded
  /\ \A a \in Approvers : SnapshotOK(a) /\ Funded(a)

LEMMA HoldingInit == Init => Holding
<1>. SUFFICES ASSUME Init PROVE Holding
  OBVIOUS
<1>1. \A a \in Approvers : call[a].at = "idle"
  BY DEF Init, NoCall
<1>2. \A b \in Budgets : held[b] = {}
  BY DEF Init
<1>. QED  BY <1>1, <1>2 DEF Init, Holding, HoldsFit, ApprovedIsFunded, SnapshotOK, Funded

\* Steps that change no hold: only the step's own call is left to show.
LEMMA HoldsUnchanged ==
  ASSUME Typed, Typed', Holding, NEW a \in Approvers, UNCHANGED <<revision, held>>,
         \A d \in Approvers : d # a => call'[d] = call[d],
         approved' \subseteq approved \cup UNION {held[b] : b \in Budgets},
         SnapshotOK(a)', Funded(a)'
  PROVE  Holding'
<1>1. HoldsFit'
  BY DEF Holding, HoldsFit, Budgets
<1>2. ApprovedIsFunded'
  BY DEF Holding, ApprovedIsFunded, Budgets
<1>3. \A d \in Approvers : SnapshotOK(d)' /\ Funded(d)'
  BY DEF Holding, SnapshotOK, Funded, Unmoved, Budget, Intent
<1>. QED  BY <1>1, <1>2, <1>3 DEF Holding

\* What a commit adds fits, since the list it was admitted from is complete.
LEMMA HoldingCommit ==
  ASSUME Typed, Typed', Holding, NEW a \in Approvers, CommitHold(a)
  PROVE  Holding'
<1>. DEFINE e == Budget(a)
            i == Intent(a)
<1>1. /\ e \in Budgets /\ call[a].at = "locked" /\ i \in Intents
      /\ revision \in [Budgets -> Nat \ {0}] /\ held \in [Budgets -> SUBSET Intents]
  BY IntentTyped DEF CommitHold, Typed, TypeOK, Busy
<1>2. /\ revision' = [revision EXCEPT ![e] = @ + 1]
      /\ held' = [held EXCEPT ![e] = @ \cup {i}]
      /\ approved' = approved
      /\ \A d \in Approvers : d # a => call'[d] = call[d]
  BY DEF CommitHold, TryNext, Typed, TypeOK
<1>3. call[a].seen = held[e]
  BY <1>1 DEF Holding, SnapshotOK
<1>4. CostOf(held'[e]) <= Limit[e]
  BY <1>1, <1>2, <1>3 DEF CommitHold, Admits
<1>5. HoldsFit'
  <2>1. ASSUME NEW b \in Budgets, held'[b] # {} PROVE CostOf(held'[b]) <= Limit[b]
    <3>1. CASE b = e  BY <1>4, <3>1
    <3>2. CASE b # e
      <4>1. held'[b] = held[b]
        BY <1>1, <1>2, <3>2
      <4>. QED  BY <2>1, <4>1 DEF Holding, HoldsFit
    <3>. QED  BY <3>1, <3>2
  <2>. QED  BY <2>1 DEF HoldsFit, Budgets
<1>6. \A b \in Budgets : held[b] \subseteq held'[b]
  BY <1>1, <1>2
<1>7. ApprovedIsFunded'
  BY <1>2, <1>6 DEF Holding, ApprovedIsFunded, Budgets
<1>8. ASSUME NEW d \in Approvers, d # a PROVE SnapshotOK(d)' /\ Funded(d)'
  <2>1. call'[d] = call[d] /\ Budget(d)' = Budget(d) /\ Intent(d)' = Intent(d)
    BY <1>2, <1>8 DEF Budget, Intent
  <2>2. Funded(d)'
    <3>. SUFFICES ASSUME call[d].at = "deciding" PROVE Intent(d) \in held'[Budget(d)]
      BY <2>1 DEF Funded
    <3>1. Budget(d) \in Budgets
      BY DEF Typed, Busy
    <3>. QED  BY <1>6, <3>1 DEF Holding, Funded
  <2>3. SnapshotOK(d)'
    <3>. SUFFICES ASSUME call[d].at \in {"keyed", "locked"} PROVE SnapshotOK(d)'
      BY <2>1 DEF SnapshotOK
    <3>1. /\ Budget(d) \in Budgets /\ call[d].was \in Nat /\ call[d].was <= revision[Budget(d)]
          /\ revision[Budget(d)] \in Nat
      BY DEF Typed, TypeOK, Busy, Calls, Holding, SnapshotOK
    <3>2. CASE Budget(d) = e
      <4>1. revision'[Budget(d)] = revision[Budget(d)] + 1
        BY <1>1, <1>2, <3>2
      <4>2. call[d].at # "locked"
        BY <1>1, <1>8, <3>2 DEF Typed, TypeOK
      <4>3. call[d].seen \subseteq held'[Budget(d)]
        BY <1>6, <3>1 DEF Holding, SnapshotOK
      <4>. QED  BY <2>1, <3>1, <4>1, <4>2, <4>3 DEF SnapshotOK, Unmoved
    <3>3. CASE Budget(d) # e
      <4>1. revision'[Budget(d)] = revision[Budget(d)] /\ held'[Budget(d)] = held[Budget(d)]
        BY <1>1, <1>2, <3>1, <3>3
      <4>. QED  BY <2>1, <4>1 DEF Holding, SnapshotOK, Unmoved
    <3>. QED  BY <3>2, <3>3
  <2>. QED  BY <2>2, <2>3
<1>9. SnapshotOK(a)' /\ Funded(a)'
  <2>1. CASE call' = [call EXCEPT ![a] = [@ EXCEPT !.at = "deciding"]]
    <3>1. call'[a].at = "deciding" /\ Budget(a)' = e /\ Intent(a)' = i
      BY <1>1, <2>1, CallGoesOn DEF Stages, Typed, TypeOK, Calls, Budget, Intent
    <3>2. i \in held'[e]
      BY <1>1, <1>2
    <3>. QED  BY <3>1, <3>2 DEF SnapshotOK, Funded
  <2>2. CASE TryNext(a)
    BY <1>1, <2>2, NextCandidate DEF SnapshotOK, Funded
  <2>. QED  BY <2>1, <2>2 DEF CommitHold
<1>. QED  BY <1>5, <1>7, <1>8, <1>9 DEF Holding

\* A call that goes to its next candidate, or ends, has nothing to show.
LEMMA NothingToShow ==
  ASSUME NEW a \in Approvers, call'[a].at \in {"idle", "head", "begin"}
  PROVE  SnapshotOK(a)' /\ Funded(a)'
BY DEF SnapshotOK, Funded

LEMMA HoldingStep ==
  ASSUME Typed, Holding, NEW a \in Approvers, Step(a)
  PROVE  Holding'
<1>0. Typed' /\ call[a] \in Calls /\ Busy(a)
  BY TypedStep DEF Typed, TypeOK
<1>1. CASE StartApproval(a) \/ ReadHead(a) \/ RefuseApproval(a) \/ Abandon(a)
  <2>1. call'[a].at \in {"idle", "head", "begin"}
    <3>1. CASE StartApproval(a)
      BY <3>1 DEF StartApproval, Trying, Typed, TypeOK
    <3>2. CASE ReadHead(a)
      BY <1>0, <3>2 DEF ReadHead, Typed, TypeOK, Calls
    <3>3. CASE RefuseApproval(a) \/ Abandon(a)
      BY <3>3 DEF RefuseApproval, Abandon, NoCall, Typed, TypeOK
    <3>. QED  BY <1>1, <3>1, <3>2, <3>3
  <2>2. \A d \in Approvers : d # a => call'[d] = call[d]
    BY <1>1 DEF StartApproval, ReadHead, RefuseApproval, Abandon, Typed, TypeOK
  <2>. QED
    BY <1>0, <1>1, <2>1, <2>2, NothingToShow, HoldsUnchanged
       DEF StartApproval, ReadHead, RefuseApproval, Abandon
<1>2. CASE RefuseHold(a) \/ HoldFails(a)
  <2>1. TryNext(a) /\ call[a].at \notin {"idle", "head"}
    BY <1>2 DEF RefuseHold, HoldFails
  <2>2. call'[a].at = "head" /\ \A d \in Approvers : d # a => call'[d] = call[d]
    BY <2>1, NextCandidate
  <2>. QED
    BY <1>0, <1>2, <2>2, NothingToShow, HoldsUnchanged DEF RefuseHold, HoldFails
<1>3. CASE SerializationFails(a)
  <2>1. call[a].at = "keyed" /\ Budget(a) \in Budgets
    BY <1>0, <1>3 DEF SerializationFails, Busy
  <2>2. call'[a].at \in {"begin", "head"} /\ \A d \in Approvers : d # a => call'[d] = call[d]
    <3>1. CASE call[a].attempt < MaxAttempts /\ call' = [call EXCEPT ![a] = [@ EXCEPT !.at = "begin"]]
      BY <2>1, <3>1, CallGoesOn DEF Stages
    <3>2. CASE TryNext(a)
      BY <2>1, <3>2, NextCandidate
    <3>. QED  BY <1>3, <3>1, <3>2 DEF SerializationFails
  <2>. QED
    BY <1>0, <1>3, <2>2, NothingToShow, HoldsUnchanged DEF SerializationFails
<1>4. CASE Begin(a)
  <2>1. /\ call'[a].at = "keyed" /\ call'[a].was = revision[Budget(a)]
        /\ call'[a].seen = held[Budget(a)] /\ call'[a].budget = call[a].budget
        /\ \A d \in Approvers : d # a => call'[d] = call[d]
    BY <1>0, <1>4 DEF Begin, Typed, TypeOK, Calls
  <2>2. Budget(a) \in Budgets /\ revision[Budget(a)] \in Nat
    BY <1>0, <1>4 DEF Begin, Busy, Typed, TypeOK
  <2>3. SnapshotOK(a)' /\ Funded(a)'
    BY <1>4, <2>1, <2>2 DEF Begin, SnapshotOK, Funded, Unmoved, Budget
  <2>. QED  BY <1>0, <1>4, <2>1, <2>3, HoldsUnchanged DEF Begin
<1>5. CASE Replay(a)
  <2>1. call[a].at = "keyed" /\ Budget(a) \in Budgets
    BY <1>0, <1>5 DEF Replay, Busy
  <2>2. /\ call'[a] = [call[a] EXCEPT !.at = "deciding"]
        /\ \A d \in Approvers : d # a => call'[d] = call[d]
    BY <1>5, <2>1, CallGoesOn DEF Replay, Stages
  <2>3. call'[a].at = "deciding" /\ Budget(a)' = Budget(a) /\ Intent(a)' = Intent(a)
    BY <1>0, <2>2 DEF Calls, Budget, Intent
  <2>4. Intent(a) \in held[Budget(a)]
    BY <1>5, <2>1 DEF Replay, Holding, SnapshotOK
  <2>5. SnapshotOK(a)' /\ Funded(a)'
    BY <1>5, <2>3, <2>4 DEF Replay, SnapshotOK, Funded
  <2>. QED  BY <1>0, <1>5, <2>2, <2>5, HoldsUnchanged DEF Replay
<1>6. CASE LockHead(a)
  <2>1. call[a].at = "keyed" /\ Budget(a) \in Budgets
    BY <1>0, <1>6 DEF LockHead, Busy
  <2>2. /\ call'[a] = [call[a] EXCEPT !.at = "locked"]
        /\ \A d \in Approvers : d # a => call'[d] = call[d]
    BY <1>6, <2>1, CallGoesOn DEF LockHead, Stages
  <2>3. /\ call'[a].at = "locked" /\ Budget(a)' = Budget(a)
        /\ call'[a].was = call[a].was /\ call'[a].seen = call[a].seen
    BY <1>0, <2>2 DEF Calls, Budget
  <2>4. SnapshotOK(a)' /\ Funded(a)'
    BY <1>6, <2>1, <2>3 DEF LockHead, Holding, SnapshotOK, Funded, Unmoved
  <2>. QED  BY <1>0, <1>6, <2>2, <2>4, HoldsUnchanged DEF LockHead
<1>7. CASE CommitHold(a)
  BY <1>0, <1>7, HoldingCommit
<1>8. CASE ApproveIntent(a)
  <2>1. Intent(a) \in held[Budget(a)] /\ Budget(a) \in Budgets
    BY <1>0, <1>8 DEF ApproveIntent, Holding, Funded, Busy
  <2>2. /\ call'[a].at \in {"idle", "head"}
        /\ \A d \in Approvers : d # a => call'[d] = call[d]
    BY <1>8 DEF ApproveIntent, NoCall, Trying, Typed, TypeOK
  <2>3. approved' \subseteq approved \cup UNION {held[b] : b \in Budgets}
    BY <1>8, <2>1 DEF ApproveIntent
  <2>. QED
    BY <1>0, <1>8, <2>2, <2>3, NothingToShow, HoldsUnchanged DEF ApproveIntent
<1>. QED
  BY <1>1, <1>2, <1>3, <1>4, <1>5, <1>6, <1>7, <1>8 DEF Step

LEMMA HoldingStutters == Holding /\ UNCHANGED vars => Holding'
BY DEF Holding, HoldsFit, ApprovedIsFunded, SnapshotOK, Funded, Unmoved,
       Budget, Intent, Budgets, vars

LEMMA HoldingNext == Typed /\ Holding /\ [Next]_vars => Holding'
BY HoldingStep, HoldingStutters DEF Next

LEMMA Invariant == Spec => [](Typed /\ Holding)
BY TypedInit, HoldingInit, TypedNext, HoldingNext, PTL DEF Spec

(* No budget is promised away beyond its amount, whatever approvals hold at the
   same time, each admitted from its own snapshot. *)
THEOREM HoldsNeverExceed == Spec => []HoldsFit
<1>1. Holding => HoldsFit
  BY DEF Holding
<1>. QED  BY <1>1, Invariant, PTL

(* An approved intent has its cost held, whatever refusals, retries and lost
   answers the way through the candidates had. *)
THEOREM ApprovalsAreFunded == Spec => []ApprovedIsFunded
<1>1. Holding => ApprovedIsFunded
  BY DEF Holding
<1>. QED  BY <1>1, Invariant, PTL

-----------------------------------------------------------------------------
(* The ledger *)

LEMMA LedgerInit == Init => Ledger!Init
BY DEF Init, Ledger!Init

\* A locked head is that of the snapshot, so what is admitted from the snapshot
\* is admitted from all that the budget holds.
LEMMA LedgerHold ==
  ASSUME Typed, Holding, NEW a \in Approvers, CommitHold(a)
  PROVE  \E i \in Intents, b \in Budgets : Ledger!Hold(i, b)
<1>1. Intent(a) \in Intents /\ Budget(a) \in Budgets
  BY IntentTyped DEF CommitHold, Typed, TypeOK, Busy
<1>2. call[a].seen = held[Budget(a)]
  BY DEF CommitHold, Holding, SnapshotOK
<1>3. Intent(a) \notin held[Budget(a)] /\ CostOf(held[Budget(a)] \cup {Intent(a)}) <= Limit[Budget(a)]
  BY <1>2 DEF CommitHold, Admits
<1>4. Ledger!Hold(Intent(a), Budget(a))
  BY <1>3 DEF CommitHold, Ledger!Hold
<1>. QED  BY <1>1, <1>4

LEMMA LedgerApprove ==
  ASSUME Typed, Holding, NEW a \in Approvers, ApproveIntent(a)
  PROVE  \E i \in Intents : Ledger!Approve(i)
<1>1. Intent(a) \in Intents /\ Budget(a) \in Budgets
  BY IntentTyped DEF ApproveIntent, Typed, TypeOK, Busy
<1>2. Intent(a) \in held[Budget(a)]
  BY DEF ApproveIntent, Holding, Funded
<1>3. Ledger!Approve(Intent(a))
  BY <1>1, <1>2 DEF ApproveIntent, Ledger!Approve
<1>. QED  BY <1>1, <1>3

LEMMA LedgerStep == Typed /\ Holding /\ [Next]_vars => [Ledger!Next]_Ledger!ledger
<1>. SUFFICES ASSUME Typed, Holding, [Next]_vars PROVE [Ledger!Next]_Ledger!ledger
  OBVIOUS
<1>1. ASSUME NEW a \in Approvers, CommitHold(a) PROVE Ledger!Next
  BY <1>1, LedgerHold DEF Ledger!Next
<1>2. ASSUME NEW a \in Approvers, ApproveIntent(a) PROVE Ledger!Next
  BY <1>2, LedgerApprove DEF Ledger!Next
<1>3. ASSUME NEW a \in Approvers, Step(a), ~CommitHold(a), ~ApproveIntent(a)
      PROVE  UNCHANGED <<held, approved>>
  BY <1>3 DEF Step, StartApproval, ReadHead, RefuseApproval, Begin, Replay, LockHead,
              SerializationFails, RefuseHold, HoldFails, Abandon
<1>4. CASE UNCHANGED vars
  BY <1>4 DEF vars, Ledger!ledger
<1>. QED  BY <1>1, <1>2, <1>3, <1>4 DEF Next, Ledger!ledger

(* Whatever approvals run at the same time and however their transactions
   conflict, retry, fail and lose their answers, what the rows record is a
   history of single holds, each within the budget as it was, and of approvals
   of what is held. *)
THEOREM HoldsAreALedger == Spec => ImplementsBudgetLedger
<1>1. Init => Ledger!Init
  BY LedgerInit
<1>2. [](Typed /\ Holding) /\ [][Next]_vars => [][Ledger!Next]_Ledger!ledger
  BY LedgerStep, PTL
<1>. QED  BY <1>1, <1>2, Invariant, PTL DEF Spec, ImplementsBudgetLedger, Ledger!Spec

-----------------------------------------------------------------------------
(* Approvals end *)

\* What a step of an approval does to the approval.
Advances(a) ==
  \/ call'[a].at = "idle"
  \/ call'[a].todo = Tail(call[a].todo)
  \/ /\ call'[a].todo = call[a].todo
     /\ \/ call'[a].budget = call[a].budget + 1 /\ call[a].budget \in Budgets
        \/ /\ call'[a].budget = call[a].budget
           /\ \/ call'[a].attempt = call[a].attempt + 1 /\ call'[a].attempt <= MaxAttempts
              \/ /\ call'[a].attempt = call[a].attempt
                 /\ <<call[a].at, call'[a].at>> \in NextStage

LEMMA NextBudget ==
  ASSUME Typed, NEW a \in Approvers, TryNext(a), call[a].at \notin {"idle", "head"}
  PROVE  Advances(a)
<1>1. Budget(a) \in Budgets
  BY DEF Typed, Busy
<1>2. call'[a].todo = call[a].todo /\ call'[a].budget = call[a].budget + 1
  BY DEF TryNext, Trying, Typed, TypeOK, Budget
<1>. QED  BY <1>1, <1>2 DEF Advances, Budget

LEMMA NextOfAttempt ==
  ASSUME Typed, NEW a \in Approvers, NEW at \in Stages,
         call' = [call EXCEPT ![a] = [@ EXCEPT !.at = at]], <<call[a].at, at>> \in NextStage
  PROVE  Advances(a)
<1>1. call'[a] = [call[a] EXCEPT !.at = at] /\ call[a] \in Calls
  BY DEF Typed, TypeOK
<1>2. /\ call'[a].at = at /\ call'[a].todo = call[a].todo
      /\ call'[a].budget = call[a].budget /\ call'[a].attempt = call[a].attempt
  BY <1>1 DEF Calls
<1>. QED  BY <1>2 DEF Advances

LEMMA ApprovalAdvances ==
  ASSUME Typed, NEW a \in Approvers, Step(a), call[a].at # "idle"
  PROVE  Advances(a)
<1>1. CASE RefuseApproval(a) \/ Abandon(a)
  BY <1>1 DEF RefuseApproval, Abandon, NoCall, Advances, Typed, TypeOK
<1>2. CASE RefuseHold(a) \/ HoldFails(a)
  BY <1>2, NextBudget DEF RefuseHold, HoldFails
<1>3. CASE ReadHead(a)
  <2>1. /\ call'[a].at = "begin" /\ call'[a].todo = call[a].todo /\ call[a].at = "head"
        /\ call'[a].budget = call[a].budget /\ call'[a].attempt = call[a].attempt
    BY <1>3 DEF ReadHead, Typed, TypeOK, Calls
  <2>2. <<"head", "begin">> \in NextStage
    BY DEF NextStage
  <2>. QED  BY <2>1, <2>2 DEF Advances
<1>4. CASE Begin(a)
  <2>1. /\ call'[a].todo = call[a].todo /\ call'[a].budget = call[a].budget
        /\ call'[a].attempt = call[a].attempt + 1
    BY <1>4 DEF Begin, Typed, TypeOK, Calls
  <2>2. call[a].attempt < MaxAttempts /\ call[a].attempt \in Nat /\ MaxAttempts \in Nat
    BY <1>4, BudgetAssumption DEF Begin, Typed, TypeOK, Busy, Calls
  <2>3. call'[a].attempt <= MaxAttempts
    BY <2>1, <2>2
  <2>. QED  BY <2>1, <2>3 DEF Advances
<1>5. CASE Replay(a)
  BY <1>5, NextOfAttempt DEF Replay, Stages, NextStage
<1>6. CASE LockHead(a)
  BY <1>6, NextOfAttempt DEF LockHead, Stages, NextStage
<1>7. CASE SerializationFails(a)
  BY <1>7, NextOfAttempt, NextBudget DEF SerializationFails, Stages, NextStage
<1>8. CASE CommitHold(a)
  BY <1>8, NextOfAttempt, NextBudget DEF CommitHold, Stages, NextStage
<1>9. CASE ApproveIntent(a)
  BY <1>9 DEF ApproveIntent, NoCall, Trying, Advances, Typed, TypeOK
<1>10. ~StartApproval(a)
  BY DEF StartApproval
<1>. QED
  BY <1>1, <1>2, <1>3, <1>4, <1>5, <1>6, <1>7, <1>8, <1>9, <1>10 DEF Step

(* However approvals conflict, each makes at most MaxAttempts attempts on each of
   the budgets for each of its intents: two approvals can not keep each other
   from ending. *)
THEOREM ApprovalsGoForward == Spec => ApprovalsOnlyAdvance
<1>1. Typed /\ [Next]_vars =>
        [\A a \in Approvers : Step(a) /\ call[a].at # "idle" => Advances(a)]_vars
  BY ApprovalAdvances
<1>2. Spec => [][\A a \in Approvers : Step(a) /\ call[a].at # "idle" => Advances(a)]_vars
  BY <1>1, Invariant, PTL DEF Spec
<1>. QED  BY <1>2 DEF ApprovalsOnlyAdvance, Advances
=============================================================================
