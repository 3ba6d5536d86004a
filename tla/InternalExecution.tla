------------------------- MODULE InternalExecution -------------------------
(***************************************************************************)
(* The execution of approved schedule changes of one programme: plans are  *)
(* compiled against the head revision of the programme and approved intent *)
(* by intent, and passes of the service "execution", in any number of      *)
(* processes and without a lease, execute the intents.                     *)
(*                                                                         *)
(* An attempt is four transactions of its own (prepare, claim, schedule,   *)
(* observe), each one step.  The programme is the list of the changes that *)
(* advanced its head: a revision is a position in it.  Every intent is an  *)
(* internal one and every assessed subject reads the programme.            *)
(***************************************************************************)
EXTENDS Naturals, Sequences

CONSTANTS
  Passes,       \* concurrent passes
  Plans,
  Intents,
  Of,           \* the plan of an intent
  Needs,        \* action_dependencies: <<i, j>> when i needs j
  Operation,    \* logical_operation_key of an intent: the item and its new start
  MaxAttempts,  \* maxAttempts
  MaxTrouble,   \* bound on everything that is not the plans' own progress
  Foreign       \* a change of the programme by any other command

ASSUME PlansOfIntents == Of \in [Intents -> Plans]
ASSUME NeedsStayInPlan ==
  /\ Needs \subseteq Intents \X Intents
  /\ \A e \in Needs : Of[e[1]] = Of[e[2]]
ASSUME OperationsOfIntents == DOMAIN Operation = Intents
ASSUME Bounds == MaxAttempts \in Nat \ {0} /\ MaxTrouble \in Nat

Attempts == Intents \X Nat
ASSUME ForeignIsNoAttempt == Foreign \notin Attempts

VARIABLES
  changes,   \* change_records of the programme, attempts <<i, n>> and Foreign
  current,   \* whether the affected assessments are CURRENT
  base,      \* revision each plan was compiled against, 0 before that
  approved,  \* intents with a decision and an approval
  lapsed,    \* plans whose approval or grants are not in force now
  closed,    \* plans whose recovery case has ended
  row,       \* the statuses of the execution_attempts of each intent
  observed,  \* programmeRevision of the observation of each intent, 0 without
  pass,      \* what each pass is doing
  trouble

world == <<changes, current>>
plans == <<base, approved, lapsed, closed>>
vars == <<world, plans, row, observed, pass, trouble>>

InFlight == {"PREPARED", "DISPATCHED"}
Statuses == InFlight \cup {"OBSERVED_SUCCESS", "OBSERVED_FAILURE"}
\* BLOCKING_STATUSES; one_live_logical_op.
Live == InFlight \cup {"OBSERVED_SUCCESS"}

Idle == [at |-> "idle", todo |-> {}, intent |-> Foreign, n |-> 0, revision |-> 0]

Init ==
  /\ changes = <<Foreign>>
  /\ current = TRUE
  /\ base = [p \in Plans |-> 0]
  /\ approved = {}
  /\ lapsed = {}
  /\ closed = {}
  /\ row = [i \in Intents |-> <<>>]
  /\ observed = [i \in Intents |-> 0]
  /\ pass = [q \in Passes |-> Idle]
  /\ trouble = 0

Revision == Len(changes)
Prerequisites(i) == {j \in Intents : <<i, j>> \in Needs}
Some(i, status) == \E n \in DOMAIN row[i] : row[i][n] = status

Go(q, at) == pass' = [pass EXCEPT ![q].at = at]
\* On to the next candidate of the pass.
Resume(q) ==
  pass' = [pass EXCEPT ![q] =
    [Idle EXCEPT !.at = IF pass[q].todo = {} THEN "idle" ELSE "next", !.todo = pass[q].todo]]
Trouble == trouble < MaxTrouble /\ trouble' = trouble + 1

-----------------------------------------------------------------------------
(* Plans *)

\* The first approval of a strategy compiles its plan, unless something the
\* strategy read has moved.
Compile(p) ==
  /\ base[p] = 0
  /\ p \notin closed \cup lapsed
  /\ base' = [base EXCEPT ![p] = Revision]
  /\ UNCHANGED <<world, approved, lapsed, closed, row, observed, pass, trouble>>

\* Approval is a transaction for each intent.  The case and the grants are read
\* once, before the first, and may have changed since.
Approve(i) ==
  /\ base[Of[i]] > 0
  /\ i \notin approved
  /\ approved' = approved \cup {i}
  /\ UNCHANGED <<world, base, lapsed, closed, row, observed, pass, trouble>>

\* An approval is revoked, a grant ends or something else the plan read moves.
Lapse(p) ==
  /\ p \notin lapsed
  /\ Trouble
  /\ lapsed' = lapsed \cup {p}
  /\ UNCHANGED <<world, base, approved, closed, row, observed, pass>>

\* A grant is issued again.
Restore(p) ==
  /\ p \in lapsed
  /\ Trouble
  /\ lapsed' = lapsed \ {p}
  /\ UNCHANGED <<world, base, approved, closed, row, observed, pass>>

\* The recovery case of the plan is resolved, closed or superseded.
Close(p) ==
  /\ p \notin closed
  /\ Trouble
  /\ closed' = closed \cup {p}
  /\ UNCHANGED <<world, base, approved, lapsed, row, observed, pass>>

-----------------------------------------------------------------------------
(* The world *)

\* Any other command on the programme, and the triggers that invalidate the
\* assessments that read it.
Edit ==
  /\ Trouble
  /\ changes' = Append(changes, Foreign)
  /\ current' = FALSE
  /\ UNCHANGED <<plans, row, observed, pass>>

\* Something else that the assessments read moves.
Unsettle ==
  /\ current
  /\ Trouble
  /\ current' = FALSE
  /\ UNCHANGED <<changes, plans, row, observed, pass>>

\* The reassessment worker drains.
Reassess ==
  /\ ~current
  /\ current' = TRUE
  /\ UNCHANGED <<changes, plans, row, observed, pass, trouble>>

-----------------------------------------------------------------------------
(* The stored execution gate *)

Succeeded(i) == Some(i, "OBSERVED_SUCCESS")

\* observedProgrammeRevisionFromPrerequisites, MAX of these when there are any.
ObservedRevisions(i) == {observed[j] : j \in {k \in Prerequisites(i) : Succeeded(k)}} \ {0}

\* Mutant: only the base revision counts.
FreshBaseOnly(i) == Revision = base[Of[i]]

\* Nothing the strategy read has moved, or the programme has and its head is
\* what a prerequisite left.
FreshBase(i) ==
  \/ Revision = base[Of[i]]
  \/ /\ Revision \in ObservedRevisions(i)
     /\ \A r \in ObservedRevisions(i) : r <= Revision

\* evaluateStoredExecutionGate.
GateAllows(i) == FreshBase(i) /\ i \in approved /\ Of[i] \notin lapsed /\ current

\* Mutant: an attempt that was dispatched does not block another one.
OperationFreeOnceDispatched(i) ==
  \A j \in Intents : Operation[j] = Operation[i] =>
    \A n \in DOMAIN row[j] : row[j][n] \notin Live \ {"DISPATCHED"}

\* Mutant: any attempt on record blocks the operation, a failed one too.
OperationFreeUntried(i) ==
  \A j \in Intents : Operation[j] = Operation[i] => row[j] = <<>>

\* No attempt at the same operation is under way or has succeeded.
OperationFree(i) ==
  \A j \in Intents : Operation[j] = Operation[i] =>
    \A n \in DOMAIN row[j] : row[j][n] \notin Live

\* The dependencies of createPreparedExecutionAttempt: one failed attempt of a
\* prerequisite blocks, also when a later one succeeded.
DependenciesAllow(i) ==
  \A j \in Prerequisites(i) : Succeeded(j) /\ ~Some(j, "OBSERVED_FAILURE")

-----------------------------------------------------------------------------
(* The pass *)

\* loadCandidates: the pass keeps the number of the next attempt of each.
Candidates ==
  {i \in approved :
     /\ Of[i] \notin closed
     /\ \A n \in DOMAIN row[i] : row[i][n] \notin Live
     /\ \A j \in Prerequisites(i) : Succeeded(j)
     /\ Len(row[i]) < MaxAttempts}

Begin(q) ==
  /\ pass[q].at = "idle"
  /\ Candidates # {}
  /\ pass' = [pass EXCEPT ![q] =
       [Idle EXCEPT !.at = "next", !.todo = {<<i, Len(row[i]) + 1>> : i \in Candidates}]]
  /\ UNCHANGED <<world, plans, row, observed, trouble>>

\* loadStoredProgrammeSchedule, outside any transaction.
Load(q) ==
  /\ pass[q].at = "next"
  /\ \E a \in pass[q].todo :
       LET sources == IF ObservedRevisions(a[1]) # {} THEN ObservedRevisions(a[1])
                                                      ELSE {base[Of[a[1]]]}
       IN \E r \in sources :
            /\ \A s \in sources : s <= r
            /\ pass' = [pass EXCEPT ![q] =
                 [at |-> "prepare", todo |-> @.todo \ {a}, intent |-> a[1], n |-> a[2], revision |-> r]]
  /\ UNCHANGED <<world, plans, row, observed, trouble>>

Prepares(i, n) ==
  /\ OperationFree(i)
  /\ GateAllows(i)
  /\ DependenciesAllow(i)
  /\ n = Len(row[i]) + 1

Prepare(q) ==
  LET i == pass[q].intent IN
  /\ pass[q].at = "prepare"
  /\ Prepares(i, pass[q].n)
  /\ row' = [row EXCEPT ![i] = Append(@, "PREPARED")]
  /\ Go(q, "claim")
  /\ UNCHANGED <<world, plans, observed, trouble>>

\* Denied, deferred, or an operation that is done: no attempt is recorded.
Refuse(q) ==
  /\ pass[q].at = "prepare"
  /\ ~Prepares(pass[q].intent, pass[q].n)
  /\ Resume(q)
  /\ UNCHANGED <<world, plans, row, observed, trouble>>

\* transitionExecutionAttempt of the attempt of the pass.
Mark(q, from, to) ==
  /\ row[pass[q].intent][pass[q].n] = from
  /\ row' = [row EXCEPT ![pass[q].intent][pass[q].n] = to]

\* CLAIMED, DISPATCHING and DISPATCHED, in one transaction.
Claim(q) ==
  /\ pass[q].at = "claim"
  /\ Mark(q, "PREPARED", "DISPATCHED")
  /\ Go(q, "schedule")
  /\ UNCHANGED <<world, plans, observed, trouble>>

\* Mutant: the expected revision is not compared.
AnyRevision(q) == TRUE

ExpectedRevision(q) == pass[q].revision = Revision

\* updateProgrammeItemSchedule.
Schedule(q) ==
  /\ pass[q].at = "schedule"
  /\ ExpectedRevision(q)
  /\ changes' = Append(changes, <<pass[q].intent, pass[q].n>>)
  /\ current' = FALSE
  /\ pass' = [pass EXCEPT ![q].at = "observe", ![q].revision = Revision + 1]
  /\ UNCHANGED <<plans, row, observed, trouble>>

\* It is refused: the programme has moved, or the retries of the transaction
\* are exhausted.
ScheduleRefused(q) ==
  /\ pass[q].at = "schedule"
  /\ IF ExpectedRevision(q) THEN Trouble ELSE UNCHANGED trouble
  /\ Go(q, "fail")
  /\ UNCHANGED <<world, plans, row, observed>>

RecordFailure(q) ==
  /\ pass[q].at = "fail"
  /\ Mark(q, "DISPATCHED", "OBSERVED_FAILURE")
  /\ Resume(q)
  /\ UNCHANGED <<world, plans, observed, trouble>>

Observe(q) ==
  /\ pass[q].at = "observe"
  /\ Mark(q, "DISPATCHED", "OBSERVED_SUCCESS")
  /\ observed' = [observed EXCEPT ![pass[q].intent] = pass[q].revision]
  /\ Resume(q)
  /\ UNCHANGED <<world, plans, trouble>>

\* Mutant: an error of the schedule or the observation is recorded as a failure.
ThrowRecorded(q) ==
  /\ pass[q].at \in {"prepare", "claim", "schedule", "fail", "observe"}
  /\ Trouble
  /\ IF pass[q].at \in {"schedule", "observe"} THEN Go(q, "fail") ELSE Resume(q)
  /\ UNCHANGED <<world, plans, row, observed>>

\* A transaction of the attempt throws: the pass goes on with the next one and
\* leaves the attempt as it is.
Throw(q) ==
  /\ pass[q].at \in {"prepare", "claim", "schedule", "fail", "observe"}
  /\ Trouble
  /\ Resume(q)
  /\ UNCHANGED <<world, plans, row, observed>>

\* The process stops.
Stop(q) ==
  /\ pass[q].at # "idle"
  /\ Trouble
  /\ pass' = [pass EXCEPT ![q] = Idle]
  /\ UNCHANGED <<world, plans, row, observed>>

PassStep(q) ==
  \/ Load(q)
  \/ Prepare(q) \/ Refuse(q)
  \/ Claim(q)
  \/ Schedule(q) \/ ScheduleRefused(q)
  \/ RecordFailure(q)
  \/ Observe(q)

Next ==
  \/ \E p \in Plans : Compile(p) \/ Lapse(p) \/ Restore(p) \/ Close(p)
  \/ \E i \in Intents : Approve(i)
  \/ Edit \/ Unsettle \/ Reassess
  \/ \E q \in Passes : Begin(q) \/ PassStep(q) \/ Throw(q) \/ Stop(q)

Spec == Init /\ [][Next]_vars

\* A started pass goes on, the service begins another one, and the reassessment
\* worker settles the world.  Approvals and troubles may never come.
FairSpec ==
  /\ Spec
  /\ \A q \in Passes : WF_vars(Begin(q)) /\ WF_vars(PassStep(q))
  /\ WF_vars(Reassess)

-----------------------------------------------------------------------------
(* Properties *)

Stages == {"idle", "next", "prepare", "claim", "schedule", "fail", "observe"}

\* Types.  Attempts of an intent are numbered without gaps.
TypeOK ==
  /\ changes \in Seq(Attempts \cup {Foreign})
  /\ current \in BOOLEAN
  /\ base \in [Plans -> Nat]
  /\ approved \subseteq Intents /\ lapsed \subseteq Plans /\ closed \subseteq Plans
  /\ row \in [Intents -> Seq(Statuses)]
  /\ observed \in [Intents -> Nat]
  /\ pass \in [Passes -> [at : Stages, todo : SUBSET Attempts, intent : Intents \cup {Foreign},
                          n : Nat, revision : Nat]]
  /\ \A q \in Passes : pass[q].at \notin {"idle", "next"} => pass[q].intent \in Intents
  /\ trouble \in 0 .. MaxTrouble

Revisions == {r \in 1 .. Len(changes) : changes[r] # Foreign}
IntentAt(r) == changes[r][1]
StatusAt(r) == row[changes[r][1]][changes[r][2]]

\* The item is moved to the start an operation names at most once, whatever
\* pass, attempt or plan moves it and wherever a process stops.
OperationAppliedOnce ==
  \A r, s \in Revisions : Operation[IntentAt(r)] = Operation[IntentAt(s)] => r = s

\* What an attempt records is true of the programme: a failure changed nothing,
\* and the revision of an observation is the one its own change made.
RecordTellsTruth ==
  /\ \A r \in Revisions : StatusAt(r) \in {"DISPATCHED", "OBSERVED_SUCCESS"}
  /\ \A i \in Intents : Some(i, "OBSERVED_SUCCESS") =>
       /\ observed[i] \in Revisions
       /\ IntentAt(observed[i]) = i
       /\ StatusAt(observed[i]) = "OBSERVED_SUCCESS"

\* Between the base of a plan and each of its changes lie only its own: the
\* revision that explains a stale base was made by the plan's own chain.
ChainIsOwn ==
  \A r \in Revisions :
    LET p == Of[IntentAt(r)] IN
    /\ base[p] \in 1 .. r - 1
    /\ \A s \in base[p] + 1 .. r : s \in Revisions /\ Of[IntentAt(s)] = p

\* A change is made only after those it depends on are made and observed.
DependentsFollow ==
  \A r \in Revisions : \A j \in Prerequisites(IntentAt(r)) :
    observed[j] \in 1 .. r - 1

\* A pass works on attempt n of i.
WorkedOn(i, n) ==
  \E q \in Passes :
    <<pass[q].intent, pass[q].n>> = <<i, n>> /\ pass[q].at \notin {"idle", "next", "prepare"}

\* Some attempt of i is in flight and no pass works on it: nothing will.
Abandoned(i) == \E n \in DOMAIN row[i] : row[i][n] \in InFlight /\ ~WorkedOn(i, n)

\* Nothing stands in the way of p for good: its authority is in force, its case
\* open, the programme where its own changes left it, its operations not taken
\* by others, its attempts neither abandoned nor exhausted, and no intent that
\* others need has failed.
Clear(p) ==
  /\ p \notin lapsed \cup closed
  /\ \A r \in base[p] + 1 .. Revision : r \in Revisions /\ Of[IntentAt(r)] = p
  /\ \A i \in Intents : Of[i] = p =>
       /\ i \in approved
       /\ ~Abandoned(i)
       /\ Len(row[i]) < MaxAttempts \/ row[i][MaxAttempts] # "OBSERVED_FAILURE"
       /\ (\E e \in Needs : e[2] = i) => ~Some(i, "OBSERVED_FAILURE")
       /\ \A j \in Intents : Operation[j] = Operation[i] /\ j # i =>
            \A n \in DOMAIN row[j] : row[j][n] \notin Live

Complete(p) == \A i \in Intents : Of[i] = p => Succeeded(i)

\* Nothing but current assessments is missing for an attempt of i.
Executable(i) == i \in Candidates /\ OperationFree(i) /\ DependenciesAllow(i) /\ FreshBase(i)

(* No plan waits for itself: as long as nothing stands in its way for good and
   it is not complete, a pass is at work on it or the gate has nothing against
   one of its intents, wherever its own changes have left the programme. *)
NoPlanIsStuck ==
  \A p \in Plans : base[p] > 0 /\ Clear(p) =>
    \/ Complete(p)
    \/ \E i \in Intents : Of[i] = p /\ (Executable(i) \/ \E n \in DOMAIN row[i] : WorkedOn(i, n))

\* The stages of an attempt; "next" is behind the last one.
NextStage ==
  {<<"prepare", "claim">>, <<"claim", "schedule">>, <<"schedule", "observe">>,
   <<"schedule", "fail">>} \cup
  {<<at, "next">> : at \in {"prepare", "claim", "schedule", "fail", "observe"}}

\* A pass only goes forward: each step ends it, takes up one of its candidates,
\* which it had not tried, or enters the next stage of the attempt.
PassesOnlyAdvance ==
  [][\A q \in Passes : (PassStep(q) \/ Throw(q) \/ Stop(q)) =>
       \/ pass'[q].at = "idle"
       \/ pass'[q].todo \subseteq pass[q].todo /\ pass'[q].todo # pass[q].todo
       \/ pass'[q].todo = pass[q].todo /\ <<pass[q].at, pass'[q].at>> \in NextStage]_vars

\* An approved plan is carried out to the end unless something stands in its
\* way for good: each change invalidates the assessments that the gate of the
\* next one needs, and a deferred or safely failed attempt is made again.
ClearPlanCompletes ==
  \A p \in Plans : base[p] > 0 /\ Clear(p) ~> Complete(p) \/ ~Clear(p)
=============================================================================
