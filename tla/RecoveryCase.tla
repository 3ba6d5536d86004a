---------------------------- MODULE RecoveryCase ----------------------------
(***************************************************************************)
(* The recovery cases of one subject, from its first blocking FAIL to the  *)
(* resolution: caseEscalation opens and links cases, recoveryProgression   *)
(* decides what each case needs, the planning coordinator plans, an        *)
(* operator approves, execution reports, resolveRecoveryCase closes.       *)
(*                                                                         *)
(* Commands are serializable transactions and one step each; everything a  *)
(* pass reads outside of them is read in one step and used in later ones,  *)
(* while the other passes, the operator and the world go on.  A case that  *)
(* escalation opens is named by the assessment that it was opened for, so  *)
(* cases and assessments share their numbers.                              *)
(***************************************************************************)
EXTENDS Naturals

CONSTANTS
  Passes,          \* passes of the caseLifecycle service in any process
  MaxAssessments,  \* bound on the assessments of the subject
  MaxClock,        \* bound on the clock
  MaxStops         \* bound on how many passes stop or fail half-way

ASSUME Bounds == MaxAssessments \in Nat /\ MaxClock \in Nat /\ MaxStops \in Nat

VARIABLES
  clock,
  latest,     \* the newest assessment, 0 before the first
  verdict,    \* what each assessment said
  view,       \* whether the newest one is settled, see AssessmentFeed
  phase,      \* lifecycle_status of each case
  openedAt,   \* the time hashed into the receipt of the command that opened it
  linked,     \* the case each assessment was linked to, 0 without a receipt
  attempt,    \* outcome of the planning attempt of each case and basis
  work,       \* the approved plan of each case and basis
  attention,  \* the human attention of each case and basis
  cleared,    \* case and basis of the attention-supersede receipts
  approving,  \* case and basis of the approvals whose plan is compiled
  pass,       \* what each pass is doing
  stops

\* The assessments of the subject, as Reassessment makes them.
Feed == INSTANCE AssessmentFeed

world == <<clock, latest, verdict, view>>
rows == <<phase, openedAt, linked, attempt, work, attention, cleared>>
vars == <<world, rows, approving, pass, stops>>

Assessments == 1 .. MaxAssessments
Cases == Assessments

\* TIGHT is a FAIL that recoveryPlanningEligibleFromAssessment does not plan for.
Verdicts == {"PASS", "FAIL", "TIGHT", "UNKNOWN"}
Working == {"OPEN", "PLANNING", "AWAITING_AUTHORITY", "EXECUTING"}
Phases == Working \cup {"none", "RESOLVED"}
Attempts == {"none", "AWAITING_AUTHORITY", "NO_RECOVERY_FOUND", "STALE_RETRY_REQUIRED"}
Works == {"none", "PLANNED", "RUNNING", "FAILED", "DONE"}
Attentions == {"none", "OPEN", "RESOLVED"}
Errands == {"open", "link", "clear", "decide", "resolve", "plan", "prepare", "advance",
            "complete", "escalate"}

Idle == [at |-> "idle", case |-> 0, basis |-> 0, now |-> 0]

Init ==
  /\ clock = 0
  /\ Feed!Init
  /\ verdict = [a \in Assessments |-> "none"]
  /\ phase = [c \in Cases |-> "none"]
  /\ openedAt = [c \in Cases |-> 0]
  /\ linked = [a \in Assessments |-> 0]
  /\ attempt = [c \in Cases |-> [b \in Assessments |-> "none"]]
  /\ work = [c \in Cases |-> [b \in Assessments |-> "none"]]
  /\ attention = [c \in Cases |-> [b \in Assessments |-> "none"]]
  /\ cleared = {}
  /\ approving = {}
  /\ pass = [p \in Passes |-> Idle]
  /\ stops = 0

-----------------------------------------------------------------------------
(* What the code asks of the rows *)

Fails(a) == verdict[a] \in {"FAIL", "TIGHT"}

\* A pass compares expiries with the time at which it began, so what expires
\* while it runs, or expired since, is settled for it; anything else is not.
Settled(a) == a = latest /\ view # "PENDING"
CurrentFail(a) == a = latest /\ view = "CURRENT" /\ Fails(a)

Attached(c) == \E a \in Assessments : linked[a] = c

\* casesForSubject without the terminal ones; the lowest id stands for the choice.
OpenCases == {c \in Cases : phase[c] \in Working /\ Attached(c)}
FirstOpen == CHOOSE c \in OpenCases : \A d \in OpenCases : c <= d

\* hasUnreconciledExecution or hasIncompleteMandatoryActions.
Unfinished(c) == \E b \in Assessments : work[c][b] \in {"PLANNED", "RUNNING", "FAILED"}

\* Strategies stay EVALUATED, so only an observed success lifts this refusal.
ProposedOnly(c) ==
  /\ \E b \in Assessments : attempt[c][b] = "AWAITING_AUTHORITY"
  /\ \A b \in Assessments : work[c][b] # "DONE"

\* Mutant: the verdict of an assessment that was superseded counts.
GateAllowsOnOldVerdict(c) ==
  /\ phase[c] \in Working
  /\ Attached(c)
  /\ ~Unfinished(c)
  /\ ~ProposedOnly(c)
  /\ view # "PENDING" /\ \E a \in Assessments : verdict[a] = "PASS"

\* evaluateRecoveryCaseResolution.
GateAllows(c) ==
  /\ phase[c] \in Working
  /\ Attached(c)
  /\ ~Unfinished(c)
  /\ ~ProposedOnly(c)
  /\ \E a \in Assessments : Settled(a) /\ verdict[a] = "PASS"

GateSeesPendingWork(c) == phase[c] \in Working /\ Attached(c) /\ Unfinished(c)

\* The plan made for this basis still waits for its approval.
ApprovalOutstanding(c, b) == attempt[c][b] = "AWAITING_AUTHORITY" /\ work[c][b] = "none"

\* decideRecoveryProgression; "idle" is its WAIT.
Decision(c, b) ==
  IF GateAllows(c) THEN "resolve"
  ELSE IF GateSeesPendingWork(c) \/ (Fails(b) /\ ApprovalOutstanding(c, b)) THEN "idle"
  ELSE IF verdict[b] = "FAIL" /\ attempt[c][b] = "none" THEN "plan"
  ELSE IF verdict[b] = "TIGHT" /\ attempt[c][b] = "none" THEN "idle"
  ELSE "escalate"

Done(p) == pass' = [pass EXCEPT ![p] = Idle]
GoTo(p, errand) == pass' = [pass EXCEPT ![p].at = errand]

-----------------------------------------------------------------------------
(* The world: the clock, and the feed of assessments *)

Tick ==
  /\ clock < MaxClock
  /\ clock' = clock + 1
  /\ UNCHANGED <<latest, verdict, view, rows, approving, pass, stops>>

\* The newest assessment ages, and its work comes and goes.
Age ==
  /\ Feed!Disturb \/ Feed!Expire \/ Feed!Resurface
  /\ UNCHANGED <<clock, verdict, rows, approving, pass, stops>>

Assess(v) ==
  /\ latest < MaxAssessments
  /\ Feed!Assess
  /\ verdict' = [verdict EXCEPT ![latest + 1] = v]
  /\ UNCHANGED <<clock, rows, approving, pass, stops>>

-----------------------------------------------------------------------------
(* runCaseEscalation *)

\* loadCandidates, the view and casesForSubject, then decideEscalation.
DecideEscalation(p) ==
  /\ pass[p] = Idle
  /\ \E a \in Assessments :
       /\ Settled(a)
       /\ Fails(a)
       /\ linked[a] = 0
       /\ pass' = [pass EXCEPT ![p] =
            IF OpenCases = {} THEN [at |-> "open", case |-> a, basis |-> a, now |-> clock]
            ELSE [at |-> "link", case |-> FirstOpen, basis |-> a, now |-> 0]]
  /\ UNCHANGED <<world, rows, approving, stops>>

\* openRecoveryCase under the key of the case; a receipt with another time is
\* a HASH_MISMATCH, and the candidate is reported as failed.
OpenCase(p) ==
  LET c == pass[p].case IN
  /\ pass[p].at = "open"
  /\ \/ /\ phase[c] = "none"
        /\ phase' = [phase EXCEPT ![c] = "OPEN"]
        /\ openedAt' = [openedAt EXCEPT ![c] = pass[p].now]
        /\ pass' = [pass EXCEPT ![p].at = "link", ![p].now = 0]
     \/ /\ phase[c] # "none"
        /\ IF openedAt[c] = pass[p].now
           THEN pass' = [pass EXCEPT ![p].at = "link", ![p].now = 0]
           ELSE Done(p)
        /\ UNCHANGED <<phase, openedAt>>
  /\ UNCHANGED <<world, linked, attempt, work, attention, cleared, approving, stops>>

\* attachCaseSubjects: refused on a terminal case and under a used key.
LinkCase(p) ==
  LET c == pass[p].case  a == pass[p].basis IN
  /\ pass[p].at = "link"
  /\ linked' = [linked EXCEPT ![a] = IF @ = 0 /\ phase[c] \in Working THEN c ELSE @]
  /\ Done(p)
  /\ UNCHANGED <<world, phase, openedAt, attempt, work, attention, cleared, approving, stops>>

-----------------------------------------------------------------------------
(* runRecoveryProgressionPass *)

\* settledBasis, and whether attention of another basis is open.
ReadBasis(p, c) ==
  /\ pass[p] = Idle
  /\ c \in OpenCases
  /\ \E b \in Assessments :
       /\ Settled(b)
       /\ pass' = [pass EXCEPT ![p] =
            [at |-> IF \E o \in Assessments \ {b} : attention[c][o] = "OPEN"
                    THEN "clear" ELSE "decide",
             case |-> c, basis |-> b, now |-> 0]]
  /\ UNCHANGED <<world, rows, approving, stops>>

\* Every open attention of the case, except the one that is kept.
ClearAttention(c, kept) ==
  attention' = [attention EXCEPT ![c] =
                  [b \in Assessments |-> IF @[b] = "OPEN" /\ b # kept THEN "RESOLVED" ELSE @[b]]]

\* resolveRecoveryCaseAttention; a used key is answered from its receipt.
SupersedeAttention(p) ==
  LET c == pass[p].case  b == pass[p].basis IN
  /\ pass[p].at = "clear"
  /\ IF <<c, b>> \in cleared THEN UNCHANGED attention ELSE ClearAttention(c, b)
  /\ cleared' = cleared \cup {<<c, b>>}
  /\ GoTo(p, "decide")
  /\ UNCHANGED <<world, phase, openedAt, linked, attempt, work, approving, stops>>

\* The gate and the attempt of the basis, then decideRecoveryProgression.
Decide(p) ==
  LET decision == Decision(pass[p].case, pass[p].basis) IN
  /\ pass[p].at = "decide"
  /\ IF decision = "idle" THEN Done(p) ELSE GoTo(p, decision)
  /\ UNCHANGED <<world, rows, approving, stops>>

\* Mutant: the gate that the pass read before is trusted.
ResolveAsDecided(p) ==
  LET c == pass[p].case IN
  /\ pass[p].at = "resolve"
  /\ IF phase[c] \in Working
     THEN phase' = [phase EXCEPT ![c] = "RESOLVED"] /\ ClearAttention(c, 0)
     ELSE UNCHANGED <<phase, attention>>
  /\ Done(p)
  /\ UNCHANGED <<world, openedAt, linked, attempt, work, cleared, approving, stops>>

\* resolveRecoveryCase: the gate runs again inside the transaction.
ResolveCase(p) ==
  LET c == pass[p].case IN
  /\ pass[p].at = "resolve"
  /\ IF GateAllows(c)
     THEN phase' = [phase EXCEPT ![c] = "RESOLVED"] /\ ClearAttention(c, 0)
     ELSE UNCHANGED <<phase, attention>>
  /\ Done(p)
  /\ UNCHANGED <<world, openedAt, linked, attempt, work, cleared, approving, stops>>

\* Mutant: attention is opened whatever became of the case.
OpenAnyAttention(p) ==
  LET c == pass[p].case  b == pass[p].basis IN
  /\ pass[p].at = "escalate"
  /\ attention' = [attention EXCEPT ![c][b] = IF @ = "none" THEN "OPEN" ELSE @]
  /\ Done(p)
  /\ UNCHANGED <<world, phase, openedAt, linked, attempt, work, cleared, approving, stops>>

\* openRecoveryCaseAttention: refused on a terminal case, once per basis.
OpenAttention(p) ==
  LET c == pass[p].case  b == pass[p].basis IN
  /\ pass[p].at = "escalate"
  /\ attention' = [attention EXCEPT ![c][b] =
                     IF @ = "none" /\ phase[c] \in Working THEN "OPEN" ELSE @]
  /\ Done(p)
  /\ UNCHANGED <<world, phase, openedAt, linked, attempt, work, cleared, approving, stops>>

-----------------------------------------------------------------------------
(* planCase *)

\* capturePlanningBasis on a case that is still open, at the time planning begins;
\* without a failing subject there is nothing to plan.  Research of entry rules
\* and hotels is optional.
CaptureBasis(p) ==
  /\ pass[p].at = "plan"
  /\ \/ /\ phase[pass[p].case] \in Working
        /\ \E b \in Assessments, then \in {"prepare", "advance"} :
             /\ CurrentFail(b)
             /\ pass' = [pass EXCEPT ![p].at = then, ![p].basis = b]
     \/ /\ phase[pass[p].case] \notin Working \/ \A b \in Assessments : ~CurrentFail(b)
        /\ Done(p)
  /\ UNCHANGED <<world, rows, approving, stops>>

\* preparePlanningContext returned; on a basis that has moved on its evidence is
\* kept as an attempt that has to be retried.
PrepareEnds(p) ==
  LET c == pass[p].case  b == pass[p].basis IN
  /\ pass[p].at = "prepare"
  /\ IF Settled(b)
     THEN GoTo(p, "advance") /\ UNCHANGED attempt
     ELSE /\ attempt' = [attempt EXCEPT ![c][b] = IF @ = "none" THEN "STALE_RETRY_REQUIRED" ELSE @]
          /\ Done(p)
  /\ UNCHANGED <<world, phase, openedAt, linked, work, attention, cleared, approving, stops>>

\* advanceCasePhase to PLANNING: only ever forward.
StartPlanning(p) ==
  LET c == pass[p].case IN
  /\ pass[p].at = "advance"
  /\ phase' = [phase EXCEPT ![c] = IF @ = "OPEN" THEN "PLANNING" ELSE @]
  /\ GoTo(p, "complete")
  /\ UNCHANGED <<world, openedAt, linked, attempt, work, attention, cleared, approving, stops>>

\* A planning phase, on a basis that nothing has superseded or is about to.
Promotable(c, b) ==
  /\ phase[c] \in {"PLANNING", "AWAITING_AUTHORITY"}
  /\ b = latest
  /\ view # "PENDING"

\* Mutant: an attempt that is there already is written again.
CompleteAgain(p, outcome) ==
  LET c == pass[p].case  b == pass[p].basis IN
  /\ pass[p].at = "complete"
  /\ IF Promotable(c, b)
     THEN /\ attempt' = [attempt EXCEPT ![c][b] = outcome]
          /\ phase' = [phase EXCEPT ![c] = IF outcome = "AWAITING_AUTHORITY" THEN outcome ELSE @]
     ELSE UNCHANGED <<attempt, phase>>
  /\ Done(p)
  /\ UNCHANGED <<world, openedAt, linked, work, attention, cleared, approving, stops>>

\* Mutant: the options are stored and the case stays where it is.
CompleteInPlace(p, outcome) ==
  LET c == pass[p].case  b == pass[p].basis IN
  /\ pass[p].at = "complete"
  /\ attempt' = [attempt EXCEPT ![c][b] = IF @ = "none" /\ Promotable(c, b) THEN outcome ELSE @]
  /\ Done(p)
  /\ UNCHANGED <<world, phase, openedAt, linked, work, attention, cleared, approving, stops>>

\* persistRecoveryPlanningCompletion: options, attempt and phase in one command.
CompletePlan(p, outcome) ==
  LET c == pass[p].case  b == pass[p].basis IN
  /\ pass[p].at = "complete"
  /\ IF Promotable(c, b) /\ attempt[c][b] = "none"
     THEN /\ attempt' = [attempt EXCEPT ![c][b] = outcome]
          /\ phase' = [phase EXCEPT ![c] = IF outcome = "AWAITING_AUTHORITY" THEN outcome ELSE @]
     ELSE UNCHANGED <<attempt, phase>>
  /\ Done(p)
  /\ UNCHANGED <<world, openedAt, linked, work, attention, cleared, approving, stops>>

-----------------------------------------------------------------------------
(* The operator and the execution of what he approved *)

\* approveRecoveryStrategy up to compileActionPlan, which refuses a stale base.
CompileApproval(c, b) ==
  /\ phase[c] \in Working
  /\ ApprovalOutstanding(c, b)
  /\ b = latest /\ view = "CURRENT"
  /\ <<c, b>> \notin approving
  /\ approving' = approving \cup {<<c, b>>}
  /\ UNCHANGED <<world, rows, pass, stops>>

\* persistActionPlan: one plan for each strategy; it does not read the case.
PersistPlan(c, b) ==
  /\ <<c, b>> \in approving
  /\ work' = [work EXCEPT ![c][b] = IF @ = "none" THEN "PLANNED" ELSE @]
  /\ approving' = approving \ {<<c, b>>}
  /\ UNCHANGED <<world, phase, openedAt, linked, attempt, attention, cleared, pass, stops>>

\* advanceCasePhase to EXECUTING, one phase in each command, once the plan is
\* stored; a repeated approval of a stored plan comes back to it.
Forward(x) == IF x = "OPEN" THEN "PLANNING"
              ELSE IF x = "PLANNING" THEN "AWAITING_AUTHORITY" ELSE "EXECUTING"
AdvanceToExecuting(c) ==
  /\ \E b \in Assessments : work[c][b] # "none"
  /\ phase[c] \in Working \ {"EXECUTING"}
  /\ phase' = [phase EXCEPT ![c] = Forward(@)]
  /\ UNCHANGED <<world, openedAt, linked, attempt, work, attention, cleared, approving, pass,
                 stops>>

\* The execution passes: an attempt at an approved action, and its outcome.
StartWork(c, b) ==
  /\ work[c][b] \in {"PLANNED", "FAILED"}
  /\ work' = [work EXCEPT ![c][b] = "RUNNING"]
  /\ UNCHANGED <<world, phase, openedAt, linked, attempt, attention, cleared, approving, pass,
                 stops>>

EndWork(c, b, outcome) ==
  /\ work[c][b] = "RUNNING"
  /\ work' = [work EXCEPT ![c][b] = outcome]
  /\ UNCHANGED <<world, phase, openedAt, linked, attempt, attention, cleared, approving, pass,
                 stops>>

-----------------------------------------------------------------------------
\* The process stops, or a step of the pass fails and it goes on with the next.
Stop(p) ==
  /\ pass[p] # Idle
  /\ stops < MaxStops
  /\ stops' = stops + 1
  /\ Done(p)
  /\ UNCHANGED <<world, rows, approving>>

\* A pass goes on with what it has begun.
Continue(p) ==
  \/ OpenCase(p) \/ LinkCase(p)
  \/ SupersedeAttention(p) \/ Decide(p) \/ ResolveCase(p) \/ OpenAttention(p)
  \/ CaptureBasis(p) \/ PrepareEnds(p) \/ StartPlanning(p)
  \/ \E outcome \in {"AWAITING_AUTHORITY", "NO_RECOVERY_FOUND"} : CompletePlan(p, outcome)

Operate ==
  \E c \in Cases :
    \/ AdvanceToExecuting(c)
    \/ \E b \in Assessments :
         \/ CompileApproval(c, b) \/ PersistPlan(c, b) \/ StartWork(c, b)
         \/ \E outcome \in {"FAILED", "DONE"} : EndWork(c, b, outcome)

Next ==
  \/ Tick \/ Age
  \/ \E v \in Verdicts : Assess(v)
  \/ \E p \in Passes :
       \/ DecideEscalation(p)
       \/ \E c \in Cases : ReadBasis(p, c)
       \/ Continue(p)
       \/ Stop(p)
  \/ Operate

Spec == Init /\ [][Next]_vars

\* The service wakes for ever and each wake handles every candidate in turn.
FairSpec ==
  /\ Spec
  /\ \A p \in Passes :
       /\ WF_vars(Continue(p))
       /\ SF_vars(view = "CURRENT" /\ DecideEscalation(p))
       /\ \A c \in Cases : SF_vars(view = "CURRENT" /\ ReadBasis(p, c))

-----------------------------------------------------------------------------
(* Properties *)

Pass == [at : Errands, case : Cases, basis : Assessments, now : 0 .. MaxClock] \cup {Idle}

\* Every row and every pass has the shape that the code gives it.
TypeOK ==
  /\ clock \in 0 .. MaxClock
  /\ latest \in 0 .. MaxAssessments
  /\ verdict \in [Assessments -> Verdicts \cup {"none"}]
  /\ view \in Feed!Views
  /\ phase \in [Cases -> Phases]
  /\ openedAt \in [Cases -> 0 .. MaxClock]
  /\ linked \in [Assessments -> Cases \cup {0}]
  /\ attempt \in [Cases -> [Assessments -> Attempts]]
  /\ work \in [Cases -> [Assessments -> Works]]
  /\ attention \in [Cases -> [Assessments -> Attentions]]
  /\ cleared \subseteq Cases \X Assessments
  /\ approving \subseteq Cases \X Assessments
  /\ pass \in [Passes -> Pass]
  /\ stops \in 0 .. MaxStops

\* A blocking FAIL whose receipt says that a case covers it is covered by an open
\* case for as long as it is the newest assessment.  The candidate query never
\* returns it again, so a case that closed around it would lose it for good.
CoveredFailIsOpen ==
  \A a \in Assessments :
    a = latest /\ Fails(a) /\ linked[a] # 0 => phase[linked[a]] \in Working

\* "A RESOLVED case never keeps an OPEN human-attention record": a pass that
\* decided to escalate before the case was resolved does not raise one after.
ResolvedHasNoAttention ==
  \A c \in Cases, b \in Assessments :
    phase[c] = "RESOLVED" => attention[c][b] # "OPEN"

\* The phase tells the operator the truth: a case waits for an approval or
\* executes only with options to show, executes only with an approved plan, and
\* options are never on a case that says that it is still planning.
PhaseMatchesOptions ==
  \A c \in Cases :
    LET options == {b \in Assessments : attempt[c][b] = "AWAITING_AUTHORITY"} IN
    /\ phase[c] \in {"AWAITING_AUTHORITY", "EXECUTING"} => options # {}
    /\ phase[c] = "EXECUTING" => \E b \in options : work[c][b] # "none"
    /\ phase[c] \in {"OPEN", "PLANNING"} => options = {}

\* Whatever plans concurrently, the options that an operator is approving or has
\* approved are still the ones the case shows.
ApprovedOptionStands ==
  \A c \in Cases, b \in Assessments :
    <<c, b>> \in approving \/ work[c][b] # "none" => attempt[c][b] = "AWAITING_AUTHORITY"

\* A case is resolved at a moment at which the newest assessment of the trip
\* passes, nothing that it read has changed, and every approved action is
\* observed, however old the decision to resolve is.
ResolvesOnlyRecovered ==
  [][\A c \in Cases :
       phase[c] # "RESOLVED" /\ phase'[c] = "RESOLVED" =>
         /\ view # "PENDING" /\ verdict[latest] = "PASS"
         /\ \A b \in Assessments : work[c][b] \in {"none", "DONE"}]_vars

\* A failing basis that stays current on an open case, with no planning attempt,
\* nobody's attention, and no approved action that has still to succeed.
Unhandled(c) ==
  /\ c \in OpenCases
  /\ ~Unfinished(c)
  /\ \E b \in Assessments :
       CurrentFail(b) /\ verdict[b] = "FAIL" /\ attempt[c][b] = "none" /\ attention[c][b] = "none"

\* recoveryProgression.ts of every open case: a basis that still fails is planned
\* for or, otherwise, put to a person.
FailingBasisIsHandled == \A c \in Cases : Unhandled(c) ~> ~Unhandled(c)
=============================================================================
