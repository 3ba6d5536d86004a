---------------------------- MODULE Reassessment ----------------------------
(***************************************************************************)
(* Assessments of subjects, the inputs they read, and the durable work     *)
(* that replaces an assessment whose inputs or whose clock moved on: the   *)
(* triggers of migration 0091, the worker PgReassessmentWorker, and what   *)
(* currentAssessmentView says of a subject.                                *)
(*                                                                         *)
(* An input is an aggregate head or a scope generation.  Commands, saves   *)
(* and completions are serializable transactions and one step each; claims *)
(* and failures are single statements.  Rows that are DONE are forgotten,  *)
(* and of the UNAVAILABLE rows of a subject only the newest is ever read.  *)
(***************************************************************************)
EXTENDS Naturals

CONSTANTS
  Subjects,
  Inputs,
  Closures,     \* sets of inputs that a capture of a subject may read
  Lanes,        \* claims that can be worked on at the same time
  MaxAttempts,  \* maxAttempts
  MaxVersion,   \* bound on the versions of the inputs
  MaxClock,     \* bound on the clock
  None

ASSUME InputsAreRead == Closures \subseteq SUBSET Inputs
ASSUME SomeAttempts == MaxAttempts \in Nat \ {0} /\ MaxVersion \in Nat /\ MaxClock \in Nat

VARIABLES
  version,      \* the revision or generation of each input
  clock,
  latest,       \* the assessment of each subject that nothing supersedes
  row,          \* the open row of each subject
  unavailable,  \* the cause of its newest UNAVAILABLE row, 0 without one
  due,          \* the expired assessments that statements are about to insert
  baseline,     \* a first assessment, evaluated and not yet saved
  claim         \* what each lane works on

world == <<version, clock>>
vars == <<world, latest, row, unavailable, due, baseline, claim>>

Versions == 0 .. MaxVersion
Reads == UNION {[D -> Versions] : D \in Closures}
\* Expiring at MaxClock + 1 is not expiring at all.
Results == [read : Reads, expires : 1 .. MaxClock + 1]
Assessments == [id : Nat \ {0}, read : Reads, expires : 1 .. MaxClock + 1]
Rows == [state : {"PENDING", "CLAIMED"}, attempts : 0 .. MaxAttempts + 1,
         cause : Nat \ {0}, holder : Lanes \cup {None}]
Claims == [subject : Subjects, result : Results \cup {None}]

ASSUME NoneIsNothing == None \notin Lanes \cup Results \cup Assessments \cup Rows \cup Claims

Init ==
  /\ version = [i \in Inputs |-> 0]
  /\ clock = 0
  /\ latest = [s \in Subjects |-> None]
  /\ row = [s \in Subjects |-> None]
  /\ unavailable = [s \in Subjects |-> 0]
  /\ due = [s \in Subjects |-> {}]
  /\ baseline = [s \in Subjects |-> None]
  /\ claim = [w \in Lanes |-> None]

-----------------------------------------------------------------------------
(* Assessments and their currentness *)

Assessed(s) == latest[s] # None

\* assessManifestCurrentness without the clock: manifestStaleness.
InputsCurrent(r) == \A i \in DOMAIN r.read : r.read[i] = version[i]

Expired(r) == clock >= r.expires

Verified(s) == InputsCurrent(latest[s]) /\ ~Expired(latest[s])

\* What a pipeline that captures the world now may return.
Captures ==
  [read : {[i \in D |-> version[i]] : D \in Closures}, expires : clock + 1 .. MaxClock + 1]

\* insertAssessment as the successor of the latest assessment.
NextId(s) == IF Assessed(s) THEN latest[s].id + 1 ELSE 1
Supersede(s, r) ==
  latest' = [latest EXCEPT ![s] = [id |-> NextId(s), read |-> r.read, expires |-> r.expires]]

NewRow(cause) == [state |-> "PENDING", attempts |-> 0, cause |-> cause, holder |-> None]

-----------------------------------------------------------------------------
(* The world *)

\* The subjects whose latest assessment read another version of i.
Readers(i, v) ==
  {s \in Subjects : /\ Assessed(s)
                    /\ i \in DOMAIN latest[s].read
                    /\ latest[s].read[i] # v}

\* A command advances some inputs, each once, and the triggers enqueue work
\* in its transaction; work coalesces with a row that is open.
Change(I) ==
  /\ \A i \in I : version[i] < MaxVersion
  /\ version' = [i \in Inputs |-> IF i \in I THEN version[i] + 1 ELSE version[i]]
  /\ LET affected == UNION {Readers(i, version[i] + 1) : i \in I}
     IN row' = [s \in Subjects |->
                  IF s \in affected /\ row[s] = None THEN NewRow(latest[s].id) ELSE row[s]]
  /\ UNCHANGED <<clock, latest, unavailable, due, baseline, claim>>

Tick ==
  /\ clock < MaxClock
  /\ clock' = clock + 1
  /\ UNCHANGED <<version, latest, row, unavailable, due, baseline, claim>>

\* Mutant: assessments are selected whether they have expired or not.
SelectAny(s) ==
  /\ Assessed(s)
  /\ latest[s].id \notin due[s]
  /\ due' = [due EXCEPT ![s] = @ \cup {latest[s].id}]
  /\ UNCHANGED <<world, latest, row, unavailable, baseline, claim>>

\* enqueueDueReassessments is one READ COMMITTED statement, of any process:
\* what it selects may be superseded when it inserts.
SelectDue(s) ==
  /\ Assessed(s)
  /\ Expired(latest[s])
  /\ latest[s].id \notin due[s]
  /\ due' = [due EXCEPT ![s] = @ \cup {latest[s].id}]
  /\ UNCHANGED <<world, latest, row, unavailable, baseline, claim>>

InsertDue(s) ==
  /\ \E a \in due[s] :
       /\ row' = IF row[s] = None THEN [row EXCEPT ![s] = NewRow(a)] ELSE row
       /\ due' = [due EXCEPT ![s] = @ \ {a}]
  /\ UNCHANGED <<world, latest, unavailable, baseline, claim>>

\* runBaselineEvaluation, at boot: subjects without an assessment are
\* captured and evaluated, and saved one after the other afterwards.
EvaluateBaseline(s) ==
  /\ ~Assessed(s)
  /\ baseline[s] = None
  /\ \E r \in Captures : baseline' = [baseline EXCEPT ![s] = r]
  /\ UNCHANGED <<world, latest, row, unavailable, due, claim>>

saveAssessment(s) ==
  /\ baseline[s] # None
  /\ Supersede(s, baseline[s])
  /\ baseline' = [baseline EXCEPT ![s] = None]
  /\ UNCHANGED <<world, row, unavailable, due, claim>>

-----------------------------------------------------------------------------
(* PgReassessmentWorker *)

\* Attempts are only compared with MaxAttempts.
OneMore(n) == IF n > MaxAttempts THEN n ELSE n + 1

\* Mutant: a lease that has ended is not looked at.
claimPending(w, s) ==
  /\ claim[w] = None
  /\ row[s] # None
  /\ row[s].state = "PENDING"
  /\ row' = [row EXCEPT ![s] =
               [state |-> "CLAIMED", attempts |-> OneMore(row[s].attempts),
                cause |-> row[s].cause, holder |-> w]]
  /\ claim' = [claim EXCEPT ![w] = [subject |-> s, result |-> None]]
  /\ UNCHANGED <<world, latest, unavailable, due, baseline>>

\* A row that is pending, or whose lease has ended, as it may at any time.
claimRow(w, s) ==
  /\ claim[w] = None
  /\ row[s] # None
  /\ row' = [row EXCEPT ![s] =
               [state |-> "CLAIMED", attempts |-> OneMore(row[s].attempts),
                cause |-> row[s].cause, holder |-> w]]
  /\ claim' = [claim EXCEPT ![w] = [subject |-> s, result |-> None]]
  /\ UNCHANGED <<world, latest, unavailable, due, baseline>>

subject(w) == claim[w].subject

\* Mutant: the claim token is not compared.
ClaimedByAnyone(w) ==
  /\ claim[w] # None
  /\ row[subject(w)] # None
  /\ row[subject(w)].state = "CLAIMED"

\* The row is still claimed, and with the token of this lane.
Held(w) ==
  /\ claim[w] # None
  /\ row[subject(w)] # None
  /\ row[subject(w)].state = "CLAIMED"
  /\ row[subject(w)].holder = w

Release(w) == claim' = [claim EXCEPT ![w] = None]

\* The pipeline captures the world and evaluates the subject.
Evaluate(w) ==
  /\ claim[w] # None
  /\ claim[w].result = None
  /\ \E r \in Captures :
       claim' = [claim EXCEPT ![w] = [subject |-> subject(w), result |-> r]]
  /\ UNCHANGED <<world, latest, row, unavailable, due, baseline>>

\* Mutant: nothing is checked after the result is stored.
RowIsDone(s, r) == None

\* The row is DONE; new work is left when an input moved since the capture.
RowAfter(s, r) == IF InputsCurrent(r) THEN None ELSE NewRow(NextId(s))

completeOnce(w) ==
  /\ Held(w)
  /\ claim[w].result # None
  /\ Supersede(subject(w), claim[w].result)
  /\ row' = [row EXCEPT ![subject(w)] = RowAfter(subject(w), claim[w].result)]
  /\ Release(w)
  /\ UNCHANGED <<world, unavailable, due, baseline>>

\* Back to PENDING for the next claim.
Requeue(s) ==
  row' = [row EXCEPT ![s] = [state |-> "PENDING", attempts |-> row[s].attempts,
                             cause |-> row[s].cause, holder |-> None]]

\* Every retry of completeOnce ended in a conflict.
requeueAfterCompleteFailure(w) ==
  /\ Held(w)
  /\ claim[w].result # None
  /\ Requeue(subject(w))
  /\ Release(w)
  /\ UNCHANGED <<world, latest, unavailable, due, baseline>>

\* The pipeline failed.
fail(w) ==
  /\ Held(w)
  /\ claim[w].result = None
  /\ row[subject(w)].attempts < MaxAttempts
  /\ Requeue(subject(w))
  /\ Release(w)
  /\ UNCHANGED <<world, latest, unavailable, due, baseline>>

failExhausted(w) ==
  /\ Held(w)
  /\ claim[w].result = None
  /\ row[subject(w)].attempts >= MaxAttempts
  /\ unavailable' = [unavailable EXCEPT ![subject(w)] = row[subject(w)].cause]
  /\ row' = [row EXCEPT ![subject(w)] = None]
  /\ Release(w)
  /\ UNCHANGED <<world, latest, due, baseline>>

\* complete and fail find that the claim was taken over.
Fenced(w) ==
  /\ claim[w] # None
  /\ ~Held(w)
  /\ Release(w)
  /\ UNCHANGED <<world, latest, row, unavailable, due, baseline>>

\* The process stops, or complete ends in an error that is not retried: the
\* row stays claimed.
Abandon(w) ==
  /\ claim[w] # None
  /\ Release(w)
  /\ UNCHANGED <<world, latest, row, unavailable, due, baseline>>

-----------------------------------------------------------------------------
(* currentAssessmentView *)

\* The cause of the newest row that is not DONE, 0 without one.
Candidate(s) == IF row[s] # None THEN row[s].cause ELSE unavailable[s]

\* Mutant: work stands until it is done, whatever superseded its cause.
StandsWhateverSuperseded(s) == Candidate(s) # 0

\* Work raised against a superseded assessment is obsolete once the latest
\* one verifies.
Stands(s) ==
  /\ Candidate(s) # 0
  /\ ~(Candidate(s) # latest[s].id /\ Verified(s))

View(s) ==
  CASE ~Assessed(s) -> "NONE"
    [] Assessed(s) /\ Stands(s) /\ row[s] = None -> "UNAVAILABLE"
    [] Assessed(s) /\ Stands(s) /\ row[s] # None -> "PENDING_REASSESSMENT"
    [] Assessed(s) /\ ~Stands(s) /\ Verified(s) -> "CURRENT"
    [] Assessed(s) /\ ~Stands(s) /\ ~Verified(s) -> "STALE"

-----------------------------------------------------------------------------
Lane(w) ==
  \/ \E s \in Subjects : claimRow(w, s)
  \/ Evaluate(w) \/ completeOnce(w) \/ requeueAfterCompleteFailure(w)
  \/ fail(w) \/ failExhausted(w) \/ Fenced(w) \/ Abandon(w)

Next ==
  \/ \E I \in (SUBSET Inputs) \ {{}} : Change(I)
  \/ Tick
  \/ \E s \in Subjects :
       SelectDue(s) \/ InsertDue(s) \/ EvaluateBaseline(s) \/ saveAssessment(s)
  \/ \E w \in Lanes : Lane(w)

Spec == Init /\ [][Next]_vars

\* A pipeline ends, with a result or with an error, while its claim is held.
PipelineEnds(w) == Held(w) /\ (Evaluate(w) \/ fail(w) \/ failExhausted(w))

\* The loop wakes every two seconds and takes rows in the order in which they
\* are due; of endlessly many claims some last until the pipeline ends, and
\* of endlessly many completions some commit.  Nothing makes the world change,
\* a pipeline succeed, or a process stop.
FairSpec ==
  /\ Spec
  /\ \A s \in Subjects :
       /\ WF_vars(SelectDue(s)) /\ WF_vars(InsertDue(s))
       /\ SF_vars(\E w \in Lanes : claimRow(w, s))
  /\ \A w \in Lanes :
       WF_vars(Fenced(w)) /\ SF_vars(PipelineEnds(w)) /\ SF_vars(completeOnce(w))

-----------------------------------------------------------------------------
(* Properties *)

\* Types.  Only a claimed row has a holder, and only an assessed subject has
\* rows, open or not.
TypeOK ==
  /\ version \in [Inputs -> Versions]
  /\ clock \in 0 .. MaxClock
  /\ latest \in [Subjects -> Assessments \cup {None}]
  /\ row \in [Subjects -> Rows \cup {None}]
  /\ unavailable \in [Subjects -> Nat]
  /\ due \in [Subjects -> SUBSET (Nat \ {0})]
  /\ baseline \in [Subjects -> Results \cup {None}]
  /\ claim \in [Lanes -> Claims \cup {None}]
  /\ \A s \in Subjects :
       /\ row[s] # None => (row[s].state = "CLAIMED" <=> row[s].holder # None)
       /\ ~Assessed(s) => row[s] = None /\ unavailable[s] = 0 /\ due[s] = {}

\* An assessment that the worker stored and whose inputs have moved has open
\* work, or a failure on record, also when the input moved between the capture
\* and the completion and its trigger coalesced with the claimed row.
StaleHasWork ==
  \A s \in Subjects :
    Assessed(s) /\ latest[s].id > 1 /\ ~InputsCurrent(latest[s]) =>
      row[s] # None \/ unavailable[s] # 0

\* An assessment never supersedes one that read newer versions: of two lanes
\* that work on the same row only the one that captured later can store.
NewerSupersedesOlder ==
  [][\A s \in Subjects :
       Assessed(s) /\ latest'[s] # latest[s] =>
         \A i \in DOMAIN latest[s].read \cap DOMAIN latest'[s].read :
           latest'[s].read[i] >= latest[s].read[i]]_vars

\* Nothing left behind by earlier work hides an assessment that verifies: rows
\* that failed, rows raised against an assessment that is superseded since.
VerifiedIsShown ==
  \A s \in Subjects : Assessed(s) /\ Verified(s) => View(s) = "CURRENT"

\* Only the clock takes a subject from CURRENT to something that no worker is
\* going to look at: a change leaves it pending in the same step, and a result
\* that a late lane stores over it is current or pending unless it has expired.
CurrentOnlyExpires ==
  [][\A s \in Subjects :
       View(s) = "CURRENT" =>
         View(s)' \in {"CURRENT", "PENDING_REASSESSMENT"} \/ Expired(latest[s])']_vars

IdOf(s) == IF Assessed(s) THEN latest[s].id ELSE 0

\* Whether the latest assessment is a settled one for a pass that begins now,
\* for one that began before it expired, or for none.
Settledness(s) ==
  CASE ~Assessed(s) -> "PENDING"
    [] Assessed(s) /\ (~InputsCurrent(latest[s]) \/ Candidate(s) = latest[s].id) -> "PENDING"
    [] Assessed(s) /\ InputsCurrent(latest[s]) /\ Candidate(s) # latest[s].id ->
         IF Expired(latest[s]) THEN "STALE" ELSE "CURRENT"

Feed(s) == INSTANCE AssessmentFeed WITH latest <- IdOf(s), view <- Settledness(s)

\* Triggers, due work, lanes, failures and baselines together are, of each
\* subject, what the passes of the recovery engine run on: assessments follow
\* one another, and one that lost its currentness never has it again.
ImplementsAssessmentFeed ==
  /\ \A s \in Subjects : Feed(s)!Init
  /\ [][\A s \in Subjects : Feed(s)!Next \/ UNCHANGED <<IdOf(s), Settledness(s)>>]_vars

\* A pending reassessment ends in a current assessment or in a failure on
\* record, whatever changes, expires, is taken over or stops meanwhile.
PendingEnds ==
  \A s \in Subjects :
    View(s) = "PENDING_REASSESSMENT" ~> View(s) \in {"CURRENT", "UNAVAILABLE"}
=============================================================================
