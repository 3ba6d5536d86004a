------------------------- MODULE ReassessmentProofs -------------------------
(***************************************************************************)
(* Theorems about assessments and their replacement, for any subjects,     *)
(* inputs, lanes, numbers of attempts and bounds.                          *)
(***************************************************************************)
EXTENDS Reassessment, TLAPS

-----------------------------------------------------------------------------
(* Captures and steps *)

LEMMA CapturesAreResults ==
  ASSUME TypeOK, NEW r \in Captures
  PROVE  /\ r \in Results
         /\ r # None
         /\ DOMAIN r.read \subseteq Inputs
         /\ \A i \in DOMAIN r.read : r.read[i] = version[i]
<1>1. PICK D \in Closures : r.read = [i \in D |-> version[i]]
  BY DEF Captures
<1>2. D \subseteq Inputs
  BY InputsAreRead
<1>3. r.read \in [D -> Versions]
  BY <1>1, <1>2 DEF TypeOK
<1>4. r.read \in Reads
  BY <1>3 DEF Reads
<1>5. r \in [read : {[i \in E |-> version[i]] : E \in Closures}, expires : clock + 1 .. MaxClock + 1]
  BY DEF Captures
<1>6. r.expires \in 1 .. MaxClock + 1
  BY <1>5, SomeAttempts DEF TypeOK
<1>7. r \in Results
  BY <1>4, <1>5, <1>6 DEF Results
<1>. QED  BY <1>1, <1>2, <1>7, NoneIsNothing

\* What a stored assessment or a result read.
LEMMA ReadFacts ==
  ASSUME NEW r \in Reads
  PROVE  DOMAIN r \subseteq Inputs /\ \A i \in DOMAIN r : r[i] \in Nat
BY InputsAreRead, SomeAttempts DEF Reads, Versions

LEMMA SupersedeFacts ==
  ASSUME TypeOK, NEW s \in Subjects, NEW r \in Results, Supersede(s, r)
  PROVE  /\ latest' \in [Subjects -> Assessments \cup {None}]
         /\ latest'[s] = [id |-> NextId(s), read |-> r.read, expires |-> r.expires]
         /\ latest'[s] \in Assessments
         /\ latest'[s] # None
         /\ NextId(s) \in Nat \ {0}
         /\ Assessed(s) => NextId(s) = latest[s].id + 1
         /\ \A t \in Subjects \ {s} : latest'[t] = latest[t]
<1>1. NextId(s) \in Nat \ {0} /\ (Assessed(s) => NextId(s) = latest[s].id + 1)
  BY DEF TypeOK, NextId, Assessed, Assessments
<1>2. [id |-> NextId(s), read |-> r.read, expires |-> r.expires] \in Assessments
  BY <1>1 DEF Results, Assessments
<1>. QED  BY <1>1, <1>2, NoneIsNothing DEF TypeOK, Supersede

LEMMA NewRowType ==
  ASSUME NEW cause \in Nat \ {0}
  PROVE  /\ NewRow(cause) \in Rows
         /\ NewRow(cause) # None
         /\ NewRow(cause).state = "PENDING"
         /\ NewRow(cause).holder = None
         /\ NewRow(cause).cause = cause
BY SomeAttempts, NoneIsNothing DEF NewRow, Rows

-----------------------------------------------------------------------------
(* Types *)

\* The last conjunct of TypeOK, for one subject.
RowsFit(s) ==
  /\ row[s] # None => (row[s].state = "CLAIMED" <=> row[s].holder # None)
  /\ ~Assessed(s) => row[s] = None /\ unavailable[s] = 0 /\ due[s] = {}

LEMMA TypeInit == Init => TypeOK
BY SomeAttempts DEF Init, TypeOK, Versions, Assessed

\* Rows and claims as claimRow leaves them.
LEMMA ClaimTypes ==
  ASSUME TypeOK, NEW w \in Lanes, NEW s \in Subjects, claimRow(w, s)
  PROVE  /\ row' \in [Subjects -> Rows \cup {None}]
         /\ claim' \in [Lanes -> Claims \cup {None}]
         /\ row'[s] # None
         /\ row'[s].state = "CLAIMED"
         /\ row'[s].holder = w
         /\ row'[s].cause = row[s].cause
         /\ \A t \in Subjects \ {s} : row'[t] = row[t]
         /\ claim'[w] # None
         /\ claim'[w] = [subject |-> s, result |-> None]
         /\ claim'[w].result = None
         /\ \A v \in Lanes \ {w} : claim'[v] = claim[v]
<1>1. row[s] \in Rows
  BY DEF claimRow, TypeOK
<1>2. OneMore(row[s].attempts) \in 0 .. MaxAttempts + 1
  BY <1>1, SomeAttempts DEF OneMore, Rows
<1>. DEFINE taken == [state |-> "CLAIMED", attempts |-> OneMore(row[s].attempts),
                      cause |-> row[s].cause, holder |-> w]
            held == [subject |-> s, result |-> None]
<1>3. taken \in Rows /\ held \in Claims
  BY <1>1, <1>2 DEF Rows, Claims
<1>4. taken # None /\ held # None
  BY <1>3, NoneIsNothing
<1>5. row' = [row EXCEPT ![s] = taken] /\ claim' = [claim EXCEPT ![w] = held]
  BY DEF claimRow
<1>6. taken.state = "CLAIMED" /\ taken.holder = w /\ taken.cause = row[s].cause
  OBVIOUS
<1>. HIDE DEF taken
<1>. QED  BY <1>3, <1>4, <1>5, <1>6 DEF TypeOK

LEMMA HeldFacts ==
  ASSUME TypeOK, NEW w \in Lanes, Held(w)
  PROVE  /\ claim[w] \in Claims
         /\ subject(w) \in Subjects
         /\ row[subject(w)] \in Rows
         /\ Assessed(subject(w))
         /\ latest[subject(w)] \in Assessments
BY DEF TypeOK, Held, subject, Claims, Assessed

LEMMA RequeueTypes ==
  ASSUME TypeOK, NEW w \in Lanes, Held(w), Requeue(subject(w))
  PROVE  /\ row' \in [Subjects -> Rows \cup {None}]
         /\ row'[subject(w)] # None
         /\ row'[subject(w)].state = "PENDING"
         /\ row'[subject(w)].holder = None
         /\ row'[subject(w)].cause = row[subject(w)].cause
         /\ \A t \in Subjects \ {subject(w)} : row'[t] = row[t]
<1>. DEFINE back == [state |-> "PENDING", attempts |-> row[subject(w)].attempts,
                     cause |-> row[subject(w)].cause, holder |-> None]
<1>1. back \in Rows
  BY HeldFacts DEF Rows
<1>2. back # None
  BY <1>1, NoneIsNothing
<1>. QED  BY <1>1, <1>2, HeldFacts DEF Requeue, TypeOK

LEMMA ReleaseTypes ==
  ASSUME TypeOK, NEW w \in Lanes, Release(w)
  PROVE  /\ claim' \in [Lanes -> Claims \cup {None}]
         /\ claim'[w] = None
         /\ \A v \in Lanes \ {w} : claim'[v] = claim[v]
BY DEF TypeOK, Release

LEMMA CompleteTypes ==
  ASSUME TypeOK, NEW w \in Lanes, completeOnce(w), NEW s \in Subjects, s = subject(w)
  PROVE  /\ claim[w].result \in Results
         /\ row' \in [Subjects -> Rows \cup {None}]
         /\ row'[s] = RowAfter(s, claim[w].result)
         /\ \A t \in Subjects \ {s} : row'[t] = row[t]
         /\ RowsFit(s)'
<1>. DEFINE after == RowAfter(s, claim[w].result)
<1>1. claim[w].result \in Results
  BY HeldFacts DEF completeOnce, Claims
<1>2. NextId(s) \in Nat \ {0} /\ latest'[s] # None
  BY <1>1, SupersedeFacts DEF completeOnce
<1>3. /\ NewRow(NextId(s)) \in Rows
      /\ NewRow(NextId(s)).state = "PENDING"
      /\ NewRow(NextId(s)).holder = None
  BY <1>2, NewRowType
<1>4. after \in Rows \cup {None} /\ (after # None => after.state = "PENDING" /\ after.holder = None)
  BY <1>3 DEF RowAfter
<1>5. row' = [row EXCEPT ![s] = after]
  BY DEF completeOnce
<1>. HIDE DEF after
<1>6. /\ row' \in [Subjects -> Rows \cup {None}]
      /\ row'[s] = after
      /\ \A t \in Subjects \ {s} : row'[t] = row[t]
  BY <1>4, <1>5 DEF TypeOK
<1>7. RowsFit(s)'
  BY <1>2, <1>4, <1>6 DEF RowsFit, Assessed
<1>. QED  BY <1>1, <1>6, <1>7 DEF after

LEMMA TypeStep == TypeOK /\ [Next]_vars => TypeOK'
<1>. SUFFICES ASSUME TypeOK, [Next]_vars PROVE TypeOK'
  OBVIOUS
<1>. USE DEF world
<1>1. ASSUME NEW I \in SUBSET Inputs, Change(I) PROVE TypeOK'
  <2>1. version' \in [Inputs -> Versions]
    BY <1>1, SomeAttempts DEF Change, TypeOK, Versions
  <2>2. ASSUME NEW s \in Subjects
        PROVE  row'[s] \in Rows \cup {None} /\ RowsFit(s)'
    <3>. DEFINE A == UNION {Readers(i, version[i] + 1) : i \in I}
    <3>1. row'[s] = IF s \in A /\ row[s] = None THEN NewRow(latest[s].id) ELSE row[s]
      BY <1>1 DEF Change
    <3>2. s \in A => Assessed(s)
      BY DEF Readers
    <3>3. Assessed(s) => latest[s].id \in Nat \ {0}
      BY DEF TypeOK, Assessed, Assessments
    <3>. HIDE DEF A
    <3>. QED
      BY <1>1, <3>1, <3>2, <3>3, NewRowType DEF Change, TypeOK, RowsFit, Assessed
  <2>3. row' = [s \in Subjects |-> row'[s]]
    BY <1>1 DEF Change
  <2>4. row' \in [Subjects -> Rows \cup {None}]
    BY <2>2, <2>3
  <2>. QED  BY <1>1, <2>1, <2>2, <2>4 DEF Change, TypeOK, RowsFit
<1>2. ASSUME Tick PROVE TypeOK'
  BY <1>2, SomeAttempts DEF Tick, TypeOK, Assessed
<1>3. ASSUME NEW s \in Subjects, SelectDue(s) PROVE TypeOK'
  BY <1>3 DEF SelectDue, TypeOK, Assessed, Assessments
<1>4. ASSUME NEW s \in Subjects, InsertDue(s) PROVE TypeOK'
  <2>1. PICK a \in due[s] :
          /\ row' = IF row[s] = None THEN [row EXCEPT ![s] = NewRow(a)] ELSE row
          /\ due' = [due EXCEPT ![s] = @ \ {a}]
    BY <1>4 DEF InsertDue
  <2>2. a \in Nat \ {0} /\ due' \in [Subjects -> SUBSET (Nat \ {0})]
    BY <2>1 DEF TypeOK
  <2>3. row' \in [Subjects -> Rows \cup {None}]
    BY <2>1, <2>2, NewRowType DEF TypeOK
  <2>4. ASSUME NEW t \in Subjects PROVE RowsFit(t)'
    BY <1>4, <2>1, <2>2, NewRowType DEF InsertDue, TypeOK, RowsFit, Assessed
  <2>. QED  BY <1>4, <2>2, <2>3, <2>4 DEF InsertDue, TypeOK, RowsFit
<1>5. ASSUME NEW s \in Subjects, EvaluateBaseline(s) PROVE TypeOK'
  <2>1. PICK r \in Captures : baseline' = [baseline EXCEPT ![s] = r]
    BY <1>5 DEF EvaluateBaseline
  <2>2. r \in Results
    BY CapturesAreResults
  <2>. QED  BY <1>5, <2>1, <2>2 DEF EvaluateBaseline, TypeOK, Assessed
<1>6. ASSUME NEW s \in Subjects, saveAssessment(s) PROVE TypeOK'
  <2>1. baseline[s] \in Results
    BY <1>6 DEF saveAssessment, TypeOK
  <2>2. /\ latest' \in [Subjects -> Assessments \cup {None}]
        /\ latest'[s] # None
        /\ \A t \in Subjects \ {s} : latest'[t] = latest[t]
    BY <1>6, <2>1, SupersedeFacts DEF saveAssessment
  <2>. QED  BY <1>6, <2>2 DEF saveAssessment, TypeOK, Assessed
<1>7. ASSUME NEW w \in Lanes, NEW s \in Subjects, claimRow(w, s) PROVE TypeOK'
  <2>1. ASSUME NEW t \in Subjects PROVE RowsFit(t)'
    BY <1>7, ClaimTypes, NoneIsNothing DEF claimRow, TypeOK, RowsFit, Assessed
  <2>. QED  BY <1>7, <2>1, ClaimTypes DEF claimRow, TypeOK, RowsFit
<1>8. ASSUME NEW w \in Lanes, Evaluate(w) PROVE TypeOK'
  <2>1. PICK r \in Captures : claim' = [claim EXCEPT ![w] = [subject |-> subject(w), result |-> r]]
    BY <1>8 DEF Evaluate
  <2>2. [subject |-> subject(w), result |-> r] \in Claims
    BY <1>8, CapturesAreResults DEF Evaluate, TypeOK, subject, Claims
  <2>. QED  BY <1>8, <2>1, <2>2 DEF Evaluate, TypeOK, Assessed
<1>9. ASSUME NEW w \in Lanes, completeOnce(w) PROVE TypeOK'
  <2>1. subject(w) \in Subjects /\ claim' \in [Lanes -> Claims \cup {None}]
    BY <1>9, HeldFacts, ReleaseTypes DEF completeOnce
  <2>2. /\ latest' \in [Subjects -> Assessments \cup {None}]
        /\ \A t \in Subjects \ {subject(w)} : latest'[t] = latest[t]
    BY <1>9, <2>1, CompleteTypes, SupersedeFacts DEF completeOnce
  <2>3. ASSUME NEW t \in Subjects PROVE RowsFit(t)'
    <3>1. CASE t = subject(w)
      BY <1>9, <3>1, CompleteTypes
    <3>2. CASE t # subject(w)
      <4>1. row'[t] = row[t] /\ UNCHANGED <<unavailable, due>>
        BY <1>9, <3>2, CompleteTypes DEF completeOnce
      <4>. QED  BY <2>2, <3>2, <4>1 DEF TypeOK, RowsFit, Assessed
    <3>. QED  BY <3>1, <3>2
  <2>. QED  BY <1>9, <2>1, <2>2, <2>3, CompleteTypes DEF completeOnce, TypeOK, RowsFit
<1>10. ASSUME NEW w \in Lanes, requeueAfterCompleteFailure(w) \/ fail(w) PROVE TypeOK'
  <2>1. Held(w) /\ Requeue(subject(w)) /\ Release(w) /\ UNCHANGED <<world, latest, unavailable, due, baseline>>
    BY <1>10 DEF requeueAfterCompleteFailure, fail
  <2>2. ASSUME NEW t \in Subjects PROVE RowsFit(t)'
    BY <2>1, RequeueTypes, HeldFacts DEF TypeOK, RowsFit, Assessed
  <2>. QED  BY <2>1, <2>2, RequeueTypes, ReleaseTypes DEF TypeOK, RowsFit
<1>11. ASSUME NEW w \in Lanes, failExhausted(w) PROVE TypeOK'
  BY <1>11, HeldFacts, ReleaseTypes DEF failExhausted, TypeOK, Assessed, Rows
<1>12. ASSUME NEW w \in Lanes, Fenced(w) \/ Abandon(w) PROVE TypeOK'
  BY <1>12, ReleaseTypes DEF Fenced, Abandon, TypeOK, Assessed
<1>13. CASE UNCHANGED vars
  BY <1>13 DEF TypeOK, vars, Assessed
<1>. QED
  BY <1>1, <1>2, <1>3, <1>4, <1>5, <1>6, <1>7, <1>8, <1>9, <1>10, <1>11, <1>12, <1>13
  DEF Next, Lane

\* Rows, claims and assessments have their types in every reachable state.
THEOREM TypeCorrect == Spec => []TypeOK
BY TypeInit, TypeStep, PTL DEF Spec

-----------------------------------------------------------------------------
(* The inductive invariant *)

Past(read, v) == \A i \in DOMAIN read : read[i] <= v[i]

\* Nothing read a version that is still to come.
ReadsArePast ==
  /\ \A s \in Subjects : Assessed(s) => Past(latest[s].read, version)
  /\ \A s \in Subjects : baseline[s] # None => Past(baseline[s].read, version)
  /\ \A w \in Lanes : claim[w] # None /\ claim[w].result # None => Past(claim[w].result.read, version)

NotOlder(new, old) == \A i \in DOMAIN old \cap DOMAIN new : new[i] >= old[i]

\* While a lane holds the row of its subject, nobody stores an assessment of
\* that subject, so its result is not older than the latest one.
LaneReadLater ==
  \A w \in Lanes :
    Held(w) /\ claim[w].result # None =>
      NotOlder(claim[w].result.read, latest[subject(w)].read)

\* Work raised against the latest assessment exists because it was not, and
\* will not be, verified; all other work is older.
Obsolete(c, s) == c <= latest[s].id /\ (c = latest[s].id => ~Verified(s))

NothingHides ==
  \A s \in Subjects :
    Assessed(s) =>
      /\ row[s] # None => Obsolete(row[s].cause, s)
      /\ Obsolete(unavailable[s], s)
      /\ \A a \in due[s] : Obsolete(a, s)

\* A baseline is saved only as a first assessment.
BaselineIsFirst == \A s \in Subjects : baseline[s] # None => ~Assessed(s)

IInv ==
  TypeOK /\ ReadsArePast /\ LaneReadLater /\ NothingHides /\ BaselineIsFirst /\ StaleHasWork

-----------------------------------------------------------------------------
(* What a step may do *)

LEMMA TimePasses ==
  ASSUME TypeOK, [Next]_vars
  PROVE  /\ clock \in Nat /\ clock' \in Nat /\ clock' >= clock
         /\ \A i \in Inputs : version[i] \in Nat /\ version'[i] \in Nat /\ version'[i] >= version[i]
<1>0. clock \in Nat /\ \A i \in Inputs : version[i] \in Nat
  BY SomeAttempts DEF TypeOK, Versions
<1>1. ASSUME NEW I \in SUBSET Inputs, Change(I)
      PROVE  /\ clock' = clock
             /\ \A i \in Inputs : version'[i] \in Nat /\ version'[i] >= version[i]
  BY <1>0, <1>1 DEF Change
<1>2. CASE Tick
  BY <1>0, <1>2 DEF Tick
<1>3. CASE UNCHANGED world
  BY <1>0, <1>3 DEF world
<1>4. ASSUME NEW s \in Subjects, SelectDue(s) \/ InsertDue(s) \/ EvaluateBaseline(s) \/ saveAssessment(s)
      PROVE  UNCHANGED world
  BY <1>4 DEF SelectDue, InsertDue, EvaluateBaseline, saveAssessment
<1>5. ASSUME NEW w \in Lanes, Lane(w) PROVE UNCHANGED world
  BY <1>5 DEF Lane, claimRow, Evaluate, completeOnce, requeueAfterCompleteFailure,
              fail, failExhausted, Fenced, Abandon
<1>. QED  BY <1>0, <1>1, <1>2, <1>3, <1>4, <1>5 DEF Next, vars, world

\* The assessment of a subject changes when a lane completes it, or as the
\* baseline is saved.
LEMMA LatestKinds ==
  ASSUME TypeOK, [Next]_vars, NEW s \in Subjects
  PROVE  \/ latest'[s] = latest[s]
         \/ \E w \in Lanes : completeOnce(w) /\ s = subject(w)
         \/ saveAssessment(s)
<1>1. ASSUME NEW t \in Subjects, saveAssessment(t) PROVE t = s \/ latest'[s] = latest[s]
  BY <1>1 DEF saveAssessment, Supersede, TypeOK
<1>2. ASSUME NEW w \in Lanes, completeOnce(w) PROVE s = subject(w) \/ latest'[s] = latest[s]
  BY <1>2 DEF completeOnce, Supersede, TypeOK
<1>3. ASSUME NEW t \in Subjects, SelectDue(t) \/ InsertDue(t) \/ EvaluateBaseline(t)
      PROVE  latest' = latest
  BY <1>3 DEF SelectDue, InsertDue, EvaluateBaseline
<1>4. ASSUME NEW w \in Lanes, Lane(w), ~completeOnce(w) PROVE latest' = latest
  BY <1>4 DEF Lane, claimRow, Evaluate, requeueAfterCompleteFailure,
              fail, failExhausted, Fenced, Abandon
<1>5. ASSUME NEW I \in SUBSET Inputs, Change(I) PROVE latest' = latest
  BY <1>5 DEF Change
<1>6. CASE Tick \/ UNCHANGED vars
  BY <1>6 DEF Tick, vars
<1>. QED  BY <1>1, <1>2, <1>3, <1>4, <1>5, <1>6 DEF Next

\* A baseline that is saved is the first assessment.
LEMMA SavedIsFirst ==
  ASSUME TypeOK, BaselineIsFirst, NEW s \in Subjects, saveAssessment(s)
  PROVE  /\ ~Assessed(s)
         /\ baseline[s] \in Results
         /\ latest'[s].id = 1 /\ latest'[s].read = baseline[s].read
<1>1. ~Assessed(s) /\ baseline[s] \in Results
  BY DEF BaselineIsFirst, saveAssessment, TypeOK
<1>2. NextId(s) = 1
  BY <1>1 DEF NextId
<1>3. latest'[s] = [id |-> NextId(s), read |-> baseline[s].read, expires |-> baseline[s].expires]
  BY <1>1, SupersedeFacts DEF saveAssessment
<1>. QED  BY <1>1, <1>2, <1>3

LEMMA CompletedFacts ==
  ASSUME TypeOK, NEW w \in Lanes, completeOnce(w), NEW s \in Subjects, s = subject(w)
  PROVE  /\ Assessed(s) /\ latest[s] \in Assessments
         /\ claim[w].result \in Results
         /\ latest'[s].id = latest[s].id + 1
         /\ latest'[s].read = claim[w].result.read
         /\ row'[s] = RowAfter(s, claim[w].result)
         /\ NextId(s) = latest[s].id + 1
         /\ UNCHANGED <<version, clock, unavailable, due>>
<1>1. Assessed(s) /\ latest[s] \in Assessments
  BY HeldFacts DEF completeOnce
<1>2. Supersede(s, claim[w].result) /\ UNCHANGED <<version, clock, unavailable, due>>
  BY DEF completeOnce, world
<1>3. NextId(s) = latest[s].id + 1
  BY <1>1 DEF NextId
<1>4. claim[w].result \in Results /\ row'[s] = RowAfter(s, claim[w].result)
  BY CompleteTypes
<1>5. latest'[s] = [id |-> NextId(s), read |-> claim[w].result.read,
                    expires |-> claim[w].result.expires]
  BY <1>2, <1>4, SupersedeFacts
<1>. QED  BY <1>1, <1>2, <1>3, <1>4, <1>5

-----------------------------------------------------------------------------
(* Preservation *)

LEMMA PastStays ==
  ASSUME TypeOK, [Next]_vars, NEW read \in Reads, Past(read, version)
  PROVE  Past(read, version')
<1>1. DOMAIN read \subseteq Inputs /\ \A i \in DOMAIN read : read[i] \in Nat
  BY ReadFacts
<1>2. ASSUME NEW i \in DOMAIN read PROVE read[i] <= version'[i]
  BY <1>1, TimePasses DEF Past
<1>. QED  BY <1>2 DEF Past

LEMMA CapturesArePast ==
  ASSUME TypeOK, [Next]_vars, NEW r \in Captures
  PROVE  Past(r.read, version')
<1>1. r \in Results /\ DOMAIN r.read \subseteq Inputs /\ \A i \in DOMAIN r.read : r.read[i] = version[i]
  BY CapturesAreResults
<1>2. ASSUME NEW i \in DOMAIN r.read PROVE r.read[i] <= version[i]
  BY <1>1, TimePasses
<1>. QED  BY <1>1, <1>2, PastStays DEF Past, Results

\* The result that a lane holds is an old one, or captured in this step.
LEMMA ResultKinds ==
  ASSUME TypeOK, [Next]_vars, NEW w \in Lanes, claim'[w] # None, claim'[w].result # None
  PROVE  \/ claim'[w] = claim[w]
         \/ /\ Evaluate(w)
            /\ claim[w] \in Claims
            /\ \E r \in Captures : claim'[w] = [subject |-> subject(w), result |-> r]
<1>1. ASSUME NEW v \in Lanes, NEW s \in Subjects, claimRow(v, s) PROVE claim'[w] = claim[w]
  <2>1. claim'[v].result = None /\ \A u \in Lanes \ {v} : claim'[u] = claim[u]
    BY <1>1, ClaimTypes
  <2>. QED  BY <2>1
<1>2. ASSUME NEW v \in Lanes, Evaluate(v)
      PROVE  \/ claim'[w] = claim[w]
             \/ v = w /\ \E r \in Captures : claim'[w] = [subject |-> subject(w), result |-> r]
  <2>1. PICK r \in Captures : claim' = [claim EXCEPT ![v] = [subject |-> subject(v), result |-> r]]
    BY <1>2 DEF Evaluate
  <2>. QED  BY <2>1 DEF TypeOK
<1>3. ASSUME NEW v \in Lanes, Release(v) PROVE claim'[w] = claim[w]
  BY <1>3 DEF Release, TypeOK
<1>4. ASSUME NEW v \in Lanes, Lane(v)
      PROVE  (\E s \in Subjects : claimRow(v, s)) \/ Evaluate(v) \/ Release(v)
  BY <1>4 DEF Lane, completeOnce, requeueAfterCompleteFailure, fail, failExhausted, Fenced, Abandon
<1>5. ASSUME NEW s \in Subjects, SelectDue(s) \/ InsertDue(s) \/ EvaluateBaseline(s) \/ saveAssessment(s)
      PROVE  claim' = claim
  BY <1>5 DEF SelectDue, InsertDue, EvaluateBaseline, saveAssessment
<1>6. ASSUME NEW I \in SUBSET Inputs, Change(I) PROVE claim' = claim
  BY <1>6 DEF Change
<1>7. CASE Tick \/ UNCHANGED vars
  BY <1>7 DEF Tick, vars
<1>8. Evaluate(w) => claim[w] \in Claims
  BY DEF Evaluate, TypeOK
<1>. QED  BY <1>1, <1>2, <1>3, <1>4, <1>5, <1>6, <1>7, <1>8 DEF Next

LEMMA ResultTypes ==
  ASSUME TypeOK, NEW w \in Lanes, claim[w] # None, claim[w].result # None
  PROVE  claim[w].result \in Results /\ claim[w].result.read \in Reads
BY DEF TypeOK, Claims, Results

LEMMA BaselineKinds ==
  ASSUME TypeOK, [Next]_vars, NEW s \in Subjects, baseline'[s] # None
  PROVE  \/ baseline'[s] = baseline[s]
         \/ ~Assessed(s) /\ baseline'[s] \in Captures /\ latest'[s] = latest[s]
<1>1. ASSUME NEW t \in Subjects, EvaluateBaseline(t)
      PROVE  \/ baseline'[s] = baseline[s]
             \/ ~Assessed(s) /\ baseline'[s] \in Captures /\ latest'[s] = latest[s]
  BY <1>1 DEF EvaluateBaseline, TypeOK
<1>2. ASSUME NEW t \in Subjects, saveAssessment(t) PROVE baseline'[s] = baseline[s]
  BY <1>2 DEF saveAssessment, TypeOK
<1>3. ASSUME NEW t \in Subjects, SelectDue(t) \/ InsertDue(t) PROVE baseline' = baseline
  BY <1>3 DEF SelectDue, InsertDue
<1>4. ASSUME NEW w \in Lanes, Lane(w) PROVE baseline' = baseline
  BY <1>4 DEF Lane, claimRow, Evaluate, completeOnce, requeueAfterCompleteFailure,
              fail, failExhausted, Fenced, Abandon
<1>5. ASSUME NEW I \in SUBSET Inputs, Change(I) PROVE baseline' = baseline
  BY <1>5 DEF Change
<1>6. CASE Tick \/ UNCHANGED vars
  BY <1>6 DEF Tick, vars
<1>. QED  BY <1>1, <1>2, <1>3, <1>4, <1>5, <1>6 DEF Next

LEMMA ReadsArePastStep ==
  ASSUME TypeOK, ReadsArePast, BaselineIsFirst, [Next]_vars
  PROVE  ReadsArePast'
<1>1. ASSUME NEW w \in Lanes, claim'[w] # None, claim'[w].result # None
      PROVE  Past(claim'[w].result.read, version')
  <2>1. CASE claim'[w] = claim[w]
    <3>1. Past(claim[w].result.read, version) /\ claim[w].result.read \in Reads
      BY <1>1, <2>1, ResultTypes DEF ReadsArePast
    <3>2. ASSUME NEW read \in Reads, Past(read, version) PROVE Past(read, version')
      BY <3>2, PastStays
    <3>. QED  BY <2>1, <3>1, <3>2 DEF Past
  <2>2. ASSUME NEW r \in Captures, claim'[w] = [subject |-> subject(w), result |-> r]
        PROVE  Past(claim'[w].result.read, version')
    BY <2>2, CapturesArePast DEF Past
  <2>. QED  BY <1>1, <2>1, <2>2, ResultKinds
<1>2. ASSUME NEW s \in Subjects, baseline'[s] # None PROVE Past(baseline'[s].read, version')
  <2>1. CASE baseline'[s] = baseline[s]
    <3>1. Past(baseline[s].read, version) /\ baseline[s].read \in Reads
      BY <1>2, <2>1 DEF ReadsArePast, TypeOK, Results
    <3>2. ASSUME NEW read \in Reads, Past(read, version) PROVE Past(read, version')
      BY <3>2, PastStays
    <3>. QED  BY <2>1, <3>1, <3>2 DEF Past
  <2>2. CASE baseline'[s] \in Captures
    <3>1. ASSUME NEW r \in Captures PROVE Past(r.read, version')
      BY CapturesArePast
    <3>. QED  BY <2>2, <3>1 DEF Past
  <2>. QED  BY <1>2, <2>1, <2>2, BaselineKinds
<1>3. ASSUME NEW s \in Subjects, Assessed(s)' PROVE Past(latest'[s].read, version')
  <2>0. ASSUME NEW read \in Reads, Past(read, version) PROVE Past(read, version')
    BY <2>0, PastStays
  <2>1. CASE latest'[s] = latest[s]
    <3>1. Past(latest[s].read, version) /\ latest[s].read \in Reads
      BY <1>3, <2>1 DEF ReadsArePast, TypeOK, Assessed, Assessments
    <3>. QED  BY <2>0, <2>1, <3>1 DEF Past
  <2>2. ASSUME NEW w \in Lanes, completeOnce(w), s = subject(w)
        PROVE  Past(latest'[s].read, version')
    <3>1. latest'[s].read = claim[w].result.read
      BY <2>2, CompletedFacts
    <3>2. claim[w] # None /\ claim[w].result # None
      BY <2>2 DEF completeOnce, Held
    <3>3. Past(claim[w].result.read, version) /\ claim[w].result.read \in Reads
      BY <3>2, ResultTypes DEF ReadsArePast
    <3>. QED  BY <2>0, <3>1, <3>3 DEF Past
  <2>3. CASE saveAssessment(s)
    <3>1. latest'[s].read = baseline[s].read /\ baseline[s].read \in Reads
      BY <2>3, SavedIsFirst DEF Results
    <3>2. Past(baseline[s].read, version)
      BY <2>3 DEF ReadsArePast, saveAssessment
    <3>. QED  BY <2>0, <3>1, <3>2 DEF Past
  <2>. QED  BY <2>1, <2>2, <2>3, LatestKinds
<1>. QED  BY <1>1, <1>2, <1>3 DEF ReadsArePast, Past

LEMMA BaselineIsFirstStep ==
  ASSUME TypeOK, BaselineIsFirst, [Next]_vars
  PROVE  BaselineIsFirst'
<1>. SUFFICES ASSUME NEW s \in Subjects, baseline'[s] # None PROVE ~Assessed(s)'
  BY DEF BaselineIsFirst
<1>1. ASSUME NEW w \in Lanes, completeOnce(w), s = subject(w) PROVE ~Assessed(s)'
  BY <1>1, HeldFacts DEF completeOnce, BaselineIsFirst
<1>2. ~saveAssessment(s)
  BY DEF saveAssessment, TypeOK
<1>. QED  BY <1>1, <1>2, BaselineKinds, LatestKinds DEF BaselineIsFirst, Assessed

\* A lane keeps its row unless another claims it; nobody gets one but by a claim.
LEMMA HeldKinds ==
  ASSUME TypeOK, [Next]_vars, NEW w \in Lanes, Held(w)', claim'[w].result # None
  PROVE  Held(w) /\ claim'[w].subject = subject(w)
<1>0. /\ claim'[w] # None
      /\ row'[claim'[w].subject] # None
      /\ row'[claim'[w].subject].state = "CLAIMED"
      /\ row'[claim'[w].subject].holder = w
  BY DEF Held, subject
<1>1. claim'[w].subject = subject(w) /\ claim[w] # None /\ subject(w) \in Subjects
  <2>1. CASE claim'[w] = claim[w]
    BY <1>0, <2>1 DEF TypeOK, Claims, subject
  <2>2. ASSUME NEW r, claim'[w] = [subject |-> subject(w), result |-> r], Evaluate(w)
        PROVE  claim'[w].subject = subject(w) /\ claim[w] # None
    BY <2>2 DEF Evaluate
  <2>3. claim[w] # None => subject(w) \in Subjects
    BY DEF TypeOK, Claims, subject
  <2>. QED  BY <1>0, <2>1, <2>2, <2>3, ResultKinds
<1>. DEFINE s == subject(w)
<1>2. CASE row'[s] = row[s]
  BY <1>0, <1>1, <1>2 DEF Held
<1>. HIDE DEF s
<1>3. row'[s].holder = w /\ row'[s].state = "CLAIMED" /\ row'[s] # None /\ s \in Subjects
  BY <1>0, <1>1 DEF s
<1>4. ASSUME NEW v \in Lanes, NEW u \in Subjects, claimRow(v, u) PROVE row'[s] = row[s]
  <2>1. CASE u = s
    <3>1. v = w /\ claim'[v].result = None
      BY <1>3, <1>4, <2>1, ClaimTypes
    <3>. QED  BY <3>1
  <2>. QED  BY <1>3, <1>4, <2>1, ClaimTypes
<1>5. ASSUME NEW v \in Lanes, completeOnce(v) PROVE row'[s] = row[s]
  <2>1. CASE s = subject(v)
    <3>1. s \in Subjects /\ claim[v].result \in Results
      BY <1>3, <1>5, CompletedFacts, <2>1
    <3>2. row'[s] = RowAfter(s, claim[v].result) /\ NextId(s) \in Nat \ {0}
      BY <1>5, <2>1, <3>1, CompletedFacts, SupersedeFacts DEF completeOnce
    <3>. QED  BY <1>3, <3>2, NewRowType DEF RowAfter
  <2>2. CASE s # subject(v)
    BY <1>3, <1>5, <2>2, HeldFacts, CompleteTypes DEF completeOnce
  <2>. QED  BY <2>1, <2>2
<1>6. ASSUME NEW v \in Lanes, requeueAfterCompleteFailure(v) \/ fail(v) PROVE row'[s] = row[s]
  <2>1. Held(v) /\ Requeue(subject(v))
    BY <1>6 DEF requeueAfterCompleteFailure, fail
  <2>. QED  BY <1>3, <2>1, RequeueTypes
<1>7. ASSUME NEW v \in Lanes, failExhausted(v) PROVE row'[s] = row[s]
  BY <1>3, <1>7, HeldFacts DEF failExhausted, TypeOK
<1>8. ASSUME NEW v \in Lanes, Evaluate(v) \/ Fenced(v) \/ Abandon(v) PROVE row'[s] = row[s]
  BY <1>8 DEF Evaluate, Fenced, Abandon
<1>9. ASSUME NEW I \in SUBSET Inputs, Change(I) PROVE row'[s] = row[s]
  <2>1. row'[s] = row[s] \/ (row[s] = None /\ row'[s] = NewRow(latest[s].id))
    BY <1>3, <1>9 DEF Change
  <2>. QED  BY <1>3, <2>1 DEF NewRow
<1>10. ASSUME NEW u \in Subjects, InsertDue(u) PROVE row'[s] = row[s]
  <2>1. row'[s] = row[s] \/ \E a \in due[u] : row'[s] = NewRow(a)
    BY <1>3, <1>10 DEF InsertDue, TypeOK
  <2>2. \A a : NewRow(a).state = "PENDING"
    BY DEF NewRow
  <2>. QED  BY <1>3, <2>1, <2>2
<1>11. ASSUME NEW u \in Subjects, SelectDue(u) \/ EvaluateBaseline(u) \/ saveAssessment(u)
       PROVE  row'[s] = row[s]
  BY <1>11 DEF SelectDue, EvaluateBaseline, saveAssessment
<1>12. ASSUME Tick \/ UNCHANGED vars PROVE row'[s] = row[s]
  BY <1>12 DEF Tick, vars
<1>13. row'[s] = row[s]
  BY <1>4, <1>5, <1>6, <1>7, <1>8, <1>9, <1>10, <1>11, <1>12 DEF Next, Lane
<1>. QED  BY <1>2, <1>13 DEF s

LEMMA LaneReadLaterStep ==
  ASSUME TypeOK, ReadsArePast, LaneReadLater, BaselineIsFirst, [Next]_vars
  PROVE  LaneReadLater'
<1>. SUFFICES ASSUME NEW w \in Lanes, Held(w)', claim'[w].result # None
             PROVE  NotOlder(claim'[w].result.read, latest'[claim'[w].subject].read)
  BY DEF LaneReadLater, NotOlder, subject
<1>. DEFINE s == subject(w)
<1>1. Held(w) /\ claim'[w].subject = s /\ claim'[w] # None
  BY HeldKinds DEF Held
<1>2. s \in Subjects /\ Assessed(s) /\ latest[s] \in Assessments
  BY <1>1, HeldFacts
<1>. HIDE DEF s
<1>3. latest'[s] = latest[s]
  <2>1. ASSUME NEW v \in Lanes, completeOnce(v), s = subject(v) PROVE FALSE
    <3>1. v = w
      BY <1>1, <2>1 DEF completeOnce, Held, s
    <3>2. claim'[w] = None
      BY <2>1, <3>1, ReleaseTypes DEF completeOnce
    <3>. QED  BY <1>1, <3>2
  <2>2. ~saveAssessment(s)
    BY <1>2 DEF BaselineIsFirst, saveAssessment
  <2>. QED  BY <1>2, <2>1, <2>2, LatestKinds
<1>4. CASE claim'[w] = claim[w]
  BY <1>1, <1>3, <1>4 DEF LaneReadLater, s
<1>5. ASSUME NEW r \in Captures, claim'[w] = [subject |-> s, result |-> r]
      PROVE  NotOlder(claim'[w].result.read, latest'[s].read)
  <2>1. \A i \in DOMAIN r.read : i \in Inputs /\ r.read[i] = version[i]
    BY CapturesAreResults
  <2>2. Past(latest[s].read, version) /\ latest[s].read \in Reads
    BY <1>2 DEF ReadsArePast, Assessments
  <2>3. \A i \in DOMAIN latest[s].read : latest[s].read[i] \in Nat
    BY <2>2, ReadFacts
  <2>. QED  BY <1>3, <1>5, <2>1, <2>2, <2>3, TimePasses DEF NotOlder, Past
<1>. QED  BY <1>1, <1>4, <1>5, ResultKinds DEF s

\* What became unverified stays so, as long as it is the latest assessment.
LEMMA UnverifiedStays ==
  ASSUME TypeOK, ReadsArePast, [Next]_vars, NEW s \in Subjects, Assessed(s),
         latest'[s] = latest[s], ~Verified(s)
  PROVE  ~Verified(s)'
<1>1. latest[s] \in Assessments /\ Past(latest[s].read, version)
  BY DEF TypeOK, Assessed, ReadsArePast
<1>2. CASE Expired(latest[s])
  <2>1. latest[s].expires \in Nat
    BY <1>1, SomeAttempts DEF Assessments
  <2>. QED  BY <1>2, <2>1, TimePasses DEF Expired, Verified
<1>3. CASE ~InputsCurrent(latest[s])
  <2>1. PICK i \in DOMAIN latest[s].read : latest[s].read[i] # version[i]
    BY <1>3 DEF InputsCurrent
  <2>2. i \in Inputs /\ latest[s].read[i] \in Nat
    BY <1>1, <2>1, ReadFacts DEF Assessments
  <2>3. latest[s].read[i] < version'[i]
    BY <1>1, <2>1, <2>2, TimePasses DEF Past
  <2>. QED  BY <2>1, <2>2, <2>3 DEF Verified, InputsCurrent
<1>. QED  BY <1>2, <1>3 DEF Verified

LEMMA ObsoleteStays ==
  ASSUME TypeOK, ReadsArePast, [Next]_vars, NEW s \in Subjects, Assessed(s),
         latest'[s] = latest[s], NEW c \in Nat, Obsolete(c, s)
  PROVE  Obsolete(c, s)'
BY UnverifiedStays DEF Obsolete

\* Where the rows of a subject come from while its assessment stays.
LEMMA RowKinds ==
  ASSUME TypeOK, [Next]_vars, NEW s \in Subjects, latest'[s] = latest[s], row'[s] # None
  PROVE  \/ row[s] # None /\ row'[s].cause = row[s].cause
         \/ row[s] = None /\ row'[s].cause \in due[s]
         \/ Assessed(s) /\ row'[s].cause = latest[s].id /\ ~Verified(s)'
<1>0. CASE row'[s] = row[s]
  BY <1>0
<1>1. ASSUME NEW I \in SUBSET Inputs, Change(I), row'[s] # row[s]
      PROVE  Assessed(s) /\ row'[s].cause = latest[s].id /\ ~Verified(s)'
  <2>1. s \in UNION {Readers(i, version[i] + 1) : i \in I} /\ row'[s] = NewRow(latest[s].id)
    BY <1>1 DEF Change
  <2>2. PICK i \in I : s \in Readers(i, version[i] + 1)
    BY <2>1
  <2>3. version'[i] = version[i] + 1
    BY <1>1, <2>2 DEF Change
  <2>. QED  BY <2>1, <2>2, <2>3 DEF Readers, NewRow, Verified, InputsCurrent
<1>2. ASSUME NEW t \in Subjects, InsertDue(t), row'[s] # row[s]
      PROVE  row[s] = None /\ row'[s].cause \in due[s]
  BY <1>2 DEF InsertDue, TypeOK, NewRow
<1>3. ASSUME NEW w \in Lanes, NEW t \in Subjects, claimRow(w, t), row'[s] # row[s]
      PROVE  row[s] # None /\ row'[s].cause = row[s].cause
  BY <1>3, ClaimTypes DEF claimRow
<1>4. ASSUME NEW w \in Lanes, completeOnce(w) PROVE row'[s] = row[s]
  <2>1. CASE s = subject(w)
    <3>1. latest'[s].id = latest[s].id + 1 /\ latest[s] \in Assessments
      BY <1>4, <2>1, CompletedFacts
    <3>. QED  BY <3>1 DEF Assessments
  <2>. QED  BY <1>4, <2>1, HeldFacts, CompleteTypes DEF completeOnce
<1>5. ASSUME NEW w \in Lanes, requeueAfterCompleteFailure(w) \/ fail(w), row'[s] # row[s]
      PROVE  row[s] # None /\ row'[s].cause = row[s].cause
  <2>1. Held(w) /\ Requeue(subject(w))
    BY <1>5 DEF requeueAfterCompleteFailure, fail
  <2>. QED  BY <1>5, <2>1, RequeueTypes DEF Held
<1>6. ASSUME NEW w \in Lanes, failExhausted(w) PROVE row'[s] = row[s]
  BY <1>6, HeldFacts DEF failExhausted, TypeOK
<1>7. ASSUME NEW w \in Lanes, Evaluate(w) \/ Fenced(w) \/ Abandon(w) PROVE row'[s] = row[s]
  BY <1>7 DEF Evaluate, Fenced, Abandon
<1>8. ASSUME NEW t \in Subjects, SelectDue(t) \/ EvaluateBaseline(t) \/ saveAssessment(t)
      PROVE  row'[s] = row[s]
  BY <1>8 DEF SelectDue, EvaluateBaseline, saveAssessment
<1>9. ASSUME Tick \/ UNCHANGED vars PROVE row'[s] = row[s]
  BY <1>9 DEF Tick, vars
<1>. QED
  BY <1>0, <1>1, <1>2, <1>3, <1>4, <1>5, <1>6, <1>7, <1>8, <1>9 DEF Next, Lane

LEMMA UnavailableKinds ==
  ASSUME TypeOK, [Next]_vars, NEW s \in Subjects
  PROVE  \/ unavailable'[s] = unavailable[s]
         \/ /\ row[s] # None /\ unavailable'[s] = row[s].cause
            /\ latest'[s] = latest[s]
<1>1. ASSUME NEW w \in Lanes, failExhausted(w), unavailable'[s] # unavailable[s]
      PROVE  row[s] # None /\ unavailable'[s] = row[s].cause /\ latest'[s] = latest[s]
  BY <1>1, HeldFacts DEF failExhausted, TypeOK, Held
<1>2. ASSUME NEW w \in Lanes, Lane(w), ~failExhausted(w) PROVE unavailable' = unavailable
  BY <1>2 DEF Lane, claimRow, Evaluate, completeOnce, requeueAfterCompleteFailure,
              fail, Fenced, Abandon
<1>3. ASSUME NEW t \in Subjects, SelectDue(t) \/ InsertDue(t) \/ EvaluateBaseline(t) \/ saveAssessment(t)
      PROVE  unavailable' = unavailable
  BY <1>3 DEF SelectDue, InsertDue, EvaluateBaseline, saveAssessment
<1>4. ASSUME NEW I \in SUBSET Inputs, Change(I) PROVE unavailable' = unavailable
  BY <1>4 DEF Change
<1>5. CASE Tick \/ UNCHANGED vars
  BY <1>5 DEF Tick, vars
<1>. QED  BY <1>1, <1>2, <1>3, <1>4, <1>5 DEF Next

LEMMA DueKinds ==
  ASSUME TypeOK, [Next]_vars, NEW s \in Subjects
  PROVE  \/ due'[s] \subseteq due[s]
         \/ /\ Assessed(s) /\ due'[s] = due[s] \cup {latest[s].id}
            /\ latest'[s] = latest[s] /\ ~Verified(s)'
<1>1. ASSUME NEW t \in Subjects, SelectDue(t), due'[s] # due[s]
      PROVE  /\ Assessed(s) /\ due'[s] = due[s] \cup {latest[s].id}
             /\ latest'[s] = latest[s] /\ ~Verified(s)'
  BY <1>1 DEF SelectDue, TypeOK, world, Verified, Expired
<1>2. ASSUME NEW t \in Subjects, InsertDue(t) PROVE due'[s] \subseteq due[s]
  BY <1>2 DEF InsertDue, TypeOK
<1>3. ASSUME NEW t \in Subjects, EvaluateBaseline(t) \/ saveAssessment(t) PROVE due' = due
  BY <1>3 DEF EvaluateBaseline, saveAssessment
<1>4. ASSUME NEW w \in Lanes, Lane(w) PROVE due' = due
  BY <1>4 DEF Lane, claimRow, Evaluate, completeOnce, requeueAfterCompleteFailure,
              fail, failExhausted, Fenced, Abandon
<1>5. ASSUME NEW I \in SUBSET Inputs, Change(I) PROVE due' = due
  BY <1>5 DEF Change
<1>6. CASE Tick \/ UNCHANGED vars
  BY <1>6 DEF Tick, vars
<1>. QED  BY <1>1, <1>2, <1>3, <1>4, <1>5, <1>6 DEF Next

\* A result that is stored leaves no row, or one raised because it is stale.
LEMMA CompletedRow ==
  ASSUME TypeOK, NEW w \in Lanes, completeOnce(w), NEW s \in Subjects, s = subject(w)
  PROVE  \/ row'[s] = None /\ InputsCurrent(latest[s])'
         \/ /\ row'[s] # None /\ row'[s].cause = latest'[s].id
            /\ ~InputsCurrent(latest[s])'
<1>1. /\ latest'[s].id = NextId(s) /\ NextId(s) \in Nat \ {0}
      /\ latest'[s].read = claim[w].result.read
      /\ row'[s] = RowAfter(s, claim[w].result)
      /\ version' = version
  BY CompletedFacts DEF Assessments
<1>2. InputsCurrent(latest[s])' <=> InputsCurrent(claim[w].result)
  BY <1>1 DEF InputsCurrent
<1>. QED  BY <1>1, <1>2, NewRowType DEF RowAfter

LEMMA NothingHidesStep ==
  ASSUME TypeOK, TypeOK', ReadsArePast, BaselineIsFirst, NothingHides, [Next]_vars
  PROVE  NothingHides'
<1>. SUFFICES ASSUME NEW s \in Subjects, Assessed(s)'
             PROVE  /\ row'[s] # None => Obsolete(row[s].cause, s)'
                    /\ Obsolete(unavailable[s], s)'
                    /\ \A a \in due'[s] : Obsolete(a, s)'
  BY DEF NothingHides
<1>1. CASE Assessed(s) /\ latest'[s] = latest[s]
  <2>1. /\ row[s] # None => Obsolete(row[s].cause, s) /\ row[s].cause \in Nat
        /\ Obsolete(unavailable[s], s) /\ unavailable[s] \in Nat
        /\ \A a \in due[s] : Obsolete(a, s) /\ a \in Nat
        /\ latest[s].id \in Nat \ {0}
    BY <1>1 DEF NothingHides, TypeOK, Rows, Assessed, Assessments
  <2>2. ASSUME NEW c \in Nat, Obsolete(c, s)
        PROVE  c <= latest'[s].id /\ (c = latest'[s].id => ~Verified(s)')
    BY <1>1, <2>2, ObsoleteStays DEF Obsolete
  <2>3. row'[s] # None => Obsolete(row[s].cause, s)'
    BY <1>1, <2>1, <2>2, RowKinds DEF Obsolete
  <2>4. Obsolete(unavailable[s], s)'
    BY <2>1, <2>2, UnavailableKinds DEF Obsolete
  <2>5. \A a \in due'[s] : Obsolete(a, s)'
    BY <1>1, <2>1, <2>2, DueKinds DEF Obsolete
  <2>. QED  BY <2>3, <2>4, <2>5
<1>2. ASSUME NEW w \in Lanes, completeOnce(w), s = subject(w)
      PROVE  /\ row'[s] # None => Obsolete(row[s].cause, s)'
             /\ Obsolete(unavailable[s], s)'
             /\ \A a \in due'[s] : Obsolete(a, s)'
  <2>1. /\ Assessed(s) /\ latest[s].id \in Nat /\ latest'[s].id = latest[s].id + 1
        /\ unavailable' = unavailable /\ due' = due
    BY <1>2, CompletedFacts DEF Assessments
  <2>2. /\ unavailable[s] \in Nat /\ unavailable[s] <= latest[s].id
        /\ \A a \in due[s] : a \in Nat /\ a <= latest[s].id
    BY <2>1 DEF NothingHides, Obsolete, TypeOK
  <2>3. row'[s] # None => row'[s].cause = latest'[s].id /\ ~Verified(s)'
    BY <1>2, CompletedRow DEF Verified
  <2>. QED  BY <2>1, <2>2, <2>3 DEF Obsolete
<1>3. ASSUME saveAssessment(s)
      PROVE  /\ row'[s] # None => Obsolete(row[s].cause, s)'
             /\ Obsolete(unavailable[s], s)'
             /\ \A a \in due'[s] : Obsolete(a, s)'
  <2>1. ~Assessed(s) /\ latest'[s].id = 1
    BY <1>3, SavedIsFirst
  <2>2. row'[s] = None /\ unavailable'[s] = 0 /\ due'[s] = {}
    BY <1>3, <2>1 DEF saveAssessment, TypeOK
  <2>. QED  BY <2>1, <2>2 DEF Obsolete
<1>. QED  BY <1>1, <1>2, <1>3, LatestKinds DEF Assessed

\* Work does not vanish while the assessment stays.
LEMMA OpenWorkStays ==
  ASSUME TypeOK, [Next]_vars, NEW s \in Subjects, latest'[s] = latest[s], Assessed(s),
         row[s] # None \/ unavailable[s] # 0
  PROVE  row'[s] # None \/ unavailable'[s] # 0
<1>1. unavailable[s] # 0 => unavailable'[s] # 0
  BY UnavailableKinds DEF TypeOK, Rows
<1>. SUFFICES ASSUME row[s] # None, row'[s] = None PROVE unavailable'[s] # 0
  BY <1>1
<1>2. ASSUME NEW w \in Lanes, failExhausted(w) PROVE unavailable'[s] # 0
  BY <1>2, HeldFacts DEF failExhausted, TypeOK, Rows
<1>3. ASSUME NEW w \in Lanes, completeOnce(w) PROVE FALSE
  <2>1. CASE s = subject(w)
    <3>1. latest'[s].id = latest[s].id + 1 /\ latest[s] \in Assessments
      BY <1>3, <2>1, CompletedFacts
    <3>. QED  BY <3>1 DEF Assessments
  <2>. QED  BY <1>3, <2>1, HeldFacts, CompleteTypes DEF completeOnce
<1>4. ASSUME NEW w \in Lanes, NEW t \in Subjects, claimRow(w, t) PROVE FALSE
  BY <1>4, ClaimTypes
<1>5. ASSUME NEW w \in Lanes, requeueAfterCompleteFailure(w) \/ fail(w) PROVE FALSE
  <2>1. Held(w) /\ Requeue(subject(w))
    BY <1>5 DEF requeueAfterCompleteFailure, fail
  <2>. QED  BY <2>1, RequeueTypes
<1>6. ASSUME NEW w \in Lanes, Evaluate(w) \/ Fenced(w) \/ Abandon(w) PROVE FALSE
  BY <1>6 DEF Evaluate, Fenced, Abandon
<1>7. ASSUME NEW t \in Subjects, SelectDue(t) \/ EvaluateBaseline(t) \/ saveAssessment(t)
      PROVE  FALSE
  BY <1>7 DEF SelectDue, EvaluateBaseline, saveAssessment
<1>8. ASSUME NEW t \in Subjects, InsertDue(t) PROVE FALSE
  <2>1. \A a \in due[t] : NewRow(a) # None
    BY NewRowType DEF TypeOK
  <2>. QED  BY <1>8, <2>1 DEF InsertDue, TypeOK
<1>9. ASSUME NEW I \in SUBSET Inputs, Change(I) PROVE FALSE
  BY <1>9 DEF Change
<1>10. ASSUME Tick \/ UNCHANGED vars PROVE FALSE
  BY <1>10 DEF Tick, vars
<1>. QED
  BY <1>2, <1>3, <1>4, <1>5, <1>6, <1>7, <1>8, <1>9, <1>10 DEF Next, Lane

\* A command that advances an input raises work for those who read it.
LEMMA ChangeRaises ==
  ASSUME TypeOK, [Next]_vars, NEW s \in Subjects, Assessed(s),
         NEW i \in DOMAIN latest[s].read, latest[s].read[i] = version[i],
         i \in Inputs, version[i] \in Nat, version'[i] # version[i]
  PROVE  row'[s] # None
<1>1. PICK I \in SUBSET Inputs : Change(I)
  <2>1. ASSUME UNCHANGED world PROVE FALSE
    BY <2>1 DEF world
  <2>2. ASSUME NEW w \in Lanes, Lane(w) PROVE UNCHANGED world
    BY <2>2 DEF Lane, claimRow, Evaluate, completeOnce, requeueAfterCompleteFailure,
                fail, failExhausted, Fenced, Abandon
  <2>3. ASSUME NEW t \in Subjects,
               SelectDue(t) \/ InsertDue(t) \/ EvaluateBaseline(t) \/ saveAssessment(t)
        PROVE  UNCHANGED world
    BY <2>3 DEF SelectDue, InsertDue, EvaluateBaseline, saveAssessment
  <2>4. ~Tick
    BY DEF Tick
  <2>. QED  BY <2>1, <2>2, <2>3, <2>4 DEF Next, vars, world
<1>2. i \in I /\ s \in Readers(i, version[i] + 1)
  BY <1>1 DEF Change, Readers
<1>3. row[s] = None => row'[s] = NewRow(latest[s].id)
  BY <1>1, <1>2 DEF Change
<1>4. row[s] # None => row'[s] = row[s]
  BY <1>1 DEF Change
<1>5. latest[s].id \in Nat \ {0}
  BY DEF TypeOK, Assessed, Assessments
<1>. QED  BY <1>3, <1>4, <1>5, NewRowType

LEMMA StaleHasWorkStep ==
  ASSUME TypeOK, TypeOK', BaselineIsFirst, StaleHasWork, [Next]_vars
  PROVE  StaleHasWork'
<1>. SUFFICES ASSUME NEW s \in Subjects, Assessed(s)', latest'[s].id > 1,
                    ~InputsCurrent(latest[s])'
             PROVE  row'[s] # None \/ unavailable'[s] # 0
  BY DEF StaleHasWork
<1>1. CASE latest'[s] = latest[s]
  <2>1. Assessed(s) /\ latest[s].id > 1
    BY <1>1 DEF Assessed
  <2>2. CASE InputsCurrent(latest[s])
    <3>1. PICK i \in DOMAIN latest[s].read : latest[s].read[i] = version[i] /\ version'[i] # version[i]
      BY <1>1, <2>2 DEF InputsCurrent
    <3>2. i \in Inputs /\ version[i] \in Nat
      BY <2>1, <3>1, ReadFacts, SomeAttempts DEF TypeOK, Assessed, Assessments, Versions
    <3>. QED  BY <1>1, <2>1, <3>1, <3>2, ChangeRaises
  <2>3. CASE ~InputsCurrent(latest[s])
    <3>1. row[s] # None \/ unavailable[s] # 0
      BY <2>1, <2>3 DEF StaleHasWork
    <3>. QED  BY <1>1, <2>1, <3>1, OpenWorkStays
  <2>. QED  BY <2>2, <2>3
<1>2. ASSUME NEW w \in Lanes, completeOnce(w), s = subject(w)
      PROVE  row'[s] # None
  BY <1>2, CompletedRow
<1>3. ~saveAssessment(s)
  BY SavedIsFirst
<1>. QED  BY <1>1, <1>2, <1>3, LatestKinds

LEMMA InvInit == Init => IInv
<1>. SUFFICES ASSUME Init PROVE IInv
  OBVIOUS
<1>1. TypeOK
  BY TypeInit
<1>2. /\ \A s \in Subjects : ~Assessed(s) /\ baseline[s] = None
      /\ \A w \in Lanes : claim[w] = None
  BY DEF Init, Assessed
<1>. QED
  BY <1>1, <1>2 DEF IInv, ReadsArePast, LaneReadLater, Held, NothingHides, BaselineIsFirst, StaleHasWork

LEMMA InvStep == IInv /\ [Next]_vars => IInv'
<1>. SUFFICES ASSUME IInv, [Next]_vars PROVE IInv'
  OBVIOUS
<1>1. TypeOK'
  BY TypeStep DEF IInv
<1>2. ReadsArePast' /\ BaselineIsFirst' /\ LaneReadLater'
  BY ReadsArePastStep, BaselineIsFirstStep, LaneReadLaterStep DEF IInv
<1>3. NothingHides' /\ StaleHasWork'
  BY <1>1, NothingHidesStep, StaleHasWorkStep DEF IInv
<1>. QED  BY <1>1, <1>2, <1>3 DEF IInv

THEOREM Invariance == Spec => []IInv
BY InvInit, InvStep, PTL DEF Spec

-----------------------------------------------------------------------------
(* Theorems *)

\* An assessment that the worker stored and whose inputs moved on always has
\* open work or a failure on record.
THEOREM StaleWorkIsKept == Spec => []StaleHasWork
<1>1. IInv => StaleHasWork
  BY DEF IInv
<1>. QED  BY <1>1, Invariance, PTL

LEMMA VerifiedShows == IInv => VerifiedIsShown
<1>. SUFFICES ASSUME IInv, NEW s \in Subjects, Assessed(s), Verified(s)
             PROVE  View(s) = "CURRENT"
  BY DEF VerifiedIsShown
<1>1. row[s] # None => Obsolete(row[s].cause, s)
  BY DEF IInv, NothingHides
<1>2. Obsolete(unavailable[s], s)
  BY DEF IInv, NothingHides
<1>3. ~Stands(s)
  BY <1>1, <1>2 DEF Stands, Candidate, Obsolete
<1>. QED  BY <1>3 DEF View

\* currentAssessmentView says CURRENT of every assessment that verifies.
THEOREM VerifiedAlwaysShown == Spec => []VerifiedIsShown
BY VerifiedShows, Invariance, PTL

LEMMA NewerStep ==
  ASSUME IInv, [Next]_vars, NEW s \in Subjects, Assessed(s), latest'[s] # latest[s]
  PROVE  NotOlder(latest'[s].read, latest[s].read)
<1>. TypeOK /\ BaselineIsFirst /\ LaneReadLater
  BY DEF IInv
<1>1. ~saveAssessment(s)
  BY SavedIsFirst
<1>2. PICK w \in Lanes : completeOnce(w) /\ s = subject(w)
  BY <1>1, LatestKinds
<1>3. latest'[s].read = claim[w].result.read
  BY <1>2, CompletedFacts
<1>. QED  BY <1>2, <1>3 DEF completeOnce, LaneReadLater

\* No assessment is superseded by one that read older versions.
THEOREM NewerAlwaysSupersedes == Spec => NewerSupersedesOlder
<1>1. IInv /\ [Next]_vars =>
        [\A s \in Subjects :
           Assessed(s) /\ latest'[s] # latest[s] =>
             \A i \in DOMAIN latest[s].read \cap DOMAIN latest'[s].read :
               latest'[s].read[i] >= latest[s].read[i]]_vars
  BY NewerStep DEF NotOlder
<1>. QED  BY <1>1, Invariance, PTL DEF Spec, NewerSupersedesOlder

\* A change or a completion that leaves an assessment stale before its time
\* leaves work against it.
LEMMA StaleIsRaised ==
  ASSUME IInv, [Next]_vars, NEW s \in Subjects, Assessed(s), Verified(s),
         ~InputsCurrent(latest[s])'
  PROVE  row'[s] # None
<1>. TypeOK /\ BaselineIsFirst
  BY DEF IInv
<1>1. CASE latest'[s] = latest[s]
  <2>1. PICK i \in DOMAIN latest[s].read : latest[s].read[i] = version[i] /\ version'[i] # version[i]
    BY <1>1 DEF Verified, InputsCurrent
  <2>2. latest[s] \in Assessments /\ i \in Inputs /\ version[i] \in Nat
    BY <2>1, ReadFacts, SomeAttempts DEF TypeOK, Assessed, Assessments, Versions
  <2>. QED  BY <1>1, <2>1, <2>2, ChangeRaises
<1>2. ASSUME NEW w \in Lanes, completeOnce(w), s = subject(w) PROVE row'[s] # None
  BY <1>2, CompletedRow
<1>3. ~saveAssessment(s)
  BY SavedIsFirst
<1>. QED  BY <1>1, <1>2, <1>3, LatestKinds

\* Only its clock makes a current assessment something that is neither
\* current nor pending.
THEOREM CurrentExpiresOnly == Spec => CurrentOnlyExpires
<1>1. ASSUME IInv, IInv', VerifiedIsShown', [Next]_vars, NEW s \in Subjects, View(s) = "CURRENT",
             ~Expired(latest[s])'
      PROVE  View(s)' \in {"CURRENT", "PENDING_REASSESSMENT"}
  <2>1. Assessed(s) /\ Verified(s)
    BY <1>1 DEF View
  <2>2. Assessed(s)'
    <3>1. ASSUME NEW w \in Lanes, completeOnce(w), s = subject(w) PROVE Assessed(s)'
      <4>1. Supersede(s, claim[w].result) /\ claim[w].result \in Results
        BY <1>1, <3>1, CompletedFacts DEF IInv, completeOnce
      <4>. QED  BY <1>1, <4>1, SupersedeFacts DEF IInv, Assessed
    <3>2. ~saveAssessment(s)
      BY <1>1, <2>1, SavedIsFirst DEF IInv
    <3>. QED  BY <1>1, <2>1, <3>1, <3>2, LatestKinds DEF IInv, Assessed
  <2>3. CASE InputsCurrent(latest[s])'
    <3>1. Verified(s)'
      BY <1>1, <2>3 DEF Verified
    <3>2. \A t \in Subjects : Assessed(t)' /\ Verified(t)' => View(t)' = "CURRENT"
      BY <1>1 DEF VerifiedIsShown
    <3>. QED  BY <2>2, <3>1, <3>2
  <2>4. CASE ~InputsCurrent(latest[s])'
    <3>1. row'[s] # None
      BY <1>1, <2>1, <2>4, StaleIsRaised
    <3>2. row'[s].cause # 0
      BY <1>1, <3>1 DEF IInv, TypeOK, Rows
    <3>3. Stands(s)'
      BY <2>4, <3>1, <3>2 DEF Stands, Candidate, Verified
    <3>. QED  BY <2>2, <3>1, <3>3 DEF View
  <2>. QED  BY <2>3, <2>4
<1>2. IInv /\ IInv' /\ VerifiedIsShown' /\ [Next]_vars =>
        [\A s \in Subjects :
           View(s) = "CURRENT" =>
             View(s)' \in {"CURRENT", "PENDING_REASSESSMENT"} \/ Expired(latest[s])']_vars
  BY <1>1
<1>. QED  BY <1>2, Invariance, VerifiedAlwaysShown, PTL DEF Spec, CurrentOnlyExpires

-----------------------------------------------------------------------------
(* The assessments of a subject are an AssessmentFeed *)

LEMMA SettlednessType == \A s : Settledness(s) \in {"CURRENT", "STALE", "PENDING"}
BY DEF Settledness

LEMMA VerifiedIsSettled ==
  ASSUME NothingHides, NEW s \in Subjects, Assessed(s)
  PROVE  Settledness(s) = "CURRENT" <=> Verified(s)
<1>1. Verified(s) => Candidate(s) # latest[s].id
  BY DEF NothingHides, Obsolete, Candidate
<1>. QED  BY <1>1 DEF Settledness, Verified

LEMMA FeedInit == ASSUME Init, NEW s \in Subjects PROVE Feed(s)!Init
<1>1. ~Assessed(s)
  BY DEF Init, Assessed
<1>. QED  BY <1>1 DEF Feed!Init, IdOf, Settledness

LEMMA FeedStep ==
  ASSUME IInv, IInv', [Next]_vars, NEW s \in Subjects
  PROVE  Feed(s)!Next \/ UNCHANGED <<IdOf(s), Settledness(s)>>
<1>. TypeOK /\ TypeOK' /\ ReadsArePast /\ BaselineIsFirst /\ NothingHides /\ NothingHides'
  BY DEF IInv
<1>0. Settledness(s)' \in {"CURRENT", "STALE", "PENDING"}
  BY DEF Settledness
<1>1. CASE Assessed(s) /\ latest'[s] = latest[s]
  <2>1. IdOf(s)' = IdOf(s) /\ IdOf(s) # 0 /\ Assessed(s)'
    BY <1>1 DEF IdOf, Assessed, TypeOK, Assessments
  <2>2. ASSUME Settledness(s)' = "CURRENT" PROVE Settledness(s) = "CURRENT"
    <3>1. Settledness(s)' = "CURRENT" <=> Verified(s)'
      BY <2>1, VerifiedIsSettled DEF NothingHides, Obsolete, Candidate, Settledness, Verified
    <3>. QED  BY <1>1, <2>2, <3>1, UnverifiedStays, VerifiedIsSettled
  <2>3. CASE Settledness(s)' = "PENDING"
    BY <2>1, <2>3 DEF Feed!Next, Feed!Disturb
  <2>4. CASE Settledness(s)' = "STALE"
    BY <2>1, <2>4, SettlednessType DEF Feed!Next, Feed!Expire, Feed!Resurface
  <2>. QED  BY <1>0, <2>1, <2>2, <2>3, <2>4
<1>2. CASE ~Assessed(s) /\ latest'[s] = latest[s]
  BY <1>2 DEF IdOf, Settledness, Assessed
<1>3. ASSUME latest'[s] # None, latest'[s].id = NextId(s)
      PROVE  Feed(s)!Next
  <2>1. IdOf(s)' = IdOf(s) + 1
    BY <1>3 DEF IdOf, NextId, Assessed
  <2>. QED  BY <1>0, <2>1 DEF Feed!Next, Feed!Assess, Feed!Views
<1>4. ASSUME NEW w \in Lanes, completeOnce(w), s = subject(w)
      PROVE  latest'[s] # None /\ latest'[s].id = NextId(s)
  BY <1>4, CompletedFacts, SupersedeFacts DEF completeOnce
<1>5. ASSUME saveAssessment(s) PROVE latest'[s] # None /\ latest'[s].id = NextId(s)
  <2>1. baseline[s] \in Results /\ Supersede(s, baseline[s])
    BY <1>5, SavedIsFirst DEF saveAssessment
  <2>2. latest'[s] = [id |-> NextId(s), read |-> baseline[s].read, expires |-> baseline[s].expires]
    BY <2>1, SupersedeFacts
  <2>3. latest'[s] # None
    BY <2>1, SupersedeFacts
  <2>. QED  BY <2>2, <2>3
<1>. QED  BY <1>1, <1>2, <1>3, <1>4, <1>5, LatestKinds

\* What a pass of the recovery engine sees of a subject is a behaviour of the
\* feed that RecoveryCase runs on: the view never regains what it lost, and
\* assessments are never skipped.
THEOREM FeedIsImplemented == Spec => ImplementsAssessmentFeed
<1>1. Init => \A s \in Subjects : Feed(s)!Init
  BY FeedInit
<1>2. IInv /\ IInv' /\ [Next]_vars =>
        [\A s \in Subjects : Feed(s)!Next \/ UNCHANGED <<IdOf(s), Settledness(s)>>]_vars
  BY FeedStep
<1>. QED  BY <1>1, <1>2, Invariance, PTL DEF Spec, ImplementsAssessmentFeed

\* The same of one subject, in the form in which the feed states itself.
THEOREM FeedOfEachSubject == ASSUME NEW s \in Subjects PROVE Spec => Feed(s)!Spec
<1>1. Init => Feed(s)!Init
  BY FeedInit
<1>2. IInv /\ IInv' /\ [Next]_vars => [Feed(s)!Next]_<<IdOf(s), Settledness(s)>>
  BY FeedStep
<1>. QED  BY <1>1, <1>2, Invariance, PTL DEF Spec, Feed!Spec
=============================================================================
