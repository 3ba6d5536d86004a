------------------------- MODULE RecoveryCaseProofs -------------------------
(***************************************************************************)
(* Theorems about the recovery cases of a subject, for any passes and any  *)
(* number of assessments, clock readings and stops.                        *)
(***************************************************************************)
EXTENDS RecoveryCase, WellFoundedInduction, TLAPS

-----------------------------------------------------------------------------
(* Passes *)

Busy == [at : Errands, case : Cases, basis : Assessments, now : 0 .. MaxClock]

LEMMA BusyPass ==
  ASSUME TypeOK, NEW p \in Passes, pass[p].at # "idle"
  PROVE  pass[p] \in Busy
BY DEF TypeOK, Pass, Busy, Idle

LEMMA DoneType ==
  ASSUME TypeOK, NEW p \in Passes, Done(p)
  PROVE  pass' \in [Passes -> Pass]
BY DEF TypeOK, Pass, Done

LEMMA GoToType ==
  ASSUME TypeOK, NEW p \in Passes, pass[p].at # "idle", NEW errand \in Errands, GoTo(p, errand)
  PROVE  pass' \in [Passes -> Pass]
<1>. DEFINE there == [pass[p] EXCEPT !.at = errand]
<1>1. there \in Busy
  BY BusyPass DEF Busy
<1>2. pass' = [pass EXCEPT ![p] = there]
  BY DEF GoTo, TypeOK
<1>. QED  BY <1>1, <1>2 DEF TypeOK, Pass, Busy

LEMMA LeastExists ==
  ASSUME NEW S \in SUBSET Nat, S # {}
  PROVE  \E c \in S : \A d \in S : c <= d
<1>. DEFINE less == OpToRel(<, Nat)
<1>1. IsWellFoundedOn(less, Nat)
  BY NatLessThanWellFounded
<1>2. \A c, d \in Nat : <<c, d>> \in less <=> c < d
  BY DEF OpToRel
<1>. HIDE DEF less
<1>3. \E c \in S : \A d \in S : ~(<<d, c>> \in less)
  BY <1>1, WFMin, Zenon
<1>4. PICK c \in S : \A d \in S : ~(<<d, c>> \in less)
  BY <1>3
<1>5. \A d \in S : ~(d < c)
  BY <1>2, <1>4
<1>. QED  BY <1>5

LEMMA FirstOpenType ==
  ASSUME TypeOK, OpenCases # {}
  PROVE  FirstOpen \in OpenCases /\ FirstOpen \in Cases
<1>1. OpenCases \in SUBSET Nat /\ OpenCases \subseteq Cases
  BY Bounds DEF OpenCases, Cases, Assessments
<1>2. \E c \in OpenCases : \A d \in OpenCases : c <= d
  BY <1>1, LeastExists
<1>. QED  BY <1>1, <1>2 DEF FirstOpen

-----------------------------------------------------------------------------
(* Types *)

\* A table of rows for each case and basis, with one row written.
LEMMA WriteRow ==
  ASSUME NEW S, NEW f \in [Cases -> [Assessments -> S]], NEW v \in S,
         NEW c \in Cases, NEW b \in Assessments
  PROVE  /\ [f EXCEPT ![c][b] = v] \in [Cases -> [Assessments -> S]]
         /\ [f EXCEPT ![c][b] = v][c][b] = v
         /\ \A d \in Cases, o \in Assessments :
              d # c \/ o # b => [f EXCEPT ![c][b] = v][d][o] = f[d][o]
<1>. DEFINE g == [f EXCEPT ![c][b] = v]
<1>1. g[c] = [f[c] EXCEPT ![b] = v]
  OBVIOUS
<1>2. \A d \in Cases \ {c} : g[d] = f[d]
  OBVIOUS
<1>3. g = [d \in Cases |-> g[d]]
  OBVIOUS
<1>4. g[c] \in [Assessments -> S]
  BY <1>1
<1>. HIDE DEF g
<1>5. g \in [Cases -> [Assessments -> S]]
  BY <1>2, <1>3, <1>4
<1>. QED  BY <1>1, <1>2, <1>5 DEF g

LEMMA ClearAttentionFacts ==
  ASSUME TypeOK, NEW c \in Cases, NEW kept, ClearAttention(c, kept)
  PROVE  /\ attention' \in [Cases -> [Assessments -> Attentions]]
         /\ \A b \in Assessments : b # kept => attention'[c][b] # "OPEN"
         /\ \A d \in Cases, b \in Assessments :
              attention'[d][b] = "OPEN" => attention[d][b] = "OPEN"
BY DEF ClearAttention, TypeOK, Attentions

LEMMA TypeInit == Init => TypeOK
BY Bounds DEF Init, Feed!Init, Feed!Views, TypeOK, Phases, Attempts, Works, Attentions, Pass

LEMMA TypeStep == TypeOK /\ [Next]_vars => TypeOK'
<1>. SUFFICES ASSUME TypeOK, [Next]_vars PROVE TypeOK'
  OBVIOUS
<1>. USE DEF world, rows
<1>1. CASE UNCHANGED vars
  BY <1>1 DEF vars, TypeOK
<1>2. CASE Tick \/ Age
  BY <1>2, Bounds DEF TypeOK, Tick, Age, Feed!Disturb, Feed!Expire, Feed!Resurface, Feed!Views
<1>3. ASSUME NEW v \in Verdicts, Assess(v) PROVE TypeOK'
  BY <1>3, Bounds DEF TypeOK, Assess, Assessments, Feed!Assess
<1>4. ASSUME NEW p \in Passes, DecideEscalation(p) PROVE TypeOK'
  <2>1. PICK a \in Assessments :
          pass' = [pass EXCEPT ![p] =
            IF OpenCases = {} THEN [at |-> "open", case |-> a, basis |-> a, now |-> clock]
            ELSE [at |-> "link", case |-> FirstOpen, basis |-> a, now |-> 0]]
    BY <1>4 DEF DecideEscalation
  <2>2. [at |-> "open", case |-> a, basis |-> a, now |-> clock] \in Busy
    BY DEF Busy, Errands, Cases, TypeOK
  <2>3. OpenCases # {} => [at |-> "link", case |-> FirstOpen, basis |-> a, now |-> 0] \in Busy
    BY FirstOpenType, Bounds DEF Busy, Errands
  <2>4. pass' \in [Passes -> Pass]
    BY <2>1, <2>2, <2>3 DEF TypeOK, Pass, Busy
  <2>. QED  BY <1>4, <2>4 DEF DecideEscalation, TypeOK
<1>5. ASSUME NEW p \in Passes, NEW c \in Cases, ReadBasis(p, c) PROVE TypeOK'
  <2>1. PICK b \in Assessments, at \in {"clear", "decide"} :
          pass' = [pass EXCEPT ![p] = [at |-> at, case |-> c, basis |-> b, now |-> 0]]
    BY <1>5 DEF ReadBasis
  <2>2. [at |-> at, case |-> c, basis |-> b, now |-> 0] \in Busy
    BY Bounds DEF Busy, Errands
  <2>3. pass' \in [Passes -> Pass]
    BY <2>1, <2>2 DEF TypeOK, Pass, Busy
  <2>. QED  BY <1>5, <2>3 DEF ReadBasis, TypeOK
<1>6. ASSUME NEW p \in Passes, OpenCase(p) PROVE TypeOK'
  <2>. DEFINE linking == [pass[p] EXCEPT !.at = "link", !.now = 0]
  <2>1. pass[p] \in Busy
    BY <1>6, BusyPass DEF OpenCase
  <2>2. linking \in Busy
    <3>1. 0 \in 0 .. MaxClock /\ "link" \in Errands
      BY Bounds DEF Errands
    <3>. QED  BY <2>1, <3>1 DEF Busy
  <2>3. pass' = [pass EXCEPT ![p] = linking] \/ Done(p)
    BY <1>6 DEF OpenCase, TypeOK
  <2>4. pass' \in [Passes -> Pass]
    BY <2>2, <2>3, DoneType DEF TypeOK, Pass, Busy
  <2>. QED  BY <1>6, <2>1, <2>4 DEF OpenCase, TypeOK, Busy, Phases, Working
<1>7. ASSUME NEW p \in Passes, LinkCase(p) PROVE TypeOK'
  <2>1. pass[p].case \in Cases
    BY <1>7, BusyPass DEF LinkCase, Busy
  <2>. QED  BY <1>7, <2>1, DoneType DEF LinkCase, TypeOK
<1>8. ASSUME NEW p \in Passes, SupersedeAttention(p) PROVE TypeOK'
  <2>1. pass[p].case \in Cases /\ pass[p].basis \in Assessments
    BY <1>8, BusyPass DEF SupersedeAttention, Busy
  <2>2. pass' \in [Passes -> Pass]
    BY <1>8, GoToType DEF SupersedeAttention, Errands
  <2>3. attention' \in [Cases -> [Assessments -> Attentions]]
    BY <1>8, <2>1, ClearAttentionFacts DEF SupersedeAttention, TypeOK
  <2>. QED  BY <1>8, <2>1, <2>2, <2>3 DEF SupersedeAttention, TypeOK
<1>9. ASSUME NEW p \in Passes, Decide(p) PROVE TypeOK'
  <2>1. Decision(pass[p].case, pass[p].basis) \in Errands \cup {"idle"}
    BY DEF Decision, Errands
  <2>2. pass' \in [Passes -> Pass]
    BY <1>9, <2>1, DoneType, GoToType DEF Decide
  <2>. QED  BY <1>9, <2>2 DEF Decide, TypeOK
<1>10. ASSUME NEW p \in Passes, ResolveCase(p) PROVE TypeOK'
  <2>. DEFINE c == pass[p].case
  <2>0. c \in Cases
    BY <1>10, BusyPass DEF ResolveCase, Busy
  <2>1. attention' \in [Cases -> [Assessments -> Attentions]]
    BY <1>10, <2>0, ClearAttentionFacts DEF ResolveCase, TypeOK
  <2>2. phase' \in [Cases -> Phases]
    BY <1>10 DEF ResolveCase, TypeOK, Phases
  <2>. QED  BY <1>10, <2>1, <2>2, DoneType DEF ResolveCase, TypeOK
<1>11. ASSUME NEW p \in Passes, OpenAttention(p) PROVE TypeOK'
  <2>. DEFINE c == pass[p].case  b == pass[p].basis
              next == IF attention[c][b] = "none" /\ phase[c] \in Working THEN "OPEN"
                      ELSE attention[c][b]
  <2>0. c \in Cases /\ b \in Assessments
    BY <1>11, BusyPass DEF OpenAttention, Busy
  <2>1. attention' \in [Cases -> [Assessments -> Attentions]]
    <3>1. next \in Attentions
      BY <2>0 DEF TypeOK, Attentions
    <3>2. attention' = [attention EXCEPT ![c][b] = next]
      BY <1>11 DEF OpenAttention
    <3>. HIDE DEF next, c, b
    <3>. QED  BY <2>0, <3>1, <3>2, WriteRow DEF TypeOK
  <2>. QED  BY <1>11, <2>1, DoneType DEF OpenAttention, TypeOK
<1>12. ASSUME NEW p \in Passes, CaptureBasis(p) PROVE TypeOK'
  <2>1. ASSUME NEW b \in Assessments, NEW then \in {"prepare", "advance"},
               pass' = [pass EXCEPT ![p].at = then, ![p].basis = b]
        PROVE  pass' \in [Passes -> Pass]
    <3>. DEFINE planning == [pass[p] EXCEPT !.at = then, !.basis = b]
    <3>1. planning \in Busy
      BY <1>12, BusyPass DEF CaptureBasis, Busy, Errands
    <3>2. pass' = [pass EXCEPT ![p] = planning]
      BY <2>1 DEF TypeOK
    <3>. QED  BY <3>1, <3>2 DEF TypeOK, Pass, Busy
  <2>2. pass' \in [Passes -> Pass]
    BY <1>12, <2>1, DoneType DEF CaptureBasis
  <2>. QED  BY <1>12, <2>2 DEF CaptureBasis, TypeOK
<1>13. ASSUME NEW p \in Passes, PrepareEnds(p) PROVE TypeOK'
  <2>. DEFINE c == pass[p].case  b == pass[p].basis
              next == IF attempt[c][b] = "none" THEN "STALE_RETRY_REQUIRED" ELSE attempt[c][b]
  <2>0. c \in Cases /\ b \in Assessments
    BY <1>13, BusyPass DEF PrepareEnds, Busy
  <2>1. attempt' \in [Cases -> [Assessments -> Attempts]]
    <3>1. next \in Attempts
      BY <2>0 DEF TypeOK, Attempts
    <3>2. attempt' = attempt \/ attempt' = [attempt EXCEPT ![c][b] = next]
      BY <1>13 DEF PrepareEnds
    <3>. HIDE DEF next, c, b
    <3>3. attempt \in [Cases -> [Assessments -> Attempts]]
      BY DEF TypeOK
    <3>4. [attempt EXCEPT ![c][b] = next] \in [Cases -> [Assessments -> Attempts]]
      BY <2>0, <3>1, <3>3, WriteRow
    <3>. QED  BY <3>2, <3>3, <3>4
  <2>2. pass' \in [Passes -> Pass]
    BY <1>13, DoneType, GoToType DEF PrepareEnds, Errands
  <2>. QED  BY <1>13, <2>1, <2>2 DEF PrepareEnds, TypeOK
<1>14. ASSUME NEW p \in Passes, StartPlanning(p) PROVE TypeOK'
  <2>1. phase' \in [Cases -> Phases]
    BY <1>14 DEF StartPlanning, TypeOK, Phases, Working
  <2>2. pass' \in [Passes -> Pass]
    BY <1>14, GoToType DEF StartPlanning, Errands
  <2>. QED  BY <1>14, <2>1, <2>2 DEF StartPlanning, TypeOK
<1>15. ASSUME NEW p \in Passes, NEW outcome \in {"AWAITING_AUTHORITY", "NO_RECOVERY_FOUND"},
              CompletePlan(p, outcome)
       PROVE  TypeOK'
  <2>. DEFINE c == pass[p].case  b == pass[p].basis
  <2>0. c \in Cases /\ b \in Assessments
    BY <1>15, BusyPass DEF CompletePlan, Busy
  <2>1. phase' \in [Cases -> Phases]
    <3>1. phase' = phase \/ phase' = [phase EXCEPT ![c] = "AWAITING_AUTHORITY"]
      BY <1>15 DEF CompletePlan, TypeOK
    <3>. QED  BY <3>1 DEF TypeOK, Phases, Working
  <2>2. attempt' \in [Cases -> [Assessments -> Attempts]]
    <3>1. attempt' = attempt \/ attempt' = [attempt EXCEPT ![c][b] = outcome]
      BY <1>15 DEF CompletePlan
    <3>2. outcome \in Attempts
      BY DEF Attempts
    <3>. HIDE DEF c, b
    <3>3. attempt \in [Cases -> [Assessments -> Attempts]]
      BY DEF TypeOK
    <3>4. [attempt EXCEPT ![c][b] = outcome] \in [Cases -> [Assessments -> Attempts]]
      BY <2>0, <3>2, <3>3, WriteRow
    <3>. QED  BY <3>1, <3>3, <3>4
  <2>. QED  BY <1>15, <2>1, <2>2, DoneType DEF CompletePlan, TypeOK
<1>16. ASSUME NEW p \in Passes, Stop(p) PROVE TypeOK'
  BY <1>16, DoneType, Bounds DEF Stop, TypeOK
<1>17. ASSUME NEW c \in Cases, AdvanceToExecuting(c) PROVE TypeOK'
  BY <1>17 DEF AdvanceToExecuting, Forward, TypeOK, Phases, Working
<1>18. ASSUME NEW c \in Cases, NEW b \in Assessments,
              \/ CompileApproval(c, b) \/ PersistPlan(c, b) \/ StartWork(c, b)
              \/ \E outcome \in {"FAILED", "DONE"} : EndWork(c, b, outcome)
       PROVE  TypeOK'
  <2>1. work' \in [Cases -> [Assessments -> Works]]
    <3>1. PICK w \in Works : work' = work \/ work' = [work EXCEPT ![c][b] = w]
      <4>1. PersistPlan(c, b) => (IF work[c][b] = "none" THEN "PLANNED" ELSE work[c][b]) \in Works
        BY DEF TypeOK, Works
      <4>. QED  BY <1>18, <4>1 DEF CompileApproval, PersistPlan, StartWork, EndWork, Works
    <3>2. work \in [Cases -> [Assessments -> Works]]
      BY DEF TypeOK
    <3>3. [work EXCEPT ![c][b] = w] \in [Cases -> [Assessments -> Works]]
      BY <3>2, WriteRow
    <3>. QED  BY <3>1, <3>2, <3>3
  <2>2. approving' \subseteq Cases \X Assessments
    BY <1>18 DEF CompileApproval, PersistPlan, StartWork, EndWork, TypeOK
  <2>. QED  BY <1>18, <2>1, <2>2 DEF CompileApproval, PersistPlan, StartWork, EndWork, TypeOK
<1>. QED
  BY <1>1, <1>2, <1>3, <1>4, <1>5, <1>6, <1>7, <1>8, <1>9, <1>10, <1>11, <1>12, <1>13,
     <1>14, <1>15, <1>16, <1>17, <1>18
     DEF Next, Continue, Operate

\* Every row and every pass keeps the shape that the commands give it.
THEOREM TypeCorrect == Spec => []TypeOK
BY TypeInit, TypeStep, PTL DEF Spec

-----------------------------------------------------------------------------
(* What a step may do to one variable *)

\* The outcomes of planning: one writer of options, one of notes to retry.
AttemptStep(c, b) ==
  \/ attempt'[c][b] = attempt[c][b]
  \/ attempt[c][b] = "none" /\ attempt'[c][b] \in {"STALE_RETRY_REQUIRED", "NO_RECOVERY_FOUND"}
  \/ /\ attempt[c][b] = "none"
     /\ attempt'[c][b] = "AWAITING_AUTHORITY"
     /\ phase[c] \in {"PLANNING", "AWAITING_AUTHORITY"}
     /\ phase'[c] = "AWAITING_AUTHORITY"

LEMMA AttemptKinds ==
  ASSUME TypeOK, [Next]_vars, NEW c \in Cases, NEW b \in Assessments
  PROVE  AttemptStep(c, b)
<1>. USE DEF world, rows
<1>0. attempt \in [Cases -> [Assessments -> Attempts]] /\ phase \in [Cases -> Phases]
  BY DEF TypeOK
<1>1. ASSUME NEW p \in Passes, PrepareEnds(p) PROVE AttemptStep(c, b)
  <2>. DEFINE d == pass[p].case  o == pass[p].basis
              next == IF attempt[d][o] = "none" THEN "STALE_RETRY_REQUIRED" ELSE attempt[d][o]
  <2>1. d \in Cases /\ o \in Assessments
    BY <1>1, BusyPass DEF PrepareEnds, Busy
  <2>2. attempt' = attempt \/ attempt' = [attempt EXCEPT ![d][o] = next]
    BY <1>1 DEF PrepareEnds
  <2>3. next \in Attempts
    BY <1>0, <2>1 DEF Attempts
  <2>4. attempt'[c][b] = attempt[c][b] \/ (c = d /\ b = o /\ attempt'[c][b] = next)
    <3>. HIDE DEF next, d, o
    <3>. QED  BY <1>0, <2>1, <2>2, <2>3, WriteRow
  <2>. QED  BY <2>4 DEF AttemptStep
<1>2. ASSUME NEW p \in Passes, NEW outcome \in {"AWAITING_AUTHORITY", "NO_RECOVERY_FOUND"},
             CompletePlan(p, outcome)
      PROVE  AttemptStep(c, b)
  <2>. DEFINE d == pass[p].case  o == pass[p].basis
  <2>1. d \in Cases /\ o \in Assessments
    BY <1>2, BusyPass DEF CompletePlan, Busy
  <2>2. CASE attempt' = attempt
    BY <2>2 DEF AttemptStep
  <2>3. CASE Promotable(d, o) /\ attempt[d][o] = "none"
    <3>1. attempt' = [attempt EXCEPT ![d][o] = outcome] /\ outcome \in Attempts
      BY <1>2, <2>3 DEF CompletePlan, Attempts
    <3>2. attempt'[c][b] = attempt[c][b] \/ (c = d /\ b = o /\ attempt'[c][b] = outcome)
      <4>. HIDE DEF d, o
      <4>. QED  BY <1>0, <2>1, <3>1, WriteRow
    <3>3. outcome = "AWAITING_AUTHORITY" => phase'[d] = "AWAITING_AUTHORITY"
      BY <1>0, <1>2, <2>1, <2>3 DEF CompletePlan
    <3>. QED  BY <2>3, <3>2, <3>3 DEF Promotable, AttemptStep
  <2>. QED  BY <1>2, <2>2, <2>3 DEF CompletePlan
<1>3. CASE \/ Tick \/ Age \/ (\E v \in Verdicts : Assess(v)) \/ Operate
           \/ UNCHANGED vars
  <2>1. attempt' = attempt
    BY <1>3
       DEF Tick, Age, Assess, Operate, AdvanceToExecuting, CompileApproval, PersistPlan,
           StartWork, EndWork, vars
  <2>. QED  BY <2>1 DEF AttemptStep
<1>4. ASSUME NEW p \in Passes,
             \/ DecideEscalation(p) \/ (\E d \in Cases : ReadBasis(p, d)) \/ Stop(p)
             \/ OpenCase(p) \/ LinkCase(p) \/ SupersedeAttention(p) \/ Decide(p)
             \/ ResolveCase(p) \/ OpenAttention(p) \/ CaptureBasis(p) \/ StartPlanning(p)
      PROVE  AttemptStep(c, b)
  <2>1. attempt' = attempt
    BY <1>4
       DEF DecideEscalation, ReadBasis, Stop, OpenCase, LinkCase, SupersedeAttention, Decide,
           ResolveCase, OpenAttention, CaptureBasis, StartPlanning
  <2>. QED  BY <2>1 DEF AttemptStep
<1>. QED  BY <1>1, <1>2, <1>3, <1>4 DEF Next, Continue

\* The phases of a case, and what a change of phase goes with.
PhaseStep(c) ==
  \/ phase'[c] = phase[c]
  \/ /\ <<phase[c], phase'[c]>> \in {<<"none", "OPEN">>, <<"OPEN", "PLANNING">>}
     /\ attempt' = attempt
  \/ /\ phase[c] = "PLANNING" /\ phase'[c] = "AWAITING_AUTHORITY"
     /\ \E b \in Assessments : attempt'[c][b] = "AWAITING_AUTHORITY"
  \/ /\ phase[c] \in Working \ {"EXECUTING"} /\ phase'[c] = Forward(phase[c])
     /\ \E b \in Assessments : work[c][b] # "none"
     /\ UNCHANGED <<attempt, work>>
  \/ /\ GateAllows(c) /\ phase'[c] = "RESOLVED"
     /\ \A b \in Assessments : attention'[c][b] # "OPEN"
     /\ UNCHANGED <<world, linked, work>>

LEMMA PhaseKinds ==
  ASSUME TypeOK, [Next]_vars, NEW c \in Cases
  PROVE  PhaseStep(c)
<1>. USE DEF world, rows
<1>0. phase \in [Cases -> Phases] /\ attempt \in [Cases -> [Assessments -> Attempts]]
  BY DEF TypeOK
<1>1. ASSUME NEW p \in Passes, OpenCase(p) PROVE PhaseStep(c)
  <2>1. \/ phase' = phase
        \/ phase[pass[p].case] = "none" /\ phase' = [phase EXCEPT ![pass[p].case] = "OPEN"]
    BY <1>1 DEF OpenCase
  <2>2. attempt' = attempt
    BY <1>1 DEF OpenCase
  <2>. QED  BY <1>0, <2>1, <2>2 DEF PhaseStep
<1>2. ASSUME NEW p \in Passes, ResolveCase(p) PROVE PhaseStep(c)
  <2>. DEFINE d == pass[p].case
  <2>1. d \in Cases
    BY <1>2, BusyPass DEF ResolveCase, Busy
  <2>2. CASE phase' = phase
    BY <2>2 DEF PhaseStep
  <2>3. CASE GateAllows(d) /\ phase' = [phase EXCEPT ![d] = "RESOLVED"] /\ ClearAttention(d, 0)
    <3>1. \A b \in Assessments : attention'[d][b] # "OPEN"
      BY <2>1, <2>3, ClearAttentionFacts, Bounds DEF Assessments
    <3>. QED  BY <1>0, <1>2, <2>1, <2>3, <3>1 DEF ResolveCase, PhaseStep
  <2>. QED  BY <1>2, <2>2, <2>3 DEF ResolveCase
<1>3. ASSUME NEW p \in Passes, StartPlanning(p) PROVE PhaseStep(c)
  BY <1>0, <1>3 DEF StartPlanning, PhaseStep
<1>4. ASSUME NEW p \in Passes, NEW outcome \in {"AWAITING_AUTHORITY", "NO_RECOVERY_FOUND"},
             CompletePlan(p, outcome)
      PROVE  PhaseStep(c)
  <2>. DEFINE d == pass[p].case  o == pass[p].basis
  <2>1. d \in Cases /\ o \in Assessments
    BY <1>4, BusyPass DEF CompletePlan, Busy
  <2>2. CASE phase' = phase
    BY <2>2 DEF PhaseStep
  <2>3. CASE Promotable(d, o) /\ attempt[d][o] = "none" /\ outcome = "AWAITING_AUTHORITY"
    <3>1. phase' = [phase EXCEPT ![d] = "AWAITING_AUTHORITY"]
      BY <1>4, <2>3 DEF CompletePlan
    <3>2. attempt' = [attempt EXCEPT ![d][o] = outcome] /\ outcome \in Attempts
      BY <1>4, <2>3 DEF CompletePlan, Attempts
    <3>3. attempt'[d][o] = "AWAITING_AUTHORITY"
      <4>. HIDE DEF d, o
      <4>. QED  BY <1>0, <2>1, <2>3, <3>2, WriteRow
    <3>. QED  BY <1>0, <2>1, <2>3, <3>1, <3>3 DEF Promotable, PhaseStep
  <2>4. CASE outcome # "AWAITING_AUTHORITY" /\ phase' = [phase EXCEPT ![d] = phase[d]]
    BY <1>0, <2>4 DEF PhaseStep
  <2>. QED  BY <1>4, <2>2, <2>3, <2>4 DEF CompletePlan
<1>5. ASSUME NEW d \in Cases, AdvanceToExecuting(d) PROVE PhaseStep(c)
  <2>1. phase' = [phase EXCEPT ![d] = Forward(phase[d])] /\ UNCHANGED <<attempt, work>>
    BY <1>5 DEF AdvanceToExecuting
  <2>2. phase[d] \in Working \ {"EXECUTING"} /\ \E b \in Assessments : work[d][b] # "none"
    BY <1>5 DEF AdvanceToExecuting
  <2>. QED  BY <1>0, <2>1, <2>2 DEF PhaseStep
<1>6. ASSUME \/ Tick \/ Age \/ (\E v \in Verdicts : Assess(v)) \/ UNCHANGED vars
             \/ \E d \in Cases, o \in Assessments :
                  \/ CompileApproval(d, o) \/ PersistPlan(d, o) \/ StartWork(d, o)
                  \/ \E outcome \in {"FAILED", "DONE"} : EndWork(d, o, outcome)
      PROVE  PhaseStep(c)
  <2>1. phase' = phase
    BY <1>6
       DEF Tick, Age, Assess, CompileApproval, PersistPlan, StartWork, EndWork, vars
  <2>. QED  BY <2>1 DEF PhaseStep
<1>7. ASSUME NEW p \in Passes,
             \/ DecideEscalation(p) \/ (\E d \in Cases : ReadBasis(p, d)) \/ Stop(p)
             \/ LinkCase(p) \/ SupersedeAttention(p) \/ Decide(p)
             \/ OpenAttention(p) \/ CaptureBasis(p) \/ PrepareEnds(p)
      PROVE  PhaseStep(c)
  <2>1. phase' = phase
    BY <1>7
       DEF DecideEscalation, ReadBasis, Stop, LinkCase, SupersedeAttention, Decide, OpenAttention,
           CaptureBasis, PrepareEnds
  <2>. QED  BY <2>1 DEF PhaseStep
<1>. QED  BY <1>1, <1>2, <1>3, <1>4, <1>5, <1>6, <1>7 DEF Next, Continue, Operate

\* Approved plans and the approvals under way: both only for options that wait.
PlanStep(c, b) ==
  /\ work[c][b] # "none" => work'[c][b] # "none"
  /\ work'[c][b] # "none" => work[c][b] # "none" \/ <<c, b>> \in approving
ApprovalStep(c, b) ==
  <<c, b>> \in approving' => <<c, b>> \in approving \/ attempt[c][b] = "AWAITING_AUTHORITY"

LEMMA WorkKinds ==
  ASSUME TypeOK, [Next]_vars, NEW c \in Cases, NEW b \in Assessments
  PROVE  PlanStep(c, b) /\ ApprovalStep(c, b)
<1>. USE DEF world, rows
<1>0. work \in [Cases -> [Assessments -> Works]]
  BY DEF TypeOK
<1>1. CASE UNCHANGED <<work, approving>>
  BY <1>1 DEF PlanStep, ApprovalStep
<1>2. ASSUME NEW d \in Cases, NEW o \in Assessments, NEW w \in Works \ {"none"},
             work' = [work EXCEPT ![d][o] = w],
             work[d][o] # "none" \/ <<d, o>> \in approving
      PROVE  PlanStep(c, b)
  <2>1. w \in Works
    OBVIOUS
  <2>2. work'[c][b] = work[c][b] \/ (c = d /\ b = o /\ work'[c][b] = w)
    BY <1>0, <1>2, <2>1, WriteRow
  <2>. QED  BY <1>2, <2>2 DEF PlanStep
<1>3. ASSUME NEW d \in Cases, NEW o \in Assessments, PersistPlan(d, o)
      PROVE  PlanStep(c, b) /\ ApprovalStep(c, b)
  <2>. DEFINE w == IF work[d][o] = "none" THEN "PLANNED" ELSE work[d][o]
  <2>1. w \in Works \ {"none"}
    BY <1>0 DEF Works
  <2>2. work' = [work EXCEPT ![d][o] = w] /\ <<d, o>> \in approving
    BY <1>3 DEF PersistPlan
  <2>3. ApprovalStep(c, b)
    BY <1>3 DEF PersistPlan, ApprovalStep
  <2>. HIDE DEF w
  <2>. QED  BY <1>2, <2>1, <2>2, <2>3
<1>4. ASSUME NEW d \in Cases, NEW o \in Assessments,
             StartWork(d, o) \/ \E outcome \in {"FAILED", "DONE"} : EndWork(d, o, outcome)
      PROVE  PlanStep(c, b) /\ ApprovalStep(c, b)
  <2>1. PICK w \in Works \ {"none"} : work' = [work EXCEPT ![d][o] = w]
    BY <1>4 DEF StartWork, EndWork, Works
  <2>2. work[d][o] # "none"
    BY <1>4 DEF StartWork, EndWork
  <2>3. ApprovalStep(c, b)
    BY <1>4 DEF StartWork, EndWork, ApprovalStep
  <2>. QED  BY <1>2, <2>1, <2>2, <2>3
<1>5. ASSUME NEW d \in Cases, NEW o \in Assessments, CompileApproval(d, o)
      PROVE  PlanStep(c, b) /\ ApprovalStep(c, b)
  BY <1>5 DEF CompileApproval, ApprovalOutstanding, PlanStep, ApprovalStep
<1>6. ASSUME NEW d \in Cases, AdvanceToExecuting(d) PROVE UNCHANGED <<work, approving>>
  BY <1>6 DEF AdvanceToExecuting
<1>7. CASE \/ Tick \/ Age \/ (\E v \in Verdicts : Assess(v)) \/ UNCHANGED vars
  <2>1. UNCHANGED <<work, approving>>
    BY <1>7 DEF Tick, Age, Assess, vars
  <2>. QED  BY <1>1, <2>1
<1>8. ASSUME NEW p \in Passes,
             \/ DecideEscalation(p) \/ (\E d \in Cases : ReadBasis(p, d)) \/ Continue(p) \/ Stop(p)
      PROVE  UNCHANGED <<work, approving>>
  BY <1>8
     DEF Continue, DecideEscalation, ReadBasis, Stop, OpenCase, LinkCase, SupersedeAttention,
         Decide, ResolveCase, OpenAttention, CaptureBasis, PrepareEnds, StartPlanning, CompletePlan
<1>. QED  BY <1>1, <1>3, <1>4, <1>5, <1>6, <1>7, <1>8 DEF Next, Operate

\* Attention is only ever raised on a case that works on.
AttentionStep(c, b) ==
  attention'[c][b] = "OPEN" =>
    attention[c][b] = "OPEN" \/ (phase[c] \in Working /\ phase' = phase)

LEMMA AttentionKinds ==
  ASSUME TypeOK, [Next]_vars, NEW c \in Cases, NEW b \in Assessments
  PROVE  AttentionStep(c, b)
<1>. USE DEF world, rows
<1>0. attention \in [Cases -> [Assessments -> Attentions]]
  BY DEF TypeOK
<1>1. ASSUME NEW p \in Passes, SupersedeAttention(p) \/ ResolveCase(p) PROVE AttentionStep(c, b)
  <2>1. pass[p].case \in Cases
    BY <1>1, BusyPass DEF SupersedeAttention, ResolveCase, Busy
  <2>2. \/ attention' = attention
        \/ ClearAttention(pass[p].case, pass[p].basis) \/ ClearAttention(pass[p].case, 0)
    BY <1>1 DEF SupersedeAttention, ResolveCase
  <2>. QED  BY <2>1, <2>2, ClearAttentionFacts DEF AttentionStep
<1>2. ASSUME NEW p \in Passes, OpenAttention(p) PROVE AttentionStep(c, b)
  <2>. DEFINE d == pass[p].case  o == pass[p].basis
              next == IF attention[d][o] = "none" /\ phase[d] \in Working THEN "OPEN"
                      ELSE attention[d][o]
  <2>1. d \in Cases /\ o \in Assessments
    BY <1>2, BusyPass DEF OpenAttention, Busy
  <2>2. attention' = [attention EXCEPT ![d][o] = next]
    BY <1>2 DEF OpenAttention
  <2>3. next \in Attentions
    BY <1>0, <2>1 DEF Attentions
  <2>4. attention'[c][b] = attention[c][b] \/ (c = d /\ b = o /\ attention'[c][b] = next)
    <3>. HIDE DEF next, d, o
    <3>. QED  BY <1>0, <2>1, <2>2, <2>3, WriteRow
  <2>5. phase' = phase
    BY <1>2 DEF OpenAttention
  <2>. QED  BY <2>4, <2>5 DEF AttentionStep
<1>3. CASE \/ Tick \/ Age \/ (\E v \in Verdicts : Assess(v)) \/ Operate
           \/ UNCHANGED vars
  <2>1. attention' = attention
    BY <1>3
       DEF Tick, Age, Assess, Operate, AdvanceToExecuting, CompileApproval, PersistPlan,
           StartWork, EndWork, vars
  <2>. QED  BY <2>1 DEF AttentionStep
<1>4. ASSUME NEW p \in Passes,
             \/ DecideEscalation(p) \/ (\E d \in Cases : ReadBasis(p, d)) \/ Stop(p)
             \/ OpenCase(p) \/ LinkCase(p) \/ Decide(p) \/ CaptureBasis(p) \/ PrepareEnds(p)
             \/ StartPlanning(p)
             \/ \E outcome \in {"AWAITING_AUTHORITY", "NO_RECOVERY_FOUND"} : CompletePlan(p, outcome)
      PROVE  AttentionStep(c, b)
  <2>1. attention' = attention
    BY <1>4
       DEF DecideEscalation, ReadBasis, Stop, OpenCase, LinkCase, Decide, CaptureBasis, PrepareEnds,
           StartPlanning, CompletePlan
  <2>. QED  BY <2>1 DEF AttentionStep
<1>. QED  BY <1>1, <1>2, <1>3, <1>4 DEF Next, Continue

\* Assessments only grow, and keep the verdict that they were stored with.
LEMMA WorldKinds ==
  ASSUME TypeOK, [Next]_vars
  PROVE  \/ UNCHANGED <<latest, verdict>>
         \/ latest' = latest + 1 /\ UNCHANGED <<rows, pass>>
<1>. USE DEF world, rows
<1>1. CASE \/ Tick \/ Age \/ (\E v \in Verdicts : Assess(v)) \/ Operate
           \/ UNCHANGED vars
  BY <1>1
     DEF Tick, Age, Feed!Disturb, Feed!Expire, Feed!Resurface, Assess, Feed!Assess, Operate,
         AdvanceToExecuting, CompileApproval, PersistPlan, StartWork, EndWork, vars
<1>2. ASSUME NEW p \in Passes,
             \/ DecideEscalation(p) \/ (\E d \in Cases : ReadBasis(p, d)) \/ Continue(p) \/ Stop(p)
      PROVE  UNCHANGED <<latest, verdict>>
  BY <1>2
     DEF Continue, DecideEscalation, ReadBasis, Stop, OpenCase, LinkCase, SupersedeAttention,
         Decide, ResolveCase, OpenAttention, CaptureBasis, PrepareEnds, StartPlanning, CompletePlan
<1>. QED  BY <1>1, <1>2 DEF Next

\* The basis of a pass changes to the newest assessment or not at all.
BasisStep(p) ==
  \/ pass'[p].basis = pass[p].basis
  \/ pass'[p].basis \in {0, latest} /\ latest' = latest

LEMMA BasisKinds ==
  ASSUME TypeOK, [Next]_vars, NEW p \in Passes
  PROVE  BasisStep(p)
<1>. USE DEF world, rows
<1>0. pass \in [Passes -> Pass]
  BY DEF TypeOK
<1>1. CASE \/ Tick \/ Age \/ (\E v \in Verdicts : Assess(v)) \/ Operate
           \/ UNCHANGED vars
  <2>1. pass' = pass
    BY <1>1
       DEF Tick, Age, Assess, Operate, AdvanceToExecuting, CompileApproval, PersistPlan,
           StartWork, EndWork, vars
  <2>. QED  BY <2>1 DEF BasisStep
<1>2. ASSUME NEW q \in Passes,
             \/ DecideEscalation(q) \/ (\E d \in Cases : ReadBasis(q, d)) \/ Continue(q) \/ Stop(q)
      PROVE  BasisStep(p)
  <2>1. latest' = latest
    BY <1>2
       DEF Continue, DecideEscalation, ReadBasis, Stop, OpenCase, LinkCase, SupersedeAttention,
           Decide, ResolveCase, OpenAttention, CaptureBasis, PrepareEnds, StartPlanning, CompletePlan
  <2>2. CASE Done(q)
    BY <1>0, <2>1, <2>2 DEF Done, Idle, BasisStep
  <2>3. ASSUME NEW errand, GoTo(q, errand) PROVE BasisStep(p)
    BY <1>0, <2>3 DEF GoTo, BasisStep
  <2>4. CASE Continue(q) /\ ~CaptureBasis(q) /\ ~OpenCase(q)
    BY <2>2, <2>3, <2>4
       DEF Continue, LinkCase, SupersedeAttention, Decide, ResolveCase, OpenAttention, PrepareEnds,
           StartPlanning, CompletePlan
  <2>5. CASE OpenCase(q)
    <3>1. Done(q) \/ pass' = [pass EXCEPT ![q].at = "link", ![q].now = 0]
      BY <2>5 DEF OpenCase
    <3>2. CASE pass' = [pass EXCEPT ![q].at = "link", ![q].now = 0]
      <4>1. pass[q] \in Busy
        BY <2>5, BusyPass DEF OpenCase
      <4>2. pass'[q].basis = pass[q].basis
        BY <1>0, <3>2, <4>1 DEF Busy
      <4>3. p # q => pass'[p] = pass[p]
        BY <1>0, <3>2
      <4>. QED  BY <4>2, <4>3 DEF BasisStep
    <3>. QED  BY <2>2, <3>1, <3>2
  <2>6. CASE CaptureBasis(q)
    <3>1. ASSUME NEW b \in Assessments, NEW then, CurrentFail(b),
                 pass' = [pass EXCEPT ![q].at = then, ![q].basis = b]
          PROVE  BasisStep(p)
      <4>1. b = latest
        BY <3>1 DEF CurrentFail
      <4>2. pass[q] \in Busy
        BY <2>6, BusyPass DEF CaptureBasis
      <4>3. pass'[q].basis = b
        BY <1>0, <3>1, <4>2 DEF Busy
      <4>4. p # q => pass'[p] = pass[p]
        BY <1>0, <3>1
      <4>. QED  BY <2>1, <4>1, <4>3, <4>4 DEF BasisStep
    <3>. QED  BY <2>2, <2>6, <3>1 DEF CaptureBasis
  <2>7. CASE DecideEscalation(q)
    <3>1. PICK a \in Assessments :
            /\ Settled(a)
            /\ pass' = [pass EXCEPT ![q] =
                 IF OpenCases = {} THEN [at |-> "open", case |-> a, basis |-> a, now |-> clock]
                 ELSE [at |-> "link", case |-> FirstOpen, basis |-> a, now |-> 0]]
      BY <2>7 DEF DecideEscalation
    <3>2. pass'[q].basis = a /\ a = latest
      BY <1>0, <3>1 DEF Settled
    <3>3. p # q => pass'[p] = pass[p]
      BY <1>0, <3>1
    <3>. QED  BY <2>1, <3>2, <3>3 DEF BasisStep
  <2>8. ASSUME NEW d \in Cases, ReadBasis(q, d) PROVE BasisStep(p)
    <3>1. PICK b \in Assessments, at \in {"clear", "decide"} :
            /\ Settled(b)
            /\ pass' = [pass EXCEPT ![q] = [at |-> at, case |-> d, basis |-> b, now |-> 0]]
      BY <2>8 DEF ReadBasis
    <3>2. pass'[q].basis = b /\ b = latest
      BY <1>0, <3>1 DEF Settled
    <3>3. p # q => pass'[p] = pass[p]
      BY <1>0, <3>1
    <3>. QED  BY <2>1, <3>2, <3>3 DEF BasisStep
  <2>. QED  BY <1>2, <2>2, <2>4, <2>5, <2>6, <2>7, <2>8 DEF Stop
<1>. QED  BY <1>1, <1>2 DEF Next

\* A link is written once, by a pass that has its assessment, to a working case.
LinkStep(a) ==
  \/ linked'[a] = linked[a]
  \/ /\ linked[a] = 0 /\ phase[linked'[a]] \in Working
     /\ (\E p \in Passes : a = pass[p].basis)
     /\ UNCHANGED <<phase, latest, verdict>>

LEMMA LinkKinds ==
  ASSUME TypeOK, [Next]_vars, NEW a \in Assessments
  PROVE  LinkStep(a)
<1>. USE DEF world, rows
<1>1. CASE \/ Tick \/ Age \/ (\E v \in Verdicts : Assess(v)) \/ Operate
           \/ UNCHANGED vars
  <2>1. linked' = linked
    BY <1>1
       DEF Tick, Age, Assess, Operate, AdvanceToExecuting, CompileApproval, PersistPlan,
           StartWork, EndWork, vars
  <2>. QED  BY <2>1 DEF LinkStep
<1>2. ASSUME NEW p \in Passes, LinkCase(p) PROVE LinkStep(a)
  BY <1>2 DEF LinkCase, LinkStep, TypeOK
<1>3. ASSUME NEW p \in Passes,
             \/ DecideEscalation(p) \/ (\E d \in Cases : ReadBasis(p, d)) \/ Stop(p)
             \/ Continue(p) /\ ~LinkCase(p)
      PROVE  LinkStep(a)
  <2>1. linked' = linked
    BY <1>3
       DEF Continue, DecideEscalation, ReadBasis, Stop, OpenCase, SupersedeAttention,
           Decide, ResolveCase, OpenAttention, CaptureBasis, PrepareEnds, StartPlanning, CompletePlan
  <2>. QED  BY <2>1 DEF LinkStep
<1>. QED  BY <1>1, <1>2, <1>3 DEF Next, Continue

-----------------------------------------------------------------------------
(* The invariant *)

\* Nothing is linked, and no pass runs, for an assessment of the future.
PastOnly ==
  /\ \A a \in Assessments : linked[a] # 0 => a <= latest
  /\ \A p \in Passes : pass[p].basis <= latest

\* A case that has not got beyond planning has no options.
OptionsMovePhase ==
  \A c \in Cases, b \in Assessments :
    attempt[c][b] = "AWAITING_AUTHORITY" => phase[c] \notin {"none", "OPEN", "PLANNING"}

IInv ==
  /\ TypeOK
  /\ PastOnly
  /\ OptionsMovePhase
  /\ CoveredFailIsOpen
  /\ ResolvedHasNoAttention
  /\ PhaseMatchesOptions
  /\ ApprovedOptionStands

LEMMA InvInit == Init => IInv
<1>. SUFFICES ASSUME Init PROVE IInv
  OBVIOUS
<1>1. TypeOK
  BY TypeInit
<1>2. PastOnly /\ OptionsMovePhase /\ ApprovedOptionStands
  BY DEF Init, Feed!Init, PastOnly, OptionsMovePhase, ApprovedOptionStands, Idle, Cases
<1>3. CoveredFailIsOpen /\ ResolvedHasNoAttention /\ PhaseMatchesOptions
  BY DEF Init, Feed!Init, CoveredFailIsOpen, ResolvedHasNoAttention, PhaseMatchesOptions, Working
<1>. QED  BY <1>1, <1>2, <1>3 DEF IInv

LEMMA PastOnlyStep == TypeOK /\ PastOnly /\ [Next]_vars => PastOnly'
<1>. SUFFICES ASSUME TypeOK, PastOnly, [Next]_vars PROVE PastOnly'
  OBVIOUS
<1>1. latest \in Nat /\ latest' \in Nat /\ latest <= latest'
  BY WorldKinds, Bounds DEF TypeOK
<1>2. ASSUME NEW a \in Assessments, linked'[a] # 0 PROVE a <= latest'
  <2>1. a <= latest
    BY <1>2, LinkKinds DEF LinkStep, PastOnly
  <2>. QED  BY <1>1, <2>1, Bounds DEF Assessments
<1>3. ASSUME NEW p \in Passes PROVE pass'[p].basis <= latest'
  <2>1. pass[p].basis <= latest /\ pass[p].basis \in Nat
    BY Bounds DEF PastOnly, TypeOK, Pass, Idle, Assessments
  <2>. QED  BY <1>1, <2>1, BasisKinds DEF BasisStep
<1>. QED  BY <1>2, <1>3 DEF PastOnly

LEMMA OptionsMovePhaseStep ==
  TypeOK /\ OptionsMovePhase /\ ApprovedOptionStands /\ [Next]_vars => OptionsMovePhase'
<1>. SUFFICES ASSUME TypeOK, OptionsMovePhase, ApprovedOptionStands, [Next]_vars,
                     NEW c \in Cases, NEW b \in Assessments, attempt'[c][b] = "AWAITING_AUTHORITY"
              PROVE  phase'[c] \notin {"none", "OPEN", "PLANNING"}
  BY DEF OptionsMovePhase
<1>1. CASE attempt[c][b] # "AWAITING_AUTHORITY"
  BY <1>1, AttemptKinds DEF AttemptStep
<1>2. CASE attempt[c][b] = "AWAITING_AUTHORITY"
  <2>1. phase[c] \notin {"none", "OPEN", "PLANNING"}
    BY <1>2 DEF OptionsMovePhase
  <2>. QED  BY <2>1, PhaseKinds DEF PhaseStep, Forward, Working
<1>. QED  BY <1>1, <1>2

LEMMA CoveredFailIsOpenStep ==
  TypeOK /\ PastOnly /\ CoveredFailIsOpen /\ [Next]_vars => CoveredFailIsOpen'
<1>. SUFFICES ASSUME TypeOK, PastOnly, CoveredFailIsOpen, [Next]_vars,
                     NEW a \in Assessments, a = latest', Fails(a)', linked'[a] # 0
              PROVE  phase'[linked'[a]] \in Working
  BY DEF CoveredFailIsOpen
<1>1. a = latest /\ Fails(a) /\ UNCHANGED <<latest, verdict>>
  <2>1. a <= latest
    BY LinkKinds DEF LinkStep, PastOnly
  <2>2. latest \in Nat
    BY Bounds DEF TypeOK
  <2>3. ~(latest' = latest + 1)
    BY <2>1, <2>2
  <2>. QED  BY <2>3, WorldKinds DEF Fails
<1>2. linked'[a] \in Cases
  BY TypeStep DEF TypeOK
<1>3. phase[linked'[a]] \in Working
  BY <1>1, LinkKinds DEF LinkStep, CoveredFailIsOpen
<1>4. ~GateAllows(linked'[a])
  BY <1>1 DEF GateAllows, Settled, Fails
<1>. QED  BY <1>2, <1>3, <1>4, PhaseKinds DEF PhaseStep, Forward, Working

LEMMA ResolvedHasNoAttentionStep ==
  TypeOK /\ ResolvedHasNoAttention /\ [Next]_vars => ResolvedHasNoAttention'
<1>. SUFFICES ASSUME TypeOK, ResolvedHasNoAttention, [Next]_vars,
                     NEW c \in Cases, NEW b \in Assessments, phase'[c] = "RESOLVED"
              PROVE  attention'[c][b] # "OPEN"
  BY DEF ResolvedHasNoAttention
<1>1. CASE phase[c] = "RESOLVED"
  BY <1>1, AttentionKinds DEF AttentionStep, ResolvedHasNoAttention, Working
<1>2. CASE phase[c] # "RESOLVED"
  BY <1>2, PhaseKinds DEF PhaseStep, Forward
<1>. QED  BY <1>1, <1>2

LEMMA ApprovedOptionStandsStep ==
  TypeOK /\ ApprovedOptionStands /\ [Next]_vars => ApprovedOptionStands'
<1>. SUFFICES ASSUME TypeOK, ApprovedOptionStands, [Next]_vars,
                     NEW c \in Cases, NEW b \in Assessments,
                     <<c, b>> \in approving' \/ work'[c][b] # "none"
              PROVE  attempt'[c][b] = "AWAITING_AUTHORITY"
  BY DEF ApprovedOptionStands
<1>1. attempt[c][b] = "AWAITING_AUTHORITY"
  BY WorkKinds DEF PlanStep, ApprovalStep, ApprovedOptionStands
<1>. QED  BY <1>1, AttemptKinds DEF AttemptStep

LEMMA PhaseMatchesOptionsStep ==
  IInv /\ OptionsMovePhase' /\ [Next]_vars => PhaseMatchesOptions'
<1>. SUFFICES ASSUME IInv, OptionsMovePhase', [Next]_vars, NEW c \in Cases
              PROVE  /\ phase'[c] \in {"AWAITING_AUTHORITY", "EXECUTING"} =>
                          \E b \in Assessments : attempt'[c][b] = "AWAITING_AUTHORITY"
                     /\ phase'[c] = "EXECUTING" =>
                          \E b \in Assessments :
                            attempt'[c][b] = "AWAITING_AUTHORITY" /\ work'[c][b] # "none"
  BY DEF PhaseMatchesOptions, OptionsMovePhase
<1>1. ASSUME NEW b \in Assessments
      PROVE  /\ attempt[c][b] = "AWAITING_AUTHORITY" => attempt'[c][b] = "AWAITING_AUTHORITY"
             /\ work[c][b] # "none" => work'[c][b] # "none"
  <2>1. AttemptStep(c, b) /\ PlanStep(c, b)
    BY AttemptKinds, WorkKinds DEF IInv
  <2>. QED  BY <2>1 DEF AttemptStep, PlanStep
<1>2. CASE phase'[c] = phase[c]
  BY <1>1, <1>2 DEF IInv, PhaseMatchesOptions
<1>3. ASSUME NEW b \in Assessments, work[c][b] # "none"
      PROVE  attempt'[c][b] = "AWAITING_AUTHORITY" /\ work'[c][b] # "none"
  BY <1>1, <1>3 DEF IInv, ApprovedOptionStands
<1>4. CASE phase'[c] # phase[c]
  <2>1. CASE \E b \in Assessments : work[c][b] # "none"
    BY <1>3, <2>1
  <2>2. CASE \A b \in Assessments : work[c][b] = "none"
    BY <1>4, <2>2, PhaseKinds DEF PhaseStep, IInv
  <2>. QED  BY <2>1, <2>2
<1>. QED  BY <1>2, <1>4

LEMMA InvStep == IInv /\ [Next]_vars => IInv'
<1>. SUFFICES ASSUME IInv, [Next]_vars PROVE IInv'
  OBVIOUS
<1>1. OptionsMovePhase'
  BY OptionsMovePhaseStep DEF IInv
<1>. QED
  BY <1>1, TypeStep, PastOnlyStep, CoveredFailIsOpenStep, ResolvedHasNoAttentionStep,
     PhaseMatchesOptionsStep, ApprovedOptionStandsStep
     DEF IInv

\* The invariants of the cases, together with what makes them inductive.
THEOREM Invariance == Spec => []IInv
BY InvInit, InvStep, PTL DEF Spec

\* A FAIL that a case has taken over is not lost while it is the newest word on
\* the trip, whatever escalation, planning and resolution do at the same time.
THEOREM CoveredFailStaysOpen == Spec => []CoveredFailIsOpen
<1>1. IInv => CoveredFailIsOpen
  BY DEF IInv
<1>. QED  BY <1>1, Invariance, PTL

\* A resolved case never asks for a person, even if a pass decided to ask before.
THEOREM ResolvedAsksNobody == Spec => []ResolvedHasNoAttention
<1>1. IInv => ResolvedHasNoAttention
  BY DEF IInv
<1>. QED  BY <1>1, Invariance, PTL

\* The phase of a case agrees with its options and its approved plan.
THEOREM PhaseTellsOptions == Spec => []PhaseMatchesOptions
<1>1. IInv => PhaseMatchesOptions
  BY DEF IInv
<1>. QED  BY <1>1, Invariance, PTL

\* Concurrent planning never replaces options under an approval.
THEOREM ApprovedOptionsStand == Spec => []ApprovedOptionStands
<1>1. IInv => ApprovedOptionStands
  BY DEF IInv
<1>. QED  BY <1>1, Invariance, PTL

-----------------------------------------------------------------------------
(* Resolution *)

\* Any pass that resolves a case does so on what is true at that moment.
THEOREM ResolvedWasRecovered == Spec => ResolvesOnlyRecovered
<1>. DEFINE Recovered ==
       \A c \in Cases :
         phase[c] # "RESOLVED" /\ phase'[c] = "RESOLVED" =>
           /\ view # "PENDING" /\ verdict[latest] = "PASS"
           /\ \A b \in Assessments : work[c][b] \in {"none", "DONE"}
<1>1. TypeOK /\ [Next]_vars => Recovered
  <2>. SUFFICES ASSUME TypeOK, [Next]_vars, NEW c \in Cases,
                       phase[c] # "RESOLVED", phase'[c] = "RESOLVED"
                PROVE  /\ view # "PENDING" /\ verdict[latest] = "PASS"
                       /\ \A b \in Assessments : work[c][b] \in {"none", "DONE"}
    OBVIOUS
  <2>1. GateAllows(c)
    BY PhaseKinds DEF PhaseStep, Forward
  <2>2. \A b \in Assessments : work[c][b] \in Works
    BY DEF TypeOK
  <2>. QED  BY <2>1, <2>2 DEF GateAllows, Settled, Unfinished, Works
<1>2. TypeOK /\ [Next]_vars => [Recovered]_vars
  BY <1>1
<1>. QED  BY <1>2, TypeCorrect, PTL DEF Spec, ResolvesOnlyRecovered

-----------------------------------------------------------------------------
(* The world *)

\* Nothing that a pass, an operator or an execution does is an assessment or
\* ages one: the case runs on an AssessmentFeed and adds no demand to it, so
\* that what is proved here holds over the feed that Reassessment implements.
THEOREM WorldIsFeed == Spec => Feed!Spec
<1>1. Init => Feed!Init
  BY DEF Init
<1>2. [Next]_vars => [Feed!Next]_<<latest, view>>
  <2>. USE DEF world, rows
  <2>1. ASSUME NEW v \in Verdicts, Assess(v) PROVE Feed!Next
    BY <2>1 DEF Assess, Feed!Next
  <2>2. CASE Age
    BY <2>2 DEF Age, Feed!Next
  <2>3. CASE Tick \/ Operate \/ UNCHANGED vars
    BY <2>3 DEF Tick, Operate, AdvanceToExecuting, CompileApproval, PersistPlan, StartWork,
                EndWork, vars
  <2>4. ASSUME NEW p \in Passes,
               \/ DecideEscalation(p) \/ (\E d \in Cases : ReadBasis(p, d)) \/ Continue(p) \/ Stop(p)
        PROVE  UNCHANGED <<latest, view>>
    BY <2>4
       DEF Continue, DecideEscalation, ReadBasis, Stop, OpenCase, LinkCase, SupersedeAttention,
           Decide, ResolveCase, OpenAttention, CaptureBasis, PrepareEnds, StartPlanning, CompletePlan
  <2>. QED  BY <2>1, <2>2, <2>3, <2>4 DEF Next
<1>. QED  BY <1>1, <1>2, PTL DEF Spec, Feed!Spec
=============================================================================
