---------------------- MODULE InternalExecutionProofs ----------------------
(***************************************************************************)
(* Theorems about the internal execution passes, for any passes, plans,    *)
(* dependencies and operations, and any edits, throws and stops.           *)
(***************************************************************************)
EXTENDS InternalExecution, SequenceTheorems, WellFoundedInduction, TLAPS

-----------------------------------------------------------------------------
(* The inductive invariant *)

Working == {"claim", "schedule", "fail", "observe"}

Own(r, p) == r \in Revisions /\ Of[IntentAt(r)] = p

\* What a pass checked of an intent when it loaded it stays true.
Ready(i) == i \in approved /\ \A j \in Prerequisites(i) : Succeeded(j)

\* A revision that the change of i may expect: everything since the base is the
\* plan's own, the changes of the prerequisites among it.
Expects(i, v) ==
  /\ v \in base[Of[i]] .. Revision
  /\ \A s \in base[Of[i]] + 1 .. v : Own(s, Of[i])
  /\ \A j \in Prerequisites(i) : observed[j] \in 1 .. v

\* A pass at work has an attempt in flight that is applied when the pass is
\* about to observe it, and not before.
PassOK(q) ==
  LET i == pass[q].intent
      n == pass[q].n
  IN /\ \A a \in pass[q].todo : Ready(a[1])
     /\ pass[q].at \notin {"idle", "next"} => Ready(i)
     /\ pass[q].at \in {"prepare", "claim", "schedule", "fail"} => Expects(i, pass[q].revision)
     /\ pass[q].at \in Working =>
          /\ n \in DOMAIN row[i]
          /\ row[i][n] = IF pass[q].at = "claim" THEN "PREPARED" ELSE "DISPATCHED"
     /\ pass[q].at \in {"claim", "schedule", "fail"} => \A r \in Revisions : changes[r] # <<i, n>>
     /\ pass[q].at = "observe" =>
          pass[q].revision \in Revisions /\ changes[pass[q].revision] = <<i, n>>

OneOwner ==
  \A q, s \in Passes :
    /\ pass[q].at \in Working /\ pass[s].at \in Working
    /\ pass[q].intent = pass[s].intent /\ pass[q].n = pass[s].n
    => q = s

OneLive ==
  \A i, j \in Intents : \A n \in DOMAIN row[i], m \in DOMAIN row[j] :
    Operation[i] = Operation[j] /\ row[i][n] \in Live /\ row[j][m] \in Live => i = j /\ n = m

\* An attempt is applied at most once, and it stays live.
AppliedIsLive ==
  /\ \A r \in Revisions : changes[r][2] \in DOMAIN row[IntentAt(r)]
  /\ \A r, s \in Revisions : changes[r] = changes[s] => r = s

OnlySuccessIsObserved == \A i \in Intents : observed[i] # 0 => Some(i, "OBSERVED_SUCCESS")

PlansOK ==
  /\ \A p \in Plans : base[p] <= Revision
  /\ \A i \in approved : base[Of[i]] > 0

Rows == OneLive /\ AppliedIsLive /\ RecordTellsTruth /\ OnlySuccessIsObserved
Chains == PlansOK /\ ChainIsOwn /\ DependentsFollow

IInv == TypeOK /\ Rows /\ Chains /\ OneOwner /\ \A q \in Passes : PassOK(q)

-----------------------------------------------------------------------------
(* Types and small facts *)

PassType == [at : Stages, todo : SUBSET Attempts, intent : Intents \cup {Foreign},
             n : Nat, revision : Nat]

LEMMA IdleTyped == Idle \in PassType
BY DEF Idle, PassType, Stages

LEMMA RowTyped ==
  ASSUME TypeOK, NEW i \in Intents
  PROVE  /\ row[i] \in Seq(Statuses)
         /\ Len(row[i]) \in Nat
         /\ DOMAIN row[i] = 1 .. Len(row[i])
BY LenProperties DEF TypeOK

LEMMA ChangesTyped ==
  ASSUME TypeOK
  PROVE  /\ Revision \in Nat
         /\ Revisions \subseteq 1 .. Revision
         /\ \A r \in 1 .. Revision : changes[r] \in Attempts \cup {Foreign}
         /\ \A r \in Revisions : /\ changes[r] \in Attempts
                                 /\ IntentAt(r) \in Intents
                                 /\ changes[r][2] \in Nat
                                 /\ changes[r] = <<IntentAt(r), changes[r][2]>>
<1>1. changes \in Seq(Attempts \cup {Foreign})
  BY DEF TypeOK
<1>2. \A r \in 1 .. Len(changes) : changes[r] \in Attempts \cup {Foreign}
  BY <1>1, ElementOfSeq
<1>3. \A a \in Attempts : a[1] \in Intents /\ a[2] \in Nat /\ a = <<a[1], a[2]>>
  BY DEF Attempts
<1>. QED  BY <1>1, <1>2, <1>3, LenProperties DEF Revision, Revisions, IntentAt

\* One more change at the end.
LEMMA ChangesAppended ==
  ASSUME TypeOK, NEW c \in Attempts \cup {Foreign}, changes' = Append(changes, c)
  PROVE  /\ changes' \in Seq(Attempts \cup {Foreign})
         /\ Revision' = Revision + 1
         /\ \A r \in 1 .. Revision : changes'[r] = changes[r]
         /\ changes'[Revision + 1] = c
         /\ Revisions' = Revisions \cup (IF c = Foreign THEN {} ELSE {Revision + 1})
<1>1. changes \in Seq(Attempts \cup {Foreign})
  BY DEF TypeOK
<1>2. /\ changes' \in Seq(Attempts \cup {Foreign})
      /\ Len(changes') = Len(changes) + 1
      /\ \A r \in 1 .. Len(changes) : changes'[r] = changes[r]
      /\ changes'[Len(changes) + 1] = c
  BY <1>1, AppendProperties
<1>3. Len(changes) \in Nat
  BY <1>1, LenProperties
<1>4. Revisions' = Revisions \cup (IF c = Foreign THEN {} ELSE {Len(changes) + 1})
  BY <1>2, <1>3 DEF Revisions
<1>. QED  BY <1>2, <1>4 DEF Revision

\* A new attempt at the end of the attempts of i.
LEMMA RowAppended ==
  ASSUME TypeOK, NEW i \in Intents, row' = [row EXCEPT ![i] = Append(@, "PREPARED")]
  PROVE  /\ row' \in [Intents -> Seq(Statuses)]
         /\ DOMAIN row'[i] = 1 .. Len(row[i]) + 1
         /\ row'[i][Len(row[i]) + 1] = "PREPARED"
         /\ \A j \in Intents : \A m \in DOMAIN row[j] : m \in DOMAIN row'[j] /\ row'[j][m] = row[j][m]
         /\ \A j \in Intents : \A m \in DOMAIN row'[j] :
              m \in DOMAIN row[j] \/ (j = i /\ m = Len(row[i]) + 1)
<1>1. row[i] \in Seq(Statuses) /\ "PREPARED" \in Statuses
  BY RowTyped DEF Statuses, InFlight
<1>2. /\ Append(row[i], "PREPARED") \in Seq(Statuses)
      /\ Len(Append(row[i], "PREPARED")) = Len(row[i]) + 1
      /\ \A m \in 1 .. Len(row[i]) : Append(row[i], "PREPARED")[m] = row[i][m]
      /\ Append(row[i], "PREPARED")[Len(row[i]) + 1] = "PREPARED"
  BY <1>1, AppendProperties
<1>3. row'[i] = Append(row[i], "PREPARED") /\ \A j \in Intents : j # i => row'[j] = row[j]
  BY DEF TypeOK
<1>4. row' \in [Intents -> Seq(Statuses)]
  BY <1>2 DEF TypeOK
<1>5. DOMAIN row'[i] = 1 .. Len(row[i]) + 1 /\ DOMAIN row[i] = 1 .. Len(row[i]) /\ Len(row[i]) \in Nat
  BY <1>2, <1>3, LenProperties, RowTyped
<1>. QED  BY <1>2, <1>3, <1>4, <1>5

\* An attempt that changes its status.
LEMMA RowMarked ==
  ASSUME TypeOK, NEW i \in Intents, NEW n \in DOMAIN row[i], NEW to \in Statuses,
         row' = [row EXCEPT ![i][n] = to]
  PROVE  /\ row' \in [Intents -> Seq(Statuses)]
         /\ \A j \in Intents : DOMAIN row'[j] = DOMAIN row[j]
         /\ row'[i][n] = to
         /\ \A j \in Intents : \A m \in DOMAIN row[j] : j # i \/ m # n => row'[j][m] = row[j][m]
<1>1. row[i] \in Seq(Statuses) /\ n \in 1 .. Len(row[i])
  BY RowTyped
<1>2. /\ [row[i] EXCEPT ![n] = to] \in Seq(Statuses)
      /\ \A m \in 1 .. Len(row[i]) : [row[i] EXCEPT ![n] = to][m] = IF m = n THEN to ELSE row[i][m]
  BY <1>1, ExceptSeq
<1>3. row'[i] = [row[i] EXCEPT ![n] = to] /\ \A j \in Intents : j # i => row'[j] = row[j]
  BY DEF TypeOK
<1>4. row' \in [Intents -> Seq(Statuses)]
  BY <1>2 DEF TypeOK
<1>5. DOMAIN row'[i] = DOMAIN row[i] /\ DOMAIN row[i] = 1 .. Len(row[i])
  BY <1>3, RowTyped
<1>. QED  BY <1>2, <1>3, <1>4, <1>5

LEMMA TroubleTyped ==
  ASSUME TypeOK, Trouble \/ UNCHANGED trouble
  PROVE  trouble' \in 0 .. MaxTrouble
BY Bounds DEF TypeOK, Trouble

LEMMA PassTyped ==
  ASSUME TypeOK, NEW q \in Passes
  PROVE  /\ pass[q] \in PassType
         /\ pass[q].at \notin {"idle", "next"} => pass[q].intent \in Intents
BY DEF TypeOK, PassType

LEMMA PassWritten ==
  ASSUME TypeOK, NEW q \in Passes, NEW x \in PassType, pass' = [pass EXCEPT ![q] = x],
         x.at \notin {"idle", "next"} => x.intent \in Intents
  PROVE  /\ pass' \in [Passes -> PassType]
         /\ pass'[q] = x
         /\ \A s \in Passes : s # q => pass'[s] = pass[s]
         /\ \A s \in Passes : pass'[s].at \notin {"idle", "next"} => pass'[s].intent \in Intents
BY DEF TypeOK, PassType

LEMMA GoWritten ==
  ASSUME TypeOK, NEW q \in Passes, NEW at \in Stages, Go(q, at), pass[q].intent \in Intents
  PROVE  /\ pass' \in [Passes -> PassType]
         /\ pass'[q] = [pass[q] EXCEPT !.at = at]
         /\ pass'[q] \in PassType
         /\ \A s \in Passes : s # q => pass'[s] = pass[s]
         /\ \A s \in Passes : pass'[s].at \notin {"idle", "next"} => pass'[s].intent \in Intents
<1>. DEFINE x == [pass[q] EXCEPT !.at = at]
<1>1. pass[q] \in PassType
  BY PassTyped
<1>2. x \in PassType /\ x.intent = pass[q].intent
  BY <1>1 DEF PassType
<1>3. pass' = [pass EXCEPT ![q] = x]
  BY DEF Go, TypeOK
<1>. QED  BY <1>2, <1>3, PassWritten

LEMMA ResumeWritten ==
  ASSUME TypeOK, NEW q \in Passes, Resume(q)
  PROVE  /\ pass' \in [Passes -> PassType]
         /\ pass'[q].at \in {"idle", "next"}
         /\ pass'[q].todo = pass[q].todo
         /\ \A s \in Passes : s # q => pass'[s] = pass[s]
         /\ \A s \in Passes : pass'[s].at \notin {"idle", "next"} => pass'[s].intent \in Intents
<1>. DEFINE at == IF pass[q].todo = {} THEN "idle" ELSE "next"
            x == [Idle EXCEPT !.at = at, !.todo = pass[q].todo]
<1>1. x \in PassType /\ x.at = at /\ x.todo = pass[q].todo
  BY PassTyped, IdleTyped DEF PassType, Idle, Stages
<1>2. pass' = [pass EXCEPT ![q] = x]
  BY DEF Resume
<1>. HIDE DEF x
<1>3. x.at \in {"idle", "next"}
  BY <1>1
<1>. QED  BY <1>1, <1>2, <1>3, PassWritten

-----------------------------------------------------------------------------
(* What is not touched stays as it is *)

LEMMA ReadyPlan ==
  ASSUME IInv, NEW i, Ready(i)
  PROVE  /\ i \in Intents
         /\ Of[i] \in Plans
         /\ base[Of[i]] \in Nat \ {0}
         /\ Prerequisites(i) \subseteq Intents
         /\ \A j \in Prerequisites(i) : Of[j] = Of[i] /\ Succeeded(j)
<1>1. i \in Intents /\ base[Of[i]] > 0
  BY DEF IInv, TypeOK, Chains, PlansOK, Ready
<1>2. Of[i] \in Plans
  BY <1>1, PlansOfIntents
<1>3. base[Of[i]] \in Nat
  BY <1>2 DEF IInv, TypeOK
<1>. QED  BY <1>1, <1>2, <1>3, NeedsStayInPlan DEF Ready, Prerequisites

LEMMA PassStays ==
  ASSUME IInv, NEW q \in Passes, pass'[q] = pass[q],
         approved \subseteq approved',
         \A p \in Plans : base[p] # 0 => base'[p] = base[p],
         Revision' \in Nat, Revision' >= Revision,
         Revisions \subseteq Revisions',
         \A r \in Revisions : changes'[r] = changes[r],
         pass[q].at \in Working =>
           \A r \in Revisions' \ Revisions : changes'[r] # <<pass[q].intent, pass[q].n>>,
         \A i \in Intents : Succeeded(i) => Succeeded(i)' /\ observed'[i] = observed[i],
         pass[q].at \in Working =>
           /\ pass[q].n \in DOMAIN row'[pass[q].intent]
           /\ row'[pass[q].intent][pass[q].n] = row[pass[q].intent][pass[q].n]
  PROVE  PassOK(q)'
<1>1. PICK x : x = pass[q]
  OBVIOUS
<1>. DEFINE i == x.intent
            n == x.n
<1>2. TypeOK /\ PassOK(q) /\ pass[q] = x /\ pass'[q] = x
  BY <1>1 DEF IInv
<1>3. ASSUME NEW k, Ready(k) PROVE Ready(k)'
  BY <1>3, ReadyPlan DEF Ready, Prerequisites
<1>4. ASSUME NEW v, Ready(i), Expects(i, v) PROVE Expects(i, v)'
  <2>1. base'[Of[i]] = base[Of[i]]
    BY <1>4, ReadyPlan
  <2>2. v \in base'[Of[i]] .. Revision'
    BY <1>2, <1>4, <2>1, ReadyPlan, ChangesTyped DEF Expects
  <2>3. \A r \in base'[Of[i]] + 1 .. v : Own(r, Of[i])'
    BY <1>2, <1>4, <2>1 DEF Expects, Own, IntentAt
  <2>4. \A j \in Prerequisites(i) : observed'[j] \in 1 .. v
    BY <1>4, ReadyPlan DEF Expects
  <2>. QED  BY <2>2, <2>3, <2>4 DEF Expects, Prerequisites
<1>5. \A a \in x.todo : Ready(a[1])'
  BY <1>2, <1>3 DEF PassOK
<1>6. x.at \notin {"idle", "next"} => Ready(i)'
  BY <1>2, <1>3 DEF PassOK
<1>7. x.at \in {"prepare", "claim", "schedule", "fail"} => Expects(i, x.revision)'
  BY <1>2, <1>4 DEF PassOK
<1>8. x.at \in Working =>
        /\ n \in DOMAIN row'[i]
        /\ row'[i][n] = IF x.at = "claim" THEN "PREPARED" ELSE "DISPATCHED"
  BY <1>2 DEF PassOK
<1>9. x.at \in {"claim", "schedule", "fail"} => \A r \in Revisions' : changes'[r] # <<i, n>>
  BY <1>2 DEF PassOK, Working
<1>10. x.at = "observe" => x.revision \in Revisions' /\ changes'[x.revision] = <<i, n>>
  BY <1>2 DEF PassOK
<1>. QED  BY <1>2, <1>5, <1>6, <1>7, <1>8, <1>9, <1>10 DEF PassOK

LEMMA RowsFrame ==
  ASSUME Rows, UNCHANGED <<changes, row, observed>>
  PROVE  Rows'
BY DEF Rows, OneLive, AppliedIsLive, RecordTellsTruth, OnlySuccessIsObserved, Revisions, IntentAt,
       StatusAt, Some

LEMMA ChainsFrame ==
  ASSUME Chains, UNCHANGED <<changes, base, approved, observed>>
  PROVE  Chains'
BY DEF Chains, PlansOK, ChainIsOwn, DependentsFollow, Revisions, Revision, IntentAt, Prerequisites

\* A pass that is not at work owns no attempt.
LEMMA OwnersFrame ==
  ASSUME OneOwner, NEW q \in Passes, pass'[q].at \notin Working,
         \A s \in Passes : s # q => pass'[s] = pass[s]
  PROVE  OneOwner'
BY DEF OneOwner

LEMMA OwnersGoOn ==
  ASSUME OneOwner, NEW q \in Passes, pass[q].at \in Working,
         pass'[q].intent = pass[q].intent, pass'[q].n = pass[q].n,
         \A s \in Passes : s # q => pass'[s] = pass[s]
  PROVE  OneOwner'
<1>. SUFFICES ASSUME NEW t \in Passes, NEW s \in Passes,
                     pass'[t].at \in Working, pass'[s].at \in Working,
                     pass'[t].intent = pass'[s].intent, pass'[t].n = pass'[s].n
              PROVE  t = s
  BY DEF OneOwner
<1>1. ASSUME NEW u \in Passes, pass'[u].at \in Working
      PROVE  pass[u].at \in Working /\ pass'[u].intent = pass[u].intent /\ pass'[u].n = pass[u].n
  BY <1>1
<1>. QED  BY <1>1 DEF OneOwner

-----------------------------------------------------------------------------
(* Steps of plans and of the world *)

LEMMA PlanStep ==
  ASSUME IInv, UNCHANGED <<changes, row, observed, pass>>, TypeOK', Chains',
         approved \subseteq approved', \A p \in Plans : base[p] # 0 => base'[p] = base[p]
  PROVE  IInv'
<1>1. Rows'
  BY RowsFrame DEF IInv
<1>2. OneOwner'
  BY DEF IInv, OneOwner
<1>3. Revision' = Revision /\ Revisions' = Revisions
  BY DEF Revision, Revisions
<1>4. Revision \in Nat
  BY ChangesTyped DEF IInv
<1>5. ASSUME NEW q \in Passes PROVE PassOK(q)'
  <2>1. pass[q].at \in Working => pass[q].n \in DOMAIN row[pass[q].intent]
    BY DEF IInv, PassOK
  <2>. QED  BY <1>3, <1>4, <2>1, PassStays DEF Succeeded, Some
<1>. QED  BY <1>1, <1>2, <1>5 DEF IInv

LEMMA CompileStep ==
  ASSUME IInv, NEW p \in Plans, Compile(p)
  PROVE  IInv'
<1>1. Revision \in Nat /\ \A r \in Revisions : Of[IntentAt(r)] \in Plans
  BY ChangesTyped, PlansOfIntents DEF IInv
<1>2. TypeOK'
  BY <1>1 DEF IInv, TypeOK, Compile, world
<1>3. /\ UNCHANGED <<changes, approved, observed, row, pass>>
      /\ \A r \in Plans : base[r] # 0 => base'[r] = base[r]
      /\ \A r \in Plans : base'[r] = base[r] \/ (r = p /\ base'[r] = Revision)
      /\ base \in [Plans -> Nat]
  BY DEF IInv, TypeOK, Compile, world
<1>4. PlansOK'
  <2>1. \A i \in approved : base'[Of[i]] > 0
    <3>1. \A i \in approved : Of[i] \in Plans /\ base[Of[i]] > 0
      BY PlansOfIntents DEF IInv, TypeOK, Chains, PlansOK
    <3>2. \A i \in approved : base'[Of[i]] = base[Of[i]]
      BY <1>3, <3>1
    <3>. QED  BY <3>1, <3>2
  <2>2. Revision' = Revision
    BY <1>3 DEF Revision
  <2>. QED  BY <1>1, <1>3, <2>1, <2>2 DEF IInv, Chains, PlansOK
<1>5. ChainIsOwn'
  <2>1. \A r \in Revisions : base[Of[IntentAt(r)]] \in 1 .. r - 1
    BY DEF IInv, Chains, ChainIsOwn
  <2>2. \A r \in Revisions : base'[Of[IntentAt(r)]] = base[Of[IntentAt(r)]]
    BY <1>1, <1>3, <2>1
  <2>. QED  BY <1>3, <2>2 DEF IInv, Chains, ChainIsOwn, Revisions, IntentAt
<1>6. DependentsFollow'
  BY <1>3 DEF IInv, Chains, DependentsFollow, Revisions, IntentAt, Prerequisites
<1>. QED  BY <1>2, <1>3, <1>4, <1>5, <1>6, PlanStep DEF Chains

LEMMA ApproveStep ==
  ASSUME IInv, NEW i \in Intents, Approve(i)
  PROVE  IInv'
<1>1. TypeOK'
  BY DEF IInv, TypeOK, Approve, world
<1>2. Chains'
  BY DEF IInv, Chains, PlansOK, ChainIsOwn, DependentsFollow, Approve, world, Revisions, Revision,
         IntentAt, Prerequisites
<1>. QED  BY <1>1, <1>2, PlanStep DEF Approve, world

LEMMA AuthorityStep ==
  ASSUME IInv, NEW p \in Plans, Lapse(p) \/ Restore(p) \/ Close(p)
  PROVE  IInv'
<1>1. UNCHANGED <<changes, current, base, approved, row, observed, pass>>
  BY DEF Lapse, Restore, Close, world
<1>2. lapsed' \subseteq Plans /\ closed' \subseteq Plans /\ trouble' \in 0 .. MaxTrouble
  BY TroubleTyped DEF IInv, TypeOK, Lapse, Restore, Close
<1>3. TypeOK'
  BY <1>1, <1>2 DEF IInv, TypeOK
<1>4. Chains'
  BY <1>1, ChainsFrame DEF IInv
<1>. QED  BY <1>1, <1>3, <1>4, PlanStep

LEMMA QuietStep ==
  ASSUME IInv, Unsettle \/ Reassess \/ UNCHANGED vars
  PROVE  IInv'
<1>1. UNCHANGED <<changes, base, approved, lapsed, closed, row, observed, pass>>
  BY DEF Unsettle, Reassess, vars, world, plans
<1>2. trouble' \in 0 .. MaxTrouble
  BY TroubleTyped DEF IInv, Unsettle, Reassess, vars
<1>3. TypeOK'
  <2>1. CASE UNCHANGED vars
    BY <1>1, <1>2, <2>1 DEF IInv, TypeOK, vars, world
  <2>2. CASE current' \in BOOLEAN
    BY <1>1, <1>2, <2>2 DEF IInv, TypeOK
  <2>. QED  BY <2>1, <2>2 DEF Unsettle, Reassess
<1>4. Chains'
  BY <1>1, ChainsFrame DEF IInv
<1>. QED  BY <1>1, <1>3, <1>4, PlanStep

LEMMA EditStep ==
  ASSUME IInv, Edit
  PROVE  IInv'
<1>1. UNCHANGED <<base, approved, lapsed, closed, row, observed, pass>>
  BY DEF Edit, plans
<1>2. /\ changes' \in Seq(Attempts \cup {Foreign})
      /\ Revision' = Revision + 1
      /\ \A r \in 1 .. Revision : changes'[r] = changes[r]
      /\ Revisions' = Revisions
  BY ChangesAppended DEF IInv, Edit
<1>3. Revision \in Nat /\ Revisions \subseteq 1 .. Revision
  BY ChangesTyped DEF IInv
<1>4. \A r \in Revisions : changes'[r] = changes[r] /\ IntentAt(r)' = IntentAt(r)
  BY <1>2, <1>3 DEF IntentAt
<1>5. TypeOK'
  <2>1. trouble' \in 0 .. MaxTrouble /\ current' \in BOOLEAN
    BY TroubleTyped DEF IInv, Edit
  <2>. QED  BY <1>1, <1>2, <2>1 DEF IInv, TypeOK
<1>6. Rows'
  <2>1. \A r \in Revisions : StatusAt(r)' = StatusAt(r)
    BY <1>1, <1>4 DEF StatusAt
  <2>. QED  BY <1>1, <1>2, <1>4, <2>1 DEF IInv, Rows, OneLive, AppliedIsLive, RecordTellsTruth,
                OnlySuccessIsObserved, Some
<1>7. Chains'
  <2>1. PlansOK'
    BY <1>1, <1>2, <1>3 DEF IInv, TypeOK, Chains, PlansOK
  <2>2. ChainIsOwn' /\ DependentsFollow'
    BY <1>1, <1>2, <1>4 DEF IInv, Chains, ChainIsOwn, DependentsFollow, Prerequisites
  <2>. QED  BY <2>1, <2>2 DEF Chains
<1>8. OneOwner'
  BY <1>1 DEF IInv, OneOwner
<1>9. ASSUME NEW q \in Passes PROVE PassOK(q)'
  <2>1. pass[q].at \in Working => pass[q].n \in DOMAIN row[pass[q].intent]
    BY DEF IInv, PassOK
  <2>. QED  BY <1>1, <1>2, <1>3, <1>4, <2>1, PassStays DEF Succeeded, Some
<1>. QED  BY <1>5, <1>6, <1>7, <1>8, <1>9 DEF IInv

-----------------------------------------------------------------------------
(* Steps of a pass that write nothing *)

LEMMA PassOnlyStep ==
  ASSUME IInv, NEW q \in Passes, UNCHANGED <<changes, base, approved, row, observed>>, TypeOK',
         \A s \in Passes : s # q => pass'[s] = pass[s],
         OneOwner', PassOK(q)'
  PROVE  IInv'
<1>1. Rows' /\ Chains'
  BY RowsFrame, ChainsFrame DEF IInv
<1>2. Revision' = Revision /\ Revisions' = Revisions
  BY DEF Revision, Revisions
<1>3. Revision \in Nat
  BY ChangesTyped DEF IInv
<1>4. ASSUME NEW s \in Passes, s # q PROVE PassOK(s)'
  <2>1. pass[s].at \in Working => pass[s].n \in DOMAIN row[pass[s].intent]
    BY DEF IInv, PassOK
  <2>. QED  BY <1>2, <1>3, <1>4, <2>1, PassStays DEF Succeeded, Some
<1>. QED  BY <1>1, <1>4 DEF IInv

\* The pass stops, starts or goes on, with work that it had checked.
LEMMA ResumedStep ==
  ASSUME IInv, NEW q \in Passes, UNCHANGED <<changes, base, approved, row, observed>>, TypeOK',
         \A s \in Passes : s # q => pass'[s] = pass[s],
         pass'[q].at \in {"idle", "next"}, \A a \in pass'[q].todo : Ready(a[1])
  PROVE  IInv'
<1>1. PassOK(q)'
  BY DEF PassOK, Working, Ready, Succeeded, Some, Prerequisites
<1>2. OneOwner'
  BY OwnersFrame DEF IInv, Working
<1>. QED  BY <1>1, <1>2, PassOnlyStep

LEMMA CandidatesReady == \A i \in Candidates : i \in approved /\ Ready(i)
BY DEF Candidates, Ready

LEMMA BeginStep ==
  ASSUME IInv, NEW q \in Passes, Begin(q)
  PROVE  IInv'
<1>. DEFINE x == [Idle EXCEPT !.at = "next", !.todo = {<<i, Len(row[i]) + 1>> : i \in Candidates}]
<1>1. TypeOK
  BY DEF IInv
<1>2. {<<i, Len(row[i]) + 1>> : i \in Candidates} \in SUBSET Attempts
  BY <1>1, RowTyped DEF Candidates, Attempts, TypeOK
<1>3. x \in PassType /\ x.at = "next" /\ x.todo = {<<i, Len(row[i]) + 1>> : i \in Candidates}
  BY <1>2 DEF PassType, Idle, Stages
<1>4. pass' = [pass EXCEPT ![q] = x] /\ UNCHANGED <<world, plans, row, observed, trouble>>
  BY DEF Begin
<1>. HIDE DEF x
<1>5. /\ pass' \in [Passes -> PassType]
      /\ pass'[q] = x
      /\ \A s \in Passes : s # q => pass'[s] = pass[s]
      /\ \A s \in Passes : pass'[s].at \notin {"idle", "next"} => pass'[s].intent \in Intents
  BY <1>1, <1>3, <1>4, PassWritten
<1>6. TypeOK'
  BY <1>1, <1>4, <1>5 DEF TypeOK, PassType, world, plans
<1>7. \A a \in x.todo : Ready(a[1])
  BY <1>3, CandidatesReady
<1>. QED  BY <1>3, <1>4, <1>5, <1>6, <1>7, ResumedStep DEF world, plans

LEMMA LeavesOffStep ==
  ASSUME IInv, NEW q \in Passes, Refuse(q) \/ Throw(q)
  PROVE  IInv'
<1>1. TypeOK /\ PassOK(q)
  BY DEF IInv
<1>2. Resume(q) /\ UNCHANGED <<world, plans, row, observed>> /\ trouble' \in 0 .. MaxTrouble
  BY <1>1, TroubleTyped DEF Refuse, Throw
<1>3. TypeOK'
  BY <1>1, <1>2, ResumeWritten DEF TypeOK, PassType, world, plans
<1>. QED  BY <1>1, <1>2, <1>3, ResumeWritten, ResumedStep DEF PassOK, world, plans

LEMMA StopStep ==
  ASSUME IInv, NEW q \in Passes, Stop(q)
  PROVE  IInv'
<1>1. TypeOK
  BY DEF IInv
<1>2. /\ pass' = [pass EXCEPT ![q] = Idle]
      /\ UNCHANGED <<world, plans, row, observed>>
      /\ trouble' \in 0 .. MaxTrouble
  BY <1>1, TroubleTyped DEF Stop
<1>3. Idle.at = "idle" /\ Idle.todo = {}
  BY DEF Idle
<1>4. /\ pass' \in [Passes -> PassType]
      /\ pass'[q] = Idle
      /\ \A s \in Passes : s # q => pass'[s] = pass[s]
      /\ \A s \in Passes : pass'[s].at \notin {"idle", "next"} => pass'[s].intent \in Intents
  BY <1>1, <1>2, <1>3, IdleTyped, PassWritten
<1>5. TypeOK'
  BY <1>1, <1>2, <1>4 DEF TypeOK, PassType, world, plans
<1>. QED  BY <1>2, <1>3, <1>4, <1>5, ResumedStep DEF world, plans

-----------------------------------------------------------------------------
(* Loading *)

\* A prerequisite's observed revision is a change of the plan, with only the
\* plan's own before it.
LEMMA ObservedIsOwn ==
  ASSUME IInv, NEW j \in Intents, Succeeded(j)
  PROVE  /\ observed[j] \in base[Of[j]] + 1 .. Revision
         /\ \A s \in base[Of[j]] + 1 .. observed[j] : Own(s, Of[j])
<1>1. observed[j] \in Revisions /\ IntentAt(observed[j]) = j
  BY DEF IInv, Rows, RecordTellsTruth, Succeeded
<1>2. base[Of[j]] \in 1 .. observed[j] - 1
  BY <1>1 DEF IInv, Chains, ChainIsOwn
<1>3. \A s \in base[Of[j]] + 1 .. observed[j] : s \in Revisions /\ Of[IntentAt(s)] = Of[j]
  BY <1>1 DEF IInv, Chains, ChainIsOwn
<1>4. observed[j] \in 1 .. Revision /\ Revision \in Nat
  BY <1>1, ChangesTyped DEF IInv
<1>. QED  BY <1>2, <1>3, <1>4 DEF Own

LEMMA LoadedExpects ==
  ASSUME IInv, NEW i, Ready(i),
         NEW sources, sources = (IF ObservedRevisions(i) # {} THEN ObservedRevisions(i) ELSE {base[Of[i]]}),
         NEW r \in sources, \A s \in sources : s <= r
  PROVE  Expects(i, r)
<1>1. /\ i \in Intents /\ base[Of[i]] \in Nat \ {0} /\ base[Of[i]] <= Revision
      /\ Prerequisites(i) \subseteq Intents
      /\ \A j \in Prerequisites(i) : Of[j] = Of[i] /\ Succeeded(j)
  BY ReadyPlan DEF IInv, Chains, PlansOK
<1>2. Revision \in Nat
  BY ChangesTyped DEF IInv
<1>3. \A j \in Prerequisites(i) :
        /\ observed[j] \in base[Of[i]] + 1 .. Revision
        /\ \A s \in base[Of[i]] + 1 .. observed[j] : Own(s, Of[i])
        /\ observed[j] \in ObservedRevisions(i)
  <2>. SUFFICES ASSUME NEW j \in Prerequisites(i)
                PROVE  /\ observed[j] \in base[Of[i]] + 1 .. Revision
                       /\ \A s \in base[Of[i]] + 1 .. observed[j] : Own(s, Of[i])
                       /\ observed[j] \in ObservedRevisions(i)
    OBVIOUS
  <2>1. j \in Intents /\ Of[j] = Of[i] /\ Succeeded(j)
    BY <1>1
  <2>2. /\ observed[j] \in base[Of[i]] + 1 .. Revision
        /\ \A s \in base[Of[i]] + 1 .. observed[j] : Own(s, Of[i])
    BY <2>1, ObservedIsOwn
  <2>3. observed[j] # 0
    BY <1>1, <1>2, <2>2
  <2>. QED  BY <2>1, <2>2, <2>3 DEF ObservedRevisions
<1>4. CASE Prerequisites(i) = {}
  <2>1. sources = {base[Of[i]]}
    BY <1>4 DEF ObservedRevisions
  <2>. QED  BY <1>1, <1>2, <1>4, <2>1 DEF Expects
<1>5. CASE Prerequisites(i) # {}
  <2>1. sources = ObservedRevisions(i)
    BY <1>3, <1>5
  <2>2. PICK j \in Prerequisites(i) : r = observed[j]
    BY <2>1 DEF ObservedRevisions
  <2>3. \A k \in Prerequisites(i) : observed[k] <= r
    BY <1>3, <2>1
  <2>4. \A k \in Prerequisites(i) : observed[k] \in 1 .. r
    BY <1>1, <1>2, <1>3, <2>2, <2>3
  <2>. QED  BY <1>1, <1>2, <1>3, <2>2, <2>4 DEF Expects
<1>. QED  BY <1>4, <1>5

LEMMA LoadStep ==
  ASSUME IInv, NEW q \in Passes, Load(q)
  PROVE  IInv'
<1>1. TypeOK /\ PassOK(q) /\ pass[q] \in PassType
  BY PassTyped DEF IInv
<1>2. PICK a \in pass[q].todo :
        LET sources == IF ObservedRevisions(a[1]) # {} THEN ObservedRevisions(a[1])
                                                       ELSE {base[Of[a[1]]]}
        IN \E r \in sources :
             /\ \A s \in sources : s <= r
             /\ pass' = [pass EXCEPT ![q] =
                  [at |-> "prepare", todo |-> @.todo \ {a}, intent |-> a[1], n |-> a[2], revision |-> r]]
  BY DEF Load
<1>. DEFINE sources == IF ObservedRevisions(a[1]) # {} THEN ObservedRevisions(a[1])
                                                       ELSE {base[Of[a[1]]]}
<1>3. PICK r \in sources :
        /\ \A s \in sources : s <= r
        /\ pass' = [pass EXCEPT ![q] =
             [at |-> "prepare", todo |-> @.todo \ {a}, intent |-> a[1], n |-> a[2], revision |-> r]]
  BY <1>2
<1>4. UNCHANGED <<world, plans, row, observed, trouble>>
  BY DEF Load
<1>5. Ready(a[1]) /\ \A b \in pass[q].todo : Ready(b[1])
  BY <1>1 DEF PassOK
<1>6. Expects(a[1], r)
  BY <1>3, <1>5, LoadedExpects
<1>7. a[1] \in Intents /\ a[2] \in Nat /\ r \in Nat
  <2>1. a \in Attempts
    BY <1>1 DEF PassType
  <2>2. base[Of[a[1]]] \in Nat \ {0} /\ Revision \in Nat
    BY <1>1, <1>5, ReadyPlan, ChangesTyped
  <2>. QED  BY <1>6, <2>1, <2>2 DEF Attempts, Expects
<1>. DEFINE x == [at |-> "prepare", todo |-> pass[q].todo \ {a}, intent |-> a[1], n |-> a[2],
                  revision |-> r]
<1>8. x \in PassType /\ x.at = "prepare" /\ x.intent = a[1] /\ x.revision = r
      /\ x.todo = pass[q].todo \ {a}
  BY <1>1, <1>7 DEF PassType, Stages
<1>9. pass' = [pass EXCEPT ![q] = x]
  BY <1>3
<1>. HIDE DEF x
<1>10. /\ pass' \in [Passes -> PassType]
       /\ pass'[q] = x
       /\ \A s \in Passes : s # q => pass'[s] = pass[s]
       /\ \A s \in Passes : pass'[s].at \notin {"idle", "next"} => pass'[s].intent \in Intents
  BY <1>1, <1>7, <1>8, <1>9, PassWritten
<1>11. TypeOK'
  BY <1>1, <1>4, <1>10 DEF TypeOK, PassType, world, plans
<1>12. OneOwner'
  BY <1>8, <1>10, OwnersFrame DEF IInv, Working
<1>13. PassOK(q)'
  <2>. PICK y : y = x
    OBVIOUS
  <2>. PICK i : i = a[1]
    OBVIOUS
  <2>1. pass'[q] = y /\ y.at = "prepare" /\ y.intent = i /\ y.revision = r
    BY <1>8, <1>10
  <2>2. \A b \in y.todo : Ready(b[1])'
    BY <1>4, <1>5, <1>8 DEF Ready, Succeeded, Some, Prerequisites, plans
  <2>3. Ready(i)'
    BY <1>4, <1>5 DEF Ready, Succeeded, Some, Prerequisites, plans
  <2>4. Expects(i, r)'
    BY <1>4, <1>6 DEF Expects, Own, Revision, Revisions, IntentAt, Prerequisites, world, plans
  <2>. QED  BY <2>1, <2>2, <2>3, <2>4 DEF PassOK, Working
<1>. QED  BY <1>4, <1>10, <1>11, <1>12, <1>13, PassOnlyStep DEF world, plans

-----------------------------------------------------------------------------
(* Steps of an attempt *)

LEMMA RefusedStep ==
  ASSUME IInv, NEW q \in Passes, ScheduleRefused(q)
  PROVE  IInv'
<1>1. TypeOK /\ PassOK(q) /\ pass[q] \in PassType /\ pass[q].at = "schedule"
      /\ pass[q].intent \in Intents
  BY PassTyped DEF IInv, ScheduleRefused
<1>2. UNCHANGED <<world, plans, row, observed>> /\ Go(q, "fail") /\ trouble' \in 0 .. MaxTrouble
  BY <1>1, TroubleTyped DEF ScheduleRefused
<1>3. /\ pass' \in [Passes -> PassType]
      /\ pass'[q] = [pass[q] EXCEPT !.at = "fail"]
      /\ \A s \in Passes : s # q => pass'[s] = pass[s]
      /\ \A s \in Passes : pass'[s].at \notin {"idle", "next"} => pass'[s].intent \in Intents
  BY <1>1, <1>2, GoWritten DEF Stages
<1>4. TypeOK'
  BY <1>1, <1>2, <1>3 DEF TypeOK, PassType, world, plans
<1>. PICK x : x = pass[q]
  OBVIOUS
<1>. PICK y : y = [x EXCEPT !.at = "fail"]
  OBVIOUS
<1>5. /\ pass'[q] = y /\ y.at = "fail" /\ y.todo = x.todo
      /\ y.intent = x.intent /\ y.n = x.n /\ y.revision = x.revision
  BY <1>1, <1>3 DEF PassType
<1>6. OneOwner'
  BY <1>1, <1>3, <1>5, OwnersGoOn DEF IInv, Working
<1>7. PassOK(q)'
  <2>1. \A b \in x.todo : Ready(b[1])'
    BY <1>1, <1>2 DEF PassOK, Ready, Succeeded, Some, Prerequisites, plans
  <2>2. Ready(x.intent)'
    BY <1>1, <1>2 DEF PassOK, Ready, Succeeded, Some, Prerequisites, plans
  <2>3. Expects(x.intent, x.revision)'
    BY <1>1, <1>2 DEF PassOK, Expects, Own, Revision, Revisions, IntentAt, Prerequisites, world, plans
  <2>4. x.n \in DOMAIN row'[x.intent] /\ row'[x.intent][x.n] = "DISPATCHED"
    BY <1>1, <1>2 DEF PassOK, Working
  <2>5. \A r \in Revisions' : changes'[r] # <<x.intent, x.n>>
    BY <1>1, <1>2 DEF PassOK, Revisions, world
  <2>. QED  BY <1>5, <2>1, <2>2, <2>3, <2>4, <2>5 DEF PassOK
<1>. QED  BY <1>2, <1>3, <1>4, <1>6, <1>7, PassOnlyStep DEF world, plans

LEMMA PrepareStep ==
  ASSUME IInv, NEW q \in Passes, Prepare(q)
  PROVE  IInv'
<1>. PICK x : x = pass[q]
  OBVIOUS
<1>. PICK i, n : i = x.intent /\ n = x.n
  OBVIOUS
<1>1. TypeOK /\ PassOK(q) /\ x \in PassType /\ x.at = "prepare" /\ i \in Intents
  BY PassTyped DEF IInv, Prepare
<1>2. /\ UNCHANGED <<world, plans, observed, trouble>> /\ Go(q, "claim")
      /\ OperationFree(i) /\ n = Len(row[i]) + 1
      /\ row' = [row EXCEPT ![i] = Append(@, "PREPARED")]
  BY DEF Prepare, Prepares
<1>3. /\ row' \in [Intents -> Seq(Statuses)]
      /\ n \in DOMAIN row'[i] /\ n \notin DOMAIN row[i] /\ row'[i][n] = "PREPARED"
      /\ \A j \in Intents : \A m \in DOMAIN row[j] : m \in DOMAIN row'[j] /\ row'[j][m] = row[j][m]
      /\ \A j \in Intents : \A m \in DOMAIN row'[j] : m \in DOMAIN row[j] \/ (j = i /\ m = n)
  <2>1. /\ row' \in [Intents -> Seq(Statuses)]
        /\ DOMAIN row'[i] = 1 .. Len(row[i]) + 1
        /\ row'[i][Len(row[i]) + 1] = "PREPARED"
        /\ \A j \in Intents : \A m \in DOMAIN row[j] : m \in DOMAIN row'[j] /\ row'[j][m] = row[j][m]
        /\ \A j \in Intents : \A m \in DOMAIN row'[j] :
             m \in DOMAIN row[j] \/ (j = i /\ m = Len(row[i]) + 1)
    BY <1>1, <1>2, RowAppended
  <2>2. Len(row[i]) \in Nat /\ DOMAIN row[i] = 1 .. Len(row[i])
    BY <1>1, RowTyped
  <2>3. n \in DOMAIN row'[i] /\ n \notin DOMAIN row[i]
    BY <1>2, <2>1, <2>2
  <2>. QED  BY <1>2, <2>1, <2>3
<1>4. /\ pass' \in [Passes -> PassType]
      /\ pass'[q] = [x EXCEPT !.at = "claim"]
      /\ \A s \in Passes : s # q => pass'[s] = pass[s]
      /\ \A s \in Passes : pass'[s].at \notin {"idle", "next"} => pass'[s].intent \in Intents
  BY <1>1, <1>2, GoWritten DEF Stages
<1>5. TypeOK'
  BY <1>1, <1>2, <1>3, <1>4 DEF TypeOK, PassType, world, plans
<1>6. \A j \in Intents : \A status \in {"DISPATCHED", "OBSERVED_SUCCESS", "OBSERVED_FAILURE"} :
        Some(j, status)' <=> Some(j, status)
  BY <1>3 DEF Some
<1>7. /\ UNCHANGED <<changes, base, approved, observed>>
      /\ Revisions' = Revisions /\ Revision' = Revision
      /\ \A r \in Revisions : IntentAt(r)' = IntentAt(r) /\ IntentAt(r) \in Intents
      /\ \A r \in Revisions : changes[r][2] \in DOMAIN row[IntentAt(r)]
      /\ \A r \in Revisions : changes[r] = <<IntentAt(r), changes[r][2]>>
      /\ Revision \in Nat
  BY <1>1, <1>2, ChangesTyped DEF world, plans, Revisions, Revision, IntentAt, IInv, Rows, AppliedIsLive
<1>8. Rows'
  <2>1. OneLive'
    BY <1>2, <1>3 DEF IInv, Rows, OneLive, OperationFree
  <2>2. \A r \in Revisions : StatusAt(r)' = StatusAt(r)
    BY <1>3, <1>7 DEF StatusAt, IntentAt
  <2>3. RecordTellsTruth'
    BY <1>6, <1>7, <2>2 DEF IInv, Rows, RecordTellsTruth
  <2>4. AppliedIsLive'
    BY <1>3, <1>7 DEF IInv, Rows, AppliedIsLive
  <2>5. OnlySuccessIsObserved'
    BY <1>6, <1>7 DEF IInv, Rows, OnlySuccessIsObserved
  <2>. QED  BY <2>1, <2>3, <2>4, <2>5 DEF Rows
<1>9. Chains'
  BY <1>7, ChainsFrame DEF IInv
<1>10. \A s \in Passes : pass[s].at \in Working =>
         pass[s].n \in DOMAIN row[pass[s].intent] /\ pass[s].intent \in Intents
  BY <1>1, PassTyped DEF IInv, PassOK, Working
<1>. PICK y : y = [x EXCEPT !.at = "claim"]
  OBVIOUS
<1>11. /\ pass'[q] = y /\ y.at = "claim" /\ y.todo = x.todo
       /\ y.intent = i /\ y.n = n /\ y.revision = x.revision
  BY <1>1, <1>4 DEF PassType
<1>12. OneOwner'
  <2>. SUFFICES ASSUME NEW t \in Passes, NEW s \in Passes, t # s,
                       pass'[t].at \in Working, pass'[s].at \in Working,
                       pass'[t].intent = pass'[s].intent, pass'[t].n = pass'[s].n
                PROVE  FALSE
    BY DEF OneOwner
  <2>1. CASE t # q /\ s # q
    BY <1>4, <2>1 DEF IInv, OneOwner
  <2>2. ASSUME NEW u \in Passes, u # q, pass'[u].at \in Working,
               pass'[u].intent = i, pass'[u].n = n
        PROVE  FALSE
    <3>1. pass[u].at \in Working /\ pass[u].intent = i /\ pass[u].n = n
      BY <1>4, <2>2
    <3>. QED  BY <1>3, <1>10, <3>1
  <2>3. t = q => pass'[s].intent = i /\ pass'[s].n = n
    BY <1>11
  <2>4. s = q => pass'[t].intent = i /\ pass'[t].n = n
    BY <1>11
  <2>. QED  BY <2>1, <2>2, <2>3, <2>4
<1>13. ASSUME NEW s \in Passes, s # q PROVE PassOK(s)'
  BY <1>3, <1>4, <1>6, <1>7, <1>10, <1>13, PassStays DEF Succeeded
<1>14. PassOK(q)'
  <2>. PICK k, m : k = i /\ m = n
    OBVIOUS
  <2>1. \A b : Ready(b) => Ready(b)'
    BY <1>6, <1>7, ReadyPlan DEF Ready, Succeeded, Prerequisites
  <2>2. (\A b \in x.todo : Ready(b[1])') /\ Ready(k)'
    BY <1>1, <2>1 DEF PassOK
  <2>3. Expects(k, x.revision)'
    BY <1>1, <1>7 DEF PassOK, Expects, Own, IntentAt, Prerequisites
  <2>4. m \in DOMAIN row'[k] /\ row'[k][m] = "PREPARED"
    BY <1>3
  <2>5. \A r \in Revisions' : changes'[r] # <<k, m>>
    BY <1>3, <1>7
  <2>. QED  BY <1>11, <2>2, <2>3, <2>4, <2>5 DEF PassOK
<1>. QED  BY <1>5, <1>8, <1>9, <1>12, <1>13, <1>14 DEF IInv

\* What a transition of the attempt of q leaves alone.
LEMMA MarkedAttempt ==
  ASSUME IInv, NEW q \in Passes, pass[q].at \in Working, NEW from, NEW to \in Statuses, Mark(q, from, to),
         NEW i, NEW n, i = pass[q].intent, n = pass[q].n
  PROVE  /\ i \in Intents /\ n \in DOMAIN row[i] /\ row[i][n] = from
         /\ row' \in [Intents -> Seq(Statuses)]
         /\ \A j \in Intents : DOMAIN row'[j] = DOMAIN row[j]
         /\ row'[i][n] = to
         /\ \A j \in Intents : \A m \in DOMAIN row[j] : j # i \/ m # n => row'[j][m] = row[j][m]
         /\ \A s \in Passes : s # q /\ pass[s].at \in Working =>
              /\ pass[s].intent \in Intents
              /\ pass[s].n \in DOMAIN row'[pass[s].intent]
              /\ row'[pass[s].intent][pass[s].n] = row[pass[s].intent][pass[s].n]
<1>1. TypeOK /\ i \in Intents /\ n \in DOMAIN row[i] /\ row[i][n] = from
  BY PassTyped DEF IInv, PassOK, Working, Mark
<1>2. row' = [row EXCEPT ![i][n] = to]
  BY DEF Mark
<1>3. /\ row' \in [Intents -> Seq(Statuses)]
      /\ \A j \in Intents : DOMAIN row'[j] = DOMAIN row[j]
      /\ row'[i][n] = to
      /\ \A j \in Intents : \A m \in DOMAIN row[j] : j # i \/ m # n => row'[j][m] = row[j][m]
  BY <1>1, <1>2, RowMarked
<1>4. ASSUME NEW s \in Passes, s # q, pass[s].at \in Working
      PROVE  /\ pass[s].intent \in Intents
             /\ pass[s].n \in DOMAIN row[pass[s].intent]
             /\ pass[s].intent # i \/ pass[s].n # n
  BY <1>1, <1>4, PassTyped DEF IInv, PassOK, Working, OneOwner
<1>. QED  BY <1>1, <1>3, <1>4

\* An attempt that changed nothing is dispatched or fails.
LEMMA UnappliedRows ==
  ASSUME IInv, NEW i \in Intents, NEW n \in DOMAIN row[i], row[i][n] \in InFlight,
         UNCHANGED <<changes, observed>>,
         \A j \in Intents : DOMAIN row'[j] = DOMAIN row[j],
         row'[i][n] \in {"DISPATCHED", "OBSERVED_FAILURE"},
         \A j \in Intents : \A m \in DOMAIN row[j] : j # i \/ m # n => row'[j][m] = row[j][m],
         \A r \in Revisions : changes[r] # <<i, n>>
  PROVE  Rows' /\ \A j \in Intents : Some(j, "OBSERVED_SUCCESS")' <=> Some(j, "OBSERVED_SUCCESS")
<1>1. \A j \in Intents : Some(j, "OBSERVED_SUCCESS")' <=> Some(j, "OBSERVED_SUCCESS")
  BY DEF Some, InFlight
<1>2. /\ Revisions' = Revisions
      /\ \A r \in Revisions : IntentAt(r)' = IntentAt(r) /\ IntentAt(r) \in Intents
      /\ \A r \in Revisions : changes[r][2] \in DOMAIN row[IntentAt(r)]
      /\ \A r \in Revisions : changes[r] = <<IntentAt(r), changes[r][2]>>
  BY ChangesTyped DEF Revisions, IntentAt, IInv, Rows, AppliedIsLive
<1>3. OneLive'
  BY DEF IInv, Rows, OneLive, Live, InFlight
<1>4. \A r \in Revisions : StatusAt(r)' = StatusAt(r)
  BY <1>2 DEF StatusAt, IntentAt
<1>5. RecordTellsTruth'
  BY <1>1, <1>2, <1>4 DEF IInv, Rows, RecordTellsTruth
<1>6. AppliedIsLive'
  BY <1>2 DEF IInv, Rows, AppliedIsLive
<1>7. OnlySuccessIsObserved'
  BY <1>1 DEF IInv, Rows, OnlySuccessIsObserved
<1>. QED  BY <1>1, <1>3, <1>5, <1>6, <1>7 DEF Rows

LEMMA ClaimStep ==
  ASSUME IInv, NEW q \in Passes, Claim(q)
  PROVE  IInv'
<1>. PICK x : x = pass[q]
  OBVIOUS
<1>. PICK i, n : i = x.intent /\ n = x.n
  OBVIOUS
<1>. PICK y : y = [x EXCEPT !.at = "schedule"]
  OBVIOUS
<1>1. TypeOK /\ PassOK(q) /\ x \in PassType /\ x.at = "claim"
  BY PassTyped DEF IInv, Claim
<1>2. /\ UNCHANGED <<world, plans, observed, trouble>> /\ Go(q, "schedule")
      /\ Mark(q, "PREPARED", "DISPATCHED")
  BY DEF Claim
<1>3. /\ i \in Intents /\ n \in DOMAIN row[i] /\ row[i][n] = "PREPARED"
      /\ row' \in [Intents -> Seq(Statuses)]
      /\ \A j \in Intents : DOMAIN row'[j] = DOMAIN row[j]
      /\ row'[i][n] = "DISPATCHED"
      /\ \A j \in Intents : \A m \in DOMAIN row[j] : j # i \/ m # n => row'[j][m] = row[j][m]
      /\ \A s \in Passes : s # q /\ pass[s].at \in Working =>
           /\ pass[s].intent \in Intents
           /\ pass[s].n \in DOMAIN row'[pass[s].intent]
           /\ row'[pass[s].intent][pass[s].n] = row[pass[s].intent][pass[s].n]
  BY <1>1, <1>2, MarkedAttempt DEF Working, Statuses, InFlight
<1>4. /\ pass' \in [Passes -> PassType]
      /\ pass'[q] = y
      /\ \A s \in Passes : s # q => pass'[s] = pass[s]
      /\ \A s \in Passes : pass'[s].at \notin {"idle", "next"} => pass'[s].intent \in Intents
  BY <1>1, <1>2, <1>3, GoWritten DEF Stages
<1>5. /\ y.at = "schedule" /\ y.todo = x.todo
      /\ y.intent = i /\ y.n = n /\ y.revision = x.revision
  BY <1>1 DEF PassType
<1>6. TypeOK'
  BY <1>1, <1>2, <1>3, <1>4 DEF TypeOK, PassType, world, plans
<1>7. UNCHANGED <<changes, base, approved, observed>>
  BY <1>2 DEF world, plans
<1>8. \A r \in Revisions : changes[r] # <<i, n>>
  BY <1>1 DEF PassOK
<1>9. Rows' /\ \A j \in Intents : Some(j, "OBSERVED_SUCCESS")' <=> Some(j, "OBSERVED_SUCCESS")
  BY <1>3, <1>7, <1>8, UnappliedRows DEF InFlight
<1>10. Chains'
  BY <1>7, ChainsFrame DEF IInv
<1>11. OneOwner'
  BY <1>1, <1>4, <1>5, OwnersGoOn DEF IInv, Working
<1>12. Revisions' = Revisions /\ Revision' = Revision /\ Revision \in Nat
  BY <1>1, <1>7, ChangesTyped DEF Revisions, Revision
<1>13. ASSUME NEW s \in Passes, s # q PROVE PassOK(s)'
  BY <1>3, <1>4, <1>7, <1>9, <1>12, <1>13, PassStays DEF Succeeded
<1>14. PassOK(q)'
  <2>1. \A b : Ready(b) => Ready(b)'
    BY <1>7, <1>9, ReadyPlan DEF Ready, Succeeded, Prerequisites
  <2>2. (\A b \in x.todo : Ready(b[1])') /\ Ready(i)'
    BY <1>1, <2>1 DEF PassOK
  <2>3. Expects(i, x.revision)'
    BY <1>1, <1>7, <1>12 DEF PassOK, Expects, Own, IntentAt, Prerequisites
  <2>. QED  BY <1>3, <1>4, <1>5, <1>7, <1>8, <1>12, <2>2, <2>3 DEF PassOK
<1>. QED  BY <1>6, <1>9, <1>10, <1>11, <1>13, <1>14 DEF IInv

LEMMA RecordFailureStep ==
  ASSUME IInv, NEW q \in Passes, RecordFailure(q)
  PROVE  IInv'
<1>. PICK x : x = pass[q]
  OBVIOUS
<1>. PICK i, n : i = x.intent /\ n = x.n
  OBVIOUS
<1>1. TypeOK /\ PassOK(q) /\ x \in PassType /\ x.at = "fail"
  BY PassTyped DEF IInv, RecordFailure
<1>2. /\ UNCHANGED <<world, plans, observed, trouble>> /\ Resume(q)
      /\ Mark(q, "DISPATCHED", "OBSERVED_FAILURE")
  BY DEF RecordFailure
<1>3. /\ i \in Intents /\ n \in DOMAIN row[i] /\ row[i][n] = "DISPATCHED"
      /\ row' \in [Intents -> Seq(Statuses)]
      /\ \A j \in Intents : DOMAIN row'[j] = DOMAIN row[j]
      /\ row'[i][n] = "OBSERVED_FAILURE"
      /\ \A j \in Intents : \A m \in DOMAIN row[j] : j # i \/ m # n => row'[j][m] = row[j][m]
      /\ \A s \in Passes : s # q /\ pass[s].at \in Working =>
           /\ pass[s].intent \in Intents
           /\ pass[s].n \in DOMAIN row'[pass[s].intent]
           /\ row'[pass[s].intent][pass[s].n] = row[pass[s].intent][pass[s].n]
  BY <1>1, <1>2, MarkedAttempt DEF Working, Statuses, InFlight
<1>4. /\ pass' \in [Passes -> PassType]
      /\ pass'[q].at \in {"idle", "next"} /\ pass'[q].todo = x.todo
      /\ \A s \in Passes : s # q => pass'[s] = pass[s]
      /\ \A s \in Passes : pass'[s].at \notin {"idle", "next"} => pass'[s].intent \in Intents
  BY <1>1, <1>2, ResumeWritten
<1>5. TypeOK'
  BY <1>1, <1>2, <1>3, <1>4 DEF TypeOK, PassType, world, plans
<1>6. UNCHANGED <<changes, base, approved, observed>>
  BY <1>2 DEF world, plans
<1>7. \A r \in Revisions : changes[r] # <<i, n>>
  BY <1>1 DEF PassOK
<1>8. Rows' /\ \A j \in Intents : Some(j, "OBSERVED_SUCCESS")' <=> Some(j, "OBSERVED_SUCCESS")
  BY <1>3, <1>6, <1>7, UnappliedRows DEF InFlight
<1>9. Chains'
  BY <1>6, ChainsFrame DEF IInv
<1>10. OneOwner'
  BY <1>4, OwnersFrame DEF IInv, Working
<1>11. Revisions' = Revisions /\ Revision' = Revision /\ Revision \in Nat
  BY <1>1, <1>6, ChangesTyped DEF Revisions, Revision
<1>12. ASSUME NEW s \in Passes, s # q PROVE PassOK(s)'
  BY <1>3, <1>4, <1>6, <1>8, <1>11, <1>12, PassStays DEF Succeeded
<1>13. PassOK(q)'
  <2>1. \A b : Ready(b) => Ready(b)'
    BY <1>6, <1>8, ReadyPlan DEF Ready, Succeeded, Prerequisites
  <2>2. \A b \in x.todo : Ready(b[1])'
    BY <1>1, <2>1 DEF PassOK
  <2>. QED  BY <1>4, <2>2 DEF PassOK, Working
<1>. QED  BY <1>5, <1>8, <1>9, <1>10, <1>12, <1>13 DEF IInv

LEMMA ScheduleStep ==
  ASSUME IInv, NEW q \in Passes, Schedule(q)
  PROVE  IInv'
<1>. PICK x : x = pass[q]
  OBVIOUS
<1>. PICK i, n : i = x.intent /\ n = x.n
  OBVIOUS
<1>. PICK new : new = Revision + 1
  OBVIOUS
<1>1. /\ TypeOK /\ PassOK(q) /\ x \in PassType /\ x.at = "schedule" /\ x.revision = Revision
      /\ i \in Intents /\ n \in Nat /\ <<i, n>> \in Attempts
  <2>1. TypeOK /\ PassOK(q) /\ x \in PassType /\ x.at = "schedule" /\ x.revision = Revision
    BY PassTyped DEF IInv, Schedule, ExpectedRevision
  <2>2. i \in Intents /\ n \in Nat
    BY <2>1, PassTyped DEF PassType
  <2>. QED  BY <2>1, <2>2 DEF Attempts
<1>2. /\ UNCHANGED <<base, approved, lapsed, closed, row, observed, trouble>>
      /\ changes' = Append(changes, <<i, n>>) /\ current' = FALSE
  BY DEF Schedule, plans
<1>3. /\ changes' \in Seq(Attempts \cup {Foreign})
      /\ Revision' = new
      /\ \A r \in 1 .. Revision : changes'[r] = changes[r]
      /\ changes'[new] = <<i, n>>
      /\ Revisions' = Revisions \cup {new}
  BY <1>1, <1>2, ChangesAppended, ForeignIsNoAttempt
<1>4. Revision \in Nat /\ Revisions \subseteq 1 .. Revision /\ new \notin Revisions
  BY <1>1, ChangesTyped
<1>5. /\ \A r \in Revisions : changes'[r] = changes[r] /\ IntentAt(r)' = IntentAt(r)
      /\ IntentAt(new)' = i
  <2>1. \A r \in Revisions : changes'[r] = changes[r]
    BY <1>3, <1>4
  <2>2. \A r \in Revisions : IntentAt(r)' = IntentAt(r)
    <3>. TAKE r \in Revisions
    <3>1. IntentAt(r)' = changes'[r][1] /\ IntentAt(r) = changes[r][1]
      BY Zenon DEF IntentAt
    <3>. QED  BY <2>1, <3>1
  <2>3. IntentAt(new)' = i
    <3>1. IntentAt(new)' = changes'[new][1]
      BY Zenon DEF IntentAt
    <3>. QED  BY <1>3, <3>1
  <2>. QED  BY <2>1, <2>2, <2>3
<1>. PICK z : z = [x EXCEPT !.at = "observe"]
  OBVIOUS
<1>. PICK y : y = [z EXCEPT !.revision = new]
  OBVIOUS
<1>6. /\ y \in PassType /\ y.at = "observe" /\ y.todo = x.todo
      /\ y.intent = i /\ y.n = n /\ y.revision = new
  <2>1. /\ z \in PassType /\ z.at = "observe" /\ z.todo = x.todo
        /\ z.intent = i /\ z.n = n
    BY <1>1 DEF PassType, Stages
  <2>2. new \in Nat
    BY <1>4
  <2>. QED  BY <2>1, <2>2 DEF PassType
<1>7. pass' = [pass EXCEPT ![q] = y]
  <2>1. pass \in [Passes -> PassType]
    BY <1>1 DEF TypeOK, PassType
  <2>2. pass' = [pass EXCEPT ![q].at = "observe", ![q].revision = new]
    BY DEF Schedule
  <2>. QED  BY <2>1, <2>2
<1>8. /\ pass' \in [Passes -> PassType]
      /\ pass'[q] = y
      /\ \A s \in Passes : s # q => pass'[s] = pass[s]
      /\ \A s \in Passes : pass'[s].at \notin {"idle", "next"} => pass'[s].intent \in Intents
  BY <1>1, <1>6, <1>7, PassWritten
<1>9. TypeOK'
  <2>1. current' \in BOOLEAN
    BY <1>2
  <2>. QED  BY <1>1, <1>2, <1>3, <1>8, <2>1 DEF TypeOK, PassType
<1>10. /\ Ready(i) /\ Expects(i, Revision)
       /\ n \in DOMAIN row[i] /\ row[i][n] = "DISPATCHED"
       /\ \A r \in Revisions : changes[r] # <<i, n>>
  BY <1>1 DEF PassOK, Working
<1>11. Rows'
  <2>1. OneLive' /\ OnlySuccessIsObserved'
    BY <1>2 DEF IInv, Rows, OneLive, OnlySuccessIsObserved, Some
  <2>0. row' = row /\ changes'[new][1] = i /\ changes'[new][2] = n
    <3>1. changes'[new] = <<i, n>>
      BY <1>3
    <3>2. changes'[new][1] = i /\ changes'[new][2] = n
      BY <3>1
    <3>. QED  BY <1>2, <3>2
  <2>2. AppliedIsLive'
    <3>1. \A r \in Revisions : changes'[r][2] \in DOMAIN row'[changes'[r][1]]
      BY <1>2, <1>5 DEF IInv, Rows, AppliedIsLive, IntentAt
    <3>2. changes'[new][2] \in DOMAIN row'[changes'[new][1]]
      BY <2>0, <1>10
    <3>3. \A r, s \in Revisions' : changes'[r] = changes'[s] => r = s
      BY <1>3, <1>5, <1>10 DEF IInv, Rows, AppliedIsLive
    <3>. QED  BY <1>3, <3>1, <3>2, <3>3 DEF AppliedIsLive, IntentAt
  <2>3. (\A r \in Revisions : StatusAt(r)' = StatusAt(r)) /\ StatusAt(new)' = "DISPATCHED"
    <3>1. \A r \in Revisions : StatusAt(r)' = StatusAt(r)
      BY <1>2, <1>5 DEF StatusAt, IntentAt
    <3>2. row'[changes'[new][1]][changes'[new][2]] = "DISPATCHED"
      BY <2>0, <1>10
    <3>. QED  BY <3>1, <3>2 DEF StatusAt
  <2>4. RecordTellsTruth'
    BY <1>2, <1>3, <1>5, <2>3 DEF IInv, Rows, RecordTellsTruth, Some
  <2>. QED  BY <2>1, <2>2, <2>4 DEF Rows
<1>12. Chains'
  <2>1. PlansOK'
    BY <1>1, <1>2, <1>3, <1>4 DEF IInv, TypeOK, Chains, PlansOK
  <2>2. base[Of[i]] \in Nat \ {0} /\ base[Of[i]] <= Revision
    BY <1>10, ReadyPlan DEF IInv, Chains, PlansOK
  <2>3. base[Of[i]] \in 1 .. new - 1
    BY <1>4, <2>2
  <2>4. \A s \in base[Of[i]] + 1 .. new : s \in Revisions' /\ Of[IntentAt(s)'] = Of[i]
    BY <1>3, <1>4, <1>5, <1>10, <2>2 DEF Expects, Own
  <2>5. ChainIsOwn'
    BY <1>2, <1>3, <1>5, <2>3, <2>4 DEF IInv, Chains, ChainIsOwn
  <2>6. DependentsFollow'
    BY <1>2, <1>3, <1>4, <1>5, <1>10 DEF IInv, Chains, DependentsFollow, Expects, Prerequisites
  <2>. QED  BY <2>1, <2>5, <2>6 DEF Chains
<1>13. OneOwner'
  BY <1>1, <1>6, <1>8, OwnersGoOn DEF IInv, Working
<1>14. ASSUME NEW s \in Passes, s # q PROVE PassOK(s)'
  <2>1. pass[s].at \in Working =>
          /\ pass[s].n \in DOMAIN row[pass[s].intent]
          /\ <<i, n>> # <<pass[s].intent, pass[s].n>>
    BY <1>1, <1>14 DEF IInv, PassOK, OneOwner, Working
  <2>2. \A r \in Revisions' \ Revisions : changes'[r] = <<i, n>>
    BY <1>3
  <2>3. pass[s].at \in Working =>
          \A r \in Revisions' \ Revisions : changes'[r] # <<pass[s].intent, pass[s].n>>
    BY <2>1, <2>2
  <2>4. Revision' \in Nat /\ Revision' >= Revision /\ Revisions \subseteq Revisions'
    BY <1>3, <1>4
  <2>5. \A j \in Intents : Succeeded(j) => Succeeded(j)' /\ observed'[j] = observed[j]
    BY <1>2 DEF Succeeded, Some
  <2>6. row' = row /\ approved' = approved /\ base' = base /\ pass'[s] = pass[s]
    BY <1>2, <1>8, <1>14
  <2>. QED  BY <1>5, <2>1, <2>3, <2>4, <2>5, <2>6, PassStays
<1>15. PassOK(q)'
  <2>1. \A b : Ready(b) => Ready(b)'
    BY <1>2 DEF Ready, Succeeded, Some, Prerequisites
  <2>2. (\A b \in x.todo : Ready(b[1])') /\ Ready(i)'
    BY <1>1, <1>10, <2>1 DEF PassOK
  <2>. QED  BY <1>2, <1>3, <1>6, <1>8, <1>10, <2>2 DEF PassOK, Working
<1>. QED  BY <1>9, <1>11, <1>12, <1>13, <1>14, <1>15 DEF IInv

LEMMA ObserveStep ==
  ASSUME IInv, NEW q \in Passes, Observe(q)
  PROVE  IInv'
<1>. PICK x : x = pass[q]
  OBVIOUS
<1>. PICK i, n, v : i = x.intent /\ n = x.n /\ v = x.revision
  OBVIOUS
<1>1. TypeOK /\ PassOK(q) /\ x \in PassType /\ x.at = "observe"
  BY PassTyped DEF IInv, Observe
<1>2. /\ UNCHANGED <<changes, current, base, approved, lapsed, closed, trouble>> /\ Resume(q)
      /\ Mark(q, "DISPATCHED", "OBSERVED_SUCCESS")
      /\ observed' = [observed EXCEPT ![i] = v]
  BY DEF Observe, world, plans
<1>3. /\ i \in Intents /\ n \in DOMAIN row[i] /\ row[i][n] = "DISPATCHED"
      /\ row' \in [Intents -> Seq(Statuses)]
      /\ \A j \in Intents : DOMAIN row'[j] = DOMAIN row[j]
      /\ row'[i][n] = "OBSERVED_SUCCESS"
      /\ \A j \in Intents : \A m \in DOMAIN row[j] : j # i \/ m # n => row'[j][m] = row[j][m]
      /\ \A s \in Passes : s # q /\ pass[s].at \in Working =>
           /\ pass[s].intent \in Intents
           /\ pass[s].n \in DOMAIN row'[pass[s].intent]
           /\ row'[pass[s].intent][pass[s].n] = row[pass[s].intent][pass[s].n]
  BY <1>1, <1>2, MarkedAttempt DEF Working, Statuses, InFlight
<1>4. /\ pass' \in [Passes -> PassType]
      /\ pass'[q].at \in {"idle", "next"} /\ pass'[q].todo = x.todo
      /\ \A s \in Passes : s # q => pass'[s] = pass[s]
      /\ \A s \in Passes : pass'[s].at \notin {"idle", "next"} => pass'[s].intent \in Intents
  BY <1>1, <1>2, ResumeWritten
<1>5. v \in Revisions /\ changes[v] = <<i, n>> /\ v \in Nat
  BY <1>1 DEF PassOK, PassType
<1>6. /\ observed' \in [Intents -> Nat] /\ observed'[i] = v
      /\ \A j \in Intents : j # i => observed'[j] = observed[j]
  BY <1>1, <1>2, <1>3, <1>5 DEF TypeOK
<1>7. TypeOK'
  BY <1>1, <1>2, <1>3, <1>4, <1>6 DEF TypeOK, PassType
\* The attempt is the only live one of its operation.
<1>8. ~Some(i, "OBSERVED_SUCCESS")
  BY <1>3 DEF IInv, Rows, OneLive, Live, InFlight, Some
<1>9. /\ \A j \in Intents : Some(j, "OBSERVED_SUCCESS")' <=> j = i \/ Some(j, "OBSERVED_SUCCESS")
      /\ \A j \in Intents : Succeeded(j) => Succeeded(j)' /\ observed'[j] = observed[j]
  BY <1>3, <1>6, <1>8 DEF Some, Succeeded
<1>10. /\ Revisions' = Revisions /\ Revision' = Revision /\ Revision \in Nat
       /\ \A r \in Revisions : IntentAt(r)' = IntentAt(r) /\ IntentAt(r) \in Intents
       /\ \A r \in Revisions : changes[r][2] \in DOMAIN row[IntentAt(r)]
       /\ \A r \in Revisions : changes[r] = <<IntentAt(r), changes[r][2]>>
  BY <1>1, <1>2, ChangesTyped DEF Revisions, Revision, IntentAt, IInv, Rows, AppliedIsLive
<1>11. Rows'
  <2>1. OneLive'
    BY <1>3 DEF IInv, Rows, OneLive, Live, InFlight
  <2>2. AppliedIsLive'
    BY <1>2, <1>3, <1>10 DEF IInv, Rows, AppliedIsLive
  <2>3. \A r \in Revisions : StatusAt(r)' = StatusAt(r) \/ StatusAt(r)' = "OBSERVED_SUCCESS"
    BY <1>2, <1>3, <1>10 DEF StatusAt, IntentAt
  <2>4. IntentAt(v) = i /\ StatusAt(v)' = "OBSERVED_SUCCESS"
    BY <1>2, <1>3, <1>5, <1>10 DEF StatusAt, IntentAt
  <2>5. RecordTellsTruth'
    <3>1. \A r \in Revisions : StatusAt(r)' \in {"DISPATCHED", "OBSERVED_SUCCESS"}
      BY <2>3 DEF IInv, Rows, RecordTellsTruth
    <3>2. ASSUME NEW j \in Intents, Some(j, "OBSERVED_SUCCESS")'
          PROVE  /\ observed'[j] \in Revisions /\ IntentAt(observed'[j]) = j
                 /\ row'[changes'[observed'[j]][1]][changes'[observed'[j]][2]] = "OBSERVED_SUCCESS"
      <4>1. CASE j = i
        BY <1>2, <1>5, <1>6, <2>4, <4>1 DEF StatusAt
      <4>2. CASE j # i
        <5>1. /\ Some(j, "OBSERVED_SUCCESS") /\ observed'[j] = observed[j]
          BY <1>6, <1>9, <3>2, <4>2
        <5>2. observed[j] \in Revisions /\ IntentAt(observed[j]) = j /\ StatusAt(observed[j]) = "OBSERVED_SUCCESS"
          BY <5>1 DEF IInv, Rows, RecordTellsTruth
        <5>3. row'[changes'[observed[j]][1]][changes'[observed[j]][2]] = "OBSERVED_SUCCESS"
          <6>. PICK r \in Revisions : r = observed[j]
            BY <5>2
          <6>1. StatusAt(r)' = "OBSERVED_SUCCESS"
            BY <2>3, <5>2
          <6>. QED  BY <6>1 DEF StatusAt
        <5>. QED  BY <1>2, <5>1, <5>2, <5>3 DEF StatusAt
      <4>. QED  BY <4>1, <4>2
    <3>3. \A j \in Intents : Some(j, "OBSERVED_SUCCESS")' =>
            observed'[j] \in Revisions' /\ IntentAt(observed[j])' = j
            /\ StatusAt(observed[j])' = "OBSERVED_SUCCESS"
      BY <1>2, <1>10, <3>2 DEF IntentAt, StatusAt
    <3>. QED  BY <1>10, <3>1, <3>3 DEF RecordTellsTruth
  <2>6. OnlySuccessIsObserved'
    BY <1>6, <1>9 DEF IInv, Rows, OnlySuccessIsObserved
  <2>. QED  BY <2>1, <2>2, <2>5, <2>6 DEF Rows
<1>12. Chains'
  <2>1. PlansOK' /\ ChainIsOwn'
    BY <1>2 DEF IInv, Chains, PlansOK, ChainIsOwn, Revisions, Revision, IntentAt
  <2>2. observed[i] = 0
    BY <1>3, <1>8 DEF IInv, Rows, OnlySuccessIsObserved
  <2>3. \A r \in Revisions : \A j \in Prerequisites(IntentAt(r)) :
          observed[j] \in 1 .. r - 1 /\ observed'[j] = observed[j]
    <3>1. \A r \in Revisions : \A j \in Prerequisites(IntentAt(r)) :
            j \in Intents /\ observed[j] \in 1 .. r - 1
      BY DEF IInv, Chains, DependentsFollow, Prerequisites
    <3>. QED  BY <1>6, <2>2, <3>1
  <2>4. DependentsFollow'
    BY <1>10, <2>3 DEF DependentsFollow, Prerequisites
  <2>. QED  BY <2>1, <2>4 DEF Chains
<1>13. OneOwner'
  BY <1>4, OwnersFrame DEF IInv, Working
<1>14. ASSUME NEW s \in Passes, s # q PROVE PassOK(s)'
  BY <1>2, <1>3, <1>4, <1>9, <1>10, <1>14, PassStays
<1>15. PassOK(q)'
  <2>1. \A b : Ready(b) => Ready(b)'
    BY <1>2, <1>9, ReadyPlan DEF Ready, Prerequisites
  <2>2. \A b \in x.todo : Ready(b[1])'
    BY <1>1, <2>1 DEF PassOK
  <2>. QED  BY <1>4, <2>2 DEF PassOK, Working
<1>. QED  BY <1>7, <1>11, <1>12, <1>13, <1>14, <1>15 DEF IInv

-----------------------------------------------------------------------------
(* The theorems *)

LEMMA InitInv == Init => IInv
<1>. SUFFICES ASSUME Init PROVE IInv
  OBVIOUS
<1>1. /\ changes = <<Foreign>> /\ current = TRUE
      /\ base = [p \in Plans |-> 0] /\ approved = {} /\ lapsed = {} /\ closed = {}
      /\ row = [i \in Intents |-> <<>>] /\ observed = [i \in Intents |-> 0]
      /\ pass = [q \in Passes |-> Idle] /\ trouble = 0
  BY DEF Init
<1>2. changes \in Seq(Attempts \cup {Foreign}) /\ Len(changes) = 1 /\ changes[1] = Foreign
  BY <1>1
<1>3. TypeOK
  <2>1. row \in [Intents -> Seq(Statuses)]
    BY <1>1
  <2>2. pass \in [Passes -> PassType] /\ \A q \in Passes : pass[q].at = "idle"
    BY <1>1, IdleTyped DEF Idle
  <2>. QED  BY <1>1, <1>2, <2>1, <2>2, Bounds DEF TypeOK, PassType
<1>4. Revisions = {} /\ Revision = 1
  BY <1>2 DEF Revisions, Revision
<1>5. \A i \in Intents : DOMAIN row[i] = {} /\ \A status : ~Some(i, status)
  BY <1>1 DEF Some
<1>6. Rows
  BY <1>1, <1>4, <1>5 DEF Rows, OneLive, AppliedIsLive, RecordTellsTruth, OnlySuccessIsObserved
<1>7. Chains
  BY <1>1, <1>4 DEF Chains, PlansOK, ChainIsOwn, DependentsFollow
<1>8. OneOwner /\ \A q \in Passes : PassOK(q)
  BY <1>1 DEF OneOwner, PassOK, Working, Idle
<1>. QED  BY <1>3, <1>6, <1>7, <1>8 DEF IInv

LEMMA NextInv == IInv /\ [Next]_vars => IInv'
<1>. SUFFICES ASSUME IInv, [Next]_vars PROVE IInv'
  OBVIOUS
<1>1. CASE \E p \in Plans : Compile(p) \/ Lapse(p) \/ Restore(p) \/ Close(p)
  BY <1>1, CompileStep, AuthorityStep
<1>2. CASE \E i \in Intents : Approve(i)
  BY <1>2, ApproveStep
<1>3. CASE Edit
  BY <1>3, EditStep
<1>4. CASE Unsettle \/ Reassess \/ UNCHANGED vars
  BY <1>4, QuietStep
<1>5. ASSUME NEW q \in Passes, Begin(q) \/ PassStep(q) \/ Throw(q) \/ Stop(q)
      PROVE  IInv'
  <2>1. CASE Begin(q)
    BY <2>1, BeginStep
  <2>2. CASE Load(q)
    BY <2>2, LoadStep
  <2>3. CASE Prepare(q)
    BY <2>3, PrepareStep
  <2>4. CASE Refuse(q) \/ Throw(q)
    BY <2>4, LeavesOffStep
  <2>5. CASE Claim(q)
    BY <2>5, ClaimStep
  <2>6. CASE Schedule(q)
    BY <2>6, ScheduleStep
  <2>7. CASE ScheduleRefused(q)
    BY <2>7, RefusedStep
  <2>8. CASE RecordFailure(q)
    BY <2>8, RecordFailureStep
  <2>9. CASE Observe(q)
    BY <2>9, ObserveStep
  <2>10. CASE Stop(q)
    BY <2>10, StopStep
  <2>. QED  BY <1>5, <2>1, <2>2, <2>3, <2>4, <2>5, <2>6, <2>7, <2>8, <2>9, <2>10 DEF PassStep
<1>. QED  BY <1>1, <1>2, <1>3, <1>4, <1>5 DEF Next

LEMMA InvHolds == Spec => []IInv
BY InitInv, NextInv, PTL DEF Spec

\* A live attempt at an operation excludes any other (one_live_logical_op), an
\* attempt is applied once, and an applied attempt stays live.
LEMMA AppliedOnce == IInv => OperationAppliedOnce
<1>. SUFFICES ASSUME IInv, NEW r \in Revisions, NEW s \in Revisions,
                     Operation[IntentAt(r)] = Operation[IntentAt(s)]
              PROVE  r = s
  BY DEF OperationAppliedOnce
<1>1. \A t \in Revisions : /\ IntentAt(t) \in Intents
                            /\ changes[t][2] \in DOMAIN row[IntentAt(t)]
                            /\ row[IntentAt(t)][changes[t][2]] \in Live
                            /\ changes[t] = <<IntentAt(t), changes[t][2]>>
  BY ChangesTyped DEF IInv, Rows, AppliedIsLive, RecordTellsTruth, StatusAt, IntentAt, Live, InFlight
<1>2. IntentAt(r) = IntentAt(s) /\ changes[r][2] = changes[s][2]
  BY <1>1 DEF IInv, Rows, OneLive
<1>. QED  BY <1>1, <1>2 DEF IInv, Rows, AppliedIsLive

\* The model is type correct: attempts are numbered without gaps, and a pass
\* that is past its candidates works on an intent.
THEOREM TypeCorrect == Spec => []TypeOK
BY InvHolds, PTL DEF IInv

\* Whatever pass, plan or attempt moves the item, and wherever a process stops
\* or a transaction throws, it is moved to the start an operation names at most
\* once.
THEOREM OperationOnce == Spec => []OperationAppliedOnce
BY InvHolds, AppliedOnce, PTL

\* An attempt recorded as failed changed nothing, and an attempt recorded as a
\* success recorded the revision that its own change made.
THEOREM Truthful == Spec => []RecordTellsTruth
BY InvHolds, PTL DEF IInv, Rows

\* From the base a plan was compiled against to each of its changes, the
\* programme is changed by the plan alone, however passes interleave with other
\* commands and other plans.
THEOREM OwnChain == Spec => []ChainIsOwn
BY InvHolds, PTL DEF IInv, Chains

\* What an intent depends on is applied and observed before it is applied.
THEOREM InOrder == Spec => []DependentsFollow
BY InvHolds, PTL DEF IInv, Chains

-----------------------------------------------------------------------------
(* A plan whose changes are a chain does not wait for itself *)

\* What the compiler makes of the changes of one programme: an order in which
\* each change but the first needs the one before it, and none a later one.
Chained(Index) ==
  /\ \A e \in Needs : Index[e[2]] < Index[e[1]]
  /\ \A i, j \in Intents : Of[i] = Of[j] /\ Index[i] = Index[j] => i = j
  /\ \A i \in Intents : Index[i] > 0 =>
       \E j \in Intents : Of[j] = Of[i] /\ Index[j] = Index[i] - 1 /\ <<i, j>> \in Needs

LEMMA LeastIntent ==
  ASSUME NEW Index \in [Intents -> Nat], NEW S, S \subseteq Intents, S # {}
  PROVE  \E m \in S : \A x \in S : Index[m] <= Index[x]
<1>. DEFINE R == {e \in Nat \X Nat : e[1] < e[2]}
            T == {Index[x] : x \in S}
<1>1. IsWellFoundedOn(R, Nat)
  BY NatLessThanWellFounded DEF OpToRel
<1>2. \A a, b \in Nat : a < b => <<a, b>> \in R
  OBVIOUS
<1>3. T \subseteq Nat /\ T # {}
  OBVIOUS
<1>. HIDE DEF R, T
<1>4. PICK a \in T : \A b \in T : <<b, a>> \notin R
  BY <1>1, <1>3, WFMin
<1>5. \A b \in T : a <= b
  <2>. TAKE b \in T
  <2>1. a \in Nat /\ b \in Nat
    BY <1>3
  <2>2. ~(b < a)
    BY <1>2, <1>4, <2>1
  <2>. QED  BY <2>1, <2>2
<1>. QED  BY <1>4, <1>5 DEF T

\* What an observed change leaves: its revision is its own, and the changes it
\* needs were observed before it.
LEMMA SucceededIsObserved ==
  ASSUME IInv, NEW k \in Intents, Succeeded(k)
  PROVE  /\ observed[k] \in Revisions
         /\ observed[k] \in 1 .. Revision
         /\ \A r \in Revisions : IntentAt(r) = k => r = observed[k]
         /\ \A j \in Prerequisites(k) : Succeeded(j) /\ observed[j] < observed[k]
<1>1. observed[k] \in Revisions /\ IntentAt(observed[k]) = k
  BY DEF IInv, Rows, RecordTellsTruth, Succeeded
<1>2. observed[k] \in 1 .. Revision /\ Revision \in Nat
  BY <1>1, ChangesTyped DEF IInv
<1>3. \A r \in Revisions : IntentAt(r) = k => r = observed[k]
  BY <1>1, AppliedOnce DEF OperationAppliedOnce
<1>4. ASSUME NEW j \in Prerequisites(k) PROVE Succeeded(j) /\ observed[j] < observed[k]
  <2>1. observed[j] \in 1 .. observed[k] - 1
    BY <1>1 DEF IInv, Chains, DependentsFollow
  <2>2. observed[j] # 0 /\ observed[j] < observed[k] /\ j \in Intents
    BY <1>2, <2>1 DEF Prerequisites
  <2>. QED  BY <2>2 DEF IInv, Rows, OnlySuccessIsObserved, Succeeded
<1>. QED  BY <1>1, <1>2, <1>3, <1>4

\* The changes of a plan are made in the order of its chain.
LEMMA ChainInOrder ==
  ASSUME IInv, NEW Index \in [Intents -> Nat], Chained(Index),
         NEW i \in Intents, NEW k \in Intents, Of[k] = Of[i], Succeeded(k), ~Succeeded(i)
  PROVE  Index[k] < Index[i]
<1>. SUFFICES ASSUME ~(Index[k] < Index[i]) PROVE FALSE
  OBVIOUS
<1>. DEFINE S == {m \in Intents : Of[m] = Of[i] /\ Succeeded(m) /\ Index[m] > Index[i]}
<1>1. Index[k] # Index[i]
  BY DEF Chained
<1>2. k \in S
  BY <1>1
<1>3. PICK m \in S : \A x \in S : Index[m] <= Index[x]
  BY <1>2, LeastIntent
<1>4. PICK j \in Intents : Of[j] = Of[i] /\ Index[j] = Index[m] - 1 /\ <<m, j>> \in Needs
  BY <1>3 DEF Chained
<1>5. Succeeded(j)
  BY <1>3, <1>4, SucceededIsObserved DEF Prerequisites
<1>6. Index[j] # Index[i]
  BY <1>4, <1>5 DEF Chained
<1>7. j \in S /\ Index[j] < Index[m]
  BY <1>3, <1>4, <1>5, <1>6
<1>. QED  BY <1>3, <1>4, <1>7

\* The next change after k in the chain of a plan that goes on to i.
LEMMA NextInChain ==
  ASSUME NEW Index \in [Intents -> Nat], Chained(Index),
         NEW i \in Intents, NEW k \in Intents, Of[k] = Of[i], Index[k] < Index[i]
  PROVE  \E m \in Intents : Of[m] = Of[i] /\ Index[m] <= Index[i] /\ <<m, k>> \in Needs
<1>. DEFINE S == {m \in Intents : Of[m] = Of[i] /\ Index[m] > Index[k]}
<1>1. i \in S
  OBVIOUS
<1>2. PICK m \in S : \A x \in S : Index[m] <= Index[x]
  BY <1>1, LeastIntent
<1>3. PICK j \in Intents : Of[j] = Of[i] /\ Index[j] = Index[m] - 1 /\ <<m, j>> \in Needs
  <2>1. m \in Intents /\ Of[m] = Of[i] /\ Index[m] > Index[k]
    OBVIOUS
  <2>2. Index[m] > 0
    BY <2>1
  <2>. QED  BY <2>1, <2>2 DEF Chained
<1>4. j \notin S
  BY <1>2, <1>3
<1>5. Index[j] = Index[k]
  BY <1>2, <1>3, <1>4
<1>6. j = k
  BY <1>3, <1>5 DEF Chained
<1>. QED  BY <1>1, <1>2, <1>3, <1>6

\* The first change that has not succeeded is taken up by a pass, or nothing
\* but current assessments is missing for an attempt at it, or a pass is about
\* to observe the change before it.
LEMMA ChainGoesOn ==
  ASSUME IInv, NEW Index \in [Intents -> Nat], Chained(Index)
  PROVE  NoPlanIsStuck
<1>. SUFFICES ASSUME NEW p \in Plans, base[p] > 0, Clear(p), ~Complete(p),
                     \A k \in Intents : Of[k] = p =>
                       ~Executable(k) /\ \A n \in DOMAIN row[k] : ~WorkedOn(k, n)
              PROVE  FALSE
  BY DEF NoPlanIsStuck
<1>1. TypeOK /\ base[p] \in Nat /\ Revision \in Nat /\ base[p] <= Revision
  BY ChangesTyped DEF IInv, TypeOK, Chains, PlansOK
<1>2. \A k \in Intents : Of[k] = p =>
        /\ k \in approved
        /\ \A n \in DOMAIN row[k] : row[k][n] \notin InFlight
        /\ Len(row[k]) < MaxAttempts \/ row[k][MaxAttempts] # "OBSERVED_FAILURE"
        /\ (\E e \in Needs : e[2] = k) => ~Some(k, "OBSERVED_FAILURE")
        /\ \A j \in Intents : Operation[j] = Operation[k] /\ j # k =>
             \A n \in DOMAIN row[j] : row[j][n] \notin Live
  BY DEF Clear, Abandoned
<1>. DEFINE S == {k \in Intents : Of[k] = p /\ ~Succeeded(k)}
<1>3. S # {}
  BY DEF Complete
<1>4. PICK i \in S : \A x \in S : Index[i] <= Index[x]
  BY <1>3, LeastIntent
<1>5. i \in Intents /\ Of[i] = p /\ ~Succeeded(i)
  BY <1>4
<1>6. \A k \in Intents : Of[k] = p /\ Index[k] < Index[i] => Succeeded(k)
  <2>. TAKE k \in Intents
  <2>1. Index[k] \in Nat /\ Index[i] \in Nat
    BY <1>5
  <2>. QED  BY <1>4, <2>1
<1>. HIDE DEF S
<1>7. \A j \in Prerequisites(i) :
        /\ j \in Intents /\ Of[j] = p /\ Succeeded(j) /\ ~Some(j, "OBSERVED_FAILURE")
  <2>. TAKE j \in Prerequisites(i)
  <2>1. j \in Intents /\ <<i, j>> \in Needs
    BY DEF Prerequisites
  <2>2. Of[j] = p /\ Index[j] < Index[i]
    <3>1. \A e \in Needs : Of[e[1]] = Of[e[2]] /\ Index[e[2]] < Index[e[1]]
      BY NeedsStayInPlan DEF Chained
    <3>. QED  BY <1>5, <2>1, <3>1
  <2>3. Succeeded(j)
    BY <1>5, <1>6, <2>1, <2>2
  <2>4. \E e \in Needs : e[2] = j
    BY <2>1
  <2>. QED  BY <1>2, <2>1, <2>2, <2>3, <2>4
<1>8. DependenciesAllow(i)
  BY <1>7 DEF DependenciesAllow
<1>9. \A n \in DOMAIN row[i] : row[i][n] \notin Live
  BY <1>2, <1>5 DEF Live, Succeeded, Some
<1>10. Len(row[i]) < MaxAttempts
  <2>1. /\ row[i] \in Seq(Statuses) /\ Len(row[i]) \in Nat /\ DOMAIN row[i] = 1 .. Len(row[i])
    BY <1>1, <1>5, RowTyped
  <2>2. \A n \in DOMAIN row[i] : row[i][n] = "OBSERVED_FAILURE"
    <3>. TAKE n \in DOMAIN row[i]
    <3>1. row[i][n] \in Statuses
      BY <2>1, ElementOfSeq
    <3>. QED  BY <1>9, <3>1 DEF Statuses, Live
  <2>. QED  BY <1>2, <1>5, <2>1, <2>2, Bounds
<1>11. i \in Candidates
  BY <1>2, <1>5, <1>7, <1>9, <1>10 DEF Candidates, Clear
<1>12. OperationFree(i)
  BY <1>2, <1>5, <1>9 DEF OperationFree
<1>13. ~FreshBase(i)
  BY <1>5, <1>8, <1>11, <1>12 DEF Executable
\* The head is a change k of the plan, and k is observed.
<1>14. Revision \in Revisions /\ Of[IntentAt(Revision)] = p
  <2>1. Revision \in base[p] + 1 .. Revision
    BY <1>1, <1>5, <1>13 DEF FreshBase
  <2>. QED  BY <2>1 DEF Clear
<1>15. PICK k \in Intents : k = IntentAt(Revision) /\ Of[k] = p
  BY <1>1, <1>14, ChangesTyped
<1>16. Succeeded(k) /\ observed[k] = Revision
  <2>1. /\ changes[Revision][2] \in DOMAIN row[k]
        /\ row[k][changes[Revision][2]] \in {"DISPATCHED", "OBSERVED_SUCCESS"}
    BY <1>14, <1>15 DEF IInv, Rows, AppliedIsLive, RecordTellsTruth, StatusAt, IntentAt
  <2>2. Succeeded(k)
    BY <1>2, <1>15, <2>1 DEF Succeeded, Some, InFlight
  <2>. QED  BY <1>14, <1>15, <2>2, SucceededIsObserved
<1>17. PICK m \in Intents : Of[m] = p /\ Index[m] <= Index[i] /\ <<m, k>> \in Needs
  <2>1. Index[k] < Index[i]
    BY <1>5, <1>15, <1>16, ChainInOrder
  <2>. QED  BY <1>5, <1>15, <2>1, NextInChain
<1>18. k \in Prerequisites(m)
  BY <1>17 DEF Prerequisites
<1>19. CASE Succeeded(m)
  <2>1. observed[k] < observed[m] /\ observed[m] \in 1 .. Revision
    BY <1>18, <1>19, SucceededIsObserved
  <2>. QED  BY <1>1, <1>16, <2>1
<1>20. CASE ~Succeeded(m)
  <2>1. m = i
    <3>1. Index[m] = Index[i]
      BY <1>5, <1>6, <1>17, <1>20
    <3>. QED  BY <1>5, <1>17, <3>1 DEF Chained
  <2>2. Revision \in ObservedRevisions(i)
    <3>1. k \in {j \in Prerequisites(i) : Succeeded(j)}
      BY <1>16, <1>18, <2>1
    <3>2. Revision # 0
      BY <1>1, <1>14, ChangesTyped
    <3>. QED  BY <1>16, <3>1, <3>2 DEF ObservedRevisions
  <2>3. \A r \in ObservedRevisions(i) : r <= Revision
    <3>. TAKE r \in ObservedRevisions(i)
    <3>1. PICK j \in Prerequisites(i) : Succeeded(j) /\ r = observed[j]
      BY DEF ObservedRevisions
    <3>2. observed[j] \in 1 .. Revision
      BY <1>7, <3>1, SucceededIsObserved
    <3>. QED  BY <1>1, <3>1, <3>2
  <2>. QED  BY <1>13, <2>2, <2>3 DEF FreshBase
<1>. QED  BY <1>19, <1>20

\* A plan whose changes form a chain, as the compiler makes them, never waits
\* for itself, whatever order passes, other plans and other commands run in: as
\* long as nothing outside it stands in its way, it is complete, a pass is at
\* work on it, or the gate has nothing but assessments to wait for.
THEOREM ChainNeverStuck ==
  ASSUME NEW Index \in [Intents -> Nat], Chained(Index)
  PROVE  Spec => []NoPlanIsStuck
<1>1. IInv => NoPlanIsStuck
  BY ChainGoesOn
<1>. QED  BY <1>1, InvHolds, PTL

-----------------------------------------------------------------------------
(* Passes end *)

\* What a step of a pass does to the pass.
Advances(q) ==
  \/ pass'[q].at = "idle"
  \/ pass'[q].todo \subseteq pass[q].todo /\ pass'[q].todo # pass[q].todo
  \/ pass'[q].todo = pass[q].todo /\ <<pass[q].at, pass'[q].at>> \in NextStage

LEMMA GoAdvances ==
  ASSUME TypeOK, NEW q \in Passes, NEW at \in Stages, Go(q, at), <<pass[q].at, at>> \in NextStage
  PROVE  Advances(q)
<1>1. pass'[q].at = at /\ pass'[q].todo = pass[q].todo
  BY PassTyped DEF Go, TypeOK
<1>. QED  BY <1>1 DEF Advances

LEMMA ResumeAdvances ==
  ASSUME TypeOK, NEW q \in Passes, Resume(q),
         pass[q].at \in {"prepare", "claim", "schedule", "fail", "observe"}
  PROVE  Advances(q)
<1>1. pass'[q].at \in {"idle", "next"} /\ pass'[q].todo = pass[q].todo
  BY ResumeWritten
<1>2. <<pass[q].at, "next">> \in NextStage
  BY DEF NextStage
<1>. QED  BY <1>1, <1>2 DEF Advances

LEMMA PassAdvances ==
  ASSUME TypeOK, NEW q \in Passes, PassStep(q) \/ Throw(q) \/ Stop(q)
  PROVE  Advances(q)
<1>1. CASE Load(q)
  <2>1. PICK a \in pass[q].todo : \E r :
          pass' = [pass EXCEPT ![q] =
            [at |-> "prepare", todo |-> pass[q].todo \ {a}, intent |-> a[1], n |-> a[2], revision |-> r]]
    BY <1>1 DEF Load
  <2>2. pass'[q].todo = pass[q].todo \ {a}
    BY <2>1 DEF TypeOK
  <2>. QED  BY <2>2 DEF Advances
<1>2. CASE Prepare(q)
  BY <1>2, GoAdvances DEF Prepare, Stages, NextStage
<1>3. CASE Refuse(q)
  BY <1>3, ResumeAdvances DEF Refuse
<1>4. CASE Claim(q)
  BY <1>4, GoAdvances DEF Claim, Stages, NextStage
<1>5. CASE Schedule(q)
  <2>1. pass[q].at = "schedule" /\ pass'[q].at = "observe" /\ pass'[q].todo = pass[q].todo
    BY <1>5, PassTyped DEF Schedule, TypeOK
  <2>2. <<"schedule", "observe">> \in NextStage
    BY DEF NextStage
  <2>. QED  BY <2>1, <2>2 DEF Advances
<1>6. CASE ScheduleRefused(q)
  BY <1>6, GoAdvances DEF ScheduleRefused, Stages, NextStage
<1>7. CASE RecordFailure(q)
  BY <1>7, ResumeAdvances DEF RecordFailure
<1>8. CASE Observe(q)
  BY <1>8, ResumeAdvances DEF Observe
<1>9. CASE Throw(q)
  BY <1>9, ResumeAdvances DEF Throw
<1>10. CASE Stop(q)
  BY <1>10 DEF Stop, Idle, TypeOK, Advances
<1>. QED
  BY <1>1, <1>2, <1>3, <1>4, <1>5, <1>6, <1>7, <1>8, <1>9, <1>10 DEF PassStep

\* A pass takes up each of its candidates at most once and goes through the
\* transactions of an attempt in their order, whatever they answer: it ends, and
\* the next one sees what this one left.
THEOREM PassesGoForward == Spec => PassesOnlyAdvance
<1>1. TypeOK /\ [Next]_vars =>
        [\A q \in Passes : (PassStep(q) \/ Throw(q) \/ Stop(q)) => Advances(q)]_vars
  BY PassAdvances
<1>2. Spec => []TypeOK
  BY TypeCorrect
<1>3. Spec => [][\A q \in Passes : (PassStep(q) \/ Throw(q) \/ Stop(q)) => Advances(q)]_vars
  BY <1>1, <1>2, PTL DEF Spec
<1>. QED  BY <1>3 DEF PassesOnlyAdvance, Advances
=============================================================================
