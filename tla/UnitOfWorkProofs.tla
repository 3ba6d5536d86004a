-------------------------- MODULE UnitOfWorkProofs --------------------------
(***************************************************************************)
(* Theorems about the unit of work, for any callers, keys, aggregates,     *)
(* scopes and number of attempts.                                          *)
(***************************************************************************)
EXTENDS UnitOfWork, WellFoundedInduction, TLAPS

-----------------------------------------------------------------------------
(* Kinds of steps *)

\* Every return of execute other than a commit.
Returns(c) == pc[c] # "idle" /\ \E a \in {"OK", "CONFLICT", "ERROR"} : Rollback(c, a)

\* A new attempt.
Retries(c) == pc[c] # "idle" /\ attempt[c] < MaxAttempts /\ Retry(c)

LEMMA WaitingIsRunning ==
  ASSUME TypeOK, NEW c \in Clients, NEW d \in Clients, WaitsFor(c, d)
  PROVE  pc[c] # "idle"
BY DEF TypeOK, WaitsFor

LEMMA FailureKinds ==
  ASSUME TypeOK, NEW c \in Clients, pc[c] # "idle", RetryOrGiveUp(c)
  PROVE  Returns(c) \/ Retries(c)
BY DEF RetryOrGiveUp, AttemptsLeft, Returns, Retries

LEMMA StepKinds ==
  ASSUME TypeOK, [Next]_vars
  PROVE  \/ \E c \in Clients :
              \/ execute(c) \/ BeginSerializable(c) \/ LockKey(c) \/ ClaimNew(c)
              \/ LockHead(c) \/ HandlerMoves(c) \/ WriteRow(c)
              \/ insertCommandReceipt(c) \/ Commit(c) \/ Retries(c) \/ Returns(c)
         \/ UNCHANGED vars
<1>1. ASSUME NEW c \in Clients, SerializationFailure(c) PROVE Returns(c) \/ Retries(c)
  BY <1>1, FailureKinds DEF SerializationFailure
<1>2. ASSUME NEW c \in Clients, DeadlockDetected(c) PROVE Returns(c) \/ Retries(c)
  <2>1. PICK S \in SUBSET Clients : c \in S /\ CircularWait(S)
    BY <1>2 DEF DeadlockDetected
  <2>2. PICK d \in S : WaitsFor(c, d)
    BY <2>1 DEF CircularWait
  <2>. QED  BY <1>2, <2>2, WaitingIsRunning, FailureKinds DEF DeadlockDetected
<1>3. ASSUME NEW c \in Clients,
             ClaimReplay(c) \/ ClaimMismatch(c) \/ RefuseStale(c) \/ HandlerRefuses(c) \/ Throw(c)
      PROVE  Returns(c)
  BY <1>3 DEF ClaimReplay, ClaimMismatch, RefuseStale, HandlerRefuses, Throw, Returns
<1>. QED  BY <1>1, <1>2, <1>3 DEF Next, Step

-----------------------------------------------------------------------------
(* Types *)

ReceiptsTyped(rs) ==
  /\ rs = [k \in Keys |-> rs[k]]
  /\ \A k \in Keys : rs[k] # None => IsReceipt(rs[k])

LEMMA EnvelopeFields ==
  ASSUME NEW e \in Envelopes
  PROVE  /\ e.key \in Keys /\ e.payload \in Payloads
         /\ \E D \in SUBSET Rows : e.expects \in [D -> Versions]
         /\ DOMAIN e.expects \subseteq Rows
         /\ e # None
BY NoneDiffers DEF Envelopes

\* The last conjunct of TypeOK, for one caller.
CallType(c) ==
  /\ pc[c] = "idle" <=> attempt[c] = 0
  /\ pc[c] = "idle" <=> envelope[c] = None
  /\ pc[c] \notin {"heads", "write"} => want[c] = None

LEMMA TypeInit == Init => TypeOK
BY SomeAttempt DEF Init, TypeOK, NoSnapshot, Committed

LEMMA ReleaseTypes ==
  ASSUME TypeOK, NEW c \in Clients, ReleaseLocks(c), ForgetTransaction(c)
  PROVE  /\ keyLock' \in [Keys -> Clients \cup {None}]
         /\ rowLock' \in [Rows -> Clients \cup {None}]
         /\ snapshot' \in [Clients -> [version : [Rows -> Nat], keys : SUBSET Keys]]
         /\ todo' \in [Clients -> SUBSET Rows]
         /\ want' \in [Clients -> Rows \cup {None}]
         /\ moves' \in [Clients -> SUBSET Rows]
         /\ want'[c] = None
         /\ \A d \in Clients \ {c} : want'[d] = want[d]
<1>1. NoSnapshot \in [version : [Rows -> Nat], keys : SUBSET Keys]
  BY DEF NoSnapshot
<1>. QED  BY <1>1 DEF TypeOK, ReleaseLocks, ForgetTransaction

LEMMA FinishTypes ==
  ASSUME TypeOK, NEW c \in Clients, NEW a, Finish(c, a), version' \in [Rows -> Nat],
         changes' \in [Keys -> Nat], ReceiptsTyped(receipts')
  PROVE  TypeOK'
<1>1. /\ envelope' \in [Clients -> Envelopes \cup {None}]
      /\ attempt' \in [Clients -> 0 .. MaxAttempts]
      /\ pc' \in [Clients -> {"idle", "begin", "lock", "claim", "heads", "write", "commit"}]
  BY SomeAttempt DEF Finish, TypeOK, Committed, Goto
<1>2. ASSUME NEW d \in Clients PROVE CallType(d)'
  <2>1. CASE d = c
    BY <2>1, ReleaseTypes DEF Finish, TypeOK, Committed, Goto, CallType
  <2>2. CASE d # c
    BY <2>2, ReleaseTypes DEF Finish, TypeOK, Committed, Goto, CallType
  <2>. QED  BY <2>1, <2>2
<1>. QED
  BY <1>1, <1>2, ReleaseTypes DEF Finish, TypeOK, Committed, ReceiptsTyped, CallType

LEMMA TypeStep == TypeOK /\ [Next]_vars => TypeOK'
<1>. SUFFICES ASSUME TypeOK, [Next]_vars PROVE TypeOK'
  OBVIOUS
<1>1. ASSUME NEW c \in Clients, execute(c) PROVE TypeOK'
  <2>1. PICK e \in Envelopes : envelope' = [envelope EXCEPT ![c] = e]
    BY <1>1 DEF execute
  <2>2. /\ envelope' \in [Clients -> Envelopes \cup {None}]
        /\ attempt' \in [Clients -> 0 .. MaxAttempts]
        /\ pc' \in [Clients -> {"idle", "begin", "lock", "claim", "heads", "write", "commit"}]
    BY <1>1, <2>1, SomeAttempt DEF execute, TypeOK, Committed, Goto
  <2>3. ASSUME NEW d \in Clients PROVE CallType(d)'
    <3>1. e # None
      BY EnvelopeFields
    <3>. QED  BY <1>1, <2>1, <3>1 DEF execute, TypeOK, Committed, Goto, rest, CallType
  <2>. QED
    BY <1>1, <2>2, <2>3 DEF execute, TypeOK, Committed, database, locks, rest, CallType
<1>2. ASSUME NEW c \in Clients, BeginSerializable(c) PROVE TypeOK'
  BY <1>2 DEF BeginSerializable, TypeOK, Committed, Goto, database, locks, rest
<1>3. ASSUME NEW c \in Clients, LockKey(c) PROVE TypeOK'
  BY <1>3 DEF LockKey, TypeOK, Committed, Goto, database, rest
<1>4. ASSUME NEW c \in Clients, NEW S \in SUBSET Rows, NEW first \in SUBSET S,
             LockNext(c, S, first)
      PROVE  /\ todo' \in [Clients -> SUBSET Rows]
             /\ want' \in [Clients -> Rows \cup {None}]
             /\ \A d \in Clients \ {c} : want'[d] = want[d]
  BY <1>4 DEF LockNext, TypeOK, Committed
<1>5. ASSUME NEW c \in Clients, ClaimNew(c) PROVE TypeOK'
  <2>1. HeadsToLock(c) \in SUBSET Rows /\ Lowest(HeadsToLock(c)) \in SUBSET HeadsToLock(c)
    BY DEF HeadsToLock, Lowest, Rows
  <2>2. LockNext(c, HeadsToLock(c), Lowest(HeadsToLock(c)))
    BY <1>5 DEF ClaimNew
  <2>. QED
    BY <1>4, <1>5, <2>1, <2>2 DEF ClaimNew, TypeOK, Committed, Goto, database, locks
<1>6. ASSUME NEW c \in Clients, LockHead(c) PROVE TypeOK'
  <2>. DEFINE S == todo[c] \ {want[c]}
  <2>1. S \in SUBSET Rows /\ Lowest(S) \in SUBSET S
    BY DEF Lowest, TypeOK, Committed
  <2>2. LockNext(c, S, Lowest(S))
    BY <1>6 DEF LockHead
  <2>. HIDE DEF S
  <2>. QED
    BY <1>4, <1>6, <2>1, <2>2 DEF LockHead, TypeOK, Committed, database
<1>7. ASSUME NEW c \in Clients, HandlerMoves(c) PROVE TypeOK'
  <2>1. PICK W \in SUBSET Rows : moves' = [moves EXCEPT ![c] = W] /\ LockNext(c, W, W)
    BY <1>7 DEF HandlerMoves
  <2>. QED
    BY <1>4, <1>7, <2>1 DEF HandlerMoves, TypeOK, Committed, Goto, database, locks
<1>8. ASSUME NEW c \in Clients, WriteRow(c) PROVE TypeOK'
  <2>. DEFINE S == todo[c] \ {want[c]}
  <2>1. S \in SUBSET Rows /\ LockNext(c, S, S)
    BY <1>8 DEF WriteRow, TypeOK, Committed
  <2>. HIDE DEF S
  <2>. QED
    BY <1>4, <1>8, <2>1 DEF WriteRow, TypeOK, Committed, database
<1>9. ASSUME NEW c \in Clients, insertCommandReceipt(c) PROVE TypeOK'
  BY <1>9 DEF insertCommandReceipt, TypeOK, Committed, Goto, database, locks, rest
<1>10. ASSUME NEW c \in Clients, Commit(c) PROVE TypeOK'
  <2>1. envelope[c] \in Envelopes /\ moves[c] \in SUBSET Rows
    BY <1>10 DEF Commit, TypeOK, Committed
  <2>2. PICK D \in SUBSET Rows : expects(c) \in [D -> Versions]
    BY <2>1, EnvelopeFields DEF expects
  <2>3. version' \in [Rows -> Nat] /\ changes' \in [Keys -> Nat]
    <3>1. snapshot[c].version \in [Rows -> Nat] /\ version \in [Rows -> Nat]
      BY DEF TypeOK, Committed
    <3>2. ASSUME NEW r \in Rows
          PROVE  (IF r \in moves[c] THEN snapshot[c].version[r] + 1 ELSE version[r]) \in Nat
      BY <3>1
    <3>3. version' \in [Rows -> Nat]
      BY <1>10, <3>2 DEF Commit
    <3>4. keyOf(c) \in Keys /\ changes \in [Keys -> Nat]
      BY <2>1, EnvelopeFields DEF keyOf, TypeOK
    <3>5. changes' = [changes EXCEPT ![keyOf(c)] = @ + 1]
      BY <1>10 DEF Commit
    <3>. QED  BY <3>3, <3>4, <3>5
  <2>. DEFINE new == [payload |-> envelope[c].payload, expects |-> expects(c),
                      before |-> [r \in moves[c] |-> snapshot[c].version[r]]]
  <2>4. receipts' = [receipts EXCEPT ![keyOf(c)] = new]
    BY <1>10 DEF Commit
  <2>5. IsReceipt(new)
    <3>1. snapshot[c].version \in [Rows -> Nat]
      BY DEF TypeOK, Committed
    <3>2. [r \in moves[c] |-> snapshot[c].version[r]] \in [moves[c] -> Nat]
      BY <2>1, <3>1
    <3>3. new \in [payload : Payloads, expects : [D -> Versions], before : [moves[c] -> Nat]]
      BY <2>1, <2>2, <3>2, EnvelopeFields
    <3>. QED  BY <2>1, <2>2, <3>3 DEF IsReceipt
  <2>. HIDE DEF new
  <2>6. ReceiptsTyped(receipts')
    BY <2>4, <2>5 DEF TypeOK, ReceiptsTyped, Committed
  <2>. QED  BY <1>10, <2>3, <2>6, FinishTypes DEF Commit
<1>11. ASSUME NEW c \in Clients, Retries(c) PROVE TypeOK'
  <2>1. /\ attempt' \in [Clients -> 0 .. MaxAttempts]
        /\ pc' \in [Clients -> {"idle", "begin", "lock", "claim", "heads", "write", "commit"}]
    BY <1>11, SomeAttempt DEF Retries, Retry, TypeOK, Committed, Goto
  <2>2. /\ ReleaseLocks(c) /\ ForgetTransaction(c)
        /\ UNCHANGED <<database, envelope, answer>>
    BY <1>11 DEF Retries, Retry
  <2>3. ASSUME NEW d \in Clients PROVE CallType(d)'
    <3>1. want'[c] = None /\ (d # c => want'[d] = want[d])
      BY <2>2, ReleaseTypes
    <3>. QED  BY <1>11, <2>2, <3>1, SomeAttempt DEF Retries, Retry, TypeOK, Committed, Goto, CallType
  <2>. QED
    BY <2>1, <2>2, <2>3, ReleaseTypes DEF TypeOK, Committed, database, CallType
<1>12. ASSUME NEW c \in Clients, Returns(c) PROVE TypeOK'
  BY <1>12, FinishTypes DEF Returns, Rollback, TypeOK, Committed, ReceiptsTyped, database
<1>13. CASE UNCHANGED vars
  BY <1>13 DEF TypeOK, Committed, vars, database, locks, rest
<1>. QED
  BY <1>1, <1>2, <1>3, <1>5, <1>6, <1>7, <1>8, <1>9, <1>10, <1>11, <1>12, <1>13, StepKinds

\* Every reachable state has the types of TypeOK.
THEOREM UnitOfWorkTypes == Spec => []TypeOK
BY TypeInit, TypeStep, PTL DEF Spec

-----------------------------------------------------------------------------
(* The inductive invariant, part 1: a locked row is as the snapshot shows it *)

LockSound ==
  \A c \in Clients, r \in Rows :
    rowLock[r] = c =>
      pc[c] \in {"heads", "write", "commit"} /\ version[r] = snapshot[c].version[r]

\* What a caller holds while it locks heads, and what it holds afterwards.
Held(c) ==
  /\ want[c] = None => todo[c] = {}
  /\ pc[c] # "idle" => \A h \in Heads \cap DOMAIN expects(c) : expects(c)[h] # 0
  /\ pc[c] = "heads" => \A h \in HeadsToLock(c) \ todo[c] : rowLock[h] = c
  /\ pc[c] \in {"write", "commit"} =>
       /\ ExpectationsHold(c)
       /\ \A h \in Heads \cap DOMAIN expects(c) : rowLock[h] = c
       /\ \A r \in moves[c] \ todo[c] : rowLock[r] = c

Locking == LockSound /\ \A c \in Clients : Held(c)

LEMMA LockingInit == Init => Locking
BY NoneDiffers DEF Init, Locking, LockSound, Held

\* A caller that is not involved keeps what it holds.
LEMMA OthersHeld ==
  ASSUME TypeOK, Locking, NEW c \in Clients, NEW d \in Clients, d # c,
         pc'[d] = pc[d], envelope'[d] = envelope[d], snapshot'[d] = snapshot[d],
         todo'[d] = todo[d], want'[d] = want[d], moves'[d] = moves[d],
         \A r \in Rows : rowLock[r] = d => rowLock'[r] = d
  PROVE  Held(d)'
<1>1. pc[d] # "idle" => DOMAIN expects(d) \subseteq Rows
  BY EnvelopeFields DEF TypeOK, expects
<1>2. /\ expects(d)' = expects(d)
      /\ HeadsToLock(d)' = HeadsToLock(d)
      /\ ExpectationsHold(d)' = ExpectationsHold(d)
  BY DEF expects, HeadsToLock, ExpectationsHold
<1>3. HeadsToLock(d) \subseteq Rows /\ moves[d] \subseteq Rows
  BY DEF HeadsToLock, Rows, TypeOK
<1>. QED  BY <1>1, <1>2, <1>3 DEF Locking, Held

LEMMA LockNextQueue ==
  ASSUME TypeOK, NEW c \in Clients, NEW S \in SUBSET Rows, NEW first \in SUBSET S,
         LockNext(c, S, first)
  PROVE  /\ todo'[c] = S
         /\ want'[c] = None => S = {}
         /\ \A d \in Clients \ {c} : todo'[d] = todo[d] /\ want'[d] = want[d]
BY NoneDiffers DEF LockNext, TypeOK

LEMMA ReleaseKeeps ==
  ASSUME TypeOK, NEW c \in Clients, ReleaseLocks(c), ForgetTransaction(c)
  PROVE  /\ \A r \in Rows :
              rowLock'[r] # c /\ rowLock'[r] = IF rowLock[r] = c THEN None ELSE rowLock[r]
         /\ todo'[c] = {} /\ want'[c] = None
         /\ \A d \in Clients \ {c} :
              /\ todo'[d] = todo[d] /\ want'[d] = want[d]
              /\ moves'[d] = moves[d] /\ snapshot'[d] = snapshot[d]
<1>1. c # None
  BY NoneDiffers
<1>. QED  BY <1>1 DEF ReleaseLocks, ForgetTransaction, TypeOK

LEMMA LockingStep == TypeOK /\ TypeOK' /\ Locking /\ [Next]_vars => Locking'
<1>. SUFFICES ASSUME TypeOK, TypeOK', Locking, [Next]_vars PROVE Locking'
  OBVIOUS
<1>1. ASSUME NEW c \in Clients, execute(c) PROVE Locking'
  <2>1. PICK e \in Envelopes :
          /\ \A r \in DOMAIN e.expects :
               IF r \in Heads THEN e.expects[r] \in (1 .. version[r]) \cup {1}
                              ELSE e.expects[r] \in 0 .. version[r]
          /\ envelope' = [envelope EXCEPT ![c] = e]
    BY <1>1 DEF execute
  <2>2. LockSound'
    BY <1>1 DEF execute, Locking, LockSound, TypeOK, Goto, database, locks
  <2>3. Held(c)'
    <3>1. expects(c)' = e.expects
      BY <2>1 DEF expects, TypeOK
    <3>2. \A h \in Heads \cap DOMAIN e.expects : e.expects[h] # 0
      <4>1. ASSUME NEW h \in Heads \cap DOMAIN e.expects
            PROVE  e.expects[h] \in (1 .. version[h]) \cup {1} /\ version[h] \in Nat
        BY <2>1, EnvelopeFields DEF TypeOK, Rows
      <4>. QED  BY <4>1
    <3>. QED  BY <1>1, <3>1, <3>2 DEF execute, Locking, Held, TypeOK, Goto, rest
  <2>4. ASSUME NEW d \in Clients, d # c PROVE Held(d)'
    BY <1>1, <2>1, <2>4, OthersHeld DEF execute, TypeOK, Goto, locks, rest
  <2>. QED  BY <2>2, <2>3, <2>4 DEF Locking
<1>2. ASSUME NEW c \in Clients, BeginSerializable(c) PROVE Locking'
  <2>1. LockSound'
    BY <1>2 DEF BeginSerializable, Locking, LockSound, TypeOK, Goto, database, locks
  <2>2. Held(c)'
    BY <1>2 DEF BeginSerializable, Locking, Held, TypeOK, Goto, rest, expects
  <2>3. ASSUME NEW d \in Clients, d # c PROVE Held(d)'
    BY <1>2, <2>3, OthersHeld DEF BeginSerializable, TypeOK, Goto, locks, rest
  <2>. QED  BY <2>1, <2>2, <2>3 DEF Locking
<1>3. ASSUME NEW c \in Clients, LockKey(c) PROVE Locking'
  <2>1. LockSound'
    BY <1>3 DEF LockKey, Locking, LockSound, TypeOK, Goto, database
  <2>2. Held(c)'
    BY <1>3 DEF LockKey, Locking, Held, TypeOK, Goto, rest, expects
  <2>3. ASSUME NEW d \in Clients, d # c PROVE Held(d)'
    BY <1>3, <2>3, OthersHeld DEF LockKey, TypeOK, Goto, rest
  <2>. QED  BY <2>1, <2>2, <2>3 DEF Locking
<1>4. ASSUME NEW c \in Clients, ClaimNew(c) PROVE Locking'
  <2>1. /\ HeadsToLock(c) \in SUBSET Rows
        /\ Lowest(HeadsToLock(c)) \in SUBSET HeadsToLock(c)
    BY DEF HeadsToLock, Lowest, Rows
  <2>2. LockNext(c, HeadsToLock(c), Lowest(HeadsToLock(c)))
    BY <1>4 DEF ClaimNew
  <2>3. LockSound'
    BY <1>4 DEF ClaimNew, Locking, LockSound, TypeOK, Goto, database, locks
  <2>4. Held(c)'
    <3>1. HeadsToLock(c)' = HeadsToLock(c) /\ expects(c)' = expects(c)
      BY <1>4 DEF ClaimNew, HeadsToLock, expects
    <3>2. pc'[c] = "heads" /\ pc[c] # "idle"
      BY <1>4 DEF ClaimNew, TypeOK, Goto
    <3>3. todo'[c] = HeadsToLock(c) /\ (want'[c] = None => todo'[c] = {})
      BY <2>1, <2>2, LockNextQueue
    <3>. QED  BY <3>1, <3>2, <3>3 DEF Locking, Held
  <2>5. ASSUME NEW d \in Clients, d # c PROVE Held(d)'
    <3>1. todo'[d] = todo[d] /\ want'[d] = want[d]
      BY <2>1, <2>2, <2>5, LockNextQueue
    <3>. QED  BY <1>4, <2>5, <3>1, OthersHeld DEF ClaimNew, TypeOK, Goto, locks
  <2>. QED  BY <2>3, <2>4, <2>5 DEF Locking
<1>5. ASSUME NEW c \in Clients, LockHead(c) PROVE Locking'
  <2>. DEFINE S == todo[c] \ {want[c]}
  <2>1. S \in SUBSET Rows /\ Lowest(S) \in SUBSET S
    BY DEF Lowest, TypeOK
  <2>2. LockNext(c, S, Lowest(S))
    BY <1>5 DEF LockHead
  <2>3. /\ rowLock[want[c]] \in {None, c}
        /\ version[want[c]] = snapshot[c].version[want[c]]
        /\ rowLock' = [rowLock EXCEPT ![want[c]] = c]
    BY <1>5 DEF LockHead, Grantable
  <2>4. LockSound'
    BY <1>5, <2>3 DEF LockHead, Locking, LockSound, TypeOK, database
  <2>5. Held(c)'
    <3>1. HeadsToLock(c)' = HeadsToLock(c) /\ expects(c)' = expects(c)
      BY <1>5 DEF LockHead, HeadsToLock, expects
    <3>2. HeadsToLock(c) \subseteq Rows
      BY DEF HeadsToLock, Rows
    <3>3. todo'[c] = todo[c] \ {want[c]} /\ (want'[c] = None => todo'[c] = {})
      BY <2>1, <2>2, LockNextQueue
    <3>4. pc[c] = "heads" /\ pc'[c] = "heads"
      BY <1>5 DEF LockHead
    <3>5. ASSUME NEW h \in HeadsToLock(c) \ todo'[c] PROVE rowLock'[h] = c
      BY <2>3, <3>2, <3>3, <3>4 DEF Locking, Held, TypeOK
    <3>. HIDE DEF S
    <3>. QED
      BY <3>1, <3>3, <3>4, <3>5 DEF Locking, Held
  <2>6. ASSUME NEW d \in Clients, d # c PROVE Held(d)'
    <3>1. \A r \in Rows : rowLock[r] = d => rowLock'[r] = d
      BY <2>3, <2>6, NoneDiffers DEF TypeOK
    <3>. HIDE DEF S
    <3>. QED
      BY <1>5, <2>1, <2>2, <2>6, <3>1, OthersHeld, LockNextQueue DEF LockHead
  <2>. QED  BY <2>4, <2>5, <2>6 DEF Locking
<1>6. ASSUME NEW c \in Clients, HandlerMoves(c) PROVE Locking'
  <2>1. PICK W \in SUBSET Rows : moves' = [moves EXCEPT ![c] = W] /\ LockNext(c, W, W)
    BY <1>6 DEF HandlerMoves
  <2>2. LockSound'
    BY <1>6 DEF HandlerMoves, Locking, LockSound, TypeOK, Goto, database, locks
  <2>3. Held(c)'
    <3>1. ExpectationsHold(c)' /\ expects(c)' = expects(c)
      BY <1>6 DEF HandlerMoves, ExpectationsHold, expects
    <3>2. todo[c] = {}
      BY <1>6 DEF HandlerMoves, Locking, Held
    <3>3. Heads \cap DOMAIN expects(c) \subseteq HeadsToLock(c)
      BY <1>6 DEF HandlerMoves, ExpectationsHold, HeadsToLock, Locking, Held
    <3>4. \A h \in Heads \cap DOMAIN expects(c) : rowLock[h] = c
      BY <1>6, <3>2, <3>3 DEF HandlerMoves, Locking, Held
    <3>5. moves'[c] = W /\ todo'[c] = W /\ (want'[c] = None => W = {}) /\ pc'[c] = "write"
      BY <1>6, <2>1, LockNextQueue DEF HandlerMoves, TypeOK, Goto
    <3>. QED
      BY <1>6, <3>1, <3>4, <3>5 DEF HandlerMoves, Locking, Held, locks
  <2>4. ASSUME NEW d \in Clients, d # c PROVE Held(d)'
    BY <1>6, <2>1, <2>4, OthersHeld, LockNextQueue DEF HandlerMoves, TypeOK, Goto, locks
  <2>. QED  BY <2>2, <2>3, <2>4 DEF Locking
<1>7. ASSUME NEW c \in Clients, WriteRow(c) PROVE Locking'
  <2>. DEFINE S == todo[c] \ {want[c]}
  <2>1. S \in SUBSET Rows /\ LockNext(c, S, S)
    BY <1>7 DEF WriteRow, TypeOK
  <2>2. /\ rowLock[want[c]] \in {None, c}
        /\ version[want[c]] = snapshot[c].version[want[c]]
        /\ rowLock' = [rowLock EXCEPT ![want[c]] = c]
    BY <1>7 DEF WriteRow, Grantable
  <2>3. LockSound'
    BY <1>7, <2>2 DEF WriteRow, Locking, LockSound, TypeOK, database
  <2>4. Held(c)'
    <3>1. ExpectationsHold(c)' = ExpectationsHold(c) /\ expects(c)' = expects(c)
      BY <1>7 DEF WriteRow, ExpectationsHold, expects
    <3>2. DOMAIN expects(c) \subseteq Rows /\ moves[c] \subseteq Rows
      BY <1>7, EnvelopeFields DEF WriteRow, TypeOK, expects
    <3>3. todo'[c] = todo[c] \ {want[c]} /\ (want'[c] = None => todo'[c] = {})
      BY <2>1, LockNextQueue
    <3>4. pc[c] = "write" /\ pc'[c] = "write" /\ moves'[c] = moves[c]
      BY <1>7 DEF WriteRow
    <3>5. ASSUME NEW r \in moves[c] \ todo'[c] PROVE rowLock'[r] = c
      BY <2>2, <3>2, <3>3, <3>4 DEF Locking, Held, TypeOK
    <3>6. ASSUME NEW h \in Heads \cap DOMAIN expects(c) PROVE rowLock'[h] = c
      BY <2>2, <3>2, <3>4 DEF Locking, Held, TypeOK
    <3>. HIDE DEF S
    <3>. QED
      BY <3>1, <3>3, <3>4, <3>5, <3>6 DEF Locking, Held
  <2>5. ASSUME NEW d \in Clients, d # c PROVE Held(d)'
    <3>1. \A r \in Rows : rowLock[r] = d => rowLock'[r] = d
      BY <2>2, <2>5, NoneDiffers DEF TypeOK
    <3>. HIDE DEF S
    <3>. QED
      BY <1>7, <2>1, <2>5, <3>1, OthersHeld, LockNextQueue DEF WriteRow
  <2>. QED  BY <2>3, <2>4, <2>5 DEF Locking
<1>8. ASSUME NEW c \in Clients, insertCommandReceipt(c) PROVE Locking'
  <2>1. LockSound'
    BY <1>8 DEF insertCommandReceipt, Locking, LockSound, TypeOK, Goto, database, locks
  <2>2. Held(c)'
    <3>1. ExpectationsHold(c)' = ExpectationsHold(c) /\ expects(c)' = expects(c)
      BY <1>8 DEF insertCommandReceipt, ExpectationsHold, expects
    <3>. QED
      BY <1>8, <3>1 DEF insertCommandReceipt, Locking, Held, TypeOK, Goto, locks, rest
  <2>3. ASSUME NEW d \in Clients, d # c PROVE Held(d)'
    BY <1>8, <2>3, OthersHeld DEF insertCommandReceipt, TypeOK, Goto, locks, rest
  <2>. QED  BY <2>1, <2>2, <2>3 DEF Locking
<1>9. ASSUME NEW c \in Clients, pc[c] # "idle", ReleaseLocks(c), ForgetTransaction(c),
             envelope'[c] = envelope[c] \/ pc'[c] = "idle",
             pc'[c] \in {"begin", "idle"},
             \A d \in Clients \ {c} : pc'[d] = pc[d] /\ envelope'[d] = envelope[d],
             \A r \in Rows : rowLock[r] # c => version'[r] = version[r]
      PROVE  Locking'
  <2>1. LockSound'
    <3>1. ASSUME NEW d \in Clients, NEW r \in Rows, rowLock'[r] = d
          PROVE  pc'[d] \in {"heads", "write", "commit"} /\ version'[r] = snapshot'[d].version[r]
      <4>1. d # c /\ rowLock[r] # c /\ rowLock[r] = d
        BY <1>9, <3>1, ReleaseKeeps, NoneDiffers
      <4>2. pc[d] \in {"heads", "write", "commit"} /\ version[r] = snapshot[d].version[r]
        BY <4>1 DEF Locking, LockSound
      <4>3. pc'[d] = pc[d] /\ snapshot'[d] = snapshot[d] /\ version'[r] = version[r]
        BY <1>9, <4>1, ReleaseKeeps
      <4>. QED  BY <4>2, <4>3
    <3>. QED  BY <3>1 DEF LockSound
  <2>2. Held(c)'
    BY <1>9, ReleaseKeeps DEF Locking, Held, expects
  <2>3. ASSUME NEW d \in Clients, d # c PROVE Held(d)'
    BY <1>9, <2>3, OthersHeld, ReleaseKeeps
  <2>. QED  BY <2>1, <2>2, <2>3 DEF Locking
<1>10. ASSUME NEW c \in Clients, Commit(c) PROVE Locking'
  <2>1. PICK a : Finish(c, a)
    BY <1>10 DEF Commit
  <2>2. \A r \in Rows : rowLock[r] # c => version'[r] = version[r]
    <3>1. \A r \in moves[c] : rowLock[r] = c
      BY <1>10 DEF Commit, TypeOK, Locking, Held
    <3>. QED  BY <1>10, <3>1 DEF Commit
  <2>. QED  BY <1>9, <1>10, <2>1, <2>2 DEF Commit, Finish, TypeOK, Goto
<1>11. ASSUME NEW c \in Clients, Retries(c) PROVE Locking'
  BY <1>9, <1>11 DEF Retries, Retry, TypeOK, Goto, database
<1>12. ASSUME NEW c \in Clients, Returns(c) PROVE Locking'
  BY <1>9, <1>12 DEF Returns, Rollback, Finish, TypeOK, Goto, database
<1>13. CASE UNCHANGED vars
  BY <1>13 DEF vars, database, locks, rest, Locking, LockSound, Held, expects, HeadsToLock,
               ExpectationsHold
<1>. QED
  BY <1>1, <1>2, <1>3, <1>4, <1>5, <1>6, <1>7, <1>8, <1>10, <1>11, <1>12, <1>13, StepKinds

-----------------------------------------------------------------------------
(* Part 2: one insert for a key, and what a commit leaves behind *)

\* Whoever inserted the receipt of a key is alone, until it commits.
Inserting ==
  /\ \A c \in Clients : pc[c] = "commit" => ~Committed(keyOf(c))
  /\ \A c, d \in Clients : pc[c] = "commit" /\ pc[d] = "commit" /\ keyOf(c) = keyOf(d) => c = d

\* A row has moved on since a committed command replaced its version, also in
\* every snapshot that shows the command.
History ==
  /\ \A k \in Keys : Committed(k) =>
       \A r \in DOMAIN receipts[k].before : receipts[k].before[r] < version[r]
  /\ \A c \in Clients : \A k \in snapshot[c].keys :
       /\ Committed(k)
       /\ \A r \in DOMAIN receipts[k].before : receipts[k].before[r] < snapshot[c].version[r]

Results == Inserting /\ AppliedOnce /\ History /\ NoLostUpdate /\ NoWriteSkew

LEMMA ResultsInit == Init => Results
BY DEF Init, Results, Inserting, AppliedOnce, History, NoLostUpdate, NoWriteSkew, Committed,
       NoSnapshot

LEMMA ReceiptFields ==
  ASSUME NEW x, IsReceipt(x)
  PROVE  /\ x.payload \in Payloads
         /\ DOMAIN x.expects \subseteq Rows /\ DOMAIN x.before \subseteq Rows
         /\ \A r \in DOMAIN x.before : x.before[r] \in Nat
BY DEF IsReceipt

\* A step that leaves the database alone and takes no snapshot.
LEMMA ResultsFrame ==
  ASSUME TypeOK, Results, NEW c \in Clients, UNCHANGED database,
         pc'[c] # "commit",
         snapshot'[c] = snapshot[c] \/ snapshot'[c] = NoSnapshot,
         \A d \in Clients \ {c} :
           pc'[d] = pc[d] /\ envelope'[d] = envelope[d] /\ snapshot'[d] = snapshot[d]
  PROVE  Results'
<1>1. AppliedOnce' /\ NoLostUpdate' /\ NoWriteSkew'
  BY DEF Results, AppliedOnce, NoLostUpdate, NoWriteSkew, Missed, Committed, database
<1>2. Inserting'
  BY DEF Results, Inserting, keyOf, Committed, database
<1>3. History'
  BY DEF Results, History, Committed, NoSnapshot, database
<1>. QED  BY <1>1, <1>2, <1>3 DEF Results

LEMMA ResultsStep == TypeOK /\ TypeOK' /\ Locking /\ Results /\ [Next]_vars => Results'
<1>. SUFFICES ASSUME TypeOK, TypeOK', Locking, Results, [Next]_vars PROVE Results'
  OBVIOUS
<1>1. ASSUME NEW c \in Clients, execute(c) PROVE Results'
  BY <1>1, ResultsFrame DEF execute, TypeOK, Goto
<1>2. ASSUME NEW c \in Clients, BeginSerializable(c) PROVE Results'
  <2>1. AppliedOnce' /\ NoLostUpdate' /\ NoWriteSkew'
    BY <1>2 DEF BeginSerializable, Results, AppliedOnce, NoLostUpdate, NoWriteSkew, Missed,
                Committed, database
  <2>2. Inserting'
    BY <1>2 DEF BeginSerializable, Results, Inserting, keyOf, Committed, database, Goto, TypeOK
  <2>3. /\ \A k \in Keys : Committed(k) =>
             \A r \in DOMAIN receipts[k].before : receipts[k].before[r] < version[r]
        /\ UNCHANGED <<receipts, version>>
        /\ snapshot' = [snapshot EXCEPT
                          ![c] = [version |-> version, keys |-> {k \in Keys : Committed(k)}]]
    BY <1>2 DEF BeginSerializable, Results, History, database
  <2>4. History'
    BY <2>3 DEF Results, History, Committed, TypeOK
  <2>. QED  BY <2>1, <2>2, <2>4 DEF Results
<1>3. ASSUME NEW c \in Clients, LockKey(c) PROVE Results'
  BY <1>3, ResultsFrame DEF LockKey, TypeOK, Goto
<1>4. ASSUME NEW c \in Clients, ClaimNew(c) PROVE Results'
  BY <1>4, ResultsFrame DEF ClaimNew, TypeOK, Goto
<1>5. ASSUME NEW c \in Clients, LockHead(c) PROVE Results'
  BY <1>5, ResultsFrame DEF LockHead
<1>6. ASSUME NEW c \in Clients, HandlerMoves(c) PROVE Results'
  BY <1>6, ResultsFrame DEF HandlerMoves, TypeOK, Goto
<1>7. ASSUME NEW c \in Clients, WriteRow(c) PROVE Results'
  BY <1>7, ResultsFrame DEF WriteRow
<1>8. ASSUME NEW c \in Clients, insertCommandReceipt(c) PROVE Results'
  <2>1. AppliedOnce' /\ NoLostUpdate' /\ NoWriteSkew' /\ History'
    BY <1>8 DEF insertCommandReceipt, Results, AppliedOnce, NoLostUpdate, NoWriteSkew, Missed,
                History, Committed, database
  <2>2. Inserting'
    BY <1>8, SMTT(40) DEF insertCommandReceipt, Results, Inserting, keyOf, Committed, database, Goto, TypeOK
  <2>. QED  BY <2>1, <2>2 DEF Results
<1>9. ASSUME NEW c \in Clients, Commit(c) PROVE Results'
  <2>0. PICK key \in Keys : key = keyOf(c)
    BY <1>9, EnvelopeFields DEF Commit, TypeOK, keyOf
  <2>. DEFINE before == [r \in moves[c] |-> snapshot[c].version[r]]
              new == [payload |-> envelope[c].payload, expects |-> expects(c), before |-> before]
  <2>1. envelope[c] \in Envelopes /\ moves[c] \subseteq Rows /\ DOMAIN expects(c) \subseteq Rows
    BY <1>9, EnvelopeFields DEF Commit, TypeOK, keyOf, expects
  <2>2. \A r \in moves[c] : snapshot[c].version[r] = version[r] /\ version'[r] = version[r] + 1
    BY <1>9, <2>1 DEF Commit, TypeOK, Locking, LockSound, Held
  <2>3. \A r \in Rows : version[r] \in Nat /\ version'[r] \in Nat /\ version[r] <= version'[r]
    <3>1. \A r \in Rows \ moves[c] : version'[r] = version[r]
      BY <1>9 DEF Commit
    <3>2. \A r \in Rows : version[r] \in Nat /\ version'[r] \in Nat
      BY DEF TypeOK
    <3>. QED  BY <2>2, <3>1, <3>2
  <2>4. /\ receipts' = [receipts EXCEPT ![key] = new]
        /\ receipts'[key] = new
        /\ \A k \in Keys \ {key} : receipts'[k] = receipts[k]
    BY <1>9, <2>0, <2>1 DEF Commit, TypeOK
  <2>5. ~Committed(key) /\ Committed(key)'
    <3>1. pc[c] = "commit" /\ ~Committed(key)
      BY <1>9, <2>0 DEF Commit, Results, Inserting
    <3>2. IsReceipt(None) => FALSE
      BY NoneDiffers
    <3>3. new # None
      <4>1. PICK D \in SUBSET Rows : expects(c) \in [D -> Versions]
        BY <2>1, EnvelopeFields DEF expects
      <4>2. before \in [moves[c] -> Nat] /\ envelope[c].payload \in Payloads
        BY <2>1, <2>2, <2>3, EnvelopeFields
      <4>3. new \in [payload : Payloads, expects : [D -> Versions], before : [moves[c] -> Nat]]
        BY <4>1, <4>2
      <4>. HIDE DEF new
      <4>. QED  BY <2>1, <3>2, <4>1, <4>3 DEF IsReceipt
    <3>. QED  BY <2>4, <3>1, <3>3 DEF Committed
  <2>6. /\ new.expects = expects(c) /\ new.before = before
        /\ DOMAIN before = moves[c]
        /\ \A r \in moves[c] : before[r] = version[r]
    BY <2>2
  <2>. HIDE DEF new, before
  <2>7. \A k \in Keys \ {key} : Committed(k)' <=> Committed(k)
    BY <2>4 DEF Committed
  <2>8. \A k \in Keys : Committed(k) =>
          /\ DOMAIN receipts[k].before \subseteq Rows
          /\ \A r \in DOMAIN receipts[k].before :
               receipts[k].before[r] \in Nat /\ receipts[k].before[r] < version[r]
    BY ReceiptFields DEF TypeOK, Results, History
  <2>9. Inserting'
    <3>1. \A d \in Clients \ {c} : pc'[d] = pc[d] /\ envelope'[d] = envelope[d]
      BY <1>9 DEF Commit, Finish, Goto, TypeOK
    <3>2. pc'[c] = "idle"
      BY <1>9 DEF Commit, Finish, Goto, TypeOK
    <3>3. \A d \in Clients : pc[d] = "commit" => keyOf(d) \in Keys
      BY EnvelopeFields DEF TypeOK, keyOf
    <3>4. ASSUME NEW d \in Clients, pc'[d] = "commit"
          PROVE  d # c /\ pc[d] = "commit" /\ keyOf(d)' = keyOf(d) /\ keyOf(d) # key
      BY <1>9, <2>0, <3>1, <3>2, <3>4 DEF Commit, keyOf, Results, Inserting
    <3>. QED  BY <2>7, <3>3, <3>4 DEF Results, Inserting
  <2>10. AppliedOnce'
    <3>1. changes' = [changes EXCEPT ![key] = changes[key] + 1]
      BY <1>9, <2>0 DEF Commit
    <3>2. changes[key] = 0 /\ changes \in [Keys -> Nat]
      BY <2>1, <2>5 DEF Results, AppliedOnce, TypeOK
    <3>. QED  BY <2>1, <2>5, <2>7, <3>1, <3>2 DEF Results, AppliedOnce
  <2>11. History'
    <3>1. ASSUME NEW k \in Keys, Committed(k)', NEW r \in DOMAIN receipts'[k].before
          PROVE  receipts'[k].before[r] < version'[r]
      <4>1. CASE k = key
        BY <2>1, <2>2, <2>3, <2>4, <2>6, <3>1, <4>1
      <4>2. CASE k # key
        BY <2>3, <2>4, <2>7, <2>8, <3>1, <4>2
      <4>. QED  BY <4>1, <4>2
    <3>2. snapshot'[c] = NoSnapshot /\ \A d \in Clients \ {c} : snapshot'[d] = snapshot[d]
      BY <1>9 DEF Commit, Finish, ForgetTransaction, TypeOK
    <3>3. ASSUME NEW d \in Clients, NEW k \in snapshot'[d].keys
          PROVE  /\ Committed(k)'
                 /\ \A r \in DOMAIN receipts'[k].before :
                      receipts'[k].before[r] < snapshot'[d].version[r]
      <4>1. d # c /\ k \in snapshot[d].keys /\ snapshot'[d] = snapshot[d]
        BY <3>2, <3>3 DEF NoSnapshot
      <4>2. k \in Keys /\ Committed(k) /\ k # key
        BY <2>5, <4>1 DEF TypeOK, Results, History
      <4>. QED  BY <2>4, <2>7, <4>1, <4>2 DEF Results, History
    <3>. QED  BY <3>1, <3>3 DEF History
  <2>12. NoLostUpdate'
    <3>1. ASSUME NEW k \in Keys, NEW l \in Keys, Committed(k)', Committed(l)', k # l,
                 NEW r \in DOMAIN receipts'[k].before \cap DOMAIN receipts'[l].before
          PROVE  receipts'[k].before[r] # receipts'[l].before[r]
      <4>1. CASE k = key
        BY <2>1, <2>3, <2>4, <2>6, <2>7, <2>8, <3>1, <4>1
      <4>2. CASE l = key
        BY <2>1, <2>3, <2>4, <2>6, <2>7, <2>8, <3>1, <4>2
      <4>3. CASE k # key /\ l # key
        BY <2>4, <2>7, <3>1, <4>3 DEF Results, NoLostUpdate
      <4>. QED  BY <4>1, <4>2, <4>3
    <3>. QED  BY <3>1 DEF NoLostUpdate
  <2>13. NoWriteSkew'
    <3>1. ASSUME NEW l \in Keys, l # key, Committed(l)
          PROVE  ~(Missed(key, l)' /\ Missed(l, key)')
      <4>1. \A r \in DOMAIN expects(c) : expects(c)[r] = snapshot[c].version[r]
        BY <1>9 DEF Commit, Locking, Held, ExpectationsHold
      <4>2. CASE l \in snapshot[c].keys
        <5>1. \A r \in DOMAIN receipts[l].before :
                receipts[l].before[r] \in Nat /\ receipts[l].before[r] < snapshot[c].version[r]
          BY <2>8, <3>1, <4>2 DEF Results, History
        <5>2. \A r \in Rows : snapshot[c].version[r] \in Nat
          BY DEF TypeOK
        <5>3. ~Missed(key, l)'
          BY <2>1, <2>4, <2>6, <3>1, <4>1, <5>1, <5>2 DEF Missed
        <5>. QED  BY <5>3
      <4>3. CASE l \notin snapshot[c].keys
        <5>1. \/ DOMAIN expects(c) \cap DOMAIN receipts[l].before = {}
              \/ DOMAIN receipts[l].expects \cap moves[c] = {}
          BY <1>9, <3>1, <4>3 DEF Commit, Serializable
        <5>. QED  BY <2>1, <2>4, <2>6, <3>1, <5>1 DEF Missed
      <4>. QED  BY <4>2, <4>3
    <3>2. ASSUME NEW k \in Keys \ {key}, NEW l \in Keys \ {key}, Committed(k), Committed(l), k # l
          PROVE  ~(Missed(k, l)' /\ Missed(l, k)')
      BY <2>4, <3>2 DEF Results, NoWriteSkew, Missed
    <3>. QED  BY <2>7, <3>1, <3>2 DEF NoWriteSkew
  <2>. QED  BY <2>9, <2>10, <2>11, <2>12, <2>13 DEF Results
<1>10. ASSUME NEW c \in Clients, Retries(c) PROVE Results'
  BY <1>10, ResultsFrame DEF Retries, Retry, ForgetTransaction, TypeOK, Goto
<1>11. ASSUME NEW c \in Clients, Returns(c) PROVE Results'
  BY <1>11, ResultsFrame DEF Returns, Rollback, Finish, ForgetTransaction, TypeOK, Goto
<1>12. CASE UNCHANGED vars
  BY <1>12 DEF vars, database, locks, rest, Results, Inserting, AppliedOnce, History,
               NoLostUpdate, NoWriteSkew, Missed, Committed, keyOf
<1>. QED
  BY <1>1, <1>2, <1>3, <1>4, <1>5, <1>6, <1>7, <1>8, <1>9, <1>10, <1>11, <1>12, StepKinds

-----------------------------------------------------------------------------
(* The theorems *)

\* A caller has no answer before its call ends.
Unanswered == \A c \in Clients : pc[c] # "idle" => answer[c] = "NONE"

AnswerType == answer \in [Clients -> {"NONE", "OK", "CONFLICT", "ERROR"}]

IInv == TypeOK /\ Locking /\ Results /\ AnswerType /\ Unanswered

LEMMA AnswersStep ==
  TypeOK /\ AnswerType /\ Unanswered /\ [Next]_vars => AnswerType' /\ Unanswered'
<1>. SUFFICES ASSUME TypeOK, AnswerType, Unanswered, [Next]_vars PROVE AnswerType' /\ Unanswered'
  OBVIOUS
<1>1. ASSUME NEW c \in Clients, execute(c) PROVE AnswerType' /\ Unanswered'
  BY <1>1 DEF execute, AnswerType, Unanswered, TypeOK, Goto
<1>2. ASSUME NEW c \in Clients,
             \/ BeginSerializable(c) \/ LockKey(c) \/ ClaimNew(c) \/ LockHead(c)
             \/ HandlerMoves(c) \/ WriteRow(c) \/ insertCommandReceipt(c) \/ Retries(c)
      PROVE  AnswerType' /\ Unanswered'
  <2>1. /\ answer' = answer /\ pc[c] # "idle"
        /\ \A d \in Clients \ {c} : pc'[d] = pc[d]
    BY <1>2 DEF BeginSerializable, LockKey, ClaimNew, LockHead, HandlerMoves, WriteRow,
                insertCommandReceipt, Retries, Retry, TypeOK, Goto
  <2>. QED  BY <2>1 DEF AnswerType, Unanswered
<1>3. ASSUME NEW c \in Clients, Commit(c) \/ Returns(c) PROVE AnswerType' /\ Unanswered'
  <2>1. \E a \in {"OK", "CONFLICT", "ERROR"} : Finish(c, a)
    BY <1>3 DEF Commit, Returns, Rollback
  <2>. QED  BY <2>1 DEF Finish, AnswerType, Unanswered, TypeOK, Goto
<1>4. CASE UNCHANGED vars
  BY <1>4 DEF vars, AnswerType, Unanswered
<1>. QED  BY <1>1, <1>2, <1>3, <1>4, StepKinds

LEMMA InvInit == Init => IInv
BY TypeInit, LockingInit, ResultsInit DEF IInv, Init, AnswerType, Unanswered

LEMMA InvStep == IInv /\ [Next]_vars => IInv'
BY TypeStep, LockingStep, ResultsStep, AnswersStep DEF IInv

LEMMA Invariance == Spec => []IInv
BY InvInit, InvStep, PTL DEF Spec

\* The effects of a command are written once and together with its receipt,
\* however often it is submitted, retried or interrupted.
THEOREM CommandsApplyOnce == Spec => []AppliedOnce
<1>1. IInv => AppliedOnce
  BY DEF IInv, Results
<1>. QED  BY <1>1, Invariance, PTL

\* No two commands replaced the same version of an aggregate or a scope.
THEOREM UpdatesAreKept == Spec => []NoLostUpdate
<1>1. IInv => NoLostUpdate
  BY DEF IInv, Results
<1>. QED  BY <1>1, Invariance, PTL

\* Of two commands at least one saw what the other did to the rows it relied on.
THEOREM SkewIsExcluded == Spec => []NoWriteSkew
<1>1. IInv => NoWriteSkew
  BY DEF IInv, Results
<1>. QED  BY <1>1, Invariance, PTL

\* The revisions a command compared are still current when it commits.
LEMMA CommitSeesRevisions ==
  ASSUME IInv, NEW c \in Clients, Commit(c), NEW h \in Heads \cap DOMAIN expects(c)
  PROVE  version[h] = expects(c)[h]
<1>1. pc[c] = "commit"
  BY DEF Commit
<1>2. rowLock[h] = c /\ expects(c)[h] = snapshot[c].version[h]
  BY <1>1 DEF IInv, Locking, Held, ExpectationsHold
<1>. QED  BY <1>2 DEF IInv, Locking, LockSound, Rows

\* Whatever commits, commits on the revisions it expected.
THEOREM CommitsAreCurrent == Spec => CommitsOnExpectedRevisions
<1>1. IInv /\ [Next]_vars =>
        [\A c \in Clients :
           Commit(c) => \A h \in Heads \cap DOMAIN expects(c) : version[h] = expects(c)[h]]_vars
  BY CommitSeesRevisions
<1>. QED  BY <1>1, Invariance, PTL DEF Spec, CommitsOnExpectedRevisions

-----------------------------------------------------------------------------
(* Answers, and the refinement *)

\* A replay finds the receipt that its snapshot showed.
LEMMA ReplayFindsReceipt ==
  ASSUME IInv, NEW c \in Clients, ClaimReplay(c)
  PROVE  /\ envelope[c] \in Envelopes /\ keyOf(c) \in Keys
         /\ Committed(keyOf(c)) /\ receipts[keyOf(c)].payload = envelope[c].payload
<1>1. envelope[c] \in Envelopes
  BY DEF ClaimReplay, IInv, TypeOK
<1>. QED  BY <1>1, EnvelopeFields DEF ClaimReplay, keyOf, IInv, Results, History

\* A commit stores the payload of its own envelope under a key that had none.
LEMMA CommitStores ==
  ASSUME IInv, NEW c \in Clients, Commit(c)
  PROVE  /\ envelope[c] \in Envelopes /\ keyOf(c) \in Keys
         /\ ~Committed(keyOf(c))
         /\ receipts'[keyOf(c)].payload = envelope[c].payload
         /\ envelope[c].payload # None
         /\ receipts'[keyOf(c)] # None
         /\ \A k \in Keys : k # keyOf(c) => receipts'[k] = receipts[k]
<1>1. envelope[c] \in Envelopes
  BY DEF Commit, IInv, TypeOK
<1>2. keyOf(c) \in Keys /\ envelope[c].payload # None
  BY <1>1, EnvelopeFields, NoneDiffers DEF keyOf
<1>3. receipts'[keyOf(c)].payload = envelope[c].payload
      /\ \A k \in Keys : k # keyOf(c) => receipts'[k] = receipts[k]
  BY <1>2 DEF Commit, IInv, TypeOK
<1>4. ~Committed(keyOf(c))
  BY DEF Commit, IInv, Results, Inserting
<1>5. changes'[keyOf(c)] = 1
  BY <1>2, <1>4 DEF Commit, IInv, Results, AppliedOnce, TypeOK
<1>6. PICK k \in Keys : k = keyOf(c)
  BY <1>2
<1>7. AppliedOnce'
  BY InvStep DEF IInv, Results, Next, Step
<1>8. receipts'[k] # None
  BY <1>5, <1>6, <1>7 DEF AppliedOnce, Committed
<1>. QED  BY <1>1, <1>2, <1>3, <1>4, <1>6, <1>8

\* Whoever is told OK finds its own payload committed under its key.
THEOREM OkAnswersAreTrue == Spec => OkMeansCommitted
<1>1. ASSUME IInv, [Next]_vars, NEW c \in Clients, pc[c] # "idle", answer'[c] = "OK"
      PROVE  /\ receipts'[keyOf(c)] # None
             /\ receipts'[keyOf(c)].payload = envelope[c].payload
  <2>1. answer[c] = "NONE" /\ answer \in [Clients -> {"NONE", "OK", "CONFLICT", "ERROR"}]
    BY <1>1 DEF IInv, Unanswered, AnswerType
  <2>2. CASE ClaimReplay(c)
    BY <1>1, <2>2, ReplayFindsReceipt DEF ClaimReplay, Rollback, database, Committed
  <2>3. CASE Commit(c)
    BY <1>1, <2>3, CommitStores
  <2>4. CASE ~ClaimReplay(c) /\ ~Commit(c)
    <3>1. ASSUME NEW d \in Clients, d # c, execute(d) \/ Step(d) \/ Throw(d)
          PROVE  answer'[c] = answer[c]
      BY <2>1, <3>1
      DEF execute, Step, Throw, BeginSerializable, LockKey, ClaimReplay, ClaimMismatch, ClaimNew,
          LockHead, RefuseStale, HandlerRefuses, HandlerMoves, WriteRow, insertCommandReceipt,
          Commit, SerializationFailure, DeadlockDetected, RetryOrGiveUp, Retry, Rollback, Finish
    <3>2. ASSUME execute(c) \/ Step(c) \/ Throw(c) PROVE answer'[c] # "OK"
      BY <1>1, <2>1, <2>4, <3>2
      DEF execute, Step, Throw, BeginSerializable, LockKey, ClaimMismatch, ClaimNew,
          LockHead, RefuseStale, HandlerRefuses, HandlerMoves, WriteRow, insertCommandReceipt,
          SerializationFailure, DeadlockDetected, RetryOrGiveUp, Retry, Rollback, Finish
    <3>. QED  BY <1>1, <2>1, <3>1, <3>2 DEF Next, vars
  <2>. QED  BY <2>2, <2>3, <2>4
<1>2. IInv /\ [Next]_vars =>
        [\A c \in Clients :
           pc[c] # "idle" /\ answer'[c] = "OK" =>
             /\ receipts'[keyOf(c)] # None
             /\ receipts'[keyOf(c)].payload = envelope[c].payload]_vars
  BY <1>1
<1>. QED  BY <1>2, Invariance, PTL DEF Spec, OkMeansCommitted

LEMMA AtomicInitially == Init => Atomic!AtomicInit
BY DEF Init, Atomic!AtomicInit, Atomic!Rows, Rows, Committed

LEMMA AtomicStep == IInv /\ [Next]_vars => [Atomic!AtomicNext]_Atomic!commandVars
<1>. SUFFICES ASSUME IInv, [Next]_vars PROVE [Atomic!AtomicNext]_Atomic!commandVars
  OBVIOUS
<1>. USE DEF IInv
<1>1. ASSUME UNCHANGED <<receipts, version, envelope, answer>>
      PROVE  UNCHANGED Atomic!commandVars
  BY <1>1 DEF Atomic!commandVars, Committed
<1>2. ASSUME NEW c \in Clients, execute(c) PROVE Atomic!Submit(c)
  BY <1>2 DEF execute, Atomic!Submit, TypeOK, database, Committed
<1>3. ASSUME NEW c \in Clients, NEW a, pc[c] # "idle", Finish(c, a)
      PROVE  Atomic!Answer(c, a)
  BY <1>3 DEF Finish, Atomic!Answer, TypeOK
<1>4. ASSUME NEW c \in Clients, NEW a \in {"CONFLICT", "ERROR"}, pc[c] # "idle", Rollback(c, a)
      PROVE  Atomic!Decline(c)
  BY <1>3, <1>4 DEF Rollback, Atomic!Decline, database, Committed
<1>5. ASSUME NEW c \in Clients, ClaimReplay(c) PROVE Atomic!Replay(c)
  <2>1. Atomic!Answer(c, "OK") /\ UNCHANGED <<receipts, version>>
    BY <1>3, <1>5 DEF ClaimReplay, Rollback, database
  <2>. QED
    BY <1>5, <2>1, ReplayFindsReceipt DEF Atomic!Replay, keyOf, Committed
<1>6. ASSUME NEW c \in Clients, Commit(c) PROVE Atomic!Apply(c)
  <2>1. \E a \in {"OK", "ERROR"} : Atomic!Answer(c, a)
    BY <1>3, <1>6 DEF Commit
  <2>2. PICK k \in Keys : k = keyOf(c) /\ k = envelope[c].key
    BY <1>6, CommitStores DEF keyOf
  <2>3. /\ [j \in Keys |-> IF Committed(j) THEN receipts[j].payload ELSE None][k] = None
        /\ [j \in Keys |-> IF Committed(j) THEN receipts[j].payload ELSE None]'
             = [[j \in Keys |-> IF Committed(j) THEN receipts[j].payload ELSE None]
                  EXCEPT ![k] = envelope[c].payload]
    BY <1>6, <2>2, CommitStores DEF Committed
  <2>4. \A h \in Heads \cap DOMAIN envelope[c].expects : version[h] = envelope[c].expects[h]
    BY <1>6, CommitSeesRevisions DEF expects
  <2>5. moves[c] \in SUBSET Rows
        /\ version' = [r \in Rows |-> IF r \in moves[c] THEN version[r] + 1 ELSE version[r]]
    <3>1. moves[c] \in SUBSET Rows
      BY DEF TypeOK
    <3>2. \A r \in moves[c] : rowLock[r] = c
      BY <1>6 DEF Commit, TypeOK, Locking, Held
    <3>3. \A r \in moves[c] : version[r] = snapshot[c].version[r]
      BY <3>1, <3>2 DEF Locking, LockSound
    <3>. QED  BY <1>6, <3>1, <3>3 DEF Commit
  <2>. QED
    BY <2>1, <2>2, <2>3, <2>4, <2>5 DEF Atomic!Apply, Atomic!Rows, Rows
<1>7. ASSUME NEW c \in Clients,
             \/ BeginSerializable(c) \/ LockKey(c) \/ ClaimNew(c) \/ LockHead(c)
             \/ HandlerMoves(c) \/ WriteRow(c) \/ insertCommandReceipt(c)
      PROVE  UNCHANGED Atomic!commandVars
  BY <1>1, <1>7 DEF BeginSerializable, LockKey, ClaimNew, LockHead, HandlerMoves, WriteRow,
                    insertCommandReceipt, database
<1>8. ASSUME NEW c \in Clients, ClaimMismatch(c) \/ RefuseStale(c) \/ HandlerRefuses(c) \/ Throw(c)
      PROVE  Atomic!Decline(c)
  BY <1>4, <1>8 DEF ClaimMismatch, RefuseStale, HandlerRefuses, Throw
<1>9. ASSUME NEW c \in Clients, SerializationFailure(c) \/ DeadlockDetected(c)
      PROVE  Atomic!Decline(c) \/ UNCHANGED Atomic!commandVars
  <2>1. pc[c] # "idle"
    <3>1. CASE SerializationFailure(c)
      BY <3>1 DEF SerializationFailure
    <3>2. CASE DeadlockDetected(c)
      BY <3>2, WaitingIsRunning DEF DeadlockDetected, CircularWait
    <3>. QED  BY <1>9, <3>1, <3>2
  <2>2. RetryOrGiveUp(c)
    BY <1>9 DEF SerializationFailure, DeadlockDetected
  <2>. QED
    BY <1>1, <1>4, <2>1, <2>2 DEF RetryOrGiveUp, Retry, database
<1>10. CASE UNCHANGED vars
  BY <1>1, <1>10 DEF vars, database
<1>. QED
  BY <1>2, <1>5, <1>6, <1>7, <1>8, <1>9, <1>10 DEF Next, Step, Atomic!AtomicNext

\* The unit of work implements commands that are applied in one step.
THEOREM UnitOfWorkRefines == Spec => ImplementsAtomicCommands
BY AtomicInitially, AtomicStep, Invariance, PTL DEF Spec, ImplementsAtomicCommands, Atomic!AtomicSpec

-----------------------------------------------------------------------------
(* lockHeads asks for heads in ascending order, and so callers that only lock
   heads never wait for each other in a circle.  Ids are numbers of a fixed
   width: the heads have an upper bound.  The inductive invariant says that
   what a caller holds is below what it asks for. *)

\* A key lock is held from its grant to the end of the transaction.
KeyHeld(c) ==
  \A k \in Keys : keyLock[k] = c => pc[c] \in {"claim", "heads", "write", "commit"}

Ascending(c) ==
  pc[c] = "heads" =>
    /\ todo[c] \subseteq Heads
    /\ want[c] # None => want[c] \in todo[c] /\ \A h \in todo[c] : want[c] <= h
    /\ \A r \in Rows : rowLock[r] = c => r \in Heads /\ \A h \in todo[c] : r < h

LockOrder == \A c \in Clients : KeyHeld(c) /\ Ascending(c)

LEMMA OrderInit == Init => LockOrder
<1>. SUFFICES ASSUME Init, NEW c \in Clients PROVE KeyHeld(c) /\ Ascending(c)
  BY DEF LockOrder
<1>1. c # None /\ pc[c] = "idle" /\ \A k \in Keys : keyLock[k] = None
  BY NoneDiffers DEF Init
<1>. QED  BY <1>1 DEF KeyHeld, Ascending

\* A caller that is not involved gains no lock.
LEMMA OthersOrder ==
  ASSUME LockOrder, NEW c \in Clients, NEW d \in Clients, d # c,
         pc'[d] = pc[d], todo'[d] = todo[d], want'[d] = want[d],
         \A k \in Keys : keyLock'[k] = d => keyLock[k] = d,
         \A r \in Rows : rowLock'[r] = d => rowLock[r] = d
  PROVE  KeyHeld(d)' /\ Ascending(d)'
BY DEF LockOrder, KeyHeld, Ascending

\* The next head that is locked is the lowest that is left.
LEMMA NextIsLowest ==
  ASSUME TypeOK, NEW c \in Clients, NEW S \in SUBSET Heads, LockNext(c, S, Lowest(S))
  PROVE  /\ todo'[c] = S
         /\ want'[c] # None => want'[c] \in S /\ \A h \in S : want'[c] <= h
         /\ \A d \in Clients \ {c} : todo'[d] = todo[d] /\ want'[d] = want[d]
<1>1. S \subseteq Rows
  BY DEF Rows
<1>. QED  BY <1>1, NoneDiffers DEF LockNext, TypeOK, Lowest

LEMMA OrderStep == TypeOK /\ Locking /\ LockOrder /\ [Next]_vars => LockOrder'
<1>. SUFFICES ASSUME TypeOK, Locking, LockOrder, [Next]_vars PROVE LockOrder'
  OBVIOUS
<1>. USE NoneDiffers
<1>1. ASSUME NEW c \in Clients,
             execute(c) \/ BeginSerializable(c) \/ insertCommandReceipt(c)
      PROVE  LockOrder'
  <2>1. /\ UNCHANGED <<locks, rest>>
        /\ pc'[c] # "heads" /\ pc[c] # "heads"
        /\ pc'[c] \in {"begin", "lock", "commit"}
        /\ pc'[c] # "commit" => pc[c] \in {"idle", "begin"}
        /\ \A d \in Clients \ {c} : pc'[d] = pc[d]
    BY <1>1 DEF execute, BeginSerializable, insertCommandReceipt, TypeOK, Goto
  <2>2. KeyHeld(c)' /\ Ascending(c)'
    BY <2>1 DEF LockOrder, KeyHeld, Ascending, locks
  <2>3. ASSUME NEW d \in Clients, d # c PROVE KeyHeld(d)' /\ Ascending(d)'
    BY <2>1, <2>3, OthersOrder DEF locks, rest
  <2>. QED  BY <2>2, <2>3 DEF LockOrder
<1>2. ASSUME NEW c \in Clients, LockKey(c) PROVE LockOrder'
  <2>1. /\ UNCHANGED <<rowLock, rest>>
        /\ pc'[c] = "claim"
        /\ keyLock' = [keyLock EXCEPT ![keyOf(c)] = c]
        /\ \A d \in Clients \ {c} : pc'[d] = pc[d]
    BY <1>2 DEF LockKey, TypeOK, Goto
  <2>2. KeyHeld(c)' /\ Ascending(c)'
    BY <2>1 DEF KeyHeld, Ascending
  <2>3. ASSUME NEW d \in Clients, d # c PROVE KeyHeld(d)' /\ Ascending(d)'
    <3>1. \A k \in Keys : keyLock'[k] = d => keyLock[k] = d
      BY <2>1, <2>3 DEF TypeOK
    <3>. QED  BY <2>1, <2>3, <3>1, OthersOrder DEF rest
  <2>. QED  BY <2>2, <2>3 DEF LockOrder
<1>3. ASSUME NEW c \in Clients, ClaimNew(c) PROVE LockOrder'
  <2>1. HeadsToLock(c) \in SUBSET Heads
    BY DEF HeadsToLock
  <2>2. LockNext(c, HeadsToLock(c), Lowest(HeadsToLock(c))) /\ UNCHANGED locks
    BY <1>3 DEF ClaimNew
  <2>3. /\ pc[c] = "claim" /\ pc'[c] = "heads"
        /\ \A d \in Clients \ {c} : pc'[d] = pc[d]
    BY <1>3 DEF ClaimNew, TypeOK, Goto
  <2>4. \A r \in Rows : rowLock'[r] # c
    BY <2>2, <2>3 DEF Locking, LockSound, locks
  <2>5. KeyHeld(c)' /\ Ascending(c)'
    BY <2>1, <2>2, <2>3, <2>4, NextIsLowest DEF KeyHeld, Ascending
  <2>6. ASSUME NEW d \in Clients, d # c PROVE KeyHeld(d)' /\ Ascending(d)'
    BY <2>1, <2>2, <2>3, <2>6, NextIsLowest, OthersOrder DEF locks
  <2>. QED  BY <2>5, <2>6 DEF LockOrder
<1>4. ASSUME NEW c \in Clients, LockHead(c) PROVE LockOrder'
  <2>. DEFINE S == todo[c] \ {want[c]}
  <2>1. /\ pc[c] = "heads" /\ pc' = pc /\ UNCHANGED keyLock
        /\ want[c] # None
        /\ rowLock' = [rowLock EXCEPT ![want[c]] = c]
        /\ LockNext(c, S, Lowest(S))
    BY <1>4 DEF LockHead
  <2>2. /\ todo[c] \subseteq Heads
        /\ want[c] \in todo[c] /\ \A h \in todo[c] : want[c] <= h
        /\ \A r \in Rows : rowLock[r] = c => r \in Heads /\ \A h \in todo[c] : r < h
    BY <2>1 DEF LockOrder, Ascending
  <2>3. /\ todo'[c] = S
        /\ want'[c] # None => want'[c] \in S /\ \A h \in S : want'[c] <= h
        /\ \A d \in Clients \ {c} : todo'[d] = todo[d] /\ want'[d] = want[d]
    BY <2>1, <2>2, NextIsLowest
  <2>4. ASSUME NEW r \in Rows, rowLock'[r] = c PROVE r \in Heads /\ \A h \in S : r < h
    <3>1. CASE r = want[c]
      <4>1. \A h \in S : want[c] <= h /\ h # want[c] /\ h \in Nat /\ want[c] \in Nat
        BY <2>2, RowsDiffer
      <4>. QED  BY <2>2, <3>1, <4>1
    <3>2. CASE r # want[c]
      BY <2>1, <2>2, <2>4, <3>2 DEF TypeOK
    <3>. QED  BY <3>1, <3>2
  <2>5. KeyHeld(c)' /\ Ascending(c)'
    <3>. HIDE DEF S
    <3>1. S \subseteq Heads
      BY <2>2 DEF S
    <3>. QED  BY <2>1, <2>3, <2>4, <3>1 DEF LockOrder, KeyHeld, Ascending
  <2>6. ASSUME NEW d \in Clients, d # c PROVE KeyHeld(d)' /\ Ascending(d)'
    <3>1. \A r \in Rows : rowLock'[r] = d => rowLock[r] = d
      BY <2>1, <2>6 DEF TypeOK
    <3>. QED  BY <2>1, <2>3, <2>6, <3>1, OthersOrder
  <2>. QED  BY <2>5, <2>6 DEF LockOrder
<1>5. ASSUME NEW c \in Clients, HandlerMoves(c) PROVE LockOrder'
  <2>1. PICK W \in SUBSET Rows : LockNext(c, W, W)
    BY <1>5 DEF HandlerMoves
  <2>2. /\ UNCHANGED locks /\ pc[c] = "heads" /\ pc'[c] = "write"
        /\ \A d \in Clients \ {c} : pc'[d] = pc[d]
    BY <1>5 DEF HandlerMoves, TypeOK, Goto
  <2>3. KeyHeld(c)' /\ Ascending(c)'
    BY <2>2 DEF KeyHeld, Ascending
  <2>4. ASSUME NEW d \in Clients, d # c PROVE KeyHeld(d)' /\ Ascending(d)'
    BY <2>1, <2>2, <2>4, LockNextQueue, OthersOrder DEF locks
  <2>. QED  BY <2>3, <2>4 DEF LockOrder
<1>6. ASSUME NEW c \in Clients, WriteRow(c) PROVE LockOrder'
  <2>. DEFINE S == todo[c] \ {want[c]}
  <2>1. S \in SUBSET Rows /\ LockNext(c, S, S)
    BY <1>6 DEF WriteRow, TypeOK
  <2>2. /\ pc[c] = "write" /\ pc' = pc /\ UNCHANGED keyLock
        /\ rowLock' = [rowLock EXCEPT ![want[c]] = c]
    BY <1>6 DEF WriteRow
  <2>3. KeyHeld(c)' /\ Ascending(c)'
    BY <2>2 DEF KeyHeld, Ascending
  <2>4. ASSUME NEW d \in Clients, d # c PROVE KeyHeld(d)' /\ Ascending(d)'
    <3>1. \A r \in Rows : rowLock'[r] = d => rowLock[r] = d
      BY <2>2, <2>4 DEF TypeOK
    <3>. HIDE DEF S
    <3>. QED  BY <2>1, <2>2, <2>4, <3>1, LockNextQueue, OthersOrder
  <2>. QED  BY <2>3, <2>4 DEF LockOrder
<1>7. ASSUME NEW c \in Clients, ReleaseLocks(c), ForgetTransaction(c),
             pc'[c] \in {"begin", "idle"}, \A d \in Clients \ {c} : pc'[d] = pc[d]
      PROVE  LockOrder'
  <2>1. \A k \in Keys : keyLock'[k] # c /\ keyLock'[k] = IF keyLock[k] = c THEN None ELSE keyLock[k]
    BY <1>7 DEF ReleaseLocks
  <2>2. KeyHeld(c)' /\ Ascending(c)'
    BY <1>7, <2>1 DEF KeyHeld, Ascending
  <2>3. ASSUME NEW d \in Clients, d # c PROVE KeyHeld(d)' /\ Ascending(d)'
    BY <1>7, <2>1, <2>3, ReleaseKeeps, OthersOrder
  <2>. QED  BY <2>2, <2>3 DEF LockOrder
<1>8. ASSUME NEW c \in Clients, Commit(c) PROVE LockOrder'
  <2>1. PICK a : Finish(c, a)
    BY <1>8 DEF Commit
  <2>. QED  BY <1>7, <2>1 DEF Finish, TypeOK, Goto
<1>9. ASSUME NEW c \in Clients, Retries(c) PROVE LockOrder'
  BY <1>7, <1>9 DEF Retries, Retry, TypeOK, Goto
<1>10. ASSUME NEW c \in Clients, Returns(c) PROVE LockOrder'
  BY <1>7, <1>10 DEF Returns, Rollback, Finish, TypeOK, Goto
<1>11. CASE UNCHANGED vars
  BY <1>11 DEF vars, locks, rest, LockOrder, KeyHeld, Ascending
<1>. QED
  BY <1>1, <1>2, <1>3, <1>4, <1>5, <1>6, <1>8, <1>9, <1>10, <1>11, StepKinds

-----------------------------------------------------------------------------
(* No circle *)

LEMMA HighestOf ==
  ASSUME NEW n \in Nat, NEW T, T \subseteq 0 .. n, T # {}
  PROVE  \E x \in T : \A y \in T : y <= x
<1>. DEFINE less == OpToRel(<, Nat)
            room == {n - x : x \in T}
<1>1. IsWellFoundedOn(less, Nat)
  BY NatLessThanWellFounded
<1>2. \A k, m \in Nat : <<k, m>> \in less <=> k < m
  BY DEF OpToRel
<1>3. room \subseteq Nat /\ room # {}
  <2>1. \A x \in T : n - x \in Nat
    OBVIOUS
  <2>. QED  BY <2>1
<1>4. PICK m \in room : \A k \in room : ~(<<k, m>> \in less)
  <2>. HIDE DEF less, room
  <2>. QED  BY <1>1, <1>3, WFMin, Zenon
<1>5. \A k \in room : ~(k < m)
  <2>. HIDE DEF less, room
  <2>. QED  BY <1>2, <1>3, <1>4
<1>6. PICK x \in T : m = n - x
  OBVIOUS
<1>7. ASSUME NEW y \in T PROVE y <= x
  <2>1. ~(n - y < n - x)
    BY <1>5, <1>6
  <2>. QED  BY <2>1
<1>. QED  BY <1>7

\* Whoever is waited for by a caller that locks its key or its heads is past the
\* key and, when it waits as well, waits for a head above.
LEMMA WaitsUpwards ==
  ASSUME TypeOK, Locking, LockOrder, NEW c \in Clients, NEW d \in Clients, NEW e \in Clients,
         WaitsFor(c, d), WaitsFor(d, e), pc[c] # "write", pc[d] # "write"
  PROVE  /\ pc[d] = "heads" /\ want[d] # None
         /\ pc[c] = "heads" /\ want[c] # None => want[c] < want[d]
<1>1. pc[c] \in {"lock", "heads"} /\ pc[d] \in {"lock", "heads"}
  BY DEF WaitsFor, TypeOK
<1>2. CASE pc[c] = "lock"
  <2>1. keyOf(c) \in Keys
    BY <1>2, EnvelopeFields DEF TypeOK, keyOf
  <2>2. keyLock[keyOf(c)] = d
    BY <1>2 DEF WaitsFor, TypeOK
  <2>. QED  BY <1>1, <1>2, <2>1, <2>2 DEF LockOrder, KeyHeld, WaitsFor
<1>3. CASE pc[c] = "heads"
  <2>1. want[c] # None /\ rowLock[want[c]] = d /\ want[c] \in Rows
    BY <1>3 DEF WaitsFor, TypeOK
  <2>2. pc[d] = "heads"
    BY <1>1, <2>1 DEF Locking, LockSound
  <2>3. want[d] # None
    BY <2>2 DEF WaitsFor
  <2>4. want[d] \in todo[d] /\ \A h \in todo[d] : want[c] < h
    BY <2>1, <2>2, <2>3 DEF LockOrder, Ascending
  <2>. QED  BY <2>2, <2>3, <2>4
<1>. QED  BY <1>1, <1>2, <1>3

\* Callers that only lock heads are in no circular wait, however many there are
\* and whatever sets of heads they lock.
THEOREM HeadsAreOrdered ==
  ASSUME NEW n \in Nat, Heads \subseteq 0 .. n
  PROVE  Spec => []HeadsNeverDeadlock
<1>1. TypeOK /\ Locking /\ LockOrder => HeadsNeverDeadlock
  <2>. SUFFICES ASSUME TypeOK, Locking, LockOrder, NEW S \in SUBSET Clients, CircularWait(S),
                       \A c \in S : pc[c] # "write"
                PROVE  FALSE
    BY DEF HeadsNeverDeadlock
  <2>1. \A c \in S : \E d \in S : WaitsFor(c, d)
    BY DEF CircularWait
  <2>. DEFINE T == {c \in S : pc[c] = "heads" /\ want[c] # None}
              wanted == {want[c] : c \in T}
  <2>2. ASSUME NEW c \in S
        PROVE  \E d \in T : WaitsFor(c, d) /\ (c \in T => want[c] < want[d])
    <3>1. PICK d \in S : WaitsFor(c, d)
      BY <2>1
    <3>2. PICK e \in S : WaitsFor(d, e)
      BY <2>1
    <3>. QED  BY <3>1, <3>2, WaitsUpwards
  <2>3. T # {}
    BY <2>2 DEF CircularWait
  <2>4. wanted \subseteq 0 .. n
    <3>1. \A c \in T : want[c] \in Heads
      BY DEF LockOrder, Ascending
    <3>. QED  BY <3>1
  <2>5. PICK x \in wanted : \A y \in wanted : y <= x
    <3>1. wanted # {}
      BY <2>3
    <3>. HIDE DEF wanted
    <3>. QED  BY <2>4, <3>1, HighestOf
  <2>6. PICK c \in T : x = want[c]
    OBVIOUS
  <2>7. PICK d \in T : want[c] < want[d]
    BY <2>2, <2>6
  <2>8. want[d] <= want[c] /\ want[c] \in Nat /\ want[d] \in Nat
    BY <2>4, <2>5, <2>6, <2>7
  <2>. QED  BY <2>7, <2>8
<1>2. Spec => []LockOrder
  <2>1. Spec => [](TypeOK /\ Locking)
    BY Invariance, PTL DEF IInv
  <2>. QED  BY <2>1, OrderInit, OrderStep, PTL DEF Spec
<1>. QED  BY <1>1, <1>2, Invariance, PTL DEF IInv

-----------------------------------------------------------------------------
(* A call only goes forward.  The inductive invariant: the row a caller asks for
   is one of those it has left. *)

Queued == \A c \in Clients : want[c] # None => want[c] \in todo[c]

LEMMA LockNextQueued ==
  ASSUME TypeOK, Queued, NEW c \in Clients, NEW S, NEW first \in SUBSET S, LockNext(c, S, first)
  PROVE  Queued' /\ todo'[c] = S
<1>1. /\ todo'[c] = S /\ \A d \in Clients \ {c} : todo'[d] = todo[d] /\ want'[d] = want[d]
      /\ want'[c] # None => want'[c] \in S
  BY DEF LockNext, TypeOK
<1>. QED  BY <1>1 DEF Queued

LEMMA QueuedStep == TypeOK /\ Queued /\ [Next]_vars => Queued'
<1>. SUFFICES ASSUME TypeOK, Queued, [Next]_vars PROVE Queued'
  OBVIOUS
<1>1. CASE UNCHANGED vars
  BY <1>1 DEF Queued, vars, rest
<1>2. ASSUME NEW c \in Clients,
             execute(c) \/ BeginSerializable(c) \/ LockKey(c) \/ insertCommandReceipt(c)
      PROVE  Queued'
  BY <1>2 DEF execute, BeginSerializable, LockKey, insertCommandReceipt, rest, Queued
<1>3. ASSUME NEW c \in Clients, Commit(c) \/ Retries(c) \/ Returns(c)
      PROVE  Queued'
  <2>1. ForgetTransaction(c)
    BY <1>3 DEF Commit, Retries, Retry, Returns, Rollback, Finish
  <2>. QED  BY <2>1 DEF ForgetTransaction, TypeOK, Queued
<1>4. ASSUME NEW c \in Clients, ClaimNew(c) PROVE Queued'
  <2>1. Lowest(HeadsToLock(c)) \subseteq HeadsToLock(c)
    BY DEF Lowest
  <2>. QED  BY <1>4, <2>1, LockNextQueued DEF ClaimNew
<1>5. ASSUME NEW c \in Clients, LockHead(c) PROVE Queued'
  <2>1. Lowest(todo[c] \ {want[c]}) \subseteq todo[c] \ {want[c]}
    BY DEF Lowest
  <2>. QED  BY <1>5, <2>1, LockNextQueued DEF LockHead
<1>6. ASSUME NEW c \in Clients, HandlerMoves(c) PROVE Queued'
  BY <1>6, LockNextQueued DEF HandlerMoves
<1>7. ASSUME NEW c \in Clients, WriteRow(c) PROVE Queued'
  BY <1>7, LockNextQueued DEF WriteRow
<1>. QED  BY <1>1, <1>2, <1>3, <1>4, <1>5, <1>6, <1>7, StepKinds

\* What a step of a call does to the call.
Advances(c) ==
  \/ pc'[c] = "idle"
  \/ attempt'[c] = attempt[c] + 1 /\ attempt'[c] <= MaxAttempts
  \/ attempt'[c] = attempt[c] /\ <<pc[c], pc'[c]>> \in NextStage
  \/ /\ attempt'[c] = attempt[c] /\ pc'[c] = pc[c]
     /\ todo'[c] \subseteq todo[c] /\ todo'[c] # todo[c]

LEMMA StepAdvances ==
  ASSUME TypeOK, Queued, NEW c \in Clients, Step(c)
  PROVE  Advances(c)
<1>1. CASE BeginSerializable(c) \/ LockKey(c) \/ ClaimNew(c) \/ HandlerMoves(c) \/ insertCommandReceipt(c)
  <2>1. attempt' = attempt /\ <<pc[c], pc'[c]>> \in NextStage
    BY <1>1 DEF BeginSerializable, LockKey, ClaimNew, HandlerMoves, insertCommandReceipt, Goto,
                NextStage, TypeOK
  <2>. QED  BY <2>1 DEF Advances
<1>2. CASE LockHead(c) \/ WriteRow(c)
  <2>1. want[c] \in todo[c]
    BY <1>2 DEF LockHead, WriteRow, Queued
  <2>2. UNCHANGED <<attempt, pc>> /\ todo'[c] = todo[c] \ {want[c]}
    BY <1>2 DEF LockHead, WriteRow, LockNext, TypeOK
  <2>. QED  BY <2>1, <2>2 DEF Advances
<1>3. CASE Commit(c) \/ Returns(c)
  BY <1>3 DEF Commit, Returns, Rollback, Finish, Goto, Advances, TypeOK
<1>4. CASE Retries(c)
  <2>1. attempt'[c] = attempt[c] + 1 /\ attempt[c] < MaxAttempts /\ attempt[c] \in 0 .. MaxAttempts
    BY <1>4 DEF Retries, Retry, TypeOK
  <2>2. MaxAttempts \in Nat
    BY SomeAttempt
  <2>. QED  BY <2>1, <2>2 DEF Advances
<1>5. CASE ClaimReplay(c) \/ ClaimMismatch(c) \/ RefuseStale(c) \/ HandlerRefuses(c)
  BY <1>3, <1>5 DEF ClaimReplay, ClaimMismatch, RefuseStale, HandlerRefuses, Returns
<1>6. CASE SerializationFailure(c)
  BY <1>3, <1>4, <1>6, FailureKinds DEF SerializationFailure
<1>7. CASE DeadlockDetected(c)
  <2>1. PICK S \in SUBSET Clients : c \in S /\ CircularWait(S)
    BY <1>7 DEF DeadlockDetected
  <2>2. PICK d \in S : WaitsFor(c, d)
    BY <2>1 DEF CircularWait
  <2>3. pc[c] # "idle"
    BY <2>2, WaitingIsRunning
  <2>. QED  BY <1>3, <1>4, <1>7, <2>3, FailureKinds DEF DeadlockDetected
<1>. QED  BY <1>1, <1>2, <1>3, <1>5, <1>6, <1>7 DEF Step

\* However often the transactions of a call conflict, wait and are retried, the
\* call has a bounded number of steps: with finitely many rows, what CallsEnd
\* takes from fairness is only that its steps are taken.
THEOREM CallsGoForward == Spec => CallsOnlyAdvance
<1>1. Init => Queued
  BY DEF Init, Queued
<1>2. TypeOK /\ Queued => \A c \in Clients : Step(c) => Advances(c)
  BY StepAdvances
<1>3. (TypeOK /\ Queued) /\ [Next]_vars => [\A c \in Clients : Step(c) => Advances(c)]_vars
  BY <1>2
<1>4. Spec => []Queued
  BY <1>1, UnitOfWorkTypes, QueuedStep, PTL DEF Spec
<1>5. Spec => [][\A c \in Clients : Step(c) => Advances(c)]_vars
  BY <1>3, <1>4, UnitOfWorkTypes, PTL DEF Spec
<1>. QED  BY <1>5 DEF CallsOnlyAdvance, Advances
=============================================================================
