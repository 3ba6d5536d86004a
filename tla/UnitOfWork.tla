----------------------------- MODULE UnitOfWork -----------------------------
(***************************************************************************)
(* Domain commands of concurrent callers: PgUnitOfWork.execute over the    *)
(* command receipts, the aggregate heads and the scope generations, and    *)
(* PostgreSQL's serializable transactions as the code uses them: one       *)
(* snapshot, taken by the first statement; a row that changed since then   *)
(* cannot be locked or written (40001); a circular wait ends in 40P01.     *)
(*                                                                         *)
(* A key stands for (workspace, command type, idempotency key), a row for  *)
(* an aggregate head or a scope generation, and its version for the        *)
(* revision or the generation, 0 when there is no row.  What a handler     *)
(* decides and which rows it moves is free.                                *)
(***************************************************************************)
EXTENDS Naturals

CONSTANTS
  Clients,      \* concurrent callers of execute
  Keys, Payloads,
  Heads,        \* aggregate ids, numbers for their order
  Scopes,       \* scopes with a generation
  Existing,     \* the aggregates that exist at the start
  MaxAttempts,  \* maxSerializationRetries
  MaxVersion,   \* bound on the versions a caller can expect
  None

Rows == Heads \cup Scopes

ASSUME RowsDiffer == Heads \subseteq Nat /\ Heads \cap Scopes = {} /\ Existing \subseteq Heads
ASSUME SomeAttempt == MaxAttempts \in Nat \ {0} /\ MaxVersion \in Nat

VARIABLES
  \* the database
  version, receipts,
  changes,       \* committed change_records of each key, counted by command
  keyLock,       \* holder of the advisory lock of each key
  rowLock,       \* holder of the row lock of each row
  \* each caller: its envelope, where its call is, how often it began, the
  \* snapshot of its transaction, rows still to lock, the row it locks next,
  \* the rows its handler moves, and the answer to the call
  envelope, pc, attempt, snapshot, todo, want, moves, answer

database == <<version, receipts, changes>>
locks == <<keyLock, rowLock>>
rest == <<todo, want, moves>>
vars == <<database, locks, envelope, pc, attempt, snapshot, rest, answer>>

\* A revision is at least 1, a generation at least 0.
Versions == 0 .. MaxVersion
Envelopes ==
  UNION {[key : Keys, payload : Payloads, expects : [D -> Versions]] : D \in SUBSET Rows}

\* What a command leaves behind: its payload, the versions it expected and
\* the versions it replaced.
IsReceipt(x) ==
  \E D, W \in SUBSET Rows :
    x \in [payload : Payloads, expects : [D -> Versions], before : [W -> Nat]]

ASSUME NoneDiffers ==
  None \notin Clients \cup Rows \cup Payloads \cup Envelopes /\ ~IsReceipt(None)

NoSnapshot == [version |-> [r \in Rows |-> 0], keys |-> {}]

Init ==
  /\ version = [r \in Rows |-> IF r \in Existing THEN 1 ELSE 0]
  /\ receipts = [k \in Keys |-> None]
  /\ changes = [k \in Keys |-> 0]
  /\ keyLock = [k \in Keys |-> None]
  /\ rowLock = [r \in Rows |-> None]
  /\ envelope = [c \in Clients |-> None]
  /\ pc = [c \in Clients |-> "idle"]
  /\ attempt = [c \in Clients |-> 0]
  /\ snapshot = [c \in Clients |-> NoSnapshot]
  /\ todo = [c \in Clients |-> {}]
  /\ want = [c \in Clients |-> None]
  /\ moves = [c \in Clients |-> {}]
  /\ answer = [c \in Clients |-> "NONE"]

-----------------------------------------------------------------------------
(* Helpers *)

keyOf(c) == envelope[c].key
expects(c) == envelope[c].expects
Committed(k) == receipts[k] # None

Goto(c, label) == pc' = [pc EXCEPT ![c] = label]

ReleaseLocks(c) ==
  /\ keyLock' = [k \in Keys |-> IF keyLock[k] = c THEN None ELSE keyLock[k]]
  /\ rowLock' = [r \in Rows |-> IF rowLock[r] = c THEN None ELSE rowLock[r]]

ForgetTransaction(c) ==
  /\ snapshot' = [snapshot EXCEPT ![c] = NoSnapshot]
  /\ todo' = [todo EXCEPT ![c] = {}]
  /\ want' = [want EXCEPT ![c] = None]
  /\ moves' = [moves EXCEPT ![c] = {}]

\* The transaction ends and execute returns or throws.
Finish(c, a) ==
  /\ ReleaseLocks(c)
  /\ ForgetTransaction(c)
  /\ attempt' = [attempt EXCEPT ![c] = 0]
  /\ Goto(c, "idle")
  /\ envelope' = [envelope EXCEPT ![c] = None]
  /\ answer' = [answer EXCEPT ![c] = a]

Rollback(c, a) == Finish(c, a) /\ UNCHANGED database

\* Rows are locked one after the other: S are left, and the next is one of
\* first.
LockNext(c, S, first) ==
  /\ todo' = [todo EXCEPT ![c] = S]
  /\ IF S = {} THEN want' = [want EXCEPT ![c] = None]
              ELSE \E r \in first : want' = [want EXCEPT ![c] = r]

\* Mutant: heads are locked in the order of the envelope.
AnyOf(S) == S

\* ORDER BY aggregate_id
Lowest(S) == {h \in S : \A g \in S : h <= g}

-----------------------------------------------------------------------------
(* PgUnitOfWork.execute *)

\* A caller submits a command; it expects versions it has read, and a new
\* aggregate at revision 1.
execute(c) ==
  /\ pc[c] = "idle"
  /\ \E e \in Envelopes :
       /\ \A r \in DOMAIN e.expects :
            IF r \in Heads THEN e.expects[r] \in (1 .. version[r]) \cup {1}
                           ELSE e.expects[r] \in 0 .. version[r]
       /\ envelope' = [envelope EXCEPT ![c] = e]
  /\ Goto(c, "begin")
  /\ attempt' = [attempt EXCEPT ![c] = 1]
  /\ answer' = [answer EXCEPT ![c] = "NONE"]
  /\ UNCHANGED <<database, locks, snapshot, rest>>

\* BEGIN, and the first statement, which asks for the advisory lock of the
\* key: the snapshot is taken before the lock is granted.
BeginSerializable(c) ==
  /\ pc[c] = "begin"
  /\ snapshot' =
       [snapshot EXCEPT ![c] = [version |-> version, keys |-> {k \in Keys : Committed(k)}]]
  /\ Goto(c, "lock")
  /\ UNCHANGED <<database, locks, envelope, attempt, rest, answer>>

LockKey(c) ==
  /\ pc[c] = "lock"
  /\ keyLock[keyOf(c)] = None
  /\ keyLock' = [keyLock EXCEPT ![keyOf(c)] = c]
  /\ Goto(c, "claim")
  /\ UNCHANGED <<database, rowLock, envelope, attempt, snapshot, rest, answer>>

\* Heads that lockHeads finds in the snapshot.
HeadsToLock(c) == {h \in Heads \cap DOMAIN expects(c) : snapshot[c].version[h] # 0}

\* The receipt, as the snapshot shows it: a replay, a mismatch, or a new key.
ClaimReplay(c) ==
  /\ pc[c] = "claim"
  /\ keyOf(c) \in snapshot[c].keys
  /\ receipts[keyOf(c)].payload = envelope[c].payload
  /\ Rollback(c, "OK")

ClaimMismatch(c) ==
  /\ pc[c] = "claim"
  /\ keyOf(c) \in snapshot[c].keys
  /\ receipts[keyOf(c)].payload # envelope[c].payload
  /\ Rollback(c, "CONFLICT")

ClaimNew(c) ==
  /\ pc[c] = "claim"
  /\ keyOf(c) \notin snapshot[c].keys
  /\ LET S == HeadsToLock(c) IN LockNext(c, S, Lowest(S))
  /\ Goto(c, "heads")
  /\ UNCHANGED <<database, locks, envelope, attempt, snapshot, moves, answer>>

\* Mutant: READ COMMITTED locks the row as it is now.
LatestGrantable(c, r) == rowLock[r] \in {None, c}

\* A row is granted when nobody else holds it and it has not changed since
\* the snapshot.
Grantable(c, r) ==
  /\ rowLock[r] \in {None, c}
  /\ version[r] = snapshot[c].version[r]

\* lockHeads: FOR UPDATE, in ascending order of the ids.
LockHead(c) ==
  /\ pc[c] = "heads"
  /\ want[c] # None
  /\ Grantable(c, want[c])
  /\ rowLock' = [rowLock EXCEPT ![want[c]] = c]
  /\ LET S == todo[c] \ {want[c]} IN LockNext(c, S, Lowest(S))
  /\ UNCHANGED <<database, keyLock, envelope, pc, attempt, snapshot, moves, answer>>

\* Mutant: nothing is compared.
ExpectationsIgnored(c) == TRUE

\* Expected revisions and generations, as the snapshot shows them.
ExpectationsHold(c) ==
  \A r \in DOMAIN expects(c) : snapshot[c].version[r] = expects(c)[r]

RefuseStale(c) ==
  /\ pc[c] = "heads"
  /\ want[c] = None
  /\ ~ExpectationsHold(c)
  /\ Rollback(c, "CONFLICT")

HandlerRefuses(c) ==
  /\ pc[c] = "heads"
  /\ want[c] = None
  /\ ExpectationsHold(c)
  /\ Rollback(c, "CONFLICT")

\* The handler advances heads at the revision the snapshot shows, creates
\* heads and advances scopes, each once and in any order.
HandlerMoves(c) ==
  /\ pc[c] = "heads"
  /\ want[c] = None
  /\ ExpectationsHold(c)
  /\ \E W \in SUBSET Rows :
       /\ moves' = [moves EXCEPT ![c] = W]
       /\ LockNext(c, W, W)
  /\ Goto(c, "write")
  /\ UNCHANGED <<database, locks, envelope, attempt, snapshot, answer>>

WriteRow(c) ==
  /\ pc[c] = "write"
  /\ want[c] # None
  /\ Grantable(c, want[c])
  /\ rowLock' = [rowLock EXCEPT ![want[c]] = c]
  /\ LET S == todo[c] \ {want[c]} IN LockNext(c, S, S)
  /\ UNCHANGED <<database, keyLock, envelope, pc, attempt, snapshot, moves, answer>>

\* Mutant: ON CONFLICT DO NOTHING.
InsertOrIgnore(c) ==
  /\ pc[c] = "write"
  /\ want[c] = None
  /\ Goto(c, "commit")
  /\ UNCHANGED <<database, locks, envelope, attempt, snapshot, rest, answer>>

\* The primary key of command_receipts: no committed row, no other inserter.
insertCommandReceipt(c) ==
  /\ pc[c] = "write"
  /\ want[c] = None
  /\ ~Committed(keyOf(c))
  /\ \A d \in Clients : pc[d] = "commit" => keyOf(d) # keyOf(c)
  /\ Goto(c, "commit")
  /\ UNCHANGED <<database, locks, envelope, attempt, snapshot, rest, answer>>

\* Mutant: the transaction is only REPEATABLE READ.
RepeatableRead(c) == TRUE

\* PostgreSQL's serializable isolation, as far as the code relies on it: no
\* command committed since the snapshot that this one missed and that
\* missed this one.
Serializable(c) ==
  \A k \in {l \in Keys : Committed(l)} \ snapshot[c].keys :
    \/ DOMAIN expects(c) \cap DOMAIN receipts[k].before = {}
    \/ DOMAIN receipts[k].expects \cap moves[c] = {}

\* COMMIT; its acknowledgement may be lost, and execute then throws.
Commit(c) ==
  /\ pc[c] = "commit"
  /\ Serializable(c)
  /\ version' =
       [r \in Rows |-> IF r \in moves[c] THEN snapshot[c].version[r] + 1 ELSE version[r]]
  /\ receipts' =
       [receipts EXCEPT ![keyOf(c)] =
          [payload |-> envelope[c].payload, expects |-> expects(c),
           before |-> [r \in moves[c] |-> snapshot[c].version[r]]]]
  /\ changes' = [changes EXCEPT ![keyOf(c)] = @ + 1]
  /\ \E a \in {"OK", "ERROR"} : Finish(c, a)

-----------------------------------------------------------------------------
(* Failed transactions *)

\* c needs a lock that d holds.
WaitsFor(c, d) ==
  /\ d # c
  /\ \/ pc[c] = "lock" /\ keyLock[keyOf(c)] = d
     \/ want[c] # None /\ rowLock[want[c]] = d

Waiting(c) == \E d \in Clients : WaitsFor(c, d)

\* A set of callers in which everybody waits for one of them.
CircularWait(S) == S # {} /\ \A c \in S : \E d \in S : WaitsFor(c, d)

AttemptsLeft(c) == attempt[c] < MaxAttempts

\* Mutant: the counter of attempts starts again in every iteration.
RetryForever(c) ==
  /\ ReleaseLocks(c)
  /\ ForgetTransaction(c)
  /\ Goto(c, "begin")
  /\ UNCHANGED <<database, envelope, attempt, answer>>

Retry(c) ==
  /\ ReleaseLocks(c)
  /\ ForgetTransaction(c)
  /\ attempt' = [attempt EXCEPT ![c] = @ + 1]
  /\ Goto(c, "begin")
  /\ UNCHANGED <<database, envelope, answer>>

\* 40001 or 40P01: begin again, or give up with a conflict.
RetryOrGiveUp(c) == IF AttemptsLeft(c) THEN Retry(c) ELSE Rollback(c, "CONFLICT")

\* PostgreSQL may find a dangerous structure in any statement.
SerializationFailure(c) ==
  /\ pc[c] \notin {"idle", "begin"}
  /\ ~Waiting(c)
  /\ RetryOrGiveUp(c)

DeadlockDetected(c) ==
  /\ \E S \in SUBSET Clients : c \in S /\ CircularWait(S)
  /\ RetryOrGiveUp(c)

\* Any other error leaves execute as an exception: a lost connection, a
\* unique violation, an error of the handler, the end of the process.
Throw(c) ==
  /\ pc[c] # "idle"
  /\ Rollback(c, "ERROR")

-----------------------------------------------------------------------------
Step(c) ==
  \/ BeginSerializable(c) \/ LockKey(c)
  \/ ClaimReplay(c) \/ ClaimMismatch(c) \/ ClaimNew(c)
  \/ LockHead(c) \/ RefuseStale(c) \/ HandlerRefuses(c) \/ HandlerMoves(c)
  \/ WriteRow(c) \/ insertCommandReceipt(c) \/ Commit(c)
  \/ SerializationFailure(c) \/ DeadlockDetected(c)

Next == \E c \in Clients : execute(c) \/ Step(c) \/ Throw(c)

Spec == Init /\ [][Next]_vars

\* Lock queues are first come, first served, and a running call goes on.
FairSpec == Spec /\ \A c \in Clients : SF_vars(Step(c))

-----------------------------------------------------------------------------
(* Properties *)

\* Types.  A caller is in a call exactly while it has an envelope and an
\* attempt of at most MaxAttempts.
TypeOK ==
  /\ version \in [Rows -> Nat]
  /\ receipts = [k \in Keys |-> receipts[k]]
  /\ \A k \in Keys : Committed(k) => IsReceipt(receipts[k])
  /\ changes \in [Keys -> Nat]
  /\ keyLock \in [Keys -> Clients \cup {None}]
  /\ rowLock \in [Rows -> Clients \cup {None}]
  /\ envelope \in [Clients -> Envelopes \cup {None}]
  /\ attempt \in [Clients -> 0 .. MaxAttempts]
  /\ pc \in [Clients -> {"idle", "begin", "lock", "claim", "heads", "write", "commit"}]
  /\ snapshot \in [Clients -> [version : [Rows -> Nat], keys : SUBSET Keys]]
  /\ todo \in [Clients -> SUBSET Rows]
  /\ want \in [Clients -> Rows \cup {None}]
  /\ moves \in [Clients -> SUBSET Rows]
  /\ \A c \in Clients :
       /\ pc[c] = "idle" <=> attempt[c] = 0
       /\ pc[c] = "idle" <=> envelope[c] = None
       /\ pc[c] \notin {"heads", "write"} => want[c] = None

\* The change records of a command exist with its receipt and were written
\* once, however often it was submitted, retried or interrupted: the effects
\* and the receipt of PgUnitOfWork.execute are one transaction.
AppliedOnce == \A k \in Keys : changes[k] = IF Committed(k) THEN 1 ELSE 0

\* Nobody is told OK for a payload other than the one committed under its key.
OkMeansCommitted ==
  [][\A c \in Clients :
       pc[c] # "idle" /\ answer'[c] = "OK" =>
         /\ receipts'[keyOf(c)] # None
         /\ receipts'[keyOf(c)].payload = envelope[c].payload]_vars

\* No two commands replaced the same version of a row.
NoLostUpdate ==
  \A k, l \in {j \in Keys : Committed(j)} :
    \A r \in DOMAIN receipts[k].before \cap DOMAIN receipts[l].before :
      k # l => receipts[k].before[r] # receipts[l].before[r]

\* k relied on the version of a row that l replaced.
Missed(k, l) ==
  \E r \in DOMAIN receipts[k].expects \cap DOMAIN receipts[l].before :
    receipts[k].expects[r] = receipts[l].before[r]

\* Of two commands at least one saw what the other one did to the rows it
\* relied on: the predicate invariants across roots that scope generations
\* are there for.
NoWriteSkew ==
  \A k, l \in {j \in Keys : Committed(j)} : k # l => ~(Missed(k, l) /\ Missed(l, k))

\* A command that commits does so while the aggregates it expected are at the
\* revisions it expected, not only when it compared them.
CommitsOnExpectedRevisions ==
  [][\A c \in Clients :
       Commit(c) => \A h \in Heads \cap DOMAIN expects(c) : version[h] = expects(c)[h]]_vars

\* The order of lockHeads keeps callers that only lock heads out of every
\* circular wait; those that are left include a caller whose handler writes.
HeadsNeverDeadlock ==
  \A S \in SUBSET Clients : CircularWait(S) => \E c \in S : pc[c] = "write"

\* Every call of execute ends, whatever it conflicts with: the retries are
\* bounded, circular waits are broken, and a retry gives its locks back.
CallsEnd == \A c \in Clients : pc[c] # "idle" ~> pc[c] = "idle"

\* The stages of an attempt, in order.
NextStage ==
  {<<"begin", "lock">>, <<"lock", "claim">>, <<"claim", "heads">>, <<"heads", "write">>,
   <<"write", "commit">>}

\* A call only goes forward: each of its steps ends it, begins one more of its
\* attempts, enters the next stage of the attempt or leaves one row less to
\* lock, whatever it conflicts with.
CallsOnlyAdvance ==
  [][\A c \in Clients : Step(c) =>
       \/ pc'[c] = "idle"
       \/ attempt'[c] = attempt[c] + 1 /\ attempt'[c] <= MaxAttempts
       \/ attempt'[c] = attempt[c] /\ <<pc[c], pc'[c]>> \in NextStage
       \/ /\ attempt'[c] = attempt[c] /\ pc'[c] = pc[c]
          /\ todo'[c] \subseteq todo[c] /\ todo'[c] # todo[c]]_vars

Atomic == INSTANCE AtomicCommands
  WITH Nothing <- None,
       Commands <- Envelopes,
       applied <- [k \in Keys |-> IF Committed(k) THEN receipts[k].payload ELSE None],
       call <- envelope

\* Transactions, locks and retries are invisible: callers see commands that
\* are applied in one step, once per key, on the revisions they expected.
ImplementsAtomicCommands == Atomic!AtomicSpec
=============================================================================
