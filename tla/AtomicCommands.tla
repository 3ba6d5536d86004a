--------------------------- MODULE AtomicCommands ---------------------------
(***************************************************************************)
(* What the unit of work promises its callers: a command is applied in one *)
(* indivisible step or not at all, at most once for its idempotency key,   *)
(* against exactly the revisions it expected, and an OK answer is given    *)
(* only for a payload that was applied under the key.                      *)
(***************************************************************************)
EXTENDS Naturals

CONSTANTS Clients, Keys,
          Heads,     \* aggregates, each with one revision
          Scopes,    \* collections, each with one generation
          Commands,  \* records of a key, a payload and the versions expected
          Nothing    \* no payload, no command

Rows == Heads \cup Scopes

VARIABLES
  applied,       \* the payload that was applied under each key
  version,       \* revision or generation of each row
  call,          \* the command each client waits for
  answer         \* what it was told last

commandVars == <<applied, version, call, answer>>

AtomicInit ==
  /\ applied = [k \in Keys |-> Nothing]
  /\ version \in [Rows -> Nat]
  /\ call = [c \in Clients |-> Nothing]
  /\ answer = [c \in Clients |-> "NONE"]

Answer(c, a) ==
  /\ call[c] # Nothing
  /\ call' = [call EXCEPT ![c] = Nothing]
  /\ answer' = [answer EXCEPT ![c] = a]

Submit(c) ==
  /\ call[c] = Nothing
  /\ \E e \in Commands : call' = [call EXCEPT ![c] = e]
  /\ answer' = [answer EXCEPT ![c] = "NONE"]
  /\ UNCHANGED <<applied, version>>

\* The one step in which a command has its effect; its answer may be lost.
Apply(c) ==
  /\ \E a \in {"OK", "ERROR"} : Answer(c, a)
  /\ applied[call[c].key] = Nothing
  /\ applied' = [applied EXCEPT ![call[c].key] = call[c].payload]
  /\ \A h \in Heads \cap DOMAIN call[c].expects : version[h] = call[c].expects[h]
  /\ \E W \in SUBSET Rows :
       version' = [r \in Rows |-> IF r \in W THEN version[r] + 1 ELSE version[r]]

\* A repeated command gets the answer of the first one.
Replay(c) ==
  /\ Answer(c, "OK")
  /\ applied[call[c].key] = call[c].payload
  /\ UNCHANGED <<applied, version>>

\* Nothing was applied on behalf of this call.
Decline(c) ==
  /\ \E a \in {"CONFLICT", "ERROR"} : Answer(c, a)
  /\ UNCHANGED <<applied, version>>

AtomicNext == \E c \in Clients : Submit(c) \/ Apply(c) \/ Replay(c) \/ Decline(c)

AtomicSpec == AtomicInit /\ [][AtomicNext]_commandVars
=============================================================================
