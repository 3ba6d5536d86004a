----------------------------- MODULE MCUnitOfWork -----------------------------
(* Small instances of UnitOfWork for TLC. *)
EXTENDS UnitOfWork, TLC

CONSTANTS c1, c2, k1, k2, p1, p2, sc1, sc2

TwoClients == {c1, c2}
OneKey == {k1}
TwoKeys == {k1, k2}
OnePayload == {p1}
TwoPayloads == {p1, p2}
NoHead == {}
OneHead == {1}
TwoHeads == {1, 2}
NoScope == {}
TwoScopes == {sc1, sc2}

\* Bound: the commands of one behaviour read and move heads only, or scopes
\* only.
OneKind ==
  \E S \in {Heads, Scopes} :
    /\ \A c \in Clients : (envelope[c] # None => DOMAIN expects(c) \subseteq S) /\ moves[c] \subseteq S
    /\ \A k \in Keys :
         Committed(k) => DOMAIN receipts[k].expects \cup DOMAIN receipts[k].before \subseteq S

Interchangeable == Permutations(TwoClients) \cup Permutations(TwoKeys) \cup Permutations(TwoScopes) \cup Permutations(TwoPayloads)
=============================================================================
