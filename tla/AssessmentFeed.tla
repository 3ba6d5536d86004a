---------------------------- MODULE AssessmentFeed ----------------------------
(***************************************************************************)
(* What the rest of the engine may rely on about the assessments of one    *)
(* subject: they follow one another, and one that was not settled or had   *)
(* expired is not current again.  Reassessment implements it;              *)
(* RecoveryCase is what runs on it.                                        *)
(*                                                                         *)
(* A pass asks currentAssessmentView with the time at which it began.      *)
(* CURRENT is settled for every pass, STALE for those that began before    *)
(* the assessment expired, PENDING for none.                               *)
(***************************************************************************)
EXTENDS Naturals

VARIABLES
  latest,  \* the newest assessment, 0 before the first
  view     \* whether it is settled

Views == {"CURRENT", "STALE", "PENDING"}

Init == latest = 0 /\ view = "PENDING"

\* Something it read has changed, or work is raised against it.
Disturb ==
  /\ view' = "PENDING"
  /\ UNCHANGED latest

\* It expires, and nothing is scheduled against it yet.
Expire ==
  /\ view = "CURRENT"
  /\ view' = "STALE"
  /\ UNCHANGED latest

\* Work against it is hidden by work against an older one that is inserted
\* late, after it had expired.
Resurface ==
  /\ latest # 0
  /\ view = "PENDING"
  /\ view' = "STALE"
  /\ UNCHANGED latest

\* The next one, also while this one is current, if a row of older work was
\* left; what it read may have changed, and its time come, before it is stored.
Assess ==
  /\ latest' = latest + 1
  /\ view' \in Views

Next == Disturb \/ Expire \/ Resurface \/ Assess

Spec == Init /\ [][Next]_<<latest, view>>
=============================================================================
