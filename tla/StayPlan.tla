------------------------------ MODULE StayPlan ------------------------------
(***************************************************************************)
(* What carrying out a selected plan of hotel stays promises, with no      *)
(* process, row, lease, message or retry in it: when an action is let      *)
(* pass, when the provider is asked, what may be reported of it, and when  *)
(* a stay goes on the journey or comes off.                                *)
(***************************************************************************)
EXTENDS Sequences

CONSTANTS
  Intents,   \* the stay actions of the plan
  Cancels,   \* those that cancel a displaced stay; the others book one
  Needs,     \* the intents each intent needs
  Foreign    \* a change of the journey by any other command

VARIABLES
  outcome,   \* what is reported of each intent
  admitted,  \* the intents that have been let pass
  request,   \* the request of each intent at the provider
  booking,   \* the booking made by it or, of a cancellation, to be cancelled
  journey    \* the changes since the plan was approved

planVars == <<outcome, admitted, request, booking, journey>>

Init ==
  /\ outcome = [i \in Intents |-> "OPEN"]
  /\ admitted = {}
  /\ request = [i \in Intents |-> "NONE"]
  /\ booking = [i \in Intents |-> IF i \in Cancels THEN "CONFIRMED" ELSE "NONE"]
  /\ journey = <<>>

Applied(i) == \E r \in DOMAIN journey : journey[r] = i

Done(i) == outcome[i] = "SUCCEEDED" /\ Applied(i)

\* The provider has shown what i asks for; the hotel may have cancelled since.
Shown(i) == booking[i] \in {IF i \in Cancels THEN "CANCELLED" ELSE "CONFIRMED", "CANCELLED"}

\* The intents that i needs, directly or through others.
Prerequisites(i) ==
  {p \in Intents :
     \A S \in SUBSET Intents :
       Needs[i] \subseteq S /\ (\A s \in S : Needs[s] \subseteq S) => p \in S}

\* All that i needs is proven and applied, and nothing else has been.
Admit(i) ==
  /\ \A p \in Needs[i] : Done(p)
  /\ \A r \in DOMAIN journey : journey[r] \in Prerequisites(i)
  /\ admitted' = admitted \cup {i}
  /\ UNCHANGED <<outcome, request, booking, journey>>

\* Once.  A booking is not asked for once anything is reported of it; a stay
\* may be seen cancelled, or its status be taken for a failure, before the
\* cancellation is sent.
Ask(i) ==
  /\ i \in admitted
  /\ request[i] = "NONE"
  /\ i \in Cancels \/ outcome[i] = "OPEN"
  /\ request' = [request EXCEPT ![i] = "SENT"]
  /\ UNCHANGED <<outcome, admitted, booking, journey>>

\* The provider carries the request out, or turns it down.
Act(i) ==
  /\ request[i] = "SENT"
  /\ \/ /\ request' = [request EXCEPT ![i] = "DONE"]
        /\ \E b \in IF i \in Cancels THEN {"CANCELLED"} ELSE {"CONFIRMED", "MISMATCH"} :
             booking' = [booking EXCEPT ![i] = b]
     \/ request' = [request EXCEPT ![i] = "REFUSED"] /\ UNCHANGED booking
  /\ UNCHANGED <<outcome, admitted, journey>>

\* The hotel cancels a booking of its own accord.
Drop(i) ==
  /\ booking[i] \in {"CONFIRMED", "MISMATCH"}
  /\ booking' = [booking EXCEPT ![i] = "CANCELLED"]
  /\ UNCHANGED <<outcome, admitted, request, journey>>

Report(i, what) ==
  /\ outcome[i] = "OPEN"
  /\ outcome' = [outcome EXCEPT ![i] = what]
  /\ UNCHANGED <<admitted, request, booking, journey>>

Succeed(i) ==
  /\ i \in admitted
  /\ Shown(i)
  /\ Report(i, "SUCCEEDED")

\* A booking is not reported as failed while it may come about or stands.
Fail(i) ==
  /\ i \in Cancels \/ (request[i] # "SENT" /\ booking[i] # "CONFIRMED")
  /\ Report(i, "FAILED")

\* A proven action changes the journey, once.
Apply(i) ==
  /\ outcome[i] = "SUCCEEDED"
  /\ ~Applied(i)
  /\ journey' = Append(journey, i)
  /\ UNCHANGED <<outcome, admitted, request, booking>>

Interfere ==
  /\ journey' = Append(journey, Foreign)
  /\ UNCHANGED <<outcome, admitted, request, booking>>

Next ==
  \/ \E i \in Intents :
       Admit(i) \/ Ask(i) \/ Act(i) \/ Drop(i) \/ Succeed(i) \/ Fail(i) \/ Apply(i)
  \/ Interfere

Spec == Init /\ [][Next]_planVars
=============================================================================
