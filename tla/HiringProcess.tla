---------------------------- MODULE HiringProcess ----------------------------
(***************************************************************************)
(* What the application pipeline promises for one candidate and one job    *)
(* posting: a single application that only moves forward, is decided once, *)
(* and can be withdrawn until an offer is on the table.                    *)
(* ApplicationPipeline implements it when requests do not overlap.         *)
(***************************************************************************)
EXTENDS Naturals

VARIABLES
  open,    \* the posting exists
  stage    \* "None" or where the application stands

vars == <<open, stage>>

Rank == [Applied |-> 1, Reviewed |-> 2, Shortlisted |-> 3,
         InterviewScheduled |-> 4, OfferReleased |-> 5, Hired |-> 6]

Active == {"Applied", "Reviewed", "Shortlisted", "InterviewScheduled",
           "OfferReleased"}

Init == open = TRUE /\ stage = "None"

\* A first application, or a new one after a withdrawal.
Apply ==
  /\ open
  /\ stage \in {"None", "Withdrawn"}
  /\ stage' = "Applied"
  /\ UNCHANGED open

\* Any later stage may follow; only an interview or an offer leads to Hired.
Advance ==
  /\ stage \in Active
  /\ \E next \in DOMAIN Rank :
       /\ Rank[next] > Rank[stage]
       /\ next = "Hired" => Rank[stage] >= Rank["InterviewScheduled"]
       /\ stage' = next
  /\ UNCHANGED open

Reject == stage \in Active /\ stage' = "Rejected" /\ UNCHANGED open

Withdraw ==
  /\ stage \in Active \ {"OfferReleased"}
  /\ stage' = "Withdrawn"
  /\ UNCHANGED open

\* The posting is deleted, its application with it.
Close == open /\ open' = FALSE /\ stage' = "None"

Next == Apply \/ Advance \/ Reject \/ Withdraw \/ Close

Spec == Init /\ [][Next]_vars
=============================================================================
