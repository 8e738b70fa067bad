--------------------------- MODULE MCJobLifecycle ---------------------------
(* Instances of JobLifecycle for TLC.  A run explores three loads at once:   *)
(* requests that overlap and stop half way as they like, requests that       *)
(* overlap and all complete, and requests that come one at a time and may    *)
(* stop half way.  While requests overlap there are MaxRacingJobs postings   *)
(* at most.                                                                  *)
EXTENDS JobLifecycle, FiniteSets, TLC

CONSTANT MaxRacingJobs

VARIABLE load

MCInit == Init /\ load \in {"overlapping", "reliable", "serial"}

\* While a request is in flight, requests that come one at a time wait for it.
Acting ==
  IF load # "serial" \/ \A s \in Requests : At(s, "idle") THEN Requests
  ELSE {s \in Requests : ~At(s, "idle")}

MCStep ==
  \E s \in Acting :
    \/ RecruiterStep(s)
    \/ AdminStep(s)
    \/ CleanupStep(s)
    \/ (load # "reliable" \/ Refused(s)) /\ Abandon(s)

Bounded ==
  load # "serial" =>
    Cardinality({j \in Jobs : job[j].status # "none"}) <= MaxRacingJobs

MCNext == UNCHANGED load /\ MCStep /\ Bounded'

MCSpec == MCInit /\ [][MCNext]_<<vars, load>>

\* As long as no handler stops half way, a job on the board has an approving
\* or pausing row in JobStatusHistory, or moderateJob is about to write it.
ReliableShownIsOnRecord == load = "reliable" => ShownIsOnRecord

Symmetry == Permutations(Jobs) \cup Permutations(Requests)
=============================================================================
