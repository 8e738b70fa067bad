------------------------ MODULE MCApplicationPipeline ------------------------
(* Instances of ApplicationPipeline for TLC.  A run explores three loads at  *)
(* once: requests that overlap in any way, the candidate's one at a time;    *)
(* the candidate's that overlap, beside one of a recruiter's at a time and   *)
(* with short histories; and requests that come one at a time.  In all of    *)
(* them a request may fail between two steps.                                *)
EXTENDS ApplicationPipeline, TLC

CONSTANT MaxShort  \* the entries of a history while submissions overlap

VARIABLE load

MCInit == Init /\ load \in {"overlapping", "submissions", "serial"}

\* While a request is in flight, requests that come one at a time wait for it.
Acting ==
  IF load # "serial" \/ \A s \in Requests : At(s, "idle") THEN Requests
  ELSE {s \in Requests : ~At(s, "idle")}

Busy(some) == {s \in some : ~At(s, "idle")}

Bounded ==
  CASE load = "overlapping" -> Cardinality(Busy(CandidateRequests)) <= 1
    [] load = "submissions" -> /\ Cardinality(Busy(RecruiterRequests)) <= 1
                               /\ \A a \in AppIds : Len(history[a]) <= MaxShort
                                                     /\ interviews[a] <= 1
    [] OTHER -> TRUE

MCNext ==
  /\ \/ \E s \in CandidateRequests \cap Acting : CandidateStep(s)
     \/ \E s \in RecruiterRequests \cap Acting : RecruiterStep(s)
     \/ DeleteJob
     \/ \E s \in Requests : Fail(s)
  /\ UNCHANGED load
  /\ Bounded'

MCSpec == MCInit /\ [][MCNext]_<<vars, load>>

\* One request at a time: the handlers implement the hiring process, which
\* moves forward only, is decided once and withdraws nothing after an offer.
SerialHiringProcess ==
  Process!Init /\ [][load = "serial" => Process!Next]_Process!vars

\* Rows, files and the requests of one role are interchangeable.
Symmetry == Permutations(AppIds) \cup Permutations(LetterFiles)
            \cup Permutations(CandidateRequests) \cup Permutations(RecruiterRequests)
=============================================================================
