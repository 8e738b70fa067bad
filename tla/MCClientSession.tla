--------------------------- MODULE MCClientSession ---------------------------
(* Instances of ClientSession for TLC, under two loads.  In "orderly" calls   *)
(* of the API overlap each other, but logins, logouts, the session context's  *)
(* refreshes and page loads wait for a quiet tab, nothing is lost or revoked, *)
(* and no token is too old in the moment it was minted.  In "tangled" what    *)
(* was started overlaps what is started next, and everything may fail.        *)
EXTENDS ClientSession, FiniteSets

CONSTANT MaxBusy  \* things under way beyond which a tangled tab starts no other

VARIABLE load

MCInit == Init /\ load \in {"orderly", "tangled"}

\* Nothing but calls of the API is under way.
OnlyCalls == boot.phase = "none" /\ \A c \in Slots : call[c].kind \in {"none", "api", "me"}

Busy ==
  Cardinality({c \in Slots : call[c].phase # "idle"})
    + Cardinality({r \in {"flight", "boot"} :
                     (IF r = "flight" THEN flight ELSE boot).phase # "none"})

MayStart(calm) ==
  \/ load = "tangled" /\ Busy < MaxBusy
  \/ load = "orderly" /\ calm

\* The call carries the token a refresh has just brought.
JustMinted(c) ==
  /\ call[c].who # NoAccount
  /\ call[c].kind = "me" \/ (call[c].kind = "api" /\ call[c].retry)

MCNext ==
  /\ UNCHANGED load
  /\ \/ MayStart(OnlyCalls) /\ \E c \in Calls : Request(c)
     \/ MayStart(Quiet) /\ LoginStep
     \/ (load = "tangled" \/ Quiet) /\ Reload
     \/ \E c \in Slots : CallStep(c) /\ (load = "orderly" /\ JustMinted(c) => ReturnCall(c))
     \/ FlightStep \/ BootStep
     \/ load = "tangled" /\ (LossStep \/ \E a \in Accounts : Revoke(a))

MCSpec == MCInit /\ [][MCNext]_<<vars, load>> /\ Fairness

\* Orderly use: in a quiet tab user, token and socket belong together.
OrderlyTabAgrees == load = "orderly" /\ Quiet => TabAgrees

\* Orderly use: however many calls find the access token expired at once, no
\* user is logged out but by logging out or loading the page again.
OrderlySessionSurvives ==
  [][load = "orderly" /\ user # NoAccount /\ user' = NoAccount
       => Reload \/ \E c \in Calls : LoggedOut(c, TRUE)]_<<vars, load>>
=============================================================================
