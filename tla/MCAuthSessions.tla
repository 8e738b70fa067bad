--------------------------- MODULE MCAuthSessions ---------------------------
(* Instances of AuthSessions for TLC.  A run explores three loads at once:   *)
(* requests that overlap and fail in any way, requests that come one at a    *)
(* time and may stop between two steps, and requests that come one at a time *)
(* and all complete.  MaxChanges bounds the resets and the password changes  *)
(* under each load, within ResetTokens and MaxPasswords.                     *)
EXTENDS AuthSessions, TLC

VARIABLE load

MaxChanges == [overlapping |-> 0, failing |-> 1, reliable |-> 2]

MCInit == Init /\ load \in DOMAIN MaxChanges

\* While a request is in flight, requests that come one at a time wait for it.
Acting ==
  IF load = "overlapping" \/ \A s \in Requests : At(s, "idle") THEN Requests
  ELSE {s \in Requests : ~At(s, "idle")}

MCStep ==
  \/ \E s \in Acting : HolderStep(s) \/ PasswordStep(s) \/ AdminStep(s)
  \/ load # "reliable" /\ \E s \in Requests : Fail(s)
  \/ \E g \in Grants : ExpireToken(g)

Bounded ==
  /\ Cardinality({r \in ResetTokens : reset[r] # "none"}) <= MaxChanges[load]
  /\ password <= MaxChanges[load]

MCNext == UNCHANGED load /\ MCStep /\ Bounded'

MCSpec == MCInit /\ [][MCNext]_<<vars, load>>

\* One request at a time: the handlers implement a ledger of grants issued to
\* an active account only, each once, and withdrawn for good.
SerialSessionLedger ==
  Ledger!Init /\ [][load # "overlapping" => Ledger!Next]_Ledger!vars

\* One request at a time and none stopping half way: a reset token sets the
\* password once.
ReliableResetSingleUse == load = "reliable" => ResetSingleUse

\* One request at a time and none stopping half way: a suspended account has
\* no live refresh token, however it was suspended.
ReliableSuspendedLoggedOut == load = "reliable" => SuspendedLoggedOut

\* Grants, reset tokens and requests are interchangeable.
Symmetry == Permutations(Grants) \cup Permutations(ResetTokens)
            \cup Permutations(Requests)
=============================================================================
