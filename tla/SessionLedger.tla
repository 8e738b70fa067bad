---------------------------- MODULE SessionLedger ----------------------------
(***************************************************************************)
(* What session handling promises for one account: a grant is issued only  *)
(* while the account is active, each grant once, and a grant that was      *)
(* withdrawn stays so.  AuthSessions implements it when requests do not    *)
(* overlap.                                                                *)
(***************************************************************************)
CONSTANT Grants

VARIABLES
  active,  \* the account may log in
  live,    \* grants that keep somebody logged in
  issued   \* every grant ever given

vars == <<active, live, issued>>

Init == active = TRUE /\ live = {} /\ issued = {}

Issue(g) ==
  /\ active
  /\ g \notin issued
  /\ live' = live \cup {g}
  /\ issued' = issued \cup {g}
  /\ UNCHANGED active

\* Rotation, logout, expiry, a timeout, a forced logout.
Withdraw == live' \subseteq live /\ UNCHANGED <<active, issued>>

\* An administrator changes the status, withdrawing grants or not.
ChangeStatus ==
  /\ active' \in BOOLEAN
  /\ live' \subseteq live
  /\ UNCHANGED issued

Next == (\E g \in Grants : Issue(g)) \/ Withdraw \/ ChangeStatus

Spec == Init /\ [][Next]_vars
=============================================================================
