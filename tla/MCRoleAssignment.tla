-------------------------- MODULE MCRoleAssignment --------------------------
(* Instances of RoleAssignment for TLC.  Requests come one at a time and     *)
(* may fail, or come one at a time and all complete; in FreeSpec they        *)
(* overlap.  Roles are edited where all complete, and only Admin, which may  *)
(* be given what the seed gives it, the right to edit roles, both or neither.*)
EXTENDS RoleAssignment, TLC

VARIABLE load

MCInit == Init /\ load \in {"serial", "reliable"}

Quiet == \A s \in Requests : At(s, "idle")

\* While a request is in flight, requests that come one at a time wait for it.
Acting == IF Quiet THEN Requests ELSE {s \in Requests : ~At(s, "idle")}

MCStep ==
  \/ \E a \in Admins :
       IssueToken(a) \/ TokenExpires(a) \/ EntryExpires(a) \/ (Quiet /\ DeleteOwnAccount(a))
  \/ \E s \in Acting :
       RequestStep(s) \/ ((load # "reliable" \/ Refused(s)) /\ Abandon(s))

Bounded ==
  \A s \in Requests : req[s].act = "edit" =>
    load = "reliable" /\ req[s].roles = {"Admin"} /\ "manage:admins" \notin req[s].grant

MCNext == UNCHANGED load /\ MCStep /\ Bounded'

MCSpec == MCInit /\ [][MCNext]_<<vars, load>>

\* Every request overlaps every other.
FreeSpec ==
  /\ Init /\ load = "overlapping"
  /\ [][UNCHANGED load /\ Next /\ Bounded']_<<vars, load>>

\* One request at a time: the guards keep a Super Admin.
SerialSuperAdminRemains == load # "overlapping" => SuperAdminRemains

\* One request at a time and none failing: what is written is written for
\* somebody who may.
ReliableWritesPermitted == [][load = "reliable" => WritesArePermitted]_vars

Symmetry == Permutations(Admins) \cup Permutations(Requests)
=============================================================================
