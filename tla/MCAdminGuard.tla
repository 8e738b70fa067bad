----------------------------- MODULE MCAdminGuard -----------------------------
(* Instances of AdminGuard and of AuditPurge for TLC; they share Redis.  A run  *)
(* explores three kinds of work.  People log in and call; or one administrator  *)
(* who has logged in uses the pages while the policy changes; or Super Admins   *)
(* export and delete the activity log.                                          *)
(*                                                                              *)
(* Of logins and visits: in some behaviours Redis comes and goes, the database  *)
(* fails and the process stops, MaxTroubles times at most; in the others        *)
(* nothing fails, and Redis is there or is not.  A lock ends, or is lifted,     *)
(* while no request is in flight.  Of purges: in some behaviours requests       *)
(* overlap, Redis comes, goes and errs at any moment, and MaxTroubles times the *)
(* database fails or the process stops; in the others requests come one at a    *)
(* time, and Redis comes and goes between them.                                 *)
EXTENDS AdminGuard, TLC

CONSTANTS MaxTroubles, MaxChanges, Operators, Traces, MaxExports

ASSUME PurgeAssumption == MaxExports \in Nat

VARIABLES work, mayFail, troubles, changes,
          receipt, memory, log, writing, purging, exports, purged, last, missed
mcVars == <<work, mayFail, troubles, changes>>
purgeVars == <<receipt, memory, log, writing, purging, exports, purged, last, missed>>

Purge == INSTANCE AuditPurge

MCInit ==
  /\ Init /\ Purge!Init /\ work \in {"logins", "visits", "purges"} /\ mayFail \in BOOLEAN
  /\ troubles = 0 /\ changes = 0
  /\ work \in {"logins", "purges"} => policy = 0

\* The timeout is chosen anew, but neither switched on nor off.
Chosen == (policy = 0) = (policy' = 0)

\* Visits that may fail come one at a time.
Acting ==
  IF Quiet \/ work = "logins" \/ ~mayFail THEN Requests
  ELSE {r \in Requests : ~At(r, "idle")}

SessionsOpen == \E s \in Sessions : session[s].opened

Login(r) ==
  /\ LoginStep(r) \/ CallStep(r) \/ CountStep(r)
  /\ At(r, "idle") =>
       /\ work = "visits" => req'[r].right /\ ~SessionsOpen
       /\ mayFail => req'[r].step # "count"

Working ==
  \/ \E r \in Acting : Login(r) \/ (work = "visits" /\ (VisitStep(r) \/ Invalidate(r)))
  \/ \E k \in Counters : WindowEnds(k)
  \/ Quiet /\ \E a \in Accounts : Unlock(a)
  \/ /\ work = "visits"
     /\ CachedEnds \/ Tick \/ \E s \in Sessions : Renew(s)

Trouble == RedisTurns \/ Stop \/ \E r \in Requests : FailOpen(r)

PurgesRest == \A r \in Requests : Purge!At(r, "idle")

Purging ==
  IF PurgesRest \/ mayFail THEN Requests ELSE {r \in Requests : ~Purge!At(r, "idle")}

PurgeStep ==
  \/ \E r \in Purging : Purge!HandlerStep(r, redis) \/ (mayFail /\ Purge!HandlerStep(r, FALSE))
  \/ Purge!WriteTrace \/ Purge!ReceiptExpires
  \/ (PurgesRest \/ mayFail) /\ Purge!RedisTurns

PurgeFault == mayFail /\ troubles < MaxTroubles /\ Purge!Fault

GuardStep ==
  \/ Working /\ UNCHANGED <<troubles, changes>>
  \/ /\ work = "visits" /\ changes < MaxChanges /\ changes' = changes + 1
     /\ UNCHANGED troubles
     /\ (\E r \in Acting : SavePolicy(r)) /\ Chosen
  \/ /\ mayFail /\ troubles < MaxTroubles /\ troubles' = troubles + 1
     /\ UNCHANGED changes
     /\ Trouble

guardVars == <<counters, locked, rules, session, req, guesses, idle, changes>>

MCNext ==
  /\ UNCHANGED <<work, mayFail>>
  /\ \/ work # "purges" /\ GuardStep /\ UNCHANGED purgeVars
     \/ /\ work = "purges" /\ UNCHANGED guardVars
        /\ \/ PurgeStep /\ UNCHANGED troubles
           \/ PurgeFault /\ troubles' = troubles + 1

MCSpec == MCInit /\ [][MCNext]_<<vars, mcVars, purgeVars>>

\* One administrator uses the pages, Redis is there and nothing fails.
VisitSpec ==
  /\ MCInit /\ work = "visits" /\ redis = TRUE /\ mayFail = FALSE
  /\ [][MCNext]_<<vars, mcVars, purgeVars>>

\* As long as nothing fails, the threshold and the requests in flight bound the
\* wrong passwords judged before the lock (auth.service.ts:290).
SteadyGuessesBounded == ~mayFail => GuessesBounded

\* As long as nothing fails, no counter stays for ever (loginSecurity.ts:52,
\* rateLimit.middleware.ts:74).
SteadyCountersDie == ~mayFail => CountersDie

\* As long as nothing fails: a session is expired only when it has been idle
\* for longer than the timeout (securityPolicy.middleware.ts:126, :147).
SteadyActiveKept == [][~mayFail => ExpiresIdleOnly]_vars

\* Receipts and requests of both subjects have their types.
AllTyped == TypeOK /\ Purge!TypeOK

\* Nothing but a failing insert or a stop costs the latest deletion of the
\* activity log its trace.
LastTraceKeptOrMissed == Purge!LastTraceKeptOrMissed

\* One request at a time, Redis coming and going between them: an export is
\* good for one deletion.
SteadyOneExportOnePurge == ~mayFail => Purge!OneExportOnePurge

Symmetry == Permutations(Requests) \cup Permutations(Sessions)
=============================================================================
