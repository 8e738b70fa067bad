------------------------------ MODULE AdminGuard ------------------------------
(***************************************************************************)
(* What stands between a person and administration: the counters of failed *)
(* logins with the lock they lead to, the rate limiter, and the inactivity *)
(* timeout and forced two-factor policy that every admin request passes.   *)
(* Counters, the time a session was last seen and the cached policy are in *)
(* Redis, which may be away; the process then counts in memory, and the    *)
(* timeout falls back to the Session row.                                  *)
(*                                                                         *)
(* Time passes in whole units (of minutes) while no request is in flight;  *)
(* windows of counters, locks and the cached policy end at any moment.     *)
(***************************************************************************)
EXTENDS Naturals, FiniteSets

CONSTANTS
  Requests,          \* requests in flight at once
  Accounts,          \* accounts of administrators
  Networks,          \* IP addresses
  Clients,           \* users, or addresses, the rate limiter tells apart
  Sessions,          \* sessions, each opened once
  AccountThreshold,  \* ADMIN_LOGIN_LOCKOUT_THRESHOLD
  NetworkThreshold,  \* ADMIN_LOGIN_IP_LOCKOUT_THRESHOLD
  Timeouts,          \* timeouts a Super Admin may choose, in units of time
  MaxAge,            \* ages are told apart up to this one
  MaxCount,          \* and counts up to this one
  None               \* no cached policy, no key, no session

ASSUME GuardAssumption ==
  /\ IsFiniteSet(Requests)
  /\ AccountThreshold \in Nat \ {0} /\ NetworkThreshold \in Nat \ {0}
  /\ Timeouts \subseteq 1..MaxAge
  /\ MaxAge \in Nat /\ MaxCount \in Nat
  /\ AccountThreshold <= MaxCount /\ NetworkThreshold <= MaxCount
  /\ Accounts \cap Networks = {} /\ (Accounts \cup Networks) \cap Clients = {}
  /\ None \notin Sessions \cup Accounts \cup Networks \cup Clients \cup 0..MaxAge

Counters == Accounts \cup Networks \cup Clients
Ages == 0..MaxAge
Policies == {0} \cup Timeouts   \* 0: the timeout is off

VARIABLES
  redis,    \* whether Redis answers
  count,    \* the counters in Redis, 0 if there is none
  windowed, \* counters that have their expiry set
  local,    \* the counters in the memory of the process
  locked,   \* accounts whose lockedUntil lies ahead
  policy,   \* the SecurityPolicy row
  cached,   \* security:policy in Redis
  session,  \* each session: its rows, its session:lastActive key
  req,      \* what each request in flight has still to do
  (* Observed, read by no handler. *)
  guesses,  \* wrong passwords judged since the account's last fresh start
  idle      \* time since the session last made a request that was let through

counters == <<count, windowed, local>>
rules == <<policy, cached>>
vars == <<redis, counters, locked, rules, session, req, guesses, idle>>

-----------------------------------------------------------------------------
\* The lastActive key: how long ago it was set, and for how long it was set.
Key == [age : Ages, life : Timeouts]
Session == [opened : BOOLEAN,
            live   : BOOLEAN,           \* ~revoked
            token  : BOOLEAN,           \* its refresh token is not revoked
            row    : Ages,              \* how long ago lastActiveAt is
            key    : Key \cup {None}]
Unopened == [opened |-> FALSE, live |-> FALSE, token |-> FALSE, row |-> 0, key |-> None]
Opened == [Unopened EXCEPT !.opened = TRUE, !.live = TRUE, !.token = TRUE]

Steps == {"idle", "network", "count", "lock", "clear", "policy", "store", "lookup",
          "touch", "row", "touchRow", "revoke", "revokeToken", "forget",
          "savePolicy", "invalidate"}

Request == [step    : Steps,
            who     : Accounts \cup {None},     \* the account logged in to
            from    : Networks \cup {None},
            right   : BOOLEAN,                  \* with the right password
            todo    : SUBSET Counters,          \* counters to be written
            fresh   : SUBSET Counters,          \* counters whose expiry is to be set
            seen    : 0..MaxCount,              \* the account's failures as counted
            session : Sessions \cup {None},
            gate    : {"timeout", "force"},     \* the middleware the request is in
            policy  : Policies \cup {None}]     \* the policy it goes by
Idle == [step |-> "idle", who |-> None, from |-> None, right |-> FALSE, todo |-> {},
         fresh |-> {}, seen |-> 0, session |-> None, gate |-> "timeout", policy |-> None]

TypeOK ==
  /\ redis \in BOOLEAN
  /\ count \in [Counters -> 0..MaxCount] /\ local \in [Counters -> 0..MaxCount]
  /\ windowed \subseteq {k \in Counters : count[k] > 0}
  /\ locked \subseteq Accounts
  /\ policy \in Policies /\ cached \in Policies \cup {None}
  /\ session \in [Sessions -> Session]
  /\ \A s \in Sessions : session[s].key # None => session[s].key.age < session[s].key.life
  /\ req \in [Requests -> Request]
  /\ guesses \in [Accounts -> 0..MaxCount]
  /\ idle \in [Sessions -> Ages]

Init ==
  /\ redis \in BOOLEAN
  /\ count = [k \in Counters |-> 0] /\ windowed = {} /\ local = [k \in Counters |-> 0]
  /\ locked = {}
  /\ policy \in Policies /\ cached = None
  /\ session = [s \in Sessions |-> Unopened]
  /\ req = [r \in Requests |-> Idle]
  /\ guesses = [a \in Accounts |-> 0]
  /\ idle = [s \in Sessions |-> 0]

At(r, step) == req[r].step = step
Hold(r, held) == req' = [req EXCEPT ![r] = held]
Go(r, step) == Hold(r, [req[r] EXCEPT !.step = step])
Respond(r) == Hold(r, Idle)
Accept(r, held) == At(r, "idle") /\ Hold(r, held)
Quiet == \A r \in Requests : At(r, "idle")

Up(n) == IF n < MaxCount THEN n + 1 ELSE n
Older(n) == IF n < MaxAge THEN n + 1 ELSE n

-----------------------------------------------------------------------------
(* Counters: increment and clear of loginSecurity, and the rate limiter.   *)

\* The number a counter came to goes to the request if it is its account's.
Seen(r, k, n) == IF k = req[r].who THEN n ELSE req[r].seen

CountLocally(r, k) ==
  /\ local' = [local EXCEPT ![k] = Up(@)]
  /\ Hold(r, [req[r] EXCEPT !.todo = @ \ {k}, !.fresh = @ \ {k},
                            !.seen = Seen(r, k, Up(local[k]))])

\* Mutated form: only an account's counter is given an expiry.
CountUnwindowed(r, k) ==
  /\ At(r, "count") /\ k \in req[r].todo /\ redis
  /\ count' = [count EXCEPT ![k] = Up(@)]
  /\ Hold(r, [req[r] EXCEPT !.todo = @ \ {k}, !.seen = Seen(r, k, Up(count[k])),
                            !.fresh = IF count[k] = 0 /\ k \in Accounts THEN @ \cup {k} ELSE @])
  /\ UNCHANGED <<redis, windowed, local, locked, rules, session, guesses, idle>>

Count(r, k) ==
  /\ At(r, "count") /\ k \in req[r].todo /\ redis
  /\ count' = [count EXCEPT ![k] = Up(@)]
  /\ Hold(r, [req[r] EXCEPT !.todo = @ \ {k}, !.seen = Seen(r, k, Up(count[k])),
                            !.fresh = IF count[k] = 0 THEN @ \cup {k} ELSE @])
  /\ UNCHANGED <<redis, windowed, local, locked, rules, session, guesses, idle>>

SetWindow(r, k) ==
  /\ At(r, "count") /\ k \in req[r].fresh /\ redis
  /\ windowed' = IF count[k] > 0 THEN windowed \cup {k} ELSE windowed
  /\ Hold(r, [req[r] EXCEPT !.fresh = @ \ {k}])
  /\ UNCHANGED <<redis, count, local, locked, rules, session, guesses, idle>>

\* Either call fails: what is counted in memory is what counts.
CountInMemory(r, k) ==
  /\ At(r, "count") /\ k \in req[r].todo \cup req[r].fresh /\ ~redis
  /\ CountLocally(r, k)
  /\ UNCHANGED <<redis, count, windowed, locked, rules, session, guesses, idle>>

Counted(r) == At(r, "count") /\ req[r].todo = {} /\ req[r].fresh = {}

\* A call meets the rate limiter, is counted, and goes on or is refused.
Call(r) ==
  /\ \E c \in Clients : Accept(r, [Idle EXCEPT !.step = "count", !.todo = {c}])
  /\ UNCHANGED <<redis, counters, locked, rules, session, guesses, idle>>

CallCounted(r) ==
  /\ Counted(r) /\ req[r].who = None
  /\ Respond(r)
  /\ UNCHANGED <<redis, counters, locked, rules, session, guesses, idle>>

WindowEnds(k) ==
  /\ \/ /\ k \in windowed
        /\ count' = [count EXCEPT ![k] = 0] /\ windowed' = windowed \ {k}
        /\ UNCHANGED local
     \/ /\ local[k] > 0
        /\ local' = [local EXCEPT ![k] = 0]
        /\ UNCHANGED <<count, windowed>>
  /\ guesses' = [a \in Accounts |-> IF a = k THEN 0 ELSE guesses[a]]
  /\ UNCHANGED <<redis, locked, rules, session, req, idle>>

-----------------------------------------------------------------------------
(* Logging in to an administrator's account.                               *)

\* The row is read: a locked account is refused.
LogIn(r) ==
  /\ \E a \in Accounts \ locked, n \in Networks, right \in BOOLEAN :
       Accept(r, [Idle EXCEPT !.step = "network", !.who = a, !.from = n, !.right = right,
                              !.todo = {a, n}])
  /\ UNCHANGED <<redis, counters, locked, rules, session, guesses, idle>>

Flagged(n) == (IF redis THEN count[n] ELSE local[n]) >= NetworkThreshold

NetworkFlagged(r) ==
  /\ At(r, "network")
  /\ Flagged(req[r].from)
  /\ Respond(r)
  /\ UNCHANGED <<redis, counters, locked, rules, session, guesses, idle>>

\* The password is compared.
Compare(r) ==
  /\ At(r, "network")
  /\ ~Flagged(req[r].from)
  /\ IF req[r].right THEN Go(r, "clear") /\ UNCHANGED guesses
     ELSE /\ Go(r, "count")
          /\ guesses' = [guesses EXCEPT ![req[r].who] = Up(@)]
  /\ UNCHANGED <<redis, counters, locked, rules, session, idle>>

\* Mutated form: one failure more is allowed.
RefuseLater(r) ==
  /\ Counted(r) /\ req[r].who # None /\ req[r].seen <= AccountThreshold
  /\ Respond(r)
  /\ UNCHANGED <<redis, counters, locked, rules, session, guesses, idle>>

Refuse(r) ==
  /\ Counted(r) /\ req[r].who # None /\ req[r].seen < AccountThreshold
  /\ Respond(r)
  /\ UNCHANGED <<redis, counters, locked, rules, session, guesses, idle>>

\* setLockedUntil; the counters have done their work and are cleared.
Lock(r) ==
  /\ Counted(r) /\ req[r].who # None /\ req[r].seen >= AccountThreshold
  /\ locked' = locked \cup {req[r].who}
  /\ Hold(r, [req[r] EXCEPT !.step = "clear", !.todo = {req[r].who, req[r].from}])
  /\ UNCHANGED <<redis, counters, rules, session, guesses, idle>>

Clear(r, k) ==
  /\ At(r, "clear") /\ k \in req[r].todo
  /\ local' = [local EXCEPT ![k] = 0]
  /\ IF redis THEN count' = [count EXCEPT ![k] = 0] /\ windowed' = windowed \ {k}
     ELSE UNCHANGED <<count, windowed>>
  /\ Hold(r, [req[r] EXCEPT !.todo = @ \ {k}])
  /\ guesses' = [a \in Accounts |-> IF a = k /\ req[r].right THEN 0 ELSE guesses[a]]
  /\ UNCHANGED <<redis, locked, rules, session, idle>>

\* createAuthSession, as long as there are sessions left to open.
Open ==
  IF \A s \in Sessions : session[s].opened THEN UNCHANGED session
  ELSE \E s \in Sessions :
         ~session[s].opened /\ session' = [session EXCEPT ![s] = Opened]

Cleared(r) ==
  /\ At(r, "clear") /\ req[r].todo = {}
  /\ IF req[r].right THEN Open ELSE UNCHANGED session
  /\ Respond(r)
  /\ UNCHANGED <<redis, counters, locked, rules, guesses, idle>>

\* lockedUntil passes, or a Super Admin clears it.
Unlock(a) ==
  /\ a \in locked
  /\ locked' = locked \ {a}
  /\ guesses' = [guesses EXCEPT ![a] = 0]
  /\ UNCHANGED <<redis, counters, rules, session, req, idle>>

-----------------------------------------------------------------------------
(* An admin request: enforceAdminSessionTimeout, then enforceTwoFactorPolicy. *)

\* The access token is good for itself: nobody asks whether the session is live.
Visit(r) ==
  /\ \E s \in Sessions :
       /\ session[s].opened
       /\ Accept(r, [Idle EXCEPT !.step = "policy", !.session = s])
  /\ UNCHANGED <<redis, counters, locked, rules, session, guesses, idle>>

\* The request is past its gate with what it holds, and let through after the last.
Pass(r) ==
  IF req[r].gate = "timeout"
  THEN /\ Hold(r, [req[r] EXCEPT !.step = "policy", !.gate = "force", !.policy = None])
       /\ idle' = [idle EXCEPT ![req[r].session] = 0]
  ELSE Respond(r) /\ UNCHANGED idle

\* What the gate does with the policy it was given: forced two-factor answers
\* at once, one way or the other, and so does a timeout that is off.
Apply(r, p) ==
  IF req[r].gate = "timeout" /\ p > 0
  THEN Hold(r, [req[r] EXCEPT !.step = "lookup", !.policy = p]) /\ UNCHANGED idle
  ELSE Pass(r)

PolicyHit(r) ==
  /\ At(r, "policy") /\ redis /\ cached # None
  /\ Apply(r, cached)
  /\ UNCHANGED <<redis, counters, locked, rules, session, guesses>>

ReadPolicy(r) ==
  /\ At(r, "policy") /\ (~redis \/ cached = None)
  /\ Hold(r, [req[r] EXCEPT !.step = "store", !.policy = policy])
  /\ UNCHANGED <<redis, counters, locked, rules, session, guesses, idle>>

StorePolicy(r) ==
  /\ At(r, "store")
  /\ cached' = IF redis THEN req[r].policy ELSE cached
  /\ Apply(r, req[r].policy)
  /\ UNCHANGED <<redis, counters, locked, policy, session, guesses>>

Limit(r) == req[r].policy
Of(r) == session[req[r].session]

\* Mutated form: a session is expired one moment too early.
LookUpEarly(r) ==
  /\ At(r, "lookup")
  /\ Go(r, IF ~redis THEN "row"
           ELSE IF Of(r).key # None /\ Of(r).key.age >= Limit(r) THEN "revoke"
           ELSE "touch")
  /\ UNCHANGED <<redis, counters, locked, rules, session, guesses, idle>>

LookUp(r) ==
  /\ At(r, "lookup")
  /\ Go(r, IF ~redis THEN "row"
           ELSE IF Of(r).key # None /\ Of(r).key.age > Limit(r) THEN "revoke"
           ELSE "touch")
  /\ UNCHANGED <<redis, counters, locked, rules, session, guesses, idle>>

\* Mutated form: the lifetime of the key is rounded down.
TouchShort(r) ==
  /\ At(r, "touch")
  /\ IF redis
     THEN /\ session' = [session EXCEPT ![req[r].session].key = [age |-> 0, life |-> Limit(r) - 1]]
          /\ Pass(r)
     ELSE Go(r, "row") /\ UNCHANGED <<session, idle>>
  /\ UNCHANGED <<redis, counters, locked, rules, guesses>>

\* SET ... EX timeout.
Touch(r) ==
  /\ At(r, "touch")
  /\ IF redis
     THEN /\ session' = [session EXCEPT ![req[r].session].key = [age |-> 0, life |-> Limit(r)]]
          /\ Pass(r)
     ELSE Go(r, "row") /\ UNCHANGED <<session, idle>>
  /\ UNCHANGED <<redis, counters, locked, rules, guesses>>

CheckRow(r) ==
  /\ At(r, "row")
  /\ IF ~Of(r).live THEN Respond(r)
     ELSE Go(r, IF Of(r).row > Limit(r) THEN "revoke" ELSE "touchRow")
  /\ UNCHANGED <<redis, counters, locked, rules, session, guesses, idle>>

TouchRow(r) ==
  /\ At(r, "touchRow")
  /\ session' = [session EXCEPT ![req[r].session].row = 0]
  /\ Pass(r)
  /\ UNCHANGED <<redis, counters, locked, rules, guesses>>

\* expireSession, whose steps each go on when they fail; the answer is 401.
Revoke(r) ==
  /\ At(r, "revoke")
  /\ \E done \in BOOLEAN : session' = [session EXCEPT ![req[r].session].live = @ /\ ~done]
  /\ Go(r, "revokeToken")
  /\ UNCHANGED <<redis, counters, locked, rules, guesses, idle>>

RevokeToken(r) ==
  /\ At(r, "revokeToken")
  /\ \E done \in BOOLEAN : session' = [session EXCEPT ![req[r].session].token = @ /\ ~done]
  /\ Go(r, "forget")
  /\ UNCHANGED <<redis, counters, locked, rules, guesses, idle>>

Forget(r) ==
  /\ At(r, "forget")
  /\ session' = [session EXCEPT ![req[r].session].key = IF redis THEN None ELSE @]
  /\ Respond(r)
  /\ UNCHANGED <<redis, counters, locked, rules, guesses, idle>>

\* The database fails: the middleware logs it and lets the request through.
FailOpen(r) ==
  /\ \/ At(r, "policy") /\ (~redis \/ cached = None)
     \/ At(r, "row") \/ At(r, "touchRow")
  /\ Pass(r)
  /\ UNCHANGED <<redis, counters, locked, rules, session, guesses>>

\* auth.service.refresh, by which a tab gets a session of its own making.
Renew(s) ==
  /\ session[s].token
  /\ \E t \in Sessions :
       /\ ~session[t].opened
       /\ session' = [session EXCEPT ![s].token = FALSE, ![t] = Opened]
  /\ UNCHANGED <<redis, counters, locked, rules, req, guesses, idle>>

\* updateSecuritySettings: the row, then the cache.
SavePolicy(r) ==
  /\ Accept(r, [Idle EXCEPT !.step = "invalidate"])
  /\ policy' \in Policies
  /\ UNCHANGED <<redis, counters, locked, cached, session, guesses, idle>>

Invalidate(r) ==
  /\ At(r, "invalidate")
  /\ cached' = IF redis THEN None ELSE cached
  /\ Respond(r)
  /\ UNCHANGED <<redis, counters, locked, policy, session, guesses, idle>>

-----------------------------------------------------------------------------
(* The environment.                                                        *)

CachedEnds ==
  /\ cached # None /\ cached' = None
  /\ UNCHANGED <<redis, counters, locked, policy, session, req, guesses, idle>>

Aged(s) ==
  LET key == session[s].key IN
    [session[s] EXCEPT !.row = Older(@),
                       !.key = IF key = None \/ key.age + 1 = key.life THEN None
                               ELSE [age |-> key.age + 1, life |-> key.life]]

Tick ==
  /\ Quiet
  /\ session' = [s \in Sessions |-> IF session[s].opened THEN Aged(s) ELSE session[s]]
  /\ idle' = [s \in Sessions |-> IF session[s].opened THEN Older(idle[s]) ELSE idle[s]]
  /\ UNCHANGED <<redis, counters, locked, rules, req, guesses>>

RedisTurns ==
  /\ redis' = ~redis
  /\ UNCHANGED <<counters, locked, rules, session, req, guesses, idle>>

\* The process stops: what it had in memory, and in hand, is gone.
Stop ==
  /\ req' = [r \in Requests |-> Idle]
  /\ local' = [k \in Counters |-> 0]
  /\ UNCHANGED <<redis, count, windowed, locked, rules, session, guesses, idle>>

-----------------------------------------------------------------------------
CountStep(r) ==
  \E k \in Counters : Count(r, k) \/ SetWindow(r, k) \/ CountInMemory(r, k) \/ Clear(r, k)
LoginStep(r) ==
  LogIn(r) \/ NetworkFlagged(r) \/ Compare(r) \/ Refuse(r) \/ Lock(r) \/ Cleared(r)
CallStep(r) == Call(r) \/ CallCounted(r)
VisitStep(r) ==
  \/ Visit(r) \/ PolicyHit(r) \/ ReadPolicy(r) \/ StorePolicy(r)
  \/ LookUp(r) \/ Touch(r) \/ CheckRow(r) \/ TouchRow(r)
  \/ Revoke(r) \/ RevokeToken(r) \/ Forget(r)
PolicyStep(r) == SavePolicy(r) \/ Invalidate(r)

Next ==
  \/ \E r \in Requests :
       \/ CountStep(r) \/ LoginStep(r) \/ CallStep(r) \/ VisitStep(r) \/ PolicyStep(r)
       \/ FailOpen(r)
  \/ \E k \in Counters : WindowEnds(k)
  \/ \E a \in Accounts : Unlock(a)
  \/ \E s \in Sessions : Renew(s)
  \/ CachedEnds \/ Tick \/ RedisTurns \/ Stop

Spec == Init /\ [][Next]_vars

-----------------------------------------------------------------------------
\* Between two fresh starts of an account fewer wrong passwords are judged than
\* the threshold and the requests in flight make together: those in flight when
\* the lock is set have passed the check on it (auth.service.ts:190).
GuessesBounded ==
  \A a \in Accounts : guesses[a] < AccountThreshold + Cardinality(Requests)

\* A counter that has no expiry set is about to have it set: none stays for
\* ever, to keep a network or a client out (loginSecurity.ts:52,
\* rateLimit.middleware.ts:74).
CountersDie ==
  \A k \in Counters :
    count[k] > 0 /\ k \notin windowed =>
      \E r \in Requests : At(r, "count") /\ k \in req[r].fresh

\* A step that expires a session expires one that has made no request for
\* longer than the timeout (securityPolicy.middleware.ts:126, :147).
ExpiresIdleOnly ==
  \A r \in Requests :
    ~At(r, "revoke") /\ req'[r].step = "revoke" => idle[req[r].session] > Limit(r)

\* A request goes on to be noted as activity only if the session has not been
\* idle for longer than the timeout ("Minutes of inactivity after which an
\* admin-tier session is force-expired", schema.prisma:591).
IdleRefused ==
  \A r \in Requests :
    At(r, "touch") \/ At(r, "touchRow") => idle[req[r].session] <= Limit(r)
=============================================================================
