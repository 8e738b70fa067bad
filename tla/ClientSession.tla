---------------------------- MODULE ClientSession ----------------------------
(***************************************************************************)
(* The session of one browser tab: the API client that retries a refused   *)
(* call after refreshing the access token, the session context that        *)
(* refreshes on its own when a page loads, the refresh cookie and the      *)
(* token in the local storage, and the live socket.                        *)
(*                                                                         *)
(* An access token is the account it speaks for, or none.  A grant is a    *)
(* refresh token; one that nobody refers to any more may be minted again.  *)
(* The server's side of a refresh is one step here; AuthSessions takes it  *)
(* apart.  JavaScript runs to completion, so a step of the page ends at an *)
(* await.  The answers of a refresh are under way between two steps; those *)
(* of other calls are taken up in the step that gives them, since what     *)
(* they say does not change on the way.                                    *)
(***************************************************************************)
EXTENDS Naturals

CONSTANTS
  Accounts,   \* the accounts the tab may log in to
  Serials,    \* what tells the grants of one account apart
  Calls,      \* API calls the pages have in flight at once
  Tells,      \* GET /auth/me the client's refreshes have caused, in flight at once
  NoAccount,  \* nobody
  NoGrant     \* no token, no cookie

Grants == Accounts \X Serials

\* The slot "boot" holds the GET /auth/me that refreshSession waits for.
Slots == Calls \cup Tells \cup {"boot"}

ASSUME ClientAssumption ==
  /\ NoAccount \notin Accounts
  /\ NoGrant \notin Grants
  /\ Calls \cap Tells = {} /\ "boot" \notin Calls \cup Tells

VARIABLES
  (* The server. *)
  valid,    \* refresh tokens that are neither revoked nor expired
  (* What outlives the page. *)
  cookie,   \* the refresh cookie
  jwt,      \* jwt_token in the local storage
  (* The page. *)
  user,     \* the user of the session context
  socket,   \* the account whose token opened the live socket
  expired,  \* sessionExpiredDispatched
  flight,   \* refreshInFlight, the refresh of the API client
  boot,     \* refreshSessionInFlight, the refresh of the session context
  call      \* calls in flight

storeVars == <<cookie, jwt>>
pageVars == <<user, socket, expired, flight, boot, call>>
vars == <<valid, storeVars, pageVars>>

\* A call carries the access token of account who; a login is for account who.
CallRecord == [kind  : {"none", "api", "me", "login", "verify", "logout"},
               phase : {"idle", "sent", "waiting"},
               who   : Accounts \cup {NoAccount},
               retry : BOOLEAN]

NoCall == [kind |-> "none", phase |-> "idle", who |-> NoAccount, retry |-> FALSE]

\* A refresh holds the cookie the browser sent and, answered, the new grant.
Refresh == [phase : {"none", "sent", "answered", "stored", "syncing"},
            token : Grants \cup {NoGrant}]

NoRefresh == [phase |-> "none", token |-> NoGrant]

TypeOK ==
  /\ valid \subseteq Grants
  /\ cookie \in Grants \cup {NoGrant} /\ jwt \in Accounts \cup {NoAccount}
  /\ user \in Accounts \cup {NoAccount} /\ socket \in Accounts \cup {NoAccount}
  /\ expired \in BOOLEAN
  /\ flight \in Refresh /\ flight.phase # "syncing"
  /\ boot \in Refresh /\ boot.phase # "stored"
  /\ call \in [Slots -> CallRecord]
  /\ \A c \in Slots : call[c].phase = "idle" => call[c] = NoCall

Asking(c) == [phase |-> "sent", token |-> c]

Answered(g) == [phase |-> "answered", token |-> g]

\* A page load with nobody logged in: the session context asks at once.
Init ==
  /\ valid = {}
  /\ cookie = NoGrant /\ jwt = NoAccount
  /\ user = NoAccount /\ socket = NoAccount /\ expired = FALSE
  /\ flight = NoRefresh /\ boot = Asking(NoGrant)
  /\ call = [c \in Slots |-> NoCall]

-----------------------------------------------------------------------------
(* Shorthands.                                                             *)

\* Grants nobody refers to: each may be minted as if for the first time.
Unused ==
  Grants \ {cookie, flight.token, boot.token}

NewGrant(a) == CHOOSE g \in Unused : g[1] = a

\* createAuthSession: a new grant for account a, the tokens in Gone revoked.
Mint(a, Gone) ==
  /\ \E g \in Unused : g[1] = a
  /\ valid' = (valid \ (Gone \cup Unused)) \cup {NewGrant(a)}

OwnerOf(g) == IF g = NoGrant THEN NoAccount ELSE g[1]

Send(kind, a) == [NoCall EXCEPT !.kind = kind, !.phase = "sent", !.who = a]

FreeTells == {t \in Tells : call[t].phase = "idle"}

Waiting == {c \in Slots : call[c].phase = "waiting"}

\* The socket is opened with the token of the moment when somebody becomes
\* the user, and closed when nobody is; the same instance serves a change.
SetUser(u) ==
  /\ user' = u
  /\ socket' = IF u = NoAccount THEN NoAccount
               ELSE IF socket = NoAccount THEN jwt' ELSE socket

\* The calls of Done return to their callers; refreshSession returns with the
\* GET /auth/me it waits for.
Settle(Done) ==
  /\ call' = [c \in Slots |-> IF c \in Done THEN NoCall ELSE call[c]]
  /\ boot' = IF boot.phase = "syncing" /\ "boot" \in Done THEN NoRefresh ELSE boot

-----------------------------------------------------------------------------
(* Calls of the API client.                                                *)

Request(c) ==
  /\ user # NoAccount
  /\ call[c].phase = "idle"
  /\ call' = [call EXCEPT ![c] = Send("api", jwt)]
  /\ UNCHANGED <<valid, storeVars, user, socket, expired, flight, boot>>

\* The call returns.  The server looks at the signature of the access token
\* only; GET /auth/me names the user the token was minted for.
ReturnCall(c) ==
  /\ call[c].phase = "sent" /\ call[c].kind \in {"api", "me"}
  /\ call[c].who # NoAccount
  /\ Settle({c})
  /\ UNCHANGED <<valid, storeVars, expired, flight>>
  /\ IF call[c].kind = "me" THEN SetUser(call[c].who) ELSE UNCHANGED <<user, socket>>

\* The call throws: fetch rejects, the answer is an error, or a second 401.
ThrowCall(c) ==
  /\ call[c].phase = "sent" /\ call[c].kind # "logout"
  /\ Settle({c})
  /\ UNCHANGED <<valid, storeVars, user, socket, expired, flight>>

\* Answers 401: there is no token or it is too old, as any may be by now; or
\* the code was wrong, and /auth/2fa/verify is not among the endpoints the
\* client does not refresh for (AUTH_ENDPOINTS_NO_RETRY).
Refused(c) ==
  call[c].phase = "sent" /\ call[c].kind \in {"api", "me", "verify"} /\ ~call[c].retry

\* Mutated form: every refused call asks for a refresh of its own.
RefreshUnshared(c) ==
  /\ Refused(c)
  /\ call' = [call EXCEPT ![c].phase = "waiting"]
  /\ flight' = Asking(cookie)
  /\ UNCHANGED <<valid, storeVars, user, socket, expired, boot>>

\* Mutated form: the call that starts the refresh does not wait for it.
RefreshUnawaited(c) ==
  /\ Refused(c)
  /\ call' = [call EXCEPT ![c].phase = "waiting"]
  /\ UNCHANGED <<valid, storeVars, user, socket, expired, flight, boot>>

\* A refused call waits for the refresh in flight, or starts it.
AwaitRefresh(c) ==
  /\ Refused(c)
  /\ call' = [call EXCEPT ![c].phase = "waiting"]
  /\ flight' = IF flight.phase = "none" THEN Asking(cookie) ELSE flight
  /\ UNCHANGED <<valid, storeVars, user, socket, expired, boot>>

-----------------------------------------------------------------------------
(* POST /auth/refresh, asked by the API client or by the session context.  *)

\* The token is revoked and a grant minted for the same account, or refused.
Rotate(asked, answered) ==
  /\ asked.phase = "sent"
  /\ \/ /\ asked.token \in valid
        /\ Mint(OwnerOf(asked.token), {asked.token})
        /\ answered = Answered(NewGrant(OwnerOf(asked.token)))
     \/ /\ asked.token \notin valid
        /\ UNCHANGED valid
        /\ answered = Answered(NoGrant)

\* The answer is lost, or the rate limiter or an error stands in for it.
Lost(asked, answered) ==
  /\ asked.phase \in {"sent", "answered"}
  /\ answered = Answered(NoGrant)
  /\ answered # asked

ServeFlight ==
  /\ Rotate(flight, flight')
  /\ UNCHANGED <<storeVars, user, socket, expired, boot, call>>

LoseFlight ==
  /\ Lost(flight, flight')
  /\ UNCHANGED <<valid, storeVars, user, socket, expired, boot, call>>

StoreToken ==
  /\ flight.phase = "answered" /\ flight.token # NoGrant
  /\ cookie' = flight.token /\ jwt' = OwnerOf(flight.token)
  /\ flight' = [flight EXCEPT !.phase = "stored"]
  /\ UNCHANGED <<valid, user, socket, expired, boot, call>>

\* The socket module is loaded: the live socket gets the token, the session
\* context is told and asks who the user is, and every waiting call is sent
\* again, once, with the token the local storage holds by now.  (Bound: with
\* every slot of Tells busy the context asks no further time.)
ResumeCalls ==
  /\ flight.phase = "stored"
  /\ socket' = IF socket = NoAccount THEN NoAccount ELSE OwnerOf(flight.token)
  /\ call' = [c \in Slots |->
                IF c \in FreeTells /\ c = CHOOSE t \in FreeTells : TRUE
                THEN Send("me", jwt)
                ELSE IF c \in Waiting
                THEN [call[c] EXCEPT !.phase = "sent", !.retry = TRUE,
                        !.who = IF call[c].kind = "verify" THEN @ ELSE jwt]
                ELSE call[c]]
  /\ flight' = NoRefresh
  /\ UNCHANGED <<valid, storeVars, user, expired, boot>>

\* The refresh failed: the waiting calls throw, and the first of them to do
\* so since the page was loaded clears the session (handleSessionExpired).
FailRefresh ==
  /\ flight.phase = "answered" /\ flight.token = NoGrant
  /\ flight' = NoRefresh
  /\ Settle(Waiting)
  /\ expired' = TRUE
  /\ jwt' = IF expired THEN jwt ELSE NoAccount
  /\ IF expired THEN UNCHANGED <<user, socket>> ELSE SetUser(NoAccount)
  /\ UNCHANGED <<valid, cookie>>

-----------------------------------------------------------------------------
(* The session context: refreshSession, login, logout.                     *)

\* The settings pages call refreshSession too; a second caller shares the
\* first one's promise.
RefreshSession ==
  /\ user # NoAccount /\ boot.phase = "none"
  /\ boot' = Asking(cookie)
  /\ UNCHANGED <<valid, storeVars, user, socket, expired, flight, call>>

ServeBoot ==
  /\ Rotate(boot, boot')
  /\ UNCHANGED <<storeVars, user, socket, expired, flight, call>>

LoseBoot ==
  /\ Lost(boot, boot')
  /\ UNCHANGED <<valid, storeVars, user, socket, expired, flight, call>>

SyncUser ==
  /\ boot.phase = "answered" /\ boot.token # NoGrant
  /\ cookie' = boot.token /\ jwt' = OwnerOf(boot.token)
  /\ call' = [call EXCEPT !["boot"] = Send("me", OwnerOf(boot.token))]
  /\ boot' = [NoRefresh EXCEPT !.phase = "syncing"]
  /\ UNCHANGED <<valid, user, socket, expired, flight>>

FailBoot ==
  /\ boot.phase = "answered" /\ boot.token = NoGrant
  /\ boot' = NoRefresh
  /\ jwt' = NoAccount
  /\ SetUser(NoAccount)
  /\ UNCHANGED <<valid, cookie, expired, flight, call>>

\* POST /auth/login or, with a second factor enrolled, the POST
\* /auth/2fa/verify that follows it; the form submits one at a time.
Login(c, kind, a) ==
  /\ user = NoAccount
  /\ \A d \in Calls : call[d].kind \notin {"login", "verify"}
  /\ call[c].phase = "idle"
  /\ call' = [call EXCEPT ![c] = Send(kind, a)]
  /\ UNCHANGED <<valid, storeVars, user, socket, expired, flight, boot>>

LoggedIn(c) ==
  /\ call[c].phase = "sent" /\ call[c].kind \in {"login", "verify"}
  /\ Mint(call[c].who, {})
  /\ cookie' = NewGrant(call[c].who) /\ jwt' = call[c].who
  /\ Settle({c})
  /\ SetUser(call[c].who)
  /\ UNCHANGED <<expired, flight>>

Logout(c) ==
  /\ user # NoAccount
  /\ call[c].phase = "idle"
  /\ call' = [call EXCEPT ![c] = Send("logout", NoAccount)]
  /\ UNCHANGED <<valid, storeVars, user, socket, expired, flight, boot>>

\* Mutated form: the token stays in the local storage.
LoggedOutKeepingToken(c, answered) ==
  /\ call[c].phase = "sent" /\ call[c].kind = "logout"
  /\ Settle({c})
  /\ cookie' = IF answered THEN NoGrant ELSE cookie
  /\ SetUser(NoAccount)
  /\ UNCHANGED <<valid, jwt, expired, flight>>

\* The cookie's path is /api/v1/auth/refresh, so it does not come with the
\* logout, whose handler finds no token to revoke; the answer clears it.
\* Answered or not, the page forgets the session.
LoggedOut(c, answered) ==
  /\ call[c].phase = "sent" /\ call[c].kind = "logout"
  /\ Settle({c})
  /\ cookie' = IF answered THEN NoGrant ELSE cookie
  /\ jwt' = NoAccount
  /\ SetUser(NoAccount)
  /\ UNCHANGED <<valid, expired, flight>>

-----------------------------------------------------------------------------
(* Around the page.                                                        *)

\* The account is suspended, or its refresh tokens run out.
Revoke(a) ==
  /\ valid' = {g \in valid : OwnerOf(g) # a}
  /\ UNCHANGED <<storeVars, pageVars>>

\* The page is loaded again; answers still under way are lost with it.
Reload ==
  /\ user' = NoAccount /\ socket' = NoAccount /\ expired' = FALSE
  /\ flight' = NoRefresh /\ boot' = Asking(cookie)
  /\ call' = [c \in Slots |-> NoCall]
  /\ UNCHANGED <<valid, storeVars>>

-----------------------------------------------------------------------------
\* The answer that comes when nothing goes wrong.
CallStep(c) ==
  \/ ReturnCall(c) \/ AwaitRefresh(c) \/ LoggedIn(c) \/ LoggedOut(c, TRUE)
  \/ call[c].retry /\ ThrowCall(c)

FlightStep == ServeFlight \/ StoreToken \/ ResumeCalls \/ FailRefresh

BootStep == ServeBoot \/ SyncUser \/ FailBoot

LoginStep ==
  \/ \E c \in Calls, kind \in {"login", "verify"}, a \in Accounts : Login(c, kind, a)
  \/ \E c \in Calls : Logout(c)
  \/ RefreshSession

LossStep ==
  \/ LoseFlight \/ LoseBoot
  \/ \E c \in Slots : ThrowCall(c) \/ LoggedOut(c, FALSE)

Next ==
  \/ \E c \in Calls : Request(c)
  \/ LoginStep
  \/ \E c \in Slots : CallStep(c)
  \/ FlightStep \/ BootStep \/ LossStep
  \/ \E a \in Accounts : Revoke(a)
  \/ Reload

\* The server answers and the page's callbacks run; users and faults need not.
Fairness ==
  /\ \A c \in Slots : WF_vars(CallStep(c))
  /\ WF_vars(FlightStep)
  /\ WF_vars(BootStep)

Spec == Init /\ [][Next]_vars

-----------------------------------------------------------------------------
(* Properties.                                                             *)

\* A call that waits for a refresh waits for one that is under way: no call
\* joins refreshInFlight after it was settled and is left hanging.
WaitersHaveAFlight == Waiting # {} => flight.phase # "none"

\* Every call made through the client returns or throws, whatever expires,
\* is refused or is revoked meanwhile: it is retried at most once.
EveryCallSettles ==
  \A c \in Slots : call[c].phase # "idle" ~> call[c].phase = "idle"

\* Nothing is under way.
Quiet ==
  /\ flight.phase = "none" /\ boot.phase = "none"
  /\ \A c \in Slots : call[c].phase = "idle"

\* The user shown, the token stored and the live socket belong to one account,
\* or there is neither user nor token nor socket.
TabAgrees ==
  socket = user /\ jwt = user
=============================================================================
