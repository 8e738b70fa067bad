---------------------------- MODULE AuthSessions ----------------------------
(***************************************************************************)
(* The sessions of one account: login (with or without a two-factor        *)
(* challenge), refresh-token rotation, logout, password change and reset,  *)
(* and the administrators' actions that end sessions.                      *)
(*                                                                         *)
(* createAuthSession creates a Session row and then a RefreshToken row     *)
(* that names it, so one identity, a grant, stands for both rows.  Every   *)
(* database call of a handler commits on its own; a handler holds what it  *)
(* has read while others run.  A request whose guards fail changes nothing *)
(* and is not a step.  Access tokens are checked by signature alone and    *)
(* hold no state; what keeps a browser logged in is the refresh token.     *)
(***************************************************************************)
EXTENDS Naturals, FiniteSets

CONSTANTS
  Grants,        \* identities of Session rows and their refresh tokens
  ResetTokens,   \* identities of PasswordReset rows
  Requests,      \* requests about this account in flight at once
  None,          \* no row
  MaxPasswords,  \* bound: password changes
  MayFail        \* whether a handler may stop between two of its steps

ASSUME AuthAssumption ==
  /\ IsFiniteSet(Grants) /\ IsFiniteSet(Requests)
  /\ None \notin Grants \cup ResetTokens
  /\ MaxPasswords \in Nat
  /\ MayFail \in BOOLEAN

VARIABLES
  account,   \* User.status, Suspended standing for Blocked too
  password,  \* which password passwordHash is of, counted from 0
  session,   \* Session row of each grant
  token,     \* RefreshToken row of each grant
  reset,     \* PasswordReset rows
  req,       \* what each request in flight has still to do
  (* Observed, read by no handler. *)
  origin,    \* the grant a grant was refreshed from, and the password that
             \* was checked at the login it goes back to
  retired,   \* passwords below it were replaced by a change that completed
  uses       \* password updates made with each reset token

vars == <<account, password, session, token, reset, req, origin, retired, uses>>

AccountStates == {"Active", "Suspended", "Rejected", "Deleted"}
SessionStates == {"none", "live", "revoked"}
TokenStates == {"none", "live", "expired", "revoked", "deleted"}
ResetStates == {"none", "open", "used"}

Steps == {"idle", "challenge", "readUser", "rotate", "createSession",
          "createToken", "updatePassword", "markUsed", "closeResets",
          "createReset", "revokeSessions", "deleteTokens", "closeSessions",
          "suspendTeam", "revokeToken"}

Request == [step     : Steps,
            grant    : Grants \cup {None},      \* the grant presented or ended
            new      : Grants \cup {None},      \* the grant being created
            active   : BOOLEAN,                 \* User.status as read
            password : 0..MaxPasswords,         \* the password checked
            reset    : ResetTokens \cup {None}]

Idle == [step |-> "idle", grant |-> None, new |-> None, active |-> FALSE,
         password |-> 0, reset |-> None]

At(s, step) == req[s].step = step

\* Request s is accepted and goes on with what it holds.
Accept(s, held) == At(s, "idle") /\ req' = [req EXCEPT ![s] = held]

Continue(s, step) == req' = [req EXCEPT ![s].step = step]

Respond(s) == req' = [req EXCEPT ![s] = Idle]

rowVars == <<account, password, session, token, reset>>
observed == <<origin, retired, uses>>

-----------------------------------------------------------------------------
(* login, verifyTwoFactorLogin, createAuthSession.                         *)

\* The password matches and the account is active; with two-factor enabled a
\* challenge comes first.
BeginLogin(s) ==
  /\ account = "Active"
  /\ \E next \in {"createSession", "challenge"} :
       Accept(s, [Idle EXCEPT !.step = next, !.active = TRUE,
                              !.password = password])
  /\ UNCHANGED <<rowVars, observed>>

\* The code is right; the account is read again.
AnswerChallenge(s) ==
  /\ At(s, "challenge")
  /\ account = "Active"
  /\ Continue(s, "createSession")
  /\ UNCHANGED <<rowVars, observed>>

\* Mutated form: a revoked Session row is taken up again.
CreateSessionAgain(s) ==
  /\ At(s, "createSession")
  /\ account # "Deleted"
  /\ \E g \in Grants :
       /\ session[g] # "live"
       /\ session' = [session EXCEPT ![g] = "live"]
       /\ origin' = [origin EXCEPT ![g] = [from |-> req[s].grant,
                                           password |-> req[s].password]]
       /\ req' = [req EXCEPT ![s].step = "createToken", ![s].new = g]
  /\ UNCHANGED <<account, password, token, reset, retired, uses>>

CreateSession(s) ==
  /\ At(s, "createSession")
  /\ account # "Deleted"
  /\ \E g \in Grants :
       /\ session[g] = "none"
       /\ session' = [session EXCEPT ![g] = "live"]
       /\ origin' = [origin EXCEPT ![g] = [from |-> req[s].grant,
                                           password |-> req[s].password]]
       /\ req' = [req EXCEPT ![s].step = "createToken", ![s].new = g]
  /\ UNCHANGED <<account, password, token, reset, retired, uses>>

CreateToken(s) ==
  /\ At(s, "createToken")
  /\ account # "Deleted"
  /\ token' = [token EXCEPT ![req[s].new] = "live"]
  /\ Respond(s)
  /\ UNCHANGED <<account, password, session, reset, observed>>

-----------------------------------------------------------------------------
(* refresh, logout and the revocation of single sessions.                  *)

BeginRefresh(s, g) ==
  /\ token[g] = "live"
  /\ Accept(s, [Idle EXCEPT !.step = "readUser", !.grant = g,
                            !.password = origin[g].password])
  /\ UNCHANGED <<rowVars, observed>>

ReadUser(s) ==
  /\ At(s, "readUser")
  /\ account # "Deleted"
  /\ req' = [req EXCEPT ![s].step = "rotate", ![s].active = (account = "Active")]
  /\ UNCHANGED <<rowVars, observed>>

\* Mutated form: the status of the account is not looked at.
RotateUnchecked(s) ==
  /\ At(s, "rotate")
  /\ token[req[s].grant] # "deleted"
  /\ token' = [token EXCEPT ![req[s].grant] = "revoked"]
  /\ Continue(s, "createSession")
  /\ UNCHANGED <<account, password, session, reset, observed>>

\* The token is revoked, and only then is the account's status, as read,
\* looked at.  The update throws when the row was deleted.
Rotate(s) ==
  /\ At(s, "rotate")
  /\ token[req[s].grant] # "deleted"
  /\ token' = [token EXCEPT ![req[s].grant] = "revoked"]
  /\ IF req[s].active THEN Continue(s, "createSession") ELSE Respond(s)
  /\ UNCHANGED <<account, password, session, reset, observed>>

Logout(s, g) ==
  /\ At(s, "idle")
  /\ token[g] \notin {"none", "deleted"}
  /\ token' = [token EXCEPT ![g] = "revoked"]
  /\ UNCHANGED <<account, password, session, reset, req, observed>>

\* DELETE /auth/sessions/:id, and the sessions other than the one the caller
\* names, all of them when it names none.
RevokeSessions(s, ended) ==
  /\ At(s, "idle")
  /\ session' = [g \in Grants |-> IF g \in ended /\ session[g] = "live"
                                  THEN "revoked" ELSE session[g]]
  /\ UNCHANGED <<account, password, token, reset, req, observed>>

\* expireSession, for an administrator idle too long: the session, then its
\* token.
BeginExpireSession(s, g) ==
  /\ session[g] # "none"
  /\ Accept(s, [Idle EXCEPT !.step = "revokeToken", !.grant = g])
  /\ session' = [session EXCEPT ![g] = "revoked"]
  /\ UNCHANGED <<account, password, token, reset, observed>>

RevokeExpiredToken(s) ==
  /\ At(s, "revokeToken")
  /\ LET g == req[s].grant IN
       token' = [token EXCEPT ![g] = IF @ \in {"live", "expired"}
                                     THEN "revoked" ELSE @]
  /\ Respond(s)
  /\ UNCHANGED <<account, password, session, reset, observed>>

-----------------------------------------------------------------------------
(* changePassword, forgotPassword, resetPassword.                          *)

BeginChangePassword(s) ==
  /\ account # "Deleted"
  /\ Accept(s, [Idle EXCEPT !.step = "updatePassword"])
  /\ UNCHANGED <<rowVars, observed>>

BeginForgotPassword(s) ==
  /\ account # "Deleted"
  /\ Accept(s, [Idle EXCEPT !.step = "closeResets"])
  /\ UNCHANGED <<rowVars, observed>>

CloseResets(s) ==
  /\ At(s, "closeResets")
  /\ reset' = [r \in ResetTokens |-> IF reset[r] = "open" THEN "used" ELSE reset[r]]
  /\ Continue(s, "createReset")
  /\ UNCHANGED <<account, password, session, token, observed>>

CreateReset(s) ==
  /\ At(s, "createReset")
  /\ \E r \in ResetTokens :
       /\ reset[r] = "none"
       /\ reset' = [reset EXCEPT ![r] = "open"]
  /\ Respond(s)
  /\ UNCHANGED <<account, password, session, token, observed>>

BeginResetPassword(s, r) ==
  /\ account # "Deleted"
  /\ reset[r] = "open"
  /\ Accept(s, [Idle EXCEPT !.step = "updatePassword", !.reset = r])
  /\ UNCHANGED <<rowVars, observed>>

UpdatePassword(s) ==
  /\ At(s, "updatePassword")
  /\ account # "Deleted"
  /\ password < MaxPasswords
  /\ password' = password + 1
  /\ LET r == req[s].reset IN
       IF r = None
       THEN UNCHANGED uses /\ Continue(s, "revokeSessions")
       ELSE uses' = [uses EXCEPT ![r] = @ + 1] /\ Continue(s, "markUsed")
  /\ UNCHANGED <<account, session, token, reset, origin, retired>>

\* Mutated form: the reset stays open.
ForgetToMarkUsed(s) ==
  /\ At(s, "markUsed")
  /\ Continue(s, "revokeSessions")
  /\ UNCHANGED <<rowVars, observed>>

MarkUsed(s) ==
  /\ At(s, "markUsed")
  /\ reset' = [reset EXCEPT ![req[s].reset] = "used"]
  /\ Continue(s, "revokeSessions")
  /\ UNCHANGED <<account, password, session, token, observed>>

\* The last step of a password change or reset, and of a suspension.
RevokeAllSessions(s) ==
  /\ \/ At(s, "revokeSessions") /\ retired' = password
     \/ At(s, "closeSessions") /\ UNCHANGED retired
  /\ session' = [g \in Grants |-> IF session[g] = "live" THEN "revoked"
                                  ELSE session[g]]
  /\ Respond(s)
  /\ UNCHANGED <<account, password, token, reset, origin, uses>>

-----------------------------------------------------------------------------
(* The administrators: updateUserStatus, suspendCompany, verifyCompany,    *)
(* force-logout, deleteUser.                                               *)

Deleted(row) == IF row = "none" THEN "none" ELSE "deleted"

\* updateUserStatus to Suspended or Blocked.
Suspend(s) ==
  /\ account # "Deleted"
  /\ account' = "Suspended"
  /\ Accept(s, [Idle EXCEPT !.step = "deleteTokens"])
  /\ UNCHANGED <<password, session, token, reset, observed>>

\* Mutated form: the tokens are left.
KeepTokens(s) ==
  /\ At(s, "deleteTokens")
  /\ Continue(s, "closeSessions")
  /\ UNCHANGED <<rowVars, observed>>

DeleteTokens(s) ==
  /\ At(s, "deleteTokens")
  /\ token' = [g \in Grants |-> Deleted(token[g])]
  /\ Continue(s, "closeSessions")
  /\ UNCHANGED <<account, password, session, reset, observed>>

\* The recruiters to suspend are read before the transaction that suspends
\* them and deletes their tokens.
BeginSuspendCompany(s) ==
  /\ account = "Active"
  /\ Accept(s, [Idle EXCEPT !.step = "suspendTeam"])
  /\ UNCHANGED <<rowVars, observed>>

SuspendTeam(s) ==
  /\ At(s, "suspendTeam")
  /\ account # "Deleted"
  /\ account' = "Suspended"
  /\ token' = [g \in Grants |-> Deleted(token[g])]
  /\ session' = [g \in Grants |-> IF session[g] = "live" THEN "revoked"
                                  ELSE session[g]]
  /\ Respond(s)
  /\ UNCHANGED <<password, reset, observed>>

\* Reactivation, or the rejection of a recruiter with the company; neither
\* touches sessions or tokens.
SetStatus(s, status) ==
  /\ At(s, "idle")
  /\ account # "Deleted"
  /\ account' = status
  /\ UNCHANGED <<password, session, token, reset, req, observed>>

ForceLogout(s) ==
  /\ At(s, "idle")
  /\ token' = [g \in Grants |-> Deleted(token[g])]
  /\ UNCHANGED <<account, password, session, reset, req, observed>>

\* Deleting the user cascades to its sessions and tokens.
DeleteUser(s) ==
  /\ At(s, "idle")
  /\ account # "Deleted"
  /\ account' = "Deleted"
  /\ token' = [g \in Grants |-> Deleted(token[g])]
  /\ session' = [g \in Grants |-> IF session[g] = "none" THEN "none" ELSE "revoked"]
  /\ UNCHANGED <<password, reset, req, observed>>

\* Seven days have passed.
ExpireToken(g) ==
  /\ token[g] = "live"
  /\ token' = [token EXCEPT ![g] = "expired"]
  /\ UNCHANGED <<account, password, session, reset, req, observed>>

\* A handler throws between two of its steps; what it wrote stays.
Fail(s) ==
  /\ MayFail
  /\ ~At(s, "idle")
  /\ Respond(s)
  /\ UNCHANGED <<rowVars, observed>>

-----------------------------------------------------------------------------
Init ==
  /\ account = "Active"
  /\ password = 0
  /\ session = [g \in Grants |-> "none"]
  /\ token = [g \in Grants |-> "none"]
  /\ reset = [r \in ResetTokens |-> "none"]
  /\ req = [s \in Requests |-> Idle]
  /\ origin = [g \in Grants |-> [from |-> None, password |-> 0]]
  /\ retired = 0
  /\ uses = [r \in ResetTokens |-> 0]

HolderStep(s) ==
  \/ BeginLogin(s)
  \/ AnswerChallenge(s)
  \/ CreateSession(s)
  \/ CreateToken(s)
  \/ \E g \in Grants : BeginRefresh(s, g) \/ Logout(s, g)
  \/ ReadUser(s)
  \/ Rotate(s)
  \/ \E g \in Grants : RevokeSessions(s, {g}) \/ RevokeSessions(s, Grants \ {g})
  \/ RevokeSessions(s, Grants)

PasswordStep(s) ==
  \/ BeginChangePassword(s)
  \/ BeginForgotPassword(s)
  \/ CloseResets(s)
  \/ CreateReset(s)
  \/ \E r \in ResetTokens : BeginResetPassword(s, r)
  \/ UpdatePassword(s)
  \/ MarkUsed(s)
  \/ RevokeAllSessions(s)

AdminStep(s) ==
  \/ Suspend(s)
  \/ DeleteTokens(s)
  \/ BeginSuspendCompany(s)
  \/ SuspendTeam(s)
  \/ \E status \in {"Active", "Rejected"} : SetStatus(s, status)
  \/ ForceLogout(s)
  \/ DeleteUser(s)
  \/ \E g \in Grants : BeginExpireSession(s, g)
  \/ RevokeExpiredToken(s)

Next ==
  \/ \E s \in Requests : HolderStep(s) \/ PasswordStep(s) \/ AdminStep(s) \/ Fail(s)
  \/ \E g \in Grants : ExpireToken(g)

Spec == Init /\ [][Next]_vars

-----------------------------------------------------------------------------
(* Properties.                                                             *)

\* The rows, the requests in flight and the observations have the shape the
\* handlers expect (one type invariant for the module).
TypeOK ==
  /\ account \in AccountStates
  /\ password \in 0..MaxPasswords
  /\ session \in [Grants -> SessionStates]
  /\ token \in [Grants -> TokenStates]
  /\ reset \in [ResetTokens -> ResetStates]
  /\ req \in [Requests -> Request]
  /\ origin \in [Grants -> [from : Grants \cup {None}, password : 0..MaxPasswords]]
  /\ retired \in 0..MaxPasswords
  /\ uses \in [ResetTokens -> Nat]

Live == {g \in Grants : token[g] = "live"}

\* A refresh token that was rotated, logged out, expired or deleted is never
\* accepted again, whatever logins and refreshes are in flight.
TokensNeverRevive ==
  [][\A g \in Grants :
       token[g] \in {"expired", "revoked", "deleted"} => g \notin Live']_vars

\* The requests that will still store a token.
Minting ==
  {s \in Requests : \/ req[s].step \in {"createSession", "createToken"}
                    \/ At(s, "rotate") /\ req[s].active}

\* From the moment an account is no longer active, the tokens it has or will
\* get from requests in flight only dwindle: no login and no refresh, however
\* they overlap, adds one (assertAccountActive on every path to a session).
BarredAccountsDwindle ==
  [][account # "Active" /\ account' # "Active"
       => Cardinality(Live') + Cardinality(Minting')
            <= Cardinality(Live) + Cardinality(Minting)]_vars

\* A reset token sets the password at most once ("a single-use token").
ResetSingleUse ==
  \A r \in ResetTokens : uses[r] <= 1

\* Once a suspension has completed and nothing is in flight, no refresh token
\* of the account is live ("revokes all active session refresh tokens").
SuspendedLoggedOut ==
  account = "Suspended" /\ (\A s \in Requests : At(s, "idle")) => Live = {}

\* After a password change or reset has completed, nothing that goes back to
\* a login with an earlier password can be refreshed ("should not leave stale
\* sessions from a potentially-compromised credential still valid").
OldPasswordsRetired ==
  \A g \in Live : origin[g].password >= retired

\* The live tokens as a SessionLedger.
Ledger == INSTANCE SessionLedger WITH
  active <- account = "Active",
  live <- Live,
  issued <- {g \in Grants : token[g] # "none"}
=============================================================================
