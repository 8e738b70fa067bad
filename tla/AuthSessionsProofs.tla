------------------------- MODULE AuthSessionsProofs -------------------------
(***************************************************************************)
(* Proofs about AuthSessions for every number of grants, reset tokens,     *)
(* overlapping requests and passwords.                                     *)
(*                                                                         *)
(* A token could only be stored twice if two requests were creating the    *)
(* same grant, or one were creating a grant that has had a token.  The     *)
(* inductive invariant IInv rules both out: a Session row comes first, and *)
(* it belongs to the one request that created it until its token is        *)
(* stored.  A barred account's tokens dwindle for no further reason: what  *)
(* a request may still store is counted by Minting, and storing it trades  *)
(* one for the other.                                                      *)
(*                                                                         *)
(* What holds of requests that come one at a time only is proved of MCSpec *)
(* under its loads: RunInv adds that at most one request is in flight and  *)
(* that an account which was active when it was looked at still is; and    *)
(* when no request stops half way, what a reset and a suspension have done *)
(* so far.                                                                 *)
(***************************************************************************)
EXTENDS MCAuthSessions, FiniteSetTheorems, TLAPS

\* A token is stored only for a session that was created.
SessionsComeFirst ==
  \A g \in Grants : token[g] # "none" => session[g] # "none"

\* The grant a request is creating has its session and has had no token.
NewGrantsFresh ==
  \A s \in Requests : At(s, "createToken") =>
    /\ req[s].new \in Grants
    /\ session[req[s].new] # "none"
    /\ token[req[s].new] = "none"

\* No two requests are creating the same grant.
NewGrantsDistinct ==
  \A s, t \in Requests :
    At(s, "createToken") /\ At(t, "createToken") /\ req[s].new = req[t].new
      => s = t

\* The requests that refresh, end or reset something know what; a refresh
\* presents a token that was stored.
RequestsNamed ==
  \A s \in Requests :
    /\ req[s].step \in {"readUser", "rotate"} =>
         req[s].grant \in Grants /\ token[req[s].grant] # "none"
    /\ At(s, "revokeToken") => req[s].grant \in Grants
    /\ At(s, "markUsed") => req[s].reset \in ResetTokens

IInv ==
  /\ TypeOK
  /\ SessionsComeFirst
  /\ NewGrantsFresh
  /\ NewGrantsDistinct
  /\ RequestsNamed

-----------------------------------------------------------------------------
(* What the helpers do to the requests.                                    *)

LEMMA IdleTyped == Idle \in Request /\ Idle.step = "idle"
BY AuthAssumption DEF Idle, Request, Steps

LEMMA AcceptEffect ==
  ASSUME TypeOK, NEW s \in Requests, NEW held \in Request, Accept(s, held)
  PROVE  /\ req' \in [Requests -> Request]
         /\ req[s].step = "idle"
         /\ req'[s] = held
         /\ \A t \in Requests \ {s} : req'[t] = req[t]
BY DEF TypeOK, Accept, At

LEMMA ContinueEffect ==
  ASSUME TypeOK, NEW s \in Requests, NEW step \in Steps, Continue(s, step)
  PROVE  /\ req' \in [Requests -> Request]
         /\ req'[s].step = step
         /\ req'[s].grant = req[s].grant /\ req'[s].new = req[s].new
         /\ req'[s].reset = req[s].reset
         /\ \A t \in Requests \ {s} : req'[t] = req[t]
<1>1. req[s] \in Request /\ req'[s] = [req[s] EXCEPT !.step = step]
  BY DEF TypeOK, Continue
<1>2. req'[s] \in Request
  BY <1>1 DEF Request
<1>3. QED
  BY <1>1, <1>2 DEF TypeOK, Continue, Request

LEMMA RespondEffect ==
  ASSUME TypeOK, NEW s \in Requests, Respond(s)
  PROVE  /\ req' \in [Requests -> Request]
         /\ req'[s] = Idle
         /\ \A t \in Requests \ {s} : req'[t] = req[t]
BY IdleTyped DEF TypeOK, Respond

-----------------------------------------------------------------------------
(* Every step keeps the types.                                             *)

LEMMA LoginTyped ==
  ASSUME TypeOK, NEW s \in Requests, HolderStep(s)
  PROVE  TypeOK'
<1> USE AuthAssumption
<1>1. CASE BeginLogin(s)
  <2>1. PICK next \in {"createSession", "challenge"} :
          Accept(s, [Idle EXCEPT !.step = next, !.active = TRUE, !.password = password])
    BY <1>1 DEF BeginLogin
  <2>2. [Idle EXCEPT !.step = next, !.active = TRUE, !.password = password] \in Request
    BY DEF Idle, Request, Steps, TypeOK
  <2>3. QED
    BY <1>1, <2>1, <2>2, AcceptEffect DEF BeginLogin, rowVars, observed, TypeOK
<1>2. CASE AnswerChallenge(s)
  <2>1. req' \in [Requests -> Request]
    BY <1>2, ContinueEffect DEF AnswerChallenge, Steps
  <2>2. QED
    BY <1>2, <2>1 DEF AnswerChallenge, rowVars, observed, TypeOK
<1>3. CASE CreateSession(s)
  <2>1. PICK g \in Grants :
          /\ session' = [session EXCEPT ![g] = "live"]
          /\ origin' = [origin EXCEPT ![g] = [from |-> req[s].grant,
                                              password |-> req[s].password]]
          /\ req' = [req EXCEPT ![s].step = "createToken", ![s].new = g]
    BY <1>3 DEF CreateSession
  <2>2. req[s] \in Request
    BY DEF TypeOK
  <2>3. req'[s] = [req[s] EXCEPT !.step = "createToken", !.new = g]
    BY <2>1 DEF TypeOK
  <2>4. req'[s] \in Request
    BY <2>2, <2>3 DEF Request, Steps
  <2>5. req' \in [Requests -> Request]
    BY <2>1, <2>4 DEF TypeOK
  <2>6. [from |-> req[s].grant, password |-> req[s].password]
          \in [from : Grants \cup {None}, password : 0..MaxPasswords]
    BY <2>2 DEF Request
  <2>7. QED
    BY <1>3, <2>1, <2>5, <2>6 DEF CreateSession, TypeOK, SessionStates
<1>4. CASE CreateToken(s)
  <2>1. req' \in [Requests -> Request]
    BY <1>4, RespondEffect DEF CreateToken
  <2>2. QED
    BY <1>4, <2>1 DEF CreateToken, TypeOK, TokenStates, observed
<1>5. ASSUME NEW g \in Grants, BeginRefresh(s, g)
      PROVE  TypeOK'
  <2>1. [Idle EXCEPT !.step = "readUser", !.grant = g,
                     !.password = origin[g].password] \in Request
    BY DEF Idle, Request, Steps, TypeOK
  <2>2. req' \in [Requests -> Request]
    BY <1>5, <2>1, AcceptEffect DEF BeginRefresh
  <2>3. QED
    BY <1>5, <2>2 DEF BeginRefresh, rowVars, observed, TypeOK
<1>6. ASSUME NEW g \in Grants, Logout(s, g)
      PROVE  TypeOK'
  BY <1>6 DEF Logout, observed, TypeOK, TokenStates
<1>7. CASE ReadUser(s)
  <2>1. req[s] \in Request
    BY DEF TypeOK
  <2>2. req'[s] = [req[s] EXCEPT !.step = "rotate", !.active = (account = "Active")]
    BY <1>7 DEF ReadUser, TypeOK
  <2>3. req'[s] \in Request
    BY <2>1, <2>2 DEF Request, Steps
  <2>4. req' \in [Requests -> Request]
    BY <1>7, <2>3 DEF ReadUser, TypeOK
  <2>5. QED
    BY <1>7, <2>4 DEF ReadUser, rowVars, observed, TypeOK
<1>8. CASE Rotate(s)
  <2>1. req' \in [Requests -> Request]
    BY <1>8, ContinueEffect, RespondEffect DEF Rotate, Steps
  <2>2. QED
    BY <1>8, <2>1 DEF Rotate, observed, TypeOK, TokenStates
<1>9. ASSUME NEW ended, RevokeSessions(s, ended)
      PROVE  TypeOK'
  BY <1>9 DEF RevokeSessions, observed, TypeOK, SessionStates
<1>10. QED
  BY <1>1, <1>2, <1>3, <1>4, <1>5, <1>6, <1>7, <1>8, <1>9 DEF HolderStep

LEMMA PasswordTyped ==
  ASSUME TypeOK, NEW s \in Requests, PasswordStep(s)
  PROVE  TypeOK'
<1> USE AuthAssumption
<1>1. CASE BeginChangePassword(s)
  <2>1. [Idle EXCEPT !.step = "updatePassword"] \in Request
    BY IdleTyped DEF Request, Steps
  <2>2. req' \in [Requests -> Request]
    BY <1>1, <2>1, AcceptEffect DEF BeginChangePassword
  <2>3. QED
    BY <1>1, <2>2 DEF BeginChangePassword, rowVars, observed, TypeOK
<1>2. CASE BeginForgotPassword(s)
  <2>1. [Idle EXCEPT !.step = "closeResets"] \in Request
    BY IdleTyped DEF Request, Steps
  <2>2. req' \in [Requests -> Request]
    BY <1>2, <2>1, AcceptEffect DEF BeginForgotPassword
  <2>3. QED
    BY <1>2, <2>2 DEF BeginForgotPassword, rowVars, observed, TypeOK
<1>3. CASE CloseResets(s)
  <2>1. req' \in [Requests -> Request]
    BY <1>3, ContinueEffect DEF CloseResets, Steps
  <2>2. QED
    BY <1>3, <2>1 DEF CloseResets, observed, TypeOK, ResetStates
<1>4. CASE CreateReset(s)
  <2>1. req' \in [Requests -> Request]
    BY <1>4, RespondEffect DEF CreateReset
  <2>2. QED
    BY <1>4, <2>1 DEF CreateReset, observed, TypeOK, ResetStates
<1>5. ASSUME NEW r \in ResetTokens, BeginResetPassword(s, r)
      PROVE  TypeOK'
  <2>1. [Idle EXCEPT !.step = "updatePassword", !.reset = r] \in Request
    BY IdleTyped DEF Request, Steps
  <2>2. req' \in [Requests -> Request]
    BY <1>5, <2>1, AcceptEffect DEF BeginResetPassword
  <2>3. QED
    BY <1>5, <2>2 DEF BeginResetPassword, rowVars, observed, TypeOK
<1>6. CASE UpdatePassword(s)
  <2>1. req' \in [Requests -> Request]
    BY <1>6, ContinueEffect DEF UpdatePassword, Steps
  <2>2. password' \in 0..MaxPasswords
    BY <1>6 DEF UpdatePassword, TypeOK
  <2>3. uses' \in [ResetTokens -> Nat]
    BY <1>6 DEF UpdatePassword, TypeOK
  <2>4. QED
    BY <1>6, <2>1, <2>2, <2>3 DEF UpdatePassword, TypeOK
<1>7. CASE MarkUsed(s)
  <2>1. req' \in [Requests -> Request]
    BY <1>7, ContinueEffect DEF MarkUsed, Steps
  <2>2. QED
    BY <1>7, <2>1 DEF MarkUsed, observed, TypeOK, ResetStates
<1>8. CASE RevokeAllSessions(s)
  <2>1. req' \in [Requests -> Request]
    BY <1>8, RespondEffect DEF RevokeAllSessions
  <2>2. QED
    BY <1>8, <2>1 DEF RevokeAllSessions, TypeOK, SessionStates
<1>9. QED
  BY <1>1, <1>2, <1>3, <1>4, <1>5, <1>6, <1>7, <1>8 DEF PasswordStep

LEMMA AdminTyped ==
  ASSUME TypeOK, NEW s \in Requests, AdminStep(s)
  PROVE  TypeOK'
<1> USE AuthAssumption
<1>0. \A g \in Grants : Deleted(token[g]) \in TokenStates
  BY DEF Deleted, TokenStates
<1>1. CASE Suspend(s)
  <2>1. [Idle EXCEPT !.step = "deleteTokens"] \in Request
    BY IdleTyped DEF Request, Steps
  <2>2. req' \in [Requests -> Request]
    BY <1>1, <2>1, AcceptEffect DEF Suspend
  <2>3. QED
    BY <1>1, <2>2 DEF Suspend, observed, TypeOK, AccountStates
<1>2. CASE DeleteTokens(s)
  <2>1. req' \in [Requests -> Request]
    BY <1>2, ContinueEffect DEF DeleteTokens, Steps
  <2>2. QED
    BY <1>0, <1>2, <2>1 DEF DeleteTokens, observed, TypeOK
<1>3. CASE BeginSuspendCompany(s)
  <2>1. [Idle EXCEPT !.step = "suspendTeam"] \in Request
    BY IdleTyped DEF Request, Steps
  <2>2. req' \in [Requests -> Request]
    BY <1>3, <2>1, AcceptEffect DEF BeginSuspendCompany
  <2>3. QED
    BY <1>3, <2>2 DEF BeginSuspendCompany, rowVars, observed, TypeOK
<1>4. CASE SuspendTeam(s)
  <2>1. req' \in [Requests -> Request]
    BY <1>4, RespondEffect DEF SuspendTeam
  <2>2. QED
    BY <1>0, <1>4, <2>1 DEF SuspendTeam, observed, TypeOK, AccountStates, SessionStates
<1>5. ASSUME NEW status \in {"Active", "Rejected"}, SetStatus(s, status)
      PROVE  TypeOK'
  BY <1>5 DEF SetStatus, observed, TypeOK, AccountStates
<1>6. CASE ForceLogout(s)
  BY <1>0, <1>6 DEF ForceLogout, observed, TypeOK
<1>7. CASE DeleteUser(s)
  BY <1>0, <1>7 DEF DeleteUser, observed, TypeOK, AccountStates, SessionStates
<1>8. ASSUME NEW g \in Grants, BeginExpireSession(s, g)
      PROVE  TypeOK'
  <2>1. [Idle EXCEPT !.step = "revokeToken", !.grant = g] \in Request
    BY IdleTyped DEF Request, Steps
  <2>2. req' \in [Requests -> Request]
    BY <1>8, <2>1, AcceptEffect DEF BeginExpireSession
  <2>3. QED
    BY <1>8, <2>2 DEF BeginExpireSession, observed, TypeOK, SessionStates
<1>9. CASE RevokeExpiredToken(s)
  <2>1. req' \in [Requests -> Request]
    BY <1>9, RespondEffect DEF RevokeExpiredToken
  <2>2. QED
    BY <1>9, <2>1 DEF RevokeExpiredToken, observed, TypeOK, TokenStates
<1>10. QED
  BY <1>1, <1>2, <1>3, <1>4, <1>5, <1>6, <1>7, <1>8, <1>9 DEF AdminStep

LEMMA TypeStep ==
  ASSUME TypeOK, [Next]_vars
  PROVE  TypeOK'
<1>1. CASE \E s \in Requests : HolderStep(s) \/ PasswordStep(s) \/ AdminStep(s)
  BY <1>1, LoginTyped, PasswordTyped, AdminTyped
<1>2. ASSUME NEW s \in Requests, Fail(s)
      PROVE  TypeOK'
  <2>1. req' \in [Requests -> Request]
    BY <1>2, RespondEffect DEF Fail
  <2>2. QED
    BY <1>2, <2>1 DEF Fail, rowVars, observed, TypeOK
<1>3. ASSUME NEW g \in Grants, ExpireToken(g)
      PROVE  TypeOK'
  BY <1>3 DEF ExpireToken, observed, TypeOK, TokenStates
<1>4. CASE UNCHANGED vars
  BY <1>4 DEF vars, TypeOK
<1>5. QED
  BY <1>1, <1>2, <1>3, <1>4 DEF Next

-----------------------------------------------------------------------------
(* Every step keeps the invariant.                                         *)

\* A step of request s that creates no grant, forgets no session, and stores
\* and loses no token row, keeps the invariant.
LEMMA QuietStep ==
  ASSUME IInv, TypeOK', NEW s \in Requests,
         \A t \in Requests \ {s} : req'[t] = req[t],
         req'[s].step # "createToken",
         req'[s].step \in {"readUser", "rotate"}
           => req'[s].grant \in Grants /\ token[req'[s].grant] # "none",
         req'[s].step = "revokeToken" => req'[s].grant \in Grants,
         req'[s].step = "markUsed" => req'[s].reset \in ResetTokens,
         \A g \in Grants : session[g] # "none" => session'[g] # "none",
         \A g \in Grants : token'[g] = "none" <=> token[g] = "none"
  PROVE  IInv'
<1>1. SessionsComeFirst'
  BY DEF IInv, SessionsComeFirst
<1>2. NewGrantsFresh'
  BY DEF IInv, NewGrantsFresh, At
<1>3. NewGrantsDistinct'
  BY DEF IInv, NewGrantsDistinct, At
<1>4. RequestsNamed'
  BY DEF IInv, RequestsNamed, At
<1>5. QED
  BY <1>1, <1>2, <1>3, <1>4 DEF IInv

\* A step that leaves the requests, and the existence of rows, as they are.
LEMMA UntouchedStep ==
  ASSUME IInv, TypeOK', UNCHANGED req,
         \A g \in Grants : session[g] # "none" => session'[g] # "none",
         \A g \in Grants : token'[g] = "none" <=> token[g] = "none"
  PROVE  IInv'
<1>1. SessionsComeFirst'
  BY DEF IInv, SessionsComeFirst
<1>2. NewGrantsFresh'
  BY DEF IInv, NewGrantsFresh, At
<1>3. NewGrantsDistinct'
  BY DEF IInv, NewGrantsDistinct, At
<1>4. RequestsNamed'
  BY DEF IInv, RequestsNamed, At
<1>5. QED
  BY <1>1, <1>2, <1>3, <1>4 DEF IInv

LEMMA CreateSessionStep ==
  ASSUME IInv, TypeOK', NEW s \in Requests, CreateSession(s)
  PROVE  IInv'
<1>1. PICK g \in Grants :
        /\ session[g] = "none"
        /\ session' = [session EXCEPT ![g] = "live"]
        /\ req' = [req EXCEPT ![s].step = "createToken", ![s].new = g]
  BY DEF CreateSession
<1>2. /\ req[s] \in Request
      /\ req'[s] = [req[s] EXCEPT !.step = "createToken", !.new = g]
      /\ \A t \in Requests \ {s} : req'[t] = req[t]
  BY <1>1 DEF IInv, TypeOK
<1>3. req'[s].step = "createToken" /\ req'[s].new = g
  BY <1>2 DEF Request
<1>4. /\ session'[g] # "none"
      /\ \A h \in Grants : session[h] # "none" => session'[h] # "none"
      /\ token' = token
  BY <1>1 DEF IInv, TypeOK, CreateSession
<1>5. token[g] = "none"
  BY <1>1 DEF IInv, SessionsComeFirst
<1>6. \A t \in Requests : At(t, "createToken") => req[t].new # g
  BY <1>1 DEF IInv, NewGrantsFresh
<1>7. SessionsComeFirst'
  BY <1>4 DEF IInv, SessionsComeFirst
<1>8. NewGrantsFresh'
  BY <1>2, <1>3, <1>4, <1>5 DEF IInv, NewGrantsFresh, At
<1>9. NewGrantsDistinct'
  <2>1. \A t \in Requests \ {s} : At(t, "createToken")' =>
          At(t, "createToken") /\ req'[t].new = req[t].new /\ req[t].new # g
    BY <1>2, <1>6 DEF At
  <2>2. NewGrantsDistinct
    BY DEF IInv
  <2> QED
    BY <1>3, <2>1, <2>2 DEF NewGrantsDistinct
<1>10. RequestsNamed'
  BY <1>2, <1>3, <1>4 DEF IInv, RequestsNamed, At
<1>11. QED
  BY <1>7, <1>8, <1>9, <1>10 DEF IInv

LEMMA CreateTokenStep ==
  ASSUME IInv, TypeOK', NEW s \in Requests, CreateToken(s)
  PROVE  IInv'
<1>1. /\ req'[s] = Idle
      /\ \A t \in Requests \ {s} : req'[t] = req[t]
  BY RespondEffect DEF CreateToken, IInv
<1>2. req'[s].step = "idle"
  BY <1>1, IdleTyped
<1>3. /\ req[s].new \in Grants
      /\ session[req[s].new] # "none"
      /\ session' = session
      /\ \A g \in Grants \ {req[s].new} : token'[g] = token[g]
      /\ \A g \in Grants : token[g] # "none" => token'[g] # "none"
  BY DEF CreateToken, IInv, NewGrantsFresh, TypeOK
<1>4. SessionsComeFirst'
  BY <1>3 DEF IInv, SessionsComeFirst
<1>5. NewGrantsFresh'
  <2>1. \A t \in Requests \ {s} : At(t, "createToken") => req[t].new # req[s].new
    BY DEF CreateToken, IInv, NewGrantsDistinct
  <2>2. QED
    BY <1>1, <1>2, <1>3, <2>1 DEF IInv, NewGrantsFresh, At
<1>6. NewGrantsDistinct'
  BY <1>1, <1>2 DEF IInv, NewGrantsDistinct, At
<1>7. RequestsNamed'
  BY <1>1, <1>2, <1>3 DEF IInv, RequestsNamed, At
<1>8. QED
  BY <1>4, <1>5, <1>6, <1>7 DEF IInv

LEMMA HolderKeepsInv ==
  ASSUME IInv, TypeOK', NEW s \in Requests, HolderStep(s)
  PROVE  IInv'
<1> USE IdleTyped
<1>1. CASE BeginLogin(s)
  <2>1. PICK next \in {"createSession", "challenge"} :
          Accept(s, [Idle EXCEPT !.step = next, !.active = TRUE, !.password = password])
    BY <1>1 DEF BeginLogin
  <2>2. req'[s].step = next /\ \A t \in Requests \ {s} : req'[t] = req[t]
    BY <2>1 DEF Accept, IInv, TypeOK, Request
  <2>3. QED
    BY <1>1, <2>2, QuietStep DEF BeginLogin, rowVars
<1>2. CASE AnswerChallenge(s)
  BY <1>2, ContinueEffect, QuietStep DEF AnswerChallenge, rowVars, Steps, IInv
<1>3. CASE CreateSession(s)
  BY <1>3, CreateSessionStep
<1>4. CASE CreateToken(s)
  BY <1>4, CreateTokenStep
<1>5. ASSUME NEW g \in Grants, BeginRefresh(s, g)
      PROVE  IInv'
  <2>1. /\ req'[s].step = "readUser" /\ req'[s].grant = g
        /\ \A t \in Requests \ {s} : req'[t] = req[t]
    BY <1>5 DEF BeginRefresh, Accept, IInv, TypeOK, Request
  <2>2. QED
    BY <1>5, <2>1, QuietStep DEF BeginRefresh, rowVars
<1>6. ASSUME NEW g \in Grants, Logout(s, g)
      PROVE  IInv'
  BY <1>6, UntouchedStep DEF Logout, IInv, TypeOK
<1>7. CASE ReadUser(s)
  <2>1. /\ req'[s].step = "rotate" /\ req'[s].grant = req[s].grant
        /\ \A t \in Requests \ {s} : req'[t] = req[t]
    BY <1>7 DEF ReadUser, IInv, TypeOK, Request
  <2>2. req[s].grant \in Grants /\ token[req[s].grant] # "none"
    BY <1>7 DEF ReadUser, At, IInv, RequestsNamed
  <2>3. QED
    BY <1>7, <2>1, <2>2, QuietStep DEF ReadUser, rowVars
<1>8. CASE Rotate(s)
  <2>1. /\ req'[s].step \in {"createSession", "idle"}
        /\ \A t \in Requests \ {s} : req'[t] = req[t]
    BY <1>8, ContinueEffect, RespondEffect DEF Rotate, IInv, Steps
  <2>2. \A g \in Grants : token'[g] = "none" <=> token[g] = "none"
    BY <1>8 DEF Rotate, IInv, TypeOK, RequestsNamed, At
  <2>3. req'[s].step \notin {"createToken", "readUser", "rotate", "revokeToken",
                            "markUsed"}
    BY <2>1
  <2>4. session' = session
    BY <1>8 DEF Rotate
  <2>5. QED
    BY <2>1, <2>2, <2>3, <2>4, QuietStep
<1>9. ASSUME NEW ended, RevokeSessions(s, ended)
      PROVE  IInv'
  BY <1>9, UntouchedStep DEF RevokeSessions, IInv, TypeOK
<1>10. QED
  BY <1>1, <1>2, <1>3, <1>4, <1>5, <1>6, <1>7, <1>8, <1>9 DEF HolderStep

LEMMA PasswordKeepsInv ==
  ASSUME IInv, TypeOK', NEW s \in Requests, PasswordStep(s)
  PROVE  IInv'
<1> USE IdleTyped
<1>1. session' = session \/ RevokeAllSessions(s)
  BY DEF PasswordStep, BeginChangePassword, BeginForgotPassword, CloseResets,
         CreateReset, BeginResetPassword, UpdatePassword, MarkUsed, rowVars
<1>2. \A g \in Grants : session[g] # "none" => session'[g] # "none"
  BY <1>1 DEF RevokeAllSessions, IInv, TypeOK
<1>3. token' = token
  BY DEF PasswordStep, BeginChangePassword, BeginForgotPassword, CloseResets,
         CreateReset, BeginResetPassword, UpdatePassword, MarkUsed, rowVars,
         RevokeAllSessions
<1>4. CASE BeginChangePassword(s)
  <2>1. /\ req'[s].step = "updatePassword"
        /\ \A t \in Requests \ {s} : req'[t] = req[t]
    BY <1>4 DEF BeginChangePassword, Accept, IInv, TypeOK, Request
  <2>2. QED
    BY <1>2, <1>3, <2>1, QuietStep
<1>5. CASE BeginForgotPassword(s)
  <2>1. /\ req'[s].step = "closeResets"
        /\ \A t \in Requests \ {s} : req'[t] = req[t]
    BY <1>5 DEF BeginForgotPassword, Accept, IInv, TypeOK, Request
  <2>2. QED
    BY <1>2, <1>3, <2>1, QuietStep
<1>6. CASE CloseResets(s)
  BY <1>2, <1>3, <1>6, ContinueEffect, QuietStep DEF CloseResets, IInv, Steps
<1>7. CASE CreateReset(s)
  BY <1>2, <1>3, <1>7, RespondEffect, QuietStep DEF CreateReset, IInv
<1>8. ASSUME NEW r \in ResetTokens, BeginResetPassword(s, r)
      PROVE  IInv'
  <2>1. /\ req'[s].step = "updatePassword"
        /\ \A t \in Requests \ {s} : req'[t] = req[t]
    BY <1>8 DEF BeginResetPassword, Accept, IInv, TypeOK, Request
  <2>2. QED
    BY <1>2, <1>3, <2>1, QuietStep
<1>9. CASE UpdatePassword(s)
  <2>1. /\ req'[s].step \in {"revokeSessions", "markUsed"}
        /\ req'[s].step = "markUsed" => req[s].reset # None
        /\ req'[s].reset = req[s].reset
        /\ \A t \in Requests \ {s} : req'[t] = req[t]
    BY <1>9, ContinueEffect DEF UpdatePassword, IInv, Steps
  <2>2. req[s].reset \in ResetTokens \cup {None}
    BY DEF IInv, TypeOK, Request
  <2>3. req'[s].step = "markUsed" => req'[s].reset \in ResetTokens
    BY <2>1, <2>2
  <2>4. req'[s].step \notin {"createToken", "readUser", "rotate", "revokeToken"}
    BY <2>1
  <2>5. QED
    BY <1>2, <1>3, <2>1, <2>3, <2>4, QuietStep
<1>10. CASE MarkUsed(s)
  BY <1>2, <1>3, <1>10, ContinueEffect, QuietStep DEF MarkUsed, IInv, Steps
<1>11. CASE RevokeAllSessions(s)
  BY <1>2, <1>3, <1>11, RespondEffect, QuietStep DEF RevokeAllSessions, IInv
<1>12. QED
  BY <1>4, <1>5, <1>6, <1>7, <1>8, <1>9, <1>10, <1>11 DEF PasswordStep

LEMMA AdminKeepsInv ==
  ASSUME IInv, TypeOK', NEW s \in Requests, AdminStep(s)
  PROVE  IInv'
<1> USE IdleTyped
<1>1. CASE Suspend(s)
  <2>1. /\ req'[s].step = "deleteTokens"
        /\ \A t \in Requests \ {s} : req'[t] = req[t]
    BY <1>1 DEF Suspend, Accept, IInv, TypeOK, Request
  <2>2. QED
    BY <1>1, <2>1, QuietStep DEF Suspend
<1>2. CASE DeleteTokens(s)
  <2>1. \A g \in Grants : token'[g] = "none" <=> token[g] = "none"
    BY <1>2 DEF DeleteTokens, Deleted, IInv, TypeOK
  <2>2. QED
    BY <1>2, <2>1, ContinueEffect, QuietStep DEF DeleteTokens, IInv, Steps
<1>3. CASE BeginSuspendCompany(s)
  <2>1. /\ req'[s].step = "suspendTeam"
        /\ \A t \in Requests \ {s} : req'[t] = req[t]
    BY <1>3 DEF BeginSuspendCompany, Accept, IInv, TypeOK, Request
  <2>2. QED
    BY <1>3, <2>1, QuietStep DEF BeginSuspendCompany, rowVars
<1>4. CASE SuspendTeam(s)
  <2>1. /\ \A g \in Grants : token'[g] = "none" <=> token[g] = "none"
        /\ \A g \in Grants : session[g] # "none" => session'[g] # "none"
    BY <1>4 DEF SuspendTeam, Deleted, IInv, TypeOK
  <2>2. QED
    BY <1>4, <2>1, RespondEffect, QuietStep DEF SuspendTeam, IInv
<1>5. ASSUME NEW status \in {"Active", "Rejected"}, SetStatus(s, status)
      PROVE  IInv'
  BY <1>5, UntouchedStep DEF SetStatus
<1>6. CASE ForceLogout(s)
  BY <1>6, UntouchedStep DEF ForceLogout, Deleted, IInv, TypeOK
<1>7. CASE DeleteUser(s)
  BY <1>7, UntouchedStep DEF DeleteUser, Deleted, IInv, TypeOK
<1>8. ASSUME NEW g \in Grants, BeginExpireSession(s, g)
      PROVE  IInv'
  <2>1. /\ req'[s].step = "revokeToken" /\ req'[s].grant = g
        /\ \A t \in Requests \ {s} : req'[t] = req[t]
    BY <1>8 DEF BeginExpireSession, Accept, IInv, TypeOK, Request
  <2>2. \A h \in Grants : session[h] # "none" => session'[h] # "none"
    BY <1>8 DEF BeginExpireSession, IInv, TypeOK
  <2>3. QED
    BY <1>8, <2>1, <2>2, QuietStep DEF BeginExpireSession
<1>9. CASE RevokeExpiredToken(s)
  <2>1. \A g \in Grants : token'[g] = "none" <=> token[g] = "none"
    BY <1>9 DEF RevokeExpiredToken, IInv, TypeOK
  <2>2. QED
    BY <1>9, <2>1, RespondEffect, QuietStep DEF RevokeExpiredToken, IInv
<1>10. QED
  BY <1>1, <1>2, <1>3, <1>4, <1>5, <1>6, <1>7, <1>8, <1>9 DEF AdminStep

LEMMA InvStep ==
  ASSUME IInv, [Next]_vars
  PROVE  IInv'
<1>1. TypeOK'
  BY TypeStep DEF IInv
<1>2. CASE \E s \in Requests : HolderStep(s) \/ PasswordStep(s) \/ AdminStep(s)
  BY <1>1, <1>2, HolderKeepsInv, PasswordKeepsInv, AdminKeepsInv
<1>3. ASSUME NEW s \in Requests, Fail(s)
      PROVE  IInv'
  BY <1>1, <1>3, IdleTyped, RespondEffect, QuietStep DEF Fail, rowVars, IInv
<1>4. ASSUME NEW g \in Grants, ExpireToken(g)
      PROVE  IInv'
  BY <1>1, <1>4, UntouchedStep DEF ExpireToken, IInv, TypeOK
<1>5. CASE UNCHANGED vars
  BY <1>1, <1>5, UntouchedStep DEF vars
<1>6. QED
  BY <1>2, <1>3, <1>4, <1>5 DEF Next

LEMMA InitInv == Init => IInv
<1> SUFFICES ASSUME Init PROVE IInv
  OBVIOUS
<1>1. 0 \in 0..MaxPasswords
  BY AuthAssumption
<1>2. TypeOK
  BY <1>1, IdleTyped DEF Init, TypeOK, AccountStates, SessionStates, TokenStates, ResetStates
<1>3. \A s \in Requests : req[s].step = "idle"
  BY IdleTyped DEF Init
<1>4. QED
  BY <1>2, <1>3 DEF Init, IInv, SessionsComeFirst, NewGrantsFresh, NewGrantsDistinct,
                    RequestsNamed, At

-----------------------------------------------------------------------------
(* The theorems.                                                           *)

\* The rows and requests keep their types under every interleaving, failure
\* and expiry.
THEOREM TypeCorrect == Spec => []TypeOK
<1>1. TypeOK /\ [Next]_vars => TypeOK'
  BY TypeStep
<1>2. Init => TypeOK
  BY InitInv DEF IInv
<1>3. QED
  BY <1>1, <1>2, PTL DEF Spec

\* A refresh token that was rotated, logged out, expired or deleted is never
\* accepted again: no request in flight stores it a second time.
THEOREM NoTokenRevives == Spec => TokensNeverRevive
<1>1. ASSUME IInv, [Next]_vars
      PROVE  \A g \in Grants :
               token[g] \in {"expired", "revoked", "deleted"} => g \notin Live'
  <2> SUFFICES ASSUME NEW g \in Grants,
                      token[g] \in {"expired", "revoked", "deleted"}
               PROVE  token'[g] # "live"
    BY DEF Live
  <2>1. ASSUME NEW s \in Requests, CreateToken(s)
        PROVE  token'[g] # "live"
    BY <1>1, <2>1 DEF CreateToken, IInv, NewGrantsFresh, TypeOK
  <2>2. ASSUME NEW s \in Requests, HolderStep(s), ~CreateToken(s)
        PROVE  token'[g] # "live"
    BY <1>1, <2>2 DEF HolderStep, BeginLogin, AnswerChallenge, CreateSession,
         BeginRefresh, ReadUser, Rotate, Logout, RevokeSessions, rowVars, IInv, TypeOK
  <2>3. ASSUME NEW s \in Requests, PasswordStep(s)
        PROVE  token' = token
    BY <2>3 DEF PasswordStep, BeginChangePassword, BeginForgotPassword,
         CloseResets, CreateReset, BeginResetPassword, UpdatePassword, MarkUsed,
         RevokeAllSessions, rowVars
  <2>4. ASSUME NEW s \in Requests, AdminStep(s)
        PROVE  token'[g] # "live"
    BY <1>1, <2>4 DEF AdminStep, Suspend, DeleteTokens, BeginSuspendCompany,
         SuspendTeam, SetStatus, ForceLogout, DeleteUser, BeginExpireSession,
         RevokeExpiredToken, Deleted, rowVars, IInv, TypeOK
  <2>5. ASSUME NEW s \in Requests, Fail(s)
        PROVE  token' = token
    BY <2>5 DEF Fail, rowVars
  <2>6. ASSUME NEW h \in Grants, ExpireToken(h)
        PROVE  token'[g] # "live"
    BY <1>1, <2>6 DEF ExpireToken, IInv, TypeOK
  <2>7. CASE UNCHANGED vars
    BY <2>7 DEF vars
  <2>8. QED
    BY <1>1, <2>1, <2>2, <2>3, <2>4, <2>5, <2>6, <2>7 DEF Next
<1>2. QED
  BY <1>1, InvStep, InitInv, PTL DEF Spec, TokensNeverRevive

-----------------------------------------------------------------------------
(* What a step does to the live tokens and to the requests that will store *)
(* one.                                                                    *)

Step(s) == HolderStep(s) \/ PasswordStep(s) \/ AdminStep(s) \/ Fail(s)

LEMMA StepAlone ==
  ASSUME TypeOK, NEW s \in Requests, Step(s)
  PROVE  \A t \in Requests \ {s} : req'[t] = req[t]
<1>1. CASE HolderStep(s)
  BY <1>1 DEF HolderStep, BeginLogin, AnswerChallenge, CreateSession, CreateToken, BeginRefresh,
     Logout, ReadUser, Rotate, RevokeSessions, Accept, Continue, Respond, TypeOK
<1>2. CASE PasswordStep(s)
  BY <1>2 DEF PasswordStep, BeginChangePassword, BeginForgotPassword, CloseResets, CreateReset,
     BeginResetPassword, UpdatePassword, MarkUsed, RevokeAllSessions, Accept, Continue, Respond,
     TypeOK
<1>3. CASE AdminStep(s)
  BY <1>3 DEF AdminStep, Suspend, DeleteTokens, BeginSuspendCompany, SuspendTeam, SetStatus,
     ForceLogout, DeleteUser, BeginExpireSession, RevokeExpiredToken, Accept, Continue, Respond,
     TypeOK
<1>4. CASE Fail(s)
  BY <1>4 DEF Fail, Respond, TypeOK
<1> QED
  BY <1>1, <1>2, <1>3, <1>4 DEF Step

Mints(q) == q.step \in {"createSession", "createToken"} \/ (q.step = "rotate" /\ q.active)

LEMMA MintingIs ==
  Minting = {s \in Requests : Mints(req[s])} /\ Minting' = {s \in Requests : Mints(req'[s])}
BY DEF Minting, Mints, At

\* Only an active account takes up what will store a token.
LEMMA StepMints ==
  ASSUME TypeOK, NEW s \in Requests, Step(s)
  PROVE  Mints(req'[s]) => Mints(req[s]) \/ (account = "Active" /\ account' = "Active")
<1> USE DEF Mints
<1>0. req[s] \in Request /\ req \in [Requests -> Request]
  BY DEF TypeOK
<1>1. CASE BeginLogin(s)
  BY <1>1 DEF BeginLogin, rowVars
<1>2. CASE AnswerChallenge(s)
  BY <1>2 DEF AnswerChallenge, rowVars
<1>3. CASE CreateSession(s)
  BY <1>3 DEF CreateSession, At
<1>4. CASE CreateToken(s)
  BY <1>4 DEF CreateToken, At
<1>5. ASSUME NEW g \in Grants, BeginRefresh(s, g) PROVE ~Mints(req'[s])
  BY <1>0, <1>5 DEF BeginRefresh, Accept, Idle
<1>6. CASE ReadUser(s)
  BY <1>0, <1>6 DEF ReadUser, rowVars, Request
<1>7. CASE Rotate(s)
  BY <1>0, <1>7 DEF Rotate, Respond, Idle, At
<1>8. CASE UNCHANGED req
  BY <1>8
<1>9. CASE PasswordStep(s)
  <2>1. CASE BeginChangePassword(s) \/ BeginForgotPassword(s)
    BY <1>0, <2>1 DEF BeginChangePassword, BeginForgotPassword, Accept, Idle
  <2>2. ASSUME NEW r \in ResetTokens, BeginResetPassword(s, r) PROVE ~Mints(req'[s])
    BY <1>0, <2>2 DEF BeginResetPassword, Accept, Idle
  <2>3. CASE CloseResets(s) \/ MarkUsed(s) \/ UpdatePassword(s)
    <3>1. \E step \in {"createReset", "revokeSessions", "markUsed"} : Continue(s, step)
      BY <2>3 DEF CloseResets, MarkUsed, UpdatePassword
    <3> QED
      BY <1>0, <3>1 DEF Continue, Request
  <2>4. CASE CreateReset(s) \/ RevokeAllSessions(s)
    BY <1>0, <2>4 DEF CreateReset, RevokeAllSessions, Respond, Idle
  <2> QED
    BY <1>9, <2>1, <2>2, <2>3, <2>4 DEF PasswordStep
<1>10. CASE AdminStep(s) /\ ~UNCHANGED req
  <2>1. CASE Suspend(s) \/ BeginSuspendCompany(s)
    BY <1>0, <2>1 DEF Suspend, BeginSuspendCompany, Accept, Idle
  <2>2. ASSUME NEW g \in Grants, BeginExpireSession(s, g) PROVE ~Mints(req'[s])
    BY <1>0, <2>2 DEF BeginExpireSession, Accept, Idle
  <2>3. CASE DeleteTokens(s)
    BY <1>0, <2>3 DEF DeleteTokens, Continue, Request
  <2>4. CASE SuspendTeam(s) \/ RevokeExpiredToken(s)
    BY <1>0, <2>4 DEF SuspendTeam, RevokeExpiredToken, Respond, Idle
  <2> QED
    BY <1>10, <2>1, <2>2, <2>3, <2>4 DEF AdminStep, SetStatus, ForceLogout, DeleteUser
<1>11. CASE Fail(s)
  BY <1>0, <1>11 DEF Fail, Respond, Idle
<1> QED
  BY <1>1, <1>2, <1>3, <1>4, <1>5, <1>6, <1>7, <1>8, <1>9, <1>10, <1>11
  DEF Step, HolderStep, Logout, RevokeSessions

LEMMA StepLive ==
  ASSUME IInv, NEW s \in Requests, Step(s), ~CreateToken(s)
  PROVE  /\ Live' \subseteq Live
         /\ \A g \in Grants : token'[g] = "none" <=> token[g] = "none"
<1>0. token \in [Grants -> TokenStates]
  BY DEF IInv, TypeOK
<1>1. CASE HolderStep(s)
  <2>1. CASE Rotate(s)
    <3>1. req[s].grant \in Grants /\ token[req[s].grant] # "none"
      BY <2>1 DEF Rotate, At, IInv, RequestsNamed
    <3> QED
      BY <1>0, <2>1, <3>1 DEF Rotate, Live
  <2>2. ASSUME NEW g \in Grants, Logout(s, g)
        PROVE  Live' \subseteq Live /\ \A h \in Grants : token'[h] = "none" <=> token[h] = "none"
    BY <1>0, <2>2 DEF Logout, Live
  <2>3. CASE UNCHANGED token
    BY <2>3 DEF Live
  <2> QED
    BY <1>1, <2>1, <2>2, <2>3 DEF HolderStep, BeginLogin, AnswerChallenge, CreateSession,
       BeginRefresh, ReadUser, RevokeSessions, rowVars
<1>2. CASE PasswordStep(s) \/ Fail(s)
  <2>1. UNCHANGED token
    BY <1>2 DEF PasswordStep, BeginChangePassword, BeginForgotPassword, CloseResets,
       CreateReset, BeginResetPassword, UpdatePassword, MarkUsed, RevokeAllSessions, Fail, rowVars
  <2> QED
    BY <2>1 DEF Live
<1>3. CASE AdminStep(s)
  <2>1. CASE token' = [g \in Grants |-> Deleted(token[g])]
    BY <2>1 DEF Deleted, Live
  <2>2. CASE RevokeExpiredToken(s)
    BY <1>0, <2>2 DEF RevokeExpiredToken, Live
  <2>3. CASE UNCHANGED token
    BY <2>3 DEF Live
  <2> QED
    BY <1>3, <2>1, <2>2, <2>3 DEF AdminStep, Suspend, DeleteTokens, BeginSuspendCompany,
       SuspendTeam, SetStatus, ForceLogout, DeleteUser, BeginExpireSession, rowVars
<1> QED
  BY <1>1, <1>2, <1>3 DEF Step

LEMMA CreateTokenLive ==
  ASSUME IInv, NEW s \in Requests, CreateToken(s)
  PROVE  /\ req[s].new \in Grants /\ token[req[s].new] = "none" /\ UNCHANGED account
         /\ Live' = Live \cup {req[s].new} /\ req[s].new \notin Live
         /\ \A g \in Grants \ {req[s].new} : token'[g] = token[g]
         /\ Mints(req[s]) /\ req'[s] = Idle
<1>1. req[s].new \in Grants /\ token[req[s].new] = "none"
  BY DEF CreateToken, IInv, NewGrantsFresh
<1>2. token' = [token EXCEPT ![req[s].new] = "live"] /\ UNCHANGED account
  BY DEF CreateToken
<1>3. Mints(req[s]) /\ req'[s] = Idle
  BY RespondEffect DEF CreateToken, At, Mints, IInv
<1> QED
  BY <1>1, <1>2, <1>3 DEF Live, IInv, TypeOK

LEMMA ExpiryLive ==
  ASSUME IInv, NEW g \in Grants, ExpireToken(g)
  PROVE  /\ Live' \subseteq Live /\ UNCHANGED <<account, req, reset, uses>>
         /\ \A h \in Grants : token'[h] = "none" <=> token[h] = "none"
BY DEF ExpireToken, IInv, TypeOK, Live, observed

-----------------------------------------------------------------------------
\* From the moment an account is no longer active, the tokens it has or will
\* get from requests in flight only dwindle: every path to a session asks for an
\* active account before it can store a token, for any number of overlapping
\* logins and refreshes (assertAccountActive in auth.service.ts).
THEOREM BarredDwindle == Spec => BarredAccountsDwindle
<1>1. ASSUME IInv, [Next]_vars, account # "Active", account' # "Active"
      PROVE  Cardinality(Live') + Cardinality(Minting') <= Cardinality(Live) + Cardinality(Minting)
  <2>1. /\ IsFiniteSet(Live) /\ IsFiniteSet(Minting) /\ IsFiniteSet(Live') /\ IsFiniteSet(Minting')
        /\ Cardinality(Live) \in Nat /\ Cardinality(Minting) \in Nat
        /\ Cardinality(Live') \in Nat /\ Cardinality(Minting') \in Nat
    <3>1. \A S : S \subseteq Grants \/ S \subseteq Requests =>
                IsFiniteSet(S) /\ Cardinality(S) \in Nat
      BY AuthAssumption, FS_Subset, FS_CardinalityType
    <3>2. Live \subseteq Grants /\ Live' \subseteq Grants
      BY DEF Live
    <3>3. Minting \subseteq Requests /\ Minting' \subseteq Requests
      BY DEF Minting
    <3> QED
      BY <3>1, <3>2, <3>3
  <2>2. ASSUME Live' \subseteq Live, Minting' \subseteq Minting
        PROVE  Cardinality(Live') + Cardinality(Minting') <= Cardinality(Live) + Cardinality(Minting)
    <3>1. Cardinality(Live') <= Cardinality(Live) /\ Cardinality(Minting') <= Cardinality(Minting)
      BY <2>1, <2>2, FS_Subset
    <3> QED
      BY <2>1, <3>1
  <2>3. ASSUME NEW s \in Requests, Step(s)
        PROVE  Minting' \subseteq Minting
    BY <1>1, <2>3, StepAlone, StepMints, MintingIs DEF IInv
  <2>4. ASSUME NEW s \in Requests, CreateToken(s)
        PROVE  Cardinality(Live') + Cardinality(Minting') <= Cardinality(Live) + Cardinality(Minting)
    <3>1. Live' = Live \cup {req[s].new} /\ req[s].new \notin Live /\ Mints(req[s]) /\ ~Mints(req'[s])
      BY <1>1, <2>4, CreateTokenLive DEF Mints, Idle
    <3>2. Minting' \subseteq Minting \ {s} /\ s \in Minting
      <4>1. Minting' \subseteq Minting
        BY <2>3, <2>4 DEF Step, HolderStep
      <4> QED
        BY <3>1, <4>1, MintingIs
    <3>3. Cardinality(Live') = Cardinality(Live) + 1
      BY <2>1, <3>1, FS_AddElement
    <3>4. IsFiniteSet(Minting \ {s}) /\ Cardinality(Minting \ {s}) = Cardinality(Minting) - 1
      BY <2>1, <3>2, FS_RemoveElement
    <3>5. Cardinality(Minting') <= Cardinality(Minting \ {s})
      BY <3>2, <3>4, FS_Subset
    <3> QED
      BY <2>1, <3>3, <3>4, <3>5
  <2>5. ASSUME NEW s \in Requests, Step(s), ~CreateToken(s)
        PROVE  Cardinality(Live') + Cardinality(Minting') <= Cardinality(Live) + Cardinality(Minting)
    BY <1>1, <2>2, <2>3, <2>5, StepLive
  <2>6. ASSUME NEW g \in Grants, ExpireToken(g)
        PROVE  Cardinality(Live') + Cardinality(Minting') <= Cardinality(Live) + Cardinality(Minting)
    BY <1>1, <2>2, <2>6, ExpiryLive DEF Minting, At
  <2>7. CASE UNCHANGED vars
    BY <2>2, <2>7 DEF vars, Live, Minting, At
  <2> QED
    BY <1>1, <2>4, <2>5, <2>6, <2>7 DEF Next, Step
<1>2. IInv /\ [Next]_vars =>
        [account # "Active" /\ account' # "Active"
           => Cardinality(Live') + Cardinality(Minting')
                <= Cardinality(Live) + Cardinality(Minting)]_vars
  BY <1>1
<1> QED
  BY <1>2, InvStep, InitInv, PTL DEF Spec, BarredAccountsDwindle

-----------------------------------------------------------------------------
(* One request at a time.                                                  *)

OneRequest == \A s, t \in Requests : ~At(s, "idle") /\ ~At(t, "idle") => s = t

\* What was active when it was looked at still is.
ActiveMints == \A s \in Requests : Mints(req[s]) => account = "Active"

SerialInv == OneRequest /\ ActiveMints

Others(s) == \A t \in Requests \ {s} : At(t, "idle")

LEMMA AccountChange ==
  ASSUME TypeOK, NEW s \in Requests, Step(s), account' # account
  PROVE  /\ req'[s].step \in {"idle", "deleteTokens"}
         /\ Suspend(s) \/ SuspendTeam(s) \/ account' # "Suspended"
<1>0. req \in [Requests -> Request]
  BY DEF TypeOK
<1>1. Suspend(s) \/ SuspendTeam(s) \/ (\E status \in {"Active", "Rejected"} : SetStatus(s, status))
      \/ DeleteUser(s)
  BY DEF Step, HolderStep, PasswordStep, AdminStep, Fail, BeginLogin, AnswerChallenge,
     CreateSession, CreateToken, BeginRefresh, Logout, ReadUser, Rotate, RevokeSessions,
     BeginChangePassword, BeginForgotPassword, CloseResets, CreateReset, BeginResetPassword,
     UpdatePassword, MarkUsed, RevokeAllSessions, DeleteTokens, BeginSuspendCompany, ForceLogout,
     BeginExpireSession, RevokeExpiredToken, rowVars
<1>2. CASE Suspend(s)
  BY <1>0, <1>2 DEF Suspend, Accept, Idle
<1>3. CASE SuspendTeam(s)
  BY <1>0, <1>3 DEF SuspendTeam, Respond, Idle
<1>4. CASE \E status \in {"Active", "Rejected"} : SetStatus(s, status)
  BY <1>4 DEF SetStatus, At
<1>5. CASE DeleteUser(s)
  BY <1>5 DEF DeleteUser, At
<1> QED
  BY <1>1, <1>2, <1>3, <1>4, <1>5

LEMMA SerialNext ==
  ASSUME IInv, SerialInv, NEW s \in Requests, Step(s), Others(s)
  PROVE  SerialInv'
<1>1. \A t \in Requests \ {s} : req'[t] = req[t] /\ req'[t].step = "idle"
  BY StepAlone DEF Others, At, IInv
<1>2. OneRequest'
  BY <1>1 DEF OneRequest, At
<1>3. Mints(req'[s]) => account' = "Active"
  <2>1. CASE account' = account
    BY <2>1, StepMints DEF SerialInv, ActiveMints, IInv
  <2>2. CASE account' # account
    BY <2>2, AccountChange DEF Mints, IInv
  <2> QED
    BY <2>1, <2>2
<1>4. ActiveMints'
  BY <1>1, <1>3 DEF ActiveMints, Mints
<1> QED
  BY <1>2, <1>4 DEF SerialInv

\* Each step is one of the ledger's.
LEMMA LedgerStep ==
  ASSUME IInv, SerialInv, NEW s \in Requests, Step(s)
  PROVE  Ledger!Next
<1>1. CASE CreateToken(s)
  <2>0. PICK g \in Grants : g = req[s].new
    BY <1>1, CreateTokenLive
  <2>1. /\ g \in Grants /\ token[g] = "none" /\ UNCHANGED account /\ Live' = Live \cup {g}
        /\ \A h \in Grants \ {g} : token'[h] = token[h]
        /\ Mints(req[s])
    BY <1>1, <2>0, CreateTokenLive
  <2>2. account = "Active"
    BY <2>1 DEF SerialInv, ActiveMints
  <2>3. token'[g] # "none"
    BY <2>1 DEF Live
  <2>4. {h \in Grants : token[h] # "none"}' = {h \in Grants : token[h] # "none"} \cup {g}
    BY <2>1, <2>3
  <2>5. Ledger!Issue(g)
    BY <2>1, <2>2, <2>4 DEF Ledger!Issue
  <2> QED
    BY <2>5 DEF Ledger!Next
<1>2. CASE ~CreateToken(s)
  BY <1>2, StepLive DEF Ledger!Next, Ledger!ChangeStatus
<1> QED
  BY <1>1, <1>2

LEMMA LedgerExpiry ==
  ASSUME IInv, NEW g \in Grants, ExpireToken(g)
  PROVE  Ledger!Next
BY ExpiryLive DEF Ledger!Next, Ledger!ChangeStatus

-----------------------------------------------------------------------------
(* One request at a time, and none stops half way.                         *)

\* A reset that is not used up has set no password, unless its request is about
\* to mark it; and a request goes by an open reset.
Resets ==
  /\ \A r \in ResetTokens :
       /\ uses[r] <= 1
       /\ reset[r] # "used" =>
            uses[r] = 0 \/ \E s \in Requests : At(s, "markUsed") /\ req[s].reset = r
  /\ \A s \in Requests :
       At(s, "updatePassword") /\ req[s].reset # None => reset[req[s].reset] = "open"

\* A suspended account has no token, unless its suspension is about to delete
\* them, and nothing on its way to one.
Opening == {"challenge", "readUser", "rotate", "createSession", "createToken"}

LoggedOut ==
  account = "Suspended" =>
    /\ \A s \in Requests : req[s].step \notin Opening
    /\ (\A s \in Requests : ~At(s, "deleteTokens")) => Live = {}

Handled(s) == HolderStep(s) \/ PasswordStep(s) \/ AdminStep(s)

LEMMA HandledStep ==
  ASSUME NEW s \in Requests, Handled(s)
  PROVE  Step(s)
BY DEF Handled, Step

Changing(s) == CloseResets(s) \/ CreateReset(s) \/ UpdatePassword(s) \/ MarkUsed(s)

LEMMA ResetsBeside ==
  ASSUME IInv, NEW s \in Requests, Handled(s), ~Changing(s)
  PROVE  /\ UNCHANGED <<reset, uses>> /\ ~At(s, "markUsed")
         /\ req'[s].step = "updatePassword" /\ req'[s].reset # None =>
              req'[s].reset \in ResetTokens /\ reset[req'[s].reset] = "open"
<1>0. req \in [Requests -> Request] /\ req[s] \in Request
  BY DEF IInv, TypeOK
<1>1. UNCHANGED <<reset, uses>>
  BY DEF Handled, Changing, HolderStep, PasswordStep, AdminStep, BeginLogin, AnswerChallenge,
     CreateSession, CreateToken, BeginRefresh, Logout, ReadUser, Rotate, RevokeSessions,
     BeginChangePassword, BeginForgotPassword, BeginResetPassword, RevokeAllSessions, Suspend,
     DeleteTokens, BeginSuspendCompany, SuspendTeam, SetStatus, ForceLogout, DeleteUser,
     BeginExpireSession, RevokeExpiredToken, rowVars, observed
<1>2. ~At(s, "markUsed")
  BY DEF Handled, Changing, HolderStep, PasswordStep, AdminStep, BeginLogin, AnswerChallenge,
     CreateSession, CreateToken, BeginRefresh, Logout, ReadUser, Rotate, RevokeSessions,
     BeginChangePassword, BeginForgotPassword, BeginResetPassword, RevokeAllSessions, Suspend,
     DeleteTokens, BeginSuspendCompany, SuspendTeam, SetStatus, ForceLogout, DeleteUser,
     BeginExpireSession, RevokeExpiredToken, Accept, At
<1> DEFINE Fits == req'[s].step = "updatePassword" /\ req'[s].reset # None =>
                     req'[s].reset \in ResetTokens /\ reset[req'[s].reset] = "open"
<1>3. ASSUME HolderStep(s) PROVE Fits
  <2>1. ASSUME req'[s].step = "updatePassword" PROVE req[s].step = "updatePassword"
    <3>1. CASE BeginLogin(s)
      BY <1>0, <2>1, <3>1 DEF BeginLogin, Accept, Idle
    <3>2. ASSUME NEW g \in Grants, BeginRefresh(s, g) PROVE FALSE
      BY <1>0, <2>1, <3>2 DEF BeginRefresh, Accept, Idle
    <3>3. CASE AnswerChallenge(s) \/ Rotate(s) \/ CreateToken(s)
      BY <1>0, <2>1, <3>3 DEF AnswerChallenge, Rotate, CreateToken, Continue, Respond, Idle, Request
    <3>4. CASE CreateSession(s) \/ ReadUser(s)
      BY <1>0, <2>1, <3>4 DEF CreateSession, ReadUser, Request
    <3>5. CASE UNCHANGED req
      BY <2>1, <3>5
    <3> QED
      BY <1>3, <3>1, <3>2, <3>3, <3>4, <3>5 DEF HolderStep, Logout, RevokeSessions
  <2>2. req[s].step # "updatePassword"
    BY <1>3 DEF HolderStep, BeginLogin, AnswerChallenge, CreateSession, CreateToken,
       BeginRefresh, Logout, ReadUser, Rotate, RevokeSessions, Accept, At
  <2> QED
    BY <2>1, <2>2
<1>4. ASSUME PasswordStep(s) PROVE Fits
  <2>1. CASE BeginChangePassword(s) \/ BeginForgotPassword(s)
    BY <1>0, <2>1 DEF BeginChangePassword, BeginForgotPassword, Accept, Idle
  <2>2. ASSUME NEW r \in ResetTokens, BeginResetPassword(s, r) PROVE Fits
    BY <1>0, <2>2 DEF BeginResetPassword, Accept, Idle
  <2>3. CASE RevokeAllSessions(s)
    BY <1>0, <2>3 DEF RevokeAllSessions, Respond, Idle
  <2> QED
    BY <1>4, <2>1, <2>2, <2>3 DEF PasswordStep, Changing
<1>5. ASSUME AdminStep(s) PROVE Fits
  <2>1. CASE Suspend(s) \/ BeginSuspendCompany(s)
    BY <1>0, <2>1 DEF Suspend, BeginSuspendCompany, Accept, Idle
  <2>2. ASSUME NEW g \in Grants, BeginExpireSession(s, g) PROVE Fits
    BY <1>0, <2>2 DEF BeginExpireSession, Accept, Idle
  <2>3. CASE DeleteTokens(s)
    BY <1>0, <2>3 DEF DeleteTokens, Continue, Request
  <2>4. CASE SuspendTeam(s) \/ RevokeExpiredToken(s)
    BY <1>0, <2>4 DEF SuspendTeam, RevokeExpiredToken, Respond, Idle
  <2>5. CASE UNCHANGED req /\ At(s, "idle")
    BY <2>5 DEF At
  <2> QED
    BY <1>5, <2>1, <2>2, <2>3, <2>4, <2>5 DEF AdminStep, SetStatus, ForceLogout, DeleteUser
<1> QED
  BY <1>1, <1>2, <1>3, <1>4, <1>5 DEF Handled

LEMMA ResetsNext ==
  ASSUME IInv, Resets, NEW s \in Requests, Handled(s), Others(s)
  PROVE  Resets'
<1>0. /\ req \in [Requests -> Request] /\ req[s] \in Request
      /\ reset \in [ResetTokens -> ResetStates] /\ uses \in [ResetTokens -> Nat] /\ TypeOK
  BY DEF IInv, TypeOK
<1>1. \A t \in Requests \ {s} : req'[t] = req[t] /\ req[t].step = "idle"
  BY HandledStep, StepAlone DEF Others, At, IInv
<1>2. CASE ~Changing(s)
  BY <1>1, <1>2, ResetsBeside DEF Resets, At
<1>3. CASE CloseResets(s)
  <2>1. req'[s].step = "createReset" /\ req[s].step = "closeResets"
    BY <1>0, <1>3, ContinueEffect DEF CloseResets, Steps, At
  <2>2. /\ UNCHANGED uses
        /\ \A r \in ResetTokens : reset'[r] # "used" => reset[r] # "used"
    BY <1>0, <1>3 DEF CloseResets, observed
  <2> QED
    BY <1>1, <2>1, <2>2 DEF Resets, At
<1>4. CASE CreateReset(s)
  <2>1. req'[s].step = "idle" /\ req[s].step = "createReset"
    BY <1>0, <1>4, RespondEffect, IdleTyped DEF CreateReset, At
  <2>2. /\ UNCHANGED uses
        /\ \A r \in ResetTokens : reset'[r] # "used" => reset[r] # "used"
    BY <1>0, <1>4 DEF CreateReset, observed
  <2> QED
    BY <1>1, <2>1, <2>2 DEF Resets, At
<1>5. CASE UpdatePassword(s)
  <2>1. UNCHANGED reset /\ req[s].step = "updatePassword" /\ req[s].reset \in ResetTokens \cup {None}
    BY <1>0, <1>5 DEF UpdatePassword, At, Request
  <2>2. CASE req[s].reset = None
    <3>1. UNCHANGED uses /\ Continue(s, "revokeSessions")
      BY <1>5, <2>2 DEF UpdatePassword
    <3>2. req'[s].step = "revokeSessions"
      BY <1>0, <3>1, ContinueEffect DEF Steps
    <3> QED
      BY <1>1, <2>1, <3>1, <3>2 DEF Resets, At
  <2>3. CASE req[s].reset # None
    <3> DEFINE r == req[s].reset
    <3>1. r \in ResetTokens /\ uses' = [uses EXCEPT ![r] = @ + 1] /\ Continue(s, "markUsed")
      BY <1>5, <2>1, <2>3 DEF UpdatePassword
    <3>2. req'[s].step = "markUsed" /\ req'[s].reset = r
      BY <1>0, <3>1, ContinueEffect DEF Steps
    <3>3. reset[r] = "open"
      BY <2>1, <2>3 DEF Resets, At
    <3>4. uses[r] = 0
      BY <1>1, <2>1, <3>1, <3>3 DEF Resets, At
    <3>5. uses'[r] = 1 /\ \A q \in ResetTokens \ {r} : uses'[q] = uses[q]
      BY <1>0, <3>1, <3>4
    <3>6. \A t \in Requests : ~At(t, "markUsed")
      BY <1>1, <2>1 DEF At
    <3> QED
      BY <1>1, <2>1, <3>1, <3>2, <3>5, <3>6 DEF Resets, At
  <2> QED
    BY <2>2, <2>3
<1>6. CASE MarkUsed(s)
  <2>1. req[s].reset \in ResetTokens /\ req[s].step = "markUsed"
    BY <1>6 DEF MarkUsed, At, IInv, RequestsNamed
  <2>2. reset' = [reset EXCEPT ![req[s].reset] = "used"] /\ UNCHANGED uses
    BY <1>6 DEF MarkUsed, observed
  <2>3. req'[s].step = "revokeSessions"
    BY <1>0, <1>6, ContinueEffect DEF MarkUsed, Steps
  <2> QED
    BY <1>0, <1>1, <2>1, <2>2, <2>3 DEF Resets, At
<1> QED
  BY <1>2, <1>3, <1>4, <1>5, <1>6 DEF Changing

\* A session is opened for an active account, or from a live token.
LEMMA StepOpens ==
  ASSUME TypeOK, NEW s \in Requests, Step(s), req'[s].step \in Opening
  PROVE  req[s].step \in Opening \/ account = "Active" \/ (At(s, "idle") /\ Live # {})
<1>0. req[s] \in Request /\ req \in [Requests -> Request]
  BY DEF TypeOK
<1>1. CASE HolderStep(s)
  <2>1. ASSUME NEW g \in Grants, BeginRefresh(s, g) PROVE At(s, "idle") /\ Live # {}
    BY <2>1 DEF BeginRefresh, Accept, Live
  <2>2. CASE BeginLogin(s)
    BY <2>2 DEF BeginLogin
  <2>3. CASE AnswerChallenge(s) \/ CreateSession(s) \/ CreateToken(s) \/ ReadUser(s) \/ Rotate(s)
    BY <2>3 DEF AnswerChallenge, CreateSession, CreateToken, ReadUser, Rotate, At, Opening
  <2>4. CASE UNCHANGED req
    BY <2>4
  <2> QED
    BY <1>1, <2>1, <2>2, <2>3, <2>4 DEF HolderStep, Logout, RevokeSessions
<1>2. CASE PasswordStep(s)
  <2>1. CASE BeginChangePassword(s) \/ BeginForgotPassword(s)
    BY <1>0, <2>1 DEF BeginChangePassword, BeginForgotPassword, Accept, Idle, Opening
  <2>2. ASSUME NEW r \in ResetTokens, BeginResetPassword(s, r) PROVE FALSE
    BY <1>0, <2>2 DEF BeginResetPassword, Accept, Idle, Opening
  <2>3. CASE CloseResets(s) \/ MarkUsed(s) \/ UpdatePassword(s)
    <3>1. \E step \in {"createReset", "revokeSessions", "markUsed"} : Continue(s, step)
      BY <2>3 DEF CloseResets, MarkUsed, UpdatePassword
    <3> QED
      BY <1>0, <3>1 DEF Continue, Request, Opening
  <2>4. CASE CreateReset(s) \/ RevokeAllSessions(s)
    BY <1>0, <2>4 DEF CreateReset, RevokeAllSessions, Respond, Idle, Opening
  <2> QED
    BY <1>2, <2>1, <2>2, <2>3, <2>4 DEF PasswordStep
<1>3. CASE AdminStep(s)
  <2>1. CASE Suspend(s) \/ BeginSuspendCompany(s)
    BY <1>0, <2>1 DEF Suspend, BeginSuspendCompany, Accept, Idle, Opening
  <2>2. ASSUME NEW g \in Grants, BeginExpireSession(s, g) PROVE FALSE
    BY <1>0, <2>2 DEF BeginExpireSession, Accept, Idle, Opening
  <2>3. CASE DeleteTokens(s)
    BY <1>0, <2>3 DEF DeleteTokens, Continue, Request, Opening
  <2>4. CASE SuspendTeam(s) \/ RevokeExpiredToken(s)
    BY <1>0, <2>4 DEF SuspendTeam, RevokeExpiredToken, Respond, Idle, Opening
  <2>5. CASE UNCHANGED req
    BY <2>5
  <2> QED
    BY <1>3, <2>1, <2>2, <2>3, <2>4, <2>5 DEF AdminStep, SetStatus, ForceLogout, DeleteUser
<1>4. CASE Fail(s)
  BY <1>0, <1>4 DEF Fail, Respond, Idle, Opening
<1> QED
  BY <1>1, <1>2, <1>3, <1>4 DEF Step

LEMMA LoggedOutNext ==
  ASSUME IInv, LoggedOut, NEW s \in Requests, Handled(s), Others(s)
  PROVE  LoggedOut'
<1>0. req \in [Requests -> Request] /\ TypeOK
  BY DEF IInv, TypeOK
<1>1. \A t \in Requests \ {s} : req'[t] = req[t] /\ req'[t].step = "idle"
  BY HandledStep, StepAlone DEF Others, At, IInv
<1>2. SUFFICES ASSUME account' = "Suspended"
               PROVE  /\ req'[s].step \notin Opening
                      /\ req'[s].step # "deleteTokens" => Live' = {}
  BY <1>1 DEF LoggedOut, At, Opening
<1>3. CASE account' # account
  <2>1. req'[s].step \notin Opening /\ (Suspend(s) \/ SuspendTeam(s))
    BY <1>0, <1>2, <1>3, HandledStep, AccountChange DEF Opening
  <2>2. CASE Suspend(s)
    BY <1>0, <2>1, <2>2 DEF Suspend, Accept, Idle
  <2>3. CASE SuspendTeam(s)
    BY <2>1, <2>3 DEF SuspendTeam, Deleted, Live
  <2> QED
    BY <2>1, <2>2, <2>3
<1>4. CASE account' = account
  <2>1. account = "Suspended" /\ req[s].step \notin Opening
    BY <1>2, <1>4 DEF LoggedOut
  <2>2. CASE At(s, "deleteTokens")
    <3>1. DeleteTokens(s)
      BY <2>2 DEF Handled, HolderStep, PasswordStep, AdminStep, BeginLogin, AnswerChallenge,
         CreateSession, CreateToken, BeginRefresh, Logout, ReadUser, Rotate, RevokeSessions,
         BeginChangePassword, BeginForgotPassword, CloseResets, CreateReset, BeginResetPassword,
         UpdatePassword, MarkUsed, RevokeAllSessions, Suspend, BeginSuspendCompany, SuspendTeam,
         SetStatus, ForceLogout, DeleteUser, BeginExpireSession, RevokeExpiredToken, Accept, At
    <3>2. Live' = {}
      BY <3>1 DEF DeleteTokens, Deleted, Live
    <3>3. req'[s].step = "closeSessions"
      BY <1>0, <3>1, ContinueEffect DEF DeleteTokens, Steps
    <3> QED
      BY <3>2, <3>3 DEF Opening
  <2>3. CASE ~At(s, "deleteTokens")
    <3>1. Live = {}
      BY <1>1, <2>1, <2>3 DEF LoggedOut, At, Others
    <3>2. ~CreateToken(s)
      BY <2>1 DEF CreateToken, At, Opening
    <3>3. Live' = {}
      BY <3>1, <3>2, HandledStep, StepLive
    <3>4. req'[s].step \notin Opening
      BY <1>0, <2>1, <3>1, HandledStep, StepOpens
    <3> QED
      BY <3>3, <3>4
  <2> QED
    BY <2>2, <2>3
<1> QED
  BY <1>3, <1>4

-----------------------------------------------------------------------------
(* The loads of the runs.                                                  *)

RunInv ==
  /\ IInv
  /\ load # "overlapping" => SerialInv
  /\ load = "reliable" => Resets /\ LoggedOut

LEMMA ActsAlone ==
  ASSUME SerialInv, load # "overlapping", NEW s \in Acting
  PROVE  s \in Requests /\ Others(s)
<1>1. CASE \A t \in Requests : At(t, "idle")
  BY <1>1 DEF Acting, Others
<1>2. CASE ~ \A t \in Requests : At(t, "idle")
  BY <1>2 DEF Acting, Others, SerialInv, OneRequest
<1> QED
  BY <1>1, <1>2

LEMMA IdleBegins ==
  Init => SerialInv /\ Resets /\ LoggedOut /\ Ledger!Init
<1> SUFFICES ASSUME Init PROVE SerialInv /\ Resets /\ LoggedOut /\ Ledger!Init
  OBVIOUS
<1>1. \A s \in Requests : req[s] = Idle
  BY DEF Init
<1>2. SerialInv
  BY <1>1 DEF SerialInv, OneRequest, ActiveMints, Mints, At, Idle
<1>3. Resets
  BY <1>1 DEF Init, Resets, At, Idle
<1>4. LoggedOut /\ Ledger!Init
  BY DEF Init, LoggedOut, Live, Ledger!Init
<1> QED
  BY <1>2, <1>3, <1>4

LEMMA RunInit == MCInit => RunInv
BY IdleBegins, InitInv DEF MCInit, RunInv

LEMMA RunNext ==
  ASSUME RunInv, [MCNext]_<<vars, load>>
  PROVE  RunInv'
<1>0. UNCHANGED load /\ IInv /\ IInv' /\ TypeOK
  <2>1. [Next]_vars
    BY DEF MCNext, MCStep, Acting, Next
  <2> QED
    BY <2>1, InvStep DEF RunInv, MCNext, IInv
<1>1. ASSUME load # "overlapping" PROVE SerialInv'
  <2>0. SerialInv
    BY <1>1 DEF RunInv
  <2>1. ASSUME NEW s \in Acting, HolderStep(s) \/ PasswordStep(s) \/ AdminStep(s)
        PROVE  SerialInv'
    BY <1>0, <1>1, <2>0, <2>1, ActsAlone, SerialNext DEF Step
  <2>2. ASSUME NEW s \in Requests, Fail(s) PROVE SerialInv'
    <3>1. Others(s)
      BY <2>0, <2>2 DEF SerialInv, OneRequest, Others, Fail
    <3> QED
      BY <1>0, <2>0, <2>2, <3>1, SerialNext DEF Step
  <2>3. CASE UNCHANGED <<account, req>>
    BY <2>0, <2>3 DEF SerialInv, OneRequest, ActiveMints, At
  <2> QED
    BY <2>1, <2>2, <2>3 DEF MCNext, MCStep, ExpireToken, vars
<1>2. ASSUME load = "reliable" PROVE Resets' /\ LoggedOut'
  <2>0. SerialInv /\ Resets /\ LoggedOut /\ load # "overlapping"
    BY <1>2 DEF RunInv
  <2>1. ASSUME NEW s \in Acting, HolderStep(s) \/ PasswordStep(s) \/ AdminStep(s)
        PROVE  Resets' /\ LoggedOut'
    <3>1. s \in Requests /\ Others(s) /\ Handled(s)
      BY <2>0, <2>1, ActsAlone DEF Handled
    <3> QED
      BY <1>0, <2>0, <3>1, ResetsNext, LoggedOutNext
  <2>2. ASSUME Live' \subseteq Live, UNCHANGED <<account, req, reset, uses>>
        PROVE  Resets' /\ LoggedOut'
    BY <2>0, <2>2 DEF Resets, LoggedOut, At
  <2>3. ASSUME NEW g \in Grants, ExpireToken(g) PROVE Resets' /\ LoggedOut'
    BY <1>0, <2>2, <2>3, ExpiryLive
  <2>4. CASE UNCHANGED <<vars, load>>
    BY <2>2, <2>4 DEF vars, Live
  <2> QED
    BY <1>2, <2>1, <2>3, <2>4 DEF MCNext, MCStep
<1> QED
  BY <1>0, <1>1, <1>2 DEF RunInv

\* A password reset link, used by requests that come one at a time and
\* complete, sets the password once: the reset row is closed before another
\* request can find it open (resetPassword in auth.service.ts).
THEOREM ResetSetsOnce == MCSpec => []ReliableResetSingleUse
<1>1. RunInv => ReliableResetSingleUse
  BY DEF RunInv, Resets, ReliableResetSingleUse, ResetSingleUse
<1> QED
  BY <1>1, RunInit, RunNext, PTL DEF MCSpec

\* When requests come one at a time and complete, a suspended account is left
\* with no refresh token that works, whichever of the two suspensions put it
\* there (updateUserStatus and suspendCompany): none of its sessions can be
\* opened or refreshed before the tokens are deleted.
THEOREM SuspendedStaysOut == MCSpec => []ReliableSuspendedLoggedOut
<1>1. RunInv => ReliableSuspendedLoggedOut
  BY DEF RunInv, LoggedOut, ReliableSuspendedLoggedOut, SuspendedLoggedOut, At
<1> QED
  BY <1>1, RunInit, RunNext, PTL DEF MCSpec

\* When requests come one at a time, whether or not they stop half way, the
\* handlers implement the ledger of grants: each is issued once, to an active
\* account, and one that was withdrawn stays withdrawn.
THEOREM LedgerImplemented == MCSpec => SerialSessionLedger
<1>1. MCInit => Ledger!Init
  BY IdleBegins DEF MCInit
<1>2. ASSUME RunInv, [MCNext]_<<vars, load>>
      PROVE  [load # "overlapping" => Ledger!Next]_Ledger!vars
  <2>1. CASE UNCHANGED <<vars, load>>
    BY <2>1 DEF vars, Ledger!vars, Live
  <2>2. ASSUME MCNext, load # "overlapping" PROVE Ledger!Next
    <3>0. IInv /\ SerialInv
      BY <1>2, <2>2 DEF RunInv
    <3>1. ASSUME NEW s \in Requests, Step(s) PROVE Ledger!Next
      BY <3>0, <3>1, LedgerStep
    <3>2. ASSUME NEW g \in Grants, ExpireToken(g) PROVE Ledger!Next
      BY <3>0, <3>2, LedgerExpiry
    <3> QED
      BY <2>2, <3>1, <3>2 DEF MCNext, MCStep, Acting, Step
  <2> QED
    BY <1>2, <2>1, <2>2
<1> QED
  BY <1>1, <1>2, RunInit, RunNext, PTL DEF MCSpec, SerialSessionLedger
=============================================================================
