------------------------- MODULE ClientSessionProofs -------------------------
(***************************************************************************)
(* Theorems about ClientSession: its type invariant, that no call waits    *)
(* for a refresh that is over, and what orderly use of a tab keeps up.     *)
(*                                                                         *)
(* The invariant of orderly use has a part for each of three situations:   *)
(* Loading, while the session context asks who the user is; InUse, with a  *)
(* user shown; SignedOut, with none.  What carries it is the refresh       *)
(* token: with a user there is always one that is good, in the cookie or   *)
(* in the answer on its way, and without one the cookie is good for        *)
(* nothing, so that no refresh brings back somebody else.                  *)
(***************************************************************************)
EXTENDS MCClientSession, TLAPS

LEMMA OwnerType ==
  ASSUME NEW g \in Grants \cup {NoGrant}
  PROVE  OwnerOf(g) \in Accounts \cup {NoAccount}
BY DEF OwnerOf, Grants

LEMMA NewGrantType ==
  ASSUME NEW a, \E g \in Unused : g[1] = a
  PROVE  NewGrant(a) \in Grants /\ OwnerOf(NewGrant(a)) = a /\ NewGrant(a) # NoGrant
<1>1. NewGrant(a) \in Unused /\ NewGrant(a)[1] = a
  BY DEF NewGrant
<1>2. NewGrant(a) \in Grants
  BY <1>1 DEF Unused
<1> QED
  BY <1>1, <1>2, ClientAssumption DEF OwnerOf

LEMMA SendType ==
  ASSUME NEW k \in {"api", "me", "login", "verify", "logout"},
         NEW a \in Accounts \cup {NoAccount}
  PROVE  Send(k, a) \in CallRecord /\ Send(k, a).phase = "sent"
BY DEF Send, NoCall, CallRecord

LEMMA SlotTypes ==
  NoCall \in CallRecord /\ NoRefresh \in Refresh /\ NoCall.phase = "idle"
    /\ NoRefresh.phase = "none"
BY DEF NoCall, CallRecord, NoRefresh, Refresh

LEMMA AskingType ==
  ASSUME NEW g \in Grants \cup {NoGrant}
  PROVE  /\ Asking(g) \in Refresh /\ Asking(g).phase = "sent"
         /\ Answered(g) \in Refresh /\ Answered(g).phase = "answered"
BY DEF Asking, Answered, Refresh

(* What each shorthand keeps of the type invariant.                        *)

CallsOK == /\ call \in [Slots -> CallRecord]
           /\ \A c \in Slots : call[c].phase = "idle" => call[c] = NoCall

FlightOK == flight \in Refresh /\ flight.phase # "syncing"

BootOK == boot \in Refresh /\ boot.phase # "stored"

RestOK ==
  /\ valid \subseteq Grants
  /\ cookie \in Grants \cup {NoGrant} /\ jwt \in Accounts \cup {NoAccount}
  /\ user \in Accounts \cup {NoAccount} /\ socket \in Accounts \cup {NoAccount}
  /\ expired \in BOOLEAN

LEMMA TypeParts ==
  /\ TypeOK <=> CallsOK /\ FlightOK /\ BootOK /\ RestOK
  /\ TypeOK' <=> CallsOK' /\ FlightOK' /\ BootOK' /\ RestOK'
BY DEF TypeOK, CallsOK, FlightOK, BootOK, RestOK

LEMMA SettleType ==
  ASSUME CallsOK, BootOK, NEW Done, Settle(Done)
  PROVE  CallsOK' /\ BootOK'
<1>1. CallsOK'
  BY SlotTypes DEF CallsOK, Settle
<1>2. BootOK'
  BY SlotTypes DEF BootOK, Settle
<1> QED
  BY <1>1, <1>2

\* A call that is sent in place of another.
LEMMA SentType ==
  ASSUME CallsOK, NEW c \in Slots, NEW r \in CallRecord, r.phase # "idle",
         call' = [call EXCEPT ![c] = r]
  PROVE  CallsOK'
BY DEF CallsOK

LEMMA SetUserType ==
  ASSUME RestOK, NEW u \in Accounts \cup {NoAccount}, SetUser(u),
         jwt' \in Accounts \cup {NoAccount}
  PROVE  user' \in Accounts \cup {NoAccount} /\ socket' \in Accounts \cup {NoAccount}
BY DEF RestOK, SetUser

LEMMA MintType ==
  ASSUME RestOK, NEW a, NEW Gone, Mint(a, Gone)
  PROVE  /\ valid' \subseteq Grants
         /\ NewGrant(a) \in Grants /\ OwnerOf(NewGrant(a)) = a /\ NewGrant(a) # NoGrant
<1>1. NewGrant(a) \in Grants /\ OwnerOf(NewGrant(a)) = a /\ NewGrant(a) # NoGrant
  BY NewGrantType DEF Mint
<1> QED
  BY <1>1 DEF Mint, RestOK

LEMMA RotateType ==
  ASSUME RestOK, NEW asked, NEW answered, Rotate(asked, answered)
  PROVE  valid' \subseteq Grants /\ answered \in Refresh /\ answered.phase = "answered"
<1>1. CASE Mint(OwnerOf(asked.token), {asked.token})
           /\ answered = Answered(NewGrant(OwnerOf(asked.token)))
  BY <1>1, MintType, AskingType
<1>2. CASE valid' = valid /\ answered = Answered(NoGrant)
  BY <1>2, AskingType DEF RestOK
<1> QED
  BY <1>1, <1>2 DEF Rotate

-----------------------------------------------------------------------------
(* Every step keeps the types.                                             *)

LEMMA CallStepType ==
  ASSUME TypeOK, NEW c \in Slots,
         CallStep(c) \/ ThrowCall(c) \/ LoggedOut(c, FALSE)
  PROVE  TypeOK'
<1> USE TypeParts
<1>0. CallsOK /\ FlightOK /\ BootOK /\ RestOK /\ call[c] \in CallRecord
  BY DEF CallsOK
<1>1. CASE ReturnCall(c)
  <2>1. CallsOK' /\ BootOK'
    BY <1>0, <1>1, SettleType DEF ReturnCall
  <2>2. call[c].who \in Accounts \cup {NoAccount} /\ jwt' = jwt
    BY <1>0, <1>1 DEF ReturnCall, CallRecord, storeVars
  <2>3. user' \in Accounts \cup {NoAccount} /\ socket' \in Accounts \cup {NoAccount}
    <3>1. CASE SetUser(call[c].who)
      BY <1>0, <2>2, <3>1, SetUserType DEF RestOK
    <3>2. CASE UNCHANGED <<user, socket>>
      BY <1>0, <3>2 DEF RestOK
    <3> QED
      BY <1>1, <3>1, <3>2 DEF ReturnCall
  <2> QED
    BY <1>0, <1>1, <2>1, <2>3 DEF ReturnCall, RestOK, FlightOK, storeVars
<1>2. CASE ThrowCall(c)
  <2>1. CallsOK' /\ BootOK'
    BY <1>0, <1>2, SettleType DEF ThrowCall
  <2> QED
    BY <1>0, <1>2, <2>1 DEF ThrowCall, RestOK, FlightOK, storeVars
<1>3. CASE AwaitRefresh(c)
  <2>1. CallsOK'
    <3> DEFINE r == [call[c] EXCEPT !.phase = "waiting"]
    <3>1. call' = [call EXCEPT ![c] = r]
      BY <1>3 DEF AwaitRefresh
    <3>2. r \in CallRecord /\ r.phase # "idle"
      BY <1>0 DEF CallRecord
    <3> HIDE DEF r
    <3> QED
      BY <1>0, <3>1, <3>2, SentType
  <2>2. FlightOK'
    BY <1>0, <1>3, AskingType DEF AwaitRefresh, FlightOK, RestOK
  <2> QED
    BY <1>0, <1>3, <2>1, <2>2 DEF AwaitRefresh, RestOK, BootOK, storeVars
<1>4. CASE LoggedIn(c)
  <2>1. CallsOK' /\ BootOK'
    BY <1>0, <1>4, SettleType DEF LoggedIn
  <2>2. call[c].who \in Accounts \cup {NoAccount} /\ jwt' = call[c].who
    BY <1>0, <1>4 DEF LoggedIn, CallRecord
  <2>3. user' \in Accounts \cup {NoAccount} /\ socket' \in Accounts \cup {NoAccount}
    BY <1>0, <1>4, <2>2, SetUserType DEF LoggedIn
  <2>4. valid' \subseteq Grants /\ cookie' \in Grants
    BY <1>0, <1>4, MintType DEF LoggedIn
  <2> QED
    BY <1>0, <1>4, <2>1, <2>2, <2>3, <2>4 DEF LoggedIn, RestOK, FlightOK
<1>5. ASSUME NEW b \in BOOLEAN, LoggedOut(c, b) PROVE TypeOK'
  <2>1. CallsOK' /\ BootOK'
    BY <1>0, <1>5, SettleType DEF LoggedOut
  <2>2. user' \in Accounts \cup {NoAccount} /\ socket' \in Accounts \cup {NoAccount}
    BY <1>0, <1>5, SetUserType DEF LoggedOut
  <2> QED
    BY <1>0, <1>5, <2>1, <2>2 DEF LoggedOut, RestOK, FlightOK
<1> QED
  BY <1>1, <1>2, <1>3, <1>4, <1>5 DEF CallStep

LEMMA FlightStepType ==
  ASSUME TypeOK, FlightStep \/ LoseFlight
  PROVE  TypeOK'
<1> USE TypeParts
<1>0. CallsOK /\ FlightOK /\ BootOK /\ RestOK
  OBVIOUS
<1>1. CASE ServeFlight
  <2>1. valid' \subseteq Grants /\ FlightOK'
    BY <1>0, <1>1, RotateType DEF ServeFlight, FlightOK
  <2> QED
    BY <1>0, <1>1, <2>1 DEF ServeFlight, RestOK, BootOK, CallsOK, storeVars
<1>2. CASE LoseFlight
  <2>1. FlightOK'
    BY <1>2, AskingType DEF LoseFlight, Lost, FlightOK
  <2> QED
    BY <1>0, <1>2, <2>1 DEF LoseFlight, RestOK, BootOK, CallsOK, storeVars
<1>3. CASE StoreToken
  <2>1. FlightOK' /\ flight.token \in Grants \cup {NoGrant}
    BY <1>0, <1>3 DEF StoreToken, FlightOK, Refresh
  <2>2. cookie' \in Grants \cup {NoGrant} /\ jwt' \in Accounts \cup {NoAccount}
    BY <1>3, <2>1, OwnerType DEF StoreToken
  <2> QED
    BY <1>0, <1>3, <2>1, <2>2 DEF StoreToken, RestOK, BootOK, CallsOK
<1>4. CASE ResumeCalls
  <2>1. CallsOK'
    <3>1. Send("me", jwt) \in CallRecord /\ Send("me", jwt).phase = "sent"
      BY <1>0, SendType DEF RestOK
    <3>2. ASSUME NEW c \in Slots
          PROVE  /\ call'[c] \in CallRecord
                 /\ call'[c].phase = "idle" => call'[c] = NoCall
      <4> DEFINE r == [call[c] EXCEPT !.phase = "sent", !.retry = TRUE,
                         !.who = IF call[c].kind = "verify" THEN @ ELSE jwt]
      <4>1. r \in CallRecord /\ r.phase = "sent"
        BY <1>0 DEF CallsOK, CallRecord, RestOK
      <4>2. call'[c] \in {Send("me", jwt), r, call[c]}
        BY <1>4 DEF ResumeCalls
      <4> HIDE DEF r
      <4> QED
        BY <1>0, <3>1, <4>1, <4>2 DEF CallsOK
    <3>3. call' = [c \in Slots |-> call'[c]]
      BY <1>4 DEF ResumeCalls
    <3> QED
      BY <3>2, <3>3 DEF CallsOK
  <2>2. socket' \in Accounts \cup {NoAccount}
    BY <1>0, <1>4, OwnerType DEF ResumeCalls, FlightOK, Refresh
  <2> QED
    BY <1>0, <1>4, <2>1, <2>2, SlotTypes DEF ResumeCalls, RestOK, BootOK, FlightOK, storeVars
<1>5. CASE FailRefresh
  <2>1. CallsOK' /\ BootOK'
    BY <1>0, <1>5, SettleType DEF FailRefresh
  <2>2. jwt' \in Accounts \cup {NoAccount}
    BY <1>0, <1>5 DEF FailRefresh, RestOK
  <2>3. user' \in Accounts \cup {NoAccount} /\ socket' \in Accounts \cup {NoAccount}
    <3>1. CASE expired
      BY <1>0, <1>5, <3>1 DEF FailRefresh, RestOK
    <3>2. CASE ~expired
      BY <1>0, <1>5, <2>2, <3>2, SetUserType DEF FailRefresh
    <3> QED
      BY <3>1, <3>2
  <2> QED
    BY <1>0, <1>5, <2>1, <2>2, <2>3, SlotTypes DEF FailRefresh, RestOK, FlightOK
<1> QED
  BY <1>1, <1>2, <1>3, <1>4, <1>5 DEF FlightStep

LEMMA BootStepType ==
  ASSUME TypeOK, BootStep \/ LoseBoot \/ RefreshSession \/ Reload
  PROVE  TypeOK'
<1> USE TypeParts
<1>0. CallsOK /\ FlightOK /\ BootOK /\ RestOK
  OBVIOUS
<1>1. CASE ServeBoot
  <2>1. valid' \subseteq Grants /\ BootOK'
    BY <1>0, <1>1, RotateType DEF ServeBoot, BootOK
  <2> QED
    BY <1>0, <1>1, <2>1 DEF ServeBoot, RestOK, FlightOK, CallsOK, storeVars
<1>2. CASE LoseBoot
  <2>1. BootOK'
    BY <1>2, AskingType DEF LoseBoot, Lost, BootOK
  <2> QED
    BY <1>0, <1>2, <2>1 DEF LoseBoot, RestOK, FlightOK, CallsOK, storeVars
<1>3. CASE SyncUser
  <2>1. boot.token \in Grants \cup {NoGrant}
    BY <1>0 DEF BootOK, Refresh
  <2>2. cookie' \in Grants \cup {NoGrant} /\ jwt' \in Accounts \cup {NoAccount}
    BY <1>3, <2>1, OwnerType DEF SyncUser
  <2>3. CallsOK'
    BY <1>0, <1>3, <2>1, OwnerType, SendType, SentType DEF SyncUser, Slots
  <2>4. BootOK'
    BY <1>3 DEF SyncUser, BootOK, NoRefresh, Refresh
  <2> QED
    BY <1>0, <1>3, <2>2, <2>3, <2>4 DEF SyncUser, RestOK, FlightOK
<1>4. CASE FailBoot
  <2>1. user' \in Accounts \cup {NoAccount} /\ socket' \in Accounts \cup {NoAccount}
    BY <1>0, <1>4, SetUserType DEF FailBoot
  <2> QED
    BY <1>0, <1>4, <2>1, SlotTypes DEF FailBoot, RestOK, BootOK, FlightOK, CallsOK
<1>5. CASE RefreshSession
  <2>1. BootOK'
    BY <1>0, <1>5, AskingType DEF RefreshSession, BootOK, RestOK
  <2> QED
    BY <1>0, <1>5, <2>1 DEF RefreshSession, RestOK, FlightOK, CallsOK, storeVars
<1>6. CASE Reload
  <2>1. BootOK'
    BY <1>0, <1>6, AskingType DEF Reload, BootOK, RestOK
  <2>2. CallsOK' /\ FlightOK'
    BY <1>6, SlotTypes DEF Reload, CallsOK, FlightOK
  <2> QED
    BY <1>0, <1>6, <2>1, <2>2 DEF Reload, RestOK, storeVars
<1> QED
  BY <1>1, <1>2, <1>3, <1>4, <1>5, <1>6 DEF BootStep

LEMMA UserStepType ==
  ASSUME TypeOK,
         \/ \E c \in Calls : Request(c)
         \/ \E c \in Calls, kind \in {"login", "verify"}, a \in Accounts : Login(c, kind, a)
         \/ \E c \in Calls : Logout(c)
         \/ \E a \in Accounts : Revoke(a)
  PROVE  TypeOK'
<1> USE TypeParts
<1>0. CallsOK /\ FlightOK /\ BootOK /\ RestOK
  OBVIOUS
<1>1. ASSUME NEW c \in Calls, Request(c) PROVE TypeOK'
  <2>1. CallsOK'
    BY <1>0, <1>1, SendType, SentType DEF Request, RestOK, Slots
  <2> QED
    BY <1>0, <1>1, <2>1 DEF Request, RestOK, BootOK, FlightOK, storeVars
<1>2. ASSUME NEW c \in Calls, NEW kind \in {"login", "verify"}, NEW a \in Accounts,
             Login(c, kind, a)
      PROVE  TypeOK'
  <2>1. CallsOK'
    BY <1>0, <1>2, SendType, SentType DEF Login, Slots
  <2> QED
    BY <1>0, <1>2, <2>1 DEF Login, RestOK, BootOK, FlightOK, storeVars
<1>3. ASSUME NEW c \in Calls, Logout(c) PROVE TypeOK'
  <2>1. CallsOK'
    BY <1>0, <1>3, SendType, SentType DEF Logout, Slots
  <2> QED
    BY <1>0, <1>3, <2>1 DEF Logout, RestOK, BootOK, FlightOK, storeVars
<1>4. ASSUME NEW a \in Accounts, Revoke(a) PROVE TypeOK'
  BY <1>0, <1>4 DEF Revoke, RestOK, BootOK, FlightOK, CallsOK, storeVars, pageVars
<1> QED
  BY <1>1, <1>2, <1>3, <1>4

\* The session of a tab stays well formed: an idle slot is empty, and each of
\* the two refreshes goes through its own phases only.
THEOREM TypeCorrect == Spec => []TypeOK
<1>1. Init => TypeOK
  BY SlotTypes, AskingType DEF Init, TypeOK
<1>2. TypeOK /\ [Next]_vars => TypeOK'
  <2> SUFFICES ASSUME TypeOK, [Next]_vars PROVE TypeOK'
    OBVIOUS
  <2>1. CASE UNCHANGED vars
    BY <2>1 DEF TypeOK, vars, storeVars, pageVars
  <2>2. CASE Next
    BY <2>2, CallStepType, FlightStepType, BootStepType, UserStepType
      DEF Next, LoginStep, LossStep
  <2> QED
    BY <2>1, <2>2
<1> QED
  BY <1>1, <1>2, PTL DEF Spec

\* No call joins refreshInFlight after it was settled: whoever waits, waits for
\* a refresh that is under way.
THEOREM NobodyWaitsInVain == Spec => []WaitersHaveAFlight
<1>1. Init => WaitersHaveAFlight
  BY SlotTypes DEF Init, WaitersHaveAFlight, Waiting
<1>2. TypeOK /\ WaitersHaveAFlight /\ [Next]_vars => WaitersHaveAFlight'
  <2> SUFFICES ASSUME TypeOK, WaitersHaveAFlight, [Next]_vars,
                      NEW c \in Slots, call'[c].phase = "waiting",
                      flight'.phase = "none"
               PROVE  FALSE
    BY DEF WaitersHaveAFlight, Waiting
  <2> USE SlotTypes
  <2>0. call \in [Slots -> CallRecord] /\ flight \in Refresh
    BY DEF TypeOK
  <2>1. CASE flight' = flight /\ \E d \in Slots : \E r : r.phase # "waiting" /\ call' = [call EXCEPT ![d] = r]
    BY <2>0, <2>1 DEF WaitersHaveAFlight, Waiting
  <2>2. CASE flight' = flight /\ \E Done : call' = [d \in Slots |-> IF d \in Done THEN NoCall ELSE call[d]]
    BY <2>0, <2>2 DEF WaitersHaveAFlight, Waiting
  <2>3. CASE call' = call /\ flight' = flight
    BY <2>3 DEF WaitersHaveAFlight, Waiting
  <2>4. CASE call' = call /\ flight'.phase # "none"
    BY <2>4
  <2>5. ASSUME NEW d \in Slots, CallStep(d) \/ ThrowCall(d) \/ LoggedOut(d, FALSE) PROVE FALSE
    <3>1. CASE AwaitRefresh(d)
      <4>1. flight'.phase # "none"
        BY <3>1 DEF AwaitRefresh, Asking
      <4> QED
        BY <4>1
    <3>2. CASE ~AwaitRefresh(d)
      BY <2>5, <3>2, <2>2 DEF CallStep, ReturnCall, ThrowCall, LoggedIn, LoggedOut, Settle
    <3> QED
      BY <3>1, <3>2
  <2>6. CASE FlightStep \/ LoseFlight
    <3>1. CASE ServeFlight \/ LoseFlight
      BY <2>4, <3>1 DEF ServeFlight, LoseFlight, Rotate, Lost, Answered
    <3>2. CASE StoreToken
      BY <2>0, <2>4, <3>2 DEF StoreToken, Refresh
    <3>3. CASE ResumeCalls
      BY <2>0, <3>3 DEF ResumeCalls, Waiting, Send, NoCall, CallRecord
    <3>4. CASE FailRefresh
      BY <2>0, <3>4 DEF FailRefresh, Settle, Waiting
    <3> QED
      BY <2>6, <3>1, <3>2, <3>3, <3>4 DEF FlightStep
  <2>7. CASE BootStep \/ LoseBoot \/ RefreshSession \/ Reload
    <3>1. CASE SyncUser
      <4>1. Send("me", OwnerOf(boot.token)).phase # "waiting"
        BY DEF Send, NoCall
      <4> QED
        BY <2>1, <3>1, <4>1 DEF SyncUser, Slots
    <3>2. CASE Reload
      BY <3>2 DEF Reload
    <3>3. CASE ~SyncUser /\ ~Reload
      BY <2>7, <2>3, <3>3 DEF BootStep, ServeBoot, LoseBoot, RefreshSession, FailBoot
    <3> QED
      BY <3>1, <3>2, <3>3
  <2>8. ASSUME NEW d \in Calls, NEW k, NEW a,
               Request(d) \/ Login(d, k, a) \/ Logout(d)
        PROVE  FALSE
    <3>1. \A x, y : Send(x, y).phase # "waiting"
      BY DEF Send, NoCall
    <3>2. flight' = flight /\ \E r : r.phase # "waiting" /\ call' = [call EXCEPT ![d] = r]
      BY <2>8, <3>1 DEF Request, Login, Logout
    <3> QED
      BY <2>1, <3>2 DEF Slots
  <2>9. CASE UNCHANGED vars \/ \E a \in Accounts : Revoke(a)
    BY <2>3, <2>9 DEF vars, pageVars, Revoke
  <2> QED
    BY <2>5, <2>6, <2>7, <2>8, <2>9 DEF Next, LoginStep, LossStep
<1> QED
  BY <1>1, <1>2, TypeCorrect, PTL DEF Spec

-----------------------------------------------------------------------------
(* Orderly use.                                                            *)

\* While the session context asks who the user is, nothing else is under way.  It
\* presents the cookie of the user shown, if one is, and if the cookie is good
\* for nothing there is no user to lose.
Loading ==
  boot.phase # "none" =>
    /\ flight.phase = "none" /\ socket = user
    /\ \A c \in Slots : call[c].phase # "idle" => c = "boot" /\ boot.phase = "syncing"
    /\ boot.phase = "sent" =>
         /\ boot.token = cookie
         /\ user # NoAccount => cookie \in valid /\ OwnerOf(cookie) = user
    /\ boot.phase = "answered" /\ boot.token = NoGrant => user = NoAccount /\ cookie \notin valid
    /\ boot.phase = "answered" /\ boot.token # NoGrant =>
         boot.token \in valid /\ user \in {NoAccount, OwnerOf(boot.token)}
    /\ boot.phase = "syncing" =>
         /\ cookie \in valid /\ OwnerOf(cookie) = jwt /\ user \in {NoAccount, jwt}
         /\ call["boot"] = Send("me", jwt)

\* A user holds a refresh token that is good, in the cookie or in the answer to
\* the one refresh in flight; every call speaks for that user, and a logout waits
\* for all others.
InUse ==
  boot.phase = "none" /\ user # NoAccount =>
    /\ socket = user /\ jwt = user
    /\ flight.phase # "answered" => cookie \in valid /\ OwnerOf(cookie) = user
    /\ flight.phase = "answered" => flight.token \in valid /\ OwnerOf(flight.token) = user
    /\ flight.phase \in {"sent", "stored"} => flight.token = cookie
    /\ \A c \in Slots : call[c].phase # "idle" =>
         \/ call[c].kind = "api" /\ call[c].who = user
         \/ call[c].kind = "me" /\ call[c].who = user
         \/ /\ call[c].kind = "logout" /\ c \in Calls /\ flight.phase = "none"
            /\ \A d \in Slots \ {c} : call[d].phase = "idle"

\* Without a user there is no token, and the cookie is good for nothing; all that
\* can be under way is a login, and the refresh that its second factor, refused,
\* has asked for.
SignedOut ==
  boot.phase = "none" /\ user = NoAccount =>
    /\ socket = NoAccount /\ jwt = NoAccount /\ cookie \notin valid
    /\ \/ flight.phase = "none"
       \/ flight.phase = "sent" /\ flight.token = cookie
       \/ flight.phase = "answered" /\ flight.token = NoGrant
    /\ \A c \in Slots : call[c].phase # "idle" =>
         /\ call[c].kind \in {"login", "verify"} /\ call[c].who \in Accounts /\ ~call[c].retry
         /\ call[c].phase = "sent" => flight.phase = "none"
         /\ \A d \in Slots \ {c} : call[d].phase = "idle"

Orderly == Loading /\ InUse /\ SignedOut

\* Who is shown is lost by a logout or a page load only.
Survives ==
  user # NoAccount /\ user' = NoAccount => Reload \/ \E c \in Calls : LoggedOut(c, TRUE)

LEMMA ValidOwner ==
  ASSUME TypeOK, NEW g \in valid
  PROVE  g \in Grants /\ g # NoGrant /\ OwnerOf(g) \in Accounts /\ OwnerOf(g) # NoAccount
BY ClientAssumption DEF TypeOK, OwnerOf, Grants

LEMMA RotateGood ==
  ASSUME TypeOK, NEW asked, NEW answered, asked.token \in valid, Rotate(asked, answered)
  PROVE  /\ answered.phase = "answered" /\ answered.token \in valid' /\ answered.token # NoGrant
         /\ OwnerOf(answered.token) = OwnerOf(asked.token)
<1>1. Mint(OwnerOf(asked.token), {asked.token})
      /\ answered = Answered(NewGrant(OwnerOf(asked.token)))
  BY DEF Rotate
<1>2. NewGrant(OwnerOf(asked.token)) \in valid'
  BY <1>1 DEF Mint
<1> QED
  BY <1>1, <1>2, NewGrantType DEF Mint, Answered

LEMMA RotateBad ==
  ASSUME NEW asked, NEW answered, asked.token \notin valid, Rotate(asked, answered)
  PROVE  answered.phase = "answered" /\ answered.token = NoGrant /\ UNCHANGED valid
BY DEF Rotate, Answered

LEMMA BootOrderly ==
  ASSUME TypeOK, Orderly, BootStep
  PROVE  Orderly' /\ Survives
<1>0. /\ flight.phase = "none" /\ socket = user /\ boot.phase # "none"
      /\ \A c \in Slots : call[c].phase # "idle" => c = "boot" /\ boot.phase = "syncing"
  BY DEF BootStep, ServeBoot, SyncUser, FailBoot, Rotate, Orderly, Loading
<1>1. CASE ServeBoot
  <2>1. boot.phase = "sent" /\ UNCHANGED <<cookie, jwt, user, socket, flight, call>>
    BY <1>1 DEF ServeBoot, Rotate, storeVars
  <2>2. boot.token = cookie /\ (user # NoAccount => cookie \in valid /\ OwnerOf(cookie) = user)
    BY <2>1 DEF Orderly, Loading
  <2>3. CASE cookie \in valid
    BY <1>0, <1>1, <2>1, <2>2, <2>3, RotateGood
    DEF ServeBoot, Orderly, Loading, InUse, SignedOut, Survives
  <2>4. CASE cookie \notin valid
    BY <1>0, <1>1, <2>1, <2>2, <2>4, RotateBad
    DEF ServeBoot, Orderly, Loading, InUse, SignedOut, Survives
  <2> QED
    BY <2>3, <2>4
<1>2. CASE SyncUser
  <2>1. boot.token \in valid /\ user \in {NoAccount, OwnerOf(boot.token)}
    BY <1>2 DEF SyncUser, Orderly, Loading
  <2>2. /\ cookie' = boot.token /\ jwt' = OwnerOf(boot.token) /\ boot'.phase = "syncing"
        /\ UNCHANGED <<valid, user, socket, flight>>
        /\ call' = [call EXCEPT !["boot"] = Send("me", jwt')]
    BY <1>2 DEF SyncUser, NoRefresh
  <2>3. call'["boot"] = Send("me", jwt') /\ \A c \in Slots \ {"boot"} : call'[c] = call[c]
    BY <2>2 DEF TypeOK, Slots
  <2> QED
    BY <1>0, <2>1, <2>2, <2>3 DEF Orderly, Loading, InUse, SignedOut, Survives
<1>3. CASE FailBoot
  <2>1. user = NoAccount /\ cookie \notin valid /\ boot.phase = "answered"
    BY <1>3 DEF FailBoot, Orderly, Loading
  <2>2. /\ boot'.phase = "none" /\ jwt' = NoAccount /\ user' = NoAccount /\ socket' = NoAccount
        /\ UNCHANGED <<valid, cookie, flight, call>>
    BY <1>3, SlotTypes DEF FailBoot, SetUser
  <2> QED
    BY <1>0, <2>1, <2>2 DEF Orderly, Loading, InUse, SignedOut, Survives
<1> QED
  BY <1>1, <1>2, <1>3 DEF BootStep

LEMMA FlightOrderly ==
  ASSUME TypeOK, Orderly, FlightStep
  PROVE  Orderly' /\ Survives
<1>0. flight.phase # "none" /\ boot.phase = "none"
  BY DEF FlightStep, ServeFlight, StoreToken, ResumeCalls, FailRefresh, Rotate, Orderly, Loading
<1>1. CASE ServeFlight
  <2>1. flight.phase = "sent" /\ UNCHANGED <<cookie, jwt, user, socket, boot, call>>
    BY <1>1 DEF ServeFlight, Rotate, storeVars
  <2>2. flight.token = cookie
    BY <1>0, <2>1 DEF Orderly, InUse, SignedOut
  <2>3. CASE user # NoAccount
    <3>1. cookie \in valid /\ OwnerOf(cookie) = user
      BY <1>0, <2>1, <2>3 DEF Orderly, InUse
    <3>2. flight'.phase = "answered" /\ flight'.token \in valid' /\ OwnerOf(flight'.token) = user
      BY <1>1, <2>2, <3>1, RotateGood DEF ServeFlight
    <3> QED
      BY <1>0, <2>1, <2>3, <3>2 DEF Orderly, Loading, InUse, SignedOut, Survives
  <2>4. CASE user = NoAccount
    <3>1. cookie \notin valid
      BY <1>0, <2>4 DEF Orderly, SignedOut
    <3>2. flight'.phase = "answered" /\ flight'.token = NoGrant /\ UNCHANGED valid
      BY <1>1, <2>2, <3>1, RotateBad DEF ServeFlight
    <3> QED
      BY <1>0, <2>1, <2>4, <3>2 DEF Orderly, Loading, InUse, SignedOut, Survives
  <2> QED
    BY <2>3, <2>4
<1>2. CASE StoreToken
  <2>1. user # NoAccount
    BY <1>0, <1>2 DEF StoreToken, Orderly, SignedOut
  <2>2. flight.token \in valid /\ OwnerOf(flight.token) = user
    BY <1>0, <1>2, <2>1 DEF StoreToken, Orderly, InUse
  <2>3. /\ cookie' = flight.token /\ jwt' = user /\ flight'.phase = "stored"
        /\ flight'.token = flight.token /\ UNCHANGED <<valid, user, socket, boot, call>>
    BY <1>2, <2>2 DEF StoreToken, TypeOK, Refresh
  <2>4. \A c \in Slots : call[c].phase # "idle" => call[c].kind \in {"api", "me"}
    BY <1>0, <2>1 DEF Orderly, InUse
  <2> QED
    BY <1>0, <2>1, <2>2, <2>3, <2>4 DEF Orderly, Loading, InUse, SignedOut, Survives
<1>3. CASE ResumeCalls
  <2>1. flight.phase = "stored" /\ UNCHANGED <<valid, cookie, jwt, user, boot>>
    BY <1>3 DEF ResumeCalls, storeVars
  <2>2. user # NoAccount
    BY <1>0, <2>1 DEF Orderly, SignedOut
  <2>3. /\ socket = user /\ jwt = user /\ cookie \in valid /\ OwnerOf(cookie) = user
        /\ flight.token = cookie
        /\ \A c \in Slots : call[c].phase # "idle" =>
             call[c].kind \in {"api", "me"} /\ call[c].who = user
    BY <1>0, <2>1, <2>2 DEF Orderly, InUse
  <2>4. socket' = user /\ flight'.phase = "none"
    BY <1>3, <2>2, <2>3, SlotTypes DEF ResumeCalls
  <2>5. ASSUME NEW c \in Slots, call'[c].phase # "idle"
        PROVE  call'[c].kind \in {"api", "me"} /\ call'[c].who = user
    <3> DEFINE r == [call[c] EXCEPT !.phase = "sent", !.retry = TRUE,
                       !.who = IF call[c].kind = "verify" THEN @ ELSE jwt]
    <3>1. call[c] \in CallRecord
      BY DEF TypeOK
    <3>2. call'[c] = Send("me", jwt) \/ (c \in Waiting /\ call'[c] = r) \/ call'[c] = call[c]
      BY <1>3 DEF ResumeCalls
    <3>3. c \in Waiting => r.kind \in {"api", "me"} /\ r.who = user
      BY <2>3, <3>1 DEF CallRecord, Waiting
    <3>4. Send("me", jwt).kind = "me" /\ Send("me", jwt).who = user
      BY <2>3 DEF Send, NoCall
    <3> HIDE DEF r
    <3> QED
      BY <2>3, <2>5, <3>2, <3>3, <3>4
  <2> QED
    BY <1>0, <2>1, <2>2, <2>3, <2>4, <2>5 DEF Orderly, Loading, InUse, SignedOut, Survives
<1>4. CASE FailRefresh
  <2>1. user = NoAccount
    <3>1. NoGrant \notin valid
      BY ValidOwner
    <3> QED
      BY <1>0, <1>4, <3>1 DEF FailRefresh, Orderly, InUse
  <2>2. /\ jwt = NoAccount /\ socket = NoAccount /\ cookie \notin valid
        /\ \A c \in Slots : call[c].phase # "idle" => call[c].phase = "waiting"
    BY <1>0, <2>1 DEF Orderly, SignedOut, TypeOK, CallRecord
  <2>3. /\ jwt' = NoAccount /\ user' = NoAccount /\ socket' = NoAccount
        /\ flight'.phase = "none" /\ UNCHANGED <<valid, cookie>>
    BY <1>4, <2>1, <2>2, SlotTypes DEF FailRefresh, SetUser
  <2>4. boot'.phase = "none" /\ \A c \in Slots : call'[c].phase = "idle"
    BY <1>0, <1>4, <2>2, SlotTypes DEF FailRefresh, Settle, Waiting
  <2> QED
    BY <2>1, <2>2, <2>3, <2>4 DEF Orderly, Loading, InUse, SignedOut, Survives
<1> QED
  BY <1>1, <1>2, <1>3, <1>4 DEF FlightStep

LEMMA StartsOrderly ==
  ASSUME TypeOK, Orderly,
         \/ OnlyCalls /\ \E c \in Calls : Request(c)
         \/ Quiet /\ LoginStep
         \/ Quiet /\ Reload
  PROVE  Orderly' /\ Survives
<1> USE DEF storeVars
<1>1. ASSUME NEW c \in Calls, OnlyCalls, Request(c) PROVE Orderly' /\ Survives
  <2>1. /\ boot.phase = "none" /\ user # NoAccount
        /\ \A d \in Slots : call[d].kind \in {"none", "api", "me"}
    BY <1>1 DEF OnlyCalls, Request
  <2>2. call' = [call EXCEPT ![c] = Send("api", jwt)]
        /\ UNCHANGED <<valid, cookie, jwt, user, socket, flight, boot>>
    BY <1>1 DEF Request
  <2>3. /\ call'[c].kind = "api" /\ call'[c].who = jwt
        /\ \A d \in Slots \ {c} : call'[d] = call[d]
    BY <2>2 DEF TypeOK, Send, NoCall, Slots
  <2>4. \A d \in Slots : call'[d].phase # "idle" =>
          call'[d].kind \in {"api", "me"} /\ call'[d].who = user
    BY <2>1, <2>2, <2>3 DEF Orderly, InUse
  <2> QED
    BY <2>1, <2>2, <2>4 DEF Orderly, Loading, InUse, SignedOut, Survives
<1>2. ASSUME Quiet, NEW c \in Calls, NEW kind \in {"login", "verify"}, NEW a \in Accounts,
             Login(c, kind, a)
      PROVE  Orderly' /\ Survives
  <2>1. call' = [call EXCEPT ![c] = Send(kind, a)] /\ user = NoAccount
        /\ UNCHANGED <<valid, cookie, jwt, user, socket, flight, boot>>
    BY <1>2 DEF Login
  <2>2. /\ call'[c].kind = kind /\ call'[c].who = a /\ ~call'[c].retry
        /\ \A d \in Slots \ {c} : call'[d].phase = "idle"
    BY <1>2, <2>1 DEF TypeOK, Send, NoCall, Slots, Quiet
  <2> QED
    BY <1>2, <2>1, <2>2 DEF Quiet, Orderly, Loading, InUse, SignedOut, Survives
<1>3. ASSUME Quiet, NEW c \in Calls, Logout(c) PROVE Orderly' /\ Survives
  <2>1. call' = [call EXCEPT ![c] = Send("logout", NoAccount)] /\ user # NoAccount
        /\ UNCHANGED <<valid, cookie, jwt, user, socket, flight, boot>>
    BY <1>3 DEF Logout
  <2>2. call'[c].kind = "logout" /\ \A d \in Slots \ {c} : call'[d].phase = "idle"
    BY <1>3, <2>1 DEF TypeOK, Send, NoCall, Slots, Quiet
  <2> QED
    BY <1>3, <2>1, <2>2 DEF Quiet, Orderly, Loading, InUse, SignedOut, Survives
<1>4. CASE Quiet /\ RefreshSession
  <2>1. /\ boot'.phase = "sent" /\ boot'.token = cookie /\ user # NoAccount
        /\ UNCHANGED <<valid, cookie, jwt, user, socket, flight, call>>
    BY <1>4 DEF RefreshSession, Asking
  <2> QED
    BY <1>4, <2>1 DEF Quiet, Orderly, Loading, InUse, SignedOut, Survives
<1>5. CASE Quiet /\ Reload
  <2>1. /\ boot'.phase = "sent" /\ boot'.token = cookie /\ flight'.phase = "none"
        /\ user' = NoAccount /\ socket' = NoAccount /\ cookie' = cookie
        /\ \A c \in Slots : call'[c].phase = "idle"
    BY <1>5, SlotTypes DEF Reload, Asking
  <2> QED
    BY <1>5, <2>1 DEF Orderly, Loading, InUse, SignedOut, Survives
<1> QED
  BY <1>1, <1>2, <1>3, <1>4, <1>5 DEF LoginStep

LEMMA CallOrderly ==
  ASSUME TypeOK, Orderly, NEW c \in Slots, CallStep(c), JustMinted(c) => ReturnCall(c)
  PROVE  Orderly' /\ Survives
<1> USE DEF storeVars
<1>0. call[c].phase # "idle"
  BY DEF CallStep, ReturnCall, AwaitRefresh, Refused, LoggedIn, LoggedOut, ThrowCall
<1>1. CASE boot.phase # "none"
  <2>1. /\ c = "boot" /\ boot.phase = "syncing" /\ call[c] = Send("me", jwt)
        /\ cookie \in valid /\ OwnerOf(cookie) = jwt /\ user \in {NoAccount, jwt} /\ socket = user
        /\ flight.phase = "none" /\ \A d \in Slots \ {c} : call[d].phase = "idle"
    BY <1>0, <1>1 DEF Orderly, Loading
  <2>2. call[c].kind = "me" /\ call[c].who = jwt /\ jwt # NoAccount
    BY <2>1, ValidOwner DEF Send, NoCall
  <2>3. ReturnCall(c)
    BY <2>2 DEF JustMinted
  <2>4. /\ user' = jwt /\ jwt' = jwt /\ UNCHANGED <<valid, cookie, flight>>
        /\ socket' = jwt /\ boot'.phase = "none" /\ \A d \in Slots : call'[d].phase = "idle"
    BY <2>1, <2>2, <2>3, SlotTypes DEF ReturnCall, SetUser, Settle
  <2> QED
    BY <2>1, <2>2, <2>4 DEF Orderly, Loading, InUse, SignedOut, Survives
<1>2. CASE boot.phase = "none" /\ user # NoAccount
  <2>1. socket = user /\ jwt = user
    BY <1>2 DEF Orderly, InUse
  <2>2. CASE ReturnCall(c)
    <3>1. call[c].kind \in {"api", "me"} /\ call[c].who = user
      BY <1>0, <1>2, <2>2 DEF ReturnCall, Orderly, InUse
    <3>2. UNCHANGED <<valid, cookie, jwt, user, socket, flight>> /\ boot'.phase = "none"
      BY <1>2, <2>1, <2>2, <3>1 DEF ReturnCall, SetUser, Settle
    <3>3. \A d \in Slots : call'[d] = call[d] \/ call'[d].phase = "idle"
      BY <2>2, SlotTypes DEF ReturnCall, Settle
    <3> QED
      BY <1>2, <3>2, <3>3 DEF Orderly, Loading, InUse, SignedOut, Survives
  <2>3. CASE AwaitRefresh(c) /\ ~ReturnCall(c)
    <3>1. call[c].kind = "api" /\ call[c].who = user
      BY <1>0, <1>2, <2>3 DEF AwaitRefresh, Refused, Orderly, InUse, JustMinted
    <3>2. /\ UNCHANGED <<valid, cookie, jwt, user, socket, boot>>
          /\ call' = [call EXCEPT ![c].phase = "waiting"]
          /\ flight' = flight \/ (flight.phase = "none" /\ flight' = Asking(cookie))
      BY <2>3 DEF AwaitRefresh
    <3>3. /\ call'[c].kind = "api" /\ call'[c].who = user
          /\ \A d \in Slots \ {c} : call'[d] = call[d]
      BY <3>1, <3>2 DEF TypeOK, CallRecord
    <3>4. \A d \in Slots : call'[d].phase # "idle" =>
            call'[d].kind \in {"api", "me"} /\ call'[d].who = user
      BY <1>0, <1>2, <3>1, <3>3 DEF Orderly, InUse
    <3>5. CASE flight' = flight
      BY <1>2, <3>2, <3>4, <3>5 DEF Orderly, Loading, InUse, SignedOut, Survives
    <3>6. CASE flight.phase = "none" /\ flight'.phase = "sent" /\ flight'.token = cookie
      BY <1>2, <3>2, <3>4, <3>6 DEF Orderly, Loading, InUse, SignedOut, Survives
    <3> QED
      BY <3>2, <3>5, <3>6 DEF Asking
  <2>4. CASE LoggedIn(c)
    BY <1>0, <1>2, <2>4 DEF LoggedIn, Orderly, InUse
  <2>5. CASE LoggedOut(c, TRUE)
    <3>1. c \in Calls /\ flight.phase = "none" /\ \A d \in Slots \ {c} : call[d].phase = "idle"
      BY <1>0, <1>2, <2>5 DEF LoggedOut, Orderly, InUse
    <3>2. /\ cookie' = NoGrant /\ jwt' = NoAccount /\ user' = NoAccount /\ socket' = NoAccount
          /\ UNCHANGED <<valid, flight>>
      BY <2>5 DEF LoggedOut, SetUser
    <3>3. boot'.phase = "none" /\ \A d \in Slots : call'[d].phase = "idle"
      BY <1>2, <2>5, <3>1, SlotTypes DEF LoggedOut, Settle
    <3>4. NoGrant \notin valid
      BY ValidOwner
    <3> QED
      BY <2>5, <3>1, <3>2, <3>3, <3>4 DEF Orderly, Loading, InUse, SignedOut, Survives
  <2>6. CASE call[c].retry /\ ThrowCall(c) /\ ~ReturnCall(c)
    BY <1>0, <1>2, <2>6 DEF ThrowCall, JustMinted, Orderly, InUse
  <2> QED
    BY <2>2, <2>3, <2>4, <2>5, <2>6 DEF CallStep
<1>3. CASE boot.phase = "none" /\ user = NoAccount
  <2>1. /\ call[c].kind \in {"login", "verify"} /\ call[c].who \in Accounts /\ ~call[c].retry
        /\ call[c].phase = "sent" => flight.phase = "none"
        /\ \A d \in Slots \ {c} : call[d].phase = "idle"
        /\ socket = NoAccount /\ jwt = NoAccount /\ cookie \notin valid
    BY <1>0, <1>3 DEF Orderly, SignedOut
  <2>2. CASE AwaitRefresh(c)
    <3>1. /\ UNCHANGED <<valid, cookie, jwt, user, socket, boot>>
          /\ call' = [call EXCEPT ![c].phase = "waiting"]
          /\ flight.phase = "none" /\ flight' = Asking(cookie)
      BY <2>1, <2>2 DEF AwaitRefresh, Refused
    <3>2. /\ call'[c].kind = call[c].kind /\ call'[c].who = call[c].who
          /\ call'[c].retry = call[c].retry /\ call'[c].phase = "waiting"
          /\ \A d \in Slots \ {c} : call'[d] = call[d]
      BY <3>1 DEF TypeOK, CallRecord
    <3> QED
      BY <1>3, <2>1, <3>1, <3>2 DEF Orderly, Loading, InUse, SignedOut, Survives, Asking
  <2>3. CASE LoggedIn(c)
    <3>1. flight.phase = "none" /\ UNCHANGED flight
      BY <2>1, <2>3 DEF LoggedIn
    <3>2. /\ jwt' = call[c].who /\ user' = call[c].who /\ socket' = call[c].who
          /\ call[c].who # NoAccount
      BY <2>1, <2>3, ClientAssumption DEF LoggedIn, SetUser
    <3>3. cookie' \in valid' /\ OwnerOf(cookie') = call[c].who
      BY <2>3, NewGrantType DEF LoggedIn, Mint
    <3>4. boot'.phase = "none" /\ \A d \in Slots : call'[d].phase = "idle"
      BY <1>3, <2>1, <2>3, SlotTypes DEF LoggedIn, Settle
    <3> QED
      BY <1>3, <3>1, <3>2, <3>3, <3>4 DEF Orderly, Loading, InUse, SignedOut, Survives
  <2> QED
    BY <2>1, <2>2, <2>3 DEF CallStep, ReturnCall, LoggedOut
<1> QED
  BY <1>1, <1>2, <1>3

LEMMA OrderlyInit == MCInit => Orderly
<1> SUFFICES ASSUME Init PROVE Orderly
  BY DEF MCInit
<1> QED
  BY SlotTypes DEF Init, Orderly, Loading, InUse, SignedOut, Asking

OrderlyInv == TypeOK /\ (load = "orderly" => Orderly)

LEMMA OrderlyNext ==
  ASSUME OrderlyInv, TypeOK', [MCNext]_<<vars, load>>
  PROVE  OrderlyInv' /\ [load = "orderly" => Survives]_<<vars, load>>
<1>1. CASE UNCHANGED <<vars, load>>
  BY <1>1 DEF vars, storeVars, pageVars, OrderlyInv, Orderly, Loading, InUse, SignedOut, TypeOK
<1>2. CASE MCNext
  <2>1. ASSUME load = "orderly" PROVE Orderly' /\ Survives
    BY <1>2, <2>1, BootOrderly, FlightOrderly, StartsOrderly, CallOrderly
    DEF MCNext, MayStart, OrderlyInv
  <2> QED
    BY <1>2, <2>1 DEF OrderlyInv, MCNext
<1> QED
  BY <1>1, <1>2

LEMMA TypesKept == MCSpec => []TypeOK
<1>1. MCInit => Init
  BY DEF MCInit
<1>2. [MCNext]_<<vars, load>> => [Next]_vars
  BY DEF MCNext, Next, vars
<1> QED
  BY <1>1, <1>2, TypeCorrect, PTL DEF MCSpec, Spec

\* In orderly use, with any number of accounts, calls and refreshes: when nothing
\* is under way, the user shown, the token stored and the account of the live
\* socket are one (setSession, syncUser, handleSessionExpired).
THEOREM QuietTabAgrees == MCSpec => []OrderlyTabAgrees
<1>1. OrderlyInv => OrderlyTabAgrees
  BY DEF OrderlyInv, Orderly, InUse, SignedOut, OrderlyTabAgrees, Quiet, TabAgrees
<1>2. MCInit /\ TypeOK => OrderlyInv
  BY OrderlyInit DEF OrderlyInv
<1> QED
  BY <1>1, <1>2, OrderlyNext, TypesKept, PTL DEF MCSpec

\* In orderly use, however many calls find the access token expired at once, the
\* one refresh they share presents a token that is good: nobody is logged out but
\* by a logout or a page load.
THEOREM SessionSurvives == MCSpec => OrderlySessionSurvives
<1>1. MCInit /\ TypeOK => OrderlyInv
  BY OrderlyInit DEF OrderlyInv
<1>2. [load = "orderly" => Survives]_<<vars, load>> =>
        [load = "orderly" /\ user # NoAccount /\ user' = NoAccount
           => Reload \/ \E c \in Calls : LoggedOut(c, TRUE)]_<<vars, load>>
  BY DEF Survives
<1> QED
  BY <1>1, <1>2, OrderlyNext, TypesKept, PTL DEF MCSpec, OrderlySessionSurvives
=============================================================================
