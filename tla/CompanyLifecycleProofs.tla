----------------------- MODULE CompanyLifecycleProofs -----------------------
(***************************************************************************)
(* Proofs about CompanyLifecycle and AccountOpening for any number of      *)
(* colleagues, links, documents, accounts, invitation tokens and requests. *)
(*                                                                         *)
(* Of the writers of the company's status only the profile form writes     *)
(* what it read earlier.  The inductive invariant IInv therefore says of   *)
(* every request what it says of the company: if the status is             *)
(* "approved", an administrator has approved or reinstated the company.    *)
(*                                                                         *)
(* What the loads of MCCompanyLifecycle add is proved of MCSpec: TeamInv   *)
(* of the company's links and suspended recruiters, AddressInv of the      *)
(* accounts of one e-mail address.  An invitation is accepted before the   *)
(* account it made can go, so that whoever redeems it again finds the      *)
(* address taken, and a letter is spent by the request that verified.      *)
(***************************************************************************)
EXTENDS MCCompanyLifecycle, TLAPS

Decided == approvedOnce \/ reinstated

\* A status that waits to be written has been decided on if it is "approved".
RequestsDecided == \A s \in Requests : req[s].status = "approved" => Decided

IInv == TypeOK /\ ApprovalWasDecided /\ RequestsDecided

-----------------------------------------------------------------------------
(* What the helpers do.                                                    *)

LEMMA IdleTyped == Idle \in Request /\ Idle.step = "idle" /\ Idle.status = "pending"
BY CompanyAssumption DEF Idle, Request, Steps, CompanyStates

LEMMA NextStatusTyped ==
  ASSUME NEW status \in CompanyStates
  PROVE  /\ NextStatus(status) \in CompanyStates
         /\ NextStatus(status) = "approved" => status = "approved"
BY DEF NextStatus, CompanyStates

LEMMA SetStatusTyped ==
  ASSUME TypeOK, NEW rs, NEW status \in UserStates, SetStatus(rs, status)
  PROVE  user' \in [Recruiters -> UserStates \cup {"none"}]
BY DEF TypeOK, SetStatus

LEMMA TeamTyped ==
  /\ Team \subseteq Recruiters
  /\ \A status : TeamIn(status) \subseteq Recruiters
BY DEF Team, TeamIn

\* A request that changes keeps the invariants of requests if what it holds
\* does, as long as no decision is undone.
LEMMA RequestChanges ==
  ASSUME IInv, NEW s \in Requests, NEW held \in Request,
         req' = [req EXCEPT ![s] = held],
         Decided => Decided',
         held.status = "approved" => Decided'
  PROVE  req' \in [Requests -> Request] /\ RequestsDecided'
<1>1. req' \in [Requests -> Request] /\ req'[s] = held
  BY DEF IInv, TypeOK
<1>2. \A t \in Requests \ {s} : req'[t] = req[t]
  BY DEF IInv, TypeOK
<1>3. ASSUME NEW t \in Requests, req'[t].status = "approved" PROVE Decided'
  BY <1>1, <1>2, <1>3 DEF IInv, RequestsDecided
<1> QED
  BY <1>1, <1>3 DEF RequestsDecided

LEMMA RespondKeeps ==
  ASSUME IInv, NEW s \in Requests, Respond(s), Decided => Decided'
  PROVE  req' \in [Requests -> Request] /\ RequestsDecided'
<1>1. req' = [req EXCEPT ![s] = Idle]
  BY DEF Respond
<1> QED
  BY <1>1, IdleTyped, RequestChanges

LEMMA AcceptKeeps ==
  ASSUME IInv, NEW s \in Requests, NEW held \in Request, Accept(s, held),
         Decided => Decided', held.status = "approved" => Decided'
  PROVE  req' \in [Requests -> Request] /\ RequestsDecided'
<1>1. req' = [req EXCEPT ![s] = held]
  BY DEF Accept
<1> QED
  BY <1>1, RequestChanges

LEMMA FreeKeeps ==
  ASSUME IInv, UNCHANGED req, Decided => Decided'
  PROVE  req' \in [Requests -> Request] /\ RequestsDecided'
BY DEF IInv, TypeOK, RequestsDecided

-----------------------------------------------------------------------------
(* The invariant is inductive.                                             *)

LEMMA InitEstablishes == Init => IInv
<1> SUFFICES ASSUME Init PROVE IInv
  OBVIOUS
<1>1. user \in [Recruiters -> UserStates \cup {"none"}]
  BY DEF Init, UserStates
<1>2. uses \in [Links -> Nat] /\ req \in [Requests -> Request]
  BY IdleTyped DEF Init
<1>3. TypeOK
  BY <1>1, <1>2 DEF Init, TypeOK, CompanyStates
<1>4. ApprovalWasDecided /\ RequestsDecided
  BY IdleTyped DEF Init, ApprovalWasDecided, RequestsDecided
<1> QED
  BY <1>3, <1>4 DEF IInv

\* The founder's e-mail, and the decisions on accounts: the company's status
\* and the decisions about it stay.
LEMMA AccountStepPreserves ==
  ASSUME IInv, NEW s \in Requests, AccountStep(s)
  PROVE  IInv'
<1>1. UNCHANGED <<company, approvedOnce, reinstated>>
  BY DEF AccountStep, BeginVerifyEmail, WriteVerified, DeleteMail, InviteColleague,
     JoinTeam, LogIn, SetUserStatus, team, papers, observed
<1>2. ApprovalWasDecided' /\ (Decided => Decided')
  BY <1>1 DEF IInv, ApprovalWasDecided, Decided
<1>3. CASE BeginVerifyEmail(s)
  <2>1. PICK held \in Request : Accept(s, held) /\ held.status = "pending"
    <3> DEFINE held == [Idle EXCEPT !.step = "writeVerified"]
    <3>1. held \in Request /\ held.status = "pending"
      BY IdleTyped DEF Request, Steps
    <3> QED
      BY <1>3, <3>1 DEF BeginVerifyEmail
  <2>2. req' \in [Requests -> Request] /\ RequestsDecided'
    BY <2>1, <1>2, AcceptKeeps
  <2> QED
    BY <1>2, <1>3, <2>2 DEF IInv, TypeOK, BeginVerifyEmail, team, papers, observed
<1>4. CASE WriteVerified(s)
  <2>1. req[s] \in Request /\ (req[s].status = "approved" => Decided)
    BY DEF IInv, TypeOK, RequestsDecided
  <2>2. PICK held \in Request :
          req' = [req EXCEPT ![s] = held] /\ held.status = req[s].status
    <3> DEFINE held == [req[s] EXCEPT !.step = "deleteMail"]
    <3>1. held \in Request /\ held.status = req[s].status
      BY <2>1 DEF Request, Steps
    <3> QED
      BY <1>4, <3>1 DEF WriteVerified, IInv, TypeOK
  <2>3. req' \in [Requests -> Request] /\ RequestsDecided'
    BY <2>1, <2>2, <1>2, RequestChanges
  <2>4. user' \in [Recruiters -> UserStates \cup {"none"}]
    BY <1>4, SetStatusTyped DEF WriteVerified, IInv, UserStates
  <2> QED
    BY <1>2, <1>4, <2>3, <2>4 DEF IInv, TypeOK, WriteVerified, papers
<1>5. CASE DeleteMail(s)
  <2>1. req' \in [Requests -> Request] /\ RequestsDecided'
    BY <1>2, <1>5, RespondKeeps DEF DeleteMail
  <2> QED
    BY <1>2, <1>5, <2>1 DEF IInv, TypeOK, DeleteMail, papers, observed
<1>6. CASE InviteColleague(s)
  <2>1. req' \in [Requests -> Request] /\ RequestsDecided'
    BY <1>2, <1>6, FreeKeeps DEF InviteColleague, Free
  <2> QED
    BY <1>2, <1>6, <2>1 DEF IInv, TypeOK, InviteColleague, papers, observed
<1>7. CASE JoinTeam(s)
  <2>1. req' \in [Requests -> Request] /\ RequestsDecided'
    BY <1>2, <1>7, FreeKeeps DEF JoinTeam, Free
  <2>2. user' \in [Recruiters -> UserStates \cup {"none"}]
    BY <1>7, SetStatusTyped DEF JoinTeam, IInv, UserStates
  <2> QED
    BY <1>2, <1>7, <2>1, <2>2 DEF IInv, TypeOK, JoinTeam, papers, observed
<1>8. CASE LogIn(s)
  <2>1. req' \in [Requests -> Request] /\ RequestsDecided'
    BY <1>2, <1>8, FreeKeeps DEF LogIn, Free
  <2> QED
    BY <1>2, <1>8, <2>1 DEF IInv, TypeOK, LogIn, papers, observed
<1>9. CASE SetUserStatus(s)
  <2>1. req' \in [Requests -> Request] /\ RequestsDecided'
    BY <1>2, <1>9, FreeKeeps DEF SetUserStatus, Free
  <2>2. user' \in [Recruiters -> UserStates \cup {"none"}]
    BY <1>9, SetStatusTyped DEF SetUserStatus, IInv
  <2> QED
    BY <1>2, <1>9, <2>1, <2>2 DEF IInv, TypeOK, SetUserStatus, papers
<1> QED
  BY <1>3, <1>4, <1>5, <1>6, <1>7, <1>8, <1>9 DEF AccountStep

\* A verdict of "approved" is a decision; the others leave what was decided.
LEMMA VerifyCompanyPreserves ==
  ASSUME IInv, NEW s \in Requests, VerifyCompany(s)
  PROVE  IInv'
<1>1. PICK status \in CompanyStates :
        /\ company' = status
        /\ CASE status = "approved" -> SetStatus(Team, "Active")
             [] status = "rejected" -> SetStatus(Team, "Rejected")
             [] OTHER -> UNCHANGED user
        /\ taken' = IF status \in {"approved", "rejected"} THEN {} ELSE taken
        /\ approvedOnce' = (approvedOnce \/ status = "approved")
        /\ IF status = "info_requested"
           THEN \E l \in Links \ minted : link' = l /\ minted' = minted \cup {l}
           ELSE UNCHANGED <<link, minted>>
  BY DEF VerifyCompany
<1>2. UNCHANGED <<mail, invited, loggedIn, docs, uploaded, uses, reinstated, req>>
  BY DEF VerifyCompany, Free
<1>3. ApprovalWasDecided' /\ (Decided => Decided')
  BY <1>1, <1>2 DEF ApprovalWasDecided, Decided
<1>4. req' \in [Requests -> Request] /\ RequestsDecided'
  BY <1>2, <1>3, FreeKeeps
<1>5. user' \in [Recruiters -> UserStates \cup {"none"}]
  <2>1. CASE status = "approved"
    BY <1>1, <2>1, SetStatusTyped DEF IInv, UserStates
  <2>2. CASE status = "rejected"
    BY <1>1, <2>2, SetStatusTyped DEF IInv, UserStates
  <2>3. CASE status \notin {"approved", "rejected"}
    BY <1>1, <2>3 DEF IInv, TypeOK
  <2> QED
    BY <2>1, <2>2, <2>3
<1>6. link' \in Links \cup {None} /\ minted' \subseteq Links
  BY <1>1 DEF IInv, TypeOK
<1>7. taken' \subseteq Recruiters /\ approvedOnce' \in BOOLEAN
  BY <1>1 DEF IInv, TypeOK
<1> QED
  BY <1>1, <1>2, <1>3, <1>4, <1>5, <1>6, <1>7 DEF IInv, TypeOK

\* The link's visitors write "under_review" or documents.
LEMMA LinkStepPreserves ==
  ASSUME IInv, NEW s \in Requests,
         BeginResubmit(s) \/ Resubmit(s) \/ BeginAddDocument(s) \/ AttachDocument(s)
  PROVE  IInv'
<1>1. UNCHANGED <<team, approvedOnce, reinstated, taken>>
  BY DEF BeginResubmit, Resubmit, BeginAddDocument, AttachDocument, observed
<1>2. company' \in {company, "under_review"}
  BY DEF BeginResubmit, Resubmit, BeginAddDocument, AttachDocument
<1>3. ApprovalWasDecided' /\ (Decided => Decided')
  BY <1>1, <1>2 DEF IInv, ApprovalWasDecided, Decided
<1>4. req[s] \in Request
  BY DEF IInv, TypeOK
<1>5. CASE BeginResubmit(s)
  <2>1. PICK held \in Request : Accept(s, held) /\ held.status = "pending"
    <3> DEFINE held == [Idle EXCEPT !.step = "resubmit", !.link = link]
    <3>1. held \in Request /\ held.status = "pending"
      BY IdleTyped DEF IInv, TypeOK, Request, Steps
    <3> QED
      BY <1>5, <3>1 DEF BeginResubmit
  <2>2. req' \in [Requests -> Request] /\ RequestsDecided'
    BY <2>1, <1>3, AcceptKeeps
  <2> QED
    BY <1>3, <1>5, <2>2 DEF IInv, TypeOK, BeginResubmit, team, papers, observed
<1>6. CASE Resubmit(s)
  <2>1. req' \in [Requests -> Request] /\ RequestsDecided'
    BY <1>3, <1>6, RespondKeeps DEF Resubmit
  <2>2. uses' \in [Links -> Nat]
    <3>1. \A l \in Links : uses[l] + 1 \in Nat
      BY DEF IInv, TypeOK
    <3>2. CASE req[s].link \in Links
      BY <1>6, <3>1, <3>2 DEF Resubmit, IInv, TypeOK
    <3>3. CASE req[s].link \notin Links
      <4>1. uses' = uses
        BY <1>6, <3>3 DEF Resubmit, IInv, TypeOK
      <4> QED
        BY <4>1 DEF IInv, TypeOK
    <3> QED
      BY <3>2, <3>3
  <2> QED
    BY <1>3, <1>6, <2>1, <2>2 DEF IInv, TypeOK, Resubmit, team, CompanyStates
<1>7. CASE BeginAddDocument(s)
  <2>1. PICK d \in Docs :
          /\ Accept(s, [Idle EXCEPT !.step = "attach", !.docs = docs \cup {d}])
          /\ uploaded' = uploaded \cup {d}
    BY <1>7 DEF BeginAddDocument
  <2>2. PICK held \in Request : Accept(s, held) /\ held.status = "pending"
    <3> DEFINE held == [Idle EXCEPT !.step = "attach", !.docs = docs \cup {d}]
    <3>1. held \in Request /\ held.status = "pending"
      BY IdleTyped DEF IInv, TypeOK, Request, Steps
    <3> QED
      BY <2>1, <3>1
  <2>3. req' \in [Requests -> Request] /\ RequestsDecided'
    BY <2>2, <1>3, AcceptKeeps
  <2> QED
    BY <1>3, <1>7, <2>1, <2>3 DEF IInv, TypeOK, BeginAddDocument, team, observed
<1>8. CASE AttachDocument(s)
  <2>1. req' \in [Requests -> Request] /\ RequestsDecided'
    BY <1>3, <1>8, RespondKeeps DEF AttachDocument
  <2>2. docs' \subseteq Docs
    BY <1>4, <1>8 DEF AttachDocument, Request
  <2> QED
    BY <1>3, <1>8, <2>1, <2>2 DEF IInv, TypeOK, AttachDocument, team, observed
<1> QED
  BY <1>5, <1>6, <1>7, <1>8

\* The form carries the status from its read to its write: it reads "approved"
\* only after a decision, and no decision is undone in between.
LEMMA ProfileStepPreserves ==
  ASSUME IInv, NEW s \in Requests, BeginOnboard(s) \/ SaveProfile(s)
  PROVE  IInv'
<1>1. UNCHANGED <<team, observed, link, minted>>
  BY DEF BeginOnboard, SaveProfile
<1>2. Decided => Decided'
  BY <1>1 DEF Decided, observed
<1>3. req[s] \in Request /\ (req[s].status = "approved" => Decided)
  BY DEF IInv, TypeOK, RequestsDecided
<1>4. CASE BeginOnboard(s)
  <2>1. PICK given \in SUBSET Docs :
          /\ Accept(s, [Idle EXCEPT !.step = "saveProfile",
                                    !.status = NextStatus(company), !.docs = given])
          /\ uploaded' = uploaded \cup given
    BY <1>4 DEF BeginOnboard, IInv, TypeOK
  <2>2. PICK held \in Request :
          Accept(s, held) /\ (held.status = "approved" => Decided)
    <3> DEFINE held == [Idle EXCEPT !.step = "saveProfile",
                                    !.status = NextStatus(company), !.docs = given]
    <3>1. held \in Request /\ held.status = NextStatus(company)
      BY IdleTyped, NextStatusTyped DEF IInv, TypeOK, Request, Steps
    <3>2. NextStatus(company) = "approved" => Decided
      BY NextStatusTyped DEF IInv, TypeOK, ApprovalWasDecided, Decided
    <3> QED
      BY <2>1, <3>1, <3>2
  <2>3. req' \in [Requests -> Request] /\ RequestsDecided'
    BY <2>2, <1>2, AcceptKeeps
  <2>4. UNCHANGED <<company, team, link, docs, minted, observed>>
    BY <1>4 DEF BeginOnboard
  <2>5. ApprovalWasDecided'
    BY <2>4 DEF IInv, ApprovalWasDecided, observed
  <2>6. uploaded' \subseteq Docs
    BY <2>1 DEF IInv, TypeOK
  <2> QED
    BY <2>3, <2>4, <2>5, <2>6 DEF IInv, TypeOK, team, observed
<1>5. CASE SaveProfile(s)
  <2>1. req' \in [Requests -> Request] /\ RequestsDecided'
    BY <1>2, <1>5, RespondKeeps DEF SaveProfile
  <2>2. company' \in CompanyStates /\ docs' \subseteq Docs
    BY <1>3, <1>5 DEF SaveProfile, Request
  <2>3. ApprovalWasDecided'
    BY <1>2, <1>3, <1>5 DEF SaveProfile, ApprovalWasDecided, Decided
  <2> QED
    BY <1>1, <1>5, <2>1, <2>2, <2>3 DEF IInv, TypeOK, SaveProfile, team, observed
<1> QED
  BY <1>4, <1>5

LEMMA SuspensionStepPreserves ==
  ASSUME IInv, NEW s \in Requests, SuspensionStep(s)
  PROVE  IInv'
<1>1. UNCHANGED <<mail, invited, loggedIn, papers, uses, approvedOnce>>
  BY DEF SuspensionStep, BeginSuspend, SuspendCompany, BeginUnsuspend,
     UnsuspendCompany, team, observed
<1>2. req[s] \in Request
  BY DEF IInv, TypeOK
<1>3. CASE BeginSuspend(s) \/ BeginUnsuspend(s)
  <2>1. UNCHANGED <<company, team, papers, observed>>
    BY <1>3 DEF BeginSuspend, BeginUnsuspend
  <2>2. ApprovalWasDecided' /\ (Decided => Decided')
    BY <2>1 DEF IInv, ApprovalWasDecided, Decided, observed
  <2>3. PICK step \in Steps, rs \in SUBSET Recruiters :
          Accept(s, [Idle EXCEPT !.step = step, !.team = rs])
    BY <1>3, TeamTyped DEF BeginSuspend, BeginUnsuspend, Steps
  <2>4. PICK held \in Request : Accept(s, held) /\ held.status = "pending"
    <3> DEFINE held == [Idle EXCEPT !.step = step, !.team = rs]
    <3>1. held \in Request /\ held.status = "pending"
      BY IdleTyped DEF Request
    <3> QED
      BY <2>3, <3>1
  <2>5. req' \in [Requests -> Request] /\ RequestsDecided'
    BY <2>2, <2>4, AcceptKeeps
  <2> QED
    BY <2>1, <2>2, <2>5 DEF IInv, TypeOK, team, papers, observed
<1>4. CASE SuspendCompany(s)
  <2>1. ApprovalWasDecided' /\ (Decided => Decided')
    BY <1>4 DEF SuspendCompany, ApprovalWasDecided, Decided
  <2>2. req' \in [Requests -> Request] /\ RequestsDecided'
    BY <1>4, <2>1, RespondKeeps DEF SuspendCompany
  <2>3. user' \in [Recruiters -> UserStates \cup {"none"}]
    BY <1>4, SetStatusTyped DEF SuspendCompany, IInv, UserStates
  <2>4. taken' \subseteq Recruiters
    BY <1>2, <1>4 DEF SuspendCompany, IInv, TypeOK, Request
  <2> QED
    BY <1>4, <2>1, <2>2, <2>3, <2>4
       DEF IInv, TypeOK, SuspendCompany, CompanyStates, papers
<1>5. CASE UnsuspendCompany(s)
  <2>1. ApprovalWasDecided' /\ (Decided => Decided')
    BY <1>5 DEF UnsuspendCompany, ApprovalWasDecided, Decided
  <2>2. req' \in [Requests -> Request] /\ RequestsDecided'
    BY <1>5, <2>1, RespondKeeps DEF UnsuspendCompany
  <2>3. user' \in [Recruiters -> UserStates \cup {"none"}]
    BY <1>5, SetStatusTyped DEF UnsuspendCompany, IInv, UserStates
  <2> QED
    BY <1>5, <2>1, <2>2, <2>3
       DEF IInv, TypeOK, UnsuspendCompany, CompanyStates, papers
<1> QED
  BY <1>3, <1>4, <1>5 DEF SuspensionStep

LEMMA RestPreserves ==
  ASSUME IInv, LinkExpires \/ AccessExpires \/ \E s \in Requests : Abandon(s)
  PROVE  IInv'
<1>1. CASE LinkExpires
  BY <1>1 DEF LinkExpires, IInv, TypeOK, ApprovalWasDecided, RequestsDecided,
     Decided, team, observed
<1>2. CASE AccessExpires
  BY <1>2 DEF AccessExpires, IInv, TypeOK, ApprovalWasDecided, RequestsDecided,
     Decided, papers, observed
<1>3. ASSUME NEW s \in Requests, Abandon(s) PROVE IInv'
  <2>1. ApprovalWasDecided' /\ (Decided => Decided')
    BY <1>3 DEF Abandon, IInv, ApprovalWasDecided, Decided, observed
  <2>2. req' \in [Requests -> Request] /\ RequestsDecided'
    BY <1>3, <2>1, RespondKeeps DEF Abandon
  <2> QED
    BY <1>3, <2>1, <2>2 DEF Abandon, IInv, TypeOK, team, papers, observed
<1> QED
  BY <1>1, <1>2, <1>3

LEMMA NextPreserves == IInv /\ [Next]_vars => IInv'
<1> SUFFICES ASSUME IInv, [Next]_vars PROVE IInv'
  OBVIOUS
<1>1. CASE UNCHANGED vars
  BY <1>1 DEF vars, IInv, TypeOK, ApprovalWasDecided, RequestsDecided, Decided
<1>2. ASSUME NEW s \in Requests, ReviewStep(s) PROVE IInv'
  BY <1>2, VerifyCompanyPreserves, LinkStepPreserves, ProfileStepPreserves
     DEF ReviewStep
<1> QED
  BY <1>1, <1>2, AccountStepPreserves, SuspensionStepPreserves, RestPreserves DEF Next

-----------------------------------------------------------------------------
(* Requests that come one at a time.  Between the read and the write of a  *)
(* handler only the link and an access token expire, so what was read is   *)
(* still so when it is used.                                               *)

\* No request but s is in flight.
Alone(s) == \A t \in Requests \ {s} : At(t, "idle")

HandlerStep(s) == AccountStep(s) \/ ReviewStep(s) \/ SuspensionStep(s) \/ Abandon(s)

\* What a handler that has read holds.
LEMMA BeginEffect ==
  ASSUME TypeOK, NEW s \in Requests
  PROVE  /\ BeginVerifyEmail(s) => req'[s].step = "writeVerified"
         /\ BeginAddDocument(s) => req'[s].step = "attach"
         /\ BeginResubmit(s) => req'[s].step = "resubmit" /\ req'[s].link = link
         /\ BeginOnboard(s) =>
              req'[s].step = "saveProfile" /\ req'[s].status = NextStatus(company)
         /\ BeginSuspend(s) =>
              req'[s].step = "suspend" /\ req'[s].team = TeamIn("Active")
         /\ BeginUnsuspend(s) =>
              req'[s].step = "unsuspend" /\ req'[s].team = TeamIn("Suspended")
<1>0. ASSUME NEW held, Accept(s, held) PROVE req'[s] = held
  BY <1>0 DEF Accept, TypeOK
<1>1. ASSUME BeginVerifyEmail(s) PROVE req'[s].step = "writeVerified"
  <2>1. req'[s] = [Idle EXCEPT !.step = "writeVerified"]
    BY <1>0, <1>1 DEF BeginVerifyEmail
  <2> QED
    BY <2>1, IdleTyped DEF Request
<1>2. ASSUME BeginAddDocument(s) PROVE req'[s].step = "attach"
  <2>1. PICK d \in Docs : Accept(s, [Idle EXCEPT !.step = "attach", !.docs = docs \cup {d}])
    BY <1>2 DEF BeginAddDocument
  <2>2. req'[s] = [Idle EXCEPT !.step = "attach", !.docs = docs \cup {d}]
    BY <1>0, <2>1
  <2> QED
    BY <2>2, IdleTyped DEF Request
<1>3. ASSUME BeginResubmit(s) PROVE req'[s].step = "resubmit" /\ req'[s].link = link
  <2>1. req'[s] = [Idle EXCEPT !.step = "resubmit", !.link = link]
    BY <1>0, <1>3 DEF BeginResubmit
  <2> QED
    BY <2>1, IdleTyped DEF Request
<1>4. ASSUME BeginOnboard(s)
      PROVE  req'[s].step = "saveProfile" /\ req'[s].status = NextStatus(company)
  <2>1. PICK given :
          Accept(s, [Idle EXCEPT !.step = "saveProfile", !.status = NextStatus(company),
                                 !.docs = given])
    BY <1>4 DEF BeginOnboard
  <2>2. req'[s] = [Idle EXCEPT !.step = "saveProfile", !.status = NextStatus(company),
                               !.docs = given]
    BY <1>0, <2>1
  <2> QED
    BY <2>2, IdleTyped DEF Request
<1>5. ASSUME BeginSuspend(s)
      PROVE  req'[s].step = "suspend" /\ req'[s].team = TeamIn("Active")
  <2>1. req'[s] = [Idle EXCEPT !.step = "suspend", !.team = TeamIn("Active")]
    BY <1>0, <1>5 DEF BeginSuspend
  <2> QED
    BY <2>1, IdleTyped DEF Request
<1>6. ASSUME BeginUnsuspend(s)
      PROVE  req'[s].step = "unsuspend" /\ req'[s].team = TeamIn("Suspended")
  <2>1. req'[s] = [Idle EXCEPT !.step = "unsuspend", !.team = TeamIn("Suspended")]
    BY <1>0, <1>6 DEF BeginUnsuspend
  <2> QED
    BY <2>1, IdleTyped DEF Request
<1> QED
  BY <1>1, <1>2, <1>3, <1>4, <1>5, <1>6

\* The other handlers answer, go on to delete the mail, or take no time.
LEMMA WriteEffect ==
  ASSUME TypeOK, NEW s \in Requests, HandlerStep(s),
         ~BeginVerifyEmail(s), ~BeginAddDocument(s), ~BeginResubmit(s),
         ~BeginOnboard(s), ~BeginSuspend(s), ~BeginUnsuspend(s)
  PROVE  req' = req \/ req'[s].step \in {"idle", "deleteMail"}
<1>1. Respond(s) => req'[s].step = "idle"
  BY IdleTyped DEF Respond, TypeOK
<1>2. WriteVerified(s) => req'[s].step = "deleteMail"
  BY DEF WriteVerified, TypeOK, Request
<1> QED
  BY <1>1, <1>2 DEF HandlerStep, AccountStep, ReviewStep, SuspensionStep, Abandon,
     DeleteMail, InviteColleague, JoinTeam, LogIn, SetUserStatus, VerifyCompany,
     Resubmit, AttachDocument, SaveProfile, SuspendCompany, UnsuspendCompany, Free

\* A handler's step is its own request's.
LEMMA HandlerFrame ==
  ASSUME TypeOK, NEW s \in Requests, HandlerStep(s)
  PROVE  \A t \in Requests \ {s} : req'[t] = req[t]
<1>1. CASE AccountStep(s)
  BY <1>1 DEF TypeOK, AccountStep, BeginVerifyEmail, WriteVerified, DeleteMail,
     InviteColleague, JoinTeam, LogIn, SetUserStatus, Accept, Respond, Free
<1>2. CASE VerifyCompany(s) \/ BeginResubmit(s) \/ Resubmit(s) \/ SuspensionStep(s) \/ Abandon(s)
  BY <1>2 DEF TypeOK, VerifyCompany, BeginResubmit, Resubmit, SuspensionStep, BeginSuspend,
     SuspendCompany, BeginUnsuspend, UnsuspendCompany, Abandon, Accept, Respond, Free
<1>3. CASE \/ BeginAddDocument(s) \/ AttachDocument(s) \/ BeginOnboard(s) \/ SaveProfile(s)
  BY <1>3 DEF TypeOK, BeginAddDocument, AttachDocument, BeginOnboard, SaveProfile,
     Accept, Respond, Free
<1> QED
  BY <1>1, <1>2, <1>3 DEF HandlerStep, ReviewStep

\* A link that was used is closed; a visitor holds one that was not used.
LinkInv ==
  /\ link \in minted \cup {None}
  /\ \A l \in Links : uses[l] <= 1 /\ (uses[l] # 0 => l \in minted \ {link})
  /\ \A s \in Requests : At(s, "resubmit") =>
       /\ req[s].link \in minted
       /\ uses[req[s].link] = 0
       /\ link \in {req[s].link, None}

LEMMA LinkRests ==
  ASSUME TypeOK, LinkInv, UNCHANGED <<minted, uses>>, link' \in {link, None},
         \A s \in Requests : At(s, "resubmit")' =>
           At(s, "resubmit") /\ req'[s].link = req[s].link
  PROVE  LinkInv'
BY CompanyAssumption DEF LinkInv, TypeOK

\* The handlers that neither mint a link nor use one.
LEMMA LinkAside ==
  ASSUME TypeOK, LinkInv, NEW s \in Requests, Alone(s), HandlerStep(s),
         ~VerifyCompany(s), ~BeginResubmit(s), ~Resubmit(s)
  PROVE  LinkInv'
<1>1. UNCHANGED <<link, minted, uses>>
  BY DEF HandlerStep, AccountStep, ReviewStep, SuspensionStep, Abandon,
     BeginVerifyEmail, WriteVerified, DeleteMail, InviteColleague, JoinTeam, LogIn,
     SetUserStatus, BeginAddDocument, AttachDocument, BeginOnboard, SaveProfile,
     BeginSuspend, SuspendCompany, BeginUnsuspend, UnsuspendCompany, papers, observed
<1>2. req' = req \/ req'[s].step # "resubmit"
  BY BeginEffect, WriteEffect
<1> QED
  BY <1>1, <1>2, HandlerFrame, LinkRests DEF Alone, At

LEMMA LinkUsed ==
  ASSUME TypeOK, LinkInv, NEW s \in Requests, Alone(s), HandlerStep(s),
         VerifyCompany(s) \/ BeginResubmit(s) \/ Resubmit(s)
  PROVE  LinkInv'
<1>0. \A t \in Requests \ {s} : req'[t] = req[t] /\ req[t].step = "idle"
  BY HandlerFrame DEF Alone, At
<1>1. CASE VerifyCompany(s)
  <2>1. UNCHANGED <<uses, req>> /\ At(s, "idle")
    BY <1>1 DEF VerifyCompany, Free
  <2>2. \/ UNCHANGED <<link, minted>>
        \/ \E l \in Links \ minted : link' = l /\ minted' = minted \cup {l}
    BY <1>1 DEF VerifyCompany
  <2>3. \A t \in Requests : ~At(t, "resubmit")'
    BY <1>0, <2>1 DEF At
  <2> QED
    BY <2>1, <2>2, <2>3 DEF LinkInv, TypeOK
<1>2. CASE BeginResubmit(s)
  <2>1. UNCHANGED <<link, minted, uses>> /\ link # None
    BY <1>2 DEF BeginResubmit, papers, observed
  <2>2. req'[s].link = link /\ \A t \in Requests \ {s} : ~At(t, "resubmit")'
    BY <1>0, <1>2, BeginEffect DEF At
  <2> QED
    BY <2>1, <2>2 DEF LinkInv, TypeOK
<1>3. CASE Resubmit(s)
  <2>1. /\ At(s, "resubmit") /\ link' = None /\ UNCHANGED minted
        /\ uses' = [uses EXCEPT ![req[s].link] = @ + 1]
    BY <1>3 DEF Resubmit
  <2>2. \A t \in Requests : ~At(t, "resubmit")'
    BY <1>0, <1>3, IdleTyped DEF Resubmit, Respond, At, TypeOK
  <2>3. req[s].link \in minted /\ uses[req[s].link] = 0
    BY <2>1 DEF LinkInv
  <2> QED
    BY <2>1, <2>2, <2>3, CompanyAssumption DEF LinkInv, TypeOK
<1> QED
  BY <1>1, <1>2, <1>3

\* Whoever was suspended with the company is suspended, and the request that
\* reinstates it has found all of them; who is invited has no account yet.
TakenCore ==
  /\ NobodyLeftBehind
  /\ \A r \in taken : user[r] = "Suspended"
  /\ \A r \in invited : user[r] = "none"

TakenInv ==
  /\ TakenCore
  /\ \A s \in Requests :
       /\ At(s, "suspend") => \A r \in req[s].team : user[r] = "Active"
       /\ At(s, "unsuspend") => req[s].team = TeamIn("Suspended")
       /\ At(s, "saveProfile") => req[s].status = NextStatus(company)

LEMMA SetStatusEffect ==
  ASSUME NEW rs, NEW status, SetStatus(rs, status), NEW r \in Recruiters
  PROVE  user'[r] = IF r \in rs THEN status ELSE user[r]
BY DEF SetStatus

LEMMA TakenRests ==
  ASSUME TakenInv, UNCHANGED <<company, user, taken, invited, req>>
  PROVE  TakenInv'
BY DEF TakenInv, TakenCore, NobodyLeftBehind, TeamIn, At

\* Decisions on accounts, invitations and the founder's e-mail.
LEMMA AccountLeavesNobody ==
  ASSUME TypeOK, TakenCore, NEW s \in Requests, AccountStep(s)
  PROVE  TakenCore'
<1>1. CASE BeginVerifyEmail(s) \/ DeleteMail(s) \/ LogIn(s)
  BY <1>1 DEF BeginVerifyEmail, DeleteMail, LogIn, team, observed, TakenCore,
     NobodyLeftBehind
<1>2. CASE WriteVerified(s)
  <2>1. /\ SetStatus({Founder}, "PendingApproval") /\ taken' = taken \ {Founder}
        /\ UNCHANGED <<company, invited>>
    BY <1>2 DEF WriteVerified
  <2> QED
    BY <2>1, SetStatusEffect, CompanyAssumption
       DEF TakenCore, NobodyLeftBehind, TypeOK, Recruiters
<1>3. CASE InviteColleague(s)
  BY <1>3 DEF InviteColleague, observed, TakenCore, NobodyLeftBehind
<1>4. CASE JoinTeam(s)
  <2>1. PICK r \in invited : SetStatus({r}, "Active") /\ invited' = invited \ {r}
    BY <1>4 DEF JoinTeam
  <2>2. UNCHANGED <<company, taken>>
    BY <1>4 DEF JoinTeam, observed
  <2> QED
    BY <2>1, <2>2, SetStatusEffect DEF TakenCore, NobodyLeftBehind, TypeOK, Recruiters
<1>5. CASE SetUserStatus(s)
  <2>1. PICK r \in Team, status \in UserStates :
          SetStatus({r}, status) /\ taken' = taken \ {r}
    BY <1>5 DEF SetUserStatus
  <2>2. UNCHANGED <<company, invited>>
    BY <1>5 DEF SetUserStatus
  <2> QED
    BY <2>1, <2>2, SetStatusEffect DEF TakenCore, NobodyLeftBehind, TypeOK, Recruiters, Team
<1> QED
  BY <1>1, <1>2, <1>3, <1>4, <1>5 DEF AccountStep

\* Verdicts decide on the whole team; the form writes the status there is.
LEMMA ReviewLeavesNobody ==
  ASSUME TypeOK, TakenInv, NEW s \in Requests, ReviewStep(s)
  PROVE  TakenCore'
<1>1. CASE BeginResubmit(s) \/ BeginAddDocument(s) \/ AttachDocument(s) \/ BeginOnboard(s)
  BY <1>1 DEF BeginResubmit, BeginAddDocument, AttachDocument, BeginOnboard, team,
     observed, TakenInv, TakenCore, NobodyLeftBehind
<1>2. CASE Resubmit(s)
  BY <1>2 DEF Resubmit, team, TakenInv, TakenCore, NobodyLeftBehind
<1>3. CASE SaveProfile(s)
  <2>1. company' = NextStatus(company) /\ UNCHANGED <<user, taken, invited>>
    BY <1>3 DEF SaveProfile, TakenInv, team, observed
  <2> QED
    BY <2>1, NextStatusTyped DEF TypeOK, TakenInv, TakenCore, NobodyLeftBehind
<1>4. CASE VerifyCompany(s)
  <2>1. PICK status \in CompanyStates :
          /\ company' = status
          /\ CASE status = "approved" -> SetStatus(Team, "Active")
               [] status = "rejected" -> SetStatus(Team, "Rejected")
               [] OTHER -> UNCHANGED user
          /\ taken' = IF status \in {"approved", "rejected"} THEN {} ELSE taken
    BY <1>4 DEF VerifyCompany
  <2>2. UNCHANGED invited
    BY <1>4 DEF VerifyCompany
  <2>3. CASE status \in {"approved", "rejected"}
    <3>1. PICK new : SetStatus(Team, new)
      BY <2>1, <2>3
    <3>2. \A r \in invited : user'[r] = "none"
      BY <3>1, SetStatusEffect DEF TypeOK, TakenInv, TakenCore, Team, Recruiters
    <3> QED
      BY <2>1, <2>2, <2>3, <3>2 DEF TakenCore, NobodyLeftBehind
  <2>4. CASE status \notin {"approved", "rejected"}
    BY <2>1, <2>2, <2>4 DEF TakenInv, TakenCore, NobodyLeftBehind
  <2> QED
    BY <2>3, <2>4
<1> QED
  BY <1>1, <1>2, <1>3, <1>4 DEF ReviewStep

\* Suspension takes active recruiters; reinstatement finds all it took.
LEMMA SuspensionLeavesNobody ==
  ASSUME TypeOK, TakenInv, NEW s \in Requests, SuspensionStep(s)
  PROVE  TakenCore'
<1>1. CASE BeginSuspend(s) \/ BeginUnsuspend(s)
  BY <1>1 DEF BeginSuspend, BeginUnsuspend, team, observed, TakenInv, TakenCore,
     NobodyLeftBehind
<1>2. CASE SuspendCompany(s)
  <2>1. /\ company' = "suspended" /\ SetStatus(req[s].team, "Suspended")
        /\ taken' = taken \cup req[s].team /\ UNCHANGED invited
    BY <1>2 DEF SuspendCompany
  <2>2. \A r \in req[s].team : user[r] = "Active"
    BY <1>2 DEF SuspendCompany, TakenInv
  <2>3. req[s].team \subseteq Recruiters
    BY DEF TypeOK, Request
  <2> QED
    BY <2>1, <2>2, <2>3, SetStatusEffect
       DEF TypeOK, TakenInv, TakenCore, NobodyLeftBehind, Recruiters
<1>3. CASE UnsuspendCompany(s)
  <2>1. /\ SetStatus(req[s].team, "Active")
        /\ taken' = taken \ req[s].team /\ UNCHANGED invited
    BY <1>3 DEF UnsuspendCompany
  <2>2. req[s].team = TeamIn("Suspended")
    BY <1>3 DEF UnsuspendCompany, TakenInv
  <2>3. taken' = {}
    BY <2>1, <2>2 DEF TypeOK, TakenInv, TakenCore, TeamIn
  <2>4. \A r \in invited : user'[r] = "none"
    BY <2>1, <2>2, SetStatusEffect DEF TypeOK, TakenInv, TakenCore, TeamIn, Recruiters
  <2> QED
    BY <2>1, <2>3, <2>4 DEF TakenCore, NobodyLeftBehind
<1> QED
  BY <1>1, <1>2, <1>3 DEF SuspensionStep

\* A handler that has read leaves what it has read.
LEMMA TakenHandler ==
  ASSUME TypeOK, TakenInv, NEW s \in Requests, Alone(s), HandlerStep(s)
  PROVE  TakenInv'
<1>1. TakenCore'
  <2>1. CASE Abandon(s)
    BY <2>1 DEF Abandon, team, observed, TakenInv, TakenCore, NobodyLeftBehind
  <2> QED
    BY <2>1, AccountLeavesNobody, ReviewLeavesNobody, SuspensionLeavesNobody
       DEF HandlerStep, TakenInv
<1>2. SUFFICES (/\ At(s, "suspend") => \A r \in req[s].team : user[r] = "Active"
                /\ At(s, "unsuspend") => req[s].team = TeamIn("Suspended")
                /\ At(s, "saveProfile") => req[s].status = NextStatus(company))'
  BY <1>1, HandlerFrame DEF Alone, At, TakenInv
<1>3. CASE BeginSuspend(s) \/ BeginUnsuspend(s) \/ BeginOnboard(s)
  <2>1. UNCHANGED <<user, company>>
    BY <1>3 DEF BeginSuspend, BeginUnsuspend, BeginOnboard, team
  <2> QED
    BY <1>3, <2>1, BeginEffect DEF TeamIn, NextStatus, At
<1>4. CASE BeginVerifyEmail(s) \/ BeginAddDocument(s) \/ BeginResubmit(s)
  BY <1>4, BeginEffect DEF At
<1>5. CASE req'[s].step \in {"idle", "deleteMail"}
  BY <1>5 DEF At
<1>6. CASE /\ req' = req
           /\ ~BeginSuspend(s) /\ ~BeginUnsuspend(s) /\ ~BeginOnboard(s)
           /\ ~BeginVerifyEmail(s) /\ ~BeginAddDocument(s) /\ ~BeginResubmit(s)
  <2>1. At(s, "idle") \/ req'[s].step \in {"idle", "deleteMail"}
    <3>1. Respond(s) => req'[s].step = "idle"
      BY IdleTyped DEF Respond, TypeOK
    <3>2. WriteVerified(s) => req'[s].step = "deleteMail"
      BY DEF WriteVerified, TypeOK, Request
    <3> QED
      BY <1>6, <3>1, <3>2 DEF HandlerStep, AccountStep, ReviewStep, SuspensionStep,
         Abandon, DeleteMail, InviteColleague, JoinTeam, LogIn, SetUserStatus,
         VerifyCompany, Resubmit, AttachDocument, SaveProfile, SuspendCompany,
         UnsuspendCompany, Free
  <2> QED
    BY <1>6, <2>1 DEF At
<1> QED
  BY <1>3, <1>4, <1>5, <1>6, WriteEffect

-----------------------------------------------------------------------------
(* The instances of MCCompanyLifecycle, under their loads.                 *)

\* At most one request is in flight.
OneBusy == \A s, t \in Requests : ~At(s, "idle") /\ ~At(t, "idle") => s = t

\* What holds of the company in the instances.
TeamInv == IInv /\ (load = "serial" => OneBusy /\ LinkInv /\ TakenInv)

LEMMA TeamInit == MCInit => TeamInv
<1> SUFFICES ASSUME MCInit PROVE TeamInv
  OBVIOUS
<1>1. Init
  BY DEF MCInit
<1>2. \A s \in Requests : req[s].step = "idle"
  BY <1>1, IdleTyped DEF Init
<1>3. \A l \in Links : uses[l] = 0
  BY <1>1 DEF Init
<1>4. LinkInv
  BY <1>1, <1>2, <1>3 DEF Init, LinkInv, At
<1>5. company = "pending" /\ taken = {} /\ invited = {}
  BY <1>1 DEF Init
<1>6. TakenInv
  BY <1>2, <1>5 DEF TakenInv, TakenCore, NobodyLeftBehind, At
<1> QED
  BY <1>1, <1>2, <1>4, <1>6, InitEstablishes DEF TeamInv, OneBusy, At

\* A link or an access token expires; nothing else changes.
LEMMA ExpiryKeeps ==
  ASSUME TypeOK, LinkInv, TakenInv, LinkExpires \/ AccessExpires
  PROVE  LinkInv' /\ TakenInv' /\ UNCHANGED req
<1>1. /\ UNCHANGED <<company, user, taken, invited, req, minted, uses>>
      /\ link' \in {link, None}
  BY DEF LinkExpires, AccessExpires, team, papers, observed
<1> QED
  BY <1>1, LinkRests, TakenRests DEF At

\* Who acts while requests come one at a time acts alone.
LEMMA ActsAlone ==
  ASSUME load = "serial", OneBusy, NEW s \in Turns(CompanyIdle)
  PROVE  s \in Requests /\ Alone(s)
BY DEF Turns, CompanyIdle, OneBusy, Alone, At

LEMMA SerialHandler ==
  ASSUME TypeOK, LinkInv, TakenInv, NEW s \in Requests, Alone(s), HandlerStep(s)
  PROVE  OneBusy' /\ LinkInv' /\ TakenInv'
<1>1. OneBusy'
  BY HandlerFrame DEF Alone, OneBusy, At
<1> QED
  BY <1>1, LinkAside, LinkUsed, TakenHandler

LEMMA TeamNext ==
  ASSUME TeamInv, [MCNext]_<<vars, addressVars, subject, load>>
  PROVE  TeamInv'
<1>0. IInv /\ TypeOK
  BY DEF TeamInv, IInv
<1>1. CASE UNCHANGED vars /\ UNCHANGED load
  <2>1. UNCHANGED <<company, user, taken, invited, req, link, minted, uses>>
    BY <1>1 DEF vars, team, papers, observed
  <2>2. IInv'
    BY <1>0, <1>1, NextPreserves
  <2>3. load = "serial" => LinkInv' /\ TakenInv'
    BY <1>0, <2>1, LinkRests, TakenRests DEF TeamInv, At
  <2> QED
    BY <1>1, <2>1, <2>2, <2>3 DEF TeamInv, OneBusy, At
<1>2. CASE CompanyStep /\ UNCHANGED load
  <2>1. Next
    BY <1>2 DEF CompanyStep, Turns, Next
  <2>2. IInv'
    BY <1>0, <2>1, NextPreserves
  <2>3. ASSUME load = "serial" PROVE OneBusy' /\ LinkInv' /\ TakenInv'
    <3>1. OneBusy /\ LinkInv /\ TakenInv
      BY <2>3 DEF TeamInv
    <3>2. CASE LinkExpires \/ AccessExpires
      BY <1>0, <3>1, <3>2, ExpiryKeeps DEF OneBusy, At
    <3>3. ASSUME NEW s \in Turns(CompanyIdle), HandlerStep(s)
          PROVE  OneBusy' /\ LinkInv' /\ TakenInv'
      <4>1. s \in Requests /\ Alone(s)
        BY <2>3, <3>1, ActsAlone
      <4> QED
        BY <1>0, <3>1, <3>3, <4>1, SerialHandler
    <3> QED
      BY <1>2, <3>2, <3>3 DEF CompanyStep, HandlerStep
  <2> QED
    BY <1>2, <2>2, <2>3 DEF TeamInv
<1> QED
  BY <1>1, <1>2 DEF MCNext, vars

-----------------------------------------------------------------------------
(* The address and its accounts.                                           *)

\* What a request that opens or verifies an account is about.
Named(held) ==
  /\ held.step \in {"company", "user", "letter", "social", "writeVerified", "redeem",
                    "createAdmin"} => held.id \in Accounts
  /\ held.step \in {"redeem", "markAccepted"} => held.row \in Tokens

AddressTyped == Opening!TypeOK /\ \A s \in Requests : Named(opening[s])

LEMMA AddressIdleTyped ==
  /\ Opening!Idle \in Opening!Request /\ Named(Opening!Idle)
  /\ Opening!Idle.step = "idle"
BY DEF Opening!Idle, Opening!Request, Opening!Steps, Opening!Roles, Named

LEMMA NobodyHasAddress ==
  /\ \A u \in Opening!User \cup {Opening!NoUser} : u.id \in Accounts => u \in Opening!User
  /\ \A l \in Opening!Letter \cup {Opening!NoLetter} :
       l # Opening!NoLetter => l \in Opening!Letter
  /\ \A i \in Opening!Invitation \cup {Opening!NoInvitation} :
       /\ i.id \in Tokens => i \in Opening!Invitation
       /\ i # Opening!NoInvitation => i \in Opening!Invitation
  /\ Opening!NoUser.id = None /\ Opening!NoUser.status = "Suspended"
  /\ ~Opening!NoLetter.fresh /\ ~Opening!NoInvitation.fresh /\ Opening!NoInvitation.id = None
BY AddressAssumption DEF Opening!NoUser, Opening!NoLetter, Opening!NoInvitation

LEMMA OpeningAccept ==
  ASSUME opening \in [Requests -> Opening!Request], NEW s \in Requests,
         NEW held \in Opening!Request, Opening!Accept(s, held)
  PROVE  /\ opening' \in [Requests -> Opening!Request] /\ opening'[s] = held
         /\ opening[s].step = "idle"
         /\ \A t \in Requests \ {s} : opening'[t] = opening[t]
BY DEF Opening!Accept, Opening!At

LEMMA OpeningContinue ==
  ASSUME opening \in [Requests -> Opening!Request], NEW s \in Requests,
         NEW step \in Opening!Steps, Opening!Continue(s, step)
  PROVE  /\ opening' \in [Requests -> Opening!Request]
         /\ opening'[s].step = step /\ opening'[s].id = opening[s].id
         /\ opening'[s].row = opening[s].row
         /\ \A t \in Requests \ {s} : opening'[t] = opening[t]
BY DEF Opening!Continue, Opening!Request

LEMMA OpeningRespond ==
  ASSUME opening \in [Requests -> Opening!Request], NEW s \in Requests, Opening!Respond(s)
  PROVE  /\ opening' \in [Requests -> Opening!Request]
         /\ opening'[s] = Opening!Idle
         /\ \A t \in Requests \ {s} : opening'[t] = opening[t]
BY AddressIdleTyped DEF Opening!Respond

\* A step of request s changes no other request, and each of its steps is
\* reached by one way.
Reached(s) ==
  /\ opening' \in [Requests -> Opening!Request] /\ Named(opening'[s])
  /\ \A t \in Requests \ {s} : opening'[t] = opening[t]
  /\ opening'[s].step = "deleteLetter" => Opening!WriteVerified(s)
  /\ opening'[s].step = "redeem" => Opening!BeginAccept(s)
  /\ opening'[s].step = "markAccepted" => Opening!CreateInvitedUser(s)
  /\ opening'[s].step \in {"company", "user"} =>
       Opening!BeginRegister(s) \/ Opening!CreateCompany(s)

LEMMA ReachedBy ==
  ASSUME AddressTyped, NEW s \in Requests, Opening!HandlerStep(s) \/ Opening!Abandon(s)
  PROVE  Reached(s)
<1> USE DEF Reached
<1>0. /\ opening \in [Requests -> Opening!Request] /\ opening[s] \in Opening!Request
      /\ Named(opening[s]) /\ account \in Opening!User \cup {Opening!NoUser}
      /\ invitation \in Opening!Invitation \cup {Opening!NoInvitation}
      /\ letter \in Opening!Letter \cup {Opening!NoLetter}
  BY DEF AddressTyped, Opening!TypeOK
<1>1. ASSUME Opening!Free(s) PROVE Reached(s)
  BY <1>0, <1>1 DEF Opening!Free, Opening!At
<1>2. ASSUME NEW held \in Opening!Request, Named(held), Opening!Accept(s, held),
             held.step \notin {"deleteLetter", "redeem", "markAccepted", "company", "user"}
      PROVE  Reached(s)
  BY <1>0, <1>2, OpeningAccept
<1>3. ASSUME Opening!Respond(s) PROVE Reached(s)
  BY <1>0, <1>3, OpeningRespond, AddressIdleTyped
<1>4. ASSUME NEW step \in Opening!Steps, Opening!Continue(s, step),
             step \notin {"redeem", "company"},
             step \in {"letter", "social", "createAdmin", "user"} => opening[s].id \in Accounts,
             step \in {"findUser", "createAdmin", "writeVerified", "invite"} => FALSE,
             step = "markAccepted" => opening[s].row \in Tokens /\ Opening!CreateInvitedUser(s),
             step = "user" => Opening!CreateCompany(s),
             step = "deleteLetter" => Opening!WriteVerified(s)
      PROVE  Reached(s)
  BY <1>0, <1>4, OpeningContinue DEF Named
<1>5. CASE Opening!BeginRegister(s)
  <2>1. PICK a \in Opening!NewAccounts, role \in {"Candidate", "Recruiter"}, social \in BOOLEAN :
          Opening!Accept(s, [Opening!Idle EXCEPT
            !.step = IF role = "Recruiter" THEN "company" ELSE "user",
            !.id = a, !.role = role, !.social = social])
    BY <1>5 DEF Opening!BeginRegister
  <2> DEFINE held == [Opening!Idle EXCEPT
                        !.step = IF role = "Recruiter" THEN "company" ELSE "user",
                        !.id = a, !.role = role, !.social = social]
  <2>2. held.step \in {"company", "user"} /\ held.id \in Accounts
    BY DEF Opening!Idle, Opening!NewAccounts
  <2>3. held \in Opening!Request
    BY DEF Opening!Idle, Opening!NewAccounts, Opening!Request, Opening!Steps, Opening!Roles
  <2>4. Opening!Accept(s, held)
    BY <2>1
  <2> HIDE DEF held
  <2> QED
    BY <1>0, <1>5, <2>2, <2>3, <2>4, OpeningAccept DEF Named
<1>6. CASE Opening!CreateCompany(s)
  BY <1>0, <1>4, <1>6 DEF Opening!CreateCompany, Opening!At, Opening!Steps, Named
<1>7. CASE Opening!CreateUser(s)
  BY <1>0, <1>4, <1>7 DEF Opening!CreateUser, Opening!At, Opening!Steps, Named
<1>8. CASE Opening!StoreLetter(s)
  BY <1>0, <1>3, <1>4, <1>8 DEF Opening!StoreLetter, Opening!At, Opening!Steps, Named
<1>9. CASE \/ Opening!SetSocialStatus(s) \/ Opening!DeleteLetter(s) \/ Opening!InviteColleague(s)
           \/ Opening!AcceptInvitation(s) \/ Opening!CreateAdmin(s) \/ Opening!Abandon(s)
  BY <1>3, <1>9 DEF Opening!SetSocialStatus, Opening!DeleteLetter, Opening!InviteColleague,
     Opening!AcceptInvitation, Opening!CreateAdmin, Opening!Abandon
<1>10. CASE Opening!FindLetter(s)
  <2> DEFINE held == [Opening!Idle EXCEPT !.step = "findUser", !.row = letter.id]
  <2>1. held \in Opening!Request /\ held.step = "findUser"
    <3>1. letter.id \in Accounts
      BY <1>0, <1>10, NobodyHasAddress DEF Opening!FindLetter, Opening!Letter
    <3> QED
      BY <3>1 DEF Opening!Idle, Opening!Request, Opening!Steps, Opening!Roles
  <2>2. Opening!Accept(s, held)
    BY <1>10 DEF Opening!FindLetter
  <2> HIDE DEF held
  <2> QED
    BY <1>2, <2>1, <2>2 DEF Named
<1>11. CASE Opening!FindUser(s)
  <2>1. account \in Opening!User
    BY <1>0, <1>11, NobodyHasAddress DEF Opening!FindUser
  <2>2. opening' = [opening EXCEPT ![s].step = "writeVerified", ![s].id = account.id,
                                   ![s].role = account.role]
    BY <1>11 DEF Opening!FindUser
  <2>3. opening' \in [Requests -> Opening!Request]
    BY <1>0, <2>1, <2>2 DEF Opening!Request, Opening!User, Opening!Steps
  <2>4. /\ opening'[s].step = "writeVerified" /\ opening'[s].id \in Accounts
        /\ \A t \in Requests \ {s} : opening'[t] = opening[t]
    BY <1>0, <2>1, <2>2 DEF Opening!Request, Opening!User
  <2> QED
    BY <2>3, <2>4 DEF Named
<1>12. CASE Opening!WriteVerified(s)
  BY <1>0, <1>4, <1>12 DEF Opening!WriteVerified, Opening!Steps
<1>13. CASE \/ Opening!InviteEmployee(s) \/ Opening!ResendInvitation(s)
            \/ Opening!CancelColleagueInvitation(s)
  BY <1>1, <1>13 DEF Opening!InviteEmployee, Opening!ResendInvitation,
     Opening!CancelColleagueInvitation
<1>14. CASE Opening!BeginInviteColleague(s)
  <2> DEFINE held == [Opening!Idle EXCEPT !.step = "invite", !.role = "Recruiter"]
  <2>1. held \in Opening!Request /\ held.step = "invite"
    BY DEF Opening!Idle, Opening!Request, Opening!Steps, Opening!Roles
  <2>2. Opening!Accept(s, held)
    BY <1>14 DEF Opening!BeginInviteColleague
  <2> HIDE DEF held
  <2> QED
    BY <1>2, <2>1, <2>2 DEF Named
<1>15. CASE Opening!BeginAccept(s)
  <2>1. PICK a \in Opening!NewAccounts :
          Opening!Accept(s, [Opening!Idle EXCEPT !.step = "redeem", !.id = a,
                               !.role = invitation.role, !.row = invitation.id])
    BY <1>15 DEF Opening!BeginAccept
  <2> DEFINE held == [Opening!Idle EXCEPT !.step = "redeem", !.id = a,
                        !.role = invitation.role, !.row = invitation.id]
  <2>2. invitation \in Opening!Invitation
    BY <1>0, <1>15, NobodyHasAddress DEF Opening!BeginAccept, Opening!Open
  <2>3. held.step = "redeem" /\ held.id \in Accounts /\ held.row \in Tokens
    BY <2>2 DEF Opening!Idle, Opening!NewAccounts, Opening!Invitation
  <2>4. held \in Opening!Request
    BY <2>2 DEF Opening!Idle, Opening!NewAccounts, Opening!Request, Opening!Steps, Opening!Roles,
       Opening!Invitation
  <2>5. Opening!Accept(s, held)
    BY <2>1
  <2> HIDE DEF held
  <2> QED
    BY <1>0, <1>15, <2>3, <2>4, <2>5, OpeningAccept DEF Named
<1>16. CASE Opening!CreateInvitedUser(s)
  BY <1>0, <1>4, <1>16 DEF Opening!CreateInvitedUser, Opening!At, Opening!Steps, Named
<1>17. CASE Opening!BeginCreateAdmin(s)
  <2>1. PICK a \in Opening!NewAccounts :
          Opening!Accept(s, [Opening!Idle EXCEPT !.step = "createAdmin", !.id = a, !.role = "Staff"])
    BY <1>17 DEF Opening!BeginCreateAdmin
  <2> DEFINE held == [Opening!Idle EXCEPT !.step = "createAdmin", !.id = a, !.role = "Staff"]
  <2>2. held.step = "createAdmin" /\ held.id \in Accounts
    BY DEF Opening!Idle, Opening!NewAccounts
  <2>3. held \in Opening!Request
    BY DEF Opening!Idle, Opening!NewAccounts, Opening!Request, Opening!Steps, Opening!Roles
  <2>4. Opening!Accept(s, held)
    BY <2>1
  <2> HIDE DEF held
  <2> QED
    BY <1>2, <2>2, <2>3, <2>4 DEF Named
<1> QED
  BY <1>5, <1>6, <1>7, <1>8, <1>9, <1>10, <1>11, <1>12, <1>13, <1>14, <1>15, <1>16, <1>17
  DEF Opening!HandlerStep, Opening!RegistrationStep, Opening!VerificationStep,
      Opening!InvitationStep, Opening!CreateAdminStep

\* A request keeps the rows' types.  An account that exists stays, and one that
\* waits for its verification is verified by what ends that wait; the letter is
\* spent in one step.  An invitation keeps its identity, or it is a new one.
RowsKept(s) ==
  /\ account' \in Opening!User \cup {Opening!NoUser}
  /\ letter' \in Opening!Letter \cup {Opening!NoLetter}
  /\ invitation' \in Opening!Invitation \cup {Opening!NoInvitation}
  /\ companies' \subseteq Accounts /\ opened' \subseteq Accounts /\ tokens' \subseteq Tokens
  /\ redeemed' \in [Tokens -> Nat]
  /\ account # Opening!NoUser => account' # Opening!NoUser
  /\ account # Opening!NoUser /\ account.status # "PendingVerification"
       => account'.status # "PendingVerification"
  /\ letter # Opening!NoLetter /\ letter' = Opening!NoLetter => opening[s].step = "deleteLetter"
  /\ tokens \subseteq tokens' /\ opened \subseteq opened'

LEMMA RowsKeptBy ==
  ASSUME AddressTyped, NEW s \in Requests, Opening!HandlerStep(s) \/ Opening!Abandon(s)
  PROVE  RowsKept(s)
<1>0. /\ opening[s] \in Opening!Request
      /\ Named(opening[s]) /\ account \in Opening!User \cup {Opening!NoUser}
      /\ invitation \in Opening!Invitation \cup {Opening!NoInvitation}
      /\ letter \in Opening!Letter \cup {Opening!NoLetter}
      /\ companies \subseteq Accounts /\ opened \subseteq Accounts /\ tokens \subseteq Tokens
      /\ redeemed \in [Tokens -> Nat]
  BY DEF AddressTyped, Opening!TypeOK
<1> USE DEF RowsKept, Opening!rowVars
<1>1. CASE UNCHANGED <<account, letter, invitation, companies, opened, tokens, redeemed>>
  BY <1>0, <1>1
<1>2. ASSUME UNCHANGED <<letter, invitation, companies, tokens>>,
             NEW status \in {"PendingVerification", "Active"},
             opening[s].id \in Accounts,
             Opening!Create(opening[s].id, opening[s].role, status),
             redeemed' \in [Tokens -> Nat]
      PROVE  RowsKept(s)
  <2>1. account = Opening!NoUser /\ opened' = opened \cup {opening[s].id}
    BY <1>2 DEF Opening!Create
  <2>2. account' \in Opening!User
    BY <1>0, <1>2 DEF Opening!Create, Opening!User, Opening!Request, Opening!Statuses
  <2> QED
    BY <1>0, <1>2, <2>1, <2>2
<1>3. ASSUME UNCHANGED <<letter, invitation, companies, opened, tokens, redeemed>>,
             opening[s].id \in Accounts, account.id = opening[s].id,
             account' = [account EXCEPT !.status = Opening!VerifiedStatus(opening[s].role)]
      PROVE  RowsKept(s) /\ account' \in Opening!User /\ account'.status # "PendingVerification"
  <2>1. Opening!VerifiedStatus(opening[s].role) \in Opening!Statuses \ {"PendingVerification"}
    BY DEF Opening!VerifiedStatus, Opening!Statuses
  <2>2. account \in Opening!User
    BY <1>0, <1>3, NobodyHasAddress
  <2>3. account' \in Opening!User /\ account'.status # "PendingVerification"
    BY <1>3, <2>1, <2>2 DEF Opening!User
  <2>4. account' # Opening!NoUser
    BY <2>3, NobodyHasAddress, AddressAssumption DEF Opening!User
  <2> QED
    BY <1>0, <1>3, <2>3, <2>4
<1>4. CASE UNCHANGED <<account, letter, companies, opened, redeemed>>
           /\ invitation' \in Opening!Invitation \cup {Opening!NoInvitation}
           /\ tokens \subseteq tokens' /\ tokens' \subseteq Tokens
  BY <1>0, <1>4
<1>5. CASE \/ Opening!BeginRegister(s) \/ Opening!FindLetter(s) \/ Opening!FindUser(s)
           \/ Opening!BeginInviteColleague(s) \/ Opening!BeginAccept(s)
           \/ Opening!BeginCreateAdmin(s) \/ Opening!Abandon(s)
  BY <1>1, <1>5 DEF Opening!BeginRegister, Opening!FindLetter, Opening!FindUser,
     Opening!BeginInviteColleague, Opening!BeginAccept, Opening!BeginCreateAdmin, Opening!Abandon
<1>6. CASE Opening!CreateCompany(s)
  BY <1>0, <1>6 DEF Opening!CreateCompany, Opening!At, Named
<1>7. CASE Opening!CreateUser(s) \/ Opening!CreateAdmin(s)
  <2>1. opening[s].id \in Accounts /\ UNCHANGED <<letter, invitation, companies, tokens, redeemed>>
    BY <1>0, <1>7 DEF Opening!CreateUser, Opening!CreateAdmin, Opening!At, Named
  <2>2. \/ Opening!Create(opening[s].id, opening[s].role, "PendingVerification")
        \/ Opening!Create(opening[s].id, opening[s].role, "Active")
    BY <1>7 DEF Opening!CreateUser, Opening!CreateAdmin
  <2> QED
    BY <1>0, <1>2, <2>1, <2>2
<1>8. CASE Opening!CreateInvitedUser(s)
  <2>1. opening[s].id \in Accounts /\ opening[s].row \in Tokens
    BY <1>0, <1>8 DEF Opening!CreateInvitedUser, Opening!At, Named
  <2>2. redeemed' \in [Tokens -> Nat] /\ UNCHANGED <<letter, invitation, companies, tokens>>
    BY <1>0, <1>8, <2>1 DEF Opening!CreateInvitedUser
  <2>3. Opening!Create(opening[s].id, opening[s].role, "Active")
    BY <1>8 DEF Opening!CreateInvitedUser
  <2> QED
    BY <1>2, <2>1, <2>2, <2>3
<1>9. CASE Opening!StoreLetter(s)
  <2>1. opening[s].id \in Accounts
    BY <1>0, <1>9 DEF Opening!StoreLetter, Opening!At, Named
  <2>2. letter # Opening!NoLetter => letter.id \in Accounts
    BY <1>0 DEF Opening!Letter
  <2>3. letter' \in Opening!Letter
    BY <1>9, <2>1, <2>2 DEF Opening!StoreLetter, Opening!Letter
  <2>4. letter' # Opening!NoLetter
    BY <2>3, AddressAssumption DEF Opening!Letter, Opening!NoLetter
  <2> QED
    BY <1>0, <1>9, <2>3, <2>4 DEF Opening!StoreLetter
<1>10. CASE Opening!SetSocialStatus(s)
  BY <1>0, <1>3, <1>10 DEF Opening!SetSocialStatus, Opening!At, Named
<1>11. CASE Opening!WriteVerified(s)
  BY <1>0, <1>3, <1>11 DEF Opening!WriteVerified, Opening!At, Named
<1>12. CASE Opening!DeleteLetter(s)
  BY <1>0, <1>12 DEF Opening!DeleteLetter, Opening!At
<1>13. ASSUME NEW role \in Opening!Roles \ {"Candidate"}, Opening!Invite(role)
       PROVE  /\ invitation' \in Opening!Invitation
              /\ tokens \subseteq tokens' /\ tokens' \subseteq Tokens
  BY <1>0, <1>13 DEF Opening!Invite, Opening!Invitation, Opening!NoInvitation
<1>14. CASE Opening!InviteEmployee(s) \/ Opening!InviteColleague(s)
  BY <1>4, <1>13, <1>14 DEF Opening!InviteEmployee, Opening!InviteColleague, Opening!Roles
<1>15. CASE Opening!ResendInvitation(s)
  <2>1. invitation \in Opening!Invitation
    BY <1>0, <1>15 DEF Opening!ResendInvitation
  <2> QED
    BY <1>0, <1>4, <1>15, <2>1 DEF Opening!ResendInvitation, Opening!Invitation
<1>16. CASE Opening!CancelColleagueInvitation(s)
  BY <1>0, <1>4, <1>16 DEF Opening!CancelColleagueInvitation
<1>17. CASE Opening!AcceptInvitation(s)
  <2>1. invitation \in Opening!Invitation
    BY <1>0, <1>17, NobodyHasAddress DEF Opening!AcceptInvitation, Opening!At, Named
  <2> QED
    BY <1>0, <1>4, <1>17, <2>1 DEF Opening!AcceptInvitation, Opening!Invitation
<1> QED
  BY <1>5, <1>6, <1>7, <1>8, <1>9, <1>10, <1>11, <1>12, <1>14, <1>15, <1>16, <1>17
  DEF Opening!HandlerStep, Opening!RegistrationStep, Opening!VerificationStep,
      Opening!InvitationStep, Opening!CreateAdminStep

\* Who is about to spend the letter has verified the account.
Verified ==
  \A s \in Requests : opening[s].step = "deleteLetter" =>
    account # Opening!NoUser /\ account.status # "PendingVerification"

LEMMA VerifiedNext ==
  ASSUME AddressTyped, Verified, NEW s \in Requests,
         Opening!HandlerStep(s) \/ Opening!Abandon(s)
  PROVE  Verified' /\ Opening!VerifiedBeforeSpent
<1>1. Reached(s) /\ RowsKept(s)
  BY ReachedBy, RowsKeptBy
<1>2. Opening!WriteVerified(s) =>
        account' # Opening!NoUser /\ account'.status # "PendingVerification"
  <2> SUFFICES ASSUME Opening!WriteVerified(s)
               PROVE  account' # Opening!NoUser /\ account'.status # "PendingVerification"
    OBVIOUS
  <2>1. opening[s].id \in Accounts /\ account.id = opening[s].id
    BY DEF Opening!WriteVerified, Opening!At, AddressTyped, Named
  <2>2. account \in Opening!User
    BY <2>1, NobodyHasAddress DEF AddressTyped, Opening!TypeOK
  <2>3. account'.id = account.id /\ account'.status # "PendingVerification"
    BY <2>2 DEF Opening!WriteVerified, Opening!User, Opening!VerifiedStatus
  <2> QED
    BY <2>1, <2>3, NobodyHasAddress, AddressAssumption
<1>3. Verified'
  BY <1>1, <1>2 DEF Reached, RowsKept, Verified
<1> QED
  BY <1>1, <1>3 DEF RowsKept, Verified, Opening!VerifiedBeforeSpent

\* A request takes its next step, or is refused it.
Goes(s) == Opening!HandlerStep(s) \/ (Opening!Refused(s) /\ Opening!Abandon(s))

LEMMA GoesBy ==
  ASSUME AddressTyped, NEW s \in Requests, Goes(s)
  PROVE  Reached(s) /\ RowsKept(s)
BY ReachedBy, RowsKeptBy DEF Goes

\* An invitation makes an account while nobody has the address, and is accepted
\* before the account can go.
RedeemInv ==
  /\ \A t \in Tokens :
       /\ redeemed[t] <= 1
       /\ redeemed[t] > 0 =>
            /\ t \in tokens
            /\ invitation.id = t =>
                 \/ invitation.accepted
                 \/ \E s \in Requests : opening[s].step = "markAccepted" /\ opening[s].row = t
  /\ \A s \in Requests :
       /\ opening[s].step = "redeem" =>
            /\ opening[s].row \in tokens
            /\ redeemed[opening[s].row] > 0 => account # Opening!NoUser
       /\ opening[s].step = "markAccepted" => account # Opening!NoUser
  /\ invitation # Opening!NoInvitation => invitation.id \in tokens

\* A step leaves the invitation, accepts it, takes it back or makes a new one.
InvitationKept(s) ==
  /\ \/ invitation'.id = invitation.id /\ (invitation.accepted => invitation'.accepted)
     \/ invitation' = Opening!NoInvitation
     \/ invitation'.id \in tokens' \ tokens
  /\ invitation' # Opening!NoInvitation /\ invitation'.id = invitation.id
       => invitation # Opening!NoInvitation
  /\ opening[s].step = "markAccepted" /\ invitation.id = opening[s].row
       => invitation'.id = invitation.id /\ invitation'.accepted
  /\ Opening!CreateInvitedUser(s) \/ UNCHANGED redeemed

LEMMA InvitationKeptBy ==
  ASSUME AddressTyped, NEW s \in Requests, Goes(s)
  PROVE  InvitationKept(s)
<1> USE DEF InvitationKept, Opening!rowVars
<1>0. /\ Named(opening[s]) /\ invitation \in Opening!Invitation \cup {Opening!NoInvitation}
  BY DEF AddressTyped, Opening!TypeOK
<1>1. CASE UNCHANGED <<invitation, redeemed>> /\ opening[s].step # "markAccepted"
  BY <1>1
<1>2. CASE Opening!Refused(s) /\ Opening!Abandon(s)
  BY <1>2 DEF Opening!Refused, Opening!Abandon, Opening!At
<1>3. CASE Opening!RegistrationStep(s) \/ Opening!VerificationStep(s) \/ Opening!CreateAdminStep(s)
  BY <1>1, <1>3 DEF Opening!RegistrationStep, Opening!VerificationStep, Opening!CreateAdminStep,
     Opening!BeginRegister, Opening!CreateCompany, Opening!CreateUser, Opening!StoreLetter,
     Opening!SetSocialStatus, Opening!FindLetter, Opening!FindUser, Opening!WriteVerified,
     Opening!DeleteLetter, Opening!BeginCreateAdmin, Opening!CreateAdmin, Opening!Accept, Opening!At
<1>4. CASE Opening!BeginInviteColleague(s) \/ Opening!BeginAccept(s)
  BY <1>1, <1>4 DEF Opening!BeginInviteColleague, Opening!BeginAccept, Opening!Accept, Opening!At
<1>5. CASE Opening!InviteEmployee(s) \/ Opening!InviteColleague(s)
  <2>1. \E role : Opening!Invite(role)
    BY <1>5 DEF Opening!InviteEmployee, Opening!InviteColleague
  <2>2. invitation'.id \in tokens' \ tokens
    BY <2>1 DEF Opening!Invite, Opening!NoInvitation
  <2>3. opening[s].step # "markAccepted" /\ UNCHANGED redeemed /\ invitation = Opening!NoInvitation
    BY <1>5 DEF Opening!InviteEmployee, Opening!InviteColleague, Opening!Free, Opening!At,
       Opening!Invite
  <2>4. invitation'.id # invitation.id
    BY <2>1, <2>3, AddressAssumption DEF Opening!Invite, Opening!NoInvitation
  <2> QED
    BY <2>2, <2>3, <2>4
<1>6. CASE Opening!ResendInvitation(s)
  <2>1. invitation \in Opening!Invitation
    BY <1>0, <1>6 DEF Opening!ResendInvitation
  <2>2. invitation'.id = invitation.id /\ invitation'.accepted = invitation.accepted
    BY <1>6, <2>1 DEF Opening!ResendInvitation, Opening!Invitation
  <2> QED
    BY <1>6, <2>2 DEF Opening!ResendInvitation, Opening!Free, Opening!At
<1>7. CASE Opening!CancelColleagueInvitation(s)
  BY <1>7 DEF Opening!CancelColleagueInvitation, Opening!Free, Opening!At
<1>8. CASE Opening!CreateInvitedUser(s)
  BY <1>8 DEF Opening!CreateInvitedUser, Opening!At
<1>9. CASE Opening!AcceptInvitation(s)
  <2>1. invitation \in Opening!Invitation
    BY <1>0, <1>9, NobodyHasAddress DEF Opening!AcceptInvitation, Opening!At, Named
  <2>2. invitation'.id = invitation.id /\ invitation'.accepted
    BY <1>9, <2>1 DEF Opening!AcceptInvitation, Opening!Invitation
  <2>3. invitation # Opening!NoInvitation
    BY <2>1, NobodyHasAddress, AddressAssumption DEF Opening!Invitation
  <2> QED
    BY <1>9, <2>2, <2>3 DEF Opening!AcceptInvitation
<1> QED
  BY <1>2, <1>3, <1>4, <1>5, <1>6, <1>7, <1>8, <1>9
  DEF Goes, Opening!HandlerStep, Opening!InvitationStep

LEMMA RedeemNext ==
  ASSUME AddressTyped, RedeemInv, NEW s \in Requests, Goes(s)
  PROVE  RedeemInv'
<1>0. /\ Reached(s) /\ RowsKept(s) /\ InvitationKept(s)
      /\ redeemed \in [Tokens -> Nat] /\ tokens \subseteq Tokens
      /\ \A t \in Requests : Named(opening[t])
      /\ None \notin Tokens /\ Opening!NoInvitation.id = None
      /\ invitation \in Opening!Invitation \cup {Opening!NoInvitation}
  BY GoesBy, InvitationKeptBy, AddressAssumption, NobodyHasAddress
  DEF AddressTyped, Opening!TypeOK
<1>1. CASE Opening!CreateInvitedUser(s)
  <2>1. /\ opening[s].step = "redeem" /\ opening[s].row \in Tokens
        /\ redeemed' = [redeemed EXCEPT ![opening[s].row] = @ + 1]
        /\ UNCHANGED <<invitation, tokens>> /\ account = Opening!NoUser
        /\ Opening!Continue(s, "markAccepted")
        /\ Opening!Create(opening[s].id, opening[s].role, "Active")
    BY <1>0, <1>1 DEF Opening!CreateInvitedUser, Opening!At, Named, Opening!Create, Opening!rowVars
  <2>2. account' # Opening!NoUser
    BY <1>0, <2>1, AddressAssumption DEF Opening!Create, Opening!NoUser, Named
  <2>3. opening'[s].step = "markAccepted" /\ opening'[s].row = opening[s].row
    BY <2>1, OpeningContinue DEF AddressTyped, Opening!TypeOK, Opening!Steps
  <2>4. redeemed[opening[s].row] = 0
    BY <1>0, <2>1 DEF RedeemInv
  <2>5. /\ redeemed'[opening[s].row] = 1 /\ opening[s].row \in tokens
        /\ \A t \in Tokens \ {opening[s].row} : redeemed'[t] = redeemed[t]
    BY <1>0, <2>1, <2>4 DEF RedeemInv
  <2> QED
    BY <1>0, <2>1, <2>2, <2>3, <2>5 DEF RedeemInv, Reached, Named
<1>2. CASE ~Opening!CreateInvitedUser(s)
  <2>1. UNCHANGED redeemed /\ opening'[s].step # "markAccepted"
    BY <1>0, <1>2 DEF InvitationKept, Reached
  <2>2. ASSUME opening'[s].step = "redeem"
        PROVE  /\ opening'[s].row \in tokens /\ invitation.id = opening'[s].row
               /\ ~invitation.accepted /\ UNCHANGED account
    <3>1. Opening!BeginAccept(s)
      BY <1>0, <2>2 DEF Reached
    <3>2. invitation # Opening!NoInvitation /\ ~invitation.accepted /\ UNCHANGED account
      BY <3>1, NobodyHasAddress DEF Opening!BeginAccept, Opening!Open
    <3>3. opening'[s].row = invitation.id
      BY <3>1 DEF Opening!BeginAccept, Opening!Accept, Opening!Idle, AddressTyped, Opening!TypeOK
    <3> QED
      BY <3>2, <3>3 DEF RedeemInv
  <2>3. ASSUME NEW t \in Tokens, redeemed'[t] > 0
        PROVE  /\ redeemed'[t] <= 1 /\ t \in tokens'
               /\ invitation'.id = t =>
                    \/ invitation'.accepted
                    \/ \E r \in Requests : opening'[r].step = "markAccepted" /\ opening'[r].row = t
    <3>1. redeemed[t] <= 1 /\ t \in tokens /\ t \in tokens'
      BY <1>0, <2>1, <2>3 DEF RedeemInv, RowsKept
    <3>2. ASSUME invitation'.id = t, ~invitation'.accepted
          PROVE  \E r \in Requests : opening'[r].step = "markAccepted" /\ opening'[r].row = t
      <4>1. invitation.id = t /\ ~invitation.accepted
        BY <1>0, <3>1, <3>2 DEF InvitationKept
      <4>2. PICK r \in Requests : opening[r].step = "markAccepted" /\ opening[r].row = t
        BY <2>1, <2>3, <4>1 DEF RedeemInv
      <4>3. r # s
        BY <1>0, <3>2, <4>1, <4>2 DEF InvitationKept
      <4> QED
        BY <1>0, <4>2, <4>3 DEF Reached
    <3> QED
      BY <2>1, <3>1, <3>2
  <2>4. ASSUME NEW r \in Requests
        PROVE  /\ opening'[r].step = "redeem" =>
                    /\ opening'[r].row \in tokens'
                    /\ redeemed'[opening'[r].row] > 0 => account' # Opening!NoUser
               /\ opening'[r].step = "markAccepted" => account' # Opening!NoUser
    <3>1. CASE r = s
      <4>1. ASSUME opening'[s].step = "redeem", redeemed'[opening'[s].row] > 0
            PROVE  account' # Opening!NoUser
        <5>1. \E q \in Requests : opening[q].step = "markAccepted"
          BY <1>0, <2>1, <2>2, <4>1 DEF RedeemInv
        <5> QED
          BY <2>2, <4>1, <5>1 DEF RedeemInv
      <4> QED
        BY <1>0, <2>1, <2>2, <3>1, <4>1 DEF RowsKept
    <3>2. CASE r # s
      BY <1>0, <2>1, <3>2 DEF RedeemInv, Reached, RowsKept
    <3> QED
      BY <3>1, <3>2
  <2>5. invitation' # Opening!NoInvitation => invitation'.id \in tokens'
    BY <1>0 DEF InvitationKept, RedeemInv, RowsKept
  <2>6. \A t \in Tokens : redeemed'[t] <= 1
    BY <1>0, <2>1 DEF RedeemInv
  <2> QED
    BY <2>3, <2>4, <2>5, <2>6 DEF RedeemInv
<1> QED
  BY <1>1, <1>2

\* One at a time, a registration finds the address as it was when it was
\* accepted.
Founding ==
  /\ \A s, t \in Requests : opening[s].step # "idle" /\ opening[t].step # "idle" => s = t
  /\ \A s \in Requests : opening[s].step \in {"company", "user"} => account = Opening!NoUser
  /\ Opening!CompaniesHaveFounders

LEMMA FoundingNext ==
  ASSUME AddressTyped, Founding, NEW s \in Requests, Goes(s),
         \A t \in Requests \ {s} : opening[t].step = "idle"
  PROVE  Founding'
<1>0. Reached(s) /\ RowsKept(s) /\ opening \in [Requests -> Opening!Request]
  BY GoesBy DEF AddressTyped, Opening!TypeOK
<1>1. \A t \in Requests \ {s} : opening'[t].step = "idle"
  BY <1>0 DEF Reached
<1>2. ASSUME opening'[s].step \in {"company", "user"} PROVE account' = Opening!NoUser
  <2>1. CASE Opening!BeginRegister(s)
    BY <2>1 DEF Opening!BeginRegister
  <2>2. CASE Opening!CreateCompany(s)
    BY <2>2 DEF Opening!CreateCompany, Opening!At, Founding
  <2> QED
    BY <1>0, <1>2, <2>1, <2>2 DEF Reached
<1>3. ASSUME NEW a \in companies'
      PROVE  a \in opened' \/ \E t \in Requests : Opening!At(t, "user")' /\ opening'[t].id = a
  <2>1. CASE a \notin companies
    <3>1. Opening!CreateCompany(s) /\ a = opening[s].id
      BY <1>3, <2>1 DEF Goes, Opening!HandlerStep, Opening!RegistrationStep,
         Opening!VerificationStep, Opening!InvitationStep, Opening!CreateAdminStep,
         Opening!BeginRegister, Opening!CreateCompany, Opening!CreateUser, Opening!StoreLetter,
         Opening!SetSocialStatus, Opening!FindLetter, Opening!FindUser, Opening!WriteVerified,
         Opening!DeleteLetter, Opening!InviteEmployee, Opening!BeginInviteColleague,
         Opening!InviteColleague, Opening!ResendInvitation, Opening!CancelColleagueInvitation,
         Opening!BeginAccept, Opening!CreateInvitedUser, Opening!AcceptInvitation,
         Opening!BeginCreateAdmin, Opening!CreateAdmin, Opening!Abandon, Opening!rowVars
    <3>2. opening'[s].step = "user" /\ opening'[s].id = a
      BY <1>0, <3>1, OpeningContinue DEF Opening!CreateCompany, Opening!Steps
    <3> QED
      BY <3>2 DEF Opening!At
  <2>2. CASE a \in opened
    BY <1>0, <2>2 DEF RowsKept
  <2>3. CASE a \in companies /\ a \notin opened
    <3>1. opening[s].step = "user" /\ opening[s].id = a
      BY <2>3 DEF Founding, Opening!CompaniesHaveFounders, Opening!At
    <3>2. account = Opening!NoUser
      BY <3>1 DEF Founding
    <3>3. Opening!CreateUser(s)
      BY <3>1, <3>2 DEF Goes, Opening!Refused, Opening!HandlerStep, Opening!RegistrationStep,
         Opening!VerificationStep, Opening!InvitationStep, Opening!CreateAdminStep,
         Opening!BeginRegister, Opening!CreateCompany, Opening!StoreLetter,
         Opening!SetSocialStatus, Opening!FindLetter, Opening!FindUser, Opening!WriteVerified,
         Opening!DeleteLetter, Opening!InviteEmployee, Opening!BeginInviteColleague,
         Opening!InviteColleague, Opening!ResendInvitation, Opening!CancelColleagueInvitation,
         Opening!BeginAccept, Opening!CreateInvitedUser, Opening!AcceptInvitation,
         Opening!BeginCreateAdmin, Opening!CreateAdmin, Opening!At, Opening!Accept, Opening!Free
    <3> QED
      BY <3>1, <3>3 DEF Opening!CreateUser, Opening!Create
  <2> QED
    BY <2>1, <2>2, <2>3
<1>4. Opening!CompaniesHaveFounders'
  BY <1>3 DEF Opening!CompaniesHaveFounders, Opening!At
<1> QED
  BY <1>1, <1>2, <1>4 DEF Founding

\* What an administrator decides, and a deadline that passes, finds no request in
\* flight.
LEMMA DecisionKeeps ==
  ASSUME AddressTyped, AddressQuiet, Opening!Decision \/ Opening!Expiry
  PROVE  /\ AddressTyped' /\ UNCHANGED <<opening, companies, opened, tokens, redeemed>>
         /\ letter' = Opening!NoLetter => letter = Opening!NoLetter
         /\ invitation' = invitation
              \/ (/\ invitation \in Opening!Invitation /\ invitation' \in Opening!Invitation
                  /\ invitation'.id = invitation.id
                  /\ invitation'.accepted = invitation.accepted)
<1> USE DEF Opening!rowVars
<1>0. /\ account \in Opening!User \cup {Opening!NoUser}
      /\ letter \in Opening!Letter \cup {Opening!NoLetter}
      /\ invitation \in Opening!Invitation \cup {Opening!NoInvitation}
  BY DEF AddressTyped, Opening!TypeOK
<1>1. UNCHANGED <<opening, companies, opened, tokens, redeemed>>
  BY DEF Opening!Decision, Opening!Expiry, Opening!SetStatus, Opening!DeleteUser,
     Opening!LetterExpires, Opening!ExpireInvitation
<1>2. account' \in Opening!User \cup {Opening!NoUser}
  <2>1. CASE UNCHANGED account \/ account' = Opening!NoUser
    BY <1>0, <2>1
  <2>2. ASSUME NEW status \in Opening!Statuses, Opening!SetStatus(status)
        PROVE  account' \in Opening!User
    BY <1>0, <2>2 DEF Opening!SetStatus, Opening!User
  <2> QED
    BY <2>1, <2>2 DEF Opening!Decision, Opening!Expiry, Opening!DeleteUser,
       Opening!LetterExpires, Opening!ExpireInvitation
<1>3. /\ letter' \in Opening!Letter \cup {Opening!NoLetter}
      /\ letter' = Opening!NoLetter => letter = Opening!NoLetter
  <2>1. CASE UNCHANGED letter
    BY <1>0, <2>1
  <2>2. CASE Opening!LetterExpires
    <3>1. letter \in Opening!Letter
      BY <1>0, <2>2, NobodyHasAddress DEF Opening!LetterExpires
    <3>2. letter' \in Opening!Letter
      BY <2>2, <3>1 DEF Opening!LetterExpires, Opening!Letter
    <3> QED
      BY <3>2, AddressAssumption DEF Opening!Letter, Opening!NoLetter
  <2> QED
    BY <2>1, <2>2 DEF Opening!Decision, Opening!Expiry, Opening!SetStatus, Opening!DeleteUser,
       Opening!ExpireInvitation
<1>4. invitation' = invitation
        \/ (/\ invitation \in Opening!Invitation /\ invitation' \in Opening!Invitation
            /\ invitation'.id = invitation.id
            /\ invitation'.accepted = invitation.accepted)
  <2>1. CASE Opening!ExpireInvitation
    <3>1. invitation \in Opening!Invitation
      BY <1>0, <2>1, NobodyHasAddress DEF Opening!ExpireInvitation
    <3> QED
      BY <2>1, <3>1 DEF Opening!ExpireInvitation, Opening!Invitation
  <2> QED
    BY <2>1 DEF Opening!Decision, Opening!Expiry, Opening!SetStatus, Opening!DeleteUser,
       Opening!LetterExpires
<1>5. AddressTyped'
  BY <1>0, <1>1, <1>2, <1>3, <1>4 DEF AddressTyped, Opening!TypeOK
<1> QED
  BY <1>1, <1>3, <1>4, <1>5

\* What holds of the address in the instances.
AddressInv ==
  /\ AddressTyped
  /\ Verified
  /\ load # "serial" => RedeemInv
  /\ load = "reliable" => Founding

LEMMA AddressInit == MCInit => AddressInv
<1> SUFFICES ASSUME MCInit PROVE AddressInv
  OBVIOUS
<1>0. Opening!Init
  BY DEF MCInit
<1>1. \A s \in Requests : opening[s] = Opening!Idle
  BY <1>0 DEF Opening!Init
<1>2. AddressTyped
  BY <1>0, <1>1, AddressIdleTyped DEF Opening!Init, AddressTyped, Opening!TypeOK
<1>3. Verified
  BY <1>1, AddressIdleTyped DEF Verified
<1>4. RedeemInv
  BY <1>0, <1>1, AddressIdleTyped DEF Opening!Init, RedeemInv
<1>5. Founding
  BY <1>0, <1>1, AddressIdleTyped DEF Opening!Init, Founding, Opening!CompaniesHaveFounders
<1> QED
  BY <1>2, <1>3, <1>4, <1>5 DEF AddressInv

LEMMA AddressGoes ==
  ASSUME AddressInv, NEW s \in Turns(AddressIdle), UNCHANGED load,
         \/ Opening!HandlerStep(s)
         \/ (load = "serial" \/ Opening!Refused(s)) /\ Opening!Abandon(s)
  PROVE  AddressInv' /\ Opening!VerifiedBeforeSpent
<1>0. s \in Requests /\ AddressTyped /\ Verified
  BY DEF Turns, AddressInv
<1>1. Reached(s) /\ RowsKept(s) /\ Verified' /\ Opening!VerifiedBeforeSpent
  BY <1>0, ReachedBy, RowsKeptBy, VerifiedNext
<1>2. AddressTyped'
  <2>1. \A t \in Requests : Named(opening'[t])
    BY <1>0, <1>1 DEF Reached, AddressTyped
  <2> QED
    BY <1>1, <2>1 DEF Reached, RowsKept, AddressTyped, Opening!TypeOK
<1>3. ASSUME load # "serial" PROVE RedeemInv'
  BY <1>0, <1>3, RedeemNext DEF AddressInv, Goes
<1>4. ASSUME load = "reliable" PROVE Founding'
  <2>1. Goes(s) /\ Founding
    BY <1>4 DEF AddressInv, Goes
  <2>2. \A t \in Requests \ {s} : opening[t].step = "idle"
    BY <1>4, <2>1 DEF Turns, AddressIdle, Opening!At, Founding
  <2> QED
    BY <1>0, <2>1, <2>2, FoundingNext
<1> QED
  BY <1>1, <1>2, <1>3, <1>4 DEF AddressInv

LEMMA AddressNext ==
  ASSUME AddressInv, [MCNext]_<<vars, addressVars, subject, load>>
  PROVE  AddressInv' /\ [Opening!VerifiedBeforeSpent]_addressVars
<1>1. CASE UNCHANGED <<account, letter, invitation, companies, opening, opened, tokens, redeemed>>
           /\ UNCHANGED load
  <2>1. AddressTyped' /\ Verified'
    BY <1>1 DEF AddressInv, AddressTyped, Opening!TypeOK, Verified
  <2>2. load # "serial" => RedeemInv'
    BY <1>1 DEF AddressInv, RedeemInv
  <2>3. load = "reliable" => Founding'
    BY <1>1 DEF AddressInv, Founding, Opening!CompaniesHaveFounders, Opening!At
  <2> QED
    BY <1>1, <2>1, <2>2, <2>3 DEF AddressInv, addressVars
<1>2. CASE AddressStep /\ UNCHANGED load
  <2>1. CASE AddressQuiet /\ (Opening!Decision \/ Opening!Expiry)
    <3>1. \A s \in Requests : opening[s].step = "idle"
      BY <2>1 DEF AddressQuiet, AddressIdle, Opening!At
    <3>2. AddressTyped' /\ UNCHANGED <<opening, companies, opened, tokens, redeemed>>
      BY <2>1, DecisionKeeps DEF AddressInv
    <3>3. Verified'
      BY <3>1, <3>2 DEF Verified
    <3>4. load # "serial" => RedeemInv'
      <4>1. \/ invitation' = invitation
            \/ /\ invitation'.id = invitation.id /\ invitation'.accepted = invitation.accepted
               /\ invitation # Opening!NoInvitation
        BY <2>1, DecisionKeeps, NobodyHasAddress, AddressAssumption
        DEF AddressInv, Opening!Invitation
      <4> QED
        BY <3>1, <3>2, <4>1 DEF AddressInv, RedeemInv
    <3>5. load = "reliable" => Founding'
      BY <3>1, <3>2 DEF AddressInv, Founding, Opening!CompaniesHaveFounders, Opening!At
    <3>6. Opening!VerifiedBeforeSpent
      BY <2>1, DecisionKeeps DEF AddressInv, Opening!VerifiedBeforeSpent
    <3> QED
      BY <1>2, <3>2, <3>3, <3>4, <3>5, <3>6 DEF AddressInv
  <2> QED
    BY <1>2, <2>1, AddressGoes DEF AddressStep
<1> QED
  BY <1>1, <1>2 DEF MCNext, vars, addressVars

-----------------------------------------------------------------------------
(* Theorems.                                                               *)

\* However requests overlap and stop, every row and request keeps the type the
\* schema gives it.
THEOREM TypeCorrect == Spec => []TypeOK
<1>1. IInv => TypeOK
  BY DEF IInv
<1> QED
  BY InitEstablishes, NextPreserves, <1>1, PTL DEF Spec

\* No company is approved that no administrator approved or reinstated
\* (verifyCompany, unsuspendCompany), whatever the profile form writes back.
THEOREM ApprovalDecided == Spec => []ApprovalWasDecided
<1>1. IInv => ApprovalWasDecided
  BY DEF IInv
<1> QED
  BY InitEstablishes, NextPreserves, <1>1, PTL DEF Spec

\* While requests come one at a time, and may stop anywhere, a link is good for
\* one resubmission (resubmitViaToken).
THEOREM LinksSingleUse == MCSpec => []SerialLinkSingleUse
<1>1. TeamInv => SerialLinkSingleUse
  BY DEF TeamInv, SerialLinkSingleUse, LinkInv, LinkSingleUse
<1> QED
  BY TeamInit, TeamNext, <1>1, PTL DEF MCSpec

\* While requests come one at a time, and may stop anywhere, no recruiter
\* suspended with the company stays so when it is approved again
\* (suspendCompany, unsuspendCompany, verifyCompany).
THEOREM NobodyStaysSuspended == MCSpec => []SerialNobodyLeftBehind
<1>1. TeamInv => SerialNobodyLeftBehind
  BY DEF TeamInv, SerialNobodyLeftBehind, TakenInv, TakenCore
<1> QED
  BY TeamInit, TeamNext, <1>1, PTL DEF MCSpec

\* Under each load the rows and requests of both subjects, company and address,
\* keep their types.
THEOREM RowsTyped == MCSpec => []AllTyped
<1>1. TeamInv /\ AddressInv => AllTyped
  BY DEF TeamInv, IInv, AddressInv, AddressTyped, AllTyped
<1> QED
  BY TeamInit, TeamNext, AddressInit, AddressNext, <1>1, PTL DEF MCSpec

\* As long as requests complete, an invitation makes one account, however many
\* requests redeem it at once, however often it is resent, and also when the
\* account is deleted (acceptInvitation).
THEOREM InvitationsSingleUse == MCSpec => []ReliableInvitationOpensOnce
<1>1. AddressInv => ReliableInvitationOpensOnce
  BY DEF AddressInv, RedeemInv, ReliableInvitationOpensOnce, Opening!InvitationOpensOnce
<1> QED
  BY AddressInit, AddressNext, <1>1, PTL DEF MCSpec

\* While requests come one at a time and complete, no registration leaves a
\* company without the recruiter it was made for (registerRecruiter).
THEOREM CompaniesFounded == MCSpec => []ReliableCompaniesHaveFounders
<1>1. AddressInv => ReliableCompaniesHaveFounders
  BY DEF AddressInv, Founding, ReliableCompaniesHaveFounders
<1> QED
  BY AddressInit, AddressNext, <1>1, PTL DEF MCSpec

\* Whether requests overlap or come one at a time and stop anywhere, the
\* verification link is spent only when the account no longer waits for it
\* (verifyEmail).
THEOREM LinksSpentLate == MCSpec => VerifiedBeforeSpent
BY AddressInit, AddressNext, PTL DEF MCSpec, VerifiedBeforeSpent
=============================================================================
