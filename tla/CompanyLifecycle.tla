-------------------------- MODULE CompanyLifecycle --------------------------
(***************************************************************************)
(* One company and its recruiters' accounts: registration and the founder's*)
(* e-mail verification, the profile form (onboardCompany), administrators' *)
(* verdicts (verifyCompany), the public resubmission link, suspension and  *)
(* reinstatement, colleagues who join, and decisions on single accounts.   *)
(*                                                                         *)
(* A handler that writes nothing it read earlier is one step; the others   *)
(* hold what they read.  Either way a handler needs a free request, so     *)
(* with a single one they run one after the other.  CompanyStatus's draft  *)
(* and pending_verification are treated as pending and submitted are, and  *)
(* an expired link is, for every reader, the same as none.                 *)
(***************************************************************************)
EXTENDS Naturals

CONSTANTS
  Founder,     \* the recruiter who registers the company
  Colleagues,  \* recruiters who may be invited
  Links,       \* verification tokens, never minted twice
  Docs,        \* documents, each uploaded once
  Requests,    \* requests in flight at once
  None,        \* no link
  MayFail      \* whether a handler may stop between two of its steps

ASSUME CompanyAssumption ==
  /\ Founder \notin Colleagues
  /\ None \notin Links
  /\ MayFail \in BOOLEAN

Recruiters == Colleagues \cup {Founder}

VARIABLES
  company,   \* Company.status
  user,      \* User.status of each recruiter
  mail,      \* whether the founder's EmailVerification row exists
  invited,   \* colleagues with an open invitation
  loggedIn,  \* whether some recruiter holds a valid access token
  link,      \* Company.verificationToken
  docs,      \* Company.verificationDocuments
  req,       \* what each request in flight has still to do
  (* Observed, read by no handler. *)
  minted,    \* links minted so far
  uses,      \* resubmissions stored with each link
  uploaded,  \* documents uploaded so far
  approvedOnce,  \* CompanyVerificationHistory has an approved row
  reinstated,    \* unsuspendCompany has run
  taken      \* recruiters whose status is suspendCompany's doing

vars == <<company, user, mail, invited, loggedIn, link, docs, req,
          minted, uses, uploaded, approvedOnce, reinstated, taken>>

CompanyStates == {"pending", "submitted", "under_review", "info_requested",
                  "approved", "rejected", "suspended"}
UserStates == {"PendingVerification", "PendingApproval", "Active", "Rejected",
               "Suspended", "Blocked"}

Steps == {"idle", "writeVerified", "deleteMail", "suspend", "unsuspend",
          "resubmit", "attach", "saveProfile"}

Request == [step   : Steps,
            status : CompanyStates,          \* the status to be written
            team   : SUBSET Recruiters,      \* the recruiters to be changed
            link   : Links \cup {None},      \* the link presented
            docs   : SUBSET Docs]            \* the documents to be written

Idle == [step |-> "idle", status |-> "pending", team |-> {}, link |-> None,
         docs |-> {}]

Team == {r \in Recruiters : user[r] # "none"}
TeamIn(status) == {r \in Recruiters : user[r] = status}

At(s, step) == req[s].step = step

Accept(s, held) == At(s, "idle") /\ req' = [req EXCEPT ![s] = held]

Respond(s) == req' = [req EXCEPT ![s] = Idle]

\* A handler of one step takes a free request and is done.
Free(s) == At(s, "idle") /\ UNCHANGED req

SetStatus(rs, status) ==
  user' = [r \in Recruiters |-> IF r \in rs THEN status ELSE user[r]]

team == <<user, mail, invited, loggedIn>>
papers == <<link, docs, minted, uploaded>>
observed == <<uses, approvedOnce, reinstated, taken>>

-----------------------------------------------------------------------------
(* The accounts.                                                           *)

BeginVerifyEmail(s) ==
  /\ mail
  /\ Accept(s, [Idle EXCEPT !.step = "writeVerified"])
  /\ UNCHANGED <<company, team, papers, observed>>

WriteVerified(s) ==
  /\ At(s, "writeVerified")
  /\ SetStatus({Founder}, "PendingApproval")
  /\ req' = [req EXCEPT ![s].step = "deleteMail"]
  /\ taken' = taken \ {Founder}
  /\ UNCHANGED <<company, mail, invited, loggedIn, papers, uses, approvedOnce,
                 reinstated>>

DeleteMail(s) ==
  /\ At(s, "deleteMail")
  /\ mail' = FALSE
  /\ Respond(s)
  /\ UNCHANGED <<company, user, invited, loggedIn, papers, observed>>

InviteColleague(s) ==
  /\ Free(s)
  /\ company = "approved"
  /\ \E r \in Colleagues : user[r] = "none" /\ invited' = invited \cup {r}
  /\ UNCHANGED <<company, user, mail, loggedIn, papers, observed>>

\* acceptInvitation; the account is active at once.
JoinTeam(s) ==
  /\ Free(s)
  /\ \E r \in invited :
       /\ SetStatus({r}, "Active")
       /\ invited' = invited \ {r}
  /\ UNCHANGED <<company, mail, loggedIn, papers, observed>>

\* createAuthSession lets a recruiter in only while the company is approved;
\* the access token then goes by its signature until it expires.
LogIn(s) ==
  /\ Free(s)
  /\ company = "approved"
  /\ TeamIn("Active") # {}
  /\ loggedIn' = TRUE
  /\ UNCHANGED <<company, user, mail, invited, papers, observed>>

AccessExpires ==
  /\ loggedIn
  /\ loggedIn' = FALSE
  /\ UNCHANGED <<company, user, mail, invited, papers, req, observed>>

\* updateUserStatus, and userAdministrativeAction's account-unlock.
SetUserStatus(s) ==
  /\ Free(s)
  /\ \E r \in Team, status \in UserStates :
       /\ SetStatus({r}, status)
       /\ taken' = taken \ {r}
  /\ UNCHANGED <<company, mail, invited, loggedIn, papers, uses, approvedOnce,
                 reinstated>>

-----------------------------------------------------------------------------
(* The verdict and the resubmission.                                       *)

\* One transaction; a verdict of info_requested mints a link, and no verdict
\* revokes one.
VerifyCompany(s) ==
  /\ Free(s)
  /\ \E status \in CompanyStates :
       /\ company' = status
       /\ CASE status = "approved" -> SetStatus(Team, "Active")
            [] status = "rejected" -> SetStatus(Team, "Rejected")
            [] OTHER -> UNCHANGED user
       /\ taken' = IF status \in {"approved", "rejected"} THEN {} ELSE taken
       /\ approvedOnce' = (approvedOnce \/ status = "approved")
       /\ IF status = "info_requested"
          THEN \E l \in Links \ minted : link' = l /\ minted' = minted \cup {l}
          ELSE UNCHANGED <<link, minted>>
  /\ UNCHANGED <<mail, invited, loggedIn, docs, uploaded, uses, reinstated>>

LinkExpires ==
  /\ link # None
  /\ link' = None
  /\ UNCHANGED <<company, team, docs, minted, uploaded, req, observed>>

BeginResubmit(s) ==
  /\ link # None
  /\ Accept(s, [Idle EXCEPT !.step = "resubmit", !.link = link])
  /\ UNCHANGED <<company, team, papers, observed>>

\* Mutated form: a resubmission approves the company.
ResubmitApproved(s) ==
  /\ At(s, "resubmit")
  /\ company' = "approved"
  /\ link' = None
  /\ uses' = [uses EXCEPT ![req[s].link] = @ + 1]
  /\ Respond(s)
  /\ UNCHANGED <<team, docs, minted, uploaded, approvedOnce, reinstated, taken>>

\* Mutated form: the link is left open.
ResubmitKeepingLink(s) ==
  /\ At(s, "resubmit")
  /\ company' = "under_review"
  /\ uses' = [uses EXCEPT ![req[s].link] = @ + 1]
  /\ Respond(s)
  /\ UNCHANGED <<team, papers, approvedOnce, reinstated, taken>>

Resubmit(s) ==
  /\ At(s, "resubmit")
  /\ company' = "under_review"
  /\ link' = None
  /\ uses' = [uses EXCEPT ![req[s].link] = @ + 1]
  /\ Respond(s)
  /\ UNCHANGED <<team, docs, minted, uploaded, approvedOnce, reinstated, taken>>

BeginAddDocument(s) ==
  /\ link # None
  /\ \E d \in Docs \ uploaded :
       /\ Accept(s, [Idle EXCEPT !.step = "attach", !.docs = docs \cup {d}])
       /\ uploaded' = uploaded \cup {d}
  /\ UNCHANGED <<company, team, link, docs, minted, observed>>

AttachDocument(s) ==
  /\ At(s, "attach")
  /\ docs' = req[s].docs
  /\ Respond(s)
  /\ UNCHANGED <<company, team, link, minted, uploaded, observed>>

\* Mutated form: the form's own word for it is stored.
NextStatusComplete(status) == IF status = "pending" THEN "complete" ELSE status

\* Where onboardCompany takes the status it read.
NextStatus(status) == IF status = "pending" THEN "submitted" ELSE status

\* onboardCompany writes back the status, and the documents unless the form
\* brings its own.
BeginOnboard(s) ==
  /\ loggedIn
  /\ TeamIn("Active") # {}
  /\ \E given \in {docs} \cup {{d} : d \in Docs \ uploaded} :
       /\ Accept(s, [Idle EXCEPT !.step = "saveProfile",
                                 !.status = NextStatus(company),
                                 !.docs = given])
       /\ uploaded' = uploaded \cup given
  /\ UNCHANGED <<company, team, link, docs, minted, observed>>

SaveProfile(s) ==
  /\ At(s, "saveProfile")
  /\ company' = req[s].status
  /\ docs' = req[s].docs
  /\ Respond(s)
  /\ UNCHANGED <<team, link, minted, uploaded, observed>>

-----------------------------------------------------------------------------
(* Suspension and reinstatement.                                           *)

BeginSuspend(s) ==
  /\ company # "suspended"
  /\ Accept(s, [Idle EXCEPT !.step = "suspend", !.team = TeamIn("Active")])
  /\ UNCHANGED <<company, team, papers, observed>>

SuspendCompany(s) ==
  /\ At(s, "suspend")
  /\ company' = "suspended"
  /\ SetStatus(req[s].team, "Suspended")
  /\ taken' = taken \cup req[s].team
  /\ Respond(s)
  /\ UNCHANGED <<mail, invited, loggedIn, papers, uses, approvedOnce, reinstated>>

BeginUnsuspend(s) ==
  /\ company = "suspended"
  /\ Accept(s, [Idle EXCEPT !.step = "unsuspend", !.team = TeamIn("Suspended")])
  /\ UNCHANGED <<company, team, papers, observed>>

\* Mutated form: the company is reinstated without its recruiters.
UnsuspendAlone(s) ==
  /\ At(s, "unsuspend")
  /\ company' = "approved"
  /\ reinstated' = TRUE
  /\ Respond(s)
  /\ UNCHANGED <<team, papers, uses, approvedOnce, taken>>

UnsuspendCompany(s) ==
  /\ At(s, "unsuspend")
  /\ company' = "approved"
  /\ SetStatus(req[s].team, "Active")
  /\ reinstated' = TRUE
  /\ taken' = taken \ req[s].team
  /\ Respond(s)
  /\ UNCHANGED <<mail, invited, loggedIn, papers, uses, approvedOnce>>

-----------------------------------------------------------------------------
Abandon(s) ==
  /\ MayFail
  /\ ~At(s, "idle")
  /\ Respond(s)
  /\ UNCHANGED <<company, team, papers, observed>>

Init ==
  /\ company = "pending"
  /\ user = [r \in Recruiters |->
               IF r = Founder THEN "PendingVerification" ELSE "none"]
  /\ mail = TRUE
  /\ invited = {}
  /\ loggedIn = FALSE
  /\ link = None
  /\ docs = {}
  /\ req = [s \in Requests |-> Idle]
  /\ minted = {}
  /\ uses = [l \in Links |-> 0]
  /\ uploaded = {}
  /\ approvedOnce = FALSE
  /\ reinstated = FALSE
  /\ taken = {}

AccountStep(s) ==
  \/ BeginVerifyEmail(s)
  \/ WriteVerified(s)
  \/ DeleteMail(s)
  \/ InviteColleague(s)
  \/ JoinTeam(s)
  \/ LogIn(s)
  \/ SetUserStatus(s)

ReviewStep(s) ==
  \/ VerifyCompany(s)
  \/ BeginResubmit(s)
  \/ Resubmit(s)
  \/ BeginAddDocument(s)
  \/ AttachDocument(s)
  \/ BeginOnboard(s)
  \/ SaveProfile(s)

SuspensionStep(s) ==
  \/ BeginSuspend(s)
  \/ SuspendCompany(s)
  \/ BeginUnsuspend(s)
  \/ UnsuspendCompany(s)

Next ==
  \/ \E s \in Requests :
       AccountStep(s) \/ ReviewStep(s) \/ SuspensionStep(s) \/ Abandon(s)
  \/ LinkExpires
  \/ AccessExpires

Spec == Init /\ [][Next]_vars

-----------------------------------------------------------------------------
(* Properties.                                                             *)

\* Rows and requests have their types.
TypeOK ==
  /\ company \in CompanyStates
  /\ user \in [Recruiters -> UserStates \cup {"none"}]
  /\ mail \in BOOLEAN
  /\ invited \subseteq Colleagues
  /\ loggedIn \in BOOLEAN
  /\ link \in Links \cup {None}
  /\ docs \subseteq Docs
  /\ req \in [Requests -> Request]
  /\ minted \subseteq Links
  /\ uses \in [Links -> Nat]
  /\ uploaded \subseteq Docs
  /\ approvedOnce \in BOOLEAN
  /\ reinstated \in BOOLEAN
  /\ taken \subseteq Recruiters

\* A company is approved only after an administrator approved or reinstated
\* it, although onboardCompany writes back a status it read earlier.
ApprovalWasDecided == company = "approved" => approvedOnce \/ reinstated

\* No recruiter suspended together with the company is left suspended when
\* the company is approved again.
NobodyLeftBehind == company = "approved" => taken = {}

\* A link is good for one resubmission ("Single-use: the token is consumed the
\* instant resubmission succeeds").
LinkSingleUse == \A l \in Links : uses[l] <= 1
=============================================================================
