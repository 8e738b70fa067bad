--------------------------- MODULE AccountOpening ---------------------------
(***************************************************************************)
(* The ways to an account for one e-mail address: registration, by form or *)
(* by OAuth, with the verification of the address; the invitation of staff *)
(* by an administrator and of a colleague by a recruiter; createAdmin.     *)
(*                                                                         *)
(* The address is a unique key of User, EmailVerification and Invitation.  *)
(* The latter two have no relation to the account: they outlive it, and    *)
(* apply to whichever account has the address next.                        *)
(***************************************************************************)
EXTENDS Naturals

CONSTANTS
  Accounts,  \* identities of accounts, each opened once
  Tokens,    \* invitation tokens, never minted twice
  Requests,  \* requests in flight at once
  None       \* no account, no row

VARIABLES
  user,        \* the User row
  letter,      \* the EmailVerification row
  invitation,  \* the Invitation row
  companies,   \* accounts for whose registration a Company row was made
  req,         \* what each request in flight has still to do
  (* Observed, read by no handler. *)
  opened,      \* accounts opened so far
  minted,      \* invitation tokens minted so far
  redeemed     \* accounts opened with each Invitation row

vars == <<user, letter, invitation, companies, req, opened, minted, redeemed>>

Roles == {"Candidate", "Recruiter", "Staff"}
Statuses == {"PendingVerification", "PendingApproval", "Active", "Suspended"}

User == [id : Accounts, role : Roles, status : Statuses]
NoUser == [id |-> None, role |-> "Candidate", status |-> "Suspended"]

\* A row is known by the registration it was made for, or by its first token;
\* fresh says that expiresAt lies ahead.
Letter == [id : Accounts, fresh : BOOLEAN]
NoLetter == [id |-> None, fresh |-> FALSE]

Invitation == [id : Tokens, token : Tokens, role : Roles \ {"Candidate"},
               fresh : BOOLEAN, accepted : BOOLEAN]
NoInvitation == [id |-> None, token |-> None, role |-> "Staff",
                 fresh |-> FALSE, accepted |-> FALSE]

Steps == {"idle", "company", "user", "letter", "social",
          "findUser", "writeVerified", "deleteLetter",
          "invite", "redeem", "markAccepted", "createAdmin"}

Request == [step   : Steps,
            id     : Accounts \cup {None},    \* the account made or verified
            role   : Roles,
            social : BOOLEAN,                 \* registration is OAuth's
            row    : Accounts \cup Tokens \cup {None}]  \* the row found
Idle == [step |-> "idle", id |-> None, role |-> "Candidate", social |-> FALSE,
         row |-> None]

At(s, step) == req[s].step = step
Accept(s, held) == At(s, "idle") /\ req' = [req EXCEPT ![s] = held]
Continue(s, step) == req' = [req EXCEPT ![s].step = step]
Respond(s) == req' = [req EXCEPT ![s] = Idle]
Free(s) == At(s, "idle") /\ UNCHANGED req

NewAccounts == Accounts \ (opened \cup companies \cup {req[s].id : s \in Requests})

\* user.create: the address is unique.
Create(id, role, status) ==
  /\ user = NoUser
  /\ user' = [id |-> id, role |-> role, status |-> status]
  /\ opened' = opened \cup {id}

rowVars == <<letter, invitation, companies>>

-----------------------------------------------------------------------------
(* Registration: registerCandidate, registerRecruiter, oauth.              *)

\* Mutated form: nobody looks whether the address has an account.
BeginRegisterUnasked(s) ==
  /\ \E a \in NewAccounts, role \in {"Candidate", "Recruiter"}, social \in BOOLEAN :
       Accept(s, [Idle EXCEPT !.step = IF role = "Recruiter" THEN "company" ELSE "user",
                              !.id = a, !.role = role, !.social = social])
  /\ UNCHANGED <<user, rowVars, opened, minted, redeemed>>

BeginRegister(s) ==
  /\ user = NoUser
  /\ \E a \in NewAccounts, role \in {"Candidate", "Recruiter"}, social \in BOOLEAN :
       Accept(s, [Idle EXCEPT !.step = IF role = "Recruiter" THEN "company" ELSE "user",
                              !.id = a, !.role = role, !.social = social])
  /\ UNCHANGED <<user, rowVars, opened, minted, redeemed>>

CreateCompany(s) ==
  /\ At(s, "company")
  /\ companies' = companies \cup {req[s].id}
  /\ Continue(s, "user")
  /\ UNCHANGED <<user, letter, invitation, opened, minted, redeemed>>

CreateUser(s) ==
  /\ At(s, "user")
  /\ Create(req[s].id, req[s].role, "PendingVerification")
  /\ Continue(s, "letter")
  /\ UNCHANGED <<rowVars, minted, redeemed>>

\* createEmailVerification is an upsert: a row left by an earlier account
\* keeps its identity and gets a new token.
StoreLetter(s) ==
  /\ At(s, "letter")
  /\ letter' = [id |-> IF letter = NoLetter THEN req[s].id ELSE letter.id, fresh |-> TRUE]
  /\ IF req[s].social THEN Continue(s, "social") ELSE Respond(s)
  /\ UNCHANGED <<user, invitation, companies, opened, minted, redeemed>>

VerifiedStatus(role) == IF role = "Recruiter" THEN "PendingApproval" ELSE "Active"

\* The provider has vouched for the address; the letter stays.
SetSocialStatus(s) ==
  /\ At(s, "social") /\ user.id = req[s].id
  /\ user' = [user EXCEPT !.status = VerifiedStatus(req[s].role)]
  /\ Respond(s)
  /\ UNCHANGED <<rowVars, opened, minted, redeemed>>

-----------------------------------------------------------------------------
(* verifyEmail: whoever has the address now is verified.                   *)

FindLetter(s) ==
  /\ letter.fresh
  /\ Accept(s, [Idle EXCEPT !.step = "findUser", !.row = letter.id])
  /\ UNCHANGED <<user, rowVars, opened, minted, redeemed>>

\* Mutated form: the link is spent before the account is verified.
FindUserSpending(s) ==
  /\ At(s, "findUser") /\ user # NoUser
  /\ letter' = NoLetter
  /\ req' = [req EXCEPT ![s].step = "writeVerified", ![s].id = user.id,
                        ![s].role = user.role]
  /\ UNCHANGED <<user, invitation, companies, opened, minted, redeemed>>

FindUser(s) ==
  /\ At(s, "findUser") /\ user # NoUser
  /\ req' = [req EXCEPT ![s].step = "writeVerified", ![s].id = user.id,
                        ![s].role = user.role]
  /\ UNCHANGED <<user, rowVars, opened, minted, redeemed>>

WriteVerified(s) ==
  /\ At(s, "writeVerified") /\ user.id = req[s].id
  /\ user' = [user EXCEPT !.status = VerifiedStatus(req[s].role)]
  /\ Continue(s, "deleteLetter")
  /\ UNCHANGED <<rowVars, opened, minted, redeemed>>

DeleteLetter(s) ==
  /\ At(s, "deleteLetter") /\ letter.id = req[s].row
  /\ letter' = NoLetter
  /\ Respond(s)
  /\ UNCHANGED <<user, invitation, companies, opened, minted, redeemed>>

LetterExpires ==
  /\ letter.fresh
  /\ letter' = [letter EXCEPT !.fresh = FALSE]
  /\ UNCHANGED <<user, invitation, companies, req, opened, minted, redeemed>>

-----------------------------------------------------------------------------
(* Invitations.                                                            *)

\* invitation.create: the address is unique, whatever became of the row.
Invite(role) ==
  /\ invitation = NoInvitation
  /\ \E t \in Tokens \ minted :
       /\ invitation' = [NoInvitation EXCEPT !.id = t, !.token = t, !.role = role,
                                             !.fresh = TRUE]
       /\ minted' = minted \cup {t}

\* Nobody looks whether the address has an account.
InviteEmployee(s) ==
  /\ Free(s)
  /\ Invite("Staff")
  /\ UNCHANGED <<user, letter, companies, opened, redeemed>>

BeginInviteColleague(s) ==
  /\ user = NoUser
  /\ Accept(s, [Idle EXCEPT !.step = "invite", !.role = "Recruiter"])
  /\ UNCHANGED <<user, rowVars, opened, minted, redeemed>>

\* That there is no open invitation is implied by there being none at all.
InviteColleague(s) ==
  /\ At(s, "invite")
  /\ Invite("Recruiter")
  /\ Respond(s)
  /\ UNCHANGED <<user, letter, companies, opened, redeemed>>

\* Mutated form: the invitation starts anew.
ResendAnew(s) ==
  /\ Free(s)
  /\ invitation # NoInvitation
  /\ \E t \in Tokens \ minted :
       /\ invitation' = [invitation EXCEPT !.token = t, !.fresh = TRUE, !.accepted = FALSE]
       /\ minted' = minted \cup {t}
  /\ UNCHANGED <<user, letter, companies, opened, redeemed>>

\* An invitation that was accepted stays so.
ResendInvitation(s) ==
  /\ Free(s)
  /\ invitation # NoInvitation
  /\ \E t \in Tokens \ minted :
       /\ invitation' = [invitation EXCEPT !.token = t, !.fresh = TRUE]
       /\ minted' = minted \cup {t}
  /\ UNCHANGED <<user, letter, companies, opened, redeemed>>

\* cancelInvitation, expireInvitation, or its 48 hours are over; the nightly
\* invitationExpiry writes what that amounts to.
ExpireInvitation ==
  /\ invitation.fresh
  /\ invitation' = [invitation EXCEPT !.fresh = FALSE]
  /\ UNCHANGED <<user, letter, companies, req, opened, minted, redeemed>>

CancelColleagueInvitation(s) ==
  /\ Free(s)
  /\ invitation.role = "Recruiter" /\ invitation # NoInvitation
  /\ invitation' = NoInvitation
  /\ UNCHANGED <<user, letter, companies, opened, minted, redeemed>>

Open == invitation.fresh /\ ~invitation.accepted

BeginAccept(s) ==
  /\ Open
  /\ \E a \in NewAccounts :
       Accept(s, [Idle EXCEPT !.step = "redeem", !.id = a, !.role = invitation.role,
                              !.row = invitation.id])
  /\ UNCHANGED <<user, rowVars, opened, minted, redeemed>>

CreateInvitedUser(s) ==
  /\ At(s, "redeem")
  /\ Create(req[s].id, req[s].role, "Active")
  /\ redeemed' = [redeemed EXCEPT ![req[s].row] = @ + 1]
  /\ Continue(s, "markAccepted")
  /\ UNCHANGED <<rowVars, minted>>

AcceptInvitation(s) ==
  /\ At(s, "markAccepted") /\ invitation.id = req[s].row
  /\ invitation' = [invitation EXCEPT !.accepted = TRUE]
  /\ Respond(s)
  /\ UNCHANGED <<user, letter, companies, opened, minted, redeemed>>

-----------------------------------------------------------------------------
(* Administrators.                                                         *)

BeginCreateAdmin(s) ==
  /\ user = NoUser
  /\ \E a \in NewAccounts :
       Accept(s, [Idle EXCEPT !.step = "createAdmin", !.id = a, !.role = "Staff"])
  /\ UNCHANGED <<user, rowVars, opened, minted, redeemed>>

CreateAdmin(s) ==
  /\ At(s, "createAdmin")
  /\ Create(req[s].id, req[s].role, "Active")
  /\ Respond(s)
  /\ UNCHANGED <<rowVars, minted, redeemed>>

\* updateUserStatus; of the statuses that stand in the way, one.
SetStatus(status) ==
  /\ user # NoUser
  /\ user' = [user EXCEPT !.status = status]
  /\ UNCHANGED <<rowVars, req, opened, minted, redeemed>>

\* deleteUser, deleteOwnAccount.  (A recruiter's Company row stays.)
DeleteUser ==
  /\ user # NoUser
  /\ user' = NoUser
  /\ UNCHANGED <<rowVars, req, opened, minted, redeemed>>

-----------------------------------------------------------------------------
\* A row is there that must not be, or is gone.
Refused(s) ==
  \/ \E step \in {"user", "redeem", "createAdmin"} : At(s, step) /\ user # NoUser
  \/ At(s, "invite") /\ invitation # NoInvitation
  \/ \E step \in {"social", "writeVerified"} : At(s, step) /\ user.id # req[s].id
  \/ At(s, "findUser") /\ user = NoUser
  \/ At(s, "deleteLetter") /\ letter.id # req[s].row
  \/ At(s, "markAccepted") /\ invitation.id # req[s].row

\* The request ends between two of its steps.
Abandon(s) ==
  /\ ~At(s, "idle")
  /\ Respond(s)
  /\ UNCHANGED <<user, rowVars, opened, minted, redeemed>>

Init ==
  /\ user = NoUser /\ letter = NoLetter /\ invitation = NoInvitation
  /\ companies = {}
  /\ req = [s \in Requests |-> Idle]
  /\ opened = {} /\ minted = {} /\ redeemed = [t \in Tokens |-> 0]

RegistrationStep(s) ==
  BeginRegister(s) \/ CreateCompany(s) \/ CreateUser(s) \/ StoreLetter(s) \/ SetSocialStatus(s)

VerificationStep(s) ==
  FindLetter(s) \/ FindUser(s) \/ WriteVerified(s) \/ DeleteLetter(s)

InvitationStep(s) ==
  \/ InviteEmployee(s) \/ BeginInviteColleague(s) \/ InviteColleague(s)
  \/ ResendInvitation(s) \/ CancelColleagueInvitation(s)
  \/ BeginAccept(s) \/ CreateInvitedUser(s) \/ AcceptInvitation(s)

CreateAdminStep(s) == BeginCreateAdmin(s) \/ CreateAdmin(s)

HandlerStep(s) ==
  RegistrationStep(s) \/ VerificationStep(s) \/ InvitationStep(s) \/ CreateAdminStep(s)

Decision == DeleteUser \/ \E status \in Statuses : SetStatus(status)

Expiry == LetterExpires \/ ExpireInvitation

Next == Decision \/ Expiry \/ \E s \in Requests : HandlerStep(s) \/ Abandon(s)

Spec == Init /\ [][Next]_vars

-----------------------------------------------------------------------------
(* Properties.                                                             *)

\* Rows and requests have their types.
TypeOK ==
  /\ user \in User \cup {NoUser}
  /\ letter \in Letter \cup {NoLetter}
  /\ invitation \in Invitation \cup {NoInvitation}
  /\ companies \subseteq Accounts
  /\ req \in [Requests -> Request]
  /\ opened \subseteq Accounts /\ minted \subseteq Tokens
  /\ redeemed \in [Tokens -> Nat]

\* An invitation makes one account ("has already been used"), however often it
\* is resent and also when that account is deleted.
InvitationOpensOnce == \A t \in Tokens : redeemed[t] <= 1

\* The link is spent only when the account no longer waits for it: an account
\* whose verification stops half way can be verified with the link it has.
VerifiedBeforeSpent ==
  letter # NoLetter /\ letter' = NoLetter => user.status # "PendingVerification"

\* A registration that is refused leaves no company without a recruiter: each
\* was made for an account that was opened, or is about to be.
CompaniesHaveFounders ==
  \A a \in companies :
    a \in opened \/ \E s \in Requests : At(s, "user") /\ req[s].id = a
=============================================================================
