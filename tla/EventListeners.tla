---------------------------- MODULE EventListeners ----------------------------
(***************************************************************************)
(* The event bus and what listens to it: the notification listener, the    *)
(* e-mail listener and the audit listener.  A service publishes an event   *)
(* in memory after it has written to the database; each listener then runs *)
(* on its own, from await to await, with nothing that survives a restart.  *)
(*                                                                         *)
(* The notification listener's handler of a type of event is a plan: which *)
(* rows it writes for whom and under which deduplication key, and where    *)
(* among them it hands the event to the audit listener.  All occurrences   *)
(* of a type concern one subject (one job, one application, ...), so that  *)
(* a key made of the subject alone is the same for all of them.            *)
(***************************************************************************)
EXTENDS Naturals, Sequences, FiniteSets, FiniteSetsExt

CONSTANTS
  Admins,       \* accounts with the role Admin or Super Admin
  Supporters,   \* accounts with the role Support Executive or Moderator
  Candidates,   \* candidates whose skills or location match the job
  Owner,        \* whom the event's subject belongs to
  MaxMatched,   \* MAX_MATCHED_CANDIDATES
  Occurrences   \* identities of events, positive numbers

People == Admins \cup Supporters \cup Candidates \cup {Owner}

VARIABLES
  event,     \* the event of each occurrence, NoEvent before it is published
  bell,      \* where the notification listener is with it
  mail,      \* where the e-mail listener is with it
  writing,   \* occurrences the audit listener is about to write
  audit,     \* occurrences with a row in AuditLog
  rows,      \* the Notification table
  queued,    \* occurrences with a job in the e-mail queue
  active,    \* people whose account is Active
  optedIn,   \* the owner's preferences allow the e-mail
  (* What happened so far, for the properties. *)
  told,      \* every row ever created and pushed, with the occurrence it was for
  steady     \* people whose account was Active all along

notices == <<rows, told>>
accounts == <<active, steady>>
mailVars == <<mail, queued>>
vars == <<event, bell, writing, audit, accounts, optedIn, notices, mailVars>>

-----------------------------------------------------------------------------
(* The handlers' plans.                                                    *)

Audit == [do |-> "audit", key |-> "none"]

\* A notification for the owner, or one for each of a group of people.  Under
\* the key "once" a row of an earlier occurrence stands for this one too; under
\* "detail" it does if the key's detail, a status or the kind of a submission,
\* is the same; under "own" it does not: no key, or one with the occurrence's
\* time in it.
Tell(key) == [do |-> "tell", key |-> key]
Fan(group, key) == [do |-> group, key |-> key]

\* A query that finds out whom to tell, before anything else is done.
Look == [do |-> "look", key |-> "none"]

\* Steps only taken when the payload says so: it names the recruiter (jobs),
\* the assignee (tickets), the user (roles), or a status there is copy for.
If(e, Steps) == IF e.addressed THEN Steps ELSE <<>>

ApplicationSubmitted == <<Tell("own"), Fan("admins", "once"), Audit>>
ApplicationWithdrawn == <<Tell("own"), Audit>>

AccountAudits == {"CandidateProfileUpdated", "ResumeUploaded", "ResumeDeleted",
  "JobReported", "FeatureFlagUpdated", "AdminFeatureFlagUpdated", "UserLoggedIn",
  "EmailVerified", "EmployeeInvitationAccepted", "PasswordChanged",
  "AccountDeleted", "PasswordResetRequested"}
CompanyAudits == {"CompanySubmitted", "CompanyApproved", "CompanyRejected",
  "CompanyInfoRequested"}
JobAudits == {"JobUpdated", "JobPaused", "JobResumed", "JobClosed"}

CompanyRegistered == <<Audit, Fan("admins", "once")>>

\* Mutated form: the key leaves out the time of the resubmission.
ResubmittedUnstamped == <<Audit, Fan("admins", "once")>>

CompanyVerificationResubmitted == <<Audit, Fan("admins", "own")>>
CompanyDocumentUploaded == <<Audit, Fan("admins", "own")>>
PerkDocumentUploaded == <<Audit, Fan("admins", "own")>>
PerkSubmitted == <<Audit, Fan("admins", "detail")>>
PerkReviewed(e) == <<Look>> \o If(e, <<Tell("own")>>) \o <<Audit>>
InterviewScheduled == <<Tell("once"), Fan("admins", "once"), Audit>>
OfferReleased == <<Tell("own"), Fan("admins", "once"), Audit>>
ApplicationStatusChanged(e) == If(e, <<Tell("detail")>>)
JobSubmittedForApproval == <<Fan("admins", "once")>>

\* Mutated form: the approval is put on record after everybody was told.
JobApprovedAuditLast(e) ==
  If(e, <<Tell("once")>>) \o <<Fan("matched", "once"), Audit>>

JobApproved(e) == <<Audit>> \o If(e, <<Tell("once")>>) \o <<Fan("matched", "once")>>
JobRejected(e) == If(e, <<Tell("once")>>) \o <<Audit>>
AdminAccountCreated == <<Tell("once")>>
RoleAssigned(e) == If(e, <<Tell("own")>>)
SupportTicketCreated == <<Fan("staff", "once")>>
SupportTicketStatusChanged == <<Tell("own")>>
SupportTicketCommentAdded(e) == <<IF e.addressed THEN Tell("own") ELSE Fan("staff", "own")>>
AdminAccountStatusChanged == <<Tell("own")>>

Told == {"ApplicationSubmitted", "ApplicationWithdrawn", "CompanyRegistered",
  "CompanyVerificationResubmitted", "CompanyDocumentUploaded", "PerkDocumentUploaded",
  "PerkSubmitted", "PerkReviewed", "InterviewScheduled", "OfferReleased",
  "ApplicationStatusChanged", "JobSubmittedForApproval", "JobApproved", "JobRejected",
  "AdminAccountCreated", "RoleAssigned", "SupportTicketCreated",
  "SupportTicketStatusChanged", "SupportTicketCommentAdded", "AdminAccountStatusChanged"}

Audited == AccountAudits \cup CompanyAudits \cup JobAudits

\* What the e-mail listener sends whatever the preferences say, and what it
\* asks the preferences for first.
AccountMails == {"EmployeeInvited", "AdminAccountCreated", "UserAccountStatusChanged",
  "UserAccountReactivated", "UserAccountDeleted", "PasswordResetRequested"}
MailedAlways == AccountMails \cup {"UserRegistered"}
RecruiterMails == {"CompanyApproved", "CompanyRejected", "CompanyInfoRequested",
  "PerkReviewed", "JobApproved", "JobUpdated"}
CandidateMails == {"InterviewScheduled", "OfferReleased", "ApplicationStatusChanged"}
MailedIfWanted == RecruiterMails \cup CandidateMails

Types == Told \cup Audited \cup MailedAlways \cup MailedIfWanted

Plan(e) ==
  CASE e.type \in Audited -> <<Audit>>
    [] e.type = "ApplicationSubmitted" -> ApplicationSubmitted
    [] e.type = "ApplicationWithdrawn" -> ApplicationWithdrawn
    [] e.type = "CompanyRegistered" -> CompanyRegistered
    [] e.type = "CompanyVerificationResubmitted" -> CompanyVerificationResubmitted
    [] e.type = "CompanyDocumentUploaded" -> CompanyDocumentUploaded
    [] e.type = "PerkDocumentUploaded" -> PerkDocumentUploaded
    [] e.type = "PerkSubmitted" -> PerkSubmitted
    [] e.type = "PerkReviewed" -> PerkReviewed(e)
    [] e.type = "InterviewScheduled" -> InterviewScheduled
    [] e.type = "OfferReleased" -> OfferReleased
    [] e.type = "ApplicationStatusChanged" -> ApplicationStatusChanged(e)
    [] e.type = "JobSubmittedForApproval" -> JobSubmittedForApproval
    [] e.type = "JobApproved" -> JobApproved(e)
    [] e.type = "JobRejected" -> JobRejected(e)
    [] e.type = "AdminAccountCreated" -> AdminAccountCreated
    [] e.type = "RoleAssigned" -> RoleAssigned(e)
    [] e.type = "SupportTicketCreated" -> SupportTicketCreated
    [] e.type = "SupportTicketStatusChanged" -> SupportTicketStatusChanged
    [] e.type = "SupportTicketCommentAdded" -> SupportTicketCommentAdded(e)
    [] e.type = "AdminAccountStatusChanged" -> AdminAccountStatusChanged
    [] OTHER -> <<>>

-----------------------------------------------------------------------------
Detail == {1, 2}
Event == [type : Types, addressed : BOOLEAN, detail : Detail]
NoEvent == [type |-> "none", addressed |-> FALSE, detail |-> 1]

\* A handler is at a step of its plan; todo are the people this step has yet
\* to write a row for, once they are known.
Handler == [phase : {"none", "running", "failed", "done"},
            at    : Nat,
            known : BOOLEAN,
            todo  : SUBSET People]
Idle == [phase |-> "none", at |-> 1, known |-> FALSE, todo |-> {}]

Key == [type : Types, do : {"tell", "admins", "staff", "matched"},
        detail : Detail \cup {0}, stamp : Occurrences \cup {0}]
Row == [to : People, key : Key]
Notice == [row : Row, by : Occurrences]

TypeOK ==
  /\ event \in [Occurrences -> Event \cup {NoEvent}]
  /\ bell \in [Occurrences -> Handler]
  /\ \A o \in Occurrences : bell[o].phase = "running" => (bell[o].known <=> bell[o].todo # {})
  /\ mail \in [Occurrences -> {"none", "prefs", "enqueue", "done"}]
  /\ writing \subseteq Occurrences /\ audit \subseteq Occurrences
  /\ rows \subseteq Row
  /\ queued \subseteq Occurrences
  /\ active \subseteq People /\ steady \subseteq active /\ optedIn \in BOOLEAN
  /\ told \subseteq Notice

Init ==
  /\ event = [o \in Occurrences |-> NoEvent]
  /\ bell = [o \in Occurrences |-> Idle]
  /\ mail = [o \in Occurrences |-> "none"]
  /\ writing = {} /\ audit = {} /\ rows = {} /\ queued = {}
  /\ active = People /\ steady = People /\ optedIn \in BOOLEAN
  /\ told = {}

\* The step occurrence o is at, if its handler is still running.
Steps(o) == Plan(event[o])
Running(o) == bell[o].phase = "running"
At(o) == Steps(o)[bell[o].at]

Start(e) == [Idle EXCEPT !.phase = IF Plan(e) = <<>> THEN "done" ELSE "running"]

\* Mutated form: the next step starts with what the last one had read.
AdvancedKnowing(o) ==
  [bell[o] EXCEPT !.todo = {}, !.at = @ + 1,
                  !.phase = IF bell[o].at = Len(Steps(o)) THEN "done" ELSE @]

Advanced(o) ==
  [bell[o] EXCEPT !.known = FALSE, !.todo = {}, !.at = @ + 1,
                  !.phase = IF bell[o].at = Len(Steps(o)) THEN "done" ELSE @]

RowOf(o, u) ==
  [to |-> u, key |-> [type |-> event[o].type, do |-> At(o).do,
                      detail |-> IF At(o).key = "detail" THEN event[o].detail ELSE 0,
                      stamp |-> IF At(o).key = "own" THEN o ELSE 0]]

-----------------------------------------------------------------------------
(* The event bus.                                                          *)

\* publish calls every subscribed handler; none is waited for.
Publish(o, e) ==
  /\ event[o] = NoEvent
  /\ event' = [event EXCEPT ![o] = e]
  /\ bell' = [bell EXCEPT ![o] = Start(e)]
  /\ mail' = [mail EXCEPT ![o] =
                CASE e.type \in MailedAlways -> "enqueue"
                  [] e.type \in MailedIfWanted -> "prefs"
                  [] OTHER -> "done"]
  /\ UNCHANGED <<writing, audit, queued, accounts, optedIn, notices>>

-----------------------------------------------------------------------------
(* The notification listener.                                              *)

PublishAudit(o) ==
  /\ Running(o) /\ At(o).do = "audit"
  /\ writing' = writing \cup {o}
  /\ bell' = [bell EXCEPT ![o] = Advanced(o)]
  /\ UNCHANGED <<event, audit, accounts, optedIn, notices, mailVars>>

\* The accounts of a role that are active now; of the candidates that match,
\* the first MaxMatched in an order nobody chose.
Audience(do) ==
  CASE do = "look" -> {{}}
    [] do = "tell" -> {{Owner}}
    [] do = "admins" -> {Admins \cap active}
    [] do = "staff" -> {(Admins \cup Supporters) \cap active}
    [] do = "matched" ->
         LET matching == Candidates \cap active
         IN  IF Cardinality(matching) <= MaxMatched THEN {matching}
             ELSE kSubset(MaxMatched, matching)

\* Mutated form: a step without anybody to tell is waited for as well.
ReadAudienceWaiting(o) ==
  /\ Running(o) /\ At(o).do # "audit" /\ ~bell[o].known
  /\ \E people \in Audience(At(o).do) :
       bell' = [bell EXCEPT ![o].known = TRUE, ![o].todo = people]
  /\ UNCHANGED <<event, writing, audit, accounts, optedIn, notices, mailVars>>

ReadAudience(o) ==
  /\ Running(o) /\ At(o).do # "audit" /\ ~bell[o].known
  /\ \E people \in Audience(At(o).do) :
       bell' = [bell EXCEPT ![o] = IF people = {} THEN Advanced(o)
                                   ELSE [@ EXCEPT !.known = TRUE, !.todo = people]]
  /\ UNCHANGED <<event, writing, audit, accounts, optedIn, notices, mailVars>>

\* The step goes on when all its rows are written; a handler that failed goes
\* nowhere, but the writes it had started are not called off.
Written(o, u) ==
  bell' = [bell EXCEPT ![o] =
             IF Running(o) /\ bell[o].todo = {u} THEN Advanced(o)
             ELSE [bell[o] EXCEPT !.todo = @ \ {u}]]

\* createAndEmitNotification: a row under a key that is there already (P2002)
\* is left alone and nothing is pushed.
Notify(o, u) ==
  /\ u \in bell[o].todo
  /\ LET row == RowOf(o, u) IN
       /\ rows' = rows \cup {row}
       /\ told' = IF row \in rows THEN told ELSE told \cup {[row |-> row, by |-> o]}
  /\ Written(o, u)
  /\ UNCHANGED <<event, writing, audit, accounts, optedIn, mailVars>>

\* A query fails: the handler is over, caught and logged here or by the bus.
ReadFails(o) ==
  /\ Running(o) /\ At(o).do \notin {"audit", "tell"} /\ ~bell[o].known
  /\ bell' = [bell EXCEPT ![o].phase = "failed"]
  /\ UNCHANGED <<event, writing, audit, accounts, optedIn, notices, mailVars>>

NotifyFails(o, u) ==
  /\ u \in bell[o].todo
  /\ bell' = [bell EXCEPT ![o].phase = "failed", ![o].todo = @ \ {u}]
  /\ UNCHANGED <<event, writing, audit, accounts, optedIn, notices, mailVars>>

-----------------------------------------------------------------------------
(* The audit listener: a failure is logged and swallowed.                  *)

WriteAudit(o) ==
  /\ o \in writing
  /\ writing' = writing \ {o} /\ audit' = audit \cup {o}
  /\ UNCHANGED <<event, bell, accounts, optedIn, notices, mailVars>>

AuditFails(o) ==
  /\ o \in writing
  /\ writing' = writing \ {o}
  /\ UNCHANGED <<event, bell, audit, accounts, optedIn, notices, mailVars>>

-----------------------------------------------------------------------------
(* The e-mail listener.                                                    *)

\* shouldSendEmail; a payload without a status worth an e-mail ends here too.
ReadPreferences(o) ==
  /\ mail[o] = "prefs"
  /\ mail' = [mail EXCEPT ![o] = IF optedIn THEN "enqueue" ELSE "done"]
  /\ UNCHANGED <<event, bell, writing, audit, queued, accounts, optedIn, notices>>

\* Preferences that cannot be read allow everything.
PreferencesUnread(o) ==
  /\ mail[o] = "prefs"
  /\ mail' = [mail EXCEPT ![o] = "enqueue"]
  /\ UNCHANGED <<event, bell, writing, audit, queued, accounts, optedIn, notices>>

Enqueue(o) ==
  /\ mail[o] = "enqueue"
  /\ mail' = [mail EXCEPT ![o] = "done"]
  /\ queued' = queued \cup {o}
  /\ UNCHANGED <<event, bell, writing, audit, accounts, optedIn, notices>>

\* Whom or what the e-mail is about cannot be read, or is gone; or there is
\* nothing to send: JobUpdated that flags nothing, a status without copy.
MailDropped(o) ==
  /\ mail[o] \in {"prefs", "enqueue"}
  /\ mail' = [mail EXCEPT ![o] = "done"]
  /\ UNCHANGED <<event, bell, writing, audit, queued, accounts, optedIn, notices>>

-----------------------------------------------------------------------------
(* Around the listeners.                                                   *)

\* The reader deletes a notification, or the hourly clean-up finds it older
\* than 48 hours.
Forget(row) ==
  /\ row \in rows
  /\ rows' = rows \ {row}
  /\ UNCHANGED <<event, bell, writing, audit, accounts, optedIn, told, mailVars>>

SetActive(u) ==
  /\ active' = IF u \in active THEN active \ {u} ELSE active \cup {u}
  /\ steady' = steady \ {u}
  /\ UNCHANGED <<event, bell, writing, audit, optedIn, notices, mailVars>>

SetPreference ==
  /\ optedIn' = ~optedIn
  /\ UNCHANGED <<event, bell, mail, writing, audit, queued, accounts, notices>>

\* The process stops: what was under way in memory is gone.
Crash ==
  /\ bell' = [o \in Occurrences |->
                [bell[o] EXCEPT !.todo = {}, !.phase = IF Running(o) THEN "failed" ELSE @]]
  /\ mail' = [o \in Occurrences |-> IF mail[o] = "none" THEN "none" ELSE "done"]
  /\ writing' = {}
  /\ UNCHANGED <<event, audit, queued, accounts, optedIn, notices>>

-----------------------------------------------------------------------------
BellStep(o) ==
  PublishAudit(o) \/ ReadAudience(o) \/ \E u \in People : Notify(o, u)

MailStep(o) == ReadPreferences(o) \/ Enqueue(o)

Fault ==
  \/ \E o \in Occurrences :
       \/ ReadFails(o) \/ \E u \in People : NotifyFails(o, u)
       \/ AuditFails(o) \/ PreferencesUnread(o)
  \/ Crash

Surroundings ==
  \/ \E row \in rows : Forget(row)
  \/ \E u \in People : SetActive(u)
  \/ SetPreference

Next ==
  \/ \E o \in Occurrences, e \in Event : Publish(o, e)
  \/ \E o \in Occurrences : BellStep(o) \/ WriteAudit(o) \/ MailStep(o) \/ MailDropped(o)
  \/ Fault
  \/ Surroundings

\* What was started runs on; nobody need publish, and nothing need fail.
Fairness ==
  \A o \in Occurrences : WF_vars(BellStep(o)) /\ WF_vars(WriteAudit(o)) /\ WF_vars(MailStep(o))

Spec == Init /\ [][Next]_vars
-----------------------------------------------------------------------------
(* Properties.                                                             *)

\* Types of which a second event about the same subject is news of its own,
\* and who is to hear of it: their keys carry the moment of the event.
NewsEachTime ==
  [CompanyVerificationResubmitted |-> Admins, CompanyDocumentUploaded |-> Admins,
   PerkDocumentUploaded |-> Admins, ApplicationSubmitted |-> {Owner},
   ApplicationWithdrawn |-> {Owner}, OfferReleased |-> {Owner},
   SupportTicketStatusChanged |-> {Owner}, AdminAccountStatusChanged |-> {Owner}]

\* "A genuine retry of the same request is deduplicated, while a second, later
\* resubmission by the same company still gets its own notification"
\* (notification.listener.ts): when the handler of such an event got through,
\* everybody concerned was told of this very occurrence.
ToldEachTime ==
  \A o \in Occurrences :
    bell[o].phase = "done" /\ event[o].type \in DOMAIN NewsEachTime =>
      \A u \in NewsEachTime[event[o].type] \cap steady :
        \E n \in told : n.by = o /\ n.row.to = u

\* Types whose handler puts the event on record before it tells anybody.
RecordedFirst == Audited \cup {"CompanyRegistered", "CompanyVerificationResubmitted",
  "CompanyDocumentUploaded", "PerkDocumentUploaded", "PerkSubmitted", "JobApproved"}

\* Such an event is on record, or about to be, once its handler is over, also
\* when telling the people failed half way.
RecordKept ==
  \A o \in Occurrences :
    event[o].type \in RecordedFirst /\ ~Running(o) => o \in audit \cup writing

\* Every handler ends, whatever the others do and whoever is left to tell.
EveryHandlerSettles ==
  \A o \in Occurrences : Running(o) \/ bell[o].todo # {} ~> ~Running(o) /\ bell[o].todo = {}
=============================================================================
