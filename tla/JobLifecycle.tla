---------------------------- MODULE JobLifecycle ----------------------------
(***************************************************************************)
(* The job postings of one company: what its recruiters do with them       *)
(* (postJob, updateJob, duplicateJob, lifecycleJob, archiveJob, deleteJob),*)
(* what administrators decide about them (moderateJob), and what the       *)
(* company's suspension, reinstatement and deletion do to all of them.     *)
(*                                                                         *)
(* A recruiter's request is let in when the company is approved            *)
(* (requireApprovedCompany) and the job is the company's own; it then      *)
(* reads and writes the job in separate statements, as moderateJob does.   *)
(* The texts of a posting and its featured flag are left out: updateJob    *)
(* without a status changes neither status nor visibility and is no step.  *)
(* Neither does deleteUser change a job.  Job.recruiterId is ON DELETE     *)
(* RESTRICT, so where its archiveJobs option finds a job to archive, the   *)
(* deletion in the same transaction fails and takes the archiving back;    *)
(* what it transfers keeps status and visibility.                          *)
(***************************************************************************)
EXTENDS Naturals

CONSTANTS
  Jobs,      \* identities of Job rows, never reused
  Requests,  \* requests in flight at once
  None,      \* no job
  MayFail    \* whether a handler may stop between two of its steps

ASSUME JobAssumption == None \notin Jobs /\ MayFail \in BOOLEAN

VARIABLES
  company,   \* Company.status, as far as jobs depend on it
  job,       \* status and visibility of each Job row
  recorded,  \* whether JobStatusHistory has an approved or paused row of it
  req,       \* what each request in flight has still to do
  (* Observed, read by no handler. *)
  granted,   \* the most an administrator has granted each job so far
  barred     \* whether an administrator has barred the job from the board

observed == <<granted, barred>>

vars == <<company, job, recorded, req, observed>>

CompanyStates == {"unapproved", "approved", "suspended", "deleted"}
JobStatuses == {"draft", "pending_approval", "approved", "paused", "closed",
                "archived", "flagged"}
Grants == {"nothing", "pause", "approval"}

LifecycleActions == {"submit", "pause", "resume", "close"}
ModerationActions == {"approve", "reject", "hide", "unhide", "pause",
                      "resume", "archive", "feature"}

\* What lets a job be shown, at once or when its recruiter resumes it: the
\* statuses, and the moderators' actions that write them.
Reviewable == {"approved", "paused"}
Deciding == {"approve", "resume", "pause"}

Steps == {"idle", "create", "decide", "save", "archive", "delete",
          "moderate", "record", "setCompany", "suspend", "unsuspend",
          "deleteCompany", "expire"}

Request == [step    : Steps,
            action  : LifecycleActions \cup ModerationActions \cup {"other"},
            job     : Jobs \cup {None},
            status  : JobStatuses,      \* the status to be written
            visible : BOOLEAN]          \* the visibility to be written

Idle == [step |-> "idle", action |-> "other", job |-> None,
         status |-> "draft", visible |-> TRUE]

Exists(j) == job[j].status \in JobStatuses

\* What candidates find: an approved job that is visible.
Published(j) == job[j].status = "approved" /\ job[j].visible

At(s, step) == req[s].step = step

Accept(s, held) == At(s, "idle") /\ req' = [req EXCEPT ![s] = held]

Respond(s) == req' = [req EXCEPT ![s] = Idle]

-----------------------------------------------------------------------------
(* The recruiters' handlers.                                               *)

BeginPost(s) ==
  /\ company = "approved"
  /\ \E status \in {"draft", "pending_approval"} :
       Accept(s, [Idle EXCEPT !.step = "create", !.status = status])
  /\ UNCHANGED <<company, job, recorded, observed>>

BeginDuplicate(s, j) ==
  /\ company = "approved"
  /\ Exists(j)
  /\ Accept(s, [Idle EXCEPT !.step = "create"])
  /\ UNCHANGED <<company, job, recorded, observed>>

CreateJob(s) ==
  /\ At(s, "create")
  /\ company # "deleted"
  /\ \E j \in Jobs :
       /\ job[j].status = "none"
       /\ job' = [job EXCEPT ![j] = [status |-> req[s].status,
                                     visible |-> TRUE]]
  /\ Respond(s)
  /\ UNCHANGED <<company, recorded, observed>>

\* updateJob takes a draft or pending_approval from any status.
BeginUpdate(s, j) ==
  /\ company = "approved"
  /\ Exists(j)
  /\ \E status \in {"draft", "pending_approval"} :
       Accept(s, [Idle EXCEPT !.step = "save", !.job = j, !.status = status])
  /\ UNCHANGED <<company, job, recorded, observed>>

BeginLifecycle(s, j) ==
  /\ company = "approved"
  /\ Exists(j)
  /\ \E action \in LifecycleActions :
       Accept(s, [Idle EXCEPT !.step = "decide", !.action = action, !.job = j])
  /\ UNCHANGED <<company, job, recorded, observed>>

From == [submit |-> {"draft", "flagged"},
         pause  |-> {"approved"},
         resume |-> {"paused"},
         close  |-> {"approved", "paused"}]

\* Mutated form: whatever is not shown can be resumed.
ResumeAnything(action) ==
  IF action = "resume" THEN {"pending_approval", "paused", "flagged"}
  ELSE From[action]

AllowedFrom(action) == From[action]

NextStatus == [submit |-> "pending_approval", pause |-> "paused",
               resume |-> "approved", close |-> "closed"]

Decide(s) ==
  /\ At(s, "decide")
  /\ job[req[s].job].status \in AllowedFrom(req[s].action)
  /\ req' = [req EXCEPT ![s].step = "save",
                        ![s].status = NextStatus[req[s].action]]
  /\ UNCHANGED <<company, job, recorded, observed>>

SaveStatus(s) ==
  /\ At(s, "save")
  /\ Exists(req[s].job)
  /\ job' = [job EXCEPT ![req[s].job].status = req[s].status]
  /\ Respond(s)
  /\ UNCHANGED <<company, recorded, observed>>

BeginArchive(s, j) ==
  /\ company = "approved"
  /\ Exists(j)
  /\ Accept(s, [Idle EXCEPT !.step = "archive", !.job = j])
  /\ UNCHANGED <<company, job, recorded, observed>>

ArchiveJob(s) ==
  /\ At(s, "archive")
  /\ Exists(req[s].job)
  /\ job' = [job EXCEPT ![req[s].job] = [status |-> "archived",
                                         visible |-> FALSE]]
  /\ Respond(s)
  /\ UNCHANGED <<company, recorded, observed>>

BeginDelete(s, j) ==
  /\ company = "approved"
  /\ Exists(j)
  /\ Accept(s, [Idle EXCEPT !.step = "delete", !.job = j])
  /\ UNCHANGED <<company, job, recorded, observed>>

Gone == [status |-> "deleted", visible |-> FALSE]

DeleteJob(s) ==
  /\ At(s, "delete")
  /\ Exists(req[s].job)
  /\ job' = [job EXCEPT ![req[s].job] = Gone]
  /\ Respond(s)
  /\ UNCHANGED <<company, recorded, observed>>

-----------------------------------------------------------------------------
(* moderateJob.                                                            *)

\* What an action makes of the row it was read from.
Moderated(action, row) ==
  [status  |-> CASE action \in {"approve", "resume"} -> "approved"
                 [] action = "reject"  -> "flagged"
                 [] action = "pause"   -> "paused"
                 [] action = "archive" -> "archived"
                 [] OTHER -> row.status,
   visible |-> CASE action \in {"approve", "unhide"} -> TRUE
                 [] action \in {"reject", "hide", "archive"} -> FALSE
                 [] OTHER -> row.visible]

BeginModerate(s, j) ==
  /\ Exists(j)
  /\ \E action \in ModerationActions :
       Accept(s, [step |-> "moderate", action |-> action, job |-> j,
                  status |-> Moderated(action, job[j]).status,
                  visible |-> Moderated(action, job[j]).visible])
  /\ UNCHANGED <<company, job, recorded, observed>>

BeginModeratorDelete(s, j) ==
  /\ Exists(j)
  /\ Accept(s, [Idle EXCEPT !.step = "delete", !.job = j])
  /\ UNCHANGED <<company, job, recorded, observed>>

Granted(action, before) ==
  CASE action \in {"approve", "resume"} -> "approval"
    [] action = "pause" /\ before = "nothing" -> "pause"
    [] OTHER -> before

\* A recruiter's request, or a moderator's that decides nothing about the
\* status, that holds an approved or paused status it read earlier.
Outdated(t, j) ==
  /\ req[t].job = j
  /\ req[t].status \in Reviewable
  /\ At(t, "save") \/ (At(t, "moderate") /\ req[t].action \notin Deciding)

\* A rejection or archiving bars the job from the board, unless a write on its
\* way will undo it.
Barred(s, j, before) ==
  CASE req[s].action \in Deciding -> FALSE
    [] req[s].action \in {"reject", "archive"} -> \A t \in Requests : ~Outdated(t, j)
    [] OTHER -> before

Moderate(s) ==
  LET j == req[s].job IN
  /\ At(s, "moderate")
  /\ Exists(j)
  /\ job' = [job EXCEPT ![j] = [status |-> req[s].status,
                                visible |-> req[s].visible]]
  /\ granted' = [granted EXCEPT ![j] = Granted(req[s].action, @)]
  /\ barred' = [barred EXCEPT ![j] = Barred(s, j, @)]
  /\ req' = [req EXCEPT ![s].step = "record"]
  /\ UNCHANGED <<company, recorded>>

\* Mutated form: the history row is written for rejections only.
RecordRejections(s) ==
  /\ At(s, "record")
  /\ Exists(req[s].job)
  /\ Respond(s)
  /\ UNCHANGED <<company, job, recorded, observed>>

RecordHistory(s) ==
  /\ At(s, "record")
  /\ Exists(req[s].job)
  /\ recorded' = [recorded EXCEPT
                    ![req[s].job] = @ \/ req[s].status \in Reviewable]
  /\ Respond(s)
  /\ UNCHANGED <<company, job, observed>>

-----------------------------------------------------------------------------
(* The company's status and what it does to its jobs.                      *)

\* verifyCompany, resubmit and onboardCompany find the company and write its
\* status alone; verifyCompany takes any status there is.
BeginSetCompany(s) ==
  /\ company # "deleted"
  /\ Accept(s, [Idle EXCEPT !.step = "setCompany"])
  /\ UNCHANGED <<company, job, recorded, observed>>

SetCompany(s) ==
  /\ At(s, "setCompany")
  /\ company # "deleted"
  /\ company' \in CompanyStates \ {"deleted"}
  /\ Respond(s)
  /\ UNCHANGED <<job, recorded, observed>>

BeginSuspend(s) ==
  /\ company \notin {"suspended", "deleted"}
  /\ Accept(s, [Idle EXCEPT !.step = "suspend"])
  /\ UNCHANGED <<company, job, recorded, observed>>

\* Mutated form: reinstatement publishes what waits for approval too.
RevealPending(visible) ==
  job' = [j \in Jobs |-> IF job[j].status \in {"approved", "pending_approval"}
                         THEN [status |-> "approved", visible |-> visible]
                         ELSE job[j]]

\* The approved jobs' visibility, set together with the company's status.
SetVisibility(visible) ==
  job' = [j \in Jobs |-> IF job[j].status = "approved"
                         THEN [job[j] EXCEPT !.visible = visible]
                         ELSE job[j]]

SuspendCompany(s) ==
  /\ At(s, "suspend")
  /\ company # "deleted"
  /\ company' = "suspended"
  /\ SetVisibility(FALSE)
  /\ Respond(s)
  /\ UNCHANGED <<recorded, observed>>

BeginUnsuspend(s) ==
  /\ company = "suspended"
  /\ Accept(s, [Idle EXCEPT !.step = "unsuspend"])
  /\ UNCHANGED <<company, job, recorded, observed>>

UnsuspendCompany(s) ==
  /\ At(s, "unsuspend")
  /\ company # "deleted"
  /\ company' = "approved"
  /\ SetVisibility(TRUE)
  /\ Respond(s)
  /\ UNCHANGED <<recorded, observed>>

BeginDeleteCompany(s) ==
  /\ company # "deleted"
  /\ Accept(s, [Idle EXCEPT !.step = "deleteCompany"])
  /\ UNCHANGED <<company, job, recorded, observed>>

DeleteCompany(s) ==
  /\ At(s, "deleteCompany")
  /\ company # "deleted"
  /\ company' = "deleted"
  /\ job' = [j \in Jobs |-> IF Exists(j) THEN Gone ELSE job[j]]
  /\ Respond(s)
  /\ UNCHANGED <<recorded, observed>>

-----------------------------------------------------------------------------
(* The clean-up job "jobExpiry".                                           *)

\* It reads the jobs that are open and whose deadline has passed, and closes
\* one after the other as it finds them, whatever became of them meanwhile.
\* Each job read is a request here: the order among them does not matter.
BeginExpire(s, j) ==
  /\ job[j].status \in {"approved", "pending_approval"}
  /\ Accept(s, [Idle EXCEPT !.step = "expire", !.job = j])
  /\ UNCHANGED <<company, job, recorded, observed>>

ExpireJob(s) ==
  /\ At(s, "expire")
  /\ Exists(req[s].job)
  /\ job' = [job EXCEPT ![req[s].job] = [status |-> "closed", visible |-> FALSE]]
  /\ Respond(s)
  /\ UNCHANGED <<company, recorded, observed>>

-----------------------------------------------------------------------------
\* A statement finds its row missing, or a guard finds the wrong status.
Refused(s) ==
  \/ At(s, "decide") /\ job[req[s].job].status \notin AllowedFrom(req[s].action)
  \/ /\ req[s].step \in {"save", "archive", "delete", "moderate", "record", "expire"}
     /\ ~Exists(req[s].job)
  \/ /\ req[s].step \in {"create", "setCompany", "suspend", "unsuspend",
                         "deleteCompany"}
     /\ company = "deleted"

Abandon(s) ==
  /\ ~At(s, "idle")
  /\ MayFail \/ Refused(s)
  /\ Respond(s)
  /\ UNCHANGED <<company, job, recorded, observed>>

Init ==
  /\ company = "unapproved"
  /\ job = [j \in Jobs |-> [status |-> "none", visible |-> FALSE]]
  /\ recorded = [j \in Jobs |-> FALSE]
  /\ req = [s \in Requests |-> Idle]
  /\ granted = [j \in Jobs |-> "nothing"]
  /\ barred = [j \in Jobs |-> FALSE]

RecruiterStep(s) ==
  \/ BeginPost(s)
  \/ \E j \in Jobs : \/ BeginDuplicate(s, j)
                     \/ BeginUpdate(s, j)
                     \/ BeginLifecycle(s, j)
                     \/ BeginArchive(s, j)
                     \/ BeginDelete(s, j)
  \/ CreateJob(s)
  \/ Decide(s)
  \/ SaveStatus(s)
  \/ ArchiveJob(s)
  \/ DeleteJob(s)

AdminStep(s) ==
  \/ \E j \in Jobs : BeginModerate(s, j) \/ BeginModeratorDelete(s, j)
  \/ Moderate(s)
  \/ RecordHistory(s)
  \/ BeginSetCompany(s)
  \/ SetCompany(s)
  \/ BeginSuspend(s)
  \/ SuspendCompany(s)
  \/ BeginUnsuspend(s)
  \/ UnsuspendCompany(s)
  \/ BeginDeleteCompany(s)
  \/ DeleteCompany(s)

CleanupStep(s) == (\E j \in Jobs : BeginExpire(s, j)) \/ ExpireJob(s)

Next ==
  \E s \in Requests : RecruiterStep(s) \/ AdminStep(s) \/ CleanupStep(s) \/ Abandon(s)

Spec == Init /\ [][Next]_vars

-----------------------------------------------------------------------------
(* Properties.                                                             *)

\* Rows and requests have their types.
TypeOK ==
  /\ company \in CompanyStates
  /\ job \in [Jobs -> [status : JobStatuses \cup {"none", "deleted"},
                       visible : BOOLEAN]]
  /\ recorded \in [Jobs -> BOOLEAN]
  /\ req \in [Requests -> Request]
  /\ granted \in [Jobs -> Grants]
  /\ barred \in [Jobs -> BOOLEAN]

\* A job is on the board only if an administrator has approved, resumed or
\* paused it at some time, however recruiters' requests, suspensions and stale
\* writes are ordered: no posting gets there past every administrator, and no
\* rejection, hiding or featuring helps it.  A pause is enough, for a job that
\* waits for approval too (moderateJob), because a recruiter may resume what is
\* paused (lifecycleJob).
GrantedBeforeShown ==
  \A j \in Jobs : Published(j) => granted[j] # "nothing"

\* What the comment above lifecycleJob says of resuming: it cannot bypass the
\* moderation of a job that waits for approval, so that a job on the board has
\* been approved (or resumed) by an administrator.
ApprovedBeforeShown ==
  \A j \in Jobs : Published(j) => granted[j] = "approval"

\* A job on the board has an approving or pausing row in JobStatusHistory,
\* unless the decision's own row is still to be written by moderateJob.
ShownIsOnRecord ==
  \A j \in Jobs : Published(j) =>
    \/ recorded[j]
    \/ \E s \in Requests : At(s, "record") /\ req[s].job = j

\* What an administrator rejected or archived is not on the board until an
\* administrator approves, resumes or pauses it, whatever overlaps from then
\* on or stops half way: lifecycleJob's guards, and statuses being written as
\* they were read, leave no way round.
BarredStaysOff ==
  \A j \in Jobs : barred[j] => ~Published(j)
=============================================================================
