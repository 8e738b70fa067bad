------------------------- MODULE JobLifecycleProofs -------------------------
(***************************************************************************)
(* Proofs about JobLifecycle for every number of jobs and of overlapping   *)
(* requests, and about the loads of MCJobLifecycle.                        *)
(*                                                                         *)
(* Handlers write statuses they read earlier, so that no posting is shown  *)
(* past every administrator cannot be seen from the rows alone: the        *)
(* inductive invariant also says of every status that a request is about   *)
(* to write that, if it is approved or paused, an administrator has        *)
(* granted it or the write is itself the grant.  The same goes for the     *)
(* jobs that are not barred, and for those on record while handlers        *)
(* complete: Covered says it of any set of jobs, and CoverKept that it     *)
(* goes on as long as the set grows.                                       *)
(***************************************************************************)
EXTENDS MCJobLifecycle, TLAPS

\* An administrator has approved, resumed or paused what is approved or paused.
GrantedRows ==
  \A j \in Jobs : job[j].status \in Reviewable => granted[j] # "nothing"

\* A request knows its job, and what it is about to write is covered.
RequestSound(r) ==
  /\ r.step \in {"decide", "save", "archive", "delete", "moderate", "record", "expire"}
       => r.job \in Jobs
  /\ r.step = "decide" => r.action \in LifecycleActions
  /\ r.step = "create" => r.status \in {"draft", "pending_approval"}
  /\ r.step = "save" /\ r.status \in Reviewable
       => granted[r.job] # "nothing"
  /\ r.step = "moderate" /\ r.status \in Reviewable /\ r.action \notin Deciding
       => granted[r.job] # "nothing"

RequestsSound == \A s \in Requests : RequestSound(req[s])

IInv == TypeOK /\ GrantedRows /\ RequestsSound

-----------------------------------------------------------------------------
(* What a step makes of the requests.                                      *)

LEMMA IdleSound == Idle \in Request /\ RequestSound(Idle)
BY DEF Idle, Request, Steps, JobStatuses, RequestSound, Reviewable

\* A step that changes one request and no decision keeps the requests sound.
LEMMA RequestsKept ==
  ASSUME IInv, NEW s \in Requests, NEW r \in Request, RequestSound(r),
         req' = [req EXCEPT ![s] = r], UNCHANGED observed
  PROVE  req' \in [Requests -> Request] /\ RequestsSound'
<1>1. req' \in [Requests -> Request] /\ granted' = granted
  BY DEF IInv, TypeOK, observed
<1>2. \A t \in Requests : req'[t] = IF t = s THEN r ELSE req[t]
  BY DEF IInv, TypeOK
<1>3. ASSUME NEW t \in Requests PROVE RequestSound(req[t])'
  <2>1. CASE t = s
    BY <1>1, <1>2, <2>1 DEF RequestSound
  <2>2. CASE t # s
    BY <1>1, <1>2, <2>2 DEF RequestSound, IInv, RequestsSound
  <2>3. QED
    BY <2>1, <2>2
<1>4. QED
  BY <1>1, <1>3 DEF RequestsSound

LEMMA RespondKeeps ==
  ASSUME IInv, NEW s \in Requests, Respond(s), UNCHANGED observed
  PROVE  req' \in [Requests -> Request] /\ RequestsSound'
BY IdleSound, RequestsKept DEF Respond

\* Steps that leave every row alone.
LEMMA QuietStep ==
  ASSUME IInv, req' \in [Requests -> Request] /\ RequestsSound',
         UNCHANGED <<company, job, recorded, observed>>
  PROVE  IInv'
BY DEF IInv, TypeOK, GrantedRows, observed

LEMMA AcceptQuietly ==
  ASSUME IInv, NEW s \in Requests, NEW r \in Request, RequestSound(r),
         Accept(s, r), UNCHANGED <<company, job, recorded, observed>>
  PROVE  IInv'
<1>1. req' = [req EXCEPT ![s] = r] /\ UNCHANGED observed
  BY DEF Accept, observed
<1>2. QED
  BY <1>1, RequestsKept, QuietStep

-----------------------------------------------------------------------------
(* Each step keeps the invariant.                                          *)

LEMMA BeginPostKeeps ==
  ASSUME IInv, NEW s \in Requests, BeginPost(s)
  PROVE  IInv'
<1>1. PICK status \in {"draft", "pending_approval"} :
        Accept(s, [Idle EXCEPT !.step = "create", !.status = status])
  BY DEF BeginPost
<1>2. /\ [Idle EXCEPT !.step = "create", !.status = status] \in Request
      /\ RequestSound([Idle EXCEPT !.step = "create", !.status = status])
  BY DEF Idle, Request, Steps, JobStatuses, RequestSound
<1>3. QED
  BY <1>1, <1>2, AcceptQuietly DEF BeginPost

LEMMA BeginRecruiterKeeps ==
  ASSUME IInv, NEW s \in Requests, NEW j \in Jobs,
         \/ BeginDuplicate(s, j)
         \/ BeginUpdate(s, j)
         \/ BeginLifecycle(s, j)
         \/ BeginArchive(s, j)
         \/ BeginDelete(s, j)
  PROVE  IInv'
<1>1. CASE BeginDuplicate(s, j)
  <2>1. /\ [Idle EXCEPT !.step = "create"] \in Request
        /\ RequestSound([Idle EXCEPT !.step = "create"])
    BY DEF Idle, Request, Steps, JobStatuses, RequestSound
  <2>2. QED
    BY <1>1, <2>1, AcceptQuietly DEF BeginDuplicate
<1>2. CASE BeginUpdate(s, j)
  <2>1. PICK status \in {"draft", "pending_approval"} :
          Accept(s, [Idle EXCEPT !.step = "save", !.job = j, !.status = status])
    BY <1>2 DEF BeginUpdate
  <2>2. /\ [Idle EXCEPT !.step = "save", !.job = j, !.status = status] \in Request
        /\ RequestSound([Idle EXCEPT !.step = "save", !.job = j,
                                     !.status = status])
    BY DEF Idle, Request, Steps, JobStatuses, RequestSound, Reviewable
  <2>3. QED
    BY <1>2, <2>1, <2>2, AcceptQuietly DEF BeginUpdate
<1>3. CASE BeginLifecycle(s, j)
  <2>1. PICK action \in LifecycleActions :
          Accept(s, [Idle EXCEPT !.step = "decide", !.action = action, !.job = j])
    BY <1>3 DEF BeginLifecycle
  <2>2. /\ [Idle EXCEPT !.step = "decide", !.action = action, !.job = j] \in Request
        /\ RequestSound([Idle EXCEPT !.step = "decide", !.action = action,
                                     !.job = j])
    BY DEF Idle, Request, Steps, JobStatuses, RequestSound
  <2>3. QED
    BY <1>3, <2>1, <2>2, AcceptQuietly DEF BeginLifecycle
<1>4. CASE BeginArchive(s, j)
  <2>1. /\ [Idle EXCEPT !.step = "archive", !.job = j] \in Request
        /\ RequestSound([Idle EXCEPT !.step = "archive", !.job = j])
    BY DEF Idle, Request, Steps, JobStatuses, RequestSound
  <2>2. QED
    BY <1>4, <2>1, AcceptQuietly DEF BeginArchive
<1>5. CASE BeginDelete(s, j)
  <2>1. /\ [Idle EXCEPT !.step = "delete", !.job = j] \in Request
        /\ RequestSound([Idle EXCEPT !.step = "delete", !.job = j])
    BY DEF Idle, Request, Steps, JobStatuses, RequestSound
  <2>2. QED
    BY <1>5, <2>1, AcceptQuietly DEF BeginDelete
<1>6. QED
  BY <1>1, <1>2, <1>3, <1>4, <1>5

LEMMA BeginAdminKeeps ==
  ASSUME IInv, NEW s \in Requests, NEW j \in Jobs,
         \/ BeginModerate(s, j)
         \/ BeginModeratorDelete(s, j)
  PROVE  IInv'
<1>1. CASE BeginModerate(s, j)
  <2>1. PICK action \in ModerationActions :
          Accept(s, [step |-> "moderate", action |-> action, job |-> j,
                     status |-> Moderated(action, job[j]).status,
                     visible |-> Moderated(action, job[j]).visible])
    BY <1>1 DEF BeginModerate
  <2> DEFINE status == Moderated(action, job[j]).status
             visible == Moderated(action, job[j]).visible
             r == [step |-> "moderate", action |-> action, job |-> j,
                   status |-> status, visible |-> visible]
  <2>2. job[j].status \in JobStatuses /\ job[j].visible \in BOOLEAN
    BY <1>1 DEF BeginModerate, Exists, IInv, TypeOK
  <2>3. status \in JobStatuses /\ visible \in BOOLEAN
    BY <2>2 DEF Moderated, JobStatuses
  <2>4. status \in Reviewable /\ action \notin Deciding
          => granted[j] # "nothing"
    BY DEF Moderated, Reviewable, Deciding, IInv, GrantedRows
  <2> HIDE DEF status, visible
  <2>5. r \in Request
    BY <2>3 DEF Request, Steps
  <2>6. RequestSound(r)
    BY <2>4 DEF RequestSound
  <2>7. Accept(s, r)
    BY <2>1 DEF status, visible
  <2> HIDE DEF r
  <2>8. QED
    BY <1>1, <2>5, <2>6, <2>7, AcceptQuietly DEF BeginModerate
<1>2. CASE BeginModeratorDelete(s, j)
  <2>1. /\ [Idle EXCEPT !.step = "delete", !.job = j] \in Request
        /\ RequestSound([Idle EXCEPT !.step = "delete", !.job = j])
    BY DEF Idle, Request, Steps, JobStatuses, RequestSound
  <2>2. QED
    BY <1>2, <2>1, AcceptQuietly DEF BeginModeratorDelete
<1>3. QED
  BY <1>1, <1>2

LEMMA BeginCompanyKeeps ==
  ASSUME IInv, NEW s \in Requests,
         \/ BeginSetCompany(s)
         \/ BeginSuspend(s)
         \/ BeginUnsuspend(s)
         \/ BeginDeleteCompany(s)
  PROVE  IInv'
<1>1. PICK step \in {"setCompany", "suspend", "unsuspend", "deleteCompany"} :
        Accept(s, [Idle EXCEPT !.step = step])
  BY DEF BeginSetCompany, BeginSuspend, BeginUnsuspend, BeginDeleteCompany
<1>2. UNCHANGED <<company, job, recorded, observed>>
  BY DEF BeginSetCompany, BeginSuspend, BeginUnsuspend, BeginDeleteCompany
<1>3. /\ [Idle EXCEPT !.step = step] \in Request
      /\ RequestSound([Idle EXCEPT !.step = step])
  BY DEF Idle, Request, Steps, JobStatuses, RequestSound
<1>4. QED
  BY <1>1, <1>2, <1>3, AcceptQuietly

LEMMA BeginExpireKeeps ==
  ASSUME IInv, NEW s \in Requests, NEW j \in Jobs, BeginExpire(s, j)
  PROVE  IInv'
<1>1. /\ [Idle EXCEPT !.step = "expire", !.job = j] \in Request
      /\ RequestSound([Idle EXCEPT !.step = "expire", !.job = j])
  BY DEF Idle, Request, Steps, JobStatuses, RequestSound
<1>2. QED
  BY <1>1, AcceptQuietly DEF BeginExpire

LEMMA DecideKeeps ==
  ASSUME IInv, NEW s \in Requests, Decide(s)
  PROVE  IInv'
<1> DEFINE status == NextStatus[req[s].action]
           r == [req[s] EXCEPT !.step = "save", !.status = status]
<1>1. /\ req[s] \in Request /\ RequestSound(req[s])
      /\ req[s].job \in Jobs /\ req[s].action \in LifecycleActions
  BY DEF IInv, TypeOK, RequestsSound, RequestSound, Decide, At
<1>2. status \in JobStatuses
  BY <1>1 DEF NextStatus, LifecycleActions, JobStatuses
<1>3. status \in Reviewable => job[req[s].job].status \in Reviewable
  BY <1>1 DEF Decide, AllowedFrom, From, NextStatus, LifecycleActions, Reviewable
<1>4. status \in Reviewable => granted[req[s].job] # "nothing"
  BY <1>1, <1>3 DEF IInv, GrantedRows
<1> HIDE DEF status
<1>5. r \in Request
  BY <1>1, <1>2 DEF Request, Steps
<1>6. RequestSound(r)
  BY <1>1, <1>4 DEF RequestSound, Request
<1>7. req' = [req EXCEPT ![s] = r]
  BY DEF Decide, status
<1> HIDE DEF r
<1>8. UNCHANGED <<company, job, recorded, observed>> /\ UNCHANGED observed
  BY DEF Decide, observed
<1>9. QED
  BY <1>5, <1>6, <1>7, <1>8, RequestsKept, QuietStep

LEMMA JobWriteKeeps ==
  ASSUME IInv, NEW s \in Requests,
         \/ CreateJob(s)
         \/ SaveStatus(s)
         \/ ArchiveJob(s)
         \/ ExpireJob(s)
         \/ DeleteJob(s)
  PROVE  IInv'
<1>1. Respond(s) /\ UNCHANGED <<company, recorded, observed>>
  BY DEF CreateJob, SaveStatus, ArchiveJob, ExpireJob, DeleteJob, observed
<1>2. req' \in [Requests -> Request] /\ RequestsSound'
  BY <1>1, RespondKeeps
<1>3. req[s] \in Request /\ RequestSound(req[s])
  BY DEF IInv, TypeOK, RequestsSound
<1>4. /\ job' \in [Jobs -> [status : JobStatuses \cup {"none", "deleted"},
                            visible : BOOLEAN]]
      /\ \A j \in Jobs : job'[j].status \in Reviewable => granted[j] # "nothing"
  <2>1. CASE CreateJob(s)
    <3>1. PICK j \in Jobs :
            /\ job[j].status = "none"
            /\ job' = [job EXCEPT ![j] = [status |-> req[s].status,
                                          visible |-> TRUE]]
      BY <2>1 DEF CreateJob
    <3>2. req[s].status \in {"draft", "pending_approval"}
      BY <1>3, <2>1 DEF CreateJob, At, RequestSound
    <3>3. QED
      BY <3>1, <3>2 DEF IInv, TypeOK, GrantedRows, JobStatuses, Reviewable
  <2>2. CASE SaveStatus(s)
    <3>1. /\ req[s].job \in Jobs
          /\ req[s].status \in JobStatuses
          /\ req[s].status \in Reviewable => granted[req[s].job] # "nothing"
      BY <1>3, <2>2 DEF SaveStatus, At, RequestSound, Request
    <3>2. job' = [job EXCEPT ![req[s].job].status = req[s].status]
      BY <2>2 DEF SaveStatus
    <3>3. QED
      BY <3>1, <3>2 DEF IInv, TypeOK, GrantedRows, JobStatuses
  <2>3. CASE ArchiveJob(s) \/ ExpireJob(s)
    <3>1. req[s].job \in Jobs
      BY <1>3, <2>3 DEF ArchiveJob, ExpireJob, At, RequestSound
    <3>2. PICK status \in JobStatuses \ Reviewable :
            job' = [job EXCEPT ![req[s].job] = [status |-> status, visible |-> FALSE]]
      BY <2>3 DEF ArchiveJob, ExpireJob, JobStatuses, Reviewable
    <3>3. QED
      BY <3>1, <3>2 DEF IInv, TypeOK, GrantedRows, JobStatuses, Reviewable
  <2>4. CASE DeleteJob(s)
    <3>1. req[s].job \in Jobs
      BY <1>3, <2>4 DEF DeleteJob, At, RequestSound
    <3>2. QED
      BY <2>4, <3>1 DEF DeleteJob, Gone, IInv, TypeOK, GrantedRows, Reviewable
  <2>5. QED
    BY <2>1, <2>2, <2>3, <2>4
<1>5. QED
  BY <1>1, <1>2, <1>4 DEF observed, IInv, TypeOK, GrantedRows

LEMMA ModerateKeeps ==
  ASSUME IInv, NEW s \in Requests, Moderate(s)
  PROVE  IInv'
<1> DEFINE j == req[s].job
           r == [req[s] EXCEPT !.step = "record"]
<1>1. /\ req[s] \in Request /\ RequestSound(req[s])
      /\ j \in Jobs /\ Exists(j) /\ At(s, "moderate")
  BY DEF IInv, TypeOK, RequestsSound, RequestSound, Moderate, At
<1>2. /\ granted' \in [Jobs -> Grants]
      /\ \A k \in Jobs \ {j} : granted'[k] = granted[k]
      /\ granted'[j] = Granted(req[s].action, granted[j])
  BY <1>1 DEF Moderate, IInv, TypeOK, Granted, Grants
<1>3. \A k \in Jobs : granted[k] # "nothing" => granted'[k] # "nothing"
  BY <1>1, <1>2 DEF Granted
<1>4. barred' \in [Jobs -> BOOLEAN]
  <2>1. barred' = [barred EXCEPT ![j] = Barred(s, j, barred[j])]
    BY DEF Moderate
  <2>2. Barred(s, j, barred[j]) \in BOOLEAN
    BY <1>1 DEF Barred, IInv, TypeOK
  <2> QED
    BY <2>1, <2>2 DEF IInv, TypeOK
<1>5. job' = [job EXCEPT ![j] = [status |-> req[s].status,
                                 visible |-> req[s].visible]]
  BY DEF Moderate
<1>6. job' \in [Jobs -> [status : JobStatuses \cup {"none", "deleted"},
                         visible : BOOLEAN]]
  BY <1>1, <1>5 DEF IInv, TypeOK, Request
<1>7. req[s].status \in Reviewable => granted'[j] # "nothing"
  <2>1. CASE req[s].action \in Deciding
    BY <1>2, <2>1 DEF Granted, Deciding
  <2>2. CASE req[s].action \notin Deciding
    BY <1>1, <1>3, <2>2 DEF RequestSound, At
  <2>3. QED
    BY <2>1, <2>2
<1>8. GrantedRows'
  BY <1>1, <1>3, <1>5, <1>7 DEF IInv, TypeOK, GrantedRows
<1>10. r \in Request /\ r.step = "record" /\ r.job = j
  BY <1>1 DEF Request, Steps
<1>11. req' = [req EXCEPT ![s] = r]
  BY DEF Moderate
<1>12. \A t \in Requests : req'[t] = IF t = s THEN r ELSE req[t]
  BY <1>11 DEF IInv, TypeOK
<1>13. req' \in [Requests -> Request]
  BY <1>10, <1>11 DEF IInv, TypeOK
<1> HIDE DEF r
<1>14. ASSUME NEW t \in Requests PROVE RequestSound(req[t])'
  <2>1. CASE t = s
    BY <1>1, <1>10, <1>12, <2>1 DEF RequestSound
  <2>2. CASE t # s
    <3>1. req'[t] = req[t] /\ RequestSound(req[t])
      BY <1>12, <2>2 DEF IInv, RequestsSound
    <3>2. QED
      BY <1>3, <3>1 DEF RequestSound
  <2>3. QED
    BY <2>1, <2>2
<1>15. RequestsSound'
  BY <1>14 DEF RequestsSound
<1>16. company' = company /\ recorded' = recorded
  BY DEF Moderate
<1>17. TypeOK'
  BY <1>2, <1>4, <1>6, <1>13, <1>16 DEF IInv, TypeOK
<1>18. QED
  BY <1>8, <1>15, <1>17 DEF IInv

LEMMA RecordKeeps ==
  ASSUME IInv, NEW s \in Requests, RecordHistory(s)
  PROVE  IInv'
<1>1. Respond(s) /\ UNCHANGED <<company, job, observed>>
  BY DEF RecordHistory, observed
<1>2. req' \in [Requests -> Request] /\ RequestsSound'
  BY <1>1, RespondKeeps
<1>3. recorded' \in [Jobs -> BOOLEAN]
  BY DEF RecordHistory, IInv, TypeOK
<1>4. QED
  BY <1>1, <1>2, <1>3 DEF observed, IInv, TypeOK, GrantedRows

LEMMA CompanyWriteKeeps ==
  ASSUME IInv, NEW s \in Requests,
         \/ SetCompany(s)
         \/ SuspendCompany(s)
         \/ UnsuspendCompany(s)
         \/ DeleteCompany(s)
  PROVE  IInv'
<1>1. Respond(s) /\ UNCHANGED <<recorded, observed>>
  BY DEF SetCompany, SuspendCompany, UnsuspendCompany, DeleteCompany, observed
<1>2. req' \in [Requests -> Request] /\ RequestsSound'
  BY <1>1, RespondKeeps
<1>3. company' \in CompanyStates
  BY DEF SetCompany, SuspendCompany, UnsuspendCompany, DeleteCompany,
         CompanyStates
<1>4. /\ job' \in [Jobs -> [status : JobStatuses \cup {"none", "deleted"},
                            visible : BOOLEAN]]
      /\ \A j \in Jobs : job'[j].status \in Reviewable => job[j].status \in Reviewable
  <2>1. CASE SetCompany(s)
    BY <2>1 DEF SetCompany, IInv, TypeOK
  <2>2. CASE SuspendCompany(s)
    BY <2>2 DEF SuspendCompany, SetVisibility, IInv, TypeOK, Reviewable
  <2>3. CASE UnsuspendCompany(s)
    BY <2>3 DEF UnsuspendCompany, SetVisibility, IInv, TypeOK, Reviewable
  <2>4. CASE DeleteCompany(s)
    BY <2>4 DEF DeleteCompany, Gone, IInv, TypeOK, Reviewable
  <2>5. QED
    BY <2>1, <2>2, <2>3, <2>4
<1>5. QED
  BY <1>1, <1>2, <1>3, <1>4 DEF observed, IInv, TypeOK, GrantedRows

LEMMA AbandonKeeps ==
  ASSUME IInv, NEW s \in Requests, Abandon(s)
  PROVE  IInv'
<1>1. Respond(s) /\ UNCHANGED observed
  BY DEF Abandon, observed
<1>2. QED
  BY <1>1, RespondKeeps, QuietStep DEF Abandon

LEMMA InitIInv == Init => IInv
<1> SUFFICES ASSUME Init PROVE IInv
  OBVIOUS
<1>1. TypeOK
  BY IdleSound DEF Init, TypeOK, CompanyStates, Grants
<1>2. GrantedRows
  BY DEF Init, GrantedRows, Reviewable
<1>3. RequestsSound
  BY IdleSound DEF Init, RequestsSound
<1>4. QED
  BY <1>1, <1>2, <1>3 DEF IInv

LEMMA StepIInv == IInv /\ [Next]_vars => IInv'
<1> SUFFICES ASSUME IInv, [Next]_vars PROVE IInv'
  OBVIOUS
<1>1. CASE UNCHANGED vars
  <2>1. TypeOK' /\ GrantedRows'
    BY <1>1 DEF vars, observed, IInv, TypeOK, GrantedRows
  <2>2. RequestsSound'
    BY <1>1 DEF vars, observed, IInv, RequestsSound, RequestSound
  <2>3. QED
    BY <2>1, <2>2 DEF IInv
<1>2. CASE Next
  <2>1. PICK s \in Requests : \/ RecruiterStep(s) \/ AdminStep(s)
                             \/ CleanupStep(s) \/ Abandon(s)
    BY <1>2 DEF Next
  <2>2. CASE BeginPost(s)
    BY <2>2, BeginPostKeeps
  <2>3. CASE \E j \in Jobs : \/ BeginDuplicate(s, j)
                             \/ BeginUpdate(s, j)
                             \/ BeginLifecycle(s, j)
                             \/ BeginArchive(s, j)
                             \/ BeginDelete(s, j)
    BY <2>3, BeginRecruiterKeeps
  <2>4. CASE \E j \in Jobs : BeginModerate(s, j) \/ BeginModeratorDelete(s, j)
    BY <2>4, BeginAdminKeeps
  <2>5. CASE \/ BeginSetCompany(s)
             \/ BeginSuspend(s)
             \/ BeginUnsuspend(s)
             \/ BeginDeleteCompany(s)
    BY <2>5, BeginCompanyKeeps
  <2>6. CASE Decide(s)
    BY <2>6, DecideKeeps
  <2>7. CASE CreateJob(s) \/ SaveStatus(s) \/ ArchiveJob(s) \/ ExpireJob(s) \/ DeleteJob(s)
    BY <2>7, JobWriteKeeps
  <2>8. CASE Moderate(s)
    BY <2>8, ModerateKeeps
  <2>9. CASE RecordHistory(s)
    BY <2>9, RecordKeeps
  <2>10. CASE \/ SetCompany(s)
              \/ SuspendCompany(s)
              \/ UnsuspendCompany(s)
              \/ DeleteCompany(s)
    BY <2>10, CompanyWriteKeeps
  <2>11. CASE Abandon(s)
    BY <2>11, AbandonKeeps
  <2>12. CASE \E j \in Jobs : BeginExpire(s, j)
    BY <2>12, BeginExpireKeeps
  <2>13. QED
    BY <2>1, <2>2, <2>3, <2>4, <2>5, <2>6, <2>7, <2>8, <2>9, <2>10, <2>11, <2>12
    DEF RecruiterStep, AdminStep, CleanupStep
<1>3. QED
  BY <1>1, <1>2

\* Every handler leaves rows and requests well typed, whatever overlaps.
THEOREM TypeCorrect == Spec => []TypeOK
<1>1. IInv => TypeOK
  BY DEF IInv
<1>2. QED
  BY <1>1, InitIInv, StepIInv, PTL DEF Spec

\* No posting reaches the board past every administrator: one has approved,
\* resumed or paused it, although moderateJob and lifecycleJob write back
\* statuses they read earlier.
THEOREM NothingShownUngranted == Spec => []GrantedBeforeShown
<1>1. IInv => GrantedBeforeShown
  BY DEF IInv, GrantedRows, GrantedBeforeShown, Published, Reviewable
<1>2. QED
  BY <1>1, InitIInv, StepIInv, PTL DEF Spec

-----------------------------------------------------------------------------
(* The kinds of steps.  A step takes up a request, decides what a           *)
(* recruiter's action will write, writes and answers, or moderates.         *)

JobSteps == {"decide", "save", "archive", "delete", "moderate", "record", "expire"}

Alone(s) == req' \in [Requests -> Request] /\ \A t \in Requests \ {s} : req'[t] = req[t]

\* What a request may hold when it is taken up.
Fresh(r) ==
  /\ r.step # "idle" /\ r.step # "record"
  /\ r.step \in JobSteps => r.job \in Jobs /\ Exists(r.job)
  /\ r.step = "save" => r.status \notin Reviewable
  /\ r.step = "moderate" => r.status = Moderated(r.action, job[r.job]).status

Begun(s) == UNCHANGED <<job, recorded, observed>> /\ At(s, "idle") /\ Fresh(req'[s])

Saves(s, j) == At(s, "save") /\ req[s].job = j /\ req[s].status \in Reviewable

Written(s) ==
  /\ UNCHANGED observed /\ ~At(s, "idle") /\ req'[s] = Idle
  /\ \A j \in Jobs :
       /\ job'[j].status \in Reviewable => job[j].status \in Reviewable \/ Saves(s, j)
       /\ job[j].status = "deleted" => job'[j].status = "deleted"
       /\ job'[j].status = "none" => job[j].status = "none"
       /\ recorded[j] => recorded'[j]

JobStep(s) ==
  RecruiterStep(s) \/ AdminStep(s) \/ CleanupStep(s) \/ Abandon(s)

LEMMA HoldsAlone ==
  ASSUME TypeOK, NEW s \in Requests, NEW r \in Request, req' = [req EXCEPT ![s] = r]
  PROVE  Alone(s) /\ req'[s] = r
BY DEF TypeOK, Alone

LEMMA TakenUp ==
  ASSUME TypeOK, NEW s \in Requests, NEW r \in Request, Fresh(r), Accept(s, r),
         UNCHANGED <<company, job, recorded, observed>>
  PROVE  Alone(s) /\ Begun(s)
<1>1. At(s, "idle") /\ req' = [req EXCEPT ![s] = r]
  BY DEF Accept
<1>2. Alone(s) /\ req'[s] = r
  BY <1>1, HoldsAlone
<1> QED
  BY <1>1, <1>2 DEF Begun, Fresh, Exists, observed

LEMMA BeginsBegin ==
  ASSUME TypeOK, NEW s \in Requests,
         \/ BeginPost(s) \/ BeginSetCompany(s) \/ BeginSuspend(s) \/ BeginUnsuspend(s)
         \/ BeginDeleteCompany(s)
         \/ \E j \in Jobs : \/ BeginDuplicate(s, j) \/ BeginUpdate(s, j)
                            \/ BeginLifecycle(s, j) \/ BeginArchive(s, j)
                            \/ BeginDelete(s, j) \/ BeginModerate(s, j)
                            \/ BeginModeratorDelete(s, j) \/ BeginExpire(s, j)
  PROVE  Alone(s) /\ Begun(s)
<1> USE DEF Idle, Request, Steps, JobStatuses, JobSteps, Fresh
<1>1. CASE BeginPost(s)
  <2>1. PICK status \in {"draft", "pending_approval"} :
          Accept(s, [Idle EXCEPT !.step = "create", !.status = status])
    BY <1>1 DEF BeginPost
  <2> DEFINE r == [Idle EXCEPT !.step = "create", !.status = status]
  <2>2. r \in Request /\ Fresh(r)
    OBVIOUS
  <2> HIDE DEF r
  <2> QED
    BY <1>1, <2>1, <2>2, TakenUp DEF BeginPost, r
<1>2. ASSUME \/ BeginSetCompany(s) \/ BeginSuspend(s) \/ BeginUnsuspend(s) \/ BeginDeleteCompany(s)
             \/ \E j \in Jobs : BeginDuplicate(s, j)
      PROVE  Alone(s) /\ Begun(s)
  <2>1. PICK step \in {"setCompany", "suspend", "unsuspend", "deleteCompany", "create"} :
          Accept(s, [Idle EXCEPT !.step = step])
    BY <1>2 DEF BeginSetCompany, BeginSuspend, BeginUnsuspend, BeginDeleteCompany, BeginDuplicate
  <2>2. UNCHANGED <<company, job, recorded, observed>>
    BY <1>2 DEF BeginSetCompany, BeginSuspend, BeginUnsuspend, BeginDeleteCompany, BeginDuplicate
  <2>3. [Idle EXCEPT !.step = step] \in Request /\ Fresh([Idle EXCEPT !.step = step])
    OBVIOUS
  <2> QED
    BY <2>1, <2>2, <2>3, TakenUp
<1>3. ASSUME NEW j \in Jobs,
             BeginArchive(s, j) \/ BeginDelete(s, j) \/ BeginModeratorDelete(s, j) \/ BeginExpire(s, j)
      PROVE  Alone(s) /\ Begun(s)
  <2>1. PICK step \in {"archive", "delete", "expire"} :
          Accept(s, [Idle EXCEPT !.step = step, !.job = j])
    BY <1>3 DEF BeginArchive, BeginDelete, BeginModeratorDelete, BeginExpire
  <2>2. UNCHANGED <<company, job, recorded, observed>> /\ Exists(j)
    BY <1>3 DEF BeginArchive, BeginDelete, BeginModeratorDelete, BeginExpire, Exists
  <2> DEFINE r == [Idle EXCEPT !.step = step, !.job = j]
  <2>3. r \in Request /\ r.step = step /\ r.job = j
    OBVIOUS
  <2>4. Accept(s, r)
    BY <2>1
  <2> HIDE DEF r
  <2>5. Fresh(r)
    BY <2>1, <2>2, <2>3
  <2> QED
    BY <2>2, <2>3, <2>4, <2>5, TakenUp
<1>4. ASSUME NEW j \in Jobs, BeginUpdate(s, j) PROVE Alone(s) /\ Begun(s)
  <2>1. PICK status \in {"draft", "pending_approval"} :
          Accept(s, [Idle EXCEPT !.step = "save", !.job = j, !.status = status])
    BY <1>4 DEF BeginUpdate
  <2>2. Exists(j)
    BY <1>4 DEF BeginUpdate
  <2> DEFINE r == [Idle EXCEPT !.step = "save", !.job = j, !.status = status]
  <2>3. r \in Request /\ Fresh(r)
    BY <2>2 DEF Reviewable
  <2> HIDE DEF r
  <2> QED
    BY <1>4, <2>1, <2>3, TakenUp DEF BeginUpdate, r
<1>5. ASSUME NEW j \in Jobs, BeginLifecycle(s, j) PROVE Alone(s) /\ Begun(s)
  <2>1. PICK action \in LifecycleActions :
          Accept(s, [Idle EXCEPT !.step = "decide", !.action = action, !.job = j])
    BY <1>5 DEF BeginLifecycle
  <2>2. Exists(j)
    BY <1>5 DEF BeginLifecycle
  <2> DEFINE r == [Idle EXCEPT !.step = "decide", !.action = action, !.job = j]
  <2>3. r \in Request /\ Fresh(r)
    BY <2>2
  <2> HIDE DEF r
  <2> QED
    BY <1>5, <2>1, <2>3, TakenUp DEF BeginLifecycle, r
<1>6. ASSUME NEW j \in Jobs, BeginModerate(s, j) PROVE Alone(s) /\ Begun(s)
  <2>1. PICK action \in ModerationActions :
          Accept(s, [step |-> "moderate", action |-> action, job |-> j,
                     status |-> Moderated(action, job[j]).status,
                     visible |-> Moderated(action, job[j]).visible])
    BY <1>6 DEF BeginModerate
  <2> DEFINE status == Moderated(action, job[j]).status
             visible == Moderated(action, job[j]).visible
             r == [step |-> "moderate", action |-> action, job |-> j,
                   status |-> status, visible |-> visible]
  <2>2. Exists(j) /\ job[j].visible \in BOOLEAN
    BY <1>6 DEF BeginModerate, TypeOK
  <2>3. status \in JobStatuses /\ visible \in BOOLEAN
    BY <2>2 DEF Moderated, Exists
  <2> HIDE DEF status, visible
  <2>4. r \in Request
    BY <2>3
  <2>5. Fresh(r)
    BY <2>2 DEF status
  <2>6. Accept(s, r)
    BY <2>1 DEF status, visible
  <2> HIDE DEF r
  <2> QED
    BY <1>6, <2>4, <2>5, <2>6, TakenUp DEF BeginModerate
<1> QED
  BY <1>1, <1>2, <1>3, <1>4, <1>5, <1>6

LEMMA WritesWrite ==
  ASSUME IInv, NEW s \in Requests,
         \/ CreateJob(s) \/ SaveStatus(s) \/ ArchiveJob(s) \/ DeleteJob(s) \/ ExpireJob(s)
         \/ RecordHistory(s) \/ SetCompany(s) \/ SuspendCompany(s) \/ UnsuspendCompany(s)
         \/ DeleteCompany(s) \/ Abandon(s)
  PROVE  Alone(s) /\ Written(s)
<1>1. Respond(s) /\ ~At(s, "idle") /\ UNCHANGED observed
  BY DEF CreateJob, SaveStatus, ArchiveJob, DeleteJob, ExpireJob, RecordHistory, SetCompany,
         SuspendCompany, UnsuspendCompany, DeleteCompany, Abandon, observed, At
<1>2. Alone(s) /\ req'[s] = Idle
  BY <1>1, HoldsAlone, IdleSound DEF Respond, IInv
<1>4. TypeOK /\ RequestSound(req[s]) /\ req[s] \in Request
  BY DEF IInv, TypeOK, RequestsSound
<1>5. ASSUME NEW j \in Jobs PROVE recorded[j] => recorded'[j]
  <2>1. CASE RecordHistory(s)
    BY <1>4, <2>1 DEF RecordHistory, TypeOK
  <2>2. CASE ~RecordHistory(s)
    <3>1. UNCHANGED recorded
      BY <2>2 DEF CreateJob, SaveStatus, ArchiveJob, DeleteJob, ExpireJob, SetCompany,
         SuspendCompany, UnsuspendCompany, DeleteCompany, Abandon
    <3> QED
      BY <3>1
  <2> QED
    BY <2>1, <2>2
<1>6. ASSUME NEW j \in Jobs
      PROVE  /\ job'[j].status \in Reviewable => job[j].status \in Reviewable \/ Saves(s, j)
             /\ job[j].status = "deleted" => job'[j].status = "deleted"
             /\ job'[j].status = "none" => job[j].status = "none"
  <2>1. CASE CreateJob(s)
    <3>1. PICK k \in Jobs : job[k].status = "none"
                            /\ job' = [job EXCEPT ![k] = [status |-> req[s].status, visible |-> TRUE]]
      BY <2>1 DEF CreateJob
    <3>2. req[s].status \in {"draft", "pending_approval"}
      BY <1>4, <2>1 DEF CreateJob, At, RequestSound
    <3> QED
      BY <1>4, <3>1, <3>2 DEF TypeOK, Reviewable
  <2>2. CASE SaveStatus(s)
    <3>1. req[s].job \in Jobs /\ req[s].status \in JobStatuses
      BY <1>4, <2>2 DEF SaveStatus, At, RequestSound, Request
    <3> QED
      BY <1>4, <2>2, <3>1 DEF SaveStatus, TypeOK, Saves, Exists, JobStatuses
  <2>3. CASE ArchiveJob(s) \/ ExpireJob(s) \/ DeleteJob(s)
    <3>1. req[s].job \in Jobs
      BY <1>4, <2>3 DEF ArchiveJob, ExpireJob, DeleteJob, At, RequestSound
    <3> QED
      BY <1>4, <2>3, <3>1 DEF ArchiveJob, ExpireJob, DeleteJob, Gone, TypeOK, Reviewable, Exists,
         JobStatuses
  <2>4. CASE SuspendCompany(s) \/ UnsuspendCompany(s)
    BY <1>4, <2>4 DEF SuspendCompany, UnsuspendCompany, SetVisibility, TypeOK
  <2>5. CASE DeleteCompany(s)
    BY <1>4, <2>5 DEF DeleteCompany, Gone, Exists, TypeOK, Reviewable, JobStatuses
  <2>6. CASE RecordHistory(s) \/ SetCompany(s) \/ Abandon(s)
    BY <2>6 DEF RecordHistory, SetCompany, Abandon
  <2> QED
    BY <2>1, <2>2, <2>3, <2>4, <2>5, <2>6
<1> QED
  BY <1>1, <1>2, <1>5, <1>6 DEF Written

LEMMA StepKinds ==
  ASSUME IInv, NEW s \in Requests, JobStep(s)
  PROVE  Alone(s) /\ (Begun(s) \/ Written(s) \/ Decide(s) \/ Moderate(s))
<1>1. TypeOK /\ req[s] \in Request
  BY DEF IInv, TypeOK
<1>2. CASE Decide(s)
  <2>1. PICK q : req' = [req EXCEPT ![s] = q]
    BY <1>2 DEF Decide
  <2> QED
    BY <1>2, <2>1, StepIInv DEF Alone, IInv, TypeOK, Next, JobStep
<1>3. CASE Moderate(s)
  <2>1. PICK q : req' = [req EXCEPT ![s] = q]
    BY <1>3 DEF Moderate
  <2> QED
    BY <1>3, <2>1, StepIInv DEF Alone, IInv, TypeOK, Next, JobStep
<1>4. ASSUME \/ BeginPost(s) \/ BeginSetCompany(s) \/ BeginSuspend(s) \/ BeginUnsuspend(s)
             \/ BeginDeleteCompany(s)
             \/ \E j \in Jobs : \/ BeginDuplicate(s, j) \/ BeginUpdate(s, j)
                                \/ BeginLifecycle(s, j) \/ BeginArchive(s, j)
                                \/ BeginDelete(s, j) \/ BeginModerate(s, j)
                                \/ BeginModeratorDelete(s, j) \/ BeginExpire(s, j)
      PROVE  Alone(s) /\ Begun(s)
  BY <1>1, <1>4, BeginsBegin
<1>5. ASSUME \/ CreateJob(s) \/ SaveStatus(s) \/ ArchiveJob(s) \/ DeleteJob(s) \/ ExpireJob(s)
             \/ RecordHistory(s) \/ SetCompany(s) \/ SuspendCompany(s) \/ UnsuspendCompany(s)
             \/ DeleteCompany(s) \/ Abandon(s)
      PROVE  Alone(s) /\ Written(s)
  BY <1>5, WritesWrite
<1> QED
  BY <1>2, <1>3, <1>4, <1>5 DEF JobStep, RecruiterStep, AdminStep, CleanupStep

\* Postings that may be approved or paused, by their rows and by what requests
\* are about to write, are among those in G.
RequestCovered(r, G) ==
  /\ r.step = "save" /\ r.status \in Reviewable => r.job \in G
  /\ r.step = "moderate" /\ r.status \in Reviewable /\ r.action \notin Deciding => r.job \in G

Covered(G) ==
  /\ \A j \in Jobs : job[j].status \in Reviewable => j \in G
  /\ \A s \in Requests : RequestCovered(req[s], G)

\* A status is approved or paused because it was, or by an administrator's
\* decision.
LEMMA CoverKept ==
  ASSUME IInv, NEW s \in Requests, Alone(s), NEW G, NEW H, G \subseteq H, Covered(G),
         Begun(s) \/ Written(s) \/ Decide(s) \/ Moderate(s),
         Moderate(s) /\ req[s].status \in Reviewable /\ req[s].action \in Deciding =>
           req[s].job \in H
  PROVE  /\ \A j \in Jobs : job'[j].status \in Reviewable => j \in H
         /\ \A t \in Requests : RequestCovered(req'[t], H)
<1>1. req[s] \in Request /\ RequestSound(req[s]) /\ RequestCovered(req[s], G)
  BY DEF IInv, TypeOK, RequestsSound, Covered
<1>2. ASSUME NEW t \in Requests, t # s PROVE RequestCovered(req'[t], H)
  BY <1>2 DEF Alone, Covered, RequestCovered
<1>3. CASE Begun(s)
  <2> DEFINE r == req'[s]
  <2>1. Fresh(r) /\ job' = job
    BY <1>3 DEF Begun
  <2>2. ASSUME r.step = "moderate", r.status \in Reviewable, r.action \notin Deciding
        PROVE  r.job \in G
    <3>1. r.job \in Jobs /\ r.status = Moderated(r.action, job[r.job]).status
      BY <2>1, <2>2 DEF Fresh, JobSteps
    <3>2. Moderated(r.action, job[r.job]).status \in {"flagged", "archived", job[r.job].status}
      BY <2>2 DEF Moderated, Deciding
    <3>3. job[r.job].status \in Reviewable
      BY <2>2, <3>1, <3>2 DEF Reviewable
    <3> QED
      BY <3>1, <3>3 DEF Covered
  <2>3. RequestCovered(r, H)
    BY <2>1, <2>2 DEF RequestCovered, Fresh
  <2> QED
    BY <1>2, <2>1, <2>3 DEF Covered
<1>4. CASE Written(s)
  <2>1. \A j \in Jobs : Saves(s, j) => j \in G
    BY <1>1 DEF Saves, At, RequestCovered
  <2>2. RequestCovered(req'[s], H)
    BY <1>4 DEF Written, Idle, RequestCovered
  <2> QED
    BY <1>2, <1>4, <2>1, <2>2 DEF Written, Covered
<1>5. CASE Decide(s)
  <2> DEFINE status == NextStatus[req[s].action]
  <2>1. req[s].job \in Jobs /\ req[s].action \in LifecycleActions
    BY <1>1, <1>5 DEF Decide, At, RequestSound
  <2>2. job' = job /\ req' = [req EXCEPT ![s].step = "save", ![s].status = status]
    BY <1>5 DEF Decide
  <2>3. status \in Reviewable => job[req[s].job].status \in Reviewable
    BY <1>5, <2>1 DEF Decide, AllowedFrom, From, NextStatus, LifecycleActions, Reviewable
  <2> HIDE DEF status
  <2>4. req'[s].step = "save" /\ req'[s].job = req[s].job /\ req'[s].status = status
    BY <1>1, <2>2 DEF IInv, TypeOK, Request
  <2>5. RequestCovered(req'[s], H)
    BY <2>1, <2>3, <2>4 DEF RequestCovered, Covered
  <2> QED
    BY <1>2, <2>2, <2>5 DEF Covered
<1>6. CASE Moderate(s)
  <2>1. req[s].job \in Jobs /\ At(s, "moderate")
    BY <1>1, <1>6 DEF Moderate, At, RequestSound
  <2>2. job' = [job EXCEPT ![req[s].job] = [status |-> req[s].status, visible |-> req[s].visible]]
    BY <1>6 DEF Moderate
  <2>3. req[s].status \in Reviewable => req[s].job \in H
    BY <1>1, <1>6, <2>1 DEF RequestCovered, At
  <2>4. \A j \in Jobs : job'[j].status \in Reviewable => j \in H
    BY <2>1, <2>2, <2>3 DEF IInv, TypeOK, Covered
  <2>5. req'[s].step = "record"
    BY <1>1, <1>6 DEF Moderate, IInv, TypeOK, Request
  <2> QED
    BY <1>2, <2>4, <2>5 DEF RequestCovered
<1> QED
  BY <1>3, <1>4, <1>5, <1>6

-----------------------------------------------------------------------------
(* What is barred is neither approved nor paused, and no request is about to *)
(* make it so but by an administrator's decision.                            *)

Free == {j \in Jobs : ~barred[j]}

BarInv == IInv /\ Covered(Free)

LEMMA OthersStayCovered ==
  ASSUME IInv, NEW s \in Requests, Alone(s), Moderate(s), barred'[req[s].job],
         req[s].action \in {"reject", "archive"}, Covered(Free)
  PROVE  Covered(Free)'
<1> DEFINE j == req[s].job
<1>1. req[s] \in Request /\ j \in Jobs /\ At(s, "moderate")
  BY DEF Moderate, At, IInv, TypeOK, RequestsSound, RequestSound
<1>2. barred' = [barred EXCEPT ![j] = Barred(s, j, barred[j])]
  BY DEF Moderate
<1>3. \A t \in Requests : ~Outdated(t, j)
  BY <1>1, <1>2 DEF Barred, Deciding, IInv, TypeOK
<1>4. req[s].status \notin Reviewable
  BY <1>1, <1>3 DEF Outdated, Deciding
<1>5. \A k \in Jobs \ {j} : barred'[k] = barred[k]
  BY <1>1, <1>2 DEF IInv, TypeOK
<1>6. /\ job'[j].status = req[s].status
      /\ \A k \in Jobs \ {j} : job'[k] = job[k]
  BY <1>1 DEF Moderate, IInv, TypeOK
<1>7. \A k \in Jobs : job'[k].status \in Reviewable => k \in Free'
  BY <1>4, <1>5, <1>6 DEF Covered, Free
<1>8. req'[s].step = "record"
  BY <1>1 DEF Moderate, IInv, TypeOK, Request
<1>9. ASSUME NEW t \in Requests PROVE RequestCovered(req'[t], Free')
  <2>1. CASE t = s
    BY <1>8, <2>1 DEF RequestCovered
  <2>2. CASE t # s
    <3>1. req'[t] = req[t] /\ RequestCovered(req[t], Free)
      BY <2>2 DEF Alone, Covered
    <3>2. ~Outdated(t, j)
      BY <1>3
    <3> QED
      BY <1>5, <3>1, <3>2 DEF RequestCovered, Outdated, At, Free
  <2> QED
    BY <2>1, <2>2
<1> QED
  BY <1>7, <1>9 DEF Covered, RequestCovered

LEMMA BarNext ==
  ASSUME BarInv, NEW s \in Requests, JobStep(s)
  PROVE  Covered(Free)'
<1>1. Alone(s) /\ (Begun(s) \/ Written(s) \/ Decide(s) \/ Moderate(s))
  BY StepKinds DEF BarInv
<1>2. req[s] \in Request /\ RequestSound(req[s])
  BY DEF BarInv, IInv, TypeOK, RequestsSound
<1>3. ASSUME Free \subseteq Free',
             Moderate(s) /\ req[s].action \in Deciding => req[s].job \in Free'
      PROVE  Covered(Free)'
  <2>1. PICK G, H : G = Free /\ H = Free'
    OBVIOUS
  <2>2. Covered(G) /\ G \subseteq H
    BY <1>3, <2>1 DEF BarInv
  <2>3. /\ \A j \in Jobs : job'[j].status \in Reviewable => j \in H
        /\ \A t \in Requests : RequestCovered(req'[t], H)
    BY <1>1, <1>3, <2>1, <2>2, CoverKept DEF BarInv
  <2> QED
    BY <2>1, <2>3 DEF Covered
<1>4. CASE ~Moderate(s)
  <2>1. barred' = barred
    BY <1>1, <1>4 DEF Begun, Written, Decide, observed
  <2> QED
    BY <1>3, <1>4, <2>1 DEF Free
<1>5. CASE Moderate(s)
  <2> DEFINE j == req[s].job
  <2>1. j \in Jobs
    BY <1>2, <1>5 DEF Moderate, At, RequestSound
  <2>2. barred' = [barred EXCEPT ![j] = Barred(s, j, barred[j])]
    BY <1>5 DEF Moderate
  <2>3. /\ \A k \in Jobs \ {j} : barred'[k] = barred[k]
        /\ barred'[j] = Barred(s, j, barred[j])
    BY <2>1, <2>2 DEF BarInv, IInv, TypeOK
  <2>4. CASE req[s].action \in Deciding
    <3>1. ~barred'[j]
      BY <2>3, <2>4 DEF Barred, Deciding
    <3> QED
      BY <1>3, <2>1, <2>3, <3>1 DEF Free
  <2>5. CASE req[s].action \notin Deciding \cup {"reject", "archive"}
    <3>1. barred'[j] = barred[j]
      BY <2>3, <2>5 DEF Barred
    <3> QED
      BY <1>3, <2>1, <2>3, <2>5, <3>1 DEF Free
  <2>6. CASE req[s].action \in {"reject", "archive"}
    <3>1. CASE barred'[j]
      BY <1>1, <1>5, <2>6, <3>1, OthersStayCovered DEF BarInv
    <3>2. CASE ~barred'[j]
      BY <1>3, <2>1, <2>3, <2>6, <3>2 DEF Free, Deciding
    <3> QED
      BY <3>1, <3>2
  <2> QED
    BY <2>4, <2>5, <2>6
<1> QED
  BY <1>4, <1>5

LEMMA UntouchedCover ==
  ASSUME UNCHANGED vars, Covered(Free)
  PROVE  Covered(Free)'
BY DEF vars, observed, Covered, RequestCovered, Free

LEMMA BarInit == Init => BarInv
<1>1. Init => Covered(Free)
  BY DEF Init, Covered, RequestCovered, Idle, Free, Reviewable
<1> QED
  BY <1>1, InitIInv DEF BarInv

LEMMA BarStep == BarInv /\ [Next]_vars => BarInv'
<1>1. BarInv /\ UNCHANGED vars => BarInv'
  BY StepIInv, UntouchedCover DEF BarInv
<1>2. BarInv /\ Next => BarInv'
  <2> SUFFICES ASSUME BarInv, Next PROVE BarInv'
    OBVIOUS
  <2>1. PICK s \in Requests : JobStep(s)
    BY DEF Next, JobStep
  <2> QED
    BY <2>1, BarNext, StepIInv DEF BarInv
<1> QED
  BY <1>1, <1>2

\* What an administrator rejected or archived stays off the board until an
\* administrator decides otherwise, whatever overlaps or stops half way from
\* then on: lifecycleJob's guards leave recruiters no way round.
THEOREM BarredJobsStayOff == Spec => []BarredStaysOff
<1>1. BarInv => BarredStaysOff
  BY DEF BarInv, Covered, Free, BarredStaysOff, Published, Reviewable
<1> QED
  BY <1>1, BarInit, BarStep, PTL DEF Spec

-----------------------------------------------------------------------------
(* No handler stops half way.                                               *)

\* Postings with a row in JobStatusHistory, or with one on its way; a deleted
\* one needs none.
OnFile ==
  {j \in Jobs :
     \/ recorded[j] \/ job[j].status = "deleted"
     \/ \E s \in Requests : At(s, "record") /\ req[s].job = j /\ req[s].status \in Reviewable}

\* A request is about a posting that is there, or was.
Created == \A s \in Requests : req[s].step \in JobSteps => job[req[s].job].status # "none"

ReliableInv == Created /\ Covered(OnFile)
LEMMA RowsGoOn ==
  ASSUME IInv, NEW s \in Requests,
         Begun(s) \/ Written(s) \/ Decide(s) \/ Moderate(s), NEW j \in Jobs
  PROVE  /\ job'[j].status = "none" => job[j].status = "none"
         /\ job[j].status = "deleted" => job'[j].status = "deleted"
<1>1. CASE Begun(s) \/ Decide(s)
  BY <1>1 DEF Begun, Decide
<1>2. CASE Moderate(s)
  <2>1. req[s].job \in Jobs /\ req[s].status \in JobStatuses /\ Exists(req[s].job)
    BY <1>2 DEF Moderate, At, IInv, TypeOK, Request, RequestsSound, RequestSound
  <2> QED
    BY <1>2, <2>1 DEF Moderate, IInv, TypeOK, Exists, JobStatuses
<1> QED
  BY <1>1, <1>2 DEF Written

LEMMA CreatedKept ==
  ASSUME IInv, Created, NEW s \in Requests, Alone(s),
         Begun(s) \/ Written(s) \/ Decide(s) \/ Moderate(s)
  PROVE  Created'
<1>1. req[s] \in Request /\ \A t \in Requests : req[t].step \in JobSteps => req[t].job \in Jobs
  BY DEF IInv, TypeOK, RequestsSound, RequestSound, JobSteps
<1>2. ASSUME NEW t \in Requests, t # s, req'[t].step \in JobSteps
      PROVE  job'[req'[t].job].status # "none"
  <2>1. req'[t] = req[t]
    BY <1>2 DEF Alone
  <2> QED
    BY <1>1, <1>2, <2>1, RowsGoOn DEF Created
<1>3. ASSUME req'[s].step \in JobSteps PROVE job'[req'[s].job].status # "none"
  <2>1. CASE Begun(s)
    BY <1>3, <2>1 DEF Begun, Fresh, Exists, JobStatuses
  <2>2. CASE Written(s)
    BY <1>3, <2>2 DEF Written, Idle, JobSteps
  <2>3. CASE Decide(s) \/ Moderate(s)
    <3>1. req'[s].job = req[s].job /\ req[s].step \in JobSteps
      BY <1>1, <2>3 DEF Decide, Moderate, At, IInv, TypeOK, Request, JobSteps
    <3> QED
      BY <1>1, <2>3, <3>1, RowsGoOn DEF Created
  <2> QED
    BY <2>1, <2>2, <2>3
<1> QED
  BY <1>2, <1>3 DEF Created

LEMMA OnFileKept ==
  ASSUME IInv, Created, NEW s \in Requests, Alone(s), JobStep(s), At(s, "record") => RecordHistory(s) \/ Refused(s),
         Begun(s) \/ Written(s) \/ Decide(s) \/ Moderate(s)
  PROVE  OnFile \subseteq OnFile'
<1> SUFFICES ASSUME NEW j \in OnFile PROVE j \in OnFile'
  OBVIOUS
<1>0. j \in Jobs /\ req[s] \in Request
  BY DEF OnFile, IInv, TypeOK
<1>1. CASE job[j].status = "deleted"
  BY <1>0, <1>1, RowsGoOn DEF OnFile
<1>2. CASE recorded[j]
  <2>1. recorded'[j]
    BY <1>0, <1>2 DEF Begun, Decide, Moderate, Written
  <2> QED
    BY <1>0, <2>1 DEF OnFile
<1>3. ASSUME NEW t \in Requests, At(t, "record"), req[t].job = j, req[t].status \in Reviewable
      PROVE  j \in OnFile'
  <2>1. CASE t # s
    <3>1. req'[t] = req[t]
      BY <2>1 DEF Alone
    <3> QED
      BY <1>0, <1>3, <3>1 DEF OnFile, At
  <2>2. CASE t = s
    <3>1. RecordHistory(s) \/ Refused(s)
      BY <1>3, <2>2
    <3>2. CASE RecordHistory(s)
      <4>1. recorded'[j]
        BY <1>0, <1>3, <2>2, <3>2 DEF RecordHistory, IInv, TypeOK, Reviewable
      <4> QED
        BY <1>0, <4>1 DEF OnFile
    <3>3. CASE Refused(s)
      <4>1. ~Exists(j)
        BY <1>3, <2>2, <3>3 DEF Refused, At
      <4>2. job[j].status # "none"
        BY <1>3, <2>2 DEF Created, At, JobSteps
      <4>3. job[j].status = "deleted"
        BY <1>0, <4>1, <4>2 DEF Exists, IInv, TypeOK
      <4> QED
        BY <1>0, <4>3, RowsGoOn DEF OnFile
    <3> QED
      BY <3>1, <3>2, <3>3
  <2> QED
    BY <2>1, <2>2
<1> QED
  BY <1>1, <1>2, <1>3 DEF OnFile

LEMMA ReliableNext ==
  ASSUME IInv, ReliableInv, NEW s \in Requests, JobStep(s), At(s, "record") => RecordHistory(s) \/ Refused(s)
  PROVE  ReliableInv'
<1>1. Alone(s) /\ (Begun(s) \/ Written(s) \/ Decide(s) \/ Moderate(s))
  BY StepKinds
<1>2. Created' /\ OnFile \subseteq OnFile'
  BY <1>1, CreatedKept, OnFileKept DEF ReliableInv
<1>3. ASSUME Moderate(s), req[s].status \in Reviewable PROVE req[s].job \in OnFile'
  <2>1. req[s] \in Request /\ req[s].job \in Jobs
    BY <1>3 DEF Moderate, At, IInv, TypeOK, RequestsSound, RequestSound
  <2>2. req'[s].step = "record" /\ req'[s].job = req[s].job /\ req'[s].status = req[s].status
    BY <1>3, <2>1 DEF Moderate, IInv, TypeOK, Request
  <2> QED
    BY <1>3, <2>1, <2>2 DEF OnFile, At
<1>4. PICK G, H : G = OnFile /\ H = OnFile'
  OBVIOUS
<1>5. G \subseteq H /\ Covered(G)
  BY <1>2, <1>4 DEF ReliableInv
<1>6. /\ \A j \in Jobs : job'[j].status \in Reviewable => j \in H
      /\ \A t \in Requests : RequestCovered(req'[t], H)
  BY <1>1, <1>3, <1>4, <1>5, CoverKept
<1> QED
  BY <1>2, <1>4, <1>6 DEF ReliableInv, Covered

LEMMA ReliableSays == IInv /\ ReliableInv => ShownIsOnRecord
BY DEF ReliableInv, Covered, OnFile, ShownIsOnRecord, Published, Reviewable

-----------------------------------------------------------------------------
RunInv ==
  /\ IInv
  /\ load = "reliable" => ReliableInv

LEMMA RunInit == MCInit => RunInv
<1> SUFFICES ASSUME MCInit PROVE RunInv
  OBVIOUS
<1>1. Init /\ IInv
  BY InitIInv DEF MCInit
<1>2. \A s \in Requests : req[s] = Idle
  BY <1>1 DEF Init
<1>3. \A j \in Jobs : job[j].status = "none"
  BY <1>1 DEF Init
<1>4. \A G : Covered(G)
  BY <1>2, <1>3 DEF Covered, RequestCovered, Idle, Reviewable
<1>5. Created
  BY <1>2 DEF Created, At, Idle, JobSteps
<1> QED
  BY <1>1, <1>4, <1>5 DEF RunInv, ReliableInv

LEMMA RunNext == RunInv /\ [MCNext]_<<vars, load>> => RunInv'
<1> SUFFICES ASSUME RunInv, [MCNext]_<<vars, load>> PROVE RunInv'
  OBVIOUS
<1>1. CASE UNCHANGED <<vars, load>>
  <2>1. IInv'
    BY <1>1, StepIInv DEF RunInv
  <2> USE <1>1 DEF vars, observed
  <2>2. ReliableInv => ReliableInv'
    BY DEF ReliableInv, Created, Covered, RequestCovered, OnFile, At
  <2> QED
    BY <2>1, <2>2 DEF RunInv
<1>2. CASE MCNext
  <2>1. PICK s \in Acting : \/ RecruiterStep(s) \/ AdminStep(s) \/ CleanupStep(s)
                            \/ (load # "reliable" \/ Refused(s)) /\ Abandon(s)
    BY <1>2 DEF MCNext, MCStep
  <2>2. s \in Requests /\ JobStep(s) /\ UNCHANGED load
    BY <1>2, <2>1 DEF Acting, JobStep, MCNext
  <2>3. IInv'
    BY <2>2, StepIInv DEF RunInv, JobStep, Next
  <2>4. CASE load = "reliable"
    <3>1. At(s, "record") => RecordHistory(s) \/ Refused(s)
      <4>1. RecruiterStep(s) \/ AdminStep(s) \/ CleanupStep(s) \/ Refused(s)
        BY <2>1, <2>4
      <4>2. At(s, "record") => ~RecruiterStep(s) /\ ~CleanupStep(s)
        BY DEF RecruiterStep, CleanupStep, BeginPost, BeginDuplicate, BeginUpdate, BeginLifecycle,
               BeginArchive, BeginDelete, CreateJob, Decide, SaveStatus, ArchiveJob, DeleteJob,
               BeginExpire, ExpireJob, Accept, At
      <4>3. At(s, "record") /\ AdminStep(s) => RecordHistory(s)
        BY DEF AdminStep, BeginModerate, BeginModeratorDelete, Moderate, BeginSetCompany,
               SetCompany, BeginSuspend, SuspendCompany, BeginUnsuspend, UnsuspendCompany,
               BeginDeleteCompany, DeleteCompany, Accept, At
      <4> QED
        BY <4>1, <4>2, <4>3
    <3> QED
      BY <2>2, <2>3, <2>4, <3>1, ReliableNext DEF RunInv
  <2> QED
    BY <2>2, <2>3, <2>4 DEF RunInv
<1> QED
  BY <1>1, <1>2

LEMMA RunAlways == MCSpec => []RunInv
BY RunInit, RunNext, PTL DEF MCSpec

\* While handlers that are let through complete, a job on the board has an
\* approving or pausing row in JobStatusHistory, or moderateJob is about to
\* write it: however many requests overlap, and whatever recruiters, suspensions
\* and the clean-up write over what moderateJob wrote.
THEOREM ShownJobsOnRecord == MCSpec => []ReliableShownIsOnRecord
<1>1. RunInv => ReliableShownIsOnRecord
  BY ReliableSays DEF RunInv, ReliableShownIsOnRecord
<1> QED
  BY RunAlways, <1>1, PTL
=============================================================================
