------------------------- MODULE ApplicationPipeline -------------------------
(***************************************************************************)
(* The life of one candidate's application to one job posting, as the      *)
(* candidate service (applyToJob, withdrawApplication) and the recruiter   *)
(* service (progressApplicant, scheduleInterview, releaseOffer) move it.   *)
(*                                                                         *)
(* Every Prisma call of a handler is awaited and commits on its own, so a  *)
(* handler is a small process: it reads the row, decides on what it read,  *)
(* and writes later, without any condition on the row it writes.  Between  *)
(* two of its steps the handlers of other requests run.  A request whose   *)
(* guards fail changes nothing and is not modelled as a step.              *)
(*                                                                         *)
(* No handler touches the rows of two (candidate, job) pairs, so the       *)
(* module is about one pair.  The schema has no uniqueness constraint on   *)
(* the pair: several rows may exist for it.                                *)
(***************************************************************************)
EXTENDS Naturals, Sequences, FiniteSets

CONSTANTS
  AppIds,             \* primary keys an Application row may get
  LetterFiles,        \* names an uploaded offer letter may get (never reused)
  CandidateRequests,  \* requests of the candidate in flight at once
  RecruiterRequests,  \* requests of the company's recruiters in flight at once
  None,               \* SQL NULL, or no row
  MaxHistory,         \* bound: status changes of one row
  MaxInterviews       \* bound: Interview rows of one application

Statuses == {"Applied", "Reviewed", "Shortlisted", "InterviewScheduled",
             "OfferReleased", "Hired", "Rejected", "Withdrawn"}

ASSUME PipelineAssumption ==
  /\ None \notin AppIds \cup LetterFiles \cup Statuses
  /\ IsFiniteSet(CandidateRequests)
  /\ MaxHistory \in Nat
  /\ MaxInterviews \in Nat

VARIABLES
  jobExists,   \* the posting has not been deleted
  status,      \* Application.status of each row, None where there is no row
  offer,       \* offerDetails and offerReleasedAt are set
  letter,      \* offerLetterPublicId
  interviews,  \* number of Interview rows of the application
  history,     \* ApplicationStatusHistory of the row, oldest first
  files,       \* offer letters on the disk
  req          \* what each request in flight has still to do

vars == <<jobExists, status, offer, letter, interviews, history, files, req>>
rowVars == <<jobExists, status, offer, letter, interviews, history>>

Requests == CandidateRequests \cup RecruiterRequests

-----------------------------------------------------------------------------
(* The transition rules: pure functions of the status a handler has read.  *)

Terminal == {"Hired", "Rejected", "Withdrawn"}

PipelineOrder == <<"Applied", "Reviewed", "Shortlisted", "InterviewScheduled",
                   "OfferReleased", "Hired">>

\* The stages after st in the pipeline; none for Rejected and Withdrawn.
LaterStages(st) ==
  {PipelineOrder[j] : j \in {k \in 1..6 : \E i \in 1..6 :
                                i < k /\ PipelineOrder[i] = st}}

\* Mutated forms: Hired reachable from every stage; a stage may be revisited;
\* an offer may be released again.
TransitionsWithoutHiredGuard(st) ==
  IF st \in Terminal THEN {} ELSE LaterStages(st) \cup {"Rejected"}
TransitionsBackward(st) ==
  IF st \in Terminal THEN {} ELSE {"Applied", "Reviewed", "OfferReleased", "Rejected"}
AllowedTransitions(st) ==
  IF st \in Terminal THEN {}
  ELSE {stage \in LaterStages(st) :
          stage = "Hired" => st \in {"InterviewScheduled", "OfferReleased"}}
       \cup (IF st = "InterviewScheduled" THEN {st} ELSE {})
       \cup {"Rejected"}

StructuredStatuses == {"InterviewScheduled", "OfferReleased"}

\* What the body of PUT /applications/:id/status may ask for.
ProgressTargets == {"Applied", "Reviewed", "Shortlisted", "Hired", "Rejected"}

NonWithdrawable == {"OfferReleased", "Hired", "Rejected", "Withdrawn"}

-----------------------------------------------------------------------------
(* Rows and requests.                                                      *)

Rows == {a \in AppIds : status[a] # None}

Steps == {"idle", "create", "clearInterviews", "reopen", "withdraw",
          "progress", "createInterview", "markScheduled",
          "deleteLetter", "uploadLetter", "recordOffer"}

Request == [step   : Steps,
            app    : AppIds \cup {None},
            target : Statuses \cup {None},      \* status the handler will write
            letter : LetterFiles \cup {None}]   \* offerLetterPublicId as read

Idle == [step |-> "idle", app |-> None, target |-> None, letter |-> None]

\* Request s was accepted and goes on at the named step.
Accept(s, step, a, st, file) ==
  /\ req[s].step = "idle"
  /\ req' = [req EXCEPT ![s] =
               [step |-> step, app |-> a, target |-> st, letter |-> file]]

At(s, step) == req[s].step = step

Continue(s, step) == req' = [req EXCEPT ![s].step = step]

Respond(s) == req' = [req EXCEPT ![s] = Idle]

\* Mutated form: the history entry is forgotten.
SetStatusWithoutHistory(a, st) ==
  /\ status' = [status EXCEPT ![a] = st]
  /\ UNCHANGED history

\* One update of a row: the status with its nested history entry.  It fails
\* when the row is gone.
SetStatus(a, st) ==
  /\ Len(history[a]) < MaxHistory
  /\ status' = [status EXCEPT ![a] = st]
  /\ history' = [history EXCEPT ![a] = Append(@, st)]

-----------------------------------------------------------------------------
(* The candidate: applyToJob, withdrawApplication.                         *)

\* Mutated form: the lookup skips withdrawn applications.
LiveApplications == {a \in Rows : status[a] # "Withdrawn"}

\* The rows findFirst may return.
ExistingApplications == Rows

BeginApply(s) ==
  /\ jobExists
  /\ \/ /\ ExistingApplications = {}
        /\ Accept(s, "create", None, None, None)
     \/ \E a \in ExistingApplications :
          /\ status[a] = "Withdrawn"
          /\ Accept(s, "clearInterviews", a, None, None)
  /\ UNCHANGED <<rowVars, files>>

CreateApplication(s) ==
  /\ At(s, "create")
  /\ jobExists
  /\ \E a \in AppIds \ Rows : SetStatus(a, "Applied")
  /\ Respond(s)
  /\ UNCHANGED <<jobExists, offer, letter, interviews, files>>

ClearInterviews(s) ==
  /\ At(s, "clearInterviews")
  /\ interviews' = [interviews EXCEPT ![req[s].app] = 0]
  /\ Continue(s, "reopen")
  /\ UNCHANGED <<jobExists, status, offer, letter, history, files>>

Reopen(s) ==
  /\ At(s, "reopen")
  /\ LET a == req[s].app IN
       /\ a \in Rows
       /\ SetStatus(a, "Applied")
       /\ offer' = [offer EXCEPT ![a] = FALSE]
       /\ letter' = [letter EXCEPT ![a] = None]
  /\ Respond(s)
  /\ UNCHANGED <<jobExists, interviews, files>>

BeginWithdraw(s, a) ==
  /\ status[a] \notin NonWithdrawable
  /\ Accept(s, "withdraw", a, "Withdrawn", None)
  /\ UNCHANGED <<rowVars, files>>

Withdraw(s) ==
  /\ At(s, "withdraw")
  /\ req[s].app \in Rows
  /\ SetStatus(req[s].app, "Withdrawn")
  /\ Respond(s)
  /\ UNCHANGED <<jobExists, offer, letter, interviews, files>>

-----------------------------------------------------------------------------
(* The recruiters: progressApplicant, scheduleInterview, releaseOffer,     *)
(* deleteJob.                                                              *)

BeginProgress(s, a, target) ==
  /\ status[a] \notin Terminal
  /\ target \notin StructuredStatuses
  /\ target = status[a] \/ target \in AllowedTransitions(status[a])
  /\ Accept(s, "progress", a, target, None)
  /\ UNCHANGED <<rowVars, files>>

Progress(s) ==
  /\ At(s, "progress")
  /\ req[s].app \in Rows
  /\ SetStatus(req[s].app, req[s].target)
  /\ Respond(s)
  /\ UNCHANGED <<jobExists, offer, letter, interviews, files>>

BeginSchedule(s, a) ==
  /\ status[a] \notin Terminal
  /\ "InterviewScheduled" \in AllowedTransitions(status[a])
  /\ Accept(s, "createInterview", a, "InterviewScheduled", None)
  /\ UNCHANGED <<rowVars, files>>

CreateInterview(s) ==
  /\ At(s, "createInterview")
  /\ LET a == req[s].app IN
       /\ a \in Rows
       /\ interviews[a] < MaxInterviews
       /\ interviews' = [interviews EXCEPT ![a] = @ + 1]
  /\ Continue(s, "markScheduled")
  /\ UNCHANGED <<jobExists, status, offer, letter, history, files>>

MarkScheduled(s) ==
  /\ At(s, "markScheduled")
  /\ req[s].app \in Rows
  /\ SetStatus(req[s].app, "InterviewScheduled")
  /\ Respond(s)
  /\ UNCHANGED <<jobExists, offer, letter, interviews, files>>

\* The offer letter is optional; without one the request goes straight to
\* the update.
BeginOffer(s, a) ==
  /\ status[a] \notin Terminal
  /\ "OfferReleased" \in AllowedTransitions(status[a])
  /\ \E next \in {"deleteLetter", "recordOffer"} :
       Accept(s, next, a, "OfferReleased", letter[a])
  /\ UNCHANGED <<rowVars, files>>

\* replaceFile first deletes the old letter; a failure to delete is ignored.
DeleteOldLetter(s) ==
  /\ At(s, "deleteLetter")
  /\ files' \in {files, files \ {req[s].letter}}
  /\ Continue(s, "uploadLetter")
  /\ UNCHANGED rowVars

UploadLetter(s) ==
  /\ At(s, "uploadLetter")
  /\ \E f \in LetterFiles \ files :
       /\ \A a \in AppIds : letter[a] # f
       /\ \A t \in Requests : req[t].letter # f
       /\ files' = files \cup {f}
       /\ req' = [req EXCEPT ![s].step = "recordOffer", ![s].letter = f]
  /\ UNCHANGED rowVars

RecordOffer(s) ==
  /\ At(s, "recordOffer")
  /\ LET a == req[s].app IN
       /\ a \in Rows
       /\ SetStatus(a, "OfferReleased")
       /\ offer' = [offer EXCEPT ![a] = TRUE]
       /\ letter' = [letter EXCEPT ![a] = req[s].letter]
  /\ Respond(s)
  /\ UNCHANGED <<jobExists, interviews, files>>

\* Deleting the posting cascades to its applications, their interviews and
\* their histories; the letters stay on the disk.
DeleteJob ==
  /\ jobExists
  /\ jobExists' = FALSE
  /\ status' = [a \in AppIds |-> None]
  /\ offer' = [a \in AppIds |-> FALSE]
  /\ letter' = [a \in AppIds |-> None]
  /\ interviews' = [a \in AppIds |-> 0]
  /\ history' = [a \in AppIds |-> <<>>]
  /\ UNCHANGED <<files, req>>

\* A handler throws: the database or the disk refuses a step, the row is
\* gone, or the process dies.  What the handler wrote before stays.
Fail(s) ==
  /\ ~At(s, "idle")
  /\ Respond(s)
  /\ UNCHANGED <<rowVars, files>>

-----------------------------------------------------------------------------
Init ==
  /\ jobExists = TRUE
  /\ status = [a \in AppIds |-> None]
  /\ offer = [a \in AppIds |-> FALSE]
  /\ letter = [a \in AppIds |-> None]
  /\ interviews = [a \in AppIds |-> 0]
  /\ history = [a \in AppIds |-> <<>>]
  /\ files = {}
  /\ req = [s \in Requests |-> Idle]

CandidateStep(s) ==
  \/ BeginApply(s)
  \/ CreateApplication(s)
  \/ ClearInterviews(s)
  \/ Reopen(s)
  \/ \E a \in Rows : BeginWithdraw(s, a)
  \/ Withdraw(s)

RecruiterStep(s) ==
  \/ \E a \in Rows, target \in ProgressTargets : BeginProgress(s, a, target)
  \/ Progress(s)
  \/ \E a \in Rows : BeginSchedule(s, a)
  \/ CreateInterview(s)
  \/ MarkScheduled(s)
  \/ \E a \in Rows : BeginOffer(s, a)
  \/ DeleteOldLetter(s)
  \/ UploadLetter(s)
  \/ RecordOffer(s)

Next ==
  \/ \E s \in CandidateRequests : CandidateStep(s)
  \/ \E s \in RecruiterRequests : RecruiterStep(s)
  \/ DeleteJob
  \/ \E s \in Requests : Fail(s)

Spec == Init /\ [][Next]_vars

-----------------------------------------------------------------------------
(* Properties.                                                             *)

\* Every row, interview count, history, letter and request in flight has the
\* shape the handlers expect (one type invariant for the module).
TypeOK ==
  /\ jobExists \in BOOLEAN
  /\ status \in [AppIds -> Statuses \cup {None}]
  /\ offer \in [AppIds -> BOOLEAN]
  /\ letter \in [AppIds -> LetterFiles \cup {None}]
  /\ interviews \in [AppIds -> 0..MaxInterviews]
  /\ history \in [AppIds -> Seq(Statuses)]
  /\ files \subseteq LetterFiles
  /\ req \in [Requests -> Request]

\* The last entry of an application's history is its status, whichever
\* handlers interleave: the timeline shown to the candidate never disagrees
\* with the row (the nested history create of every update).
HistoryTracksStatus ==
  \A a \in Rows : /\ history[a] # <<>>
                  /\ history[a][Len(history[a])] = status[a]

\* An application marked OfferReleased carries offer details, even when a
\* reapplication, which clears them, or another offer races with it.
OfferBacked ==
  \A a \in AppIds : status[a] = "OfferReleased" => offer[a]

\* Nobody is Hired out of nowhere: before each Hired of a history there is an
\* interview or an offer in it, although progressApplicant writes Hired on
\* the strength of a status it read earlier (getAllowedTransitions).
HiredWasConsidered ==
  \A a \in AppIds : \A i \in DOMAIN history[a] :
    history[a][i] = "Hired" =>
      \E j \in 1..(i - 1) : history[a][j] \in StructuredStatuses

\* The lookup of applyToJob keeps the rows down to the submissions that can
\* overlap: once there is a row, of whatever status, nobody starts another,
\* though applications are withdrawn, reopened and rejected meanwhile.
ApplicationsBounded ==
  Cardinality(Rows) <= Cardinality(CandidateRequests)

\* What HiringProcess promises, of the pair's row.
Process == INSTANCE HiringProcess WITH
  open <- jobExists,
  stage <- IF Rows = {} THEN "None" ELSE status[CHOOSE a \in Rows : TRUE]
=============================================================================
