---------------------- MODULE ApplicationPipelineProofs ----------------------
(***************************************************************************)
(* Proofs about ApplicationPipeline for every set of rows, letters and     *)
(* overlapping requests, and every bound, and about the loads of its MC    *)
(* module.                                                                 *)
(*                                                                         *)
(* IInv, the inductive invariant, adds to the properties what a request in *)
(* flight may rely on: it writes only what its validator lets through, its *)
(* row still exists unless the posting was deleted, and a request about to *)
(* write Hired has seen an interview or an offer.                          *)
(***************************************************************************)
EXTENDS MCApplicationPipeline, FiniteSetTheorems, TLAPS

\* A generic status change writes only what the body schema lets through.
TargetsValid ==
  \A s \in Requests : req[s].step = "progress" => req[s].target \in ProgressTargets

\* Rows disappear only with the posting, so a request keeps its row until then.
RequestsAnchored ==
  \A s \in Requests :
    req[s].step \notin {"idle", "create"} =>
      /\ req[s].app \in AppIds
      /\ jobExists => req[s].app \in Rows

RowsNeedJob == Rows # {} => jobExists

\* A request about to write Hired was allowed to because its row had been in
\* InterviewScheduled or OfferReleased.
HiredRequestsConsidered ==
  \A s \in Requests :
    jobExists /\ req[s].step = "progress" /\ req[s].target = "Hired" =>
      \E j \in DOMAIN history[req[s].app] :
        history[req[s].app][j] \in StructuredStatuses

IInv ==
  /\ TypeOK
  /\ TargetsValid
  /\ RequestsAnchored
  /\ RowsNeedJob
  /\ HistoryTracksStatus
  /\ OfferBacked
  /\ HiredRequestsConsidered
  /\ HiredWasConsidered

-----------------------------------------------------------------------------
(* What the helpers of the model do to the rows.                           *)

LEMMA LaterStagesAreStatuses ==
  ASSUME NEW st
  PROVE  LaterStages(st) \subseteq Statuses
<1>1. \A k \in 1..6 : PipelineOrder[k] \in Statuses
  BY DEF PipelineOrder, Statuses
<1>2. QED
  BY <1>1 DEF LaterStages

\* Only an interview or an offer leads to Hired.
LEMMA HiredOnlyAfterStructured ==
  ASSUME NEW st, "Hired" \in AllowedTransitions(st)
  PROVE  st \in StructuredStatuses
BY DEF AllowedTransitions, StructuredStatuses, Terminal

\* One update of a row keeps the types and leaves the other rows alone; the
\* row's history is the old one with the new status behind it.
LEMMA SetStatusEffect ==
  ASSUME TypeOK, NEW a \in AppIds, NEW st \in Statuses, SetStatus(a, st)
  PROVE  /\ status' \in [AppIds -> Statuses \cup {None}]
         /\ history' \in [AppIds -> Seq(Statuses)]
         /\ status'[a] = st
         /\ \A b \in AppIds \ {a} : status'[b] = status[b] /\ history'[b] = history[b]
         /\ Len(history'[a]) = Len(history[a]) + 1
         /\ history'[a][Len(history'[a])] = st
         /\ \A i \in DOMAIN history[a] : i \in DOMAIN history'[a]
                                         /\ history'[a][i] = history[a][i]
         /\ \A i \in DOMAIN history'[a] : i \in DOMAIN history[a]
                                          \/ i = Len(history'[a])
         /\ Rows' = Rows \cup {a}
<1>1. /\ history[a] \in Seq(Statuses)
      /\ history'[a] = Append(history[a], st)
      /\ status'[a] = st
      /\ \A b \in AppIds \ {a} : status'[b] = status[b] /\ history'[b] = history[b]
  BY DEF TypeOK, SetStatus
<1>2. /\ status' \in [AppIds -> Statuses \cup {None}]
      /\ history' \in [AppIds -> Seq(Statuses)]
  BY <1>1 DEF TypeOK, SetStatus
<1>3. Rows' = Rows \cup {a}
  BY <1>1, <1>2, PipelineAssumption DEF Rows, Statuses
<1>4. /\ Len(history'[a]) = Len(history[a]) + 1
      /\ history'[a][Len(history'[a])] = st
      /\ DOMAIN history[a] = 1..Len(history[a])
      /\ DOMAIN history'[a] = 1..(Len(history[a]) + 1)
      /\ \A i \in 1..Len(history[a]) : history'[a][i] = history[a][i]
      /\ Len(history[a]) \in Nat
  BY <1>1
<1>5. QED
  BY <1>1, <1>2, <1>3, <1>4

-----------------------------------------------------------------------------
(* Steps that leave the statuses and histories alone.                      *)

\* What such a step must show about the requests for IInv to survive it.
LEMMA QuietStep ==
  ASSUME IInv, TypeOK',
         UNCHANGED <<jobExists, status, offer, history>>,
         NEW s \in Requests,
         \A t \in Requests \ {s} : req'[t] = req[t],
         \/ req'[s] = Idle
         \/ /\ req'[s].app = req[s].app /\ req'[s].target = req[s].target
            /\ req'[s].step # "progress"
            /\ req[s].step \notin {"idle", "create"}
         \/ req'[s].step = "create"
         \/ /\ req'[s].app \in Rows
            /\ req'[s].step = "progress" =>
                 /\ req'[s].target \in ProgressTargets
                 /\ req'[s].target = "Hired" =>
                      status[req'[s].app] \in StructuredStatuses
  PROVE  IInv'
<1>1. Rows' = Rows
  BY DEF Rows
<1>2. TargetsValid'
  BY DEF IInv, TargetsValid, Idle
<1>3. RequestsAnchored'
  BY <1>1 DEF IInv, RequestsAnchored, Idle, Rows
<1>4. /\ RowsNeedJob'
      /\ HistoryTracksStatus'
      /\ OfferBacked'
      /\ HiredWasConsidered'
  BY <1>1 DEF IInv, RowsNeedJob, HistoryTracksStatus, OfferBacked, HiredWasConsidered
<1>5. HiredRequestsConsidered'
  <2> SUFFICES ASSUME NEW t \in Requests,
                      jobExists', req'[t].step = "progress", req'[t].target = "Hired"
               PROVE  \E j \in DOMAIN history'[req'[t].app] :
                        history'[req'[t].app][j] \in StructuredStatuses
    BY DEF HiredRequestsConsidered
  <2>1. CASE t # s
    BY <2>1 DEF IInv, HiredRequestsConsidered
  <2>2. CASE t = s
    <3>1. req'[s].app \in Rows /\ status[req'[s].app] \in StructuredStatuses
      BY <2>2 DEF Idle
    <3>2. /\ history[req'[s].app] \in Seq(Statuses)
          /\ history[req'[s].app] # <<>>
          /\ history[req'[s].app][Len(history[req'[s].app])]
               = status[req'[s].app]
      BY <3>1 DEF IInv, TypeOK, HistoryTracksStatus, Rows
    <3>3. Len(history[req'[s].app]) \in DOMAIN history[req'[s].app]
      BY <3>2
    <3>4. QED
      BY <2>2, <3>1, <3>2, <3>3
  <2>3. QED
    BY <2>1, <2>2
<1>6. QED
  BY <1>2, <1>3, <1>4, <1>5 DEF IInv

-----------------------------------------------------------------------------
(* Steps that write a status.                                              *)

\* A status change that keeps Hired behind an interview or an offer keeps the
\* whole history so.
LEMMA HiredKeepsItsReason ==
  ASSUME TypeOK, HiredWasConsidered, NEW a \in AppIds, NEW st \in Statuses,
         SetStatus(a, st),
         st = "Hired" => \E j \in DOMAIN history[a] :
                           history[a][j] \in StructuredStatuses
  PROVE  HiredWasConsidered'
<1>1. /\ \A b \in AppIds \ {a} : history'[b] = history[b]
      /\ \A i \in DOMAIN history[a] : history'[a][i] = history[a][i]
      /\ \A i \in DOMAIN history'[a] : i \in DOMAIN history[a]
                                       \/ i = Len(history[a]) + 1
      /\ history'[a][Len(history[a]) + 1] = st
  BY SetStatusEffect
<1>2. \A b \in AppIds : DOMAIN history[b] = 1..Len(history[b])
                        /\ Len(history[b]) \in Nat
  BY DEF TypeOK
<1> SUFFICES ASSUME NEW b \in AppIds, NEW i \in DOMAIN history'[b],
                    history'[b][i] = "Hired"
             PROVE  \E j \in 1..(i - 1) : history'[b][j] \in StructuredStatuses
  BY DEF HiredWasConsidered
<1>3. CASE b # a
  <2>1. history'[b] = history[b]
    BY <1>1, <1>3
  <2>2. QED
    BY <2>1 DEF HiredWasConsidered
<1>4. CASE b = a /\ i \in DOMAIN history[a]
  <2>1. PICK j \in 1..(i - 1) : history[a][j] \in StructuredStatuses
    BY <1>1, <1>4 DEF HiredWasConsidered
  <2>2. j \in DOMAIN history[a]
    BY <1>2, <1>4, <2>1
  <2>3. QED
    BY <1>1, <1>4, <2>1, <2>2
<1>5. CASE b = a /\ i \notin DOMAIN history[a]
  <2>1. i = Len(history[a]) + 1 /\ st = "Hired"
    BY <1>1, <1>5
  <2>2. PICK j \in DOMAIN history[a] : history[a][j] \in StructuredStatuses
    BY <2>1
  <2>3. j \in 1..(i - 1)
    BY <1>2, <2>1, <2>2
  <2>4. QED
    BY <1>1, <1>5, <2>2, <2>3
<1>6. QED
  BY <1>3, <1>4, <1>5

\* A write of st into row a by request s, which then answers, keeps IInv when
\* an offer comes with OfferReleased and Hired was considered.
LEMMA WritingStep ==
  ASSUME IInv, TypeOK', jobExists, jobExists' = jobExists,
         NEW s \in Requests, NEW a \in AppIds, NEW st \in Statuses,
         SetStatus(a, st),
         Respond(s),
         \A b \in AppIds \ {a} : offer'[b] = offer[b],
         st = "OfferReleased" => offer'[a],
         st = "Hired" => \E j \in DOMAIN history[a] :
                           history[a][j] \in StructuredStatuses
  PROVE  IInv'
<1> USE SetStatusEffect DEF IInv
<1>1. /\ req'[s] = Idle
      /\ \A t \in Requests \ {s} : req'[t] = req[t]
  BY DEF TypeOK, Respond
<1>2. TargetsValid'
  BY <1>1 DEF TargetsValid, Idle
<1>3. RequestsAnchored'
  BY <1>1 DEF RequestsAnchored, Idle
<1>4. RowsNeedJob'
  BY DEF RowsNeedJob
<1>5. HistoryTracksStatus'
  <2> SUFFICES ASSUME NEW b \in Rows'
               PROVE  /\ history'[b] # <<>>
                      /\ history'[b][Len(history'[b])] = status'[b]
    BY DEF HistoryTracksStatus
  <2>1. CASE b = a
    <3>1. history[a] \in Seq(Statuses)
      BY DEF TypeOK
    <3>2. QED
      BY <2>1, <3>1
  <2>2. CASE b # a
    BY <2>2 DEF HistoryTracksStatus, Rows
  <2>3. QED
    BY <2>1, <2>2
<1>6. OfferBacked'
  BY DEF OfferBacked
<1>7. HiredRequestsConsidered'
  <2> SUFFICES ASSUME NEW t \in Requests,
                      req'[t].step = "progress", req'[t].target = "Hired"
               PROVE  \E j \in DOMAIN history'[req'[t].app] :
                        history'[req'[t].app][j] \in StructuredStatuses
    BY DEF HiredRequestsConsidered
  <2>1. t # s /\ req'[t] = req[t]
    BY <1>1 DEF Idle
  <2>2. PICK j \in DOMAIN history[req[t].app] :
          history[req[t].app][j] \in StructuredStatuses
    BY <2>1 DEF HiredRequestsConsidered
  <2>3. req[t].app \in AppIds
    BY <2>1 DEF RequestsAnchored
  <2>4. /\ j \in DOMAIN history'[req[t].app]
        /\ history'[req[t].app][j] = history[req[t].app][j]
    BY <2>2, <2>3
  <2>5. QED
    BY <2>1, <2>2, <2>4
<1>8. HiredWasConsidered'
  BY HiredKeepsItsReason
<1>9. QED
  BY <1>2, <1>3, <1>4, <1>5, <1>6, <1>7, <1>8

-----------------------------------------------------------------------------
(* Every step keeps the types.                                             *)

\* An accepted request holds what the handler read; the others are untouched.
LEMMA AcceptEffect ==
  ASSUME TypeOK, NEW s \in Requests, NEW step, NEW a, NEW st, NEW file,
         Accept(s, step, a, st, file)
  PROVE  /\ req'[s] = [step |-> step, app |-> a, target |-> st, letter |-> file]
         /\ req'[s].step = step /\ req'[s].app = a /\ req'[s].target = st
         /\ \A t \in Requests \ {s} : req'[t] = req[t]
BY DEF TypeOK, Accept

\* A request accepted with well-typed fields keeps req well typed.
LEMMA AcceptTyped ==
  ASSUME TypeOK, NEW s \in Requests, NEW step \in Steps,
         NEW a \in AppIds \cup {None}, NEW st \in Statuses \cup {None},
         NEW file \in LetterFiles \cup {None}, Accept(s, step, a, st, file)
  PROVE  /\ req' \in [Requests -> Request]
         /\ req'[s] = [step |-> step, app |-> a, target |-> st, letter |-> file]
         /\ \A t \in Requests \ {s} : req'[t] = req[t]
BY DEF TypeOK, Accept, Request

LEMMA RespondTyped ==
  ASSUME TypeOK, NEW s \in Requests, Respond(s)
  PROVE  /\ req' \in [Requests -> Request]
         /\ req'[s] = Idle
         /\ \A t \in Requests \ {s} : req'[t] = req[t]
BY DEF TypeOK, Respond, Idle, Request, Steps

LEMMA ContinueTyped ==
  ASSUME TypeOK, NEW s \in Requests, NEW step \in Steps, Continue(s, step)
  PROVE  /\ req' \in [Requests -> Request]
         /\ req'[s].step = step
         /\ req'[s].app = req[s].app
         /\ req'[s].target = req[s].target
         /\ \A t \in Requests \ {s} : req'[t] = req[t]
BY DEF TypeOK, Continue, Request

LEMMA CandidateStepTyped ==
  ASSUME IInv, NEW s \in CandidateRequests, CandidateStep(s)
  PROVE  TypeOK'
<1> USE DEF IInv
<1>0. s \in Requests
  BY DEF Requests
<1>1. CASE BeginApply(s)
  <2>1. CASE Accept(s, "create", None, None, None)
    BY <1>0, <1>1, <2>1, AcceptTyped DEF TypeOK, BeginApply, rowVars, Steps
  <2>2. CASE \E a \in ExistingApplications : Accept(s, "clearInterviews", a, None, None)
    BY <1>0, <1>1, <2>2, AcceptTyped
       DEF TypeOK, BeginApply, rowVars, Steps, ExistingApplications, Rows
  <2>3. QED
    BY <1>1, <2>1, <2>2 DEF BeginApply
<1>2. CASE CreateApplication(s)
  <2>1. PICK a \in AppIds : SetStatus(a, "Applied")
    BY <1>2 DEF CreateApplication
  <2>2. QED
    BY <1>0, <1>2, <2>1, SetStatusEffect, RespondTyped
       DEF TypeOK, CreateApplication, Statuses
<1>3. CASE ClearInterviews(s)
  <2>1. 0 \in 0..MaxInterviews
    BY PipelineAssumption
  <2>2. interviews' \in [AppIds -> 0..MaxInterviews]
    BY <1>3, <2>1 DEF ClearInterviews, TypeOK
  <2>3. QED
    BY <1>0, <1>3, <2>2, ContinueTyped DEF TypeOK, ClearInterviews, Steps
<1>4. CASE Reopen(s)
  <2>1. req[s].app \in AppIds
    BY <1>4 DEF Reopen, Rows
  <2>2. QED
    BY <1>0, <1>4, <2>1, SetStatusEffect, RespondTyped
       DEF TypeOK, Reopen, Statuses
<1>5. CASE \E a \in Rows : BeginWithdraw(s, a)
  <2>1. PICK a \in Rows : BeginWithdraw(s, a)
    BY <1>5
  <2>2. Accept(s, "withdraw", a, "Withdrawn", None) /\ a \in AppIds
    BY <2>1 DEF BeginWithdraw, Rows
  <2>3. req' \in [Requests -> Request]
    BY <1>0, <2>2, AcceptTyped DEF Steps, Statuses
  <2>4. QED
    BY <2>1, <2>3 DEF TypeOK, BeginWithdraw, rowVars
<1>6. CASE Withdraw(s)
  BY <1>0, <1>6, SetStatusEffect, RespondTyped DEF TypeOK, Withdraw, Statuses, Rows
<1>7. QED
  BY <1>1, <1>2, <1>3, <1>4, <1>5, <1>6 DEF CandidateStep

LEMMA RecruiterStepTyped ==
  ASSUME IInv, NEW s \in RecruiterRequests, RecruiterStep(s)
  PROVE  TypeOK'
<1> USE DEF IInv
<1>0. s \in Requests
  BY DEF Requests
<1>1. CASE \E a \in Rows, target \in ProgressTargets : BeginProgress(s, a, target)
  <2>1. PICK a \in Rows, target \in ProgressTargets : BeginProgress(s, a, target)
    BY <1>1
  <2>2. Accept(s, "progress", a, target, None) /\ a \in AppIds
    BY <2>1 DEF BeginProgress, Rows
  <2>3. req' \in [Requests -> Request]
    BY <1>0, <2>2, AcceptTyped DEF Steps, Statuses, ProgressTargets
  <2>4. QED
    BY <2>1, <2>3 DEF TypeOK, BeginProgress, rowVars
<1>2. CASE Progress(s)
  <2>1. req[s].target \in Statuses /\ req[s].app \in AppIds
    BY <1>0, <1>2 DEF Progress, At, TargetsValid, ProgressTargets, Statuses, Rows
  <2>2. QED
    BY <1>0, <1>2, <2>1, SetStatusEffect, RespondTyped DEF TypeOK, Progress
<1>3. CASE \E a \in Rows : BeginSchedule(s, a)
  <2>1. PICK a \in Rows : BeginSchedule(s, a)
    BY <1>3
  <2>2. Accept(s, "createInterview", a, "InterviewScheduled", None) /\ a \in AppIds
    BY <2>1 DEF BeginSchedule, Rows
  <2>3. req' \in [Requests -> Request]
    BY <1>0, <2>2, AcceptTyped DEF Steps, Statuses
  <2>4. QED
    BY <2>1, <2>3 DEF TypeOK, BeginSchedule, rowVars
<1>4. CASE CreateInterview(s)
  <2>1. interviews' \in [AppIds -> 0..MaxInterviews]
    BY <1>4, PipelineAssumption DEF CreateInterview, TypeOK, Rows
  <2>2. QED
    BY <1>0, <1>4, <2>1, ContinueTyped DEF TypeOK, CreateInterview, Steps
<1>5. CASE MarkScheduled(s)
  BY <1>0, <1>5, SetStatusEffect, RespondTyped DEF TypeOK, MarkScheduled, Statuses, Rows
<1>6. CASE \E a \in Rows : BeginOffer(s, a)
  <2>1. PICK a \in Rows, next \in {"deleteLetter", "recordOffer"} :
          Accept(s, next, a, "OfferReleased", letter[a])
    BY <1>6 DEF BeginOffer
  <2>2. a \in AppIds /\ letter[a] \in LetterFiles \cup {None}
    BY DEF Rows, TypeOK
  <2>3. req' \in [Requests -> Request]
    BY <1>0, <2>1, <2>2, AcceptTyped DEF Steps, Statuses
  <2>4. QED
    BY <1>6, <2>3 DEF TypeOK, BeginOffer, rowVars
<1>7. CASE DeleteOldLetter(s)
  BY <1>0, <1>7, ContinueTyped DEF TypeOK, DeleteOldLetter, rowVars, Steps
<1>8. CASE UploadLetter(s)
  <2>1. PICK f \in LetterFiles :
          /\ files' = files \cup {f}
          /\ req' = [req EXCEPT ![s].step = "recordOffer", ![s].letter = f]
    BY <1>8 DEF UploadLetter
  <2>2. [req[s] EXCEPT !.step = "recordOffer", !.letter = f] \in Request
    BY <1>0 DEF TypeOK, Request, Steps
  <2>3. req' = [req EXCEPT ![s] = [req[s] EXCEPT !.step = "recordOffer", !.letter = f]]
    BY <1>0, <2>1 DEF TypeOK
  <2>4. req' \in [Requests -> Request]
    BY <1>0, <2>2, <2>3 DEF TypeOK
  <2>5. QED
    BY <1>8, <2>1, <2>4 DEF TypeOK, UploadLetter, rowVars
<1>9. CASE RecordOffer(s)
  <2>1. req[s].app \in AppIds /\ req[s].letter \in LetterFiles \cup {None}
    BY <1>0, <1>9 DEF RecordOffer, Rows, TypeOK, Request
  <2>2. QED
    BY <1>0, <1>9, <2>1, SetStatusEffect, RespondTyped
       DEF TypeOK, RecordOffer, Statuses
<1>10. QED
  BY <1>1, <1>2, <1>3, <1>4, <1>5, <1>6, <1>7, <1>8, <1>9 DEF RecruiterStep

-----------------------------------------------------------------------------
(* Every step keeps the inductive invariant.                               *)

LEMMA CandidateStepKeepsIInv ==
  ASSUME IInv, NEW s \in CandidateRequests, CandidateStep(s)
  PROVE  IInv'
<1>0. s \in Requests /\ TypeOK /\ TypeOK'
  BY CandidateStepTyped DEF Requests, IInv
<1>1. CASE BeginApply(s)
  <2>1. CASE Accept(s, "create", None, None, None)
    <3>1. /\ req'[s].step = "create"
          /\ \A t \in Requests \ {s} : req'[t] = req[t]
      BY <1>0, <2>1, AcceptEffect
    <3>2. QED
      BY <1>0, <1>1, <3>1, QuietStep DEF BeginApply, rowVars
  <2>2. CASE \E a \in ExistingApplications : Accept(s, "clearInterviews", a, None, None)
    <3>1. PICK a \in Rows : Accept(s, "clearInterviews", a, None, None)
      BY <2>2 DEF ExistingApplications
    <3>2. req'[s].app \in Rows /\ req'[s].step = "clearInterviews"
      BY <1>0, <3>1, AcceptEffect
    <3>3. \A t \in Requests \ {s} : req'[t] = req[t]
      BY <1>0, <3>1, AcceptEffect
    <3>4. QED
      BY <1>0, <1>1, <3>2, <3>3, QuietStep DEF BeginApply, rowVars
  <2>3. QED
    BY <1>1, <2>1, <2>2 DEF BeginApply
<1>2. CASE CreateApplication(s)
  <2>1. PICK a \in AppIds : SetStatus(a, "Applied")
    BY <1>2 DEF CreateApplication
  <2>2. QED
    BY <1>0, <1>2, <2>1, WritingStep DEF CreateApplication, Statuses
<1>3. CASE ClearInterviews(s)
  BY <1>0, <1>3, ContinueTyped, QuietStep DEF ClearInterviews, Steps, At
<1>4. CASE Reopen(s)
  <2>1. req[s].app \in AppIds /\ jobExists /\ jobExists' = jobExists
    BY <1>4 DEF Reopen, Rows, RowsNeedJob, IInv
  <2>2. \A b \in AppIds \ {req[s].app} : offer'[b] = offer[b]
    BY <1>0, <1>4 DEF Reopen, TypeOK
  <2>3. QED
    BY <1>0, <1>4, <2>1, <2>2, WritingStep DEF Reopen, Statuses
<1>5. CASE \E a \in Rows : BeginWithdraw(s, a)
  <2>1. PICK a \in Rows : BeginWithdraw(s, a)
    BY <1>5
  <2>2. /\ req'[s].app = a /\ req'[s].step = "withdraw"
        /\ \A t \in Requests \ {s} : req'[t] = req[t]
    BY <1>0, <2>1 DEF BeginWithdraw, Accept, TypeOK
  <2>3. QED
    BY <1>0, <2>1, <2>2, QuietStep DEF BeginWithdraw, rowVars
<1>6. CASE Withdraw(s)
  <2>1. req[s].app \in AppIds /\ jobExists /\ jobExists' = jobExists
    BY <1>6 DEF Withdraw, Rows, RowsNeedJob, IInv
  <2>2. QED
    BY <1>0, <1>6, <2>1, WritingStep DEF Withdraw, Statuses
<1>7. QED
  BY <1>1, <1>2, <1>3, <1>4, <1>5, <1>6 DEF CandidateStep

LEMMA RecruiterStepKeepsIInv ==
  ASSUME IInv, NEW s \in RecruiterRequests, RecruiterStep(s)
  PROVE  IInv'
<1>0. s \in Requests /\ TypeOK /\ TypeOK'
  BY RecruiterStepTyped DEF Requests, IInv
<1>1. CASE \E a \in Rows, target \in ProgressTargets : BeginProgress(s, a, target)
  <2>1. PICK a \in Rows, target \in ProgressTargets : BeginProgress(s, a, target)
    BY <1>1
  <2>2. /\ req'[s].app = a /\ req'[s].step = "progress" /\ req'[s].target = target
        /\ \A t \in Requests \ {s} : req'[t] = req[t]
    BY <1>0, <2>1 DEF BeginProgress, Accept, TypeOK
  <2>3. target = "Hired" => status[a] \in StructuredStatuses
    BY <2>1, HiredOnlyAfterStructured DEF BeginProgress, Terminal
  <2>4. QED
    BY <1>0, <2>1, <2>2, <2>3, QuietStep DEF BeginProgress, rowVars
<1>2. CASE Progress(s)
  <2>1. /\ req[s].app \in AppIds /\ jobExists /\ jobExists' = jobExists
        /\ req[s].target \in ProgressTargets
    BY <1>0, <1>2 DEF Progress, At, Rows, RowsNeedJob, TargetsValid, IInv
  <2>2. req[s].target = "Hired" => \E j \in DOMAIN history[req[s].app] :
                                     history[req[s].app][j] \in StructuredStatuses
    BY <1>0, <1>2, <2>1 DEF Progress, At, HiredRequestsConsidered, IInv
  <2>3. QED
    BY <1>0, <1>2, <2>1, <2>2, WritingStep DEF Progress, Statuses, ProgressTargets
<1>3. CASE \E a \in Rows : BeginSchedule(s, a)
  <2>1. PICK a \in Rows : BeginSchedule(s, a)
    BY <1>3
  <2>2. /\ req'[s].app = a /\ req'[s].step = "createInterview"
        /\ \A t \in Requests \ {s} : req'[t] = req[t]
    BY <1>0, <2>1 DEF BeginSchedule, Accept, TypeOK
  <2>3. QED
    BY <1>0, <2>1, <2>2, QuietStep DEF BeginSchedule, rowVars
<1>4. CASE CreateInterview(s)
  BY <1>0, <1>4, ContinueTyped, QuietStep DEF CreateInterview, Steps, At
<1>5. CASE MarkScheduled(s)
  <2>1. req[s].app \in AppIds /\ jobExists /\ jobExists' = jobExists
    BY <1>5 DEF MarkScheduled, Rows, RowsNeedJob, IInv
  <2>2. QED
    BY <1>0, <1>5, <2>1, WritingStep DEF MarkScheduled, Statuses
<1>6. CASE \E a \in Rows : BeginOffer(s, a)
  <2>1. PICK a \in Rows, next \in {"deleteLetter", "recordOffer"} :
          /\ BeginOffer(s, a)
          /\ Accept(s, next, a, "OfferReleased", letter[a])
    BY <1>6 DEF BeginOffer
  <2>2. a \in AppIds /\ letter[a] \in LetterFiles \cup {None}
    BY <1>0 DEF Rows, TypeOK
  <2>3. /\ req'[s].app = a /\ req'[s].step = next
        /\ \A t \in Requests \ {s} : req'[t] = req[t]
    BY <1>0, <2>1 DEF Accept, TypeOK
  <2>4. QED
    BY <1>0, <2>1, <2>3, QuietStep DEF BeginOffer, rowVars
<1>7. CASE DeleteOldLetter(s)
  BY <1>0, <1>7, ContinueTyped, QuietStep DEF DeleteOldLetter, rowVars, Steps, At
<1>8. CASE UploadLetter(s)
  <2>1. /\ req[s].step = "uploadLetter" /\ req'[s].step = "recordOffer"
        /\ req'[s].app = req[s].app /\ req'[s].target = req[s].target
        /\ \A t \in Requests \ {s} : req'[t] = req[t]
    BY <1>0, <1>8 DEF UploadLetter, At, TypeOK, Request
  <2>2. QED
    BY <1>0, <1>8, <2>1, QuietStep DEF UploadLetter, rowVars
<1>9. CASE RecordOffer(s)
  <2>1. req[s].app \in AppIds /\ jobExists /\ jobExists' = jobExists
    BY <1>9 DEF RecordOffer, Rows, RowsNeedJob, IInv
  <2>2. /\ offer'[req[s].app]
        /\ \A b \in AppIds \ {req[s].app} : offer'[b] = offer[b]
    BY <1>0, <1>9, <2>1 DEF RecordOffer, TypeOK
  <2>3. QED
    BY <1>0, <1>9, <2>1, <2>2, WritingStep DEF RecordOffer, Statuses
<1>10. QED
  BY <1>1, <1>2, <1>3, <1>4, <1>5, <1>6, <1>7, <1>8, <1>9 DEF RecruiterStep

LEMMA DeleteJobKeepsIInv ==
  ASSUME IInv, DeleteJob
  PROVE  IInv'
<1>1. TypeOK'
  <2>1. interviews' \in [AppIds -> 0..MaxInterviews]
    BY PipelineAssumption DEF DeleteJob
  <2>2. history' \in [AppIds -> Seq(Statuses)]
    BY DEF DeleteJob
  <2>3. QED
    BY <2>1, <2>2 DEF IInv, TypeOK, DeleteJob
<1>2. Rows' = {}
  BY DEF Rows, DeleteJob
<1>3. TargetsValid' /\ RequestsAnchored' /\ HiredRequestsConsidered'
  BY DEF IInv, TargetsValid, RequestsAnchored, HiredRequestsConsidered, DeleteJob
<1>4. RowsNeedJob' /\ HistoryTracksStatus'
  BY <1>2 DEF RowsNeedJob, HistoryTracksStatus
<1>5. OfferBacked' /\ HiredWasConsidered'
  BY PipelineAssumption DEF OfferBacked, HiredWasConsidered, DeleteJob, Statuses
<1>6. QED
  BY <1>1, <1>3, <1>4, <1>5 DEF IInv

LEMMA FailKeepsIInv ==
  ASSUME IInv, NEW s \in Requests, Fail(s)
  PROVE  IInv'
<1>1. TypeOK
  BY DEF IInv
<1>2. /\ req' \in [Requests -> Request]
      /\ req'[s] = Idle
      /\ \A t \in Requests \ {s} : req'[t] = req[t]
  BY <1>1, RespondTyped DEF Fail
<1>3. TypeOK'
  BY <1>1, <1>2 DEF TypeOK, Fail, rowVars
<1>4. QED
  BY <1>2, <1>3, QuietStep DEF Fail, rowVars

LEMMA InitIInv == Init => IInv
<1> SUFFICES ASSUME Init PROVE IInv
  OBVIOUS
<1>1. TypeOK
  BY PipelineAssumption DEF Init, TypeOK, Idle, Request, Steps
<1>2. Rows = {}
  BY DEF Init, Rows
<1>3. TargetsValid /\ RequestsAnchored /\ HiredRequestsConsidered
  BY DEF Init, TargetsValid, RequestsAnchored, HiredRequestsConsidered, Idle
<1>4. RowsNeedJob /\ HistoryTracksStatus
  BY <1>2 DEF RowsNeedJob, HistoryTracksStatus
<1>5. OfferBacked /\ HiredWasConsidered
  BY PipelineAssumption DEF OfferBacked, HiredWasConsidered, Init, Statuses
<1>6. QED
  BY <1>1, <1>3, <1>4, <1>5 DEF IInv

LEMMA NextIInv == IInv /\ [Next]_vars => IInv'
<1> SUFFICES ASSUME IInv, [Next]_vars PROVE IInv'
  OBVIOUS
<1>1. CASE Next
  BY <1>1, CandidateStepKeepsIInv, RecruiterStepKeepsIInv, DeleteJobKeepsIInv,
     FailKeepsIInv DEF Next
<1>2. CASE UNCHANGED vars
  BY <1>2 DEF vars, IInv, TypeOK, TargetsValid, RequestsAnchored, RowsNeedJob,
       HistoryTracksStatus, OfferBacked, HiredRequestsConsidered,
       HiredWasConsidered, Rows
<1>3. QED
  BY <1>1, <1>2

\* The inductive invariant holds in every reachable state.
LEMMA Invariance == Spec => []IInv
BY InitIInv, NextIInv, PTL DEF Spec

-----------------------------------------------------------------------------
\* Every handler leaves every row, history and request of the shape the
\* others expect, in whatever order their database calls interleave.
THEOREM TypeCorrect == Spec => []TypeOK
<1>1. IInv => TypeOK
  BY DEF IInv
<1>2. QED
  BY <1>1, Invariance, PTL

\* An application's timeline always ends in its current status, however many
\* handlers write it at once (the nested history create of each update).
THEOREM TimelineMatchesStatus == Spec => []HistoryTracksStatus
<1>1. IInv => HistoryTracksStatus
  BY DEF IInv
<1>2. QED
  BY <1>1, Invariance, PTL

\* An application in OfferReleased has its offer details: only releaseOffer
\* writes the status, in the update that writes the details.
THEOREM OffersAreBacked == Spec => []OfferBacked
<1>1. IInv => OfferBacked
  BY DEF IInv
<1>2. QED
  BY <1>1, Invariance, PTL

\* Every Hired of a history comes after an interview or an offer, although
\* progressApplicant decides on a status that may be stale when it writes.
THEOREM HiredAfterConsideration == Spec => []HiredWasConsidered
<1>1. IInv => HiredWasConsidered
  BY DEF IInv
<1>2. QED
  BY <1>1, Invariance, PTL

-----------------------------------------------------------------------------
(* As many rows per pair as the candidate's requests, at the most: the     *)
(* rows that are there and the submissions past their lookup are counted   *)
(* together.                                                               *)

Creating == {s \in CandidateRequests : At(s, "create")}

RowsCounted ==
  /\ IsFiniteSet(Rows)
  /\ Cardinality(Rows) + Cardinality(Creating) <= Cardinality(CandidateRequests)

LEMMA CreatingFinite ==
  /\ IsFiniteSet(Creating) /\ Cardinality(Creating) \in Nat
  /\ Cardinality(CandidateRequests) \in Nat
  /\ Cardinality(Creating) <= Cardinality(CandidateRequests)
<1>1. Creating \subseteq CandidateRequests
  BY DEF Creating
<1> QED
  BY <1>1, PipelineAssumption, FS_Subset, FS_CardinalityType

\* Steps that bring neither a row nor a submission past its lookup.
LEMMA RowsKept ==
  ASSUME RowsCounted, Rows' \subseteq Rows,
         \A t \in Requests : req'[t].step = "create" => req[t].step = "create"
  PROVE  RowsCounted'
<1>1. IsFiniteSet(Rows') /\ Cardinality(Rows') <= Cardinality(Rows)
  BY FS_Subset DEF RowsCounted
<1>2. Creating' \subseteq Creating
  BY DEF Creating, At, Requests
<1>3. Cardinality(Creating') <= Cardinality(Creating)
  BY <1>2, CreatingFinite, FS_Subset
<1>4. /\ Cardinality(Rows) \in Nat /\ Cardinality(Rows') \in Nat
      /\ Cardinality(Creating) \in Nat /\ Cardinality(Creating') \in Nat
  BY <1>1, <1>2, CreatingFinite, FS_Subset, FS_CardinalityType DEF RowsCounted
<1> QED
  BY <1>1, <1>3, <1>4, CreatingFinite DEF RowsCounted

\* A submission that finds no row: all that count now are such submissions.
LEMMA LookupCounts ==
  ASSUME Rows' = {}
  PROVE  RowsCounted'
<1>1. Creating' \subseteq CandidateRequests
  BY DEF Creating
<1>2. /\ Cardinality(Creating') \in Nat /\ Cardinality(CandidateRequests) \in Nat
      /\ Cardinality(Creating') <= Cardinality(CandidateRequests)
  BY <1>1, PipelineAssumption, FS_Subset, FS_CardinalityType
<1> QED
  BY <1>2, FS_EmptySet DEF RowsCounted

LEMMA CandidateKeepsCount ==
  ASSUME IInv, NEW c \in CandidateRequests, RowsCounted, CandidateStep(c)
  PROVE  RowsCounted'
<1>0. c \in Requests /\ TypeOK
  BY DEF Requests, IInv
<1>1. CASE BeginApply(c)
  <2>1. Rows' = Rows
    BY <1>1 DEF BeginApply, rowVars, Rows
  <2>2. CASE Rows = {}
    BY <2>1, <2>2, LookupCounts
  <2>3. CASE \E a \in Rows : Accept(c, "clearInterviews", a, None, None)
    <3>1. req'[c].step = "clearInterviews" /\ \A t \in Requests \ {c} : req'[t] = req[t]
      BY <1>0, <2>3 DEF Accept, TypeOK
    <3>2. QED
      BY <1>0, <2>1, <3>1, RowsKept
  <2>4. QED
    BY <1>1, <2>2, <2>3 DEF BeginApply, ExistingApplications
<1>2. CASE CreateApplication(c)
  <2>1. PICK a \in AppIds \ Rows : SetStatus(a, "Applied")
    BY <1>2 DEF CreateApplication
  <2>2. Rows' = Rows \cup {a} /\ a \notin Rows
    BY <1>0, <2>1, SetStatusEffect DEF Statuses
  <2>3. req'[c] = Idle /\ \A t \in Requests \ {c} : req'[t] = req[t]
    BY <1>0, <1>2, RespondTyped DEF CreateApplication
  <2>4. Creating' = Creating \ {c} /\ c \in Creating
    BY <1>2, <2>3 DEF CreateApplication, Creating, At, Idle, Requests
  <2>5. Cardinality(Creating') = Cardinality(Creating) - 1
    BY <2>4, CreatingFinite, FS_RemoveElement
  <2>6. IsFiniteSet(Rows') /\ Cardinality(Rows') = Cardinality(Rows) + 1
    BY <2>2, FS_AddElement DEF RowsCounted
  <2>7. Cardinality(Rows) \in Nat
    BY FS_CardinalityType DEF RowsCounted
  <2>8. QED
    BY <2>5, <2>6, <2>7, CreatingFinite DEF RowsCounted
<1>3. CASE ClearInterviews(c)
  BY <1>0, <1>3, ContinueTyped, RowsKept DEF ClearInterviews, Rows, Steps
<1>4. CASE Reopen(c)
  <2>1. Rows' = Rows
    BY <1>0, <1>4, SetStatusEffect DEF Reopen, Statuses, Rows
  <2>2. QED
    BY <1>0, <1>4, <2>1, RespondTyped, RowsKept DEF Reopen, Idle
<1>5. CASE \E a \in Rows : BeginWithdraw(c, a)
  <2>1. PICK a \in Rows : BeginWithdraw(c, a)
    BY <1>5
  <2>2. req'[c].step = "withdraw" /\ \A t \in Requests \ {c} : req'[t] = req[t]
    BY <1>0, <2>1 DEF BeginWithdraw, Accept, TypeOK
  <2>3. QED
    BY <1>0, <2>1, <2>2, RowsKept DEF BeginWithdraw, rowVars, Rows
<1>6. CASE Withdraw(c)
  <2>1. Rows' = Rows
    BY <1>0, <1>6, SetStatusEffect DEF Withdraw, Statuses, Rows
  <2>2. QED
    BY <1>0, <1>6, <2>1, RespondTyped, RowsKept DEF Withdraw, Idle
<1>7. QED
  BY <1>1, <1>2, <1>3, <1>4, <1>5, <1>6 DEF CandidateStep

\* No recruiter's step creates a row or starts a creation.
LEMMA RecruiterKeepsRows ==
  ASSUME IInv, NEW s \in RecruiterRequests, RecruiterStep(s)
  PROVE  /\ Rows' = Rows
         /\ \A t \in Requests : req'[t].step = "create" => req[t].step = "create"
<1>0. s \in Requests /\ TypeOK
  BY DEF Requests, IInv
<1>1. CASE \/ \E a \in Rows, target \in ProgressTargets : BeginProgress(s, a, target)
           \/ \E a \in Rows : BeginSchedule(s, a)
           \/ \E a \in Rows : BeginOffer(s, a)
  <2>1. Rows' = Rows
    BY <1>1 DEF BeginProgress, BeginSchedule, BeginOffer, rowVars, Rows
  <2>2. PICK step \in {"progress", "createInterview", "deleteLetter", "recordOffer"} :
          \E a, st, file : Accept(s, step, a, st, file)
    BY <1>1 DEF BeginProgress, BeginSchedule, BeginOffer
  <2>3. req'[s].step = step /\ \A t \in Requests \ {s} : req'[t] = req[t]
    BY <1>0, <2>2 DEF Accept, TypeOK
  <2>4. QED
    BY <2>1, <2>3
<1>2. CASE CreateInterview(s) \/ DeleteOldLetter(s)
  BY <1>0, <1>2, ContinueTyped
     DEF CreateInterview, DeleteOldLetter, rowVars, Rows, Steps
<1>3. CASE UploadLetter(s)
  BY <1>0, <1>3 DEF UploadLetter, rowVars, Rows, TypeOK, Request
<1>4. CASE Progress(s)
  <2>1. req[s].target \in Statuses
    BY <1>0, <1>4 DEF Progress, At, TargetsValid, IInv, ProgressTargets, Statuses
  <2>2. Rows' = Rows
    BY <1>0, <1>4, <2>1, SetStatusEffect DEF Progress, Rows
  <2>3. QED
    BY <1>0, <1>4, <2>2, RespondTyped DEF Progress, Idle
<1>5. CASE MarkScheduled(s)
  <2>1. Rows' = Rows
    BY <1>0, <1>5, SetStatusEffect DEF MarkScheduled, Rows, Statuses
  <2>2. QED
    BY <1>0, <1>5, <2>1, RespondTyped DEF MarkScheduled, Idle
<1>6. CASE RecordOffer(s)
  <2>1. Rows' = Rows
    BY <1>0, <1>6, SetStatusEffect DEF RecordOffer, Rows, Statuses
  <2>2. QED
    BY <1>0, <1>6, <2>1, RespondTyped DEF RecordOffer, Idle
<1>7. QED
  BY <1>1, <1>2, <1>3, <1>4, <1>5, <1>6 DEF RecruiterStep

\* For every number of overlapping submissions, and wherever handlers fail: a
\* candidate has at most as many application rows for a posting as requests in
\* flight at once, so only submissions that overlap bring a second row, and a
\* candidate with one request at a time never has two (the findFirst check of
\* applyToJob, which is not in a transaction with the create).
THEOREM SubmissionsBoundApplications == Spec => []ApplicationsBounded
<1>1. Init => RowsCounted
  <2> SUFFICES ASSUME Init PROVE RowsCounted
    OBVIOUS
  <2>1. Rows = {} /\ Creating = {}
    BY DEF Init, Rows, Creating, At, Idle, Requests
  <2> QED
    BY <2>1, CreatingFinite, FS_EmptySet DEF RowsCounted
<1>2. IInv /\ RowsCounted /\ [Next]_vars => RowsCounted'
  <2> SUFFICES ASSUME IInv, RowsCounted, [Next]_vars PROVE RowsCounted'
    OBVIOUS
  <2>0. TypeOK
    BY DEF IInv
  <2>1. CASE \E s \in CandidateRequests : CandidateStep(s)
    BY <2>1, CandidateKeepsCount
  <2>2. CASE \E s \in RecruiterRequests : RecruiterStep(s)
    BY <2>2, RecruiterKeepsRows, RowsKept
  <2>3. CASE DeleteJob
    BY <2>3, RowsKept DEF DeleteJob, Rows
  <2>4. CASE \E s \in Requests : Fail(s)
    BY <2>0, <2>4, RespondTyped, RowsKept DEF Fail, rowVars, Rows, Idle
  <2>5. CASE UNCHANGED vars
    BY <2>5, RowsKept DEF vars, Rows
  <2>6. QED
    BY <2>1, <2>2, <2>3, <2>4, <2>5 DEF Next
<1>3. RowsCounted => ApplicationsBounded
  BY CreatingFinite, FS_CardinalityType DEF RowsCounted, ApplicationsBounded
<1>4. QED
  BY <1>1, <1>2, <1>3, Invariance, PTL DEF Spec

-----------------------------------------------------------------------------
(* The handlers implement HiringProcess while requests do not overlap:     *)
(* between the read and the write of a handler only the posting can go,    *)
(* with all its rows.  Fits(s) says what that leaves true: as long as its  *)
(* row is there, the status a request decided on is still the row's.       *)

\* No request but s is in flight.
Alone(s) == \A t \in Requests \ {s} : At(t, "idle")

\* Where the pair's application stands, as Process sees it.
PairStage == IF Rows = {} THEN "None" ELSE status[CHOOSE a \in Rows : TRUE]

\* Request s may still go on as it decided to when it read status st.
Permitted(s, st) ==
  /\ req[s].step \in {"clearInterviews", "reopen"} => st = "Withdrawn"
  /\ At(s, "withdraw") => st \notin NonWithdrawable
  /\ At(s, "progress") => req[s].target = st \/ req[s].target \in AllowedTransitions(st)
  /\ req[s].step \in {"createInterview", "markScheduled"} =>
       "InterviewScheduled" \in AllowedTransitions(st)
  /\ req[s].step \in {"deleteLetter", "uploadLetter", "recordOffer"} =>
       "OfferReleased" \in AllowedTransitions(st)

Fits(s) ==
  /\ At(s, "create") => Rows = {}
  /\ req[s].app \in Rows => Permitted(s, status[req[s].app])

\* At most one row for the pair.
OneApplication == \A a, b \in Rows : a = b

SerialInv == OneApplication /\ \A s \in Requests : Fits(s)

-----------------------------------------------------------------------------
(* The stage of the pair, and what a step does to it.                      *)

LEMMA OnlyElement ==
  ASSUME NEW R, NEW a, R = {a}
  PROVE  (CHOOSE b \in R : TRUE) = a
OBVIOUS

LEMMA StageOfRow ==
  ASSUME NEW a, Rows = {a}
  PROVE  PairStage = status[a]
BY OnlyElement DEF PairStage

LEMMA StageOfRowNext ==
  ASSUME NEW a, Rows' = {a}
  PROVE  PairStage' = status'[a]
BY OnlyElement DEF PairStage

\* A handler allowed to change the status takes the process forward or
\* rejects the application.
LEMMA AllowedMoves ==
  ASSUME NEW st \in Statuses, NEW next \in AllowedTransitions(st), next # st
  PROVE  /\ st \in Process!Active
         /\ \/ next = "Rejected"
            \/ /\ next \in DOMAIN Process!Rank
               /\ Process!Rank[next] > Process!Rank[st]
               /\ next = "Hired" => Process!Rank[st] >= Process!Rank["InterviewScheduled"]
<1>1. \A i \in 1..6 : /\ PipelineOrder[i] \in DOMAIN Process!Rank
                      /\ Process!Rank[PipelineOrder[i]] = i
  BY DEF PipelineOrder, Process!Rank
<1>2. st \notin Terminal
  BY DEF AllowedTransitions
<1>3. CASE next \in LaterStages(st)
  <2>1. PICK j \in 1..6, i \in 1..6 : i < j /\ PipelineOrder[i] = st /\ PipelineOrder[j] = next
    BY <1>3 DEF LaterStages
  <2>2. st \in Process!Active
    BY <1>2, <2>1 DEF PipelineOrder, Process!Active, Terminal
  <2>3. next = "Hired" => st \in {"InterviewScheduled", "OfferReleased"}
    BY <1>2, HiredOnlyAfterStructured DEF StructuredStatuses
  <2> QED
    BY <1>1, <2>1, <2>2, <2>3 DEF Process!Rank
<1>4. CASE next = "Rejected"
  BY <1>2, <1>4 DEF Statuses, Process!Active, Terminal
<1> QED
  BY <1>3, <1>4 DEF AllowedTransitions

-----------------------------------------------------------------------------
(* Three kinds of steps.                                                   *)

\* A step of request s that writes neither a status nor the posting.
LEMMA AsideStep ==
  ASSUME SerialInv, NEW s \in Requests, Alone(s)',
         UNCHANGED <<jobExists, status>>, Fits(s)'
  PROVE  SerialInv' /\ UNCHANGED Process!vars
<1>1. Rows' = Rows
  BY DEF Rows
<1>2. \A t \in Requests : Fits(t)'
  BY DEF Alone, Fits, Permitted, At
<1> QED
  BY <1>1, <1>2 DEF SerialInv, OneApplication, Process!vars

\* Request s writes the status of the pair's row, or of its first row, and
\* answers.
LEMMA WrittenStage ==
  ASSUME IInv, SerialInv, NEW s \in Requests, Alone(s)', NEW a \in AppIds,
         NEW st \in Statuses, a \in Rows \/ Rows = {},
         SetStatus(a, st), Respond(s), UNCHANGED jobExists
  PROVE  /\ SerialInv'
         /\ PairStage' = st
         /\ a \in Rows => PairStage = status[a] /\ jobExists
         /\ Rows = {} => PairStage = "None"
<1>1. TypeOK /\ RowsNeedJob
  BY DEF IInv
<1>2. Rows \subseteq {a}
  BY DEF SerialInv, OneApplication
<1>3. Rows' = {a} /\ status'[a] = st
  BY <1>1, <1>2, SetStatusEffect
<1>4. PairStage' = st
  BY <1>3, StageOfRowNext
<1>5. a \in Rows => PairStage = status[a] /\ jobExists
  BY <1>1, <1>2, StageOfRow DEF RowsNeedJob
<1>6. req'[s].step = "idle"
  BY <1>1, RespondTyped DEF Idle
<1>7. \A t \in Requests : Fits(t)'
  BY <1>6 DEF Alone, Fits, Permitted, At
<1> QED
  BY <1>3, <1>4, <1>5, <1>7 DEF SerialInv, OneApplication, PairStage

\* A new row, or a row reopened, starts over.
LEMMA AppliesAgain ==
  ASSUME UNCHANGED jobExists, jobExists, PairStage \in {"None", "Withdrawn"},
         PairStage' = "Applied"
  PROVE  Process!Next
BY DEF PairStage, Process!Next, Process!Apply

\* Another status follows only where the transition rules allow it.
LEMMA Follows ==
  ASSUME UNCHANGED jobExists, NEW next, PairStage \in Statuses,
         next = PairStage \/ next \in AllowedTransitions(PairStage),
         PairStage' = next
  PROVE  [Process!Next]_Process!vars
<1>1. CASE next = PairStage
  BY <1>1 DEF PairStage, Process!vars
<1>2. CASE next # PairStage
  <2>1. PairStage \in Process!Active
    BY <1>2, AllowedMoves
  <2>2. CASE next = "Rejected"
    <3>1. Process!Reject
      BY <2>1, <2>2 DEF Process!Reject, PairStage
    <3> QED
      BY <3>1 DEF Process!Next
  <2>3. CASE next # "Rejected"
    <3>1. Process!Advance
      BY <1>2, <2>1, <2>3, AllowedMoves DEF Process!Advance, PairStage
    <3> QED
      BY <3>1 DEF Process!Next
  <2> QED
    BY <2>2, <2>3
<1> QED
  BY <1>1, <1>2

-----------------------------------------------------------------------------
(* The handlers.                                                           *)

LEMMA AcceptFits ==
  ASSUME TypeOK, NEW s \in Requests, NEW step, NEW a, NEW st, NEW file,
         Accept(s, step, a, st, file), UNCHANGED status,
         step = "create" => Rows = {},
         a \in Rows =>
           /\ step \in {"clearInterviews", "reopen"} => status[a] = "Withdrawn"
           /\ step = "withdraw" => status[a] \notin NonWithdrawable
           /\ step = "progress" => st = status[a] \/ st \in AllowedTransitions(status[a])
           /\ step \in {"createInterview", "markScheduled"} =>
                "InterviewScheduled" \in AllowedTransitions(status[a])
           /\ step \in {"deleteLetter", "uploadLetter", "recordOffer"} =>
                "OfferReleased" \in AllowedTransitions(status[a])
  PROVE  Fits(s)'
<1>1. req'[s].step = step /\ req'[s].app = a /\ req'[s].target = st
  BY DEF TypeOK, Accept
<1>2. Rows' = Rows
  BY DEF Rows
<1>3. CASE a \in Rows
  <2>1. Permitted(s, status[a])'
    BY <1>1, <1>3 DEF Permitted, At
  <2> QED
    BY <1>1, <1>2, <2>1 DEF Fits, At
<1>4. CASE a \notin Rows
  BY <1>1, <1>2, <1>4 DEF Fits, At
<1> QED
  BY <1>3, <1>4

\* A handler that goes on without writing a status fits as before.
LEMMA ContinueFits ==
  ASSUME NEW s \in Requests, Fits(s), UNCHANGED status, req'[s].app = req[s].app,
         \/ At(s, "clearInterviews") /\ req'[s].step = "reopen"
         \/ At(s, "createInterview") /\ req'[s].step = "markScheduled"
         \/ At(s, "deleteLetter") /\ req'[s].step = "uploadLetter"
         \/ At(s, "uploadLetter") /\ req'[s].step = "recordOffer"
  PROVE  Fits(s)'
<1>1. Rows' = Rows
  BY DEF Rows
<1> QED
  BY <1>1 DEF Fits, Permitted, At

LEMMA CandidateImplements ==
  ASSUME IInv, SerialInv, NEW s \in CandidateRequests, Alone(s)', CandidateStep(s)
  PROVE  SerialInv' /\ [Process!Next]_Process!vars
<1>0. s \in Requests /\ TypeOK /\ Fits(s)
  BY DEF Requests, IInv, SerialInv
<1>1. CASE BeginApply(s)
  <2>1. UNCHANGED <<jobExists, status>>
    BY <1>1 DEF BeginApply, rowVars
  <2>2. CASE Rows = {} /\ Accept(s, "create", None, None, None)
    <3>1. Fits(s)'
      BY <1>0, <2>1, <2>2, AcceptFits
    <3> QED
      BY <1>0, <2>1, <3>1, AsideStep
  <2>3. CASE \E a \in Rows : /\ status[a] = "Withdrawn"
                             /\ Accept(s, "clearInterviews", a, None, None)
    <3>1. Fits(s)'
      BY <1>0, <2>1, <2>3, AcceptFits
    <3> QED
      BY <1>0, <2>1, <3>1, AsideStep
  <2> QED
    BY <1>1, <2>2, <2>3 DEF BeginApply, ExistingApplications
<1>2. CASE CreateApplication(s)
  <2>1. PICK a \in AppIds : SetStatus(a, "Applied")
    BY <1>2 DEF CreateApplication
  <2>2. Rows = {} /\ jobExists /\ UNCHANGED jobExists /\ Respond(s)
    BY <1>0, <1>2 DEF CreateApplication, Fits
  <2>3. SerialInv' /\ PairStage = "None" /\ PairStage' = "Applied"
    BY <1>0, <2>1, <2>2, WrittenStage DEF Statuses
  <2> QED
    BY <2>2, <2>3, AppliesAgain
<1>3. CASE ClearInterviews(s)
  <2>1. UNCHANGED <<jobExists, status>> /\ Continue(s, "reopen") /\ At(s, "clearInterviews")
    BY <1>3 DEF ClearInterviews
  <2>2. Fits(s)'
    BY <1>0, <2>1, ContinueTyped, ContinueFits DEF Steps
  <2> QED
    BY <1>0, <2>1, <2>2, AsideStep
<1>4. CASE Reopen(s)
  <2>1. PICK a \in Rows : a = req[s].app /\ SetStatus(a, "Applied")
    BY <1>4 DEF Reopen
  <2>2. UNCHANGED jobExists /\ Respond(s) /\ a \in AppIds
    BY <1>4, <2>1 DEF Reopen, Rows
  <2>3. status[a] = "Withdrawn"
    BY <1>0, <1>4, <2>1 DEF Reopen, At, Fits, Permitted
  <2>4. SerialInv' /\ PairStage = status[a] /\ jobExists /\ PairStage' = "Applied"
    BY <1>0, <2>1, <2>2, WrittenStage DEF Statuses
  <2> QED
    BY <2>2, <2>3, <2>4, AppliesAgain
<1>5. CASE \E a \in Rows : BeginWithdraw(s, a)
  <2>1. PICK a \in Rows : BeginWithdraw(s, a)
    BY <1>5
  <2>2. UNCHANGED <<jobExists, status>> /\ status[a] \notin NonWithdrawable
        /\ Accept(s, "withdraw", a, "Withdrawn", None)
    BY <2>1 DEF BeginWithdraw, rowVars
  <2>3. Fits(s)'
    BY <1>0, <2>2, AcceptFits
  <2> QED
    BY <1>0, <2>2, <2>3, AsideStep
<1>6. CASE Withdraw(s)
  <2>1. PICK a \in Rows : a = req[s].app /\ SetStatus(a, "Withdrawn")
    BY <1>6 DEF Withdraw
  <2>2. UNCHANGED jobExists /\ Respond(s) /\ a \in AppIds
    BY <1>6, <2>1 DEF Withdraw, Rows
  <2>3. status[a] \notin NonWithdrawable /\ status[a] \in Statuses
    BY <1>0, <1>6, <2>1 DEF Withdraw, At, Fits, Permitted, TypeOK, Rows
  <2>4. SerialInv' /\ PairStage = status[a] /\ PairStage' = "Withdrawn"
    BY <1>0, <2>1, <2>2, WrittenStage DEF Statuses
  <2>5. Process!Withdraw
    BY <2>2, <2>3, <2>4
       DEF PairStage, Process!Withdraw, Process!Active, NonWithdrawable, Statuses
  <2> QED
    BY <2>4, <2>5 DEF Process!Next
<1> QED
  BY <1>1, <1>2, <1>3, <1>4, <1>5, <1>6 DEF CandidateStep

\* What a recruiter's handler writes follows from the status it read.
LEMMA RecruiterWrites ==
  ASSUME IInv, SerialInv, NEW s \in Requests, Alone(s)', NEW a \in Rows,
         NEW st \in Statuses, st = status[a] \/ st \in AllowedTransitions(status[a]),
         SetStatus(a, st), Respond(s), UNCHANGED jobExists
  PROVE  SerialInv' /\ [Process!Next]_Process!vars
<1>1. a \in AppIds /\ status[a] \in Statuses
  BY DEF IInv, TypeOK, Rows
<1>2. SerialInv' /\ PairStage = status[a] /\ PairStage' = st
  BY <1>1, WrittenStage
<1> QED
  BY <1>1, <1>2, Follows

LEMMA RecruiterImplements ==
  ASSUME IInv, SerialInv, NEW s \in RecruiterRequests, Alone(s)', RecruiterStep(s)
  PROVE  SerialInv' /\ [Process!Next]_Process!vars
<1>0. s \in Requests /\ TypeOK /\ Fits(s)
  BY DEF Requests, IInv, SerialInv
<1>1. CASE \E a \in Rows, target \in ProgressTargets : BeginProgress(s, a, target)
  <2>1. PICK a \in Rows, target \in ProgressTargets : BeginProgress(s, a, target)
    BY <1>1
  <2>2. /\ UNCHANGED <<jobExists, status>> /\ Accept(s, "progress", a, target, None)
        /\ target = status[a] \/ target \in AllowedTransitions(status[a])
    BY <2>1 DEF BeginProgress, rowVars
  <2>3. Fits(s)'
    BY <1>0, <2>2, AcceptFits
  <2> QED
    BY <1>0, <2>2, <2>3, AsideStep
<1>2. CASE Progress(s)
  <2>1. PICK a \in Rows : a = req[s].app /\ SetStatus(a, req[s].target)
    BY <1>2 DEF Progress
  <2>2. UNCHANGED jobExists /\ Respond(s) /\ At(s, "progress")
    BY <1>2 DEF Progress
  <2>3. req[s].target \in Statuses
    BY <1>0, <2>2 DEF IInv, TargetsValid, At, ProgressTargets, Statuses
  <2> QED
    BY <1>0, <2>1, <2>2, <2>3, RecruiterWrites DEF Fits, Permitted
<1>3. CASE \E a \in Rows : BeginSchedule(s, a)
  <2>1. PICK a \in Rows : BeginSchedule(s, a)
    BY <1>3
  <2>2. /\ UNCHANGED <<jobExists, status>>
        /\ Accept(s, "createInterview", a, "InterviewScheduled", None)
        /\ "InterviewScheduled" \in AllowedTransitions(status[a])
    BY <2>1 DEF BeginSchedule, rowVars
  <2>3. Fits(s)'
    BY <1>0, <2>2, AcceptFits
  <2> QED
    BY <1>0, <2>2, <2>3, AsideStep
<1>4. CASE CreateInterview(s)
  <2>1. UNCHANGED <<jobExists, status>> /\ Continue(s, "markScheduled")
        /\ At(s, "createInterview")
    BY <1>4 DEF CreateInterview
  <2>2. Fits(s)'
    BY <1>0, <2>1, ContinueTyped, ContinueFits DEF Steps
  <2> QED
    BY <1>0, <2>1, <2>2, AsideStep
<1>5. CASE MarkScheduled(s)
  <2>1. PICK a \in Rows : a = req[s].app /\ SetStatus(a, "InterviewScheduled")
    BY <1>5 DEF MarkScheduled
  <2>2. UNCHANGED jobExists /\ Respond(s)
        /\ "InterviewScheduled" \in AllowedTransitions(status[a])
    BY <1>0, <1>5, <2>1 DEF MarkScheduled, At, Fits, Permitted
  <2> QED
    BY <1>0, <2>1, <2>2, RecruiterWrites DEF Statuses
<1>6. CASE \E a \in Rows : BeginOffer(s, a)
  <2>1. PICK a \in Rows : BeginOffer(s, a)
    BY <1>6
  <2>2. PICK next \in {"deleteLetter", "recordOffer"} :
          Accept(s, next, a, "OfferReleased", letter[a])
    BY <2>1 DEF BeginOffer
  <2>3. /\ UNCHANGED <<jobExists, status>>
        /\ "OfferReleased" \in AllowedTransitions(status[a])
    BY <2>1 DEF BeginOffer, rowVars
  <2>4. Fits(s)'
    BY <1>0, <2>2, <2>3, AcceptFits
  <2> QED
    BY <1>0, <2>3, <2>4, AsideStep
<1>7. CASE DeleteOldLetter(s)
  <2>1. UNCHANGED <<jobExists, status>> /\ Continue(s, "uploadLetter")
        /\ At(s, "deleteLetter")
    BY <1>7 DEF DeleteOldLetter, rowVars
  <2>2. Fits(s)'
    BY <1>0, <2>1, ContinueTyped, ContinueFits DEF Steps
  <2> QED
    BY <1>0, <2>1, <2>2, AsideStep
<1>8. CASE UploadLetter(s)
  <2>1. UNCHANGED <<jobExists, status>> /\ At(s, "uploadLetter")
    BY <1>8 DEF UploadLetter, rowVars
  <2>2. req'[s].step = "recordOffer" /\ req'[s].app = req[s].app
    BY <1>0, <1>8 DEF UploadLetter, TypeOK, Request
  <2>3. Fits(s)'
    BY <1>0, <2>1, <2>2, ContinueFits
  <2> QED
    BY <1>0, <2>1, <2>3, AsideStep
<1>9. CASE RecordOffer(s)
  <2>1. PICK a \in Rows : a = req[s].app /\ SetStatus(a, "OfferReleased")
    BY <1>9 DEF RecordOffer
  <2>2. UNCHANGED jobExists /\ Respond(s)
        /\ "OfferReleased" \in AllowedTransitions(status[a])
    BY <1>0, <1>9, <2>1 DEF RecordOffer, At, Fits, Permitted
  <2> QED
    BY <1>0, <2>1, <2>2, RecruiterWrites DEF Statuses
<1> QED
  BY <1>1, <1>2, <1>3, <1>4, <1>5, <1>6, <1>7, <1>8, <1>9 DEF RecruiterStep

LEMMA InitSerial == Init => SerialInv /\ Process!Init
<1> SUFFICES ASSUME Init PROVE SerialInv /\ Process!Init
  OBVIOUS
<1>1. Rows = {}
  BY DEF Init, Rows
<1>2. \A s \in Requests : req[s].step = "idle"
  BY DEF Init, Idle
<1> QED
  BY <1>1, <1>2 DEF Init, SerialInv, OneApplication, Fits, Permitted, At, Process!Init

LEMMA DeleteJobImplements ==
  ASSUME SerialInv, DeleteJob
  PROVE  SerialInv' /\ Process!Next
<1>1. Rows' = {} /\ jobExists /\ jobExists' = FALSE /\ req' = req
  BY DEF DeleteJob, Rows
<1>2. SerialInv'
  BY <1>1 DEF SerialInv, OneApplication, Fits, At
<1>3. Process!Close
  BY <1>1 DEF Process!Close
<1> QED
  BY <1>2, <1>3 DEF Process!Next

LEMMA FailImplements ==
  ASSUME IInv, SerialInv, NEW s \in Requests, Alone(s)', Fail(s)
  PROVE  SerialInv' /\ UNCHANGED Process!vars
<1>1. req'[s].step = "idle" /\ UNCHANGED <<jobExists, status>>
  BY RespondTyped DEF Fail, rowVars, Idle, IInv
<1>2. Fits(s)'
  BY <1>1 DEF Fits, Permitted, At
<1> QED
  BY <1>1, <1>2, AsideStep

\* A handler's step is its own request's.
LEMMA HandlerFrame ==
  ASSUME TypeOK, NEW s \in Requests, CandidateStep(s) \/ RecruiterStep(s) \/ Fail(s)
  PROVE  \A t \in Requests \ {s} : req'[t] = req[t]
<1>1. CASE CandidateStep(s)
  BY <1>1 DEF CandidateStep, TypeOK, BeginApply, CreateApplication, ClearInterviews, Reopen,
     BeginWithdraw, Withdraw, Accept, Continue, Respond
<1>2. CASE RecruiterStep(s)
  BY <1>2 DEF RecruiterStep, TypeOK, BeginProgress, Progress, BeginSchedule, CreateInterview,
     MarkScheduled, BeginOffer, DeleteOldLetter, UploadLetter, RecordOffer,
     Accept, Continue, Respond
<1>3. CASE Fail(s)
  BY <1>3, RespondTyped DEF Fail
<1> QED
  BY <1>1, <1>2, <1>3

-----------------------------------------------------------------------------
(* The instances of MCApplicationPipeline, under their loads.              *)

\* At most one request is in flight.
OneBusy == \A s, t \in Requests : ~At(s, "idle") /\ ~At(t, "idle") => s = t

\* What holds in the instances.
PipelineInv == IInv /\ (load = "serial" => OneBusy /\ SerialInv)

LEMMA PipelineInit == MCInit => PipelineInv /\ Process!Init
<1> SUFFICES ASSUME MCInit PROVE PipelineInv /\ Process!Init
  OBVIOUS
<1>1. Init /\ IInv /\ SerialInv /\ Process!Init
  BY InitIInv, InitSerial DEF MCInit
<1>2. \A s \in Requests : At(s, "idle")
  BY <1>1 DEF Init, Idle, At
<1> QED
  BY <1>1, <1>2 DEF PipelineInv, OneBusy

\* Who acts while requests come one at a time acts alone.
LEMMA ActsAlone ==
  ASSUME TypeOK, load = "serial", OneBusy, NEW s \in Requests \cap Acting,
         CandidateStep(s) \/ RecruiterStep(s) \/ Fail(s)
  PROVE  Alone(s)' /\ OneBusy'
<1>1. Alone(s)
  BY DEF Acting, OneBusy, Alone, At
<1> QED
  BY <1>1, HandlerFrame DEF Alone, OneBusy, At

LEMMA PipelineNext ==
  ASSUME PipelineInv, [MCNext]_<<vars, load>>
  PROVE  PipelineInv' /\ [load = "serial" => Process!Next]_Process!vars
<1>0. IInv /\ TypeOK
  BY DEF PipelineInv, IInv
<1>1. IInv' /\ UNCHANGED load
  <2>1. [Next]_vars
    BY DEF MCNext, Next, vars
  <2> QED
    BY <1>0, <2>1, NextIInv DEF MCNext
<1>2. ASSUME load = "serial"
      PROVE  OneBusy' /\ SerialInv' /\ [Process!Next]_Process!vars
  <2>0. OneBusy /\ SerialInv
    BY <1>2 DEF PipelineInv
  <2>1. CASE UNCHANGED vars
    BY <2>0, <2>1
       DEF vars, OneBusy, SerialInv, OneApplication, Fits, Permitted, At, Rows, Process!vars
  <2>2. ASSUME NEW s \in CandidateRequests \cap Acting, CandidateStep(s)
        PROVE  OneBusy' /\ SerialInv' /\ [Process!Next]_Process!vars
    BY <1>0, <1>2, <2>0, <2>2, ActsAlone, CandidateImplements DEF Requests
  <2>3. ASSUME NEW s \in RecruiterRequests \cap Acting, RecruiterStep(s)
        PROVE  OneBusy' /\ SerialInv' /\ [Process!Next]_Process!vars
    BY <1>0, <1>2, <2>0, <2>3, ActsAlone, RecruiterImplements DEF Requests
  <2>4. CASE DeleteJob
    BY <2>0, <2>4, DeleteJobImplements DEF DeleteJob, OneBusy, At
  <2>5. ASSUME NEW s \in Requests, Fail(s)
        PROVE  OneBusy' /\ SerialInv' /\ [Process!Next]_Process!vars
    <3>1. s \in Acting
      BY <2>5 DEF Fail, Acting
    <3> QED
      BY <1>0, <1>2, <2>0, <2>5, <3>1, ActsAlone, FailImplements
  <2> QED
    BY <2>1, <2>2, <2>3, <2>4, <2>5 DEF MCNext, vars
<1> QED
  BY <1>1, <1>2 DEF PipelineInv

\* While requests come one at a time, and may stop anywhere, the handlers
\* implement the hiring process: an application only moves forward, is decided
\* once and is not withdrawn after an offer (getAllowedTransitions,
\* withdrawApplication, applyToJob).
THEOREM HiringProcessImplemented == MCSpec => SerialHiringProcess
<1>1. PipelineInv /\ [MCNext]_<<vars, load>>
        => PipelineInv' /\ [load = "serial" => Process!Next]_Process!vars
  BY PipelineNext
<1> QED
  BY PipelineInit, <1>1, PTL DEF MCSpec, SerialHiringProcess
=============================================================================
