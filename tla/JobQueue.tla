------------------------------- MODULE JobQueue -------------------------------
(***************************************************************************)
(* The e-mail queue and its worker, the dead-letter queue, the feature     *)
(* flag that gates automated mail with its in-process cache, and the daily *)
(* digest, a clean-up job that adds one e-mail per candidate.  Everything  *)
(* runs in one API process, which may stop: Redis keeps the jobs, what the *)
(* process holds in memory is gone.                                        *)
(*                                                                         *)
(* BullMQ is external: a job that was active when the process stopped      *)
(* comes back, MaxStalled times at most; a job whose handler fails waits   *)
(* and is tried again until its attempts are used up, or at once not at    *)
(* all if the error is unrecoverable; "failed" is emitted for every        *)
(* failed attempt.                                                         *)
(***************************************************************************)
EXTENDS Naturals, FiniteSets

CONSTANTS
  Jobs,        \* identities of e-mail jobs
  Candidates,  \* candidates with a digest of theirs to be sent
  Attempts,    \* defaultJobOptions.attempts
  MaxStalled,  \* how often BullMQ takes back a job that stalled
  None         \* no job, no candidate, no cached value

ASSUME QueueAssumption ==
  /\ Attempts \in Nat \ {0} /\ MaxStalled \in Nat
  /\ None \notin Jobs \cup Candidates /\ None \notin BOOLEAN

VARIABLES
  mail,      \* each e-mail job: where it is, how often it was tried and stalled
  flag,      \* the row of email_automation: its value, None if there is none
  cached,    \* the cached value of the flag, None when missing or expired
  update,    \* where the administrator's change of the flag is
  optedIn,   \* candidates whose preferences allow the digest
  digest,    \* the digest job
  bury,      \* jobs whose dead-letter entry is being added
  report,    \* jobs whose audit row is being written
  buried,    \* entries of the dead-letter queue
  reported,  \* QUEUE_JOB_FAILED_DLQ rows
  running,   \* queueMetrics.activeJobs of this process
  rejected   \* jobs SES rejected for good

settings == <<flag, cached, update>>
records == <<bury, report, buried, reported>>
vars == <<mail, settings, optedIn, digest, records, running, rejected>>

-----------------------------------------------------------------------------
\* reading: isFeatureEnabled waits for the row it has read.  accepted,
\* transient and permanent: the handler has ended so, BullMQ has yet to note it.
InMemory == {"gate", "reading", "adding"}
Ended == {"accepted", "transient", "permanent"}
Active == {"active"} \cup Ended
Phase == {"none", "waiting", "delayed", "completed", "failed", "skipped", "lost", "gone"}
           \cup InMemory \cup Active

Mail == [phase  : Phase,
         to     : Candidates \cup {None},    \* whose digest it is
         secure : BOOLEAN,                   \* SECURITY_CRITICAL_EMAIL_JOBS
         row    : BOOLEAN \cup {None},       \* the flag's row as read
         made   : 0..Attempts,               \* attemptsMade
         stalls : 0..(MaxStalled + 1)]
NoMail == [phase |-> "none", to |-> None, secure |-> FALSE, row |-> None,
           made |-> 0, stalls |-> 0]

Digest == [phase  : {"none", "waiting", "active", "done", "failed"},
           left   : SUBSET Candidates,    \* candidates the loop has yet to come to
           adds   : Jobs \cup {None},     \* the addJob it waits for
           stalls : 0..MaxStalled]
NoDigest == [phase |-> "none", left |-> {}, adds |-> None, stalls |-> 0]

TypeOK ==
  /\ mail \in [Jobs -> Mail]
  /\ flag \in BOOLEAN \cup {None} /\ cached \in BOOLEAN \cup {None}
  /\ update \in {"idle", "invalidate"}
  /\ optedIn \subseteq Candidates /\ digest \in Digest
  /\ bury \subseteq Jobs /\ report \subseteq Jobs
  /\ buried \subseteq Jobs /\ reported \subseteq Jobs
  /\ rejected \subseteq Jobs
  \* concurrency: 1
  /\ \A i, j \in Jobs : mail[i].phase \in Active /\ mail[j].phase \in Active => i = j
  /\ running = Cardinality({j \in Jobs : mail[j].phase = "active"})
                        + (IF digest.phase = "active" THEN 1 ELSE 0)

Init ==
  /\ mail = [j \in Jobs |-> NoMail]
  /\ flag \in BOOLEAN \cup {None} /\ cached = None /\ update = "idle"
  /\ optedIn \in SUBSET Candidates /\ digest = NoDigest
  /\ bury = {} /\ report = {} /\ buried = {} /\ reported = {}
  /\ running = 0 /\ rejected = {}

Is(j, phase) == mail[j].phase = phase
Move(j, phase) == mail' = [mail EXCEPT ![j].phase = phase]

-----------------------------------------------------------------------------
(* addJob.                                                                 *)

\* The process holds a job nobody has used yet.
New(j, to, secure) ==
  /\ Is(j, "none")
  /\ mail' = [mail EXCEPT ![j].to = to, ![j].secure = secure,
                          ![j].phase = IF secure THEN "adding" ELSE "gate"]

Add(j) ==
  /\ \E secure \in BOOLEAN : New(j, None, secure)
  /\ UNCHANGED <<settings, optedIn, digest, records, running, rejected>>

Enabled(row) == row # FALSE
Verdict(on) == IF on THEN "adding" ELSE "skipped"

\* isFeatureEnabled: from the cache, or from the row, or TRUE by default.
CacheHit(j) ==
  /\ Is(j, "gate") /\ cached # None
  /\ Move(j, Verdict(cached))
  /\ UNCHANGED <<settings, optedIn, digest, records, running, rejected>>

ReadFlag(j) ==
  /\ Is(j, "gate") /\ cached = None
  /\ mail' = [mail EXCEPT ![j].phase = "reading", ![j].row = flag]
  /\ UNCHANGED <<settings, optedIn, digest, records, running, rejected>>

ReadFlagFails(j) ==
  /\ Is(j, "gate") /\ cached = None
  /\ Move(j, Verdict(TRUE))
  /\ UNCHANGED <<settings, optedIn, digest, records, running, rejected>>

StoreFlag(j) ==
  /\ Is(j, "reading")
  /\ cached' = Enabled(mail[j].row)
  /\ mail' = [mail EXCEPT ![j].phase = Verdict(Enabled(mail[j].row)), ![j].row = None]
  /\ UNCHANGED <<flag, update, optedIn, digest, records, running, rejected>>

Enqueue(j) ==
  /\ Is(j, "adding")
  /\ Move(j, "waiting")
  /\ UNCHANGED <<settings, optedIn, digest, records, running, rejected>>

\* Redis refuses: logged and swallowed, the caller hears nothing of it.
EnqueueFails(j) ==
  /\ Is(j, "adding")
  /\ Move(j, "lost")
  /\ UNCHANGED <<settings, optedIn, digest, records, running, rejected>>

-----------------------------------------------------------------------------
(* The flag.                                                               *)

\* createFeatureFlag, updateFeatureFlag and deleteFeatureFlag: the row first,
\* the cache after the permission cache has been dropped.
WriteFlag ==
  /\ update = "idle"
  /\ flag' \in (BOOLEAN \cup {None}) \ {flag}
  /\ update' = "invalidate"
  /\ UNCHANGED <<cached, mail, optedIn, digest, records, running, rejected>>

InvalidateFlag ==
  /\ update = "invalidate"
  /\ cached' = None /\ update' = "idle"
  /\ UNCHANGED <<flag, mail, optedIn, digest, records, running, rejected>>

ExpireFlag ==
  /\ cached # None
  /\ cached' = None
  /\ UNCHANGED <<flag, update, mail, optedIn, digest, records, running, rejected>>

-----------------------------------------------------------------------------
(* The e-mail worker.                                                      *)

\* Mutated form: the worker takes jobs side by side.
PickBeside(j) ==
  /\ Is(j, "waiting") /\ mail[j].stalls <= MaxStalled
  /\ Move(j, "active")
  /\ running' = running + 1
  /\ UNCHANGED <<settings, optedIn, digest, records, rejected>>

Pick(j) ==
  /\ Is(j, "waiting") /\ mail[j].stalls <= MaxStalled
  /\ \A i \in Jobs : mail[i].phase \notin Active
  /\ Move(j, "active")
  /\ running' = running + 1
  /\ UNCHANGED <<settings, optedIn, digest, records, rejected>>

\* The handler's promise settles: sent, rejected for good, or failed otherwise,
\* also when SES took the mail and the answer was lost.
Settle(j, outcome) ==
  /\ Is(j, "active")
  /\ Move(j, outcome)
  /\ rejected' = IF outcome = "permanent" THEN rejected \cup {j} ELSE rejected
  /\ running' = running - 1

Send(j) ==
  /\ \E outcome \in Ended : Settle(j, outcome)
  /\ UNCHANGED <<settings, optedIn, digest, records>>

Complete(j) ==
  /\ Is(j, "accepted")
  /\ mail' = [mail EXCEPT ![j].phase = "completed", ![j].made = @ + 1]
  /\ UNCHANGED <<settings, optedIn, digest, records, running, rejected>>

\* Mutated forms: an unrecoverable error is only put on record when the
\* attempts are used up; and a permanent rejection is an error like any other.
OnlyWhenExhausted(j) == mail[j].made + 1 >= Attempts
NeverUnrecoverable(j) == FALSE

\* The worker wraps a permanent rejection in an UnrecoverableError.
Unrecoverable(j) == Is(j, "permanent")
GivenUp(j) == Unrecoverable(j) \/ mail[j].made + 1 >= Attempts

\* Whether the "failed" handler puts the job on record.
OnRecord(j) == Unrecoverable(j) \/ mail[j].made + 1 >= Attempts

\* BullMQ notes the failed attempt and emits "failed"; the handler starts the
\* two entries and waits for neither.
Fail(j) ==
  /\ mail[j].phase \in {"transient", "permanent"}
  /\ mail' = [mail EXCEPT ![j].phase = IF GivenUp(j) THEN "failed" ELSE "delayed",
                          ![j].made = @ + 1]
  /\ bury' = IF OnRecord(j) THEN bury \cup {j} ELSE bury
  /\ report' = IF OnRecord(j) THEN report \cup {j} ELSE report
  /\ UNCHANGED <<buried, reported, settings, optedIn, digest, running, rejected>>

\* A job that stalled too often is given up, as unrecoverable.
FailStalled(j) ==
  /\ Is(j, "waiting") /\ mail[j].stalls > MaxStalled
  /\ \A i \in Jobs : mail[i].phase \notin Active
  /\ Move(j, "failed")
  /\ bury' = bury \cup {j} /\ report' = report \cup {j}
  /\ UNCHANGED <<buried, reported, settings, optedIn, digest, running, rejected>>

\* The backoff is over.
Retry(j) ==
  /\ Is(j, "delayed")
  /\ Move(j, "waiting")
  /\ UNCHANGED <<settings, optedIn, digest, records, running, rejected>>

\* pushToDeadLetterQueue and the audit row; each may fail, and is not retried.
Bury(j) ==
  /\ j \in bury
  /\ bury' = bury \ {j} /\ buried' = buried \cup {j}
  /\ UNCHANGED <<report, reported, mail, settings, optedIn, digest, running, rejected>>

BuryFails(j) ==
  /\ j \in bury
  /\ bury' = bury \ {j}
  /\ UNCHANGED <<report, buried, reported, mail, settings, optedIn, digest, running, rejected>>

Report(j) ==
  /\ j \in report
  /\ report' = report \ {j} /\ reported' = reported \cup {j}
  /\ UNCHANGED <<bury, buried, mail, settings, optedIn, digest, running, rejected>>

ReportFails(j) ==
  /\ j \in report
  /\ report' = report \ {j}
  /\ UNCHANGED <<bury, buried, reported, mail, settings, optedIn, digest, running, rejected>>

-----------------------------------------------------------------------------
(* The digest.                                                             *)

Schedule ==
  /\ digest.phase = "none"
  /\ digest' = [digest EXCEPT !.phase = "waiting"]
  /\ UNCHANGED <<mail, settings, optedIn, records, running, rejected>>

\* compileDailyDigests reads the candidates and then goes through them.
Compile ==
  /\ digest.phase = "waiting"
  /\ digest' = [digest EXCEPT !.phase = "active", !.left = optedIn, !.adds = None]
  /\ running' = running + 1
  /\ UNCHANGED <<mail, settings, optedIn, records, rejected>>

\* The addJob the loop waits for is over.
Added == digest.adds # None => mail[digest.adds].phase \notin InMemory

AddDigest(j, c) ==
  /\ digest.phase = "active" /\ Added /\ c \in digest.left
  /\ New(j, c, FALSE)
  /\ digest' = [digest EXCEPT !.left = @ \ {c}, !.adds = j]
  /\ UNCHANGED <<settings, optedIn, records, running, rejected>>

\* Mutated form: the job is done as soon as the last addJob is called.
FinishDigestUnawaited ==
  /\ digest.phase = "active" /\ digest.left = {}
  /\ digest' = [digest EXCEPT !.phase = "done", !.adds = None]
  /\ running' = running - 1
  /\ UNCHANGED <<mail, settings, optedIn, records, rejected>>

FinishDigest ==
  /\ digest.phase = "active" /\ Added /\ digest.left = {}
  /\ digest' = [digest EXCEPT !.phase = "done", !.adds = None]
  /\ running' = running - 1
  /\ UNCHANGED <<mail, settings, optedIn, records, rejected>>

-----------------------------------------------------------------------------
\* The process stops and comes up again: what it held is gone, and Redis takes
\* back what was active.
AfterStop(m) ==
  CASE m.phase \in InMemory -> [m EXCEPT !.phase = "gone", !.row = None]
    [] m.phase \in Active -> [m EXCEPT !.phase = "waiting", !.stalls = @ + 1]
    [] OTHER -> m

Crash ==
  /\ mail' = [j \in Jobs |-> AfterStop(mail[j])]
  /\ digest' = IF digest.phase # "active" THEN digest
               ELSE IF digest.stalls = MaxStalled THEN [NoDigest EXCEPT !.phase = "failed"]
               ELSE [NoDigest EXCEPT !.phase = "waiting", !.stalls = digest.stalls + 1]
  /\ cached' = None /\ update' = "idle" /\ bury' = {} /\ report' = {}
  /\ running' = 0
  /\ UNCHANGED <<flag, optedIn, buried, reported, rejected>>

-----------------------------------------------------------------------------
AddStep(j) == CacheHit(j) \/ ReadFlag(j) \/ StoreFlag(j) \/ Enqueue(j)
WorkStep(j) == Pick(j) \/ Send(j) \/ Complete(j) \/ Fail(j) \/ FailStalled(j) \/ Retry(j)
RecordStep(j) == Bury(j) \/ Report(j)
DigestStep == Compile \/ FinishDigest \/ \E j \in Jobs, c \in Candidates : AddDigest(j, c)
FlagStep == WriteFlag \/ InvalidateFlag \/ ExpireFlag
Faults(j) == ReadFlagFails(j) \/ EnqueueFails(j) \/ BuryFails(j) \/ ReportFails(j)

Next ==
  \/ \E j \in Jobs : Add(j) \/ AddStep(j) \/ WorkStep(j) \/ RecordStep(j) \/ Faults(j)
  \/ Schedule \/ DigestStep \/ FlagStep \/ Crash

\* The process goes on with what it has begun and BullMQ with what Redis holds;
\* nobody need add a job or change the flag, and nothing need fail.
Fairness ==
  /\ \A j \in Jobs : WF_vars(AddStep(j)) /\ SF_vars(WorkStep(j))
                       /\ WF_vars(Bury(j)) /\ WF_vars(Report(j))
  /\ WF_vars(DigestStep)

Spec == Init /\ [][Next]_vars

-----------------------------------------------------------------------------
(* Properties.                                                             *)

\* A job BullMQ has given up is on record, or about to be ("without the second
\* condition a permanently rejected email would ... disappear with no durable
\* record").
FailureOnRecord ==
  \A j \in Jobs : Is(j, "failed") => j \in (bury \cup buried) \cap (report \cup reported)

\* A mail SES rejected for good is not sent again ("fail the job immediately
\* instead of burning two more attempts").
RejectedNotResent == \A j \in rejected : mail[j].phase \in {"permanent", "failed"}

\* The digest job ends only when there is a job for every candidate who wants
\* the digest, also when the process stopped half way; what the flag forbids
\* and what Redis refuses aside.
DigestReachesAll ==
  digest.phase = "done" =>
    \A c \in optedIn : \E j \in Jobs : mail[j].to = c /\ mail[j].phase \notin InMemory \cup {"gone"}

=============================================================================
