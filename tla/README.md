# Verification of Jobs For Women

TLA+ models, TLC runs and TLAPS proofs for the backend of the job board in this
repository (`src/backend`: Express, Prisma over PostgreSQL, Redis, BullMQ,
Socket.IO; `src/frontend`: React).  `PROJECT.json` maps every definition to the
lines it models and lists the runs, mutants, findings, hazards and theorems; this
document says what they are for.

Source paths below are relative to `src/backend/src` unless they start with `src/`.

## 1. The system

One Express process (or several, behind a balancer) serves candidates, recruiters
and administrators.  A handler is an `async` function.  **Every `await` of a Prisma
or Redis call is a point at which other requests run**: the code takes no locks,
sets no isolation level and writes almost every row with an unconditional
`update({ where: { id } })`.  Only what is inside one `prisma.$transaction` (or one
nested write) happens together.  So the typical handler is *read a row, decide on
what was read, write later*, and the typical hazard is that the row changed in
between or that the process stopped half way.  This is what the models keep: each
handler is a small process of database steps.

| Component | State it keeps | Operations | Hard behaviour | Correct when |
|---|---|---|---|---|
| Application pipeline (`modules/candidate`, `modules/recruiter`) | `Application` rows, their history, `Interview` rows, offer letters on disk | apply, withdraw, reapply, progress, schedule an interview, release an offer, delete the job | no uniqueness constraint on (job, candidate); guards on stale rows | one application per pair; a decided one does not move; the history tells the status |
| Sessions and tokens (`modules/auth`, `securityPolicy.middleware`) | `Session`, `RefreshToken`, `PasswordReset` rows, password, account status | log in (with a second factor), refresh, log out, change or reset the password, suspend, force logout, delete | rotation is find-then-revoke; a login in flight while the account is suspended | a token is used once and never revives; a barred account gains no session |
| Job lifecycle (`modules/recruiter`, `modules/admin`) | `Job.status`, `Job.visibility`, `JobStatusHistory`, company status | post, edit, duplicate, pause, resume, close, archive, delete; moderate; expire; suspend and reinstate the company | two state machines over one row, owned by different actors; a company-wide update of all rows | nothing is shown that no administrator let through; what was taken down stays down |
| Company lifecycle (`modules/admin`, `modules/company-verification`, `modules/recruiter`) | `Company.status`, recruiters' `User.status`, verification link and documents | verify the e-mail, fill in the profile, invite, verdict, resubmit by link, suspend, reinstate | one status shared by a form, a link and an administrator; a cascade over the team | approval follows a decision; suspension and reinstatement are mirror images; links are single use |
| Roles and permission cache (`modules/rbac`, `permissionCache`) | `UserRole` and `RolePermission` rows, roles in access tokens, Redis entries | assign and remove roles, edit what a role permits, change status, delete an account; look up, store and drop entries | guards count before they write; a stale entry may be stored after it was dropped | somebody is Super Admin; what is written is written for somebody who may |
| Browser session client (`src/frontend/src/api/client.ts`, `AuthContext.tsx`) | access token in the local storage, refresh cookie, user, live socket, two single-flight promises, a once-only flag | call, refresh, retry, log in, log out, load the page | two single-flights over one rotating cookie; answers that come after the page has moved on | concurrent 401s log nobody out; every call settles; user, token and socket belong together |
| Admin guard: login lockout (`loginSecurity`), rate limiter, session timeout and forced two-factor (`securityPolicy.middleware`) | failure and rate counters (Redis, or the memory of the process), `lockedUntil`, the policy row, its cached copy, `session:lastActive` keys, `Session.lastActiveAt` | count, lock, lift; call; note activity, expire, change the policy | INCR and EXPIRE are two commands; the lock is read before the password is compared; Redis comes and goes | a threshold bounds the guesses; no counter stays for ever; only idle sessions are expired, and they are |
| Queue, dead letters, scheduler, feature flag (`shared/queue`, `featureFlag`) | BullMQ jobs, the dead-letter queue, audit rows, the flag and its cache | add, work, retry, give up, record; the daily digest | retries of mail already rejected; a stop before the dead letter; a digest that starts over | every job is done or on record; what was rejected is not sent again; the digest leaves nobody out |
| Events and notifications (`shared/eventBus`, `shared/listeners`) | `Notification` and `AuditLog` rows, handlers in memory | publish; notify, audit, mail | fire-and-forget listeners, deduplication keys, fan-outs that fail half way | what is news reaches its reader; what matters goes on record; no handler hangs |
| Registration and invitations (`modules/auth`, `modules/admin`, `modules/recruiter`) | `User`, `Invitation`, `EmailVerification`, `Company` rows of one address | register (form or OAuth), verify, invite, resend, cancel, accept, create an administrator, decide on and delete the account | rows found by token and consumed later; they outlive the account they were made for | an invitation makes one account; a link is not spent before its account is verified; no company without a recruiter |
| Audit export and purge (`modules/admin`, `auditExportReceipt`) | `AuditLog` rows, a receipt in Redis or in memory | export, purge | the receipt is looked up and cleared in different steps, and Redis may have come or gone since; the row about the purge is written by a listener | nothing but a lost write costs the latest purge its trace; an export is good for one purge |
| Support tickets (`modules/support`) | `SupportTicket` rows | open, claim, change status, comment | claim decided on a stale row | one assignee; the time of resolution fits the status |
| Presence (`shared/socket`) | a Redis set of users | connect, disconnect | a set of users for several sockets | see section 5 |
| Reports, files, rendering, seeds, pages | – | read-only or input/output | – | not modelled |

Components meet in five places: the **account status** (written by administration
and by company suspension, read by login, refresh and `requireActiveUser`), the
**company status** (read by everything a recruiter does and by what the board
shows), the **job row** (its deletion removes applications), the **permission
cache** (dropped by every handler that changes an account) and **Redis** (one
instance for the counters, the policy, the permission cache and the queue; every reader has an
answer for its absence).  Notifications, mail and the audit log hang off an in-process
event bus and are not waited for, not even by an orderly shutdown.

## 2. The modules

`AbstractSpec <- Module <- MCModule <- ModuleProofs`.

| Module | Models | Lines of its own idea |
|---|---|---|
| `ApplicationPipeline` | `applyToJob`, `withdrawApplication`, `progressApplicant`, `scheduleInterview`, `releaseOffer`, `deleteJob` | one (candidate, job) pair; several rows may exist |
| `HiringProcess` | what the pipeline promises | a single stage that only moves forward |
| `AuthSessions` | login, refresh, logout, password change and reset, the administrator's actions and timeouts on one account | a *grant* is a session with its refresh token |
| `SessionLedger` | what sessions promise | grants issued once, to an active account |
| `JobLifecycle` | the recruiter's handlers, `moderateJob`, the nightly expiry, company suspension, over the jobs of one company | `granted` is the most an administrator has let a job do (a pause, an approval); `barred` says that a rejection or archiving stands |
| `CompanyLifecycle` | registration's result up to reinstatement, for one company and its team | `approvedOnce`, `reinstated`, `taken` remember decisions |
| `RoleAssignment` | the way in (`requireActiveUser`, `requireSuperAdmin`, `requirePermission`, `PermissionCacheManager`) and the handlers that change who holds a role or what it permits | `held` remembers the permissions an account has had |
| `ClientSession` | the API client's response interceptor, `AuthContext`'s login, logout and `refreshSession`, page loads; the server's answers | a step of the page ends at an `await`; an access token is the account it speaks for |
| `EventListeners` | `EventBus.publish`, the notification, audit and e-mail listeners | the handler of each event type is a *plan*: whom it tells, under which key (once per subject, per status or kind of submission, or per occurrence), what it looks up first, where it hands over to the audit listener |
| `JobQueue` | `addJob`, `isFeatureEnabled` and its cache, the e-mail worker, the `failed` handler, the daily digest; BullMQ as an external component | `attemptsMade` and stalls counted per job; a stop takes everything in memory |
| `AccountOpening` | registration, verification, invitations, `createAdmin`, status and deletion of the account of one e-mail address | the address is a unique key of three tables; `redeemed` counts the accounts an invitation has made |
| `AuditPurge` | `exportAuditLogsCsv`, `deleteAllAuditLogs`, the receipt, the audit listener and the insert it may lose | only the rows about purges are kept; `purged` and `exports` count what each Super Admin did, `missed` are the rows that were lost |
| `AdminGuard` | `loginSecurity`, `createRateLimiter`, `enforceAdminSessionTimeout`, `enforceTwoFactorPolicy`, the policy cache, `updateSecuritySettings` | time in whole units; `guesses` and `idle` remember what the thresholds are about |

`MCCompanyLifecycle` composes `CompanyLifecycle` and `AccountOpening`, `MCAdminGuard` composes
`AdminGuard` and `AuditPurge` (which share Redis), `MCBackground` composes `JobQueue` and
`EventListeners` (what runs behind the requests), each by an `INSTANCE ... WITH` that renames the
second module's variables.  A behaviour of these is about one of the two, so that the
state space is a sum and not a product.

How state and actions correspond to the code:

* A database column or row set is a variable; a request in flight is a record
  `req[s]` with the `step` it will take next and what it has read.  `BeginX` is the
  handler up to its first write (its reads and guards, decided at once when only one
  of them can change), and the actions named after the writes follow.  When
  the guards fail the request changes nothing: there is no step for it, or it is
  answered by `Abandon`.
* `$transaction` blocks are one step.  Two awaited calls are two steps.
* `Fail`/`Abandon` end a request between two steps: the process stops, the database
  refuses, Redis gives an error.  `MayFail = FALSE` removes this where a module has the
  constant.  `FailOpen` (`AdminGuard`) is the other kind: the code goes on without Redis.
  `Crash` (`JobQueue`) and `Fault` (`EventListeners`) end everything the process holds.
* Where a deadline matters only as "may have passed", expiry is a step that may happen at
  any moment.  Only `AdminGuard` compares two times, and has a clock.
* Variables commented *Observed* (`granted`, `barred`, `missed`, `retired`, `uses`,
  `approvedOnce`, `taken`, `held`, `told`, `guesses`, `idle`, ...) record history for the
  properties.  No guard reads them.
* Names, files, tokens and links are model values; dates, texts, mail and audit rows
  are left out, except the `JobStatusHistory` and `ApplicationStatusHistory` rows and the
  audit rows of the listeners and the queue, which properties are about.

## 3. The runs

A passing run explores several *loads* at once: MC modules add a variable (`load`,
or `work` and `mayFail`), chosen initially and never changed.

* **overlapping** – every step of every request may follow every other, and requests
  may fail anywhere.  Properties without a prefix hold here.
* **submissions** (`MCApplicationPipeline`) – like *overlapping*, where the candidate sends one request
  at a time and recruiters overlap; here the candidate's overlap beside one of a recruiter's.
* **serial** (in `MCAuthSessions`: **failing**) – a request starts when nothing is in
  flight, and may still fail half way.  Properties called `Serial...` are claimed for
  this load (and for *reliable*), because the code does not keep them
  when requests overlap; section 6 says how.
* **reliable** – no request stops half way (in `MCJobLifecycle` requests still overlap).
  Properties called `Reliable...` are claimed for this load only.
* **orderly** and **tangled** (`MCClientSession`) – API calls overlap in both; in *orderly*
  logins, logouts, page loads and the context's own refreshes wait for a quiet tab and
  nothing is lost, in *tangled* everything overlaps and any answer may be lost.
  `Orderly...` properties are claimed for the first.
* **flaky** and **failing** (`MCBackground`, of events) – queries of the notification listener
  fail; or anything does, the process included.  Under *flaky* the e-mail listener, which shares
  nothing with the notification listener, is done before that goes on.
* **steady** and **crashing** (`MCBackground`, of mails) – the process stays up and what the `failed`
  handler records is taken, while adding a job may fail and the flag changes; or the
  process stops and records are lost, the digest's mails being the only ones.  `Steady...` properties are claimed for the first.
* **logins** and **visits**, each with and without faults (`MCAdminGuard`) – people guess
  passwords and call; or an administrator uses the pages while the policy changes.
  `Steady...` properties are claimed for behaviours in which nothing fails.
* **purges** (`MCAdminGuard`) – Super Admins export and delete the activity log: overlapping,
  with a Redis that comes, goes and errs at any command, a query or an insert that fails, a
  process that stops; or one at a time, nothing failing, Redis coming and going between them
  (`SteadyOneExportOnePurge`).
* **address** (`MCCompanyLifecycle`) – the life of an e-mail address, under *overlapping*
  (requests overlap and complete, or are refused), *serial* (one at a time, stopping anywhere) and
  *reliable* (one at a time, completing).  Administrators decide on the account, and deadlines
  pass, while nothing is in flight.  `ReliableInvitationOpensOnce` is claimed
  for the first and the last, `ReliableCompaniesHaveFounders` for the last only.

| Run | Shows |
|---|---|
| `pipeline` | Overlapping recruiters and one request of the candidate: history and status agree, and nobody is `Hired` without an interview or offer before. Overlapping submissions beside a recruiter: there are at most as many applications for the posting as submissions that can overlap, so the lookup of an existing one keeps later ones out although rows are withdrawn, reopened and rejected. One request at a time: the handlers implement `HiringProcess`. |
| `auth` | Overlapping and failing: dead tokens stay dead, and an account that is not active gains no session. Serial: the handlers implement `SessionLedger`. Reliable: reset tokens work once, a suspension logs the account out. |
| `job` | Overlapping and failing: no posting reaches the board past every administrator (one has approved, resumed or at least paused it), and what was rejected or archived stays off until an administrator decides otherwise. Reliable: what is shown is on record. |
| `company` | Overlapping and failing: approval follows an administrator's decision. Serial: suspension and reinstatement leave nobody behind; links are single use. And the accounts of one address: a verification link is spent only after its account was verified, under every load; unless a request stops half way, an invitation makes one account, resent or not, also when that account is deleted; one at a time, a refused registration leaves no company behind. |
| `roles` | Serial: the guards of all handlers together keep a Super Admin. Reliable: what is written is written for somebody whose rows permit it, although roles come from a token and permissions from a cache. |
| `client` | Every call settles, whatever is lost, revoked or refused, and is retried at most once. Orderly: any number of calls that find the token expired share one refresh and log nobody out, and user, token and socket agree. |
| `background` | A job that was given up is in the dead-letter queue and the audit log, or about to be; a mail SES rejected for good is not sent again; the digest adds a mail for everybody who wants one, even if the process stops in the middle; every job that reached the queue is completed or becomes a dead letter. And of two events of each type: news reaches its reader each time, although deduplication keys suppress repetitions; the audit row is there once the handlers are done unless the database refused it; every handler comes to its end. |
| `guard` | While nothing fails, thresholds plus the requests in flight bound the wrong passwords judged before a lock; every counter is given its expiry; no session is expired before it has been idle for longer than the timeout, although the policy and its cache change. Nothing but a failing insert or a stop costs the latest purge of the activity log its row; one at a time, an export is good for one purge although its receipt may be in Redis, in memory, or in both. |
| `job_pause_pending` | *Expected violation.* One request at a time, none failing: an administrator pauses a job that waits for approval, its recruiter resumes it, and it is on the board though nobody approved it. |
| `auth_password_change` | *Expected violation.* After a password change, an earlier login is still refreshed: only `Session` rows are revoked. |
| `roles_last_admin` | *Expected violation.* Two overlapping requests each count the other's target, and no Super Admin is left. |
| `admin_idle_session` | *Expected violation.* With Redis up and nothing failing, a session idle for longer than the timeout is let through: `session:lastActive` is stored with the timeout as its time to live, and a missing key counts as activity. |

Types are checked where their proof came after the run (`TypeOK` and `EventsTyped` in
`background`) or where two modules meet (`AllTyped` stands for both modules of a
composition); elsewhere the theorem of section 4 says it.

`findings` quotes the sentence of the code or the schema each violation contradicts.
For `admin_idle_session` the repository's test (`src/backend/tests/admin.test.ts:1367`) mocks Redis
with a key that a real Redis would have dropped by then.

### Bounds, and why they are enough

* **Two or three requests in flight.**  A handler's decision is invalidated by one other
  write, so two overlapping requests already show each race; the pipeline
  has one more, so that two recruiters and the candidate meet, or the candidate twice and a recruiter.
* **Two rows, jobs, colleagues, links, accounts; three grants.**  Properties relate at
  most two of a kind (a row and its duplicate, two Super Admins); grants need three,
  for a login, its rotation and a rotation racing with it.
* `MaxHistory = 5`, `MaxInterviews = 2`: the longest forward path and a reapplication.  While
  submissions overlap, two of them beside one request of a recruiter: three rows, so that one too many is
  possible, and histories of `MaxShort = 3`, for a withdrawal and a reapplication.
* `MaxPasswords = 2` and `MaxChanges`: a change, a reset, and what was before.
* `MaxRacingJobs = 1`, `MaxRacing = 1`: jobs (links) meet only in company-wide updates,
  which the serial load explores with two.
* `MCRoleAssignment`: two accounts, one request at a time, since both properties are claimed
  for that.  Roles are edited only where all complete (who is Super Admin does not depend
  on permissions), and of the two only `Admin`, which may gain the right to edit roles.
  `FreeSpec`, for the expected violation, lets requests overlap; the proofs have no bound.
* `ClientSession`: one tab, one account, two calls beside the context's own; four serials
  distinguish the refresh tokens that cookie, flight, context and server may refer to at
  once (unused ones may be minted again); `Tells = 1` lets one `GET /auth/me` caused by a
  refresh overlap the rest; `MaxBusy = 2` things at once in a tangled tab, since each race is
  between two.
* `EventListeners`: one type of event in a behaviour and two occurrences of it, because a
  deduplication key relates two events about one subject; one fault or change.
  `MaxMatched = 1` of two candidates makes the cap of 100
  (`notification.listener.ts:1005`) bite.  Two details tell keys apart that carry a status or the kind of a
  submission; they are told apart only for the types that have them.
* `JobQueue`: two jobs (the digest's and one beside it), `Attempts = 2` where the code has 3,
  so that "again" and "the last time" both occur; one stall is forgiven, the second
  ends the job, as in BullMQ's default.  Two stops.  One candidate, who wants the digest; the flag
  has no row at first, and one change gives it any value.
* `AdminGuard`: one account, network and client, thresholds 2 and 3, timeouts of 1 and 3
  units: the account locks before the network is flagged, and a timeout can be made
  shorter or longer while a session is older than one and younger than the other.
  Ages and counts are told apart up to 4.  One fault and one change of policy.  Locks end and
  time passes while nothing is in flight; visits that may fail come one at a time;
  the timeout is changed, not switched on or off.
* `AccountOpening`: three accounts (one that has a row, one that follows it, one that
  races), two invitation tokens (an invitation and its resending).  `AuditPurge`: two Super Admins,
  three purges, two exports each: one purge after another, and one beside them; one failing query,
  insert or stop.
* Symmetry sets only permute model values that no action orders; runs with a liveness
  property have none.

`CHECK_DEADLOCK FALSE` everywhere: rows, grants, links, events and jobs are finite and used
up, and a system without requests is allowed to rest.

### Fairness and liveness

Handlers of requests get no fairness: one may always stop half way and nothing retries it.
Three components promise to come to an end, and their fairness is what
their scheduler gives:

* `ClientSession`: weak fairness of the server's answer to each call, of the refresh and
  of the context's refresh.  An answer may be an error or be lost; axios then rejects,
  which is a step of its own.  Nothing is assumed of users or faults.
* `EventListeners`: weak fairness of each handler's next step, as the event loop gives;
  every query settles, well or badly.
* `JobQueue`: weak fairness of what the process does, strong fairness of the worker's next
  step for a job, because with a concurrency of one and other jobs ready a waiting
  job is not continuously enabled; BullMQ takes the oldest first.

## 4. The proofs

Every proof module extends the MC module of its component.  A theorem says its property
of the specification that the column *Of* names: `Spec`, the component with any number
of overlapping requests, failures included; or `MCSpec`, the component under the loads
of its run, for every value of the constants where the run has one small value of each.
No theorem bounds the number of requests in flight, accounts, jobs, links or events;
properties called `Serial...`, `Reliable...`, `Orderly...` or `Steady...`
are claimed for the loads of that name, as in section 3.

Each argument has the same shape: the initial states satisfy an inductive invariant, every
action preserves it (one lemma per action, or per group of actions that only move a
request), and it implies the property.  The table says what the invariant adds to the
property, and why.

| Theorem | Property | Of | The strengthening, and why it is needed |
|---|---|---|---|
| `ApplicationPipelineProofs!TypeCorrect`, `TimelineMatchesStatus`, `OffersAreBacked`, `HiredAfterConsideration` | `TypeOK`, `HistoryTracksStatus`, `OfferBacked` (proved only), `HiredWasConsidered` | `Spec` | A request writes a status chosen from an earlier read.  `IInv` therefore says of every request in flight that its row exists while the posting does, that it only writes validated targets, and that one about to write `Hired` has an interview or an offer in its row's history. |
| `...!SubmissionsBoundApplications` | `ApplicationsBounded` | `Spec` | Rows are created only by requests that found none, and while one is about to, every row was created by a request that has done so since: rows and requests about to create one are together no more than the candidate's requests.  With one request at a time that is one row. |
| `...!HiringProcessImplemented` | `SerialHiringProcess` | `MCSpec` | With one request in flight, the row's status, while the row is there, still allows what the request decided on (`Fits`): only the posting may go in between, with all its rows. |
| `AuthSessionsProofs!TypeCorrect`, `NoTokenRevives` | `TypeOK`, `TokensNeverRevive` | `Spec` | A token is stored by a step that looks at nothing: `IInv` says that the grant being created has its session, has had no token, and belongs to one request. |
| `...!BarredDwindle` | `BarredAccountsDwindle` | `Spec` | Requests past their look at the account may still store a token for a barred one.  What is counted is the live tokens and the grants being minted together: storing trades one for the other, and nothing mints for an account that is not active. |
| `...!ResetSetsOnce`, `SuspendedStaysOut`, `LedgerImplemented` | `ReliableResetSingleUse`, `ReliableSuspendedLoggedOut`, `SerialSessionLedger` | `MCSpec` | `RunInv`: at most one request is in flight, and an account that was active when it was looked at still is.  If none stops half way, a link that set the password is spent or about to be, and the tokens of a suspended account are gone or about to go. |
| `JobLifecycleProofs!TypeCorrect`, `NothingShownUngranted` | `TypeOK`, `GrantedBeforeShown` | `Spec` | Recruiters write statuses read earlier and company-wide updates write visibility only: `IInv` says of each row, and of each status about to be written, that if it is approved or paused, an administrator has granted it (a pause counts, because a recruiter may resume it), or the write is itself the grant. |
| `...!BarredJobsStayOff` | `BarredStaysOff` | `Spec` | The same argument for the jobs that are not barred: `Covered` says it of any set of jobs, and `CoverKept` that it lasts as long as the set grows.  The set shrinks when a rejection or archiving bars a job; it does so only while no write that would approve or pause the job is on its way, so that no such write is left over. |
| `...!ShownJobsOnRecord` | `ReliableShownIsOnRecord` | `MCSpec` | And for the jobs on record, while handlers that are let through complete. |
| `RoleAssignmentProofs!TypeCorrect`, `CacheNeverInvents` | `TypeOK`, `CachedWasHeld` (proved only) | `Spec` | The rows' permissions, and those a request has read and will store, were held by the account they are stored for. |
| `...!SuperAdminStays` | `SerialSuperAdminRemains` | `MCSpec` | With one request in flight, the one about to take the role away, past its count, is still right that somebody else has it. |
| `...!OnlyThePermittedWrite` | `ReliableWritesPermitted` | `MCSpec` | While requests come one at a time and complete, an entry of the cache is what its account's rows permit, or the request in flight is about to drop it (`PermittedInv`); and whoever was let in, by cache or rows, still is permitted when the handler writes. |
| `ClientSessionProofs!TypeCorrect`, `NobodyWaitsInVain` | `TypeOK`, `WaitersHaveAFlight` (proved only) | `Spec` | A call waits only while the shared refresh is under way, and the step that settles the refresh empties the queue: with it, `EveryCallSettles` is a matter of fairness alone. |
| `...!QuietTabAgrees`, `SessionSurvives` | `OrderlyTabAgrees`, `OrderlySessionSurvives` | `MCSpec` | The tab is in one of three situations: the context asks who the user is (`Loading`), a user is shown (`InUse`), nobody is (`SignedOut`).  With a user there is always one good refresh token, in the cookie or in the answer on its way; without one the cookie is good for nothing. |
| `CompanyLifecycleProofs!TypeCorrect`, `ApprovalDecided` | `TypeOK`, `ApprovalWasDecided` | `Spec` | The profile form writes a status read earlier: `IInv` says of every request what it says of the company, that a status "approved" implies that an administrator has approved or reinstated it. |
| `...!LinksSingleUse`, `NobodyStaysSuspended` | `SerialLinkSingleUse`, `SerialNobodyLeftBehind` | `MCSpec` | With one request in flight, the open link, and the one a visitor has looked up, has not been used; a used link is closed.  Whoever is in `taken` is suspended with the company, and a request that reinstates it has found all of them. |
| `...!RowsTyped`, `InvitationsSingleUse`, `CompaniesFounded`, `LinksSpentLate` | `AllTyped`, `ReliableInvitationOpensOnce`, `ReliableCompaniesHaveFounders`, `VerifiedBeforeSpent` | `MCSpec` | Of an invitation: it is marked accepted before the account it made can go, so that whoever redeems it again finds the address taken.  Of companies: a registration about to make one finds the address as free as when it was accepted.  Of verification links: the request that spends one has verified the account. |
| `BackgroundProofs!TypeCorrect`, `DigestComplete` | `TypeOK`, `DigestReachesAll` | `Spec` | A job still to be tried has attempts left, and one being tried has not stalled too often.  While the digest's loop runs, each candidate it is past has a job that reached the queue, but for the one whose `addJob` it waits for. |
| `...!NoFailureUnrecorded`, `RejectionFinal` | `SteadyFailureOnRecord`, `SteadyRejectedNotResent` | `MCSpec` | While the process stays up, both are inductive beside `IInv`: only the step that ends a job as failed moves it, and that step hands over both records. |
| `...!ListenersTyped`, `NewsArrives` | `EventsTyped`, `ToldEachTime` | `MCSpec` | `ToldInv` follows a handler through its plan: past the step that tells whom the event is news for, each of them has heard of it; at that step, those who have not are in `todo`.  A row under a key with an occurrence's own stamp was told for that occurrence, so that finding it there skips nobody. |
| `...!EventsOnRecord` | `ReliableRecordKept` | `MCSpec` | An event that is to be recorded first is on record, about to be, or its handler is still at the first step with nobody to tell: no failing query comes before it. |
| `AdminGuardProofs!TypesCorrect` | `AllTyped` | `MCSpec` | `GuardInv` and `PurgeInv`: what a request holds at each of its steps. |
| `...!LatestPurgeTraced` | `LastTraceKeptOrMissed` | `MCSpec` | The latest purge's row is in the log, about to be written or published, or in `missed`: its insert failed, or the process stopped before it.  A purge removes the rows about earlier purges too; a request carries a row from the deletion on only, so that answering an export, or starting one, throws none away. |
| `...!OneDeletionAnExport` | `SteadyOneExportOnePurge` | `MCSpec` | `Ledger`: deletions made and receipts held, in Redis and in memory, are no more than the exports; while a deletion runs, its receipt may have expired and is still owed to it, and once the rows are gone the receipt about to be cleared pays for it. |
| `...!CountersExpire`, `GuessesAreBounded` | `SteadyCountersDie`, `SteadyGuessesBounded` | `MCSpec` | The wrong passwords judged since a fresh start are in the counter, or on their way to it, until the lock is set; from then on the requests still to be judged are what is left of the bound. |
| `...!ActiveSessionsKept` | `SteadyActiveKept` | `MCSpec` | No `lastActive` key, and no row that a request has read, is older than the session has been idle, and a key does not outlive the time it was set for. |

Assumptions: only the constants' (`PipelineAssumption`, `AuthAssumption`, `JobAssumption`,
`RoleAssumption`, `ClientAssumption`, `CompanyAssumption`, `AddressAssumption`, `QueueAssumption`,
`ListenersAssumption`, `GuardAssumption`, `PurgeAssumption`): `None` is none of the other values,
bounds are naturals, occurrences of events positive numbers, `MayFail` is Boolean; and, where
requests or tokens are counted (`ApplicationPipeline`, `AuthSessions`, `AdminGuard`), that there
are finitely many.  No theorem has another hypothesis.

The `TypeCorrect` theorems are why the runs of most modules do not check `TypeOK`.

Only model-checked: the liveness properties `EveryCallSettles`, `EveryHandlerSettles` and
`SteadyJobsSettle`.  Every invariant, action property and refinement that a passing run checks
has a theorem in the table.

Out of the prover's reach: liveness under fairness, `ENABLED`, and induction over
data; no module declares a `RECURSIVE` operator.

## 5. What is not modelled

* Parts listed in `PROJECT.json` as `not_modelled`: read-only queries, wiring,
  formatting, external services and pages (most of the front end's lines), so the share of
  all lines that the map covers is small; the parts that change state are where it is high.
* Presence (`shared/socket`): advisory, and wrong by design once the first of two tabs
  closes (`socket.ts:176`); there is no sequence of steps to search for.
* Support tickets: each operation is one read and one update of one row.  What goes wrong is
  a lost update (section 6), described there in full.
* `AuditPurge` keeps no rows but those about purges.  `AccountOpening` leaves
  out `BYPASS_EMAIL_VERIFICATION`, a development switch, the `OAuthAccount` row, and that a
  user with invitations to their name cannot be deleted.
* `deleteCompany` deletes files from the disk before the transaction that deletes the rows
  (`admin.service.ts:695`): if that fails, rows point to files that are gone.  Files are
  not modelled beyond the offer letter.
* Partly modelled: `CompanyLifecycle` leaves out perks, policies and the gallery;
  `RoleAssignment` leaves out creating, renaming and deleting roles and permissions (the
  names its guards ask for are fixed); `AdminGuard` leaves out enrolling and disabling the second factor.
* Isolation levels: each statement is taken as atomic, as PostgreSQL's Read Committed
  makes single-row updates.  A transaction is taken as atomic too: what the handlers modelled decide on is read
  before it starts, and that read is a step of its own.  The exception is
  `verifyCompany`, which looks up the team inside its transaction and uses only whose
  accounts they are.
* `docs/06_BACKEND.md:55` says the cron schedules are never registered; `server.ts:27`
  registers them, and the models follow the code.

## 6. Races the runs know of

The prefixes of the properties stand where overlapping requests or faults break a
property.  Those said to have a run are findings; the others were seen while
choosing the loads and are described here so that nobody takes a
prefix for a formality.

* *Pipeline.*  Two submissions of one form both find no application and store two
  (`candidate.service.ts:424`; the table has no unique key), although the comment at `:430` expects one
  application per pair; `ApplicationsBounded` says that it gets no worse.  `applyToJob` looks neither at the status nor at
  the visibility of the posting (`:403`), so one that is paused, rejected or archived takes
  applications.  `scheduleInterview` stores the interview before it moves the application
  (`recruiter.service.ts:1261`): if it stops between, the interview stays without the move, and
  the retry makes a second one.  A recruiter's decision overwrites
  another written since it read the row (`recruiter.service.ts:1128`), so an application may
  leave `Rejected`; a withdrawal (`candidate.service.ts:596`) and a reapplication (`:435`)
  likewise.  Interview and letter data are lost when a reapplication overlaps with a
  recruiter's handler.
* *Sessions.*  A login that read an active account stores its refresh token after a
  suspension has deleted the others (`auth.service.ts:620` for a refresh), and keeps it.
  Two submissions of one reset token both find it unused
  (`auth.service.ts:789`), although it is called single-use
  (`src/docs/09_AUTHENTICATION.md:86`).  Earlier logins survive a change of password:
  the run `auth_password_change`.  Two refreshes of one token both find it unrevoked (`:625`).
  Stopping between the password update and `markUsed` leaves the reset token open.
* *Jobs.*  A recruiter's `lifecycleJob` (`recruiter.service.ts:987`) overwrites a
  rejection written since it read the row; the approval of the company is checked by
  middleware before the handler (`rbac.middleware.ts:138`), so a job can be
  resumed while its company is being suspended.  A rejection overtaken by a write that was on its
  way is undone by it; `BarredStaysOff` is about rejections that are not.  If `moderateJob` stops between
  its update and the history row (`admin.service.ts:904`), a shown job has no row.
  Without any race: an administrator pauses a job that waits for approval
  (`admin.service.ts:866`), its recruiter resumes it (`recruiter.service.ts:970`), and it is
  published though nobody approved it, which the comment above `lifecycleJob` says cannot
  happen: the run `job_pause_pending`.  A recruiter resumes what an administrator paused; a paused
  job keeps its visibility; `moderateJob` does not look at the company, so that approving a job of a
  suspended one shows it; and reinstating a company shows again the jobs an administrator had hidden
  one by one.  `deleteUser`'s `archiveJobs` (`admin.service.ts:1171`) cannot succeed where it finds a
  job: the recruiter's profile, deleted in the same transaction, is still referred to by the archived
  job (`ON DELETE RESTRICT`, `prisma/migrations`), and the repository's test mocks Prisma.
* *Company.*  Recruiters to suspend are chosen before the transaction
  (`admin.service.ts:557`); two visits of one link both resubmit
  (`company-verification.service.ts:82`); documents are read before and written after an
  upload (`:137`), so one of two is lost; perk submissions and reviews have the same
  shape (`recruiter.service.ts:489`, `:552`); the form writes back the status it read
  (`recruiter.service.ts:416`).  Without any race, an e-mail verified late puts an
  account back to `PendingApproval` (`auth.service.ts:158`) and a candidate blocked before
  verifying to `Active`; reinstatement
  activates recruiters who had been suspended one by one (`admin.service.ts:619`), and a
  company that was never approved is approved by suspending and reinstating it.
* *Registration.*  An acceptance that stops between creating the account and marking
  the invitation leaves it open, and good for another account once the first is deleted
  (`auth.service.ts:727`).  Two registrations of one address at once both create a company, and the loser's
  stays `pending` without a recruiter (`auth.repository.ts:122`).  The verification row has no
  relation to the account: left by a deleted account, or by an OAuth registration that never
  used it, it verifies whoever has the address next, and puts an invited recruiter, active and
  at work, back to `PendingApproval` (`auth.service.ts:158`).  Cancelling a colleague's invitation deletes its
  row; an acceptance in flight then creates the account and fails at its last
  statement.  A pending account whose verification token has expired, or was never
  stored because the process stopped, cannot be verified: nothing resends it.
  `Invitation.email` is unique, so a colleague's invitation that expired cannot be made
  again (`recruiter.service.ts:1845`).
* *Roles.*  A cache miss may store what it read before a change after the change has
  dropped the entry (`permissionCache.ts:61`), and `invalidateAll` leaves what is stored
  between its KEYS and its DEL (`:91`); a failing Redis keeps the entry
  (`:79`); an edit may leave nobody who can edit roles, and `updateRole`, unlike
  `deleteRole`, does not spare the built-in names (`rbac.service.ts:96`); `deleteOwnAccount` has no Super Admin guard at all, which is why
  `SuperAdminRemains` excuses it (`left`).
* *Client.*  The refresh cookie's path is `/api/v1/auth/refresh` (`cookies.ts:8`), so it does
  not come with a logout, whose handler finds no token to revoke (`auth.controller.ts:208`):
  the refresh token lives on at the server, as it does if the logout's answer is lost.  In a tangled tab the two single-flights
  may present one token twice, and the second answer ends the session;
  the flag that a session has expired is cleared by loading the page only
  (`client.ts:31`), so a second expiry in one page leaves the user shown as logged in.
* *Listeners.*  A key without the moment of the event suppresses for 48 hours what may be
  news (`notification.listener.ts`, keys `once` in the plans); a failing insert ends the
  fan-out and the audit row behind it; where a handler looks something up first (the company of
  `PerkReviewed`, `notification.listener.ts:491`), so does a failing lookup; a stop of the process
  loses what was published.
* *Queue.*  A stop between SES's answer and BullMQ's note sends a mail twice, or sends again
  what was rejected; a stop or a failing Redis between giving up and recording loses the
  record; a digest that starts over sends again what it had sent; an opt-out during the digest's run
  comes too late; `addJob` swallows a failing Redis, and the caller goes on.
* *Guard.*  The Redis path of the timeout never looks at `Session.revoked`, and a refresh
  opens a new session, so timeouts of the access token's life or more never bite.
  `lastActiveAt` is written only while Redis is away, so the first request after Redis has
  gone may expire a session that was active all along; switching the timeout off and on again
  with a shorter one may as well.  A stop between INCR and EXPIRE leaves a counter without expiry: the
  network it counts is flagged for good.  Logins in flight are counted past the threshold;
  lifting a lock while a failed login is resetting the counter gives another round; when
  Redis comes or goes the counting starts anew.  Enrolling a second factor twice at once may store the pending
  secret of one after the other was confirmed (`twoFactor`).
* *Support.*  Two operators who claim a ticket at once both find it unassigned and the later
  write wins; `resolvedAt` is decided on the status read (`support.service.ts:209`).
* *Audit purge.*  Two purges at once ride on one receipt, although it is called single-use
  (`admin.service.ts:2163`, `auditExportReceipt.ts:74`); a DEL that fails in Redis leaves the receipt for
  another purge (`:80`).  A purge deletes rows written since the export its receipt is for, the row about
  an earlier purge among them; a stop of the process between deleting and
  publishing (`admin.service.ts:2173`), or a failing insert, which `createAuditLog` swallows
  (`audit.ts:37`), leaves no trace at all, which the
  comment at `admin.service.ts:2159` means to exclude; `LastTraceKeptOrMissed` says that nothing else does.

## 7. Plan

Done, in this order: `ApplicationPipeline`, `AuthSessions`, `JobLifecycle`,
`CompanyLifecycle`, `RoleAssignment` (what candidates, recruiters and administrators rely
on, and what guards it); then `ClientSession`, `JobQueue`, `EventListeners`, `AdminGuard`
(what retries, times out and is not waited for); then `AccountOpening` and `AuditPurge`.

Left: perks in `CompanyLifecycle`; the names of roles and permissions in `RoleAssignment`.

## 8. Running it

```
tlc -workers 2 -config pipeline.cfg MCApplicationPipeline.tla   # likewise the other runs
tlapm ApplicationPipelineProofs.tla                             # likewise the other proofs
```

Every property of a passing run has a mutant in `PROJECT.json`: a definition marked
*Mutated form* in the module (a dropped guard, a missing reset, a wrong row) with which
TLC finds the property violated under the same configuration.
