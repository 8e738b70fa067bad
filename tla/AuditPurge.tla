----------------------------- MODULE AuditPurge -----------------------------
(***************************************************************************)
(* The export of the activity log and its deletion.  An export leaves the  *)
(* Super Admin a receipt, in Redis or, while Redis does not answer, in the *)
(* memory of the process; deleteAllAuditLogs asks for one, uses it up, and *)
(* then publishes one row about itself, which the audit listener writes if *)
(* the insert succeeds.  Of the rows of the log these are kept here.       *)
(***************************************************************************)
EXTENDS Naturals, FiniteSets

CONSTANTS
  Operators,  \* Super Admins
  Traces,     \* identities of PURGE_AUDIT_LOGS rows
  Requests,   \* requests in flight at once
  MaxExports, \* exports of one operator
  None        \* no operator, no row

VARIABLES
  redis,     \* whether Redis answers
  receipt,   \* operators with a receipt in Redis
  memory,    \* operators with a receipt in the memory of the process
  log,       \* rows of AuditLog
  writing,   \* rows the audit listener is about to write
  purging,   \* what each request in flight has still to do
  (* Observed, read by no handler. *)
  exports,   \* how often each operator exported the log
  purged,    \* the deletions of each operator, by their rows
  last,      \* the row of the latest deletion
  missed     \* rows whose insert failed, or that a stop kept from the listener

vars == <<redis, receipt, memory, log, writing, purging, exports, purged, last, missed>>
receipts == <<receipt, memory>>
rows == <<log, writing>>
observed == <<exports, purged, last, missed>>

Request == [step  : {"idle", "record", "delete", "clear", "publish"},
            op    : Operators \cup {None},
            trace : Traces \cup {None}]
Idle == [step |-> "idle", op |-> None, trace |-> None]

At(s, step) == purging[s].step = step
Accept(s, held) == At(s, "idle") /\ purging' = [purging EXCEPT ![s] = held]
Respond(s) == purging' = [purging EXCEPT ![s] = Idle]

Used == UNION {purged[op] : op \in Operators} \cup {purging[s].trace : s \in Requests}

-----------------------------------------------------------------------------
(* exportAuditLogsCsv.                                                     *)

BeginExport(s) ==
  /\ \E op \in Operators :
       /\ exports[op] + Cardinality({r \in Requests : At(r, "record") /\ purging[r].op = op})
            < MaxExports
       /\ Accept(s, [Idle EXCEPT !.step = "record", !.op = op])
  /\ UNCHANGED <<redis, receipts, rows, observed>>

\* recordAuditExportReceipt; an error of Redis is answered like its absence.
RecordReceipt(s, up) ==
  /\ At(s, "record")
  /\ LET op == purging[s].op IN
       /\ IF up THEN receipt' = receipt \cup {op} /\ UNCHANGED memory
                ELSE memory' = memory \cup {op} /\ UNCHANGED receipt
       /\ exports' = [exports EXCEPT ![op] = @ + 1]
  /\ Respond(s)
  /\ UNCHANGED <<redis, rows, purged, last, missed>>

-----------------------------------------------------------------------------
(* deleteAllAuditLogs.                                                     *)

HasReceipt(op, up) == IF up THEN op \in receipt ELSE op \in memory

BeginPurge(s, up) ==
  /\ \E op \in Operators, t \in Traces \ Used :
       /\ HasReceipt(op, up)
       /\ Accept(s, [step |-> "delete", op |-> op, trace |-> t])
  /\ UNCHANGED <<redis, receipts, rows, observed>>

\* Mutated form: the row about the deletion is written first, and goes with
\* the others.
DeleteRowsTracedFirst(s) ==
  /\ At(s, "delete")
  /\ log' = {}
  /\ purged' = [purged EXCEPT ![purging[s].op] = @ \cup {purging[s].trace}]
  /\ last' = purging[s].trace
  /\ Respond(s)
  /\ UNCHANGED <<redis, receipts, writing, exports, missed>>

DeleteRows(s) ==
  /\ At(s, "delete")
  /\ log' = {}
  /\ purged' = [purged EXCEPT ![purging[s].op] = @ \cup {purging[s].trace}]
  /\ last' = purging[s].trace
  /\ purging' = [purging EXCEPT ![s].step = "clear"]
  /\ UNCHANGED <<redis, receipts, writing, exports, missed>>

\* Mutated form: what is in memory is taken for a copy of what is in Redis.
ClearReceiptOnce(s, up) ==
  /\ At(s, "clear")
  /\ receipt' = IF up THEN receipt \ {purging[s].op} ELSE receipt
  /\ purging' = [purging EXCEPT ![s].step = "publish"]
  /\ UNCHANGED <<redis, memory, rows, observed>>

\* clearAuditExportReceipt, which clears the memory in any case.
ClearReceipt(s, up) ==
  /\ At(s, "clear")
  /\ receipt' = IF up THEN receipt \ {purging[s].op} ELSE receipt
  /\ memory' = memory \ {purging[s].op}
  /\ purging' = [purging EXCEPT ![s].step = "publish"]
  /\ UNCHANGED <<redis, rows, observed>>

PublishTrace(s) ==
  /\ At(s, "publish")
  /\ writing' = writing \cup {purging[s].trace}
  /\ Respond(s)
  /\ UNCHANGED <<redis, receipts, log, observed>>

\* The query of an export, or the deletion, fails.
Abandon(s) ==
  /\ At(s, "record") \/ At(s, "delete")
  /\ Respond(s)
  /\ UNCHANGED <<redis, receipts, rows, observed>>

-----------------------------------------------------------------------------
\* Rows about deletions that are done, not yet published or not yet written.
OnItsWay ==
  writing \cup {purging[s].trace : s \in {r \in Requests : At(r, "clear") \/ At(r, "publish")}}

\* The audit listener.
WriteTrace ==
  /\ \E t \in writing : writing' = writing \ {t} /\ log' = log \cup {t}
  /\ UNCHANGED <<redis, receipts, purging, observed>>

\* createAuditLog catches the failing insert, logs it, and that is all.
TraceFails ==
  /\ \E t \in writing : writing' = writing \ {t} /\ missed' = missed \cup {t}
  /\ UNCHANGED <<redis, receipts, log, purging, exports, purged, last>>

\* The process stops, with the requests and events in it, and starts anew.
Stop ==
  /\ missed' = missed \cup OnItsWay
  /\ purging' = [s \in Requests |-> Idle]
  /\ memory' = {} /\ writing' = {}
  /\ UNCHANGED <<redis, receipt, log, exports, purged, last>>

\* A receipt is good for ten minutes, in Redis and in memory.
ReceiptExpires ==
  /\ \E op \in Operators :
       \/ op \in receipt /\ receipt' = receipt \ {op} /\ UNCHANGED memory
       \/ op \in memory /\ memory' = memory \ {op} /\ UNCHANGED receipt
  /\ UNCHANGED <<redis, rows, purging, observed>>

RedisTurns ==
  /\ redis' = ~redis
  /\ UNCHANGED <<receipts, rows, purging, observed>>

\* Redis answers this command, or not.
HandlerStep(s, up) ==
  \/ BeginExport(s) \/ RecordReceipt(s, up)
  \/ BeginPurge(s, up) \/ DeleteRows(s) \/ ClearReceipt(s, up) \/ PublishTrace(s)

Fault == (\E s \in Requests : Abandon(s)) \/ TraceFails \/ Stop

Init ==
  /\ redis \in BOOLEAN
  /\ receipt = {} /\ memory = {} /\ log = {} /\ writing = {}
  /\ purging = [s \in Requests |-> Idle]
  /\ exports = [op \in Operators |-> 0]
  /\ purged = [op \in Operators |-> {}] /\ last = None /\ missed = {}

Next ==
  \/ \E s \in Requests : HandlerStep(s, redis) \/ HandlerStep(s, FALSE)
  \/ WriteTrace \/ ReceiptExpires \/ RedisTurns \/ Fault

Spec == Init /\ [][Next]_vars

-----------------------------------------------------------------------------
(* Properties.                                                             *)

\* Receipts, rows and requests have their types.
TypeOK ==
  /\ redis \in BOOLEAN
  /\ receipt \subseteq Operators /\ memory \subseteq Operators
  /\ log \subseteq Traces /\ writing \subseteq Traces
  /\ purging \in [Requests -> Request]
  /\ exports \in [Operators -> 0..MaxExports]
  /\ purged \in [Operators -> SUBSET Traces]
  /\ last \in Traces \cup {None} /\ missed \subseteq Traces

\* The latest deletion leaves its trace ("One new AuditLog row is written
\* immediately after the purge"): its row is in the log, about to be written
\* or about to be published.  Overlapping deletions, expiring receipts and a
\* Redis that comes, goes and errs do not cost it the row; only a failing
\* insert or a stop between the deletion and the insert does.
LastTraceKeptOrMissed == last # None => last \in log \cup OnItsWay \cup missed

\* An export is good for one deletion ("The receipt is single-use").
OneExportOnePurge == \A op \in Operators : Cardinality(purged[op]) <= exports[op]
=============================================================================
