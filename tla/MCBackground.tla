----------------------------- MODULE MCBackground -----------------------------
(* Instances of JobQueue and of EventListeners for TLC: what runs behind the    *)
(* requests.  A behaviour is about one of the two, as its load says.            *)
(*                                                                              *)
(* Of mails: under the load "steady" the process stays up and Redis and the     *)
(* database take what the failed handler gives them, but adding jobs may fail   *)
(* and the flag changes; under "crashing" it is the other way round, and the    *)
(* digest's are the only mails.  Everybody wants the digest: who does not, has  *)
(* no part in it.  Identities of jobs, which are numbers, are used in order.    *)
(*                                                                              *)
(* Of events: in one behaviour all of them are of one type, chosen at the       *)
(* start, and published in the order of their numbers.  Under the load "flaky"  *)
(* a query of the notification listener may fail, and the e-mail listener,      *)
(* which has nothing to do with it, is done before it goes on; under "failing", *)
(* with a single event, anything may fail or stop, in any order.                *)
EXTENDS JobQueue

CONSTANTS
  MaxTroubles,  \* mails: stops in a behaviour, or else one lost record
  MaxChanges,   \* mails: changes and expiries of the flag in a behaviour;
                \* events: failures, and changes around the listeners
  Admins, Supporters, Matching, Owner, MaxMatched, Occurrences

ASSUME ListenersAssumption ==
  /\ Occurrences \subseteq Nat \ {0}
  /\ MaxMatched \in Nat
  /\ IsFiniteSet(Matching)

VARIABLES load, troubles, changes,
          event, bell, post, writing, audit, rows, queued, active, wanted, told, steady, type
mcVars == <<load, troubles, changes>>
eventVars == <<event, bell, post, writing, audit, rows, queued, active, wanted, told, steady, type>>

Events == INSTANCE EventListeners
  WITH Candidates <- Matching, mail <- post, optedIn <- wanted

OfMails == {"steady", "crashing"}
OfEvents == {"flaky", "failing"}

MCInit ==
  /\ Init /\ Events!Init /\ type \in Events!Types /\ troubles = 0 /\ changes = 0
  /\ flag = None
  /\ \/ /\ load \in OfMails
        /\ optedIn = Candidates
        /\ type = "UserRegistered" /\ wanted
     \/ /\ load \in OfEvents
        /\ type \in Events!MailedIfWanted \/ wanted  \* nothing else reads it
        /\ optedIn = {}

-----------------------------------------------------------------------------
RecordLost == \E j \in Jobs : BuryFails(j) \/ ReportFails(j)

MailsStep ==
  /\ \/ /\ UNCHANGED <<troubles, changes>>
        /\ \/ \E j \in Jobs : \/ load = "steady" /\ Add(j)
                              \/ AddStep(j) \/ WorkStep(j) \/ RecordStep(j)
                              \/ load = "steady" /\ (ReadFlagFails(j) \/ EnqueueFails(j))
           \/ Schedule \/ DigestStep \/ InvalidateFlag
     \/ /\ load = "steady" /\ changes < MaxChanges /\ changes' = changes + 1 /\ UNCHANGED troubles
        /\ WriteFlag \/ ExpireFlag
     \/ /\ load = "crashing" /\ UNCHANGED changes
        /\ \/ Crash /\ troubles < MaxTroubles /\ troubles' = troubles + 1
           \/ RecordLost /\ troubles = 0 /\ troubles' = MaxTroubles
  /\ \A i, j \in Jobs : i < j /\ Is(i, "none") => mail'[j] = NoMail

BellFault ==
  \E o \in Occurrences : Events!ReadFails(o) \/ \E u \in Events!People : Events!NotifyFails(o, u)

\* Only the keys of two types have a detail.
Details ==
  IF type \in {"PerkSubmitted", "ApplicationStatusChanged"} THEN Events!Detail ELSE {1}

EventsStep ==
  \/ /\ UNCHANGED changes
     /\ \/ \E o \in Occurrences, a \in BOOLEAN, d \in Details :
             /\ \A p \in Occurrences : p < o => event[p] # Events!NoEvent
             /\ load = "failing" => o = 1
             /\ Events!Publish(o, [type |-> type, addressed |-> a, detail |-> d])
        \/ /\ load = "flaky" => \A o \in Occurrences : post[o] \in {"none", "done"}
           /\ \E o \in Occurrences : Events!BellStep(o) \/ Events!WriteAudit(o)
        \/ \E o \in Occurrences : Events!MailStep(o) \/ Events!MailDropped(o)
  \/ /\ changes < MaxChanges /\ changes' = changes + 1
     /\ \/ load = "flaky" /\ BellFault
        \/ load = "failing" /\ Events!Fault
        \/ Events!Surroundings

MCNext ==
  /\ UNCHANGED <<load, type>>
  /\ \/ load \in OfMails /\ MailsStep /\ UNCHANGED eventVars
     \/ load \in OfEvents /\ EventsStep /\ UNCHANGED <<vars, troubles>>

MCSpec ==
  /\ MCInit /\ [][MCNext]_<<vars, mcVars, eventVars>>
  /\ Fairness /\ Events!Fairness

-----------------------------------------------------------------------------
\* As long as the process stays up and the records are taken.
SteadyFailureOnRecord == load = "steady" => FailureOnRecord

\* As long as the process does not stop between SES's answer and BullMQ's note.
SteadyRejectedNotResent == load = "steady" => RejectedNotResent

\* A job that reached the queue is completed or becomes a dead letter.
SteadyJobsSettle ==
  \A j \in Jobs :
    load = "steady" /\ Is(j, "waiting") ~> Is(j, "completed") \/ j \in buried

\* The listeners' handlers, rows and records have their types.
EventsTyped == Events!TypeOK

\* What is news of its own reaches everybody concerned each time it happens
\* (notification.listener.ts).
ToldEachTime == Events!ToldEachTime

\* As long as the audit listener's own write succeeds, what is recorded first
\* is on record when the handler is over.
ReliableRecordKept == load # "failing" => Events!RecordKept

\* Every handler ends.
EveryHandlerSettles == Events!EveryHandlerSettles
=============================================================================
