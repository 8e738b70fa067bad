--------------------------- MODULE AdminGuardProofs ---------------------------
(***************************************************************************)
(* Proofs about AdminGuard and AuditPurge, as MCAdminGuard runs them.      *)
(*                                                                         *)
(* The invariant has a part for each property.  GuardInv and PurgeInv are  *)
(* about types, and about what a request holds at each of its steps.       *)
(* CounterInv says that counters are where Redis, or its absence, puts     *)
(* them.  GuessInv counts: the wrong passwords judged since a fresh start  *)
(* are in the counter, or on their way to it, until the lock is set; from  *)
(* then on the requests still to be judged are what is left of the bound.  *)
(* ActiveInv says that no key, and no row that is read, is older than the  *)
(* session has been idle.  Ledger keeps the receipts an operator holds,    *)
(* and the deletion that is using one, against the exports made.           *)
(***************************************************************************)
EXTENDS MCAdminGuard, FiniteSetTheorems, TLAPS

-----------------------------------------------------------------------------
(* AdminGuard: types.                                                      *)

\* Where a request has its session, and where it goes by a timeout.
Gated == {"policy", "store", "lookup", "touch", "row", "touchRow", "revoke",
          "revokeToken", "forget"}
Timed == {"lookup", "touch", "row", "touchRow"}

\* What a request holds at each of its steps.
Shaped(q) ==
  /\ q.step = "network" =>
       q.who \in Accounts /\ q.from \in Networks /\ q.todo = {q.who, q.from} /\ q.fresh = {}
  /\ q.step = "count" /\ q.who # None => q.who \in Accounts /\ q.from \in Networks /\ ~q.right
  /\ q.step \in {"count", "clear"} => q.todo \cap Accounts \subseteq {q.who}
  /\ q.step = "clear" => q.who \in Accounts
  /\ q.step \in Gated => q.session \in Sessions
  /\ q.step \in Timed => q.gate = "timeout" /\ q.policy \in Timeouts
  /\ q.step = "store" => q.policy \in Policies

ReqOK == req \in [Requests -> Request] /\ \A r \in Requests : Shaped(req[r])

\* A key is there for less long than it was set for.
KeyFresh(s) == session[s].key # None => session[s].key.age < session[s].key.life
SessionOK == session \in [Sessions -> Session] /\ \A s \in Sessions : KeyFresh(s)

CountOK ==
  /\ count \in [Counters -> 0..MaxCount] /\ local \in [Counters -> 0..MaxCount]
  /\ windowed \subseteq {k \in Counters : count[k] > 0}

RestOK ==
  /\ redis \in BOOLEAN /\ locked \subseteq Accounts
  /\ policy \in Policies /\ cached \in Policies \cup {None}
  /\ guesses \in [Accounts -> 0..MaxCount] /\ idle \in [Sessions -> Ages]

GuardInv == ReqOK /\ SessionOK /\ CountOK /\ RestOK

LEMMA GuardTyped == GuardInv => TypeOK
BY DEF GuardInv, ReqOK, SessionOK, CountOK, RestOK, KeyFresh, TypeOK

LEMMA StepNames ==
  /\ Steps = {"idle", "network", "count", "lock", "clear", "policy", "store", "lookup",
              "touch", "row", "touchRow", "revoke", "revokeToken", "forget",
              "savePolicy", "invalidate"}
  /\ Gated = {"policy", "store", "lookup", "touch", "row", "touchRow", "revoke",
              "revokeToken", "forget"}
  /\ Timed = {"lookup", "touch", "row", "touchRow"}
BY DEF Steps, Gated, Timed

LEMMA IdleShaped == Idle \in Request /\ Shaped(Idle) /\ Idle.step = "idle"
<1>1. Idle \in Request
  BY GuardAssumption, StepNames DEF Idle, Request
<1> QED
  BY <1>1, StepNames DEF Idle, Shaped

\* A request that changes what it holds leaves the others alone.
LEMMA HoldKeeps ==
  ASSUME ReqOK, NEW r \in Requests, NEW q \in Request, Shaped(q), Hold(r, q)
  PROVE  ReqOK' /\ req'[r] = q /\ \A t \in Requests \ {r} : req'[t] = req[t]
BY DEF ReqOK, Hold

LEMMA RespondKeeps ==
  ASSUME ReqOK, NEW r \in Requests, Respond(r)
  PROVE  ReqOK' /\ req'[r] = Idle /\ \A t \in Requests \ {r} : req'[t] = req[t]
BY IdleShaped, HoldKeeps DEF Respond

\* A step to another point of the request's way.
LEMMA GoKeeps ==
  ASSUME ReqOK, NEW r \in Requests, NEW step \in Steps, Go(r, step),
         Shaped([req[r] EXCEPT !.step = step])
  PROVE  ReqOK' /\ req'[r] = [req[r] EXCEPT !.step = step]
         /\ \A t \in Requests \ {r} : req'[t] = req[t]
<1>1. req[r] \in Request
  BY DEF ReqOK
<1>2. [req[r] EXCEPT !.step = step] \in Request
  BY <1>1 DEF Request
<1> QED
  BY <1>2, HoldKeeps DEF Go

LEMMA SessionKeeps ==
  ASSUME SessionOK, NEW s \in Sessions, NEW new \in Session,
         new.key # None => new.key.age < new.key.life,
         session' = [session EXCEPT ![s] = new]
  PROVE  SessionOK' /\ session'[s] = new /\ \A t \in Sessions \ {s} : session'[t] = session[t]
<1>1. session' \in [Sessions -> Session] /\ session'[s] = new
      /\ \A t \in Sessions \ {s} : session'[t] = session[t]
  BY DEF SessionOK
<1> QED
  BY <1>1 DEF SessionOK, KeyFresh

-----------------------------------------------------------------------------
\* The counters: what a count, a window, and a clearing do.
LEMMA UpTyped == \A n \in 0..MaxCount : Up(n) \in 0..MaxCount /\ Up(n) > 0 /\ n <= Up(n)
BY GuardAssumption DEF Up

LEMMA CountTyped ==
  ASSUME GuardInv, NEW r \in Requests, NEW k \in Counters, Count(r, k)
  PROVE  GuardInv'
<1>1. req[r] \in Request /\ Shaped(req[r])
  BY DEF GuardInv, ReqOK
<1>2. count[k] \in 0..MaxCount /\ Up(count[k]) \in 0..MaxCount /\ Up(count[k]) > 0
  BY UpTyped DEF GuardInv, CountOK
<1>3. CountOK'
  BY <1>2 DEF GuardInv, CountOK, Count
<1>4. ReqOK'
  <2> DEFINE q == [req[r] EXCEPT !.todo = @ \ {k}, !.seen = Seen(r, k, Up(count[k])),
                                 !.fresh = IF count[k] = 0 THEN @ \cup {k} ELSE @]
  <2>1. Seen(r, k, Up(count[k])) \in 0..MaxCount
    BY <1>1, <1>2 DEF Seen, Request
  <2>2. q \in Request
    BY <1>1, <2>1 DEF Request
  <2>3. q.step = "count" /\ q.who = req[r].who /\ q.from = req[r].from
        /\ q.right = req[r].right /\ q.todo \subseteq req[r].todo
    BY <1>1 DEF Request, Count, At
  <2>4. Shaped(q)
    BY <1>1, <2>3, StepNames DEF Shaped, Count, At
  <2>5. Hold(r, q)
    BY DEF Count
  <2> HIDE DEF q
  <2> QED
    BY <2>2, <2>4, <2>5, HoldKeeps DEF GuardInv
<1> QED
  BY <1>3, <1>4 DEF GuardInv, SessionOK, KeyFresh, RestOK, Count, rules

LEMMA SetWindowTyped ==
  ASSUME GuardInv, NEW r \in Requests, NEW k \in Counters, SetWindow(r, k)
  PROVE  GuardInv'
<1>1. req[r] \in Request /\ Shaped(req[r])
  BY DEF GuardInv, ReqOK
<1>2. CountOK'
  BY DEF GuardInv, CountOK, SetWindow
<1>3. ReqOK'
  <2> DEFINE q == [req[r] EXCEPT !.fresh = @ \ {k}]
  <2>1. q \in Request /\ q.step = "count" /\ q.who = req[r].who /\ q.from = req[r].from
        /\ q.right = req[r].right /\ q.todo \subseteq req[r].todo
    BY <1>1 DEF Request, SetWindow, At
  <2>2. Shaped(q)
    BY <1>1, <2>1, StepNames DEF Shaped, SetWindow, At
  <2>3. Hold(r, q)
    BY DEF SetWindow
  <2> HIDE DEF q
  <2> QED
    BY <2>1, <2>2, <2>3, HoldKeeps DEF GuardInv
<1> QED
  BY <1>2, <1>3 DEF GuardInv, SessionOK, KeyFresh, RestOK, SetWindow, rules

LEMMA CountInMemoryTyped ==
  ASSUME GuardInv, NEW r \in Requests, NEW k \in Counters, CountInMemory(r, k)
  PROVE  GuardInv'
<1>1. req[r] \in Request /\ Shaped(req[r])
  BY DEF GuardInv, ReqOK
<1>2. Up(local[k]) \in 0..MaxCount
  BY UpTyped DEF GuardInv, CountOK
<1>3. CountOK'
  BY <1>2 DEF GuardInv, CountOK, CountInMemory, CountLocally
<1>4. ReqOK'
  <2> DEFINE q == [req[r] EXCEPT !.todo = @ \ {k}, !.fresh = @ \ {k},
                                 !.seen = Seen(r, k, Up(local[k]))]
  <2>1. Seen(r, k, Up(local[k])) \in 0..MaxCount
    BY <1>1, <1>2 DEF Seen, Request
  <2>2. q \in Request
    BY <1>1, <2>1 DEF Request
  <2>3. q.step = "count" /\ q.who = req[r].who /\ q.from = req[r].from
        /\ q.right = req[r].right /\ q.todo \subseteq req[r].todo
    BY <1>1 DEF Request, CountInMemory, At
  <2>4. Shaped(q)
    BY <1>1, <2>3, StepNames DEF Shaped, CountInMemory, At
  <2>5. Hold(r, q)
    BY DEF CountInMemory, CountLocally
  <2> HIDE DEF q
  <2> QED
    BY <2>2, <2>4, <2>5, HoldKeeps DEF GuardInv
<1> QED
  BY <1>3, <1>4 DEF GuardInv, SessionOK, KeyFresh, RestOK, CountInMemory, rules

LEMMA ClearTyped ==
  ASSUME GuardInv, NEW r \in Requests, NEW k \in Counters, Clear(r, k)
  PROVE  GuardInv'
<1>1. req[r] \in Request /\ Shaped(req[r])
  BY DEF GuardInv, ReqOK
<1>2. CountOK'
  <2>1. local' \in [Counters -> 0..MaxCount]
    BY GuardAssumption DEF GuardInv, CountOK, Clear
  <2>2. CASE redis
    BY <2>1, <2>2, GuardAssumption DEF GuardInv, CountOK, Clear
  <2>3. CASE ~redis
    BY <2>1, <2>3 DEF GuardInv, CountOK, Clear
  <2> QED
    BY <2>2, <2>3
<1>3. ReqOK'
  <2> DEFINE q == [req[r] EXCEPT !.todo = @ \ {k}]
  <2>1. q \in Request /\ q.step = "clear" /\ q.who = req[r].who /\ q.todo \subseteq req[r].todo
    BY <1>1 DEF Request, Clear, At
  <2>2. Shaped(q)
    BY <1>1, <2>1, StepNames DEF Shaped, Clear, At
  <2>3. Hold(r, q)
    BY DEF Clear
  <2> HIDE DEF q
  <2> QED
    BY <2>1, <2>2, <2>3, HoldKeeps DEF GuardInv
<1>4. guesses' \in [Accounts -> 0..MaxCount]
  BY GuardAssumption DEF GuardInv, RestOK, Clear
<1> QED
  BY <1>2, <1>3, <1>4 DEF GuardInv, SessionOK, KeyFresh, RestOK, Clear, rules

-----------------------------------------------------------------------------
\* Logging in.
LEMMA LogInTyped ==
  ASSUME GuardInv, NEW r \in Requests, LogIn(r)
  PROVE  GuardInv'
<1>1. PICK a \in Accounts \ locked, n \in Networks, right \in BOOLEAN :
        Accept(r, [Idle EXCEPT !.step = "network", !.who = a, !.from = n, !.right = right,
                               !.todo = {a, n}])
  BY DEF LogIn
<1> DEFINE q == [Idle EXCEPT !.step = "network", !.who = a, !.from = n, !.right = right,
                             !.todo = {a, n}]
<1>2. q \in Request
  <2>1. {a, n} \in SUBSET Counters
    BY DEF Counters
  <2> QED
    BY <2>1, IdleShaped, StepNames DEF Request
<1>3. Shaped(q)
  <2>1. q.step = "network" /\ q.who = a /\ q.from = n /\ q.todo = {a, n} /\ q.fresh = {}
    BY DEF Idle
  <2> HIDE DEF q
  <2> QED
    BY <2>1, StepNames DEF Shaped
<1>4. Hold(r, q)
  BY <1>1 DEF Accept
<1> HIDE DEF q
<1>5. ReqOK'
  BY <1>2, <1>3, <1>4, HoldKeeps DEF GuardInv
<1> QED
  BY <1>5 DEF GuardInv, SessionOK, KeyFresh, CountOK, RestOK, LogIn, rules, counters

LEMMA CallTyped ==
  ASSUME GuardInv, NEW r \in Requests, Call(r)
  PROVE  GuardInv'
<1>1. PICK c \in Clients : Accept(r, [Idle EXCEPT !.step = "count", !.todo = {c}])
  BY DEF Call
<1> DEFINE q == [Idle EXCEPT !.step = "count", !.todo = {c}]
<1>2. q \in Request
  <2>1. {c} \in SUBSET Counters
    BY DEF Counters
  <2> QED
    BY <2>1, IdleShaped, StepNames DEF Request
<1>3. Shaped(q)
  <2>1. q.step = "count" /\ q.who = None /\ q.todo = {c}
    BY DEF Idle
  <2>2. c \notin Accounts
    BY GuardAssumption
  <2> HIDE DEF q
  <2> QED
    BY <2>1, <2>2, StepNames DEF Shaped
<1>4. Hold(r, q)
  BY <1>1 DEF Accept
<1> HIDE DEF q
<1>5. ReqOK'
  BY <1>2, <1>3, <1>4, HoldKeeps DEF GuardInv
<1> QED
  BY <1>5 DEF GuardInv, SessionOK, KeyFresh, CountOK, RestOK, Call, rules, counters

LEMMA CompareTyped ==
  ASSUME GuardInv, NEW r \in Requests, Compare(r)
  PROVE  GuardInv'
<1>1. /\ req[r] \in Request /\ Shaped(req[r]) /\ req[r].step = "network"
      /\ req[r].who \in Accounts /\ req[r].from \in Networks
      /\ req[r].todo = {req[r].who, req[r].from}
  BY DEF GuardInv, ReqOK, Compare, At, Shaped
<1>2. PICK step \in {"clear", "count"} : Go(r, step) /\ (step = "count" => ~req[r].right)
  BY DEF Compare
<1>3. Shaped([req[r] EXCEPT !.step = step])
  <2> DEFINE q == [req[r] EXCEPT !.step = step]
  <2>1. /\ q.step = step /\ q.who = req[r].who /\ q.from = req[r].from
        /\ q.right = req[r].right /\ q.todo = req[r].todo
    BY <1>1 DEF Request
  <2>2. req[r].from \notin Accounts
    BY <1>1, GuardAssumption
  <2> HIDE DEF q
  <2>3. Shaped(q)
    BY <1>1, <1>2, <2>1, <2>2, StepNames DEF Shaped
  <2> QED
    BY <2>3 DEF q
<1>4. ReqOK'
  BY <1>2, <1>3, GoKeeps, StepNames DEF GuardInv
<1>5. guesses' \in [Accounts -> 0..MaxCount]
  BY <1>1, UpTyped DEF GuardInv, RestOK, Compare
<1> QED
  BY <1>4, <1>5 DEF GuardInv, SessionOK, KeyFresh, CountOK, RestOK, Compare, rules, counters

LEMMA LockTyped ==
  ASSUME GuardInv, NEW r \in Requests, Lock(r)
  PROVE  GuardInv'
<1>1. /\ req[r] \in Request /\ req[r].who \in Accounts /\ req[r].from \in Networks
      /\ locked' = locked \cup {req[r].who}
  BY DEF GuardInv, ReqOK, Lock, Counted, At, Shaped
<1> DEFINE q == [req[r] EXCEPT !.step = "clear", !.todo = {req[r].who, req[r].from}]
<1>2. /\ q \in Request /\ q.step = "clear" /\ q.who = req[r].who
      /\ q.todo = {req[r].who, req[r].from}
  BY <1>1, StepNames DEF Request, Counters
<1>3. Shaped(q)
  <2>1. req[r].from \notin Accounts
    BY <1>1, GuardAssumption
  <2> HIDE DEF q
  <2> QED
    BY <1>1, <1>2, <2>1, StepNames DEF Shaped
<1>4. Hold(r, q)
  BY DEF Lock
<1> HIDE DEF q
<1>5. ReqOK'
  BY <1>2, <1>3, <1>4, HoldKeeps DEF GuardInv
<1> QED
  BY <1>1, <1>5 DEF GuardInv, SessionOK, KeyFresh, CountOK, RestOK, Lock, rules, counters

\* A session is opened as it is made.
LEMMA OpenedTyped == Opened \in Session /\ Opened.key = None /\ Opened.row = 0
<1>1. Unopened \in Session
  BY GuardAssumption DEF Unopened, Session, Ages
<1>2. Opened \in Session
  BY <1>1 DEF Opened, Session
<1> QED
  BY <1>2 DEF Opened, Unopened

LEMMA OpenKeeps ==
  ASSUME SessionOK, Open
  PROVE  SessionOK'
BY OpenedTyped, SessionKeeps DEF Open, SessionOK, KeyFresh

LEMMA ClearedTyped ==
  ASSUME GuardInv, NEW r \in Requests, Cleared(r)
  PROVE  GuardInv'
<1>1. SessionOK'
  BY OpenKeeps DEF GuardInv, SessionOK, KeyFresh, Cleared
<1>2. ReqOK'
  BY RespondKeeps DEF GuardInv, Cleared
<1> QED
  BY <1>1, <1>2 DEF GuardInv, CountOK, RestOK, Cleared, rules, counters

\* Steps that answer, and change nothing else.
LEMMA AnswerTyped ==
  ASSUME GuardInv, NEW r \in Requests, NetworkFlagged(r) \/ Refuse(r) \/ CallCounted(r)
  PROVE  GuardInv'
<1>1. ReqOK'
  BY RespondKeeps DEF GuardInv, NetworkFlagged, Refuse, CallCounted
<1> QED
  BY <1>1 DEF GuardInv, SessionOK, KeyFresh, CountOK, RestOK, NetworkFlagged, Refuse,
     CallCounted, rules, counters

-----------------------------------------------------------------------------
\* An admin request.
LEMMA VisitTyped ==
  ASSUME GuardInv, NEW r \in Requests, Visit(r)
  PROVE  GuardInv'
<1>1. PICK s \in Sessions : Accept(r, [Idle EXCEPT !.step = "policy", !.session = s])
  BY DEF Visit
<1> DEFINE q == [Idle EXCEPT !.step = "policy", !.session = s]
<1>2. q \in Request /\ q.step = "policy" /\ q.session = s
  BY IdleShaped, StepNames DEF Request
<1>3. Hold(r, q)
  BY <1>1 DEF Accept
<1> HIDE DEF q
<1>4. Shaped(q)
  BY <1>2, StepNames DEF Shaped
<1>5. ReqOK'
  BY <1>2, <1>3, <1>4, HoldKeeps DEF GuardInv
<1> QED
  BY <1>5 DEF GuardInv, SessionOK, KeyFresh, CountOK, RestOK, Visit, rules, counters

LEMMA PassKeeps ==
  ASSUME ReqOK, RestOK, NEW r \in Requests, req[r].session \in Sessions, Pass(r)
  PROVE  ReqOK' /\ idle' \in [Sessions -> Ages]
<1>1. CASE req[r].gate = "timeout"
  <2> DEFINE q == [req[r] EXCEPT !.step = "policy", !.gate = "force", !.policy = None]
  <2>1. req[r] \in Request
    BY DEF ReqOK
  <2>2. q \in Request /\ q.step = "policy" /\ q.session \in Sessions
    BY <2>1, StepNames DEF Request
  <2>3. Hold(r, q) /\ idle' = [idle EXCEPT ![req[r].session] = 0]
    BY <1>1 DEF Pass
  <2> HIDE DEF q
  <2>4. Shaped(q)
    BY <2>2, StepNames DEF Shaped
  <2>5. idle' \in [Sessions -> Ages]
    BY <2>3, GuardAssumption DEF RestOK, Ages
  <2> QED
    BY <2>2, <2>3, <2>4, <2>5, HoldKeeps
<1>2. CASE req[r].gate # "timeout"
  BY <1>2, RespondKeeps DEF Pass, RestOK
<1> QED
  BY <1>1, <1>2

LEMMA ApplyKeeps ==
  ASSUME ReqOK, RestOK, NEW r \in Requests, req[r].session \in Sessions,
         NEW p \in Policies, Apply(r, p)
  PROVE  ReqOK' /\ idle' \in [Sessions -> Ages]
<1>1. CASE req[r].gate = "timeout" /\ p > 0
  <2> DEFINE q == [req[r] EXCEPT !.step = "lookup", !.policy = p]
  <2>1. req[r] \in Request /\ p \in Timeouts
    BY <1>1 DEF ReqOK, Policies
  <2>2. /\ q \in Request /\ q.step = "lookup" /\ q.session \in Sessions
        /\ q.gate = "timeout" /\ q.policy \in Timeouts
    BY <1>1, <2>1, StepNames DEF Request
  <2>3. Hold(r, q) /\ UNCHANGED idle
    BY <1>1 DEF Apply
  <2> HIDE DEF q
  <2>4. Shaped(q)
    BY <2>2, StepNames DEF Shaped
  <2> QED
    BY <2>2, <2>3, <2>4, HoldKeeps DEF RestOK
<1>2. CASE ~(req[r].gate = "timeout" /\ p > 0)
  BY <1>2, PassKeeps DEF Apply
<1> QED
  BY <1>1, <1>2

LEMMA PolicyTyped ==
  ASSUME GuardInv, NEW r \in Requests, PolicyHit(r) \/ ReadPolicy(r) \/ StorePolicy(r)
  PROVE  GuardInv'
<1>1. /\ req[r] \in Request /\ Shaped(req[r]) /\ req[r].session \in Sessions
      /\ At(r, "store") => req[r].policy \in Policies
  BY StepNames DEF GuardInv, ReqOK, PolicyHit, ReadPolicy, StorePolicy, At, Shaped
<1>2. CASE PolicyHit(r)
  <2>1. cached \in Policies
    BY <1>2 DEF GuardInv, RestOK, PolicyHit
  <2>2. ReqOK' /\ idle' \in [Sessions -> Ages]
    BY <1>1, <1>2, <2>1, ApplyKeeps DEF GuardInv, PolicyHit
  <2> QED
    BY <1>2, <2>2 DEF GuardInv, SessionOK, KeyFresh, CountOK, RestOK, PolicyHit, rules, counters
<1>3. CASE ReadPolicy(r)
  <2> DEFINE q == [req[r] EXCEPT !.step = "store", !.policy = policy]
  <2>1. /\ q \in Request /\ q.step = "store" /\ q.session \in Sessions
        /\ q.policy \in Policies
    BY <1>1, StepNames DEF Request, GuardInv, RestOK
  <2>2. Hold(r, q)
    BY <1>3 DEF ReadPolicy
  <2> HIDE DEF q
  <2>3. Shaped(q)
    BY <2>1, StepNames DEF Shaped
  <2>4. ReqOK'
    BY <2>1, <2>2, <2>3, HoldKeeps DEF GuardInv
  <2> QED
    BY <1>3, <2>4 DEF GuardInv, SessionOK, KeyFresh, CountOK, RestOK, ReadPolicy, rules, counters
<1>4. CASE StorePolicy(r)
  <2>1. req[r].policy \in Policies
    BY <1>1, <1>4 DEF StorePolicy
  <2>2. ReqOK' /\ idle' \in [Sessions -> Ages]
    BY <1>1, <1>4, <2>1, ApplyKeeps DEF GuardInv, StorePolicy
  <2>3. cached' \in Policies \cup {None}
    BY <1>4, <2>1 DEF GuardInv, RestOK, StorePolicy
  <2> QED
    BY <1>4, <2>2, <2>3 DEF GuardInv, SessionOK, KeyFresh, CountOK, RestOK, StorePolicy, counters
<1> QED
  BY <1>2, <1>3, <1>4

\* A step on the way that leaves the rest of what the request holds as it is.
LEMMA GatedGo ==
  ASSUME ReqOK, NEW r \in Requests, req[r].session \in Sessions,
         NEW step \in Gated \ {"store"}, Go(r, step),
         step \in Timed => req[r].gate = "timeout" /\ req[r].policy \in Timeouts
  PROVE  /\ ReqOK' /\ req'[r] = [req[r] EXCEPT !.step = step]
         /\ \A t \in Requests \ {r} : req'[t] = req[t]
<1>1. req[r] \in Request
  BY DEF ReqOK
<1> DEFINE q == [req[r] EXCEPT !.step = step]
<1>2. /\ q.step = step /\ q.session = req[r].session /\ q.gate = req[r].gate
      /\ q.policy = req[r].policy
  BY <1>1 DEF Request
<1> HIDE DEF q
<1>3. Shaped(q)
  BY <1>2, StepNames DEF Shaped
<1> QED
  BY <1>3, GoKeeps, StepNames DEF q

\* What a request in the gate has.
LEMMA GateHolds ==
  ASSUME GuardInv, NEW r \in Requests, req[r].step \in Gated
  PROVE  /\ req[r] \in Request /\ req[r].session \in Sessions
         /\ req[r].step \in Timed => req[r].gate = "timeout" /\ Limit(r) \in Timeouts
         /\ Of(r) \in Session
BY DEF GuardInv, ReqOK, SessionOK, Shaped, Limit, Of

LEMMA LookUpTyped ==
  ASSUME GuardInv, NEW r \in Requests, LookUp(r) \/ CheckRow(r)
  PROVE  GuardInv'
<1>1. req[r].step \in Timed /\ req[r].step \in Gated
  BY StepNames DEF LookUp, CheckRow, At
<1>2. \/ \E step \in {"row", "revoke", "touch", "touchRow"} : Go(r, step)
      \/ Respond(r)
  BY DEF LookUp, CheckRow
<1>3. ReqOK'
  BY <1>1, <1>2, GateHolds, GatedGo, RespondKeeps, StepNames DEF GuardInv, Limit
<1> QED
  BY <1>3 DEF GuardInv, SessionOK, KeyFresh, CountOK, RestOK, LookUp, CheckRow, rules, counters

LEMMA TouchTyped ==
  ASSUME GuardInv, NEW r \in Requests, Touch(r) \/ TouchRow(r)
  PROVE  GuardInv'
<1>1. req[r].step \in Timed /\ req[r].step \in Gated
  BY StepNames DEF Touch, TouchRow, At
<1>2. /\ req[r].session \in Sessions /\ Limit(r) \in Timeouts /\ Of(r) \in Session
      /\ req[r].gate = "timeout"
  BY <1>1, GateHolds
<1>3. CASE Touch(r) /\ ~redis
  <2>1. Go(r, "row") /\ UNCHANGED <<session, idle>>
    BY <1>3 DEF Touch
  <2>2. ReqOK'
    BY <1>2, <2>1, GatedGo, StepNames DEF GuardInv, Limit
  <2> QED
    BY <1>3, <2>1, <2>2 DEF GuardInv, SessionOK, KeyFresh, CountOK, RestOK, Touch, rules, counters
<1>4. CASE (Touch(r) /\ redis) \/ TouchRow(r)
  <2>1. PICK new \in {[Of(r) EXCEPT !.key = [age |-> 0, life |-> Limit(r)]],
                      [Of(r) EXCEPT !.row = 0]} :
          session' = [session EXCEPT ![req[r].session] = new]
    BY <1>4 DEF Touch, TouchRow, Of
  <2>2. new \in Session /\ (new.key # None => new.key.age < new.key.life)
    <3>1. Limit(r) \in 1..MaxAge /\ MaxAge \in Nat
      BY <1>2, GuardAssumption
    <3>2. [age |-> 0, life |-> Limit(r)] \in Key
      BY <1>2, <3>1 DEF Key, Ages
    <3>3. CASE new = [Of(r) EXCEPT !.key = [age |-> 0, life |-> Limit(r)]]
      <4>1. new \in Session /\ new.key = [age |-> 0, life |-> Limit(r)]
        BY <1>2, <3>2, <3>3 DEF Session
      <4> QED
        BY <4>1, <3>1
    <3>4. CASE new = [Of(r) EXCEPT !.row = 0]
      <4>1. new \in Session /\ new.key = Of(r).key
        BY <1>2, <3>1, <3>4 DEF Session, Ages
      <4> QED
        BY <1>2, <4>1 DEF GuardInv, SessionOK, KeyFresh, Of
    <3> QED
      BY <2>1, <3>3, <3>4
  <2>3. SessionOK'
    BY <1>2, <2>1, <2>2, SessionKeeps DEF GuardInv
  <2>4. ReqOK' /\ idle' \in [Sessions -> Ages]
    BY <1>2, <1>4, PassKeeps DEF GuardInv, Touch, TouchRow
  <2> QED
    BY <1>4, <2>3, <2>4 DEF GuardInv, CountOK, RestOK, Touch, TouchRow, rules, counters
<1> QED
  BY <1>3, <1>4

LEMMA ExpireTyped ==
  ASSUME GuardInv, NEW r \in Requests, Revoke(r) \/ RevokeToken(r) \/ Forget(r)
  PROVE  GuardInv'
<1>1. req[r].step \in Gated
  BY StepNames DEF Revoke, RevokeToken, Forget, At
<1>2. req[r].session \in Sessions /\ Of(r) \in Session
  BY <1>1, GateHolds
<1>3. ReqOK'
  <2>1. Respond(r) \/ \E step \in {"revokeToken", "forget"} : Go(r, step)
    BY DEF Revoke, RevokeToken, Forget
  <2> QED
    BY <1>2, <2>1, GatedGo, RespondKeeps, StepNames DEF GuardInv
<1>4. SessionOK'
  <2>1. \E new \in {[Of(r) EXCEPT !.key = None], Of(r)}
                   \cup {[Of(r) EXCEPT !.live = @ /\ ~done] : done \in BOOLEAN}
                   \cup {[Of(r) EXCEPT !.token = @ /\ ~done] : done \in BOOLEAN} :
          session' = [session EXCEPT ![req[r].session] = new]
    <3>1. CASE Revoke(r)
      BY <3>1 DEF Revoke, Of
    <3>2. CASE RevokeToken(r)
      BY <3>2 DEF RevokeToken, Of
    <3>3. CASE Forget(r)
      <4>1. PICK key \in {None, Of(r).key} :
              session' = [session EXCEPT ![req[r].session].key = key]
        BY <3>3 DEF Forget, Of
      <4>2. [Of(r) EXCEPT !.key = Of(r).key] = Of(r)
        BY <1>2 DEF Session
      <4> QED
        BY <4>1, <4>2 DEF Of
    <3> QED
      BY <3>1, <3>2, <3>3
  <2>2. ASSUME NEW new \in {[Of(r) EXCEPT !.key = None], Of(r)}
                   \cup {[Of(r) EXCEPT !.live = @ /\ ~done] : done \in BOOLEAN}
                   \cup {[Of(r) EXCEPT !.token = @ /\ ~done] : done \in BOOLEAN}
        PROVE  new \in Session /\ (new.key = None \/ new.key = Of(r).key)
    BY <1>2, <2>2 DEF Session
  <2>3. Of(r).key # None => Of(r).key.age < Of(r).key.life
    BY <1>2 DEF GuardInv, SessionOK, KeyFresh, Of
  <2> QED
    BY <1>2, <2>1, <2>2, <2>3, SessionKeeps DEF GuardInv
<1> QED
  BY <1>3, <1>4 DEF GuardInv, CountOK, RestOK, Revoke, RevokeToken, Forget, rules, counters

LEMMA FailOpenTyped ==
  ASSUME GuardInv, NEW r \in Requests, FailOpen(r)
  PROVE  GuardInv'
<1>1. req[r].step \in Gated
  BY StepNames DEF FailOpen, At
<1>2. ReqOK' /\ idle' \in [Sessions -> Ages]
  BY <1>1, GateHolds, PassKeeps DEF GuardInv, FailOpen
<1> QED
  BY <1>2 DEF GuardInv, SessionOK, KeyFresh, CountOK, RestOK, FailOpen, rules, counters

LEMMA SettingsTyped ==
  ASSUME GuardInv, NEW r \in Requests, PolicyStep(r)
  PROVE  GuardInv'
<1>1. CASE SavePolicy(r)
  <2> DEFINE q == [Idle EXCEPT !.step = "invalidate"]
  <2>1. q \in Request /\ q.step = "invalidate"
    BY IdleShaped, StepNames DEF Request
  <2>2. Hold(r, q)
    BY <1>1 DEF SavePolicy, Accept
  <2> HIDE DEF q
  <2>3. Shaped(q)
    BY <2>1, StepNames DEF Shaped
  <2>4. ReqOK'
    BY <2>1, <2>2, <2>3, HoldKeeps DEF GuardInv
  <2> QED
    BY <1>1, <2>4 DEF GuardInv, SessionOK, KeyFresh, CountOK, RestOK, SavePolicy, counters
<1>2. CASE Invalidate(r)
  <2>1. ReqOK'
    BY <1>2, RespondKeeps DEF GuardInv, Invalidate
  <2> QED
    BY <1>2, <2>1 DEF GuardInv, SessionOK, KeyFresh, CountOK, RestOK, Invalidate, counters
<1> QED
  BY <1>1, <1>2 DEF PolicyStep

LEMMA RenewTyped ==
  ASSUME GuardInv, NEW s \in Sessions, Renew(s)
  PROVE  GuardInv'
<1>1. PICK t \in Sessions :
        /\ ~session[t].opened
        /\ session' = [session EXCEPT ![s].token = FALSE, ![t] = Opened]
  BY DEF Renew
<1> DEFINE used == [session[s] EXCEPT !.token = FALSE]
<1>2. used \in Session /\ used.key = session[s].key
  BY DEF GuardInv, SessionOK, Session
<1>3. session' = [[session EXCEPT ![s] = used] EXCEPT ![t] = Opened]
  BY <1>1
<1> HIDE DEF used
<1>4. SessionOK'
  <2>1. session' \in [Sessions -> Session]
    BY <1>2, <1>3, OpenedTyped DEF GuardInv, SessionOK
  <2>2. \A u \in Sessions : session'[u].key = None \/ session'[u].key = session[u].key
    BY <1>2, <1>3, OpenedTyped DEF GuardInv, SessionOK
  <2> QED
    BY <2>1, <2>2 DEF GuardInv, SessionOK, KeyFresh
<1> QED
  BY <1>4 DEF GuardInv, ReqOK, CountOK, RestOK, Renew, rules, counters

-----------------------------------------------------------------------------
\* What ends by itself, and what fails.
LEMMA EndsTyped ==
  ASSUME GuardInv,
         (\E k \in Counters : WindowEnds(k)) \/ (\E a \in Accounts : Unlock(a)) \/ CachedEnds
  PROVE  GuardInv'
<1>1. ASSUME NEW k \in Counters, WindowEnds(k) PROVE GuardInv'
  <2>1. CountOK'
    BY <1>1, GuardAssumption DEF GuardInv, CountOK, WindowEnds
  <2>2. guesses' \in [Accounts -> 0..MaxCount]
    BY <1>1, GuardAssumption DEF GuardInv, RestOK, WindowEnds
  <2> QED
    BY <1>1, <2>1, <2>2 DEF GuardInv, ReqOK, SessionOK, KeyFresh, RestOK, WindowEnds, rules
<1>2. ASSUME NEW a \in Accounts, Unlock(a) PROVE GuardInv'
  <2>1. guesses' \in [Accounts -> 0..MaxCount]
    BY <1>2, GuardAssumption DEF GuardInv, RestOK, Unlock
  <2> QED
    BY <1>2, <2>1 DEF GuardInv, ReqOK, SessionOK, KeyFresh, CountOK, RestOK, Unlock, rules,
       counters
<1>3. CASE CachedEnds
  BY <1>3 DEF GuardInv, ReqOK, SessionOK, KeyFresh, CountOK, RestOK, CachedEnds, counters
<1> QED
  BY <1>1, <1>2, <1>3

LEMMA OlderTyped == \A n \in Ages : Older(n) \in Ages
BY GuardAssumption DEF Older, Ages

LEMMA AgedTyped ==
  ASSUME SessionOK, NEW s \in Sessions
  PROVE  /\ Aged(s) \in Session /\ Aged(s).opened = session[s].opened
         /\ Aged(s).row = Older(session[s].row)
         /\ Aged(s).key # None =>
              /\ session[s].key # None
              /\ Aged(s).key.age = session[s].key.age + 1
              /\ Aged(s).key.age < Aged(s).key.life
              /\ Aged(s).key.age \in Ages
<1> DEFINE key == session[s].key
           older == IF key = None \/ key.age + 1 = key.life THEN None
                    ELSE [age |-> key.age + 1, life |-> key.life]
<1>1. session[s] \in Session /\ (key # None => key \in Key /\ key.age < key.life)
  BY DEF SessionOK, KeyFresh, Session
<1>2. older = None \/ (/\ key # None /\ older \in Key
                       /\ older.age = key.age + 1 /\ older.age < older.life)
  <2> SUFFICES ASSUME key # None, key.age + 1 # key.life
               PROVE  /\ older \in Key
                      /\ older.age = key.age + 1 /\ older.age < older.life
    OBVIOUS
  <2>1. key.age \in Ages /\ key.life \in Timeouts /\ key.life \in 1..MaxAge /\ MaxAge \in Nat
    BY <1>1, GuardAssumption DEF Key
  <2>2. key.age + 1 < key.life /\ key.age + 1 \in Ages
    BY <1>1, <2>1 DEF Ages
  <2> QED
    BY <2>1, <2>2 DEF Key
<1>3. Aged(s) = [session[s] EXCEPT !.row = Older(session[s].row), !.key = older]
  BY DEF Aged
<1> HIDE DEF older
<1>4. older \in Key \cup {None} /\ Older(session[s].row) \in Ages
  BY <1>1, <1>2, OlderTyped DEF Session
<1>5. /\ Aged(s) \in Session /\ Aged(s).opened = session[s].opened
      /\ Aged(s).row = Older(session[s].row) /\ Aged(s).key = older
  BY <1>1, <1>3, <1>4 DEF Session
<1> QED
  BY <1>2, <1>5 DEF Key

LEMMA TickTyped ==
  ASSUME GuardInv, Tick
  PROVE  GuardInv'
<1>1. SessionOK'
  BY AgedTyped DEF GuardInv, SessionOK, KeyFresh, Tick
<1>2. idle' \in [Sessions -> Ages]
  BY OlderTyped DEF GuardInv, RestOK, Tick
<1> QED
  BY <1>1, <1>2 DEF GuardInv, ReqOK, CountOK, RestOK, Tick, rules, counters

LEMMA FaultsTyped ==
  ASSUME GuardInv, RedisTurns \/ Stop
  PROVE  GuardInv'
<1>1. CASE RedisTurns
  BY <1>1 DEF GuardInv, ReqOK, SessionOK, KeyFresh, CountOK, RestOK, RedisTurns, rules, counters
<1>2. CASE Stop
  BY <1>2, IdleShaped, GuardAssumption
     DEF GuardInv, ReqOK, SessionOK, KeyFresh, CountOK, RestOK, Stop, rules
<1> QED
  BY <1>1, <1>2

-----------------------------------------------------------------------------
LEMMA GuardInit == Init => GuardInv
<1> SUFFICES ASSUME Init PROVE GuardInv
  OBVIOUS
<1>1. Unopened \in Session /\ Unopened.key = None
  BY GuardAssumption DEF Unopened, Session, Ages
<1>2. SessionOK /\ ReqOK
  BY <1>1, IdleShaped DEF Init, SessionOK, KeyFresh, ReqOK
<1>3. CountOK /\ RestOK
  BY GuardAssumption DEF Init, CountOK, RestOK, Policies, Ages
<1> QED
  BY <1>2, <1>3 DEF GuardInv

LEMMA GuardNext == GuardInv /\ [Next]_vars => GuardInv'
<1> SUFFICES ASSUME GuardInv, [Next]_vars PROVE GuardInv'
  OBVIOUS
<1>1. CASE UNCHANGED vars
  BY <1>1 DEF vars, counters, rules, GuardInv, ReqOK, SessionOK, KeyFresh, CountOK, RestOK
<1>2. ASSUME NEW r \in Requests, CountStep(r) \/ LoginStep(r) \/ CallStep(r) PROVE GuardInv'
  BY <1>2, CountTyped, SetWindowTyped, CountInMemoryTyped, ClearTyped, LogInTyped, CallTyped,
     CompareTyped, LockTyped, ClearedTyped, AnswerTyped DEF CountStep, LoginStep, CallStep
<1>3. ASSUME NEW r \in Requests, VisitStep(r) \/ PolicyStep(r) \/ FailOpen(r) PROVE GuardInv'
  BY <1>3, VisitTyped, PolicyTyped, LookUpTyped, TouchTyped, ExpireTyped, SettingsTyped,
     FailOpenTyped DEF VisitStep
<1> QED
  BY <1>1, <1>2, <1>3, EndsTyped, RenewTyped, TickTyped, FaultsTyped DEF Next

-----------------------------------------------------------------------------
(* AuditPurge: types, and the row about the latest purge.                  *)

\* What a request about the activity log holds: its operator once it has begun,
\* and the row about the deletion from the deletion on.
Carried(q) ==
  /\ q.step # "idle" => q.op \in Operators
  /\ q.step \in {"delete", "clear", "publish"} => q.trace \in Traces
  /\ q.step \in {"idle", "record"} => q.trace = None

CarriedOK ==
  purging \in [Requests -> Purge!Request] /\ \A s \in Requests : Carried(purging[s])

\* The exports under way count towards the bound on exports.
Recording(op) == {s \in Requests : purging[s].step = "record" /\ purging[s].op = op}
ExportsOK ==
  /\ exports \in [Operators -> Nat]
  /\ \A op \in Operators : exports[op] + Cardinality(Recording(op)) <= MaxExports

StoreOK ==
  /\ receipt \subseteq Operators /\ memory \subseteq Operators
  /\ log \subseteq Traces /\ writing \subseteq Traces
  /\ purged \in [Operators -> SUBSET Traces] /\ last \in Traces \cup {None}
  /\ missed \subseteq Traces

\* The deletion that request s asked for is done.
Done(s) == purging[s].step \in {"clear", "publish"}

\* The latest deletion has its row, or will have it, or its row was missed.
Traced == last # None =>
  last \in log \cup writing \cup missed \/ \E s \in Requests : Done(s) /\ last = purging[s].trace

PurgeInv == CarriedOK /\ ExportsOK /\ StoreOK /\ Traced

\* AuditPurge counts as AdminGuard does.
LEMMA SameCardinality == ASSUME NEW S PROVE Purge!Cardinality(S) = Cardinality(S)
BY DEF Purge!Cardinality, Cardinality, Purge!IsFiniteSet, IsFiniteSet

LEMMA RecordingFinite ==
  ASSUME NEW op
  PROVE  IsFiniteSet(Recording(op)) /\ Cardinality(Recording(op)) \in Nat
<1>1. Recording(op) \in SUBSET Requests
  BY DEF Recording
<1> QED
  BY <1>1, GuardAssumption, FS_Subset, FS_CardinalityType

LEMMA PurgeTyped == redis \in BOOLEAN /\ PurgeInv => Purge!TypeOK
<1> SUFFICES ASSUME redis \in BOOLEAN, PurgeInv PROVE Purge!TypeOK
  OBVIOUS
<1>1. ASSUME NEW op \in Operators PROVE exports[op] \in 0..MaxExports
  BY RecordingFinite, PurgeAssumption DEF PurgeInv, ExportsOK
<1>2. exports \in [Operators -> 0..MaxExports]
  BY <1>1 DEF PurgeInv, ExportsOK
<1> QED
  BY <1>2 DEF PurgeInv, CarriedOK, StoreOK, Purge!TypeOK

LEMMA IdleCarriesNothing ==
  Purge!Idle \in Purge!Request /\ Purge!Idle.step = "idle" /\ Purge!Idle.trace = None
BY DEF Purge!Idle, Purge!Request

\* A request that takes up work keeps what the others carry.
LEMMA TakesUp ==
  ASSUME PurgeInv, NEW s \in Requests, NEW held \in Purge!Request, Carried(held),
         held.step # "idle", Purge!Accept(s, held), UNCHANGED <<log, writing, last, missed>>
  PROVE  /\ CarriedOK' /\ Traced' /\ purging'[s] = held
         /\ purging[s].step = "idle" /\ \A t \in Requests \ {s} : purging'[t] = purging[t]
<1>1. /\ purging' = [purging EXCEPT ![s] = held]
      /\ purging[s].step = "idle" /\ purging[s].trace = None
  BY DEF Purge!Accept, Purge!At, PurgeInv, CarriedOK, Carried
<1>2. purging' \in [Requests -> Purge!Request] /\ purging'[s] = held
  BY <1>1 DEF PurgeInv, CarriedOK
<1>3. \A t \in Requests \ {s} : purging'[t] = purging[t]
  BY <1>1 DEF PurgeInv, CarriedOK
<1>4. CarriedOK'
  BY <1>2, <1>3 DEF PurgeInv, CarriedOK
<1>5. Traced'
  <2> SUFFICES ASSUME last # None, last \notin log \cup writing \cup missed
               PROVE  \E t \in Requests : Done(t)' /\ last = purging'[t].trace
    BY DEF Traced
  <2>1. PICK t \in Requests : Done(t) /\ last = purging[t].trace
    BY DEF PurgeInv, Traced
  <2>2. t # s
    BY <1>1, <2>1 DEF Done
  <2> QED
    BY <1>3, <2>1, <2>2 DEF Done
<1> QED
  BY <1>1, <1>2, <1>3, <1>4, <1>5

\* A request that is answered keeps the latest row if the row about its own
\* deletion, where that is done, is about to be written by then.
LEMMA Answers ==
  ASSUME PurgeInv, NEW s \in Requests, Purge!Respond(s), UNCHANGED last,
         log \subseteq log', writing \subseteq writing', missed \subseteq missed',
         Done(s) => purging[s].trace \in writing'
  PROVE  /\ CarriedOK' /\ Traced' /\ purging'[s] = Purge!Idle
         /\ \A t \in Requests \ {s} : purging'[t] = purging[t]
<1>1. purging' = [purging EXCEPT ![s] = Purge!Idle]
  BY DEF Purge!Respond
<1>2. purging' \in [Requests -> Purge!Request] /\ purging'[s] = Purge!Idle
  BY <1>1, IdleCarriesNothing DEF PurgeInv, CarriedOK
<1>3. \A t \in Requests \ {s} : purging'[t] = purging[t]
  BY <1>1 DEF PurgeInv, CarriedOK
<1>4. CarriedOK'
  BY <1>2, <1>3, IdleCarriesNothing DEF PurgeInv, CarriedOK, Carried
<1>5. Traced'
  <2> SUFFICES ASSUME last # None, last \notin log' \cup writing' \cup missed'
               PROVE  \E t \in Requests : Done(t)' /\ last = purging'[t].trace
    BY DEF Traced
  <2>1. PICK t \in Requests : Done(t) /\ last = purging[t].trace
    BY DEF PurgeInv, Traced
  <2>2. t # s
    BY <2>1
  <2> QED
    BY <1>3, <2>1, <2>2 DEF Done
<1> QED
  BY <1>2, <1>3, <1>4, <1>5

\* Who is not recording an export before a step of s, nor after it, counts the same.
LEMMA RecordingKept ==
  ASSUME ExportsOK, NEW s \in Requests, purging[s].step # "record", purging'[s].step # "record",
         \A t \in Requests \ {s} : purging'[t] = purging[t], UNCHANGED exports
  PROVE  ExportsOK'
<1>1. \A op : Recording(op)' = Recording(op)
  BY DEF Recording
<1> QED
  BY <1>1 DEF ExportsOK

-----------------------------------------------------------------------------
\* The export, and the deletion.
LEMMA BeginExportKeeps ==
  ASSUME PurgeInv, NEW s \in Requests, Purge!BeginExport(s)
  PROVE  /\ PurgeInv' /\ purging'[s].step = "record" /\ UNCHANGED <<receipt, memory, exports, purged>>
         /\ \A t \in Requests \ {s} : purging'[t] = purging[t]
<1>1. PICK op \in Operators :
        /\ exports[op] + Cardinality({r \in Requests : Purge!At(r, "record") /\ purging[r].op = op})
             < MaxExports
        /\ Purge!Accept(s, [Purge!Idle EXCEPT !.step = "record", !.op = op])
  BY SameCardinality DEF Purge!BeginExport
<1>2. UNCHANGED <<receipt, memory, log, writing, exports, purged, last, missed>>
  BY DEF Purge!BeginExport, Purge!receipts, Purge!rows, Purge!observed
<1> DEFINE held == [Purge!Idle EXCEPT !.step = "record", !.op = op]
<1>3. /\ held \in Purge!Request /\ held.step = "record" /\ held.op = op /\ held.trace = None
  BY IdleCarriesNothing DEF Purge!Request
<1>4. Purge!Accept(s, held)
  BY <1>1
<1> HIDE DEF held
<1>5. /\ CarriedOK' /\ Traced' /\ purging'[s] = held
      /\ purging[s].step = "idle" /\ \A t \in Requests \ {s} : purging'[t] = purging[t]
  BY <1>2, <1>3, <1>4, TakesUp DEF Carried
<1>6. exports[op] + Cardinality(Recording(op)) < MaxExports
  BY <1>1 DEF Recording, Purge!At
<1>7. ASSUME NEW o \in Operators PROVE exports'[o] + Cardinality(Recording(o)') <= MaxExports
  <2>1. CASE o # op
    <3>1. Recording(o)' = Recording(o)
      BY <1>3, <1>5, <2>1 DEF Recording
    <3> QED
      BY <1>2, <3>1 DEF PurgeInv, ExportsOK
  <2>2. CASE o = op
    <3>1. Recording(o)' = Recording(o) \cup {s} /\ s \notin Recording(o)
      BY <1>3, <1>5, <2>2 DEF Recording
    <3>2. Cardinality(Recording(o)') = Cardinality(Recording(o)) + 1
      BY <3>1, RecordingFinite, FS_AddElement
    <3>3. exports[o] \in Nat /\ Cardinality(Recording(o)) \in Nat /\ MaxExports \in Nat
      BY RecordingFinite, PurgeAssumption DEF PurgeInv, ExportsOK
    <3> QED
      BY <1>2, <1>6, <2>2, <3>2, <3>3
  <2> QED
    BY <2>1, <2>2
<1>8. ExportsOK'
  BY <1>2, <1>7 DEF PurgeInv, ExportsOK
<1> QED
  BY <1>2, <1>3, <1>5, <1>8 DEF PurgeInv, StoreOK

LEMMA RecordReceiptKeeps ==
  ASSUME PurgeInv, NEW s \in Requests, NEW up, Purge!RecordReceipt(s, up)
  PROVE  /\ PurgeInv' /\ purging'[s].step = "idle" /\ UNCHANGED purged
         /\ \A t \in Requests \ {s} : purging'[t] = purging[t]
         /\ purging[s].step = "record" /\ purging[s].op \in Operators
         /\ exports' = [exports EXCEPT ![purging[s].op] = @ + 1]
         /\ IF up THEN receipt' = receipt \cup {purging[s].op} /\ UNCHANGED memory
                  ELSE memory' = memory \cup {purging[s].op} /\ UNCHANGED receipt
<1> DEFINE op == purging[s].op
<1>1. /\ UNCHANGED <<log, writing, purged, last, missed>> /\ Purge!Respond(s)
      /\ purging[s].step = "record" /\ op \in Operators /\ purging[s].trace = None
      /\ exports' = [exports EXCEPT ![op] = @ + 1]
  BY DEF Purge!RecordReceipt, Purge!rows, Purge!At, PurgeInv, CarriedOK, Carried
<1>2. /\ CarriedOK' /\ Traced' /\ purging'[s] = Purge!Idle
      /\ \A t \in Requests \ {s} : purging'[t] = purging[t]
  BY <1>1, Answers DEF Done
<1>3. IF up THEN receipt' = receipt \cup {op} /\ UNCHANGED memory
            ELSE memory' = memory \cup {op} /\ UNCHANGED receipt
  BY DEF Purge!RecordReceipt
<1>4. ASSUME NEW o \in Operators PROVE exports'[o] + Cardinality(Recording(o)') <= MaxExports
  <2>0. exports[o] \in Nat /\ Cardinality(Recording(o)) \in Nat /\ MaxExports \in Nat
        /\ exports[o] + Cardinality(Recording(o)) <= MaxExports
    BY RecordingFinite, PurgeAssumption DEF PurgeInv, ExportsOK
  <2>1. CASE o # op
    <3>1. Recording(o)' = Recording(o)
      BY <1>1, <1>2, <2>1, IdleCarriesNothing DEF Recording
    <3>2. exports'[o] = exports[o]
      BY <1>1, <2>1 DEF PurgeInv, ExportsOK
    <3> QED
      BY <2>0, <3>1, <3>2
  <2>2. CASE o = op
    <3>1. Recording(o)' = Recording(o) \ {s} /\ s \in Recording(o)
      BY <1>1, <1>2, <2>2, IdleCarriesNothing DEF Recording
    <3>2. Cardinality(Recording(o)') = Cardinality(Recording(o)) - 1
      BY <3>1, RecordingFinite, FS_RemoveElement
    <3>3. exports'[o] = exports[o] + 1
      BY <1>1, <2>2 DEF PurgeInv, ExportsOK
    <3> QED
      BY <2>0, <3>2, <3>3
  <2> QED
    BY <2>1, <2>2
<1>5. ExportsOK'
  BY <1>1, <1>4 DEF PurgeInv, ExportsOK
<1> QED
  BY <1>1, <1>2, <1>3, <1>5, IdleCarriesNothing DEF PurgeInv, StoreOK

LEMMA BeginPurgeKeeps ==
  ASSUME PurgeInv, NEW s \in Requests, NEW up, Purge!BeginPurge(s, up)
  PROVE  /\ PurgeInv' /\ UNCHANGED <<receipt, memory, exports, purged>>
         /\ purging'[s].step = "delete" /\ Purge!HasReceipt(purging'[s].op, up)
         /\ \A t \in Requests \ {s} : purging'[t] = purging[t]
<1>1. PICK op \in Operators, t \in Traces :
        Purge!HasReceipt(op, up) /\ Purge!Accept(s, [step |-> "delete", op |-> op, trace |-> t])
  BY DEF Purge!BeginPurge
<1>2. UNCHANGED <<receipt, memory, log, writing, exports, purged, last, missed>>
  BY DEF Purge!BeginPurge, Purge!receipts, Purge!rows, Purge!observed
<1> DEFINE held == [step |-> "delete", op |-> op, trace |-> t]
<1>3. held \in Purge!Request /\ Carried(held) /\ held.step = "delete" /\ held.op = op
  BY DEF Purge!Request, Carried
<1>4. Purge!Accept(s, held)
  BY <1>1
<1> HIDE DEF held
<1>5. /\ CarriedOK' /\ Traced' /\ purging'[s] = held
      /\ purging[s].step = "idle" /\ \A r \in Requests \ {s} : purging'[r] = purging[r]
  BY <1>2, <1>3, <1>4, TakesUp
<1>6. ExportsOK'
  BY <1>2, <1>3, <1>5, RecordingKept DEF PurgeInv
<1> QED
  BY <1>1, <1>2, <1>3, <1>5, <1>6 DEF PurgeInv, StoreOK

LEMMA DeleteRowsKeeps ==
  ASSUME PurgeInv, NEW s \in Requests, Purge!DeleteRows(s)
  PROVE  /\ PurgeInv' /\ UNCHANGED <<receipt, memory, exports>>
         /\ purging[s].step = "delete" /\ purging'[s].step = "clear"
         /\ purging[s].op \in Operators /\ purging'[s].op = purging[s].op
         /\ purged' = [purged EXCEPT ![purging[s].op] = @ \cup {purging[s].trace}]
         /\ \A t \in Requests \ {s} : purging'[t] = purging[t]
<1>1. /\ purging[s] \in Purge!Request /\ Carried(purging[s]) /\ purging[s].step = "delete"
      /\ purging' = [purging EXCEPT ![s].step = "clear"]
  BY DEF PurgeInv, CarriedOK, Purge!DeleteRows, Purge!At
<1>2. purging'[s] = [purging[s] EXCEPT !.step = "clear"]
      /\ \A t \in Requests \ {s} : purging'[t] = purging[t]
  BY <1>1 DEF PurgeInv, CarriedOK
<1>3. /\ purging'[s] \in Purge!Request /\ purging'[s].step = "clear"
      /\ purging'[s].trace = purging[s].trace /\ purging'[s].op = purging[s].op
  BY <1>1, <1>2 DEF Purge!Request
<1>4. purging[s].op \in Operators /\ purging[s].trace \in Traces
  BY <1>1 DEF Carried
<1>5. CarriedOK'
  BY <1>1, <1>2, <1>3, <1>4 DEF PurgeInv, CarriedOK, Carried
<1>6. /\ log' = {} /\ UNCHANGED <<receipt, memory, writing, exports, missed>>
      /\ purged' = [purged EXCEPT ![purging[s].op] = @ \cup {purging[s].trace}]
      /\ last' = purging[s].trace
  BY DEF Purge!DeleteRows, Purge!receipts
<1>7. Traced'
  BY <1>3, <1>6 DEF Traced, Done
<1>8. ExportsOK'
  BY <1>1, <1>2, <1>3, <1>6, RecordingKept DEF PurgeInv
<1>9. StoreOK'
  BY <1>4, <1>6 DEF PurgeInv, StoreOK
<1> QED
  BY <1>1, <1>2, <1>3, <1>4, <1>5, <1>6, <1>7, <1>8, <1>9 DEF PurgeInv

LEMMA ClearReceiptKeeps ==
  ASSUME PurgeInv, NEW s \in Requests, NEW up, Purge!ClearReceipt(s, up)
  PROVE  /\ PurgeInv' /\ UNCHANGED <<exports, purged>>
         /\ purging[s].step = "clear" /\ purging'[s].step = "publish"
         /\ purging[s].op \in Operators
         /\ receipt' = IF up THEN receipt \ {purging[s].op} ELSE receipt
         /\ memory' = memory \ {purging[s].op}
         /\ \A t \in Requests \ {s} : purging'[t] = purging[t]
<1>1. /\ purging[s] \in Purge!Request /\ Carried(purging[s]) /\ purging[s].step = "clear"
      /\ purging' = [purging EXCEPT ![s].step = "publish"]
  BY DEF PurgeInv, CarriedOK, Purge!ClearReceipt, Purge!At
<1>2. purging'[s] = [purging[s] EXCEPT !.step = "publish"]
      /\ \A t \in Requests \ {s} : purging'[t] = purging[t]
  BY <1>1 DEF PurgeInv, CarriedOK
<1>3. /\ purging'[s] \in Purge!Request /\ purging'[s].step = "publish"
      /\ purging'[s].trace = purging[s].trace /\ purging'[s].op = purging[s].op
  BY <1>1, <1>2 DEF Purge!Request
<1>4. purging[s].op \in Operators /\ purging[s].trace \in Traces
  BY <1>1 DEF Carried
<1>5. CarriedOK'
  BY <1>1, <1>2, <1>3, <1>4 DEF PurgeInv, CarriedOK, Carried
<1>6. /\ receipt' = IF up THEN receipt \ {purging[s].op} ELSE receipt
      /\ memory' = memory \ {purging[s].op}
      /\ UNCHANGED <<log, writing, exports, purged, last, missed>>
  BY DEF Purge!ClearReceipt, Purge!rows, Purge!observed
<1>7. Traced'
  <2> SUFFICES ASSUME last # None, last \notin log \cup writing \cup missed
               PROVE  \E t \in Requests : Done(t)' /\ last = purging'[t].trace
    BY <1>6 DEF Traced
  <2>1. PICK t \in Requests : Done(t) /\ last = purging[t].trace
    BY DEF PurgeInv, Traced
  <2> QED
    BY <1>2, <1>3, <2>1 DEF Done
<1>8. ExportsOK'
  BY <1>1, <1>2, <1>3, <1>6, RecordingKept DEF PurgeInv
<1>9. receipt' \subseteq Operators
  BY <1>6 DEF PurgeInv, StoreOK
<1>10. StoreOK'
  BY <1>6, <1>9 DEF PurgeInv, StoreOK
<1> QED
  BY <1>1, <1>2, <1>3, <1>4, <1>5, <1>6, <1>7, <1>8, <1>10 DEF PurgeInv

LEMMA PublishTraceKeeps ==
  ASSUME PurgeInv, NEW s \in Requests, Purge!PublishTrace(s)
  PROVE  /\ PurgeInv' /\ UNCHANGED <<receipt, memory, exports, purged>>
         /\ purging[s].step = "publish" /\ purging'[s].step = "idle"
         /\ \A t \in Requests \ {s} : purging'[t] = purging[t]
<1>1. /\ purging[s].step = "publish" /\ purging[s].trace \in Traces
      /\ writing' = writing \cup {purging[s].trace}
      /\ UNCHANGED <<receipt, memory, log, exports, purged, last, missed>> /\ Purge!Respond(s)
  BY DEF Purge!PublishTrace, Purge!receipts, Purge!observed, Purge!At, PurgeInv, CarriedOK, Carried
<1>2. /\ CarriedOK' /\ Traced' /\ purging'[s] = Purge!Idle
      /\ \A t \in Requests \ {s} : purging'[t] = purging[t]
  BY <1>1, Answers
<1>3. ExportsOK'
  BY <1>1, <1>2, IdleCarriesNothing, RecordingKept DEF PurgeInv
<1>4. StoreOK'
  BY <1>1 DEF PurgeInv, StoreOK
<1> QED
  BY <1>1, <1>2, <1>3, <1>4, IdleCarriesNothing DEF PurgeInv

\* The listener writes what is waiting; receipts end; Redis comes and goes.
LEMMA PurgeRestKeeps ==
  ASSUME PurgeInv, Purge!WriteTrace \/ Purge!ReceiptExpires \/ Purge!RedisTurns
  PROVE  PurgeInv' /\ UNCHANGED <<purging, exports, purged>>
<1>1. /\ UNCHANGED <<purging, exports, purged, last, missed>>
      /\ log \cup writing \subseteq (log \cup writing)'
  BY DEF Purge!WriteTrace, Purge!ReceiptExpires, Purge!RedisTurns, Purge!rows, Purge!observed
<1>2. receipt' \subseteq receipt /\ memory' \subseteq memory
  BY DEF Purge!WriteTrace, Purge!ReceiptExpires, Purge!RedisTurns, Purge!receipts
<1>3. log' \cup writing' \subseteq log \cup writing
  BY DEF Purge!WriteTrace, Purge!ReceiptExpires, Purge!RedisTurns, Purge!rows
<1>4. CarriedOK' /\ ExportsOK'
  BY <1>1 DEF PurgeInv, CarriedOK, ExportsOK, Recording
<1>5. StoreOK'
  BY <1>1, <1>2, <1>3 DEF PurgeInv, StoreOK
<1>6. Traced'
  BY <1>1 DEF PurgeInv, Traced, Done
<1> QED
  BY <1>1, <1>4, <1>5, <1>6 DEF PurgeInv

-----------------------------------------------------------------------------
\* Requests that come to nothing no longer count towards the bound on exports.
LEMMA RecordingShrinks ==
  ASSUME ExportsOK, UNCHANGED exports, \A op \in Operators : Recording(op)' \subseteq Recording(op)
  PROVE  ExportsOK'
<1>1. ASSUME NEW op \in Operators PROVE exports'[op] + Cardinality(Recording(op)') <= MaxExports
  <2>1. /\ Cardinality(Recording(op)') \in Nat /\ Cardinality(Recording(op)) \in Nat
        /\ Cardinality(Recording(op)') <= Cardinality(Recording(op))
    BY RecordingFinite, FS_Subset, FS_CardinalityType
  <2>2. exports[op] \in Nat /\ exports[op] + Cardinality(Recording(op)) <= MaxExports
    BY DEF ExportsOK
  <2> QED
    BY <2>1, <2>2, PurgeAssumption
<1> QED
  BY <1>1 DEF ExportsOK

\* What fails is an export, a deletion that has not been done, or an insert,
\* whose row is then missed; a stop misses every row that is on its way.
LEMMA FaultKeeps ==
  ASSUME PurgeInv, Purge!Fault
  PROVE  PurgeInv' /\ UNCHANGED redis
<1>1. CASE \E s \in Requests : Purge!Abandon(s)
  <2>1. PICK s \in Requests : Purge!Abandon(s)
    BY <1>1
  <2>2. /\ UNCHANGED <<redis, receipt, memory, log, writing, exports, purged, last, missed>>
        /\ Purge!Respond(s) /\ ~Done(s)
    BY <2>1 DEF Purge!Abandon, Purge!receipts, Purge!rows, Purge!observed, Purge!At, Done
  <2>3. /\ CarriedOK' /\ Traced' /\ purging'[s] = Purge!Idle
        /\ \A t \in Requests \ {s} : purging'[t] = purging[t]
    BY <2>2, Answers
  <2>4. \A op \in Operators : Recording(op)' \subseteq Recording(op)
    BY <2>3, IdleCarriesNothing DEF Recording
  <2> QED
    BY <2>2, <2>3, <2>4, RecordingShrinks DEF PurgeInv, StoreOK
<1>2. CASE Purge!TraceFails
  <2>1. /\ UNCHANGED <<redis, receipt, memory, log, purging, exports, purged, last>>
        /\ \E t \in writing : writing' = writing \ {t} /\ missed' = missed \cup {t}
    BY <1>2 DEF Purge!TraceFails, Purge!receipts
  <2>2. CarriedOK' /\ ExportsOK' /\ Traced'
    BY <2>1 DEF PurgeInv, CarriedOK, ExportsOK, Recording, Traced, Done
  <2> QED
    BY <2>1, <2>2 DEF PurgeInv, StoreOK
<1>3. CASE Purge!Stop
  <2>1. /\ purging' = [s \in Requests |-> Purge!Idle] /\ memory' = {} /\ writing' = {}
        /\ UNCHANGED <<redis, receipt, log, exports, purged, last>>
    BY <1>3 DEF Purge!Stop
  <2>2. missed' = missed \cup writing \cup {purging[s].trace : s \in {r \in Requests : Done(r)}}
    BY <1>3 DEF Purge!Stop, Purge!OnItsWay, Purge!At, Done
  <2>3. \A s \in Requests : Done(s) => purging[s].trace \in Traces
    BY DEF PurgeInv, CarriedOK, Carried, Done
  <2>4. CarriedOK'
    BY <2>1, IdleCarriesNothing DEF CarriedOK, Carried
  <2>5. \A op \in Operators : Recording(op)' \subseteq Recording(op)
    BY <2>1, IdleCarriesNothing DEF Recording
  <2>6. ExportsOK'
    BY <2>1, <2>5, RecordingShrinks DEF PurgeInv
  <2>7. StoreOK'
    BY <2>1, <2>2, <2>3 DEF PurgeInv, StoreOK
  <2>8. Traced'
    BY <2>1, <2>2 DEF PurgeInv, Traced
  <2> QED
    BY <2>1, <2>4, <2>6, <2>7, <2>8 DEF PurgeInv
<1> QED
  BY <1>1, <1>2, <1>3 DEF Purge!Fault

LEMMA HandlerKeeps ==
  ASSUME PurgeInv, NEW s \in Requests, NEW up, Purge!HandlerStep(s, up)
  PROVE  PurgeInv'
BY BeginExportKeeps, RecordReceiptKeeps, BeginPurgeKeeps, DeleteRowsKeeps, ClearReceiptKeeps,
   PublishTraceKeeps DEF Purge!HandlerStep

-----------------------------------------------------------------------------
(* AuditPurge: an export is good for one deletion, as long as requests     *)
(* come one at a time.  The receipts an operator has, and the deletions,   *)
(* are no more than the exports.  A deletion under way may have lost its   *)
(* receipt since it asked for it (it expired), and then that receipt is    *)
(* still owed to it; once the rows are gone the receipt that is about to   *)
(* be cleared pays for it.                                                 *)

Held(op) == (IF op \in receipt THEN 1 ELSE 0) + (IF op \in memory THEN 1 ELSE 0)
Balance(op) == Cardinality(purged[op]) + Held(op)
Deleting(s, op) == purging[s].op = op /\ purging[s].step \in {"delete", "clear"}

Ledger(op) ==
  /\ IsFiniteSet(purged[op])
  /\ (\A s \in Requests : ~Deleting(s, op)) => Balance(op) <= exports[op]
  /\ \A s \in Requests : Deleting(s, op) =>
       /\ purging[s].step = "delete" =>
            Balance(op) + (IF Purge!HasReceipt(op, redis) THEN 0 ELSE 1) <= exports[op]
       /\ purging[s].step = "clear" =>
            Balance(op) <= exports[op] + (IF Purge!HasReceipt(op, redis) THEN 1 ELSE 0)

PurgeAlone(s) == \A t \in Requests \ {s} : purging[t].step = "idle"

LEMMA AtMostOneMore ==
  ASSUME NEW S, NEW x, IsFiniteSet(S)
  PROVE  /\ IsFiniteSet(S \cup {x}) /\ Cardinality(S \cup {x}) \in Nat
         /\ Cardinality(S \cup {x}) <= Cardinality(S) + 1
<1>1. Cardinality(S) \in Nat
  BY FS_CardinalityType
<1>2. /\ IsFiniteSet(S \cup {x})
      /\ Cardinality(S \cup {x}) = IF x \in S THEN Cardinality(S) ELSE Cardinality(S) + 1
  BY FS_AddElement
<1> QED
  BY <1>1, <1>2

LEMMA HeldTyped ==
  ASSUME NEW op
  PROVE  /\ Held(op) \in 0..2
         /\ Purge!HasReceipt(op, redis) => Held(op) >= 1
BY DEF Held, Purge!HasReceipt

LEMMA LedgerSays ==
  ASSUME PurgeInv, NEW op \in Operators, Ledger(op)
  PROVE  /\ Cardinality(purged[op]) \in Nat /\ exports[op] \in Nat
         /\ Cardinality(purged[op]) <= exports[op]
<1>1. Cardinality(purged[op]) \in Nat /\ exports[op] \in Nat
  BY FS_CardinalityType DEF Ledger, PurgeInv, ExportsOK
<1>2. CASE \A s \in Requests : ~Deleting(s, op)
  BY <1>1, <1>2, HeldTyped DEF Ledger, Balance
<1>3. CASE \E s \in Requests : Deleting(s, op)
  <2>1. PICK s \in Requests : Deleting(s, op)
    BY <1>3
  <2>2. CASE purging[s].step = "delete"
    BY <1>1, <2>1, <2>2, HeldTyped DEF Ledger, Balance
  <2>3. CASE purging[s].step = "clear"
    BY <1>1, <2>1, <2>3, HeldTyped DEF Ledger, Balance
  <2> QED
    BY <2>1, <2>2, <2>3 DEF Deleting
<1> QED
  BY <1>1, <1>2, <1>3

\* A step of the only request under way.
LEMMA HandlerLedger ==
  ASSUME PurgeInv, NEW s \in Requests, PurgeAlone(s), Purge!HandlerStep(s, redis),
         NEW op \in Operators, Ledger(op)
  PROVE  Ledger(op)'
<1>0. /\ Cardinality(purged[op]) \in Nat /\ exports[op] \in Nat /\ Held(op) \in 0..2
      /\ IsFiniteSet(purged[op])
  BY LedgerSays, HeldTyped DEF Ledger
<1>1. UNCHANGED redis
  BY DEF Purge!HandlerStep, Purge!BeginExport, Purge!RecordReceipt, Purge!BeginPurge,
     Purge!DeleteRows, Purge!ClearReceipt, Purge!PublishTrace
<1>2. \A t \in Requests \ {s} : purging[t].step = "idle"
  BY DEF PurgeAlone
<1>3. CASE Purge!BeginExport(s)
  <2>1. /\ purging'[s].step = "record" /\ UNCHANGED <<receipt, memory, exports, purged>>
        /\ \A t \in Requests \ {s} : purging'[t] = purging[t]
    BY <1>3, BeginExportKeeps
  <2>2. \A t \in Requests : ~Deleting(t, op) /\ ~Deleting(t, op)'
    <3>1. purging[s].step = "idle"
      BY <1>3 DEF Purge!BeginExport, Purge!Accept, Purge!At
    <3> QED
      BY <1>2, <2>1, <3>1 DEF Deleting
  <2> QED
    BY <2>1, <2>2 DEF Ledger, Balance, Held
<1>4. CASE Purge!RecordReceipt(s, redis)
  <2>1. /\ purging[s].step = "record" /\ purging'[s].step = "idle" /\ UNCHANGED purged
        /\ purging[s].op \in Operators /\ \A t \in Requests \ {s} : purging'[t] = purging[t]
        /\ exports' = [exports EXCEPT ![purging[s].op] = @ + 1]
        /\ IF redis THEN receipt' = receipt \cup {purging[s].op} /\ UNCHANGED memory
                    ELSE memory' = memory \cup {purging[s].op} /\ UNCHANGED receipt
    BY <1>4, RecordReceiptKeeps
  <2>2. \A t \in Requests : ~Deleting(t, op) /\ ~Deleting(t, op)'
    BY <1>2, <2>1 DEF Deleting
  <2>3. CASE op = purging[s].op
    <3>1. exports'[op] = exports[op] + 1
      BY <2>1, <2>3 DEF PurgeInv, ExportsOK
    <3>2. Held(op)' <= Held(op) + 1 /\ Held(op)' \in 0..2
      BY <2>1 DEF Held
    <3> QED
      BY <1>0, <2>1, <2>2, <3>1, <3>2 DEF Ledger, Balance
  <2>4. CASE op # purging[s].op
    <3>1. exports'[op] = exports[op]
      BY <2>1, <2>4 DEF PurgeInv, ExportsOK
    <3>2. Held(op)' = Held(op)
      BY <2>1, <2>4 DEF Held
    <3> QED
      BY <1>0, <2>1, <2>2, <3>1, <3>2 DEF Ledger, Balance
  <2> QED
    BY <2>3, <2>4
<1>5. CASE Purge!BeginPurge(s, redis)
  <2>1. /\ UNCHANGED <<receipt, memory, exports, purged>>
        /\ purging'[s].step = "delete" /\ Purge!HasReceipt(purging'[s].op, redis)
        /\ \A t \in Requests \ {s} : purging'[t] = purging[t]
    BY <1>5, BeginPurgeKeeps
  <2>2. \A t \in Requests : ~Deleting(t, op)
    <3>1. purging[s].step = "idle"
      BY <1>5 DEF Purge!BeginPurge, Purge!Accept, Purge!At
    <3> QED
      BY <1>2, <3>1 DEF Deleting
  <2>3. Balance(op)' = Balance(op) /\ Balance(op) <= exports[op]
    BY <2>1, <2>2 DEF Ledger, Balance, Held
  <2>4. \A t \in Requests : Deleting(t, op)' =>
          purging'[t].step = "delete" /\ Purge!HasReceipt(op, redis)'
    BY <1>1, <1>2, <2>1 DEF Deleting, Purge!HasReceipt
  <2>5. Balance(op) \in Nat
    BY <1>0 DEF Balance
  <2> QED
    BY <1>0, <2>1, <2>3, <2>4, <2>5 DEF Ledger
<1>6. CASE Purge!DeleteRows(s)
  <2>1. /\ UNCHANGED <<receipt, memory, exports>>
        /\ purging[s].step = "delete" /\ purging'[s].step = "clear"
        /\ purging[s].op \in Operators /\ purging'[s].op = purging[s].op
        /\ purged' = [purged EXCEPT ![purging[s].op] = @ \cup {purging[s].trace}]
        /\ \A t \in Requests \ {s} : purging'[t] = purging[t]
    BY <1>6, DeleteRowsKeeps
  <2>2. Held(op)' = Held(op) /\ Purge!HasReceipt(op, redis)' = Purge!HasReceipt(op, redis)
    BY <1>1, <2>1 DEF Held, Purge!HasReceipt
  <2>3. CASE op = purging[s].op
    <3>1. purged'[op] = purged[op] \cup {purging[s].trace}
      BY <2>1, <2>3 DEF PurgeInv, StoreOK
    <3>2. IsFiniteSet(purged'[op]) /\ Cardinality(purged'[op]) \in Nat
          /\ Cardinality(purged'[op]) <= Cardinality(purged[op]) + 1
      BY <1>0, <3>1, AtMostOneMore
    <3>3. Balance(op) + (IF Purge!HasReceipt(op, redis) THEN 0 ELSE 1) <= exports[op]
      BY <2>1, <2>3 DEF Ledger, Deleting
    <3>4. Balance(op)' <= exports[op] + (IF Purge!HasReceipt(op, redis) THEN 1 ELSE 0)
      BY <1>0, <2>2, <3>2, <3>3 DEF Balance
    <3>5. \A t \in Requests : Deleting(t, op)' => t = s
      BY <1>2, <2>1 DEF Deleting
    <3>6. Deleting(s, op)'
      BY <2>1, <2>3 DEF Deleting
    <3> QED
      BY <2>1, <2>2, <3>2, <3>4, <3>5, <3>6 DEF Ledger
  <2>4. CASE op # purging[s].op
    <3>1. purged'[op] = purged[op]
      BY <2>1, <2>4 DEF PurgeInv, StoreOK
    <3>2. \A t \in Requests : ~Deleting(t, op) /\ ~Deleting(t, op)'
      BY <1>2, <2>1, <2>4 DEF Deleting
    <3> QED
      BY <2>1, <2>2, <3>1, <3>2 DEF Ledger, Balance
  <2> QED
    BY <2>3, <2>4
<1>7. CASE Purge!ClearReceipt(s, redis)
  <2>1. /\ UNCHANGED <<exports, purged>>
        /\ purging[s].step = "clear" /\ purging'[s].step = "publish"
        /\ purging[s].op \in Operators
        /\ receipt' = IF redis THEN receipt \ {purging[s].op} ELSE receipt
        /\ memory' = memory \ {purging[s].op}
        /\ \A t \in Requests \ {s} : purging'[t] = purging[t]
    BY <1>7, ClearReceiptKeeps
  <2>2. \A t \in Requests : ~Deleting(t, op)'
    BY <1>2, <2>1 DEF Deleting
  <2>3. CASE op = purging[s].op
    <3>1. Balance(op) <= exports[op] + (IF Purge!HasReceipt(op, redis) THEN 1 ELSE 0)
      BY <2>1, <2>3 DEF Ledger, Deleting
    <3>2. /\ Held(op)' \in 0..2
          /\ Held(op)' + (IF Purge!HasReceipt(op, redis) THEN 1 ELSE 0) <= Held(op)
      BY <2>1, <2>3 DEF Held, Purge!HasReceipt
    <3>3. Balance(op)' <= exports[op]
      BY <1>0, <2>1, <3>1, <3>2 DEF Balance
    <3> QED
      BY <1>0, <2>1, <2>2, <3>3 DEF Ledger
  <2>4. CASE op # purging[s].op
    <3>1. Held(op)' = Held(op)
      BY <2>1, <2>4 DEF Held
    <3>2. \A t \in Requests : ~Deleting(t, op)
      BY <1>2, <2>1, <2>4 DEF Deleting
    <3> QED
      BY <2>1, <2>2, <3>1, <3>2 DEF Ledger, Balance
  <2> QED
    BY <2>3, <2>4
<1>8. CASE Purge!PublishTrace(s)
  <2>1. /\ UNCHANGED <<receipt, memory, exports, purged>>
        /\ purging[s].step = "publish" /\ purging'[s].step = "idle"
        /\ \A t \in Requests \ {s} : purging'[t] = purging[t]
    BY <1>8, PublishTraceKeeps
  <2>2. \A t \in Requests : ~Deleting(t, op) /\ ~Deleting(t, op)'
    BY <1>2, <2>1 DEF Deleting
  <2> QED
    BY <2>1, <2>2 DEF Ledger, Balance, Held
<1> QED
  BY <1>3, <1>4, <1>5, <1>6, <1>7, <1>8 DEF Purge!HandlerStep

\* The listener writes a row; a receipt expires, perhaps one that a deletion
\* under way has asked for.
LEMMA ExpiryLedger ==
  ASSUME PurgeInv, Purge!WriteTrace \/ Purge!ReceiptExpires, NEW op \in Operators, Ledger(op)
  PROVE  Ledger(op)'
<1>0. /\ Cardinality(purged[op]) \in Nat /\ exports[op] \in Nat /\ Held(op) \in 0..2
      /\ IsFiniteSet(purged[op])
  BY LedgerSays, HeldTyped DEF Ledger
<1>1. UNCHANGED <<redis, purging, exports, purged>>
  BY DEF Purge!WriteTrace, Purge!ReceiptExpires, Purge!receipts, Purge!rows, Purge!observed
<1>2. CASE UNCHANGED <<receipt, memory>>
  BY <1>1, <1>2 DEF Ledger, Balance, Held, Deleting, Purge!HasReceipt
<1>3. CASE Purge!ReceiptExpires
  <2>1. \E o \in Operators :
          \/ o \in receipt /\ receipt' = receipt \ {o} /\ UNCHANGED memory
          \/ o \in memory /\ memory' = memory \ {o} /\ UNCHANGED receipt
    BY <1>3 DEF Purge!ReceiptExpires
  <2>2. /\ Held(op)' \in 0..2 /\ Held(op)' <= Held(op)
        /\ Purge!HasReceipt(op, redis)' => Purge!HasReceipt(op, redis)
        /\ Purge!HasReceipt(op, redis) /\ ~Purge!HasReceipt(op, redis)' => Held(op)' + 1 <= Held(op)
    BY <1>1, <2>1 DEF Held, Purge!HasReceipt
  <2>3. /\ Balance(op) \in Nat /\ Balance(op)' \in Nat /\ Balance(op)' <= Balance(op)
        /\ Purge!HasReceipt(op, redis) /\ ~Purge!HasReceipt(op, redis)'
             => Balance(op)' + 1 <= Balance(op)
    BY <1>0, <1>1, <2>2 DEF Balance
  <2>4. \A s \in Requests : Deleting(s, op)' = Deleting(s, op) /\ purging'[s] = purging[s]
    BY <1>1 DEF Deleting
  <2>5. (\A s \in Requests : ~Deleting(s, op)') => Balance(op)' <= exports'[op]
    BY <1>0, <1>1, <2>3, <2>4 DEF Ledger
  <2>6. ASSUME NEW s \in Requests, Deleting(s, op)', purging'[s].step = "delete"
        PROVE  Balance(op)' + (IF Purge!HasReceipt(op, redis)' THEN 0 ELSE 1) <= exports'[op]
    <3>1. Balance(op) + (IF Purge!HasReceipt(op, redis) THEN 0 ELSE 1) <= exports[op]
      BY <2>4, <2>6 DEF Ledger
    <3> QED
      BY <1>0, <1>1, <2>2, <2>3, <3>1
  <2>7. ASSUME NEW s \in Requests, Deleting(s, op)', purging'[s].step = "clear"
        PROVE  Balance(op)' <= exports'[op] + (IF Purge!HasReceipt(op, redis)' THEN 1 ELSE 0)
    <3>1. Balance(op) <= exports[op] + (IF Purge!HasReceipt(op, redis) THEN 1 ELSE 0)
      BY <2>4, <2>7 DEF Ledger
    <3> QED
      BY <1>0, <1>1, <2>2, <2>3, <3>1
  <2> QED
    BY <1>0, <1>1, <2>5, <2>6, <2>7 DEF Ledger
<1> QED
  BY <1>2, <1>3 DEF Purge!WriteTrace, Purge!receipts

\* While no request is under way it does not matter where the receipts are.
LEMMA RestLedger ==
  ASSUME PurgesRest, UNCHANGED purgeVars, NEW op \in Operators, Ledger(op)
  PROVE  Ledger(op)'
BY DEF PurgesRest, Purge!At, purgeVars, Ledger, Balance, Held, Deleting

-----------------------------------------------------------------------------
(* AdminGuard: which steps have to do with counters, and which with the    *)
(* session.                                                                *)

LoginSteps == {"network", "count", "clear"}

\* The other requests hold what they held.
Others(r) == req \in [Requests -> Request] /\ \A t \in Requests \ {r} : req'[t] = req[t]

\* A step of a request that has nothing to do with counters.
Outside(r) ==
  /\ Others(r) /\ req[r].step \notin LoginSteps /\ req'[r].step \notin LoginSteps
  /\ req'[r].fresh \in {{}, req[r].fresh}
  /\ UNCHANGED <<redis, count, windowed, local, locked, guesses>>

LEMMA HoldEffect ==
  ASSUME ReqOK, NEW r \in Requests, NEW q, Hold(r, q)
  PROVE  Others(r) /\ req'[r] = q
BY DEF ReqOK, Hold, Others

LEMMA PassEffect ==
  ASSUME ReqOK, NEW r \in Requests, Pass(r)
  PROVE  /\ Others(r)
         /\ \/ /\ req[r].gate = "timeout" /\ idle' = [idle EXCEPT ![req[r].session] = 0]
               /\ req'[r].step = "policy" /\ req'[r].policy = None
               /\ req'[r].fresh = req[r].fresh /\ req'[r].session = req[r].session
            \/ req[r].gate # "timeout" /\ req'[r] = Idle /\ UNCHANGED idle
<1>1. CASE req[r].gate = "timeout"
  <2> DEFINE q == [req[r] EXCEPT !.step = "policy", !.gate = "force", !.policy = None]
  <2>1. q.step = "policy" /\ q.policy = None /\ q.fresh = req[r].fresh
        /\ q.session = req[r].session
    BY DEF ReqOK, Request
  <2>2. Hold(r, q) /\ idle' = [idle EXCEPT ![req[r].session] = 0]
    BY <1>1 DEF Pass
  <2> HIDE DEF q
  <2> QED
    BY <1>1, <2>1, <2>2, HoldEffect
<1>2. CASE req[r].gate # "timeout"
  BY <1>2, HoldEffect DEF Pass, Respond
<1> QED
  BY <1>1, <1>2

LEMMA ApplyEffect ==
  ASSUME ReqOK, NEW r \in Requests, NEW p, Apply(r, p)
  PROVE  \/ /\ req[r].gate = "timeout" /\ p > 0 /\ UNCHANGED idle /\ Others(r)
            /\ req'[r].step = "lookup" /\ req'[r].policy = p
            /\ req'[r].fresh = req[r].fresh /\ req'[r].session = req[r].session
         \/ ~(req[r].gate = "timeout" /\ p > 0) /\ Pass(r)
<1>1. CASE req[r].gate = "timeout" /\ p > 0
  <2> DEFINE q == [req[r] EXCEPT !.step = "lookup", !.policy = p]
  <2>1. q.step = "lookup" /\ q.policy = p /\ q.fresh = req[r].fresh
        /\ q.session = req[r].session
    BY DEF ReqOK, Request
  <2>2. Hold(r, q) /\ UNCHANGED idle
    BY <1>1 DEF Apply
  <2> HIDE DEF q
  <2> QED
    BY <1>1, <2>1, <2>2, HoldEffect
<1>2. CASE ~(req[r].gate = "timeout" /\ p > 0)
  BY <1>2 DEF Apply
<1> QED
  BY <1>1, <1>2

LEMMA GoEffect ==
  ASSUME ReqOK, NEW r \in Requests, NEW step, Go(r, step)
  PROVE  /\ Others(r) /\ req'[r].step = step /\ req'[r].fresh = req[r].fresh
         /\ req'[r].session = req[r].session /\ req'[r].policy = req[r].policy
         /\ req'[r].who = req[r].who /\ req'[r].todo = req[r].todo
         /\ req'[r].right = req[r].right
<1> DEFINE q == [req[r] EXCEPT !.step = step]
<1>1. /\ q.step = step /\ q.fresh = req[r].fresh /\ q.session = req[r].session
      /\ q.policy = req[r].policy /\ q.who = req[r].who /\ q.todo = req[r].todo
      /\ q.right = req[r].right
  BY DEF ReqOK, Request
<1>2. Hold(r, q)
  BY DEF Go
<1> HIDE DEF q
<1> QED
  BY <1>1, <1>2, HoldEffect

\* The fields of a request that is at rest.
LEMMA IdleFields == Idle.step = "idle" /\ Idle.fresh = {} /\ Idle.policy = None
BY DEF Idle

LEMMA PassOutside ==
  ASSUME ReqOK, NEW r \in Requests, Pass(r)
  PROVE  Others(r) /\ req'[r].step \in {"policy", "idle"} /\ req'[r].fresh \in {{}, req[r].fresh}
BY PassEffect, IdleFields

LEMMA VisitsOutside ==
  ASSUME ReqOK, NEW r \in Requests, VisitStep(r)
  PROVE  Outside(r)
<1>1. /\ req[r].step \notin LoginSteps
      /\ UNCHANGED <<redis, count, windowed, local, locked, guesses>>
  BY DEF VisitStep, Visit, PolicyHit, ReadPolicy, StorePolicy, LookUp, Touch, CheckRow,
     TouchRow, Revoke, RevokeToken, Forget, Accept, At, LoginSteps, counters, rules
<1>2. CASE Visit(r)
  <2>1. PICK s \in Sessions : Hold(r, [Idle EXCEPT !.step = "policy", !.session = s])
    BY <1>2 DEF Visit, Accept
  <2> DEFINE q == [Idle EXCEPT !.step = "policy", !.session = s]
  <2>2. q.step = "policy" /\ q.fresh = {}
    BY DEF Idle
  <2>3. Hold(r, q)
    BY <2>1
  <2> HIDE DEF q
  <2> QED
    BY <1>1, <2>2, <2>3, HoldEffect DEF Outside, LoginSteps
<1>3. CASE PolicyHit(r) \/ StorePolicy(r)
  <2>1. \E p \in {cached, req[r].policy} : Apply(r, p)
    BY <1>3 DEF PolicyHit, StorePolicy
  <2>2. /\ Others(r) /\ req'[r].step \in {"policy", "idle", "lookup"}
        /\ req'[r].fresh \in {{}, req[r].fresh}
    BY <2>1, ApplyEffect, PassOutside
  <2> QED
    BY <1>1, <2>2 DEF Outside, LoginSteps
<1>4. CASE ReadPolicy(r)
  <2> DEFINE q == [req[r] EXCEPT !.step = "store", !.policy = policy]
  <2>1. q.step = "store" /\ q.fresh = req[r].fresh
    BY DEF ReqOK, Request
  <2>2. Hold(r, q)
    BY <1>4 DEF ReadPolicy
  <2> HIDE DEF q
  <2> QED
    BY <1>1, <2>1, <2>2, HoldEffect DEF Outside, LoginSteps
<1>5. CASE LookUp(r) \/ Touch(r) \/ CheckRow(r) \/ TouchRow(r) \/ Revoke(r) \/ RevokeToken(r)
           \/ Forget(r)
  <2>1. \/ \E step \in {"row", "revoke", "touch", "touchRow", "revokeToken", "forget"} : Go(r, step)
        \/ Respond(r) \/ Pass(r)
    BY <1>5 DEF LookUp, Touch, CheckRow, TouchRow, Revoke, RevokeToken, Forget
  <2>2. /\ Others(r) /\ req'[r].fresh \in {{}, req[r].fresh}
        /\ req'[r].step \in {"row", "revoke", "touch", "touchRow", "revokeToken", "forget",
                             "policy", "idle"}
    BY <2>1, GoEffect, PassOutside, HoldEffect, IdleFields DEF Respond
  <2> QED
    BY <1>1, <2>2 DEF Outside, LoginSteps
<1> QED
  BY <1>2, <1>3, <1>4, <1>5 DEF VisitStep

LEMMA SettingsOutside ==
  ASSUME ReqOK, NEW r \in Requests, PolicyStep(r)
  PROVE  Outside(r)
<1>1. /\ req[r].step \notin LoginSteps
      /\ UNCHANGED <<redis, count, windowed, local, locked, guesses>>
  BY DEF PolicyStep, SavePolicy, Invalidate, Accept, At, LoginSteps, counters
<1> DEFINE q == [Idle EXCEPT !.step = "invalidate"]
<1>2. q.step = "invalidate" /\ q.fresh = {}
  BY DEF Idle
<1>3. Hold(r, q) \/ Hold(r, Idle)
  BY DEF PolicyStep, SavePolicy, Invalidate, Accept, Respond
<1> HIDE DEF q
<1> QED
  BY <1>1, <1>2, <1>3, HoldEffect, IdleFields DEF Outside, LoginSteps

-----------------------------------------------------------------------------
(* AdminGuard: a counter has its expiry set, or the request that is to set *)
(* it is there.  Nothing fails: Redis is there, and then nothing is        *)
(* counted in memory, or it is not, and then nothing is counted in Redis.  *)

CounterInv ==
  /\ CountersDie
  /\ redis => \A k \in Counters : local[k] = 0
  /\ ~redis => /\ \A k \in Counters : count[k] = 0
               /\ \A r \in Requests : req[r].fresh = {}

\* A step that leaves the counters alone, by a request that has no expiry to set.
Settled(r) ==
  /\ Others(r) /\ UNCHANGED <<redis, count, windowed, local>>
  /\ req[r].step = "count" => req[r].fresh = {}
  /\ req'[r].fresh \in {{}, req[r].fresh}

LEMMA SettledKeeps ==
  ASSUME CounterInv, NEW r \in Requests, Settled(r)
  PROVE  CounterInv'
<1>1. CountersDie'
  <2> SUFFICES ASSUME NEW k \in Counters, count[k] > 0, k \notin windowed
               PROVE  \E t \in Requests : req'[t].step = "count" /\ k \in req'[t].fresh
    BY DEF Settled, CountersDie, At
  <2>1. PICK t \in Requests : req[t].step = "count" /\ k \in req[t].fresh
    BY DEF CounterInv, CountersDie, At
  <2>2. t # r
    BY <2>1 DEF Settled
  <2> QED
    BY <2>1, <2>2 DEF Settled, Others
<1>2. redis' => \A k \in Counters : local'[k] = 0
  BY DEF CounterInv, Settled
<1>3. ASSUME ~redis', NEW t \in Requests PROVE req'[t].fresh = {}
  BY <1>3 DEF CounterInv, Settled, Others
<1> QED
  BY <1>1, <1>2, <1>3 DEF CounterInv, Settled

LEMMA LoginSettled ==
  ASSUME ReqOK, NEW r \in Requests, LoginStep(r) \/ CallStep(r)
  PROVE  Settled(r)
<1>1. /\ UNCHANGED <<redis, count, windowed, local>>
      /\ req[r].step = "count" => req[r].fresh = {}
  BY DEF LoginStep, CallStep, LogIn, NetworkFlagged, Compare, Refuse, Lock, Cleared, Call,
     CallCounted, Counted, Accept, At, counters
<1>2. CASE LogIn(r)
  <2>1. PICK a \in Accounts, n \in Networks, right \in BOOLEAN :
          Hold(r, [Idle EXCEPT !.step = "network", !.who = a, !.from = n, !.right = right,
                               !.todo = {a, n}])
    BY <1>2 DEF LogIn, Accept
  <2> DEFINE q == [Idle EXCEPT !.step = "network", !.who = a, !.from = n, !.right = right,
                               !.todo = {a, n}]
  <2>2. q.fresh = {}
    BY DEF Idle
  <2>3. Hold(r, q)
    BY <2>1
  <2> HIDE DEF q
  <2> QED
    BY <1>1, <2>2, <2>3, HoldEffect DEF Settled
<1>3. CASE Call(r)
  <2>1. PICK c \in Clients : Hold(r, [Idle EXCEPT !.step = "count", !.todo = {c}])
    BY <1>3 DEF Call, Accept
  <2> DEFINE q == [Idle EXCEPT !.step = "count", !.todo = {c}]
  <2>2. q.fresh = {}
    BY DEF Idle
  <2>3. Hold(r, q)
    BY <2>1
  <2> HIDE DEF q
  <2> QED
    BY <1>1, <2>2, <2>3, HoldEffect DEF Settled
<1>4. CASE Lock(r)
  <2> DEFINE q == [req[r] EXCEPT !.step = "clear", !.todo = {req[r].who, req[r].from}]
  <2>1. q.fresh = req[r].fresh
    BY DEF ReqOK, Request
  <2>2. Hold(r, q)
    BY <1>4 DEF Lock
  <2> HIDE DEF q
  <2> QED
    BY <1>1, <2>1, <2>2, HoldEffect DEF Settled
<1>5. CASE NetworkFlagged(r) \/ Compare(r) \/ Refuse(r) \/ Cleared(r) \/ CallCounted(r)
  <2>1. Respond(r) \/ \E step \in {"clear", "count"} : Go(r, step)
    BY <1>5 DEF NetworkFlagged, Compare, Refuse, Cleared, CallCounted
  <2>2. Others(r) /\ req'[r].fresh \in {{}, req[r].fresh}
    BY <2>1, GoEffect, HoldEffect, IdleFields DEF Respond
  <2> QED
    BY <1>1, <2>2 DEF Settled
<1> QED
  BY <1>2, <1>3, <1>4, <1>5 DEF LoginStep, CallStep

LEMMA CountCounters ==
  ASSUME GuardInv, CounterInv, NEW r \in Requests, NEW k \in Counters, Count(r, k)
  PROVE  CounterInv'
<1> DEFINE q == [req[r] EXCEPT !.todo = @ \ {k}, !.seen = Seen(r, k, Up(count[k])),
                               !.fresh = IF count[k] = 0 THEN @ \cup {k} ELSE @]
<1>1. q.step = "count" /\ q.fresh = IF count[k] = 0 THEN req[r].fresh \cup {k} ELSE req[r].fresh
  BY DEF Count, At, GuardInv, ReqOK, Request
<1>2. Hold(r, q)
  BY DEF Count
<1> HIDE DEF q
<1>3. Others(r) /\ req'[r] = q
  BY <1>2, HoldEffect DEF GuardInv
<1>4. /\ count' = [count EXCEPT ![k] = Up(@)] /\ redis /\ req[r].step = "count"
      /\ UNCHANGED <<redis, windowed, local>>
  BY DEF Count, At
<1>5. ASSUME NEW i \in Counters, count'[i] > 0, i \notin windowed'
      PROVE  \E t \in Requests : req'[t].step = "count" /\ i \in req'[t].fresh
  <2>1. CASE i = k /\ count[k] = 0
    BY <1>1, <1>3, <2>1
  <2>2. CASE ~(i = k /\ count[k] = 0)
    <3>1. count[i] > 0 /\ i \notin windowed
      BY <1>4, <1>5, <2>2 DEF GuardInv, CountOK
    <3>2. PICK t \in Requests : req[t].step = "count" /\ i \in req[t].fresh
      BY <3>1 DEF CounterInv, CountersDie, At
    <3>3. req'[t].step = "count" /\ i \in req'[t].fresh
      BY <1>1, <1>3, <3>2 DEF Others
    <3> QED
      BY <3>3
  <2> QED
    BY <2>1, <2>2
<1>6. CountersDie'
  BY <1>5 DEF CountersDie, At
<1> QED
  BY <1>4, <1>6 DEF CounterInv

LEMMA SetWindowCounters ==
  ASSUME GuardInv, CounterInv, NEW r \in Requests, NEW k \in Counters, SetWindow(r, k)
  PROVE  CounterInv'
<1> DEFINE q == [req[r] EXCEPT !.fresh = @ \ {k}]
<1>1. q.step = "count" /\ q.fresh = req[r].fresh \ {k}
  BY DEF SetWindow, At, GuardInv, ReqOK, Request
<1>2. Hold(r, q)
  BY DEF SetWindow
<1> HIDE DEF q
<1>3. Others(r) /\ req'[r] = q
  BY <1>2, HoldEffect DEF GuardInv
<1>4. /\ windowed' = IF count[k] > 0 THEN windowed \cup {k} ELSE windowed
      /\ redis /\ req[r].step = "count" /\ UNCHANGED <<redis, count, local>>
  BY DEF SetWindow, At
<1>5. ASSUME NEW i \in Counters, count[i] > 0, i \notin windowed'
      PROVE  \E t \in Requests : req'[t].step = "count" /\ i \in req'[t].fresh
  <2>1. i # k /\ i \notin windowed
    BY <1>4, <1>5
  <2>2. PICK t \in Requests : req[t].step = "count" /\ i \in req[t].fresh
    BY <1>5, <2>1 DEF CounterInv, CountersDie, At
  <2>3. req'[t].step = "count" /\ i \in req'[t].fresh
    BY <1>1, <1>3, <2>1, <2>2 DEF Others
  <2> QED
    BY <2>3
<1>6. CountersDie'
  BY <1>4, <1>5 DEF CountersDie, At
<1> QED
  BY <1>4, <1>6 DEF CounterInv

LEMMA CountInMemoryCounters ==
  ASSUME GuardInv, CounterInv, NEW r \in Requests, NEW k \in Counters, CountInMemory(r, k)
  PROVE  CounterInv'
<1> DEFINE q == [req[r] EXCEPT !.todo = @ \ {k}, !.fresh = @ \ {k},
                               !.seen = Seen(r, k, Up(local[k]))]
<1>1. q.fresh = req[r].fresh \ {k}
  BY DEF GuardInv, ReqOK, Request
<1>2. Hold(r, q)
  BY DEF CountInMemory, CountLocally
<1> HIDE DEF q
<1>3. Others(r) /\ req'[r] = q
  BY <1>2, HoldEffect DEF GuardInv
<1>4. ~redis /\ UNCHANGED <<redis, count, windowed>>
  BY DEF CountInMemory
<1>5. \A t \in Requests : req'[t].fresh = {}
  BY <1>1, <1>3, <1>4 DEF CounterInv, Others
<1>6. \A i \in Counters : ~(count'[i] > 0)
  BY <1>4 DEF CounterInv
<1> QED
  BY <1>4, <1>5, <1>6 DEF CounterInv, CountersDie

LEMMA ClearCounters ==
  ASSUME GuardInv, CounterInv, NEW r \in Requests, NEW k \in Counters, Clear(r, k)
  PROVE  CounterInv'
<1> DEFINE q == [req[r] EXCEPT !.todo = @ \ {k}]
<1>1. q.fresh = req[r].fresh
  BY DEF GuardInv, ReqOK, Request
<1>2. Hold(r, q)
  BY DEF Clear
<1> HIDE DEF q
<1>3. Others(r) /\ req'[r] = q
  BY <1>2, HoldEffect DEF GuardInv
<1>4. /\ req[r].step = "clear" /\ UNCHANGED redis /\ local' = [local EXCEPT ![k] = 0]
      /\ IF redis THEN count' = [count EXCEPT ![k] = 0] /\ windowed' = windowed \ {k}
         ELSE UNCHANGED <<count, windowed>>
  BY DEF Clear, At
<1>5. ASSUME NEW i \in Counters, count'[i] > 0, i \notin windowed'
      PROVE  \E t \in Requests : req'[t].step = "count" /\ i \in req'[t].fresh
  <2>1. count[i] > 0 /\ i \notin windowed
    BY <1>4, <1>5 DEF GuardInv, CountOK
  <2>2. PICK t \in Requests : req[t].step = "count" /\ i \in req[t].fresh
    BY <2>1 DEF CounterInv, CountersDie, At
  <2>3. t # r
    BY <1>4, <2>2
  <2> QED
    BY <1>3, <2>2, <2>3 DEF Others
<1>6. CountersDie'
  BY <1>5 DEF CountersDie, At
<1>7. redis' => \A i \in Counters : local'[i] = 0
  BY <1>4 DEF CounterInv, GuardInv, CountOK
<1>8. ~redis' => /\ \A i \in Counters : count'[i] = 0
                 /\ \A t \in Requests : req'[t].fresh = {}
  BY <1>1, <1>3, <1>4 DEF CounterInv, Others
<1> QED
  BY <1>6, <1>7, <1>8 DEF CounterInv

\* Steps that no request makes.
LEMMA BesideCounters ==
  ASSUME GuardInv, CounterInv,
         \/ \E k \in Counters : WindowEnds(k)
         \/ \E a \in Accounts : Unlock(a)
         \/ CachedEnds \/ Tick \/ \E s \in Sessions : Renew(s)
  PROVE  CounterInv'
<1>1. ASSUME NEW k \in Counters, WindowEnds(k) PROVE CounterInv'
  <2>1. UNCHANGED <<redis, req>>
    BY <1>1 DEF WindowEnds
  <2>2. \/ /\ count' = [count EXCEPT ![k] = 0] /\ windowed' = windowed \ {k}
           /\ UNCHANGED local
        \/ local' = [local EXCEPT ![k] = 0] /\ UNCHANGED <<count, windowed>>
    BY <1>1 DEF WindowEnds
  <2>3. \A i \in Counters : count'[i] > 0 /\ i \notin windowed' => count[i] > 0 /\ i \notin windowed
    BY <2>2 DEF GuardInv, CountOK
  <2>4. CountersDie'
    BY <2>1, <2>3 DEF CounterInv, CountersDie, At
  <2> QED
    BY <2>1, <2>2, <2>4 DEF CounterInv, GuardInv, CountOK
<1>2. CASE UNCHANGED <<redis, count, windowed, local, req>>
  BY <1>2 DEF CounterInv, CountersDie, At
<1> QED
  BY <1>1, <1>2 DEF Unlock, CachedEnds, Tick, Renew, counters

-----------------------------------------------------------------------------
(* AdminGuard: while nothing fails a session is expired only when it has   *)
(* been idle for too long.  What the process goes by, the key while Redis  *)
(* is there and the row while it is not, is never older than the session's *)
(* last request; this needs that the timeout is either on throughout, and  *)
(* then every request renews it, or off, and then there are no keys.       *)

Paced(q) ==
  /\ q.step = "store" => (q.policy = 0 <=> policy = 0)
  /\ q.step \in Timed => policy # 0
  /\ redis => q.step \notin {"row", "touchRow"}
  /\ ~redis => q.step # "touch"

SessionPaced(s) ==
  /\ session[s].key # None => policy # 0 /\ redis /\ session[s].key.age <= idle[s]
  /\ ~redis /\ policy # 0 => session[s].row <= idle[s]

ActiveInv ==
  /\ cached # None => (cached = 0 <=> policy = 0)
  /\ \A r \in Requests : Paced(req[r])
  /\ \A s \in Sessions : SessionPaced(s)

ExpiresIdle(r) == ~At(r, "revoke") /\ req'[r].step = "revoke" => idle[req[r].session] > Limit(r)

LEMMA PolicyPositive == \A p \in Policies : p \in Nat /\ (p > 0 <=> p \in Timeouts) /\ (p > 0 <=> p # 0)
BY GuardAssumption DEF Policies

LEMMA IdlePaced == Paced(Idle)
BY IdleFields, StepNames DEF Paced

\* A step of a request that touches neither policy nor session.
LEMMA ActiveKeeps ==
  ASSUME ActiveInv, NEW r \in Requests, Others(r), Paced(req'[r]),
         UNCHANGED <<redis, policy, cached, session, idle>>
  PROVE  ActiveInv'
<1>1. \A t \in Requests : Paced(req[t])'
  BY DEF ActiveInv, Others, Paced
<1> QED
  BY <1>1 DEF ActiveInv, SessionPaced

\* A request that is let through starts its session's time anew.
LEMMA PassPaced ==
  ASSUME GuardInv, ActiveInv, NEW r \in Requests, Pass(r), req[r].session \in Sessions,
         UNCHANGED <<redis, policy>>,
         \A s \in Sessions \ {req[r].session} : session'[s] = session[s],
         req[r].gate # "timeout" => UNCHANGED session,
         session'[req[r].session].key # None /\ req[r].gate = "timeout" =>
           policy # 0 /\ redis /\ session'[req[r].session].key.age = 0,
         ~redis /\ policy # 0 /\ req[r].gate = "timeout" => session'[req[r].session].row = 0
  PROVE  (\A t \in Requests : Paced(req[t])') /\ (\A s \in Sessions : SessionPaced(s)')
         /\ ExpiresIdle(r)
<1>1. Others(r)
  BY PassEffect DEF GuardInv
<1>2. CASE req[r].gate = "timeout"
  <2>1. idle' = [idle EXCEPT ![req[r].session] = 0] /\ req'[r].step = "policy"
    BY <1>2, PassEffect DEF GuardInv
  <2>2. \A t \in Requests : Paced(req[t])'
    BY <1>1, <2>1, StepNames DEF ActiveInv, Others, Paced
  <2>3. \A s \in Sessions : SessionPaced(s)'
    BY <1>2, <2>1 DEF GuardInv, RestOK, ActiveInv, SessionPaced
  <2> QED
    BY <2>1, <2>2, <2>3 DEF ExpiresIdle
<1>3. CASE req[r].gate # "timeout"
  <2>1. UNCHANGED idle /\ req'[r] = Idle
    BY <1>3, PassEffect DEF GuardInv
  <2>2. \A t \in Requests : Paced(req[t])'
    BY <1>1, <2>1, IdlePaced DEF ActiveInv, Others, Paced
  <2> QED
    BY <1>3, <2>1, <2>2, IdleFields DEF ActiveInv, SessionPaced, ExpiresIdle
<1> QED
  BY <1>2, <1>3

LEMMA ApplyPaced ==
  ASSUME GuardInv, ActiveInv, NEW r \in Requests, NEW p \in Policies, Apply(r, p),
         p = 0 <=> policy = 0, req[r].session \in Sessions, UNCHANGED <<redis, policy, session>>
  PROVE  (\A t \in Requests : Paced(req[t])') /\ (\A s \in Sessions : SessionPaced(s)')
         /\ ExpiresIdle(r)
<1>1. CASE Pass(r) /\ ~(req[r].gate = "timeout" /\ p > 0)
  <2>1. req[r].gate = "timeout" => policy = 0
    BY <1>1, PolicyPositive
  <2> QED
    BY <1>1, <2>1, PassPaced DEF ActiveInv, SessionPaced
<1>2. CASE p > 0 /\ req'[r].step = "lookup" /\ Others(r) /\ UNCHANGED idle
  <2>1. policy # 0
    BY <1>2, PolicyPositive
  <2>2. \A t \in Requests : Paced(req[t])'
    BY <1>2, <2>1 DEF ActiveInv, Others, Paced
  <2> QED
    BY <1>2, <2>2 DEF ActiveInv, SessionPaced, ExpiresIdle
<1> QED
  BY <1>1, <1>2, ApplyEffect DEF GuardInv

LEMMA PolicyActive ==
  ASSUME GuardInv, ActiveInv, NEW r \in Requests, PolicyHit(r) \/ ReadPolicy(r) \/ StorePolicy(r)
  PROVE  ActiveInv' /\ ExpiresIdle(r)
<1>1. /\ req[r].session \in Sessions /\ Paced(req[r]) /\ policy \in Policies
      /\ At(r, "store") => req[r].policy \in Policies
  BY StepNames DEF GuardInv, ReqOK, RestOK, PolicyHit, ReadPolicy, StorePolicy, At, Shaped, ActiveInv
<1>2. CASE PolicyHit(r)
  <2>1. /\ cached \in Policies /\ (cached = 0 <=> policy = 0) /\ Apply(r, cached)
        /\ UNCHANGED <<redis, policy, cached, session>>
    BY <1>2 DEF GuardInv, RestOK, PolicyHit, ActiveInv, rules
  <2>2. /\ \A t \in Requests : Paced(req[t])'
        /\ \A s \in Sessions : SessionPaced(s)'
        /\ ExpiresIdle(r)
    BY <1>1, <2>1, ApplyPaced
  <2> QED
    BY <2>1, <2>2 DEF ActiveInv
<1>3. CASE ReadPolicy(r)
  <2> DEFINE q == [req[r] EXCEPT !.step = "store", !.policy = policy]
  <2>1. q.step = "store" /\ q.policy = policy
    BY DEF GuardInv, ReqOK, Request
  <2>2. Hold(r, q) /\ UNCHANGED <<redis, policy, cached, session, idle>>
    BY <1>3 DEF ReadPolicy, rules
  <2> HIDE DEF q
  <2>3. Others(r) /\ req'[r] = q
    BY <2>2, HoldEffect DEF GuardInv
  <2>4. Paced(q)
    BY <2>1, StepNames DEF Paced
  <2> QED
    BY <2>1, <2>2, <2>3, <2>4, ActiveKeeps DEF ExpiresIdle
<1>4. CASE StorePolicy(r)
  <2>1. /\ req[r].policy \in Policies /\ (req[r].policy = 0 <=> policy = 0)
        /\ Apply(r, req[r].policy) /\ UNCHANGED <<redis, policy, session>>
        /\ cached' = IF redis THEN req[r].policy ELSE cached
    BY <1>1, <1>4 DEF StorePolicy, At, Paced
  <2>2. /\ \A t \in Requests : Paced(req[t])'
        /\ \A s \in Sessions : SessionPaced(s)'
        /\ ExpiresIdle(r)
    BY <1>1, <2>1, ApplyPaced
  <2> QED
    BY <2>1, <2>2 DEF ActiveInv
<1> QED
  BY <1>2, <1>3, <1>4

LEMMA VisitActive ==
  ASSUME GuardInv, ActiveInv, NEW r \in Requests, Visit(r)
  PROVE  ActiveInv' /\ ExpiresIdle(r)
<1>1. PICK s \in Sessions : Hold(r, [Idle EXCEPT !.step = "policy", !.session = s])
  BY DEF Visit, Accept
<1> DEFINE q == [Idle EXCEPT !.step = "policy", !.session = s]
<1>2. q.step = "policy"
  BY DEF Idle
<1>3. Hold(r, q) /\ UNCHANGED <<redis, policy, cached, session, idle>>
  BY <1>1 DEF Visit, rules
<1> HIDE DEF q
<1>4. Others(r) /\ req'[r] = q
  BY <1>3, HoldEffect DEF GuardInv
<1>5. Paced(q)
  BY <1>2, StepNames DEF Paced
<1> QED
  BY <1>2, <1>3, <1>4, <1>5, ActiveKeeps DEF ExpiresIdle

LEMMA LookUpActive ==
  ASSUME GuardInv, ActiveInv, NEW r \in Requests, LookUp(r) \/ CheckRow(r)
  PROVE  ActiveInv' /\ ExpiresIdle(r)
<1>1. /\ req[r].step \in Timed /\ req[r].session \in Sessions /\ policy # 0 /\ Paced(req[r])
      /\ SessionPaced(req[r].session) /\ Of(r) \in Session /\ Limit(r) \in Timeouts
  BY GateHolds, StepNames DEF LookUp, CheckRow, At, ActiveInv, Paced
<1>2. UNCHANGED <<redis, policy, cached, session, idle>>
  BY DEF LookUp, CheckRow, rules
<1>3. /\ Limit(r) \in Nat /\ idle[req[r].session] \in Nat /\ Of(r).row \in Nat
      /\ Of(r).key # None => Of(r).key.age \in Nat
  <2>0. Limit(r) \in 1..MaxAge /\ MaxAge \in Nat
    BY <1>1, GuardAssumption
  <2>1. Limit(r) \in Nat /\ Ages \subseteq Nat
    BY <2>0 DEF Ages
  <2>2. idle[req[r].session] \in Ages
    BY <1>1 DEF GuardInv, RestOK
  <2>3. Of(r).row \in Ages /\ (Of(r).key # None => Of(r).key.age \in Ages)
    BY <1>1 DEF Session, Key
  <2> QED
    BY <2>1, <2>2, <2>3
<1>4. CASE LookUp(r)
  <2>1. PICK step \in {"row", "revoke", "touch"} :
          /\ Go(r, step)
          /\ step = "row" => ~redis
          /\ step = "revoke" => redis /\ Of(r).key # None /\ Of(r).key.age > Limit(r)
          /\ step = "touch" => redis
    BY <1>4 DEF LookUp
  <2>2. Others(r) /\ req'[r].step = step
    BY <2>1, GoEffect DEF GuardInv
  <2>3. Paced(req'[r])
    BY <1>1, <2>1, <2>2, StepNames DEF Paced
  <2>4. ExpiresIdle(r)
    BY <1>1, <1>3, <2>1, <2>2 DEF ExpiresIdle, SessionPaced, Of
  <2> QED
    BY <1>2, <2>2, <2>3, <2>4, ActiveKeeps
<1>5. CASE CheckRow(r)
  <2>1. ~redis
    BY <1>1, <1>5 DEF CheckRow, At, Paced
  <2>2. CASE Respond(r)
    <3>1. Others(r) /\ req'[r] = Idle
      BY <2>2, HoldEffect DEF GuardInv, Respond
    <3> QED
      BY <1>2, <3>1, IdlePaced, IdleFields, ActiveKeeps DEF ExpiresIdle
  <2>3. CASE ~Respond(r)
    <3>1. PICK step \in {"revoke", "touchRow"} :
            Go(r, step) /\ (step = "revoke" => Of(r).row > Limit(r))
      BY <1>5, <2>3 DEF CheckRow
    <3>2. Others(r) /\ req'[r].step = step
      BY <3>1, GoEffect DEF GuardInv
    <3>3. Paced(req'[r])
      BY <1>1, <2>1, <3>1, <3>2, StepNames DEF Paced
    <3>4. ExpiresIdle(r)
      BY <1>1, <1>3, <2>1, <3>1, <3>2 DEF ExpiresIdle, SessionPaced, Of
    <3> QED
      BY <1>2, <3>2, <3>3, <3>4, ActiveKeeps
  <2> QED
    BY <2>2, <2>3
<1> QED
  BY <1>4, <1>5

LEMMA TouchActive ==
  ASSUME GuardInv, ActiveInv, NEW r \in Requests, Touch(r) \/ TouchRow(r)
  PROVE  ActiveInv' /\ ExpiresIdle(r)
<1>1. /\ req[r].step \in Timed /\ req[r].session \in Sessions /\ policy # 0 /\ Paced(req[r])
      /\ SessionPaced(req[r].session) /\ Of(r) \in Session /\ req[r].gate = "timeout"
  BY GateHolds, StepNames DEF Touch, TouchRow, At, ActiveInv, Paced
<1>2. UNCHANGED <<redis, policy, cached>>
  BY DEF Touch, TouchRow, rules
<1>3. CASE Touch(r)
  <2>1. redis
    BY <1>1, <1>3 DEF Touch, At, Paced
  <2>2. /\ session' = [session EXCEPT ![req[r].session].key = [age |-> 0, life |-> Limit(r)]]
        /\ Pass(r)
    BY <1>3, <2>1 DEF Touch
  <2>3. /\ session'[req[r].session].key = [age |-> 0, life |-> Limit(r)]
        /\ \A s \in Sessions \ {req[r].session} : session'[s] = session[s]
    BY <1>1, <2>2 DEF GuardInv, SessionOK, Session, Of
  <2>4. /\ \A t \in Requests : Paced(req[t])'
        /\ \A s \in Sessions : SessionPaced(s)'
        /\ ExpiresIdle(r)
    BY <1>1, <1>2, <2>1, <2>2, <2>3, PassPaced
  <2> QED
    BY <1>2, <2>4 DEF ActiveInv
<1>4. CASE TouchRow(r)
  <2>1. ~redis
    BY <1>1, <1>4 DEF TouchRow, At, Paced
  <2>2. /\ session' = [session EXCEPT ![req[r].session].row = 0]
        /\ Pass(r)
    BY <1>4 DEF TouchRow
  <2>3. /\ session'[req[r].session].row = 0
        /\ session'[req[r].session].key = Of(r).key
        /\ \A s \in Sessions \ {req[r].session} : session'[s] = session[s]
    BY <1>1, <2>2 DEF GuardInv, SessionOK, Session, Of
  <2>4. Of(r).key = None
    BY <1>1, <2>1 DEF SessionPaced, Of
  <2>5. /\ \A t \in Requests : Paced(req[t])'
        /\ \A s \in Sessions : SessionPaced(s)'
        /\ ExpiresIdle(r)
    BY <1>1, <1>2, <2>1, <2>2, <2>3, <2>4, PassPaced
  <2> QED
    BY <1>2, <2>5 DEF ActiveInv
<1> QED
  BY <1>3, <1>4

\* Who is expired keeps key and row, or loses the key.
LEMMA ExpireActive ==
  ASSUME GuardInv, ActiveInv, NEW r \in Requests, Revoke(r) \/ RevokeToken(r) \/ Forget(r)
  PROVE  ActiveInv' /\ ExpiresIdle(r)
<1>1. req[r].session \in Sessions /\ Of(r) \in Session
  BY GateHolds, StepNames DEF Revoke, RevokeToken, Forget, At
<1>2. UNCHANGED <<redis, policy, cached, idle>>
  BY DEF Revoke, RevokeToken, Forget, rules
<1>3. Others(r) /\ req'[r].step \in {"revokeToken", "forget", "idle"}
  <2>1. Respond(r) \/ \E step \in {"revokeToken", "forget"} : Go(r, step)
    BY DEF Revoke, RevokeToken, Forget
  <2> QED
    BY <2>1, GoEffect, HoldEffect, IdleFields DEF GuardInv, Respond
<1>4. \A s \in Sessions : /\ session'[s].row = session[s].row
                          /\ session'[s].key \in {None, session[s].key}
  <2>1. CASE Revoke(r)
    BY <2>1 DEF Revoke, GuardInv, SessionOK, Session
  <2>2. CASE RevokeToken(r)
    BY <2>2 DEF RevokeToken, GuardInv, SessionOK, Session
  <2>3. CASE Forget(r)
    BY <2>3 DEF Forget, GuardInv, SessionOK, Session
  <2> QED
    BY <2>1, <2>2, <2>3
<1>5. \A s \in Sessions : SessionPaced(s)'
  BY <1>2, <1>4 DEF ActiveInv, SessionPaced
<1>6. \A t \in Requests : Paced(req[t])'
  BY <1>2, <1>3, StepNames DEF ActiveInv, Others, Paced
<1> QED
  BY <1>2, <1>3, <1>5, <1>6 DEF ActiveInv, ExpiresIdle

LEMMA VisitsActive ==
  ASSUME GuardInv, ActiveInv, NEW r \in Requests, VisitStep(r)
  PROVE  ActiveInv' /\ ExpiresIdle(r) /\ Others(r)
<1>1. Others(r)
  BY VisitsOutside DEF GuardInv, Outside
<1> QED
  BY <1>1, VisitActive, PolicyActive, LookUpActive, TouchActive, ExpireActive DEF VisitStep

\* The policy is saved, and the timeout stays on, or off.
LEMMA SettingsActive ==
  ASSUME GuardInv, ActiveInv, NEW r \in Requests, (SavePolicy(r) /\ Chosen) \/ Invalidate(r)
  PROVE  ActiveInv' /\ ExpiresIdle(r) /\ Others(r)
<1>1. PICK q \in {Idle, [Idle EXCEPT !.step = "invalidate"]} : Hold(r, q)
  BY DEF SavePolicy, Invalidate, Accept, Respond
<1>2. q.step \in {"idle", "invalidate"}
  BY DEF Idle
<1>3. Others(r) /\ req'[r] = q
  BY <1>1, HoldEffect DEF GuardInv
<1>4. /\ UNCHANGED <<redis, session, idle>> /\ (policy = 0 <=> policy' = 0)
      /\ cached' \in {None, cached}
  BY DEF SavePolicy, Invalidate, Chosen
<1>5. \A t \in Requests : Paced(req[t])'
  BY <1>2, <1>3, <1>4, StepNames DEF ActiveInv, Others, Paced
<1>6. \A s \in Sessions : SessionPaced(s)'
  BY <1>4 DEF ActiveInv, SessionPaced
<1> QED
  BY <1>2, <1>3, <1>4, <1>5, <1>6 DEF ActiveInv, ExpiresIdle

\* A session that is opened is as old as its last request, which is none.
LEMMA OpenPaced ==
  ASSUME GuardInv, ActiveInv, UNCHANGED <<redis, policy, idle>>,
         \A s \in Sessions : \/ session'[s] = Opened
                             \/ /\ session'[s].key = session[s].key
                                /\ session'[s].row = session[s].row
  PROVE  \A s \in Sessions : SessionPaced(s)'
<1>1. \A s \in Sessions : idle[s] \in Nat
  BY GuardAssumption DEF GuardInv, RestOK, Ages
<1> QED
  BY <1>1, OpenedTyped DEF ActiveInv, SessionPaced

\* Logging in and counting.
LEMMA LoginsActive ==
  ASSUME GuardInv, ActiveInv, NEW r \in Requests, LoginStep(r) \/ CallStep(r) \/ CountStep(r)
  PROVE  ActiveInv' /\ ExpiresIdle(r) /\ Others(r)
<1>1. UNCHANGED <<redis, policy, cached, idle>>
  BY DEF LoginStep, CallStep, CountStep, LogIn, NetworkFlagged, Compare, Refuse, Lock, Cleared,
     Call, CallCounted, Count, SetWindow, CountInMemory, Clear, counters, rules
<1>2. Others(r) /\ req'[r].step \in LoginSteps \cup {"idle"}
  <2>0. req[r] \in Request
    BY DEF GuardInv, ReqOK
  <2>1. CASE LogIn(r)
    <3>1. PICK a \in Accounts, n \in Networks, right \in BOOLEAN :
            Hold(r, [Idle EXCEPT !.step = "network", !.who = a, !.from = n, !.right = right,
                                 !.todo = {a, n}])
      BY <2>1 DEF LogIn, Accept
    <3> DEFINE q == [Idle EXCEPT !.step = "network", !.who = a, !.from = n, !.right = right,
                                 !.todo = {a, n}]
    <3>2. q.step = "network"
      BY DEF Idle
    <3>3. Hold(r, q)
      BY <3>1
    <3> HIDE DEF q
    <3> QED
      BY <3>2, <3>3, HoldEffect DEF GuardInv, LoginSteps
  <2>2. CASE Call(r)
    <3>1. PICK c \in Clients : Hold(r, [Idle EXCEPT !.step = "count", !.todo = {c}])
      BY <2>2 DEF Call, Accept
    <3> DEFINE q == [Idle EXCEPT !.step = "count", !.todo = {c}]
    <3>2. q.step = "count"
      BY DEF Idle
    <3>3. Hold(r, q)
      BY <3>1
    <3> HIDE DEF q
    <3> QED
      BY <3>2, <3>3, HoldEffect DEF GuardInv, LoginSteps
  <2>3. CASE Lock(r)
    <3> DEFINE q == [req[r] EXCEPT !.step = "clear", !.todo = {req[r].who, req[r].from}]
    <3>1. q.step = "clear"
      BY <2>0 DEF Request
    <3>2. Hold(r, q)
      BY <2>3 DEF Lock
    <3> HIDE DEF q
    <3> QED
      BY <3>1, <3>2, HoldEffect DEF GuardInv, LoginSteps
  <2>4. CASE NetworkFlagged(r) \/ Compare(r) \/ Refuse(r) \/ Cleared(r) \/ CallCounted(r)
    <3>1. Respond(r) \/ \E step \in {"clear", "count"} : Go(r, step)
      BY <2>4 DEF NetworkFlagged, Compare, Refuse, Cleared, CallCounted
    <3> QED
      BY <3>1, GoEffect, HoldEffect, IdleFields DEF GuardInv, Respond, LoginSteps
  <2>5. ASSUME NEW k \in Counters, Count(r, k) \/ SetWindow(r, k) \/ CountInMemory(r, k) \/ Clear(r, k)
        PROVE  Others(r) /\ req'[r].step \in LoginSteps \cup {"idle"}
    <3>1. req[r].step \in {"count", "clear"}
      BY <2>5 DEF Count, SetWindow, CountInMemory, Clear, At
    <3>2. \E todo, fresh, seen :
            Hold(r, [req[r] EXCEPT !.todo = todo, !.fresh = fresh, !.seen = seen])
      <4> DEFINE Wrote(todo, fresh, seen) ==
            Hold(r, [req[r] EXCEPT !.todo = todo, !.fresh = fresh, !.seen = seen])
      <4>1. CASE Count(r, k)
        <5>1. Wrote(req[r].todo \ {k},
                    IF count[k] = 0 THEN req[r].fresh \cup {k} ELSE req[r].fresh,
                    Seen(r, k, Up(count[k])))
          BY <4>1, <2>0 DEF Count, Hold, Request
        <5> QED
          BY <5>1
      <4>2. CASE SetWindow(r, k)
        <5>1. Wrote(req[r].todo, req[r].fresh \ {k}, req[r].seen)
          BY <4>2, <2>0 DEF SetWindow, Hold, Request
        <5> QED
          BY <5>1
      <4>3. CASE CountInMemory(r, k)
        <5>1. Wrote(req[r].todo \ {k}, req[r].fresh \ {k}, Seen(r, k, Up(local[k])))
          BY <4>3, <2>0 DEF CountInMemory, CountLocally, Hold, Request
        <5> QED
          BY <5>1
      <4>4. CASE Clear(r, k)
        <5>1. Wrote(req[r].todo \ {k}, req[r].fresh, req[r].seen)
          BY <4>4, <2>0 DEF Clear, Hold, Request
        <5> QED
          BY <5>1
      <4> QED
        BY <2>5, <4>1, <4>2, <4>3, <4>4
    <3>3. PICK todo, fresh, seen :
            Hold(r, [req[r] EXCEPT !.todo = todo, !.fresh = fresh, !.seen = seen])
      BY <3>2
    <3>4. [req[r] EXCEPT !.todo = todo, !.fresh = fresh, !.seen = seen].step = req[r].step
      BY <2>0 DEF Request
    <3>5. Others(r) /\ req'[r].step = req[r].step
      BY <3>3, <3>4, HoldEffect DEF GuardInv
    <3> QED
      BY <3>1, <3>5 DEF LoginSteps
  <2> QED
    BY <2>1, <2>2, <2>3, <2>4, <2>5 DEF LoginStep, CallStep, CountStep
<1>3. \A s \in Sessions : session'[s] = session[s] \/ session'[s] = Opened
  <2>1. UNCHANGED session \/ Open
    BY DEF LoginStep, CallStep, CountStep, LogIn, NetworkFlagged, Compare, Refuse, Lock, Cleared,
       Call, CallCounted, Count, SetWindow, CountInMemory, Clear
  <2> QED
    BY <2>1 DEF Open, GuardInv, SessionOK
<1>4. \A s \in Sessions : SessionPaced(s)'
  BY <1>1, <1>3, OpenPaced
<1>5. \A t \in Requests : Paced(req[t])'
  BY <1>1, <1>2, StepNames DEF ActiveInv, Others, Paced, LoginSteps
<1> QED
  BY <1>1, <1>2, <1>4, <1>5 DEF ActiveInv, ExpiresIdle, LoginSteps

LEMMA BesideActive ==
  ASSUME GuardInv, ActiveInv,
         \/ \E k \in Counters : WindowEnds(k)
         \/ \E a \in Accounts : Unlock(a)
         \/ CachedEnds \/ Tick \/ \E s \in Sessions : Renew(s)
  PROVE  ActiveInv' /\ UNCHANGED req
<1>1. CASE UNCHANGED <<redis, policy, req, session, idle>> /\ cached' \in {None, cached}
  BY <1>1 DEF ActiveInv, Paced, SessionPaced
<1>2. CASE Tick
  <2>1. UNCHANGED <<redis, policy, cached, req>>
    BY <1>2 DEF Tick, rules
  <2>2. ASSUME NEW s \in Sessions PROVE SessionPaced(s)'
    <3>1. CASE session[s].opened
      <4>1. session'[s] = Aged(s) /\ idle'[s] = Older(idle[s])
        BY <1>2, <3>1 DEF Tick
      <4>2. /\ Aged(s).row = Older(session[s].row)
            /\ Aged(s).key # None =>
                 /\ session[s].key # None
                 /\ Aged(s).key.age = session[s].key.age + 1 /\ Aged(s).key.age \in Ages
        BY AgedTyped DEF GuardInv
      <4>3. /\ idle[s] \in 0..MaxAge /\ session[s].row \in 0..MaxAge /\ MaxAge \in Nat
            /\ session[s].key # None => session[s].key.age \in 0..MaxAge
        BY GuardAssumption DEF GuardInv, RestOK, SessionOK, Session, Key, Ages
      <4>4. ASSUME Aged(s).key # None PROVE Aged(s).key.age <= Older(idle[s])
        <5>1. session[s].key.age <= idle[s] /\ Aged(s).key.age <= MaxAge
          BY <4>2, <4>4, GuardAssumption DEF ActiveInv, SessionPaced, Ages
        <5> QED
          BY <4>2, <4>3, <4>4, <5>1 DEF Older
      <4>5. session[s].row <= idle[s] => Older(session[s].row) <= Older(idle[s])
        BY <4>3 DEF Older
      <4> QED
        BY <2>1, <4>1, <4>2, <4>4, <4>5 DEF ActiveInv, SessionPaced
    <3>2. CASE ~session[s].opened
      <4>1. session'[s] = session[s] /\ idle'[s] = idle[s]
        BY <1>2, <3>2 DEF Tick
      <4> QED
        BY <2>1, <4>1 DEF ActiveInv, SessionPaced
    <3> QED
      BY <3>1, <3>2
  <2> QED
    BY <2>1, <2>2 DEF ActiveInv, Paced
<1>3. ASSUME NEW s \in Sessions, Renew(s) PROVE ActiveInv' /\ UNCHANGED req
  <2>1. PICK t \in Sessions :
          session' = [session EXCEPT ![s].token = FALSE, ![t] = Opened]
    BY <1>3 DEF Renew
  <2>2. UNCHANGED <<redis, policy, cached, req, idle>>
    BY <1>3 DEF Renew, rules
  <2>3. \A u \in Sessions : \/ session'[u] = Opened
                            \/ /\ session'[u].key = session[u].key
                               /\ session'[u].row = session[u].row
    BY <2>1 DEF GuardInv, SessionOK, Session
  <2>4. \A u \in Sessions : SessionPaced(u)'
    BY <2>2, <2>3, OpenPaced
  <2> QED
    BY <2>2, <2>4 DEF ActiveInv, Paced
<1> QED
  BY <1>1, <1>2, <1>3 DEF WindowEnds, Unlock, CachedEnds, rules

-----------------------------------------------------------------------------
(* AdminGuard: how many wrong passwords are judged.  Until an account is   *)
(* locked, every wrong password is in its counter or held by the request   *)
(* that is to count it.  A count from the threshold on is held by the      *)
(* request that came to it, until it has locked the account and cleared    *)
(* the counter.  Once the account is locked, only those can be judged that *)
(* asked before; and it is unlocked when all of them are answered.         *)

Counter(a) == IF redis THEN count[a] ELSE local[a]

IsAsked(q, a) == q.step = "network" /\ q.who = a
IsPending(q, a) == q.step = "count" /\ q.who = a /\ a \in q.todo
IsHeavy(q, a) ==
  /\ q.who = a
  /\ \/ q.step = "count" /\ a \notin q.todo /\ q.seen >= AccountThreshold
     \/ q.step = "clear" /\ ~q.right /\ a \in q.todo

Asked(a) == {r \in Requests : IsAsked(req[r], a)}
Pending(a) == {r \in Requests : IsPending(req[r], a)}
Heavy(a) == {r \in Requests : IsHeavy(req[r], a)}

GuessInv(a) ==
  /\ Counter(a) <= AccountThreshold - 1 + Cardinality(Heavy(a))
  /\ a \notin locked =>
       /\ guesses[a] <= Counter(a) + Cardinality(Pending(a))
       /\ \A r \in Requests : ~(req[r].step = "clear" /\ req[r].who = a /\ ~req[r].right)
  /\ a \in locked =>
       guesses[a] + Cardinality(Asked(a)) <= AccountThreshold - 1 + Cardinality(Requests)

\* A set that differs in r at most.
LEMMA CardinalityStep ==
  ASSUME NEW S \in SUBSET Requests, NEW T \in SUBSET Requests, NEW r, S \ {r} = T \ {r}
  PROVE  /\ Cardinality(S) \in Nat /\ Cardinality(T) \in Nat
         /\ Cardinality(T) + (IF r \in S THEN 1 ELSE 0)
              = Cardinality(S) + (IF r \in T THEN 1 ELSE 0)
<1>1. IsFiniteSet(S) /\ IsFiniteSet(T)
  BY GuardAssumption, FS_Subset
<1>2. Cardinality(S) \in Nat /\ Cardinality(T) \in Nat
  BY <1>1, FS_CardinalityType
<1>3. Cardinality(S \ {r}) = IF r \in S THEN Cardinality(S) - 1 ELSE Cardinality(S)
  BY <1>1, FS_RemoveElement
<1>4. Cardinality(T \ {r}) = IF r \in T THEN Cardinality(T) - 1 ELSE Cardinality(T)
  BY <1>1, FS_RemoveElement
<1> QED
  BY <1>2, <1>3, <1>4

\* The requests asked, pending and heavy are all different ones.
LEMMA CardinalitySum ==
  ASSUME NEW a
  PROVE  /\ Cardinality(Asked(a)) \in Nat /\ Cardinality(Pending(a)) \in Nat
         /\ Cardinality(Heavy(a)) \in Nat /\ Cardinality(Requests) \in Nat
         /\ Cardinality(Asked(a)) + Cardinality(Pending(a)) + Cardinality(Heavy(a))
              <= Cardinality(Requests)
<1> DEFINE A == Asked(a)
           P == Pending(a)
           H == Heavy(a)
<1>1. A \in SUBSET Requests /\ P \in SUBSET Requests /\ H \in SUBSET Requests
  BY DEF Asked, Pending, Heavy
<1>2. A \cap P = {} /\ (A \cup P) \cap H = {}
  BY DEF Asked, Pending, Heavy, IsAsked, IsPending, IsHeavy
<1> HIDE DEF A, P, H
<1>3. IsFiniteSet(A) /\ IsFiniteSet(P) /\ IsFiniteSet(H) /\ IsFiniteSet(A \cup P)
      /\ IsFiniteSet(Requests)
  <2>1. A \cup P \in SUBSET Requests
    BY <1>1
  <2> QED
    BY <1>1, <2>1, GuardAssumption, FS_Subset
<1>4. /\ Cardinality(A) \in Nat /\ Cardinality(P) \in Nat /\ Cardinality(H) \in Nat
      /\ Cardinality(Requests) \in Nat
  BY <1>3, FS_CardinalityType
<1>5. Cardinality(A \cup P) = Cardinality(A) + Cardinality(P)
  <2>1. Cardinality(A \cup P) = Cardinality(A) + Cardinality(P) - Cardinality(A \cap P)
    BY <1>3, FS_Union
  <2>2. Cardinality(A \cap P) = 0
    BY <1>2, FS_EmptySet
  <2> QED
    BY <1>4, <2>1, <2>2
<1>6. Cardinality((A \cup P) \cup H) = Cardinality(A) + Cardinality(P) + Cardinality(H)
  <2>1. Cardinality((A \cup P) \cup H)
          = Cardinality(A \cup P) + Cardinality(H) - Cardinality((A \cup P) \cap H)
    BY <1>3, FS_Union
  <2>2. Cardinality((A \cup P) \cap H) = 0
    BY <1>2, FS_EmptySet
  <2> QED
    BY <1>4, <1>5, <2>1, <2>2
<1>7. Cardinality((A \cup P) \cup H) <= Cardinality(Requests)
  <2>1. (A \cup P) \cup H \in SUBSET Requests
    BY <1>1
  <2> QED
    BY <2>1, <1>3, FS_Subset
<1> QED
  BY <1>4, <1>6, <1>7 DEF A, P, H

LEMMA GuessNumbers ==
  ASSUME GuardInv, NEW a \in Accounts
  PROVE  /\ a \in Counters /\ AccountThreshold \in Nat \ {0} /\ MaxCount \in Nat
         /\ AccountThreshold <= MaxCount
         /\ count[a] \in 0..MaxCount /\ local[a] \in 0..MaxCount
         /\ Counter(a) \in 0..MaxCount /\ guesses[a] \in 0..MaxCount
BY GuardAssumption DEF GuardInv, CountOK, RestOK, Counter, Counters

\* What the invariant says of the guesses.
LEMMA GuessBound ==
  ASSUME GuardInv, NEW a \in Accounts, GuessInv(a)
  PROVE  /\ guesses[a] + Cardinality(Asked(a)) <= AccountThreshold - 1 + Cardinality(Requests)
         /\ guesses[a] < AccountThreshold + Cardinality(Requests)
<1>1. /\ guesses[a] \in Nat /\ Counter(a) \in Nat /\ AccountThreshold \in Nat
      /\ Cardinality(Asked(a)) \in Nat /\ Cardinality(Pending(a)) \in Nat
      /\ Cardinality(Heavy(a)) \in Nat /\ Cardinality(Requests) \in Nat
      /\ Cardinality(Asked(a)) + Cardinality(Pending(a)) + Cardinality(Heavy(a))
           <= Cardinality(Requests)
  BY GuessNumbers, CardinalitySum
<1>2. CASE a \in locked
  BY <1>1, <1>2 DEF GuessInv
<1>3. CASE a \notin locked
  BY <1>1, <1>3 DEF GuessInv
<1> QED
  BY <1>2, <1>3

\* How the three numbers change with a step of one request.
LEMMA GuessStep ==
  ASSUME ReqOK, NEW r \in Requests, Others(r), NEW a
  PROVE  /\ Cardinality(Asked(a)) \in Nat /\ Cardinality(Asked(a)') \in Nat
         /\ Cardinality(Pending(a)) \in Nat /\ Cardinality(Pending(a)') \in Nat
         /\ Cardinality(Heavy(a)) \in Nat /\ Cardinality(Heavy(a)') \in Nat
         /\ Cardinality(Asked(a)') + (IF IsAsked(req[r], a) THEN 1 ELSE 0)
              = Cardinality(Asked(a)) + (IF IsAsked(req'[r], a) THEN 1 ELSE 0)
         /\ Cardinality(Pending(a)') + (IF IsPending(req[r], a) THEN 1 ELSE 0)
              = Cardinality(Pending(a)) + (IF IsPending(req'[r], a) THEN 1 ELSE 0)
         /\ Cardinality(Heavy(a)') + (IF IsHeavy(req[r], a) THEN 1 ELSE 0)
              = Cardinality(Heavy(a)) + (IF IsHeavy(req'[r], a) THEN 1 ELSE 0)
<1>1. /\ Asked(a) \in SUBSET Requests /\ Asked(a)' \in SUBSET Requests
      /\ Asked(a) \ {r} = Asked(a)' \ {r}
      /\ r \in Asked(a) <=> IsAsked(req[r], a)
      /\ r \in Asked(a)' <=> IsAsked(req'[r], a)
  BY DEF Asked, IsAsked, Others
<1>2. /\ Pending(a) \in SUBSET Requests /\ Pending(a)' \in SUBSET Requests
      /\ Pending(a) \ {r} = Pending(a)' \ {r}
      /\ r \in Pending(a) <=> IsPending(req[r], a)
      /\ r \in Pending(a)' <=> IsPending(req'[r], a)
  BY DEF Pending, IsPending, Others
<1>3. /\ Heavy(a) \in SUBSET Requests /\ Heavy(a)' \in SUBSET Requests
      /\ Heavy(a) \ {r} = Heavy(a)' \ {r}
      /\ r \in Heavy(a) <=> IsHeavy(req[r], a)
      /\ r \in Heavy(a)' <=> IsHeavy(req'[r], a)
  BY DEF Heavy, IsHeavy, Others
<1> QED
  BY <1>1, <1>2, <1>3, CardinalityStep

-----------------------------------------------------------------------------
\* A step that has nothing to do with the account's wrong passwords.
LEMMA GuessQuiet ==
  ASSUME GuardInv, NEW a \in Accounts, GuessInv(a), NEW r \in Requests, Others(r),
         IsAsked(req'[r], a) => IsAsked(req[r], a) \/ a \notin locked,
         IsPending(req'[r], a) <=> IsPending(req[r], a),
         IsHeavy(req'[r], a) <=> IsHeavy(req[r], a),
         req'[r].step = "clear" /\ req'[r].who = a /\ ~req'[r].right =>
           req[r].step = "clear" /\ req[r].who = a /\ ~req[r].right,
         Counter(a)' = Counter(a), guesses'[a] = guesses[a], a \in locked' <=> a \in locked
  PROVE  GuessInv(a)'
<1>1. /\ Cardinality(Asked(a)) \in Nat /\ Cardinality(Asked(a)') \in Nat
      /\ a \in locked => Cardinality(Asked(a)') <= Cardinality(Asked(a))
      /\ Cardinality(Pending(a)') = Cardinality(Pending(a))
      /\ Cardinality(Heavy(a)') = Cardinality(Heavy(a))
  BY GuessStep DEF GuardInv
<1>2. guesses[a] \in Nat /\ AccountThreshold \in Nat /\ Cardinality(Requests) \in Nat
  BY GuessNumbers, CardinalitySum
<1>3. a \notin locked' =>
        \A t \in Requests : ~(req'[t].step = "clear" /\ req'[t].who = a /\ ~req'[t].right)
  BY DEF GuessInv, Others
<1>4. Counter(a)' <= AccountThreshold - 1 + Cardinality(Heavy(a)')
  BY <1>1 DEF GuessInv
<1>5. a \notin locked' => guesses'[a] <= Counter(a)' + Cardinality(Pending(a)')
  BY <1>1 DEF GuessInv
<1>6. a \in locked' =>
        guesses'[a] + Cardinality(Asked(a)') <= AccountThreshold - 1 + Cardinality(Requests)
  BY <1>1, <1>2 DEF GuessInv
<1> QED
  BY <1>3, <1>4, <1>5, <1>6 DEF GuessInv

LEMMA OutsideGuesses ==
  ASSUME GuardInv, NEW a \in Accounts, GuessInv(a), NEW r \in Requests, Outside(r)
  PROVE  GuessInv(a)'
<1>1. /\ ~IsAsked(req'[r], a) /\ ~IsPending(req'[r], a) /\ ~IsPending(req[r], a)
      /\ ~IsHeavy(req'[r], a) /\ ~IsHeavy(req[r], a) /\ req'[r].step # "clear"
  BY DEF Outside, LoginSteps, IsAsked, IsPending, IsHeavy
<1>2. Counter(a)' = Counter(a)
  BY DEF Outside, Counter
<1> QED
  BY <1>1, <1>2, GuessQuiet DEF Outside

\* A wrong password is judged, or the right one.
LEMMA CompareGuesses ==
  ASSUME GuardInv, NEW a \in Accounts, GuessInv(a), NEW r \in Requests, Compare(r)
  PROVE  GuessInv(a)'
<1>1. /\ req[r] \in Request /\ Shaped(req[r]) /\ req[r].step = "network"
      /\ req[r].who \in Accounts /\ req[r].todo = {req[r].who, req[r].from}
  BY DEF GuardInv, ReqOK, Compare, At, Shaped
<1>2. UNCHANGED <<redis, count, local, locked>> /\ Counter(a)' = Counter(a)
  BY DEF Compare, counters, Counter
<1>3. CASE req[r].right
  <2>1. Go(r, "clear") /\ UNCHANGED guesses
    BY <1>3 DEF Compare
  <2>2. Others(r) /\ req'[r].step = "clear" /\ req'[r].right
    BY <1>3, <2>1, GoEffect DEF GuardInv
  <2> QED
    BY <1>1, <1>2, <2>1, <2>2, GuessQuiet DEF IsAsked, IsPending, IsHeavy
<1>4. CASE ~req[r].right
  <2>1. Go(r, "count") /\ guesses' = [guesses EXCEPT ![req[r].who] = Up(@)]
    BY <1>4 DEF Compare
  <2>2. /\ Others(r) /\ req'[r].step = "count" /\ req'[r].who = req[r].who
        /\ req'[r].todo = req[r].todo
    BY <2>1, GoEffect DEF GuardInv
  <2>3. CASE req[r].who # a
    <3>1. guesses'[a] = guesses[a]
      BY <1>1, <2>1, <2>3 DEF GuardInv, RestOK
    <3> QED
      BY <1>1, <1>2, <2>2, <2>3, <3>1, GuessQuiet DEF IsAsked, IsPending, IsHeavy
  <2>4. CASE req[r].who = a
    <3>1. guesses'[a] <= guesses[a] + 1 /\ guesses[a] \in Nat /\ guesses'[a] \in Nat
          /\ AccountThreshold \in Nat /\ Cardinality(Requests) \in Nat /\ Counter(a) \in Nat
      <4>1. guesses'[a] = Up(guesses[a]) /\ guesses[a] \in 0..MaxCount /\ MaxCount \in Nat
        BY <1>1, <2>1, <2>4, GuessNumbers DEF GuardInv, RestOK
      <4> QED
        BY <4>1, GuessNumbers, CardinalitySum DEF Up
    <3>2. /\ IsAsked(req[r], a) /\ ~IsAsked(req'[r], a)
          /\ ~IsPending(req[r], a) /\ IsPending(req'[r], a)
          /\ ~IsHeavy(req[r], a) /\ ~IsHeavy(req'[r], a)
      BY <1>1, <2>2, <2>4 DEF IsAsked, IsPending, IsHeavy
    <3>3. /\ Cardinality(Asked(a)) \in Nat /\ Cardinality(Asked(a)') + 1 = Cardinality(Asked(a))
          /\ Cardinality(Asked(a)') \in Nat /\ Cardinality(Pending(a)) \in Nat
          /\ Cardinality(Pending(a)') = Cardinality(Pending(a)) + 1
          /\ Cardinality(Heavy(a)') = Cardinality(Heavy(a))
      BY <2>2, <3>2, GuessStep DEF GuardInv
    <3>4. a \notin locked' =>
            \A t \in Requests : ~(req'[t].step = "clear" /\ req'[t].who = a /\ ~req'[t].right)
      BY <1>2, <2>2 DEF GuessInv, Others
    <3>5. Counter(a)' <= AccountThreshold - 1 + Cardinality(Heavy(a)')
      BY <1>2, <3>3 DEF GuessInv
    <3>6. a \notin locked' => guesses'[a] <= Counter(a)' + Cardinality(Pending(a)')
      BY <1>2, <3>1, <3>3 DEF GuessInv
    <3>7. a \in locked' =>
            guesses'[a] + Cardinality(Asked(a)') <= AccountThreshold - 1 + Cardinality(Requests)
      BY <1>2, <3>1, <3>3 DEF GuessInv
    <3> QED
      BY <3>4, <3>5, <3>6, <3>7 DEF GuessInv
  <2> QED
    BY <2>3, <2>4
<1> QED
  BY <1>3, <1>4

\* The account is locked: what its guesses come to is settled.
LEMMA LockGuesses ==
  ASSUME GuardInv, NEW a \in Accounts, GuessInv(a), NEW r \in Requests, Lock(r)
  PROVE  GuessInv(a)'
<1>1. /\ req[r] \in Request /\ req[r].step = "count" /\ req[r].todo = {}
      /\ req[r].who \in Accounts /\ ~req[r].right /\ req[r].seen >= AccountThreshold
      /\ req[r].from \in Networks
  BY DEF GuardInv, ReqOK, Lock, Counted, At, Shaped
<1>2. /\ locked' = locked \cup {req[r].who} /\ UNCHANGED <<redis, count, local, guesses>>
      /\ Counter(a)' = Counter(a)
  BY DEF Lock, counters, Counter
<1> DEFINE q == [req[r] EXCEPT !.step = "clear", !.todo = {req[r].who, req[r].from}]
<1>3. /\ q.step = "clear" /\ q.who = req[r].who /\ q.todo = {req[r].who, req[r].from}
      /\ q.right = req[r].right
  BY <1>1 DEF Request
<1>4. Hold(r, q)
  BY DEF Lock
<1> HIDE DEF q
<1>5. Others(r) /\ req'[r] = q
  BY <1>4, HoldEffect DEF GuardInv
<1>6. CASE req[r].who # a
  BY <1>1, <1>2, <1>3, <1>5, <1>6, GuessQuiet DEF IsAsked, IsPending, IsHeavy
<1>7. CASE req[r].who = a
  <2>1. /\ ~IsAsked(req[r], a) /\ ~IsAsked(req'[r], a) /\ IsHeavy(req[r], a) /\ IsHeavy(req'[r], a)
    BY <1>1, <1>3, <1>5, <1>7 DEF IsAsked, IsHeavy
  <2>2. /\ Cardinality(Asked(a)') = Cardinality(Asked(a))
        /\ Cardinality(Heavy(a)') = Cardinality(Heavy(a))
    BY <1>5, <2>1, GuessStep DEF GuardInv
  <2>3. a \in locked'
    BY <1>2, <1>7
  <2> QED
    BY <1>2, <2>2, <2>3, GuessBound DEF GuessInv
<1> QED
  BY <1>6, <1>7

\* The other steps of a login, and of a call.
LEMMA LoginsGuesses ==
  ASSUME GuardInv, NEW a \in Accounts, GuessInv(a), NEW r \in Requests,
         LogIn(r) \/ NetworkFlagged(r) \/ Refuse(r) \/ Cleared(r) \/ CallStep(r)
  PROVE  GuessInv(a)'
<1>0. req[r] \in Request /\ Shaped(req[r])
  BY DEF GuardInv, ReqOK
<1>1. UNCHANGED <<redis, count, local, locked, guesses>> /\ Counter(a)' = Counter(a)
  <2>1. UNCHANGED <<redis, count, local, locked, guesses>>
    BY DEF LogIn, NetworkFlagged, Refuse, Cleared, CallStep, Call, CallCounted, counters
  <2> QED
    BY <2>1 DEF Counter
<1>2. ~IsPending(req[r], a) /\ ~IsHeavy(req[r], a)
  <2>1. CASE LogIn(r) \/ NetworkFlagged(r) \/ Call(r)
    BY <2>1 DEF LogIn, NetworkFlagged, Call, Accept, At, IsPending, IsHeavy
  <2>2. CASE Refuse(r)
    BY <1>0, <2>2, GuessNumbers DEF Refuse, Counted, At, IsPending, IsHeavy, Request
  <2>3. CASE Cleared(r)
    BY <2>3 DEF Cleared, At, IsPending, IsHeavy
  <2>4. CASE CallCounted(r)
    BY <2>4, GuardAssumption DEF CallCounted, Counted, IsPending, IsHeavy
  <2> QED
    BY <2>1, <2>2, <2>3, <2>4 DEF CallStep
<1>3. CASE LogIn(r)
  <2>1. PICK b \in Accounts \ locked, n \in Networks, right \in BOOLEAN :
          Hold(r, [Idle EXCEPT !.step = "network", !.who = b, !.from = n, !.right = right,
                               !.todo = {b, n}])
    BY <1>3 DEF LogIn, Accept
  <2> DEFINE q == [Idle EXCEPT !.step = "network", !.who = b, !.from = n, !.right = right,
                               !.todo = {b, n}]
  <2>2. q.step = "network" /\ q.who = b
    BY DEF Idle
  <2>3. Hold(r, q)
    BY <2>1
  <2> HIDE DEF q
  <2>4. Others(r) /\ req'[r] = q
    BY <2>3, HoldEffect DEF GuardInv
  <2> QED
    BY <1>1, <1>2, <2>2, <2>4, GuessQuiet DEF IsAsked, IsPending, IsHeavy
<1>4. CASE Call(r)
  <2>1. PICK c \in Clients : Hold(r, [Idle EXCEPT !.step = "count", !.todo = {c}])
    BY <1>4 DEF Call, Accept
  <2> DEFINE q == [Idle EXCEPT !.step = "count", !.todo = {c}]
  <2>2. q.step = "count" /\ q.who = None
    BY DEF Idle
  <2>3. Hold(r, q)
    BY <2>1
  <2> HIDE DEF q
  <2>4. Others(r) /\ req'[r] = q /\ a # None
    BY <2>3, HoldEffect, GuardAssumption DEF GuardInv
  <2> QED
    BY <1>1, <1>2, <2>2, <2>4, GuessQuiet DEF IsAsked, IsPending, IsHeavy
<1>5. CASE NetworkFlagged(r) \/ Refuse(r) \/ Cleared(r) \/ CallCounted(r)
  <2>1. Respond(r)
    BY <1>5 DEF NetworkFlagged, Refuse, Cleared, CallCounted
  <2>2. Others(r) /\ req'[r].step = "idle"
    BY <2>1, HoldEffect, IdleFields DEF GuardInv, Respond
  <2> QED
    BY <1>1, <1>2, <2>2, GuessQuiet DEF IsAsked, IsPending, IsHeavy
<1> QED
  BY <1>3, <1>4, <1>5 DEF CallStep

\* A count, in Redis or in memory, whichever counts.
Counting(r, k) ==
  /\ Others(r) /\ req[r].step = "count" /\ req'[r].step = "count"
  /\ k \in req[r].todo /\ req'[r].todo = req[r].todo \ {k}
  /\ req'[r].who = req[r].who /\ req'[r].seen = Seen(r, k, Up(Counter(k)))
  /\ Counter(k)' = Up(Counter(k)) /\ \A i \in Counters \ {k} : Counter(i)' = Counter(i)
  /\ UNCHANGED <<locked, guesses>>

LEMMA CountsCount ==
  ASSUME GuardInv, CounterInv, NEW r \in Requests, NEW k \in Counters,
         Count(r, k) \/ CountInMemory(r, k)
  PROVE  Counting(r, k)
<1>0. req[r] \in Request
  BY DEF GuardInv, ReqOK
<1>1. CASE Count(r, k)
  <2> DEFINE q == [req[r] EXCEPT !.todo = @ \ {k}, !.seen = Seen(r, k, Up(count[k])),
                                 !.fresh = IF count[k] = 0 THEN @ \cup {k} ELSE @]
  <2>1. /\ q.step = req[r].step /\ q.who = req[r].who /\ q.todo = req[r].todo \ {k}
        /\ q.seen = Seen(r, k, Up(count[k]))
    BY <1>0 DEF Request
  <2>2. Hold(r, q)
    BY <1>1 DEF Count
  <2> HIDE DEF q
  <2>3. Others(r) /\ req'[r] = q
    BY <2>2, HoldEffect DEF GuardInv
  <2>4. /\ redis /\ req[r].step = "count" /\ k \in req[r].todo
        /\ count' = [count EXCEPT ![k] = Up(@)] /\ UNCHANGED <<redis, locked, guesses>>
    BY <1>1 DEF Count, At
  <2>5. Counter(k) = count[k]
    BY <2>4 DEF Counter
  <2>6. Counter(k)' = Up(Counter(k)) /\ \A i \in Counters \ {k} : Counter(i)' = Counter(i)
    BY <2>4 DEF Counter, GuardInv, CountOK
  <2> QED
    BY <2>1, <2>3, <2>4, <2>5, <2>6 DEF Counting
<1>2. CASE CountInMemory(r, k)
  <2> DEFINE q == [req[r] EXCEPT !.todo = @ \ {k}, !.fresh = @ \ {k},
                                 !.seen = Seen(r, k, Up(local[k]))]
  <2>1. /\ q.step = req[r].step /\ q.who = req[r].who /\ q.todo = req[r].todo \ {k}
        /\ q.seen = Seen(r, k, Up(local[k]))
    BY <1>0 DEF Request
  <2>2. Hold(r, q)
    BY <1>2 DEF CountInMemory, CountLocally
  <2> HIDE DEF q
  <2>3. Others(r) /\ req'[r] = q
    BY <2>2, HoldEffect DEF GuardInv
  <2>4. /\ ~redis /\ req[r].step = "count" /\ k \in req[r].todo \cup req[r].fresh
        /\ local' = [local EXCEPT ![k] = Up(@)] /\ UNCHANGED <<redis, locked, guesses>>
    BY <1>2 DEF CountInMemory, CountLocally, At
  <2>5. k \in req[r].todo
    BY <2>4 DEF CounterInv
  <2>6. Counter(k) = local[k]
    BY <2>4 DEF Counter
  <2>7. Counter(k)' = Up(Counter(k)) /\ \A i \in Counters \ {k} : Counter(i)' = Counter(i)
    BY <2>4 DEF Counter, GuardInv, CountOK
  <2> QED
    BY <2>1, <2>3, <2>4, <2>5, <2>6, <2>7 DEF Counting
<1> QED
  BY <1>1, <1>2

LEMMA CountGuesses ==
  ASSUME GuardInv, NEW a \in Accounts, GuessInv(a), NEW r \in Requests,
         NEW k \in Counters, Counting(r, k)
  PROVE  GuessInv(a)'
<1>0. /\ Others(r) /\ req[r].step = "count" /\ req'[r].step = "count"
      /\ k \in req[r].todo /\ req'[r].todo = req[r].todo \ {k}
      /\ req'[r].who = req[r].who /\ req'[r].seen = Seen(r, k, Up(Counter(k)))
      /\ Counter(k)' = Up(Counter(k)) /\ \A i \in Counters \ {k} : Counter(i)' = Counter(i)
      /\ UNCHANGED <<locked, guesses>>
  BY DEF Counting
<1>1. CASE k # a
  <2>1. Counter(a)' = Counter(a)
    BY <1>0, <1>1, GuessNumbers
  <2>2. req[r].who = a => req'[r].seen = req[r].seen
    BY <1>0, <1>1 DEF Seen
  <2>3. /\ ~IsAsked(req'[r], a)
        /\ IsPending(req'[r], a) <=> IsPending(req[r], a)
        /\ IsHeavy(req'[r], a) <=> IsHeavy(req[r], a)
        /\ req'[r].step # "clear"
    BY <1>0, <1>1, <2>2 DEF IsAsked, IsPending, IsHeavy
  <2> QED
    BY <1>0, <2>1, <2>3, GuessQuiet
<1>2. CASE k = a
  <2>1. req[r].who = a
    BY <1>0, <1>2 DEF GuardInv, ReqOK, Shaped
  <2>2. req'[r].seen = Up(Counter(a)) /\ Counter(a)' = Up(Counter(a))
    BY <1>0, <1>2, <2>1 DEF Seen
  <2>3. /\ ~IsAsked(req[r], a) /\ ~IsAsked(req'[r], a)
        /\ IsPending(req[r], a) /\ ~IsPending(req'[r], a)
        /\ ~IsHeavy(req[r], a) /\ (Up(Counter(a)) >= AccountThreshold => IsHeavy(req'[r], a))
    BY <1>0, <1>2, <2>1, <2>2 DEF IsAsked, IsPending, IsHeavy
  <2>4. /\ Cardinality(Asked(a)') = Cardinality(Asked(a))
        /\ Cardinality(Pending(a)) \in Nat /\ Cardinality(Pending(a)') \in Nat
        /\ Cardinality(Pending(a)') + 1 = Cardinality(Pending(a))
        /\ Cardinality(Heavy(a)) \in Nat /\ Cardinality(Heavy(a)') \in Nat
        /\ Cardinality(Heavy(a)') >= Cardinality(Heavy(a))
        /\ Up(Counter(a)) >= AccountThreshold => Cardinality(Heavy(a)') = Cardinality(Heavy(a)) + 1
    BY <1>0, <2>3, GuessStep DEF GuardInv
  <2>5. /\ Counter(a) \in Nat /\ AccountThreshold \in Nat \ {0} /\ MaxCount \in Nat
        /\ guesses[a] <= MaxCount /\ guesses[a] \in Nat /\ Counter(a) <= MaxCount
    BY GuessNumbers
  <2>6. /\ Up(Counter(a)) \in Nat /\ Up(Counter(a)) <= Counter(a) + 1
        /\ Up(Counter(a)) = Counter(a) + 1 \/ Up(Counter(a)) = MaxCount
    BY <2>5 DEF Up
  <2>7. Counter(a)' <= AccountThreshold - 1 + Cardinality(Heavy(a)')
    <3>1. CASE Up(Counter(a)) >= AccountThreshold
      BY <2>2, <2>4, <2>5, <2>6, <3>1 DEF GuessInv
    <3>2. CASE ~(Up(Counter(a)) >= AccountThreshold)
      BY <2>2, <2>4, <2>5, <2>6, <3>2
    <3> QED
      BY <3>1, <3>2
  <2>8. a \notin locked' => guesses'[a] <= Counter(a)' + Cardinality(Pending(a)')
    <3>1. CASE Up(Counter(a)) = Counter(a) + 1
      BY <1>0, <2>2, <2>4, <2>5, <3>1 DEF GuessInv
    <3>2. CASE Up(Counter(a)) = MaxCount
      BY <1>0, <2>2, <2>4, <2>5, <3>2
    <3> QED
      BY <2>6, <3>1, <3>2
  <2>9. a \notin locked' =>
          \A t \in Requests : ~(req'[t].step = "clear" /\ req'[t].who = a /\ ~req'[t].right)
    BY <1>0 DEF GuessInv, Others
  <2> QED
    BY <1>0, <2>4, <2>7, <2>8, <2>9 DEF GuessInv
<1> QED
  BY <1>1, <1>2

LEMMA SetWindowGuesses ==
  ASSUME GuardInv, NEW a \in Accounts, GuessInv(a), NEW r \in Requests,
         NEW k \in Counters, SetWindow(r, k)
  PROVE  GuessInv(a)'
<1> DEFINE q == [req[r] EXCEPT !.fresh = @ \ {k}]
<1>1. q.step = req[r].step /\ q.who = req[r].who /\ q.todo = req[r].todo
      /\ q.seen = req[r].seen /\ q.right = req[r].right
  BY DEF GuardInv, ReqOK, Request
<1>2. Hold(r, q) /\ UNCHANGED <<redis, count, local, locked, guesses>>
  BY DEF SetWindow
<1> HIDE DEF q
<1>3. Others(r) /\ req'[r] = q
  BY <1>2, HoldEffect DEF GuardInv
<1>4. Counter(a)' = Counter(a)
  BY <1>2 DEF Counter
<1> QED
  BY <1>1, <1>2, <1>3, <1>4, GuessQuiet DEF IsAsked, IsPending, IsHeavy

LEMMA ClearGuesses ==
  ASSUME GuardInv, NEW a \in Accounts, GuessInv(a), NEW r \in Requests,
         NEW k \in Counters, Clear(r, k)
  PROVE  GuessInv(a)'
<1>0. req[r] \in Request /\ req[r].step = "clear" /\ k \in req[r].todo
      /\ req[r].todo \cap Accounts \subseteq {req[r].who}
  BY DEF GuardInv, ReqOK, Shaped, Clear, At
<1> DEFINE q == [req[r] EXCEPT !.todo = @ \ {k}]
<1>1. q.step = req[r].step /\ q.who = req[r].who /\ q.todo = req[r].todo \ {k}
      /\ q.seen = req[r].seen /\ q.right = req[r].right
  BY <1>0 DEF Request
<1>2. Hold(r, q) /\ UNCHANGED <<redis, locked>>
  BY DEF Clear
<1> HIDE DEF q
<1>3. Others(r) /\ req'[r] = q
  BY <1>2, HoldEffect DEF GuardInv
<1>4. guesses'[a] = IF a = k /\ req[r].right THEN 0 ELSE guesses[a]
  BY DEF Clear
<1>5. Counter(a)' = IF a = k THEN 0 ELSE Counter(a)
  <2>1. /\ local'[a] = IF a = k THEN 0 ELSE local[a]
        /\ redis => count'[a] = IF a = k THEN 0 ELSE count[a]
    BY GuessNumbers DEF Clear, GuardInv, CountOK
  <2> QED
    BY <1>2, <2>1 DEF Counter
<1>6. CASE k # a
  BY <1>1, <1>2, <1>3, <1>4, <1>5, <1>6, GuessQuiet DEF IsAsked, IsPending, IsHeavy
<1>7. CASE k = a
  <2>1. req[r].who = a
    BY <1>0, <1>7
  <2>2. /\ ~IsAsked(req[r], a) /\ ~IsAsked(req'[r], a)
    BY <1>0, <1>1, <1>3 DEF IsAsked
  <2>3. /\ Cardinality(Asked(a)') = Cardinality(Asked(a)) /\ Cardinality(Asked(a)) \in Nat
        /\ Cardinality(Pending(a)') \in Nat /\ Cardinality(Heavy(a)') \in Nat
    BY <1>3, <2>2, GuessStep DEF GuardInv
  <2>4. /\ guesses[a] \in Nat /\ AccountThreshold \in Nat \ {0} /\ Cardinality(Requests) \in Nat
    BY GuessNumbers, CardinalitySum
  <2>5. Counter(a)' <= AccountThreshold - 1 + Cardinality(Heavy(a)')
    BY <1>5, <1>7, <2>3, <2>4
  <2>6. a \notin locked' =>
          \A t \in Requests : ~(req'[t].step = "clear" /\ req'[t].who = a /\ ~req'[t].right)
    BY <1>0, <1>1, <1>2, <1>3 DEF GuessInv, Others
  <2>7. a \notin locked' => guesses'[a] <= Counter(a)' + Cardinality(Pending(a)')
    BY <1>0, <1>2, <1>4, <1>5, <1>7, <2>1, <2>3 DEF GuessInv
  <2>8. guesses'[a] <= guesses[a] /\ guesses'[a] \in Nat
    BY <1>4, <2>4
  <2>9. a \in locked' =>
          guesses'[a] + Cardinality(Asked(a)') <= AccountThreshold - 1 + Cardinality(Requests)
    BY <1>2, <2>3, <2>4, <2>8 DEF GuessInv
  <2> QED
    BY <2>5, <2>6, <2>7, <2>9 DEF GuessInv
<1> QED
  BY <1>6, <1>7

\* A window ends; an account is unlocked, when nobody is at the door.
LEMMA EndsGuesses ==
  ASSUME GuardInv, CounterInv, NEW a \in Accounts, GuessInv(a),
         \/ \E k \in Counters : WindowEnds(k)
         \/ \E b \in Accounts : Quiet /\ Unlock(b)
  PROVE  GuessInv(a)'
<1>0. UNCHANGED <<redis, req>>
  BY DEF WindowEnds, Unlock
<1>1. Asked(a)' = Asked(a) /\ Pending(a)' = Pending(a) /\ Heavy(a)' = Heavy(a)
  BY <1>0 DEF Asked, Pending, Heavy
<1>2. /\ guesses[a] \in Nat /\ Counter(a) \in Nat /\ AccountThreshold \in Nat \ {0}
      /\ Cardinality(Asked(a)) \in Nat /\ Cardinality(Pending(a)) \in Nat
      /\ Cardinality(Heavy(a)) \in Nat /\ Cardinality(Requests) \in Nat
      /\ Cardinality(Asked(a)) <= Cardinality(Requests)
  BY GuessNumbers, CardinalitySum
<1>3. CASE \E k \in Counters : WindowEnds(k)
  <2>1. PICK k \in Counters : WindowEnds(k)
    BY <1>3
  <2>2. UNCHANGED locked
    BY <2>1 DEF WindowEnds
  <2>3. CASE k # a
    <3>1. guesses'[a] = guesses[a]
      BY <2>1, <2>3 DEF WindowEnds, GuardInv, RestOK
    <3>2. count'[a] = count[a] /\ local'[a] = local[a]
      BY <2>1, <2>3, GuessNumbers DEF WindowEnds, GuardInv, CountOK
    <3>3. Counter(a)' = Counter(a)
      BY <1>0, <3>2 DEF Counter
    <3> QED
      BY <1>0, <1>1, <2>2, <3>1, <3>3 DEF GuessInv
  <2>4. CASE k = a
    <3>1. guesses'[a] = 0
      BY <2>1, <2>4 DEF WindowEnds
    <3>2. \/ k \in windowed /\ count'[a] = 0 /\ UNCHANGED local
          \/ local[a] > 0 /\ local'[a] = 0 /\ UNCHANGED <<count, windowed>>
      BY <2>1, <2>4, GuessNumbers DEF WindowEnds, GuardInv, CountOK
    <3>3. count[a] > 0 => redis
      BY GuessNumbers DEF CounterInv
    <3>4. local[a] > 0 => ~redis
      BY GuessNumbers DEF CounterInv
    <3>5. k \in windowed => count[a] > 0
      BY <2>4 DEF GuardInv, CountOK
    <3>6. Counter(a)' = 0
      BY <1>0, <3>2, <3>3, <3>4, <3>5 DEF Counter
    <3> QED
      BY <1>0, <1>1, <1>2, <2>2, <3>1, <3>6 DEF GuessInv
  <2> QED
    BY <2>3, <2>4
<1>4. CASE \E b \in Accounts : Quiet /\ Unlock(b)
  <2>1. PICK b \in Accounts : Quiet /\ Unlock(b)
    BY <1>4
  <2>2. /\ locked' = locked \ {b} /\ guesses' = [guesses EXCEPT ![b] = 0]
        /\ UNCHANGED <<count, local>>
    BY <2>1 DEF Unlock, counters
  <2>3. Counter(a)' = Counter(a)
    BY <1>0, <2>2 DEF Counter
  <2>4. CASE b # a
    <3>1. guesses'[a] = guesses[a] /\ (a \in locked' <=> a \in locked)
      BY <2>2, <2>4 DEF GuardInv, RestOK
    <3> QED
      BY <1>0, <1>1, <2>3, <3>1 DEF GuessInv
  <2>5. CASE b = a
    <3>1. guesses'[a] = 0 /\ a \notin locked'
      BY <2>2, <2>5 DEF GuardInv, RestOK
    <3>2. \A r \in Requests : ~(req'[r].step = "clear" /\ req'[r].who = a /\ ~req'[r].right)
      BY <1>0, <2>1 DEF Quiet, At
    <3> QED
      BY <1>1, <1>2, <2>3, <3>1, <3>2 DEF GuessInv
  <2> QED
    BY <2>4, <2>5
<1> QED
  BY <1>3, <1>4

\* Steps that touch neither requests nor counters.
LEMMA BesideGuesses ==
  ASSUME NEW a \in Accounts, GuessInv(a), CachedEnds \/ Tick \/ \E s \in Sessions : Renew(s)
  PROVE  GuessInv(a)'
<1>1. UNCHANGED <<redis, count, local, locked, req, guesses>>
  BY DEF CachedEnds, Tick, Renew, counters
<1> QED
  BY <1>1 DEF GuessInv, Counter, Asked, Pending, Heavy


-----------------------------------------------------------------------------
(* The runs.                                                               *)

\* What nothing ever breaks among logins, calls and visits while nothing fails.
LoginsInv == CounterInv /\ (\A a \in Accounts : GuessInv(a)) /\ ActiveInv

\* And among purges, which then come one at a time.
OnePurge ==
  \A s, t \in Requests : purging[s].step # "idle" /\ purging[t].step # "idle" => s = t
PurgesInv == OnePurge /\ \A op \in Operators : Ledger(op)

\* Where nobody logs in, nothing is counted.
NoLogins == (\A k \in Counters : count[k] = 0) /\ (\A a \in Accounts : guesses[a] = 0)

RunInv ==
  /\ GuardInv /\ PurgeInv /\ mayFail \in BOOLEAN
  /\ work # "purges" => PurgesRest
  /\ work = "purges" => NoLogins
  /\ ~mayFail => PurgesInv
  /\ ~mayFail /\ work # "purges" => LoginsInv

LEMMA PurgeInit ==
  ASSUME Purge!Init
  PROVE  PurgeInv /\ PurgesRest /\ PurgesInv
<1>1. purging = [s \in Requests |-> Purge!Idle] /\ \A s \in Requests : purging[s] = Purge!Idle
  BY DEF Purge!Init
<1>2. CarriedOK
  BY <1>1, IdleCarriesNothing DEF CarriedOK, Carried
<1>3. ExportsOK
  <2>1. \A op : Recording(op) = {}
    BY <1>1, IdleCarriesNothing DEF Recording
  <2>2. exports = [op \in Operators |-> 0]
    BY DEF Purge!Init
  <2> QED
    BY <2>1, <2>2, FS_EmptySet, PurgeAssumption DEF ExportsOK
<1>4. StoreOK /\ Traced
  BY DEF Purge!Init, StoreOK, Traced
<1>5. PurgesRest /\ OnePurge
  BY <1>1, IdleCarriesNothing DEF PurgesRest, Purge!At, OnePurge
<1>6. ASSUME NEW op \in Operators PROVE Ledger(op)
  <2>1. purged[op] = {} /\ exports[op] = 0 /\ Held(op) = 0
    BY <1>6 DEF Purge!Init, Held
  <2>2. Balance(op) = 0 /\ IsFiniteSet(purged[op])
    BY <2>1, FS_EmptySet DEF Balance
  <2>3. \A s \in Requests : ~Deleting(s, op)
    BY <1>1, IdleCarriesNothing DEF Deleting
  <2> QED
    BY <2>1, <2>2, <2>3 DEF Ledger
<1> QED
  BY <1>2, <1>3, <1>4, <1>5, <1>6 DEF PurgeInv, PurgesInv

LEMMA LoginsInit ==
  ASSUME Init
  PROVE  LoginsInv /\ NoLogins
<1>1. GuardInv
  BY GuardInit
<1>2. \A k \in Counters : count[k] = 0 /\ local[k] = 0
  BY DEF Init
<1>3. \A r \in Requests : req[r] = Idle
  BY DEF Init
<1>4. \A s \in Sessions : session[s].key = None /\ session[s].row = 0 /\ idle[s] = 0
  BY DEF Init, Unopened
<1>5. NoLogins
  BY <1>2 DEF NoLogins, Init
<1>6. CounterInv
  BY <1>2, <1>3, IdleFields DEF CounterInv, CountersDie
<1>7. ActiveInv
  BY <1>3, <1>4, IdlePaced DEF ActiveInv, SessionPaced, Init
<1>8. ASSUME NEW a \in Accounts PROVE GuessInv(a)
  <2>1. Counter(a) = 0 /\ guesses[a] = 0 /\ a \notin locked
    BY <1>2, <1>5 DEF Counter, Counters, NoLogins, Init
  <2>2. \A r \in Requests : req[r].step = "idle"
    BY <1>3, IdleFields
  <2>3. AccountThreshold \in Nat \ {0}
    BY GuardAssumption
  <2> QED
    BY <2>1, <2>2, <2>3, CardinalitySum DEF GuessInv
<1> QED
  BY <1>5, <1>6, <1>7, <1>8 DEF LoginsInv

LEMMA RunInit == MCInit => RunInv
<1> SUFFICES ASSUME MCInit PROVE RunInv
  OBVIOUS
<1>1. Init /\ Purge!Init /\ mayFail \in BOOLEAN
  BY DEF MCInit
<1> QED
  BY <1>1, GuardInit, PurgeInit, LoginsInit DEF RunInv

\* A step of logins, calls and visits that no failure is part of.
LEMMA LoginsNext ==
  ASSUME GuardInv, LoginsInv, ~mayFail, GuardStep
  PROVE  LoginsInv' /\ ExpiresIdleOnly
<1> DEFINE Beside == CachedEnds \/ Tick \/ \E s \in Sessions : Renew(s)
<1> DEFINE Ends == \/ \E k \in Counters : WindowEnds(k)
                   \/ \E a \in Accounts : Quiet /\ Unlock(a)
<1>0. GuardInv /\ CounterInv /\ ActiveInv /\ ReqOK /\ \A a \in Accounts : GuessInv(a)
  BY DEF LoginsInv, GuardInv
<1>1. ASSUME NEW r \in Requests, ExpiresIdle(r), Others(r) PROVE ExpiresIdleOnly
  BY <1>1 DEF ExpiresIdleOnly, ExpiresIdle, Others, At
<1>2. ASSUME UNCHANGED req PROVE ExpiresIdleOnly
  BY <1>2 DEF ExpiresIdleOnly, At
<1>3. ASSUME NEW r \in Requests, Outside(r) PROVE CounterInv' /\ \A a \in Accounts : GuessInv(a)'
  <2>1. Settled(r)
    BY <1>3 DEF Settled, Outside, LoginSteps
  <2> QED
    BY <1>0, <1>3, <2>1, SettledKeeps, OutsideGuesses
<1>4. ASSUME NEW r \in Requests, VisitStep(r) \/ Invalidate(r) \/ (SavePolicy(r) /\ Chosen)
      PROVE  LoginsInv' /\ ExpiresIdleOnly
  <2>1. Outside(r)
    BY <1>0, <1>4, VisitsOutside, SettingsOutside DEF PolicyStep
  <2>2. ActiveInv' /\ ExpiresIdle(r) /\ Others(r)
    BY <1>0, <1>4, VisitsActive, SettingsActive
  <2> QED
    BY <2>1, <2>2, <1>1, <1>3 DEF LoginsInv
<1>5. ASSUME NEW r \in Requests, LoginStep(r) \/ CallStep(r) \/ CountStep(r)
      PROVE  LoginsInv' /\ ExpiresIdleOnly
  <2>1. ActiveInv' /\ ExpiresIdle(r) /\ Others(r)
    BY <1>0, <1>5, LoginsActive
  <2>2. CASE LoginStep(r) \/ CallStep(r)
    <3>1. CounterInv'
      BY <1>0, <2>2, LoginSettled, SettledKeeps
    <3>2. ASSUME NEW a \in Accounts PROVE GuessInv(a)'
      BY <1>0, <2>2, CompareGuesses, LockGuesses, LoginsGuesses DEF LoginStep
    <3> QED
      BY <2>1, <3>1, <3>2, <1>1 DEF LoginsInv
  <2>3. CASE CountStep(r)
    <3>1. PICK k \in Counters :
            Count(r, k) \/ SetWindow(r, k) \/ CountInMemory(r, k) \/ Clear(r, k)
      BY <2>3 DEF CountStep
    <3>2. CounterInv'
      BY <1>0, <3>1, CountCounters, SetWindowCounters, CountInMemoryCounters, ClearCounters
    <3>3. Count(r, k) \/ CountInMemory(r, k) => Counting(r, k)
      BY <1>0, CountsCount
    <3>4. ASSUME NEW a \in Accounts PROVE GuessInv(a)'
      BY <1>0, <3>1, <3>3, CountGuesses, SetWindowGuesses, ClearGuesses
    <3> QED
      BY <2>1, <3>2, <3>4, <1>1 DEF LoginsInv
  <2> QED
    BY <1>5, <2>2, <2>3
<1>6. ASSUME Ends \/ Beside
      PROVE  LoginsInv' /\ ExpiresIdleOnly
  <2>1. \/ \E k \in Counters : WindowEnds(k)
        \/ \E a \in Accounts : Unlock(a)
        \/ CachedEnds \/ Tick \/ \E s \in Sessions : Renew(s)
    BY <1>6
  <2>2. CounterInv'
    BY <1>0, <2>1, BesideCounters
  <2>3. ActiveInv' /\ UNCHANGED req
    BY <1>0, <2>1, BesideActive
  <2>4. ASSUME NEW a \in Accounts, Ends PROVE GuessInv(a)'
    BY <1>0, <2>4, EndsGuesses
  <2>5. ASSUME NEW a \in Accounts, Beside PROVE GuessInv(a)'
    BY <1>0, <2>5, BesideGuesses
  <2> QED
    BY <1>6, <2>2, <2>3, <2>4, <2>5, <1>2 DEF LoginsInv
<1>7. CASE Working
  <2> HIDE DEF Ends, Beside
  <2>1. \/ \E r \in Acting : Login(r) \/ VisitStep(r) \/ Invalidate(r)
        \/ Ends \/ Beside
    BY <1>7 DEF Working, Ends, Beside
  <2>2. Acting \subseteq Requests
    BY DEF Acting
  <2>3. ASSUME NEW r, Login(r) PROVE LoginStep(r) \/ CallStep(r) \/ CountStep(r)
    BY <2>3 DEF Login
  <2> QED
    BY <2>1, <2>2, <2>3, <1>4, <1>5, <1>6
<1>8. CASE \E r \in Acting : SavePolicy(r) /\ Chosen
  BY <1>8, <1>4 DEF Acting
<1> QED
  BY <1>7, <1>8 DEF GuardStep

\* Every step of logins, calls and visits is one of AdminGuard.
LEMMA GuardStepNext ==
  ASSUME GuardStep
  PROVE  Next
<1>1. ASSUME Working PROVE Next
  <2>1. CASE \E r \in Acting : Login(r) \/ VisitStep(r) \/ Invalidate(r)
    BY <2>1 DEF Acting, Login, Next, PolicyStep
  <2>2. CASE \/ \E k \in Counters : WindowEnds(k)
             \/ \E a \in Accounts : Unlock(a)
             \/ CachedEnds \/ Tick \/ \E s \in Sessions : Renew(s)
    BY <2>2 DEF Next
  <2> QED
    BY <1>1, <2>1, <2>2 DEF Working
<1>2. ASSUME \E r \in Acting : SavePolicy(r) PROVE Next
  BY <1>2 DEF Acting, Next, PolicyStep
<1>3. ASSUME Trouble PROVE Next
  BY <1>3 DEF Trouble, Next
<1> QED
  BY <1>1, <1>2, <1>3 DEF GuardStep

\* A step of one purge leaves the others, and Redis, as they are.
LEMMA HandlerOne ==
  ASSUME PurgeInv, NEW s \in Requests, NEW up, Purge!HandlerStep(s, up)
  PROVE  UNCHANGED redis /\ \A t \in Requests \ {s} : purging'[t] = purging[t]
<1>1. UNCHANGED redis
  BY DEF Purge!HandlerStep, Purge!BeginExport, Purge!RecordReceipt, Purge!BeginPurge,
         Purge!DeleteRows, Purge!ClearReceipt, Purge!PublishTrace
<1> QED
  BY <1>1, BeginExportKeeps, RecordReceiptKeeps, BeginPurgeKeeps, DeleteRowsKeeps,
     ClearReceiptKeeps, PublishTraceKeeps DEF Purge!HandlerStep

LEMMA PurgeStepEffect ==
  ASSUME PurgeInv, PurgeStep
  PROVE  PurgeInv' /\ (UNCHANGED redis \/ redis' = ~redis)
<1>1. Purging \subseteq Requests
  BY DEF Purging
<1>2. ASSUME NEW r \in Purging, NEW up, Purge!HandlerStep(r, up) PROVE PurgeInv' /\ UNCHANGED redis
  BY <1>1, <1>2, HandlerKeeps, HandlerOne
<1>3. ASSUME Purge!WriteTrace \/ Purge!ReceiptExpires \/ Purge!RedisTurns
      PROVE  PurgeInv' /\ (UNCHANGED redis \/ redis' = ~redis)
  BY <1>3, PurgeRestKeeps DEF Purge!WriteTrace, Purge!ReceiptExpires, Purge!RedisTurns
<1> QED
  BY <1>2, <1>3 DEF PurgeStep

\* A purge at a time: its own steps, or Redis turning between two purges.
LEMMA PurgesNext ==
  ASSUME PurgeInv, PurgesInv, ~mayFail, PurgeStep
  PROVE  PurgesInv'
<1>0. OnePurge /\ \A op \in Operators : Ledger(op)
  BY DEF PurgesInv
<1>1. ASSUME NEW r \in Purging, Purge!HandlerStep(r, redis) PROVE PurgesInv'
  <2>1. r \in Requests
    BY DEF Purging
  <2>2. PurgeAlone(r)
    BY <1>0, <2>1 DEF Purging, PurgesRest, OnePurge, PurgeAlone, Purge!At
  <2>3. \A op \in Operators : Ledger(op)'
    BY <1>0, <1>1, <2>1, <2>2, HandlerLedger
  <2>4. \A t \in Requests \ {r} : purging'[t].step = "idle"
    BY <1>1, <2>1, <2>2, HandlerOne DEF PurgeAlone
  <2>5. OnePurge'
    BY <2>4 DEF OnePurge
  <2> QED
    BY <2>3, <2>5 DEF PurgesInv
<1>2. ASSUME Purge!WriteTrace \/ Purge!ReceiptExpires PROVE PurgesInv'
  <2>1. \A op \in Operators : Ledger(op)'
    BY <1>0, <1>2, ExpiryLedger
  <2>2. OnePurge'
    BY <1>0, <1>2, PurgeRestKeeps DEF OnePurge
  <2> QED
    BY <2>1, <2>2 DEF PurgesInv
<1>3. ASSUME PurgesRest, Purge!RedisTurns PROVE PurgesInv'
  <2>1. UNCHANGED purgeVars
    BY <1>3 DEF Purge!RedisTurns, Purge!receipts, Purge!rows, Purge!observed, purgeVars
  <2>2. \A op \in Operators : Ledger(op)'
    BY <1>0, <1>3, <2>1, RestLedger
  <2>3. OnePurge'
    BY <1>0, <2>1 DEF OnePurge, purgeVars
  <2> QED
    BY <2>2, <2>3 DEF PurgesInv
<1> QED
  BY <1>1, <1>2, <1>3 DEF PurgeStep

LEMMA PurgesUntouched ==
  ASSUME PurgeInv, UNCHANGED purgeVars
  PROVE  PurgeInv' /\ (PurgesRest => PurgesRest') /\ (OnePurge => OnePurge')
<1>1. PurgeInv'
  BY DEF PurgeInv, CarriedOK, ExportsOK, Recording, StoreOK, Traced, Done, purgeVars
<1>2. (PurgesRest => PurgesRest') /\ (OnePurge => OnePurge')
  BY DEF PurgesRest, Purge!At, OnePurge, purgeVars
<1> QED
  BY <1>1, <1>2

LEMMA LoginsUntouched ==
  ASSUME LoginsInv, UNCHANGED vars
  PROVE  LoginsInv'
<1> USE DEF vars, counters, rules
<1>1. CounterInv'
  BY DEF LoginsInv, CounterInv, CountersDie, At
<1>2. ActiveInv'
  BY DEF LoginsInv, ActiveInv, Paced, SessionPaced
<1>3. \A a \in Accounts : GuessInv(a)'
  BY DEF LoginsInv, GuessInv, Counter, Asked, Pending, Heavy
<1> QED
  BY <1>1, <1>2, <1>3 DEF LoginsInv

LEMMA RunNext ==
  ASSUME RunInv, [MCNext]_<<vars, mcVars, purgeVars>>
  PROVE  RunInv' /\ (~mayFail => ExpiresIdleOnly)
<1>0. GuardInv /\ PurgeInv /\ ReqOK
  BY DEF RunInv, GuardInv
<1>1. CASE work # "purges" /\ GuardStep /\ UNCHANGED purgeVars /\ UNCHANGED <<work, mayFail>>
  <2>1. GuardInv'
    BY <1>0, <1>1, GuardStepNext, GuardNext
  <2>2. PurgeInv' /\ PurgesRest /\ PurgesRest'
    BY <1>0, <1>1, PurgesUntouched DEF RunInv
  <2>3. ~mayFail => PurgesInv'
    BY <1>0, <1>1, <2>2, PurgesUntouched, RestLedger DEF RunInv, PurgesInv
  <2>4. ~mayFail => LoginsInv' /\ ExpiresIdleOnly
    BY <1>0, <1>1, LoginsNext DEF RunInv
  <2> QED
    BY <1>1, <2>1, <2>2, <2>3, <2>4 DEF RunInv
<1>2. CASE /\ work = "purges" /\ (PurgeStep \/ PurgeFault)
           /\ UNCHANGED guardVars /\ UNCHANGED <<work, mayFail>>
  <2>1. PurgeInv' /\ (UNCHANGED redis \/ redis' = ~redis)
    BY <1>0, <1>2, PurgeStepEffect, FaultKeeps DEF PurgeFault
  <2>2. UNCHANGED vars \/ RedisTurns
    BY <1>2, <2>1 DEF guardVars, vars, RedisTurns, counters, rules
  <2>3. GuardInv'
    BY <1>0, <2>2, GuardNext DEF Next
  <2>4. NoLogins'
    BY <1>2 DEF RunInv, NoLogins, guardVars, counters
  <2>5. ~mayFail => PurgesInv'
    BY <1>0, <1>2, PurgesNext DEF RunInv, PurgeFault
  <2>6. ExpiresIdleOnly
    BY <1>2 DEF guardVars, ExpiresIdleOnly, At
  <2> QED
    BY <1>2, <2>1, <2>3, <2>4, <2>5, <2>6 DEF RunInv
<1>3. CASE UNCHANGED <<vars, mcVars, purgeVars>>
  <2>1. UNCHANGED vars /\ UNCHANGED purgeVars /\ UNCHANGED <<work, mayFail>>
    BY <1>3 DEF mcVars
  <2>2. GuardInv'
    BY <1>0, <2>1, GuardNext
  <2>3. PurgeInv' /\ (PurgesRest => PurgesRest') /\ (OnePurge => OnePurge')
    BY <1>0, <2>1, PurgesUntouched
  <2>4. NoLogins => NoLogins'
    BY <2>1 DEF NoLogins, vars, counters
  <2>5. LoginsInv => LoginsInv'
    BY <2>1, LoginsUntouched
  <2>6. (\A op \in Operators : Ledger(op)) => \A op \in Operators : Ledger(op)'
    BY <2>1 DEF Ledger, Balance, Held, Deleting, Purge!HasReceipt, vars, purgeVars
  <2>7. ExpiresIdleOnly
    BY <2>1 DEF vars, ExpiresIdleOnly, At
  <2> QED
    BY <2>1, <2>2, <2>3, <2>4, <2>5, <2>6, <2>7 DEF RunInv, PurgesInv
<1> QED
  BY <1>1, <1>2, <1>3 DEF MCNext

LEMMA RunAlways == MCSpec => []RunInv
<1>1. RunInv /\ [MCNext]_<<vars, mcVars, purgeVars>> => RunInv'
  BY RunNext
<1> QED
  BY RunInit, <1>1, PTL DEF MCSpec

-----------------------------------------------------------------------------
\* Counters, policies, sessions and requests, receipts and rows of the log
\* always have their types: a lastActive key never outlives the time it was set
\* for, and no window is set on a counter that is not there (loginSecurity.ts,
\* securityPolicy.middleware.ts, admin.service.ts).
THEOREM TypesCorrect == MCSpec => []AllTyped
<1>1. RunInv => AllTyped
  BY GuardTyped, PurgeTyped DEF RunInv, GuardInv, RestOK, AllTyped
<1> QED
  BY RunAlways, <1>1, PTL

\* For every number of Super Admins and of requests in flight: overlapping
\* deletions, expiring receipts, failing exports and a Redis that comes, goes
\* and errs cost the latest deletion of the activity log no trace.  It is without
\* one only where the insert of its row failed or the process stopped between
\* the deletion and that insert (deleteAllAuditLogs in admin.service.ts,
\* createAuditLog in audit.ts).
THEOREM LatestPurgeTraced == MCSpec => []LastTraceKeptOrMissed
<1>1. RunInv => LastTraceKeptOrMissed
  <2> SUFFICES ASSUME Traced, last # None
               PROVE  last \in log \cup Purge!OnItsWay \cup missed
    BY DEF RunInv, PurgeInv, LastTraceKeptOrMissed, Purge!LastTraceKeptOrMissed
  <2> QED
    BY DEF Traced, Done, Purge!OnItsWay, Purge!At
<1> QED
  BY RunAlways, <1>1, PTL

\* With one request at a time an export is good for one deletion, though Redis
\* comes and goes between the two and leaves receipts in both of their places
\* (recordAuditExportReceipt, hasRecentAuditExport and clearAuditExportReceipt).
THEOREM OneDeletionAnExport == MCSpec => []SteadyOneExportOnePurge
<1>1. RunInv => SteadyOneExportOnePurge
  <2> SUFFICES ASSUME RunInv, ~mayFail, NEW op \in Operators
               PROVE  Purge!Cardinality(purged[op]) <= exports[op]
    BY DEF SteadyOneExportOnePurge, Purge!OneExportOnePurge
  <2>1. PurgeInv /\ Ledger(op)
    BY DEF RunInv, PurgesInv
  <2> QED
    BY <2>1, LedgerSays, SameCardinality
<1> QED
  BY RunAlways, <1>1, PTL

\* While nothing fails, every counter of failed logins and of calls has its
\* expiry or a request about to give it one: nobody is kept out for ever
\* (increment in loginSecurity.ts, rateLimit.middleware.ts).
THEOREM CountersExpire == MCSpec => []SteadyCountersDie
<1>1. RunInv => SteadyCountersDie
  BY DEF RunInv, LoginsInv, NoLogins, CounterInv, SteadyCountersDie, CountersDie
<1> QED
  BY RunAlways, <1>1, PTL

\* While nothing fails, fewer wrong passwords are judged between two fresh starts
\* of an account than the threshold and the requests in flight make together,
\* for every number of requests and every threshold (loginAdmin in
\* auth.service.ts).
THEOREM GuessesAreBounded == MCSpec => []SteadyGuessesBounded
<1>1. RunInv => SteadyGuessesBounded
  <2> SUFFICES ASSUME RunInv, ~mayFail, NEW a \in Accounts
               PROVE  guesses[a] < AccountThreshold + Cardinality(Requests)
    BY DEF SteadyGuessesBounded, GuessesBounded
  <2>1. GuardInv
    BY DEF RunInv
  <2>2. CASE work # "purges"
    BY <2>1, <2>2, GuessBound DEF RunInv, LoginsInv
  <2>3. CASE work = "purges"
    BY <2>3, GuessNumbers, CardinalitySum, <2>1 DEF RunInv, NoLogins
  <2> QED
    BY <2>2, <2>3
<1> QED
  BY RunAlways, <1>1, PTL

\* While nothing fails, and the timeout is neither switched on nor off, a step
\* that expires a session expires one that has made no request for longer than
\* the timeout (enforceAdminSessionTimeout in securityPolicy.middleware.ts).
THEOREM ActiveSessionsKept == MCSpec => SteadyActiveKept
<1>1. RunInv /\ [MCNext]_<<vars, mcVars, purgeVars>> => [~mayFail => ExpiresIdleOnly]_vars
  BY RunNext
<1> QED
  BY RunAlways, <1>1, PTL DEF MCSpec, SteadyActiveKept
=============================================================================
