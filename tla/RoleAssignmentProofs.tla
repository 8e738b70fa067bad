------------------------ MODULE RoleAssignmentProofs ------------------------
(***************************************************************************)
(* Proofs about RoleAssignment for any number of accounts and of requests  *)
(* that overlap and fail in any way.                                       *)
(*                                                                         *)
(* A permission gets into the cache in three steps: a request reads the    *)
(* operator's rows, keeps what they grant, and stores it, maybe long after *)
(* the rows have changed.  The inductive invariant follows it: what the    *)
(* rows grant was held, what a request keeps was held by its operator, and *)
(* so what it stores under the operator's key was held.                    *)
(***************************************************************************)
EXTENDS MCRoleAssignment, TLAPS

\* What the rows of an account grant it has had.
RowsHeld == \A a \in Admins : Granted(grants, roles[a]) \subseteq held[a]

\* A request under way knows whose it is and whom it is about, and keeps
\* nothing but permissions its operator has had.
RequestsHeld ==
  \A s \in Requests : ~At(s, "idle") =>
    /\ req[s].op \in Admins
    /\ req[s].target \in Admins
    /\ req[s].perms \subseteq held[req[s].op]

IInv == TypeOK /\ RowsHeld /\ RequestsHeld /\ CachedWasHeld

-----------------------------------------------------------------------------
(* What the helpers return and what they do to the requests.               *)

LEMMA GrantedTyped ==
  ASSUME NEW gs \in [Roles -> SUBSET Permissions], NEW rs \in SUBSET Roles
  PROVE  Granted(gs, rs) \in SUBSET Permissions
BY DEF Granted

LEMMA SeedTyped == Seed \in [Roles -> SUBSET Permissions]
BY DEF Seed, Permissions

LEMMA IdleTyped == Idle \in Request /\ Idle.step = "idle"
BY RoleAssumption DEF Idle, Request, Steps, Acts

LEMMA ContinueEffect ==
  ASSUME TypeOK, NEW s \in Requests, NEW step \in Steps, Continue(s, step)
  PROVE  /\ req' \in [Requests -> Request]
         /\ req'[s].op = req[s].op
         /\ req'[s].target = req[s].target
         /\ req'[s].perms = req[s].perms
         /\ \A t \in Requests \ {s} : req'[t] = req[t]
<1>1. req[s] \in Request /\ req'[s] = [req[s] EXCEPT !.step = step]
  BY DEF TypeOK, Continue
<1>2. req'[s] \in Request
  BY <1>1 DEF Request
<1>3. QED
  BY <1>1, <1>2 DEF TypeOK, Continue, Request

LEMMA RespondEffect ==
  ASSUME TypeOK, NEW s \in Requests, Respond(s)
  PROVE  /\ req' \in [Requests -> Request]
         /\ req'[s] = Idle
         /\ \A t \in Requests \ {s} : req'[t] = req[t]
BY IdleTyped DEF TypeOK, Respond

\* A request that goes on or is answered keeps the invariants of requests, as
\* long as what accounts have held does not shrink.
LEMMA RequestMoves ==
  ASSUME IInv, NEW s \in Requests, ~At(s, "idle"),
         Respond(s) \/ \E step \in Steps : Continue(s, step),
         \A a \in Admins : held[a] \subseteq held'[a]
  PROVE  req' \in [Requests -> Request] /\ RequestsHeld'
<1>1. \A t \in Requests \ {s} : req'[t] = req[t]
  BY ContinueEffect, RespondEffect DEF IInv
<1>2. \/ req'[s] = Idle
      \/ /\ req'[s].op = req[s].op
         /\ req'[s].target = req[s].target
         /\ req'[s].perms = req[s].perms
  BY ContinueEffect, RespondEffect DEF IInv
<1>3. req' \in [Requests -> Request]
  BY ContinueEffect, RespondEffect DEF IInv
<1>4. RequestsHeld'
  <2> SUFFICES ASSUME NEW t \in Requests, ~At(t, "idle")'
               PROVE  /\ req'[t].op \in Admins
                      /\ req'[t].target \in Admins
                      /\ req'[t].perms \subseteq held'[req'[t].op]
    BY DEF RequestsHeld
  <2>1. CASE t = s
    BY <2>1, <1>2, IdleTyped DEF IInv, RequestsHeld, At
  <2>2. CASE t # s
    BY <2>2, <1>1 DEF IInv, RequestsHeld, At
  <2> QED
    BY <2>1, <2>2
<1> QED
  BY <1>3, <1>4

LEMMA GateMoves ==
  ASSUME NEW s \in Requests, NEW perms, Gate(s, perms)
  PROVE  Respond(s) \/ \E step \in Steps : Continue(s, step)
BY DEF Gate, Steps

-----------------------------------------------------------------------------
(* The invariant is inductive.                                             *)

LEMMA InitEstablishes == Init => IInv
<1> SUFFICES ASSUME Init PROVE IInv
  OBVIOUS
<1>1. TypeOK
  BY RoleAssumption, SeedTyped, GrantedTyped, IdleTyped DEF Init, TypeOK, Statuses, Tiers
<1>2. RowsHeld /\ RequestsHeld /\ CachedWasHeld
  BY IdleTyped DEF Init, RowsHeld, RequestsHeld, CachedWasHeld, At
<1> QED
  BY <1>1, <1>2 DEF IInv

LEMMA AccountStepPreserves ==
  ASSUME IInv, NEW a \in Admins, AccountStep(a)
  PROVE  IInv'
<1>1. CASE IssueToken(a)
  <2>1. Tier(roles[a]) \in Tiers
    BY DEF Tier, Tiers
  <2> QED
    BY <1>1, <2>1 DEF IInv, IssueToken, observed, TypeOK, RowsHeld, RequestsHeld,
       CachedWasHeld, At
<1>2. CASE TokenExpires(a)
  BY <1>2 DEF IInv, TokenExpires, observed, TypeOK, RowsHeld, RequestsHeld,
     CachedWasHeld, At, Tiers
<1>3. CASE DeleteOwnAccount(a)
  <2>1. roles' \in [Admins -> SUBSET Roles] /\ status' \in [Admins -> Statuses]
    BY <1>3 DEF IInv, TypeOK, DeleteOwnAccount, Statuses
  <2>2. RowsHeld'
    BY <1>3 DEF IInv, TypeOK, DeleteOwnAccount, RowsHeld, Granted
  <2> QED
    BY <1>3, <2>1, <2>2 DEF IInv, DeleteOwnAccount, TypeOK, RequestsHeld,
       CachedWasHeld, At
<1>4. CASE EntryExpires(a)
  BY <1>4 DEF IInv, EntryExpires, observed, TypeOK, RowsHeld, RequestsHeld,
     CachedWasHeld, At
<1> QED
  BY <1>1, <1>2, <1>3, <1>4 DEF AccountStep

LEMMA ArrivePreserves ==
  ASSUME IInv, NEW s \in Requests, NEW op \in Admins, NEW target \in Admins,
         NEW act \in Acts, NEW given \in SUBSET Roles,
         NEW grant \in SUBSET Permissions,
         req' = [req EXCEPT ![s] = Arrival(act, op, target, given, grant)],
         UNCHANGED <<status, roles, grants, claim, cache, observed>>
  PROVE  IInv'
<1> DEFINE r == Arrival(act, op, target, given, grant)
<1>1. r \in Request
  BY DEF Request, Steps, Arrival
<1>2. r.op \in Admins /\ r.target \in Admins /\ r.perms = {}
  BY DEF Arrival
<1>3. req' = [req EXCEPT ![s] = r]
  OBVIOUS
<1> HIDE DEF r
<1>4. TypeOK'
  BY <1>1, <1>3 DEF IInv, TypeOK, observed
<1>5. RequestsHeld'
  BY <1>2, <1>3 DEF IInv, TypeOK, RequestsHeld, observed, At
<1> QED
  BY <1>4, <1>5 DEF IInv, observed, RowsHeld, CachedWasHeld

\* The steps on the way in, and the reads: nothing but the request changes,
\* and it moves on.
LEMMA ReadStepPreserves ==
  ASSUME IInv, NEW s \in Requests, Lookup(s) \/ Read(s) \/ Count(s) \/ Abandon(s)
  PROVE  IInv'
<1>1. ~At(s, "idle")
  BY DEF Lookup, Read, Count, Abandon, At
<1>2. Respond(s) \/ \E step \in Steps : Continue(s, step)
  BY GateMoves DEF Lookup, Read, Count, Abandon, Steps
<1>3. UNCHANGED <<status, roles, grants, claim, cache, held, left>>
  BY DEF Lookup, Read, Count, Abandon, observed
<1>4. req' \in [Requests -> Request] /\ RequestsHeld'
  BY <1>1, <1>2, <1>3, RequestMoves
<1> QED
  BY <1>3, <1>4 DEF IInv, TypeOK, RowsHeld, CachedWasHeld

LEMMA QueryPreserves ==
  ASSUME IInv, NEW s \in Requests, Query(s)
  PROVE  IInv'
<1>1. req[s] \in Request /\ req[s].op \in Admins /\ req[s].target \in Admins
  BY DEF IInv, TypeOK, RequestsHeld, Query, At
<1> DEFINE r == [req[s] EXCEPT !.step = "store", !.perms = Granted(grants, roles[req[s].op])]
<1>2. req' = [req EXCEPT ![s] = r]
  BY DEF Query, IInv, TypeOK
<1>3. r \in Request
  <2>1. Granted(grants, roles[req[s].op]) \in SUBSET Permissions
    BY <1>1, GrantedTyped DEF IInv, TypeOK
  <2> QED
    BY <1>1, <2>1 DEF Request, Steps
<1>4. r.op = req[s].op /\ r.target = req[s].target /\ r.perms \subseteq held[r.op]
  BY <1>1 DEF IInv, RowsHeld, Request
<1> HIDE DEF r
<1>5. TypeOK'
  <2>1. TypeOK /\ UNCHANGED <<status, roles, grants, claim, cache, held, left>>
    BY DEF IInv, Query, observed
  <2> QED
    BY <1>2, <1>3, <2>1 DEF TypeOK
<1>6. RequestsHeld'
  <2>1. UNCHANGED held /\ RequestsHeld
    BY DEF IInv, Query, observed
  <2>2. req'[s] = r /\ \A t \in Requests \ {s} : req'[t] = req[t]
    BY <1>2 DEF IInv, TypeOK
  <2> QED
    BY <1>1, <1>4, <2>1, <2>2 DEF RequestsHeld, At
<1> QED
  BY <1>5, <1>6 DEF IInv, Query, observed, RowsHeld, CachedWasHeld

LEMMA StorePreserves ==
  ASSUME IInv, NEW s \in Requests, Store(s)
  PROVE  IInv'
<1>1. ~At(s, "idle") /\ UNCHANGED <<status, roles, grants, claim, held, left>>
  BY DEF Store, At, observed
<1>2. req' \in [Requests -> Request] /\ RequestsHeld'
  BY <1>1, GateMoves, RequestMoves DEF Store
<1>3. /\ req[s].op \in Admins
      /\ req[s].perms \in SUBSET Permissions
      /\ req[s].perms \subseteq held[req[s].op]
  BY <1>1 DEF IInv, TypeOK, Request, RequestsHeld
<1>4. \/ UNCHANGED cache
      \/ cache' = [cache EXCEPT ![req[s].op] = req[s].perms]
  BY DEF Store
<1>5. cache' \in [Admins -> (SUBSET Permissions) \cup {None}]
  BY <1>3, <1>4 DEF IInv, TypeOK
<1>6. CachedWasHeld'
  BY <1>1, <1>3, <1>4 DEF IInv, TypeOK, CachedWasHeld
<1> QED
  BY <1>1, <1>2, <1>5, <1>6 DEF IInv, TypeOK, RowsHeld

LEMMA WriteRolesPreserves ==
  ASSUME IInv, NEW s \in Requests, WriteRoles(s)
  PROVE  IInv'
<1>1. ~At(s, "idle") /\ UNCHANGED <<status, grants, claim, cache, left>>
  BY DEF WriteRoles, At
<1>2. PICK a \in Admins, rs \in SUBSET Roles : SetRoles(a, rs)
  <2>1. req[s].target \in Admins /\ req[s].roles \in SUBSET Roles
    BY <1>1 DEF IInv, TypeOK, Request, RequestsHeld
  <2>2. roles[req[s].target] \ req[s].roles \in SUBSET Roles
    BY <2>1 DEF IInv, TypeOK
  <2> QED
    BY <2>1, <2>2 DEF WriteRoles
<1>3. /\ roles' \in [Admins -> SUBSET Roles]
      /\ held' \in [Admins -> SUBSET Permissions]
  BY <1>2, GrantedTyped DEF IInv, TypeOK, SetRoles
<1>4. \A b \in Admins : held[b] \subseteq held'[b]
  BY <1>2 DEF IInv, TypeOK, SetRoles
<1>5. RowsHeld'
  BY <1>1, <1>2 DEF IInv, TypeOK, RowsHeld, SetRoles
<1>6. req' \in [Requests -> Request] /\ RequestsHeld'
  BY <1>1, <1>4, RequestMoves DEF WriteRoles, Steps
<1>7. CachedWasHeld'
  BY <1>1, <1>4 DEF IInv, CachedWasHeld
<1> QED
  BY <1>1, <1>3, <1>5, <1>6, <1>7 DEF IInv, TypeOK

LEMMA WriteStatusPreserves ==
  ASSUME IInv, NEW s \in Requests, WriteStatus(s)
  PROVE  IInv'
<1>1. ~At(s, "idle") /\ UNCHANGED <<roles, grants, claim, cache, held, left>>
  BY DEF WriteStatus, At, observed
<1>2. status' \in [Admins -> Statuses]
  BY DEF WriteStatus, IInv, TypeOK, Statuses
<1>3. req' \in [Requests -> Request] /\ RequestsHeld'
  BY <1>1, RequestMoves DEF WriteStatus, Steps
<1> QED
  BY <1>1, <1>2, <1>3 DEF IInv, TypeOK, RowsHeld, CachedWasHeld

LEMMA DeleteUserPreserves ==
  ASSUME IInv, NEW s \in Requests, DeleteUser(s)
  PROVE  IInv'
<1>1. ~At(s, "idle") /\ UNCHANGED <<grants, claim, cache, held, left>>
  BY DEF DeleteUser, At, observed
<1>2. status' \in [Admins -> Statuses] /\ roles' \in [Admins -> SUBSET Roles]
  BY DEF DeleteUser, IInv, TypeOK, Statuses
<1>3. RowsHeld'
  BY <1>1 DEF DeleteUser, IInv, TypeOK, RowsHeld, Granted
<1>4. req' \in [Requests -> Request] /\ RequestsHeld'
  BY <1>1, RequestMoves DEF DeleteUser, Steps
<1> QED
  BY <1>1, <1>2, <1>3, <1>4 DEF IInv, TypeOK, CachedWasHeld

LEMMA InvalidatePreserves ==
  ASSUME IInv, NEW s \in Requests, InvalidateUser(s)
  PROVE  IInv'
<1>1. ~At(s, "idle") /\ UNCHANGED <<status, roles, grants, claim, held, left>>
  BY DEF InvalidateUser, At, observed
<1>2. /\ cache' \in [Admins -> (SUBSET Permissions) \cup {None}]
      /\ CachedWasHeld'
  BY <1>1 DEF InvalidateUser, IInv, TypeOK, CachedWasHeld
<1>3. req' \in [Requests -> Request] /\ RequestsHeld'
  BY <1>1, RequestMoves DEF InvalidateUser
<1> QED
  BY <1>1, <1>2, <1>3 DEF IInv, TypeOK, RowsHeld

LEMMA EditPreserves ==
  ASSUME IInv, NEW s \in Requests, EditPermissions(s)
  PROVE  IInv'
<1>1. ~At(s, "idle") /\ UNCHANGED <<status, roles, claim, cache, left>>
  BY DEF EditPermissions, At
<1>2. req[s].grant \in SUBSET Permissions
  BY DEF IInv, TypeOK, Request
<1>3. grants' \in [Roles -> SUBSET Permissions]
  BY <1>2 DEF EditPermissions, IInv, TypeOK
<1>4. held' = [a \in Admins |-> held[a] \cup Granted(grants', roles[a])]
  BY DEF EditPermissions
<1>5. held' \in [Admins -> SUBSET Permissions]
  BY <1>3, <1>4, GrantedTyped DEF IInv, TypeOK
<1>6. \A a \in Admins : held[a] \subseteq held'[a]
  BY <1>4
<1>7. RowsHeld'
  BY <1>1, <1>4 DEF RowsHeld
<1>8. req' \in [Requests -> Request] /\ RequestsHeld'
  BY <1>1, <1>6, RequestMoves DEF EditPermissions, Steps
<1>9. CachedWasHeld'
  BY <1>1, <1>6 DEF IInv, CachedWasHeld
<1> QED
  BY <1>1, <1>3, <1>5, <1>7, <1>8, <1>9 DEF IInv, TypeOK

LEMMA ListKeysPreserves ==
  ASSUME IInv, NEW s \in Requests, ListKeys(s)
  PROVE  IInv'
<1>1. req[s] \in Request /\ ~At(s, "idle")
  BY DEF IInv, TypeOK, ListKeys, At
<1>2. PICK keys \in SUBSET Admins :
        req' = [req EXCEPT ![s].step = "drop", ![s].keys = keys]
  BY DEF ListKeys
<1>3. req'[s] = [req[s] EXCEPT !.step = "drop", !.keys = keys]
  BY <1>2 DEF IInv, TypeOK
<1>4. /\ req'[s] \in Request
      /\ req'[s].op = req[s].op /\ req'[s].target = req[s].target
      /\ req'[s].perms = req[s].perms
  BY <1>1, <1>3 DEF Request, Steps
<1>5. \A t \in Requests \ {s} : req'[t] = req[t]
  BY <1>2 DEF IInv, TypeOK
<1>6. TypeOK'
  BY <1>2, <1>4, <1>5 DEF IInv, TypeOK, ListKeys, observed
<1>7. RequestsHeld'
  <2> SUFFICES ASSUME NEW t \in Requests, ~At(t, "idle")'
               PROVE  /\ req'[t].op \in Admins
                      /\ req'[t].target \in Admins
                      /\ req'[t].perms \subseteq held'[req'[t].op]
    BY DEF RequestsHeld
  <2>1. CASE t = s
    BY <2>1, <1>1, <1>4 DEF IInv, RequestsHeld, ListKeys, observed
  <2>2. CASE t # s
    BY <2>2, <1>5 DEF IInv, RequestsHeld, ListKeys, observed, At
  <2> QED
    BY <2>1, <2>2
<1> QED
  BY <1>6, <1>7 DEF IInv, ListKeys, observed, RowsHeld, CachedWasHeld

LEMMA DropKeysPreserves ==
  ASSUME IInv, NEW s \in Requests, DropKeys(s)
  PROVE  IInv'
<1>1. ~At(s, "idle") /\ UNCHANGED <<status, roles, grants, claim, held, left>>
  BY DEF DropKeys, At, observed
<1>2. /\ cache' \in [Admins -> (SUBSET Permissions) \cup {None}]
      /\ CachedWasHeld'
  BY <1>1 DEF DropKeys, IInv, TypeOK, CachedWasHeld
<1>3. req' \in [Requests -> Request] /\ RequestsHeld'
  BY <1>1, RequestMoves DEF DropKeys
<1> QED
  BY <1>1, <1>2, <1>3 DEF IInv, TypeOK, RowsHeld

LEMMA NextPreserves == IInv /\ [Next]_vars => IInv'
<1> SUFFICES ASSUME IInv, [Next]_vars PROVE IInv'
  OBVIOUS
<1>1. CASE UNCHANGED vars
  BY <1>1 DEF vars, IInv, TypeOK, RowsHeld, RequestsHeld, CachedWasHeld, At
<1>2. ASSUME NEW a \in Admins, AccountStep(a) PROVE IInv'
  BY <1>2, AccountStepPreserves
<1>3. ASSUME NEW s \in Requests, RequestStep(s) PROVE IInv'
  <2>1. ASSUME NEW op \in Admins, NEW target \in Admins, NEW act \in Acts,
               NEW given \in SUBSET Roles, Arrive(s, op, act, target, given)
        PROVE  IInv'
    <3>1. {} \in SUBSET Permissions
      OBVIOUS
    <3> QED
      BY <2>1, <3>1, ArrivePreserves DEF Arrive
  <2>2. ASSUME NEW op \in Admins, NEW role \in Roles,
               NEW grant \in SUBSET Permissions, ArriveToEdit(s, op, role, grant)
        PROVE  IInv'
    BY <2>2, ArrivePreserves DEF ArriveToEdit, Acts
  <2> QED
    BY <1>3, <2>1, <2>2, ReadStepPreserves, QueryPreserves, StorePreserves,
       WriteRolesPreserves, WriteStatusPreserves, DeleteUserPreserves,
       InvalidatePreserves, EditPreserves, ListKeysPreserves, DropKeysPreserves
       DEF RequestStep
<1>4. ASSUME NEW s \in Requests, Abandon(s) PROVE IInv'
  BY <1>4, ReadStepPreserves
<1> QED
  BY <1>1, <1>2, <1>3, <1>4 DEF Next

-----------------------------------------------------------------------------
(* Somebody stays Super Admin while requests come one at a time.  The      *)
(* guards judge rows read some steps before the write; a request that has  *)
(* passed them and takes Super Admin from its target is still right about  *)
(* somebody else having it.                                                *)

\* No request but s is in flight.
Alone(s) == \A t \in Requests \ {s} : At(t, "idle")

\* What a request that is about to write, or to count first, has made sure of.
WritersLeaveOne ==
  \A s \in Requests :
    /\ At(s, "count") \/ At(s, "write") =>
         (req[s].act = "delete" => ~IsSuper(req[s].target))
    /\ At(s, "write") /\ TakesSuperAdmin(req[s].act, req[s].target, req[s].roles) =>
         OtherSuperAdmins(req[s].target) # {}

SuperInv == left \/ (SuperAdminRemains /\ WritersLeaveOne)

\* Who holds what stays as it is, and requests that are about to write were so.
LEMMA RolesRest ==
  ASSUME UNCHANGED <<roles, left>>, SuperInv,
         \A s \in Requests : (At(s, "count") \/ At(s, "write"))' =>
           /\ req'[s].step = req[s].step
           /\ req'[s].act = req[s].act
           /\ req'[s].target = req[s].target
           /\ req'[s].roles = req[s].roles
  PROVE  SuperInv'
<1>1. SuperAdminRemains => SuperAdminRemains'
  BY DEF SuperAdminRemains, IsSuper
<1>2. ASSUME WritersLeaveOne, NEW s \in Requests, (At(s, "count") \/ At(s, "write"))'
      PROVE  (/\ req[s].act = "delete" => ~IsSuper(req[s].target)
              /\ At(s, "write")
                 /\ TakesSuperAdmin(req[s].act, req[s].target, req[s].roles) =>
                      OtherSuperAdmins(req[s].target) # {})'
  BY <1>2 DEF WritersLeaveOne, TakesSuperAdmin, OtherSuperAdmins, IsSuper, At
<1>3. WritersLeaveOne => WritersLeaveOne'
  BY <1>2 DEF WritersLeaveOne
<1> QED
  BY <1>1, <1>3 DEF SuperInv

\* A request that is answered, or goes on to what is neither count nor write.
LEMMA SuperMoves ==
  ASSUME IInv, SuperInv, NEW s \in Requests, UNCHANGED <<roles, left>>,
         Respond(s) \/ \E step \in Steps \ {"count", "write"} : Continue(s, step)
  PROVE  SuperInv'
<1>1. \A t \in Requests \ {s} : req'[t] = req[t]
  BY ContinueEffect, RespondEffect DEF IInv
<1>2. ~(At(s, "count") \/ At(s, "write"))'
  BY IdleTyped DEF IInv, TypeOK, Respond, Continue, At, Request
<1> QED
  BY <1>1, <1>2, RolesRest DEF At

LEMMA AccountStepLeavesOne ==
  ASSUME IInv, SuperInv, NEW a \in Admins, AccountStep(a)
  PROVE  SuperInv'
<1>1. CASE DeleteOwnAccount(a)
  BY <1>1 DEF DeleteOwnAccount, SuperInv
<1>2. CASE IssueToken(a) \/ TokenExpires(a) \/ EntryExpires(a)
  <2>1. UNCHANGED <<roles, left, req>>
    BY <1>2 DEF IssueToken, TokenExpires, EntryExpires, observed
  <2> QED
    BY <2>1, RolesRest DEF At
<1> QED
  BY <1>1, <1>2 DEF AccountStep

LEMMA WayInLeavesOne ==
  ASSUME IInv, SuperInv, NEW s \in Requests,
         \/ \E op, target \in Admins, act \in Acts, given \in SUBSET Roles :
              Arrive(s, op, act, target, given)
         \/ \E op \in Admins, role \in Roles, grant \in SUBSET Permissions :
              ArriveToEdit(s, op, role, grant)
         \/ Query(s) \/ ListKeys(s)
  PROVE  SuperInv'
<1>1. UNCHANGED <<roles, left>>
  BY DEF Arrive, ArriveToEdit, Query, ListKeys, observed
<1>2. \A t \in Requests \ {s} : req'[t] = req[t]
  BY DEF IInv, TypeOK, Arrive, ArriveToEdit, Query, ListKeys
<1>3. req'[s].step \in {"lookup", "store", "drop"}
  <2>1. CASE Query(s) \/ ListKeys(s)
    BY <2>1 DEF IInv, TypeOK, Request, Query, ListKeys
  <2>2. \A act, op, target, given, grant :
          Arrival(act, op, target, given, grant).step = "lookup"
    BY DEF Arrival
  <2>3. CASE \E op, target \in Admins, act \in Acts, given \in SUBSET Roles :
               Arrive(s, op, act, target, given)
    <3>1. PICK op, target \in Admins, act \in Acts, given \in SUBSET Roles :
            Arrive(s, op, act, target, given)
      BY <2>3
    <3>2. req' = [req EXCEPT ![s] = Arrival(act, op, target, given, {})]
      BY <3>1 DEF Arrive
    <3> QED
      BY <2>2, <3>2 DEF IInv, TypeOK
  <2>4. CASE \E op \in Admins, role \in Roles, grant \in SUBSET Permissions :
               ArriveToEdit(s, op, role, grant)
    <3>1. PICK op \in Admins, role \in Roles, grant \in SUBSET Permissions :
            ArriveToEdit(s, op, role, grant)
      BY <2>4
    <3>2. req' = [req EXCEPT ![s] = Arrival("edit", op, op, {role}, grant)]
      BY <3>1 DEF ArriveToEdit
    <3> QED
      BY <2>2, <3>2 DEF IInv, TypeOK
  <2> QED
    BY <2>1, <2>3, <2>4
<1> QED
  BY <1>1, <1>2, <1>3, RolesRest DEF At

LEMMA ReadLeavesOne ==
  ASSUME IInv, SuperInv, NEW s \in Requests, Read(s)
  PROVE  SuperInv'
<1>1. UNCHANGED <<roles, left>> /\ ~At(s, "idle")
  BY DEF Read, observed, At
<1>2. \A t \in Requests \ {s} : req'[t] = req[t]
  BY DEF IInv, TypeOK, Read, Continue
<1>3. /\ req'[s].act = req[s].act /\ req'[s].target = req[s].target
      /\ req'[s].roles = req[s].roles
      /\ req'[s].step = IF TakesSuperAdmin(req[s].act, req[s].target, req[s].roles)
                        THEN "count" ELSE "write"
  BY DEF IInv, TypeOK, Read, Continue, Request
<1>4. req[s].act = "delete" => ~IsSuper(req[s].target)
  BY DEF Read, Allowed
<1>5. SuperAdminRemains => SuperAdminRemains'
  BY <1>1 DEF SuperAdminRemains, IsSuper
<1>6. ASSUME WritersLeaveOne, NEW t \in Requests
      PROVE  (/\ At(t, "count") \/ At(t, "write") =>
                   (req[t].act = "delete" => ~IsSuper(req[t].target))
              /\ At(t, "write") /\ TakesSuperAdmin(req[t].act, req[t].target, req[t].roles)
                   => OtherSuperAdmins(req[t].target) # {})'
  <2>1. CASE t = s
    BY <2>1, <1>1, <1>3, <1>4 DEF At, IsSuper, TakesSuperAdmin
  <2>2. CASE t # s
    BY <2>2, <1>1, <1>2, <1>6
       DEF WritersLeaveOne, At, IsSuper, TakesSuperAdmin, OtherSuperAdmins
  <2> QED
    BY <2>1, <2>2
<1> QED
  BY <1>1, <1>5, <1>6 DEF SuperInv, WritersLeaveOne

LEMMA CountLeavesOne ==
  ASSUME IInv, SuperInv, NEW s \in Requests, Count(s)
  PROVE  SuperInv'
<1>1. UNCHANGED <<roles, left>> /\ At(s, "count")
  BY DEF Count, observed
<1>2. \A t \in Requests \ {s} : req'[t] = req[t]
  BY DEF IInv, TypeOK, Count, Continue
<1>3. req'[s].act = req[s].act /\ req'[s].target = req[s].target
  BY DEF IInv, TypeOK, Count, Continue, Request
<1>4. OtherSuperAdmins(req[s].target) # {}
  BY DEF Count, Others, OtherActiveSuperAdmins
<1>5. SuperAdminRemains => SuperAdminRemains'
  BY <1>1 DEF SuperAdminRemains, IsSuper
<1>6. ASSUME WritersLeaveOne, NEW t \in Requests
      PROVE  (/\ At(t, "count") \/ At(t, "write") =>
                   (req[t].act = "delete" => ~IsSuper(req[t].target))
              /\ At(t, "write") /\ TakesSuperAdmin(req[t].act, req[t].target, req[t].roles)
                   => OtherSuperAdmins(req[t].target) # {})'
  <2>1. CASE t = s
    BY <2>1, <1>1, <1>3, <1>4, <1>6 DEF WritersLeaveOne, IsSuper, OtherSuperAdmins
  <2>2. CASE t # s
    BY <2>2, <1>1, <1>2, <1>6
       DEF WritersLeaveOne, At, IsSuper, TakesSuperAdmin, OtherSuperAdmins
  <2> QED
    BY <2>1, <2>2
<1> QED
  BY <1>1, <1>5, <1>6 DEF SuperInv, WritersLeaveOne

\* A request's step is its own.
LEMMA RequestFrame ==
  ASSUME TypeOK, NEW s \in Requests, RequestStep(s) \/ Abandon(s)
  PROVE  \A t \in Requests \ {s} : req'[t] = req[t]
<1>1. CASE \/ \E op, target \in Admins, act \in Acts, given \in SUBSET Roles :
                Arrive(s, op, act, target, given)
           \/ \E op \in Admins, role \in Roles, grant \in SUBSET Permissions :
                ArriveToEdit(s, op, role, grant)
           \/ Query(s) \/ ListKeys(s)
  BY <1>1 DEF TypeOK, Arrive, ArriveToEdit, Query, ListKeys
<1>2. CASE Lookup(s) \/ Store(s) \/ Read(s) \/ Count(s) \/ WriteRoles(s) \/ WriteStatus(s)
  BY <1>2 DEF TypeOK, Lookup, Store, Gate, Read, Count, WriteRoles, WriteStatus,
     Continue, Respond
<1>3. CASE \/ DeleteUser(s) \/ InvalidateUser(s) \/ EditPermissions(s) \/ DropKeys(s)
           \/ Abandon(s)
  BY <1>3 DEF TypeOK, DeleteUser, InvalidateUser, EditPermissions, DropKeys, Abandon,
     Continue, Respond
<1> QED
  BY <1>1, <1>2, <1>3 DEF RequestStep

\* The one request there is has written: no other is about to, and somebody
\* whom it was not about, or whom it gave Super Admin, has it.
LEMMA WriteLeavesOne ==
  ASSUME IInv, SuperInv, NEW s \in Requests, Alone(s), WriteRoles(s) \/ DeleteUser(s)
  PROVE  SuperInv'
<1>1. UNCHANGED left /\ At(s, "write") /\ Continue(s, "invalidate")
  BY DEF WriteRoles, DeleteUser, observed
<1>2. SUFFICES ASSUME ~left, SuperAdminRemains, WritersLeaveOne
               PROVE  SuperAdminRemains' /\ WritersLeaveOne'
  BY <1>1 DEF SuperInv
<1>3. WritersLeaveOne'
  <2>1. req'[s].step = "invalidate"
    BY <1>1 DEF IInv, TypeOK, Continue, Request
  <2>2. \A t \in Requests \ {s} : req'[t].step = "idle"
    BY RequestFrame DEF IInv, RequestStep, Alone, At
  <2> QED
    BY <2>1, <2>2 DEF WritersLeaveOne, At
<1>4. req[s] \in Request /\ req[s].target \in Admins /\ roles \in [Admins -> SUBSET Roles]
  BY <1>1 DEF IInv, TypeOK, RequestsHeld, At
<1>5. PICK b \in Admins : IsSuper(b)
  BY <1>2 DEF SuperAdminRemains
<1>6. CASE DeleteUser(s)
  <2>1. b # req[s].target
    BY <1>1, <1>2, <1>5, <1>6 DEF DeleteUser, WritersLeaveOne
  <2> QED
    BY <1>3, <1>4, <1>5, <1>6, <2>1 DEF DeleteUser, SuperAdminRemains, IsSuper
<1>7. CASE WriteRoles(s)
  <2>1. PICK rs : roles' = [roles EXCEPT ![req[s].target] = rs]
                  /\ (\/ req[s].act = "assign" /\ rs = req[s].roles
                      \/ req[s].act = "remove" /\ rs = roles[req[s].target] \ req[s].roles)
    BY <1>7 DEF WriteRoles, SetRoles
  <2>2. CASE "Super Admin" \in rs
    BY <1>3, <1>4, <2>1, <2>2 DEF SuperAdminRemains, IsSuper
  <2>3. CASE "Super Admin" \notin rs
    <3>1. PICK c \in Admins \ {req[s].target} : IsSuper(c)
      <4>1. CASE IsSuper(req[s].target)
        <5>1. TakesSuperAdmin(req[s].act, req[s].target, req[s].roles)
          BY <1>4, <2>1, <2>3, <4>1 DEF TakesSuperAdmin, IsSuper
        <5> QED
          BY <5>1, <1>1, <1>2 DEF WritersLeaveOne, OtherSuperAdmins
      <4>2. CASE ~IsSuper(req[s].target)
        BY <4>2, <1>5
      <4> QED
        BY <4>1, <4>2
    <3> QED
      BY <1>3, <1>4, <2>1, <3>1 DEF SuperAdminRemains, IsSuper
  <2> QED
    BY <2>2, <2>3
<1> QED
  BY <1>6, <1>7

LEMMA RequestLeavesOne ==
  ASSUME IInv, SuperInv, NEW s \in Requests, Alone(s), RequestStep(s) \/ Abandon(s)
  PROVE  SuperInv'
<1>1. CASE \/ Lookup(s) \/ Store(s) \/ WriteStatus(s) \/ InvalidateUser(s)
           \/ EditPermissions(s) \/ DropKeys(s) \/ Abandon(s)
  <2>1. Respond(s) \/ \E step \in Steps \ {"count", "write"} : Continue(s, step)
    BY <1>1 DEF Lookup, Store, Gate, WriteStatus, InvalidateUser, EditPermissions,
       DropKeys, Abandon, Steps
  <2>2. UNCHANGED <<roles, left>>
    BY <1>1 DEF Lookup, Store, WriteStatus, InvalidateUser, EditPermissions, DropKeys,
       Abandon, observed
  <2> QED
    BY <2>1, <2>2, SuperMoves
<1> QED
  BY <1>1, WayInLeavesOne, ReadLeavesOne, CountLeavesOne, WriteLeavesOne
     DEF RequestStep

-----------------------------------------------------------------------------
(* What is written is permitted, while requests come one at a time and     *)
(* complete.  A request may be let in by a cached entry, so the entries    *)
(* must be what the rows grant, but for those which the request under way  *)
(* is still to drop.                                                       *)

LetInRightly(s) ==
  /\ req[s].step \in {"lookup", "query", "store", "read", "count", "write"} =>
       status[req[s].op] # "deleted"
  /\ At(s, "store") => req[s].perms = Granted(grants, roles[req[s].op])
  /\ req[s].step \in {"read", "count", "write"} =>
       Required(req[s].act) \in Granted(grants, roles[req[s].op])

IsToDrop(s, a) ==
  \/ At(s, "invalidate") /\ req[s].target = a
  \/ At(s, "keys")
  \/ At(s, "drop") /\ a \in req[s].keys

\* Nobody invalidates the entry of a deleted account's own making; nobody
\* uses it either.
CacheTrue ==
  \A a \in Admins : status[a] # "deleted" /\ cache[a] # None =>
    cache[a] = Granted(grants, roles[a]) \/ \E s \in Requests : IsToDrop(s, a)

PermittedInv == (\A s \in Requests : LetInRightly(s)) /\ CacheTrue

\* An idle request has nothing to be right about, and nothing to drop.
LEMMA IdleIsRight ==
  ASSUME NEW s \in Requests, At(s, "idle")
  PROVE  LetInRightly(s) /\ \A a \in Admins : ~IsToDrop(s, a)
BY DEF At, LetInRightly, IsToDrop

\* With one request in flight, it is the one to look at.
LEMMA AloneIsRight ==
  ASSUME TypeOK, NEW s \in Requests, Alone(s), RequestStep(s) \/ Abandon(s),
         LetInRightly(s)', CacheTrue'
  PROVE  PermittedInv'
<1>1. ASSUME NEW t \in Requests, t # s PROVE LetInRightly(t)'
  <2>1. req'[t].step = "idle"
    BY <1>1, RequestFrame DEF Alone, At
  <2> QED
    BY <2>1 DEF LetInRightly, At
<1> QED
  BY <1>1 DEF PermittedInv

\* As long as nothing is to be dropped, the entries are what the rows grant.
LEMMA NothingToDrop ==
  ASSUME NEW s \in Requests, Alone(s), CacheTrue,
         req[s].step \notin {"invalidate", "keys", "drop"}
  PROVE  \A a \in Admins : status[a] # "deleted" /\ cache[a] # None =>
           cache[a] = Granted(grants, roles[a])
BY IdleIsRight DEF Alone, CacheTrue, IsToDrop, At

LEMMA CacheRests ==
  ASSUME NEW s \in Requests, Alone(s), CacheTrue,
         req[s].step \notin {"invalidate", "keys", "drop"},
         UNCHANGED <<status, roles, grants, cache>>
  PROVE  CacheTrue'
BY NothingToDrop DEF CacheTrue

LEMMA ArrivalIsRight ==
  ASSUME IInv, PermittedInv, NEW s \in Requests, Alone(s),
         \/ \E op, target \in Admins, act \in Acts, given \in SUBSET Roles :
              Arrive(s, op, act, target, given)
         \/ \E op \in Admins, role \in Roles, grant \in SUBSET Permissions :
              ArriveToEdit(s, op, role, grant)
  PROVE  PermittedInv'
<1>1. At(s, "idle") /\ UNCHANGED <<status, roles, grants, cache>>
  BY DEF Arrive, ArriveToEdit
<1>2. req'[s].step = "lookup" /\ status[req'[s].op] = "Active"
  <2>1. \A act, op, target, given, grant :
          /\ Arrival(act, op, target, given, grant).step = "lookup"
          /\ Arrival(act, op, target, given, grant).op = op
    BY DEF Arrival
  <2>2. CASE \E op, target \in Admins, act \in Acts, given \in SUBSET Roles :
               Arrive(s, op, act, target, given)
    <3>1. PICK op, target \in Admins, act \in Acts, given \in SUBSET Roles :
            Arrive(s, op, act, target, given)
      BY <2>2
    <3>2. /\ req' = [req EXCEPT ![s] = Arrival(act, op, target, given, {})]
          /\ status[op] = "Active"
      BY <3>1 DEF Arrive
    <3> QED
      BY <2>1, <3>2 DEF IInv, TypeOK
  <2>3. CASE \E op \in Admins, role \in Roles, grant \in SUBSET Permissions :
               ArriveToEdit(s, op, role, grant)
    <3>1. PICK op \in Admins, role \in Roles, grant \in SUBSET Permissions :
            ArriveToEdit(s, op, role, grant)
      BY <2>3
    <3>2. /\ req' = [req EXCEPT ![s] = Arrival("edit", op, op, {role}, grant)]
          /\ status[op] = "Active"
      BY <3>1 DEF ArriveToEdit
    <3> QED
      BY <2>1, <3>2 DEF IInv, TypeOK
  <2> QED
    BY <2>2, <2>3
<1>3. LetInRightly(s)'
  BY <1>1, <1>2 DEF LetInRightly, At
<1>4. CacheTrue'
  BY <1>1, CacheRests DEF PermittedInv, At
<1> QED
  BY <1>3, <1>4, AloneIsRight DEF IInv, RequestStep

\* The steps before the write: the permissions that let a request in are those
\* its operator has, from the cache or from the rows.
LEMMA GateIsRight ==
  ASSUME IInv, NEW s \in Requests, NEW perms, Gate(s, perms),
         status[req[s].op] # "deleted", UNCHANGED <<status, roles, grants>>,
         perms = Granted(grants, roles[req[s].op])
  PROVE  LetInRightly(s)'
<1>1. CASE Respond(s)
  BY <1>1, RespondEffect, IdleTyped DEF IInv, LetInRightly, At
<1>2. CASE /\ Required(req[s].act) \in perms
           /\ Continue(s, "read")
  <2>1. req'[s] = [req[s] EXCEPT !.step = "read"] /\ req[s] \in Request
    BY <1>2 DEF IInv, TypeOK, Continue
  <2>2. req'[s].step = "read" /\ req'[s].op = req[s].op /\ req'[s].act = req[s].act
    BY <2>1 DEF Request
  <2> QED
    BY <1>2, <2>2 DEF LetInRightly, At
<1> QED
  BY <1>1, <1>2 DEF Gate

LEMMA WayInIsRight ==
  ASSUME IInv, PermittedInv, NEW s \in Requests, Alone(s),
         Lookup(s) \/ Query(s) \/ Store(s)
  PROVE  PermittedInv'
<1>1. /\ req[s].step \in {"lookup", "query", "store"}
      /\ UNCHANGED <<status, roles, grants>>
      /\ req[s] \in Request /\ req[s].op \in Admins
  BY DEF Lookup, Query, Store, At, IInv, TypeOK, RequestsHeld
<1>2. status[req[s].op] # "deleted"
  BY <1>1 DEF PermittedInv, LetInRightly
<1>3. CASE Lookup(s)
  <2>1. UNCHANGED cache
    BY <1>3 DEF Lookup
  <2>2. CASE Continue(s, "query")
    <3>1. req'[s].step = "query" /\ req'[s].op = req[s].op
      BY <1>1, <2>2 DEF IInv, TypeOK, Continue, Request
    <3>2. LetInRightly(s)'
      BY <1>1, <1>2, <3>1 DEF LetInRightly, At
    <3> QED
      BY <1>1, <1>3, <2>1, <3>2, CacheRests, AloneIsRight DEF IInv, PermittedInv, RequestStep
  <2>3. CASE cache[req[s].op] # None /\ Gate(s, cache[req[s].op])
    <3>1. cache[req[s].op] = Granted(grants, roles[req[s].op])
      BY <1>1, <1>2, <2>3, NothingToDrop DEF PermittedInv
    <3>2. LetInRightly(s)'
      BY <1>1, <1>2, <2>3, <3>1, GateIsRight
    <3> QED
      BY <1>1, <1>3, <2>1, <3>2, CacheRests, AloneIsRight DEF IInv, PermittedInv, RequestStep
  <2> QED
    BY <1>3, <2>2, <2>3 DEF Lookup
<1>4. CASE Query(s)
  <2>1. UNCHANGED cache
    BY <1>4 DEF Query
  <2>2. /\ req'[s].step = "store" /\ req'[s].op = req[s].op
        /\ req'[s].perms = Granted(grants, roles[req[s].op])
    BY <1>1, <1>4 DEF IInv, TypeOK, Query, Request
  <2>3. LetInRightly(s)'
    BY <1>1, <1>2, <2>2 DEF LetInRightly, At
  <2> QED
    BY <1>1, <1>4, <2>1, <2>3, CacheRests, AloneIsRight DEF IInv, PermittedInv, RequestStep
<1>5. CASE Store(s)
  <2>1. req[s].perms = Granted(grants, roles[req[s].op])
    BY <1>5 DEF Store, PermittedInv, LetInRightly
  <2>2. LetInRightly(s)'
    BY <1>1, <1>2, <1>5, <2>1, GateIsRight DEF Store
  <2>3. CacheTrue'
    <3>1. \A a \in Admins : cache'[a] = cache[a] \/ cache'[a] = Granted(grants, roles[a])
      BY <1>1, <1>5, <2>1 DEF IInv, TypeOK, Store
    <3> QED
      BY <1>1, <3>1, NothingToDrop DEF CacheTrue, PermittedInv
  <2> QED
    BY <1>5, <2>2, <2>3, AloneIsRight DEF IInv, RequestStep
<1> QED
  BY <1>3, <1>4, <1>5

LEMMA GuardIsRight ==
  ASSUME IInv, PermittedInv, NEW s \in Requests, Alone(s),
         Read(s) \/ Count(s) \/ (Refused(s) /\ Abandon(s))
  PROVE  PermittedInv'
<1>1. /\ UNCHANGED <<status, roles, grants, cache>>
      /\ req[s].step \in {"query", "read", "count", "write"}
  BY DEF Read, Count, Refused, Abandon, At
<1>2. CacheTrue'
  BY <1>1, CacheRests DEF PermittedInv
<1>3. CASE Abandon(s)
  <2>1. LetInRightly(s)'
    BY <1>3, RespondEffect, IdleTyped DEF Abandon, IInv, LetInRightly, At
  <2> QED
    BY <1>2, <1>3, <2>1, AloneIsRight DEF IInv
<1>4. CASE Read(s) \/ Count(s)
  <2>1. req[s] \in Request /\ req[s].step \in {"read", "count"}
    BY <1>4 DEF IInv, TypeOK, Read, Count, At
  <2>2. /\ req'[s].step \in {"count", "write"}
        /\ req'[s].op = req[s].op /\ req'[s].act = req[s].act
    BY <1>4, <2>1 DEF IInv, TypeOK, Read, Count, Continue, Request
  <2>3. LetInRightly(s)'
    BY <1>1, <2>1, <2>2 DEF PermittedInv, LetInRightly, At
  <2> QED
    BY <1>2, <1>4, <2>3, AloneIsRight DEF IInv, RequestStep
<1> QED
  BY <1>3, <1>4

\* After a write about one account only its entry may be stale, after an edit
\* any; the request goes on to drop it, or all.
LEMMA WriteIsRight ==
  ASSUME IInv, PermittedInv, NEW s \in Requests, Alone(s),
         WriteRoles(s) \/ WriteStatus(s) \/ DeleteUser(s) \/ EditPermissions(s)
  PROVE  PermittedInv'
<1>1. At(s, "write") /\ UNCHANGED cache /\ req[s] \in Request
  BY DEF WriteRoles, WriteStatus, DeleteUser, EditPermissions, IInv, TypeOK
<1>2. \A a \in Admins : status[a] # "deleted" /\ cache[a] # None =>
        cache[a] = Granted(grants, roles[a])
  BY <1>1, NothingToDrop DEF PermittedInv, At
<1>3. CASE EditPermissions(s)
  <2>1. req'[s].step = "keys"
    BY <1>1, <1>3 DEF IInv, TypeOK, EditPermissions, Continue, Request
  <2>2. LetInRightly(s)' /\ CacheTrue'
    BY <2>1 DEF LetInRightly, CacheTrue, IsToDrop, At
  <2> QED
    BY <1>3, <2>2, AloneIsRight DEF IInv, RequestStep
<1>4. CASE WriteRoles(s) \/ WriteStatus(s) \/ DeleteUser(s)
  <2>1. req'[s].step = "invalidate" /\ req'[s].target = req[s].target
    BY <1>1, <1>4 DEF IInv, TypeOK, WriteRoles, WriteStatus, DeleteUser, Continue, Request
  <2>2. /\ UNCHANGED grants
        /\ \A a \in Admins : a # req[s].target =>
             roles'[a] = roles[a] /\ status'[a] = status[a]
    BY <1>4 DEF IInv, TypeOK, WriteRoles, WriteStatus, DeleteUser, SetRoles
  <2>3. LetInRightly(s)'
    BY <2>1 DEF LetInRightly, At
  <2>4. CacheTrue'
    BY <1>1, <1>2, <2>1, <2>2 DEF CacheTrue, IsToDrop, At
  <2> QED
    BY <1>4, <2>3, <2>4, AloneIsRight DEF IInv, RequestStep
<1> QED
  BY <1>3, <1>4

LEMMA DropIsRight ==
  ASSUME IInv, PermittedInv, NEW s \in Requests, Alone(s),
         InvalidateUser(s) \/ ListKeys(s) \/ DropKeys(s)
  PROVE  PermittedInv'
<1>1. UNCHANGED <<status, roles, grants>> /\ req[s] \in Request
  BY DEF InvalidateUser, ListKeys, DropKeys, IInv, TypeOK
<1>2. CASE ListKeys(s)
  <2>1. /\ req'[s].step = "drop" /\ req'[s].keys = {a \in Admins : cache[a] # None}
        /\ UNCHANGED cache
    BY <1>1, <1>2 DEF IInv, TypeOK, ListKeys, Request
  <2>2. LetInRightly(s)' /\ CacheTrue'
    BY <2>1 DEF LetInRightly, CacheTrue, IsToDrop, At
  <2> QED
    BY <1>2, <2>2, AloneIsRight DEF IInv, RequestStep
<1>3. CASE InvalidateUser(s) \/ DropKeys(s)
  <2>1. LetInRightly(s)'
    BY <1>3, RespondEffect, IdleTyped DEF InvalidateUser, DropKeys, IInv, LetInRightly, At
  <2>2. ASSUME NEW a \in Admins, status[a] # "deleted", cache'[a] # None
        PROVE  cache[a] = Granted(grants, roles[a]) /\ cache'[a] = cache[a]
    <3>1. ~IsToDrop(s, a) /\ cache'[a] = cache[a]
      BY <1>3, <2>2 DEF InvalidateUser, DropKeys, IInv, TypeOK, IsToDrop, At
    <3> QED
      BY <2>2, <3>1, IdleIsRight DEF PermittedInv, CacheTrue, Alone
  <2>3. CacheTrue'
    BY <1>1, <2>2 DEF CacheTrue
  <2> QED
    BY <1>3, <2>1, <2>3, AloneIsRight DEF IInv, RequestStep
<1> QED
  BY <1>2, <1>3

LEMMA RequestIsRight ==
  ASSUME IInv, PermittedInv, NEW s \in Requests, Alone(s),
         RequestStep(s) \/ (Refused(s) /\ Abandon(s))
  PROVE  PermittedInv'
BY ArrivalIsRight, WayInIsRight, GuardIsRight, WriteIsRight, DropIsRight DEF RequestStep

\* Whoever deletes the own account does so while no request is in flight.
LEMMA AccountStepIsRight ==
  ASSUME IInv, PermittedInv, NEW a \in Admins,
         IssueToken(a) \/ TokenExpires(a) \/ EntryExpires(a) \/ (Quiet /\ DeleteOwnAccount(a))
  PROVE  PermittedInv'
<1>1. CASE IssueToken(a) \/ TokenExpires(a) \/ EntryExpires(a)
  <2>1. /\ UNCHANGED <<status, roles, grants, req>>
        /\ \A b \in Admins : cache'[b] \in {cache[b], None}
    BY <1>1 DEF IssueToken, TokenExpires, EntryExpires, observed, IInv, TypeOK
  <2>2. \A s \in Requests : LetInRightly(s)'
    BY <2>1 DEF PermittedInv, LetInRightly, At
  <2>3. CacheTrue'
    BY <2>1 DEF PermittedInv, CacheTrue, IsToDrop, At
  <2> QED
    BY <2>2, <2>3 DEF PermittedInv
<1>2. CASE Quiet /\ DeleteOwnAccount(a)
  <2>1. /\ UNCHANGED <<grants, req, cache>>
        /\ status' = [status EXCEPT ![a] = "deleted"]
        /\ \A b \in Admins \ {a} : roles'[b] = roles[b]
    BY <1>2 DEF DeleteOwnAccount, IInv, TypeOK
  <2>2. \A s \in Requests : LetInRightly(s)'
    BY <1>2, <2>1 DEF Quiet, LetInRightly, At
  <2>3. \A b \in Admins : status[b] # "deleted" /\ cache[b] # None =>
          cache[b] = Granted(grants, roles[b])
    BY <1>2, IdleIsRight DEF Quiet, PermittedInv, CacheTrue
  <2>4. CacheTrue'
    BY <2>1, <2>3 DEF CacheTrue, IInv, TypeOK
  <2> QED
    BY <2>2, <2>4 DEF PermittedInv
<1> QED
  BY <1>1, <1>2

-----------------------------------------------------------------------------
(* The instances of MCRoleAssignment, under their loads.                   *)

\* At most one request is in flight.
OneBusy == \A s, t \in Requests : ~At(s, "idle") /\ ~At(t, "idle") => s = t

\* What holds in the instances.
RolesInv == IInv /\ OneBusy /\ SuperInv /\ (load = "reliable" => PermittedInv)

LEMMA RolesInit == MCInit => RolesInv
<1> SUFFICES ASSUME MCInit PROVE RolesInv
  OBVIOUS
<1>1. Init
  BY DEF MCInit
<1>2. \A s \in Requests : At(s, "idle")
  BY <1>1, IdleTyped DEF Init, At
<1>3. SuperInv
  BY <1>1, <1>2 DEF Init, SuperInv, SuperAdminRemains, IsSuper, WritersLeaveOne, At
<1>4. PermittedInv
  BY <1>1, <1>2, IdleIsRight DEF Init, PermittedInv, CacheTrue
<1> QED
  BY <1>1, <1>2, <1>3, <1>4, InitEstablishes DEF RolesInv, OneBusy

\* Who acts while requests come one at a time acts alone.
LEMMA ActsAlone ==
  ASSUME OneBusy, NEW s \in Acting
  PROVE  s \in Requests /\ Alone(s)
BY DEF Acting, Quiet, OneBusy, Alone

LEMMA RolesNext ==
  ASSUME RolesInv, [MCNext]_<<vars, load>>
  PROVE  RolesInv'
<1>0. IInv /\ TypeOK /\ OneBusy /\ SuperInv
  BY DEF RolesInv, IInv
<1>1. CASE UNCHANGED vars /\ UNCHANGED load
  <2>1. IInv'
    BY <1>0, <1>1, NextPreserves
  <2>2. UNCHANGED <<status, roles, grants, cache, req, left>>
    BY <1>1 DEF vars
  <2>3. SuperInv'
    BY <1>0, <2>2, RolesRest DEF At
  <2>4. load = "reliable" => PermittedInv'
    BY <2>2 DEF RolesInv, PermittedInv, LetInRightly, CacheTrue, IsToDrop, At
  <2> QED
    BY <1>0, <1>1, <2>1, <2>2, <2>3, <2>4 DEF RolesInv, OneBusy, At
<1>2. ASSUME NEW a \in Admins, UNCHANGED load,
             \/ IssueToken(a) \/ TokenExpires(a) \/ EntryExpires(a)
             \/ Quiet /\ DeleteOwnAccount(a)
      PROVE  RolesInv'
  <2>1. AccountStep(a) /\ UNCHANGED req
    BY <1>2 DEF AccountStep, IssueToken, TokenExpires, EntryExpires, DeleteOwnAccount
  <2>2. IInv' /\ SuperInv'
    BY <1>0, <2>1, AccountStepPreserves, AccountStepLeavesOne
  <2> QED
    BY <1>0, <1>2, <2>1, <2>2, AccountStepIsRight DEF RolesInv, OneBusy, At
<1>3. ASSUME NEW s \in Acting, UNCHANGED load,
             RequestStep(s) \/ ((load # "reliable" \/ Refused(s)) /\ Abandon(s))
      PROVE  RolesInv'
  <2>1. s \in Requests /\ Alone(s)
    BY <1>0, <1>3, ActsAlone
  <2>2. IInv' /\ SuperInv'
    BY <1>0, <1>3, <2>1, NextPreserves, RequestLeavesOne DEF Next
  <2>3. OneBusy'
    BY <1>0, <1>3, <2>1, RequestFrame DEF Alone, OneBusy, At
  <2>4. load = "reliable" => PermittedInv'
    BY <1>0, <1>3, <2>1, RequestIsRight DEF RolesInv
  <2> QED
    BY <1>3, <2>2, <2>3, <2>4 DEF RolesInv
<1> QED
  BY <1>1, <1>2, <1>3 DEF MCNext, MCStep

-----------------------------------------------------------------------------
(* Theorems.                                                               *)

\* However requests overlap and fail, every row, entry and request keeps the
\* type the database and Redis give it.
THEOREM TypeCorrect == Spec => []TypeOK
<1>1. IInv => TypeOK
  BY DEF IInv
<1> QED
  BY InitEstablishes, NextPreserves, <1>1, PTL DEF Spec

\* The permission cache, stale as it may be, never answers with a permission
\* the account has not had (getUserPermissions, invalidateUser and every
\* handler that changes roles or what they permit).
THEOREM CacheNeverInvents == Spec => []CachedWasHeld
<1>1. IInv => CachedWasHeld
  BY DEF IInv
<1> QED
  BY InitEstablishes, NextPreserves, <1>1, PTL DEF Spec

\* While requests come one at a time, and may stop anywhere, somebody is Super
\* Admin for as long as nobody deletes the own account (assignRolesToUser,
\* removeAdminRole, updateUserStatus, deleteUser).
THEOREM SuperAdminStays == MCSpec => []SerialSuperAdminRemains
<1>1. RolesInv => SerialSuperAdminRemains
  BY DEF RolesInv, SuperInv, SerialSuperAdminRemains, SuperAdminRemains
<1> QED
  BY RolesInit, RolesNext, <1>1, PTL DEF MCSpec

\* While requests come one at a time and complete, a handler writes only for an
\* operator whose roles permit it as the rows are then, though the cache may
\* have let the operator in (requirePermission, PermissionCacheManager).
THEOREM OnlyThePermittedWrite == MCSpec => ReliableWritesPermitted
<1>1. RolesInv /\ [MCNext]_<<vars, load>> => [load = "reliable" => WritesArePermitted]_vars
  BY DEF RolesInv, PermittedInv, LetInRightly, WritesArePermitted, At
<1> QED
  BY RolesInit, RolesNext, <1>1, PTL DEF MCSpec, ReliableWritesPermitted
=============================================================================
