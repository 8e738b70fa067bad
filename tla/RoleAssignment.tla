--------------------------- MODULE RoleAssignment ---------------------------
(***************************************************************************)
(* The administrators' roles: who holds them (assignRolesToUser,           *)
(* removeAdminRole, updateUserStatus, deleteUser, deleteOwnAccount), what  *)
(* the roles permit (assignPermissionsToRole), and how a request about     *)
(* either is let in: by the roles in the operator's access token, by the   *)
(* operator's status, and by the operator's permissions, which             *)
(* PermissionCacheManager keeps in Redis.                                  *)
(*                                                                         *)
(* Every database or Redis call is a step of its own.  The accounts exist  *)
(* from the start (createAdmin and invitations make them); of the roles    *)
(* and permissions, those that these handlers ask for are kept.            *)
(***************************************************************************)
EXTENDS Naturals, FiniteSets

CONSTANTS
  Admins,    \* accounts
  Requests,  \* requests in flight at once
  None,      \* no entry
  MayFail    \* whether a step may fail: a handler stops, Redis gives an error

ASSUME RoleAssumption == None \notin Admins /\ MayFail \in BOOLEAN

VARIABLES
  status,  \* User.status, Suspended standing for whatever is not Active
  roles,   \* UserRole rows of each account
  grants,  \* RolePermission rows of each role
  claim,   \* what the account's access token says of its roles
  cache,   \* the Redis entry of each account's permissions
  req,     \* what each request in flight has still to do
  (* Observed, read by no handler. *)
  held,    \* permissions each account has ever had
  left     \* somebody deleted the own account

vars == <<status, roles, grants, claim, cache, req, held, left>>

Roles == {"Super Admin", "Admin"}
Permissions == {"manage:users", "manage:admins", "manage:roles"}
Tiers == {"none", "Admin", "Super Admin"}
Statuses == {"Active", "Suspended", "deleted"}

Acts == {"check", "assign", "remove", "suspend", "activate", "delete", "edit"}
Steps == {"idle", "lookup", "query", "store", "read", "count", "write",
          "invalidate", "keys", "drop"}

Request == [step   : Steps,
            act    : Acts,
            op     : Admins \cup {None},   \* whose request it is
            target : Admins \cup {None},
            super  : BOOLEAN,              \* the token names Super Admin
            roles  : SUBSET Roles,         \* the roles given, or the one taken or edited
            grant  : SUBSET Permissions,   \* what an edited role is to permit
            perms  : SUBSET Permissions,   \* the operator's, as read
            keys   : SUBSET Admins]        \* the accounts with an entry, as read

Idle == [step |-> "idle", act |-> "check", op |-> None, target |-> None,
         super |-> FALSE, roles |-> {}, grant |-> {}, perms |-> {}, keys |-> {}]

At(s, step) == req[s].step = step

Continue(s, step) == req' = [req EXCEPT ![s].step = step]

Respond(s) == req' = [req EXCEPT ![s] = Idle]

\* All that a route can tell about the roles in a token.
Tier(rs) ==
  IF "Super Admin" \in rs THEN "Super Admin" ELSE IF rs # {} THEN "Admin" ELSE "none"

Seed == [r \in Roles |-> IF r = "Super Admin" THEN Permissions ELSE {"manage:users"}]

\* What a set of roles permits.
Granted(gs, rs) == UNION {gs[r] : r \in rs}

IsSuper(a) == "Super Admin" \in roles[a]

\* Mutated form: the count includes the account itself.
EverySuperAdmin(a) == {b \in Admins : IsSuper(b)}

\* The accounts other than a which the guards count.
OtherSuperAdmins(a) == {b \in Admins \ {a} : IsSuper(b)}
OtherActiveSuperAdmins(a) == {b \in OtherSuperAdmins(a) : status[b] = "Active"}

observed == <<held, left>>

-----------------------------------------------------------------------------
(* Access tokens.                                                          *)

\* Login or refresh signs the roles of the moment into the token.
IssueToken(a) ==
  /\ status[a] = "Active"
  /\ claim' = [claim EXCEPT ![a] = Tier(roles[a])]
  /\ UNCHANGED <<status, roles, grants, cache, req, observed>>

TokenExpires(a) ==
  /\ claim[a] # "none"
  /\ claim' = [claim EXCEPT ![a] = "none"]
  /\ UNCHANGED <<status, roles, grants, cache, req, observed>>

-----------------------------------------------------------------------------
(* The way in: requireActiveUser, requireRole, requireSuperAdmin and       *)
(* requirePermission.                                                      *)

\* The permission and the token role each route asks for.
Required(act) ==
  IF act = "remove" THEN "manage:admins"
  ELSE IF act = "edit" THEN "manage:roles" ELSE "manage:users"

AsksForSuperAdmin == {"assign", "remove"}

\* What is known of a request that has just come.
Arrival(act, op, target, given, grant) ==
  [step |-> "lookup", act |-> act, op |-> op, target |-> target,
   super |-> claim[op] = "Super Admin", roles |-> given, grant |-> grant,
   perms |-> {}, keys |-> {}]

Arrive(s, op, act, target, given) ==
  /\ At(s, "idle")
  /\ status[op] = "Active"
  /\ claim[op] # "none"
  /\ act # "edit"
  /\ act \in AsksForSuperAdmin => claim[op] = "Super Admin"
  /\ act = "remove" => Cardinality(given) = 1
  /\ act \notin AsksForSuperAdmin => given = {}
  /\ act = "check" => target = op
  /\ act = "delete" => target # op
  /\ req' = [req EXCEPT ![s] = Arrival(act, op, target, given, {})]
  /\ UNCHANGED <<status, roles, grants, claim, cache, observed>>

\* The route to a role's permissions asks for no role in the token; any will do.
ArriveToEdit(s, op, role, grant) ==
  /\ At(s, "idle")
  /\ status[op] = "Active"
  /\ req' = [req EXCEPT ![s] = Arrival("edit", op, op, {role}, grant)]
  /\ UNCHANGED <<status, roles, grants, claim, cache, observed>>

\* With its permissions known, the request is let in or refused.
Gate(s, perms) ==
  IF Required(req[s].act) \in perms /\ req[s].act # "check"
  THEN Continue(s, "read")
  ELSE Respond(s)

\* An error of Redis is taken for a miss.
Lookup(s) ==
  /\ At(s, "lookup")
  /\ \/ /\ cache[req[s].op] = None \/ MayFail
        /\ Continue(s, "query")
     \/ /\ cache[req[s].op] # None
        /\ Gate(s, cache[req[s].op])
  /\ UNCHANGED <<status, roles, grants, claim, cache, observed>>

Query(s) ==
  /\ At(s, "query")
  /\ status[req[s].op] # "deleted"
  /\ req' = [req EXCEPT ![s].step = "store",
                        ![s].perms = Granted(grants, roles[req[s].op])]
  /\ UNCHANGED <<status, roles, grants, claim, cache, observed>>

Store(s) ==
  /\ At(s, "store")
  /\ \/ cache' = [cache EXCEPT ![req[s].op] = req[s].perms]
     \/ MayFail /\ UNCHANGED cache
  /\ Gate(s, req[s].perms)
  /\ UNCHANGED <<status, roles, grants, claim, observed>>

-----------------------------------------------------------------------------
(* The handlers.                                                           *)

\* The target is read, and the guards on what was read decide; a change that
\* takes Super Admin from the target first counts who else has it.
Allowed(act, target, given, super) ==
  /\ act # "edit" => status[target] # "deleted"
  /\ CASE act = "assign" -> IsSuper(target) = ("Super Admin" \in given) \/ super
       [] act = "remove" -> given \subseteq roles[target] /\ Cardinality(roles[target]) > 1
       [] act = "delete" -> ~IsSuper(target) /\ (roles[target] = {} \/ super)
       [] act = "edit"   -> TRUE
       [] OTHER -> roles[target] = {} \/ super

TakesSuperAdmin(act, target, given) ==
  /\ IsSuper(target)
  /\ \/ act = "assign" /\ "Super Admin" \notin given
     \/ act = "remove" /\ "Super Admin" \in given
     \/ act = "suspend"

Read(s) ==
  /\ At(s, "read")
  /\ LET r == req[s] IN
       /\ Allowed(r.act, r.target, r.roles, r.super)
       /\ Continue(s, IF TakesSuperAdmin(r.act, r.target, r.roles)
                      THEN "count" ELSE "write")
  /\ UNCHANGED <<status, roles, grants, claim, cache, observed>>

\* Only updateUserStatus asks that the others be active.
Others(act, target) ==
  IF act = "suspend" THEN OtherActiveSuperAdmins(target) ELSE OtherSuperAdmins(target)

Count(s) ==
  /\ At(s, "count")
  /\ Others(req[s].act, req[s].target) # {}
  /\ Continue(s, "write")
  /\ UNCHANGED <<status, roles, grants, claim, cache, observed>>

SetRoles(a, rs) ==
  /\ roles' = [roles EXCEPT ![a] = rs]
  /\ held' = [held EXCEPT ![a] = @ \cup Granted(grants, rs)]

\* Mutated form: a handler that writes roles leaves the cache alone.
WriteRolesOnly(s) ==
  /\ At(s, "write")
  /\ LET a == req[s].target IN
       \/ req[s].act = "assign" /\ status[a] # "deleted" /\ SetRoles(a, req[s].roles)
       \/ req[s].act = "remove" /\ SetRoles(a, roles[a] \ req[s].roles)
  /\ Respond(s)
  /\ UNCHANGED <<status, grants, claim, cache, left>>

\* assignRolesToUser replaces the rows in a transaction, removeAdminRole
\* deletes one.
WriteRoles(s) ==
  /\ At(s, "write")
  /\ LET a == req[s].target IN
       \/ /\ req[s].act = "assign"
          /\ status[a] # "deleted"
          /\ SetRoles(a, req[s].roles)
       \/ /\ req[s].act = "remove"
          /\ SetRoles(a, roles[a] \ req[s].roles)
  /\ Continue(s, "invalidate")
  /\ UNCHANGED <<status, grants, claim, cache, left>>

\* updateUserStatus; the tokens it deletes are AuthSessions' matter.
WriteStatus(s) ==
  /\ At(s, "write")
  /\ req[s].act \in {"suspend", "activate"}
  /\ status[req[s].target] # "deleted"
  /\ status' = [status EXCEPT ![req[s].target] =
                  IF req[s].act = "suspend" THEN "Suspended" ELSE "Active"]
  /\ Continue(s, "invalidate")
  /\ UNCHANGED <<roles, grants, claim, cache, observed>>

\* The account's rows in UserRole go with it.
DeleteUser(s) ==
  /\ At(s, "write")
  /\ req[s].act = "delete"
  /\ status[req[s].target] # "deleted"
  /\ status' = [status EXCEPT ![req[s].target] = "deleted"]
  /\ roles' = [roles EXCEPT ![req[s].target] = {}]
  /\ Continue(s, "invalidate")
  /\ UNCHANGED <<grants, claim, cache, observed>>

InvalidateUser(s) ==
  /\ At(s, "invalidate")
  /\ cache' = [cache EXCEPT ![req[s].target] = None]
  /\ Respond(s)
  /\ UNCHANGED <<status, roles, grants, claim, observed>>

\* assignPermissionsToRole replaces the rows in a transaction.  Nothing asks
\* whether somebody can still edit roles afterwards.
EditPermissions(s) ==
  /\ At(s, "write")
  /\ req[s].act = "edit"
  /\ grants' = [r \in Roles |-> IF r \in req[s].roles THEN req[s].grant ELSE grants[r]]
  /\ held' = [a \in Admins |-> held[a] \cup Granted(grants', roles[a])]
  /\ Continue(s, "keys")
  /\ UNCHANGED <<status, roles, claim, cache, left>>

\* invalidateAll: the entries there are, and then their deletion.
ListKeys(s) ==
  /\ At(s, "keys")
  /\ req' = [req EXCEPT ![s].step = "drop", ![s].keys = {a \in Admins : cache[a] # None}]
  /\ UNCHANGED <<status, roles, grants, claim, cache, observed>>

DropKeys(s) ==
  /\ At(s, "drop")
  /\ cache' = [a \in Admins |-> IF a \in req[s].keys THEN None ELSE cache[a]]
  /\ Respond(s)
  /\ UNCHANGED <<status, roles, grants, claim, observed>>

\* Nothing asks whether the account is the last Super Admin's.
DeleteOwnAccount(a) ==
  /\ claim[a] # "none"
  /\ status[a] # "deleted"
  /\ status' = [status EXCEPT ![a] = "deleted"]
  /\ roles' = [roles EXCEPT ![a] = {}]
  /\ left' = TRUE
  /\ UNCHANGED <<grants, claim, cache, req, held>>

\* The entry's 24 hours are over.
EntryExpires(a) ==
  /\ cache[a] # None
  /\ cache' = [cache EXCEPT ![a] = None]
  /\ UNCHANGED <<status, roles, grants, claim, req, observed>>

\* A guard fails, or the row to be written is gone.
Refused(s) ==
  LET r == req[s] IN
  \/ At(s, "query") /\ status[r.op] = "deleted"
  \/ At(s, "read") /\ ~Allowed(r.act, r.target, r.roles, r.super)
  \/ At(s, "count") /\ Others(r.act, r.target) = {}
  \/ At(s, "write") /\ r.act \notin {"remove", "edit"} /\ status[r.target] = "deleted"

Abandon(s) ==
  /\ ~At(s, "idle")
  /\ MayFail \/ Refused(s)
  /\ Respond(s)
  /\ UNCHANGED <<status, roles, grants, claim, cache, observed>>

-----------------------------------------------------------------------------
\* Any distribution of the roles that createAdmin and invitations lead to; the
\* seed's Super Admin is active.
Init ==
  /\ status = [a \in Admins |-> "Active"]
  /\ roles \in [Admins -> SUBSET Roles]
  /\ \E a \in Admins : "Super Admin" \in roles[a]
  /\ grants = Seed
  /\ claim = [a \in Admins |-> "none"]
  /\ cache = [a \in Admins |-> None]
  /\ req = [s \in Requests |-> Idle]
  /\ held = [a \in Admins |-> Granted(grants, roles[a])]
  /\ left = FALSE

AccountStep(a) ==
  \/ IssueToken(a)
  \/ TokenExpires(a)
  \/ DeleteOwnAccount(a)
  \/ EntryExpires(a)

RequestStep(s) ==
  \/ \E op, target \in Admins, act \in Acts, given \in SUBSET Roles :
       Arrive(s, op, act, target, given)
  \/ \E op \in Admins, role \in Roles, grant \in SUBSET Permissions :
       ArriveToEdit(s, op, role, grant)
  \/ Lookup(s)
  \/ Query(s)
  \/ Store(s)
  \/ Read(s)
  \/ Count(s)
  \/ WriteRoles(s)
  \/ WriteStatus(s)
  \/ DeleteUser(s)
  \/ InvalidateUser(s)
  \/ EditPermissions(s)
  \/ ListKeys(s)
  \/ DropKeys(s)

Next ==
  \/ \E a \in Admins : AccountStep(a)
  \/ \E s \in Requests : RequestStep(s) \/ Abandon(s)

Spec == Init /\ [][Next]_vars

-----------------------------------------------------------------------------
(* Properties.                                                             *)

\* Rows, entries and requests have their types.
TypeOK ==
  /\ status \in [Admins -> Statuses]
  /\ roles \in [Admins -> SUBSET Roles]
  /\ grants \in [Roles -> SUBSET Permissions]
  /\ claim \in [Admins -> Tiers]
  /\ cache \in [Admins -> (SUBSET Permissions) \cup {None}]
  /\ req \in [Requests -> Request]
  /\ held \in [Admins -> SUBSET Permissions]
  /\ left \in BOOLEAN

\* A cached entry may be stale, but it never gives an account a permission
\* which that account never had.
CachedWasHeld == \A a \in Admins : cache[a] # None => cache[a] \subseteq held[a]

\* Somebody is Super Admin ("block a change that would leave zero Super
\* Admins platform-wide"), as long as nobody deletes the own account.
SuperAdminRemains == left \/ \E a \in Admins : IsSuper(a)

\* What is written is written for an operator who has the permission, as
\* the rows are when it is written.
WritesArePermitted ==
  \A s \in Requests :
    At(s, "write") /\ (roles' # roles \/ status' # status \/ grants' # grants)
      => Required(req[s].act) \in Granted(grants, roles[req[s].op])
=============================================================================
