-------------------------------- MODULE Rbac --------------------------------
(***************************************************************************)
(* Roles, permissions and the permission cache of one user who is not an   *)
(* administrator.  require_permission answers from a Redis entry of the    *)
(* user and fills it from the database when it is missing.  Administrators *)
(* drop the entry after they have given or taken a role; the requests by   *)
(* which users come by a role themselves, and whatever changes what a role *)
(* grants, leave it in place.                                              *)
(***************************************************************************)
EXTENDS Integers, FiniteSets

CONSTANTS SystemRoles, CustomRoles,
          Permissions,
          DefaultGrants,      \* ROLE_PERMISSIONS of the seed
          Checks,             \* requests that run require_permission
          RoleCalls,          \* administrators' requests on the user's roles
          NoEntry

RoleNames == SystemRoles \union CustomRoles

ASSUME RbacAssumption ==
  /\ DefaultGrants \subseteq SystemRoles \X Permissions
  /\ SystemRoles \intersect CustomRoles = {}

VARIABLES roleRows,    \* the rows of roles: "absent", "live" or soft-"deleted"
          permRows,    \* the rows of permissions
          grants,      \* role_permissions
          held,        \* user_roles of the user
          permCache,   \* permissions:{user_id} in Redis
          queried,     \* what a check has read and not cached yet
          toDrop,      \* role changes committed, the entry not dropped yet
          outrun       \* the entry may be older than a change nobody drops it for

rbacVars == <<roleRows, permRows, grants, held, permCache, queried, toDrop, outrun>>

\* The join of the lookup; it does not look at roles.is_deleted.
Effective == { p \in Permissions : \E r \in held : <<r, p>> \in grants }

RbacInit ==
  /\ roleRows = [r \in RoleNames |-> IF r \in SystemRoles THEN "live" ELSE "absent"]
  /\ permRows = Permissions
  /\ grants = DefaultGrants /\ held = {}
  /\ permCache = NoEntry
  /\ queried = [k \in Checks |-> NoEntry]
  /\ toDrop = {} /\ outrun = FALSE

InFlight == \E k \in Checks : queried[k] # NoEntry
Cached   == permCache # NoEntry

-----------------------------------------------------------------------------
(* _has_permission_cached *)

\* A miss, or a Redis that does not answer: the set is read from the database.
QueryPermissions(k) ==
  /\ queried[k] = NoEntry
  /\ queried' = [queried EXCEPT ![k] = Effective]
  /\ UNCHANGED <<roleRows, permRows, grants, held, permCache, toDrop, outrun>>

\* SETEX, or its failure, which is only logged.
CachePermissions(k) ==
  /\ queried[k] # NoEntry
  /\ permCache' \in {queried[k], permCache}
  /\ queried' = [queried EXCEPT ![k] = NoEntry]
  /\ UNCHANGED <<roleRows, permRows, grants, held, toDrop, outrun>>

\* _PERM_CACHE_TTL_SECONDS pass, or Redis is restarted.
EntryExpires ==
  /\ Cached
  /\ permCache' = NoEntry
  /\ outrun' = (outrun /\ InFlight)
  /\ UNCHANGED <<roleRows, permRows, grants, held, queried, toDrop>>

-----------------------------------------------------------------------------
(* The administrators' routes *)

AssignRole(a, r) ==
  /\ a \notin toDrop /\ roleRows[r] = "live"
  /\ held' = held \union {r}
  /\ toDrop' = toDrop \union {a}
  /\ outrun' = (outrun \/ InFlight)
  /\ UNCHANGED <<roleRows, permRows, grants, permCache, queried>>

\* Variant: the entry is left to its time to live.
RevokeRoleOnly(a, r) ==
  /\ a \notin toDrop /\ r \in held
  /\ held' = held \ {r}
  /\ outrun' = (outrun \/ InFlight)
  /\ UNCHANGED <<roleRows, permRows, grants, permCache, queried, toDrop>>

RevokeRole(a, r) ==
  /\ a \notin toDrop /\ r \in held
  /\ held' = held \ {r}
  /\ toDrop' = toDrop \union {a}
  /\ outrun' = (outrun \/ InFlight)
  /\ UNCHANGED <<roleRows, permRows, grants, permCache, queried>>

\* invalidate_permission_cache, after the commit.
DropEntry(a) ==
  /\ a \in toDrop
  /\ toDrop' = toDrop \ {a}
  /\ permCache' = NoEntry
  /\ outrun' = (outrun /\ InFlight)
  /\ UNCHANGED <<roleRows, permRows, grants, held, queried>>

\* The user becomes a client, detailer or mechanic by a request of their own
\* (complete-profile, activate, create_profile): the entry stays as it is.
ClaimRole(r) ==
  /\ r \in SystemRoles \ held
  /\ held' = held \union {r}
  /\ outrun' = (outrun \/ Cached \/ InFlight)
  /\ UNCHANGED <<roleRows, permRows, grants, permCache, queried, toDrop>>

\* The process stops before it, or Redis fails: a warning in the log.
DropIsLost(a) ==
  /\ a \in toDrop
  /\ toDrop' = toDrop \ {a}
  /\ outrun' = TRUE
  /\ UNCHANGED <<roleRows, permRows, grants, held, permCache, queried>>

\* The name of a deleted role stays taken in the table.
CreateRole(r) ==
  /\ roleRows[r] = "absent"
  /\ roleRows' = [roleRows EXCEPT ![r] = "live"]
  /\ UNCHANGED <<permRows, grants, held, permCache, queried, toDrop, outrun>>

\* A soft delete: members and grants stay.
DeleteRole(r) ==
  /\ r \notin SystemRoles /\ roleRows[r] = "live"
  /\ roleRows' = [roleRows EXCEPT ![r] = "deleted"]
  /\ UNCHANGED <<permRows, grants, held, permCache, queried, toDrop, outrun>>

\* None of the routes that change grants drops an entry.
ChangeGrants(new) ==
  /\ grants' = new
  /\ outrun' = (outrun \/ Cached \/ InFlight)
  /\ UNCHANGED <<roleRows, held, permCache, queried, toDrop>>

\* The permission is looked up, the role is not.
GrantPermission(r, p) ==
  /\ roleRows[r] # "absent" /\ p \in permRows
  /\ ChangeGrants(grants \union {<<r, p>>})
  /\ UNCHANGED permRows

RevokePermission(r, p) ==
  /\ <<r, p>> \in grants
  /\ ChangeGrants(grants \ {<<r, p>>})
  /\ UNCHANGED permRows

CreatePermission(p) ==
  /\ permRows' = permRows \union {p}
  /\ UNCHANGED <<roleRows, grants, held, permCache, queried, toDrop, outrun>>

DeletePermission(p) ==
  /\ p \in permRows
  /\ permRows' = permRows \ {p}
  /\ ChangeGrants(grants \ (RoleNames \X {p}))

\* Every start of the process puts the default permissions and grants back,
\* those an administrator had taken away included.
SeedRbac ==
  /\ permRows' = permRows \union { g[2] : g \in DefaultGrants }
  /\ ChangeGrants(grants \union DefaultGrants)

-----------------------------------------------------------------------------

RbacNext ==
  \/ EntryExpires \/ SeedRbac
  \/ \E k \in Checks : QueryPermissions(k) \/ CachePermissions(k)
  \/ \E a \in RoleCalls :
       \/ DropEntry(a) \/ DropIsLost(a)
       \/ \E r \in RoleNames : AssignRole(a, r) \/ RevokeRole(a, r)
  \/ \E r \in RoleNames : CreateRole(r) \/ DeleteRole(r) \/ ClaimRole(r)
  \/ \E p \in Permissions :
       \/ CreatePermission(p) \/ DeletePermission(p)
       \/ \E r \in RoleNames : GrantPermission(r, p) \/ RevokePermission(r, p)

RbacSpec == RbacInit /\ [][RbacNext]_rbacVars

-----------------------------------------------------------------------------
(* Properties *)

\* The cached set is the one the database gives once the administrators' calls
\* have ended, unless the user took on a role, a role's grants changed, a drop was
\* lost, or a lookup was under way at a change, since the entry was last missing
\* with no lookup running.
CacheHonest == Cached /\ toDrop = {} /\ ~ outrun => permCache = Effective

\* What makes it so: unless outrun, a lookup that is under way has read what the
\* database says now, also while the drop of an entry is still to come.
RbacInv ==
  /\ DOMAIN queried = Checks
  /\ ~ outrun => \A k \in Checks : queried[k] \in {NoEntry, Effective}
  /\ ~ outrun /\ toDrop = {} => permCache \in {NoEntry, Effective}

=============================================================================
