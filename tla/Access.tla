-------------------------------- MODULE Access --------------------------------
(***************************************************************************)
(* Who may administer what: tenants, the tenant-admin role that every      *)
(* start of a server hands to the flagged administrators                   *)
(* (server/services/rbac.service.ts), the admission of an administrator    *)
(* (server/middleware/auth.ts), and the groups that a provisioning client  *)
(* keeps over SCIM (server/routes/scim.ts).                                *)
(*                                                                         *)
(* No operation here is a transaction: each writes row after row, the      *)
(* database runs every other request between two of them, and the process  *)
(* may stop there.                                                         *)
(***************************************************************************)
EXTENDS FiniteSets, Naturals

CONSTANTS
    Op,            \* the requests and server starts under way
    User, Tenant, Group,
    DefaultTenant, \* the tenant that cannot be deleted
    NoTenant,      \* the user row does not exist yet
    Unknown,       \* nobody can tell what a group should hold
    AccessCases    \* the operations a behaviour mixes, as sets of kinds

ASSUME TenantAssumption == DefaultTenant \in Tenant /\ NoTenant \notin Tenant

VARIABLES
    accessCase,    \* the kinds of operation of this behaviour
    tenants,       \* the tenants' rows that exist
    role,          \* a tenant's tenant-admin role: "none", "bare" (no permission yet), "wired"
    persons,       \* the users' rows: tenant, is_admin
    granted,       \* user_roles: pairs of a user and the tenant of the role
    group,         \* the groups' rows and, in user_groups, their members
    op,            \* what an operation does and the rows it has yet to write
    settled,       \* a group's members after the last request that ran alone
    astray         \* users last written into a tenant that is being or was deleted

accessVars == <<accessCase, tenants, role, persons, granted, group, op, settled, astray>>

Idle == [kind |-> "idle"]
Changes(g) == {c \in Op : op[c].kind \in {"replace", "add", "drop", "delete"} /\ op[c].group = g}

AccessTypeOK ==
    /\ accessCase \in AccessCases
    /\ tenants \in SUBSET Tenant /\ DefaultTenant \in tenants
    /\ role \in [Tenant -> {"none", "bare", "wired"}]
    /\ \A t \in Tenant : role[t] # "none" => t \in tenants
    /\ persons \in [User -> [tenant : Tenant \cup {NoTenant}, admin : BOOLEAN]]
    /\ granted \in SUBSET (User \X Tenant)
    /\ group \in [Group -> [live : BOOLEAN, members : SUBSET User]]
    /\ settled \in [Group -> (SUBSET User) \cup {Unknown}]
    /\ astray \in SUBSET User
    /\ \A c \in Op : op[c].kind \in {"idle", "boot", "create", "remove",
                                     "replace", "add", "drop", "delete"}

\* A database where a server has never started on the tenants other than the
\* default one, and a group that already has a member.
AccessInit ==
    /\ accessCase \in AccessCases
    /\ tenants = Tenant
    /\ role = [t \in Tenant |-> "none"]
    /\ persons \in {u \in [User -> [tenant : Tenant \cup {NoTenant}, admin : BOOLEAN]] :
                    /\ \E v \in User : u[v] = [tenant |-> DefaultTenant, admin |-> TRUE]
                    /\ \A v \in User : u[v].tenant = NoTenant => ~u[v].admin
                    /\ "group" \in accessCase => \A v \in User : u[v].admin \/ u[v].tenant = NoTenant}
    /\ granted = {}
    /\ group \in [Group -> [live : {TRUE}, members : {{}}]]
    /\ op = [c \in Op |-> Idle]
    /\ settled = [g \in Group |-> {}]
    /\ astray = {}

Start(c, kind, what) ==
    /\ op[c] = Idle
    /\ kind \in accessCase
    /\ op' = [op EXCEPT ![c] = what]

Finish(c) == op' = [op EXCEPT ![c] = Idle]

--------------------------------------------------------------------------------
(* Admission                                                                 *)

\* isUserAdmin: the flag of the row answers for every tenant; without it the
\* user's roles of the tenant, and those of its groups, must give admin:*.  No
\* code gives a role to a group, so only the user's own roles can.
Admits(u, t) == persons[u].admin \/ (<<u, t>> \in granted /\ role[t] = "wired")

\* tenantContext: a request names a tenant whose row exists.
Named(t) == t \in tenants

--------------------------------------------------------------------------------
(* A start of a server: migrateLegacyAdminsToRoles                           *)

BeginBoot(c) ==
    /\ Start(c, "boot", [kind |-> "boot", step |-> "roles", todo |-> tenants,
                         ready |-> {}, queue |-> {}, alone |-> TRUE])
    /\ UNCHANGED <<accessCase, tenants, role, persons, granted, group, settled, astray>>

\* ensureTenantAdminRole: a role that is there is taken as it is; a new one is
\* inserted, which fails when the tenant was deleted meanwhile, and then given
\* admin:*, which may fail.  A tenant for which one of these fails is skipped.
EnsureRole(c, t) ==
    /\ op[c].kind = "boot" /\ op[c].step = "roles" /\ t \in op[c].todo
    /\ LET left == [op[c] EXCEPT !.todo = @ \ {t}]
       IN  \/ /\ role[t] # "none"
              /\ op' = [op EXCEPT ![c] = [left EXCEPT !.ready = @ \cup {t}]]
              /\ UNCHANGED role
           \/ /\ role[t] = "none" /\ t \in tenants
              /\ role' = [role EXCEPT ![t] = "bare"]
              /\ op' = [op EXCEPT ![c] = [left EXCEPT !.step = "wire", !.queue = {t}]]
           \/ /\ t \notin tenants
              /\ op' = [op EXCEPT ![c] = left]
              /\ UNCHANGED role
    /\ UNCHANGED <<accessCase, tenants, persons, granted, group, settled, astray>>

WireRole(c) ==
    /\ op[c].kind = "boot" /\ op[c].step = "wire"
    /\ \E t \in op[c].queue :
          \/ /\ role' = [role EXCEPT ![t] = IF @ = "none" THEN @ ELSE "wired"]
             /\ op' = [op EXCEPT ![c].step = "roles", ![c].queue = {}, ![c].ready = @ \cup {t}]
          \/ /\ op' = [op EXCEPT ![c].step = "roles", ![c].queue = {}]
             /\ UNCHANGED role
    /\ UNCHANGED <<accessCase, tenants, persons, granted, group, settled, astray>>

\* The rows with is_admin, each with the tenant it has now.
ReadAdmins(c) ==
    /\ op[c].kind = "boot" /\ op[c].step = "roles" /\ op[c].todo = {}
    /\ op' = [op EXCEPT ![c].step = "grants",
                        ![c].queue = {<<u, persons[u].tenant>> : u \in {v \in User : persons[v].admin}}]
    /\ UNCHANGED <<accessCase, tenants, role, persons, granted, group, settled, astray>>

\* One assignment at a time, to administrators of a tenant whose role is known.
\* One that fails is skipped, and the start comes up without it.
AssignRole(c, u, t) ==
    /\ op[c].kind = "boot" /\ op[c].step = "grants" /\ <<u, t>> \in op[c].queue
    /\ LET due == t \in op[c].ready /\ role[t] # "none"
           left == [op[c] EXCEPT !.queue = @ \ {<<u, t>>}]
       IN  \/ /\ granted' = granted \cup (IF due THEN {<<u, t>>} ELSE {})
              /\ op' = [op EXCEPT ![c] = left]
           \/ /\ due /\ <<u, t>> \notin granted
              /\ op' = [op EXCEPT ![c] = [left EXCEPT !.alone = FALSE]]
              /\ UNCHANGED granted
    /\ UNCHANGED <<accessCase, tenants, role, persons, group, settled, astray>>

EndBoot(c) ==
    /\ op[c].kind = "boot" /\ op[c].step = "grants" /\ op[c].queue = {}
    /\ op' = [op EXCEPT ![c].step = "up"]
    /\ UNCHANGED <<accessCase, tenants, role, persons, granted, group, settled, astray>>

\* An administrator made, moved or demoted while a server starts may be missed.
Disturb(o) == [c \in Op |-> IF o[c].kind = "boot" THEN [o[c] EXCEPT !.alone = FALSE] ELSE o[c]]

--------------------------------------------------------------------------------
(* Tenants and users                                                         *)

Leaving(t) == t \notin tenants \/ \E c \in Op : op[c].kind = "remove" /\ op[c].tenant = t
Astray(u, t) == IF Leaving(t) THEN astray \cup {u} ELSE astray \ {u}

\* PUT /users/:userId: is_admin and, when a platform administrator sends it,
\* tenant_id, which nothing compares with the tenants.  An administrator of the
\* user's tenant sets the flag alone.  The roles the user holds stay as they are.
UpdateUser(c, u, flag, t) ==
    /\ op[c] = Idle /\ persons[u].tenant # NoTenant
    /\ flag # persons[u].admin => "admin" \in accessCase
    /\ t # persons[u].tenant => "move" \in accessCase
    /\ t = persons[u].tenant => \E by \in User : Named(t) /\ Admits(by, t)
    /\ persons' = [persons EXCEPT ![u] = [tenant |-> t, admin |-> flag]]
    /\ astray' = Astray(u, t)
    /\ op' = Disturb(op)
    /\ UNCHANGED <<accessCase, tenants, role, granted, group, settled>>

\* A user is created, the row written later than the request arrived: by
\* registration or a SCIM client, in a tenant that was found then and without
\* the flag; by an administrator with or without it; by a platform administrator
\* in a tenant that nobody looked for.
BeginCreate(c, u, t, flag) ==
    /\ persons[u].tenant = NoTenant
    /\ Start(c, "create", [kind |-> "create", user |-> u, tenant |-> t, admin |-> flag])
    /\ UNCHANGED <<accessCase, tenants, role, persons, granted, group, settled, astray>>

\* users.tenant_id references nothing: the row is accepted for a tenant that is gone.
InsertUser(c) ==
    /\ op[c].kind = "create"
    /\ LET u == op[c].user
           t == op[c].tenant
       IN  \/ /\ persons[u].tenant = NoTenant
              /\ persons' = [persons EXCEPT ![u] = [tenant |-> t, admin |-> op[c].admin]]
              /\ astray' = Astray(u, t)
              /\ op' = [(IF op[c].admin THEN Disturb(op) ELSE op) EXCEPT ![c] = Idle]
           \/ /\ persons[u].tenant # NoTenant
              /\ Finish(c)
              /\ UNCHANGED <<persons, astray>>
    /\ UNCHANGED <<accessCase, tenants, role, granted, group, settled>>

\* DELETE /tenants/:tenantId first sends the users to the default tenant ...
EmptyTenant(c, t) ==
    /\ t \in tenants \ {DefaultTenant}
    /\ op[c] = Idle /\ "remove" \in accessCase
    /\ persons' = [u \in User |-> IF persons[u].tenant = t THEN [persons[u] EXCEPT !.tenant = DefaultTenant]
                                                     ELSE persons[u]]
    /\ astray' = {u \in astray : persons[u].tenant # t}
    /\ op' = [Disturb(op) EXCEPT ![c] = [kind |-> "remove", tenant |-> t]]
    /\ UNCHANGED <<accessCase, tenants, role, granted, group, settled>>

\* ... and then deletes the row, which a role of the tenant forbids: the request
\* fails, and the users have moved all the same.  (The groups modelled here are
\* the default tenant's.)
DropTenant(c) ==
    /\ op[c].kind = "remove"
    /\ tenants' = IF role[op[c].tenant] = "none" THEN tenants \ {op[c].tenant} ELSE tenants
    /\ op' = [Disturb(op) EXCEPT ![c] = Idle]
    /\ UNCHANGED <<accessCase, role, persons, granted, group, settled, astray>>

--------------------------------------------------------------------------------
(* SCIM groups.  A request looks the group up, then changes one row at a     *)
(* time; an answer that no other request overlapped says what the group has. *)

Alone(c, g) == Changes(g) \subseteq {c} /\ settled[g] # Unknown

\* PUT replaces the members, PATCH adds or removes some, DELETE removes all.
BeginGroupChange(c, g, kind, who) ==
    /\ group[g].live
    /\ Start(c, "group", [kind |-> kind, group |-> g, todo |-> who, want |-> who,
                          cleared |-> kind \in {"add", "drop"}])
    /\ settled' = [settled EXCEPT ![g] = IF Changes(g) = {} THEN @ ELSE Unknown]
    /\ UNCHANGED <<accessCase, tenants, role, persons, granted, group, astray>>

\* For a mutant: PUT only adds the members it names.
ClearOnDelete(c) ==
    /\ op[c].kind \in {"replace", "delete"} /\ ~op[c].cleared
    /\ group' = IF op[c].kind = "delete" THEN [group EXCEPT ![op[c].group].members = {}] ELSE group
    /\ op' = [op EXCEPT ![c].cleared = TRUE]
    /\ UNCHANGED <<accessCase, tenants, role, persons, granted, settled, astray>>

Clear(c) ==
    /\ op[c].kind \in {"replace", "delete"} /\ ~op[c].cleared
    /\ group' = [group EXCEPT ![op[c].group].members = {}]
    /\ op' = [op EXCEPT ![c].cleared = TRUE]
    /\ UNCHANGED <<accessCase, tenants, role, persons, granted, settled, astray>>

\* An insert with onConflictDoNothing; the foreign keys refuse a user or a
\* group that is not there, and the request ends where it was.
PutMember(c, u) ==
    /\ op[c].kind \in {"replace", "add"} /\ op[c].cleared /\ u \in op[c].todo
    /\ LET g == op[c].group
           fits == group[g].live /\ persons[u].tenant # NoTenant
       IN  \/ /\ fits
              /\ group' = [group EXCEPT ![g].members = @ \cup {u}]
              /\ op' = [op EXCEPT ![c].todo = @ \ {u}]
              /\ UNCHANGED settled
           \/ /\ ~fits
              /\ Finish(c)
              /\ settled' = [settled EXCEPT ![g] = Unknown]
              /\ UNCHANGED group
    /\ UNCHANGED <<accessCase, tenants, role, persons, granted, astray>>

TakeMember(c, u) ==
    /\ op[c].kind = "drop" /\ u \in op[c].todo
    /\ group' = [group EXCEPT ![op[c].group].members = @ \ {u}]
    /\ op' = [op EXCEPT ![c].todo = @ \ {u}]
    /\ UNCHANGED <<accessCase, tenants, role, persons, granted, settled, astray>>

\* What the request asked of the members a group had.
Asked(o, before) ==
    CASE o.kind = "add"  -> before \cup o.want
      [] o.kind = "drop" -> before \ o.want
      [] OTHER           -> o.want

\* The answer; DELETE removes the row last, which a member added meanwhile forbids.
EndGroupChange(c) ==
    /\ op[c].kind \in {"replace", "add", "drop", "delete"} /\ op[c].cleared
    /\ op[c].kind # "delete" => op[c].todo = {}
    /\ LET g == op[c].group
       IN  /\ group' = [group EXCEPT ![g].live = @ /\ ~(op[c].kind = "delete" /\ group[g].members = {})]
           /\ settled' = [settled EXCEPT ![g] = IF Alone(c, g) THEN Asked(op[c], @) ELSE Unknown]
    /\ Finish(c)
    /\ UNCHANGED <<accessCase, tenants, role, persons, granted, astray>>

\* POST /Groups: the row, then its members as PATCH adds them.
CreateGroup(c, g, who) ==
    /\ ~group[g].live
    /\ Start(c, "group", [kind |-> "add", group |-> g, todo |-> who, want |-> who, cleared |-> TRUE])
    /\ group' = [group EXCEPT ![g].live = TRUE]
    /\ settled' = [settled EXCEPT ![g] = IF Changes(g) = {} THEN {} ELSE Unknown]
    /\ UNCHANGED <<accessCase, tenants, role, persons, granted, astray>>

\* The process stops between two rows.
Stop(c) ==
    /\ op[c] # Idle
    /\ IF op[c].kind \in {"replace", "add", "drop", "delete"}
       THEN settled' = [settled EXCEPT ![op[c].group] = Unknown]
       ELSE UNCHANGED settled
    /\ Finish(c)
    /\ UNCHANGED <<accessCase, tenants, role, persons, granted, group, astray>>

AccessNext == \E c \in Op :
    \/ BeginBoot(c) \/ WireRole(c) \/ ReadAdmins(c) \/ EndBoot(c)
    \/ \E t \in Tenant : EnsureRole(c, t) \/ EmptyTenant(c, t)
    \/ \E u \in User, t \in Tenant : AssignRole(c, u, t)
    \/ \E u \in User, t \in Tenant, flag \in BOOLEAN :
          UpdateUser(c, u, flag, t) \/ BeginCreate(c, u, t, flag)
    \/ InsertUser(c) \/ DropTenant(c)
    \/ \E g \in Group, who \in SUBSET User :
          \/ \E kind \in {"replace", "add", "drop"} : BeginGroupChange(c, g, kind, who)
          \/ CreateGroup(c, g, who)
    \/ \E g \in Group : BeginGroupChange(c, g, "delete", {})
    \/ Clear(c) \/ EndGroupChange(c) \/ Stop(c)
    \/ \E u \in User : PutMember(c, u) \/ TakeMember(c, u)

AccessSpec == AccessInit /\ [][AccessNext]_accessVars

--------------------------------------------------------------------------------
(* Properties                                                                *)

\* A tenant that is gone took no user with it: each was sent to the default
\* tenant before, except one whose row was last written for that tenant while
\* the deletion was under way or later, by a creation that had found the tenant
\* or by a platform administrator, whose tenant_id nobody checks
\* (server/routes/admin/tenants.ts: two statements, no transaction).
NobodyLeftBehind ==
    \A u \in User \ astray : persons[u].tenant = NoTenant \/ persons[u].tenant \in tenants

\* When a server is up, every flagged administrator it could see holds the
\* role of its tenant, whatever other servers start or stop at the same time,
\* unless an assignment failed, which the start passes over, or somebody changed
\* the administrators meanwhile (server/services/rbac.service.ts: "idempotently").
StartGrants ==
    \A c \in Op : op[c].kind = "boot" /\ op[c].step = "up" /\ op[c].alone =>
        \A u \in User : persons[u].admin /\ persons[u].tenant \in op[c].ready =>
            <<u, persons[u].tenant>> \in granted

\* A group at rest has the members of the last request that ran alone, row by
\* row though it ran (server/routes/scim.ts: "replaces ... the full member set").
GroupsAsAsked ==
    \A g \in Group : Changes(g) = {} /\ settled[g] # Unknown => group[g].members = settled[g]

AccessHolds == NobodyLeftBehind /\ StartGrants /\ GroupsAsAsked
================================================================================
