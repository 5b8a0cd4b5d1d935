-------------------------------- MODULE Roles --------------------------------
(***************************************************************************)
(* internal/rbac/rbac.go: roles, the roles they are granted to, their      *)
(* privileges and the users that have them.  Every operation holds         *)
(* Engine.mu from beginning to end.  Nothing keeps the hierarchy acyclic   *)
(* and DropRole has to find every place that names the role.               *)
(*                                                                         *)
(* One object: privileges on two objects never meet.                       *)
(***************************************************************************)
EXTENDS Integers, FiniteSets

CONSTANTS
    RoleNames,
    DefaultRoles,   \* the roles of Engine.Init
    Hierarchy,      \* pairs <<child, parent>> that Engine.Init grants
    Users,
    Privileges,     \* privileges on the object
    PrivAll,        \* the one that stands for all of them
    MaxParents,     \* bound on the edges of the hierarchy
    MaxGrants       \* bound on the grants

ASSUME RolesAssumption ==
    /\ DefaultRoles \subseteq RoleNames /\ PrivAll \in Privileges
    /\ Hierarchy \subseteq DefaultRoles \X DefaultRoles
    /\ {MaxParents, MaxGrants} \subseteq Nat

VARIABLES
    roles,       \* the roles that exist
    parentRoles, \* pairs <<role, parent>>: Role.ParentRoles
    grants,      \* pairs <<role, privilege>>: Role.Grants
    userRoles    \* pairs <<user, role>>

roleVars == <<roles, parentRoles, grants, userRoles>>

RolesInit ==
    /\ roles = DefaultRoles /\ parentRoles = Hierarchy
    /\ grants = {} /\ userRoles = {}

CreateRole(r) ==
    /\ r \notin roles
    /\ roles' = roles \cup {r}
    /\ UNCHANGED <<parentRoles, grants, userRoles>>

(* Faulty variant: the role is left in the mapping of the users. *)
DropRoleKeepingUsers(r) ==
    /\ r \in roles
    /\ roles' = roles \ {r}
    /\ parentRoles' = {e \in parentRoles : r \notin {e[1], e[2]}}
    /\ grants' = {g \in grants : g[1] # r}
    /\ UNCHANGED userRoles

(* The role goes with its own parents and grants; it is taken out of the    *)
(* parents of the others and of the mapping of the users.                   *)
DropRole(r) ==
    /\ r \in roles
    /\ roles' = roles \ {r}
    /\ parentRoles' = {e \in parentRoles : r \notin {e[1], e[2]}}
    /\ grants' = {g \in grants : g[1] # r}
    /\ userRoles' = {u \in userRoles : u[2] # r}

GrantPrivilege(r, p) ==
    /\ r \in roles /\ Cardinality(grants) < MaxGrants
    /\ grants' = grants \cup {<<r, p>>}
    /\ UNCHANGED <<roles, parentRoles, userRoles>>

RevokePrivilege(r, p) ==
    /\ r \in roles /\ <<r, p>> \in grants
    /\ grants' = grants \ {<<r, p>>}
    /\ UNCHANGED <<roles, parentRoles, userRoles>>

GrantRoleToUser(r, u) ==
    /\ r \in roles
    /\ userRoles' = userRoles \cup {<<u, r>>}
    /\ UNCHANGED <<roles, parentRoles, grants>>

(* Cycles, of length one too, are accepted. *)
GrantRoleToRole(child, parent) ==
    /\ {child, parent} \subseteq roles /\ Cardinality(parentRoles) < MaxParents
    /\ parentRoles' = parentRoles \cup {<<child, parent>>}
    /\ UNCHANGED <<roles, grants, userRoles>>

ResetRoles ==
    /\ roles' = DefaultRoles /\ parentRoles' = Hierarchy
    /\ grants' = {} /\ userRoles' = {}

RolesNext ==
    \/ \E r \in RoleNames : CreateRole(r) \/ DropRole(r)
    \/ \E r \in RoleNames, p \in Privileges : GrantPrivilege(r, p) \/ RevokePrivilege(r, p)
    \/ \E r \in RoleNames, u \in Users : GrantRoleToUser(r, u)
    \/ \E child, parent \in RoleNames : GrantRoleToRole(child, parent)
    \/ ResetRoles

RolesSpec == RolesInit /\ [][RolesNext]_roleVars

----------------------------------------------------------------------------
(* No hierarchy edge, grant or user names a role that does not exist: a     *)
(* role created again under an old name (rbac.go:94) starts with nothing,   *)
(* whatever the one before it had.                                          *)
NoDangling ==
    /\ roles \subseteq RoleNames
    /\ parentRoles \subseteq roles \X roles
    /\ grants \subseteq roles \X Privileges
    /\ userRoles \subseteq Users \X roles
=============================================================================
