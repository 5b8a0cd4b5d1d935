----------------------------- MODULE RoleSearch -----------------------------
(***************************************************************************)
(* CheckAccess of internal/rbac/rbac.go, under the read lock of Engine.mu: *)
(* one depth-first search up the role hierarchy for each role of the user, *)
(* then one down it for the privilege.  Each search shares a set of        *)
(* visited roles between all its branches.  The stack holds, for each call *)
(* under way, the roles its loop has yet to try; slices and maps are       *)
(* traversed in some order.  A call with nothing left to try is not kept.  *)
(***************************************************************************)
EXTENDS Roles, Sequences

VARIABLES
    searchAt,   \* where the check is: "idle", "user", "up", "down" or "done"
    asked,      \* the user, role and privilege asked for
    heldRoles,  \* the roles of the user not tried yet
    frames,     \* the stack of the search
    visited,    \* the visited set of the search
    access      \* the result

searchVars == <<searchAt, asked, heldRoles, frames, visited, access>>

Questions  == [user : Users, role : RoleNames, priv : Privileges]
NoQuestion == [user |-> "nobody"]

Parents(r)  == {e[2] : e \in {d \in parentRoles : d[1] = r}}
Children(r) == {e[1] : e \in {d \in parentRoles : d[2] = r}}

HasGrant(r, p) == {<<r, p>>, <<r, PrivAll>>} \cap grants # {}

SearchInit ==
    /\ searchAt = "idle" /\ asked = NoQuestion /\ heldRoles = {}
    /\ frames = <<>> /\ visited = {} /\ access = FALSE

CheckAccess(q) ==
    /\ searchAt = "idle"
    /\ searchAt' = "user" /\ asked' = q
    /\ heldRoles' = {r \in RoleNames : <<q.user, r>> \in userRoles}
    /\ UNCHANGED <<frames, visited, access>>

Answer(result) ==
    /\ searchAt' = "done" /\ access' = result
    /\ heldRoles' = {} /\ frames' = <<>> /\ visited' = {}
    /\ UNCHANGED asked

(* CheckAccess returns and gives the lock back. *)
ReturnAccess ==
    /\ searchAt = "done"
    /\ searchAt' = "idle" /\ asked' = NoQuestion /\ access' = FALSE
    /\ UNCHANGED <<heldRoles, frames, visited>>

----------------------------------------------------------------------------
(* The first call of a search. *)
SearchFrom(at, r) ==
    /\ searchAt' = at
    /\ frames' = <<{r}>> /\ visited' = {}
    /\ UNCHANGED <<asked, access>>

Top  == frames[Len(frames)]
Rest == SubSeq(frames, 1, Len(frames) - 1)

(* The stack when the call for role r goes on to the roles `next`. *)
Calling(r, next) ==
    LET left == IF Top = {r} THEN Rest ELSE Append(Rest, Top \ {r})
    IN  IF next = {} THEN left ELSE Append(left, next)

(* Faulty variant: only the roles given to the user count, not the ones     *)
(* above them.                                                              *)
TryUserRoleDirectly(r) ==
    /\ searchAt = "user" /\ r \in heldRoles
    /\ heldRoles' = heldRoles \ {r}
    /\ IF r = asked.role THEN SearchFrom("down", r)
       ELSE UNCHANGED <<searchAt, asked, frames, visited, access>>

(* userHasRoleLocked: a search of its own for each role of the user. *)
TryUserRole(r) ==
    /\ searchAt = "user" /\ r \in heldRoles
    /\ heldRoles' = heldRoles \ {r}
    /\ SearchFrom("up", r)

NoUserRole == searchAt = "user" /\ heldRoles = {} /\ Answer(FALSE)

(* roleInheritsLocked finds the role asked for: userHasRoleLocked returns   *)
(* true and roleHasPrivilegeLocked begins.                                  *)
Inherited(r) ==
    /\ searchAt = "up" /\ r \in Top /\ r = asked.role
    /\ heldRoles' = {}
    /\ SearchFrom("down", r)

(* Faulty variant: the role is not marked as visited. *)
InheritsUnmarked(r) ==
    /\ searchAt = "up" /\ r \in Top /\ r # asked.role
    /\ frames' = Calling(r, IF r \in roles \ visited THEN Parents(r) ELSE {})
    /\ searchAt' = IF frames' = <<>> THEN "user" ELSE "up"
    /\ UNCHANGED <<asked, heldRoles, visited, access>>

(* It goes on to the parents of a role not visited before; with nothing     *)
(* left to try, the next role of the user is tried.                         *)
Inherits(r) ==
    /\ searchAt = "up" /\ r \in Top /\ r # asked.role
    /\ visited' = visited \cup {r}
    /\ frames' = Calling(r, IF r \in roles \ visited THEN Parents(r) ELSE {})
    /\ searchAt' = IF frames' = <<>> THEN "user" ELSE "up"
    /\ UNCHANGED <<asked, heldRoles, access>>

(* roleHasPrivilegeLocked: a grant by name or of all. *)
PrivilegeHeld(r) ==
    /\ searchAt = "down" /\ r \in Top
    /\ r \in roles \ visited /\ HasGrant(r, asked.priv)
    /\ Answer(TRUE)

(* Or on to the children of a role not visited before. *)
PrivilegeBelow(r) ==
    /\ searchAt = "down" /\ r \in Top
    /\ ~(r \in roles \ visited /\ HasGrant(r, asked.priv))
    /\ LET left == Calling(r, IF r \in roles \ visited THEN Children(r) ELSE {})
       IN  IF left = <<>> THEN Answer(FALSE)
           ELSE /\ frames' = left /\ visited' = visited \cup {r}
                /\ UNCHANGED <<searchAt, asked, heldRoles, access>>

SearchWork ==
    \/ \E r \in RoleNames :
          \/ TryUserRole(r) \/ Inherited(r) \/ Inherits(r)
          \/ PrivilegeHeld(r) \/ PrivilegeBelow(r)
    \/ NoUserRole \/ ReturnAccess

SearchNext == SearchWork \/ \E q \in Questions : CheckAccess(q)

(* Roles change only while no check holds the lock. *)
AccessNext ==
    \/ searchAt = "idle" /\ RolesNext /\ UNCHANGED searchVars
    \/ SearchNext /\ UNCHANGED roleVars

AccessSpec == RolesInit /\ SearchInit /\ [][AccessNext]_<<roleVars, searchVars>>

----------------------------------------------------------------------------
SearchTypeOK ==
    /\ searchAt \in {"idle", "user", "up", "down", "done"}
    /\ IF searchAt = "idle" THEN asked = NoQuestion ELSE asked \in Questions
    /\ heldRoles \subseteq RoleNames /\ visited \subseteq RoleNames
    /\ frames \in Seq((SUBSET RoleNames) \ {{}})
    /\ searchAt \in {"up", "down"} <=> frames # <<>>
    /\ access \in BOOLEAN

(* The roles at or above q: those in every set that has q and the parents   *)
(* of its members.                                                          *)
Above(q) ==
    {r \in RoleNames :
        \A S \in SUBSET RoleNames :
            q \in S /\ (\A e \in parentRoles : e[1] \in S => e[2] \in S) => r \in S}

(* A user has a privilege under a role exactly if one of the user's roles   *)
(* is that role or below it, and that role or one below it was granted the  *)
(* privilege: whatever cycles the hierarchy has and in whatever order the   *)
(* roles are visited, no search is cut off by what another branch visited   *)
(* (rbac.go:286, :307).                                                     *)
AccessIsReachability ==
    searchAt = "done" =>
        (access <=>
            /\ \E mine \in roles : <<asked.user, mine>> \in userRoles /\ asked.role \in Above(mine)
            /\ \E q \in roles : asked.role \in Above(q) /\ HasGrant(q, asked.priv))
=============================================================================
