-------------------------- MODULE StatementsProofs --------------------------
(***************************************************************************)
(* What Catalog, Roles, RoleSearch, Pipes and Transactions promise, for    *)
(* every number of sessions, schemas, tables, roles, users, pipes, calls,  *)
(* files, connections and rows, and every hierarchy of roles.              *)
(*                                                                         *)
(* The catalog's argument is about one table that no two statements        *)
(* changed at a time: at most one session is between its two steps on it,  *)
(* and what DuckDB, the catalog and the lists of known gaps and ghosts say *)
(* about it depends on which step that is (TableOK).  The pipes' argument is that a *)
(* call at work belongs to the present pipe or is a stray (CallsInv).  The *)
(* access check's is that what a search has visited and has yet to try     *)
(* lies on the right side of where it began, and that what follows a       *)
(* visited role is visited or yet to be tried: at its end the visited set  *)
(* is closed, and closed sets bound what is reachable (SearchInv).  The    *)
(* transactions' is that a session in a transaction nobody else touched    *)
(* finds it on the connection the pool hands out next (TxAlone).           *)
(***************************************************************************)
EXTENDS Statements, RoleSearch, TLAPS, FiniteSetTheorems, SequenceTheorems

TableOK(k) ==
    /\ \A s, t \in DdlSessions : k \in work[s].on /\ k \in work[t].on => s = t
    /\ \A s \in DdlSessions : k \in work[s].on =>
          /\ work[s].op # "attach"
          /\ work[s].op = "register" => k \in engTables
          /\ work[s].op \in {"unregister", "unregSchema"} =>
                (k \in engTables => k \in unlisted)
    /\ (\A s \in DdlSessions : k \in work[s].on => work[s].op = "regSchema") =>
          /\ k \in catTables => k \in engTables \cup ghosts
          /\ k \in engTables => k \in catTables \cup unlisted

(* The inductive invariant. *)
CatalogInv == CatalogTypeOK /\ \A k \in Keys : k \notin mixed => TableOK(k)

LEMMA BusyElement ==
    ASSUME NEW k
    PROVE  k \in Busy <=> \E s \in DdlSessions : k \in work[s].on
  BY DEF Busy

LEMMA KeyPairs ==
    ASSUME NEW n \in Schemas
    PROVE  /\ KeysOf(n) \subseteq Keys
           /\ \A k \in Keys : k \in KeysOf(n) <=> k[1] = n
<1>1. KeysOf(n) \subseteq Keys
  BY DEF KeysOf, Keys
<1>2. ASSUME NEW k \in Keys PROVE k \in KeysOf(n) <=> k[1] = n
  <2>1. PICK m \in Schemas, t \in Tables : k = <<m, t>>
    BY DEF Keys
  <2> QED BY <2>1 DEF KeysOf
<1> QED BY <1>1, <1>2

LEMMA BeginEffect ==
    ASSUME CatalogTypeOK, NEW s \in DdlSessions, NEW op \in Steps, NEW on \in SUBSET Keys,
           Begin(s, op, on)
    PROVE  /\ work' \in [DdlSessions -> [op : Steps \cup {"none"}, on : SUBSET Keys]]
           /\ work'[s].op = op /\ work'[s].on = on
           /\ \A t \in DdlSessions \ {s} : work'[t] = work[t]
           /\ mixed \subseteq mixed' /\ mixed' \subseteq Keys
           /\ \A k \in on : k \notin mixed' => \A t \in DdlSessions : k \notin work[t].on
  BY BusyElement DEF CatalogTypeOK, Begin, Touch

(* What a statement of one step does to the sessions at work on a table.    *)
LEMMA TouchEffect ==
    ASSUME CatalogTypeOK, NEW on \in SUBSET Keys, Touch(on)
    PROVE  /\ mixed \subseteq mixed' /\ mixed' \subseteq Keys
           /\ \A k \in on : k \notin mixed' => \A t \in DdlSessions : k \notin work[t].on
  BY BusyElement DEF CatalogTypeOK, Touch

LEMMA FinishEffect ==
    ASSUME CatalogTypeOK, NEW s \in DdlSessions, Finish(s)
    PROVE  /\ work' \in [DdlSessions -> [op : Steps \cup {"none"}, on : SUBSET Keys]]
           /\ work'[s].on = {}
           /\ \A t \in DdlSessions \ {s} : work'[t] = work[t]
  BY DEF CatalogTypeOK, Finish, None

LEMMA CatalogInitInv == CatalogInit => CatalogInv
<1> SUFFICES ASSUME CatalogInit PROVE CatalogInv
  OBVIOUS
<1>1. CatalogTypeOK
  BY DEF CatalogInit, CatalogTypeOK, None, NoTx
<1>2. ASSUME NEW k \in Keys PROVE TableOK(k)
  BY DEF CatalogInit, TableOK, None
<1> QED BY <1>1, <1>2 DEF CatalogInv

LEMMA CatalogTypeStep == CatalogTypeOK /\ [CatalogNext]_catalogVars => CatalogTypeOK'
<1> SUFFICES ASSUME CatalogTypeOK, [CatalogNext]_catalogVars PROVE CatalogTypeOK'
  OBVIOUS
<1> USE DEF engVars, catVars
<1>1. ASSUME NEW s \in DdlSessions, CreateDatabase(s) PROVE CatalogTypeOK'
  BY <1>1, BeginEffect, CatalogAssumption DEF CatalogTypeOK, CreateDatabase, Steps
<1>2. ASSUME NEW s \in DdlSessions, DropDatabase(s) PROVE CatalogTypeOK'
  BY <1>2 DEF CatalogTypeOK, DropDatabase, Keys
<1>4. ASSUME NEW s \in DdlSessions, NEW ok \in BOOLEAN, Attach(s, ok) PROVE CatalogTypeOK'
  BY <1>4, FinishEffect DEF CatalogTypeOK, Attach
<1>5. ASSUME NEW s \in DdlSessions, NEW n \in Schemas, SchemaNext(s, n) PROVE CatalogTypeOK'
  <2>1. ASSUME NEW i \in BOOLEAN, NEW ok \in BOOLEAN, CreateSchema(s, n, i, ok)
        PROVE  CatalogTypeOK'
    BY <2>1, BeginEffect, KeyPairs DEF CatalogTypeOK, CreateSchema, Steps
  <2>2. ASSUME NEW cascade \in BOOLEAN, DropSchema(s, n, cascade) PROVE CatalogTypeOK'
    <3>1. Begin(s, "unregSchema", KeysOf(n)) /\ KeysOf(n) \subseteq Keys
      BY <2>2, KeyPairs DEF DropSchema
    <3>2. engTables' \subseteq engSchemas' \X Tables
      BY <2>2 DEF CatalogTypeOK, DropSchema, KeysOf
    <3> QED
      BY <2>2, <3>1, <3>2, BeginEffect DEF CatalogTypeOK, DropSchema, Steps
  <2>3. CASE RegSchema(s, n)
    BY <2>3, FinishEffect DEF CatalogTypeOK, RegSchema
  <2>4. CASE UnregSchema(s, n)
    BY <2>4, FinishEffect DEF CatalogTypeOK, UnregSchema, KeysOf
  <2> QED BY <1>5, <2>1, <2>2, <2>3, <2>4 DEF SchemaNext
<1>6. ASSUME NEW s \in DdlSessions, NEW k \in Keys, TableNext(s, k) PROVE CatalogTypeOK'
  <2>1. ASSUME NEW i \in BOOLEAN, CreateTable(s, k, i) PROVE CatalogTypeOK'
    BY <2>1, BeginEffect DEF CatalogTypeOK, CreateTable, Steps, Keys
  <2>2. ASSUME NEW i \in BOOLEAN, NEW ok \in BOOLEAN, DropTable(s, k, i, ok)
        PROVE  CatalogTypeOK'
    BY <2>2, BeginEffect DEF CatalogTypeOK, DropTable, Steps
  <2>3. ASSUME NEW src \in Keys, CloneTable(s, k, src) PROVE CatalogTypeOK'
    BY <2>3, TouchEffect DEF CatalogTypeOK, CloneTable, Unregistered, Keys
  <2>4. CASE Register(s, k)
    BY <2>4, FinishEffect DEF CatalogTypeOK, Register, Keys
  <2>5. CASE Unregister(s, k)
    BY <2>5, FinishEffect DEF CatalogTypeOK, Unregister
  <2>6. ASSUME NEW i \in BOOLEAN, CreateTableMisread(s, k, i) PROVE CatalogTypeOK'
    BY <2>6, TouchEffect DEF CatalogTypeOK, CreateTableMisread, Unregistered, Keys
  <2>7. CASE UndropTable(s, k)
    BY <2>7, TouchEffect DEF CatalogTypeOK, UndropTable, Unregistered, Keys
  <2>8. ASSUME NEW j \in Keys, RenameTable(s, k, j) PROVE CatalogTypeOK'
    <3>1. engTables' \subseteq engSchemas' \X Tables
      BY <2>8 DEF CatalogTypeOK, RenameTable, Unregistered, Keys
    <3>2. Touch({k, j}) /\ {k, j} \in SUBSET Keys
      BY <2>8 DEF RenameTable
    <3> QED
      BY <2>8, <3>1, <3>2, TouchEffect DEF CatalogTypeOK, RenameTable, Unregistered
  <2> QED BY <1>6, <2>1, <2>2, <2>3, <2>4, <2>5, <2>6, <2>7, <2>8 DEF TableNext
<1>7. ASSUME NEW k \in Keys, Around(k) PROVE CatalogTypeOK'
  BY <1>7 DEF CatalogTypeOK, Around, Keys
<1>8. CASE ResetCatalog
  BY <1>8 DEF CatalogTypeOK, ResetCatalog, NoTx
<1>9. CASE UNCHANGED catalogVars
  BY <1>9 DEF CatalogTypeOK, catalogVars
<1>10. CASE BeginTx
  BY <1>10 DEF CatalogTypeOK, BeginTx, Keys
<1>11. CASE CommitTx
  BY <1>11 DEF CatalogTypeOK, CommitTx, NoTx
<1>12. CASE RollbackTx
  <2> DEFINE made    == engTables \ saved.tables
             dropped == saved.tables \ engTables
  <2>1. Touch(made \cup dropped) /\ made \cup dropped \in SUBSET Keys
    BY <1>12 DEF CatalogTypeOK, RollbackTx, Keys
  <2>2. unlisted' \subseteq Keys /\ ghosts' \subseteq Keys
    BY <1>12 DEF CatalogTypeOK, RollbackTx, Keys
  <2> QED
    BY <1>12, <2>1, <2>2, TouchEffect DEF CatalogTypeOK, RollbackTx, NoTx
<1> QED
  BY <1>1, <1>2, <1>4, <1>5, <1>6, <1>7, <1>8, <1>9, <1>10, <1>11, <1>12 DEF CatalogNext

(* What a statement's first step does to the sessions at work on a table    *)
(* that is not among the mixed ones afterwards.                             *)
LEMMA BeginTable ==
    ASSUME CatalogInv, NEW k \in Keys, k \notin mixed',
           NEW s \in DdlSessions, work[s] = None,
           NEW op \in Steps, NEW on \in SUBSET Keys, Begin(s, op, on)
    PROVE  /\ TableOK(k)
           /\ \A t \in DdlSessions : t # s => work'[t] = work[t]
           /\ work'[s].op = op /\ work'[s].on = on /\ work[s].on = {}
           /\ k \in on => \A t \in DdlSessions : k \notin work[t].on
<1>1. CatalogTypeOK
  BY DEF CatalogInv
<1>2. /\ work'[s].op = op /\ work'[s].on = on
      /\ \A t \in DdlSessions \ {s} : work'[t] = work[t]
      /\ mixed \subseteq mixed'
      /\ \A l \in on : l \notin mixed' => \A t \in DdlSessions : l \notin work[t].on
  BY <1>1, BeginEffect
<1>3. TableOK(k)
  BY <1>2 DEF CatalogInv
<1> QED BY <1>2, <1>3 DEF None

LEMMA CatalogTableStep ==
    ASSUME CatalogInv, [CatalogNext]_catalogVars, NEW k \in Keys, k \notin mixed'
    PROVE  TableOK(k)'
<1> USE DEF engVars, catVars
<1>0. CatalogTypeOK /\ (k \notin mixed => TableOK(k))
  BY DEF CatalogInv
<1>1. ASSUME NEW s \in DdlSessions, CreateDatabase(s) PROVE TableOK(k)'
  <2>1. Begin(s, "attach", {}) /\ work[s] = None
    BY <1>1 DEF CreateDatabase
  <2> QED BY <1>1, <2>1, BeginTable DEF TableOK, CreateDatabase, Steps
<1>2. ASSUME NEW s \in DdlSessions, DropDatabase(s) PROVE TableOK(k)'
  BY <1>0, <1>2 DEF TableOK, DropDatabase
<1>4. ASSUME NEW s \in DdlSessions, NEW ok \in BOOLEAN, Attach(s, ok) PROVE TableOK(k)'
  BY <1>0, <1>4, FinishEffect DEF TableOK, Attach
<1>5. ASSUME NEW s \in DdlSessions, NEW n \in Schemas, SchemaNext(s, n) PROVE TableOK(k)'
  <2>0. KeysOf(n) \subseteq Keys
    BY KeyPairs
  <2>1. ASSUME NEW i \in BOOLEAN, NEW ok \in BOOLEAN, CreateSchema(s, n, i, ok)
        PROVE  TableOK(k)'
    <3>1. Begin(s, "regSchema", KeysOf(n)) /\ work[s] = None
      BY <2>1 DEF CreateSchema
    <3> QED BY <2>1, <3>1, <2>0, BeginTable DEF TableOK, CreateSchema, Steps
  <2>2. ASSUME NEW cascade \in BOOLEAN, DropSchema(s, n, cascade) PROVE TableOK(k)'
    <3>1. Begin(s, "unregSchema", KeysOf(n)) /\ work[s] = None
      BY <2>2 DEF DropSchema
    <3> QED BY <2>2, <3>1, <2>0, BeginTable DEF TableOK, DropSchema, Steps
  <2>3. CASE RegSchema(s, n)
    BY <1>0, <2>3, FinishEffect DEF TableOK, RegSchema
  <2>4. CASE UnregSchema(s, n)
    BY <1>0, <2>4, FinishEffect DEF TableOK, UnregSchema
  <2> QED BY <1>5, <2>1, <2>2, <2>3, <2>4 DEF SchemaNext
<1>6. ASSUME NEW s \in DdlSessions, NEW l \in Keys, TableNext(s, l) PROVE TableOK(k)'
  <2>1. ASSUME NEW i \in BOOLEAN, CreateTable(s, l, i) PROVE TableOK(k)'
    <3>1. Begin(s, "register", {l}) /\ work[s] = None
      BY <2>1 DEF CreateTable
    <3> QED BY <2>1, <3>1, BeginTable DEF TableOK, CreateTable, Steps
  <2>2. ASSUME NEW i \in BOOLEAN, NEW ok \in BOOLEAN, DropTable(s, l, i, ok)
        PROVE  TableOK(k)'
    <3>1. Begin(s, "unregister", {l}) /\ work[s] = None
      BY <2>2 DEF DropTable
    <3> QED BY <2>2, <3>1, BeginTable DEF TableOK, DropTable, Steps
  <2>3. ASSUME NEW src \in Keys, CloneTable(s, l, src) PROVE TableOK(k)'
    BY <1>0, <2>3, TouchEffect DEF TableOK, CloneTable, Unregistered
  <2>4. CASE Register(s, l)
    BY <1>0, <2>4, FinishEffect DEF TableOK, Register
  <2>5. CASE Unregister(s, l)
    BY <1>0, <2>5, FinishEffect DEF TableOK, Unregister
  <2>6. ASSUME NEW i \in BOOLEAN, CreateTableMisread(s, l, i) PROVE TableOK(k)'
    BY <1>0, <2>6, TouchEffect DEF TableOK, CreateTableMisread, Unregistered
  <2>7. CASE UndropTable(s, l)
    BY <1>0, <2>7, TouchEffect DEF TableOK, UndropTable, Unregistered
  <2>8. ASSUME NEW j \in Keys, RenameTable(s, l, j) PROVE TableOK(k)'
    <3>1. {l, j} \in SUBSET Keys /\ Touch({l, j})
      BY <2>8 DEF RenameTable
    <3>2. k \notin mixed /\ (k \in {l, j} => \A t \in DdlSessions : k \notin work[t].on)
      BY <1>0, <3>1, TouchEffect
    <3> QED BY <1>0, <2>8, <3>2 DEF TableOK, RenameTable, Unregistered
  <2> QED BY <1>6, <2>1, <2>2, <2>3, <2>4, <2>5, <2>6, <2>7, <2>8 DEF TableNext
<1>7. ASSUME NEW l \in Keys, Around(l) PROVE TableOK(k)'
  BY <1>0, <1>7 DEF TableOK, Around
<1>8. CASE ResetCatalog
  BY <1>0, <1>8 DEF TableOK, ResetCatalog, None
<1>9. CASE UNCHANGED catalogVars
  BY <1>0, <1>9 DEF TableOK, catalogVars
<1>10. CASE BeginTx \/ CommitTx
  BY <1>0, <1>10 DEF TableOK, BeginTx, CommitTx
<1>11. CASE RollbackTx
  <2> DEFINE moved == (engTables \ saved.tables) \cup (saved.tables \ engTables)
  <2>1. moved \in SUBSET Keys /\ Touch(moved)
    BY <1>0, <1>11 DEF CatalogTypeOK, RollbackTx, Keys
  <2>2. k \notin mixed /\ (k \in moved => \A t \in DdlSessions : k \notin work[t].on)
    BY <1>0, <2>1, TouchEffect
  <2>3. UNCHANGED <<work, catTables>> /\ unlisted \subseteq unlisted' /\ ghosts \subseteq ghosts'
    BY <1>11 DEF RollbackTx
  <2>4. CASE k \in moved
    <3>1. /\ k \in catTables => k \in engTables' \cup ghosts'
          /\ k \in engTables' => k \in catTables \cup unlisted'
      BY <1>11, <2>4 DEF RollbackTx
    <3> QED BY <2>2, <2>3, <2>4, <3>1 DEF TableOK
  <2>5. CASE k \notin moved
    <3>1. k \in engTables' <=> k \in engTables
      BY <1>11, <2>5 DEF RollbackTx
    <3> QED BY <1>0, <2>2, <2>3, <3>1 DEF TableOK
  <2> QED BY <2>4, <2>5
<1> QED
  BY <1>1, <1>2, <1>4, <1>5, <1>6, <1>7, <1>8, <1>9, <1>10, <1>11 DEF CatalogNext

LEMMA CatalogInductive == CatalogSpec => []CatalogInv
<1>1. CatalogInv /\ [CatalogNext]_catalogVars => CatalogInv'
  BY CatalogTypeStep, CatalogTableStep DEF CatalogInv
<1> QED BY <1>1, CatalogInitInv, PTL DEF CatalogSpec

(* Neither side lists a table without its schema, nor a schema without its  *)
(* database (catalog.go:187, :252).                                         *)
THEOREM CatalogTypeCorrect == CatalogSpec => []CatalogTypeOK
<1>1. CatalogInv => CatalogTypeOK
  BY DEF CatalogInv
<1> QED BY <1>1, CatalogInductive, PTL

(* However many sessions run DDL, every table of the catalog is a table of  *)
(* DuckDB, but for the statements under way, the tables on which statements *)
(* overlapped, and those that RENAME or ROLLBACK took away in DuckDB        *)
(* (orchestrator.go:491, :520).                                             *)
LEMMA GhostsExplained == CatalogSpec => []NoGhostTables
<1>1. CatalogInv => NoGhostTables
  <2> SUFFICES ASSUME CatalogInv, NEW k \in catTables, k \notin Busy, k \notin mixed
               PROVE  k \in engTables \cup ghosts
    BY DEF NoGhostTables
  <2>1. k \in Keys
    BY DEF CatalogInv, CatalogTypeOK, Keys
  <2> QED BY <2>1, BusyElement DEF CatalogInv, TableOK
<1> QED BY <1>1, CatalogInductive, PTL

(* However many sessions run DDL, a table of DuckDB that the catalog misses *)
(* is one of the gaps the code is known to leave.                           *)
LEMMA GapsExplained == CatalogSpec => []NothingUnlisted
<1>1. CatalogInv => NothingUnlisted
  <2> SUFFICES ASSUME CatalogInv, NEW k \in engTables, k \notin Busy, k \notin mixed
               PROVE  k \in catTables \cup unlisted
    BY DEF NothingUnlisted
  <2>1. k \in Keys
    BY DEF CatalogInv, CatalogTypeOK, Keys
  <2> QED BY <2>1, BusyElement DEF CatalogInv, TableOK
<1> QED BY <1>1, CatalogInductive, PTL

(* However many sessions run DDL on however many schemas and tables, the    *)
(* catalog and DuckDB agree but for the exceptions that CatalogMatches      *)
(* names (orchestrator.go:473, :497).                                       *)
THEOREM CatalogExplained == CatalogSpec => []CatalogMatches
  BY GhostsExplained, GapsExplained, PTL DEF CatalogMatches

----------------------------------------------------------------------------
LEMMA RolesInitClosed == RolesInit => NoDangling
  BY RolesAssumption DEF RolesInit, NoDangling

LEMMA RolesStep == NoDangling /\ [RolesNext]_roleVars => NoDangling'
<1> SUFFICES ASSUME NoDangling, [RolesNext]_roleVars PROVE NoDangling'
  OBVIOUS
<1> USE DEF NoDangling
<1>1. ASSUME NEW r \in RoleNames, CreateRole(r) PROVE NoDangling'
  BY <1>1 DEF CreateRole
<1>2. ASSUME NEW r \in RoleNames, DropRole(r) PROVE NoDangling'
  BY <1>2 DEF DropRole
<1>3. ASSUME NEW r \in RoleNames, NEW p \in Privileges,
             GrantPrivilege(r, p) \/ RevokePrivilege(r, p)
      PROVE  NoDangling'
  BY <1>3 DEF GrantPrivilege, RevokePrivilege
<1>4. ASSUME NEW r \in RoleNames, NEW u \in Users, GrantRoleToUser(r, u) PROVE NoDangling'
  BY <1>4 DEF GrantRoleToUser
<1>5. ASSUME NEW c \in RoleNames, NEW p \in RoleNames, GrantRoleToRole(c, p)
      PROVE  NoDangling'
  BY <1>5 DEF GrantRoleToRole
<1>6. CASE ResetRoles
  BY <1>6, RolesAssumption DEF ResetRoles
<1>7. CASE UNCHANGED roleVars
  BY <1>7 DEF roleVars
<1> QED BY <1>1, <1>2, <1>3, <1>4, <1>5, <1>6, <1>7 DEF RolesNext

(* Whatever is granted, revoked, dropped and created again, nothing names a *)
(* role that does not exist (rbac.go:110).                                  *)
THEOREM RolesClosed == RolesSpec => []NoDangling
  BY RolesInitClosed, RolesStep, PTL DEF RolesSpec

----------------------------------------------------------------------------
(* The roles a stack has yet to try. *)
PendingOf(stack) == UNION {stack[i] : i \in 1 .. Len(stack)}

(* Whether what was visited is followed along the hierarchy, up or down. *)
FollowedUp(seen)   == \A e \in parentRoles : e[1] \in visited => e[2] \in seen
FollowedDown(seen) == \A e \in parentRoles : e[2] \in visited => e[1] \in seen

HasRole == \E own \in roles : <<asked.user, own>> \in userRoles /\ asked.role \in Above(own)

(* The roles of the user other than the untried ones are not at or below    *)
(* the role asked for.                                                      *)
OthersBelow(untried) ==
    \A m \in roles : <<asked.user, m>> \in userRoles => m \in untried \/ asked.role \notin Above(m)

(* The search that began with role m of the user has seen nothing but roles *)
(* above m, and all of those that are above what it visited.                *)
UpFrom(m, seen) ==
    /\ <<asked.user, m>> \in userRoles
    /\ m \in seen /\ seen \subseteq Above(m) /\ asked.role \notin visited
    /\ FollowedUp(seen)
    /\ OthersBelow(heldRoles \cup {m})

DownFrom(seen) ==
    /\ HasRole
    /\ asked.role \in seen /\ \A q \in seen : asked.role \in Above(q)
    /\ FollowedDown(seen)
    /\ \A q \in visited \cap roles : ~HasGrant(q, asked.priv)

SearchInv ==
    /\ NoDangling /\ SearchTypeOK
    /\ searchAt \in {"user", "up"} => \A m \in heldRoles : <<asked.user, m>> \in userRoles
    /\ searchAt = "user" => OthersBelow(heldRoles)
    /\ searchAt = "up" => \E m \in roles : UpFrom(m, visited \cup PendingOf(frames))
    /\ searchAt = "down" => DownFrom(visited \cup PendingOf(frames))
    /\ AccessIsReachability

LEMMA AboveSelf == \A q \in RoleNames : q \in Above(q)
  BY DEF Above

LEMMA AboveParent ==
    ASSUME NoDangling, NEW m, NEW e \in parentRoles, e[1] \in Above(m)
    PROVE  e[2] \in Above(m)
<1>1. e[2] \in RoleNames
  BY DEF NoDangling
<1> QED BY <1>1 DEF Above

LEMMA AboveChild ==
    ASSUME NEW r, NEW e \in parentRoles, r \in Above(e[2])
    PROVE  r \in Above(e[1])
  BY DEF Above

LEMMA NotAbove ==
    ASSUME NEW S \in SUBSET RoleNames, NEW m \in S, NEW r, r \notin S,
           \A e \in parentRoles : e[1] \in S => e[2] \in S
    PROVE  r \notin Above(m)
  BY DEF Above

LEMMA CallingStack ==
    ASSUME frames \in Seq((SUBSET RoleNames) \ {{}}), frames # <<>>, NEW r \in Top,
           NEW next \in SUBSET RoleNames
    PROVE  /\ Calling(r, next) \in Seq((SUBSET RoleNames) \ {{}})
           /\ r \in PendingOf(frames)
           /\ next \subseteq PendingOf(Calling(r, next))
           /\ PendingOf(frames) \subseteq PendingOf(Calling(r, next)) \cup {r}
           /\ PendingOf(Calling(r, next)) \subseteq PendingOf(frames) \cup next
<1> DEFINE n    == Len(frames)
           after == IF Top = {r} THEN Rest ELSE Append(Rest, Top \ {r})
<1>1. n \in Nat \ {0} /\ Top \in (SUBSET RoleNames) \ {{}}
  BY DEF Top
<1>2. /\ Rest \in Seq((SUBSET RoleNames) \ {{}}) /\ Len(Rest) = n - 1
      /\ \A i \in 1 .. n - 1 : Rest[i] = frames[i]
  <2>1. \A i \in 1 .. n - 1 : frames[i] \in (SUBSET RoleNames) \ {{}}
    BY <1>1
  <2>2. /\ SubSeq(frames, 1, n - 1) \in Seq((SUBSET RoleNames) \ {{}})
        /\ Len(SubSeq(frames, 1, n - 1)) = IF 1 <= n - 1 THEN n - 1 - 1 + 1 ELSE 0
        /\ \A i \in 1 .. n - 1 - 1 + 1 : SubSeq(frames, 1, n - 1)[i] = frames[1 + i - 1]
    BY <1>1, <2>1, SubSeqProperties
  <2>3. n - 1 - 1 + 1 = n - 1 /\ (~(1 <= n - 1) => n - 1 = 0)
    <3> HIDE DEF n
    <3> QED BY <1>1
  <2>4. \A i \in 1 .. n - 1 : 1 + i - 1 = i
    BY <1>1
  <2> QED BY <2>2, <2>3, <2>4 DEF Rest
<1>3. /\ after \in Seq((SUBSET RoleNames) \ {{}})
      /\ PendingOf(frames) \subseteq PendingOf(after) \cup {r}
      /\ PendingOf(after) \subseteq PendingOf(frames)
  <2>1. PendingOf(frames) = PendingOf(Rest) \cup Top
    BY <1>1, <1>2 DEF PendingOf, Top
  <2>2. CASE Top = {r}
    BY <1>2, <2>1, <2>2
  <2>3. CASE Top # {r}
    <3>1. Top \ {r} \in (SUBSET RoleNames) \ {{}}
      BY <1>1, <2>3
    <3>2. after = Append(Rest, Top \ {r}) /\ Len(after) = n
      BY <1>1, <1>2, <2>3, <3>1
    <3>3. after[n] = Top \ {r} /\ \A i \in 1 .. n - 1 : after[i] = Rest[i]
      BY <1>1, <1>2, <3>1, <3>2
    <3>4. PendingOf(after) = PendingOf(Rest) \cup (Top \ {r})
      <4> HIDE DEF after
      <4> QED BY <1>1, <1>2, <3>2, <3>3 DEF PendingOf
    <3>5. after \in Seq((SUBSET RoleNames) \ {{}})
      BY <1>2, <3>1, <3>2, AppendProperties
    <3> QED BY <2>1, <3>4, <3>5
  <2> QED BY <2>2, <2>3
<1>4. r \in PendingOf(frames)
  BY <1>1 DEF PendingOf, Top
<1>5. CASE next = {}
  <2>1. Calling(r, next) = after
    BY <1>5 DEF Calling
  <2> HIDE DEF after
  <2> QED BY <1>3, <1>4, <1>5, <2>1
<1>6. CASE next # {}
  <2> HIDE DEF after
  <2>1. Calling(r, next) = Append(after, next)
    BY <1>6 DEF Calling, after
  <2>2. PendingOf(Append(after, next)) = PendingOf(after) \cup next
    <3>1. /\ Len(Append(after, next)) = Len(after) + 1 /\ Len(after) \in Nat
          /\ Append(after, next)[Len(after) + 1] = next
          /\ \A i \in 1 .. Len(after) : Append(after, next)[i] = after[i]
      BY <1>3, <1>6
    <3> QED BY <3>1 DEF PendingOf
  <2> QED BY <1>3, <1>4, <1>6, <2>1, <2>2
<1> QED BY <1>5, <1>6

LEMMA SearchQuiet ==
    ASSUME UNCHANGED roleVars
    PROVE  /\ \A q : Above(q)' = Above(q)
           /\ \A r, p : HasGrant(r, p)' = HasGrant(r, p)
           /\ NoDangling' = NoDangling
  BY DEF roleVars, Above, HasGrant, NoDangling

(* Roles change between checks only. *)
LEMMA SearchIdle ==
    ASSUME SearchInv, NoDangling', searchAt = "idle", UNCHANGED searchVars
    PROVE  SearchInv'
  BY DEF SearchInv, SearchTypeOK, AccessIsReachability, searchVars, Questions

LEMMA SearchFirst ==
    ASSUME NEW r \in RoleNames
    PROVE  <<{r}>> \in Seq((SUBSET RoleNames) \ {{}}) /\ PendingOf(<<{r}>>) = {r} /\ <<{r}>> # <<>>
  BY DEF PendingOf

LEMMA SearchNone == PendingOf(<<>>) = {}
  BY DEF PendingOf

LEMMA SearchTop ==
    ASSUME SearchTypeOK, searchAt \in {"up", "down"}, NEW r \in Top
    PROVE  /\ r \in RoleNames /\ r \in PendingOf(frames) /\ frames # <<>>
           /\ frames \in Seq((SUBSET RoleNames) \ {{}})
  BY DEF SearchTypeOK, PendingOf, Top

LEMMA SearchAsks ==
    ASSUME SearchInv, UNCHANGED roleVars, NEW q \in Questions, CheckAccess(q)
    PROVE  SearchInv'
<1>1. NoDangling' /\ SearchTypeOK'
  BY SearchQuiet DEF SearchInv, SearchTypeOK, CheckAccess
<1>2. OthersBelow(heldRoles)'
  BY <1>1, SearchQuiet DEF CheckAccess, OthersBelow, NoDangling, roleVars
<1>3. \A m \in heldRoles' : <<asked'.user, m>> \in userRoles'
  BY DEF CheckAccess, roleVars
<1> QED BY <1>1, <1>2, <1>3 DEF SearchInv, CheckAccess, AccessIsReachability

LEMMA SearchTries ==
    ASSUME SearchInv, UNCHANGED roleVars, NEW r \in RoleNames, TryUserRole(r)
    PROVE  SearchInv'
<1>1. NoDangling /\ SearchTypeOK /\ OthersBelow(heldRoles)
  BY DEF SearchInv, TryUserRole
<1>2. NoDangling' /\ SearchTypeOK'
  BY <1>1, SearchQuiet, SearchFirst DEF SearchTypeOK, TryUserRole, SearchFrom
<1>3. r \in roles /\ <<asked.user, r>> \in userRoles
  BY <1>1 DEF SearchInv, TryUserRole, NoDangling
<1>4. visited' \cup PendingOf(frames') = {r}
  BY SearchFirst DEF TryUserRole, SearchFrom
<1>5. UpFrom(r, visited \cup PendingOf(frames))'
  BY <1>1, <1>3, <1>4, SearchQuiet, AboveSelf
     DEF UpFrom, FollowedUp, OthersBelow, TryUserRole, SearchFrom, roleVars
<1>6. \A m \in heldRoles' : <<asked'.user, m>> \in userRoles'
  BY DEF SearchInv, TryUserRole, SearchFrom, roleVars
<1>7. searchAt' = "up" /\ r \in roles'
  BY <1>3 DEF TryUserRole, SearchFrom, roleVars
<1> QED BY <1>2, <1>5, <1>6, <1>7 DEF SearchInv, AccessIsReachability

(* The result is what the roles say. *)
LEMMA SearchAnswers ==
    ASSUME SearchInv, UNCHANGED roleVars, searchAt # "idle", NEW result \in BOOLEAN, Answer(result),
           result <=> HasRole /\ \E q \in roles : asked.role \in Above(q) /\ HasGrant(q, asked.priv)
    PROVE  SearchInv'
<1>1. NoDangling' /\ SearchTypeOK'
  BY SearchQuiet DEF SearchInv, SearchTypeOK, Answer
<1>2. AccessIsReachability'
  BY SearchQuiet DEF AccessIsReachability, HasRole, Answer, roleVars
<1> QED BY <1>1, <1>2 DEF SearchInv, Answer

LEMMA SearchFindsNoRole ==
    ASSUME SearchInv, UNCHANGED roleVars, NoUserRole
    PROVE  SearchInv'
<1>1. OthersBelow({}) /\ searchAt = "user" /\ Answer(FALSE)
  BY DEF SearchInv, NoUserRole
<1>2. ~HasRole
  BY <1>1 DEF OthersBelow, HasRole
<1> QED BY <1>1, <1>2, SearchAnswers

LEMMA SearchFindsRole ==
    ASSUME SearchInv, UNCHANGED roleVars, NEW r \in RoleNames, Inherited(r)
    PROVE  SearchInv'
<1>1. NoDangling /\ SearchTypeOK /\ searchAt = "up" /\ r \in Top /\ r = asked.role
  BY DEF SearchInv, Inherited
<1>2. PICK m \in roles : UpFrom(m, visited \cup PendingOf(frames))
  BY <1>1 DEF SearchInv
<1>3. HasRole
  BY <1>1, <1>2, SearchTop DEF UpFrom, HasRole
<1>4. NoDangling' /\ SearchTypeOK'
  BY <1>1, SearchQuiet, SearchFirst DEF SearchTypeOK, Inherited, SearchFrom
<1>5. visited' = {} /\ PendingOf(frames') = {r} /\ asked' = asked /\ searchAt' = "down"
  BY SearchFirst DEF Inherited, SearchFrom
<1>6. HasRole'
  BY <1>3, <1>5, SearchQuiet DEF HasRole, roleVars
<1>7. DownFrom(visited \cup PendingOf(frames))'
  BY <1>1, <1>5, <1>6, SearchQuiet, AboveSelf DEF DownFrom, FollowedDown
<1> QED BY <1>4, <1>5, <1>7 DEF SearchInv, AccessIsReachability

LEMMA SearchClimbs ==
    ASSUME SearchInv, UNCHANGED roleVars, NEW r \in RoleNames, Inherits(r)
    PROVE  SearchInv'
<1> DEFINE next == IF r \in roles \ visited THEN Parents(r) ELSE {}
           seen == visited \cup PendingOf(frames)
<1>1. /\ NoDangling /\ SearchTypeOK /\ searchAt = "up" /\ r \in Top /\ r # asked.role
      /\ visited' = visited \cup {r} /\ frames' = Calling(r, next)
      /\ searchAt' = IF frames' = <<>> THEN "user" ELSE "up"
      /\ asked' = asked /\ heldRoles' = heldRoles /\ access' = access
  BY DEF SearchInv, Inherits
<1>2. next \in SUBSET RoleNames
  BY <1>1 DEF Parents, NoDangling
<1>3. PICK m \in roles : UpFrom(m, seen)
  BY <1>1 DEF SearchInv
<1>4. /\ frames' \in Seq((SUBSET RoleNames) \ {{}})
      /\ r \in seen
      /\ seen \subseteq visited' \cup PendingOf(frames')
      /\ visited' \cup PendingOf(frames') \subseteq seen \cup next
      /\ next \subseteq PendingOf(frames')
  <2> HIDE DEF next
  <2>1. frames \in Seq((SUBSET RoleNames) \ {{}}) /\ frames # <<>>
    BY <1>1, SearchTop
  <2> QED BY <1>1, <1>2, <2>1, CallingStack
<1>5. NoDangling' /\ SearchTypeOK'
  BY <1>1, <1>4, SearchQuiet DEF SearchTypeOK
<1>6. next \subseteq Above(m)
  <2> SUFFICES ASSUME NEW p \in next PROVE p \in Above(m)
    OBVIOUS
  <2>1. PICK e \in parentRoles : e[1] = r /\ e[2] = p
    BY DEF Parents
  <2> QED BY <1>1, <1>3, <1>4, <2>1, AboveParent DEF UpFrom
<1>7. ASSUME NEW e \in parentRoles, e[1] \in visited'
      PROVE  e[2] \in visited' \cup PendingOf(frames')
  <2>1. CASE e[1] \in visited
    BY <1>3, <1>4, <2>1 DEF UpFrom, FollowedUp
  <2>2. CASE e[1] = r /\ r \notin visited
    <3>1. r \in roles
      BY <1>1, <2>2 DEF NoDangling
    <3>2. e[2] \in next
      BY <2>2, <3>1 DEF Parents
    <3> QED BY <1>4, <3>2
  <2> QED BY <1>1, <1>7, <2>1, <2>2
<1>8. \A k \in heldRoles' : <<asked'.user, k>> \in userRoles'
  BY <1>1 DEF SearchInv, roleVars
<1>9. CASE frames' = <<>>
  <2>1. PendingOf(frames') = {} /\ searchAt' = "user"
    BY <1>1, <1>9, SearchNone
  <2>2. m \in visited' /\ asked.role \notin visited'
    BY <1>1, <1>3, <1>4, <2>1 DEF UpFrom
  <2>3. visited' \in SUBSET RoleNames /\ \A e \in parentRoles : e[1] \in visited' => e[2] \in visited'
    BY <1>5, <1>7, <2>1 DEF SearchTypeOK
  <2>4. asked.role \notin Above(m)
    BY <2>2, <2>3, NotAbove
  <2>5. OthersBelow(heldRoles)'
    BY <1>1, <1>3, <2>4, SearchQuiet DEF UpFrom, OthersBelow, roleVars
  <2> QED BY <1>5, <1>8, <2>1, <2>5 DEF SearchInv, AccessIsReachability
<1>10. CASE frames' # <<>>
  <2>1. searchAt' = "up" /\ m \in roles'
    BY <1>1, <1>10 DEF roleVars
  <2>2. FollowedUp(visited \cup PendingOf(frames))'
    BY <1>7 DEF FollowedUp, roleVars
  <2>3. OthersBelow(heldRoles \cup {m})'
    BY <1>1, <1>3, SearchQuiet DEF UpFrom, OthersBelow, roleVars
  <2>4. UpFrom(m, visited \cup PendingOf(frames))'
    BY <1>1, <1>3, <1>4, <1>6, <2>2, <2>3, SearchQuiet DEF UpFrom, roleVars
  <2> QED BY <1>5, <1>8, <2>1, <2>4 DEF SearchInv, AccessIsReachability
<1> QED BY <1>9, <1>10

LEMMA SearchFindsPrivilege ==
    ASSUME SearchInv, UNCHANGED roleVars, NEW r \in RoleNames, PrivilegeHeld(r)
    PROVE  SearchInv'
<1>1. /\ SearchTypeOK /\ searchAt = "down" /\ r \in Top /\ Answer(TRUE)
      /\ r \in roles /\ HasGrant(r, asked.priv)
      /\ DownFrom(visited \cup PendingOf(frames))
  BY DEF SearchInv, PrivilegeHeld
<1>2. asked.role \in Above(r) /\ HasRole
  BY <1>1, SearchTop DEF DownFrom
<1> QED BY <1>1, <1>2, SearchAnswers

LEMMA SearchDescends ==
    ASSUME SearchInv, UNCHANGED roleVars, NEW r \in RoleNames, PrivilegeBelow(r)
    PROVE  SearchInv'
<1> DEFINE next == IF r \in roles \ visited THEN Children(r) ELSE {}
           seen == visited \cup PendingOf(frames)
           after == Calling(r, next)
           now  == visited \cup {r} \cup PendingOf(after)
<1>1. /\ NoDangling /\ SearchTypeOK /\ searchAt = "down" /\ r \in Top
      /\ ~(r \in roles \ visited /\ HasGrant(r, asked.priv))
      /\ DownFrom(seen)
  BY DEF SearchInv, PrivilegeBelow
<1>2. IF after = <<>> THEN Answer(FALSE)
      ELSE /\ frames' = after /\ visited' = visited \cup {r}
           /\ UNCHANGED <<searchAt, asked, heldRoles, access>>
  BY DEF PrivilegeBelow
<1>3. next \in SUBSET RoleNames
  BY <1>1 DEF Children, NoDangling
<1>4. /\ after \in Seq((SUBSET RoleNames) \ {{}})
      /\ r \in seen /\ seen \subseteq now /\ now \subseteq seen \cup next /\ next \subseteq now
  <2> HIDE DEF next
  <2>1. frames \in Seq((SUBSET RoleNames) \ {{}}) /\ frames # <<>>
    BY <1>1, SearchTop
  <2> QED BY <1>1, <1>3, <2>1, CallingStack
<1>5. \A q \in next : asked.role \in Above(q)
  <2> SUFFICES ASSUME NEW q \in next PROVE asked.role \in Above(q)
    OBVIOUS
  <2>1. PICK e \in parentRoles : e[2] = r /\ e[1] = q
    BY DEF Children
  <2> QED BY <1>1, <1>4, <2>1, AboveChild DEF DownFrom
<1>6. ASSUME NEW e \in parentRoles, e[2] \in visited \cup {r}
      PROVE  e[1] \in now
  <2>1. CASE e[2] \in visited
    BY <1>1, <1>4, <2>1 DEF DownFrom, FollowedDown
  <2>2. CASE e[2] = r /\ r \notin visited
    <3>1. r \in roles
      BY <1>1, <2>2 DEF NoDangling
    <3>2. e[1] \in next
      BY <2>2, <3>1 DEF Children
    <3> QED BY <1>4, <3>2
  <2> QED BY <1>6, <2>1, <2>2
<1>7. asked.role \in now /\ \A q \in now : asked.role \in Above(q)
  BY <1>1, <1>4, <1>5 DEF DownFrom
<1>8. \A q \in (visited \cup {r}) \cap roles : ~HasGrant(q, asked.priv)
  BY <1>1 DEF DownFrom
<1>9. CASE after = <<>>
  <2>1. now = visited \cup {r}
    BY <1>9, SearchNone
  <2>2. ASSUME NEW q \in roles, asked.role \in Above(q) PROVE ~HasGrant(q, asked.priv)
    <3>1. CASE q \in now
      BY <1>8, <2>1, <3>1
    <3>2. CASE q \notin now
      <4>1. q \in RoleNames \ now /\ asked.role \notin RoleNames \ now
        BY <1>1, <1>7, <3>2 DEF NoDangling
      <4>2. \A e \in parentRoles : e[1] \in RoleNames \ now => e[2] \in RoleNames \ now
        BY <1>1, <1>6, <2>1 DEF NoDangling
      <4>3. asked.role \notin Above(q)
        <5> HIDE DEF now
        <5> QED BY <4>1, <4>2, NotAbove
      <4> QED BY <2>2, <4>3
    <3> QED BY <3>1, <3>2
  <2> QED BY <1>1, <1>2, <1>9, <2>2, SearchAnswers
<1>10. CASE after # <<>>
  <2>0. /\ frames' = after /\ visited' = visited \cup {r}
        /\ UNCHANGED <<searchAt, asked, heldRoles, access>>
    BY <1>2, <1>10
  <2>1. NoDangling' /\ SearchTypeOK'
    BY <1>1, <1>4, <1>10, <2>0, SearchQuiet DEF SearchTypeOK
  <2>2. visited' \cup PendingOf(frames') = now
    BY <2>0
  <2>3. HasRole'
    BY <1>1, <2>0, SearchQuiet DEF DownFrom, HasRole, roleVars
  <2>4. FollowedDown(visited \cup PendingOf(frames))'
    BY <1>6, <2>0, <2>2 DEF FollowedDown, roleVars
  <2>5. DownFrom(visited \cup PendingOf(frames))'
    <3> HIDE DEF now
    <3> QED BY <1>7, <1>8, <2>0, <2>2, <2>3, <2>4, SearchQuiet DEF DownFrom, roleVars
  <2> QED BY <1>1, <2>0, <2>1, <2>5 DEF SearchInv, AccessIsReachability
<1> QED BY <1>9, <1>10

LEMMA SearchReturns ==
    ASSUME SearchInv, UNCHANGED roleVars, ReturnAccess
    PROVE  SearchInv'
<1>1. NoDangling' /\ SearchTypeOK'
  BY SearchQuiet DEF SearchInv, SearchTypeOK, ReturnAccess
<1> QED BY <1>1 DEF SearchInv, ReturnAccess, AccessIsReachability

LEMMA SearchStep == SearchInv /\ SearchNext /\ UNCHANGED roleVars => SearchInv'
  BY SearchAsks, SearchTries, SearchFindsRole, SearchClimbs, SearchFindsPrivilege, SearchDescends,
     SearchFindsNoRole, SearchReturns DEF SearchNext, SearchWork

LEMMA AccessInductive == AccessSpec => []SearchInv
<1>1. RolesInit /\ SearchInit => SearchInv
  <2> SUFFICES ASSUME RolesInit, SearchInit PROVE SearchInv
    OBVIOUS
  <2>1. NoDangling
    BY RolesInitClosed
  <2>2. SearchTypeOK
    <3>1. frames \in Seq((SUBSET RoleNames) \ {{}})
      BY EmptySeq DEF SearchInit
    <3>2. access \in BOOLEAN
      BY DEF SearchInit
    <3> QED BY <3>1, <3>2 DEF SearchInit, SearchTypeOK
  <2>3. searchAt = "idle"
    BY DEF SearchInit
  <2> QED BY <2>1, <2>2, <2>3 DEF SearchInv, AccessIsReachability
<1>2. SearchInv /\ [AccessNext]_<<roleVars, searchVars>> => SearchInv'
  <2> SUFFICES ASSUME SearchInv, [AccessNext]_<<roleVars, searchVars>> PROVE SearchInv'
    OBVIOUS
  <2>1. CASE searchAt = "idle" /\ RolesNext /\ UNCHANGED searchVars
    <3>1. NoDangling'
      BY <2>1, RolesStep DEF SearchInv
    <3> QED BY <2>1, <3>1, SearchIdle
  <2>2. CASE SearchNext /\ UNCHANGED roleVars
    BY <2>2, SearchStep
  <2>3. CASE UNCHANGED <<roleVars, searchVars>>
    <3>1. NoDangling' /\ SearchTypeOK'
      BY <2>3, SearchQuiet DEF SearchInv, SearchTypeOK, searchVars
    <3>2. /\ \A S : OthersBelow(S)' = OthersBelow(S)
          /\ \A S : FollowedUp(S)' = FollowedUp(S)
          /\ \A S : FollowedDown(S)' = FollowedDown(S)
          /\ HasRole' = HasRole
      BY <2>3, SearchQuiet DEF OthersBelow, FollowedUp, FollowedDown, HasRole, roleVars, searchVars
    <3>3. /\ \A m, S : UpFrom(m, S)' = UpFrom(m, S)
          /\ \A S : DownFrom(S)' = DownFrom(S)
      BY <2>3, <3>2, SearchQuiet DEF UpFrom, DownFrom, roleVars, searchVars
    <3>4. AccessIsReachability' = AccessIsReachability
      BY <2>3, SearchQuiet DEF AccessIsReachability, roleVars, searchVars
    <3> QED BY <2>3, <3>1, <3>2, <3>3, <3>4 DEF SearchInv, roleVars, searchVars
  <2> QED BY <2>1, <2>2, <2>3 DEF AccessNext
<1> QED BY <1>1, <1>2, PTL DEF AccessSpec

(* Whatever the hierarchy, its cycles included, and in whatever order the   *)
(* roles are visited, CheckAccess says yes exactly if the user has a role   *)
(* at or below the one asked for, and that one or one below it has the      *)
(* privilege (rbac.go:246).                                                 *)
THEOREM AccessCorrect == AccessSpec => []AccessIsReachability
<1>1. SearchInv => AccessIsReachability
  BY DEF SearchInv
<1> QED BY <1>1, AccessInductive, PTL

(* How far a check is, and a set that is a proper part of another. *)
SearchPhase ==
    CASE searchAt \in {"user", "up"} -> 3
      [] searchAt = "down"           -> 2
      [] searchAt = "done"           -> 1
      [] OTHER                       -> 0

PartOf(S, T) == S \subseteq T /\ S # T

(* The order in which every step of a check goes down: the phase, the roles *)
(* of the user to try, the roles not visited, the stack.                    *)
SearchShrinks ==
    \/ SearchPhase' < SearchPhase
    \/ /\ SearchPhase' = SearchPhase
       /\ \/ PartOf(heldRoles', heldRoles)
          \/ heldRoles' = heldRoles /\ PartOf(visited, visited')
          \/ /\ heldRoles' = heldRoles /\ visited' = visited
             /\ \/ Len(frames') < Len(frames)
                \/ Len(frames') = Len(frames) /\ PartOf(Top', Top)

(* A call that goes on to no other role takes its own off the stack. *)
LEMMA CallingShrinks ==
    ASSUME frames \in Seq((SUBSET RoleNames) \ {{}}), frames # <<>>, NEW r \in Top
    PROVE  \/ Len(Calling(r, {})) < Len(frames)
           \/ /\ Len(Calling(r, {})) = Len(frames)
              /\ Calling(r, {})[Len(frames)] = Top \ {r}
<1> DEFINE n == Len(frames)
<1>1. n \in Nat \ {0} /\ Top \in (SUBSET RoleNames) \ {{}}
  BY DEF Top
<1>2. Rest \in Seq((SUBSET RoleNames) \ {{}}) /\ Len(Rest) = n - 1
  <2>1. \A i \in 1 .. n - 1 : frames[i] \in (SUBSET RoleNames) \ {{}}
    BY <1>1
  <2>2. /\ SubSeq(frames, 1, n - 1) \in Seq((SUBSET RoleNames) \ {{}})
        /\ Len(SubSeq(frames, 1, n - 1)) = IF 1 <= n - 1 THEN n - 1 - 1 + 1 ELSE 0
    BY <1>1, <2>1, SubSeqProperties
  <2>3. n - 1 - 1 + 1 = n - 1 /\ (~(1 <= n - 1) => n - 1 = 0)
    <3> HIDE DEF n
    <3> QED BY <1>1
  <2> QED BY <2>2, <2>3 DEF Rest
<1>3. CASE Top = {r}
  <2>1. Calling(r, {}) = Rest
    BY <1>3 DEF Calling
  <2> QED BY <1>1, <1>2, <2>1
<1>4. CASE Top # {r}
  <2>1. Calling(r, {}) = Append(Rest, Top \ {r})
    BY <1>4 DEF Calling
  <2>2. Top \ {r} \in (SUBSET RoleNames) \ {{}}
    BY <1>1, <1>4
  <2>3. /\ Len(Append(Rest, Top \ {r})) = Len(Rest) + 1
        /\ Append(Rest, Top \ {r})[Len(Rest) + 1] = Top \ {r}
    BY <1>2, <2>2, AppendProperties
  <2>4. n - 1 + 1 = n
    <3> HIDE DEF n
    <3> QED BY <1>1
  <2> QED BY <1>2, <2>1, <2>3, <2>4
<1> QED BY <1>3, <1>4

(* A role tried again has been visited: the stack shrinks.  A role tried    *)
(* for the first time joins the visited ones.                               *)
LEMMA VisitShrinks ==
    ASSUME SearchTypeOK, searchAt \in {"up", "down"}, NEW r \in Top, NEW next,
           frames' = Calling(r, IF r \in roles \ visited THEN next ELSE {}),
           visited' = visited \cup {r}
    PROVE  \/ PartOf(visited, visited')
           \/ /\ visited' = visited
              /\ \/ Len(frames') < Len(frames)
                 \/ Len(frames') = Len(frames) /\ PartOf(Top', Top)
<1>1. CASE r \notin visited
  BY <1>1 DEF PartOf
<1>2. CASE r \in visited
  <2>1. frames' = Calling(r, {}) /\ visited' = visited
    BY <1>2
  <2>2. frames \in Seq((SUBSET RoleNames) \ {{}}) /\ frames # <<>>
    BY SearchTop
  <2>3. \/ Len(frames') < Len(frames)
        \/ Len(frames') = Len(frames) /\ frames'[Len(frames)] = Top \ {r}
    BY <2>1, <2>2, CallingShrinks
  <2> QED BY <2>1, <2>3 DEF PartOf, Top
<1> QED BY <1>1, <1>2

(* Every step of CheckAccess goes down in an order that has no endless      *)
(* descent when there are finitely many roles: cycles in the hierarchy do   *)
(* not keep it from returning (rbac.go:286, :307).                          *)
THEOREM SearchDescent == AccessSpec => [][SearchWork => SearchShrinks]_<<roleVars, searchVars>>
<1>1. ASSUME SearchInv, SearchWork PROVE SearchShrinks
  <2>0. SearchTypeOK
    BY <1>1 DEF SearchInv
  <2>1. ASSUME NEW r \in RoleNames, TryUserRole(r) PROVE SearchShrinks
    BY <2>1 DEF TryUserRole, SearchFrom, SearchShrinks, SearchPhase, PartOf
  <2>2. ASSUME NEW r \in RoleNames, Inherited(r) PROVE SearchShrinks
    BY <2>2 DEF Inherited, SearchFrom, SearchShrinks, SearchPhase
  <2>3. ASSUME NEW r \in RoleNames, Inherits(r) PROVE SearchShrinks
    <3>1. SearchPhase' = SearchPhase /\ heldRoles' = heldRoles
      BY <2>3 DEF Inherits, SearchPhase
    <3>2. \/ PartOf(visited, visited')
          \/ /\ visited' = visited
             /\ \/ Len(frames') < Len(frames)
                \/ Len(frames') = Len(frames) /\ PartOf(Top', Top)
      BY <2>0, <2>3, VisitShrinks DEF Inherits
    <3> QED BY <3>1, <3>2 DEF SearchShrinks
  <2>4. ASSUME NEW r \in RoleNames, PrivilegeHeld(r) PROVE SearchShrinks
    BY <2>4 DEF PrivilegeHeld, Answer, SearchShrinks, SearchPhase
  <2>5. ASSUME NEW r \in RoleNames, PrivilegeBelow(r) PROVE SearchShrinks
    <3> DEFINE after == Calling(r, IF r \in roles \ visited THEN Children(r) ELSE {})
    <3>1. /\ searchAt = "down" /\ r \in Top
          /\ IF after = <<>> THEN Answer(FALSE)
             ELSE /\ frames' = after /\ visited' = visited \cup {r}
                  /\ UNCHANGED <<searchAt, asked, heldRoles, access>>
      BY <2>5 DEF PrivilegeBelow
    <3>2. CASE after = <<>>
      BY <3>1, <3>2 DEF Answer, SearchShrinks, SearchPhase
    <3>3. CASE after # <<>>
      <4>1. /\ frames' = after /\ visited' = visited \cup {r}
            /\ searchAt' = searchAt /\ heldRoles' = heldRoles
        BY <3>1, <3>3
      <4>2. \/ PartOf(visited, visited')
            \/ /\ visited' = visited
               /\ \/ Len(frames') < Len(frames)
                  \/ Len(frames') = Len(frames) /\ PartOf(Top', Top)
        BY <2>0, <3>1, <4>1, VisitShrinks
      <4>3. SearchPhase' = SearchPhase
        BY <4>1 DEF SearchPhase
      <4> QED BY <4>1, <4>2, <4>3 DEF SearchShrinks
    <3> QED BY <3>2, <3>3
  <2>6. CASE NoUserRole \/ ReturnAccess
    BY <2>6 DEF NoUserRole, ReturnAccess, Answer, SearchShrinks, SearchPhase
  <2> QED BY <1>1, <2>1, <2>2, <2>3, <2>4, <2>5, <2>6 DEF SearchWork
<1>2. SearchInv => [SearchWork => SearchShrinks]_<<roleVars, searchVars>>
  BY <1>1
<1> QED BY <1>2, AccessInductive, PTL

----------------------------------------------------------------------------
Known == Entries(history) \cup UNION {Entries(statuses[c]) : c \in Callers}

(* A call at work holds results of its own pipe only, that pipe was made,   *)
(* and it is the present one unless the call was noted as a stray.          *)
CallsInv ==
    /\ pipe <= pipesMade
    /\ \A r \in inserted : r.gen <= pipesMade
    /\ \A c \in Callers : pipePc[c] = "exec" =>
          /\ plan[c] \in 1 .. pipesMade /\ call[c] \in 1 .. MaxCalls
          /\ plan[c] = pipe \/ call[c] \in strayCalls
    /\ \A c \in Callers : pipePc[c] = "idle" => statuses[c] = <<>>
    /\ \A c \in Callers : \A r \in Entries(statuses[c]) : r.gen = plan[c] /\ r.call = call[c]

(* The inductive invariant of the pipes. *)
PipesInv == PipesTypeOK /\ CallsInv /\ OwnHistory /\ NothingUnrecorded

LEMMA EntriesConcat ==
    ASSUME NEW S, NEW a \in Seq(S), NEW b \in Seq(S)
    PROVE  Entries(a \o b) = Entries(a) \cup Entries(b)
<1>1. ASSUME NEW i \in 1 .. Len(a \o b) PROVE (a \o b)[i] \in Entries(a) \cup Entries(b)
  <2>1. CASE i <= Len(a)
    BY <2>1 DEF Entries
  <2>2. CASE i > Len(a)
    <3>1. (a \o b)[i] = b[i - Len(a)] /\ i - Len(a) \in 1 .. Len(b)
      BY <2>2
    <3> QED BY <3>1 DEF Entries
  <2> QED BY <2>1, <2>2
<1>2. ASSUME NEW i \in 1 .. Len(a) PROVE a[i] \in Entries(a \o b)
  <2>1. i \in 1 .. Len(a \o b) /\ (a \o b)[i] = a[i]
    OBVIOUS
  <2> QED BY <2>1 DEF Entries
<1>3. ASSUME NEW i \in 1 .. Len(b) PROVE b[i] \in Entries(a \o b)
  <2>1. i + Len(a) \in 1 .. Len(a \o b) /\ (a \o b)[i + Len(a)] = b[i]
    OBVIOUS
  <2> QED BY <2>1 DEF Entries
<1> QED BY <1>1, <1>2, <1>3 DEF Entries

LEMMA EntriesAppend ==
    ASSUME NEW S, NEW a \in Seq(S), NEW x \in S
    PROVE  Entries(Append(a, x)) = Entries(a) \cup {x}
<1>1. Len(Append(a, x)) = Len(a) + 1 /\ Append(a, x)[Len(a) + 1] = x
  OBVIOUS
<1>2. \A i \in 1 .. Len(a) : Append(a, x)[i] = a[i]
  OBVIOUS
<1>3. 1 .. Len(a) + 1 = (1 .. Len(a)) \cup {Len(a) + 1}
  OBVIOUS
<1> QED BY <1>1, <1>2, <1>3 DEF Entries

LEMMA EntriesEmpty == Entries(<<>>) = {}
  BY DEF Entries

LEMMA EntriesTyped ==
    ASSUME NEW S, NEW a \in Seq(S)
    PROVE  Entries(a) \subseteq S
  BY DEF Entries

LEMMA KnownAlt ==
    NothingUnrecorded <=>
        /\ {r \in inserted : r.gen = pipe} \subseteq Known
        /\ {r \in Known : r.status = "LOADED"} \subseteq inserted
  BY DEF NothingUnrecorded, Known

LEMMA PipesInitInv == PipesInit => PipesInv
<1> SUFFICES ASSUME PipesInit PROVE PipesInv
  OBVIOUS
<1>1. PipesTypeOK
  BY PipeAssumption DEF PipesInit, PipesTypeOK, NoPipe, PipeStates
<1>2. Known = {}
  BY EntriesEmpty DEF PipesInit, Known
<1> QED
  BY <1>1, <1>2, KnownAlt, EntriesEmpty
  DEF PipesInit, PipesInv, CallsInv, OwnHistory, NoPipe

LEMMA PipesTypeStep == PipesInv /\ [PipesNext]_pipeVars => PipesTypeOK'
<1> SUFFICES ASSUME PipesInv, [PipesNext]_pipeVars PROVE PipesTypeOK'
  OBVIOUS
<1> USE PipeAssumption DEF callVars
<1>0. PipesTypeOK
  BY DEF PipesInv
<1>1. CASE CreatePipe
  BY <1>0, <1>1 DEF PipesTypeOK, CreatePipe, PipeStates
<1>2. CASE Forget
  <2>1. strayCalls' \subseteq 0 .. MaxCalls
    <3>1. \A c \in Callers : call[c] \in 0 .. MaxCalls
      BY <1>0 DEF PipesTypeOK
    <3> QED BY <1>0, <1>2, <3>1 DEF PipesTypeOK, Forget
  <2>2. history' \in Seq(FileStatus) /\ pipe' \in 0 .. MaxPipes /\ pipeState' \in PipeStates
    BY <1>2 DEF Forget, NoPipe, PipeStates
  <2> QED BY <1>0, <1>2, <2>1, <2>2 DEF PipesTypeOK, Forget
<1>3. ASSUME NEW st \in PipeStates, AlterPipe(st) PROVE PipesTypeOK'
  BY <1>0, <1>3 DEF PipesTypeOK, AlterPipe
<1>4. ASSUME NEW c \in Callers, NEW n \in 1 .. MaxFiles, InsertFiles(c, n) PROVE PipesTypeOK'
  <2>1. calls' \in 0 .. MaxCalls /\ call' \in [Callers -> 0 .. MaxCalls]
    BY <1>0, <1>4 DEF PipesTypeOK, InsertFiles
  <2>2. /\ plan' \in [Callers -> 0 .. MaxPipes] /\ files' \in [Callers -> 0 .. MaxFiles]
        /\ pipePc' \in [Callers -> {"idle", "exec"}]
    BY <1>0, <1>4 DEF PipesTypeOK, InsertFiles
  <2> QED BY <1>0, <1>4, <2>1, <2>2 DEF PipesTypeOK, InsertFiles
<1>5. ASSUME NEW c \in Callers, NEW st \in LoadStatuses, ExecCopy(c, st) PROVE PipesTypeOK'
  <2> DEFINE r == [gen |-> plan[c], call |-> call[c], file |-> Len(statuses[c]) + 1, status |-> st]
  <2>1. r \in FileStatus
    BY <1>0, <1>5 DEF PipesInv, CallsInv, PipesTypeOK, ExecCopy, FileStatus, Gens
  <2>2. statuses' = [statuses EXCEPT ![c] = Append(@, r)] /\ inserted' \subseteq inserted \cup {r}
    BY <1>5 DEF ExecCopy
  <2>3. statuses' \in [Callers -> Seq(FileStatus)]
    BY <1>0, <2>1, <2>2 DEF PipesTypeOK
  <2> QED BY <1>0, <1>5, <2>1, <2>2, <2>3 DEF PipesTypeOK, ExecCopy
<1>6. ASSUME NEW c \in Callers, RecordHistory(c) PROVE PipesTypeOK'
  BY <1>0, <1>6 DEF PipesTypeOK, RecordHistory, Answered, NoPipe
<1>7. CASE UNCHANGED pipeVars
  BY <1>0, <1>7 DEF PipesTypeOK, pipeVars
<1> QED
  BY <1>1, <1>2, <1>3, <1>4, <1>5, <1>6, <1>7
  DEF PipesNext, DropPipe, ResetPipes, InsertWork

LEMMA CallsStep == PipesInv /\ [PipesNext]_pipeVars => CallsInv'
<1> SUFFICES ASSUME PipesInv, [PipesNext]_pipeVars PROVE CallsInv'
  OBVIOUS
<1> USE PipeAssumption DEF callVars
<1>0. PipesTypeOK /\ CallsInv
  BY DEF PipesInv
<1>1. CASE CreatePipe
  BY <1>0, <1>1 DEF PipesTypeOK, CallsInv, CreatePipe, NoPipe, Gens, FileStatus
<1>2. CASE Forget
  BY <1>0, <1>2 DEF PipesTypeOK, CallsInv, Forget, NoPipe
<1>3. ASSUME NEW st \in PipeStates, AlterPipe(st) PROVE CallsInv'
  BY <1>0, <1>3 DEF CallsInv, AlterPipe
<1>4. ASSUME NEW c \in Callers, NEW n \in 1 .. MaxFiles, InsertFiles(c, n) PROVE CallsInv'
  <2>1. statuses[c] = <<>> /\ pipe \in 1 .. pipesMade
    BY <1>0, <1>4 DEF PipesTypeOK, CallsInv, InsertFiles, NoPipe
  <2>2. /\ pipePc'[c] = "exec" /\ plan'[c] = pipe /\ call'[c] \in 1 .. MaxCalls
        /\ \A d \in Callers \ {c} :
              pipePc'[d] = pipePc[d] /\ plan'[d] = plan[d] /\ call'[d] = call[d]
        /\ UNCHANGED <<pipe, pipesMade, statuses, inserted, strayCalls>>
    BY <1>0, <1>4 DEF PipesTypeOK, InsertFiles
  <2> QED BY <1>0, <2>1, <2>2, EntriesEmpty DEF CallsInv
<1>5. ASSUME NEW c \in Callers, NEW st \in LoadStatuses, ExecCopy(c, st) PROVE CallsInv'
  <2> DEFINE r == [gen |-> plan[c], call |-> call[c], file |-> Len(statuses[c]) + 1, status |-> st]
  <2>1. r \in FileStatus
    BY <1>0, <1>5 DEF CallsInv, PipesTypeOK, ExecCopy, FileStatus, Gens
  <2>2. /\ statuses'[c] = Append(statuses[c], r) /\ inserted' \subseteq inserted \cup {r}
        /\ \A d \in Callers \ {c} : statuses'[d] = statuses[d]
    BY <1>0, <1>5 DEF PipesTypeOK, ExecCopy
  <2>3. Entries(statuses'[c]) = Entries(statuses[c]) \cup {r}
    BY <1>0, <2>1, <2>2, EntriesAppend DEF PipesTypeOK
  <2>4. pipePc[c] = "exec" /\ UNCHANGED <<pipe, pipePc, plan, call, pipesMade, strayCalls>>
    BY <1>5 DEF ExecCopy
  <2>5. r.gen = plan[c] /\ r.call = call[c] /\ plan[c] \in 1 .. pipesMade /\ pipesMade \in Nat
    BY <1>0, <2>4 DEF PipesTypeOK, CallsInv
  <2>6. \A q \in inserted' : q.gen <= pipesMade
    BY <1>0, <2>2, <2>5 DEF CallsInv
  <2>7. \A d \in Callers : \A q \in Entries(statuses'[d]) : q.gen = plan[d] /\ q.call = call[d]
    BY <1>0, <2>2, <2>3, <2>5 DEF CallsInv
  <2>8. \A d \in Callers : pipePc[d] = "idle" => statuses'[d] = <<>>
    BY <1>0, <2>2, <2>4 DEF CallsInv
  <2> HIDE DEF r
  <2> QED BY <1>0, <2>4, <2>6, <2>7, <2>8 DEF CallsInv
<1>6. ASSUME NEW c \in Callers, RecordHistory(c) PROVE CallsInv'
  BY <1>0, <1>6, EntriesEmpty DEF PipesTypeOK, CallsInv, RecordHistory, Answered
<1>7. CASE UNCHANGED pipeVars
  BY <1>0, <1>7 DEF CallsInv, pipeVars
<1> QED
  BY <1>1, <1>2, <1>3, <1>4, <1>5, <1>6, <1>7
  DEF PipesNext, DropPipe, ResetPipes, InsertWork

LEMMA OwnStep == PipesInv /\ [PipesNext]_pipeVars => OwnHistory'
<1> SUFFICES ASSUME PipesInv, [PipesNext]_pipeVars PROVE OwnHistory'
  OBVIOUS
<1> USE DEF callVars
<1>0. PipesTypeOK /\ CallsInv /\ OwnHistory
  BY DEF PipesInv
<1>1. CASE CreatePipe \/ Forget
  BY <1>1, EntriesEmpty DEF OwnHistory, CreatePipe, Forget
<1>2. ASSUME NEW c \in Callers, RecordHistory(c) PROVE OwnHistory'
  <2>1. Entries(history') = Entries(history) \cup Entries(statuses[c])
    BY <1>0, <1>2, EntriesConcat DEF PipesTypeOK, RecordHistory
  <2> QED BY <1>0, <1>2, <2>1 DEF OwnHistory, CallsInv, RecordHistory, Answered
<1>3. CASE UNCHANGED <<pipe, history, strayCalls>>
  BY <1>0, <1>3 DEF OwnHistory
<1> QED
  BY <1>1, <1>2, <1>3
  DEF PipesNext, DropPipe, ResetPipes, InsertWork, AlterPipe, InsertFiles, ExecCopy, pipeVars

LEMMA KnownStep == PipesInv /\ [PipesNext]_pipeVars => NothingUnrecorded'
<1> SUFFICES ASSUME PipesInv, [PipesNext]_pipeVars
             PROVE  /\ {r \in inserted' : r.gen = pipe'} \subseteq Known'
                    /\ {r \in Known' : r.status = "LOADED"} \subseteq inserted'
  BY DEF NothingUnrecorded, Known
<1> USE PipeAssumption DEF callVars
<1>0. /\ PipesTypeOK /\ CallsInv
      /\ {r \in inserted : r.gen = pipe} \subseteq Known
      /\ {r \in Known : r.status = "LOADED"} \subseteq inserted
  BY KnownAlt DEF PipesInv
<1>1. CASE CreatePipe
  <2>1. \A r \in inserted : r.gen # pipe'
    BY <1>0, <1>1 DEF PipesTypeOK, CallsInv, CreatePipe, FileStatus, Gens
  <2>2. Known' \subseteq Known /\ inserted' = inserted
    BY <1>1, EntriesEmpty DEF Known, CreatePipe
  <2> QED BY <1>0, <2>1, <2>2
<1>2. CASE Forget
  <2>1. \A r \in inserted : r.gen # pipe'
    BY <1>0, <1>2 DEF PipesTypeOK, Forget, FileStatus, Gens, NoPipe
  <2>2. Known' \subseteq Known /\ inserted' = inserted
    BY <1>2, EntriesEmpty DEF Known, Forget
  <2> QED BY <1>0, <2>1, <2>2
<1>3. CASE UNCHANGED <<pipe, history, statuses, inserted>>
  BY <1>0, <1>3 DEF Known
<1>4. ASSUME NEW c \in Callers, NEW st \in LoadStatuses, ExecCopy(c, st)
      PROVE  /\ {r \in inserted' : r.gen = pipe'} \subseteq Known'
             /\ {r \in Known' : r.status = "LOADED"} \subseteq inserted'
  <2> DEFINE r == [gen |-> plan[c], call |-> call[c], file |-> Len(statuses[c]) + 1, status |-> st]
  <2>1. r \in FileStatus
    BY <1>0, <1>4 DEF CallsInv, PipesTypeOK, ExecCopy, FileStatus, Gens
  <2>2. /\ statuses'[c] = Append(statuses[c], r)
        /\ \A d \in Callers \ {c} : statuses'[d] = statuses[d]
        /\ inserted' = IF st = "LOADED" THEN inserted \cup {r} ELSE inserted
        /\ pipe' = pipe /\ history' = history
    BY <1>0, <1>4 DEF PipesTypeOK, ExecCopy
  <2>3. Entries(statuses'[c]) = Entries(statuses[c]) \cup {r}
    BY <1>0, <2>1, <2>2, EntriesAppend DEF PipesTypeOK
  <2>4. Known' = Known \cup {r}
    BY <2>2, <2>3 DEF Known
  <2>5. r.status = st
    OBVIOUS
  <2> HIDE DEF r
  <2> QED BY <1>0, <2>2, <2>4, <2>5
<1>5. ASSUME NEW c \in Callers, RecordHistory(c)
      PROVE  /\ {r \in inserted' : r.gen = pipe'} \subseteq Known'
             /\ {r \in Known' : r.status = "LOADED"} \subseteq inserted'
  <2>1. Entries(history') = Entries(history) \cup Entries(statuses[c])
    BY <1>0, <1>5, EntriesConcat DEF PipesTypeOK, RecordHistory
  <2>2. /\ statuses'[c] = <<>> /\ \A d \in Callers \ {c} : statuses'[d] = statuses[d]
        /\ inserted' = inserted /\ pipe' = pipe
    BY <1>0, <1>5 DEF PipesTypeOK, RecordHistory, Answered
  <2>3. Known' = Known
    BY <2>1, <2>2, EntriesEmpty DEF Known
  <2> QED BY <1>0, <2>2, <2>3
<1> QED
  BY <1>1, <1>2, <1>3, <1>4, <1>5
  DEF PipesNext, DropPipe, ResetPipes, InsertWork, AlterPipe, InsertFiles, pipeVars

LEMMA PipesInductive == PipesSpec => []PipesInv
<1>1. PipesInv /\ [PipesNext]_pipeVars => PipesInv'
  BY PipesTypeStep, CallsStep, OwnStep, KnownStep DEF PipesInv
<1> QED BY <1>1, PipesInitInv, PTL DEF PipesSpec

(* Every result is final and belongs to a pipe, a call and a file of it     *)
(* (snowpipe.go:161).                                                       *)
THEOREM PipesTypeCorrect == PipesSpec => []PipesTypeOK
<1>1. PipesInv => PipesTypeOK
  BY DEF PipesInv
<1> QED BY <1>1, PipesInductive, PTL

(* For every number of callers, pipes and files: the history of a pipe      *)
(* holds another pipe's results only from calls that were running when      *)
(* their pipe was dropped (snowpipe.go:185).                                *)
THEOREM HistoryOwned == PipesSpec => []OwnHistory
<1>1. PipesInv => OwnHistory
  BY DEF PipesInv
<1> QED BY <1>1, PipesInductive, PTL

(* For every number of callers, pipes and files: what the present pipe      *)
(* inserted is recorded or about to be, and nothing else is claimed.        *)
THEOREM InsertsRecorded == PipesSpec => []NothingUnrecorded
<1>1. PipesInv => NothingUnrecorded
  BY DEF PipesInv
<1> QED BY <1>1, PipesInductive, PTL

----------------------------------------------------------------------------
(* Transactions: the pool.  Every connection is free once or held by one     *)
(* running statement; rows are pending only inside a transaction.            *)
TxPool ==
    /\ Len(free) <= MaxIdle
    /\ \A i, j \in 1 .. Len(free) : free[i] = free[j] => i = j
    /\ \A s \in TxSessions : conn[s] # NoConn <=> txPc[s] = "run"
    /\ \A s \in TxSessions, i \in 1 .. Len(free) : free[i] # conn[s]
    /\ \A s, t \in TxSessions : conn[s] = conn[t] /\ conn[s] # NoConn => s = t
    /\ \A c \in Conns \ open : pend[c] = {}

(* A row between INSERT and record is kept by its session, so that every row *)
(* made so far is recorded or about to be, unless its statement was misread. *)
TxRows ==
    /\ \A s \in TxSessions : (row[s] # 0 <=> txPc[s] = "record") /\ row[s] <= rowsMade
    /\ \A s \in TxSessions : txPc[s] = "record" => stmt[s] = "insert"
    /\ \A s \in TxSessions : stmt[s] \in {"capture", "insert"} => left[s] >= 1
    /\ \A s \in TxSessions : row[s] # 0 /\ form[s] # "plain" => row[s] \in misread
    /\ \A r \in 1 .. rowsMade : r \in recorded \cup misread \/ \E s \in TxSessions : row[s] = r
    /\ \A r \in committed \cup recorded \cup undone : r <= rowsMade
    /\ \A c \in Conns : \A r \in pend[c] : r <= rowsMade

(* The connection of the next statement of the session's transaction. *)
Home(s) == IF txPc[s] = "run" THEN conn[s] ELSE free[Len(free)]

(* No other session runs a statement or has a transaction. *)
Alone(s) == \A t \in TxSessions \ {s} : t \notin inTx /\ txPc[t] # "run"

(* Until a transaction is shared: the session that has one is alone, its     *)
(* transaction is the only one, on the connection it will use next, and the  *)
(* pool has room for that connection to come back.                           *)
TxAlone ==
    /\ \A s \in TxSessions : (s \in inTx \/ Running(s, "begin")) =>
          Alone(s) /\ (txPc[s] = "run" => Len(free) < MaxIdle)
    /\ inTx = {} => open = {}
    /\ \A s \in inTx : /\ txPc[s] # "run" => free # <<>>
                       /\ open = {Home(s)} /\ pend[Home(s)] = mine[s]
    /\ \A s \in TxSessions \ inTx : mine[s] = {}

(* ... and every row is where the clients were told: committed, undone or    *)
(* pending, never two of these.                                              *)
TxKept ==
    /\ committed = durable /\ undone \cap committed = {}
    /\ \A c \in open : pend[c] \cap (committed \cup undone) = {}
    /\ \A r \in 1 .. rowsMade : r \in committed \/ r \in undone \/ \E c \in open : r \in pend[c]

(* The inductive invariant. *)
TxInv == TxTypeOK /\ TxPool /\ TxRows /\ (~shared => TxAlone /\ TxKept)

----------------------------------------------------------------------------
(* The pool never runs out: with a connection number for every session, one  *)
(* is unused while this session holds none.                                  *)
LEMMA TxSpare ==
    ASSUME NEW s \in TxSessions, conn \in [TxSessions -> Conns \cup {NoConn}], conn[s] = NoConn
    PROVE  Min(Conns \ Held) \in Conns \ Held
<1> DEFINE others == TxSessions \ {s}
           used   == {conn[t] : t \in others}
<1>1. IsFiniteSet(TxSessions) /\ Cardinality(TxSessions) <= MaxConns /\ MaxConns \in Nat
  <2>1. {MaxConns, MaxRows, MaxBulk} \subseteq Nat
        /\ IsFiniteSet(Writers \cup Readers) /\ Cardinality(Writers \cup Readers) <= MaxConns
    BY TxAssumption
  <2> QED
    BY <2>1 DEF TxSessions
<1>2. IsFiniteSet(others) /\ Cardinality(others) = Cardinality(TxSessions) - 1
  BY <1>1, FS_RemoveElement
<1>3. IsFiniteSet(used) /\ Cardinality(used) <= Cardinality(others)
  <2>1. [t \in others |-> conn[t]] \in Surjection(others, used)
    BY DEF Surjection
  <2> QED
    BY <1>2, <2>1, FS_Surjection
<1>4. IsFiniteSet(Conns) /\ Cardinality(Conns) = MaxConns
  BY <1>1, FS_Interval DEF Conns
<1>5. Cardinality(TxSessions) \in Nat /\ Cardinality(used) \in Nat
  BY <1>1, <1>3, FS_CardinalityType
<1>6. ~ (Conns \subseteq used)
  BY <1>1, <1>2, <1>3, <1>4, <1>5, FS_Subset
<1>7. PICK c \in Conns : c \notin used
  BY <1>6
<1>8. c \notin Held
  BY <1>7 DEF Held, Conns, NoConn
<1>9. Conns \ Held \subseteq Nat
  BY DEF Conns
<1> DEFINE S == Conns \ Held
<1>10. S \subseteq Nat /\ S # {}
  BY <1>7, <1>8, <1>9
<1> HIDE DEF S
<1>11. PICK x \in S : \A y \in S : ~(<<y, x>> \in OpToRel(<, Nat))
  BY <1>10, NatLessThanWellFounded, WFMin
<1>12. \A y \in S : x <= y
  <2>1. \A a, b \in Nat : a < b => <<a, b>> \in OpToRel(<, Nat)
    BY DEF OpToRel
  <2>2. ASSUME NEW y \in S PROVE ~(y < x)
    BY <1>10, <1>11, <2>1
  <2>3. S \subseteq Int
    BY <1>10
  <2> QED
    BY <2>2, <2>3
<1> QED
  BY <1>12 DEF Min, S

LEMMA TxInitInv == TxInit => TxInv
<1> SUFFICES ASSUME TxInit PROVE TxInv
  OBVIOUS
<1>1. MaxConns \in Nat /\ MaxRows \in Nat /\ MaxBulk \in Nat /\ MaxIdle \in Nat
  <2>1. {MaxConns, MaxRows, MaxBulk} \subseteq Nat /\ MaxIdle \in Nat \ {0}
    BY TxAssumption
  <2> QED
    BY <2>1
<1>2. free = << >> /\ free \in Seq(Conns) /\ Len(free) = 0
  BY EmptySeq DEF TxInit
<1>3. TxTypeOK
  <2>1. free \in Seq(Conns) /\ open \subseteq Conns /\ pend \in [Conns -> SUBSET Rows]
    BY <1>2 DEF TxInit
  <2>2. /\ txPc \in [TxSessions -> {"idle", "take", "run", "record"}]
        /\ stmt \in [TxSessions -> Statements] /\ conn \in [TxSessions -> Conns \cup {NoConn}]
    BY DEF TxInit, Statements
  <2>3. /\ left \in [TxSessions -> 0 .. MaxBulk] /\ row \in [TxSessions -> 0 .. MaxRows]
        /\ rowsMade \in 0 .. MaxRows
        /\ form \in [TxSessions -> TextForms] /\ misread \subseteq Rows
    BY <1>1 DEF TxInit, TextForms
  <2>4. /\ inTx \subseteq TxSessions /\ mine \in [TxSessions -> SUBSET Rows]
        /\ committed \subseteq Rows /\ recorded \subseteq Rows
        /\ durable \subseteq Rows /\ undone \subseteq Rows /\ shared \in BOOLEAN
    BY DEF TxInit
  <2> QED
    BY <2>1, <2>2, <2>3, <2>4 DEF TxTypeOK
<1>4. TxPool
  BY <1>1, <1>2 DEF TxInit, TxPool
<1>5. TxRows
  BY DEF TxInit, TxRows
<1>6. TxAlone
  BY DEF TxInit, TxAlone, Running
<1>7. TxKept
  BY DEF TxInit, TxKept
<1> QED
  BY <1>3, <1>4, <1>5, <1>6, <1>7 DEF TxInv

(* What a statement gets from the pool: a connection nobody holds, the one  *)
(* returned last if there is any, and room to return it.                    *)
LEMMA TxConnect ==
    ASSUME TxInv, NEW s \in TxSessions, txPc[s] # "run", Connect(s)
    PROVE  /\ conn'[s] \in Conns /\ \A t \in TxSessions \ {s} : conn'[t] = conn[t]
           /\ \A t \in TxSessions \ {s} : conn[t] # conn'[s]
           /\ conn' \in [TxSessions -> Conns \cup {NoConn}] /\ free' \in Seq(Conns)
           /\ Len(free') <= Len(free) /\ Len(free') < MaxIdle
           /\ \A i \in 1 .. Len(free') : free'[i] = free[i] /\ free'[i] # conn'[s]
           /\ free # << >> => conn'[s] = free[Len(free)]
           /\ txPc' = [txPc EXCEPT ![s] = "run"]
<1>0. MaxIdle \in Nat \ {0}
  BY TxAssumption
<1>1. free \in Seq(Conns) /\ conn \in [TxSessions -> Conns \cup {NoConn}] /\ conn[s] = NoConn
  BY DEF TxInv, TxTypeOK, TxPool
<1>2. Len(free) \in Nat /\ Len(free) <= MaxIdle
  BY <1>1, LenProperties DEF TxInv, TxPool
<1>3. CASE free # << >>
  <2>1. /\ conn' = [conn EXCEPT ![s] = free[Len(free)]]
        /\ free' = SubSeq(free, 1, Len(free) - 1) /\ txPc' = [txPc EXCEPT ![s] = "run"]
    BY <1>3 DEF Connect
  <2>2. Len(free) >= 1
    BY <1>1, <1>2, <1>3, EmptySeq
  <2>3. \A i \in 1 .. Len(free) : free[i] \in Conns
    BY <1>1, ElementOfSeq
  <2>4. free[Len(free)] \in Conns
    BY <1>2, <2>2, <2>3
  <2>5. \A i \in 1 .. Len(free) - 1 : free[i] \in Conns
    BY <1>2, <2>3
  <2>6. /\ free' \in Seq(Conns) /\ Len(free') = Len(free) - 1
        /\ \A i \in 1 .. Len(free) - 1 : free'[i] = free[i]
    <3> DEFINE L == Len(free)
               f == SubSeq(free, 1, L - 1)
    <3>1. L \in Nat /\ L >= 1 /\ 1 \in Int /\ L - 1 \in Int
      BY <1>2, <2>2
    <3>2. /\ f \in Seq(Conns)
          /\ Len(f) = IF 1 <= L - 1 THEN (L - 1) - 1 + 1 ELSE 0
          /\ \A i \in 1 .. (L - 1) - 1 + 1 : f[i] = free[1 + i - 1]
      BY <3>1, <2>5, SubSeqProperties
    <3>3. free' = f
      BY <2>1
    <3> HIDE DEF f, L
    <3>4. (L - 1) - 1 + 1 = L - 1 /\ \A i \in 1 .. L - 1 : 1 + i - 1 = i
      BY <3>1
    <3>5. Len(f) = L - 1
      BY <3>1, <3>2
    <3>6. \A i \in 1 .. L - 1 : f[i] = free[i]
      BY <3>2, <3>4
    <3> QED
      BY <3>2, <3>3, <3>5, <3>6 DEF L
  <2>7. conn'[s] = free[Len(free)] /\ \A t \in TxSessions \ {s} : conn'[t] = conn[t]
    BY <1>1, <2>1
  <2>8. \A t \in TxSessions \ {s} : conn[t] # conn'[s]
    BY <2>2, <2>7, <1>2 DEF TxInv, TxPool
  <2>9. \A i \in 1 .. Len(free') : free'[i] # conn'[s]
    BY <2>2, <2>6, <2>7, <1>2 DEF TxInv, TxPool
  <2>10. conn' \in [TxSessions -> Conns \cup {NoConn}]
    BY <1>1, <2>1, <2>4
  <2>11. Len(free') <= Len(free) /\ Len(free') < MaxIdle
    BY <1>0, <1>2, <2>6
  <2>12. \A i \in 1 .. Len(free') : free'[i] = free[i]
    BY <1>2, <2>6
  <2> QED
    BY <2>1, <2>4, <2>6, <2>7, <2>8, <2>9, <2>10, <2>11, <2>12
<1>4. CASE free = << >>
  <2>1. /\ conn' = [conn EXCEPT ![s] = Min(Conns \ Held)] /\ free' = free
        /\ txPc' = [txPc EXCEPT ![s] = "run"]
    BY <1>4 DEF Connect
  <2>2. Min(Conns \ Held) \in Conns \ Held
    BY <1>1, TxSpare
  <2>3. conn'[s] = Min(Conns \ Held) /\ \A t \in TxSessions \ {s} : conn'[t] = conn[t]
    BY <1>1, <2>1
  <2>4. \A t \in TxSessions : conn[t] \in Held
    BY DEF Held
  <2>5. conn' \in [TxSessions -> Conns \cup {NoConn}]
    BY <1>1, <2>1, <2>2
  <2>6. Len(free) = 0
    BY <1>4, EmptySeq
  <2>7. Len(free') <= Len(free) /\ Len(free') < MaxIdle
    BY <1>0, <2>1, <2>6
  <2>8. \A i \in 1 .. Len(free') : free'[i] = free[i] /\ free'[i] # conn'[s]
    BY <2>1, <2>6
  <2> QED
    BY <1>1, <1>4, <2>1, <2>2, <2>3, <2>4, <2>5, <2>7, <2>8
<1> QED
  BY <1>3, <1>4

(* What the pool is left with when a statement is done: its connection on   *)
(* top, or closed.                                                          *)
LEMMA TxRelease ==
    ASSUME TxInv, NEW s \in TxSessions, txPc[s] = "run",
           NEW inside \in BOOLEAN, NEW rows \in SUBSET Rows, Release(s, inside, rows),
           txPc' \in [TxSessions -> {"idle", "take", "run", "record"}], txPc'[s] # "run",
           \A t \in TxSessions \ {s} : txPc'[t] = txPc[t]
    PROVE  /\ conn[s] \in Conns
           /\ TxPool' /\ free' \in Seq(Conns) /\ open' \subseteq Conns
           /\ pend' \in [Conns -> SUBSET Rows]
           /\ conn' \in [TxSessions -> Conns \cup {NoConn}]
           /\ Len(free) < MaxIdle => /\ free' # << >> /\ free'[Len(free')] = conn[s]
                                     /\ open' = IF inside THEN open \cup {conn[s]}
                                                          ELSE open \ {conn[s]}
                                     /\ pend'[conn[s]] = IF inside THEN rows ELSE {}
           /\ ~inside => open' = open \ {conn[s]}
           /\ pend'[conn[s]] \in {rows, {}}
           /\ \A c \in Conns \ {conn[s]} : pend'[c] = pend[c]
<1> DEFINE c == conn[s]
           keep == Len(free) < MaxIdle
<1>0. MaxIdle \in Nat \ {0}
  BY TxAssumption
<1>1. /\ conn' = [conn EXCEPT ![s] = NoConn]
      /\ free' = IF keep THEN Append(free, c) ELSE free
      /\ open' = IF inside /\ keep THEN open \cup {c} ELSE open \ {c}
      /\ pend' = [pend EXCEPT ![c] = IF inside /\ keep THEN rows ELSE {}]
  BY DEF Release
<1>2. /\ free \in Seq(Conns) /\ conn \in [TxSessions -> Conns \cup {NoConn}]
      /\ open \subseteq Conns /\ pend \in [Conns -> SUBSET Rows]
  BY DEF TxInv, TxTypeOK
<1>3. c \in Conns /\ c # NoConn
  BY <1>2 DEF TxInv, TxPool
<1>4. Len(free) \in Nat /\ Len(free) <= MaxIdle
  BY <1>2, LenProperties DEF TxInv, TxPool
<1> HIDE DEF c, keep
<1>5. /\ conn' \in [TxSessions -> Conns \cup {NoConn}] /\ conn'[s] = NoConn
      /\ \A t \in TxSessions \ {s} : conn'[t] = conn[t]
  BY <1>1, <1>2
<1>6. /\ pend' \in [Conns -> SUBSET Rows] /\ pend'[c] = (IF inside /\ keep THEN rows ELSE {})
      /\ \A d \in Conns \ {c} : pend'[d] = pend[d]
  BY <1>1, <1>2, <1>3
<1>7. open' \subseteq Conns
  BY <1>1, <1>2, <1>3
<1>8. /\ Append(free, c) \in Seq(Conns) /\ Len(Append(free, c)) = Len(free) + 1
      /\ \A i \in 1 .. Len(free) : Append(free, c)[i] = free[i]
      /\ Append(free, c)[Len(free) + 1] = c /\ Append(free, c) # << >>
  BY <1>2, <1>3, AppendProperties
<1>9. free' \in Seq(Conns)
  BY <1>1, <1>2, <1>8
<1>10. /\ Len(free') = IF keep THEN Len(free) + 1 ELSE Len(free)
       /\ \A i \in 1 .. Len(free) : free'[i] = free[i]
       /\ keep => free'[Len(free) + 1] = c /\ free' # << >>
  BY <1>1, <1>8
<1>11. TxPool'
  <2>1. Len(free') <= MaxIdle
    BY <1>0, <1>4, <1>10 DEF keep
  <2>2. \A t \in TxSessions, i \in 1 .. Len(free) : free[i] # conn[t]
    BY DEF TxInv, TxPool
  <2>3. \A i, j \in 1 .. Len(free') : free'[i] = free'[j] => i = j
    <3> SUFFICES ASSUME NEW i \in 1 .. Len(free'), NEW j \in 1 .. Len(free'), free'[i] = free'[j]
                 PROVE  i = j
      OBVIOUS
    <3>1. \A k \in 1 .. Len(free') : k \in 1 .. Len(free) \/ (keep /\ k = Len(free) + 1)
      BY <1>4, <1>10
    <3>2. \A k \in 1 .. Len(free) : free[k] # c
      BY <2>2 DEF c
    <3>3. \A k, l \in 1 .. Len(free) : free[k] = free[l] => k = l
      BY DEF TxInv, TxPool
    <3> QED
      BY <1>10, <3>1, <3>2, <3>3
  <2>4. \A t \in TxSessions : conn'[t] # NoConn <=> txPc'[t] = "run"
    BY <1>5 DEF TxInv, TxPool
  <2>5. \A t \in TxSessions, i \in 1 .. Len(free') : free'[i] # conn'[t]
    <3> SUFFICES ASSUME NEW t \in TxSessions, NEW i \in 1 .. Len(free') PROVE free'[i] # conn'[t]
      OBVIOUS
    <3>1. CASE t = s
      <4>1. free'[i] \in Conns
        BY <1>9, ElementOfSeq
      <4> QED
        BY <3>1, <4>1, <1>5 DEF Conns, NoConn
    <3>2. CASE t # s /\ i \in 1 .. Len(free)
      BY <3>2, <1>5, <1>10, <2>2
    <3>3. CASE t # s /\ i \notin 1 .. Len(free)
      <4>1. free'[i] = c
        BY <3>3, <1>4, <1>10
      <4>2. conn[t] # c
        BY <3>3, <1>3 DEF TxInv, TxPool, c
      <4> QED
        BY <3>3, <4>1, <4>2, <1>5
    <3> QED
      BY <3>1, <3>2, <3>3
  <2>6. \A t, u \in TxSessions : conn'[t] = conn'[u] /\ conn'[t] # NoConn => t = u
    BY <1>5 DEF TxInv, TxPool
  <2>7. \A d \in Conns \ open' : pend'[d] = {}
    BY <1>1, <1>6 DEF TxInv, TxPool
  <2> QED
    BY <2>1, <2>3, <2>4, <2>5, <2>6, <2>7 DEF TxPool
<1>12. keep => free' # << >> /\ free'[Len(free')] = c
  BY <1>10
<1> QED
  BY <1>1, <1>3, <1>5, <1>6, <1>7, <1>9, <1>11, <1>12 DEF c, keep

(* As long as no transaction is shared, a statement that runs finds its own *)
(* transaction on its connection, or there is none.                         *)
LEMMA TxSolo ==
    ASSUME TxInv, ~shared, NEW s \in TxSessions, txPc[s] = "run"
    PROVE  /\ inTx \subseteq {s}
           /\ s \in inTx \/ stmt[s] = "begin" => Len(free) < MaxIdle /\ Alone(s)
           /\ s \in inTx => open = {conn[s]} /\ pend[conn[s]] = mine[s]
           /\ s \notin inTx => open = {} /\ \A c \in Conns : pend[c] = {}
           /\ \A t \in TxSessions : t # s \/ s \notin inTx => mine[t] = {}
           /\ \A t \in TxSessions \ {s} : ~Running(t, "begin")
<1>1. TxAlone /\ TxPool /\ inTx \subseteq TxSessions
  BY DEF TxInv, TxTypeOK
<1>2. inTx \subseteq {s}
  BY <1>1 DEF TxAlone, Alone
<1>3. s \in inTx => open = {conn[s]} /\ pend[conn[s]] = mine[s]
  BY <1>1 DEF TxAlone, Home
<1>4. s \in inTx \/ stmt[s] = "begin" => Len(free) < MaxIdle /\ Alone(s)
  BY <1>1 DEF TxAlone, Running
<1>5. s \notin inTx => open = {} /\ \A c \in Conns : pend[c] = {}
  BY <1>1, <1>2 DEF TxAlone, TxPool
<1>6. \A t \in TxSessions : t # s \/ s \notin inTx => mine[t] = {}
  BY <1>1, <1>2 DEF TxAlone
<1>7. \A t \in TxSessions \ {s} : ~Running(t, "begin")
  BY <1>1 DEF TxAlone, Alone
<1> QED
  BY <1>2, <1>3, <1>4, <1>5, <1>6, <1>7

(* When the statement is done, its transaction waits on top of the pool. *)
LEMMA TxAloneAfter ==
    ASSUME TxInv, ~shared, NEW s \in TxSessions, txPc[s] = "run", txPc'[s] # "run",
           \A t \in TxSessions \ {s} : txPc'[t] = txPc[t] /\ stmt'[t] = stmt[t],
           \/ inTx' = {} /\ open' = {}
           \/ /\ inTx' = {s} /\ (s \in inTx \/ stmt[s] = "begin")
              /\ free' # << >> /\ open' = {free'[Len(free')]}
              /\ pend'[free'[Len(free')]] = mine'[s],
           \A t \in TxSessions \ inTx' : mine'[t] = {}
    PROVE  TxAlone'
<1>1. /\ inTx \subseteq {s} /\ (s \in inTx \/ stmt[s] = "begin" => Alone(s))
      /\ \A t \in TxSessions \ {s} : ~Running(t, "begin")
  BY TxSolo
<1>2. \A t \in TxSessions : t \in inTx' \/ Running(t, "begin")' => t = s /\ s \in inTx'
  BY <1>1 DEF Running
<1>3. s \in inTx' => Alone(s)'
  BY <1>1 DEF Alone
<1>4. \A t \in inTx' : /\ txPc'[t] # "run" => free' # <<>>
                       /\ open' = {Home(t)'} /\ pend'[Home(t)'] = mine'[t]
  BY DEF Home
<1>5. inTx' = {} => open' = {}
  OBVIOUS
<1> QED
  BY <1>2, <1>3, <1>4, <1>5 DEF TxAlone

(* A statement starts. *)
LEMMA TxEnter ==
    ASSUME TxInv, NEW s \in TxSessions, NEW op \in Statements, txPc[s] \in {"idle", "take"},
           Connect(s), Share(s, op), stmt' = [stmt EXCEPT ![s] = op],
           left' \in [TxSessions -> 0 .. MaxBulk],
           \A t \in TxSessions \ {s} : left'[t] = left[t],
           op \in {"capture", "insert"} => left'[s] >= 1,
           form' \in [TxSessions -> TextForms], \A t \in TxSessions \ {s} : form'[t] = form[t],
           UNCHANGED <<open, pend, row, rowsMade, committed, recorded, misread>>
    PROVE  TxInv'
<1>1. /\ conn'[s] \in Conns /\ \A t \in TxSessions \ {s} : conn'[t] = conn[t]
      /\ \A t \in TxSessions \ {s} : conn[t] # conn'[s]
      /\ conn' \in [TxSessions -> Conns \cup {NoConn}] /\ free' \in Seq(Conns)
      /\ Len(free') <= Len(free) /\ Len(free') < MaxIdle
      /\ \A i \in 1 .. Len(free') : free'[i] = free[i] /\ free'[i] # conn'[s]
      /\ free # << >> => conn'[s] = free[Len(free)]
      /\ txPc' = [txPc EXCEPT ![s] = "run"]
  BY TxConnect
<1>2. /\ txPc' \in [TxSessions -> {"idle", "take", "run", "record"}]
      /\ stmt' \in [TxSessions -> Statements]
      /\ txPc'[s] = "run" /\ stmt'[s] = op
      /\ \A t \in TxSessions \ {s} : txPc'[t] = txPc[t] /\ stmt'[t] = stmt[t]
  BY <1>1 DEF TxInv, TxTypeOK
<1>3. /\ shared' \in BOOLEAN /\ inTx' \subseteq TxSessions
      /\ mine' \in [TxSessions -> SUBSET Rows] /\ durable' \subseteq Rows /\ undone' \subseteq Rows
      /\ undone' \subseteq undone
  <2>1. shared' \in BOOLEAN
    BY DEF Share
  <2>2. CASE shared'
    BY <2>1, <2>2 DEF Share
  <2>3. CASE ~shared'
    BY <2>1, <2>3 DEF Share, clientVars, TxInv, TxTypeOK
  <2> QED
    BY <2>1, <2>2, <2>3
<1>4. TxTypeOK'
  BY <1>1, <1>2, <1>3 DEF TxInv, TxTypeOK
<1>5. TxPool'
  <2>1. Len(free) \in Nat /\ Len(free') \in Nat /\ MaxIdle \in Nat
    BY <1>1, LenProperties, TxAssumption DEF TxInv, TxTypeOK
  <2>2. Len(free') <= MaxIdle /\ \A i \in 1 .. Len(free') : i \in 1 .. Len(free)
    BY <1>1, <2>1
  <2>3. \A i, j \in 1 .. Len(free') : free'[i] = free'[j] => i = j
    BY <1>1, <2>2 DEF TxInv, TxPool
  <2>4. conn'[s] # NoConn
    BY <1>1 DEF Conns, NoConn
  <2>5. \A t \in TxSessions : conn'[t] # NoConn <=> txPc'[t] = "run"
    <3>1. \A t \in TxSessions \ {s} : conn'[t] = conn[t] /\ txPc'[t] = txPc[t]
      BY <1>1, <1>2
    <3>2. \A t \in TxSessions : conn[t] # NoConn <=> txPc[t] = "run"
      BY DEF TxInv, TxPool
    <3> QED
      BY <1>2, <2>4, <3>1, <3>2
  <2>6. \A t \in TxSessions, i \in 1 .. Len(free') : free'[i] # conn'[t]
    BY <1>1, <2>2 DEF TxInv, TxPool
  <2>7. \A t, u \in TxSessions : conn'[t] = conn'[u] /\ conn'[t] # NoConn => t = u
    BY <1>1 DEF TxInv, TxPool
  <2>8. \A c \in Conns \ open' : pend'[c] = {}
    BY DEF TxInv, TxPool
  <2> QED
    BY <2>2, <2>3, <2>5, <2>6, <2>7, <2>8 DEF TxPool
<1>6. TxRows'
  <2>1. \A t \in TxSessions : row'[t] # 0 <=> txPc'[t] = "record"
    BY <1>2 DEF TxInv, TxRows
  <2>2. \A t \in TxSessions : txPc'[t] = "record" => stmt'[t] = "insert"
    BY <1>2 DEF TxInv, TxRows
  <2>3. \A t \in TxSessions : stmt'[t] \in {"capture", "insert"} => left'[t] >= 1
    BY <1>2 DEF TxInv, TxRows
  <2>4. \A t \in TxSessions : row'[t] # 0 /\ form'[t] # "plain" => row'[t] \in misread'
    BY DEF TxInv, TxRows
  <2> QED
    BY <1>3, <2>1, <2>2, <2>3, <2>4 DEF TxInv, TxRows
<1>7. ASSUME ~shared' PROVE TxAlone' /\ TxKept'
  <2>1. /\ ~shared /\ ~Overlaps(s, op)
        /\ inTx' = inTx /\ mine' = mine /\ durable' = durable /\ undone' = undone
    BY <1>7 DEF Share, clientVars
  <2>2. TxAlone /\ TxKept
    BY <2>1 DEF TxInv
  <2>3. \A t \in TxSessions \ {s} :
           t \notin inTx /\ (txPc[t] = "run" => s \notin inTx /\ op # "begin" /\ stmt[t] # "begin")
    BY <2>1 DEF Overlaps
  <2>4. \A t \in TxSessions : t \in inTx' \/ Running(t, "begin")' =>
           Alone(t)' /\ (txPc'[t] = "run" => Len(free') < MaxIdle)
    <3> SUFFICES ASSUME NEW t \in TxSessions, t \in inTx' \/ Running(t, "begin")'
                 PROVE  Alone(t)' /\ Len(free') < MaxIdle
      OBVIOUS
    <3>1. t = s
      BY <1>2, <2>1, <2>3 DEF Running
    <3>2. s \in inTx \/ op = "begin"
      BY <1>2, <2>1, <3>1 DEF Running
    <3> QED
      BY <1>1, <1>2, <2>1, <2>3, <3>1, <3>2 DEF Alone
  <2>5. \A t \in inTx' : /\ txPc'[t] # "run" => free' # <<>>
                         /\ open' = {Home(t)'} /\ pend'[Home(t)'] = mine'[t]
    <3> SUFFICES ASSUME NEW t \in inTx'
                 PROVE  /\ txPc'[t] = "run"
                        /\ open = {Home(t)'} /\ pend[Home(t)'] = mine[t]
      BY <2>1
    <3>1. t = s /\ s \in inTx
      BY <2>1, <2>3 DEF TxInv, TxTypeOK
    <3>2. free # << >> /\ open = {free[Len(free)]} /\ pend[free[Len(free)]] = mine[s]
      BY <2>2, <3>1 DEF TxAlone, Home
    <3>3. Home(s)' = free[Len(free)]
      BY <1>1, <1>2, <3>2 DEF Home
    <3> QED
      BY <1>2, <3>1, <3>2, <3>3
  <2>6. TxAlone'
    BY <2>1, <2>2, <2>4, <2>5 DEF TxAlone
  <2>7. TxKept'
    BY <2>1, <2>2 DEF TxKept
  <2> QED
    BY <2>6, <2>7
<1> QED
  BY <1>4, <1>5, <1>6, <1>7 DEF TxInv

LEMMA TxRequest ==
    ASSUME TxInv, NEW s \in TxSessions,
           \/ \E op \in {"read", "begin", "commit", "rollback"} : Request(s, op, 0, "plain")
           \/ \E n \in 1 .. MaxBulk, f \in TextForms : Request(s, First(f), n, f)
           \/ Continue(s)
    PROVE  TxInv'
<1>0. /\ MaxBulk \in Nat /\ left \in [TxSessions -> 0 .. MaxBulk]
      /\ stmt \in [TxSessions -> Statements] /\ form \in [TxSessions -> TextForms]
  <2>1. {MaxConns, MaxRows, MaxBulk} \subseteq Nat
    BY TxAssumption
  <2> QED
    BY <2>1 DEF TxInv, TxTypeOK
<1>1. ASSUME NEW op \in Statements, NEW n \in 0 .. MaxBulk, NEW f \in TextForms,
             Request(s, op, n, f), op \in {"capture", "insert"} => n >= 1
      PROVE  TxInv'
  <2>1. /\ txPc[s] \in {"idle", "take"} /\ Connect(s) /\ Share(s, op)
        /\ stmt' = [stmt EXCEPT ![s] = op]
        /\ UNCHANGED <<open, pend, row, rowsMade, committed, recorded, misread>>
    BY <1>1 DEF Request
  <2>2. left' = [left EXCEPT ![s] = n] /\ form' = [form EXCEPT ![s] = f]
    BY <1>1 DEF Request
  <2>3. /\ left' \in [TxSessions -> 0 .. MaxBulk]
        /\ \A t \in TxSessions \ {s} : left'[t] = left[t]
        /\ op \in {"capture", "insert"} => left'[s] >= 1
        /\ form' \in [TxSessions -> TextForms]
        /\ \A t \in TxSessions \ {s} : form'[t] = form[t]
    BY <1>0, <1>1, <2>2
  <2> QED
    BY <2>1, <2>3, TxEnter
<1>2. ASSUME NEW op \in {"read", "begin", "commit", "rollback"}, Request(s, op, 0, "plain")
      PROVE  TxInv'
  <2>1. op \in Statements /\ op \notin {"capture", "insert"} /\ 0 \in 0 .. MaxBulk
        /\ "plain" \in TextForms
    BY <1>0 DEF Statements, TextForms
  <2> QED
    BY <1>1, <1>2, <2>1
<1>3. ASSUME NEW n \in 1 .. MaxBulk, NEW f \in TextForms, Request(s, First(f), n, f) PROVE TxInv'
  <2>1. First(f) \in Statements /\ n \in 0 .. MaxBulk /\ n >= 1
    BY <1>0 DEF First, Statements
  <2> QED
    BY <1>1, <1>3, <2>1
<1>4. CASE Continue(s)
  <2> DEFINE op == stmt[s]
  <2>1. /\ txPc[s] \in {"idle", "take"} /\ Connect(s) /\ Share(s, op)
        /\ UNCHANGED <<open, pend, stmt, left, row, form, rowsMade, committed, recorded, misread>>
    BY <1>4 DEF Continue
  <2>2. stmt' = [stmt EXCEPT ![s] = op] /\ op \in Statements
    BY <1>0, <2>1
  <2>3. op \in {"capture", "insert"} => left'[s] >= 1
    BY <2>1 DEF TxInv, TxRows
  <2>4. left' \in [TxSessions -> 0 .. MaxBulk] /\ \A t \in TxSessions \ {s} : left'[t] = left[t]
    BY <1>0, <2>1
  <2>5. form' \in [TxSessions -> TextForms] /\ \A t \in TxSessions \ {s} : form'[t] = form[t]
    BY <1>0, <2>1
  <2> HIDE DEF op
  <2> QED
    BY <2>1, <2>2, <2>3, <2>4, <2>5, TxEnter
<1> QED
  BY <1>2, <1>3, <1>4

(* A statement that makes no row leaves every row accounted for. *)
LEMMA TxRowsAfter ==
    ASSUME TxInv, NEW s \in TxSessions, txPc[s] = "run", txPc'[s] \in {"idle", "take"},
           \A t \in TxSessions \ {s} :
              txPc'[t] = txPc[t] /\ stmt'[t] = stmt[t] /\ left'[t] = left[t],
           stmt'[s] \in {"capture", "insert"} => left'[s] >= 1,
           \A t \in TxSessions : row'[t] = row[t],
           \A t \in TxSessions \ {s} : form'[t] = form[t],
           UNCHANGED <<rowsMade, recorded, misread>>,
           \A r \in committed' \cup undone' : r <= rowsMade,
           \A c \in Conns : \A r \in pend'[c] : r <= rowsMade
    PROVE  TxRows'
<1>1. \A t \in TxSessions : (row'[t] # 0 <=> txPc'[t] = "record") /\ row'[t] <= rowsMade'
  BY DEF TxInv, TxRows
<1>2. \A t \in TxSessions : txPc'[t] = "record" => stmt'[t] = "insert"
  BY DEF TxInv, TxRows
<1>3. \A t \in TxSessions : stmt'[t] \in {"capture", "insert"} => left'[t] >= 1
  BY DEF TxInv, TxRows
<1>4. \A r \in 1 .. rowsMade' :
         r \in recorded' \cup misread' \/ \E t \in TxSessions : row'[t] = r
  BY DEF TxInv, TxRows
<1>5. \A r \in committed' \cup recorded' \cup undone' : r <= rowsMade'
  BY DEF TxInv, TxRows
<1>6. \A t \in TxSessions : row'[t] # 0 /\ form'[t] # "plain" => row'[t] \in misread'
  BY <1>1 DEF TxInv, TxRows
<1> QED
  BY <1>1, <1>2, <1>3, <1>4, <1>5, <1>6 DEF TxRows

(* The request is over. *)
LEMMA TxEnds ==
    ASSUME TxInv, NEW s \in TxSessions, Ends(s)
    PROVE  /\ txPc' \in [TxSessions -> {"idle", "take", "run", "record"}]
           /\ stmt' \in [TxSessions -> Statements]
           /\ left' \in [TxSessions -> 0 .. MaxBulk] /\ row' \in [TxSessions -> 0 .. MaxRows]
           /\ form' \in [TxSessions -> TextForms]
           /\ txPc'[s] = "idle" /\ stmt'[s] = "read" /\ row'[s] = 0
           /\ \A t \in TxSessions \ {s} : /\ txPc'[t] = txPc[t] /\ stmt'[t] = stmt[t]
                                           /\ left'[t] = left[t] /\ row'[t] = row[t]
                                           /\ form'[t] = form[t]
<1>1. MaxBulk \in Nat /\ MaxRows \in Nat
  <2>1. {MaxConns, MaxRows, MaxBulk} \subseteq Nat
    BY TxAssumption
  <2> QED
    BY <2>1
<1>2. 0 \in 0 .. MaxBulk /\ 0 \in 0 .. MaxRows /\ "read" \in Statements /\ "plain" \in TextForms
  BY <1>1 DEF Statements, TextForms
<1>3. /\ txPc' \in [TxSessions -> {"idle", "take", "run", "record"}]
      /\ stmt' \in [TxSessions -> Statements]
      /\ txPc'[s] = "idle" /\ stmt'[s] = "read"
      /\ \A t \in TxSessions \ {s} : txPc'[t] = txPc[t] /\ stmt'[t] = stmt[t]
  BY <1>2 DEF Ends, TxInv, TxTypeOK
<1>4. /\ left' \in [TxSessions -> 0 .. MaxBulk] /\ row' \in [TxSessions -> 0 .. MaxRows]
      /\ row'[s] = 0
      /\ \A t \in TxSessions \ {s} : left'[t] = left[t] /\ row'[t] = row[t]
  BY <1>2 DEF Ends, TxInv, TxTypeOK
<1>5. form' \in [TxSessions -> TextForms] /\ \A t \in TxSessions \ {s} : form'[t] = form[t]
  BY <1>2 DEF Ends, TxInv, TxTypeOK
<1> QED
  BY <1>3, <1>4, <1>5

(* Statements that end no transaction, begin none and make no row. *)
LEMMA TxQuiet ==
    ASSUME TxInv, NEW s \in TxSessions, RunRead(s) \/ RunCapture(s) \/ InsertFails(s)
    PROVE  TxInv'
<1>1. /\ txPc[s] = "run" /\ stmt[s] # "begin"
      /\ Release(s, conn[s] \in open, pend[conn[s]])
      /\ UNCHANGED <<rowsMade, committed, recorded, misread, shared, inTx, mine, durable, undone>>
  <2>1. txPc[s] = "run" /\ stmt[s] # "begin"
    BY DEF RunRead, RunCapture, InsertFails, Running
  <2>2. Release(s, conn[s] \in open, pend[conn[s]])
    BY DEF RunRead, RunCapture, InsertFails, AsBefore
  <2>3. UNCHANGED <<rowsMade, committed, recorded, misread, shared, inTx, mine, durable, undone>>
    BY DEF RunRead, RunCapture, InsertFails, clientVars
  <2> QED
    BY <2>1, <2>2, <2>3
<1>2. row[s] = 0
  BY <1>1 DEF TxInv, TxRows
<1>3. /\ txPc' \in [TxSessions -> {"idle", "take", "run", "record"}]
      /\ stmt' \in [TxSessions -> Statements]
      /\ left' \in [TxSessions -> 0 .. MaxBulk] /\ row' \in [TxSessions -> 0 .. MaxRows]
      /\ form' \in [TxSessions -> TextForms]
      /\ txPc'[s] \in {"idle", "take"}
      /\ stmt'[s] \in {"capture", "insert"} => left'[s] >= 1
      /\ \A t \in TxSessions \ {s} :
            /\ txPc'[t] = txPc[t] /\ stmt'[t] = stmt[t] /\ left'[t] = left[t]
            /\ form'[t] = form[t]
      /\ \A t \in TxSessions : row'[t] = row[t]
  <2>1. CASE Ends(s)
    BY <2>1, <1>2, TxEnds
  <2>2. CASE RunCapture(s)
    <3>1. "insert" \in Statements
      BY DEF Statements
    <3>2. left[s] >= 1
      BY <2>2 DEF RunCapture, Running, TxInv, TxRows
    <3>3. /\ txPc' = [txPc EXCEPT ![s] = "take"] /\ stmt' = [stmt EXCEPT ![s] = "insert"]
          /\ left' = left /\ row' = row /\ form' = form
      BY <2>2 DEF RunCapture
    <3> QED
      BY <3>1, <3>2, <3>3 DEF TxInv, TxTypeOK
  <2> QED
    BY <2>1, <2>2 DEF RunRead, InsertFails
<1> DEFINE inside == conn[s] \in open
           rows   == pend[conn[s]]
<1>4. inside \in BOOLEAN /\ rows \in SUBSET Rows /\ Release(s, inside, rows)
  <2>1. conn[s] \in Conns
    BY <1>1 DEF TxInv, TxTypeOK, TxPool
  <2> QED
    BY <2>1, <1>1 DEF TxInv, TxTypeOK
<1> HIDE DEF inside, rows
<1>5. /\ conn[s] \in Conns
      /\ TxPool' /\ free' \in Seq(Conns) /\ open' \subseteq Conns
      /\ pend' \in [Conns -> SUBSET Rows]
      /\ conn' \in [TxSessions -> Conns \cup {NoConn}]
      /\ Len(free) < MaxIdle => /\ free' # << >> /\ free'[Len(free')] = conn[s]
                                /\ open' = IF inside THEN open \cup {conn[s]}
                                                     ELSE open \ {conn[s]}
                                /\ pend'[conn[s]] = IF inside THEN rows ELSE {}
      /\ ~inside => open' = open \ {conn[s]}
      /\ pend'[conn[s]] \in {rows, {}}
      /\ \A c \in Conns \ {conn[s]} : pend'[c] = pend[c]
  <2>1. /\ txPc[s] = "run" /\ txPc'[s] # "run"
        /\ txPc' \in [TxSessions -> {"idle", "take", "run", "record"}]
        /\ \A t \in TxSessions \ {s} : txPc'[t] = txPc[t]
    BY <1>1, <1>3
  <2> QED
    BY <2>1, <1>4, TxRelease
<1>6. TxTypeOK'
  BY <1>1, <1>3, <1>5 DEF TxInv, TxTypeOK
<1>7. TxRows'
  <2>1. \A c \in Conns : \A r \in pend'[c] : r <= rowsMade
    BY <1>5 DEF TxInv, TxRows, rows
  <2>2. \A r \in committed' \cup undone' : r <= rowsMade
    BY <1>1 DEF TxInv, TxRows
  <2>3. UNCHANGED <<rowsMade, recorded, misread>>
    BY <1>1
  <2> QED
    BY <1>1, <1>3, <2>1, <2>2, <2>3, TxRowsAfter
<1>8. ASSUME ~shared' PROVE TxAlone' /\ TxKept'
  <2>1. ~shared
    BY <1>1, <1>8
  <2>2. /\ inTx \subseteq {s}
        /\ s \in inTx => Len(free) < MaxIdle /\ open = {conn[s]} /\ pend[conn[s]] = mine[s]
        /\ s \notin inTx => open = {} /\ \A c \in Conns : pend[c] = {}
        /\ \A t \in TxSessions : t # s \/ s \notin inTx => mine[t] = {}
    BY <1>1, <2>1, TxSolo
  <2>3. CASE s \in inTx
    <3>1. inside
      BY <2>2, <2>3 DEF inside
    <3>2. /\ free' # << >> /\ free'[Len(free')] = conn[s]
          /\ open' = {conn[s]} /\ pend'[conn[s]] = mine[s]
      BY <2>2, <2>3, <3>1, <1>5 DEF rows
    <3>3. inTx' = {s} /\ \A t \in TxSessions \ inTx' : mine'[t] = {}
      BY <1>1, <2>2, <2>3
    <3>4. TxAlone'
      BY <1>1, <1>3, <2>1, <2>3, <3>2, <3>3, TxAloneAfter
    <3>5. TxKept'
      BY <1>1, <2>1, <2>2, <2>3, <3>2 DEF TxInv, TxKept
    <3> QED
      BY <3>4, <3>5
  <2>4. CASE s \notin inTx
    <3>1. ~inside
      BY <2>2, <2>4 DEF inside
    <3>2. open' = {} /\ inTx' = {} /\ \A t \in TxSessions \ inTx' : mine'[t] = {}
      BY <1>1, <1>5, <2>2, <2>4, <3>1
    <3>3. TxAlone'
      BY <1>1, <1>3, <2>1, <3>2, TxAloneAfter
    <3>4. TxKept'
      BY <1>1, <2>1, <2>2, <2>4, <3>2 DEF TxInv, TxKept
    <3> QED
      BY <3>3, <3>4
  <2> QED
    BY <2>3, <2>4
<1> QED
  BY <1>5, <1>6, <1>7, <1>8 DEF TxInv

(* What the clients are told keeps its type. *)
LEMMA TxTold ==
    ASSUME TxInv, NEW in \in SUBSET TxSessions, NEW rows \in [TxSessions -> SUBSET Rows],
           NEW kept \in SUBSET Rows, NEW gone \in SUBSET Rows, Told(in, rows, kept, gone)
    PROVE  /\ inTx' \subseteq TxSessions /\ mine' \in [TxSessions -> SUBSET Rows]
           /\ durable' \subseteq Rows /\ undone' \subseteq Rows
           /\ undone' = undone \/ (~shared /\ undone' = gone)
           /\ ~shared => inTx' = in /\ mine' = rows /\ durable' = kept /\ undone' = gone
<1>1. CASE shared
  BY <1>1 DEF Told, clientVars, TxInv, TxTypeOK
<1>2. CASE ~shared
  BY <1>2 DEF Told
<1> QED
  BY <1>1, <1>2

LEMMA TxBegin ==
    ASSUME TxInv, NEW s \in TxSessions, RunBegin(s)
    PROVE  TxInv'
<1> DEFINE rows == pend[conn[s]]
           in   == IF conn[s] \in open THEN inTx ELSE inTx \cup {s}
<1>1. /\ txPc[s] = "run" /\ stmt[s] = "begin" /\ Ends(s) /\ Release(s, TRUE, rows)
      /\ Told(in, mine, durable, undone)
      /\ UNCHANGED <<rowsMade, committed, recorded, misread, shared>>
  BY DEF RunBegin, Running
<1>2. row[s] = 0 /\ rows \in SUBSET Rows
  BY <1>1 DEF TxInv, TxRows, TxPool, TxTypeOK
<1>3. in \in SUBSET TxSessions
  BY DEF TxInv, TxTypeOK
<1>4. /\ inTx' \subseteq TxSessions /\ mine' \in [TxSessions -> SUBSET Rows]
      /\ durable' \subseteq Rows /\ undone' \subseteq Rows /\ undone' = undone
      /\ ~shared => inTx' = in /\ mine' = mine /\ durable' = durable
  <2> HIDE DEF in
  <2> QED
    BY <1>1, <1>3, TxTold DEF TxInv, TxTypeOK
<1> HIDE DEF rows
<1>5. /\ txPc' \in [TxSessions -> {"idle", "take", "run", "record"}]
      /\ stmt' \in [TxSessions -> Statements]
      /\ left' \in [TxSessions -> 0 .. MaxBulk] /\ row' \in [TxSessions -> 0 .. MaxRows]
      /\ form' \in [TxSessions -> TextForms]
      /\ txPc'[s] = "idle" /\ stmt'[s] = "read"
      /\ \A t \in TxSessions \ {s} :
            /\ txPc'[t] = txPc[t] /\ stmt'[t] = stmt[t] /\ left'[t] = left[t]
            /\ form'[t] = form[t]
      /\ \A t \in TxSessions : row'[t] = row[t]
  BY <1>1, <1>2, TxEnds
<1>6. /\ conn[s] \in Conns
      /\ TxPool' /\ free' \in Seq(Conns) /\ open' \subseteq Conns
      /\ pend' \in [Conns -> SUBSET Rows]
      /\ conn' \in [TxSessions -> Conns \cup {NoConn}]
      /\ Len(free) < MaxIdle => /\ free' # << >> /\ free'[Len(free')] = conn[s]
                                /\ open' = open \cup {conn[s]}
                                /\ pend'[conn[s]] = rows
      /\ pend'[conn[s]] \in {rows, {}}
      /\ \A c \in Conns \ {conn[s]} : pend'[c] = pend[c]
  BY <1>1, <1>2, <1>5, TxRelease
<1>7. TxTypeOK'
  BY <1>1, <1>4, <1>5, <1>6 DEF TxInv, TxTypeOK
<1>8. TxRows'
  <2>1. \A c \in Conns : \A r \in pend'[c] : r <= rowsMade
    BY <1>6 DEF TxInv, TxRows, rows
  <2>2. \A r \in committed' \cup undone' : r <= rowsMade
    BY <1>1, <1>4 DEF TxInv, TxRows
  <2>3. txPc'[s] \in {"idle", "take"} /\ stmt'[s] \notin {"capture", "insert"}
        /\ UNCHANGED <<rowsMade, recorded, misread>>
    BY <1>1, <1>5
  <2> QED
    BY <1>1, <1>5, <2>1, <2>2, <2>3, TxRowsAfter
<1>9. ASSUME ~shared' PROVE TxAlone' /\ TxKept'
  <2>1. ~shared
    BY <1>1, <1>9
  <2>2. /\ inTx \subseteq {s} /\ Len(free) < MaxIdle
        /\ s \in inTx => open = {conn[s]} /\ pend[conn[s]] = mine[s]
        /\ s \notin inTx => open = {} /\ \A c \in Conns : pend[c] = {}
        /\ \A t \in TxSessions : t # s \/ s \notin inTx => mine[t] = {}
    BY <1>1, <2>1, TxSolo
  <2>3. inTx' = {s} /\ mine' = mine /\ durable' = durable
    BY <1>4, <2>1, <2>2
  <2>4. /\ free' # << >> /\ free'[Len(free')] = conn[s]
        /\ open' = {conn[s]} /\ pend'[conn[s]] = mine[s] /\ pend[conn[s]] = mine[s]
    BY <1>6, <2>2 DEF rows
  <2>5. TxAlone'
    <3>1. \A t \in TxSessions \ inTx' : mine'[t] = {}
      BY <2>2, <2>3
    <3>2. pend'[free'[Len(free')]] = mine'[s] /\ open' = {free'[Len(free')]}
      BY <2>3, <2>4
    <3>3. txPc'[s] # "run"
      BY <1>5
    <3> QED
      BY <1>1, <1>5, <2>1, <2>3, <2>4, <3>1, <3>2, <3>3, TxAloneAfter
  <2>6. TxKept'
    <3>1. TxKept
      BY <2>1 DEF TxInv
    <3>2. \A r \in 1 .. rowsMade : r \in committed \/ r \in undone \/ r \in pend[conn[s]]
      BY <2>2, <3>1 DEF TxKept
    <3>3. pend[conn[s]] \cap (committed \cup undone) = {}
      BY <1>6, <2>2, <3>1 DEF TxKept
    <3> QED
      BY <1>1, <1>4, <2>3, <2>4, <3>1, <3>2, <3>3 DEF TxKept
  <2> QED
    BY <2>5, <2>6
<1> QED
  BY <1>6, <1>7, <1>8, <1>9 DEF TxInv

(* COMMIT and ROLLBACK: the transaction of the connection ends. *)
LEMMA TxFinish ==
    ASSUME TxInv, NEW s \in TxSessions, RunCommit(s) \/ RunRollback(s)
    PROVE  TxInv'
<1> DEFINE rows == pend[conn[s]]
           kept == IF RunCommit(s) THEN durable \cup mine[s] ELSE durable
           gone == IF RunCommit(s) THEN undone ELSE undone \cup mine[s]
           none == [mine EXCEPT ![s] = {}]
<1>1. /\ txPc[s] = "run" /\ Ends(s) /\ Release(s, FALSE, {})
      /\ stmt[s] = IF RunCommit(s) THEN "commit" ELSE "rollback"
      /\ committed' = IF RunCommit(s) THEN committed \cup rows ELSE committed
      /\ UNCHANGED <<rowsMade, recorded, misread, shared>>
  BY DEF RunCommit, RunRollback, Running
<1>2. IF conn[s] \in open THEN Told(inTx \ {s}, none, kept, gone)
      ELSE inTx' = inTx /\ mine' = mine /\ durable' = durable /\ undone' = undone
  BY DEF RunCommit, RunRollback, Running, clientVars
<1>3. row[s] = 0 /\ rows \in SUBSET Rows /\ mine[s] \in SUBSET Rows
  BY <1>1 DEF TxInv, TxRows, TxPool, TxTypeOK
<1>4. /\ inTx \ {s} \in SUBSET TxSessions /\ none \in [TxSessions -> SUBSET Rows]
      /\ kept \in SUBSET Rows /\ gone \in SUBSET Rows
  BY <1>3 DEF TxInv, TxTypeOK
<1>5. /\ inTx' \subseteq TxSessions /\ mine' \in [TxSessions -> SUBSET Rows]
      /\ durable' \subseteq Rows /\ undone' \subseteq Rows
      /\ undone' = undone \/ (~shared /\ conn[s] \in open /\ undone' = gone)
      /\ ~shared /\ conn[s] \in open =>
            inTx' = inTx \ {s} /\ mine' = none /\ durable' = kept /\ undone' = gone
  <2> HIDE DEF none, kept, gone
  <2>1. CASE conn[s] \in open
    BY <1>2, <1>4, <2>1, TxTold
  <2>2. CASE conn[s] \notin open
    BY <1>2, <2>2 DEF TxInv, TxTypeOK
  <2> QED
    BY <2>1, <2>2
<1>6. /\ txPc' \in [TxSessions -> {"idle", "take", "run", "record"}]
      /\ stmt' \in [TxSessions -> Statements]
      /\ left' \in [TxSessions -> 0 .. MaxBulk] /\ row' \in [TxSessions -> 0 .. MaxRows]
      /\ form' \in [TxSessions -> TextForms]
      /\ txPc'[s] = "idle" /\ stmt'[s] = "read"
      /\ \A t \in TxSessions \ {s} :
            /\ txPc'[t] = txPc[t] /\ stmt'[t] = stmt[t] /\ left'[t] = left[t]
            /\ form'[t] = form[t]
      /\ \A t \in TxSessions : row'[t] = row[t]
  BY <1>1, <1>3, TxEnds
<1> HIDE DEF rows
<1>7. /\ conn[s] \in Conns
      /\ TxPool' /\ free' \in Seq(Conns) /\ open' \subseteq Conns
      /\ pend' \in [Conns -> SUBSET Rows]
      /\ conn' \in [TxSessions -> Conns \cup {NoConn}]
      /\ open' = open \ {conn[s]}
      /\ pend'[conn[s]] = {}
      /\ \A c \in Conns \ {conn[s]} : pend'[c] = pend[c]
  BY <1>1, <1>6, TxRelease
<1>8. TxTypeOK'
  <2>1. committed' \subseteq Rows
    BY <1>1, <1>3 DEF TxInv, TxTypeOK
  <2> QED
    BY <1>1, <1>5, <1>6, <1>7, <2>1 DEF TxInv, TxTypeOK
<1>9. ~shared =>
        /\ inTx \subseteq {s}
        /\ s \in inTx => open = {conn[s]} /\ pend[conn[s]] = mine[s]
        /\ s \notin inTx => open = {} /\ \A c \in Conns : pend[c] = {}
        /\ \A t \in TxSessions : t # s \/ s \notin inTx => mine[t] = {}
  BY <1>1, TxSolo
<1>10. TxRows'
  <2>1. \A c \in Conns : \A r \in pend'[c] : r <= rowsMade
    BY <1>7 DEF TxInv, TxRows
  <2>2. \A r \in rows : r <= rowsMade
    BY <1>7 DEF TxInv, TxRows, rows
  <2>3. \A r \in undone' : r <= rowsMade
    <3>1. CASE undone' = undone
      BY <3>1 DEF TxInv, TxRows
    <3>2. CASE ~shared /\ conn[s] \in open /\ undone' = gone
      <4>1. mine[s] = rows
        BY <3>2, <1>9 DEF rows
      <4>2. \A r \in undone : r <= rowsMade
        BY DEF TxInv, TxRows
      <4> QED
        BY <3>2, <4>1, <4>2, <2>2
    <3> QED
      BY <1>5, <3>1, <3>2
  <2>4. \A r \in committed' : r <= rowsMade
    BY <1>1, <2>2 DEF TxInv, TxRows
  <2>5. /\ txPc'[s] \in {"idle", "take"} /\ stmt'[s] \notin {"capture", "insert"}
        /\ UNCHANGED <<rowsMade, recorded, misread>> /\ \A r \in committed' \cup undone' : r <= rowsMade
    BY <1>1, <1>6, <2>3, <2>4
  <2> QED
    BY <1>1, <1>6, <2>1, <2>5, TxRowsAfter
<1>11. ASSUME ~shared' PROVE TxAlone' /\ TxKept'
  <2>1. ~shared
    BY <1>1, <1>11
  <2>2. TxKept
    BY <2>1 DEF TxInv
  <2>3. conn[s] \in open <=> s \in inTx
    BY <1>9, <2>1
  <2>4. inTx' = {} /\ open' = {} /\ \A t \in TxSessions : mine'[t] = {}
    <3>1. CASE s \in inTx
      <4>1. inTx' = inTx \ {s} /\ mine' = none
        BY <1>5, <2>1, <2>3, <3>1
      <4>2. \A t \in TxSessions : none[t] = {}
        BY <1>9, <2>1 DEF TxInv, TxTypeOK
      <4> QED
        BY <1>7, <1>9, <2>1, <3>1, <4>1, <4>2
    <3>2. CASE s \notin inTx
      BY <1>2, <1>7, <1>9, <2>1, <2>3, <3>2
    <3> QED
      BY <3>1, <3>2
  <2>5. TxAlone'
    <3>1. txPc'[s] # "run" /\ \A t \in TxSessions \ inTx' : mine'[t] = {}
      BY <1>6, <2>4
    <3> QED
      BY <1>1, <1>6, <2>1, <2>4, <3>1, TxAloneAfter
  <2>6. TxKept'
    <3>1. \A r \in 1 .. rowsMade : r \in committed \/ r \in undone \/ r \in rows
      BY <1>9, <2>1, <2>2 DEF TxKept, rows
    <3>2. rows \cap (committed \cup undone) = {} /\ rows = mine[s]
      BY <1>7, <1>9, <2>1, <2>2 DEF TxKept, rows
    <3>3. durable' = kept /\ undone' = gone
      <4>1. CASE s \in inTx
        BY <1>5, <2>1, <2>3, <4>1
      <4>2. CASE s \notin inTx
        BY <1>2, <1>9, <2>1, <2>3, <4>2
      <4> QED
        BY <4>1, <4>2
    <3>4. committed = durable /\ undone \cap committed = {}
      BY <2>2 DEF TxKept
    <3>5. committed' = durable' /\ undone' \cap committed' = {}
      BY <1>1, <3>2, <3>3, <3>4
    <3>6. \A r \in 1 .. rowsMade : r \in committed' \/ r \in undone'
      BY <1>1, <3>1, <3>2, <3>3
    <3> QED
      BY <1>1, <2>4, <3>5, <3>6 DEF TxKept
  <2> QED
    BY <2>5, <2>6
<1> QED
  BY <1>7, <1>8, <1>10, <1>11 DEF TxInv

(* INSERT: a new row, pending or committed. *)
LEMMA TxInsert ==
    ASSUME TxInv, NEW s \in TxSessions, RunInsert(s)
    PROVE  TxInv'
<1> DEFINE r == rowsMade + 1
           inside == conn[s] \in open
           rows == pend[conn[s]] \cup {r}
           more == [mine EXCEPT ![s] = @ \cup {r}]
<1>1. /\ txPc[s] = "run" /\ stmt[s] = "insert" /\ rowsMade < MaxRows
      /\ rowsMade' = r /\ row' = [row EXCEPT ![s] = r]
      /\ Release(s, inside, rows)
      /\ committed' = IF inside THEN committed ELSE committed \cup {r}
      /\ misread' = IF form[s] = "plain" THEN misread ELSE misread \cup {r}
      /\ txPc' = [txPc EXCEPT ![s] = "record"]
      /\ stmt' = stmt /\ left' = left /\ form' = form
      /\ recorded' = recorded /\ shared' = shared
  BY DEF RunInsert, Running
<1>2. IF s \in inTx THEN Told(inTx, more, durable, undone)
      ELSE Told(inTx, mine, durable \cup {r}, undone)
  BY DEF RunInsert
<1>3. MaxRows \in Nat /\ rowsMade \in 0 .. MaxRows
  <2>1. {MaxConns, MaxRows, MaxBulk} \subseteq Nat
    BY TxAssumption
  <2> QED
    BY <2>1 DEF TxInv, TxTypeOK
<1>4. r \in Rows /\ r \in 0 .. MaxRows /\ r > rowsMade /\ r # 0 /\ r \in Nat
  BY <1>1, <1>3 DEF Rows
<1>5. \A x \in Rows : x <= rowsMade => x <= r /\ x # r
  BY <1>3 DEF Rows
<1>6. \A x \in 1 .. r : x = r \/ x \in 1 .. rowsMade
  BY <1>3
<1>7. conn[s] \in Conns /\ rows \in SUBSET Rows /\ inside \in BOOLEAN
  BY <1>1, <1>4 DEF TxInv, TxTypeOK, TxPool
<1>8. /\ more \in [TxSessions -> SUBSET Rows] /\ durable \cup {r} \in SUBSET Rows
      /\ mine \in [TxSessions -> SUBSET Rows] /\ durable \in SUBSET Rows
      /\ undone \in SUBSET Rows /\ inTx \in SUBSET TxSessions
      /\ more[s] = mine[s] \cup {r} /\ \A t \in TxSessions \ {s} : more[t] = mine[t]
  BY <1>4 DEF TxInv, TxTypeOK
<1> HIDE DEF more, inside, rows, r
<1>9. /\ inTx' \subseteq TxSessions /\ mine' \in [TxSessions -> SUBSET Rows]
      /\ durable' \subseteq Rows /\ undone' \subseteq Rows /\ undone' = undone
      /\ ~shared => inTx' = inTx
      /\ ~shared /\ s \in inTx => mine' = more /\ durable' = durable
      /\ ~shared /\ s \notin inTx => mine' = mine /\ durable' = durable \cup {r}
  <2>1. CASE s \in inTx
    BY <1>2, <1>8, <2>1, TxTold
  <2>2. CASE s \notin inTx
    BY <1>2, <1>8, <2>2, TxTold
  <2> QED
    BY <2>1, <2>2
<1>10. /\ txPc' \in [TxSessions -> {"idle", "take", "run", "record"}]
       /\ txPc'[s] = "record" /\ \A t \in TxSessions \ {s} : txPc'[t] = txPc[t]
       /\ row' \in [TxSessions -> 0 .. MaxRows]
       /\ row'[s] = r /\ \A t \in TxSessions \ {s} : row'[t] = row[t]
  BY <1>1, <1>4 DEF TxInv, TxTypeOK
<1>11. /\ TxPool' /\ free' \in Seq(Conns) /\ open' \subseteq Conns
       /\ pend' \in [Conns -> SUBSET Rows]
       /\ conn' \in [TxSessions -> Conns \cup {NoConn}]
       /\ Len(free) < MaxIdle => /\ free' # << >> /\ free'[Len(free')] = conn[s]
                                 /\ open' = IF inside THEN open \cup {conn[s]}
                                                      ELSE open \ {conn[s]}
                                 /\ pend'[conn[s]] = IF inside THEN rows ELSE {}
       /\ ~inside => open' = open \ {conn[s]}
       /\ pend'[conn[s]] \in {rows, {}}
       /\ \A c \in Conns \ {conn[s]} : pend'[c] = pend[c]
  <2>1. /\ txPc[s] = "run" /\ txPc'[s] # "run"
        /\ txPc' \in [TxSessions -> {"idle", "take", "run", "record"}]
        /\ \A t \in TxSessions \ {s} : txPc'[t] = txPc[t]
        /\ Release(s, inside, rows)
    BY <1>1, <1>10
  <2> QED
    BY <2>1, <1>7, TxRelease
<1>12. TxTypeOK'
  <2>1. committed' \subseteq Rows /\ rowsMade' \in 0 .. MaxRows /\ misread' \subseteq Rows
    BY <1>1, <1>4 DEF TxInv, TxTypeOK
  <2> QED
    BY <1>1, <1>9, <1>10, <1>11, <2>1 DEF TxInv, TxTypeOK
<1>13. TxRows'
  <2>1. \A t \in TxSessions : (row'[t] # 0 <=> txPc'[t] = "record") /\ row'[t] <= rowsMade'
    <3> SUFFICES ASSUME NEW t \in TxSessions
                 PROVE  (row'[t] # 0 <=> txPc'[t] = "record") /\ row'[t] <= r
      BY <1>1
    <3>1. CASE t = s
      BY <1>4, <1>10, <3>1
    <3>2. CASE t # s
      <4>1. row'[t] = row[t] /\ txPc'[t] = txPc[t] /\ row[t] \in 0 .. MaxRows /\ row[t] <= rowsMade
        BY <1>10, <3>2 DEF TxInv, TxTypeOK, TxRows
      <4>2. row[t] <= r
        BY <1>3, <1>4, <4>1
      <4> QED
        BY <4>1, <4>2 DEF TxInv, TxRows
    <3> QED
      BY <3>1, <3>2
  <2>2. \A t \in TxSessions : txPc'[t] = "record" => stmt'[t] = "insert"
    BY <1>1, <1>10 DEF TxInv, TxRows
  <2>3. \A t \in TxSessions : stmt'[t] \in {"capture", "insert"} => left'[t] >= 1
    BY <1>1 DEF TxInv, TxRows
  <2>4. \A x \in 1 .. rowsMade' : x \in recorded' \cup misread' \/ \E t \in TxSessions : row'[t] = x
    <3> SUFFICES ASSUME NEW x \in 1 .. r
                 PROVE  x \in recorded \cup misread \/ \E t \in TxSessions : row'[t] = x
      BY <1>1
    <3>1. CASE x = r
      BY <1>10, <3>1
    <3>2. CASE x \in 1 .. rowsMade /\ x \notin recorded \cup misread
      <4>1. PICK t \in TxSessions : row[t] = x
        BY <3>2 DEF TxInv, TxRows
      <4>2. t # s
        <5>1. row[s] = 0
          BY <1>1 DEF TxInv, TxRows
        <5> QED
          BY <5>1, <4>1, <3>2
      <4> QED
        BY <4>1, <4>2, <1>10
    <3> QED
      BY <1>6, <3>1, <3>2
  <2>5. \A x \in committed' \cup recorded' \cup undone' : x <= rowsMade'
    <3> SUFFICES ASSUME NEW x \in committed' \cup recorded' \cup undone' PROVE x <= r
      BY <1>1
    <3>1. x = r \/ x \in committed \cup recorded \cup undone
      BY <1>1, <1>9
    <3>2. CASE x = r
      BY <3>2, <1>4
    <3>3. CASE x \in committed \cup recorded \cup undone
      <4>1. x \in Rows /\ x <= rowsMade
        BY <3>3 DEF TxInv, TxTypeOK, TxRows
      <4> QED
        BY <4>1, <1>5
    <3> QED
      BY <3>1, <3>2, <3>3
  <2>6. \A c \in Conns : \A x \in pend'[c] : x <= rowsMade'
    <3> SUFFICES ASSUME NEW c \in Conns, NEW x \in pend'[c] PROVE x <= r
      BY <1>1
    <3>1. x = r \/ x \in pend[c]
      BY <1>7, <1>11 DEF rows
    <3>2. CASE x = r
      BY <3>2, <1>4
    <3>3. CASE x \in pend[c]
      <4>1. x \in Rows /\ x <= rowsMade
        BY <3>3 DEF TxInv, TxTypeOK, TxRows
      <4> QED
        BY <4>1, <1>5
    <3> QED
      BY <3>1, <3>2, <3>3
  <2>7. \A t \in TxSessions : row'[t] # 0 /\ form'[t] # "plain" => row'[t] \in misread'
    <3> SUFFICES ASSUME NEW t \in TxSessions, row'[t] # 0, form[t] # "plain"
                 PROVE  row'[t] \in misread'
      BY <1>1
    <3>1. CASE t = s
      BY <1>1, <1>10, <3>1
    <3>2. CASE t # s
      BY <1>1, <1>10, <3>2 DEF TxInv, TxRows
    <3> QED
      BY <3>1, <3>2
  <2> QED
    BY <2>1, <2>2, <2>3, <2>4, <2>5, <2>6, <2>7 DEF TxRows
<1>14. ASSUME ~shared' PROVE TxAlone' /\ TxKept'
  <2>1. ~shared
    BY <1>1, <1>14
  <2>2. /\ inTx \subseteq {s}
        /\ s \in inTx => Len(free) < MaxIdle /\ open = {conn[s]} /\ pend[conn[s]] = mine[s]
        /\ s \notin inTx => open = {} /\ \A c \in Conns : pend[c] = {}
        /\ \A t \in TxSessions : t # s \/ s \notin inTx => mine[t] = {}
    BY <1>1, <2>1, TxSolo
  <2>3. /\ committed = durable /\ undone \cap committed = {}
        /\ \A c \in open : pend[c] \cap (committed \cup undone) = {}
        /\ \A x \in 1 .. rowsMade : x \in committed \/ x \in undone \/ \E c \in open : x \in pend[c]
    BY <2>1 DEF TxInv, TxKept
  <2>4. r \notin committed /\ r \notin undone
    <3>1. \A x \in committed \cup undone : x \in Rows /\ x <= rowsMade
      BY DEF TxInv, TxTypeOK, TxRows
    <3> QED
      BY <3>1, <1>5
  <2>5. CASE s \in inTx
    <3>1. inside /\ mine' = more /\ durable' = durable /\ inTx' = {s} /\ committed' = committed
      BY <1>1, <1>9, <2>1, <2>2, <2>5 DEF inside
    <3>2. /\ free' # << >> /\ free'[Len(free')] = conn[s]
          /\ open' = {conn[s]} /\ pend'[conn[s]] = rows /\ rows = more[s]
      BY <2>2, <2>5, <3>1, <1>8, <1>11 DEF rows
    <3>3. \A t \in TxSessions \ inTx' : mine'[t] = {}
      BY <1>8, <2>2, <3>1
    <3>4. TxAlone'
      <4>1. /\ txPc'[s] # "run" /\ \A t \in TxSessions \ {s} : stmt'[t] = stmt[t]
            /\ pend'[free'[Len(free')]] = mine'[s] /\ open' = {free'[Len(free')]}
        BY <1>1, <1>10, <3>1, <3>2
      <4> QED
        BY <1>1, <1>10, <2>1, <2>5, <3>1, <3>2, <3>3, <4>1, TxAloneAfter
    <3>5. TxKept'
      <4>1. \A x \in 1 .. r : x \in committed \/ x \in undone \/ x \in rows
        BY <1>6, <2>2, <2>3, <2>5 DEF rows
      <4>2. rows \cap (committed \cup undone) = {}
        BY <2>2, <2>3, <2>4, <2>5 DEF rows
      <4> QED
        BY <1>1, <1>9, <2>3, <3>1, <3>2, <4>1, <4>2 DEF TxKept
    <3> QED
      BY <3>4, <3>5
  <2>6. CASE s \notin inTx
    <3>1. /\ ~inside /\ mine' = mine /\ durable' = durable \cup {r} /\ inTx' = {}
          /\ committed' = committed \cup {r}
      BY <1>1, <1>9, <2>1, <2>2, <2>6 DEF inside
    <3>2. open' = {} /\ \A t \in TxSessions \ inTx' : mine'[t] = {}
      BY <1>11, <2>2, <2>6, <3>1
    <3>3. TxAlone'
      <4>1. txPc'[s] # "run" /\ \A t \in TxSessions \ {s} : stmt'[t] = stmt[t]
        BY <1>1, <1>10
      <4> QED
        BY <1>1, <1>10, <2>1, <3>1, <3>2, <4>1, TxAloneAfter
    <3>4. TxKept'
      <4>1. \A x \in 1 .. r : x \in committed' \/ x \in undone
        BY <1>6, <2>2, <2>3, <2>6, <3>1
      <4>2. undone \cap committed' = {} /\ committed' = durable'
        BY <2>3, <2>4, <3>1
      <4> QED
        BY <1>1, <1>9, <3>1, <3>2, <4>1, <4>2 DEF TxKept
    <3> QED
      BY <3>3, <3>4
  <2> QED
    BY <2>5, <2>6
<1> QED
  BY <1>11, <1>12, <1>13, <1>14 DEF TxInv

(* The change is recorded and the request goes on. *)
LEMMA TxRecord ==
    ASSUME TxInv, NEW s \in TxSessions, Record(s)
    PROVE  TxInv'
<1>1. /\ txPc[s] = "record"
      /\ recorded' = IF form[s] = "plain" THEN recorded \cup {row[s]} ELSE recorded
      /\ UNCHANGED <<free, open, pend, conn, rowsMade, committed, misread, shared>>
      /\ UNCHANGED <<inTx, mine, durable, undone>>
  BY DEF Record, clientVars
<1>2. /\ row[s] # 0 /\ row[s] <= rowsMade /\ stmt[s] = "insert" /\ left[s] >= 1
      /\ row[s] \in 0 .. MaxRows /\ left[s] \in 0 .. MaxBulk
  BY <1>1 DEF TxInv, TxRows, TxTypeOK
<1>3. MaxRows \in Nat /\ MaxBulk \in Nat
  <2>1. {MaxConns, MaxRows, MaxBulk} \subseteq Nat
    BY TxAssumption
  <2> QED
    BY <2>1
<1>4. row[s] \in Rows
  BY <1>2, <1>3 DEF Rows
<1>5. /\ txPc' \in [TxSessions -> {"idle", "take", "run", "record"}]
      /\ stmt' \in [TxSessions -> Statements]
      /\ left' \in [TxSessions -> 0 .. MaxBulk] /\ row' \in [TxSessions -> 0 .. MaxRows]
      /\ txPc'[s] \in {"idle", "take"} /\ row'[s] = 0
      /\ stmt'[s] \in {"capture", "insert"} => left'[s] >= 1
      /\ form' \in [TxSessions -> TextForms]
      /\ \A t \in TxSessions \ {s} :
            /\ txPc'[t] = txPc[t] /\ stmt'[t] = stmt[t] /\ left'[t] = left[t]
            /\ row'[t] = row[t] /\ form'[t] = form[t]
  <2>1. CASE left[s] = 1
    <3>1. Ends(s)
      BY <2>1 DEF Record
    <3> QED
      BY <3>1, TxEnds
  <2>2. CASE left[s] # 1
    <3>1. /\ txPc' = [txPc EXCEPT ![s] = "take"] /\ stmt' = [stmt EXCEPT ![s] = First(form[s])]
          /\ left' = [left EXCEPT ![s] = left[s] - 1] /\ row' = [row EXCEPT ![s] = 0]
          /\ form' = form
      BY <2>2 DEF Record
    <3>2. left[s] - 1 \in 0 .. MaxBulk /\ left[s] - 1 >= 1 /\ 0 \in 0 .. MaxRows
      BY <1>2, <1>3, <2>2
    <3>3. First(form[s]) \in Statements
      BY DEF First, Statements
    <3>4. /\ txPc' \in [TxSessions -> {"idle", "take", "run", "record"}]
          /\ stmt' \in [TxSessions -> Statements] /\ txPc'[s] = "take"
          /\ \A t \in TxSessions \ {s} : txPc'[t] = txPc[t] /\ stmt'[t] = stmt[t]
      BY <3>1, <3>3 DEF TxInv, TxTypeOK
    <3>5. /\ left' \in [TxSessions -> 0 .. MaxBulk] /\ row' \in [TxSessions -> 0 .. MaxRows]
          /\ left'[s] = left[s] - 1 /\ row'[s] = 0
          /\ \A t \in TxSessions \ {s} : left'[t] = left[t] /\ row'[t] = row[t]
      BY <3>1, <3>2 DEF TxInv, TxTypeOK
    <3>6. form' \in [TxSessions -> TextForms]
      BY <3>1 DEF TxInv, TxTypeOK
    <3> QED
      BY <3>1, <3>2, <3>4, <3>5, <3>6
  <2> QED
    BY <2>1, <2>2
<1>6. TxTypeOK'
  BY <1>1, <1>4, <1>5 DEF TxInv, TxTypeOK
<1>7. TxPool'
  <2>1. \A t \in TxSessions : txPc'[t] = "run" <=> txPc[t] = "run"
    BY <1>1, <1>5
  <2> QED
    BY <1>1, <2>1 DEF TxInv, TxPool
<1>8. TxRows'
  <2>1. \A t \in TxSessions : (row'[t] # 0 <=> txPc'[t] = "record") /\ row'[t] <= rowsMade'
    <3>1. 0 <= rowsMade
      BY <1>3 DEF TxInv, TxTypeOK
    <3> QED
      BY <1>1, <1>5, <3>1 DEF TxInv, TxRows
  <2>2. \A t \in TxSessions : txPc'[t] = "record" => stmt'[t] = "insert"
    BY <1>5 DEF TxInv, TxRows
  <2>3. \A t \in TxSessions : stmt'[t] \in {"capture", "insert"} => left'[t] >= 1
    BY <1>5 DEF TxInv, TxRows
  <2>4. \A x \in 1 .. rowsMade' : x \in recorded' \cup misread' \/ \E t \in TxSessions : row'[t] = x
    <3>1. row[s] \in recorded' \cup misread'
      BY <1>1, <1>2 DEF TxInv, TxRows
    <3> QED
      BY <1>1, <1>5, <3>1 DEF TxInv, TxRows
  <2>5. \A x \in committed' \cup recorded' \cup undone' : x <= rowsMade'
    BY <1>1, <1>2 DEF TxInv, TxRows
  <2>6. \A c \in Conns : \A x \in pend'[c] : x <= rowsMade'
    BY <1>1 DEF TxInv, TxRows
  <2>7. \A t \in TxSessions : row'[t] # 0 /\ form'[t] # "plain" => row'[t] \in misread'
    BY <1>1, <1>5 DEF TxInv, TxRows
  <2> QED
    BY <2>1, <2>2, <2>3, <2>4, <2>5, <2>6, <2>7 DEF TxRows
<1>9. ASSUME ~shared' PROVE TxAlone' /\ TxKept'
  <2>1. TxAlone /\ TxKept /\ inTx \subseteq TxSessions
    BY <1>1, <1>9 DEF TxInv, TxTypeOK
  <2>2. \A t \in TxSessions : txPc'[t] = "run" <=> txPc[t] = "run"
    BY <1>1, <1>5
  <2>3. \A t \in TxSessions : Running(t, "begin")' => Running(t, "begin")
    BY <1>5, <2>2 DEF Running
  <2>4. \A t \in TxSessions : Home(t)' = Home(t) /\ (Alone(t) => Alone(t)')
    BY <1>1, <2>2 DEF Home, Alone
  <2>5. TxAlone'
    BY <1>1, <2>1, <2>2, <2>3, <2>4 DEF TxAlone
  <2>6. TxKept'
    BY <1>1, <2>1 DEF TxKept
  <2> QED
    BY <2>5, <2>6
<1> QED
  BY <1>6, <1>7, <1>8, <1>9 DEF TxInv

LEMMA TxNextInv == TxInv /\ [TxNext]_txVars => TxInv'
<1> SUFFICES ASSUME TxInv, [TxNext]_txVars PROVE TxInv'
  OBVIOUS
<1>1. CASE UNCHANGED txVars
  BY <1>1 DEF txVars, TxInv, TxTypeOK, TxPool, TxRows, TxAlone, TxKept, Alone, Home, Running
<1>2. ASSUME NEW s \in TxSessions, Request(s, "read", 0, "plain") \/ RunRead(s) PROVE TxInv'
  BY <1>2, TxRequest, TxQuiet
<1>3. ASSUME NEW s \in TxSessions, NEW op \in {"begin", "commit", "rollback"},
             Request(s, op, 0, "plain")
      PROVE  TxInv'
  BY <1>3, TxRequest
<1>4. ASSUME NEW s \in TxSessions, NEW n \in 1 .. MaxBulk, NEW f \in TextForms,
             Request(s, First(f), n, f)
      PROVE  TxInv'
  BY <1>4, TxRequest
<1>5. ASSUME NEW s \in TxSessions, Continue(s) \/ RunCapture(s) \/ InsertFails(s) PROVE TxInv'
  BY <1>5, TxRequest, TxQuiet
<1>6. ASSUME NEW s \in TxSessions, RunBegin(s) \/ RunCommit(s) \/ RunRollback(s) PROVE TxInv'
  BY <1>6, TxBegin, TxFinish
<1>7. ASSUME NEW s \in TxSessions, RunInsert(s) \/ Record(s) PROVE TxInv'
  BY <1>7, TxInsert, TxRecord
<1>8. Writers \subseteq TxSessions
  BY DEF TxSessions
<1> QED
  BY <1>1, <1>2, <1>3, <1>4, <1>5, <1>6, <1>7, <1>8 DEF TxNext

LEMMA TxInvHolds == TxSpec => []TxInv
  BY TxInitInv, TxNextInv, PTL DEF TxSpec

(* Connections, rows and what is left of a request stay within their        *)
(* bounds: a connection is always to be had, no bulk request runs an INSERT *)
(* too many, no row is made twice.                                          *)
THEOREM TxTypeCorrect == TxSpec => []TxTypeOK
<1>1. TxInv => TxTypeOK
  BY DEF TxInv
<1> QED
  BY <1>1, TxInvHolds, PTL

(* Clients that do not share a transaction get what they were told, although *)
(* every statement takes a connection of its own from the pool.              *)
THEOREM TransactionsKept == TxSpec => []TransactionsIntact
<1>1. ASSUME TxInv, ~shared
      PROVE  /\ committed = durable /\ undone \cap committed = {}
             /\ \A s \in inTx : \E c \in open : pend[c] = mine[s]
             /\ \A s \in inTx : txPc[s] # "run" => free # <<>> /\ free[Len(free)] \in open
  <2>1. TxAlone /\ TxKept
    BY <1>1 DEF TxInv
  <2>2. \A s \in inTx : Home(s) \in open /\ pend[Home(s)] = mine[s]
                        /\ (txPc[s] # "run" => free # <<>>)
    BY <2>1 DEF TxAlone
  <2>3. \A s \in inTx : txPc[s] # "run" => free # <<>> /\ free[Len(free)] \in open
    BY <2>2 DEF Home
  <2> QED
    BY <2>1, <2>2, <2>3 DEF TxKept
<1>2. TxInv => TransactionsIntact
  BY <1>1 DEF TransactionsIntact
<1> QED
  BY <1>2, TxInvHolds, PTL

(* No row is visible and unrecorded, but for the rows of statements whose    *)
(* table's name handleDML misreads; as long as transactions are not shared,  *)
(* none is recorded that is neither committed, nor pending, nor undone.      *)
THEOREM StreamsAccounted == TxSpec => []StreamsAccount
<1>1. ASSUME TxInv PROVE CommittedRecorded
  <2> SUFFICES ASSUME NEW x \in committed \ misread
               PROVE  x \in recorded \cup {row[s] : s \in TxSessions}
    BY DEF CommittedRecorded
  <2>1. x \in Rows /\ x <= rowsMade /\ rowsMade \in Int
    BY <1>1 DEF TxInv, TxTypeOK, TxRows
  <2>2. x \in 1 .. rowsMade
    BY <2>1 DEF Rows
  <2> QED
    BY <1>1, <2>2 DEF TxInv, TxRows
<1>2. ASSUME TxInv, ~shared
      PROVE  recorded \subseteq committed \cup undone \cup UNION {pend[c] : c \in open}
  <2> SUFFICES ASSUME NEW x \in recorded
               PROVE  x \in committed \/ x \in undone \/ \E c \in open : x \in pend[c]
    OBVIOUS
  <2>1. x \in Rows /\ x <= rowsMade /\ rowsMade \in Int
    BY <1>2 DEF TxInv, TxTypeOK, TxRows
  <2>2. x \in 1 .. rowsMade
    BY <2>1 DEF Rows
  <2> QED
    BY <1>2, <2>2 DEF TxInv, TxKept
<1>3. TxInv => StreamsAccount
  BY <1>1, <1>2 DEF StreamsAccount, RecordedAccounted
<1> QED
  BY <1>3, TxInvHolds, PTL

----------------------------------------------------------------------------
(* The parts keep their types side by side too: each step is one of one     *)
(* part and leaves the others alone.                                        *)
THEOREM TypeCorrect == Spec => []TypeOK
<1> DEFINE Inv == CatalogTypeOK /\ PipesInv /\ TxInv
<1>1. Init => Inv
  BY CatalogInitInv, PipesInitInv, TxInitInv DEF Init, CatalogInv
<1>2. Inv /\ [Next]_vars => Inv'
  <2> SUFFICES ASSUME CatalogTypeOK, PipesInv, TxInv, [Next]_vars PROVE Inv'
    OBVIOUS
  <2>1. [CatalogNext]_catalogVars /\ [PipesNext]_pipeVars /\ [TxNext]_txVars
    BY DEF Next, vars
  <2>2. CatalogTypeOK'
    BY <2>1, CatalogTypeStep
  <2>3. PipesInv'
    BY <2>1, PipesTypeStep, CallsStep, OwnStep, KnownStep DEF PipesInv
  <2>4. TxInv'
    BY <2>1, TxNextInv
  <2> QED BY <2>2, <2>3, <2>4
<1>3. Inv => TypeOK
  BY DEF PipesInv, TxInv, TypeOK
<1> HIDE DEF Inv
<1> QED BY <1>1, <1>2, <1>3, PTL DEF Spec
=============================================================================
