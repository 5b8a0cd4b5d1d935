------------------------------- MODULE Catalog -------------------------------
(***************************************************************************)
(* internal/catalog/catalog.go and the DDL of the orchestrator: one        *)
(* database, its schemas and tables, once in DuckDB and once in the        *)
(* catalog.  A statement changes the one first and the other afterwards,   *)
(* each under its own lock and with nothing held in between, and most      *)
(* errors of either step are dropped.  Some statements, such as CREATE     *)
(* TABLE ... CLONE (clone.go), change DuckDB and leave the catalog as it   *)
(* is, and so does ROLLBACK, which undoes DDL in DuckDB.                   *)
(*                                                                         *)
(* Names are given in full, so both sides mean the same table; what an     *)
(* unqualified name does is modelled in Streams.  CREATE OR REPLACE leaves *)
(* the same names as IF NOT EXISTS.  One statement runs in DuckDB at a     *)
(* time, so that the pool always hands out the same connection and a       *)
(* transaction takes in every statement until it ends; Transactions has    *)
(* statements that overlap.                                                *)
(***************************************************************************)
EXTENDS FiniteSets

CONSTANTS
    DdlSessions,   \* sessions that run DDL
    Schemas,       \* schema names of the database
    Public,        \* the schema every new database has in the catalog
    Tables         \* table names

ASSUME CatalogAssumption == Public \in Schemas /\ Tables # {}

Keys      == Schemas \X Tables
KeysOf(n) == {n} \X Tables

Steps == {"register", "unregister", "regSchema", "unregSchema", "attach"}
None  == [op |-> "none", on |-> {}]
NoTx  == [open |-> FALSE, schemas |-> {}, tables |-> {}]

VARIABLES
    attached,                        \* whether DuckDB has the database
    engSchemas, engTables,           \* what DuckDB has in it
    saved,                           \* what it had when the open transaction began
    catDb, catSchemas, catTables,    \* whether the catalog has it, and what it lists
    work,                            \* the second step each session has to do
    \* history variables
    unlisted,   \* tables that a statement left out of the catalog
    ghosts,     \* tables of the catalog that RENAME or ROLLBACK took away in DuckDB
    mixed       \* tables that two statements changed at a time, or one behind the catalog's back

engVars == <<attached, engSchemas, engTables, saved>>
catVars == <<catDb, catSchemas, catTables>>
catalogVars == <<attached, engSchemas, engTables, saved, catDb, catSchemas, catTables,
                 work, unlisted, ghosts, mixed>>

CatalogInit ==
    /\ attached = FALSE /\ engSchemas = {} /\ engTables = {} /\ saved = NoTx
    /\ catDb = FALSE /\ catSchemas = {} /\ catTables = {}
    /\ work = [s \in DdlSessions |-> None]
    /\ unlisted = {} /\ ghosts = {} /\ mixed = {}

Busy == UNION {work[s].on : s \in DdlSessions}

(* DuckDB changes the tables `on`. *)
Touch(on) == mixed' = mixed \cup (on \cap Busy)

(* The first step of a statement on these tables is done. *)
Begin(s, op, on) ==
    /\ work' = [work EXCEPT ![s] = [op |-> op, on |-> on]]
    /\ Touch(on)

Finish(s) == work' = [work EXCEPT ![s] = None]

----------------------------------------------------------------------------
(* Databases: the catalog comes first, and an error of either is dropped. *)
CreateDatabase(s) ==
    /\ work[s] = None
    /\ catDb' = TRUE
    /\ catSchemas' = IF catDb THEN catSchemas ELSE {Public}
    /\ Begin(s, "attach", {})
    /\ UNCHANGED <<catTables, unlisted, ghosts>> /\ UNCHANGED engVars

Attach(s, ok) ==
    /\ work[s].op = "attach"
    /\ attached' = (attached \/ ok)
    /\ Finish(s)
    /\ UNCHANGED <<engSchemas, engTables, saved, unlisted, ghosts, mixed>> /\ UNCHANGED catVars

(* DuckDB keeps the database and its tables. *)
DropDatabase(s) ==
    /\ work[s] = None
    /\ catDb' = FALSE /\ catSchemas' = {} /\ catTables' = {}
    /\ unlisted' = unlisted \cup engTables /\ ghosts' = {}
    /\ UNCHANGED <<work, mixed>> /\ UNCHANGED engVars

----------------------------------------------------------------------------
(* Schemas.  IF NOT EXISTS lets CREATE SCHEMA go on after any error. *)
CreateSchema(s, n, ifNotExists, ok) ==
    LET done == ok /\ attached /\ (n \notin engSchemas \/ ifNotExists)
    IN  /\ work[s] = None
        /\ done \/ ifNotExists
        /\ engSchemas' = IF done THEN engSchemas \cup {n} ELSE engSchemas
        /\ Begin(s, "regSchema", KeysOf(n))
        /\ UNCHANGED <<attached, engTables, saved, unlisted, ghosts>> /\ UNCHANGED catVars

RegSchema(s, n) ==
    /\ work[s] = [op |-> "regSchema", on |-> KeysOf(n)]
    /\ catSchemas' = IF catDb THEN catSchemas \cup {n} ELSE catSchemas
    /\ Finish(s)
    /\ UNCHANGED <<catDb, catTables, unlisted, ghosts, mixed>> /\ UNCHANGED engVars

(* Without CASCADE DuckDB refuses to drop a schema that has tables; the    *)
(* catalog drops it all the same.                                          *)
DropSchema(s, n, cascade) ==
    LET done == n \in engSchemas /\ (cascade \/ engTables \cap KeysOf(n) = {})
    IN  /\ work[s] = None
        /\ engSchemas' = IF done THEN engSchemas \ {n} ELSE engSchemas
        /\ engTables' = IF done THEN engTables \ KeysOf(n) ELSE engTables
        /\ unlisted' = (unlisted \ KeysOf(n)) \cup (engTables' \cap KeysOf(n))
        /\ Begin(s, "unregSchema", KeysOf(n))
        /\ UNCHANGED <<attached, saved, ghosts>> /\ UNCHANGED catVars

(* Faulty variant: the tables of the schema stay in the catalog. *)
UnregSchemaOnly(s, n) ==
    /\ work[s] = [op |-> "unregSchema", on |-> KeysOf(n)]
    /\ catSchemas' = catSchemas \ {n}
    /\ Finish(s)
    /\ UNCHANGED <<catDb, catTables, unlisted, ghosts, mixed>> /\ UNCHANGED engVars

UnregSchema(s, n) ==
    /\ work[s] = [op |-> "unregSchema", on |-> KeysOf(n)]
    /\ catSchemas' = catSchemas \ {n} /\ catTables' = catTables \ KeysOf(n)
    /\ ghosts' = ghosts \ KeysOf(n)
    /\ Finish(s)
    /\ UNCHANGED <<catDb, unlisted, mixed>> /\ UNCHANGED engVars

----------------------------------------------------------------------------
(* Faulty variant: a table is created although DuckDB refused. *)
CreateTableUnchecked(s, k, ifNotExists) ==
    /\ work[s] = None
    /\ engTables' = IF k[1] \in engSchemas THEN engTables \cup {k} ELSE engTables
    /\ Begin(s, "register", {k})
    /\ UNCHANGED <<attached, engSchemas, saved, unlisted, ghosts>> /\ UNCHANGED catVars

(* Tables: the statement ends here when DuckDB refuses it. *)
CreateTable(s, k, ifNotExists) ==
    /\ work[s] = None
    /\ k[1] \in engSchemas
    /\ k \notin engTables \/ ifNotExists
    /\ engTables' = engTables \cup {k}
    /\ Begin(s, "register", {k})
    /\ UNCHANGED <<attached, engSchemas, saved, unlisted, ghosts>> /\ UNCHANGED catVars

(* The error of a schema the catalog does not have is dropped. *)
Register(s, k) ==
    LET done == catDb /\ k[1] \in catSchemas
    IN  /\ work[s] = [op |-> "register", on |-> {k}]
        /\ catTables' = IF done THEN catTables \cup {k} ELSE catTables
        /\ unlisted' = IF done THEN unlisted \ {k} ELSE unlisted \cup {k}
        /\ ghosts' = ghosts \ {k}
        /\ Finish(s)
        /\ UNCHANGED <<catDb, catSchemas, mixed>> /\ UNCHANGED engVars

(* DuckDB drops the table, finds none, or fails; IF EXISTS goes on after   *)
(* any failure.                                                            *)
DropTable(s, k, ifExists, ok) ==
    /\ work[s] = None
    /\ ifExists \/ (ok /\ k \in engTables)
    /\ engTables' = IF ok THEN engTables \ {k} ELSE engTables
    /\ unlisted' = IF ok THEN unlisted \ {k} ELSE unlisted \cup {k}
    /\ Begin(s, "unregister", {k})
    /\ UNCHANGED <<attached, engSchemas, saved, ghosts>> /\ UNCHANGED catVars

Unregister(s, k) ==
    /\ work[s] = [op |-> "unregister", on |-> {k}]
    /\ catTables' = catTables \ {k} /\ ghosts' = ghosts \ {k}
    /\ Finish(s)
    /\ UNCHANGED <<catDb, catSchemas, unlisted, mixed>> /\ UNCHANGED engVars

----------------------------------------------------------------------------
(* Statements of one step: DuckDB changes and the catalog is not told. *)
Unregistered(s) ==
    /\ work[s] = None
    /\ UNCHANGED <<attached, engSchemas, saved, work>> /\ UNCHANGED catVars

(* CREATE TABLE ... CLONE; the clone engine keeps a list that nothing reads. *)
CloneTable(s, k, src) ==
    /\ Unregistered(s)
    /\ src \in engTables /\ k \notin engTables /\ k[1] \in engSchemas
    /\ engTables' = engTables \cup {k} /\ unlisted' = unlisted \cup ({k} \ catTables)
    /\ Touch({k}) /\ UNCHANGED ghosts

(* CREATE TABLE t(id INT) registers a table "t(id", whatever name DuckDB    *)
(* reads; that entry is none of the tables the model is about.              *)
CreateTableMisread(s, k, ifNotExists) ==
    /\ Unregistered(s)
    /\ k[1] \in engSchemas
    /\ k \notin engTables \/ ifNotExists
    /\ engTables' = engTables \cup {k} /\ unlisted' = unlisted \cup ({k} \ catTables)
    /\ Touch({k}) /\ UNCHANGED ghosts

(* UNDROP TABLE makes the table out of a snapshot. *)
UndropTable(s, k) ==
    /\ Unregistered(s)
    /\ k \notin engTables /\ k[1] \in engSchemas
    /\ engTables' = engTables \cup {k} /\ unlisted' = unlisted \cup ({k} \ catTables)
    /\ Touch({k}) /\ UNCHANGED ghosts

(* ALTER TABLE ... RENAME, which no route but the last one takes. *)
RenameTable(s, k, new) ==
    /\ Unregistered(s)
    /\ k \in engTables /\ new \notin engTables /\ new[1] = k[1]
    /\ engTables' = (engTables \ {k}) \cup {new}
    /\ unlisted' = (unlisted \ {k}) \cup ({new} \ catTables)
    /\ ghosts' = ghosts \cup ({k} \cap catTables)
    /\ Touch({k, new})

----------------------------------------------------------------------------
(* Transactions take DDL in: BEGIN, which DuckDB refuses inside one, ...    *)
BeginTx ==
    /\ saved = NoTx
    /\ saved' = [open |-> TRUE, schemas |-> engSchemas, tables |-> engTables]
    /\ UNCHANGED <<attached, engSchemas, engTables, work, unlisted, ghosts, mixed>>
    /\ UNCHANGED catVars

(* ... COMMIT ... *)
CommitTx ==
    /\ saved.open /\ saved' = NoTx
    /\ UNCHANGED <<attached, engSchemas, engTables, work, unlisted, ghosts, mixed>>
    /\ UNCHANGED catVars

(* ... and ROLLBACK, after which the catalog still lists the tables made in *)
(* the transaction and misses the ones dropped in it.                       *)
RollbackTx ==
    LET made    == engTables \ saved.tables
        dropped == saved.tables \ engTables
    IN  /\ saved.open /\ saved' = NoTx
        /\ engSchemas' = saved.schemas /\ engTables' = saved.tables
        /\ unlisted' = unlisted \cup (dropped \ catTables)
        /\ ghosts' = ghosts \cup (made \cap catTables)
        /\ Touch(made \cup dropped)
        /\ UNCHANGED <<attached, work>> /\ UNCHANGED catVars

----------------------------------------------------------------------------
(* The SQL of a task, of a pipe and of the API /api/v2/statements goes to   *)
(* DuckDB and nowhere else, and so does DDL that no route knows for what it *)
(* is, such as CREATE TEMP TABLE or a statement behind a comment.           *)
Around(k) ==
    /\ \/ k \notin engTables /\ k[1] \in engSchemas /\ engTables' = engTables \cup {k}
       \/ k \in engTables /\ engTables' = engTables \ {k}
    /\ mixed' = mixed \cup {k}
    /\ UNCHANGED <<attached, engSchemas, saved, work, unlisted, ghosts>>
    /\ UNCHANGED catVars

(* The reset of the server, which shuts requests out, drops every table and *)
(* schema, detaches the database, and empties the catalog.  A reset while a  *)
(* transaction is open is left out.                                         *)
ResetCatalog ==
    /\ \A s \in DdlSessions : work[s] = None
    /\ saved = NoTx
    /\ attached' = FALSE /\ engSchemas' = {} /\ engTables' = {}
    /\ catDb' = FALSE /\ catSchemas' = {} /\ catTables' = {}
    /\ unlisted' = {} /\ ghosts' = {} /\ mixed' = {}
    /\ UNCHANGED <<saved, work>>

SchemaNext(s, n) ==
    \/ \E ifNotExists, ok \in BOOLEAN : CreateSchema(s, n, ifNotExists, ok)
    \/ \E cascade \in BOOLEAN : DropSchema(s, n, cascade)
    \/ RegSchema(s, n) \/ UnregSchema(s, n)

TableNext(s, k) ==
    \/ \E ifNotExists \in BOOLEAN : CreateTable(s, k, ifNotExists)
    \/ \E ifExists, ok \in BOOLEAN : DropTable(s, k, ifExists, ok)
    \/ \E src \in Keys : CloneTable(s, k, src)
    \/ Register(s, k) \/ Unregister(s, k)
    \/ \E ifNotExists \in BOOLEAN : CreateTableMisread(s, k, ifNotExists)
    \/ UndropTable(s, k)
    \/ \E new \in Keys : RenameTable(s, k, new)

CatalogNext ==
    \/ \E s \in DdlSessions :
          \/ CreateDatabase(s) \/ DropDatabase(s)
          \/ \E ok \in BOOLEAN : Attach(s, ok)
          \/ \E n \in Schemas : SchemaNext(s, n)
          \/ \E k \in Keys : TableNext(s, k)
    \/ \E k \in Keys : Around(k)
    \/ BeginTx \/ CommitTx \/ RollbackTx
    \/ ResetCatalog

CatalogSpec == CatalogInit /\ [][CatalogNext]_catalogVars

----------------------------------------------------------------------------
(* What the maps of the catalog and of DuckDB nest is nested here: a table  *)
(* has its schema and a schema its database.                                *)
CatalogTypeOK ==
    /\ attached \in BOOLEAN /\ catDb \in BOOLEAN
    /\ engSchemas \subseteq Schemas /\ engTables \subseteq engSchemas \X Tables
    /\ catSchemas \subseteq Schemas /\ catTables \subseteq catSchemas \X Tables
    /\ saved \in [open : BOOLEAN, schemas : SUBSET Schemas, tables : SUBSET Keys]
    /\ saved.tables \subseteq saved.schemas \X Tables
    /\ attached \/ (engSchemas = {} /\ saved.schemas = {})
    /\ catDb \/ catSchemas = {}
    /\ unlisted \subseteq Keys /\ ghosts \subseteq Keys
    /\ mixed \subseteq Keys
    /\ work \in [DdlSessions -> [op : Steps \cup {"none"}, on : SUBSET Keys]]

(* The catalog lists no table that DuckDB does not have, but for one whose  *)
(* statement is between its two steps, one that two statements changed at   *)
(* the same time (the catalog's step of the earlier may then come after the *)
(* later statement's, orchestrator.go:491, :520), and one that RENAME or    *)
(* ROLLBACK took away in DuckDB only.                                       *)
NoGhostTables == catTables \subseteq engTables \cup Busy \cup mixed \cup ghosts

(* A table of DuckDB is missing from the catalog only between the two steps *)
(* of its statement, after statements that overlapped on it, or for one of  *)
(* the reasons the code has: it is a clone or was undropped, its name was   *)
(* changed or misread, its schema or database was dropped from the catalog  *)
(* only, the catalog did not have its schema, IF EXISTS hid that DROP TABLE *)
(* failed, or ROLLBACK undid the DROP.                                      *)
NothingUnlisted == engTables \subseteq catTables \cup unlisted \cup Busy \cup mixed

(* The catalog and DuckDB list the same tables, but for these exceptions,   *)
(* however the steps of several sessions' DDL interleave and fail           *)
(* (orchestrator.go:473, :497).                                             *)
CatalogMatches == NoGhostTables /\ NothingUnlisted
=============================================================================
