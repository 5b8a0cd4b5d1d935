# Miniflake in TLA+

Miniflake is a Snowflake emulator: an HTTP server that speaks Snowflake's wire
protocol, rewrites Snowflake SQL and executes it on an embedded DuckDB. Around
the engine it keeps Snowflake's own objects (tasks, streams, time travel
snapshots, stages, pipes, sessions, roles and others) in Go maps behind
mutexes, and several goroutines of its own work on them. This directory models
the parts that keep such state, checks them with TLC on small instances and
proves the main safety properties with TLAPS for every instance.

    tlc -workers 2 -config task_core.cfg MCTaskScheduler     # a run
    tlapm TaskSchedulerProofs.tla                            # the proofs of a module

## 1. The system

| part | state | operations | touched by |
|---|---|---|---|
| `internal/task` | registry of tasks, next/last run times, a one-second ticker | CREATE/DROP/ALTER TASK, `tick` and its walk over the task graph, `Stop`, `Reset` | SQL requests; its own goroutine, which runs SQL on the engine |
| `internal/timetravel` | list of snapshots per table, Parquet files | capture before DML and DROP, lookup by time, UNDROP, `Cleanup`, `Reset` | SQL requests; files survive a restart, the list does not |
| `internal/stream` | streams, their change lists and offsets | CREATE/DROP STREAM, `RecordChange` after DML, `ConsumeStream`, `HasData`, `Reset` | SQL requests, WHEN conditions of tasks |
| `internal/session` | sessions by token, last activity | login, query, token refresh, heartbeat, logout, `Reset`, expiry | HTTP handlers; an expiry goroutine |
| `internal/server` | `stateMu`, routes | requests under `RLock`, `/_miniflake/reset` under `Lock` | HTTP clients |
| `internal/orchestrator` | none of its own | routing of statements, `Reset` of every subsystem in a fixed order | the server |
| `internal/engine` | DuckDB, `Engine.mu`, attached databases | query, exec, attach, `Reset` | the orchestrator; tasks and pipes directly |
| `internal/dynamictable` | tables, stop channels, one goroutine per table | create, drop, refresh, start, stop | callers and the goroutines |
| `internal/snowpipe` | pipes, load history per pipe | CREATE/DROP/ALTER PIPE, `InsertFiles`, `Reset` | SQL requests, the REST endpoint |
| `internal/stage`, `copyinto` | registered stages; directories and files | PUT, GET, LIST, REMOVE, CREATE/DROP STAGE, COPY INTO both ways, `Reset` | SQL requests; files are used with no lock held |
| `internal/catalog`, `clone` | databases, schemas, tables; clones | DDL after (or before) DuckDB's, `Reset` | SQL requests |
| `internal/rbac` | roles, their parents and grants, roles of users | CREATE/DROP ROLE, GRANT, REVOKE, `CheckAccess`, `Reset` | CREATE ROLE and GRANT or REVOKE of a privilege from SQL; `DropRole`, the granting of roles and `CheckAccess` have no caller outside the package and its tests |
| `internal/alert`, `matview`, `sequence` | a map each, background work per object | create, drop, alter, check or refresh | nothing in the program constructs them |
| `internal/udf` | a map behind a mutex | CREATE/DROP FUNCTION | SQL requests |
| `internal/rewriter`, `binding`, `protocol`, `task/cron.go` | none | text or values to text or values | everything |

How they meet: every HTTP request except the reset holds `stateMu` shared, and
the handler calls the orchestrator, which calls the engine and then, as separate
steps with no common lock, the subsystem concerned (`handleDML`: snapshot,
statement, stream record). The task scheduler is handed a function that executes
SQL on the engine directly, so it takes part in neither `stateMu` nor the
orchestrator's bookkeeping.

What is hard here and a unit test would hardly reach:

* work done after a lock was released on what was read under it: the roots and
  successors of a tick, the object of an ALTER TASK, the query of a refresh, the
  stream of a read, the session of a request;
* steps that belong together with no lock across them: export and append of a
  snapshot, commit and record of a change, delete and insert of a refresh;
* a reset that wipes sixteen stores one after another, may fail at any of them,
  and races with the scheduler;
* tickers whose channel holds one tick, so that ticks arrive late or are lost;
* a restart, after which disk and memory disagree;
* recursion over a task graph that is re-read at every level;
* files that other sessions replace, purge or drop with their stage while a
  statement that found them goes on;
* two halves of a DDL statement, DuckDB's and the catalog's, each able to fail and
  to be overtaken;
* transactions whose statements take a pooled connection one by one;
* calls of the file system whose error is dropped, so that the statement goes on
  with files it believes to be gone;
* graph searches and text scanning where an unusual input, a cycle, a leap day, a
  negative number behind a minus or a parenthesis right behind a table's name,
  changes the answer.

`PROJECT.json` lists these at their lines under `hazards`, with the properties
that guard against each.

## 2. Modules

| module | models | checked by | proofs |
|---|---|---|---|
| `TaskScheduler` | `task.go`, `handleCreateTask` | `task_core`, `task_liveness` | `TaskSchedulerProofs` |
| `TimeTravel` | `timetravel.go`, `handleDML`, DROP and UNDROP TABLE | `tt_core` | `TimeTravelProofs` |
| `Streams`, `ChangeFeed` | `stream.go`, `handleDML`; the abstract promise of a stream | `streams_core`, `streams_schema` | `StreamsProofs` |
| `ServerReset` | `withStateLock`, `handleReset`, `Orchestrator.Reset`, `Engine.Reset` and the scheduler as a writer | `reset_core` | `ServerResetProofs` |
| `Sessions` | `session.go` and the handlers that use it | `session_core` | `SessionsProofs` |
| `DynamicTables` | `dynamictable.go` | `dynamic_core` | `DynamicTablesProofs` |
| `Stages` | `stage.go`, `putget.go`, `stageref.go`, stage DDL, LIST and REMOVE | through `CopyInto` | `CopyIntoProofs` |
| `CopyInto` | `copyinto.go` on top of `Stages` | `load_core` | `CopyIntoProofs` |
| `Catalog` | `catalog.go`, DDL of the orchestrator, CLONE of a table | `statements_core` | `StatementsProofs` |
| `Pipes` | `snowpipe.go`, `InsertPipeFiles`, the ingest endpoint | `statements_core` | `StatementsProofs` |
| `Statements` | `Catalog`, `Pipes` and `Transactions` side by side | `statements_core` | `StatementsProofs` |
| `Roles`, `RoleSearch` | `rbac.go`: the operations; the access check | `algorithms_core` | `StatementsProofs` |
| `Transactions` | `handleTransaction`, `handleDML`, `ExecNoResult` and the connection pool, bulk requests | `statements_core` | `StatementsProofs` |
| `Cron` | `cron.go` | `algorithms_core`, `cron_step` | `TaskSchedulerProofs` |
| `DependencyOrder` | `GetDependencyOrder` | `algorithms_core` | `TaskSchedulerProofs` |
| `Bindings` | `binding.go`, `bulk.go` | `algorithms_core` | – |

Each `MC...` module gives the constants of one specification small values.
Definitions whose comment begins with "Faulty variant" are plausible mistakes in
the code; no specification uses them. They are there to show that a property
notices: with the variant in place of the definition after it, the property
that `PROJECT.json` names under `mutants` fails.

### TaskScheduler

`tasks` is the registry, `attr`, `state`, `nextRun` and `lastRun` are the fields
of the `*Task` objects, which outlive their registry entry: that is why objects
and names are separate. A SQL request is one action for each section it executes
under `s.mu`; ALTER TASK is two (`AlterLookup`, `AlterApply`), because it drops
the lock between finding the object and setting its state. The scheduler
goroutine is a program counter `pc` with `roots` (collected by `tick`), `cur`
(the task whose SQL is running) and `stack` (one set of collected successors per
active `runSuccessors`; the map it ranges over has no order, hence a set).
`Second` is the ticker with its channel of one slot. A WHEN condition is a
choice made when it is evaluated. Schedules are "every n minutes", a cron
expression (the operator constant `CronNext`, of which only
`CronNext(n, t) > t` is assumed), none, or text that does not parse.

History variables: `ran` and `again` (what the current tick ran, and whether
anything twice) and `eligible` (what was registered and started at some moment
of the current tick).

### TimeTravel

One table; `table` is a version number, fresh for every write, or `Absent`. A
DML statement or DROP TABLE is `Capture` (reads the time), `Export`,
`AppendSnapshot`, then `ExecDML` or `ExecDrop`; each may fail where the code
ignores or returns an error. UNDROP is `LookupUndrop` and `Restore`. The list
`e.snapshots[fqn]` is a set of records whose `id` is the position, because the
append hands out the id under the same lock. `WriteAround` stands for writes
that pass through neither path (task bodies, pipes, COPY INTO). `Restart` empties
the list and keeps tables and files.

### Streams and ChangeFeed

A stream is an object with a table key, a type, a list of changes and an offset.
A DML statement is `ExecDML` (commits, external to the stream engine), then
`RecordBegin`, `RecordOne` once per watching stream, `RecordEnd`; reading a
stream is `ConsumeLookup` and `Consume`. `RecordChange` keeps the registry lock
shared for its whole run, so CREATE and DROP STREAM wait for it, while other
records and readers interleave. The key under which a change is recorded comes
from the session's schema; where DuckDB finds the table does not, which
`Physical` states (external: USE SCHEMA only changes the session).

`extractTableFromDML` reads the table's name off the text of the statement, up to the
next white space. Its outcomes are three, and `Forms` are the ways of writing a
statement that lead to them: `plain`, the name is read as it is; `glued`, something
follows it at once, as in `INSERT INTO t(id)` or `DELETE FROM t;`, and the record's key
(`RecordKey`) is one that no stream has; `unseen`, as in `INSERT OR REPLACE INTO t`, no
name is found and nothing is recorded (`RecordSkipped`).

`ChangeFeed` is the abstract specification: a feed grows by changes it has not
seen, and a reader receives all it has not been handed. `Streams` implements it
with `feed <- changes, read <- delivered` (`FeedSpec`).

### ServerReset

The state is the set of stores that hold something a user made. A client's `pc`
goes through a request (`rlock`, `query`) or a reset (`queued`, `drain`,
`wiping`, then `ok` or `failed`). The lock is a `sync.RWMutex`: an announced
writer blocks new readers, `Unlock` lets the readers that wait go first. `Order`
is the order of `Engine.Reset` followed by `Orchestrator.Reset`. The scheduler
collects (`Tick`), executes (`TaskSQL`, blocked while `Engine.Reset` holds the
engine's lock) and ends (`TickEnd`). `Restart` keeps what is on disk; databases
made by CREATE DATABASE are files that nobody attaches again (`shelved`) until
the next CREATE DATABASE (`Attach`).

### Sessions

Time is the age of each session since its last activity, capped where nothing
can tell the difference. The ticker's channel holds one tick that may be
`MaxLag` old when it is used. Handlers that call the manager several times are
several actions (`Query`, `Lookup`, `Execute`; `Refresh`, `RefreshTouch`).

### DynamicTables

One table key. A channel is named after the goroutine it was made for. The rows
are the sequence of queries whose result was inserted since the last DELETE, so
`<<q>>` is a table refreshed from query `q` and `<<q, q>>` one with every row
twice. The program does not construct this manager yet; its package and its
tests define it.

### Stages and CopyInto

`Manager.mu` protects the map of stages and nothing else, so the file system is
part of the state: `dirs` are the directories that exist, `file[s][f]` is the inode
a name points to, and an inode holds the set of writes that finished copying into
it since it was truncated. One write is a whole file, none a file being written,
two a mixture. PUT is `Put` (resolves the stage), `Mkdir`, `Create` (truncates) and
`CopyDone` or `CopyFails`; a stage's directory depends on its name only, so a write
under way goes on after DROP STAGE or the two steps of CREATE OR REPLACE STAGE.
REMOVE and GET list once and visit file by file. COPY INTO a table is `CopyLoad`
(lists), one `Loaded` or `LoadFailed` per file, and `Purge` as a step of its own;
COPY INTO a stage is `CopyUnload`, then the removal that OVERWRITE asks for, then
`UnloadWrite` or `UnloadFailed`. File formats decide only whether an INSERT
succeeds, which is a choice.

So is the failure of a call of the file system. Where the code returns the error, the
statement ends there (`MkdirFails`, `Create`, `CopyFails`); where it ignores it, the
statement goes on as if nothing had happened: DROP and OR REPLACE forget the stage
while any of its files stay on disk (`RemoveStage`, with the files `kept`), a reset does
the same for all stages, and PURGE, OVERWRITE and REMOVE go on to the next step with the
file still there.

History variables: `discarded` are writes that a later write replaced (OVERWRITE or
not, both a PUT and an unload replace the file of their name) or that a statement meant
to remove them did; `late` are writes that outlived a removal of their stage, because
they were under way or because their file could not be removed; `spoiled` are inodes
that two wrote at a time or one failed on; `raced` are writes that had a file open while
a COPY was between its INSERT and its purge; `spent` is what a COPY loaded from files it
then removed.

### Catalog

One database, once in DuckDB (`attached`, `engSchemas`, `engTables`) and once in
the catalog (`catDb`, `catSchemas`, `catTables`). A statement is its first step and
then `work[s]`, the step left over for the other side; CREATE DATABASE goes to the
catalog first, everything else to DuckDB first. `Around` is a statement of the v2
API, a task or a pipe, which the catalog never hears of.

Statements of an ordinary session leave gaps as well. CREATE TABLE ... CLONE, UNDROP
TABLE and ALTER TABLE ... RENAME change DuckDB only (`CloneTable`, `UndropTable`,
`RenameTable`; the clone engine's own list is read by nothing and left out), and `CREATE TABLE t(id INT)`
registers a table named `t(id` (`CreateTableMisread`; that entry is none of the names the
model is about). DDL is transactional in DuckDB and not in the catalog: `saved` is what
DuckDB had at BEGIN and has again after ROLLBACK. The history variables name the gaps:
`unlisted` are tables missing from the catalog because they are clones, were undropped,
renamed or misread, because the catalog forgot their schema or database, because their
DROP failed behind IF EXISTS, or because ROLLBACK undid the DROP; `ghosts` are tables
that the catalog lists and that RENAME or ROLLBACK took away in DuckDB; `mixed` are those
on which two statements overlapped or that something changed behind the catalog's back.

In this module a transaction takes in every statement until it ends, as it does when
statements reach DuckDB one at a time and the pool hands out the same connection;
`Transactions` has the connections. A reset while a transaction is open is left out.

### Pipes

One pipe name. A pipe is named after its CREATE, a result after pipe, call and
file. `InsertFiles` looks up, `ExecCopy` runs once per file with no lock held,
`RecordHistory` appends to the history of the key whatever became of the pipe.

### Roles and RoleSearch

Sets of pairs for the hierarchy, the grants and the users' roles; every operation
is atomic under `Engine.mu`. `RoleSearch` is `CheckAccess` as a machine with a stack:
a step is one call of `roleInheritsLocked` or `roleHasPrivilegeLocked`, a frame holds
the roles that the loop of a call has yet to try, and `visited` is the one set that
all branches of a search share. Which role of a frame comes next is a choice, as the
order of Go's maps is. The check holds the read lock, so no role changes under it.

### Transactions

The pool of `database/sql` and DuckDB's transactions are external, modelled from
how `engine.go` uses them: the last connection returned is the first reused, at
most `MaxIdle` idle ones are kept, closing one rolls back. A statement takes a
connection (`Connect`), runs and returns it (`Release`); the snapshot query of
`handleDML` and the INSERT are two statements. A request has one of the forms of
`Streams`: an unseen one has no snapshot query and no record, a glued one is recorded
under a name that no stream has; `misread` collects the rows of both. `inTx`, `mine`, `durable` and
`undone` are what clients were told; `shared` is set once a transaction overlaps
with a statement of another session, after which clients cannot know what to
expect. An error leaves the transaction as it is; that DuckDB aborts one after
some errors is left out.

### Cron, DependencyOrder, Bindings

Pure algorithms next to a reference definition each. `Cron` and `DependencyOrder`
are loop machines: a step is one turn of a loop of the code, with its variables as
state (`parsed`, `item`, `v`, `vals` and `tm` for a cron expression; `inDegree`, `adj`,
`queue` and `order` for the order), and a call ends where the code returns. The
references are not loops: the values an item stands for, the least due minute, a
topological order of all that is not on or behind a cycle. The calendar of `Cron` is
a parameter, so that a small one has months of different length, a leap day and a
limit one day short of the cycle, as the code's 4 x 365 days are. Numbers have no
width: with a step so close to 2^63 that `v += step` wraps around, the loop of the code
would collect other values, which the model leaves out.

In `Bindings` a behaviour is one question and its answer, computed by recursive
operators. A statement is a sequence of symbols; a digit, a letter, the two kinds of
quotes, comment marks and the line break are told apart because the properties are about
them. `SplitInsertValues` trims the statement, what stands before VALUES and the tuple, as
the code does. Block comments and `//` are skipped as `$$` and `--` are and have no symbol
of their own.

## 3. What the runs show

Type invariants are proved for every instance (section 5); the run of
`Statements` checks its own too. Beyond types:

* `task_core`: a tick runs no task twice unless a task was replaced while it was
  under way (`OncePerTick`), runs only what was registered and started at some
  moment of that tick (`RanWasEligible`), runs a task after its predecessor
  (`PredecessorFirst`), and a root never before its time (`IntervalRespected`).
  Two names and three objects, so that a name is dropped and created again twice;
  definitions that form a cycle when replaced; three ticks.
* `task_liveness`: a due root is served although ticks are lost and other tasks hold
  the goroutine (`DueRootServed`), and `Stop` returns (`StopReturns`).
  Two objects are enough for a root and a successor, or for one replaced task.
* `tt_core`: every listed snapshot has its file (`SnapshotFilesExist`); unless
  statements overlapped, AT finds the snapshot closest before its time (`ClosestUnlessOverlap`) and UNDROP
  restores what DROP removed (`UndropRestoresDropped`). Two sessions,
  three writes and six instants: room for a snapshot to age out between a drop
  and its UNDROP, and for a table to be created in between.
* `streams_core`: no committed change of a plainly written statement is missed
  (`NoChangeMissed`), a session's changes stay in order (`SessionOrder`), and streams
  implement `ChangeFeed`. Two sessions, two stream names and objects, two changes in
  any of the three forms.
* `reset_core`: a wipe overlaps with no request and no other wipe
  (`WipeExclusive`); "ok" means every store is empty except for what tasks wrote
  meanwhile (`ResetComplete`); resets and requests are both answered
  (`EveryoneAnswered`). Three clients: a writer, a reader and a
  third of either kind that could starve one of them. The workload writes one
  store the engine wipes early, one it wipes late, and one wiped after it.
* `session_core`: a session used within the timeout is kept (`ActiveKept`), one
  that ended is not revived by a request under way (`GoneStaysGone`), and one
  nobody uses is removed (`IdleExpires`). Timeout and lag of two, so that a late
  tick can be older than the last activity.
* `dynamic_core`: a goroutine not told to stop is the one whose channel the
  manager holds (`LoopTracked`), refreshes that do not overlap replace the rows
  (`ConsistentUnlessOverlap`), and a goroutine told to stop ends
  (`StoppedLoopEnds`). Two goroutines, so that one of a dropped table meets the
  table created after it, and a caller.
* `load_core`: an upload answered with success is in its stage, in the table,
  replaced, or removed by a statement that says so, unless it raced with a purge
  (`NoUploadLost`); a new stage holds files of an old one only from writes that outlived
  it, and a file is one whole write unless writes overlapped or failed on it
  (`FilesExplained`); what a COPY with PURGE has removed is not loaded again
  (`PurgedNotReloaded`). Two sessions, one named stage, two files and two writes: an
  upload over an upload, a load over two files of which one fails, a drop between any
  two steps, and every subset of files that a removal leaves behind. User and table
  stages differ in that they are never dropped and come into being when first used; with
  one beside the named stage there are more than six million states, so they are left to
  the proofs, which have any number of both.
* `statements_core` takes three modules that share no state; a behaviour follows
  one of them.
  Catalog: the catalog lists a table DuckDB does not have, or misses one it has,
  only between the steps of a statement, after an overlap, or for a named reason
  (`CatalogMatches`); two sessions, one schema and two tables, so that one can be renamed
  to or cloned from the other.
  Pipes: the history has what was inserted and nothing else (`NothingUnrecorded`),
  results of another pipe only from calls running when it was dropped
  (`OwnHistory`), and every accepted call eventually (`CallRecorded`); two callers, two pipes of one name, two files.
  Transactions: without overlap the clients get what they were told
  (`TransactionsIntact`); every row that a query sees is recorded in the streams or
  about to be, unless its statement was misread, and a recorded row that is not
  committed is pending or was undone (`StreamsAccount`). Two writers on two connections
  and two rows. That the pool closes a connection takes three statements at once, more
  than this run has; the theorems (`TransactionsKept`, `StreamsAccounted`) hold for any
  number of sessions and of connections kept.
* `algorithms_core`: a cron field means the values of its items
  (`FieldDenotation`), the next time is the least matching one within the limit
  (`NextIsLeast`), the dependency order is a topological order of everything not
  on or behind a cycle (`OrderIsTopological`), nothing names a dropped role
  (`NoDangling`), for every order of the maps the access check says exactly what
  reachability in the hierarchy says (`AccessIsReachability`), bound values change
  neither the shape of a statement nor the number of its placeholders
  (`SubstitutionFaithful`), and an expanded bulk INSERT has the rows that executing
  row by row has (`BulkMatchesRows`), unless a comment to the end of the line stands right
  before VALUES. Every call of the first three algorithms
  returns, whatever step, cycle of tasks or cycle of roles it is given
  (`CallsReturn`). All fields of up to two items over
  five numbers, 72 expressions at every minute of the calendar, all graphs of up to
  four tasks in every order, three roles with up to three edges and one grant, all
  texts of up to five symbols and all INSERTs of up to six, quotes, comments and line
  breaks among them.

Every bound is a constant named in its module: the number of objects, changes,
versions or CREATEs, and the clock. In `TaskScheduler` the clock saturates and in
`Sessions` ages do, so time never stops a behaviour; in the other modules the
bound ends the writes but not the processes.

### Where code and documentation disagree

Two runs end in a counterexample to what a comment or the README of the
repository says; `findings` quotes each.

* `streams_schema`: a change made from another schema to the same table is
  recorded under a key no stream on that table has.
* `cron_step`: a number with a step, as in `0/30`, is the number alone; the comment
  of the test that uses it says "every 30 minutes".

Other differences met while modelling. The properties above carry the exception
that each of them needs ("unless overlapped", "but for ..."), so the models reach
them; none has a run of its own:

* tasks: replacing a started task during a tick by one that closes a cycle makes
  `runSuccessors` recurse for ever (`DueRootServed` excludes it); DROP TASK does not stop
  a task the tick has already collected ("Stop the task if running."); a running
  task writes to the engine after a reset wiped it and before the reset answers;
* time travel: overlapping captures are appended out of time order, so AT need not
  find the closest snapshot; snapshots are taken before a statement, so the one
  found for an instant after it holds the older state; when the capture of a DROP
  fails, UNDROP restores an older snapshot;
* table names: `extractTableFromDML` reads up to the next white space, so for
  `INSERT INTO t(id) ...` or `DELETE FROM t;` the snapshot fails and the change reaches no
  stream, and for `INSERT OR REPLACE INTO t` neither is tried; `CREATE TABLE t(id INT)`
  registers a table `t(id` in the catalog;
* streams: a MERGE is recorded as an insert and reaches APPEND_ONLY streams; rows of
  a transaction that was rolled back stay in the streams;
* dynamic tables: overlapping refreshes double the rows, and a refresh overtaken by
  DROP and CREATE inserts the old query's rows;
* reset: after a restart the tables in database files that are not attached survive;
* catalog: CREATE DATABASE never reports an error, DROP DATABASE leaves DuckDB's
  database as it is, DROP SCHEMA reports success when DuckDB refused, UNDROP and
  RENAME change DuckDB only, ROLLBACK undoes DDL in DuckDB only, and statements of the
  v2 API reach neither the catalog nor the streams;
* stages: COPY loads a file again that it has loaded before (no load history is
  kept, and nothing sets or reads the field ForceLoad); PURGE may delete an
  upload that replaced the file since it was read, and a file it fails to remove is
  loaded again by the next COPY; files that DROP or OR REPLACE fails to remove are in the
  next stage of that name; unloads write a header line that
  loads take for a row by default;
* pipes: CREATE OR REPLACE PIPE is refused when the pipe exists; the COPY statement
  of a pipe goes to DuckDB as it is, stage references included;
* bulk INSERT: a line comment right before VALUES loses the line break that ends it when
  the rows are folded into one statement, so that VALUES becomes part of the comment
  (`BulkMatchesRows` excludes it);
* transactions: COMMIT and ROLLBACK may end another session's transaction when
  sessions overlap;
* cron: the comment on `nextCronTime` says "at or after", the code finds a strictly
  later time; a 29 February may lie beyond the limit of 4 x 365 days.

## 4. Fairness

* `TaskScheduler`: the ticker fires, the goroutine takes the tick and goes on, and
  SQL returns (weak fairness of `Second`, `TickBegin`, `Walk`); Go's `select`
  chooses at random, so a cancelled context is seen eventually (strong fairness
  of `LoopExit`). DDL has none, except that an ALTER under way finishes.
* `ServerReset`: handlers return; the steps of a reset are taken; writers of a
  `RWMutex` queue on a `sync.Mutex`, which is free of starvation, hence strong
  fairness of `Announce`. No client is obliged to send anything.
* `Sessions`: time passes and the expiry goroutine is scheduled.
* `DynamicTables`: goroutines go on, SQL returns, and `select` does not prefer the
  timer for ever (strong fairness of `LoopStop`).
* `Pipes`: the goroutine of an ingest request carries on (weak fairness of
  `InsertWork` for each caller). DDL has none.
* `MCAlgorithms`: a call of the cron parser and search, of `GetDependencyOrder` or of
  `CheckAccess` goes on once begun (weak fairness of `CronWork`, `OrderWork` and
  `SearchWork`): they hold a read lock, or none, and nothing in them waits.
* Everything else: safety only.

## 5. What is proved

The theorems hold for every value of the constants that satisfies the named
assumptions (`ASSUME`s): distinguished values such as `NoObj` are not members of
the sets they are missing from, bounds are natural numbers; for tasks, the
next cron time is later than the given one; for transactions, there are as
many connections as sessions, because `engine.go` sets no limit on the pool; for
cron expressions, the calendar has at least one day and its units are not zero
(`CalendarAssumption`), and the numbers in fields are natural (`FieldAssumption`),
since the parser refuses an item with a negative one. TLC
evaluates these assumptions in every run. Each proof is an inductive invariant
with one step per action.

* `TaskSchedulerProofs`: `TypeCorrect`, `OnlyEligibleRun`, `PredecessorsRunFirst`,
  `NoDoubleRun`, `ScheduleKept`. `OncePerTick` is far from inductive. The invariant says that
  whatever waits in a frame of the stack has not run and has a predecessor whose
  successors were collected, that frames are disjoint, and that no two eligible
  objects share a name. Names then determine objects, each object is a successor
  of one name, each name is collected once, so no object enters two frames. This
  holds for every task graph, cyclic ones included: a cycle has no root. `ScheduleKept` (`IntervalRespected`)
  adds `IntervalInv`: the next run of every scheduled task that has run lies one
  step of its schedule or more after its last run, and the root the walk is about to
  execute was due at `now`. A WHEN condition that fails moves the next run on, from
  a time that was due, and a schedule never points back (`NextRunLater`).
  For `DependencyOrder`: `OrderCorrect` and `OrderDescent`. `OrderInv` speaks of the
  queue and the result as one list: no node is in it twice, each one's predecessor is
  in the part already taken, and a node's in-degree is one exactly while it waits for
  a predecessor not yet taken. When the queue is empty, the waiting nodes all have a
  waiting predecessor, which is what being on or behind a cycle means.
  For `Cron`: `FieldsDenoted`, `NextTimeLeast` and `CronDescent`. `CronInv` says that
  the values collected are those of the items before the one at hand and those of the
  item itself below `v`, that `v` is a whole number of steps from where the item
  begins, that each field parsed contains what its text means, and that the search has
  passed over no due minute.
* `TimeTravelProofs`: `TypeCorrect`, `ListedFilesExist`, `ListSorted`,
  `ClosestFound`, `UndropFaithful`. Needed
  besides: no two captures under way share a timestamp, nor does one share a
  listed snapshot's, so `Cleanup` cannot delete the file of a capture; a capture
  about to be appended has its file; without overlap its timestamp is later than
  all listed ones. `ClosestFound` adds that no two listed snapshots share a place,
  and that a bounded set of naturals has a greatest member, from the library's
  theorem on well-founded relations. `UndropFaithful` (`UndropRestoresDropped`) adds
  `DropInv`: without overlap nothing touches the table between the export and the
  statement it is made for, so a captured DROP leaves what it removed in the file of
  the last listed snapshot, and while the table is gone nothing is exported after it;
  an UNDROP under way has that snapshot in hand, or one whose file `Cleanup` removed.
* `StreamsProofs`: `TypeCorrect`, `OrderKept`, `StreamsImplementFeed`,
  `NoKeyMissed`, `NoStreamMissed`. Records interleave, so a stream's list is not in
  the order of commits. `OrderInv` says instead that a session which has still to
  append its change to a stream (`Pending`) appends it after every earlier change of
  its own; with the numbering of `LogInv`, every `RecordOne` publishes a change that
  the feed has not seen. `OffsetInv` says that what was delivered is the stream up to
  its offset. For the refinement `RecordOne` is `Publish`, `Consume` is `Deliver`, and
  every other step leaves `changes` and `delivered` alone. `NoKeyMissed` speaks of the
  keys that `RecordChange` uses, for any schemas; `NoStreamMissed` states
  `NoChangeMissed` under `OneTableName` (one schema, no qualified names), the case in
  which the key of the record and that of the stream agree if the statement is plain,
  the only form the property promises anything about. `streams_schema` shows
  that the property fails without the proviso.
* `CopyIntoProofs`: `TypeCorrect`, `UploadsKept`, `FilesAccounted`, `PurgedOnce`, for
  `CopyInto` and the `Stages` it builds on. The properties rest on the identity of
  inodes. `NameInv`: no two names point to one inode, the data of one write are under
  one name at most, and only when the write is over. `HolderInv`: an inode that a write
  has open is under the name it was opened by or under none, and in the latter case
  the write is already among the discarded or the raced; two writes that have the same
  one open have spoiled it. `PurgeInv`: what a COPY has inserted and not yet purged is
  under the name it will remove or under none. `SpentInv`: what it loaded and removed is
  under no name. Removals may fail and leave their file: what a failed purge leaves does
  not count as removed, and `LateInv` needs that the writes in a file kept by DROP are
  among the late. From these follow `UploadInv` (an upload stays findable, or is loaded,
  discarded or raced), `LateInv` and `WholeInv`, the two halves of `FilesExplained`.
* `ServerResetProofs`: `TypeCorrect`, `WipesExclude`, `OkMeansWiped`. Needed
  besides: at most one client is a writer, and while one wipes, the stores before
  the cursor hold only what tasks wrote.
* `SessionsProofs`: `TypeCorrect`, `UsedSessionsKept`, `NoRevival`. A tick in the
  channel is never newer than now, so an age measured from it is never too large.
* `StatementsProofs`: `CatalogTypeCorrect`, `CatalogExplained`, `RolesClosed`,
  `PipesTypeCorrect`, `HistoryOwned`, `InsertsRecorded`, `TxTypeCorrect`,
  `TransactionsKept`, `StreamsAccounted`. The catalog
  is argued table by table (`TableOK`): which second step a session has left decides
  on which side the table may be, and two sessions with steps on one table have put
  it into `mixed`; CLONE, RENAME, UNDROP and ROLLBACK take no second step, so the gap they leave
  is in `unlisted` or `ghosts` at once and stays until a statement on that table closes
  it. For pipes the invariant (`CallsInv`) says that a running call
  belongs to the present pipe or is a stray, that its results bear its pipe and
  number, and that an idle caller has none left. For transactions `TxPool` and `TxRows` say that a
  connection is idle or held by one session and that every row made is recorded, misread or
  in the hands of its session. As long as nothing is shared, the session with a
  transaction is alone, its transaction is the only open one, on the connection its
  next statement will take, and the pool has room for that connection to come back,
  so it is never closed (`TxAlone`); every row is committed, undone or pending, never
  two of these (`TxKept`). These theorems
  are about each module's own next-state relation, for every number of sessions,
  callers, pipes, files, roles and tables; `TypeCorrect` is about `Statements`, the
  three side by side.
  For the access check: `AccessCorrect` and `SearchDescent`. The searches cut a branch
  off at any role that another branch visited, so the answer is not that of the branch
  at hand. `SearchInv` says that every edge of the hierarchy out of a visited role leads
  to one that is visited or on the stack (`FollowedUp`, `FollowedDown`), that everything
  seen is above the role the search began with (below it, for the second search), and
  that no visited role is the one looked for. Once the stack is empty the visited roles
  are closed under the hierarchy, so what was not found cannot be reached; this needs
  no order of the maps and no absence of cycles.
* `DynamicTablesProofs`: `TypeCorrect`, `LoopsTracked`, `RowsConsistent`. Needed
  besides: an unstarted goroutine has no channel, a missing entry has none
  either; without overlap one refresh is at work at most, it carries the query of
  the entry, and the table is empty between its two statements.

`SearchDescent`, `OrderDescent` and `CronDescent` are the part of `CallsReturn` that is
a safety property: each step goes down in an order in which, over finitely many roles
or tasks, nothing goes down for ever (roles not visited, then the height of the stack;
tasks not listed, then what a loop has left), or moves a loop of the cron code on
towards the bound at which it stops. That such a step is taken is fairness, which the
runs assume.

Only model-checked: all liveness (`DueRootServed`, `StopReturns`,
`EveryoneAnswered`, `IdleExpires`, `StoppedLoopEnds`, `CallRecorded`, `CallsReturn`),
which is beyond the prover; and the two invariants of `Bindings`
(`SubstitutionFaithful`, `BulkMatchesRows`), which compare what recursive operators
make of a text with how a reader of SQL scans it, and would need induction over texts.

## 6. What is not modelled, and what could follow

* SQL rewriter: some sixty regular expressions from text to text, without state. A
  model would repeat the expressions, and what DuckDB makes of the result is outside
  the source.
* Wire protocol and result encoding, TLS setup: formats without state.
* User-defined functions, warehouses: a map behind a mutex with one operation per
  statement; they appear as stores that a reset wipes.
* Materialized views, alerts, sequences: nothing in the program constructs them. The
  refresh loop of the views is that of `DynamicTables`; a sequence is a counter under
  one mutex.
* Sharing, tags, network policies, external functions, account usage: packages no
  statement reaches and that only guard a map.
* `CloneSchema` and `CloneDatabase`: not reached by any statement.
* SHOW, DESCRIBE and the listings: they change nothing.
* Time zones of cron expressions: they shift the calendar.

What could follow: an atomic reset as an abstract specification that `ServerReset`
implements when no tasks run; stages and pipes composed, should pipes come to resolve
stage references.
