---------------------------- MODULE TimeTravel ----------------------------
(***************************************************************************)
(* internal/timetravel/timetravel.go and the statements of the             *)
(* orchestrator that feed it: every INSERT/UPDATE/DELETE/MERGE and every   *)
(* DROP TABLE first exports the table to a Parquet file, then appends the  *)
(* file to the table's list of snapshots, then executes.  Nothing is held  *)
(* between these steps, so the statements of two sessions interleave.      *)
(*                                                                         *)
(* One fully qualified table name: the lists of two tables never meet.     *)
(* The table's contents are a version number, fresh for every write.  The  *)
(* list of snapshots is a set of records: a snapshot's ID is its place,    *)
(* because IDs are handed out by the append itself.                        *)
(***************************************************************************)
EXTENDS Integers

CONSTANTS
    Sessions,   \* sessions issuing statements
    Absent,     \* the table does not exist
    MaxAge,     \* retention period
    MaxTime,    \* bound on the clock
    MaxWrites   \* bound on the versions

ASSUME SessionAssumption == Sessions # {}
ASSUME AbsentAssumption  == Absent \notin Nat
ASSUME BoundAssumption   == MaxAge \in Nat /\ MaxTime \in Nat /\ MaxWrites \in Nat

Version  == 1 .. MaxWrites
Contents == Version \cup {Absent}
Time     == 0 .. MaxTime
Busy     == {"export", "append", "exec", "restore"}
Ops      == {"dml", "drop", "undrop"}
Statement ==
    [pc : Busy \cup {"idle"}, op : Ops, ts : Time, captured : BOOLEAN]
Snapshot == [id : Nat, ts : Time]
Idle     == [pc |-> "idle", op |-> "dml", ts |-> 0, captured |-> FALSE]

VARIABLES
    clock,      \* time.Now()
    writes,     \* versions used so far
    table,      \* the table in DuckDB
    files,      \* Parquet files: timestamp (their name) -> contents
    snaps,      \* e.snapshots[fqn]
    nextID,     \* e.nextID
    stmt,       \* the statement each session is executing
    \* history variables
    dropped,    \* contents removed by the last DROP TABLE
    lastDrop,   \* whether that DROP captured a snapshot, or went around
    overlapped  \* two statements were under way at the same time

store == <<files, snaps, nextID>>
hist  == <<dropped, lastDrop>>
vars  == <<clock, writes, table, store, stmt, hist, overlapped>>

----------------------------------------------------------------------------
Init ==
    /\ clock = 0 /\ writes = 0
    /\ table = Absent
    /\ files = [t \in Time |-> Absent]
    /\ snaps = {} /\ nextID = 1
    /\ stmt = [s \in Sessions |-> Idle]
    /\ dropped = Absent /\ lastDrop = "none"
    /\ overlapped = FALSE

(* time.Now() never returns the same nanosecond twice. *)
Now == clock + 1
Pass == clock < MaxTime /\ clock' = Now

Exists(t) == files[t] # Absent

(* The list order of e.snapshots[fqn]. *)
IsLast(x, S) == x \in S /\ \A y \in S : y.id <= x.id

Overlap == overlapped' = (overlapped \/ \E r \in Sessions : stmt[r].pc # "idle")

StartStatement(s) == stmt[s].pc = "idle" /\ Overlap

Finish(s) == stmt' = [stmt EXCEPT ![s] = Idle]

----------------------------------------------------------------------------
(* CREATE [OR REPLACE] TABLE captures nothing. *)
CreateTable(s) ==
    /\ StartStatement(s)
    /\ writes < MaxWrites
    /\ Pass
    /\ writes' = writes + 1
    /\ table' = writes'
    /\ UNCHANGED <<store, stmt, dropped, lastDrop>>

(* CaptureSnapshot, on behalf of a DML statement or of DROP TABLE: the time *)
(* is read first, ...                                                       *)
Capture(s, op) ==
    /\ op \in {"dml", "drop"}
    /\ StartStatement(s)
    /\ Pass
    /\ stmt' = [stmt EXCEPT ![s] = [pc |-> "export", op |-> op, ts |-> Now,
                                    captured |-> FALSE]]
    /\ UNCHANGED <<writes, table, store, hist>>

(* ... then the table is copied out, which may fail and is not fatal, ...   *)
Export(s) ==
    /\ stmt[s].pc = "export"
    /\ \/ /\ table # Absent
          /\ files' = [files EXCEPT ![stmt[s].ts] = table]
          /\ stmt' = [stmt EXCEPT ![s].pc = "append"]
       \/ /\ stmt' = [stmt EXCEPT ![s].pc = "exec"]
          /\ UNCHANGED files
    /\ UNCHANGED <<clock, writes, table, snaps, nextID, hist, overlapped>>

(* ... and only then is the snapshot appended under e.mu. *)
AppendSnapshot(s) ==
    /\ stmt[s].pc = "append"
    /\ snaps' = snaps \cup {[id |-> nextID, ts |-> stmt[s].ts]}
    /\ nextID' = nextID + 1
    /\ stmt' = [stmt EXCEPT ![s].pc = "exec", ![s].captured = TRUE]
    /\ UNCHANGED <<clock, writes, table, files, hist, overlapped>>

(* handleDML runs the statement; an error leaves the table alone. *)
ExecDML(s) ==
    /\ stmt[s].pc = "exec" /\ stmt[s].op = "dml"
    /\ \/ /\ table # Absent
          /\ writes < MaxWrites /\ Pass
          /\ writes' = writes + 1
          /\ table' = writes'
       \/ UNCHANGED <<clock, writes, table>>
    /\ Finish(s)
    /\ UNCHANGED <<store, dropped, lastDrop, overlapped>>

(* DROP TABLE, with or without IF EXISTS. *)
ExecDrop(s) ==
    /\ stmt[s].pc = "exec" /\ stmt[s].op = "drop"
    /\ \/ /\ table # Absent
          /\ Pass
          /\ table' = Absent
          /\ dropped' = table /\ lastDrop' = (IF stmt[s].captured THEN "saved" ELSE "lost")
       \/ /\ table = Absent
          /\ UNCHANGED <<clock, table, hist>>
    /\ Finish(s)
    /\ UNCHANGED <<writes, store, overlapped>>

(* Faulty variant: the oldest snapshot instead of the most recent one. *)
LookupUndropOldest(s) ==
    /\ StartStatement(s)
    /\ \E x \in snaps :
          /\ \A y \in snaps : x.id <= y.id
          /\ stmt' = [stmt EXCEPT ![s] = [pc |-> "restore", op |-> "undrop",
                                          ts |-> x.ts, captured |-> FALSE]]
    /\ UNCHANGED <<clock, writes, table, store, hist>>

(* UNDROP TABLE: the last snapshot of the list is looked up, ... *)
LookupUndrop(s) ==
    /\ StartStatement(s)
    /\ \E x \in snaps :
          /\ IsLast(x, snaps)
          /\ stmt' = [stmt EXCEPT ![s] = [pc |-> "restore", op |-> "undrop",
                                          ts |-> x.ts, captured |-> FALSE]]
    /\ UNCHANGED <<clock, writes, table, store, hist>>

(* ... and CREATE TABLE AS reads it back, unless the table exists again or  *)
(* the file is gone.                                                        *)
Restore(s) ==
    /\ stmt[s].pc = "restore"
    /\ \/ /\ table = Absent /\ Exists(stmt[s].ts)
          /\ Pass
          /\ table' = files[stmt[s].ts]
       \/ /\ table # Absent \/ ~Exists(stmt[s].ts)
          /\ UNCHANGED <<clock, table>>
    /\ Finish(s)
    /\ UNCHANGED <<writes, store, dropped, lastDrop, overlapped>>

(* Cleanup deletes what is older than MaxAge, list and files, under e.mu. *)
Cleanup ==
    LET old == {x \in snaps : x.ts < clock - MaxAge} IN
    /\ snaps' = snaps \ old
    /\ files' = [t \in Time |-> IF \E x \in old : x.ts = t THEN Absent ELSE files[t]]
    /\ UNCHANGED <<clock, writes, table, nextID, stmt, hist, overlapped>>

(* Faulty variant: the wipe overlaps with requests. *)
ResetAnyTime ==
    /\ table' = Absent
    /\ snaps' = {} /\ nextID' = 1
    /\ files' = [t \in Time |-> Absent]
    /\ dropped' = Absent /\ lastDrop' = "none"
    /\ UNCHANGED <<clock, writes, stmt, overlapped>>

(* POST /_miniflake/reset: exclusive with every request; the engine drops   *)
(* the table, Reset the list and the files.                                 *)
Reset ==
    /\ \A s \in Sessions : stmt[s].pc = "idle"
    /\ table' = Absent
    /\ snaps' = {} /\ nextID' = 1
    /\ files' = [t \in Time |-> Absent]
    /\ dropped' = Absent /\ lastDrop' = "none"
    /\ UNCHANGED <<clock, writes, stmt, overlapped>>

(* The process is restarted: tables and files are on disk, the list of      *)
(* snapshots is not.                                                        *)
Restart ==
    /\ snaps' = {} /\ nextID' = 1
    /\ stmt' = [s \in Sessions |-> Idle]
    /\ UNCHANGED <<clock, writes, table, files, hist, overlapped>>

(* Task bodies, pipes, COPY INTO and everything else that reaches the      *)
(* engine without handleDML or DROP TABLE captures nothing.                *)
WriteAround ==
    /\ table # Absent
    /\ Pass
    /\ Overlap
    /\ \/ /\ writes < MaxWrites
          /\ writes' = writes + 1
          /\ table' = writes'
          /\ UNCHANGED <<dropped, lastDrop>>
       \/ /\ table' = Absent
          /\ dropped' = table /\ lastDrop' = "around"
          /\ UNCHANGED writes
    /\ UNCHANGED <<store, stmt>>

Next ==
    \/ \E s \in Sessions :
          \/ CreateTable(s)
          \/ \E op \in {"dml", "drop"} : Capture(s, op)
          \/ Export(s) \/ AppendSnapshot(s)
          \/ ExecDML(s) \/ ExecDrop(s)
          \/ LookupUndrop(s) \/ Restore(s)
    \/ WriteAround \/ Cleanup \/ Reset \/ Restart

Spec == Init /\ [][Next]_vars

----------------------------------------------------------------------------
(* Faulty variant: the list is scanned from its beginning. *)
QueryFromOldest(ts) ==
    LET ok == {x \in snaps : x.ts <= ts}
    IN  IF ok = {} THEN 0 ELSE (CHOOSE x \in ok : \A y \in ok : x.id <= y.id).ts

(* QueryAtTimestamp: scan the list from its end for a timestamp not after   *)
(* ts.  0 stands for the error "no snapshot at or before".                  *)
QueryAtTimestamp(ts) ==
    LET ok == {x \in snaps : x.ts <= ts}
    IN  IF ok = {} THEN 0 ELSE (CHOOSE x \in ok : IsLast(x, ok)).ts

----------------------------------------------------------------------------
(* Types: no timestamp lies in the future, no snapshot ID is lost. *)
TypeOK ==
    /\ clock \in Time /\ writes \in 0 .. MaxWrites
    /\ table \in Contents
    /\ files \in [Time -> Contents]
    /\ snaps \subseteq Snapshot /\ nextID \in Nat
    /\ stmt \in [Sessions -> Statement]
    /\ dropped \in Contents
    /\ lastDrop \in {"none", "saved", "lost", "around"} /\ overlapped \in BOOLEAN

(* The file of every listed snapshot exists: it is written before it is     *)
(* listed, and Cleanup and Reset delete it together with its entry, also    *)
(* while other statements are capturing.                                    *)
SnapshotFilesExist == \A x \in snaps : Exists(x.ts)

(* Unless statements overlapped, the list is in timestamp order, which is   *)
(* what the scan of QueryAtTimestamp and the last element of Undrop rely on. *)
SortedUnlessOverlap ==
    ~overlapped =>
        \A x, y \in snaps : x.id < y.id => x.ts < y.ts

(* Unless statements overlapped, UNDROP TABLE restores exactly what the last *)
(* DROP TABLE removed if that DROP could capture it, whatever statements     *)
(* failed, were cleaned up or recreated the table in between.               *)
UndropRestoresDropped ==
    [][\A s \in Sessions :
         (stmt[s].pc = "restore" /\ table = Absent /\ table' # Absent
            /\ stmt'[s].pc = "idle" /\ ~overlapped /\ lastDrop = "saved")
           => table' = dropped]_vars

(* Unless statements overlapped, AT(TIMESTAMP) finds what the comment of    *)
(* QueryAtTimestamp promises, the snapshot "closest to (but not after) the  *)
(* given timestamp", although the scan stops at the first one that is not   *)
(* after it (timetravel.go:131) and captures, cleanups and resets come in   *)
(* any order.                                                               *)
ClosestUnlessOverlap ==
    ~overlapped =>
        \A ts \in 0 .. clock :
            LET best == QueryAtTimestamp(ts)
            IN  /\ best <= ts
                /\ \A x \in snaps : x.ts <= ts => x.ts <= best
============================================================================
