---------------------------- MODULE ServerReset ----------------------------
(***************************************************************************)
(* POST /_miniflake/reset against everything else the process is doing:    *)
(* internal/server/server.go (withStateLock, handleReset),                 *)
(* internal/orchestrator/orchestrator.go (Reset), the Reset method of      *)
(* every subsystem, and the task scheduler, which runs SQL on the engine   *)
(* without going through the server.                                       *)
(*                                                                         *)
(* The state of the process is the set of stores that hold something a     *)
(* user made.  stateMu is a sync.RWMutex: an announced writer blocks new   *)
(* readers, and Unlock hands the lock to the readers that wait.  Engine.mu *)
(* is held by Engine.Reset for its whole run.                              *)
(***************************************************************************)
EXTENDS Integers, Sequences

CONSTANTS
    Clients,   \* HTTP requests that can be open at the same time
    HasTasks,  \* TRUE: the background scheduler runs tasks
    Workload   \* the stores the statements of requests and tasks write

ASSUME TasksAssumption == HasTasks \in BOOLEAN

(* The stores in the order they are wiped.  The first EngineParts are       *)
(* wiped by Engine.Reset.                                                   *)
Order == << "tables", "views", "schemas", "databases",
            "catalog", "stages", "stage files", "streams", "tasks",
            "snapshots", "snapshot files", "clones", "functions", "roles",
            "pipes", "sessions" >>
EngineParts == 4
NumStores   == Len(Order)
Stores      == {Order[i] : i \in 1 .. NumStores}
EngineStores == {Order[i] : i \in 1 .. EngineParts}

ASSUME WorkloadAssumption == Workload \subseteq Stores

(* Stores kept on disk: DuckDB's file, the stage and snapshot directories. *)
Persistent == {"tables", "views", "schemas", "stage files", "snapshot files"}

(* Steps that can fail: SQL, and the removal of a directory. *)
CanFail(i) == Order[i] \in EngineStores \cup {"stage files", "snapshot files"}

VARIABLES
    pc,        \* what each request is doing
    cursor,    \* the store the running reset wipes next
    used,      \* the stores that hold something
    shelved,   \* a database file that is not attached holds tables
    inflight,  \* the scheduler is executing the tasks it collected
    \* history variable
    stray      \* what the scheduler wrote since the reset began

vars == <<pc, cursor, used, shelved, inflight, stray>>

States ==
    {"idle", "rlock", "query", "queued", "drain", "wiping", "ok", "failed"}

Init ==
    /\ pc = [c \in Clients |-> "idle"]
    /\ cursor = 1 /\ used = {} /\ shelved = FALSE
    /\ inflight = FALSE /\ stray = {}

Goto(c, l) == pc' = [pc EXCEPT ![c] = l]

----------------------------------------------------------------------------
(* sync.RWMutex *)
Announced == \E c \in Clients : pc[c] \in {"drain", "wiping", "ok", "failed"}
Reading   == \E c \in Clients : pc[c] = "query"

CanRead == ~Announced

----------------------------------------------------------------------------
(* Any request but reset and health: RLock ... *)
Request(c) ==
    /\ pc[c] = "idle"
    /\ Goto(c, "rlock")
    /\ UNCHANGED <<cursor, used, shelved, inflight, stray>>

RLock(c) ==
    /\ pc[c] = "rlock" /\ CanRead
    /\ Goto(c, "query")
    /\ UNCHANGED <<cursor, used, shelved, inflight, stray>>

(* ... the handler, which writes the stores its statement is about one     *)
(* after another ...                                                       *)
Touch(c, x) ==
    /\ pc[c] = "query"
    /\ used' = used \cup {x}
    /\ UNCHANGED <<pc, cursor, shelved, inflight, stray>>

(* CREATE DATABASE registers the name and attaches the file of that name,  *)
(* which brings back the tables it holds.                                  *)
Attach(c) ==
    /\ pc[c] = "query" /\ shelved
    /\ shelved' = FALSE
    /\ used' = used \cup {"catalog", "databases", "tables"}
    /\ UNCHANGED <<pc, cursor, inflight, stray>>

(* Faulty variant: the handler returns without RUnlock. *)
AnswerNoRUnlock(c) ==
    /\ pc[c] = "query"
    /\ UNCHANGED vars

(* ... and RUnlock. *)
Answer(c) ==
    /\ pc[c] = "query"
    /\ Goto(c, "idle")
    /\ UNCHANGED <<cursor, used, shelved, inflight, stray>>

----------------------------------------------------------------------------
(* The reset request queues behind other writers, announces itself, waits  *)
(* for the readers to leave ...                                            *)
ResetRequest(c) ==
    /\ pc[c] = "idle"
    /\ Goto(c, "queued")
    /\ UNCHANGED <<cursor, used, shelved, inflight, stray>>

Announce(c) ==
    /\ pc[c] = "queued" /\ ~Announced
    /\ Goto(c, "drain")
    /\ UNCHANGED <<cursor, used, shelved, inflight, stray>>

(* Faulty variant: the writer does not wait for the readers. *)
LockEager(c) ==
    /\ pc[c] = "drain"
    /\ Goto(c, "wiping")
    /\ cursor' = 1 /\ stray' = {}
    /\ UNCHANGED <<used, shelved, inflight>>

Lock(c) ==
    /\ pc[c] = "drain" /\ ~Reading
    /\ Goto(c, "wiping")
    /\ cursor' = 1 /\ stray' = {}
    /\ UNCHANGED <<used, shelved, inflight>>

(* Faulty variant: a failed step is skipped and the reset reports success. *)
WipeIgnoringErrors(c) ==
    /\ pc[c] = "wiping" /\ cursor <= NumStores
    /\ \/ used' = used \ {Order[cursor]}
       \/ CanFail(cursor) /\ UNCHANGED used
    /\ cursor' = cursor + 1
    /\ UNCHANGED <<pc, shelved, inflight, stray>>

(* ... wipes one store after another ... *)
Wipe(c) ==
    /\ pc[c] = "wiping" /\ cursor <= NumStores
    /\ used' = used \ {Order[cursor]}
    /\ cursor' = cursor + 1
    /\ UNCHANGED <<pc, shelved, inflight, stray>>

(* ... returns at the first error, the rest of the stores untouched ... *)
WipeFails(c) ==
    /\ pc[c] = "wiping" /\ cursor <= NumStores
    /\ CanFail(cursor)
    /\ Goto(c, "failed")
    /\ UNCHANGED <<cursor, used, shelved, inflight, stray>>

WipeDone(c) ==
    /\ pc[c] = "wiping" /\ cursor > NumStores
    /\ Goto(c, "ok")
    /\ UNCHANGED <<cursor, used, shelved, inflight, stray>>

(* ... and unlocks: the readers that wait enter before the next writer. *)
Unlock(c) ==
    /\ pc[c] \in {"ok", "failed"}
    /\ pc' = [d \in Clients |->
                IF d = c THEN "idle" ELSE IF pc[d] = "rlock" THEN "query" ELSE pc[d]]
    /\ UNCHANGED <<cursor, used, shelved, inflight, stray>>

----------------------------------------------------------------------------
EngineLocked == \E c \in Clients : pc[c] = "wiping" /\ cursor <= EngineParts

(* The scheduler's tick: it collects tasks, runs their SQL on the engine   *)
(* under Engine.mu only, and goes on with its list after a task is gone.   *)
Tick ==
    /\ HasTasks /\ ~inflight /\ "tasks" \in used
    /\ inflight' = TRUE
    /\ UNCHANGED <<pc, cursor, used, shelved, stray>>

TaskSQL(x) ==
    /\ inflight /\ ~EngineLocked
    /\ used' = used \cup {x} /\ stray' = stray \cup {x}
    /\ UNCHANGED <<pc, cursor, shelved, inflight>>

TickEnd ==
    /\ inflight
    /\ inflight' = FALSE
    /\ UNCHANGED <<pc, cursor, used, shelved, stray>>

(* The process stops and starts again: what is on disk stays, and no       *)
(* database but the primary one is attached.                               *)
Restart ==
    /\ pc' = [c \in Clients |-> "idle"]
    /\ cursor' = 1
    /\ used' = used \cap Persistent
    /\ \/ UNCHANGED shelved
       \/ {"databases", "tables"} \subseteq used /\ shelved' = TRUE
    /\ inflight' = FALSE /\ stray' = {}

Next ==
    \/ \E c \in Clients :
          \/ Request(c) \/ RLock(c) \/ Attach(c) \/ Answer(c)
          \/ \E x \in Workload : Touch(c, x)
          \/ ResetRequest(c) \/ Announce(c) \/ Lock(c)
          \/ Wipe(c) \/ WipeFails(c) \/ WipeDone(c) \/ Unlock(c)
    \/ Tick \/ TickEnd
    \/ \E x \in EngineStores \cap Workload : TaskSQL(x)
    \/ Restart

Spec == Init /\ [][Next]_vars

(* Handlers return, the steps of a reset are taken, and sync.Mutex, which  *)
(* the writers of a RWMutex share, starves nobody.                         *)
Fairness ==
    \A c \in Clients :
        /\ WF_vars(RLock(c)) /\ WF_vars(Answer(c))
        /\ SF_vars(Announce(c)) /\ WF_vars(Lock(c))
        /\ WF_vars(Wipe(c)) /\ WF_vars(WipeDone(c)) /\ WF_vars(Unlock(c))

FairSpec == Spec /\ Fairness

----------------------------------------------------------------------------
(* Types: a reset walks the list of stores and stops at its end. *)
TypeOK ==
    /\ pc \in [Clients -> States]
    /\ cursor \in 1 .. NumStores + 1
    /\ used \subseteq Stores /\ stray \subseteq Stores
    /\ shelved \in BOOLEAN /\ inflight \in BOOLEAN

Wiping(c) == pc[c] \in {"wiping", "ok", "failed"}

(* stateMu: "exclusive Lock for reset, RLock for every other request so a  *)
(* wipe never overlaps with a query": no request is in its handler while a *)
(* reset is, and resets do not overlap each other.                         *)
WipeExclusive ==
    \A c, d \in Clients : Wiping(c) /\ c # d => pc[d] # "query" /\ ~Wiping(d)

(* A reset that answers "ok" has emptied every store, whatever requests    *)
(* were under way when it arrived and whichever earlier resets failed half *)
(* way; what is left was written by a running task while the reset ran.    *)
ResetComplete == \A c \in Clients : pc[c] = "ok" => used \subseteq stray

(* A reset is answered, however many requests keep coming ... *)
ResetAnswered ==
    \A c \in Clients : pc[c] = "queued" ~> pc[c] \in {"ok", "failed", "idle"}

(* ... and a request gets to its handler, however many resets keep coming. *)
RequestServed == \A c \in Clients : pc[c] = "rlock" ~> pc[c] \in {"query", "idle"}

(* Under the state lock neither kind of request starves the other           *)
(* (withStateLock and handleReset, server.go:169).                          *)
EveryoneAnswered == ResetAnswered /\ RequestServed
============================================================================
