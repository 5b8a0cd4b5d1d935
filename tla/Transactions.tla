---------------------------- MODULE Transactions ----------------------------
(***************************************************************************)
(* BEGIN, COMMIT, ROLLBACK and INSERT of several sessions.  The            *)
(* orchestrator (handleTransaction, handleDML) hands each statement to     *)
(* Engine.ExecNoResult, which runs it on whatever connection the pool of   *)
(* database/sql gives it: a transaction belongs to a connection, not to a  *)
(* session.  A successful INSERT is recorded in the streams whether or not *)
(* its transaction commits, provided its table's name was read off its     *)
(* text: with the forms of Streams, a glued statement is recorded under a  *)
(* name no stream has, and for an unseen one there is neither a snapshot   *)
(* nor a record.  A bulk request is several INSERTs of one text that stop  *)
(* at the first error.                                                     *)
(*                                                                         *)
(* The pool and DuckDB are external: a free connection is reused last in,  *)
(* first out, at most MaxIdle are kept, closing one rolls back, and a      *)
(* statement that DuckDB refuses changes nothing.                          *)
(***************************************************************************)
EXTENDS Integers, Sequences, FiniteSetsExt

CONSTANTS
    Writers,    \* sessions that run transactions and INSERTs
    Readers,    \* sessions that run queries only
    MaxConns,   \* connections that can be open at a time
    MaxIdle,    \* connections the pool keeps (2 unless it is told otherwise)
    MaxRows,    \* bound on the rows inserted
    MaxBulk     \* statements of a bulk request

(* The pool opens as many connections as there are statements (no          *)
(* SetMaxOpenConns, engine.go): the bound leaves one for every session.     *)
ASSUME TxAssumption ==
    /\ {MaxConns, MaxRows, MaxBulk} \subseteq Nat /\ MaxIdle \in Nat \ {0}
    /\ IsFiniteSet(Writers \cup Readers) /\ Cardinality(Writers \cup Readers) <= MaxConns

TxSessions == Writers \cup Readers
Statements == {"begin", "commit", "rollback", "capture", "insert", "read"}
Conns      == 1 .. MaxConns
NoConn     == 0
Rows       == 1 .. MaxRows
TextForms  == {"plain", "glued", "unseen"}

VARIABLES
    free,        \* the idle connections
    open, pend,  \* the connections in a transaction and the rows pending on each
    txPc, stmt,  \* what a session is doing and its statement
    conn,        \* the connection of a statement that runs
    left, row,   \* INSERTs left of a request and the row to be recorded
    form,        \* how extractTableFromDML reads the request's text
    rowsMade, committed, recorded,
    \* history variables
    misread,     \* rows of statements whose table's name was not read as it is
    \* what the clients were told, until a transaction is shared
    inTx, mine,  \* the sessions in a transaction and what they inserted in it
    durable,     \* rows inserted outside a transaction, or whose COMMIT succeeded
    undone,      \* rows whose ROLLBACK succeeded
    shared       \* whether a transaction overlapped with another session's statement

txVars == <<free, open, pend, txPc, stmt, conn, left, row, form, rowsMade, committed, recorded,
            misread, inTx, mine, durable, undone, shared>>
clientVars == <<inTx, mine, durable, undone>>

TxInit ==
    /\ free = <<>> /\ open = {} /\ pend = [c \in Conns |-> {}]
    /\ txPc = [s \in TxSessions |-> "idle"] /\ stmt = [s \in TxSessions |-> "read"]
    /\ conn = [s \in TxSessions |-> NoConn]
    /\ left = [s \in TxSessions |-> 0] /\ row = [s \in TxSessions |-> 0]
    /\ form = [s \in TxSessions |-> "plain"]
    /\ rowsMade = 0 /\ committed = {} /\ recorded = {} /\ misread = {}
    /\ inTx = {} /\ mine = [s \in TxSessions |-> {}]
    /\ durable = {} /\ undone = {} /\ shared = FALSE

----------------------------------------------------------------------------
(* The pool. *)
Idle == {free[i] : i \in 1 .. Len(free)}
Held == {conn[s] : s \in TxSessions}

Overlaps(s, op) ==
    \E t \in TxSessions \ {s} :
        t \in inTx \/ (txPc[t] = "run" /\ (s \in inTx \/ "begin" \in {op, stmt[t]}))

(* A statement begins: clients no longer know what to expect once sessions  *)
(* share a transaction.                                                     *)
Share(s, op) ==
    /\ shared' = (shared \/ Overlaps(s, op))
    /\ IF shared'
       THEN inTx' = {} /\ mine' = [t \in TxSessions |-> {}] /\ durable' = {} /\ undone' = {}
       ELSE UNCHANGED clientVars

Told(in, rows, kept, gone) ==
    IF shared THEN UNCHANGED clientVars
    ELSE inTx' = in /\ mine' = rows /\ durable' = kept /\ undone' = gone

(* The last connection that was returned, or a new one.  Connections are    *)
(* all alike: a new one gets the least number that is not in use.           *)
Connect(s) ==
    /\ IF free # <<>>
       THEN /\ conn' = [conn EXCEPT ![s] = free[Len(free)]]
            /\ free' = SubSeq(free, 1, Len(free) - 1)
       ELSE /\ conn' = [conn EXCEPT ![s] = Min(Conns \ Held)] /\ UNCHANGED free
    /\ txPc' = [txPc EXCEPT ![s] = "run"]

(* The statement has left its connection in a transaction (inside) with the *)
(* given rows pending, or in none; it goes back to the pool or is closed.   *)
Release(s, inside, rows) ==
    LET keep == Len(free) < MaxIdle
        c    == conn[s]
    IN  /\ conn' = [conn EXCEPT ![s] = NoConn]
        /\ free' = IF keep THEN Append(free, c) ELSE free
        /\ open' = IF inside /\ keep THEN open \cup {c} ELSE open \ {c}
        /\ pend' = [pend EXCEPT ![c] = IF inside /\ keep THEN rows ELSE {}]

AsBefore(s) == Release(s, conn[s] \in open, pend[conn[s]])

Ends(s) ==
    /\ txPc' = [txPc EXCEPT ![s] = "idle"] /\ stmt' = [stmt EXCEPT ![s] = "read"]
    /\ left' = [left EXCEPT ![s] = 0] /\ row' = [row EXCEPT ![s] = 0]
    /\ form' = [form EXCEPT ![s] = "plain"]

----------------------------------------------------------------------------
(* The first statement of an INSERT: the snapshot, if its table was found.  *)
First(f) == IF f = "unseen" THEN "insert" ELSE "capture"

(* A request: a transaction statement, a query, or n INSERTs.               *)
Request(s, op, n, f) ==
    /\ txPc[s] = "idle"
    /\ Connect(s)
    /\ stmt' = [stmt EXCEPT ![s] = op] /\ left' = [left EXCEPT ![s] = n]
    /\ form' = [form EXCEPT ![s] = f]
    /\ Share(s, op)
    /\ UNCHANGED <<open, pend, row, rowsMade, committed, recorded, misread>>

(* The next statement of a request. *)
Continue(s) ==
    /\ txPc[s] = "take"
    /\ Connect(s)
    /\ Share(s, stmt[s])
    /\ UNCHANGED <<open, pend, stmt, left, row, form, rowsMade, committed, recorded, misread>>

Running(s, op) == txPc[s] = "run" /\ stmt[s] = op

RunRead(s) ==
    /\ Running(s, "read") /\ AsBefore(s) /\ Ends(s)
    /\ UNCHANGED <<rowsMade, committed, recorded, misread, shared>> /\ UNCHANGED clientVars

(* The snapshot of a misread table fails, which handleDML ignores. *)
RunCapture(s) ==
    /\ Running(s, "capture") /\ AsBefore(s)
    /\ txPc' = [txPc EXCEPT ![s] = "take"] /\ stmt' = [stmt EXCEPT ![s] = "insert"]
    /\ UNCHANGED <<left, row, form, rowsMade, committed, recorded, misread, shared>> /\ UNCHANGED clientVars

(* DuckDB refuses BEGIN inside a transaction. *)
RunBegin(s) ==
    /\ Running(s, "begin") /\ Ends(s)
    /\ Release(s, TRUE, pend[conn[s]])
    /\ Told(IF conn[s] \in open THEN inTx ELSE inTx \cup {s}, mine, durable, undone)
    /\ UNCHANGED <<rowsMade, committed, recorded, misread, shared>>

(* Faulty variant: COMMIT is answered without being executed. *)
RunCommitUnexecuted(s) ==
    /\ Running(s, "commit") /\ Ends(s) /\ AsBefore(s)
    /\ Told(inTx \ {s}, [mine EXCEPT ![s] = {}], durable \cup mine[s], undone)
    /\ UNCHANGED <<rowsMade, committed, recorded, misread, shared>>

(* COMMIT and ROLLBACK end the transaction of the connection they run on    *)
(* and are refused where there is none; the client then has to think that   *)
(* it is still where it was.                                                *)
RunCommit(s) ==
    /\ Running(s, "commit") /\ Ends(s)
    /\ Release(s, FALSE, {})
    /\ committed' = committed \cup pend[conn[s]]
    /\ IF conn[s] \in open
       THEN Told(inTx \ {s}, [mine EXCEPT ![s] = {}], durable \cup mine[s], undone)
       ELSE UNCHANGED clientVars
    /\ UNCHANGED <<rowsMade, recorded, misread, shared>>

RunRollback(s) ==
    /\ Running(s, "rollback") /\ Ends(s)
    /\ Release(s, FALSE, {})
    /\ IF conn[s] \in open
       THEN Told(inTx \ {s}, [mine EXCEPT ![s] = {}], durable, undone \cup mine[s])
       ELSE UNCHANGED clientVars
    /\ UNCHANGED <<rowsMade, committed, recorded, misread, shared>>

InsertFails(s) ==
    /\ Running(s, "insert") /\ AsBefore(s) /\ Ends(s)
    /\ UNCHANGED <<rowsMade, committed, recorded, misread, shared>> /\ UNCHANGED clientVars

RunInsert(s) ==
    LET r == rowsMade + 1
        inside == conn[s] \in open
    IN  /\ Running(s, "insert") /\ rowsMade < MaxRows
        /\ rowsMade' = r /\ row' = [row EXCEPT ![s] = r]
        /\ Release(s, inside, pend[conn[s]] \cup {r})
        /\ committed' = IF inside THEN committed ELSE committed \cup {r}
        /\ misread' = IF form[s] = "plain" THEN misread ELSE misread \cup {r}
        /\ txPc' = [txPc EXCEPT ![s] = "record"]
        /\ IF s \in inTx THEN Told(inTx, [mine EXCEPT ![s] = @ \cup {r}], durable, undone)
           ELSE Told(inTx, mine, durable \cup {r}, undone)
        /\ UNCHANGED <<stmt, left, form, recorded, shared>>

(* Faulty variant: a change is recorded only when no transaction is open. *)
RecordOutsideOnly(s) ==
    /\ txPc[s] = "record" /\ Ends(s)
    /\ recorded' = IF s \in inTx \/ form[s] # "plain" THEN recorded ELSE recorded \cup {row[s]}
    /\ UNCHANGED <<free, open, pend, conn, rowsMade, committed, misread, shared>> /\ UNCHANGED clientVars

(* The streams on the table get the change, if handleDML read the table's   *)
(* name; a bulk request goes on with its next INSERT.                       *)
Record(s) ==
    /\ txPc[s] = "record"
    /\ recorded' = IF form[s] = "plain" THEN recorded \cup {row[s]} ELSE recorded
    /\ IF left[s] = 1 THEN Ends(s)
       ELSE /\ txPc' = [txPc EXCEPT ![s] = "take"] /\ stmt' = [stmt EXCEPT ![s] = First(form[s])]
            /\ left' = [left EXCEPT ![s] = @ - 1] /\ row' = [row EXCEPT ![s] = 0]
            /\ UNCHANGED form
    /\ UNCHANGED <<free, open, pend, conn, rowsMade, committed, misread, shared>> /\ UNCHANGED clientVars

TxNext ==
    \/ \E s \in TxSessions : Request(s, "read", 0, "plain") \/ RunRead(s)
    \/ \E s \in Writers :
          \/ \E op \in {"begin", "commit", "rollback"} : Request(s, op, 0, "plain")
          \/ \E n \in 1 .. MaxBulk, f \in TextForms : Request(s, First(f), n, f)
          \/ Continue(s) \/ RunCapture(s) \/ RunBegin(s) \/ RunCommit(s)
          \/ RunRollback(s) \/ RunInsert(s) \/ InsertFails(s) \/ Record(s)

TxSpec == TxInit /\ [][TxNext]_txVars

----------------------------------------------------------------------------
(* No request runs more INSERTs than it has, and no row is made twice. *)
TxTypeOK ==
    /\ free \in Seq(Conns) /\ open \subseteq Conns /\ pend \in [Conns -> SUBSET Rows]
    /\ txPc \in [TxSessions -> {"idle", "take", "run", "record"}]
    /\ stmt \in [TxSessions -> Statements] /\ conn \in [TxSessions -> Conns \cup {NoConn}]
    /\ left \in [TxSessions -> 0 .. MaxBulk] /\ row \in [TxSessions -> 0 .. MaxRows]
    /\ form \in [TxSessions -> TextForms] /\ misread \subseteq Rows
    /\ rowsMade \in 0 .. MaxRows /\ committed \subseteq Rows /\ recorded \subseteq Rows
    /\ inTx \subseteq TxSessions /\ mine \in [TxSessions -> SUBSET Rows]
    /\ durable \subseteq Rows /\ undone \subseteq Rows /\ shared \in BOOLEAN

(* As long as no transaction overlaps with a statement of another session,  *)
(* clients get what they were told: the rows of autocommit and of COMMIT    *)
(* are there, the rows undone by ROLLBACK are not, and the rows of an open  *)
(* transaction are pending on the one connection its next statement will    *)
(* use, although every statement of it takes a connection from the pool     *)
(* anew (engine.go:227).                                                    *)
TransactionsIntact ==
    ~shared =>
        /\ committed = durable
        /\ undone \cap committed = {}
        /\ \A s \in inTx : \E c \in open : pend[c] = mine[s]
        /\ \A s \in inTx : txPc[s] # "run" => free # <<>> /\ free[Len(free)] \in open

(* Every row a query can see was recorded in the streams, or will be when   *)
(* its session goes on, whatever sessions and connections mixed up, unless  *)
(* handleDML misread the table's name or found none (orchestrator.go:733).  *)
CommittedRecorded ==
    committed \ misread \subseteq recorded \cup {row[s] : s \in TxSessions}

(* A row recorded in the streams and not committed is pending on some       *)
(* connection or was undone.  RecordChange runs when the INSERT is done,    *)
(* not when the transaction is (orchestrator.go:742), so undone rows stay   *)
(* recorded.                                                                *)
RecordedAccounted ==
    ~shared => recorded \subseteq committed \cup undone \cup UNION {pend[c] : c \in open}

(* The streams and the table tell the same story about every row: none is   *)
(* visible and unrecorded, but for the rows of misread statements, and none *)
(* is recorded and unaccounted for (orchestrator.go:726, :742).             *)
StreamsAccount == CommittedRecorded /\ RecordedAccounted
=============================================================================
