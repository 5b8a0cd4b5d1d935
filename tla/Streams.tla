------------------------------ MODULE Streams ------------------------------
(***************************************************************************)
(* internal/stream/stream.go and the part of handleDML that feeds it: a    *)
(* DML statement first commits in the engine, and only then, with no lock  *)
(* held across the two, RecordChange appends a record to every stream that *)
(* watches the statement's table.  RecordChange holds e.mu shared while it *)
(* visits the streams, so two of them interleave with each other and with  *)
(* readers, but not with CREATE or DROP STREAM.                            *)
(*                                                                         *)
(* All statements are about one unqualified table name; what differs is    *)
(* the session's schema and whether the statement qualifies the name.      *)
(* USE SCHEMA changes the session's fields only: DuckDB resolves an        *)
(* unqualified name in its own schema "main".                              *)
(*                                                                         *)
(* extractTableFromDML reads the table's name off the statement's text, up *)
(* to the next white space.  It reads three forms of statement differently *)
(* (Forms): in a plain one the name stands alone; in a glued one something *)
(* follows it at once, as in INSERT INTO t(id) or DELETE FROM t;, and is   *)
(* read as part of the name; in an unseen one, such as INSERT OR REPLACE   *)
(* INTO t, no name is found.  CREATE STREAM trims its table's name.        *)
(***************************************************************************)
EXTENDS Integers, Sequences

CONSTANTS
    Names,      \* unqualified stream names
    Objs,       \* *Stream objects; their number bounds the CREATE STREAMs
    NoObj,
    Sessions,
    SchemaOf,   \* the current schema of each session
    Quals,      \* schema qualifiers used in statements
    NoQual,     \* an unqualified table name
    Kinds,      \* the statement kinds used, of INSERT UPDATE DELETE MERGE
    Forms,      \* how statements are written: plain, glued or unseen
    MaxChanges  \* bound on the DML statements

(* The schema in which DuckDB finds the table of a statement. *)
Physical(q) == IF q = NoQual THEN "main" ELSE q

Types   == {"STANDARD", "APPEND_ONLY"}
Schemas == {SchemaOf[s] : s \in Sessions}
Change  == [id : 1 .. MaxChanges, by : Sessions, kind : Kinds, form : Forms,
            phys : {Physical(q) : q \in Quals}]

ASSUME StreamAssumption ==
    /\ NoObj \notin Objs /\ MaxChanges \in Nat
    /\ SchemaOf \in [Sessions -> STRING]
    /\ Kinds \subseteq {"INSERT", "UPDATE", "DELETE", "MERGE"}
    /\ Forms \subseteq {"plain", "glued", "unseen"}

VARIABLES
    streams,    \* e.streams : schema, name -> object
    alloc,      \* objects created so far
    key,        \* the table key of a stream object
    phys,       \* history: the physical table its creator named
    type,       \* Stream.Type
    changes,    \* Stream.changes
    offset,     \* Stream.Offset
    sess,       \* what each session is doing
    \* history variables
    log,        \* changes in the order they were committed
    born,       \* Len(log) when the stream was created
    delivered   \* what ConsumeStream returned, concatenated

objects == <<key, phys, type>>
vars == <<streams, alloc, objects, changes, offset, sess, log, born, delivered>>

Idle == [pc |-> "idle"]

----------------------------------------------------------------------------
(* handleDML keys the record by the session's schema and the last part of   *)
(* the name it read, which no stream has when something is glued to it;     *)
(* CREATE STREAM keeps a qualified name whole, as part of the key, where no *)
(* record's key matches it.                                                 *)
RecordKey(s, form) == <<SchemaOf[s], NoQual, form>>
StreamKey(s, q)    == <<SchemaOf[s], q, "plain">>

(* handleDML's action for a statement: MERGE is not told from INSERT. *)
Action(kind) == IF kind = "MERGE" THEN "INSERT" ELSE kind

Registered(o) == \E k \in Schemas \X Names : streams[k] = o

(* Faulty variant: the type filter is inverted. *)
WatchesUpdatesOnly(o, s, c) ==
    /\ Registered(o)
    /\ key[o] = RecordKey(s, c.form)
    /\ ~(type[o] = "APPEND_ONLY" /\ Action(c.kind) = "INSERT")

(* The streams RecordChange appends to. *)
Watches(o, s, c) ==
    /\ Registered(o)
    /\ key[o] = RecordKey(s, c.form)
    /\ ~(type[o] = "APPEND_ONLY" /\ Action(c.kind) # "INSERT")

(* e.mu is free for a writer. *)
Unlocked == \A s \in Sessions : sess[s].pc # "record"

HasData(o) == offset[o] < Len(changes[o])

Init ==
    /\ streams = [k \in Schemas \X Names |-> NoObj]
    /\ alloc = {}
    /\ key = [o \in Objs |-> "none"] /\ phys = [o \in Objs |-> "none"]
    /\ type = [o \in Objs |-> "STANDARD"]
    /\ changes = [o \in Objs |-> << >>] /\ offset = [o \in Objs |-> 0]
    /\ sess = [s \in Sessions |-> Idle]
    /\ log = << >> /\ born = [o \in Objs |-> 0]
    /\ delivered = [o \in Objs |-> << >>]

----------------------------------------------------------------------------
CreateStream(s, n, o, t, q) ==
    /\ sess[s] = Idle /\ Unlocked
    /\ streams[<<SchemaOf[s], n>>] = NoObj
    /\ o \in Objs \ alloc
    /\ alloc' = alloc \cup {o}
    /\ streams' = [streams EXCEPT ![<<SchemaOf[s], n>>] = o]
    /\ key' = [key EXCEPT ![o] = StreamKey(s, q)]
    /\ phys' = [phys EXCEPT ![o] = Physical(q)]
    /\ type' = [type EXCEPT ![o] = t]
    /\ born' = [born EXCEPT ![o] = Len(log)]
    /\ UNCHANGED <<changes, offset, sess, log, delivered>>

DropStream(s, n) ==
    /\ sess[s] = Idle /\ Unlocked
    /\ streams[<<SchemaOf[s], n>>] # NoObj
    /\ streams' = [streams EXCEPT ![<<SchemaOf[s], n>>] = NoObj]
    /\ UNCHANGED <<alloc, objects, changes, offset, sess, log, born, delivered>>

(* The DML statement commits; one that fails records nothing. *)
ExecDML(s, kind, form, q) ==
    /\ sess[s] = Idle
    /\ Len(log) < MaxChanges
    /\ LET c == [id |-> Len(log) + 1, by |-> s, kind |-> kind, form |-> form,
                phys |-> Physical(q)] IN
       /\ log' = Append(log, c)
       /\ sess' = [sess EXCEPT ![s] = [pc |-> "done", change |-> c]]
    /\ UNCHANGED <<streams, alloc, objects, changes, offset, born, delivered>>

(* handleDML found no table name: nothing is recorded. *)
RecordSkipped(s) ==
    /\ sess[s].pc = "done" /\ sess[s].change.form = "unseen"
    /\ sess' = [sess EXCEPT ![s] = Idle]
    /\ UNCHANGED <<streams, alloc, objects, changes, offset, log, born, delivered>>

(* RecordChange takes e.mu shared ... *)
RecordBegin(s) ==
    /\ sess[s].pc = "done" /\ sess[s].change.form # "unseen"
    /\ LET c == sess[s].change IN
       sess' = [sess EXCEPT ![s] =
                  [pc |-> "record", change |-> c, todo |-> {o \in Objs : Watches(o, s, c)}]]
    /\ UNCHANGED <<streams, alloc, objects, changes, offset, log, born, delivered>>

(* Faulty variant: the record is appended, and the stream visited again. *)
RecordOneTwice(s, o) ==
    /\ sess[s].pc = "record" /\ o \in sess[s].todo
    /\ changes' = [changes EXCEPT ![o] = Append(Append(@, sess[s].change), sess[s].change)]
    /\ sess' = [sess EXCEPT ![s].todo = @ \ {o}]
    /\ UNCHANGED <<streams, alloc, objects, offset, log, born, delivered>>

(* Faulty variant: the newest record is put first. *)
RecordOneFront(s, o) ==
    /\ sess[s].pc = "record" /\ o \in sess[s].todo
    /\ changes' = [changes EXCEPT ![o] = <<sess[s].change>> \o @]
    /\ sess' = [sess EXCEPT ![s].todo = @ \ {o}]
    /\ UNCHANGED <<streams, alloc, objects, offset, log, born, delivered>>

(* ... appends to each stream under the stream's mutex ... *)
RecordOne(s, o) ==
    /\ sess[s].pc = "record" /\ o \in sess[s].todo
    /\ changes' = [changes EXCEPT ![o] = Append(@, sess[s].change)]
    /\ sess' = [sess EXCEPT ![s].todo = @ \ {o}]
    /\ UNCHANGED <<streams, alloc, objects, offset, log, born, delivered>>

(* ... and releases e.mu. *)
RecordEnd(s) ==
    /\ sess[s].pc = "record" /\ sess[s].todo = {}
    /\ sess' = [sess EXCEPT ![s] = Idle]
    /\ UNCHANGED <<streams, alloc, objects, changes, offset, log, born, delivered>>

(* ConsumeStream looks the object up and releases e.mu ... *)
ConsumeLookup(s, n) ==
    /\ sess[s] = Idle
    /\ streams[<<SchemaOf[s], n>>] # NoObj
    /\ sess' = [sess EXCEPT ![s] = [pc |-> "consume", obj |-> streams[<<SchemaOf[s], n>>]]]
    /\ UNCHANGED <<streams, alloc, objects, changes, offset, log, born, delivered>>

(* Faulty variant: the offset passes the end. *)
ConsumePastEnd(s) ==
    /\ sess[s].pc = "consume"
    /\ LET o == sess[s].obj IN
       /\ delivered' = [delivered EXCEPT ![o] =
              @ \o SubSeq(changes[o], offset[o] + 1, Len(changes[o]))]
       /\ offset' = [offset EXCEPT ![o] = IF HasData(o) THEN Len(changes[o]) + 1 ELSE @]
    /\ sess' = [sess EXCEPT ![s] = Idle]
    /\ UNCHANGED <<streams, alloc, objects, changes, log, born>>

(* ... then reads and advances under the object's mutex, dropped or not. *)
Consume(s) ==
    /\ sess[s].pc = "consume"
    /\ LET o == sess[s].obj IN
       /\ delivered' = [delivered EXCEPT ![o] =
              @ \o SubSeq(changes[o], offset[o] + 1, Len(changes[o]))]
       /\ offset' = [offset EXCEPT ![o] = IF HasData(o) THEN Len(changes[o]) ELSE @]
    /\ sess' = [sess EXCEPT ![s] = Idle]
    /\ UNCHANGED <<streams, alloc, objects, changes, log, born>>

(* Reset, exclusive with every request. *)
Reset ==
    /\ \A s \in Sessions : sess[s] = Idle
    /\ streams' = [k \in Schemas \X Names |-> NoObj]
    /\ UNCHANGED <<alloc, objects, changes, offset, sess, log, born, delivered>>

Next ==
    \/ \E s \in Sessions :
          \/ \E n \in Names :
                \/ \E o \in Objs, t \in Types, q \in Quals : CreateStream(s, n, o, t, q)
                \/ DropStream(s, n) \/ ConsumeLookup(s, n)
          \/ \E k \in Kinds, f \in Forms, q \in Quals : ExecDML(s, k, f, q)
          \/ RecordSkipped(s) \/ RecordBegin(s) \/ RecordEnd(s) \/ Consume(s)
          \/ \E o \in Objs : RecordOne(s, o)
    \/ Reset

Spec == Init /\ [][Next]_vars

----------------------------------------------------------------------------
Elems(q) == {q[i] : i \in DOMAIN q}

(* Types: only committed changes are recorded, no offset passes the end of *)
(* its stream.                                                             *)
TypeOK ==
    /\ streams \in [Schemas \X Names -> Objs \cup {NoObj}] /\ alloc \subseteq Objs
    /\ type \in [Objs -> Types]
    /\ \A o \in Objs :
          /\ Elems(changes[o]) \subseteq Change /\ Elems(delivered[o]) \subseteq Change
          /\ offset[o] \in 0 .. Len(changes[o]) /\ born[o] \in 0 .. Len(log)
    /\ \A s \in Sessions : sess[s].pc \in {"idle", "done", "record", "consume"}

(* A stream object implements a change feed: nothing is recorded twice, and *)
(* ConsumeStreams that overlap with each other, with RecordChange and with  *)
(* DROP STREAM hand out every record exactly once and in order.             *)
Feed == INSTANCE ChangeFeed WITH
    Feeds <- Objs, Changes <- Change, feed <- changes, read <- delivered
FeedSpec == Feed!Spec

(* What a stream should hold once the session has left handleDML: every     *)
(* change to its table since its creation, of the kinds its type asks for,  *)
(* made by a statement whose table name extractTableFromDML reads as it is. *)
Expected(o, c) ==
    /\ c.id > born[o] /\ c.phys = phys[o] /\ c.form = "plain"
    /\ type[o] = "APPEND_ONLY" => Action(c.kind) = "INSERT"

Complete(o) ==
    \A i \in DOMAIN log :
        Expected(o, log[i]) =>
            \/ log[i] \in Elems(changes[o])
            \/ \E s \in Sessions : sess[s].pc \in {"done", "record"} /\ sess[s].change = log[i]

(* RecordChange misses no stream: when a plainly written DML statement has  *)
(* returned, every registered stream on its table holds its change,         *)
(* whatever streams were created, dropped, read and written in between and  *)
(* whatever statements, misread ones included, ran beside it.  The change   *)
(* of a statement whose table name is misread or not found is in no stream. *)
NoChangeMissed == \A o \in Objs : Registered(o) => Complete(o)

(* The same promise for sessions that work in different schemas, in the     *)
(* words of handleDML: "After successful DML, record changes to streams     *)
(* watching affected tables."                                               *)
StreamSeesItsTable == NoChangeMissed

(* The changes of one session reach every stream in the order it made them, *)
(* although the changes of two sessions may reach two streams in different  *)
(* orders.                                                                  *)
SessionOrder ==
    \A o \in Objs : \A i, j \in DOMAIN changes[o] :
        i < j /\ changes[o][i].by = changes[o][j].by => changes[o][i].id < changes[o][j].id
============================================================================
