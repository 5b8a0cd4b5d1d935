--------------------------- MODULE StreamsProofs ---------------------------
(***************************************************************************)
(* Proofs about Streams for any number of sessions, stream objects, names  *)
(* and changes, and for any schemas: what RecordChange and ConsumeStream   *)
(* guarantee although they interleave with each other and with CREATE and  *)
(* DROP STREAM.                                                            *)
(***************************************************************************)
EXTENDS Streams, TLAPS, SequenceTheorems

(* The records a session's state can be, one set per place in its request. *)
IdleRec    == [pc : {"idle"}]
DoneRec    == [pc : {"done"}, change : Change]
RecordRec  == [pc : {"record"}, change : Change, todo : SUBSET Objs]
ConsumeRec == [pc : {"consume"}, obj : Objs]

SessInv == sess \in [Sessions -> IdleRec \cup DoneRec \cup RecordRec \cup ConsumeRec]

DataInv ==
    /\ streams \in [Schemas \X Names -> Objs \cup {NoObj}] /\ alloc \subseteq Objs
    /\ DOMAIN key = Objs /\ DOMAIN phys = Objs /\ type \in [Objs -> Types]
    /\ changes \in [Objs -> Seq(Change)] /\ delivered \in [Objs -> Seq(Change)]
    /\ offset \in [Objs -> Nat] /\ born \in [Objs -> Nat] /\ log \in Seq(Change)

(* Changes are numbered in commit order; a session's pending change is its   *)
(* own and committed.                                                        *)
LogInv ==
    /\ Len(log) <= MaxChanges
    /\ \A i \in 1 .. Len(log) : log[i].id = i
    /\ \A o \in Objs : born[o] <= Len(log)
    /\ \A o \in Objs : \A i \in 1 .. Len(changes[o]) : changes[o][i].id <= Len(log)
    /\ \A s \in Sessions : sess[s].pc \in {"done", "record"} =>
          /\ sess[s].change.by = s
          /\ sess[s].change.id <= Len(log)

(* What has been handed out is the stream up to its offset. *)
OffsetInv ==
    \A o \in Objs :
       /\ offset[o] <= Len(changes[o])
       /\ delivered[o] = SubSeq(changes[o], 1, offset[o])

(* A session in this place still has to append its change to this stream. *)
Pending(x, o) == x.pc = "done" \/ (x.pc = "record" /\ o \in x.todo)

(* A session appends its change after every earlier change of its own. *)
OrderInv ==
    /\ SessionOrder
    /\ \A o \in Objs, s \in Sessions : Pending(sess[s], o) =>
          \A i \in 1 .. Len(changes[o]) :
             changes[o][i].by = s => changes[o][i].id < sess[s].change.id

IInv == DataInv /\ SessInv /\ LogInv /\ OffsetInv /\ OrderInv

(* The stream asks for the change, and handleDML calls RecordChange, which  *)
(* looks it up under the key the stream is registered with.                 *)
Wants(o, c) ==
    /\ c.id > born[o]
    /\ c.form # "unseen" /\ key[o] = RecordKey(c.by, c.form)
    /\ type[o] = "APPEND_ONLY" => Action(c.kind) = "INSERT"

(* RecordChange misses no stream that is registered under its key: a        *)
(* committed change the stream asks for is in the stream, or its session is *)
(* still going to put it there.                                             *)
KeyComplete ==
    \A o \in Objs : Registered(o) =>
       \A i \in 1 .. Len(log) : Wants(o, log[i]) =>
          \/ \E j \in 1 .. Len(changes[o]) : changes[o][j] = log[i]
          \/ Pending(sess[log[i].by], o) /\ sess[log[i].by].change = log[i]

(* The sessions share a schema and statements do not qualify the table: the *)
(* condition under which the record's key and the stream's agree.           *)
OneTableName ==
    /\ \A s, r \in Sessions : SchemaOf[s] = SchemaOf[r]
    /\ Quals \subseteq {NoQual}

(* Then every registered stream has the key that a plain statement of any   *)
(* session is recorded under, and that statement's table.                   *)
SharedKey ==
    \A o \in Objs : Registered(o) =>
       /\ \A s \in Sessions : key[o] = RecordKey(s, "plain")
       /\ phys[o] = Physical(NoQual)

----------------------------------------------------------------------------
(* What is known of a session from its place in the request. *)
LEMMA SessCases ==
    ASSUME SessInv, NEW s \in Sessions
    PROVE  /\ sess[s].pc \in {"idle", "done", "record", "consume"}
           /\ sess[s].pc = "done" => sess[s] \in DoneRec
           /\ sess[s].pc = "record" => sess[s] \in RecordRec
           /\ sess[s].pc = "consume" => sess[s] \in ConsumeRec
  BY DEF SessInv, IdleRec, DoneRec, RecordRec, ConsumeRec

LEMMA SessStep ==
    ASSUME SessInv, NEW s \in Sessions,
           NEW r \in IdleRec \cup DoneRec \cup RecordRec \cup ConsumeRec,
           sess' = [sess EXCEPT ![s] = r]
    PROVE  /\ SessInv'
           /\ sess'[s] = r
           /\ \A u \in Sessions \ {s} : sess'[u] = sess[u]
  BY DEF SessInv

LEMMA InitInv == Init => IInv
<1> SUFFICES ASSUME Init PROVE IInv
  OBVIOUS
<1>0. << >> \in Seq(Change) /\ Len(<< >>) = 0
  BY EmptySeq
<1>1. DataInv
  <2>1. changes \in [Objs -> Seq(Change)] /\ delivered \in [Objs -> Seq(Change)]
    BY <1>0 DEF Init
  <2>2. offset \in [Objs -> Nat] /\ born \in [Objs -> Nat] /\ type \in [Objs -> Types]
    BY DEF Init, Types
  <2>3. streams \in [Schemas \X Names -> Objs \cup {NoObj}]
    BY DEF Init
  <2>4. DOMAIN key = Objs /\ DOMAIN phys = Objs /\ alloc \subseteq Objs
    BY DEF Init
  <2>5. log \in Seq(Change)
    BY <1>0 DEF Init
  <2> QED
    BY <2>1, <2>2, <2>3, <2>4, <2>5 DEF DataInv
<1>2. SessInv
  BY DEF Init, SessInv, Idle, IdleRec
<1>3. \A s \in Sessions : sess[s].pc = "idle"
  BY DEF Init, Idle
<1>4. \A o \in Objs : changes[o] = << >> /\ offset[o] = 0 /\ born[o] = 0 /\ delivered[o] = << >>
  BY DEF Init
<1>5. LogInv
  BY <1>0, <1>3, <1>4, StreamAssumption DEF Init, LogInv
<1>6. OffsetInv
  <2> SUFFICES ASSUME NEW o \in Objs
               PROVE  offset[o] <= Len(changes[o]) /\ delivered[o] = SubSeq(changes[o], 1, offset[o])
    BY DEF OffsetInv
  <2>1. offset[o] = 0 /\ changes[o] = << >> /\ delivered[o] = << >>
    BY <1>4
  <2>2. SubSeq(changes[o], 1, offset[o]) = << >>
    BY <2>1, SubSeqEmpty
  <2> QED
    BY <2>1, <2>2, <1>0
<1>7. OrderInv
  BY <1>0, <1>3, <1>4 DEF OrderInv, SessionOrder, Pending
<1> QED
  BY <1>1, <1>2, <1>5, <1>6, <1>7 DEF IInv

(* CREATE STREAM, DROP STREAM and Reset touch the registry, and the fields  *)
(* of an object nobody has.                                                 *)
LEMMA RegistryStep ==
    ASSUME IInv,
           \/ \E s \in Sessions, n \in Names, o \in Objs, t \in Types, q \in Quals :
                 CreateStream(s, n, o, t, q)
           \/ \E s \in Sessions, n \in Names : DropStream(s, n)
           \/ Reset
    PROVE  IInv'
<1>1. UNCHANGED <<changes, offset, sess, log, delivered>>
  BY DEF CreateStream, DropStream, Reset
<1>2. Len(log) \in Nat
  BY LenProperties DEF IInv, DataInv
<1>3. /\ born' \in [Objs -> Nat] /\ \A o \in Objs : born'[o] <= Len(log)
      /\ streams' \in [Schemas \X Names -> Objs \cup {NoObj}]
      /\ alloc' \subseteq Objs /\ DOMAIN key' = Objs /\ DOMAIN phys' = Objs
      /\ type' \in [Objs -> Types]
  <2>1. CASE UNCHANGED <<alloc, key, phys, type, born>>
    <3>1. streams' \in [Schemas \X Names -> Objs \cup {NoObj}]
      <4>1. streams \in [Schemas \X Names -> Objs \cup {NoObj}]
        BY DEF IInv, DataInv
      <4>2. \/ \E k : \E v \in Objs \cup {NoObj} : streams' = [streams EXCEPT ![k] = v]
            \/ streams' = [k \in Schemas \X Names |-> NoObj]
        BY DEF CreateStream, DropStream, Reset
      <4> QED
        BY <4>1, <4>2
    <3> QED
      BY <2>1, <3>1 DEF IInv, DataInv, LogInv
  <2>2. CASE \E s \in Sessions, n \in Names, o \in Objs, t \in Types, q \in Quals :
                CreateStream(s, n, o, t, q)
    <3>1. PICK s \in Sessions, n \in Names, o \in Objs, t \in Types, q \in Quals :
              CreateStream(s, n, o, t, q)
      BY <2>2
    <3>2. born' = [born EXCEPT ![o] = Len(log)]
      BY <3>1 DEF CreateStream
    <3>3. born' \in [Objs -> Nat] /\ \A p \in Objs : born'[p] <= Len(log)
      BY <3>2, <1>2 DEF IInv, DataInv, LogInv
    <3>4. streams' \in [Schemas \X Names -> Objs \cup {NoObj}]
      BY <3>1 DEF CreateStream, IInv, DataInv
    <3>5. DOMAIN key' = Objs /\ DOMAIN phys' = Objs
      BY <3>1 DEF CreateStream, IInv, DataInv
    <3>6. alloc' \subseteq Objs /\ type' \in [Objs -> Types]
      BY <3>1 DEF CreateStream, IInv, DataInv
    <3> QED
      BY <3>3, <3>4, <3>5, <3>6
  <2> QED
    BY <2>1, <2>2 DEF DropStream, Reset, objects
<1>6. DataInv' /\ SessInv'
  BY <1>1, <1>3 DEF IInv, DataInv, SessInv
<1>7. LogInv'
  BY <1>1, <1>3 DEF IInv, LogInv
<1>8. OffsetInv'
  BY <1>1 DEF IInv, OffsetInv
<1>9. OrderInv'
  BY <1>1 DEF IInv, OrderInv, SessionOrder, Pending
<1> QED
  BY <1>6, <1>7, <1>8, <1>9 DEF IInv

(* Steps that move one session and leave the rest: the stream is looked up, *)
(* RecordChange takes and releases the lock.                                *)
LEMMA SessionStep ==
    ASSUME IInv, NEW s \in Sessions,
           RecordSkipped(s) \/ RecordBegin(s) \/ RecordEnd(s) \/ \E n \in Names : ConsumeLookup(s, n)
    PROVE  IInv'
<1>1. UNCHANGED <<streams, alloc, key, phys, type, changes, offset, log, born, delivered>>
  BY DEF RecordSkipped, RecordBegin, RecordEnd, ConsumeLookup, objects
<1>2. PICK r \in IdleRec \cup DoneRec \cup RecordRec \cup ConsumeRec :
         /\ sess' = [sess EXCEPT ![s] = r]
         /\ r.pc \in {"done", "record"} => sess[s].pc = "done" /\ r.change = sess[s].change
  <2>1. CASE RecordBegin(s)
    <3>1. sess[s].change \in Change
      BY <2>1, SessCases DEF IInv, RecordBegin, DoneRec
    <3> DEFINE r == [pc |-> "record", change |-> sess[s].change,
                     todo |-> {o \in Objs : Watches(o, s, sess[s].change)}]
    <3>2. r \in RecordRec
      BY <3>1 DEF RecordRec
    <3>3. sess' = [sess EXCEPT ![s] = r] /\ sess[s].pc = "done"
      BY <2>1 DEF RecordBegin
    <3>4. r.change = sess[s].change
      OBVIOUS
    <3> HIDE DEF r
    <3> QED
      BY <3>2, <3>3, <3>4
  <2>2. CASE RecordSkipped(s) \/ RecordEnd(s)
    <3>1. sess' = [sess EXCEPT ![s] = Idle]
      BY <2>2 DEF RecordSkipped, RecordEnd
    <3>2. Idle \in IdleRec /\ Idle.pc = "idle"
      BY DEF Idle, IdleRec
    <3> QED
      BY <3>1, <3>2
  <2>3. CASE \E n \in Names : ConsumeLookup(s, n)
    <3>0. PICK n \in Names : ConsumeLookup(s, n)
      BY <2>3
    <3> DEFINE r == [pc |-> "consume", obj |-> streams[<<SchemaOf[s], n>>]]
    <3>1. streams[<<SchemaOf[s], n>>] \in Objs
      BY <3>0 DEF ConsumeLookup, IInv, DataInv, Schemas
    <3>2. r \in ConsumeRec /\ sess' = [sess EXCEPT ![s] = r] /\ r.pc = "consume"
      BY <3>0, <3>1 DEF ConsumeLookup, ConsumeRec
    <3> QED
      BY <3>2
  <2> QED
    BY <2>1, <2>2, <2>3
<1>3. /\ SessInv' /\ sess'[s] = r
      /\ \A u \in Sessions \ {s} : sess'[u] = sess[u]
  BY <1>2, SessStep DEF IInv
<1>4. \A u \in Sessions : sess'[u].pc \in {"done", "record"} =>
         sess[u].pc \in {"done", "record"} /\ sess'[u].change = sess[u].change
  BY <1>2, <1>3
<1>5. \A u \in Sessions, o \in Objs : Pending(sess'[u], o) => Pending(sess[u], o)
  BY <1>2, <1>3 DEF Pending
<1>6. DataInv'
  BY <1>1 DEF IInv, DataInv
<1>7. LogInv'
  BY <1>1, <1>4 DEF IInv, LogInv
<1>8. OffsetInv'
  BY <1>1 DEF IInv, OffsetInv
<1>9. OrderInv'
  <2>1. SessionOrder'
    BY <1>1 DEF IInv, OrderInv, SessionOrder
  <2>2. \A u \in Sessions, o \in Objs : Pending(sess'[u], o) => sess'[u].change = sess[u].change
    BY <1>4 DEF Pending
  <2> QED
    BY <1>1, <1>5, <2>1, <2>2 DEF IInv, OrderInv
<1> QED
  BY <1>3, <1>6, <1>7, <1>8, <1>9 DEF IInv

(* The statement commits and becomes the session's pending change: it is    *)
(* newer than everything in the streams.                                    *)
LEMMA CommitStep ==
    ASSUME IInv, NEW s \in Sessions, NEW kind \in Kinds, NEW form \in Forms, NEW q \in Quals,
           ExecDML(s, kind, form, q)
    PROVE  /\ IInv'
           /\ Len(log') = Len(log) + 1 /\ \A i \in 1 .. Len(log) : log'[i] = log[i]
           /\ log'[Len(log) + 1].by = s
           /\ sess[s].pc = "idle" /\ sess'[s].pc = "done"
           /\ sess'[s].change = log'[Len(log) + 1]
           /\ \A u \in Sessions \ {s} : sess'[u] = sess[u]
<1> DEFINE c == [id |-> Len(log) + 1, by |-> s, kind |-> kind, form |-> form,
                 phys |-> Physical(q)]
<1>1. UNCHANGED <<streams, alloc, key, phys, type, changes, offset, born, delivered>>
  BY DEF ExecDML, objects
<1>2. /\ log' = Append(log, c) /\ Len(log) < MaxChanges
      /\ sess' = [sess EXCEPT ![s] = [pc |-> "done", change |-> c]]
  BY DEF ExecDML
<1>3. Len(log) \in Nat /\ log \in Seq(Change)
  BY LenProperties DEF IInv, DataInv
<1>4. c \in Change /\ c.id = Len(log) + 1 /\ c.by = s
  BY <1>2, <1>3, StreamAssumption DEF Change
<1> HIDE DEF c
<1>5. /\ log' \in Seq(Change) /\ Len(log') = Len(log) + 1 /\ log'[Len(log) + 1] = c
      /\ \A i \in 1 .. Len(log) : log'[i] = log[i]
  BY <1>2, <1>3, <1>4, AppendProperties
<1>6. [pc |-> "done", change |-> c] \in DoneRec
  BY <1>4 DEF DoneRec
<1>7. /\ SessInv' /\ sess'[s] = [pc |-> "done", change |-> c]
      /\ \A u \in Sessions \ {s} : sess'[u] = sess[u]
  BY <1>2, <1>6, SessStep DEF IInv
<1>8. sess[s].pc = "idle" /\ sess'[s].pc = "done" /\ sess'[s].change = c
  BY <1>7 DEF ExecDML, Idle
<1>9. DataInv'
  BY <1>1, <1>5 DEF IInv, DataInv
<1>10. LogInv'
  <2>1. Len(log') <= MaxChanges
    BY <1>2, <1>3, <1>5, StreamAssumption
  <2>2. \A i \in 1 .. Len(log') : log'[i].id = i
    BY <1>3, <1>4, <1>5 DEF IInv, LogInv
  <2>3. \A o \in Objs : born'[o] <= Len(log')
    BY <1>1, <1>3, <1>5 DEF IInv, LogInv, DataInv
  <2>4. \A o \in Objs : \A i \in 1 .. Len(changes'[o]) : changes'[o][i].id <= Len(log')
    <3> SUFFICES ASSUME NEW o \in Objs, NEW i \in 1 .. Len(changes[o])
                 PROVE  changes[o][i].id <= Len(log) + 1
      BY <1>1, <1>5
    <3>1. changes[o][i] \in Change
      BY ElementOfSeq DEF IInv, DataInv
    <3> QED
      BY <1>3, <3>1 DEF Change, IInv, LogInv
  <2>5. \A u \in Sessions : sess'[u].pc \in {"done", "record"} =>
           sess'[u].change.by = u /\ sess'[u].change.id <= Len(log')
    <3> SUFFICES ASSUME NEW u \in Sessions, sess'[u].pc \in {"done", "record"}
                 PROVE  sess'[u].change.by = u /\ sess'[u].change.id <= Len(log')
      OBVIOUS
    <3>1. CASE u = s
      BY <3>1, <1>3, <1>4, <1>5, <1>8
    <3>2. CASE u # s
      <4>1. sess'[u] = sess[u] /\ sess[u].change \in Change
        BY <3>2, <1>7, SessCases DEF IInv, DoneRec, RecordRec
      <4> QED
        BY <4>1, <1>3, <1>5 DEF IInv, LogInv, Change
    <3> QED
      BY <3>1, <3>2
  <2> QED
    BY <2>1, <2>2, <2>3, <2>4, <2>5 DEF LogInv
<1>11. OffsetInv'
  BY <1>1 DEF IInv, OffsetInv
<1>12. OrderInv'
  <2>1. SessionOrder'
    BY <1>1 DEF IInv, OrderInv, SessionOrder
  <2>2. ASSUME NEW o \in Objs, NEW u \in Sessions, Pending(sess'[u], o),
               NEW i \in 1 .. Len(changes[o]), changes[o][i].by = u
        PROVE  changes[o][i].id < sess'[u].change.id
    <3>1. changes[o][i] \in Change
      BY ElementOfSeq DEF IInv, DataInv
    <3>2. CASE u = s
      BY <3>1, <3>2, <1>3, <1>4, <1>8 DEF IInv, LogInv, Change
    <3>3. CASE u # s
      BY <3>3, <2>2, <1>7 DEF IInv, OrderInv, Pending
    <3> QED
      BY <3>2, <3>3
  <2> QED
    BY <1>1, <2>1, <2>2 DEF OrderInv
<1> QED
  BY <1>4, <1>5, <1>7, <1>8, <1>9, <1>10, <1>11, <1>12 DEF IInv

(* RecordChange appends to one stream: its change is not in it yet, and     *)
(* comes after those of the same session.                                   *)
LEMMA AppendStep ==
    ASSUME IInv, NEW s \in Sessions, NEW p \in Objs, RecordOne(s, p)
    PROVE  /\ IInv'
           /\ sess[s].change \in Change
           /\ \A i \in 1 .. Len(changes[p]) : changes[p][i] # sess[s].change
           /\ Len(changes'[p]) = Len(changes[p]) + 1
           /\ \A i \in 1 .. Len(changes[p]) : changes'[p][i] = changes[p][i]
           /\ changes'[p][Len(changes[p]) + 1] = sess[s].change
           /\ \A o \in Objs \ {p} : changes'[o] = changes[o]
           /\ sess'[s].pc = "record" /\ sess'[s].change = sess[s].change
           /\ sess'[s].todo = sess[s].todo \ {p}
           /\ \A u \in Sessions \ {s} : sess'[u] = sess[u]
<1> DEFINE c == sess[s].change
           r == [sess[s] EXCEPT !.todo = @ \ {p}]
<1>1. UNCHANGED <<streams, alloc, key, phys, type, offset, log, born, delivered>>
  BY DEF RecordOne, objects
<1>2. /\ sess[s].pc = "record" /\ p \in sess[s].todo
      /\ changes' = [changes EXCEPT ![p] = Append(changes[p], c)]
      /\ sess' = [sess EXCEPT ![s] = r]
  BY DEF RecordOne
<1>3. sess[s] \in RecordRec
  BY <1>2, SessCases DEF IInv
<1>4. c \in Change /\ r \in RecordRec /\ r.pc = "record" /\ r.change = c
      /\ r.todo = sess[s].todo \ {p}
  BY <1>3 DEF RecordRec
<1> HIDE DEF c, r
<1>5. /\ SessInv' /\ sess'[s] = r
      /\ \A u \in Sessions \ {s} : sess'[u] = sess[u]
  BY <1>2, <1>4, SessStep DEF IInv
<1>6. \A o \in Objs : changes[o] \in Seq(Change) /\ Len(changes[o]) \in Nat
  BY LenProperties DEF IInv, DataInv
<1>7. /\ Append(changes[p], c) \in Seq(Change)
      /\ Len(Append(changes[p], c)) = Len(changes[p]) + 1
      /\ \A i \in 1 .. Len(changes[p]) : Append(changes[p], c)[i] = changes[p][i]
      /\ Append(changes[p], c)[Len(changes[p]) + 1] = c
  BY <1>4, <1>6, AppendProperties
<1>8. /\ changes' \in [Objs -> Seq(Change)]
      /\ changes'[p] = Append(changes[p], c)
      /\ \A o \in Objs \ {p} : changes'[o] = changes[o]
  BY <1>2, <1>7 DEF IInv, DataInv
<1>9. /\ c.by = s /\ c.id <= Len(log)
      /\ \A i \in 1 .. Len(changes[p]) : changes[p][i].by = s => changes[p][i].id < c.id
  BY <1>2 DEF IInv, LogInv, OrderInv, Pending, c
<1>10. \A i \in 1 .. Len(changes[p]) : changes[p][i] \in Change
  BY <1>6, ElementOfSeq
<1>11. \A i \in 1 .. Len(changes[p]) : changes[p][i] # c
  BY <1>4, <1>9, <1>10 DEF Change
<1>12. DataInv'
  BY <1>1, <1>8 DEF IInv, DataInv
<1>13. LogInv'
  <2>1. \A o \in Objs : \A i \in 1 .. Len(changes'[o]) : changes'[o][i].id <= Len(log)
    <3> SUFFICES ASSUME NEW o \in Objs, NEW i \in 1 .. Len(changes'[o])
                 PROVE  changes'[o][i].id <= Len(log)
      OBVIOUS
    <3>1. CASE o # p
      BY <3>1, <1>8 DEF IInv, LogInv
    <3>2. CASE o = p
      BY <3>2, <1>6, <1>7, <1>8, <1>9 DEF IInv, LogInv
    <3> QED
      BY <3>1, <3>2
  <2>2. \A u \in Sessions : sess'[u].pc \in {"done", "record"} =>
           sess[u].pc \in {"done", "record"} /\ sess'[u].change = sess[u].change
    BY <1>2, <1>4, <1>5 DEF c
  <2> QED
    BY <1>1, <2>1, <2>2 DEF IInv, LogInv
<1>14. OffsetInv'
  <2> SUFFICES ASSUME NEW o \in Objs
               PROVE  /\ offset[o] <= Len(changes'[o])
                      /\ delivered[o] = SubSeq(changes'[o], 1, offset[o])
    BY <1>1 DEF OffsetInv
  <2>1. CASE o # p
    BY <2>1, <1>8 DEF IInv, OffsetInv
  <2>2. CASE o = p
    <3>1. offset[o] \in Nat /\ offset[o] <= Len(changes[o])
      BY DEF IInv, DataInv, OffsetInv
    <3>2. changes'[o] = changes[o] \o <<c>>
      <4>1. changes[p] \in Seq(Change) /\ c \in Change
        BY <1>4, <1>6
      <4>2. Append(changes[p], c) = changes[p] \o <<c>>
        BY <4>1, AppendIsConcat
      <4> QED
        BY <2>2, <4>2, <1>8
    <3>3. <<c>> \in Seq(Change)
      BY <1>4
    <3>4. SubSeq(changes'[o], 1, offset[o]) = SubSeq(changes[o], 1, offset[o])
      <4>1. CASE offset[o] = 0
        BY <4>1, SubSeqEmpty
      <4>2. CASE offset[o] # 0
        <5>1. 1 \in 1 .. Len(changes[o]) /\ offset[o] \in 1 .. Len(changes[o])
          BY <4>2, <3>1, <1>6
        <5> QED
          BY <5>1, <3>2, <3>3, <1>6, SubSeqOfConcat1
      <4> QED
        BY <4>1, <4>2
    <3>5. offset[o] <= Len(changes'[o])
      BY <2>2, <3>1, <1>6, <1>7, <1>8
    <3> QED
      BY <3>4, <3>5 DEF IInv, OffsetInv
  <2> QED
    BY <2>1, <2>2
<1>15. OrderInv'
  <2>1. SessionOrder'
    <3> SUFFICES ASSUME NEW o \in Objs, NEW i \in DOMAIN changes'[o], NEW j \in DOMAIN changes'[o],
                        i < j, changes'[o][i].by = changes'[o][j].by
                 PROVE  changes'[o][i].id < changes'[o][j].id
      BY DEF SessionOrder
    <3>1. CASE o # p
      BY <3>1, <1>8 DEF IInv, OrderInv, SessionOrder
    <3>2. CASE o = p
      <4>1. DOMAIN changes'[p] = 1 .. Len(changes[p]) + 1 /\ DOMAIN changes[p] = 1 .. Len(changes[p])
        BY <1>6, <1>7, <1>8, LenProperties
      <4>2. i \in 1 .. Len(changes[p]) /\ changes'[p][i] = changes[p][i]
        BY <3>2, <4>1, <1>6, <1>7, <1>8
      <4>3. CASE j = Len(changes[p]) + 1
        BY <3>2, <4>2, <4>3, <1>7, <1>8, <1>9
      <4>4. CASE j # Len(changes[p]) + 1
        <5>1. j \in 1 .. Len(changes[p]) /\ changes'[p][j] = changes[p][j]
          <6>1. Len(changes[p]) \in Nat /\ j \in 1 .. Len(changes[p]) + 1
            BY <3>2, <4>1, <1>6
          <6>2. j \in 1 .. Len(changes[p])
            BY <6>1, <4>4
          <6> QED
            BY <6>2, <1>7, <1>8
        <5> QED
          BY <3>2, <4>1, <4>2, <5>1 DEF IInv, OrderInv, SessionOrder
      <4> QED
        BY <4>3, <4>4
    <3> QED
      BY <3>1, <3>2
  <2>2. ASSUME NEW o \in Objs, NEW u \in Sessions, Pending(sess'[u], o),
               NEW i \in 1 .. Len(changes'[o]), changes'[o][i].by = u
        PROVE  changes'[o][i].id < sess'[u].change.id
    <3>1. Pending(sess[u], o) /\ sess'[u].change = sess[u].change /\ ~(u = s /\ o = p)
      <4>1. CASE u # s
        BY <4>1, <2>2, <1>5 DEF Pending
      <4>2. CASE u = s
        <5>1. sess'[u] = r /\ o \in r.todo
          BY <4>2, <2>2, <1>4, <1>5 DEF Pending
        <5> QED
          BY <4>2, <5>1, <1>2, <1>4 DEF Pending, c
      <4> QED
        BY <4>1, <4>2
    <3>2. CASE o # p
      BY <3>1, <3>2, <2>2, <1>8 DEF IInv, OrderInv
    <3>3. CASE o = p
      <4>1. i \in 1 .. Len(changes[p]) /\ changes'[p][i] = changes[p][i]
        BY <3>1, <3>3, <2>2, <1>6, <1>7, <1>8, <1>9
      <4> QED
        BY <3>1, <3>3, <4>1, <2>2 DEF IInv, OrderInv
    <3> QED
      BY <3>2, <3>3
  <2> QED
    BY <2>1, <2>2 DEF OrderInv
<1>16. IInv'
  BY <1>5, <1>12, <1>13, <1>14, <1>15 DEF IInv
<1> QED
  BY <1>4, <1>5, <1>7, <1>8, <1>11, <1>16 DEF c

(* ConsumeStream hands out what lies between the offset and the end, and    *)
(* moves the offset to the end.                                             *)
LEMMA ConsumeStep ==
    ASSUME IInv, NEW s \in Sessions, Consume(s)
    PROVE  /\ IInv'
           /\ sess[s].obj \in Objs
           /\ delivered' = [delivered EXCEPT ![sess[s].obj] = changes[sess[s].obj]]
           /\ \A u \in Sessions \ {s} : sess'[u] = sess[u]
           /\ sess'[s].pc = "idle" /\ sess[s].pc = "consume"
<1> DEFINE p == sess[s].obj
<1>1. UNCHANGED <<streams, alloc, key, phys, type, changes, log, born>>
  BY DEF Consume, objects
<1>2. /\ sess[s].pc = "consume" /\ sess' = [sess EXCEPT ![s] = Idle]
      /\ delivered' = [delivered EXCEPT ![p] =
             delivered[p] \o SubSeq(changes[p], offset[p] + 1, Len(changes[p]))]
      /\ offset' = [offset EXCEPT ![p] = IF HasData(p) THEN Len(changes[p]) ELSE offset[p]]
  BY DEF Consume
<1>3. p \in Objs
  BY <1>2, SessCases DEF IInv, ConsumeRec
<1> HIDE DEF p
<1>4. Idle \in IdleRec /\ Idle.pc = "idle"
  BY DEF Idle, IdleRec
<1>5. /\ SessInv' /\ sess'[s] = Idle
      /\ \A u \in Sessions \ {s} : sess'[u] = sess[u]
  BY <1>2, <1>4, SessStep DEF IInv
<1>6. /\ changes[p] \in Seq(Change) /\ Len(changes[p]) \in Nat
      /\ offset[p] \in Nat /\ offset[p] <= Len(changes[p])
      /\ delivered[p] = SubSeq(changes[p], 1, offset[p])
  BY <1>3, LenProperties DEF IInv, DataInv, OffsetInv
<1>7. delivered[p] \o SubSeq(changes[p], offset[p] + 1, Len(changes[p])) = changes[p]
  <2>1. /\ 1 \in 1 .. Len(changes[p]) + 1
        /\ offset[p] \in 1 - 1 .. Len(changes[p])
        /\ Len(changes[p]) \in offset[p] .. Len(changes[p])
    BY <1>6
  <2>2. SubSeq(changes[p], 1, offset[p]) \o SubSeq(changes[p], offset[p] + 1, Len(changes[p]))
          = SubSeq(changes[p], 1, Len(changes[p]))
    BY <2>1, <1>6, ConcatAdjacentSubSeq
  <2> QED
    BY <2>2, <1>6, SubSeqFull
<1>8. delivered' = [delivered EXCEPT ![p] = changes[p]]
  BY <1>2, <1>7
<1>9. offset' = [offset EXCEPT ![p] = Len(changes[p])]
  <2>1. (IF HasData(p) THEN Len(changes[p]) ELSE offset[p]) = Len(changes[p])
    BY <1>6 DEF HasData
  <2> QED
    BY <2>1, <1>2
<1>10. DataInv'
  BY <1>1, <1>3, <1>6, <1>8, <1>9 DEF IInv, DataInv
<1>11. OffsetInv'
  <2> SUFFICES ASSUME NEW o \in Objs
               PROVE  /\ offset'[o] <= Len(changes[o])
                      /\ delivered'[o] = SubSeq(changes[o], 1, offset'[o])
    BY <1>1 DEF OffsetInv
  <2>1. CASE o # p
    BY <2>1, <1>8, <1>9 DEF IInv, DataInv, OffsetInv
  <2>2. CASE o = p
    <3>1. offset'[o] = Len(changes[p]) /\ delivered'[o] = changes[p]
      BY <2>2, <1>8, <1>9 DEF IInv, DataInv
    <3> QED
      BY <2>2, <3>1, <1>6, SubSeqFull
  <2> QED
    BY <2>1, <2>2
<1>12. \A u \in Sessions : sess'[u].pc # "idle" => sess'[u] = sess[u]
  BY <1>4, <1>5
<1>13. LogInv'
  BY <1>1, <1>12 DEF IInv, LogInv
<1>14. OrderInv'
  <2>1. SessionOrder'
    BY <1>1 DEF IInv, OrderInv, SessionOrder
  <2>2. \A u \in Sessions, o \in Objs : Pending(sess'[u], o) => Pending(sess[u], o) /\ sess'[u] = sess[u]
    BY <1>12 DEF Pending
  <2> QED
    BY <1>1, <2>1, <2>2 DEF IInv, OrderInv
<1>15. IInv'
  BY <1>5, <1>10, <1>11, <1>13, <1>14 DEF IInv
<1> QED
  BY <1>2, <1>3, <1>4, <1>5, <1>8, <1>15 DEF p

----------------------------------------------------------------------------
LEMMA NextInv == IInv /\ [Next]_vars => IInv'
<1> SUFFICES ASSUME IInv, [Next]_vars PROVE IInv'
  OBVIOUS
<1>1. CASE UNCHANGED vars
  BY <1>1 DEF vars, objects, IInv, DataInv, SessInv, LogInv, OffsetInv, OrderInv,
     SessionOrder, Pending
<1>2. ASSUME NEW s \in Sessions, NEW n \in Names, NEW o \in Objs, NEW t \in Types, NEW q \in Quals,
             CreateStream(s, n, o, t, q)
      PROVE  IInv'
  BY <1>2, RegistryStep
<1>3. ASSUME NEW s \in Sessions, NEW n \in Names, DropStream(s, n) PROVE IInv'
  BY <1>3, RegistryStep
<1>4. ASSUME NEW s \in Sessions, NEW n \in Names, ConsumeLookup(s, n) PROVE IInv'
  BY <1>4, SessionStep
<1>5. ASSUME NEW s \in Sessions, NEW k \in Kinds, NEW f \in Forms, NEW q \in Quals,
             ExecDML(s, k, f, q) PROVE IInv'
  BY <1>5, CommitStep
<1>6. ASSUME NEW s \in Sessions, RecordSkipped(s) \/ RecordBegin(s) \/ RecordEnd(s) PROVE IInv'
  BY <1>6, SessionStep
<1>7. ASSUME NEW s \in Sessions, Consume(s) PROVE IInv'
  BY <1>7, ConsumeStep
<1>8. ASSUME NEW s \in Sessions, NEW o \in Objs, RecordOne(s, o) PROVE IInv'
  BY <1>8, AppendStep
<1>9. CASE Reset
  BY <1>9, RegistryStep
<1> QED
  BY <1>1, <1>2, <1>3, <1>4, <1>5, <1>6, <1>7, <1>8, <1>9 DEF Next

LEMMA InvHolds == Spec => []IInv
  BY InitInv, NextInv, PTL DEF Spec

(* Streams hold committed changes only, and no offset passes the end of its *)
(* stream.                                                                  *)
THEOREM TypeCorrect == Spec => []TypeOK
<1>1. ASSUME IInv PROVE TypeOK
  <2>1. ASSUME NEW o \in Objs
        PROVE  /\ Elems(changes[o]) \subseteq Change /\ Elems(delivered[o]) \subseteq Change
               /\ offset[o] \in 0 .. Len(changes[o]) /\ born[o] \in 0 .. Len(log)
    <3>1. changes[o] \in Seq(Change) /\ delivered[o] \in Seq(Change) /\ log \in Seq(Change)
      BY <1>1 DEF IInv, DataInv
    <3>2. Elems(changes[o]) \subseteq Change /\ Elems(delivered[o]) \subseteq Change
      BY <3>1, ElementOfSeq, LenProperties DEF Elems
    <3>3. Len(changes[o]) \in Nat /\ Len(log) \in Nat /\ offset[o] \in Nat /\ born[o] \in Nat
      BY <1>1, <3>1, LenProperties DEF IInv, DataInv
    <3>4. offset[o] <= Len(changes[o]) /\ born[o] <= Len(log)
      BY <1>1 DEF IInv, OffsetInv, LogInv
    <3> QED
      BY <3>2, <3>3, <3>4
  <2>2. \A s \in Sessions : sess[s].pc \in {"idle", "done", "record", "consume"}
    BY <1>1, SessCases DEF IInv
  <2> QED
    BY <1>1, <2>1, <2>2 DEF TypeOK, IInv, DataInv
<1> QED
  BY <1>1, InvHolds, PTL

(* The changes of one session reach every stream in the order it made them. *)
THEOREM OrderKept == Spec => []SessionOrder
<1>1. IInv => SessionOrder
  BY DEF IInv, OrderInv
<1> QED
  BY <1>1, InvHolds, PTL

(* Every step of the streams is a step of the change feeds or leaves them:  *)
(* RecordOne publishes, Consume delivers, nothing else touches a feed.      *)
LEMMA FeedStep == ASSUME IInv, [Next]_vars PROVE [Feed!Next]_<<changes, delivered>>
<1>1. ASSUME NEW s \in Sessions, NEW o \in Objs, RecordOne(s, o) PROVE Feed!Next
  <2>1. sess[s].change \in Change
        /\ \A i \in 1 .. Len(changes[o]) : changes[o][i] # sess[s].change
    BY <1>1, AppendStep
  <2>2. changes[o] \in Seq(Change)
    BY DEF IInv, DataInv
  <2>3. sess[s].change \notin Feed!Published(o)
    BY <2>1, <2>2, LenProperties DEF Feed!Published
  <2>4. changes' = [changes EXCEPT ![o] = Append(@, sess[s].change)] /\ UNCHANGED delivered
    BY <1>1 DEF RecordOne
  <2>5. Feed!Publish(o, sess[s].change)
    BY <2>3, <2>4 DEF Feed!Publish
  <2> QED
    BY <2>1, <2>5 DEF Feed!Next
<1>2. ASSUME NEW s \in Sessions, Consume(s) PROVE Feed!Next
  <2>1. sess[s].obj \in Objs
        /\ delivered' = [delivered EXCEPT ![sess[s].obj] = changes[sess[s].obj]]
    BY <1>2, ConsumeStep
  <2>2. UNCHANGED changes
    BY <1>2 DEF Consume
  <2>3. Feed!Deliver(sess[s].obj)
    BY <2>1, <2>2 DEF Feed!Deliver
  <2> QED
    BY <2>1, <2>3 DEF Feed!Next
<1>3. \/ UNCHANGED <<changes, delivered>>
      \/ \E s \in Sessions : Consume(s) \/ \E o \in Objs : RecordOne(s, o)
  <2>1. CASE UNCHANGED vars
    BY <2>1 DEF vars
  <2>2. ASSUME NEW s \in Sessions, NEW n \in Names, NEW o \in Objs, NEW t \in Types, NEW q \in Quals,
               CreateStream(s, n, o, t, q)
        PROVE  UNCHANGED <<changes, delivered>>
    BY <2>2 DEF CreateStream
  <2>3. ASSUME NEW s \in Sessions, NEW n \in Names, DropStream(s, n) \/ ConsumeLookup(s, n)
        PROVE  UNCHANGED <<changes, delivered>>
    BY <2>3 DEF DropStream, ConsumeLookup
  <2>4. ASSUME NEW s \in Sessions, NEW k \in Kinds, NEW f \in Forms, NEW q \in Quals,
             ExecDML(s, k, f, q)
        PROVE  UNCHANGED <<changes, delivered>>
    BY <2>4 DEF ExecDML
  <2>5. ASSUME NEW s \in Sessions, RecordSkipped(s) \/ RecordBegin(s) \/ RecordEnd(s)
        PROVE  UNCHANGED <<changes, delivered>>
    BY <2>5 DEF RecordSkipped, RecordBegin, RecordEnd
  <2>6. Reset => UNCHANGED <<changes, delivered>>
    BY DEF Reset
  <2> QED
    BY <2>1, <2>2, <2>3, <2>4, <2>5, <2>6 DEF Next
<1> QED
  BY <1>1, <1>2, <1>3

(* The streams implement the change feed: no record twice, and overlapping  *)
(* ConsumeStreams hand out every record exactly once and in order.          *)
THEOREM StreamsImplementFeed == Spec => FeedSpec
<1>1. Init => Feed!Init
  BY DEF Init, Feed!Init
<1>2. IInv /\ [Next]_vars => [Feed!Next]_<<changes, delivered>>
  BY FeedStep
<1> QED
  BY <1>1, <1>2, InvHolds, PTL DEF Spec, FeedSpec, Feed!Spec

----------------------------------------------------------------------------
(* A new stream wants only later changes, a new change is owed to all, and  *)
(* RecordBegin lists every stream that wants it.                            *)
LEMMA KeyCompleteInit == Init => KeyComplete
<1> SUFFICES ASSUME Init PROVE KeyComplete
  OBVIOUS
<1>1. log = << >> /\ Len(log) = 0
  BY EmptySeq DEF Init
<1> QED
  BY <1>1 DEF KeyComplete

LEMMA KeyCompleteStep == ASSUME IInv, KeyComplete, [Next]_vars PROVE KeyComplete'
<1>0. Len(log) \in Nat /\ log \in Seq(Change)
  BY LenProperties DEF IInv, DataInv
<1>1. CASE UNCHANGED vars
  BY <1>1 DEF vars, objects, KeyComplete, Registered, Wants, Pending, RecordKey, Action
<1>2. ASSUME NEW s \in Sessions, NEW n \in Names, NEW p \in Objs, NEW t \in Types, NEW q \in Quals,
             CreateStream(s, n, p, t, q)
      PROVE  KeyComplete'
  <2>1. UNCHANGED <<changes, sess, log>>
    BY <1>2 DEF CreateStream
  <2>2. ASSUME NEW o \in Objs, Registered(o)', NEW i \in 1 .. Len(log), Wants(o, log[i])',
               o = p
        PROVE  FALSE
    <3>1. born'[o] = Len(log)
      BY <1>2, <2>2 DEF CreateStream, IInv, DataInv
    <3>2. log[i].id = i
      BY DEF IInv, LogInv
    <3> QED
      BY <1>0, <2>1, <2>2, <3>1, <3>2 DEF Wants
  <2>3. ASSUME NEW o \in Objs, o # p
        PROVE  /\ Registered(o)' => Registered(o)
               /\ born'[o] = born[o] /\ key'[o] = key[o] /\ type'[o] = type[o]
    <3>1. \A k \in Schemas \X Names : streams'[k] = o => streams[k] = o
      BY <1>2, <2>3 DEF CreateStream, IInv, DataInv
    <3>2. born'[o] = born[o] /\ key'[o] = key[o] /\ type'[o] = type[o]
      BY <1>2, <2>3 DEF CreateStream, IInv, DataInv
    <3> QED
      BY <3>1, <3>2 DEF Registered
  <2>4. \A o \in Objs, u \in Sessions : Pending(sess'[u], o) <=> Pending(sess[u], o)
    BY <2>1 DEF Pending
  <2> QED
    BY <2>1, <2>2, <2>3, <2>4 DEF KeyComplete, Wants, Pending, RecordKey, Action
<1>3. ASSUME UNCHANGED <<key, type, changes, sess, log, born>>,
             \A o \in Objs : Registered(o)' => Registered(o)
      PROVE  KeyComplete'
  BY <1>3 DEF KeyComplete, Wants, Pending, RecordKey, Action
<1>4. ASSUME NEW s \in Sessions, NEW n \in Names, DropStream(s, n) PROVE KeyComplete'
  <2>1. \A o \in Objs, k \in Schemas \X Names : streams'[k] = o => streams[k] = o
    BY <1>4, StreamAssumption DEF DropStream, IInv, DataInv
  <2>2. \A o \in Objs : Registered(o)' => Registered(o)
    BY <2>1 DEF Registered
  <2>3. UNCHANGED <<key, type, changes, sess, log, born>>
    BY <1>4 DEF DropStream, objects
  <2> QED
    BY <2>2, <2>3, <1>3
<1>5. CASE Reset
  <2>1. \A o \in Objs, k \in Schemas \X Names : streams'[k] # o
    BY <1>5, StreamAssumption DEF Reset
  <2>2. \A o \in Objs : Registered(o)' => Registered(o)
    BY <2>1 DEF Registered
  <2>3. UNCHANGED <<key, type, changes, sess, log, born>>
    BY <1>5 DEF Reset, objects
  <2> QED
    BY <2>2, <2>3, <1>3
<1>6. ASSUME UNCHANGED <<streams, key, type, changes, log, born>>,
             \A o \in Objs, c \in Change : Registered(o) /\ Wants(o, c)
                 /\ Pending(sess[c.by], o) /\ sess[c.by].change = c
                 => Pending(sess'[c.by], o) /\ sess'[c.by].change = c
      PROVE  KeyComplete'
  <2> SUFFICES ASSUME NEW o \in Objs, Registered(o)', NEW i \in 1 .. Len(log), Wants(o, log[i])'
               PROVE  \/ \E j \in 1 .. Len(changes[o]) : changes[o][j] = log[i]
                      \/ Pending(sess'[log[i].by], o) /\ sess'[log[i].by].change = log[i]
    BY <1>6 DEF KeyComplete, Wants, Pending
  <2>1. Registered(o) /\ Wants(o, log[i])
    BY <1>6 DEF Registered, Wants, RecordKey, Action
  <2>2. log[i] \in Change
    BY <1>0, ElementOfSeq
  <2> QED
    BY <1>6, <2>1, <2>2 DEF KeyComplete
<1>7. ASSUME NEW s \in Sessions, RecordBegin(s) PROVE KeyComplete'
  <2>1. UNCHANGED <<streams, key, type, changes, log, born>>
    BY <1>7 DEF RecordBegin, objects
  <2> DEFINE r == [pc |-> "record", change |-> sess[s].change,
                   todo |-> {o \in Objs : Watches(o, s, sess[s].change)}]
  <2>2. sess' = [sess EXCEPT ![s] = r]
    BY <1>7 DEF RecordBegin
  <2>3. r.pc = "record" /\ r.change = sess[s].change
        /\ r.todo = {o \in Objs : Watches(o, s, sess[s].change)}
    OBVIOUS
  <2> HIDE DEF r
  <2>4. sess'[s] = r /\ \A u \in Sessions \ {s} : sess'[u] = sess[u]
    BY <2>2 DEF IInv, SessInv
  <2>5. ASSUME NEW o \in Objs, NEW c \in Change, Registered(o), Wants(o, c),
               Pending(sess[c.by], o), sess[c.by].change = c
        PROVE  Pending(sess'[c.by], o) /\ sess'[c.by].change = c
    <3>0. c.by \in Sessions
      BY DEF Change
    <3>1. CASE c.by # s
      BY <2>4, <2>5, <3>0, <3>1 DEF Pending
    <3>2. CASE c.by = s
      <4>1. Watches(o, s, c)
        BY <2>5, <3>2 DEF Watches, Wants
      <4>2. sess'[s].pc = "record" /\ o \in sess'[s].todo /\ sess'[s].change = c
        BY <2>3, <2>4, <2>5, <3>2, <4>1
      <4> QED
        BY <3>2, <4>2 DEF Pending
    <3> QED
      BY <3>1, <3>2
  <2> QED
    BY <2>1, <2>5, <1>6
<1>11. ASSUME NEW s \in Sessions, RecordSkipped(s) PROVE KeyComplete'
  <2>1. UNCHANGED <<streams, key, type, changes, log, born>>
    BY <1>11 DEF RecordSkipped, objects
  <2>2. sess[s].change.form = "unseen"
    BY <1>11 DEF RecordSkipped
  <2>3. \A u \in Sessions \ {s} : sess'[u] = sess[u]
    BY <1>11 DEF RecordSkipped, IInv, SessInv
  <2>4. ASSUME NEW o \in Objs, NEW c \in Change, Wants(o, c),
               Pending(sess[c.by], o), sess[c.by].change = c
        PROVE  Pending(sess'[c.by], o) /\ sess'[c.by].change = c
    <3>1. c.by \in Sessions \ {s}
      BY <2>2, <2>4 DEF Wants, Change
    <3> QED
      BY <2>3, <2>4, <3>1 DEF Pending
  <2> QED
    BY <2>1, <2>4, <1>6
<1>8. ASSUME NEW s \in Sessions,
             Consume(s) \/ RecordEnd(s) \/ \E n \in Names : ConsumeLookup(s, n)
      PROVE  KeyComplete'
  <2>1. UNCHANGED <<streams, key, type, changes, log, born>>
    BY <1>8 DEF Consume, RecordEnd, ConsumeLookup, objects
  <2>2. \A o \in Objs : ~Pending(sess[s], o)
    <3>1. sess[s].pc = "consume" \/ sess[s].pc = "idle" \/ (sess[s].pc = "record" /\ sess[s].todo = {})
      <4>1. Consume(s) => sess[s].pc = "consume"
        BY DEF Consume
      <4>2. RecordEnd(s) => sess[s].pc = "record" /\ sess[s].todo = {}
        BY DEF RecordEnd
      <4>3. ASSUME NEW n \in Names, ConsumeLookup(s, n) PROVE sess[s].pc = "idle"
        BY <4>3 DEF ConsumeLookup, Idle
      <4> QED
        BY <1>8, <4>1, <4>2, <4>3
    <3> QED
      BY <3>1 DEF Pending
  <2>3. \A u \in Sessions \ {s} : sess'[u] = sess[u]
    BY <1>8 DEF Consume, RecordEnd, ConsumeLookup, IInv, SessInv
  <2>4. ASSUME NEW o \in Objs, NEW c \in Change, Pending(sess[c.by], o), sess[c.by].change = c
        PROVE  Pending(sess'[c.by], o) /\ sess'[c.by].change = c
    <3>1. c.by \in Sessions \ {s}
      BY <2>2, <2>4 DEF Change
    <3> QED
      BY <2>3, <2>4, <3>1 DEF Pending
  <2> QED
    BY <2>1, <2>4, <1>6
<1>9. ASSUME NEW s \in Sessions, NEW k \in Kinds, NEW f \in Forms, NEW q \in Quals,
             ExecDML(s, k, f, q)
      PROVE  KeyComplete'
  <2>1. /\ Len(log') = Len(log) + 1 /\ \A i \in 1 .. Len(log) : log'[i] = log[i]
        /\ log'[Len(log) + 1].by = s
        /\ sess[s].pc = "idle" /\ sess'[s].pc = "done" /\ sess'[s].change = log'[Len(log) + 1]
        /\ \A u \in Sessions \ {s} : sess'[u] = sess[u]
    BY <1>9, CommitStep
  <2>2. UNCHANGED <<streams, key, type, changes, born>>
    BY <1>9 DEF ExecDML, objects
  <2> SUFFICES ASSUME NEW o \in Objs, Registered(o)', NEW i \in 1 .. Len(log'), Wants(o, log[i])'
               PROVE  \/ \E j \in 1 .. Len(changes[o]) : changes[o][j] = log'[i]
                      \/ Pending(sess'[log'[i].by], o) /\ sess'[log'[i].by].change = log'[i]
    BY <2>2 DEF KeyComplete, Wants, Pending
  <2>3. CASE i = Len(log) + 1
    BY <2>1, <2>3 DEF Pending
  <2>4. CASE i \in 1 .. Len(log)
    <3>1. log'[i] = log[i] /\ log[i] \in Change
      BY <2>1, <2>4, <1>0, ElementOfSeq
    <3>2. Registered(o) /\ Wants(o, log[i])
      BY <2>2, <3>1 DEF Registered, Wants, RecordKey, Action
    <3>3. CASE \E j \in 1 .. Len(changes[o]) : changes[o][j] = log[i]
      BY <3>1, <3>3
    <3>4. CASE Pending(sess[log[i].by], o) /\ sess[log[i].by].change = log[i]
      <4>1. log[i].by \in Sessions \ {s}
        BY <2>1, <3>1, <3>4 DEF Pending, Change
      <4> QED
        BY <2>1, <3>1, <3>4, <4>1 DEF Pending
    <3> QED
      BY <2>4, <3>2, <3>3, <3>4 DEF KeyComplete
  <2> QED
    BY <2>1, <2>3, <2>4, <1>0
<1>10. ASSUME NEW s \in Sessions, NEW p \in Objs, RecordOne(s, p) PROVE KeyComplete'
  <2>1. UNCHANGED <<streams, key, type, log, born>>
    BY <1>10 DEF RecordOne, objects
  <2>2. /\ Len(changes'[p]) = Len(changes[p]) + 1
        /\ \A i \in 1 .. Len(changes[p]) : changes'[p][i] = changes[p][i]
        /\ changes'[p][Len(changes[p]) + 1] = sess[s].change
        /\ \A o \in Objs \ {p} : changes'[o] = changes[o]
        /\ sess'[s].pc = "record" /\ sess'[s].change = sess[s].change
        /\ sess'[s].todo = sess[s].todo \ {p}
        /\ \A u \in Sessions \ {s} : sess'[u] = sess[u]
    BY <1>10, AppendStep
  <2>3. Len(changes[p]) \in Nat /\ sess[s].pc = "record"
    BY <1>10, LenProperties DEF IInv, DataInv, RecordOne
  <2> SUFFICES ASSUME NEW o \in Objs, Registered(o)', NEW i \in 1 .. Len(log), Wants(o, log[i])'
               PROVE  \/ \E j \in 1 .. Len(changes'[o]) : changes'[o][j] = log[i]
                      \/ Pending(sess'[log[i].by], o) /\ sess'[log[i].by].change = log[i]
    BY <2>1 DEF KeyComplete, Wants, Pending
  <2>4. Registered(o) /\ Wants(o, log[i]) /\ log[i] \in Change
    BY <2>1, <1>0, ElementOfSeq DEF Registered, Wants, RecordKey, Action
  <2>5. ASSUME NEW j \in 1 .. Len(changes[o]), changes[o][j] = log[i]
        PROVE  j \in 1 .. Len(changes'[o]) /\ changes'[o][j] = log[i]
    <3>1. CASE o # p
      BY <3>1, <2>2, <2>5
    <3>2. CASE o = p
      BY <3>2, <2>2, <2>3, <2>5
    <3> QED
      BY <3>1, <3>2
  <2>6. ASSUME Pending(sess[log[i].by], o), sess[log[i].by].change = log[i]
        PROVE  \/ \E j \in 1 .. Len(changes'[o]) : changes'[o][j] = log[i]
               \/ Pending(sess'[log[i].by], o) /\ sess'[log[i].by].change = log[i]
    <3>1. CASE log[i].by # s
      BY <3>1, <2>2, <2>4, <2>6 DEF Pending, Change
    <3>2. CASE log[i].by = s /\ o = p
      <4>1. Len(changes[p]) + 1 \in 1 .. Len(changes'[p]) /\ changes'[p][Len(changes[p]) + 1] = log[i]
        BY <3>2, <2>2, <2>3, <2>6
      <4> QED
        BY <3>2, <4>1
    <3>3. CASE log[i].by = s /\ o # p
      BY <3>3, <2>2, <2>3, <2>6 DEF Pending
    <3> QED
      BY <3>1, <3>2, <3>3
  <2> QED
    BY <2>4, <2>5, <2>6 DEF KeyComplete
<1> QED
  BY <1>1, <1>2, <1>4, <1>5, <1>7, <1>8, <1>9, <1>10, <1>11 DEF Next

(* Whatever schemas sessions work in and however they write the statement:  *)
(* when a DML statement whose table name was found has returned, every      *)
(* stream registered under the key RecordChange uses holds the change.      *)
THEOREM NoKeyMissed == Spec => []KeyComplete
<1>1. IInv /\ KeyComplete /\ [Next]_vars => KeyComplete'
  BY KeyCompleteStep
<1> QED
  BY KeyCompleteInit, <1>1, InvHolds, PTL DEF Spec

----------------------------------------------------------------------------
(* With one schema and no qualified names, CREATE STREAM registers the key  *)
(* under which every session records.                                       *)
LEMMA SharedKeyStep ==
    ASSUME OneTableName, IInv, SharedKey, [Next]_vars
    PROVE  SharedKey'
<1>1. ASSUME UNCHANGED <<streams, key, phys>> PROVE SharedKey'
  BY <1>1 DEF SharedKey, Registered, RecordKey, Physical
<1>2. ASSUME NEW s \in Sessions, NEW n \in Names, NEW p \in Objs, NEW t \in Types, NEW q \in Quals,
             CreateStream(s, n, p, t, q)
      PROVE  SharedKey'
  <2>1. q = NoQual /\ \A u \in Sessions : SchemaOf[u] = SchemaOf[s]
    BY DEF OneTableName
  <2> SUFFICES ASSUME NEW o \in Objs, Registered(o)'
               PROVE  /\ \A u \in Sessions : key'[o] = RecordKey(u, "plain")
                      /\ phys'[o] = Physical(NoQual)
    BY DEF SharedKey, RecordKey, Physical
  <2>2. CASE o = p
    <3>1. key'[o] = StreamKey(s, q) /\ phys'[o] = Physical(q)
      BY <1>2, <2>2 DEF CreateStream, IInv, DataInv
    <3>2. \A u \in Sessions : StreamKey(s, q) = RecordKey(u, "plain")
      BY <2>1 DEF StreamKey, RecordKey
    <3> QED
      BY <2>1, <3>1, <3>2
  <2>3. CASE o # p
    <3>1. \A k \in Schemas \X Names : streams'[k] = o => streams[k] = o
      BY <1>2, <2>3 DEF CreateStream, IInv, DataInv
    <3>2. Registered(o)
      BY <3>1 DEF Registered
    <3>3. key'[o] = key[o] /\ phys'[o] = phys[o]
      BY <1>2, <2>3 DEF CreateStream, IInv, DataInv
    <3> QED
      BY <3>2, <3>3 DEF SharedKey, RecordKey
  <2> QED
    BY <2>2, <2>3
<1>3. ASSUME UNCHANGED <<key, phys>>,
             \A o \in Objs, k \in Schemas \X Names : streams'[k] = o => streams[k] = o
      PROVE  SharedKey'
  <2>1. \A o \in Objs : Registered(o)' => Registered(o)
    BY <1>3 DEF Registered
  <2> QED
    BY <1>3, <2>1 DEF SharedKey, RecordKey, Physical
<1>4. ASSUME NEW s \in Sessions, NEW n \in Names, DropStream(s, n) PROVE SharedKey'
  <2>1. \A o \in Objs, k \in Schemas \X Names : streams'[k] = o => streams[k] = o
    BY <1>4, StreamAssumption DEF DropStream, IInv, DataInv
  <2>2. UNCHANGED <<key, phys>>
    BY <1>4 DEF DropStream, objects
  <2> QED
    BY <2>1, <2>2, <1>3
<1>5. CASE Reset
  <2>1. \A o \in Objs, k \in Schemas \X Names : streams'[k] # o
    BY <1>5, StreamAssumption DEF Reset
  <2>2. UNCHANGED <<key, phys>>
    BY <1>5 DEF Reset, objects
  <2> QED
    BY <2>1, <2>2, <1>3
<1>6. CASE UNCHANGED vars
  BY <1>6, <1>1 DEF vars, objects
<1>7. ASSUME NEW s \in Sessions, NEW n \in Names, ConsumeLookup(s, n) PROVE SharedKey'
  BY <1>7, <1>1 DEF ConsumeLookup, objects
<1>8. ASSUME NEW s \in Sessions, NEW k \in Kinds, NEW f \in Forms, NEW q \in Quals,
             ExecDML(s, k, f, q)
      PROVE  SharedKey'
  BY <1>8, <1>1 DEF ExecDML, objects
<1>9. ASSUME NEW s \in Sessions, RecordSkipped(s) \/ RecordBegin(s) \/ RecordEnd(s) \/ Consume(s) PROVE SharedKey'
  BY <1>9, <1>1 DEF RecordSkipped, RecordBegin, RecordEnd, Consume, objects
<1>10. ASSUME NEW s \in Sessions, NEW o \in Objs, RecordOne(s, o) PROVE SharedKey'
  BY <1>10, <1>1 DEF RecordOne, objects
<1> QED
  BY <1>2, <1>4, <1>5, <1>6, <1>7, <1>8, <1>9, <1>10 DEF Next

(* RecordChange misses no stream, provided all sessions work in one schema  *)
(* and no statement qualifies the table: every registered stream then holds *)
(* every change that a plainly written statement made since the stream was  *)
(* created, or the session that made it is still in handleDML, whatever     *)
(* misread statements run beside it.  Without the proviso, or for a         *)
(* statement whose table name is misread, the property is false.            *)
THEOREM NoStreamMissed == OneTableName => (Spec => []NoChangeMissed)
<1> SUFFICES ASSUME OneTableName PROVE Spec => []NoChangeMissed
  OBVIOUS
<1>1. Init => SharedKey
  <2> SUFFICES ASSUME Init PROVE SharedKey
    OBVIOUS
  <2>1. \A o \in Objs, k \in Schemas \X Names : streams[k] # o
    BY StreamAssumption DEF Init
  <2> QED
    BY <2>1 DEF SharedKey, Registered
<1>2. IInv /\ SharedKey /\ [Next]_vars => SharedKey'
  BY SharedKeyStep
<1>3. ASSUME IInv, SharedKey, KeyComplete PROVE NoChangeMissed
  <2> SUFFICES ASSUME NEW o \in Objs, Registered(o), NEW i \in DOMAIN log, Expected(o, log[i])
               PROVE  \/ log[i] \in Elems(changes[o])
                      \/ \E s \in Sessions : sess[s].pc \in {"done", "record"} /\ sess[s].change = log[i]
    BY DEF NoChangeMissed, Complete
  <2>1. log \in Seq(Change) /\ changes[o] \in Seq(Change)
    BY <1>3 DEF IInv, DataInv
  <2>2. i \in 1 .. Len(log) /\ log[i] \in Change /\ DOMAIN changes[o] = 1 .. Len(changes[o])
    BY <2>1, LenProperties, ElementOfSeq
  <2>3. log[i].by \in Sessions
    BY <2>2 DEF Change
  <2>4. Wants(o, log[i])
    BY <1>3, <2>3 DEF Wants, Expected, SharedKey, RecordKey
  <2>5. \/ \E j \in 1 .. Len(changes[o]) : changes[o][j] = log[i]
        \/ Pending(sess[log[i].by], o) /\ sess[log[i].by].change = log[i]
    BY <1>3, <2>2, <2>4 DEF KeyComplete
  <2> QED
    BY <2>2, <2>3, <2>5 DEF Pending, Elems
<1> QED
  BY <1>1, <1>2, <1>3, InvHolds, NoKeyMissed, PTL DEF Spec
============================================================================
