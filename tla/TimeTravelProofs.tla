------------------------- MODULE TimeTravelProofs -------------------------
(***************************************************************************)
(* Proofs about TimeTravel for any number of sessions, any retention and   *)
(* any bounds on time and writes.                                          *)
(***************************************************************************)
EXTENDS TimeTravel, TLAPS, WellFoundedInduction

(* A statement has read its timestamp and not yet listed its snapshot. *)
Capturing(s) == stmt[s].pc \in {"export", "append"}

(* Timestamps are in the past; those of pending captures are listed nowhere *)
(* and differ from each other.                                              *)
StampInv ==
    /\ \A x \in snaps : x.ts <= clock /\ x.id < nextID
    /\ \A s \in Sessions : stmt[s].ts <= clock
    /\ \A s \in Sessions : Capturing(s) => \A x \in snaps : x.ts # stmt[s].ts
    /\ \A s, r \in Sessions :
          (s # r /\ Capturing(s) /\ Capturing(r)) => stmt[s].ts # stmt[r].ts

(* The file is there before the snapshot is listed. *)
FileInv ==
    /\ SnapshotFilesExist
    /\ \A s \in Sessions : stmt[s].pc = "append" => Exists(stmt[s].ts)

(* As long as statements do not overlap, at most one is under way and what  *)
(* it is about to list is newer than everything listed.                     *)
SerialInv ==
    ~overlapped =>
      /\ \A s, r \in Sessions :
            (stmt[s].pc # "idle" /\ stmt[r].pc # "idle") => s = r
      /\ \A x, y \in snaps : x.id < y.id => x.ts < y.ts
      /\ \A s \in Sessions : Capturing(s) => \A x \in snaps : x.ts < stmt[s].ts

IInv == TypeOK /\ StampInv /\ FileInv /\ SerialInv

----------------------------------------------------------------------------
LEMMA InitInv == Init => IInv
<1> SUFFICES ASSUME Init PROVE IInv
  OBVIOUS
<1>1. 0 \in Time /\ Idle \in Statement
  BY BoundAssumption DEF Time, Idle, Statement, Busy, Ops
<1>2. TypeOK
  <2>1. files \in [Time -> Contents] /\ stmt \in [Sessions -> Statement]
    BY <1>1 DEF Init, Contents
  <2>2. clock \in Time /\ writes \in 0 .. MaxWrites /\ nextID \in Nat
    BY <1>1, BoundAssumption DEF Init
  <2>3. overlapped \in BOOLEAN
    BY DEF Init
  <2> QED
    BY <2>1, <2>2, <2>3 DEF Init, TypeOK, Contents
<1>3. StampInv /\ FileInv /\ SerialInv
  BY DEF Init, StampInv, FileInv, SnapshotFilesExist, SerialInv, Capturing, Idle
<1> QED
  BY <1>2, <1>3 DEF IInv

(* Steps that change the table and its history only. *)
LEMMA TableStep ==
    ASSUME IInv, NEW s \in Sessions,
           CreateTable(s) \/ WriteAround \/ ExecDML(s) \/ ExecDrop(s) \/ Restore(s)
    PROVE  IInv'
<1> USE DEF store, hist
<1>1. /\ UNCHANGED <<files, snaps, nextID>> /\ clock' \in Time /\ clock' >= clock
      /\ (overlapped' = FALSE => overlapped = FALSE)
      /\ \A r \in Sessions : stmt'[r] = stmt[r] \/ (stmt'[r] = Idle)
      /\ stmt' \in [Sessions -> Statement]
  <2>0. Idle \in Statement
    BY BoundAssumption DEF Idle, Statement, Busy, Ops, Time
  <2>1. clock \in Int /\ (Pass => clock' \in Time /\ clock' >= clock)
    BY BoundAssumption DEF Pass, Now, IInv, TypeOK, Time
  <2>2. clock' \in Time /\ clock' >= clock
    BY <2>1 DEF CreateTable, WriteAround, ExecDML, ExecDrop, Restore, IInv, TypeOK
  <2>3. overlapped' = FALSE => overlapped = FALSE
    BY DEF CreateTable, WriteAround, ExecDML, ExecDrop, Restore, StartStatement, Overlap,
           IInv, TypeOK
  <2>4. stmt' = stmt \/ stmt' = [stmt EXCEPT ![s] = Idle]
    BY DEF CreateTable, WriteAround, ExecDML, ExecDrop, Restore, Finish
  <2>5. UNCHANGED <<files, snaps, nextID>>
    BY DEF CreateTable, WriteAround, ExecDML, ExecDrop, Restore
  <2> QED
    BY <2>0, <2>2, <2>3, <2>4, <2>5 DEF IInv, TypeOK
<1>2. TypeOK'
  <2>1. Now \in Int /\ writes \in 0 .. MaxWrites /\ table \in Contents
    BY DEF Now, IInv, TypeOK, Time
  <2>2. writes < MaxWrites => writes + 1 \in Version /\ writes + 1 \in 0 .. MaxWrites
    BY <2>1, BoundAssumption DEF Version
  <2>3. Pass => Now \in Time
    BY BoundAssumption DEF Pass, Now, IInv, TypeOK, Time
  <2>4. \A t \in Time : files[t] \in Contents
    BY DEF IInv, TypeOK
  <2>5. stmt[s].ts \in Time
    BY DEF IInv, TypeOK, Statement
  <2>6. writes' \in 0 .. MaxWrites /\ table' \in Contents
    BY <2>1, <2>2, <2>3, <2>4, <2>5 DEF CreateTable, WriteAround, ExecDML, ExecDrop,
       Restore, Contents, IInv, TypeOK
  <2>7. dropped' \in Contents /\ lastDrop' \in {"none", "saved", "lost", "around"}
    BY <2>1 DEF CreateTable, WriteAround, ExecDML, ExecDrop, Restore, IInv, TypeOK
  <2>8. overlapped' \in BOOLEAN
    BY DEF CreateTable, WriteAround, ExecDML, ExecDrop, Restore, StartStatement, Overlap,
           IInv, TypeOK
  <2> QED
    BY <1>1, <2>6, <2>7, <2>8 DEF IInv, TypeOK
<1>3. \A r \in Sessions : stmt'[r] = stmt[r] \/ (stmt'[r].pc = "idle" /\ stmt'[r].ts = 0)
  BY <1>1 DEF Idle
<1>4. clock \in Int /\ clock' \in Int /\ 0 <= clock'
      /\ (\A r \in Sessions : stmt[r].ts \in Int) /\ \A x \in snaps : x.ts \in Int
  BY <1>1 DEF IInv, TypeOK, Statement, Time, Snapshot
<1>5. StampInv'
  BY <1>1, <1>3, <1>4 DEF IInv, StampInv, Capturing
<1>6. FileInv'
  BY <1>1, <1>3 DEF IInv, FileInv, SnapshotFilesExist, Exists
<1>7. SerialInv'
  <2>1. overlapped' \in BOOLEAN /\ overlapped \in BOOLEAN
    BY <1>2 DEF TypeOK, IInv
  <2>2. ~overlapped' => ~overlapped
    BY <1>1, <2>1
  <2> QED
    BY <1>1, <1>3, <2>2 DEF IInv, SerialInv, Capturing
<1> QED
  BY <1>2, <1>5, <1>6, <1>7 DEF IInv

(* Steps that start a statement. *)
LEMMA CaptureStep ==
    ASSUME IInv, NEW s \in Sessions, NEW op \in {"dml", "drop"}, Capture(s, op)
    PROVE  IInv'
<1> USE DEF store, hist
<1>1. /\ clock \in Int /\ clock' = clock + 1 /\ clock' \in Time
      /\ stmt' = [stmt EXCEPT ![s] = [pc |-> "export", op |-> op, ts |-> clock + 1,
                                      captured |-> FALSE]]
      /\ UNCHANGED <<files, snaps, nextID, table, writes, dropped, lastDrop>>
      /\ overlapped' = (overlapped \/ \E r \in Sessions : stmt[r].pc # "idle")
      /\ stmt[s].pc = "idle"
  BY BoundAssumption DEF Capture, StartStatement, Overlap, Pass, Now, IInv, TypeOK, Time
<1>2. [pc |-> "export", op |-> op, ts |-> clock + 1, captured |-> FALSE] \in Statement
  BY <1>1 DEF Statement, Busy, Ops
<1>3. TypeOK'
  <2>1. overlapped' \in BOOLEAN
    BY <1>1 DEF IInv, TypeOK
  <2> QED
    BY <1>1, <1>2, <2>1 DEF IInv, TypeOK
<1>4. /\ stmt'[s].pc = "export" /\ stmt'[s].ts = clock + 1
      /\ \A r \in Sessions \ {s} : stmt'[r] = stmt[r]
  BY <1>1 DEF IInv, TypeOK
<1>5. (\A r \in Sessions : stmt[r].ts \in Int) /\ \A x \in snaps : x.ts \in Int
  BY DEF IInv, TypeOK, Statement, Time, Snapshot
<1>6. StampInv'
  BY <1>1, <1>4, <1>5 DEF IInv, StampInv, Capturing
<1>7. FileInv'
  BY <1>1, <1>4 DEF IInv, FileInv, SnapshotFilesExist, Exists
<1>8. SerialInv'
  <2> SUFFICES ASSUME ~overlapped' PROVE SerialInv'
    BY DEF SerialInv
  <2>1. ~overlapped /\ \A r \in Sessions : stmt[r].pc = "idle"
    BY <1>1
  <2> QED
    BY <1>1, <1>4, <1>5, <2>1 DEF IInv, SerialInv, StampInv, Capturing
<1> QED
  BY <1>3, <1>6, <1>7, <1>8 DEF IInv

LEMMA LookupUndropStep ==
    ASSUME IInv, NEW s \in Sessions, LookupUndrop(s)
    PROVE  IInv'
<1> USE DEF store, hist
<1>1. PICK x \in snaps :
        stmt' = [stmt EXCEPT ![s] = [pc |-> "restore", op |-> "undrop", ts |-> x.ts,
                                     captured |-> FALSE]]
  BY DEF LookupUndrop
<1>2. /\ UNCHANGED <<clock, files, snaps, nextID, table, writes, dropped, lastDrop>>
      /\ overlapped' = (overlapped \/ \E r \in Sessions : stmt[r].pc # "idle")
  BY DEF LookupUndrop, StartStatement, Overlap
<1>3. x.ts \in Time /\ x.ts <= clock
  BY DEF IInv, TypeOK, Snapshot, StampInv
<1>4. TypeOK'
  <2>1. [pc |-> "restore", op |-> "undrop", ts |-> x.ts, captured |-> FALSE] \in Statement
    BY <1>3 DEF Statement, Busy, Ops
  <2>2. overlapped' \in BOOLEAN
    BY <1>2 DEF IInv, TypeOK
  <2> QED
    BY <1>1, <1>2, <2>1, <2>2 DEF IInv, TypeOK
<1>5. /\ stmt'[s].pc = "restore" /\ stmt'[s].ts = x.ts
      /\ \A r \in Sessions \ {s} : stmt'[r] = stmt[r]
  BY <1>1 DEF IInv, TypeOK
<1>6. StampInv'
  BY <1>2, <1>3, <1>5 DEF IInv, StampInv, Capturing
<1>7. FileInv'
  BY <1>2, <1>5 DEF IInv, FileInv, SnapshotFilesExist, Exists
<1>8. SerialInv'
  BY <1>2, <1>5 DEF IInv, SerialInv, Capturing
<1> QED
  BY <1>4, <1>6, <1>7, <1>8 DEF IInv

(* The two steps of CaptureSnapshot after the timestamp. *)
LEMMA ExportStep ==
    ASSUME IInv, NEW s \in Sessions, Export(s)
    PROVE  IInv'
<1> USE DEF store, hist
<1>1. /\ stmt[s].pc = "export" /\ stmt[s].ts \in Time /\ table \in Contents
      /\ UNCHANGED <<clock, snaps, nextID, table, writes, dropped, lastDrop, overlapped>>
  BY DEF Export, IInv, TypeOK, Statement
<1>2. \/ /\ table # Absent /\ files' = [files EXCEPT ![stmt[s].ts] = table]
         /\ stmt' = [stmt EXCEPT ![s].pc = "append"]
      \/ files' = files /\ stmt' = [stmt EXCEPT ![s].pc = "exec"]
  BY DEF Export
<1>3. /\ stmt' \in [Sessions -> Statement]
      /\ stmt'[s].pc \in {"append", "exec"} /\ stmt'[s].ts = stmt[s].ts
      /\ \A r \in Sessions \ {s} : stmt'[r] = stmt[r]
  BY <1>2 DEF IInv, TypeOK, Statement, Busy
<1>4. files' \in [Time -> Contents] /\ \A t \in Time : Exists(t) => Exists(t)'
  BY <1>1, <1>2 DEF IInv, TypeOK, Exists
<1>5. TypeOK'
  BY <1>1, <1>3, <1>4 DEF IInv, TypeOK
<1>6. StampInv'
  BY <1>1, <1>3 DEF IInv, StampInv, Capturing
<1>7. FileInv'
  <2>1. SnapshotFilesExist'
    BY <1>1, <1>4 DEF IInv, TypeOK, Snapshot, FileInv, SnapshotFilesExist
  <2>2. stmt'[s].pc = "append" => files'[stmt[s].ts] # Absent
    BY <1>1, <1>2, <1>3 DEF IInv, TypeOK, Statement
  <2>3. \A r \in Sessions : stmt'[r].pc = "append" => Exists(stmt[r].ts)'
    BY <1>3, <1>4, <2>2, <1>1 DEF IInv, TypeOK, Statement, FileInv, Exists
  <2> QED
    BY <1>3, <2>1, <2>3 DEF FileInv, Exists
<1>8. SerialInv'
  BY <1>1, <1>3 DEF IInv, SerialInv, Capturing
<1> QED
  BY <1>5, <1>6, <1>7, <1>8 DEF IInv

LEMMA AppendSnapshotStep ==
    ASSUME IInv, NEW s \in Sessions, AppendSnapshot(s)
    PROVE  IInv'
<1> USE DEF store, hist
<1> DEFINE new == [id |-> nextID, ts |-> stmt[s].ts]
<1>1. /\ stmt[s].pc = "append" /\ stmt[s].ts \in Time /\ nextID \in Nat
      /\ snaps' = snaps \cup {new} /\ nextID' = nextID + 1
      /\ UNCHANGED <<clock, files, table, writes, dropped, lastDrop, overlapped>>
  BY DEF AppendSnapshot, IInv, TypeOK, Statement
<1>2. /\ stmt' \in [Sessions -> Statement]
      /\ stmt'[s].pc = "exec" /\ stmt'[s].ts = stmt[s].ts
      /\ \A r \in Sessions \ {s} : stmt'[r] = stmt[r]
  BY DEF AppendSnapshot, IInv, TypeOK, Statement, Busy
<1>3. new \in Snapshot /\ new.id = nextID /\ new.ts = stmt[s].ts
  BY <1>1 DEF Snapshot
<1>4. \A x \in snaps : x.id \in Nat /\ x.ts \in Int
  BY DEF IInv, TypeOK, Snapshot, Time
<1> HIDE DEF new
<1>5. TypeOK'
  BY <1>1, <1>2, <1>3 DEF IInv, TypeOK
<1>6. StampInv'
  BY <1>1, <1>2, <1>3, <1>4 DEF IInv, StampInv, Capturing
<1>7. FileInv'
  BY <1>1, <1>2, <1>3 DEF IInv, FileInv, SnapshotFilesExist, Exists
<1>8. SerialInv'
  <2> SUFFICES ASSUME ~overlapped' PROVE SerialInv'
    BY DEF SerialInv
  <2>1. \A r \in Sessions : stmt[r].pc # "idle" => r = s
    BY <1>1 DEF IInv, SerialInv
  <2>2. \A x \in snaps : x.ts < new.ts /\ x.id < new.id
    BY <1>1, <1>3 DEF IInv, SerialInv, StampInv, Capturing
  <2>3. \A r \in Sessions : ~Capturing(r)'
    BY <1>2, <2>1 DEF Capturing
  <2>4. \A x, y \in snaps' : x.id < y.id => x.ts < y.ts
    BY <1>1, <1>3, <1>4, <2>2 DEF IInv, SerialInv
  <2> QED
    BY <1>1, <1>2, <2>1, <2>3, <2>4 DEF SerialInv
<1> QED
  BY <1>5, <1>6, <1>7, <1>8 DEF IInv

(* Cleanup deletes entries with their files; a pending capture's file has   *)
(* another timestamp.                                                       *)
LEMMA CleanupStep ==
    ASSUME IInv, Cleanup PROVE IInv'
<1> USE DEF store, hist
<1> DEFINE old == {x \in snaps : x.ts < clock - MaxAge}
<1>1. /\ snaps' = snaps \ old
      /\ files' = [t \in Time |-> IF \E x \in old : x.ts = t THEN Absent ELSE files[t]]
      /\ UNCHANGED <<clock, nextID, stmt, table, writes, dropped, lastDrop, overlapped>>
  BY DEF Cleanup
<1>2. TypeOK'
  BY <1>1 DEF IInv, TypeOK, Contents
<1>3. StampInv'
  BY <1>1 DEF IInv, StampInv, Capturing
<1>4. FileInv'
  <2>1. \A x \in snaps' : x.ts \in Time /\ ~(\E y \in old : y.ts = x.ts)
    BY <1>1 DEF IInv, TypeOK, Snapshot
  <2>2. SnapshotFilesExist'
    BY <1>1, <2>1 DEF IInv, FileInv, SnapshotFilesExist, Exists
  <2>3. \A s \in Sessions : stmt[s].pc = "append" =>
           stmt[s].ts \in Time /\ ~(\E y \in old : y.ts = stmt[s].ts)
    BY DEF IInv, TypeOK, Statement, StampInv, Capturing
  <2> HIDE DEF old
  <2>4. \A s \in Sessions : stmt[s].pc = "append" => Exists(stmt[s].ts)'
    BY <1>1, <2>3 DEF IInv, FileInv, Exists
  <2> QED
    BY <1>1, <2>2, <2>4 DEF FileInv, Exists
<1>5. SerialInv'
  BY <1>1 DEF IInv, SerialInv, Capturing
<1> QED
  BY <1>2, <1>3, <1>4, <1>5 DEF IInv

LEMMA ResetOrRestartStep ==
    ASSUME IInv, Reset \/ Restart PROVE IInv'
<1> USE DEF store, hist
<1>1. /\ snaps' = {} /\ nextID' = 1 /\ clock' = clock /\ overlapped' = overlapped
      /\ \A s \in Sessions : stmt'[s].pc = "idle"
      /\ \A s \in Sessions : stmt'[s].ts <= clock
  BY DEF Reset, Restart, Idle, IInv, TypeOK, Time, StampInv
<1>2. TypeOK'
  <2>1. Idle \in Statement
    BY BoundAssumption DEF Idle, Statement, Busy, Ops, Time
  <2>2. CASE Reset
    BY <1>1, <2>2 DEF Reset, IInv, TypeOK, Contents
  <2>3. CASE Restart
    BY <1>1, <2>1, <2>3 DEF Restart, IInv, TypeOK
  <2> QED
    BY <2>2, <2>3
<1>3. StampInv' /\ FileInv' /\ SerialInv'
  BY <1>1 DEF StampInv, FileInv, SnapshotFilesExist, SerialInv, Capturing
<1> QED
  BY <1>2, <1>3 DEF IInv

LEMMA InductiveInvariant == Spec => []IInv
<1>1. IInv /\ [Next]_vars => IInv'
  <2> SUFFICES ASSUME IInv, [Next]_vars PROVE IInv'
    OBVIOUS
  <2>1. CASE UNCHANGED vars
    BY <2>1 DEF vars, store, hist, IInv, TypeOK, StampInv, FileInv, SerialInv,
       SnapshotFilesExist, Capturing, Exists
  <2>2. CASE WriteAround
    BY <2>2, TableStep, SessionAssumption
  <2> QED
    BY <2>1, <2>2, TableStep, CaptureStep, LookupUndropStep, ExportStep,
       AppendSnapshotStep, CleanupStep, ResetOrRestartStep DEF Next
<1> QED
  BY <1>1, InitInv, PTL DEF Spec

(* The variables keep their types. *)
THEOREM TypeCorrect == Spec => []TypeOK
<1>1. IInv => TypeOK
  BY DEF IInv
<1> QED
  BY <1>1, InductiveInvariant, PTL

(* Undrop and QueryAtTimestamp never hand out the name of a file that was   *)
(* not written or was deleted by Cleanup or Reset.                          *)
THEOREM ListedFilesExist == Spec => []SnapshotFilesExist
<1>1. IInv => SnapshotFilesExist
  BY DEF IInv, FileInv
<1> QED
  BY <1>1, InductiveInvariant, PTL

(* Without overlapping statements the snapshot list is in timestamp order,  *)
(* the assumption behind the backwards scan of QueryAtTimestamp.            *)
THEOREM ListSorted == Spec => []SortedUnlessOverlap
<1>1. IInv => SortedUnlessOverlap
  BY DEF IInv, SerialInv, SortedUnlessOverlap
<1> QED
  BY <1>1, InductiveInvariant, PTL

(* No two listed snapshots have the same place. *)
IdInv == \A x, y \in snaps : x.id = y.id => x = y

LEMMA IdsUnique == Spec => []IdInv
<1>1. Init => IdInv
  BY DEF Init, IdInv
<1>2. IInv /\ IdInv /\ [Next]_vars => IdInv'
  <2> SUFFICES ASSUME IInv, IdInv, [Next]_vars PROVE IdInv'
    OBVIOUS
  <2>1. CASE \E s \in Sessions : AppendSnapshot(s)
    <3>1. PICK s \in Sessions : AppendSnapshot(s)
      BY <2>1
    <3>2. nextID \in Nat /\ \A x \in snaps : x.id \in Nat /\ x.id < nextID
      BY DEF IInv, TypeOK, StampInv, Snapshot
    <3> DEFINE new == [id |-> nextID, ts |-> stmt[s].ts]
    <3>3. snaps' = snaps \cup {new} /\ new.id = nextID
      BY <3>1 DEF AppendSnapshot
    <3> HIDE DEF new
    <3> QED
      BY <3>2, <3>3 DEF IdInv
  <2>2. CASE snaps' \subseteq snaps
    BY <2>2 DEF IdInv
  <2>3. (\E s \in Sessions : AppendSnapshot(s)) \/ snaps' \subseteq snaps
    BY DEF Next, vars, store, hist, CreateTable, WriteAround, Capture, Export,
           ExecDML, ExecDrop, LookupUndrop, Restore, Cleanup, Reset, Restart
  <2> QED
    BY <2>1, <2>2, <2>3
<1> QED
  BY <1>1, <1>2, InductiveInvariant, PTL DEF Spec

(* A set of naturals with a bound has a greatest member. *)
LEMMA GreatestExists ==
    ASSUME NEW N \in Nat, NEW T, T # {},
           \A n \in T : n \in Nat /\ n <= N
    PROVE  \E m \in T : \A n \in T : n <= m
<1> DEFINE D == {N - n : n \in T}
<1>1. D \subseteq Nat /\ D # {}
  <2>1. ASSUME NEW d \in D PROVE d \in Nat
    <3>1. PICK n \in T : d = N - n
      OBVIOUS
    <3>2. n \in Nat /\ n <= N
      OBVIOUS
    <3> HIDE DEF D
    <3> QED
      BY <3>1, <3>2
  <2>2. PICK n \in T : TRUE
    OBVIOUS
  <2>3. N - n \in D
    OBVIOUS
  <2> QED
    BY <2>1, <2>3
<1>2. PICK d \in D : \A e \in D : ~(<<e, d>> \in OpToRel(<, Nat))
  <2> HIDE DEF D
  <2> QED
    BY <1>1, NatLessThanWellFounded, WFMin
<1>3. \A e \in D : d <= e
  <2>1. \A a, b \in Nat : a < b => <<a, b>> \in OpToRel(<, Nat)
    BY DEF OpToRel
  <2> HIDE DEF D
  <2>2. ASSUME NEW e \in D PROVE ~(e < d)
    BY <1>1, <1>2, <2>1
  <2>3. D \subseteq Int
    BY <1>1
  <2> QED
    BY <2>2, <2>3
<1>4. PICK m \in T : d = N - m
  OBVIOUS
<1>5. ASSUME NEW n \in T PROVE n <= m
  <2>1. N - m <= N - n
    BY <1>3, <1>4
  <2>2. n \in Nat /\ m \in Nat
    OBVIOUS
  <2> QED
    BY <2>1, <2>2
<1> QED
  BY <1>5

(* What QueryAtTimestamp returns is the closest snapshot, not after the     *)
(* given time, unless statements overlapped.  The scan looks at positions;  *)
(* in a sorted list the last position has the greatest timestamp.           *)
THEOREM ClosestFound == Spec => []ClosestUnlessOverlap
<1>1. IInv /\ IdInv => ClosestUnlessOverlap
  <2> SUFFICES ASSUME IInv, IdInv, ~overlapped, NEW ts \in 0 .. clock
               PROVE  /\ QueryAtTimestamp(ts) <= ts
                      /\ \A x \in snaps : x.ts <= ts => x.ts <= QueryAtTimestamp(ts)
    BY DEF ClosestUnlessOverlap
  <2> DEFINE ok == {x \in snaps : x.ts <= ts}
  <2>1. snaps \subseteq Snapshot /\ clock \in Nat /\ MaxTime \in Nat
    BY BoundAssumption DEF IInv, TypeOK, Time
  <2>2. \A x \in ok : x.ts \in 0 .. MaxTime /\ x.id \in Nat
    BY <2>1 DEF Snapshot, Time
  <2>3. \A x, y \in ok : x.id < y.id => x.ts < y.ts
    BY DEF IInv, SerialInv
  <2>4. CASE ok = {}
    BY <2>1, <2>4 DEF QueryAtTimestamp
  <2>5. CASE ok # {}
    <3>1. PICK x \in ok : \A y \in ok : y.ts <= x.ts
      <4> DEFINE T == {y.ts : y \in ok}
      <4>1. (\A n \in T : n \in Nat /\ n <= MaxTime) /\ T # {}
        BY <2>2, <2>5
      <4>2. PICK m \in T : \A n \in T : n <= m
        BY <2>1, <4>1, GreatestExists
      <4> QED
        BY <4>2
    <3>2. IsLast(x, ok)
      BY <2>2, <2>3, <3>1 DEF IsLast
    <3> DEFINE best == CHOOSE y \in ok : IsLast(y, ok)
    <3>3. best \in ok /\ IsLast(best, ok)
      BY <3>2
    <3>4. QueryAtTimestamp(ts) = best.ts
      BY <2>5 DEF QueryAtTimestamp
    <3>5. ASSUME NEW y \in ok PROVE y.ts <= best.ts
      <4>1. y.id <= best.id
        BY <3>3 DEF IsLast
      <4> QED
        BY <2>2, <2>3, <3>3, <4>1 DEF IdInv
    <3>6. best.ts <= ts
      BY <3>3
    <3> HIDE DEF best
    <3> QED
      BY <3>4, <3>5, <3>6
  <2> QED
    BY <2>4, <2>5
<1> QED
  BY <1>1, InductiveInvariant, IdsUnique, PTL

----------------------------------------------------------------------------
(* Every snapshot that ends the list was taken of what c holds. *)
LastHolds(c) == \A x \in snaps : IsLast(x, snaps) => files[x.ts] = c

(* As long as statements do not overlap: nothing touches the table between  *)
(* the export and the statement it is made for, so that a DROP TABLE leaves *)
(* what it removed in the last listed file, and as long as the table is     *)
(* gone nothing can be exported after it.                                   *)
DropInv ==
    ~overlapped =>
      /\ (table = Absent /\ lastDrop = "saved") => LastHolds(dropped)
      /\ \A s \in Sessions :
            /\ stmt[s].pc = "export" => ~stmt[s].captured
            /\ stmt[s].pc = "append" => table # Absent /\ files[stmt[s].ts] = table
            /\ (stmt[s].pc = "exec" /\ stmt[s].captured) => LastHolds(table)
            /\ (stmt[s].pc = "restore" /\ table = Absent /\ lastDrop = "saved")
                  => files[stmt[s].ts] \in {dropped, Absent}

(* Without overlap a statement that starts finds all others idle. *)
LEMMA OverlapAlone ==
    ASSUME IInv, Overlap, ~overlapped'
    PROVE  ~overlapped /\ \A r \in Sessions : stmt[r].pc = "idle"
  BY DEF Overlap

LEMMA TableDrop ==
    ASSUME IInv, DropInv, NEW s \in Sessions,
           CreateTable(s) \/ WriteAround \/ ExecDML(s) \/ ExecDrop(s) \/ Restore(s)
    PROVE  DropInv'
<1> SUFFICES ASSUME ~overlapped' PROVE DropInv'
  BY DEF DropInv
<1>1. UNCHANGED <<files, snaps>>
  BY DEF CreateTable, WriteAround, ExecDML, ExecDrop, Restore, store
<1>2. ~overlapped /\ \A r \in Sessions : stmt'[r].pc = "idle"
  <2>1. CASE CreateTable(s) \/ WriteAround
    BY <2>1, OverlapAlone DEF CreateTable, WriteAround, StartStatement
  <2>2. CASE ExecDML(s) \/ ExecDrop(s) \/ Restore(s)
    <3>1. ~overlapped /\ stmt[s].pc # "idle" /\ stmt' = [stmt EXCEPT ![s] = Idle]
      BY <2>2 DEF ExecDML, ExecDrop, Restore, Finish
    <3>2. \A r \in Sessions : r # s => stmt[r].pc = "idle"
      BY <3>1 DEF IInv, SerialInv
    <3>3. stmt'[s].pc = "idle" /\ \A r \in Sessions : r # s => stmt'[r] = stmt[r]
      BY <3>1 DEF IInv, TypeOK, Idle
    <3> QED
      BY <3>1, <3>2, <3>3
  <2> QED
    BY <2>1, <2>2
<1>3. \A c : LastHolds(c)' <=> LastHolds(c)
  BY <1>1 DEF LastHolds
<1>4. (table' = Absent /\ lastDrop' = "saved") => LastHolds(dropped')
  <2> SUFFICES ASSUME table' = Absent, lastDrop' = "saved" PROVE LastHolds(dropped')
    OBVIOUS
  <2>1. writes + 1 # Absent
    BY AbsentAssumption DEF IInv, TypeOK
  <2>2. ~CreateTable(s) /\ ~WriteAround
    BY <2>1 DEF CreateTable, WriteAround
  <2>3. CASE ExecDML(s) \/ Restore(s)
    <3>1. table = Absent /\ UNCHANGED <<dropped, lastDrop>>
      BY <2>3, <2>1 DEF ExecDML, Restore, Exists
    <3> QED
      BY <3>1, <1>2 DEF DropInv
  <2>4. CASE ExecDrop(s)
    <3>1. CASE table # Absent
      <4>1. dropped' = table /\ stmt[s].captured /\ stmt[s].pc = "exec"
        BY <2>4, <3>1 DEF ExecDrop
      <4> QED
        BY <4>1, <1>2 DEF DropInv
    <3>2. CASE table = Absent
      <4>1. UNCHANGED <<dropped, lastDrop>>
        BY <2>4, <3>2 DEF ExecDrop, hist
      <4> QED
        BY <4>1, <3>2, <1>2 DEF DropInv
    <3> QED
      BY <3>1, <3>2
  <2> QED
    BY <2>2, <2>3, <2>4
<1> QED
  BY <1>1, <1>2, <1>4 DEF DropInv, LastHolds

LEMMA CaptureDrop ==
    ASSUME IInv, DropInv, NEW s \in Sessions, NEW op \in {"dml", "drop"}, Capture(s, op)
    PROVE  DropInv'
<1> SUFFICES ASSUME ~overlapped' PROVE DropInv'
  BY DEF DropInv
<1>1. ~overlapped /\ \A r \in Sessions : stmt[r].pc = "idle"
  BY OverlapAlone DEF Capture, StartStatement
<1>2. UNCHANGED <<table, files, snaps, dropped, lastDrop>>
  BY DEF Capture, store, hist
<1>3. /\ stmt'[s].pc = "export" /\ ~stmt'[s].captured
      /\ \A r \in Sessions : r # s => stmt'[r].pc = "idle"
  BY <1>1 DEF Capture, IInv, TypeOK
<1> QED
  BY <1>1, <1>2, <1>3 DEF DropInv, LastHolds

LEMMA LookupDrop ==
    ASSUME IInv, DropInv, NEW s \in Sessions, LookupUndrop(s)
    PROVE  DropInv'
<1> SUFFICES ASSUME ~overlapped' PROVE DropInv'
  BY DEF DropInv
<1>1. ~overlapped /\ \A r \in Sessions : stmt[r].pc = "idle"
  BY OverlapAlone DEF LookupUndrop, StartStatement
<1>2. UNCHANGED <<table, files, snaps, dropped, lastDrop>>
  BY DEF LookupUndrop, store, hist
<1>3. PICK x \in snaps :
        /\ IsLast(x, snaps)
        /\ stmt' = [stmt EXCEPT ![s] = [pc |-> "restore", op |-> "undrop", ts |-> x.ts,
                                        captured |-> FALSE]]
  BY DEF LookupUndrop
<1>4. /\ stmt'[s].pc = "restore" /\ stmt'[s].ts = x.ts
      /\ \A r \in Sessions : r # s => stmt'[r].pc = "idle"
  BY <1>1, <1>3 DEF IInv, TypeOK
<1> QED
  BY <1>1, <1>2, <1>3, <1>4 DEF DropInv, LastHolds

(* The export goes to a file that no listed snapshot has. *)
LEMMA ExportDrop ==
    ASSUME IInv, DropInv, NEW s \in Sessions, Export(s)
    PROVE  DropInv'
<1> SUFFICES ASSUME ~overlapped' PROVE DropInv'
  BY DEF DropInv
<1>1. /\ ~overlapped /\ stmt[s].pc = "export" /\ stmt[s].ts \in Time /\ ~stmt[s].captured
      /\ \A r \in Sessions : r # s => stmt[r].pc = "idle"
      /\ UNCHANGED <<table, snaps, dropped, lastDrop>>
  BY DEF Export, IInv, TypeOK, Statement, SerialInv, DropInv, hist
<1>2. /\ \A r \in Sessions : r # s => stmt'[r].pc = "idle"
      /\ stmt'[s].pc \in {"append", "exec"} /\ stmt'[s].ts = stmt[s].ts /\ ~stmt'[s].captured
      /\ stmt'[s].pc = "append" => table # Absent /\ files' = [files EXCEPT ![stmt[s].ts] = table]
      /\ files' = files \/ files' = [files EXCEPT ![stmt[s].ts] = table]
  BY <1>1 DEF Export, IInv, TypeOK, Statement
<1>3. \A x \in snaps : files'[x.ts] = files[x.ts]
  BY <1>1, <1>2 DEF IInv, TypeOK, Snapshot, StampInv, Capturing
<1>4. \A c : LastHolds(c) => LastHolds(c)'
  BY <1>1, <1>3 DEF LastHolds
<1>5. stmt'[s].pc = "append" => files'[stmt'[s].ts] = table
  BY <1>1, <1>2 DEF IInv, TypeOK
<1>6. (table' = Absent /\ lastDrop' = "saved") => LastHolds(dropped)'
  BY <1>1, <1>3 DEF DropInv, LastHolds
<1> QED
  BY <1>1, <1>2, <1>5, <1>6 DEF DropInv

(* The new snapshot is the last of the list, and holds the table. *)
LEMMA AppendDrop ==
    ASSUME IInv, DropInv, NEW s \in Sessions, AppendSnapshot(s)
    PROVE  DropInv'
<1> SUFFICES ASSUME ~overlapped' PROVE DropInv'
  BY DEF DropInv
<1> DEFINE new == [id |-> nextID, ts |-> stmt[s].ts]
<1>1. /\ ~overlapped /\ stmt[s].pc = "append" /\ table # Absent /\ files[stmt[s].ts] = table
      /\ \A r \in Sessions : r # s => stmt[r].pc = "idle"
      /\ UNCHANGED <<table, files, dropped, lastDrop>>
      /\ snaps' = snaps \cup {new}
  BY DEF AppendSnapshot, IInv, SerialInv, DropInv, hist
<1>2. stmt'[s].pc = "exec" /\ \A r \in Sessions : r # s => stmt'[r].pc = "idle"
  BY <1>1 DEF AppendSnapshot, IInv, TypeOK, Statement
<1>3. new.id = nextID /\ new.ts = stmt[s].ts
  OBVIOUS
<1>4. nextID \in Nat /\ \A x \in snaps : x.id \in Nat /\ x.id < nextID
  BY DEF IInv, TypeOK, StampInv, Snapshot
<1> HIDE DEF new
<1>5. \A x \in snaps' : IsLast(x, snaps') => x = new
  BY <1>1, <1>3, <1>4 DEF IsLast
<1>6. LastHolds(table)'
  BY <1>1, <1>3, <1>5 DEF LastHolds
<1> QED
  BY <1>1, <1>2, <1>6 DEF DropInv

(* In a sorted list Cleanup keeps the last snapshot if it keeps any. *)
LEMMA CleanupDrop ==
    ASSUME IInv, DropInv, Cleanup
    PROVE  DropInv'
<1> SUFFICES ASSUME ~overlapped' PROVE DropInv'
  BY DEF DropInv
<1> DEFINE old == {x \in snaps : x.ts < clock - MaxAge}
<1>1. /\ snaps' = snaps \ old
      /\ files' = [t \in Time |-> IF \E x \in old : x.ts = t THEN Absent ELSE files[t]]
      /\ UNCHANGED <<stmt, table, dropped, lastDrop>> /\ ~overlapped
  BY DEF Cleanup, hist
<1>2. \A x \in snaps : x.id \in Nat /\ x.ts \in Int /\ x.ts \in Time
  BY DEF IInv, TypeOK, Snapshot, Time
<1>3. clock - MaxAge \in Int
  BY BoundAssumption DEF IInv, TypeOK, Time
<1>4. \A x \in snaps' : files'[x.ts] = files[x.ts]
  BY <1>1, <1>2
<1>5. ASSUME NEW x \in snaps', IsLast(x, snaps') PROVE IsLast(x, snaps)
  <2> SUFFICES ASSUME NEW y \in snaps, ~(y.id <= x.id) PROVE FALSE
    BY <1>1 DEF IsLast
  <2>0. x \in snaps /\ ~(x.ts < clock - MaxAge)
    BY <1>1
  <2>1. x.id < y.id
    BY <1>2, <2>0
  <2>2. x.ts < y.ts
    BY <2>0, <2>1, <1>1 DEF IInv, SerialInv
  <2>3. ~(y.ts < clock - MaxAge)
    BY <2>0, <2>2, <1>2, <1>3
  <2>4. y \in snaps'
    BY <2>3, <1>1
  <2> QED
    BY <2>4, <1>5 DEF IsLast
<1>6. ASSUME NEW c, LastHolds(c) PROVE \A x \in snaps' : IsLast(x, snaps') => files'[x.ts] = c
  BY <1>1, <1>4, <1>5, <1>6 DEF LastHolds
<1>7. \A s \in Sessions : stmt[s].ts \in Time /\ files'[stmt[s].ts] \in {files[stmt[s].ts], Absent}
  BY <1>1 DEF IInv, TypeOK, Statement
<1>8. \A s \in Sessions : stmt[s].pc = "append" => files'[stmt[s].ts] = files[stmt[s].ts]
  BY <1>1, <1>7 DEF IInv, StampInv, Capturing
<1> HIDE DEF old
<1>9. (table' = Absent /\ lastDrop' = "saved") => LastHolds(dropped)'
  BY <1>1, <1>6 DEF DropInv, LastHolds
<1>10. \A s \in Sessions : (stmt'[s].pc = "exec" /\ stmt'[s].captured) => LastHolds(table)'
  BY <1>1, <1>6 DEF DropInv, LastHolds
<1> QED
  BY <1>1, <1>7, <1>8, <1>9, <1>10 DEF DropInv

LEMMA ResetOrRestartDrop ==
    ASSUME IInv, DropInv, Reset \/ Restart
    PROVE  DropInv'
<1>1. snaps' = {} /\ \A s \in Sessions : stmt'[s].pc = "idle"
  BY DEF Reset, Restart, Idle
<1> QED
  BY <1>1 DEF DropInv, LastHolds

LEMMA DropSafe == Spec => []DropInv
<1>1. Init => DropInv
  BY DEF Init, DropInv, Idle
<1>2. IInv /\ DropInv /\ [Next]_vars => DropInv'
  <2> SUFFICES ASSUME IInv, DropInv, [Next]_vars PROVE DropInv'
    OBVIOUS
  <2>1. CASE UNCHANGED vars
    BY <2>1 DEF vars, store, hist, DropInv, LastHolds
  <2>2. CASE WriteAround
    BY <2>2, TableDrop, SessionAssumption
  <2> QED
    BY <2>1, <2>2, TableDrop, CaptureDrop, LookupDrop, ExportDrop, AppendDrop, CleanupDrop,
       ResetOrRestartDrop DEF Next
<1> QED
  BY <1>1, <1>2, InductiveInvariant, PTL DEF Spec

(* UNDROP TABLE takes the last snapshot of the list, whoever made it: as    *)
(* long as statements do not overlap it is the one of the last DROP TABLE,  *)
(* through failed statements, cleanups, resets and restarts.                *)
THEOREM UndropFaithful == Spec => UndropRestoresDropped
<1>1. ASSUME IInv, DropInv, [Next]_vars, NEW s \in Sessions,
             stmt[s].pc = "restore", table = Absent, table' # Absent,
             stmt'[s].pc = "idle", ~overlapped, lastDrop = "saved"
      PROVE  table' = dropped
  <2>1. files[stmt[s].ts] \in {dropped, Absent}
    BY <1>1 DEF DropInv
  <2>2. \A r \in Sessions : stmt[r].pc # "idle" => r = s
    BY <1>1 DEF IInv, SerialInv
  <2>3. CASE Restore(s)
    BY <1>1, <2>1, <2>3 DEF Restore, Exists
  <2>4. CASE \E r \in Sessions : CreateTable(r)
    <3>1. PICK r \in Sessions : stmt' = stmt
      BY <2>4 DEF CreateTable
    <3> QED
      BY <3>1, <1>1
  <2>5. ASSUME NEW r \in Sessions, Restore(r) PROVE r = s
    BY <2>2, <2>5 DEF Restore
  <2>6. ~\E r \in Sessions : ExecDML(r) \/ ExecDrop(r)
    BY <1>1, <2>2 DEF ExecDML, ExecDrop
  <2>7. ASSUME ~\E r \in Sessions : CreateTable(r) \/ ExecDML(r) \/ ExecDrop(r) \/ Restore(r),
               ~WriteAround
        PROVE  table' = table \/ table' = Absent
    BY <1>1, <2>7 DEF Next, vars, Capture, Export, AppendSnapshot, LookupUndrop, Cleanup, Reset, Restart
  <2>8. ~WriteAround
    BY <1>1 DEF WriteAround
  <2> QED
    BY <1>1, <2>3, <2>4, <2>5, <2>6, <2>7, <2>8
<1>2. IInv /\ DropInv /\ [Next]_vars =>
        [\A s \in Sessions :
           (stmt[s].pc = "restore" /\ table = Absent /\ table' # Absent
              /\ stmt'[s].pc = "idle" /\ ~overlapped /\ lastDrop = "saved")
             => table' = dropped]_vars
  BY <1>1
<1> QED
  BY <1>2, InductiveInvariant, DropSafe, PTL DEF Spec, UndropRestoresDropped
============================================================================
