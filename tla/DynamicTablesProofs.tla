------------------------ MODULE DynamicTablesProofs ------------------------
(***************************************************************************)
(* For every number of goroutines and callers: no refresh goroutine is     *)
(* forgotten, and refreshes that do not overlap leave the result of the    *)
(* table's query in it once.                                               *)
(***************************************************************************)
EXTENDS DynamicTables, TLAPS

(* Channels: only goroutines that were started have one, and only a table *)
(* that has an entry does.                                                *)
ChannelInv ==
    /\ LoopTracked
    /\ entry = None => stopCh = None
    /\ \A g \in Loops : pc[g] = "unused" => g \notin closed /\ stopCh # g

(* Rows: without overlaps one refresh is at work at most, with the query of *)
(* the entry, and the rows are between the old state and the new.           *)
RowsInv ==
    ~overlap =>
        /\ entry # None => rows \in {<< >>, <<entry>>}
        /\ \A x \in Actors : Busy(x) => plan[x] = entry /\ entry # None
        /\ \A x, y \in Actors : Busy(x) /\ Busy(y) => x = y
        /\ \A x \in Actors : pc[x] = "insert" => rows = << >>

IInv == TypeOK /\ ChannelInv /\ RowsInv

(* The initial state satisfies the invariant. *)
LEMMA InitIInv == Init => IInv
<1> SUFFICES ASSUME Init PROVE IInv
  OBVIOUS
<1>1. overlap \in BOOLEAN
  BY Zenon DEF Init
<1>2. pc \in [Actors -> Places] /\ \A x \in Actors : ~Busy(x)
  BY DEF Init, Places, Actors, Busy, Working
<1>3. created \in 0 .. MaxQuery
  BY ActorAssumption DEF Init
<1>4. plan \in [Actors -> Queries \cup {None}]
  BY DEF Init
<1>5. rows \in Seq(Queries) \cup {None} /\ entry \in Queries \cup {None}
      /\ stopCh \in Loops \cup {None} /\ closed \subseteq Loops
  BY DEF Init
<1>6. TypeOK
  BY <1>1, <1>2, <1>3, <1>4, <1>5, Zenon DEF TypeOK
<1>7. ChannelInv
  BY NoneAssumption DEF Init, ChannelInv, LoopTracked, Actors
<1>8. RowsInv
  BY <1>2 DEF Init, RowsInv, Actors
<1> QED BY <1>6, <1>7, <1>8 DEF IInv

(* Rows are sequences of queries. *)
LEMMA EmptyQueries == << >> \in Seq(Queries)
  OBVIOUS

LEMMA AppendQuery ==
    ASSUME rows \in Seq(Queries) \cup {None}, rows # None, NEW q \in Queries
    PROVE  Append(rows, q) \in Seq(Queries) \cup {None}
<1>1. rows \in Seq(Queries)
  OBVIOUS
<1>2. Append(rows, q) \in Seq(Queries)
  BY <1>1
<1> QED BY <1>2

(* The history variable stays Boolean. *)
LEMMA OverlapType ==
    ASSUME TypeOK, [Next]_vars
    PROVE  overlap' \in BOOLEAN
<1>1. CASE UNCHANGED overlap
  BY <1>1 DEF TypeOK
<1>2. CASE overlap' = (overlap \/ \E x \in Actors : Busy(x))
  BY <1>2, Zenon DEF TypeOK
<1>3. UNCHANGED overlap \/ overlap' = (overlap \/ \E x \in Actors : Busy(x))
  BY DEF Next, vars, Create, Drop, DDL, Start, Stop, LoopCheck, LoopStop, LoopFire, Call,
         Refresh, Lookup, Delete, Insert, Stamp
<1> QED BY <1>1, <1>2, <1>3

(* Every step keeps the types. *)
LEMMA StepType == TypeOK /\ [Next]_vars => TypeOK'
<1> SUFFICES ASSUME TypeOK, [Next]_vars PROVE TypeOK'
  OBVIOUS
<1>0. overlap' \in BOOLEAN
  BY OverlapType
<1> USE <1>0, ActorAssumption, NoneAssumption
    DEF TypeOK, Goto, Actors, Busy, Working, Places, Queries, Rest
<1>1. CASE UNCHANGED vars
  BY <1>1 DEF vars
<1>2. ASSUME NEW g \in Loops, Create(g) PROVE TypeOK'
  <2>1. created' \in Queries
    BY <1>2 DEF Create
  <2>2. rows' \in Seq(Queries)
    BY <1>2, <2>1 DEF Create
  <2> QED BY <1>2, <2>1, <2>2 DEF Create, Spawn
<1>3. ASSUME NEW g \in Loops, Start(g) PROVE TypeOK'
  BY <1>3 DEF Start, Spawn
<1>4. ASSUME NEW g \in Loops, LoopCheck(g) \/ LoopStop(g) \/ LoopFire(g) PROVE TypeOK'
  BY <1>4 DEF LoopCheck, LoopStop, LoopFire
<1>5. CASE Drop
  BY <1>5 DEF Drop, CloseChannel
<1>6. CASE Stop
  BY <1>6 DEF Stop, CloseChannel
<1>7. ASSUME NEW c \in Callers, Call(c) PROVE TypeOK'
  BY <1>7 DEF Call
<1>8. ASSUME NEW x \in Actors, Lookup(x) PROVE TypeOK'
  <2>1. CASE entry = None
    BY <1>8, <2>1 DEF Lookup
  <2>2. CASE entry # None
    <3>1. /\ pc' = [pc EXCEPT ![x] = "delete"] /\ plan' = [plan EXCEPT ![x] = entry]
          /\ UNCHANGED <<entry, stopCh, closed, rows, created>>
      BY <1>8, <2>2 DEF Lookup
    <3>2. pc' \in [Actors -> Places] /\ plan' \in [Actors -> Queries \cup {None}]
      BY <3>1
    <3>3. \A y \in Actors : Busy(y)' => plan'[y] # None
      BY <3>1, <2>2
    <3> QED BY <3>1, <3>2, <3>3
  <2> QED BY <2>1, <2>2
<1>9. ASSUME NEW x \in Actors, Delete(x) PROVE TypeOK'
  <2>0. << >> \in Seq(Queries)
    BY EmptyQueries
  <2>1. rows' \in Seq(Queries) \cup {None}
    BY <1>9, <2>0, Zenon DEF Delete
  <2> QED BY <1>9, <2>1 DEF Delete
<1>10. ASSUME NEW x \in Actors, Insert(x) PROVE TypeOK'
  <2>0. plan[x] \in Queries
    BY <1>10 DEF Insert
  <2>1. rows' \in Seq(Queries) \cup {None}
    <3>1. CASE rows # None /\ rows' = Append(rows, plan[x])
      BY <3>1, <2>0, AppendQuery
    <3>2. CASE UNCHANGED rows
      BY <3>2
    <3> QED BY <1>10, <3>1, <3>2 DEF Insert
  <2> QED BY <1>10, <2>1 DEF Insert
<1>11. ASSUME NEW x \in Actors, Stamp(x) PROVE TypeOK'
  BY <1>11 DEF Stamp
<1> QED
  BY <1>1, <1>2, <1>3, <1>4, <1>5, <1>6, <1>7, <1>8, <1>9, <1>10, <1>11 DEF Next, Refresh

(* Every step keeps track of the goroutines. *)
LEMMA StepChannel == TypeOK /\ ChannelInv /\ [Next]_vars => ChannelInv'
<1> SUFFICES ASSUME TypeOK, ChannelInv, [Next]_vars PROVE ChannelInv'
  OBVIOUS
<1> USE ActorAssumption, NoneAssumption
    DEF TypeOK, ChannelInv, LoopTracked, Goto, Actors, Rest
<1>1. CASE UNCHANGED vars
  BY <1>1 DEF vars
<1>2. ASSUME NEW g \in Loops, Create(g) \/ Start(g) PROVE ChannelInv'
  \* No other goroutine is running unasked: an entry came with its channel.
  <2>1. stopCh' = g /\ pc' = [pc EXCEPT ![g] = "check"] /\ closed' = closed /\ pc[g] = "unused"
    BY <1>2 DEF Create, Start, Spawn
  <2>2. ASSUME NEW h \in Loops, h # g, pc[h] \notin {"unused", "exited"}, h \notin closed
        PROVE  FALSE
    BY <1>2, <2>2 DEF Create, Start
  <2>3. entry' # None
    <3>1. created + 1 \in Nat
      OBVIOUS
    <3> QED BY <1>2, <3>1 DEF Create, Start
  <2> QED BY <2>1, <2>2, <2>3
<1>3. ASSUME NEW g \in Loops, LoopCheck(g) \/ LoopStop(g) \/ LoopFire(g) PROVE ChannelInv'
  BY <1>3 DEF LoopCheck, LoopStop, LoopFire
<1>4. CASE Drop \/ Stop
  BY <1>4 DEF Drop, Stop, CloseChannel
<1>5. ASSUME NEW c \in Callers, Call(c) PROVE ChannelInv'
  BY <1>5 DEF Call
<1>6. ASSUME NEW x \in Actors, Refresh(x) PROVE ChannelInv'
  BY <1>6 DEF Refresh, Lookup, Delete, Insert, Stamp
<1> QED BY <1>1, <1>2, <1>3, <1>4, <1>5, <1>6 DEF Next

(* Every step keeps the rows. *)
LEMMA StepRows == TypeOK /\ RowsInv /\ [Next]_vars => RowsInv'
<1> SUFFICES ASSUME TypeOK, RowsInv, [Next]_vars, ~overlap' PROVE RowsInv'
  BY DEF RowsInv
<1>0. ~overlap
  BY DEF Next, vars, Create, Drop, DDL, Start, Stop, LoopCheck, LoopStop, LoopFire, Call,
         Refresh, Lookup, Delete, Insert, Stamp
<1>i. /\ entry # None => rows \in {<< >>, <<entry>>}
      /\ \A x \in Actors : Busy(x) => plan[x] = entry /\ entry # None
      /\ \A x, y \in Actors : Busy(x) /\ Busy(y) => x = y
      /\ \A x \in Actors : pc[x] = "insert" => rows = << >>
  BY <1>0 DEF RowsInv
<1>t. pc \in [Actors -> Places] /\ plan \in [Actors -> Queries \cup {None}]
  BY DEF TypeOK
\* A step that neither touches the data nor starts a refresh keeps them.
<1>q. ASSUME UNCHANGED <<entry, rows, plan>>,
             \A x \in Actors : pc'[x] \in Working => pc'[x] = pc[x]
      PROVE  RowsInv'
  BY <1>i, <1>q DEF RowsInv, Busy, Working
<1> USE <1>t DEF Goto
<1>1. CASE UNCHANGED vars
  BY <1>1, <1>q DEF vars
<1>2. ASSUME NEW g \in Loops, Create(g) PROVE RowsInv'
  <2>1. \A x \in Actors : ~Busy(x)
    BY <1>2, <1>0 DEF Create, DDL
  <2>2. entry' = created' /\ rows' = <<entry'>> /\ pc' = [pc EXCEPT ![g] = "check"]
    BY <1>2 DEF Create, Spawn
  <2>3. \A x \in Actors : ~Busy(x)'
    BY <2>1, <2>2 DEF Busy, Working, Actors
  <2>4. \A x \in Actors : pc'[x] # "insert"
    BY <2>3 DEF Busy, Working
  <2> QED BY <2>2, <2>3, <2>4 DEF RowsInv
<1>3. ASSUME NEW g \in Loops, Start(g) \/ LoopCheck(g) \/ LoopStop(g) \/ LoopFire(g) PROVE RowsInv'
  <2>1. UNCHANGED <<entry, rows, plan>>
    BY <1>3 DEF Start, LoopCheck, LoopStop, LoopFire
  <2>2. \E l \in {"check", "exited", "wait", "lookup"} : pc' = [pc EXCEPT ![g] = l]
    BY <1>3 DEF Start, Spawn, LoopCheck, LoopStop, LoopFire
  <2> QED BY <2>1, <2>2, <1>q DEF Working
<1>4. CASE Drop
  <2>1. \A x \in Actors : ~Busy(x)
    BY <1>4, <1>0 DEF Drop, DDL
  <2>2. UNCHANGED <<pc, plan>> /\ (entry' = None \/ UNCHANGED <<entry, rows>>)
    BY <1>4 DEF Drop
  <2>3. \A x \in Actors : ~Busy(x)' /\ pc'[x] # "insert"
    BY <2>1, <2>2 DEF Busy, Working
  <2> QED BY <2>2, <2>3, <1>i DEF RowsInv
<1>5. CASE Stop
  BY <1>5, <1>q DEF Stop
<1>6. ASSUME NEW c \in Callers, Call(c) PROVE RowsInv'
  BY <1>6, <1>q DEF Call, Working
<1>7. ASSUME NEW x \in Actors, Lookup(x) PROVE RowsInv'
  <2>1. CASE entry = None
    <3>1. UNCHANGED <<entry, rows, plan>> /\ pc' = [pc EXCEPT ![x] = Rest(x)]
      BY <1>7, <2>1 DEF Lookup
    <3> QED BY <3>1, <1>q DEF Working, Rest
  <2>2. CASE entry # None
    <3>1. /\ pc' = [pc EXCEPT ![x] = "delete"] /\ plan' = [plan EXCEPT ![x] = entry]
          /\ UNCHANGED <<entry, rows>>
      BY <1>7, <2>2 DEF Lookup
    <3>2. \A y \in Actors : ~Busy(y)
      BY <1>7, <2>2 DEF Lookup
    <3>3. \A y \in Actors : (Busy(y)' => y = x) /\ pc'[y] # "insert"
      BY <3>1, <3>2 DEF Busy, Working
    <3>4. plan'[x] = entry' /\ entry' # None
      BY <3>1, <2>2
    <3>5. entry' # None => rows' \in {<< >>, <<entry'>>}
      BY <3>1, <1>i
    <3> QED BY <3>3, <3>4, <3>5 DEF RowsInv
  <2> QED BY <2>1, <2>2
<1>8. ASSUME NEW x \in Actors, Delete(x) PROVE RowsInv'
  <2>1. CASE UNCHANGED rows /\ Goto(x, Rest(x))
    BY <1>8, <2>1, <1>q DEF Delete, Working, Rest
  <2>2. CASE rows' = << >> /\ Goto(x, "insert")
    <3>1. UNCHANGED <<entry, plan>>
      BY <1>8 DEF Delete
    <3>2. \A y \in Actors : Busy(y)' = Busy(y)
      BY <1>8, <2>2 DEF Delete, Busy, Working
    <3> QED BY <2>2, <3>1, <3>2, <1>i DEF RowsInv
  <2> QED BY <1>8, <2>1, <2>2 DEF Delete
<1>9. ASSUME NEW x \in Actors, Insert(x) PROVE RowsInv'
  <2>1. CASE UNCHANGED rows /\ Goto(x, Rest(x))
    BY <1>9, <2>1, <1>q DEF Insert, Working, Rest
  <2>2. CASE rows' = Append(rows, plan[x]) /\ Goto(x, "stamp")
    <3>1. UNCHANGED <<entry, plan>> /\ pc[x] = "insert"
      BY <1>9 DEF Insert
    <3>2. Busy(x) /\ rows = << >> /\ plan[x] = entry
      BY <3>1, <1>i DEF Busy, Working
    <3>3. rows' = <<entry'>>
      BY <2>2, <3>1, <3>2
    <3>4. \A y \in Actors : (Busy(y)' <=> Busy(y)) /\ (Busy(y) => y = x)
      BY <3>1, <3>2, <2>2, <1>i DEF Busy, Working
    <3>5. \A y \in Actors : pc'[y] # "insert"
      BY <2>2, <3>4 DEF Busy, Working
    <3> QED BY <3>1, <3>3, <3>4, <3>5, <1>i DEF RowsInv
  <2> QED BY <1>9, <2>1, <2>2 DEF Insert
<1>10. ASSUME NEW x \in Actors, Stamp(x) PROVE RowsInv'
  BY <1>10, <1>q DEF Stamp, Working, Rest
<1> QED
  BY <1>1, <1>2, <1>3, <1>4, <1>5, <1>6, <1>7, <1>8, <1>9, <1>10 DEF Next, Refresh

(* IInv is inductive. *)
LEMMA Inductive == IInv /\ [Next]_vars => IInv'
  BY StepType, StepChannel, StepRows DEF IInv

(* The types of the manager's state hold in every run. *)
THEOREM TypeCorrect == Spec => []TypeOK
<1>1. IInv => TypeOK
  BY DEF IInv
<1> QED BY InitIInv, Inductive, <1>1, PTL DEF Spec

(* A running refresh goroutine that was not told to stop is the one whose *)
(* channel stopChs holds, however often tables are created and dropped.   *)
THEOREM LoopsTracked == Spec => []LoopTracked
<1>1. IInv => LoopTracked
  BY DEF IInv, ChannelInv
<1> QED BY InitIInv, Inductive, <1>1, PTL DEF Spec

(* Without overlapping refreshes or DDL the table holds the result of its *)
(* query once, or nothing after a failed refresh.                         *)
THEOREM RowsConsistent == Spec => []ConsistentUnlessOverlap
<1>1. IInv => ConsistentUnlessOverlap
  BY DEF IInv, RowsInv, ConsistentUnlessOverlap, Consistent
<1> QED BY InitIInv, Inductive, <1>1, PTL DEF Spec
============================================================================
