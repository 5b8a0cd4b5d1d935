--------------------------- MODULE DynamicTables ---------------------------
(***************************************************************************)
(* internal/dynamictable/dynamictable.go: a table kept up to date by a     *)
(* goroutine of its own, which replaces the rows every TargetLag, and by   *)
(* refreshes that callers ask for.  Manager.mu protects the two maps; a    *)
(* refresh looks the table up under it and then deletes and inserts with   *)
(* no lock held.                                                           *)
(*                                                                         *)
(* One table key: the tables of two keys never meet.  A channel of stopChs *)
(* is named after the goroutine it was made for, a query after the CREATE  *)
(* that brought it.  The rows of the table are the queries whose result    *)
(* was inserted since the last DELETE.                                     *)
(***************************************************************************)
EXTENDS Integers, Sequences

CONSTANTS
    Loops,       \* goroutines running refreshLoop; bounds CREATE and Start
    Callers,     \* callers of Refresh
    None,        \* no goroutine, no query, no table
    MaxQuery     \* bound on the CREATEs

ASSUME NoneAssumption == None \notin Loops \cup Nat
ASSUME ActorAssumption == Loops \cap Callers = {} /\ MaxQuery \in Nat

Actors  == Loops \cup Callers
Queries == 1 .. MaxQuery

VARIABLES
    entry,     \* the query of m.tables[key], None if there is no entry
    stopCh,    \* m.stopChs[key], None if there is no entry
    closed,    \* channels that are closed
    rows,      \* the table in DuckDB, None if it does not exist
    pc,        \* what each goroutine is doing
    plan,      \* the query a refresh has looked up
    created,   \* CREATEs so far
    \* history variable
    overlap    \* a refresh ran while another, or a CREATE or DROP, did

vars == <<entry, stopCh, closed, rows, pc, plan, created, overlap>>

Places  == {"unused", "idle", "check", "wait", "lookup", "delete", "insert", "stamp", "exited"}
Working == {"delete", "insert", "stamp"}
Busy(x) == pc[x] \in Working
Rest(x) == IF x \in Loops THEN "check" ELSE "idle"
Goto(x, l) == pc' = [pc EXCEPT ![x] = l]

Init ==
    /\ entry = None /\ stopCh = None /\ closed = {} /\ rows = None
    /\ pc = [x \in Actors |-> IF x \in Loops THEN "unused" ELSE "idle"]
    /\ plan = [x \in Actors |-> None]
    /\ created = 0 /\ overlap = FALSE

DDL == overlap' = (overlap \/ \E x \in Actors : Busy(x))

----------------------------------------------------------------------------
(* A goroutine is started with a channel of its own. *)
Spawn(g) ==
    /\ pc[g] = "unused"
    /\ stopCh' = g
    /\ Goto(g, "check")

(* Create holds m.mu while CREATE TABLE AS runs, which fails if a table of  *)
(* that name exists.                                                        *)
Create(g) ==
    /\ entry = None /\ rows = None
    /\ created < MaxQuery
    /\ created' = created + 1
    /\ entry' = created' /\ rows' = <<created'>>
    /\ Spawn(g)
    /\ DDL
    /\ UNCHANGED <<closed, plan>>

(* Faulty variant: the channel is forgotten but not closed. *)
CloseChannelOnlyForget ==
    /\ stopCh' = None
    /\ UNCHANGED closed

CloseChannel ==
    /\ closed' = IF stopCh = None THEN closed ELSE closed \cup {stopCh}
    /\ stopCh' = None

(* Drop stops the loop before DROP TABLE, and keeps the entry if that fails. *)
Drop ==
    /\ entry # None
    /\ CloseChannel
    /\ \/ entry' = None /\ rows' = None
       \/ UNCHANGED <<entry, rows>>
    /\ DDL
    /\ UNCHANGED <<pc, plan, created>>

Start(g) ==
    /\ entry # None /\ stopCh = None
    /\ Spawn(g)
    /\ UNCHANGED <<entry, closed, rows, plan, created, overlap>>

Stop ==
    /\ stopCh # None
    /\ CloseChannel
    /\ UNCHANGED <<entry, rows, pc, plan, created, overlap>>

----------------------------------------------------------------------------
(* refreshLoop: the entry is looked at under m.mu ... *)
LoopCheck(g) ==
    /\ pc[g] = "check"
    /\ Goto(g, IF entry = None THEN "exited" ELSE "wait")
    /\ UNCHANGED <<entry, stopCh, closed, rows, plan, created, overlap>>

(* Faulty variant: the channel is looked up by key each time. *)
LoopStopByKey(g) ==
    /\ pc[g] = "wait" /\ stopCh \in closed
    /\ Goto(g, "exited")
    /\ UNCHANGED <<entry, stopCh, closed, rows, plan, created, overlap>>

(* ... then select waits for the channel or the timer, and takes either if *)
(* both are ready.                                                         *)
LoopStop(g) ==
    /\ pc[g] = "wait" /\ g \in closed
    /\ Goto(g, "exited")
    /\ UNCHANGED <<entry, stopCh, closed, rows, plan, created, overlap>>

LoopFire(g) ==
    /\ pc[g] = "wait"
    /\ Goto(g, "lookup")
    /\ UNCHANGED <<entry, stopCh, closed, rows, plan, created, overlap>>

Call(c) ==
    /\ pc[c] = "idle"
    /\ Goto(c, "lookup")
    /\ UNCHANGED <<entry, stopCh, closed, rows, plan, created, overlap>>

(* Refresh reads the query under m.mu ... *)
Lookup(x) ==
    /\ pc[x] = "lookup"
    /\ \/ /\ entry = None
          /\ Goto(x, Rest(x))
          /\ UNCHANGED <<plan, overlap>>
       \/ /\ entry # None
          /\ Goto(x, "delete")
          /\ plan' = [plan EXCEPT ![x] = entry]
          /\ overlap' = (overlap \/ \E y \in Actors : Busy(y))
    /\ UNCHANGED <<entry, stopCh, closed, rows, created>>

(* Faulty variant: the old rows stay. *)
DeleteNothing(x) ==
    /\ pc[x] = "delete"
    /\ IF rows # None THEN Goto(x, "insert") ELSE Goto(x, Rest(x))
    /\ UNCHANGED <<entry, stopCh, closed, rows, plan, created, overlap>>

(* ... deletes the rows, unless DELETE fails ... *)
Delete(x) ==
    /\ pc[x] = "delete"
    /\ \/ rows # None /\ rows' = << >> /\ Goto(x, "insert")
       \/ UNCHANGED rows /\ Goto(x, Rest(x))
    /\ UNCHANGED <<entry, stopCh, closed, plan, created, overlap>>

(* ... inserts the result of the query, unless INSERT fails ... *)
Insert(x) ==
    /\ pc[x] = "insert"
    /\ \/ rows # None /\ rows' = Append(rows, plan[x]) /\ Goto(x, "stamp")
       \/ UNCHANGED rows /\ Goto(x, Rest(x))
    /\ UNCHANGED <<entry, stopCh, closed, plan, created, overlap>>

(* ... and notes the time under m.mu. *)
Stamp(x) ==
    /\ pc[x] = "stamp"
    /\ Goto(x, Rest(x))
    /\ UNCHANGED <<entry, stopCh, closed, rows, plan, created, overlap>>

Refresh(x) == Lookup(x) \/ Delete(x) \/ Insert(x) \/ Stamp(x)

Next ==
    \/ \E g \in Loops :
          Create(g) \/ Start(g) \/ LoopCheck(g) \/ LoopStop(g) \/ LoopFire(g)
    \/ Drop \/ Stop
    \/ \E c \in Callers : Call(c)
    \/ \E x \in Actors : Refresh(x)

Spec == Init /\ [][Next]_vars

(* Goroutines go on, SQL returns, and select, which picks at random between *)
(* two ready channels, does not prefer the timer for ever.                  *)
Fairness ==
    /\ \A x \in Actors : WF_vars(Refresh(x))
    /\ \A g \in Loops : WF_vars(LoopCheck(g)) /\ WF_vars(LoopFire(g)) /\ SF_vars(LoopStop(g))

FairSpec == Spec /\ Fairness

----------------------------------------------------------------------------
(* Types: a refresh at work has a query, a table has rows only if it exists.*)
TypeOK ==
    /\ entry \in Queries \cup {None} /\ stopCh \in Loops \cup {None}
    /\ closed \subseteq Loops /\ created \in 0 .. MaxQuery
    /\ rows \in Seq(Queries) \cup {None}
    /\ pc \in [Actors -> Places]
    /\ plan \in [Actors -> Queries \cup {None}]
    /\ \A x \in Actors : Busy(x) => plan[x] # None
    /\ overlap \in BOOLEAN

(* No goroutine is forgotten: one that was not told to stop is the one that *)
(* Drop and Stop will tell, through every order of Create, failed Drop,     *)
(* Start and Stop.  In particular two of them never serve one table.        *)
LoopTracked ==
    \A g \in Loops : pc[g] \notin {"unused", "exited"} /\ g \notin closed => stopCh = g

(* Full refresh: unless refreshes overlapped with each other or with DDL,   *)
(* the table holds the result of its own query exactly once, or nothing     *)
(* after a failed refresh, whenever no refresh is under way.                *)
Consistent ==
    (entry # None /\ \A x \in Actors : ~Busy(x)) => rows \in {<< >>, <<entry>>}
ConsistentUnlessOverlap == ~overlap => Consistent

(* A goroutine that was told to stop ends, although it may start another    *)
(* refresh first.                                                           *)
StoppedLoopEnds == \A g \in Loops : g \in closed ~> pc[g] = "exited"
============================================================================
