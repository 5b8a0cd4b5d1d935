--------------------------- MODULE DependencyOrder ---------------------------
(***************************************************************************)
(* GetDependencyOrder of internal/task/task.go: the tasks of a schema in   *)
(* topological order, by Kahn's algorithm, under the read lock of the      *)
(* scheduler.  A task has at most one predecessor, which need not be a     *)
(* task, and nothing keeps predecessors acyclic.  Maps are traversed in    *)
(* some order, and so is an adjacency list, which is filled from a map and *)
(* read once.                                                              *)
(***************************************************************************)
EXTENDS Integers, Sequences

CONSTANTS
    TaskNames,
    NoTask      \* no predecessor

ASSUME OrderAssumption == NoTask \notin TaskNames

VARIABLES
    orderAt,   \* where the call is: "idle", "build", "seed", "loop" or "done"
    predOf,    \* the tasks of the schema and their predecessors
    pending,   \* what the loop at hand has not looked at yet
    nodes,     \* the keys of inDegree
    inDegree,  \* 0 where there is no key
    adj,       \* adj[n]: the tasks with predecessor n
    queue, order

orderVars == <<orderAt, predOf, pending, nodes, inDegree, adj, queue, order>>

Nobody == [t \in {} |-> NoTask]
Tasks  == DOMAIN predOf

OrderInit ==
    /\ orderAt = "idle" /\ predOf = Nobody /\ pending = {} /\ nodes = {}
    /\ inDegree = [n \in TaskNames |-> 0] /\ adj = [n \in TaskNames |-> {}]
    /\ queue = <<>> /\ order = <<>>

GetDependencyOrder(preds) ==
    /\ orderAt' = "build" /\ predOf' = preds /\ pending' = DOMAIN preds
    /\ UNCHANGED <<nodes, inDegree, adj, queue, order>>

(* Faulty variant: a predecessor that is no task is no node. *)
AddTaskOnly(t) ==
    /\ orderAt = "build" /\ t \in pending
    /\ pending' = pending \ {t}
    /\ nodes' = nodes \cup {t}
    /\ IF predOf[t] = NoTask THEN UNCHANGED <<inDegree, adj>>
       ELSE /\ inDegree' = [inDegree EXCEPT ![t] = @ + 1]
            /\ adj' = [adj EXCEPT ![predOf[t]] = @ \cup {t}]
    /\ UNCHANGED <<orderAt, predOf, queue, order>>

(* A task and its predecessor become nodes, and the edge is counted. *)
AddTask(t) ==
    /\ orderAt = "build" /\ t \in pending
    /\ pending' = pending \ {t}
    /\ nodes' = nodes \cup ({t, predOf[t]} \ {NoTask})
    /\ IF predOf[t] = NoTask THEN UNCHANGED <<inDegree, adj>>
       ELSE /\ inDegree' = [inDegree EXCEPT ![t] = @ + 1]
            /\ adj' = [adj EXCEPT ![predOf[t]] = @ \cup {t}]
    /\ UNCHANGED <<orderAt, predOf, queue, order>>

(* The loop over the tasks ends and the one over the keys of inDegree       *)
(* begins.                                                                  *)
Built ==
    /\ orderAt = "build" /\ pending = {}
    /\ orderAt' = "seed" /\ pending' = nodes
    /\ UNCHANGED <<predOf, nodes, inDegree, adj, queue, order>>

Seed(n) ==
    /\ orderAt = "seed" /\ n \in pending
    /\ pending' = pending \ {n}
    /\ queue' = IF inDegree[n] = 0 THEN Append(queue, n) ELSE queue
    /\ UNCHANGED <<orderAt, predOf, nodes, inDegree, adj, order>>

Seeded ==
    /\ orderAt = "seed" /\ pending = {}
    /\ orderAt' = "loop"
    /\ UNCHANGED <<predOf, pending, nodes, inDegree, adj, queue, order>>

(* The first of the queue is listed, and its successors are looked at. *)
Take ==
    /\ orderAt = "loop" /\ pending = {} /\ queue # <<>>
    /\ queue' = Tail(queue) /\ order' = Append(order, Head(queue))
    /\ pending' = adj[Head(queue)]
    /\ UNCHANGED <<orderAt, predOf, nodes, inDegree, adj>>

Relax(s) ==
    /\ orderAt = "loop" /\ s \in pending
    /\ pending' = pending \ {s}
    /\ inDegree' = [inDegree EXCEPT ![s] = @ - 1]
    /\ queue' = IF inDegree'[s] = 0 THEN Append(queue, s) ELSE queue
    /\ UNCHANGED <<orderAt, predOf, nodes, adj, order>>

Listed ==
    /\ orderAt = "loop" /\ pending = {} /\ queue = <<>>
    /\ orderAt' = "done"
    /\ UNCHANGED <<predOf, pending, nodes, inDegree, adj, queue, order>>

ReturnOrder ==
    /\ orderAt = "done"
    /\ orderAt' = "idle" /\ predOf' = Nobody /\ pending' = {} /\ nodes' = {}
    /\ inDegree' = [n \in TaskNames |-> 0] /\ adj' = [n \in TaskNames |-> {}]
    /\ queue' = <<>> /\ order' = <<>>

OrderWork ==
    \/ \E t \in TaskNames : AddTask(t) \/ Seed(t) \/ Relax(t)
    \/ Built \/ Seeded \/ Take \/ Listed \/ ReturnOrder

OrderNext ==
    \/ /\ orderAt = "idle"
       /\ \E S \in SUBSET TaskNames : \E preds \in [S -> TaskNames \cup {NoTask}] :
              GetDependencyOrder(preds)
    \/ OrderWork

OrderSpec == OrderInit /\ [][OrderNext]_orderVars

----------------------------------------------------------------------------
(* A set of tasks each of which has its predecessor in the set: a cycle and *)
(* whatever comes after it.                                                 *)
Circular(C) == \A t \in C : predOf[t] \in C

(* Every task is listed once and after its predecessor, whatever the order  *)
(* of the maps; missing are exactly the tasks on a cycle and those that     *)
(* come after one, and predecessors that are no tasks are listed too        *)
(* (task.go:464).                                                           *)
OrderIsTopological ==
    orderAt = "done" =>
        /\ {order[i] : i \in 1 .. Len(order)} =
              {n \in Tasks \cup ({predOf[t] : t \in Tasks} \ {NoTask}) :
                  ~\E C \in SUBSET Tasks : n \in C /\ Circular(C)}
        /\ \A i, j \in 1 .. Len(order) : order[i] = order[j] => i = j
        /\ \A i, j \in 1 .. Len(order) :
              order[j] \in Tasks /\ predOf[order[j]] = order[i] => i < j
=============================================================================
