-------------------------- MODULE MCTaskScheduler --------------------------
(* Small instances of TaskScheduler for TLC. *)
EXTENDS TaskScheduler, TLC

Def(n, p, k, m, w) ==
    [name |-> n, pred |-> p, sched |-> [kind |-> k, n |-> m], when |-> w]

CONSTANTS a, b

(* A conditional root, its successor, which may carry a schedule that       *)
(* CREATE TASK does not parse, and a task that takes the root's name and    *)
(* closes a cycle.                                                          *)
GraphDefinitions ==
    {Def(a, NoName, "cron", 2, TRUE), Def(b, a, "malformed", 0, FALSE),
     Def(a, b, "none", 0, FALSE)}

(* The same graph with an interval, and a root that CREATE TASK refuses. *)
CycleDefinitions ==
    {Def(a, NoName, "minute", 1, FALSE), Def(b, a, "none", 0, TRUE),
     Def(a, b, "none", 0, FALSE), Def(b, NoName, "malformed", 0, FALSE)}

(* "every n-th tick" stands for a cron expression. *)
MCCronNext(n, t) == n * (t \div n + 1)

Symmetry == Permutations(Objs)
============================================================================
