------------------------ MODULE TaskSchedulerProofs ------------------------
(***************************************************************************)
(* Proofs about TaskScheduler for any set of names, task definitions,      *)
(* objects, schedules and any horizon; about DependencyOrder for any set   *)
(* of tasks and predecessors; and about Cron for any calendar, bounds and  *)
(* expressions.                                                            *)
(***************************************************************************)
EXTENDS TaskScheduler, DependencyOrder, Cron, SequenceTheorems, TLAPS

(* nextRunTime returns a time for every schedule of a definition. *)
LEMMA NextRunType ==
    ASSUME NEW d \in Definitions, NEW t \in Time
    PROVE  nextRunTime(d.sched, t) \in Nat
<1>1. d \in Attrs
  BY DefinitionAssumption
<1>2. d.sched \in Scheds /\ t \in Nat /\ Minute \in Nat /\ d.sched.n \in Nat
  BY <1>1, TimeAssumption DEF Attrs, Scheds, Time
<1>3. d.sched.n * Minute \in Nat
  BY <1>2
<1>4. d.sched.kind = "cron" => CronNext(d.sched.n, t) \in Nat
  BY CronAssumption
<1> QED
  BY <1>2, <1>3, <1>4 DEF nextRunTime

(* What a definition's fields are. *)
LEMMA AttrType ==
    ASSUME TypeOK, NEW o \in Objs
    PROVE  /\ attr[o] \in Definitions
           /\ attr[o].name \in Names
           /\ attr[o].pred \in Names \cup {NoName}
BY DefinitionAssumption DEF TypeOK, Attrs

LEMMA InitType == Init => TypeOK
<1> SUFFICES ASSUME Init PROVE TypeOK
  OBVIOUS
<1>1. NoAttr \in Definitions
  BY DefinitionAssumption DEF NoAttr
<1>2. 0 \in Time
  BY TimeAssumption DEF Time
<1>3. stack \in Seq(SUBSET Objs)
  BY DEF Init
<1>4. attr \in [Objs -> Definitions] /\ state \in [Objs -> States]
  BY <1>1 DEF Init, States
<1>5. cancelled \in BOOLEAN /\ again \in BOOLEAN
  BY DEF Init
<1>6. pc \in Pcs /\ (pc \in {"dag", "exec", "collect"} => cur \in Objs)
      /\ pc # "succ"
  BY DEF Init, Pcs
<1> QED
  BY <1>2, <1>3, <1>4, <1>5, <1>6 DEF Init, TypeOK

LEMMA StepType == TypeOK /\ [Next]_vars => TypeOK'
<1> SUFFICES ASSUME TypeOK, [Next]_vars PROVE TypeOK'
  OBVIOUS
<1> USE DEF TypeOK, registry, runTimes, timer, walk, history
<1>1. ASSUME NEW a \in Definitions, NEW o \in Objs, CreateTask(a, o) PROVE TypeOK'
  <2>1. a.name \in Names
    BY DefinitionAssumption DEF Attrs
  <2> QED
    BY <1>1, <2>1 DEF CreateTask, States
<1>2. ASSUME NEW n \in Names, DropTask(n) PROVE TypeOK'
  BY <1>2 DEF DropTask
<1>3. ASSUME NEW n \in Names, NEW st \in States, AlterLookup(n, st) PROVE TypeOK'
  BY <1>3 DEF AlterLookup, Alters
<1>4. CASE AlterApply
  BY <1>4 DEF AlterApply, Alters, NoAlter
<1>5. CASE Reset
  BY <1>5 DEF Reset, States
<1>6. CASE Second
  BY <1>6, TimeAssumption DEF Second, Time
<1>7. CASE TickBegin
  <2>1. Live \subseteq Objs
    BY DEF Live
  <2> QED
    BY <1>7, <2>1 DEF TickBegin, Pcs
<1>8. ASSUME NEW o \in Objs, VisitRoot(o) PROVE TypeOK'
  <2>1. nextRunTime(attr[o].sched, now) \in Nat
    BY NextRunType
  <2> QED
    BY <1>8, <2>1 DEF VisitRoot, Pcs
<1>9. CASE ExecuteDAG
  <2>1. cur \in Objs => nextRunTime(attr[cur].sched, now) \in Nat
    BY NextRunType
  <2>2. CASE StartSQL(cur) /\ nextRun' = nextRun
    <3>1. cur \in Objs /\ ran' \subseteq Objs
      BY <1>9, <2>2 DEF ExecuteDAG, StartSQL
    <3>2. again' \in BOOLEAN
      BY <2>2 DEF StartSQL
    <3> QED
      BY <1>9, <2>2, <3>1, <3>2 DEF ExecuteDAG, StartSQL, Pcs
  <2>3. CASE nextRun' = [nextRun EXCEPT ![cur] = nextRunTime(attr[cur].sched, now)]
             /\ pc' = "roots" /\ cur' = NoObj /\ ran' = ran /\ again' = again
    <3>1. nextRun' \in [Objs -> Nat \cup {Never}]
      BY <2>1, <2>3
    <3> QED
      BY <1>9, <2>3, <3>1 DEF ExecuteDAG, Pcs
  <2> QED
    BY <1>9, <2>2, <2>3 DEF ExecuteDAG
<1>10. CASE FinishSQL
  <2>1. cur \in Objs => nextRunTime(attr[cur].sched, now) \in Nat
    BY NextRunType
  <2>2. nextRun' \in [Objs -> Nat \cup {Never}]
    BY <1>10, <2>1 DEF FinishSQL
  <2>3. lastRun' \in [Objs -> Time \cup {Never}]
    BY <1>10 DEF FinishSQL
  <2> QED
    BY <1>10, <2>2, <2>3 DEF FinishSQL, Pcs
<1>11. CASE CollectSuccessors
  BY <1>11 DEF CollectSuccessors, Pcs
<1>12. ASSUME NEW o \in Objs, VisitSuccessor(o) PROVE TypeOK'
  <2>1. stack' \in Seq(SUBSET Objs)
    <3>1. pc = "succ" /\ Len(stack) \in Nat \ {0}
      BY <1>12 DEF VisitSuccessor
    <3>2. Top \in SUBSET Objs
      BY <3>1 DEF Top
    <3>3. Rest \in Seq(SUBSET Objs)
      BY <3>1 DEF Rest
    <3>4. Append(Rest, Top \ {o}) \in Seq(SUBSET Objs)
      BY <3>2, <3>3
    <3> QED
      BY <1>12, <3>3, <3>4 DEF VisitSuccessor
  <2>2. again' \in BOOLEAN
    BY <1>12 DEF VisitSuccessor, StartSQL
  <2> QED
    BY <1>12, <2>1, <2>2 DEF VisitSuccessor, StartSQL, Pcs
<1>13. CASE TickEnd
  BY <1>13 DEF TickEnd, Pcs
<1>14. CASE Stop
  BY <1>14 DEF Stop
<1>15. CASE LoopExit
  BY <1>15 DEF LoopExit, Pcs
<1>16. CASE UNCHANGED vars
  BY <1>16 DEF vars
<1> QED
  BY <1>1, <1>2, <1>3, <1>4, <1>5, <1>6, <1>7, <1>8, <1>9, <1>10, <1>11, <1>12,
     <1>13, <1>14, <1>15, <1>16 DEF Next, DDL, Walk, Stopped

(* The registry, the heap and the walk of the scheduler keep their types. *)
THEOREM TypeCorrect == Spec => []TypeOK
<1>1. Init => TypeOK
  BY InitType
<1>2. TypeOK /\ [Next]_vars => TypeOK'
  BY StepType
<1> QED
  BY <1>1, <1>2, PTL DEF Spec

----------------------------------------------------------------------------
(* The inductive invariant. *)

InFrame(s, o)     == \E i \in 1 .. Len(s) : o \in s[i]
DisjointFrames(s) == \A i, j \in 1 .. Len(s) : i # j => s[i] \cap s[j] = {}

(* o waits to be visited by some active call of runSuccessors. *)
Pending(o) == InFrame(stack, o)

(* Everything anyone holds a pointer to has been created, so CREATE TASK    *)
(* fills in an object nobody knows.                                         *)
PointersInv ==
    /\ \A n \in Names : tasks[n] # NoObj => tasks[n] \in alloc
    /\ eligible \subseteq alloc

(* What the walk holds was eligible during this tick. *)
EligibleInv ==
    /\ roots \subseteq eligible
    /\ ran \subseteq eligible
    /\ cur # NoObj => cur \in eligible
    /\ \A o \in Objs : Pending(o) => o \in eligible

(* Where the walk is decides what it holds. *)
PhaseInv ==
    /\ pc \in {"idle", "stopped"} => ran = {} /\ ~again /\ roots = {}
    /\ pc \in {"idle", "stopped", "roots", "dag"} => stack = << >>
    /\ pc \in {"idle", "stopped", "roots", "succ"} => cur = NoObj
    /\ pc \in {"exec", "collect"} => cur \in ran
    /\ \A o \in roots : Pred(o) = NoName
    /\ pc = "dag" => Pred(cur) = NoName

(* A task of that name has been run in this tick. *)
HasRun(n) == \E p \in ran : attr[p].name = n

(* A task of that name has been run and its successors have been collected. *)
Collected(n) == \E p \in ran \ {cur} : attr[p].name = n

JustifiedInv ==
    /\ \A o \in Objs : Pending(o) => Pred(o) # NoName /\ HasRun(Pred(o))
    /\ PredecessorFirst

(* As long as names are unambiguous, a task is met once: the successors of  *)
(* a name are collected once, and no object is both run and waiting, or     *)
(* waiting twice.                                                           *)
MetOnce ==
    /\ ~again
    /\ \A o \in Objs : Pending(o) => o \notin ran /\ Collected(Pred(o))
    /\ DisjointFrames(stack)
    /\ \A o \in ran : Pred(o) = NoName \/ Collected(Pred(o))
    /\ roots \cap ran = {}
    /\ pc = "dag" => cur \notin ran /\ cur \notin roots

OnceInv == Unambiguous => MetOnce

WalkInv == TypeOK /\ PointersInv /\ EligibleInv /\ PhaseInv /\ JustifiedInv /\ OnceInv

(* Whatever runSuccessors can find in the registry is eligible. *)
LiveInv == pc \notin {"idle", "stopped"} => Live \subseteq eligible

IInv == WalkInv /\ LiveInv

----------------------------------------------------------------------------
(* The two operations on the stack of collected successors. *)
LEMMA PushFrame ==
    ASSUME NEW s \in Seq(SUBSET Objs), NEW S \in SUBSET Objs
    PROVE  /\ \A o \in Objs : InFrame(Append(s, S), o) => InFrame(s, o) \/ o \in S
           /\ (DisjointFrames(s) /\ \A o \in S : ~InFrame(s, o))
                => DisjointFrames(Append(s, S))
BY DEF InFrame, DisjointFrames

LEMMA PopObject ==
    ASSUME NEW s \in Seq(SUBSET Objs), Len(s) > 0, NEW o \in s[Len(s)]
    PROVE  LET r == SubSeq(s, 1, Len(s) - 1)
               t == IF s[Len(s)] = {o} THEN r ELSE Append(r, s[Len(s)] \ {o})
           IN  /\ \A p \in Objs : InFrame(t, p) => InFrame(s, p)
               /\ DisjointFrames(s) => DisjointFrames(t) /\ ~InFrame(t, o)
<1> DEFINE r == SubSeq(s, 1, Len(s) - 1)
           T == s[Len(s)] \ {o}
<1>1. /\ r \in Seq(SUBSET Objs) /\ Len(r) = Len(s) - 1
      /\ \A i \in 1 .. Len(r) : r[i] = s[i]
  <2> DEFINE m == Len(s) - 1
  <2>1. Len(s) \in Nat
    OBVIOUS
  <2>2. m \in Int /\ m >= 0 /\ Len(s) = m + 1
    BY <2>1
  <2>4. \A i \in 1 .. m : s[i] \in SUBSET Objs
    BY <2>1
  <2> HIDE DEF m
  <2>5. /\ SubSeq(s, 1, m) \in Seq(SUBSET Objs)
        /\ Len(SubSeq(s, 1, m)) = IF 1 <= m THEN m - 1 + 1 ELSE 0
        /\ \A i \in 1 .. m - 1 + 1 : SubSeq(s, 1, m)[i] = s[1 + i - 1]
    BY <2>2, <2>4, SubSeqProperties
  <2>6. r = SubSeq(s, 1, m)
    BY DEF m
  <2> HIDE DEF r
  <2>7. Len(r) = m /\ \A i \in 1 .. m : r[i] = s[i]
    BY <2>2, <2>5, <2>6
  <2> QED
    BY <2>2, <2>5, <2>6, <2>7
<1>2. T \in SUBSET Objs
  OBVIOUS
<1> HIDE DEF r
<1>3. CASE s[Len(s)] = {o}
  <2>1. \A p \in Objs : InFrame(r, p) => InFrame(s, p)
    BY <1>1 DEF InFrame
  <2>2. DisjointFrames(s) => DisjointFrames(r) /\ ~InFrame(r, o)
    BY <1>1 DEF InFrame, DisjointFrames
  <2> QED
    BY <1>3, <2>1, <2>2 DEF r
<1>4. CASE s[Len(s)] # {o}
  <2>1. /\ Len(Append(r, T)) = Len(s)
        /\ \A i \in 1 .. Len(s) : Append(r, T)[i] = IF i = Len(s) THEN T ELSE s[i]
    BY <1>1, <1>2
  <2> HIDE DEF T
  <2>2. T = s[Len(s)] \ {o}
    BY DEF T
  <2>3. \A p \in Objs : InFrame(Append(r, T), p) => InFrame(s, p)
    BY <2>1, <2>2 DEF InFrame
  <2>4. DisjointFrames(s) => DisjointFrames(Append(r, T)) /\ ~InFrame(Append(r, T), o)
    BY <2>1, <2>2 DEF InFrame, DisjointFrames
  <2> QED
    BY <1>4, <2>3, <2>4 DEF r, T
<1> QED
  BY <1>3, <1>4

(* A step that leaves the walk alone and adds to what is eligible without   *)
(* touching what is known about it keeps the walk's part of the invariant.  *)
LEMMA WalkUntouched ==
    ASSUME WalkInv, TypeOK', UNCHANGED <<pc, walk, ran, again>>, eligible \subseteq eligible',
           \A p \in eligible : attr'[p] = attr[p]
    PROVE  EligibleInv' /\ PhaseInv' /\ JustifiedInv' /\ OnceInv'
<1> USE DEF WalkInv, walk
<1>0. UNCHANGED <<pc, now, roots, stack, cur, ran, again>>
  BY DEF walk
<1>1. \A o : Pending(o)' <=> Pending(o)
  BY <1>0 DEF Pending, InFrame
<1>2. EligibleInv'
  BY <1>0, <1>1 DEF EligibleInv
<1>3. \A o \in Objs : (o \in roots \/ o \in ran \/ o = cur \/ Pending(o)) => attr'[o] = attr[o]
  BY ObjAssumption DEF EligibleInv
<1>4. PhaseInv'
  BY <1>0, <1>3 DEF PhaseInv, Pred, TypeOK
<1>5. \A n : HasRun(n)' <=> HasRun(n)
  BY <1>0, <1>3 DEF HasRun, TypeOK
<1>6. JustifiedInv'
  BY <1>0, <1>1, <1>3, <1>5 DEF JustifiedInv, PredecessorFirst, Pred, TypeOK
<1>7. \A n : Collected(n)' <=> Collected(n)
  BY <1>0, <1>3 DEF Collected, TypeOK
<1>8. Unambiguous' => Unambiguous
  BY DEF Unambiguous
<1>9. DisjointFrames(stack)' <=> DisjointFrames(stack)
  BY <1>0 DEF DisjointFrames
<1>10. OnceInv'
  <2> SUFFICES ASSUME Unambiguous' PROVE MetOnce'
    BY DEF OnceInv
  <2>1. MetOnce
    BY <1>8 DEF OnceInv
  <2>2. \A o \in Objs : Pending(o)' => o \notin ran' /\ Collected(Pred(o))'
    BY <1>0, <1>1, <1>3, <1>7, <2>1 DEF MetOnce, Pred
  <2>3. \A o \in ran' : Pred(o)' = NoName \/ Collected(Pred(o))'
    BY <1>0, <1>3, <1>7, <2>1 DEF MetOnce, Pred, TypeOK
  <2> QED
    BY <1>0, <1>9, <2>1, <2>2, <2>3 DEF MetOnce
<1> QED
  BY <1>2, <1>4, <1>6, <1>10

----------------------------------------------------------------------------
LEMMA InitInv == Init => WalkInv
<1> SUFFICES ASSUME Init PROVE WalkInv
  OBVIOUS
<1>1. TypeOK
  BY InitType
<1>2. Len(stack) = 0 /\ \A o : ~Pending(o)
  BY DEF Init, Pending, InFrame
<1>3. PointersInv /\ EligibleInv /\ PhaseInv
  BY <1>2 DEF Init, PointersInv, EligibleInv, PhaseInv
<1>4. JustifiedInv
  BY <1>2 DEF Init, JustifiedInv, PredecessorFirst
<1>5. OnceInv
  BY <1>2 DEF Init, OnceInv, MetOnce, DisjointFrames
<1> QED
  BY <1>1, <1>3, <1>4, <1>5 DEF WalkInv

(* DDL and the ticker run beside the walk. *)
LEMMA DDLStep ==
    ASSUME WalkInv, TypeOK', DDL PROVE WalkInv'
<1> USE DEF WalkInv, TypeOK, registry, runTimes, timer, walk, history
<1>1. ASSUME NEW a \in Definitions, NEW o \in Objs, CreateTask(a, o) PROVE WalkInv'
  <2>1. \A p \in eligible : attr'[p] = attr[p]
    BY <1>1 DEF CreateTask, PointersInv
  <2>2. PointersInv'
    BY <1>1 DEF CreateTask, PointersInv
  <2>3. UNCHANGED <<pc, walk, ran, again>> /\ eligible \subseteq eligible'
    BY <1>1 DEF CreateTask
  <2> QED
    BY <2>1, <2>2, <2>3, WalkUntouched
<1>2. ASSUME NEW n \in Names, DropTask(n) PROVE WalkInv'
  <2>1. PointersInv'
    BY <1>2 DEF DropTask, PointersInv
  <2>2. UNCHANGED <<pc, walk, ran, again, attr>> /\ eligible \subseteq eligible'
    BY <1>2 DEF DropTask
  <2> QED
    BY <2>1, <2>2, WalkUntouched
<1>3. ASSUME NEW n \in Names, NEW st \in States, AlterLookup(n, st) PROVE WalkInv'
  <2>1. PointersInv'
    BY <1>3 DEF AlterLookup, PointersInv
  <2>2. UNCHANGED <<pc, walk, ran, again, attr>> /\ eligible \subseteq eligible'
    BY <1>3 DEF AlterLookup
  <2> QED
    BY <2>1, <2>2, WalkUntouched
<1>4. CASE AlterApply
  <2>1. Registered(alter.obj) => alter.obj \in alloc
    <3>1. alter.obj \in Objs
      BY <1>4 DEF AlterApply, Alters
    <3> QED
      BY <3>1, ObjAssumption DEF Registered, PointersInv
  <2>2. eligible' \subseteq alloc
    BY <1>4, <2>1 DEF AlterApply, PointersInv
  <2>3. PointersInv'
    BY <1>4, <2>2 DEF AlterApply, PointersInv
  <2>4. UNCHANGED <<pc, walk, ran, again, attr>> /\ eligible \subseteq eligible'
    BY <1>4 DEF AlterApply
  <2> QED
    BY <2>3, <2>4, WalkUntouched
<1>5. CASE Reset
  <2>1. PointersInv'
    BY <1>5 DEF Reset, PointersInv
  <2>2. UNCHANGED <<pc, walk, ran, again, attr>> /\ eligible \subseteq eligible'
    BY <1>5 DEF Reset
  <2> QED
    BY <2>1, <2>2, WalkUntouched
<1> QED
  BY <1>1, <1>2, <1>3, <1>4, <1>5 DEF DDL

LEMMA SecondOrStopStep ==
    ASSUME WalkInv, TypeOK', Second \/ Stop \/ UNCHANGED vars PROVE WalkInv'
<1> USE DEF WalkInv, registry, runTimes, timer, walk, history
<1>1. PointersInv'
  BY DEF Second, Stop, vars, PointersInv
<1>2. UNCHANGED <<pc, walk, ran, again, attr>> /\ eligible \subseteq eligible'
  BY DEF Second, Stop, vars
<1> QED
  BY <1>1, <1>2, WalkUntouched

(* The steps between two ticks. *)
LEMMA TickBoundaryStep ==
    ASSUME WalkInv, TypeOK', TickBegin \/ TickEnd \/ LoopExit PROVE WalkInv'
<1> USE DEF WalkInv, registry, runTimes, timer, walk, history
<1>1. stack = << >> /\ stack' = << >> /\ cur = NoObj /\ cur' = NoObj
  BY DEF TickBegin, TickEnd, LoopExit, PhaseInv
<1>2. \A o : ~Pending(o)'
  BY <1>1 DEF Pending, InFrame
<1>3. ran' = {} /\ ~again'
  BY DEF TickBegin, TickEnd, LoopExit, PhaseInv
<1>4. roots' \subseteq eligible' /\ \A o \in roots' : Pred(o)' = NoName
  <2>1. CASE TickBegin
    BY <2>1 DEF TickBegin, IsRoot, Pred
  <2>2. CASE TickEnd \/ LoopExit
    BY <2>2 DEF TickEnd, LoopExit, PhaseInv
  <2> QED
    BY <2>1, <2>2
<1>5. PointersInv'
  <2>1. CASE TickBegin
    <3>1. Live \subseteq alloc
      BY ObjAssumption DEF Live, Registered, PointersInv
    <3> QED
      BY <2>1, <3>1 DEF TickBegin, PointersInv
  <2>2. CASE TickEnd \/ LoopExit
    BY <2>2 DEF TickEnd, LoopExit, PointersInv
  <2> QED
    BY <2>1, <2>2
<1>6. EligibleInv'
  BY <1>1, <1>2, <1>3, <1>4 DEF EligibleInv
<1>7. PhaseInv'
  <2>1. CASE TickBegin
    BY <1>1, <1>4, <2>1 DEF TickBegin, PhaseInv
  <2>2. CASE TickEnd \/ LoopExit
    BY <1>1, <1>3, <1>4, <2>2 DEF TickEnd, LoopExit, PhaseInv
  <2> QED
    BY <2>1, <2>2
<1>8. JustifiedInv'
  BY <1>2, <1>3 DEF JustifiedInv, PredecessorFirst
<1>9. OnceInv'
  <2>1. DisjointFrames(stack)'
    BY <1>1 DEF DisjointFrames
  <2>2. pc' # "dag"
    BY DEF TickBegin, TickEnd, LoopExit
  <2> QED
    BY <1>2, <1>3, <2>1, <2>2 DEF OnceInv, MetOnce
<1> QED
  BY <1>5, <1>6, <1>7, <1>8, <1>9

----------------------------------------------------------------------------
(* The steps of the walk. *)
LEMMA VisitRootStep ==
    ASSUME WalkInv, TypeOK', NEW o \in Objs, VisitRoot(o) PROVE WalkInv'
<1> USE DEF WalkInv, registry, runTimes, timer, walk, history
<1>1. /\ pc = "roots" /\ o \in roots /\ roots' = roots \ {o} /\ stack = << >> /\ cur = NoObj
      /\ UNCHANGED <<attr, alloc, tasks, stack, ran, again, eligible>>
      /\ (pc' = "roots" /\ cur' = NoObj) \/ (pc' = "dag" /\ cur' = o)
  BY DEF VisitRoot, PhaseInv
<1>2. \A p : ~Pending(p) /\ ~Pending(p)'
  BY <1>1 DEF Pending, InFrame
<1>3. PointersInv'
  BY <1>1 DEF PointersInv
<1>4. EligibleInv'
  BY <1>1, <1>2 DEF EligibleInv
<1>5. PhaseInv'
  BY <1>1 DEF PhaseInv, Pred
<1>6. JustifiedInv'
  BY <1>1, <1>2 DEF JustifiedInv, PredecessorFirst, Pred
<1>7. OnceInv'
  <2> SUFFICES ASSUME Unambiguous' PROVE MetOnce'
    BY DEF OnceInv
  <2>1. MetOnce
    BY <1>1 DEF OnceInv, Unambiguous
  <2>2. o \notin ran /\ NoObj \notin ran
    BY <1>1, <2>1, ObjAssumption DEF MetOnce, TypeOK
  <2>3. ran \ {cur} = ran' \ {cur'}
    BY <1>1, <2>2
  <2>4. \A n : Collected(n) => Collected(n)'
    BY <1>1, <2>3 DEF Collected
  <2>5. \A p \in ran' : Pred(p)' = NoName \/ Collected(Pred(p))'
    BY <1>1, <2>1, <2>4 DEF MetOnce, Pred
  <2>6. DisjointFrames(stack)'
    BY <1>1 DEF DisjointFrames
  <2> QED
    BY <1>1, <1>2, <2>1, <2>2, <2>5, <2>6 DEF MetOnce
<1> QED
  BY <1>3, <1>4, <1>5, <1>6, <1>7

LEMMA ExecuteDAGStep ==
    ASSUME WalkInv, TypeOK', ExecuteDAG PROVE WalkInv'
<1> USE DEF WalkInv, registry, runTimes, timer, walk, history
<1>1. /\ pc = "dag" /\ cur \in Objs /\ cur \in eligible /\ Pred(cur) = NoName /\ stack = << >>
      /\ UNCHANGED <<attr, alloc, tasks, roots, stack, eligible>>
  BY ObjAssumption DEF ExecuteDAG, PhaseInv, TypeOK, EligibleInv
<1>2. \A p : ~Pending(p) /\ ~Pending(p)'
  BY <1>1 DEF Pending, InFrame
<1>3. PointersInv'
  BY <1>1 DEF PointersInv
<1>4. DisjointFrames(stack)'
  BY <1>1 DEF DisjointFrames
<1>5. CASE StartSQL(cur)
  <2>1. cur' = cur /\ pc' = "exec" /\ ran' = ran \cup {cur} /\ again' = (again \/ cur \in ran)
    BY <1>5 DEF StartSQL
  <2>2. EligibleInv'
    BY <1>1, <1>2, <2>1 DEF EligibleInv
  <2>3. PhaseInv'
    BY <1>1, <2>1 DEF PhaseInv, Pred
  <2>4. JustifiedInv'
    BY <1>1, <1>2, <2>1 DEF JustifiedInv, PredecessorFirst, Pred
  <2>5. OnceInv'
    <3> SUFFICES ASSUME Unambiguous' PROVE MetOnce'
      BY DEF OnceInv
    <3>1. MetOnce
      BY <1>1 DEF OnceInv, Unambiguous
    <3>2. cur \notin ran /\ cur \notin roots /\ ~again
      BY <1>1, <3>1 DEF MetOnce
    <3>3. \A n : Collected(n) => Collected(n)'
      BY <1>1, <2>1 DEF Collected
    <3>4. \A p \in ran' : Pred(p)' = NoName \/ Collected(Pred(p))'
      BY <1>1, <2>1, <3>1, <3>3 DEF MetOnce, Pred
    <3>5. ~again' /\ roots' \cap ran' = {}
      BY <1>1, <2>1, <3>1, <3>2 DEF MetOnce
    <3> QED
      BY <1>2, <1>4, <2>1, <3>4, <3>5 DEF MetOnce
  <2> QED
    BY <1>3, <2>2, <2>3, <2>4, <2>5
<1>6. CASE pc' = "roots" /\ cur' = NoObj /\ UNCHANGED <<ran, again>>
  <2>1. EligibleInv'
    BY <1>1, <1>2, <1>6 DEF EligibleInv
  <2>2. PhaseInv'
    BY <1>1, <1>6 DEF PhaseInv, Pred
  <2>3. JustifiedInv'
    BY <1>1, <1>2, <1>6 DEF JustifiedInv, PredecessorFirst, Pred
  <2>4. OnceInv'
    <3> SUFFICES ASSUME Unambiguous' PROVE MetOnce'
      BY DEF OnceInv
    <3>1. MetOnce
      BY <1>1 DEF OnceInv, Unambiguous
    <3>2. \A n : Collected(n) => Collected(n)'
      BY <1>1, <1>6, ObjAssumption DEF Collected, TypeOK
    <3>3. \A p \in ran' : Pred(p)' = NoName \/ Collected(Pred(p))'
      BY <1>1, <1>6, <3>1, <3>2 DEF MetOnce, Pred
    <3> QED
      BY <1>1, <1>2, <1>4, <1>6, <3>1, <3>3 DEF MetOnce
  <2> QED
    BY <1>3, <2>1, <2>2, <2>3, <2>4
<1> QED
  BY <1>5, <1>6 DEF ExecuteDAG

LEMMA FinishSQLStep ==
    ASSUME WalkInv, TypeOK', FinishSQL PROVE WalkInv'
<1> USE DEF WalkInv, registry, runTimes, timer, walk, history
<1>1. /\ pc = "exec" /\ pc' = "collect"
      /\ UNCHANGED <<attr, alloc, tasks, roots, stack, cur, ran, again, eligible>>
  BY DEF FinishSQL
<1>2. \A p : Pending(p)' <=> Pending(p)
  BY <1>1 DEF Pending, InFrame
<1>3. PointersInv' /\ EligibleInv'
  BY <1>1, <1>2 DEF PointersInv, EligibleInv
<1>4. PhaseInv'
  BY <1>1 DEF PhaseInv, Pred
<1>5. \A n : (HasRun(n)' <=> HasRun(n)) /\ (Collected(n)' <=> Collected(n))
  BY <1>1 DEF HasRun, Collected
<1>6. JustifiedInv'
  BY <1>1, <1>2, <1>5 DEF JustifiedInv, PredecessorFirst, Pred
<1>7. OnceInv'
  BY <1>1, <1>2, <1>5 DEF OnceInv, Unambiguous, MetOnce, DisjointFrames, Pred
<1> QED
  BY <1>3, <1>4, <1>6, <1>7

LEMMA CollectSuccessorsStep ==
    ASSUME WalkInv, LiveInv, TypeOK', CollectSuccessors PROVE WalkInv'
<1> USE DEF WalkInv, registry, runTimes, timer, walk, history
<1> DEFINE succ == {o \in Objs : IsSuccessor(o, attr[cur].name)}
<1>1. /\ pc = "collect" /\ cur' = NoObj
      /\ stack' = (IF succ = {} THEN stack ELSE Append(stack, succ))
      /\ pc' = (IF stack' = << >> THEN "roots" ELSE "succ")
      /\ UNCHANGED <<attr, alloc, tasks, state, roots, ran, again, eligible>>
  BY DEF CollectSuccessors
<1>2. /\ cur \in Objs /\ cur \in ran /\ cur \in eligible
      /\ stack \in Seq(SUBSET Objs) /\ NoObj \notin ran /\ succ \in SUBSET Objs
  BY <1>1, ObjAssumption DEF TypeOK, PhaseInv, EligibleInv
<1>3. \A o \in succ : Pred(o) = attr[cur].name /\ Pred(o) # NoName /\ o \in eligible
  <2>1. attr[cur].name \in Names
    BY <1>2, AttrType
  <2>2. Live \subseteq eligible
    BY <1>1 DEF LiveInv
  <2> QED
    BY <2>1, <2>2, NameAssumption DEF IsSuccessor
<1> HIDE DEF succ
<1>4. \A o \in Objs : Pending(o)' => Pending(o) \/ o \in succ
  BY <1>1, <1>2, PushFrame DEF Pending
<1>5. \A n : (HasRun(n) => HasRun(n)') /\ (Collected(n)' <=> HasRun(n))
  BY <1>1, <1>2 DEF HasRun, Collected
<1>6. PointersInv'
  BY <1>1 DEF PointersInv
<1>7. EligibleInv'
  BY <1>1, <1>3, <1>4 DEF EligibleInv
<1>8. PhaseInv'
  BY <1>1 DEF PhaseInv, Pred
<1>9. JustifiedInv'
  <2>1. \A o \in succ : HasRun(Pred(o))
    BY <1>2, <1>3 DEF HasRun
  <2>2. \A o \in Objs : Pending(o)' => Pred(o)' # NoName /\ HasRun(Pred(o))'
    BY <1>1, <1>3, <1>4, <1>5, <2>1 DEF JustifiedInv, Pred
  <2> QED
    BY <1>1, <2>2 DEF JustifiedInv, PredecessorFirst, Pred
<1>10. OnceInv'
  <2> SUFFICES ASSUME Unambiguous' PROVE MetOnce'
    BY DEF OnceInv
  <2>1. Unambiguous /\ MetOnce
    BY <1>1 DEF OnceInv, Unambiguous
  <2>2. ~Collected(attr[cur].name)
    BY <1>2, <2>1 DEF Collected, Unambiguous, EligibleInv
  <2>3. \A o \in succ : o \notin ran /\ ~Pending(o)
    BY <1>2, <1>3, <2>1, <2>2 DEF MetOnce
  <2>4. \A n : Collected(n) => Collected(n)'
    BY <1>5 DEF HasRun, Collected
  <2>5. \A o \in succ : Collected(Pred(o))'
    BY <1>1, <1>2, <1>3, <1>5 DEF HasRun, Pred
  <2>6. \A o \in Objs : Pending(o)' => o \notin ran' /\ Collected(Pred(o))'
    BY <1>1, <1>4, <2>1, <2>3, <2>4, <2>5 DEF MetOnce, Pred
  <2>7. DisjointFrames(stack)'
    <3>1. DisjointFrames(stack) /\ \A o \in succ : ~InFrame(stack, o)
      BY <2>1, <2>3 DEF MetOnce, Pending
    <3>2. DisjointFrames(stack')
      BY <1>1, <1>2, <3>1, PushFrame
    <3> QED
      BY <3>2 DEF DisjointFrames
  <2>8. \A o \in ran' : Pred(o)' = NoName \/ Collected(Pred(o))'
    BY <1>1, <2>1, <2>4 DEF MetOnce, Pred
  <2> QED
    BY <1>1, <2>1, <2>6, <2>7, <2>8 DEF MetOnce
<1> QED
  BY <1>6, <1>7, <1>8, <1>9, <1>10

LEMMA VisitSuccessorStep ==
    ASSUME WalkInv, TypeOK', NEW o \in Objs, VisitSuccessor(o) PROVE WalkInv'
<1> USE DEF WalkInv, registry, runTimes, timer, walk, history
<1>1. /\ pc = "succ" /\ cur = NoObj /\ o \in Top
      /\ stack' = (IF Top = {o} THEN Rest ELSE Append(Rest, Top \ {o}))
      /\ UNCHANGED <<attr, alloc, tasks, roots, eligible>>
  BY DEF VisitSuccessor, PhaseInv
<1>2. stack \in Seq(SUBSET Objs) /\ Len(stack) > 0 /\ NoObj \notin ran
  BY <1>1, ObjAssumption DEF TypeOK
<1>3. /\ \A p \in Objs : Pending(p)' => Pending(p)
      /\ DisjointFrames(stack) => DisjointFrames(stack)' /\ ~Pending(o)'
  <2>1. /\ \A p \in Objs : InFrame(stack', p) => InFrame(stack, p)
        /\ DisjointFrames(stack) => DisjointFrames(stack') /\ ~InFrame(stack', o)
    BY <1>1, <1>2, PopObject DEF Top, Rest
  <2> QED
    BY <2>1 DEF Pending, InFrame, DisjointFrames
<1>4. Pending(o)
  BY <1>1, <1>2 DEF Pending, InFrame, Top
<1>5. PointersInv'
  BY <1>1 DEF PointersInv
<1>6. CASE StartSQL(o)
  <2>1. cur' = o /\ pc' = "exec" /\ ran' = ran \cup {o} /\ again' = (again \/ o \in ran)
    BY <1>6 DEF StartSQL
  <2>2. EligibleInv'
    BY <1>1, <1>3, <1>4, <2>1 DEF EligibleInv
  <2>3. PhaseInv'
    BY <1>1, <2>1 DEF PhaseInv, Pred
  <2>4. JustifiedInv'
    <3>1. \A n : HasRun(n) => HasRun(n)'
      BY <1>1, <2>1 DEF HasRun
    <3>2. \A p \in Objs : Pending(p)' => Pred(p)' # NoName /\ HasRun(Pred(p))'
      BY <1>1, <1>3, <3>1 DEF JustifiedInv, Pred
    <3>3. HasRun(Pred(o))
      BY <1>4 DEF JustifiedInv
    <3>4. PredecessorFirst'
      BY <1>1, <2>1, <3>3 DEF JustifiedInv, PredecessorFirst, HasRun, Pred
    <3> QED
      BY <3>2, <3>4 DEF JustifiedInv
  <2>5. OnceInv'
    <3> SUFFICES ASSUME Unambiguous' PROVE MetOnce'
      BY DEF OnceInv
    <3>1. MetOnce
      BY <1>1 DEF OnceInv, Unambiguous
    <3>2. o \notin ran /\ Collected(Pred(o)) /\ ~again
      BY <1>4, <3>1 DEF MetOnce
    <3>3. \A n : Collected(n) => Collected(n)'
      BY <1>1, <1>2, <2>1, <3>2 DEF Collected
    <3>4. \A p \in Objs : Pending(p)' => p \notin ran' /\ Collected(Pred(p))'
      BY <1>1, <1>3, <2>1, <3>1, <3>3 DEF MetOnce, Pred
    <3>5. \A p \in ran' : Pred(p)' = NoName \/ Collected(Pred(p))'
      BY <1>1, <2>1, <3>1, <3>2, <3>3 DEF MetOnce, Pred
    <3>6. o \notin roots
      BY <1>4 DEF PhaseInv, JustifiedInv
    <3>7. ~again' /\ roots' \cap ran' = {}
      BY <1>1, <2>1, <3>1, <3>2, <3>6 DEF MetOnce
    <3> QED
      BY <1>3, <2>1, <3>1, <3>4, <3>5, <3>7 DEF MetOnce
  <2> QED
    BY <1>5, <2>2, <2>3, <2>4, <2>5
<1>7. CASE /\ pc' = (IF stack' = << >> THEN "roots" ELSE "succ")
           /\ UNCHANGED <<cur, ran, again>>
  <2>1. EligibleInv' /\ PhaseInv'
    BY <1>1, <1>3, <1>7 DEF EligibleInv, PhaseInv, Pred
  <2>2. \A n : (HasRun(n)' <=> HasRun(n)) /\ (Collected(n)' <=> Collected(n))
    BY <1>1, <1>7 DEF HasRun, Collected
  <2>3. JustifiedInv'
    BY <1>1, <1>3, <1>7, <2>2 DEF JustifiedInv, PredecessorFirst, Pred
  <2>4. OnceInv'
    BY <1>1, <1>3, <1>7, <2>2 DEF OnceInv, Unambiguous, MetOnce, Pred
  <2> QED
    BY <1>5, <2>1, <2>3, <2>4
<1> QED
  BY <1>6, <1>7 DEF VisitSuccessor

(* DDL adds to the live objects only through a RESUME, which the history    *)
(* variable sees.                                                           *)
LEMMA LiveStep ==
    ASSUME TypeOK, PointersInv, LiveInv, [Next]_vars PROVE LiveInv'
<1> USE DEF LiveInv, Live, Registered, registry, runTimes, timer, walk, history
<1>1. ASSUME NEW a \in Definitions, NEW o \in Objs, CreateTask(a, o) PROVE LiveInv'
  BY <1>1 DEF CreateTask, TypeOK, PointersInv
<1>2. ASSUME NEW n \in Names, DropTask(n) PROVE LiveInv'
  BY <1>2, ObjAssumption DEF DropTask, TypeOK
<1>3. CASE AlterApply
  BY <1>3 DEF AlterApply, TypeOK
<1>4. CASE Reset
  BY <1>4, ObjAssumption DEF Reset
<1>5. CASE TickBegin
  BY <1>5 DEF TickBegin
<1>6. ASSUME UNCHANGED <<tasks, state, eligible>>,
             pc \in {"idle", "stopped"} => pc' \in {"idle", "stopped"}
      PROVE  LiveInv'
  BY <1>6
<1>7. ASSUME NEW n \in Names, NEW st \in States, AlterLookup(n, st) PROVE LiveInv'
  BY <1>6, <1>7 DEF AlterLookup
<1>8. CASE Second \/ Stop \/ LoopExit \/ UNCHANGED vars
  BY <1>6, <1>8 DEF Second, Stop, LoopExit, vars
<1>9. ASSUME NEW o \in Objs, VisitRoot(o) \/ VisitSuccessor(o) PROVE LiveInv'
  BY <1>6, <1>9 DEF VisitRoot, VisitSuccessor
<1>10. CASE ExecuteDAG \/ FinishSQL \/ CollectSuccessors
  BY <1>6, <1>10 DEF ExecuteDAG, FinishSQL, CollectSuccessors
<1>11. CASE TickEnd
  BY <1>11 DEF TickEnd
<1> QED
  BY <1>1, <1>2, <1>3, <1>4, <1>5, <1>7, <1>8, <1>9, <1>10, <1>11
     DEF Next, DDL, Walk, Stopped

LEMMA InductiveInvariant == Spec => []IInv
<1>1. Init => IInv
  BY InitInv DEF IInv, LiveInv, Init
<1>2. IInv /\ [Next]_vars => IInv'
  <2> SUFFICES ASSUME IInv, [Next]_vars PROVE IInv'
    OBVIOUS
  <2>1. TypeOK'
    BY StepType DEF IInv, WalkInv
  <2>2. LiveInv'
    BY LiveStep DEF IInv, WalkInv
  <2>3. WalkInv'
    <3>1. CASE DDL
      BY <2>1, <3>1, DDLStep DEF IInv
    <3>2. CASE Second \/ Stop \/ UNCHANGED vars
      BY <2>1, <3>2, SecondOrStopStep DEF IInv
    <3>3. CASE TickBegin \/ TickEnd \/ LoopExit
      BY <2>1, <3>3, TickBoundaryStep DEF IInv
    <3>4. CASE Walk
      BY <2>1, <3>3, <3>4, VisitRootStep, ExecuteDAGStep, FinishSQLStep,
         CollectSuccessorsStep, VisitSuccessorStep DEF IInv, Walk
    <3> QED
      BY <3>1, <3>2, <3>3, <3>4 DEF Next, Stopped
  <2> QED
    BY <2>2, <2>3 DEF IInv
<1> QED
  BY <1>1, <1>2, PTL DEF Spec

(* A tick runs no task twice unless a task was replaced while the tick was  *)
(* under way: for every task graph, cyclic or not, and every interleaving   *)
(* of DDL with the walk of executeDAG and runSuccessors.                    *)
THEOREM NoDoubleRun == Spec => []OncePerTick
<1>1. IInv => OncePerTick
  BY DEF IInv, WalkInv, OnceInv, MetOnce, OncePerTick
<1> QED
  BY <1>1, InductiveInvariant, PTL

(* What executeDAG and runSuccessors run was registered and started at some *)
(* moment of the tick.                                                      *)
THEOREM OnlyEligibleRun == Spec => []RanWasEligible
<1>1. IInv => RanWasEligible
  BY DEF IInv, WalkInv, EligibleInv, RanWasEligible
<1> QED
  BY <1>1, InductiveInvariant, PTL

(* A task runs after a task of its predecessor's name, in the same tick. *)
THEOREM PredecessorsRunFirst == Spec => []PredecessorFirst
<1>1. IInv => PredecessorFirst
  BY DEF IInv, WalkInv, JustifiedInv
<1> QED
  BY <1>1, InductiveInvariant, PTL

----------------------------------------------------------------------------
(* The schedule. *)

(* A schedule never names a time before the one it is asked from. *)
LEMMA NextRunLater ==
    ASSUME NEW d \in Definitions, NEW t \in Time
    PROVE  nextRunTime(d.sched, t) >= t
<1>1. d \in Attrs
  BY DefinitionAssumption
<1>2. d.sched \in Scheds /\ t \in Nat /\ Minute \in Nat /\ d.sched.n \in Nat
  BY <1>1, TimeAssumption DEF Attrs, Scheds, Time
<1>3. d.sched.n * Minute \in Nat
  BY <1>2
<1>4. d.sched.kind = "cron" => CronNext(d.sched.n, t) \in Nat /\ CronNext(d.sched.n, t) > t
  BY CronAssumption
<1> QED
  BY <1>2, <1>3, <1>4 DEF nextRunTime

(* NextRunAt is set, and is no earlier than one interval after LastRunAt. *)
Spaced(o) == /\ nextRun[o] # Never
             /\ nextRun[o] >= nextRunTime(attr[o].sched, lastRun[o])

(* The run times agree with each other for every task that has a schedule   *)
(* and has run; an object that CREATE TASK has not filled in has none; and  *)
(* the walk remembers what tick found out about a root.                     *)
IntervalInv ==
    /\ \A o \in Objs : lastRun[o] # Never /\ Scheduled(o) => Spaced(o)
    /\ \A o \in Objs \ alloc : lastRun[o] = Never
    /\ \A o \in roots : Scheduled(o)
    /\ pc = "dag" => Scheduled(cur) /\ nextRun[cur] # Never /\ now >= nextRun[cur]

(* A step that moves no run time and leaves alone what the walk holds. *)
LEMMA RunTimesUntouched ==
    ASSUME IInv, IntervalInv, UNCHANGED <<runTimes, now, cur>>,
           alloc \subseteq alloc', roots' \subseteq roots, pc' = "dag" => pc = "dag",
           \A o \in Objs : lastRun[o] # Never \/ o \in eligible => attr'[o] = attr[o]
    PROVE  IntervalInv'
<1> USE DEF IInv, WalkInv, runTimes
<1>1. \A o \in Objs : lastRun'[o] # Never /\ Scheduled(o)' => Spaced(o)'
  BY DEF IntervalInv, Scheduled, Spaced
<1>2. \A o \in Objs \ alloc' : lastRun'[o] = Never
  BY DEF IntervalInv
<1>3. \A o \in roots' : Scheduled(o)'
  BY DEF IntervalInv, EligibleInv, Scheduled, TypeOK
<1>4. pc' = "dag" => Scheduled(cur)' /\ nextRun'[cur'] # Never /\ now' >= nextRun'[cur']
  BY ObjAssumption DEF IntervalInv, EligibleInv, Scheduled, TypeOK
<1> QED
  BY <1>1, <1>2, <1>3, <1>4 DEF IntervalInv

LEMMA IntervalDDL ==
    ASSUME IInv, IntervalInv, DDL PROVE IntervalInv'
<1> USE DEF registry, walk, history
<1>1. ASSUME NEW a \in Definitions, NEW o \in Objs, CreateTask(a, o) PROVE IntervalInv'
  <2>1. \A p \in Objs : lastRun[p] # Never \/ p \in eligible => p # o
    BY <1>1 DEF CreateTask, IntervalInv, IInv, WalkInv, PointersInv
  <2>2. \A p \in Objs : lastRun[p] # Never \/ p \in eligible => attr'[p] = attr[p]
    BY <1>1, <2>1 DEF CreateTask, IInv, WalkInv, TypeOK
  <2>3. UNCHANGED <<runTimes, now, cur, roots, pc>> /\ alloc \subseteq alloc'
    BY <1>1 DEF CreateTask
  <2> QED
    BY <2>2, <2>3, RunTimesUntouched
<1>2. CASE AlterApply \/ Reset \/ \E n \in Names : DropTask(n) \/ \E st \in States : AlterLookup(n, st)
  <2>1. UNCHANGED <<runTimes, now, cur, roots, pc, alloc, attr>>
    BY <1>2 DEF AlterApply, Reset, DropTask, AlterLookup
  <2> QED
    BY <2>1, RunTimesUntouched
<1> QED
  BY <1>1, <1>2 DEF DDL

LEMMA IntervalTick ==
    ASSUME IInv, IntervalInv, TickBegin PROVE IntervalInv'
<1>1. UNCHANGED <<alloc, attr, nextRun, lastRun>> /\ pc' = "roots"
  BY DEF TickBegin, registry, runTimes
<1>2. \A o \in roots' : Scheduled(o)'
  BY DEF TickBegin, IsRoot, Scheduled, registry
<1> QED
  BY <1>1, <1>2 DEF IntervalInv, Scheduled, Spaced

(* The first visit of a root sets NextRunAt; it has not run before. *)
LEMMA IntervalVisitRoot ==
    ASSUME IInv, IntervalInv, NEW o \in Objs, VisitRoot(o) PROVE IntervalInv'
<1> USE DEF IInv, WalkInv, TypeOK
<1>0. UNCHANGED <<alloc, attr, lastRun, now>> /\ o \in roots /\ roots' = roots \ {o}
  BY DEF VisitRoot, registry
<1>1. \A p \in roots' : Scheduled(p)'
  BY <1>0 DEF IntervalInv, Scheduled
<1>2. \A p \in Objs \ alloc' : lastRun'[p] = Never
  BY <1>0 DEF IntervalInv
<1>3. \A p \in Objs : lastRun'[p] # Never /\ Scheduled(p)' => Spaced(p)'
  <2>1. \/ nextRun' = nextRun
        \/ nextRun[o] = Never /\ \A p \in Objs : p # o => nextRun'[p] = nextRun[p]
    BY DEF VisitRoot
  <2>2. nextRun[o] = Never => lastRun[o] = Never
    BY <1>0 DEF IntervalInv, Spaced
  <2> QED
    BY <1>0, <2>1, <2>2 DEF IntervalInv, Scheduled, Spaced
<1>4. pc' = "dag" => cur' = o /\ nextRun' = nextRun /\ nextRun[o] # Never /\ now >= nextRun[o]
  BY DEF VisitRoot
<1>5. pc' = "dag" => Scheduled(cur)' /\ nextRun'[cur'] # Never /\ now' >= nextRun'[cur']
  BY <1>0, <1>4 DEF IntervalInv, Scheduled
<1> QED
  BY <1>1, <1>2, <1>3, <1>5 DEF IntervalInv

(* A WHEN condition that fails moves NextRunAt on, from a time that was due. *)
LEMMA IntervalExecuteDAG ==
    ASSUME IInv, IntervalInv, ExecuteDAG PROVE IntervalInv'
<1> USE DEF IInv, WalkInv, TypeOK
<1>0. /\ UNCHANGED <<alloc, attr, lastRun, now, roots>> /\ pc' # "dag" /\ pc = "dag"
      /\ cur \in Objs
  BY DEF ExecuteDAG, StartSQL, registry
<1>1. CASE nextRun' = nextRun
  BY <1>0, <1>1 DEF IntervalInv, Scheduled, Spaced
<1>2. CASE nextRun' = [nextRun EXCEPT ![cur] = nextRunTime(attr[cur].sched, now)]
  <2> DEFINE t == nextRunTime(attr[cur].sched, now)
             u == nextRunTime(attr[cur].sched, lastRun[cur])
  <2>1. t \in Nat /\ t >= now /\ now \in Nat
    BY <1>0, NextRunType, NextRunLater DEF Time
  <2>2. lastRun[cur] # Never => u \in Nat
    BY <1>0, NextRunType
  <2>3. nextRun[cur] # Never /\ now >= nextRun[cur] /\ Scheduled(cur) /\ nextRun[cur] \in Nat
    BY <1>0 DEF IntervalInv
  <2>4. lastRun[cur] # Never => nextRun[cur] >= u
    BY <1>0, <2>3 DEF IntervalInv, Spaced
  <2>5. nextRun'[cur] = t /\ \A p \in Objs : p # cur => nextRun'[p] = nextRun[p]
    BY <1>0, <1>2
  <2>6. t # Never
    BY <2>1, NeverAssumption
  <2>7. lastRun[cur] # Never => nextRun'[cur] # Never /\ nextRun'[cur] >= u
    <3> HIDE DEF t, u
    <3> QED
      BY <2>1, <2>2, <2>3, <2>4, <2>5, <2>6
  <2>8. \A p \in Objs : lastRun'[p] # Never /\ Scheduled(p)' => Spaced(p)'
    <3> SUFFICES ASSUME NEW p \in Objs, lastRun'[p] # Never, Scheduled(p)' PROVE Spaced(p)'
      OBVIOUS
    <3>1. CASE p = cur
      BY <1>0, <2>7, <3>1 DEF Spaced
    <3>2. CASE p # cur
      BY <1>0, <2>5, <3>2 DEF IntervalInv, Scheduled, Spaced
    <3> QED
      BY <3>1, <3>2
  <2> QED
    BY <1>0, <2>8 DEF IntervalInv, Scheduled
<1> QED
  BY <1>1, <1>2 DEF ExecuteDAG

(* A run sets both times from the same tick. *)
LEMMA IntervalFinishSQL ==
    ASSUME IInv, IntervalInv, FinishSQL PROVE IntervalInv'
<1> USE DEF IInv, WalkInv, TypeOK
<1>0. /\ UNCHANGED <<alloc, attr, now, cur, roots>> /\ pc' # "dag" /\ cur \in Objs
      /\ cur \in alloc
  BY ObjAssumption DEF FinishSQL, registry, walk, EligibleInv, PointersInv
<1>1. lastRun'[cur] = now /\ \A p \in Objs : p # cur => lastRun'[p] = lastRun[p]
  BY <1>0 DEF FinishSQL
<1>2. \A p \in Objs : p # cur => nextRun'[p] = nextRun[p]
  BY <1>0 DEF FinishSQL
<1>3. Scheduled(cur) => nextRun'[cur] = nextRunTime(attr[cur].sched, now)
  BY <1>0 DEF FinishSQL
<1>4. nextRunTime(attr[cur].sched, now) \in Nat
  BY <1>0, NextRunType
<1>5. \A p \in Objs : lastRun'[p] # Never /\ Scheduled(p)' => Spaced(p)'
  <2> SUFFICES ASSUME NEW p \in Objs, lastRun'[p] # Never, Scheduled(p)' PROVE Spaced(p)'
    OBVIOUS
  <2>1. CASE p = cur
    <3>1. nextRun'[p] = nextRunTime(attr[cur].sched, now)
      BY <1>0, <1>3, <2>1 DEF Scheduled
    <3>2. nextRunTime(attr'[p].sched, lastRun'[p]) = nextRunTime(attr[cur].sched, now)
      BY <1>0, <1>1, <2>1
    <3> QED
      BY <1>4, <3>1, <3>2, NeverAssumption DEF Spaced
  <2>2. CASE p # cur
    BY <1>0, <1>1, <1>2, <2>2 DEF IntervalInv, Scheduled, Spaced
  <2> QED
    BY <2>1, <2>2
<1>6. \A p \in Objs \ alloc' : lastRun'[p] = Never
  BY <1>0, <1>1 DEF IntervalInv
<1> QED
  BY <1>0, <1>5, <1>6 DEF IntervalInv, Scheduled

LEMMA IntervalStep ==
    ASSUME IInv, IntervalInv, [Next]_vars PROVE IntervalInv'
<1> USE DEF registry, runTimes, walk
<1>1. CASE Second \/ Stop \/ LoopExit \/ TickEnd \/ UNCHANGED vars
  <2>1. UNCHANGED <<runTimes, now, cur, roots, alloc, attr>> /\ (pc' = "dag" => pc = "dag")
    BY <1>1 DEF Second, Stop, LoopExit, TickEnd, vars
  <2> QED
    BY <2>1, RunTimesUntouched
<1>2. CASE CollectSuccessors \/ \E o \in Objs : VisitSuccessor(o)
  <2>1. UNCHANGED <<runTimes, now, roots, alloc, attr>> /\ pc' # "dag"
    BY <1>2 DEF CollectSuccessors, VisitSuccessor, StartSQL
  <2> QED
    BY <2>1 DEF IntervalInv, Scheduled, Spaced
<1> QED
  BY <1>1, <1>2, IntervalDDL, IntervalTick, IntervalVisitRoot, IntervalExecuteDAG,
     IntervalFinishSQL DEF Next, Walk, Stopped

(* executeDAG starts a root only one interval or one cron step after the    *)
(* tick of its last run; runSuccessors starts no root at all.               *)
LEMMA StartIsDue ==
    ASSUME IInv, IntervalInv, [Next]_vars, NEW o \in Objs,
           StartsRun(o), Pred(o) = NoName, lastRun[o] # Never
    PROVE  now >= nextRunTime(attr[o].sched, lastRun[o])
<1> USE DEF IInv, WalkInv, TypeOK
<1>1. ExecuteDAG \/ \E p \in Objs : VisitSuccessor(p)
  BY DEF StartsRun, Next, DDL, CreateTask, DropTask, AlterLookup, AlterApply, Reset,
         Second, TickBegin, Walk, VisitRoot, FinishSQL, CollectSuccessors, TickEnd,
         Stop, LoopExit, Stopped, vars, walk
<1>2. CASE ExecuteDAG
  <2>1. pc = "dag" /\ cur = o
    BY <1>2 DEF ExecuteDAG, StartSQL, StartsRun
  <2>2. Spaced(o) /\ now >= nextRun[o]
    BY <2>1 DEF IntervalInv
  <2>3. nextRunTime(attr[o].sched, lastRun[o]) \in Nat /\ nextRun[o] \in Nat /\ now \in Nat
    BY <2>2, NextRunType DEF Spaced, Time
  <2> QED
    BY <2>2, <2>3 DEF Spaced
<1>3. ASSUME NEW p \in Objs, VisitSuccessor(p) PROVE FALSE
  <2>1. pc = "succ" /\ p \in Top /\ p = o
    BY <1>3 DEF VisitSuccessor, StartSQL, StartsRun
  <2>2. Len(stack) \in 1 .. Len(stack)
    BY <2>1
  <2>3. Pending(o)
    BY <2>1, <2>2 DEF Pending, InFrame, Top
  <2> QED
    BY <2>3 DEF JustifiedInv
<1> QED
  BY <1>1, <1>2, <1>3

(* A root never runs before its schedule says so, counted from the tick of  *)
(* its previous run: for every schedule, every WHEN outcome and every       *)
(* interleaving of DDL with executeDAG.                                     *)
THEOREM ScheduleKept == Spec => IntervalRespected
<1>1. Init => IntervalInv
  BY DEF Init, IntervalInv
<1>2. IInv /\ IntervalInv /\ [Next]_vars => IntervalInv'
  BY IntervalStep
<1>3. IInv /\ IntervalInv /\ [Next]_vars =>
        [\A o \in Objs :
            (StartsRun(o) /\ Pred(o) = NoName /\ lastRun[o] # Never)
              => now >= nextRunTime(attr[o].sched, lastRun[o])]_vars
  BY StartIsDue
<1> QED
  BY <1>1, <1>2, <1>3, InductiveInvariant, PTL DEF Spec, IntervalRespected

----------------------------------------------------------------------------
(* GetDependencyOrder *)

(* The members of a list. *)
Elements(s) == {s[i] : i \in 1 .. Len(s)}

(* The tasks with a predecessor, and those whose predecessor is listed. *)
Later == {t \in Tasks : predOf[t] # NoTask}
After == {t \in Tasks : predOf[t] \in Elements(order)}

(* The tasks that wait for their predecessor: the ones of degree one. *)
Waiting == Later \ (IF orderAt = "loop" THEN After \ pending ELSE After)

OrderType ==
    /\ orderAt \in {"idle", "build", "seed", "loop", "done"}
    /\ Tasks \in SUBSET TaskNames /\ predOf \in [Tasks -> TaskNames \cup {NoTask}]
    /\ pending \subseteq TaskNames /\ nodes \subseteq TaskNames
    /\ inDegree \in [TaskNames -> Int] /\ adj \in [TaskNames -> SUBSET TaskNames]
    /\ queue \in Seq(TaskNames) /\ order \in Seq(TaskNames)

Graph(added) ==
    /\ nodes = added \cup ({predOf[t] : t \in added} \ {NoTask})
    /\ \A n \in TaskNames : adj[n] = {t \in added : predOf[t] = n}

Degrees(ones) == \A n \in TaskNames : inDegree[n] = IF n \in ones THEN 1 ELSE 0

(* What the list of the nodes taken (the first k) and queued is like: no    *)
(* node twice, predecessors taken before, and nothing behind a cycle.       *)
ListOK(all, k) ==
    /\ \A i, j \in 1 .. Len(all) : all[i] = all[j] => i = j
    /\ \A i \in 1 .. Len(all) : all[i] \in Later =>
          \E j \in 1 .. k : j < i /\ all[j] = predOf[all[i]]
    /\ \A C \in SUBSET Tasks : Circular(C) => C \cap Elements(all) = {}

(* While the graph is built, nodes, edges and degrees are those of the      *)
(* tasks seen; from then on the list of nodes taken and queued is sound and *)
(* complete up to the tasks that wait.                                      *)
OrderInv ==
    /\ OrderType
    /\ orderAt = "idle" => /\ nodes = {} /\ queue = <<>> /\ order = <<>>
                           /\ \A n \in TaskNames : inDegree[n] = 0 /\ adj[n] = {}
    /\ orderAt = "build" => /\ pending \subseteq Tasks /\ queue = <<>> /\ order = <<>>
                            /\ Graph(Tasks \ pending) /\ Degrees(Later \ pending)
    /\ orderAt \in {"seed", "loop", "done"} =>
          /\ Graph(Tasks) /\ Degrees(Waiting)
          /\ ListOK(order \o queue, Len(order))
    /\ orderAt = "seed" => /\ order = <<>> /\ pending \subseteq nodes
                           /\ Elements(order \o queue) = (nodes \ Later) \ pending
    /\ orderAt \in {"loop", "done"} => Elements(order \o queue) = nodes \ Waiting
    /\ orderAt = "loop" => pending \subseteq After
    /\ orderAt = "done" => queue = <<>>

(* A node whose predecessor is taken, or that has none, may join the list. *)
LEMMA ListAppend ==
    ASSUME OrderType, NEW all \in Seq(TaskNames), NEW k \in 0 .. Len(all), ListOK(all, k),
           NEW x \in TaskNames, x \notin Elements(all),
           x \in Later => \E j \in 1 .. k : all[j] = predOf[x]
    PROVE  ListOK(Append(all, x), k) /\ Elements(Append(all, x)) = Elements(all) \cup {x}
<1> DEFINE longer == Append(all, x)
           n      == Len(all)
<1>1. /\ n \in Nat /\ Len(longer) = n + 1 /\ longer[n + 1] = x
      /\ \A i \in 1 .. n : longer[i] = all[i] /\ all[i] \in TaskNames
  OBVIOUS
<1> HIDE DEF longer, n
<1>2. 1 .. Len(longer) = (1 .. n) \cup {n + 1}
  BY <1>1
<1>3. /\ \A i, j \in 1 .. n : all[i] = all[j] => i = j
      /\ \A i \in 1 .. n : all[i] \in Later => \E j \in 1 .. k : j < i /\ all[j] = predOf[all[i]]
      /\ \A C \in SUBSET Tasks : Circular(C) => C \cap Elements(all) = {}
  BY DEF ListOK, n
<1>4. Elements(longer) = Elements(all) \cup {x}
  BY <1>1, <1>2 DEF Elements, n
<1>5. \A i \in 1 .. n : all[i] \in Elements(all)
  BY DEF Elements, n
<1>6. \A i, j \in 1 .. Len(longer) : longer[i] = longer[j] => i = j
  BY <1>1, <1>2, <1>3, <1>5
<1>7. \A i \in 1 .. Len(longer) : longer[i] \in Later =>
          \E j \in 1 .. k : j < i /\ longer[j] = predOf[longer[i]]
  <2>1. k \in Nat /\ k <= n /\ \A j \in 1 .. k : j \in 1 .. n /\ longer[j] = all[j] /\ j < n + 1
    BY <1>1 DEF n
  <2> QED BY <1>1, <1>2, <1>3, <2>1
<1>8. ASSUME NEW C \in SUBSET Tasks, Circular(C) PROVE C \cap Elements(longer) = {}
  <2>1. C \cap Elements(all) = {}
    BY <1>3, <1>8
  <2>2. SUFFICES ASSUME x \in C PROVE FALSE
    BY <1>4, <2>1
  <2>3. predOf[x] \in C /\ x \in Tasks
    BY <1>8, <2>2 DEF Circular
  <2>4. x \in Later
    BY <2>3, OrderAssumption DEF Later, OrderType
  <2>5. predOf[x] \in Elements(all)
    BY <1>1, <2>4 DEF Elements, n
  <2> QED BY <2>1, <2>3, <2>5
<1> QED BY <1>4, <1>6, <1>7, <1>8 DEF ListOK, longer

LEMMA QueueAppend ==
    ASSUME order \in Seq(TaskNames), queue \in Seq(TaskNames), NEW x \in TaskNames
    PROVE  order \o Append(queue, x) = Append(order \o queue, x)
  OBVIOUS

LEMMA QueueTake ==
    ASSUME order \in Seq(TaskNames), queue \in Seq(TaskNames), queue # <<>>
    PROVE  /\ Append(order, Head(queue)) \o Tail(queue) = order \o queue
           /\ Head(queue) \in TaskNames /\ Tail(queue) \in Seq(TaskNames)
           /\ Append(order, Head(queue)) \in Seq(TaskNames)
           /\ Len(Append(order, Head(queue))) = Len(order) + 1
           /\ Elements(Append(order, Head(queue))) = Elements(order) \cup {Head(queue)}
  <1>1. /\ Append(order, Head(queue)) \o Tail(queue) = order \o queue
    OBVIOUS
  <1>2. Head(queue) \in TaskNames /\ Tail(queue) \in Seq(TaskNames)
    OBVIOUS
  <1>3. Elements(Append(order, Head(queue))) = Elements(order) \cup {Head(queue)}
    BY <1>2 DEF Elements
  <1> QED BY <1>1, <1>2, <1>3, AppendProperties

(* A step that keeps the tasks keeps what is said about a list of them. *)
LEMMA OrderFixed ==
    ASSUME predOf' = predOf
    PROVE  /\ Tasks' = Tasks /\ Later' = Later
           /\ \A all, k : ListOK(all, k)' = ListOK(all, k)
           /\ \A added : nodes' = nodes /\ adj' = adj => Graph(added)' = Graph(added)
  BY DEF Tasks, Later, ListOK, Circular, Graph

LEMMA OrderAsked ==
    ASSUME OrderInv, NEW S \in SUBSET TaskNames, NEW preds \in [S -> TaskNames \cup {NoTask}],
           orderAt = "idle", GetDependencyOrder(preds)
    PROVE  OrderInv'
<1>1. OrderType'
  BY DEF OrderInv, OrderType, GetDependencyOrder, Tasks
<1>2. Tasks' \ pending' = {} /\ pending' \subseteq Tasks' /\ Later' \ pending' = {}
  BY DEF GetDependencyOrder, Tasks, Later
<1>3. Graph(Tasks \ pending)' /\ Degrees(Later \ pending)'
  BY <1>2 DEF OrderInv, GetDependencyOrder, Graph, Degrees
<1> QED BY <1>1, <1>2, <1>3 DEF OrderInv, GetDependencyOrder

LEMMA OrderAdds ==
    ASSUME OrderInv, NEW t \in TaskNames, AddTask(t)
    PROVE  OrderInv'
<1> DEFINE added == Tasks \ pending
           p     == predOf[t]
<1>1. /\ OrderType /\ pending \subseteq Tasks /\ queue = <<>> /\ order = <<>>
      /\ Graph(added) /\ Degrees(Later \ pending) /\ orderAt = "build"
      /\ t \in pending /\ t \in Tasks /\ p \in TaskNames \cup {NoTask}
  BY DEF OrderInv, AddTask, OrderType
<1>2. /\ pending' = pending \ {t} /\ nodes' = nodes \cup ({t, p} \ {NoTask})
      /\ IF p = NoTask THEN UNCHANGED <<inDegree, adj>>
         ELSE /\ inDegree' = [inDegree EXCEPT ![t] = @ + 1]
              /\ adj' = [adj EXCEPT ![p] = @ \cup {t}]
      /\ UNCHANGED <<orderAt, predOf, queue, order>>
  BY DEF AddTask
<1>3. Tasks' = Tasks /\ Later' = Later
  BY <1>2, OrderFixed
<1>4. OrderType'
  BY <1>1, <1>2, <1>3 DEF OrderType
<1>5. Tasks' \ pending' = added \cup {t}
  BY <1>1, <1>2, <1>3
<1>6. nodes' = (added \cup {t}) \cup ({predOf'[u] : u \in added \cup {t}} \ {NoTask})
  BY <1>1, <1>2, OrderAssumption DEF Graph
<1>7. ASSUME NEW n \in TaskNames PROVE adj'[n] = {u \in added \cup {t} : predOf'[u] = n}
  <2>1. adj[n] = {u \in added : predOf[u] = n}
    BY <1>1 DEF Graph
  <2>2. adj'[n] = IF n = p THEN adj[n] \cup {t} ELSE adj[n]
    BY <1>1, <1>2, OrderAssumption DEF OrderType
  <2> QED BY <1>2, <2>1, <2>2
<1>8. Graph(Tasks \ pending)'
  BY <1>5, <1>6, <1>7 DEF Graph
<1>9. Degrees(Later \ pending)'
  <2> SUFFICES ASSUME NEW n \in TaskNames
               PROVE  inDegree'[n] = IF n \in Later' \ pending' THEN 1 ELSE 0
    BY DEF Degrees
  <2>1. inDegree[n] = IF n \in Later \ pending THEN 1 ELSE 0
    BY <1>1 DEF Degrees
  <2>2. n # t => inDegree'[n] = inDegree[n]
    BY <1>1, <1>2 DEF OrderType
  <2>3. n = t => inDegree'[n] = IF p = NoTask THEN inDegree[n] ELSE inDegree[n] + 1
    BY <1>1, <1>2 DEF OrderType
  <2>4. t \in Later <=> p # NoTask
    BY <1>1 DEF Later
  <2> QED BY <1>1, <1>2, <1>3, <2>1, <2>2, <2>3, <2>4
<1> QED BY <1>1, <1>2, <1>3, <1>4, <1>8, <1>9 DEF OrderInv

LEMMA OrderBuilt ==
    ASSUME OrderInv, Built
    PROVE  OrderInv'
<1>1. /\ OrderType /\ queue = <<>> /\ order = <<>> /\ Graph(Tasks) /\ Degrees(Later)
      /\ orderAt = "build" /\ pending = {}
  <2>1. Tasks \ {} = Tasks /\ Later \ {} = Later
    OBVIOUS
  <2> QED BY <2>1 DEF OrderInv, Built
<1>2. /\ orderAt' = "seed" /\ pending' = nodes
      /\ UNCHANGED <<predOf, nodes, inDegree, adj, queue, order>>
  BY DEF Built
<1>3. /\ Tasks' = Tasks /\ Later' = Later /\ Graph(Tasks)'
  BY <1>1, <1>2, OrderFixed
<1>4. OrderType'
  BY <1>1, <1>2, <1>3 DEF OrderType
<1>5. Elements(order') = {} /\ order' \o queue' = <<>> /\ Elements(<<>>) = {}
  BY <1>1, <1>2 DEF Elements
<1>6. Waiting' = Later
  BY <1>2, <1>3, <1>5 DEF Waiting, After
<1>7. Degrees(Waiting)'
  BY <1>1, <1>2, <1>6 DEF Degrees
<1>8. ListOK(order \o queue, Len(order))'
  BY <1>5 DEF ListOK
<1> QED BY <1>1, <1>2, <1>3, <1>4, <1>5, <1>7, <1>8 DEF OrderInv

LEMMA OrderSeeds ==
    ASSUME OrderInv, NEW n \in TaskNames, Seed(n)
    PROVE  OrderInv'
<1>1. /\ OrderType /\ order = <<>> /\ Graph(Tasks) /\ Degrees(Waiting)
      /\ ListOK(order \o queue, Len(order))
      /\ Elements(order \o queue) = (nodes \ Later) \ pending
      /\ orderAt = "seed" /\ n \in pending /\ pending \subseteq nodes
  BY DEF OrderInv, Seed
<1>2. /\ pending' = pending \ {n}
      /\ queue' = IF inDegree[n] = 0 THEN Append(queue, n) ELSE queue
      /\ UNCHANGED <<orderAt, predOf, nodes, inDegree, adj, order>>
  BY DEF Seed
<1>3. /\ Tasks' = Tasks /\ Later' = Later /\ Graph(Tasks)'
  BY <1>1, <1>2, OrderFixed
<1>4. OrderType'
  BY <1>1, <1>2, <1>3, AppendProperties DEF OrderType
<1>5. Waiting = Later /\ Waiting' = Later
  BY <1>1, <1>2, <1>3 DEF Waiting, After, Elements
<1>6. Degrees(Waiting)'
  BY <1>1, <1>2, <1>5 DEF Degrees
<1>7. ListOK(order \o queue, Len(order))' /\ Elements(order' \o queue') = (nodes \ Later) \ pending'
  <2>1. inDegree[n] = IF n \in Later THEN 1 ELSE 0
    BY <1>1, <1>5 DEF Degrees
  <2>2. CASE n \in Later
    BY <1>1, <1>2, <2>1, <2>2, OrderFixed
  <2>3. CASE n \notin Later
    <3>1. order' \o queue' = Append(order \o queue, n)
      BY <1>1, <1>2, <2>1, <2>3, QueueAppend DEF OrderType
    <3>2. order \o queue \in Seq(TaskNames) /\ Len(order) \in 0 .. Len(order \o queue)
      BY <1>1 DEF OrderType
    <3>3. ListOK(Append(order \o queue, n), Len(order))
          /\ Elements(Append(order \o queue, n)) = Elements(order \o queue) \cup {n}
      BY <1>1, <2>3, <3>2, ListAppend
    <3> QED BY <1>1, <1>2, <2>3, <3>1, <3>3, OrderFixed
  <2> QED BY <2>2, <2>3
<1> QED BY <1>1, <1>2, <1>3, <1>4, <1>6, <1>7 DEF OrderInv

LEMMA OrderSeeded ==
    ASSUME OrderInv, Seeded
    PROVE  OrderInv'
<1>1. /\ OrderType /\ order = <<>> /\ Graph(Tasks) /\ Degrees(Waiting)
      /\ ListOK(order \o queue, Len(order))
      /\ Elements(order \o queue) = nodes \ Later
      /\ orderAt = "seed" /\ pending = {}
  <2>1. (nodes \ Later) \ {} = nodes \ Later
    OBVIOUS
  <2> QED BY <2>1 DEF OrderInv, Seeded
<1>2. orderAt' = "loop" /\ UNCHANGED <<predOf, pending, nodes, inDegree, adj, queue, order>>
  BY DEF Seeded
<1>3. /\ Tasks' = Tasks /\ Later' = Later /\ Graph(Tasks)'
      /\ ListOK(order \o queue, Len(order))'
  BY <1>1, <1>2, OrderFixed
<1>4. OrderType'
  BY <1>1, <1>2, <1>3 DEF OrderType
<1>5. Waiting = Later /\ Waiting' = Later /\ After' = {}
  BY <1>1, <1>2, <1>3 DEF Waiting, After, Elements
<1>6. Degrees(Waiting)'
  BY <1>1, <1>2, <1>5 DEF Degrees
<1> QED BY <1>1, <1>2, <1>3, <1>4, <1>5, <1>6 DEF OrderInv

(* The first of the queue is not listed yet. *)
LEMMA HeadNotListed ==
    ASSUME OrderInv, orderAt = "loop", queue # <<>>
    PROVE  Head(queue) \notin Elements(order)
<1> DEFINE all == order \o queue
           h   == Head(queue)
<1>1. OrderType /\ ListOK(all, Len(order))
  BY DEF OrderInv
<1> SUFFICES ASSUME NEW i \in 1 .. Len(order), order[i] = h PROVE FALSE
  BY DEF Elements
<1>2. /\ Len(order) \in Nat /\ Len(all) >= Len(order) + 1
      /\ all[i] = order[i] /\ all[Len(order) + 1] = h
  BY <1>1 DEF OrderType
<1>3. /\ Len(all) \in Nat /\ i \in 1 .. Len(all)
      /\ Len(order) + 1 \in 1 .. Len(all) /\ i # Len(order) + 1
  BY <1>1, <1>2 DEF OrderType
<1> QED BY <1>1, <1>2, <1>3 DEF ListOK

LEMMA OrderTakes ==
    ASSUME OrderInv, Take
    PROVE  OrderInv'
<1> DEFINE h   == Head(queue)
           all == order \o queue
<1>1. /\ OrderType /\ Graph(Tasks) /\ Degrees(Waiting) /\ ListOK(all, Len(order))
      /\ Elements(all) = nodes \ Waiting
      /\ orderAt = "loop" /\ pending = {} /\ queue # <<>>
  BY DEF OrderInv, Take
<1>2. /\ queue' = Tail(queue) /\ order' = Append(order, h) /\ pending' = adj[h]
      /\ UNCHANGED <<orderAt, predOf, nodes, inDegree, adj>>
  BY DEF Take
<1>3. /\ order' \o queue' = all /\ h \in TaskNames
      /\ queue' \in Seq(TaskNames) /\ order' \in Seq(TaskNames)
      /\ Len(order') = Len(order) + 1 /\ Elements(order') = Elements(order) \cup {h}
  BY <1>1, <1>2, QueueTake DEF OrderType
<1>4. /\ Tasks' = Tasks /\ Later' = Later /\ Graph(Tasks)'
  BY <1>1, <1>2, OrderFixed
<1>5. adj[h] = {t \in Tasks : predOf[t] = h}
  BY <1>1, <1>3 DEF Graph
<1>6. OrderType'
  BY <1>1, <1>2, <1>3, <1>4 DEF OrderType
<1>7. h \notin Elements(order)
  BY <1>1, HeadNotListed
<1>8. After' = After \cup adj[h] /\ After \cap adj[h] = {}
  BY <1>2, <1>3, <1>4, <1>5, <1>7 DEF After
<1>9. Waiting' = Waiting
  BY <1>1, <1>2, <1>4, <1>8 DEF Waiting
<1>10. Degrees(Waiting)'
  BY <1>1, <1>2, <1>9 DEF Degrees
<1>11. ListOK(order \o queue, Len(order))'
  <2>1. ListOK(all, Len(order) + 1)
    <3>1. \A j \in 1 .. Len(order) : j \in 1 .. Len(order) + 1
      BY <1>1 DEF OrderType
    <3> QED BY <1>1, <3>1 DEF ListOK
  <2> HIDE DEF all
  <2> QED BY <1>2, <1>3, <2>1, OrderFixed
<1> QED BY <1>1, <1>2, <1>3, <1>4, <1>6, <1>8, <1>9, <1>10, <1>11 DEF OrderInv

LEMMA OrderRelaxes ==
    ASSUME OrderInv, NEW s \in TaskNames, Relax(s)
    PROVE  OrderInv'
<1> DEFINE all == order \o queue
<1>1. /\ OrderType /\ Graph(Tasks) /\ Degrees(Waiting) /\ ListOK(all, Len(order))
      /\ Elements(all) = nodes \ Waiting /\ pending \subseteq After
      /\ orderAt = "loop" /\ s \in pending
  BY DEF OrderInv, Relax
<1>2. /\ pending' = pending \ {s} /\ inDegree' = [inDegree EXCEPT ![s] = @ - 1]
      /\ queue' = IF inDegree'[s] = 0 THEN Append(queue, s) ELSE queue
      /\ UNCHANGED <<orderAt, predOf, nodes, adj, order>>
  BY DEF Relax
<1>3. /\ Tasks' = Tasks /\ Later' = Later /\ Graph(Tasks)' /\ After' = After
  BY <1>1, <1>2, OrderFixed DEF After
<1>4. PICK j \in 1 .. Len(order) : s \in Tasks /\ predOf[s] = order[j]
  BY <1>1 DEF After, Elements
<1>5. s \in Later
  BY <1>1, <1>4, OrderAssumption DEF Later, OrderType
<1>6. s \in Waiting /\ Waiting' = Waiting \ {s}
  BY <1>1, <1>2, <1>3, <1>5 DEF Waiting
<1>7. inDegree[s] = 1 /\ inDegree'[s] = 0 /\ \A n \in TaskNames \ {s} : inDegree'[n] = inDegree[n]
  BY <1>1, <1>2, <1>6 DEF Degrees, OrderType
<1>8. Degrees(Waiting)'
  BY <1>1, <1>6, <1>7 DEF Degrees
<1>9. OrderType'
  BY <1>1, <1>2, <1>3, AppendProperties DEF OrderType
<1>10. order' \o queue' = Append(all, s)
  BY <1>1, <1>2, <1>7, QueueAppend DEF OrderType
<1>11. ListOK(Append(all, s), Len(order)) /\ Elements(Append(all, s)) = Elements(all) \cup {s}
  <2>1. all \in Seq(TaskNames) /\ Len(order) \in 0 .. Len(all) /\ all[j] = order[j]
    BY <1>1 DEF OrderType
  <2>2. s \notin Elements(all)
    BY <1>1, <1>6
  <2> HIDE DEF all
  <2> QED BY <1>1, <1>4, <2>1, <2>2, ListAppend
<1>12. s \in nodes
  BY <1>1, <1>4 DEF Graph
<1>13. ListOK(order \o queue, Len(order))' /\ Elements(order' \o queue') = nodes' \ Waiting'
  <2> HIDE DEF all
  <2> QED BY <1>1, <1>2, <1>6, <1>10, <1>11, <1>12, OrderFixed
<1> QED BY <1>1, <1>2, <1>3, <1>8, <1>9, <1>13 DEF OrderInv

LEMMA OrderListed ==
    ASSUME OrderInv, Listed
    PROVE  OrderInv'
<1>1. /\ OrderType /\ Graph(Tasks) /\ Degrees(Waiting) /\ ListOK(order \o queue, Len(order))
      /\ Elements(order \o queue) = nodes \ Waiting
      /\ orderAt = "loop" /\ pending = {} /\ queue = <<>>
  BY DEF OrderInv, Listed
<1>2. orderAt' = "done" /\ UNCHANGED <<predOf, pending, nodes, inDegree, adj, queue, order>>
  BY DEF Listed
<1>3. /\ Tasks' = Tasks /\ Later' = Later /\ Graph(Tasks)' /\ After' = After
      /\ ListOK(order \o queue, Len(order))'
  BY <1>1, <1>2, OrderFixed DEF After
<1>4. OrderType'
  BY <1>1, <1>2, <1>3 DEF OrderType
<1>5. Waiting' = Waiting
  BY <1>1, <1>2, <1>3 DEF Waiting
<1>6. Degrees(Waiting)'
  BY <1>1, <1>2, <1>5 DEF Degrees
<1> QED BY <1>1, <1>2, <1>3, <1>4, <1>5, <1>6 DEF OrderInv

(* When the queue is empty, the tasks that still wait have predecessors     *)
(* that wait: they are the largest circular set.                            *)
LEMMA OrderEnds ==
    ASSUME OrderInv, orderAt = "done"
    PROVE  OrderIsTopological
<1>1. /\ OrderType /\ Graph(Tasks) /\ queue = <<>> /\ order \o queue = order
      /\ ListOK(order, Len(order)) /\ Elements(order) = nodes \ Waiting /\ Waiting = Later \ After
  <2>1. order \o <<>> = order
    BY DEF OrderInv, OrderType
  <2> QED BY <2>1 DEF OrderInv, Waiting
<1>2. nodes = Tasks \cup ({predOf[t] : t \in Tasks} \ {NoTask})
  BY <1>1 DEF Graph
<1>3. Circular(Waiting) /\ Waiting \subseteq Tasks
  <2>1. Waiting \subseteq Tasks
    BY <1>1 DEF Later
  <2>2. ASSUME NEW t \in Waiting PROVE predOf[t] \in Waiting
    <3>1. predOf[t] \in nodes
      BY <1>1, <1>2, <2>1 DEF Later
    <3>2. predOf[t] \notin Elements(order)
      BY <1>1, <2>1 DEF After
    <3> QED BY <1>1, <3>1, <3>2
  <2> QED BY <2>1, <2>2 DEF Circular
<1>4. Elements(order) = {n \in nodes : ~\E C \in SUBSET Tasks : n \in C /\ Circular(C)}
  <2>1. \A n \in nodes \ Elements(order) : n \in Waiting
    BY <1>1
  <2>2. \A C \in SUBSET Tasks : Circular(C) => C \cap Elements(order) = {}
    BY <1>1 DEF ListOK
  <2> QED BY <1>1, <1>3, <2>1, <2>2
<1>5. ASSUME NEW i \in 1 .. Len(order), NEW j \in 1 .. Len(order),
             order[j] \in Tasks, predOf[order[j]] = order[i]
      PROVE  i < j
  <2>1. order[j] \in Later
    BY <1>1, <1>5, OrderAssumption DEF Later, OrderType
  <2>2. PICK k \in 1 .. Len(order) : k < j /\ order[k] = predOf[order[j]]
    BY <1>1, <2>1 DEF ListOK
  <2>3. k = i
    BY <1>1, <1>5, <2>2 DEF ListOK
  <2> QED BY <2>2, <2>3
<1> QED BY <1>1, <1>2, <1>4, <1>5 DEF OrderIsTopological, ListOK, Elements

(* The inductive invariant of the three loops. *)
LEMMA OrderInductive == OrderSpec => []OrderInv
<1>1. OrderInit => OrderInv
  <2> SUFFICES ASSUME OrderInit PROVE OrderInv
    OBVIOUS
  <2>1. Tasks = {} /\ predOf \in [Tasks -> TaskNames \cup {NoTask}]
    BY DEF OrderInit, Tasks, Nobody
  <2>2. OrderType
    BY <2>1, EmptySeq DEF OrderInit, OrderType
  <2> QED BY <2>2 DEF OrderInit, OrderInv
<1>2. OrderInv /\ [OrderNext]_orderVars => OrderInv'
  <2> SUFFICES ASSUME OrderInv, [OrderNext]_orderVars PROVE OrderInv'
    OBVIOUS
  <2>1. CASE ReturnOrder
    <3>1. Tasks' = {} /\ predOf' \in [Tasks' -> TaskNames \cup {NoTask}]
      BY <2>1 DEF ReturnOrder, Tasks, Nobody
    <3>2. OrderType'
      BY <2>1, <3>1, EmptySeq DEF ReturnOrder, OrderType
    <3> QED BY <2>1, <3>2 DEF ReturnOrder, OrderInv
  <2>2. CASE UNCHANGED orderVars
    <3>1. /\ Tasks' = Tasks /\ Later' = Later /\ After' = After /\ Waiting' = Waiting
          /\ \A all, k : ListOK(all, k)' = ListOK(all, k)
          /\ \A added : Graph(added)' = Graph(added) /\ Degrees(added)' = Degrees(added)
      BY <2>2, OrderFixed DEF orderVars, After, Waiting, Later, Tasks, Degrees
    <3>2. OrderType'
      BY <2>2, <3>1 DEF OrderInv, OrderType, orderVars
    <3> QED BY <2>2, <3>1, <3>2 DEF OrderInv, orderVars
  <2> QED
    BY <2>1, <2>2, OrderAsked, OrderAdds, OrderBuilt, OrderSeeds, OrderSeeded, OrderTakes,
       OrderRelaxes, OrderListed DEF OrderNext, OrderWork
<1> QED BY <1>1, <1>2, PTL DEF OrderSpec

(* GetDependencyOrder lists every task once and after its predecessor and   *)
(* leaves out exactly the tasks on or after a cycle: for every set of       *)
(* tasks, every choice of predecessors and every order of the maps.         *)
THEOREM OrderCorrect == OrderSpec => []OrderIsTopological
<1>1. OrderInv => OrderIsTopological
  BY OrderEnds DEF OrderIsTopological
<1> QED BY <1>1, OrderInductive, PTL

(* A set that is a proper part of another. *)
PartOf(S, T) == S \subseteq T /\ S # T

OrderPhase ==
    CASE orderAt = "build" -> 4
      [] orderAt = "seed"  -> 3
      [] orderAt = "loop"  -> 2
      [] orderAt = "done"  -> 1
      [] OTHER             -> 0

(* The order in which every step goes down: the loop, the nodes not listed  *)
(* yet, what the loop has still to look at.                                 *)
OrderShrinks ==
    \/ OrderPhase' < OrderPhase
    \/ /\ OrderPhase' = OrderPhase
       /\ \/ PartOf(Elements(order), Elements(order'))
          \/ order' = order /\ PartOf(pending', pending)

(* Every step of GetDependencyOrder goes down in an order that has no       *)
(* endless descent when there are finitely many tasks: no node is listed    *)
(* twice, so tasks on a cycle do not keep it from returning (task.go:503).  *)
THEOREM OrderDescent == OrderSpec => [][OrderWork => OrderShrinks]_orderVars
<1>1. ASSUME OrderInv, OrderWork PROVE OrderShrinks
  <2>1. ASSUME NEW t \in TaskNames, AddTask(t) PROVE OrderShrinks
    BY <2>1 DEF AddTask, OrderShrinks, OrderPhase, PartOf
  <2>2. ASSUME NEW t \in TaskNames, Seed(t) PROVE OrderShrinks
    BY <2>2 DEF Seed, OrderShrinks, OrderPhase, PartOf
  <2>3. ASSUME NEW t \in TaskNames, Relax(t) PROVE OrderShrinks
    BY <2>3 DEF Relax, OrderShrinks, OrderPhase, PartOf
  <2>4. CASE Built \/ Seeded \/ Listed \/ ReturnOrder
    BY <2>4 DEF Built, Seeded, Listed, ReturnOrder, OrderShrinks, OrderPhase
  <2>5. CASE Take
    <3>1. /\ orderAt = "loop" /\ queue # <<>> /\ order' = Append(order, Head(queue))
          /\ orderAt' = orderAt
      BY <2>5 DEF Take
    <3>2. Elements(order') = Elements(order) \cup {Head(queue)}
      BY <1>1, <3>1, QueueTake DEF OrderInv, OrderType
    <3>3. Head(queue) \notin Elements(order)
      BY <1>1, <3>1, HeadNotListed
    <3> QED BY <3>1, <3>2, <3>3 DEF OrderShrinks, OrderPhase, PartOf
  <2> QED BY <1>1, <2>1, <2>2, <2>3, <2>4, <2>5 DEF OrderWork
<1>2. OrderInv => [OrderWork => OrderShrinks]_orderVars
  BY <1>1
<1> QED BY <1>2, OrderInductive, PTL

----------------------------------------------------------------------------
(* Cron expressions *)

CronSpecs == [field : Seq(Item), min : Nat, max : Nat]

GoodItem(s, n) == ItemOK(s.field[n], s.min, s.max)

(* What the values collected so far are: those of the items before item n,  *)
(* and those of item n below x.                                             *)
CollectedBelow(s, n, x) ==
    \A y \in Int : y \in vals <=>
        \/ \E k \in 1 .. n - 1 : Denotes(s.field[k], y, s.min, s.max)
        \/ y < x /\ n <= Len(s.field) /\ Denotes(s.field[n], y, s.min, s.max)

(* A number is a whole number of steps away from the beginning of an item. *)
OnStep(i, min, x) == \E k \in 0 .. x - From(i, min) : x = From(i, min) + k * i.step

ParsedOK(s, f) ==
    /\ WellFormed(s) /\ (f.any <=> s.field = Star)
    /\ \A x \in Int : contains(f, x) <=> Means(s, x)

CronType ==
    /\ cronAt \in {"idle", "field", "item", "value", "search",
                   "refused", "accepted", "found", "never"}
    /\ specs \in Seq(CronSpecs) /\ parsed \in Seq([any : BOOLEAN, vals : SUBSET Int])
    /\ after \in Nat \cup {NoTime} /\ item \in Nat /\ vals \in SUBSET Int /\ v \in Nat /\ tm \in Nat

(* The fields parsed so far hold what they stand for; the values at hand    *)
(* are those of the items so far; the search has passed over no due minute. *)
CronInv ==
    /\ CronType
    /\ Len(parsed) <= Len(specs) /\ \A n \in 1 .. Len(parsed) : ParsedOK(specs[n], parsed[n])
    /\ cronAt = "idle" => parsed = <<>>
    /\ after # NoTime => Len(specs) = 5
    /\ cronAt \in {"item", "value"} =>
          /\ Len(parsed) < Len(specs) /\ Current.field # Star
          /\ item \in 1 .. Len(Current.field) + 1
          /\ \A n \in 1 .. item - 1 : GoodItem(Current, n)
    /\ cronAt = "item" => CollectedBelow(Current, item, 0)
    /\ cronAt = "value" =>
          /\ item <= Len(Current.field) /\ GoodItem(Current, item)
          /\ OnStep(Current.field[item], Current.min, v) /\ CollectedBelow(Current, item, v)
    /\ cronAt = "refused" => \E n \in 1 .. Len(specs) : ~WellFormed(specs[n])
    /\ cronAt \in {"accepted", "search", "found", "never"} => Len(parsed) = Len(specs)
    /\ cronAt \in {"search", "found", "never"} =>
          /\ after \in Nat /\ tm * Fractions > after
          /\ \A t \in 0 .. tm - 1 : t * Fractions > after => ~DueAt(t)
    /\ cronAt = "found" => tm * Fractions <= Limit /\ DueAt(tm)
    /\ cronAt = "never" => tm * Fractions > Limit

LEMMA MulMono ==
    ASSUME NEW a \in Int, NEW b \in Int, NEW s \in Nat, a <= b
    PROVE  a * s <= b * s
<1>1. PICK d \in Nat : b = a + d
  <2>1. b - a \in Nat /\ b = a + (b - a)
    OBVIOUS
  <2> QED BY <2>1
<1>2. b * s = a * s + d * s /\ d * s >= 0 /\ a * s \in Int /\ d * s \in Int
  BY <1>1
<1> QED BY <1>2

LEMMA DivBounds ==
    ASSUME NEW a \in Nat, NEW d \in Nat \ {0}
    PROVE  /\ a \div d \in Nat /\ (a \div d) * d <= a /\ a < (a \div d + 1) * d
  OBVIOUS

LEMMA ModBounds ==
    ASSUME NEW a \in Nat, NEW d \in Nat \ {0}
    PROVE  a % d \in 0 .. d - 1
  OBVIOUS

(* An item begins and ends at a number. *)
LEMMA ItemType ==
    ASSUME NEW i \in Item, NEW min \in Nat, NEW max \in Nat
    PROVE  From(i, min) \in Nat /\ UpTo(i, max) \in Nat /\ i.step \in Nat
  BY FieldAssumption DEF Item, From, UpTo

(* A value is collected and the loop goes on by a step. *)
LEMMA ValueTaken ==
    ASSUME NEW i \in Item, NEW min \in Nat, NEW max \in Nat, ItemOK(i, min, max),
           NEW x \in Nat, x <= UpTo(i, max), OnStep(i, min, x), NEW y \in Int
    PROVE  y < x + i.step /\ Denotes(i, y, min, max) <=> (y < x /\ Denotes(i, y, min, max)) \/ y = x
<1> DEFINE start == From(i, min)
           step  == i.step
<1>1. start \in Nat /\ UpTo(i, max) \in Nat /\ step \in Nat /\ step > 0
  BY ItemType DEF ItemOK
<1>2. PICK m \in 0 .. x - start : x = start + m * step
  BY DEF OnStep
<1>3. Denotes(i, x, min, max)
  <2>1. x - start >= 0
    BY <1>1, <1>2
  <2> QED BY <1>1, <1>2, <2>1 DEF Denotes
<1>4. ASSUME Denotes(i, y, min, max), x <= y, y < x + step PROVE y = x
  <2>1. PICK k \in 0 .. y - start : y = start + k * step
    BY <1>4 DEF Denotes
  <2> HIDE DEF start, step
  <2>2. k \in Int /\ m \in Int /\ k * step \in Int /\ m * step \in Int
    BY <1>1, <1>2, <2>1
  <2>3. CASE k < m
    <3>1. (k + 1) * step <= m * step
      BY <1>1, <2>2, <2>3, MulMono
    <3>2. (k + 1) * step = k * step + step
      BY <1>1, <2>2
    <3> QED BY <1>1, <1>2, <1>4, <2>1, <2>2, <3>1, <3>2
  <2>4. CASE m < k
    <3>1. (m + 1) * step <= k * step
      BY <1>1, <2>2, <2>4, MulMono
    <3>2. (m + 1) * step = m * step + step
      BY <1>1, <2>2
    <3> QED BY <1>1, <1>2, <1>4, <2>1, <2>2, <3>1, <3>2
  <2>5. CASE k = m
    BY <1>2, <2>1, <2>5
  <2> QED BY <2>2, <2>3, <2>4, <2>5
<1> QED BY <1>1, <1>3, <1>4

LEMMA ValueNext ==
    ASSUME NEW i \in Item, NEW min \in Nat, NEW max \in Nat, ItemOK(i, min, max),
           NEW x \in Nat, OnStep(i, min, x)
    PROVE  OnStep(i, min, x + i.step)
<1> DEFINE start == From(i, min)
           step  == i.step
<1>1. start \in Nat /\ step \in Nat /\ step > 0
  BY ItemType DEF ItemOK
<1>2. PICK m \in 0 .. x - start : x = start + m * step
  BY DEF OnStep
<1> HIDE DEF start, step
<1>3. (m + 1) * step = m * step + step /\ m * step \in Int
  BY <1>1, <1>2
<1>4. m + 1 \in 0 .. (x + step) - start /\ x + step = start + (m + 1) * step
  BY <1>1, <1>2, <1>3
<1> QED BY <1>4 DEF OnStep, start, step

LEMMA CronCurrent ==
    ASSUME CronType, Len(parsed) < Len(specs)
    PROVE  /\ Current \in CronSpecs /\ Len(parsed) + 1 \in 1 .. Len(specs)
           /\ Current.field \in Seq(Item) /\ Current.min \in Nat /\ Current.max \in Nat
           /\ Len(Current.field) \in Nat
           /\ \A n \in 1 .. Len(Current.field) : Current.field[n] \in Item
<1>1. Len(parsed) \in Nat /\ Len(specs) \in Nat
  BY DEF CronType
<1>2. Len(parsed) + 1 \in 1 .. Len(specs)
  BY <1>1
<1>3. Current \in CronSpecs
  BY <1>2 DEF CronType, Current
<1> QED BY <1>2, <1>3 DEF CronSpecs

(* An item is taken exactly if it is well formed. *)
LEMMA ItemAccepted ==
    ASSUME NEW s \in CronSpecs
    PROVE  WellFormed(s) <=> \A n \in 1 .. Len(s.field) : GoodItem(s, n)
<1> SUFFICES ASSUME NEW n \in 1 .. Len(s.field)
             PROVE  GoodItem(s, n) <=>
                        LET i == s.field[n]
                        IN  /\ i.step # 0
                            /\ From(i, s.min) \in s.min .. s.max
                            /\ UpTo(i, s.max) \in From(i, s.min) .. s.max
  BY DEF WellFormed
<1>1. s.field[n] \in Item /\ s.min \in Nat /\ s.max \in Nat
  BY DEF CronSpecs
<1>2. /\ From(s.field[n], s.min) \in Nat /\ UpTo(s.field[n], s.max) \in Nat
      /\ s.field[n].step \in Nat
  BY <1>1, ItemType
<1> QED BY <1>1, <1>2 DEF GoodItem, ItemOK

LEMMA ParsedAppend ==
    ASSUME CronInv, Len(parsed) < Len(specs), NEW f \in [any : BOOLEAN, vals : SUBSET Int],
           ParsedOK(Current, f)
    PROVE  /\ Append(parsed, f) \in Seq([any : BOOLEAN, vals : SUBSET Int])
           /\ Len(Append(parsed, f)) <= Len(specs)
           /\ \A n \in 1 .. Len(Append(parsed, f)) : ParsedOK(specs[n], Append(parsed, f)[n])
<1> DEFINE p == Append(parsed, f)
           R == [any : BOOLEAN, vals : SUBSET Int]
<1>1. CronType /\ \A n \in 1 .. Len(parsed) : ParsedOK(specs[n], parsed[n])
  BY DEF CronInv
<1> HIDE DEF R
<1>2. parsed \in Seq(R) /\ f \in R
  BY <1>1 DEF CronType, R
<1>3. /\ p \in Seq(R) /\ Len(parsed) \in Nat /\ Len(specs) \in Nat /\ Len(p) = Len(parsed) + 1
      /\ p[Len(parsed) + 1] = f /\ \A n \in 1 .. Len(parsed) : p[n] = parsed[n]
  BY <1>1, <1>2, AppendProperties DEF CronType
<1> HIDE DEF p
<1>4. 1 .. Len(p) = (1 .. Len(parsed)) \cup {Len(parsed) + 1}
  BY <1>3
<1> QED BY <1>1, <1>3, <1>4 DEF Current, p, R

LEMMA CronAnyField ==
    ASSUME CronInv, AnyField
    PROVE  CronInv'
<1> DEFINE f == [any |-> TRUE, vals |-> {}]
<1>1. CronType /\ cronAt = "field" /\ Len(parsed) < Len(specs) /\ Current.field = Star
  BY DEF CronInv, AnyField
<1>2. /\ parsed' = Append(parsed, f)
      /\ UNCHANGED <<cronAt, specs, after, item, vals, v, tm>>
  BY DEF AnyField
<1>3. f \in [any : BOOLEAN, vals : SUBSET Int]
  OBVIOUS
<1>4. ParsedOK(Current, f)
  <2>1. WellFormed(Current)
    BY <1>1 DEF WellFormed, Star
  <2>2. \A x \in Int : contains(f, x) <=> Means(Current, x)
    BY <1>1 DEF contains, Means
  <2> QED BY <1>1, <2>1, <2>2 DEF ParsedOK
<1> HIDE DEF f
<1>5. /\ parsed' \in Seq([any : BOOLEAN, vals : SUBSET Int]) /\ Len(parsed') <= Len(specs')
      /\ \A n \in 1 .. Len(parsed') : ParsedOK(specs'[n], parsed'[n])
  BY <1>1, <1>2, <1>3, <1>4, ParsedAppend
<1>6. CronType'
  BY <1>1, <1>2, <1>5 DEF CronType
<1> QED BY <1>1, <1>2, <1>5, <1>6 DEF CronInv

LEMMA CronBeginField ==
    ASSUME CronInv, BeginField
    PROVE  CronInv'
<1>1. CronType /\ cronAt = "field" /\ Len(parsed) < Len(specs) /\ Current.field # Star
  BY DEF CronInv, BeginField
<1>2. /\ cronAt' = "item" /\ item' = 1 /\ vals' = {}
      /\ UNCHANGED <<specs, after, parsed, v, tm>>
  BY DEF BeginField
<1>3. Current' = Current
  BY <1>2 DEF Current
<1>4. CronType'
  BY <1>1, <1>2 DEF CronType
<1>5. /\ Len(Current.field) \in Nat /\ Current.min \in Nat /\ Current.max \in Nat
      /\ \A n \in 1 .. Len(Current.field) : Current.field[n] \in Item
  BY <1>1, CronCurrent
<1>6. CollectedBelow(Current, item, 0)'
  <2> SUFFICES ASSUME NEW y \in Int, y < 0, 1 <= Len(Current.field),
                      Denotes(Current.field[1], y, Current.min, Current.max)
               PROVE  FALSE
    BY <1>2, <1>3 DEF CollectedBelow
  <2>1. Current.field[1] \in Item
    BY <1>5
  <2>2. From(Current.field[1], Current.min) \in Nat
    BY <1>5, <2>1, ItemType
  <2> QED BY <2>2 DEF Denotes
<1> QED BY <1>1, <1>2, <1>3, <1>4, <1>5, <1>6 DEF CronInv

LEMMA CronEndField ==
    ASSUME CronInv, EndField
    PROVE  CronInv'
<1> DEFINE f == [any |-> FALSE, vals |-> vals]
           s == Current
<1>1. /\ CronType /\ cronAt = "item" /\ Len(parsed) < Len(specs) /\ s.field # Star
      /\ item \in 1 .. Len(s.field) + 1 /\ item > Len(s.field)
      /\ \A n \in 1 .. item - 1 : GoodItem(s, n)
      /\ CollectedBelow(s, item, 0)
  BY DEF CronInv, EndField
<1>2. /\ cronAt' = "field" /\ parsed' = Append(parsed, f)
      /\ UNCHANGED <<specs, after, item, vals, v, tm>>
  BY DEF EndField
<1>3. f \in [any : BOOLEAN, vals : SUBSET Int]
  BY <1>1 DEF CronType
<1>4. ParsedOK(s, f)
  <2> HIDE DEF s
  <2>0. s \in CronSpecs /\ Len(s.field) \in Nat /\ item - 1 = Len(s.field) /\ ~(item <= Len(s.field))
    BY <1>1, CronCurrent DEF s
  <2>1. WellFormed(s)
    BY <1>1, <2>0, ItemAccepted
  <2>2. \A x \in Int : contains(f, x) <=> Means(s, x)
    BY <1>1, <2>0 DEF contains, Means, CollectedBelow
  <2> QED BY <1>1, <2>1, <2>2 DEF ParsedOK
<1> HIDE DEF f
<1>5. /\ parsed' \in Seq([any : BOOLEAN, vals : SUBSET Int]) /\ Len(parsed') <= Len(specs')
      /\ \A n \in 1 .. Len(parsed') : ParsedOK(specs'[n], parsed'[n])
  BY <1>1, <1>2, <1>3, <1>4, ParsedAppend
<1>6. CronType'
  BY <1>1, <1>2, <1>5 DEF CronType
<1> QED BY <1>1, <1>2, <1>5, <1>6 DEF CronInv

LEMMA CronBeginItem ==
    ASSUME CronInv, BeginItem
    PROVE  CronInv'
<1> DEFINE s == Current
           i == s.field[item]
<1>1. /\ CronType /\ cronAt = "item" /\ Len(parsed) < Len(specs) /\ s.field # Star
      /\ item \in 1 .. Len(s.field) + 1 /\ item <= Len(s.field)
      /\ \A n \in 1 .. item - 1 : GoodItem(s, n)
      /\ CollectedBelow(s, item, 0) /\ GoodItem(s, item)
  BY DEF CronInv, BeginItem, GoodItem
<1>2. /\ cronAt' = "value" /\ v' = From(i, s.min)
      /\ UNCHANGED <<specs, after, parsed, item, vals, tm>>
  BY DEF BeginItem
<1>3. s' = s
  BY <1>2 DEF Current
<1>4. i \in Item /\ s.min \in Nat /\ From(i, s.min) \in Nat /\ i.step \in Nat
  <2>1. item \in 1 .. Len(s.field) /\ s.max \in Nat /\ s.min \in Nat
    BY <1>1, CronCurrent
  <2> QED BY <1>1, <2>1, CronCurrent, ItemType
<1>5. CronType'
  BY <1>1, <1>2, <1>4 DEF CronType
<1>6. OnStep(i, s.min, From(i, s.min))
  <2>1. From(i, s.min) = From(i, s.min) + 0 * i.step
    <3> DEFINE a == From(i, s.min)
               b == i.step
    <3> HIDE DEF a, b
    <3>1. a \in Nat /\ b \in Nat
      BY <1>4 DEF a, b
    <3>2. a = a + 0 * b
      BY <3>1
    <3> QED BY <3>2 DEF a, b
  <2>2. 0 \in 0 .. From(i, s.min) - From(i, s.min)
    BY <1>4
  <2> QED BY <2>1, <2>2 DEF OnStep
<1>7. CollectedBelow(s, item, From(i, s.min))
  <2> SUFFICES ASSUME NEW y \in Int
               PROVE  ~(y < From(i, s.min) /\ Denotes(i, y, s.min, s.max))
                      /\ ~(y < 0 /\ Denotes(i, y, s.min, s.max))
    BY <1>1 DEF CollectedBelow
  <2> QED BY <1>4 DEF Denotes
<1>8. CollectedBelow(Current, item, v)' /\ OnStep(Current.field[item], Current.min, v)'
  <2> HIDE DEF s
  <2> QED BY <1>2, <1>3, <1>6, <1>7 DEF CollectedBelow, OnStep, s
<1> QED BY <1>1, <1>2, <1>3, <1>5, <1>8 DEF CronInv

LEMMA CronBadItem ==
    ASSUME CronInv, BadItem
    PROVE  CronInv'
<1> DEFINE s == Current
<1>1. /\ CronType /\ cronAt = "item" /\ Len(parsed) < Len(specs)
      /\ item \in 1 .. Len(s.field) + 1 /\ item <= Len(s.field) /\ ~GoodItem(s, item)
  BY DEF CronInv, BadItem, GoodItem
<1>2. cronAt' = "refused" /\ UNCHANGED <<specs, after, parsed, item, vals, v, tm>>
  BY DEF BadItem
<1>3. s \in CronSpecs /\ item \in 1 .. Len(s.field) /\ Len(parsed) + 1 \in 1 .. Len(specs)
  BY <1>1, CronCurrent
<1>4. ~WellFormed(s)
  BY <1>1, <1>3, ItemAccepted
<1>5. \E n \in 1 .. Len(specs) : ~WellFormed(specs[n])
  BY <1>3, <1>4 DEF Current
<1>6. CronType'
  BY <1>1, <1>2 DEF CronType
<1> QED BY <1>1, <1>2, <1>5, <1>6 DEF CronInv

LEMMA CronNextValue ==
    ASSUME CronInv, NextValue
    PROVE  CronInv'
<1> DEFINE s == Current
           i == s.field[item]
<1>1. /\ CronType /\ cronAt = "value" /\ Len(parsed) < Len(specs) /\ s.field # Star
      /\ item \in 1 .. Len(s.field) + 1 /\ item <= Len(s.field)
      /\ \A n \in 1 .. item - 1 : GoodItem(s, n)
      /\ GoodItem(s, item) /\ OnStep(i, s.min, v) /\ CollectedBelow(s, item, v)
  BY DEF CronInv, NextValue
<1>2. /\ IF v <= UpTo(i, s.max)
         THEN vals' = vals \cup {v} /\ v' = v + i.step /\ UNCHANGED <<cronAt, item>>
         ELSE cronAt' = "item" /\ item' = item + 1 /\ UNCHANGED <<vals, v>>
      /\ UNCHANGED <<specs, after, parsed, tm>>
  BY DEF NextValue
<1>3. Current' = s
  BY <1>2 DEF Current
<1>4. /\ s.min \in Nat /\ s.max \in Nat /\ Len(s.field) \in Nat /\ item \in 1 .. Len(s.field)
      /\ \A n \in 1 .. Len(s.field) : s.field[n] \in Item
  BY <1>1, CronCurrent
<1> HIDE DEF s
<1>5. i \in Item
  BY <1>4
<1>6. From(i, s.min) \in Nat /\ UpTo(i, s.max) \in Nat /\ i.step \in Nat /\ ItemOK(i, s.min, s.max)
  BY <1>1, <1>4, <1>5, ItemType DEF GoodItem
<1>7. v \in Nat /\ item \in Nat /\ vals \in SUBSET Int
  BY <1>1 DEF CronType
<1>8. CASE v <= UpTo(i, s.max)
  <2>1. vals' = vals \cup {v} /\ v' = v + i.step /\ UNCHANGED <<cronAt, item>>
    BY <1>2, <1>8
  <2>2. CronType'
    <3>1. v + i.step \in Nat /\ vals \cup {v} \in SUBSET Int
      <4> DEFINE b == i.step
      <4> HIDE DEF b
      <4>1. b \in Nat
        BY <1>6 DEF b
      <4>2. v + b \in Nat
        BY <1>7, <4>1
      <4> QED BY <1>7, <4>2 DEF b
    <3>2. v' \in Nat /\ vals' \in SUBSET Int
      BY <2>1, <3>1
    <3> HIDE DEF i
    <3> QED BY <1>1, <1>2, <2>1, <3>2 DEF CronType
  <2>3. OnStep(i, s.min, v + i.step)
    BY <1>1, <1>4, <1>5, <1>6, <1>7, ValueNext
  <2>4. ASSUME NEW y \in Int
        PROVE  y \in vals' <=>
                  \/ \E k \in 1 .. item - 1 : Denotes(s.field[k], y, s.min, s.max)
                  \/ y < v + i.step /\ item <= Len(s.field) /\ Denotes(i, y, s.min, s.max)
    <3>1. y < v + i.step /\ Denotes(i, y, s.min, s.max) <=>
              (y < v /\ Denotes(i, y, s.min, s.max)) \/ y = v
      BY <1>4, <1>5, <1>6, <1>1, <1>7, <1>8, ValueTaken
    <3>2. y \in vals <=>
              \/ \E k \in 1 .. item - 1 : Denotes(s.field[k], y, s.min, s.max)
              \/ y < v /\ item <= Len(s.field) /\ Denotes(i, y, s.min, s.max)
      BY <1>1 DEF CollectedBelow
    <3> QED BY <1>1, <2>1, <3>1, <3>2
  <2>5. CollectedBelow(Current, item, v)' /\ OnStep(Current.field[item], Current.min, v)'
    BY <1>3, <2>1, <2>3, <2>4 DEF CollectedBelow, OnStep
  <2> QED BY <1>1, <1>2, <1>3, <1>4, <2>1, <2>2, <2>5 DEF CronInv, s
<1>9. CASE ~(v <= UpTo(i, s.max))
  <2>1. cronAt' = "item" /\ item' = item + 1 /\ UNCHANGED <<vals, v>>
    BY <1>2, <1>9
  <2>2. CronType'
    BY <1>1, <1>2, <2>1 DEF CronType
  <2>3. ASSUME NEW y \in Int
        PROVE  y \in vals <=>
                  \/ \E k \in 1 .. item : Denotes(s.field[k], y, s.min, s.max)
                  \/ y < 0 /\ item + 1 <= Len(s.field)
                           /\ Denotes(s.field[item + 1], y, s.min, s.max)
    <3>1. Denotes(i, y, s.min, s.max) => y < v
      BY <1>6, <1>7, <1>9 DEF Denotes
    <3>2. y < 0 /\ item + 1 <= Len(s.field) => ~Denotes(s.field[item + 1], y, s.min, s.max)
      <4> SUFFICES ASSUME y < 0, item + 1 <= Len(s.field)
                   PROVE  ~Denotes(s.field[item + 1], y, s.min, s.max)
        OBVIOUS
      <4>1. item + 1 \in 1 .. Len(s.field)
        BY <1>4, <1>7
      <4>2. s.field[item + 1] \in Item
        BY <1>4, <4>1
      <4>3. From(s.field[item + 1], s.min) \in Nat
        BY <1>4, <4>2, ItemType
      <4> QED BY <4>3 DEF Denotes
    <3>3. y \in vals <=>
              \/ \E k \in 1 .. item - 1 : Denotes(s.field[k], y, s.min, s.max)
              \/ y < v /\ item <= Len(s.field) /\ Denotes(i, y, s.min, s.max)
      BY <1>1 DEF CollectedBelow
    <3>4. 1 .. item = (1 .. item - 1) \cup {item}
      BY <1>4, <1>7
    <3> QED BY <1>1, <3>1, <3>2, <3>3, <3>4
  <2>4. CollectedBelow(Current, item, 0)'
    <3>1. item' - 1 = item
      BY <1>7, <2>1
    <3> QED BY <1>3, <2>1, <2>3, <3>1 DEF CollectedBelow
  <2>5. item' \in 1 .. Len(s.field) + 1 /\ \A n \in 1 .. item' - 1 : GoodItem(s, n)
    <3>1. 1 .. item' - 1 = (1 .. item - 1) \cup {item} /\ item' \in 1 .. Len(s.field) + 1
      BY <1>4, <1>7, <2>1
    <3> QED BY <1>1, <3>1
  <2> QED BY <1>1, <1>2, <1>3, <2>1, <2>2, <2>4, <2>5 DEF CronInv, s
<1> QED BY <1>8, <1>9

(* The units of time are positive numbers. *)
LEMMA UnitsPositive ==
    /\ MinutesPerHour \in Nat \ {0} /\ HoursPerDay \in Nat \ {0} /\ DaysPerWeek \in Nat \ {0}
    /\ Fractions \in Nat \ {0} /\ LimitDays \in Nat /\ MinutesPerDay \in Nat \ {0}
<1>1. /\ MinutesPerHour \in Nat \ {0} /\ HoursPerDay \in Nat \ {0} /\ DaysPerWeek \in Nat \ {0}
      /\ Fractions \in Nat \ {0} /\ LimitDays \in Nat
  <2>1. \A x \in {MinutesPerHour, HoursPerDay, DaysPerWeek, Fractions} : x \in Nat \ {0}
    BY CalendarAssumption
  <2> QED BY <2>1, CalendarAssumption
<1>2. MinutesPerHour * HoursPerDay \in Nat \ {0}
  BY <1>1
<1> QED BY <1>1, <1>2 DEF MinutesPerDay

(* The values of the calendar are numbers. *)
LEMMA CalendarType ==
    ASSUME NEW t \in Nat
    PROVE  {MinuteOf(t), HourOf(t), DayOf(t), MonthOf(t), WeekdayOf(t)} \subseteq Int
<1>1. MinutesPerDay \in Nat \ {0}
  BY UnitsPositive
<1>2. DayNo(t) \in Nat
  BY <1>1, DivBounds DEF DayNo
<1>3. Len(Days) \in Nat \ {0}
  BY CalendarAssumption
<1>4. DayNo(t) % Len(Days) \in 0 .. Len(Days) - 1
  BY <1>2, <1>3, ModBounds
<1>5. Days[(DayNo(t) % Len(Days)) + 1] \in Nat \X Nat
  <2>1. (DayNo(t) % Len(Days)) + 1 \in 1 .. Len(Days)
    BY <1>3, <1>4
  <2> QED BY <2>1, CalendarAssumption
<1>6. DayOf(t) \in Int /\ MonthOf(t) \in Int
  BY <1>5 DEF DayOf, MonthOf
<1>7. MinutesPerHour \in Nat \ {0} /\ HoursPerDay \in Nat \ {0} /\ DaysPerWeek \in Nat \ {0}
  BY UnitsPositive
<1>8. MinuteOf(t) \in Int /\ WeekdayOf(t) \in Int
  <2>1. t % MinutesPerHour \in 0 .. MinutesPerHour - 1
    BY <1>7, ModBounds
  <2>2. DayNo(t) % DaysPerWeek \in 0 .. DaysPerWeek - 1
    BY <1>2, <1>7, ModBounds
  <2> QED BY <1>7, <2>1, <2>2 DEF MinuteOf, WeekdayOf
<1>9. HourOf(t) \in Int
  <2>1. t \div MinutesPerHour \in Nat
    BY <1>7, DivBounds
  <2>2. (t \div MinutesPerHour) % HoursPerDay \in 0 .. HoursPerDay - 1
    BY <1>7, <2>1, ModBounds
  <2> QED BY <1>7, <2>2 DEF HourOf
<1> QED BY <1>6, <1>8, <1>9

(* With all fields parsed, a minute matches exactly if it is due. *)
LEMMA MatchIsDue ==
    ASSUME Len(specs) = 5, \A n \in 1 .. 5 : ParsedOK(specs[n], parsed[n]), NEW t \in Nat
    PROVE  cronMatches(parsed, t) <=> DueAt(t)
<1>1. \A n \in {1, 2, 3, 4, 5} : \A x \in Int : contains(parsed[n], x) <=> Means(specs[n], x)
  BY DEF ParsedOK
<1>2. \A n \in {3, 5} : parsed[n].any <=> specs[n].field = Star
  BY DEF ParsedOK
<1>3. /\ MinuteOf(t) \in Int /\ HourOf(t) \in Int /\ DayOf(t) \in Int /\ MonthOf(t) \in Int
      /\ WeekdayOf(t) \in Int
  BY CalendarType
<1>4. /\ contains(parsed[1], MinuteOf(t)) <=> Means(specs[1], MinuteOf(t))
      /\ contains(parsed[2], HourOf(t)) <=> Means(specs[2], HourOf(t))
      /\ contains(parsed[4], MonthOf(t)) <=> Means(specs[4], MonthOf(t))
      /\ contains(parsed[3], DayOf(t)) <=> Means(specs[3], DayOf(t))
      /\ contains(parsed[5], WeekdayOf(t)) <=> Means(specs[5], WeekdayOf(t))
  BY <1>1, <1>3
<1>5. /\ specs[3].field = Star => Means(specs[3], DayOf(t))
      /\ specs[5].field = Star => Means(specs[5], WeekdayOf(t))
  BY DEF Means
<1> DEFINE days == {n \in {3, 5} : specs[n].field # Star}
           hit  == {n \in days : Means(specs[n], IF n = 3 THEN DayOf(t) ELSE WeekdayOf(t))}
<1>6. (days # {} => hit # {}) <=>
          IF specs[3].field # Star /\ specs[5].field # Star
          THEN Means(specs[3], DayOf(t)) \/ Means(specs[5], WeekdayOf(t))
          ELSE Means(specs[3], DayOf(t)) /\ Means(specs[5], WeekdayOf(t))
  <2>1. /\ 3 \in days <=> specs[3].field # Star
        /\ 5 \in days <=> specs[5].field # Star
        /\ \A n \in days : n = 3 \/ n = 5
    OBVIOUS
  <2>2. /\ 3 \in hit <=> specs[3].field # Star /\ Means(specs[3], DayOf(t))
        /\ 5 \in hit <=> specs[5].field # Star /\ Means(specs[5], WeekdayOf(t))
        /\ \A n \in hit : n = 3 \/ n = 5
    OBVIOUS
  <2> HIDE DEF days, hit
  <2> QED BY <1>5, <2>1, <2>2
<1> QED BY <1>2, <1>4, <1>6 DEF cronMatches, DueAt
LEMMA CronAccepted ==
    ASSUME CronInv, Accepted
    PROVE  CronInv'
<1>1. /\ CronType /\ cronAt = "field" /\ Len(parsed) = Len(specs)
      /\ cronAt' = "accepted" /\ UNCHANGED <<specs, after, parsed, item, vals, v, tm>>
  BY DEF CronInv, Accepted
<1>2. CronType'
  BY <1>1 DEF CronType
<1> QED BY <1>1, <1>2 DEF CronInv

LEMMA CronBeginSearch ==
    ASSUME CronInv, BeginSearch
    PROVE  CronInv'
<1>1. /\ CronType /\ cronAt = "field" /\ Len(parsed) = Len(specs) /\ after # NoTime
      /\ cronAt' = "search" /\ tm' = after \div Fractions + 1
      /\ UNCHANGED <<specs, after, parsed, item, vals, v>>
  BY DEF CronInv, BeginSearch
<1>2. after \in Nat /\ Fractions \in Nat \ {0}
  BY <1>1, UnitsPositive DEF CronType
<1> DEFINE q == after \div Fractions
<1>3. q \in Nat /\ q * Fractions <= after /\ after < (q + 1) * Fractions
  BY <1>2, DivBounds
<1> HIDE DEF q
<1>4. tm' = q + 1
  BY <1>1 DEF q
<1>5. CronType'
  BY <1>1, <1>3, <1>4 DEF CronType
<1>6. tm' * Fractions > after
  BY <1>2, <1>3, <1>4
<1>7. ASSUME NEW t \in 0 .. q PROVE ~(t * Fractions > after)
  <2>1. t \in Int /\ t <= q /\ q \in Int
    BY <1>3
  <2>2. t * Fractions <= q * Fractions
    BY <1>2, <2>1, MulMono
  <2>3. t * Fractions \in Int /\ q * Fractions \in Int
    BY <1>2, <2>1
  <2> QED BY <1>2, <1>3, <2>2, <2>3
<1>8. 0 .. tm' - 1 = 0 .. q
  BY <1>3, <1>4
<1>9. \A t \in 0 .. tm' - 1 : t * Fractions > after' => ~DueAt(t)'
  BY <1>1, <1>7, <1>8
<1> QED BY <1>1, <1>2, <1>5, <1>6, <1>9 DEF CronInv

LEMMA CronSearch ==
    ASSUME CronInv, Search
    PROVE  CronInv'
<1>1. /\ CronType /\ cronAt = "search" /\ Len(parsed) = Len(specs) /\ after \in Nat
      /\ Len(specs) = 5 /\ tm * Fractions > after
      /\ \A n \in 1 .. Len(parsed) : ParsedOK(specs[n], parsed[n])
      /\ \A t \in 0 .. tm - 1 : t * Fractions > after => ~DueAt(t)
  BY DEF CronInv, NoTime, Search
<1>2. /\ IF tm * Fractions > Limit THEN cronAt' = "never" /\ UNCHANGED tm
         ELSE IF cronMatches(parsed, tm) THEN cronAt' = "found" /\ UNCHANGED tm
         ELSE tm' = tm + 1 /\ UNCHANGED cronAt
      /\ UNCHANGED <<specs, after, parsed, item, vals, v>>
  BY DEF Search
<1>3. tm \in Nat /\ Fractions \in Nat \ {0} /\ MinutesPerDay \in Nat /\ LimitDays \in Nat
  BY <1>1, UnitsPositive DEF CronType
<1>4. Limit \in Int /\ tm * Fractions \in Int
  BY <1>1, <1>3 DEF Limit
<1>5. cronMatches(parsed, tm) <=> DueAt(tm)
  BY <1>1, <1>3, MatchIsDue
<1>6. Limit' = Limit /\ \A t : DueAt(t)' <=> DueAt(t)
  BY <1>2 DEF Limit, DueAt
<1>7. /\ Len(parsed') = Len(specs') /\ after' \in Nat /\ Len(specs') = 5
      /\ \A n \in 1 .. Len(parsed') : ParsedOK(specs'[n], parsed'[n])
  BY <1>1, <1>2
<1>8. CASE tm * Fractions > Limit
  <2>1. cronAt' = "never" /\ tm' = tm
    BY <1>2, <1>8
  <2>2. CronType'
    BY <1>1, <1>2, <2>1 DEF CronType
  <2>3. \A t \in 0 .. tm' - 1 : t * Fractions > after' => ~DueAt(t)'
    BY <1>1, <1>2, <1>6, <2>1
  <2> QED BY <1>1, <1>2, <1>6, <1>7, <1>8, <2>1, <2>2, <2>3 DEF CronInv
<1>9. CASE ~(tm * Fractions > Limit) /\ DueAt(tm)
  <2>1. cronAt' = "found" /\ tm' = tm
    BY <1>2, <1>5, <1>9
  <2>2. CronType'
    BY <1>1, <1>2, <2>1 DEF CronType
  <2>3. \A t \in 0 .. tm' - 1 : t * Fractions > after' => ~DueAt(t)'
    BY <1>1, <1>2, <1>6, <2>1
  <2>4. DueAt(tm)'
    BY <1>2, <1>9, <2>1 DEF DueAt
  <2>5. tm' * Fractions <= Limit'
    BY <1>4, <1>6, <1>9, <2>1
  <2> QED BY <1>1, <1>2, <1>7, <2>1, <2>2, <2>3, <2>4, <2>5 DEF CronInv
<1>10. CASE ~(tm * Fractions > Limit) /\ ~DueAt(tm)
  <2>1. cronAt' = "search" /\ tm' = tm + 1
    BY <1>1, <1>2, <1>5, <1>10
  <2>2. CronType'
    BY <1>1, <1>2, <1>3, <2>1 DEF CronType
  <2>3. 0 .. tm' - 1 = (0 .. tm - 1) \cup {tm}
    BY <1>3, <2>1
  <2>4. \A t \in 0 .. tm' - 1 : t * Fractions > after' => ~DueAt(t)'
    BY <1>1, <1>2, <1>6, <1>10, <2>3
  <2>5. tm' * Fractions > after'
    <3>1. tm * Fractions <= (tm + 1) * Fractions
      BY <1>3, MulMono
    <3>2. (tm + 1) * Fractions \in Int
      BY <1>3
    <3> QED BY <1>1, <1>2, <1>4, <2>1, <3>1, <3>2
  <2> QED BY <1>1, <1>2, <1>7, <2>1, <2>2, <2>4, <2>5 DEF CronInv
<1> QED BY <1>8, <1>9, <1>10

LEMMA CronReturned ==
    ASSUME CronInv, CronReturn
    PROVE  CronInv'
<1>1. /\ cronAt' = "idle" /\ specs' = <<>> /\ after' = NoTime /\ parsed' = <<>>
      /\ item' = 0 /\ vals' = {} /\ v' = 0 /\ tm' = 0
  BY DEF CronReturn
<1>2. CronType'
  BY <1>1 DEF CronType
<1>3. Len(parsed') = 0 /\ Len(specs') = 0
  BY <1>1
<1> QED BY <1>1, <1>2, <1>3 DEF CronInv

(* A call begins: nothing is parsed yet. *)
LEMMA CronAsked ==
    ASSUME CronInv, cronAt = "idle", NEW fields \in Seq(CronSpecs),
           NEW time \in Nat \cup {NoTime}, time # NoTime => Len(fields) = 5, Ask(fields, time)
    PROVE  CronInv'
<1>1. CronType /\ parsed = <<>>
  BY DEF CronInv
<1>2. /\ cronAt' = "field" /\ specs' = fields /\ after' = time
      /\ UNCHANGED <<parsed, item, vals, v, tm>>
  BY DEF Ask
<1>3. CronType'
  BY <1>1, <1>2 DEF CronType
<1>4. Len(parsed') = 0 /\ Len(specs') \in Nat
  BY <1>1, <1>2
<1> QED BY <1>2, <1>3, <1>4 DEF CronInv

LEMMA CronAskedField ==
    ASSUME CronInv, cronAt = "idle", NEW n \in 0 .. MaxItems, NEW b \in FieldBounds,
           NEW field \in [1 .. n -> Item], AskField(field, b[1], b[2])
    PROVE  CronInv'
<1> DEFINE s == [field |-> field, min |-> b[1], max |-> b[2]]
<1>1. b[1] \in Nat /\ b[2] \in Nat /\ n \in Nat
  BY FieldAssumption
<1>2. field \in Seq(Item)
  BY <1>1
<1>3. s \in CronSpecs
  BY <1>1, <1>2 DEF CronSpecs
<1>4. Ask(<<s>>, NoTime)
  BY DEF AskField
<1> HIDE DEF s
<1>5. <<s>> \in Seq(CronSpecs)
  BY <1>3
<1> QED BY <1>4, <1>5, CronAsked

LEMMA CronAskedTime ==
    ASSUME CronInv, cronAt = "idle", NEW e \in FieldChoices,
           NEW time \in 0 .. Len(Days) * MinutesPerDay * Fractions, AskTime(e, time)
    PROVE  CronInv'
<1> DEFINE s1 == [field |-> e.minute,     min |-> 0, max |-> MinutesPerHour - 1]
           s2 == [field |-> e.hour,       min |-> 0, max |-> HoursPerDay - 1]
           s3 == [field |-> e.dayOfMonth, min |-> 1, max |-> 31]
           s4 == [field |-> e.month,      min |-> 1, max |-> 12]
           s5 == [field |-> e.dayOfWeek,  min |-> 0, max |-> DaysPerWeek - 1]
<1>1. e \in Exprs
  BY FieldAssumption
<1>2. MinutesPerHour - 1 \in Nat /\ HoursPerDay - 1 \in Nat /\ DaysPerWeek - 1 \in Nat
  BY UnitsPositive
<1>3. /\ s1 \in CronSpecs /\ s2 \in CronSpecs /\ s3 \in CronSpecs /\ s4 \in CronSpecs
      /\ s5 \in CronSpecs
  BY <1>1, <1>2 DEF Exprs, CronSpecs
<1>4. Ask(<<s1, s2, s3, s4, s5>>, time)
  BY DEF AskTime
<1> HIDE DEF s1, s2, s3, s4, s5
<1>5. <<s1, s2, s3, s4, s5>> \in Seq(CronSpecs) /\ Len(<<s1, s2, s3, s4, s5>>) = 5
  BY <1>3
<1>6. time \in Nat
  OBVIOUS
<1> QED BY <1>4, <1>5, <1>6, CronAsked

(* The inductive invariant of the loops over fields, items, values and      *)
(* minutes.                                                                 *)
LEMMA CronInductive == CronSpec => []CronInv
<1>1. CronInit => CronInv
  BY DEF CronInit, CronInv, CronType, NoTime
<1>2. ASSUME CronInv, [CronStep]_cronVars PROVE CronInv'
  <2>1. CASE cronAt = "idle" /\ \E n \in 0 .. MaxItems, b \in FieldBounds :
                 \E field \in [1 .. n -> Item] : AskField(field, b[1], b[2])
    BY <1>2, <2>1, CronAskedField
  <2>2. CASE cronAt = "idle" /\ \E e \in FieldChoices,
                 time \in 0 .. Len(Days) * MinutesPerDay * Fractions : AskTime(e, time)
    BY <1>2, <2>2, CronAskedTime
  <2>3. CASE CronWork
    BY <1>2, <2>3, CronAnyField, CronBeginField, CronEndField, CronBeginItem, CronBadItem,
       CronNextValue, CronAccepted, CronBeginSearch, CronSearch, CronReturned DEF CronWork
  <2>4. CASE UNCHANGED cronVars
    <3>1. UNCHANGED <<cronAt, specs, after, parsed, item, vals, v, tm>>
      BY <2>4 DEF cronVars
    <3> QED BY <1>2, <3>1 DEF CronInv, CronType, CollectedBelow, OnStep, Current, Limit, DueAt
  <2> QED BY <1>2, <2>1, <2>2, <2>3, <2>4 DEF CronStep
<1> QED BY <1>1, <1>2, PTL DEF CronSpec

(* parseCronExpr accepts exactly the well-formed expressions, and the       *)
(* values it keeps for a field are the ones its items stand for: for every  *)
(* number of items, all bounds and all steps.                               *)
THEOREM FieldsDenoted == CronSpec => []FieldDenotation
<1>1. CronInv => FieldDenotation
  <2> SUFFICES ASSUME CronInv PROVE FieldDenotation
    OBVIOUS
  <2>1. \A n \in 1 .. Len(parsed) : ParsedOK(specs[n], parsed[n])
    BY DEF CronInv
  <2>2. cronAt = "refused" => \E n \in 1 .. Len(specs) : ~WellFormed(specs[n])
    BY DEF CronInv
  <2>3. ASSUME cronAt \in {"accepted", "search", "found", "never"}, NEW n \in 1 .. Len(specs)
        PROVE  /\ WellFormed(specs[n])
               /\ \A x \in specs[n].min .. specs[n].max :
                     contains(parsed[n], x) <=> Means(specs[n], x)
    <3>1. Len(parsed) = Len(specs)
      BY <2>3 DEF CronInv
    <3>2. ParsedOK(specs[n], parsed[n])
      BY <2>1, <2>3, <3>1
    <3>3. \A x \in specs[n].min .. specs[n].max : x \in Int
      BY <2>3 DEF CronInv, CronType, CronSpecs
    <3> QED BY <3>2, <3>3 DEF ParsedOK
  <2> QED BY <2>2, <2>3 DEF FieldDenotation
<1> QED BY <1>1, CronInductive, PTL

(* nextCronTime returns the first matching minute after the given time, or  *)
(* nothing if the days it searches have none: for every calendar, every     *)
(* expression and every time.                                               *)
THEOREM NextTimeLeast == CronSpec => []NextIsLeast
<1>1. CronInv => NextIsLeast
  <2> SUFFICES ASSUME CronInv PROVE NextIsLeast
    OBVIOUS
  <2>1. tm \in Nat /\ Fractions \in Nat \ {0} /\ MinutesPerDay \in Nat /\ LimitDays \in Nat
    BY UnitsPositive DEF CronInv, CronType
  <2>2. ASSUME cronAt = "never", NEW t \in 0 .. Limit, t * Fractions > after, t * Fractions <= Limit
        PROVE  ~DueAt(t)
    <3>1. /\ tm * Fractions > Limit /\ after \in Nat
          /\ \A u \in 0 .. tm - 1 : u * Fractions > after => ~DueAt(u)
      BY <2>2 DEF CronInv
    <3>2. Limit \in Int /\ t \in Nat
      BY <2>1, <2>2, <3>1 DEF Limit
    <3>3. t < tm
      <4> SUFFICES ASSUME tm <= t PROVE FALSE
        BY <2>1, <3>2
      <4>1. tm * Fractions <= t * Fractions
        BY <2>1, <3>2, MulMono
      <4>2. tm * Fractions \in Int /\ t * Fractions \in Int
        BY <2>1, <3>2
      <4> QED BY <2>2, <3>1, <3>2, <4>1, <4>2
    <3> QED BY <2>1, <2>2, <3>1, <3>2, <3>3
  <2>3. cronAt = "found" =>
            /\ tm * Fractions > after /\ tm * Fractions <= Limit /\ DueAt(tm)
            /\ \A t \in 0 .. tm - 1 : t * Fractions > after => ~DueAt(t)
    BY DEF CronInv
  <2> QED BY <2>2, <2>3 DEF NextIsLeast
<1> QED BY <1>1, CronInductive, PTL

CronPhase ==
    CASE cronAt \in {"field", "item", "value"} -> 3
      [] cronAt = "search"                     -> 2
      [] cronAt = "idle"                       -> 0
      [] OTHER                                 -> 1

(* Every step ends a phase or goes on within it, towards the bound it stops *)
(* at: the fields, the items of a field, the values of an item; the minutes *)
(* of a search.                                                             *)
CronAdvances ==
    \/ CronPhase' < CronPhase
    \/ /\ CronPhase' = CronPhase /\ specs' = specs /\ after' = after
       /\ \/ Len(parsed) < Len(parsed') /\ Len(parsed') <= Len(specs)
          \/ /\ parsed' = parsed
             /\ \/ cronAt = "field" /\ cronAt' = "item"
                \/ /\ cronAt = "value" /\ cronAt' = "item"
                   /\ item < item' /\ item' <= Len(Current.field) + 1
                \/ cronAt = "item" /\ cronAt' = "value" /\ item' = item
                \/ /\ cronAt = "value" /\ cronAt' = "value" /\ item' = item
                   /\ v < v' /\ v <= Current.max
                \/ cronAt = "search" /\ tm < tm' /\ tm * Fractions <= Limit

(* One more field is parsed. *)
LEMMA FieldAdvances ==
    ASSUME CronType, Len(parsed) < Len(specs), NEW f \in [any : BOOLEAN, vals : SUBSET Int]
    PROVE  Len(parsed) < Len(Append(parsed, f)) /\ Len(Append(parsed, f)) <= Len(specs)
<1>1. Len(parsed) \in Nat /\ Len(specs) \in Nat
  BY DEF CronType
<1>2. Len(Append(parsed, f)) = Len(parsed) + 1
  <2> DEFINE R == [any : BOOLEAN, vals : SUBSET Int]
  <2>1. parsed \in Seq(R) /\ f \in R
    BY DEF CronType
  <2> HIDE DEF R
  <2> QED BY <2>1, AppendProperties
<1> QED BY <1>1, <1>2

(* The loops over a value and a minute do not stand still: a step of zero   *)
(* was refused before.                                                      *)
LEMMA ValueAdvances ==
    ASSUME CronInv, NextValue
    PROVE  CronAdvances
<1> DEFINE s == Current
           i == s.field[item]
<1>1. /\ CronType /\ cronAt = "value" /\ Len(parsed) < Len(specs)
      /\ item \in 1 .. Len(s.field) + 1 /\ item <= Len(s.field) /\ GoodItem(s, item)
  BY DEF CronInv, NextValue
<1>2. /\ IF v <= UpTo(i, s.max)
         THEN vals' = vals \cup {v} /\ v' = v + i.step /\ UNCHANGED <<cronAt, item>>
         ELSE cronAt' = "item" /\ item' = item + 1 /\ UNCHANGED <<vals, v>>
      /\ UNCHANGED <<specs, after, parsed, tm>>
  BY DEF NextValue
<1>3. /\ s.min \in Nat /\ s.max \in Nat /\ Len(s.field) \in Nat /\ item \in 1 .. Len(s.field)
      /\ \A n \in 1 .. Len(s.field) : s.field[n] \in Item
  BY <1>1, CronCurrent
<1>4. UpTo(i, s.max) \in Nat /\ i.step \in Nat /\ i.step > 0 /\ UpTo(i, s.max) <= s.max
  BY <1>1, <1>3, ItemType DEF GoodItem, ItemOK
<1>5. v \in Nat
  BY <1>1 DEF CronType
<1> HIDE DEF i
<1>6. CASE v <= UpTo(i, s.max)
  <2>1. v' = v + i.step /\ cronAt' = cronAt /\ item' = item
    BY <1>2, <1>6
  <2>2. v < v' /\ v <= s.max
    BY <1>3, <1>4, <1>5, <1>6, <2>1
  <2>3. CronPhase' = CronPhase
    BY <2>1 DEF CronPhase
  <2> QED BY <1>1, <1>2, <2>1, <2>2, <2>3 DEF CronAdvances
<1>7. CASE ~(v <= UpTo(i, s.max))
  <2>1. cronAt' = "item" /\ item' = item + 1
    BY <1>2, <1>7
  <2>2. item < item' /\ item' <= Len(s.field) + 1
    BY <1>3, <2>1
  <2>3. CronPhase' = CronPhase
    BY <1>1, <2>1 DEF CronPhase
  <2> QED BY <1>1, <1>2, <2>1, <2>2, <2>3 DEF CronAdvances
<1> QED BY <1>6, <1>7

(* Every step of parseCronExpr and nextCronTime goes on towards a bound: no *)
(* field, step or impossible date keeps them from returning (cron.go:112,   *)
(* :38).                                                                    *)
THEOREM CronDescent == CronSpec => [][CronWork => CronAdvances]_cronVars
<1>1. ASSUME CronInv, CronWork PROVE CronAdvances
  <2>0. CronType
    BY <1>1 DEF CronInv
  <2>1. CASE AnyField
    <3>1. Len(parsed) < Len(parsed') /\ Len(parsed') <= Len(specs)
      BY <2>0, <2>1, FieldAdvances DEF AnyField
    <3> QED BY <2>1, <3>1 DEF AnyField, CronAdvances, CronPhase
  <2>2. CASE EndField
    <3>1. Len(parsed) < Len(specs)
      BY <1>1, <2>2 DEF CronInv, EndField
    <3>2. [any |-> FALSE, vals |-> vals] \in [any : BOOLEAN, vals : SUBSET Int]
      BY <2>0 DEF CronType
    <3>3. Len(parsed) < Len(parsed') /\ Len(parsed') <= Len(specs)
      BY <2>0, <2>2, <3>1, <3>2, FieldAdvances DEF EndField
    <3> QED BY <2>2, <3>3 DEF EndField, CronAdvances, CronPhase
  <2>3. CASE BeginField \/ BeginItem
    BY <2>3 DEF BeginField, BeginItem, CronAdvances, CronPhase
  <2>4. CASE BadItem \/ Accepted \/ BeginSearch \/ CronReturn
    BY <2>4 DEF BadItem, Accepted, BeginSearch, CronReturn, CronAdvances, CronPhase
  <2>5. CASE NextValue
    BY <1>1, <2>5, ValueAdvances
  <2>6. CASE Search
    <3>1. tm \in Nat /\ tm < tm + 1 /\ Limit \in Int /\ tm * Fractions \in Int
      <4>1. after \in Nat /\ tm \in Nat
        BY <1>1, <2>0, <2>6 DEF CronInv, CronType, Search
      <4> QED BY <4>1, UnitsPositive DEF Limit
    <3>2. ~(tm * Fractions > Limit) => tm * Fractions <= Limit
      BY <3>1
    <3> QED BY <2>6, <3>1, <3>2 DEF Search, CronAdvances, CronPhase
  <2> QED BY <1>1, <2>1, <2>2, <2>3, <2>4, <2>5, <2>6 DEF CronWork
<1>2. CronInv => [CronWork => CronAdvances]_cronVars
  BY <1>1
<1> QED BY <1>2, CronInductive, PTL
============================================================================
