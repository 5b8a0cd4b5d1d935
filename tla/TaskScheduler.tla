--------------------------- MODULE TaskScheduler ---------------------------
(***************************************************************************)
(* internal/task/task.go: the task registry and the scheduler goroutine.   *)
(*                                                                         *)
(* The registry (`tasks`) maps a task name to a *Task object; DDL requests *)
(* create, drop, resume, suspend and reset under s.mu.  The scheduler      *)
(* goroutine takes a time from a one-second ticker, collects the root      *)
(* objects under s.mu, releases the lock and then walks the task graph     *)
(* depth first, running SQL with no lock held.  Everything the walk        *)
(* remembers between two lock acquisitions (`roots`, `stack`, `cur`) can   *)
(* be overtaken by DDL.                                                    *)
(*                                                                         *)
(* A task name stands for the lower-cased db.schema.name key of one        *)
(* schema: runSuccessors never leaves the schema of its root.              *)
(***************************************************************************)
EXTENDS Integers, Sequences, FiniteSets

CONSTANTS
    Names,          \* task names
    NoName,         \* Predecessor == ""
    Objs,           \* *Task objects; their number bounds the CREATE TASKs
    NoObj,          \* a nil *Task
    Definitions,    \* the task definitions CREATE TASK may carry
    CronNext(_, _), \* nextCronTime(expression, after), see Cron
    Never,          \* a nil NextRunAt or LastRunAt, an empty ticker channel
    Minute,         \* ticks of the one-second ticker per minute (60)
    MaxTime         \* the clock saturates here

Time    == 0 .. MaxTime
Kinds   == {"none", "minute", "cron", "malformed"}
Scheds  == [kind : Kinds, n : Nat]
Attrs   == [name : Names, pred : Names \cup {NoName},
            sched : Scheds, when : BOOLEAN]
States  == {"started", "suspended"}
Alters  == [obj : Objs, to : States]
NoAlter == [obj |-> NoObj, to |-> "suspended"]

ASSUME NameAssumption == NoName \notin Names
ASSUME ObjAssumption  == NoObj \notin Objs
ASSUME NeverAssumption == Never \notin Nat
ASSUME TimeAssumption == MaxTime \in Nat /\ Minute \in Nat \ {0}
ASSUME DefinitionAssumption == Definitions # {} /\ Definitions \subseteq Attrs
ASSUME CronAssumption ==
    \A d \in Definitions : d.sched.kind = "cron" =>
        \A t \in Time : /\ CronNext(d.sched.n, t) \in Nat
                       /\ CronNext(d.sched.n, t) > t

VARIABLES
    \* the registry and the heap of Task objects
    alloc,      \* objects created so far
    attr,       \* the fields CREATE TASK fixes
    tasks,      \* s.tasks : name -> object
    state,      \* Task.State
    nextRun,    \* Task.NextRunAt
    lastRun,    \* Task.LastRunAt
    alter,      \* an ALTER TASK between its lookup and its assignment
    \* time
    clock,      \* wall clock, in ticks
    tickC,      \* the ticker's one-slot channel
    \* the scheduler goroutine
    pc,         \* where the loop is
    now,        \* tick's argument
    roots,      \* roots collected by tick, not yet visited
    stack,      \* successors collected by runSuccessors, not yet visited,
                \* one entry per active call that still has some
    cur,        \* the task runTask is executing
    cancelled,  \* the context handed to loop is done
    \* history variables of the current tick
    ran,        \* objects whose SQL has been started
    again,      \* some object's SQL was started twice
    eligible    \* objects that were registered and started at some moment

registry == <<alloc, attr, tasks, state>>
runTimes == <<nextRun, lastRun>>
timer    == <<clock, tickC>>
walk     == <<now, roots, stack, cur>>
history  == <<ran, again, eligible>>
vars     == <<registry, runTimes, alter, timer, pc, walk, cancelled, history>>

----------------------------------------------------------------------------
Registered(o) == \E n \in Names : tasks[n] = o
Live          == {o \in Objs : Registered(o) /\ state[o] = "started"}
Pred(o)       == attr[o].pred
Scheduled(o)  == attr[o].sched.kind # "none"

(* Faulty variants of the two tests below. *)
IsRootIgnoringPred(o)           == o \in Live /\ Scheduled(o)
IsSuccessorOfAny(o, n)          == o \in Live
IsSuccessorEvenSuspended(o, n)  == Registered(o) /\ Pred(o) = n

(* tick's test for a root, and runSuccessors' test for a successor of n. *)
IsRoot(o)        == o \in Live /\ Scheduled(o) /\ Pred(o) = NoName
IsSuccessor(o, n) == o \in Live /\ Pred(o) = n

(* nextRunTime: a schedule that does not parse falls back to one minute. *)
nextRunTime(s, t) ==
    CASE s.kind = "minute" -> t + s.n * Minute
      [] s.kind = "cron"   -> CronNext(s.n, t)
      [] OTHER             -> t + Minute

(* A schedule is parsed only when there is no predecessor. *)
ValidTask(a) ==
    (a.sched.kind # "none" /\ a.pred = NoName) => a.sched.kind # "malformed"

NoAttr == CHOOSE a \in Definitions : TRUE

Init ==
    /\ alloc = {}
    /\ attr = [o \in Objs |-> NoAttr]
    /\ tasks = [n \in Names |-> NoObj]
    /\ state = [o \in Objs |-> "suspended"]
    /\ nextRun = [o \in Objs |-> Never]
    /\ lastRun = [o \in Objs |-> Never]
    /\ alter = NoAlter
    /\ clock = 0 /\ tickC = Never
    /\ pc = "idle" /\ now = 0
    /\ roots = {} /\ stack = << >> /\ cur = NoObj
    /\ cancelled = FALSE
    /\ ran = {} /\ again = FALSE /\ eligible = {}

----------------------------------------------------------------------------
(* DDL, on the goroutine of a request. *)

CreateTask(a, o) ==
    /\ tasks[a.name] = NoObj
    /\ ValidTask(a)
    /\ o \in Objs \ alloc
    /\ alloc' = alloc \cup {o}
    /\ attr' = [attr EXCEPT ![o] = a]
    /\ tasks' = [tasks EXCEPT ![a.name] = o]
    /\ state' = [state EXCEPT ![o] = "suspended"]
    /\ UNCHANGED <<runTimes, alter, timer, pc, walk, cancelled, history>>

(* The close of stopCh has no reader: the object itself is left as it is. *)
DropTask(n) ==
    /\ tasks[n] # NoObj
    /\ tasks' = [tasks EXCEPT ![n] = NoObj]
    /\ UNCHANGED <<alloc, attr, state, runTimes, alter, timer, pc, walk,
                   cancelled, history>>

(* AlterTask looks the object up under s.mu.RLock, releases the lock, and   *)
(* only then sets the state under the object's own mutex.                   *)
AlterLookup(n, st) ==
    /\ alter = NoAlter
    /\ tasks[n] # NoObj
    /\ alter' = [obj |-> tasks[n], to |-> st]
    /\ UNCHANGED <<registry, runTimes, timer, pc, walk, cancelled, history>>

AlterApply ==
    /\ alter # NoAlter
    /\ state' = [state EXCEPT ![alter.obj] = alter.to]
    /\ alter' = NoAlter
    /\ eligible' = IF pc \notin {"idle", "stopped"} /\ alter.to = "started" /\ Registered(alter.obj)
                   THEN eligible \cup {alter.obj} ELSE eligible
    /\ UNCHANGED <<alloc, attr, tasks, runTimes, timer, pc, walk, cancelled,
                   ran, again>>

(* The server resets under its exclusive state lock, so no ALTER TASK is    *)
(* under way; the scheduler goroutine takes no part in that lock.           *)
Reset ==
    /\ alter = NoAlter
    /\ state' = [o \in Objs |-> IF Registered(o) THEN "suspended" ELSE state[o]]
    /\ tasks' = [n \in Names |-> NoObj]
    /\ UNCHANGED <<alloc, attr, runTimes, alter, timer, pc, walk, cancelled,
                   history>>

(* main drains the server before it stops the scheduler. *)
DDL ==
    /\ ~cancelled
    /\ \/ \E a \in Definitions, o \in Objs : CreateTask(a, o)
       \/ \E n \in Names : DropTask(n)
       \/ \E n \in Names, st \in States : AlterLookup(n, st)
       \/ AlterApply
       \/ Reset

----------------------------------------------------------------------------
(* The ticker of loop: a tick that finds the channel full is dropped, so a  *)
(* scheduler busy for long receives the time of the oldest missed tick.     *)
(* The clock saturates at MaxTime and goes on ticking there.                *)
Second ==
    /\ pc # "stopped"
    /\ clock' = IF clock < MaxTime THEN clock + 1 ELSE clock
    /\ tickC' = IF tickC = Never THEN clock' ELSE tickC
    /\ UNCHANGED <<registry, runTimes, alter, pc, walk, cancelled, history>>

(* tick collects the roots under s.mu. *)
TickBegin ==
    /\ pc = "idle"
    /\ tickC # Never
    /\ now' = tickC
    /\ tickC' = Never
    /\ roots' = {o \in Objs : IsRoot(o)}
    /\ pc' = "roots"
    /\ eligible' = Live
    /\ UNCHANGED <<registry, runTimes, alter, clock, stack, cur, cancelled,
                   ran, again>>

(* Faulty variant: the root stays in the list. *)
VisitRootForever(o) ==
    /\ pc = "roots"
    /\ o \in roots
    /\ \/ /\ nextRun[o] = Never
          /\ nextRun' = [nextRun EXCEPT ![o] = nextRunTime(attr[o].sched, now)]
          /\ UNCHANGED <<pc, cur>>
       \/ /\ nextRun[o] # Never /\ now < nextRun[o]
          /\ UNCHANGED <<nextRun, pc, cur>>
       \/ /\ nextRun[o] # Never /\ now >= nextRun[o]
          /\ pc' = "dag" /\ cur' = o
          /\ UNCHANGED nextRun
    /\ UNCHANGED <<registry, lastRun, alter, timer, now, roots, stack, cancelled, history>>

(* The body of tick's loop, up to the decision to run the root's graph. *)
VisitRoot(o) ==
    /\ pc = "roots"
    /\ o \in roots
    /\ roots' = roots \ {o}
    /\ \/ /\ nextRun[o] = Never
          /\ nextRun' = [nextRun EXCEPT ![o] = nextRunTime(attr[o].sched, now)]
          /\ UNCHANGED <<pc, cur>>
       \/ /\ nextRun[o] # Never /\ now < nextRun[o]
          /\ UNCHANGED <<nextRun, pc, cur>>
       \/ /\ nextRun[o] # Never /\ now >= nextRun[o]
          /\ pc' = "dag" /\ cur' = o
          /\ UNCHANGED nextRun
    /\ UNCHANGED <<registry, lastRun, alter, timer, now, stack, cancelled, history>>

(* runTask hands the SQL to the engine with no lock held. *)
StartSQL(o) ==
    /\ pc' = "exec"
    /\ cur' = o
    /\ ran' = ran \cup {o}
    /\ again' = (again \/ o \in ran)

(* executeDAG: the WHEN condition asks another component, so a conditional  *)
(* task may find it true or false.                                          *)
ExecuteDAG ==
    /\ pc = "dag"
    /\ \/ /\ StartSQL(cur)
          /\ UNCHANGED nextRun
       \/ /\ attr[cur].when
          /\ nextRun' = [nextRun EXCEPT ![cur] = nextRunTime(attr[cur].sched, now)]
          /\ pc' = "roots" /\ cur' = NoObj
          /\ UNCHANGED <<ran, again>>
    /\ UNCHANGED <<registry, lastRun, alter, timer, now, roots, stack, cancelled,
                   eligible>>

(* Faulty variant: the schedule is not advanced after a run. *)
FinishSQLNoAdvance ==
    /\ pc = "exec"
    /\ lastRun' = [lastRun EXCEPT ![cur] = now]
    /\ pc' = "collect"
    /\ UNCHANGED <<registry, nextRun, alter, timer, walk, cancelled, history>>

(* The SQL returns, with or without an error: runTask only logs the error. *)
FinishSQL ==
    /\ pc = "exec"
    /\ lastRun' = [lastRun EXCEPT ![cur] = now]
    /\ nextRun' = IF Scheduled(cur)
                  THEN [nextRun EXCEPT ![cur] = nextRunTime(attr[cur].sched, now)]
                  ELSE nextRun
    /\ pc' = "collect"
    /\ UNCHANGED <<registry, alter, timer, walk, cancelled, history>>

(* runSuccessors collects the started tasks that name cur as predecessor.   *)
(* A call with nothing left to visit is not kept on the stack: returning    *)
(* from it changes nothing.                                                 *)
CollectSuccessors ==
    LET succ == {o \in Objs : IsSuccessor(o, attr[cur].name)} IN
    /\ pc = "collect"
    /\ stack' = IF succ = {} THEN stack ELSE Append(stack, succ)
    /\ pc' = IF stack' = << >> THEN "roots" ELSE "succ"
    /\ cur' = NoObj
    /\ UNCHANGED <<registry, runTimes, alter, timer, now, roots, cancelled, history>>

(* The rest of runSuccessors: the next collected successor, if its WHEN     *)
(* condition holds, is run and its own successors follow.                   *)
Top  == stack[Len(stack)]
Rest == SubSeq(stack, 1, Len(stack) - 1)

VisitSuccessor(o) ==
    /\ pc = "succ"
    /\ o \in Top
    /\ stack' = IF Top = {o} THEN Rest ELSE Append(Rest, Top \ {o})
    /\ \/ StartSQL(o)
       \/ /\ attr[o].when
          /\ pc' = IF stack' = << >> THEN "roots" ELSE "succ"
          /\ UNCHANGED <<cur, ran, again>>
    /\ UNCHANGED <<registry, runTimes, alter, timer, now, roots, cancelled, eligible>>

TickEnd ==
    /\ pc = "roots"
    /\ roots = {}
    /\ pc' = "idle"
    /\ ran' = {} /\ again' = FALSE /\ eligible' = {}
    /\ UNCHANGED <<registry, runTimes, alter, timer, walk, cancelled>>

(* Stop cancels the context and waits; loop sees it only between two ticks. *)
Stop ==
    /\ ~cancelled
    /\ alter = NoAlter
    /\ cancelled' = TRUE
    /\ UNCHANGED <<registry, runTimes, alter, timer, pc, walk, history>>

LoopExit ==
    /\ pc = "idle"
    /\ cancelled
    /\ pc' = "stopped"
    /\ UNCHANGED <<registry, runTimes, alter, timer, walk, cancelled, history>>

Stopped == pc = "stopped" /\ UNCHANGED vars

Walk ==
    \/ \E o \in Objs : VisitRoot(o)
    \/ ExecuteDAG
    \/ FinishSQL
    \/ CollectSuccessors
    \/ \E o \in Objs : VisitSuccessor(o)
    \/ TickEnd

Next == DDL \/ Second \/ TickBegin \/ Walk \/ Stop \/ LoopExit \/ Stopped

(* The ticker fires, a request that started finishes, the goroutine goes on *)
(* (an SQL statement returns), and select, which picks at random between    *)
(* two ready channels, does not prefer the ticker to a done context forever. *)
Fairness ==
    /\ WF_vars(Second) /\ WF_vars(~cancelled /\ AlterApply)
    /\ WF_vars(TickBegin) /\ WF_vars(Walk)
    /\ SF_vars(LoopExit)

Spec == Init /\ [][Next]_vars /\ Fairness

----------------------------------------------------------------------------
Pcs == {"idle", "roots", "dag", "exec", "collect", "succ", "stopped"}

(* Types of the registry, the heap and the walk. *)
TypeOK ==
    /\ alloc \subseteq Objs
    /\ attr \in [Objs -> Definitions]
    /\ tasks \in [Names -> Objs \cup {NoObj}]
    /\ state \in [Objs -> States]
    /\ nextRun \in [Objs -> Nat \cup {Never}]
    /\ lastRun \in [Objs -> Time \cup {Never}]
    /\ alter \in Alters \cup {NoAlter}
    /\ clock \in Time
    /\ tickC \in Time \cup {Never}
    /\ pc \in Pcs
    /\ now \in Time
    /\ roots \subseteq Objs
    /\ stack \in Seq(SUBSET Objs)
    /\ pc = "succ" => stack # << >>
    /\ cur \in Objs \cup {NoObj}
    /\ pc \in {"dag", "exec", "collect"} => cur \in Objs
    /\ cancelled \in BOOLEAN
    /\ ran \subseteq Objs
    /\ again \in BOOLEAN
    /\ eligible \subseteq Objs

(* No two objects that this tick could meet carry the same name: nobody     *)
(* dropped a started task and started another of that name during the tick. *)
Unambiguous ==
    \A p, q \in eligible : attr[p].name = attr[q].name => p = q

(* A tick runs a task at most once, although the task graph is not checked  *)
(* for cycles when it is created and is re-read by every runSuccessors: the *)
(* only way to a second run is to replace a task while the tick is under    *)
(* way.                                                                     *)
OncePerTick == Unambiguous => ~again

(* What a tick runs was registered and started at some moment of that tick: *)
(* no SUSPEND or DROP that returned before the tick began is ignored, and a *)
(* RESUME that loses a race with DROP does not bring a task back.           *)
RanWasEligible == ran \subseteq eligible

(* A task with a predecessor runs only after a task of that name has run in *)
(* the same tick.                                                           *)
PredecessorFirst ==
    \A o \in ran : Pred(o) # NoName =>
        \E p \in ran \ {o} : attr[p].name = Pred(o)

StartsRun(o) == pc' = "exec" /\ pc # "exec" /\ cur' = o

(* A root never runs before the schedule says so, counted from the tick of  *)
(* its previous run: ticks missed while SQL was running are not made up for. *)
IntervalRespected ==
    [][\A o \in Objs :
          (StartsRun(o) /\ Pred(o) = NoName /\ lastRun[o] # Never)
            => now >= nextRunTime(attr[o].sched, lastRun[o])]_vars

(* A registered, started root whose time has come is not left waiting for   *)
(* ever, although ticks are dropped and other tasks hold the goroutine.     *)
Due(o) == IsRoot(o) /\ nextRun[o] # Never /\ nextRun[o] <= clock
DueRootServed ==
    \A o \in Objs : Due(o) ~> (~Due(o) \/ cancelled \/ ~Unambiguous)

(* Scheduler.Stop, which waits for the loop, returns. *)
StopReturns == cancelled ~> (pc = "stopped" \/ ~Unambiguous)
============================================================================
