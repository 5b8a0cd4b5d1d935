------------------------- MODULE ServerResetProofs -------------------------
(***************************************************************************)
(* For every number of clients, every workload and every schedule of the   *)
(* background tasks: a reset excludes requests and other resets, and an    *)
(* "ok" means that every store was wiped after the last request left.      *)
(***************************************************************************)
EXTENDS ServerReset, TLAPS

Writer == {"drain", "wiping", "ok", "failed"}

(* The lock: one writer at most, and no reader beside one that runs. *)
LockInv ==
    \A c, d \in Clients :
        c # d /\ pc[c] \in Writer =>
            pc[d] \notin Writer /\ (pc[c] # "drain" => pc[d] # "query")

(* The walk: the stores behind the cursor hold what tasks wrote at most. *)
WalkInv ==
    \A c \in Clients :
        /\ pc[c] = "wiping" =>
              \A i \in 1 .. NumStores : i < cursor /\ Order[i] \in used => Order[i] \in stray
        /\ pc[c] = "ok" => used \subseteq stray

IInv == TypeOK /\ LockInv /\ WalkInv

(* Facts about the list of stores. *)
LEMMA OrderFacts ==
    /\ NumStores \in Nat /\ EngineParts \in 1 .. NumStores
    /\ {"catalog", "databases", "tables"} \subseteq Stores
    /\ EngineStores \subseteq Stores
<1>1. NumStores = 16
  BY DEF NumStores, Order
<1>2. EngineParts \in 1 .. NumStores
  BY <1>1 DEF EngineParts
<1>3. {"catalog", "databases", "tables"} \subseteq Stores
  <2>1. Order[1] = "tables" /\ Order[4] = "databases" /\ Order[5] = "catalog"
    BY DEF Order
  <2> QED BY <1>1, <2>1 DEF Stores
<1>4. EngineStores \subseteq Stores
  BY <1>1, <1>2 DEF EngineStores, Stores
<1> QED BY <1>1, <1>2, <1>3, <1>4

(* The initial state satisfies the invariant. *)
LEMMA InitIInv == Init => IInv
<1> SUFFICES ASSUME Init PROVE IInv
  OBVIOUS
<1>1. TypeOK
  <2>1. cursor \in 1 .. NumStores + 1
    BY OrderFacts DEF Init
  <2>2. shelved \in BOOLEAN /\ inflight \in BOOLEAN
    BY Zenon DEF Init
  <2> QED BY <2>1, <2>2 DEF Init, TypeOK, States
<1>2. LockInv /\ WalkInv
  BY DEF Init, LockInv, WalkInv, Writer
<1> QED BY <1>1, <1>2 DEF IInv

(* Every step keeps the types. *)
LEMMA StepType == TypeOK /\ [Next]_vars => TypeOK'
<1> SUFFICES ASSUME TypeOK, [Next]_vars PROVE TypeOK'
  OBVIOUS
<1> USE OrderFacts, WorkloadAssumption DEF TypeOK, Goto, States
<1>1. CASE UNCHANGED vars
  BY <1>1 DEF vars
<1>2. ASSUME NEW c \in Clients,
             Request(c) \/ RLock(c) \/ Answer(c) \/ ResetRequest(c) \/ Announce(c)
      PROVE  TypeOK'
  BY <1>2 DEF Request, RLock, Answer, ResetRequest, Announce
<1>3. ASSUME NEW c \in Clients, Attach(c) PROVE TypeOK'
  BY <1>3 DEF Attach
<1>4. ASSUME NEW c \in Clients, NEW x \in Workload, Touch(c, x) PROVE TypeOK'
  BY <1>4 DEF Touch
<1>5. ASSUME NEW c \in Clients, Lock(c) \/ WipeFails(c) \/ WipeDone(c) PROVE TypeOK'
  BY <1>5 DEF Lock, WipeFails, WipeDone
<1>6. ASSUME NEW c \in Clients, Wipe(c) PROVE TypeOK'
  BY <1>6 DEF Wipe
<1>7. ASSUME NEW c \in Clients, Unlock(c) PROVE TypeOK'
  BY <1>7 DEF Unlock
<1>8. CASE Tick \/ TickEnd
  BY <1>8 DEF Tick, TickEnd
<1>9. ASSUME NEW x \in EngineStores \cap Workload, TaskSQL(x) PROVE TypeOK'
  BY <1>9 DEF TaskSQL
<1>10. CASE Restart
  <2>1. cursor' \in 1 .. NumStores + 1
    BY <1>10 DEF Restart
  <2>2. shelved' \in BOOLEAN /\ inflight' \in BOOLEAN
    BY <1>10, Zenon DEF Restart
  <2>3. pc' \in [Clients -> States]
    BY <1>10 DEF Restart
  <2>4. used' \subseteq Stores /\ stray' \subseteq Stores
    BY <1>10 DEF Restart
  <2> QED BY <2>1, <2>2, <2>3, <2>4
<1> QED
  BY <1>1, <1>2, <1>3, <1>4, <1>5, <1>6, <1>7, <1>8, <1>9, <1>10 DEF Next

(* Every step keeps the lock's promise. *)
LEMMA StepLock == TypeOK /\ LockInv /\ [Next]_vars => LockInv'
<1> SUFFICES ASSUME TypeOK, LockInv, [Next]_vars PROVE LockInv'
  OBVIOUS
<1> USE DEF TypeOK, LockInv, Goto, Writer
<1>1. CASE UNCHANGED pc
  BY <1>1
<1>2. ASSUME NEW c \in Clients, Request(c) \/ Answer(c) \/ ResetRequest(c) PROVE LockInv'
  BY <1>2 DEF Request, Answer, ResetRequest
<1>3. ASSUME NEW c \in Clients, RLock(c) PROVE LockInv'
  BY <1>3 DEF RLock, CanRead, Announced
<1>4. ASSUME NEW c \in Clients, Announce(c) PROVE LockInv'
  BY <1>4 DEF Announce, Announced
<1>5. ASSUME NEW c \in Clients, Lock(c) PROVE LockInv'
  BY <1>5 DEF Lock, Reading
<1>6. ASSUME NEW c \in Clients, WipeFails(c) \/ WipeDone(c) PROVE LockInv'
  BY <1>6 DEF WipeFails, WipeDone
<1>7. ASSUME NEW c \in Clients, Unlock(c) PROVE LockInv'
  \* Nobody else was a writer, so nobody is one now.
  <2>1. \A d \in Clients : pc'[d] \notin Writer
    BY <1>7 DEF Unlock
  <2> QED BY <2>1
<1>8. CASE Restart
  BY <1>8 DEF Restart
<1> QED
  BY <1>1, <1>2, <1>3, <1>4, <1>5, <1>6, <1>7, <1>8
     DEF Next, vars, Attach, Touch, Wipe, Tick, TickEnd, TaskSQL

(* Every step keeps the walk's promise: nothing but the reset and the      *)
(* scheduler writes while a reset runs.                                    *)
LEMMA StepWalk == IInv /\ [Next]_vars => WalkInv'
<1> SUFFICES ASSUME TypeOK, LockInv, WalkInv, [Next]_vars PROVE WalkInv'
  BY DEF IInv
<1> USE OrderFacts DEF TypeOK, LockInv, WalkInv, Goto, Writer
<1>1. CASE UNCHANGED vars
  BY <1>1 DEF vars
<1>2. ASSUME NEW c \in Clients,
             Request(c) \/ RLock(c) \/ Answer(c) \/ ResetRequest(c) \/ Announce(c)
      PROVE  WalkInv'
  BY <1>2 DEF Request, RLock, Answer, ResetRequest, Announce
<1>3. ASSUME NEW c \in Clients, Attach(c) \/ \E x \in Workload : Touch(c, x)
      PROVE  WalkInv'
  \* A request is in its handler, hence no reset is.
  <2>1. pc[c] = "query" /\ pc' = pc
    BY <1>3 DEF Attach, Touch
  <2>2. \A d \in Clients : pc'[d] \notin {"wiping", "ok"}
    BY <2>1
  <2> QED BY <2>2
<1>4. ASSUME NEW c \in Clients, Lock(c) PROVE WalkInv'
  <2>1. \A d \in Clients : d # c => pc'[d] \notin {"wiping", "ok"}
    BY <1>4 DEF Lock
  <2>2. pc'[c] = "wiping" /\ cursor' = 1
    BY <1>4 DEF Lock
  <2> QED BY <2>1, <2>2
<1>5. ASSUME NEW c \in Clients, Wipe(c) PROVE WalkInv'
  <2>1. pc' = pc /\ pc[c] = "wiping" /\ cursor' = cursor + 1 /\ stray' = stray
        /\ used' = used \ {Order[cursor]}
    BY <1>5 DEF Wipe
  <2>2. \A d \in Clients : d # c => pc'[d] \notin {"wiping", "ok"}
    BY <2>1
  <2>3. ASSUME NEW i \in 1 .. NumStores, i < cursor', Order[i] \in used'
        PROVE  Order[i] \in stray'
    BY <2>1, <2>3
  <2> QED BY <2>1, <2>2, <2>3
<1>6. ASSUME NEW c \in Clients, WipeFails(c) PROVE WalkInv'
  BY <1>6 DEF WipeFails
<1>7. ASSUME NEW c \in Clients, WipeDone(c) PROVE WalkInv'
  <2>1. used \subseteq stray
    <3>1. pc[c] = "wiping" /\ \A i \in 1 .. NumStores : i < cursor
      BY <1>7 DEF WipeDone
    <3> QED BY <3>1 DEF Stores
  <2> QED BY <1>7, <2>1 DEF WipeDone
<1>8. ASSUME NEW c \in Clients, Unlock(c) PROVE WalkInv'
  <2>1. \A d \in Clients : pc'[d] \notin {"wiping", "ok"}
    BY <1>8 DEF Unlock
  <2> QED BY <2>1
<1>9. CASE Tick \/ TickEnd
  BY <1>9 DEF Tick, TickEnd
<1>10. ASSUME NEW x \in EngineStores \cap Workload, TaskSQL(x) PROVE WalkInv'
  BY <1>10 DEF TaskSQL
<1>11. CASE Restart
  BY <1>11 DEF Restart
<1> QED
  BY <1>1, <1>2, <1>3, <1>4, <1>5, <1>6, <1>7, <1>8, <1>9, <1>10, <1>11 DEF Next

(* The invariant is inductive. *)
LEMMA Inductive == Spec => []IInv
<1>1. IInv /\ [Next]_vars => IInv'
  BY StepType, StepLock, StepWalk DEF IInv
<1> QED BY InitIInv, <1>1, PTL DEF Spec

(* The variables of a server with any number of clients keep their types. *)
THEOREM TypeCorrect == Spec => []TypeOK
<1>1. IInv => TypeOK
  BY DEF IInv
<1> QED BY Inductive, <1>1, PTL

(* withStateLock: a wipe never overlaps with a request or another wipe. *)
THEOREM WipesExclude == Spec => []WipeExclusive
<1>1. IInv => WipeExclusive
  BY DEF IInv, LockInv, WipeExclusive, Wiping, Writer
<1> QED BY Inductive, <1>1, PTL

(* handleReset: "ok" means that every store is empty but for what a task   *)
(* wrote to the engine while the reset ran.                                *)
THEOREM OkMeansWiped == Spec => []ResetComplete
<1>1. IInv => ResetComplete
  BY DEF IInv, WalkInv, ResetComplete
<1> QED BY Inductive, <1>1, PTL
============================================================================
