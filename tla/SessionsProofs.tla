--------------------------- MODULE SessionsProofs ---------------------------
(***************************************************************************)
(* For every number of clients and tokens, every timeout and every bound   *)
(* on the lag of ticks: a session that is used is kept, and one that is    *)
(* gone never comes back.                                                  *)
(***************************************************************************)
EXTENDS Sessions, TLAPS

IInv == TypeOK /\ ActiveKept

(* The initial state satisfies the invariant. *)
LEMMA InitIInv == Init => IInv
<1> SUFFICES ASSUME Init PROVE IInv
  OBVIOUS
<1>1. age \in [Tokens -> 0 .. Cap] /\ tick \in NoTick .. MaxLag
  BY TimeAssumption DEF Init, Cap, NoTick
<1>2. req \in [Clients -> Request]
  <2>1. (CHOOSE t \in Tokens : TRUE) \in Tokens
    BY TokenAssumption
  <2> QED BY <2>1 DEF Init, Request
<1> QED BY <1>1, <1>2 DEF Init, IInv, TypeOK, ActiveKept

(* What UpdateActivity does to a session that is, or is not, there. *)
LEMMA UpdateFrame ==
    ASSUME TypeOK, NEW t \in Tokens, UpdateActivity(t)
    PROVE  /\ live' = live
           /\ age' \in [Tokens -> 0 .. Cap]
           /\ \A u \in Tokens \ live : age'[u] = age[u]
BY TimeAssumption DEF TypeOK, UpdateActivity, Cap

(* A step of a request keeps the invariant. *)
LEMMA RequestStep ==
    ASSUME IInv, NEW c \in Clients,
           \/ \E t \in Tokens :
                 Login(c, t) \/ Query(c, t) \/ Refresh(c, t) \/ Heartbeat(c, t) \/ Logout(c, t)
           \/ Lookup(c) \/ Execute(c) \/ RefreshTouch(c)
    PROVE  IInv'
<1> USE DEF IInv, TypeOK, ActiveKept, Request, Goto
<1>1. ASSUME NEW t \in Tokens, Login(c, t) PROVE IInv'
  BY <1>1, TimeAssumption DEF Login, Cap
<1>2. ASSUME NEW t \in Tokens, Query(c, t) PROVE IInv'
  BY <1>2, UpdateFrame DEF Query
<1>3. ASSUME NEW t \in Tokens, Refresh(c, t) PROVE IInv'
  BY <1>3 DEF Refresh
<1>4. ASSUME NEW t \in Tokens, Heartbeat(c, t) PROVE IInv'
  BY <1>4, UpdateFrame DEF Heartbeat
<1>5. ASSUME NEW t \in Tokens, Logout(c, t) PROVE IInv'
  BY <1>5 DEF Logout
<1>6. CASE Lookup(c) \/ Execute(c)
  BY <1>6 DEF Lookup, Execute
<1>7. CASE RefreshTouch(c)
  <2>1. req[c].tok \in Tokens
    OBVIOUS
  <2> QED BY <1>7, <2>1, UpdateFrame DEF RefreshTouch
<1> QED BY <1>1, <1>2, <1>3, <1>4, <1>5, <1>6, <1>7

(* So does time, the expiry goroutine and a reset. *)
LEMMA BackgroundStep ==
    ASSUME IInv, Reset \/ Advance \/ Expire
    PROVE  IInv'
<1> USE TimeAssumption DEF IInv, TypeOK, ActiveKept
<1>1. CASE Reset
  BY <1>1 DEF Reset
<1>2. CASE Advance
  <2>1. age' \in [Tokens -> 0 .. Cap] /\ tick' \in NoTick .. MaxLag
    BY <1>2 DEF Advance, Cap, NoTick
  <2>2. \A t \in Tokens : age[t] > Timeout => age'[t] > Timeout
    BY <1>2 DEF Advance, Cap
  <2> QED BY <1>2, <2>1, <2>2 DEF Advance
<1>3. CASE Expire
  \* The tick's time lies in the past, so a session that had expired then has.
  <2>1. tick \in 0 .. MaxLag
    BY <1>3 DEF Expire, NoTick
  <2>2. \A t \in Tokens : Expired(t) => age[t] > Timeout
    BY <2>1 DEF Expired, Cap
  <2> QED BY <1>3, <2>2 DEF Expire, NoTick
<1> QED BY <1>1, <1>2, <1>3

(* The invariant is inductive. *)
LEMMA Inductive == Spec => []IInv
<1>1. IInv /\ [Next]_vars => IInv'
  <2>1. CASE UNCHANGED vars
    BY <2>1 DEF vars, IInv, TypeOK, ActiveKept
  <2> QED BY <2>1, RequestStep, BackgroundStep DEF Next
<1> QED BY InitIInv, <1>1, PTL DEF Spec

(* The variables keep their types; a live session was issued. *)
THEOREM TypeCorrect == Spec => []TypeOK
<1>1. IInv => TypeOK
  BY DEF IInv
<1> QED BY Inductive, <1>1, PTL

(* expireLoop removes no session that was used within the timeout. *)
THEOREM UsedSessionsKept == Spec => []ActiveKept
<1>1. IInv => ActiveKept
  BY DEF IInv
<1> QED BY Inductive, <1>1, PTL

(* No request brings back a session that logout, expiry or a reset ended. *)
THEOREM NoRevival == Spec => GoneStaysGone
<1>1. ASSUME IInv, [Next]_vars
      PROVE  [\A t \in issued : t \notin live => t \notin live']_vars
  <2> SUFFICES ASSUME Next, NEW t \in issued, t \notin live PROVE t \notin live'
    BY <1>1 DEF vars
  <2> USE <1>1 DEF IInv, TypeOK, Request
  <2>1. ASSUME NEW c \in Clients, NEW u \in Tokens,
               Login(c, u) \/ Query(c, u) \/ Refresh(c, u) \/ Heartbeat(c, u) \/ Logout(c, u)
        PROVE  t \notin live'
    BY <2>1 DEF Login, Query, Refresh, Heartbeat, Logout, UpdateActivity
  <2>2. ASSUME NEW c \in Clients, Lookup(c) \/ Execute(c) \/ RefreshTouch(c)
        PROVE  t \notin live'
    BY <2>2 DEF Lookup, Execute, RefreshTouch, UpdateActivity
  <2>3. CASE Reset \/ Advance \/ Expire
    BY <2>3 DEF Reset, Advance, Expire
  <2> QED BY <2>1, <2>2, <2>3 DEF Next
<1> QED BY Inductive, <1>1, PTL DEF Spec, GoneStaysGone
============================================================================
