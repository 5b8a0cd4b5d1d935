----------------------------- MODULE Sessions -----------------------------
(***************************************************************************)
(* internal/session/session.go and the handlers that use it: login, query, *)
(* token refresh, heartbeat and logout requests against the goroutine that *)
(* removes sessions nobody used for the timeout.  Manager.mu makes each    *)
(* call atomic; a handler makes several calls.                             *)
(*                                                                         *)
(* Time is measured from LastActiveAt: a session's age grows up to a cap   *)
(* at which it has expired for every reader of the clock.  The ticker's    *)
(* channel holds one tick, whose time may lie MaxLag in the past when      *)
(* expireLoop gets to use it; a tick that finds the channel full is lost.  *)
(***************************************************************************)
EXTENDS Integers

CONSTANTS
    Clients,   \* requests that can be open at the same time
    Tokens,    \* tokens CreateSession may hand out; their number is a bound
    Timeout,   \* sessionTimeout
    MaxLag     \* bound on the delay of a tick

ASSUME TimeAssumption  == Timeout \in Nat /\ MaxLag \in Nat
ASSUME TokenAssumption == Tokens # {}

Cap    == Timeout + MaxLag + 1
NoTick == -1

Request == [pc : {"idle", "decode", "exec", "touch"}, tok : Tokens]

VARIABLES
    live,     \* the keys of m.sessions
    age,      \* time since LastActiveAt
    tick,     \* how long the tick in the channel has been waiting
    req,      \* the request each client has open
    \* history variables
    issued,   \* tokens handed out
    ended     \* tokens logged out or wiped by a reset

vars == <<live, age, tick, req, issued, ended>>

Init ==
    /\ live = {} /\ issued = {} /\ ended = {}
    /\ age = [t \in Tokens |-> 0]
    /\ tick = NoTick
    /\ req = [c \in Clients |-> [pc |-> "idle", tok |-> CHOOSE t \in Tokens : TRUE]]

Idle(c)       == req[c].pc = "idle"
Goto(c, l, t) == req' = [req EXCEPT ![c] = [pc |-> l, tok |-> t]]

(* Faulty variant: the entry is written back whether or not it is there. *)
UpdateActivityAlways(t) ==
    /\ live' = live \cup {t}
    /\ age' = [age EXCEPT ![t] = 0]

UpdateActivity(t) ==
    /\ age' = [age EXCEPT ![t] = IF t \in live THEN 0 ELSE @]
    /\ UNCHANGED live

----------------------------------------------------------------------------
(* handleLogin, CreateSession: a token is a fresh UUID. *)
Login(c, t) ==
    /\ Idle(c) /\ t \notin issued
    /\ issued' = issued \cup {t}
    /\ live' = live \cup {t}
    /\ age' = [age EXCEPT ![t] = 0]
    /\ UNCHANGED <<tick, req, ended>>

(* handleQueryRequest notes the activity, reads the body, and only then    *)
(* looks the session up.                                                   *)
Query(c, t) ==
    /\ Idle(c) /\ t \in issued
    /\ UpdateActivity(t)
    /\ Goto(c, "decode", t)
    /\ UNCHANGED <<tick, issued, ended>>

(* GetSession: the query runs with the session it found, or answers 401. *)
Lookup(c) ==
    /\ req[c].pc = "decode"
    /\ Goto(c, IF req[c].tok \in live THEN "exec" ELSE "idle", req[c].tok)
    /\ UNCHANGED <<live, age, tick, issued, ended>>

Execute(c) ==
    /\ req[c].pc = "exec"
    /\ Goto(c, "idle", req[c].tok)
    /\ UNCHANGED <<live, age, tick, issued, ended>>

(* handleTokenRefresh looks the session up first ... *)
Refresh(c, t) ==
    /\ Idle(c) /\ t \in live
    /\ Goto(c, "touch", t)
    /\ UNCHANGED <<live, age, tick, issued, ended>>

(* ... and notes the activity then, which does nothing if it is gone. *)
RefreshTouch(c) ==
    /\ req[c].pc = "touch"
    /\ UpdateActivity(req[c].tok)
    /\ Goto(c, "idle", req[c].tok)
    /\ UNCHANGED <<tick, issued, ended>>

Heartbeat(c, t) ==
    /\ Idle(c) /\ t \in issued
    /\ UpdateActivity(t)
    /\ UNCHANGED <<tick, req, issued, ended>>

(* handleSession, DeleteSession *)
Logout(c, t) ==
    /\ Idle(c) /\ t \in issued
    /\ live' = live \ {t}
    /\ ended' = ended \cup {t}
    /\ UNCHANGED <<age, tick, req, issued>>

(* Manager.Reset, under the exclusive state lock. *)
Reset ==
    /\ \A c \in Clients : Idle(c)
    /\ live' = {}
    /\ ended' = ended \cup issued
    /\ UNCHANGED <<age, tick, req, issued>>

----------------------------------------------------------------------------
(* A minute passes, and the ticker fires. *)
Advance ==
    /\ tick < MaxLag
    /\ age' = [t \in Tokens |-> IF age[t] < Cap THEN age[t] + 1 ELSE Cap]
    /\ tick' = IF tick = NoTick THEN 0 ELSE tick + 1
    /\ UNCHANGED <<live, req, issued, ended>>

(* Faulty variant: a session dies at the timeout, not after it. *)
ExpiredAtTimeout(t) == age[t] - tick >= Timeout

(* now.Sub(s.LastActiveAt) > sessionTimeout, with the tick's own time *)
Expired(t) == age[t] - tick > Timeout

(* Faulty variant: the loop forgets to delete. *)
ExpireNothing ==
    /\ tick # NoTick
    /\ tick' = NoTick
    /\ UNCHANGED <<live, age, req, issued, ended>>

(* expireLoop *)
Expire ==
    /\ tick # NoTick
    /\ tick' = NoTick
    /\ live' = {t \in live : ~Expired(t)}
    /\ UNCHANGED <<age, req, issued, ended>>

Next ==
    \/ \E c \in Clients :
          \/ \E t \in Tokens :
                Login(c, t) \/ Query(c, t) \/ Refresh(c, t) \/ Heartbeat(c, t) \/ Logout(c, t)
          \/ Lookup(c) \/ Execute(c) \/ RefreshTouch(c)
    \/ Reset \/ Advance \/ Expire

Spec == Init /\ [][Next]_vars

(* Time passes and expireLoop is scheduled. *)
FairSpec == Spec /\ WF_vars(Advance) /\ WF_vars(Expire)

----------------------------------------------------------------------------
(* Types: a live session was issued, a tick is at most MaxLag late. *)
TypeOK ==
    /\ live \subseteq issued /\ issued \subseteq Tokens /\ ended \subseteq issued
    /\ age \in [Tokens -> 0 .. Cap]
    /\ tick \in NoTick .. MaxLag
    /\ req \in [Clients -> Request]

(* A session is lost only by logging out, by a reset, or by staying idle   *)
(* for longer than the timeout, however late expireLoop sees its ticks and *)
(* whichever requests it overlaps with.  A query is answered 401 only then.*)
ActiveKept == \A t \in issued \ live : t \in ended \/ age[t] > Timeout

(* A session that is gone stays gone: a query, a refresh or a heartbeat    *)
(* that overlaps with logout, reset or expiry never brings it back.        *)
GoneStaysGone == [][\A t \in issued : t \notin live => t \notin live']_vars

(* Sessions nobody uses are removed, although ticks come late and get lost.*)
IdleExpires == \A t \in Tokens :
    t \in live /\ age[t] > Timeout ~> t \notin live \/ age[t] = 0
============================================================================
