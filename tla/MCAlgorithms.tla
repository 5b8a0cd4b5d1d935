---------------------------- MODULE MCAlgorithms ----------------------------
(***************************************************************************)
(* Cron, DependencyOrder, RoleSearch (with Roles) and Bindings over small  *)
(* inputs for TLC.  Each runs under a lock that keeps its input as it is,  *)
(* and they share no state: a behaviour follows one of them.               *)
(***************************************************************************)
EXTENDS Cron, DependencyOrder, RoleSearch, Bindings, TLC

VARIABLE part

\* a month of two days and one of one day, or of two in every second year
const_Days == <<<<1, 1>>, <<1, 2>>, <<2, 1>>, <<1, 1>>, <<1, 2>>, <<2, 1>>, <<2, 2>>>>

Val(n)       == <<[kind |-> "value", a |-> n, b |-> 0, step |-> 1]>>
Every(n)     == <<[kind |-> "*", a |-> 0, b |-> 0, step |-> n]>>
Between(m, n) == <<[kind |-> "range", a |-> m, b |-> n, step |-> 1]>>

const_FieldBounds == {<<1, 3>>}

const_FieldChoices ==
    [minute : {Val(1), Every(2)}, hour : {Star, Val(1)},
     dayOfMonth : {Star, Val(2), Every(1)}, month : {Star, Val(2)},
     dayOfWeek : {Star, Val(0), Between(1, 2)}]

const_Hierarchy == {<<"SYSADMIN", "ACCOUNTADMIN">>}

Text(x)  == [type |-> "TEXT", value |-> x]
Fixed(x) == [type |-> "FIXED", value |-> x]
Real(x)  == [type |-> "REAL", value |-> x]
Array(x) == [type |-> "ARRAY", value |-> x]
Null     == [type |-> "NULL", value |-> <<>>]

const_Alphabet == {"'", "\"", "$$", "?", ":", "-", "1", "x", "newline"}

const_ScalarChoices ==
    {<<Fixed(<<"-", "1">>), Text(<<"'", "?">>)>>,
     <<Text(<<"'", "'">>), Fixed(<<"+", "1">>)>>,
     <<Real(<<"-", "1">>), Real(<<"NaN">>)>>,
     <<[type |-> "DATE", value |-> <<"'", "-", "-">>], Null>>,
     <<[type |-> "BINARY", value |-> <<"1", "1">>], [type |-> "BINARY", value |-> <<"x">>]>>,
     <<Array(<<Null>>), Text(<<":", "1">>)>>,
     <<[type |-> "BOOLEAN", value |-> <<"1">>]>>}

const_BulkChoices ==
    {<<Array(<<Text(<<")", "'", ",">>), Text(<<"VALUES">>)>>), Fixed(<<"-", "1">>)>>,
     <<Array(<<Text(<<"x">>), Fixed(<<"x">>)>>)>>,
     <<Array(<<Null, Null>>), Array(<<Null>>)>>,
     <<Array(<<>>)>>}

accessVars == <<roleVars, searchVars>>

Init ==
    /\ part \in {"cron", "order", "roles", "bindings"}
    /\ CronInit /\ OrderInit /\ RolesInit /\ SearchInit /\ BindInit

Next ==
    /\ \/ part = "cron" /\ CronStep /\ UNCHANGED <<orderVars, accessVars, bindAsk>>
       \/ part = "order" /\ OrderNext /\ UNCHANGED <<cronVars, accessVars, bindAsk>>
       \/ part = "roles" /\ AccessNext /\ UNCHANGED <<cronVars, orderVars, bindAsk>>
       \/ part = "bindings" /\ BindNext /\ UNCHANGED <<cronVars, orderVars, accessVars>>
    /\ UNCHANGED part

(* A call that has begun keeps running: nothing in it waits. *)
Spec ==
    /\ Init /\ [][Next]_<<cronVars, orderVars, accessVars, bindAsk, part>>
    /\ WF_cronVars(CronWork) /\ WF_orderVars(OrderWork) /\ WF_searchVars(SearchWork)

(* Every call returns: a step of zero does not keep a field from being      *)
(* parsed (cron.go:112), tasks on a cycle do not keep the order from being  *)
(* made (task.go:503), and roles granted in a cycle are not searched again  *)
(* and again (rbac.go:286).                                                 *)
CallsReturn == []<>(cronAt = "idle" /\ orderAt = "idle" /\ searchAt = "idle")
=============================================================================
