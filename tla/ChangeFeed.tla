---------------------------- MODULE ChangeFeed ----------------------------
(***************************************************************************)
(* What a table stream promises, one feed per stream object: a change is   *)
(* published at most once, feeds only grow, and a reader is handed the     *)
(* feed from where it stopped, each change once and in feed order.         *)
(***************************************************************************)
EXTENDS Sequences

CONSTANTS Feeds, Changes

VARIABLES
    feed,   \* the changes published so far
    read    \* the changes handed to readers so far

Published(f) == {feed[f][i] : i \in DOMAIN feed[f]}

Init ==
    /\ feed = [f \in Feeds |-> << >>]
    /\ read = [f \in Feeds |-> << >>]

Publish(f, c) ==
    /\ c \notin Published(f)
    /\ feed' = [feed EXCEPT ![f] = Append(@, c)]
    /\ UNCHANGED read

Deliver(f) ==
    /\ read' = [read EXCEPT ![f] = feed[f]]
    /\ UNCHANGED feed

Next == \E f \in Feeds : Deliver(f) \/ \E c \in Changes : Publish(f, c)

Spec == Init /\ [][Next]_<<feed, read>>
============================================================================
