---------------------------- MODULE MCStreams ----------------------------
(* Small instances of Streams for TLC. *)
EXTENDS Streams, TLC

CONSTANTS s1, s2

OneSchema  == [s \in Sessions |-> "PUBLIC"]
TwoSchemas == (s1 :> "PUBLIC") @@ (s2 :> "OTHER")

Symmetry == Permutations(Objs) \cup Permutations(Sessions)
============================================================================
