----------------------------- MODULE MCCopyInto -----------------------------
(* A small instance of CopyInto for TLC. *)
EXTENDS CopyInto, TLC
Sym == Permutations(Clients)
=============================================================================
