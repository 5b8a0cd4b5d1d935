-------------------------- MODULE MCServerReset --------------------------
(* Small instances of ServerReset for TLC. *)
EXTENDS ServerReset, TLC

Symmetry == Permutations(Clients)
============================================================================
