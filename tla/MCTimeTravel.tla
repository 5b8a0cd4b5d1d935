--------------------------- MODULE MCTimeTravel ---------------------------
(* Small instances of TimeTravel for TLC. *)
EXTENDS TimeTravel, TLC

Symmetry == Permutations(Sessions)
============================================================================
