------------------------- MODULE MCDynamicTables -------------------------
(* Small instances of DynamicTables for TLC. *)
EXTENDS DynamicTables, TLC
============================================================================
