---------------------------- MODULE MCStatements ----------------------------
(***************************************************************************)
(* A small instance of Statements for TLC: two DDL sessions, two callers   *)
(* of a pipe, and two writers on two connections.                          *)
(***************************************************************************)
EXTENDS Statements, TLC
=============================================================================
