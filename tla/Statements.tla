----------------------------- MODULE Statements -----------------------------
(***************************************************************************)
(* Catalog, Pipes and Transactions side by side.  The three keep their     *)
(* state behind locks of their own and share none of it, so a step of one  *)
(* says nothing about the others: a behaviour follows one of them.         *)
(***************************************************************************)
EXTENDS Catalog, Pipes, Transactions

VARIABLE part

vars == <<catalogVars, pipeVars, txVars, part>>

Init ==
    /\ part \in {"catalog", "pipes", "transactions"}
    /\ CatalogInit /\ PipesInit /\ TxInit

Next ==
    /\ \/ part = "catalog" /\ CatalogNext /\ UNCHANGED <<pipeVars, txVars>>
       \/ part = "pipes" /\ PipesNext /\ UNCHANGED <<catalogVars, txVars>>
       \/ part = "transactions" /\ TxNext /\ UNCHANGED <<catalogVars, pipeVars>>
    /\ UNCHANGED part

Spec ==
    /\ Init /\ [][Next]_vars
    /\ \A c \in Callers : WF_pipeVars(InsertWork(c))

(* The types of the parts: no table or schema without its parent on either  *)
(* side, final results, connections and rows within their bounds.           *)
TypeOK == CatalogTypeOK /\ PipesTypeOK /\ TxTypeOK
=============================================================================
