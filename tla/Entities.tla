------------------------------ MODULE Entities ------------------------------
(***************************************************************************)
(* The three kinds of entity the orchestrator coordinates, under the names *)
(* the modules of the orchestrator and of the inventory know them by.      *)
(***************************************************************************)
EXTENDS WorkOrder, Integers, Sequences

Cab == INSTANCE Cabin
Inv == INSTANCE Parts
=============================================================================
