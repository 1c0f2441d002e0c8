----------------------------- MODULE MCInventory -----------------------------
(***************************************************************************)
(* Small instances of the inventory for TLC.                               *)
(***************************************************************************)
EXTENDS Inventory, TLC

\* Part numbers are only compared for equality.
SKUSymmetry == Permutations(SKUs)
=============================================================================
