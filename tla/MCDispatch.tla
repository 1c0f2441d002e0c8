----------------------------- MODULE MCDispatch -----------------------------
(***************************************************************************)
(* Small instances of the orchestrator for TLC.                            *)
(***************************************************************************)
EXTENDS Dispatch, TLC

\* Cabins are interchangeable: nothing in the code compares their names.
CabinSymmetry == Permutations(CabinIds)
=============================================================================
