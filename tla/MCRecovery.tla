----------------------------- MODULE MCRecovery -----------------------------
(***************************************************************************)
(* Small instances of the orchestrator with its state file for TLC.        *)
(***************************************************************************)
EXTENDS Recovery, TLC

\* As in MCDispatch.
CabinSymmetry == Permutations(CabinIds)
=============================================================================
