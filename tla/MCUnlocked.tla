----------------------------- MODULE MCUnlocked -----------------------------
(***************************************************************************)
(* Small instances of the calls past the mutex for TLC.                    *)
(***************************************************************************)
EXTENDS Unlocked
=============================================================================
