------------------------------ MODULE MCServer ------------------------------
(***************************************************************************)
(* Small instances of the process for TLC.                                 *)
(***************************************************************************)
EXTENDS Server
=============================================================================
