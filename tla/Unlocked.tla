------------------------------- MODULE Unlocked -------------------------------
(***************************************************************************)
(* The two API calls that meet an operation halfway because they go past   *)
(* o.mu: listing the notifications while one is appended, and setting the  *)
(* readings of a cabin while an anomaly is detected in it.  They share     *)
(* nothing but the mutex they do not take.                                 *)
(***************************************************************************)
EXTENDS NotificationFeed, Readings

uvars == <<fvars, dvars>>

UInit == FInit /\ DInit

UNext ==
  \/ FNext /\ UNCHANGED dvars
  \/ DNext /\ UNCHANGED fvars

USpec == UInit /\ [][UNext]_uvars
=============================================================================
