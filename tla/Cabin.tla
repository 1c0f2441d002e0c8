-------------------------------- MODULE Cabin --------------------------------
(***************************************************************************)
(* One battery cabin and the operations of cabin.Manager on it             *)
(* (internal/cabin), as functions from a cabin to a cabin: the manager     *)
(* runs each of them under its own mutex.  The sensor readings are in      *)
(* module Readings.                                                        *)
(***************************************************************************)
EXTENDS Naturals

\* ActiveWorkOrderID = "".  Order identifiers start at 1.
Nobody == 0

Statuses == {"normal", "frozen", "under_inspection", "under_maintenance"}

Cabins == [status: Statuses, qualified: BOOLEAN, blackStart: BOOLEAN,
           offGrid: BOOLEAN, active: Nat]

\* What Register stores for a new cabin.
NewCabin == [status |-> "normal", qualified |-> TRUE, blackStart |-> TRUE,
             offGrid |-> TRUE, active |-> Nobody]

\* Fault: the status is consulted in place of the holder.
CanAcquireUnlessInspected(c) == c.status # "under_inspection"

\* Acquire refuses a cabin some order holds, that order itself included.
CanAcquire(c) == c.active = Nobody

Acquire(c, w, isInspection) ==
  [c EXCEPT !.active = w,
            !.status = IF isInspection THEN "under_inspection"
                                       ELSE "under_maintenance"]

\* Faults: Release forgets the grid connection, or gives it back.
ReleaseToNormal(c) == [c EXCEPT !.active = Nobody, !.status = "normal"]

ReleaseReconnecting(c) ==
  [c EXCEPT !.active = Nobody, !.status = "normal", !.qualified = TRUE]

\* Release does not ask who holds the cabin.
Release(c) ==
  [c EXCEPT !.active = Nobody,
            !.status = IF c.qualified THEN "normal" ELSE "frozen"]

\* Fault: a cabin somebody holds is not frozen.
FreezeUnheld(c) ==
  IF c.status = "normal" THEN [c EXCEPT !.qualified = FALSE, !.status = "frozen"] ELSE c

Freeze(c) ==
  [c EXCEPT !.qualified = FALSE,
            !.status = IF @ = "normal" THEN "frozen" ELSE @]

Thaw(c) ==
  [c EXCEPT !.qualified = TRUE,
            !.status = IF @ = "frozen" THEN "normal" ELSE @]

\* RecheckBlackStart and RecheckOffGrid, always called as a pair.
Recheck(c, blackStartOK, offGridOK) ==
  [c EXCEPT !.blackStart = blackStartOK, !.offGrid = offGridOK]
=============================================================================
