------------------------------- MODULE Readings -------------------------------
(***************************************************************************)
(* The sensor readings of a cabin (internal/cabin).  DetectAnomaly stores  *)
(* those sent along, reads the cabin back and freezes it, in three calls   *)
(* of the cabin manager; PUT conditions (internal/api) stores others       *)
(* without o.mu, so between any two of them.                               *)
(*                                                                         *)
(* A reading is the set of what is wrong: over the temperature limit, an   *)
(* insulation alarm, the cooling fan stopped.                              *)
(***************************************************************************)
EXTENDS Integers, Sequences

CONSTANT Conditions     \* the readings that are reported

Alarms == {"over_temperature", "insulation_alarm", "fan_stopped"}

ASSUME ConditionsAssumption == Conditions \subseteq SUBSET Alarms

VARIABLES
  readings,     \* of the cabin
  qualified,    \* its grid connection
  detection,    \* what the call of DetectAnomaly that has o.mu will do next
  since,        \* history: the readings the cabin has had since it stored its own
  answer        \* how the last call of DetectAnomaly ended

dvars == <<readings, qualified, detection, since, answer>>

HasAnomaly(c) == c # {}

DInit ==
  /\ readings \in Conditions
  /\ qualified = TRUE
  /\ detection = "none"
  /\ since = {}
  /\ answer = "none"

\* Fault: the cabin was read back before the readings were stored.
StoreReadingsLate(c) ==
  /\ detection = "none"
  /\ detection' = IF HasAnomaly(readings) THEN "freeze" ELSE "none"
  /\ answer' = IF HasAnomaly(readings) THEN "none" ELSE "refused"
  /\ readings' = c
  /\ since' = {c}
  /\ UNCHANGED qualified

\* SetConditions, as DetectAnomaly calls it.
StoreReadings(c) ==
  /\ detection = "none"
  /\ detection' = "examine"
  /\ readings' = c
  /\ since' = {c}
  /\ answer' = "none"
  /\ UNCHANGED qualified

\* Get and HasAnomaly.
Examine ==
  /\ detection = "examine"
  /\ \/ HasAnomaly(readings) /\ detection' = "freeze" /\ UNCHANGED answer
     \/ ~HasAnomaly(readings) /\ detection' = "none" /\ answer' = "refused"
  /\ UNCHANGED <<readings, qualified, since>>

\* Freeze, the deadline, persist.
FreezeCabin ==
  /\ detection = "freeze"
  /\ detection' = "none"
  /\ qualified' = FALSE
  /\ answer' = "accepted"
  /\ UNCHANGED <<readings, since>>

\* The handler of PUT conditions.
PutConditions(c) ==
  /\ readings' = c
  /\ since' = IF detection = "examine" THEN since \cup {c} ELSE since
  /\ UNCHANGED <<qualified, detection, answer>>

\* ApproveRestoration, which looks at no readings.
Reconnect ==
  /\ detection = "none"
  /\ ~qualified
  /\ qualified' = TRUE
  /\ answer' = "none"
  /\ UNCHANGED <<readings, detection, since>>

DNext ==
  \/ \E c \in Conditions : StoreReadings(c) \/ PutConditions(c)
  \/ Examine
  \/ FreezeCabin
  \/ Reconnect

-----------------------------------------------------------------------------
(***************************************************************************)
(* DetectAnomaly answers by readings the cabin had during the call: it     *)
(* freezes only a cabin that showed an anomaly, and it refuses only if     *)
(* there was a moment without one, be it that other readings came between. *)
(***************************************************************************)
AnswerFitsReadings ==
  /\ answer = "accepted" => ~qualified /\ \E c \in since : HasAnomaly(c)
  /\ answer = "refused" => \E c \in since : ~HasAnomaly(c)
=============================================================================
