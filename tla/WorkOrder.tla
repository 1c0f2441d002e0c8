------------------------------ MODULE WorkOrder ------------------------------
(***************************************************************************)
(* The work-order value and its state machine (internal/workorder).       *)
(*                                                                         *)
(* An order is kept as the fields the coordination code branches on.  The  *)
(* two deadlines an order can carry, AnomalyInfo.ReportDeadline of an      *)
(* inspection and TimeoutAt of a maintenance order, never occur together,  *)
(* so one field says how the clock stands to it.                           *)
(***************************************************************************)
EXTENDS Naturals

Types == {"inspection", "maintenance"}

\* PriorityLow = 1 up to PriorityUrgent = 4.
Priorities == 1..4

States == {"created", "queued", "in_progress", "anomaly_reported",
           "authorized", "executing", "parts_requested", "parts_suspended",
           "parts_confirmed", "repair_completed", "pending_restoration",
           "pending_recheck", "restoration_approved", "escalated",
           "closed", "cancelled"}

\* AnomalyInfo: absent, present without ReportedAt, present with it.
Anomalies == {"none", "detected", "reported"}

\* A zero time, a time still ahead of the clock, a time behind it.
Deadlines == {"none", "running", "passed"}

Terminal == {"closed", "cancelled"}

IsTerminal(s) == s \in Terminal

(***************************************************************************)
(* The edges of allowedTransitions: the states that may follow a state.    *)
(***************************************************************************)
Targets(from) ==
  CASE from = "created"     -> {"queued", "in_progress", "authorized", "cancelled"}
    [] from = "queued"      -> {"in_progress", "executing", "cancelled"}
    [] from = "in_progress" -> {"anomaly_reported", "closed", "cancelled"}
    [] from = "anomaly_reported" -> {"closed", "cancelled"}
    [] from = "authorized"  -> {"executing", "escalated", "queued", "cancelled"}
    [] from = "executing"   -> {"parts_requested", "escalated", "queued", "cancelled"}
    [] from = "escalated"   -> {"executing", "queued", "authorized", "cancelled"}
    [] from = "parts_requested" ->
         {"parts_confirmed", "parts_suspended", "queued", "cancelled"}
    [] from = "parts_suspended" ->
         {"parts_confirmed", "parts_requested", "queued", "cancelled"}
    [] from = "parts_confirmed"  -> {"repair_completed", "cancelled"}
    [] from = "repair_completed" -> {"pending_restoration", "cancelled"}
    [] from = "pending_restoration" ->
         {"restoration_approved", "pending_recheck", "cancelled"}
    [] from = "pending_recheck" -> {"pending_restoration", "cancelled"}
    [] from = "restoration_approved" -> {"closed", "cancelled"}
    [] OTHER -> {}

CanTransition(from, to) == to \in Targets(from)

\* Fault: the edge is not looked up.
TransitionUnchecked(o, to) == [o EXCEPT !.state = to]

(***************************************************************************)
(* Manager.Transition on one order.  An illegal edge is refused with an    *)
(* error that most callers drop, so the order is then simply left as it    *)
(* was; moving to the state it is in is a no-op.                           *)
(***************************************************************************)
Transition(o, to) ==
  IF CanTransition(o.state, to) THEN [o EXCEPT !.state = to] ELSE o

(***************************************************************************)
(* States in which people are at work in the cabin.  An escalated order is *)
(* not among them: it may have been escalated before or after it entered.  *)
(***************************************************************************)
InspectionWork == {"in_progress", "anomaly_reported"}

MaintenanceWork == {"executing", "parts_requested", "parts_suspended",
                    "parts_confirmed", "repair_completed", "pending_restoration",
                    "pending_recheck", "restoration_approved"}

Working == InspectionWork \cup MaintenanceWork

\* States a repair can be in only after the warehouse handed out its parts.
AfterParts == {"parts_confirmed", "repair_completed", "pending_restoration",
               "pending_recheck", "restoration_approved"}
=============================================================================
