------------------------------- MODULE Dispatch -------------------------------
(***************************************************************************)
(* The orchestrator (internal/dispatch) with the cabins, work orders and   *)
(* inventory it coordinates, as one process runs them between two starts.  *)
(* Module Recovery adds the state file and the restarts.                   *)
(*                                                                         *)
(* Every orchestrator operation holds o.mu from its first read to its      *)
(* return, so it is one action here.  Three calls take effect outside      *)
(* o.mu and are actions of their own: the registration of a cabin, the     *)
(* registration of a part, and the first half of creating an order, which  *)
(* stores the order before it asks for the mutex.                          *)
(***************************************************************************)
EXTENDS Entities, SequencesExt

CONSTANTS
  CabinIds,       \* the cabin identifiers clients use
  SKUs,           \* the part numbers clients use
  OrderTypes,     \* the types of order clients create
  Urgencies,      \* the priorities they give them
  Quantities,     \* the quantities they requisition and procure
  StockLevels,    \* the stocks they register parts with
  StrayCabins,    \* may an order name a cabin nobody registered?
  ClockRuns,      \* may a deadline pass?
  Observed,       \* the kinds of notification notifs records
  MaxOrders,      \* bound on the number of orders
  MaxReqs,        \* bound on the number of requisitions
  MaxStock        \* bound on the stock of a part

NotificationTypes == {"queue_advance", "anomaly_late_report", "anomaly_deadline",
                      "emergency_procurement", "parts_failure", "escalation"}

ASSUME ConstantsAssumption ==
  /\ OrderTypes \subseteq Types
  /\ Urgencies \subseteq Priorities
  /\ Quantities \subseteq Nat \ {0}
  /\ StockLevels \subseteq Nat
  /\ StrayCabins \in BOOLEAN /\ ClockRuns \in BOOLEAN
  /\ Observed \subseteq NotificationTypes
  /\ MaxOrders \in Nat /\ MaxReqs \in Nat /\ MaxStock \in Nat

VARIABLES
  orders,         \* workorder.Manager.orders: WO-n is entry n
  cabins,         \* cabin.Manager.cabins: a map from the registered cabins
  inv,            \* parts.Inventory
  queues,         \* o.queues: for each cabin the orders waiting for it
  notifs,         \* o.notifs: which order got which kind of notification
  creating        \* orders whose creator has yet to lock o.mu

vars == <<orders, cabins, inv, queues, notifs, creating>>

OrderIds == DOMAIN orders

Order == [type: Types, cabin: CabinIds, priority: Priorities, state: States,
          anomaly: Anomalies, deadline: Deadlines, req: Nat]

(***************************************************************************)
(* What Manager.Create stores.                                             *)
(***************************************************************************)
NewOrder(type, c, p) ==
  [type |-> type, cabin |-> c, priority |-> p, state |-> "created",
   anomaly |-> "none", deadline |-> "none", req |-> 0]

Init ==
  /\ orders = <<>>
  /\ cabins = <<>>
  /\ inv = Inv!EmptyInventory
  /\ queues = [c \in CabinIds |-> <<>>]
  /\ notifs = {}
  /\ creating = {}

-----------------------------------------------------------------------------
(***************************************************************************)
(* Helpers of the orchestrator.  They take the maps they work on, since an *)
(* operation may have changed them already when it calls them.             *)
(***************************************************************************)

\* Transition of the order w in the map os.
Move(os, w, to) == [os EXCEPT ![w] = Transition(@, to)]

\* The notifications a step adds, of those the model records.
Notified(type, ws) == {<<type, w>> : w \in IF type \in Observed THEN ws ELSE {}}

\* Cabins.Acquire(c, ...) would succeed.
Free(cs, c) == c \in DOMAIN cs /\ Cab!CanAcquire(cs[c])

Acquired(cs, c, w, type) ==
  [cs EXCEPT ![c] = Cab!Acquire(@, w, type = "inspection")]

Released(cs, c) ==
  IF c \in DOMAIN cs THEN [cs EXCEPT ![c] = Cab!Release(@)] ELSE cs

\* The queue order: priority descending, then creation time ascending.
Before(os, v, w) ==
  \/ os[v].priority > os[w].priority
  \/ os[v].priority = os[w].priority /\ v < w

(***************************************************************************)
(* enqueue: appending an order to a sorted queue and sorting it again puts *)
(* the order behind all those that go before it.                           *)
(***************************************************************************)
\* Fault: an order goes before older ones of its priority.
AheadIgnoringAge(os, q, w) ==
  Cardinality({i \in DOMAIN q : os[q[i]].priority > os[w].priority})

Ahead(os, q, w) == Cardinality({i \in DOMAIN q : Before(os, q[i], w)})

\* Faults: an order is put over another one, or at the end.
EnqueueOver(os, q, w) ==
  LET k == Ahead(os, q, w) IN SubSeq(q, 1, k) \o <<w>> \o SubSeq(q, k + 2, Len(q))

EnqueueLast(os, q, w) == Append(q, w)

Enqueue(os, q, w) == InsertAt(q, Ahead(os, q, w) + 1, w)

(***************************************************************************)
(* assignFromQueue: entries at the head that are no longer queued are      *)
(* dropped; the first that is gets the cabin if it is free, and stays at   *)
(* the head if not.  It is the last thing an operation does to the maps.   *)
(***************************************************************************)
Waiting(os, w) == ~IsTerminal(os[w].state) /\ os[w].state = "queued"

AssignFromQueue(os, cs, qs, ns, c) ==
  \/ /\ \A i \in DOMAIN qs[c] : ~Waiting(os, qs[c][i])
     /\ orders' = os
     /\ cabins' = cs
     /\ queues' = [qs EXCEPT ![c] = <<>>]
     /\ notifs' = ns
  \/ \E i \in DOMAIN qs[c] :
       LET w    == qs[c][i]
           type == os[w].type
       IN  /\ Waiting(os, w)
           /\ \A j \in 1..(i - 1) : ~Waiting(os, qs[c][j])
           /\ \/ /\ ~Free(cs, c)
                 /\ queues' = [qs EXCEPT ![c] = SubSeq(@, i, Len(@))]
                 /\ orders' = os
                 /\ cabins' = cs
                 /\ notifs' = ns
              \/ /\ Free(cs, c)
                 /\ queues' = [qs EXCEPT ![c] = SubSeq(@, i + 1, Len(@))]
                 /\ cabins' = Acquired(cs, c, w, type)
                 /\ orders' = Move(os, w, IF type = "inspection" THEN "in_progress"
                                                                 ELSE "executing")
                 /\ notifs' = ns \cup Notified("queue_advance", {w})

-----------------------------------------------------------------------------
(***************************************************************************)
(* Calls that take effect outside o.mu.                                    *)
(***************************************************************************)
RegisterCabin(c) ==
  /\ c \notin DOMAIN cabins
  /\ cabins' = [d \in DOMAIN cabins \cup {c} |->
                  IF d = c THEN Cab!NewCabin ELSE cabins[d]]
  /\ UNCHANGED <<orders, inv, queues, notifs, creating>>

RegisterPart(s, n) ==
  /\ inv' = Inv!RegisterPart(inv, s, n)
  /\ UNCHANGED <<orders, cabins, queues, notifs, creating>>

\* Fault: identifiers are counted off the open orders.
CreateOverClosed(type, c, p) ==
  LET n == Cardinality({w \in OrderIds : ~IsTerminal(orders[w].state)}) + 1 IN
  /\ Len(orders) < MaxOrders
  /\ StrayCabins \/ c \in DOMAIN cabins
  /\ orders' = [w \in OrderIds \cup {n} |->
                  IF w = n THEN NewOrder(type, c, p) ELSE orders[w]]
  /\ creating' = creating \cup {n}
  /\ UNCHANGED <<cabins, inv, queues, notifs>>

\* orders.Create: from here on the order can be named in any other call.
Create(type, c, p) ==
  /\ Len(orders) < MaxOrders
  /\ StrayCabins \/ c \in DOMAIN cabins
  /\ orders' = Append(orders, NewOrder(type, c, p))
  /\ creating' = creating \cup {Len(orders) + 1}
  /\ UNCHANGED <<cabins, inv, queues, notifs>>

(***************************************************************************)
(* The rest of CreateInspectionOrder and of CreateMaintenanceOrder, once   *)
(* the creator holds o.mu.  The order may have been cancelled by then: the *)
(* cabin is acquired or the order enqueued all the same.                   *)
(***************************************************************************)
\* Fault: the creator waits for the cabin instead of queueing the order.
PlaceWhenFree(w) ==
  LET c == orders[w].cabin IN
  /\ w \in creating
  /\ orders[w].type = "inspection"
  /\ Free(cabins, c)
  /\ creating' = creating \ {w}
  /\ cabins' = Acquired(cabins, c, w, "inspection")
  /\ orders' = Move(orders, w, "in_progress")
  /\ UNCHANGED <<queues, inv, notifs>>

PlaceInspection(w) ==
  LET c == orders[w].cabin IN
  /\ w \in creating
  /\ orders[w].type = "inspection"
  /\ creating' = creating \ {w}
  /\ \/ /\ Free(cabins, c)
        /\ cabins' = Acquired(cabins, c, w, "inspection")
        /\ orders' = Move(orders, w, "in_progress")
        /\ UNCHANGED queues
     \/ /\ ~Free(cabins, c)
        /\ queues' = [queues EXCEPT ![c] = Enqueue(orders, @, w)]
        /\ orders' = Move(orders, w, "queued")
        /\ UNCHANGED cabins
  /\ UNCHANGED <<inv, notifs>>

PlaceMaintenance(w) ==
  /\ w \in creating
  /\ orders[w].type = "maintenance"
  /\ creating' = creating \ {w}
  /\ UNCHANGED <<orders, cabins, inv, queues, notifs>>

-----------------------------------------------------------------------------
(***************************************************************************)
(* Inspections.                                                            *)
(***************************************************************************)

\* The readings sent along show an anomaly.  Repeating it restarts the deadline.
DetectAnomaly(w) ==
  LET c == orders[w].cabin IN
  /\ orders[w].state = "in_progress"
  /\ c \in DOMAIN cabins
  /\ cabins' = [cabins EXCEPT ![c] = Cab!Freeze(@)]
  /\ orders' = [orders EXCEPT ![w] = [@ EXCEPT !.anomaly = "detected",
                                               !.deadline = "running"]]
  /\ UNCHANGED <<inv, queues, notifs, creating>>

\* A late report is accepted, and a notification says so.
ReportAnomaly(w) ==
  LET late == orders[w].deadline = "passed" IN
  /\ orders[w].state = "in_progress"
  /\ orders[w].anomaly # "none"
  /\ orders' = [orders EXCEPT ![w] =
                   Transition([@ EXCEPT !.anomaly = "reported"], "anomaly_reported")]
  /\ notifs' = notifs \cup Notified("anomaly_late_report", IF late THEN {w} ELSE {})
  /\ UNCHANGED <<cabins, inv, queues, creating>>

-----------------------------------------------------------------------------
(***************************************************************************)
(* Maintenance, from the authorization to the restoration.                 *)
(***************************************************************************)

(***************************************************************************)
(* What AuthorizeMaintenance writes before it tries the transition: a new  *)
(* timeout, and the chief's identifier.  That may be empty, nothing looks  *)
(* at it, here or later, and it is left out: what makes an order authorized *)
(* is its state.                                                           *)
(***************************************************************************)
Timed(o) == [o EXCEPT !.deadline = "running"]

AuthorizeMaintenance(w) ==
  /\ orders[w].type = "maintenance"
  /\ orders[w].state = "authorized" \/ CanTransition(orders[w].state, "authorized")
  /\ orders' = [orders EXCEPT ![w] = Transition(Timed(@), "authorized")]
  /\ UNCHANGED <<cabins, inv, queues, notifs, creating>>

\* The call fails, and what it wrote stays.
RejectAuthorization(w) ==
  /\ orders[w].type = "maintenance"
  /\ orders[w].state # "authorized"
  /\ ~CanTransition(orders[w].state, "authorized")
  /\ orders' = [orders EXCEPT ![w] = Timed(@)]
  /\ UNCHANGED <<cabins, inv, queues, notifs, creating>>

\* Fault: an order nobody authorized queues for the cabin.
EnterCabinUnauthorized(w) ==
  LET c == orders[w].cabin IN
  /\ orders[w].state \in {"created", "authorized", "escalated"}
  /\ orders[w].type = "maintenance"
  /\ \/ /\ Free(cabins, c)
        /\ cabins' = Acquired(cabins, c, w, "maintenance")
        /\ orders' = Move(orders, w, "executing")
        /\ UNCHANGED queues
     \/ /\ ~Free(cabins, c)
        /\ queues' = [queues EXCEPT ![c] = Enqueue(orders, @, w)]
        /\ orders' = Move(orders, w, "queued")
        /\ UNCHANGED cabins
  /\ UNCHANGED <<inv, notifs, creating>>

EnterCabin(w) ==
  LET c == orders[w].cabin IN
  /\ orders[w].state \in {"authorized", "escalated"}
  /\ orders[w].type = "maintenance"
  /\ \/ /\ Free(cabins, c)
        /\ cabins' = Acquired(cabins, c, w, "maintenance")
        /\ orders' = Move(orders, w, "executing")
        /\ UNCHANGED queues
     \/ /\ ~Free(cabins, c)
        /\ queues' = [queues EXCEPT ![c] = Enqueue(orders, @, w)]
        /\ orders' = Move(orders, w, "queued")
        /\ UNCHANGED cabins
  /\ UNCHANGED <<inv, notifs, creating>>

RequestParts(w, s, n) ==
  LET r       == Len(inv.requisitions) + 1
      inStock == Inv!CanReserve(inv, s, n)
      asked   == Transition([orders[w] EXCEPT !.req = r], "parts_requested")
  IN
  /\ r <= MaxReqs
  /\ orders[w].state = "executing"
  /\ Inv!CanSubmit(inv, s, n)
  /\ inv' = Inv!Submit(inv, w, s, n)
  /\ orders' = [orders EXCEPT ![w] = IF inStock THEN asked
                                     ELSE Transition(asked, "parts_suspended")]
  /\ notifs' = notifs \cup Notified("emergency_procurement",
                                    IF inStock THEN {} ELSE {w})
  /\ UNCHANGED <<cabins, queues, creating>>

\* Fault: the order goes on although the inventory refused.
ConfirmPartsRegardless(w) ==
  LET r == orders[w].req IN
  /\ orders[w].state \in {"parts_requested", "parts_suspended"}
  /\ r # 0
  /\ inv' = IF Inv!CanConfirm(inv, r) THEN Inv!Confirm(inv, r) ELSE inv
  /\ orders' = Move(orders, w, "parts_confirmed")
  /\ UNCHANGED <<cabins, queues, notifs, creating>>

ConfirmParts(w) ==
  /\ orders[w].state \in {"parts_requested", "parts_suspended"}
  /\ orders[w].req # 0
  /\ Inv!CanConfirm(inv, orders[w].req)
  /\ inv' = Inv!Confirm(inv, orders[w].req)
  /\ orders' = Move(orders, w, "parts_confirmed")
  /\ UNCHANGED <<cabins, queues, notifs, creating>>

\* The stock that arrives, which a registration may overwrite before the recheck.
Arrived(s, n) ==
  LET procured == Inv!Procure(inv, s, n)
  IN  {procured} \cup {Inv!RegisterPart(procured, s, m) : m \in StockLevels}

\* Allowed in any state of the order, finished ones included.
EmergencyProcurement(w, s, n) ==
  /\ s \in DOMAIN inv.parts
  /\ inv.parts[s].stock + n <= MaxStock
  /\ \E arrived \in Arrived(s, n) :
       inv' = IF orders[w].req = 0 THEN arrived ELSE Inv!Recheck(arrived, orders[w].req)
  /\ orders' = IF orders[w].state = "parts_suspended"
               THEN Move(orders, w, "parts_requested") ELSE orders
  /\ UNCHANGED <<cabins, queues, notifs, creating>>

\* A guarded transition that touches nothing but the order.
Step(w, from, to) ==
  /\ orders[w].state = from
  /\ CanTransition(from, to)
  /\ orders' = Move(orders, w, to)
  /\ UNCHANGED <<cabins, inv, queues, notifs, creating>>

CompleteRepair(w) == Step(w, "parts_confirmed", "repair_completed")

RequestRestoration(w) == Step(w, "repair_completed", "pending_restoration")

InterruptApproval(w) == Step(w, "pending_restoration", "pending_recheck")

RecheckComplete(w) == Step(w, "pending_recheck", "pending_restoration")

(***************************************************************************)
(* ApproveRestoration records both rechecks; the grid connection is given  *)
(* back only if both succeeded.                                            *)
(***************************************************************************)
ApproveRestoration(w, blackStartOK, offGridOK) ==
  LET c       == orders[w].cabin
      checked == [cabins EXCEPT ![c] = Cab!Recheck(@, blackStartOK, offGridOK)]
  IN
  /\ orders[w].state = "pending_restoration"
  /\ c \in DOMAIN cabins
  /\ \/ /\ ~blackStartOK \/ ~offGridOK
        /\ cabins' = checked
        /\ orders' = Move(orders, w, "pending_recheck")
     \/ /\ blackStartOK /\ offGridOK
        /\ cabins' = [checked EXCEPT ![c] = Cab!Thaw(@)]
        /\ orders' = Move(orders, w, "restoration_approved")
  /\ UNCHANGED <<inv, queues, notifs, creating>>

-----------------------------------------------------------------------------
(***************************************************************************)
(* Failure recovery, closing and cancelling.                               *)
(***************************************************************************)

\* Fault: the requisition is not rolled back.
FailPartsKeepingReservation(w) ==
  LET c    == orders[w].cabin
      back == Move(orders, w, "queued")
      told == notifs \cup Notified("parts_failure", {w})
  IN
  /\ orders[w].state \in {"parts_requested", "parts_suspended"}
  /\ AssignFromQueue(back, Released(cabins, c),
                     [queues EXCEPT ![c] = Enqueue(back, @, w)], told, c)
  /\ UNCHANGED <<inv, creating>>

\* Fault: the queue is advanced before the cabin is released.
FailPartsReleasingLast(w) ==
  LET c    == orders[w].cabin
      back == Move(orders, w, "queued")
  IN
  /\ orders[w].state \in {"parts_requested", "parts_suspended"}
  /\ inv' = IF orders[w].req = 0 THEN inv ELSE Inv!Rollback(inv, orders[w].req)
  /\ orders' = back
  /\ cabins' = Released(cabins, c)
  /\ queues' = [queues EXCEPT ![c] = Enqueue(back, @, w)]
  /\ notifs' = notifs \cup Notified("parts_failure", {w})
  /\ UNCHANGED creating

\* Release is unconditional here: it does not ask who holds the cabin.
FailPartsRequisition(w) ==
  LET c    == orders[w].cabin
      back == Move(orders, w, "queued")
      told == notifs \cup Notified("parts_failure", {w})
  IN
  /\ orders[w].state \in {"parts_requested", "parts_suspended"}
  /\ inv' = IF orders[w].req = 0 THEN inv ELSE Inv!Rollback(inv, orders[w].req)
  /\ AssignFromQueue(back, Released(cabins, c),
                     [queues EXCEPT ![c] = Enqueue(back, @, w)], told, c)
  /\ UNCHANGED creating

EscalateOrder(w) ==
  /\ orders[w].state \in {"authorized", "executing"}
  /\ orders' = Move(orders, w, "escalated")
  /\ notifs' = notifs \cup Notified("escalation", {w})
  /\ UNCHANGED <<cabins, inv, queues, creating>>

(***************************************************************************)
(* ResumeFromEscalation: whether the order had entered is read off the     *)
(* cabin, and an order whose cabin is unknown counts as having entered.    *)
(***************************************************************************)
ResumeFromEscalation(w) ==
  LET c       == orders[w].cabin
      outside == c \in DOMAIN cabins /\ cabins[c].active # w
  IN
  /\ orders[w].state = "escalated"
  /\ \/ /\ outside
        /\ orders' = [orders EXCEPT ![w] =
                         Transition([@ EXCEPT !.deadline = "running"], "authorized")]
     \/ /\ ~outside
        /\ orders' = Move(orders, w, "executing")
  /\ UNCHANGED <<cabins, inv, queues, notifs, creating>>

\* Fault: the cabin is released whoever holds it.
LeftByAnyone(cs, w) == Released(cs, orders[w].cabin)

\* The cabin as CloseOrder and CancelOrder leave it before the queue advances.
LeftBy(cs, w) ==
  LET c == orders[w].cabin
  IN  IF c \in DOMAIN cs /\ cs[c].active = w THEN Released(cs, c) ELSE cs

\* Fault: the queue is not advanced.
LeaveQuietly(w, to) ==
  /\ ~IsTerminal(orders[w].state)
  /\ CanTransition(orders[w].state, to)
  /\ orders' = Move(orders, w, to)
  /\ cabins' = LeftBy(cabins, w)
  /\ UNCHANGED <<inv, queues, notifs, creating>>

Leave(w, to) ==
  /\ ~IsTerminal(orders[w].state)
  /\ CanTransition(orders[w].state, to)
  /\ AssignFromQueue(Move(orders, w, to), LeftBy(cabins, w), queues, notifs,
                     orders[w].cabin)
  /\ UNCHANGED <<inv, creating>>

CloseOrder(w) == Leave(w, "closed")

CancelOrder(w) == Leave(w, "cancelled")

-----------------------------------------------------------------------------
(***************************************************************************)
(* The clock and the scheduler.  The clock is watched only while some code *)
(* might read the deadline: it passes at any moment after it was set.      *)
(***************************************************************************)
ReportDue(o) == o.state = "in_progress" /\ o.anomaly = "detected"

ResponseDue(o) == o.type = "maintenance" /\ o.state \in {"authorized", "queued"}

DeadlinePasses(w) ==
  /\ ClockRuns
  /\ orders[w].deadline = "running"
  /\ ReportDue(orders[w]) \/ ResponseDue(orders[w])
  /\ orders' = [orders EXCEPT ![w] = [@ EXCEPT !.deadline = "passed"]]
  /\ UNCHANGED <<cabins, inv, queues, notifs, creating>>

\* One scheduler check: it notifies anew on every tick that finds one overdue.
OverdueReports == {w \in OrderIds : ReportDue(orders[w]) /\ orders[w].deadline = "passed"}

\* Fault: once a deadline was missed, later ones are taken for the same.
CheckAnomalyDeadlinesOnce ==
  /\ OverdueReports # {}
  /\ {n \in notifs : n[1] = "anomaly_deadline"} = {}
  /\ notifs' = notifs \cup Notified("anomaly_deadline", OverdueReports)
  /\ UNCHANGED <<orders, cabins, inv, queues, creating>>

CheckAnomalyDeadlines ==
  /\ OverdueReports # {}
  /\ notifs' = notifs \cup Notified("anomaly_deadline", OverdueReports)
  /\ UNCHANGED <<orders, cabins, inv, queues, creating>>

\* The other one: only orders that wait to enter are escalated, not queued ones.
OverdueResponses ==
  {w \in OrderIds : /\ orders[w].type = "maintenance"
                    /\ orders[w].state = "authorized"
                    /\ orders[w].deadline = "passed"}

CheckMaintenanceTimeouts ==
  /\ OverdueResponses # {}
  /\ orders' = [w \in OrderIds |->
                  IF w \in OverdueResponses THEN Transition(orders[w], "escalated")
                                            ELSE orders[w]]
  /\ notifs' = notifs \cup Notified("escalation", OverdueResponses)
  /\ UNCHANGED <<cabins, inv, queues, creating>>

-----------------------------------------------------------------------------
(***************************************************************************)
(* The operations that clients call and that end with persist(), what is   *)
(* left of a creation, and the scheduler's two checks; the operation that  *)
(* does not persist; and what takes effect without o.mu.                   *)
(***************************************************************************)
Calls ==
  \E w \in OrderIds :
    \/ DetectAnomaly(w)
    \/ ReportAnomaly(w)
    \/ AuthorizeMaintenance(w)
    \/ EnterCabin(w)
    \/ \E s \in SKUs, n \in Quantities : RequestParts(w, s, n)
    \/ ConfirmParts(w)
    \/ \E s \in SKUs, n \in Quantities : EmergencyProcurement(w, s, n)
    \/ CompleteRepair(w)
    \/ RequestRestoration(w)
    \/ \E b, g \in BOOLEAN : ApproveRestoration(w, b, g)
    \/ InterruptApproval(w)
    \/ RecheckComplete(w)
    \/ FailPartsRequisition(w)
    \/ EscalateOrder(w)
    \/ ResumeFromEscalation(w)
    \/ CloseOrder(w)
    \/ CancelOrder(w)

Place(w) == PlaceInspection(w) \/ PlaceMaintenance(w)

Checks == CheckAnomalyDeadlines \/ CheckMaintenanceTimeouts

Persisting == Calls \/ (\E w \in OrderIds : Place(w)) \/ Checks

Unsaved == \E w \in OrderIds : RejectAuthorization(w)

Registrations ==
  \/ \E c \in CabinIds : RegisterCabin(c)
  \/ \E s \in SKUs, n \in StockLevels : RegisterPart(s, n)

Creations ==
  \E type \in OrderTypes, c \in CabinIds, p \in Urgencies : Create(type, c, p)

Clock == \E w \in OrderIds : DeadlinePasses(w)

Outside == Registrations \/ Creations \/ Clock

Next == Persisting \/ Unsaved \/ Outside

Spec == Init /\ [][Next]_vars

-----------------------------------------------------------------------------
(***************************************************************************)
(* Properties.                                                             *)
(***************************************************************************)
\* Each of the three maps the state file keeps, and its references to the others.
OrdersTyped(os, iv) ==
  /\ os \in Seq(Order)
  /\ \A w \in DOMAIN os : os[w].req \in {0} \cup DOMAIN iv.requisitions

CabinsTyped(os, cs) ==
  /\ DOMAIN cs \subseteq CabinIds
  /\ \A c \in DOMAIN cs :
       cs[c] \in Cab!Cabins /\ cs[c].active \in {Cab!Nobody} \cup DOMAIN os

WellTyped(os, cs, iv) ==
  /\ OrdersTyped(os, iv)
  /\ CabinsTyped(os, cs)
  /\ Inv!Typed(iv, DOMAIN os, SKUs, Quantities)

TypeOK ==
  /\ WellTyped(orders, cabins, inv)
  /\ queues \in [CabinIds -> Seq(OrderIds)]
  /\ notifs \subseteq Observed \X OrderIds
  /\ creating \subseteq OrderIds

(***************************************************************************)
(* An order at work holds its cabin.  The working states and the lock on   *)
(* the cabin are two records of one fact, kept by two managers; every      *)
(* operation must move them together.                                      *)
(***************************************************************************)
HoldsItsCabin(os, cs, w) ==
  os[w].cabin \in DOMAIN cs /\ cs[os[w].cabin].active = w

WorkingOrderHoldsItsCabin ==
  \A w \in OrderIds : orders[w].state \in Working => HoldsItsCabin(orders, cabins, w)

(***************************************************************************)
(* README: one cabin cannot hold an inspection and a maintenance order     *)
(* simultaneously, nor indeed any two orders at work.                      *)
(***************************************************************************)
Exclusion ==
  \A v, w \in OrderIds :
    /\ orders[v].state \in Working /\ orders[w].state \in Working
    /\ orders[v].cabin = orders[w].cabin
    => v = w

(***************************************************************************)
(* The status of a cabin says what is going on in it: whoever holds it     *)
(* decides while it is held, its grid connection otherwise.                *)
(***************************************************************************)
StatusOf(os, c) ==
  IF c.active = Cab!Nobody THEN IF c.qualified THEN "normal" ELSE "frozen"
  ELSE IF os[c.active].type = "inspection" THEN "under_inspection"
  ELSE "under_maintenance"

StatusAgrees ==
  \A c \in DOMAIN cabins : cabins[c].status = StatusOf(orders, cabins[c])

(***************************************************************************)
(* A queue holds orders for its cabin, each once, in queue order; all are  *)
(* waiting, or were cancelled while they waited, or are a creation that    *)
(* has been cancelled before it was placed.                                *)
(***************************************************************************)
QueueOrdered ==
  \A c \in CabinIds :
    /\ \A i, j \in DOMAIN queues[c] :
         i < j => Before(orders, queues[c][i], queues[c][j])
    /\ \A i \in DOMAIN queues[c] :
         LET o == orders[queues[c][i]]
         IN  o.cabin = c /\ o.state \in {"queued", "cancelled"}

\* A queued order is in the queue of its cabin, or nothing would ever advance it.
QueuedOrderIsInQueue ==
  \A w \in OrderIds :
    orders[w].state = "queued" =>
      \E i \in DOMAIN queues[orders[w].cabin] : queues[orders[w].cabin][i] = w

\* No order waits for a cabin that is free: whatever frees one advances its queue.
NoWaitingForFreeCabin ==
  \A c \in CabinIds :
    Free(cabins, c) => \A i \in DOMAIN queues[c] : ~Waiting(orders, queues[c][i])

\* A cabin with an anomaly under way is off the grid until maintenance restores it.
FrozenWhileAnomalyOpen ==
  \A w \in OrderIds :
    orders[w].state \in InspectionWork /\ orders[w].anomaly # "none" =>
      ~cabins[orders[w].cabin].qualified

(***************************************************************************)
(* Both signatures are on the requisition of an order that went on with    *)
(* its repair, and the requisition is the order's own.                     *)
(***************************************************************************)
RepairHasSignedParts ==
  \A w \in OrderIds :
    orders[w].state \in AfterParts =>
      /\ orders[w].req \in DOMAIN inv.requisitions
      /\ LET r == inv.requisitions[orders[w].req]
         IN  r.order = w /\ r.managerSigned /\ r.status = "confirmed"

(***************************************************************************)
(* Stock stays reserved only for an order that still awaits the manager's  *)
(* signature, or was cancelled while it did: no other order can lose track *)
(* of a reservation it made.                                               *)
(***************************************************************************)
ReservationHasOwner ==
  \A r \in DOMAIN inv.requisitions :
    LET o == orders[inv.requisitions[r].order] IN
    inv.requisitions[r].status = "pending" =>
      /\ o.req = r
      /\ o.state \in {"parts_requested", "parts_suspended", "cancelled"}

\* What is reserved is what the pending requisitions ask for, part by part.
ReservedIsPending ==
  \A s \in DOMAIN inv.parts :
    inv.parts[s].reserved =
      SumFunctionOnSet([r \in DOMAIN inv.requisitions |-> inv.requisitions[r].qty],
                       {r \in DOMAIN inv.requisitions :
                          /\ inv.requisitions[r].sku = s
                          /\ inv.requisitions[r].status = "pending"})

(***************************************************************************)
(* README: maintenance requires an authorization.  Whatever the detours    *)
(* over failures and escalations, an order leaves "created" for the queue, *)
(* the cabin or an escalation through "authorized" only, which a refused   *)
(* call does not give; and whenever it gets there, a new timeout begins.   *)
(***************************************************************************)
Admitted == {"queued", "escalated"} \cup MaintenanceWork

EntersByAuthorization(w) ==
  LET before == IF w \in OrderIds THEN orders[w].state ELSE "created"
      after  == orders'[w].state
  IN  orders'[w].type = "maintenance" =>
        /\ after \in Admitted => before \in Admitted \cup {"authorized"}
        /\ after = "authorized" =>
             before = "authorized" \/ orders'[w].deadline = "running"

MaintenanceIsAuthorized ==
  [][\A w \in OrderIds' : EntersByAuthorization(w)]_vars

(***************************************************************************)
(* An order that advances from the queue precedes every order that goes on *)
(* waiting for the same cabin.                                             *)
(***************************************************************************)
AdvanceHonoursPriority ==
  [][\A v, w \in OrderIds :
       /\ orders[w].state = "queued" /\ orders'[w].state \in Working
       /\ orders[v].state = "queued" /\ orders'[v].state = "queued"
       /\ orders[v].cabin = orders[w].cabin
       => Before(orders, w, v)]_vars

(***************************************************************************)
(* The grid connection comes back only with both rechecks passed and by a  *)
(* maintenance order that holds the cabin and reaches its approval.        *)
(***************************************************************************)
ReconnectOnlyByApproval ==
  [][\A c \in DOMAIN cabins :
       ~cabins[c].qualified /\ cabins'[c].qualified =>
         /\ cabins'[c].blackStart /\ cabins'[c].offGrid
         /\ \E w \in OrderIds :
              /\ cabins[c].active = w /\ cabins'[c].active = w
              /\ orders'[w].state = "restoration_approved"]_vars

(***************************************************************************)
(* Seen from outside, the cabins are locks that are passed on in order:    *)
(* every operation takes, awaits or passes on one cabin, or none.  This is *)
(* promised if orders name registered cabins only.                         *)
(***************************************************************************)
CabinLocks == INSTANCE CabinLock WITH
  known   <- [w \in OrderIds |-> [cabin |-> orders[w].cabin, priority |-> orders[w].priority]],
  holder  <- [c \in DOMAIN cabins |-> cabins[c].active],
  waiting <- {w \in OrderIds : orders[w].state = "queued"}

ImplementsCabinLock == CabinLocks!Spec

-----------------------------------------------------------------------------
(***************************************************************************)
(* What the documentation says and the code does not do: each of these is  *)
(* violated, see the README.                                               *)
(***************************************************************************)

\* CancelOrder releases the cabin: no finished order holds one.
FinishedOrderHoldsNoCabin ==
  \A c \in DOMAIN cabins :
    cabins[c].active # Cab!Nobody => ~IsTerminal(orders[cabins[c].active].state)

\* EnterCabin queues an order behind whoever holds the cabin, not behind itself.
NoOrderWaitsForItself ==
  \A w \in OrderIds :
    orders[w].state = "queued" => ~HoldsItsCabin(orders, cabins, w)
=============================================================================
