------------------------------ MODULE OrderProofs ------------------------------
(***************************************************************************)
(* Theorems about the orders, for any cabins, orders, parts and bounds: if *)
(* orders name registered cabins only, an order at work holds its cabin,   *)
(* and so no two are at work in one; maintenance begins with an accepted   *)
(* authorization, and no repair goes on without the parts that both have   *)
(* signed for.                                                             *)
(***************************************************************************)
EXTENDS DispatchProofs

\* The parts of the inductive invariant, on any maps of orders, cabins and queues.
Known(os, cs) == \A w \in DOMAIN os : os[w].cabin \in DOMAIN cs

Held(os, cs) == \A w \in DOMAIN os : os[w].state \in Working => HoldsItsCabin(os, cs, w)

OwnQueues(os, qs) ==
  \A c \in CabinIds : \A i \in DOMAIN qs[c] :
    qs[c][i] \in DOMAIN os /\ os[qs[c][i]].cabin = c

Lock(os, cs, qs) == Known(os, cs) /\ Held(os, cs) /\ OwnQueues(os, qs)

LockInv == Lock(orders, cabins, queues)

\* Two maps of cabins with the same cabins, held by the same orders.
SameHolders(cs, ds) ==
  DOMAIN ds = DOMAIN cs /\ \A c \in DOMAIN cs : ds[c].active = cs[c].active

-----------------------------------------------------------------------------
\* One order changes, keeps its cabin, and starts to work only if it holds it.
LEMMA LockOneOrder ==
  ASSUME NEW os, NEW cs, NEW qs, Lock(os, cs, qs), NEW ds, SameHolders(cs, ds),
         NEW w \in DOMAIN os, NEW new,
         DOMAIN new = DOMAIN os,
         \A v \in DOMAIN os : v # w => new[v] = os[v],
         new[w].cabin = os[w].cabin,
         new[w].state \in Working =>
           os[w].state \in Working \/ cs[os[w].cabin].active = w
  PROVE  Lock(new, ds, qs)
<1>1. Known(new, ds)
  BY DEF Lock, Known, SameHolders
<1>2. Held(new, ds)
  BY DEF Lock, Known, Held, HoldsItsCabin, SameHolders
<1>3. OwnQueues(new, qs)
  BY DEF Lock, OwnQueues
<1>. QED
  BY <1>1, <1>2, <1>3 DEF Lock

\* A free cabin goes to an order for it: no other order was at work there.
LEMMA LockAcquired ==
  ASSUME NEW os, NEW cs, NEW qs, NEW iv, WellTyped(os, cs, iv), Lock(os, cs, qs),
         NEW w \in DOMAIN os, Free(cs, os[w].cabin), NEW type,
         NEW new, DOMAIN new = DOMAIN os,
         \A v \in DOMAIN os : v # w => new[v] = os[v],
         new[w].cabin = os[w].cabin
  PROVE  Lock(new, Acquired(cs, os[w].cabin, w, type), qs)
<1>. DEFINE c  == os[w].cabin
            ds == Acquired(cs, c, w, type)
<1>1. /\ DOMAIN ds = DOMAIN cs
      /\ ds[c].active = w
      /\ \A d \in DOMAIN cs : d # c => ds[d] = cs[d]
      /\ c \in DOMAIN cs
  BY AcquiredTyped DEF Free
<1>2. \A v \in DOMAIN os : os[v].state \in Working => os[v].cabin # c
  <2>1. \A v \in DOMAIN os : v # Cab!Nobody
    BY OrderOf DEF Cab!Nobody
  <2>2. cs[c].active = Cab!Nobody
    BY DEF Free, Cab!CanAcquire
  <2>. QED
    BY <2>1, <2>2 DEF Lock, Held, HoldsItsCabin
<1>. HIDE DEF ds
<1>3. Known(new, ds)
  BY <1>1 DEF Lock, Known
<1>4. Held(new, ds)
  BY <1>1, <1>2 DEF Lock, Known, Held, HoldsItsCabin
<1>5. OwnQueues(new, qs)
  BY DEF Lock, OwnQueues
<1>. QED
  BY <1>3, <1>4, <1>5 DEF Lock, ds

\* A queue may lose entries, or get an order for its cabin.
ComesFrom(os, c, new, old) ==
  \A i \in DOMAIN new :
    \/ \E j \in DOMAIN old : new[i] = old[j]
    \/ new[i] \in DOMAIN os /\ os[new[i]].cabin = c

LEMMA LockRequeued ==
  ASSUME NEW os, NEW cs, NEW qs, Lock(os, cs, qs), NEW rs,
         \A c \in CabinIds : ComesFrom(os, c, rs[c], qs[c])
  PROVE  Lock(os, cs, rs)
BY DEF Lock, OwnQueues, ComesFrom

\* An order that is enqueued for its own cabin keeps the queues in order.
Enqueued(qs, c, os, w) == [qs EXCEPT ![c] = Enqueue(os, @, w)]

LEMMA LockEnqueued ==
  ASSUME NEW os, NEW cs, NEW qs, Lock(os, cs, qs), NEW w \in DOMAIN os,
         NEW c \in CabinIds, os[w].cabin = c,
         qs \in [CabinIds -> Seq(DOMAIN os)], NEW os2
  PROVE  Lock(os, cs, Enqueued(qs, c, os2, w))
<1>. DEFINE q  == Enqueue(os2, qs[c], w)
            rs == Enqueued(qs, c, os2, w)
<1>1. ComesFrom(os, c, q, qs[c])
  <2>1. \A i \in DOMAIN q : q[i] = w \/ \E j \in DOMAIN qs[c] : q[i] = qs[c][j]
    BY EnqueueEntries
  <2>. HIDE DEF q
  <2>. QED
    BY <2>1 DEF ComesFrom
<1>2. \A d \in CabinIds : rs[d] = IF d = c THEN q ELSE qs[d]
  <2>1. rs = [qs EXCEPT ![c] = q]
    BY DEF Enqueued
  <2>. HIDE DEF q, rs
  <2>. QED
    BY <2>1
<1>3. \A d \in CabinIds : ComesFrom(os, d, qs[d], qs[d])
  BY DEF ComesFrom
<1>. HIDE DEF q
<1>4. \A d \in CabinIds : ComesFrom(os, d, rs[d], qs[d])
  BY <1>1, <1>2, <1>3
<1>. QED
  BY <1>4, LockRequeued

\* Releasing a cabin where no order is at work.
LEMMA LockReleased ==
  ASSUME NEW os, NEW cs, NEW iv, NEW qs, WellTyped(os, cs, iv), Lock(os, cs, qs),
         NEW c, \A v \in DOMAIN os : os[v].cabin = c => os[v].state \notin Working
  PROVE  Lock(os, Released(cs, c), qs)
<1>1. /\ DOMAIN Released(cs, c) = DOMAIN cs
      /\ \A d \in DOMAIN cs : d # c => Released(cs, c)[d] = cs[d]
  BY ReleasedTyped
<1>. QED
  BY <1>1 DEF Lock, Known, Held, HoldsItsCabin

\* assignFromQueue hands the cabin to an order that waits for it.
LEMMA LockAssigned ==
  ASSUME NEW os, NEW cs, NEW qs, NEW ns, NEW iv, NEW c \in CabinIds,
         WellTyped(os, cs, iv), Lock(os, cs, qs),
         qs \in [CabinIds -> Seq(DOMAIN os)],
         ns \subseteq Observed \X DOMAIN os,
         AssignFromQueue(os, cs, qs, ns, c)
  PROVE  LockInv'
<1>1. /\ \A d \in CabinIds : \A i \in DOMAIN queues'[d] :
           \E j \in DOMAIN qs[d] : queues'[d][i] = qs[d][j]
      /\ \/ orders' = os /\ cabins' = cs
         \/ \E i \in DOMAIN qs[c] : Advanced(os, cs, c, qs[c][i])
  BY AssignFacts
<1>2. Lock(os, cs, queues')
  <2>1. \A d \in CabinIds : ComesFrom(os, d, queues'[d], qs[d])
    BY <1>1 DEF ComesFrom
  <2>. QED
    BY <2>1, LockRequeued
<1>3. CASE orders' = os /\ cabins' = cs
  BY <1>2, <1>3 DEF LockInv
<1>4. ASSUME NEW i \in DOMAIN qs[c], Advanced(os, cs, c, qs[c][i])
      PROVE  LockInv'
  <2>. DEFINE w  == qs[c][i]
              to == IF os[w].type = "inspection" THEN "in_progress" ELSE "executing"
  <2>1. w \in DOMAIN os /\ os[w].cabin = c
    BY DEF Lock, OwnQueues
  <2>2. /\ Free(cs, c)
        /\ cabins' = Acquired(cs, c, w, os[w].type)
        /\ orders' = Move(os, w, to)
    BY <1>4 DEF Advanced
  <2>3. to \in States
    BY DEF States
  <2>. HIDE DEF w, to
  <2>4. /\ DOMAIN Move(os, w, to) = DOMAIN os
        /\ Move(os, w, to)[w] = Transition(os[w], to)
        /\ \A v \in DOMAIN os : v # w => Move(os, w, to)[v] = os[v]
    BY <2>1, <2>3, MoveTyped
  <2>5. Transition(os[w], to).cabin = os[w].cabin
    BY <2>1, <2>3, OrderOf, TransitionField
  <2>6. Lock(Move(os, w, to), Acquired(cs, os[w].cabin, w, os[w].type), queues')
    BY <1>2, <2>1, <2>2, <2>4, <2>5, LockAcquired
  <2>. QED
    BY <2>1, <2>2, <2>6 DEF LockInv
<1>. QED
  BY <1>1, <1>3, <1>4

\* An order that moves, in place, starts to work only if it holds its cabin.
LEMMA LockMoved ==
  ASSUME TypeOK, LockInv, NEW w \in OrderIds, NEW to \in States,
         orders' = Move(orders, w, to), SameHolders(cabins, cabins'),
         UNCHANGED queues,
         to \in Working => orders[w].state \in Working
                           \/ cabins[orders[w].cabin].active = w
  PROVE  LockInv'
<1>. DEFINE o == Transition(orders[w], to)
<1>1. /\ WellTyped(orders, cabins, inv)
      /\ w \in DOMAIN orders
  BY DEF TypeOK, OrderIds
<1>2. /\ DOMAIN orders' = DOMAIN orders
      /\ orders'[w] = o
      /\ \A v \in DOMAIN orders : v # w => orders'[v] = orders[v]
  BY <1>1, MoveTyped
<1>3. o.cabin = orders[w].cabin /\ o.state \in {orders[w].state, to}
  BY <1>1, OrderOf, TransitionField
<1>. HIDE DEF o
<1>. QED
  BY <1>1, <1>2, <1>3, LockOneOrder DEF LockInv

\* An order whose other fields change keeps the lock as it is.
Updated(os, w, o) == [os EXCEPT ![w] = o]

LEMMA LockUpdated ==
  ASSUME TypeOK, LockInv, NEW w \in OrderIds, NEW o, SameHolders(cabins, cabins'),
         orders' = Updated(orders, w, o), UNCHANGED queues,
         o.cabin = orders[w].cabin,
         o.state \in Working => orders[w].state \in Working
                               \/ cabins[orders[w].cabin].active = w
  PROVE  LockInv'
<1>1. /\ DOMAIN Updated(orders, w, o) = DOMAIN orders
      /\ Updated(orders, w, o)[w] = o
      /\ \A v \in DOMAIN orders : v # w => Updated(orders, w, o)[v] = orders[v]
      /\ w \in DOMAIN orders
  BY DEF OrderIds, Updated
<1>. QED
  BY <1>1, LockOneOrder DEF LockInv

\* An order that asks for its cabin gets it or is enqueued for it.
LEMMA LockAsked ==
  ASSUME TypeOK, LockInv, NEW w \in OrderIds, NEW type, NEW to \in States,
         AskForCabin(w, type, to)
  PROVE  LockInv'
<1>. DEFINE c == orders[w].cabin
<1>1. /\ WellTyped(orders, cabins, inv)
      /\ w \in DOMAIN orders
      /\ c \in CabinIds
      /\ queues \in [CabinIds -> Seq(DOMAIN orders)]
  BY OrderOf DEF TypeOK, OrderIds
<1>2. CASE /\ Free(cabins, c)
           /\ cabins' = Acquired(cabins, c, w, type)
           /\ orders' = Move(orders, w, to)
           /\ UNCHANGED queues
  <2>1. /\ DOMAIN orders' = DOMAIN orders
        /\ orders'[w] = Transition(orders[w], to)
        /\ \A v \in DOMAIN orders : v # w => orders'[v] = orders[v]
    BY <1>1, <1>2, MoveTyped
  <2>2. orders'[w].cabin = orders[w].cabin
    BY <1>1, <2>1, OrderOf, TransitionField
  <2>. QED
    BY <1>1, <1>2, <2>1, <2>2, LockAcquired DEF LockInv
<1>3. CASE /\ queues' = [queues EXCEPT ![c] = Enqueue(orders, @, w)]
           /\ orders' = Move(orders, w, "queued")
           /\ UNCHANGED cabins
  <2>1. queues' = Enqueued(queues, c, orders, w)
    BY <1>3 DEF Enqueued
  <2>2. Lock(orders, cabins, queues')
    BY <1>1, <2>1, LockEnqueued DEF LockInv
  <2>3. "queued" \in States /\ "queued" \notin Working
    BY DEF States, Working, InspectionWork, MaintenanceWork
  <2>4. /\ DOMAIN orders' = DOMAIN orders
        /\ orders'[w] = Transition(orders[w], "queued")
        /\ \A v \in DOMAIN orders : v # w => orders'[v] = orders[v]
    BY <1>1, <1>3, <2>3, MoveTyped
  <2>5. /\ orders'[w].cabin = orders[w].cabin
        /\ orders'[w].state \in {orders[w].state, "queued"}
    BY <1>1, <2>3, <2>4, OrderOf, TransitionField
  <2>6. SameHolders(cabins, cabins')
    BY <1>3 DEF SameHolders
  <2>. QED
    BY <1>1, <2>2, <2>3, <2>4, <2>5, <2>6, LockOneOrder DEF LockInv
<1>. QED
  BY <1>2, <1>3 DEF AskForCabin

\* An order whose parts fail goes back to the queue, out of the cabin it held.
LEMMA LockFailed ==
  ASSUME TypeOK, LockInv, NEW w \in OrderIds, FailPartsRequisition(w)
  PROVE  LockInv'
<1>. DEFINE c    == orders[w].cabin
            back == Move(orders, w, "queued")
            rel  == Released(cabins, c)
            qs   == [queues EXCEPT ![c] = Enqueue(back, @, w)]
            told == notifs \cup Notified("parts_failure", {w})
<1>1. /\ c \in CabinIds
      /\ WellTyped(back, rel, inv')
      /\ DOMAIN back = DOMAIN orders
      /\ qs \in [CabinIds -> Seq(DOMAIN back)]
      /\ told \subseteq Observed \X DOMAIN back
      /\ AssignFromQueue(back, rel, qs, told, c)
  BY FailPartsHandsOver DEF OrderIds
<1>2. /\ WellTyped(orders, cabins, inv)
      /\ w \in DOMAIN orders
      /\ queues \in [CabinIds -> Seq(DOMAIN orders)]
      /\ orders[w].state \in {"parts_requested", "parts_suspended"}
  BY DEF TypeOK, OrderIds, FailPartsRequisition
<1>3. /\ "queued" \in States /\ "queued" \notin Working
      /\ CanTransition(orders[w].state, "queued")
      /\ orders[w].state \in Working
  BY <1>2 DEF States, Working, InspectionWork, MaintenanceWork, CanTransition, Targets
<1>4. /\ back[w] = Transition(orders[w], "queued")
      /\ \A v \in DOMAIN orders : v # w => back[v] = orders[v]
  BY <1>2, <1>3, MoveTyped
<1>5. back[w].cabin = c /\ back[w].state = "queued"
  <2>1. orders[w] \in Order
    BY <1>2, OrderOf
  <2>. QED
    BY <1>3, <1>4, <2>1, TransitionField DEF Transition, Order
<1>6. WellTyped(back, cabins, inv)
  BY <1>2, <1>3, MoveTyped
<1>. HIDE DEF back
<1>7. Lock(back, cabins, queues)
  <2>1. SameHolders(cabins, cabins)
    BY DEF SameHolders
  <2>. QED
    BY <1>1, <1>2, <1>3, <1>4, <1>5, <2>1, LockOneOrder DEF LockInv
<1>8. \A v \in DOMAIN back : back[v].cabin = c => back[v].state \notin Working
  <2>1. \A v \in DOMAIN orders :
          orders[v].state \in Working /\ orders[v].cabin = c => v = w
    BY <1>2, <1>3 DEF LockInv, Lock, Held, HoldsItsCabin
  <2>. QED
    BY <1>1, <1>3, <1>4, <1>5, <2>1
<1>9. Lock(back, rel, queues)
  BY <1>6, <1>7, <1>8, LockReleased
<1>10. Lock(back, rel, qs)
  <2>1. qs = Enqueued(queues, c, back, w)
    BY DEF Enqueued
  <2>. HIDE DEF qs, rel
  <2>. QED
    BY <1>1, <1>2, <1>5, <1>9, <2>1, LockEnqueued
<1>. HIDE DEF c, rel, qs, told
<1>. QED
  BY <1>1, <1>10, LockAssigned

\* An order that is closed or cancelled leaves the cabin it held, and no other.
LEMMA LockLeft ==
  ASSUME TypeOK, LockInv, NEW w \in OrderIds, NEW to \in Terminal, Leave(w, to)
  PROVE  LockInv'
<1>. DEFINE c    == orders[w].cabin
            gone == Move(orders, w, to)
            left == LeftBy(cabins, w)
<1>1. /\ c \in CabinIds
      /\ WellTyped(gone, left, inv)
      /\ DOMAIN gone = DOMAIN orders
      /\ queues \in [CabinIds -> Seq(DOMAIN gone)]
      /\ notifs \subseteq Observed \X DOMAIN gone
      /\ AssignFromQueue(gone, left, queues, notifs, c)
  BY LeaveHandsOver DEF OrderIds
<1>2. /\ WellTyped(orders, cabins, inv)
      /\ w \in DOMAIN orders
      /\ CanTransition(orders[w].state, to)
  BY DEF TypeOK, OrderIds, Leave
<1>3. to \in States /\ to \notin Working
  BY DEF States, Terminal, Working, InspectionWork, MaintenanceWork
<1>4. /\ gone[w] = Transition(orders[w], to)
      /\ \A v \in DOMAIN orders : v # w => gone[v] = orders[v]
      /\ WellTyped(gone, cabins, inv)
  BY <1>2, <1>3, MoveTyped
<1>5. gone[w].cabin = c /\ gone[w].state = to
  <2>1. orders[w] \in Order
    BY <1>2, OrderOf
  <2>. QED
    BY <1>2, <1>3, <1>4, <2>1, TransitionField DEF Transition, Order
<1>. HIDE DEF gone
<1>6. Lock(gone, cabins, queues)
  <2>1. SameHolders(cabins, cabins)
    BY DEF SameHolders
  <2>. QED
    BY <1>1, <1>2, <1>3, <1>4, <1>5, <2>1, LockOneOrder DEF LockInv
<1>7. Lock(gone, left, queues)
  <2>1. CASE c \in DOMAIN cabins /\ cabins[c].active = w
    <3>1. \A v \in DOMAIN gone : gone[v].cabin = c => gone[v].state \notin Working
      <4>1. \A v \in DOMAIN orders :
              orders[v].state \in Working /\ orders[v].cabin = c => v = w
        BY <2>1 DEF LockInv, Lock, Held, HoldsItsCabin
      <4>. QED
        BY <1>1, <1>3, <1>4, <1>5, <4>1
    <3>. QED
      BY <1>4, <1>6, <2>1, <3>1, LockReleased DEF LeftBy
  <2>2. CASE ~(c \in DOMAIN cabins /\ cabins[c].active = w)
    BY <1>6, <2>2 DEF LeftBy
  <2>. QED
    BY <2>1, <2>2
<1>. HIDE DEF c, left
<1>. QED
  BY <1>1, <1>7, LockAssigned

\* Replacing a cabin by one with the same holder.
LEMMA HolderKept ==
  ASSUME NEW cs, NEW c \in DOMAIN cs, NEW k, k.active = cs[c].active
  PROVE  SameHolders(cs, [cs EXCEPT ![c] = k])
BY DEF SameHolders

\* No order starts to work, none changes its cabin.
LEMMA LockIdle ==
  ASSUME NEW os, NEW cs, NEW qs, Lock(os, cs, qs), NEW new,
         DOMAIN new = DOMAIN os,
         \A w \in DOMAIN os :
           /\ new[w].cabin = os[w].cabin
           /\ new[w].state \in Working => os[w].state \in Working
  PROVE  Lock(new, cs, qs)
BY DEF Lock, Known, Held, HoldsItsCabin, OwnQueues

\* The states that are, and that are not, states of an order at work.
LEMMA WorkingStates ==
  /\ {"in_progress", "anomaly_reported", "executing", "parts_requested",
      "parts_suspended", "parts_confirmed", "repair_completed",
      "pending_restoration", "pending_recheck", "restoration_approved"} \subseteq Working
  /\ {"created", "queued", "authorized", "escalated"} \cap Working = {}
  /\ Working \cup {"created", "queued", "authorized", "escalated"} \subseteq States
BY DEF Working, InspectionWork, MaintenanceWork, States

LEMMA LockInit == Init => LockInv
<1>1. \A c \in CabinIds : DOMAIN [d \in CabinIds |-> <<>>][c] = {}
  OBVIOUS
<1>. QED
  BY <1>1 DEF Init, LockInv, Lock, Known, Held, OwnQueues

\* Every step keeps the lock, if orders name registered cabins only.
LEMMA LockStep ==
  ASSUME ~StrayCabins, TypeOK, LockInv, [Next]_vars
  PROVE  LockInv'
<1>1. /\ WellTyped(orders, cabins, inv)
      /\ \A c \in DOMAIN cabins : cabins[c] \in Cab!Cabins
  BY DEF TypeOK, WellTyped, CabinsTyped
<1>2. \A w \in OrderIds : orders[w] \in Order
  BY <1>1, OrderOf DEF OrderIds
<1>3. SameHolders(cabins, cabins)
  BY DEF SameHolders
<1>4. ASSUME UNCHANGED <<orders, cabins, queues>> PROVE LockInv'
  BY <1>4 DEF LockInv
<1>5. ASSUME NEW w \in OrderIds, PlaceInspection(w) \/ EnterCabin(w) PROVE LockInv'
  BY <1>5, PlaceInspectionAsks, EnterCabinAsks, LockAsked, WorkingStates
<1>6. ASSUME NEW w \in OrderIds, DetectAnomaly(w) PROVE LockInv'
  <2>. DEFINE c == orders[w].cabin
              o == [orders[w] EXCEPT !.anomaly = "detected", !.deadline = "running"]
              k == Cab!Freeze(cabins[c])
  <2>1. o.cabin = orders[w].cabin /\ o.state = orders[w].state
    BY <1>2 DEF Order
  <2>2. /\ c \in DOMAIN cabins
        /\ cabins' = [cabins EXCEPT ![c] = k]
        /\ orders' = Updated(orders, w, o)
        /\ UNCHANGED queues
    BY <1>6 DEF DetectAnomaly, Updated
  <2>3. k.active = cabins[c].active
    BY <1>1, <2>2, CabinOps
  <2>. HIDE DEF o, k, c
  <2>4. SameHolders(cabins, cabins')
    BY <2>2, <2>3, HolderKept
  <2>5. LockInv'
    BY <2>1, <2>2, <2>4, LockUpdated
  <2>. QED
    BY <2>5
<1>7. ASSUME NEW w \in OrderIds, ReportAnomaly(w) PROVE LockInv'
  <2>. DEFINE p == [orders[w] EXCEPT !.anomaly = "reported"]
              o == Transition(p, "anomaly_reported")
  <2>1. p \in Order /\ p.cabin = orders[w].cabin
    BY <1>2 DEF Order, Anomalies
  <2>2. /\ orders' = Updated(orders, w, o)
        /\ UNCHANGED <<cabins, queues>>
        /\ orders[w].state = "in_progress"
    BY <1>7 DEF ReportAnomaly, Updated
  <2>. HIDE DEF p
  <2>3. o.cabin = orders[w].cabin
    BY <2>1, TransitionField, WorkingStates
  <2>. HIDE DEF o
  <2>. QED
    BY <1>3, <2>2, <2>3, LockUpdated, WorkingStates
<1>8. ASSUME NEW w \in OrderIds, AuthorizeMaintenance(w) \/ RejectAuthorization(w)
      PROVE  LockInv'
  <2>. DEFINE p == Timed(orders[w])
              o == Transition(p, "authorized")
  <2>1. p \in Order /\ p.cabin = orders[w].cabin /\ p.state = orders[w].state
    BY <1>2 DEF Order, Timed, Deadlines
  <2>2. /\ orders' = Updated(orders, w, o) \/ orders' = Updated(orders, w, p)
        /\ UNCHANGED <<cabins, queues>>
    BY <1>8 DEF AuthorizeMaintenance, RejectAuthorization, Updated
  <2>. HIDE DEF p
  <2>3. o.cabin = orders[w].cabin /\ o.state \in {orders[w].state, "authorized"}
    BY <2>1, TransitionField, WorkingStates
  <2>. HIDE DEF o
  <2>. QED
    BY <1>3, <2>1, <2>2, <2>3, LockUpdated, WorkingStates
<1>9. ASSUME NEW w \in OrderIds, NEW s \in SKUs, NEW n \in Quantities,
             RequestParts(w, s, n)
      PROVE  LockInv'
  <2>. DEFINE a == [orders[w] EXCEPT !.req = Len(inv.requisitions) + 1]
              b == Transition(a, "parts_requested")
              d == Transition(b, "parts_suspended")
  <2>1. inv.requisitions \in Seq(Inv!Requisition(OrderIds, DOMAIN inv.parts, Quantities))
    BY <1>1 DEF WellTyped, Inv!Typed, OrderIds
  <2>2. a \in Order /\ a.cabin = orders[w].cabin
    <3>1. Len(inv.requisitions) + 1 \in Nat
      BY <2>1, LenProperties
    <3>. QED
      BY <1>2, <3>1 DEF Order
  <2>3. /\ orders' = Updated(orders, w, b) \/ orders' = Updated(orders, w, d)
        /\ UNCHANGED <<cabins, queues>>
        /\ orders[w].state \in Working
    BY <1>9, WorkingStates DEF RequestParts, Updated
  <2>. HIDE DEF a
  <2>4. b \in Order /\ b.cabin = orders[w].cabin
    BY <2>2, TransitionField, WorkingStates
  <2>. HIDE DEF b
  <2>5. d.cabin = orders[w].cabin
    BY <2>4, TransitionField, WorkingStates
  <2>. HIDE DEF d
  <2>. QED
    BY <1>3, <2>3, <2>4, <2>5, LockUpdated
<1>10. ASSUME NEW w \in OrderIds,
              \/ ConfirmParts(w)
              \/ \E s \in SKUs, n \in Quantities : EmergencyProcurement(w, s, n)
              \/ CompleteRepair(w) \/ RequestRestoration(w)
              \/ InterruptApproval(w) \/ RecheckComplete(w)
       PROVE  LockInv'
  <2>1. CASE orders' = orders
    BY <1>4, <1>10, <2>1 DEF ConfirmParts, EmergencyProcurement, CompleteRepair,
       RequestRestoration, InterruptApproval, RecheckComplete, Step
  <2>2. CASE \E to \in Working : orders' = Move(orders, w, to)
    <3>1. orders[w].state \in Working \/ orders' = orders
      BY <1>10, WorkingStates DEF ConfirmParts, EmergencyProcurement, CompleteRepair,
         RequestRestoration, InterruptApproval, RecheckComplete, Step
    <3>2. UNCHANGED <<cabins, queues>>
      BY <1>10 DEF ConfirmParts, EmergencyProcurement, CompleteRepair,
         RequestRestoration, InterruptApproval, RecheckComplete, Step
    <3>. QED
      BY <1>3, <2>1, <2>2, <3>1, <3>2, LockMoved, WorkingStates
  <2>. QED
    BY <1>10, <2>1, <2>2, WorkingStates DEF ConfirmParts, EmergencyProcurement,
       CompleteRepair, RequestRestoration, InterruptApproval, RecheckComplete, Step
<1>11. ASSUME NEW w \in OrderIds, NEW b \in BOOLEAN, NEW g \in BOOLEAN,
              ApproveRestoration(w, b, g)
       PROVE  LockInv'
  <2>. DEFINE c       == orders[w].cabin
              k       == Cab!Recheck(cabins[c], b, g)
              t       == Cab!Thaw(k)
              checked == [cabins EXCEPT ![c] = k]
              thawed  == [checked EXCEPT ![c] = t]
  <2>1. c \in DOMAIN cabins /\ cabins[c] \in Cab!Cabins
    BY <1>1, <1>11 DEF ApproveRestoration
  <2>2. k \in Cab!Cabins /\ k.active = cabins[c].active /\ t.active = cabins[c].active
    <3>1. k \in Cab!Cabins /\ k.active = cabins[c].active
      BY <2>1, CabinOps
    <3>. HIDE DEF k
    <3>. QED
      BY <3>1, CabinOps
  <2>3. /\ \E to \in {"pending_recheck", "restoration_approved"} :
              orders' = Move(orders, w, to)
        /\ cabins' = checked \/ cabins' = thawed
        /\ UNCHANGED queues
        /\ orders[w].state = "pending_restoration"
    <3>1. checked[c] = k
      BY <2>1
    <3>. HIDE DEF checked, k
    <3>. QED
      BY <1>11, <3>1 DEF ApproveRestoration, checked, k
  <2>. HIDE DEF k, t
  <2>4. SameHolders(cabins, checked) /\ SameHolders(cabins, thawed)
    <3>1. thawed = [cabins EXCEPT ![c] = t]
      BY <2>1
    <3>. QED
      BY <2>1, <2>2, <3>1, HolderKept
  <2>. HIDE DEF checked, thawed
  <2>. QED
    BY <2>3, <2>4, LockMoved, WorkingStates
<1>12. ASSUME NEW w \in OrderIds, FailPartsRequisition(w) PROVE LockInv'
  BY <1>12, LockFailed
<1>13. ASSUME NEW w \in OrderIds, EscalateOrder(w) PROVE LockInv'
  BY <1>3, <1>13, LockMoved, WorkingStates DEF EscalateOrder
<1>14. ASSUME NEW w \in OrderIds, ResumeFromEscalation(w) PROVE LockInv'
  <2>. DEFINE p == [orders[w] EXCEPT !.deadline = "running"]
              o == Transition(p, "authorized")
  <2>1. p \in Order /\ p.cabin = orders[w].cabin /\ p.state = "escalated"
    BY <1>2, <1>14 DEF ResumeFromEscalation, Order, Deadlines
  <2>2. orders[w].cabin \in DOMAIN cabins
    BY DEF LockInv, Lock, Known, OrderIds
  <2>3. /\ UNCHANGED <<cabins, queues>>
        /\ \/ orders' = Updated(orders, w, o)
           \/ /\ orders' = Move(orders, w, "executing")
              /\ cabins[orders[w].cabin].active = w
    BY <1>14, <2>2 DEF ResumeFromEscalation, Updated
  <2>. HIDE DEF p
  <2>4. o.cabin = orders[w].cabin /\ o.state \notin Working
    BY ZenonT(60), <2>1, TransitionField, WorkingStates
  <2>. HIDE DEF o
  <2>. QED
    BY <1>3, <2>3, <2>4, LockUpdated, LockMoved, WorkingStates
<1>15. ASSUME NEW w \in OrderIds, CloseOrder(w) \/ CancelOrder(w) PROVE LockInv'
  BY <1>15, LockLeft DEF CloseOrder, CancelOrder, Terminal
<1>16. ASSUME NEW w \in OrderIds, DeadlinePasses(w) PROVE LockInv'
  <2>. DEFINE o == [orders[w] EXCEPT !.deadline = "passed"]
  <2>1. o.cabin = orders[w].cabin /\ o.state = orders[w].state
    BY <1>2 DEF Order
  <2>2. orders' = Updated(orders, w, o) /\ UNCHANGED <<cabins, queues>>
    BY <1>16 DEF DeadlinePasses, Updated
  <2>. HIDE DEF o
  <2>. QED
    BY <1>3, <2>1, <2>2, LockUpdated
<1>17. CASE CheckMaintenanceTimeouts
  <2>1. \A w \in OrderIds :
          /\ Transition(orders[w], "escalated").cabin = orders[w].cabin
          /\ Transition(orders[w], "escalated").state \in {orders[w].state, "escalated"}
    BY <1>2, TransitionField, WorkingStates
  <2>2. /\ DOMAIN orders' = DOMAIN orders
        /\ \A w \in DOMAIN orders :
             /\ orders'[w].cabin = orders[w].cabin
             /\ orders'[w].state \in Working => orders[w].state \in Working
    BY <1>17, <2>1, WorkingStates DEF CheckMaintenanceTimeouts, OrderIds
  <2>3. UNCHANGED <<cabins, queues>>
    BY <1>17 DEF CheckMaintenanceTimeouts
  <2>. QED
    BY <2>2, <2>3, LockIdle DEF LockInv
<1>18. ASSUME NEW c \in CabinIds, RegisterCabin(c) PROVE LockInv'
  <2>1. /\ UNCHANGED <<orders, queues>>
        /\ DOMAIN cabins \subseteq DOMAIN cabins'
        /\ \A d \in DOMAIN cabins : cabins'[d] = cabins[d]
    BY <1>18 DEF RegisterCabin
  <2>. QED
    BY <2>1 DEF LockInv, Lock, Known, Held, HoldsItsCabin, OwnQueues
<1>19. ASSUME NEW type \in OrderTypes, NEW c \in CabinIds, NEW p \in Urgencies,
              Create(type, c, p)
       PROVE  LockInv'
  <2>. DEFINE n   == Len(orders) + 1
              new == NewOrder(type, c, p)
  <2>1. /\ DOMAIN orders' = DOMAIN orders \cup {n}
        /\ n \notin DOMAIN orders
        /\ orders'[n] = new
        /\ \A w \in DOMAIN orders : orders'[w] = orders[w]
    BY <1>19, CreateStep DEF OrderIds
  <2>2. c \in DOMAIN cabins /\ UNCHANGED <<cabins, queues>>
    BY <1>19 DEF Create
  <2>3. new.cabin = c /\ new.state \notin Working
    BY WorkingStates DEF NewOrder
  <2>. HIDE DEF n, new
  <2>. QED
    BY <2>1, <2>2, <2>3 DEF LockInv, Lock, Known, Held, HoldsItsCabin, OwnQueues
<1>20. CASE \/ UNCHANGED vars
            \/ CheckAnomalyDeadlines
            \/ \E w \in OrderIds : PlaceMaintenance(w)
            \/ \E s \in SKUs, n \in StockLevels : RegisterPart(s, n)
  BY <1>4, <1>20 DEF vars, CheckAnomalyDeadlines, PlaceMaintenance, RegisterPart
<1>. QED
  BY <1>5, <1>6, <1>7, <1>8, <1>9, <1>10, <1>11, <1>12, <1>13, <1>14, <1>15, <1>16,
     <1>17, <1>18, <1>19, <1>20
  DEF Next, Persisting, Calls, Place, Checks, Unsaved, Outside, Registrations,
      Creations, Clock

\* The lock is kept in every reachable state.
LEMMA LockKept == ASSUME ~StrayCabins PROVE Spec => [](TypeOK /\ LockInv)
<1>1. Init => TypeOK /\ LockInv
  BY TypeInit, LockInit
<1>2. (TypeOK /\ LockInv) /\ [Next]_vars => (TypeOK /\ LockInv)'
  BY TypeStep, LockStep
<1>. QED
  BY <1>1, <1>2, PTL DEF Spec

(***************************************************************************)
(* An order at work holds its cabin: the state of the order and the holder *)
(* of the cabin, kept by two managers, never come apart.                   *)
(***************************************************************************)
THEOREM HoldsCabin ==
  ASSUME ~StrayCabins PROVE Spec => []WorkingOrderHoldsItsCabin
<1>1. LockInv => WorkingOrderHoldsItsCabin
  BY DEF LockInv, Lock, Held, WorkingOrderHoldsItsCabin, OrderIds
<1>. QED
  BY <1>1, LockKept, PTL

LEMMA LockExcludes == LockInv => Exclusion
BY DEF LockInv, Lock, Held, HoldsItsCabin, Exclusion, OrderIds

(***************************************************************************)
(* No two orders are at work in one cabin, whatever the number of cabins,  *)
(* orders, parts and the order in which calls come.                        *)
(***************************************************************************)
THEOREM MutualExclusion ==
  ASSUME ~StrayCabins PROVE Spec => []Exclusion
BY LockExcludes, LockKept, PTL

-----------------------------------------------------------------------------
(***************************************************************************)
(* How an order proceeds.                                                  *)
(***************************************************************************)
\* Finished is finished, an inspection goes on or is finished, and no anomaly
\* is found.
Proceeds(o, n) ==
  /\ n.type = o.type
  /\ n.cabin = o.cabin
  /\ IsTerminal(o.state) => n.state = o.state
  /\ o.state \in InspectionWork => n.state \in InspectionWork \cup Terminal
  /\ o.anomaly = "none" => n.anomaly = "none"

Proceed(os, new) ==
  /\ DOMAIN os \subseteq DOMAIN new
  /\ \A w \in DOMAIN os : Proceeds(os[w], new[w])
  /\ \A w \in DOMAIN new \ DOMAIN os : new[w].anomaly = "none"

LEMMA ProceedTransitive ==
  ASSUME NEW a, NEW b, NEW c, Proceed(a, b), Proceed(b, c)
  PROVE  Proceed(a, c)
BY DEF Proceed, Proceeds, IsTerminal

LEMMA ProceedReflexive == \A a : Proceed(a, a)
BY DEF Proceed, Proceeds

\* No edge leaves a terminal state, or the inspection but to an end.
LEMMA TransitionProceeds ==
  ASSUME NEW o \in Order, NEW to \in States
  PROVE  Proceeds(o, Transition(o, to))
<1>1. IsTerminal(o.state) => ~CanTransition(o.state, to)
  BY DEF IsTerminal, Terminal, CanTransition, Targets
<1>2. o.state \in InspectionWork /\ CanTransition(o.state, to) =>
        to \in InspectionWork \cup Terminal
  BY DEF InspectionWork, Terminal, CanTransition, Targets
<1>3. /\ Transition(o, to).type = o.type
      /\ Transition(o, to).cabin = o.cabin
      /\ Transition(o, to).anomaly = o.anomaly
      /\ Transition(o, to).state \in {o.state, to}
      /\ ~CanTransition(o.state, to) => Transition(o, to).state = o.state
  BY TransitionField DEF Transition
<1>. QED
  BY <1>1, <1>2, <1>3 DEF Proceeds

LEMMA MoveProceeds ==
  ASSUME NEW os, NEW cs, NEW iv, WellTyped(os, cs, iv),
         NEW w \in DOMAIN os, NEW to \in States
  PROVE  Proceed(os, Move(os, w, to))
<1>1. /\ DOMAIN Move(os, w, to) = DOMAIN os
      /\ Move(os, w, to)[w] = Transition(os[w], to)
      /\ \A v \in DOMAIN os : v # w => Move(os, w, to)[v] = os[v]
  BY MoveTyped
<1>2. Proceeds(os[w], Transition(os[w], to))
  BY OrderOf, TransitionProceeds
<1>3. \A v \in DOMAIN os : Proceeds(os[v], os[v])
  BY DEF Proceeds
<1>. QED
  BY <1>1, <1>2, <1>3 DEF Proceed

\* One order is replaced by what it became.
LEMMA UpdateProceeds ==
  ASSUME NEW os, NEW w \in DOMAIN os, NEW o, Proceeds(os[w], o)
  PROVE  Proceed(os, Updated(os, w, o))
<1>1. /\ DOMAIN Updated(os, w, o) = DOMAIN os
      /\ Updated(os, w, o)[w] = o
      /\ \A v \in DOMAIN os : v # w => Updated(os, w, o)[v] = os[v]
  BY DEF Updated
<1>2. \A v \in DOMAIN os : Proceeds(os[v], os[v])
  BY DEF Proceeds
<1>. QED
  BY <1>1, <1>2 DEF Proceed

\* A detection marks one order and freezes its cabin.
LEMMA DetectionFacts ==
  ASSUME TypeOK, NEW w \in OrderIds, DetectAnomaly(w)
  PROVE  /\ DOMAIN orders' = DOMAIN orders
         /\ \A v \in DOMAIN orders :
              /\ orders'[v].type = orders[v].type
              /\ orders'[v].cabin = orders[v].cabin
              /\ orders'[v].state = orders[v].state
              /\ v # w => orders'[v] = orders[v]
         /\ orders[w].state = "in_progress"
         /\ orders[w].cabin \in DOMAIN cabins
         /\ cabins' = [cabins EXCEPT ![orders[w].cabin] = Cab!Freeze(@)]
<1>1. orders[w] \in Order /\ w \in DOMAIN orders
  BY OrderOf DEF TypeOK, OrderIds
<1>. QED
  BY <1>1 DEF DetectAnomaly, Order

LEMMA AssignProceeds ==
  ASSUME NEW os, NEW cs, NEW qs, NEW ns, NEW iv, NEW c \in CabinIds,
         WellTyped(os, cs, iv),
         qs \in [CabinIds -> Seq(DOMAIN os)],
         ns \subseteq Observed \X DOMAIN os,
         AssignFromQueue(os, cs, qs, ns, c)
  PROVE  Proceed(os, orders')
<1>1. CASE orders' = os
  BY <1>1, ProceedReflexive
<1>2. ASSUME NEW w, Advanced(os, cs, c, w) PROVE Proceed(os, orders')
  <2>. DEFINE to == IF os[w].type = "inspection" THEN "in_progress" ELSE "executing"
  <2>1. w \in DOMAIN os /\ orders' = Move(os, w, to)
    BY <1>2 DEF Advanced
  <2>2. to \in States
    BY DEF States
  <2>. QED
    BY <2>1, <2>2, MoveProceeds
<1>3. orders' = os \/ \E i \in DOMAIN qs[c] : Advanced(os, cs, c, qs[c][i])
  BY AssignFacts
<1>. QED
  BY <1>1, <1>2, <1>3

\* Every step but a detection lets the orders proceed.
LEMMA StepProceeds ==
  ASSUME TypeOK, [Next]_vars
  PROVE  \/ Proceed(orders, orders')
         \/ \E w \in OrderIds : DetectAnomaly(w)
<1>. USE DEF OrderIds
<1>1. /\ WellTyped(orders, cabins, inv)
      /\ \A w \in OrderIds : orders[w] \in Order
  BY OrderOf DEF TypeOK
<1>2. {"in_progress", "executing", "anomaly_reported", "authorized", "queued",
       "parts_requested", "parts_suspended", "parts_confirmed", "repair_completed",
       "pending_restoration", "pending_recheck", "restoration_approved",
       "escalated", "closed", "cancelled"} \subseteq States
  BY DEF States
<1>3. ASSUME NEW w \in OrderIds, NEW to \in States, orders' = Move(orders, w, to)
      PROVE  Proceed(orders, orders')
  BY <1>1, <1>3, MoveProceeds
<1>4. ASSUME orders' = orders PROVE Proceed(orders, orders')
  BY <1>4, ProceedReflexive
<1>5. ASSUME NEW w \in OrderIds, NEW p \in Order, NEW to \in States,
             Proceeds(orders[w], p),
             \/ orders' = Updated(orders, w, Transition(p, to))
             \/ orders' = Updated(orders, w, p)
      PROVE  Proceed(orders, orders')
  <2>. DEFINE o == Transition(p, to)
  <2>1. Proceeds(p, o)
    BY <1>5, TransitionProceeds
  <2>. HIDE DEF o
  <2>3. Proceeds(orders[w], o)
    BY <1>5, <2>1 DEF Proceeds, IsTerminal
  <2>2. Proceed(orders, Updated(orders, w, o)) /\ Proceed(orders, Updated(orders, w, p))
    BY <1>5, <2>3, UpdateProceeds
  <2>. QED
    BY <1>5, <2>2 DEF o
<1>6. ASSUME NEW w \in OrderIds, PlaceInspection(w) \/ EnterCabin(w)
      PROVE  Proceed(orders, orders')
  BY <1>2, <1>3, <1>6 DEF PlaceInspection, EnterCabin
<1>7. ASSUME NEW w \in OrderIds,
             \/ ReportAnomaly(w) \/ AuthorizeMaintenance(w)
             \/ RejectAuthorization(w) \/ DeadlinePasses(w)
      PROVE  Proceed(orders, orders')
  <2>. DEFINE b == [orders[w] EXCEPT !.anomaly = "reported"]
              c == Timed(orders[w])
              d == [orders[w] EXCEPT !.deadline = "passed"]
  <2>1. /\ b \in Order /\ c \in Order /\ d \in Order
        /\ Proceeds(orders[w], c) /\ Proceeds(orders[w], d)
        /\ orders[w].anomaly # "none" => Proceeds(orders[w], b)
    BY ZenonT(60), <1>1 DEF Order, Timed, Anomalies, Deadlines, Proceeds
  <2>2. \/ /\ orders[w].anomaly # "none"
           /\ orders' = Updated(orders, w, Transition(b, "anomaly_reported"))
        \/ orders' = Updated(orders, w, Transition(c, "authorized"))
        \/ orders' = Updated(orders, w, c)
        \/ orders' = Updated(orders, w, d)
    BY <1>7 DEF ReportAnomaly, AuthorizeMaintenance,
       RejectAuthorization, DeadlinePasses, Updated
  <2>. HIDE DEF b, c, d
  <2>. QED
    BY <1>2, <1>5, <2>1, <2>2
<1>8. ASSUME NEW w \in OrderIds, NEW s \in SKUs, NEW n \in Quantities,
             RequestParts(w, s, n)
      PROVE  Proceed(orders, orders')
  <2>. DEFINE a == [orders[w] EXCEPT !.req = Len(inv.requisitions) + 1]
              b == Transition(a, "parts_requested")
              d == Transition(b, "parts_suspended")
  <2>1. inv.requisitions \in Seq(Inv!Requisition(OrderIds, DOMAIN inv.parts, Quantities))
    BY <1>1 DEF WellTyped, Inv!Typed
  <2>2. a \in Order /\ Proceeds(orders[w], a)
    <3>1. Len(inv.requisitions) + 1 \in Nat
      BY <2>1, LenProperties
    <3>. QED
      BY <1>1, <3>1 DEF Order, Proceeds
  <2>3. orders' = Updated(orders, w, b) \/ orders' = Updated(orders, w, d)
    BY <1>8 DEF RequestParts, Updated
  <2>. HIDE DEF a
  <2>4. b \in Order /\ Proceeds(a, b)
    BY <1>2, <2>2, TransitionField, TransitionProceeds
  <2>. HIDE DEF b
  <2>5. Proceeds(b, d)
    BY <1>2, <2>4, TransitionProceeds
  <2>. HIDE DEF d
  <2>6. Proceeds(orders[w], b) /\ Proceeds(orders[w], d)
    BY <2>2, <2>4, <2>5 DEF Proceeds, IsTerminal
  <2>. QED
    BY <2>3, <2>6, UpdateProceeds
<1>9. ASSUME NEW w \in OrderIds,
             \/ ConfirmParts(w)
             \/ \E s \in SKUs, n \in Quantities : EmergencyProcurement(w, s, n)
             \/ CompleteRepair(w) \/ RequestRestoration(w)
             \/ \E b, g \in BOOLEAN : ApproveRestoration(w, b, g)
             \/ InterruptApproval(w) \/ RecheckComplete(w) \/ EscalateOrder(w)
      PROVE  Proceed(orders, orders')
  <2>1. \/ orders' = orders
        \/ \E to \in {"parts_confirmed", "parts_requested", "repair_completed",
                      "pending_restoration", "pending_recheck",
                      "restoration_approved", "escalated"} : orders' = Move(orders, w, to)
    BY <1>9 DEF ConfirmParts, EmergencyProcurement, CompleteRepair, RequestRestoration,
       ApproveRestoration, InterruptApproval, RecheckComplete, EscalateOrder, Step
  <2>. QED
    BY <1>2, <1>3, <1>4, <2>1
<1>10. ASSUME NEW w \in OrderIds, ResumeFromEscalation(w)
       PROVE  Proceed(orders, orders')
  <2>. DEFINE p == [orders[w] EXCEPT !.deadline = "running"]
  <2>1. p \in Order /\ Proceeds(orders[w], p)
    BY <1>1 DEF Order, Deadlines, Proceeds
  <2>2. \/ orders' = Updated(orders, w, Transition(p, "authorized"))
        \/ orders' = Move(orders, w, "executing")
    BY <1>10 DEF ResumeFromEscalation, Updated
  <2>. HIDE DEF p
  <2>. QED
    BY <1>2, <1>3, <1>5, <2>1, <2>2
<1>11. ASSUME NEW w \in OrderIds, FailPartsRequisition(w)
       PROVE  Proceed(orders, orders')
  <2>. DEFINE c    == orders[w].cabin
              back == Move(orders, w, "queued")
              rel  == Released(cabins, c)
              qs   == [queues EXCEPT ![c] = Enqueue(back, @, w)]
              told == notifs \cup Notified("parts_failure", {w})
  <2>1. /\ c \in CabinIds
        /\ WellTyped(back, rel, inv')
        /\ qs \in [CabinIds -> Seq(DOMAIN back)]
        /\ told \subseteq Observed \X DOMAIN back
        /\ AssignFromQueue(back, rel, qs, told, c)
    BY <1>11, FailPartsHandsOver
  <2>2. Proceed(orders, back)
    BY <1>1, <1>2, MoveProceeds
  <2>. HIDE DEF c, back, rel, qs, told
  <2>3. Proceed(back, orders')
    BY <2>1, AssignProceeds
  <2>. QED
    BY <2>2, <2>3, ProceedTransitive
<1>12. ASSUME NEW w \in OrderIds, CloseOrder(w) \/ CancelOrder(w)
       PROVE  Proceed(orders, orders')
  <2>1. PICK to \in Terminal : Leave(w, to)
    BY <1>12 DEF CloseOrder, CancelOrder, Terminal
  <2>. DEFINE c    == orders[w].cabin
              gone == Move(orders, w, to)
  <2>2. /\ c \in CabinIds
        /\ WellTyped(gone, LeftBy(cabins, w), inv)
        /\ queues \in [CabinIds -> Seq(DOMAIN gone)]
        /\ notifs \subseteq Observed \X DOMAIN gone
        /\ AssignFromQueue(gone, LeftBy(cabins, w), queues, notifs, c)
    BY <2>1, LeaveHandsOver
  <2>3. to \in States
    BY <1>2 DEF Terminal
  <2>4. Proceed(orders, gone)
    BY <1>1, <2>3, MoveProceeds
  <2>. HIDE DEF c, gone
  <2>5. Proceed(gone, orders')
    BY <2>2, AssignProceeds
  <2>. QED
    BY <2>4, <2>5, ProceedTransitive
<1>13. CASE CheckMaintenanceTimeouts
  <2>1. \A w \in OrderIds :
          /\ Proceeds(orders[w], Transition(orders[w], "escalated"))
          /\ Proceeds(orders[w], orders[w])
    BY <1>1, <1>2, TransitionProceeds DEF Proceeds
  <2>. QED
    BY <1>13, <2>1 DEF CheckMaintenanceTimeouts, Proceed
<1>14. ASSUME NEW type \in OrderTypes, NEW c \in CabinIds, NEW p \in Urgencies,
              Create(type, c, p)
       PROVE  Proceed(orders, orders')
  <2>1. /\ OrderIds \subseteq OrderIds'
        /\ \A w \in OrderIds : orders'[w] = orders[w]
        /\ \A w \in OrderIds' \ OrderIds : orders'[w] = NewOrder(type, c, p)
    BY <1>14, CreateStep
  <2>2. NewOrder(type, c, p).anomaly = "none"
    BY DEF NewOrder
  <2>. QED
    BY <2>1, <2>2 DEF Proceed, Proceeds
<1>15. CASE \/ UNCHANGED vars
            \/ CheckAnomalyDeadlines
            \/ \E w \in OrderIds : PlaceMaintenance(w)
            \/ \E c \in CabinIds : RegisterCabin(c)
            \/ \E s \in SKUs, n \in StockLevels : RegisterPart(s, n)
  BY <1>4, <1>15 DEF vars, CheckAnomalyDeadlines, PlaceMaintenance, RegisterCabin,
     RegisterPart
<1>. QED
  BY <1>6, <1>7, <1>8, <1>9, <1>10, <1>11, <1>12, <1>13, <1>14, <1>15
  DEF Next, Persisting, Calls, Place, Checks, Unsaved, Outside, Registrations,
      Creations, Clock

-----------------------------------------------------------------------------
(***************************************************************************)
(* The cabins: their status, and their connection to the grid.             *)
(***************************************************************************)
\* Every status is the one the holder, or the grid connection, calls for.
Agree(os, cs) ==
  /\ CabinsTyped(os, cs)
  /\ \A c \in DOMAIN cs : cs[c].status = StatusOf(os, cs[c])

\* No cabin gets its grid connection back.
NoneReconnects(cs, ds) ==
  /\ DOMAIN cs \subseteq DOMAIN ds
  /\ \A c \in DOMAIN cs : ~cs[c].qualified => ~ds[c].qualified

LEMMA NoneReconnectsTransitive ==
  ASSUME NEW a, NEW b, NEW c, NoneReconnects(a, b), NoneReconnects(b, c)
  PROVE  NoneReconnects(a, c)
BY DEF NoneReconnects

LEMMA NoneReconnectsReflexive == \A a : NoneReconnects(a, a)
BY DEF NoneReconnects

\* Orders keep their types, so cabins agree with them as before.
LEMMA AgreeProceeds ==
  ASSUME NEW os, NEW new, NEW cs, Agree(os, cs), DOMAIN os \subseteq DOMAIN new,
         \A w \in DOMAIN os : new[w].type = os[w].type
  PROVE  Agree(new, cs)
BY DEF Agree, CabinsTyped, StatusOf

\* One cabin is replaced by what an operation made of it.
LEMMA AgreeReplaced ==
  ASSUME NEW os, NEW cs, Agree(os, cs), NEW c \in DOMAIN cs, NEW k \in Cab!Cabins,
         k.active \in {Cab!Nobody} \cup DOMAIN os, k.status = StatusOf(os, k)
  PROVE  /\ Agree(os, [cs EXCEPT ![c] = k])
         /\ (~cs[c].qualified => ~k.qualified) => NoneReconnects(cs, [cs EXCEPT ![c] = k])
<1>. DEFINE ds == [cs EXCEPT ![c] = k]
<1>1. /\ DOMAIN ds = DOMAIN cs
      /\ ds[c] = k
      /\ \A d \in DOMAIN cs : d # c => ds[d] = cs[d]
  OBVIOUS
<1>. HIDE DEF ds
<1>2. Agree(os, ds)
  BY <1>1 DEF Agree, CabinsTyped
<1>3. (~cs[c].qualified => ~k.qualified) => NoneReconnects(cs, ds)
  BY <1>1 DEF NoneReconnects
<1>. QED
  BY <1>2, <1>3 DEF ds

\* What each operation of the manager makes of a cabin whose status is right.
LEMMA StatusOps ==
  ASSUME NEW os, NEW k \in Cab!Cabins, k.status = StatusOf(os, k)
  PROVE  /\ Cab!Release(k).status = StatusOf(os, Cab!Release(k))
         /\ Cab!Release(k).qualified = k.qualified
         /\ Cab!Freeze(k).status = StatusOf(os, Cab!Freeze(k))
         /\ ~Cab!Freeze(k).qualified
         /\ Cab!Thaw(k).status = StatusOf(os, Cab!Thaw(k))
         /\ \A b, g \in BOOLEAN :
              /\ Cab!Recheck(k, b, g).status = StatusOf(os, Cab!Recheck(k, b, g))
              /\ Cab!Recheck(k, b, g).qualified = k.qualified
              /\ Cab!Thaw(Cab!Recheck(k, b, g)).blackStart = b
              /\ Cab!Thaw(Cab!Recheck(k, b, g)).offGrid = g
BY DEF Cab!Cabins, Cab!Statuses, Cab!Nobody, StatusOf, Cab!Release, Cab!Freeze,
   Cab!Thaw, Cab!Recheck

LEMMA StatusAcquired ==
  ASSUME NEW os, NEW k \in Cab!Cabins, NEW w \in Nat \ {0}
  PROVE  LET a == Cab!Acquire(k, w, os[w].type = "inspection")
         IN  a.status = StatusOf(os, a) /\ a.qualified = k.qualified
BY DEF Cab!Cabins, Cab!Nobody, StatusOf, Cab!Acquire

LEMMA AgreeAcquired ==
  ASSUME NEW os, NEW cs, NEW iv, WellTyped(os, cs, iv), Agree(os, cs),
         NEW w \in DOMAIN os, NEW c, Free(cs, c)
  PROVE  /\ Agree(os, Acquired(cs, c, w, os[w].type))
         /\ NoneReconnects(cs, Acquired(cs, c, w, os[w].type))
<1>. DEFINE k == Cab!Acquire(cs[c], w, os[w].type = "inspection")
<1>1. c \in DOMAIN cs /\ cs[c] \in Cab!Cabins /\ w \in Nat \ {0}
  BY OrderOf DEF Free, WellTyped, CabinsTyped
<1>2. k \in Cab!Cabins /\ k.active = w
  BY <1>1, CabinOps
<1>3. k.status = StatusOf(os, k) /\ k.qualified = cs[c].qualified
  BY <1>1, StatusAcquired
<1>4. Acquired(cs, c, w, os[w].type) = [cs EXCEPT ![c] = k]
  BY DEF Acquired
<1>. HIDE DEF k
<1>. QED
  BY <1>1, <1>2, <1>3, <1>4, AgreeReplaced

LEMMA AgreeReleased ==
  ASSUME NEW os, NEW cs, Agree(os, cs), NEW c
  PROVE  Agree(os, Released(cs, c)) /\ NoneReconnects(cs, Released(cs, c))
<1>1. CASE c \in DOMAIN cs
  <2>. DEFINE k == Cab!Release(cs[c])
  <2>1. cs[c] \in Cab!Cabins /\ cs[c].status = StatusOf(os, cs[c])
    BY <1>1 DEF Agree, CabinsTyped
  <2>2. k \in Cab!Cabins /\ k.active = Cab!Nobody
    BY <2>1, CabinOps
  <2>3. k.status = StatusOf(os, k) /\ k.qualified = cs[c].qualified
    BY <2>1, StatusOps
  <2>4. Released(cs, c) = [cs EXCEPT ![c] = k]
    BY <1>1 DEF Released
  <2>5. ~cs[c].qualified => ~k.qualified
    BY <2>3
  <2>. HIDE DEF k
  <2>6. k.active \in {Cab!Nobody} \cup DOMAIN os
    BY <2>2
  <2>7. Agree(os, [cs EXCEPT ![c] = k]) /\ NoneReconnects(cs, [cs EXCEPT ![c] = k])
    BY <1>1, <2>2, <2>3, <2>5, <2>6, AgreeReplaced
  <2>. QED
    BY <2>4, <2>7
<1>2. CASE c \notin DOMAIN cs
  BY <1>2, NoneReconnectsReflexive DEF Released
<1>. QED
  BY <1>1, <1>2

LEMMA AgreeAssigned ==
  ASSUME NEW os, NEW cs, NEW qs, NEW ns, NEW iv, NEW c \in CabinIds,
         WellTyped(os, cs, iv), Agree(os, cs),
         qs \in [CabinIds -> Seq(DOMAIN os)],
         ns \subseteq Observed \X DOMAIN os,
         AssignFromQueue(os, cs, qs, ns, c)
  PROVE  Agree(os, cabins') /\ NoneReconnects(cs, cabins')
<1>1. CASE cabins' = cs
  BY <1>1, NoneReconnectsReflexive
<1>2. ASSUME NEW w, Advanced(os, cs, c, w)
      PROVE  Agree(os, cabins') /\ NoneReconnects(cs, cabins')
  <2>1. /\ w \in DOMAIN os /\ Free(cs, c)
        /\ cabins' = Acquired(cs, c, w, os[w].type)
    BY <1>2 DEF Advanced
  <2>. QED
    BY <2>1, AgreeAcquired
<1>3. cabins' = cs \/ \E i \in DOMAIN qs[c] : Advanced(os, cs, c, qs[c][i])
  BY AssignFacts
<1>. QED
  BY <1>1, <1>2, <1>3

\* An order that asks for its cabin takes it, or leaves the cabins alone.
LEMMA AgreeAsked ==
  ASSUME TypeOK, StatusAgrees, NEW w \in OrderIds, NEW to,
         AskForCabin(w, orders[w].type, to)
  PROVE  Agree(orders, cabins') /\ NoneReconnects(cabins, cabins')
<1>1. WellTyped(orders, cabins, inv) /\ Agree(orders, cabins) /\ w \in DOMAIN orders
  BY DEF TypeOK, WellTyped, Agree, StatusAgrees, OrderIds
<1>2. CASE cabins' = cabins
  BY <1>1, <1>2, NoneReconnectsReflexive
<1>3. CASE /\ Free(cabins, orders[w].cabin)
           /\ cabins' = Acquired(cabins, orders[w].cabin, w, orders[w].type)
  BY <1>1, <1>3, AgreeAcquired
<1>. QED
  BY <1>2, <1>3 DEF AskForCabin

\* One cabin is replaced, and its holder stays.
LEMMA AgreeStep ==
  ASSUME TypeOK, StatusAgrees, NEW c \in DOMAIN cabins, NEW k \in Cab!Cabins,
         cabins' = [cabins EXCEPT ![c] = k],
         k.active = cabins[c].active, k.status = StatusOf(orders, k)
  PROVE  /\ Agree(orders, cabins')
         /\ (~cabins[c].qualified => ~k.qualified) => NoneReconnects(cabins, cabins')
<1>1. Agree(orders, cabins) /\ k.active \in {Cab!Nobody} \cup DOMAIN orders
  BY DEF TypeOK, WellTyped, Agree, StatusAgrees, CabinsTyped
<1>. QED
  BY <1>1, AgreeReplaced

\* A detection takes the cabin off the grid.
LEMMA DetectionFreezes ==
  ASSUME TypeOK, StatusAgrees, NEW w \in OrderIds, DetectAnomaly(w)
  PROVE  /\ Agree(orders, cabins')
         /\ NoneReconnects(cabins, cabins')
         /\ ~cabins'[orders[w].cabin].qualified
<1>. DEFINE c == orders[w].cabin
            k == Cab!Freeze(cabins[c])
<1>1. c \in DOMAIN cabins /\ cabins' = [cabins EXCEPT ![c] = k]
  BY DetectionFacts
<1>2. cabins[c] \in Cab!Cabins /\ cabins[c].status = StatusOf(orders, cabins[c])
  BY <1>1 DEF TypeOK, WellTyped, CabinsTyped, StatusAgrees
<1>3. /\ k \in Cab!Cabins /\ k.active = cabins[c].active
      /\ k.status = StatusOf(orders, k) /\ ~k.qualified
  BY <1>2, CabinOps, StatusOps
<1>4. cabins'[c] = k
  BY <1>1
<1>. HIDE DEF k, c
<1>5. Agree(orders, cabins') /\ NoneReconnects(cabins, cabins')
  BY <1>1, <1>3, AgreeStep
<1>. QED
  BY <1>3, <1>4, <1>5 DEF c

\* What an approval makes of the cabin.
LEMMA ApprovalFacts ==
  ASSUME TypeOK, StatusAgrees, NEW w \in OrderIds, NEW b \in BOOLEAN, NEW g \in BOOLEAN,
         ApproveRestoration(w, b, g)
  PROVE  LET c == orders[w].cabin
         IN  /\ Agree(orders, cabins')
             /\ c \in DOMAIN cabins
             /\ DOMAIN cabins' = DOMAIN cabins
             /\ \A d \in DOMAIN cabins : d # c => cabins'[d] = cabins[d]
             /\ cabins'[c].active = cabins[c].active
             /\ \/ NoneReconnects(cabins, cabins')
                \/ /\ b /\ g
                   /\ cabins'[c].blackStart /\ cabins'[c].offGrid
<1>. DEFINE c == orders[w].cabin
            k == Cab!Recheck(cabins[c], b, g)
            t == Cab!Thaw(k)
<1>1. /\ c \in DOMAIN cabins
      /\ cabins[c] \in Cab!Cabins
      /\ cabins[c].status = StatusOf(orders, cabins[c])
  BY DEF ApproveRestoration, TypeOK, WellTyped, CabinsTyped, StatusAgrees
<1>2. /\ k \in Cab!Cabins /\ k.active = cabins[c].active
      /\ k.status = StatusOf(orders, k) /\ k.qualified = cabins[c].qualified
      /\ t.blackStart = b /\ t.offGrid = g
  BY <1>1, CabinOps, StatusOps
<1>3. /\ t \in Cab!Cabins /\ t.active = cabins[c].active
      /\ t.status = StatusOf(orders, t)
  <2>. HIDE DEF k
  <2>. QED
    BY <1>2, CabinOps, StatusOps
<1>4. \/ cabins' = [cabins EXCEPT ![c] = k]
      \/ b /\ g /\ cabins' = [cabins EXCEPT ![c] = t]
  BY <1>1 DEF ApproveRestoration
<1>. HIDE DEF c, k, t
<1>5. CASE cabins' = [cabins EXCEPT ![c] = k]
  <2>1. Agree(orders, cabins') /\ NoneReconnects(cabins, cabins')
    BY <1>1, <1>2, <1>5, AgreeStep
  <2>. QED
    BY <1>1, <1>2, <1>5, <2>1 DEF c
<1>6. CASE b /\ g /\ cabins' = [cabins EXCEPT ![c] = t]
  <2>1. Agree(orders, cabins')
    BY <1>1, <1>3, <1>6, AgreeStep
  <2>. QED
    BY <1>1, <1>2, <1>3, <1>6, <2>1 DEF c
<1>. QED
  BY <1>4, <1>5, <1>6

(***************************************************************************)
(* Every step keeps the cabins in agreement with the orders as they were,  *)
(* and only an approval gives a cabin its grid connection back.            *)
(***************************************************************************)
LEMMA CabinsStep ==
  ASSUME TypeOK, StatusAgrees, [Next]_vars
  PROVE  /\ StatusAgrees'
         /\ \/ NoneReconnects(cabins, cabins')
            \/ \E w \in OrderIds : ApproveRestoration(w, TRUE, TRUE)
<1>. DEFINE Kept == Agree(orders, cabins') /\ NoneReconnects(cabins, cabins')
<1>1. WellTyped(orders, cabins, inv) /\ Agree(orders, cabins)
  BY DEF TypeOK, WellTyped, Agree, StatusAgrees
<1>2. /\ DOMAIN orders \subseteq DOMAIN orders'
      /\ \A w \in DOMAIN orders : orders'[w].type = orders[w].type
  BY StepProceeds, DetectionFacts DEF Proceed, Proceeds
<1>3. Agree(orders, cabins') => StatusAgrees'
  <2>1. Agree(orders, cabins') => Agree(orders', cabins')
    BY <1>2, AgreeProceeds
  <2>. QED
    BY <2>1 DEF Agree, StatusAgrees
<1>4. ASSUME UNCHANGED cabins PROVE Kept
  BY <1>1, <1>4, NoneReconnectsReflexive
<1>5. ASSUME NEW w \in OrderIds, PlaceInspection(w) \/ EnterCabin(w) PROVE Kept
  <2>1. \E to : AskForCabin(w, orders[w].type, to)
    BY <1>5, PlaceInspectionAsks, EnterCabinAsks DEF PlaceInspection, EnterCabin
  <2>. QED
    BY <2>1, AgreeAsked
<1>6. ASSUME NEW w \in OrderIds, DetectAnomaly(w) PROVE Kept
  BY <1>6, DetectionFreezes
<1>7. ASSUME NEW w \in OrderIds, NEW b \in BOOLEAN, NEW g \in BOOLEAN,
             ApproveRestoration(w, b, g)
      PROVE  Kept \/ (Agree(orders, cabins') /\ ApproveRestoration(w, TRUE, TRUE))
  <2>1. Agree(orders, cabins') /\ (NoneReconnects(cabins, cabins') \/ (b /\ g))
    BY <1>7, ApprovalFacts
  <2>2. b /\ g => b = TRUE /\ g = TRUE
    OBVIOUS
  <2>. QED
    BY <1>7, <2>1, <2>2
<1>8. ASSUME NEW w \in OrderIds, FailPartsRequisition(w)
      PROVE  StatusAgrees' /\ NoneReconnects(cabins, cabins')
  <2>. DEFINE c    == orders[w].cabin
              back == Move(orders, w, "queued")
              rel  == Released(cabins, c)
              qs   == [queues EXCEPT ![c] = Enqueue(back, @, w)]
              told == notifs \cup Notified("parts_failure", {w})
  <2>1. /\ c \in CabinIds
        /\ WellTyped(back, rel, inv')
        /\ qs \in [CabinIds -> Seq(DOMAIN back)]
        /\ told \subseteq Observed \X DOMAIN back
        /\ AssignFromQueue(back, rel, qs, told, c)
    BY <1>8, FailPartsHandsOver
  <2>2. Proceed(orders, back)
    BY <1>1, MoveProceeds DEF States, OrderIds
  <2>3. Agree(orders, rel) /\ NoneReconnects(cabins, rel)
    BY <1>1, AgreeReleased
  <2>. HIDE DEF c, back, rel, qs, told
  <2>4. Agree(back, rel)
    BY <2>2, <2>3, AgreeProceeds DEF Proceed, Proceeds
  <2>5. Agree(back, cabins') /\ NoneReconnects(rel, cabins') /\ Proceed(back, orders')
    BY <2>1, <2>4, AgreeAssigned, AssignProceeds
  <2>6. Agree(orders', cabins')
    BY <2>5, AgreeProceeds DEF Proceed, Proceeds
  <2>. QED
    BY <2>3, <2>5, <2>6, NoneReconnectsTransitive DEF Agree, StatusAgrees
<1>9. ASSUME NEW w \in OrderIds, CloseOrder(w) \/ CancelOrder(w)
      PROVE  StatusAgrees' /\ NoneReconnects(cabins, cabins')
  <2>1. PICK to \in Terminal : Leave(w, to)
    BY <1>9 DEF CloseOrder, CancelOrder, Terminal
  <2>. DEFINE c    == orders[w].cabin
              gone == Move(orders, w, to)
              left == LeftBy(cabins, w)
  <2>2. /\ c \in CabinIds
        /\ WellTyped(gone, left, inv)
        /\ queues \in [CabinIds -> Seq(DOMAIN gone)]
        /\ notifs \subseteq Observed \X DOMAIN gone
        /\ AssignFromQueue(gone, left, queues, notifs, c)
    BY <2>1, LeaveHandsOver
  <2>3. Proceed(orders, gone)
    BY <1>1, <2>1, MoveProceeds DEF States, Terminal, OrderIds
  <2>4. Agree(orders, left) /\ NoneReconnects(cabins, left)
    BY <1>1, AgreeReleased, NoneReconnectsReflexive DEF LeftBy
  <2>. HIDE DEF c, gone, left
  <2>5. Agree(gone, left)
    BY <2>3, <2>4, AgreeProceeds DEF Proceed, Proceeds
  <2>6. Agree(gone, cabins') /\ NoneReconnects(left, cabins') /\ Proceed(gone, orders')
    BY <2>2, <2>5, AgreeAssigned, AssignProceeds
  <2>7. Agree(orders', cabins')
    BY <2>6, AgreeProceeds DEF Proceed, Proceeds
  <2>. QED
    BY <2>4, <2>6, <2>7, NoneReconnectsTransitive DEF Agree, StatusAgrees
<1>10. ASSUME NEW c \in CabinIds, RegisterCabin(c) PROVE Kept
  <2>1. /\ DOMAIN cabins' = DOMAIN cabins \cup {c}
        /\ c \notin DOMAIN cabins
        /\ cabins'[c] = Cab!NewCabin
        /\ \A d \in DOMAIN cabins : cabins'[d] = cabins[d]
    BY <1>10 DEF RegisterCabin
  <2>2. /\ Cab!NewCabin \in Cab!Cabins /\ Cab!NewCabin.active = Cab!Nobody
        /\ Cab!NewCabin.status = StatusOf(orders, Cab!NewCabin)
    BY DEF Cab!NewCabin, Cab!Cabins, Cab!Statuses, Cab!Nobody, StatusOf
  <2>3. Agree(orders, cabins')
    BY <1>1, <2>1, <2>2 DEF Agree, CabinsTyped
  <2>4. NoneReconnects(cabins, cabins')
    BY <2>1 DEF NoneReconnects
  <2>. QED
    BY <2>3, <2>4
<1>11. ASSUME NEW w \in OrderIds,
              \/ ReportAnomaly(w) \/ AuthorizeMaintenance(w) \/ RejectAuthorization(w)
              \/ (\E s \in SKUs, n \in Quantities :
                    RequestParts(w, s, n) \/ EmergencyProcurement(w, s, n))
              \/ ConfirmParts(w) \/ CompleteRepair(w) \/ RequestRestoration(w)
              \/ InterruptApproval(w) \/ RecheckComplete(w) \/ EscalateOrder(w)
              \/ ResumeFromEscalation(w) \/ DeadlinePasses(w) \/ PlaceMaintenance(w)
       PROVE  Kept
  <2>1. UNCHANGED cabins
    BY <1>11 DEF ReportAnomaly, AuthorizeMaintenance, RejectAuthorization, RequestParts,
       EmergencyProcurement, ConfirmParts, CompleteRepair, RequestRestoration,
       InterruptApproval, RecheckComplete, Step, EscalateOrder, ResumeFromEscalation,
       DeadlinePasses, PlaceMaintenance
  <2>. QED
    BY <1>4, <2>1
<1>12. CASE \/ UNCHANGED vars \/ Checks \/ Creations
            \/ \E s \in SKUs, n \in StockLevels : RegisterPart(s, n)
  <2>1. UNCHANGED cabins
    BY <1>12 DEF vars, Checks, CheckAnomalyDeadlines, CheckMaintenanceTimeouts,
       RegisterPart, Creations, Create
  <2>. QED
    BY <1>3, <1>4, <2>1
<1>. HIDE DEF Kept
<1>13. Kept => StatusAgrees' /\ NoneReconnects(cabins, cabins')
  BY <1>3 DEF Kept
<1>. QED
  BY <1>3, <1>5, <1>6, <1>7, <1>8, <1>9, <1>10, <1>11, <1>12, <1>13
  DEF Next, Persisting, Calls, Place, Unsaved, Outside, Registrations, Clock

(***************************************************************************)
(* The status of a cabin says what is going on in it, whether orders name  *)
(* registered cabins or not.                                               *)
(***************************************************************************)
THEOREM StatusIsRight == Spec => []StatusAgrees
<1>1. Init => TypeOK /\ StatusAgrees
  BY TypeInit DEF Init, StatusAgrees
<1>2. (TypeOK /\ StatusAgrees) /\ [Next]_vars => (TypeOK /\ StatusAgrees)'
  BY TypeStep, CabinsStep
<1>. QED
  BY <1>1, <1>2, PTL DEF Spec

(***************************************************************************)
(* A cabin gets its grid connection back only from the maintenance order   *)
(* that holds it, when its approval passes both rechecks.                  *)
(***************************************************************************)
THEOREM Reconnection ==
  ASSUME ~StrayCabins PROVE Spec => ReconnectOnlyByApproval
<1>1. ASSUME TypeOK, LockInv, StatusAgrees, [Next]_vars,
             NEW c \in DOMAIN cabins, ~cabins[c].qualified, cabins'[c].qualified
      PROVE  /\ cabins'[c].blackStart /\ cabins'[c].offGrid
             /\ \E w \in OrderIds :
                  /\ cabins[c].active = w /\ cabins'[c].active = w
                  /\ orders'[w].state = "restoration_approved"
  <2>1. ~NoneReconnects(cabins, cabins')
    BY <1>1 DEF NoneReconnects
  <2>2. PICK w \in OrderIds : ApproveRestoration(w, TRUE, TRUE)
    BY <1>1, <2>1, CabinsStep
  <2>3. /\ \A d \in DOMAIN cabins : d # orders[w].cabin => cabins'[d] = cabins[d]
        /\ cabins'[orders[w].cabin].active = cabins[orders[w].cabin].active
        /\ cabins'[orders[w].cabin].blackStart /\ cabins'[orders[w].cabin].offGrid
    BY <1>1, <2>1, <2>2, ApprovalFacts
  <2>4. c = orders[w].cabin
    BY <1>1, <2>3
  <2>5. /\ orders[w].state = "pending_restoration"
        /\ orders' = Move(orders, w, "restoration_approved")
    BY <2>2 DEF ApproveRestoration
  <2>6. cabins[c].active = w
    BY <1>1, <2>4, <2>5, WorkingStates DEF LockInv, Lock, Held, HoldsItsCabin, OrderIds
  <2>7. orders'[w].state = "restoration_approved"
    <3>1. orders[w] \in Order /\ WellTyped(orders, cabins, inv) /\ w \in DOMAIN orders
      BY <1>1, OrderOf DEF TypeOK, OrderIds
    <3>2. orders'[w] = Transition(orders[w], "restoration_approved")
      BY <2>5, <3>1, MoveTyped, WorkingStates
    <3>3. CanTransition(orders[w].state, "restoration_approved")
      BY <2>5 DEF CanTransition, Targets
    <3>. QED
      BY <3>1, <3>2, <3>3 DEF Transition, Order
  <2>. QED
    BY <2>3, <2>4, <2>6, <2>7
<1>2. TypeOK /\ LockInv /\ StatusAgrees /\ [Next]_vars =>
        [\A c \in DOMAIN cabins :
           ~cabins[c].qualified /\ cabins'[c].qualified =>
             /\ cabins'[c].blackStart /\ cabins'[c].offGrid
             /\ \E w \in OrderIds :
                  /\ cabins[c].active = w /\ cabins'[c].active = w
                  /\ orders'[w].state = "restoration_approved"]_vars
  BY <1>1
<1>. QED
  BY <1>2, LockKept, StatusIsRight, PTL DEF Spec, ReconnectOnlyByApproval

(***************************************************************************)
(* An anomaly is found by an inspection, and an inspection that goes on    *)
(* after it keeps its cabin off the grid.                                  *)
(***************************************************************************)
FrozenInv ==
  \A w \in OrderIds :
    orders[w].anomaly # "none" =>
      /\ orders[w].state \in InspectionWork \cup Terminal
      /\ orders[w].state \in InspectionWork => ~cabins[orders[w].cabin].qualified

LEMMA FrozenStep ==
  ASSUME ~StrayCabins, TypeOK, LockInv, StatusAgrees, FrozenInv, [Next]_vars
  PROVE  FrozenInv'
<1>1. /\ \A w \in OrderIds : orders[w].cabin \in DOMAIN cabins
      /\ \A w \in OrderIds : orders[w].state \in Working =>
           cabins[orders[w].cabin].active = w
  BY DEF LockInv, Lock, Known, Held, HoldsItsCabin, OrderIds
<1>2. CASE Proceed(orders, orders')
  <2>. SUFFICES ASSUME NEW w \in OrderIds', orders'[w].anomaly # "none"
                PROVE  /\ orders'[w].state \in InspectionWork \cup Terminal
                       /\ orders'[w].state \in InspectionWork =>
                            ~cabins'[orders'[w].cabin].qualified
    BY DEF FrozenInv
  <2>1. w \in OrderIds /\ Proceeds(orders[w], orders'[w])
    BY <1>2 DEF Proceed, OrderIds
  <2>2. orders[w].anomaly # "none"
    BY <2>1 DEF Proceeds
  <2>3. orders'[w].state \in InspectionWork \cup Terminal
    BY <2>1, <2>2 DEF FrozenInv, Proceeds, IsTerminal
  <2>4. ASSUME orders'[w].state \in InspectionWork
        PROVE  ~cabins'[orders'[w].cabin].qualified
    <3>1. orders[w].state \in InspectionWork
      BY <2>1, <2>2, <2>4 DEF FrozenInv, Proceeds, IsTerminal, InspectionWork, Terminal
    <3>2. /\ orders'[w].cabin = orders[w].cabin
          /\ orders[w].cabin \in DOMAIN cabins
          /\ ~cabins[orders[w].cabin].qualified
      BY <1>1, <2>1, <2>2, <3>1 DEF FrozenInv, Proceeds
    <3>3. CASE NoneReconnects(cabins, cabins')
      BY <3>2, <3>3 DEF NoneReconnects
    <3>4. ASSUME NEW v \in OrderIds, ApproveRestoration(v, TRUE, TRUE)
          PROVE  cabins'[orders[w].cabin] = cabins[orders[w].cabin]
      <4>1. orders[v].state = "pending_restoration"
        BY <3>4 DEF ApproveRestoration
      <4>2. v # w /\ orders[v].state \in Working /\ orders[w].state \in Working
        BY <3>1, <4>1 DEF Working, InspectionWork, MaintenanceWork
      <4>3. /\ cabins[orders[v].cabin].active = v
            /\ cabins[orders[w].cabin].active = w
        BY <1>1, <2>1, <4>2
      <4>. QED
        BY <3>2, <3>4, <4>2, <4>3, ApprovalFacts
    <3>. QED
      BY <3>2, <3>3, <3>4, CabinsStep
  <2>. QED
    BY <2>3, <2>4
<1>3. ASSUME NEW w \in OrderIds, DetectAnomaly(w) PROVE FrozenInv'
  <2>1. /\ OrderIds' = OrderIds
        /\ \A v \in OrderIds :
             /\ orders'[v].cabin = orders[v].cabin
             /\ orders'[v].state = orders[v].state
             /\ v # w => orders'[v] = orders[v]
        /\ orders[w].state \in InspectionWork
    BY <1>3, DetectionFacts DEF OrderIds, InspectionWork
  <2>2. /\ NoneReconnects(cabins, cabins')
        /\ ~cabins'[orders[w].cabin].qualified
    BY <1>3, DetectionFreezes
  <2>. QED
    BY <1>1, <2>1, <2>2 DEF FrozenInv, NoneReconnects
<1>. QED
  BY <1>2, <1>3, StepProceeds

(***************************************************************************)
(* While an anomaly is open, its cabin stays off the grid: nobody else can *)
(* reconnect it, and the order itself cannot be approved.                  *)
(***************************************************************************)
THEOREM FrozenCabin ==
  ASSUME ~StrayCabins PROVE Spec => []FrozenWhileAnomalyOpen
<1>1. Init => FrozenInv
  BY DEF Init, FrozenInv, OrderIds
<1>2. TypeOK /\ LockInv /\ StatusAgrees /\ FrozenInv /\ [Next]_vars => FrozenInv'
  BY FrozenStep
<1>3. FrozenInv => FrozenWhileAnomalyOpen
  BY DEF FrozenInv, FrozenWhileAnomalyOpen
<1>. QED
  BY <1>1, <1>2, <1>3, LockKept, StatusIsRight, PTL DEF Spec

-----------------------------------------------------------------------------
(***************************************************************************)
(* What becomes of an order.                                               *)
(***************************************************************************)
\* The states of maintenance orders only.
Repairing == {"authorized", "escalated"} \cup MaintenanceWork

(***************************************************************************)
(* All that a step but ConfirmParts and RequestParts may do to an order.   *)
(***************************************************************************)
Becomes(o, n) ==
  /\ n.type = o.type
  /\ n.req = o.req
  /\ n.type = "inspection" /\ n.state \in Repairing => o.state \in Repairing
  /\ n.state \in AfterParts => o.state \in AfterParts

Become(os, new) ==
  /\ DOMAIN new = DOMAIN os
  /\ \A w \in DOMAIN os : Becomes(os[w], new[w])

LEMMA BecomeReflexive == \A os : Become(os, os)
BY DEF Become, Becomes

LEMMA BecomeTransitive ==
  ASSUME NEW a, NEW b, NEW c, Become(a, b), Become(b, c)
  PROVE  Become(a, c)
BY DEF Become, Becomes

\* The edges an order may be moved along.
Allowed(o, to) ==
  /\ o.type = "inspection" /\ to \in Repairing => o.state \in Repairing
  /\ to \in AfterParts => o.state \in AfterParts

LEMMA TransitionBecomes ==
  ASSUME NEW o \in Order, NEW to \in States, Allowed(o, to)
  PROVE  Becomes(o, Transition(o, to))
<1>1. /\ Transition(o, to).state \in {o.state, to}
      /\ Transition(o, to).type = o.type
      /\ Transition(o, to).req = o.req
  BY TransitionField
<1>. QED
  BY <1>1 DEF Becomes, Allowed

LEMMA MoveBecomes ==
  ASSUME NEW os, NEW cs, NEW iv, WellTyped(os, cs, iv),
         NEW w \in DOMAIN os, NEW to \in States, Allowed(os[w], to)
  PROVE  Become(os, Move(os, w, to))
<1>1. /\ DOMAIN Move(os, w, to) = DOMAIN os
      /\ Move(os, w, to)[w] = Transition(os[w], to)
      /\ \A v \in DOMAIN os : v # w => Move(os, w, to)[v] = os[v]
  BY MoveTyped
<1>2. Becomes(os[w], Transition(os[w], to))
  BY OrderOf, TransitionBecomes
<1>3. \A v \in DOMAIN os : Becomes(os[v], os[v])
  BY DEF Becomes
<1>. QED
  BY <1>1, <1>2, <1>3 DEF Become

LEMMA UpdateBecomes ==
  ASSUME NEW os, NEW w \in DOMAIN os, NEW o, Becomes(os[w], o)
  PROVE  Become(os, Updated(os, w, o))
<1>1. /\ DOMAIN Updated(os, w, o) = DOMAIN os
      /\ Updated(os, w, o)[w] = o
      /\ \A v \in DOMAIN os : v # w => Updated(os, w, o)[v] = os[v]
  BY DEF Updated
<1>2. \A v \in DOMAIN os : Becomes(os[v], os[v])
  BY DEF Becomes
<1>. QED
  BY <1>1, <1>2 DEF Become

\* What advances from a queue was queued.
LEMMA AssignBecomes ==
  ASSUME NEW os, NEW cs, NEW qs, NEW ns, NEW iv, NEW c \in CabinIds,
         WellTyped(os, cs, iv),
         qs \in [CabinIds -> Seq(DOMAIN os)],
         ns \subseteq Observed \X DOMAIN os,
         AssignFromQueue(os, cs, qs, ns, c)
  PROVE  Become(os, orders')
<1>1. CASE orders' = os
  BY <1>1, BecomeReflexive
<1>2. ASSUME NEW w, Advanced(os, cs, c, w) PROVE Become(os, orders')
  <2>. DEFINE to == IF os[w].type = "inspection" THEN "in_progress" ELSE "executing"
  <2>1. w \in DOMAIN os /\ orders' = Move(os, w, to) /\ os[w].state = "queued"
    BY <1>2 DEF Advanced, Waiting
  <2>2. to \in States /\ Allowed(os[w], to)
    BY <2>1 DEF States, Allowed, Repairing, MaintenanceWork, AfterParts
  <2>. QED
    BY <2>1, <2>2, MoveBecomes
<1>3. orders' = os \/ \E i \in DOMAIN qs[c] : Advanced(os, cs, c, qs[c][i])
  BY AssignFacts
<1>. QED
  BY <1>1, <1>2, <1>3

-----------------------------------------------------------------------------
(***************************************************************************)
(* Every step but the two, and a creation, which adds an order.            *)
(***************************************************************************)
LEMMA StepBecomes ==
  ASSUME TypeOK, [Next]_vars
  PROVE  \/ Become(orders, orders')
         \/ \E type \in OrderTypes, c \in CabinIds, p \in Urgencies : Create(type, c, p)
         \/ \E w \in OrderIds : ConfirmParts(w)
         \/ \E w \in OrderIds, s \in SKUs, n \in Quantities : RequestParts(w, s, n)
<1>. USE DEF OrderIds
<1>1. /\ WellTyped(orders, cabins, inv)
      /\ \A w \in OrderIds : orders[w] \in Order
  BY OrderOf DEF TypeOK
<1>2. {"in_progress", "executing", "anomaly_reported", "authorized", "queued",
       "parts_requested", "repair_completed", "pending_restoration",
       "pending_recheck", "restoration_approved", "escalated", "closed",
       "cancelled"} \subseteq States
  BY DEF States
<1>3. ASSUME NEW w \in OrderIds, NEW to \in States, Allowed(orders[w], to),
             orders' = Move(orders, w, to)
      PROVE  Become(orders, orders')
  BY <1>1, <1>3, MoveBecomes
<1>4. ASSUME orders' = orders PROVE Become(orders, orders')
  BY <1>4, BecomeReflexive
<1>5. ASSUME NEW w \in OrderIds, NEW p \in Order, NEW to \in States, Allowed(p, to),
             Becomes(orders[w], p), p.state = orders[w].state,
             \/ orders' = Updated(orders, w, Transition(p, to))
             \/ orders' = Updated(orders, w, p)
      PROVE  Become(orders, orders')
  <2>. DEFINE o == Transition(p, to)
  <2>1. Becomes(p, o) /\ o \in Order
    BY <1>5, TransitionBecomes, TransitionField
  <2>. HIDE DEF o
  <2>2. Becomes(orders[w], o)
    BY <1>5, <2>1 DEF Becomes
  <2>3. Become(orders, Updated(orders, w, o)) /\ Become(orders, Updated(orders, w, p))
    BY <1>5, <2>2, UpdateBecomes
  <2>. QED
    BY <1>5, <2>3 DEF o
<1>6. ASSUME NEW w \in OrderIds, PlaceInspection(w) \/ EnterCabin(w)
      PROVE  Become(orders, orders')
  <2>1. PICK to \in {"in_progress", "executing", "queued"} :
          orders' = Move(orders, w, to) /\ Allowed(orders[w], to)
    BY <1>6 DEF PlaceInspection, EnterCabin, Allowed, Repairing, MaintenanceWork, AfterParts
  <2>. QED
    BY <1>2, <1>3, <2>1
<1>7. ASSUME NEW w \in OrderIds,
             \/ DetectAnomaly(w) \/ ReportAnomaly(w) \/ AuthorizeMaintenance(w)
             \/ RejectAuthorization(w) \/ DeadlinePasses(w)
      PROVE  Become(orders, orders')
  <2>. DEFINE a == [orders[w] EXCEPT !.anomaly = "detected", !.deadline = "running"]
              b == [orders[w] EXCEPT !.anomaly = "reported"]
              c == Timed(orders[w])
              d == [orders[w] EXCEPT !.deadline = "passed"]
  <2>1. \A p \in {a, b, c, d} :
          /\ p \in Order
          /\ p.type = orders[w].type /\ p.state = orders[w].state /\ p.req = orders[w].req
    BY ZenonT(60), <1>1 DEF Order, Timed, Anomalies, Deadlines
  <2>2. \/ orders' \in {Updated(orders, w, a), Updated(orders, w, c), Updated(orders, w, d)}
        \/ orders' = Updated(orders, w, Transition(b, "anomaly_reported"))
        \/ /\ orders[w].type = "maintenance"
           /\ orders' = Updated(orders, w, Transition(c, "authorized"))
    BY <1>7 DEF DetectAnomaly, ReportAnomaly, AuthorizeMaintenance,
       RejectAuthorization, DeadlinePasses, Updated
  <2>. HIDE DEF a, b, c, d
  <2>3. \A p \in {a, b, c, d} :
          /\ Becomes(orders[w], p)
          /\ p.state = orders[w].state
          /\ Allowed(p, "anomaly_reported")
    BY <2>1 DEF Becomes, Allowed, Repairing, MaintenanceWork, AfterParts
  <2>4. orders[w].type = "maintenance" => Allowed(c, "authorized")
    BY <2>1 DEF Allowed, AfterParts
  <2>5. \E p \in {a, b, c, d}, to \in {"anomaly_reported", "authorized"} :
          /\ Allowed(p, to)
          /\ \/ orders' = Updated(orders, w, Transition(p, to))
             \/ orders' = Updated(orders, w, p)
    BY <2>2, <2>3, <2>4
  <2>. QED
    BY <1>2, <1>5, <2>1, <2>3, <2>5
<1>8. ASSUME NEW w \in OrderIds,
             \/ \E s \in SKUs, n \in Quantities : EmergencyProcurement(w, s, n)
             \/ CompleteRepair(w) \/ RequestRestoration(w)
             \/ \E b, g \in BOOLEAN : ApproveRestoration(w, b, g)
             \/ InterruptApproval(w) \/ RecheckComplete(w) \/ EscalateOrder(w)
      PROVE  Become(orders, orders')
  <2>1. \/ orders' = orders
        \/ \E to \in {"parts_requested", "repair_completed", "pending_restoration",
                      "pending_recheck", "restoration_approved", "escalated"} :
             orders' = Move(orders, w, to) /\ Allowed(orders[w], to)
    BY <1>8 DEF EmergencyProcurement, CompleteRepair, RequestRestoration,
       ApproveRestoration, InterruptApproval, RecheckComplete, EscalateOrder, Step,
       Allowed, Repairing, MaintenanceWork, AfterParts
  <2>. QED
    BY <1>2, <1>3, <1>4, <2>1
<1>9. ASSUME NEW w \in OrderIds, ResumeFromEscalation(w)
      PROVE  Become(orders, orders')
  <2>. DEFINE p == [orders[w] EXCEPT !.deadline = "running"]
  <2>1. /\ p \in Order
        /\ p.type = orders[w].type /\ p.state = orders[w].state
        /\ p.req = orders[w].req /\ orders[w].state = "escalated"
    BY <1>1, <1>9 DEF Order, Deadlines, ResumeFromEscalation
  <2>2. \/ orders' = Updated(orders, w, Transition(p, "authorized"))
        \/ orders' = Move(orders, w, "executing")
    BY <1>9 DEF ResumeFromEscalation, Updated
  <2>. HIDE DEF p
  <2>3. /\ Becomes(orders[w], p) /\ Allowed(p, "authorized")
        /\ Allowed(orders[w], "executing")
    BY <2>1 DEF Becomes, Allowed, Repairing, MaintenanceWork, AfterParts
  <2>. QED
    BY <1>2, <1>3, <1>5, <2>1, <2>2, <2>3
<1>10. ASSUME NEW w \in OrderIds, FailPartsRequisition(w)
       PROVE  Become(orders, orders')
  <2>. DEFINE c    == orders[w].cabin
              back == Move(orders, w, "queued")
              rel  == Released(cabins, c)
              qs   == [queues EXCEPT ![c] = Enqueue(back, @, w)]
              told == notifs \cup Notified("parts_failure", {w})
  <2>1. /\ c \in CabinIds
        /\ WellTyped(back, rel, inv')
        /\ qs \in [CabinIds -> Seq(DOMAIN back)]
        /\ told \subseteq Observed \X DOMAIN back
        /\ AssignFromQueue(back, rel, qs, told, c)
    BY <1>10, FailPartsHandsOver
  <2>2. Allowed(orders[w], "queued")
    BY <1>10 DEF FailPartsRequisition, Allowed, Repairing, MaintenanceWork, AfterParts
  <2>3. Become(orders, back)
    BY <1>1, <1>2, <2>2, MoveBecomes
  <2>. HIDE DEF c, back, rel, qs, told
  <2>4. Become(back, orders')
    BY <2>1, AssignBecomes
  <2>. QED
    BY <2>3, <2>4, BecomeTransitive
<1>11. ASSUME NEW w \in OrderIds, CloseOrder(w) \/ CancelOrder(w)
       PROVE  Become(orders, orders')
  <2>1. PICK to \in Terminal : Leave(w, to)
    BY <1>11 DEF CloseOrder, CancelOrder, Terminal
  <2>. DEFINE c    == orders[w].cabin
              gone == Move(orders, w, to)
  <2>2. /\ c \in CabinIds
        /\ WellTyped(gone, LeftBy(cabins, w), inv)
        /\ queues \in [CabinIds -> Seq(DOMAIN gone)]
        /\ notifs \subseteq Observed \X DOMAIN gone
        /\ AssignFromQueue(gone, LeftBy(cabins, w), queues, notifs, c)
    BY <2>1, LeaveHandsOver
  <2>3. to \in States /\ Allowed(orders[w], to)
    BY <1>2 DEF Terminal, Allowed, Repairing, MaintenanceWork, AfterParts
  <2>4. Become(orders, gone)
    BY <1>1, <2>3, MoveBecomes
  <2>. HIDE DEF c, gone
  <2>5. Become(gone, orders')
    BY <2>2, AssignBecomes
  <2>. QED
    BY <2>4, <2>5, BecomeTransitive
<1>12. CASE CheckMaintenanceTimeouts
  <2>1. ASSUME NEW w \in OverdueResponses
        PROVE  Becomes(orders[w], Transition(orders[w], "escalated"))
    <3>1. Allowed(orders[w], "escalated")
      BY DEF OverdueResponses, Allowed, Repairing, AfterParts
    <3>. QED
      BY <1>1, <1>2, <3>1, TransitionBecomes DEF OverdueResponses
  <2>2. \A w \in OrderIds : Becomes(orders[w], orders[w])
    BY DEF Becomes
  <2>. QED
    BY <1>12, <2>1, <2>2 DEF CheckMaintenanceTimeouts, Become
<1>13. CASE \/ UNCHANGED vars
            \/ CheckAnomalyDeadlines
            \/ \E w \in OrderIds : PlaceMaintenance(w)
            \/ \E c \in CabinIds : RegisterCabin(c)
            \/ \E s \in SKUs, n \in StockLevels : RegisterPart(s, n)
  BY <1>4, <1>13 DEF vars, CheckAnomalyDeadlines, PlaceMaintenance, RegisterCabin,
     RegisterPart
<1>. QED
  BY <1>6, <1>7, <1>8, <1>9, <1>10, <1>11, <1>12, <1>13
  DEF Next, Persisting, Calls, Place, Checks, Unsaved, Outside, Registrations,
      Creations, Clock

-----------------------------------------------------------------------------
(***************************************************************************)
(* What becomes of the requisitions.                                       *)
(***************************************************************************)
\* The requisition a call submits is the order's own.
LEMMA RequestAppends ==
  ASSUME TypeOK, NEW w \in OrderIds, NEW s \in SKUs, NEW n \in Quantities,
         RequestParts(w, s, n)
  PROVE  Appends(inv, inv', w)
<1>1. s \in DOMAIN inv.parts /\ inv' = Inv!Submit(inv, w, s, n)
  BY DEF RequestParts, Inv!CanSubmit
<1>2. Inv!Typed(inv, OrderIds, SKUs, Quantities) /\ Quantities \in SUBSET Nat
  BY ConstantsAssumption DEF TypeOK, WellTyped, OrderIds
<1>. QED
  BY <1>1, <1>2, SubmitTyped

\* The requisition of an order whose parts are confirmed.
LEMMA ConfirmSettles ==
  ASSUME TypeOK, NEW w \in OrderIds, ConfirmParts(w)
  PROVE  LET r == orders[w].req
         IN  /\ r # 0
             /\ TouchesOnly(inv, inv', r)
             /\ inv'.requisitions[r].status = "confirmed"
<1>. DEFINE r == orders[w].req
<1>1. r # 0 /\ Inv!CanConfirm(inv, r) /\ inv' = Inv!Confirm(inv, r)
  BY DEF ConfirmParts
<1>2. Inv!Typed(inv, OrderIds, SKUs, Quantities) /\ Quantities \in SUBSET Nat
  BY ConstantsAssumption DEF TypeOK, WellTyped, OrderIds
<1>. QED
  BY <1>1, <1>2, ConfirmTyped

\* The requisitions evolve, and none is submitted.
OldOnesEvolve(iv, new) ==
  InventoryEvolves(iv, new) /\ DOMAIN new.requisitions = DOMAIN iv.requisitions

LEMMA TouchedOldOnes ==
  ASSUME NEW iv, NEW new, NEW r, TouchesOnly(iv, new, r)
  PROVE  OldOnesEvolve(iv, new)
<1>1. DOMAIN new.requisitions = DOMAIN iv.requisitions
  BY DEF TouchesOnly
<1>. QED
  BY <1>1, TouchedEvolves DEF OldOnesEvolve

LEMMA ProcureEvolves ==
  ASSUME TypeOK, NEW w \in OrderIds, NEW s \in SKUs, NEW n \in Quantities,
         EmergencyProcurement(w, s, n)
  PROVE  OldOnesEvolve(inv, inv')
<1>. DEFINE r == orders[w].req
<1>1. Quantities \in SUBSET Nat
  BY ConstantsAssumption
<1>2. PICK mid : /\ Inv!Typed(mid, OrderIds, SKUs, Quantities)
                 /\ mid.requisitions = inv.requisitions
                 /\ inv' = IF r = 0 THEN mid ELSE Inv!Recheck(mid, r)
  BY ProcurementFacts
<1>3. inv' = mid \/ (r # 0 /\ inv' = Inv!Recheck(mid, r))
  BY <1>2
<1>4. r \in {0} \cup DOMAIN inv.requisitions
  BY OrderOf DEF TypeOK, OrderIds
<1>. HIDE DEF r
<1>5. OldOnesEvolve(inv, mid)
  BY <1>2, InventoryEvolvesReflexive DEF OldOnesEvolve
<1>6. ASSUME r # 0 PROVE OldOnesEvolve(mid, Inv!Recheck(mid, r))
  <2>1. TouchesOnly(mid, Inv!Recheck(mid, r), r)
    BY <1>1, <1>2, <1>4, <1>6, RecheckTyped
  <2>. QED
    BY <2>1, TouchedOldOnes
<1>. QED
  BY <1>3, <1>5, <1>6, InventoryEvolvesTransitive DEF OldOnesEvolve

LEMMA StepInventory ==
  ASSUME TypeOK, [Next]_vars
  PROVE  \/ OldOnesEvolve(inv, inv')
         \/ /\ InventoryEvolves(inv, inv')
            /\ \E w \in OrderIds, s \in SKUs, n \in Quantities : RequestParts(w, s, n)
<1>1. ASSUME inv' = inv PROVE OldOnesEvolve(inv, inv')
  BY <1>1, InventoryEvolvesReflexive DEF OldOnesEvolve
<1>2. ASSUME NEW w \in OrderIds, NEW s \in SKUs, NEW n \in Quantities, RequestParts(w, s, n)
      PROVE  InventoryEvolves(inv, inv')
  BY <1>2, RequestAppends, AppendedEvolves
<1>3. ASSUME NEW w \in OrderIds, ConfirmParts(w) PROVE OldOnesEvolve(inv, inv')
  BY <1>3, ConfirmSettles, TouchedOldOnes
<1>4. ASSUME NEW w \in OrderIds, NEW s \in SKUs, NEW n \in Quantities,
             EmergencyProcurement(w, s, n)
      PROVE  OldOnesEvolve(inv, inv')
  BY <1>4, ProcureEvolves
<1>5. ASSUME NEW w \in OrderIds, FailPartsRequisition(w) PROVE OldOnesEvolve(inv, inv')
  <2>1. inv' = inv \/ TouchesOnly(inv, inv', orders[w].req)
    BY <1>5, FailPartsHandsOver
  <2>. QED
    BY <1>1, <2>1, TouchedOldOnes
<1>6. ASSUME NEW s \in SKUs, NEW n \in StockLevels, RegisterPart(s, n)
      PROVE  OldOnesEvolve(inv, inv')
  <2>1. inv'.requisitions = inv.requisitions
    BY <1>6 DEF RegisterPart, Inv!RegisterPart, TypeOK, WellTyped, Inv!Typed
  <2>. QED
    BY <2>1, InventoryEvolvesReflexive DEF OldOnesEvolve
<1>7. ASSUME NEW w \in OrderIds,
             \/ DetectAnomaly(w) \/ ReportAnomaly(w) \/ AuthorizeMaintenance(w)
             \/ RejectAuthorization(w) \/ EnterCabin(w) \/ CompleteRepair(w)
             \/ RequestRestoration(w) \/ (\E b, g \in BOOLEAN : ApproveRestoration(w, b, g))
             \/ InterruptApproval(w) \/ RecheckComplete(w) \/ EscalateOrder(w)
             \/ ResumeFromEscalation(w) \/ CloseOrder(w) \/ CancelOrder(w)
             \/ DeadlinePasses(w) \/ Place(w)
      PROVE  inv' = inv
  BY <1>7 DEF DetectAnomaly, ReportAnomaly, AuthorizeMaintenance, RejectAuthorization,
     EnterCabin, CompleteRepair, RequestRestoration, ApproveRestoration,
     InterruptApproval, RecheckComplete, Step, EscalateOrder, ResumeFromEscalation,
     CloseOrder, CancelOrder, Leave, DeadlinePasses, Place, PlaceInspection,
     PlaceMaintenance
<1>8. CASE \/ UNCHANGED vars \/ Checks
           \/ \E c \in CabinIds : RegisterCabin(c)
           \/ Creations
  BY <1>1, <1>8 DEF vars, Checks, CheckAnomalyDeadlines, CheckMaintenanceTimeouts,
     RegisterCabin, Creations, Create
<1>. QED
  BY <1>1, <1>2, <1>3, <1>4, <1>5, <1>6, <1>7, <1>8
  DEF Next, Persisting, Calls, Unsaved, Outside, Registrations, Clock

-----------------------------------------------------------------------------
(***************************************************************************)
(* The inductive invariant.                                                *)
(***************************************************************************)
InspectionInv ==
  \A w \in OrderIds :
    orders[w].type = "inspection" => orders[w].state \notin Repairing

\* An order's requisition is its own, and settled once the repair goes on.
PartsInv ==
  \A w \in OrderIds :
    LET r == orders[w].req IN
    /\ r # 0 => inv.requisitions[r].order = w
    /\ orders[w].state \in AfterParts =>
         r # 0 /\ inv.requisitions[r].status = "confirmed"

SignedInv == \A r \in DOMAIN inv.requisitions : WellSigned(inv.requisitions[r])

OrderInv == InspectionInv /\ PartsInv /\ SignedInv

LEMMA OrderInit == Init => OrderInv
BY DEF Init, OrderInv, InspectionInv, PartsInv, SignedInv, OrderIds, Inv!EmptyInventory

LEMMA SignedStep ==
  ASSUME TypeOK, SignedInv, [Next]_vars
  PROVE  SignedInv'
<1>1. InventoryEvolves(inv, inv')
  BY StepInventory DEF OldOnesEvolve
<1>. QED
  BY <1>1 DEF InventoryEvolves, SignedInv

\* A requisition an order has stays the order's, and confirmed if it was.
LEMMA RequisitionKept ==
  ASSUME TypeOK, PartsInv, [Next]_vars, NEW w \in OrderIds, orders[w].req # 0
  PROVE  LET r == orders[w].req
         IN  /\ inv'.requisitions[r].order = w
             /\ inv.requisitions[r].status = "confirmed" =>
                  inv'.requisitions[r].status = "confirmed"
<1>1. InventoryEvolves(inv, inv')
  BY StepInventory DEF OldOnesEvolve
<1>2. orders[w].req \in DOMAIN inv.requisitions
  BY OrderOf DEF TypeOK, OrderIds
<1>. QED
  BY <1>1, <1>2 DEF InventoryEvolves, PartsInv, Settled

LEMMA OrderStep ==
  ASSUME TypeOK, OrderInv, [Next]_vars
  PROVE  OrderInv'
<1>1. SignedInv'
  BY SignedStep DEF OrderInv
<1>2. /\ WellTyped(orders, cabins, inv)
      /\ \A w \in OrderIds : orders[w] \in Order
  BY OrderOf DEF TypeOK, OrderIds
<1>3. \A w \in OrderIds : orders[w].req # 0 =>
        /\ inv'.requisitions[orders[w].req].order = w
        /\ inv.requisitions[orders[w].req].status = "confirmed" =>
             inv'.requisitions[orders[w].req].status = "confirmed"
  BY RequisitionKept DEF OrderInv
<1>4. ASSUME Become(orders, orders') PROVE (InspectionInv /\ PartsInv)'
  <2>1. InspectionInv'
    BY <1>4 DEF Become, Becomes, OrderInv, InspectionInv, OrderIds
  <2>2. PartsInv'
    BY <1>3, <1>4 DEF Become, Becomes, OrderInv, PartsInv, OrderIds
  <2>. QED
    BY <2>1, <2>2
<1>5. ASSUME NEW type \in OrderTypes, NEW c \in CabinIds, NEW p \in Urgencies,
             Create(type, c, p)
      PROVE  (InspectionInv /\ PartsInv)'
  <2>1. /\ OrderIds' = OrderIds \cup {Len(orders) + 1}
        /\ orders'[Len(orders) + 1] = NewOrder(type, c, p)
        /\ \A w \in OrderIds : orders'[w] = orders[w]
    BY <1>5, CreateStep
  <2>2. /\ NewOrder(type, c, p).state = "created"
        /\ NewOrder(type, c, p).req = 0
    BY DEF NewOrder
  <2>3. "created" \notin Repairing /\ "created" \notin AfterParts
    BY DEF Repairing, MaintenanceWork, AfterParts
  <2>4. InspectionInv'
    BY <2>1, <2>2, <2>3 DEF OrderInv, InspectionInv
  <2>5. PartsInv'
    BY <1>3, <2>1, <2>2, <2>3 DEF OrderInv, PartsInv
  <2>. QED
    BY <2>4, <2>5
<1>6. ASSUME NEW w \in OrderIds, ConfirmParts(w) PROVE (InspectionInv /\ PartsInv)'
  <2>1. /\ orders' = Move(orders, w, "parts_confirmed")
        /\ orders[w].state \in {"parts_requested", "parts_suspended"}
    BY <1>6 DEF ConfirmParts
  <2>2. "parts_confirmed" \in States
    BY DEF States
  <2>. DEFINE o == Transition(orders[w], "parts_confirmed")
  <2>3. /\ DOMAIN orders' = DOMAIN orders
        /\ orders'[w] = o
        /\ \A v \in DOMAIN orders : v # w => orders'[v] = orders[v]
    BY <1>2, <2>1, <2>2, MoveTyped DEF OrderIds
  <2>4. o.type = orders[w].type /\ o.req = orders[w].req
    BY <1>2, <2>2, TransitionField
  <2>5. orders[w].req # 0 /\ inv'.requisitions[orders[w].req].status = "confirmed"
    BY <1>6, ConfirmSettles
  <2>6. orders[w].state \in Repairing
    BY <2>1 DEF Repairing, MaintenanceWork
  <2>. HIDE DEF o
  <2>7. InspectionInv'
    BY <2>3, <2>4, <2>6 DEF OrderInv, InspectionInv, OrderIds
  <2>8. PartsInv'
    BY <1>3, <2>3, <2>4, <2>5 DEF OrderInv, PartsInv, OrderIds
  <2>. QED
    BY <2>7, <2>8
<1>7. ASSUME NEW w \in OrderIds, NEW s \in SKUs, NEW n \in Quantities,
             RequestParts(w, s, n)
      PROVE  (InspectionInv /\ PartsInv)'
  <2>. DEFINE r == Len(inv.requisitions) + 1
              a == [orders[w] EXCEPT !.req = r]
              b == Transition(a, "parts_requested")
              d == Transition(b, "parts_suspended")
  <2>1. Appends(inv, inv', w)
    BY <1>7, RequestAppends
  <2>2. r \in Nat \ {0} /\ inv'.requisitions[r].order = w
    BY <2>1 DEF Appends
  <2>3. orders[w].state = "executing" /\ {"parts_requested", "parts_suspended"} \subseteq States
    BY <1>7 DEF RequestParts, States
  <2>4. orders' = Updated(orders, w, b) \/ orders' = Updated(orders, w, d)
    BY <1>7 DEF RequestParts, Updated
  <2>. HIDE DEF r
  <2>5. /\ a \in Order /\ a.req = r /\ a.type = orders[w].type
        /\ a.state = "executing"
    BY <1>2, <2>2, <2>3 DEF Order
  <2>. HIDE DEF a
  <2>6. /\ b \in Order /\ b.req = r /\ b.type = orders[w].type
        /\ b.state \notin AfterParts
    <3>1. b.state \in {"executing", "parts_requested"}
      BY <2>3, <2>5, TransitionField
    <3>. QED
      BY <2>3, <2>5, <3>1, TransitionField DEF AfterParts
  <2>7. /\ d.req = r /\ d.type = orders[w].type
        /\ d.state \notin AfterParts
    <3>1. d.state \in {b.state, "parts_suspended"}
      BY <2>3, <2>6, TransitionField
    <3>2. "parts_suspended" \notin AfterParts
      BY DEF AfterParts
    <3>. HIDE DEF b
    <3>. QED
      BY <2>3, <2>6, <3>1, <3>2, TransitionField
  <2>. HIDE DEF b, d
  <2>8. ASSUME NEW o, orders' = Updated(orders, w, o),
               o.req = r, o.type = orders[w].type,
               o.state \notin AfterParts
        PROVE  (InspectionInv /\ PartsInv)'
    <3>1. /\ DOMAIN orders' = DOMAIN orders
          /\ orders'[w] = o
          /\ \A v \in DOMAIN orders : v # w => orders'[v] = orders[v]
      BY <2>8 DEF Updated, OrderIds
    <3>2. orders[w].state \in Repairing
      BY <2>3 DEF Repairing, MaintenanceWork
    <3>3. InspectionInv'
      BY <2>8, <3>1, <3>2 DEF OrderInv, InspectionInv, OrderIds
    <3>4. PartsInv'
      BY <1>3, <2>2, <2>8, <3>1 DEF OrderInv, PartsInv, OrderIds
    <3>. QED
      BY <3>3, <3>4
  <2>. QED
    BY <2>4, <2>6, <2>7, <2>8
<1>8. (InspectionInv /\ PartsInv)'
  BY <1>4, <1>5, <1>6, <1>7, StepBecomes
<1>. QED
  BY <1>1, <1>8 DEF OrderInv

LEMMA OrdersKept == Spec => [](TypeOK /\ OrderInv)
<1>1. Init => TypeOK /\ OrderInv
  BY TypeInit, OrderInit
<1>2. (TypeOK /\ OrderInv) /\ [Next]_vars => (TypeOK /\ OrderInv)'
  BY TypeStep, OrderStep
<1>. QED
  BY <1>1, <1>2, PTL DEF Spec

-----------------------------------------------------------------------------
(***************************************************************************)
(* How a maintenance order comes to wait, to work or to be escalated.      *)
(***************************************************************************)
Licensed == {"authorized"} \cup Admitted

\* No way in but from an authorization, and none to an authorization.
Steady(from, to) ==
  /\ to \in Admitted => from \in Licensed
  /\ to = "authorized" => from = "authorized"

LEMMA SteadyTransitive ==
  ASSUME NEW a, NEW b, NEW c, Steady(a, b), Steady(b, c)
  PROVE  Steady(a, c)
BY DEF Steady, Licensed

LEMMA AdmittedStates ==
  /\ {"executing", "parts_requested", "parts_suspended", "parts_confirmed",
      "repair_completed", "pending_restoration", "pending_recheck",
      "restoration_approved", "queued", "escalated"} \subseteq Admitted \cap States
  /\ {"in_progress", "anomaly_reported", "closed", "cancelled"}
       \subseteq States \ (Admitted \cup {"authorized"})
  /\ "authorized" \notin Admitted /\ "authorized" \in States
  /\ "created" \notin Admitted
BY DEF Admitted, MaintenanceWork, States

\* What advances from a queue was queued.
LEMMA AssignSteady ==
  ASSUME NEW os, NEW cs, NEW qs, NEW ns, NEW iv, NEW c \in CabinIds,
         WellTyped(os, cs, iv),
         qs \in [CabinIds -> Seq(DOMAIN os)],
         ns \subseteq Observed \X DOMAIN os,
         AssignFromQueue(os, cs, qs, ns, c),
         NEW w \in DOMAIN os
  PROVE  Steady(os[w].state, orders'[w].state)
<1>1. ASSUME NEW v, Advanced(os, cs, c, v) PROVE Steady(os[w].state, orders'[w].state)
  <2>. DEFINE to == IF os[v].type = "inspection" THEN "in_progress" ELSE "executing"
  <2>1. v \in DOMAIN os /\ orders' = Move(os, v, to) /\ os[v].state = "queued"
    BY <1>1 DEF Advanced, Waiting
  <2>2. to \in States /\ to # "authorized"
    BY DEF States
  <2>. HIDE DEF to
  <2>3. CASE v # w
    BY <2>1, <2>2, <2>3, MoveTyped DEF Steady, Licensed
  <2>4. CASE v = w
    <3>1. orders'[w].state \in {"queued", to}
      BY <2>1, <2>2, <2>4, MoveTyped, OrderOf, TransitionField
    <3>. QED
      BY <2>1, <2>2, <2>4, <3>1, AdmittedStates DEF Steady, Licensed
  <2>. QED
    BY <2>3, <2>4
<1>2. orders' = os \/ \E i \in DOMAIN qs[c] : Advanced(os, cs, c, qs[c][i])
  BY AssignFacts
<1>3. ASSUME orders' = os PROVE Steady(os[w].state, orders'[w].state)
  BY <1>3 DEF Steady, Licensed
<1>. QED
  BY <1>1, <1>2, <1>3

(***************************************************************************)
(* Of the steps, only two lead to an authorization.                        *)
(***************************************************************************)
LEMMA StepSteady ==
  ASSUME TypeOK, [Next]_vars, NEW w \in OrderIds, orders[w].type = "maintenance"
  PROVE  \/ Steady(orders[w].state, orders'[w].state)
         \/ AuthorizeMaintenance(w)
         \/ ResumeFromEscalation(w)
<1>. USE DEF OrderIds
<1>. DEFINE Stays == Steady(orders[w].state, orders'[w].state)
<1>1. /\ WellTyped(orders, cabins, inv)
      /\ \A v \in OrderIds : orders[v] \in Order
  BY OrderOf DEF TypeOK
<1>2. \A s : Steady(s, s)
  BY DEF Steady, Licensed
<1>3. ASSUME NEW v \in OrderIds, NEW to \in States,
             v = w => Steady(orders[w].state, to),
             orders' = Move(orders, v, to)
      PROVE  Stays
  <2>1. /\ orders'[v] = Transition(orders[v], to)
        /\ v # w => orders'[w] = orders[w]
    BY <1>1, <1>3, MoveTyped
  <2>2. v = w => orders'[w].state \in {orders[w].state, to}
    BY <1>1, <1>3, <2>1, TransitionField
  <2>. QED
    BY <1>2, <1>3, <2>1, <2>2
<1>4. ASSUME orders' = orders \/ orders'[w] = orders[w] PROVE Stays
  BY <1>2, <1>4
<1>5. ASSUME NEW v \in OrderIds, NEW from, from \in Admitted \cup {"authorized"},
             orders[v].state = from,
             NEW to \in Admitted \cap States, orders' = Move(orders, v, to)
      PROVE  Stays
  <2>1. Steady(from, to)
    BY <1>5, AdmittedStates DEF Steady, Licensed
  <2>. QED
    BY <1>3, <1>5, <2>1
<1>6. ASSUME NEW v \in OrderIds, PlaceInspection(v) \/ EnterCabin(v)
      PROVE  Stays
  <2>1. CASE PlaceInspection(v)
    <3>1. v # w /\ \E to \in States : orders' = Move(orders, v, to)
      BY <2>1, AdmittedStates DEF PlaceInspection
    <3>. QED
      BY <1>3, <3>1
  <2>2. CASE EnterCabin(v)
    <3>1. /\ orders[v].state \in Admitted \cup {"authorized"}
          /\ \E to \in Admitted \cap States : orders' = Move(orders, v, to)
      BY <2>2, AdmittedStates DEF EnterCabin
    <3>. QED
      BY <1>5, <3>1
  <2>. QED
    BY <1>6, <2>1, <2>2
<1>7. ASSUME NEW v \in OrderIds,
             \/ DetectAnomaly(v) \/ ReportAnomaly(v)
             \/ RejectAuthorization(v) \/ DeadlinePasses(v)
      PROVE  Stays
  <2>. DEFINE a == [orders[v] EXCEPT !.anomaly = "detected", !.deadline = "running"]
              b == [orders[v] EXCEPT !.anomaly = "reported"]
              c == Timed(orders[v])
              d == [orders[v] EXCEPT !.deadline = "passed"]
              e == Transition(b, "anomaly_reported")
  <2>1. \A p \in {a, b, c, d} : p \in Order /\ p.state = orders[v].state
    BY ZenonT(60), <1>1 DEF Order, Timed, Anomalies, Deadlines
  <2>2. \E p \in {a, c, d, e} : orders' = Updated(orders, v, p)
    BY <1>7 DEF DetectAnomaly, ReportAnomaly, RejectAuthorization, DeadlinePasses, Updated
  <2>. HIDE DEF a, b, c, d
  <2>3. e.state \in {orders[v].state, "anomaly_reported"}
    BY <2>1, AdmittedStates, TransitionField
  <2>. HIDE DEF e
  <2>4. \A p \in {a, c, d, e} : Steady(orders[v].state, p.state)
    BY <1>2, <2>1, <2>3, AdmittedStates DEF Steady
  <2>. QED
    BY <1>4, <2>2, <2>4 DEF Updated
<1>8. ASSUME NEW v \in OrderIds,
             \/ \E s \in SKUs, n \in Quantities : EmergencyProcurement(v, s, n)
             \/ CompleteRepair(v) \/ RequestRestoration(v)
             \/ \E b, g \in BOOLEAN : ApproveRestoration(v, b, g)
             \/ InterruptApproval(v) \/ RecheckComplete(v) \/ EscalateOrder(v)
             \/ ConfirmParts(v)
      PROVE  Stays
  <2>1. \/ orders' = orders
        \/ /\ orders[v].state \in Admitted \cup {"authorized"}
           /\ \E to \in Admitted \cap States : orders' = Move(orders, v, to)
    BY <1>8, AdmittedStates DEF EmergencyProcurement, CompleteRepair, RequestRestoration,
       ApproveRestoration, InterruptApproval, RecheckComplete, EscalateOrder, Step,
       ConfirmParts
  <2>. QED
    BY <1>4, <1>5, <2>1
<1>9. ASSUME NEW v \in OrderIds, NEW s \in SKUs, NEW n \in Quantities,
             RequestParts(v, s, n)
      PROVE  Stays
  <2>1. orders[v].state \in Admitted
    BY <1>9, AdmittedStates DEF RequestParts
  <2>2. v # w => orders'[w] = orders[w]
    BY <1>9 DEF RequestParts
  <2>3. v = w => orders'[w].state # "authorized"
    <3>. DEFINE a == [orders[v] EXCEPT !.req = Len(inv.requisitions) + 1]
                b == Transition(a, "parts_requested")
    <3>1. Len(inv.requisitions) + 1 \in Nat
      BY <1>1, LenProperties DEF WellTyped, Inv!Typed
    <3>2. a \in Order /\ a.state = "executing"
      BY <1>1, <1>9, <3>1 DEF RequestParts, Order
    <3>3. orders'[v] = b \/ orders'[v] = Transition(b, "parts_suspended")
      BY <1>9 DEF RequestParts
    <3>. HIDE DEF a
    <3>4. b \in Order /\ b.state \in {"executing", "parts_requested"}
      BY <3>2, AdmittedStates, TransitionField
    <3>. HIDE DEF b
    <3>5. Transition(b, "parts_suspended").state \in {b.state, "parts_suspended"}
      BY <3>4, AdmittedStates, TransitionField
    <3>. QED
      BY <3>3, <3>4, <3>5
  <2>. QED
    BY <1>4, <2>1, <2>2, <2>3 DEF Steady, Licensed
<1>10. ASSUME NEW v \in OrderIds, FailPartsRequisition(v) PROVE Stays
  <2>. DEFINE c    == orders[v].cabin
              back == Move(orders, v, "queued")
              rel  == Released(cabins, c)
              qs   == [queues EXCEPT ![c] = Enqueue(back, @, v)]
              told == notifs \cup Notified("parts_failure", {v})
  <2>1. /\ c \in CabinIds
        /\ WellTyped(back, rel, inv')
        /\ qs \in [CabinIds -> Seq(DOMAIN back)]
        /\ told \subseteq Observed \X DOMAIN back
        /\ AssignFromQueue(back, rel, qs, told, c)
    BY <1>10, FailPartsHandsOver
  <2>2. /\ w \in DOMAIN back
        /\ back[v] = Transition(orders[v], "queued")
        /\ v # w => back[w] = orders[w]
    BY <1>1, AdmittedStates, MoveTyped
  <2>3. v = w => orders[w].state \in Admitted /\ back[w].state \in {orders[w].state, "queued"}
    <3>1. orders[v].state \in Admitted
      BY <1>10, AdmittedStates DEF FailPartsRequisition
    <3>2. Transition(orders[v], "queued").state \in {orders[v].state, "queued"}
      BY <1>1, AdmittedStates, TransitionField
    <3>. HIDE DEF back
    <3>. QED
      BY <2>2, <3>1, <3>2
  <2>4. Steady(orders[w].state, back[w].state)
    BY <1>2, <2>2, <2>3, AdmittedStates DEF Steady, Licensed
  <2>. HIDE DEF c, back, rel, qs, told
  <2>5. Steady(back[w].state, orders'[w].state)
    BY <2>1, <2>2, AssignSteady
  <2>. QED
    BY <2>4, <2>5, SteadyTransitive
<1>11. ASSUME NEW v \in OrderIds, CloseOrder(v) \/ CancelOrder(v) PROVE Stays
  <2>1. PICK to \in Terminal : Leave(v, to)
    BY <1>11 DEF CloseOrder, CancelOrder, Terminal
  <2>. DEFINE c    == orders[v].cabin
              gone == Move(orders, v, to)
  <2>2. /\ c \in CabinIds
        /\ WellTyped(gone, LeftBy(cabins, v), inv)
        /\ queues \in [CabinIds -> Seq(DOMAIN gone)]
        /\ notifs \subseteq Observed \X DOMAIN gone
        /\ AssignFromQueue(gone, LeftBy(cabins, v), queues, notifs, c)
    BY <2>1, LeaveHandsOver
  <2>3. to \in States \ (Admitted \cup {"authorized"})
    BY AdmittedStates DEF Terminal
  <2>4. /\ w \in DOMAIN gone
        /\ gone[v] = Transition(orders[v], to)
        /\ v # w => gone[w] = orders[w]
    BY <1>1, <2>3, MoveTyped
  <2>5. v = w => gone[w].state \in {orders[w].state, to}
    BY <1>1, <2>3, <2>4, TransitionField
  <2>6. Steady(orders[w].state, gone[w].state)
    BY <1>2, <2>3, <2>4, <2>5 DEF Steady
  <2>. HIDE DEF c, gone
  <2>7. Steady(gone[w].state, orders'[w].state)
    BY <2>2, <2>4, AssignSteady
  <2>. QED
    BY <2>6, <2>7, SteadyTransitive
<1>12. ASSUME CheckMaintenanceTimeouts PROVE Stays
  <2>1. orders'[w] = IF w \in OverdueResponses THEN Transition(orders[w], "escalated")
                                               ELSE orders[w]
    BY <1>12 DEF CheckMaintenanceTimeouts
  <2>2. CASE w \in OverdueResponses
    <3>1. orders[w].state = "authorized" /\ orders'[w].state \in {"authorized", "escalated"}
      BY <1>1, <2>1, <2>2, AdmittedStates, TransitionField DEF OverdueResponses
    <3>. QED
      BY <3>1, AdmittedStates DEF Steady, Licensed
  <2>. QED
    BY <1>4, <2>1, <2>2
<1>13. ASSUME NEW type \in OrderTypes, NEW c \in CabinIds, NEW p \in Urgencies,
              Create(type, c, p)
       PROVE  Stays
  BY <1>4, <1>13, CreateStep
<1>14. ASSUME \/ UNCHANGED vars
              \/ CheckAnomalyDeadlines
              \/ \E v \in OrderIds : PlaceMaintenance(v)
              \/ \E c \in CabinIds : RegisterCabin(c)
              \/ \E s \in SKUs, n \in StockLevels : RegisterPart(s, n)
       PROVE  Stays
  BY <1>4, <1>14 DEF vars, CheckAnomalyDeadlines, PlaceMaintenance, RegisterCabin,
     RegisterPart
<1>. DEFINE Enters == AuthorizeMaintenance(w) \/ ResumeFromEscalation(w)
<1>15. ASSUME NEW v \in OrderIds, AuthorizeMaintenance(v) \/ ResumeFromEscalation(v)
       PROVE  Stays \/ Enters
  <2>1. v # w => orders'[w] = orders[w]
    BY <1>15 DEF AuthorizeMaintenance, ResumeFromEscalation, Move
  <2>. QED
    BY <1>4, <1>15, <2>1
<1>. HIDE DEF Stays, Enters
<1>16. Stays \/ Enters
  BY <1>6, <1>7, <1>8, <1>9, <1>10, <1>11, <1>12, <1>13, <1>14, <1>15
  DEF Next, Persisting, Calls, Place, Checks, Unsaved, Outside, Registrations,
      Creations, Clock
<1>. QED
  BY <1>16 DEF Stays, Enters

\* An order keeps its type, and a new one is only created.
LEMMA StepTypes ==
  ASSUME TypeOK, [Next]_vars, NEW w \in OrderIds'
  PROVE  \/ w \in OrderIds /\ orders'[w].type = orders[w].type
         \/ w \notin OrderIds /\ orders'[w].state = "created"
<1>. USE DEF OrderIds
<1>1. /\ WellTyped(orders, cabins, inv)
      /\ \A v \in OrderIds : orders[v] \in Order
  BY OrderOf DEF TypeOK
<1>2. CASE Become(orders, orders')
  BY <1>2 DEF Become, Becomes
<1>3. ASSUME NEW type \in OrderTypes, NEW c \in CabinIds, NEW p \in Urgencies,
             Create(type, c, p)
      PROVE  \/ w \in OrderIds /\ orders'[w].type = orders[w].type
             \/ w \notin OrderIds /\ orders'[w].state = "created"
  <2>1. NewOrder(type, c, p).state = "created"
    BY DEF NewOrder
  <2>. QED
    BY <1>3, <2>1, CreateStep
<1>4. ASSUME NEW v \in OrderIds, ConfirmParts(v)
      PROVE  w \in OrderIds /\ orders'[w].type = orders[w].type
  <2>1. orders' = Move(orders, v, "parts_confirmed") /\ "parts_confirmed" \in States
    BY <1>4 DEF ConfirmParts, States
  <2>. QED
    BY <1>1, <2>1, MoveTyped, TransitionField
<1>5. ASSUME NEW v \in OrderIds, NEW s \in SKUs, NEW n \in Quantities,
             RequestParts(v, s, n)
      PROVE  w \in OrderIds /\ orders'[w].type = orders[w].type
  <2>. DEFINE a == [orders[v] EXCEPT !.req = Len(inv.requisitions) + 1]
              b == Transition(a, "parts_requested")
              d == Transition(b, "parts_suspended")
  <2>1. a.type = orders[v].type /\ b.type = a.type /\ d.type = b.type
    BY <1>1 DEF Transition, Order
  <2>2. orders' = Updated(orders, v, b) \/ orders' = Updated(orders, v, d)
    BY <1>5 DEF RequestParts, Updated
  <2>. HIDE DEF a, b, d
  <2>. QED
    BY <2>1, <2>2 DEF Updated
<1>. QED
  BY <1>2, <1>3, <1>4, <1>5, StepBecomes

\* What one step may do to one order, as MaintenanceIsAuthorized says it.
LEMMA StepAdmits ==
  ASSUME TypeOK, [Next]_vars, NEW w \in OrderIds'
  PROVE  EntersByAuthorization(w)
<1>. SUFFICES ASSUME orders'[w].type = "maintenance"
              PROVE  LET before == IF w \in OrderIds THEN orders[w].state ELSE "created"
                         after  == orders'[w].state
                     IN  /\ after \in Admitted => before \in Admitted \cup {"authorized"}
                         /\ after = "authorized" =>
                              before = "authorized" \/ orders'[w].deadline = "running"
  BY DEF EntersByAuthorization
<1>1. CASE w \notin OrderIds
  BY <1>1, StepTypes, AdmittedStates
<1>2. CASE w \in OrderIds
  <2>1. orders[w] \in Order /\ orders[w].type = "maintenance"
    BY <1>2, StepTypes, OrderOf DEF TypeOK, OrderIds
  <2>. DEFINE p == Timed(orders[w])
              o == Transition(p, "authorized")
  <2>2. /\ p \in Order /\ p.state = orders[w].state /\ p.deadline = "running"
        /\ p = [orders[w] EXCEPT !.deadline = "running"]
    BY <2>1 DEF Order, Timed, Deadlines
  <2>3. o.state \in {orders[w].state, "authorized"} /\ o.deadline = "running"
    BY <2>2, AdmittedStates, TransitionField
  <2>4. CASE Steady(orders[w].state, orders'[w].state)
    BY <1>2, <2>4 DEF Steady, Licensed
  <2>5. CASE orders'[w] = o
    <3>. HIDE DEF o
    <3>. QED
      BY <1>2, <2>3, <2>5, AdmittedStates
  <2>6. CASE orders[w].state = "escalated" /\ orders' = Move(orders, w, "executing")
    <3>1. orders'[w].state \in {"escalated", "executing"}
      BY <1>2, <2>1, <2>6, AdmittedStates, TransitionField DEF Move, OrderIds
    <3>. QED
      BY <1>2, <2>6, <3>1, AdmittedStates
  <2>7. AuthorizeMaintenance(w) => orders'[w] = o
    BY <1>2 DEF AuthorizeMaintenance, OrderIds
  <2>8. ResumeFromEscalation(w) =>
          \/ orders'[w] = o
          \/ orders[w].state = "escalated" /\ orders' = Move(orders, w, "executing")
    BY <1>2, <2>2 DEF ResumeFromEscalation, OrderIds
  <2>. HIDE DEF o
  <2>. QED
    BY <1>2, <2>1, <2>4, <2>5, <2>6, <2>7, <2>8, StepSteady
<1>. QED
  BY <1>1, <1>2

(***************************************************************************)
(* A maintenance order comes to wait, to work or to be escalated through   *)
(* an authorization the code accepted, whatever detours through failures   *)
(* and escalations it takes, and each authorization has its own timeout.   *)
(***************************************************************************)
THEOREM Authorization == Spec => MaintenanceIsAuthorized
<1>1. TypeOK /\ [Next]_vars => [\A w \in OrderIds' : EntersByAuthorization(w)]_vars
  BY StepAdmits
<1>. QED
  BY <1>1, TypeCorrect, PTL DEF Spec, MaintenanceIsAuthorized

-----------------------------------------------------------------------------
(***************************************************************************)
(* The signatures of a repair.                                             *)
(***************************************************************************)
LEMMA SignedParts ==
  ASSUME TypeOK, OrderInv
  PROVE  RepairHasSignedParts
<1>. SUFFICES ASSUME NEW w \in OrderIds, orders[w].state \in AfterParts
              PROVE  /\ orders[w].req \in DOMAIN inv.requisitions
                     /\ LET r == inv.requisitions[orders[w].req]
                        IN  r.order = w /\ r.managerSigned /\ r.status = "confirmed"
  BY DEF RepairHasSignedParts
<1>1. orders[w].req \in {0} \cup DOMAIN inv.requisitions
  BY OrderOf DEF TypeOK, OrderIds
<1>. QED
  BY <1>1 DEF OrderInv, PartsInv, SignedInv, WellSigned

(***************************************************************************)
(* A repair goes on only with a requisition that is the order's own and    *)
(* that both have signed.                                                  *)
(***************************************************************************)
THEOREM DualSignature == Spec => []RepairHasSignedParts
<1>1. TypeOK /\ OrderInv => RepairHasSignedParts
  BY SignedParts
<1>. QED
  BY <1>1, OrdersKept, PTL

-----------------------------------------------------------------------------
(***************************************************************************)
(* Who a reservation is for.                                               *)
(***************************************************************************)
ForParts == {"parts_requested", "parts_suspended"}

\* The states of the order of a requisition that is not settled.
Awaiting == ForParts \cup {"cancelled"}

\* Of the edges from there, two lead elsewhere.
LEMMA TransitionAwaits ==
  ASSUME NEW o \in Order, NEW to \in States, o.state \in Awaiting,
         o.state \in ForParts => to \notin {"queued", "parts_confirmed"}
  PROVE  Transition(o, to).state \in Awaiting
<1>1. CanTransition(o.state, to) => to \in Awaiting
  BY DEF Awaiting, ForParts, CanTransition, Targets
<1>. QED
  BY <1>1 DEF Transition, Order

\* What advances from a queue was queued.
LEMMA AssignAwaits ==
  ASSUME NEW os, NEW cs, NEW qs, NEW ns, NEW iv, NEW c \in CabinIds,
         WellTyped(os, cs, iv),
         qs \in [CabinIds -> Seq(DOMAIN os)],
         ns \subseteq Observed \X DOMAIN os,
         AssignFromQueue(os, cs, qs, ns, c),
         NEW w \in DOMAIN os, os[w].state \in Awaiting
  PROVE  orders'[w].state \in Awaiting
<1>1. ASSUME NEW v, Advanced(os, cs, c, v) PROVE orders'[w] = os[w]
  <2>. DEFINE to == IF os[v].type = "inspection" THEN "in_progress" ELSE "executing"
  <2>1. v \in DOMAIN os /\ orders' = Move(os, v, to) /\ os[v].state = "queued"
    BY <1>1 DEF Advanced, Waiting
  <2>2. to \in States /\ v # w
    BY <2>1 DEF States, Awaiting, ForParts
  <2>. QED
    BY <2>1, <2>2, MoveTyped
<1>2. orders' = os \/ \E i \in DOMAIN qs[c] : Advanced(os, cs, c, qs[c][i])
  BY AssignFacts
<1>. QED
  BY <1>1, <1>2

(***************************************************************************)
(* An order that waits for its parts goes on doing so until it is          *)
(* cancelled, unless they are confirmed or given up.                       *)
(***************************************************************************)
LEMMA StepAwaits ==
  ASSUME TypeOK, InspectionInv, [Next]_vars, NEW w \in OrderIds,
         orders[w].state \in Awaiting
  PROVE  \/ orders'[w].state \in Awaiting
         \/ ConfirmParts(w)
         \/ FailPartsRequisition(w)
<1>. USE DEF OrderIds
<1>. DEFINE Waits == orders'[w].state \in Awaiting
<1>1. /\ WellTyped(orders, cabins, inv)
      /\ \A v \in OrderIds : orders[v] \in Order
  BY OrderOf DEF TypeOK
<1>2. /\ {"in_progress", "executing", "anomaly_reported", "authorized", "queued",
          "parts_requested", "parts_suspended", "parts_confirmed",
          "repair_completed", "pending_restoration", "pending_recheck",
          "restoration_approved", "escalated", "closed", "cancelled"} \subseteq States
      /\ ForParts \subseteq Repairing
  BY DEF States, ForParts, Repairing, MaintenanceWork
<1>3. ASSUME NEW v \in OrderIds, NEW to \in States,
             orders[v].state \in ForParts => to \notin {"queued", "parts_confirmed"},
             orders' = Move(orders, v, to)
      PROVE  Waits
  <2>1. /\ orders'[v] = Transition(orders[v], to)
        /\ v # w => orders'[w] = orders[w]
    BY <1>1, <1>3, MoveTyped
  <2>. QED
    BY <1>1, <1>3, <2>1, TransitionAwaits
<1>4. ASSUME orders' = orders \/ orders'[w] = orders[w] PROVE Waits
  BY <1>4
<1>5. ASSUME NEW v \in OrderIds, NEW p \in Order, NEW to \in States,
             to \notin {"queued", "parts_confirmed"}, p.state = orders[v].state,
             \/ orders' = Updated(orders, v, Transition(p, to))
             \/ orders' = Updated(orders, v, p)
      PROVE  Waits
  <2>1. v # w => orders'[w] = orders[w]
    BY <1>5 DEF Updated
  <2>2. orders'[v] = Transition(p, to) \/ orders'[v] = p
    BY <1>5 DEF Updated
  <2>. QED
    BY <1>5, <2>1, <2>2, TransitionAwaits
<1>6. ASSUME NEW v \in OrderIds, PlaceInspection(v) \/ EnterCabin(v)
      PROVE  Waits
  <2>1. PICK to \in {"in_progress", "executing", "queued"} : orders' = Move(orders, v, to)
    BY <1>6 DEF PlaceInspection, EnterCabin
  <2>2. orders[v].state \notin ForParts
    BY <1>2, <1>6 DEF PlaceInspection, EnterCabin, InspectionInv, ForParts
  <2>. QED
    BY <1>2, <1>3, <2>1, <2>2
<1>7. ASSUME NEW v \in OrderIds,
             \/ DetectAnomaly(v) \/ ReportAnomaly(v) \/ AuthorizeMaintenance(v)
             \/ RejectAuthorization(v) \/ DeadlinePasses(v) \/ ResumeFromEscalation(v)
      PROVE  Waits
  <2>. DEFINE a == [orders[v] EXCEPT !.anomaly = "detected", !.deadline = "running"]
              b == [orders[v] EXCEPT !.anomaly = "reported"]
              c == Timed(orders[v])
              d == [orders[v] EXCEPT !.deadline = "passed"]
              e == [orders[v] EXCEPT !.deadline = "running"]
  <2>1. \A p \in {a, b, c, d, e} : p \in Order /\ p.state = orders[v].state
    BY ZenonT(60), <1>1 DEF Order, Timed, Anomalies, Deadlines
  <2>2. \/ orders' \in {Updated(orders, v, a), Updated(orders, v, c), Updated(orders, v, d)}
        \/ orders' = Updated(orders, v, Transition(b, "anomaly_reported"))
        \/ orders' = Updated(orders, v, Transition(c, "authorized"))
        \/ orders' = Updated(orders, v, Transition(e, "authorized"))
        \/ orders' = Move(orders, v, "executing")
    BY <1>7 DEF DetectAnomaly, ReportAnomaly, AuthorizeMaintenance,
       RejectAuthorization, DeadlinePasses, ResumeFromEscalation, Updated
  <2>. HIDE DEF a, b, c, d, e
  <2>3. CASE orders' = Move(orders, v, "executing")
    BY <1>2, <1>3, <2>3
  <2>4. ASSUME NEW p \in {a, b, c, d, e}, NEW to \in {"anomaly_reported", "authorized"},
               \/ orders' = Updated(orders, v, Transition(p, to))
               \/ orders' = Updated(orders, v, p)
        PROVE  Waits
    BY <1>2, <1>5, <2>1, <2>4
  <2>. QED
    BY <2>2, <2>3, <2>4
<1>8. ASSUME NEW v \in OrderIds,
             \/ \E s \in SKUs, n \in Quantities : EmergencyProcurement(v, s, n)
             \/ CompleteRepair(v) \/ RequestRestoration(v)
             \/ \E b, g \in BOOLEAN : ApproveRestoration(v, b, g)
             \/ InterruptApproval(v) \/ RecheckComplete(v) \/ EscalateOrder(v)
      PROVE  Waits
  <2>1. \/ orders' = orders
        \/ \E to \in {"parts_requested", "repair_completed", "pending_restoration",
                      "pending_recheck", "restoration_approved", "escalated"} :
             orders' = Move(orders, v, to)
    BY <1>8 DEF EmergencyProcurement, CompleteRepair, RequestRestoration,
       ApproveRestoration, InterruptApproval, RecheckComplete, EscalateOrder, Step
  <2>. QED
    BY <1>2, <1>3, <1>4, <2>1
<1>9. ASSUME NEW v \in OrderIds, NEW s \in SKUs, NEW n \in Quantities,
             RequestParts(v, s, n)
      PROVE  Waits
  <2>1. v # w /\ orders'[w] = orders[w]
    BY <1>9 DEF RequestParts, Awaiting, ForParts
  <2>. QED
    BY <1>4, <2>1
<1>10. ASSUME NEW v \in OrderIds, ConfirmParts(v) PROVE Waits \/ ConfirmParts(w)
  <2>1. v # w => orders'[w] = orders[w]
    BY <1>10 DEF ConfirmParts, Move
  <2>. QED
    BY <1>4, <1>10, <2>1
<1>11. ASSUME NEW v \in OrderIds, v # w, FailPartsRequisition(v) PROVE Waits
  <2>. DEFINE c    == orders[v].cabin
              back == Move(orders, v, "queued")
              rel  == Released(cabins, c)
              qs   == [queues EXCEPT ![c] = Enqueue(back, @, v)]
              told == notifs \cup Notified("parts_failure", {v})
  <2>1. /\ c \in CabinIds
        /\ WellTyped(back, rel, inv')
        /\ qs \in [CabinIds -> Seq(DOMAIN back)]
        /\ told \subseteq Observed \X DOMAIN back
        /\ AssignFromQueue(back, rel, qs, told, c)
    BY <1>11, FailPartsHandsOver
  <2>2. w \in DOMAIN back /\ back[w] = orders[w]
    BY <1>1, <1>2, <1>11, MoveTyped
  <2>. HIDE DEF c, back, rel, qs, told
  <2>. QED
    BY <2>1, <2>2, AssignAwaits
<1>12. ASSUME NEW v \in OrderIds, CloseOrder(v) \/ CancelOrder(v) PROVE Waits
  <2>1. PICK to \in Terminal : Leave(v, to)
    BY <1>12 DEF CloseOrder, CancelOrder, Terminal
  <2>. DEFINE c    == orders[v].cabin
              gone == Move(orders, v, to)
  <2>2. /\ c \in CabinIds
        /\ WellTyped(gone, LeftBy(cabins, v), inv)
        /\ queues \in [CabinIds -> Seq(DOMAIN gone)]
        /\ notifs \subseteq Observed \X DOMAIN gone
        /\ AssignFromQueue(gone, LeftBy(cabins, v), queues, notifs, c)
    BY <2>1, LeaveHandsOver
  <2>3. to \in States /\ to \notin {"queued", "parts_confirmed"}
    BY <1>2 DEF Terminal
  <2>4. /\ w \in DOMAIN gone
        /\ gone[v] = Transition(orders[v], to)
        /\ v # w => gone[w] = orders[w]
    BY <1>1, <2>3, MoveTyped
  <2>5. gone[w].state \in Awaiting
    BY <1>1, <2>3, <2>4, TransitionAwaits
  <2>. HIDE DEF c, gone
  <2>. QED
    BY <2>2, <2>4, <2>5, AssignAwaits
<1>13. ASSUME CheckMaintenanceTimeouts PROVE Waits
  <2>1. w \notin OverdueResponses
    BY DEF OverdueResponses, Awaiting, ForParts
  <2>. QED
    BY <1>4, <1>13, <2>1 DEF CheckMaintenanceTimeouts
<1>14. ASSUME NEW type \in OrderTypes, NEW c \in CabinIds, NEW p \in Urgencies,
              Create(type, c, p)
       PROVE  Waits
  BY <1>4, <1>14, CreateStep
<1>15. ASSUME \/ UNCHANGED vars
              \/ CheckAnomalyDeadlines
              \/ \E v \in OrderIds : PlaceMaintenance(v)
              \/ \E c \in CabinIds : RegisterCabin(c)
              \/ \E s \in SKUs, n \in StockLevels : RegisterPart(s, n)
       PROVE  Waits
  BY <1>4, <1>15 DEF vars, CheckAnomalyDeadlines, PlaceMaintenance, RegisterCabin,
     RegisterPart
<1>. DEFINE Left == ConfirmParts(w) \/ FailPartsRequisition(w)
<1>16. ASSUME NEW v \in OrderIds, FailPartsRequisition(v) PROVE Waits \/ Left
  BY <1>11, <1>16
<1>17. ASSUME NEW v \in OrderIds, ConfirmParts(v) PROVE Waits \/ Left
  BY <1>10, <1>17
<1>. HIDE DEF Waits, Left
<1>18. Waits \/ Left
  BY <1>6, <1>7, <1>8, <1>9, <1>12, <1>13, <1>14, <1>15, <1>16, <1>17
  DEF Next, Persisting, Calls, Place, Checks, Unsaved, Outside, Registrations,
      Creations, Clock
<1>. QED
  BY <1>18 DEF Waits, Left

\* An order keeps its requisition, unless it submits another.
LEMMA StepReq ==
  ASSUME TypeOK, [Next]_vars, NEW w \in OrderIds
  PROVE  \/ orders'[w].req = orders[w].req
         \/ \E s \in SKUs, n \in Quantities : RequestParts(w, s, n)
<1>1. /\ WellTyped(orders, cabins, inv) /\ w \in DOMAIN orders
      /\ orders[w] \in Order
  BY OrderOf DEF TypeOK, OrderIds
<1>2. CASE Become(orders, orders')
  BY <1>1, <1>2 DEF Become, Becomes
<1>3. ASSUME NEW type \in OrderTypes, NEW c \in CabinIds, NEW p \in Urgencies,
             Create(type, c, p)
      PROVE  orders'[w].req = orders[w].req
  BY <1>3, CreateStep
<1>4. ASSUME NEW v \in OrderIds, ConfirmParts(v) PROVE orders'[w].req = orders[w].req
  <2>1. orders' = Move(orders, v, "parts_confirmed") /\ "parts_confirmed" \in States
    BY <1>4 DEF ConfirmParts, States
  <2>2. /\ orders'[v] = Transition(orders[v], "parts_confirmed")
        /\ v # w => orders'[w] = orders[w]
    BY <1>1, <2>1, MoveTyped DEF OrderIds
  <2>. QED
    BY <1>1, <2>1, <2>2, TransitionField
<1>5. ASSUME NEW v \in OrderIds, v # w, NEW s \in SKUs, NEW n \in Quantities,
             RequestParts(v, s, n)
      PROVE  orders'[w].req = orders[w].req
  BY <1>5 DEF RequestParts
<1>. QED
  BY <1>2, <1>3, <1>4, <1>5, StepBecomes

\* What RequestParts makes of the order: it has the requisition it submits.
LEMMA RequestFacts ==
  ASSUME TypeOK, NEW w \in OrderIds, NEW s \in SKUs, NEW n \in Quantities,
         RequestParts(w, s, n)
  PROVE  /\ orders'[w].req = Len(inv.requisitions) + 1
         /\ orders'[w].state \in Awaiting
<1>. DEFINE r == Len(inv.requisitions) + 1
            a == [orders[w] EXCEPT !.req = r]
            b == Transition(a, "parts_requested")
            d == Transition(b, "parts_suspended")
<1>1. w \in DOMAIN orders /\ orders[w] \in Order /\ orders[w].state = "executing"
  BY OrderOf DEF TypeOK, OrderIds, RequestParts
<1>2. a = [a EXCEPT !.state = "executing"] /\ a.state = "executing" /\ a.req = r
  BY <1>1 DEF Order
<1>3. orders'[w] = b \/ orders'[w] = d
  BY <1>1 DEF RequestParts
<1>. HIDE DEF r
<1>4. b = [orders[w] EXCEPT !.req = r, !.state = "parts_requested"]
  BY <1>1, <1>2 DEF Transition, CanTransition, Targets
<1>5. b.state = "parts_requested" /\ b.req = r
  BY <1>1, <1>4 DEF Order
<1>6. d = [b EXCEPT !.state = "parts_suspended"]
  BY <1>5 DEF Transition, CanTransition, Targets
<1>7. d.state = "parts_suspended" /\ d.req = r
  BY <1>1, <1>4, <1>6 DEF Order
<1>. HIDE DEF b, d
<1>. QED
  BY <1>3, <1>5, <1>7 DEF Awaiting, ForParts, r

(***************************************************************************)
(* What is not settled is the current requisition of an order that waits   *)
(* for it, or was cancelled while it did.                                  *)
(***************************************************************************)
OwnerInv ==
  \A r \in DOMAIN inv.requisitions :
    ~Settled(inv.requisitions[r]) =>
      /\ orders[inv.requisitions[r].order].req = r
      /\ orders[inv.requisitions[r].order].state \in Awaiting

LEMMA OwnerStep ==
  ASSUME TypeOK, OrderInv, OwnerInv, [Next]_vars
  PROVE  OwnerInv'
<1>1. /\ Inv!Typed(inv, OrderIds, SKUs, Quantities) /\ Quantities \in SUBSET Nat
      /\ InventoryEvolves(inv, inv')
  BY ConstantsAssumption, StepInventory DEF TypeOK, WellTyped, OrderIds, OldOnesEvolve
<1>2. ASSUME NEW r \in DOMAIN inv.requisitions, ~Settled(inv'.requisitions[r])
      PROVE  /\ orders'[inv'.requisitions[r].order].req = r
             /\ orders'[inv'.requisitions[r].order].state \in Awaiting
  <2>. DEFINE w == inv.requisitions[r].order
  <2>1. w \in OrderIds
    BY <1>1, RequisitionFields DEF Inv!Requisition
  <2>2. inv'.requisitions[r].order = w /\ ~Settled(inv.requisitions[r])
    BY <1>1, <1>2 DEF InventoryEvolves
  <2>3. orders[w].req = r /\ orders[w].state \in Awaiting
    BY <2>2 DEF OwnerInv
  <2>4. r # 0
    BY <1>1, EntryOf, LenProperties DEF Inv!Typed
  <2>. HIDE DEF w
  <2>5. ~ConfirmParts(w)
    BY <1>2, <2>1, <2>3, ConfirmSettles DEF Settled
  <2>6. ~FailPartsRequisition(w)
    <3>1. FailPartsRequisition(w) => inv' = Inv!Rollback(inv, r)
      BY <2>3, <2>4 DEF FailPartsRequisition
    <3>2. Settled(Inv!Rollback(inv, r).requisitions[r])
      BY <1>1, RollbackTyped
    <3>. QED
      BY <1>2, <3>1, <3>2
  <2>7. orders'[w].state \in Awaiting
    BY <2>1, <2>3, <2>5, <2>6, StepAwaits DEF OrderInv
  <2>8. orders'[w].req = r
    <3>1. orders[w].state # "executing"
      BY <2>3 DEF Awaiting, ForParts
    <3>. QED
      BY <2>1, <2>3, <3>1, StepReq DEF RequestParts
  <2>. QED
    BY <2>2, <2>7, <2>8
<1>3. ASSUME NEW r \in DOMAIN inv'.requisitions, r \notin DOMAIN inv.requisitions
      PROVE  /\ orders'[inv'.requisitions[r].order].req = r
             /\ orders'[inv'.requisitions[r].order].state \in Awaiting
  <2>1. PICK w \in OrderIds, s \in SKUs, n \in Quantities : RequestParts(w, s, n)
    BY <1>3, StepInventory DEF OldOnesEvolve
  <2>2. r = Len(inv.requisitions) + 1 /\ inv'.requisitions[r].order = w
    BY <1>3, <2>1, RequestAppends DEF Appends
  <2>. QED
    BY <2>1, <2>2, RequestFacts
<1>. QED
  BY <1>2, <1>3 DEF OwnerInv

(***************************************************************************)
(* Stock is reserved for no one but an order that waits for it, or that    *)
(* was cancelled while it waited: neither a failure nor a procurement for  *)
(* an order that has gone on leaves a reservation behind.                  *)
(***************************************************************************)
THEOREM ReservationOwned == Spec => []ReservationHasOwner
<1>1. Init => OwnerInv
  BY DEF Init, OwnerInv, Inv!EmptyInventory
<1>2. TypeOK /\ OrderInv /\ OwnerInv /\ [Next]_vars => OwnerInv'
  BY OwnerStep
<1>3. OwnerInv => ReservationHasOwner
  BY DEF OwnerInv, ReservationHasOwner, Settled, Awaiting, ForParts
<1>. QED
  BY <1>1, <1>2, <1>3, OrdersKept, PTL DEF Spec

-----------------------------------------------------------------------------
(***************************************************************************)
(* What is reserved.                                                       *)
(***************************************************************************)
LEMMA StepBalanced ==
  ASSUME TypeOK, Balanced(inv), [Next]_vars
  PROVE  Balanced(inv')
<1>1. /\ Quantities \in SUBSET Nat /\ StockLevels \subseteq Nat
      /\ Inv!Typed(inv, OrderIds, SKUs, Quantities)
      /\ \A w \in OrderIds : orders[w].req \in {0} \cup DOMAIN inv.requisitions
  BY ConstantsAssumption, OrderOf DEF TypeOK, WellTyped, OrderIds
<1>2. ASSUME NEW w \in OrderIds, NEW s \in SKUs, NEW n \in Quantities, RequestParts(w, s, n)
      PROVE  Balanced(inv')
  BY <1>1, <1>2, SubmitBalanced DEF RequestParts, Inv!CanSubmit
<1>3. ASSUME NEW w \in OrderIds, ConfirmParts(w) PROVE Balanced(inv')
  BY <1>1, <1>3, ConfirmBalanced DEF ConfirmParts
<1>4. ASSUME NEW w \in OrderIds, NEW s \in SKUs, NEW n \in Quantities,
             EmergencyProcurement(w, s, n)
      PROVE  Balanced(inv')
  <2>1. PICK mid :
          /\ Inv!Typed(mid, OrderIds, SKUs, Quantities)
          /\ mid.requisitions = inv.requisitions
          /\ Balanced(inv) => Balanced(mid)
          /\ inv' = IF orders[w].req = 0 THEN mid ELSE Inv!Recheck(mid, orders[w].req)
    BY <1>4, ProcurementFacts
  <2>. QED
    BY <1>1, <2>1, RecheckBalanced
<1>5. ASSUME NEW w \in OrderIds, FailPartsRequisition(w) \/ CancelOrder(w)
      PROVE  Balanced(inv')
  <2>1. inv' = inv \/ (orders[w].req # 0 /\ inv' = Inv!Rollback(inv, orders[w].req))
    BY <1>5 DEF FailPartsRequisition, CancelOrder, Leave
  <2>. QED
    BY <1>1, <2>1, RollbackBalanced
<1>6. ASSUME NEW s \in SKUs, NEW n \in StockLevels, RegisterPart(s, n)
      PROVE  Balanced(inv')
  BY <1>1, <1>6, RegisterPartBalanced DEF RegisterPart
<1>7. ASSUME NEW w \in OrderIds,
             \/ DetectAnomaly(w) \/ ReportAnomaly(w) \/ AuthorizeMaintenance(w)
             \/ RejectAuthorization(w) \/ EnterCabin(w) \/ CompleteRepair(w)
             \/ RequestRestoration(w) \/ (\E b, g \in BOOLEAN : ApproveRestoration(w, b, g))
             \/ InterruptApproval(w) \/ RecheckComplete(w) \/ EscalateOrder(w)
             \/ ResumeFromEscalation(w) \/ CloseOrder(w)
             \/ DeadlinePasses(w) \/ Place(w)
      PROVE  inv' = inv
  BY <1>7 DEF DetectAnomaly, ReportAnomaly, AuthorizeMaintenance, RejectAuthorization,
     EnterCabin, CompleteRepair, RequestRestoration, ApproveRestoration,
     InterruptApproval, RecheckComplete, Step, EscalateOrder, ResumeFromEscalation,
     CloseOrder, Leave, DeadlinePasses, Place, PlaceInspection, PlaceMaintenance
<1>8. CASE \/ UNCHANGED vars \/ Checks
           \/ \E c \in CabinIds : RegisterCabin(c)
           \/ Creations
  BY <1>8 DEF vars, Checks, CheckAnomalyDeadlines, CheckMaintenanceTimeouts,
     RegisterCabin, Creations, Create
<1>. QED
  BY <1>2, <1>3, <1>4, <1>5, <1>6, <1>7, <1>8
  DEF Next, Persisting, Calls, Unsaved, Outside, Registrations, Clock

LEMMA OrdersBalanced == Spec => [](TypeOK /\ Balanced(inv))
<1>1. Init => Balanced(inv)
  BY EmptyBalanced DEF Init
<1>2. TypeOK /\ Balanced(inv) /\ [Next]_vars => (TypeOK /\ Balanced(inv))'
  BY TypeStep, StepBalanced
<1>. QED
  BY <1>1, <1>2, TypeInit, PTL DEF Spec

LEMMA BalancedReserved == Balanced(inv) => ReservedIsPending
BY Zenon DEF Balanced, PartBalanced, PendingOf, Asked, ReservedIsPending

(***************************************************************************)
(* The orchestrator's calls reserve what they submit and give back what    *)
(* they roll back or hand out, once each: what is reserved of a part is    *)
(* the sum of what its pending requisitions ask for.                       *)
(***************************************************************************)
THEOREM StockReserved == Spec => []ReservedIsPending
BY OrdersBalanced, BalancedReserved, PTL
=============================================================================
