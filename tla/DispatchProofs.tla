---------------------------- MODULE DispatchProofs ----------------------------
(***************************************************************************)
(* Theorems about the orchestrator, for any cabins, orders, parts and      *)
(* bounds.  The runs of MCDispatch show the same properties on small       *)
(* instances.                                                              *)
(***************************************************************************)
EXTENDS Dispatch, EntityProofs, SequenceTheorems, FiniteSetTheorems, TLAPS

-----------------------------------------------------------------------------
(***************************************************************************)
(* Lemmas about the helpers.                                               *)
(***************************************************************************)

\* A transition changes the state only, and only to the target.
LEMMA TransitionField ==
  ASSUME NEW o \in Order, NEW to \in States
  PROVE  /\ Transition(o, to) \in Order
         /\ Transition(o, to).state \in {o.state, to}
         /\ Transition(o, to).type = o.type
         /\ Transition(o, to).cabin = o.cabin
         /\ Transition(o, to).priority = o.priority
         /\ Transition(o, to).anomaly = o.anomaly
         /\ Transition(o, to).deadline = o.deadline
         /\ Transition(o, to).req = o.req
BY DEF Transition, Order

\* Replacing one order keeps the maps well typed.
LEMMA OrderReplaced ==
  ASSUME NEW os, NEW cs, NEW iv, WellTyped(os, cs, iv),
         NEW w \in DOMAIN os, NEW o \in Order,
         o.req \in {0} \cup DOMAIN iv.requisitions
  PROVE  LET new == [os EXCEPT ![w] = o]
         IN  /\ WellTyped(new, cs, iv)
             /\ DOMAIN new = DOMAIN os
             /\ new[w] = o
             /\ \A v \in DOMAIN os : v # w => new[v] = os[v]
<1>. DEFINE new == [os EXCEPT ![w] = o]
<1>1. /\ new \in Seq(Order)
      /\ DOMAIN new = DOMAIN os
      /\ new[w] = o
      /\ \A v \in DOMAIN os : v # w => new[v] = os[v]
  BY ReplaceEntry DEF WellTyped, OrdersTyped
<1>. HIDE DEF new
<1>. QED
  BY <1>1 DEF WellTyped, OrdersTyped, CabinsTyped

\* What is known of one order and of one cabin.
LEMMA OrderOf ==
  ASSUME NEW os, NEW cs, NEW iv, WellTyped(os, cs, iv), NEW w \in DOMAIN os
  PROVE  /\ os[w] \in Order
         /\ os[w].req \in {0} \cup DOMAIN iv.requisitions
         /\ os[w].cabin \in CabinIds
         /\ os[w].type \in Types
         /\ os[w].state \in States
         /\ w \in Nat \ {0}
<1>1. os \in Seq(Order)
  BY DEF WellTyped, OrdersTyped
<1>2. os[w] \in Order /\ DOMAIN os = 1..Len(os) /\ Len(os) \in Nat
  BY <1>1, EntryOf, LenProperties
<1>. QED
  BY <1>2 DEF WellTyped, OrdersTyped, Order

\* Moving one order keeps the maps well typed.
LEMMA MoveTyped ==
  ASSUME NEW os, NEW cs, NEW iv, WellTyped(os, cs, iv),
         NEW w \in DOMAIN os, NEW to \in States
  PROVE  /\ WellTyped(Move(os, w, to), cs, iv)
         /\ DOMAIN Move(os, w, to) = DOMAIN os
         /\ Move(os, w, to)[w] = Transition(os[w], to)
         /\ \A v \in DOMAIN os : v # w => Move(os, w, to)[v] = os[v]
BY OrderOf, TransitionField, OrderReplaced DEF Move

\* Replacing one cabin keeps the maps well typed.
LEMMA CabinReplaced ==
  ASSUME NEW os, NEW cs, NEW iv, WellTyped(os, cs, iv),
         NEW c \in DOMAIN cs, NEW k \in Cab!Cabins,
         k.active \in {Cab!Nobody} \cup DOMAIN os
  PROVE  /\ WellTyped(os, [cs EXCEPT ![c] = k], iv)
         /\ DOMAIN [cs EXCEPT ![c] = k] = DOMAIN cs
         /\ [cs EXCEPT ![c] = k][c] = k
         /\ \A d \in DOMAIN cs : d # c => [cs EXCEPT ![c] = k][d] = cs[d]
BY DEF WellTyped, CabinsTyped

\* The operations on one cabin.
LEMMA CabinOps ==
  ASSUME NEW k \in Cab!Cabins
  PROVE  /\ Cab!Release(k) \in Cab!Cabins
         /\ Cab!Release(k).active = Cab!Nobody
         /\ Cab!Freeze(k) \in Cab!Cabins
         /\ Cab!Freeze(k).active = k.active
         /\ Cab!Thaw(k) \in Cab!Cabins
         /\ Cab!Thaw(k).active = k.active
         /\ \A w \in Nat, b \in BOOLEAN :
              Cab!Acquire(k, w, b) \in Cab!Cabins /\ Cab!Acquire(k, w, b).active = w
         /\ \A b, g \in BOOLEAN :
              Cab!Recheck(k, b, g) \in Cab!Cabins /\ Cab!Recheck(k, b, g).active = k.active
BY DEF Cab!Release, Cab!Freeze, Cab!Thaw, Cab!Acquire, Cab!Recheck, Cab!Cabins,
       Cab!Statuses, Cab!Nobody

\* Acquiring a free cabin.
LEMMA AcquiredTyped ==
  ASSUME NEW os, NEW cs, NEW iv, WellTyped(os, cs, iv),
         NEW c, Free(cs, c), NEW w \in DOMAIN os, NEW type
  PROVE  /\ WellTyped(os, Acquired(cs, c, w, type), iv)
         /\ DOMAIN Acquired(cs, c, w, type) = DOMAIN cs
         /\ Acquired(cs, c, w, type)[c] = Cab!Acquire(cs[c], w, type = "inspection")
         /\ Acquired(cs, c, w, type)[c].active = w
         /\ \A d \in DOMAIN cs : d # c => Acquired(cs, c, w, type)[d] = cs[d]
<1>1. c \in DOMAIN cs /\ cs[c] \in Cab!Cabins /\ w \in Nat
  BY OrderOf DEF Free, WellTyped, CabinsTyped
<1>. DEFINE k == Cab!Acquire(cs[c], w, type = "inspection")
<1>2. k \in Cab!Cabins /\ k.active = w
  BY <1>1, CabinOps
<1>3. Acquired(cs, c, w, type) = [cs EXCEPT ![c] = k]
  BY DEF Acquired
<1>. HIDE DEF k
<1>4. k.active \in {Cab!Nobody} \cup DOMAIN os
  BY <1>2
<1>5. /\ WellTyped(os, [cs EXCEPT ![c] = k], iv)
      /\ DOMAIN [cs EXCEPT ![c] = k] = DOMAIN cs
      /\ [cs EXCEPT ![c] = k][c] = k
      /\ \A d \in DOMAIN cs : d # c => [cs EXCEPT ![c] = k][d] = cs[d]
  BY <1>1, <1>2, <1>4, CabinReplaced
<1>. QED
  BY <1>2, <1>3, <1>5 DEF k

\* Releasing a cabin, registered or not.
LEMMA ReleasedTyped ==
  ASSUME NEW os, NEW cs, NEW iv, WellTyped(os, cs, iv), NEW c
  PROVE  /\ WellTyped(os, Released(cs, c), iv)
         /\ DOMAIN Released(cs, c) = DOMAIN cs
         /\ c \in DOMAIN cs => Released(cs, c)[c] = Cab!Release(cs[c])
         /\ \A d \in DOMAIN cs : d # c => Released(cs, c)[d] = cs[d]
<1>1. CASE c \in DOMAIN cs
  <2>1. cs[c] \in Cab!Cabins
    BY <1>1 DEF WellTyped, CabinsTyped
  <2>. QED
    BY <1>1, <2>1, CabinOps, CabinReplaced DEF Released
<1>2. CASE c \notin DOMAIN cs
  BY <1>2 DEF Released
<1>. QED
  BY <1>1, <1>2

\* An order is inserted at a place of the queue: between 0 and all entries are ahead.
LEMMA AheadInRange ==
  ASSUME NEW S, NEW q \in Seq(S), NEW os, NEW w
  PROVE  Ahead(os, q, w) \in 0..Len(q)
<1>. DEFINE first == {i \in DOMAIN q : Before(os, q[i], w)}
<1>1. DOMAIN q = 1..Len(q) /\ Len(q) \in Nat
  BY LenProperties
<1>2. IsFiniteSet(1..Len(q)) /\ Cardinality(1..Len(q)) = Len(q)
  BY SMTT(30), <1>1, FS_Interval
<1>3. first \subseteq 1..Len(q)
  BY <1>1
<1>. HIDE DEF first
<1>4. IsFiniteSet(first) /\ Cardinality(first) <= Cardinality(1..Len(q))
  BY <1>2, <1>3, FS_Subset
<1>5. Cardinality(first) \in Nat
  BY <1>4, FS_CardinalityType
<1>. QED
  BY <1>1, <1>2, <1>4, <1>5 DEF Ahead, first

\* Enqueueing puts the order behind those ahead of it, and before the others.
LEMMA EnqueueShape ==
  ASSUME NEW S, NEW q \in Seq(S), NEW os, NEW w \in S
  PROVE  LET e == Enqueue(os, q, w)
             k == Ahead(os, q, w)
         IN  /\ e \in Seq(S)
             /\ Len(e) = Len(q) + 1
             /\ k \in 0..Len(q)
             /\ \A i \in 1..k : e[i] = q[i]
             /\ e[k + 1] = w
             /\ \A i \in 1..(Len(q) - k) : e[k + 1 + i] = q[k + i]
<1>. DEFINE k     == Ahead(os, q, w)
            front == SubSeq(q, 1, k)
            rest  == SubSeq(q, k + 1, Len(q))
            upTo  == front \o <<w>>
            all   == upTo \o rest
<1>1. k \in 0..Len(q) /\ Len(q) \in Nat /\ DOMAIN q = 1..Len(q)
  BY AheadInRange, LenProperties
<1>2. \A i \in 1..Len(q) : q[i] \in S
  BY ElementOfSeq
<1>3. Enqueue(os, q, w) = all
  <2>1. Enqueue(os, q, w) = (SubSeq(q, 1, (k + 1) - 1) \o <<w>>) \o SubSeq(q, k + 1, Len(q))
    BY DEF Enqueue, InsertAt
  <2>2. (k + 1) - 1 = k
    BY <1>1
  <2>. QED
    BY <2>1, <2>2
<1>. HIDE DEF k
<1>4. /\ front \in Seq(S)
      /\ Len(front) = k
      /\ \A i \in 1..k : front[i] = q[i]
  BY <1>1, <1>2, SubSeqProperties
<1>5. /\ rest \in Seq(S)
      /\ Len(rest) = Len(q) - k
      /\ \A i \in 1..(Len(q) - k) : rest[i] = q[k + i]
  <2>1. /\ rest \in Seq(S)
        /\ Len(rest) = IF k + 1 <= Len(q) THEN Len(q) - (k + 1) + 1 ELSE 0
        /\ \A i \in 1..(Len(q) - (k + 1) + 1) : rest[i] = q[(k + 1) + i - 1]
    <3>1. k + 1 \in Int /\ Len(q) \in Int /\ \A i \in (k + 1)..Len(q) : q[i] \in S
      BY <1>1, <1>2
    <3>. QED
      BY <3>1, SubSeqProperties
  <2>. HIDE DEF rest
  <2>. HIDE DEF all, upTo, front
  <2>2. /\ Len(q) - (k + 1) + 1 = Len(q) - k
        /\ ~(k + 1 <= Len(q)) => Len(q) - k = 0
    <3>1. k \in Int /\ k <= Len(q) /\ Len(q) \in Int
      BY <1>1
    <3>. QED
      BY <3>1
  <2>3. \A i \in 1..(Len(q) - k) : (k + 1) + i - 1 = k + i
    BY <1>1
  <2>. QED
    BY <1>1, <2>1, <2>2, <2>3
<1>6. <<w>> \in Seq(S) /\ Len(<<w>>) = 1 /\ <<w>>[1] = w
  OBVIOUS
<1>. HIDE DEF front, rest
<1>7. /\ upTo \in Seq(S)
      /\ Len(upTo) = k + 1
      /\ \A i \in 1..k : upTo[i] = front[i]
      /\ upTo[k + 1] = w
  <2>1. /\ upTo \in Seq(S)
        /\ Len(upTo) = k + 1
        /\ \A i \in 1..(k + 1) :
             upTo[i] = IF i <= k THEN front[i] ELSE <<w>>[i - k]
    BY <1>4, <1>6, ConcatProperties
  <2>. HIDE DEF upTo
  <2>2. (k + 1) - k = 1 /\ ~(k + 1 <= k) /\ k + 1 \in 1..(k + 1)
    BY <1>1
  <2>3. \A i \in 1..k : i \in 1..(k + 1) /\ i <= k
    BY <1>1
  <2>. QED
    BY <1>6, <2>1, <2>2, <2>3
<1>. HIDE DEF upTo
<1>8. /\ all \in Seq(S)
      /\ Len(all) = Len(q) + 1
      /\ \A i \in 1..(k + 1) : all[i] = upTo[i]
      /\ \A i \in 1..(Len(q) - k) : all[k + 1 + i] = rest[i]
  <2>1. /\ all \in Seq(S)
        /\ Len(all) = Len(upTo) + Len(rest)
        /\ \A i \in 1..(Len(upTo) + Len(rest)) :
             all[i] = IF i <= Len(upTo) THEN upTo[i] ELSE rest[i - Len(upTo)]
    BY <1>5, <1>7, ConcatProperties
  <2>. HIDE DEF all
  <2>2. Len(upTo) + Len(rest) = Len(q) + 1
    BY <1>1, <1>5, <1>7
  <2>3. \A i \in 1..(k + 1) : i \in 1..(Len(q) + 1) /\ i <= k + 1
    BY <1>1
  <2>4. \A i \in 1..(Len(q) - k) :
          /\ k + 1 + i \in 1..(Len(q) + 1)
          /\ ~(k + 1 + i <= k + 1)
          /\ (k + 1 + i) - (k + 1) = i
    BY <1>1
  <2>. QED
    BY <1>7, <2>1, <2>2, <2>3, <2>4
<1>. HIDE DEF all
<1>9. \A i \in 1..k : i \in 1..(k + 1)
  BY <1>1
<1>10. k + 1 \in 1..(k + 1)
  BY <1>1
<1>. QED
  BY <1>1, <1>3, <1>4, <1>5, <1>7, <1>8, <1>9, <1>10 DEF k

\* Enqueueing adds the order and nothing else.
LEMMA EnqueueEntries ==
  ASSUME NEW S, NEW q \in Seq(S), NEW os, NEW w \in S
  PROVE  /\ Enqueue(os, q, w) \in Seq(S)
         /\ \A i \in DOMAIN Enqueue(os, q, w) :
              \/ Enqueue(os, q, w)[i] = w
              \/ \E j \in DOMAIN q : Enqueue(os, q, w)[i] = q[j]
<1>. DEFINE e == Enqueue(os, q, w)
            k == Ahead(os, q, w)
<1>1. /\ e \in Seq(S)
      /\ Len(e) = Len(q) + 1
      /\ k \in 0..Len(q)
      /\ \A i \in 1..k : e[i] = q[i]
      /\ e[k + 1] = w
      /\ \A i \in 1..(Len(q) - k) : e[k + 1 + i] = q[k + i]
  BY EnqueueShape
<1>2. DOMAIN q = 1..Len(q) /\ Len(q) \in Nat /\ DOMAIN e = 1..Len(e)
  BY <1>1, LenProperties
<1>. HIDE DEF e, k
<1>3. ASSUME NEW i \in 1..(Len(q) + 1)
      PROVE  e[i] = w \/ \E j \in 1..Len(q) : e[i] = q[j]
  <2>1. CASE i <= k
    <3>1. i \in 1..k /\ i \in 1..Len(q)
      BY <2>1, <1>1, <1>2
    <3>. QED
      BY <3>1, <1>1
  <2>2. CASE i = k + 1
    BY <2>2, <1>1
  <2>3. CASE i > k + 1
    <3>. DEFINE j == i - (k + 1)
    <3>1. j \in 1..(Len(q) - k) /\ k + 1 + j = i /\ k + j \in 1..Len(q)
      BY <2>3, <1>1, <1>2
    <3>. HIDE DEF j
    <3>2. e[i] = q[k + j]
      BY <3>1, <1>1
    <3>. QED
      BY <3>1, <3>2
  <2>4. i <= k \/ i = k + 1 \/ i > k + 1
    BY <1>1, <1>2
  <2>. QED
    BY <2>1, <2>2, <2>3, <2>4
<1>. QED
  BY <1>1, <1>2, <1>3 DEF e

\* What remains of a queue holds entries of the queue.
LEMMA RestOfQueue ==
  ASSUME NEW S, NEW q \in Seq(S), NEW m \in Nat \ {0}
  PROVE  /\ SubSeq(q, m, Len(q)) \in Seq(S)
         /\ \A i \in DOMAIN SubSeq(q, m, Len(q)) :
              \E j \in DOMAIN q : SubSeq(q, m, Len(q))[i] = q[j]
<1>. DEFINE rest == SubSeq(q, m, Len(q))
<1>1. Len(q) \in Nat /\ DOMAIN q = 1..Len(q) /\ \A i \in 1..Len(q) : q[i] \in S
  BY LenProperties, ElementOfSeq
<1>2. /\ rest \in Seq(S)
      /\ Len(rest) = IF m <= Len(q) THEN Len(q) - m + 1 ELSE 0
      /\ \A i \in 1..(Len(q) - m + 1) : rest[i] = q[m + i - 1]
  BY <1>1, SubSeqProperties
<1>. HIDE DEF rest
<1>3. DOMAIN rest = 1..Len(rest)
  BY <1>2, LenProperties
<1>4. ASSUME NEW i \in 1..Len(rest)
      PROVE  \E j \in 1..Len(q) : rest[i] = q[j]
  <2>1. i \in 1..(Len(q) - m + 1) /\ m + i - 1 \in 1..Len(q)
    BY <1>1, <1>2
  <2>. QED
    BY <1>2, <2>1
<1>. QED
  BY <1>1, <1>2, <1>3, <1>4 DEF rest

(***************************************************************************)
(* assignFromQueue: the maps are as they were, or one queued order moved   *)
(* to its working state and got the cabin, which was free.                 *)
(***************************************************************************)
Advanced(os, cs, c, w) ==
  /\ w \in DOMAIN os
  /\ Waiting(os, w)
  /\ Free(cs, c)
  /\ cabins' = Acquired(cs, c, w, os[w].type)
  /\ orders' = Move(os, w, IF os[w].type = "inspection" THEN "in_progress"
                                                        ELSE "executing")

LEMMA AssignFacts ==
  ASSUME NEW os, NEW cs, NEW qs, NEW ns, NEW iv, NEW c \in CabinIds,
         WellTyped(os, cs, iv),
         qs \in [CabinIds -> Seq(DOMAIN os)],
         ns \subseteq Observed \X DOMAIN os,
         AssignFromQueue(os, cs, qs, ns, c)
  PROVE  /\ WellTyped(orders', cabins', iv)
         /\ DOMAIN orders' = DOMAIN os
         /\ queues' \in [CabinIds -> Seq(DOMAIN os)]
         /\ notifs' \subseteq Observed \X DOMAIN os
         /\ \A d \in CabinIds : \A i \in DOMAIN queues'[d] :
              \E j \in DOMAIN qs[d] : queues'[d][i] = qs[d][j]
         /\ \/ orders' = os /\ cabins' = cs
            \/ \E i \in DOMAIN qs[c] : Advanced(os, cs, c, qs[c][i])
<1>1. CASE /\ orders' = os /\ cabins' = cs /\ notifs' = ns
           /\ queues' = [qs EXCEPT ![c] = <<>>]
  BY <1>1
<1>2. ASSUME NEW i \in DOMAIN qs[c], Waiting(os, qs[c][i]), ~Free(cs, c),
             queues' = [qs EXCEPT ![c] = SubSeq(@, i, Len(@))],
             orders' = os, cabins' = cs, notifs' = ns
      PROVE  /\ queues' \in [CabinIds -> Seq(DOMAIN os)]
             /\ \A d \in CabinIds : \A k \in DOMAIN queues'[d] :
                  \E j \in DOMAIN qs[d] : queues'[d][k] = qs[d][j]
  <2>1. qs[c] \in Seq(DOMAIN os) /\ i \in Nat \ {0}
    BY LenProperties
  <2>2. /\ SubSeq(qs[c], i, Len(qs[c])) \in Seq(DOMAIN os)
        /\ \A k \in DOMAIN SubSeq(qs[c], i, Len(qs[c])) :
             \E j \in DOMAIN qs[c] : SubSeq(qs[c], i, Len(qs[c]))[k] = qs[c][j]
    BY <2>1, RestOfQueue
  <2>. DEFINE rest == SubSeq(qs[c], i, Len(qs[c]))
  <2>3. queues' = [qs EXCEPT ![c] = rest]
    BY <1>2
  <2>. HIDE DEF rest
  <2>. QED
    BY <2>2, <2>3 DEF rest
<1>3. ASSUME NEW i \in DOMAIN qs[c], Waiting(os, qs[c][i]), Free(cs, c),
             queues' = [qs EXCEPT ![c] = SubSeq(@, i + 1, Len(@))],
             notifs' = ns \cup Notified("queue_advance", {qs[c][i]}),
             cabins' = Acquired(cs, c, qs[c][i], os[qs[c][i]].type),
             orders' = Move(os, qs[c][i], IF os[qs[c][i]].type = "inspection"
                                          THEN "in_progress" ELSE "executing")
      PROVE  /\ WellTyped(orders', cabins', iv)
             /\ DOMAIN orders' = DOMAIN os
             /\ queues' \in [CabinIds -> Seq(DOMAIN os)]
             /\ notifs' \subseteq Observed \X DOMAIN os
             /\ \A d \in CabinIds : \A k \in DOMAIN queues'[d] :
                  \E j \in DOMAIN qs[d] : queues'[d][k] = qs[d][j]
             /\ Advanced(os, cs, c, qs[c][i])
  <2>. DEFINE w    == qs[c][i]
              to   == IF os[w].type = "inspection" THEN "in_progress" ELSE "executing"
              rest == SubSeq(qs[c], i + 1, Len(qs[c]))
  <2>1. qs[c] \in Seq(DOMAIN os) /\ i + 1 \in Nat \ {0} /\ w \in DOMAIN os
    BY LenProperties, EntryOf
  <2>2. /\ rest \in Seq(DOMAIN os)
        /\ \A k \in DOMAIN rest : \E j \in DOMAIN qs[c] : rest[k] = qs[c][j]
    BY <2>1, RestOfQueue
  <2>3. queues' = [qs EXCEPT ![c] = rest]
    BY <1>3
  <2>4. to \in States
    BY DEF States
  <2>5. WellTyped(os, Acquired(cs, c, w, os[w].type), iv)
    BY <1>3, <2>1, AcquiredTyped
  <2>6. /\ WellTyped(Move(os, w, to), Acquired(cs, c, w, os[w].type), iv)
        /\ DOMAIN Move(os, w, to) = DOMAIN os
    BY <2>1, <2>4, <2>5, MoveTyped
  <2>7. Advanced(os, cs, c, w)
    BY <1>3, <2>1 DEF Advanced
  <2>8. notifs' \subseteq Observed \X DOMAIN os
    BY <1>3, <2>1 DEF Notified
  <2>9. orders' = Move(os, w, to) /\ cabins' = Acquired(cs, c, w, os[w].type)
    BY <1>3
  <2>. HIDE DEF rest, w, to
  <2>10. queues' \in [CabinIds -> Seq(DOMAIN os)]
    BY <2>2, <2>3
  <2>11. \A d \in CabinIds : \A k \in DOMAIN queues'[d] :
           \E j \in DOMAIN qs[d] : queues'[d][k] = qs[d][j]
    BY <2>2, <2>3
  <2>12. WellTyped(orders', cabins', iv) /\ DOMAIN orders' = DOMAIN os
    BY <2>6, <2>9
  <2>. QED
    BY <2>7, <2>8, <2>10, <2>11, <2>12 DEF w
<1>. QED
  BY <1>1, <1>2, <1>3 DEF AssignFromQueue

-----------------------------------------------------------------------------
(***************************************************************************)
(* Type correctness.                                                       *)
(***************************************************************************)

\* The inventory may be replaced by a well-typed one with at least its requisitions.
LEMMA InventoryReplaced ==
  ASSUME NEW os, NEW cs, NEW iv, WellTyped(os, cs, iv), NEW new,
         Inv!Typed(new, DOMAIN os, SKUs, Quantities),
         DOMAIN iv.requisitions \subseteq DOMAIN new.requisitions
  PROVE  WellTyped(os, cs, new)
BY DEF WellTyped, OrdersTyped

(***************************************************************************)
(* What EmergencyProcurement rechecks a requisition against, whether the   *)
(* part is registered anew in between or not.                              *)
(***************************************************************************)
LEMMA ArrivedFacts ==
  ASSUME TypeOK, NEW s \in SKUs, NEW n \in Quantities, s \in DOMAIN inv.parts,
         NEW iv \in Arrived(s, n)
  PROVE  /\ Inv!Typed(iv, OrderIds, SKUs, Quantities)
         /\ iv.requisitions = inv.requisitions
         /\ Balanced(inv) => Balanced(iv)
<1>. DEFINE mid == Inv!Procure(inv, s, n)
<1>1. /\ Inv!Typed(inv, OrderIds, SKUs, Quantities)
      /\ Quantities \in SUBSET Nat /\ StockLevels \subseteq Nat
  BY ConstantsAssumption DEF TypeOK, WellTyped, OrderIds
<1>2. /\ Inv!Typed(mid, OrderIds, SKUs, Quantities)
      /\ mid.requisitions = inv.requisitions
      /\ Balanced(inv) => Balanced(mid)
  BY <1>1, ProcureTyped, ProcureBalanced
<1>3. iv = mid \/ \E m \in StockLevels : iv = Inv!RegisterPart(mid, s, m)
  BY DEF Arrived
<1>. HIDE DEF mid
<1>4. ASSUME NEW m \in StockLevels, iv = Inv!RegisterPart(mid, s, m)
      PROVE  /\ Inv!Typed(iv, OrderIds, SKUs, Quantities)
             /\ iv.requisitions = inv.requisitions
             /\ Balanced(inv) => Balanced(iv)
  BY <1>1, <1>2, <1>4, RegisterPartTyped, RegisterPartBalanced
<1>. QED
  BY <1>2, <1>3, <1>4

LEMMA ProcurementFacts ==
  ASSUME TypeOK, NEW w \in OrderIds, NEW s \in SKUs, NEW n \in Quantities,
         EmergencyProcurement(w, s, n)
  PROVE  \E mid : /\ Inv!Typed(mid, OrderIds, SKUs, Quantities)
                  /\ mid.requisitions = inv.requisitions
                  /\ Balanced(inv) => Balanced(mid)
                  /\ inv' = IF orders[w].req = 0 THEN mid
                                                 ELSE Inv!Recheck(mid, orders[w].req)
<1>1. PICK mid \in Arrived(s, n) :
        inv' = IF orders[w].req = 0 THEN mid ELSE Inv!Recheck(mid, orders[w].req)
  BY DEF EmergencyProcurement
<1>2. s \in DOMAIN inv.parts
  BY DEF EmergencyProcurement
<1>. QED
  BY <1>1, <1>2, ArrivedFacts

\* Most actions replace one order and leave queues and creators alone.
LEMMA OneOrderStep ==
  ASSUME TypeOK, NEW w \in OrderIds, NEW o \in Order,
         o.req \in {0} \cup DOMAIN inv.requisitions,
         orders' = [orders EXCEPT ![w] = o],
         UNCHANGED <<cabins, inv, queues, creating>>,
         notifs' \subseteq Observed \X OrderIds
  PROVE  TypeOK'
<1>1. WellTyped(orders', cabins, inv) /\ OrderIds' = OrderIds
  BY OrderReplaced DEF TypeOK, OrderIds
<1>. QED
  BY <1>1 DEF TypeOK

\* The same for an order that moves to a state and keeps its other fields.
LEMMA MoveStep ==
  ASSUME TypeOK, NEW w \in OrderIds, NEW to \in States,
         orders' = Move(orders, w, to),
         UNCHANGED <<cabins, inv, queues, creating>>,
         notifs' \subseteq Observed \X OrderIds
  PROVE  TypeOK'
<1>1. /\ Transition(orders[w], to) \in Order
      /\ Transition(orders[w], to).req \in {0} \cup DOMAIN inv.requisitions
  BY OrderOf, TransitionField DEF TypeOK, OrderIds
<1>. QED
  BY <1>1, OneOrderStep DEF Move

\* What a step may add to notifs.
LEMMA NotifiedTyped ==
  ASSUME TypeOK, NEW type, NEW ws \in SUBSET OrderIds
  PROVE  notifs \cup Notified(type, ws) \subseteq Observed \X OrderIds
BY DEF TypeOK, Notified

\* A new order has the next identifier; all references stay good.
LEMMA CreateStep ==
  ASSUME TypeOK, NEW type \in OrderTypes, NEW c \in CabinIds, NEW p \in Urgencies,
         Create(type, c, p)
  PROVE  /\ TypeOK'
         /\ OrderIds' = OrderIds \cup {Len(orders) + 1}
         /\ Len(orders) + 1 \notin OrderIds
         /\ orders'[Len(orders) + 1] = NewOrder(type, c, p)
         /\ \A w \in OrderIds : orders'[w] = orders[w]
<1>. DEFINE new == NewOrder(type, c, p)
            n   == Len(orders) + 1
<1>1. new \in Order /\ new.req = 0
  BY ConstantsAssumption DEF NewOrder, Order, States, Anomalies, Deadlines
<1>2. orders \in Seq(Order)
  BY DEF TypeOK, WellTyped, OrdersTyped
<1>3. orders' = Append(orders, new)
  BY DEF Create
<1>. HIDE DEF new
<1>4. /\ orders' \in Seq(Order)
      /\ Len(orders') = n
      /\ \A w \in 1..Len(orders) : orders'[w] = orders[w]
      /\ orders'[n] = new
  BY <1>1, <1>2, <1>3, AppendProperties
<1>5. /\ OrderIds = 1..Len(orders)
      /\ OrderIds' = 1..n
      /\ Len(orders) \in Nat
  BY <1>2, <1>4, LenProperties DEF OrderIds
<1>6. OrderIds' = OrderIds \cup {n} /\ n \notin OrderIds
  BY <1>5
<1>7. OrdersTyped(orders', inv)
  BY <1>1, <1>4, <1>5, <1>6 DEF TypeOK, WellTyped, OrdersTyped, OrderIds
<1>8. CabinsTyped(orders', cabins)
  BY <1>6 DEF TypeOK, WellTyped, CabinsTyped, OrderIds
<1>9. Inv!Typed(inv, OrderIds', SKUs, Quantities)
  <2>. DEFINE R(owners) == Inv!Requisition(owners, DOMAIN inv.parts, Quantities)
  <2>1. Inv!Typed(inv, OrderIds, SKUs, Quantities)
    BY DEF TypeOK, WellTyped, OrderIds
  <2>2. R(OrderIds) \subseteq R(OrderIds')
    BY <1>6 DEF Inv!Requisition
  <2>3. inv.requisitions \in Seq(R(OrderIds'))
    BY <2>1, <2>2, SeqMonotone DEF Inv!Typed
  <2>. QED
    BY <2>1, <2>3 DEF Inv!Typed
<1>10. queues' \in [CabinIds -> Seq(OrderIds')]
  <2>1. \A d \in CabinIds : queues[d] \in Seq(OrderIds')
    BY <1>6, SeqMonotone DEF TypeOK
  <2>. QED
    BY <2>1 DEF Create, TypeOK
<1>11. notifs' \subseteq Observed \X OrderIds' /\ creating' \subseteq OrderIds'
  BY <1>6 DEF Create, TypeOK
<1>12. TypeOK'
  BY <1>7, <1>8, <1>9, <1>10, <1>11 DEF TypeOK, WellTyped, Create, OrderIds
<1>. QED
  BY <1>4, <1>5, <1>6, <1>12 DEF new

\* One queue of orders, with one more order in it.
LEMMA EnqueueTyped ==
  ASSUME NEW os, NEW qs, NEW c \in CabinIds, NEW w \in DOMAIN os,
         qs \in [CabinIds -> Seq(DOMAIN os)], NEW os2
  PROVE  LET new == [qs EXCEPT ![c] = Enqueue(os2, @, w)]
         IN  /\ new \in [CabinIds -> Seq(DOMAIN os)]
             /\ \A d \in CabinIds : \A i \in DOMAIN new[d] :
                  \/ d = c /\ new[d][i] = w
                  \/ \E j \in DOMAIN qs[d] : new[d][i] = qs[d][j]
<1>. DEFINE q == Enqueue(os2, qs[c], w)
<1>1. /\ q \in Seq(DOMAIN os)
      /\ \A i \in DOMAIN q : q[i] = w \/ \E j \in DOMAIN qs[c] : q[i] = qs[c][j]
  BY EnqueueEntries
<1>. HIDE DEF q
<1>2. [qs EXCEPT ![c] = q] \in [CabinIds -> Seq(DOMAIN os)]
  BY <1>1
<1>. QED
  BY <1>1, <1>2 DEF q

(***************************************************************************)
(* An order that asks for its cabin, when it is placed or enters: it gets  *)
(* it, or it is enqueued.                                                  *)
(***************************************************************************)
AskForCabin(w, type, to) ==
  LET c == orders[w].cabin IN
  \/ /\ Free(cabins, c)
     /\ cabins' = Acquired(cabins, c, w, type)
     /\ orders' = Move(orders, w, to)
     /\ UNCHANGED queues
  \/ /\ ~Free(cabins, c)
     /\ queues' = [queues EXCEPT ![c] = Enqueue(orders, @, w)]
     /\ orders' = Move(orders, w, "queued")
     /\ UNCHANGED cabins

LEMMA AskTyped ==
  ASSUME TypeOK, NEW w \in OrderIds, NEW type, NEW to \in States,
         AskForCabin(w, type, to),
         UNCHANGED <<inv, notifs>>, creating' \subseteq creating
  PROVE  TypeOK'
<1>. DEFINE c == orders[w].cabin
<1>1. /\ WellTyped(orders, cabins, inv)
      /\ w \in DOMAIN orders
      /\ c \in CabinIds
      /\ queues \in [CabinIds -> Seq(DOMAIN orders)]
  BY OrderOf DEF TypeOK, OrderIds
<1>2. CASE /\ Free(cabins, c)
           /\ cabins' = Acquired(cabins, c, w, type)
           /\ orders' = Move(orders, w, to)
           /\ UNCHANGED queues
  <2>1. WellTyped(orders, cabins', inv)
    BY <1>1, <1>2, AcquiredTyped
  <2>2. WellTyped(orders', cabins', inv) /\ OrderIds' = OrderIds
    BY <1>1, <1>2, <2>1, MoveTyped DEF OrderIds
  <2>. QED
    BY <1>2, <2>2 DEF TypeOK
<1>3. CASE /\ ~Free(cabins, c)
           /\ queues' = [queues EXCEPT ![c] = Enqueue(orders, @, w)]
           /\ orders' = Move(orders, w, "queued")
           /\ UNCHANGED cabins
  <2>1. "queued" \in States
    BY DEF States
  <2>2. WellTyped(orders', cabins', inv) /\ OrderIds' = OrderIds
    BY <1>1, <1>3, <2>1, MoveTyped DEF OrderIds
  <2>3. queues' \in [CabinIds -> Seq(DOMAIN orders)]
    BY <1>1, <1>3, EnqueueTyped
  <2>. QED
    BY <2>2, <2>3 DEF TypeOK, OrderIds
<1>. QED
  BY <1>2, <1>3 DEF AskForCabin

LEMMA PlaceInspectionAsks ==
  ASSUME NEW w, PlaceInspection(w)
  PROVE  /\ AskForCabin(w, "inspection", "in_progress")
         /\ UNCHANGED <<inv, notifs>>
         /\ creating' \subseteq creating
BY DEF PlaceInspection, AskForCabin

LEMMA EnterCabinAsks ==
  ASSUME NEW w, EnterCabin(w)
  PROVE  /\ AskForCabin(w, "maintenance", "executing")
         /\ UNCHANGED <<inv, notifs>>
         /\ creating' \subseteq creating
BY DEF EnterCabin, AskForCabin

(***************************************************************************)
(* What the two operations that end with assignFromQueue hand it.          *)
(***************************************************************************)
LEMMA FailPartsHandsOver ==
  ASSUME TypeOK, NEW w \in OrderIds, FailPartsRequisition(w)
  PROVE  LET c    == orders[w].cabin
             back == Move(orders, w, "queued")
             rel  == Released(cabins, c)
             qs   == [queues EXCEPT ![c] = Enqueue(back, @, w)]
             told == notifs \cup Notified("parts_failure", {w})
         IN  /\ c \in CabinIds
             /\ Inv!Typed(inv', OrderIds, SKUs, Quantities)
             /\ orders[w].req # 0 => TouchesOnly(inv, inv', orders[w].req)
             /\ orders[w].req = 0 => inv' = inv
             /\ WellTyped(back, rel, inv')
             /\ DOMAIN back = OrderIds
             /\ qs \in [CabinIds -> Seq(DOMAIN back)]
             /\ told \subseteq Observed \X DOMAIN back
             /\ AssignFromQueue(back, rel, qs, told, c)
<1>. DEFINE c    == orders[w].cabin
            r    == orders[w].req
            back == Move(orders, w, "queued")
            rel  == Released(cabins, c)
            qs   == [queues EXCEPT ![c] = Enqueue(back, @, w)]
            told == notifs \cup Notified("parts_failure", {w})
<1>1. /\ WellTyped(orders, cabins, inv)
      /\ w \in DOMAIN orders
      /\ c \in CabinIds
      /\ r \in {0} \cup DOMAIN inv.requisitions
      /\ queues \in [CabinIds -> Seq(DOMAIN orders)]
      /\ Inv!Typed(inv, OrderIds, SKUs, Quantities)
  BY OrderOf DEF TypeOK, OrderIds, WellTyped
<1>2. /\ Inv!Typed(inv', OrderIds, SKUs, Quantities)
      /\ r # 0 => TouchesOnly(inv, inv', r)
      /\ r = 0 => inv' = inv
      /\ DOMAIN inv'.requisitions = DOMAIN inv.requisitions
  <2>1. CASE r = 0
    BY <2>1, <1>1 DEF FailPartsRequisition
  <2>2. CASE r # 0
    <3>1. inv' = Inv!Rollback(inv, r) /\ r \in DOMAIN inv.requisitions
      BY <2>2, <1>1 DEF FailPartsRequisition
    <3>2. Quantities \in SUBSET Nat
      BY ConstantsAssumption
    <3>3. Inv!Typed(inv', OrderIds, SKUs, Quantities) /\ TouchesOnly(inv, inv', r)
      BY <3>1, <3>2, <1>1, RollbackTyped
    <3>. QED
      BY <2>2, <3>3 DEF TouchesOnly
  <2>. QED
    BY <2>1, <2>2
<1>3. "queued" \in States
  BY DEF States
<1>4. WellTyped(orders, cabins, inv')
  BY <1>1, <1>2, InventoryReplaced DEF OrderIds
<1>5. WellTyped(back, cabins, inv') /\ DOMAIN back = OrderIds
  BY <1>1, <1>3, <1>4, MoveTyped DEF OrderIds
<1>6. WellTyped(back, rel, inv')
  BY <1>5, ReleasedTyped
<1>7. qs \in [CabinIds -> Seq(DOMAIN back)]
  <2>. HIDE DEF back
  <2>. QED
    BY <1>1, <1>5, EnqueueTyped DEF OrderIds
<1>8. told \subseteq Observed \X DOMAIN back
  BY <1>5, NotifiedTyped
<1>9. AssignFromQueue(back, rel, qs, told, c)
  BY DEF FailPartsRequisition
<1>. QED
  BY <1>1, <1>2, <1>5, <1>6, <1>7, <1>8, <1>9

LEMMA LeaveHandsOver ==
  ASSUME TypeOK, NEW w \in OrderIds, NEW to \in Terminal, Leave(w, to)
  PROVE  LET c    == orders[w].cabin
             gone == Move(orders, w, to)
         IN  /\ c \in CabinIds
             /\ inv' = inv
             /\ WellTyped(gone, LeftBy(cabins, w), inv)
             /\ DOMAIN gone = OrderIds
             /\ queues \in [CabinIds -> Seq(DOMAIN gone)]
             /\ notifs \subseteq Observed \X DOMAIN gone
             /\ AssignFromQueue(gone, LeftBy(cabins, w), queues, notifs, c)
<1>. DEFINE c    == orders[w].cabin
            gone == Move(orders, w, to)
<1>1. /\ WellTyped(orders, cabins, inv)
      /\ w \in DOMAIN orders
      /\ c \in CabinIds
  BY OrderOf DEF TypeOK, OrderIds
<1>2. to \in States
  BY DEF States, Terminal
<1>3. WellTyped(gone, cabins, inv) /\ DOMAIN gone = OrderIds
  BY <1>1, <1>2, MoveTyped DEF OrderIds
<1>4. WellTyped(gone, LeftBy(cabins, w), inv)
  BY <1>3, ReleasedTyped DEF LeftBy
<1>5. AssignFromQueue(gone, LeftBy(cabins, w), queues, notifs, c) /\ inv' = inv
  BY DEF Leave
<1>. QED
  BY <1>1, <1>3, <1>4, <1>5 DEF TypeOK

LEMMA TypeInit == Init => TypeOK
<1>1. <<>> \in Seq(Order) /\ <<>> \in Seq(OrderIds) /\ DOMAIN <<>> = {}
  OBVIOUS
<1>2. \A W, S, Q : <<>> \in Seq(Inv!Requisition(W, S, Q))
  OBVIOUS
<1>. QED
  BY <1>1, <1>2 DEF Init, TypeOK, WellTyped, OrdersTyped, CabinsTyped, OrderIds,
     Inv!Typed, Inv!EmptyInventory

\* Every step of the orchestrator, and every call beside it, keeps the types.
LEMMA TypeStep ==
  ASSUME TypeOK, [Next]_vars
  PROVE  TypeOK'
<1>. USE DEF OrderIds
<1>1. /\ WellTyped(orders, cabins, inv)
      /\ Inv!Typed(inv, OrderIds, SKUs, Quantities)
      /\ Quantities \in SUBSET Nat
  BY ConstantsAssumption DEF TypeOK, WellTyped
<1>2. \A w \in OrderIds :
        /\ orders[w] \in Order
        /\ orders[w].req \in {0} \cup DOMAIN inv.requisitions
        /\ orders[w].cabin \in CabinIds
  BY <1>1, OrderOf
<1>3. /\ "in_progress" \in States /\ "executing" \in States
      /\ "anomaly_reported" \in States /\ "authorized" \in States
      /\ "queued" \in States /\ "parts_requested" \in States
      /\ "parts_suspended" \in States /\ "parts_confirmed" \in States
      /\ "repair_completed" \in States /\ "pending_restoration" \in States
      /\ "pending_recheck" \in States /\ "restoration_approved" \in States
      /\ "escalated" \in States
      /\ {"detected", "reported"} \subseteq Anomalies
      /\ {"running", "passed"} \subseteq Deadlines
  BY DEF States, Anomalies, Deadlines
<1>4. notifs \subseteq Observed \X OrderIds
  BY DEF TypeOK
<1>5. ASSUME NEW w \in OrderIds, PlaceInspection(w) PROVE TypeOK'
  BY <1>3, <1>5, PlaceInspectionAsks, AskTyped
<1>6. ASSUME NEW w \in OrderIds, PlaceMaintenance(w) PROVE TypeOK'
  BY <1>6 DEF PlaceMaintenance, TypeOK
<1>7. ASSUME NEW w \in OrderIds, DetectAnomaly(w) PROVE TypeOK'
  <2>. DEFINE c == orders[w].cabin
              o == [orders[w] EXCEPT !.anomaly = "detected", !.deadline = "running"]
              k == Cab!Freeze(cabins[c])
  <2>1. o \in Order /\ o.req = orders[w].req
    BY <1>2, <1>3 DEF Order
  <2>2. /\ cabins' = [cabins EXCEPT ![c] = k] /\ c \in DOMAIN cabins
        /\ orders' = [orders EXCEPT ![w] = o]
    BY <1>7 DEF DetectAnomaly
  <2>3. k \in Cab!Cabins /\ k.active \in {Cab!Nobody} \cup DOMAIN orders
    BY <1>1, <2>2, CabinOps DEF WellTyped, CabinsTyped
  <2>. HIDE DEF o, k, c
  <2>4. WellTyped(orders, [cabins EXCEPT ![c] = k], inv)
    BY <1>1, <2>2, <2>3, CabinReplaced
  <2>5. o.req \in {0} \cup DOMAIN inv.requisitions
    BY <1>2, <2>1
  <2>6. /\ WellTyped([orders EXCEPT ![w] = o], [cabins EXCEPT ![c] = k], inv)
        /\ DOMAIN [orders EXCEPT ![w] = o] = DOMAIN orders
    BY <2>1, <2>4, <2>5, OrderReplaced
  <2>7. WellTyped(orders', cabins', inv) /\ OrderIds' = OrderIds
    BY <2>2, <2>6
  <2>. QED
    BY <1>7, <2>7 DEF DetectAnomaly, TypeOK
<1>8. ASSUME NEW w \in OrderIds, ReportAnomaly(w) PROVE TypeOK'
  <2>. DEFINE p == [orders[w] EXCEPT !.anomaly = "reported"]
              o == Transition(p, "anomaly_reported")
  <2>1. p \in Order /\ p.req = orders[w].req
    BY <1>2, <1>3 DEF Order
  <2>2. orders' = [orders EXCEPT ![w] = o] /\ UNCHANGED <<cabins, inv, queues, creating>>
    BY <1>8 DEF ReportAnomaly
  <2>. HIDE DEF p
  <2>3. o \in Order /\ o.req = orders[w].req
    BY <1>3, <2>1, TransitionField
  <2>4. notifs' \subseteq Observed \X OrderIds
    BY <1>8, NotifiedTyped DEF ReportAnomaly
  <2>. HIDE DEF o
  <2>. QED
    BY <1>2, <2>2, <2>3, <2>4, OneOrderStep
<1>9. ASSUME NEW w \in OrderIds, AuthorizeMaintenance(w) \/ RejectAuthorization(w)
      PROVE  TypeOK'
  <2>. DEFINE p == Timed(orders[w])
              o == Transition(p, "authorized")
  <2>1. p \in Order /\ p.req = orders[w].req
    BY <1>2, <1>3 DEF Order, Timed
  <2>2. o \in Order /\ o.req = orders[w].req
    BY <1>3, <2>1, TransitionField
  <2>3. /\ orders' = [orders EXCEPT ![w] = o] \/ orders' = [orders EXCEPT ![w] = p]
        /\ UNCHANGED <<cabins, inv, queues, notifs, creating>>
    BY <1>9 DEF AuthorizeMaintenance, RejectAuthorization
  <2>. HIDE DEF o, p
  <2>. QED
    BY <1>2, <1>4, <2>1, <2>2, <2>3, OneOrderStep
<1>10. ASSUME NEW w \in OrderIds, EnterCabin(w) PROVE TypeOK'
  BY <1>3, <1>10, EnterCabinAsks, AskTyped
<1>11. ASSUME NEW w \in OrderIds, NEW s \in SKUs, NEW n \in Quantities,
              RequestParts(w, s, n)
       PROVE  TypeOK'
  <2>. DEFINE r == Len(inv.requisitions) + 1
              a == [orders[w] EXCEPT !.req = r]
              b == Transition(a, "parts_requested")
              d == Transition(b, "parts_suspended")
  <2>1. s \in DOMAIN inv.parts /\ inv' = Inv!Submit(inv, w, s, n)
    BY <1>11 DEF RequestParts, Inv!CanSubmit
  <2>2. /\ Inv!Typed(inv', OrderIds, SKUs, Quantities)
        /\ DOMAIN inv.requisitions \subseteq DOMAIN inv'.requisitions
        /\ r \in DOMAIN inv'.requisitions /\ r \in Nat \ {0}
    <3>1. Inv!Typed(inv', OrderIds, SKUs, Quantities) /\ Appends(inv, inv', w)
      BY <1>1, <2>1, SubmitTyped
    <3>. QED
      BY <3>1 DEF Appends
  <2>3. WellTyped(orders, cabins, inv')
    BY <1>1, <2>2, InventoryReplaced
  <2>. HIDE DEF r
  <2>4. a \in Order /\ a.req = r
    BY <1>2, <2>2 DEF Order
  <2>5. b \in Order /\ b.req = r
    BY ZenonT(60), <1>3, <2>4, TransitionField
  <2>6. d \in Order /\ d.req = r
    BY ZenonT(60), <1>3, <2>5, TransitionField
  <2>7. orders' = [orders EXCEPT ![w] = b] \/ orders' = [orders EXCEPT ![w] = d]
    BY <1>11 DEF RequestParts, r
  <2>. HIDE DEF b, d
  <2>8. WellTyped(orders', cabins, inv') /\ OrderIds' = OrderIds
    BY <2>2, <2>3, <2>5, <2>6, <2>7, OrderReplaced
  <2>9. notifs' \subseteq Observed \X OrderIds
    BY <1>11, NotifiedTyped DEF RequestParts
  <2>. QED
    BY <1>11, <2>8, <2>9 DEF RequestParts, TypeOK
<1>12. ASSUME NEW w \in OrderIds, ConfirmParts(w) PROVE TypeOK'
  <2>. DEFINE r == orders[w].req
  <2>1. Inv!CanConfirm(inv, r) /\ inv' = Inv!Confirm(inv, r)
    BY <1>12 DEF ConfirmParts
  <2>2. Inv!Typed(inv', OrderIds, SKUs, Quantities) /\ TouchesOnly(inv, inv', r)
    BY <1>1, <2>1, ConfirmTyped
  <2>3. WellTyped(orders, cabins, inv')
    BY <1>1, <2>2, InventoryReplaced DEF TouchesOnly
  <2>4. WellTyped(orders', cabins, inv') /\ OrderIds' = OrderIds
    BY <1>3, <1>12, <2>3, MoveTyped DEF ConfirmParts
  <2>. QED
    BY <1>12, <2>4 DEF ConfirmParts, TypeOK
<1>13. ASSUME NEW w \in OrderIds, NEW s \in SKUs, NEW n \in Quantities,
              EmergencyProcurement(w, s, n)
       PROVE  TypeOK'
  <2>. DEFINE r == orders[w].req
  <2>1. PICK mid : /\ Inv!Typed(mid, OrderIds, SKUs, Quantities)
                   /\ mid.requisitions = inv.requisitions
                   /\ inv' = IF r = 0 THEN mid ELSE Inv!Recheck(mid, r)
    BY <1>13, ProcurementFacts
  <2>2. inv' = IF r = 0 THEN mid ELSE Inv!Recheck(mid, r)
    BY <2>1
  <2>3. /\ Inv!Typed(inv', OrderIds, SKUs, Quantities)
        /\ DOMAIN inv'.requisitions = DOMAIN inv.requisitions
    <3>. HIDE DEF r
    <3>1. CASE r = 0
      BY <2>1, <2>2, <3>1
    <3>2. CASE r # 0
      <4>1. r \in DOMAIN mid.requisitions
        BY <1>2, <2>1, <3>2 DEF r
      <4>2. /\ Inv!Typed(Inv!Recheck(mid, r), OrderIds, SKUs, Quantities)
            /\ TouchesOnly(mid, Inv!Recheck(mid, r), r)
        BY <1>1, <2>1, <4>1, RecheckTyped
      <4>3. DOMAIN Inv!Recheck(mid, r).requisitions = DOMAIN mid.requisitions
        BY <4>2 DEF TouchesOnly
      <4>. QED
        BY <2>1, <2>2, <3>2, <4>2, <4>3
    <3>. QED
      BY <3>1, <3>2
  <2>4. WellTyped(orders, cabins, inv')
    BY <1>1, <2>3, InventoryReplaced
  <2>5. WellTyped(orders', cabins, inv') /\ OrderIds' = OrderIds
    <3>1. orders' = orders \/ orders' = Move(orders, w, "parts_requested")
      BY <1>13 DEF EmergencyProcurement
    <3>2. /\ WellTyped(Move(orders, w, "parts_requested"), cabins, inv')
          /\ DOMAIN Move(orders, w, "parts_requested") = DOMAIN orders
      BY <1>3, <2>4, MoveTyped
    <3>. QED
      BY <2>4, <3>1, <3>2
  <2>. QED
    BY <1>13, <2>5 DEF EmergencyProcurement, TypeOK
<1>14. ASSUME NEW w \in OrderIds, NEW from,
              NEW to \in {"repair_completed", "pending_restoration", "pending_recheck"},
              Step(w, from, to)
       PROVE  TypeOK'
  <2>1. /\ orders' = Move(orders, w, to)
        /\ UNCHANGED <<cabins, inv, queues, notifs, creating>>
        /\ to \in States
    BY <1>3, <1>14 DEF Step
  <2>. QED
    BY <1>4, <2>1, MoveStep
<1>15. ASSUME NEW w \in OrderIds, NEW b \in BOOLEAN, NEW g \in BOOLEAN,
              ApproveRestoration(w, b, g)
       PROVE  TypeOK'
  <2>. DEFINE c       == orders[w].cabin
              k       == Cab!Recheck(cabins[c], b, g)
              t       == Cab!Thaw(k)
              checked == [cabins EXCEPT ![c] = k]
              thawed  == [checked EXCEPT ![c] = t]
  <2>1. c \in DOMAIN cabins /\ cabins[c] \in Cab!Cabins
        /\ cabins[c].active \in {Cab!Nobody} \cup DOMAIN orders
    BY <1>1, <1>15 DEF ApproveRestoration, WellTyped, CabinsTyped
  <2>2. /\ k \in Cab!Cabins /\ k.active = cabins[c].active
        /\ t \in Cab!Cabins /\ t.active = cabins[c].active
    BY <2>1, CabinOps
  <2>3. \E to \in {"pending_recheck", "restoration_approved"} :
          /\ orders' = Move(orders, w, to)
          /\ cabins' = checked \/ cabins' = thawed
    <3>1. checked[c] = k
      BY <2>1
    <3>. HIDE DEF checked, k
    <3>. QED
      BY <1>15, <3>1 DEF ApproveRestoration, checked, k
  <2>. HIDE DEF k, t
  <2>4. WellTyped(orders, checked, inv) /\ c \in DOMAIN checked
    BY <1>1, <2>1, <2>2, CabinReplaced
  <2>. HIDE DEF checked
  <2>5. WellTyped(orders, thawed, inv)
    BY <2>1, <2>2, <2>4, CabinReplaced
  <2>. HIDE DEF thawed
  <2>6. WellTyped(orders, cabins', inv)
    BY <2>3, <2>4, <2>5
  <2>7. WellTyped(orders', cabins', inv) /\ OrderIds' = OrderIds
    <3>1. PICK to \in {"pending_recheck", "restoration_approved"} : orders' = Move(orders, w, to)
      BY <2>3
    <3>2. to \in States
      BY <1>3, <3>1
    <3>3. /\ WellTyped(Move(orders, w, to), cabins', inv)
          /\ DOMAIN Move(orders, w, to) = DOMAIN orders
      BY <2>6, <3>2, MoveTyped
    <3>. QED
      BY <3>1, <3>3
  <2>. QED
    BY <1>15, <2>7 DEF ApproveRestoration, TypeOK
<1>16. ASSUME NEW w \in OrderIds, FailPartsRequisition(w) PROVE TypeOK'
  <2>. DEFINE c    == orders[w].cabin
              back == Move(orders, w, "queued")
              rel  == Released(cabins, c)
              qs   == [queues EXCEPT ![c] = Enqueue(back, @, w)]
              told == notifs \cup Notified("parts_failure", {w})
  <2>1. /\ c \in CabinIds
        /\ WellTyped(back, rel, inv')
        /\ DOMAIN back = DOMAIN orders
        /\ qs \in [CabinIds -> Seq(DOMAIN back)]
        /\ told \subseteq Observed \X DOMAIN back
        /\ AssignFromQueue(back, rel, qs, told, c)
    BY <1>16, FailPartsHandsOver
  <2>. HIDE DEF c, back, rel, qs, told
  <2>2. /\ WellTyped(orders', cabins', inv')
        /\ DOMAIN orders' = DOMAIN back
        /\ queues' \in [CabinIds -> Seq(DOMAIN back)]
        /\ notifs' \subseteq Observed \X DOMAIN back
    BY <2>1, AssignFacts
  <2>. QED
    BY <1>16, <2>1, <2>2 DEF FailPartsRequisition, TypeOK
<1>17. ASSUME NEW w \in OrderIds, EscalateOrder(w) PROVE TypeOK'
  <2>1. notifs' \subseteq Observed \X OrderIds
    BY <1>17, NotifiedTyped DEF EscalateOrder
  <2>. QED
    BY <1>3, <1>17, <2>1, MoveStep DEF EscalateOrder
<1>18. ASSUME NEW w \in OrderIds, ResumeFromEscalation(w) PROVE TypeOK'
  <2>. DEFINE p == [orders[w] EXCEPT !.deadline = "running"]
              o == Transition(p, "authorized")
              x == Transition(orders[w], "executing")
  <2>1. p \in Order /\ p.req = orders[w].req
    BY <1>2, <1>3 DEF Order
  <2>2. /\ orders' = [orders EXCEPT ![w] = o] \/ orders' = [orders EXCEPT ![w] = x]
        /\ UNCHANGED <<cabins, inv, queues, notifs, creating>>
    BY <1>18 DEF ResumeFromEscalation, Move
  <2>. HIDE DEF p
  <2>3. o \in Order /\ o.req = orders[w].req
    BY <1>3, <2>1, TransitionField
  <2>4. x \in Order /\ x.req = orders[w].req
    BY <1>2, <1>3, TransitionField
  <2>. HIDE DEF o, x
  <2>. QED
    BY <1>2, <1>4, <2>2, <2>3, <2>4, OneOrderStep
<1>19. ASSUME NEW w \in OrderIds, CloseOrder(w) \/ CancelOrder(w) PROVE TypeOK'
  <2>1. PICK to \in Terminal : Leave(w, to)
    BY <1>19 DEF CloseOrder, CancelOrder, Terminal
  <2>2. /\ WellTyped(orders', cabins', inv)
        /\ OrderIds' = OrderIds
        /\ queues' \in [CabinIds -> Seq(OrderIds)]
        /\ notifs' \subseteq Observed \X OrderIds
    BY <2>1, LeaveHandsOver, AssignFacts
  <2>. QED
    BY <2>1, <2>2 DEF Leave, TypeOK
<1>20. ASSUME NEW w \in OrderIds, DeadlinePasses(w) PROVE TypeOK'
  <2>. DEFINE o == [orders[w] EXCEPT !.deadline = "passed"]
  <2>1. o \in Order /\ o.req = orders[w].req
    BY <1>2, <1>3 DEF Order
  <2>2. /\ orders' = [orders EXCEPT ![w] = o]
        /\ UNCHANGED <<cabins, inv, queues, notifs, creating>>
    BY <1>20 DEF DeadlinePasses
  <2>. HIDE DEF o
  <2>. QED
    BY <1>2, <1>4, <2>1, <2>2, OneOrderStep
<1>21. CASE CheckAnomalyDeadlines
  <2>1. notifs' \subseteq Observed \X OrderIds
    BY <1>21, NotifiedTyped DEF CheckAnomalyDeadlines, OverdueReports
  <2>. QED
    BY <1>21, <2>1 DEF CheckAnomalyDeadlines, TypeOK
<1>22. CASE CheckMaintenanceTimeouts
  <2>1. \A w \in OrderIds : /\ orders'[w] \in Order
                            /\ orders'[w].req = orders[w].req
    BY <1>2, <1>3, <1>22, TransitionField DEF CheckMaintenanceTimeouts
  <2>2. orders \in Seq(Order) /\ Len(orders) \in Nat /\ DOMAIN orders = 1..Len(orders)
    BY <1>1, LenProperties DEF WellTyped, OrdersTyped
  <2>3. orders' \in Seq(Order) /\ OrderIds' = OrderIds
    <3>1. orders' = [w \in 1..Len(orders) |-> orders'[w]]
      BY <1>22, <2>2 DEF CheckMaintenanceTimeouts
    <3>2. orders' \in [1..Len(orders) -> Order]
      BY <2>1, <2>2, <3>1
    <3>. QED
      BY <2>2, <3>2
  <2>4. WellTyped(orders', cabins, inv)
    BY <1>1, <2>1, <2>3 DEF WellTyped, OrdersTyped, CabinsTyped
  <2>5. notifs' \subseteq Observed \X OrderIds
    BY <1>22, NotifiedTyped DEF CheckMaintenanceTimeouts, OverdueResponses
  <2>. QED
    BY <1>22, <2>3, <2>4, <2>5 DEF CheckMaintenanceTimeouts, TypeOK
<1>23. ASSUME NEW c \in CabinIds, RegisterCabin(c) PROVE TypeOK'
  <2>1. CabinsTyped(orders, cabins')
    BY <1>1, <1>23 DEF RegisterCabin, WellTyped, CabinsTyped, Cab!NewCabin, Cab!Cabins,
       Cab!Statuses, Cab!Nobody
  <2>. QED
    BY <1>23, <2>1 DEF RegisterCabin, TypeOK, WellTyped
<1>24. ASSUME NEW s \in SKUs, NEW n \in StockLevels, RegisterPart(s, n) PROVE TypeOK'
  <2>1. n \in Nat /\ inv' = Inv!RegisterPart(inv, s, n)
    BY <1>24, ConstantsAssumption DEF RegisterPart
  <2>2. /\ Inv!Typed(inv', OrderIds, SKUs, Quantities)
        /\ inv'.requisitions = inv.requisitions
    BY <1>1, <2>1, RegisterPartTyped
  <2>3. WellTyped(orders, cabins, inv')
    BY <1>1, <2>2, InventoryReplaced
  <2>. QED
    BY <1>24, <2>3 DEF RegisterPart, TypeOK
<1>25. ASSUME NEW type \in OrderTypes, NEW c \in CabinIds, NEW p \in Urgencies,
              Create(type, c, p)
       PROVE  TypeOK'
  BY <1>25, CreateStep
<1>26. CASE UNCHANGED vars
  BY <1>26 DEF vars, TypeOK
<1>. QED
  BY <1>5, <1>6, <1>7, <1>8, <1>9, <1>10, <1>11, <1>12, <1>13, <1>14, <1>15, <1>16,
     <1>17, <1>18, <1>19, <1>20, <1>21, <1>22, <1>23, <1>24, <1>25, <1>26
  DEF Next, Persisting, Calls, Place, Checks, Unsaved, Outside, Registrations,
      Creations, Clock, CompleteRepair, RequestRestoration,
      InterruptApproval, RecheckComplete

(***************************************************************************)
(* Type correctness: whatever cabins, parts and priorities there are, the  *)
(* maps stay well typed, and no order, cabin, requisition or queue ever    *)
(* refers to an entity that does not exist.                                *)
(***************************************************************************)
THEOREM TypeCorrect == Spec => []TypeOK
<1>1. Init => TypeOK
  BY TypeInit
<1>2. TypeOK /\ [Next]_vars => TypeOK'
  BY TypeStep
<1>. QED
  BY <1>1, <1>2, PTL DEF Spec
=============================================================================
