------------------------------ MODULE QueueProofs ------------------------------
(***************************************************************************)
(* Theorems about the queues, for any cabins, orders and bounds: they are  *)
(* sorted and complete, no order waits for a free cabin, and the cabins    *)
(* are the locks that CabinLock describes.                                 *)
(***************************************************************************)
EXTENDS OrderProofs

\* The orders that wait for a cabin.
Contenders(os, c) == {v \in DOMAIN os : os[v].state = "queued" /\ os[v].cabin = c}

\* Those among them that are in its queue, where alone a release finds them.
InQueue(os, qs, c) == {v \in Contenders(os, c) : \E i \in DOMAIN qs[c] : qs[c][i] = v}

IsNext(os, qs, c, v) ==
  /\ v \in InQueue(os, qs, c)
  /\ \A u \in InQueue(os, qs, c) : u # v => Before(os, v, u)

\* The parts of the inductive invariant, on any maps of orders and queues.
Sorted(os, qs) ==
  \A c \in CabinIds : \A i, j \in DOMAIN qs[c] : i < j => Before(os, qs[c][i], qs[c][j])

Proper(os, qs) ==
  \A c \in CabinIds : \A i \in DOMAIN qs[c] :
    /\ qs[c][i] \in DOMAIN os
    /\ os[qs[c][i]].cabin = c
    /\ os[qs[c][i]].state \in {"queued", "cancelled"}

Line(os, qs) ==
  qs \in [CabinIds -> Seq(DOMAIN os)] /\ Sorted(os, qs) /\ Proper(os, qs)

\* Every order that waits is in a queue.  No step breaks that, but a restart does.
Complete(os, qs) == \A c \in CabinIds : Contenders(os, c) \subseteq InQueue(os, qs, c)

InNoQueue(qs, w) == \A c \in CabinIds : \A i \in DOMAIN qs[c] : qs[c][i] # w

\* An inspection that is still to be placed is in no queue, cancelled or not.
Unplaced(os, qs, cr) ==
  \A w \in cr : os[w].type = "inspection" =>
    os[w].state \in {"created", "cancelled"} /\ InNoQueue(qs, w)

QueueInv == Line(orders, queues) /\ Unplaced(orders, queues, creating)

CompleteInv == Complete(orders, queues)

\* No order waits in the queue of a cabin that is free.
Served(os, cs, qs) == \A c \in CabinIds : Free(cs, c) => InQueue(os, qs, c) = {}

ServedInv == Served(orders, cabins, queues)

\* What a queue compares of an order does not change.
SamePlace(os, new) ==
  /\ DOMAIN new = DOMAIN os
  /\ \A w \in DOMAIN os : new[w].cabin = os[w].cabin /\ new[w].priority = os[w].priority

-----------------------------------------------------------------------------
(***************************************************************************)
(* enqueue keeps a queue sorted: those that go before an order are the     *)
(* first so many of a sorted queue.                                        *)
(***************************************************************************)
LEMMA BeforeIsOrder ==
  ASSUME NEW os, NEW cs, NEW iv, WellTyped(os, cs, iv)
  PROVE  /\ \A v \in DOMAIN os : ~Before(os, v, v)
         /\ \A v, w \in DOMAIN os : v # w => Before(os, v, w) \/ Before(os, w, v)
         /\ \A u, v, w \in DOMAIN os : Before(os, u, v) /\ Before(os, v, w) => Before(os, u, w)
<1>1. \A v \in DOMAIN os : v \in Nat /\ os[v].priority \in Nat
  <2>. TAKE v \in DOMAIN os
  <2>1. os[v] \in Order /\ v \in Nat
    BY OrderOf
  <2>. QED
    BY <2>1 DEF Order, Priorities
<1>. QED
  BY <1>1 DEF Before

\* A sorted queue by itself.
SortedQueue(os, q) == \A i, j \in DOMAIN q : i < j => Before(os, q[i], q[j])

LEMMA AheadAreFirst ==
  ASSUME NEW os, NEW cs, NEW iv, WellTyped(os, cs, iv),
         NEW q \in Seq(DOMAIN os), SortedQueue(os, q), NEW w \in DOMAIN os
  PROVE  {i \in DOMAIN q : Before(os, q[i], w)} = 1..Ahead(os, q, w)
<1>. DEFINE D == {i \in DOMAIN q : Before(os, q[i], w)}
            k == Ahead(os, q, w)
<1>1. DOMAIN q = 1..Len(q) /\ Len(q) \in Nat
  BY LenProperties
<1>2. \A i \in DOMAIN q : q[i] \in DOMAIN os
  BY EntryOf
<1>3. D \subseteq 1..Len(q)
  BY <1>1
<1>4. IsFiniteSet(1..Len(q))
  BY <1>1, FS_Interval
<1>5. IsFiniteSet(D) /\ k = Cardinality(D)
  BY <1>3, <1>4, FS_Subset DEF Ahead
<1>6. k \in Nat
  BY <1>5, FS_CardinalityType
<1>7. ASSUME NEW i \in D PROVE i <= k
  <2>1. 1..i \subseteq D
    <3>. SUFFICES ASSUME NEW j \in 1..i PROVE j \in D
      OBVIOUS
    <3>1. j \in DOMAIN q /\ i \in DOMAIN q /\ i \in Nat /\ (j = i \/ j < i)
      BY <1>1, <1>3
    <3>2. CASE j = i
      BY <3>2
    <3>3. CASE j < i
      <4>1. Before(os, q[j], q[i]) /\ Before(os, q[i], w)
        BY <3>1, <3>3 DEF SortedQueue
      <4>2. Before(os, q[j], w)
        BY <4>1, <3>1, <1>2, BeforeIsOrder
      <4>. QED
        BY <3>1, <4>2
    <3>. QED
      BY <3>1, <3>2, <3>3
  <2>2. i \in Nat /\ i >= 1
    BY <1>1, <1>3
  <2>. HIDE DEF D, k
  <2>3. Cardinality(1..i) = i
    BY <2>2, FS_Interval
  <2>. QED
    BY <2>1, <2>3, <1>5, FS_Subset
<1>. HIDE DEF k
<1>8. D \subseteq 1..k
  BY <1>1, <1>3, <1>6, <1>7
<1>. HIDE DEF D
<1>9. IsFiniteSet(1..k) /\ Cardinality(1..k) = k
  BY <1>6, FS_Interval
<1>10. D = 1..k
  BY <1>5, <1>8, <1>9, FS_Subset
<1>. QED
  BY <1>10 DEF D, k

LEMMA EnqueueSorted ==
  ASSUME NEW os, NEW cs, NEW iv, WellTyped(os, cs, iv),
         NEW q \in Seq(DOMAIN os), SortedQueue(os, q),
         NEW w \in DOMAIN os, \A i \in DOMAIN q : q[i] # w
  PROVE  /\ Enqueue(os, q, w) \in Seq(DOMAIN os)
         /\ SortedQueue(os, Enqueue(os, q, w))
         /\ \E i \in DOMAIN Enqueue(os, q, w) : Enqueue(os, q, w)[i] = w
         /\ \A j \in DOMAIN q : \E i \in DOMAIN Enqueue(os, q, w) : Enqueue(os, q, w)[i] = q[j]
<1>. DEFINE e == Enqueue(os, q, w)
            k == Ahead(os, q, w)
<1>1. /\ e \in Seq(DOMAIN os)
      /\ Len(e) = Len(q) + 1
      /\ k \in 0..Len(q)
      /\ \A i \in 1..k : e[i] = q[i]
      /\ e[k + 1] = w
      /\ \A i \in 1..(Len(q) - k) : e[k + 1 + i] = q[k + i]
  BY EnqueueShape
<1>2. /\ DOMAIN q = 1..Len(q) /\ Len(q) \in Nat
      /\ DOMAIN e = 1..(Len(q) + 1)
      /\ \A i \in DOMAIN q : q[i] \in DOMAIN os
  BY <1>1, LenProperties, EntryOf
<1>3. {i \in DOMAIN q : Before(os, q[i], w)} = 1..k
  BY AheadAreFirst
<1>4. /\ \A i \in 1..k : Before(os, q[i], w)
      /\ \A i \in DOMAIN q : i > k => Before(os, w, q[i])
  <2>1. \A i \in 1..k : Before(os, q[i], w)
    BY <1>3
  <2>2. \A i \in DOMAIN q : i > k => ~Before(os, q[i], w)
    BY <1>1, <1>2, <1>3
  <2>. QED
    BY <1>2, <2>1, <2>2, BeforeIsOrder
<1>. HIDE DEF e, k
\* Which entry of the old queue is at a place of the new one.
<1>. DEFINE old(i) == IF i <= k THEN i ELSE i - 1
<1>5. \A i \in DOMAIN e : i # k + 1 => old(i) \in DOMAIN q /\ e[i] = q[old(i)]
  <2>. TAKE i \in DOMAIN e
  <2>. HAVE i # k + 1
  <2>1. CASE i <= k
    BY <2>1, <1>1, <1>2
  <2>2. CASE i > k + 1
    <3>. DEFINE j == i - (k + 1)
    <3>. DEFINE n == Len(q)
    <3>0. k \in Int /\ k >= 0 /\ k <= n /\ n \in Int /\ i \in Int /\ i <= n + 1
      BY <1>1, <1>2
    <3>. HIDE DEF n
    <3>1. j \in 1..(n - k) /\ k + 1 + j = i /\ k + j = i - 1 /\ ~(i <= k) /\ i - 1 \in 1..n
      BY SMTT(30), <2>2, <3>0
    <3>. USE DEF n
    <3>. HIDE DEF j
    <3>2. e[i] = q[k + j]
      BY <3>1, <1>1
    <3>3. old(i) = i - 1
      BY <3>1
    <3>. HIDE DEF old
    <3>. QED
      BY <3>1, <3>2, <3>3, <1>2
  <2>3. i <= k \/ i > k + 1
    BY <1>1, <1>2
  <2>. QED
    BY <2>1, <2>2, <2>3
<1>6. ASSUME NEW i \in DOMAIN e, NEW j \in DOMAIN e, i < j
      PROVE  Before(os, e[i], e[j])
  <2>1. i \in Nat /\ j \in Nat /\ k \in Nat
    BY <1>1, <1>2
  <2>2. CASE i = k + 1
    <3>1. j # k + 1 /\ old(j) > k
      BY <2>1, <2>2, <1>6
    <3>2. old(j) \in DOMAIN q /\ e[j] = q[old(j)]
      BY <3>1, <1>5
    <3>3. e[i] = w
      BY <2>2, <1>1
    <3>. HIDE DEF old
    <3>. QED
      BY <3>1, <3>2, <3>3, <1>4
  <2>3. CASE j = k + 1
    <3>1. i # k + 1 /\ old(i) \in 1..k
      BY <2>1, <2>3, <1>2, <1>6
    <3>2. e[i] = q[old(i)]
      BY <3>1, <1>5
    <3>3. e[j] = w
      BY <2>3, <1>1
    <3>. HIDE DEF old
    <3>. QED
      BY <3>1, <3>2, <3>3, <1>4
  <2>4. CASE i # k + 1 /\ j # k + 1
    <3>1. old(i) < old(j)
      BY <2>1, <2>4, <1>6
    <3>2. old(i) \in DOMAIN q /\ e[i] = q[old(i)] /\ old(j) \in DOMAIN q /\ e[j] = q[old(j)]
      BY <2>4, <1>5
    <3>. HIDE DEF old
    <3>. QED
      BY <3>1, <3>2 DEF SortedQueue
  <2>. QED
    BY <2>2, <2>3, <2>4
<1>7. k + 1 \in DOMAIN e
  BY <1>1, <1>2
<1>8. ASSUME NEW j \in DOMAIN q PROVE \E i \in DOMAIN e : e[i] = q[j]
  <2>1. CASE j <= k
    <3>1. j \in 1..k /\ j \in DOMAIN e
      BY <2>1, <1>1, <1>2
    <3>. QED
      BY <3>1, <1>1
  <2>2. CASE j > k
    <3>1. /\ j - k \in 1..(Len(q) - k) /\ k + (j - k) = j
          /\ k + 1 + (j - k) \in DOMAIN e
      BY <2>2, <1>1, <1>2
    <3>. DEFINE i == j - k
    <3>. HIDE DEF i
    <3>2. i \in 1..(Len(q) - k) /\ k + i = j /\ k + 1 + i \in DOMAIN e
      BY <3>1 DEF i
    <3>3. e[k + 1 + i] = q[j]
      BY <3>2, <1>1
    <3>. QED
      BY <3>2, <3>3
  <2>. QED
    BY <2>1, <2>2, <1>1, <1>2
<1>. QED
  BY <1>1, <1>6, <1>7, <1>8 DEF e, SortedQueue

-----------------------------------------------------------------------------
(***************************************************************************)
(* What the helpers of the orchestrator do to the queues.                  *)
(***************************************************************************)

\* One order changes, and neither starts to wait nor turns up in a queue it has left.
LEMMA LineOneOrder ==
  ASSUME NEW os, NEW qs, Line(os, qs), NEW w \in DOMAIN os, NEW new,
         SamePlace(os, new),
         \A v \in DOMAIN os : v # w => new[v] = os[v],
         new[w].state = "queued" => os[w].state = "queued",
         os[w].state \in {"queued", "cancelled"} => new[w].state \in {"queued", "cancelled"}
  PROVE  /\ Line(new, qs)
         /\ \A c \in CabinIds : InQueue(new, qs, c) \subseteq InQueue(os, qs, c)
         /\ Complete(os, qs) => Complete(new, qs)
<1>1. \A c \in CabinIds : Contenders(new, c) \subseteq Contenders(os, c)
  BY DEF Contenders, SamePlace
<1>2. /\ \A c \in CabinIds : InQueue(new, qs, c) \subseteq InQueue(os, qs, c)
      /\ Complete(os, qs) => Complete(new, qs)
  BY <1>1 DEF Complete, InQueue
<1>3. Sorted(new, qs)
  BY DEF Line, Sorted, SamePlace, Before, Proper
<1>4. Proper(new, qs)
  BY DEF Line, Proper, SamePlace
<1>. QED
  BY <1>2, <1>3, <1>4 DEF Line, SamePlace

\* An order that is enqueued for its cabin, and waits or was cancelled meanwhile.
LEMMA LineEnqueued ==
  ASSUME NEW os, NEW cs, NEW iv, WellTyped(os, cs, iv), NEW qs, Line(os, qs),
         NEW w \in DOMAIN os, InNoQueue(qs, w),
         NEW new, SamePlace(os, new),
         \A v \in DOMAIN os : v # w => new[v] = os[v],
         new[w].state \in {"queued", "cancelled"},
         NEW by, SamePlace(os, by)
  PROVE  /\ Line(new, Enqueued(qs, os[w].cabin, by, w))
         /\ \A c \in CabinIds : c # os[w].cabin =>
              InQueue(new, Enqueued(qs, os[w].cabin, by, w), c) \subseteq InQueue(os, qs, c)
         /\ Complete(os, qs) => Complete(new, Enqueued(qs, os[w].cabin, by, w))
<1>. DEFINE c  == os[w].cabin
            e  == Enqueue(by, qs[c], w)
            rs == Enqueued(qs, c, by, w)
<1>1. /\ c \in CabinIds
      /\ qs \in [CabinIds -> Seq(DOMAIN os)]
  BY OrderOf DEF Line
<1>2. qs[c] \in Seq(DOMAIN os) /\ SortedQueue(os, qs[c]) /\ \A i \in DOMAIN qs[c] : qs[c][i] # w
  BY <1>1 DEF Line, Sorted, SortedQueue, InNoQueue
<1>3. e = Enqueue(os, qs[c], w)
  <2>1. \A i \in DOMAIN qs[c] : qs[c][i] \in DOMAIN os
    BY <1>2, EntryOf
  <2>2. \A i \in DOMAIN qs[c] : Before(by, qs[c][i], w) <=> Before(os, qs[c][i], w)
    BY <2>1 DEF Before, SamePlace
  <2>3. {i \in DOMAIN qs[c] : Before(by, qs[c][i], w)} = {i \in DOMAIN qs[c] : Before(os, qs[c][i], w)}
    BY <2>2
  <2>4. Ahead(by, qs[c], w) = Ahead(os, qs[c], w)
    BY <2>3 DEF Ahead
  <2>. QED
    BY <2>4 DEF Enqueue
<1>4. /\ e \in Seq(DOMAIN os)
      /\ SortedQueue(os, e)
      /\ \E i \in DOMAIN e : e[i] = w
      /\ \A j \in DOMAIN qs[c] : \E i \in DOMAIN e : e[i] = qs[c][j]
      /\ \A i \in DOMAIN e : e[i] = w \/ \E j \in DOMAIN qs[c] : e[i] = qs[c][j]
  BY <1>2, <1>3, EnqueueSorted, EnqueueEntries
<1>5. rs = [qs EXCEPT ![c] = e]
  BY DEF Enqueued
<1>. HIDE DEF e, rs
<1>6. \A d \in CabinIds : rs[d] = IF d = c THEN e ELSE qs[d]
  BY <1>1, <1>5
<1>7. rs \in [CabinIds -> Seq(DOMAIN new)]
  BY <1>1, <1>4, <1>5 DEF SamePlace
<1>8. ASSUME Complete(os, qs) PROVE Complete(new, rs)
  <2>. SUFFICES ASSUME NEW d \in CabinIds, NEW v \in Contenders(new, d)
                PROVE  \E i \in DOMAIN rs[d] : rs[d][i] = v
    BY DEF Complete, InQueue
  <2>1. CASE v = w
    <3>1. d = c
      BY <2>1 DEF Contenders, SamePlace
    <3>. QED
      BY <2>1, <3>1, <1>4, <1>6
  <2>2. CASE v # w
    <3>1. v \in Contenders(os, d)
      BY <2>2 DEF Contenders, SamePlace
    <3>2. \E j \in DOMAIN qs[d] : qs[d][j] = v
      BY <1>8, <3>1 DEF Complete, InQueue
    <3>. QED
      BY <3>2, <1>4, <1>6
  <2>. QED
    BY <2>1, <2>2
<1>9. Sorted(new, rs)
  <2>. SUFFICES ASSUME NEW d \in CabinIds, NEW i \in DOMAIN rs[d], NEW j \in DOMAIN rs[d], i < j
                PROVE  Before(new, rs[d][i], rs[d][j])
    BY DEF Sorted
  <2>1. Before(os, rs[d][i], rs[d][j])
    BY <1>4, <1>6 DEF Line, Sorted, SortedQueue
  <2>2. rs[d][i] \in DOMAIN os /\ rs[d][j] \in DOMAIN os
    BY <1>1, <1>4, <1>6, EntryOf
  <2>. QED
    BY <2>1, <2>2 DEF Before, SamePlace
<1>10. Proper(new, rs)
  <2>. SUFFICES ASSUME NEW d \in CabinIds, NEW i \in DOMAIN rs[d]
                PROVE  /\ rs[d][i] \in DOMAIN new
                       /\ new[rs[d][i]].cabin = d
                       /\ new[rs[d][i]].state \in {"queued", "cancelled"}
    BY DEF Proper
  <2>1. CASE d = c /\ rs[d][i] = w
    BY <2>1 DEF SamePlace
  <2>2. CASE ~(d = c /\ rs[d][i] = w)
    <3>1. \E j \in DOMAIN qs[d] : rs[d][i] = qs[d][j]
      BY <2>2, <1>4, <1>6
    <3>2. PICK j \in DOMAIN qs[d] : rs[d][i] = qs[d][j]
      BY <3>1
    <3>3. qs[d][j] \in DOMAIN os /\ qs[d][j] # w
      BY DEF Line, Proper, InNoQueue
    <3>. QED
      BY <3>2, <3>3 DEF Line, Proper, SamePlace
  <2>. QED
    BY <2>1, <2>2
<1>11. \A d \in CabinIds : d # c => InQueue(new, rs, d) \subseteq InQueue(os, qs, d)
  BY <1>6 DEF InQueue, Contenders, SamePlace
<1>. QED
  BY <1>7, <1>8, <1>9, <1>10, <1>11 DEF Line, rs

\* The rest of a sorted queue is sorted, and has the entries that are not before it.
LEMMA RestSorted ==
  ASSUME NEW S, NEW q \in Seq(S), NEW m \in Nat \ {0}, NEW os, SortedQueue(os, q)
  PROVE  LET rest == SubSeq(q, m, Len(q))
         IN  /\ rest \in Seq(S)
             /\ SortedQueue(os, rest)
             /\ \A i \in DOMAIN rest : m + i - 1 \in DOMAIN q /\ rest[i] = q[m + i - 1]
             /\ \A j \in DOMAIN q : j >= m => \E i \in DOMAIN rest : rest[i] = q[j]
<1>. DEFINE rest == SubSeq(q, m, Len(q))
            n    == Len(q)
<1>1. n \in Nat /\ DOMAIN q = 1..n /\ \A i \in 1..n : q[i] \in S
  BY LenProperties, ElementOfSeq
<1>2. /\ rest \in Seq(S)
      /\ Len(rest) = IF m <= n THEN n - m + 1 ELSE 0
      /\ \A i \in 1..(n - m + 1) : rest[i] = q[m + i - 1]
  BY SMTT(30), <1>1, SubSeqProperties
<1>. HIDE DEF rest, n
<1>3. DOMAIN rest = 1..Len(rest)
  BY <1>2, LenProperties
<1>4. \A i \in DOMAIN rest : m + i - 1 \in 1..n /\ i \in 1..(n - m + 1)
  BY <1>1, <1>2, <1>3
<1>5. \A i \in DOMAIN rest : m + i - 1 \in DOMAIN q /\ rest[i] = q[m + i - 1]
  BY <1>1, <1>2, <1>4
<1>6. SortedQueue(os, rest)
  <2>. SUFFICES ASSUME NEW i \in DOMAIN rest, NEW j \in DOMAIN rest, i < j
                PROVE  Before(os, rest[i], rest[j])
    BY DEF SortedQueue
  <2>1. m + i - 1 < m + j - 1
    BY <1>1, <1>4
  <2>. QED
    BY <2>1, <1>5 DEF SortedQueue
<1>7. ASSUME NEW j \in DOMAIN q, j >= m PROVE \E i \in DOMAIN rest : rest[i] = q[j]
  <2>. DEFINE i == j - m + 1
  <2>1. i \in DOMAIN rest /\ m + i - 1 = j
    BY <1>1, <1>2, <1>3, <1>7
  <2>. HIDE DEF i
  <2>. QED
    BY <2>1, <1>5
<1>. QED
  BY <1>2, <1>5, <1>6, <1>7 DEF rest, n

\* An order that advances is at work afterwards, and the others are as they were.
LEMMA AdvancedOrder ==
  ASSUME NEW os, NEW cs, NEW iv, WellTyped(os, cs, iv), NEW c,
         NEW w \in DOMAIN os, Advanced(os, cs, c, w)
  PROVE  /\ SamePlace(os, orders')
         /\ \A v \in DOMAIN os : v # w => orders'[v] = os[v]
         /\ orders'[w].type = os[w].type
         /\ orders'[w].state \in {"in_progress", "executing"}
         /\ os[w].state = "queued"
<1>. DEFINE to == IF os[w].type = "inspection" THEN "in_progress" ELSE "executing"
<1>1. os[w] \in Order /\ os[w].state = "queued" /\ orders' = Move(os, w, to)
  BY OrderOf DEF Advanced, Waiting
<1>2. to \in {"in_progress", "executing"} /\ to \in States
  BY DEF States
<1>. HIDE DEF to
<1>3. CanTransition(os[w].state, to)
  BY <1>1, <1>2 DEF CanTransition, Targets
<1>4. /\ DOMAIN orders' = DOMAIN os
      /\ orders'[w] = Transition(os[w], to)
      /\ \A v \in DOMAIN os : v # w => orders'[v] = os[v]
  BY <1>1, <1>2, MoveTyped
<1>5. /\ orders'[w].state = to
      /\ orders'[w].cabin = os[w].cabin
      /\ orders'[w].priority = os[w].priority
      /\ orders'[w].type = os[w].type
  BY <1>1, <1>2, <1>3, <1>4, TransitionField DEF Transition, Order
<1>. QED
  BY <1>1, <1>2, <1>4, <1>5 DEF SamePlace

(***************************************************************************)
(* assignFromQueue: nobody advances, and then nobody waits or the cabin is *)
(* held; or the first of those waiting does.  The queues stay in line.     *)
(***************************************************************************)
LEMMA AssignInOrder ==
  ASSUME NEW os, NEW cs, NEW qs, NEW ns, NEW iv, NEW c \in CabinIds,
         WellTyped(os, cs, iv), Line(os, qs),
         AssignFromQueue(os, cs, qs, ns, c)
  PROVE  /\ Line(orders', queues')
         /\ Complete(os, qs) => Complete(orders', queues')
         /\ \/ /\ orders' = os /\ cabins' = cs
               /\ Free(cs, c) => InQueue(os, qs, c) = {}
            \/ \E w \in InQueue(os, qs, c) : IsNext(os, qs, c, w) /\ Advanced(os, cs, c, w)
<1>. DEFINE q == qs[c]
<1>1. /\ qs \in [CabinIds -> Seq(DOMAIN os)]
      /\ q \in Seq(DOMAIN os)
      /\ SortedQueue(os, q)
      /\ DOMAIN q = 1..Len(q) /\ Len(q) \in Nat
      /\ \A i \in DOMAIN q : q[i] \in DOMAIN os
  BY LenProperties, EntryOf DEF Line, Sorted, SortedQueue
<1>2. \A v \in InQueue(os, qs, c) : Waiting(os, v) /\ \E i \in DOMAIN q : q[i] = v
  BY DEF InQueue, Contenders, Waiting, IsTerminal, Terminal
<1>3. \A i \in DOMAIN q : Waiting(os, q[i]) => q[i] \in InQueue(os, qs, c)
  BY <1>1 DEF InQueue, Contenders, Waiting, Line, Proper
\* Replacing the queue of the cabin by what is left of it.
<1>4. ASSUME NEW rest \in Seq(DOMAIN os), SortedQueue(os, rest),
             \A i \in DOMAIN rest : \E j \in DOMAIN q : rest[i] = q[j],
             \A v \in InQueue(os, qs, c) : \E i \in DOMAIN rest : rest[i] = v
      PROVE  /\ Line(os, [qs EXCEPT ![c] = rest])
             /\ Complete(os, qs) => Complete(os, [qs EXCEPT ![c] = rest])
  <2>. DEFINE rs == [qs EXCEPT ![c] = rest]
  <2>1. \A d \in CabinIds : rs[d] = IF d = c THEN rest ELSE qs[d]
    BY <1>1
  <2>2. rs \in [CabinIds -> Seq(DOMAIN os)]
    BY <1>1
  <2>. HIDE DEF rs
  <2>3. Complete(os, qs) => Complete(os, rs)
    BY <1>4, <2>1 DEF Complete, InQueue
  <2>4. Sorted(os, rs)
    BY <1>4, <2>1 DEF Line, Sorted, SortedQueue
  <2>5. Proper(os, rs)
    <3>1. \A d \in CabinIds : \A i \in DOMAIN rs[d] : \E j \in DOMAIN qs[d] : rs[d][i] = qs[d][j]
      BY <1>4, <2>1
    <3>. QED
      BY <3>1 DEF Line, Proper
  <2>. QED
    BY <2>2, <2>3, <2>4, <2>5 DEF Line, rs
<1>5. CASE /\ \A i \in DOMAIN q : ~Waiting(os, q[i])
           /\ orders' = os /\ cabins' = cs
           /\ queues' = [qs EXCEPT ![c] = <<>>]
  <2>1. InQueue(os, qs, c) = {}
    BY <1>2, <1>5
  <2>2. <<>> \in Seq(DOMAIN os) /\ DOMAIN <<>> = {}
    OBVIOUS
  <2>3. /\ Line(os, [qs EXCEPT ![c] = <<>>])
        /\ Complete(os, qs) => Complete(os, [qs EXCEPT ![c] = <<>>])
    BY <2>1, <2>2, <1>4 DEF SortedQueue
  <2>. QED
    BY <1>5, <2>1, <2>3
<1>6. ASSUME NEW i \in DOMAIN q, Waiting(os, q[i]),
             \A j \in 1..(i - 1) : ~Waiting(os, q[j])
      PROVE  /\ \A v \in InQueue(os, qs, c) : \E j \in DOMAIN q : j >= i /\ q[j] = v
             /\ IsNext(os, qs, c, q[i])
  <2>1. \A v \in InQueue(os, qs, c) : \E j \in DOMAIN q : j >= i /\ q[j] = v
    BY <1>1, <1>2, <1>6
  <2>2. ASSUME NEW u \in InQueue(os, qs, c), u # q[i] PROVE Before(os, q[i], u)
    <3>1. PICK j \in DOMAIN q : j >= i /\ q[j] = u
      BY <2>1
    <3>2. i < j
      BY <1>1, <2>2, <3>1
    <3>. QED
      BY <1>1, <3>1, <3>2 DEF SortedQueue
  <2>. QED
    BY <1>3, <1>6, <2>1, <2>2 DEF IsNext
<1>7. ASSUME NEW i \in DOMAIN q, Waiting(os, q[i]),
             \A j \in 1..(i - 1) : ~Waiting(os, q[j]),
             ~Free(cs, c), queues' = [qs EXCEPT ![c] = SubSeq(q, i, Len(q))],
             orders' = os, cabins' = cs
      PROVE  Line(orders', queues') /\ (Complete(os, qs) => Complete(orders', queues'))
  <2>. DEFINE rest == SubSeq(q, i, Len(q))
  <2>0. i \in Nat \ {0}
    BY <1>1
  <2>1. /\ rest \in Seq(DOMAIN os)
        /\ SortedQueue(os, rest)
        /\ \A k \in DOMAIN rest : i + k - 1 \in DOMAIN q /\ rest[k] = q[i + k - 1]
        /\ \A j \in DOMAIN q : j >= i => \E k \in DOMAIN rest : rest[k] = q[j]
    BY ZenonT(60), <1>1, <2>0, RestSorted
  <2>. HIDE DEF rest
  <2>2. \A v \in InQueue(os, qs, c) : \E k \in DOMAIN rest : rest[k] = v
    BY <1>6, <1>7, <2>1
  <2>3. \A k \in DOMAIN rest : \E j \in DOMAIN q : rest[k] = q[j]
    BY <2>1
  <2>4. /\ Line(os, [qs EXCEPT ![c] = rest])
        /\ Complete(os, qs) => Complete(os, [qs EXCEPT ![c] = rest])
    BY <1>4, <2>1, <2>2, <2>3
  <2>. QED
    BY <1>7, <2>4 DEF rest
<1>8. ASSUME NEW i \in DOMAIN q, Waiting(os, q[i]),
             \A j \in 1..(i - 1) : ~Waiting(os, q[j]),
             Advanced(os, cs, c, q[i]),
             queues' = [qs EXCEPT ![c] = SubSeq(q, i + 1, Len(q))]
      PROVE  Line(orders', queues') /\ (Complete(os, qs) => Complete(orders', queues'))
  <2>. DEFINE rest == SubSeq(q, i + 1, Len(q))
              w    == q[i]
              rs   == [qs EXCEPT ![c] = rest]
  <2>0. i + 1 \in Nat \ {0} /\ i \in Nat
    BY <1>1
  <2>1. /\ rest \in Seq(DOMAIN os)
        /\ SortedQueue(os, rest)
        /\ \A k \in DOMAIN rest : (i + 1) + k - 1 \in DOMAIN q /\ rest[k] = q[(i + 1) + k - 1]
        /\ \A j \in DOMAIN q : j >= i + 1 => \E k \in DOMAIN rest : rest[k] = q[j]
    BY ZenonT(60), <1>1, <2>0, RestSorted
  <2>2. \A k \in DOMAIN rest : k \in Nat \ {0}
    BY SMTT(30), <2>1, LenProperties
  <2>. HIDE DEF rest
  <2>3. \A k \in DOMAIN rest : \E j \in DOMAIN q : rest[k] = q[j] /\ i < j
    BY <2>0, <2>1, <2>2
  <2>4. \A k \in DOMAIN rest : rest[k] # w
    <3>1. \A j \in DOMAIN q : i < j => Before(os, w, q[j])
      BY <1>1 DEF SortedQueue
    <3>. QED
      BY <1>1, <2>3, <3>1, BeforeIsOrder
  <2>5. w \in DOMAIN os
    BY <1>1
  <2>6. /\ SamePlace(os, orders')
        /\ \A v \in DOMAIN os : v # w => orders'[v] = os[v]
        /\ orders'[w].state \in {"in_progress", "executing"}
    BY <1>8, <2>5, AdvancedOrder
  <2>7. \A d \in CabinIds : rs[d] = IF d = c THEN rest ELSE qs[d]
    BY <1>1
  <2>8. rs \in [CabinIds -> Seq(DOMAIN orders')]
    BY <1>1, <2>1, <2>6 DEF SamePlace
  <2>9. os[w].cabin = c
    BY <1>3, <1>8 DEF InQueue, Contenders
  <2>. HIDE DEF rs
  <2>10. ASSUME Complete(os, qs) PROVE Complete(orders', rs)
    <3>. SUFFICES ASSUME NEW d \in CabinIds, NEW v \in Contenders(orders', d)
                  PROVE  \E k \in DOMAIN rs[d] : rs[d][k] = v
      BY DEF Complete, InQueue
    <3>1. v # w /\ v \in InQueue(os, qs, d)
      BY <2>6, <2>10 DEF Complete, Contenders, SamePlace
    <3>2. CASE d = c
      <4>1. PICK j \in DOMAIN q : j >= i /\ q[j] = v
        BY <1>6, <1>8, <3>1, <3>2
      <4>2. j >= i + 1
        BY <1>1, <3>1, <4>1
      <4>. QED
        BY <2>1, <2>7, <3>2, <4>1, <4>2
    <3>3. CASE d # c
      BY <2>7, <3>1, <3>3 DEF InQueue
    <3>. QED
      BY <3>2, <3>3
  <2>11. Sorted(orders', rs)
    <3>. SUFFICES ASSUME NEW d \in CabinIds, NEW k \in DOMAIN rs[d], NEW m \in DOMAIN rs[d], k < m
                  PROVE  Before(orders', rs[d][k], rs[d][m])
      BY DEF Sorted
    <3>1. Before(os, rs[d][k], rs[d][m])
      BY <2>1, <2>7 DEF Line, Sorted, SortedQueue
    <3>2. rs[d][k] \in DOMAIN os /\ rs[d][m] \in DOMAIN os
      BY <1>1, <2>1, <2>7, EntryOf
    <3>. QED
      BY <2>6, <3>1, <3>2 DEF Before, SamePlace
  <2>12. Proper(orders', rs)
    <3>. SUFFICES ASSUME NEW d \in CabinIds, NEW k \in DOMAIN rs[d]
                  PROVE  /\ rs[d][k] \in DOMAIN orders'
                         /\ orders'[rs[d][k]].cabin = d
                         /\ orders'[rs[d][k]].state \in {"queued", "cancelled"}
      BY DEF Proper
    <3>1. \E j \in DOMAIN qs[d] : rs[d][k] = qs[d][j]
      BY <2>3, <2>7
    <3>2. rs[d][k] # w
      BY <2>4, <2>7, <2>9, <3>1 DEF Line, Proper
    <3>. QED
      BY <2>6, <3>1, <3>2 DEF Line, Proper, SamePlace
  <2>. QED
    BY <1>8, <2>8, <2>10, <2>11, <2>12 DEF Line, rs, rest
<1>9. \/ /\ \A i \in DOMAIN q : ~Waiting(os, q[i])
         /\ orders' = os /\ cabins' = cs
         /\ queues' = [qs EXCEPT ![c] = <<>>]
      \/ \E i \in DOMAIN q :
           /\ Waiting(os, q[i])
           /\ \A j \in 1..(i - 1) : ~Waiting(os, q[j])
           /\ \/ /\ ~Free(cs, c) /\ orders' = os /\ cabins' = cs
                 /\ queues' = [qs EXCEPT ![c] = SubSeq(q, i, Len(q))]
              \/ /\ Advanced(os, cs, c, q[i])
                 /\ queues' = [qs EXCEPT ![c] = SubSeq(q, i + 1, Len(q))]
  BY <1>1 DEF AssignFromQueue, Advanced
<1>. HIDE DEF q
<1>. QED
  BY <1>3, <1>5, <1>6, <1>7, <1>8, <1>9

-----------------------------------------------------------------------------
(***************************************************************************)
(* What a step can do to the queues.                                       *)
(***************************************************************************)

\* An order that changes without starting or ceasing to wait.
Alike(o, n) ==
  /\ n.cabin = o.cabin /\ n.priority = o.priority /\ n.type = o.type
  /\ n.state # o.state =>
       /\ {o.state, n.state} \cap {"queued", "cancelled"} = {}
       /\ o.state = "created" => o.type = "maintenance"

\* A step that neither asks for a cabin nor gives one up.
Calm ==
  /\ DOMAIN orders' = DOMAIN orders
  /\ \A w \in DOMAIN orders : Alike(orders[w], orders'[w])
  /\ SameHolders(cabins, cabins')
  /\ UNCHANGED queues
  /\ creating' \subseteq creating

\* Moving an order from a state where it does not wait to one where it does not.
LEMMA MoveAlike ==
  ASSUME NEW o \in Order, NEW to \in States \ {"queued", "cancelled"},
         o.state \notin {"queued", "cancelled"},
         o.state = "created" => o.type = "maintenance" \/ ~CanTransition("created", to)
  PROVE  Alike(o, Transition(o, to))
<1>1. /\ Transition(o, to).cabin = o.cabin
      /\ Transition(o, to).priority = o.priority
      /\ Transition(o, to).type = o.type
      /\ Transition(o, to).state \in {o.state, to}
  BY TransitionField
<1>2. o.state = "created" /\ ~CanTransition("created", to) => Transition(o, to) = o
  BY DEF Transition
<1>. QED
  BY <1>1, <1>2 DEF Alike

\* A step that replaces one order by one that is alike, and keeps the holders.
LEMMA CalmUpdate ==
  ASSUME TypeOK, NEW w \in OrderIds, NEW o, Alike(orders[w], o),
         orders' = Updated(orders, w, o), SameHolders(cabins, cabins'),
         UNCHANGED queues, creating' \subseteq creating
  PROVE  Calm
<1>1. /\ DOMAIN orders' = DOMAIN orders
      /\ orders'[w] = o
      /\ \A v \in DOMAIN orders : v # w => orders'[v] = orders[v]
  BY DEF OrderIds, Updated
<1>. QED
  BY <1>1 DEF Calm, Alike

\* The same for an order that moves.
LEMMA CalmMove ==
  ASSUME TypeOK, NEW w \in OrderIds, NEW to \in States \ {"queued", "cancelled"},
         orders[w].state \notin {"queued", "cancelled", "created"},
         orders' = Move(orders, w, to), SameHolders(cabins, cabins'),
         UNCHANGED queues, creating' \subseteq creating
  PROVE  Calm
<1>1. orders[w] \in Order
  BY OrderOf DEF TypeOK, OrderIds
<1>2. Alike(orders[w], Transition(orders[w], to))
  BY <1>1, MoveAlike
<1>3. orders' = Updated(orders, w, Transition(orders[w], to))
  BY DEF Move, Updated
<1>. QED
  BY <1>2, <1>3, CalmUpdate

(***************************************************************************)
(* The kinds of step: only a handful of operations touch a queue or pass a *)
(* cabin on.                                                               *)
(***************************************************************************)
LEMMA StepKinds ==
  ASSUME TypeOK, [Next]_vars
  PROVE  \/ Calm
         \/ \E c \in CabinIds : RegisterCabin(c)
         \/ \E type \in OrderTypes, c \in CabinIds, p \in Urgencies : Create(type, c, p)
         \/ \E w \in OrderIds :
              \/ PlaceInspection(w)
              \/ EnterCabin(w)
              \/ FailPartsRequisition(w)
              \/ \E to \in Terminal : Leave(w, to)
<1>1. /\ WellTyped(orders, cabins, inv)
      /\ \A c \in DOMAIN cabins : cabins[c] \in Cab!Cabins
  BY DEF TypeOK, WellTyped, CabinsTyped
<1>2. \A w \in OrderIds : orders[w] \in Order
  BY <1>1, OrderOf DEF OrderIds
<1>3. SameHolders(cabins, cabins)
  BY DEF SameHolders
<1>4. Working \cup {"authorized", "escalated"} \subseteq States \ {"queued", "cancelled", "created"}
  BY DEF Working, InspectionWork, MaintenanceWork, States
<1>5. ASSUME UNCHANGED <<orders, cabins, queues>>, creating' \subseteq creating PROVE Calm
  BY <1>3, <1>5 DEF Calm, Alike
<1>6. ASSUME NEW w \in OrderIds, DetectAnomaly(w) PROVE Calm
  <2>. DEFINE c == orders[w].cabin
              o == [orders[w] EXCEPT !.anomaly = "detected", !.deadline = "running"]
              k == Cab!Freeze(cabins[c])
  <2>1. Alike(orders[w], o)
    BY <1>2 DEF Order, Alike
  <2>2. /\ c \in DOMAIN cabins
        /\ cabins' = [cabins EXCEPT ![c] = k]
        /\ orders' = Updated(orders, w, o)
        /\ UNCHANGED <<queues, creating>>
    BY <1>6 DEF DetectAnomaly, Updated
  <2>3. k.active = cabins[c].active
    BY <1>1, <2>2, CabinOps
  <2>. HIDE DEF o, k, c
  <2>4. SameHolders(cabins, cabins')
    BY <2>2, <2>3, HolderKept
  <2>5. Calm
    BY <2>1, <2>2, <2>4, CalmUpdate
  <2>. QED
    BY <2>5
<1>7. ASSUME NEW w \in OrderIds, ReportAnomaly(w) PROVE Calm
  <2>. DEFINE p == [orders[w] EXCEPT !.anomaly = "reported"]
              o == Transition(p, "anomaly_reported")
  <2>1. /\ p \in Order /\ p.state = "in_progress"
        /\ p.cabin = orders[w].cabin /\ p.priority = orders[w].priority
        /\ p.type = orders[w].type /\ orders[w].state = "in_progress"
    BY <1>2, <1>7 DEF Order, Anomalies, ReportAnomaly
  <2>2. orders' = Updated(orders, w, o) /\ UNCHANGED <<cabins, queues, creating>>
    BY <1>7 DEF ReportAnomaly, Updated
  <2>. HIDE DEF p
  <2>3. Alike(p, o)
    BY <2>1, <1>4, MoveAlike, WorkingStates
  <2>. HIDE DEF o
  <2>4. Alike(orders[w], o)
    BY <2>1, <2>3 DEF Alike
  <2>. QED
    BY <1>3, <2>2, <2>4, CalmUpdate
<1>8. ASSUME NEW w \in OrderIds, AuthorizeMaintenance(w) \/ RejectAuthorization(w)
      PROVE  Calm
  <2>. DEFINE p == Timed(orders[w])
              o == Transition(p, "authorized")
  <2>1. /\ p \in Order /\ p.state = orders[w].state
        /\ p.cabin = orders[w].cabin /\ p.priority = orders[w].priority
        /\ p.type = orders[w].type
    BY <1>2 DEF Order, Timed, Deadlines
  <2>2. /\ orders[w].type = "maintenance"
        /\ UNCHANGED <<cabins, queues, creating>>
        /\ \/ orders' = Updated(orders, w, p)
           \/ /\ orders' = Updated(orders, w, o)
              /\ orders[w].state = "authorized" \/ CanTransition(orders[w].state, "authorized")
    BY <1>8 DEF AuthorizeMaintenance, RejectAuthorization, Updated
  <2>. HIDE DEF p
  <2>3. Alike(orders[w], p)
    BY <2>1 DEF Alike
  <2>4. ASSUME orders[w].state = "authorized" \/ CanTransition(orders[w].state, "authorized")
        PROVE  Alike(orders[w], o)
    <3>1. orders[w].state \notin {"queued", "cancelled"}
      BY <2>4 DEF CanTransition, Targets
    <3>2. Alike(p, o)
      BY <1>4, <2>1, <2>2, <3>1, MoveAlike
    <3>. HIDE DEF o
    <3>. QED
      BY <2>1, <3>2 DEF Alike
  <2>. HIDE DEF o
  <2>. QED
    BY <1>3, <2>2, <2>3, <2>4, CalmUpdate
<1>9. ASSUME NEW w \in OrderIds, NEW s \in SKUs, NEW n \in Quantities,
             RequestParts(w, s, n)
      PROVE  Calm
  <2>. DEFINE a == [orders[w] EXCEPT !.req = Len(inv.requisitions) + 1]
              b == Transition(a, "parts_requested")
              d == Transition(b, "parts_suspended")
  <2>1. inv.requisitions \in Seq(Inv!Requisition(OrderIds, DOMAIN inv.parts, Quantities))
    BY <1>1 DEF WellTyped, Inv!Typed, OrderIds
  <2>2. /\ a \in Order /\ a.state = "executing" /\ orders[w].state = "executing"
        /\ a.cabin = orders[w].cabin /\ a.priority = orders[w].priority
        /\ a.type = orders[w].type
    <3>1. Len(inv.requisitions) + 1 \in Nat
      BY <2>1, LenProperties
    <3>. QED
      BY <1>2, <1>9, <3>1 DEF Order, RequestParts
  <2>3. /\ orders' = Updated(orders, w, b) \/ orders' = Updated(orders, w, d)
        /\ UNCHANGED <<cabins, queues, creating>>
    BY <1>9 DEF RequestParts, Updated
  <2>. HIDE DEF a
  <2>4. /\ b \in Order /\ b.state \in {"executing", "parts_requested"}
        /\ Alike(a, b)
    BY <2>2, TransitionField, MoveAlike, WorkingStates, <1>4
  <2>. HIDE DEF b
  <2>5. Alike(b, d)
    BY <2>4, MoveAlike, WorkingStates, <1>4
  <2>. HIDE DEF d
  <2>6. Alike(orders[w], b) /\ Alike(orders[w], d)
    BY <2>2, <2>4, <2>5 DEF Alike
  <2>. QED
    BY <1>3, <2>3, <2>6, CalmUpdate
<1>10. ASSUME NEW w \in OrderIds,
              \/ ConfirmParts(w)
              \/ \E s \in SKUs, n \in Quantities : EmergencyProcurement(w, s, n)
              \/ CompleteRepair(w) \/ RequestRestoration(w)
              \/ InterruptApproval(w) \/ RecheckComplete(w)
       PROVE  Calm
  <2>1. UNCHANGED <<cabins, queues, creating>>
    BY <1>10 DEF ConfirmParts, EmergencyProcurement, CompleteRepair,
       RequestRestoration, InterruptApproval, RecheckComplete, Step
  <2>2. \/ orders' = orders
        \/ orders[w].state \in Working /\ \E to \in Working : orders' = Move(orders, w, to)
    BY <1>10, WorkingStates DEF ConfirmParts, EmergencyProcurement, CompleteRepair,
       RequestRestoration, InterruptApproval, RecheckComplete, Step
  <2>. QED
    BY <1>3, <1>4, <1>5, <2>1, <2>2, CalmMove
<1>11. ASSUME NEW w \in OrderIds, NEW b \in BOOLEAN, NEW g \in BOOLEAN,
              ApproveRestoration(w, b, g)
       PROVE  Calm
  <2>. DEFINE c       == orders[w].cabin
              k       == Cab!Recheck(cabins[c], b, g)
              t       == Cab!Thaw(k)
              checked == [cabins EXCEPT ![c] = k]
              thawed  == [checked EXCEPT ![c] = t]
  <2>1. c \in DOMAIN cabins /\ cabins[c] \in Cab!Cabins
    BY <1>1, <1>11 DEF ApproveRestoration
  <2>2. k \in Cab!Cabins /\ k.active = cabins[c].active /\ t.active = cabins[c].active
    <3>1. k \in Cab!Cabins /\ k.active = cabins[c].active
      BY <2>1, CabinOps
    <3>. HIDE DEF k
    <3>. QED
      BY <3>1, CabinOps
  <2>3. /\ \E to \in {"pending_recheck", "restoration_approved"} :
              orders' = Move(orders, w, to)
        /\ cabins' = checked \/ cabins' = thawed
        /\ UNCHANGED <<queues, creating>>
        /\ orders[w].state = "pending_restoration"
    <3>1. checked[c] = k
      BY <2>1
    <3>. HIDE DEF checked, k
    <3>. QED
      BY <1>11, <3>1 DEF ApproveRestoration, checked, k
  <2>. HIDE DEF k, t
  <2>4. SameHolders(cabins, checked) /\ SameHolders(cabins, thawed)
    <3>1. thawed = [cabins EXCEPT ![c] = t]
      BY <2>1
    <3>. QED
      BY <2>1, <2>2, <3>1, HolderKept
  <2>. HIDE DEF checked, thawed
  <2>. QED
    BY <1>4, <2>3, <2>4, CalmMove, WorkingStates
<1>12. ASSUME NEW w \in OrderIds, EscalateOrder(w) PROVE Calm
  BY <1>3, <1>4, <1>12, CalmMove, WorkingStates DEF EscalateOrder
<1>13. ASSUME NEW w \in OrderIds, ResumeFromEscalation(w) PROVE Calm
  <2>. DEFINE p == [orders[w] EXCEPT !.deadline = "running"]
              o == Transition(p, "authorized")
  <2>1. /\ p \in Order /\ p.state = "escalated" /\ orders[w].state = "escalated"
        /\ p.cabin = orders[w].cabin /\ p.priority = orders[w].priority
        /\ p.type = orders[w].type
    BY <1>2, <1>13 DEF ResumeFromEscalation, Order, Deadlines
  <2>2. /\ UNCHANGED <<cabins, queues, creating>>
        /\ orders' = Updated(orders, w, o) \/ orders' = Move(orders, w, "executing")
    BY <1>13 DEF ResumeFromEscalation, Updated
  <2>. HIDE DEF p
  <2>3. Alike(p, o)
    BY <1>4, <2>1, MoveAlike
  <2>. HIDE DEF o
  <2>4. Alike(orders[w], o)
    BY <2>1, <2>3 DEF Alike
  <2>. QED
    BY <1>3, <1>4, <2>1, <2>2, <2>4, CalmUpdate, CalmMove, WorkingStates
<1>14. ASSUME NEW w \in OrderIds, DeadlinePasses(w) PROVE Calm
  <2>. DEFINE o == [orders[w] EXCEPT !.deadline = "passed"]
  <2>1. Alike(orders[w], o)
    BY <1>2 DEF Order, Alike
  <2>2. orders' = Updated(orders, w, o) /\ UNCHANGED <<cabins, queues, creating>>
    BY <1>14 DEF DeadlinePasses, Updated
  <2>. HIDE DEF o
  <2>. QED
    BY <1>3, <2>1, <2>2, CalmUpdate
<1>15. CASE CheckMaintenanceTimeouts
  <2>1. \A w \in OverdueResponses : Alike(orders[w], Transition(orders[w], "escalated"))
    BY <1>2, <1>4, MoveAlike DEF OverdueResponses
  <2>2. /\ DOMAIN orders' = DOMAIN orders
        /\ \A w \in DOMAIN orders : Alike(orders[w], orders'[w])
    BY <1>15, <2>1 DEF CheckMaintenanceTimeouts, OrderIds, Alike
  <2>. QED
    BY <1>3, <1>15, <2>2 DEF CheckMaintenanceTimeouts, Calm
<1>16. CASE \/ UNCHANGED vars
            \/ CheckAnomalyDeadlines
            \/ \E w \in OrderIds : PlaceMaintenance(w)
            \/ \E s \in SKUs, n \in StockLevels : RegisterPart(s, n)
  BY <1>5, <1>16 DEF vars, CheckAnomalyDeadlines, PlaceMaintenance, RegisterPart
<1>. QED
  BY <1>6, <1>7, <1>8, <1>9, <1>10, <1>11, <1>12, <1>13, <1>14, <1>15, <1>16
  DEF Next, Persisting, Calls, Place, Checks, Unsaved, Outside, Registrations,
      Creations, Clock, CloseOrder, CancelOrder, Terminal

-----------------------------------------------------------------------------
(***************************************************************************)
(* The queues stay in line.                                                *)
(***************************************************************************)
LEMMA QueueCalm ==
  ASSUME TypeOK, QueueInv, Calm
  PROVE  QueueInv' /\ (CompleteInv => CompleteInv')
<1>1. /\ DOMAIN orders' = DOMAIN orders
      /\ \A w \in DOMAIN orders :
           /\ orders'[w].cabin = orders[w].cabin
           /\ orders'[w].priority = orders[w].priority
           /\ orders'[w].type = orders[w].type
           /\ orders[w].state \in {"queued", "cancelled"} => orders'[w].state = orders[w].state
           /\ orders'[w].state = "queued" => orders[w].state = "queued"
           /\ orders[w].type = "inspection" /\ orders[w].state = "created" =>
                orders'[w].state = "created"
      /\ queues' = queues
      /\ creating' \subseteq creating /\ creating \subseteq DOMAIN orders
  BY DEF Calm, Alike, TypeOK, OrderIds
<1>2. CompleteInv => CompleteInv'
  BY <1>1 DEF CompleteInv, Complete, InQueue, Contenders
<1>3. Sorted(orders', queues)
  BY <1>1 DEF QueueInv, Line, Sorted, Proper, Before
<1>4. Proper(orders', queues)
  BY <1>1 DEF QueueInv, Line, Proper
<1>5. Unplaced(orders', queues, creating')
  BY <1>1 DEF QueueInv, Unplaced
<1>. QED
  BY <1>1, <1>2, <1>3, <1>4, <1>5 DEF QueueInv, Line

\* A new order waits for nothing yet, and is in no queue.
LEMMA QueueCreate ==
  ASSUME TypeOK, QueueInv, NEW type \in OrderTypes, NEW c \in CabinIds, NEW p \in Urgencies,
         Create(type, c, p)
  PROVE  QueueInv' /\ (CompleteInv => CompleteInv')
<1>. DEFINE n == Len(orders) + 1
<1>1. /\ TypeOK'
      /\ DOMAIN orders' = DOMAIN orders \cup {n}
      /\ n \notin DOMAIN orders
      /\ orders'[n].state = "created"
      /\ \A w \in DOMAIN orders : orders'[w] = orders[w]
  <2>1. NewOrder(type, c, p).state = "created"
    BY DEF NewOrder
  <2>. QED
    BY <2>1, CreateStep DEF OrderIds
<1>2. queues' = queues /\ creating' = creating \cup {n}
  BY DEF Create
<1>. HIDE DEF n
<1>3. \A d \in CabinIds : \A i \in DOMAIN queues[d] : queues[d][i] \in DOMAIN orders
  BY DEF QueueInv, Line, Proper
<1>4. CompleteInv => CompleteInv'
  BY <1>1, <1>2 DEF CompleteInv, Complete, InQueue, Contenders
<1>5. Sorted(orders', queues)
  BY <1>1, <1>3 DEF QueueInv, Line, Sorted, Before
<1>6. Proper(orders', queues)
  BY <1>1, <1>3 DEF QueueInv, Line, Proper
<1>7. creating \subseteq DOMAIN orders
  BY DEF TypeOK, OrderIds
<1>8. Unplaced(orders', queues, creating')
  BY <1>1, <1>2, <1>3, <1>7 DEF QueueInv, Unplaced, InNoQueue
<1>9. queues \in [CabinIds -> Seq(DOMAIN orders')]
  BY <1>1, <1>2 DEF TypeOK, OrderIds
<1>. QED
  BY <1>2, <1>4, <1>5, <1>6, <1>8, <1>9 DEF QueueInv, Line

\* Orders that are still to be placed stay out of queues that get others only.
LEMMA UnplacedKept ==
  ASSUME NEW os, NEW qs, NEW cr, Unplaced(os, qs, cr), cr \subseteq DOMAIN os,
         NEW new, NEW rs, NEW less \in SUBSET cr,
         \A w \in less : os[w].type = "inspection" =>
           /\ new[w] = os[w]
           /\ \A c \in CabinIds : \A i \in DOMAIN rs[c] :
                rs[c][i] = w => \E j \in DOMAIN qs[c] : qs[c][j] = w,
         \A w \in less : new[w].type = os[w].type
  PROVE  Unplaced(new, rs, less)
BY DEF Unplaced, InNoQueue

\* Asking for a cabin, as an order does that neither waits nor has been placed.
LEMMA QueueAsked ==
  ASSUME TypeOK, QueueInv, NEW w \in OrderIds, NEW type,
         NEW to \in {"in_progress", "executing"}, AskForCabin(w, type, to),
         InNoQueue(queues, w), orders[w].state # "queued",
         CanTransition(orders[w].state, "queued") \/ orders[w].state = "cancelled",
         creating' \subseteq creating,
         orders[w].type = "inspection" => w \notin creating'
  PROVE  QueueInv' /\ (CompleteInv => CompleteInv')
<1>. DEFINE c == orders[w].cabin
<1>1. /\ WellTyped(orders, cabins, inv)
      /\ w \in DOMAIN orders /\ orders[w] \in Order
      /\ c \in CabinIds
      /\ Line(orders, queues) /\ Unplaced(orders, queues, creating)
      /\ creating \subseteq DOMAIN orders
  BY OrderOf DEF TypeOK, OrderIds, QueueInv
<1>2. ASSUME NEW x \in States, orders' = Move(orders, w, x)
      PROVE  /\ SamePlace(orders, orders')
             /\ \A v \in DOMAIN orders : v # w => orders'[v] = orders[v]
             /\ orders'[w] = Transition(orders[w], x)
             /\ orders'[w].type = orders[w].type
             /\ orders'[w].state \in {orders[w].state, x}
  <2>1. /\ DOMAIN orders' = DOMAIN orders
        /\ orders'[w] = Transition(orders[w], x)
        /\ \A v \in DOMAIN orders : v # w => orders'[v] = orders[v]
    BY <1>1, <1>2, MoveTyped
  <2>2. /\ Transition(orders[w], x).cabin = orders[w].cabin
        /\ Transition(orders[w], x).priority = orders[w].priority
        /\ Transition(orders[w], x).type = orders[w].type
        /\ Transition(orders[w], x).state \in {orders[w].state, x}
    BY <1>1, TransitionField
  <2>. QED
    BY <2>1, <2>2 DEF SamePlace
<1>3. CASE orders' = Move(orders, w, to) /\ UNCHANGED queues
  <2>1. to \in States
    BY DEF States
  <2>2. /\ SamePlace(orders, orders')
        /\ \A v \in DOMAIN orders : v # w => orders'[v] = orders[v]
        /\ orders'[w].type = orders[w].type
        /\ orders'[w].state \in {orders[w].state, to}
        /\ orders'[w] = Transition(orders[w], to)
    BY <1>2, <1>3, <2>1
  <2>3. orders[w].state = "cancelled" => orders'[w].state = "cancelled"
    BY <2>2 DEF Transition, CanTransition, Targets
  <2>4. Line(orders', queues) /\ (Complete(orders, queues) => Complete(orders', queues))
    BY <1>1, <2>2, <2>3, LineOneOrder
  <2>5. \A v \in creating' : orders'[v].type = orders[v].type
    BY <1>1, <2>2
  <2>6. Unplaced(orders', queues, creating')
    BY <1>1, <2>2, <2>5, UnplacedKept
  <2>. QED
    BY <1>3, <2>4, <2>6 DEF QueueInv, CompleteInv
<1>4. CASE orders' = Move(orders, w, "queued") /\ queues' = [queues EXCEPT ![c] = Enqueue(orders, @, w)]
  <2>1. "queued" \in States
    BY DEF States
  <2>2. /\ SamePlace(orders, orders')
        /\ \A v \in DOMAIN orders : v # w => orders'[v] = orders[v]
        /\ orders'[w].type = orders[w].type
        /\ orders'[w] = Transition(orders[w], "queued")
    BY <1>2, <1>4, <2>1
  <2>3. orders'[w].state \in {"queued", "cancelled"}
    BY <1>1, <2>2 DEF Transition, Order
  <2>4. queues' = Enqueued(queues, c, orders, w)
    BY <1>4 DEF Enqueued
  <2>5. SamePlace(orders, orders)
    BY DEF SamePlace
  <2>6. Line(orders', queues') /\ (Complete(orders, queues) => Complete(orders', queues'))
    BY <1>1, <2>2, <2>3, <2>4, <2>5, LineEnqueued
  <2>7. /\ \A d \in CabinIds : \A i \in DOMAIN queues'[d] :
             queues'[d][i] = w \/ \E j \in DOMAIN queues[d] : queues'[d][i] = queues[d][j]
    <3>. DEFINE e == Enqueue(orders, queues[c], w)
    <3>1. \A i \in DOMAIN e : e[i] = w \/ \E j \in DOMAIN queues[c] : e[i] = queues[c][j]
      BY <1>1, EnqueueEntries DEF Line
    <3>2. queues' = [queues EXCEPT ![c] = e] /\ queues \in [CabinIds -> Seq(DOMAIN orders)]
      BY <1>1, <1>4 DEF Line
    <3>. HIDE DEF e
    <3>. QED
      BY <3>1, <3>2
  <2>8. \A v \in creating' : orders'[v].type = orders[v].type
    BY <1>1, <2>2
  <2>9. Unplaced(orders', queues', creating')
    BY <1>1, <2>2, <2>7, <2>8, UnplacedKept
  <2>. QED
    BY <2>6, <2>9 DEF QueueInv, CompleteInv
<1>. QED
  BY <1>3, <1>4 DEF AskForCabin

\* What assignFromQueue does to the queues, when the maps it works on are in line.
LEMMA QueueAssigned ==
  ASSUME NEW os, NEW cs, NEW qs, NEW ns, NEW iv, NEW c \in CabinIds,
         WellTyped(os, cs, iv), Line(os, qs), ns \subseteq Observed \X DOMAIN os,
         Unplaced(os, qs, creating), creating \subseteq DOMAIN os, creating' = creating,
         AssignFromQueue(os, cs, qs, ns, c)
  PROVE  QueueInv' /\ (Complete(os, qs) => CompleteInv')
<1>1. /\ Line(orders', queues')
      /\ Complete(os, qs) => Complete(orders', queues')
      /\ \/ orders' = os
         \/ \E w \in Contenders(os, c) : Advanced(os, cs, c, w)
  BY AssignInOrder DEF InQueue
<1>2. \A d \in CabinIds : \A i \in DOMAIN queues'[d] :
        \E j \in DOMAIN qs[d] : queues'[d][i] = qs[d][j]
  BY AssignFacts DEF Line
<1>3. /\ \A v \in creating : orders'[v].type = os[v].type
      /\ \A v \in creating : os[v].type = "inspection" => orders'[v] = os[v]
  <2>1. CASE orders' = os
    BY <2>1
  <2>2. ASSUME NEW w \in Contenders(os, c), Advanced(os, cs, c, w)
        PROVE  /\ \A v \in creating : orders'[v].type = os[v].type
               /\ \A v \in creating : os[v].type = "inspection" => orders'[v] = os[v]
    <3>1. w \in DOMAIN os /\ os[w].state = "queued"
      BY DEF Contenders
    <3>2. /\ \A v \in DOMAIN os : v # w => orders'[v] = os[v]
          /\ orders'[w].type = os[w].type
      BY <2>2, <3>1, AdvancedOrder
    <3>3. \A v \in creating : os[v].type = "inspection" => v # w
      BY <3>1 DEF Unplaced
    <3>. QED
      BY <3>2, <3>3
  <2>. QED
    BY <1>1, <2>1, <2>2
<1>4. \A v \in creating : os[v].type = "inspection" =>
        /\ orders'[v] = os[v]
        /\ \A d \in CabinIds : \A i \in DOMAIN queues'[d] :
             queues'[d][i] = v => \E j \in DOMAIN qs[d] : qs[d][j] = v
  BY <1>2, <1>3
<1>5. Unplaced(orders', queues', creating)
  BY <1>3, <1>4 DEF Unplaced, InNoQueue
<1>. QED
  BY <1>1, <1>5 DEF QueueInv, CompleteInv

\* An order whose parts fail is back in line before the cabin is passed on.
LEMMA FailedBack ==
  ASSUME TypeOK, QueueInv, NEW w \in OrderIds, FailPartsRequisition(w)
  PROVE  LET back == Move(orders, w, "queued")
             qs   == Enqueued(queues, orders[w].cabin, back, w)
         IN  /\ SamePlace(orders, back)
             /\ \A v \in OrderIds : v # w => back[v] = orders[v]
             /\ back[w].type = orders[w].type
             /\ back[w].state = "queued"
             /\ orders[w].state \in {"parts_requested", "parts_suspended"}
             /\ Line(back, qs)
             /\ \A c \in CabinIds : c # orders[w].cabin =>
                  InQueue(back, qs, c) \subseteq InQueue(orders, queues, c)
             /\ CompleteInv => Complete(back, qs)
             /\ Unplaced(back, qs, creating)
<1>. DEFINE back == Move(orders, w, "queued")
            c    == orders[w].cabin
            e    == Enqueue(back, queues[c], w)
            qs   == Enqueued(queues, c, back, w)
<1>1. /\ WellTyped(orders, cabins, inv)
      /\ w \in DOMAIN orders /\ orders[w] \in Order
      /\ c \in CabinIds
      /\ Line(orders, queues) /\ Unplaced(orders, queues, creating)
      /\ creating \subseteq DOMAIN orders
      /\ orders[w].state \in {"parts_requested", "parts_suspended"}
  BY OrderOf DEF TypeOK, OrderIds, QueueInv, FailPartsRequisition
<1>2. "queued" \in States /\ CanTransition(orders[w].state, "queued")
  BY <1>1 DEF States, CanTransition, Targets
<1>3. /\ DOMAIN back = DOMAIN orders
      /\ back[w] = Transition(orders[w], "queued")
      /\ \A v \in DOMAIN orders : v # w => back[v] = orders[v]
  BY <1>1, <1>2, MoveTyped
<1>4. /\ back[w].state = "queued"
      /\ back[w].cabin = c
      /\ back[w].priority = orders[w].priority
      /\ back[w].type = orders[w].type
  BY <1>1, <1>2, <1>3, TransitionField DEF Transition, Order
<1>. HIDE DEF back
<1>5. SamePlace(orders, back)
  BY <1>3, <1>4 DEF SamePlace
<1>6. InNoQueue(queues, w)
  BY <1>1 DEF Line, Proper, InNoQueue
<1>7. /\ Line(back, qs)
      /\ \A d \in CabinIds : d # c => InQueue(back, qs, d) \subseteq InQueue(orders, queues, d)
      /\ CompleteInv => Complete(back, qs)
  BY <1>1, <1>3, <1>4, <1>5, <1>6, LineEnqueued DEF CompleteInv
<1>8. \A d \in CabinIds : \A i \in DOMAIN qs[d] :
        qs[d][i] = w \/ \E j \in DOMAIN queues[d] : qs[d][i] = queues[d][j]
  <2>1. \A i \in DOMAIN e : e[i] = w \/ \E j \in DOMAIN queues[c] : e[i] = queues[c][j]
    BY <1>1, EnqueueEntries DEF Line
  <2>2. qs = [queues EXCEPT ![c] = e] /\ queues \in [CabinIds -> Seq(DOMAIN orders)]
    BY <1>1 DEF Line, Enqueued
  <2>. HIDE DEF e, qs
  <2>. QED
    BY <2>1, <2>2
<1>. HIDE DEF qs
<1>9. \A v \in creating : orders[v].type = "inspection" => v # w
  BY <1>1 DEF Unplaced
<1>10. Unplaced(back, qs, creating)
  <2>1. \A v \in creating : back[v].type = orders[v].type
    BY <1>1, <1>3, <1>4
  <2>. QED
    BY <1>1, <1>3, <1>8, <1>9, <2>1 DEF Unplaced, InNoQueue
<1>. QED
  BY <1>1, <1>3, <1>4, <1>5, <1>7, <1>10 DEF back, qs, OrderIds

LEMMA QueueFailed ==
  ASSUME TypeOK, QueueInv, NEW w \in OrderIds, FailPartsRequisition(w)
  PROVE  QueueInv' /\ (CompleteInv => CompleteInv')
<1>. DEFINE c    == orders[w].cabin
            back == Move(orders, w, "queued")
            rel  == Released(cabins, c)
            qs   == Enqueued(queues, c, back, w)
            told == notifs \cup Notified("parts_failure", {w})
<1>1. /\ c \in CabinIds
      /\ WellTyped(back, rel, inv')
      /\ DOMAIN back = DOMAIN orders
      /\ told \subseteq Observed \X DOMAIN back
      /\ AssignFromQueue(back, rel, qs, told, c)
  BY FailPartsHandsOver DEF OrderIds, Enqueued
<1>2. Line(back, qs) /\ Unplaced(back, qs, creating) /\ (CompleteInv => Complete(back, qs))
  BY FailedBack
<1>3. creating \subseteq DOMAIN back /\ creating' = creating
  BY <1>1 DEF TypeOK, OrderIds, FailPartsRequisition
<1>. HIDE DEF c, back, rel, qs, told
<1>. QED
  BY <1>1, <1>2, <1>3, QueueAssigned

\* An order that is closed or cancelled leaves the queues in line.
LEMMA LeftGone ==
  ASSUME TypeOK, QueueInv, NEW w \in OrderIds, NEW to \in Terminal, Leave(w, to)
  PROVE  LET gone == Move(orders, w, to)
         IN  /\ SamePlace(orders, gone)
             /\ \A v \in OrderIds : v # w => gone[v] = orders[v]
             /\ gone[w].type = orders[w].type
             /\ gone[w].state = to
             /\ Line(gone, queues)
             /\ \A c \in CabinIds : InQueue(gone, queues, c) \subseteq InQueue(orders, queues, c)
             /\ CompleteInv => Complete(gone, queues)
             /\ Unplaced(gone, queues, creating)
<1>. DEFINE gone == Move(orders, w, to)
<1>1. /\ WellTyped(orders, cabins, inv)
      /\ w \in DOMAIN orders /\ orders[w] \in Order
      /\ Line(orders, queues) /\ Unplaced(orders, queues, creating)
      /\ creating \subseteq DOMAIN orders
      /\ CanTransition(orders[w].state, to)
      /\ orders[w].state \notin Terminal
  BY OrderOf DEF TypeOK, OrderIds, QueueInv, Leave, IsTerminal
<1>2. to \in States /\ to \in {"closed", "cancelled"}
  BY DEF States, Terminal
<1>3. /\ DOMAIN gone = DOMAIN orders
      /\ gone[w] = Transition(orders[w], to)
      /\ \A v \in DOMAIN orders : v # w => gone[v] = orders[v]
  BY <1>1, <1>2, MoveTyped
<1>4. /\ gone[w].state = to
      /\ gone[w].cabin = orders[w].cabin
      /\ gone[w].priority = orders[w].priority
      /\ gone[w].type = orders[w].type
  BY <1>1, <1>2, <1>3, TransitionField DEF Transition, Order
<1>. HIDE DEF gone
<1>5. SamePlace(orders, gone)
  BY <1>3, <1>4 DEF SamePlace
<1>6. orders[w].state \in {"queued", "created"} => to = "cancelled"
  BY <1>1, <1>2 DEF CanTransition, Targets
<1>7. /\ Line(gone, queues)
      /\ \A c \in CabinIds : InQueue(gone, queues, c) \subseteq InQueue(orders, queues, c)
      /\ CompleteInv => Complete(gone, queues)
  <2>1. gone[w].state # "queued"
    BY <1>2, <1>4
  <2>2. orders[w].state \in {"queued", "cancelled"} => gone[w].state \in {"queued", "cancelled"}
    BY <1>1, <1>4, <1>6 DEF Terminal
  <2>. QED
    BY <1>1, <1>3, <1>5, <2>1, <2>2, LineOneOrder DEF CompleteInv
<1>8. Unplaced(gone, queues, creating)
  BY <1>1, <1>3, <1>4, <1>6 DEF Unplaced, Terminal
<1>. QED
  BY <1>3, <1>4, <1>5, <1>7, <1>8 DEF gone, OrderIds

LEMMA QueueLeft ==
  ASSUME TypeOK, QueueInv, NEW w \in OrderIds, NEW to \in Terminal, Leave(w, to)
  PROVE  QueueInv' /\ (CompleteInv => CompleteInv')
<1>. DEFINE c    == orders[w].cabin
            gone == Move(orders, w, to)
            left == LeftBy(cabins, w)
<1>1. /\ c \in CabinIds
      /\ WellTyped(gone, left, inv)
      /\ DOMAIN gone = DOMAIN orders
      /\ notifs \subseteq Observed \X DOMAIN gone
      /\ AssignFromQueue(gone, left, queues, notifs, c)
  BY LeaveHandsOver DEF OrderIds
<1>2. Line(gone, queues) /\ Unplaced(gone, queues, creating) /\ (CompleteInv => Complete(gone, queues))
  BY LeftGone
<1>3. creating \subseteq DOMAIN gone /\ creating' = creating
  BY <1>1 DEF TypeOK, OrderIds, Leave
<1>. HIDE DEF c, gone, left
<1>. QED
  BY <1>1, <1>2, <1>3, QueueAssigned

LEMMA NoQueues ==
  ASSUME NEW os, NEW cs, NEW qs, qs = [c \in CabinIds |-> <<>>]
  PROVE  Line(os, qs) /\ Unplaced(os, qs, {}) /\ Served(os, cs, qs)
<1>1. \A c \in CabinIds : DOMAIN qs[c] = {}
  OBVIOUS
<1>2. qs \in [CabinIds -> Seq(DOMAIN os)]
  OBVIOUS
<1>. QED
  BY <1>1, <1>2 DEF Line, Unplaced, Sorted, Proper, Served, InQueue

LEMMA QueueInit == Init => QueueInv /\ CompleteInv
<1>1. DOMAIN <<>> = {}
  OBVIOUS
<1>. QED
  BY <1>1, NoQueues DEF Init, QueueInv, CompleteInv, Complete, Contenders

LEMMA AskerOutside ==
  ASSUME TypeOK, QueueInv, NEW w \in OrderIds, PlaceInspection(w) \/ EnterCabin(w)
  PROVE  /\ InNoQueue(queues, w)
         /\ orders[w].state # "queued"
         /\ CanTransition(orders[w].state, "queued") \/ orders[w].state = "cancelled"
         /\ orders[w].type = "inspection" => w \notin creating'
         /\ creating' \subseteq creating
         /\ \E type, to : /\ to \in {"in_progress", "executing"}
                          /\ AskForCabin(w, type, to)
<1>1. CASE PlaceInspection(w)
  <2>1. w \in creating /\ orders[w].type = "inspection" /\ creating' = creating \ {w}
    BY <1>1 DEF PlaceInspection
  <2>2. orders[w].state \in {"created", "cancelled"} /\ InNoQueue(queues, w)
    BY <2>1 DEF QueueInv, Unplaced
  <2>3. AskForCabin(w, "inspection", "in_progress")
    BY <1>1, PlaceInspectionAsks
  <2>. QED
    BY <2>1, <2>2, <2>3 DEF CanTransition, Targets
<1>2. CASE EnterCabin(w)
  <2>1. orders[w].state \in {"authorized", "escalated"} /\ orders[w].type = "maintenance"
        /\ creating' = creating
    BY <1>2 DEF EnterCabin
  <2>2. InNoQueue(queues, w)
    BY <2>1 DEF QueueInv, Line, Proper, InNoQueue
  <2>3. AskForCabin(w, "maintenance", "executing")
    BY <1>2, EnterCabinAsks
  <2>. QED
    BY <2>1, <2>2, <2>3 DEF CanTransition, Targets
<1>. QED
  BY <1>1, <1>2

LEMMA QueueStep ==
  ASSUME TypeOK, QueueInv, [Next]_vars
  PROVE  QueueInv' /\ (CompleteInv => CompleteInv')
<1>. DEFINE Kept == QueueInv' /\ (CompleteInv => CompleteInv')
<1>1. CASE Calm
  BY <1>1, QueueCalm
<1>2. ASSUME NEW c \in CabinIds, RegisterCabin(c) PROVE Kept
  BY <1>2 DEF RegisterCabin, QueueInv, CompleteInv
<1>3. ASSUME NEW type \in OrderTypes, NEW c \in CabinIds, NEW p \in Urgencies,
             Create(type, c, p)
      PROVE  Kept
  BY <1>3, QueueCreate
<1>4. ASSUME NEW w \in OrderIds, PlaceInspection(w) \/ EnterCabin(w) PROVE Kept
  <2>1. PICK type, to : to \in {"in_progress", "executing"} /\ AskForCabin(w, type, to)
    BY <1>4, AskerOutside
  <2>. QED
    BY <1>4, <2>1, AskerOutside, QueueAsked
<1>5. ASSUME NEW w \in OrderIds, FailPartsRequisition(w) PROVE Kept
  BY <1>5, QueueFailed
<1>6. ASSUME NEW w \in OrderIds, NEW to \in Terminal, Leave(w, to) PROVE Kept
  BY <1>6, QueueLeft
<1>. QED
  BY <1>1, <1>2, <1>3, <1>4, <1>5, <1>6, StepKinds

LEMMA QueueKept == Spec => [](TypeOK /\ QueueInv /\ CompleteInv)
<1>1. Init => TypeOK /\ QueueInv /\ CompleteInv
  BY TypeInit, QueueInit
<1>2. (TypeOK /\ QueueInv /\ CompleteInv) /\ [Next]_vars => (TypeOK /\ QueueInv /\ CompleteInv)'
  BY TypeStep, QueueStep
<1>. QED
  BY <1>1, <1>2, PTL DEF Spec

LEMMA OrderedQueues == QueueInv => QueueOrdered
BY DEF QueueInv, Line, Sorted, Proper, QueueOrdered

(***************************************************************************)
(* The queues stay sorted, and hold only orders for their cabin that wait  *)
(* or were cancelled: enqueue and assignFromQueue keep them so, whatever   *)
(* the calls and the cabins, and for stray cabins too.                     *)
(***************************************************************************)
THEOREM QueuesInOrder == Spec => []QueueOrdered
BY OrderedQueues, QueueKept, PTL

LEMMA CompleteQueues ==
  ASSUME TypeOK, CompleteInv
  PROVE  QueuedOrderIsInQueue
<1>. SUFFICES ASSUME NEW w \in OrderIds, orders[w].state = "queued"
              PROVE  \E i \in DOMAIN queues[orders[w].cabin] : queues[orders[w].cabin][i] = w
  BY DEF QueuedOrderIsInQueue
<1>1. orders[w].cabin \in CabinIds
  BY OrderOf DEF TypeOK, OrderIds
<1>. QED
  BY <1>1 DEF CompleteInv, Complete, InQueue, Contenders, OrderIds

(***************************************************************************)
(* Every waiting order is in the queue of its cabin, so that it can be     *)
(* found when the cabin is passed on.                                      *)
(***************************************************************************)
THEOREM NoneIsLost == Spec => []QueuedOrderIsInQueue
<1>1. TypeOK /\ CompleteInv => QueuedOrderIsInQueue
  BY CompleteQueues
<1>. QED
  BY <1>1, QueueKept, PTL

\* Whoever advances in assignFromQueue goes before those that go on waiting.
LEMMA AdvanceInOrder ==
  ASSUME NEW os, NEW cs, NEW qs, NEW ns, NEW iv, NEW c \in CabinIds,
         WellTyped(os, cs, iv), Line(os, qs), Complete(os, qs), AssignFromQueue(os, cs, qs, ns, c),
         NEW v \in DOMAIN os, NEW w \in DOMAIN os,
         os[w].state = "queued", orders'[w].state \in Working,
         os[v].state = "queued", orders'[v].state = "queued",
         os[v].cabin = os[w].cabin
  PROVE  Before(os, w, v)
<1>1. "queued" \notin Working
  BY WorkingStates
<1>2. orders' # os
  BY <1>1
<1>3. PICK x \in InQueue(os, qs, c) : IsNext(os, qs, c, x) /\ Advanced(os, cs, c, x)
  BY <1>2, AssignInOrder
<1>4. /\ x \in DOMAIN os /\ os[x].cabin = c
      /\ \A u \in DOMAIN os : u # x => orders'[u] = os[u]
      /\ orders'[x].state \in {"in_progress", "executing"}
  BY <1>3, AdvancedOrder DEF InQueue, Contenders
<1>5. w = x /\ v # x
  BY <1>1, <1>4
<1>6. v \in InQueue(os, qs, c)
  BY <1>4, <1>5 DEF Complete, Contenders
<1>. QED
  BY <1>3, <1>5, <1>6 DEF IsNext

(***************************************************************************)
(* No order is overtaken: one that advances from the queue precedes those  *)
(* that go on waiting for its cabin, by priority and then by age.          *)
(***************************************************************************)
THEOREM PriorityHonoured == Spec => AdvanceHonoursPriority
<1>. DEFINE Honoured ==
       \A v, w \in OrderIds :
         /\ orders[w].state = "queued" /\ orders'[w].state \in Working
         /\ orders[v].state = "queued" /\ orders'[v].state = "queued"
         /\ orders[v].cabin = orders[w].cabin
         => Before(orders, w, v)
<1>1. "queued" \notin Working
  BY WorkingStates
<1>2. TypeOK /\ QueueInv /\ CompleteInv /\ [Next]_vars => Honoured
  <2>. SUFFICES ASSUME TypeOK, QueueInv, CompleteInv, [Next]_vars,
                       NEW v \in OrderIds, NEW w \in OrderIds,
                       orders[w].state = "queued", orders'[w].state \in Working,
                       orders[v].state = "queued", orders'[v].state = "queued",
                       orders[v].cabin = orders[w].cabin
                PROVE  Before(orders, w, v)
    OBVIOUS
  <2>. USE DEF OrderIds
  <2>1. ~Calm
    BY <1>1 DEF Calm, Alike
  <2>2. ASSUME NEW c \in CabinIds, RegisterCabin(c) PROVE FALSE
    BY <1>1, <2>2 DEF RegisterCabin
  <2>3. ASSUME NEW type \in OrderTypes, NEW c \in CabinIds, NEW p \in Urgencies,
               Create(type, c, p)
        PROVE  FALSE
    BY <1>1, <2>3, CreateStep
  <2>4. ASSUME NEW x \in OrderIds, PlaceInspection(x) \/ EnterCabin(x) PROVE FALSE
    <3>1. orders[x].state # "queued"
      BY <2>4, AskerOutside
    <3>2. orders'[w] = orders[w]
      <4>1. PICK type, to : to \in {"in_progress", "executing"} /\ AskForCabin(x, type, to)
        BY <2>4, AskerOutside
      <4>2. orders' = Move(orders, x, to) \/ orders' = Move(orders, x, "queued")
        BY <4>1 DEF AskForCabin
      <4>3. WellTyped(orders, cabins, inv) /\ to \in States /\ "queued" \in States
        BY <4>1 DEF TypeOK, States
      <4>. QED
        BY <3>1, <4>2, <4>3, MoveTyped
    <3>. QED
      BY <1>1, <3>2
  <2>5. ASSUME NEW x \in OrderIds, FailPartsRequisition(x) PROVE Before(orders, w, v)
    <3>. DEFINE c    == orders[x].cabin
                back == Move(orders, x, "queued")
                rel  == Released(cabins, c)
                qs   == Enqueued(queues, c, back, x)
                told == notifs \cup Notified("parts_failure", {x})
    <3>1. /\ c \in CabinIds
          /\ WellTyped(back, rel, inv')
          /\ DOMAIN back = DOMAIN orders
          /\ AssignFromQueue(back, rel, qs, told, c)
      BY <2>5, FailPartsHandsOver DEF Enqueued
    <3>2. /\ Line(back, qs) /\ Complete(back, qs)
          /\ SamePlace(orders, back)
          /\ back[w] = orders[w] /\ back[v] = orders[v]
      BY <2>5, FailedBack
    <3>. HIDE DEF c, back, rel, qs, told
    <3>3. Before(back, w, v)
      BY <3>1, <3>2, AdvanceInOrder
    <3>. QED
      BY <3>2, <3>3 DEF Before
  <2>6. ASSUME NEW x \in OrderIds, NEW to \in Terminal, Leave(x, to)
        PROVE  Before(orders, w, v)
    <3>. DEFINE c    == orders[x].cabin
                gone == Move(orders, x, to)
                left == LeftBy(cabins, x)
    <3>1. /\ c \in CabinIds
          /\ WellTyped(gone, left, inv)
          /\ DOMAIN gone = DOMAIN orders
          /\ AssignFromQueue(gone, left, queues, notifs, c)
      BY <2>6, LeaveHandsOver
    <3>2. /\ Line(gone, queues) /\ Complete(gone, queues)
          /\ SamePlace(orders, gone)
          /\ gone[x].state \in Terminal
          /\ \A u \in DOMAIN orders : u # x => gone[u] = orders[u]
      BY <2>6, LeftGone
    <3>. HIDE DEF c, gone, left
    <3>3. v # x /\ w # x
      <4>1. orders' = gone \/ \E y \in Contenders(gone, c) : Advanced(gone, left, c, y)
        BY <3>1, <3>2, AssignInOrder DEF InQueue
      <4>2. orders'[x] = gone[x]
        <5>1. ASSUME NEW y \in Contenders(gone, c), Advanced(gone, left, c, y)
              PROVE  orders'[x] = gone[x]
          <6>1. y \in DOMAIN gone /\ y # x
            BY <3>2 DEF Contenders, Terminal
          <6>. QED
            BY <3>1, <5>1, <6>1, AdvancedOrder
        <5>. QED
          BY <4>1, <5>1
      <4>. QED
        BY <3>2, <4>2 DEF Terminal, Working, InspectionWork, MaintenanceWork
    <3>4. Before(gone, w, v)
      <4>1. w \in DOMAIN gone /\ v \in DOMAIN gone /\ gone[w] = orders[w] /\ gone[v] = orders[v]
        BY <3>1, <3>2, <3>3
      <4>. QED
        BY <3>1, <3>2, <4>1, AdvanceInOrder
    <3>. QED
      BY <3>2, <3>3, <3>4 DEF Before
  <2>. QED
    BY <2>1, <2>2, <2>3, <2>4, <2>5, <2>6, StepKinds
<1>3. Spec => [][Honoured]_vars
  BY <1>2, QueueKept, PTL DEF Spec
<1>. QED
  BY <1>3 DEF AdvanceHonoursPriority

-----------------------------------------------------------------------------
(***************************************************************************)
(* No order waits for a free cabin, if orders name registered cabins only: *)
(* an order for a cabin that is not registered would go on waiting when it *)
(* is.                                                                     *)
(***************************************************************************)

\* No order starts to wait, and no cabin becomes free.
LEMMA ServedKept ==
  ASSUME NEW os, NEW cs, NEW qs, Served(os, cs, qs), NEW new, NEW ds, NEW rs,
         \A c \in CabinIds : InQueue(new, rs, c) \subseteq InQueue(os, qs, c),
         \A c \in CabinIds : Free(ds, c) => Free(cs, c)
  PROVE  Served(new, ds, rs)
BY DEF Served

LEMMA SameHoldersFree ==
  ASSUME NEW cs, NEW ds, SameHolders(cs, ds), NEW c
  PROVE  Free(ds, c) <=> Free(cs, c)
BY DEF SameHolders, Free, Cab!CanAcquire

\* A cabin that was taken is not free.
LEMMA AcquiredFree ==
  ASSUME NEW os, NEW cs, NEW iv, WellTyped(os, cs, iv),
         NEW c, Free(cs, c), NEW w \in DOMAIN os, NEW type
  PROVE  /\ ~Free(Acquired(cs, c, w, type), c)
         /\ \A d : d # c /\ Free(Acquired(cs, c, w, type), d) => Free(cs, d)
<1>1. /\ DOMAIN Acquired(cs, c, w, type) = DOMAIN cs
      /\ Acquired(cs, c, w, type)[c].active = w
      /\ \A d \in DOMAIN cs : d # c => Acquired(cs, c, w, type)[d] = cs[d]
      /\ w # Cab!Nobody
  BY AcquiredTyped, OrderOf DEF Cab!Nobody
<1>. QED
  BY <1>1 DEF Free, Cab!CanAcquire

\* Passing a cabin on serves those who wait for it; others are served already.
LEMMA ServedAssigned ==
  ASSUME NEW os, NEW cs, NEW qs, NEW ns, NEW iv, NEW c \in CabinIds,
         WellTyped(os, cs, iv), Line(os, qs), ns \subseteq Observed \X DOMAIN os,
         AssignFromQueue(os, cs, qs, ns, c),
         \A d \in CabinIds : d # c /\ Free(cs, d) => InQueue(os, qs, d) = {}
  PROVE  ServedInv'
<1>1. \A d \in CabinIds : \A i \in DOMAIN queues'[d] :
        \E j \in DOMAIN qs[d] : queues'[d][i] = qs[d][j]
  BY AssignFacts DEF Line
<1>2. CASE orders' = os /\ cabins' = cs /\ (Free(cs, c) => InQueue(os, qs, c) = {})
  <2>1. \A d \in CabinIds : InQueue(os, queues', d) \subseteq InQueue(os, qs, d)
    BY <1>1 DEF InQueue
  <2>. QED
    BY <1>2, <2>1 DEF ServedInv, Served
<1>3. ASSUME NEW w \in InQueue(os, qs, c), Advanced(os, cs, c, w)
      PROVE  ServedInv'
  <2>1. /\ w \in DOMAIN os /\ os[w].cabin = c
        /\ SamePlace(os, orders')
        /\ \A v \in DOMAIN os : v # w => orders'[v] = os[v]
        /\ orders'[w].state # "queued"
    BY <1>3, AdvancedOrder DEF InQueue, Contenders
  <2>2. \A d \in CabinIds : InQueue(orders', queues', d) \subseteq InQueue(os, qs, d)
    BY <1>1, <2>1 DEF InQueue, Contenders, SamePlace
  <2>3. Free(cs, c) /\ cabins' = Acquired(cs, c, w, os[w].type)
    BY <1>3 DEF Advanced
  <2>4. /\ ~Free(cabins', c)
        /\ \A d : d # c /\ Free(cabins', d) => Free(cs, d)
    BY <2>1, <2>3, AcquiredFree
  <2>. QED
    BY <2>2, <2>4 DEF ServedInv, Served
<1>. QED
  BY <1>2, <1>3, AssignInOrder

LEMMA ReleasedFree ==
  ASSUME NEW os, NEW cs, NEW iv, WellTyped(os, cs, iv), NEW c, NEW d, d # c,
         Free(Released(cs, c), d)
  PROVE  Free(cs, d)
BY ReleasedTyped DEF Free

LEMMA ServedStep ==
  ASSUME TypeOK, Known(orders, cabins), QueueInv, ServedInv, [Next]_vars
  PROVE  ServedInv'
<1>0. /\ WellTyped(orders, cabins, inv)
      /\ \A w \in OrderIds : orders[w].cabin \in DOMAIN cabins
  BY DEF TypeOK, Known, OrderIds
<1>1. CASE Calm
  <2>1. \A c \in CabinIds : InQueue(orders', queues', c) \subseteq InQueue(orders, queues, c)
    BY <1>1 DEF Calm, Alike, InQueue, Contenders
  <2>2. \A c \in CabinIds : Free(cabins', c) => Free(cabins, c)
    BY <1>1, SameHoldersFree DEF Calm
  <2>. QED
    BY <2>1, <2>2, ServedKept DEF ServedInv
<1>2. ASSUME NEW c \in CabinIds, RegisterCabin(c) PROVE ServedInv'
  <2>1. /\ orders' = orders /\ queues' = queues /\ c \notin DOMAIN cabins
        /\ \A d \in CabinIds : d # c /\ Free(cabins', d) => Free(cabins, d)
    BY <1>2 DEF RegisterCabin, Free
  <2>2. InQueue(orders, queues, c) = {}
    BY <1>0, <2>1 DEF InQueue, Contenders, OrderIds
  <2>. QED
    BY <2>1, <2>2 DEF ServedInv, Served
<1>3. ASSUME NEW type \in OrderTypes, NEW c \in CabinIds, NEW p \in Urgencies,
             Create(type, c, p)
      PROVE  ServedInv'
  <2>1. NewOrder(type, c, p).state = "created"
    BY DEF NewOrder
  <2>2. cabins' = cabins /\ queues' = queues
    BY <1>3 DEF Create
  <2>3. \A d \in CabinIds : InQueue(orders', queues', d) \subseteq InQueue(orders, queues, d)
    BY <1>3, <2>1, <2>2, CreateStep DEF InQueue, Contenders, OrderIds
  <2>. QED
    BY <2>2, <2>3, ServedKept DEF ServedInv
<1>4. ASSUME NEW w \in OrderIds, PlaceInspection(w) \/ EnterCabin(w) PROVE ServedInv'
  <2>. DEFINE c == orders[w].cabin
  <2>1. PICK type, to : to \in {"in_progress", "executing"} /\ AskForCabin(w, type, to)
    BY <1>4, AskerOutside
  <2>2. to \in States /\ "queued" \in States /\ to # "queued"
        /\ w \in DOMAIN orders /\ orders[w] \in Order /\ orders[w].state # "queued"
    BY <1>0, <1>4, <2>1, AskerOutside, OrderOf DEF States, OrderIds
  <2>3. ASSUME NEW x \in States, orders' = Move(orders, w, x)
        PROVE  /\ DOMAIN orders' = DOMAIN orders
               /\ \A v \in DOMAIN orders : v # w => orders'[v] = orders[v]
               /\ orders'[w].cabin = c
               /\ orders'[w].state \in {orders[w].state, x}
    BY <1>0, <2>2, <2>3, MoveTyped, TransitionField
  <2>4. CASE /\ Free(cabins, c) /\ cabins' = Acquired(cabins, c, w, type)
             /\ orders' = Move(orders, w, to) /\ queues' = queues
    <3>1. \A d \in CabinIds : InQueue(orders', queues', d) \subseteq InQueue(orders, queues, d)
      BY <2>2, <2>3, <2>4 DEF InQueue, Contenders
    <3>2. \A d \in CabinIds : Free(cabins', d) => Free(cabins, d)
      BY <1>0, <2>2, <2>4, AcquiredFree
    <3>. QED
      BY <3>1, <3>2, ServedKept DEF ServedInv
  <2>5. CASE /\ ~Free(cabins, c) /\ cabins' = cabins /\ orders' = Move(orders, w, "queued")
             /\ queues' = [queues EXCEPT ![c] = Enqueue(orders, @, w)]
    <3>1. \A d \in CabinIds : d # c => queues'[d] = queues[d]
      BY <2>5 DEF QueueInv, Line
    <3>2. \A d \in CabinIds : d # c => InQueue(orders', queues', d) \subseteq InQueue(orders, queues, d)
      BY <2>2, <2>3, <2>5, <3>1 DEF InQueue, Contenders
    <3>. QED
      BY <2>5, <3>2 DEF ServedInv, Served
  <2>. QED
    BY <2>1, <2>4, <2>5 DEF AskForCabin
<1>5. ASSUME NEW w \in OrderIds, FailPartsRequisition(w) PROVE ServedInv'
  <2>. DEFINE c    == orders[w].cabin
              back == Move(orders, w, "queued")
              rel  == Released(cabins, c)
              qs   == Enqueued(queues, c, back, w)
              told == notifs \cup Notified("parts_failure", {w})
  <2>1. /\ c \in CabinIds
        /\ WellTyped(back, rel, inv')
        /\ told \subseteq Observed \X DOMAIN back
        /\ AssignFromQueue(back, rel, qs, told, c)
    BY <1>5, FailPartsHandsOver DEF Enqueued
  <2>2. /\ Line(back, qs)
        /\ \A d \in CabinIds : d # c => InQueue(back, qs, d) \subseteq InQueue(orders, queues, d)
    BY <1>5, FailedBack
  <2>3. \A d \in CabinIds : d # c /\ Free(rel, d) => Free(cabins, d)
    BY <1>0, ReleasedFree
  <2>. HIDE DEF back, rel, qs, told
  <2>4. \A d \in CabinIds : d # c /\ Free(rel, d) => InQueue(back, qs, d) = {}
    BY <2>2, <2>3 DEF ServedInv, Served
  <2>. HIDE DEF c
  <2>. QED
    BY <2>1, <2>2, <2>4, ServedAssigned
<1>6. ASSUME NEW w \in OrderIds, NEW to \in Terminal, Leave(w, to) PROVE ServedInv'
  <2>. DEFINE c    == orders[w].cabin
              gone == Move(orders, w, to)
              left == LeftBy(cabins, w)
  <2>1. /\ c \in CabinIds
        /\ WellTyped(gone, left, inv)
        /\ notifs \subseteq Observed \X DOMAIN gone
        /\ AssignFromQueue(gone, left, queues, notifs, c)
    BY <1>6, LeaveHandsOver
  <2>2. /\ Line(gone, queues)
        /\ \A d \in CabinIds : InQueue(gone, queues, d) \subseteq InQueue(orders, queues, d)
    BY <1>6, LeftGone
  <2>3. \A d \in CabinIds : d # c /\ Free(left, d) => Free(cabins, d)
    BY <1>0, ReleasedFree DEF LeftBy
  <2>. HIDE DEF gone, left
  <2>4. \A d \in CabinIds : d # c /\ Free(left, d) => InQueue(gone, queues, d) = {}
    BY <2>2, <2>3 DEF ServedInv, Served
  <2>. HIDE DEF c
  <2>. QED
    BY <2>1, <2>2, <2>4, ServedAssigned
<1>. QED
  BY <1>1, <1>2, <1>3, <1>4, <1>5, <1>6, StepKinds

LEMMA ServedAlways ==
  ASSUME ~StrayCabins
  PROVE  Spec => [](TypeOK /\ LockInv /\ QueueInv /\ CompleteInv /\ ServedInv)
<1>. DEFINE Inductive == TypeOK /\ LockInv /\ QueueInv /\ CompleteInv /\ ServedInv
<1>1. Init => Inductive
  <2>1. Init => ServedInv
    BY NoQueues DEF Init, ServedInv
  <2>. QED
    BY <2>1, TypeInit, LockInit, QueueInit
<1>2. Inductive /\ [Next]_vars => Inductive'
  <2>1. LockInv => Known(orders, cabins)
    BY DEF LockInv, Lock
  <2>. QED
    BY <2>1, TypeStep, LockStep, QueueStep, ServedStep
<1>. QED
  BY <1>1, <1>2, PTL DEF Spec

LEMMA ServedQueues ==
  ASSUME QueueInv, ServedInv
  PROVE  NoWaitingForFreeCabin
<1>. SUFFICES ASSUME NEW c \in CabinIds, Free(cabins, c),
                     NEW i \in DOMAIN queues[c], Waiting(orders, queues[c][i])
              PROVE  FALSE
  BY DEF NoWaitingForFreeCabin
<1>1. queues[c][i] \in InQueue(orders, queues, c)
  BY DEF QueueInv, Line, Proper, InQueue, Contenders, Waiting
<1>. QED
  BY <1>1 DEF ServedInv, Served

(***************************************************************************)
(* Whatever frees a cabin advances its queue, before anyone else can look: *)
(* no order is left waiting for a cabin that is free.                      *)
(***************************************************************************)
THEOREM NoneWaitsInVain ==
  ASSUME ~StrayCabins PROVE Spec => []NoWaitingForFreeCabin
<1>1. QueueInv /\ ServedInv => NoWaitingForFreeCabin
  BY ServedQueues
<1>. QED
  BY <1>1, ServedAlways, PTL

-----------------------------------------------------------------------------
(***************************************************************************)
(* The refinement: on the maps of CabinLock, every step is a step of it or *)
(* a stuttering one.                                                       *)
(***************************************************************************)
KnownOf(os) ==
  [w \in DOMAIN os |-> [cabin |-> os[w].cabin, priority |-> os[w].priority]]

HolderOf(cs) == [c \in DOMAIN cs |-> cs[c].active]

WaitingOf(os) == {w \in DOMAIN os : os[w].state = "queued"}

\* The holders h once the cabin c is given to w.
Given(h, c, w) == [h EXCEPT ![c] = w]

LEMMA AllInQueue ==
  ASSUME NEW os, NEW qs, Complete(os, qs), NEW c \in CabinIds
  PROVE  InQueue(os, qs, c) = Contenders(os, c)
BY DEF Complete, InQueue

LEMMA KnownSame ==
  ASSUME NEW os, NEW new, SamePlace(os, new)
  PROVE  KnownOf(new) = KnownOf(os)
BY DEF SamePlace, KnownOf

LEMMA HolderAcquired ==
  ASSUME NEW os, NEW cs, NEW iv, WellTyped(os, cs, iv),
         NEW c, Free(cs, c), NEW w \in DOMAIN os, NEW type
  PROVE  HolderOf(Acquired(cs, c, w, type)) = Given(HolderOf(cs), c, w)
<1>. DEFINE ds == Acquired(cs, c, w, type)
<1>1. /\ DOMAIN ds = DOMAIN cs
      /\ ds[c].active = w
      /\ \A d \in DOMAIN cs : d # c => ds[d] = cs[d]
  BY AcquiredTyped
<1>. HIDE DEF ds
<1>2. HolderOf(ds) = Given(HolderOf(cs), c, w)
  BY <1>1 DEF HolderOf, Given
<1>. QED
  BY <1>2 DEF ds

LEMMA HolderReleased ==
  ASSUME NEW os, NEW cs, NEW iv, WellTyped(os, cs, iv), NEW c \in DOMAIN cs
  PROVE  HolderOf(Released(cs, c)) = Given(HolderOf(cs), c, Cab!Nobody)
<1>. DEFINE ds == Released(cs, c)
<1>1. /\ DOMAIN ds = DOMAIN cs
      /\ ds[c] = Cab!Release(cs[c])
      /\ \A d \in DOMAIN cs : d # c => ds[d] = cs[d]
  BY ReleasedTyped
<1>2. cs[c] \in Cab!Cabins
  BY DEF WellTyped, CabinsTyped
<1>3. ds[c].active = Cab!Nobody
  BY <1>1, <1>2, CabinOps
<1>. HIDE DEF ds
<1>4. HolderOf(ds) = Given(HolderOf(cs), c, Cab!Nobody)
  BY <1>1, <1>3 DEF HolderOf, Given
<1>. QED
  BY <1>4 DEF ds

\* One order changes, and the others wait as they did.
LEMMA WaitingOne ==
  ASSUME NEW os, NEW new, NEW w \in DOMAIN os, SamePlace(os, new),
         \A v \in DOMAIN os : v # w => new[v] = os[v]
  PROVE  WaitingOf(new) = IF new[w].state = "queued" THEN WaitingOf(os) \cup {w}
                                                     ELSE WaitingOf(os) \ {w}
BY DEF WaitingOf, SamePlace

\* What a step has to do to be one of those, in these terms.
LEMMA TakeStep ==
  ASSUME TypeOK, NEW w \in OrderIds,
         orders[w].cabin \in DOMAIN cabins,
         Free(cabins, orders[w].cabin), Contenders(orders, orders[w].cabin) = {},
         KnownOf(orders') = KnownOf(orders), WaitingOf(orders') = WaitingOf(orders),
         HolderOf(cabins') = Given(HolderOf(cabins), orders[w].cabin, w)
  PROVE  CabinLocks!Take(w)
BY DEF CabinLocks!Take, CabinLocks!Nobody, Given, KnownOf, HolderOf, WaitingOf, OrderIds,
       Free, Cab!CanAcquire, Cab!Nobody, Contenders

LEMMA WaitStep ==
  ASSUME TypeOK, NEW w \in OrderIds,
         orders[w].cabin \in DOMAIN cabins, ~Free(cabins, orders[w].cabin),
         KnownOf(orders') = KnownOf(orders), HolderOf(cabins') = HolderOf(cabins),
         WaitingOf(orders') = WaitingOf(orders) \cup {w}
  PROVE  CabinLocks!Wait(w)
BY DEF CabinLocks!Wait, CabinLocks!Nobody, KnownOf, HolderOf, WaitingOf, OrderIds,
       Free, Cab!CanAcquire, Cab!Nobody

LEMMA GiveUpStep ==
  ASSUME NEW w \in WaitingOf(orders),
         KnownOf(orders') = KnownOf(orders), HolderOf(cabins') = HolderOf(cabins),
         WaitingOf(orders') = WaitingOf(orders) \ {w}
  PROVE  CabinLocks!GiveUpWaiting(w)
BY DEF CabinLocks!GiveUpWaiting, KnownOf, HolderOf, WaitingOf, OrderIds

LEMMA Stutter ==
  ASSUME KnownOf(orders') = KnownOf(orders), HolderOf(cabins') = HolderOf(cabins),
         WaitingOf(orders') = WaitingOf(orders)
  PROVE  UNCHANGED CabinLocks!vars
BY DEF CabinLocks!vars, KnownOf, HolderOf, WaitingOf, OrderIds

\* A step of one order is a step of CabinLock.
LEMMA OneOrdersStep ==
  ASSUME NEW w \in OrderIds,
         \/ CabinLocks!Take(w) \/ CabinLocks!Wait(w) \/ CabinLocks!GiveUpWaiting(w)
         \/ CabinLocks!Leave(w) \/ CabinLocks!Requeue(w)
  PROVE  CabinLocks!Next
BY DEF CabinLocks!Next

\* The order w gives up its cabin c to the first of those in left, if any.
PassedOn(w, c, left) ==
  /\ HolderOf(cabins)[c] = w
  /\ KnownOf(orders') = KnownOf(orders)
  /\ \/ /\ {v \in left : KnownOf(orders)[v].cabin = c} = {}
        /\ HolderOf(cabins') = Given(HolderOf(cabins), c, Cab!Nobody)
        /\ WaitingOf(orders') = left
     \/ \E x \in {v \in left : KnownOf(orders)[v].cabin = c} :
          /\ \A u \in {v \in left : KnownOf(orders)[v].cabin = c} \ {x} :
               \/ KnownOf(orders)[x].priority > KnownOf(orders)[u].priority
               \/ KnownOf(orders)[x].priority = KnownOf(orders)[u].priority /\ x < u
          /\ HolderOf(cabins') = Given(HolderOf(cabins), c, x)
          /\ WaitingOf(orders') = left \ {x}

LEMMA LeaveStep ==
  ASSUME NEW w \in OrderIds, PassedOn(w, orders[w].cabin, WaitingOf(orders) \ {w})
  PROVE  CabinLocks!Next
<1>1. CabinLocks!Leave(w)
  BY DEF PassedOn, CabinLocks!Leave, CabinLocks!PassOn, CabinLocks!Before, CabinLocks!Nobody,
     Cab!Nobody, Given, KnownOf, HolderOf, WaitingOf, OrderIds
<1>. QED
  BY <1>1, OneOrdersStep

LEMMA RequeueStep ==
  ASSUME NEW w \in OrderIds, PassedOn(w, orders[w].cabin, WaitingOf(orders) \cup {w})
  PROVE  CabinLocks!Next
<1>1. CabinLocks!Requeue(w)
  BY DEF PassedOn, CabinLocks!Requeue, CabinLocks!PassOn, CabinLocks!Before, CabinLocks!Nobody,
     Cab!Nobody, Given, KnownOf, HolderOf, WaitingOf, OrderIds
<1>. QED
  BY <1>1, OneOrdersStep

\* assignFromQueue, after the holder gave up its cabin, passes the cabin on.
LEMMA PassOnStep ==
  ASSUME NEW os, NEW cs, NEW qs, NEW ns, NEW iv, NEW c \in CabinIds,
         WellTyped(os, cs, iv), Line(os, qs), Complete(os, qs), AssignFromQueue(os, cs, qs, ns, c),
         SamePlace(orders, os), c \in DOMAIN cabins,
         HolderOf(cs) = Given(HolderOf(cabins), c, Cab!Nobody),
         NEW w, cabins[c].active = w
  PROVE  PassedOn(w, c, WaitingOf(os))
<1>. DEFINE left       == WaitingOf(os)
            contenders == {v \in left : KnownOf(orders)[v].cabin = c}
<1>0. InQueue(os, qs, c) = Contenders(os, c)
  BY AllInQueue
<1>1. /\ DOMAIN os = DOMAIN orders
      /\ contenders = Contenders(os, c)
      /\ left = {v \in DOMAIN orders : os[v].state = "queued"}
  BY DEF SamePlace, WaitingOf, KnownOf, Contenders
<1>2. HolderOf(cabins)[c] = w /\ Free(cs, c)
  <2>1. c \in DOMAIN cs /\ HolderOf(cs)[c] = Cab!Nobody
    BY DEF HolderOf, Given
  <2>. QED
    BY <2>1 DEF HolderOf, Free, Cab!CanAcquire
<1>3. CASE orders' = os /\ cabins' = cs /\ Contenders(os, c) = {}
  <2>1. /\ contenders = {}
        /\ HolderOf(cabins') = Given(HolderOf(cabins), c, Cab!Nobody)
        /\ WaitingOf(orders') = left
        /\ KnownOf(orders') = KnownOf(orders)
    BY <1>1, <1>3, KnownSame
  <2>. QED
    BY <1>2, <2>1 DEF PassedOn
<1>4. ASSUME NEW v \in Contenders(os, c), IsNext(os, qs, c, v), Advanced(os, cs, c, v)
      PROVE  PassedOn(w, c, WaitingOf(os))
  <2>1. v \in DOMAIN os /\ v \in contenders
    BY <1>1 DEF Contenders
  <2>2. /\ SamePlace(os, orders')
        /\ \A u \in DOMAIN os : u # v => orders'[u] = os[u]
        /\ orders'[v].state # "queued"
    BY <1>4, <2>1, AdvancedOrder
  <2>3. WaitingOf(orders') = left \ {v} /\ KnownOf(orders') = KnownOf(orders)
    <3>1. SamePlace(orders, orders')
      BY <2>2 DEF SamePlace
    <3>. QED
      BY <2>1, <2>2, <3>1, KnownSame, WaitingOne
  <2>4. HolderOf(cabins') = Given(HolderOf(cabins), c, v)
    <3>0. v \in DOMAIN os
      BY <2>1
    <3>1. Free(cs, c) /\ cabins' = Acquired(cs, c, v, os[v].type)
      BY <1>4 DEF Advanced
    <3>. HIDE DEF left, contenders
    <3>2. HolderOf(Acquired(cs, c, v, os[v].type)) = Given(HolderOf(cs), c, v)
      BY <3>0, <3>1, HolderAcquired
    <3>3. Given(Given(HolderOf(cabins), c, Cab!Nobody), c, v) = Given(HolderOf(cabins), c, v)
      BY DEF Given
    <3>. QED
      BY <3>1, <3>2, <3>3
  <2>5. \A u \in contenders \ {v} :
          \/ KnownOf(orders)[v].priority > KnownOf(orders)[u].priority
          \/ KnownOf(orders)[v].priority = KnownOf(orders)[u].priority /\ v < u
    BY <1>0, <1>1, <1>4, <2>1 DEF IsNext, Before, Contenders, SamePlace, KnownOf
  <2>. HIDE DEF left, contenders
  <2>6. \E x \in contenders :
          /\ \A u \in contenders \ {x} :
               \/ KnownOf(orders)[x].priority > KnownOf(orders)[u].priority
               \/ KnownOf(orders)[x].priority = KnownOf(orders)[u].priority /\ x < u
          /\ HolderOf(cabins') = Given(HolderOf(cabins), c, x)
          /\ WaitingOf(orders') = left \ {x}
    BY <2>1, <2>3, <2>4, <2>5
  <2>. QED
    BY <1>2, <2>3, <2>6 DEF PassedOn, left, contenders
<1>. QED
  BY <1>0, <1>2, <1>3, <1>4, AssignInOrder

LEMMA RefineCalm ==
  ASSUME Calm
  PROVE  UNCHANGED CabinLocks!vars
<1>1. SamePlace(orders, orders') /\ WaitingOf(orders') = WaitingOf(orders)
  BY DEF Calm, Alike, SamePlace, WaitingOf
<1>2. HolderOf(cabins') = HolderOf(cabins)
  BY DEF Calm, SameHolders, HolderOf
<1>. QED
  BY <1>1, <1>2, KnownSame, Stutter

LEMMA RefineRegister ==
  ASSUME NEW c \in CabinIds, RegisterCabin(c)
  PROVE  CabinLocks!Next
<1>1. /\ c \notin DOMAIN cabins
      /\ cabins' = [d \in DOMAIN cabins \cup {c} |->
                       IF d = c THEN Cab!NewCabin ELSE cabins[d]]
      /\ orders' = orders
  BY DEF RegisterCabin
<1>2. Cab!NewCabin.active = 0
  BY DEF Cab!NewCabin, Cab!Nobody
<1>3. CabinLocks!Register(c)
  BY <1>1, <1>2 DEF CabinLocks!Register, CabinLocks!Nobody, OrderIds
<1>. QED
  BY <1>3 DEF CabinLocks!Next

LEMMA RefineCreate ==
  ASSUME ~StrayCabins, TypeOK,
         NEW type \in OrderTypes, NEW c \in CabinIds, NEW p \in Urgencies, Create(type, c, p)
  PROVE  CabinLocks!Next
<1>. DEFINE n   == Len(orders)
            S   == [cabin : CabinIds, priority : Priorities]
            old == KnownOf(orders)
            new == KnownOf(orders')
            r   == [cabin |-> c, priority |-> p]
<1>1. /\ orders \in Seq(Order) /\ n \in Nat /\ DOMAIN orders = 1..n
      /\ \A w \in DOMAIN orders : orders[w] \in Order
  BY LenProperties, OrderOf DEF TypeOK, WellTyped, OrdersTyped
<1>2. /\ DOMAIN orders' = 1..(n + 1)
      /\ orders'[n + 1] = NewOrder(type, c, p)
      /\ \A w \in 1..n : orders'[w] = orders[w]
  <2>1. /\ DOMAIN orders' = DOMAIN orders \cup {n + 1}
        /\ orders'[n + 1] = NewOrder(type, c, p)
        /\ \A w \in DOMAIN orders : orders'[w] = orders[w]
    BY CreateStep DEF OrderIds
  <2>2. (1..n) \cup {n + 1} = 1..(n + 1)
    BY <1>1
  <2>. QED
    BY <1>1, <2>1, <2>2
<1>3. r \in S /\ c \in DOMAIN cabins /\ UNCHANGED cabins
  BY ConstantsAssumption DEF Create
<1>4. NewOrder(type, c, p).cabin = c /\ NewOrder(type, c, p).priority = p
  BY DEF NewOrder
<1>5. /\ old \in [1..n -> S]
      /\ \A w \in 1..n : old[w] = [cabin |-> orders[w].cabin, priority |-> orders[w].priority]
  BY <1>1 DEF KnownOf, Order
<1>6. /\ DOMAIN new = 1..(n + 1)
      /\ new[n + 1] = r
      /\ \A w \in 1..n : new[w] = old[w]
  <2>1. /\ DOMAIN new = 1..(n + 1)
        /\ \A w \in 1..(n + 1) :
             new[w] = [cabin |-> orders'[w].cabin, priority |-> orders'[w].priority]
    BY <1>2 DEF KnownOf
  <2>2. n + 1 \in 1..(n + 1) /\ \A w \in 1..n : w \in 1..(n + 1)
    BY <1>1
  <2>. HIDE DEF new, old
  <2>. QED
    BY <1>2, <1>4, <1>5, <2>1, <2>2
<1>7. \A w \in 1..(n + 1) : w = n + 1 \/ w \in 1..n
  BY <1>1
<1>8. new = [w \in 1..(n + 1) |-> new[w]]
  BY <1>2 DEF KnownOf
<1>. HIDE DEF n, S, old, new, r
<1>9. new \in [1..(n + 1) -> S]
  BY <1>3, <1>5, <1>6, <1>7, <1>8
<1>10. /\ old \in Seq(S) /\ Len(old) = n
       /\ new \in Seq(S) /\ Len(new) = n + 1
  BY <1>1, <1>5, <1>9, SeqDef, LenProperties
<1>11. /\ Append(old, r) \in Seq(S)
       /\ Len(Append(old, r)) = n + 1
       /\ \A w \in 1..n : Append(old, r)[w] = old[w]
       /\ Append(old, r)[n + 1] = r
  BY <1>3, <1>10, AppendProperties
<1>12. new = Append(old, r)
  BY <1>6, <1>7, <1>10, <1>11, SeqEqual
<1>13. WaitingOf(orders') = WaitingOf(orders)
  <2>1. n + 1 \notin WaitingOf(orders') /\ n + 1 \notin WaitingOf(orders)
    BY <1>1, <1>2 DEF WaitingOf, NewOrder
  <2>. QED
    BY <1>1, <1>2, <1>7, <2>1 DEF WaitingOf
<1>14. KnownOf(orders') = Append(KnownOf(orders), [cabin |-> c, priority |-> p])
  BY <1>12 DEF old, new, r
<1>15. CabinLocks!Create(c, p)
  BY <1>3, <1>13, <1>14 DEF CabinLocks!Create, KnownOf, WaitingOf, OrderIds
<1>. QED
  BY <1>15 DEF CabinLocks!Next

LEMMA RefineAsked ==
  ASSUME TypeOK, LockInv, QueueInv, CompleteInv, ServedInv,
         NEW w \in OrderIds, PlaceInspection(w) \/ EnterCabin(w)
  PROVE  CabinLocks!Next \/ UNCHANGED CabinLocks!vars
<1>. DEFINE c == orders[w].cabin
<1>1. PICK type, to : to \in {"in_progress", "executing"} /\ AskForCabin(w, type, to)
  BY AskerOutside
<1>2. /\ WellTyped(orders, cabins, inv)
      /\ w \in DOMAIN orders /\ orders[w] \in Order
      /\ c \in CabinIds /\ c \in DOMAIN cabins
      /\ to \in States /\ "queued" \in States /\ to # "queued"
      /\ orders[w].state # "queued"
      /\ CanTransition(orders[w].state, "queued") \/ orders[w].state = "cancelled"
  BY <1>1, AskerOutside, OrderOf DEF TypeOK, LockInv, Lock, Known, States, OrderIds
<1>3. ASSUME NEW x \in States, orders' = Move(orders, w, x)
      PROVE  /\ SamePlace(orders, orders')
             /\ \A v \in DOMAIN orders : v # w => orders'[v] = orders[v]
             /\ orders'[w] = Transition(orders[w], x)
             /\ orders'[w].state \in {orders[w].state, x}
  <2>1. /\ DOMAIN orders' = DOMAIN orders
        /\ orders'[w] = Transition(orders[w], x)
        /\ \A v \in DOMAIN orders : v # w => orders'[v] = orders[v]
    BY <1>2, <1>3, MoveTyped
  <2>2. /\ Transition(orders[w], x).cabin = orders[w].cabin
        /\ Transition(orders[w], x).priority = orders[w].priority
        /\ Transition(orders[w], x).state \in {orders[w].state, x}
    BY <1>2, TransitionField
  <2>. QED
    BY <2>1, <2>2 DEF SamePlace
<1>4. CASE Free(cabins, c) /\ cabins' = Acquired(cabins, c, w, type) /\ orders' = Move(orders, w, to)
  <2>1. /\ SamePlace(orders, orders')
        /\ \A v \in DOMAIN orders : v # w => orders'[v] = orders[v]
        /\ orders'[w].state # "queued"
    BY <1>2, <1>3, <1>4
  <2>2. WaitingOf(orders') = WaitingOf(orders) /\ KnownOf(orders') = KnownOf(orders)
    <3>1. w \notin WaitingOf(orders)
      BY <1>2 DEF WaitingOf
    <3>2. WaitingOf(orders') = WaitingOf(orders) \ {w}
      BY <1>2, <2>1, WaitingOne
    <3>3. KnownOf(orders') = KnownOf(orders)
      BY <2>1, KnownSame
    <3>. QED
      BY <3>1, <3>2, <3>3
  <2>3. HolderOf(cabins') = Given(HolderOf(cabins), c, w)
    BY <1>2, <1>4, HolderAcquired
  <2>4. Contenders(orders, c) = {}
    BY <1>2, <1>4, AllInQueue DEF ServedInv, Served, CompleteInv
  <2>5. CabinLocks!Take(w)
    BY <1>2, <1>4, <2>2, <2>3, <2>4, TakeStep
  <2>. QED
    BY <2>5, OneOrdersStep
<1>5. CASE ~Free(cabins, c) /\ cabins' = cabins /\ orders' = Move(orders, w, "queued")
  <2>1. /\ SamePlace(orders, orders')
        /\ \A v \in DOMAIN orders : v # w => orders'[v] = orders[v]
        /\ orders'[w] = Transition(orders[w], "queued")
    BY <1>2, <1>3, <1>5
  <2>2. KnownOf(orders') = KnownOf(orders) /\ HolderOf(cabins') = HolderOf(cabins)
    BY <1>5, <2>1, KnownSame
  <2>3. CASE CanTransition(orders[w].state, "queued")
    <3>1. orders'[w].state = "queued"
      BY <1>2, <2>1, <2>3 DEF Transition, Order
    <3>2. WaitingOf(orders') = WaitingOf(orders) \cup {w}
      BY <1>2, <2>1, <3>1, WaitingOne
    <3>3. CabinLocks!Wait(w)
      BY <1>2, <1>5, <2>2, <3>2, WaitStep
    <3>. QED
      BY <3>3, OneOrdersStep
  <2>4. CASE ~CanTransition(orders[w].state, "queued")
    <3>1. orders'[w] = orders[w]
      BY <2>1, <2>4 DEF Transition
    <3>2. WaitingOf(orders') = WaitingOf(orders)
      BY <2>1, <3>1 DEF WaitingOf, SamePlace
    <3>. QED
      BY <2>2, <3>2, Stutter
  <2>. QED
    BY <2>3, <2>4
<1>. QED
  BY <1>1, <1>4, <1>5 DEF AskForCabin

LEMMA RefineFailed ==
  ASSUME TypeOK, LockInv, QueueInv, CompleteInv, NEW w \in OrderIds, FailPartsRequisition(w)
  PROVE  CabinLocks!Next
<1>. DEFINE c    == orders[w].cabin
            back == Move(orders, w, "queued")
            rel  == Released(cabins, c)
            qs   == Enqueued(queues, c, back, w)
            told == notifs \cup Notified("parts_failure", {w})
<1>1. /\ c \in CabinIds
      /\ WellTyped(back, rel, inv')
      /\ AssignFromQueue(back, rel, qs, told, c)
  BY FailPartsHandsOver DEF Enqueued
<1>2. /\ Line(back, qs) /\ Complete(back, qs)
      /\ SamePlace(orders, back)
      /\ \A v \in DOMAIN orders : v # w => back[v] = orders[v]
      /\ back[w].state = "queued"
      /\ orders[w].state \in Working
      /\ w \in DOMAIN orders
  BY FailedBack, WorkingStates DEF OrderIds
<1>3. c \in DOMAIN cabins /\ cabins[c].active = w
  BY <1>2 DEF LockInv, Lock, Held, HoldsItsCabin
<1>4. HolderOf(rel) = Given(HolderOf(cabins), c, Cab!Nobody)
  BY <1>3, HolderReleased DEF TypeOK
<1>5. WaitingOf(back) = WaitingOf(orders) \cup {w}
  BY <1>2, WaitingOne
<1>. HIDE DEF back, rel, qs, told
<1>6. PassedOn(w, c, WaitingOf(back))
  <2>. HIDE DEF c
  <2>. QED
    BY <1>1, <1>2, <1>3, <1>4, PassOnStep
<1>. QED
  BY <1>5, <1>6, RequeueStep

LEMMA RefineLeft ==
  ASSUME TypeOK, LockInv, QueueInv, CompleteInv, ServedInv,
         NEW w \in OrderIds, NEW to \in Terminal, Leave(w, to)
  PROVE  CabinLocks!Next \/ UNCHANGED CabinLocks!vars
<1>. DEFINE c    == orders[w].cabin
            gone == Move(orders, w, to)
            left == LeftBy(cabins, w)
<1>1. /\ c \in CabinIds
      /\ WellTyped(gone, left, inv)
      /\ AssignFromQueue(gone, left, queues, notifs, c)
  BY LeaveHandsOver
<1>2. /\ Line(gone, queues) /\ Complete(gone, queues)
      /\ \A d \in CabinIds : InQueue(gone, queues, d) \subseteq InQueue(orders, queues, d)
      /\ SamePlace(orders, gone)
      /\ \A v \in DOMAIN orders : v # w => gone[v] = orders[v]
      /\ gone[w].state # "queued"
      /\ w \in DOMAIN orders
  BY LeftGone DEF OrderIds, Terminal
<1>3. c \in DOMAIN cabins
  BY <1>2 DEF LockInv, Lock, Known
<1>4. WaitingOf(gone) = WaitingOf(orders) \ {w}
  BY <1>2, WaitingOne
<1>. HIDE DEF gone
<1>5. CASE cabins[c].active = w
  <2>1. HolderOf(left) = Given(HolderOf(cabins), c, Cab!Nobody)
    BY <1>3, <1>5, HolderReleased DEF LeftBy, TypeOK
  <2>. HIDE DEF left
  <2>2. PassedOn(w, c, WaitingOf(gone))
    <3>. HIDE DEF c
    <3>. QED
      BY <1>1, <1>2, <1>3, <1>5, <2>1, PassOnStep
  <2>. QED
    BY <1>4, <2>2, LeaveStep
<1>6. CASE cabins[c].active # w
  <2>1. left = cabins
    BY <1>6 DEF LeftBy
  <2>. HIDE DEF left
  <2>2. orders' = gone /\ cabins' = cabins
    <3>1. Free(cabins, c) => InQueue(gone, queues, c) = {}
      BY <1>1, <1>2 DEF ServedInv, Served
    <3>2. \A v : ~(v \in InQueue(gone, queues, c) /\ Advanced(gone, cabins, c, v))
      BY <3>1 DEF Advanced
    <3>. HIDE DEF c
    <3>. QED
      BY <1>1, <1>2, <2>1, <3>2, AssignInOrder
  <2>3. KnownOf(orders') = KnownOf(orders) /\ HolderOf(cabins') = HolderOf(cabins)
    BY <1>2, <2>2, KnownSame
  <2>4. CASE w \in WaitingOf(orders)
    <3>1. CabinLocks!GiveUpWaiting(w)
      BY <1>4, <2>2, <2>3, <2>4, GiveUpStep
    <3>. QED
      BY <3>1, OneOrdersStep
  <2>5. CASE w \notin WaitingOf(orders)
    <3>1. WaitingOf(orders') = WaitingOf(orders)
      BY <1>4, <2>2, <2>5
    <3>. QED
      BY <2>3, <3>1, Stutter
  <2>. QED
    BY <2>4, <2>5
<1>. QED
  BY <1>5, <1>6

LEMMA RefineStep ==
  ASSUME ~StrayCabins, TypeOK, LockInv, QueueInv, CompleteInv, ServedInv, [Next]_vars
  PROVE  [CabinLocks!Next]_(CabinLocks!vars)
<1>1. ASSUME NEW w \in OrderIds, NEW to \in Terminal, Leave(w, to)
      PROVE  CabinLocks!Next \/ UNCHANGED CabinLocks!vars
  BY <1>1, RefineLeft
<1>2. ASSUME NEW w \in OrderIds, PlaceInspection(w) \/ EnterCabin(w)
      PROVE  CabinLocks!Next \/ UNCHANGED CabinLocks!vars
  BY <1>2, RefineAsked
<1>. QED
  BY <1>1, <1>2, RefineCalm, RefineRegister, RefineCreate, RefineFailed, StepKinds

LEMMA RefineInit == Init => CabinLocks!Init
<1>1. DOMAIN <<>> = {}
  OBVIOUS
<1>2. \A f : DOMAIN f = {} /\ f = [x \in {} |-> f[x]] => f = <<>>
  OBVIOUS
<1>. QED
  BY <1>1, <1>2 DEF Init, CabinLocks!Init, OrderIds

(***************************************************************************)
(* The orchestrator implements the locks: with registered cabins only,     *)
(* every step of it takes one cabin, waits for one, gives up waiting, or   *)
(* passes one on to the first of those who wait, or does none of this.     *)
(***************************************************************************)
THEOREM CabinsAreLocks ==
  ASSUME ~StrayCabins PROVE Spec => ImplementsCabinLock
<1>1. (TypeOK /\ LockInv /\ QueueInv /\ CompleteInv /\ ServedInv) /\ [Next]_vars
      => [CabinLocks!Next]_(CabinLocks!vars)
  BY RefineStep
<1>. QED
  BY <1>1, RefineInit, ServedAlways, PTL DEF Spec, ImplementsCabinLock, CabinLocks!Spec
=============================================================================
