------------------------------ MODULE CabinLock ------------------------------
(***************************************************************************)
(* What the orchestrator promises of the cabins, without saying how: every *)
(* cabin is a lock with at most one holder and a set of orders that wait   *)
(* for it.  Whoever gives it up passes it on in the same step, to the      *)
(* first of those waiting by priority and age.  Dispatch implements this:  *)
(* the holder is Cabin.ActiveWorkOrderID, an order waits while its state   *)
(* is queued, and the queues are how the first one is found.               *)
(***************************************************************************)
EXTENDS Integers, Sequences

CONSTANTS CabinIds, Urgencies

VARIABLES
  known,      \* the cabin and the priority of each order, in order of creation
  holder,     \* who holds each of the registered cabins
  waiting     \* the orders that wait for their cabin

vars == <<known, holder, waiting>>

Nobody == 0

Init ==
  /\ known = <<>>
  /\ holder = <<>>
  /\ waiting = {}

\* v goes before w: by priority descending, then by creation ascending.
Before(v, w) ==
  \/ known[v].priority > known[w].priority
  \/ known[v].priority = known[w].priority /\ v < w

Register(c) ==
  /\ c \notin DOMAIN holder
  /\ holder' = [d \in DOMAIN holder \cup {c} |-> IF d = c THEN Nobody ELSE holder[d]]
  /\ UNCHANGED <<known, waiting>>

Create(c, p) ==
  /\ c \in DOMAIN holder
  /\ known' = Append(known, [cabin |-> c, priority |-> p])
  /\ UNCHANGED <<holder, waiting>>

\* A free cabin has nobody waiting for it, so taking it overtakes nobody.
Take(w) ==
  /\ holder[known[w].cabin] = Nobody
  /\ \A v \in waiting : known[v].cabin # known[w].cabin
  /\ holder' = [holder EXCEPT ![known[w].cabin] = w]
  /\ UNCHANGED <<known, waiting>>

\* Not even the holder is refused as a waiter: see NoOrderWaitsForItself.
Wait(w) ==
  /\ holder[known[w].cabin] # Nobody
  /\ waiting' = waiting \cup {w}
  /\ UNCHANGED <<known, holder>>

GiveUpWaiting(w) ==
  /\ w \in waiting
  /\ waiting' = waiting \ {w}
  /\ UNCHANGED <<known, holder>>

\* The holder w gives up its cabin c, and those in left want it next.
PassOn(w, c, left) ==
  LET contenders == {v \in left : known[v].cabin = c} IN
  /\ holder[c] = w
  /\ \/ /\ contenders = {}
        /\ holder' = [holder EXCEPT ![c] = Nobody]
        /\ waiting' = left
     \/ \E v \in contenders :
          /\ \A u \in contenders \ {v} : Before(v, u)
          /\ holder' = [holder EXCEPT ![c] = v]
          /\ waiting' = left \ {v}
  /\ UNCHANGED known

\* It leaves for good, or goes back to waiting and may get the cabin again.
Leave(w) == PassOn(w, known[w].cabin, waiting \ {w})

Requeue(w) == PassOn(w, known[w].cabin, waiting \cup {w})

Next ==
  \/ \E c \in CabinIds : Register(c)
  \/ \E c \in CabinIds, p \in Urgencies : Create(c, p)
  \/ \E w \in DOMAIN known :
       Take(w) \/ Wait(w) \/ GiveUpWaiting(w) \/ Leave(w) \/ Requeue(w)

Spec == Init /\ [][Next]_vars
=============================================================================
