# Verification of microgrid-ops

TLA+ modules that model the work-order backend in `src/`, the TLC runs that
model-check them on small instances, and theorems about them that TLAPS checks
for every value of the constants. `PROJECT.json` lists the runs, the source lines each
definition stands for, the hazards of the code and the properties that cover them.

## The system

One process (`cmd/server`) serves an HTTP API. Every request calls one operation
of the orchestrator or, in a few cases, of one of the managers it owns.

| Component | State | Operations | Right if |
|---|---|---|---|
| work orders, `internal/workorder` | a map of orders, a sequence number, a mutex | `Create`, `Get`, `List`, `Transition`, `Update`, `SnapshotAll`, `Restore` | only edges of `allowedTransitions` are taken; finished orders stay finished; identifiers are unique |
| cabins, `internal/cabin` | a map of cabins (status, holder, grid qualification, two indicators, readings), a mutex | `Register`, `Acquire`, `Release`, `Freeze`, `Thaw`, `RecheckBlackStart`, `RecheckOffGrid`, `SetConditions`, `SnapshotAll`, `Restore` | the status says what goes on in the cabin; the grid connection comes back by approval only |
| spare parts, `internal/parts` | parts (stock, reserved), requisitions, a mutex | `RegisterPart`, `SubmitRequisition`, `ConfirmRequisition`, `RollbackRequisition`, `RecheckRequisition`, `EmergencyProcurement`, `Restore` | what is reserved is what pending requisitions ask for; parts leave with two signatures |
| orchestrator, `internal/dispatch` | a queue of orders per cabin, the notifications, `o.mu` | the some twenty operations on orders, two scheduler checks, `persist`, `Restore` | one order at work per cabin, no waiting order is lost or overtaken, orders, cabins and parts agree |
| notification feed, `internal/dispatch` | `o.notifs`, `o.notifSeq` | `addNotification`, `Notifications` | every late event is notified; a reader sees a consistent list |
| state file, `internal/store` | one JSON file, written to a temporary file and renamed, a mutex | `Save`, `Load` | a restart finds a state the process was in |
| scheduler, `internal/scheduler` | a ticker goroutine, `running`, `cancel` | `Start`, `Stop`, `Tick` | both checks keep running until it is stopped, and it can be stopped |
| HTTP API, `internal/api` | none | decoding, one call, encoding | each request is one operation |
| server, `cmd/server` | none | `Restore`, `Start`, serve, shut down | restore precedes the first request |

**Interaction.** The orchestrator calls the managers; the managers call nobody.
The scheduler and all API handlers call the orchestrator from goroutines of
their own. Every orchestrator operation locks `o.mu` before it reads and unlocks
it on return, so operations exclude one another. Each manager has a mutex of its
own besides, since some calls go past `o.mu`: the API registers cabins and parts
and writes sensor readings directly, and `CreateInspectionOrder` and
`CreateMaintenanceOrder` store the order *before* they lock `o.mu`.

**What is hard here.** Two managers keep one fact each: which order is at work, and
who holds the cabin; every operation must move both, and many drop the error of
the second half. Queues keep identifiers of orders that other calls may have
cancelled. The order exists before its creator holds the lock. An escalated order
may be inside the cabin or outside and the code guesses which. The timeout
races every call on the order. The state file holds neither the queues nor what
happened since the last `persist`.

## Modules

| Module | Models | Uses |
|---|---|---|
| `WorkOrder` | an order's fields and `allowedTransitions`, `Manager.Transition` | |
| `Cabin` | one cabin and the manager's operations on it, as functions | |
| `Parts` | the inventory and its operations, as functions | |
| `Entities` | the three under the names `Cab!` and `Inv!` | `WorkOrder`, `Cabin`, `Parts` |
| `Inventory` | the inventory on its own, its calls in any order | `Entities` |
| `CabinLock` | the abstract specification: what the orchestrator promises of the cabins | |
| `Dispatch` | the orchestrator with its managers and queues, between two starts of the process | `Entities`, `CabinLock` |
| `Recovery` | the orchestrator with its state file, failing saves, crashes and restarts | `Dispatch` |
| `Server` | the orchestrator in its process: main, the signal, the scheduler's goroutine, requests in flight | `Dispatch` |
| `NotificationFeed` | the list of notifications, at the level of single loads and stores | |
| `Readings` | the readings of a cabin, written by two calls at the same time | |
| `Unlocked` | these two together: the calls that go past `o.mu` | `NotificationFeed`, `Readings` |
| `MCDispatch`, `MCRecovery`, `MCServer`, `MCInventory`, `MCUnlocked` | what TLC instantiates, with the symmetry sets | |

| Proofs | About | Uses |
|---|---|---|
| `EntityProofs` | lemmas about sequences, sums and the inventory's operations | `Entities` |
| `InventoryProofs` | types, signatures, stock, reservations and final requisitions | `Inventory`, `EntityProofs` |
| `DispatchProofs` | type correctness of `Dispatch` | `Dispatch`, `EntityProofs` |
| `OrderProofs` | mutual exclusion in the cabins, their status and grid connection, authorization, signed parts, reservations | `DispatchProofs` |
| `QueueProofs` | the queues, and that the cabins are locks | `OrderProofs`, `CabinLock` |
| `RecoveryProofs` | what crashes and restarts preserve | `Recovery`, `QueueProofs` |
| `ServerProofs` | the life of the process and its scheduler, and the orchestrator in it | `Server`, `QueueProofs` |
| `UnlockedProofs` | the feed, its readers, the readings | `Unlocked` |

### State

| Variable | Module | In the code |
|---|---|---|
| `orders` | `Dispatch` | `workorder.Manager.orders`; `WO-n` is entry `n`, so the length is the sequence number |
| `cabins` | | `cabin.Manager.cabins`, a function from the registered cabins |
| `inv` | | `parts.Inventory`: `parts` by SKU, `requisitions` by number |
| `queues` | | `Orchestrator.queues` |
| `notifs` | | which order got which kind of notification, for the kinds in `Observed` |
| `creating` | | orders stored by a creator that does not hold `o.mu` yet |
| `disk` | `Recovery` | what `Store.Load` would return |
| `saving` | | the cabins `persist` has read, while it is running; it runs under `o.mu` |
| `behind`, `torn` | | history: saves that have failed since the last success; whether some start read an order without its cabin |
| `main`, `signal`, `loop` | `Server` | where the main goroutine, the one that waits for signals and `Scheduler.run` are |
| `cancelled`, `inflight` | | the context of `Scheduler.run` is done; requests accepted and not answered |
| `arrays`, `slice`, `notifSeq` | `NotificationFeed` | the arrays behind `o.notifs`, its pointer and length, `o.notifSeq` |
| `mu`, `writer`, `reader` | | who holds `o.mu`; the local variables of `addNotification` and `Notifications` |
| `complete` | | history: notifications whose operation has returned |
| `readings`, `qualified`, `detection` | `Readings` | two fields of a cabin; where `DetectAnomaly` is |
| `since`, `answer` | | history: the readings since its store; its result |

### Actions

One action of `Dispatch` is one orchestrator operation, from its lock to its
return, under the operation's name. The exceptions:

- `Create` is `orders.Create` in both creating operations, and `PlaceInspection` /
  `PlaceMaintenance` is the rest of them. Any other action may come in between.
- `AuthorizeMaintenance` is its success; `RejectAuthorization` its failure, which
  leaves behind the timeout it wrote (and the chief's identifier). All other operations that
  fail change nothing and are simply not enabled. Operations that drop the error of a
  transition are modelled with `Transition`, which leaves the order as it is when
  the edge does not exist.
- `Leave` is what `CloseOrder` and `CancelOrder` have in common, `Step` what the
  four plain transitions have.
- `AssignFromQueue` is the helper `assignFromQueue`. It is given the maps as the operation
  has left them, since it runs at its end.
- `EmergencyProcurement` makes two calls of the inventory, each under the inventory's own
  mutex. `RegisterPart`, which needs no `o.mu`, may come between them: `Arrived` has the
  inventories the second call can find. No other operation calls the inventory twice.
- `DeadlinePasses` is the clock.
- `RegisterCabin` and `RegisterPart` are the API's direct calls.

**`Recovery`.** `persist` reads cabins, orders and inventory one after the other and
then saves them, all under `o.mu`. It has two steps: `Persist`, part of the operation it ends,
reads the cabins, and `SaveSucceeds` or `SaveFails` does the rest. In between only
what needs no `o.mu` can happen: registrations and the first half of a creation
(`Outside`). Such a call that falls between the read of the orders and the rename
commutes with everything left of `persist`, so it can be moved behind it; one that
falls between the end of the operation's changes and the read of the cabins can be moved before the
operation, which does not look at a cabin or a part that was not there. What remains, a cabin
*and* an order for it that both fall between the two reads, is what the two
steps tell apart. `Unsaved` operations do not persist.
`Restart` may happen in every state, in the middle of `persist` too; it stands for
a crash and the start that follows. A rename is atomic and the temporary
file is never read, so a crash inside `Save` leaves the old file or the new one: it is a
`Restart` before or after `SaveSucceeds`. `RestartUnread` is a start on a file that
`Load` refuses: `main` warns and serves with empty managers. It empties `disk` at once and not at
the next save, for if a third start could read the file after all, it would
find what it would have found in place of the second.

**`Server`.** `Handle` and `HandleCreation` with `FinishCreation` are requests: each makes one call
of `Dispatch`, or a call that fails and changes nothing, and then answers. `SelectTick`,
`SelectDone`, `LoopAnomalies` and `LoopTimeouts` are `Scheduler.run`: a tick makes
both checks, under two acquisitions of `o.mu`, between which requests
come. `Signal`, `StopCancels`, `StopReturns` are the goroutine that shuts
down. It waits in `Shutdown` for the requests, but for ten seconds only, so
`StopCancels` does not wait for `inflight` to be zero. `Exit` may come at any
moment after the start: `main` returns from `ListenAndServe` as soon as
`Shutdown` has closed the listener, without waiting for the goroutine that called it.

**`NotificationFeed`.** `Begin`, `StoreArray`, `StoreLen`, `StoreElement` are the stores
of `addNotification` in the order in which the Go compiler emits them for `append`
and amd64 makes them visible; `ReadLen`, `ReadSlice`, `CopyElement` are
the loads of `make` and `copy` in `Notifications`, the elements in any order. On arm64
the stores may be seen in other orders too; the model says nothing of them.

**`Readings`.** `StoreReadings`, `Examine`, `FreezeCabin` are the three calls
`DetectAnomaly` makes of the cabin manager. `PutConditions` comes in between.
`Unlocked` interleaves the two modules, which share nothing: one run checks both.

### What is abstracted

- Names, messages, identities of inspectors and engineers, badge checks that
  only compare two arguments: whether a call passes them is the caller's choice.
  The chief's identifier is left out: it may be empty, `AuthorizeMaintenance` does not look at it,
  and nothing reads it later. What makes an order authorized is that it got into that state.
- In `Dispatch`, `DetectAnomaly` happens when the readings sent along show an anomaly;
  `Readings` has the calls it consists of.
- `CreatedAt` is the order's number: no two orders have equal creation times.
- A deadline is none, running or passed. The clock may pass it at any moment
  after it was set, so timeouts of every length are covered. It is watched only while some
  code could read it (`ReportDue`, `ResponseDue`).
- `notifs` is a set: how often a notification is repeated is not seen.
- Integers are unbounded: stock and quantities do not overflow.
- Where `ClockRuns` is `FALSE` no deadline passes. What a deadline does to
  orders and cabins is one thing, an escalation, and `EscalateOrder` does the same to the same
  orders at the call of a client, at any moment; so `queue` and `restart`, which do
  not look at notifications or deadlines, lose no behaviour of the maps, and save the states.
  `parts` and `server` let the clock run.
- `StrayCabins` says whether orders may name cabins nobody registered. The code
  allows it; most runs exclude it to show what holds otherwise, and the run
  `stray` shows what does not hold then.

Definitions marked `Fault` are variants of the definition next to them with a
mistake the code does not make. No specification uses them. Putting one in
place of its original makes TLC report the property that is listed with it under
`mutants` in `PROJECT.json`: they show that the properties can fail.

## Runs

All sizes are distinct states found by TLC.

| Run | Module, configuration | Question | States |
|---|---|---|---|
| `parts` | `MCDispatch`, `_parts` | do orders, cabins and requisitions agree when two repairs compete for a part and deadlines pass, and are the cabins locks? | 261 k |
| `queue` | `MCDispatch`, `_queue` | is a cabin handed on in order, with no order lost or kept waiting for nothing? | 202 k |
| `server` | `MCServer`, `_server` | does what is overdue get escalated or notified, every inspection placed, and does the process stop? | 93 k |
| `restart` | `MCRecovery`, `_restart` | what survives a crash, a failed save, an unreadable file, at any moment? | 1.8 M |
| `inventory` | `MCInventory`, `_calls` | are reservations and stock accounted for under any sequence of calls? | 46 k |
| `feed` | `MCUnlocked`, `_feed` | what do readers without `o.mu` get? | 124 k |
| `queue_lost`, `cancel_window`, `stray`, `self_wait`, `queued_overdue`, `feed_torn` | | the six deviations below | |

What they show:

- **`parts`** `WorkingOrderHoldsItsCabin`: the lock and the state never come apart,
  through failure, requeueing, escalation and cancellation. `RepairHasSignedParts`: nothing is repaired with
  parts the warehouse did not sign out. `ReservationHasOwner` and
  `ReservedIsPending`: no stock stays reserved for an order that forgot about it; the
  only one left over is that of a cancelled order, which the code does not give
  back. `StatusAgrees`: the status is a function of holder and qualification
  however freezes, rechecks, releases and acquisitions interleave.
  `FrozenWhileAnomalyOpen` and `ReconnectOnlyByApproval`: a cabin is off the grid from the anomaly to the approved
  repair. `TypeOK`: no dangling references. `Exclusion`: an order that is escalated
  at work, resumed, authorized again and escalated again never gets into a cabin next to another.
  `MaintenanceIsAuthorized`: a maintenance order gets into the queue, to work or into an escalation from the state
  `authorized` only, and into that state only by a step that starts its timeout anew; a refused
  authorization is no way in.
- **`queue`** `QueueOrdered` with `AdvanceHonoursPriority`: the queue is
  sorted and advances by priority, then age, also past cancelled entries;
  `QueuedOrderIsInQueue` and `NoWaitingForFreeCabin`: a queued order is where the
  next release finds it, and no release is missed.
- **`parts`** `ImplementsCabinLock`: seen from outside, every operation is one step of
  `CabinLock`, or none: it takes a free cabin nobody waits for, begins or gives up waiting, or passes a cabin on to
  the first of those who wait. `FailPartsRequisition`, which releases, requeues and
  reassigns over three maps, is one such step too.
- **`server`** `OverdueResponseIsEscalated`, `OverdueReportIsNotified`, `InspectionIsPlaced`
  and `StopEnds` are liveness (see Fairness). That no check runs after `Stop` has returned is no property of
  the run: `Stop` waits for the goroutine that runs them, so the model could not say anything else.
- **`restart`** `DiskWorkingOrderHoldsItsCabin`: the lock is in the file with the order, although
  they are read one after the other. `FileIsCurrent`: what was done is in the file unless a save
  failed: every order but for its deadline (the clock moves it, and an authorization that is refused), the holders
  of the cabins, and the requisitions. `FinishedStaysFinished`, `SignaturesSurvive`, `IdentifiersAreNotReused`: the
  file is never undone, except by a start that cannot read it.
  `OrderWithoutCabinIsUnplaced`: the one reference that may dangle in the file is
  that of an order which has not begun. This and the first hold until a start has read such an order (`torn`).
  `RestartKeepsParts`: signed parts, the owners of reservations and the sum of them survive with no condition, an
  unreadable file included, since orders and inventory are read and saved under one `o.mu`. `RestartKeepsCabins`: status and
  holder agree whatever happens; that one order is at work in a cabin, and that one with an open anomaly is off the grid
  again, holds unless a start read such an order. `RestartKeepsQueues`: what is queued after a restart is in order, and in the
  queue of a cabin that is held.
- **`inventory`** `PendingIsCovered`: the manager's signature is never refused for
  lack of reservations; `NoStockPromisedTwice`: requests, rechecks, retries and procurements in any order reserve no more
  than is available, and only a registration can leave less in stock than is reserved; `StockLeavesOnSignature`,
  `SettledIsFinal`, `ConfirmedIsDualSigned`.
- **`feed`** `FeedIsComplete`: nothing is lost or misnumbered. `ReaderGetsWhatWasThere`: a
  reader misses nothing that was complete when it began, and gets nothing but what belongs in a place or an
  empty place. `AnswerFitsReadings`: a detection answers by readings the cabin had during it.

**Bounds.** `MaxOrders`, `MaxReqs` and `MaxStock` bound the orders, the requisitions and
the stock procured. An operation on an order touches its own cabin, its own
requisition and one part, so two orders meet only in a cabin, in a queue or over a part:

- `queue`: one cabin with three orders: one to hold it and two to be ordered, of equal and of
  different priority. Repairs stop at execution, since no parts exist there.
- `parts`: two orders, in the same or in different cabins, and two
  requisitions, so that one order can fail and ask again; a stock of 1 covers one of
  the two, one of 0 none, and a part registered again with less than is reserved leaves a
  procurement that does not cover. The cabins are symmetric: no code
  compares their names and no `CHOOSE` picks one.
- `server`: an inspection and a maintenance order, or two of a kind, for one cabin, so that one
  can be queued, and two requests in flight, so that a creation can be overtaken.
- `restart`: two cabins, for the one that appears between two reads must not be
  the only one; one requisition; one save that fails before the next succeeds.
- `feed`: four notifications by two writers grow the array three times (to 1, 2 and 4)
  while the reader has the old one; more would grow it no differently. Readings without an alarm and with
  one of two, so that stored readings can be replaced by better, worse and equally bad ones.
- `inventory`: three requisitions of two parts, for one or two pieces each, one caller,
  since the inventory never looks at the caller.

**Deadlock.** The runs do not check it: all calls are made by clients, who
need not call, and the bounds end a behaviour where the program would go on. That
waiting orders get stuck is what `NoWaitingForFreeCabin` and
`QueuedOrderIsInQueue` are about.

**Fairness.** `Fairness` in `Server` is about goroutines that can go on. Weakly fair are the start, the steps of the
ticker's goroutine (each tick calls both checks under a mutex that every
holder gives back; the ticker fires again and again), the rest of a creation that has started (Go's
mutex hands over to a waiter that has starved for a millisecond) and the goroutine that shuts down. `SelectDone` is strongly
fair: when the context is done and a tick is due, `select` picks one at random,
so it is enabled again and again, not all the time, and is taken in the end. Nothing is
assumed of clients, so that an order is ever closed, or a cabin
ever freed, is not claimed; nor is anything assumed of the clock, of signals, or of `main`, whose
return would only cut the rest short.

## Deviations

Six runs each find one statement of the repository that the code does not keep:

- `queue_lost`: `Restore` does not rebuild the queues, so an order that was queued
  before a restart is never advanced.
- `cancel_window`: an inspection cancelled between its creation and its placement
  still acquires the cabin, and nothing releases it.
- `stray`: an escalated order whose cabin is not registered resumes as if it had
  entered; once the cabin is registered, a second order is at work in it.
- `self_wait`: an escalated order that holds its cabin and enters again is queued
  behind itself.
- `queued_overdue`: `CheckMaintenanceTimeouts` skips queued orders, though its comment says it
  looks at them.

- `feed_torn`: `Notifications` copies the list without `o.mu`. Between the store of the new
  length and that of the new element it copies a nil pointer, which `notifications_concurrent_test.go`
  says no reader is handed.

Seen while modelling, without a run of their own. Some of them sit badly with a text of the repository, others are
decisions no text speaks about:

- A procurement that does not cover the requisition puts the order
  into `parts_requested`, where no signature is possible until another covers it. The comment at `dispatch.go:451` says that the
  order is moved back so the manager can sign.
- An inspection can be closed with an anomaly not reported, though `README.md:12-13` asks for the report.
- An authorization with an empty `chief_id` is accepted, by the handler as by `AuthorizeMaintenance`, though
  `README.md:15` asks for that of the dispatch chief.
- Registering a part again can leave a stock below what is reserved, and a
  confirmation then turns it negative.
- Cancelling an order keeps its reservation.
- A crash between creation and placement leaves an inspection in `created`, if
  another operation saved it meanwhile. If its cabin was registered meanwhile too, the file has
  the order without the cabin; after the restart such an order behaves like those of `stray`.
- After a start on an unreadable file the first save overwrites it and identifiers
  are given out again.
- `main` returns while requests are in flight and the scheduler is running.

## Proofs

Assumed: `ConstantsAssumption` (types and priorities are the code's, quantities are
positive, stock levels natural numbers). The sets of cabins, parts, types
and urgencies and all bounds are arbitrary, infinite sets included.

**Types.** `DispatchProofs!TypeCorrect`: `Spec => []TypeOK`. `TypeOK` is inductive as it stands,
since it speaks of references too: requisition numbers, holders and queue
entries exist. `WellTyped(os, cs, iv)` takes the maps as arguments so that
one lemma per helper covers the intermediate maps an operation hands to
`AssignFromQueue` (`MoveTyped`, `AcquiredTyped`, `ReleasedTyped`, `EnqueueTyped`,
`AssignFacts`). The lemmas on the inventory (`SubmitTyped`, `ConfirmTyped`, ...)
are in `EntityProofs`.

**The lock.** `OrderProofs!HoldsCabin` and `OrderProofs!MutualExclusion`:
`WorkingOrderHoldsItsCabin` and `Exclusion` are invariants, if `~StrayCabins`. Neither is
inductive: a resumed order starts to work because its cabin has it as holder or
*does not exist*, and a queue hands the cabin to an order that must be for that cabin. `LockInv` adds both
facts: `Known` (orders name registered cabins), `Held` (an order at work holds its cabin),
`OwnQueues` (a queue has orders for its cabin only). Exclusion
follows because a cabin has one holder. The lemmas follow the ways in which the
lock can move: `LockAcquired`, `LockReleased`, `LockAssigned` for the cabin, and
`LockMoved`, `LockUpdated`, `LockAsked`, `LockFailed`, `LockLeft` for the operations.
The hypothesis is needed: the run `stray` violates `Exclusion` without it.

**The cabins.** `OrderProofs!StatusIsRight` (stray cabins included), `Reconnection` and `FrozenCabin`
(if `~StrayCabins`). `Agree(os, cs)` takes the maps as arguments, as `WellTyped` does, for
the maps between a release and the assignment that follows it; `CabinsStep` says of every step that it keeps
the cabins in agreement with the orders and, unless it is an approval that passes both rechecks, connects none to
the grid (`NoneReconnects`). That the approving order holds the cabin it reconnects is `LockInv`. For
`FrozenCabin`, `FrozenInv` adds that an order with an anomaly is an inspection at work, or finished: while it
works it has the cabin, so that no approval can be for that cabin. That it goes on as an inspection is `Proceed`,
which says of every step but a detection how orders may change.

**Authorization and parts.** `OrderProofs!Authorization` and `OrderProofs!DualSignature`, with stray cabins too.
`MaintenanceIsAuthorized` is an action property: `StepAdmits` shows of every step, from `TypeOK` alone, that it admits no
maintenance order but by way of `authorized`. Operations that touch one order take an edge of the state
machine from a state they have checked; the others (a queue that advances, a timeout) move orders that were admitted
or authorized before (`AssignSteady`, `StepSteady`). For `RepairHasSignedParts`, `PartsInv` says of
every order with a requisition that it exists and is its own, and that it is confirmed once the repair goes on, and
`SignedInv` that a requisition has the manager's signature exactly if it is confirmed.
What keeps them is that operations touch one order, and inventory calls one
requisition (`TouchesOnly`, `Appends`), never one that is settled (`InventoryEvolves`).
`ReservationOwned` is about the others: `OwnerInv` says of every requisition not settled, out of
stock included since a procurement may reserve it later, that it is the current one of an order that
waits for parts or was cancelled. An order leaves those states by a confirmation or a failure, and
both settle the requisition (`StepAwaits`, `ConfirmSettles`, `RollbackTyped`); an inspection that is placed
was never in them (`InspectionInv`).

**The queues.** `QueueProofs!QueuesInOrder`, `NoneIsLost` and `PriorityHonoured`, with stray cabins too.
That `enqueue` keeps a queue sorted needs that the entries before an order are the first so many of the
queue (`Ahead` counts them); that `assignFromQueue` takes the first needs that the entries it drops on the way are all
cancelled. `QueueInv` therefore consists of `Line` (a queue is sorted, and has only orders for its cabin that wait or were
cancelled) and `Unplaced` (an inspection that is still to be placed is in no queue: a second
entry would break the order). `CompleteInv`, that every order that waits is in its queue, is kept apart: the lemmas show of every
operation that it keeps `QueueInv`, and `CompleteInv` if it was there before, for a restart breaks the second. `StepKinds` divides the steps into those that
leave queued orders alone (`Calm`), those that ask for a cabin, and those that give one up; `AssignInOrder` says of the last
that the order advanced goes before all others in its queue. `NoneWaitsInVain` is by `ServedInv`
under `~StrayCabins`: an order is in a queue only behind a holder, and whoever gives up the cabin asks the queue.

**The refinement.** `QueueProofs!CabinsAreLocks`: `Spec => CabinLocks!Spec` if `~StrayCabins`. The initial
state maps to the initial state (`RefineInit`). For the steps there is one lemma per kind: `RefineCalm` (a stutter),
`RefineRegister`, `RefineCreate`, `RefineAsked` (`Take`, `Wait`, or a stutter for a cancelled inspection that is
placed), `RefineFailed` (`Requeue`) and `RefineLeft` (`Leave`, `GiveUpWaiting`, or a stutter).
`Take` is allowed since a free cabin has no one waiting (`ServedInv`), and `PassOn` picks the first by `AssignInOrder`.
Without the hypothesis it fails: orders are then resumed in cabins that do not exist.

**The inventory.** `InventoryProofs!InventoryTyped`, `DualSigned` and `Final`, by the same lemmas as above.
`SignedOut`: of all calls but the registration only `Confirm` takes stock from a part, and what it takes is the quantity of the
requisition it signs (`SameStock`, `HandsOut`). `PromisedOnce`: what is available of a part is reduced by `Reserve` alone,
which follows a check of it; a signature takes as much from the stock as from the reservations, and the rest add to it
(`KeepsPromises`).

**Sums.** `InventoryProofs!Reserved`, `Covered` and `OrderProofs!StockReserved`: what is reserved of a part is the sum
of what its pending requisitions ask for, and so no less than any of them. The sum is a fold of the community modules,
and what a fold does when an element is added is an induction over finite sets. The provers cannot use
the library's induction theorem; the lemmas at the end of `EntityProofs` argue by the smallest counterexample
instead, as a subset of the set in question: strict inclusion is well founded on the subsets of a finite set. They give the sum
of one more, of one less and of one changed element. `Balanced(iv)` takes the inventory as its argument, for the one
that a procurement has between its two calls, and every operation on the inventory has a lemma that it keeps it.
`Covered` needs besides that no term of the sum is negative.

**Restarts.** In `RecoveryProofs`, over `RSpec`:

- `FileTyped`: the file is as well typed as the process that wrote it, and
  the pending `saving` as the orders it will be written with.
- `Finished`, `IdentifiersKept`: `FileIsOlder` says that memory `Evolves` from
  the file: it has all its orders, each with its type and cabin, and the same state where that is
  finished. Every operation makes the orders evolve, and evolving is transitive.
- `Current`: `CurrentInv` adds to the property that the cabins a running save has read have
  the holders they have in the process: until it has read the orders too, only calls that do not hold `o.mu` happen, and
  these neither change an order beyond its deadline (`OutsideSame`), nor give a cabin a holder (`OutsideHolders`), and the
  orders they add are still being created (`OutsideCreating`).
- `Signatures`: `SignaturesInv` says the same of requisitions (`InventoryEvolves`).
- `PartsSurvive`: `Books` has what is said of orders and inventory alone (`PartsInv`, `SignedInv`,
  owners, `InspectionInv`, `Balanced`), of the process and of the file. The file gets both from one state of
  the process in one step, so a start on it is in order; empty managers are too.
- `OrderSurvives`, and `QueuesSurvive` under `~StrayCabins`: a restart empties the queues and forgets what was being
  created, which makes `QueueInv` and `ServedInv` hold whatever the file has (`NoQueues`); all other steps are steps
  of the orchestrator and keep them. `CompleteInv` is lost, and with it `QueuedOrderIsInQueue`.
- `StatusSurvives`: `CabinsInv` says of the cabins in `disk` and `saving` that each agrees with itself, which
  no order that comes later can change.
- `CabinsSurvive` under `~StrayCabins`: `RFrozenInv` says of the orders together with the cabins in `disk` and
  `saving` what `FrozenInv` says of the process, for those whose cabin is there (`FileFrozen`).
- `FileHoldsCabin`, `FileUnplaced`, `ExclusionSurvives` and, in part, `CabinsSurvive` under `~StrayCabins`: `RLockInv` says that
  the process satisfies `LockInv`, and that `Locked` holds of the file and of
  the orders with the cabins in `saving`: who works holds the cabin, and whose cabin is missing
  has not begun. `Known` is all that a restart may lose, hence the
  condition `~torn`.

**The process.** In `ServerProofs`: every step of `SSpec` is one of `Dispatch`, leaves its
variables alone, or ends the process in a state that is initial again (`OrchestratorStep`). So what is inductive for `Spec` is
an invariant of `SSpec`: `OrchestratorInv` collects the inductive invariants of the orchestrator,
and `ServerExclusion`, `ServerParts`, `ServerQueues` and `ServerCabins` state what follows. `RequestsInv` adds that every order being created has a request of
its own in flight, by the cardinality of `creating`. `ServerAuthorization` is an action property, by `StepAdmits`
again: a step of the process is one of the orchestrator, or leaves no order at all.

**Without the mutex.** In `UnlockedProofs`, for any number of writers, readers and notifications:
`FeedInv` consists of `WritersInv` (who holds `o.mu` is the only one between two stores, and which
part of the append is done), `SlotsInv` (every slot of every array, replaced ones
too, holds the number of its place or is empty) and `ReadersInv` (what a reader has copied, and that the
array it copies from has all that is due to it, since arrays that have been replaced are not written any more).
`FeedComplete` and `ReadersServed` follow. `AnswersFit` is by `DetectionInv`: the current readings are
among those since the store while they are still to be examined, and a decision to freeze has its reason among them.

Only model-checked: the four liveness properties of `server`, `OverdueResponseIsEscalated`, `OverdueReportIsNotified`,
`InspectionIsPlaced` and `StopEnds`, for TLAPS proves nothing about fairness or `ENABLED`.

## Not modelled

- Routing, decoding and encoding of the API, its status codes, lists and getters: they change no
  state, and a handler that changes some does so by the one call that is modelled.
- Reading the configuration: pure, and over before anything else begins.
- `SetTemperatureLimit` and `Scheduler.Tick`, which only tests call; calling `Start` or `Stop` of the
  scheduler more than once, which `main` does not.
- The wording and times of notifications, and how often one is repeated.
- The memory model of processors other than amd64.
- Torn or partial files: `Save` renames a complete temporary file, and the code does not sync
  it; what a power failure does to a file system is not in the code.

## Plan

What is planned of the model is done, and every safety property of the passing runs is proved.
