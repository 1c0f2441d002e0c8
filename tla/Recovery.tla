------------------------------- MODULE Recovery -------------------------------
(***************************************************************************)
(* The orchestrator with its state file (internal/dispatch, internal/store,*)
(* cmd/server): persist() at the end of most operations, the crash and the *)
(* restart of the process, after which Restore() reads the file back.      *)
(*                                                                         *)
(* persist() runs under o.mu and reads cabins, orders and inventory one    *)
(* after the other, each under the mutex of its manager; what goes on      *)
(* without o.mu may come in between.  Save writes a temporary file and     *)
(* renames it, so that a crash leaves the old file or the new one.  The    *)
(* file holds neither the queues nor the notifications, and a creator that *)
(* was waiting for o.mu dies with the process.                             *)
(***************************************************************************)
EXTENDS Dispatch

CONSTANT MaxBehind      \* bound on the saves that fail in a row

ASSUME MaxBehindAssumption == MaxBehind \in Nat

VARIABLES
  disk,     \* what Load would return
  saving,   \* the cabins persist() has read, if it is running
  behind,   \* history: how many saves have failed since the last that did not
  torn      \* history: some start read an order without its cabin

rvars == <<vars, disk, saving, behind, torn>>

NoFile == [orders |-> <<>>, cabins |-> <<>>, inv |-> Inv!EmptyInventory]

Idle == <<>>

\* Load returns an empty snapshot when there is no file yet.
RInit ==
  /\ Init
  /\ disk = NoFile
  /\ saving = Idle
  /\ behind = 0
  /\ torn = FALSE

-----------------------------------------------------------------------------
(***************************************************************************)
(* persist() has two steps here.  The first, at the end of the operation,  *)
(* reads the cabins; the second reads the orders and the inventory and     *)
(* writes the file.  What may come in between without o.mu can be moved to *)
(* before the operation or to after the write, except for what these two   *)
(* steps tell apart: the orders are read later than the cabins.            *)
(***************************************************************************)
MuFree == saving = Idle

\* Fault: the cabins are read before the operation changes them.
PersistOldCabins ==
  /\ saving' = <<cabins>>
  /\ UNCHANGED <<disk, behind, torn>>

\* Fault: nothing is saved while a creator is waiting that will save soon.
PersistLater ==
  /\ saving' = IF creating' = {} THEN <<cabins'>> ELSE Idle
  /\ UNCHANGED <<disk, behind, torn>>

\* Fault: cabins in which nothing goes on are left out.
PersistCabinsInUse ==
  /\ saving' = <<[c \in {d \in DOMAIN cabins' : cabins'[d].status # "normal"} |-> cabins'[c]]>>
  /\ UNCHANGED <<disk, behind, torn>>

Persist ==
  /\ saving' = <<cabins'>>
  /\ UNCHANGED <<disk, behind, torn>>

SaveSucceeds ==
  /\ ~MuFree
  /\ disk' = [orders |-> orders, cabins |-> saving[1], inv |-> inv]
  /\ saving' = Idle
  /\ behind' = 0
  /\ UNCHANGED <<vars, torn>>

\* The error is dropped: the operation succeeds, and the file stays as it was.
SaveFails ==
  /\ ~MuFree
  /\ behind < MaxBehind
  /\ saving' = Idle
  /\ behind' = behind + 1
  /\ UNCHANGED <<vars, disk, torn>>

-----------------------------------------------------------------------------
OrdersWithoutCabin(d) ==
  {w \in DOMAIN d.orders : d.orders[w].cabin \notin DOMAIN d.cabins}

\* What a new process has beside the three maps.
Started ==
  /\ queues' = [c \in CabinIds |-> <<>>]
  /\ notifs' = {}
  /\ creating' = {}
  /\ saving' = Idle

\* Faults: Restore frees all cabins, or a signature or a requisition is not in the file.
RestartFreeingCabins ==
  /\ orders' = disk.orders
  /\ cabins' = [c \in DOMAIN disk.cabins |-> Cab!Release(disk.cabins[c])]
  /\ inv' = disk.inv
  /\ Started
  /\ behind' = 0
  /\ torn' = (torn \/ OrdersWithoutCabin(disk) # {})
  /\ UNCHANGED disk

RestartUnsigned ==
  /\ orders' = disk.orders
  /\ cabins' = disk.cabins
  /\ inv' = [disk.inv EXCEPT !.requisitions =
               [r \in DOMAIN @ |-> [@[r] EXCEPT !.managerSigned = FALSE]]]
  /\ Started
  /\ behind' = 0
  /\ torn' = (torn \/ OrdersWithoutCabin(disk) # {})
  /\ UNCHANGED disk

RestartPartsOnly ==
  /\ orders' = disk.orders
  /\ cabins' = disk.cabins
  /\ inv' = [disk.inv EXCEPT !.requisitions = <<>>]
  /\ Started
  /\ behind' = 0
  /\ torn' = (torn \/ OrdersWithoutCabin(disk) # {})
  /\ UNCHANGED disk

\* Fault: all orders that are not finished go back into the queues.
RestartRequeueing ==
  /\ orders' = disk.orders
  /\ cabins' = disk.cabins
  /\ inv' = disk.inv
  /\ queues' = [c \in CabinIds |->
                  LET Open(w) == disk.orders[w].cabin = c /\ ~IsTerminal(disk.orders[w].state)
                  IN  SelectSeq([w \in DOMAIN disk.orders |-> w], Open)]
  /\ notifs' = {}
  /\ creating' = {}
  /\ saving' = Idle
  /\ behind' = 0
  /\ torn' = (torn \/ OrdersWithoutCabin(disk) # {})
  /\ UNCHANGED disk

\* A crash in any state, and a start that reads the file.
Restart ==
  /\ orders' = disk.orders
  /\ cabins' = disk.cabins
  /\ inv' = disk.inv
  /\ Started
  /\ behind' = 0
  /\ torn' = (torn \/ OrdersWithoutCabin(disk) # {})
  /\ UNCHANGED disk

(***************************************************************************)
(* The file is there and Load fails.  main warns and goes on with empty    *)
(* managers, and the first successful save replaces the file.  It counts   *)
(* as gone at once: a later start that can read it after all finds what a  *)
(* start in place of this one would have found.                            *)
(***************************************************************************)
RestartUnread ==
  /\ disk # NoFile
  /\ orders' = <<>>
  /\ cabins' = <<>>
  /\ inv' = Inv!EmptyInventory
  /\ Started
  /\ disk' = NoFile
  /\ behind' = 0
  /\ UNCHANGED torn

RNext ==
  \/ MuFree /\ Persisting /\ Persist
  \/ MuFree /\ Unsaved /\ UNCHANGED <<disk, saving, behind, torn>>
  \/ Outside /\ UNCHANGED <<disk, saving, behind, torn>>
  \/ SaveSucceeds
  \/ SaveFails
  \/ Restart
  \/ RestartUnread

RSpec == RInit /\ [][RNext]_rvars

-----------------------------------------------------------------------------
\* No reference in the file, or in a process started from it, is dangling.
RTypeOK ==
  /\ TypeOK
  /\ WellTyped(disk.orders, disk.cabins, disk.inv)
  /\ MuFree \/ CabinsTyped(orders, saving[1])
  /\ behind \in 0..MaxBehind
  /\ torn \in BOOLEAN

(***************************************************************************)
(* What an operation did is in the file by the time it has released o.mu,  *)
(* unless Save failed: the orders but those still being created, the       *)
(* holder of every cabin, and the requisitions.  Only a deadline may       *)
(* differ, which the clock and a refused authorization move unsaved (and   *)
(* the chief's identifier with it, which is left out).                     *)
(***************************************************************************)
FileIsCurrent ==
  MuFree /\ behind = 0 =>
    /\ \A w \in OrderIds \ creating :
         /\ w \in DOMAIN disk.orders
         /\ orders[w] = [disk.orders[w] EXCEPT !.deadline = orders[w].deadline]
    /\ \A c \in DOMAIN cabins :
         cabins[c].active # Cab!Nobody =>
           c \in DOMAIN disk.cabins /\ disk.cabins[c].active = cabins[c].active
    /\ inv.requisitions = disk.inv.requisitions

(***************************************************************************)
(* The file may hold an order without its cabin: both were registered      *)
(* while persist() was between the cabins and the orders.  Such an order   *)
(* has not begun: its creator is waiting for the o.mu that persist() has.  *)
(* This ends with the first start from such a file (torn), for the order   *)
(* is then there to be worked on without its cabin.                        *)
(***************************************************************************)
OrderWithoutCabinIsUnplaced ==
  ~torn => \A w \in OrdersWithoutCabin(disk) : disk.orders[w].state = "created"

(***************************************************************************)
(* An order at work in the file holds its cabin in the file too, unless    *)
(* some start read an order without its cabin (torn): until then a restart *)
(* at any moment finds the lock of every such order.                       *)
(***************************************************************************)
DiskWorkingOrderHoldsItsCabin ==
  ~torn =>
    \A w \in DOMAIN disk.orders :
      disk.orders[w].state \in Working => HoldsItsCabin(disk.orders, disk.cabins, w)

(***************************************************************************)
(* The orders and the inventory of a file were read with nothing between   *)
(* them that touches both: a process that starts from it knows the signed  *)
(* requisition of every repair, who stock is reserved for, and how much.   *)
(***************************************************************************)
RestartKeepsParts == RepairHasSignedParts /\ ReservationHasOwner /\ ReservedIsPending

(***************************************************************************)
(* The cabins of a file may be older than its orders, yet they agree with  *)
(* them: on who is inside, one order at most, and on anomalies that keep a *)
(* cabin off the grid.                                                     *)
(***************************************************************************)
RestartKeepsCabins == StatusAgrees /\ (~torn => Exclusion /\ FrozenWhileAnomalyOpen)

(***************************************************************************)
(* A restart forgets the queues.  The orders that are queued after it are  *)
(* in order all the same, beside cabins that may be held by orders from    *)
(* before, and none of them waits for a cabin that is free.                *)
(***************************************************************************)
RestartKeepsQueues == QueueOrdered /\ (~torn => NoWaitingForFreeCabin)

\* A requisition the file calls signed and confirmed stays so across restarts.
SignaturesSurvive ==
  [][disk' # NoFile =>
       \A r \in DOMAIN disk.inv.requisitions :
         disk.inv.requisitions[r].managerSigned =>
           /\ r \in DOMAIN disk'.inv.requisitions
           /\ disk'.inv.requisitions[r] = disk.inv.requisitions[r]]_rvars

(***************************************************************************)
(* An order the file calls finished is finished for good, in memory and in *)
(* the file, whatever is called later and whenever the process crashes,    *)
(* unless the file cannot be read.                                         *)
(***************************************************************************)
FinishedStaysFinished ==
  [][disk' # NoFile =>
       \A w \in DOMAIN disk.orders :
         IsTerminal(disk.orders[w].state) =>
           w \in OrderIds' /\ orders'[w].state = disk.orders[w].state]_rvars

\* An identifier that is in the file is never given to another order.
IdentifiersAreNotReused ==
  [][disk' # NoFile =>
       \A w \in DOMAIN disk.orders :
         /\ w \in OrderIds'
         /\ orders'[w].type = disk.orders[w].type
         /\ orders'[w].cabin = disk.orders[w].cabin]_rvars
=============================================================================
