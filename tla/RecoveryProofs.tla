---------------------------- MODULE RecoveryProofs ----------------------------
(***************************************************************************)
(* Theorems about the state file and the restarts, for any cabins, orders, *)
(* parts and bounds: whatever is in the file is well typed, finished       *)
(* orders, identifiers and signatures survive, and if orders name          *)
(* registered cabins only, no two orders are ever at work in one cabin and *)
(* none waits in the queue of a free one, crashes included.                *)
(***************************************************************************)
EXTENDS Recovery, QueueProofs

-----------------------------------------------------------------------------
(***************************************************************************)
(* How the orders evolve.                                                  *)
(***************************************************************************)
\* None is lost, none changes its type or cabin, and finished is finished.
Evolves(os, new) ==
  /\ DOMAIN os \subseteq DOMAIN new
  /\ \A w \in DOMAIN os :
       /\ new[w].type = os[w].type
       /\ new[w].cabin = os[w].cabin
       /\ IsTerminal(os[w].state) => new[w].state = os[w].state

LEMMA EvolvesTransitive ==
  ASSUME NEW a, NEW b, NEW c, Evolves(a, b), Evolves(b, c)
  PROVE  Evolves(a, c)
BY DEF Evolves

LEMMA EvolvesReflexive == \A a : Evolves(a, a)
BY DEF Evolves

\* Every step lets the orders evolve.
LEMMA StepEvolves ==
  ASSUME TypeOK, [Next]_vars
  PROVE  Evolves(orders, orders')
<1>1. CASE Proceed(orders, orders')
  BY <1>1 DEF Proceed, Proceeds, Evolves
<1>2. ASSUME NEW w \in OrderIds, DetectAnomaly(w)
      PROVE  Evolves(orders, orders')
  BY <1>2, DetectionFacts DEF Evolves, OrderIds
<1>. QED
  BY <1>1, <1>2, StepProceeds

-----------------------------------------------------------------------------
(***************************************************************************)
(* What is in the file is well typed.                                      *)
(***************************************************************************)
\* The state outside the orchestrator, and the cabins a save has read.
SavingTyped(os, sv) == sv = Idle \/ CabinsTyped(os, sv[1])

FilesTyped ==
  /\ WellTyped(disk.orders, disk.cabins, disk.inv)
  /\ SavingTyped(orders, saving)
  /\ behind \in 0..MaxBehind
  /\ torn \in BOOLEAN

LEMMA RTypeParts == RTypeOK <=> TypeOK /\ FilesTyped
BY DEF RTypeOK, FilesTyped, SavingTyped, MuFree

\* More orders than there were are as good for the cabins.
LEMMA CabinsTypedMonotone ==
  ASSUME NEW os, NEW new, NEW cs, CabinsTyped(os, cs), DOMAIN os \subseteq DOMAIN new
  PROVE  CabinsTyped(new, cs)
BY DEF CabinsTyped

\* Empty maps are well typed.
LEMMA NothingTyped == WellTyped(<<>>, <<>>, Inv!EmptyInventory)
<1>1. <<>> \in Seq(Order) /\ DOMAIN <<>> = {}
  OBVIOUS
<1>2. \A W, S, Q : <<>> \in Seq(Inv!Requisition(W, S, Q))
  OBVIOUS
<1>. QED
  BY <1>1, <1>2 DEF WellTyped, OrdersTyped, CabinsTyped, Inv!Typed, Inv!EmptyInventory

\* A process that starts from well typed maps.
LEMMA StartedTyped ==
  ASSUME WellTyped(orders', cabins', inv'), Started
  PROVE  TypeOK'
<1>1. [c \in CabinIds |-> <<>>] \in [CabinIds -> Seq(OrderIds')]
  OBVIOUS
<1>. QED
  BY <1>1 DEF TypeOK, Started

\* The steps of RNext, each as a step of the orchestrator beside the file.
Quiet == UNCHANGED <<disk, saving, behind, torn>>

LEMMA RSteps ==
  ASSUME RNext
  PROVE  \/ Persisting /\ Persist
         \/ (Unsaved \/ Outside) /\ Quiet
         \/ SaveSucceeds \/ SaveFails \/ Restart \/ RestartUnread
BY DEF RNext, Quiet

\* The same, for what a restart leaves of the process: a step of it, or a new process.
LEMMA RKinds ==
  ASSUME [RNext]_rvars
  PROVE  \/ [Next]_vars /\ (UNCHANGED torn)
         \/ Restart \/ RestartUnread
<1>1. CASE Persisting /\ Persist
  BY <1>1 DEF Next, Persist
<1>2. CASE (Unsaved \/ Outside) /\ Quiet
  BY <1>2 DEF Next, Quiet
<1>3. CASE SaveSucceeds \/ SaveFails
  BY <1>3 DEF SaveSucceeds, SaveFails
<1>4. CASE UNCHANGED rvars
  BY <1>4 DEF rvars
<1>. QED
  BY <1>1, <1>2, <1>3, <1>4, RSteps

LEMMA RTypeStep ==
  ASSUME RTypeOK, [RNext]_rvars
  PROVE  RTypeOK'
<1>1. TypeOK /\ FilesTyped
  BY RTypeParts
<1>2. ASSUME [Next]_vars
      PROVE  TypeOK' /\ DOMAIN orders \subseteq DOMAIN orders'
  BY <1>1, <1>2, TypeStep, StepEvolves DEF Evolves
<1>3. CASE Persisting /\ Persist
  <2>1. TypeOK'
    BY <1>2, <1>3 DEF Next
  <2>2. saving' = <<cabins'>> /\ UNCHANGED <<disk, behind, torn>>
    BY <1>3 DEF Persist
  <2>3. CabinsTyped(orders', cabins')
    BY <2>1 DEF TypeOK, WellTyped
  <2>4. FilesTyped'
    BY <1>1, <2>2, <2>3 DEF FilesTyped, SavingTyped
  <2>. QED
    BY <2>1, <2>4 DEF RTypeOK, FilesTyped, SavingTyped, MuFree
<1>4. CASE (Unsaved \/ Outside) /\ Quiet
  <2>1. TypeOK' /\ DOMAIN orders \subseteq DOMAIN orders'
    BY <1>2, <1>4 DEF Next
  <2>2. FilesTyped'
    BY <1>1, <1>4, <2>1, CabinsTypedMonotone DEF FilesTyped, SavingTyped, Quiet
  <2>. QED
    BY <2>1, <2>2 DEF RTypeOK, FilesTyped, SavingTyped, MuFree
<1>5. CASE SaveSucceeds
  <2>1. /\ CabinsTyped(orders, saving[1])
        /\ disk' = [orders |-> orders, cabins |-> saving[1], inv |-> inv]
        /\ saving' = Idle /\ behind' = 0 /\ UNCHANGED <<vars, torn>>
    BY <1>1, <1>5 DEF SaveSucceeds, FilesTyped, SavingTyped, MuFree
  <2>2. WellTyped(orders, saving[1], inv)
    BY <1>1, <2>1 DEF TypeOK, WellTyped
  <2>3. TypeOK'
    BY <1>2, <2>1
  <2>4. 0 \in 0..MaxBehind
    BY MaxBehindAssumption
  <2>. QED
    BY <1>1, <2>1, <2>2, <2>3, <2>4 DEF RTypeOK, FilesTyped, MuFree
<1>6. CASE SaveFails
  <2>1. /\ behind < MaxBehind /\ behind' = behind + 1
        /\ saving' = Idle /\ UNCHANGED <<vars, disk, torn>>
    BY <1>6 DEF SaveFails
  <2>2. TypeOK'
    BY <1>2, <2>1
  <2>3. behind' \in 0..MaxBehind
    BY <1>1, <2>1, MaxBehindAssumption DEF FilesTyped
  <2>. QED
    BY <1>1, <2>1, <2>2, <2>3 DEF RTypeOK, FilesTyped, MuFree
<1>7. CASE Restart
  <2>1. /\ orders' = disk.orders /\ cabins' = disk.cabins /\ inv' = disk.inv
        /\ Started /\ saving' = Idle /\ behind' = 0 /\ disk' = disk
        /\ torn' \in BOOLEAN
    BY <1>1, <1>7 DEF Restart, Started, FilesTyped
  <2>2. TypeOK'
    BY <1>1, <2>1, StartedTyped DEF FilesTyped
  <2>3. 0 \in 0..MaxBehind
    BY MaxBehindAssumption
  <2>. QED
    BY <1>1, <2>1, <2>2, <2>3 DEF RTypeOK, FilesTyped, MuFree
<1>8. CASE RestartUnread
  <2>1. /\ orders' = <<>> /\ cabins' = <<>> /\ inv' = Inv!EmptyInventory
        /\ Started /\ saving' = Idle /\ behind' = 0 /\ disk' = NoFile
        /\ torn' = torn
    BY <1>8 DEF RestartUnread, Started
  <2>2. TypeOK'
    BY <2>1, StartedTyped, NothingTyped
  <2>3. 0 \in 0..MaxBehind
    BY MaxBehindAssumption
  <2>. QED
    BY <1>1, <2>1, <2>2, <2>3, NothingTyped DEF RTypeOK, FilesTyped, MuFree, NoFile
<1>9. CASE UNCHANGED rvars
  <2>1. TypeOK'
    BY <1>2, <1>9 DEF rvars
  <2>2. UNCHANGED <<orders, disk, saving, behind, torn>>
    BY <1>9 DEF rvars, vars
  <2>3. FilesTyped'
    BY <1>1, <2>2 DEF FilesTyped
  <2>. QED
    BY <2>1, <2>3 DEF RTypeOK, FilesTyped, SavingTyped, MuFree
<1>. QED
  BY <1>3, <1>4, <1>5, <1>6, <1>7, <1>8, <1>9, RSteps

LEMMA RTypeInit == RInit => RTypeOK
<1>. SUFFICES ASSUME RInit PROVE RTypeOK
  OBVIOUS
<1>1. TypeOK /\ saving = Idle /\ behind = 0 /\ torn = FALSE
  BY TypeInit DEF RInit
<1>2. WellTyped(disk.orders, disk.cabins, disk.inv)
  <2>1. disk = NoFile
    BY DEF RInit
  <2>2. /\ NoFile.orders = <<>> /\ NoFile.cabins = <<>>
        /\ NoFile.inv = Inv!EmptyInventory
    BY DEF NoFile
  <2>. QED
    BY <2>1, <2>2, NothingTyped
<1>3. 0 \in 0..MaxBehind
  BY MaxBehindAssumption
<1>. QED
  BY <1>1, <1>2, <1>3 DEF RTypeOK, MuFree

(***************************************************************************)
(* However often the process crashes, saves fail and files are unreadable, *)
(* neither the file nor the process has a reference that dangles.          *)
(***************************************************************************)
THEOREM FileTyped == RSpec => []RTypeOK
<1>1. RTypeOK /\ [RNext]_rvars => RTypeOK'
  BY RTypeStep
<1>. QED
  BY <1>1, RTypeInit, PTL DEF RSpec

-----------------------------------------------------------------------------
(***************************************************************************)
(* The orders in memory are later than those in the file.                  *)
(***************************************************************************)
FileIsOlder == Evolves(disk.orders, orders)

LEMMA OlderInit == RInit => FileIsOlder
BY EvolvesReflexive DEF RInit, Init, NoFile, FileIsOlder

\* A step brings the memory forward, or the file up to the memory, or restarts.
LEMMA OlderStep ==
  ASSUME RTypeOK, FileIsOlder, [RNext]_rvars
  PROVE  /\ FileIsOlder'
         /\ disk' # NoFile => Evolves(disk.orders, orders')
         /\ disk' # NoFile => Evolves(disk.orders, disk'.orders)
<1>1. TypeOK
  BY DEF RTypeOK
<1>2. ASSUME [Next]_vars, disk' = disk
      PROVE  /\ FileIsOlder'
             /\ Evolves(disk.orders, orders')
             /\ Evolves(disk.orders, disk'.orders)
  <2>1. Evolves(orders, orders')
    BY <1>1, <1>2, StepEvolves
  <2>. QED
    BY <1>2, <2>1, EvolvesTransitive, EvolvesReflexive DEF FileIsOlder
<1>3. CASE Persisting /\ Persist
  BY <1>2, <1>3 DEF Persist, Next
<1>4. CASE (Unsaved \/ Outside) /\ Quiet
  BY <1>2, <1>4 DEF Quiet, Next
<1>5. CASE SaveSucceeds
  <2>1. disk'.orders = orders /\ orders' = orders
    BY <1>5 DEF SaveSucceeds, vars
  <2>. QED
    BY <2>1, EvolvesReflexive DEF FileIsOlder
<1>6. CASE SaveFails
  BY <1>2, <1>6 DEF SaveFails
<1>7. CASE Restart
  <2>1. orders' = disk.orders /\ disk' = disk
    BY <1>7 DEF Restart
  <2>. QED
    BY <2>1, EvolvesReflexive DEF FileIsOlder
<1>8. CASE RestartUnread
  <2>1. orders' = <<>> /\ disk' = NoFile /\ NoFile.orders = <<>>
    BY <1>8 DEF RestartUnread, NoFile
  <2>. QED
    BY <2>1, EvolvesReflexive DEF FileIsOlder
<1>9. CASE UNCHANGED rvars
  BY <1>2, <1>9 DEF rvars
<1>. QED
  BY <1>3, <1>4, <1>5, <1>6, <1>7, <1>8, <1>9, RSteps

LEMMA FileStaysOlder ==
  RSpec => [](RTypeOK /\ FileIsOlder)
<1>1. (RTypeOK /\ FileIsOlder) /\ [RNext]_rvars => (RTypeOK /\ FileIsOlder)'
  BY RTypeStep, OlderStep
<1>. QED
  BY <1>1, RTypeInit, OlderInit, PTL DEF RSpec

(***************************************************************************)
(* An order the file calls finished stays finished, whatever happens until *)
(* a start that cannot read the file.                                      *)
(***************************************************************************)
THEOREM Finished == RSpec => FinishedStaysFinished
<1>1. ASSUME RTypeOK, FileIsOlder, [RNext]_rvars, disk' # NoFile,
             NEW w \in DOMAIN disk.orders, IsTerminal(disk.orders[w].state)
      PROVE  w \in OrderIds' /\ orders'[w].state = disk.orders[w].state
  BY <1>1, OlderStep DEF Evolves, OrderIds
<1>2. RTypeOK /\ FileIsOlder /\ [RNext]_rvars =>
        [disk' # NoFile =>
           \A w \in DOMAIN disk.orders :
             IsTerminal(disk.orders[w].state) =>
               w \in OrderIds' /\ orders'[w].state = disk.orders[w].state]_rvars
  BY <1>1
<1>. QED
  BY <1>2, FileStaysOlder, PTL DEF RSpec, FinishedStaysFinished

(***************************************************************************)
(* An identifier that is in the file keeps its order, with its type and    *)
(* its cabin, and is given to no other.                                    *)
(***************************************************************************)
THEOREM IdentifiersKept == RSpec => IdentifiersAreNotReused
<1>1. ASSUME RTypeOK, FileIsOlder, [RNext]_rvars, disk' # NoFile,
             NEW w \in DOMAIN disk.orders
      PROVE  /\ w \in OrderIds'
             /\ orders'[w].type = disk.orders[w].type
             /\ orders'[w].cabin = disk.orders[w].cabin
  BY <1>1, OlderStep DEF Evolves, OrderIds
<1>2. RTypeOK /\ FileIsOlder /\ [RNext]_rvars =>
        [disk' # NoFile =>
           \A w \in DOMAIN disk.orders :
             /\ w \in OrderIds'
             /\ orders'[w].type = disk.orders[w].type
             /\ orders'[w].cabin = disk.orders[w].cabin]_rvars
  BY <1>1
<1>. QED
  BY <1>2, FileStaysOlder, PTL DEF RSpec, IdentifiersAreNotReused

-----------------------------------------------------------------------------
(***************************************************************************)
(* The requisitions in memory are later than those in the file.            *)
(***************************************************************************)
AllSigned(iv) == \A r \in DOMAIN iv.requisitions : WellSigned(iv.requisitions[r])

SignaturesInv ==
  /\ InventoryEvolves(disk.inv, inv)
  /\ AllSigned(disk.inv)
  /\ AllSigned(inv)

LEMMA NothingSigned == AllSigned(Inv!EmptyInventory)
BY DEF AllSigned, Inv!EmptyInventory

LEMMA SignaturesStep ==
  ASSUME RTypeOK, SignaturesInv, [RNext]_rvars
  PROVE  /\ SignaturesInv'
         /\ disk' # NoFile => InventoryEvolves(disk.inv, disk'.inv)
<1>1. TypeOK
  BY DEF RTypeOK
<1>2. ASSUME [Next]_vars, disk' = disk
      PROVE  SignaturesInv' /\ InventoryEvolves(disk.inv, disk'.inv)
  <2>1. InventoryEvolves(inv, inv') /\ AllSigned(inv')
    <3>1. SignedInv
      BY DEF SignaturesInv, AllSigned, SignedInv
    <3>2. SignedInv'
      BY <1>1, <1>2, <3>1, SignedStep
    <3>. QED
      BY <1>1, <1>2, <3>2, StepInventory DEF OldOnesEvolve, AllSigned, SignedInv
  <2>2. InventoryEvolves(disk.inv, disk'.inv)
    BY <1>2, InventoryEvolvesReflexive
  <2>. QED
    BY <1>2, <2>1, <2>2, InventoryEvolvesTransitive DEF SignaturesInv
<1>3. CASE Persisting /\ Persist
  BY <1>2, <1>3 DEF Persist, Next
<1>4. CASE (Unsaved \/ Outside) /\ Quiet
  BY <1>2, <1>4 DEF Quiet, Next
<1>5. CASE SaveSucceeds
  <2>1. disk'.inv = inv /\ inv' = inv
    BY <1>5 DEF SaveSucceeds, vars
  <2>. QED
    BY <2>1, InventoryEvolvesReflexive DEF SignaturesInv
<1>6. CASE SaveFails
  BY <1>2, <1>6 DEF SaveFails
<1>7. CASE Restart
  <2>1. inv' = disk.inv /\ disk' = disk
    BY <1>7 DEF Restart
  <2>. QED
    BY <2>1, InventoryEvolvesReflexive DEF SignaturesInv
<1>8. CASE RestartUnread
  <2>1. inv' = Inv!EmptyInventory /\ disk' = NoFile /\ NoFile.inv = Inv!EmptyInventory
    BY <1>8 DEF RestartUnread, NoFile
  <2>. QED
    BY <2>1, InventoryEvolvesReflexive, NothingSigned DEF SignaturesInv
<1>9. CASE UNCHANGED rvars
  BY <1>2, <1>9 DEF rvars
<1>. QED
  BY <1>3, <1>4, <1>5, <1>6, <1>7, <1>8, <1>9, RSteps

(***************************************************************************)
(* A requisition that both have signed stays as it is in the file, through *)
(* crashes and saves that fail, until a start that cannot read the file.   *)
(***************************************************************************)
THEOREM Signatures == RSpec => SignaturesSurvive
<1>1. RInit => SignaturesInv
  BY InventoryEvolvesReflexive, NothingSigned DEF RInit, Init, NoFile, SignaturesInv
<1>2. (RTypeOK /\ SignaturesInv) /\ [RNext]_rvars => (RTypeOK /\ SignaturesInv)'
  BY RTypeStep, SignaturesStep
<1>3. ASSUME RTypeOK, SignaturesInv, [RNext]_rvars, disk' # NoFile,
             NEW r \in DOMAIN disk.inv.requisitions, disk.inv.requisitions[r].managerSigned
      PROVE  /\ r \in DOMAIN disk'.inv.requisitions
             /\ disk'.inv.requisitions[r] = disk.inv.requisitions[r]
  <2>1. InventoryEvolves(disk.inv, disk'.inv)
    BY <1>3, SignaturesStep
  <2>2. Settled(disk.inv.requisitions[r])
    BY <1>3 DEF SignaturesInv, AllSigned, WellSigned, Settled
  <2>. QED
    BY <2>1, <2>2 DEF InventoryEvolves
<1>4. RTypeOK /\ SignaturesInv /\ [RNext]_rvars =>
        [disk' # NoFile =>
           \A r \in DOMAIN disk.inv.requisitions :
             disk.inv.requisitions[r].managerSigned =>
               /\ r \in DOMAIN disk'.inv.requisitions
               /\ disk'.inv.requisitions[r] = disk.inv.requisitions[r]]_rvars
  BY <1>3
<1>. QED
  BY <1>1, <1>2, <1>4, RTypeInit, PTL DEF RSpec, SignaturesSurvive

-----------------------------------------------------------------------------
(***************************************************************************)
(* The lock on a cabin across restarts.                                    *)
(***************************************************************************)
\* Orders whose cabin is missing have not begun.
Unbegun(os, cs) ==
  \A w \in DOMAIN os : os[w].cabin \notin DOMAIN cs => os[w].state = "created"

\* What holds of the file's maps, and of those that a save is about to write.
Locked(os, cs) == Held(os, cs) /\ Unbegun(os, cs)

FileLocked ==
  /\ LockInv
  /\ Locked(disk.orders, disk.cabins)
  /\ saving # Idle => Locked(orders, saving[1])

RLockInv == ~torn => FileLocked

\* What goes on without o.mu adds orders that have not begun, and begins none.
Added(os, new) ==
  /\ DOMAIN os \subseteq DOMAIN new
  /\ \A w \in DOMAIN os :
       /\ new[w].cabin = os[w].cabin
       /\ new[w].state = os[w].state
       /\ new[w].anomaly = os[w].anomaly
  /\ \A w \in DOMAIN new \ DOMAIN os : new[w].state = "created" /\ new[w].anomaly = "none"

LEMMA AddedLocked ==
  ASSUME NEW os, NEW new, NEW cs, Added(os, new), Locked(os, cs)
  PROVE  Locked(new, cs)
<1>1. "created" \notin Working
  BY WorkingStates
<1>. QED
  BY <1>1 DEF Added, Locked, Held, HoldsItsCabin, Unbegun

LEMMA OutsideAdds ==
  ASSUME TypeOK, Unsaved \/ Outside
  PROVE  Added(orders, orders')
<1>1. \A w \in OrderIds : orders[w] \in Order
  BY OrderOf DEF OrderIds, TypeOK
<1>2. ASSUME orders' = orders PROVE Added(orders, orders')
  BY <1>2 DEF Added
<1>3. ASSUME NEW w \in OrderIds, NEW o, orders' = Updated(orders, w, o),
             o.cabin = orders[w].cabin, o.state = orders[w].state,
             o.anomaly = orders[w].anomaly
      PROVE  Added(orders, orders')
  <2>1. /\ DOMAIN Updated(orders, w, o) = DOMAIN orders
        /\ \A v \in DOMAIN orders :
             Updated(orders, w, o)[v] = IF v = w THEN o ELSE orders[v]
    BY DEF Updated
  <2>. QED
    BY <1>3, <2>1 DEF Added
<1>4. ASSUME NEW w \in OrderIds, RejectAuthorization(w) \/ DeadlinePasses(w)
      PROVE  Added(orders, orders')
  <2>. DEFINE a == Timed(orders[w])
              b == [orders[w] EXCEPT !.deadline = "passed"]
  <2>1. /\ a.cabin = orders[w].cabin /\ a.state = orders[w].state
        /\ b.cabin = orders[w].cabin /\ b.state = orders[w].state
        /\ a.anomaly = orders[w].anomaly /\ b.anomaly = orders[w].anomaly
    BY <1>1 DEF Order, Timed
  <2>2. orders' = Updated(orders, w, a) \/ orders' = Updated(orders, w, b)
    BY <1>4 DEF RejectAuthorization, DeadlinePasses, Updated
  <2>. HIDE DEF a, b
  <2>. QED
    BY <1>3, <2>1, <2>2
<1>5. ASSUME NEW type \in OrderTypes, NEW c \in CabinIds, NEW p \in Urgencies,
             Create(type, c, p)
      PROVE  Added(orders, orders')
  <2>1. NewOrder(type, c, p).state = "created" /\ NewOrder(type, c, p).anomaly = "none"
    BY DEF NewOrder
  <2>. QED
    BY <1>5, <2>1, CreateStep DEF Added, OrderIds
<1>6. CASE Registrations
  BY <1>2, <1>6 DEF Registrations, RegisterCabin, RegisterPart
<1>. QED
  BY <1>4, <1>5, <1>6 DEF Unsaved, Outside, Creations, Clock

\* In memory every order has its cabin.
LEMMA LockedInMemory == ASSUME LockInv PROVE Locked(orders, cabins)
BY DEF LockInv, Lock, Known, Locked, Unbegun

\* A process that starts from a file without holes has the lock of the file.
LEMMA StartedLocked ==
  ASSUME Locked(orders', cabins'), Started,
         \A w \in DOMAIN orders' : orders'[w].cabin \in DOMAIN cabins'
  PROVE  LockInv'
<1>1. \A c \in CabinIds : DOMAIN queues'[c] = {}
  <2>1. \A c \in CabinIds : DOMAIN [d \in CabinIds |-> <<>>][c] = {}
    OBVIOUS
  <2>. QED
    BY <2>1 DEF Started
<1>. QED
  BY <1>1 DEF Locked, LockInv, Lock, Known, OwnQueues

LEMMA NothingLocked == Locked(<<>>, <<>>)
BY DEF Locked, Held, Unbegun

LEMMA RLockInit == RInit => RLockInv
<1>1. Init => LockInv
  BY LockInit
<1>2. NoFile.orders = <<>> /\ NoFile.cabins = <<>>
  BY DEF NoFile
<1>. QED
  BY <1>1, <1>2, NothingLocked DEF RInit, RLockInv, FileLocked

LEMMA RLockStep ==
  ASSUME ~StrayCabins, RTypeOK, RLockInv, [RNext]_rvars
  PROVE  RLockInv'
<1>. SUFFICES ASSUME ~torn' PROVE FileLocked'
  BY DEF RLockInv
<1>1. TypeOK
  BY DEF RTypeOK
<1>2. ASSUME [Next]_vars, ~torn PROVE LockInv'
  BY <1>1, <1>2, LockStep DEF RLockInv, FileLocked
<1>3. CASE Persisting /\ Persist
  <2>1. saving' = <<cabins'>> /\ UNCHANGED <<disk, torn>>
    BY <1>3 DEF Persist
  <2>2. LockInv'
    BY <1>2, <1>3, <2>1 DEF Next
  <2>3. Locked(orders', cabins')
    BY <2>2, LockedInMemory DEF LockInv, Lock, Known, Locked, Unbegun
  <2>. QED
    BY <2>1, <2>2, <2>3 DEF RLockInv, FileLocked
<1>4. CASE (Unsaved \/ Outside) /\ Quiet
  <2>1. UNCHANGED <<disk, saving, torn>>
    BY <1>4 DEF Quiet
  <2>2. LockInv'
    BY <1>2, <1>4, <2>1 DEF Next
  <2>3. Added(orders, orders')
    BY <1>1, <1>4, OutsideAdds
  <2>. QED
    BY <2>1, <2>2, <2>3, AddedLocked DEF RLockInv, FileLocked
<1>5. CASE SaveSucceeds
  <2>1. /\ disk'.orders = orders /\ disk'.cabins = saving[1]
        /\ saving # Idle /\ saving' = Idle /\ UNCHANGED <<vars, torn>>
    BY <1>5 DEF SaveSucceeds, MuFree
  <2>. QED
    BY <1>2, <2>1 DEF RLockInv, FileLocked
<1>6. CASE SaveFails
  <2>1. saving' = Idle /\ UNCHANGED <<vars, disk, torn>>
    BY <1>6 DEF SaveFails
  <2>. QED
    BY <1>2, <2>1 DEF RLockInv, FileLocked
<1>7. CASE Restart
  <2>1. /\ orders' = disk.orders /\ cabins' = disk.cabins /\ disk' = disk
        /\ Started /\ saving' = Idle
        /\ ~torn /\ OrdersWithoutCabin(disk) = {}
    BY <1>7 DEF Restart, Started
  <2>2. Locked(disk.orders, disk.cabins)
    BY <2>1 DEF RLockInv, FileLocked
  <2>3. LockInv'
    BY <2>1, <2>2, StartedLocked DEF OrdersWithoutCabin
  <2>. QED
    BY <2>1, <2>2, <2>3 DEF FileLocked
<1>8. CASE RestartUnread
  <2>1. /\ orders' = <<>> /\ cabins' = <<>> /\ disk' = NoFile
        /\ NoFile.orders = <<>> /\ NoFile.cabins = <<>>
        /\ Started /\ saving' = Idle
    BY <1>8 DEF RestartUnread, Started, NoFile
  <2>2. LockInv'
    BY <2>1, NothingLocked, StartedLocked
  <2>. QED
    BY <2>1, <2>2, NothingLocked DEF FileLocked
<1>9. CASE UNCHANGED rvars
  <2>1. UNCHANGED <<vars, orders, disk, saving, torn>>
    BY <1>9 DEF rvars, vars
  <2>. QED
    BY <1>2, <2>1 DEF RLockInv, FileLocked
<1>. QED
  BY <1>3, <1>4, <1>5, <1>6, <1>7, <1>8, <1>9, RSteps

LEMMA RLockKept ==
  ASSUME ~StrayCabins PROVE RSpec => [](RTypeOK /\ RLockInv)
<1>1. RInit => RTypeOK /\ RLockInv
  BY RTypeInit, RLockInit
<1>2. (RTypeOK /\ RLockInv) /\ [RNext]_rvars => (RTypeOK /\ RLockInv)'
  BY RTypeStep, RLockStep
<1>. QED
  BY <1>1, <1>2, PTL DEF RSpec

(***************************************************************************)
(* A restart at any moment finds the lock of every order at work, although *)
(* the cabins and the orders were read one after the other, unless an      *)
(* earlier one started from a file with an order whose cabin is missing.   *)
(***************************************************************************)
THEOREM FileHoldsCabin ==
  ASSUME ~StrayCabins PROVE RSpec => []DiskWorkingOrderHoldsItsCabin
<1>1. RLockInv => DiskWorkingOrderHoldsItsCabin
  BY DEF RLockInv, FileLocked, Locked, Held, DiskWorkingOrderHoldsItsCabin
<1>. QED
  BY <1>1, RLockKept, PTL

(***************************************************************************)
(* An order that is in the file without its cabin has not begun, unless a  *)
(* process once started from such a file.                                  *)
(***************************************************************************)
THEOREM FileUnplaced ==
  ASSUME ~StrayCabins PROVE RSpec => []OrderWithoutCabinIsUnplaced
<1>1. RLockInv => OrderWithoutCabinIsUnplaced
  BY DEF RLockInv, FileLocked, Locked, Unbegun, OrderWithoutCabinIsUnplaced,
     OrdersWithoutCabin
<1>. QED
  BY <1>1, RLockKept, PTL

(***************************************************************************)
(* No two orders are at work in one cabin, however often the process       *)
(* crashes, unless it once started from a file with an order whose cabin   *)
(* is missing.                                                             *)
(***************************************************************************)
THEOREM ExclusionSurvives ==
  ASSUME ~StrayCabins PROVE RSpec => [](~torn => Exclusion)
<1>1. RLockInv => (~torn => Exclusion)
  BY LockExcludes DEF RLockInv, FileLocked
<1>. QED
  BY <1>1, RLockKept, PTL

-----------------------------------------------------------------------------
(***************************************************************************)
(* The file is current.                                                    *)
(***************************************************************************)
\* Who holds a cabin of cs holds it in ds.
HoldersIn(cs, ds) ==
  \A c \in DOMAIN cs :
    cs[c].active # Cab!Nobody => c \in DOMAIN ds /\ ds[c].active = cs[c].active

\* Two orders that differ in their deadlines at most.
Same(o, n) == n = [o EXCEPT !.deadline = n.deadline]

\* The orders of os but those in ws are saved, but for their deadlines.
OrdersIn(os, ws, saved) ==
  \A w \in DOMAIN os \ ws : w \in DOMAIN saved /\ Same(saved[w], os[w])

\* The cabins that a running save has read are current as well.
CurrentInv ==
  /\ saving # Idle => HoldersIn(cabins, saving[1])
  /\ saving = Idle /\ behind = 0 =>
       /\ OrdersIn(orders, creating, disk.orders)
       /\ HoldersIn(cabins, disk.cabins)
       /\ inv.requisitions = disk.inv.requisitions

LEMMA SameReflexive ==
  ASSUME NEW o \in Order PROVE Same(o, o)
BY DEF Same, Order

LEMMA SameTransitive ==
  ASSUME NEW a \in Order, NEW b \in Order, NEW c \in Order, Same(a, b), Same(b, c)
  PROVE  Same(a, c)
BY DEF Same, Order

\* The same orders are saved of a state in which they are the same.
LEMMA OrdersInMoved ==
  ASSUME NEW os \in Seq(Order), NEW new \in Seq(Order), NEW saved \in Seq(Order),
         NEW ws, NEW more,
         ws \subseteq more, DOMAIN new \ DOMAIN os \subseteq more,
         \A w \in DOMAIN os : w \in DOMAIN new /\ Same(os[w], new[w]),
         OrdersIn(os, ws, saved)
  PROVE  OrdersIn(new, more, saved)
<1>. SUFFICES ASSUME NEW w \in DOMAIN new \ more
              PROVE  w \in DOMAIN saved /\ Same(saved[w], new[w])
  BY DEF OrdersIn
<1>1. w \in DOMAIN os \ ws
  OBVIOUS
<1>2. w \in DOMAIN saved /\ Same(saved[w], os[w])
  BY <1>1 DEF OrdersIn
<1>3. Same(os[w], new[w])
  BY <1>1
<1>4. saved[w] \in Order /\ os[w] \in Order /\ new[w] \in Order
  BY <1>1, <1>2, OrderOf
<1>. QED
  BY <1>2, <1>3, <1>4, SameTransitive

\* What goes on without o.mu changes of an order its deadline at most, and of
\* the requisitions nothing.
LEMMA OutsideSame ==
  ASSUME TypeOK, Unsaved \/ Outside
  PROVE  /\ \A w \in DOMAIN orders : w \in DOMAIN orders' /\ Same(orders[w], orders'[w])
         /\ inv'.requisitions = inv.requisitions
<1>1. \A w \in OrderIds : orders[w] \in Order
  BY OrderOf DEF OrderIds, TypeOK, WellTyped, OrdersTyped
<1>2. ASSUME orders' = orders
      PROVE  \A w \in DOMAIN orders : w \in DOMAIN orders' /\ Same(orders[w], orders'[w])
  BY <1>1, <1>2, SameReflexive DEF OrderIds
<1>3. ASSUME NEW v \in OrderIds, RejectAuthorization(v) \/ DeadlinePasses(v)
      PROVE  \A w \in DOMAIN orders : w \in DOMAIN orders' /\ Same(orders[w], orders'[w])
  <2>. DEFINE a == [orders[v] EXCEPT !.deadline = "running"]
              b == [orders[v] EXCEPT !.deadline = "passed"]
  <2>1. Same(orders[v], a) /\ Same(orders[v], b)
    BY <1>1 DEF Same, Order
  <2>2. orders' = [orders EXCEPT ![v] = a] \/ orders' = [orders EXCEPT ![v] = b]
    BY <1>3 DEF RejectAuthorization, DeadlinePasses, Timed
  <2>. HIDE DEF a, b
  <2>3. ASSUME NEW w \in DOMAIN orders
        PROVE  w \in DOMAIN orders' /\ Same(orders[w], orders'[w])
    <3>1. Same(orders[w], orders[w])
      BY <1>1, SameReflexive DEF OrderIds
    <3>2. w \in DOMAIN orders'
      BY <2>2
    <3>3. CASE w # v
      <4>1. orders'[w] = orders[w]
        BY <2>2, <3>3
      <4>. QED
        BY <3>1, <3>2, <4>1
    <3>4. CASE w = v
      <4>1. orders'[w] = a \/ orders'[w] = b
        BY <2>2, <3>4
      <4>. QED
        BY <2>1, <3>2, <3>4, <4>1
    <3>. QED
      BY <3>3, <3>4
  <2>. QED
    BY <2>3
<1>4. ASSUME NEW type \in OrderTypes, NEW c \in CabinIds, NEW p \in Urgencies,
             Create(type, c, p)
      PROVE  \A w \in DOMAIN orders : w \in DOMAIN orders' /\ Same(orders[w], orders'[w])
  <2>1. \A w \in DOMAIN orders : w \in DOMAIN orders' /\ orders'[w] = orders[w]
    BY <1>4, CreateStep DEF OrderIds
  <2>. QED
    BY <1>1, <2>1, SameReflexive DEF OrderIds
<1>5. inv'.requisitions = inv.requisitions
  <2>1. ASSUME NEW s \in SKUs, NEW n \in StockLevels, RegisterPart(s, n)
        PROVE  inv'.requisitions = inv.requisitions
    BY <2>1 DEF RegisterPart, Inv!RegisterPart, TypeOK, WellTyped, Inv!Typed
  <2>2. CASE \/ Unsaved \/ Creations \/ Clock \/ \E c \in CabinIds : RegisterCabin(c)
    BY <2>2 DEF Unsaved, RejectAuthorization, Creations, Create, Clock, DeadlinePasses,
       RegisterCabin
  <2>. QED
    BY <2>1, <2>2 DEF Outside, Registrations
<1>6. CASE Registrations
  BY <1>2, <1>5, <1>6 DEF Registrations, RegisterCabin, RegisterPart
<1>. QED
  BY <1>3, <1>4, <1>5, <1>6 DEF Unsaved, Outside, Creations, Clock

\* What goes on without o.mu gives no cabin to anybody, and new orders a creator.
LEMMA OutsideHolders ==
  ASSUME TypeOK, Unsaved \/ Outside
  PROVE  HoldersIn(cabins', cabins)
<1>1. ASSUME UNCHANGED cabins PROVE HoldersIn(cabins', cabins)
  BY <1>1 DEF HoldersIn
<1>2. ASSUME NEW c \in CabinIds, RegisterCabin(c) PROVE HoldersIn(cabins', cabins)
  <2>1. Cab!NewCabin.active = Cab!Nobody
    BY DEF Cab!NewCabin
  <2>2. \A d \in DOMAIN cabins' :
          \/ d = c /\ cabins'[d] = Cab!NewCabin
          \/ d \in DOMAIN cabins /\ cabins'[d] = cabins[d]
    BY <1>2 DEF RegisterCabin
  <2>. QED
    BY <2>1, <2>2 DEF HoldersIn
<1>3. CASE \/ Unsaved \/ Creations \/ Clock
           \/ \E s \in SKUs, n \in StockLevels : RegisterPart(s, n)
  <2>1. UNCHANGED cabins
    BY <1>3 DEF Unsaved, RejectAuthorization, Creations, Create, Clock, DeadlinePasses,
       RegisterPart
  <2>. QED
    BY <1>1, <2>1
<1>. QED
  BY <1>2, <1>3 DEF Outside, Registrations

LEMMA OutsideCreating ==
  ASSUME TypeOK, Unsaved \/ Outside
  PROVE  creating \subseteq creating' /\ DOMAIN orders' \ DOMAIN orders \subseteq creating'
<1>1. ASSUME NEW type \in OrderTypes, NEW c \in CabinIds, NEW p \in Urgencies,
             Create(type, c, p)
      PROVE  creating \subseteq creating' /\ DOMAIN orders' \ DOMAIN orders \subseteq creating'
  BY <1>1, CreateStep DEF OrderIds, Create
<1>2. CASE Unsaved \/ Clock \/ Registrations
  <2>1. DOMAIN orders' = DOMAIN orders /\ UNCHANGED creating
    BY <1>2 DEF Unsaved, RejectAuthorization, Clock, DeadlinePasses, Registrations,
       RegisterCabin, RegisterPart
  <2>. QED
    BY <2>1
<1>. QED
  BY <1>1, <1>2 DEF Outside, Creations

LEMMA HoldersTransitive ==
  ASSUME NEW a, NEW b, NEW c, HoldersIn(a, b), HoldersIn(b, c)
  PROVE  HoldersIn(a, c)
BY DEF HoldersIn

LEMMA CurrentStep ==
  ASSUME RTypeOK, CurrentInv, [RNext]_rvars
  PROVE  CurrentInv'
<1>1. TypeOK /\ behind \in Nat /\ orders \in Seq(Order) /\ disk.orders \in Seq(Order)
  BY MaxBehindAssumption DEF RTypeOK, TypeOK, WellTyped, OrdersTyped
<1>2. CASE Persisting /\ Persist
  <2>1. saving' = <<cabins'>> /\ <<cabins'>> # Idle /\ <<cabins'>>[1] = cabins'
    BY <1>2 DEF Persist, Idle
  <2>2. HoldersIn(cabins', cabins')
    BY DEF HoldersIn
  <2>. QED
    BY <2>1, <2>2 DEF CurrentInv
<1>3. CASE (Unsaved \/ Outside) /\ Quiet
  <2>1. /\ HoldersIn(cabins', cabins)
        /\ \A w \in DOMAIN orders : w \in DOMAIN orders' /\ Same(orders[w], orders'[w])
        /\ inv'.requisitions = inv.requisitions
    BY <1>1, <1>3, OutsideHolders, OutsideSame
  <2>2. creating \subseteq creating' /\ DOMAIN orders' \ DOMAIN orders \subseteq creating'
    BY <1>1, <1>3, OutsideCreating
  <2>3. UNCHANGED <<disk, saving, behind>>
    BY <1>3 DEF Quiet
  <2>4. saving # Idle => HoldersIn(cabins', saving[1])
    BY <2>1, HoldersTransitive DEF CurrentInv
  <2>6. orders' \in Seq(Order)
    BY RTypeStep DEF RTypeOK, TypeOK, WellTyped, OrdersTyped
  <2>5. ASSUME saving = Idle, behind = 0
        PROVE  /\ OrdersIn(orders', creating', disk.orders)
               /\ HoldersIn(cabins', disk.cabins)
               /\ inv'.requisitions = disk.inv.requisitions
    <3>1. /\ OrdersIn(orders, creating, disk.orders)
          /\ HoldersIn(cabins, disk.cabins)
          /\ inv.requisitions = disk.inv.requisitions
      BY <2>5 DEF CurrentInv
    <3>2. OrdersIn(orders', creating', disk.orders)
      BY <1>1, <2>1, <2>2, <2>6, <3>1, OrdersInMoved
    <3>. QED
      BY <2>1, <3>1, <3>2, HoldersTransitive
  <2>. QED
    BY <2>3, <2>4, <2>5 DEF CurrentInv
<1>4. CASE SaveSucceeds
  <2>1. /\ saving # Idle /\ saving' = Idle
        /\ disk'.orders = orders /\ disk'.cabins = saving[1] /\ disk'.inv = inv
        /\ UNCHANGED <<orders, cabins, inv, creating>>
    BY <1>4 DEF SaveSucceeds, MuFree, vars
  <2>2. OrdersIn(orders, creating, orders)
    BY <1>1, OrderOf, SameReflexive DEF OrdersIn
  <2>. QED
    BY <2>1, <2>2 DEF CurrentInv
<1>5. CASE SaveFails
  <2>1. saving' = Idle /\ behind' # 0
    BY <1>1, <1>5 DEF SaveFails
  <2>. QED
    BY <2>1 DEF CurrentInv
<1>6. CASE Restart
  <2>1. /\ orders' = disk.orders /\ cabins' = disk.cabins /\ disk' = disk
        /\ inv' = disk.inv /\ saving' = Idle
    BY <1>6 DEF Restart, Started
  <2>2. OrdersIn(disk.orders, creating', disk.orders)
    BY <1>1, OrderOf, SameReflexive DEF OrdersIn
  <2>. QED
    BY <2>1, <2>2 DEF CurrentInv, HoldersIn
<1>7. CASE RestartUnread
  <2>1. /\ orders' = <<>> /\ cabins' = <<>> /\ saving' = Idle
        /\ inv' = Inv!EmptyInventory /\ disk' = NoFile /\ NoFile.inv = Inv!EmptyInventory
    BY <1>7 DEF RestartUnread, Started, NoFile
  <2>. QED
    BY <2>1 DEF CurrentInv, OrdersIn, HoldersIn
<1>8. CASE UNCHANGED rvars
  BY <1>8 DEF rvars, vars, CurrentInv
<1>. QED
  BY <1>2, <1>3, <1>4, <1>5, <1>6, <1>7, <1>8, RSteps

(***************************************************************************)
(* Between two operations, unless a save failed, a crash forgets nothing   *)
(* of an order but its deadline, no holder of a cabin and no requisition,  *)
(* whatever went on during the save.                                       *)
(***************************************************************************)
THEOREM Current == RSpec => []FileIsCurrent
<1>1. RInit => CurrentInv
  BY DEF RInit, Init, CurrentInv, OrdersIn, HoldersIn, NoFile
<1>2. (RTypeOK /\ CurrentInv) /\ [RNext]_rvars => (RTypeOK /\ CurrentInv)'
  BY RTypeStep, CurrentStep
<1>3. CurrentInv => FileIsCurrent
  BY DEF CurrentInv, OrdersIn, Same, HoldersIn, FileIsCurrent, MuFree, OrderIds
<1>. QED
  BY <1>1, <1>2, <1>3, RTypeInit, PTL DEF RSpec

-----------------------------------------------------------------------------
(***************************************************************************)
(* The orders and the requisitions, in memory and in the file.             *)
(***************************************************************************)
\* What OrderInv, OwnerInv and Balanced say, of any orders and inventory.
Books(os, iv) ==
  /\ \A w \in DOMAIN os :
       /\ os[w].type = "inspection" => os[w].state \notin Repairing
       /\ os[w].req # 0 => iv.requisitions[os[w].req].order = w
       /\ os[w].state \in AfterParts =>
            os[w].req # 0 /\ iv.requisitions[os[w].req].status = "confirmed"
  /\ AllSigned(iv)
  /\ \A r \in DOMAIN iv.requisitions :
       ~Settled(iv.requisitions[r]) =>
         /\ os[iv.requisitions[r].order].req = r
         /\ os[iv.requisitions[r].order].state \in Awaiting
  /\ Balanced(iv)

BooksInv == Books(orders, inv) /\ Books(disk.orders, disk.inv)

LEMMA BooksInMemory == Books(orders, inv) <=> OrderInv /\ OwnerInv /\ Balanced(inv)
BY DEF Books, OrderInv, InspectionInv, PartsInv, SignedInv, AllSigned, OwnerInv, OrderIds

LEMMA NothingBooked == Books(<<>>, Inv!EmptyInventory)
<1>1. DOMAIN <<>> = {}
  OBVIOUS
<1>2. DOMAIN Inv!EmptyInventory.requisitions = {}
  BY DEF Inv!EmptyInventory
<1>3. Balanced(Inv!EmptyInventory) /\ AllSigned(Inv!EmptyInventory)
  BY EmptyBalanced, NothingSigned
<1>. QED
  BY <1>1, <1>2, <1>3 DEF Books

LEMMA BooksStep ==
  ASSUME TypeOK, Books(orders, inv), [Next]_vars
  PROVE  Books(orders', inv')
<1>1. OrderInv /\ OwnerInv /\ Balanced(inv)
  BY BooksInMemory
<1>2. OrderInv' /\ OwnerInv' /\ Balanced(inv')
  BY <1>1, OrderStep, OwnerStep, StepBalanced
<1>3. (OrderInv /\ OwnerInv /\ Balanced(inv) => Books(orders, inv))'
  BY BooksInMemory, PTL
<1>. QED
  BY <1>2, <1>3

LEMMA FileBooksStep ==
  ASSUME RTypeOK, BooksInv, [RNext]_rvars
  PROVE  BooksInv'
<1>1. TypeOK
  BY DEF RTypeOK
<1>2. ASSUME [Next]_vars, disk' = disk PROVE BooksInv'
  BY <1>1, <1>2, BooksStep DEF BooksInv
<1>3. CASE Persisting /\ Persist
  BY <1>2, <1>3 DEF Persist, Next
<1>4. CASE (Unsaved \/ Outside) /\ Quiet
  BY <1>2, <1>4 DEF Quiet, Next
<1>5. CASE SaveSucceeds
  <2>1. disk'.orders = orders /\ disk'.inv = inv /\ orders' = orders /\ inv' = inv
    BY <1>5 DEF SaveSucceeds, vars
  <2>. QED
    BY <2>1 DEF BooksInv
<1>6. CASE SaveFails
  BY <1>2, <1>6 DEF SaveFails
<1>7. CASE Restart
  <2>1. orders' = disk.orders /\ inv' = disk.inv /\ disk' = disk
    BY <1>7 DEF Restart
  <2>. QED
    BY <2>1 DEF BooksInv
<1>8. CASE RestartUnread
  <2>1. /\ orders' = <<>> /\ inv' = Inv!EmptyInventory /\ disk' = NoFile
        /\ NoFile.orders = <<>> /\ NoFile.inv = Inv!EmptyInventory
    BY <1>8 DEF RestartUnread, NoFile
  <2>. QED
    BY <2>1, NothingBooked DEF BooksInv
<1>9. CASE UNCHANGED rvars
  BY <1>2, <1>9 DEF rvars
<1>. QED
  BY <1>3, <1>4, <1>5, <1>6, <1>7, <1>8, <1>9, RSteps

LEMMA BooksKept == RSpec => [](RTypeOK /\ BooksInv)
<1>1. RInit => BooksInv
  <2>1. NoFile.orders = <<>> /\ NoFile.inv = Inv!EmptyInventory
    BY DEF NoFile
  <2>. QED
    BY <2>1, NothingBooked DEF RInit, Init, BooksInv
<1>2. (RTypeOK /\ BooksInv) /\ [RNext]_rvars => (RTypeOK /\ BooksInv)'
  BY RTypeStep, FileBooksStep
<1>. QED
  BY <1>1, <1>2, RTypeInit, PTL DEF RSpec

(***************************************************************************)
(* However often the process crashes and saves fail, a repair that goes on *)
(* has its signed requisition, stock is reserved only for orders that wait *)
(* for it, and what is reserved is what they ask for.                      *)
(***************************************************************************)
THEOREM PartsSurvive == RSpec => []RestartKeepsParts
<1>1. ASSUME RTypeOK, BooksInv PROVE RestartKeepsParts
  <2>1. TypeOK /\ OrderInv /\ OwnerInv /\ Balanced(inv)
    BY <1>1, BooksInMemory DEF RTypeOK, BooksInv
  <2>2. RepairHasSignedParts
    BY <2>1, SignedParts
  <2>3. ReservationHasOwner
    BY <2>1 DEF OwnerInv, ReservationHasOwner, Settled, Awaiting, ForParts
  <2>4. ReservedIsPending
    BY <2>1, BalancedReserved
  <2>. QED
    BY <2>2, <2>3, <2>4 DEF RestartKeepsParts
<1>2. RTypeOK /\ BooksInv => RestartKeepsParts
  BY <1>1
<1>. QED
  BY <1>2, BooksKept, PTL

-----------------------------------------------------------------------------
(***************************************************************************)
(* The orders and the cabins, in memory and in the file.                   *)
(***************************************************************************)
CabinsInv ==
  /\ StatusAgrees
  /\ Agree(disk.orders, disk.cabins)
  /\ saving # Idle => Agree(orders, saving[1])

LEMMA NothingAgrees == Agree(<<>>, <<>>)
<1>1. DOMAIN <<>> = {}
  OBVIOUS
<1>. QED
  BY <1>1 DEF Agree, CabinsTyped

LEMMA CabinsInvStep ==
  ASSUME RTypeOK, CabinsInv, [RNext]_rvars
  PROVE  CabinsInv'
<1>1. TypeOK
  BY DEF RTypeOK
<1>2. ASSUME [Next]_vars
      PROVE  StatusAgrees' /\ Agree(orders', cabins')
  <2>1. TypeOK' /\ StatusAgrees'
    BY <1>1, <1>2, TypeStep, CabinsStep DEF CabinsInv
  <2>. QED
    BY <2>1 DEF StatusAgrees, Agree, TypeOK, WellTyped
<1>3. CASE Persisting /\ Persist
  <2>1. saving' = <<cabins'>> /\ disk' = disk
    BY <1>3 DEF Persist
  <2>. QED
    BY <1>2, <1>3, <2>1 DEF Next, CabinsInv
<1>4. CASE (Unsaved \/ Outside) /\ Quiet
  <2>1. saving' = saving /\ disk' = disk
    BY <1>4 DEF Quiet
  <2>2. [Next]_vars
    BY <1>4 DEF Next
  <2>3. Evolves(orders, orders')
    BY <1>1, <2>2, StepEvolves
  <2>4. saving # Idle => Agree(orders', saving[1])
    BY <2>3, AgreeProceeds DEF CabinsInv, Evolves
  <2>. QED
    BY <1>2, <2>1, <2>2, <2>4 DEF CabinsInv
<1>5. CASE SaveSucceeds
  <2>1. /\ disk'.orders = orders /\ disk'.cabins = saving[1]
        /\ saving # Idle /\ saving' = Idle /\ UNCHANGED vars
    BY <1>5 DEF SaveSucceeds, MuFree
  <2>. QED
    BY <1>2, <2>1 DEF CabinsInv
<1>6. CASE SaveFails
  <2>1. saving' = Idle /\ disk' = disk /\ UNCHANGED vars
    BY <1>6 DEF SaveFails
  <2>. QED
    BY <1>2, <2>1 DEF CabinsInv
<1>7. CASE Restart
  <2>1. /\ orders' = disk.orders /\ cabins' = disk.cabins /\ disk' = disk
        /\ saving' = Idle
    BY <1>7 DEF Restart, Started
  <2>2. StatusAgrees'
    BY <2>1 DEF CabinsInv, Agree, StatusAgrees
  <2>. QED
    BY <2>1, <2>2 DEF CabinsInv
<1>8. CASE RestartUnread
  <2>1. /\ orders' = <<>> /\ cabins' = <<>> /\ disk' = NoFile
        /\ NoFile.orders = <<>> /\ NoFile.cabins = <<>> /\ saving' = Idle
    BY <1>8 DEF RestartUnread, Started, NoFile
  <2>2. StatusAgrees'
    BY <2>1, NothingAgrees DEF Agree, StatusAgrees
  <2>. QED
    BY <2>1, <2>2, NothingAgrees DEF CabinsInv
<1>9. CASE UNCHANGED rvars
  <2>1. UNCHANGED <<vars, orders, disk, saving>>
    BY <1>9 DEF rvars, vars
  <2>. QED
    BY <1>2, <2>1 DEF CabinsInv
<1>. QED
  BY <1>3, <1>4, <1>5, <1>6, <1>7, <1>8, <1>9, RSteps

LEMMA CabinsKept == RSpec => [](RTypeOK /\ CabinsInv)
<1>1. RInit => CabinsInv
  <2>1. NoFile.orders = <<>> /\ NoFile.cabins = <<>>
    BY DEF NoFile
  <2>2. RInit => StatusAgrees
    BY DEF RInit, Init, StatusAgrees
  <2>. QED
    BY <2>1, <2>2, NothingAgrees DEF RInit, CabinsInv
<1>2. (RTypeOK /\ CabinsInv) /\ [RNext]_rvars => (RTypeOK /\ CabinsInv)'
  BY RTypeStep, CabinsInvStep
<1>. QED
  BY <1>1, <1>2, RTypeInit, PTL DEF RSpec

(***************************************************************************)
(* The status of a cabin is right after any number of crashes, even if a   *)
(* start read an order without its cabin.                                  *)
(***************************************************************************)
THEOREM StatusSurvives == RSpec => []StatusAgrees
<1>1. CabinsInv => StatusAgrees
  BY DEF CabinsInv
<1>. QED
  BY <1>1, CabinsKept, PTL

-----------------------------------------------------------------------------
(***************************************************************************)
(* The anomalies, in memory and in the file.                               *)
(***************************************************************************)
Frozen(os, cs) ==
  \A w \in DOMAIN os :
    os[w].anomaly # "none" =>
      /\ os[w].state \in InspectionWork \cup Terminal
      /\ os[w].state \in InspectionWork => ~cs[os[w].cabin].qualified

FileFrozen ==
  /\ Frozen(orders, cabins)
  /\ Frozen(disk.orders, disk.cabins)
  /\ saving # Idle => Frozen(orders, saving[1])

RFrozenInv == ~torn => FileFrozen

LEMMA AddedFrozen ==
  ASSUME NEW os, NEW new, NEW cs, Added(os, new), Frozen(os, cs)
  PROVE  Frozen(new, cs)
BY DEF Added, Frozen

LEMMA NothingFrozen == Frozen(<<>>, <<>>)
<1>1. DOMAIN <<>> = {}
  OBVIOUS
<1>. QED
  BY <1>1 DEF Frozen

LEMMA FrozenMemoryStep ==
  ASSUME ~StrayCabins, TypeOK, LockInv, StatusAgrees, Frozen(orders, cabins), [Next]_vars
  PROVE  Frozen(orders', cabins')
<1>1. FrozenInv
  BY DEF Frozen, FrozenInv, OrderIds
<1>2. FrozenInv'
  BY <1>1, FrozenStep
<1>. QED
  BY <1>2 DEF Frozen, FrozenInv, OrderIds

LEMMA RFrozenStep ==
  ASSUME ~StrayCabins, RTypeOK, RLockInv, CabinsInv, RFrozenInv, [RNext]_rvars
  PROVE  RFrozenInv'
<1>. SUFFICES ASSUME ~torn' PROVE FileFrozen'
  BY DEF RFrozenInv
<1>1. TypeOK /\ StatusAgrees
  BY DEF RTypeOK, CabinsInv
<1>2. ASSUME [Next]_vars, ~torn PROVE Frozen(orders', cabins')
  BY <1>1, <1>2, FrozenMemoryStep DEF RLockInv, FileLocked, RFrozenInv, FileFrozen
<1>3. CASE Persisting /\ Persist
  <2>1. saving' = <<cabins'>> /\ UNCHANGED <<disk, torn>>
    BY <1>3 DEF Persist
  <2>. QED
    BY <1>2, <1>3, <2>1 DEF Next, RFrozenInv, FileFrozen
<1>4. CASE (Unsaved \/ Outside) /\ Quiet
  <2>1. UNCHANGED <<disk, saving, torn>>
    BY <1>4 DEF Quiet
  <2>2. Added(orders, orders')
    BY <1>1, <1>4, OutsideAdds
  <2>3. [Next]_vars
    BY <1>4 DEF Next
  <2>. QED
    BY <1>2, <2>1, <2>2, <2>3, AddedFrozen DEF RFrozenInv, FileFrozen
<1>5. CASE SaveSucceeds
  <2>1. /\ disk'.orders = orders /\ disk'.cabins = saving[1]
        /\ saving # Idle /\ saving' = Idle /\ UNCHANGED <<vars, torn>>
    BY <1>5 DEF SaveSucceeds, MuFree
  <2>. QED
    BY <1>2, <2>1 DEF RFrozenInv, FileFrozen
<1>6. CASE SaveFails
  <2>1. saving' = Idle /\ UNCHANGED <<vars, disk, torn>>
    BY <1>6 DEF SaveFails
  <2>. QED
    BY <1>2, <2>1 DEF RFrozenInv, FileFrozen
<1>7. CASE Restart
  <2>1. /\ orders' = disk.orders /\ cabins' = disk.cabins /\ disk' = disk
        /\ saving' = Idle /\ ~torn
    BY <1>7 DEF Restart, Started
  <2>. QED
    BY <2>1 DEF RFrozenInv, FileFrozen
<1>8. CASE RestartUnread
  <2>1. /\ orders' = <<>> /\ cabins' = <<>> /\ disk' = NoFile
        /\ NoFile.orders = <<>> /\ NoFile.cabins = <<>> /\ saving' = Idle
    BY <1>8 DEF RestartUnread, Started, NoFile
  <2>. QED
    BY <2>1, NothingFrozen DEF FileFrozen
<1>9. CASE UNCHANGED rvars
  <2>1. UNCHANGED <<vars, orders, disk, saving, torn>>
    BY <1>9 DEF rvars, vars
  <2>. QED
    BY <1>2, <2>1 DEF RFrozenInv, FileFrozen
<1>. QED
  BY <1>3, <1>4, <1>5, <1>6, <1>7, <1>8, <1>9, RSteps

(***************************************************************************)
(* After any number of crashes the cabins agree with the orders: on who is *)
(* inside and, unless a start read an order without its cabin, on the      *)
(* anomalies that keep a cabin off the grid.                               *)
(***************************************************************************)
THEOREM CabinsSurvive ==
  ASSUME ~StrayCabins PROVE RSpec => []RestartKeepsCabins
<1>1. RInit => RFrozenInv
  <2>1. NoFile.orders = <<>> /\ NoFile.cabins = <<>>
    BY DEF NoFile
  <2>. QED
    BY <2>1, NothingFrozen DEF RInit, Init, RFrozenInv, FileFrozen
<1>2. RTypeOK /\ RLockInv /\ CabinsInv /\ RFrozenInv /\ [RNext]_rvars => RFrozenInv'
  BY RFrozenStep
<1>3. RLockInv /\ CabinsInv /\ RFrozenInv => RestartKeepsCabins
  BY LockExcludes
  DEF CabinsInv, RLockInv, FileLocked, RFrozenInv, FileFrozen, Frozen, FrozenWhileAnomalyOpen,
      OrderIds, RestartKeepsCabins
<1>. QED
  BY <1>1, <1>2, <1>3, RLockKept, CabinsKept, PTL DEF RSpec

-----------------------------------------------------------------------------
(***************************************************************************)
(* The queues.  A restart empties them, and does not go on placing orders, *)
(* so what is in them is in order; what is lost is that those who wait are *)
(* in them.                                                                *)
(***************************************************************************)
LEMMA EmptiedQueues ==
  ASSUME Restart \/ RestartUnread
  PROVE  QueueInv' /\ ServedInv'
<1>1. queues' = [c \in CabinIds |-> <<>>] /\ creating' = {}
  BY DEF Restart, RestartUnread, Started
<1>. QED
  BY <1>1, NoQueues DEF QueueInv, ServedInv

LEMMA QueueUnchanged ==
  ASSUME UNCHANGED vars
  PROVE  /\ QueueInv => QueueInv'
         /\ ServedInv => ServedInv'
BY DEF vars, QueueInv, ServedInv

LEMMA RQueueKept == RSpec => [](RTypeOK /\ QueueInv)
<1>1. RInit => RTypeOK /\ QueueInv
  BY RTypeInit, QueueInit DEF RInit
<1>2. RTypeOK /\ QueueInv /\ [RNext]_rvars => QueueInv'
  BY RKinds, QueueStep, EmptiedQueues, QueueUnchanged DEF RTypeOK
<1>3. RTypeOK /\ [RNext]_rvars => RTypeOK'
  BY RTypeStep
<1>. QED
  BY <1>1, <1>2, <1>3, PTL DEF RSpec

(***************************************************************************)
(* The queues of a process that was restarted are in order, stray cabins   *)
(* included: no entry is from before, and none is there twice.             *)
(***************************************************************************)
THEOREM OrderSurvives == RSpec => []QueueOrdered
<1>1. RTypeOK /\ QueueInv => QueueOrdered
  BY OrderedQueues
<1>. QED
  BY <1>1, RQueueKept, PTL

\* Nobody waits in vain, in a process whose orders have their cabins.
RServedInv == ~torn => ServedInv

LEMMA RServedStep ==
  ASSUME RTypeOK, RLockInv, QueueInv, RServedInv, [RNext]_rvars
  PROVE  RServedInv'
<1>. SUFFICES ASSUME ~torn' PROVE ServedInv'
  BY DEF RServedInv
<1>1. CASE [Next]_vars /\ UNCHANGED torn
  <2>1. TypeOK /\ ServedInv /\ Known(orders, cabins)
    BY <1>1 DEF RTypeOK, RServedInv, RLockInv, FileLocked, LockInv, Lock
  <2>. QED
    BY <1>1, <2>1, ServedStep
<1>2. CASE Restart \/ RestartUnread
  BY <1>2, EmptiedQueues
<1>. QED
  BY <1>1, <1>2, RKinds

(***************************************************************************)
(* Whoever is queued after a restart waits in the queue of a cabin that is *)
(* held, by an order from before the restart or not, so that someone will  *)
(* pass it on; unless a start read an order without its cabin.             *)
(***************************************************************************)
THEOREM QueuesSurvive ==
  ASSUME ~StrayCabins PROVE RSpec => []RestartKeepsQueues
<1>1. RInit => RServedInv
  BY NoQueues DEF RInit, Init, RServedInv, ServedInv
<1>2. RTypeOK /\ RLockInv /\ QueueInv /\ RServedInv /\ [RNext]_rvars => RServedInv'
  BY RServedStep
<1>3. QueueInv /\ RServedInv => RestartKeepsQueues
  BY OrderedQueues, ServedQueues DEF RServedInv, RestartKeepsQueues
<1>. QED
  BY <1>1, <1>2, <1>3, RLockKept, RQueueKept, PTL DEF RSpec
=============================================================================
