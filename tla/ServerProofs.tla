----------------------------- MODULE ServerProofs -----------------------------
(***************************************************************************)
(* Theorems about the process, for any cabins, orders, parts and number of *)
(* requests: nothing the process adds around the orchestrator breaks what  *)
(* the orchestrator keeps, and every order under creation has its request. *)
(***************************************************************************)
EXTENDS Server, QueueProofs, FiniteSetTheorems

-----------------------------------------------------------------------------
(***************************************************************************)
(* What a step does to the orders under creation.                          *)
(***************************************************************************)
LEMMA CallsKeepCreating ==
  ASSUME Calls \/ Checks \/ Unsaved \/ Registrations \/ Clock \/ UNCHANGED vars
  PROVE  creating' = creating
BY ZenonT(60) DEF Calls, Checks, Unsaved, Registrations, Clock, vars,
   DetectAnomaly, ReportAnomaly, AuthorizeMaintenance, EnterCabin, RequestParts,
   ConfirmParts, EmergencyProcurement, CompleteRepair, RequestRestoration,
   ApproveRestoration, InterruptApproval, RecheckComplete, Step,
   FailPartsRequisition, EscalateOrder, ResumeFromEscalation, CloseOrder,
   CancelOrder, Leave, CheckAnomalyDeadlines, CheckMaintenanceTimeouts,
   RejectAuthorization, RegisterCabin, RegisterPart, DeadlinePasses

LEMMA CreationsAddOne ==
  ASSUME TypeOK, Creations
  PROVE  \E n : n \notin creating /\ creating' = creating \cup {n}
<1>1. PICK type \in OrderTypes, c \in CabinIds, p \in Urgencies : Create(type, c, p)
  BY DEF Creations
<1>2. Len(orders) + 1 \notin OrderIds
  BY <1>1, CreateStep
<1>. QED
  BY <1>1, <1>2 DEF Create, TypeOK

LEMMA PlaceRemovesOne ==
  ASSUME NEW w, Place(w)
  PROVE  w \in creating /\ creating' = creating \ {w}
BY DEF Place, PlaceInspection, PlaceMaintenance

-----------------------------------------------------------------------------
(***************************************************************************)
(* The inductive invariant.                                                *)
(***************************************************************************)
\* Every order under creation has a request of its own in flight.
RequestsInv ==
  /\ IsFiniteSet(creating)
  /\ inflight \in Nat
  /\ Cardinality(creating) <= inflight
  /\ inflight <= MaxRequests

ProcessInv ==
  /\ main \in {"starting", "serving", "exited"}
  /\ signal \in {"none", "waiting", "draining", "stopping", "stopped"}
  /\ loop \in {"none", "select", "anomalies", "timeouts", "done"}
  /\ cancelled \in BOOLEAN

\* What each step of the process does to the rest.
LEMMA ServerSteps ==
  ASSUME SNext
  PROVE  \/ [Next]_vars
         \/ Init'
<1>1. CASE Exit
  BY <1>1 DEF Exit, Init
<1>2. CASE Start \/ SelectTick \/ SelectDone \/ Accept \/ Signal \/ StopCancels \/ StopReturns
  BY <1>2 DEF Start, SelectTick, SelectDone, Accept, Signal, StopCancels, StopReturns
<1>3. CASE LoopAnomalies \/ LoopTimeouts
  <2>1. Checks \/ UNCHANGED vars
    BY <1>3 DEF LoopAnomalies, LoopTimeouts, Checks
  <2>. QED
    BY <2>1 DEF Next, Persisting
<1>4. CASE Handle \/ HandleCreation \/ TimePasses
  <2>1. Calls \/ Unsaved \/ Registrations \/ Creations \/ Clock \/ UNCHANGED vars
    BY <1>4 DEF Handle, HandleCreation, TimePasses
  <2>. QED
    BY <2>1 DEF Next, Persisting, Outside
<1>5. ASSUME NEW w \in 1..MaxOrders, FinishCreation(w) PROVE Next
  BY <1>5 DEF FinishCreation, Next, Persisting
<1>. QED
  BY <1>1, <1>2, <1>3, <1>4, <1>5 DEF SNext

LEMMA ProcessStep ==
  ASSUME ProcessInv, [SNext]_svars
  PROVE  ProcessInv'
BY DEF ProcessInv, SNext, svars, process, Start, Exit,
   SelectTick, SelectDone, LoopAnomalies, LoopTimeouts, Accept, Handle,
   HandleCreation, TimePasses, FinishCreation, Signal, StopCancels, StopReturns

LEMMA RequestsStep ==
  ASSUME TypeOK, RequestsInv, [SNext]_svars
  PROVE  RequestsInv'
<1>. USE DEF RequestsInv
<1>1. CASE Exit
  <2>1. creating' = {} /\ inflight' = 0
    BY <1>1 DEF Exit
  <2>2. IsFiniteSet(creating') /\ Cardinality(creating') = 0
    BY <2>1, FS_EmptySet
  <2>. QED
    BY <2>1, <2>2, MaxRequestsAssumption
<1>2. CASE Start \/ SelectTick \/ SelectDone \/ Signal \/ StopCancels \/ StopReturns
           \/ UNCHANGED svars
  BY <1>2 DEF Start, SelectTick, SelectDone, Signal, StopCancels, StopReturns, svars, vars
<1>3. CASE LoopAnomalies \/ LoopTimeouts \/ TimePasses
  <2>1. (Checks \/ Clock \/ UNCHANGED vars) /\ inflight' = inflight
    BY <1>3 DEF LoopAnomalies, LoopTimeouts, TimePasses, Checks
  <2>. QED
    BY <2>1, CallsKeepCreating
<1>4. CASE Accept
  <2>1. /\ inflight < MaxRequests /\ inflight' = inflight + 1
        /\ creating' = creating
    BY <1>4 DEF Accept, vars
  <2>2. Cardinality(creating) \in Nat
    BY FS_CardinalityType
  <2>. QED
    BY <2>1, <2>2, MaxRequestsAssumption
<1>5. CASE Handle
  <2>1. /\ Calls \/ Unsaved \/ Registrations \/ UNCHANGED vars
        /\ Unhandled > 0
        /\ inflight' = inflight - 1
    BY <1>5 DEF Handle
  <2>2. creating' = creating
    BY <2>1, CallsKeepCreating
  <2>3. Cardinality(creating) \in Nat
    BY FS_CardinalityType
  <2>. QED
    BY <2>1, <2>2, <2>3, MaxRequestsAssumption DEF Unhandled
<1>6. CASE HandleCreation
  <2>1. Unhandled > 0 /\ inflight' = inflight /\ Creations
    BY <1>6 DEF HandleCreation
  <2>2. PICK n : n \notin creating /\ creating' = creating \cup {n}
    BY <2>1, CreationsAddOne
  <2>3. /\ IsFiniteSet(creating')
        /\ Cardinality(creating') = Cardinality(creating) + 1
        /\ Cardinality(creating) \in Nat
    BY <2>2, FS_AddElement, FS_CardinalityType
  <2>. QED
    BY <2>1, <2>3 DEF Unhandled
<1>7. ASSUME NEW w \in 1..MaxOrders, FinishCreation(w) PROVE RequestsInv'
  <2>1. w \in creating /\ creating' = creating \ {w} /\ inflight' = inflight - 1
    BY <1>7, PlaceRemovesOne DEF FinishCreation
  <2>2. /\ IsFiniteSet(creating')
        /\ Cardinality(creating') = Cardinality(creating) - 1
        /\ Cardinality(creating) \in Nat /\ Cardinality(creating') \in Nat
    BY <2>1, FS_RemoveElement, FS_CardinalityType
  <2>. QED
    BY <2>1, <2>2, MaxRequestsAssumption
<1>. QED
  BY <1>1, <1>2, <1>3, <1>4, <1>5, <1>6, <1>7 DEF SNext

LEMMA ServerInvariant == SSpec => [](TypeOK /\ RequestsInv /\ ProcessInv)
<1>. DEFINE SInv == TypeOK /\ RequestsInv /\ ProcessInv
<1>1. SInit => SInv
  <2>1. SInit => RequestsInv
    BY FS_EmptySet, MaxRequestsAssumption DEF SInit, Init, RequestsInv
  <2>2. SInit => ProcessInv
    BY DEF SInit, ProcessInv
  <2>. QED
    BY <2>1, <2>2, TypeInit DEF SInit
<1>2. SInv /\ [SNext]_svars => SInv'
  <2>1. ASSUME TypeOK, [SNext]_svars PROVE TypeOK'
    <3>1. Init' => TypeOK'
      BY TypeInit, PTL
    <3>2. [Next]_vars \/ Init'
      BY <2>1, ServerSteps DEF svars
    <3>. QED
      BY <2>1, <3>1, <3>2, TypeStep
  <2>. QED
    BY <2>1, RequestsStep, ProcessStep
<1>. HIDE DEF SInv
<1>3. SSpec => []SInv
  BY <1>1, <1>2, PTL DEF SSpec
<1>. QED
  BY <1>3 DEF SInv

(***************************************************************************)
(* The process is well typed, and no request is answered while the order   *)
(* it creates is still to be placed.                                       *)
(***************************************************************************)
THEOREM ServerTyped == SSpec => []STypeOK
<1>1. TypeOK /\ RequestsInv /\ ProcessInv => STypeOK
  <2>1. RequestsInv => inflight \in Cardinality(creating)..MaxRequests
    BY FS_CardinalityType, MaxRequestsAssumption DEF RequestsInv
  <2>. QED
    BY <2>1 DEF ProcessInv, STypeOK
<1>. QED
  BY <1>1, ServerInvariant, PTL

-----------------------------------------------------------------------------
(***************************************************************************)
(* What the orchestrator keeps, the process keeps: all its invariants, at  *)
(* once.                                                                   *)
(***************************************************************************)
RegisteredInv == LockInv /\ FrozenInv /\ ServedInv

OrchestratorInv ==
  /\ TypeOK /\ OrderInv /\ OwnerInv /\ Balanced(inv) /\ StatusAgrees /\ QueueInv /\ CompleteInv
  /\ ~StrayCabins => RegisteredInv

LEMMA OrchestratorInit == Init => OrchestratorInv
<1>1. Init => OwnerInv /\ StatusAgrees /\ FrozenInv /\ ServedInv
  BY NoQueues DEF Init, OwnerInv, Inv!EmptyInventory, StatusAgrees, FrozenInv, OrderIds, ServedInv
<1>2. Init => Balanced(inv)
  BY EmptyBalanced DEF Init
<1>. QED
  BY <1>1, <1>2, TypeInit, OrderInit, QueueInit, LockInit DEF OrchestratorInv, RegisteredInv

LEMMA OrchestratorStep ==
  ASSUME OrchestratorInv, [Next]_vars
  PROVE  OrchestratorInv'
<1>1. TypeOK' /\ OrderInv' /\ OwnerInv' /\ Balanced(inv)' /\ StatusAgrees' /\ QueueInv' /\ CompleteInv'
  BY TypeStep, OrderStep, OwnerStep, StepBalanced, CabinsStep, QueueStep DEF OrchestratorInv
<1>2. ASSUME ~StrayCabins PROVE RegisteredInv'
  <2>1. RegisteredInv /\ Known(orders, cabins)
    BY <1>2 DEF OrchestratorInv, RegisteredInv, LockInv, Lock
  <2>. QED
    BY <1>2, <2>1, LockStep, FrozenStep, ServedStep DEF OrchestratorInv, RegisteredInv
<1>. QED
  BY <1>1, <1>2 DEF OrchestratorInv

LEMMA OrchestratorInProcess == SSpec => []OrchestratorInv
<1>1. SInit => OrchestratorInv
  BY OrchestratorInit DEF SInit
<1>2. OrchestratorInv /\ [SNext]_svars => OrchestratorInv'
  <2>1. Init' => OrchestratorInv'
    BY OrchestratorInit, PTL
  <2>2. [SNext]_svars => [Next]_vars \/ Init'
    BY ServerSteps DEF svars
  <2>. QED
    BY <2>1, <2>2, OrchestratorStep
<1>. QED
  BY <1>1, <1>2, PTL DEF SSpec

(***************************************************************************)
(* No two orders are at work in one cabin in the process either, whatever  *)
(* the scheduler, the requests and the shutdown do at the same time.       *)
(***************************************************************************)
THEOREM ServerExclusion == ASSUME ~StrayCabins PROVE SSpec => []Exclusion
<1>1. OrchestratorInv => Exclusion
  BY LockExcludes DEF OrchestratorInv, RegisteredInv
<1>. QED
  BY <1>1, OrchestratorInProcess, PTL

(***************************************************************************)
(* Nor does the process let a repair go on without its signed parts, or    *)
(* lose track of what is reserved and for whom.                            *)
(***************************************************************************)
THEOREM ServerParts ==
  SSpec => [](/\ RepairHasSignedParts
              /\ ReservationHasOwner
              /\ ReservedIsPending)
<1>1. OrchestratorInv => RepairHasSignedParts
  BY SignedParts DEF OrchestratorInv
<1>2. OrchestratorInv => ReservationHasOwner
  BY DEF OrchestratorInv, OwnerInv, ReservationHasOwner, Settled, Awaiting, ForParts
<1>3. OrchestratorInv => ReservedIsPending
  BY BalancedReserved DEF OrchestratorInv
<1>. QED
  BY <1>1, <1>2, <1>3, OrchestratorInProcess, PTL

(***************************************************************************)
(* In the process too a maintenance order enters by way of an accepted     *)
(* authorization; when it exits, its memory and the orders are gone.       *)
(***************************************************************************)
THEOREM ServerAuthorization == SSpec => MaintenanceIsAuthorized
<1>1. TypeOK /\ [SNext]_svars => [\A w \in OrderIds' : EntersByAuthorization(w)]_vars
  <2>1. Init' => OrderIds' = {}
    BY DEF Init, OrderIds
  <2>2. [SNext]_svars => [Next]_vars \/ Init'
    BY ServerSteps DEF svars
  <2>. QED
    BY <2>1, <2>2, StepAdmits
<1>. QED
  BY <1>1, OrchestratorInProcess, PTL DEF SSpec, MaintenanceIsAuthorized, OrchestratorInv

(***************************************************************************)
(* However requests and ticks come, the queues of the process are sorted   *)
(* and complete, and no order waits for a cabin that is free.              *)
(***************************************************************************)
THEOREM ServerQueues ==
  ASSUME ~StrayCabins
  PROVE  SSpec => [](QueueOrdered /\ QueuedOrderIsInQueue /\ NoWaitingForFreeCabin)
<1>1. OrchestratorInv => QueueOrdered /\ QueuedOrderIsInQueue /\ NoWaitingForFreeCabin
  BY OrderedQueues, CompleteQueues, ServedQueues DEF OrchestratorInv, RegisteredInv
<1>. QED
  BY <1>1, OrchestratorInProcess, PTL

(***************************************************************************)
(* In the process too an order at work holds its cabin, the status of a    *)
(* cabin says what is going on in it, and an open anomaly keeps it off the *)
(* grid.                                                                   *)
(***************************************************************************)
THEOREM ServerCabins ==
  ASSUME ~StrayCabins
  PROVE  SSpec => [](WorkingOrderHoldsItsCabin /\ StatusAgrees /\ FrozenWhileAnomalyOpen)
<1>1. OrchestratorInv => WorkingOrderHoldsItsCabin
  BY DEF OrchestratorInv, RegisteredInv, LockInv, Lock, Held, WorkingOrderHoldsItsCabin,
     OrderIds
<1>2. OrchestratorInv => StatusAgrees
  BY DEF OrchestratorInv
<1>3. OrchestratorInv => FrozenWhileAnomalyOpen
  BY DEF OrchestratorInv, RegisteredInv, FrozenInv, FrozenWhileAnomalyOpen
<1>. QED
  BY <1>1, <1>2, <1>3, OrchestratorInProcess, PTL
=============================================================================
