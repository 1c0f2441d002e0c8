\* Two orders, in one cabin or two, that inspect and repair, compete for a part and are escalated.
CONSTANTS
  CabinIds = {c1, c2}
  SKUs = {s1}
  OrderTypes = {"inspection", "maintenance"}
  Urgencies = {2}
  Quantities = {1}
  StockLevels = {0, 1}
  StrayCabins = FALSE
  ClockRuns = TRUE
  Observed = {}
  MaxOrders = 2
  MaxReqs = 2
  MaxStock = 1
SYMMETRY CabinSymmetry
SPECIFICATION Spec
INVARIANTS
  TypeOK
  Exclusion
  WorkingOrderHoldsItsCabin
  RepairHasSignedParts
  ReservationHasOwner
  ReservedIsPending
  StatusAgrees
  FrozenWhileAnomalyOpen
PROPERTIES
  MaintenanceIsAuthorized
  ReconnectOnlyByApproval
  ImplementsCabinLock
CHECK_DEADLOCK FALSE
