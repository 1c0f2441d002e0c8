\* Three orders of both types and two priorities compete for one cabin.
CONSTANTS
  CabinIds = {c1}
  SKUs = {}
  OrderTypes = {"inspection", "maintenance"}
  Urgencies = {2, 4}
  Quantities = {}
  StockLevels = {}
  StrayCabins = FALSE
  ClockRuns = FALSE
  Observed = {}
  MaxOrders = 3
  MaxReqs = 0
  MaxStock = 0
SPECIFICATION Spec
INVARIANTS
  QueueOrdered
  QueuedOrderIsInQueue
  NoWaitingForFreeCabin
PROPERTIES
  AdvanceHonoursPriority
CHECK_DEADLOCK FALSE
