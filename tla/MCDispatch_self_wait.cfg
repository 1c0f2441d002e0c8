\* An escalated order that holds the cabin enters it again.
CONSTANTS
  CabinIds = {c1}
  SKUs = {}
  OrderTypes = {"maintenance"}
  Urgencies = {2}
  Quantities = {}
  StockLevels = {}
  StrayCabins = FALSE
  ClockRuns = TRUE
  Observed = {}
  MaxOrders = 1
  MaxReqs = 0
  MaxStock = 0
SPECIFICATION Spec
INVARIANTS
  NoOrderWaitsForItself
CHECK_DEADLOCK FALSE
