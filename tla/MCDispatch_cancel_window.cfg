\* An inspection cancelled while it is being created keeps the cabin.
CONSTANTS
  CabinIds = {c1}
  SKUs = {}
  OrderTypes = {"inspection"}
  Urgencies = {2}
  Quantities = {}
  StockLevels = {}
  StrayCabins = FALSE
  ClockRuns = TRUE
  Observed = {}
  MaxOrders = 2
  MaxReqs = 0
  MaxStock = 0
SPECIFICATION Spec
INVARIANTS
  FinishedOrderHoldsNoCabin
CHECK_DEADLOCK FALSE
