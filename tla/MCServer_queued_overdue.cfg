\* A queued maintenance order whose response timeout passed.
CONSTANTS
  CabinIds = {c1}
  SKUs = {}
  OrderTypes = {"inspection", "maintenance"}
  Urgencies = {2}
  Quantities = {}
  StockLevels = {}
  StrayCabins = FALSE
  ClockRuns = TRUE
  Observed = {}
  MaxOrders = 2
  MaxReqs = 0
  MaxStock = 0
  MaxRequests = 1
SPECIFICATION FairSpec
PROPERTIES
  OverdueQueuedIsEscalated
CHECK_DEADLOCK FALSE
