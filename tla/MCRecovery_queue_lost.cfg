\* After a restart the queues are empty and queued orders are stuck.
CONSTANTS
  CabinIds = {c1}
  SKUs = {}
  OrderTypes = {"inspection", "maintenance"}
  Urgencies = {2}
  Quantities = {}
  StockLevels = {}
  StrayCabins = FALSE
  ClockRuns = TRUE
  Observed = {}
  MaxOrders = 2
  MaxReqs = 0
  MaxStock = 0
  MaxBehind = 0
SPECIFICATION RSpec
INVARIANTS
  QueuedOrderIsInQueue
CHECK_DEADLOCK FALSE
