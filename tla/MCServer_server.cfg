\* The process from its start to its exit, with two orders for one cabin.
CONSTANTS
  CabinIds = {c1}
  SKUs = {}
  OrderTypes = {"inspection", "maintenance"}
  Urgencies = {2}
  Quantities = {}
  StockLevels = {}
  StrayCabins = FALSE
  ClockRuns = TRUE
  Observed = {"anomaly_deadline"}
  MaxOrders = 2
  MaxReqs = 0
  MaxStock = 0
  MaxRequests = 2
SPECIFICATION FairSpec
INVARIANTS
  STypeOK
PROPERTIES
  StopEnds
  OverdueResponseIsEscalated
  OverdueReportIsNotified
  InspectionIsPlaced
CHECK_DEADLOCK FALSE
