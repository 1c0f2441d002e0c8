\* An order for a cabin nobody registered yet is resumed into it.
CONSTANTS
  CabinIds = {c1}
  SKUs = {}
  OrderTypes = {"inspection", "maintenance"}
  Urgencies = {2}
  Quantities = {}
  StockLevels = {}
  StrayCabins = TRUE
  ClockRuns = TRUE
  Observed = {}
  MaxOrders = 2
  MaxReqs = 0
  MaxStock = 0
SPECIFICATION Spec
INVARIANTS
  Exclusion
CHECK_DEADLOCK FALSE
