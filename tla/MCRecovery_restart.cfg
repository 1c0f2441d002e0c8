\* Two orders, two cabins, one part, and a process that crashes and restarts.
CONSTANTS
  CabinIds = {c1, c2}
  SKUs = {s1}
  OrderTypes = {"inspection", "maintenance"}
  Urgencies = {2}
  Quantities = {1}
  StockLevels = {1}
  StrayCabins = FALSE
  ClockRuns = FALSE
  Observed = {}
  MaxOrders = 2
  MaxReqs = 1
  MaxStock = 1
  MaxBehind = 1
SYMMETRY CabinSymmetry
SPECIFICATION RSpec
INVARIANTS
  RTypeOK
  FileIsCurrent
  OrderWithoutCabinIsUnplaced
  DiskWorkingOrderHoldsItsCabin
  RestartKeepsParts
  RestartKeepsCabins
  RestartKeepsQueues
PROPERTIES
  FinishedStaysFinished
  SignaturesSurvive
  IdentifiersAreNotReused
CHECK_DEADLOCK FALSE
