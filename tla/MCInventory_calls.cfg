\* Two parts and three requisitions, every call in any order.
CONSTANTS
  SKUs = {s1, s2}
  Quantities = {1, 2}
  StockLevels = {0, 2}
  Callers = {w1}
  MaxReqs = 3
  MaxStock = 3
SYMMETRY SKUSymmetry
SPECIFICATION Spec
INVARIANTS
  TypeOK
  ReservedIsPending
  PendingIsCovered
  ConfirmedIsDualSigned
PROPERTIES
  SettledIsFinal
  StockLeavesOnSignature
  NoStockPromisedTwice
CHECK_DEADLOCK FALSE
