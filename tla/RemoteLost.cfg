SPECIFICATION Spec
CONSTANTS
  Calls = {r1, r2}  MaxStores = 1
INVARIANTS FetchedIsHandedOver
CHECK_DEADLOCK FALSE
