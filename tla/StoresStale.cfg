SPECIFICATION Spec
CONSTANTS
  Fetches = {"f1"}  WatchTask = "watch"
  MaxRotations = 1
INVARIANTS WatchCarriesCurrent
CHECK_DEADLOCK FALSE
