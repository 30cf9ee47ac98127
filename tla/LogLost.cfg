SPECIFICATION Spec
CONSTANTS
  Emitters = {"watcher", "worker"}
  MaxLines = 2
INVARIANTS NoLineIsLost
CHECK_DEADLOCK FALSE
