SPECIFICATION FacadeSpec
CONSTANTS
  w1 = w1  watcher = watcher  loop = loop  a = a  b = b
  Threads = {w1, loop}
  Does <- AwaitedDoes
  Trees = {a, b}  Valid = {a, b}
  MaxStaged = 4  MaxHooks = 2  MaxLoads = 3
  OneAtATime = TRUE  LateRefusals = FALSE  Awaited = TRUE
  Midway = FALSE
  NoTree = NoTree  NoDoc = NoDoc
INVARIANTS ReadsAreInForce
CHECK_DEADLOCK FALSE
