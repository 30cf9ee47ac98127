SPECIFICATION Spec
CONSTANTS
  w1 = w1  w2 = w2  watcher = watcher  loop = loop  a = a  b = b  c = c
  Threads = {w1, w2, watcher}
  Does <- CrowdDoes
  Trees = {a, b}  Valid = {a, b}
  MaxStaged = 2  MaxHooks = 1  MaxLoads = 3
  OneAtATime = FALSE  LateRefusals = FALSE  Awaited = FALSE
  NoTree = NoTree  NoDoc = NoDoc
INVARIANTS NewestIsAnnounced
CHECK_DEADLOCK FALSE
