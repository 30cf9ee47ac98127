SPECIFICATION Spec
CONSTANTS
  w1 = w1  w2 = w2  watcher = watcher  loop = loop  a = a  b = b  c = c
  Threads = {w1, watcher, loop}
  Does <- OverlapDoes
  Trees = {a, b}  Valid = {a, b}
  MaxStaged = 4  MaxHooks = 2  MaxLoads = 3
  OneAtATime = FALSE  LateRefusals = FALSE  Awaited = FALSE
  NoTree = NoTree  NoDoc = NoDoc
INVARIANTS NothingLeftBehind NewestIsAnnounced
CHECK_DEADLOCK FALSE
