SPECIFICATION Spec
CONSTANTS
  w1 = w1  w2 = w2  watcher = watcher  loop = loop  a = a  b = b  c = c
  Threads = {w1, watcher}
  Does <- WatchedDoes
  Trees = {a, b}  Valid = {a, b}
  MaxStaged = 4  MaxHooks = 1  MaxLoads = 4
  OneAtATime = FALSE  LateRefusals = FALSE  Awaited = FALSE
  NoTree = NoTree  NoDoc = NoDoc
PROPERTIES ReloadIsPublished
CHECK_DEADLOCK FALSE
