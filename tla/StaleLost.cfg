SPECIFICATION Spec
CONSTANTS
  w1 = w1  w2 = w2  watcher = watcher  loop = loop  a = a  b = b  c = c
  Threads = {w1, loop}
  Does <- GroupDoes
  Trees = {a, b}  Valid = {a, b}
  MaxStaged = 4  MaxHooks = 1  MaxLoads = 4
  OneAtATime = TRUE  LateRefusals = FALSE  Awaited = TRUE
  NoTree = NoTree  NoDoc = NoDoc
PROPERTIES ReloadIsPublished
CHECK_DEADLOCK FALSE
