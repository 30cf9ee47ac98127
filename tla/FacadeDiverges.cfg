SPECIFICATION FairFacadeSpec
CONSTANTS
  w1 = w1  watcher = watcher  loop = loop  a = a  b = b
  Threads = {watcher, loop}
  Does <- ReplacedDoes
  Trees = {a, b}  Valid = {a, b}
  MaxStaged = 4  MaxHooks = 1  MaxLoads = 2
  OneAtATime = TRUE  LateRefusals = FALSE  Awaited = FALSE
  Midway = FALSE
  NoTree = NoTree  NoDoc = NoDoc
PROPERTIES ReadsCatchUp
CHECK_DEADLOCK FALSE
