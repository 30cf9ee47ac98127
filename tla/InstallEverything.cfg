SPECIFICATION Spec
CONSTANTS
  w1 = w1  w2 = w2  watcher = watcher  loop = loop  a = a  b = b  c = c
  Threads = {w1, w2, loop}
  Does <- EverythingDoes
  Trees = {a, b, c}  Valid = {a, b}
  MaxStaged = 2  MaxHooks = 1  MaxLoads = 4
  OneAtATime = TRUE  LateRefusals = TRUE  Awaited = TRUE
  NoTree = NoTree  NoDoc = NoDoc
INVARIANTS TypeOK NoCandidatePublished PublishedIsValidated
PROPERTIES ImplementsPublication
CHECK_DEADLOCK FALSE
