SPECIFICATION FairSpec
CONSTANTS
  m1 = m1  m2 = m2  c1 = c1  c2 = c2  c3 = c3  c4 = c4  a = a  b = b
  Members = {m1, m2}
  Order <- InOrder
  Calls = {c1, c2, c3}
  Atomic = {c1, c2}
  Trees = {a}
  Refusals = TRUE  Awaited = FALSE
  Watched = {m1}  MaxWatches = 2
  NoTree = NoTree
INVARIANTS TypeOK CommitsFindTheirTokens
PROPERTIES RefusalLeavesEverything EveryCallEnds
CHECK_DEADLOCK FALSE
