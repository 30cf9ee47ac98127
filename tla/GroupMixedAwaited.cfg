SPECIFICATION Spec
CONSTANTS
  m1 = m1  m2 = m2  c1 = c1  c2 = c2  c3 = c3  c4 = c4  a = a  b = b
  Members = {m1, m2}
  Order <- InOrder
  Calls = {c1, c2, c3, c4}
  Atomic = {c1, c2, c3, c4}
  Trees = {a, b}
  Refusals = TRUE  Awaited = TRUE
  Watched = {}  MaxWatches = 0
  NoTree = NoTree
INVARIANTS NeverMixed
CHECK_DEADLOCK FALSE
