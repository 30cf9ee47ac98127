SPECIFICATION Spec
CONSTANTS
  MaxInstalls = 7
  Refreshes = {r1, r2}  MaxStores = 2
  m1 = m1  m2 = m2  Failing = {m2}
  signal = signal  block = block  groupSignal = groupSignal  groupBlock = groupBlock
  b1 = b1  b2 = b2  b3 = b3  p = p  q = q
  Refusals = TRUE  Concurrent = FALSE
  MaxReloads = 3
  Dotted = FALSE  Values = {0, 1}  Nothing = Nothing
INVARIANTS NoneOutlivesItsLifetime
CHECK_DEADLOCK FALSE
