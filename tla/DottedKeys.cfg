SPECIFICATION Spec
CONSTANTS
  MaxInstalls = 1
  Refreshes = {r1, r2}  MaxStores = 2
  m1 = m1  m2 = m2  Failing = {m1, m2}
  signal = signal  block = block  groupSignal = groupSignal  groupBlock = groupBlock
  b1 = b1  b2 = b2  b3 = b3  p = p  q = q
  Refusals = TRUE  Concurrent = FALSE
  MaxReloads = 1
  Dotted = TRUE  Values = {0}  Nothing = Nothing
INVARIANTS ReportIsExact
CHECK_DEADLOCK FALSE
