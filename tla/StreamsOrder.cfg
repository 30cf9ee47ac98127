SPECIFICATION Spec
CONSTANT MaxReloads = 2
INVARIANTS RefusalComesFirst
CHECK_DEADLOCK FALSE
