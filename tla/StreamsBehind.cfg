SPECIFICATION Spec
CONSTANT MaxReloads = 2
INVARIANTS LastIsInForce
CHECK_DEADLOCK FALSE
