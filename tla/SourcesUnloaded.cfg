SPECIFICATION Spec
CONSTANTS
  Sources = {file, env}
  Misspelt = {}
  Settings = {default}
  Calls = {c1, c2}
INVARIANTS RefusedOnceLoaded
CHECK_DEADLOCK FALSE
