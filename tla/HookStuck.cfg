SPECIFICATION FairSpec
CONSTANTS
  MaxInstalls = 3
PROPERTIES NewestIsKept
CHECK_DEADLOCK FALSE
