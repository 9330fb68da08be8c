SPECIFICATION Spec
CONSTANTS
  TIMEOUT = 8000
  MIN_TIMEOUT = 8000
  MAX_TIMEOUT = 80000
  TIME_UNIT = 4000
  MAX_ERRORS = 25
  Tick = 3333
INVARIANTS CommandsWaitForever TimeoutInRange TimeoutFollowsErrors SilenceIsBounded
