CONSTANTS
  ACTIVE_MIN_DELAY = 1
  ACTIVE_MAX_DELAY = 4
  INACTIVE_MIN_DELAY = 2
  INACTIVE_MAX_DELAY = 6
  ATTEMPT_TIMEOUT = 2
  MaxUris = 2
SPECIFICATION FairSpec
INVARIANTS TypeOK OrphansAreClosing NeverIdle OnlineHasItsSocket
PROPERTIES MinDelayHonoured ClosedForGood KeepsTrying
