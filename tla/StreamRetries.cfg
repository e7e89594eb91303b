SPECIFICATION Spec
CONSTANTS
  MAX_REQUEST_RETRIES = 1
  MaxEvents = 2
  MaxRedeliveries = 1
  MaxFailures = 2
  MaxGiveUps = 1
  MaxRestarts = 1
  MaxCrashes = 0
  MaxWindow = 0
  NoQueue = NoQueue
INVARIANT NothingLost
CHECK_DEADLOCK FALSE
