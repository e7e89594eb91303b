\* Lost polls, a restart and a crash, under fairness; nothing delivered twice.
SPECIFICATION FairSpec
CONSTANTS
  MAX_REQUEST_RETRIES = 1
  MaxEvents = 3
  MaxRedeliveries = 0
  MaxFailures = 0
  MaxGiveUps = 2
  MaxRestarts = 1
  MaxCrashes = 1
  MaxWindow = 0
  NoQueue = NoQueue
INVARIANT TypeOK
INVARIANT PollNeverRefused
PROPERTY ImplementsReliableEvents
PROPERTY Delivered
CHECK_DEADLOCK FALSE
