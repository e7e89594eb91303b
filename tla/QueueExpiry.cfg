SPECIFICATION ExpirySpec
CONSTANTS
  queue_timeout = 10
  HEARTBEAT_MIN_FREQ = 2
  HEARTBEAT_MAX_FREQ = 3
  RepollDelay = 1
  EventGap = 2
  DontBlock = {FALSE}
INVARIANT ExpiryTypeOK
INVARIANT KeptWhilePolled
INVARIANT KeptAfterwards
