\* A message whose sending raises, a reminder and a message, two requests.
SPECIFICATION FairSpec
CONSTANTS
  Ids = {1, 2, 3}
  Reminders = {2}
  Poison = {1}
  Requests = {r1, r2}
  Nobody = Nobody
  Worker = Worker
  MaxVersion = 1
  MaxFaults = 1
INVARIANT TypeOK
PROPERTIES
  ImplementsScheduledOnce
  DueGetsHandled
CHECK_DEADLOCK FALSE
