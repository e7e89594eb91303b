SPECIFICATION Spec
CONSTANTS
  Requests = {r1, r2, r3, r4}
  Spellings = {title, Title}
  MIN_TOPIC_MESSAGES = 2
  MaxExpiries = 1
  MaxKills = 1
INVARIANT TypeOK
INVARIANT CooldownRespected
INVARIANT NotSilenced
CHECK_DEADLOCK FALSE
