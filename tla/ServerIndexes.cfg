\* A person with mobile clients and a bot that listens to a narrow;
\* a reload of web clients, a restart.
SPECIFICATION Spec
CONSTANTS
  Users = {u1, u2}
  QueueIds = {q1, q2}
  Messages = {m1}
  NoQueue = NoQueue
  NoMessage = NoMessage
  Kinds <- BotKinds
  FirstHandlerId = 1
  MaxHandlerId = 1
  MaxPending = 1
  MaxDeletes = 0
  MaxRestarts = 1
SYMMETRY QueueSymmetry
VIEW LiveState
INVARIANTS
  IndexesAgree
  NoMissedNotification
