\* Two default queues of one user, two handlers at a time: polls, supplanting
\* polls, closed connections, a message, sweeps and a DELETE, in every order.
SPECIFICATION Spec
CONSTANTS
  Users = {u1}
  QueueIds = {q1, q2}
  Messages = {m1}
  NoQueue = NoQueue
  NoMessage = NoMessage
  Kinds <- DefaultKinds
  FirstHandlerId = 1
  MaxHandlerId = 2
  MaxPending = 1
  MaxDeletes = 1
  MaxRestarts = 0
SYMMETRY QueueSymmetry
VIEW LiveState
INVARIANTS
  TypeOK
  ConnectedQueueEmpty
  HandlerMapsAgree
  WaitingPollRegistered
  NoMissedNotification
