\* One queue of any timeout, two handlers, under the fairness of the event loop.
SPECIFICATION FairSpec
CONSTANTS
  Users = {u1}
  QueueIds = {q1}
  Messages = {}
  NoQueue = NoQueue
  NoMessage = NoMessage
  Kinds <- TimeoutKinds
  FirstHandlerId = 1
  MaxHandlerId = 2
  MaxPending = 1
  MaxDeletes = 1
  MaxRestarts = 0
PROPERTIES
  PollEnds
  AbandonedQueueCollected
