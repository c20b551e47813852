SPECIFICATION FairSpec

CONSTANTS
  w1 = w1
  w2 = w2
  timer = timer
  socket = socket
  Workers = {w1, w2}
  Weight <- MCWeight
  DEFAULT_QUEUE_SIZE = 2
  DEFAULT_SLOT_SIZE = 1
  HANDLE_MASK = 7
  MaxHandles = 2
  MaxSends = 2

INVARIANTS
  ReferencesCounted
  HandlesFound
  QueueInOnePlace
  Assertions

PROPERTIES
  QueuesAreFifo
  EveryMessageTaken
  DeadQueueFreed
  NodeEnds

\* The node ends, or the bounds stop it.
CHECK_DEADLOCK FALSE
