CONSTANTS
  Poppers = {p1}
  Loopers = {l1}
  Waiters = {w1, w2}
  MaxPush = 4
  StreamThreshold = 2
  StreamBytes = 5
  StreamChunk = 2
  StreamEarly = 1
SPECIFICATION QueuesSpec
INVARIANTS QueueInv StreamInv
PROPERTIES QueueSpec Consumed PipeSpec Flows
CHECK_DEADLOCK FALSE
