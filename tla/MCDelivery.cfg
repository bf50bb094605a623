\* Messages of two queues through losses in the middle of anything.
CONSTANTS
  q1 = q1
  q2 = q2
  m1 = m1
  m2 = m2
  m3 = m3
  Queues = {q1, q2}
  Backlog <- TwoQueues
  Size <- Sizes
  Poison = {m3}
  Modes <- AsDocumented
  MaxLosses = 1
  MaxRequeues = 1
  None = None
SPECIFICATION FairSpec
INVARIANTS TypeOK HandedOverWholeOnce AtLeastOnceUntilMisled
 
CHECK_DEADLOCK FALSE
