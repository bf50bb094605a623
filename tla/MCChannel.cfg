\* The queue of tasks through losses, refusals, closes and timeouts.
CONSTANTS
  t1 = t1
  t2 = t2
  t3 = t3
  t4 = t4
  Task <- FourTasks
  ReplyOf <- FourReplies
  NoReply = NoReply
  Timed = {t2}
  Faults <- FaultKinds
  MaxLosses = 2
SPECIFICATION FairSpec
INVARIANTS TypeOK   FulfilledMeansDoneUntilLoss
PROPERTIES  EveryPromiseFires
CHECK_DEADLOCK FALSE
