\* Every confirm is answered, and none forgotten, across errors, refusals, nacks
\* and blocking.
CONSTANTS
  Message = {p1, p2, p3}
  NoMessage = NoMessage
  Options <- OptionRecords
  Faults <- NetFaults
  MaxLosses = 1
SPECIFICATION FairSpec
INVARIANTS PendingTracked
PROPERTY Answered
CHECK_DEADLOCK FALSE
