\* Every misfortune, late events of superseded sockets included.
CONSTANTS
  ChannelCount = 1
  CallbackChannels <- FirstChannel
  ImplOptions <- OptionRecords
  BackoffTime = 2
  Limit = 3
  Faults <- FaultKinds
  MaxLosses = 2
  MaxSockets = 3
SPECIFICATION Spec
INVARIANTS TypeOK OneAtATime
PROPERTY BackoffIsDocumented
CHECK_DEADLOCK FALSE
