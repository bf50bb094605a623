\* The connection and its channels come back after losses that leave nothing of
\* the old socket behind.
CONSTANTS
  ChannelCount = 2
  CallbackChannels <- FirstChannel
  ImplOptions <- OptionRecords
  BackoffTime = 1
  Limit = 1
  Faults <- CleanFaults
  MaxLosses = 3
  MaxSockets = 5
SPECIFICATION FairSpec
INVARIANTS OpenIsReal ReadyMeansHandshaken
PROPERTY Recovers
CHECK_DEADLOCK FALSE
