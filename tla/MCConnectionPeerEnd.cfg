\* The peer ends the stream: no attempt is made.
CONSTANTS
  ChannelCount = 1
  CallbackChannels <- NoChannels
  ImplOptions <- DefaultOptions
  BackoffTime = 1
  Limit = 1
  Faults <- PeerEndsIt
  MaxLosses = 1
  MaxSockets = 3
SPECIFICATION FairSpec
PROPERTY Recovers
CHECK_DEADLOCK FALSE
