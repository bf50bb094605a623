\* A priority of 0 reaches the server as something else.
CONSTANTS
  ByteBits = 3
  FrameEnd = 6
  Heartbeat = 4
  Chunks = {60}
  MaxFrame = 41
  Contents <- ZeroPriority
  MaxContents = 1
  FlawsSent = {}
SPECIFICATION Spec
INVARIANT Understood
CHECK_DEADLOCK FALSE
