\* Contents there and back, in chunks that cut a frame anywhere.
CONSTANTS
  ByteBits = 3
  FrameEnd = 6
  Heartbeat = 4
  Chunks = {1, 60}
  MaxFrame = 41
  Contents <- EachContent
  MaxContents = 2
  FlawsSent = {"type", "size", "end"}
SPECIFICATION Spec
INVARIANTS TypeOK Understood FramingKept 
PROPERTY ImplementsFrameStream
CHECK_DEADLOCK FALSE
