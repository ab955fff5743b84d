SPECIFICATION SafetySpec
CONSTANTS
  NumFrames = 4
  FrameLength = 3
  BufferSize = 4
  MaxLost = 1
  Unexpected = {}
  RejectOptions = {FALSE}
INVARIANT UndamagedDelivered
