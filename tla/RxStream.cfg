SPECIFICATION Spec
CONSTANTS
  NumFrames = 4
  FrameLength = 3
  BufferSize = 5
  MaxLost = 2
  Unexpected = {2}
  RejectOptions = {TRUE, FALSE}
INVARIANTS
  TypeOK
  InOrderOnce
  Recovers
  NoSilentDrop
PROPERTY Drains
