SPECIFICATION PacketSpec
CONSTANTS
  BlockMax = 7
  RawBytes = {0, 1}
  MaxRaw = 14
  MaxLine = 5
  Builds = {TRUE, FALSE}
  PacketSize = 18
  MaxTopicLength = 2
  MaxData = 8
CHECK_DEADLOCK FALSE
INVARIANTS
  PacketTypeOK
  EncodeInBounds
  DecodesToPrefix
  UniqueZero
  DecodeInBounds
  MessageArrives
PROPERTY PacketDealtWith
