SPECIFICATION SafetySpec
CONSTANTS
  BlockMax = 3
  RawBytes = {0, 1}
  MaxRaw = 7
  MaxLine = 0
  Builds = {TRUE}
CHECK_DEADLOCK FALSE
INVARIANT LongRoundTrip
