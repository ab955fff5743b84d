SPECIFICATION SafetySpec
CONSTANTS
  a = a
  b = b
  c = c
  NoThread = NoThread
  Threads <- TwoThreads
  MaxPendingAcks = 1
  IdMax = 4
  Platform = "freertos"
  SpuriousWakeups = FALSE
  TxAttached = TRUE
  FreshIds = TRUE
SYMMETRY ThreadSymmetry
INVARIANTS SuccessNeedsAck
