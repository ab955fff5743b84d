SPECIFICATION Spec
CONSTANTS
  a = a
  b = b
  c = c
  NoThread = NoThread
  Threads <- TwoThreads
  MaxPendingAcks = 2
  IdMax = 2
  Platform = "embos"
  SpuriousWakeups = FALSE
  TxAttached = TRUE
  FreshIds = TRUE
INVARIANT TimelyAckSucceeds
PROPERTY PublishWaitReturns
