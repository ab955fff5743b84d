SPECIFICATION SafetySpec
CONSTANTS
  a = a
  b = b
  c = c
  NoThread = NoThread
  Threads <- ThreeThreads
  MaxPendingAcks = 2
  IdMax = 2
  Platform = "std"
  SpuriousWakeups = TRUE
  TxAttached = TRUE
  FreshIds = FALSE
SYMMETRY ThreadSymmetry
INVARIANTS
  EventTable
  IndexAlwaysFound
  NumThreadsWaitingExact
