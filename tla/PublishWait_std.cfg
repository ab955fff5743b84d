SPECIFICATION Spec
CONSTANTS
  a = a
  b = b
  c = c
  NoThread = NoThread
  Threads <- ThreeThreads
  MaxPendingAcks = 2
  IdMax = 2
  Platform = "std"
  SpuriousWakeups = FALSE
  TxAttached = TRUE
  FreshIds = TRUE
INVARIANTS
  TypeOK
  EventStaysWithCall
  ResponseMatchesAck
PROPERTIES
  WokenByOwnAck
  PublishWaitReturns
  ImplementsAckedPublishSafety
  ImplementsAckedPublish
