SPECIFICATION Spec
CONSTANTS
  a1 = a1
  r1 = r1
  a2 = a2
  r2 = r2
  NoThread = NoThread
  Threads1 <- ApplicationAndRx1
  Threads2 <- OnlyRx2
  rxThread1 = r1
  rxThread2 = r2
  MaxPendingAcks1 = 1
  MaxPendingAcks2 = 1
  IdMax = 2
  Platform = "std"
  SpuriousWakeups = FALSE
  TxAttached = TRUE
  FreshIds = TRUE
  MaxMessages = 1
INVARIANTS
  NothingLost
  AckComesFirst
  NotAckedInCallback
PROPERTIES
  NodesImplementPublishWait
  EveryoneGoesOn
