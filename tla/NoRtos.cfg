SPECIFICATION Spec
CONSTANTS
  a = a
  b = b
  n1 = n1
  n2 = n2
  NoTask = NoTask
  Nodes = {n1}
  Tasks <- TwoTasks
  NodeOf <- OnOneNode
  IdMax = 3
  MaxTimeout = 2
  TxOptions = {TRUE, FALSE}
  ChecksTaskPending = TRUE
  FreshIds = TRUE
INVARIANTS
  TypeOK
  AssertHolds
  TaskPendingExact
  ResponseExact
PROPERTIES
  ImplementsAckedPublishSafety
  ImplementsAckedPublish
