SPECIFICATION Spec
CONSTANTS
  Topics = {x, y}
  MaxTopics = 2
  MaxSubscribers = 3
  MaxId = 3
INVARIANTS AllCallbacksCalled
