SPECIFICATION Spec
CONSTANTS
  NodeID <- MCNodeID
  Runners <- MCLiveRunners
  Waiters <- MCWaiters
  MaxCalls = 2
PROPERTIES
  CallReturns
  FailFast
