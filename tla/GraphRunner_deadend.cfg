SPECIFICATION Spec
CONSTANTS
  NodeID <- MCNodeID
  Runners <- MCDeadEndRunners
  Waiters = {}
  MaxCalls = 1
INVARIANT
  NoDeadEndRouted
