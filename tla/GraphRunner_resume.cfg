SPECIFICATION Spec
CONSTANTS
  NodeID <- MCNodeID
  Runners <- MCResumeRunners
  Waiters = {}
  MaxCalls = 2
INVARIANT
  FollowsBranches
