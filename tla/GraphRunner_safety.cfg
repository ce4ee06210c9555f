SPECIFICATION Spec
CONSTANTS
  NodeID <- MCNodeID
  Runners <- MCRunners
  Waiters = {}
  MaxCalls = 2
INVARIANTS
  TypeOK
  ReadsCommitted
  SortedFanIn
  WholeSuperSteps
  RootCause
  NoStragglers
  StepBound
  OneLineage
  RedoBound
  FollowsBranchesInOneCall
PROPERTY
  AtomicSuperSteps
