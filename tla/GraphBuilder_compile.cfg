SPECIFICATION Spec
CONSTANTS
  NodeID <- MCNodeID
  Starts <- MCStarts
  Options <- MCOptions
  MaxProcs = 2
  MaxCalls = 3
INVARIANTS
  TypeOK
  RunnableOnceCompiled
  AcceptsExactlyValid
  AcyclicIsExact
