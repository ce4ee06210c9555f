SPECIFICATION Spec
CONSTANTS
  a = a
  b = b
  t = t
  u = u
  NodeID <- MCNodeID
  Caller <- MCCaller
  Thread <- MCThread
  Runners <- MCRunners
  Plans <- MCPlans
INVARIANTS
  TypeOK
  DeliveredInOrder
  VerdictArrives
  SavedBeforeShown
  NoLostSave
PROPERTY
  StreamEnds
