SPECIFICATION Spec
CONSTANTS
  a = a
  b = b
  c = c
  Node <- MCNode
  MaxPayloads = 3
  Setups <- MCSetups
INVARIANTS
  TypeOK
  WholeFold
  RootCause
PROPERTY
  SuperStepEnds
