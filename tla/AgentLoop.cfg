SPECIFICATION Spec
CONSTANTS
  lookup = lookup
  submit = submit
  ToolName <- MCToolName
  Terminal <- MCTerminal
  Requests <- MCRequests
  Usages <- MCUsages
  MaxCalls = 2
  MaxMiddleware = 1
INVARIANTS
  TypeOK
  ConversationAnswered
  WholeTurns
  EffectsReported
  ToolsInOrder
  OffersHold
  StartsWithinLimits
