SPECIFICATION Spec
CONSTANTS
  Chunks <- MCChunks
  Conversations <- MCConversations
  Requests <- MCRequests
  Configured = 2
  MaxInt32 = 3
  MaxChunks <- MCMaxChunks
INVARIANTS
  EventsTellAll
  AsGenerated
  TurnsCarryOver
