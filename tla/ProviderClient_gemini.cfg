SPECIFICATION Spec
CONSTANTS
  Chunks <- GeminiChunks
  Conversations <- MCConversations
  Requests <- MCRequests
  Configured = 2
  MaxInt32 = 3
  MaxChunks <- MCMaxChunks
INVARIANT
  SameAsGenerate
