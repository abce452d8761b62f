CONSTANTS
  NChunks = 2
  MaxCalls = 4
  MaxControl = 1
  CtlFragments = 2
  MaxRetries = 1
  LateCompletion = TRUE
SPECIFICATION TxFairSpec
INVARIANTS
  BufferOneOwner
  InOrder
PROPERTIES
  CallsReturn
