CONSTANTS
  NChunks = 3
  MaxCalls = 5
  MaxControl = 2
  CtlFragments = 2
  MaxRetries = 2
  LateCompletion = FALSE
SPECIFICATION TxSpec
INVARIANTS
  StreamIntact
