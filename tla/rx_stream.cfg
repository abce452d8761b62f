CONSTANTS
  PoolCount = 2
  MaxSdu = 3
  MaxRead = 2
  MaxBytes = 8
  MaxSessions = 3
SPECIFICATION FairSpec
INVARIANTS
  ReadsThisSession
  NothingLost
  BuffersConserved
  DrainedIfSeenDown
PROPERTIES
  CreditReturns
