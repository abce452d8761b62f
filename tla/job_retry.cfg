CONSTANTS
  MaxJobs = 2
  Retries = 1
  MaxLines = 2
SPECIFICATION JobFairSpec
INVARIANTS
  SuccessIsOwn
  ArmedAfterOwnResult
PROPERTIES
  EveryJobEnds
