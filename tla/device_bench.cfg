SPECIFICATION FairSpec
CONSTANTS
  Algs = {"a", "b"}
  CaseFiles <- MCCaseFiles
  Iterations = 2
  MaxTorn = 1
  MaxProgress = 1
INVARIANTS
  RowIsOwn
  TimingsExact
  AllRecorded
  LostAfterStaleReady
PROPERTY RunEnds
CHECK_DEADLOCK TRUE
