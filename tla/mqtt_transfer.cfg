SPECIFICATION FairSpec
CONSTANTS
  Sizes = {128, 1024}
  Iterations = 1
  MaxOps = 4
  FirstId = 10
  IdSpace = 20
  MaxAltered = 1
INVARIANTS
  FailsOnlyOnFault
  IdsValid
PROPERTIES
  RoundAgrees
  RoundEnds
