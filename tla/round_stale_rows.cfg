SPECIFICATION FairSpec
CONSTANTS
  Ops = 2
  Retries = 1
  Prompt = {"controller", "collect", "capture"}
INVARIANTS
  RowOfItsTry
