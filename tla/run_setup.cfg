SPECIFICATION Spec
CONSTANTS
  RootOf <- MCRootOf
  HashRoots = {3}
  Flash = 12
  Base <- MCBase
  Extra <- MCExtra
  Margin = 2
  Sizes <- MCSizes
  Cached = {{1}}
  Backends = {"auto", "openssl"}
  MaxStarts = 2
  MaxSrc = 2
  ProbeFaults = FALSE
INVARIANTS
  BlockOnItsImage
  PlanFits
  PlanPartitions
  Restored
