CONSTANTS
  j1 = j1
  j2 = j2
  j3 = j3
  c1 = c1
  c2 = c2
  p1 = p1
  p2 = p2
  Jobs = {j1, j2, j3}
  Cases = {c1, c2}
  Profiles = {p1, p2}
  CaseOf <- MCCaseOf
  ProfileOf <- MCProfileOf
  NoProfile = NoProfile
  NoOps = NoOps
  TransferMode = TRUE
  TornWrites = TRUE
  StopPoints <- EveryPoint
  MaxStops = 2
SPECIFICATION Spec
INVARIANTS
  TypeOK
  RightFirmware
  SurplusBounded
PROPERTIES
  SummaryFromDisk
  CommitAfterRows
