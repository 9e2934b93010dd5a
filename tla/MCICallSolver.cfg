\* Every metadata of three calls and three functions.
CONSTANTS
  Function = {f1, f2, f3}
  Site = {s1, s2, s3}
  Metadata <- MCMetadata
SPECIFICATION SolverSpec
INVARIANTS
  SolverTypeOK
  CallSitesInverse
  KnownMeansCalled
CHECK_DEADLOCK FALSE
