SPECIFICATION Spec
CONSTANTS
  Jobs = {1, 2}
  Preload = 0
  PreloadEnabled = TRUE
  Endpoints <- MCEndpoints
  Ladder = 2
  Collectives = 2
  Verbatim = {1}
  SlowAnswers = FALSE
  NoJob = NoJob
CHECK_DEADLOCK FALSE
INVARIANTS
  TypeOK
  OnlyVerifiedServe
  GroupIsWhole
  FreshJobsMatch
PROPERTY
  JobsEnd
