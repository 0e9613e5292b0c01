SPECIFICATION Spec
CONSTANTS
  Jobs = {1, 2}
  Preload = 0
  PreloadEnabled = FALSE
  Endpoints <- MCDual
  Ladder = 1
  Collectives = 2
  Verbatim = {1}
  SlowAnswers = FALSE
  NoJob = NoJob
CHECK_DEADLOCK FALSE
INVARIANT
  CollectivesMatch
