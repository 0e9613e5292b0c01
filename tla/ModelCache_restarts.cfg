SPECIFICATION Spec
CONSTANTS
  NumAssets = 3
  Listed = {1, 2}
  Images <- MCImages
  MaxFaults = 3
INVARIANTS
  ServesPinned
  LeavesNoTrace
PROPERTY
  Recovers
\* A worker that serves a complete snapshot has nothing left to do here.
CHECK_DEADLOCK FALSE
