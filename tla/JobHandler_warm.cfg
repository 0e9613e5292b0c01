SPECIFICATION Spec
CONSTANTS
  j1 = j1
  j2 = j2
  k1 = k1
  r1 = r1
  l1 = l1
  o1 = o1
  o2 = o2
  NoJob = NoJob
  NoRequest = NoRequest
  Jobs = {j1, j2}
  Keyframes <- MCKeyframes
  References <- MCReferences
  Loras <- MCLoras
  Outputs = {o1, o2}
  Requests <- MCRequests
  KeepOutputs = FALSE
  OutputMode = "r2"
CONSTRAINT FirstJobFirst
\* The model ends when all jobs are served.
CHECK_DEADLOCK FALSE
INVARIANTS
  TypeOK
  ConfidentialNeverPlain
  DeliveredIsGone
  InputsPurged
  SuccessLeavesNothing
PROPERTIES
  PhasesFallBackOnce
  ImplementsContract
  JobsReturn
