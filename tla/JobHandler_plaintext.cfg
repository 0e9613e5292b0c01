SPECIFICATION Spec
CONSTANTS
  j1 = j1
  j2 = j2
  k1 = k1
  r1 = r1
  l1 = l1
  o1 = o1
  o2 = o2
  NoJob = NoJob
  NoRequest = NoRequest
  Jobs = {j1}
  Keyframes <- MCKeyframes
  References <- MCReferences
  Loras <- MCLoras
  Outputs = {o1}
  Requests <- MCRequests
  KeepOutputs = TRUE
  OutputMode = "base64"
CHECK_DEADLOCK FALSE
INVARIANT
  EncryptionFailureDeletesPlaintext
