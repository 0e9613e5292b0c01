SPECIFICATION Spec
CONSTANTS
  Outputs = {o1, o2}
  MaxFrames = 3
  Job = j1
  NoJob = NoJob
  NoRequest = NoRequest
\* await_execution returns or raises.
CHECK_DEADLOCK FALSE
PROPERTIES
  Returns
  RefinesAwait
