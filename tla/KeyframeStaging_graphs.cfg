SPECIFICATION Spec
CONSTANTS
  v = v
  w = w
  a = a
  b = b
  r = r
  s = s
  Nothing = Nothing
  Roles <- MCRoles
  Videos = {v, w}
  Loaders = {a, b}
  Others = {r, s}
  Workflows <- MCWorkflows
  Requests <- MCRequests
\* stage_input_assets returns or raises.
CHECK_DEADLOCK FALSE
INVARIANTS
  NeverTheOtherEnd
  AllOrNothing
PROPERTY
  Ends
