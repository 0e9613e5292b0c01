SPECIFICATION Spec
CONSTANTS
  Nothing = Nothing
  Assets = {a1, a2}
  Generations = {g1, g2}
  ContentTypes = {mp4}
  MaxBytes <- MCMaxBytes
  Sizes = {1, 2}
  MaxAttempts = 2
SYMMETRY MCSymmetry
CONSTRAINT OneRetry
\* Nobody need come back.
CHECK_DEADLOCK FALSE
INVARIANTS
  ReadAsAdmitted
  MissedForACause
