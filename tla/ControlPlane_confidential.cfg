SPECIFICATION Spec
CONSTANTS
  Requests = {h1, h2}
  Refs = {r1}
  Confidential = TRUE
  MaxAttempts = 2
SYMMETRY Slots
CHECK_DEADLOCK FALSE
INVARIANTS
  TypeOK
  StoredSealed
  AdvertisedIsStored
  SnapshotIsRight
  ReferencesOutliveUse
  ForgottenIsDeleted
