SPECIFICATION Spec
CONSTANTS
  a = a
  b = b
  c = c
  Old = Old
  Nobody = Nobody
  Absent = Absent
  Uploads <- TwoUploads
  HadAlbum = TRUE
  MaxAttempts = 3
  MaxFaults = 1
INVARIANT OneFinalizationPerUser
CHECK_DEADLOCK FALSE
