SPECIFICATION FairSpec
CONSTANTS
  a = a
  b = b
  c = c
  Old = Old
  Nobody = Nobody
  Absent = Absent
  Uploads <- TwoUploads
  HadAlbum = FALSE
  MaxAttempts = 3
  MaxFaults = 4
INVARIANT MarkerTellsContent
INVARIANT OneCopy
INVARIANT AtRest
PROPERTY AllSettle
CHECK_DEADLOCK FALSE
