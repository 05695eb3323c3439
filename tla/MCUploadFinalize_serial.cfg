SPECIFICATION SerialSpec
CONSTANTS
  a = a
  b = b
  c = c
  Old = Old
  Nobody = Nobody
  Absent = Absent
  Uploads <- ThreeUploads
  HadAlbum = TRUE
  MaxAttempts = 3
  MaxFaults = 4
INVARIANT AlbumKept
INVARIANT NewestInPlace
PROPERTY SwapsOnce
CHECK_DEADLOCK FALSE
