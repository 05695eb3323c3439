SPECIFICATION MCSpec
CONSTANTS
  a = a
  b = b
  Streams <- TwoStreams
  Slots = 1
  Parts = 2
  MaxFaults = 1
INVARIANT DeliveredHasFile
INVARIANT DownloadServes
INVARIANT Released
PROPERTY SettlesDown
CHECK_DEADLOCK FALSE
