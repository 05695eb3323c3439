SPECIFICATION FairSpec
CONSTANTS
  p1 = p1
  p2 = p2
  r1 = r1
  r2 = r2
  None = None
  Pictures <- TwoPictures
  Requests <- OneRequest
  Overlap = FALSE
  MaxWrites = 2
  MaxFaults = 1
INVARIANT RowOfPicture
INVARIANT UndoRestores
PROPERTY HashArrives
CHECK_DEADLOCK FALSE
