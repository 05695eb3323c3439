SPECIFICATION FairSpec
CONSTANTS
  u1 = u1
  u2 = u2
  r1 = r1
  r2 = r2
  Nobody = Nobody
  Uploads <- OneUpload
  Requests <- TwoRequests
  Size <- UnitSize
  Workspace = 1
  MaxFaults = 1
INVARIANT FinishedLeavesNothing
INVARIANT SucceededIsImported
INVARIANT ArchiveWhileNeeded
PROPERTY WorkflowEnds
CHECK_DEADLOCK FALSE
