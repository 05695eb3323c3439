SPECIFICATION FairSpec
CONSTANTS
  o1 = o1
  o2 = o2
  o3 = o3
  c1 = c1
  NoOp = NoOp
  Ops <- ThreeOps
  Clients <- OneClient
  Progress = 1
  MaxImports = 1
  Failures = {"crash", "run", "save", "workflow"}
  MaxFaults = 1
INVARIANT TypeOK
INVARIANT OneActive
INVARIANT SavedOnce
INVARIANT SucceededIsSaved
INVARIANT AllDelivered
INVARIANT OutcomeTold
INVARIANT EventsGapFree
PROPERTY SavesLatestImport
PROPERTY StreamEnds
CHECK_DEADLOCK FALSE
