SPECIFICATION Spec
CONSTANTS
  u1 = u1
  u2 = u2
  r1 = r1
  r2 = r2
  Nobody = Nobody
  Uploads <- TwoUploads
  Requests <- TwoRequests
  Size <- UnitSize
  Workspace = 1
  MaxFaults = 1
SYMMETRY Symmetry
CONSTRAINT BeforeTheChoice
INVARIANT AdmissionBound
CHECK_DEADLOCK FALSE
