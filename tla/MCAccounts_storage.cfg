SPECIFICATION Spec
CONSTANTS
  r = r
  d = d
  r1 = r1
  r2 = r2
  d1 = d1
  d2 = d2
  e1 = e1
  e2 = e2
  Users <- MCUsers
  Demos <- MCDemos
  Albums <- MCAlbums
  Owner <- MCOwner
  Evictions <- MCEvictions
  Cap = 1
  MaxUploads = 2
  MaxFaults = 1
SYMMETRY Symmetry
INVARIANT DeletedLeavesNothing
INVARIANT DemoWhole
INVARIANT EvictsInOrder
CHECK_DEADLOCK FALSE
