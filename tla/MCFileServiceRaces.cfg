SPECIFICATION Spec
CONSTANTS
  f1 = f1
  f2 = f2
  r1 = r1
  r2 = r2
  d1 = d1
  d2 = d2
  File <- OneFile
  Request <- TwoRequests
  Deletion <- TwoDeletions
  MaxCrashes = 1
\* Calls are finitely many: the system stops when they are answered.
CHECK_DEADLOCK FALSE
SYMMETRY Symmetric
INVARIANTS TypeOK StorageTracked SettledFileIsCoherent DeletedObjectIsReclaimed
PROPERTIES ExposureSurvives LinksFollowObjects
