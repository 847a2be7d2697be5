SPECIFICATION FairSpec
CONSTANTS
  f1 = f1
  f2 = f2
  r1 = r1
  r2 = r2
  d1 = d1
  d2 = d2
  File <- TwoFiles
  Request <- OneRequest
  Deletion <- OneDeletion
  MaxCrashes = 1
\* Calls are finitely many: the system stops when they are answered.
CHECK_DEADLOCK FALSE
PROPERTY ChangeEnds
