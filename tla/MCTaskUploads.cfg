SPECIFICATION FairSpec
CONSTANTS
  c1 = c1
  c2 = c2
  k1 = k1
  k2 = k2
  f1 = f1
  f2 = f2
  n1 = n1
  n2 = n2
  Call <- TwoCalls
  ModeCall <- NoSet
  File <- TwoFiles
  Name <- TwoNames
  Unusable <- NoSet
  Undescribed <- Second
  MaxRuns = 1
  MaxCrashes = 1
\* Calls and runs are finitely many: the system stops when they are done.
CHECK_DEADLOCK FALSE
INVARIANTS TypeOK StoredTaskIsScheduled SettledStatusAgrees UploadIsRecorded NamesDiffer FileUploadedOnce
PROPERTY UploadGetsRecorded ReportsAreFollowed
