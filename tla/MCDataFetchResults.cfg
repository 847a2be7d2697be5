SPECIFICATION Spec
CONSTANTS
  t1 = t1
  t2 = t2
  s1 = s1
  s2 = s2
  n1 = n1
  n2 = n2
  NoName = NoName
  Task <- TwoTasks
  Known <- OneTask
  Sensor <- TwoSensors
  GroupSensor <- TwoSensors
  Name <- TwoNames
  SharedNames = FALSE
  MaxEntities = 1
  MaxItems = 2
  MaxSent = 2
  MaxCrashes = 1
\* Results are finitely many: the system stops when they are handled.
CHECK_DEADLOCK FALSE
SYMMETRY Symmetric
INVARIANTS TypeOK EntriesDistinct LinkedFileIsOwn AppliedResultIsRecorded RecordedOnce
PROPERTY EntriesKept
