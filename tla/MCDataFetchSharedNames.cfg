SPECIFICATION Spec
CONSTANTS
  t1 = t1
  t2 = t2
  s1 = s1
  s2 = s2
  n1 = n1
  n2 = n2
  NoName = NoName
  Task <- OneTask
  Known <- OneTask
  Sensor <- OneSensor
  GroupSensor <- OneSensor
  Name <- TwoNames
  SharedNames = TRUE
  MaxEntities = 1
  MaxItems = 2
  MaxSent = 2
  MaxCrashes = 0
\* Results are finitely many: the system stops when they are handled.
CHECK_DEADLOCK FALSE
INVARIANT LinkedFileIsOwn
