SPECIFICATION Spec
CONSTANTS
  c1 = c1
  c2 = c2
  A = A
  B = B
  d = d
  x = x
  y = y
  Call <- TwoCalls
  Request <- Requests
  Type <- TwoTypes
  Plain <- OnePlain
  Custom <- TwoCustom
  Initial = 2
  MaxSensors = 4
  PageSize <- Sizes
SYMMETRY CallsAlike
\* Calls are finitely many: the system stops when they are answered.
CHECK_DEADLOCK FALSE
INVARIANTS TypeOK NoWriteLost AnswerNamesTheUpdated MissedOnlyByShift RepeatedOnlyByShift PageFitsTotal
