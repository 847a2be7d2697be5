SPECIFICATION Spec
CONSTANTS
  a = a
  A = A
  b = b
  x = x
  g = g
  h = h
  Triple <- Triples
  Bare <- OnlyX
  CaseOf <- Folded
  GroupMO <- GroupIds
  Message <- Messages
  MaxMessages = 2
  MaxCalls = 2
  MaxCrashes = 1
\* Messages and calls are finitely many: the system stops when they are done.
CHECK_DEADLOCK FALSE
INVARIANTS TypeOK SyncMakesNoSecond AppliedMessageIsSynced
PROPERTY GroupsOnlyGrow
