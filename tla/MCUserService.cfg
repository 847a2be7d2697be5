SPECIFICATION FairSpec
CONSTANTS
  u1 = u1
  u2 = u2
  c1 = c1
  c2 = c2
  c3 = c3
  Admin = Admin
  Other = Other
  account = account
  tenant = tenant
  new = new
  Null = Null
  Account <- TwoAccounts
  Call <- ThreeCalls
  Name <- TwoNames
  Default = Admin
  Field <- TwoFields
  Value <- OneValue
  MaxCrashes = 1
\* Calls are finitely many: the system stops when they are answered.
CHECK_DEADLOCK FALSE
INVARIANTS TypeOK SettledUserAgrees
PROPERTIES CredentialsStayComplete UserGetsSynced
