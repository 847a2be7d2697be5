SPECIFICATION FairSpec
CONSTANTS
  u1 = u1
  u2 = u2
  u3 = u3
  c1 = c1
  c2 = c2
  Initial = Initial
  Other = Other
  Account <- TwoAccounts
  Client <- TwoClients
  Name <- TwoNames
  Default = Initial
  MaxCrashes = 1
\* Accounts run out: calls may all be answered with nobody left to log in.
CHECK_DEADLOCK FALSE
INVARIANTS TypeOK AdminCallIsByAdmin DefaultUserIsThere
PROPERTY RevocationTakesEffect
