\* One of the instances of section 5 of README.md; the others change the
\* constants and the property its table names.
CONSTANTS
  NoAccount = NoAccount
  ada = ada
  cira = cira
  dodo = dodo
  r1 = r1
  r2 = r2
  Accounts <- House
  RoleOf <- HouseRoles
  Opening <- AtWork
  Lists <- TheLists
  Statuses <- BothStatuses
  Requests = {r1, r2}
  MaxAttempts = 2
  MaxTokens = 1
  MaxLinks = 1
  MaxInFlight = 2
  MaxCalls = 4
  Ops <- GateOps
  Doors <- SomeDoors
SPECIFICATION Spec
INVARIANTS
  EntersWithPresentRights
CHECK_DEADLOCK FALSE
